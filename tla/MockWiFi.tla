------------------------------- MODULE MockWiFi -------------------------------
(***************************************************************************)
(* The mock WiFi of EpoxyDuino (libraries/EpoxyMockWiFi/WiFi.cpp): mode,   *)
(* connection, access point and scan, and the queue of events that the     *)
(* yield service delivers later, one per pass, to the sketch's listener.   *)
(* A call takes effect at once; what the listener hears lags behind.  The  *)
(* listener is called after its event has left the queue and may call the  *)
(* API: those calls are steps of their own that follow the pass.           *)
(***************************************************************************)
EXTENDS Naturals, SequencesExt

CONSTANTS
  ConnectDelay,  \* the delay of a connection event (2 ms)
  AddressDelay,  \* that of the event for its address (4 ms)
  ScanDelay,     \* max_ms_per_chan of a scan
  MaxTime,       \* bound: no call is made later
  MaxCalls       \* bound: how many calls are made in all

ASSUME DelaysAssumption == {ConnectDelay, AddressDelay, ScanDelay} \subseteq Nat
ASSUME BoundsAssumption == MaxTime \in Nat /\ MaxCalls \in Nat

VARIABLES
  mode, status, ip, staticIPConfigured,
  odd,         \* _flappyCounter is odd
  apEnabled, staStarted, apStarted,
  scanning,    \* _scanInProgress
  hasResult,   \* _scanHasResult
  readyAt,     \* _scanReadyAt
  view,        \* _scanView: "all" the networks or the "visible" ones
  count,       \* _scanResultCount: the size of that view, or "none" for 0
  listening,   \* an event handler or callback is registered
  pending,     \* _pendingEvents
  now,         \* millis()
  calls,       \* what is left of MaxCalls
  asked,       \* history: the view that the last accepted scan asked for
  heard,       \* history: what the listener concludes from the events so far
  wasReset     \* history: mockReset() has been called

apVars      == <<apEnabled, apStarted>>
stationVars == <<mode, status, ip, staticIPConfigured, odd, staStarted>>
scanVars    == <<scanning, hasResult, readyAt, view, count, asked>>
eventVars   == <<listening, pending, heard>>
vars == <<apVars, stationVars, scanVars, eventVars, now, calls, wasReset>>

\* The mock's networks by what begin() makes of them: EPX_OK and those like it,
\* EPX_NOIP, EPX_FLAPPY, and the ones that refuse (or do not exist), whose three
\* statuses are one here, "FAILED".
Networks == {"ok", "noip", "flappy", "refused"}
WiFiModes == {"OFF", "STA", "AP", "AP_STA"}
Views    == {"all", "visible"}
Kinds    == {"STA_START", "STA_STOP", "CONNECTED", "DISCONNECTED", "GOT_IP",
             "AP_START", "AP_STOP", "SCAN_DONE"}

View(showHidden) == IF showHidden THEN "all" ELSE "visible"

Defaults ==
  /\ mode = "OFF" /\ status = "DISCONNECTED"
  /\ ip = "none" /\ staticIPConfigured = FALSE /\ odd = FALSE
  /\ apEnabled = FALSE /\ staStarted = FALSE /\ apStarted = FALSE
  /\ scanning = FALSE /\ hasResult = FALSE /\ readyAt = 0
  /\ view = "all" /\ count = "none"
  /\ pending = <<>>

Init ==
  /\ Defaults
  /\ listening = FALSE
  /\ now = 0
  /\ calls = MaxCalls
  /\ asked = "all"
  /\ heard = [sta |-> "unknown", link |-> "unknown", address |-> FALSE,
              ap |-> "unknown"]
  /\ wasReset = FALSE

-----------------------------------------------------------------------------
(* Events.                                                                  *)

Event(kind, delay) == <<[kind |-> kind, due |-> now + delay]>>

\* The event for a part that was started or stopped, if it was.
Switched(before, after, start, stop) ==
  IF before = after THEN <<>> ELSE Event(IF after THEN start ELSE stop, 0)

StationSwitched == Switched(staStarted, staStarted', "STA_START", "STA_STOP")
APSwitched      == Switched(apStarted, apStarted', "AP_START", "AP_STOP")

\* _queueEvent(): without a listener an event is dropped.
Queue(events) == pending' = IF listening THEN pending \o events ELSE pending

Call == calls > 0 /\ now <= MaxTime /\ calls' = calls - 1

OnEvent ==
  /\ ~listening
  /\ listening' = TRUE
  /\ UNCHANGED <<apVars, stationVars, scanVars, pending, heard, now, calls,
                 wasReset>>

-----------------------------------------------------------------------------
(* The station.                                                             *)

Connects(network) ==
  \/ network \in {"ok", "noip"}
  \/ network = "flappy" /\ ~odd

\* Mutant: a failed attempt is not announced.
BeginSilent(network) ==
  /\ Call
  /\ mode' = IF apEnabled THEN "AP_STA" ELSE "STA"
  /\ staStarted' = TRUE
  /\ odd' = IF network = "flappy" THEN ~odd ELSE odd
  /\ status' = IF Connects(network) THEN "CONNECTED" ELSE "FAILED"
  /\ ip' = IF staticIPConfigured THEN ip
           ELSE IF Connects(network) /\ network # "noip" THEN "host" ELSE "none"
  /\ Queue(StationSwitched \o
           (IF ~Connects(network) THEN <<>>
            ELSE Event("CONNECTED", ConnectDelay) \o
                 (IF ip' = "none" THEN <<>> ELSE Event("GOT_IP", AddressDelay))))
  /\ UNCHANGED <<staticIPConfigured, apVars, scanVars, listening, heard, now,
                 wasReset>>

Begin(network) ==
  /\ Call
  /\ mode' = IF apEnabled THEN "AP_STA" ELSE "STA"
  /\ staStarted' = TRUE
  /\ odd' = IF network = "flappy" THEN ~odd ELSE odd
  /\ status' = IF Connects(network) THEN "CONNECTED" ELSE "FAILED"
  /\ ip' = IF staticIPConfigured THEN ip
           ELSE IF Connects(network) /\ network # "noip" THEN "host" ELSE "none"
  /\ Queue(StationSwitched \o
           (IF ~Connects(network) THEN Event("DISCONNECTED", ConnectDelay)
            ELSE Event("CONNECTED", ConnectDelay) \o
                 (IF ip' = "none" THEN <<>> ELSE Event("GOT_IP", AddressDelay))))
  /\ UNCHANGED <<staticIPConfigured, apVars, scanVars, listening, heard, now,
                 wasReset>>

Config ==
  /\ Call
  /\ ip' = "static"
  /\ staticIPConfigured' = TRUE
  /\ UNCHANGED <<mode, status, odd, staStarted, apVars, scanVars, eventVars, now,
                 wasReset>>

Disconnect(wifioff) ==
  /\ Call
  /\ status' = "DISCONNECTED"
  /\ mode' = IF wifioff THEN "OFF" ELSE mode
  /\ staStarted' = (staStarted /\ ~wifioff)
  /\ Queue((IF staStarted THEN Event("DISCONNECTED", 0) ELSE <<>>)
           \o StationSwitched)
  /\ UNCHANGED <<ip, staticIPConfigured, odd, apVars, scanVars, listening, heard,
                 now, wasReset>>

-----------------------------------------------------------------------------
(* The access point, and the mode.                                          *)

SoftAP ==
  /\ Call
  /\ apEnabled' = TRUE
  /\ apStarted' = TRUE
  /\ mode' = IF mode \in {"STA", "AP_STA"} THEN "AP_STA" ELSE "AP"
  /\ Queue(APSwitched)
  /\ UNCHANGED <<status, ip, staticIPConfigured, odd, staStarted, scanVars,
                 listening, heard, now, wasReset>>

SoftAPDisconnect(wifioff) ==
  /\ Call
  /\ apEnabled' = FALSE
  /\ apStarted' = FALSE
  /\ IF wifioff
       THEN mode' = "OFF" /\ status' = "DISCONNECTED" /\ staStarted' = FALSE
       ELSE /\ mode' = IF mode = "AP_STA" THEN "STA" ELSE "OFF"
            /\ UNCHANGED <<status, staStarted>>
  /\ Queue(APSwitched \o StationSwitched)
  /\ UNCHANGED <<ip, staticIPConfigured, odd, scanVars, listening, heard, now,
                 wasReset>>

Mode(m) ==
  /\ Call
  /\ mode' = m
  /\ status' = IF m = "OFF" THEN "DISCONNECTED" ELSE status
  /\ staStarted' = (m # "OFF" /\ (m = "AP" => staStarted))
  /\ apStarted' = (m # "OFF" /\ (m = "STA" => apStarted))
  /\ Queue(StationSwitched \o APSwitched)
  /\ UNCHANGED <<apEnabled, ip, staticIPConfigured, odd, scanVars, listening, heard,
                 now, wasReset>>

EnableSTA(enable) ==
  /\ Call
  /\ mode' = IF enable THEN IF mode = "AP" THEN "AP_STA" ELSE "STA"
             ELSE IF mode = "AP_STA" THEN "AP" ELSE "OFF"
  /\ UNCHANGED <<status, ip, staticIPConfigured, odd, staStarted, apVars, scanVars,
                 eventVars, now, wasReset>>

EnableAP(enable) ==
  /\ Call
  /\ mode' = IF enable THEN IF mode = "STA" THEN "AP_STA" ELSE "AP"
             ELSE IF mode = "AP_STA" THEN "STA" ELSE "OFF"
  /\ UNCHANGED <<status, ip, staticIPConfigured, odd, staStarted, apVars, scanVars,
                 eventVars, now, wasReset>>

-----------------------------------------------------------------------------
(* Scans.                                                                   *)

\* Mutant: the view is rebuilt before the test for a running scan.
ScanNetworksOver(async, showHidden) ==
  /\ Call
  /\ view' = View(showHidden)
  /\ count' = view'
  /\ IF scanning
       THEN UNCHANGED <<scanning, hasResult, readyAt, asked>>
       ELSE /\ scanning' = async
            /\ hasResult' = ~async
            /\ readyAt' = IF async THEN now + ScanDelay ELSE 0
            /\ asked' = View(showHidden)
  /\ UNCHANGED <<apVars, stationVars, eventVars, now, wasReset>>

\* While a scan runs another one is refused, which changes nothing.
ScanNetworks(async, showHidden) ==
  /\ Call
  /\ ~scanning
  /\ view' = View(showHidden)
  /\ count' = view'
  /\ scanning' = async
  /\ hasResult' = ~async
  /\ readyAt' = IF async THEN now + ScanDelay ELSE 0
  /\ asked' = View(showHidden)
  /\ UNCHANGED <<apVars, stationVars, eventVars, now, wasReset>>

\* _serviceAsyncScan().
ScanReady == scanning /\ now >= readyAt

ServiceScan ==
  /\ scanning' = FALSE
  /\ hasResult' = TRUE
  /\ UNCHANGED <<readyAt, view, count, asked>>

ScanComplete ==
  /\ ScanReady
  /\ ServiceScan
  /\ Queue(Event("SCAN_DONE", 0))
  /\ UNCHANGED <<apVars, stationVars, listening, heard, now, calls, wasReset>>

ScanDelete ==
  /\ Call
  /\ scanning' = FALSE /\ hasResult' = FALSE /\ readyAt' = 0
  /\ view' = "all" /\ count' = "none"
  /\ UNCHANGED <<asked, apVars, stationVars, eventVars, now, wasReset>>

MockReset ==
  /\ Call
  /\ mode' = "OFF" /\ status' = "DISCONNECTED"
  /\ ip' = "none" /\ staticIPConfigured' = FALSE /\ odd' = FALSE
  /\ apEnabled' = FALSE
  /\ scanning' = FALSE /\ hasResult' = FALSE /\ readyAt' = 0
  /\ view' = "all" /\ count' = "none"
  /\ wasReset' = TRUE
  /\ UNCHANGED <<staStarted, apStarted, asked, eventVars, now>>

-----------------------------------------------------------------------------
(* The yield service: first the scan, then the front of the queue.          *)

\* What the listener makes of an event: a station that stops is not connected.
Hear(known, kind) ==
  [sta  |-> CASE kind = "STA_START" -> "up" [] kind = "STA_STOP" -> "down"
            [] OTHER -> known.sta,
   link |-> CASE kind = "CONNECTED" -> "up"
            [] kind \in {"DISCONNECTED", "STA_STOP"} -> "down"
            [] OTHER -> known.link,
   address |-> CASE kind = "GOT_IP" -> TRUE
               [] kind \in {"DISCONNECTED", "STA_STOP"} -> FALSE
               [] OTHER -> known.address,
   ap   |-> CASE kind = "AP_START" -> "up" [] kind = "AP_STOP" -> "down"
            [] OTHER -> known.ap]

Scanned == IF ScanReady /\ listening
             THEN pending \o Event("SCAN_DONE", 0)
             ELSE pending

\* Mutants: an event is delivered as soon as it is due, also from behind one that
\* is not; only in the millisecond it is due.
DeliverAnyDue(queue) ==
  LET i == SelectLastInSeq(queue, LAMBDA e : e.due <= now)
  IN IF i # 0
       THEN pending' = RemoveAt(queue, i) /\ heard' = Hear(heard, queue[i].kind)
       ELSE pending' = queue /\ UNCHANGED heard

DeliverInTime(queue) ==
  IF queue # <<>> /\ Head(queue).due = now
    THEN pending' = Tail(queue) /\ heard' = Hear(heard, Head(queue).kind)
    ELSE pending' = queue /\ UNCHANGED heard

\* _servicePendingEvents().
Deliver(queue) ==
  IF queue # <<>> /\ Head(queue).due <= now
    THEN pending' = Tail(queue) /\ heard' = Hear(heard, Head(queue).kind)
    ELSE pending' = queue /\ UNCHANGED heard

YieldService ==
  /\ IF ScanReady THEN ServiceScan ELSE UNCHANGED scanVars
  /\ Deliver(Scanned)
  /\ UNCHANGED <<apVars, stationVars, listening, now, calls, wasReset>>

-----------------------------------------------------------------------------

\* Time passes, until the last call has had its effect.
Tick ==
  /\ \/ now < MaxTime
     \/ \E i \in 1 .. Len(pending) : pending[i].due > now
     \/ scanning /\ readyAt > now
  /\ now' = now + 1
  /\ UNCHANGED <<apVars, stationVars, scanVars, eventVars, calls, wasReset>>

Sketch ==
  \/ OnEvent
  \/ \E network \in Networks : Begin(network)
  \/ Config
  \/ SoftAP
  \/ \E flag \in BOOLEAN :
       Disconnect(flag) \/ SoftAPDisconnect(flag) \/ EnableSTA(flag) \/ EnableAP(flag)
  \/ \E m \in WiFiModes : Mode(m)
  \/ \E async, showHidden \in BOOLEAN : ScanNetworks(async, showHidden)
  \/ ScanDelete
  \/ MockReset

Next == Sketch \/ ScanComplete \/ YieldService \/ Tick

Spec == Init /\ [][Next]_vars

\* pump() runs the yield services again and again (module Pump), and time passes.
FairSpec == Spec /\ WF_vars(YieldService) /\ WF_vars(Tick)

-----------------------------------------------------------------------------

\* The type of the state.
TypeOK ==
  /\ mode \in WiFiModes
  /\ status \in {"CONNECTED", "FAILED", "DISCONNECTED"}
  /\ ip \in {"none", "host", "static"}
  /\ staticIPConfigured \in BOOLEAN /\ odd \in BOOLEAN
  /\ apEnabled \in BOOLEAN /\ staStarted \in BOOLEAN /\ apStarted \in BOOLEAN
  /\ scanning \in BOOLEAN /\ hasResult \in BOOLEAN
  /\ readyAt \in Nat
  /\ view \in Views /\ count \in Views \cup {"none"} /\ asked \in Views
  /\ listening \in BOOLEAN
  /\ pending \in Seq([kind : Kinds, due : Nat])
  /\ now \in Nat
  /\ calls \in 0 .. MaxCalls
  /\ heard \in [sta : {"unknown", "up", "down"}, link : {"unknown", "up", "down"},
                address : BOOLEAN, ap : {"unknown", "up", "down"}]
  /\ wasReset \in BOOLEAN

\* No event of these kinds is queued; the last event of these kinds that is queued
\* is one that says so.
NoneOf(events, kinds) == \A i \in 1 .. Len(events) : events[i].kind \notin kinds
LastOf(events, kinds, said) ==
  \E i \in 1 .. Len(events) :
    /\ events[i].kind \in said
    /\ \A j \in i + 1 .. Len(events) : events[j].kind \notin kinds

\* Once the listener has heard what is still queued, what it concludes of a part
\* from the last event about it, if any, is how that part is.
Agrees(concluded, ups, downs, actual) ==
  \/ /\ NoneOf(pending, ups \cup downs)
     /\ concluded \in {"unknown", IF actual THEN "up" ELSE "down"}
  \/ LastOf(pending, ups \cup downs, IF actual THEN ups ELSE downs)

\* The listener is never misled: what it concludes from the events, those still
\* queued included, is what the mock reports if it is asked, through any sequence
\* of begin(), disconnect(), softAP() and mode().  (mockReset() takes the
\* connection away without an event.)
ListenerInSync ==
  /\ Agrees(heard.sta, {"STA_START"}, {"STA_STOP"}, staStarted)
  /\ Agrees(heard.ap, {"AP_START"}, {"AP_STOP"}, apStarted)
  /\ ~wasReset => Agrees(heard.link, {"CONNECTED"}, {"DISCONNECTED", "STA_STOP"},
                         status = "CONNECTED")

\* An address is announced only while, for the listener, the station is connected:
\* whatever was called in between, no event overtakes another.
GotAddressWhileConnected == heard.address => heard.link = "up"

\* A scan result answers the request that was accepted: what the accessors read
\* (and the number reported) is what that scan was asked to show, although others
\* were refused, deleted or run in the meantime.
ScanAnswersRequest ==
  scanning \/ hasResult => view = asked /\ count = asked

\* Every queued event is delivered, though a pass delivers one at most and an event
\* that is not due yet holds up those behind it.
QueueDrains == pending # <<>> ~> pending = <<>>

\* mockReset() is to "restore all state to construction defaults".
ResetRestoresDefaults == [][MockReset => Defaults']_vars
=============================================================================
