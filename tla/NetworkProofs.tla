----------------------------- MODULE NetworkProofs -----------------------------
(***************************************************************************)
(* Theorems about MockWiFi, for all delays and bounds, and a queue of any  *)
(* length: its type, that scans answer the request that was accepted, that *)
(* an address is announced only to a listener that is connected, and that  *)
(* the events never mislead the listener.                                  *)
(* And what the mDNS library keeps is exact, for any number of searches,   *)
(* lists and services, and any reports: the searches' count and results,   *)
(* the result lists, the results of a query, and what is published.        *)
(***************************************************************************)
EXTENDS MCNetwork, FiniteSetTheorems, WellFoundedInduction, TLAPS

EventType == [kind : Kinds, due : Nat]

\* In a list of new events, an address comes right after its connection.
Announced(events) ==
  \A i \in 1 .. Len(events) :
    events[i].kind = "GOT_IP" => i > 1 /\ events[i - 1].kind = "CONNECTED"

\* In the queue too, unless the connection has just been delivered.
AddressNext(queue, link) ==
  \A i \in 1 .. Len(queue) :
    queue[i].kind = "GOT_IP" =>
      IF i = 1 THEN link = "up" ELSE queue[i - 1].kind = "CONNECTED"

AddressKept ==
  /\ GotAddressWhileConnected
  /\ AddressNext(pending, heard.link)

IInv == TypeOK /\ ScanAnswersRequest /\ AddressKept

-----------------------------------------------------------------------------
(* The type, in parts that a step disturbs in different ways.               *)

Numbers == readyAt \in Nat /\ now \in Nat /\ calls \in 0 .. MaxCalls

Flags ==
  /\ staticIPConfigured \in BOOLEAN /\ odd \in BOOLEAN
  /\ apEnabled \in BOOLEAN /\ staStarted \in BOOLEAN /\ apStarted \in BOOLEAN
  /\ scanning \in BOOLEAN /\ hasResult \in BOOLEAN
  /\ listening \in BOOLEAN /\ wasReset \in BOOLEAN

Names ==
  /\ mode \in WiFiModes
  /\ status \in {"CONNECTED", "FAILED", "DISCONNECTED"}
  /\ ip \in {"none", "host", "static"}
  /\ view \in Views /\ count \in Views \cup {"none"} /\ asked \in Views

Known == [sta : {"unknown", "up", "down"}, link : {"unknown", "up", "down"},
          address : BOOLEAN, ap : {"unknown", "up", "down"}]

EventsTyped == pending \in Seq(EventType) /\ heard \in Known

\* What a step does to the queue and to the listener.
EventsKept == EventsTyped /\ AddressKept

LEMMA TypeParts == TypeOK <=> Numbers /\ Flags /\ Names /\ EventsTyped
  BY DEF TypeOK, Numbers, Flags, Names, EventsTyped, EventType, Known

LEMMA NumbersKept ==
  ASSUME Numbers, Next
  PROVE  Numbers'
<1>1. readyAt' \in {readyAt, now + ScanDelay, 0}
  BY DEF Next, Sketch, OnEvent, Begin, Config, SoftAP, Disconnect, SoftAPDisconnect,
         EnableSTA, EnableAP, Mode, ScanNetworks, ScanDelete, MockReset, ScanComplete,
         YieldService, Tick, ServiceScan, scanVars
<1>2. now' \in {now, now + 1}
  BY DEF Next, Sketch, OnEvent, Begin, Config, SoftAP, Disconnect, SoftAPDisconnect,
         EnableSTA, EnableAP, Mode, ScanNetworks, ScanDelete, MockReset, ScanComplete,
         YieldService, Tick
<1>3. UNCHANGED calls \/ (calls > 0 /\ calls' = calls - 1)
  BY DEF Next, Sketch, OnEvent, Begin, Config, SoftAP, Disconnect, SoftAPDisconnect,
         EnableSTA, EnableAP, Mode, ScanNetworks, ScanDelete, MockReset, ScanComplete,
         YieldService, Tick, Call
<1> QED BY <1>1, <1>2, <1>3, DelaysAssumption, BoundsAssumption DEF Numbers

LEMMA FlagsKept ==
  ASSUME Flags, Next
  PROVE  Flags'
<1>1. CASE OnEvent \/ ScanComplete \/ YieldService \/ Tick
  BY <1>1 DEF Flags, OnEvent, ScanComplete, YieldService, Tick, ServiceScan, ScanReady,
              scanVars, apVars, stationVars, eventVars
<1>2. CASE \E network \in Networks : Begin(network)
  BY <1>2 DEF Flags, Begin, apVars, scanVars
<1>3. CASE Config \/ SoftAP \/ \E flag \in BOOLEAN : EnableSTA(flag) \/ EnableAP(flag)
  BY <1>3 DEF Flags, Config, SoftAP, EnableSTA, EnableAP, apVars, scanVars, eventVars
<1>4. CASE \E flag \in BOOLEAN : Disconnect(flag) \/ SoftAPDisconnect(flag)
  <2>1. PICK flag \in BOOLEAN : Disconnect(flag) \/ SoftAPDisconnect(flag)
    BY <1>4
  <2>2. CASE Disconnect(flag)
    BY <2>2 DEF Flags, Disconnect, apVars, scanVars
  <2>3. CASE SoftAPDisconnect(flag)
    BY <2>3 DEF Flags, SoftAPDisconnect, scanVars
  <2> QED BY <2>1, <2>2, <2>3
<1>5. CASE \E m \in WiFiModes : Mode(m)
  BY <1>5 DEF Flags, Mode, scanVars
<1>6. CASE \/ ScanDelete \/ MockReset
           \/ \E async, showHidden \in BOOLEAN : ScanNetworks(async, showHidden)
  BY <1>6 DEF Flags, ScanDelete, MockReset, ScanNetworks, apVars, stationVars, eventVars
<1> QED BY <1>1, <1>2, <1>3, <1>4, <1>5, <1>6 DEF Next, Sketch

LEMMA NamesKept ==
  ASSUME Names, Next
  PROVE  Names'
<1>1. CASE OnEvent \/ ScanComplete \/ YieldService \/ Tick
  BY <1>1 DEF Names, OnEvent, ScanComplete, YieldService, Tick, ServiceScan, scanVars,
              apVars, stationVars, eventVars
<1>2. CASE \E network \in Networks : Begin(network)
  BY <1>2 DEF Names, Begin, scanVars, WiFiModes
<1>3. CASE \/ Config \/ SoftAP
           \/ \E flag \in BOOLEAN : \/ Disconnect(flag) \/ SoftAPDisconnect(flag)
                                    \/ EnableSTA(flag) \/ EnableAP(flag)
  BY <1>3 DEF Names, Config, SoftAP, Disconnect, SoftAPDisconnect, EnableSTA, EnableAP,
              scanVars, WiFiModes
<1>4. CASE \E m \in WiFiModes : Mode(m)
  BY <1>4 DEF Names, Mode, scanVars, WiFiModes
<1>5. CASE \/ ScanDelete \/ MockReset
           \/ \E async, showHidden \in BOOLEAN : ScanNetworks(async, showHidden)
  BY <1>5 DEF Names, ScanDelete, MockReset, ScanNetworks, View, Views, stationVars,
              WiFiModes
<1> QED BY <1>1, <1>2, <1>3, <1>4, <1>5 DEF Next, Sketch

\* The view and the number change only with a scan that is accepted, or when no
\* result is left to read.
LEMMA ScansKept ==
  ASSUME ScanAnswersRequest, Next
  PROVE  ScanAnswersRequest'
  BY DEF ScanAnswersRequest, Next, Sketch, OnEvent, Begin, Config, SoftAP, Disconnect,
         SoftAPDisconnect, EnableSTA, EnableAP, Mode, ScanNetworks, ScanDelete,
         MockReset, ScanComplete, YieldService, Tick, ServiceScan, ScanReady, scanVars

-----------------------------------------------------------------------------
(* The queue.                                                               *)

\* Joining two lists of new events gives one, if each is well-formed.
LEMMA JoinAnnounced ==
  ASSUME NEW a \in Seq(EventType), NEW b \in Seq(EventType),
         Announced(a), Announced(b)
  PROVE  a \o b \in Seq(EventType) /\ Announced(a \o b)
<1>1. a \o b \in Seq(EventType) /\ Len(a \o b) = Len(a) + Len(b)
  OBVIOUS
<1>2. ASSUME NEW i \in 1 .. Len(a \o b), (a \o b)[i].kind = "GOT_IP"
      PROVE  i > 1 /\ (a \o b)[i - 1].kind = "CONNECTED"
  <2>1. CASE i <= Len(a)
    <3>1. i \in 1 .. Len(a) /\ (a \o b)[i] = a[i]
      BY <2>1, <1>1
    <3>2. i > 1 /\ a[i - 1].kind = "CONNECTED"
      BY <3>1, <1>2 DEF Announced
    <3>3. (a \o b)[i - 1] = a[i - 1]
      BY <3>1, <3>2
    <3> QED BY <3>2, <3>3
  <2>2. CASE i > Len(a)
    <3>1. i - Len(a) \in 1 .. Len(b) /\ (a \o b)[i] = b[i - Len(a)]
      BY <2>2, <1>1
    <3>2. i - Len(a) > 1 /\ b[i - Len(a) - 1].kind = "CONNECTED"
      BY <3>1, <1>2 DEF Announced
    <3>3. (a \o b)[i - 1] = b[i - 1 - Len(a)]
      BY <3>1, <3>2, <1>1
    <3> QED BY <3>1, <3>2, <3>3
  <2> QED BY <2>1, <2>2, <1>1
<1> QED BY <1>1, <1>2 DEF Announced

\* Queueing a list of new events keeps the queue's order.
LEMMA AppendKeeps ==
  ASSUME NEW queue \in Seq(EventType), NEW events \in Seq(EventType), NEW link,
         AddressNext(queue, link), Announced(events)
  PROVE  queue \o events \in Seq(EventType) /\ AddressNext(queue \o events, link)
<1> DEFINE joined == queue \o events
<1>1. joined \in Seq(EventType) /\ Len(joined) = Len(queue) + Len(events)
  OBVIOUS
<1>2. ASSUME NEW i \in 1 .. Len(joined), joined[i].kind = "GOT_IP"
      PROVE  IF i = 1 THEN link = "up" ELSE joined[i - 1].kind = "CONNECTED"
  <2>1. CASE i <= Len(queue)
    <3>1. i \in 1 .. Len(queue) /\ joined[i] = queue[i]
      BY <2>1, <1>1
    <3>2. IF i = 1 THEN link = "up" ELSE queue[i - 1].kind = "CONNECTED"
      BY <3>1, <1>2 DEF AddressNext
    <3>3. i # 1 => joined[i - 1] = queue[i - 1]
      BY <3>1
    <3> QED BY <3>2, <3>3
  <2>2. CASE i > Len(queue)
    <3>1. i - Len(queue) \in 1 .. Len(events) /\ joined[i] = events[i - Len(queue)]
      BY <2>2, <1>1
    <3>2. i - Len(queue) > 1 /\ events[i - Len(queue) - 1].kind = "CONNECTED"
      BY <3>1, <1>2 DEF Announced
    <3>3. joined[i - 1] = events[i - 1 - Len(queue)] /\ i # 1
      BY <3>1, <3>2, <1>1
    <3> QED BY <3>1, <3>2, <3>3
  <2> QED BY <2>1, <2>2, <1>1
<1> QED BY <1>1, <1>2 DEF AddressNext

\* One event that is no address is a list of new events.
LEMMA EventAnnounced ==
  ASSUME NEW kind \in Kinds \ {"GOT_IP"}, NEW delay \in Nat, now \in Nat
  PROVE  Event(kind, delay) \in Seq(EventType) /\ Announced(Event(kind, delay))
<1>1. [kind |-> kind, due |-> now + delay] \in EventType
  BY DEF EventType
<1>2. Event(kind, delay) \in Seq(EventType) /\ Len(Event(kind, delay)) = 1
  BY <1>1 DEF Event
<1>3. Event(kind, delay)[1].kind # "GOT_IP"
  BY <1>1 DEF Event
<1> QED BY <1>2, <1>3 DEF Announced

LEMMA NothingAnnounced == <<>> \in Seq(EventType) /\ Announced(<<>>)
  BY DEF Announced

\* Two events, the first of them a connection, are a list of new events.
LEMMA PairAnnounced ==
  ASSUME NEW a \in Seq(EventType), NEW b \in Seq(EventType),
         Len(a) = 1, Len(b) = 1, a[1].kind = "CONNECTED"
  PROVE  a \o b \in Seq(EventType) /\ Announced(a \o b)
<1>1. a \o b \in Seq(EventType) /\ Len(a \o b) = Len(a) + Len(b)
  OBVIOUS
<1>2. Len(a \o b) = 2
  BY <1>1
<1>3. ASSUME NEW i \in 1 .. Len(a \o b), i <= Len(a)
      PROVE  (a \o b)[i] = a[i]
  BY <1>1, <1>3
<1>4. (a \o b)[1] = a[1]
  BY <1>2, <1>3
<1> QED BY <1>1, <1>2, <1>4 DEF Announced

\* A connection and its address.
LEMMA AddressAnnounced ==
  ASSUME NEW d1 \in Nat, NEW d2 \in Nat, now \in Nat
  PROVE  /\ Event("CONNECTED", d1) \o Event("GOT_IP", d2) \in Seq(EventType)
         /\ Announced(Event("CONNECTED", d1) \o Event("GOT_IP", d2))
<1>1. \A kind \in Kinds, d \in Nat :
        /\ Event(kind, d) \in Seq(EventType) /\ Len(Event(kind, d)) = 1
        /\ Event(kind, d)[1].kind = kind
  <2> SUFFICES ASSUME NEW kind \in Kinds, NEW d \in Nat
               PROVE  /\ Event(kind, d) \in Seq(EventType) /\ Len(Event(kind, d)) = 1
                      /\ Event(kind, d)[1].kind = kind
    OBVIOUS
  <2>1. [kind |-> kind, due |-> now + d] \in EventType
    BY DEF EventType
  <2> QED BY <2>1 DEF Event
<1> QED BY <1>1, PairAnnounced DEF Kinds

\* What starts and stops announces is a list of new events.
LEMMA SwitchAnnounced ==
  ASSUME now \in Nat
  PROVE  /\ StationSwitched \in Seq(EventType) /\ Announced(StationSwitched)
         /\ APSwitched \in Seq(EventType) /\ Announced(APSwitched)
<1>1. \A kind \in {"STA_START", "STA_STOP", "AP_START", "AP_STOP"} :
        Event(kind, 0) \in Seq(EventType) /\ Announced(Event(kind, 0))
  BY EventAnnounced DEF Kinds
<1> QED BY <1>1, NothingAnnounced DEF StationSwitched, APSwitched, Switched

\* What a call that queues events disturbs.
LEMMA QueueKeeps ==
  ASSUME EventsKept, NEW events, events \in Seq(EventType), Announced(events),
         Queue(events), UNCHANGED heard
  PROVE  EventsKept'
<1>1. pending' \in Seq(EventType) /\ AddressNext(pending', heard.link)
  BY AppendKeeps DEF EventsKept, EventsTyped, AddressKept, Queue
<1> QED BY <1>1 DEF EventsKept, EventsTyped, AddressKept, GotAddressWhileConnected

-----------------------------------------------------------------------------
(* The steps, and what they do to the events.                               *)

LEMMA BeginKeeps ==
  ASSUME EventsKept, Numbers, NEW network \in Networks, Begin(network)
  PROVE  EventsKept'
<1> DEFINE later == IF ~Connects(network) THEN Event("DISCONNECTED", ConnectDelay)
                    ELSE Event("CONNECTED", ConnectDelay) \o
                         (IF ip' = "none" THEN <<>> ELSE Event("GOT_IP", AddressDelay))
<1>1. now \in Nat /\ ConnectDelay \in Nat /\ AddressDelay \in Nat
  BY DelaysAssumption DEF Numbers
<1>2. /\ Event("DISCONNECTED", ConnectDelay) \in Seq(EventType)
      /\ Announced(Event("DISCONNECTED", ConnectDelay))
      /\ Event("CONNECTED", ConnectDelay) \in Seq(EventType)
      /\ Announced(Event("CONNECTED", ConnectDelay))
  BY <1>1, EventAnnounced DEF Kinds
<1>3. /\ Event("CONNECTED", ConnectDelay) \o <<>> \in Seq(EventType)
      /\ Announced(Event("CONNECTED", ConnectDelay) \o <<>>)
  BY <1>2, NothingAnnounced, JoinAnnounced
<1>4. /\ Event("CONNECTED", ConnectDelay) \o Event("GOT_IP", AddressDelay)
           \in Seq(EventType)
      /\ Announced(Event("CONNECTED", ConnectDelay) \o Event("GOT_IP", AddressDelay))
  BY <1>1, AddressAnnounced
<1>5. later \in Seq(EventType) /\ Announced(later)
  BY <1>2, <1>3, <1>4
<1>6. StationSwitched \o later \in Seq(EventType) /\ Announced(StationSwitched \o later)
  BY <1>1, <1>5, SwitchAnnounced, JoinAnnounced
<1>7. Queue(StationSwitched \o later) /\ UNCHANGED heard
  BY DEF Begin
<1> QED BY <1>6, <1>7, QueueKeeps

LEMMA DisconnectKeeps ==
  ASSUME EventsKept, Numbers, NEW flag \in BOOLEAN, Disconnect(flag)
  PROVE  EventsKept'
<1> DEFINE first == IF staStarted THEN Event("DISCONNECTED", 0) ELSE <<>>
<1>1. now \in Nat
  BY DEF Numbers
<1>2. first \in Seq(EventType) /\ Announced(first)
  BY <1>1, EventAnnounced, NothingAnnounced DEF Kinds
<1>3. first \o StationSwitched \in Seq(EventType) /\ Announced(first \o StationSwitched)
  BY <1>1, <1>2, SwitchAnnounced, JoinAnnounced
<1>4. Queue(first \o StationSwitched) /\ UNCHANGED heard
  BY DEF Disconnect
<1> QED BY <1>3, <1>4, QueueKeeps

\* The calls that start or stop the station and the access point.
LEMMA SwitchKeeps ==
  ASSUME EventsKept, Numbers,
         \/ SoftAP
         \/ \E flag \in BOOLEAN : SoftAPDisconnect(flag)
         \/ \E m \in WiFiModes : Mode(m)
  PROVE  EventsKept'
<1>1. now \in Nat
  BY DEF Numbers
<1>2. /\ APSwitched \in Seq(EventType) /\ Announced(APSwitched)
      /\ APSwitched \o StationSwitched \in Seq(EventType)
      /\ Announced(APSwitched \o StationSwitched)
      /\ StationSwitched \o APSwitched \in Seq(EventType)
      /\ Announced(StationSwitched \o APSwitched)
  BY <1>1, SwitchAnnounced, JoinAnnounced
<1>3. /\ \/ Queue(APSwitched)
         \/ Queue(APSwitched \o StationSwitched)
         \/ Queue(StationSwitched \o APSwitched)
      /\ UNCHANGED heard
  BY DEF SoftAP, SoftAPDisconnect, Mode
<1> QED BY <1>2, <1>3, QueueKeeps

\* Nothing is queued or delivered.
LEMMA SilentKeeps ==
  ASSUME EventsKept, UNCHANGED <<pending, heard>>
  PROVE  EventsKept'
  BY DEF EventsKept, EventsTyped, AddressKept, GotAddressWhileConnected, AddressNext

\* Delivering the front event of a well-ordered queue.
LEMMA DeliverKeeps ==
  ASSUME EventsKept, NEW queue \in Seq(EventType), AddressNext(queue, heard.link),
         Deliver(queue)
  PROVE  EventsKept'
<1>1. heard \in Known /\ (heard.address => heard.link = "up")
  BY DEF EventsKept, EventsTyped, AddressKept, GotAddressWhileConnected
<1>2. CASE pending' = queue /\ UNCHANGED heard
  BY <1>1, <1>2 DEF EventsKept, EventsTyped, AddressKept, GotAddressWhileConnected
<1>3. CASE /\ queue # <<>>
           /\ pending' = Tail(queue) /\ heard' = Hear(heard, Head(queue).kind)
  <2>1. /\ Len(queue) >= 1 /\ Head(queue) = queue[1] /\ queue[1] \in EventType
        /\ pending' \in Seq(EventType) /\ Len(pending') = Len(queue) - 1
        /\ \A i \in 1 .. Len(pending') : pending'[i] = queue[i + 1]
    BY <1>3
  <2>2. queue[1].kind \in Kinds
    BY <2>1 DEF EventType
  <2>3. heard' \in Known
    BY <1>1, <1>3, <2>1, <2>2 DEF Hear, Kinds, Known
  <2>4. queue[1].kind = "GOT_IP" => heard.link = "up"
    BY <2>1 DEF AddressNext
  <2>5. heard'.address => heard'.link = "up"
    BY <1>1, <1>3, <2>1, <2>4 DEF Hear
  <2>6. queue[1].kind = "CONNECTED" => heard'.link = "up"
    BY <1>3, <2>1 DEF Hear
  <2>7. AddressNext(pending', heard'.link)
    <3>1. SUFFICES ASSUME NEW i \in 1 .. Len(pending'), pending'[i].kind = "GOT_IP"
                   PROVE  IF i = 1 THEN heard'.link = "up"
                          ELSE pending'[i - 1].kind = "CONNECTED"
      BY DEF AddressNext
    <3>2. i + 1 \in 1 .. Len(queue) /\ queue[i + 1].kind = "GOT_IP"
      BY <2>1, <3>1
    <3>3. queue[i].kind = "CONNECTED"
      <4>1. i + 1 # 1 /\ (i + 1) - 1 = i
        OBVIOUS
      <4>2. queue[(i + 1) - 1].kind = "CONNECTED"
        BY <2>1, <3>2, <4>1, Zenon DEF AddressNext
      <4> QED BY <4>1, <4>2
    <3>4. i # 1 => pending'[i - 1] = queue[i]
      BY <2>1
    <3> QED BY <2>6, <3>3, <3>4
  <2> QED BY <2>1, <2>3, <2>5, <2>7
          DEF EventsKept, EventsTyped, AddressKept, GotAddressWhileConnected
<1> QED BY <1>2, <1>3 DEF Deliver

LEMMA ScanDoneAnnounced ==
  ASSUME now \in Nat
  PROVE  Event("SCAN_DONE", 0) \in Seq(EventType) /\ Announced(Event("SCAN_DONE", 0))
  BY EventAnnounced DEF Kinds

LEMMA ServiceKeeps ==
  ASSUME EventsKept, Numbers, YieldService
  PROVE  EventsKept'
<1>1. pending \in Seq(EventType) /\ AddressNext(pending, heard.link) /\ now \in Nat
  BY DEF EventsKept, EventsTyped, AddressKept, Numbers
<1>2. Scanned \in Seq(EventType) /\ AddressNext(Scanned, heard.link)
  BY <1>1, ScanDoneAnnounced, AppendKeeps DEF Scanned
<1>3. Deliver(Scanned)
  BY DEF YieldService
<1> QED BY <1>2, <1>3, DeliverKeeps

LEMMA ScanCompleteKeeps ==
  ASSUME EventsKept, Numbers, ScanComplete
  PROVE  EventsKept'
<1>1. Queue(Event("SCAN_DONE", 0)) /\ UNCHANGED heard
  BY DEF ScanComplete
<1> QED BY <1>1, ScanDoneAnnounced, QueueKeeps DEF Numbers

LEMMA EventsStay ==
  ASSUME EventsKept, Numbers, Next
  PROVE  EventsKept'
<1>1. CASE \/ OnEvent \/ Config \/ ScanDelete \/ MockReset \/ Tick
           \/ \E flag \in BOOLEAN : EnableSTA(flag) \/ EnableAP(flag)
           \/ \E async, showHidden \in BOOLEAN : ScanNetworks(async, showHidden)
  <2>1. UNCHANGED <<pending, heard>>
    BY <1>1 DEF OnEvent, Config, ScanDelete, MockReset, Tick, EnableSTA, EnableAP,
                ScanNetworks, eventVars
  <2> QED BY <2>1, SilentKeeps
<1> QED BY <1>1, BeginKeeps, DisconnectKeeps, SwitchKeeps, ServiceKeeps,
           ScanCompleteKeeps DEF Next, Sketch

-----------------------------------------------------------------------------

LEMMA IInvInit == Init => IInv
<1> SUFFICES ASSUME Init PROVE IInv
  OBVIOUS
<1>1. Numbers
  BY BoundsAssumption DEF Init, Defaults, Numbers
<1>2. Flags /\ Names
  BY DEF Init, Defaults, Flags, Names, WiFiModes, Views
<1>3. EventsTyped
  BY DEF Init, Defaults, EventsTyped, Known
<1>4. ScanAnswersRequest
  BY DEF Init, Defaults, ScanAnswersRequest
<1>5. AddressKept
  BY DEF Init, Defaults, AddressKept, GotAddressWhileConnected, AddressNext
<1> QED BY <1>1, <1>2, <1>3, <1>4, <1>5, TypeParts DEF IInv

LEMMA IInvNext == IInv /\ [Next]_vars => IInv'
<1> SUFFICES ASSUME IInv, [Next]_vars PROVE IInv'
  OBVIOUS
<1>1. Numbers /\ Flags /\ Names /\ EventsKept
  BY TypeParts DEF IInv, EventsKept
<1>2. CASE UNCHANGED vars
  BY <1>2 DEF IInv, TypeOK, ScanAnswersRequest, AddressKept, GotAddressWhileConnected,
              AddressNext, vars, apVars, stationVars, scanVars, eventVars
<1>3. CASE Next
  <2>1. Numbers' /\ Flags' /\ Names'
    BY <1>1, <1>3, NumbersKept, FlagsKept, NamesKept
  <2>2. EventsKept'
    BY <1>1, <1>3, EventsStay
  <2>3. ScanAnswersRequest'
    BY <1>3, ScansKept DEF IInv
  <2>4. TypeOK'
    BY <2>1, <2>2, TypeParts DEF EventsKept, TypeOK, Numbers, Flags, Names,
                                EventsTyped, EventType, Known
  <2> QED BY <2>2, <2>3, <2>4 DEF IInv, EventsKept
<1> QED BY <1>2, <1>3

LEMMA Invariance == Spec => []IInv
  BY IInvInit, IInvNext, PTL DEF Spec

-----------------------------------------------------------------------------

\* The state keeps its type (WiFi.h:265-300, the members of WiFiClass).
THEOREM TypeCorrect == Spec => []TypeOK
<1>1. IInv => TypeOK
  BY DEF IInv
<1> QED BY <1>1, Invariance, PTL

\* What the accessors of a scan result read (WiFi.cpp:813-868) is what the scan
\* that was accepted asked for.
THEOREM ScansAnswer == Spec => []ScanAnswersRequest
<1>1. IInv => ScanAnswersRequest
  BY DEF IInv
<1> QED BY <1>1, Invariance, PTL

\* The listener has an address only while it is connected (WiFi.cpp:90-114,
\* 411-433): the two events of begin() are queued together, and the service takes
\* the front one only.
THEOREM AddressesWhileConnected == Spec => []GotAddressWhileConnected
<1>1. IInv => GotAddressWhileConnected
  BY DEF IInv, AddressKept
<1> QED BY <1>1, Invariance, PTL

-----------------------------------------------------------------------------
(* The listener in sync: the last event about a part, if there is one, says *)
(* how that part is.                                                        *)

\* Before there is a listener nothing is queued or heard.
Unheard ==
  ~listening => /\ pending = <<>>
                /\ heard.sta = "unknown" /\ heard.link = "unknown" /\ heard.ap = "unknown"

\* A station that was never started, or was stopped, is not connected.
StartedIfConnected == status = "CONNECTED" => staStarted

\* Agrees for any queue, what the listener knows being given.
Foretold(queue, known, ups, downs, actual) ==
  \/ NoneOf(queue, ups \cup downs) /\ known \in {"unknown", IF actual THEN "up" ELSE "down"}
  \/ LastOf(queue, ups \cup downs, IF actual THEN ups ELSE downs)

\* What an event makes of what was known.
Learnt(known, kind, ups, downs) ==
  IF kind \in ups THEN "up" ELSE IF kind \in downs THEN "down" ELSE known

SyncInv == ListenerInSync /\ Unheard /\ StartedIfConnected

LEMMA ForetoldIsAgrees ==
  ASSUME NEW known, NEW ups, NEW downs, NEW actual
  PROVE  Foretold(pending, known, ups, downs, actual)
           <=> Agrees(known, ups, downs, actual)
  BY DEF Foretold, Agrees

\* Events of other kinds, appended, change nothing.
LEMMA NoneJoin ==
  ASSUME NEW a \in Seq(EventType), NEW b \in Seq(EventType), NEW kinds,
         NoneOf(a, kinds), NoneOf(b, kinds)
  PROVE  NoneOf(a \o b, kinds)
<1>1. Len(a \o b) = Len(a) + Len(b)
  OBVIOUS
<1>2. ASSUME NEW i \in 1 .. Len(a \o b) PROVE (a \o b)[i].kind \notin kinds
  <2>1. CASE i <= Len(a)
    <3>1. i \in 1 .. Len(a) /\ (a \o b)[i] = a[i]
      BY <2>1, <1>1
    <3> QED BY <3>1 DEF NoneOf
  <2>2. CASE i > Len(a)
    <3>1. i - Len(a) \in 1 .. Len(b) /\ (a \o b)[i] = b[i - Len(a)]
      BY <2>2, <1>1
    <3> QED BY <3>1 DEF NoneOf
  <2> QED BY <2>1, <2>2, <1>1
<1> QED BY <1>2 DEF NoneOf

LEMMA LastThenNone ==
  ASSUME NEW a \in Seq(EventType), NEW b \in Seq(EventType), NEW kinds, NEW said,
         LastOf(a, kinds, said), NoneOf(b, kinds)
  PROVE  LastOf(a \o b, kinds, said)
<1>1. Len(a \o b) = Len(a) + Len(b) /\ Len(a) \in Nat /\ Len(b) \in Nat
  OBVIOUS
<1>2. PICK i \in 1 .. Len(a) :
        a[i].kind \in said /\ \A j \in i + 1 .. Len(a) : a[j].kind \notin kinds
  BY DEF LastOf
<1>3. i \in 1 .. Len(a \o b) /\ (a \o b)[i] = a[i]
  BY <1>1
<1>4. ASSUME NEW j \in i + 1 .. Len(a \o b) PROVE (a \o b)[j].kind \notin kinds
  <2>1. CASE j <= Len(a)
    <3>1. j \in i + 1 .. Len(a) /\ (a \o b)[j] = a[j]
      BY <2>1, <1>1
    <3> QED BY <3>1, <1>2
  <2>2. CASE j > Len(a)
    <3>1. j - Len(a) \in 1 .. Len(b) /\ (a \o b)[j] = b[j - Len(a)]
      BY <2>2, <1>1
    <3> QED BY <3>1 DEF NoneOf
  <2> QED BY <2>1, <2>2, <1>1
<1> QED BY <1>2, <1>3, <1>4 DEF LastOf

\* What an appended list says last is what the whole says last.
LEMMA LastJoin ==
  ASSUME NEW a \in Seq(EventType), NEW b \in Seq(EventType), NEW kinds, NEW said,
         LastOf(b, kinds, said)
  PROVE  LastOf(a \o b, kinds, said)
<1>1. Len(a \o b) = Len(a) + Len(b) /\ Len(a) \in Nat /\ Len(b) \in Nat
  OBVIOUS
<1>2. PICK i \in 1 .. Len(b) :
        b[i].kind \in said /\ \A j \in i + 1 .. Len(b) : b[j].kind \notin kinds
  BY DEF LastOf
<1>3. Len(a) + i \in 1 .. Len(a \o b) /\ (a \o b)[Len(a) + i] = b[i]
  BY <1>1
<1>4. ASSUME NEW j \in Len(a) + i + 1 .. Len(a \o b) PROVE (a \o b)[j].kind \notin kinds
  <2>1. j - Len(a) \in i + 1 .. Len(b) /\ (a \o b)[j] = b[j - Len(a)]
    BY <1>1
  <2> QED BY <2>1, <1>2
<1> QED BY <1>2, <1>3, <1>4 DEF LastOf

\* One event, or none.
LEMMA OneEvent ==
  ASSUME NEW kind \in Kinds, NEW delay \in Nat, now \in Nat, NEW kinds, NEW said
  PROVE  /\ Event(kind, delay) \in Seq(EventType)
         /\ kind \notin kinds => NoneOf(Event(kind, delay), kinds)
         /\ kind \in said => LastOf(Event(kind, delay), kinds, said)
<1>1. [kind |-> kind, due |-> now + delay] \in EventType
  BY DEF EventType
<1>2. /\ Event(kind, delay) \in Seq(EventType) /\ Len(Event(kind, delay)) = 1
      /\ Event(kind, delay)[1].kind = kind
  BY <1>1 DEF Event
<1> QED BY <1>2 DEF NoneOf, LastOf

LEMMA NoEvent ==
  ASSUME NEW kinds
  PROVE  <<>> \in Seq(EventType) /\ NoneOf(<<>>, kinds)
  BY DEF NoneOf

\* New events that say how a part is now, or say nothing of a part that is as
\* before, leave the listener in sync with it.
LEMMA ForetoldJoin ==
  ASSUME NEW queue \in Seq(EventType), NEW events \in Seq(EventType), NEW known,
         NEW ups, NEW downs, NEW before, NEW after,
         Foretold(queue, known, ups, downs, before),
         \/ LastOf(events, ups \cup downs, IF after THEN ups ELSE downs)
         \/ NoneOf(events, ups \cup downs) /\ (after <=> before)
  PROVE  Foretold(queue \o events, known, ups, downs, after)
<1>1. CASE LastOf(events, ups \cup downs, IF after THEN ups ELSE downs)
  BY <1>1, LastJoin DEF Foretold
<1>2. CASE NoneOf(events, ups \cup downs) /\ (after <=> before)
  <2>1. CASE NoneOf(queue, ups \cup downs)
                /\ known \in {"unknown", IF before THEN "up" ELSE "down"}
    BY <1>2, <2>1, NoneJoin DEF Foretold
  <2>2. CASE LastOf(queue, ups \cup downs, IF before THEN ups ELSE downs)
    BY <1>2, <2>2, LastThenNone DEF Foretold
  <2> QED BY <2>1, <2>2 DEF Foretold
<1> QED BY <1>1, <1>2

\* Delivering the front event moves it from what is queued to what is known.
LEMMA ForetoldTail ==
  ASSUME NEW queue \in Seq(EventType), queue # <<>>, NEW known, NEW ups, NEW downs,
         NEW actual \in BOOLEAN, ups \cap downs = {},
         Foretold(queue, known, ups, downs, actual)
  PROVE  Foretold(Tail(queue), Learnt(known, queue[1].kind, ups, downs),
                  ups, downs, actual)
<1>1. /\ Len(queue) \in Nat /\ Len(queue) >= 1 /\ Tail(queue) \in Seq(EventType)
      /\ Len(Tail(queue)) = Len(queue) - 1
      /\ \A i \in 1 .. Len(queue) - 1 : Tail(queue)[i] = queue[i + 1]
  OBVIOUS
<1> DEFINE all == ups \cup downs
           said == IF actual THEN ups ELSE downs
           rest == Tail(queue)
<1>2. ASSUME \A j \in 2 .. Len(queue) : queue[j].kind \notin all
      PROVE  NoneOf(rest, all)
  <2>1. ASSUME NEW i \in 1 .. Len(rest) PROVE rest[i].kind \notin all
    <3>1. i + 1 \in 2 .. Len(queue) /\ rest[i] = queue[i + 1]
      BY <1>1
    <3> QED BY <3>1, <1>2
  <2> QED BY <2>1 DEF NoneOf
<1>3. CASE NoneOf(queue, all) /\ known \in {"unknown", IF actual THEN "up" ELSE "down"}
  <2>1. \A j \in 1 .. Len(queue) : queue[j].kind \notin all
    BY <1>3 DEF NoneOf
  <2>2. Learnt(known, queue[1].kind, ups, downs) = known
    BY <2>1, <1>1 DEF Learnt
  <2> QED BY <2>1, <2>2, <1>1, <1>2, <1>3 DEF Foretold
<1>4. CASE LastOf(queue, all, said)
  <2>1. PICK i \in 1 .. Len(queue) :
          queue[i].kind \in said /\ \A j \in i + 1 .. Len(queue) : queue[j].kind \notin all
    BY <1>4 DEF LastOf
  <2>2. CASE i = 1
    <3>1. NoneOf(rest, all)
      BY <2>1, <2>2, <1>2
    <3>2. Learnt(known, queue[1].kind, ups, downs) = IF actual THEN "up" ELSE "down"
      BY <2>1, <2>2 DEF Learnt
    <3> QED BY <3>1, <3>2 DEF Foretold
  <2>3. CASE i # 1
    <3>1. i - 1 \in 1 .. Len(rest) /\ rest[i - 1] = queue[i]
      BY <2>3, <1>1
    <3>2. ASSUME NEW j \in (i - 1) + 1 .. Len(rest) PROVE rest[j].kind \notin all
      <4>1. j + 1 \in i + 1 .. Len(queue) /\ rest[j] = queue[j + 1]
        BY <1>1
      <4> QED BY <4>1, <2>1
    <3>3. LastOf(rest, all, said)
      BY <3>1, <3>2, <2>1 DEF LastOf
    <3> QED BY <3>3 DEF Foretold
  <2> QED BY <2>2, <2>3
<1> QED BY <1>3, <1>4 DEF Foretold


-----------------------------------------------------------------------------
(* What the calls announce of each part.                                    *)

StationKinds == {"STA_START"} \cup {"STA_STOP"}
APKinds      == {"AP_START"} \cup {"AP_STOP"}
LinkDowns    == {"DISCONNECTED", "STA_STOP"}
LinkKinds    == {"CONNECTED"} \cup LinkDowns

\* New events say how a part is after the call, or it is as it was.
Tells(events, ups, downs, before, after) ==
  \/ LastOf(events, ups \cup downs, IF after THEN ups ELSE downs)
  \/ NoneOf(events, ups \cup downs) /\ (after <=> before)

TellsStation(events) == Tells(events, {"STA_START"}, {"STA_STOP"}, staStarted, staStarted')
TellsAP(events)      == Tells(events, {"AP_START"}, {"AP_STOP"}, apStarted, apStarted')
TellsLink(events) ==
  Tells(events, {"CONNECTED"}, LinkDowns, status = "CONNECTED", status' = "CONNECTED")

LEMMA TellsThenNone ==
  ASSUME NEW a \in Seq(EventType), NEW b \in Seq(EventType),
         NEW ups, NEW downs, NEW before, NEW after,
         Tells(a, ups, downs, before, after), NoneOf(b, ups \cup downs)
  PROVE  Tells(a \o b, ups, downs, before, after)
<1>1. CASE LastOf(a, ups \cup downs, IF after THEN ups ELSE downs)
  BY <1>1, LastThenNone DEF Tells
<1>2. CASE NoneOf(a, ups \cup downs) /\ (after <=> before)
  BY <1>2, NoneJoin DEF Tells
<1> QED BY <1>1, <1>2 DEF Tells

LEMMA NoneThenTells ==
  ASSUME NEW a \in Seq(EventType), NEW b \in Seq(EventType),
         NEW ups, NEW downs, NEW before, NEW after,
         NoneOf(a, ups \cup downs), Tells(b, ups, downs, before, after)
  PROVE  Tells(a \o b, ups, downs, before, after)
<1>1. CASE LastOf(b, ups \cup downs, IF after THEN ups ELSE downs)
  BY <1>1, LastJoin DEF Tells
<1>2. CASE NoneOf(b, ups \cup downs) /\ (after <=> before)
  BY <1>2, NoneJoin DEF Tells
<1> QED BY <1>1, <1>2 DEF Tells

\* A station that stops is not connected; one that starts says nothing of that.
LEMMA StationTells ==
  ASSUME now \in Nat, staStarted \in BOOLEAN, staStarted' \in BOOLEAN
  PROVE  /\ StationSwitched \in Seq(EventType)
         /\ TellsStation(StationSwitched)
         /\ NoneOf(StationSwitched, APKinds)
         /\ IF staStarted /\ ~staStarted'
              THEN LastOf(StationSwitched, LinkKinds, LinkDowns)
              ELSE NoneOf(StationSwitched, LinkKinds)
<1>1. CASE staStarted = staStarted'
  <2>1. StationSwitched = <<>>
    BY <1>1 DEF StationSwitched, Switched
  <2> QED BY <1>1, <2>1, NoEvent DEF TellsStation, Tells
<1>2. CASE staStarted /\ ~staStarted'
  <2>1. StationSwitched = Event("STA_STOP", 0)
    BY <1>2 DEF StationSwitched, Switched
  <2>2. /\ "STA_STOP" \in Kinds /\ "STA_STOP" \in LinkDowns /\ "STA_STOP" \notin APKinds
        /\ "STA_STOP" \in {"STA_STOP"} /\ 0 \in Nat
    BY DEF Kinds, LinkDowns, APKinds
  <2>3. Event("STA_STOP", 0) \in Seq(EventType) /\ NoneOf(Event("STA_STOP", 0), APKinds)
    BY <2>2, OneEvent
  <2>4. LastOf(Event("STA_STOP", 0), LinkKinds, LinkDowns)
    BY <2>2, OneEvent
  <2>5. LastOf(Event("STA_STOP", 0), {"STA_START"} \cup {"STA_STOP"}, {"STA_STOP"})
    BY <2>2, OneEvent
  <2> QED BY <1>2, <2>1, <2>3, <2>4, <2>5 DEF TellsStation, Tells
<1>3. CASE ~staStarted /\ staStarted'
  <2>1. StationSwitched = Event("STA_START", 0)
    BY <1>3 DEF StationSwitched, Switched
  <2>2. /\ "STA_START" \in Kinds /\ "STA_START" \notin LinkKinds
        /\ "STA_START" \notin APKinds /\ "STA_START" \in {"STA_START"} /\ 0 \in Nat
    BY DEF Kinds, LinkKinds, LinkDowns, APKinds
  <2>3. Event("STA_START", 0) \in Seq(EventType) /\ NoneOf(Event("STA_START", 0), APKinds)
    BY <2>2, OneEvent
  <2>4. NoneOf(Event("STA_START", 0), LinkKinds)
    BY <2>2, OneEvent
  <2>5. LastOf(Event("STA_START", 0), {"STA_START"} \cup {"STA_STOP"}, {"STA_START"})
    BY <2>2, OneEvent
  <2> QED BY <1>3, <2>1, <2>3, <2>4, <2>5 DEF TellsStation, Tells
<1> QED BY <1>1, <1>2, <1>3

LEMMA APTells ==
  ASSUME now \in Nat, apStarted \in BOOLEAN, apStarted' \in BOOLEAN
  PROVE  /\ APSwitched \in Seq(EventType)
         /\ TellsAP(APSwitched)
         /\ NoneOf(APSwitched, StationKinds) /\ NoneOf(APSwitched, LinkKinds)
<1>1. CASE apStarted = apStarted'
  <2>1. APSwitched = <<>>
    BY <1>1 DEF APSwitched, Switched
  <2> QED BY <1>1, <2>1, NoEvent DEF TellsAP, Tells
<1>2. CASE apStarted /\ ~apStarted'
  <2>1. APSwitched = Event("AP_STOP", 0)
    BY <1>2 DEF APSwitched, Switched
  <2>2. /\ "AP_STOP" \in Kinds /\ "AP_STOP" \notin LinkKinds
        /\ "AP_STOP" \notin StationKinds /\ "AP_STOP" \in {"AP_STOP"} /\ 0 \in Nat
    BY DEF Kinds, LinkKinds, LinkDowns, StationKinds
  <2>3. /\ Event("AP_STOP", 0) \in Seq(EventType)
        /\ NoneOf(Event("AP_STOP", 0), StationKinds)
    BY <2>2, OneEvent
  <2>4. NoneOf(Event("AP_STOP", 0), LinkKinds)
    BY <2>2, OneEvent
  <2>5. LastOf(Event("AP_STOP", 0), {"AP_START"} \cup {"AP_STOP"}, {"AP_STOP"})
    BY <2>2, OneEvent
  <2> QED BY <1>2, <2>1, <2>3, <2>4, <2>5 DEF TellsAP, Tells
<1>3. CASE ~apStarted /\ apStarted'
  <2>1. APSwitched = Event("AP_START", 0)
    BY <1>3 DEF APSwitched, Switched
  <2>2. /\ "AP_START" \in Kinds /\ "AP_START" \notin LinkKinds
        /\ "AP_START" \notin StationKinds /\ "AP_START" \in {"AP_START"} /\ 0 \in Nat
    BY DEF Kinds, LinkKinds, LinkDowns, StationKinds
  <2>3. /\ Event("AP_START", 0) \in Seq(EventType)
        /\ NoneOf(Event("AP_START", 0), StationKinds)
    BY <2>2, OneEvent
  <2>4. NoneOf(Event("AP_START", 0), LinkKinds)
    BY <2>2, OneEvent
  <2>5. LastOf(Event("AP_START", 0), {"AP_START"} \cup {"AP_STOP"}, {"AP_START"})
    BY <2>2, OneEvent
  <2> QED BY <1>3, <2>1, <2>3, <2>4, <2>5 DEF TellsAP, Tells
<1> QED BY <1>1, <1>2, <1>3

\* Events queued that tell of every part leave the listener in sync.
LEMMA QueueSync ==
  ASSUME SyncInv, EventsTyped, NEW events \in Seq(EventType), Queue(events),
         UNCHANGED <<heard, listening, wasReset>>,
         TellsStation(events), TellsAP(events), TellsLink(events)
  PROVE  ListenerInSync' /\ Unheard'
<1>1. CASE ~listening
  <2>1. /\ pending' = <<>> /\ heard'.sta = "unknown" /\ heard'.link = "unknown"
        /\ heard'.ap = "unknown"
    BY <1>1 DEF SyncInv, Unheard, Queue
  <2>2. \A kinds : NoneOf(pending', kinds)
    BY <2>1, NoEvent
  <2> QED BY <2>1, <2>2 DEF ListenerInSync, Agrees, Unheard
<1>2. CASE listening
  <2>1. pending' = pending \o events /\ pending \in Seq(EventType)
    BY <1>2 DEF Queue, EventsTyped
  <2>2. Foretold(pending', heard.sta, {"STA_START"}, {"STA_STOP"}, staStarted')
    <3>1. Foretold(pending, heard.sta, {"STA_START"}, {"STA_STOP"}, staStarted)
      BY DEF SyncInv, ListenerInSync, Foretold, Agrees
    <3> QED BY <2>1, <3>1, ForetoldJoin DEF TellsStation, Tells
  <2>3. Foretold(pending', heard.ap, {"AP_START"}, {"AP_STOP"}, apStarted')
    <3>1. Foretold(pending, heard.ap, {"AP_START"}, {"AP_STOP"}, apStarted)
      BY DEF SyncInv, ListenerInSync, Foretold, Agrees
    <3> QED BY <2>1, <3>1, ForetoldJoin DEF TellsAP, Tells
  <2>4. ASSUME ~wasReset
        PROVE  Foretold(pending', heard.link, {"CONNECTED"}, LinkDowns,
                        status' = "CONNECTED")
    <3>1. Foretold(pending, heard.link, {"CONNECTED"}, LinkDowns, status = "CONNECTED")
      BY <2>4 DEF SyncInv, ListenerInSync, Foretold, Agrees, LinkDowns
    <3> QED BY <2>1, <3>1, ForetoldJoin DEF TellsLink, Tells
  <2>5. ListenerInSync'
    BY <2>2, <2>3, <2>4 DEF ListenerInSync, Agrees, Foretold, LinkDowns
  <2> QED BY <1>2, <2>5 DEF Unheard
<1> QED BY <1>1, <1>2


-----------------------------------------------------------------------------
(* The steps, and what they leave of the agreement.                         *)

LEMMA BeginSync ==
  ASSUME SyncInv, Numbers, Flags, EventsTyped, NEW network \in Networks, Begin(network)
  PROVE  SyncInv'
<1> DEFINE address == IF ip' = "none" THEN <<>> ELSE Event("GOT_IP", AddressDelay)
           joined  == Event("CONNECTED", ConnectDelay) \o address
           failed  == Event("DISCONNECTED", ConnectDelay)
           later   == IF ~Connects(network) THEN failed ELSE joined
<1>1. /\ now \in Nat /\ ConnectDelay \in Nat /\ AddressDelay \in Nat
      /\ staStarted \in BOOLEAN /\ staStarted' /\ UNCHANGED apStarted
  BY DelaysAssumption DEF Numbers, Flags, Begin, apVars
<1>2. /\ StationSwitched \in Seq(EventType) /\ TellsStation(StationSwitched)
      /\ NoneOf(StationSwitched, APKinds) /\ NoneOf(StationSwitched, LinkKinds)
  BY <1>1, StationTells
<1>3. \A kinds : <<>> \in Seq(EventType) /\ NoneOf(<<>>, kinds)
  BY NoEvent
<1>4. /\ Event("GOT_IP", AddressDelay) \in Seq(EventType)
      /\ \A kinds : "GOT_IP" \notin kinds => NoneOf(Event("GOT_IP", AddressDelay), kinds)
  <2>1. "GOT_IP" \in Kinds
    BY DEF Kinds
  <2> QED BY <1>1, <2>1, OneEvent
<1>5. /\ address \in Seq(EventType) /\ NoneOf(address, StationKinds)
      /\ NoneOf(address, APKinds) /\ NoneOf(address, LinkKinds)
  BY <1>3, <1>4 DEF StationKinds, APKinds, LinkKinds, LinkDowns
<1>6. ASSUME NEW kind \in {"CONNECTED", "DISCONNECTED"}
      PROVE  /\ Event(kind, ConnectDelay) \in Seq(EventType)
             /\ NoneOf(Event(kind, ConnectDelay), StationKinds)
             /\ NoneOf(Event(kind, ConnectDelay), APKinds)
             /\ \A said : kind \in said => LastOf(Event(kind, ConnectDelay), LinkKinds, said)
  <2>1. kind \in Kinds /\ kind \notin StationKinds /\ kind \notin APKinds
    BY <1>6 DEF Kinds, StationKinds, APKinds
  <2> QED BY <1>1, <2>1, OneEvent
<1>7. /\ joined \in Seq(EventType) /\ NoneOf(joined, StationKinds) /\ NoneOf(joined, APKinds)
      /\ LastOf(joined, LinkKinds, {"CONNECTED"})
  <2> HIDE DEF address
  <2>1. joined \in Seq(EventType)
    BY <1>5, <1>6
  <2>2. NoneOf(joined, StationKinds) /\ NoneOf(joined, APKinds)
    BY <1>5, <1>6, NoneJoin
  <2>3. LastOf(joined, LinkKinds, {"CONNECTED"})
    BY <1>5, <1>6, LastThenNone
  <2> QED BY <2>1, <2>2, <2>3
<1>8. /\ failed \in Seq(EventType) /\ NoneOf(failed, StationKinds) /\ NoneOf(failed, APKinds)
      /\ LastOf(failed, LinkKinds, LinkDowns)
  BY <1>6 DEF LinkDowns
<1>9. status' = "CONNECTED" <=> Connects(network)
  BY DEF Begin
<1>10. /\ later \in Seq(EventType) /\ NoneOf(later, StationKinds) /\ NoneOf(later, APKinds)
       /\ LastOf(later, LinkKinds, IF status' = "CONNECTED" THEN {"CONNECTED"} ELSE LinkDowns)
  <2> HIDE DEF joined, failed
  <2> QED BY <1>7, <1>8, <1>9
<1>11. Queue(StationSwitched \o later) /\ UNCHANGED <<heard, listening, wasReset>>
  BY DEF Begin
<1> HIDE DEF later
<1>12. StationSwitched \o later \in Seq(EventType)
  BY <1>2, <1>10
<1>13. TellsStation(StationSwitched \o later)
  BY <1>2, <1>10, TellsThenNone DEF TellsStation, StationKinds
<1>14. TellsAP(StationSwitched \o later)
  <2>1. NoneOf(StationSwitched \o later, APKinds)
    BY <1>2, <1>10, NoneJoin
  <2> QED BY <1>1, <2>1 DEF TellsAP, Tells, APKinds
<1>15. TellsLink(StationSwitched \o later)
  <2>1. LastOf(StationSwitched \o later, LinkKinds,
               IF status' = "CONNECTED" THEN {"CONNECTED"} ELSE LinkDowns)
    BY <1>2, <1>10, LastJoin
  <2> QED BY <2>1 DEF TellsLink, Tells, LinkKinds
<1>16. ListenerInSync' /\ Unheard'
  BY <1>11, <1>12, <1>13, <1>14, <1>15, QueueSync
<1> QED BY <1>1, <1>16 DEF SyncInv, StartedIfConnected

LEMMA DisconnectSync ==
  ASSUME SyncInv, Numbers, Flags, EventsTyped, NEW flag \in BOOLEAN, Disconnect(flag)
  PROVE  SyncInv'
<1> DEFINE first == IF staStarted THEN Event("DISCONNECTED", 0) ELSE <<>>
<1>1. /\ now \in Nat /\ staStarted \in BOOLEAN /\ staStarted' \in BOOLEAN
      /\ UNCHANGED apStarted /\ (staStarted' => staStarted) /\ status' = "DISCONNECTED"
  BY DEF Numbers, Flags, Disconnect, apVars
<1>2. /\ StationSwitched \in Seq(EventType) /\ TellsStation(StationSwitched)
      /\ NoneOf(StationSwitched, APKinds)
      /\ IF staStarted /\ ~staStarted'
           THEN LastOf(StationSwitched, LinkKinds, LinkDowns)
           ELSE NoneOf(StationSwitched, LinkKinds)
  BY <1>1, StationTells
<1>3. /\ first \in Seq(EventType) /\ NoneOf(first, StationKinds) /\ NoneOf(first, APKinds)
      /\ IF staStarted THEN LastOf(first, LinkKinds, LinkDowns) ELSE NoneOf(first, LinkKinds)
  <2>1. "DISCONNECTED" \in Kinds \ (StationKinds \cup APKinds) /\ "DISCONNECTED" \in LinkDowns
    BY DEF Kinds, StationKinds, APKinds, LinkDowns
  <2>2. CASE staStarted
    BY <1>1, <2>1, <2>2, OneEvent
  <2>3. CASE ~staStarted
    BY <2>3, NoEvent
  <2> QED BY <2>2, <2>3
<1>4. Queue(first \o StationSwitched) /\ UNCHANGED <<heard, listening, wasReset>>
  BY DEF Disconnect
<1> HIDE DEF first
<1>5. first \o StationSwitched \in Seq(EventType)
  BY <1>2, <1>3
<1>6. TellsStation(first \o StationSwitched)
  BY <1>2, <1>3, NoneThenTells DEF TellsStation, StationKinds
<1>7. TellsAP(first \o StationSwitched)
  <2>1. NoneOf(first \o StationSwitched, APKinds)
    BY <1>2, <1>3, NoneJoin
  <2> QED BY <1>1, <2>1 DEF TellsAP, Tells, APKinds
<1>8. TellsLink(first \o StationSwitched)
  <2>1. CASE staStarted /\ ~staStarted'
    <3>1. LastOf(first \o StationSwitched, LinkKinds, LinkDowns)
      BY <1>2, <1>3, <2>1, LastJoin
    <3> QED BY <1>1, <3>1 DEF TellsLink, Tells, LinkKinds
  <2>2. CASE staStarted /\ staStarted'
    <3>1. LastOf(first \o StationSwitched, LinkKinds, LinkDowns)
      BY <1>2, <1>3, <2>2, LastThenNone
    <3> QED BY <1>1, <3>1 DEF TellsLink, Tells, LinkKinds
  <2>3. CASE ~staStarted
    <3>1. NoneOf(first \o StationSwitched, LinkKinds)
      BY <1>2, <1>3, <2>3, NoneJoin
    <3>2. status # "CONNECTED"
      BY <2>3 DEF SyncInv, StartedIfConnected
    <3> QED BY <1>1, <3>1, <3>2 DEF TellsLink, Tells, LinkKinds
  <2> QED BY <2>1, <2>2, <2>3
<1>9. ListenerInSync' /\ Unheard'
  BY <1>4, <1>5, <1>6, <1>7, <1>8, QueueSync
<1> QED BY <1>1, <1>9 DEF SyncInv, StartedIfConnected

\* The calls that start or stop the station and the access point: the connection
\* goes only with the station.
LEMMA SwitchSync ==
  ASSUME SyncInv, Numbers, Flags, EventsTyped,
         \/ SoftAP
         \/ \E flag \in BOOLEAN : SoftAPDisconnect(flag)
         \/ \E m \in WiFiModes : Mode(m)
  PROVE  SyncInv'
<1>1. /\ staStarted' \in BOOLEAN /\ apStarted' \in BOOLEAN
      /\ UNCHANGED <<heard, listening, wasReset>>
      /\ \/ UNCHANGED <<status, staStarted>> /\ Queue(APSwitched)
         \/ /\ Queue(APSwitched \o StationSwitched) \/ Queue(StationSwitched \o APSwitched)
            /\ \/ UNCHANGED status /\ (staStarted => staStarted')
               \/ status' = "DISCONNECTED" /\ ~staStarted'
  <2>1. CASE SoftAP
    BY <2>1 DEF SoftAP, Flags
  <2>2. ASSUME NEW flag \in BOOLEAN, SoftAPDisconnect(flag)
        PROVE  /\ staStarted' \in BOOLEAN /\ apStarted' \in BOOLEAN
               /\ UNCHANGED <<heard, listening, wasReset>>
               /\ Queue(APSwitched \o StationSwitched)
               /\ \/ UNCHANGED status /\ (staStarted => staStarted')
                  \/ status' = "DISCONNECTED" /\ ~staStarted'
    BY <2>2 DEF SoftAPDisconnect, Flags
  <2>3. ASSUME NEW m \in WiFiModes, Mode(m)
        PROVE  /\ staStarted' \in BOOLEAN /\ apStarted' \in BOOLEAN
               /\ UNCHANGED <<heard, listening, wasReset>>
               /\ Queue(StationSwitched \o APSwitched)
               /\ \/ UNCHANGED status /\ (staStarted => staStarted')
                  \/ status' = "DISCONNECTED" /\ ~staStarted'
    BY <2>3 DEF Mode, Flags
  <2> QED BY <2>1, <2>2, <2>3
<1>2. now \in Nat /\ staStarted \in BOOLEAN /\ apStarted \in BOOLEAN
  BY DEF Numbers, Flags
<1>3. /\ StationSwitched \in Seq(EventType) /\ TellsStation(StationSwitched)
      /\ NoneOf(StationSwitched, APKinds)
      /\ IF staStarted /\ ~staStarted'
           THEN LastOf(StationSwitched, LinkKinds, LinkDowns)
           ELSE NoneOf(StationSwitched, LinkKinds)
  BY <1>1, <1>2, StationTells
<1>4. /\ APSwitched \in Seq(EventType) /\ TellsAP(APSwitched)
      /\ NoneOf(APSwitched, StationKinds) /\ NoneOf(APSwitched, LinkKinds)
  BY <1>1, <1>2, APTells
<1>5. CASE UNCHANGED <<status, staStarted>> /\ Queue(APSwitched)
  <2>1. TellsStation(APSwitched) /\ TellsLink(APSwitched)
    BY <1>4, <1>5 DEF TellsStation, TellsLink, Tells, StationKinds, LinkKinds
  <2>2. ListenerInSync' /\ Unheard'
    BY <1>1, <1>4, <1>5, <2>1, QueueSync
  <2> QED BY <1>5, <2>2 DEF SyncInv, StartedIfConnected
<1>6. CASE /\ Queue(APSwitched \o StationSwitched) \/ Queue(StationSwitched \o APSwitched)
           /\ \/ UNCHANGED status /\ (staStarted => staStarted')
              \/ status' = "DISCONNECTED" /\ ~staStarted'
  <2>1. TellsLink(StationSwitched)
    <3>1. CASE staStarted /\ ~staStarted'
      <4>1. status' # "CONNECTED"
        BY <1>6, <3>1
      <4> QED BY <1>3, <3>1, <4>1 DEF TellsLink, Tells, LinkKinds
    <3>2. CASE ~(staStarted /\ ~staStarted')
      <4>1. status' = "CONNECTED" <=> status = "CONNECTED"
        BY <1>6, <3>2 DEF SyncInv, StartedIfConnected
      <4> QED BY <1>3, <3>2, <4>1 DEF TellsLink, Tells, LinkKinds
    <3> QED BY <3>1, <3>2
  <2>2. /\ APSwitched \o StationSwitched \in Seq(EventType)
        /\ StationSwitched \o APSwitched \in Seq(EventType)
    BY <1>3, <1>4
  <2>3. /\ TellsStation(APSwitched \o StationSwitched)
        /\ TellsStation(StationSwitched \o APSwitched)
    BY <1>3, <1>4, NoneThenTells, TellsThenNone DEF TellsStation, StationKinds
  <2>4. TellsAP(APSwitched \o StationSwitched) /\ TellsAP(StationSwitched \o APSwitched)
    BY <1>3, <1>4, NoneThenTells, TellsThenNone DEF TellsAP, APKinds
  <2>5. TellsLink(APSwitched \o StationSwitched) /\ TellsLink(StationSwitched \o APSwitched)
    BY <1>3, <1>4, <2>1, NoneThenTells, TellsThenNone DEF TellsLink, LinkKinds
  <2>6. ListenerInSync' /\ Unheard'
    BY <1>1, <1>6, <2>2, <2>3, <2>4, <2>5, QueueSync
  <2>7. StartedIfConnected'
    BY <1>6 DEF SyncInv, StartedIfConnected
  <2> QED BY <2>6, <2>7 DEF SyncInv
<1> QED BY <1>1, <1>5, <1>6


\* Steps that neither queue nor deliver, and change no part; OnEvent is one of
\* them, and mockReset(), which takes the connection away.
LEMMA SilentSync ==
  ASSUME SyncInv, UNCHANGED <<pending, heard, staStarted, apStarted>>,
         listening => listening',
         \/ UNCHANGED <<status, wasReset>>
         \/ status' = "DISCONNECTED" /\ wasReset'
  PROVE  SyncInv'
<1>1. ListenerInSync'
  BY DEF SyncInv, ListenerInSync, Agrees
<1>2. Unheard' /\ StartedIfConnected'
  BY DEF SyncInv, Unheard, StartedIfConnected
<1> QED BY <1>1, <1>2 DEF SyncInv

\* An event about a scan says nothing of a part.
LEMMA ScanDoneTells ==
  ASSUME now \in Nat
  PROVE  /\ Event("SCAN_DONE", 0) \in Seq(EventType)
         /\ NoneOf(Event("SCAN_DONE", 0), StationKinds)
         /\ NoneOf(Event("SCAN_DONE", 0), APKinds)
         /\ NoneOf(Event("SCAN_DONE", 0), LinkKinds)
<1>1. "SCAN_DONE" \in Kinds \ (StationKinds \cup APKinds \cup LinkKinds) /\ 0 \in Nat
  BY DEF Kinds, StationKinds, APKinds, LinkKinds, LinkDowns
<1> QED BY <1>1, OneEvent

LEMMA ScanCompleteSync ==
  ASSUME SyncInv, Numbers, EventsTyped, ScanComplete
  PROVE  SyncInv'
<1>1. /\ Queue(Event("SCAN_DONE", 0))
      /\ UNCHANGED <<heard, listening, wasReset, status, staStarted, apStarted>>
  BY DEF ScanComplete, apVars, stationVars
<1>2. /\ TellsStation(Event("SCAN_DONE", 0)) /\ TellsAP(Event("SCAN_DONE", 0))
      /\ TellsLink(Event("SCAN_DONE", 0))
  BY <1>1, ScanDoneTells
     DEF Numbers, TellsStation, TellsAP, TellsLink, Tells, StationKinds, APKinds, LinkKinds
<1>3. ListenerInSync' /\ Unheard'
  BY <1>1, <1>2, ScanDoneTells, QueueSync DEF Numbers
<1> QED BY <1>1, <1>3 DEF SyncInv, StartedIfConnected

\* A pass: the scan's event joins the queue, and the front event leaves it.
LEMMA ServiceSync ==
  ASSUME SyncInv, Numbers, Flags, EventsTyped, YieldService
  PROVE  SyncInv'
<1>1. /\ Deliver(Scanned)
      /\ UNCHANGED <<listening, wasReset, status, staStarted, apStarted>>
  BY DEF YieldService, apVars, stationVars
<1>2. pending \in Seq(EventType) /\ heard \in Known /\ now \in Nat
  BY DEF EventsTyped, Numbers
<1>3. Scanned \in Seq(EventType)
  BY <1>2, ScanDoneTells DEF Scanned
<1>4. ASSUME NEW known, NEW ups, NEW downs, NEW actual,
             Foretold(pending, known, ups, downs, actual),
             NoneOf(Event("SCAN_DONE", 0), ups \cup downs)
      PROVE  Foretold(Scanned, known, ups, downs, actual)
  <2>1. Event("SCAN_DONE", 0) \in Seq(EventType)
    BY <1>2, ScanDoneTells
  <2>2. Foretold(pending \o Event("SCAN_DONE", 0), known, ups, downs, actual)
    BY <1>2, <1>4, <2>1, ForetoldJoin
  <2> QED BY <1>4, <2>2 DEF Scanned
<1>5. /\ Foretold(Scanned, heard.sta, {"STA_START"}, {"STA_STOP"}, staStarted)
      /\ Foretold(Scanned, heard.ap, {"AP_START"}, {"AP_STOP"}, apStarted)
  <2>1. /\ Foretold(pending, heard.sta, {"STA_START"}, {"STA_STOP"}, staStarted)
        /\ Foretold(pending, heard.ap, {"AP_START"}, {"AP_STOP"}, apStarted)
    BY ForetoldIsAgrees DEF SyncInv, ListenerInSync
  <2> QED BY <1>2, <1>4, <2>1, ScanDoneTells DEF StationKinds, APKinds
<1>6. ~wasReset => Foretold(Scanned, heard.link, {"CONNECTED"}, LinkDowns,
                            status = "CONNECTED")
  <2>1. ~wasReset => Foretold(pending, heard.link, {"CONNECTED"}, LinkDowns,
                              status = "CONNECTED")
    BY ForetoldIsAgrees DEF SyncInv, ListenerInSync, LinkDowns
  <2> QED BY <1>2, <1>4, <2>1, ScanDoneTells DEF LinkKinds
<1>7. ~listening => Scanned = <<>>
  BY DEF Scanned, SyncInv, Unheard
<1>8. /\ Foretold(pending', heard'.sta, {"STA_START"}, {"STA_STOP"}, staStarted)
      /\ Foretold(pending', heard'.ap, {"AP_START"}, {"AP_STOP"}, apStarted)
      /\ ~wasReset => Foretold(pending', heard'.link, {"CONNECTED"}, LinkDowns,
                               status = "CONNECTED")
  <2>1. CASE pending' = Scanned /\ UNCHANGED heard
    BY <1>5, <1>6, <2>1
  <2>2. CASE /\ Scanned # <<>>
             /\ pending' = Tail(Scanned) /\ heard' = Hear(heard, Head(Scanned).kind)
    <3>1. Head(Scanned) = Scanned[1]
      BY <1>3, <2>2
    <3> DEFINE kind == Scanned[1].kind
    <3>2. /\ heard'.sta = Learnt(heard.sta, kind, {"STA_START"}, {"STA_STOP"})
          /\ heard'.ap = Learnt(heard.ap, kind, {"AP_START"}, {"AP_STOP"})
          /\ heard'.link = Learnt(heard.link, kind, {"CONNECTED"}, LinkDowns)
      BY <2>2, <3>1 DEF Hear, Learnt, LinkDowns
    <3>3. /\ {"STA_START"} \cap {"STA_STOP"} = {} /\ {"AP_START"} \cap {"AP_STOP"} = {}
          /\ {"CONNECTED"} \cap LinkDowns = {} /\ (status = "CONNECTED") \in BOOLEAN
          /\ staStarted \in BOOLEAN /\ apStarted \in BOOLEAN
      BY DEF LinkDowns, Flags
    <3>4. Foretold(pending', heard'.sta, {"STA_START"}, {"STA_STOP"}, staStarted)
      BY <1>3, <1>5, <2>2, <3>2, <3>3, ForetoldTail
    <3>5. Foretold(pending', heard'.ap, {"AP_START"}, {"AP_STOP"}, apStarted)
      BY <1>3, <1>5, <2>2, <3>2, <3>3, ForetoldTail
    <3>6. ~wasReset => Foretold(pending', heard'.link, {"CONNECTED"}, LinkDowns,
                                status = "CONNECTED")
      <4>1. SUFFICES ASSUME ~wasReset
                     PROVE  Foretold(pending', heard'.link, {"CONNECTED"}, LinkDowns,
                                     status = "CONNECTED")
        OBVIOUS
      <4>2. Foretold(Scanned, heard.link, {"CONNECTED"}, LinkDowns, status = "CONNECTED")
        BY <1>6, <4>1
      <4>3. Foretold(Tail(Scanned), Learnt(heard.link, Scanned[1].kind, {"CONNECTED"},
                                           LinkDowns),
                     {"CONNECTED"}, LinkDowns, status = "CONNECTED")
        BY <1>3, <2>2, <3>3, <4>2, ForetoldTail
      <4> QED BY <2>2, <3>2, <4>3
    <3> QED BY <3>4, <3>5, <3>6
  <2> QED BY <1>1, <2>1, <2>2 DEF Deliver
<1>9. ListenerInSync'
  BY <1>1, <1>8 DEF ListenerInSync, Agrees, Foretold, LinkDowns
<1>10. Unheard'
  BY <1>1, <1>7 DEF SyncInv, Unheard, Deliver
<1> QED BY <1>1, <1>9, <1>10 DEF SyncInv, StartedIfConnected

LEMMA SyncInit == Init => SyncInv
<1> SUFFICES ASSUME Init PROVE SyncInv
  OBVIOUS
<1>1. /\ pending = <<>> /\ status = "DISCONNECTED"
      /\ heard.sta = "unknown" /\ heard.link = "unknown" /\ heard.ap = "unknown"
  BY DEF Init, Defaults
<1>2. \A kinds : NoneOf(pending, kinds)
  BY <1>1, NoEvent
<1> QED BY <1>1, <1>2 DEF SyncInv, ListenerInSync, Agrees, Unheard, StartedIfConnected

LEMMA SyncStays ==
  ASSUME SyncInv, Numbers, Flags, EventsTyped, [Next]_vars
  PROVE  SyncInv'
<1>1. CASE UNCHANGED vars
  BY <1>1, SilentSync DEF vars, apVars, stationVars, eventVars
<1>2. CASE \/ OnEvent \/ Config \/ ScanDelete \/ MockReset \/ Tick
           \/ \E flag \in BOOLEAN : EnableSTA(flag) \/ EnableAP(flag)
           \/ \E async, showHidden \in BOOLEAN : ScanNetworks(async, showHidden)
  <2>1. /\ UNCHANGED <<pending, heard, staStarted, apStarted>>
        /\ listening => listening'
        /\ \/ UNCHANGED <<status, wasReset>>
           \/ status' = "DISCONNECTED" /\ wasReset'
    BY <1>2 DEF OnEvent, Config, ScanDelete, MockReset, Tick, EnableSTA, EnableAP,
                ScanNetworks, eventVars, stationVars, apVars
  <2> QED BY <2>1, SilentSync
<1> QED BY <1>1, <1>2, BeginSync, DisconnectSync, SwitchSync, ServiceSync,
           ScanCompleteSync DEF Next, Sketch

\* Whatever is called, however long the queue: what the listener will conclude
\* from the events is how the mock is (WiFi.cpp:90-114, 411-433, 739-773).
THEOREM ListenersAgree == Spec => []ListenerInSync
<1>1. IInv => Numbers /\ Flags /\ EventsTyped
  BY TypeParts DEF IInv
<1>2. IInv /\ SyncInv /\ [Next]_vars => SyncInv'
  BY <1>1, SyncStays
<1>3. SyncInv => ListenerInSync
  BY DEF SyncInv
<1> QED BY <1>2, <1>3, SyncInit, Invariance, PTL DEF Spec

-----------------------------------------------------------------------------
(* mDNS.  Which steps of the composition are steps of which module.        *)
LEMMA SearchPart == [NetworkNext]_networkVars => [S!Next]_(S!vars)
BY Zenon DEF NetworkNext, WiFiStep, ListStep, SearchStep, GivenStep, QueryStep, ResponderStep,
       networkVars, searchVars, S!vars

LEMMA GivenPart == [NetworkNext]_networkVars => [G!Next]_(G!vars)
BY Zenon DEF NetworkNext, WiFiStep, ListStep, SearchStep, GivenStep, QueryStep, ResponderStep,
       networkVars, givenVars, G!vars

LEMMA QueryPart == [NetworkNext]_networkVars => [Q!Next]_(Q!vars)
BY Zenon DEF NetworkNext, WiFiStep, ListStep, SearchStep, GivenStep, QueryStep, ResponderStep,
       networkVars, queryVars, Q!vars

LEMMA ResponderPart == [NetworkNext]_networkVars => [R!Next]_(R!vars)
BY Zenon DEF NetworkNext, WiFiStep, ListStep, SearchStep, GivenStep, QueryStep, ResponderStep,
       networkVars, responderVars, R!vars

-----------------------------------------------------------------------------
(* Advertising.  PublishedTxt is inductive: a publication that fails marks *)
(* the list stale, and one that succeeds takes the TXT records of the list *)
(* it was called with, which is the list that is kept.                     *)

LEMMA PublishKeeps ==
    ASSUME R!PublishedTxt, NEW named, NEW type, NEW port, NEW ok \in BOOLEAN,
           R!Publish(named, type, port, adverts', ok)
    PROVE  R!PublishedTxt'
<1>1. CASE stale' = TRUE /\ client' \in {client, TRUE} /\ UNCHANGED <<group, published>>
  BY <1>1 DEF R!PublishedTxt
<1>2. CASE published' = Nothing
  BY <1>2 DEF R!PublishedTxt
<1>3. CASE /\ client' = TRUE /\ group' = TRUE
           /\ published' = [type |-> type, port |-> port,
                            txt |-> R!TxtOf(adverts', type, port)]
  <2>1. /\ published'.txt = R!TxtOf(adverts', type, port)
        /\ published'.type = type /\ published'.port = port
    BY <1>3
  <2> QED
    BY <1>3, <2>1, Zenon DEF R!PublishedTxt
<1> QED
  BY <1>1, <1>2, <1>3, Zenon DEF R!Publish

LEMMA SetTxtKeeps ==
    ASSUME R!PublishedTxt, NEW type, NEW key, R!SetTxt(type, key)
    PROVE  R!PublishedTxt'
<1>1. CASE R!Matching(adverts, type) = {}
  BY <1>1, Zenon DEF R!SetTxt, R!avahi, R!PublishedTxt
<1>2. CASE R!Matching(adverts, type) # {}
  <2>1. \E i : \E ok \in BOOLEAN :
          R!Publish(adverts[i].named, type, adverts[i].port, adverts', ok)
    BY <1>2, Zenon DEF R!SetTxt
  <2> QED
    BY <2>1, PublishKeeps, Zenon
<1> QED
  BY <1>1, <1>2

LEMMA AddServiceKeeps ==
    ASSUME R!PublishedTxt, NEW type, NEW port, NEW txt, NEW needsOk,
           R!AddService(type, port, txt, needsOk)
    PROVE  R!PublishedTxt'
<1>1. \E ok \in BOOLEAN : R!Publish(instance, type, port, adverts', ok)
  BY Zenon DEF R!AddService
<1> QED
  BY <1>1, PublishKeeps

LEMMA PublishedStep == R!PublishedTxt /\ [R!Next]_(R!vars) => R!PublishedTxt'
<1> SUFFICES ASSUME R!PublishedTxt, [R!Next]_(R!vars) PROVE R!PublishedTxt'
  OBVIOUS
<1>1. CASE R!Begin \/ R!End \/ (\E given \in BOOLEAN : R!SetInstanceName(given))
  BY <1>1 DEF R!Begin, R!End, R!SetInstanceName, R!avahi, R!PublishedTxt
<1>2. CASE R!TaskTxt
  BY <1>2, SetTxtKeeps DEF R!TaskTxt
<1>3. CASE R!UnpublishService
  BY <1>3 DEF R!UnpublishService, R!PublishedTxt
<1>4. ASSUME NEW t, NEW p, R!RemoveService(t, p) PROVE R!PublishedTxt'
  BY <1>4 DEF R!RemoveService, R!PublishedTxt
<1>5. ASSUME NEW t, NEW k, R!AddServiceTxt(t, k) PROVE R!PublishedTxt'
  BY <1>5, SetTxtKeeps DEF R!AddServiceTxt
<1>6. ASSUME NEW t, NEW p, R!PublishService(t, p) PROVE R!PublishedTxt'
  <2>1. \E ok \in BOOLEAN : R!Publish(TRUE, t, p, adverts', ok)
    BY <1>6, Zenon DEF R!PublishService
  <2> QED
    BY <2>1, PublishKeeps
<1>7. CASE UNCHANGED R!vars
  BY <1>7, Zenon DEF R!vars, R!PublishedTxt
<1> QED
  BY <1>1, <1>2, <1>3, <1>4, <1>5, <1>6, <1>7, AddServiceKeeps, Zenon
  DEF R!Next, R!DisableArduino, R!EnableArduino

LEMMA PublishedHolds == NetworkSpec => []R!PublishedTxt
<1>1. NetworkInit => R!PublishedTxt
  BY DEF NetworkInit, R!Init, R!PublishedTxt
<1>2. R!PublishedTxt /\ [NetworkNext]_networkVars => R!PublishedTxt'
  BY ResponderPart, PublishedStep
<1> QED
  BY <1>1, <1>2, PTL DEF NetworkSpec

-----------------------------------------------------------------------------
(* Queries.  ResultsOfLastQuery needs what the mock services are, and that *)
(* the results, the resolvers at work and the reports to come are together *)
(* no more than what there was at the beginning of the query.              *)

QServices == [type : Types, host : Hosts, ip : Q!Addresses, txt : SUBSET Q!TxtKeys]
MocksOf(t) == {s \in Seq(QServices) : /\ Len(s) <= MaxMocks
                                     /\ \A i \in DOMAIN s : s[i].type = t}
MocksTyped == mocks = [t \in Types |-> mocks[t]] /\ \A t \in Types : mocks[t] \in MocksOf(t)
ResultsTyped ==
    /\ results \in Seq(QServices)
    /\ \A i \in DOMAIN results : results[i].type = queried
    /\ Len(results) <= MaxMocks + MaxReports
BrowsingBounded ==
    browsing # Nothing =>
        /\ queried \in Types
        /\ IsFiniteSet(browsing.resolving) /\ IsFiniteSet(browsing.toCome)
        /\ Len(results) + Cardinality(browsing.resolving) + Cardinality(browsing.toCome)
             <= MaxMocks + MaxReports
QueryInv == MocksTyped /\ ResultsTyped /\ BrowsingBounded

LEMMA NoMocks == \A t : <<>> \in MocksOf(t)
<1>1. <<>> \in Seq(QServices) /\ Len(<<>>) = 0 /\ DOMAIN <<>> = {}
  OBVIOUS
<1> QED
  BY <1>1, LimitsAssumption DEF MocksOf

(* A record that is appended, and one that gets another TXT record.        *)
LEMMA OneMore ==
    ASSUME NEW s \in Seq(QServices), NEW e \in QServices
    PROVE  /\ Append(s, e) \in Seq(QServices) /\ Len(Append(s, e)) = Len(s) + 1
           /\ \A t : (\A i \in DOMAIN s : s[i].type = t) /\ e.type = t
                     => \A i \in DOMAIN Append(s, e) : Append(s, e)[i].type = t
OBVIOUS

LEMMA MoreTxt ==
    ASSUME NEW e \in QServices, NEW key \in Q!TxtKeys
    PROVE  /\ [e EXCEPT !.txt = @ \cup {key}] \in QServices
           /\ [e EXCEPT !.txt = @ \cup {key}].type = e.type
BY DEF QServices

LEMMA SameLength ==
    ASSUME NEW s \in Seq(QServices), NEW new, DOMAIN new = DOMAIN s,
           new = [i \in DOMAIN s |-> new[i]], \A i \in DOMAIN s : new[i] \in QServices
    PROVE  new \in Seq(QServices) /\ Len(new) = Len(s)
<1>1. new \in [1..Len(s) -> QServices] /\ Len(s) \in Nat
  OBVIOUS
<1> QED
  BY <1>1

LEMMA MocksChange ==
    ASSUME QueryInv, NEW t \in Types, NEW new \in MocksOf(t),
           mocks' = [mocks EXCEPT ![t] = new],
           UNCHANGED <<queried, results, browsing>>
    PROVE  QueryInv'
<1>1. MocksTyped'
  BY DEF QueryInv, MocksTyped, MocksOf
<1>2. ResultsTyped' /\ BrowsingBounded'
  BY Zenon DEF QueryInv, ResultsTyped, BrowsingBounded
<1> QED
  BY <1>1, <1>2 DEF QueryInv

LEMMA QueryStepKeeps == QueryInv /\ [Q!Next]_(Q!vars) => QueryInv'
<1> SUFFICES ASSUME QueryInv, [Q!Next]_(Q!vars) PROVE QueryInv'
  OBVIOUS
<1>0. MocksTyped /\ ResultsTyped /\ BrowsingBounded
  BY DEF QueryInv
<1>1. CASE Q!InitAvahi \/ UNCHANGED Q!vars
  BY <1>0, <1>1, Zenon DEF Q!InitAvahi, Q!vars, QueryInv, MocksTyped, ResultsTyped, BrowsingBounded
<1>2. CASE Q!End \/ Q!ClearMockServices
  <2>1. results' = <<>> /\ browsing = Nothing /\ browsing' = Nothing
    BY <1>2, Zenon DEF Q!End, Q!ClearMockServices
  <2>2. ResultsTyped'
    <3>1. <<>> \in Seq(QServices) /\ Len(<<>>) = 0 /\ DOMAIN <<>> = {}
      OBVIOUS
    <3> QED
      BY <2>1, <3>1, LimitsAssumption DEF ResultsTyped
  <2>3. MocksTyped'
    <3>1. CASE mocks' = [t \in Types |-> <<>>]
      BY <3>1, NoMocks, Zenon DEF MocksTyped
    <3>2. CASE mocks' = mocks
      BY <1>0, <3>2, Zenon DEF MocksTyped
    <3> QED
      BY <1>2, <3>1, <3>2, Zenon DEF Q!End, Q!ClearMockServices
  <2> QED
    BY <2>1, <2>2, <2>3, Zenon DEF QueryInv, BrowsingBounded
<1>3. ASSUME NEW t \in Types, NEW h \in Hosts, NEW addr \in Q!Addresses, Q!AddMockService(t, h, addr)
      PROVE  QueryInv'
  <2> DEFINE e == Q!Service(t, h, addr, {})
  <2>1. e \in QServices /\ e.type = t
    BY DEF Q!Service, QServices
  <2>2. mocks[t] \in Seq(QServices) /\ Len(mocks[t]) < MaxMocks
        /\ \A i \in DOMAIN mocks[t] : mocks[t][i].type = t
    BY <1>0, <1>3 DEF MocksTyped, MocksOf, Q!AddMockService
  <2> HIDE DEF e
  <2>3. /\ Append(mocks[t], e) \in Seq(QServices)
        /\ Len(Append(mocks[t], e)) = Len(mocks[t]) + 1
        /\ \A j \in DOMAIN Append(mocks[t], e) : Append(mocks[t], e)[j].type = t
    BY <2>1, <2>2, OneMore, Zenon
  <2>4. Len(mocks[t]) \in Nat
    BY <2>2
  <2>6. Len(mocks[t]) + 1 <= MaxMocks
    BY <2>2, <2>4, LimitsAssumption
  <2>5. Append(mocks[t], e) \in MocksOf(t)
    BY <2>3, <2>6, Zenon DEF MocksOf
  <2> QED
    BY <1>3, <2>5, MocksChange DEF Q!AddMockService, e
<1>4. ASSUME NEW t \in Types, NEW h \in Hosts, NEW k \in Q!TxtKeys, Q!AddMockServiceTxt(t, h, k)
      PROVE  QueryInv'
  <2> DEFINE i == Q!FirstOf({j \in DOMAIN mocks[t] : mocks[t][j].host = h})
             new == [mocks[t] EXCEPT ![i].txt = @ \cup {k}]
  <2>1. mocks[t] \in Seq(QServices) /\ Len(mocks[t]) <= MaxMocks
        /\ \A j \in DOMAIN mocks[t] : mocks[t][j].type = t
    BY <1>0 DEF MocksTyped, MocksOf
  <2>0. DOMAIN new = DOMAIN mocks[t] /\ new = [j \in DOMAIN mocks[t] |-> new[j]]
    BY <2>1
  <2>6. \A j \in DOMAIN mocks[t] :
          new[j] = IF j = i THEN [mocks[t][j] EXCEPT !.txt = @ \cup {k}] ELSE mocks[t][j]
    <3> SUFFICES ASSUME NEW j \in DOMAIN mocks[t]
                 PROVE  new[j] = IF j = i THEN [mocks[t][j] EXCEPT !.txt = @ \cup {k}]
                                 ELSE mocks[t][j]
      OBVIOUS
    <3>1. CASE j = i
      BY <3>1
    <3>2. CASE j # i
      BY <3>2
    <3> QED
      BY <3>1, <3>2
  <2> HIDE DEF i, new
  <2>2. \A j \in DOMAIN mocks[t] : new[j] \in QServices /\ new[j].type = mocks[t][j].type
    <3>1. \A j \in DOMAIN mocks[t] : mocks[t][j] \in QServices
      BY <2>1
    <3>2. \A j \in DOMAIN mocks[t] :
            LET more == [mocks[t][j] EXCEPT !.txt = @ \cup {k}]
            IN  more \in QServices /\ more.type = mocks[t][j].type
      BY <3>1, MoreTxt
    <3> SUFFICES ASSUME NEW j \in DOMAIN mocks[t]
                 PROVE  new[j] \in QServices /\ new[j].type = mocks[t][j].type
      OBVIOUS
    <3>3. CASE j = i
      <4>1. new[j] = [mocks[t][j] EXCEPT !.txt = @ \cup {k}]
        BY <2>6, <3>3
      <4> QED
        BY <3>2, <4>1
    <3>4. CASE j # i
      BY <2>6, <3>1, <3>4
    <3> QED
      BY <3>3, <3>4
  <2>3. new \in Seq(QServices) /\ Len(new) = Len(mocks[t])
    BY <2>0, <2>1, <2>2, SameLength, Zenon
  <2>4. new \in MocksOf(t)
    BY <2>0, <2>1, <2>2, <2>3, Zenon DEF MocksOf
  <2>5. mocks' = [mocks EXCEPT ![t] = new] /\ UNCHANGED <<queried, results, browsing>>
    BY <1>4 DEF Q!AddMockServiceTxt, i, new
  <2> QED
    BY <2>4, <2>5, MocksChange
<1>5. ASSUME NEW t \in Types, NEW underscores, Q!QueryService(t, underscores)
      PROVE  QueryInv'
  <2>1. queried' = t /\ results' = mocks[t] /\ mocks' = mocks
    BY <1>5 DEF Q!QueryService
  <2>2. mocks[t] \in Seq(QServices) /\ Len(mocks[t]) <= MaxMocks /\ Len(mocks[t]) \in Nat
        /\ \A j \in DOMAIN mocks[t] : mocks[t][j].type = t
    BY <1>0 DEF MocksTyped, MocksOf
  <2>3. ResultsTyped'
    BY <2>1, <2>2, LimitsAssumption DEF ResultsTyped
  <2>4. BrowsingBounded'
    <3>1. IsFiniteSet({}) /\ Cardinality({}) = 0
      BY FS_EmptySet
    <3>2. IsFiniteSet(1..MaxReports) /\ Cardinality(1..MaxReports) = MaxReports
      BY FS_Interval, LimitsAssumption
    <3>3. CASE browsing' = [resolving |-> {}, toCome |-> 1..MaxReports]
      <4>1. browsing'.resolving = {} /\ browsing'.toCome = 1..MaxReports
        BY <3>3
      <4> QED
        BY <2>1, <2>2, <3>1, <3>2, <4>1, LimitsAssumption DEF BrowsingBounded
    <3> QED
      BY <1>5, <3>3 DEF Q!QueryService, BrowsingBounded
  <2> QED
    BY <1>0, <2>1, <2>3, <2>4, Zenon DEF QueryInv, MocksTyped
<1>6. CASE Q!BrowseNew
  <2>1. PICK r \in browsing.toCome :
          browsing' = [resolving |-> browsing.resolving \cup {r},
                       toCome |-> browsing.toCome \ {r}]
    BY <1>6 DEF Q!BrowseNew
  <2>2. browsing'.resolving = browsing.resolving \cup {r} /\ browsing'.toCome = browsing.toCome \ {r}
    BY <2>1
  <2>3. browsing # Nothing /\ UNCHANGED <<mocks, queried, results>>
    BY <1>6, Zenon DEF Q!BrowseNew
  <2>4. IsFiniteSet(browsing.resolving) /\ IsFiniteSet(browsing.toCome) /\ queried \in Types
        /\ Len(results) + Cardinality(browsing.resolving) + Cardinality(browsing.toCome)
             <= MaxMocks + MaxReports
    BY <1>0, <2>3 DEF BrowsingBounded
  <2>5. /\ IsFiniteSet(browsing.resolving \cup {r})
        /\ Cardinality(browsing.resolving \cup {r}) \in
             {Cardinality(browsing.resolving), Cardinality(browsing.resolving) + 1}
    BY <2>4, FS_AddElement
  <2>6. /\ IsFiniteSet(browsing.toCome \ {r})
        /\ Cardinality(browsing.toCome \ {r}) = Cardinality(browsing.toCome) - 1
    BY <2>4, FS_RemoveElement
  <2>7. Cardinality(browsing.resolving) \in Nat /\ Cardinality(browsing.toCome) \in Nat
        /\ Len(results) \in Nat
    BY <1>0, <2>4, FS_CardinalityType DEF ResultsTyped
  <2>8. BrowsingBounded'
    BY <2>2, <2>3, <2>4, <2>5, <2>6, <2>7, LimitsAssumption DEF BrowsingBounded
  <2> QED
    BY <1>0, <2>3, <2>8, Zenon DEF QueryInv, MocksTyped, ResultsTyped
<1>7. CASE Q!Resolved
  <2>1. PICK r \in browsing.resolving :
          /\ browsing' = [browsing EXCEPT !.resolving = @ \ {r}]
          /\ \/ \E host \in Hosts, addr \in Q!Addresses, txt \in SUBSET Q!TxtKeys :
                  results' = Append(results, Q!Service(queried, host, addr, txt))
             \/ UNCHANGED results
    BY <1>7 DEF Q!Resolved
  <2>2. browsing # Nothing /\ UNCHANGED <<mocks, queried>>
    BY <1>7, Zenon DEF Q!Resolved
  <2>3. IsFiniteSet(browsing.resolving) /\ IsFiniteSet(browsing.toCome) /\ queried \in Types
        /\ Len(results) + Cardinality(browsing.resolving) + Cardinality(browsing.toCome)
             <= MaxMocks + MaxReports
    BY <1>0, <2>2 DEF BrowsingBounded
  <2>4. /\ IsFiniteSet(browsing.resolving \ {r})
        /\ Cardinality(browsing.resolving \ {r}) = Cardinality(browsing.resolving) - 1
    BY <2>3, FS_RemoveElement
  <2>5. Cardinality(browsing.resolving) \in Nat /\ Cardinality(browsing.toCome) \in Nat
        /\ Len(results) \in Nat /\ Cardinality(browsing.resolving \ {r}) \in Nat
    BY <1>0, <2>3, <2>4, FS_CardinalityType DEF ResultsTyped
  <2>6. /\ results' \in Seq(QServices) /\ Len(results') \in {Len(results), Len(results) + 1}
        /\ \A i \in DOMAIN results' : results'[i].type = queried'
    <3>1. CASE UNCHANGED results
      BY <1>0, <2>2, <3>1 DEF ResultsTyped
    <3>2. ASSUME NEW host \in Hosts, NEW addr \in Q!Addresses, NEW txt \in SUBSET Q!TxtKeys,
                 results' = Append(results, Q!Service(queried, host, addr, txt))
          PROVE  /\ results' \in Seq(QServices) /\ Len(results') \in {Len(results), Len(results) + 1}
                 /\ \A i \in DOMAIN results' : results'[i].type = queried'
      <4>1. /\ Q!Service(queried, host, addr, txt) \in QServices
            /\ Q!Service(queried, host, addr, txt).type = queried
        BY <2>3 DEF Q!Service, QServices
      <4> QED
        BY <1>0, <2>2, <3>2, <4>1, OneMore DEF ResultsTyped
    <3> QED
      BY <2>1, <3>1, <3>2
  <2>7. browsing'.resolving = browsing.resolving \ {r} /\ browsing'.toCome = browsing.toCome
    BY <2>1
  <2>8. BrowsingBounded' /\ ResultsTyped'
    BY <2>2, <2>3, <2>4, <2>5, <2>6, <2>7, LimitsAssumption DEF BrowsingBounded, ResultsTyped
  <2> QED
    BY <1>0, <2>2, <2>8, Zenon DEF QueryInv, MocksTyped
<1>8. CASE Q!QueryReturn
  BY <1>0, <1>8, Zenon DEF Q!QueryReturn, QueryInv, MocksTyped, ResultsTyped, BrowsingBounded
<1> QED
  BY <1>1, <1>2, <1>3, <1>4, <1>5, <1>6, <1>7, <1>8, Zenon DEF Q!Next

LEMMA QueryInvHolds == NetworkSpec => []QueryInv
<1>1. NetworkInit => QueryInv
  <2>1. <<>> \in Seq(QServices) /\ Len(<<>>) = 0 /\ DOMAIN <<>> = {}
    OBVIOUS
  <2> QED
    BY <2>1, NoMocks, LimitsAssumption
    DEF NetworkInit, Q!Init, QueryInv, MocksTyped, ResultsTyped, BrowsingBounded
<1>2. QueryInv /\ [NetworkNext]_networkVars => QueryInv'
  BY QueryPart, QueryStepKeeps
<1> QED
  BY <1>1, <1>2, PTL DEF NetworkSpec

LEMMA ResultsHold == NetworkSpec => []Q!ResultsOfLastQuery
<1>1. QueryInv => Q!ResultsOfLastQuery
  BY DEF QueryInv, ResultsTyped, Q!ResultsOfLastQuery
<1> QED
  BY <1>1, QueryInvHolds, PTL

-----------------------------------------------------------------------------
(* Result lists.  A field of list l points to its own block, or to nothing *)
(* or to garbage, the latter only after the memory for a TXT record was    *)
(* refused: so two lists share no block, and freeing one frees what is     *)
(* there, all of it, and nothing else.                                     *)

Held == {l \in Lists : list[l] # Null}
ListsTyped ==
    /\ reported \in Seq(Services)
    /\ list = [l \in Lists |-> list[l]] /\ copied = [l \in Lists |-> copied[l]]
    /\ \A l \in Held : list[l] \in Seq(G!Results)
OwnBlocks ==
    \A l \in Held : \A i \in DOMAIN list[l] : \A f \in DOMAIN list[l][i] :
        /\ f \in G!AllFields
        /\ list[l][i][f] \in {Null, Garbage, <<l, i, f>>}
        /\ list[l][i][f] = Garbage => lost \cap {"key", "value"} # {}
HeapOwned == ~broken => heap = UNION {G!Blocks(l, list[l]) : l \in Held}
CopiesKept ==
    \A l \in Held :
        /\ Len(list[l]) <= Len(copied[l])
        /\ "result" \notin lost => Len(list[l]) = Len(copied[l])
        /\ \A i \in DOMAIN list[l] : DOMAIN list[l][i] = G!Fields(copied[l][i])
BrokenExplained == broken => lost \cap {"txt", "lens", "key", "value"} # {}
GivenInv == ListsTyped /\ OwnBlocks /\ HeapOwned /\ CopiesKept /\ BrokenExplained

(* The block <<l, i, f>> is neither null nor garbage.                      *)
LEMMA RealBlock ==
    ASSUME NEW l \in Lists, NEW i \in Nat, NEW f \in G!AllFields
    PROVE  <<l, i, f>> # Null /\ <<l, i, f>> # Garbage
BY NullAssumption DEF G!AllBlocks

LEMMA FieldsAreFields == \A s \in Services : G!Fields(s) \subseteq G!AllFields
BY DEF G!AllFields

(* What a list owns is marked as its own.                                  *)
LEMMA BlocksMarked ==
    ASSUME ListsTyped, OwnBlocks, NEW l \in Held, NEW b \in G!Blocks(l, list[l])
    PROVE  b # Garbage /\ b[1] = l
<1>1. ASSUME NEW i \in DOMAIN list[l], NEW f \in DOMAIN list[l][i], b = list[l][i][f],
             b # Null, b # Garbage
      PROVE  b # Garbage /\ b[1] = l
  BY <1>1 DEF OwnBlocks
<1>2. ASSUME NEW i \in DOMAIN list[l], b = <<l, i, <<"result", 0>>>>
      PROVE  b # Garbage /\ b[1] = l
  <2>1. i \in Nat /\ l \in Lists /\ <<"result", 0>> \in G!AllFields
    BY DEF ListsTyped, Held, G!AllFields
  <2> QED
    BY <1>2, <2>1, RealBlock
<1> QED
  BY <1>1, <1>2 DEF G!Blocks, G!Pointers, G!Nodes

(* The lists but l are what they were.                                     *)
LEMMA OthersKept ==
    ASSUME GivenInv, NEW l \in Lists, NEW new, list' = [list EXCEPT ![l] = new],
           NEW m \in Held', m # l
    PROVE  m \in Held /\ list'[m] = list[m]
BY DEF GivenInv, ListsTyped, Held

LEMMA FreeKeeps ==
    ASSUME GivenInv, ~broken, NEW l \in Lists, G!FreeResults(l)
    PROVE  GivenInv'
<1> DEFINE blocks(m) == G!Blocks(m, list[m])
           freed == (G!Pointers(list[l]) \ {Null}) \cup G!Nodes(l, list[l])
<1>0. ListsTyped /\ OwnBlocks /\ HeapOwned /\ CopiesKept /\ BrokenExplained
  BY Zenon DEF GivenInv
<1>1. /\ l \in Held /\ list' = [list EXCEPT ![l] = Null]
      /\ heap' = heap \ freed /\ broken' = (freed \ heap # {})
      /\ UNCHANGED <<reported, deleted, copied, lost>>
  BY Zenon DEF G!FreeResults, Held
<1>2. Held' = Held \ {l} /\ \A m \in Held' : list'[m] = list[m]
  BY <1>0, <1>1 DEF ListsTyped, Held
<1>3. heap = UNION {blocks(m) : m \in Held}
  BY <1>0, Zenon DEF HeapOwned
<1>4. blocks(l) \subseteq freed /\ freed \subseteq blocks(l) \cup {Garbage}
  BY DEF G!Blocks
<1>5. ListsTyped' /\ OwnBlocks' /\ CopiesKept'
  <2>1. ListsTyped'
    BY <1>0, <1>1, <1>2 DEF ListsTyped
  <2>2. OwnBlocks'
    BY <1>0, <1>1, <1>2 DEF OwnBlocks
  <2>3. CopiesKept'
    BY <1>0, <1>1, <1>2 DEF CopiesKept
  <2> QED
    BY <2>1, <2>2, <2>3
<1>6. HeapOwned'
  <2>1. \A m \in Held' : m \in Held /\ m # l /\ G!Blocks(m, list'[m]) = blocks(m)
    BY <1>2
  <2>2. ASSUME NEW m \in Held', NEW b \in blocks(m)
        PROVE  b \in heap \ freed
    <3>1. b # Garbage /\ b[1] = m
      BY <1>0, <2>1, BlocksMarked
    <3>2. b \notin blocks(l)
      BY <1>0, <1>1, <2>1, <3>1, BlocksMarked
    <3> QED
      BY <1>3, <1>4, <2>1, <3>1, <3>2
  <2>3. ASSUME NEW b \in heap \ freed
        PROVE  \E m \in Held' : b \in blocks(m)
    BY <1>2, <1>3, <1>4
  <2>4. heap \ freed = UNION {blocks(m) : m \in Held'}
    BY <2>2, <2>3
  <2>5. {blocks(m) : m \in Held'} = {G!Blocks(m, list'[m]) : m \in Held'}
    BY <2>1
  <2> QED
    BY <1>1, <2>4, <2>5, Zenon DEF HeapOwned
<1>7. BrokenExplained'
  <2> SUFFICES ASSUME broken' PROVE lost' \cap {"key", "value"} # {}
    BY DEF BrokenExplained
  <2>1. PICK b \in freed : b \notin heap
    BY <1>1
  <2>2. b = Garbage /\ b \in G!Pointers(list[l])
    BY <1>1, <1>3, <1>4, <2>1 DEF G!Blocks
  <2>3. \E i \in DOMAIN list[l] : \E f \in DOMAIN list[l][i] : list[l][i][f] = Garbage
    BY <2>2 DEF G!Pointers
  <2> QED
    BY <1>0, <1>1, <2>3 DEF OwnBlocks
<1> QED
  BY <1>5, <1>6, <1>7, Zenon DEF GivenInv

(* A copy of the first n results, made with the malloc()s that fail.       *)
LEMMA ResultMade ==
    ASSUME reported \in Seq(Services), NEW l \in Lists, NEW i \in DOMAIN reported, NEW fails
    PROVE  LET r == G!Result(l, i, fails)
           IN  /\ r \in G!Results /\ DOMAIN r = G!Fields(reported[i])
               /\ \A f \in DOMAIN r :
                    /\ f \in G!AllFields
                    /\ r[f] \in {Null, Garbage, <<l, i, f>>}
                    /\ r[f] = Garbage => <<i, f>> \in fails /\ f[1] \in {"key", "value"}
<1> DEFINE r == G!Result(l, i, fails)
           fields == G!Fields(reported[i])
<1>1. reported[i] \in Services /\ i \in Nat
  OBVIOUS
<1>2. fields \subseteq G!AllFields
  BY <1>1, FieldsAreFields
<1>3. r = [f \in fields |->
            IF <<i, f>> \notin fails THEN <<l, i, f>>
            ELSE IF f[1] \in {"key", "value"} THEN Garbage ELSE Null]
  BY DEF G!Result
<1> HIDE DEF r, fields
<1>4. ASSUME NEW f \in fields
      PROVE  /\ f \in G!AllFields
             /\ r[f] \in {Null, Garbage, <<l, i, f>>}
             /\ r[f] \in G!AllBlocks \cup {Null, Garbage}
             /\ r[f] = Garbage => <<i, f>> \in fails /\ f[1] \in {"key", "value"}
  <2>1. <<l, i, f>> # Garbage /\ <<l, i, f>> \in G!AllBlocks
    BY <1>1, <1>2, RealBlock DEF G!AllBlocks
  <2>2. r[f] = IF <<i, f>> \notin fails THEN <<l, i, f>>
               ELSE IF f[1] \in {"key", "value"} THEN Garbage ELSE Null
    BY <1>3
  <2> QED
    BY <1>2, <2>1, <2>2, NullAssumption
<1>5. r \in [fields -> G!AllBlocks \cup {Null, Garbage}]
  BY <1>3, <1>4
<1>6. r \in G!Results
  BY <1>1, <1>5 DEF G!Results, fields
<1>7. DOMAIN r = fields
  BY <1>3
<1> QED
  BY <1>4, <1>6, <1>7, Zenon DEF r, fields

LEMMA GetKeeps ==
    ASSUME GivenInv, ~broken, NEW l \in Lists, NEW fails, G!GetAsyncQueryResults(l, fails)
    PROVE  GivenInv'
<1> DEFINE short == {i \in DOMAIN reported : <<i, <<"result", 0>>>> \in fails}
           n == IF short = {} THEN Len(reported) ELSE (CHOOSE i \in short : TRUE) - 1
           made == [i \in 1..n |-> G!Result(l, i, fails)]
<1>0. ListsTyped /\ OwnBlocks /\ HeapOwned /\ CopiesKept /\ BrokenExplained
  BY Zenon DEF GivenInv
<1>1. /\ list[l] = Null
      /\ list' = [list EXCEPT ![l] = IF n = 0 THEN Null ELSE made]
      /\ heap' = heap \cup G!Blocks(l, made)
      /\ copied' = [copied EXCEPT ![l] = reported]
      /\ lost' = lost \cup {p[2][1] : p \in fails}
      /\ broken' = (\E p \in fails : p[2][1] \in {"txt", "lens"})
      /\ UNCHANGED <<reported, deleted>>
  BY DEF G!GetAsyncQueryResults
<1>2. reported \in Seq(Services) /\ DOMAIN reported = 1..Len(reported) /\ Len(reported) \in Nat
  BY <1>0 DEF ListsTyped
<1>3. n \in 0..Len(reported) /\ (n # Len(reported) => "result" \in lost')
  <2>1. CASE short = {}
    BY <1>2, <2>1
  <2>2. CASE short # {}
    <3>1. PICK k \in short : n = k - 1
      BY <2>2
    <3>2. <<k, <<"result", 0>>>>[2][1] = "result"
      OBVIOUS
    <3> QED
      BY <1>1, <1>2, <3>1, <3>2
  <2> QED
    BY <2>1, <2>2
<1> HIDE DEF short, n
<1>13. n \in 0..Len(reported) /\ Len(reported) \in Nat
  BY <1>2, <1>3, Zenon
<1>12. n \in Nat /\ \A i \in 1..n : i \in DOMAIN reported
  <2>1. n \in Nat /\ \A i \in 1..n : i \in 1..Len(reported)
    BY <1>13
  <2> QED
    BY <1>2, <2>1, Zenon
<1>4. made \in [1..n -> G!Results] /\ made \in Seq(G!Results) /\ Len(made) = n /\ made # Null
  <2>1. ASSUME NEW i \in 1..n PROVE G!Result(l, i, fails) \in G!Results
    BY <1>2, <1>12, ResultMade, Zenon
  <2>2. made \in [1..n -> G!Results]
    BY <2>1
  <2> HIDE DEF made
  <2>3. made \in Seq(G!Results) /\ Len(made) = n
    BY <1>12, <2>2
  <2> QED
    BY <2>2, <2>3, NullAssumption
<1>5. ASSUME NEW i \in DOMAIN made
      PROVE  /\ i \in 1..n /\ i \in DOMAIN reported
             /\ DOMAIN made[i] = G!Fields(reported[i])
             /\ \A f \in DOMAIN made[i] :
                  /\ f \in G!AllFields
                  /\ made[i][f] \in {Null, Garbage, <<l, i, f>>}
                  /\ made[i][f] = Garbage => <<i, f>> \in fails /\ f[1] \in {"key", "value"}
  <2>1. i \in 1..n /\ i \in DOMAIN reported /\ made[i] = G!Result(l, i, fails)
    BY <1>12, Zenon
  <2> QED
    BY <1>2, <2>1, ResultMade
<1> HIDE DEF made
<1>6. /\ \A m \in Held' : m # l => m \in Held /\ list'[m] = list[m]
      /\ l \in Held' <=> n # 0
      /\ l \in Held' => list'[l] = made
      /\ l \notin Held
      /\ \A m \in Held : m \in Held' /\ m # l
  BY <1>0, <1>1, <1>4 DEF ListsTyped, Held
<1>7. ListsTyped'
  BY <1>0, <1>1, <1>4, <1>6 DEF ListsTyped
<1>8. OwnBlocks'
  <2>1. ASSUME NEW i \in DOMAIN made, NEW f \in DOMAIN made[i], made[i][f] = Garbage
        PROVE  lost' \cap {"key", "value"} # {}
    <3>1. <<i, f>> \in fails /\ f[1] \in {"key", "value"}
      BY <1>5, <2>1
    <3>2. <<i, f>>[2][1] = f[1]
      OBVIOUS
    <3> QED
      BY <1>1, <3>1, <3>2
  <2>2. ASSUME NEW m \in Held', m # l, NEW i \in DOMAIN list'[m], NEW f \in DOMAIN list'[m][i]
        PROVE  /\ f \in G!AllFields
               /\ list'[m][i][f] \in {Null, Garbage, <<m, i, f>>}
               /\ list'[m][i][f] = Garbage => lost' \cap {"key", "value"} # {}
    BY <1>0, <1>1, <1>6, <2>2 DEF OwnBlocks
  <2>3. ASSUME l \in Held', NEW i \in DOMAIN list'[l], NEW f \in DOMAIN list'[l][i]
        PROVE  /\ f \in G!AllFields
               /\ list'[l][i][f] \in {Null, Garbage, <<l, i, f>>}
               /\ list'[l][i][f] = Garbage => lost' \cap {"key", "value"} # {}
    BY <1>5, <1>6, <2>1, <2>3
  <2> QED
    BY <2>2, <2>3, Zenon DEF OwnBlocks
<1>9. HeapOwned'
  <2>1. heap = UNION {G!Blocks(m, list[m]) : m \in Held}
    BY <1>0 DEF HeapOwned
  <2>2. n = 0 => G!Blocks(l, made) = {}
    BY <1>5 DEF G!Blocks, G!Pointers, G!Nodes
  <2>3. \A m \in Held : m \in Held' /\ G!Blocks(m, list'[m]) = G!Blocks(m, list[m])
    BY <1>6
  <2>4. ASSUME NEW m \in Held', NEW b \in G!Blocks(m, list'[m])
        PROVE  b \in heap'
    <3>1. CASE m = l
      BY <1>1, <1>6, <2>4, <3>1, Zenon
    <3>2. CASE m # l
      BY <1>1, <1>6, <2>1, <2>3, <3>2
    <3> QED
      BY <3>1, <3>2
  <2>5. ASSUME NEW b \in heap'
        PROVE  \E m \in Held' : b \in G!Blocks(m, list'[m])
    <3>1. CASE b \in G!Blocks(l, made)
      BY <1>6, <2>2, <3>1
    <3>2. CASE b \in heap
      BY <2>1, <2>3, <3>2
    <3> QED
      BY <1>1, <3>1, <3>2
  <2>6. heap' = UNION {G!Blocks(m, list'[m]) : m \in Held'}
    BY <2>4, <2>5
  <2> QED
    BY <2>6, Zenon DEF HeapOwned
<1>10. CopiesKept'
  <2>1. ASSUME NEW m \in Held', m # l
        PROVE  /\ Len(list'[m]) <= Len(copied'[m])
               /\ "result" \notin lost' => Len(list'[m]) = Len(copied'[m])
               /\ \A i \in DOMAIN list'[m] : DOMAIN list'[m][i] = G!Fields(copied'[m][i])
    <3>1. list'[m] = list[m] /\ copied'[m] = copied[m] /\ m \in Held /\ lost \subseteq lost'
      BY <1>0, <1>1, <1>6, <2>1 DEF ListsTyped
    <3> QED
      BY <1>0, <3>1 DEF CopiesKept
  <2>2. ASSUME l \in Held'
        PROVE  /\ Len(list'[l]) <= Len(copied'[l])
               /\ "result" \notin lost' => Len(list'[l]) = Len(copied'[l])
               /\ \A i \in DOMAIN list'[l] : DOMAIN list'[l][i] = G!Fields(copied'[l][i])
    <3>1. list'[l] = made /\ copied'[l] = reported
      BY <1>0, <1>1, <1>6, <2>2 DEF ListsTyped
    <3> QED
      <4>1. Len(made) <= Len(reported) /\ ("result" \notin lost' => Len(made) = Len(reported))
        <5>1. n <= Len(reported)
          BY <1>13
        <5> QED
          BY <1>3, <1>4, <5>1, Zenon
      <4> QED
        BY <1>5, <3>1, <4>1, Zenon
  <2> QED
    BY <2>1, <2>2, Zenon DEF CopiesKept
<1>11. BrokenExplained'
  BY <1>1 DEF BrokenExplained
<1> QED
  BY <1>7, <1>8, <1>9, <1>10, <1>11, Zenon DEF GivenInv

LEMMA GivenStepKeeps == GivenInv /\ [G!Next]_(G!vars) => GivenInv'
<1> SUFFICES ASSUME GivenInv, [G!Next]_(G!vars) PROVE GivenInv'
  OBVIOUS
<1>0. ListsTyped /\ OwnBlocks /\ HeapOwned /\ CopiesKept /\ BrokenExplained
  BY Zenon DEF GivenInv
<1>1. ASSUME reported' \in Seq(Services), UNCHANGED <<list, heap, copied, lost, broken>>
      PROVE  GivenInv'
  <2>1. Held' = Held
    BY <1>1 DEF Held
  <2>2. ListsTyped'
    BY <1>0, <1>1, <2>1, Zenon DEF ListsTyped
  <2>3. OwnBlocks' /\ HeapOwned' /\ CopiesKept' /\ BrokenExplained'
    BY <1>0, <1>1, <2>1 DEF OwnBlocks, HeapOwned, CopiesKept, BrokenExplained
  <2> QED
    BY <2>2, <2>3, Zenon DEF GivenInv
<1>2. ASSUME NEW s \in Services, G!AddResult(s) PROVE GivenInv'
  <2>1. reported' \in Seq(Services)
    BY <1>0, <1>2 DEF ListsTyped, G!AddResult
  <2> QED
    BY <1>1, <1>2, <2>1, Zenon DEF G!AddResult
<1>3. CASE G!DeleteAsyncQuery
  <2>1. <<>> \in Seq(Services)
    OBVIOUS
  <2> QED
    BY <1>1, <1>3, <2>1, Zenon DEF G!DeleteAsyncQuery
<1>4. CASE UNCHANGED G!vars
  BY <1>0, <1>1, <1>4, Zenon DEF G!vars, ListsTyped
<1> QED
  BY <1>2, <1>3, <1>4, GetKeeps, FreeKeeps, Zenon DEF G!Next

LEMMA ListsHold == NetworkSpec => []G!ResultsOwned
<1>1. NetworkInit => GivenInv
  <2> SUFFICES ASSUME NetworkInit PROVE GivenInv
    OBVIOUS
  <2>1. G!Init /\ <<>> \in Seq(Services)
    BY DEF NetworkInit
  <2>2. Held = {}
    BY <2>1 DEF G!Init, Held
  <2> QED
    BY <2>1, <2>2 DEF G!Init, GivenInv, ListsTyped, OwnBlocks, HeapOwned, CopiesKept, BrokenExplained
<1>2. GivenInv /\ [NetworkNext]_networkVars => GivenInv'
  BY GivenPart, GivenStepKeeps
<1>3. GivenInv => G!ResultsOwned
  BY DEF GivenInv, G!ResultsOwned, HeapOwned, CopiesKept, BrokenExplained, Held
<1> QED
  BY <1>1, <1>2, <1>3, PTL DEF NetworkSpec

-----------------------------------------------------------------------------
(* Searches.  SearchExact is not inductive.  What is added: the reports to *)
(* come are not those at work, of which a search that is gone has none; a  *)
(* handle not used yet has no past; and the calls in progress use searches *)
(* that are there.                                                         *)

(* The results res, of max at most if it is not 0, merge the reports R.    *)
Ids(entries) == {entries[i].id : i \in DOMAIN entries}
Sums(entry, reports) ==
    /\ entry.txt = UNION {r.txt : r \in reports}
    /\ entry.ip \in {r.ip : r \in reports}
    /\ entry.ip = 0 => \A r \in reports : r.ip = 0
Of(id, reports) == {r \in reports : r.id = id}
Merged(res, max, reports) ==
    /\ \A i, j \in DOMAIN res : res[i].id = res[j].id => i = j
    /\ max > 0 => Len(res) <= max
    /\ \A i \in DOMAIN res : Sums(res[i], Of(res[i].id, reports))
    /\ max = 0 \/ Len(res) < max => {r.id : r \in reports} = Ids(res)

DaemonOK(d) ==
    /\ d \in [unseen : SUBSET S!Entries, resolving : SUBSET S!Entries]
    /\ IsFiniteSet(d.unseen) /\ IsFiniteSet(d.resolving)
    /\ d.unseen \cap d.resolving = {}
SearchOK(s, d, reports, times) ==
    /\ s \in S!Searches
    /\ s.outstanding = Cardinality(d.resolving)
    /\ ~s.notified => times = 0
    /\ Merged(s.results, s.opt.max, reports)
HandleOK(h) ==
    /\ DaemonOK(daemon[h]) /\ found[h] \subseteq S!Entries /\ notified[h] \in Nat
    /\ search[h] = None => daemon[h].resolving = {}
    /\ search[h] # None => SearchOK(search[h], daemon[h], found[h], notified[h])
    /\ h \in fresh => search[h] = None /\ found[h] = {} /\ notified[h] = 0

Frames(live) ==
    [fn : {"service"}, at : {"pump", "loop"}, left : SUBSET live]
    \cup [fn : {"get"}, at : {"pump", "answer"}, h : live, left : Nat]
    \cup [fn : {"notify"}, h : Handles]
FunctionsOK ==
    /\ search = [h \in Handles |-> search[h]] /\ daemon = [h \in Handles |-> daemon[h]]
    /\ found = [h \in Handles |-> found[h]] /\ notified = [h \in Handles |-> notified[h]]
HandlesOK == \A h \in Handles : HandleOK(h)
StackOK == stack \in Seq(Frames(S!Live))
SearchInv == FunctionsOK /\ HandlesOK /\ StackOK

-----------------------------------------------------------------------------
(* addResult of one more report.                                           *)

(* A report that is of an entry adds to it what it lacks.                  *)
LEMMA SumsOneMore ==
    ASSUME NEW entry \in S!Entries, NEW r \in S!Entries, NEW reports \in SUBSET S!Entries,
           Sums(entry, reports), NEW new,
           new.txt = entry.txt \cup r.txt, new.ip = IF entry.ip = 0 THEN r.ip ELSE entry.ip
    PROVE  Sums(new, reports \cup {r})
<1>1. new.txt = UNION {x.txt : x \in reports \cup {r}}
  BY DEF Sums
<1>2. new.ip \in {x.ip : x \in reports \cup {r}}
  BY DEF Sums
<1>3. new.ip = 0 => \A x \in reports \cup {r} : x.ip = 0
  BY DEF Sums
<1> QED
  BY <1>1, <1>2, <1>3, Zenon DEF Sums

LEMMA OfOneMore ==
    ASSUME NEW id, NEW reports, NEW r
    PROVE  /\ r.id = id => Of(id, reports \cup {r}) = Of(id, reports) \cup {r}
           /\ r.id # id => Of(id, reports \cup {r}) = Of(id, reports)
BY DEF Of

LEMMA ResultMerges ==
    ASSUME NEW s \in S!Searches, NEW r \in S!Entries, NEW reports \in SUBSET S!Entries,
           Merged(s.results, s.opt.max, reports)
    PROVE  /\ S!AddResult(s, r) \in Seq(S!Entries)
           /\ Merged(S!AddResult(s, r), s.opt.max, reports \cup {r})
<1> DEFINE res == s.results
           max == s.opt.max
           same == {i \in DOMAIN res : res[i].id = r.id}
           more(e) == [e EXCEPT !.ip = IF @ = 0 THEN r.ip ELSE @, !.txt = @ \cup r.txt]
           merged == [i \in DOMAIN res |-> IF i \notin same THEN res[i] ELSE more(res[i])]
           new == S!AddResult(s, r)
<1>0. res \in Seq(S!Entries) /\ max \in Nat
  BY DEF S!Searches, S!Queries
<1>1. new = IF same # {} THEN merged
            ELSE IF max > 0 /\ Len(res) >= max THEN res ELSE Append(res, r)
  BY Zenon DEF S!AddResult
<1>2. /\ \A i, j \in DOMAIN res : res[i].id = res[j].id => i = j
      /\ max > 0 => Len(res) <= max
      /\ \A i \in DOMAIN res : Sums(res[i], Of(res[i].id, reports))
      /\ max = 0 \/ Len(res) < max => {x.id : x \in reports} = Ids(res)
  BY Zenon DEF Merged
<1>3. \A i \in DOMAIN res : res[i] \in S!Entries
  BY <1>0
<1> HIDE DEF res, max, new
<1>7. Len(res) \in Nat
  BY <1>0
<1>4. CASE same # {}
  <2>1. ASSUME NEW e \in S!Entries
        PROVE  /\ more(e) \in S!Entries /\ more(e).id = e.id
               /\ more(e).txt = e.txt \cup r.txt
               /\ more(e).ip = IF e.ip = 0 THEN r.ip ELSE e.ip
    BY DEF S!Entries
  <2>2. DOMAIN merged = DOMAIN res
    OBVIOUS
  <2>3. ASSUME NEW i \in DOMAIN res
        PROVE  /\ merged[i] \in S!Entries /\ merged[i].id = res[i].id
               /\ Sums(merged[i], Of(res[i].id, reports \cup {r}))
    <3>1. CASE i \in same
      <4>1. merged[i] = more(res[i]) /\ res[i].id = r.id
        BY <3>1
      <4>2. Of(res[i].id, reports) \in SUBSET S!Entries
        BY DEF Of
      <4> HIDE DEF more, merged
      <4>3. Sums(merged[i], Of(res[i].id, reports) \cup {r})
        BY <1>2, <1>3, <2>1, <4>1, <4>2, SumsOneMore
      <4>4. Of(res[i].id, reports \cup {r}) = Of(res[i].id, reports) \cup {r}
        BY <4>1 DEF Of
      <4> QED
        BY <1>3, <2>1, <4>1, <4>3, <4>4, Zenon
    <3>2. CASE i \notin same
      <4>1. merged[i] = res[i] /\ res[i].id # r.id
        BY <3>2
      <4> HIDE DEF merged
      <4>2. Of(res[i].id, reports \cup {r}) = Of(res[i].id, reports)
        BY <4>1 DEF Of
      <4> QED
        BY <1>2, <1>3, <4>1, <4>2, Zenon
    <3> QED
      BY <3>1, <3>2
  <2>4. merged \in [1..Len(res) -> S!Entries] /\ Len(res) \in Nat
    <3>1. DOMAIN res = 1..Len(res) /\ Len(res) \in Nat
      BY <1>0
    <3>2. \A i \in DOMAIN res : merged[i] \in S!Entries
      BY <2>3, Zenon
    <3>3. merged = [i \in DOMAIN res |-> merged[i]]
      BY Zenon
    <3> HIDE DEF merged
    <3> QED
      BY <3>1, <3>2, <3>3, Zenon
  <2> HIDE DEF merged
  <2>5. merged \in Seq(S!Entries) /\ Len(merged) = Len(res)
    BY <2>4
  <2>6. Ids(merged) = Ids(res) /\ r.id \in Ids(res)
    BY <1>4, <2>2, <2>3 DEF Ids
  <2>7. {x.id : x \in reports \cup {r}} = {x.id : x \in reports} \cup {r.id}
    OBVIOUS
  <2>8. max = 0 \/ Len(merged) < max => {x.id : x \in reports \cup {r}} = Ids(merged)
    BY <1>2, <2>5, <2>6, <2>7
  <2>9. \A i, j \in DOMAIN merged : merged[i].id = merged[j].id => i = j
    BY <1>2, <2>2, <2>3
  <2>10. \A i \in DOMAIN merged : Sums(merged[i], Of(merged[i].id, reports \cup {r}))
    BY <2>2, <2>3
  <2>11. Merged(merged, max, reports \cup {r})
    BY <1>2, <2>5, <2>8, <2>9, <2>10, Zenon DEF Merged
  <2> QED
    BY <1>1, <1>4, <2>5, <2>11 DEF new, max
<1>5. CASE same = {} /\ max > 0 /\ Len(res) >= max
  <2>1. new = res /\ Len(res) \in Nat
    BY <1>1, <1>5, <1>7, Zenon
  <2>2. \A i \in DOMAIN res : Sums(res[i], Of(res[i].id, reports \cup {r}))
    BY <1>2, <1>5, OfOneMore
  <2>3. ~(max = 0 \/ Len(res) < max)
    BY <1>0, <1>5, <2>1
  <2>4. Merged(res, max, reports \cup {r})
    BY <1>2, <2>2, <2>3, Zenon DEF Merged
  <2> QED
    BY <1>0, <2>1, <2>4 DEF new, max
<1>6. CASE same = {} /\ ~(max > 0 /\ Len(res) >= max)
  <2> DEFINE longer == Append(res, r)
  <2>0. Len(res) \in Nat
    BY <1>0
  <2>1. new = longer
    BY <1>1, <1>6, Zenon
  <2>12. max = 0 \/ Len(res) < max
    BY <1>0, <1>6, <2>0
  <2>2. /\ longer \in Seq(S!Entries) /\ Len(longer) = Len(res) + 1
        /\ DOMAIN longer = DOMAIN res \cup {Len(res) + 1}
        /\ \A i \in DOMAIN res : longer[i] = res[i]
        /\ longer[Len(res) + 1] = r
    BY <1>0
  <2> HIDE DEF longer
  <2>3. {x.id : x \in reports} = Ids(res) /\ r.id \notin Ids(res)
    BY <1>2, <1>6, <2>12 DEF Ids
  <2>4. Of(r.id, reports \cup {r}) = {r}
    BY <2>3 DEF Of
  <2>5. Sums(r, {r})
    BY DEF Sums
  <2>6. \A i \in DOMAIN res : Sums(res[i], Of(res[i].id, reports \cup {r}))
    BY <1>2, <1>6, OfOneMore
  <2>7. \A i \in DOMAIN longer : Sums(longer[i], Of(longer[i].id, reports \cup {r}))
    BY <2>2, <2>4, <2>5, <2>6
  <2>8. \A i, j \in DOMAIN longer : longer[i].id = longer[j].id => i = j
    <3>1. \A i \in DOMAIN res : longer[i].id # r.id
      BY <2>2, <2>3 DEF Ids
    <3>2. longer[Len(res) + 1].id = r.id
      BY <2>2
    <3> SUFFICES ASSUME NEW i \in DOMAIN longer, NEW j \in DOMAIN longer,
                        longer[i].id = longer[j].id
                 PROVE  i = j
      OBVIOUS
    <3>3. CASE i \in DOMAIN res /\ j \in DOMAIN res
      BY <1>2, <2>2, <3>3
    <3>4. CASE i \notin DOMAIN res \/ j \notin DOMAIN res
      BY <2>2, <3>1, <3>2, <3>4, Zenon
    <3> QED
      BY <3>3, <3>4
  <2>9. {x.id : x \in reports \cup {r}} = Ids(longer)
    <3>1. {x.id : x \in reports \cup {r}} = {x.id : x \in reports} \cup {r.id}
      OBVIOUS
    <3>2. Ids(longer) = Ids(res) \cup {r.id}
      BY <2>2 DEF Ids
    <3> QED
      BY <2>3, <3>1, <3>2, Zenon
  <2>10. max > 0 => Len(longer) <= max
    BY <1>0, <2>0, <2>12, <2>2
  <2>11. Merged(longer, max, reports \cup {r})
    BY <2>7, <2>8, <2>9, <2>10, Zenon DEF Merged
  <2> QED
    BY <2>1, <2>2, <2>11 DEF new, max
<1> QED
  BY <1>4, <1>5, <1>6

-----------------------------------------------------------------------------
(* A search and Avahi's side of it, with some of their fields set.         *)

LEMMA SearchSet ==
    ASSUME NEW s \in S!Searches, NEW n \in Nat
    PROVE  /\ \A new \in {[s EXCEPT !.allForNow = TRUE]} :
                /\ new \in S!Searches /\ new.outstanding = s.outstanding
                /\ new.notified = s.notified /\ new.results = s.results /\ new.opt = s.opt
           /\ \A new \in {[s EXCEPT !.outstanding = n]} :
                /\ new \in S!Searches /\ new.outstanding = n
                /\ new.notified = s.notified /\ new.results = s.results /\ new.opt = s.opt
           /\ \A new \in {[s EXCEPT !.notified = TRUE]} :
                /\ new \in S!Searches /\ new.outstanding = s.outstanding
                /\ new.notified /\ new.results = s.results /\ new.opt = s.opt
           /\ \A new \in {[s EXCEPT !.age = n]} :
                /\ new \in S!Searches /\ new.outstanding = s.outstanding
                /\ new.notified = s.notified /\ new.results = s.results /\ new.opt = s.opt
<1>1. \A new \in {[s EXCEPT !.allForNow = TRUE]} :
        /\ new \in S!Searches /\ new.outstanding = s.outstanding
        /\ new.notified = s.notified /\ new.results = s.results /\ new.opt = s.opt
  BY DEF S!Searches
<1>2. \A new \in {[s EXCEPT !.outstanding = n]} :
        /\ new \in S!Searches /\ new.outstanding = n
        /\ new.notified = s.notified /\ new.results = s.results /\ new.opt = s.opt
  BY DEF S!Searches
<1>3. \A new \in {[s EXCEPT !.notified = TRUE]} :
        /\ new \in S!Searches /\ new.outstanding = s.outstanding
        /\ new.notified /\ new.results = s.results /\ new.opt = s.opt
  BY DEF S!Searches
<1>4. \A new \in {[s EXCEPT !.age = n]} :
        /\ new \in S!Searches /\ new.outstanding = s.outstanding
        /\ new.notified = s.notified /\ new.results = s.results /\ new.opt = s.opt
  BY DEF S!Searches
<1> QED
  BY <1>1, <1>2, <1>3, <1>4, Zenon

(* Only the search h changes.                                              *)
LEMMA OneHandle ==
    ASSUME SearchInv, NEW h \in Handles, fresh' \subseteq fresh, HandleOK(h)',
           \A k \in Handles \ {h} : /\ search'[k] = search[k] /\ daemon'[k] = daemon[k]
                                   /\ found'[k] = found[k] /\ notified'[k] = notified[k]
    PROVE  HandlesOK'
<1>1. ASSUME NEW k \in Handles \ {h} PROVE HandleOK(k)'
  BY <1>1 DEF SearchInv, HandlesOK, HandleOK
<1> QED
  BY <1>1, Zenon DEF HandlesOK

LEMMA LiveKept ==
    ASSUME \A k \in Handles : search'[k] = None <=> search[k] = None
    PROVE  S!Live' = S!Live
BY DEF S!Live

(* Nothing but the calls in progress, the client and the service changes.  *)
LEMMA OnlyCalls ==
    ASSUME SearchInv, UNCHANGED <<search, daemon, found, notified>>, fresh' \subseteq fresh,
           StackOK'
    PROVE  SearchInv'
<1>1. FunctionsOK'
  BY Zenon DEF SearchInv, FunctionsOK
<1>2. HandlesOK'
  <2>1. ASSUME NEW k \in Handles PROVE HandleOK(k)'
    BY <2>1 DEF SearchInv, HandlesOK, HandleOK
  <2> QED
    BY <2>1, Zenon DEF HandlesOK
<1> QED
  BY <1>1, <1>2 DEF SearchInv

-----------------------------------------------------------------------------
(* The calls in progress.                                                  *)

LEMMA FramesGrow ==
    ASSUME NEW A \in SUBSET Handles, NEW B \in SUBSET Handles, A \subseteq B
    PROVE  Frames(A) \subseteq Frames(B) /\ Seq(Frames(A)) \subseteq Seq(Frames(B))
<1>1. Frames(A) \subseteq Frames(B)
  BY DEF Frames
<1> HIDE DEF Frames
<1> QED
  BY <1>1

LEMMA FrameKinds ==
    ASSUME NEW live, NEW f \in Frames(live)
    PROVE  /\ f.fn = "service" => f \in [fn : {"service"}, at : {"pump", "loop"}, left : SUBSET live]
           /\ f.fn = "get" =>
                f \in [fn : {"get"}, at : {"pump", "answer"}, h : live, left : Nat]
           /\ f.fn \in {"service", "get", "notify"}
BY DEF Frames

LEMMA StackMoves ==
    ASSUME NEW F, NEW s \in Seq(F), NEW f \in F
    PROVE  /\ <<f>> \o s \in Seq(F)
           /\ s # <<>> => Head(s) \in F /\ Tail(s) \in Seq(F)
OBVIOUS

LEMMA OnTop ==
    ASSUME StackOK, stack # <<>>
    PROVE  Head(stack) \in Frames(S!Live) /\ Tail(stack) \in Seq(Frames(S!Live))
BY DEF StackOK

-----------------------------------------------------------------------------
(* What Avahi reports.                                                     *)

(* The search h is replaced by s, Avahi's side of it by d; what was found  *)
(* grows to reports.                                                       *)
LEMMA OneSearch ==
    ASSUME SearchInv, NEW h \in Handles, search[h] # None,
           NEW s, NEW d, NEW reports \in SUBSET S!Entries, NEW times \in Nat,
           search' = [search EXCEPT ![h] = s], daemon' = [daemon EXCEPT ![h] = d],
           found' = [found EXCEPT ![h] = reports], notified' = [notified EXCEPT ![h] = times],
           fresh' = fresh, DaemonOK(d), SearchOK(s, d, reports, times)
    PROVE  FunctionsOK' /\ HandlesOK' /\ S!Live' = S!Live
<1>0. FunctionsOK /\ HandleOK(h) /\ s # None
  BY NoneAssumption DEF SearchInv, HandlesOK, SearchOK
<1>1. FunctionsOK'
  BY <1>0 DEF FunctionsOK
<1>2. /\ search'[h] = s /\ daemon'[h] = d /\ found'[h] = reports /\ notified'[h] = times
      /\ \A k \in Handles \ {h} : /\ search'[k] = search[k] /\ daemon'[k] = daemon[k]
                                  /\ found'[k] = found[k] /\ notified'[k] = notified[k]
  BY <1>0 DEF FunctionsOK
<1>3. h \notin fresh
  BY <1>0 DEF HandleOK
<1>4. HandleOK(h)'
  BY <1>0, <1>2, <1>3, Zenon DEF HandleOK
<1>5. HandlesOK'
  BY <1>2, <1>4, OneHandle
<1>6. \A k \in Handles : search'[k] = None <=> search[k] = None
  BY <1>0, <1>2
<1> QED
  BY <1>1, <1>5, <1>6, LiveKept

(* What is known of a search that is there.                                *)
LEMMA SearchThere ==
    ASSUME SearchInv, NEW h \in Handles, search[h] # None
    PROVE  /\ SearchOK(search[h], daemon[h], found[h], notified[h]) /\ DaemonOK(daemon[h])
           /\ found[h] \in SUBSET S!Entries /\ notified[h] \in Nat /\ FunctionsOK
           /\ found = [found EXCEPT ![h] = found[h]]
           /\ notified = [notified EXCEPT ![h] = notified[h]]
           /\ daemon = [daemon EXCEPT ![h] = daemon[h]]
BY DEF SearchInv, HandlesOK, HandleOK, FunctionsOK

LEMMA BrowserNewKeeps ==
    ASSUME SearchInv, NEW h \in Handles, S!BrowserNew(h)
    PROVE  SearchInv'
<1> DEFINE s == search[h]
           d == daemon[h]
           more == [s EXCEPT !.outstanding = s.outstanding + 1]
<1>1. /\ s # None /\ search' = [search EXCEPT ![h] = more]
      /\ UNCHANGED <<stack, fresh, found, notified>>
  BY Zenon DEF S!BrowserNew, S!history
<1>2. PICK r \in d.unseen :
        daemon' = [daemon EXCEPT ![h] =
                     [d EXCEPT !.unseen = d.unseen \ {r}, !.resolving = d.resolving \cup {r}]]
  BY Zenon DEF S!BrowserNew
<1> HIDE DEF s, d, more
<1>3. /\ SearchOK(s, d, found[h], notified[h]) /\ DaemonOK(d) /\ FunctionsOK
      /\ found[h] \in SUBSET S!Entries /\ notified[h] \in Nat
      /\ found = [found EXCEPT ![h] = found[h]] /\ notified = [notified EXCEPT ![h] = notified[h]]
  BY <1>1, SearchThere, Zenon DEF s, d
<1>4. /\ d.unseen \in SUBSET S!Entries /\ d.resolving \in SUBSET S!Entries
      /\ IsFiniteSet(d.unseen) /\ IsFiniteSet(d.resolving) /\ d.unseen \cap d.resolving = {}
  BY <1>3 DEF DaemonOK
<1>5. s \in S!Searches /\ s.outstanding \in Nat /\ s.outstanding = Cardinality(d.resolving)
  BY <1>3 DEF SearchOK, S!Searches
<1> DEFINE after == [unseen |-> d.unseen \ {r}, resolving |-> d.resolving \cup {r}]
<1>6. daemon' = [daemon EXCEPT ![h] = after]
  <2>1. [d EXCEPT !.unseen = d.unseen \ {r}, !.resolving = d.resolving \cup {r}] = after
    <3> DEFINE new == [d EXCEPT !.unseen = d.unseen \ {r}, !.resolving = d.resolving \cup {r}]
    <3>1. d \in [unseen : SUBSET S!Entries, resolving : SUBSET S!Entries]
      BY <1>3 DEF DaemonOK
    <3>2. new \in [unseen : SUBSET S!Entries, resolving : SUBSET S!Entries]
      BY <1>4, <3>1
    <3>3. new.unseen = d.unseen \ {r} /\ new.resolving = d.resolving \cup {r}
      BY <3>1
    <3> HIDE DEF new
    <3>4. new = after
      BY <3>2, <3>3
    <3> QED
      BY <3>4 DEF new
  <2> QED
    BY <1>2, <2>1, Zenon
<1>7. /\ IsFiniteSet(d.resolving \cup {r}) /\ IsFiniteSet(d.unseen \ {r})
      /\ Cardinality(d.resolving \cup {r}) = Cardinality(d.resolving) + 1
  BY <1>4, FS_AddElement, FS_RemoveElement
<1>8. DaemonOK(after)
  BY <1>4, <1>7 DEF DaemonOK
<1>9. /\ more \in S!Searches /\ more.outstanding = s.outstanding + 1
      /\ more.notified = s.notified /\ more.results = s.results /\ more.opt = s.opt
  <2>1. s.outstanding + 1 \in Nat
    BY <1>5
  <2> QED
    BY <1>5, <2>1, SearchSet, Zenon DEF more
<1>10. SearchOK(more, after, found[h], notified[h])
  BY <1>3, <1>5, <1>7, <1>9 DEF SearchOK
<1> HIDE DEF after
<1>11. FunctionsOK' /\ HandlesOK' /\ S!Live' = S!Live
  BY <1>1, <1>3, <1>6, <1>8, <1>10, OneSearch DEF s
<1> QED
  BY <1>1, <1>11, Zenon DEF SearchInv, StackOK

LEMMA BrowserOverKeeps ==
    ASSUME SearchInv, NEW h \in Handles, S!BrowserAllForNow(h) \/ S!BrowserFailure(h)
    PROVE  SearchInv'
<1> DEFINE s == search[h]
           d == daemon[h]
           done == [s EXCEPT !.allForNow = TRUE]
<1>1. /\ s # None /\ search' = [search EXCEPT ![h] = done]
      /\ daemon' = daemon \/ daemon' = [daemon EXCEPT ![h] = [d EXCEPT !.unseen = {}]]
      /\ UNCHANGED <<stack, fresh, found, notified>>
  BY Zenon DEF S!BrowserAllForNow, S!BrowserFailure, S!history
<1> HIDE DEF s, d, done
<1>2. /\ SearchOK(s, d, found[h], notified[h]) /\ DaemonOK(d) /\ FunctionsOK
      /\ found[h] \in SUBSET S!Entries /\ notified[h] \in Nat
      /\ found = [found EXCEPT ![h] = found[h]] /\ notified = [notified EXCEPT ![h] = notified[h]]
      /\ daemon = [daemon EXCEPT ![h] = d]
  BY <1>1, SearchThere, Zenon DEF s, d
<1>3. s \in S!Searches
  BY <1>2 DEF SearchOK
<1>4. /\ done \in S!Searches /\ done.outstanding = s.outstanding
      /\ done.notified = s.notified /\ done.results = s.results /\ done.opt = s.opt
  <2>1. 0 \in Nat
    OBVIOUS
  <2> QED
    BY <1>3, <2>1, SearchSet, Zenon DEF done
<1>5. ASSUME NEW after, DaemonOK(after), after.resolving = d.resolving,
             daemon' = [daemon EXCEPT ![h] = after]
      PROVE  SearchInv'
  <2>1. SearchOK(done, after, found[h], notified[h])
    BY <1>2, <1>4, <1>5 DEF SearchOK
  <2>2. FunctionsOK' /\ HandlesOK' /\ S!Live' = S!Live
    BY <1>1, <1>2, <1>5, <2>1, OneSearch DEF s
  <2> QED
    BY <1>1, <2>2, Zenon DEF SearchInv, StackOK
<1>6. DaemonOK([d EXCEPT !.unseen = {}]) /\ [d EXCEPT !.unseen = {}].resolving = d.resolving
  <2>1. IsFiniteSet({})
    BY FS_EmptySet
  <2> QED
    BY <1>2, <2>1 DEF DaemonOK
<1> QED
  BY <1>1, <1>2, <1>5, <1>6, Zenon

LEMMA ResolverDoneKeeps ==
    ASSUME SearchInv, NEW h \in Handles, S!ResolverDone(h)
    PROVE  SearchInv'
<1> DEFINE s == search[h]
           d == daemon[h]
<1>1. s # None /\ UNCHANGED <<stack, fresh, notified>>
  BY Zenon DEF S!ResolverDone
<1>2. PICK r \in d.resolving, ok \in BOOLEAN :
        /\ search' = [search EXCEPT
             ![h].results = IF ok THEN S!AddResult(s, r) ELSE @,
             ![h].outstanding = IF @ > 0 THEN @ - 1 ELSE @]
        /\ found' = [found EXCEPT ![h] = IF ok THEN found[h] \cup {r} ELSE found[h]]
        /\ daemon' = [daemon EXCEPT ![h] = [d EXCEPT !.resolving = d.resolving \ {r}]]
  BY DEF S!ResolverDone
<1> HIDE DEF s, d
<1>3. /\ SearchOK(s, d, found[h], notified[h]) /\ DaemonOK(d) /\ FunctionsOK
      /\ found[h] \in SUBSET S!Entries /\ notified[h] \in Nat
      /\ notified = [notified EXCEPT ![h] = notified[h]]
  BY <1>1, SearchThere, Zenon DEF s, d
<1>4. /\ d.unseen \in SUBSET S!Entries /\ d.resolving \in SUBSET S!Entries
      /\ IsFiniteSet(d.unseen) /\ IsFiniteSet(d.resolving) /\ d.unseen \cap d.resolving = {}
  BY <1>3 DEF DaemonOK
<1>5. /\ s \in S!Searches /\ s.outstanding = Cardinality(d.resolving)
      /\ s.results \in Seq(S!Entries) /\ Merged(s.results, s.opt.max, found[h])
      /\ ~s.notified => notified[h] = 0
  BY <1>3 DEF SearchOK, S!Searches
<1>6. /\ IsFiniteSet(d.resolving \ {r}) /\ Cardinality(d.resolving \ {r}) \in Nat
      /\ s.outstanding - 1 = Cardinality(d.resolving \ {r}) /\ s.outstanding > 0
  <2>1. /\ IsFiniteSet(d.resolving \ {r})
        /\ Cardinality(d.resolving \ {r}) = Cardinality(d.resolving) - 1
    BY <1>4, FS_RemoveElement
  <2>2. Cardinality(d.resolving \ {r}) \in Nat /\ Cardinality(d.resolving) \in Nat
    BY <1>4, <2>1, FS_CardinalityType
  <2> QED
    BY <1>5, <2>1, <2>2
<1> DEFINE res == IF ok THEN S!AddResult(s, r) ELSE s.results
           reports == IF ok THEN found[h] \cup {r} ELSE found[h]
           n == Cardinality(d.resolving \ {r})
           done == [s EXCEPT !.results = res, !.outstanding = n]
           after == [d EXCEPT !.resolving = d.resolving \ {r}]
<1>7. res \in Seq(S!Entries) /\ Merged(res, s.opt.max, reports) /\ reports \in SUBSET S!Entries
  <2>1. r \in S!Entries
    BY <1>4
  <2>2. CASE ok
    BY <1>3, <1>5, <2>1, <2>2, ResultMerges
  <2>3. CASE ~ok
    BY <1>3, <1>5, <2>3
  <2> QED
    BY <2>2, <2>3
<1>8. search' = [search EXCEPT ![h] = done]
  <2>1. n = IF s.outstanding > 0 THEN s.outstanding - 1 ELSE s.outstanding
    BY <1>6
  <2>2. /\ search'[h] = done /\ search' = [k \in Handles |-> search'[k]]
        /\ \A k \in Handles \ {h} : search'[k] = search[k]
    BY <1>2, <1>3, <1>5, <2>1 DEF FunctionsOK, s, S!Searches
  <2> QED
    BY <1>3, <2>2 DEF FunctionsOK
<1> HIDE DEF res, reports, n
<1>9. /\ done \in S!Searches /\ done.outstanding = n
      /\ done.notified = s.notified /\ done.results = res /\ done.opt = s.opt
  <2>1. n \in Nat
    BY <1>6 DEF n
  <2> QED
    BY <1>5, <1>7, <2>1 DEF S!Searches
<1>10. DaemonOK(after) /\ after.resolving = d.resolving \ {r}
  BY <1>3, <1>4, <1>6 DEF DaemonOK
<1>11. found' = [found EXCEPT ![h] = reports] /\ daemon' = [daemon EXCEPT ![h] = after]
  BY <1>2 DEF reports
<1> HIDE DEF done, after
<1>12. SearchOK(done, after, reports, notified[h])
  BY <1>5, <1>7, <1>9, <1>10 DEF SearchOK, n
<1>13. FunctionsOK' /\ HandlesOK' /\ S!Live' = S!Live
  BY <1>1, <1>3, <1>7, <1>8, <1>10, <1>11, <1>12, OneSearch DEF s
<1> QED
  BY <1>1, <1>13, Zenon DEF SearchInv, StackOK

-----------------------------------------------------------------------------
(* What the sketch calls.                                                  *)

LEMMA NothingMerged == ASSUME NEW max \in Nat PROVE Merged(<<>>, max, {})
<1>1. Len(<<>>) = 0 /\ DOMAIN <<>> = {}
  OBVIOUS
<1> QED
  BY <1>1 DEF Merged, Ids

LEMMA StartKeeps ==
    ASSUME SearchInv, NEW h \in Handles, NEW o \in Options[h], S!BeginAsyncQuery(h, o)
    PROVE  SearchInv'
<1>1. h \in fresh /\ fresh' = fresh \ {h} /\ UNCHANGED <<found, notified>>
  BY Zenon DEF S!BeginAsyncQuery
<1>2. PICK browser \in BOOLEAN, visited \in BOOLEAN :
        /\ search' = [search EXCEPT ![h] =
             [allForNow |-> ~browser, outstanding |-> 0, notified |-> FALSE,
              age |-> 0, results |-> <<>>, opt |-> o]]
        /\ daemon' = [daemon EXCEPT ![h].unseen = IF browser THEN o.reports ELSE {}]
        /\ stack' = [i \in DOMAIN stack |->
             IF stack[i].fn = "service" /\ visited
             THEN [stack[i] EXCEPT !.left = @ \cup {h}] ELSE stack[i]]
  BY Zenon DEF S!BeginAsyncQuery
<1>3. FunctionsOK /\ HandleOK(h)
  BY DEF SearchInv, HandlesOK
<1>4. /\ search[h] = None /\ found[h] = {} /\ notified[h] = 0
      /\ DaemonOK(daemon[h]) /\ daemon[h].resolving = {}
  BY <1>1, <1>3 DEF HandleOK
<1>5. o \in S!Queries /\ IsFiniteSet(o.reports) /\ o.reports \subseteq S!Entries /\ o.max \in Nat
  BY OptionsAssumption DEF S!Queries
<1> DEFINE new == [allForNow |-> ~browser, outstanding |-> 0, notified |-> FALSE,
                   age |-> 0, results |-> <<>>, opt |-> o]
           after == [daemon[h] EXCEPT !.unseen = IF browser THEN o.reports ELSE {}]
<1>6. new \in S!Searches
  <2>1. <<>> \in Seq(S!Entries)
    OBVIOUS
  <2> QED
    BY <1>5, <2>1 DEF S!Searches
<1>7. DaemonOK(after) /\ after.resolving = {}
  <2>1. IsFiniteSet({})
    BY FS_EmptySet
  <2> QED
    BY <1>4, <1>5, <2>1 DEF DaemonOK
<1>8. SearchOK(new, after, {}, 0)
  <2>1. Cardinality({}) = 0
    BY FS_EmptySet
  <2> QED
    BY <1>5, <1>6, <1>7, <2>1, NothingMerged DEF SearchOK
<1>9. search' = [search EXCEPT ![h] = new] /\ daemon' = [daemon EXCEPT ![h] = after]
  BY <1>2
<1> HIDE DEF new, after
<1>10. FunctionsOK' /\ search'[h] = new /\ daemon'[h] = after
       /\ \A k \in Handles \ {h} : search'[k] = search[k] /\ daemon'[k] = daemon[k]
  BY <1>1, <1>3, <1>9 DEF FunctionsOK
<1>11. HandlesOK'
  <2>1. new # None
    BY <1>6, NoneAssumption
  <2>2. HandleOK(h)'
    BY <1>1, <1>3, <1>4, <1>7, <1>8, <1>10, <2>1 DEF HandleOK
  <2> QED
    BY <1>1, <1>10, <2>2, OneHandle
<1>12. S!Live' = S!Live \cup {h} /\ S!Live' \subseteq Handles
  BY <1>6, <1>10, NoneAssumption DEF S!Live
<1>13. StackOK'
  <2>1. stack \in Seq(Frames(S!Live'))
    BY <1>12, FramesGrow DEF SearchInv, StackOK
  <2>2. ASSUME NEW i \in DOMAIN stack
        PROVE  stack'[i] \in Frames(S!Live')
    <3>1. stack[i] \in Frames(S!Live')
      BY <2>1
    <3>2. CASE stack[i].fn = "service" /\ visited
      <4>1. stack[i] \in [fn : {"service"}, at : {"pump", "loop"}, left : SUBSET S!Live']
        BY <3>1, <3>2, FrameKinds
      <4>2. [stack[i] EXCEPT !.left = @ \cup {h}]
              \in [fn : {"service"}, at : {"pump", "loop"}, left : SUBSET S!Live']
        BY <1>12, <4>1
      <4> QED
        BY <1>2, <3>2, <4>2 DEF Frames
    <3>3. CASE ~(stack[i].fn = "service" /\ visited)
      BY <1>2, <3>1, <3>3
    <3> QED
      BY <3>2, <3>3
  <2>3. DOMAIN stack = 1..Len(stack) /\ Len(stack) \in Nat
    BY <2>1
  <2>4. stack' \in [1..Len(stack) -> Frames(S!Live')]
    BY <1>2, <2>2, <2>3
  <2> QED
    BY <2>3, <2>4 DEF StackOK
<1> QED
  BY <1>10, <1>11, <1>13 DEF SearchInv

LEMMA DeleteKeeps ==
    ASSUME SearchInv, NEW h \in Handles, S!DeleteAsyncQuery(h)
    PROVE  SearchInv'
<1> DEFINE after == [unseen |-> {}, resolving |-> {}]
<1>1. /\ search[h] # None /\ ~S!InUse(h)
      /\ search' = [search EXCEPT ![h] = None] /\ daemon' = [daemon EXCEPT ![h] = after]
      /\ UNCHANGED <<fresh, found, notified>>
      /\ stack' = [i \in DOMAIN stack |->
           IF stack[i].fn = "service" THEN [stack[i] EXCEPT !.left = @ \ {h}] ELSE stack[i]]
  BY Zenon DEF S!DeleteAsyncQuery, S!history
<1>2. FunctionsOK /\ HandleOK(h)
  BY DEF SearchInv, HandlesOK
<1>3. DaemonOK(after) /\ after.resolving = {}
  <2>1. IsFiniteSet({})
    BY FS_EmptySet
  <2> QED
    BY <2>1 DEF DaemonOK
<1> HIDE DEF after
<1>4. FunctionsOK' /\ search'[h] = None /\ daemon'[h] = after
      /\ \A k \in Handles \ {h} : search'[k] = search[k] /\ daemon'[k] = daemon[k]
  BY <1>1, <1>2 DEF FunctionsOK
<1>5. HandlesOK'
  <2>1. HandleOK(h)'
    BY <1>1, <1>2, <1>3, <1>4 DEF HandleOK
  <2> QED
    BY <1>1, <1>4, <2>1, OneHandle
<1>6. S!Live' = S!Live \ {h}
  BY <1>4 DEF S!Live
<1>7. StackOK'
  <2>1. stack \in Seq(Frames(S!Live))
    BY DEF SearchInv, StackOK
  <2>2. ASSUME NEW i \in DOMAIN stack
        PROVE  stack'[i] \in Frames(S!Live')
    <3>1. stack[i] \in Frames(S!Live)
      BY <2>1
    <3>2. CASE stack[i].fn = "service"
      <4>1. stack[i] \in [fn : {"service"}, at : {"pump", "loop"}, left : SUBSET S!Live]
        BY <3>1, <3>2, FrameKinds
      <4>2. [stack[i] EXCEPT !.left = @ \ {h}]
              \in [fn : {"service"}, at : {"pump", "loop"}, left : SUBSET S!Live']
        BY <1>6, <4>1
      <4> QED
        BY <1>1, <3>2, <4>2 DEF Frames
    <3>3. CASE stack[i].fn # "service"
      <4>1. stack'[i] = stack[i] /\ stack[i].h # h
        BY <1>1, <3>3 DEF S!InUse
      <4> QED
        BY <1>6, <3>1, <3>3, <4>1 DEF Frames
    <3> QED
      BY <3>2, <3>3
  <2>3. DOMAIN stack = 1..Len(stack) /\ Len(stack) \in Nat
    BY <2>1
  <2>4. stack' \in [1..Len(stack) -> Frames(S!Live')]
    BY <1>1, <2>2, <2>3
  <2> QED
    BY <2>3, <2>4 DEF StackOK
<1> QED
  BY <1>4, <1>5, <1>7 DEF SearchInv

LEMMA EndKeeps == ASSUME SearchInv, S!End PROVE SearchInv'
<1> DEFINE after == [unseen |-> {}, resolving |-> {}]
<1>1. /\ stack' = <<>> /\ UNCHANGED <<fresh, found, notified>>
      /\ search' = [h \in Handles |-> None] /\ daemon' = [h \in Handles |-> after]
  BY Zenon DEF S!End, S!history
<1>2. DaemonOK(after) /\ after.resolving = {}
  <2>1. IsFiniteSet({})
    BY FS_EmptySet
  <2> QED
    BY <2>1 DEF DaemonOK
<1> HIDE DEF after
<1>3. FunctionsOK'
  BY <1>1 DEF SearchInv, FunctionsOK
<1>4. HandlesOK'
  BY <1>1, <1>2 DEF SearchInv, HandlesOK, HandleOK
<1>5. StackOK'
  BY <1>1 DEF StackOK
<1> QED
  BY <1>3, <1>4, <1>5 DEF SearchInv

-----------------------------------------------------------------------------
(* The yield service, the polls and the notifiers.                         *)

LEMMA NotifyKeeps ==
    ASSUME SearchInv, NEW h \in S!Live, NEW rest \in Seq(Frames(S!Live)), S!Notify(h, rest),
           UNCHANGED <<daemon, found, fresh>>
    PROVE  SearchInv'
<1> DEFINE s == search[h]
           done == [s EXCEPT !.notified = TRUE]
<1>1. h \in Handles /\ s # None /\ search' = [search EXCEPT ![h] = done]
  BY DEF S!Live, S!Notify
<1>2. \/ /\ stack' = <<[fn |-> "notify", h |-> h]>> \o rest
         /\ notified' = [notified EXCEPT ![h] = notified[h] + 1]
      \/ stack' = rest /\ notified' = notified
  BY DEF S!Notify
<1> HIDE DEF s, done
<1>3. /\ SearchOK(s, daemon[h], found[h], notified[h]) /\ DaemonOK(daemon[h])
      /\ found[h] \in SUBSET S!Entries /\ notified[h] \in Nat
      /\ found = [found EXCEPT ![h] = found[h]] /\ daemon = [daemon EXCEPT ![h] = daemon[h]]
      /\ notified = [notified EXCEPT ![h] = notified[h]]
  BY <1>1, SearchThere, Zenon DEF s
<1>4. s \in S!Searches
  BY <1>3 DEF SearchOK
<1>5. /\ done \in S!Searches /\ done.outstanding = s.outstanding
      /\ done.notified /\ done.results = s.results /\ done.opt = s.opt
  <2>1. 0 \in Nat
    OBVIOUS
  <2> QED
    BY <1>4, <2>1, SearchSet, Zenon DEF done
<1>6. \A times : SearchOK(done, daemon[h], found[h], times)
  BY <1>3, <1>5, Zenon DEF SearchOK
<1>7. PICK times \in Nat : notified' = [notified EXCEPT ![h] = times]
  <2>1. notified[h] + 1 \in Nat
    BY <1>3
  <2> QED
    BY <1>2, <1>3, <2>1, Zenon
<1>8. FunctionsOK' /\ HandlesOK' /\ S!Live' = S!Live
  BY <1>1, <1>3, <1>6, <1>7, OneSearch DEF s
<1>9. stack' \in Seq(Frames(S!Live))
  <2>1. [fn |-> "notify", h |-> h] \in Frames(S!Live)
    BY <1>1 DEF Frames
  <2>2. <<[fn |-> "notify", h |-> h]>> \o rest \in Seq(Frames(S!Live))
    BY <2>1, StackMoves
  <2> QED
    BY <1>2, <2>2, Zenon
<1> QED
  BY <1>8, <1>9, Zenon DEF SearchInv, StackOK

(* The frame on top, with a field set.                                     *)
LEMMA ServiceTop ==
    ASSUME StackOK, S!In("service")
    PROVE  /\ Head(stack) \in [fn : {"service"}, at : {"pump", "loop"}, left : SUBSET S!Live]
           /\ Tail(stack) \in Seq(Frames(S!Live))
<1>1. stack # <<>> /\ Head(stack).fn = "service"
  BY DEF S!In
<1>2. Head(stack) \in Frames(S!Live) /\ Tail(stack) \in Seq(Frames(S!Live))
  BY <1>1, OnTop
<1> QED
  BY <1>1, <1>2, FrameKinds

LEMMA GetTop ==
    ASSUME StackOK, S!In("get")
    PROVE  /\ Head(stack) \in [fn : {"get"}, at : {"pump", "answer"}, h : S!Live, left : Nat]
           /\ Tail(stack) \in Seq(Frames(S!Live))
<1>1. stack # <<>> /\ Head(stack).fn = "get"
  BY DEF S!In
<1>2. Head(stack) \in Frames(S!Live) /\ Tail(stack) \in Seq(Frames(S!Live))
  BY <1>1, OnTop
<1> QED
  BY <1>1, <1>2, FrameKinds

LEMMA CallsKeep ==
    ASSUME SearchInv, UNCHANGED <<search, daemon, found, notified, fresh>>,
           stack' \in Seq(Frames(S!Live))
    PROVE  SearchInv'
<1>1. S!Live' = S!Live
  BY DEF S!Live
<1>2. StackOK'
  BY <1>1, Zenon DEF StackOK
<1> QED
  BY <1>2, OnlyCalls

(* A call returns.                                                         *)
LEMMA PopKeeps ==
    ASSUME SearchInv, stack # <<>>, stack' = S!Pop,
           UNCHANGED <<search, daemon, found, notified, fresh>>
    PROVE  SearchInv'
BY OnTop, CallsKeep DEF SearchInv, S!Pop

LEMMA ServicesKeep ==
    ASSUME SearchInv, S!ServiceBegin \/ S!ServicePumped \/ S!ServiceVisit \/ S!ServiceEnd
    PROVE  SearchInv'
<1>0. StackOK
  BY DEF SearchInv
<1>1. CASE S!ServiceBegin
  <2>1. [fn |-> "service", at |-> "pump", left |-> {}] \in Frames(S!Live)
    BY DEF Frames
  <2>2. stack' \in Seq(Frames(S!Live))
    BY <1>0, <1>1, <2>1, StackMoves DEF S!ServiceBegin, S!Push, StackOK
  <2> QED
    BY <1>1, <2>2, CallsKeep, Zenon DEF S!ServiceBegin, S!history
<1>2. CASE S!ServicePumped
  <2> DEFINE top == [Head(stack) EXCEPT !.at = "loop", !.left = S!Live]
  <2>1. S!In("service") /\ stack' = <<top>> \o S!Pop
    BY <1>2 DEF S!ServicePumped
  <2>2. top \in [fn : {"service"}, at : {"pump", "loop"}, left : SUBSET S!Live]
    BY <1>0, <2>1, ServiceTop
  <2> HIDE DEF top
  <2>3. top \in Frames(S!Live)
    BY <2>2 DEF Frames
  <2>4. stack' \in Seq(Frames(S!Live))
    BY <1>0, <2>1, <2>3, ServiceTop, StackMoves DEF S!Pop
  <2> QED
    BY <1>2, <2>4, CallsKeep, Zenon DEF S!ServicePumped, S!history
<1>3. CASE S!ServiceVisit
  <2> DEFINE top(h) == [Head(stack) EXCEPT !.left = @ \ {h}]
             rest(h) == <<top(h)>> \o S!Pop
  <2>1. PICK h \in Head(stack).left :
          IF ~search[h].notified /\ S!IsSearchComplete(search[h])
          THEN S!Notify(h, rest(h))
          ELSE stack' = rest(h) /\ UNCHANGED <<search, notified>>
    BY <1>3 DEF S!ServiceVisit
  <2>2. S!In("service") /\ UNCHANGED <<daemon, found, fresh>>
    BY <1>3, Zenon DEF S!ServiceVisit
  <2>3. top(h) \in [fn : {"service"}, at : {"pump", "loop"}, left : SUBSET S!Live] /\ h \in S!Live
    BY <1>0, <2>2, ServiceTop
  <2> HIDE DEF top
  <2>5. top(h) \in Frames(S!Live)
    BY <2>3 DEF Frames
  <2>6. rest(h) \in Seq(Frames(S!Live))
    BY <1>0, <2>2, <2>5, ServiceTop, StackMoves DEF S!Pop
  <2> HIDE DEF rest
  <2>7. CASE S!Notify(h, rest(h))
    BY <2>2, <2>3, <2>6, <2>7, NotifyKeeps
  <2>8. CASE stack' = rest(h) /\ UNCHANGED <<search, notified>>
    BY <2>2, <2>6, <2>8, CallsKeep
  <2> QED
    BY <2>1, <2>7, <2>8
<1>4. CASE S!ServiceEnd
  BY <1>4, PopKeeps, Zenon DEF S!ServiceEnd, S!In, S!history
<1> QED
  BY <1>1, <1>2, <1>3, <1>4

LEMMA GetKeepsSearch ==
    ASSUME SearchInv,
           \/ \E h \in Handles, budget \in Budgets : S!GetBegin(h, budget)
           \/ S!GetComplete \/ S!GetAnswer \/ S!GetPending \/ S!NotifyReturn
    PROVE  SearchInv'
<1>0. StackOK
  BY DEF SearchInv
<1>1. ASSUME NEW h \in Handles, NEW budget \in Budgets, S!GetBegin(h, budget)
      PROVE  SearchInv'
  <2>1. [fn |-> "get", at |-> "pump", h |-> h, left |-> budget] \in Frames(S!Live)
    BY <1>1, BudgetsAssumption DEF Frames, S!Live, S!GetBegin
  <2>2. stack' \in Seq(Frames(S!Live))
    BY <1>0, <1>1, <2>1, StackMoves DEF S!GetBegin, S!Push, StackOK
  <2> QED
    BY <1>1, <2>2, CallsKeep, Zenon DEF S!GetBegin, S!history
<1>2. CASE S!GetComplete
  <2> DEFINE top == [Head(stack) EXCEPT !.at = "answer"]
             rest == <<top>> \o S!Pop
             h == Head(stack).h
  <2>1. S!In("get") /\ S!Notify(h, rest) /\ UNCHANGED <<daemon, found, fresh>>
    BY <1>2, Zenon DEF S!GetComplete
  <2>2. top \in [fn : {"get"}, at : {"pump", "answer"}, h : S!Live, left : Nat] /\ h \in S!Live
    BY <1>0, <2>1, GetTop
  <2> HIDE DEF top, h
  <2>3. top \in Frames(S!Live)
    BY <2>2 DEF Frames
  <2>4. rest \in Seq(Frames(S!Live))
    BY <1>0, <2>1, <2>3, GetTop, StackMoves DEF S!Pop
  <2> HIDE DEF rest
  <2> QED
    BY <2>1, <2>2, <2>4, NotifyKeeps
<1>3. CASE S!GetAnswer \/ S!GetPending \/ S!NotifyReturn
  BY <1>3, PopKeeps, Zenon DEF S!GetAnswer, S!GetPending, S!NotifyReturn, S!In, S!history
<1> QED
  BY <1>1, <1>2, <1>3, Zenon

LEMMA TickKeeps == ASSUME SearchInv, S!Tick PROVE SearchInv'
<1>0. FunctionsOK /\ HandlesOK /\ StackOK
  BY DEF SearchInv
<1>1. /\ search' = [h \in Handles |->
           IF search[h] # None /\ search[h].age < search[h].opt.timeout
           THEN [search[h] EXCEPT !.age = @ + 1] ELSE search[h]]
      /\ stack' = IF S!In("get") /\ Head(stack).left > 0
                  THEN <<[Head(stack) EXCEPT !.left = @ - 1]>> \o S!Pop ELSE stack
      /\ UNCHANGED <<daemon, fresh, found, notified>>
  BY Zenon DEF S!Tick, S!history
<1>2. ASSUME NEW h \in Handles
      PROVE  HandleOK(h)' /\ (search'[h] = None <=> search[h] = None)
  <2>0. HandleOK(h)
    BY <1>0 DEF HandlesOK
  <2>1. CASE search'[h] = search[h]
    BY <1>1, <2>0, <2>1 DEF HandleOK
  <2>2. CASE search[h] # None /\ search'[h] = [search[h] EXCEPT !.age = search[h].age + 1]
    <3>1. search[h] \in S!Searches /\ SearchOK(search[h], daemon[h], found[h], notified[h])
      BY <2>0, <2>2 DEF HandleOK, SearchOK
    <3>2. search[h].age + 1 \in Nat
      BY <3>1 DEF S!Searches
    <3>3. /\ search'[h] \in S!Searches /\ search'[h].outstanding = search[h].outstanding
          /\ search'[h].notified = search[h].notified /\ search'[h].results = search[h].results
          /\ search'[h].opt = search[h].opt
      BY <2>2, <3>1, <3>2 DEF S!Searches
    <3>4. SearchOK(search'[h], daemon[h], found[h], notified[h])
      BY <3>1, <3>3, Zenon DEF SearchOK
    <3>5. search'[h] # None
      BY <3>3, NoneAssumption
    <3> QED
      BY <1>1, <2>0, <2>2, <3>4, <3>5, Zenon DEF HandleOK
  <2> QED
    BY <1>1, <2>1, <2>2
<1>3. FunctionsOK' /\ HandlesOK' /\ S!Live' = S!Live
  BY <1>0, <1>1, <1>2, LiveKept, Zenon DEF FunctionsOK, HandlesOK
<1>4. stack' \in Seq(Frames(S!Live))
  <2> DEFINE top == [Head(stack) EXCEPT !.left = Head(stack).left - 1]
  <2>1. CASE stack' = stack
    BY <1>0, <2>1 DEF StackOK
  <2>2. CASE S!In("get") /\ Head(stack).left > 0 /\ stack' = <<top>> \o S!Pop
    <3>1. Head(stack) \in [fn : {"get"}, at : {"pump", "answer"}, h : S!Live, left : Nat]
      BY <1>0, <2>2, GetTop
    <3>2. Head(stack).left - 1 \in Nat
      BY <2>2, <3>1
    <3>3. top \in [fn : {"get"}, at : {"pump", "answer"}, h : S!Live, left : Nat]
      BY <3>1, <3>2
    <3> HIDE DEF top
    <3>4. top \in Frames(S!Live)
      BY <3>3 DEF Frames
    <3> QED
      BY <1>0, <2>2, <3>4, GetTop, StackMoves DEF S!Pop
  <2> QED
    BY <1>1, <2>1, <2>2
<1> QED
  BY <1>3, <1>4, Zenon DEF SearchInv, StackOK

LEMMA SearchStepKeeps == SearchInv /\ [S!Next]_(S!vars) => SearchInv'
<1> SUFFICES ASSUME SearchInv, [S!Next]_(S!vars) PROVE SearchInv'
  OBVIOUS
<1>1. CASE S!StrayResolver \/ UNCHANGED S!vars
  <2>1. UNCHANGED <<search, daemon, found, notified, fresh, stack>>
    BY <1>1, Zenon DEF S!StrayResolver, S!vars, S!history
  <2> QED
    BY <2>1, CallsKeep DEF SearchInv, StackOK
<1> QED
  BY <1>1, StartKeeps, DeleteKeeps, EndKeeps, BrowserNewKeeps, BrowserOverKeeps,
     ResolverDoneKeeps, ServicesKeep, GetKeepsSearch, TickKeeps, Zenon
  DEF S!Next, S!Proceed

LEMMA SearchInvHolds == NetworkSpec => []SearchInv
<1>1. NetworkInit => SearchInv
  <2> SUFFICES ASSUME NetworkInit PROVE SearchInv
    OBVIOUS
  <2>1. S!Init
    BY DEF NetworkInit
  <2>2. FunctionsOK
    BY <2>1 DEF S!Init, FunctionsOK
  <2>3. HandlesOK
    <3>1. IsFiniteSet({})
      BY FS_EmptySet
    <3> QED
      BY <2>1, <3>1 DEF S!Init, HandlesOK, HandleOK, DaemonOK
  <2>4. StackOK
    BY <2>1 DEF S!Init, StackOK
  <2> QED
    BY <2>2, <2>3, <2>4 DEF SearchInv
<1>2. SearchInv /\ [NetworkNext]_networkVars => SearchInv'
  BY SearchPart, SearchStepKeeps
<1> QED
  BY <1>1, <1>2, PTL DEF NetworkSpec

LEMMA SearchesHold == NetworkSpec => []S!SearchExact
<1>1. SearchInv => S!SearchExact
  <2> SUFFICES ASSUME SearchInv PROVE S!SearchExact
    OBVIOUS
  <2>1. \A h \in S!Live : /\ search[h].outstanding = Cardinality(daemon[h].resolving)
                          /\ Merged(search[h].results, search[h].opt.max, found[h])
    BY SearchThere DEF S!Live, SearchOK
  <2>2. S!OutstandingExact
    BY <2>1 DEF S!OutstandingExact, S!Cardinality, Cardinality
  <2>3. S!ResultsMerged
    BY <2>1 DEF S!ResultsMerged, Merged, Sums, Of, Ids
  <2> QED
    BY <2>2, <2>3 DEF S!SearchExact
<1> QED
  BY <1>1, SearchInvHolds, PTL

-----------------------------------------------------------------------------
(* Notifications.                                                          *)

NotifiedWhenComplete ==
    \A h \in Handles : notified'[h] > notified[h] =>
        notified[h] = 0 /\ search[h] # None /\ S!IsSearchComplete(search[h])

LEMMA NotifyCounts ==
    ASSUME SearchInv, NEW h \in S!Live, NEW rest, S!Notify(h, rest),
           S!IsSearchComplete(search[h])
    PROVE  NotifiedWhenComplete
<1>1. h \in Handles /\ search[h] # None
  BY DEF S!Live
<1>2. /\ ~search[h].notified => notified[h] = 0
      /\ FunctionsOK /\ \A k \in Handles : notified[k] \in Nat
  BY <1>1, SearchThere DEF SearchOK, SearchInv, HandlesOK, HandleOK
<1>3. CASE notified' = notified
  BY <1>2, <1>3 DEF NotifiedWhenComplete
<1>4. CASE ~search[h].notified /\ notified' = [notified EXCEPT ![h] = notified[h] + 1]
  <2>1. \A k \in Handles : k # h => notified'[k] = notified[k]
    BY <1>4
  <2>2. ASSUME NEW k \in Handles, notified'[k] > notified[k]
        PROVE  k = h
    BY <1>2, <2>1, <2>2
  <2> QED
    BY <1>1, <1>2, <1>4, <2>2, Zenon DEF NotifiedWhenComplete
<1> QED
  BY <1>3, <1>4 DEF S!Notify

LEMMA NotifiedStep == SearchInv /\ [S!Next]_(S!vars) => [NotifiedWhenComplete]_(S!vars)
<1> SUFFICES ASSUME SearchInv, S!Next PROVE NotifiedWhenComplete
  OBVIOUS
<1>0. StackOK
  BY DEF SearchInv
<1>1. CASE notified' = notified
  BY <1>1 DEF NotifiedWhenComplete, SearchInv, HandlesOK, HandleOK
<1>2. CASE S!ServiceVisit
  <2> DEFINE rest(h) == <<[Head(stack) EXCEPT !.left = @ \ {h}]>> \o S!Pop
  <2>1. PICK h \in Head(stack).left :
          IF ~search[h].notified /\ S!IsSearchComplete(search[h])
          THEN S!Notify(h, rest(h))
          ELSE stack' = rest(h) /\ UNCHANGED <<search, notified>>
    BY <1>2 DEF S!ServiceVisit
  <2>2. h \in S!Live
    BY <1>0, <1>2, ServiceTop DEF S!ServiceVisit
  <2> HIDE DEF rest
  <2>3. CASE S!IsSearchComplete(search[h]) /\ S!Notify(h, rest(h))
    BY <2>2, <2>3, NotifyCounts
  <2> QED
    BY <1>1, <2>1, <2>3
<1>3. CASE S!GetComplete
  <2> DEFINE h == Head(stack).h
             rest == <<[Head(stack) EXCEPT !.at = "answer"]>> \o S!Pop
  <2>1. S!In("get") /\ S!Notify(h, rest) /\ S!IsSearchComplete(search[h])
    BY <1>3, Zenon DEF S!GetComplete
  <2>2. h \in S!Live
    BY <1>0, <2>1, GetTop
  <2> HIDE DEF h, rest
  <2> QED
    BY <2>1, <2>2, NotifyCounts
<1>4. CASE \E h \in Handles : \/ \E o \in Options[h] : S!BeginAsyncQuery(h, o)
                              \/ \E b \in Budgets : S!GetBegin(h, b)
                              \/ S!DeleteAsyncQuery(h)
                              \/ S!BrowserNew(h) \/ S!BrowserAllForNow(h)
                              \/ S!BrowserFailure(h) \/ S!ResolverDone(h)
  BY <1>1, <1>4, Zenon
  DEF S!BeginAsyncQuery, S!GetBegin, S!DeleteAsyncQuery, S!BrowserNew, S!BrowserAllForNow,
      S!BrowserFailure, S!ResolverDone, S!history
<1>5. CASE \/ S!End \/ S!StrayResolver \/ S!ServiceBegin \/ S!NotifyReturn \/ S!Tick
           \/ S!ServicePumped \/ S!ServiceEnd \/ S!GetAnswer \/ S!GetPending
  BY <1>1, <1>5, Zenon
  DEF S!End, S!StrayResolver, S!ServiceBegin, S!NotifyReturn, S!Tick, S!ServicePumped,
      S!ServiceEnd, S!GetAnswer, S!GetPending, S!history
<1> QED
  BY <1>2, <1>3, <1>4, <1>5, Zenon DEF S!Next, S!Proceed

(* The notifier of a search is called at most once, by the yield service   *)
(* or by a poll, whichever sees the completion first, and not before it:   *)
(* the safety half of NotifiedExactlyOnce, for any number of searches and  *)
(* any nesting of polls, passes and notifiers (ESPmDNS.cpp).               *)
THEOREM NotifiedAtMostOnce == NetworkSpec => S!NotifiedOnce
<1>1. SearchInv /\ [NetworkNext]_networkVars
        => [\A h \in Handles : notified'[h] > notified[h] =>
              /\ notified[h] = 0 /\ search[h] # None
              /\ S!IsSearchComplete(search[h])]_(S!vars)
  BY SearchPart, NotifiedStep DEF NotifiedWhenComplete
<1> QED
  BY <1>1, SearchInvHolds, PTL DEF NetworkSpec, S!NotifiedOnce

(* Whatever Avahi reports, in whatever order, and whichever malloc() or    *)
(* publication fails: no answer of a search is lost or counted twice, each *)
(* result list is its own until it is given back, results are those of the *)
(* last query, and the TXT records published are those asked for.          *)
THEOREM MdnsIsExact == NetworkSpec => []MdnsExact
BY SearchesHold, ListsHold, ResultsHold, PublishedHolds, PTL DEF MdnsExact

-----------------------------------------------------------------------------
(* The n-th of a finite set of numbers: there is one for each n up to      *)
(* their number, and each of them is the n-th for one n.                   *)

LEMMA SmallestNumber ==
    ASSUME NEW T \in SUBSET Nat, T # {}
    PROVE  \E m \in T : \A k \in T : m <= k
<1> DEFINE Lt == {ss \in Nat \X Nat : ss[1] < ss[2]}
<1>1. IsWellFoundedOn(Lt, Nat)
  BY NatLessThanWellFounded DEF OpToRel
<1>2. PICK m \in T : \A k \in T : ~(<<k, m>> \in Lt)
  <2> HIDE DEF Lt
  <2> QED BY <1>1, WFMin
<1>3. ASSUME NEW k \in T PROVE m <= k
  <2>1. ~(<<k, m>> \in Lt) /\ k \in Nat /\ m \in Nat
    BY <1>2
  <2> QED BY <2>1
<1> QED BY <1>3

Rank(P, i) == Cardinality({j \in P : j <= i})

LEMMA RankFacts ==
    ASSUME NEW P \in SUBSET Nat, IsFiniteSet(P)
    PROVE  /\ Cardinality(P) \in Nat
           /\ \A i \in P : Rank(P, i) \in 1..Cardinality(P)
           /\ \A i, j \in P : Rank(P, i) = Rank(P, j) => i = j
           /\ \A n \in 1..Cardinality(P) : \E i \in P : Rank(P, i) = n
<1> DEFINE Upto(i) == {j \in P : j <= i}
<1>1. Cardinality(P) \in Nat
  BY FS_CardinalityType
<1>2. \A i : /\ IsFiniteSet(Upto(i)) /\ Cardinality(Upto(i)) \in Nat
             /\ Cardinality(Upto(i)) <= Cardinality(P)
  BY FS_Subset, FS_CardinalityType
<1>3. ASSUME NEW i \in P PROVE Rank(P, i) \in 1..Cardinality(P)
  <2>1. i \in Upto(i)
    OBVIOUS
  <2>2. Cardinality(Upto(i)) # 0
    BY <1>2, <2>1, FS_EmptySet
  <2> QED
    BY <1>1, <1>2, <2>2 DEF Rank
<1>4. ASSUME NEW i \in P, NEW j \in P, i < j PROVE Rank(P, i) # Rank(P, j)
  <2>0. i \in Nat /\ j \in Nat /\ \A k \in P : k \in Nat
    OBVIOUS
  <2>1. /\ \A k \in P : k <= i => k <= j
        /\ j <= j /\ ~(j <= i)
    BY <1>4, <2>0
  <2>4. Upto(i) \in SUBSET Upto(j) /\ j \in Upto(j) /\ j \notin Upto(i)
    BY <2>1
  <2>2. Upto(i) # Upto(j)
    BY <2>4
  <2>3. Cardinality(Upto(i)) # Cardinality(Upto(j))
    <3> HIDE DEF Upto
    <3> QED BY <1>2, <2>2, <2>4, FS_Subset
  <2> QED
    BY <2>3 DEF Rank
<1>5. ASSUME NEW i \in P, NEW j \in P, Rank(P, i) = Rank(P, j) PROVE i = j
  <2>1. i \in Nat /\ j \in Nat /\ ~(i < j) /\ ~(j < i)
    BY <1>4, <1>5
  <2> QED
    BY <2>1
<1> DEFINE f == [i \in P |-> Rank(P, i)]
           To == 1..Cardinality(P)
<1>6. f \in Injection(P, To)
  BY <1>3, <1>5 DEF Injection, IsInjective
<1>7. IsFiniteSet(To) /\ Cardinality(To) = Cardinality(P)
  BY <1>1, FS_Interval
<1>8. f \in Surjection(P, To)
  BY <1>6, <1>7, FS_Injection
<1>9. \A n \in To : \E i \in P : f[i] = n
  BY <1>8 DEF Surjection
<1> QED
  BY <1>1, <1>3, <1>5, <1>9

LEMMA NthFacts ==
    ASSUME NEW P \in SUBSET Nat, IsFiniteSet(P)
    PROVE  /\ \A n \in 1..Cardinality(P) :
                /\ Q!Nth(P, n) \in P /\ Rank(P, Q!Nth(P, n)) = n
                /\ L!Nth(P, n) \in P /\ Rank(P, L!Nth(P, n)) = n
           /\ \A i \in P : Q!Nth(P, Rank(P, i)) = i /\ L!Nth(P, Rank(P, i)) = i
<1>1. \A n : /\ Q!Nth(P, n) = CHOOSE i \in P : Rank(P, i) = n
             /\ L!Nth(P, n) = CHOOSE i \in P : Rank(P, i) = n
  BY Zenon DEF Q!Nth, L!Nth, Rank, Q!Cardinality, L!Cardinality, Cardinality
<1>2. /\ \A i, j \in P : Rank(P, i) = Rank(P, j) => i = j
      /\ \A n \in 1..Cardinality(P) : \E i \in P : Rank(P, i) = n
  BY RankFacts
<1> QED
  BY <1>1, <1>2, Zenon

-----------------------------------------------------------------------------
(* What a query found, by index and by name.                               *)

LEMMA KeysReadable ==
    ASSUME QueryInv, NEW idx \in 0..Len(results) - 1
    PROVE  LET keys == {Q!TxtKey(idx, n) : n \in 0..Q!NumTxt(idx) - 1}
           IN  /\ keys = {k \in Q!TxtKeys : Q!HasTxt(idx, k)}
               /\ Cardinality(keys) = Q!NumTxt(idx)
<1> DEFINE txt == Q!Result(idx).txt
           P == {i \in DOMAIN KeyOrder : KeyOrder[i] \in txt}
           keys == {Q!TxtKey(idx, n) : n \in 0..Q!NumTxt(idx) - 1}
<1>1. /\ results \in Seq(QServices) /\ Len(results) \in Nat
      /\ idx + 1 \in 1..Len(results) /\ results[idx + 1] \in QServices
  BY DEF QueryInv, ResultsTyped
<1>2. Q!InRange(idx) /\ txt \in SUBSET Q!TxtKeys
  BY <1>1 DEF Q!InRange, Q!Result, QServices
<1>3. Q!NumTxt(idx) = Cardinality(txt)
  BY <1>2, Zenon DEF Q!NumTxt, Q!Cardinality, Cardinality
<1>4. \A k : Q!HasTxt(idx, k) <=> k \in txt
  BY <1>2, Zenon DEF Q!HasTxt
<1>5. \A n \in 0..Q!NumTxt(idx) - 1 : Q!TxtKey(idx, n) = KeyOrder[Q!Nth(P, n + 1)]
  BY <1>2, <1>4, Zenon DEF Q!TxtKey
<1>6. /\ KeyOrder \in Seq(STRING) /\ Len(KeyOrder) \in Nat /\ DOMAIN KeyOrder = 1..Len(KeyOrder)
      /\ \A i, j \in DOMAIN KeyOrder : KeyOrder[i] = KeyOrder[j] => i = j
      /\ Q!TxtKeys = {KeyOrder[i] : i \in DOMAIN KeyOrder}
  BY KeyOrderAssumption DEF Q!TxtKeys
<1>7. P \in SUBSET Nat /\ IsFiniteSet(P)
  <2>1. P \in SUBSET (1..Len(KeyOrder)) /\ P \in SUBSET Nat
    BY <1>6
  <2>2. IsFiniteSet(1..Len(KeyOrder))
    BY <1>6, FS_Interval
  <2> QED
    BY <2>1, <2>2, FS_Subset
<1> DEFINE g == [i \in P |-> KeyOrder[i]]
<1>8. g \in Surjection(P, txt) /\ g \in Injection(P, txt)
  BY <1>2, <1>6 DEF Surjection, Injection, IsInjective
<1>9. IsFiniteSet(txt) /\ Cardinality(txt) = Cardinality(P) /\ Cardinality(P) \in Nat
  BY <1>7, <1>8, FS_Surjection, FS_CardinalityType
<1> HIDE DEF txt, P
<1>10. ASSUME NEW n \in 0..Q!NumTxt(idx) - 1 PROVE Q!TxtKey(idx, n) \in txt
  <2>1. n + 1 \in 1..Cardinality(P)
    BY <1>3, <1>9
  <2>2. Q!Nth(P, n + 1) \in P
    BY <1>7, <2>1, NthFacts
  <2> QED
    BY <1>5, <2>2 DEF P
<1>11. ASSUME NEW k \in txt PROVE \E n \in 0..Q!NumTxt(idx) - 1 : Q!TxtKey(idx, n) = k
  <2>1. PICK i \in P : KeyOrder[i] = k
    BY <1>2, <1>6 DEF P
  <2>2. Q!Nth(P, Rank(P, i)) = i /\ Rank(P, i) \in 1..Cardinality(P)
    BY <1>7, NthFacts, RankFacts
  <2>3. PICK n : n = Rank(P, i) - 1
    OBVIOUS
  <2>4. n \in 0..Q!NumTxt(idx) - 1 /\ n + 1 = Rank(P, i)
    BY <1>3, <1>9, <2>2, <2>3
  <2> QED
    BY <1>5, <2>1, <2>2, <2>4
<1>12. keys = txt
  BY <1>10, <1>11
<1>13. {k \in Q!TxtKeys : Q!HasTxt(idx, k)} = txt
  BY <1>2, <1>4
<1> QED
  BY <1>3, <1>12, <1>13

LEMMA HostsReadable ==
    ASSUME QueryInv, NEW idx \in 0..Len(results) - 1, Q!IP(idx) # Q!NoAddress,
           Q!QueryHost(Q!HostName(idx)) = {Q!NoAddress}
    PROVE  \/ \E earlier \in 0..idx - 1 : Q!HostName(earlier) = Q!HostName(idx)
           \/ \E t \in Types, i \in 1..MaxMocks :
                 i \in DOMAIN mocks[t] /\ mocks[t][i].host = Q!HostName(idx)
<1> DEFINE host == Q!HostName(idx)
           mocked == UNION {{m \in {mocks[t][i] : i \in DOMAIN mocks[t]} : m.host = host}
                              : t \in Types}
           ofHost == {i \in DOMAIN results : results[i].host = host}
           first == Q!FirstOf(ofHost)
<1>1. /\ results \in Seq(QServices) /\ Len(results) \in Nat
      /\ idx + 1 \in 1..Len(results) /\ DOMAIN results = 1..Len(results)
  BY DEF QueryInv, ResultsTyped
<1>2. \A j \in 0..Len(results) - 1 : /\ Q!HostName(j) = results[j + 1].host
                                    /\ Q!IP(j) = results[j + 1].ip
  BY <1>1 DEF Q!InRange, Q!Result, Q!HostName, Q!IP
<1>3. CASE mocked # {}
  <2>1. PICK t \in Types : \E i \in DOMAIN mocks[t] : mocks[t][i].host = host
    BY <1>3
  <2>2. PICK i \in DOMAIN mocks[t] : mocks[t][i].host = host
    BY <2>1
  <2>3. mocks[t] \in Seq(QServices) /\ Len(mocks[t]) <= MaxMocks
    BY DEF QueryInv, MocksTyped, MocksOf
  <2>4. i \in 1..MaxMocks
    BY <2>3, LimitsAssumption
  <2> QED
    BY <2>2, <2>4
<1>4. CASE mocked = {}
  <2>1. idx + 1 \in ofHost /\ ofHost \in SUBSET Nat
    BY <1>1, <1>2
  <2>2. first \in ofHost /\ \A j \in ofHost : first <= j
    <3>1. \E m \in ofHost : \A j \in ofHost : m <= j
      <4> HIDE DEF ofHost
      <4> QED BY <2>1, SmallestNumber
    <3> HIDE DEF ofHost
    <3> QED BY <3>1, Zenon DEF Q!FirstOf
  <2>3. Q!QueryHost(host) = {results[first].ip}
    BY <1>4, <2>1, Zenon DEF Q!QueryHost
  <2> HIDE DEF first
  <2>4. results[first].ip = Q!NoAddress /\ results[idx + 1].ip # Q!NoAddress
    BY <1>2, <2>3
  <2>5. first \in 1..Len(results) /\ first <= idx + 1 /\ first # idx + 1
        /\ results[first].host = host
    BY <1>1, <2>1, <2>2, <2>4
  <2>6. first - 1 \in 0..idx - 1 /\ first - 1 \in 0..Len(results) - 1 /\ (first - 1) + 1 = first
    BY <1>1, <2>5
  <2>7. Q!HostName(first - 1) = host
    BY <1>2, <2>5, <2>6
  <2> QED
    BY <2>6, <2>7
<1> QED
  BY <1>3, <1>4

LEMMA ResultsReadableHolds == QueryInv => Q!ResultsReadable
<1> SUFFICES ASSUME QueryInv, NEW idx \in -1..Len(results)
    PROVE  LET keys == {Q!TxtKey(idx, n) : n \in 0..Q!NumTxt(idx) - 1}
           IN  /\ keys = {k \in Q!TxtKeys : Q!HasTxt(idx, k)}
               /\ Cardinality(keys) = Q!NumTxt(idx)
               /\ Q!IP(idx) # Q!NoAddress /\ Q!QueryHost(Q!HostName(idx)) = {Q!NoAddress}
                  => \/ \E earlier \in 0..idx - 1 : Q!HostName(earlier) = Q!HostName(idx)
                     \/ \E t \in Types, i \in 1..MaxMocks :
                           i \in DOMAIN mocks[t] /\ mocks[t][i].host = Q!HostName(idx)
  BY Zenon DEF Q!ResultsReadable, Q!Cardinality, Cardinality
<1>1. Len(results) \in Nat
  BY DEF QueryInv, ResultsTyped
<1>2. CASE idx \in 0..Len(results) - 1
  BY <1>2, KeysReadable, HostsReadable
<1>3. CASE idx \notin 0..Len(results) - 1
  <2>1. ~Q!InRange(idx)
    BY <1>1, <1>3 DEF Q!InRange
  <2>2. Q!NumTxt(idx) = 0 /\ Q!IP(idx) = Q!NoAddress /\ \A k : ~Q!HasTxt(idx, k)
    BY <2>1, Zenon DEF Q!NumTxt, Q!IP, Q!HasTxt
  <2>3. {Q!TxtKey(idx, n) : n \in 0..Q!NumTxt(idx) - 1} = {}
    BY <2>2
  <2>4. {k \in Q!TxtKeys : Q!HasTxt(idx, k)} = {}
    BY <2>2
  <2> QED
    BY <2>2, <2>3, <2>4, FS_EmptySet
<1> QED
  BY <1>2, <1>3

-----------------------------------------------------------------------------
(* What a scan found.  The list and the number are those of the scan that  *)
(* was accepted last, until the test changes the list.                     *)

KnownNetworks == Mocked \cup {Preset[i] : i \in DOMAIN Preset}
DueNow == L!Due(wanted.of, wanted.all)
ListInv ==
    /\ networks \in Seq(KnownNetworks) /\ wanted.of \in Seq(KnownNetworks)
    /\ phase # "none" => number = L!Int8(Cardinality(DueNow))
    /\ phase # "none" /\ ~tampered => listed = L!View(wanted.of, wanted.all)

LEMMA ListPart == [NetworkNext]_networkVars => [L!Next]_(L!vars)
BY Zenon DEF NetworkNext, WiFiStep, ListStep, SearchStep, GivenStep, QueryStep, ResponderStep,
       networkVars, listVars, L!vars

LEMMA DueFacts ==
    ASSUME NEW rows \in Seq(KnownNetworks), NEW all
    PROVE  /\ L!Due(rows, all) \in SUBSET Nat /\ IsFiniteSet(L!Due(rows, all))
           /\ L!Due(rows, all) \in SUBSET (1..Len(rows))
           /\ Cardinality(L!Due(rows, all)) \in Nat
<1>1. Len(rows) \in Nat /\ L!Due(rows, all) \in SUBSET (1..Len(rows))
  BY DEF L!Due
<1>2. IsFiniteSet(L!Due(rows, all))
  <2>1. IsFiniteSet(1..Len(rows))
    BY <1>1, FS_Interval
  <2> QED
    BY <1>1, <2>1, FS_Subset
<1> QED
  BY <1>1, <1>2, FS_CardinalityType

(* The list shows exactly the networks that are due.                       *)
LEMMA ViewFacts ==
    ASSUME NEW rows \in Seq(KnownNetworks), NEW all
    PROVE  LET due == L!Due(rows, all)
               shown == L!View(rows, all)
           IN  /\ Len(shown) = Cardinality(due)
               /\ \A n \in 1..Cardinality(due) : \E i \in due : shown[n] = rows[i]
               /\ \A i \in due : \E n \in 1..Cardinality(due) : shown[n] = rows[i]
<1> DEFINE due == L!Due(rows, all)
           shown == L!View(rows, all)
<1>1. due \in SUBSET Nat /\ IsFiniteSet(due) /\ Cardinality(due) \in Nat
  BY DueFacts
<1>2. shown = [n \in 1..Cardinality(due) |-> rows[L!Nth(due, n)]]
  BY Zenon DEF L!View, L!Cardinality, Cardinality
<1> HIDE DEF due, shown
<1>3. Len(shown) = Cardinality(due)
  BY <1>1, <1>2
<1>4. ASSUME NEW n \in 1..Cardinality(due) PROVE \E i \in due : shown[n] = rows[i]
  BY <1>1, <1>2, NthFacts
<1>5. ASSUME NEW i \in due PROVE \E n \in 1..Cardinality(due) : shown[n] = rows[i]
  <2>1. L!Nth(due, Rank(due, i)) = i /\ Rank(due, i) \in 1..Cardinality(due)
    BY <1>1, NthFacts, RankFacts
  <2> QED
    BY <1>2, <2>1
<1> QED
  BY <1>3, <1>4, <1>5 DEF due, shown

LEMMA ListStepKeeps == ListInv /\ [L!Next]_(L!vars) => ListInv'
<1> SUFFICES ASSUME ListInv, [L!Next]_(L!vars) PROVE ListInv'
  OBVIOUS
<1>1. Preset \in Seq(KnownNetworks) /\ <<>> \in Seq(KnownNetworks)
  BY NetworksAssumption DEF KnownNetworks
<1>2. ASSUME NEW async \in BOOLEAN, NEW showHidden \in BOOLEAN, L!ScanNetworks(async, showHidden)
      PROVE  ListInv'
  <2>1. /\ listed' = L!View(networks, showHidden) /\ networks' = networks
        /\ number' = L!Int8(Len(listed'))
        /\ wanted' = [all |-> showHidden, of |-> networks]
    BY <1>2, Zenon DEF L!ScanNetworks
  <2>2. wanted'.of = networks /\ wanted'.all = showHidden
    BY <2>1
  <2>3. Len(listed') = Cardinality(L!Due(networks, showHidden))
    BY <2>1, ViewFacts DEF ListInv
  <2> QED
    BY <2>1, <2>2, <2>3, Zenon DEF ListInv, DueNow
<1>3. CASE L!ServiceAsyncScan
  BY <1>3, Zenon DEF L!ServiceAsyncScan, ListInv, DueNow
<1>4. CASE L!ScanDelete
  BY <1>1, <1>4, Zenon DEF L!ScanDelete, ListInv, DueNow
<1>5. ASSUME NEW rows \in Seq(KnownNetworks), L!MockSetScanResults(rows) PROVE ListInv'
  BY <1>5, Zenon DEF L!MockSetScanResults, ListInv, DueNow
<1>6. ASSUME NEW e \in Mocked, L!MockAddScanResult(e) PROVE ListInv'
  <2>1. e \in KnownNetworks /\ networks \in Seq(KnownNetworks)
    BY DEF ListInv, KnownNetworks
  <2>2. Append(networks, e) \in Seq(KnownNetworks)
    BY <2>1
  <2> QED
    BY <1>5, <1>6, <2>2 DEF L!MockAddScanResult
<1>7. ASSUME NEW item, L!BSSID(item) PROVE ListInv'
  BY <1>7, Zenon DEF L!BSSID, ListInv, DueNow
<1>8. CASE UNCHANGED L!vars
  BY <1>8, Zenon DEF L!vars, ListInv, DueNow
<1> QED
  BY <1>1, <1>2, <1>3, <1>4, <1>5, <1>6, <1>7, <1>8 DEF L!Next

(* The int8_t holds a number below Limit, and makes one up to twice that   *)
(* negative.                                                               *)
LEMMA Int8Facts ==
    ASSUME NEW n \in Nat
    PROVE  /\ n < Limit => L!Int8(n) = n
           /\ n \in Limit..2 * Limit - 1 => L!Int8(n) < 0
<1>1. PICK m : m = 2 * Limit
  OBVIOUS
<1>2. Limit \in Nat /\ Limit > 0 /\ m \in Nat /\ m > Limit /\ m = Limit + Limit
  BY <1>1, NetworksAssumption
<1>3. ASSUME n < Limit PROVE (n + Limit) % m = n + Limit
  BY <1>2, <1>3
<1>4. ASSUME n \in Limit..2 * Limit - 1 PROVE (n + Limit) % m = n - Limit
  <2>1. /\ n - Limit \in 0..m - 1 /\ n + Limit = m * 1 + (n - Limit)
    BY <1>2, <1>4
  <2> QED
    BY <1>2, <2>1
<1> QED
  BY <1>1, <1>2, <1>3, <1>4 DEF L!Int8

LEMMA ScanReadableHolds == ListInv => L!ScanReadable
<1> DEFINE due == {i \in DOMAIN wanted.of : wanted.of[i].hidden => wanted.all}
           at(item) == [ssid |-> L!SSID(item), auth |-> L!EncryptionType(item),
                        hidden |-> L!IsHidden(item)]
           seen == {item \in L!Indices : L!GetNetworkInfo(item)}
<1> SUFFICES ASSUME ListInv
    PROVE  /\ phase # "none" /\ ~tampered =>
                /\ seen = {item \in L!Indices : item < Cardinality(due)}
                /\ \A item \in seen : \E i \in due : at(item) = wanted.of[i]
                /\ Cardinality(due) <= 2 * Limit =>
                      \A i \in due : \E item \in seen : at(item) = wanted.of[i]
                /\ \A item \in L!Indices \ seen : L!SSID(item) = Blank
           /\ phase = "done" =>
                /\ Cardinality(due) < Limit => L!ScanComplete = Cardinality(due)
                /\ Cardinality(due) \in Limit..2 * Limit - 1 => L!ScanComplete < 0
  BY Zenon DEF L!ScanReadable, L!Cardinality, Cardinality
<1>1. due = DueNow
  BY DEF DueNow, L!Due
<1>2. /\ wanted.of \in Seq(KnownNetworks) /\ DueNow \in SUBSET (1..Len(wanted.of))
      /\ Cardinality(DueNow) \in Nat
  BY DueFacts DEF ListInv, DueNow
<1>3. ASSUME phase # "none", ~tampered
      PROVE  /\ seen = {item \in L!Indices : item < Cardinality(due)}
             /\ \A item \in seen : \E i \in due : at(item) = wanted.of[i]
             /\ Cardinality(due) <= 2 * Limit =>
                   \A i \in due : \E item \in seen : at(item) = wanted.of[i]
             /\ \A item \in L!Indices \ seen : L!SSID(item) = Blank
  <2>1. /\ Len(listed) = Cardinality(DueNow)
        /\ \A n \in 1..Cardinality(DueNow) : \E i \in DueNow : listed[n] = wanted.of[i]
        /\ \A i \in DueNow : \E n \in 1..Cardinality(DueNow) : listed[n] = wanted.of[i]
    <3>1. listed = L!View(wanted.of, wanted.all) /\ wanted.of \in Seq(KnownNetworks)
      BY <1>3 DEF ListInv
    <3>2. PICK rows \in Seq(KnownNetworks) : rows = wanted.of
      BY <3>1
    <3>3. PICK all : all = wanted.all
      OBVIOUS
    <3>4. /\ Len(L!View(rows, all)) = Cardinality(L!Due(rows, all))
          /\ \A n \in 1..Cardinality(L!Due(rows, all)) :
                \E i \in L!Due(rows, all) : L!View(rows, all)[n] = rows[i]
          /\ \A i \in L!Due(rows, all) :
                \E n \in 1..Cardinality(L!Due(rows, all)) : L!View(rows, all)[n] = rows[i]
      BY ViewFacts
    <3> QED
      BY <3>1, <3>2, <3>3, <3>4, Zenon DEF DueNow
  <2>2. \A item : L!Listed(item) <=> item < Cardinality(DueNow)
    BY <2>1 DEF L!Listed
  <2>3. seen = {item \in L!Indices : item < Cardinality(DueNow)}
    BY <2>2 DEF L!GetNetworkInfo
  <2>4. \A item \in L!Indices \ seen : L!SSID(item) = Blank
    BY <2>2, <2>3 DEF L!SSID
  <2>5. \A i \in DueNow : LET e == wanted.of[i] IN
           e = [ssid |-> e.ssid, auth |-> e.auth, hidden |-> e.hidden] /\ e.hidden \in BOOLEAN
    BY <1>2, NetworksAssumption DEF KnownNetworks
  <2>6. ASSUME NEW item \in L!Indices, L!Listed(item), NEW i \in DueNow,
               listed[item + 1] = wanted.of[i]
        PROVE  at(item) = wanted.of[i]
    <3>1. /\ L!SSID(item) = wanted.of[i].ssid /\ L!EncryptionType(item) = wanted.of[i].auth
      BY <2>6 DEF L!SSID, L!EncryptionType
    <3>2. L!IsHidden(item) = wanted.of[i].hidden
      BY <2>5, <2>6, Zenon DEF L!IsHidden
    <3> QED
      BY <2>5, <3>1, <3>2, Zenon
  <2>7. ASSUME NEW item \in seen PROVE \E i \in DueNow : at(item) = wanted.of[i]
    <3>1. item \in L!Indices /\ L!Listed(item) /\ item + 1 \in 1..Cardinality(DueNow)
      BY <1>2, <2>2, <2>3, NetworksAssumption DEF L!Indices
    <3>2. PICK i \in DueNow : listed[item + 1] = wanted.of[i]
      BY <2>1, <3>1
    <3> QED
      BY <2>6, <3>1, <3>2
  <2>8. ASSUME Cardinality(DueNow) <= 2 * Limit, NEW i \in DueNow
        PROVE  \E item \in seen : at(item) = wanted.of[i]
    <3>1. PICK n \in 1..Cardinality(DueNow) : listed[n] = wanted.of[i]
      BY <2>1
    <3>2. PICK item : item = n - 1
      OBVIOUS
    <3>3. item \in L!Indices /\ L!Listed(item) /\ item + 1 = n /\ item \in seen
      BY <1>2, <2>2, <2>3, <2>8, <3>2, NetworksAssumption DEF L!Indices
    <3> QED
      BY <2>6, <3>1, <3>3
  <2> HIDE DEF due, at, seen
  <2> QED
    BY <1>1, <2>3, <2>4, <2>7, <2>8
<1>4. ASSUME phase = "done"
      PROVE  /\ Cardinality(due) < Limit => L!ScanComplete = Cardinality(due)
             /\ Cardinality(due) \in Limit..2 * Limit - 1 => L!ScanComplete < 0
  <2>1. L!ScanComplete = L!Int8(Cardinality(DueNow))
    BY <1>4 DEF ListInv, L!ScanComplete
  <2> QED
    BY <1>1, <1>2, <2>1, Int8Facts
<1> HIDE DEF due, at, seen
<1> QED
  BY <1>3, <1>4

(* Whatever was mocked, reported or scanned: the keys of a result by       *)
(* number are those it has by name, queryHost() knows the hosts found, and *)
(* the list of a scan shows each network due at one index and nothing      *)
(* beyond, with a number that is right as long as an int8_t holds it       *)
(* (ESPmDNS.cpp, WiFi.cpp).                                                *)
THEOREM AnswersAgree == NetworkSpec => []AnswersConsistent
<1>1. NetworkInit => ListInv
  BY NetworksAssumption DEF NetworkInit, L!Init, ListInv, KnownNetworks
<1>2. ListInv /\ [NetworkNext]_networkVars => ListInv'
  BY ListPart, ListStepKeeps
<1>3. QueryInv /\ ListInv => AnswersConsistent
  BY ResultsReadableHolds, ScanReadableHolds DEF AnswersConsistent
<1> QED
  BY <1>1, <1>2, <1>3, QueryInvHolds, PTL DEF NetworkSpec
=============================================================================
