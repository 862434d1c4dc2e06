----------------------------- MODULE LoopWatchdog -----------------------------
(***************************************************************************)
(* The ESP32 loop watchdog (cores/epoxy/esp32_wdt.cpp): a monitor thread   *)
(* polls a timestamp that the loop thread refreshes after every loop().    *)
(* The threads share atomics and no lock, so one action is one access to   *)
(* an atomic, together with the local computation that follows it.         *)
(***************************************************************************)
EXTENDS Integers

CONSTANTS
  Poll,         \* kPollMs (20)
  Timeouts,     \* the values the sketch passes to loopWDTSetTimeout()
  Initial,      \* timeoutMs when the sketch starts: kDefaultTimeoutMs (5000)
  Environments, \* the values EPOXY_LOOP_WDT_MS may have, NoValue if it is not set
  NoValue,
  MaxNow        \* bound on the clock

ASSUME PollAssumption == Poll \in Nat \ {0}
ASSUME TimeoutsAssumption == Timeouts \subseteq Nat
ASSUME InitialAssumption == Initial \in Nat
ASSUME EnvironmentsAssumption ==
  Environments \subseteq Nat \cup {NoValue} /\ NoValue \notin Nat
ASSUME MaxNowAssumption == MaxNow \in Nat

VARIABLES
  now,         \* nowMs()
  armed, lastFeedMs, timeoutMs, timeoutExplicit,
  expiryHandler,  \* TRUE iff the sketch has set one
  lpc, lnow,   \* loop thread: the call it is in, and nowMs() as it read it
  mpc,         \* monitor: "unstarted", "sleep", the next access, or "dead" when
               \* it has terminated the process
  wakeAt,      \* when the monitor's sleep ends
  mtimeout,    \* monitor: the local timeout
  mnow,        \* monitor: the value of nowMs()
  rearmed,     \* history: armed since the last expiry
  since,       \* history: when the watchdog was armed, or its timeout changed
  late,        \* history: time has passed while the monitor was awake
  missed       \* history: the loop thread has let the feed grow older than the
               \* timeout, has been interrupted inside one of these calls, or
               \* has changed the timeout while the watchdog was armed

loopVars    == <<lpc, lnow>>
monitorVars == <<mpc, wakeAt, mtimeout, mnow>>
sharedVars  == <<armed, lastFeedMs, timeoutMs, timeoutExplicit, expiryHandler>>
historyVars == <<rearmed, since, late, missed>>
vars == <<now, sharedVars, loopVars, monitorVars, historyVars>>

Init ==
  /\ now = 0
  /\ armed = FALSE /\ lastFeedMs = 0
  /\ timeoutMs = Initial /\ timeoutExplicit = FALSE
  /\ expiryHandler = FALSE
  /\ lpc = "loop" /\ lnow = 0
  /\ mpc = "unstarted" /\ wakeAt = 0 /\ mtimeout = 0 /\ mnow = 0
  /\ rearmed = FALSE /\ since = 0 /\ late = FALSE /\ missed = FALSE

-----------------------------------------------------------------------------
(* The loop thread.                                                         *)

InLoop == lpc = "loop" /\ mpc # "dead"

\* enableLoopWDT(): the first call reads the environment and starts the monitor.
EnableBegin ==
  /\ InLoop
  /\ IF mpc = "unstarted"
       THEN /\ \E env \in Environments :
                 timeoutMs' = IF env = NoValue \/ timeoutExplicit
                                THEN timeoutMs ELSE env
            /\ mpc' = "sleep"
            /\ wakeAt' = now + Poll
       ELSE UNCHANGED <<timeoutMs, mpc, wakeAt>>
  /\ lpc' = "enable"
  /\ lnow' = now
  /\ UNCHANGED <<now, armed, lastFeedMs, timeoutExplicit, expiryHandler, mtimeout,
                 mnow, historyVars>>

\* Mutant: arming does not restart the timer.
EnableUnfed ==
  /\ lpc = "enable" /\ mpc # "dead"
  /\ lpc' = "arm"
  /\ UNCHANGED <<now, sharedVars, lnow, monitorVars, historyVars>>

EnableFeed ==
  /\ lpc = "enable" /\ mpc # "dead"
  /\ lastFeedMs' = lnow
  /\ lpc' = "arm"
  /\ UNCHANGED <<now, armed, timeoutMs, timeoutExplicit, expiryHandler, lnow,
                 monitorVars, historyVars>>

EnableArm ==
  /\ lpc = "arm" /\ mpc # "dead"
  /\ armed' = TRUE
  /\ lpc' = "loop"
  /\ rearmed' = TRUE
  /\ since' = now
  /\ UNCHANGED <<now, lastFeedMs, timeoutMs, timeoutExplicit, expiryHandler, lnow,
                 monitorVars, late, missed>>

DisableLoopWDT ==
  /\ InLoop
  /\ armed' = FALSE
  /\ UNCHANGED <<now, lastFeedMs, timeoutMs, timeoutExplicit, expiryHandler, loopVars,
                 monitorVars, historyVars>>

\* feedLoopWDT(), also called by main() after every loop().
FeedBegin ==
  /\ InLoop
  /\ lpc' = "feed"
  /\ lnow' = now
  /\ UNCHANGED <<now, sharedVars, monitorVars, historyVars>>

FeedEnd ==
  /\ lpc = "feed" /\ mpc # "dead"
  /\ lastFeedMs' = lnow
  /\ lpc' = "loop"
  /\ UNCHANGED <<now, armed, timeoutMs, timeoutExplicit, expiryHandler, lnow,
                 monitorVars, historyVars>>

LoopWDTSetTimeout(ms) ==
  /\ InLoop
  /\ timeoutMs' = ms
  /\ timeoutExplicit' = TRUE
  /\ since' = now
  /\ missed' = (missed \/ armed)
  /\ UNCHANGED <<now, armed, lastFeedMs, expiryHandler, loopVars, monitorVars,
                 rearmed, late>>

LoopWDTSetExpiryHandler(set) ==
  /\ InLoop
  /\ expiryHandler' = set
  /\ UNCHANGED <<now, armed, lastFeedMs, timeoutMs, timeoutExplicit, loopVars,
                 monitorVars, historyVars>>

-----------------------------------------------------------------------------
(* The monitor thread.                                                      *)

Sleep == mpc' = "sleep" /\ wakeAt' = now + Poll

MonitorWakes ==
  /\ mpc = "sleep"
  /\ now >= wakeAt
  /\ mtimeout' = timeoutMs
  /\ mpc' = "armed"
  /\ UNCHANGED <<now, sharedVars, loopVars, wakeAt, mnow, historyVars>>

MonitorReadsArmed ==
  /\ mpc = "armed"
  /\ IF ~armed \/ mtimeout = 0
       THEN Sleep
       ELSE mpc' = "now" /\ UNCHANGED wakeAt
  /\ UNCHANGED <<now, sharedVars, loopVars, mtimeout, mnow, historyVars>>

\* The operands of nowMs() - lastFeedMs.load() are evaluated left to right.
MonitorReadsNow ==
  /\ mpc = "now"
  /\ mnow' = now
  /\ mpc' = "feed"
  /\ UNCHANGED <<now, sharedVars, loopVars, wakeAt, mtimeout, historyVars>>

\* Mutants: a feed that is exactly timeout old counts as late; one that is up
\* to a poll older does not.
MonitorImpatient ==
  /\ mpc = "feed"
  /\ IF mnow - lastFeedMs < mtimeout
       THEN Sleep
       ELSE mpc' = "fire" /\ UNCHANGED wakeAt
  /\ UNCHANGED <<now, sharedVars, loopVars, mtimeout, mnow, historyVars>>

MonitorPatient ==
  /\ mpc = "feed"
  /\ IF mnow - lastFeedMs <= mtimeout + Poll
       THEN Sleep
       ELSE mpc' = "fire" /\ UNCHANGED wakeAt
  /\ UNCHANGED <<now, sharedVars, loopVars, mtimeout, mnow, historyVars>>

MonitorReadsFeed ==
  /\ mpc = "feed"
  /\ IF mnow - lastFeedMs <= mtimeout
       THEN Sleep
       ELSE mpc' = "fire" /\ UNCHANGED wakeAt
  /\ UNCHANGED <<now, sharedVars, loopVars, mtimeout, mnow, historyVars>>

\* Mutant: armed is tested but not cleared.
ExpireArmed ==
  /\ mpc = "fire"
  /\ armed
  /\ mpc' = "handler"
  /\ rearmed' = FALSE
  /\ UNCHANGED <<now, sharedVars, loopVars, wakeAt, mtimeout, mnow, since, late, missed>>

\* armed.exchange(false): the expiry, unless it was disarmed in between.
Expire ==
  /\ mpc = "fire"
  /\ armed
  /\ armed' = FALSE
  /\ mpc' = "handler"
  /\ rearmed' = FALSE
  /\ UNCHANGED <<now, lastFeedMs, timeoutMs, timeoutExplicit, expiryHandler, loopVars,
                 wakeAt, mtimeout, mnow, since, late, missed>>

ExpireTooLate ==
  /\ mpc = "fire"
  /\ ~armed
  /\ Sleep
  /\ UNCHANGED <<now, sharedVars, loopVars, mtimeout, mnow, historyVars>>

CallHandler ==
  /\ mpc = "handler"
  /\ expiryHandler
  /\ Sleep
  /\ UNCHANGED <<now, sharedVars, loopVars, mtimeout, mnow, historyVars>>

\* terminateLoopTask(): dumps the loop thread's stack and aborts.
TerminateLoopTask ==
  /\ mpc = "handler"
  /\ ~expiryHandler
  /\ mpc' = "dead"
  /\ UNCHANGED <<now, sharedVars, loopVars, wakeAt, mtimeout, mnow, historyVars>>

-----------------------------------------------------------------------------

MonitorAwake ==
  \/ mpc \in {"armed", "now", "feed", "fire", "handler"}
  \/ mpc = "sleep" /\ now >= wakeAt

\* The feed is not too old at the next tick either, or need not be.
FeedInTime == armed /\ timeoutMs # 0 => now + 1 - lastFeedMs <= timeoutMs

Tick ==
  /\ mpc # "dead"
  /\ now < MaxNow
  /\ now' = now + 1
  /\ late' = (late \/ MonitorAwake)
  /\ missed' = (missed \/ ~FeedInTime \/ lpc # "loop")
  /\ UNCHANGED <<sharedVars, loopVars, monitorVars, rearmed, since>>

LoopThread ==
  \/ EnableBegin \/ EnableFeed \/ EnableArm
  \/ DisableLoopWDT
  \/ FeedBegin \/ FeedEnd
  \/ \E ms \in Timeouts : LoopWDTSetTimeout(ms)
  \/ \E set \in BOOLEAN : LoopWDTSetExpiryHandler(set)

Monitor ==
  \/ MonitorWakes \/ MonitorReadsArmed \/ MonitorReadsNow \/ MonitorReadsFeed
  \/ Expire \/ ExpireTooLate
  \/ CallHandler \/ TerminateLoopTask

Next == LoopThread \/ Monitor \/ Tick

Spec == Init /\ [][Next]_vars

-----------------------------------------------------------------------------

\* The type of the state.
TypeOK ==
  /\ now \in Nat
  /\ armed \in BOOLEAN
  /\ lastFeedMs \in Nat
  /\ timeoutMs \in Nat
  /\ timeoutExplicit \in BOOLEAN
  /\ expiryHandler \in BOOLEAN
  /\ lpc \in {"loop", "enable", "arm", "feed"}
  /\ lnow \in Nat
  /\ mpc \in {"unstarted", "sleep", "armed", "now", "feed", "fire", "handler", "dead"}
  /\ wakeAt \in Nat
  /\ mtimeout \in Nat
  /\ mnow \in Nat
  /\ rearmed \in BOOLEAN
  /\ since \in Nat
  /\ late \in BOOLEAN /\ missed \in BOOLEAN

\* "Fire once": an expiry needs an arming of its own, however the monitor's
\* polls, disarming and re-arming interleave.
FiresOncePerArming == [][Expire => rearmed]_vars

\* The monitor decides to fire only if at that moment the feed is too old; a
\* feed that arrives between its two reads saves the loop thread.
StaleWhenDecided ==
  [][MonitorReadsFeed /\ mpc' = "fire" => now - lastFeedMs > mtimeout]_vars

\* "Expiry is detected within this much of timeout": while the watchdog is
\* armed, the feed is never older than the timeout by more than one poll,
\* counted from when it was armed or the timeout was changed if that is later.
\* (As long as the monitor has been scheduled whenever it was awake.)
Deadline == IF lastFeedMs + timeoutMs >= since THEN lastFeedMs + timeoutMs ELSE since

DetectedWithinPoll ==
  ~late /\ armed /\ timeoutMs # 0 => now <= Deadline + Poll

\* "Fed in time: no expiry", through any number of disarmings and re-armings.
\* (As long as both threads have kept their time.)
FedInTimeNoExpiry == ~late /\ ~missed => mpc \notin {"handler", "dead"}

\* The loop task is considered frozen only "if the timestamp is older than the
\* timeout while the watchdog is armed": so it still is when the expiry fires.
ExpiryOnlyWhenStale ==
  [][Expire => timeoutMs # 0 /\ now - lastFeedMs > timeoutMs]_vars
=============================================================================
