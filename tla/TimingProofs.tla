----------------------------- MODULE TimingProofs -----------------------------
(***************************************************************************)
(* Proofs about the three timing mechanisms of the core, a section each:   *)
(* the loop watchdog for any poll interval and timeouts; the waits for     *)
(* any slice, any wait, and callbacks and sleeps that take any time within *)
(* their bounds; the clock for any number of threads and any width of the  *)
(* counter.                                                                *)
(***************************************************************************)
EXTENDS LoopWatchdog, WaitMicros, RealClock, TLAPS

-----------------------------------------------------------------------------
(* LoopWatchdog.                                                            *)

\* The state keeps its types; in particular timeoutMs stays a natural number
\* whether or not EPOXY_LOOP_WDT_MS is set.
THEOREM WatchdogTypeCorrect == Spec => []TypeOK
<1>1. Init => TypeOK
  <2> SUFFICES ASSUME Init PROVE TypeOK
    OBVIOUS
  <2>1. armed \in BOOLEAN /\ timeoutExplicit \in BOOLEAN /\ expiryHandler \in BOOLEAN
        /\ rearmed \in BOOLEAN /\ late \in BOOLEAN /\ missed \in BOOLEAN
    BY DEF Init
  <2>2. {now, lastFeedMs, timeoutMs, lnow, wakeAt, mtimeout, mnow, since} \subseteq Nat
    BY InitialAssumption DEF Init
  <2> QED
    BY <2>1, <2>2 DEF Init, TypeOK
<1>2. TypeOK /\ [Next]_vars => TypeOK'
  <2> SUFFICES ASSUME TypeOK, [Next]_vars PROVE TypeOK'
    OBVIOUS
  <2> USE PollAssumption, TimeoutsAssumption DEF TypeOK, sharedVars, loopVars, monitorVars, historyVars
  <2>1. CASE EnableBegin
    BY <2>1, EnvironmentsAssumption DEF EnableBegin, InLoop
  <2>2. CASE EnableFeed
    BY <2>2 DEF EnableFeed
  <2>3. CASE EnableArm
    BY <2>3 DEF EnableArm
  <2>4. CASE DisableLoopWDT
    BY <2>4 DEF DisableLoopWDT
  <2>5. CASE FeedBegin
    BY <2>5 DEF FeedBegin
  <2>6. CASE FeedEnd
    BY <2>6 DEF FeedEnd
  <2>7. ASSUME NEW ms \in Timeouts, LoopWDTSetTimeout(ms) PROVE TypeOK'
    BY <2>7 DEF LoopWDTSetTimeout
  <2>8. ASSUME NEW set \in BOOLEAN, LoopWDTSetExpiryHandler(set) PROVE TypeOK'
    BY <2>8 DEF LoopWDTSetExpiryHandler
  <2>9. CASE MonitorWakes
    BY <2>9 DEF MonitorWakes
  <2>10. CASE MonitorReadsArmed
    BY <2>10 DEF MonitorReadsArmed, Sleep
  <2>11. CASE MonitorReadsNow
    BY <2>11 DEF MonitorReadsNow
  <2>12. CASE MonitorReadsFeed
    BY <2>12 DEF MonitorReadsFeed, Sleep
  <2>13. CASE Expire
    BY <2>13 DEF Expire
  <2>14. CASE ExpireTooLate
    BY <2>14 DEF ExpireTooLate, Sleep
  <2>15. CASE CallHandler
    BY <2>15 DEF CallHandler, Sleep
  <2>16. CASE TerminateLoopTask
    BY <2>16 DEF TerminateLoopTask
  <2>17. CASE Tick
    BY <2>17 DEF Tick
  <2>18. CASE UNCHANGED vars
    BY <2>18 DEF vars
  <2> QED
    BY <2>1, <2>2, <2>3, <2>4, <2>5, <2>6, <2>7, <2>8, <2>9, <2>10, <2>11, <2>12,
       <2>13, <2>14, <2>15, <2>16, <2>17, <2>18 DEF Next, LoopThread, Monitor
<1> QED
  BY <1>1, <1>2, PTL DEF Spec

-----------------------------------------------------------------------------
(* An armed watchdog was armed since it last expired, because the exchange   *)
(* that lets it expire also disarms it.                                      *)

ArmedAnew == armed => rearmed

\* No arming expires twice.
THEOREM FiresOnce == Spec => FiresOncePerArming
<1>1. Init => ArmedAnew
  BY DEF Init, ArmedAnew
<1>2. ArmedAnew /\ [Next]_vars => ArmedAnew'
  <2> SUFFICES ASSUME ArmedAnew, [Next]_vars PROVE ArmedAnew'
    OBVIOUS
  <2> USE DEF ArmedAnew, sharedVars, loopVars, monitorVars, historyVars
  <2>1. CASE EnableArm
    BY <2>1 DEF EnableArm
  <2>2. CASE DisableLoopWDT
    BY <2>2 DEF DisableLoopWDT
  <2>3. CASE Expire
    BY <2>3 DEF Expire
  <2>4. CASE UNCHANGED <<armed, rearmed>>
    BY <2>4
  <2> QED
    BY <2>1, <2>2, <2>3, <2>4
       DEF Next, LoopThread, Monitor, vars, EnableBegin, EnableFeed, FeedBegin,
           FeedEnd, LoopWDTSetTimeout, LoopWDTSetExpiryHandler, MonitorWakes,
           MonitorReadsArmed, MonitorReadsNow, MonitorReadsFeed, ExpireTooLate,
           CallHandler, TerminateLoopTask, Tick
<1>3. ArmedAnew /\ [Next]_vars => [Expire => rearmed]_vars
  BY DEF ArmedAnew, Expire
<1> QED
  BY <1>1, <1>2, <1>3, PTL DEF Spec, FiresOncePerArming

-----------------------------------------------------------------------------
(* The monitor's reading of the clock is never ahead of the clock.           *)

ReadingPast == mpc = "feed" => mnow <= now

\* A monitor that decides to fire does so on a feed that is too old: reading the
\* clock before the timestamp can only make the feed look younger.
THEOREM DecidesOnStaleFeed == Spec => StaleWhenDecided
<1>1. Init => ReadingPast
  BY DEF Init, ReadingPast
<1>2. TypeOK /\ ReadingPast /\ [Next]_vars => ReadingPast'
  <2> SUFFICES ASSUME TypeOK, ReadingPast, [Next]_vars, mpc' = "feed"
               PROVE  mnow' <= now'
    BY DEF ReadingPast
  <2> USE DEF TypeOK, ReadingPast, sharedVars, loopVars, monitorVars, historyVars
  <2>1. CASE MonitorReadsNow
    BY <2>1 DEF MonitorReadsNow
  <2>2. CASE Tick
    BY <2>2 DEF Tick
  <2>3. CASE mpc = "feed" /\ UNCHANGED <<now, mnow>>
    BY <2>3
  <2> QED
    BY <2>1, <2>2, <2>3
       DEF Next, LoopThread, Monitor, vars, EnableBegin, EnableFeed, EnableArm,
           DisableLoopWDT, FeedBegin, FeedEnd, LoopWDTSetTimeout,
           LoopWDTSetExpiryHandler, MonitorWakes, MonitorReadsArmed,
           MonitorReadsFeed, Expire, ExpireTooLate, CallHandler,
           TerminateLoopTask, Sleep
<1>3. TypeOK /\ ReadingPast /\ [Next]_vars
      => [MonitorReadsFeed /\ mpc' = "fire" => now - lastFeedMs > mtimeout]_vars
  BY DEF TypeOK, ReadingPast, MonitorReadsFeed, Sleep
<1> QED
  BY <1>1, <1>2, <1>3, WatchdogTypeCorrect, PTL DEF Spec, StaleWhenDecided

-----------------------------------------------------------------------------
(* Detection, for a monitor that is scheduled promptly.  A sleep that began  *)
(* while the watchdog was armed ends at most a poll after the deadline,      *)
(* because it begins only when the deadline has not passed.  What the        *)
(* monitor knows may be out of date when it goes to sleep: then the timeout  *)
(* was changed, or the watchdog armed, at this very moment.                  *)

Deciding == {"armed", "now", "feed", "fire", "handler"}

ThreadsInStep ==
  /\ lastFeedMs <= lnow /\ lnow <= now
  /\ mpc = "unstarted" => ~armed /\ lpc \notin {"enable", "arm"}
  /\ ~late /\ mpc = "feed" => mnow = now

Detection ==
  ~late =>
    /\ mpc = "sleep" => now <= wakeAt /\ wakeAt <= now + Poll
    /\ mpc = "sleep" /\ armed /\ timeoutMs # 0 => wakeAt <= Deadline + Poll
    /\ mpc \in Deciding /\ mtimeout # timeoutMs => since = now
    /\ mpc = "handler" /\ armed => since = now
    /\ DetectedWithinPoll


\* What a tick says about threads that have kept their time.
LEMMA TickInTime ==
  ASSUME TypeOK, Tick
  PROVE  /\ ~late' => ~late /\ ~MonitorAwake
         /\ ~missed' => ~missed /\ FeedInTime /\ lpc = "loop"
  BY Zenon DEF Tick

\* While the monitor is awake no time passes, and a feed is no older than its
\* reading of the clock.
LEMMA InStep == Spec => []ThreadsInStep
<1>1. Init => ThreadsInStep
  BY DEF Init, ThreadsInStep
<1>2. TypeOK /\ ThreadsInStep /\ [Next]_vars => ThreadsInStep'
  <2> SUFFICES ASSUME TypeOK, ThreadsInStep, [Next]_vars PROVE ThreadsInStep'
    OBVIOUS
  <2> USE DEF TypeOK, ThreadsInStep, sharedVars, loopVars, monitorVars,
                     historyVars
  <2>1. CASE LoopThread
    BY <2>1 DEF LoopThread, EnableBegin, InLoop, EnableFeed, EnableArm,
                DisableLoopWDT, FeedBegin, FeedEnd, LoopWDTSetTimeout,
                LoopWDTSetExpiryHandler
  <2>2. CASE Monitor
    BY <2>2 DEF Monitor, MonitorWakes, MonitorReadsArmed, MonitorReadsNow,
                MonitorReadsFeed, Expire, ExpireTooLate, CallHandler,
                TerminateLoopTask, Sleep
  <2>3. CASE Tick
    BY <2>3, TickInTime DEF Tick, MonitorAwake
  <2>4. CASE UNCHANGED vars
    BY <2>4 DEF vars
  <2> QED
    BY <2>1, <2>2, <2>3, <2>4 DEF Next
<1> QED
  BY <1>1, <1>2, WatchdogTypeCorrect, PTL DEF Spec

\* A frozen loop task is detected within a poll of the timeout, whatever was
\* armed, disarmed, fed or reconfigured while the monitor slept or decided.
THEOREM DetectedInTime == Spec => []DetectedWithinPoll
<1> DEFINE IInv == TypeOK /\ ThreadsInStep /\ Detection
<1>1. Init => Detection
  BY DEF Init, Detection, DetectedWithinPoll, Deciding
<1>2. IInv /\ [Next]_vars => Detection'
  <2> SUFFICES ASSUME IInv, [Next]_vars PROVE Detection'
    OBVIOUS
  <2> USE PollAssumption
      DEF TypeOK, ThreadsInStep, Detection, DetectedWithinPoll, Deadline, Deciding,
          sharedVars, loopVars, monitorVars, historyVars
  <2>1. CASE EnableBegin
    BY <2>1, EnvironmentsAssumption DEF EnableBegin, InLoop
  <2>2. CASE EnableFeed
    BY <2>2 DEF EnableFeed
  <2>3. CASE EnableArm
    BY <2>3 DEF EnableArm
  <2>4. CASE DisableLoopWDT
    BY <2>4 DEF DisableLoopWDT, InLoop
  <2>5. CASE FeedBegin
    BY <2>5 DEF FeedBegin, InLoop
  <2>6. CASE FeedEnd
    BY <2>6 DEF FeedEnd
  <2>7. ASSUME NEW ms \in Timeouts, LoopWDTSetTimeout(ms) PROVE Detection'
    BY <2>7, TimeoutsAssumption DEF LoopWDTSetTimeout, InLoop
  <2>8. ASSUME NEW set \in BOOLEAN, LoopWDTSetExpiryHandler(set) PROVE Detection'
    BY <2>8 DEF LoopWDTSetExpiryHandler, InLoop
  <2>9. CASE MonitorWakes
    BY <2>9 DEF MonitorWakes
  <2>10. CASE MonitorReadsArmed
    BY <2>10 DEF MonitorReadsArmed, Sleep
  <2>11. CASE MonitorReadsNow
    BY <2>11 DEF MonitorReadsNow
  <2>12. CASE MonitorReadsFeed
    BY <2>12 DEF MonitorReadsFeed, Sleep
  <2>13. CASE Expire
    BY <2>13 DEF Expire
  <2>14. CASE ExpireTooLate
    BY <2>14 DEF ExpireTooLate, Sleep
  <2>15. CASE CallHandler
    BY <2>15 DEF CallHandler, Sleep
  <2>16. CASE TerminateLoopTask
    BY <2>16 DEF TerminateLoopTask
  <2>17. CASE Tick
    BY <2>17, TickInTime DEF Tick, MonitorAwake
  <2>18. CASE UNCHANGED vars
    BY <2>18 DEF vars
  <2> QED
    BY <2>1, <2>2, <2>3, <2>4, <2>5, <2>6, <2>7, <2>8, <2>9, <2>10, <2>11, <2>12,
       <2>13, <2>14, <2>15, <2>16, <2>17, <2>18 DEF Next, LoopThread, Monitor
<1>3. Detection => DetectedWithinPoll
  BY DEF Detection, DetectedWithinPoll
<1> QED
  BY <1>1, <1>2, <1>3, WatchdogTypeCorrect, InStep, PTL DEF Spec
-----------------------------------------------------------------------------
(* No false expiry, for a punctual loop thread and a prompt monitor.  The    *)
(* feed is fresh whenever the watchdog is armed; what the monitor compares   *)
(* it with may be an old timeout, but then the watchdog was armed anew, and  *)
(* so fed, since the monitor woke up.                                        *)

FreshWhenArmed ==
  ~late /\ ~missed =>
    /\ lpc # "loop" => lnow = now
    /\ lpc = "arm" => lastFeedMs = now
    /\ armed /\ timeoutMs # 0 => now - lastFeedMs <= timeoutMs
    /\ mpc = "armed" /\ mtimeout # timeoutMs /\ armed => lastFeedMs = now
    /\ mpc \in {"now", "feed"} => now - lastFeedMs <= mtimeout
    /\ mpc \notin {"fire", "handler", "dead"}

\* A loop thread that always feeds in time is never taken for frozen, through any
\* number of disarmings, re-armings and changes of the timeout.
THEOREM PunctualNeverExpires == Spec => []FedInTimeNoExpiry
<1> DEFINE IInv == TypeOK /\ ThreadsInStep /\ FreshWhenArmed
<1>1. Init => FreshWhenArmed
  BY DEF Init, FreshWhenArmed
<1>2. IInv /\ [Next]_vars => FreshWhenArmed'
  <2> SUFFICES ASSUME IInv, [Next]_vars PROVE FreshWhenArmed'
    OBVIOUS
  <2> USE DEF TypeOK, ThreadsInStep, FreshWhenArmed, sharedVars, loopVars, monitorVars,
          historyVars
  <2>1. CASE EnableBegin
    BY <2>1 DEF EnableBegin, InLoop
  <2>2. CASE EnableFeed
    BY <2>2 DEF EnableFeed
  <2>3. CASE EnableArm
    BY <2>3 DEF EnableArm
  <2>4. CASE DisableLoopWDT
    BY <2>4 DEF DisableLoopWDT, InLoop
  <2>5. CASE FeedBegin
    BY <2>5 DEF FeedBegin, InLoop
  <2>6. CASE FeedEnd
    BY <2>6 DEF FeedEnd
  <2>7. ASSUME NEW ms \in Timeouts, LoopWDTSetTimeout(ms) PROVE FreshWhenArmed'
    BY <2>7, TimeoutsAssumption DEF LoopWDTSetTimeout, InLoop
  <2>8. ASSUME NEW set \in BOOLEAN, LoopWDTSetExpiryHandler(set) PROVE FreshWhenArmed'
    BY <2>8 DEF LoopWDTSetExpiryHandler, InLoop
  <2>9. CASE MonitorWakes
    BY <2>9 DEF MonitorWakes
  <2>10. CASE MonitorReadsArmed
    BY <2>10 DEF MonitorReadsArmed, Sleep
  <2>11. CASE MonitorReadsNow
    BY <2>11 DEF MonitorReadsNow
  <2>12. CASE MonitorReadsFeed
    BY <2>12 DEF MonitorReadsFeed, Sleep
  <2>13. CASE Expire \/ ExpireTooLate \/ CallHandler \/ TerminateLoopTask
    BY <2>13 DEF Expire, ExpireTooLate, CallHandler, TerminateLoopTask
  <2>14. CASE Tick
    BY <2>14, TickInTime DEF Tick, MonitorAwake, FeedInTime
  <2>15. CASE UNCHANGED vars
    BY <2>15 DEF vars
  <2> QED
    BY <2>1, <2>2, <2>3, <2>4, <2>5, <2>6, <2>7, <2>8, <2>9, <2>10, <2>11, <2>12,
       <2>13, <2>14, <2>15 DEF Next, LoopThread, Monitor
<1>3. FreshWhenArmed => FedInTimeNoExpiry
  BY DEF FreshWhenArmed, FedInTimeNoExpiry
<1> QED
  BY <1>1, <1>2, <1>3, WatchdogTypeCorrect, InStep, PTL DEF Spec

-----------------------------------------------------------------------------
(* WaitMicros.                                                              *)

\* The state keeps its types: in particular the unsigned us and remaining never
\* go below 0.
THEOREM WaitTypeCorrect == WaitSpec => []WaitTypeOK
<1>1. WaitInit => WaitTypeOK
  BY DEF WaitInit, WaitTypeOK
<1>2. WaitTypeOK /\ [WaitNext]_waitVars => WaitTypeOK'
  <2> SUFFICES ASSUME WaitTypeOK, [WaitNext]_waitVars PROVE WaitTypeOK'
    OBVIOUS
  <2> USE SliceAssumption, BoundsAssumption DEF WaitTypeOK, Smaller
  <2>1. ASSUME NEW real \in BOOLEAN, NEW n \in 0 .. MaxWait, Call(real, n)
        PROVE  WaitTypeOK'
    BY <2>1 DEF Call
  <2>2. ASSUME NEW d \in 0 .. MaxPump, PumpCallbacks(d) PROVE WaitTypeOK'
    BY <2>2 DEF PumpCallbacks
  <2>3. CASE RealReturn
    BY <2>3 DEF RealReturn
  <2>4. CASE RealTest
    BY <2>4 DEF RealTest
  <2>5. ASSUME NEW over \in 0 .. MaxLate, RealSleep(over) PROVE WaitTypeOK'
    BY <2>5 DEF RealSleep
  <2>6. CASE SimulatedReturn
    BY <2>6 DEF SimulatedReturn
  <2>7. CASE SimulatedSlice
    BY <2>7 DEF SimulatedSlice
  <2>8. CASE UNCHANGED waitVars
    BY <2>8 DEF waitVars
  <2> QED
    BY <2>1, <2>2, <2>3, <2>4, <2>5, <2>6, <2>7, <2>8 DEF WaitNext, Wait
<1> QED
  BY <1>1, <1>2, PTL DEF WaitSpec

-----------------------------------------------------------------------------
(* Where a wait stands.  In real time, a sleep ends by the deadline but for  *)
(* its own lateness, so that what the callbacks cost never adds up; in       *)
(* simulated time, the slices waited and what is left make what was asked.   *)

Progress ==
  /\ deadline = asked
  /\ realTime /\ pc = "pump" => passed <= asked + MaxLate
  /\ realTime /\ pc = "test" => passed <= asked + MaxPump + MaxLate
  /\ realTime /\ pc = "sleep" => remaining = deadline - passed /\ remaining > 0
  /\ ~realTime => slept + us = asked
  /\ pc = "sleep" => realTime
  /\ pc \in {"test", "sleep"} => passed = pumpedAt
  /\ PumpCadence

LEMMA ProgressKept == WaitSpec => []Progress
<1>1. WaitInit => Progress
  BY SliceAssumption, BoundsAssumption DEF WaitInit, Progress, PumpCadence
<1>2. WaitTypeOK /\ Progress /\ [WaitNext]_waitVars => Progress'
  <2> SUFFICES ASSUME WaitTypeOK, Progress, [WaitNext]_waitVars PROVE Progress'
    OBVIOUS
  <2> USE SliceAssumption, BoundsAssumption DEF WaitTypeOK, Progress, PumpCadence, Smaller
  <2>1. ASSUME NEW real \in BOOLEAN, NEW n \in 0 .. MaxWait, Call(real, n)
        PROVE  Progress'
    BY <2>1 DEF Call
  <2>2. ASSUME NEW d \in 0 .. MaxPump, PumpCallbacks(d) PROVE Progress'
    BY <2>2 DEF PumpCallbacks
  <2>3. CASE RealReturn
    BY <2>3 DEF RealReturn
  <2>4. CASE RealTest
    BY <2>4 DEF RealTest
  <2>5. ASSUME NEW over \in 0 .. MaxLate, RealSleep(over) PROVE Progress'
    BY <2>5 DEF RealSleep
  <2>6. CASE SimulatedReturn
    BY <2>6 DEF SimulatedReturn
  <2>7. CASE SimulatedSlice
    BY <2>7 DEF SimulatedSlice
  <2>8. CASE UNCHANGED waitVars
    BY <2>8 DEF waitVars
  <2> QED
    BY <2>1, <2>2, <2>3, <2>4, <2>5, <2>6, <2>7, <2>8 DEF WaitNext, Wait
<1> QED
  BY <1>1, <1>2, WaitTypeCorrect, PTL DEF WaitSpec

\* pump() runs on a cadence of one slice in both time modes.
THEOREM Cadence == WaitSpec => []PumpCadence
<1>1. Progress => PumpCadence
  BY DEF Progress
<1> QED
  BY <1>1, ProgressKept, PTL

\* A delay in real time is never short, and long by one pump() and one usleep()
\* at most, however many of them it made.
THEOREM DeadlineKept == WaitSpec => RealTimeKept
<1>1. WaitTypeOK /\ Progress /\ [WaitNext]_waitVars
      => [RealReturn => passed >= asked /\ passed <= asked + MaxPump + MaxLate]_waitVars
  BY BoundsAssumption DEF WaitTypeOK, Progress, RealReturn
<1> QED
  BY <1>1, WaitTypeCorrect, ProgressKept, PTL DEF WaitSpec, RealTimeKept

\* A delay in simulated time hands over exactly what was asked for.
THEOREM SlicesExact == WaitSpec => SlicesSumToAsked
<1>1. WaitTypeOK /\ Progress /\ [WaitNext]_waitVars => [SimulatedReturn => slept = asked]_waitVars
  BY DEF WaitTypeOK, Progress, SimulatedReturn
<1> QED
  BY <1>1, WaitTypeCorrect, ProgressKept, PTL DEF WaitSpec, SlicesSumToAsked

\* Either way a wait takes the time that was asked for.
THEOREM WaitsTakeTheirTime == WaitSpec => TimeKept
  BY DeadlineKept, SlicesExact DEF TimeKept

-----------------------------------------------------------------------------
(* RealClock.                                                               *)

\* micros() returns values of its type, whatever the order in which threads read
\* the monotonic clock, latch the start time and are overtaken by a reset().
THEOREM ClockTypeCorrect == ClockSpec => []ClockTypeOK
<1> USE WrapAssumption, IdleAssumption
<1>1. ClockInit => ClockTypeOK
  BY DEF ClockInit, ClockTypeOK
<1>2. ClockTypeOK /\ [ClockNext]_clockVars => ClockTypeOK'
  <2> SUFFICES ASSUME ClockTypeOK, [ClockNext]_clockVars PROVE ClockTypeOK'
    OBVIOUS
  <2> USE DEF ClockTypeOK
  <2>1. ASSUME NEW t \in Threads, ReadClock(t) PROVE ClockTypeOK'
    BY <2>1 DEF ReadClock
  <2>2. ASSUME NEW t \in Threads, Latch(t) PROVE ClockTypeOK'
    BY <2>2 DEF Latch, Return
  <2>3. ASSUME NEW t \in Threads, Subtract(t) PROVE ClockTypeOK'
    BY <2>3 DEF Subtract, Return
  <2>4. CASE ResetTime
    BY <2>4 DEF ResetTime
  <2>5. CASE ClockTick
    BY <2>5 DEF ClockTick
  <2>6. CASE UNCHANGED clockVars
    BY <2>6 DEF clockVars
  <2> QED
    BY <2>1, <2>2, <2>3, <2>4, <2>5, <2>6 DEF ClockNext
<1> QED
  BY <1>1, <1>2, PTL DEF ClockSpec

\* Every thread counts from the one start time in force: a compare-exchange that
\* finds another thread's start time cannot leave two threads on two epochs.
THEOREM ThreadsAgree == ClockSpec => []OneEpoch
<1> USE WrapAssumption, IdleAssumption
<1>1. ClockInit => OneEpoch
  BY DEF ClockInit, OneEpoch
<1>2. ClockTypeOK /\ OneEpoch /\ [ClockNext]_clockVars => OneEpoch'
  <2> SUFFICES ASSUME ClockTypeOK, OneEpoch, [ClockNext]_clockVars,
                      NEW u \in Threads, current'[u]
               PROVE  start' # 0 /\ result'[u] = (readAt'[u] - start') % Wrap
    BY DEF OneEpoch
  <2> USE DEF ClockTypeOK, OneEpoch
  <2>1. ASSUME NEW t \in Threads, ReadClock(t)
        PROVE  start' # 0 /\ result'[u] = (readAt'[u] - start') % Wrap
    BY <2>1 DEF ReadClock
  <2>2. ASSUME NEW t \in Threads, Latch(t)
        PROVE  start' # 0 /\ result'[u] = (readAt'[u] - start') % Wrap
    \* Nobody has been told anything since the reset: only t will have been.
    <3>1. ~current[u]
      BY <2>2 DEF Latch
    <3>2. u = t
      BY <2>2, <3>1 DEF Latch, Return
    <3>3. reading[t] \in Nat \ {0} /\ reading[t] - reading[t] = 0
      BY <2>2 DEF Latch
    <3> QED
      BY <2>2, <3>2, <3>3 DEF Latch, Return
  <2>3. ASSUME NEW t \in Threads, Subtract(t)
        PROVE  start' # 0 /\ result'[u] = (readAt'[u] - start') % Wrap
    BY <2>3 DEF Subtract, Return
  <2>4. CASE ResetTime
    BY <2>4 DEF ResetTime
  <2>5. CASE ClockTick
    BY <2>5 DEF ClockTick
  <2>6. CASE UNCHANGED clockVars
    BY <2>6 DEF clockVars
  <2> QED
    BY <2>1, <2>2, <2>3, <2>4, <2>5, <2>6 DEF ClockNext
<1> QED
  BY <1>1, <1>2, ClockTypeCorrect, PTL DEF ClockSpec
=============================================================================
