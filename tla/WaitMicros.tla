------------------------------ MODULE WaitMicros ------------------------------
(***************************************************************************)
(* waitMicros() (cores/epoxy/Arduino.cpp), the loop behind delay() and     *)
(* delayMicroseconds(): it services interrupts and yield callbacks while   *)
(* it waits, against a deadline in real time and by counting slices down   *)
(* in simulated time.  What pump() does is modelled in Pump; here it costs *)
(* time.  The clock is counted from the start of the call.                 *)
(***************************************************************************)
EXTENDS Integers

CONSTANTS
  Slice,    \* kSliceUs (1000)
  MaxWait,  \* bound on the time asked for
  MaxPump,  \* what the callbacks of one pump() take at most
  MaxLate   \* what a usleep() overshoots at most

ASSUME SliceAssumption == Slice \in Nat \ {0}
ASSUME BoundsAssumption == MaxWait \in Nat /\ MaxPump \in Nat /\ MaxLate \in Nat

VARIABLES
  pc,        \* "idle", "pump", "test" or "sleep"
  realTime,  \* epoxy_real_time, as the call found it
  us,        \* the parameter: what is left to wait (simulated time)
  deadline,  \* monotonicMicros() + us (real time)
  remaining, \* the local of that name (real time)
  passed,    \* the clock of the mode
  asked,     \* history: what the caller asked for
  slept,     \* history: the slices waited so far (simulated time)
  pumpedAt   \* history: when the last pump() returned, or the call was made

waitVars == <<pc, realTime, us, deadline, remaining, passed, asked, slept, pumpedAt>>

WaitInit ==
  /\ pc = "idle"
  /\ realTime \in BOOLEAN
  /\ us = 0 /\ deadline = 0 /\ remaining = 0 /\ passed = 0
  /\ asked = 0 /\ slept = 0 /\ pumpedAt = 0

Call(real, n) ==
  /\ pc = "idle"
  /\ pc' = "pump"
  /\ realTime' = real
  /\ us' = n
  /\ deadline' = n
  /\ remaining' = 0
  /\ passed' = 0
  /\ asked' = n
  /\ slept' = 0
  /\ pumpedAt' = 0

\* The callbacks take their time, and in simulated time they move the clock only
\* if they wait or set it themselves.
PumpCallbacks(d) ==
  /\ pc = "pump"
  /\ pc' = "test"
  /\ passed' = passed + d
  /\ pumpedAt' = passed + d
  /\ UNCHANGED <<realTime, us, deadline, remaining, asked, slept>>

Smaller(a, b) == IF a < b THEN a ELSE b

\* Mutant: the deadline is tested for equality.
RealReturnExact ==
  /\ pc = "test" /\ realTime
  /\ passed = deadline
  /\ pc' = "idle"
  /\ UNCHANGED <<realTime, us, deadline, remaining, passed, asked, slept, pumpedAt>>

RealReturn ==
  /\ pc = "test" /\ realTime
  /\ passed >= deadline
  /\ pc' = "idle"
  /\ UNCHANGED <<realTime, us, deadline, remaining, passed, asked, slept, pumpedAt>>

RealTest ==
  /\ pc = "test" /\ realTime
  /\ passed < deadline
  /\ remaining' = deadline - passed
  /\ pc' = "sleep"
  /\ UNCHANGED <<realTime, us, deadline, passed, asked, slept, pumpedAt>>

\* Mutants: the rest of the wait in one go; always a full slice.
RealSleepThrough(late) ==
  /\ pc = "sleep"
  /\ passed' = passed + remaining + late
  /\ pc' = "pump"
  /\ UNCHANGED <<realTime, us, deadline, remaining, asked, slept, pumpedAt>>

RealSleepSlice(late) ==
  /\ pc = "sleep"
  /\ passed' = passed + Slice + late
  /\ pc' = "pump"
  /\ UNCHANGED <<realTime, us, deadline, remaining, asked, slept, pumpedAt>>

RealSleep(late) ==
  /\ pc = "sleep"
  /\ passed' = passed + Smaller(remaining, Slice) + late
  /\ pc' = "pump"
  /\ UNCHANGED <<realTime, us, deadline, remaining, asked, slept, pumpedAt>>

SimulatedReturn ==
  /\ pc = "test" /\ ~realTime
  /\ us = 0
  /\ pc' = "idle"
  /\ UNCHANGED <<realTime, us, deadline, remaining, passed, asked, slept, pumpedAt>>

\* Mutant: the last slice is a full one.
SimulatedSliceFull ==
  /\ pc = "test" /\ ~realTime
  /\ us > 0
  /\ passed' = passed + Slice
  /\ slept' = slept + Slice
  /\ us' = us - Smaller(us, Slice)
  /\ pc' = "pump"
  /\ UNCHANGED <<realTime, deadline, remaining, asked, pumpedAt>>

\* Injector::delay_us(slice), whose effect on the clock module Injector shows.
SimulatedSlice ==
  /\ pc = "test" /\ ~realTime
  /\ us > 0
  /\ passed' = passed + Smaller(us, Slice)
  /\ slept' = slept + Smaller(us, Slice)
  /\ us' = us - Smaller(us, Slice)
  /\ pc' = "pump"
  /\ UNCHANGED <<realTime, deadline, remaining, asked, pumpedAt>>

Wait ==
  \/ \E d \in 0 .. MaxPump : PumpCallbacks(d)
  \/ RealReturn \/ RealTest
  \/ \E late \in 0 .. MaxLate : RealSleep(late)
  \/ SimulatedReturn \/ SimulatedSlice

WaitNext ==
  \/ \E real \in BOOLEAN, n \in 0 .. MaxWait : Call(real, n)
  \/ Wait

WaitSpec == WaitInit /\ [][WaitNext]_waitVars

\* The callbacks and usleep() return.
FairWaitSpec == WaitSpec /\ WF_waitVars(Wait)

-----------------------------------------------------------------------------

\* The type of the state.
WaitTypeOK ==
  /\ pc \in {"idle", "pump", "test", "sleep"}
  /\ realTime \in BOOLEAN
  /\ {us, deadline, remaining, passed, asked, slept, pumpedAt} \subseteq Nat

\* In real time a delay overshoots by at most one run of the callbacks and one
\* late usleep(), not by what every pump() of the wait has cost ("it comes out
\* of the caller's wait"), and in no case returns early.
RealTimeKept ==
  [][RealReturn => /\ passed >= asked
                   /\ passed <= asked + MaxPump + MaxLate]_waitVars

\* In simulated time "the slices must sum to exactly us", whatever the callbacks
\* do to the clock in between.
SlicesSumToAsked ==
  [][SimulatedReturn => slept = asked]_waitVars

\* Every wait takes the time that was asked for, in either mode.
TimeKept == RealTimeKept /\ SlicesSumToAsked

\* Interrupts and yield callbacks are serviced on a cadence of one slice: when
\* pump() is called, no more than a slice (and one late usleep()) has passed
\* since it last returned, and no wait, not even one of 0, goes without.
PumpCadence ==
  /\ pc = "pump" => passed <= pumpedAt + Slice + MaxLate
  /\ pc = "pump" /\ ~realTime => passed <= pumpedAt + Slice

\* Every wait ends, even if each pump() of it takes longer than a slice.
WaitEnds == pc = "pump" ~> pc = "idle"
=============================================================================
