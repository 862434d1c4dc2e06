------------------------------- MODULE RealClock -------------------------------
(***************************************************************************)
(* Real-time micros() (cores/epoxy/Arduino.cpp): both threads count from a *)
(* start time that the first caller latches with a compare-exchange, and   *)
(* that EpoxyTest::reset() clears.                                         *)
(***************************************************************************)
EXTENDS Integers

CONSTANTS
  Threads,  \* the threads that call micros(): main and the injector
  Idle,     \* the clock reading of a thread that is not in micros()
  Wrap,     \* 2^32: micros() returns the low 32 bits
  MaxTime   \* bound on the monotonic clock

ASSUME WrapAssumption == Wrap \in Nat \ {0}
ASSUME MaxTimeAssumption == MaxTime \in Nat
ASSUME IdleAssumption == Idle \notin Nat

VARIABLES
  clock,    \* CLOCK_MONOTONIC, in microseconds; never 0
  start,    \* epoxy_start_time
  reading,  \* per thread: us, its clock reading, while it is in micros()
  result,   \* per thread: what micros() returned last
  readAt,   \* history: the clock reading that result was computed from
  current   \* history: result was computed since the last reset

clockVars == <<clock, start, reading, result, readAt, current>>

ClockInit ==
  /\ clock = 1
  /\ start = 0
  /\ reading = [t \in Threads |-> Idle]
  /\ result = [t \in Threads |-> 0]
  /\ readAt = [t \in Threads |-> 0]
  /\ current = [t \in Threads |-> FALSE]

ReadClock(t) ==
  /\ reading[t] = Idle
  /\ reading' = [reading EXCEPT ![t] = clock]
  /\ UNCHANGED <<clock, start, result, readAt, current>>

Return(t, elapsed) ==
  /\ result' = [result EXCEPT ![t] = elapsed % Wrap]
  /\ readAt' = [readAt EXCEPT ![t] = reading[t]]
  /\ current' = [current EXCEPT ![t] = TRUE]
  /\ reading' = [reading EXCEPT ![t] = Idle]

\* Mutant: a store, after a look at the start time that another thread may
\* have latched since.
LatchStore(t) ==
  /\ reading[t] # Idle
  /\ start' = reading[t]
  /\ Return(t, 0)
  /\ UNCHANGED clock

\* compare_exchange_strong(0, us): the first caller latches the start time.
Latch(t) ==
  /\ reading[t] # Idle
  /\ start = 0
  /\ start' = reading[t]
  /\ Return(t, 0)
  /\ UNCHANGED clock

Subtract(t) ==
  /\ reading[t] # Idle
  /\ start # 0
  /\ Return(t, reading[t] - start)
  /\ UNCHANGED <<clock, start>>

\* initTime(), called by EpoxyTest::reset().
ResetTime ==
  /\ start # 0
  /\ start' = 0
  /\ current' = [t \in Threads |-> FALSE]
  /\ UNCHANGED <<clock, reading, result, readAt>>

ClockTick ==
  /\ clock < MaxTime
  /\ clock' = clock + 1
  /\ UNCHANGED <<start, reading, result, readAt, current>>

ClockNext ==
  \/ \E t \in Threads : ReadClock(t) \/ Latch(t) \/ Subtract(t)
  \/ ResetTime
  \/ ClockTick

ClockSpec == ClockInit /\ [][ClockNext]_clockVars

-----------------------------------------------------------------------------

\* The type of the state: in particular micros() returns 32 bits, also when a
\* thread subtracts a start time that is later than its own reading.
ClockTypeOK ==
  /\ clock \in Nat \ {0}
  /\ start \in Nat
  /\ reading \in [Threads -> (Nat \ {0}) \cup {Idle}]
  /\ result \in [Threads -> 0 .. Wrap - 1]
  /\ readAt \in [Threads -> Nat]
  /\ current \in [Threads -> BOOLEAN]

\* All threads count from the one start time that is in force: whichever of them
\* latched it, what each of them was told since the last reset() is the distance
\* of its own clock reading from it.
OneEpoch ==
  \A t \in Threads :
    current[t] => start # 0 /\ result[t] = (readAt[t] - start) % Wrap
=============================================================================
