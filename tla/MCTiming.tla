------------------------------- MODULE MCTiming -------------------------------
(***************************************************************************)
(* One run for the three timing mechanisms of the core.  They share no     *)
(* state, so a behaviour exercises one of them and leaves the others at    *)
(* their initial states: interleaving them would only multiply states.     *)
(* The names that WaitMicros and RealClock give to their specifications    *)
(* let the three be extended together.                                     *)
(***************************************************************************)
EXTENDS LoopWatchdog, WaitMicros, RealClock

VARIABLE part        \* the mechanism that runs: "watchdog", "wait" or "clock"

timingVars == <<part, vars, waitVars, clockVars>>

TimingInit ==
  /\ part \in {"watchdog", "wait", "clock"}
  /\ Init /\ WaitInit /\ ClockInit
  /\ part # "wait" => ~realTime

WatchdogStep == part = "watchdog" /\ Next      /\ UNCHANGED <<part, waitVars, clockVars>>
WaitStep     == part = "wait"     /\ WaitNext  /\ UNCHANGED <<part, vars, clockVars>>
ClockStep    == part = "clock"    /\ ClockNext /\ UNCHANGED <<part, vars, waitVars>>

TimingNext == WatchdogStep \/ WaitStep \/ ClockStep

\* The callbacks of waitMicros() and usleep() return.
TimingSpec ==
  /\ TimingInit /\ [][TimingNext]_timingVars
  /\ WF_timingVars(Wait /\ WaitStep)
=============================================================================
