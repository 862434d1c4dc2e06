---------------------------- MODULE YieldServices ----------------------------
(***************************************************************************)
(* What the yield-service table of cores/epoxy/Arduino.cpp promises to the *)
(* libraries that register callbacks, with the slots abstracted away: a    *)
(* bounded set of services, and passes that call each of its members once. *)
(***************************************************************************)
EXTENDS Naturals, FiniteSets

CONSTANTS Services, NumSlots

VARIABLES
  registered,  \* the services in the table
  pending,     \* those the running pass has still to call
  passing      \* a pass is running

vars == <<registered, pending, passing>>

Init == registered = {} /\ pending = {} /\ passing = FALSE

\* A service registered during a pass may be called by it or not.
Register(s) ==
  /\ s \notin registered
  /\ Cardinality(registered) < NumSlots
  /\ registered' = registered \cup {s}
  /\ \/ pending' = pending
     \/ passing /\ pending' = pending \cup {s}
  /\ UNCHANGED passing

\* Once unregistered, a service is not called any more.
Unregister(s) ==
  /\ s \in registered
  /\ registered' = registered \ {s}
  /\ pending' = pending \ {s}
  /\ UNCHANGED passing

BeginPass ==
  /\ ~passing
  /\ passing' = TRUE
  /\ pending' = registered
  /\ UNCHANGED registered

Call(s) ==
  /\ passing
  /\ s \in pending
  /\ pending' = pending \ {s}
  /\ UNCHANGED <<registered, passing>>

\* A pass does not end before every service that stayed registered was called.
EndPass ==
  /\ passing
  /\ pending = {}
  /\ passing' = FALSE
  /\ UNCHANGED <<registered, pending>>

Next ==
  \/ \E s \in Services : Register(s) \/ Unregister(s) \/ Call(s)
  \/ BeginPass
  \/ EndPass

Spec == Init /\ [][Next]_vars
=============================================================================
