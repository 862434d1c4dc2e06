--------------------------------- MODULE Pump ---------------------------------
(***************************************************************************)
(* The polling core of EpoxyDuino (cores/epoxy/Arduino.cpp): pump(), which *)
(* yield() and every delay() call, first scans the emulated interrupts and *)
(* then calls the registered yield-service callbacks.  A handler or a      *)
(* callback is sketch code: it may call any of these functions again, also *)
(* yield() and delay(), so the state includes the C++ call stack.          *)
(***************************************************************************)
EXTENDS Naturals, Sequences

CONSTANTS
  NumSlots,    \* kMaxYieldServiceCallbacks (16 in the code)
  Services,    \* the (callback, context) pairs sketches and libraries register
  NoService,   \* the content of a free slot: callback == nullptr
  NumPins,     \* MAX_INTERRUPTS (32 in the code)
  Modes,       \* the interrupt modes of the selected core
  DirectCalls  \* which of {"check", "trigger"} loop() also makes itself:
               \* checkInterrupts(), triggerInterrupt()

ASSUME NumSlotsAssumption == NumSlots \in Nat
ASSUME NumPinsAssumption == NumPins \in Nat
ASSUME ServicesAssumption == NoService \notin Services
ASSUME ModesAssumption ==
  Modes \subseteq {"CHANGE", "FALLING", "RISING", "ONLOW", "ONHIGH"}
ASSUME DirectCallsAssumption == DirectCalls \subseteq {"check", "trigger"}

VARIABLES
  entries,     \* yieldServiceEntries
  handlers,    \* interruptHandlers
  level,       \* digitalReadPinValues
  inPump,      \* the re-entry guard of pump()
  stack,       \* activations of the loops and of sketch code, innermost last
  firedAt      \* history: the level at which a pin's handler last ran, until
               \* the opposite level is sampled or the handler is attached again

vars == <<entries, handlers, level, inPump, stack, firedAt>>

Slots  == 0 .. NumSlots - 1
Pins   == 0 .. NumPins - 1
Levels == {"LOW", "HIGH"}

ScanKinds   == {"scan", "pumpScan"}       \* checkInterrupts(), pump()'s first half
PumpKinds   == {"pumpScan", "services"}   \* the two halves of pump()
SketchKinds == {"handler", "callback"}    \* code pump() and scans call out to

\* An activation: what runs, the pin or slot it has reached, and (scans only)
\* the local currentState that the loop body keeps across the handler call.
Frame == [kind : ScanKinds \cup PumpKinds \cup SketchKinds,
          at : Nat, seen : Levels]

NewFrame(kind, at) == [kind |-> kind, at |-> at, seen |-> "LOW"]

Top    == stack[Len(stack)]
Caller == SubSeq(stack, 1, Len(stack) - 1)

Running(kinds) == stack # <<>> /\ Top.kind \in kinds
SketchRuns     == stack # <<>> => Top.kind \in SketchKinds

Registered == {entries[i] : i \in Slots} \ {NoService}

Init ==
  /\ entries = [i \in Slots |-> NoService]
  /\ handlers = [p \in Pins |-> [enabled |-> FALSE, mode |-> "none", last |-> "LOW"]]
  /\ level = [p \in Pins |-> "LOW"]
  /\ inPump = FALSE
  /\ stack = <<>>
  /\ firedAt = [p \in Pins |-> "never"]

-----------------------------------------------------------------------------
(* The yield-service table.  Registering a pair that is already there, or   *)
(* into a full table, returns without a change and so is not a step.        *)

FreeSlot(i) ==
  /\ entries[i] = NoService
  /\ \A j \in Slots : entries[j] = NoService => i <= j

\* Mutant: no search for the pair before a free slot is taken.
RegisterAgain(s) ==
  /\ SketchRuns
  /\ \E i \in Slots : FreeSlot(i) /\ entries' = [entries EXCEPT ![i] = s]
  /\ UNCHANGED <<handlers, level, inPump, stack, firedAt>>

RegisterService(s) ==
  /\ SketchRuns
  /\ s \notin Registered
  /\ \E i \in Slots : FreeSlot(i) /\ entries' = [entries EXCEPT ![i] = s]
  /\ UNCHANGED <<handlers, level, inPump, stack, firedAt>>

FirstSlotOf(s, i) ==
  /\ entries[i] = s
  /\ \A j \in Slots : entries[j] = s => i <= j

\* Mutant: the table is compacted, which moves services under a running pass.
UnregisterCompacting(s) ==
  /\ SketchRuns
  /\ \E i \in Slots :
       /\ FirstSlotOf(s, i)
       /\ entries' = [j \in Slots |-> IF j < i THEN entries[j]
                                     ELSE IF j + 1 \in Slots THEN entries[j + 1]
                                     ELSE NoService]
  /\ UNCHANGED <<handlers, level, inPump, stack, firedAt>>

UnregisterService(s) ==
  /\ SketchRuns
  /\ \E i \in Slots :
       FirstSlotOf(s, i) /\ entries' = [entries EXCEPT ![i] = NoService]
  /\ UNCHANGED <<handlers, level, inPump, stack, firedAt>>

-----------------------------------------------------------------------------
(* Pins and interrupt handlers.                                             *)

\* digitalReadValue(): by the test, by a handler, or by the injector thread,
\* so at any moment.
SetPin(p, v) ==
  /\ level[p] # v
  /\ level' = [level EXCEPT ![p] = v]
  /\ UNCHANGED <<entries, handlers, inPump, stack, firedAt>>

AttachInterrupt(p, m) ==
  /\ SketchRuns
  /\ handlers' = [handlers EXCEPT
                    ![p] = [enabled |-> TRUE, mode |-> m, last |-> level[p]]]
  /\ firedAt' = [firedAt EXCEPT ![p] = "never"]
  /\ UNCHANGED <<entries, level, inPump, stack>>

DetachInterrupt(p) ==
  /\ SketchRuns
  /\ handlers[p].enabled
  /\ handlers' = [handlers EXCEPT ![p].enabled = FALSE]
  /\ UNCHANGED <<entries, level, inPump, stack, firedAt>>

ShouldTrigger(mode, last, now) ==
  \/ mode = "CHANGE"  /\ now # last
  \/ mode = "RISING"  /\ last = "LOW" /\ now = "HIGH"
  \/ mode = "FALLING" /\ last = "HIGH" /\ now = "LOW"
  \/ mode = "ONLOW"   /\ now = "LOW"
  \/ mode = "ONHIGH"  /\ now = "HIGH"

-----------------------------------------------------------------------------
(* Calls into the polling loops.                                            *)

\* Mutant: no re-entry guard.
CallPumpUnguarded ==
  /\ SketchRuns
  /\ inPump' = TRUE
  /\ stack' = Append(stack, NewFrame("pumpScan", 0))
  /\ UNCHANGED <<entries, handlers, level, firedAt>>

\* yield(), or one turn of a delay(): a nested call returns at the guard.
CallPump ==
  /\ SketchRuns
  /\ ~inPump
  /\ inPump' = TRUE
  /\ stack' = Append(stack, NewFrame("pumpScan", 0))
  /\ UNCHANGED <<entries, handlers, level, firedAt>>

CallCheckInterrupts ==
  /\ "check" \in DirectCalls
  /\ stack = <<>>
  /\ stack' = Append(stack, NewFrame("scan", 0))
  /\ UNCHANGED <<entries, handlers, level, inPump, firedAt>>

CallTriggerInterrupt(p) ==
  /\ "trigger" \in DirectCalls
  /\ stack = <<>>
  /\ handlers[p].enabled
  /\ stack' = Append(stack, NewFrame("handler", p))
  /\ UNCHANGED <<entries, handlers, level, inPump, firedAt>>

-----------------------------------------------------------------------------
(* checkInterrupts(): one pin per turn.                                     *)

Scanning == Running(ScanKinds) /\ Top.at \in Pins

NextPin == [stack EXCEPT ![Len(stack)].at = @ + 1]

ScanDisabled ==
  /\ Scanning
  /\ ~handlers[Top.at].enabled
  /\ stack' = NextPin
  /\ UNCHANGED <<entries, handlers, level, inPump, firedAt>>

ScanQuiet ==
  /\ Scanning
  /\ LET p == Top.at IN
       /\ handlers[p].enabled
       /\ ~ShouldTrigger(handlers[p].mode, handlers[p].last, level[p])
       /\ handlers' = [handlers EXCEPT ![p].last = level[p]]
       /\ firedAt' = IF level[p] = firedAt[p]
                       THEN firedAt
                       ELSE [firedAt EXCEPT ![p] = "never"]
  /\ stack' = NextPin
  /\ UNCHANGED <<entries, level, inPump>>

\* The handler is called before lastPinState is updated.
ScanTriggered ==
  /\ Scanning
  /\ LET p == Top.at IN
       /\ handlers[p].enabled
       /\ ShouldTrigger(handlers[p].mode, handlers[p].last, level[p])
       /\ stack' = Append([stack EXCEPT ![Len(stack)].seen = level[p]],
                          NewFrame("handler", p))
       /\ firedAt' = [firedAt EXCEPT ![p] = level[p]]
  /\ UNCHANGED <<entries, handlers, level, inPump>>

\* Mutant: the loop stops one pin early.
ScanEndEarly ==
  /\ Running(ScanKinds)
  /\ Top.at + 1 >= NumPins
  /\ stack' = IF Top.kind = "scan"
                THEN Caller
                ELSE Append(Caller, NewFrame("services", 0))
  /\ UNCHANGED <<entries, handlers, level, inPump, firedAt>>

ScanEnd ==
  /\ Running(ScanKinds)
  /\ Top.at = NumPins
  /\ stack' = IF Top.kind = "scan"
                THEN Caller
                ELSE Append(Caller, NewFrame("services", 0))
  /\ UNCHANGED <<entries, handlers, level, inPump, firedAt>>

-----------------------------------------------------------------------------
(* serviceYieldCallbacks(): the next occupied slot, read when it is reached.*)

\* Mutant: the index is advanced before the slot is read.
NextOccupiedAfter(from, i) ==
  /\ i > from
  /\ entries[i] # NoService
  /\ \A j \in Slots : j > from /\ entries[j] # NoService => i <= j

NextOccupied(from, i) ==
  /\ i >= from
  /\ entries[i] # NoService
  /\ \A j \in Slots : j >= from /\ entries[j] # NoService => i <= j

CallService ==
  /\ Running({"services"})
  /\ \E i \in Slots :
       /\ NextOccupied(Top.at, i)
       /\ stack' = Append([stack EXCEPT ![Len(stack)].at = i + 1],
                          NewFrame("callback", i))
  /\ UNCHANGED <<entries, handlers, level, inPump, firedAt>>

PumpEnd ==
  /\ Running({"services"})
  /\ \A j \in Slots : j >= Top.at => entries[j] = NoService
  /\ stack' = Caller
  /\ inPump' = FALSE
  /\ UNCHANGED <<entries, handlers, level, firedAt>>

-----------------------------------------------------------------------------
(* A handler or a callback returns; a scan that called it then stores the   *)
(* level it had read before the call and goes on with the next pin.         *)

\* Mutant: lastPinState is updated only when the handler did not run.
ReturnWithoutStore ==
  /\ Running({"handler"})
  /\ Len(stack) > 1
  /\ Caller[Len(Caller)].kind \in ScanKinds
  /\ stack' = [Caller EXCEPT ![Len(Caller)].at = @ + 1]
  /\ UNCHANGED <<entries, handlers, level, inPump, firedAt>>

ReturnToScan ==
  /\ Running({"handler"})
  /\ Len(stack) > 1
  /\ LET scan == Caller[Len(Caller)] IN
       /\ scan.kind \in ScanKinds
       /\ handlers' = [handlers EXCEPT ![scan.at].last = scan.seen]
       /\ stack' = [Caller EXCEPT ![Len(Caller)].at = @ + 1]
  /\ UNCHANGED <<entries, level, inPump, firedAt>>

ReturnToOther ==
  /\ Running(SketchKinds)
  /\ Len(stack) > 1 => Caller[Len(Caller)].kind \notin ScanKinds
  /\ stack' = Caller
  /\ UNCHANGED <<entries, handlers, level, inPump, firedAt>>

-----------------------------------------------------------------------------

Sketch ==
  \/ \E s \in Services : RegisterService(s) \/ UnregisterService(s)
  \/ \E p \in Pins, m \in Modes : AttachInterrupt(p, m)
  \/ \E p \in Pins : DetachInterrupt(p) \/ CallTriggerInterrupt(p)
  \/ CallPump
  \/ CallCheckInterrupts

Poll ==
  \/ ScanDisabled \/ ScanQuiet \/ ScanTriggered \/ ScanEnd
  \/ CallService \/ PumpEnd
  \/ ReturnToScan \/ ReturnToOther

Next ==
  \/ Sketch
  \/ Poll
  \/ \E p \in Pins, v \in Levels : SetPin(p, v)

Spec == Init /\ [][Next]_vars

\* main() calls yield() after every loop(), and the sketch's loop(), handlers
\* and callbacks are assumed to return.
LoopYields == stack = <<>> /\ CallPump

Fairness == SF_vars(LoopYields) /\ WF_vars(Poll)

FairSpec == Spec /\ Fairness

-----------------------------------------------------------------------------

\* The type of the state.
TypeOK ==
  /\ entries \in [Slots -> Services \cup {NoService}]
  /\ handlers \in [Pins -> [enabled : BOOLEAN, mode : Modes \cup {"none"},
                             last : Levels]]
  /\ level \in [Pins -> Levels]
  /\ inPump \in BOOLEAN
  /\ stack \in Seq(Frame)
  /\ firedAt \in [Pins -> Levels \cup {"never"}]

\* However registrations and unregistrations are interleaved with running
\* passes, a (callback, context) pair occupies at most one slot: otherwise one
\* unregister would leave a dangling second copy behind.
NoDuplicateService ==
  \A i, j \in Slots : entries[i] # NoService /\ entries[i] = entries[j] => i = j

\* "Guarded against re-entry": pump() is active at most once on the call stack,
\* whatever handlers and callbacks call, and the guard is set exactly then.
PumpNotReentered ==
  /\ \A k, n \in 1 .. Len(stack) :
       stack[k].kind \in PumpKinds /\ stack[n].kind \in PumpKinds => k = n
  /\ inPump <=> \E k \in 1 .. Len(stack) : stack[k].kind \in PumpKinds

\* Even when loop() calls checkInterrupts() or triggerInterrupt() itself, where
\* the guard is not held, handlers that call delay() nest the loops only once:
\* the stack does not grow without bound.
NestingBounded == Len(stack) <= 4

\* No interrupt handler is entered again before it has returned ("an interrupt
\* handler which itself calls delay() cannot recurse").
HandlerNotReentered ==
  \A k, n \in 1 .. Len(stack) :
    /\ stack[k].kind = "handler"
    /\ stack[n].kind = "handler"
    /\ stack[k].at = stack[n].at
    => k = n

\* An edge is reported once: a scan runs the handler of an edge-triggered
\* interrupt at a level only if it sampled the other level, or the handler was
\* attached again, since it last ran it at that level.
EdgeFiresOnce ==
  [][\A p \in Pins :
       /\ ScanTriggered
       /\ Top.at = p
       /\ handlers[p].mode \in {"CHANGE", "RISING", "FALLING"}
       => firedAt[p] # level[p]]_vars

\* A level change seen by a CHANGE interrupt does not stay pending for ever: as
\* long as loop() keeps returning, some scan reports it (or it is undone).
EdgePending(p) ==
  /\ handlers[p].enabled
  /\ handlers[p].mode = "CHANGE"
  /\ handlers[p].last # level[p]

EdgeReported == \A p \in Pins : EdgePending(p) ~> ~EdgePending(p)

\* A service that stays registered is called again and again, wherever it is in
\* the table and whatever the other callbacks do to the table.
ServiceCalled ==
  \A s \in Services :
    s \in Registered ~> \/ s \notin Registered
                        \/ Running({"callback"}) /\ entries[Top.at] = s

-----------------------------------------------------------------------------
(* What the table promises to its users: see YieldServices.                 *)

Passing == \E k \in 1 .. Len(stack) : stack[k].kind = "services"

Reached(j) ==
  \E k \in 1 .. Len(stack) : stack[k].kind = "services" /\ stack[k].at <= j

Pending == {entries[i] : i \in {j \in Slots : Reached(j)}} \ {NoService}

Promise == INSTANCE YieldServices WITH
  registered <- Registered, pending <- Pending, passing <- Passing

\* However callbacks register and unregister services while a pass runs, a pass
\* calls each service that stays registered exactly once, and none that has been
\* unregistered.
ImplementsYieldServices == Promise!Spec
=============================================================================
