------------------------------ MODULE PumpProofs ------------------------------
(***************************************************************************)
(* Proofs about Pump, for any size of the service table, any number of     *)
(* pins and any use that handlers and callbacks make of the library.       *)
(***************************************************************************)
EXTENDS Pump, SequenceTheorems, FiniteSetTheorems, TLAPS

-----------------------------------------------------------------------------
(* Call stacks: what a call, a return and a change of the innermost          *)
(* activation do to them.                                                    *)

LEMMA Pushed ==
  ASSUME NEW s \in Seq(Frame), NEW f \in Frame
  PROVE  /\ Append(s, f) \in Seq(Frame)
         /\ Len(Append(s, f)) = Len(s) + 1
         /\ \A k \in 1 .. Len(s) : Append(s, f)[k] = s[k]
         /\ Append(s, f)[Len(s) + 1] = f
  BY AppendProperties

LEMMA Popped ==
  ASSUME NEW s \in Seq(Frame), s # <<>>
  PROVE  /\ SubSeq(s, 1, Len(s) - 1) \in Seq(Frame)
         /\ Len(s) \in Nat \ {0}
         /\ Len(SubSeq(s, 1, Len(s) - 1)) = Len(s) - 1
         /\ \A k \in 1 .. Len(s) - 1 : SubSeq(s, 1, Len(s) - 1)[k] = s[k]
<1>1. Len(s) \in Nat \ {0}
  BY EmptySeq
<1>2. \A k \in 1 .. Len(s) - 1 : s[k] \in Frame
  BY <1>1, ElementOfSeq
<1> DEFINE n == Len(s) - 1
<1>3. n \in Nat
  BY <1>1
<1> HIDE DEF n
<1>4. /\ SubSeq(s, 1, n) \in Seq(Frame)
      /\ Len(SubSeq(s, 1, n)) = IF 1 <= n THEN n - 1 + 1 ELSE 0
      /\ \A k \in 1 .. n - 1 + 1 : SubSeq(s, 1, n)[k] = s[1 + k - 1]
  <2>1. 1 \in Int /\ n \in Int /\ \A k \in 1 .. n : s[k] \in Frame
    BY <1>2, <1>3 DEF n
  <2> QED
    BY <2>1, SubSeqProperties
<1>5. Len(SubSeq(s, 1, n)) = n
  BY <1>3, <1>4
<1>6. \A k \in 1 .. n : SubSeq(s, 1, n)[k] = s[k]
  BY <1>3, <1>4
<1> QED
  BY <1>1, <1>4, <1>5, <1>6 DEF n

LEMMA Replaced ==
  ASSUME NEW s \in Seq(Frame), s # <<>>, NEW f \in Frame
  PROVE  /\ [s EXCEPT ![Len(s)] = f] \in Seq(Frame)
         /\ Len(s) \in Nat \ {0}
         /\ Len([s EXCEPT ![Len(s)] = f]) = Len(s)
         /\ \A k \in 1 .. Len(s) - 1 : [s EXCEPT ![Len(s)] = f][k] = s[k]
         /\ [s EXCEPT ![Len(s)] = f][Len(s)] = f
  BY EmptySeq, ExceptSeq

LEMMA TopIsFrame ==
  ASSUME NEW s \in Seq(Frame), s # <<>>
  PROVE  Len(s) \in Nat \ {0} /\ s[Len(s)] \in Frame
  BY EmptySeq, ElementOfSeq

-----------------------------------------------------------------------------
(* What each action does to the kinds of the activations and to the slot     *)
(* that a pass has reached, and that it leaves a stack behind.               *)

SameKinds(n) == \A k \in 1 .. n : stack'[k].kind = stack[k].kind

SameSlots(n) ==
  \A k \in 1 .. n : stack[k].kind = "services" => stack'[k].at = stack[k].at

Stays ==
  /\ stack' \in Seq(Frame)
  /\ Len(stack') = Len(stack)
  /\ SameKinds(Len(stack)) /\ SameSlots(Len(stack))

Calls(kind) ==
  /\ stack' \in Seq(Frame)
  /\ Len(stack') = Len(stack) + 1
  /\ SameKinds(Len(stack))
  /\ kind # "callback" => SameSlots(Len(stack))
  /\ stack'[Len(stack) + 1].kind = kind

Returns ==
  /\ stack' \in Seq(Frame)
  /\ Len(stack') = Len(stack) - 1
  /\ SameKinds(Len(stack) - 1) /\ SameSlots(Len(stack) - 1)

TurnsToServices ==
  /\ stack' \in Seq(Frame)
  /\ Len(stack') = Len(stack)
  /\ SameKinds(Len(stack) - 1)
  /\ stack'[Len(stack)].kind = "services" /\ stack'[Len(stack)].at = 0

LEMMA NewFrameType ==
  ASSUME NEW kind \in ScanKinds \cup PumpKinds \cup SketchKinds, NEW at \in Nat
  PROVE  /\ NewFrame(kind, at) \in Frame
         /\ NewFrame(kind, at).kind = kind /\ NewFrame(kind, at).at = at
  BY DEF NewFrame, Frame, Levels

LEMMA NextPinStays ==
  ASSUME stack \in Seq(Frame), Running(ScanKinds), stack' = NextPin
  PROVE  Stays
<1> DEFINE f == [Top EXCEPT !.at = Top.at + 1]
<1>1. /\ Len(stack) \in Nat \ {0} /\ Top \in Frame
      /\ stack # <<>> /\ Top.kind # "services"
  BY TopIsFrame DEF Top, Running, ScanKinds
<1>2. f \in Frame /\ f.kind = Top.kind
  BY <1>1 DEF Frame
<1>3. stack' = [stack EXCEPT ![Len(stack)] = f]
  BY DEF NextPin, Top
<1> HIDE DEF f
<1>4. \A k \in 1 .. Len(stack) : k # Len(stack) => k \in 1 .. Len(stack) - 1
  BY <1>1
<1> QED
  BY <1>1, <1>2, <1>3, <1>4, Replaced DEF Stays, SameKinds, SameSlots, Top

\* A loop that notes where it is and calls out.
LEMMA CallOut ==
  ASSUME stack \in Seq(Frame), stack # <<>>,
         NEW f \in Frame, f.kind = Top.kind, NEW g \in Frame,
         g.kind = "callback" \/ Top.kind # "services",
         stack' = Append([stack EXCEPT ![Len(stack)] = f], g)
  PROVE  Calls(g.kind)
<1> DEFINE s == [stack EXCEPT ![Len(stack)] = f]
<1>1. /\ s \in Seq(Frame) /\ Len(s) = Len(stack) /\ Len(stack) \in Nat \ {0}
      /\ \A k \in 1 .. Len(stack) : s[k].kind = stack[k].kind
      /\ \A k \in 1 .. Len(stack) - 1 : s[k] = stack[k]
  <2>1. \A k \in 1 .. Len(stack) : k # Len(stack) => k \in 1 .. Len(stack) - 1
    BY TopIsFrame
  <2> QED
    BY <2>1, Replaced DEF Top
<1>2. stack' = Append(s, g)
  OBVIOUS
<1> HIDE DEF s
<1>3. \A k \in 1 .. Len(stack) : k # Len(stack) => k \in 1 .. Len(stack) - 1
  BY <1>1
<1> QED
  BY <1>1, <1>2, <1>3, Pushed DEF Calls, SameKinds, SameSlots, Top

LEMMA ScanTriggeredCalls ==
  ASSUME TypeOK, ScanTriggered PROVE Calls("handler")
<1> DEFINE f == [Top EXCEPT !.seen = level[Top.at]]
           g == NewFrame("handler", Top.at)
<1>1. /\ stack \in Seq(Frame) /\ stack # <<>>
      /\ Top.at \in Pins /\ Top.kind # "services"
  BY DEF TypeOK, ScanTriggered, Scanning, Running, ScanKinds
<1>2. f \in Frame /\ f.kind = Top.kind
  BY <1>1, TopIsFrame DEF Top, Frame, TypeOK
<1>3. g \in Frame /\ g.kind = "handler"
  <2>1. Top.at \in Nat
    BY <1>1, NumPinsAssumption DEF Pins
  <2> QED
    BY <2>1, NewFrameType DEF SketchKinds
<1>4. stack' = Append([stack EXCEPT ![Len(stack)] = f], g)
  BY DEF ScanTriggered, Top
<1> HIDE DEF f, g
<1> QED
  BY <1>1, <1>2, <1>3, <1>4, CallOut

LEMMA CallServiceCalls ==
  ASSUME TypeOK, CallService PROVE Calls("callback")
<1>1. PICK i \in Slots :
        stack' = Append([stack EXCEPT ![Len(stack)].at = i + 1], NewFrame("callback", i))
  BY DEF CallService
<1> DEFINE f == [Top EXCEPT !.at = i + 1]
           g == NewFrame("callback", i)
<1>2. stack \in Seq(Frame) /\ stack # <<>> /\ i \in Nat
  BY NumSlotsAssumption DEF TypeOK, CallService, Running, Slots
<1>3. f \in Frame /\ f.kind = Top.kind
  <2>1. Top \in Frame /\ i + 1 \in Nat
    BY <1>2, TopIsFrame DEF Top
  <2> QED
    BY <2>1 DEF Frame
<1>4. g \in Frame /\ g.kind = "callback"
  BY <1>2, NewFrameType DEF SketchKinds
<1>5. stack' = Append([stack EXCEPT ![Len(stack)] = f], g)
  BY <1>1 DEF Top
<1> HIDE DEF f, g
<1> QED
  BY <1>2, <1>3, <1>4, <1>5, CallOut

LEMMA CallerReturns ==
  ASSUME stack \in Seq(Frame), stack # <<>>, stack' = Caller
  PROVE  Returns
  BY Popped DEF Returns, SameKinds, SameSlots, Caller

LEMMA ReturnToScanReturns ==
  ASSUME TypeOK, ReturnToScan PROVE Returns
<1>1. /\ stack \in Seq(Frame) /\ stack # <<>> /\ Len(stack) \in Nat /\ Len(stack) > 1
      /\ Caller[Len(Caller)].kind # "services"
      /\ stack' = [Caller EXCEPT ![Len(Caller)].at = @ + 1]
  BY TopIsFrame DEF TypeOK, ReturnToScan, Running, ScanKinds
<1>2. /\ Caller \in Seq(Frame) /\ Len(Caller) = Len(stack) - 1
      /\ \A k \in 1 .. Len(stack) - 1 : Caller[k] = stack[k]
  BY <1>1, Popped DEF Caller
<1>3. Caller # <<>>
  BY <1>1, <1>2, EmptySeq
<1> DEFINE f == [Caller[Len(Caller)] EXCEPT !.at = @ + 1]
<1>4. f \in Frame /\ f.kind = Caller[Len(Caller)].kind
  <2>1. Caller[Len(Caller)] \in Frame
    BY <1>2, <1>3, TopIsFrame
  <2> QED
    BY <2>1 DEF Frame
<1>5. stack' = [Caller EXCEPT ![Len(Caller)] = f]
  BY <1>1
<1> HIDE DEF f
<1>6. \A k \in 1 .. Len(Caller) : k # Len(Caller) => k \in 1 .. Len(Caller) - 1
  BY <1>2, <1>1
<1> QED
  BY <1>1, <1>2, <1>3, <1>4, <1>5, <1>6, Replaced DEF Returns, SameKinds, SameSlots

LEMMA ScanEndStack ==
  ASSUME TypeOK, ScanEnd
  PROVE  \/ Top.kind = "scan" /\ Returns
         \/ Top.kind = "pumpScan" /\ TurnsToServices
<1>1. stack \in Seq(Frame) /\ stack # <<>> /\ Top.kind \in ScanKinds
  BY DEF TypeOK, ScanEnd, Running
<1>2. CASE Top.kind = "scan"
  BY <1>1, <1>2, CallerReturns DEF ScanEnd
<1>3. CASE Top.kind = "pumpScan"
  <2>1. stack' = Append(Caller, NewFrame("services", 0))
    BY <1>3 DEF ScanEnd
  <2>2. /\ Caller \in Seq(Frame) /\ Len(Caller) = Len(stack) - 1
        /\ Len(stack) \in Nat \ {0}
        /\ \A k \in 1 .. Len(stack) - 1 : Caller[k] = stack[k]
    BY <1>1, Popped DEF Caller
  <2>3. /\ NewFrame("services", 0) \in Frame
        /\ NewFrame("services", 0).kind = "services" /\ NewFrame("services", 0).at = 0
    BY NewFrameType DEF PumpKinds
  <2> QED
    BY <1>3, <2>1, <2>2, <2>3, Pushed DEF TurnsToServices, SameKinds
<1> QED
  BY <1>1, <1>2, <1>3 DEF ScanKinds
\* Every step leaves the kinds of the activations alone but for one call, one
\* return, or pump() going on to its second half.
StackMoves ==
  \/ Stays /\ inPump' = inPump
  \/ ~inPump /\ SketchRuns /\ inPump' /\ Calls("pumpScan")
  \/ inPump' = inPump /\ stack = <<>> /\ DirectCalls # {}
     /\ (Calls("scan") \/ Calls("handler"))
  \/ inPump' = inPump /\ Running(ScanKinds) /\ Calls("handler")
  \/ inPump' = inPump /\ Running({"services"}) /\ Calls("callback")
  \/ inPump' = inPump /\ Running({"pumpScan"}) /\ TurnsToServices
  \/ ~inPump' /\ Running({"services"}) /\ Returns
  \/ inPump' = inPump /\ Running({"scan"} \cup SketchKinds) /\ Returns

LEMMA StepMovesStack == TypeOK /\ [Next]_vars => StackMoves
<1> SUFFICES ASSUME TypeOK, [Next]_vars PROVE StackMoves
  OBVIOUS
<1>1. stack \in Seq(Frame)
  BY DEF TypeOK
<1>2. ASSUME UNCHANGED <<inPump, stack>> PROVE StackMoves
  BY <1>1, <1>2 DEF StackMoves, Stays, SameKinds, SameSlots
<1>3. ASSUME NEW kind \in ScanKinds \cup PumpKinds \cup SketchKinds, NEW at \in Nat,
             stack' = Append(stack, NewFrame(kind, at))
      PROVE  Calls(kind)
  <2>1. NewFrame(kind, at) \in Frame /\ NewFrame(kind, at).kind = kind
    BY NewFrameType
  <2> QED
    BY <1>1, <1>3, <2>1, Pushed DEF Calls, SameKinds, SameSlots
<1>4. CASE Sketch
  <2>1. CASE \E x \in Services : RegisterService(x) \/ UnregisterService(x)
    BY <1>2, <2>1 DEF RegisterService, UnregisterService
  <2>2. CASE \E q \in Pins, m \in Modes : AttachInterrupt(q, m)
    BY <1>2, <2>2 DEF AttachInterrupt
  <2>3. CASE \E q \in Pins : DetachInterrupt(q)
    BY <1>2, <2>3 DEF DetachInterrupt
  <2>4. ASSUME NEW q \in Pins, CallTriggerInterrupt(q) PROVE StackMoves
    <3>1. q \in Nat
      BY NumPinsAssumption DEF Pins
    <3>2. Calls("handler")
      BY <1>3, <2>4, <3>1 DEF CallTriggerInterrupt, SketchKinds
    <3> QED
      BY <2>4, <3>2 DEF CallTriggerInterrupt, StackMoves
  <2>5. CASE CallPump
    <3>1. Calls("pumpScan")
      BY <1>3, <2>5 DEF CallPump, PumpKinds
    <3> QED
      BY <2>5, <3>1 DEF CallPump, StackMoves
  <2>6. CASE CallCheckInterrupts
    <3>1. Calls("scan")
      BY <1>3, <2>6 DEF CallCheckInterrupts, ScanKinds
    <3> QED
      BY <2>6, <3>1 DEF CallCheckInterrupts, StackMoves
  <2> QED
    BY <1>4, <2>1, <2>2, <2>3, <2>4, <2>5, <2>6 DEF Sketch
<1>5. CASE Poll
  <2>1. CASE ScanDisabled \/ ScanQuiet
    BY <1>1, <2>1, NextPinStays DEF ScanDisabled, ScanQuiet, Scanning, StackMoves
  <2>2. CASE ScanTriggered
    BY <2>2, ScanTriggeredCalls DEF ScanTriggered, Scanning, StackMoves
  <2>3. CASE ScanEnd
    BY <2>3, ScanEndStack DEF ScanEnd, Running, StackMoves
  <2>4. CASE CallService
    BY <2>4, CallServiceCalls DEF CallService, StackMoves
  <2>5. CASE PumpEnd
    BY <1>1, <2>5, CallerReturns DEF PumpEnd, Running, StackMoves
  <2>6. CASE ReturnToScan
    BY <2>6, ReturnToScanReturns DEF ReturnToScan, Running, SketchKinds, StackMoves
  <2>7. CASE ReturnToOther
    BY <1>1, <2>7, CallerReturns DEF ReturnToOther, Running, StackMoves
  <2> QED
    BY <1>5, <2>1, <2>2, <2>3, <2>4, <2>5, <2>6, <2>7 DEF Poll
<1>6. CASE \E q \in Pins, v \in Levels : SetPin(q, v)
  BY <1>2, <1>6 DEF SetPin
<1>7. CASE UNCHANGED vars
  BY <1>2, <1>7 DEF vars
<1> QED
  BY <1>4, <1>5, <1>6, <1>7 DEF Next
\* The state keeps its types: registrations stay inside the table, and pins inside
\* interruptHandlers.
THEOREM TypeCorrect == Spec => []TypeOK
<1>1. Init => TypeOK
  <2> SUFFICES ASSUME Init PROVE TypeOK
    OBVIOUS
  <2>1. stack \in Seq(Frame)
    BY EmptySeq DEF Init
  <2>2. inPump \in BOOLEAN
    BY DEF Init
  <2>3. handlers \in [Pins -> [enabled : BOOLEAN, mode : Modes \cup {"none"},
                               last : Levels]]
    BY DEF Init, Levels
  <2>4. /\ entries \in [Slots -> Services \cup {NoService}]
        /\ level \in [Pins -> Levels]
        /\ firedAt \in [Pins -> Levels \cup {"never"}]
    BY DEF Init, Levels
  <2> QED
    BY <2>1, <2>2, <2>3, <2>4 DEF TypeOK
<1>2. TypeOK /\ [Next]_vars => TypeOK'
  <2> SUFFICES ASSUME TypeOK, [Next]_vars PROVE TypeOK'
    OBVIOUS
  <2>1. stack' \in Seq(Frame)
    BY StepMovesStack DEF StackMoves, Stays, Calls, Returns, TurnsToServices
  <2> HIDE DEF Frame
  <2> DEFINE Rest == /\ entries' \in [Slots -> Services \cup {NoService}]
                     /\ handlers' \in [Pins -> [enabled : BOOLEAN,
                                        mode : Modes \cup {"none"}, last : Levels]]
                     /\ level' \in [Pins -> Levels]
                     /\ inPump' \in BOOLEAN
                     /\ firedAt' \in [Pins -> Levels \cup {"never"}]
  <2> SUFFICES Rest
    BY <2>1 DEF TypeOK
  <2> USE DEF TypeOK
  <2>2. CASE Sketch
    <3>1. ASSUME NEW x \in Services, RegisterService(x) PROVE Rest
      BY <3>1 DEF RegisterService
    <3>2. ASSUME NEW x \in Services, UnregisterService(x) PROVE Rest
      BY <3>2 DEF UnregisterService
    <3>3. ASSUME NEW q \in Pins, NEW m \in Modes, AttachInterrupt(q, m) PROVE Rest
      BY <3>3 DEF AttachInterrupt
    <3>4. ASSUME NEW q \in Pins, DetachInterrupt(q) PROVE Rest
      BY <3>4 DEF DetachInterrupt
    <3>5. ASSUME NEW q \in Pins, CallTriggerInterrupt(q) PROVE Rest
      BY <3>5 DEF CallTriggerInterrupt
    <3>6. CASE CallPump
      BY <3>6 DEF CallPump
    <3>7. CASE CallCheckInterrupts
      BY <3>7 DEF CallCheckInterrupts
    <3> QED
      BY <2>2, <3>1, <3>2, <3>3, <3>4, <3>5, <3>6, <3>7 DEF Sketch
  <2>3. CASE Poll
    <3>1. CASE ScanDisabled
      BY <3>1 DEF ScanDisabled
    <3>2. CASE ScanQuiet
      BY <3>2 DEF ScanQuiet, Scanning
    <3>3. CASE ScanTriggered
      BY <3>3 DEF ScanTriggered, Scanning
    <3>4. CASE ScanEnd
      BY <3>4 DEF ScanEnd
    <3>5. CASE CallService
      BY <3>5 DEF CallService
    <3>6. CASE PumpEnd
      BY <3>6 DEF PumpEnd
    <3>7. CASE ReturnToScan
      <4>1. Caller \in Seq(Frame) /\ Caller # <<>>
        <5>1. stack \in Seq(Frame) /\ stack # <<>> /\ Len(stack) > 1
          BY <3>7 DEF ReturnToScan, Running
        <5>2. Caller \in Seq(Frame) /\ Len(Caller) = Len(stack) - 1
              /\ Len(stack) \in Nat
          BY <5>1, Popped DEF Caller
        <5>3. Len(<<>>) = 0
          OBVIOUS
        <5> QED
          BY <5>1, <5>2, <5>3
      <4>2. Caller[Len(Caller)].seen \in Levels
        BY <4>1, TopIsFrame DEF Frame
      <4> QED
        BY <3>7, <4>2 DEF ReturnToScan
    <3>8. CASE ReturnToOther
      BY <3>8 DEF ReturnToOther
    <3> QED
      BY <2>3, <3>1, <3>2, <3>3, <3>4, <3>5, <3>6, <3>7, <3>8 DEF Poll
  <2>4. ASSUME NEW q \in Pins, NEW v \in Levels, SetPin(q, v) PROVE Rest
    BY <2>4 DEF SetPin
  <2>5. CASE UNCHANGED vars
    BY <2>5 DEF vars
  <2> QED
    BY <2>2, <2>3, <2>4, <2>5 DEF Next
<1> QED
  BY <1>1, <1>2, PTL DEF Spec

\* No service is registered twice, whatever is registered and unregistered while
\* a pass over the table is going on.
THEOREM ServicesUnique == Spec => []NoDuplicateService
<1>1. Init => NoDuplicateService
  BY DEF Init, NoDuplicateService
<1>2. TypeOK /\ NoDuplicateService /\ [Next]_vars => NoDuplicateService'
  <2> SUFFICES ASSUME TypeOK, NoDuplicateService, [Next]_vars
               PROVE  NoDuplicateService'
    OBVIOUS
  <2>1. ASSUME NEW x \in Services, RegisterService(x) PROVE NoDuplicateService'
    <3>1. PICK i \in Slots : entries' = [entries EXCEPT ![i] = x]
      BY <2>1 DEF RegisterService
    <3>2. \A j \in Slots : entries[j] # x
      BY <2>1, ServicesAssumption DEF RegisterService, Registered
    <3> QED
      BY <3>1, <3>2 DEF NoDuplicateService, TypeOK
  <2>2. ASSUME NEW x \in Services, UnregisterService(x) PROVE NoDuplicateService'
    BY <2>2 DEF UnregisterService, NoDuplicateService, TypeOK
  <2>3. CASE UNCHANGED entries
    BY <2>3 DEF NoDuplicateService
  <2> QED
    BY <2>1, <2>2, <2>3
       DEF Next, Sketch, Poll, vars, AttachInterrupt, DetachInterrupt,
           CallTriggerInterrupt, CallPump, CallCheckInterrupts, ScanDisabled,
           ScanQuiet, ScanTriggered, ScanEnd, CallService, PumpEnd, ReturnToScan,
           ReturnToOther, SetPin
<1> QED
  BY <1>1, <1>2, TypeCorrect, PTL DEF Spec
-----------------------------------------------------------------------------
(* The shape of the call stack: loops and sketch code alternate, a scan that *)
(* loop() started itself is at the bottom, and there is one pump() at most.  *)

LoopKinds == {"scan", "pumpScan", "services"}

StackShape ==
  /\ PumpNotReentered
  /\ \A k \in 1 .. Len(stack) - 1 :
       stack[k].kind \in SketchKinds <=> stack[k + 1].kind \in LoopKinds
  /\ \A k \in 2 .. Len(stack) : stack[k].kind # "scan"
  /\ DirectCalls = {} /\ stack # <<>> => stack[1].kind \in PumpKinds

LEMMA KindsKnown ==
  ASSUME TypeOK
  PROVE  /\ Len(stack) \in Nat
         /\ stack # <<>> <=> Len(stack) > 0
         /\ \A k \in 1 .. Len(stack) : stack[k].kind \in LoopKinds \cup SketchKinds
<1>1. stack \in Seq(Frame)
  BY DEF TypeOK
<1>2. \A k \in 1 .. Len(stack) : stack[k] \in Frame
  BY <1>1, ElementOfSeq
<1>3. Len(stack) \in Nat /\ (stack # <<>> <=> Len(stack) > 0)
  <2>1. Len(<<>>) = 0
    OBVIOUS
  <2> QED
    BY <1>1, <2>1, EmptySeq, LenProperties
<1> QED
  BY <1>2, <1>3 DEF Frame, LoopKinds, ScanKinds, PumpKinds

LEMMA ShapeStep ==
  ASSUME TypeOK, TypeOK', StackShape, StackMoves PROVE StackShape'
<1> DEFINE n == Len(stack)
<1>1. /\ n \in Nat /\ (stack # <<>> <=> n > 0)
      /\ \A k \in 1 .. n : stack[k].kind \in LoopKinds \cup SketchKinds
      /\ (stack' # <<>> <=> Len(stack') > 0)
      /\ inPump \in BOOLEAN /\ inPump' \in BOOLEAN
  <2>1. stack' # <<>> <=> Len(stack') > 0
    <3>1. stack' \in Seq(Frame) /\ Len(<<>>) = 0
      BY DEF TypeOK
    <3> QED
      BY <3>1, EmptySeq
  <2> QED
    BY <2>1, KindsKnown DEF TypeOK
<1> USE <1>1 DEF StackShape, PumpNotReentered, SameKinds, LoopKinds, ScanKinds,
                 PumpKinds, SketchKinds, Running, SketchRuns, Top
<1>2. CASE Stays /\ inPump' = inPump
  <2>1. \A k \in 1 .. Len(stack') : stack'[k].kind \in PumpKinds
          => k \in 1 .. n /\ stack[k].kind \in PumpKinds
    BY <1>2 DEF Stays
  <2>2. \A k \in 1 .. n : stack[k].kind \in PumpKinds
          => k \in 1 .. Len(stack') /\ stack'[k].kind \in PumpKinds
    BY <1>2 DEF Stays
  <2>3. PumpNotReentered'
    BY <1>2, <2>1, <2>2
  <2> QED
    BY <1>2, <2>3 DEF Stays
<1>3. CASE ~inPump /\ SketchRuns /\ inPump' /\ Calls("pumpScan")
  BY <1>3 DEF Calls
<1>4. CASE /\ inPump' = inPump /\ stack = <<>> /\ DirectCalls # {}
           /\ (Calls("scan") \/ Calls("handler"))
  BY <1>4 DEF Calls
<1>5. CASE inPump' = inPump /\ Running(ScanKinds) /\ Calls("handler")
  <2>1. \A k \in 1 .. Len(stack') : stack'[k].kind \in PumpKinds
          => k \in 1 .. n /\ stack[k].kind \in PumpKinds
    BY <1>5 DEF Calls
  <2>2. \A k \in 1 .. n : stack[k].kind \in PumpKinds
          => k \in 1 .. Len(stack') /\ stack'[k].kind \in PumpKinds
    BY <1>5 DEF Calls
  <2>3. PumpNotReentered'
    BY <1>5, <2>1, <2>2
  <2>4. \A k \in 1 .. Len(stack') - 1 :
          stack'[k].kind \in SketchKinds <=> stack'[k + 1].kind \in LoopKinds
    BY <1>5 DEF Calls
  <2>5. \A k \in 2 .. Len(stack') : stack'[k].kind # "scan"
    BY <1>5 DEF Calls
  <2>6. DirectCalls = {} /\ stack' # <<>> => stack'[1].kind \in PumpKinds
    BY <1>5 DEF Calls
  <2> QED
    BY <2>3, <2>4, <2>5, <2>6
<1>6. CASE inPump' = inPump /\ Running({"services"}) /\ Calls("callback")
  <2>1. \A k \in 1 .. Len(stack') : stack'[k].kind \in PumpKinds
          => k \in 1 .. n /\ stack[k].kind \in PumpKinds
    BY <1>6 DEF Calls
  <2>2. \A k \in 1 .. n : stack[k].kind \in PumpKinds
          => k \in 1 .. Len(stack') /\ stack'[k].kind \in PumpKinds
    BY <1>6 DEF Calls
  <2>3. PumpNotReentered'
    BY <1>6, <2>1, <2>2
  <2>4. \A k \in 1 .. Len(stack') - 1 :
          stack'[k].kind \in SketchKinds <=> stack'[k + 1].kind \in LoopKinds
    BY <1>6 DEF Calls
  <2>5. \A k \in 2 .. Len(stack') : stack'[k].kind # "scan"
    BY <1>6 DEF Calls
  <2>6. DirectCalls = {} /\ stack' # <<>> => stack'[1].kind \in PumpKinds
    BY <1>6 DEF Calls
  <2> QED
    BY <2>3, <2>4, <2>5, <2>6
<1>7. CASE inPump' = inPump /\ Running({"pumpScan"}) /\ TurnsToServices
  BY <1>7 DEF TurnsToServices
<1>8. CASE ~inPump' /\ Running({"services"}) /\ Returns
  BY <1>8 DEF Returns
<1>9. CASE inPump' = inPump /\ Running({"scan"} \cup SketchKinds) /\ Returns
  <2>1. \A k \in 1 .. Len(stack') : stack'[k].kind \in PumpKinds
          => k \in 1 .. n /\ stack[k].kind \in PumpKinds
    BY <1>9 DEF Returns
  <2>2. \A k \in 1 .. n : stack[k].kind \in PumpKinds
          => k \in 1 .. Len(stack') /\ stack'[k].kind \in PumpKinds
    BY <1>9 DEF Returns
  <2>3. PumpNotReentered'
    BY <1>9, <2>1, <2>2
  <2>4. \A k \in 1 .. Len(stack') - 1 :
          stack'[k].kind \in SketchKinds <=> stack'[k + 1].kind \in LoopKinds
    BY <1>9 DEF Returns
  <2>5. \A k \in 2 .. Len(stack') : stack'[k].kind # "scan"
    BY <1>9 DEF Returns
  <2>6. DirectCalls = {} /\ stack' # <<>> => stack'[1].kind \in PumpKinds
    BY <1>9 DEF Returns
  <2> QED
    BY <2>3, <2>4, <2>5, <2>6
<1> QED
  BY <1>2, <1>3, <1>4, <1>5, <1>6, <1>7, <1>8, <1>9 DEF StackMoves

LEMMA ShapeKept == Spec => []StackShape
<1>1. Init => StackShape
  BY DEF Init, StackShape, PumpNotReentered
<1>2. TypeOK /\ TypeOK' /\ StackShape /\ [Next]_vars => StackShape'
  BY ShapeStep, StepMovesStack
<1> QED
  BY <1>1, <1>2, TypeCorrect, PTL DEF Spec

\* pump() is never re-entered, and its guard is set exactly while it runs.
THEOREM PumpGuarded == Spec => []PumpNotReentered
<1>1. StackShape => PumpNotReentered
  BY DEF StackShape
<1> QED
  BY <1>1, ShapeKept, PTL

\* Recursion through handlers and callbacks is bounded, by a scan that loop()
\* started, its handler, the one pump(), and what that calls.
THEOREM NestingIsBounded == Spec => []NestingBounded
<1>1. TypeOK /\ StackShape => NestingBounded
  <2> SUFFICES ASSUME TypeOK, StackShape, Len(stack) > 4 PROVE FALSE
    BY KindsKnown DEF NestingBounded
  <2>1. \A k \in 1 .. 5 : stack[k].kind \in LoopKinds \cup SketchKinds
    BY KindsKnown
  <2>2. \A k \in 2 .. 5 : stack[k].kind \in LoopKinds => stack[k].kind \in PumpKinds
    BY KindsKnown DEF StackShape, LoopKinds, PumpKinds
  <2>3. \A k \in 1 .. 4 : stack[k].kind \in SketchKinds <=> stack[k + 1].kind \in LoopKinds
    BY KindsKnown DEF StackShape
  <2>4. \A j, k \in 1 .. 5 :
          stack[j].kind \in PumpKinds /\ stack[k].kind \in PumpKinds => j = k
    BY KindsKnown DEF StackShape, PumpNotReentered
  <2>5. CASE stack[1].kind \in SketchKinds
    <3>1. stack[2].kind \in LoopKinds /\ stack[3].kind \notin LoopKinds
          /\ stack[4].kind \in LoopKinds
      BY <2>1, <2>3, <2>5 DEF LoopKinds, SketchKinds
    <3> QED
      BY <2>2, <2>4, <3>1
  <2>6. CASE stack[1].kind \notin SketchKinds
    <3>1. stack[2].kind \notin LoopKinds /\ stack[3].kind \in LoopKinds
          /\ stack[4].kind \notin LoopKinds /\ stack[5].kind \in LoopKinds
      BY <2>1, <2>3, <2>6 DEF LoopKinds, SketchKinds
    <3> QED
      BY <2>2, <2>4, <3>1
  <2> QED
    BY <2>5, <2>6
<1> QED
  BY <1>1, TypeCorrect, ShapeKept, PTL

\* In a program whose loop() leaves the scanning to yield() and delay(), no
\* interrupt handler runs while another one does.
THEOREM HandlersNotReentered ==
  ASSUME DirectCalls = {} PROVE Spec => []HandlerNotReentered
<1>1. TypeOK /\ StackShape => HandlerNotReentered
  <2> SUFFICES ASSUME TypeOK, StackShape,
                      NEW j \in 1 .. Len(stack), NEW k \in 1 .. Len(stack),
                      stack[j].kind = "handler", stack[k].kind = "handler", j < k
               PROVE  FALSE
    BY KindsKnown DEF HandlerNotReentered
  <2>1. stack[1].kind \in PumpKinds /\ j # 1 /\ j + 1 \in 2 .. Len(stack)
    BY KindsKnown DEF StackShape, PumpKinds
  <2>2. stack[j + 1].kind \in PumpKinds
    BY <2>1, KindsKnown DEF StackShape, LoopKinds, PumpKinds, SketchKinds
  <2> QED
    BY <2>1, <2>2, KindsKnown DEF StackShape, PumpNotReentered
<1> QED
  BY <1>1, TypeCorrect, ShapeKept, PTL
-----------------------------------------------------------------------------
(* Edges, in a program whose loop() leaves the scanning to yield() and       *)
(* delay().  A handler that ran at a level leaves that level in lastPinState *)
(* when the scan that called it goes on: until then the scan remembers it.   *)

LEMMA ShallowStack ==
  ASSUME DirectCalls = {}, TypeOK, StackShape
  PROVE  /\ Len(stack) \in 0 .. 2
         /\ Len(stack) > 0 => stack[1].kind \in PumpKinds
         /\ Len(stack) = 2 => stack[2].kind \in SketchKinds
<1>1. Len(stack) > 0 => stack[1].kind \in PumpKinds
  BY KindsKnown DEF StackShape
<1>2. Len(stack) > 1 => stack[2].kind \in SketchKinds
  <2>1. Len(stack) > 1 => stack[2].kind \notin LoopKinds
    BY <1>1, KindsKnown DEF StackShape, PumpKinds, SketchKinds
  <2> QED
    BY <2>1, KindsKnown
<1>3. Len(stack) > 2 => stack[3].kind \in PumpKinds
  BY <1>2, KindsKnown DEF StackShape, LoopKinds, PumpKinds
<1>4. ~(Len(stack) > 2)
  BY <1>1, <1>3, KindsKnown DEF StackShape, PumpNotReentered
<1>5. Len(stack) \in 0 .. 2
  <2> DEFINE n == Len(stack)
  <2>1. n \in Nat /\ ~(n > 2)
    BY <1>4, KindsKnown
  <2> HIDE DEF n
  <2>2. n \in 0 .. 2
    BY <2>1
  <2> QED
    BY <2>2 DEF n
<1> QED
  BY <1>1, <1>2, <1>5

HandlerCalled == Len(stack) = 2 /\ stack[1].kind = "pumpScan"

LevelsKept ==
  /\ \A p \in Pins :
       firedAt[p] # "never" =>
         \/ handlers[p].last = firedAt[p]
         \/ HandlerCalled /\ stack[1].at = p
  /\ HandlerCalled => /\ stack[1].at \in Pins
                      /\ firedAt[stack[1].at] \in {"never", stack[1].seen}

LEMMA LevelsKeptStep ==
  ASSUME DirectCalls = {}, TypeOK, TypeOK', StackShape, StackShape', LevelsKept,
         [Next]_vars
  PROVE  LevelsKept'
<1>1. /\ Len(stack) \in 0 .. 2 /\ stack \in Seq(Frame)
      /\ Len(stack) > 0 => stack[1].kind \in PumpKinds
      /\ Len(stack) = 2 => stack[2].kind \in SketchKinds
      /\ stack # <<>> <=> Len(stack) > 0
  BY ShallowStack, KindsKnown DEF TypeOK
<1>2. ASSUME Running(ScanKinds)
      PROVE  /\ Len(stack) = 1 /\ Top = stack[1] /\ stack[1].kind = "pumpScan"
             /\ stack[1] \in Frame /\ ~HandlerCalled
  BY <1>1, <1>2, ElementOfSeq
     DEF Running, Top, ScanKinds, PumpKinds, SketchKinds, HandlerCalled
<1>3. ASSUME ~HandlerCalled, ~HandlerCalled', UNCHANGED <<handlers, firedAt>>
      PROVE  LevelsKept'
  BY <1>3 DEF LevelsKept
<1>4. ASSUME UNCHANGED <<stack, handlers, firedAt>> PROVE LevelsKept'
  BY <1>4 DEF LevelsKept, HandlerCalled
<1>5. CASE Sketch
  <2>1. CASE \E x \in Services : RegisterService(x) \/ UnregisterService(x)
    BY <1>4, <2>1 DEF RegisterService, UnregisterService
  <2>2. ASSUME NEW q \in Pins, NEW m \in Modes, AttachInterrupt(q, m)
        PROVE  LevelsKept'
    BY <2>2 DEF AttachInterrupt, LevelsKept, HandlerCalled, TypeOK
  <2>3. ASSUME NEW q \in Pins, DetachInterrupt(q) PROVE LevelsKept'
    BY <2>3 DEF DetachInterrupt, LevelsKept, HandlerCalled, TypeOK
  <2>4. CASE CallPump
    <3>1. stack = <<>>
      BY <1>1, <2>4 DEF CallPump, StackShape, PumpNotReentered
    <3>2. Len(stack') = 1 /\ Len(stack) = 0
      <4>1. NewFrame("pumpScan", 0) \in Frame
        BY NewFrameType DEF PumpKinds
      <4> QED
        BY <1>1, <2>4, <3>1, <4>1, Pushed DEF CallPump
    <3> QED
      BY <1>3, <2>4, <3>2 DEF CallPump, HandlerCalled
  <2> QED
    BY <1>5, <2>1, <2>2, <2>3, <2>4
       DEF Sketch, CallCheckInterrupts, CallTriggerInterrupt
<1>6. CASE Poll
  <2>1. CASE ScanDisabled
    <3>1. Stays
      BY <1>1, <2>1, NextPinStays DEF ScanDisabled, Scanning
    <3> QED
      BY <1>2, <1>3, <2>1, <3>1 DEF ScanDisabled, Scanning, HandlerCalled, Stays
  <2>2. CASE ScanQuiet
    <3>1. Stays
      BY <1>1, <2>2, NextPinStays DEF ScanQuiet, Scanning
    <3>2. ~HandlerCalled /\ ~HandlerCalled'
      BY <1>2, <2>2, <3>1 DEF ScanQuiet, Scanning, HandlerCalled, Stays
    <3> QED
      BY <2>2, <3>2 DEF ScanQuiet, Scanning, LevelsKept, TypeOK
  <2>3. CASE ScanTriggered
    <3> DEFINE q == Top.at
               f == [stack[1] EXCEPT !.seen = level[q]]
               g == NewFrame("handler", q)
    <3>1. Running(ScanKinds) /\ q \in Pins /\ q \in Nat
      BY <2>3, NumPinsAssumption DEF ScanTriggered, Scanning, Pins
    <3>2. f \in Frame /\ f.at = q /\ f.seen = level[q] /\ g \in Frame
      <4>1. g \in Frame
        BY <3>1, NewFrameType DEF SketchKinds
      <4>2. stack[1] \in Frame /\ q = stack[1].at /\ level[q] \in Levels
        BY <1>2, <3>1 DEF TypeOK
      <4> QED
        BY <4>1, <4>2 DEF Frame
    <3>3. stack' = Append([stack EXCEPT ![1] = f], g)
      BY <1>2, <2>3, <3>1 DEF ScanTriggered
    <3> HIDE DEF f, g
    <3>4. stack'[1] = f
      <4>1. /\ [stack EXCEPT ![1] = f] \in Seq(Frame)
            /\ Len([stack EXCEPT ![1] = f]) = 1 /\ [stack EXCEPT ![1] = f][1] = f
        <5>1. stack \in Seq(Frame) /\ stack # <<>> /\ Len(stack) = 1
          <6>1. stack \in Seq(Frame)
            BY <1>1
          <6>2. stack # <<>>
            BY <3>1 DEF Running
          <6>3. Len(stack) = 1
            BY <1>2, <3>1
          <6> QED
            BY <6>1, <6>2, <6>3
        <5>2. /\ [stack EXCEPT ![Len(stack)] = f] \in Seq(Frame)
              /\ Len([stack EXCEPT ![Len(stack)] = f]) = Len(stack)
              /\ [stack EXCEPT ![Len(stack)] = f][Len(stack)] = f
          BY <3>2, <5>1, Replaced
        <5> QED
          BY <5>1, <5>2
      <4> QED
        BY <3>2, <3>3, <4>1, Pushed
    <3>5. /\ stack'[1].at = q /\ stack'[1].seen = firedAt'[q]
          /\ \A p \in Pins \ {q} : firedAt'[p] = firedAt[p]
          /\ handlers' = handlers /\ ~HandlerCalled
      BY <1>2, <2>3, <3>1, <3>2, <3>4 DEF ScanTriggered, TypeOK
    <3>6. HandlerCalled'
      <4>1. Calls("handler") /\ Len(stack) = 1 /\ stack[1].kind = "pumpScan"
        BY <1>2, <2>3, <3>1, ScanTriggeredCalls
      <4>2. Len(stack') = 2 /\ stack'[1].kind = "pumpScan"
        BY <4>1 DEF Calls, SameKinds
      <4> QED
        BY <4>2 DEF HandlerCalled
    <3> QED
      BY <3>1, <3>5, <3>6 DEF LevelsKept
  <2>4. CASE ScanEnd
    <3>1. Len(stack') # 2
      BY <1>2, <2>4, ScanEndStack DEF ScanEnd, Returns, TurnsToServices
    <3> QED
      BY <1>2, <1>3, <2>4, <3>1 DEF ScanEnd, HandlerCalled
  <2>5. CASE CallService
    <3>1. Len(stack) = 1 /\ stack[1].kind = "services"
      BY <1>1, <2>5 DEF CallService, Running, Top, SketchKinds
    <3>2. Calls("callback")
      BY <2>5, CallServiceCalls
    <3> QED
      BY <1>3, <2>5, <3>1, <3>2 DEF CallService, HandlerCalled, Calls, SameKinds
  <2>6. CASE PumpEnd
    <3>1. Len(stack) = 1
      BY <1>1, <2>6 DEF PumpEnd, Running, Top, SketchKinds
    <3>2. Returns
      BY <1>1, <2>6, CallerReturns DEF PumpEnd, Running
    <3> QED
      BY <1>3, <2>6, <3>1, <3>2 DEF PumpEnd, HandlerCalled, Returns
  <2>7. CASE ReturnToScan
    <3>1. Len(stack) = 2 /\ Len(Caller) = 1 /\ Caller[1] = stack[1]
      <4>0. Len(stack) > 1
        BY <2>7 DEF ReturnToScan
      <4>1. Len(stack) = 2
        <5> DEFINE n == Len(stack)
        <5>1. n \in 0 .. 2 /\ n > 1
          BY <1>1, <4>0
        <5> HIDE DEF n
        <5>2. n = 2
          BY <5>1
        <5> QED
          BY <5>2 DEF n
      <4>2. stack # <<>>
        BY <2>7 DEF ReturnToScan, Running
      <4>3. stack \in Seq(Frame)
        BY <1>1
      <4> QED
        BY <4>1, <4>2, <4>3, Popped DEF Caller
    <3>2. HandlerCalled /\ stack[1].kind \in ScanKinds
      BY <1>1, <2>7, <3>1 DEF ReturnToScan, HandlerCalled, ScanKinds, PumpKinds
    <3>3. handlers' = [handlers EXCEPT ![stack[1].at].last = stack[1].seen]
          /\ firedAt' = firedAt
      BY <2>7, <3>1 DEF ReturnToScan
    <3>4. ~HandlerCalled'
      BY <2>7, <3>1, ReturnToScanReturns DEF Returns, HandlerCalled
    <3> QED
      BY <3>2, <3>3, <3>4 DEF LevelsKept, TypeOK
  <2>8. CASE ReturnToOther
    <3>1. Returns /\ stack # <<>>
      BY <1>1, <2>8, CallerReturns DEF ReturnToOther, Running
    <3>2. ~HandlerCalled
      <4>1. CASE Len(stack) = 2
        <5>1. Len(Caller) = 1 /\ Caller[1] = stack[1]
          BY <1>1, <4>1, <3>1, Popped DEF Caller
        <5> QED
          BY <2>8, <4>1, <5>1 DEF ReturnToOther, HandlerCalled, ScanKinds
      <4> QED
        BY <4>1 DEF HandlerCalled
    <3>3. ~HandlerCalled'
      BY <1>1, <3>1 DEF HandlerCalled, Returns
    <3> QED
      BY <1>3, <2>8, <3>2, <3>3 DEF ReturnToOther
  <2> QED
    BY <1>6, <2>1, <2>2, <2>3, <2>4, <2>5, <2>6, <2>7, <2>8 DEF Poll
<1>7. CASE \E q \in Pins, v \in Levels : SetPin(q, v)
  BY <1>4, <1>7 DEF SetPin
<1>8. CASE UNCHANGED vars
  BY <1>4, <1>8 DEF vars
<1> QED
  BY <1>5, <1>6, <1>7, <1>8 DEF Next

\* An edge is reported once, whatever handlers do to pins and interrupts: a level
\* that a handler has run at is what lastPinState holds when the pin is scanned
\* again.
THEOREM EdgesFireOnce == ASSUME DirectCalls = {} PROVE Spec => EdgeFiresOnce
<1>1. Init => LevelsKept
  BY DEF Init, LevelsKept, HandlerCalled
<1>2. TypeOK /\ TypeOK' /\ StackShape /\ StackShape' /\ LevelsKept /\ [Next]_vars
      => LevelsKept'
  BY DirectCalls = {}, LevelsKeptStep
<1>3. TypeOK /\ StackShape /\ LevelsKept /\ [Next]_vars
      => [\A p \in Pins :
            /\ ScanTriggered
            /\ Top.at = p
            /\ handlers[p].mode \in {"CHANGE", "RISING", "FALLING"}
            => firedAt[p] # level[p]]_vars
  <2> SUFFICES ASSUME TypeOK, StackShape, LevelsKept, ScanTriggered,
                      NEW p \in Pins, Top.at = p,
                      handlers[p].mode \in {"CHANGE", "RISING", "FALLING"},
                      firedAt[p] = level[p]
               PROVE  FALSE
    OBVIOUS
  <2>1. ~HandlerCalled
    BY ShallowStack
       DEF ScanTriggered, Scanning, Running, Top, HandlerCalled, ScanKinds, SketchKinds
  <2>2. level[p] \in Levels /\ handlers[p].last = level[p]
    BY <2>1 DEF LevelsKept, TypeOK, Levels
  <2> QED
    BY <2>2 DEF ScanTriggered, ShouldTrigger, Levels
<1> QED
  BY <1>1, <1>2, <1>3, TypeCorrect, ShapeKept, PTL DEF Spec, EdgeFiresOnce

-----------------------------------------------------------------------------
(* The table of slots, walked by pump() while callbacks change it, keeps the *)
(* promise of YieldServices, for any size of the table.                      *)

\* The slots a pass has reached, at most one: there is one pump().
PassAt == {stack[k].at : k \in {m \in 1 .. Len(stack) : stack[m].kind = "services"}}

Ahead(A) == {j \in Slots : \E a \in A : a <= j}

Content(S) == {entries[i] : i \in S} \ {NoService}

LEMMA ByPassAt ==
  /\ Passing <=> PassAt # {}
  /\ Pending = Content(Ahead(PassAt))
  /\ Passing' <=> PassAt' # {}
  /\ Pending' = {entries'[i] : i \in Ahead(PassAt')} \ {NoService}
  BY DEF Passing, Pending, Reached, PassAt, Ahead, Content

\* The pass does not move when a call or a return leaves it alone.
LEMMA PassUnmoved ==
  ASSUME TypeOK,
         \/ Stays
         \/ \E kind \in {"scan", "pumpScan", "handler"} : Calls(kind)
         \/ ~Running({"services"}) /\ stack # <<>> /\ Returns
  PROVE  PassAt' = PassAt
<1> DEFINE n == Len(stack)
           In(s, a) == \E k \in 1 .. Len(s) : s[k].kind = "services" /\ s[k].at = a
<1>1. n \in Nat /\ (stack # <<>> <=> n > 0)
  BY KindsKnown
<1>2. PassAt = {a \in PassAt : In(stack, a)} /\ PassAt' = {a \in PassAt' : In(stack', a)}
  BY DEF PassAt
<1>3. \A a : In(stack, a) <=> In(stack', a)
  <2>1. CASE Stays
    BY <1>1, <2>1 DEF Stays, SameKinds, SameSlots
  <2>2. ASSUME NEW kind \in {"scan", "pumpScan", "handler"}, Calls(kind)
        PROVE  \A a : In(stack, a) <=> In(stack', a)
    <3>1. /\ Len(stack') = n + 1 /\ stack'[n + 1].kind # "services"
          /\ SameKinds(n) /\ SameSlots(n)
      BY <2>2 DEF Calls
    <3> QED
      BY <1>1, <3>1 DEF SameKinds, SameSlots
  <2>3. CASE ~Running({"services"}) /\ stack # <<>> /\ Returns
    <3>1. Len(stack') = n - 1 /\ stack[n].kind # "services"
          /\ SameKinds(n - 1) /\ SameSlots(n - 1)
      BY <2>3 DEF Returns, Running, Top
    <3> QED
      BY <1>1, <2>3, <3>1 DEF SameKinds, SameSlots
  <2> QED
    BY <2>1, <2>2, <2>3
<1>4. /\ \A a : a \in PassAt <=> In(stack, a)
      /\ \A a : a \in PassAt' <=> In(stack', a)
  BY DEF PassAt
<1> QED
  BY <1>3, <1>4

\* While pump() runs, PassAt is what its activation says.
LEMMA PassIsTop ==
  ASSUME TypeOK, StackShape, stack # <<>>, Top.kind \in PumpKinds
  PROVE  /\ Top.kind = "services" => PassAt = {Top.at}
         /\ Top.kind = "pumpScan" => PassAt = {}
<1> DEFINE n == Len(stack)
<1>1. n \in Nat \ {0} /\ n \in 1 .. n /\ Top = stack[n]
  BY KindsKnown DEF Top
<1>2. \A k \in 1 .. n : stack[k].kind = "services" => k = n
  BY <1>1 DEF StackShape, PumpNotReentered, PumpKinds
<1> QED
  BY <1>1, <1>2 DEF PassAt

-----------------------------------------------------------------------------

LEMMA RegisteredRoom ==
  ASSUME TypeOK, NEW i \in Slots, entries[i] = NoService
  PROVE  Cardinality(Registered) < NumSlots
<1> DEFINE S == Slots \ {i}
           f == [j \in S |-> entries[j]]
           T == {entries[j] : j \in S}
<1>1. IsFiniteSet(Slots) /\ Cardinality(Slots) = NumSlots
  <2>1. 0 \in Int /\ NumSlots - 1 \in Int /\ NumSlots \in Nat
    BY NumSlotsAssumption
  <2>2. IsFiniteSet(Slots)
    BY <2>1, FS_Interval DEF Slots
  <2>3. Cardinality(Slots) = IF 0 > NumSlots - 1 THEN 0 ELSE NumSlots - 1 - 0 + 1
    BY <2>1, FS_Interval DEF Slots
  <2> QED
    BY <2>1, <2>2, <2>3
<1>2. IsFiniteSet(S) /\ Cardinality(S) = NumSlots - 1
  BY <1>1, FS_RemoveElement
<1>3. f \in Surjection(S, T)
  BY DEF Surjection
<1>4. IsFiniteSet(T) /\ Cardinality(T) <= NumSlots - 1
  <2> HIDE DEF S, f, T
  <2> QED
    BY <1>2, <1>3, FS_Surjection
<1>5. Registered \subseteq T
  BY DEF Registered
<1>6. IsFiniteSet(Registered) /\ Cardinality(Registered) <= Cardinality(T)
  <2> HIDE DEF T
  <2> QED
    BY <1>4, <1>5, FS_Subset
<1>7. Cardinality(Registered) \in Nat /\ Cardinality(T) \in Nat
  <2> HIDE DEF T
  <2> QED
    BY <1>4, <1>6, FS_CardinalityType
<1> HIDE DEF T
<1> QED
  BY <1>4, <1>6, <1>7, NumSlotsAssumption
LEMMA RegisterMaps ==
  ASSUME TypeOK, NEW x \in Services, RegisterService(x) PROVE Promise!Register(x)
<1>1. PICK i \in Slots : entries[i] = NoService /\ entries' = [entries EXCEPT ![i] = x]
  BY DEF RegisterService, FreeSlot
<1>2. Cardinality(Registered) < NumSlots
  BY <1>1, RegisteredRoom
<1>3. Promise!Cardinality(Registered) < NumSlots
  BY <1>2 DEF Promise!Cardinality, Cardinality
<1>4. PassAt' = PassAt
  BY DEF RegisterService, PassAt
<1>5. Registered' = Registered \cup {x}
  BY <1>1, ServicesAssumption DEF Registered, TypeOK
<1>6. \/ Pending' = Pending
      \/ PassAt # {} /\ Pending' = Pending \cup {x}
  <2> HIDE DEF PassAt
  <2>1. CASE i \in Ahead(PassAt)
    <3>1. PassAt # {}
      BY <2>1 DEF Ahead
    <3>2. Pending' = Pending \cup {x}
      BY <1>1, <1>4, <2>1, ByPassAt, ServicesAssumption DEF Content, TypeOK, Ahead
    <3> QED
      BY <3>1, <3>2
  <2>2. CASE i \notin Ahead(PassAt)
    BY <1>1, <1>4, <2>2, ByPassAt DEF Content, TypeOK, Ahead
  <2> QED
    BY <2>1, <2>2
<1>7. Passing' = Passing
  BY DEF RegisterService, Passing
<1>8. x \notin Registered
  BY DEF RegisterService
<1> QED
  BY <1>3, <1>5, <1>6, <1>7, <1>8, ByPassAt DEF Promise!Register

LEMMA UnregisterMaps ==
  ASSUME TypeOK, NoDuplicateService, NEW x \in Services, UnregisterService(x)
  PROVE  Promise!Unregister(x)
<1>1. PICK i \in Slots : entries[i] = x /\ entries' = [entries EXCEPT ![i] = NoService]
  BY DEF UnregisterService, FirstSlotOf
<1>2. \A j \in Slots : entries[j] = x => j = i
  BY <1>1, ServicesAssumption DEF NoDuplicateService
<1>3. PassAt' = PassAt /\ Passing' = Passing
  BY DEF UnregisterService, PassAt, Passing
<1>4. x \in Registered /\ Registered' = Registered \ {x}
  BY <1>1, <1>2, ServicesAssumption DEF Registered, TypeOK
<1>5. Pending' = Pending \ {x}
  BY <1>1, <1>2, <1>3, ByPassAt DEF Content, TypeOK, Ahead
<1> QED
  BY <1>3, <1>4, <1>5 DEF Promise!Unregister

LEMMA BeginPassMaps ==
  ASSUME TypeOK, TypeOK', StackShape, StackShape', ScanEnd, Top.kind = "pumpScan"
  PROVE  Promise!BeginPass
<1>1. TurnsToServices /\ stack # <<>> /\ entries' = entries
  BY ScanEndStack DEF ScanEnd, Running
<1>2. PassAt = {}
  BY <1>1, PassIsTop DEF PumpKinds
<1>3. PassAt' = {0}
  <2>1. /\ Len(stack) \in Nat \ {0} /\ Len(stack') = Len(stack)
        /\ stack'[Len(stack)].kind = "services" /\ stack'[Len(stack)].at = 0
    BY <1>1, KindsKnown DEF TurnsToServices
  <2>2. \A k \in 1 .. Len(stack') : stack'[k].kind = "services" => k = Len(stack)
    BY <2>1 DEF StackShape, PumpNotReentered, PumpKinds
  <2> QED
    BY <2>1, <2>2 DEF PassAt
<1>4. Ahead({0}) = Slots
  BY NumSlotsAssumption DEF Ahead, Slots
<1>5. Pending' = Registered
  BY <1>1, <1>3, <1>4, ByPassAt DEF Registered
<1>6. ~Passing /\ Passing'
  BY <1>2, <1>3, ByPassAt
<1>7. Passing' = TRUE
  BY <1>6 DEF Passing
<1>8. Registered' = Registered
  BY <1>1 DEF Registered
<1> QED
  BY <1>5, <1>6, <1>7, <1>8 DEF Promise!BeginPass
LEMMA CallMovesPass ==
  ASSUME TypeOK, StackShape, NEW i \in Slots, Running({"services"}),
         stack' = Append([stack EXCEPT ![Len(stack)].at = i + 1], NewFrame("callback", i))
  PROVE  PassAt' = {i + 1}
<1> DEFINE n == Len(stack)
           f == [Top EXCEPT !.at = i + 1]
           s == [stack EXCEPT ![n] = f]
<1>1. stack \in Seq(Frame) /\ stack # <<>> /\ Top.kind = "services" /\ i \in Nat
  BY NumSlotsAssumption DEF TypeOK, Running, Slots
<1>2. n \in Nat \ {0} /\ Top \in Frame
  BY <1>1, TopIsFrame DEF Top
<1>3. f \in Frame /\ f.kind = "services" /\ f.at = i + 1
  BY <1>1, <1>2 DEF Frame
<1>4. \A k \in 1 .. n : stack[k].kind = "services" => k = n
  BY <1>1, <1>2 DEF StackShape, PumpNotReentered, PumpKinds, Top
<1>5. stack' = Append(s, NewFrame("callback", i))
  BY DEF Top
<1>6. NewFrame("callback", i) \in Frame /\ NewFrame("callback", i).kind = "callback"
  BY <1>1, NewFrameType DEF SketchKinds
<1> HIDE DEF f
<1>7. /\ s \in Seq(Frame) /\ Len(s) = n /\ s[n] = f
      /\ \A k \in 1 .. n - 1 : s[k] = stack[k]
  BY <1>1, <1>3, Replaced
<1> HIDE DEF s
<1>8. /\ Len(stack') = n + 1 /\ stack'[n] = f
      /\ \A k \in 1 .. n - 1 : stack'[k] = stack[k]
      /\ stack'[n + 1].kind = "callback"
  <2>1. \A k \in 1 .. n : stack'[k] = s[k]
    BY <1>5, <1>6, <1>7, Pushed
  <2>2. Len(stack') = n + 1 /\ stack'[n + 1].kind = "callback"
    BY <1>5, <1>6, <1>7, Pushed
  <2> QED
    BY <1>2, <1>7, <2>1, <2>2
<1>9. \A k \in 1 .. n + 1 : stack'[k].kind = "services" <=> k = n
  <2>1. \A k \in 1 .. n + 1 : k \in 1 .. n - 1 \/ k = n \/ k = n + 1
    BY <1>2
  <2>2. \A k \in 1 .. n - 1 : stack[k].kind # "services"
    BY <1>2, <1>4
  <2>3. n \in 1 .. n + 1
    BY <1>2
  <2> QED
    BY <1>2, <1>3, <1>8, <2>1, <2>2, <2>3
<1> QED
  BY <1>2, <1>3, <1>8, <1>9 DEF PassAt

LEMMA CallMaps ==
  ASSUME TypeOK, NoDuplicateService, StackShape, CallService
  PROVE  \E x \in Services : Promise!Call(x)
<1>1. PICK i \in Slots :
        /\ NextOccupied(Top.at, i)
        /\ stack' = Append([stack EXCEPT ![Len(stack)].at = i + 1], NewFrame("callback", i))
  BY DEF CallService
<1>2. Running({"services"}) /\ entries' = entries
  BY DEF CallService
<1>3. PassAt = {Top.at} /\ Top.at \in Nat
  BY <1>2, PassIsTop, TopIsFrame DEF Running, PumpKinds, TypeOK, Frame, Top
<1>4. PassAt' = {i + 1}
  BY <1>1, <1>2, CallMovesPass
<1>5. entries[i] \in Services /\ entries[i] # NoService /\ i >= Top.at /\ i \in Nat
  BY <1>1, NumSlotsAssumption DEF NextOccupied, TypeOK, Slots
<1>6. \A j \in Slots : entries[j] = entries[i] => j = i
  BY <1>5 DEF NoDuplicateService
<1>7. \A j \in Slots : j >= Top.at /\ entries[j] # NoService => i <= j
  BY <1>1 DEF NextOccupied
<1>8. Pending = Content({j \in Slots : Top.at <= j})
  BY <1>3, ByPassAt DEF Ahead
<1>9. Pending' = Content({j \in Slots : i + 1 <= j})
  BY <1>2, <1>4, ByPassAt DEF Ahead, Content
<1>10. \A j \in Slots : j \in Nat
  BY NumSlotsAssumption DEF Slots
<1>11. entries[i] \in Pending
  BY <1>5, <1>8 DEF Content
<1>12. Pending' = Pending \ {entries[i]}
  <2>1. \A x : x \in Pending' => x \in Pending \ {entries[i]}
    <3> SUFFICES ASSUME NEW x \in Pending' PROVE x \in Pending /\ x # entries[i]
      OBVIOUS
    <3>1. PICK j \in Slots : x = entries'[j] /\ i + 1 <= j /\ x # NoService
      BY <1>2, <1>4, ByPassAt DEF Ahead
    <3>2. x = entries[j] /\ Top.at <= j /\ j # i
      BY <1>2, <1>3, <1>5, <1>10, <3>1
    <3> QED
      BY <1>6, <1>8, <3>1, <3>2 DEF Content
  <2>2. \A x : x \in Pending \ {entries[i]} => x \in Pending'
    <3> SUFFICES ASSUME NEW x \in Pending, x # entries[i] PROVE x \in Pending'
      OBVIOUS
    <3>1. PICK j \in Slots : x = entries[j] /\ Top.at <= j /\ x # NoService
      BY <1>8 DEF Content
    <3>2. i <= j /\ j # i
      BY <1>3, <1>7, <1>10, <3>1
    <3>3. i + 1 <= j
      BY <1>5, <1>10, <3>2
    <3> QED
      BY <1>9, <3>1, <3>3 DEF Content
  <2> QED
    BY <2>1, <2>2
<1>13. Passing /\ Passing'
  BY <1>3, <1>4, ByPassAt
<1>14. Passing' = Passing /\ Registered' = Registered
  BY <1>2, <1>13 DEF Passing, Registered
<1> QED
  BY <1>5, <1>11, <1>12, <1>13, <1>14 DEF Promise!Call

LEMMA EndPassMaps ==
  ASSUME TypeOK, TypeOK', StackShape, PumpEnd PROVE Promise!EndPass
<1>1. /\ Running({"services"}) /\ stack # <<>> /\ Top.kind = "services"
      /\ stack' = Caller /\ entries' = entries
      /\ \A j \in Slots : j >= Top.at => entries[j] = NoService
  BY DEF PumpEnd, Running
<1>2. PassAt = {Top.at} /\ Top.at \in Nat
  BY <1>1, PassIsTop, TopIsFrame DEF PumpKinds, TypeOK, Frame, Top
<1>3. PassAt' = {}
  <2>1. Returns /\ Len(stack) \in Nat \ {0}
    BY <1>1, CallerReturns, KindsKnown DEF TypeOK
  <2>2. \A k \in 1 .. Len(stack) - 1 : stack[k].kind # "services"
    BY <1>1, <2>1 DEF StackShape, PumpNotReentered, PumpKinds, Top
  <2> QED
    BY <2>1, <2>2 DEF PassAt, Returns, SameKinds
<1>4. Pending = {}
  BY <1>1, <1>2, ByPassAt DEF Content, Ahead
<1>5. Passing /\ ~Passing' /\ Pending' = {}
  BY <1>2, <1>3, ByPassAt DEF Ahead
<1>6. Passing' = FALSE /\ Registered' = Registered
  BY <1>1, <1>5 DEF Passing, Registered
<1> QED
  BY <1>4, <1>5, <1>6 DEF Promise!EndPass
\* Every other step leaves the table and the pass where they were.
LEMMA OthersStutter ==
  ASSUME TypeOK, PassAt' = PassAt, entries' = entries
  PROVE  UNCHANGED Promise!vars
<1>1. Registered' = Registered
  BY DEF Registered
<1>2. Pending' = Pending
  BY ByPassAt DEF Content
<1>3. Passing' <=> Passing
  BY ByPassAt
<1>4. Passing' = Passing
  BY <1>3 DEF Passing
<1> QED
  BY <1>1, <1>2, <1>4 DEF Promise!vars

LEMMA StepMaps ==
  ASSUME TypeOK, TypeOK', NoDuplicateService, StackShape, StackShape', [Next]_vars
  PROVE  [Promise!Next]_(Promise!vars)
<1> DEFINE Goal == Promise!Next \/ UNCHANGED Promise!vars
<1> SUFFICES Goal
  OBVIOUS
<1>1. ASSUME stack' = stack, entries' = entries PROVE Goal
  <2>1. PassAt' = PassAt
    BY <1>1 DEF PassAt
  <2> QED
    BY <1>1, <2>1, OthersStutter
<1>2. ASSUME NEW kind \in {"scan", "pumpScan", "handler"},
             NEW at \in Nat,
             stack' = Append(stack, NewFrame(kind, at)), entries' = entries
      PROVE  Goal
  <2>1. NewFrame(kind, at) \in Frame /\ NewFrame(kind, at).kind = kind
    BY NewFrameType DEF ScanKinds, PumpKinds, SketchKinds
  <2>2. Calls(kind)
    BY <1>2, <2>1, Pushed DEF TypeOK, Calls, SameKinds, SameSlots
  <2>3. PassAt' = PassAt
    BY <2>2, PassUnmoved
  <2> QED
    BY <1>2, <2>3, OthersStutter
<1>3. CASE Sketch
  <2>1. ASSUME NEW x \in Services, RegisterService(x) PROVE Goal
    BY <2>1, RegisterMaps DEF Promise!Next
  <2>2. ASSUME NEW x \in Services, UnregisterService(x) PROVE Goal
    BY <2>2, UnregisterMaps DEF Promise!Next
  <2>3. CASE \E q \in Pins, m \in Modes : AttachInterrupt(q, m)
    BY <1>1, <2>3 DEF AttachInterrupt
  <2>4. CASE \E q \in Pins : DetachInterrupt(q)
    BY <1>1, <2>4 DEF DetachInterrupt
  <2>5. ASSUME NEW q \in Pins, CallTriggerInterrupt(q) PROVE Goal
    <3>1. q \in Nat
      BY NumPinsAssumption DEF Pins
    <3> QED
      BY <1>2, <2>5, <3>1 DEF CallTriggerInterrupt
  <2>6. CASE CallPump
    BY <1>2, <2>6 DEF CallPump
  <2>7. CASE CallCheckInterrupts
    BY <1>2, <2>7 DEF CallCheckInterrupts
  <2> QED
    BY <1>3, <2>1, <2>2, <2>3, <2>4, <2>5, <2>6, <2>7 DEF Sketch
<1>4. CASE Poll
  <2>1. CASE ScanDisabled \/ ScanQuiet
    <3>1. Stays
      BY <2>1, NextPinStays DEF ScanDisabled, ScanQuiet, Scanning, TypeOK
    <3> QED
      BY <2>1, <3>1, PassUnmoved, OthersStutter DEF ScanDisabled, ScanQuiet
  <2>2. CASE ScanTriggered
    BY <2>2, ScanTriggeredCalls, PassUnmoved, OthersStutter DEF ScanTriggered
  <2>3. CASE ScanEnd
    <3>1. CASE Top.kind = "scan" /\ Returns
      <4>1. ~Running({"services"}) /\ stack # <<>> /\ entries' = entries
        BY <2>3, <3>1 DEF ScanEnd, Running
      <4> QED
        BY <3>1, <4>1, PassUnmoved, OthersStutter
    <3>2. CASE Top.kind = "pumpScan"
      BY <2>3, <3>2, BeginPassMaps DEF Promise!Next
    <3> QED
      BY <2>3, <3>1, <3>2, ScanEndStack
  <2>4. CASE CallService
    BY <2>4, CallMaps DEF Promise!Next
  <2>5. CASE PumpEnd
    BY <2>5, EndPassMaps DEF Promise!Next
  <2>6. CASE ReturnToScan
    <3>1. ~Running({"services"}) /\ stack # <<>> /\ entries' = entries
      BY <2>6 DEF ReturnToScan, Running
    <3> QED
      BY <2>6, <3>1, ReturnToScanReturns, PassUnmoved, OthersStutter
  <2>7. CASE ReturnToOther
    <3>1. ~Running({"services"}) /\ stack # <<>> /\ entries' = entries
      BY <2>7 DEF ReturnToOther, Running, SketchKinds
    <3> QED
      BY <2>7, <3>1, CallerReturns, PassUnmoved, OthersStutter
         DEF ReturnToOther, TypeOK
  <2> QED
    BY <1>4, <2>1, <2>2, <2>3, <2>4, <2>5, <2>6, <2>7 DEF Poll
<1>5. CASE \E q \in Pins, v \in Levels : SetPin(q, v)
  BY <1>1, <1>5 DEF SetPin
<1>6. CASE UNCHANGED vars
  BY <1>1, <1>6 DEF vars
<1> QED
  BY <1>3, <1>4, <1>5, <1>6 DEF Next

\* pump() and the table keep the promise of YieldServices, however many services
\* there are and whatever callbacks do to the table under a running pass.
THEOREM PumpImplementsYieldServices == Spec => ImplementsYieldServices
<1>1. Init => Promise!Init
  <2> SUFFICES ASSUME Init PROVE Promise!Init
    OBVIOUS
  <2>1. ~Passing
    BY DEF Init, Passing
  <2>2. Passing = FALSE
    BY <2>1 DEF Passing
  <2>3. Registered = {}
    BY DEF Init, Registered
  <2>4. Pending = {}
    BY DEF Init, Pending, Reached
  <2> QED
    BY <2>2, <2>3, <2>4 DEF Promise!Init
<1>2. TypeOK /\ TypeOK' /\ NoDuplicateService /\ StackShape /\ StackShape'
      /\ [Next]_vars => [Promise!Next]_(Promise!vars)
  BY StepMaps
<1> QED
  BY <1>1, <1>2, TypeCorrect, ServicesUnique, ShapeKept, PTL
     DEF Spec, ImplementsYieldServices, Promise!Spec
=============================================================================
