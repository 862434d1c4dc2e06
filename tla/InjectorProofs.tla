---------------------------- MODULE InjectorProofs ----------------------------
(***************************************************************************)
(* Proofs about Injector: simulated delays, for any set of events and any  *)
(* step; reset(), for any order of the reset callbacks; who owns an event; *)
(* and simulated time, which waits for the events, for queues of any       *)
(* length.                                                                 *)
(***************************************************************************)
EXTENDS Injector, FiniteSetTheorems, WellFoundedInduction, TLAPS

Numbers ==
  /\ mpc \in {"run", "delay", "reset", "join"}
  /\ clock \in Nat /\ forward \in Nat /\ inc \in Nat /\ target \in Nat

\* How the two threads share a delay: the clock and the time still to be used
\* make up the target, except that between its two stores the injector thread
\* has counted inc twice.  forward is 0 unless the main thread waits.
DelayShared ==
  /\ mpc = "delay" => clock + forward = target + inc /\ ~realTime
  /\ mpc # "delay" => forward = 0
  /\ ipc = "store" => inc > 0 /\ inc <= forward
  /\ ipc # "store" => inc = 0

LEMMA SharedKept == Spec => [](Numbers /\ DelayShared)
<1> DEFINE IInv == Numbers /\ DelayShared
<1>1. Init => IInv
  BY DEF Init, Numbers, DelayShared
<1>2. IInv /\ [Next]_vars => IInv'
  <2> SUFFICES ASSUME IInv, [Next]_vars PROVE IInv'
    OBVIOUS
  <2> USE DEF Numbers, DelayShared, mainVars, injectorVars, eventVars, timeVars
  <2>1. CASE Test
    <3>1. ASSUME NEW e \in Ids, NEW k \in EventTimes, NewEvent(e, k) PROVE IInv'
      BY <3>1 DEF NewEvent
    <3>2. ASSUME NEW e \in Ids, AddEvent(e) PROVE IInv'
      BY <3>2 DEF AddEvent
    <3>3. ASSUME NEW v \in {"LOW", "HIGH"}, WritePin(v) PROVE IInv'
      BY <3>3 DEF WritePin
    <3>4. ASSUME NEW t \in Times, SetMicros(t) PROVE IInv'
      BY <3>4, MaxTimeAssumption DEF SetMicros, Times
    <3>5. ASSUME NEW t \in Times, DelayAlone(t) PROVE IInv'
      BY <3>5, MaxTimeAssumption DEF DelayAlone, Times
    <3>6. ASSUME NEW t \in Times, DelayBegin(t) PROVE IInv'
      BY <3>6, MaxTimeAssumption DEF DelayBegin, Times
    <3>7. CASE ResetBegin
      BY <3>7 DEF ResetBegin
    <3> QED
      BY <2>1, <3>1, <3>2, <3>3, <3>4, <3>5, <3>6, <3>7 DEF Test
  <2>2. CASE Library
    <3>1. CASE DelayEnd
      BY <3>1 DEF DelayEnd
    <3>2. CASE ResetTime
      BY <3>2 DEF ResetTime, ResetCalls
    <3>3. CASE ResetPins \/ ResetStopped
      BY <3>3 DEF ResetPins, ResetStopped, ResetCalls
    <3>4. CASE ResetStop
      BY <3>4 DEF ResetStop, ResetCalls
    <3>5. CASE Join
      BY <3>5 DEF Join
    <3>6. CASE ResetEnd
      BY <3>6 DEF ResetEnd
    <3> QED
      BY <2>2, <3>1, <3>2, <3>3, <3>4, <3>5, <3>6 DEF Library
  <2>3. CASE Loop
    <3>1. CASE IBegin
      BY <3>1 DEF IBegin
    <3>2. CASE IExit
      BY <3>2 DEF IExit
    <3>3. CASE IRaise
      BY <3>3 DEF IRaise
    <3>4. CASE IInsert
      BY <3>4 DEF IInsert
    <3>5. CASE INoAdvance
      BY <3>5 DEF INoAdvance
    <3>6. CASE IAdvance
      BY <3>6, StepAssumption DEF IAdvance
    <3>7. CASE IStore
      BY <3>7 DEF IStore
    <3> QED
      BY <2>3, <3>1, <3>2, <3>3, <3>4, <3>5, <3>6, <3>7 DEF Loop
  <2>4. CASE Tick
    BY <2>4 DEF Tick
  <2>5. CASE UNCHANGED vars
    BY <2>5 DEF vars
  <2> QED
    BY <2>1, <2>2, <2>3, <2>4, <2>5 DEF Next
<1> QED
  BY <1>1, <1>2, PTL DEF Spec

\* A simulated delay ends with the clock exactly where it was asked to be.
THEOREM DelaysExact == Spec => []DelayExact
<1>1. Numbers /\ DelayShared => DelayExact
  BY DEF Numbers, DelayShared, DelayExact
<1> QED
  BY <1>1, SharedKept, PTL

\* The clock is never seen past the end of a delay that is still going on.
THEOREM ClockStaysWithin == Spec => []ClockWithinDelay
<1>1. Numbers /\ DelayShared => ClockWithinDelay
  BY DEF Numbers, DelayShared, ClockWithinDelay
<1> QED
  BY <1>1, SharedKept, PTL
-----------------------------------------------------------------------------
(* reset().  Once its "stop" callback has found the queue empty nothing      *)
(* fills it again before reset() returns: the injector thread, if it is      *)
(* there at all, turns around an empty queue.  So the pins stay low if they  *)
(* were set low after that.                                                  *)

Callbacks == 1 .. Len(ResetOrder)

Stopped == \E i \in Callbacks : i < resetAt /\ ResetOrder[i] = "stop"

PinsReset ==
  \E i, j \in Callbacks :
    i < j /\ j < resetAt /\ ResetOrder[i] = "stop" /\ ResetOrder[j] = "pins"

Resetting ==
  /\ resetAt \in Nat
  /\ ipc # "raise" => toInsert = <<>>
  /\ mpc \in {"reset", "join"} /\ Stopped => events = <<>> /\ ipc # "raise"
  /\ mpc \in {"reset", "join"} /\ PinsReset => pin = "LOW"

LEMMA NothingDropped == DropNulls(<<>>) = <<>>
  BY DEF DropNulls, SelectInSeq

LEMMA ResettingKept == Spec => []Resetting
<1>1. Init => Resetting
  BY DEF Init, Resetting
<1>2. Resetting /\ [Next]_vars => Resetting'
  <2> SUFFICES ASSUME Resetting, [Next]_vars PROVE Resetting'
    OBVIOUS
  <2> USE DEF Resetting, mainVars, injectorVars, eventVars, timeVars
  <2>1. CASE Test
    <3>1. ASSUME NEW e \in Ids, NEW k \in EventTimes, NewEvent(e, k) PROVE Resetting'
      BY <3>1 DEF NewEvent
    <3>2. ASSUME NEW e \in Ids, AddEvent(e) PROVE Resetting'
      BY <3>2 DEF AddEvent
    <3>3. ASSUME NEW v \in {"LOW", "HIGH"}, WritePin(v) PROVE Resetting'
      BY <3>3 DEF WritePin
    <3>4. ASSUME NEW t \in Times, SetMicros(t) PROVE Resetting'
      BY <3>4 DEF SetMicros
    <3>5. ASSUME NEW t \in Times, DelayAlone(t) PROVE Resetting'
      BY <3>5 DEF DelayAlone
    <3>6. ASSUME NEW t \in Times, DelayBegin(t) PROVE Resetting'
      BY <3>6 DEF DelayBegin
    <3>7. CASE ResetBegin
      BY <3>7 DEF ResetBegin, Stopped, PinsReset, Callbacks
    <3> QED
      BY <2>1, <3>1, <3>2, <3>3, <3>4, <3>5, <3>6, <3>7 DEF Test
  <2>2. CASE Library
    <3> USE DEF Stopped, PinsReset, Callbacks
    <3>1. CASE DelayEnd
      BY <3>1 DEF DelayEnd
    <3>2. CASE ResetTime
      BY <3>2 DEF ResetTime, ResetCalls
    <3>3. CASE ResetPins
      BY <3>3 DEF ResetPins, ResetCalls
    <3>4. CASE ResetStopped
      BY <3>4 DEF ResetStopped, ResetCalls, Unlocked
    <3>5. CASE ResetStop
      BY <3>5 DEF ResetStop, ResetCalls
    <3>6. CASE Join
      BY <3>6 DEF Join
    <3>7. CASE ResetEnd
      BY <3>7 DEF ResetEnd
    <3> QED
      BY <2>2, <3>1, <3>2, <3>3, <3>4, <3>5, <3>6, <3>7 DEF Library
  <2>3. CASE Loop
    <3>1. CASE IBegin
      BY <3>1, NothingDropped DEF IBegin, Stopped, PinsReset
    <3>2. CASE IExit
      BY <3>2 DEF IExit, Stopped, PinsReset
    <3>3. CASE IRaise
      BY <3>3 DEF IRaise, Stopped, PinsReset, Callbacks
    <3>4. CASE IInsert
      BY <3>4 DEF IInsert, Stopped, PinsReset
    <3>5. CASE INoAdvance
      BY <3>5 DEF INoAdvance, Stopped, PinsReset
    <3>6. CASE IAdvance
      BY <3>6 DEF IAdvance, Stopped, PinsReset
    <3>7. CASE IStore
      BY <3>7 DEF IStore, Stopped, PinsReset
    <3> QED
      BY <2>3, <3>1, <3>2, <3>3, <3>4, <3>5, <3>6, <3>7 DEF Loop
  <2>4. CASE Tick
    BY <2>4 DEF Tick, Stopped, PinsReset
  <2>5. CASE UNCHANGED vars
    BY <2>5 DEF vars, Stopped, PinsReset
  <2> QED
    BY <2>1, <2>2, <2>3, <2>4, <2>5 DEF Next
<1> QED
  BY <1>1, <1>2, PTL DEF Spec

\* The last step of reset() is the only one that goes back to the test.
LEMMA ResetReturnsLast ==
  ASSUME [Next]_vars, mpc = "reset", mpc' = "run"
  PROVE  resetAt > Len(ResetOrder)
<1>1. CASE ResetEnd
  BY <1>1 DEF ResetEnd
<1>2. CASE UNCHANGED mpc
  BY <1>2
<1> QED
  BY <1>1, <1>2
     DEF Next, Test, Library, Loop, vars, mainVars, NewEvent, AddEvent, WritePin,
         SetMicros, DelayAlone, DelayBegin, ResetBegin, DelayEnd, ResetTime,
         ResetPins, ResetStopped, ResetStop, ResetCalls, Join, IBegin, IExit,
         IRaise, IInsert, INoAdvance, IAdvance, IStore, Tick

\* Whatever the order of the callbacks, if "stop" is one of them no event is left
\* in the queue, or on its way back into it, when reset() returns.
THEOREM QueueEmptied ==
  ASSUME NEW s \in Callbacks, ResetOrder[s] = "stop"
  PROVE  Spec => QueueEmptyAfterReset
<1>1. Resetting /\ [Next]_vars
      => [mpc = "reset" /\ mpc' = "run" => events = <<>> /\ toInsert = <<>>]_vars
  <2> SUFFICES ASSUME Resetting, [Next]_vars, mpc = "reset", mpc' = "run"
               PROVE  events = <<>> /\ toInsert = <<>>
    OBVIOUS
  <2>1. resetAt > Len(ResetOrder)
    BY ResetReturnsLast
  <2>2. Stopped
    BY <2>1, ResetOrderAssumption DEF Stopped, Callbacks, Resetting
  <2> QED
    BY <2>2 DEF Resetting
<1> QED
  BY <1>1, ResettingKept, PTL DEF Spec, QueueEmptyAfterReset

\* The pins are low when reset() returns if some call of "pins" comes after one
\* of "stop": the order that the set of callbacks does not guarantee.
THEOREM PinsLow ==
  ASSUME NEW s \in Callbacks, NEW p \in Callbacks, s < p,
         ResetOrder[s] = "stop", ResetOrder[p] = "pins"
  PROVE  Spec => PinsLowAfterReset
<1>1. Resetting /\ [Next]_vars
      => [mpc = "reset" /\ mpc' = "run" => pin = "LOW"]_vars
  <2> SUFFICES ASSUME Resetting, [Next]_vars, mpc = "reset", mpc' = "run"
               PROVE  pin = "LOW"
    OBVIOUS
  <2>1. resetAt > Len(ResetOrder)
    BY ResetReturnsLast
  <2>2. PinsReset
    BY <2>1, ResetOrderAssumption DEF PinsReset, Callbacks, Resetting
  <2> QED
    BY <2>2 DEF Resetting
<1> QED
  BY <1>1, ResettingKept, PTL DEF Spec, PinsLowAfterReset

-----------------------------------------------------------------------------
(* Induction over positions: theorems whose facts come as a set of numbers,  *)
(* for the provers cannot instantiate those that take a predicate.           *)

LEMMA Smallest ==
  ASSUME NEW T \in SUBSET Nat, T # {}
  PROVE  \E m \in T : \A k \in T : m <= k
<1> DEFINE R == {ss \in Nat \X Nat : ss[1] < ss[2]}
<1>1. IsWellFoundedOn(R, Nat)
  BY NatLessThanWellFounded DEF OpToRel
<1>2. PICK m \in T : \A k \in T : ~(<<k, m>> \in R)
  <2> HIDE DEF R
  <2> QED BY <1>1, WFMin
<1>3. ASSUME NEW k \in T PROVE m <= k
  <2>1. ~(<<k, m>> \in R) /\ k \in Nat /\ m \in Nat
    BY <1>2
  <2>2. ~(k < m)
    BY <2>1
  <2> QED BY <2>1, <2>2
<1> QED BY <1>3

LEMMA Induction ==
  ASSUME NEW T \in SUBSET Nat, 0 \in T, \A n \in T : n + 1 \in T
  PROVE  T = Nat
<1> SUFFICES ASSUME T # Nat PROVE FALSE
  OBVIOUS
<1>1. Nat \ T \in SUBSET Nat /\ Nat \ T # {}
  OBVIOUS
<1>2. PICK m \in Nat \ T : \A k \in Nat \ T : m <= k
  BY <1>1, Smallest
<1>3. m # 0 /\ m - 1 \in Nat /\ m - 1 \in T
  BY <1>2
<1> QED BY <1>2, <1>3

-----------------------------------------------------------------------------
(* The multimap.                                                             *)

Entries == [key : Int, ev : Ids \cup {NoEvent}]

Elements(queue) == {queue[i] : i \in 1 .. Len(queue)}

\* No event is in the queue twice.
Single(queue) ==
  \A i, j \in 1 .. Len(queue) :
    queue[i].ev = queue[j].ev /\ queue[i].ev # NoEvent => i = j

Sorted(queue) ==
  \A i, j \in 1 .. Len(queue) : i <= j => queue[i].key <= queue[j].key

LEMMA UpperBoundFound ==
  ASSUME NEW queue \in Seq(Entries), NEW k \in Int
  PROVE  /\ UpperBound(queue, k) \in 0 .. Len(queue)
         /\ UpperBound(queue, k) = 0 \/ queue[UpperBound(queue, k)].key <= k
         /\ \A i \in UpperBound(queue, k) + 1 .. Len(queue) : queue[i].key > k
<1> DEFINE T == {n \in 0 .. Len(queue) : \A i \in n + 1 .. Len(queue) : queue[i].key > k}
<1>1. T \in SUBSET Nat /\ Len(queue) \in T
  OBVIOUS
<1>2. PICK m \in T : \A n \in T : m <= n
  <2> HIDE DEF T
  <2> QED BY <1>1, Smallest
<1>3. m = 0 \/ queue[m].key <= k
  <2> SUFFICES ASSUME m # 0, ~(queue[m].key <= k) PROVE FALSE
    OBVIOUS
  <2>1. m \in 1 .. Len(queue) /\ queue[m] \in Entries
    BY <1>2
  <2>2. queue[m].key > k
    BY <2>1 DEF Entries
  <2>3. \A i \in (m - 1) + 1 .. Len(queue) : queue[i].key > k
    <3> SUFFICES ASSUME NEW i \in m .. Len(queue) PROVE queue[i].key > k
      BY <2>1
    <3>1. CASE i = m
      BY <2>2, <3>1
    <3>2. CASE i # m
      <4>1. i \in m + 1 .. Len(queue)
        BY <2>1, <3>2
      <4> QED BY <1>2, <4>1
    <3> QED BY <3>1, <3>2
  <2>4. m - 1 \in T
    <3>1. m - 1 \in 0 .. Len(queue)
      BY <2>1
    <3> QED BY <2>3, <3>1, Zenon
  <2>5. m <= m - 1
    <3> HIDE DEF T
    <3> QED BY <1>2, <2>4
  <2> QED BY <2>1, <2>5
<1>4. \E p \in 0 .. Len(queue) : /\ p = 0 \/ queue[p].key <= k
                                 /\ \A i \in p + 1 .. Len(queue) : queue[i].key > k
  BY <1>2, <1>3
<1> QED BY <1>4 DEF UpperBound

\* Where the entry goes, and where the others are then.
LEMMA InsertPlace ==
  ASSUME NEW queue \in Seq(Entries), NEW entry \in Entries
  PROVE  /\ Insert(queue, entry) \in Seq(Entries)
         /\ Len(Insert(queue, entry)) = Len(queue) + 1
         /\ \E p \in 0 .. Len(queue) :
              /\ p = 0 \/ queue[p].key <= entry.key
              /\ \A i \in p + 1 .. Len(queue) : queue[i].key > entry.key
              /\ \A i \in 1 .. Len(queue) + 1 :
                   Insert(queue, entry)[i] = IF i <= p THEN queue[i]
                                             ELSE IF i = p + 1 THEN entry
                                             ELSE queue[i - 1]
<1> DEFINE p == UpperBound(queue, entry.key)
           front == SubSeq(queue, 1, p)
           back == SubSeq(queue, p + 1, Len(queue))
<1>1. /\ p \in 0 .. Len(queue)
      /\ p = 0 \/ queue[p].key <= entry.key
      /\ \A i \in p + 1 .. Len(queue) : queue[i].key > entry.key
  <2>1. entry.key \in Int
    BY DEF Entries
  <2> QED BY <2>1, UpperBoundFound
<1> HIDE DEF p
<1>2. /\ front \in Seq(Entries) /\ Len(front) = p
      /\ \A i \in 1 .. p : front[i] = queue[i]
  BY <1>1
<1>3. /\ back \in Seq(Entries) /\ Len(back) = Len(queue) - p
      /\ \A i \in 1 .. Len(queue) - p : back[i] = queue[p + i]
  BY <1>1
<1>4. Insert(queue, entry) = (front \o <<entry>>) \o back
  <2>1. SubSeq(queue, 1, (p + 1) - 1) = front
    <3>1. (p + 1) - 1 = p
      BY <1>1
    <3> QED BY <3>1
  <2> HIDE DEF front, back
  <2>2. Insert(queue, entry) = InsertAt(queue, p + 1, entry)
    BY Zenon DEF Insert, p
  <2>3. InsertAt(queue, p + 1, entry)
          = SubSeq(queue, 1, (p + 1) - 1) \o <<entry>> \o SubSeq(queue, p + 1, Len(queue))
    BY Zenon DEF InsertAt
  <2> QED BY <2>1, <2>2, <2>3, Zenon DEF back
<1> HIDE DEF front, back
<1>5. /\ front \o <<entry>> \in Seq(Entries) /\ Len(front \o <<entry>>) = p + 1
      /\ \A i \in 1 .. p : (front \o <<entry>>)[i] = queue[i]
      /\ (front \o <<entry>>)[p + 1] = entry
  BY <1>1, <1>2
<1> DEFINE joined == front \o <<entry>>
<1> HIDE DEF joined
<1>6. /\ joined \o back \in Seq(Entries) /\ Len(joined \o back) = Len(queue) + 1
      /\ \A i \in 1 .. p + 1 : (joined \o back)[i] = joined[i]
      /\ \A i \in p + 2 .. Len(queue) + 1 : (joined \o back)[i] = back[i - (p + 1)]
  BY <1>1, <1>3, <1>5 DEF joined
<1>7. ASSUME NEW i \in 1 .. Len(queue) + 1
      PROVE  (joined \o back)[i] = IF i <= p THEN queue[i]
                                   ELSE IF i = p + 1 THEN entry ELSE queue[i - 1]
  <2>0. /\ i \in Int /\ p \in Int /\ Len(queue) \in Int
        /\ 1 <= i /\ i <= Len(queue) + 1 /\ p <= Len(queue)
    BY <1>1
  <2>1. CASE i <= p
    <3>1. i \in 1 .. p /\ i \in 1 .. p + 1
      BY <2>0, <2>1
    <3> QED BY <1>5, <1>6, <2>1, <3>1 DEF joined
  <2>2. CASE i = p + 1
    BY <1>1, <1>5, <1>6, <2>2 DEF joined
  <2>3. CASE i > p + 1
    <3>1. i - (p + 1) \in 1 .. Len(queue) - p /\ p + (i - (p + 1)) = i - 1
      BY <2>0, <2>3
    <3>2. back[i - (p + 1)] = queue[i - 1]
      BY <1>3, <3>1
    <3>3. i \in p + 2 .. Len(queue) + 1 /\ ~(i <= p) /\ i # p + 1
      BY <1>1, <2>3
    <3>4. (joined \o back)[i] = back[i - (p + 1)]
      BY <1>6, <3>3
    <3> QED BY <3>2, <3>3, <3>4
  <2>4. i <= p \/ i = p + 1 \/ i > p + 1
    BY <1>1
  <2> QED BY <2>1, <2>2, <2>3, <2>4
<1> QED BY <1>1, <1>4, <1>6, <1>7 DEF joined


\* Inserting keeps the order, and the events in it at one place each.
LEMMA InsertKeeps ==
  ASSUME NEW queue \in Seq(Entries), NEW entry \in Entries
  PROVE  /\ Insert(queue, entry) \in Seq(Entries)
         /\ Sorted(queue) => Sorted(Insert(queue, entry))
         /\ Single(queue) /\ entry.ev \notin InQueue(queue)
              => Single(Insert(queue, entry))
         /\ Elements(Insert(queue, entry)) = Elements(queue) \cup {entry}
<1> DEFINE r == Insert(queue, entry)
           n == Len(queue)
<1>1. r \in Seq(Entries) /\ Len(r) = n + 1 /\ n \in Nat
  BY InsertPlace
<1>2. PICK p \in 0 .. n :
        /\ p = 0 \/ queue[p].key <= entry.key
        /\ \A i \in p + 1 .. n : queue[i].key > entry.key
        /\ \A i \in 1 .. n + 1 :
             r[i] = IF i <= p THEN queue[i] ELSE IF i = p + 1 THEN entry ELSE queue[i - 1]
  BY InsertPlace
<1> HIDE DEF r
<1>3. \A i \in 1 .. n : queue[i] \in Entries /\ queue[i].key \in Int
  <2>1. \A i \in 1 .. n : queue[i] \in Entries
    OBVIOUS
  <2>2. \A x \in Entries : x.key \in Int
    BY DEF Entries
  <2> HIDE DEF n
  <2> QED BY <2>1, <2>2
<1>4. entry.key \in Int
  BY DEF Entries
<1>5. \A i \in 1 .. n + 1 :
        \/ i <= p /\ i \in 1 .. n /\ r[i] = queue[i]
        \/ i = p + 1 /\ r[i] = entry
        \/ i > p + 1 /\ i - 1 \in 1 .. n /\ r[i] = queue[i - 1]
  BY <1>1, <1>2
<1>6. ASSUME Sorted(queue) PROVE Sorted(r)
  <2>1. \A i \in 1 .. n : i <= p => queue[i].key <= entry.key
    BY <1>1, <1>2, <1>3, <1>4, <1>6 DEF Sorted
  <2>2. \A i \in 1 .. n : i > p => queue[i].key > entry.key
    BY <1>1, <1>2
  <2>3. ASSUME NEW i \in 1 .. n + 1, NEW j \in 1 .. n + 1, i <= j
        PROVE  r[i].key <= r[j].key
    <3>1. CASE i <= p /\ j <= p
      BY <1>1, <1>5, <1>6, <2>3, <3>1 DEF Sorted
    <3>2. CASE i > p + 1 /\ j > p + 1
      <4>1. i - 1 \in 1 .. n /\ j - 1 \in 1 .. n /\ i - 1 <= j - 1
        BY <1>1, <2>3, <3>2
      <4>2. queue[i - 1].key <= queue[j - 1].key
        BY <1>6, <4>1 DEF Sorted
      <4>3. r[i] = queue[i - 1] /\ r[j] = queue[j - 1]
        BY <1>1, <1>5, <3>2
      <4> QED BY <4>2, <4>3
    <3>3. CASE i <= p + 1 /\ j >= p + 1
      <4>1. r[i].key <= entry.key /\ r[i].key \in Int
        <5>1. CASE i = p + 1
          BY <1>1, <1>4, <1>5, <5>1
        <5>2. CASE i <= p
          <6>1. i \in 1 .. n /\ r[i] = queue[i]
            BY <1>1, <1>5, <5>2
          <6> QED BY <1>3, <2>1, <5>2, <6>1
        <5> QED BY <1>1, <3>3, <5>1, <5>2
      <4>2. entry.key <= r[j].key /\ r[j].key \in Int
        <5>1. CASE j = p + 1
          <6>1. r[j] = entry
            BY <1>1, <1>5, <5>1
          <6> QED BY <1>4, <6>1
        <5>2. CASE j > p + 1
          <6>1. j - 1 \in 1 .. n /\ r[j] = queue[j - 1] /\ j - 1 > p
            BY <1>1, <1>5, <5>2
          <6> QED BY <1>3, <1>4, <2>2, <6>1
        <5> QED BY <1>1, <3>3, <5>1, <5>2
      <4> QED BY <1>4, <4>1, <4>2
    <3> QED BY <1>1, <2>3, <3>1, <3>2, <3>3
  <2> QED BY <1>1, <2>3 DEF Sorted
<1>7. ASSUME Single(queue), entry.ev \notin InQueue(queue) PROVE Single(r)
  <2>1. \A i \in 1 .. n : queue[i].ev # NoEvent => queue[i].ev # entry.ev
    BY <1>7 DEF InQueue
  <2>2. ASSUME NEW i \in 1 .. n + 1, NEW j \in 1 .. n + 1,
               r[i].ev = r[j].ev, r[i].ev # NoEvent
        PROVE  i = j
    <3>1. CASE i = p + 1
      <4> SUFFICES ASSUME j # p + 1 PROVE FALSE
        BY <3>1
      <4>1. PICK l \in 1 .. n : r[j] = queue[l]
        BY <1>1, <1>5
      <4> QED BY <1>5, <2>1, <2>2, <3>1, <4>1
    <3>2. CASE j = p + 1
      <4> SUFFICES ASSUME i # p + 1 PROVE FALSE
        BY <3>2
      <4>1. PICK l \in 1 .. n : r[i] = queue[l]
        BY <1>1, <1>5
      <4> QED BY <1>5, <2>1, <2>2, <3>2, <4>1
    <3>3. CASE i # p + 1 /\ j # p + 1
      <4> DEFINE a == IF i <= p THEN i ELSE i - 1
                 b == IF j <= p THEN j ELSE j - 1
      <4>1. a \in 1 .. n /\ r[i] = queue[a] /\ b \in 1 .. n /\ r[j] = queue[b]
        BY <1>1, <1>5, <3>3
      <4>2. a = b
        <5> HIDE DEF a, b
        <5> QED BY <1>7, <2>2, <4>1 DEF Single
      <4> QED BY <1>1, <3>3, <4>2
    <3> QED BY <3>1, <3>2, <3>3
  <2> QED BY <1>1, <2>2 DEF Single
<1>8. Elements(r) = Elements(queue) \cup {entry}
  <2>1. ASSUME NEW i \in 1 .. n + 1 PROVE r[i] \in Elements(queue) \cup {entry}
    BY <1>5 DEF Elements
  <2>2. entry \in Elements(r)
    <3>1. p + 1 \in 1 .. n + 1 /\ r[p + 1] = entry
      BY <1>1, <1>5
    <3> QED BY <1>1, <3>1 DEF Elements
  <2>3. ASSUME NEW i \in 1 .. n PROVE queue[i] \in Elements(r)
    <3>1. CASE i <= p
      <4>1. i \in 1 .. n + 1 /\ r[i] = queue[i]
        BY <1>1, <1>5, <3>1
      <4> QED BY <1>1, <4>1 DEF Elements
    <3>2. CASE i > p
      <4>1. i + 1 \in 1 .. n + 1 /\ i + 1 > p + 1 /\ (i + 1) - 1 = i
        BY <1>1, <3>2
      <4>2. r[i + 1] = queue[i]
        BY <1>1, <1>2, <4>1
      <4> QED BY <1>1, <4>1, <4>2 DEF Elements
    <3> QED BY <1>1, <3>1, <3>2
  <2> QED BY <1>1, <2>1, <2>2, <2>3 DEF Elements
<1> QED BY <1>1, <1>6, <1>7, <1>8 DEF r


LEMMA EventsOf ==
  ASSUME NEW queue
  PROVE  InQueue(queue) = {x.ev : x \in Elements(queue)} \ {NoEvent}
  BY DEF InQueue, Elements

\* The loop that inserts what was put aside: a fold, whose function exists.
LEMMA FoldUnfolds ==
  ASSUME NEW queue \in Seq(Entries), NEW entries \in Seq(Entries)
  PROVE  \E g : /\ InsertAll(queue, entries) = g[Len(entries)]
                /\ g[0] = queue
                /\ \A n \in 1 .. Len(entries) : g[n] = Insert(g[n - 1], entries[n])
<1> DEFINE N == Len(entries)
           Folds(g, m) == g = [n \in 0 .. m |-> IF n = 0 THEN queue
                                                ELSE Insert(g[n - 1], entries[n])]
           T == {m \in Nat : \E g : Folds(g, m)}
<1>1. T \in SUBSET Nat
  OBVIOUS
<1>2. 0 \in T
  <2> DEFINE g == [n \in 0 .. 0 |-> queue]
  <2>1. g = [n \in 0 .. 0 |-> IF n = 0 THEN queue ELSE Insert(g[n - 1], entries[n])]
    OBVIOUS
  <2> QED BY <2>1
<1>3. ASSUME NEW m \in T PROVE m + 1 \in T
  <2>1. PICK g : Folds(g, m)
    OBVIOUS
  <2>2. m \in Nat
    OBVIOUS
  <2> DEFINE h == [n \in 0 .. m + 1 |-> IF n <= m THEN g[n] ELSE Insert(g[m], entries[n])]
  <2>3. h = [n \in 0 .. m + 1 |-> IF n = 0 THEN queue ELSE Insert(h[n - 1], entries[n])]
    <3> SUFFICES ASSUME NEW n \in 0 .. m + 1
                 PROVE  h[n] = IF n = 0 THEN queue ELSE Insert(h[n - 1], entries[n])
      OBVIOUS
    <3>1. CASE n = 0
      BY <2>1, <2>2, <3>1
    <3>2. CASE n \in 1 .. m
      <4>1. h[n] = g[n] /\ h[n - 1] = g[n - 1]
        BY <2>2, <3>2
      <4>2. g[n] = Insert(g[n - 1], entries[n])
        BY <2>1, <2>2, <3>2
      <4> QED BY <2>2, <3>2, <4>1, <4>2
    <3>3. CASE n = m + 1
      <4>1. h[n] = Insert(g[m], entries[n]) /\ h[n - 1] = g[m] /\ n # 0
        BY <2>2, <3>3
      <4> QED BY <4>1
    <3> QED BY <2>2, <3>1, <3>2, <3>3
  <2> HIDE DEF h
  <2>4. \E f : Folds(f, m + 1)
    BY <2>3
  <2> HIDE DEF Folds
  <2> QED BY <2>2, <2>4
<1>4. N \in T
  <2> HIDE DEF T
  <2>1. T = Nat
    BY <1>1, <1>2, <1>3, Induction
  <2> QED BY <2>1
<1> DEFINE f == CHOOSE g : Folds(g, N)
<1>5. Folds(f, N)
  <2> HIDE DEF Folds
  <2> QED BY <1>4
<1>6. InsertAll(queue, entries) = f[N]
  BY Zenon DEF InsertAll
<1> HIDE DEF f
<1>7. f[0] = queue
  BY <1>5
<1>8. ASSUME NEW n \in 1 .. N PROVE f[n] = Insert(f[n - 1], entries[n])
  BY <1>5
<1> QED BY <1>6, <1>7, <1>8


LEMMA InsertAllKeeps ==
  ASSUME NEW queue \in Seq(Entries), NEW entries \in Seq(Entries)
  PROVE  /\ InsertAll(queue, entries) \in Seq(Entries)
         /\ Sorted(queue) => Sorted(InsertAll(queue, entries))
         /\ /\ Single(queue) /\ Single(entries)
            /\ InQueue(queue) \cap InQueue(entries) = {}
            => Single(InsertAll(queue, entries))
         /\ Elements(InsertAll(queue, entries)) = Elements(queue) \cup Elements(entries)
<1> DEFINE N == Len(entries)
           Taken(n) == {entries[i] : i \in 1 .. n}
           apart == /\ Single(queue) /\ Single(entries)
                    /\ InQueue(queue) \cap InQueue(entries) = {}
<1>1. PICK g : /\ InsertAll(queue, entries) = g[N]
               /\ g[0] = queue
               /\ \A n \in 1 .. N : g[n] = Insert(g[n - 1], entries[n])
  BY FoldUnfolds
<1> DEFINE Good(n) == /\ g[n] \in Seq(Entries)
                      /\ Sorted(queue) => Sorted(g[n])
                      /\ apart => Single(g[n])
                      /\ Elements(g[n]) = Elements(queue) \cup Taken(n)
           T == {n \in Nat : n <= N => Good(n)}
<1>2. Good(0)
  <2>1. Taken(0) = {}
    OBVIOUS
  <2> QED BY <1>1, <2>1
<1>3. ASSUME NEW n \in Nat, n + 1 <= N, Good(n) PROVE Good(n + 1)
  <2>1. n + 1 \in 1 .. N /\ entries[n + 1] \in Entries /\ (n + 1) - 1 = n
    BY <1>3
  <2>2. g[n + 1] = Insert(g[n], entries[n + 1])
    BY <1>1, <2>1
  <2>3. Taken(n + 1) = Taken(n) \cup {entries[n + 1]}
    <3>1. 1 .. n + 1 = (1 .. n) \cup {n + 1}
      OBVIOUS
    <3> QED BY <3>1
  <2>4. ASSUME apart PROVE entries[n + 1].ev \notin InQueue(g[n])
    <3> SUFFICES ASSUME entries[n + 1].ev \in InQueue(g[n]) PROVE FALSE
      OBVIOUS
    <3>1. PICK x \in Elements(queue) \cup Taken(n) :
            x.ev = entries[n + 1].ev /\ x.ev # NoEvent
      BY <1>3, EventsOf
    <3>2. entries[n + 1].ev \in InQueue(entries)
      BY <2>1, <3>1 DEF InQueue
    <3>3. CASE x \in Elements(queue)
      <4>1. x.ev \in InQueue(queue)
        BY <3>1, <3>3, EventsOf
      <4> QED BY <2>4, <3>1, <3>2, <4>1
    <3>4. CASE x \in Taken(n)
      <4>1. PICK i \in 1 .. n : x = entries[i]
        BY <3>4
      <4>2. i \in 1 .. N /\ i # n + 1
        BY <2>1
      <4> QED BY <2>1, <2>4, <3>1, <4>1, <4>2 DEF Single
    <3> QED BY <3>3, <3>4
  <2> HIDE DEF Taken, apart
  <2>5. /\ g[n + 1] \in Seq(Entries)
        /\ Sorted(g[n]) => Sorted(g[n + 1])
        /\ Single(g[n]) /\ entries[n + 1].ev \notin InQueue(g[n]) => Single(g[n + 1])
        /\ Elements(g[n + 1]) = Elements(g[n]) \cup {entries[n + 1]}
    BY <1>3, <2>1, <2>2, InsertKeeps
  <2>6. Elements(g[n + 1]) = Elements(queue) \cup Taken(n + 1)
    BY <1>3, <2>3, <2>5
  <2> QED BY <1>3, <2>4, <2>5, <2>6
<1>4. T = Nat
  <2>1. 0 \in T
    BY <1>2
  <2>2. ASSUME NEW n \in T PROVE n + 1 \in T
    <3> HIDE DEF Good
    <3>1. n \in Nat /\ (n <= N => Good(n))
      OBVIOUS
    <3>2. n + 1 <= N => Good(n + 1)
      BY <1>3, <3>1
    <3> QED BY <3>1, <3>2
  <2> HIDE DEF Good
  <2>3. T \in SUBSET Nat
    OBVIOUS
  <2> HIDE DEF T
  <2> QED BY <2>1, <2>2, <2>3, Induction
<1>5. Good(N)
  <2> HIDE DEF Good
  <2>1. N \in Nat /\ N \in T
    BY <1>4
  <2> QED BY <2>1
<1>6. Taken(N) = Elements(entries)
  BY DEF Elements
<1> HIDE DEF Taken
<1> QED BY <1>1, <1>5, <1>6

\* Erasing the front entries whose event is gone loses no event.
LEMMA DropKeeps ==
  ASSUME NEW queue \in Seq(Entries)
  PROVE  /\ DropNulls(queue) \in Seq(Entries)
         /\ Sorted(queue) => Sorted(DropNulls(queue))
         /\ Single(queue) => Single(DropNulls(queue))
         /\ Elements(DropNulls(queue)) \subseteq Elements(queue)
         /\ InQueue(DropNulls(queue)) = InQueue(queue)
<1> DEFINE T == {i \in 1 .. Len(queue) : queue[i].ev # NoEvent}
           r == DropNulls(queue)
<1>1. CASE T = {}
  <2>1. r = <<>>
    BY <1>1 DEF DropNulls, SelectInSeq
  <2>2. InQueue(queue) = {} /\ InQueue(<<>>) = {} /\ Elements(<<>>) = {}
    BY <1>1 DEF InQueue, Elements
  <2>3. Sorted(<<>>) /\ Single(<<>>) /\ <<>> \in Seq(Entries)
    BY DEF Sorted, Single
  <2> HIDE DEF r
  <2> QED BY <2>1, <2>2, <2>3 DEF r
<1>2. CASE T # {}
  <2> DEFINE d == Min(T)
  <2>1. d \in T /\ \A i \in T : d <= i
    <3>1. T \in SUBSET Nat
      OBVIOUS
    <3> HIDE DEF T
    <3> QED BY <1>2, <3>1, Smallest DEF Min
  <2> HIDE DEF d
  <2>2. d \in 1 .. Len(queue) /\ \A i \in 1 .. d - 1 : queue[i].ev = NoEvent
    BY <2>1
  <2>3. r = SubSeq(queue, d, Len(queue))
    <3>1. SelectInSeq(queue, LAMBDA x : x.ev # NoEvent) = d
      BY <1>2 DEF SelectInSeq, d
    <3> HIDE DEF T
    <3>2. d # 0
      BY <2>2
    <3> QED BY <3>1, <3>2 DEF DropNulls
  <2>4. /\ r \in Seq(Entries) /\ Len(r) = Len(queue) - d + 1
        /\ \A i \in 1 .. Len(r) : r[i] = queue[i + (d - 1)] /\ i + (d - 1) \in 1 .. Len(queue)
    <3> HIDE DEF r, T
    <3>1. Len(queue) \in Nat /\ d \in Nat /\ 1 <= d /\ d <= Len(queue)
      BY <2>2
    <3>2. /\ r \in Seq(Entries) /\ Len(r) = Len(queue) - d + 1
          /\ \A i \in 1 .. Len(queue) - d + 1 : r[i] = queue[d + i - 1]
      BY <2>3, <3>1
    <3> QED BY <3>1, <3>2
  <2> HIDE DEF r, T
  <2>5. ASSUME Sorted(queue) PROVE Sorted(r)
    <3>1. ASSUME NEW i \in 1 .. Len(r), NEW j \in 1 .. Len(r), i <= j
          PROVE  r[i].key <= r[j].key
      <4>1. i + (d - 1) <= j + (d - 1)
        BY <2>2, <3>1
      <4> QED BY <2>4, <2>5, <4>1 DEF Sorted
    <3> QED BY <3>1 DEF Sorted
  <2>6. ASSUME Single(queue) PROVE Single(r)
    <3>1. ASSUME NEW i \in 1 .. Len(r), NEW j \in 1 .. Len(r),
                 r[i].ev = r[j].ev, r[i].ev # NoEvent
          PROVE  i = j
      <4>1. i + (d - 1) = j + (d - 1)
        BY <2>4, <2>6, <3>1 DEF Single
      <4> QED BY <2>2, <4>1
    <3> QED BY <3>1 DEF Single
  <2>7. Elements(r) \subseteq Elements(queue)
    BY <2>4 DEF Elements
  <2>8. ASSUME NEW i \in 1 .. Len(queue), queue[i].ev # NoEvent
        PROVE  queue[i].ev \in InQueue(r)
    <3>0. d <= i
      BY <2>1, <2>8 DEF T
    <3>1. i - d + 1 \in 1 .. Len(r) /\ (i - d + 1) + (d - 1) = i
      BY <2>2, <2>4, <3>0
    <3>2. r[i - d + 1] = queue[i]
      BY <2>4, <3>1
    <3> QED BY <2>8, <3>1, <3>2 DEF InQueue
  <2>9. InQueue(r) = InQueue(queue)
    <3>1. InQueue(r) \subseteq InQueue(queue)
      BY <2>7, EventsOf
    <3>2. InQueue(queue) \subseteq InQueue(r)
      <4> SUFFICES ASSUME NEW e \in InQueue(queue) PROVE e \in InQueue(r)
        OBVIOUS
      <4>1. PICK i \in 1 .. Len(queue) : e = queue[i].ev /\ e # NoEvent
        BY DEF InQueue
      <4> QED BY <2>8, <4>1
    <3> QED BY <3>1, <3>2
  <2> QED BY <2>4, <2>5, <2>6, <2>7, <2>9 DEF r
<1> QED BY <1>1, <1>2

\* Raising the event at a position takes that one out of the queue.
LEMMA ReleaseKeeps ==
  ASSUME NEW queue \in Seq(Entries), NEW n \in 1 .. Len(queue)
  PROVE  /\ Release(queue, n) \in Seq(Entries)
         /\ Sorted(queue) => Sorted(Release(queue, n))
         /\ Single(queue) =>
              /\ Single(Release(queue, n))
              /\ InQueue(Release(queue, n)) = InQueue(queue) \ {queue[n].ev}
         /\ \A x \in Elements(Release(queue, n)) :
              x.ev # NoEvent => x \in Elements(queue)
<1> DEFINE r == Release(queue, n)
           void == [queue[n] EXCEPT !.ev = NoEvent]
<1>1. queue[n] \in Entries
  OBVIOUS
<1>2. void \in Entries /\ void.key = queue[n].key /\ void.ev = NoEvent
  BY <1>1 DEF Entries
<1>3. r = [queue EXCEPT ![n] = void]
  BY DEF Release
<1> HIDE DEF void
<1>4. /\ r \in Seq(Entries) /\ Len(r) = Len(queue) /\ r[n] = void
      /\ \A i \in 1 .. Len(queue) : i # n => r[i] = queue[i]
  BY <1>2, <1>3
<1> HIDE DEF r
<1>5. \A i \in 1 .. Len(queue) : r[i].key = queue[i].key
  BY <1>2, <1>4
<1>6. Sorted(queue) => Sorted(r)
  BY <1>4, <1>5 DEF Sorted
<1>7. Single(queue) => Single(r)
  BY <1>2, <1>4 DEF Single
<1>8. \A x \in Elements(r) : x.ev # NoEvent => x \in Elements(queue)
  BY <1>2, <1>4 DEF Elements
<1>9. ASSUME Single(queue) PROVE InQueue(r) = InQueue(queue) \ {queue[n].ev}
  <2>1. ASSUME NEW i \in 1 .. Len(r), r[i].ev # NoEvent
        PROVE  r[i].ev \in InQueue(queue) \ {queue[n].ev}
    <3>1. i # n /\ i \in 1 .. Len(queue) /\ r[i] = queue[i]
      BY <1>2, <1>4, <2>1
    <3> QED BY <1>9, <2>1, <3>1 DEF InQueue, Single
  <2>2. ASSUME NEW i \in 1 .. Len(queue), queue[i].ev # NoEvent, queue[i].ev # queue[n].ev
        PROVE  queue[i].ev \in InQueue(r)
    BY <1>4, <2>2 DEF InQueue
  <2> QED BY <2>1, <2>2 DEF InQueue
<1> QED BY <1>4, <1>6, <1>7, <1>8, <1>9 DEF r


-----------------------------------------------------------------------------
(* Who owns an event.                                                        *)

EventsTyped ==
  /\ events \in Seq(Entries) /\ toInsert \in Seq(Entries)
  /\ owner \in [Ids -> Owners] /\ key \in [Ids -> Int] /\ due \in [Ids -> Int]
  /\ at \in Nat \ {0}

\* An event is in the queue's hands if and only if it is in the queue or among
\* those put aside, at one place, under its own key.
Placed ==
  /\ Single(events) /\ Single(toInsert) /\ Queued \cap InQueue(toInsert) = {}
  /\ \A e \in Ids : owner[e] = "queue" <=> e \in Queued \cup InQueue(toInsert)
  /\ \A x \in Elements(events) \cup Elements(toInsert) :
       x.ev # NoEvent => x.key = key[x.ev]

QueueInv == EventsTyped /\ Placed

LEMMA QueuedIds ==
  ASSUME NEW queue \in Seq(Entries)
  PROVE  InQueue(queue) \subseteq Ids
<1>1. \A i \in 1 .. Len(queue) : queue[i] \in Entries
  OBVIOUS
<1>2. \A x \in Entries : x.ev \in Ids \cup {NoEvent}
  BY DEF Entries
<1> QED BY <1>1, <1>2 DEF InQueue

\* The events a step has nothing to do with.
LEMMA PlacedSame ==
  ASSUME QueueInv, UNCHANGED <<events, toInsert, owner, key>>,
         due' \in [Ids -> Int], at' \in Nat \ {0}
  PROVE  QueueInv'
<1>1. EventsTyped'
  BY DEF QueueInv, EventsTyped
<1>2. Placed'
  BY DEF QueueInv, Placed, Queued, InQueue, Elements, Single
<1> QED BY <1>1, <1>2 DEF QueueInv

LEMMA NewEventPlaced ==
  ASSUME QueueInv, NEW e \in Ids, NEW k \in EventTimes, NewEvent(e, k)
  PROVE  QueueInv'
<1>1. /\ UNCHANGED <<events, toInsert, due, at>> /\ owner[e] = "none"
      /\ owner' = [owner EXCEPT ![e] = "test"] /\ key' = [key EXCEPT ![e] = k]
  BY DEF NewEvent, injectorVars
<1>2. k \in Int
  BY EventTimesAssumption, MaxTimeAssumption
<1>3. EventsTyped'
  BY <1>1, <1>2 DEF QueueInv, EventsTyped, Owners
<1>4. e \notin Queued \cup InQueue(toInsert)
  BY <1>1 DEF QueueInv, Placed
<1>5. \A x \in Elements(events) \cup Elements(toInsert) :
        x.ev # NoEvent => x.ev \in Queued \cup InQueue(toInsert)
  BY EventsOf DEF Queued
<1>6. \A x \in Elements(events) \cup Elements(toInsert) :
        x.ev # NoEvent => x.key = key'[x.ev]
  <2> SUFFICES ASSUME NEW x \in Elements(events) \cup Elements(toInsert), x.ev # NoEvent
               PROVE  x.key = key'[x.ev]
    OBVIOUS
  <2>1. x.ev \in Ids /\ x.ev # e
    BY <1>4, <1>5, QueuedIds DEF QueueInv, EventsTyped, Queued
  <2>2. key'[x.ev] = key[x.ev]
    BY <1>1, <2>1 DEF QueueInv, EventsTyped
  <2> QED BY <2>2 DEF QueueInv, Placed
<1>7. \A x \in Ids : owner'[x] = "queue" <=> x \in Queued \cup InQueue(toInsert)
  BY <1>1, <1>4 DEF QueueInv, Placed, EventsTyped
<1>8. Queued' = Queued /\ InQueue(toInsert)' = InQueue(toInsert)
      /\ Elements(events)' = Elements(events) /\ Elements(toInsert)' = Elements(toInsert)
      /\ Single(events)' = Single(events) /\ Single(toInsert)' = Single(toInsert)
  BY <1>1 DEF Queued, InQueue, Elements, Single
<1> QED BY <1>3, <1>6, <1>7, <1>8 DEF QueueInv, Placed

LEMMA AddEventPlaced ==
  ASSUME QueueInv, clock \in Int, NEW e \in Ids, AddEvent(e)
  PROVE  QueueInv'
<1> DEFINE x == [key |-> key[e], ev |-> e]
<1>1. /\ UNCHANGED <<toInsert, at, key>> /\ owner[e] = "test"
      /\ owner' = [owner EXCEPT ![e] = "queue"]
      /\ due' = [due EXCEPT ![e] = Max2(key[e], clock)]
      /\ events' = Insert(events, x)
  BY DEF AddEvent, injectorVars
<1>2. x \in Entries /\ x.ev = e /\ x.key = key[e] /\ Max2(key[e], clock) \in Int
  BY DEF QueueInv, EventsTyped, Entries, Max2
<1> HIDE DEF x
<1>3. e \notin Queued \cup InQueue(toInsert)
  BY <1>1 DEF QueueInv, Placed
<1>4. /\ events' \in Seq(Entries) /\ Single(events')
      /\ Elements(events') = Elements(events) \cup {x}
  BY <1>1, <1>2, <1>3, InsertKeeps DEF QueueInv, EventsTyped, Placed, Queued
<1>5. e # NoEvent
  BY IdsAssumption
<1>6. Queued' = Queued \cup {e}
  BY <1>2, <1>4, <1>5, EventsOf DEF Queued
<1>7. EventsTyped'
  BY <1>1, <1>2, <1>4 DEF QueueInv, EventsTyped, Owners
<1>8. \A y \in Ids : owner'[y] = "queue" <=> y \in Queued' \cup InQueue(toInsert)
  BY <1>1, <1>6 DEF QueueInv, Placed, EventsTyped
<1>9. /\ Queued' \cap InQueue(toInsert) = {} /\ Single(toInsert)
      /\ \A y \in Elements(events') \cup Elements(toInsert) :
           y.ev # NoEvent => y.key = key[y.ev]
  BY <1>2, <1>3, <1>4, <1>6 DEF QueueInv, Placed
<1>10. InQueue(toInsert)' = InQueue(toInsert) /\ Elements(toInsert)' = Elements(toInsert)
       /\ Single(toInsert)' = Single(toInsert)
  BY <1>1
<1> QED BY <1>1, <1>4, <1>7, <1>8, <1>9, <1>10 DEF QueueInv, Placed

LEMMA BeginPlaced ==
  ASSUME QueueInv, IBegin
  PROVE  QueueInv'
<1>1. /\ UNCHANGED <<toInsert, owner, key, due>> /\ at' = 1
      /\ events' = DropNulls(events)
  BY DEF IBegin
<1>2. /\ events' \in Seq(Entries) /\ Single(events')
      /\ Elements(events') \subseteq Elements(events) /\ InQueue(events') = InQueue(events)
  BY <1>1, DropKeeps DEF QueueInv, EventsTyped, Placed
<1>3. EventsTyped'
  BY <1>1, <1>2 DEF QueueInv, EventsTyped
<1>4. InQueue(toInsert)' = InQueue(toInsert) /\ Elements(toInsert)' = Elements(toInsert)
      /\ Single(toInsert)' = Single(toInsert) /\ Queued' = Queued
  BY <1>1, <1>2 DEF Queued
<1> QED BY <1>1, <1>2, <1>3, <1>4 DEF QueueInv, Placed

LEMMA InsertPlaced ==
  ASSUME QueueInv, clock \in Int, IInsert
  PROVE  QueueInv'
<1>1. /\ UNCHANGED <<owner, key>> /\ at' = 1 /\ toInsert' = <<>>
      /\ events' = InsertAll(events, toInsert)
      /\ due' = [e \in Ids |-> IF e \in InQueue(toInsert) THEN Max2(key[e], clock)
                               ELSE due[e]]
  BY DEF IInsert
<1>2. /\ events' \in Seq(Entries) /\ Single(events')
      /\ Elements(events') = Elements(events) \cup Elements(toInsert)
  BY <1>1, InsertAllKeeps DEF QueueInv, EventsTyped, Placed, Queued
<1>3. due' \in [Ids -> Int]
  BY <1>1 DEF QueueInv, EventsTyped, Max2
<1>4. EventsTyped'
  BY <1>1, <1>2, <1>3 DEF QueueInv, EventsTyped
<1>5. Queued' = Queued \cup InQueue(toInsert)
  BY <1>2, EventsOf DEF Queued
<1>6. InQueue(toInsert)' = {} /\ Elements(toInsert)' = {} /\ Single(toInsert)'
  BY <1>1 DEF InQueue, Elements, Single
<1> QED BY <1>1, <1>2, <1>4, <1>5, <1>6 DEF QueueInv, Placed

LEMMA JoinPlaced ==
  ASSUME QueueInv, toInsert = <<>>, Join
  PROVE  QueueInv'
<1>1. /\ UNCHANGED <<toInsert, at>> /\ events' = <<>>
      /\ owner' = [e \in Ids |-> IF e \in Queued THEN "none" ELSE owner[e]]
      /\ key' = [e \in Ids |-> IF e \in Queued THEN 0 ELSE key[e]]
      /\ due' = [e \in Ids |-> 0]
  BY DEF Join
<1>2. /\ InQueue(<<>>) = {} /\ Elements(<<>>) = {} /\ Single(<<>>) /\ <<>> \in Seq(Entries)
  BY DEF InQueue, Elements, Single
<1>3. EventsTyped'
  BY <1>1, <1>2 DEF QueueInv, EventsTyped, Owners
<1>4. \A e \in Ids : owner'[e] # "queue"
  BY <1>1, <1>2 DEF QueueInv, Placed, Owners
<1> QED BY <1>1, <1>2, <1>3, <1>4 DEF QueueInv, Placed, Queued

\* What raising an event puts aside: the next event of its script, then itself.
Aside(e, sched, to, k) ==
  Entry(to, k) \o Entry(IF sched = 0 THEN NoEvent ELSE e, sched)

LEMMA PutAside ==
  ASSUME NEW e \in Ids, NEW sched \in Int, NEW to \in Ids \cup {NoEvent}, to # e,
         NEW k \in Int
  PROVE  /\ Aside(e, sched, to, k) \in Seq(Entries) /\ Single(Aside(e, sched, to, k))
         /\ InQueue(Aside(e, sched, to, k))
              = ({to} \cup (IF sched = 0 THEN {} ELSE {e})) \ {NoEvent}
         /\ \A x \in Elements(Aside(e, sched, to, k)) :
              (x.ev = to => x.key = k) /\ (x.ev = e => x.key = sched)
<1> DEFINE aside == Aside(e, sched, to, k)
           first == [key |-> k, ev |-> to]
           second == [key |-> sched, ev |-> e]
<1>1. e # NoEvent
  BY IdsAssumption
<1>2. first \in Entries /\ second \in Entries
  BY DEF Entries
<1>3. first.ev = to /\ first.key = k /\ second.ev = e /\ second.key = sched
  OBVIOUS
<1>4. aside = (IF to = NoEvent THEN <<>> ELSE <<first>>)
                \o (IF sched = 0 THEN <<>> ELSE <<second>>)
  BY <1>1, Zenon DEF Aside, Entry
<1> HIDE DEF first, second, aside
<1>5. CASE to = NoEvent /\ sched = 0
  <2>1. aside = <<>> /\ aside \in Seq(Entries) /\ 1 .. Len(aside) = {}
    BY <1>4, <1>5
  <2> QED BY <1>5, <2>1 DEF Single, InQueue, Elements, aside
<1>6. CASE to = NoEvent /\ sched # 0
  <2>1. aside = <<>> \o <<second>>
    BY <1>4, <1>6
  <2>2. aside \in Seq(Entries) /\ 1 .. Len(aside) = {1} /\ aside[1] = second
    BY <1>2, <2>1
  <2>3. Single(aside) /\ InQueue(aside) = {e} /\ Elements(aside) = {second}
    BY <1>1, <1>3, <2>2 DEF Single, InQueue, Elements
  <2> QED BY <1>1, <1>3, <1>6, <2>2, <2>3 DEF aside
<1>7. CASE to # NoEvent /\ sched = 0
  <2>1. aside = <<first>> \o <<>>
    BY <1>4, <1>7
  <2>2. aside \in Seq(Entries) /\ 1 .. Len(aside) = {1} /\ aside[1] = first
    BY <1>2, <2>1
  <2>3. Single(aside) /\ InQueue(aside) = {to} /\ Elements(aside) = {first}
    BY <1>3, <1>7, <2>2 DEF Single, InQueue, Elements
  <2> QED BY <1>1, <1>3, <1>7, <2>2, <2>3 DEF aside
<1>8. CASE to # NoEvent /\ sched # 0
  <2>1. aside = <<first>> \o <<second>>
    BY <1>4, <1>8
  <2>2. /\ aside \in Seq(Entries) /\ 1 .. Len(aside) = {1, 2}
        /\ aside[1] = first /\ aside[2] = second
    BY <1>2, <2>1
  <2>3. Single(aside) /\ InQueue(aside) = {to, e} /\ Elements(aside) = {first, second}
    BY <1>1, <1>3, <1>8, <2>2 DEF Single, InQueue, Elements
  <2> QED BY <1>1, <1>3, <1>8, <2>2, <2>3 DEF aside
<1> QED BY <1>5, <1>6, <1>7, <1>8

LEMMA RaisePlaced ==
  ASSUME QueueInv, IRaise
  PROVE  QueueInv'
<1> DEFINE e == events[at].ev
<1>1. /\ at \in 1 .. Len(events) /\ at' = at + 1
      /\ events' = Release(events, at)
      /\ due' = [x \in Ids |-> IF x = e THEN 0 ELSE due[x]]
  BY DEF IRaise, InBatch, QueueInv, EventsTyped
<1>2. /\ events' \in Seq(Entries) /\ Single(events')
      /\ Queued' = Queued \ {e}
      /\ \A x \in Elements(events') : x.ev # NoEvent => x \in Elements(events)
  BY <1>1, ReleaseKeeps DEF QueueInv, EventsTyped, Placed, Queued
<1>3. due' \in [Ids -> Int] /\ at' \in Nat \ {0}
  BY <1>1 DEF QueueInv, EventsTyped
<1>4. e \in Ids \cup {NoEvent} /\ (e # NoEvent => e \in Queued)
  <2>1. events[at] \in Entries
    BY <1>1 DEF QueueInv, EventsTyped
  <2> QED BY <1>1, <2>1 DEF Entries, Queued, InQueue
<1>5. CASE e = NoEvent
  <2>1. UNCHANGED <<toInsert, owner, key>>
    BY <1>5 DEF IRaise
  <2>2. Queued' = Queued
    BY <1>2, <1>5 DEF Queued, InQueue
  <2>3. EventsTyped'
    BY <1>2, <1>3, <2>1 DEF QueueInv, EventsTyped
  <2>4. Placed'
    BY <1>2, <2>1, <2>2 DEF QueueInv, Placed
  <2> QED BY <2>3, <2>4 DEF QueueInv
<1>6. CASE e # NoEvent
  <2>1. PICK sched \in EventTimes \cup {0}, k \in EventTimes,
             to \in {x \in Ids : owner[x] = "none"} \cup {NoEvent} :
          Raise(e, sched, to, k)
    BY <1>6 DEF IRaise
  <2> DEFINE aside == Aside(e, sched, to, k)
             back == IF sched = 0 THEN {} ELSE {e}
  <2>2. /\ toInsert' = InsertAll(toInsert, aside)
        /\ owner' = [x \in Ids |-> IF x = to THEN "queue"
                                   ELSE IF x = e /\ sched = 0 THEN "none" ELSE owner[x]]
        /\ key' = [x \in Ids |-> IF x = to THEN k ELSE IF x = e THEN sched ELSE key[x]]
    BY <2>1 DEF Raise, Aside
  <2>3. e \in Ids /\ e \in Queued /\ owner[e] = "queue" /\ e \notin InQueue(toInsert)
    BY <1>4, <1>6 DEF QueueInv, Placed
  <2>4. k \in Int /\ sched \in Int
    BY EventTimesAssumption, MaxTimeAssumption
  <2>5. /\ to \in Ids \cup {NoEvent} /\ to # e
        /\ to # NoEvent => to \notin Queued \cup InQueue(toInsert)
    BY <1>6, <2>3 DEF QueueInv, Placed
  <2>6. /\ aside \in Seq(Entries) /\ Single(aside)
        /\ InQueue(aside) = ({to} \cup back) \ {NoEvent}
        /\ \A x \in Elements(aside) :
             (x.ev = to => x.key = k) /\ (x.ev = e => x.key = sched)
    <3>1. e \in Ids /\ sched \in Int /\ to \in Ids \cup {NoEvent} /\ to # e /\ k \in Int
      BY <2>3, <2>4, <2>5
    <3> HIDE DEF e, aside
    <3>2. Aside(e, sched, to, k) = aside
      BY DEF aside
    <3>3. aside \in Seq(Entries) /\ Single(aside)
      BY <3>1, <3>2, PutAside
    <3>4. InQueue(aside) = ({to} \cup (IF sched = 0 THEN {} ELSE {e})) \ {NoEvent}
      BY <3>1, <3>2, PutAside
    <3>5. \A x \in Elements(aside) :
            (x.ev = to => x.key = k) /\ (x.ev = e => x.key = sched)
      <4> SUFFICES ASSUME NEW x \in Elements(Aside(e, sched, to, k))
                   PROVE  (x.ev = to => x.key = k) /\ (x.ev = e => x.key = sched)
        BY <3>2
      <4> QED BY <3>1, PutAside
    <3> QED BY <3>3, <3>4, <3>5
  <2> HIDE DEF aside, back
  <2>7. InQueue(toInsert) \cap InQueue(aside) = {}
    BY <2>3, <2>5, <2>6 DEF back
  <2>8. /\ toInsert' \in Seq(Entries) /\ Single(toInsert')
        /\ Elements(toInsert') = Elements(toInsert) \cup Elements(aside)
    BY <2>2, <2>6, <2>7, InsertAllKeeps DEF QueueInv, EventsTyped, Placed
  <2>9. InQueue(toInsert') = InQueue(toInsert) \cup InQueue(aside)
    BY <2>8, EventsOf
  <2>10. EventsTyped'
    BY <1>2, <1>3, <2>2, <2>4, <2>8 DEF QueueInv, EventsTyped, Owners
  <2>11. Queued' \cap InQueue(toInsert') = {}
    BY <1>2, <2>3, <2>5, <2>6, <2>9 DEF back, QueueInv, Placed
  <2>12. \A x \in Ids : owner'[x] = "queue" <=> x \in Queued' \cup InQueue(toInsert')
    <3>1. \A x \in Ids : x # NoEvent
      BY IdsAssumption
    <3> QED BY <1>2, <2>2, <2>3, <2>5, <2>6, <2>9, <3>1 DEF back, QueueInv, Placed
  <2>13. ASSUME NEW x \in Elements(events') \cup Elements(toInsert'), x.ev # NoEvent
         PROVE  x.key = key'[x.ev]
    <3>1. ASSUME x \in Elements(events) \cup Elements(toInsert), x.ev # e
          PROVE  x.key = key'[x.ev]
      <4>1. x.ev \in Queued \cup InQueue(toInsert)
        BY <2>13, <3>1, EventsOf DEF Queued
      <4>2. x.ev \in Ids /\ x.ev # to
        BY <2>5, <2>13, <4>1, QueuedIds DEF QueueInv, EventsTyped, Queued
      <4>3. key'[x.ev] = key[x.ev]
        BY <2>2, <3>1, <4>2
      <4> QED BY <2>13, <3>1, <4>3 DEF QueueInv, Placed
    <3>2. CASE x \in Elements(events')
      <4>1. x \in Elements(events) /\ x.ev \in InQueue(events')
        BY <1>2, <2>13, <3>2, EventsOf
      <4>2. x.ev # e
        BY <1>2, <4>1 DEF Queued
      <4> QED BY <3>1, <4>1, <4>2
    <3>3. CASE x \in Elements(toInsert)
      <4>1. x.ev # e
        BY <2>3, <2>13, <3>3, EventsOf
      <4> QED BY <3>1, <3>3, <4>1
    <3>4. CASE x \in Elements(aside)
      <4>1. x.ev \in {to, e} /\ x.ev \in Ids
        BY <2>3, <2>5, <2>6, <2>13, <3>4, EventsOf DEF back
      <4>2. CASE x.ev = to
        BY <2>2, <2>6, <3>4, <4>1, <4>2
      <4>3. CASE x.ev # to
        <5> HIDE DEF e
        <5> QED BY <2>2, <2>6, <3>4, <4>1, <4>3
      <4> QED BY <4>2, <4>3
    <3> QED BY <2>8, <3>2, <3>3, <3>4
  <2>14. Placed'
    BY <1>2, <2>8, <2>11, <2>12, <2>13 DEF Placed, Queued
  <2> QED BY <2>10, <2>14 DEF QueueInv
<1> QED BY <1>5, <1>6

LEMMA QueueKept == Spec => []QueueInv
<1> DEFINE others == Numbers /\ DelayShared /\ Resetting
<1>1. Init => QueueInv
  <2> SUFFICES ASSUME Init PROVE QueueInv
    OBVIOUS
  <2>1. <<>> \in Seq(Entries)
    OBVIOUS
  <2>2. EventsTyped
    BY <2>1 DEF Init, EventsTyped, Owners
  <2>3. Placed
    BY DEF Init, Placed, Queued, InQueue, Elements, Single
  <2> QED BY <2>2, <2>3 DEF QueueInv
<1>2. others /\ QueueInv /\ [Next]_vars => QueueInv'
  <2> SUFFICES ASSUME others, QueueInv, [Next]_vars PROVE QueueInv'
    OBVIOUS
  <2>1. due \in [Ids -> Int] /\ at \in Nat \ {0} /\ clock \in Int
    BY DEF QueueInv, EventsTyped, Numbers
  <2> HIDE DEF others
  <2> USE DEF mainVars, injectorVars, eventVars, timeVars
  <2>2. CASE Test
    <3>1. ASSUME NEW e \in Ids, NEW k \in EventTimes, NewEvent(e, k) PROVE QueueInv'
      BY <3>1, NewEventPlaced
    <3>2. ASSUME NEW e \in Ids, AddEvent(e) PROVE QueueInv'
      BY <2>1, <3>2, AddEventPlaced
    <3>3. ASSUME NEW v \in {"LOW", "HIGH"}, WritePin(v) PROVE QueueInv'
      BY <2>1, <3>3, PlacedSame DEF WritePin
    <3>4. ASSUME NEW t \in Times, SetMicros(t) PROVE QueueInv'
      <4>1. t \in Int
        BY MaxTimeAssumption DEF Times
      <4>2. due' \in [Ids -> Int]
        BY <3>4, <4>1 DEF SetMicros, QueueInv, EventsTyped, Max2
      <4> QED BY <2>1, <3>4, <4>2, PlacedSame DEF SetMicros
    <3>5. ASSUME NEW t \in Times, DelayAlone(t) \/ DelayBegin(t) PROVE QueueInv'
      BY <2>1, <3>5, PlacedSame DEF DelayAlone, DelayBegin
    <3>6. CASE ResetBegin
      BY <2>1, <3>6, PlacedSame DEF ResetBegin
    <3> QED
      BY <2>2, <3>1, <3>2, <3>3, <3>4, <3>5, <3>6 DEF Test
  <2>3. CASE Library
    <3>1. CASE Join
      <4>1. toInsert = <<>>
        BY <3>1 DEF Join, Resetting, others
      <4> QED BY <3>1, <4>1, JoinPlaced
    <3>2. CASE ~Join
      BY <2>1, <2>3, <3>2, PlacedSame
         DEF Library, DelayEnd, ResetTime, ResetPins, ResetStopped, ResetStop, ResetEnd
    <3> QED BY <3>1, <3>2
  <2>4. CASE Loop
    <3>1. CASE IBegin
      BY <3>1, BeginPlaced
    <3>2. CASE IRaise
      BY <3>2, RaisePlaced
    <3>3. CASE IInsert
      BY <2>1, <3>3, InsertPlaced
    <3>4. CASE IExit \/ INoAdvance \/ IAdvance \/ IStore
      BY <2>1, <3>4, PlacedSame DEF IExit, INoAdvance, IAdvance, IStore
    <3> QED
      BY <2>4, <3>1, <3>2, <3>3, <3>4 DEF Loop
  <2>5. CASE Tick \/ UNCHANGED vars
    BY <2>1, <2>5, PlacedSame DEF Tick, vars
  <2> QED
    BY <2>2, <2>3, <2>4, <2>5 DEF Next
<1> QED
  BY <1>1, <1>2, SharedKept, ResettingKept, PTL DEF Spec, others

\* An event that is in the queue's hands is at one place of the queue or of what
\* is on its way back into it, and at none otherwise, through every raise(),
\* reschedule, chained event and reset().
THEOREM EventsOwnedOnce == Spec => []OwnedOnce
<1>1. QueueInv => OwnedOnce
  <2> SUFFICES ASSUME QueueInv, NEW e \in Ids
               PROVE  Cardinality(Places(e)) = IF owner[e] = "queue" THEN 1 ELSE 0
    BY DEF OwnedOnce
  <2>0. e # NoEvent
    BY IdsAssumption
  <2>1. CASE e \in Queued
    <3>1. PICK i \in 1 .. Len(events) : events[i].ev = e
      BY <2>1 DEF Queued, InQueue
    <3>2. e \notin InQueue(toInsert) /\ owner[e] = "queue"
      BY <2>1 DEF QueueInv, Placed
    <3>3. \A j \in 1 .. Len(events) : events[j].ev = e <=> j = i
      BY <2>0, <3>1 DEF QueueInv, Placed, Single
    <3>4. \A j \in 1 .. Len(toInsert) : toInsert[j].ev # e
      BY <2>0, <3>2 DEF InQueue
    <3>5. Places(e) = {<<"queue", i>>}
      BY <3>3, <3>4 DEF Places
    <3> QED BY <3>2, <3>5, FS_Singleton
  <2>2. CASE e \in InQueue(toInsert)
    <3>1. PICK i \in 1 .. Len(toInsert) : toInsert[i].ev = e
      BY <2>2 DEF InQueue
    <3>2. e \notin Queued /\ owner[e] = "queue"
      BY <2>2 DEF QueueInv, Placed
    <3>3. \A j \in 1 .. Len(toInsert) : toInsert[j].ev = e <=> j = i
      BY <2>0, <3>1 DEF QueueInv, Placed, Single
    <3>4. \A j \in 1 .. Len(events) : events[j].ev # e
      BY <2>0, <3>2 DEF Queued, InQueue
    <3>5. Places(e) = {<<"insert", i>>}
      BY <3>3, <3>4 DEF Places
    <3> QED BY <3>2, <3>5, FS_Singleton
  <2>3. CASE e \notin Queued \cup InQueue(toInsert)
    <3>1. owner[e] # "queue"
      BY <2>3 DEF QueueInv, Placed
    <3>2. Places(e) = {}
      BY <2>0, <2>3 DEF Places, Queued, InQueue
    <3> QED BY <3>1, <3>2, FS_EmptySet
  <2> QED BY <2>1, <2>2, <2>3
<1> QED
  BY <1>1, QueueKept, PTL

-----------------------------------------------------------------------------
(* Simulated time waits for the events.                                      *)

\* There is a thread whenever there is an event, because a test that calls
\* reset() owns none (the join that follows ends the thread).
Attended ==
  /\ ipc = "off" => Alive = {}
  /\ mpc \in {"reset", "join"} => \A e \in Ids : owner[e] # "test"

OnTime(e) == key[e] <= due[e] /\ (~realTime => clock < due[e] + Step)

TimeInv ==
  /\ Attended
  /\ Sorted(events)
  /\ \A e \in Queued : OnTime(e)

\* The steps that move neither an event nor the simulated clock.
LEMMA TimeSame ==
  ASSUME TimeInv, Attended', UNCHANGED <<events, key, due>>,
         realTime' \/ UNCHANGED <<realTime, clock>>
  PROVE  TimeInv'
<1>1. Sorted(events)' = Sorted(events) /\ Queued' = Queued
  BY DEF Sorted, Queued, InQueue
<1>2. \A e \in Queued : OnTime(e)'
  BY DEF TimeInv, OnTime
<1> QED BY <1>1, <1>2 DEF TimeInv

\* The first event that is left has the smallest key of those in the queue.
LEMMA NoneDue ==
  ASSUME EventsTyped, Sorted(events), ~EventDue, clock \in Int,
         NEW i \in 1 .. Len(events), events[i].ev # NoEvent
  PROVE  events[i].key > clock
<1> DEFINE T == {j \in 1 .. Len(events) : events[j].ev # NoEvent}
<1>1. T \in SUBSET Nat /\ i \in T
  OBVIOUS
<1>2. PICK m \in T : \A j \in T : m <= j
  <2> HIDE DEF T
  <2> QED BY <1>1, Smallest
<1>3. m \in 1 .. Len(events) /\ events[m].ev # NoEvent /\ m <= i
  BY <1>2
<1>4. \A j \in 1 .. m - 1 : events[j].ev = NoEvent
  BY <1>2
<1>5. ~(events[m].key <= clock)
  <2> HIDE DEF T
  <2> QED BY <1>3, <1>4, Zenon DEF EventDue
<1>6. events[m].key <= events[i].key
  BY <1>3 DEF Sorted
<1>7. events[m].key \in Int /\ events[i].key \in Int
  <2>1. events[m] \in Entries /\ events[i] \in Entries
    BY <1>3 DEF EventsTyped
  <2> QED BY <2>1 DEF Entries
<1> QED BY <1>5, <1>6, <1>7

LEMMA AdvanceTimed ==
  ASSUME QueueInv, TimeInv, clock \in Int, forward \in Int, IAdvance
  PROVE  TimeInv'
<1>1. /\ UNCHANGED <<mpc, events, owner, key, due, realTime>>
      /\ ipc' # "off" /\ ~EventDue
      /\ clock' = clock + inc' /\ inc' = IF Step > forward THEN forward ELSE Step
  BY DEF IAdvance, mainVars, eventVars
<1>2. Attended'
  BY <1>1 DEF TimeInv, Attended
<1>3. Queued' = Queued /\ Sorted(events)' = Sorted(events)
  BY <1>1 DEF Queued, InQueue, Sorted
<1>4. ASSUME NEW e \in Queued PROVE OnTime(e)'
  <2>1. PICK i \in 1 .. Len(events) : events[i].ev = e /\ e # NoEvent
    BY DEF Queued, InQueue
  <2>2. events[i].key > clock
    BY <1>1, <2>1, NoneDue DEF QueueInv, TimeInv
  <2>3. events[i].key = key[e]
    BY <2>1 DEF QueueInv, Placed, Elements
  <2>4. key[e] \in Int /\ due[e] \in Int /\ key[e] <= due[e]
    BY QueuedIds DEF QueueInv, EventsTyped, Queued, TimeInv, OnTime
  <2>5. inc' <= Step /\ inc' \in Int /\ Step \in Int
    BY <1>1, StepAssumption
  <2> QED BY <1>1, <2>2, <2>3, <2>4, <2>5 DEF OnTime
<1> QED BY <1>2, <1>3, <1>4 DEF TimeInv

LEMMA AddEventTimed ==
  ASSUME QueueInv, TimeInv, clock \in Int, NEW e \in Ids, AddEvent(e)
  PROVE  TimeInv'
<1> DEFINE x == [key |-> key[e], ev |-> e]
<1>1. /\ UNCHANGED <<mpc, ipc, key, realTime, clock>> /\ owner[e] = "test" /\ mpc = "run"
      /\ due' = [due EXCEPT ![e] = Max2(key[e], clock)]
      /\ events' = Insert(events, x)
  BY DEF AddEvent, injectorVars, mainVars, timeVars
<1>2. x \in Entries /\ x.ev = e
  BY DEF QueueInv, EventsTyped, Entries
<1> HIDE DEF x
<1>3. Sorted(events') /\ Elements(events') = Elements(events) \cup {x}
  BY <1>1, <1>2, InsertKeeps DEF QueueInv, EventsTyped, TimeInv
<1>4. Queued' \subseteq Queued \cup {e} /\ Queued \subseteq Ids
  BY <1>2, <1>3, EventsOf, QueuedIds DEF Queued, QueueInv, EventsTyped
<1>5. ipc # "off"
  BY <1>1 DEF TimeInv, Attended, Alive
<1>6. Attended'
  BY <1>1, <1>5 DEF Attended
<1>7. OnTime(e)'
  <2>1. key'[e] = key[e] /\ due'[e] = Max2(key[e], clock) /\ key[e] \in Int
    BY <1>1 DEF QueueInv, EventsTyped
  <2> QED BY <1>1, <2>1, StepAssumption DEF OnTime, Max2
<1>8. ASSUME NEW y \in Queued, y # e PROVE OnTime(y)'
  <2>1. due'[y] = due[y]
    BY <1>1, <1>4, <1>8 DEF QueueInv, EventsTyped
  <2> QED BY <1>1, <2>1 DEF OnTime, TimeInv
<1> QED BY <1>3, <1>4, <1>6, <1>7, <1>8 DEF TimeInv

LEMMA SetMicrosTimed ==
  ASSUME QueueInv, TimeInv, NEW t \in Times, SetMicros(t)
  PROVE  TimeInv'
<1>1. /\ UNCHANGED <<mpc, ipc, owner, events, key>> /\ clock' = t
      /\ due' = [e \in Ids |-> IF e \in Queued THEN Max2(key[e], t) ELSE due[e]]
  BY DEF SetMicros, injectorVars, mainVars
<1>2. Attended'
  BY <1>1 DEF TimeInv, Attended, Alive
<1>3. Queued' = Queued /\ Sorted(events)' = Sorted(events) /\ Queued \subseteq Ids
  BY <1>1, QueuedIds DEF Queued, InQueue, Sorted, QueueInv, EventsTyped
<1>4. ASSUME NEW e \in Queued PROVE OnTime(e)'
  <2>1. e \in Ids /\ key[e] \in Int /\ t \in Int
    BY <1>3, MaxTimeAssumption DEF QueueInv, EventsTyped, Times
  <2>2. due'[e] = Max2(key[e], t) /\ key'[e] = key[e]
    BY <1>1, <2>1
  <2> QED BY <1>1, <2>1, <2>2, StepAssumption DEF OnTime, Max2
<1> QED BY <1>2, <1>3, <1>4 DEF TimeInv

LEMMA BeginTimed ==
  ASSUME QueueInv, TimeInv, IBegin
  PROVE  TimeInv'
<1>1. /\ UNCHANGED <<mpc, owner, key, due, realTime, clock>> /\ ipc' # "off"
      /\ events' = DropNulls(events)
  BY DEF IBegin, mainVars, timeVars
<1>2. Sorted(events') /\ Queued' = Queued
  BY <1>1, DropKeeps DEF QueueInv, EventsTyped, TimeInv, Queued
<1>3. Attended'
  BY <1>1 DEF TimeInv, Attended
<1>4. \A e \in Queued : OnTime(e)'
  BY <1>1 DEF OnTime, TimeInv
<1> QED BY <1>2, <1>3, <1>4 DEF TimeInv

LEMMA InsertTimed ==
  ASSUME QueueInv, TimeInv, clock \in Int, IInsert
  PROVE  TimeInv'
<1>1. /\ UNCHANGED <<mpc, owner, key, realTime, clock>> /\ ipc' # "off"
      /\ events' = InsertAll(events, toInsert)
      /\ due' = [e \in Ids |-> IF e \in InQueue(toInsert) THEN Max2(key[e], clock)
                               ELSE due[e]]
  BY DEF IInsert, mainVars, timeVars
<1>2. /\ Sorted(events')
      /\ Elements(events') = Elements(events) \cup Elements(toInsert)
  BY <1>1, InsertAllKeeps DEF QueueInv, EventsTyped, TimeInv
<1>3. Queued' = Queued \cup InQueue(toInsert)
  BY <1>2, EventsOf DEF Queued
<1>4. Attended'
  BY <1>1 DEF TimeInv, Attended
<1>5. ASSUME NEW e \in Queued \cup InQueue(toInsert) PROVE OnTime(e)'
  <2>1. e \in Ids /\ key[e] \in Int
    BY QueuedIds DEF QueueInv, EventsTyped, Queued
  <2>2. CASE e \in InQueue(toInsert)
    <3>1. due'[e] = Max2(key[e], clock)
      BY <1>1, <2>1, <2>2
    <3> QED BY <1>1, <2>1, <3>1, StepAssumption DEF OnTime, Max2
  <2>3. CASE e \notin InQueue(toInsert)
    <3>1. due'[e] = due[e]
      BY <1>1, <2>1, <2>3
    <3> QED BY <1>1, <2>3, <3>1 DEF OnTime, TimeInv
  <2> QED BY <2>2, <2>3
<1> QED BY <1>2, <1>3, <1>4, <1>5 DEF TimeInv

LEMMA RaiseTimed ==
  ASSUME QueueInv, TimeInv, IRaise
  PROVE  TimeInv'
<1> DEFINE e == events[at].ev
<1>1. /\ at \in 1 .. Len(events) /\ events' = Release(events, at)
      /\ due' = [x \in Ids |-> IF x = e THEN 0 ELSE due[x]]
      /\ UNCHANGED <<mpc, ipc, realTime, clock>> /\ ipc # "off"
  BY DEF IRaise, InBatch, QueueInv, EventsTyped, mainVars, timeVars
<1>2. Sorted(events') /\ Queued' = Queued \ {e} /\ Queued \subseteq Ids
  BY <1>1, ReleaseKeeps, QueuedIds
     DEF QueueInv, EventsTyped, Placed, Queued, TimeInv
<1>3. CASE e = NoEvent
  <2>1. UNCHANGED <<owner, key>>
    BY <1>3 DEF IRaise
  <2>2. Attended'
    BY <1>1, <2>1 DEF TimeInv, Attended
  <2>3. ASSUME NEW x \in Queued \ {e} PROVE OnTime(x)'
    <3>1. due'[x] = due[x]
      BY <1>1, <1>2
    <3> QED BY <1>1, <2>1, <3>1 DEF TimeInv, OnTime
  <2> QED BY <1>2, <2>2, <2>3 DEF TimeInv
<1>4. CASE e # NoEvent
  <2>1. PICK sched \in EventTimes \cup {0}, k \in EventTimes,
             to \in {x \in Ids : owner[x] = "none"} \cup {NoEvent} :
          Raise(e, sched, to, k)
    BY <1>4 DEF IRaise
  <2>2. /\ owner' = [x \in Ids |-> IF x = to THEN "queue"
                                   ELSE IF x = e /\ sched = 0 THEN "none" ELSE owner[x]]
        /\ key' = [x \in Ids |-> IF x = to THEN k ELSE IF x = e THEN sched ELSE key[x]]
    BY <2>1 DEF Raise
  <2>3. Attended'
    BY <1>1, <2>2 DEF TimeInv, Attended
  <2>4. ASSUME NEW x \in Queued \ {e} PROVE OnTime(x)'
    <3>1. x \in Ids /\ owner[x] = "queue" /\ x # NoEvent
      BY <1>2, IdsAssumption DEF QueueInv, Placed
    <3>2. x # to
      BY <3>1
    <3>3. due'[x] = due[x] /\ key'[x] = key[x]
      BY <1>1, <2>2, <2>4, <3>1, <3>2
    <3> QED BY <1>1, <3>3 DEF TimeInv, OnTime
  <2> QED BY <1>2, <2>3, <2>4 DEF TimeInv
<1> QED BY <1>3, <1>4

LEMMA JoinTimed ==
  ASSUME QueueInv, TimeInv, toInsert = <<>>, Join
  PROVE  TimeInv'
<1>1. /\ events' = <<>> /\ mpc = "join"
      /\ owner' = [e \in Ids |-> IF e \in Queued THEN "none" ELSE owner[e]]
  BY DEF Join
<1>2. \A e \in Ids : owner'[e] = "none"
  BY <1>1 DEF QueueInv, EventsTyped, Placed, TimeInv, Attended, Owners, InQueue
<1>3. Attended'
  BY <1>2 DEF Attended, Alive
<1> QED BY <1>1, <1>3 DEF TimeInv, Sorted, Queued, InQueue

LEMMA NewEventTimed ==
  ASSUME QueueInv, TimeInv, NEW e \in Ids, NEW k \in EventTimes, NewEvent(e, k)
  PROVE  TimeInv'
<1>1. /\ UNCHANGED <<mpc, events, due, realTime, clock>> /\ mpc = "run"
      /\ owner[e] = "none" /\ key' = [key EXCEPT ![e] = k]
      /\ IF Alive = {} /\ ipc = "off" THEN ipc' = "top" ELSE UNCHANGED ipc
  BY DEF NewEvent, mainVars, timeVars
<1>2. Attended'
  BY <1>1 DEF TimeInv, Attended
<1>3. e \notin Queued
  BY <1>1 DEF QueueInv, Placed
<1>4. \A x \in Queued : OnTime(x)'
  <2> SUFFICES ASSUME NEW x \in Queued PROVE OnTime(x)'
    OBVIOUS
  <2>1. x \in Ids
    BY QueuedIds DEF QueueInv, EventsTyped, Queued
  <2>2. key'[x] = key[x]
    BY <1>1, <1>3, <2>1 DEF QueueInv, EventsTyped
  <2> QED BY <1>1, <2>2 DEF TimeInv, OnTime
<1>5. Queued' = Queued /\ Sorted(events)' = Sorted(events)
  BY <1>1 DEF Queued, InQueue, Sorted
<1> QED BY <1>2, <1>4, <1>5 DEF TimeInv

LEMMA DelayAloneTimed ==
  ASSUME QueueInv, TimeInv, NEW t \in Times, DelayAlone(t)
  PROVE  TimeInv'
<1>1. /\ UNCHANGED <<mpc, ipc, events, owner>> /\ ipc = "off"
  BY DEF DelayAlone, mainVars, injectorVars, eventVars
<1>2. Alive = {}
  BY <1>1 DEF TimeInv, Attended
<1>3. Queued = {}
  BY <1>2, QueuedIds DEF Alive, QueueInv, EventsTyped, Placed, Queued
<1>4. Attended' /\ Queued' = {} /\ Sorted(events)'
  BY <1>1, <1>3 DEF TimeInv, Attended, Alive, Queued, InQueue, Sorted
<1> QED BY <1>4 DEF TimeInv

LEMMA TimeKept ==
  ASSUME HoldsEvents = FALSE
  PROVE  Spec => []TimeInv
<1> DEFINE others == Numbers /\ DelayShared /\ Resetting /\ QueueInv
<1>1. Init => TimeInv
  BY DEF Init, TimeInv, Attended, Alive, Sorted, Queued, InQueue
<1>2. others /\ TimeInv /\ [Next]_vars => TimeInv'
  <2> SUFFICES ASSUME others, TimeInv, [Next]_vars PROVE TimeInv'
    OBVIOUS
  <2>1. QueueInv /\ clock \in Int /\ forward \in Int
    BY DEF Numbers
  <2>2. Attended
    BY DEF TimeInv
  <2> USE DEF mainVars, injectorVars, eventVars, timeVars
  <2>3. CASE Test
    <3> HIDE DEF others
    <3>1. ASSUME NEW e \in Ids, NEW k \in EventTimes, NewEvent(e, k) PROVE TimeInv'
      BY <2>1, <3>1, NewEventTimed
    <3>2. ASSUME NEW e \in Ids, AddEvent(e) PROVE TimeInv'
      BY <2>1, <3>2, AddEventTimed
    <3>3. ASSUME NEW v \in {"LOW", "HIGH"}, WritePin(v) PROVE TimeInv'
      BY <2>2, <3>3, TimeSame DEF WritePin, Attended, Alive
    <3>4. ASSUME NEW t \in Times, SetMicros(t) PROVE TimeInv'
      BY <2>1, <3>4, SetMicrosTimed
    <3>5. ASSUME NEW t \in Times, DelayAlone(t) PROVE TimeInv'
      BY <2>1, <3>5, DelayAloneTimed
    <3>6. ASSUME NEW t \in Times, DelayBegin(t) PROVE TimeInv'
      BY <2>2, <3>6, TimeSame DEF DelayBegin, Attended, Alive
    <3>7. CASE ResetBegin
      BY <2>2, <3>7, TimeSame DEF ResetBegin, Attended, Alive
    <3> QED
      BY <2>3, <3>1, <3>2, <3>3, <3>4, <3>5, <3>6, <3>7 DEF Test
  <2>4. CASE Library
    <3>1. CASE Join
      <4>1. toInsert = <<>>
        BY <3>1 DEF Join, Resetting
      <4> QED BY <2>1, <3>1, <4>1, JoinTimed
    <3> HIDE DEF others
    <3>2. CASE DelayEnd \/ ResetPins \/ ResetStopped \/ ResetStop
      BY <2>2, <3>2, TimeSame
         DEF DelayEnd, ResetPins, ResetStopped, ResetStop, ResetCalls, Attended, Alive
    <3>3. CASE ResetTime \/ ResetEnd
      BY <2>2, <3>3, TimeSame DEF ResetTime, ResetEnd, ResetCalls, Attended, Alive
    <3> QED BY <2>4, <3>1, <3>2, <3>3 DEF Library
  <2>5. CASE Loop
    <3> HIDE DEF others
    <3>1. CASE IBegin
      BY <2>1, <3>1, BeginTimed
    <3>2. CASE IRaise
      BY <2>1, <3>2, RaiseTimed
    <3>3. CASE IInsert
      BY <2>1, <3>3, InsertTimed
    <3>4. CASE IAdvance
      BY <2>1, <3>4, AdvanceTimed
    <3>5. CASE IExit \/ INoAdvance \/ IStore
      BY <2>2, <3>5, TimeSame DEF IExit, INoAdvance, IStore, Attended, Alive
    <3> QED
      BY <2>5, <3>1, <3>2, <3>3, <3>4, <3>5 DEF Loop
  <2>6. CASE Tick \/ UNCHANGED vars
    BY <2>2, <2>6, TimeSame DEF Tick, vars, Attended, Alive
  <2> QED
    BY <2>3, <2>4, <2>5, <2>6 DEF Next
<1> QED
  BY <1>1, <1>2, SharedKept, ResettingKept, QueueKept, PTL DEF Spec, others

\* However many events are due at once and whatever they do to the queue,
\* simulated time moves at most one turn past the moment an event should be
\* raised, as long as no test calls reset() while it still owns an event: such an
\* event can be queued later with no thread to raise it.
THEOREM TimeWaits ==
  ASSUME HoldsEvents = FALSE
  PROVE  Spec => []TimeWaitsForEvents
<1>1. TimeInv => TimeWaitsForEvents
  BY DEF TimeInv, OnTime, TimeWaitsForEvents
<1> QED
  BY <1>1, TimeKept, PTL

=============================================================================
