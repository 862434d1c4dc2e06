------------------------------- MODULE TextProofs -------------------------------
(***************************************************************************)
(* Proofs about what reads and writes text: the serial ports, for any      *)
(* number of bytes sent, taken and printed; the parsing methods of Stream, *)
(* for any characters that arrive and any targets; and the test scripts,   *)
(* for any script, step and time.                                          *)
(***************************************************************************)
EXTENDS MCText, FiniteSetTheorems, WellFoundedInduction, TLAPS

LEMMA SerialPart == [TextNext]_textVars => [I!Next]_(I!vars)
BY Zenon DEF TextNext, StringStep, NumberStep, AddressStep, SerialStep, StreamStep, ScriptStep,
             textVars, serialVars, I!vars

-----------------------------------------------------------------------------
(* Serial ports: what is read.                                              *)

\* The bytes in the queue are in order as well, behind what was read and is held.
Arrivals ==
    /\ sent \in Nat /\ wire \in Seq(1..sent) /\ received \in Seq(0..sent)
    /\ bufch \in {I!Empty} \cup 0..sent /\ dropped \subseteq 1..sent
    /\ \A i, j \in 1..Len(wire) : i < j => wire[i] < wire[j]

\* What available() promised is there.
Promised ==
    told /\ (kind = "pty" => ~hungUp) => I!Open /\ I!Fetched # I!Empty

ReadInv == Arrivals /\ I!ReadInOrder /\ Promised

LEMMA TailFacts ==
    ASSUME NEW T, NEW s \in Seq(T), s # <<>>
    PROVE  /\ Head(s) = s[1] /\ s[1] \in T /\ Len(s) >= 1 /\ Len(s) \in Nat
           /\ Tail(s) \in Seq(T) /\ Len(Tail(s)) = Len(s) - 1
           /\ \A i \in 1..Len(s) - 1 : Tail(s)[i] = s[i + 1]
OBVIOUS

LEMMA AppendFacts ==
    ASSUME NEW T, NEW s \in Seq(T), NEW x \in T
    PROVE  /\ Append(s, x) \in Seq(T) /\ Len(Append(s, x)) = Len(s) + 1 /\ Len(s) \in Nat
           /\ \A i \in 1..Len(s) : Append(s, x)[i] = s[i]
           /\ Append(s, x)[Len(s) + 1] = x
OBVIOUS

(* The byte that Fetched takes from the queue is its least one.            *)
LEMMA FetchedFacts ==
    ASSUME ReadInv
    PROVE  /\ I!Left \in Seq(1..sent) /\ I!Fetched \in {I!Empty} \cup 0..sent
           /\ \A i, j \in 1..Len(I!Left) : i < j => I!Left[i] < I!Left[j]
           /\ \A i \in 1..Len(I!Left) : I!Fetched < I!Left[i]
           /\ {I!Left[i] : i \in 1..Len(I!Left)} \cup (IF I!Fetched > 0 THEN {I!Fetched} ELSE {})
                = I!Queued \cup I!Held
           /\ bufch # I!Empty => I!Fetched = bufch
           /\ I!Fetched = I!Phantom => bufch = I!Phantom
           /\ \A b \in I!Bytes(received) : I!Fetched > 0 => b < I!Fetched
<1> USE DEF I!Empty, I!Phantom
<1>1. /\ sent \in Nat /\ wire \in Seq(1..sent) /\ Len(wire) \in Nat
      /\ \A i \in 1..Len(wire) : wire[i] \in 1..sent
      /\ bufch \in {-1} \cup 0..sent
      /\ \A i, j \in 1..Len(wire) : i < j => wire[i] < wire[j]
  BY DEF ReadInv, Arrivals
<1>2. I!Queued = {wire[i] : i \in 1..Len(wire)}
  BY <1>1 DEF I!Queued
<1>3. CASE I!Open /\ bufch = -1 /\ wire # <<>>
  <2>1. I!Fetched = Head(wire) /\ I!Left = Tail(wire) /\ I!Held = {}
    BY <1>3 DEF I!Fetched, I!Left, I!Held
  <2>2. /\ Head(wire) = wire[1] /\ wire[1] \in 1..sent /\ Len(wire) >= 1
        /\ Tail(wire) \in Seq(1..sent) /\ Len(Tail(wire)) = Len(wire) - 1
        /\ \A i \in 1..Len(wire) - 1 : Tail(wire)[i] = wire[i + 1]
    BY <1>1, <1>3, TailFacts
  <2>3. \A i \in 1..Len(wire) - 1 : i + 1 \in 1..Len(wire) /\ wire[1] < wire[i + 1]
    BY <1>1
  <2>4. {Tail(wire)[i] : i \in 1..Len(wire) - 1} \cup {wire[1]} = {wire[i] : i \in 1..Len(wire)}
    <3>1. ASSUME NEW i \in 1..Len(wire), i # 1
          PROVE  wire[i] \in {Tail(wire)[k] : k \in 1..Len(wire) - 1}
      <4>1. i - 1 \in 1..Len(wire) - 1 /\ (i - 1) + 1 = i
        BY <1>1, <3>1
      <4> QED BY <2>2, <4>1
    <3>2. 1 \in 1..Len(wire) /\ \A i \in 1..Len(wire) - 1 : i + 1 \in 1..Len(wire)
      BY <1>1, <2>2
    <3>3. \A i \in 1..Len(wire) - 1 : Tail(wire)[i] \in {wire[k] : k \in 1..Len(wire)}
      BY <2>2, <3>2
    <3>4. wire[1] \in {wire[k] : k \in 1..Len(wire)}
      BY <3>2
    <3>5. \A i \in 1..Len(wire) :
            wire[i] \in {Tail(wire)[k] : k \in 1..Len(wire) - 1} \cup {wire[1]}
      BY <3>1
    <3> QED BY <2>2, <3>3, <3>4, <3>5
  <2>5. \A i, j \in 1..Len(wire) - 1 : i < j => Tail(wire)[i] < Tail(wire)[j]
    BY <1>1, <2>2
  <2>6. \A b \in I!Bytes(received) : b < wire[1]
    BY <1>1, <1>2, <2>2 DEF ReadInv, I!ReadInOrder
  <2>7. wire[1] > 0 /\ wire[1] # -1 /\ wire[1] # 0 /\ wire[1] \in 0..sent
    BY <1>1, <2>2
  <2>8. /\ I!Left \in Seq(1..sent) /\ I!Fetched \in {-1} \cup 0..sent
        /\ \A i, j \in 1..Len(I!Left) : i < j => I!Left[i] < I!Left[j]
        /\ \A i \in 1..Len(I!Left) : I!Fetched < I!Left[i]
    BY <2>1, <2>2, <2>3, <2>5, <2>7
  <2>9. {I!Left[i] : i \in 1..Len(I!Left)} \cup (IF I!Fetched > 0 THEN {I!Fetched} ELSE {})
          = I!Queued \cup I!Held
    BY <1>2, <2>1, <2>2, <2>4, <2>7
  <2> QED BY <1>3, <2>1, <2>2, <2>6, <2>7, <2>8, <2>9
<1>4. CASE ~(I!Open /\ bufch = -1 /\ wire # <<>>)
  <2>1. I!Fetched = bufch /\ I!Left = wire
    BY <1>4 DEF I!Fetched, I!Left
  <2>2. \A i \in 1..Len(wire) : bufch < wire[i]
    <3>1. CASE bufch > 0
      BY <1>1, <1>2, <3>1 DEF ReadInv, I!ReadInOrder, I!Held
    <3>2. CASE ~(bufch > 0)
      BY <1>1, <3>2
    <3> QED BY <3>1, <3>2
  <2>3. \A b \in I!Bytes(received) : bufch > 0 => b < bufch
    BY DEF ReadInv, I!ReadInOrder, I!Held
  <2> QED BY <1>1, <1>2, <2>1, <2>2, <2>3 DEF I!Held
<1> QED BY <1>3, <1>4

LEMMA QueuedIs ==
    ASSUME Arrivals
    PROVE  /\ I!Queued = {wire[i] : i \in 1..Len(wire)}
           /\ I!Bytes(received) = {received[i] : i \in 1..Len(received)} \ {0}
           /\ DOMAIN received = 1..Len(received)
BY DEF Arrivals, I!Queued, I!Bytes, I!Phantom

LEMMA FetchKeeps ==
    ASSUME ReadInv, bufch' = I!Fetched, wire' = I!Left,
           UNCHANGED <<kind, begun, hungUp, sent, received, dropped>>
    PROVE  Arrivals' /\ I!ReadInOrder'
<1> USE DEF I!Empty, I!Phantom
<1>1. Arrivals'
  BY FetchedFacts DEF ReadInv, Arrivals
<1>2. /\ I!Held' = IF I!Fetched > 0 THEN {I!Fetched} ELSE {}
      /\ I!Queued' = {I!Left[i] : i \in 1..Len(I!Left)}
  <2>1. I!Queued' = {wire'[i] : i \in DOMAIN wire'}
    BY DEF I!Queued
  <2>2. DOMAIN wire' = 1..Len(I!Left)
    BY FetchedFacts
  <2> QED BY <2>1, <2>2 DEF I!Held
<1>3. I!Held' \cup I!Queued' = I!Held \cup I!Queued
  BY <1>2, FetchedFacts
<1>4. \A b \in I!Bytes(received), c \in I!Held' : b < c
  BY <1>2, FetchedFacts
<1>5. \A b \in I!Bytes(received) \cup I!Held', c \in I!Queued' : b < c
  <2>1. \A b \in I!Held', c \in I!Queued' : b < c
    BY <1>2, FetchedFacts
  <2>2. \A b \in I!Bytes(received), c \in I!Held \cup I!Queued : b < c
    BY DEF ReadInv, I!ReadInOrder
  <2> QED BY <1>3, <2>1, <2>2
<1>6. bufch' = 0 => ~begun /\ received = <<>>
  BY FetchedFacts DEF ReadInv, I!ReadInOrder
<1>7. /\ 1..sent = I!Bytes(received) \cup I!Held' \cup I!Queued' \cup dropped
      /\ dropped \cap (I!Bytes(received) \cup I!Held' \cup I!Queued') = {}
  BY <1>3 DEF ReadInv, I!ReadInOrder
<1>8. I!Bytes(received)' = I!Bytes(received)
  BY DEF I!Bytes
<1> QED BY <1>1, <1>4, <1>5, <1>6, <1>7, <1>8 DEF ReadInv, I!ReadInOrder

LEMMA ReadKeeps ==
    ASSUME ReadInv, I!Read
    PROVE  Arrivals' /\ I!ReadInOrder'
<1> USE DEF I!Empty, I!Phantom
<1> DEFINE n == Len(received)
           more == IF I!Fetched > 0 THEN {I!Fetched} ELSE {}
<1>1. /\ bufch' = -1 /\ wire' = I!Left /\ UNCHANGED <<kind, begun, hungUp, sent, dropped>>
      /\ received' = IF I!Fetched = -1 THEN received ELSE Append(received, I!Fetched)
  BY DEF I!Read
<1>2. received \in Seq(0..sent) /\ n \in Nat /\ \A i \in 1..n : received[i] \in 0..sent
  BY DEF ReadInv, Arrivals
<1>3. I!Fetched \in {-1} \cup 0..sent /\ sent \in Nat
  BY FetchedFacts DEF ReadInv, Arrivals
<1>4. /\ received' \in Seq(0..sent)
      /\ I!Fetched = -1 => received' = received
      /\ I!Fetched # -1 =>
           /\ Len(received') = n + 1 /\ received'[n + 1] = I!Fetched
           /\ \A i \in 1..n : received'[i] = received[i]
  <2>1. CASE I!Fetched = -1
    BY <1>1, <1>2, <2>1
  <2>2. CASE I!Fetched # -1
    <3>1. I!Fetched \in 0..sent /\ received' = Append(received, I!Fetched)
      BY <1>1, <1>3, <2>2
    <3>2. /\ Append(received, I!Fetched) \in Seq(0..sent)
          /\ Len(Append(received, I!Fetched)) = Len(received) + 1
          /\ \A i \in 1..Len(received) : Append(received, I!Fetched)[i] = received[i]
          /\ Append(received, I!Fetched)[Len(received) + 1] = I!Fetched
      BY <1>2, <3>1, AppendFacts
    <3> QED BY <2>2, <3>1, <3>2
  <2> QED BY <2>1, <2>2
<1>5. Arrivals'
  BY <1>1, <1>4, FetchedFacts DEF ReadInv, Arrivals
<1>6. I!Bytes(received') = I!Bytes(received) \cup more
  <2>1. CASE I!Fetched = -1
    BY <1>4, <2>1
  <2>2. CASE I!Fetched # -1
    <3>1. DOMAIN received' = (1..n) \cup {n + 1} /\ DOMAIN received = 1..n
      BY <1>2, <1>4, <2>2
    <3>2. {received'[i] : i \in DOMAIN received'} = {received[i] : i \in 1..n} \cup {I!Fetched}
      <4>1. \A i \in 1..n : received'[i] = received[i] /\ i \in DOMAIN received'
        BY <1>4, <2>2, <3>1
      <4>2. received'[n + 1] = I!Fetched /\ n + 1 \in DOMAIN received'
        BY <1>4, <2>2, <3>1
      <4>3. \A i \in DOMAIN received' : i \in 1..n \/ i = n + 1
        BY <3>1
      <4> HIDE DEF n
      <4>4. {received'[i] : i \in DOMAIN received'} \subseteq {received[i] : i \in 1..n} \cup {I!Fetched}
        BY <4>1, <4>2, <4>3
      <4>5. {received[i] : i \in 1..n} \cup {I!Fetched} \subseteq {received'[i] : i \in DOMAIN received'}
        BY <4>1, <4>2
      <4> QED BY <4>4, <4>5
    <3>3. /\ I!Bytes(received') = {received'[i] : i \in DOMAIN received'} \ {0}
          /\ I!Bytes(received) = {received[i] : i \in 1..n} \ {0}
      BY <3>1 DEF I!Bytes
    <3>4. I!Fetched > 0 <=> I!Fetched # 0
      BY <1>3, <2>2
    <3> HIDE DEF n
    <3> QED BY <3>2, <3>3, <3>4
  <2> QED BY <2>1, <2>2
<1>7. I!Held' = {} /\ I!Queued' = {I!Left[i] : i \in 1..Len(I!Left)}
  <2>1. I!Queued' = {wire'[i] : i \in DOMAIN wire'}
    BY DEF I!Queued
  <2>2. DOMAIN wire' = 1..Len(I!Left)
    BY <1>1, FetchedFacts
  <2> QED BY <1>1, <2>1, <2>2 DEF I!Held
<1>8. more \cup I!Queued' = I!Held \cup I!Queued
  BY <1>7, FetchedFacts
<1>9. \A i, j \in DOMAIN received' : i < j => received'[i] < received'[j]
  <2>1. \A i, j \in 1..n : i < j => received[i] < received[j]
    BY <1>2 DEF ReadInv, I!ReadInOrder
  <2>2. CASE I!Fetched = -1
    BY <1>2, <1>4, <2>1, <2>2
  <2>3. CASE I!Fetched # -1
    <3>1. ASSUME NEW i \in 1..n PROVE received[i] < I!Fetched
      <4>1. I!Fetched # 0
        <5>1. received # <<>>
          BY <1>2, <3>1
        <5> QED BY <5>1, FetchedFacts DEF ReadInv, I!ReadInOrder
      <4>2. I!Fetched > 0
        BY <1>3, <2>3, <4>1
      <4>3. CASE received[i] = 0
        BY <4>2, <4>3
      <4>4. CASE received[i] # 0
        <5>1. received[i] \in I!Bytes(received)
          BY <1>2, <4>4 DEF I!Bytes
        <5> QED BY <4>2, <5>1, FetchedFacts
      <4> QED BY <4>3, <4>4
    <3>2. DOMAIN received' = 1..n + 1
      BY <1>4, <2>3
    <3>3. ASSUME NEW i \in 1..n + 1, NEW j \in 1..n + 1, i < j
          PROVE  received'[i] < received'[j]
      <4>1. i \in 1..n
        BY <1>2, <3>3
      <4>2. CASE j = n + 1
        BY <1>4, <2>3, <3>1, <4>1, <4>2
      <4>3. CASE j # n + 1
        <5>1. j \in 1..n
          BY <1>2, <4>3
        <5> QED BY <1>4, <2>1, <2>3, <3>3, <4>1, <5>1
      <4> QED BY <4>2, <4>3
    <3> QED BY <3>2, <3>3
  <2> QED BY <2>2, <2>3
<1>10. \A b \in I!Bytes(received') \cup I!Held', c \in I!Queued' : b < c
  <2>1. \A b \in more, c \in I!Queued' : b < c
    BY <1>7, FetchedFacts
  <2>2. \A b \in I!Bytes(received), c \in I!Held \cup I!Queued : b < c
    BY DEF ReadInv, I!ReadInOrder
  <2> HIDE DEF more
  <2> QED BY <1>6, <1>7, <1>8, <2>1, <2>2
<1>11. /\ 1..sent = I!Bytes(received') \cup I!Held' \cup I!Queued' \cup dropped
       /\ dropped \cap (I!Bytes(received') \cup I!Held' \cup I!Queued') = {}
  <2> HIDE DEF more
  <2> QED BY <1>6, <1>7, <1>8 DEF ReadInv, I!ReadInOrder
<1>12. I!Bytes(received)' = I!Bytes(received')
  BY DEF I!Bytes
<1> HIDE DEF more
<1> QED BY <1>1, <1>5, <1>7, <1>9, <1>10, <1>11, <1>12 DEF I!ReadInOrder

LEMMA SendKeeps ==
    ASSUME ReadInv, I!Send
    PROVE  Arrivals' /\ I!ReadInOrder'
<1> USE DEF I!Empty, I!Phantom
<1> DEFINE n == Len(wire)
<1>1. /\ sent' = sent + 1 /\ wire' = Append(wire, sent + 1)
      /\ UNCHANGED <<kind, begun, hungUp, bufch, received, dropped>>
  BY DEF I!Send
<1>2. /\ sent \in Nat /\ wire \in Seq(1..sent) /\ n \in Nat
      /\ \A i \in 1..n : wire[i] \in 1..sent
  BY DEF ReadInv, Arrivals
<1>3. /\ wire' \in Seq(1..sent + 1) /\ Len(wire') = n + 1 /\ wire'[n + 1] = sent + 1
      /\ \A i \in 1..n : wire'[i] = wire[i]
  <2>1. wire \in Seq(1..sent + 1) /\ sent + 1 \in 1..sent + 1
    BY <1>2
  <2> QED BY <1>1, <2>1, AppendFacts
<1>4. Arrivals'
  <2>1. \A i, j \in 1..n + 1 : i < j => wire'[i] < wire'[j]
    <3> SUFFICES ASSUME NEW i \in 1..n + 1, NEW j \in 1..n + 1, i < j
                 PROVE  wire'[i] < wire'[j]
      OBVIOUS
    <3>1. i \in 1..n /\ wire'[i] = wire[i] /\ wire[i] \in 1..sent
      BY <1>2, <1>3
    <3>2. CASE j = n + 1
      BY <1>2, <1>3, <3>1, <3>2
    <3>3. CASE j # n + 1
      <4>1. j \in 1..n
        BY <1>2, <3>3
      <4>3. wire'[j] = wire[j]
        BY <1>3, <4>1
      <4>2. wire[i] < wire[j]
        BY <3>1, <4>1 DEF ReadInv, Arrivals
      <4> QED BY <3>1, <4>2, <4>3
    <3> QED BY <3>2, <3>3
  <2>2. received \in Seq(0..sent + 1)
    BY <1>2 DEF ReadInv, Arrivals
  <2>3. bufch \in {-1} \cup 0..sent + 1 /\ dropped \subseteq 1..sent + 1
    BY <1>2 DEF ReadInv, Arrivals
  <2> QED BY <1>1, <1>2, <1>3, <2>1, <2>2, <2>3 DEF Arrivals
<1>5. I!Queued' = I!Queued \cup {sent + 1}
  <2>1. I!Queued' = {wire'[i] : i \in DOMAIN wire'}
    BY DEF I!Queued
  <2>2. DOMAIN wire' = (1..n) \cup {n + 1} /\ DOMAIN wire = 1..n /\ n + 1 \notin 1..n
    BY <1>2, <1>3
  <2> QED BY <1>3, <2>1, <2>2 DEF I!Queued
<1>6. I!Held' = I!Held /\ I!Bytes(received)' = I!Bytes(received)
  BY <1>1 DEF I!Held, I!Bytes
<1>7. I!Bytes(received) \subseteq 1..sent /\ I!Held \subseteq 1..sent
      /\ I!Queued \subseteq 1..sent /\ dropped \subseteq 1..sent
  <2>1. 1..sent = I!Bytes(received) \cup I!Held \cup I!Queued \cup dropped
    BY DEF ReadInv, I!ReadInOrder
  <2> QED BY Zenon, <2>1
<1>8. 1..sent + 1 = (1..sent) \cup {sent + 1} /\ sent + 1 \notin 1..sent
  BY <1>2
<1>9. \A b \in I!Bytes(received) \cup I!Held : b < sent + 1
  <2> SUFFICES ASSUME NEW b \in 1..sent PROVE b < sent + 1
    BY Zenon, <1>7
  <2> QED BY <1>2
<1> QED BY <1>1, <1>4, <1>5, <1>6, <1>7, <1>8, <1>9 DEF ReadInv, I!ReadInOrder

(* begin() and end() throw away the byte held, and begin() a pty's queue.  *)
LEMMA DropKeeps ==
    ASSUME ReadInv, bufch' = I!Empty, UNCHANGED <<kind, hungUp, sent, received>>,
           \/ wire' = wire /\ dropped' = dropped \cup I!Held
           \/ wire' = <<>> /\ dropped' = dropped \cup I!Held \cup I!Queued
    PROVE  Arrivals' /\ I!ReadInOrder'
<1> USE DEF I!Empty, I!Phantom
<1>1. I!Bytes(received)' = I!Bytes(received) /\ I!Held' = {}
  BY DEF I!Bytes, I!Held
<1>2. I!Held \subseteq 1..sent /\ I!Queued \subseteq 1..sent
  <2>1. 1..sent = I!Bytes(received) \cup I!Held \cup I!Queued \cup dropped
    BY DEF ReadInv, I!ReadInOrder
  <2> QED BY Zenon, <2>1
<1>3. <<>> \in Seq(1..sent) /\ Len(<<>>) = 0
  OBVIOUS
<1>4. Arrivals'
  <2>1. dropped' \subseteq 1..sent
    BY Zenon, <1>2 DEF ReadInv, Arrivals
  <2>2. CASE wire' = wire
    BY <2>1, <2>2 DEF ReadInv, Arrivals
  <2>3. CASE wire' = <<>>
    BY <1>3, <2>1, <2>3 DEF ReadInv, Arrivals
  <2> QED BY <2>2, <2>3
<1>5. I!Held \cap I!Queued = {} /\ I!Held \cap I!Bytes(received) = {}
      /\ I!Queued \cap I!Bytes(received) = {}
  <2>1. I!Held \subseteq Nat /\ I!Queued \subseteq Nat /\ I!Bytes(received) \subseteq Nat
    BY DEF ReadInv, I!ReadInOrder
  <2>2. \A k \in Nat : ~(k < k)
    OBVIOUS
  <2> QED BY <2>1, <2>2 DEF ReadInv, I!ReadInOrder
<1>6. CASE wire' = wire /\ dropped' = dropped \cup I!Held
  <2>1. I!Queued' = I!Queued
    BY <1>6 DEF I!Queued
  <2> QED BY <1>1, <1>4, <1>5, <1>6, <2>1 DEF ReadInv, I!ReadInOrder
<1>7. CASE wire' = <<>> /\ dropped' = dropped \cup I!Held \cup I!Queued
  <2>1. I!Queued' = {}
    BY <1>7 DEF I!Queued
  <2> QED BY <1>1, <1>4, <1>5, <1>7, <2>1 DEF ReadInv, I!ReadInOrder
<1> QED BY <1>6, <1>7

-----------------------------------------------------------------------------
(* Serial ports: what is written.                                           *)

\* Of the parts before job.part nothing more comes, and the bytes of job.part
\* before job.at are the last that were written, if there are any.
JobInv ==
    /\ out \in Seq(Nat \X Nat)
    /\ job = [parts |-> job.parts, part |-> job.part, at |-> job.at, count |-> job.count]
    /\ job = I!NoJob \/
         /\ job.part \in Nat \ {0} /\ job.at \in Nat \ {0} /\ job.count = Len(out)
         /\ \A i \in 1..Len(out) : out[i][1] <= job.part
         /\ job.at > 1 => out # <<>> /\ out[Len(out)] = <<job.part, job.at - 1>>

WriteInv == JobInv /\ I!WrittenInOrder

LEMMA PrintByteKeeps ==
    ASSUME WriteInv, I!PrintByte
    PROVE  WriteInv'
<1> DEFINE n == Len(out)
           b == <<job.part, job.at>>
<1>1. PICK done \in BOOLEAN :
        LET over == ~done \/ job.at = job.parts[job.part]
        IN  /\ out' = IF done THEN Append(out, <<job.part, job.at>>) ELSE out
            /\ job' = IF over /\ job.part = Len(job.parts) THEN I!NoJob
                      ELSE [job EXCEPT !.part = IF over THEN @ + 1 ELSE @,
                                       !.at = IF over THEN 1 ELSE @ + 1,
                                       !.count = IF done THEN @ + 1 ELSE @]
  BY DEF I!PrintByte
<1>2. /\ out \in Seq(Nat \X Nat) /\ n \in Nat /\ job # I!NoJob
      /\ job = [parts |-> job.parts, part |-> job.part, at |-> job.at, count |-> job.count]
      /\ job.part \in Nat \ {0} /\ job.at \in Nat \ {0} /\ job.count = n
      /\ \A i \in 1..n : out[i][1] <= job.part /\ out[i] \in Nat \X Nat
      /\ job.at > 1 => n > 0 /\ out[n] = <<job.part, job.at - 1>>
  BY DEF WriteInv, JobInv, I!PrintByte
<1>3. /\ \A i \in 1..n : out[i][2] > 1 =>
            i > 1 /\ out[i - 1] = <<out[i][1], out[i][2] - 1>>
      /\ \A i, j \in 1..n : i < j => out[i][1] <= out[j][1]
  <2>1. DOMAIN out = 1..n
    BY <1>2
  <2> HIDE DEF n
  <2> QED BY <2>1 DEF WriteInv, I!WrittenInOrder
<1>4. /\ out' \in Seq(Nat \X Nat)
      /\ done => /\ Len(out') = n + 1 /\ out'[n + 1] = b
               /\ \A i \in 1..n : out'[i] = out[i]
      /\ ~done => out' = out
  <2>1. b \in Nat \X Nat
    BY <1>2
  <2>2. /\ Append(out, b) \in Seq(Nat \X Nat) /\ Len(Append(out, b)) = Len(out) + 1
        /\ \A i \in 1..Len(out) : Append(out, b)[i] = out[i]
        /\ Append(out, b)[Len(out) + 1] = b
    BY <1>2, <2>1, AppendFacts
  <2> QED BY <1>1, <1>2, <2>2
<1>5. b[1] = job.part /\ b[2] = job.at
  OBVIOUS
<1> HIDE DEF b
\* What was written goes on where it was left.
<1>6. ASSUME NEW i \in 1..Len(out'), out'[i][2] > 1
      PROVE  i > 1 /\ out'[i - 1] = <<out'[i][1], out'[i][2] - 1>>
  <2>1. CASE i \in 1..n
    <3>1. out'[i] = out[i]
      BY <1>4, <2>1
    <3>2. i > 1 /\ out[i - 1] = <<out[i][1], out[i][2] - 1>>
      BY <1>3, <1>6, <2>1, <3>1
    <3>3. out'[i - 1] = out[i - 1]
      <4>1. i - 1 \in 1..n
        BY <1>2, <2>1, <3>2
      <4> QED BY <1>4, <4>1
    <3> QED BY <3>1, <3>2, <3>3
  <2>2. CASE i \notin 1..n
    <3>1. done /\ i = n + 1 /\ out'[i] = b
      BY <1>2, <1>4, <1>6, <2>2
    <3>2. n > 0 /\ out[n] = <<job.part, job.at - 1>>
      BY <1>2, <1>5, <1>6, <3>1
    <3>3. n \in 1..n /\ i > 1 /\ i - 1 = n
      BY <1>2, <3>1, <3>2
    <3>4. out'[n] = out[n]
      BY <1>4, <3>1, <3>3
    <3> QED BY <1>5, <3>1, <3>2, <3>3, <3>4
  <2> QED BY <2>1, <2>2
\* No part before the one that is printed is written to.
<1>7. ASSUME NEW i \in 1..Len(out')
      PROVE  out'[i][1] <= job.part
  <2>1. CASE i \in 1..n
    BY <1>2, <1>4, <2>1
  <2>2. CASE i \notin 1..n
    <3>1. out'[i] = b
      BY <1>2, <1>4, <1>7, <2>2
    <3> QED BY <1>2, <1>5, <3>1
  <2> QED BY <2>1, <2>2
<1>8. ASSUME NEW i \in 1..Len(out'), NEW j \in 1..Len(out'), i < j
      PROVE  out'[i][1] <= out'[j][1]
  <2>1. i \in 1..n
    BY <1>2, <1>4, <1>8
  <2>2. CASE j \in 1..n
    BY <1>3, <1>4, <1>8, <2>1, <2>2
  <2>3. CASE j \notin 1..n
    <3>1. done
      BY <1>4, <1>8, <2>3
    <3>2. j = n + 1
      BY <1>2, <1>4, <1>8, <2>3, <3>1
    <3>3. out'[j] = b
      BY <1>4, <3>1, <3>2
    <3> QED BY <1>5, <1>7, <3>3
  <2> QED BY <2>2, <2>3
<1>9. /\ job' = [parts |-> job'.parts, part |-> job'.part, at |-> job'.at, count |-> job'.count]
      /\ job' = I!NoJob \/
           /\ job'.part \in Nat \ {0} /\ job'.at \in Nat \ {0} /\ job'.count = Len(out')
           /\ job.part <= job'.part
           /\ job'.at > 1 => done /\ job'.part = job.part /\ job'.at - 1 = job.at
  <2> DEFINE over == ~done \/ job.at = job.parts[job.part]
  <2>1. CASE over /\ job.part = Len(job.parts)
    BY <1>1, <2>1 DEF I!NoJob
  <2>2. CASE ~(over /\ job.part = Len(job.parts))
    <3>1. job' = [parts |-> job.parts, part |-> IF over THEN job.part + 1 ELSE job.part,
                  at |-> IF over THEN 1 ELSE job.at + 1,
                  count |-> IF done THEN job.count + 1 ELSE job.count]
      BY <1>1, <1>2, <2>2
    <3>2. job'.part = (IF over THEN job.part + 1 ELSE job.part)
          /\ job'.at = (IF over THEN 1 ELSE job.at + 1)
          /\ job'.count = (IF done THEN n + 1 ELSE n)
      BY <1>2, <3>1
    <3>3. job' = [parts |-> job'.parts, part |-> job'.part, at |-> job'.at, count |-> job'.count]
      BY <3>1
    <3>4. job'.count = Len(out')
      BY <1>4, <3>2
    <3> QED BY <1>2, <3>2, <3>3, <3>4
  <2> QED BY <2>1, <2>2
<1>10. JobInv'
  <2>1. ASSUME job' # I!NoJob, NEW i \in 1..Len(out')
        PROVE  out'[i][1] <= job'.part
    <3>1. out'[i] \in Nat \X Nat
      BY <1>4
    <3> QED BY <1>2, <1>7, <1>9, <2>1, <3>1
  <2>2. ASSUME job' # I!NoJob, job'.at > 1
        PROVE  out' # <<>> /\ out'[Len(out')] = <<job'.part, job'.at - 1>>
    <3>1. done /\ job'.part = job.part /\ job'.at - 1 = job.at
      BY <1>9, <2>2
    <3>2. Len(out') = n + 1 /\ out'[n + 1] = b
      BY <1>4, <3>1
    <3>3. b = <<job'.part, job'.at - 1>>
      BY <3>1 DEF b
    <3>4. out' # <<>>
      BY <1>2, <1>4, <3>2
    <3> QED BY <3>2, <3>3, <3>4
  <2> QED BY <1>4, <1>9, <2>1, <2>2 DEF JobInv, I!NoJob
<1>11. DOMAIN out' = 1..Len(out')
  BY <1>4
<1>12. I!WrittenInOrder'
  BY <1>6, <1>8, <1>9, <1>11 DEF I!WrittenInOrder, I!NoJob
<1> QED BY <1>10, <1>12 DEF WriteInv

LEMMA PrintTextKeeps ==
    ASSUME NEW parts, I!PrintText(parts)
    PROVE  WriteInv'
<1>1. out' = <<>> /\ job' = [parts |-> parts, part |-> 1, at |-> 1, count |-> 0]
  BY DEF I!PrintText
<1>2. <<>> \in Seq(Nat \X Nat) /\ Len(<<>>) = 0 /\ DOMAIN <<>> = {}
  OBVIOUS
<1> QED BY <1>1, <1>2 DEF WriteInv, JobInv, I!WrittenInOrder

-----------------------------------------------------------------------------
SerialInv == ReadInv /\ WriteInv

LEMMA SerialBegins == I!Init => SerialInv
<1> SUFFICES ASSUME I!Init PROVE SerialInv
  OBVIOUS
<1> USE DEF I!Empty, I!Phantom
<1>1. /\ sent = 0 /\ wire = <<>> /\ received = <<>> /\ dropped = {} /\ told = FALSE
      /\ bufch \in {-1, 0} /\ (bufch = 0 => ~begun) /\ out = <<>> /\ job = I!NoJob
  BY DEF I!Init
<1>2. /\ <<>> \in Seq(1..0) /\ <<>> \in Seq(0..0) /\ <<>> \in Seq(Nat \X Nat)
      /\ Len(<<>>) = 0 /\ DOMAIN <<>> = {} /\ 1..0 = {}
  OBVIOUS
<1>3. Arrivals
  BY <1>1, <1>2 DEF Arrivals
<1>4. I!Bytes(received) = {} /\ I!Held = {} /\ I!Queued = {}
  BY <1>1, <1>2 DEF I!Bytes, I!Held, I!Queued
<1>5. I!ReadInOrder
  BY <1>1, <1>2, <1>4 DEF I!ReadInOrder
<1>6. WriteInv
  BY <1>1, <1>2 DEF WriteInv, JobInv, I!WrittenInOrder, I!NoJob
<1> QED BY <1>1, <1>3, <1>5, <1>6 DEF SerialInv, ReadInv, Promised

LEMMA ReadUnchanged ==
    ASSUME ReadInv, UNCHANGED <<kind, begun, wire, bufch, sent, received, dropped, told>>,
           hungUp' = hungUp \/ hungUp' = TRUE
    PROVE  ReadInv'
BY DEF ReadInv, Arrivals, Promised, I!ReadInOrder, I!Bytes, I!Held, I!Queued, I!Open, I!Fetched,
       I!Empty, I!Phantom

LEMMA WriteUnchanged ==
    ASSUME WriteInv, UNCHANGED I!output
    PROVE  WriteInv'
BY DEF WriteInv, JobInv, I!WrittenInOrder, I!NoJob, I!output

LEMMA SerialKeeps ==
    ASSUME SerialInv, I!Next
    PROVE  SerialInv'
<1> USE DEF SerialInv
<1>1. ASSUME I!Send
      PROVE  SerialInv'
  <2>1. Promised'
    <3> SUFFICES ASSUME told, kind = "pty" => ~hungUp
                 PROVE  (I!Open /\ I!Fetched # I!Empty)'
      BY <1>1 DEF Promised, I!Send
    <3>1. I!Open /\ I!Fetched # I!Empty
      BY DEF ReadInv, Promised
    <3>2. wire' = Append(wire, sent + 1) /\ bufch' = bufch /\ kind' = kind /\ begun' = begun
      BY <1>1 DEF I!Send
    <3>3. wire \in Seq(1..sent) /\ sent \in Nat
      BY DEF ReadInv, Arrivals
    <3>4. CASE bufch # I!Empty
      BY <3>1, <3>2, <3>4 DEF I!Open, I!Fetched, I!Empty
    <3>5. CASE bufch = I!Empty
      <4>1. wire # <<>>
        BY <3>1, <3>5 DEF I!Fetched
      <4>2. Head(wire') = Head(wire) /\ wire' # <<>>
        BY <3>2, <3>3, <4>1
      <4> QED BY <3>1, <3>2, <3>5, <4>1, <4>2 DEF I!Open, I!Fetched, I!Empty
    <3> QED BY <3>4, <3>5
  <2> QED BY <1>1, <2>1, SendKeeps, WriteUnchanged DEF ReadInv, I!Send
<1>2. ASSUME I!HangUp
      PROVE  SerialInv'
  BY <1>2, ReadUnchanged, WriteUnchanged DEF I!HangUp
<1>3. ASSUME I!Begin
      PROVE  SerialInv'
  <2>1. UNCHANGED I!output /\ told' = FALSE
    BY <1>3 DEF I!Begin
  <2>2. Arrivals' /\ I!ReadInOrder'
    <3>1. \/ wire' = wire /\ dropped' = dropped \cup I!Held
          \/ wire' = <<>> /\ dropped' = dropped \cup I!Held \cup I!Queued
      BY <1>3 DEF I!Begin
    <3> QED BY <1>3, <3>1, DropKeeps DEF I!Begin
  <2> QED BY <2>1, <2>2, WriteUnchanged DEF ReadInv, Promised
<1>4. ASSUME I!End
      PROVE  SerialInv'
  <2>1. UNCHANGED I!output /\ told' = FALSE
    BY <1>4 DEF I!End
  <2>2. Arrivals' /\ I!ReadInOrder'
    BY <1>4, DropKeeps DEF I!End
  <2> QED BY <2>1, <2>2, WriteUnchanged DEF ReadInv, Promised
<1>5. ASSUME I!Peek
      PROVE  SerialInv'
  <2>1. UNCHANGED I!output /\ told' = FALSE
    BY <1>5 DEF I!Peek
  <2>2. Arrivals' /\ I!ReadInOrder'
    BY <1>5, FetchKeeps DEF I!Peek
  <2> QED BY <2>1, <2>2, WriteUnchanged DEF ReadInv, Promised
<1>6. ASSUME I!Read
      PROVE  SerialInv'
  <2>1. UNCHANGED I!output /\ told' = FALSE
    BY <1>6 DEF I!Read
  <2>2. Arrivals' /\ I!ReadInOrder'
    BY <1>6, ReadKeeps
  <2> QED BY <2>1, <2>2, WriteUnchanged DEF ReadInv, Promised
<1>7. ASSUME I!Available
      PROVE  SerialInv'
  <2>1. /\ UNCHANGED <<kind, begun, hungUp, sent, received, dropped>> /\ UNCHANGED I!output
        /\ told' = (I!Open /\ (I!Fetched # I!Empty \/ (kind = "pty" /\ hungUp)))
        /\ \/ bufch' = I!Fetched /\ wire' = I!Left
           \/ bufch' = bufch /\ wire' = wire
    BY <1>7 DEF I!Available
  <2>2. Arrivals' /\ I!ReadInOrder'
    <3>1. CASE bufch' = I!Fetched /\ wire' = I!Left
      BY <2>1, <3>1, FetchKeeps
    <3>2. CASE bufch' = bufch /\ wire' = wire
      BY <2>1, <3>2 DEF ReadInv, Arrivals, I!ReadInOrder, I!Bytes, I!Held, I!Queued, I!Phantom,
                        I!Empty
    <3> QED BY <2>1, <3>1, <3>2
  <2>3. Promised'
    BY <2>1 DEF Promised, I!Open, I!Fetched, I!Left, I!Empty
  <2> QED BY <2>1, <2>2, <2>3, WriteUnchanged DEF ReadInv
<1>8. ASSUME NEW p, I!PrintText(p)
      PROVE  SerialInv'
  BY <1>8, PrintTextKeeps, ReadUnchanged DEF I!PrintText, I!input
<1>9. ASSUME I!PrintByte
      PROVE  SerialInv'
  BY <1>9, PrintByteKeeps, ReadUnchanged DEF I!PrintByte, I!input
<1> QED BY <1>1, <1>2, <1>3, <1>4, <1>5, <1>6, <1>7, <1>8, <1>9 DEF I!Next

LEMMA SerialStays == SerialInv /\ UNCHANGED I!vars => SerialInv'
<1> SUFFICES ASSUME SerialInv, UNCHANGED I!vars PROVE SerialInv'
  OBVIOUS
<1> QED BY ReadUnchanged, WriteUnchanged DEF SerialInv, I!vars, I!output

(* The inductive invariant of the serial ports.                            *)
LEMMA SerialHolds == TextSpec => []SerialInv
<1>1. TextInit => SerialInv
  BY SerialBegins DEF TextInit
<1>2. SerialInv /\ [TextNext]_textVars => SerialInv'
  BY SerialPart, SerialKeeps, SerialStays
<1> QED BY <1>1, <1>2, PTL DEF TextSpec

(* No byte that arrives at a port is read twice, out of order, or lost but *)
(* where begin(), end() and tcflush() throw it away; what print() writes   *)
(* of a text is in order and counted; and when available() has said that   *)
(* a byte is there, the read() after it returns one.                       *)
THEOREM SerialInOrder == TextSpec => SerialKept
<1>1. SerialInv => I!ReadInOrder /\ I!WrittenInOrder
  BY DEF SerialInv, ReadInv, WriteInv
<1>2. SerialInv /\ [TextNext]_textVars =>
        [told /\ I!Read /\ (kind = "pty" => ~hungUp) => received' # received]_(I!vars)
  <2> SUFFICES ASSUME SerialInv, told, I!Read, kind = "pty" => ~hungUp
               PROVE  received' # received
    OBVIOUS
  <2>1. received' = Append(received, I!Fetched)
    BY DEF SerialInv, ReadInv, Promised, I!Read
  <2>2. received \in Seq(0..sent)
    BY DEF SerialInv, ReadInv, Arrivals
  <2>3. Len(received') = Len(received) + 1 /\ Len(received) \in Nat
    BY <2>1, <2>2
  <2> QED BY <2>3
<1> QED BY <1>1, <1>2, SerialHolds, PTL DEF TextSpec, SerialKept, I!SerialKept, I!AvailableIsRead

-----------------------------------------------------------------------------
(* Stream: find().                                                          *)

LEMMA Smallest ==
    ASSUME NEW T \in SUBSET Nat, T # {}
    PROVE  \E m \in T : \A k \in T : m <= k
<1> DEFINE R == {ss \in Nat \X Nat : ss[1] < ss[2]}
<1>1. IsWellFoundedOn(R, Nat)
  BY NatLessThanWellFounded DEF OpToRel
<1>2. PICK m \in T : \A k \in T : ~(<<k, m>> \in R)
  <2> HIDE DEF R
  <2> QED BY <1>1, WFMin
<1>3. ASSUME NEW k \in T PROVE m <= k
  <2>1. ~(<<k, m>> \in R) /\ k \in Nat /\ m \in Nat
    BY <1>2
  <2> QED BY <2>1
<1> QED BY <1>3

LEMMA Largest ==
    ASSUME NEW n \in Nat, NEW T \in SUBSET (0..n), T # {}
    PROVE  \E m \in T : \A k \in T : k <= m
<1> DEFINE B == {d \in Nat : n - d \in T}
<1>1. B # {}
  <2>1. PICK k \in T : TRUE
    OBVIOUS
  <2>2. n - k \in Nat /\ n - (n - k) = k
    BY <2>1
  <2> QED BY <2>2
<1>2. B \in SUBSET Nat
  OBVIOUS
<1>3. PICK d \in B : \A k \in B : d <= k
  <2> HIDE DEF B
  <2> QED BY <1>1, <1>2, Smallest
<1>4. ASSUME NEW k \in T PROVE k <= n - d
  <2>1. n - k \in Nat /\ n - (n - k) = k
    OBVIOUS
  <2>2. d <= n - k
    BY <1>3, <2>1
  <2> QED BY <2>2
<1> QED BY <1>3, <1>4

\* The d characters of T that were found are the most that consumed characters s
\* end with, and T has not come by.
Matched(T, d, s) ==
    /\ d < Len(T) /\ M!EndsWith(s, Len(s), T, d)
    /\ \A k \in d + 1..Len(T) : ~M!EndsWith(s, Len(s), T, k)
    /\ \A n \in 0..Len(s) : ~M!EndsWith(s, n, T, Len(T))

LEMMA EndStays ==
    ASSUME NEW C, NEW s \in Seq(C), NEW c \in C, NEW T, NEW n \in 0..Len(s), NEW k \in Nat
    PROVE  M!EndsWith(Append(s, c), n, T, k) <=> M!EndsWith(s, n, T, k)
<1>1. ASSUME k <= n, NEW i \in 1..k
      PROVE  Append(s, c)[n - k + i] = s[n - k + i]
  <2>1. n - k + i \in 1..Len(s)
    BY <1>1
  <2> QED BY <2>1, AppendFacts
<1> QED BY <1>1 DEF M!EndsWith

LEMMA EndGrows ==
    ASSUME NEW C, NEW s \in Seq(C), NEW c \in C, NEW T, NEW k \in Nat
    PROVE  M!EndsWith(Append(s, c), Len(s) + 1, T, k + 1)
             <=> T[k + 1] = c /\ M!EndsWith(s, Len(s), T, k)
<1> DEFINE n == Len(s)
           r == Append(s, c)
<1>1. /\ n \in Nat /\ r[n + 1] = c
      /\ \A i \in 1..n : r[i] = s[i]
  BY AppendFacts
<1> HIDE DEF n, r
<1>2. ASSUME k <= n, NEW i \in 1..k
      PROVE  r[(n + 1) - (k + 1) + i] = s[n - k + i]
  <2>1. n - k + i \in 1..n /\ (n + 1) - (k + 1) + i = n - k + i
    BY <1>1, <1>2
  <2> QED BY <1>1, <2>1
<1>3. k <= n => r[(n + 1) - (k + 1) + (k + 1)] = c
  <2>1. (n + 1) - (k + 1) + (k + 1) = n + 1
    BY <1>1
  <2> QED BY <1>1, <2>1
<1>4. 1..k + 1 = (1..k) \cup {k + 1} /\ (k + 1 <= n + 1 <=> k <= n)
  BY <1>1
<1>5. ASSUME k <= n
      PROVE  (\A i \in 1..k + 1 : r[(n + 1) - (k + 1) + i] = T[i])
               <=> T[k + 1] = c /\ \A i \in 1..k : s[n - k + i] = T[i]
  BY <1>2, <1>3, <1>4, <1>5
<1> QED BY <1>4, <1>5 DEF M!EndsWith, n, r

(* The walk ends at the longest start of the target that the characters,   *)
(* now with c, end with.                                                   *)
LEMMA WalkFollows ==
    ASSUME NEW C, NEW T \in Seq(C), NEW s \in Seq(C), NEW c \in C, NEW d \in Nat, Matched(T, d, s)
    PROVE  /\ M!Walk(T, d, c) \in 0..Len(T)
           /\ M!EndsWith(Append(s, c), Len(s) + 1, T, M!Walk(T, d, c))
           /\ \A k \in M!Walk(T, d, c) + 1..Len(T) : ~M!EndsWith(Append(s, c), Len(s) + 1, T, k)
           /\ \A n \in 0..Len(s) : ~M!EndsWith(Append(s, c), n, T, Len(T))
<1> DEFINE n == Len(s)
           r == Append(s, c)
           fits(k) == T[k + 1] = c /\ \A i \in 1..k : T[i] = T[i + d - k]
           K == {k \in 0..d : fits(k)}
<1>1. /\ n \in Nat /\ Len(T) \in Nat /\ d < Len(T)
      /\ d <= n /\ \A i \in 1..d : s[n - d + i] = T[i]
  BY DEF Matched, M!EndsWith
<1>2. ASSUME NEW k \in 0..d
      PROVE  fits(k) <=> M!EndsWith(r, n + 1, T, k + 1)
  <2>1. ASSUME NEW i \in 1..k PROVE s[n - k + i] = T[i + d - k]
    <3>1. i + d - k \in 1..d /\ n - d + (i + d - k) = n - k + i
      BY <1>1
    <3> QED BY <1>1, <3>1
  <2>2. M!EndsWith(s, n, T, k) <=> \A i \in 1..k : T[i] = T[i + d - k]
    BY <1>1, <2>1 DEF M!EndsWith
  <2>3. M!EndsWith(r, n + 1, T, k + 1) <=> T[k + 1] = c /\ M!EndsWith(s, n, T, k)
    BY EndGrows
  <2> QED BY <2>2, <2>3
<1>3. ASSUME NEW k \in 1..Len(T), M!EndsWith(r, n + 1, T, k)
      PROVE  k - 1 \in K
  <2>1. k - 1 \in Nat /\ (k - 1) + 1 = k
    BY <1>1
  <2>2. M!EndsWith(s, n, T, k - 1)
    BY <1>3, <2>1, EndGrows
  <2>3. k - 1 \in 0..d
    BY <1>1, <2>1, <2>2 DEF Matched
  <2> QED BY <1>2, <1>3, <2>1, <2>3
<1>4. \A m \in 0..n : ~M!EndsWith(r, m, T, Len(T))
  BY <1>1, EndStays DEF Matched
<1>5. M!Walk(T, d, c) = IF K = {} THEN 0 ELSE 1 + CHOOSE k \in K : \A j \in K : j <= k
  BY DEF M!Walk
<1>6. CASE K = {}
  <2>1. M!EndsWith(r, n + 1, T, 0)
    BY <1>1 DEF M!EndsWith
  <2> HIDE DEF K
  <2> QED BY <1>1, <1>3, <1>4, <1>5, <1>6, <2>1
<1>7. CASE K # {}
  <2> DEFINE k == CHOOSE k \in K : \A j \in K : j <= k
  <2>1. k \in K /\ \A j \in K : j <= k
    <3>1. K \in SUBSET (0..d)
      OBVIOUS
    <3> HIDE DEF K
    <3>2. \E m \in K : \A j \in K : j <= m
      BY <1>7, <3>1, Largest
    <3> QED BY <3>2
  <2> HIDE DEF k
  <2>2. k \in 0..d /\ fits(k)
    BY <2>1
  <2>3. M!EndsWith(r, n + 1, T, k + 1)
    BY <1>2, <2>2
  <2> HIDE DEF K, fits
  <2>4. ASSUME NEW m \in k + 2..Len(T) PROVE ~M!EndsWith(r, n + 1, T, m)
    <3>1. m \in 1..Len(T) /\ ~(m - 1 <= k)
      BY <1>1, <2>2
    <3> QED BY <1>3, <2>1, <3>1
  <2>5. M!Walk(T, d, c) = k + 1
    BY <1>5, <1>7, <2>2 DEF k
  <2>6. k + 1 \in 0..Len(T) /\ (k + 1) + 1 = k + 2
    BY <1>1, <2>2
  <2> QED BY <1>4, <2>3, <2>4, <2>5, <2>6
<1> QED BY <1>6, <1>7

Chars == STRING \ {M!Eof}

FindCall ==
    call.op = "find" =>
        /\ call = [op |-> "find", targets |-> call.targets, index |-> call.index]
        /\ call.targets \in Seq(Seq(STRING)) /\ call.index \in [DOMAIN call.targets -> Nat]
        /\ \A t \in DOMAIN call.targets : Matched(call.targets[t], call.index[t], consumed)

LEMMA FindReads ==
    ASSUME NEW c \in Chars, call.op = "find", FindCall, consumed \in Seq(Chars),
           consumed' = Append(consumed, c), result.kind = "none", M!FindStep(c)
    PROVE  FindCall' /\ M!FoundAtFirst'
<1> DEFINE n == Len(consumed)
           of == call.targets
           index == [t \in DOMAIN of |-> M!Walk(of[t], call.index[t], c)]
           done == {t \in DOMAIN index : index[t] = Len(of[t])}
<1>1. /\ of \in Seq(Seq(STRING)) /\ call.index \in [DOMAIN of -> Nat]
      /\ call = [op |-> "find", targets |-> of, index |-> call.index]
      /\ \A t \in DOMAIN of : Matched(of[t], call.index[t], consumed)
  BY DEF FindCall
<1>2. c \in STRING /\ consumed \in Seq(STRING) /\ n \in Nat /\ c # M!Eof
  BY DEF Chars
<1>3. Len(consumed') = n + 1
  BY <1>2, AppendFacts
<1>4. ASSUME NEW t \in DOMAIN of
      PROVE  /\ of[t] \in Seq(STRING) /\ Len(of[t]) \in Nat /\ index[t] \in 0..Len(of[t])
             /\ M!EndsWith(consumed', n + 1, of[t], index[t])
             /\ \A k \in index[t] + 1..Len(of[t]) : ~M!EndsWith(consumed', n + 1, of[t], k)
             /\ \A m \in 0..n : ~M!EndsWith(consumed', m, of[t], Len(of[t]))
  <2>1. of[t] \in Seq(STRING) /\ call.index[t] \in Nat /\ Len(of[t]) \in Nat
    BY <1>1
  <2>2. index[t] = M!Walk(of[t], call.index[t], c)
    OBVIOUS
  <2> HIDE DEF index, of, n
  <2>3. Matched(of[t], call.index[t], consumed)
    BY <1>1
  <2>4. /\ M!Walk(of[t], call.index[t], c) \in 0..Len(of[t])
        /\ M!EndsWith(Append(consumed, c), Len(consumed) + 1, of[t], M!Walk(of[t], call.index[t], c))
        /\ \A k \in M!Walk(of[t], call.index[t], c) + 1..Len(of[t]) :
             ~M!EndsWith(Append(consumed, c), Len(consumed) + 1, of[t], k)
        /\ \A m \in 0..Len(consumed) : ~M!EndsWith(Append(consumed, c), m, of[t], Len(of[t]))
    BY <1>2, <2>1, <2>3, WalkFollows
  <2> QED BY <2>1, <2>2, <2>4 DEF n
<1>5. DOMAIN index = DOMAIN of /\ DOMAIN of = 1..Len(of) /\ DOMAIN of \subseteq Nat
  BY <1>1
<1>6. IF done = {} THEN call' = [call EXCEPT !.index = index] /\ UNCHANGED result
      ELSE /\ call' = [op |-> "none"]
           /\ result' = [kind |-> "find", of |-> of,
                         found |-> CHOOSE t \in done : \A u \in done : t <= u]
  BY <1>2 DEF M!FindStep, M!Return, M!Continue
<1> HIDE DEF index, of, n
<1>7. CASE done = {}
  <2>1. call' = [op |-> "find", targets |-> of, index |-> index] /\ result' = result
    BY <1>1, <1>6, <1>7
  <2>2. call'.op = "find" /\ call'.targets = of /\ call'.index = index
    BY <2>1
  <2>3. ASSUME NEW t \in DOMAIN of
        PROVE  Matched(of[t], index[t], consumed')
    <3>1. index[t] # Len(of[t]) /\ index[t] < Len(of[t])
      BY <1>4, <1>5, <1>7
    <3>2. Len(of[t]) \in index[t] + 1..Len(of[t])
      BY <1>4, <3>1
    <3>3. ASSUME NEW m \in 0..n + 1
          PROVE  ~M!EndsWith(consumed', m, of[t], Len(of[t]))
      <4>1. m \in 0..n \/ m = n + 1
        BY <1>2 DEF n
      <4> QED BY <1>4, <3>2, <4>1
    <3> QED BY <1>3, <1>4, <3>1, <3>3 DEF Matched
  <2>4. index \in [DOMAIN of -> Nat]
    BY <1>4 DEF index
  <2> QED BY <1>1, <2>1, <2>2, <2>3, <2>4 DEF FindCall, M!FoundAtFirst
<1>8. CASE done # {}
  <2> DEFINE found == CHOOSE t \in done : \A u \in done : t <= u
  <2>1. found \in done /\ \A u \in done : found <= u
    <3>1. done \in SUBSET Nat
      BY <1>5
    <3> HIDE DEF done
    <3>2. \E t \in done : \A u \in done : t <= u
      BY <1>8, <3>1, Smallest
    <3> QED BY <3>2
  <2>2. /\ call'.op = "none" /\ result'.kind = "find" /\ result'.of = of
        /\ result'.found = found
    BY <1>6, <1>8
  <2> HIDE DEF found
  <2>3. found \in DOMAIN of /\ found \in 1..Len(of)
    BY <1>5, <2>1
  <2>4. M!EndsWith(consumed', n + 1, of[found], Len(of[found]))
    BY <1>4, <2>1, <2>3
  <2>5. ASSUME NEW t \in DOMAIN of, NEW m \in 0..n + 1,
               M!EndsWith(consumed', m, of[t], Len(of[t]))
        PROVE  found \in 1..t /\ m = n + 1
    <3>1. m = n + 1
      <4>1. m \in 0..n \/ m = n + 1
        BY <1>2 DEF n
      <4> QED BY <1>4, <2>5, <4>1
    <3>2. index[t] = Len(of[t])
      <4>1. CASE index[t] < Len(of[t])
        <5>1. Len(of[t]) \in index[t] + 1..Len(of[t])
          BY <1>4, <4>1
        <5> QED BY <1>4, <2>5, <3>1, <5>1
      <4> QED BY <1>4, <4>1
    <3>3. t \in done
      BY <1>5, <3>2
    <3>4. t \in Nat /\ found <= t
      BY <1>5, <2>1, <3>3
    <3> QED BY <2>3, <3>1, <3>4
  <2> QED BY <1>3, <2>2, <2>3, <2>4, <2>5 DEF FindCall, M!FoundAtFirst
<1> QED BY <1>7, <1>8

(* A timeout ends a find() that has not found anything.                    *)
LEMMA FindEnds ==
    ASSUME call.op = "find", FindCall, consumed' = consumed, M!FindStep(M!Eof)
    PROVE  FindCall' /\ M!FoundAtFirst'
<1>1. /\ call' = [op |-> "none"]
      /\ result' = [kind |-> "find", of |-> call.targets, found |-> 0]
  BY DEF M!FindStep, M!Return
<1>2. \A t \in DOMAIN call.targets, n \in 0..Len(consumed) :
        ~M!EndsWith(consumed, n, call.targets[t], Len(call.targets[t]))
  BY DEF FindCall, Matched
<1> QED BY <1>1, <1>2 DEF FindCall, M!FoundAtFirst

LEMMA FindBegins ==
    ASSUME NEW targets \in Seq(Seq(STRING)), M!FindMulti(targets)
    PROVE  FindCall' /\ M!FoundAtFirst' /\ consumed' = <<>>
           /\ (call'.op # "none" => result'.kind = "none")
<1> DEFINE empty == {t \in DOMAIN targets : targets[t] = <<>>}
<1>1. DOMAIN targets = 1..Len(targets) /\ empty \in SUBSET Nat
      /\ \A t \in DOMAIN targets : targets[t] \in Seq(STRING) /\ Len(targets[t]) \in Nat
  OBVIOUS
<1>2. Len(<<>>) = 0
  OBVIOUS
<1>3. CASE empty = {}
  <2>1. /\ call' = [op |-> "find", targets |-> targets, index |-> [t \in DOMAIN targets |-> 0]]
        /\ consumed' = <<>> /\ result' = [kind |-> "none"]
    BY <1>3 DEF M!FindMulti, M!Begin
  <2>2. /\ call'.op = "find" /\ call'.targets = targets
        /\ call'.index = [t \in DOMAIN targets |-> 0]
    BY <2>1
  <2>3. ASSUME NEW t \in DOMAIN targets
        PROVE  Matched(targets[t], 0, <<>>)
    <3>1. Len(targets[t]) > 0
      BY <1>1, <1>3
    <3> QED BY <1>1, <1>2, <3>1 DEF Matched, M!EndsWith
  <2> QED BY <2>1, <2>2, <2>3 DEF FindCall, M!FoundAtFirst
<1>4. CASE empty # {}
  <2> DEFINE found == CHOOSE t \in empty : \A u \in empty : t <= u
  <2>1. found \in empty /\ \A u \in empty : found <= u
    <3> HIDE DEF empty
    <3>1. \E t \in empty : \A u \in empty : t <= u
      BY <1>1, <1>4, Smallest
    <3> QED BY <3>1
  <2>2. /\ call' = call /\ call.op = "none" /\ consumed' = <<>>
        /\ result' = [kind |-> "find", of |-> targets, found |-> found]
    BY <1>4 DEF M!FindMulti, M!Idle
  <2>3. result'.kind = "find" /\ result'.of = targets /\ result'.found = found
    BY <2>2
  <2> HIDE DEF found
  <2>4. found \in 1..Len(targets) /\ targets[found] = <<>>
    BY <1>1, <2>1
  <2>5. M!EndsWith(<<>>, 0, targets[found], Len(targets[found]))
    BY <1>2, <2>4 DEF M!EndsWith
  <2>6. ASSUME NEW t \in DOMAIN targets, NEW n \in 0..0,
               M!EndsWith(<<>>, n, targets[t], Len(targets[t]))
        PROVE  found \in 1..t /\ n = 0
    <3>1. Len(targets[t]) = 0
      BY <1>1, <2>6 DEF M!EndsWith
    <3>2. targets[t] = <<>>
      BY <1>1, <3>1
    <3>3. t \in Nat /\ found <= t
      BY <1>1, <2>1, <3>2
    <3> QED BY <2>4, <3>3
  <2> QED BY <1>2, <2>2, <2>3, <2>5, <2>6 DEF FindCall, M!FoundAtFirst
<1> QED BY <1>3, <1>4

-----------------------------------------------------------------------------
(* Stream: the number that digits are.                                      *)

LEMMA Induction ==
    ASSUME NEW T \in SUBSET Nat, 0 \in T, \A n \in T : n + 1 \in T
    PROVE  T = Nat
<1> SUFFICES ASSUME T # Nat PROVE FALSE
  OBVIOUS
<1>1. Nat \ T \in SUBSET Nat /\ Nat \ T # {}
  OBVIOUS
<1>2. PICK m \in Nat \ T : \A k \in Nat \ T : m <= k
  BY <1>1, Smallest
<1>3. m # 0 /\ m - 1 \in Nat /\ m - 1 \in T
  BY <1>2
<1> QED BY <1>2, <1>3

\* w[i] is the number that the digits among the first i characters of s are.
Weighs(w, s, n) ==
    w = [i \in 0..n |-> IF i = 0 THEN 0
                        ELSE IF s[i] \in M!Digits THEN 10 * w[i - 1] + M!Value(s[i])
                        ELSE w[i - 1]]

LEMMA WeightExists ==
    ASSUME NEW s, NEW n \in Nat
    PROVE  \E w : Weighs(w, s, n)
<1> DEFINE T == {m \in Nat : \E w : Weighs(w, s, m)}
<1>1. 0 \in T
  <2>1. Weighs([i \in 0..0 |-> 0], s, 0)
    BY DEF Weighs
  <2> QED BY <2>1
<1>2. ASSUME NEW m \in T
      PROVE  m + 1 \in T
  <2>1. m \in Nat
    OBVIOUS
  <2>2. PICK w : Weighs(w, s, m)
    BY <1>2
  <2> DEFINE v == [i \in 0..m + 1 |-> IF i <= m THEN w[i]
                                      ELSE IF s[i] \in M!Digits THEN 10 * w[m] + M!Value(s[i])
                                      ELSE w[m]]
  <2>3. ASSUME NEW i \in 0..m + 1
        PROVE  v[i] = IF i = 0 THEN 0
                      ELSE IF s[i] \in M!Digits THEN 10 * v[i - 1] + M!Value(s[i])
                      ELSE v[i - 1]
    <3>1. CASE i = 0
      BY <2>1, <2>2, <3>1 DEF Weighs
    <3>2. CASE i # 0 /\ i <= m
      <4>1. v[i] = w[i] /\ v[i - 1] = w[i - 1] /\ i \in 0..m
        BY <2>1, <3>2
      <4> HIDE DEF v
      <4>2. w[i] = IF i = 0 THEN 0
                   ELSE IF s[i] \in M!Digits THEN 10 * w[i - 1] + M!Value(s[i])
                   ELSE w[i - 1]
        BY <2>2, <4>1 DEF Weighs
      <4> QED BY <4>1, <4>2
    <3>3. CASE ~(i <= m)
      <4>1. i = m + 1 /\ i # 0 /\ i - 1 = m
        BY <2>1, <3>3
      <4>2. v[m] = w[m]
        BY <2>1
      <4> QED BY <3>3, <4>1, <4>2
    <3> QED BY <2>1, <3>1, <3>2, <3>3
  <2>4. Weighs(v, s, m + 1)
    <3>1. v = [i \in 0..m + 1 |-> v[i]]
      OBVIOUS
    <3> HIDE DEF v
    <3> QED BY <2>3, <3>1 DEF Weighs
  <2> HIDE DEF v
  <2> QED BY <2>1, <2>4
<1>3. T = Nat
  <2>1. T \in SUBSET Nat
    OBVIOUS
  <2> HIDE DEF T
  <2> QED BY <1>1, <1>2, <2>1, Induction
<1> QED BY <1>3

LEMMA WeightAgrees ==
    ASSUME NEW s, NEW r, NEW n \in Nat, \A i \in 1..n : s[i] = r[i],
           NEW v, NEW w, Weighs(v, s, n), Weighs(w, r, n + 1)
    PROVE  v[n] = w[n]
<1> DEFINE T == {i \in Nat : i <= n => v[i] = w[i]}
<1>1. 0 \in T
  BY DEF Weighs
<1>2. ASSUME NEW i \in T
      PROVE  i + 1 \in T
  <2> SUFFICES ASSUME i + 1 <= n PROVE v[i + 1] = w[i + 1]
    OBVIOUS
  <2>1. i \in Nat /\ i + 1 \in 0..n /\ i + 1 \in 0..n + 1 /\ i + 1 \in 1..n /\ i + 1 # 0
        /\ (i + 1) - 1 = i
    OBVIOUS
  <2>2. v[i] = w[i] /\ s[i + 1] = r[i + 1]
    BY <1>2, <2>1
  <2>3. v[i + 1] = IF s[i + 1] \in M!Digits THEN 10 * v[i] + M!Value(s[i + 1]) ELSE v[i]
    BY <2>1 DEF Weighs
  <2>4. w[i + 1] = IF r[i + 1] \in M!Digits THEN 10 * w[i] + M!Value(r[i + 1]) ELSE w[i]
    BY <2>1 DEF Weighs
  <2> QED BY <2>2, <2>3, <2>4
<1>3. T = Nat
  <2>1. T \in SUBSET Nat
    OBVIOUS
  <2> HIDE DEF T
  <2> QED BY <1>1, <1>2, <2>1, Induction
<1> QED BY <1>3

LEMMA WeightIs ==
    ASSUME NEW C, NEW s \in Seq(C)
    PROVE  \E w : Weighs(w, s, Len(s)) /\ M!Weight(s) = w[Len(s)]
<1> DEFINE weight == CHOOSE w : Weighs(w, s, Len(s))
<1>1. Weighs(weight, s, Len(s))
  BY WeightExists
<1>2. M!Weight(s) = weight[Len(s)]
  BY DEF M!Weight, Weighs
<1> QED BY <1>1, <1>2

(* One character more.                                                     *)
LEMMA WeightGrows ==
    ASSUME NEW C, NEW s \in Seq(C), NEW c \in C
    PROVE  M!Weight(Append(s, c)) = IF c \in M!Digits THEN 10 * M!Weight(s) + M!Value(c)
                                    ELSE M!Weight(s)
<1> DEFINE n == Len(s)
           r == Append(s, c)
<1>1. /\ r \in Seq(C) /\ Len(r) = n + 1 /\ n \in Nat /\ r[n + 1] = c
      /\ \A i \in 1..n : s[i] = r[i]
  BY AppendFacts
<1>2. PICK v : Weighs(v, s, n) /\ M!Weight(s) = v[n]
  BY WeightIs
<1> HIDE DEF n, r
<1>3. PICK w : Weighs(w, r, n + 1) /\ M!Weight(r) = w[n + 1]
  BY <1>1, WeightIs
<1>4. v[n] = w[n]
  BY <1>1, <1>2, <1>3, WeightAgrees
<1>5. n + 1 \in 0..n + 1 /\ n + 1 # 0 /\ (n + 1) - 1 = n
  BY <1>1
<1>6. w[n + 1] = IF r[n + 1] \in M!Digits THEN 10 * w[n] + M!Value(r[n + 1]) ELSE w[n]
  BY <1>3, <1>5 DEF Weighs
<1> QED BY <1>1, <1>2, <1>3, <1>4, <1>6 DEF r

LEMMA WeightEmpty == M!Weight(<<>>) = 0
<1>1. <<>> \in Seq(STRING) /\ Len(<<>>) = 0
  OBVIOUS
<1>2. PICK w : Weighs(w, <<>>, 0) /\ M!Weight(<<>>) = w[0]
  BY <1>1, WeightIs
<1> QED BY <1>2 DEF Weighs

-----------------------------------------------------------------------------
(* Stream: parseInt(), parseFloat(), readBytesUntil() and the like.         *)

Points(s, decimal) == {i \in DOMAIN s : s[i] = M!Point /\ decimal}
Scale(s, decimal) ==
    {i \in DOMAIN s : s[i] \in M!Digits /\ \E j \in Points(s, decimal) : j < i}

\* What a parser has made of the characters s is the number they are.
Parsed(s, decimal, negative, value, places) ==
    /\ value = M!Weight(s) /\ (negative <=> \E i \in DOMAIN s : s[i] = "-")
    /\ places = IF Points(s, decimal) = {} THEN -1 ELSE Cardinality(Scale(s, decimal))
    /\ Cardinality(Points(s, decimal)) <= 1

NumberCall ==
    call.op \in {"skip", "digits"} =>
        /\ call = [op |-> call.op, decimal |-> call.decimal, lookahead |-> call.lookahead,
                   negative |-> call.negative, value |-> call.value, places |-> call.places]
        /\ call.decimal \in BOOLEAN /\ call.negative \in BOOLEAN
        /\ Parsed(consumed, call.decimal, call.negative, call.value, call.places)
        /\ call.op = "skip" =>
             call.value = 0 /\ \A i \in DOMAIN consumed : ~M!Starts(consumed[i], call.decimal)
        /\ call.op = "digits" /\ M!Starts(consumed[1], call.decimal) =>
             \A i \in 2..Len(consumed) : M!Goes(consumed[i], call.decimal)

ReadCall ==
    call.op = "read" =>
        /\ call = [op |-> "read", ends |-> call.ends, length |-> call.length, got |-> consumed]
        /\ call.length \in Nat /\ (call.length > 0 => Len(consumed) < call.length)

LEMMA PointsGrow ==
    ASSUME NEW s \in Seq(Chars), NEW c \in Chars, NEW decimal \in BOOLEAN
    PROVE  LET r == Append(s, c) IN
           /\ DOMAIN r = DOMAIN s \cup {Len(s) + 1} /\ Len(s) + 1 \notin DOMAIN s
           /\ DOMAIN s = 1..Len(s) /\ r[Len(s) + 1] = c /\ \A i \in DOMAIN s : r[i] = s[i]
           /\ Points(r, decimal) = IF c = M!Point /\ decimal
                                   THEN Points(s, decimal) \cup {Len(s) + 1} ELSE Points(s, decimal)
           /\ Scale(r, decimal) = IF c \in M!Digits /\ Points(s, decimal) # {}
                                  THEN Scale(s, decimal) \cup {Len(s) + 1} ELSE Scale(s, decimal)
<1> DEFINE n == Len(s)
           r == Append(s, c)
<1>1. /\ n \in Nat /\ DOMAIN s = 1..n /\ DOMAIN r = 1..n + 1 /\ r[n + 1] = c
      /\ \A i \in 1..n : r[i] = s[i]
  BY AppendFacts
<1>2. 1..n + 1 = (1..n) \cup {n + 1} /\ n + 1 \notin 1..n
      /\ \A i \in 1..n : i < n + 1 /\ ~(n + 1 < i)
  BY <1>1
<1> HIDE DEF n, r
<1>3. Points(r, decimal) = IF c = M!Point /\ decimal
                           THEN Points(s, decimal) \cup {n + 1} ELSE Points(s, decimal)
  BY <1>1, <1>2 DEF Points
<1>4. c \in M!Digits => c # M!Point
  BY DEF M!Digits, M!Point
<1>5. Scale(r, decimal) = IF c \in M!Digits /\ Points(s, decimal) # {}
                          THEN Scale(s, decimal) \cup {n + 1} ELSE Scale(s, decimal)
  <2>1. Points(s, decimal) \subseteq 1..n
    BY <1>1 DEF Points
  <2>2. ASSUME NEW i \in 1..n
        PROVE  i \in Scale(r, decimal) <=> i \in Scale(s, decimal)
    <3>1. (\E j \in Points(r, decimal) : j < i) <=> \E j \in Points(s, decimal) : j < i
      BY <1>2, <1>3
    <3> QED BY <1>1, <1>2, <3>1 DEF Scale
  <2>3. n + 1 \in Scale(r, decimal) <=> c \in M!Digits /\ Points(s, decimal) # {}
    <3>1. c \in M!Digits => Points(r, decimal) = Points(s, decimal)
      BY <1>3, <1>4
    <3>2. (\E j \in Points(s, decimal) : j < n + 1) <=> Points(s, decimal) # {}
      BY <1>2, <2>1
    <3> QED BY <1>1, <1>2, <3>1, <3>2 DEF Scale
  <2>4. Scale(r, decimal) \subseteq 1..n + 1 /\ Scale(s, decimal) \subseteq 1..n
    BY <1>1 DEF Scale
  <2>5. CASE c \in M!Digits /\ Points(s, decimal) # {}
    <3>1. \A i \in 1..n + 1 : i \in Scale(r, decimal) <=> i \in Scale(s, decimal) \cup {n + 1}
      BY <1>2, <2>2, <2>3, <2>5
    <3> QED BY <1>2, <2>4, <2>5, <3>1
  <2>6. CASE ~(c \in M!Digits /\ Points(s, decimal) # {})
    <3>1. \A i \in 1..n + 1 : i \in Scale(r, decimal) <=> i \in Scale(s, decimal)
      BY <1>2, <2>2, <2>3, <2>4, <2>6
    <3> QED BY <1>2, <2>4, <2>6, <3>1
  <2> QED BY <2>5, <2>6
<1> QED BY <1>1, <1>2, <1>3, <1>5 DEF n, r

LEMMA Finite ==
    ASSUME NEW s \in Seq(Chars), NEW decimal
    PROVE  /\ IsFiniteSet(Points(s, decimal)) /\ Cardinality(Points(s, decimal)) \in Nat
           /\ IsFiniteSet(Scale(s, decimal)) /\ Cardinality(Scale(s, decimal)) \in Nat
<1>1. DOMAIN s = 1..Len(s) /\ Len(s) \in Nat
  OBVIOUS
<1>2. IsFiniteSet(1..Len(s))
  BY <1>1, FS_Interval
<1>3. Points(s, decimal) \subseteq 1..Len(s) /\ Scale(s, decimal) \subseteq 1..Len(s)
  BY <1>1 DEF Points, Scale
<1> QED BY <1>2, <1>3, FS_Subset, FS_CardinalityType

(* One character more for a number.                                        *)
LEMMA ParsedGrows ==
    ASSUME NEW s \in Seq(Chars), NEW c \in Chars, NEW decimal \in BOOLEAN, NEW negative \in BOOLEAN,
           NEW value, NEW places, Parsed(s, decimal, negative, value, places),
           c = M!Point /\ decimal => places < 0
    PROVE  Parsed(Append(s, c), decimal, negative \/ c = "-",
                  IF c \in M!Digits THEN 10 * value + M!Value(c) ELSE value,
                  IF c = M!Point /\ decimal THEN 0
                  ELSE IF c \in M!Digits /\ places >= 0 THEN places + 1 ELSE places)
<1> DEFINE n == Len(s)
           r == Append(s, c)
           Dots == Points(s, decimal)
           Z == Scale(s, decimal)
<1>1. /\ DOMAIN r = DOMAIN s \cup {n + 1} /\ n + 1 \notin DOMAIN s
      /\ r[n + 1] = c /\ \A i \in DOMAIN s : r[i] = s[i]
      /\ Points(r, decimal) = IF c = M!Point /\ decimal THEN Dots \cup {n + 1} ELSE Dots
      /\ Scale(r, decimal) = IF c \in M!Digits /\ Dots # {} THEN Z \cup {n + 1} ELSE Z
  BY PointsGrow
<1>2. /\ IsFiniteSet(Dots) /\ Cardinality(Dots) \in Nat /\ Dots \subseteq DOMAIN s
      /\ IsFiniteSet(Z) /\ Cardinality(Z) \in Nat /\ Z \subseteq DOMAIN s
      /\ (Dots = {} => Z = {})
  BY Finite DEF Points, Scale
<1>3. /\ value = M!Weight(s) /\ (negative <=> \E i \in DOMAIN s : s[i] = "-")
      /\ places = IF Dots = {} THEN -1 ELSE Cardinality(Z)
      /\ Cardinality(Dots) <= 1
  BY DEF Parsed
<1>4. M!Weight(r) = IF c \in M!Digits THEN 10 * value + M!Value(c) ELSE value
  BY <1>3, WeightGrows
<1>5. c \in M!Digits => c # M!Point
  BY DEF M!Digits, M!Point
<1> HIDE DEF n, r, Dots, Z
<1>6. (negative \/ c = "-") <=> \E i \in DOMAIN r : r[i] = "-"
  BY <1>1, <1>3
<1>7. /\ (IF c = M!Point /\ decimal THEN 0
           ELSE IF c \in M!Digits /\ places >= 0 THEN places + 1 ELSE places)
          = (IF Points(r, decimal) = {} THEN -1 ELSE Cardinality(Scale(r, decimal)))
      /\ Cardinality(Points(r, decimal)) <= 1
  <2>1. CASE c = M!Point /\ decimal
    <3>1. Dots = {} /\ Z = {}
      BY <1>2, <1>3, <2>1
    <3>2. Points(r, decimal) = {n + 1} /\ Scale(r, decimal) = {}
      BY <1>1, <1>5, <2>1, <3>1
    <3>3. Cardinality({n + 1}) = 1 /\ Cardinality({}) = 0
      BY FS_Singleton, FS_EmptySet
    <3>4. Points(r, decimal) # {} /\ Cardinality(Points(r, decimal)) = 1
      BY <3>2, <3>3
    <3>5. Cardinality(Scale(r, decimal)) = 0
      BY <3>2, <3>3
    <3>6. (IF Points(r, decimal) = {} THEN -1 ELSE Cardinality(Scale(r, decimal))) = 0
      BY <3>4, <3>5
    <3>7. (IF c = M!Point /\ decimal THEN 0
           ELSE IF c \in M!Digits /\ places >= 0 THEN places + 1 ELSE places) = 0
      BY Zenon, <2>1
    <3>8. Cardinality(Points(r, decimal)) <= 1
      BY <3>4
    <3> QED BY Zenon, <3>6, <3>7, <3>8
  <2>2. CASE ~(c = M!Point /\ decimal) /\ Dots = {}
    BY <1>1, <1>3, <2>2
  <2>3. CASE ~(c = M!Point /\ decimal) /\ Dots # {}
    <3>1. Points(r, decimal) = Dots /\ places = Cardinality(Z) /\ places >= 0
      BY <1>1, <1>2, <1>3, <2>3
    <3>2. CASE c \in M!Digits
      <4>1. Scale(r, decimal) = Z \cup {n + 1} /\ n + 1 \notin Z
        BY <1>1, <1>2, <2>3, <3>2
      <4>2. Cardinality(Z \cup {n + 1}) = Cardinality(Z) + 1
        BY <1>2, <4>1, FS_AddElement
      <4> QED BY <1>3, <2>3, <3>1, <3>2, <4>1, <4>2
    <3>3. CASE c \notin M!Digits
      BY <1>1, <1>3, <2>3, <3>1, <3>3
    <3> QED BY <3>2, <3>3
  <2> QED BY <2>1, <2>2, <2>3
<1> QED BY <1>4, <1>6, <1>7 DEF Parsed, r

LEMMA NumberReads ==
    ASSUME NEW c \in Chars, call.op \in {"skip", "digits"}, NumberCall, consumed \in Seq(Chars),
           consumed' = Append(consumed, c),
           IF call.op = "skip" THEN M!Starts(c, call.decimal) \/ M!Discards(c)
           ELSE M!Goes(c, call.decimal /\ call.places < 0),
           call' = IF call.op = "skip" /\ ~M!Starts(c, call.decimal) /\ M!Discards(c)
                   THEN call ELSE M!Digested(c)
    PROVE  NumberCall'
<1> DEFINE n == Len(consumed)
<1>1. /\ call = [op |-> call.op, decimal |-> call.decimal, lookahead |-> call.lookahead,
                 negative |-> call.negative, value |-> call.value, places |-> call.places]
      /\ call.decimal \in BOOLEAN /\ call.negative \in BOOLEAN
      /\ Parsed(consumed, call.decimal, call.negative, call.value, call.places)
      /\ call.op = "skip" =>
           call.value = 0 /\ \A i \in DOMAIN consumed : ~M!Starts(consumed[i], call.decimal)
      /\ call.op = "digits" /\ M!Starts(consumed[1], call.decimal) =>
           \A i \in 2..Len(consumed) : M!Goes(consumed[i], call.decimal)
  BY DEF NumberCall
<1>2. /\ n \in Nat /\ Len(consumed') = n + 1 /\ consumed'[n + 1] = c
      /\ \A i \in 1..n : consumed'[i] = consumed[i]
      /\ DOMAIN consumed = 1..n /\ DOMAIN consumed' = 1..n + 1
  BY AppendFacts
<1>3. 1..n + 1 = (1..n) \cup {n + 1}
  BY <1>2
<1>4. c \in M!Digits => c # M!Point /\ c # "-"
  BY DEF M!Digits, M!Point
<1>5. CASE call.op = "skip" /\ ~M!Starts(c, call.decimal)
  <2>1. call' = call /\ c # "-" /\ c \notin M!Digits /\ ~(c = M!Point /\ call.decimal)
    BY <1>5 DEF M!Starts
  <2>2. (call.negative \/ c = "-") = call.negative
    BY <1>1, <2>1
  <2>3. Parsed(consumed', call.decimal, call.negative \/ c = "-",
               IF c \in M!Digits THEN 10 * call.value + M!Value(c) ELSE call.value,
               IF c = M!Point /\ call.decimal THEN 0
               ELSE IF c \in M!Digits /\ call.places >= 0 THEN call.places + 1 ELSE call.places)
    BY <1>1, <2>1, ParsedGrows
  <2>4. Parsed(consumed', call.decimal, call.negative, call.value, call.places)
    BY <2>1, <2>2, <2>3
  <2>5. \A i \in DOMAIN consumed' : ~M!Starts(consumed'[i], call.decimal)
    BY <1>1, <1>2, <1>3, <1>5
  <2> QED BY <1>1, <1>5, <2>1, <2>4, <2>5 DEF NumberCall
<1>6. CASE call.op # "skip" \/ M!Starts(c, call.decimal)
  <2>1. call' = [op |-> "digits", decimal |-> call.decimal, lookahead |-> call.lookahead,
                 negative |-> (call.negative \/ c = "-"),
                 value |-> IF c \in M!Digits THEN 10 * call.value + M!Value(c) ELSE call.value,
                 places |-> IF c = M!Point THEN 0
                            ELSE IF c \in M!Digits /\ call.places >= 0 THEN call.places + 1
                            ELSE call.places]
    <3>1. call' = M!Digested(c)
      BY <1>6
    <3> QED BY <1>1, <3>1 DEF M!Digested
  <2>2. c = M!Point => call.decimal /\ call.places < 0
    <3>1. CASE call.op = "skip"
      <4>1. c = M!Point => call.decimal
        BY <1>6, <3>1 DEF M!Starts, M!Point, M!Digits
      <4>2. call.decimal => Points(consumed, call.decimal) = {}
        BY <1>1, <3>1 DEF Points, M!Starts
      <4>3. call.decimal => call.places = -1
        BY <1>1, <4>2 DEF Parsed
      <4> QED BY <4>1, <4>3
    <3>2. CASE call.op # "skip"
      BY <3>2 DEF M!Goes, M!Point, M!Digits, M!Ignore
    <3> QED BY <3>1, <3>2
  <2>3. /\ call'.op = "digits" /\ call'.decimal = call.decimal /\ call'.lookahead = call.lookahead
        /\ call'.negative = (call.negative \/ c = "-")
        /\ call'.value = (IF c \in M!Digits THEN 10 * call.value + M!Value(c) ELSE call.value)
        /\ call'.places = (IF c = M!Point /\ call.decimal THEN 0
                           ELSE IF c \in M!Digits /\ call.places >= 0 THEN call.places + 1
                           ELSE call.places)
    BY <2>1, <2>2
  <2>4. Parsed(consumed', call'.decimal, call'.negative, call'.value, call'.places)
    <3>1. Parsed(consumed', call.decimal, call.negative \/ c = "-",
               IF c \in M!Digits THEN 10 * call.value + M!Value(c) ELSE call.value,
               IF c = M!Point /\ call.decimal THEN 0
               ELSE IF c \in M!Digits /\ call.places >= 0 THEN call.places + 1 ELSE call.places)
      BY <1>1, <2>2, ParsedGrows
    <3> QED BY <2>3, <3>1
  <2>5. call' = [op |-> call'.op, decimal |-> call'.decimal, lookahead |-> call'.lookahead,
                 negative |-> call'.negative, value |-> call'.value, places |-> call'.places]
    BY <2>1
  <2>6. ASSUME M!Starts(consumed'[1], call.decimal), NEW i \in 2..n + 1
        PROVE  M!Goes(consumed'[i], call.decimal)
    <3>1. n >= 1 /\ 1 \in 1..n /\ consumed'[1] = consumed[1]
      BY <1>2, <2>6
    <3>2. call.op = "digits"
      BY <1>1, <1>2, <2>6, <3>1
    <3>3. CASE i = n + 1
      BY <1>2, <3>2, <3>3 DEF M!Goes
    <3>4. CASE i # n + 1
      <4>1. i \in 2..n /\ i \in 1..n
        BY <1>2, <2>6, <3>4
      <4> QED BY <1>1, <1>2, <2>6, <3>1, <3>2, <4>1
    <3> QED BY <3>3, <3>4
  <2>7. call'.negative \in BOOLEAN
    BY <2>3
  <2> QED BY <1>1, <1>2, <2>3, <2>4, <2>5, <2>6, <2>7 DEF NumberCall
<1> QED BY <1>5, <1>6

LEMMA NumberEnds ==
    ASSUME call.op \in {"skip", "digits"}, NumberCall, consumed' = consumed,
           result' = M!Signed(call.value)
    PROVE  M!ParsedAsConsumed'
<1>1. /\ result'.kind = "number" /\ result'.decimal = call.decimal
      /\ result'.value = (IF call.negative THEN -call.value ELSE call.value)
      /\ result'.places = call.places
  BY DEF M!Signed
<1>2. Parsed(consumed, call.decimal, call.negative, call.value, call.places)
  BY DEF NumberCall
<1>3. consumed # <<>> /\ M!Starts(consumed[1], call.decimal) =>
        \A i \in 2..Len(consumed) : M!Goes(consumed[i], call.decimal)
  BY DEF NumberCall
<1>4. /\ Points(consumed, call.decimal)
           = {i \in DOMAIN consumed' : consumed'[i] = M!Point /\ result'.decimal}
      /\ Scale(consumed, call.decimal)
           = {i \in DOMAIN consumed' : consumed'[i] \in M!Digits
                  /\ \E j \in Points(consumed, call.decimal) : j < i}
  BY <1>1 DEF Points, Scale
<1> DEFINE Dots == Points(consumed, call.decimal)
           Z == Scale(consumed, call.decimal)
<1>5. /\ call.value = M!Weight(consumed') /\ (call.negative <=> \E i \in DOMAIN consumed' : consumed'[i] = "-")
      /\ result'.places = (IF Dots = {} THEN -1 ELSE Cardinality(Z))
      /\ Cardinality(Dots) <= 1
  BY <1>1, <1>2 DEF Parsed
<1> HIDE DEF Dots, Z
<1>6. result'.value = IF \E i \in DOMAIN consumed' : consumed'[i] = "-"
                      THEN -M!Weight(consumed') ELSE M!Weight(consumed')
  BY <1>1, <1>5
<1>7. /\ Dots = {i \in DOMAIN consumed' : consumed'[i] = M!Point /\ result'.decimal}
      /\ Z = {i \in DOMAIN consumed' : consumed'[i] \in M!Digits /\ \E j \in Dots : j < i}
  BY <1>4 DEF Dots, Z
<1>8. result'.kind # "read"
  BY <1>1
<1>9. consumed' # <<>> /\ M!Starts(consumed'[1], result'.decimal) =>
        \A i \in 2..Len(consumed') : M!Goes(consumed'[i], result'.decimal)
  BY <1>1, <1>3
<1>10. /\ result'.places = (IF Dots = {} THEN -1 ELSE M!Cardinality(Z))
       /\ M!Cardinality(Dots) <= 1
  BY <1>5 DEF M!Cardinality, Cardinality
<1> QED BY <1>6, <1>7, <1>8, <1>9, <1>10, Zenon DEF M!ParsedAsConsumed

(* What readBytesUntil() and the like have got is what they consumed.      *)
LEMMA BytesRead ==
    ASSUME NEW c \in Chars, call.op = "read", ReadCall, consumed \in Seq(Chars),
           consumed' = Append(consumed, c), result.kind = "none", M!ReadStep(c)
    PROVE  ReadCall' /\ M!ParsedAsConsumed'
<1> DEFINE n == Len(consumed)
<1>1. /\ call = [op |-> "read", ends |-> call.ends, length |-> call.length, got |-> consumed]
      /\ call.length \in Nat /\ (call.length > 0 => n < call.length) /\ call.got = consumed
  BY DEF ReadCall
<1>2. n \in Nat /\ Len(consumed') = n + 1 /\ c # M!Eof
  BY AppendFacts DEF Chars
<1>3. CASE call.ends /\ c = M!End
  <2>1. call' = [op |-> "none"]
        /\ result' = [kind |-> "read", got |-> consumed, length |-> call.length]
    BY <1>1, <1>3 DEF M!ReadStep, M!Return
  <2>2. /\ call'.op # "read" /\ result'.kind = "read" /\ result'.got = consumed
        /\ result'.length = call.length
    BY <2>1
  <2> QED BY <1>1, <1>2, <1>3, <2>2 DEF ReadCall, M!ParsedAsConsumed
<1>4. CASE ~(call.ends /\ c = M!End) /\ Len(consumed') = call.length
  <2>1. call' = [op |-> "none"]
        /\ result' = [kind |-> "read", got |-> consumed', length |-> call.length]
    BY <1>1, <1>2, <1>4 DEF M!ReadStep, M!Return
  <2>2. /\ call'.op # "read" /\ result'.kind = "read" /\ result'.got = consumed'
        /\ result'.length = call.length
    BY <2>1
  <2> QED BY <1>2, <1>4, <2>2 DEF ReadCall, M!ParsedAsConsumed
<1>5. CASE ~(call.ends /\ c = M!End) /\ Len(consumed') # call.length
  <2>1. call' = [call EXCEPT !.got = consumed'] /\ result' = result
    BY <1>1, <1>2, <1>5 DEF M!ReadStep, M!Continue
  <2>2. call' = [op |-> "read", ends |-> call.ends, length |-> call.length, got |-> consumed']
    BY <1>1, <2>1
  <2>3. call'.ends = call.ends /\ call'.length = call.length
    BY <2>2
  <2>4. call.length > 0 => Len(consumed') < call.length
    BY <1>1, <1>2, <1>5
  <2>5. ReadCall'
    BY <1>1, <2>2, <2>3, <2>4 DEF ReadCall
  <2> QED BY <2>1, <2>5 DEF M!ParsedAsConsumed
<1> QED BY <1>3, <1>4, <1>5

LEMMA ReadEnds ==
    ASSUME call.op = "read", ReadCall, consumed \in Seq(Chars), consumed' = consumed,
           M!ReadStep(M!Eof)
    PROVE  call'.op = "none" /\ M!ParsedAsConsumed'
<1>1. /\ call.length \in Nat /\ (call.length > 0 => Len(consumed) < call.length)
      /\ call.got = consumed /\ Len(consumed) \in Nat
  BY DEF ReadCall
<1>2. call' = [op |-> "none"]
      /\ result' = [kind |-> "read", got |-> consumed, length |-> call.length]
  BY <1>1 DEF M!ReadStep, M!Return
<1>3. /\ call'.op = "none" /\ result'.kind = "read" /\ result'.got = consumed
      /\ result'.length = call.length
  BY <1>2
<1> QED BY <1>1, <1>3 DEF M!ParsedAsConsumed

Streams == coming \in Seq(Chars) /\ arrived \in Seq(Chars) /\ consumed \in Seq(Chars)

(* The inductive invariant of Stream's parsing methods.                    *)
StreamInv ==
    /\ Streams /\ call.op \in {"none", "find", "read", "skip", "digits"}
    /\ FindCall /\ NumberCall /\ ReadCall
    /\ ~M!Idle => result.kind = "none"
    /\ M!ConsumedRight

LEMMA StreamPart == [TextNext]_textVars => [M!Next]_(M!vars)
BY Zenon DEF TextNext, StringStep, NumberStep, AddressStep, SerialStep, StreamStep, ScriptStep,
             textVars, streamVars, M!vars

LEMMA EmptyText ==
    /\ <<>> \in Seq(Chars) /\ Len(<<>>) = 0 /\ DOMAIN <<>> = {}
    /\ Points(<<>>, TRUE) = {} /\ Points(<<>>, FALSE) = {}
    /\ Cardinality({}) = 0
<1>1. <<>> \in Seq(Chars) /\ Len(<<>>) = 0 /\ DOMAIN <<>> = {}
  OBVIOUS
<1> QED BY <1>1, FS_EmptySet DEF Points

LEMMA StreamBegins == TextInit => StreamInv
<1> SUFFICES ASSUME TextInit PROVE StreamInv
  OBVIOUS
<1>1. /\ coming \in Inputs /\ arrived = <<>> /\ consumed = <<>>
      /\ call = [op |-> "none"] /\ result = [kind |-> "none"]
  BY DEF TextInit, M!Init
<1>2. call.op = "none" /\ result.kind = "none"
  BY <1>1
<1>3. coming \in Seq(Chars)
  BY <1>1, TextAssumption DEF Chars
<1> QED BY <1>1, <1>2, <1>3, EmptyText
        DEF StreamInv, Streams, FindCall, NumberCall, ReadCall, M!ConsumedRight, M!FoundAtFirst,
            M!ParsedAsConsumed

LEMMA TakesOne ==
    ASSUME Streams, arrived # <<>>
    PROVE  /\ Head(arrived) \in Chars /\ Tail(arrived) \in Seq(Chars)
           /\ Append(consumed, Head(arrived)) \in Seq(Chars)
<1>1. arrived \in Seq(Chars) /\ consumed \in Seq(Chars)
  BY DEF Streams
<1>2. Head(arrived) \in Chars /\ Tail(arrived) \in Seq(Chars)
  BY <1>1, TailFacts
<1> QED BY <1>1, <1>2, AppendFacts

LEMMA StreamKeeps ==
    ASSUME StreamInv, M!Next
    PROVE  StreamInv'
<1> USE DEF StreamInv
<1>1. ASSUME NEW targets \in Targets, M!FindMulti(targets)
      PROVE  StreamInv'
  <2>1. targets \in Seq(Seq(STRING))
    BY TextAssumption
  <2>2. FindCall' /\ M!FoundAtFirst' /\ consumed' = <<>> /\ (call'.op # "none" => result'.kind = "none")
    BY <1>1, <2>1, FindBegins
  <2>3. /\ UNCHANGED <<coming, arrived>>
        /\ call'.op \in {"find", "none"} /\ result'.kind \in {"none", "find"}
    BY <1>1 DEF M!FindMulti, M!Begin, M!Idle
  <2> QED BY <2>2, <2>3, EmptyText
          DEF Streams, NumberCall, ReadCall, M!Idle, M!ConsumedRight, M!ParsedAsConsumed
<1>2. ASSUME NEW lookahead, NEW decimal \in BOOLEAN, M!ParseNumber(decimal, lookahead)
      PROVE  StreamInv'
  <2>1. /\ call' = [op |-> "skip", decimal |-> decimal, lookahead |-> lookahead,
                    negative |-> FALSE, value |-> 0, places |-> -1]
        /\ consumed' = <<>> /\ result' = [kind |-> "none"] /\ UNCHANGED <<coming, arrived>>
    BY <1>2 DEF M!ParseNumber, M!Begin
  <2>2. /\ call'.op = "skip" /\ call'.decimal = decimal /\ call'.lookahead = lookahead
        /\ call'.negative = FALSE /\ call'.value = 0 /\ call'.places = -1
        /\ result'.kind = "none"
    BY <2>1
  <2>3. Points(<<>>, decimal) = {}
    BY EmptyText
  <2>4. Parsed(<<>>, decimal, FALSE, 0, -1)
    BY <2>3, EmptyText, WeightEmpty DEF Parsed
  <2>5. NumberCall'
    BY <2>1, <2>2, <2>4, EmptyText DEF NumberCall
  <2> QED BY <2>1, <2>2, <2>5, EmptyText
          DEF Streams, FindCall, ReadCall, M!ConsumedRight, M!FoundAtFirst, M!ParsedAsConsumed
<1>3. ASSUME NEW ends, NEW length \in Lengths, M!ReadUntil(ends, length)
      PROVE  StreamInv'
  <2>1. /\ call' = [op |-> "read", ends |-> ends, length |-> length, got |-> <<>>]
        /\ consumed' = <<>> /\ result' = [kind |-> "none"] /\ UNCHANGED <<coming, arrived>>
    BY <1>3 DEF M!ReadUntil, M!Begin
  <2>2. /\ call'.op = "read" /\ call'.ends = ends /\ call'.length = length
        /\ result'.kind = "none" /\ length \in Nat
    BY <2>1, TextAssumption
  <2>3. ReadCall'
    BY <2>1, <2>2, EmptyText DEF ReadCall
  <2> QED BY <2>1, <2>2, <2>3, EmptyText
          DEF Streams, FindCall, NumberCall, M!ConsumedRight, M!FoundAtFirst, M!ParsedAsConsumed
<1>4. ASSUME M!TimedRead
      PROVE  StreamInv'
  <2> DEFINE c == Head(arrived)
  <2>1. /\ call.op \in {"find", "read"} /\ arrived # <<>> /\ coming' = coming
        /\ arrived' = Tail(arrived) /\ consumed' = Append(consumed, c)
        /\ IF call.op = "find" THEN M!FindStep(c) ELSE M!ReadStep(c)
    BY <1>4 DEF M!TimedRead
  <2>2. c \in Chars /\ Streams' /\ consumed \in Seq(Chars)
    BY <2>1, TakesOne DEF Streams
  <2>3. result.kind = "none"
    BY <2>1 DEF M!Idle
  <2> HIDE DEF c
  <2>4. CASE call.op = "find"
    <3>1. M!FindStep(c)
      BY <2>1, <2>4
    <3>2. FindCall' /\ M!FoundAtFirst'
      BY <2>1, <2>2, <2>3, <2>4, <3>1, FindReads
    <3>3. \/ call'.op = "none" /\ result'.kind = "find"
          \/ call'.op = "find" /\ result' = result
      <4>1. \/ call' = [op |-> "none"]
               /\ \E found : result' = [kind |-> "find", of |-> call.targets, found |-> found]
            \/ (\E index : call' = [call EXCEPT !.index = index]) /\ result' = result
        BY <3>1 DEF M!FindStep, M!Return, M!Continue
      <4>2. call = [op |-> "find", targets |-> call.targets, index |-> call.index]
        BY <2>4 DEF FindCall
      <4> QED BY <4>1, <4>2
    <3> QED BY <2>2, <2>3, <3>2, <3>3
            DEF NumberCall, ReadCall, M!Idle, M!ConsumedRight, M!ParsedAsConsumed
  <2>5. CASE call.op = "read"
    <3>1. M!ReadStep(c)
      BY <2>1, <2>5
    <3>2. ReadCall' /\ M!ParsedAsConsumed'
      BY <2>1, <2>2, <2>3, <2>5, <3>1, BytesRead
    <3>3. \/ call'.op = "none" /\ result'.kind = "read"
          \/ call'.op = "read" /\ result' = result
      BY <2>5, <3>1 DEF M!ReadStep, M!Return, M!Continue, ReadCall
    <3> QED BY <2>2, <2>3, <3>2, <3>3
            DEF NumberCall, FindCall, M!Idle, M!ConsumedRight, M!FoundAtFirst
  <2> QED BY <2>1, <2>4, <2>5
<1>5. ASSUME M!TimedPeek
      PROVE  StreamInv'
  <2> DEFINE c == Head(arrived)
             skips == call.op = "skip" /\ ~M!Starts(c, call.decimal) /\ M!Discards(c)
             stops == IF call.op = "skip" THEN M!SkipEnds(c)
                      ELSE ~M!Goes(c, call.decimal /\ call.places < 0)
  <2>1. /\ call.op \in {"skip", "digits"} /\ arrived # <<>> /\ coming' = coming
        /\ IF stops
           THEN /\ M!Return(IF call.op = "skip" THEN M!Signed(0) ELSE M!Signed(call.value))
                /\ UNCHANGED <<arrived, consumed>>
           ELSE /\ M!Continue(IF skips THEN call ELSE M!Digested(c))
                /\ arrived' = Tail(arrived) /\ consumed' = Append(consumed, c)
    BY <1>5 DEF M!TimedPeek
  <2>2. /\ c \in Chars /\ Tail(arrived) \in Seq(Chars) /\ Append(consumed, c) \in Seq(Chars)
        /\ consumed \in Seq(Chars)
    BY <2>1, TakesOne DEF Streams
  <2>3. result.kind = "none"
    BY <2>1 DEF M!Idle
  <2> HIDE DEF c
  <2>4. CASE stops
    <3>1. call' = [op |-> "none"] /\ result' = M!Signed(call.value) /\ UNCHANGED <<arrived, consumed>>
      BY <2>1, <2>4 DEF M!Return, NumberCall
    <3>2. call'.op = "none" /\ result'.kind = "number"
      BY <3>1 DEF M!Signed
    <3>3. M!ParsedAsConsumed'
      BY <2>1, <3>1, NumberEnds
    <3> QED BY <2>1, <3>1, <3>2, <3>3
            DEF Streams, FindCall, NumberCall, ReadCall, M!Idle, M!ConsumedRight, M!FoundAtFirst
  <2>5. CASE ~stops
    <3>1. /\ call' = (IF skips THEN call ELSE M!Digested(c)) /\ result' = result
          /\ arrived' = Tail(arrived) /\ consumed' = Append(consumed, c)
      BY <2>1, <2>5 DEF M!Continue
    <3>2. IF call.op = "skip" THEN M!Starts(c, call.decimal) \/ M!Discards(c)
          ELSE M!Goes(c, call.decimal /\ call.places < 0)
      BY <2>2, <2>5 DEF M!SkipEnds, Chars
    <3>3. NumberCall'
      BY <2>1, <2>2, <3>1, <3>2, NumberReads
    <3>4. call'.op \in {"skip", "digits"}
      <4>1. M!Digested(c).op = "digits"
        BY <2>1 DEF M!Digested, NumberCall
      <4> QED BY <2>1, <3>1, <4>1
    <3> QED BY <2>1, <2>2, <2>3, <3>1, <3>3, <3>4
            DEF Streams, FindCall, ReadCall, M!Idle, M!ConsumedRight, M!FoundAtFirst,
                M!ParsedAsConsumed
  <2> QED BY <2>4, <2>5
<1>6. ASSUME M!TimeOut
      PROVE  StreamInv'
  <2>1. /\ call.op # "none" /\ UNCHANGED <<coming, arrived, consumed>>
        /\ CASE call.op = "find" -> M!FindStep(M!Eof)
             [] call.op = "read" -> M!ReadStep(M!Eof)
             [] call.op = "skip" -> M!Return(M!Signed(0))
             [] OTHER -> M!Return(M!Signed(call.value))
    BY <1>6 DEF M!TimeOut, M!Idle
  <2>2. consumed \in Seq(Chars) /\ Streams'
    BY <2>1 DEF Streams
  <2>3. CASE call.op = "find"
    <3>1. M!FindStep(M!Eof)
      BY <2>1, <2>3
    <3>2. FindCall' /\ M!FoundAtFirst'
      BY <2>1, <2>3, <3>1, FindEnds
    <3>3. call'.op = "none" /\ result'.kind = "find"
      BY <3>1 DEF M!FindStep, M!Return
    <3> QED BY <2>2, <3>2, <3>3
            DEF NumberCall, ReadCall, M!Idle, M!ConsumedRight, M!ParsedAsConsumed
  <2>4. CASE call.op = "read"
    <3>1. M!ReadStep(M!Eof)
      BY <2>1, <2>4
    <3>2. call'.op = "none" /\ M!ParsedAsConsumed'
      BY <2>1, <2>2, <2>4, <3>1, ReadEnds
    <3>3. result'.kind = "read"
      BY <3>1 DEF M!ReadStep, M!Return
    <3> QED BY <2>2, <3>2, <3>3
            DEF FindCall, NumberCall, ReadCall, M!Idle, M!ConsumedRight, M!FoundAtFirst
  <2>5. CASE call.op \in {"skip", "digits"}
    <3>1. call' = [op |-> "none"] /\ result' = M!Signed(call.value)
      BY <2>1, <2>5 DEF M!Return, NumberCall
    <3>2. call'.op = "none" /\ result'.kind = "number"
      BY <3>1 DEF M!Signed
    <3>3. M!ParsedAsConsumed'
      BY <2>1, <2>5, <3>1, NumberEnds
    <3> QED BY <2>2, <3>2, <3>3
            DEF FindCall, NumberCall, ReadCall, M!Idle, M!ConsumedRight, M!FoundAtFirst
  <2> QED BY <2>1, <2>3, <2>4, <2>5
<1>7. ASSUME UNCHANGED <<call, consumed, result>>, Streams'
      PROVE  StreamInv'
  BY <1>7 DEF FindCall, NumberCall, ReadCall, M!Idle, M!ConsumedRight, M!FoundAtFirst,
              M!ParsedAsConsumed
<1>8. ASSUME M!Arrive
      PROVE  Streams'
  <2>1. /\ coming # <<>> /\ coming' = Tail(coming) /\ arrived' = Append(arrived, Head(coming))
        /\ consumed' = consumed
    BY <1>8 DEF M!Arrive
  <2>2. coming \in Seq(Chars) /\ arrived \in Seq(Chars)
    BY DEF Streams
  <2>3. Head(coming) \in Chars /\ Tail(coming) \in Seq(Chars)
    BY <2>1, <2>2, TailFacts
  <2> QED BY <2>1, <2>2, <2>3, AppendFacts DEF Streams
<1>9. CASE M!Arrive
  BY <1>7, <1>8, <1>9 DEF M!Arrive
<1>10. CASE M!Tick
  BY <1>7, <1>10 DEF M!Tick, Streams
<1> QED BY <1>1, <1>2, <1>3, <1>4, <1>5, <1>6, <1>9, <1>10 DEF M!Next

LEMMA StreamStays == StreamInv /\ UNCHANGED M!vars => StreamInv'
BY DEF StreamInv, Streams, FindCall, NumberCall, ReadCall, M!Idle, M!ConsumedRight, M!FoundAtFirst,
       M!ParsedAsConsumed, M!vars

(* Whatever arrives and whenever: find() and findUntil() stop at the very  *)
(* character that completes a target, and give up only if none came by;    *)
(* the numbers and the strings that the parsing methods return are what    *)
(* they consumed.                                                          *)
THEOREM ParsersExact == TextSpec => []ConsumedRight
<1>1. StreamInv /\ [TextNext]_textVars => StreamInv'
  BY StreamPart, StreamKeeps, StreamStays
<1>2. StreamInv => ConsumedRight
  BY DEF StreamInv, ConsumedRight
<1> QED BY <1>1, <1>2, StreamBegins, PTL DEF TextSpec

-----------------------------------------------------------------------------
(* Test scripts.                                                            *)

Events == [line : Nat, rest : Seq(S!Commands), due : Nat, nextUs : Nat, stream : BOOLEAN,
           left : Nat]
Acts == {"none", "at", "wait", "sync", "pin", "unknown", "chain", "bit", "end"}
Raised == [line : Nat, did : Acts, time : Nat, due : Nat]

Elements(s) == {s[i] : i \in 1..Len(s)}
Pending == Elements(queue) \cup Elements(batch) \cup Elements(toInsert)

Sorted(s) == \A i, j \in 1..Len(s) : i <= j => s[i].due <= s[j].due

\* No two of the events are of one line.
Apart(s) == \A i, j \in 1..Len(s) : s[i].line = s[j].line => i = j
Separate(r, s) == \A x \in Elements(r), y \in Elements(s) : x.line # y.line

ScriptTypes ==
    /\ script \in Seq(Seq(S!Commands)) /\ taken \in 1..Len(script) /\ now \in Nat
    /\ queue \in Seq(Events) /\ batch \in Seq(Events) /\ toInsert \in Seq(Events)
    /\ log \in Seq(Raised)

\* Each line has one event at most, and who is raised is due.
Lined ==
    /\ Sorted(queue) /\ Sorted(toInsert) /\ Apart(queue) /\ Apart(batch) /\ Apart(toInsert)
    /\ Separate(queue, batch) /\ Separate(queue, toInsert) /\ Separate(batch, toInsert)
    /\ \A e \in Elements(batch) : e.due <= now

Logged ==
    \A p \in 1..Len(log) : log[p].line \in 1..taken /\ log[p].time <= now

Does(line, cmds) == S!Does(line, cmds)
Raises(line) == S!Raises(line, Len(log))

\* An event is a line's remainder; the first time, it is the whole line.
OfLine(e) ==
    /\ e.line \in 1..taken
    /\ \A k \in 1..Len(e.rest) : \E j \in 1..Len(script[e.line]) : e.rest[k] = script[e.line][j]
    /\ Raises(e.line) = {} => e.rest = script[e.line] /\ (e.stream <=> S!IsBits(e.rest))
    /\ e.stream => S!IsBits(e.rest)

\* What "at" has scheduled waits for its time.
AtAwaits(e) ==
    Does(e.line, {"at"}) => \A f \in 1..Len(log) : Raises(e.line) = {f} =>
        /\ ~e.stream /\ e.due = S!AtTime(e.line)
        /\ now <= S!Later(S!AtTime(e.line), log[f].time) + Step - 1

\* A bitstream built at its first bit keeps its period.
BitsAwait(e) ==
    Does(e.line, {"bits"}) /\ S!Promptly(e.line) =>
        /\ e.stream /\ e.rest = script[e.line]
        /\ e.nextUs <= e.due /\ (e.due = e.nextUs \/ e.due <= now) /\ now <= e.nextUs + Step - 1
        /\ Raises(e.line) = {} => e.due = e.nextUs
        /\ \A f \in 1..Len(log) : S!Raises(e.line, f) = {f} =>
             e.nextUs = log[f].due + Cardinality(S!Bits(e.line, Len(log))) * S!AtTime(e.line)

Awaits(e) == OfLine(e) /\ AtAwaits(e) /\ BitsAwait(e)

\* When a wait or sync on line i, raised at log[i], is over.
Over(i) == S!AtTime(i) + (IF Does(i, {"wait"}) THEN log[i].time ELSE 0)

\* Without repeated lines there is one event, of the last line taken.
OneByOne ==
    (\A i \in 1..Len(script) : ~Does(i, {"at", "bits"})) =>
        /\ \A p \in 1..Len(log) : log[p].line = p
        /\ \A q \in 1..Len(log) : \A i \in 1..q - 1 : Does(i, {"wait", "sync"}) => log[q].time >= Over(i)
        /\ \A e \in Pending : e.line = taken /\ Len(log) = taken - 1
             /\ \A i \in 1..Len(log) : Does(i, {"wait", "sync"}) => e.due >= Over(i)
        /\ Pending = {} => Len(log) = taken /\ taken = Len(script)

(* The inductive invariant of the test scripts.                            *)
ScriptInv ==
    /\ ScriptTypes /\ Lined /\ Logged /\ S!OnTime
    /\ \A e \in Pending : Awaits(e)
    /\ OneByOne

-----------------------------------------------------------------------------
(* Scripts: events in their queues.                                         *)

LEMMA EventFields ==
    ASSUME NEW e \in Events
    PROVE  /\ e.line \in Nat /\ e.rest \in Seq(S!Commands) /\ e.due \in Nat /\ e.nextUs \in Nat
           /\ e.stream \in BOOLEAN /\ e.left \in Nat
BY DEF Events

\* Where insert() finds the place.
LEMMA PlaceFound ==
    ASSUME NEW s \in Seq(Events), NEW e \in Events, Sorted(s)
    PROVE  \E n \in 0..Len(s) : /\ \A i \in 1..n : s[i].due <= e.due
                               /\ \A i \in n + 1..Len(s) : s[i].due > e.due
<1>1. /\ Len(s) \in Nat /\ \A i \in 1..Len(s) : s[i].due \in Nat
      /\ e.due \in Nat
  <2>1. Len(s) \in Nat /\ \A i \in 1..Len(s) : s[i] \in Events
    OBVIOUS
  <2> QED BY <2>1, EventFields
<1> DEFINE T == {n \in 0..Len(s) : \A i \in n + 1..Len(s) : s[i].due > e.due}
<1>2. T \in SUBSET Nat /\ Len(s) \in T
  BY <1>1
<1>3. PICK n \in T : \A m \in T : n <= m
  <2> HIDE DEF T
  <2> QED BY <1>2, Smallest
<1>4. n \in 0..Len(s) /\ \A i \in n + 1..Len(s) : s[i].due > e.due
  OBVIOUS
<1>5. n = 0 \/ s[n].due <= e.due
  <2> SUFFICES ASSUME n # 0, ~(s[n].due <= e.due) PROVE FALSE
    OBVIOUS
  <2>1. n \in 1..Len(s) /\ s[n].due > e.due /\ n - 1 \in 0..Len(s) /\ (n - 1) + 1 = n
    BY <1>1, <1>4
  <2>2. ASSUME NEW i \in n..Len(s) PROVE s[i].due > e.due
    <3>1. i = n \/ i \in n + 1..Len(s)
      BY <1>1, <1>4
    <3> QED BY <1>4, <2>1, <3>1
  <2>3. n - 1 \in T
    BY <2>1, <2>2
  <2> HIDE DEF T
  <2>4. n <= n - 1
    BY <1>3, <2>3
  <2> QED BY <1>4, <2>4
<1>6. ASSUME NEW i \in 1..n PROVE s[i].due <= e.due
  <2>1. n \in 1..Len(s) /\ i \in 1..Len(s) /\ i <= n
    BY <1>4
  <2>2. s[i].due <= s[n].due /\ s[i].due \in Nat /\ s[n].due \in Nat
    BY <1>1, <2>1 DEF Sorted
  <2> QED BY <1>1, <1>5, <2>1, <2>2
<1> HIDE DEF T
<1> QED BY <1>4, <1>6

LEMMA InsertPlace ==
    ASSUME NEW s \in Seq(Events), NEW e \in Events, Sorted(s)
    PROVE  /\ S!Insert(s, e) \in Seq(Events) /\ Len(S!Insert(s, e)) = Len(s) + 1
           /\ \E n \in 0..Len(s) :
                /\ \A i \in 1..n : s[i].due <= e.due
                /\ \A i \in n + 1..Len(s) : s[i].due > e.due
                /\ \A i \in 1..Len(s) + 1 :
                     S!Insert(s, e)[i] = IF i <= n THEN s[i] ELSE IF i = n + 1 THEN e ELSE s[i - 1]
<1> DEFINE n == CHOOSE k \in 0..Len(s) : /\ \A i \in 1..k : s[i].due <= e.due
                                         /\ \A i \in k + 1..Len(s) : s[i].due > e.due
           front == SubSeq(s, 1, n)
           back == SubSeq(s, n + 1, Len(s))
           joined == front \o <<e>>
<1>1. /\ n \in 0..Len(s) /\ Len(s) \in Nat
      /\ \A i \in 1..n : s[i].due <= e.due
      /\ \A i \in n + 1..Len(s) : s[i].due > e.due
  <2>1. \E k \in 0..Len(s) : /\ \A i \in 1..k : s[i].due <= e.due
                             /\ \A i \in k + 1..Len(s) : s[i].due > e.due
    BY PlaceFound
  <2>2. Len(s) \in Nat
    OBVIOUS
  <2> QED BY <2>1, <2>2, Zenon
<1>2. S!Insert(s, e) = joined \o back
  BY Zenon DEF S!Insert
<1> HIDE DEF n
<1>3. /\ front \in Seq(Events) /\ Len(front) = n /\ \A i \in 1..n : front[i] = s[i]
  BY <1>1
<1>4. /\ back \in Seq(Events) /\ Len(back) = Len(s) - n
      /\ \A i \in 1..Len(s) - n : back[i] = s[n + i]
  BY <1>1
<1> HIDE DEF front, back
<1>5. /\ joined \in Seq(Events) /\ Len(joined) = n + 1
      /\ \A i \in 1..n : joined[i] = s[i]
      /\ joined[n + 1] = e
  BY <1>1, <1>3
<1> HIDE DEF joined
<1>6. /\ joined \o back \in Seq(Events) /\ Len(joined \o back) = Len(s) + 1
      /\ \A i \in 1..n + 1 : (joined \o back)[i] = joined[i]
      /\ \A i \in n + 2..Len(s) + 1 : (joined \o back)[i] = back[i - (n + 1)]
  BY <1>1, <1>4, <1>5
<1>7. ASSUME NEW i \in 1..Len(s) + 1
      PROVE  (joined \o back)[i] = IF i <= n THEN s[i] ELSE IF i = n + 1 THEN e ELSE s[i - 1]
  <2>1. CASE i <= n
    <3>1. i \in 1..n /\ i \in 1..n + 1
      BY <1>1, <2>1
    <3> QED BY <1>5, <1>6, <2>1, <3>1
  <2>2. CASE i = n + 1
    <3>1. i \in 1..n + 1 /\ ~(i <= n)
      BY <1>1, <2>2
    <3> QED BY <1>5, <1>6, <2>2, <3>1
  <2>3. CASE ~(i <= n) /\ i # n + 1
    <3>1. i \in n + 2..Len(s) + 1 /\ i - (n + 1) \in 1..Len(s) - n /\ n + (i - (n + 1)) = i - 1
      BY <1>1, <2>3
    <3>2. (joined \o back)[i] = back[i - (n + 1)] /\ back[i - (n + 1)] = s[n + (i - (n + 1))]
      BY <1>4, <1>6, <3>1
    <3> QED BY <2>3, <3>1, <3>2
  <2> QED BY <2>1, <2>2, <2>3
<1> QED BY <1>1, <1>2, <1>6, <1>7

LEMMA InsertKeeps ==
    ASSUME NEW s \in Seq(Events), NEW e \in Events, Sorted(s), Apart(s),
           \A x \in Elements(s) : x.line # e.line
    PROVE  /\ S!Insert(s, e) \in Seq(Events) /\ Sorted(S!Insert(s, e)) /\ Apart(S!Insert(s, e))
           /\ Elements(S!Insert(s, e)) = Elements(s) \cup {e}
<1> DEFINE r == S!Insert(s, e)
           m == Len(s)
<1>1. m \in Nat /\ \A i \in 1..m : s[i] \in Events
  OBVIOUS
<1>2. /\ r \in Seq(Events) /\ Len(r) = m + 1
      /\ \E n \in 0..m :
           /\ \A i \in 1..n : s[i].due <= e.due
           /\ \A i \in n + 1..m : s[i].due > e.due
           /\ \A i \in 1..m + 1 :
                r[i] = IF i <= n THEN s[i] ELSE IF i = n + 1 THEN e ELSE s[i - 1]
  <2> HIDE <1>1
  <2> QED BY InsertPlace
<1> HIDE DEF r
<1>3. PICK n \in 0..m :
           /\ \A i \in 1..n : s[i].due <= e.due
           /\ \A i \in n + 1..m : s[i].due > e.due
           /\ \A i \in 1..m + 1 :
                r[i] = IF i <= n THEN s[i] ELSE IF i = n + 1 THEN e ELSE s[i - 1]
  BY <1>2
<1>4. e.due \in Nat /\ \A i \in 1..m : s[i] \in Elements(s) /\ s[i].due \in Nat /\ s[i].line # e.line
  BY <1>1, EventFields DEF Elements
\* Where the entry at i comes from.
<1> DEFINE from(i) == IF i <= n THEN i ELSE i - 1
<1>5. ASSUME NEW i \in 1..m + 1, i # n + 1
      PROVE  from(i) \in 1..m /\ r[i] = s[from(i)]
  BY <1>1, <1>2, <1>3, <1>5
<1>6. r[n + 1] = e /\ n + 1 \in 1..m + 1
  BY <1>1, <1>2, <1>3
<1>7. ASSUME NEW i \in 1..m + 1, NEW j \in 1..m + 1, i <= j
      PROVE  r[i].due <= r[j].due
  <2>1. CASE i = n + 1 /\ j = n + 1
    BY <1>4, <1>6, <2>1
  <2>2. CASE i = n + 1 /\ j # n + 1
    <3>1. from(j) \in n + 1..m
      BY <1>1, <1>2, <1>7, <2>2
    <3>2. s[from(j)].due > e.due /\ s[from(j)].due \in Nat
      BY <1>3, <1>4, <1>5, <2>2, <3>1
    <3> QED BY <1>4, <1>5, <1>6, <2>2, <3>2
  <2>3. CASE i # n + 1 /\ j = n + 1
    <3>1. from(i) \in 1..n
      BY <1>1, <1>2, <1>7, <2>3
    <3>2. s[from(i)].due <= e.due
      BY <1>3, <3>1
    <3> QED BY <1>5, <1>6, <2>3, <3>2
  <2>4. CASE i # n + 1 /\ j # n + 1
    <3>1. from(i) <= from(j) /\ from(i) \in 1..m /\ from(j) \in 1..m
      BY <1>1, <1>2, <1>7, <2>4
    <3>2. r[i] = s[from(i)] /\ r[j] = s[from(j)]
      BY <1>5, <2>4
    <3> HIDE DEF from
    <3> QED BY <3>1, <3>2 DEF Sorted
  <2> QED BY <2>1, <2>2, <2>3, <2>4
<1>8. ASSUME NEW i \in 1..m + 1, NEW j \in 1..m + 1, r[i].line = r[j].line
      PROVE  i = j
  <2>1. CASE i = n + 1 \/ j = n + 1
    <3> HIDE DEF from
    <3> QED BY <1>4, <1>5, <1>6, <1>8, <2>1
  <2>2. CASE i # n + 1 /\ j # n + 1
    <3>1. from(i) \in 1..m /\ from(j) \in 1..m /\ r[i] = s[from(i)] /\ r[j] = s[from(j)]
      BY <1>5, <2>2
    <3> HIDE DEF from
    <3>2. from(i) = from(j)
      BY <1>8, <3>1 DEF Apart
    <3> QED BY <1>1, <1>2, <2>2, <3>2 DEF from
  <2> QED BY <2>1, <2>2
<1>9. Elements(r) = Elements(s) \cup {e}
  <2>1. \A i \in 1..m + 1 : r[i] \in Elements(s) \cup {e}
    <3> HIDE DEF from
    <3> QED BY <1>4, <1>5, <1>6
  <2>2. ASSUME NEW i \in 1..m PROVE s[i] \in Elements(r)
    <3> DEFINE k == IF i <= n THEN i ELSE i + 1
    <3>1. k \in 1..m + 1 /\ k # n + 1 /\ from(k) = i
      BY <1>1, <1>2
    <3>2. r[k] = s[i]
      BY <1>5, <3>1
    <3> HIDE DEF k
    <3> QED BY <1>1, <1>2, <3>1, <3>2 DEF Elements
  <2>3. e \in Elements(r)
    BY <1>1, <1>2, <1>6 DEF Elements
  <2>4. Elements(r) = {r[i] : i \in 1..m + 1}
    BY <1>2 DEF Elements
  <2> QED BY <2>1, <2>2, <2>3, <2>4 DEF Elements
<1> QED BY <1>1, <1>2, <1>7, <1>8, <1>9 DEF Sorted, Apart, r

LEMMA TailKeeps ==
    ASSUME NEW s \in Seq(Events), s # <<>>, Apart(s)
    PROVE  /\ Tail(s) \in Seq(Events) /\ Apart(Tail(s)) /\ (Sorted(s) => Sorted(Tail(s)))
           /\ Head(s) \in Elements(s) /\ Head(s) \in Events
           /\ Elements(s) = Elements(Tail(s)) \cup {Head(s)}
           /\ \A x \in Elements(Tail(s)) : x.line # Head(s).line
<1> DEFINE r == Tail(s)
           n == Len(s)
<1>1. /\ Head(s) = s[1] /\ s[1] \in Events /\ n >= 1 /\ n \in Nat
      /\ r \in Seq(Events) /\ Len(r) = n - 1
      /\ \A i \in 1..n - 1 : r[i] = s[i + 1]
  BY TailFacts
<1> HIDE DEF r, n
<1>2. \A i \in 1..n - 1 : i + 1 \in 1..n /\ i + 1 # 1
  BY <1>1
<1>3. Apart(r)
  <2> SUFFICES ASSUME NEW i \in 1..n - 1, NEW j \in 1..n - 1, r[i].line = r[j].line
               PROVE  i = j
    BY <1>1 DEF Apart
  <2>1. i + 1 = j + 1
    BY <1>1, <1>2 DEF Apart, n
  <2> QED BY <1>1, <2>1
<1>4. Sorted(s) => Sorted(r)
  <2> SUFFICES ASSUME Sorted(s), NEW i \in 1..n - 1, NEW j \in 1..n - 1, i <= j
               PROVE  r[i].due <= r[j].due
    BY <1>1 DEF Sorted
  <2>1. i + 1 <= j + 1
    BY <1>1
  <2> QED BY <1>1, <1>2, <2>1 DEF Sorted, n
<1>5. 1 \in 1..n
  BY <1>1
<1>6. Elements(s) = Elements(r) \cup {s[1]}
  <2>1. ASSUME NEW i \in 1..n, i # 1
        PROVE  s[i] \in Elements(r)
    <3>1. i - 1 \in 1..n - 1 /\ (i - 1) + 1 = i
      BY <1>1, <2>1
    <3>2. r[i - 1] = s[i]
      BY <1>1, <3>1
    <3> QED BY <1>1, <3>1, <3>2 DEF Elements
  <2>2. \A i \in 1..n - 1 : r[i] \in Elements(s)
    BY <1>1, <1>2 DEF Elements, n
  <2>3. Elements(r) = {r[i] : i \in 1..n - 1} /\ Elements(s) = {s[i] : i \in 1..n}
    BY <1>1 DEF Elements, n
  <2> QED BY <1>5, <2>1, <2>2, <2>3
<1>7. ASSUME NEW x \in Elements(r) PROVE x.line # s[1].line
  <2>1. PICK i \in 1..n - 1 : x = s[i + 1]
    BY <1>1 DEF Elements
  <2> QED BY <1>2, <1>5, <2>1 DEF Apart, n
<1>8. s[1] \in Elements(s)
  BY <1>5 DEF Elements, n
<1> QED BY <1>1, <1>3, <1>4, <1>6, <1>7, <1>8 DEF r

\* The events of the earliest time are at the head of the queue.
LEMMA SplitFound ==
    ASSUME NEW s \in Seq(Events), s # <<>>, Sorted(s)
    PROVE  \E k \in 1..Len(s) : \A i \in 1..Len(s) : i <= k <=> s[i].due = Head(s).due
<1> DEFINE m == Len(s)
           due == Head(s).due
<1>1. m \in Nat /\ m >= 1 /\ Head(s) = s[1] /\ \A i \in 1..m : s[i] \in Events
  OBVIOUS
<1>2. due = s[1].due /\ \A i \in 1..m : s[i].due \in Nat
  BY <1>1, EventFields
<1>3. \A i, j \in 1..m : i <= j => s[i].due <= s[j].due
  BY DEF Sorted
<1>4. \E k \in 1..m : \A i \in 1..m : i <= k <=> s[i].due = due
  <2> HIDE DEF due, m
  <2>1. CASE \A i \in 1..m : s[i].due = due
    BY <1>1, <2>1
  <2>2. CASE ~\A i \in 1..m : s[i].due = due
    <3> DEFINE T == {i \in 1..m : s[i].due # due}
    <3>1. T \in SUBSET Nat /\ T # {}
      BY <2>2
    <3>2. PICK t \in T : \A i \in T : t <= i
      <4> HIDE DEF T
      <4> QED BY <3>1, Smallest
    <3>3. t \in 1..m /\ s[t].due # due /\ t # 1
      BY <1>2, <3>2
    <3>4. ASSUME NEW i \in 1..m PROVE i <= t - 1 <=> s[i].due = due
      <4>1. CASE i <= t - 1
        <5>1. ~(t <= i)
          BY <3>3, <4>1
        <5> QED BY <3>2, <4>1, <5>1
      <4>2. CASE ~(i <= t - 1)
        <5>1. t <= i /\ 1 <= t /\ 1 \in 1..m
          BY <1>1, <3>3, <4>2
        <5>2. s[1].due <= s[t].due /\ s[t].due <= s[i].due
          BY <1>3, <3>3, <5>1
        <5>3. s[1].due \in Nat /\ s[t].due \in Nat /\ s[i].due \in Nat
          BY <1>2, <3>3, <5>1
        <5> QED BY <1>2, <3>3, <4>2, <5>2, <5>3
      <4> QED BY <4>1, <4>2
    <3>5. t - 1 \in 1..m
      BY <1>1, <3>3
    <3> QED BY <3>4, <3>5
  <2> QED BY <2>1, <2>2
<1> QED BY <1>4

LEMMA SplitKeeps ==
    ASSUME NEW s \in Seq(Events), Sorted(s), Apart(s), NEW n \in 1..Len(s),
           \A i \in 1..Len(s) : i <= n <=> s[i].due = Head(s).due
    PROVE  /\ SubSeq(s, 1, n) \in Seq(Events) /\ SubSeq(s, n + 1, Len(s)) \in Seq(Events)
           /\ Sorted(SubSeq(s, n + 1, Len(s)))
           /\ Apart(SubSeq(s, 1, n)) /\ Apart(SubSeq(s, n + 1, Len(s)))
           /\ Separate(SubSeq(s, n + 1, Len(s)), SubSeq(s, 1, n))
           /\ Elements(s) = Elements(SubSeq(s, 1, n)) \cup Elements(SubSeq(s, n + 1, Len(s)))
           /\ \A e \in Elements(SubSeq(s, 1, n)) : e.due = Head(s).due
<1> DEFINE m == Len(s)
           due == Head(s).due
           front == SubSeq(s, 1, n)
           back == SubSeq(s, n + 1, Len(s))
<1>1. m \in Nat /\ \A i \in 1..m : s[i] \in Events
  OBVIOUS
<1>2. \A i, j \in 1..m : i <= j => s[i].due <= s[j].due
  BY DEF Sorted
<1>3. n \in 1..m /\ \A i \in 1..m : i <= n <=> s[i].due = due
  OBVIOUS
<1> HIDE DEF due
<1>4. /\ front \in Seq(Events) /\ Len(front) = n /\ \A i \in 1..n : front[i] = s[i]
      /\ back \in Seq(Events) /\ Len(back) = m - n /\ \A i \in 1..m - n : back[i] = s[n + i]
  BY <1>1, <1>3
<1> HIDE DEF front, back, m
<1>5. /\ \A i \in 1..n : i \in 1..m
      /\ \A i \in 1..m - n : n + i \in 1..m /\ ~(n + i <= n)
  BY <1>1, <1>3
<1>6. \A i, j \in 1..m : s[i].line = s[j].line => i = j
  BY DEF Apart, m
<1>7. Sorted(back)
  <2> SUFFICES ASSUME NEW i \in 1..m - n, NEW j \in 1..m - n, i <= j
               PROVE  back[i].due <= back[j].due
    BY <1>4 DEF Sorted
  <2>1. n + i <= n + j
    BY <1>3
  <2> QED BY <1>2, <1>4, <1>5, <2>1
<1>8. Apart(front)
  BY <1>4, <1>5, <1>6 DEF Apart
<1>9. Apart(back)
  <2> SUFFICES ASSUME NEW i \in 1..m - n, NEW j \in 1..m - n, back[i].line = back[j].line
               PROVE  i = j
    BY <1>4 DEF Apart
  <2>1. back[i] = s[n + i] /\ back[j] = s[n + j] /\ n + i \in 1..m /\ n + j \in 1..m
    BY <1>4, <1>5
  <2>2. n + i = n + j
    BY <1>6, <2>1
  <2> QED BY <1>3, <2>2
<1>10. Elements(front) = {s[i] : i \in 1..n} /\ Elements(back) = {s[n + i] : i \in 1..m - n}
  <2>1. Elements(front) = {front[i] : i \in 1..n} /\ Elements(back) = {back[i] : i \in 1..m - n}
    BY <1>4 DEF Elements
  <2>2. {front[i] : i \in 1..n} = {s[i] : i \in 1..n}
    <3>1. \A i \in 1..n : front[i] = s[i]
      BY <1>4
    <3> QED BY <3>1
  <2>3. {back[i] : i \in 1..m - n} = {s[n + i] : i \in 1..m - n}
    BY <1>4
  <2> QED BY <2>1, <2>2, <2>3
<1>11. Separate(back, front)
  <2> SUFFICES ASSUME NEW i \in 1..m - n, NEW j \in 1..n PROVE s[n + i].line # s[j].line
    BY <1>10 DEF Separate
  <2>1. n + i # j
    BY <1>3
  <2> QED BY <1>5, <1>6, <2>1
<1>12. Elements(s) = Elements(front) \cup Elements(back)
  <2>1. ASSUME NEW i \in 1..m PROVE s[i] \in Elements(front) \cup Elements(back)
    <3>1. CASE i \in 1..n
      BY <1>10, <3>1
    <3>2. CASE i \notin 1..n
      <4>1. i - n \in 1..m - n /\ n + (i - n) = i
        BY <1>1, <1>3, <3>2
      <4> QED BY <1>10, <4>1
    <3> QED BY <3>1, <3>2
  <2>2. Elements(s) = {s[i] : i \in 1..m}
    BY DEF Elements, m
  <2> QED BY <1>5, <1>10, <2>1, <2>2
<1>13. \A e \in Elements(front) : e.due = due
  <2> SUFFICES ASSUME NEW i \in 1..n PROVE s[i].due = due
    BY <1>10
  <2>1. i <= n
    BY <1>3
  <2> QED BY <1>3, <1>5, <2>1
<1> QED BY <1>4, <1>7, <1>8, <1>9, <1>11, <1>12, <1>13 DEF front, back, due

\* What a raise leaves, an event or none, put into a queue.
Inserted(s, es) == IF es = <<>> THEN s ELSE S!Insert(s, es[1])

LEMMA InsertedKeeps ==
    ASSUME NEW s \in Seq(Events), NEW es \in Seq(Events), Len(es) <= 1,
           Sorted(s), Apart(s), Separate(s, es)
    PROVE  /\ Inserted(s, es) \in Seq(Events)
           /\ Sorted(Inserted(s, es)) /\ Apart(Inserted(s, es))
           /\ Elements(Inserted(s, es)) = Elements(s) \cup Elements(es)
<1>1. CASE es = <<>>
  <2>1. Elements(es) = {}
    BY <1>1 DEF Elements
  <2> QED BY <1>1, <2>1 DEF Inserted
<1>2. CASE es # <<>>
  <2> DEFINE n == Len(es)
  <2>1. n \in Nat /\ n # 0 /\ n <= 1
    BY <1>2
  <2>2. Len(es) = 1
    <3> HIDE DEF n
    <3>1. n = 1
      BY <2>1
    <3> QED BY <3>1 DEF n
  <2>3. es[1] \in Events
    BY <2>2
  <2>4. Elements(es) = {es[1]}
    BY <2>2 DEF Elements
  <2>5. \A x \in Elements(s) : x.line # es[1].line
    BY <2>4 DEF Separate
  <2> QED BY <1>2, <2>3, <2>4, <2>5, InsertKeeps DEF Inserted
<1> QED BY <1>1, <1>2

LEMMA ElementsAreEvents ==
    ASSUME NEW s \in Seq(Events), NEW e \in Elements(s)
    PROVE  e \in Events
BY DEF Elements

-----------------------------------------------------------------------------
(* Scripts: what a raise does to the log.                                   *)

\* The raises of a line, and the bits, after one more raise.
LEMMA LogGrows ==
    ASSUME log \in Seq(Raised), NEW entry \in Raised, log' = Append(log, entry)
    PROVE  /\ log' \in Seq(Raised) /\ Len(log') = Len(log) + 1 /\ Len(log) \in Nat
           /\ \A i \in 1..Len(log) : log'[i] = log[i]
           /\ log'[Len(log) + 1] = entry
           /\ \A line : \A p \in 0..Len(log) :
                S!Raises(line, p)' = S!Raises(line, p) /\ S!Bits(line, p)' = S!Bits(line, p)
           /\ \A line : Raises(line)' = Raises(line)
                          \cup (IF entry.line = line THEN {Len(log) + 1} ELSE {})
           /\ \A line : S!Bits(line, Len(log))' = S!Bits(line, Len(log))
                          \cup (IF entry.line = line /\ entry.did = "bit" THEN {Len(log) + 1} ELSE {})
<1> DEFINE n == Len(log)
<1>1. /\ log' \in Seq(Raised) /\ Len(log') = n + 1 /\ n \in Nat
      /\ \A i \in 1..n : log'[i] = log[i]
      /\ log'[n + 1] = entry
  BY AppendFacts
<1> HIDE DEF n
<1>2. ASSUME NEW line, NEW p \in 0..n
      PROVE  S!Raises(line, p)' = S!Raises(line, p) /\ S!Bits(line, p)' = S!Bits(line, p)
  <2>1. \A q \in 1..p : log'[q] = log[q]
    BY <1>1
  <2>2. S!Raises(line, p)' = S!Raises(line, p)
    BY <2>1 DEF S!Raises
  <2> QED BY <2>1, <2>2 DEF S!Bits, S!Raises
<1>3. 1..n + 1 = 1..n \cup {n + 1}
  BY <1>1
<1>4. ASSUME NEW line
      PROVE  Raises(line)' = Raises(line) \cup (IF entry.line = line THEN {n + 1} ELSE {})
  BY <1>1, <1>3 DEF Raises, S!Raises, n
<1>5. ASSUME NEW line
      PROVE  S!Bits(line, Len(log))' = S!Bits(line, n)
               \cup (IF entry.line = line /\ entry.did = "bit" THEN {n + 1} ELSE {})
  <2>1. S!Bits(line, Len(log))' = {q \in 1..n + 1 : log'[q].line = line /\ log'[q].did = "bit"}
    BY <1>1 DEF S!Bits, S!Raises
  <2>2. S!Bits(line, n) = {q \in 1..n : log[q].line = line /\ log[q].did = "bit"}
    BY DEF S!Bits, S!Raises
  <2> QED BY <1>1, <1>3, <2>1, <2>2
<1> QED BY <1>1, <1>2, <1>4, <1>5 DEF n

\* Other lines wait on.
LEMMA OthersAwait ==
    ASSUME log \in Seq(Raised), NEW entry \in Raised, log' = Append(log, entry),
           UNCHANGED <<script, now>>, taken \in Nat, taken' \in {taken, taken + 1},
           NEW e \in Events, Awaits(e), e.line # entry.line
    PROVE  Awaits(e)'
<1> DEFINE n == Len(log)
<1>1. /\ Len(log') = n + 1 /\ n \in Nat
      /\ \A i \in 1..n : log'[i] = log[i]
      /\ log'[n + 1] = entry
      /\ \A line : \A p \in 0..n :
           S!Raises(line, p)' = S!Raises(line, p) /\ S!Bits(line, p)' = S!Bits(line, p)
      /\ \A line : Raises(line)' = Raises(line)
                     \cup (IF entry.line = line THEN {n + 1} ELSE {})
      /\ \A line : S!Bits(line, Len(log))' = S!Bits(line, n)
                     \cup (IF entry.line = line /\ entry.did = "bit" THEN {n + 1} ELSE {})
  BY LogGrows
<1> HIDE DEF n
<1>2. Raises(e.line)' = Raises(e.line) /\ S!Bits(e.line, Len(log))' = S!Bits(e.line, n)
  BY <1>1
<1>3. OfLine(e)'
  <2>1. \A i \in 1..taken : i \in 1..taken'
    OBVIOUS
  <2> QED BY <1>2, <2>1 DEF Awaits, OfLine, S!IsBits
<1>4. ASSUME NEW f \in 1..Len(log'), S!Raises(e.line, f)' = {f}
      PROVE  f \in 1..n /\ S!Raises(e.line, f) = {f} /\ log'[f] = log[f]
  <2>1. log'[f].line = e.line
    BY <1>4 DEF S!Raises
  <2>2. f # n + 1
    BY <1>1, <2>1
  <2>3. f \in 1..n /\ f \in 0..n
    BY <1>1, <2>2
  <2> QED BY <1>1, <1>4, <2>3
<1>5. ASSUME NEW f \in 1..Len(log'), Raises(e.line)' = {f}
      PROVE  f \in 1..n /\ Raises(e.line) = {f} /\ log'[f] = log[f]
  <2>1. f \in 1..n
    BY <1>2, <1>5 DEF Raises, S!Raises, n
  <2> QED BY <1>1, <1>2, <1>5, <2>1
<1>6. AtAwaits(e)'
  <2> SUFFICES ASSUME Does(e.line, {"at"})', NEW f \in 1..Len(log'), Raises(e.line)' = {f}
               PROVE  (/\ ~e.stream /\ e.due = S!AtTime(e.line)
                       /\ now <= S!Later(S!AtTime(e.line), log[f].time) + Step - 1)'
    BY DEF AtAwaits
  <2>1. Does(e.line, {"at"}) /\ S!AtTime(e.line)' = S!AtTime(e.line)
    BY DEF Does, S!Does, S!AtTime
  <2> QED BY <1>5, <2>1 DEF Awaits, AtAwaits, n, S!Later
<1>7. BitsAwait(e)'
  <2> SUFFICES ASSUME Does(e.line, {"bits"})', S!Promptly(e.line)'
               PROVE  (/\ e.stream /\ e.rest = script[e.line]
                       /\ e.nextUs <= e.due /\ (e.due = e.nextUs \/ e.due <= now)
                       /\ now <= e.nextUs + Step - 1
                       /\ Raises(e.line) = {} => e.due = e.nextUs
                       /\ \A f \in 1..Len(log) : S!Raises(e.line, f) = {f} =>
                            e.nextUs = log[f].due
                              + Cardinality(S!Bits(e.line, Len(log))) * S!AtTime(e.line))'
    BY DEF BitsAwait
  <2>1. /\ Does(e.line, {"bits"}) /\ S!Promptly(e.line) /\ S!AtTime(e.line)' = S!AtTime(e.line)
    BY DEF Does, S!Does, S!AtTime, S!Promptly
  <2>2. /\ e.stream /\ e.rest = script[e.line]
        /\ e.nextUs <= e.due /\ (e.due = e.nextUs \/ e.due <= now)
        /\ now <= e.nextUs + Step - 1
        /\ Raises(e.line) = {} => e.due = e.nextUs
        /\ \A f \in 1..n : S!Raises(e.line, f) = {f} =>
             e.nextUs = log[f].due + Cardinality(S!Bits(e.line, n)) * S!AtTime(e.line)
    BY <2>1 DEF Awaits, BitsAwait, n
  <2>3. ASSUME NEW f \in 1..Len(log'), S!Raises(e.line, f)' = {f}
        PROVE  e.nextUs = log'[f].due
                 + Cardinality(S!Bits(e.line, Len(log))') * S!AtTime(e.line)'
    BY <1>2, <1>4, <2>1, <2>2, <2>3
  <2> QED BY <1>2, <2>2, <2>3
<1> QED BY <1>3, <1>6, <1>7 DEF Awaits

LEMMA NewEventFields ==
    ASSUME NEW line \in Nat, NEW cmds \in Seq(S!Commands), now \in Nat, NEW wait \in Nat
    PROVE  /\ S!NewEvent(line, cmds, wait) \in Events
           /\ S!NewEvent(line, cmds, wait).line = line /\ S!NewEvent(line, cmds, wait).rest = cmds
           /\ S!NewEvent(line, cmds, wait).due = now + wait
           /\ S!NewEvent(line, cmds, wait).nextUs = now
           /\ (S!NewEvent(line, cmds, wait).stream <=> S!IsBits(cmds))
<1> DEFINE e == S!NewEvent(line, cmds, wait)
<1>1. /\ e = [line |-> line, rest |-> cmds, due |-> now + wait, nextUs |-> now,
              stream |-> S!IsBits(cmds), left |-> IF S!IsBits(cmds) THEN Head(cmds).bits ELSE 0]
      /\ now + wait \in Nat
  BY DEF S!NewEvent
<1>2. (IF S!IsBits(cmds) THEN Head(cmds).bits ELSE 0) \in Nat
  <2>1. ASSUME S!IsBits(cmds) PROVE Head(cmds).bits \in Nat
    <3>1. Head(cmds) \in S!Commands /\ Head(cmds).cmd = "bits"
      BY <2>1, TailFacts DEF S!IsBits
    <3> QED BY <3>1 DEF S!Commands
  <2> QED BY <2>1
<1>3. S!IsBits(cmds) \in BOOLEAN
  BY DEF S!IsBits
<1>4. e \in Events
  BY <1>1, <1>2, <1>3 DEF Events
<1> QED BY <1>1, <1>4

\* A line that is taken now has not been raised.
LEMMA FreshAwaits ==
    ASSUME script' = script, script \in Seq(Seq(S!Commands)),
           NEW line \in 1..Len(script), taken' = line,
           \A p \in 1..Len(log') : log'[p].line # line,
           now' = now, now \in Nat,
           NEW wait \in Nat, S!Promptly(line) => wait = 0,
           NEW e, e = S!NewEvent(line, script[line], wait)
    PROVE  e \in Events /\ Awaits(e)'
<1> DEFINE words == script[line]
<1>1. words \in Seq(S!Commands) /\ line \in Nat /\ e = S!NewEvent(line, words, wait)
  OBVIOUS
<1>2. words \in Seq(S!Commands) /\ line \in Nat
  OBVIOUS
<1> HIDE DEF words
<1>3. /\ e \in Events /\ e.line = line /\ e.rest = words /\ e.due = now + wait /\ e.nextUs = now
      /\ (e.stream <=> S!IsBits(words))
  <2>1. /\ e \in Events /\ e.line = line /\ e.rest = words
        /\ e.due = now + wait /\ e.nextUs = now
    <3>1. /\ S!NewEvent(line, words, wait) \in Events
          /\ S!NewEvent(line, words, wait).line = line
      BY <1>2, NewEventFields
    <3>2. /\ S!NewEvent(line, words, wait).rest = words
      BY <1>2, NewEventFields
    <3>3. /\ S!NewEvent(line, words, wait).due = now + wait
          /\ S!NewEvent(line, words, wait).nextUs = now
      BY <1>2, NewEventFields
    <3> QED BY <1>1, <3>1, <3>2, <3>3
  <2>2. e.stream <=> S!IsBits(words)
    <3>1. S!NewEvent(line, words, wait).stream <=> S!IsBits(words)
      BY <1>2, NewEventFields
    <3> QED BY <1>1, <3>1
  <2> QED BY <2>1, <2>2
<1>4. Raises(line)' = {} /\ \A f \in 1..Len(log') : S!Raises(line, f)' # {f}
  <2>1. Raises(line)' = {q \in 1..Len(log') : log'[q].line = line}
    BY DEF Raises, S!Raises
  <2>2. \A f \in 1..Len(log') : S!Raises(line, f)' = {q \in 1..f : log'[q].line = line}
    BY DEF S!Raises
  <2> QED BY <2>1, <2>2
<1>5. OfLine(e)'
  <2>1. line \in 1..taken'
    BY <1>1
  <2>2. script'[line] = words
    BY DEF words
  <2>3. Len(words) \in Nat /\ \A k \in 1..Len(words) : words[k] = script'[line][k]
    BY <1>1, <2>2
  <2> QED BY <1>3, <2>1, <2>2, <2>3 DEF OfLine, S!IsBits
<1>6. AtAwaits(e)'
  BY <1>3, <1>4 DEF AtAwaits
<1>7. BitsAwait(e)'
  <2> SUFFICES ASSUME Does(line, {"bits"})', S!Promptly(line)'
               PROVE  /\ e.stream /\ e.rest = script'[line]
                      /\ e.nextUs <= e.due /\ e.due = e.nextUs /\ now' <= e.nextUs + Step - 1
    BY <1>3, <1>4 DEF BitsAwait
  <2>1. S!IsBits(words)
    BY DEF Does, S!Does, S!IsBits, words
  <2>2. wait = 0
    BY DEF S!Promptly
  <2> QED BY <1>3, <2>1, <2>2, ScriptAssumption DEF words
<1> QED BY <1>3, <1>5, <1>6, <1>7 DEF Awaits

-----------------------------------------------------------------------------
(* Scripts: what every raise does, and what is left to each kind.           *)

LEMMA SizeIs == \A X : S!Cardinality(X) = Cardinality(X)
BY DEF S!Cardinality, Cardinality

\* The parts of OnTime.
AtOnTime(p) ==
    \A f \in 1..p : Does(log[p].line, {"at"}) /\ S!Raises(log[p].line, p - 1) = {f} =>
        LET t == S!Later(S!AtTime(log[p].line), log[f].time) IN log[p].time \in t..t + Step - 1
BitOnTime(p) ==
    \A f \in 1..p : log[p].did = "bit" /\ Does(log[p].line, {"bits"}) /\ S!Promptly(log[p].line)
                      /\ S!Raises(log[p].line, f) = {f} =>
        LET t == log[f].due + Cardinality(S!Bits(log[p].line, p - 1)) * S!AtTime(log[p].line)
        IN  log[p].time \in t..t + Step - 1

Entry(e, did) == [line |-> e.line, did |-> did, time |-> now, due |-> e.due]

(* Of a bitstream that is punctual: what is due follows its first bit.     *)
LEMMA NextBit ==
    ASSUME ScriptInv, NEW e \in Pending, NEW did \in Acts, log' = Append(log, Entry(e, did)),
           Does(e.line, {"bits"}), S!Promptly(e.line),
           NEW f \in 1..Len(log) + 1, S!Raises(e.line, f)' = {f}
    PROVE  e.nextUs = log'[f].due + Cardinality(S!Bits(e.line, Len(log))) * S!AtTime(e.line)
<1> DEFINE n == Len(log)
           entry == Entry(e, did)
           period == S!AtTime(e.line)
<1>1. /\ e \in Events /\ log \in Seq(Raised) /\ entry \in Raised
      /\ entry.line = e.line /\ entry.due = e.due
  <2>1. e \in Events /\ log \in Seq(Raised) /\ now \in Nat
    BY ElementsAreEvents DEF ScriptInv, ScriptTypes, Pending
  <2> QED BY <2>1, EventFields DEF Entry, Raised
<1>2. /\ n \in Nat /\ \A i \in 1..n : log'[i] = log[i]
      /\ log'[n + 1] = entry
      /\ \A p \in 0..n : S!Raises(e.line, p)' = S!Raises(e.line, p)
      /\ Raises(e.line)' = Raises(e.line) \cup {n + 1}
      /\ Len(log') = n + 1
  <2> HIDE DEF entry
  <2> QED BY <1>1, LogGrows DEF entry
<1>3. /\ e.nextUs \in Nat /\ e.due \in Nat
      /\ Raises(e.line) = {} => e.due = e.nextUs
      /\ \A g \in 1..n : S!Raises(e.line, g) = {g} =>
           e.nextUs = log[g].due + Cardinality(S!Bits(e.line, n)) * period
  BY <1>1, EventFields DEF ScriptInv, Awaits, BitsAwait
<1>4. CASE f \in 1..n
  <2>1. S!Raises(e.line, f) = {f} /\ log'[f] = log[f]
    BY <1>2, <1>4
  <2> QED BY <1>3, <1>4, <2>1
<1>5. CASE f = n + 1
  <2>1. Raises(e.line)' = {n + 1} /\ Raises(e.line) \subseteq 1..n
    BY <1>2, <1>5 DEF Raises, S!Raises, n
  <2>2. Raises(e.line) = {}
    BY <1>2, <2>1
  <2>3. S!Bits(e.line, n) = {}
    BY <2>2 DEF S!Bits, Raises, n
  <2>4. Cardinality(S!Bits(e.line, n)) = 0
    BY <2>3, FS_EmptySet
  <2>5. period \in Nat
    <3>1. e.line \in 1..Len(script) /\ script \in Seq(Seq(S!Commands))
      <4>1. e.line \in 1..taken /\ taken \in 1..Len(script) /\ script \in Seq(Seq(S!Commands))
        BY DEF ScriptInv, ScriptTypes, Awaits, OfLine
      <4> QED BY <4>1
    <3>2. script[e.line] \in Seq(S!Commands) /\ script[e.line] # <<>>
          /\ Head(script[e.line]).cmd = "bits"
      BY <3>1 DEF Does, S!Does
    <3>3. Head(script[e.line]) \in S!Commands
      BY <3>2, TailFacts
    <3> QED BY <3>2, <3>3 DEF S!Commands, S!AtTime
  <2> QED BY <1>1, <1>2, <1>3, <1>5, <2>2, <2>4, <2>5
<1> QED BY <1>2, <1>4, <1>5

(* A raise: the log is as it should be, and every other line waits on.     *)
LEMMA RaiseKeeps ==
    ASSUME ScriptInv, batch # <<>>, NEW e, e = Head(batch), NEW did \in Acts,
           NEW chain \in Seq(Events), Len(chain) <= 1,
           NEW again \in Seq(Events), Len(again) <= 1,
           S!Leave(e, did, chain, again),
           taken' \in {taken, taken + 1}, taken' <= Len(script),
           \A x \in Elements(again) : x.line = e.line,
           \A x \in Elements(chain) : \/ x.line = e.line /\ again = <<>>
                                      \/ x.line = taken + 1
    PROVE  /\ ScriptTypes' /\ Lined' /\ Logged' /\ S!OnTime'
           /\ Pending' = {x \in Pending : x.line # e.line}
                           \cup Elements(chain) \cup Elements(again)
           /\ e \in Pending /\ e \in Events /\ e.due <= now
           /\ e.line \in 1..taken
           /\ log' = Append(log, Entry(e, did)) /\ Entry(e, did) \in Raised
           /\ \A x \in Pending : x.line # e.line => Awaits(x)'
<1> DEFINE entry == Entry(e, did)
           first == Inserted(toInsert, chain)
<1>1. /\ toInsert' = Inserted(first, again) /\ batch' = Tail(batch)
      /\ log' = Append(log, entry)
      /\ script' = script /\ now' = now /\ queue' = queue
  BY DEF S!Leave, Inserted, Entry
<1>2. /\ script \in Seq(Seq(S!Commands)) /\ taken \in 1..Len(script) /\ now \in Nat
      /\ queue \in Seq(Events) /\ batch \in Seq(Events) /\ toInsert \in Seq(Events)
      /\ log \in Seq(Raised)
  BY DEF ScriptInv, ScriptTypes
<1>3. /\ Sorted(queue) /\ Sorted(toInsert) /\ Apart(queue) /\ Apart(batch) /\ Apart(toInsert)
      /\ Separate(queue, batch) /\ Separate(queue, toInsert) /\ Separate(batch, toInsert)
      /\ \A x \in Elements(batch) : x.due <= now
  BY DEF ScriptInv, Lined
<1>4. /\ Tail(batch) \in Seq(Events) /\ Apart(Tail(batch))
      /\ e \in Elements(batch) /\ e \in Events
      /\ Elements(batch) = Elements(Tail(batch)) \cup {e}
      /\ \A x \in Elements(Tail(batch)) : x.line # e.line
  BY <1>2, <1>3, TailKeeps
<1>5. e \in Pending /\ e.due <= now /\ Awaits(e) /\ e.line \in 1..taken
  <2>1. e \in Pending /\ e.due <= now
    BY <1>3, <1>4 DEF Pending
  <2> QED BY <2>1 DEF ScriptInv, Awaits, OfLine
<1>6. entry \in Raised /\ entry.line = e.line /\ entry.time = now /\ entry.due = e.due
  BY <1>2, <1>4, EventFields DEF Entry, Raised
<1> HIDE DEF entry
<1>7. \A x \in Pending : x.line \in 1..taken /\ x.line # taken + 1
  <2>1. \A x \in Pending : x.line \in 1..taken
    BY DEF ScriptInv, Awaits, OfLine
  <2> QED BY <1>2, <2>1
<1>8. /\ \A x \in Elements(again) : x.line = e.line
      /\ \A x \in Elements(chain) : (x.line = e.line /\ again = <<>>) \/ x.line = taken + 1
  OBVIOUS
<1>9. /\ \A x \in Elements(queue) : x.line # e.line
      /\ \A x \in Elements(toInsert) : x.line # e.line
  BY <1>3, <1>4 DEF Separate
<1>10. /\ Elements(queue) \subseteq Pending /\ Elements(toInsert) \subseteq Pending
       /\ Elements(batch) \subseteq Pending
  BY DEF Pending
<1>11. Separate(toInsert, chain)
  BY <1>7, <1>8, <1>9, <1>10 DEF Separate
<1>12. /\ first \in Seq(Events) /\ Sorted(first) /\ Apart(first)
       /\ Elements(first) = Elements(toInsert) \cup Elements(chain)
  BY <1>2, <1>3, <1>11, InsertedKeeps
<1> HIDE DEF first
<1>13. Separate(first, again)
  <2> SUFFICES ASSUME NEW x \in Elements(first), NEW y \in Elements(again) PROVE x.line # y.line
    BY DEF Separate
  <2>1. y.line = e.line /\ again # <<>>
    BY <1>8 DEF Elements
  <2>2. CASE x \in Elements(toInsert)
    BY <1>9, <2>1, <2>2
  <2>3. CASE x \in Elements(chain)
    <3>1. x.line = taken + 1 /\ e.line # taken + 1
      BY <1>5, <1>7, <1>8, <2>1, <2>3
    <3> QED BY <2>1, <3>1
  <2> QED BY <1>12, <2>2, <2>3
<1>14. /\ toInsert' \in Seq(Events) /\ Sorted(toInsert') /\ Apart(toInsert')
       /\ Elements(toInsert') = Elements(toInsert) \cup Elements(chain) \cup Elements(again)
  <2>1. /\ Inserted(first, again) \in Seq(Events)
        /\ Sorted(Inserted(first, again)) /\ Apart(Inserted(first, again))
        /\ Elements(Inserted(first, again)) = Elements(first) \cup Elements(again)
    BY <1>12, <1>13, InsertedKeeps
  <2> QED BY <1>1, <1>12, <2>1
<1>15. \A x \in Elements(chain) \cup Elements(again) : x.line = e.line \/ x.line = taken + 1
  BY <1>8
<1>16. Separate(queue, toInsert) /\ Separate(queue, batch) /\ Separate(batch, toInsert)
  BY <1>3
<1>17. ScriptTypes'
  <2>1. taken' \in 1..Len(script')
    BY <1>1, <1>2
  <2>2. log' \in Seq(Raised)
    BY <1>1, <1>2, <1>6, AppendFacts
  <2> QED BY <1>1, <1>2, <1>4, <1>14, <2>1, <2>2 DEF ScriptTypes
<1>18. Lined'
  <2>1. Separate(queue, toInsert)'
    <3> SUFFICES ASSUME NEW x \in Elements(queue), NEW y \in Elements(toInsert') PROVE x.line # y.line
      BY <1>1 DEF Separate
    <3>1. x.line # e.line /\ x.line # taken + 1
      BY <1>7, <1>9, <1>10
    <3> QED BY <1>14, <1>15, <1>16, <3>1 DEF Separate
  <2>2. Separate(batch, toInsert)'
    <3> SUFFICES ASSUME NEW x \in Elements(Tail(batch)), NEW y \in Elements(toInsert')
                 PROVE  x.line # y.line
      BY <1>1 DEF Separate
    <3>1. x \in Elements(batch) /\ x.line # e.line
      BY <1>4
    <3>2. x.line # taken + 1
      BY <1>7, <1>10, <3>1
    <3> QED BY <1>14, <1>15, <1>16, <3>1, <3>2 DEF Separate
  <2>3. Separate(queue, batch)'
    BY <1>1, <1>4, <1>16 DEF Separate
  <2>4. \A x \in Elements(batch') : x.due <= now'
    BY <1>1, <1>3, <1>4
  <2>5. Sorted(queue') /\ Apart(queue') /\ Apart(batch') /\ Sorted(toInsert') /\ Apart(toInsert')
    BY <1>1, <1>3, <1>4, <1>14
  <2> QED BY <2>1, <2>2, <2>3, <2>4, <2>5 DEF Lined
<1>19. Pending' = {x \in Pending : x.line # e.line} \cup Elements(chain) \cup Elements(again)
  <2>1. Pending' = Elements(queue) \cup Elements(Tail(batch)) \cup Elements(toInsert)
                     \cup Elements(chain) \cup Elements(again)
    BY <1>1, <1>14 DEF Pending
  <2>2. {x \in Pending : x.line # e.line}
          = Elements(queue) \cup Elements(Tail(batch)) \cup Elements(toInsert)
    BY <1>4, <1>9 DEF Pending
  <2> QED BY <2>1, <2>2
<1>20. PICK n \in Nat : n = Len(log)
  <2>1. Len(log) \in Nat
    BY <1>2
  <2> QED BY <2>1
<1>21. /\ Len(log') = n + 1 /\ n \in Nat
       /\ \A i \in 1..n : log'[i] = log[i]
       /\ log'[n + 1] = entry
       /\ \A line : \A p \in 0..n :
            S!Raises(line, p)' = S!Raises(line, p) /\ S!Bits(line, p)' = S!Bits(line, p)
  BY <1>20, <1>1, <1>2, <1>6, LogGrows
<1>22. \A p \in 1..n : log[p].line \in 1..taken /\ log[p].time <= now
  BY <1>20 DEF ScriptInv, Logged
<1>23. \A p \in 1..n + 1 : p \in 1..n \/ p = n + 1
  BY <1>21
<1>24. Logged'
  <2>1. \A p \in 1..n + 1 : log'[p].line \in 1..taken /\ log'[p].time <= now
    <3>1. now <= now
      BY <1>2
    <3> QED BY <1>5, <1>6, <1>21, <1>22, <1>23, <3>1
  <2>2. \A k \in 1..taken : k \in 1..taken'
    BY <1>2
  <2> QED BY <1>1, <1>21, <2>1, <2>2 DEF Logged
<1>25. ASSUME NEW x \in Pending, x.line # e.line PROVE Awaits(x)'
  <2>1. x \in Events /\ Awaits(x)
    BY <1>2, ElementsAreEvents DEF Pending, ScriptInv
  <2>2. taken \in Nat /\ x.line # entry.line
    BY <1>2, <1>6, <1>25
  <2> QED BY <1>1, <1>2, <1>6, <2>1, <2>2, OthersAwait
<1>26. S!OnTime'
  <2> SUFFICES ASSUME NEW p \in 1..n + 1
               PROVE  /\ log'[p].time >= log'[p].due
                      /\ AtOnTime(p)' /\ BitOnTime(p)'
    <3> DEFINE good(q) == log'[q].time >= log'[q].due /\ AtOnTime(q)' /\ BitOnTime(q)'
    <3>1. \A q \in 1..Len(log') : good(q)
      BY <1>21
    <3>2. DOMAIN log' = 1..Len(log')
      BY <1>1, <1>2, <1>6, AppendFacts
    <3> QED BY <3>1, <3>2, SizeIs DEF S!OnTime, AtOnTime, BitOnTime, Does
  <2>1. /\ \A line, cmds : Does(line, cmds)' = Does(line, cmds)
        /\ \A line : S!AtTime(line)' = S!AtTime(line)
        /\ \A line : S!Promptly(line)' = S!Promptly(line)
        /\ \A t, u : S!Later(t, u)' = S!Later(t, u)
    BY <1>1 DEF Does, S!Does, S!AtTime, S!Promptly, S!Later
  <2>2. CASE p \in 1..n
    <3>1. log[p].time >= log[p].due /\ AtOnTime(p) /\ BitOnTime(p)
      <4>1. DOMAIN log = 1..n
        BY <1>20, <1>2
      <4> QED BY <2>2, <4>1, SizeIs DEF ScriptInv, S!OnTime, AtOnTime, BitOnTime, Does
    <3>2. /\ log'[p] = log[p] /\ p - 1 \in 0..n
          /\ \A f \in 1..p : log'[f] = log[f] /\ f \in 0..n
      BY <1>21, <2>2
    <3>3. AtOnTime(p)'
      BY <1>21, <2>1, <3>1, <3>2 DEF AtOnTime
    <3>4. BitOnTime(p)'
      BY <1>21, <2>1, <3>1, <3>2 DEF BitOnTime
    <3> QED BY <3>1, <3>2, <3>3, <3>4
  <2>3. CASE p = n + 1
    <3>1. log'[p] = entry /\ p - 1 = n /\ n \in 0..n
      BY <1>21, <2>3
    <3>2. log'[p].time >= log'[p].due
      <4>1. e.due \in Nat
        BY <1>4, EventFields
      <4> QED BY <1>2, <1>5, <1>6, <3>1, <4>1
    <3>3. AtOnTime(p)'
      <4> SUFFICES ASSUME NEW f \in 1..p, Does(e.line, {"at"}), S!Raises(e.line, n)' = {f}
                   PROVE  LET t == S!Later(S!AtTime(e.line), log'[f].time)
                          IN  now \in t..t + Step - 1
        BY <1>6, <2>1, <3>1 DEF AtOnTime
      <4>1. Raises(e.line) = {f} /\ f \in 1..n
        <5>1. S!Raises(e.line, n) = {f}
          BY <1>21, <3>1
        <5> QED BY <1>20, <5>1 DEF Raises, S!Raises
      <4>2. e.due = S!AtTime(e.line) /\ now <= S!Later(S!AtTime(e.line), log[f].time) + Step - 1
        BY <1>20, <1>5, <4>1 DEF Awaits, AtAwaits
      <4>3. log'[f] = log[f] /\ log[f].time <= now /\ log[f].time \in Nat /\ e.due \in Nat
        <5>1. log[f] \in Raised
          BY <1>20, <1>2, <4>1
        <5>2. log[f].time \in Nat
          BY <5>1 DEF Raised
        <5> QED BY <1>4, <1>21, <1>22, <4>1, <5>2, EventFields
      <4> QED BY <1>2, <1>5, <4>2, <4>3, ScriptAssumption DEF S!Later
    <3>4. BitOnTime(p)'
      <4> SUFFICES ASSUME NEW f \in 1..p, Does(e.line, {"bits"}), S!Promptly(e.line),
                          S!Raises(e.line, f)' = {f}
                   PROVE  LET t == log'[f].due
                                     + Cardinality(S!Bits(e.line, n)') * S!AtTime(e.line)
                          IN  now \in t..t + Step - 1
        <5>1. S!Bits(e.line, p - 1)' = S!Bits(e.line, n)'
          BY <3>1
        <5> QED BY <1>6, <2>1, <3>1, <5>1 DEF BitOnTime
      <4>1. e.nextUs = log'[f].due + Cardinality(S!Bits(e.line, n)) * S!AtTime(e.line)
        <5>1. log' = Append(log, Entry(e, did))
          BY <1>1 DEF entry
        <5>2. f \in 1..Len(log) + 1
          BY <1>20, <2>3
        <5> QED BY <1>5, <1>20, <5>1, <5>2, NextBit
      <4>2. S!Bits(e.line, n)' = S!Bits(e.line, n)
        BY <1>21, <3>1
      <4>3. e.nextUs <= e.due /\ now <= e.nextUs + Step - 1
        BY <1>5 DEF Awaits, BitsAwait
      <4>4. e.nextUs \in Nat /\ e.due \in Nat
        BY <1>4, EventFields
      <4>5. now \in e.nextUs..e.nextUs + Step - 1
        BY <1>2, <1>5, <4>3, <4>4, ScriptAssumption
      <4> QED BY <4>1, <4>2, <4>5
    <3> QED BY <3>2, <3>3, <3>4
  <2> QED BY <1>21, <2>2, <2>3
<1> QED BY <1>1, <1>4, <1>5, <1>6, <1>17, <1>18, <1>19, <1>24, <1>25, <1>26 DEF entry

\* Where no line is repeated, one event is left: the whole of the last line taken.
LEMMA OnlyOne ==
    ASSUME ScriptInv, \A i \in 1..Len(script) : ~Does(i, {"at", "bits"}), NEW e \in Pending
    PROVE  /\ e.line = taken /\ Len(log) = taken - 1 /\ e.rest = script[taken]
           /\ taken \in 1..Len(script) /\ \A x \in Pending : x.line = e.line
           /\ \A p \in 1..Len(log) : log[p].line = p
           /\ script[taken] # <<>> => Head(script[taken]).cmd \notin {"at", "bits"}
<1>1. /\ \A p \in 1..Len(log) : log[p].line = p
      /\ \A x \in Pending : x.line = taken /\ Len(log) = taken - 1
  BY DEF ScriptInv, OneByOne
<1>2. taken \in 1..Len(script)
  BY DEF ScriptInv, ScriptTypes
<1>3. Raises(taken) = {}
  <2>1. \A p \in 1..Len(log) : log[p].line # taken
    BY <1>1, <1>2
  <2> QED BY <2>1 DEF Raises, S!Raises
<1>4. e.rest = script[taken]
  BY <1>1, <1>3 DEF ScriptInv, Awaits, OfLine
<1>5. script[taken] # <<>> => Head(script[taken]).cmd \notin {"at", "bits"}
  BY <1>2 DEF Does, S!Does
<1> QED BY <1>1, <1>2, <1>4, <1>5

\* The next line, taken after a raise, waits as it should.
LEMMA StepKeeps ==
    ASSUME ScriptInv, UNCHANGED <<script, now>>, NEW entry \in Raised, entry.line \in 1..taken,
           log' = Append(log, entry), taken' = S!Taken,
           NEW wait \in Nat, S!Promptly(taken + 1) => wait = 0,
           NEW x \in Elements(S!StepEvent(wait))
    PROVE  Awaits(x)' /\ taken' = taken + 1 /\ x.due = now + wait
<1>1. /\ script \in Seq(Seq(S!Commands)) /\ taken \in 1..Len(script) /\ now \in Nat
      /\ log \in Seq(Raised)
      /\ \A p \in 1..Len(log) : log[p].line \in 1..taken
  BY DEF ScriptInv, ScriptTypes, Logged
<1>2. taken < Len(script) /\ x = S!NewEvent(taken + 1, script[taken + 1], wait)
  BY DEF Elements, S!StepEvent
<1>3. taken' = taken + 1 /\ taken + 1 \in 1..Len(script)
  BY <1>1, <1>2 DEF S!Taken
<1>4. \A p \in 1..Len(log') : log'[p].line # taken + 1
  <2>1. /\ Len(log') = Len(log) + 1 /\ Len(log) \in Nat
        /\ \A i \in 1..Len(log) : log'[i] = log[i]
        /\ log'[Len(log) + 1] = entry
    BY <1>1, AppendFacts
  <2>2. \A k \in 1..taken : k # taken + 1
    BY <1>1
  <2>3. \A p \in 1..Len(log') : p \in 1..Len(log) \/ p = Len(log) + 1
    BY <2>1
  <2> QED BY <1>1, <2>1, <2>2, <2>3
<1>5. script[taken + 1] \in Seq(S!Commands) /\ taken + 1 \in Nat
  BY <1>1, <1>3
<1>6. x.due = now + wait
  <2> DEFINE line == taken + 1
             words == script[line]
  <2>1. line \in Nat /\ words \in Seq(S!Commands) /\ x = S!NewEvent(line, words, wait)
    BY <1>2, <1>5
  <2> HIDE DEF line, words
  <2> QED BY <1>1, <2>1, NewEventFields
<1>7. Awaits(x)'
  <2> DEFINE line == taken + 1
  <2>1. line \in 1..Len(script) /\ taken' = line /\ x = S!NewEvent(line, script[line], wait)
        /\ (S!Promptly(line) => wait = 0) /\ \A p \in 1..Len(log') : log'[p].line # line
    BY <1>2, <1>3, <1>4
  <2> HIDE DEF line
  <2> QED BY <1>1, <2>1, FreshAwaits
<1> QED BY <1>3, <1>6, <1>7

LEMMA StepFacts ==
    ASSUME ScriptInv, NEW wait \in Nat
    PROVE  /\ S!StepEvent(wait) \in Seq(Events) /\ Len(S!StepEvent(wait)) <= 1
           /\ S!Taken \in {taken, taken + 1} /\ S!Taken <= Len(script)
           /\ S!Taken = taken => taken = Len(script)
           /\ S!StepEvent(wait) = <<>> <=> S!Taken = taken
           /\ \A x \in Elements(S!StepEvent(wait)) : x.line = taken + 1
<1>1. /\ script \in Seq(Seq(S!Commands)) /\ taken \in 1..Len(script) /\ now \in Nat
      /\ Len(script) \in Nat
  BY DEF ScriptInv, ScriptTypes
<1>2. CASE taken < Len(script)
  <2> DEFINE line == taken + 1
             words == script[line]
             x == S!NewEvent(line, words, wait)
  <2>1. words \in Seq(S!Commands) /\ line \in Nat
    BY <1>1, <1>2
  <2>2. x = S!NewEvent(line, words, wait)
    OBVIOUS
  <2>3. S!StepEvent(wait) = <<x>> /\ S!Taken = taken + 1 /\ line = taken + 1
    BY <1>2 DEF S!StepEvent, S!Taken
  <2> HIDE DEF x, line, words
  <2>4. x \in Events /\ x.line = line
    <3>1. now \in Nat
      BY <1>1
    <3>2. S!NewEvent(line, words, wait) \in Events
      BY <2>1, <3>1, NewEventFields
    <3>3. S!NewEvent(line, words, wait).line = line
      BY <2>1, <3>1, NewEventFields
    <3> QED BY <2>2, <3>2, <3>3
  <2>5. Len(<<x>>) = 1 /\ <<x>>[1] = x /\ <<x>> \in Seq(Events) /\ <<x>> # <<>>
    BY <2>4
  <2>6. Elements(<<x>>) = {x}
    BY <2>5 DEF Elements
  <2>7. taken + 1 # taken /\ taken + 1 <= Len(script) /\ 1 <= 1
    BY <1>1, <1>2
  <2> QED BY <2>3, <2>4, <2>5, <2>6, <2>7
<1>3. CASE ~(taken < Len(script))
  <2>1. S!StepEvent(wait) = <<>> /\ S!Taken = taken /\ taken = Len(script)
    BY <1>1, <1>3 DEF S!StepEvent, S!Taken
  <2>2. Elements(<<>>) = {}
    BY DEF Elements
  <2>3. <<>> \in Seq(Events) /\ Len(<<>>) <= 1
    OBVIOUS
  <2> QED BY <1>1, <2>1, <2>2, <2>3
<1> QED BY <1>2, <1>3

LEMMA OverIs ==
    ASSUME ScriptInv, NEW i \in 1..Len(log), i \in 1..Len(script), Does(i, {"wait", "sync"})
    PROVE  S!AtTime(i) \in Nat /\ Over(i) \in Nat
<1>1. /\ script \in Seq(Seq(S!Commands)) /\ log \in Seq(Raised)
  BY DEF ScriptInv, ScriptTypes
<1>2. script[i] \in Seq(S!Commands) /\ script[i] # <<>>
      /\ Head(script[i]).cmd \in {"wait", "sync"}
  BY <1>1 DEF Does, S!Does
<1>3. Head(script[i]) \in S!Commands
  BY <1>2, TailFacts
<1>4. S!AtTime(i) \in Nat
  BY <1>2, <1>3 DEF S!Commands, S!AtTime
<1>5. log[i] \in Raised
  BY <1>1
<1>6. log[i].time \in Nat
  BY <1>5 DEF Raised
<1> QED BY <1>4, <1>6 DEF Over

\* What a raise makes of its own line, if that comes again.
LEMMA AgainAwaits ==
    ASSUME ScriptInv, NEW e \in Pending, NEW did \in Acts, log' = Append(log, Entry(e, did)),
           UNCHANGED <<script, now>>, taken' \in {taken, taken + 1},
           NEW x, x.line = e.line,
           \A k \in 1..Len(x.rest) : \E j \in 1..Len(script[e.line]) : x.rest[k] = script[e.line][j],
           x.stream => S!IsBits(x.rest),
           Does(e.line, {"at"}) /\ e.rest = script[e.line] => ~x.stream /\ x.due = S!AtTime(e.line),
           Does(e.line, {"bits"}) /\ S!Promptly(e.line) => BitsAwait(x)'
    PROVE  Awaits(x)'
<1>1. /\ script \in Seq(Seq(S!Commands)) /\ taken \in 1..Len(script) /\ now \in Nat
      /\ log \in Seq(Raised) /\ queue \in Seq(Events) /\ batch \in Seq(Events)
      /\ toInsert \in Seq(Events)
  BY DEF ScriptInv, ScriptTypes
<1>2. e \in Events /\ Awaits(e) /\ e.line \in 1..taken
  BY <1>1, ElementsAreEvents DEF Pending, ScriptInv, Awaits, OfLine
<1>3. PICK n \in Nat : n = Len(log)
  BY <1>1
<1>4. PICK entry : entry = Entry(e, did)
  OBVIOUS
<1>5. entry \in Raised /\ entry.line = e.line /\ entry.time = now
  BY <1>1, <1>2, <1>4, EventFields DEF Entry, Raised
<1>6. /\ Len(log') = n + 1 /\ log'[n + 1] = entry
      /\ Raises(e.line)' = Raises(e.line) \cup {n + 1}
  BY <1>1, <1>3, <1>4, <1>5, LogGrows
<1>7. OfLine(x)'
  <2>1. e.line \in 1..taken'
    BY <1>1, <1>2
  <2>2. Raises(x.line)' # {}
    BY <1>6
  <2> QED BY <2>1, <2>2 DEF OfLine, S!IsBits
<1>8. AtAwaits(x)'
  <2> SUFFICES ASSUME Does(e.line, {"at"})', NEW f \in 1..Len(log'), Raises(e.line)' = {f}
               PROVE  /\ ~x.stream /\ x.due = S!AtTime(e.line)'
                      /\ now' <= S!Later(S!AtTime(e.line), log[f].time)' + Step - 1
    BY DEF AtAwaits
  <2>1. Does(e.line, {"at"}) /\ S!AtTime(e.line)' = S!AtTime(e.line)
    BY DEF Does, S!Does, S!AtTime
  <2>2. f = n + 1 /\ Raises(e.line) = {}
    <3>1. f = n + 1 /\ Raises(e.line) \subseteq {n + 1}
      BY <1>6
    <3>2. Raises(e.line) \subseteq 1..n
      BY <1>3 DEF Raises, S!Raises
    <3> QED BY <3>1, <3>2
  <2>3. e.rest = script[e.line]
    BY <1>2, <2>2 DEF Awaits, OfLine
  <2>4. ~x.stream /\ x.due = S!AtTime(e.line)
    BY <2>1, <2>3
  <2>5. log'[f].time = now
    BY <1>5, <1>6, <2>2
  <2>6. S!AtTime(e.line) \in Nat
    <3>1. script[e.line] \in Seq(S!Commands) /\ script[e.line] # <<>>
          /\ Head(script[e.line]).cmd = "at"
      BY <1>1, <1>2, <2>1 DEF Does, S!Does
    <3>2. Head(script[e.line]) \in S!Commands
      BY <3>1, TailFacts
    <3> QED BY <3>1, <3>2 DEF S!Commands, S!AtTime
  <2>7. S!Later(S!AtTime(e.line), log[f].time)' = S!Later(S!AtTime(e.line), now)
    BY <2>1, <2>5 DEF S!Later
  <2>8. now <= S!Later(S!AtTime(e.line), now) + Step - 1
    BY <1>1, <2>6, ScriptAssumption DEF S!Later
  <2> QED BY <2>1, <2>4, <2>7, <2>8
<1>9. BitsAwait(x)'
  <2>1. CASE Does(e.line, {"bits"})' /\ S!Promptly(e.line)'
    BY <2>1 DEF Does, S!Does, S!Promptly
  <2>2. CASE ~(Does(e.line, {"bits"})' /\ S!Promptly(e.line)')
    BY <2>2 DEF BitsAwait
  <2> QED BY <2>1, <2>2
<1> QED BY <1>7, <1>8, <1>9 DEF Awaits

LEMMA RaiseScriptKeeps ==
    ASSUME ScriptInv, S!RaiseScript
    PROVE  ScriptInv'
<1>1. PICK e : e = Head(batch)
  OBVIOUS
<1>2. PICK c : c = IF e.rest = <<>> THEN [cmd |-> "none"] ELSE Head(e.rest)
  OBVIOUS
<1>3. PICK again : again = IF c.cmd = "at" /\ c.time # 0
                           THEN <<[e EXCEPT !.rest = Tail(@), !.due = c.time]>> ELSE <<>>
  OBVIOUS
<1>4. PICK wait : wait = S!NextStep(c)
  OBVIOUS
<1>5. /\ batch # <<>> /\ ~S!IsBits(e.rest)
      /\ S!Leave(e, c.cmd, S!StepEvent(wait), again) /\ taken' = S!Taken
  BY <1>1, <1>2, <1>3, <1>4 DEF S!RaiseScript
<1>6. /\ script \in Seq(Seq(S!Commands)) /\ taken \in 1..Len(script) /\ now \in Nat
      /\ batch \in Seq(Events) /\ log \in Seq(Raised)
  BY DEF ScriptInv, ScriptTypes
<1>7. /\ e \in Events /\ e \in Pending /\ Awaits(e)
      /\ e.line \in 1..taken /\ e.rest \in Seq(S!Commands)
      /\ e.due \in Nat /\ ~e.stream
  <2>1. e \in Events /\ e \in Pending
    BY <1>1, <1>5, <1>6, TailFacts, TailKeeps DEF ScriptInv, Lined, Pending
  <2>2. Awaits(e) /\ e.line \in 1..taken /\ ~e.stream
    BY <1>5, <2>1 DEF ScriptInv, Awaits, OfLine
  <2> QED BY <2>1, <2>2, EventFields
\* The command, if there is one, is of the line.
<1>8. /\ c.cmd \in Acts /\ c.cmd # "bits"
      /\ c.cmd \in {"at", "wait", "sync"} => c.time \in Nat /\ e.rest # <<>>
      /\ e.rest # <<>> => c = Head(e.rest)
  <2>1. CASE e.rest = <<>>
    <3>1. c = [cmd |-> "none"]
      BY <1>2, <2>1
    <3>2. c.cmd = "none"
      BY <3>1
    <3> QED BY <2>1, <3>2 DEF Acts
  <2>2. CASE e.rest # <<>>
    <3>1. c = Head(e.rest) /\ c \in S!Commands
      BY <1>2, <1>7, <2>2, TailFacts
    <3>2. c.cmd # "bits"
      BY <1>5, <2>2, <3>1 DEF S!IsBits
    <3>3. c.cmd \in Acts /\ (c.cmd \in {"at", "wait", "sync"} => c.time \in Nat)
      <4>1. CASE c \in [cmd : {"at", "wait", "sync"}, time : Nat]
        BY <4>1 DEF Acts
      <4>2. CASE c \in [cmd : {"bits"}, time : Nat, bits : Nat]
        BY <3>2, <4>2
      <4>3. CASE c \in [cmd : {"pin", "unknown"}]
        BY <4>3 DEF Acts
      <4> QED BY <3>1, <4>1, <4>2, <4>3 DEF S!Commands
    <3> QED BY <2>2, <3>1, <3>2, <3>3
  <2> QED BY <2>1, <2>2
<1>9. /\ wait \in Nat
      /\ c.cmd \notin {"wait", "sync"} => wait = 0
      /\ c.cmd = "wait" => wait = c.time
      /\ c.cmd = "sync" => c.time <= now + wait
  <2>1. CASE c.cmd = "wait"
    BY <1>4, <1>8, <2>1 DEF S!NextStep
  <2>2. CASE c.cmd = "sync" /\ c.time >= now
    BY <1>4, <1>6, <1>8, <2>2 DEF S!NextStep
  <2>3. CASE c.cmd # "wait" /\ ~(c.cmd = "sync" /\ c.time >= now)
    BY <1>4, <1>6, <1>8, <2>3 DEF S!NextStep
  <2> QED BY <2>1, <2>2, <2>3
<1>10. S!Promptly(taken + 1) => wait = 0
  <2>1. ASSUME S!Promptly(taken + 1), c.cmd \in {"wait", "sync"} PROVE FALSE
    <3>1. e.rest # <<>> /\ c = e.rest[1] /\ 1 \in 1..Len(e.rest)
      BY <1>7, <1>8, <2>1, TailFacts
    <3>2. PICK j \in 1..Len(script[e.line]) : c = script[e.line][j]
      BY <1>7, <3>1 DEF Awaits, OfLine
    <3>3. e.line \in 1..(taken + 1) - 1 /\ e.line \in 1..Len(script)
      BY <1>6, <1>7
    <3>4. j \in DOMAIN script[e.line]
      BY <1>6, <3>2, <3>3
    <3> QED BY <2>1, <3>2, <3>3, <3>4 DEF S!Promptly
  <2> QED BY <1>9, <2>1
<1>11. /\ again \in Seq(Events) /\ Len(again) <= 1
       /\ \A x \in Elements(again) : /\ c.cmd = "at" /\ e.rest # <<>>
                                     /\ x = [e EXCEPT !.rest = Tail(@), !.due = c.time]
       /\ \A x \in Elements(again) : x \in Events /\ x.line = e.line
  <2>1. CASE c.cmd = "at" /\ c.time # 0
    <3>1. PICK x : x = [e EXCEPT !.rest = Tail(@), !.due = c.time]
      OBVIOUS
    <3>2. again = <<x>> /\ e.rest # <<>>
      BY <1>3, <1>8, <2>1, <3>1
    <3>3. Tail(e.rest) \in Seq(S!Commands) /\ c.time \in Nat
      BY <1>7, <1>8, <2>1, <3>2, TailFacts
    <3>4. x \in Events /\ x.line = e.line
      BY <1>7, <3>1, <3>3 DEF Events
    <3>5. Len(<<x>>) = 1 /\ <<x>>[1] = x /\ <<x>> \in Seq(Events)
      BY <3>4
    <3>6. Elements(<<x>>) = {x}
      BY <3>5 DEF Elements
    <3>7. 1 <= 1
      OBVIOUS
    <3> QED BY <2>1, <3>1, <3>2, <3>4, <3>5, <3>6, <3>7
  <2>2. CASE ~(c.cmd = "at" /\ c.time # 0)
    <3>1. again = <<>>
      BY <1>3, <2>2
    <3>2. Elements(<<>>) = {} /\ <<>> \in Seq(Events) /\ Len(<<>>) <= 1
      BY DEF Elements
    <3> QED BY <3>1, <3>2
  <2> QED BY <2>1, <2>2
<1> DEFINE chain == S!StepEvent(wait)
<1>12. /\ chain \in Seq(Events) /\ Len(chain) <= 1
       /\ taken' \in {taken, taken + 1} /\ taken' <= Len(script)
       /\ \A x \in Elements(chain) : x.line = taken + 1
       /\ taken' = taken => taken = Len(script)
       /\ chain = <<>> <=> taken' = taken
  BY <1>5, <1>9, StepFacts
<1>13. UNCHANGED <<script, now>>
  BY <1>5 DEF S!Leave
<1>14. /\ ScriptTypes' /\ Lined' /\ Logged' /\ S!OnTime'
       /\ Pending' = {x \in Pending : x.line # e.line} \cup Elements(chain) \cup Elements(again)
       /\ e.due <= now
       /\ log' = Append(log, Entry(e, c.cmd)) /\ Entry(e, c.cmd) \in Raised
       /\ \A x \in Pending : x.line # e.line => Awaits(x)'
  <2> HIDE DEF chain
  <2>1. S!Leave(e, c.cmd, chain, again)
    BY <1>5 DEF chain
  <2> QED BY <1>1, <1>5, <1>8, <1>11, <1>12, <2>1, RaiseKeeps
<1>15. Entry(e, c.cmd).line = e.line /\ Entry(e, c.cmd).time = now
  BY DEF Entry
<1>16. \A x \in Elements(chain) : Awaits(x)' /\ taken' = taken + 1 /\ x.due = now + wait
  BY <1>5, <1>7, <1>9, <1>10, <1>13, <1>14, <1>15, StepKeeps
<1>17. ASSUME NEW x \in Elements(again) PROVE Awaits(x)'
  <2>1. /\ c.cmd = "at" /\ e.rest # <<>> /\ x.line = e.line
        /\ x.rest = Tail(e.rest) /\ x.due = c.time /\ ~x.stream /\ c = Head(e.rest)
    <3>1. /\ c.cmd = "at" /\ e.rest # <<>>
          /\ x = [e EXCEPT !.rest = Tail(@), !.due = c.time]
      BY <1>11
    <3> QED BY <1>7, <1>8, <3>1 DEF Events
  <2>2. ASSUME NEW k \in 1..Len(x.rest)
        PROVE  \E j \in 1..Len(script[e.line]) : x.rest[k] = script[e.line][j]
    <3>1. k + 1 \in 1..Len(e.rest) /\ x.rest[k] = e.rest[k + 1]
      BY <1>7, <2>1, TailFacts
    <3> QED BY <1>7, <3>1 DEF Awaits, OfLine
  <2>3. Does(e.line, {"bits"}) /\ S!Promptly(e.line) => FALSE
    BY <1>7 DEF Awaits, BitsAwait
  <2>4. Does(e.line, {"at"}) /\ e.rest = script[e.line] => x.due = S!AtTime(e.line)
    BY <2>1 DEF S!AtTime
  <2> QED BY <1>7, <1>8, <1>12, <1>13, <1>14, <2>1, <2>2, <2>3, <2>4, AgainAwaits
<1>18. OneByOne'
  <2> SUFFICES ASSUME \A i \in 1..Len(script) : ~Does(i, {"at", "bits"})
               PROVE  /\ \A p \in 1..Len(log') : log'[p].line = p
                      /\ \A q \in 1..Len(log') : \A i \in 1..q - 1 :
                           Does(i, {"wait", "sync"})' => log'[q].time >= Over(i)'
                      /\ \A x \in Pending' : x.line = taken' /\ Len(log') = taken' - 1
                           /\ \A i \in 1..Len(log') : Does(i, {"wait", "sync"})' => x.due >= Over(i)'
                      /\ Pending' = {} => Len(log') = taken' /\ taken' = Len(script')
    BY <1>13 DEF OneByOne, Does, S!Does
  <2>1. /\ e.line = taken /\ Len(log) = taken - 1 /\ e.rest = script[taken]
        /\ \A x \in Pending : x.line = e.line
        /\ \A p \in 1..Len(log) : log[p].line = p
        /\ script[taken] # <<>> => Head(script[taken]).cmd \notin {"at", "bits"}
    BY <1>7, OnlyOne
  <2>2. Elements(again) = {}
    <3>1. c.cmd # "at"
      BY <1>8, <2>1
    <3> QED BY <1>11, <3>1
  <2>3. Pending' = Elements(chain)
    BY <1>14, <2>1, <2>2
  <2>4. PICK n \in Nat : n = taken - 1 /\ n = Len(log)
    BY <1>6, <2>1
  <2>5. /\ Len(log') = taken /\ n + 1 = taken
        /\ \A i \in 1..n : log'[i] = log[i]
        /\ log'[taken].line = taken /\ log'[taken].time = now
    BY <1>6, <1>14, <1>15, <2>1, <2>4, LogGrows
  <2>6. \A i \in 1..taken : i \in 1..n \/ i = taken
    BY <2>5
  <2>7. \A i : /\ Does(i, {"wait", "sync"})' = Does(i, {"wait", "sync"})
               /\ Does(i, {"wait"})' = Does(i, {"wait"})
               /\ S!AtTime(i)' = S!AtTime(i)
    BY <1>13 DEF Does, S!Does, S!AtTime
  <2>8. \A i \in 1..n : Over(i)' = Over(i)
    BY <2>5, <2>7 DEF Over
  <2>9. ASSUME NEW i \in 1..n, Does(i, {"wait", "sync"})
        PROVE  Over(i) \in Nat /\ now >= Over(i) /\ now + wait >= Over(i)
    <3>1. e.due >= Over(i)
      BY <1>7, <2>4, <2>9 DEF ScriptInv, OneByOne
    <3>2. i \in 1..Len(log) /\ i \in 1..Len(script)
      BY <1>6, <2>4
    <3>3. Over(i) \in Nat
      BY <2>9, <3>2, OverIs
    <3> QED BY <1>6, <1>7, <1>9, <1>14, <3>1, <3>3
  <2>10. \A p \in 1..taken : log'[p].line = p
    BY <2>1, <2>4, <2>5, <2>6
  <2>11. ASSUME NEW q \in 1..taken, NEW i \in 1..q - 1, Does(i, {"wait", "sync"})
         PROVE  log'[q].time >= Over(i)
    <3>1. i \in 1..n
      BY <2>5
    <3>2. CASE q \in 1..n
      BY <2>4, <2>5, <2>11, <3>2 DEF ScriptInv, OneByOne
    <3>3. CASE q = taken
      BY <2>5, <2>9, <2>11, <3>1, <3>3
    <3> QED BY <2>6, <3>2, <3>3
  <2>12. ASSUME NEW x \in Elements(chain), NEW i \in 1..taken, Does(i, {"wait", "sync"})
         PROVE  x.due >= Over(i)'
    <3>1. x.due = now + wait
      BY <1>16
    <3>2. CASE i \in 1..n
      BY <2>8, <2>9, <2>12, <3>1, <3>2
    <3>3. CASE i = taken
      <4>1. /\ e.rest # <<>> /\ c.cmd \in {"wait", "sync"} /\ S!AtTime(i) = c.time
            /\ Does(i, {"wait"}) <=> c.cmd = "wait"
        BY <1>8, <2>1, <2>12, <3>3 DEF Does, S!Does, S!AtTime
      <4>2. c.time \in Nat
        BY <1>8, <4>1
      <4>3. Over(i)' = c.time + (IF c.cmd = "wait" THEN now ELSE 0)
        BY <2>5, <2>7, <3>3, <4>1 DEF Over
      <4>4. CASE c.cmd = "wait"
        BY <1>6, <1>9, <3>1, <4>2, <4>3, <4>4
      <4>5. CASE c.cmd = "sync"
        BY <1>6, <1>9, <3>1, <4>2, <4>3, <4>5
      <4> QED BY <4>1, <4>4, <4>5
    <3> QED BY <2>6, <3>2, <3>3
  <2>13. ASSUME NEW q \in 1..taken, NEW i \in 1..q - 1 PROVE i \in 1..n
    BY <2>5
  <2>14. ASSUME NEW x \in Elements(chain) PROVE x.line = taken' /\ taken = taken' - 1
    <3>1. x.line = taken + 1 /\ taken' = taken + 1
      BY <1>12, <1>16
    <3>2. taken \in Nat
      BY <1>6
    <3> QED BY <3>1, <3>2
  <2>15. Elements(chain) = {} => taken = taken' /\ taken = Len(script)
    <3>1. chain # <<>> => chain[1] \in Elements(chain)
      <4>1. chain # <<>> => 1 \in 1..Len(chain)
        BY <1>12, TailFacts
      <4> QED BY <4>1 DEF Elements
    <3> QED BY <1>12, <3>1
  <2> HIDE DEF chain
  <2> QED BY <1>13, <2>3, <2>5, <2>7, <2>8, <2>10, <2>11, <2>12, <2>13, <2>14, <2>15
<1>19. \A x \in Pending' : Awaits(x)'
  BY <1>14, <1>16, <1>17
<1> QED BY <1>14, <1>18, <1>19 DEF ScriptInv

(* A line that is raised again in a bitstream is raised twice.             *)
LEMMA NoBits ==
    ASSUME ScriptInv, NEW e \in Pending, S!IsBits(e.rest)
    PROVE  ~\A i \in 1..Len(script) : ~Does(i, {"at", "bits"})
BY OnlyOne DEF S!IsBits

LEMMA HeadRaised ==
    ASSUME ScriptInv, batch # <<>>, NEW e, e = Head(batch)
    PROVE  /\ e \in Events /\ e \in Pending /\ Awaits(e)
           /\ e.line \in 1..taken /\ e.rest \in Seq(S!Commands) /\ e.due <= now
           /\ e.due \in Nat /\ e.nextUs \in Nat /\ e.left \in Nat
           /\ script \in Seq(Seq(S!Commands)) /\ taken \in 1..Len(script) /\ now \in Nat
           /\ log \in Seq(Raised)
<1>1. /\ script \in Seq(Seq(S!Commands)) /\ taken \in 1..Len(script) /\ now \in Nat
      /\ batch \in Seq(Events) /\ log \in Seq(Raised)
  BY DEF ScriptInv, ScriptTypes
<1>2. e \in Events /\ e \in Pending /\ e.due <= now
  BY <1>1, TailFacts, TailKeeps DEF ScriptInv, Lined, Pending
<1>3. Awaits(e) /\ e.line \in 1..taken
  BY <1>2 DEF ScriptInv, Awaits, OfLine
<1> QED BY <1>1, <1>2, <1>3, EventFields

LEMMA RaiseAtBitsKeeps ==
    ASSUME ScriptInv, S!RaiseAtBits
    PROVE  ScriptInv'
<1>1. PICK e : e = Head(batch)
  OBVIOUS
<1>2. PICK x : x = S!NewEvent(e.line, e.rest, 0)
  OBVIOUS
<1>3. /\ batch # <<>> /\ S!IsBits(e.rest) /\ ~e.stream
      /\ S!Leave(e, "chain", <<x>>, <<>>) /\ taken' = taken
  BY <1>1, <1>2 DEF S!RaiseAtBits
<1>4. /\ e \in Pending /\ Awaits(e) /\ e.line \in 1..taken /\ e.rest \in Seq(S!Commands)
      /\ taken \in 1..Len(script) /\ now \in Nat
  BY <1>1, <1>3, HeadRaised
<1>5. x \in Events /\ x.line = e.line /\ x.rest = e.rest
  <2>1. PICK line \in Nat : line = e.line
    BY <1>4
  <2>2. PICK words \in Seq(S!Commands) : words = e.rest
    BY <1>4
  <2>3. PICK wait \in Nat : wait = 0
    OBVIOUS
  <2>4. x = S!NewEvent(line, words, wait)
    BY <1>2, <2>1, <2>2, <2>3
  <2>5. x \in Events /\ x.line = line /\ x.rest = words
    <3>1. now \in Nat
      BY <1>4
    <3>2. S!NewEvent(line, words, wait) \in Events
      BY <3>1, NewEventFields
    <3>3. S!NewEvent(line, words, wait).line = line
      BY <3>1, NewEventFields
    <3>4. S!NewEvent(line, words, wait).rest = words
      BY <3>1, NewEventFields
    <3> QED BY <2>4, <3>2, <3>3, <3>4
  <2> QED BY <2>1, <2>2, <2>5
<1>6. PICK chain : chain = <<x>>
  OBVIOUS
<1>7. PICK again : again = <<>>
  OBVIOUS
<1>8. /\ chain \in Seq(Events) /\ Len(chain) <= 1 /\ Elements(chain) = {x}
      /\ again \in Seq(Events) /\ Len(again) <= 1 /\ Elements(again) = {}
  <2>1. Len(chain) = 1 /\ chain[1] = x /\ chain \in Seq(Events) /\ 1 <= 1
    BY <1>5, <1>6
  <2>2. again \in Seq(Events) /\ Len(again) <= 1
    BY <1>7
  <2> QED BY <1>7, <2>1, <2>2 DEF Elements
<1>9. /\ ScriptTypes' /\ Lined' /\ Logged' /\ S!OnTime'
      /\ Pending' = {y \in Pending : y.line # e.line} \cup Elements(chain) \cup Elements(again)
      /\ log' = Append(log, Entry(e, "chain"))
      /\ \A y \in Pending : y.line # e.line => Awaits(y)'
  <2>1. S!Leave(e, "chain", chain, again) /\ "chain" \in Acts
    BY <1>3, <1>6, <1>7 DEF Acts
  <2>2. taken' \in {taken, taken + 1} /\ taken' <= Len(script)
    BY <1>3, <1>4
  <2>3. /\ \A y \in Elements(again) : y.line = e.line
        /\ \A y \in Elements(chain) : (y.line = e.line /\ again = <<>>) \/ y.line = taken + 1
    BY <1>5, <1>7, <1>8
  <2> QED BY <1>1, <1>3, <1>8, <2>1, <2>2, <2>3, RaiseKeeps
<1>10. UNCHANGED <<script, now>>
  BY <1>3 DEF S!Leave
<1>11. Awaits(x)'
  <2>1. ASSUME NEW k \in 1..Len(x.rest)
        PROVE  \E j \in 1..Len(script[e.line]) : x.rest[k] = script[e.line][j]
    BY <1>4, <1>5 DEF Awaits, OfLine
  <2>2. x.stream => S!IsBits(x.rest)
    BY <1>3, <1>5
  <2>3. ~(Does(e.line, {"at"}) /\ e.rest = script[e.line])
    BY <1>3 DEF Does, S!Does, S!IsBits
  <2>4. ~(Does(e.line, {"bits"}) /\ S!Promptly(e.line))
    BY <1>3, <1>4 DEF Awaits, BitsAwait
  <2>5. "chain" \in Acts
    BY DEF Acts
  <2> QED BY <1>3, <1>4, <1>5, <1>9, <1>10, <2>1, <2>2, <2>3, <2>4, <2>5, AgainAwaits
<1>12. \A y \in Pending' : Awaits(y)'
  BY <1>8, <1>9, <1>11
<1>13. OneByOne'
  BY <1>3, <1>4, <1>10, NoBits DEF OneByOne, Does, S!Does
<1> QED BY <1>9, <1>12, <1>13 DEF ScriptInv

LEMMA RaiseBitKeeps ==
    ASSUME ScriptInv, S!RaiseBit
    PROVE  ScriptInv'
<1>1. PICK e : e = Head(batch)
  OBVIOUS
<1>2. PICK next : next = e.nextUs + Head(e.rest).time
  OBVIOUS
<1>3. PICK due : due = IF next > now THEN next ELSE now
  OBVIOUS
<1>4. PICK x : x = [e EXCEPT !.left = @ - 1, !.nextUs = next, !.due = due]
  OBVIOUS
<1>5. PICK again : again = IF e.left = 0 \/ due = 0 THEN <<>> ELSE <<x>>
  OBVIOUS
<1>6. PICK did : did = IF e.left = 0 THEN "end" ELSE "bit"
  OBVIOUS
<1>7. PICK chain : chain = S!StepEvent(0)
  OBVIOUS
<1>8. /\ batch # <<>> /\ e.stream /\ S!Leave(e, did, chain, again) /\ taken' = S!Taken
  BY <1>1, <1>2, <1>3, <1>4, <1>5, <1>6, <1>7 DEF S!RaiseBit
<1>9. /\ e \in Events /\ e \in Pending /\ Awaits(e)
      /\ e.line \in 1..taken /\ e.rest \in Seq(S!Commands) /\ e.due <= now
      /\ e.due \in Nat /\ e.nextUs \in Nat /\ e.left \in Nat
      /\ script \in Seq(Seq(S!Commands)) /\ taken \in 1..Len(script) /\ now \in Nat
      /\ log \in Seq(Raised)
  BY <1>1, <1>8, HeadRaised
<1>10. /\ S!IsBits(e.rest) /\ Head(e.rest).time \in Nat
  <2>1. S!IsBits(e.rest)
    BY <1>8, <1>9 DEF Awaits, OfLine
  <2>2. Head(e.rest) \in S!Commands /\ Head(e.rest).cmd = "bits"
    BY <1>9, <2>1, TailFacts DEF S!IsBits
  <2> QED BY <2>1, <2>2 DEF S!Commands
<1>11. next \in Nat /\ due \in Nat /\ next <= due /\ (due = next \/ due <= now)
  <2>1. next \in Nat
    <3>1. PICK period \in Nat : period = Head(e.rest).time
      BY <1>10
    <3>2. PICK last \in Nat : last = e.nextUs
      BY <1>9
    <3>3. next = last + period
      BY <1>2, <3>1, <3>2
    <3> QED BY <3>3
  <2>2. CASE next > now
    BY <1>3, <2>1, <2>2
  <2>3. CASE ~(next > now)
    BY <1>3, <1>9, <2>1, <2>3
  <2> QED BY <2>1, <2>2, <2>3
<1>12. e.left # 0 => /\ x \in Events /\ x.line = e.line /\ x.rest = e.rest
                     /\ x.nextUs = next /\ x.due = due /\ x.stream
  <2>1. e.left # 0 => e.left - 1 \in Nat
    BY <1>9
  <2> QED BY <1>4, <1>8, <1>9, <1>11, <2>1 DEF Events
<1>13. did \in Acts /\ (e.left # 0 => did = "bit")
  BY <1>6 DEF Acts
<1>14. /\ again \in Seq(Events) /\ Len(again) <= 1
       /\ \A y \in Elements(again) : y = x /\ e.left # 0
  <2>1. CASE e.left = 0 \/ due = 0
    <3>1. again = <<>>
      BY <1>5, <2>1
    <3>2. Elements(<<>>) = {} /\ <<>> \in Seq(Events) /\ Len(<<>>) <= 1
      BY DEF Elements
    <3> QED BY <3>1, <3>2
  <2>2. CASE ~(e.left = 0 \/ due = 0)
    <3>1. again = <<x>> /\ x \in Events /\ e.left # 0
      BY <1>5, <1>12, <2>2
    <3>2. Len(<<x>>) = 1 /\ <<x>>[1] = x /\ <<x>> \in Seq(Events)
      BY <3>1
    <3>3. Elements(<<x>>) = {x}
      BY <3>2 DEF Elements
    <3>4. 1 <= 1
      OBVIOUS
    <3> QED BY <3>1, <3>2, <3>3, <3>4
  <2> QED BY <2>1, <2>2
<1>15. /\ chain \in Seq(Events) /\ Len(chain) <= 1
       /\ taken' \in {taken, taken + 1} /\ taken' <= Len(script)
       /\ \A y \in Elements(chain) : y.line = taken + 1
  <2>1. 0 \in Nat
    OBVIOUS
  <2> QED BY <1>7, <1>8, <2>1, StepFacts
<1>16. UNCHANGED <<script, now>>
  BY <1>8 DEF S!Leave
<1>17. /\ ScriptTypes' /\ Lined' /\ Logged' /\ S!OnTime'
       /\ Pending' = {y \in Pending : y.line # e.line} \cup Elements(chain) \cup Elements(again)
       /\ log' = Append(log, Entry(e, did)) /\ Entry(e, did) \in Raised
       /\ \A y \in Pending : y.line # e.line => Awaits(y)'
  <2>1. \A y \in Elements(again) : y.line = e.line
    BY <1>12, <1>14
  <2> QED BY <1>1, <1>8, <1>13, <1>14, <1>15, <2>1, RaiseKeeps
<1>18. Entry(e, did).line = e.line /\ Entry(e, did).did = did
  BY DEF Entry
<1>19. ASSUME NEW y \in Elements(chain) PROVE Awaits(y)'
  <2>1. 0 \in Nat /\ y \in Elements(S!StepEvent(0))
    BY <1>7
  <2> QED BY <1>8, <1>9, <1>16, <1>17, <1>18, <2>1, StepKeeps
<1>20. PICK n \in Nat : n = Len(log)
  BY <1>9
<1>21. ASSUME e.left # 0, Does(e.line, {"bits"}), S!Promptly(e.line)
       PROVE  BitsAwait(x)'
  <2>1. /\ e.rest = script[e.line] /\ now <= e.nextUs + Step - 1
    BY <1>9, <1>21 DEF Awaits, BitsAwait
  <2>2. PICK period \in Nat : period = S!AtTime(e.line) /\ next = e.nextUs + period
    BY <1>2, <1>10, <2>1 DEF S!AtTime
  <2>3. /\ Len(log') = n + 1 /\ log'[n + 1].due = e.due
        /\ Raises(e.line)' = Raises(e.line) \cup {n + 1}
        /\ S!Bits(e.line, Len(log))' = S!Bits(e.line, n) \cup {n + 1}
    <3>1. PICK entry \in Raised : entry = Entry(e, did)
      BY <1>17
    <3>2. log' = Append(log, entry) /\ entry.line = e.line /\ entry.did = "bit" /\ entry.due = e.due
      BY <1>13, <1>17, <1>21, <3>1 DEF Entry
    <3> QED BY <1>9, <1>20, <3>2, LogGrows
  <2>4. /\ Cardinality(S!Bits(e.line, n)) \in Nat
        /\ Cardinality(S!Bits(e.line, n) \cup {n + 1}) = Cardinality(S!Bits(e.line, n)) + 1
    <3>1. S!Bits(e.line, n) \subseteq 1..n
      BY DEF S!Bits, S!Raises
    <3>2. IsFiniteSet(S!Bits(e.line, n))
      BY <3>1, FS_Interval, FS_Subset
    <3>3. n + 1 \notin S!Bits(e.line, n)
      BY <3>1
    <3> QED BY <3>2, <3>3, FS_CardinalityType, FS_AddElement
  <2>5. ASSUME NEW f \in 1..n + 1, S!Raises(e.line, f)' = {f}
        PROVE  next = log'[f].due + Cardinality(S!Bits(e.line, Len(log))') * period
    <3>1. e.nextUs = log'[f].due + Cardinality(S!Bits(e.line, n)) * period
      BY <1>9, <1>13, <1>17, <1>20, <1>21, <2>2, <2>5, NextBit
    <3>2. PICK bits \in Nat : bits = Cardinality(S!Bits(e.line, n))
      BY <2>4
    <3>3. PICK from : from = log'[f].due
      OBVIOUS
    <3>4. from \in Nat
      <4>1. log' \in Seq(Raised) /\ f \in 1..Len(log')
        BY <1>17, <2>3 DEF ScriptTypes
      <4>2. log'[f] \in Raised
        BY <4>1
      <4> QED BY <3>3, <4>2 DEF Raised
    <3>5. (bits + 1) * period = bits * period + period
      BY <2>2, <3>2
    <3>6. bits * period \in Nat
      BY <2>2, <3>2
    <3>7. e.nextUs = from + bits * period
      BY <3>1, <3>2, <3>3
    <3>8. next = from + (bits * period + period)
      BY <2>2, <3>4, <3>6, <3>7
    <3> QED BY <2>3, <2>4, <3>2, <3>3, <3>5, <3>8
  <2>6. now <= next + Step - 1
    BY <1>9, <1>11, <2>1, <2>2, ScriptAssumption
  <2>7. S!AtTime(e.line)' = period
    BY <1>16, <2>2 DEF S!AtTime
  <2>8. Raises(e.line)' # {}
    BY <2>3
  <2> QED BY <1>11, <1>12, <1>16, <1>21, <2>1, <2>3, <2>5, <2>6, <2>7, <2>8 DEF BitsAwait
<1>22. ASSUME e.left # 0 PROVE Awaits(x)'
  <2>1. ASSUME NEW k \in 1..Len(x.rest)
        PROVE  \E j \in 1..Len(script[e.line]) : x.rest[k] = script[e.line][j]
    BY <1>9, <1>12, <1>22 DEF Awaits, OfLine
  <2>2. x.stream => S!IsBits(x.rest)
    BY <1>10, <1>12, <1>22
  <2>3. ~(Does(e.line, {"at"}) /\ e.rest = script[e.line])
    BY <1>10 DEF Does, S!Does, S!IsBits
  <2>4. Does(e.line, {"bits"}) /\ S!Promptly(e.line) => BitsAwait(x)'
    BY <1>21, <1>22
  <2> QED BY <1>9, <1>12, <1>13, <1>15, <1>16, <1>17, <1>22, <2>1, <2>2, <2>3, <2>4, AgainAwaits
<1>23. \A y \in Pending' : Awaits(y)'
  BY <1>14, <1>17, <1>19, <1>22
<1>24. OneByOne'
  BY <1>9, <1>10, <1>16, NoBits DEF OneByOne, Does, S!Does
<1> QED BY <1>17, <1>23, <1>24 DEF ScriptInv

-----------------------------------------------------------------------------
(* Scripts: the loop and the time.                                          *)

LEMMA OnTimeStays == S!OnTime /\ UNCHANGED <<script, log>> => S!OnTime'
BY DEF S!OnTime, S!Later, S!AtTime, S!Does, S!Raises, S!Bits, S!Promptly

LEMMA RestStays ==
    ASSUME ScriptInv, UNCHANGED <<script, taken, now, log>>, Pending' = Pending
    PROVE  Logged' /\ S!OnTime' /\ (\A e \in Pending' : Awaits(e)') /\ OneByOne'
<1>1. Logged'
  BY DEF ScriptInv, Logged
<1>2. S!OnTime'
  BY OnTimeStays DEF ScriptInv
<1>3. ASSUME NEW e \in Pending' PROVE Awaits(e)'
  <2>1. OfLine(e)' /\ AtAwaits(e)'
    BY DEF ScriptInv, Awaits, OfLine, AtAwaits, Does, S!Does, Raises, S!Raises, S!AtTime, S!Later,
           S!IsBits
  <2>2. BitsAwait(e)'
    BY DEF ScriptInv, Awaits, BitsAwait, Does, S!Does, Raises, S!Raises, S!AtTime, S!Promptly,
           S!Bits
  <2> QED BY <2>1, <2>2 DEF Awaits
<1>4. OneByOne'
  BY DEF ScriptInv, OneByOne, Over, Does, S!Does, S!AtTime
<1> QED BY <1>1, <1>2, <1>3, <1>4

LEMMA BatchKeeps ==
    ASSUME ScriptInv, S!BeginBatch
    PROVE  ScriptInv'
<1>1. /\ script \in Seq(Seq(S!Commands)) /\ taken \in 1..Len(script) /\ now \in Nat
      /\ queue \in Seq(Events) /\ log \in Seq(Raised) /\ toInsert \in Seq(Events)
      /\ Sorted(queue) /\ Apart(queue)
  BY DEF ScriptInv, ScriptTypes, Lined
<1>2. /\ batch = <<>> /\ toInsert = <<>> /\ queue # <<>> /\ Head(queue).due <= now
      /\ UNCHANGED <<script, taken, now, toInsert, log>>
  BY DEF S!BeginBatch
<1>3. PICK due : due = Head(queue).due
  OBVIOUS
<1>4. PICK n \in 1..Len(queue) :
             /\ \A i \in 1..Len(queue) : i <= n <=> queue[i].due = due
             /\ batch' = SubSeq(queue, 1, n) /\ queue' = SubSeq(queue, n + 1, Len(queue))
  <2> DEFINE k == CHOOSE k \in 1..Len(queue) :
                      \A i \in 1..Len(queue) : i <= k <=> queue[i].due = Head(queue).due
  <2>1. k \in 1..Len(queue) /\ \A i \in 1..Len(queue) : i <= k <=> queue[i].due = Head(queue).due
    BY <1>1, <1>2, SplitFound
  <2>2. batch' = SubSeq(queue, 1, k) /\ queue' = SubSeq(queue, k + 1, Len(queue))
    BY DEF S!BeginBatch
  <2> HIDE DEF k
  <2> QED BY <1>3, <2>1, <2>2
<1>5. /\ batch' \in Seq(Events) /\ queue' \in Seq(Events)
      /\ Sorted(queue') /\ Apart(batch') /\ Apart(queue') /\ Separate(queue', batch')
      /\ Elements(queue) = Elements(batch') \cup Elements(queue')
      /\ \A e \in Elements(batch') : e.due = due
  <2>1. PICK s : s = queue
    OBVIOUS
  <2>2. /\ s \in Seq(Events) /\ Sorted(s) /\ Apart(s) /\ n \in 1..Len(s)
        /\ \A i \in 1..Len(s) : i <= n <=> s[i].due = Head(s).due
    BY <1>1, <1>3, <1>4, <2>1
  <2>3. /\ SubSeq(s, 1, n) \in Seq(Events) /\ SubSeq(s, n + 1, Len(s)) \in Seq(Events)
        /\ Sorted(SubSeq(s, n + 1, Len(s)))
        /\ Apart(SubSeq(s, 1, n)) /\ Apart(SubSeq(s, n + 1, Len(s)))
        /\ Separate(SubSeq(s, n + 1, Len(s)), SubSeq(s, 1, n))
        /\ Elements(s) = Elements(SubSeq(s, 1, n)) \cup Elements(SubSeq(s, n + 1, Len(s)))
        /\ \A e \in Elements(SubSeq(s, 1, n)) : e.due = Head(s).due
    BY <2>2, SplitKeeps, Zenon
  <2>4. batch' = SubSeq(s, 1, n) /\ queue' = SubSeq(s, n + 1, Len(s)) /\ due = Head(s).due
    BY <1>3, <1>4, <2>1
  <2> QED BY <2>1, <2>3, <2>4, Zenon
<1>6. Elements(<<>>) = {}
  BY DEF Elements
<1>7. Pending' = Pending
  BY <1>2, <1>5, <1>6 DEF Pending
<1>8. Lined'
  <2>1. Separate(queue', <<>>) /\ Separate(batch', <<>>)
    BY <1>6 DEF Separate
  <2>2. Sorted(<<>>) /\ Apart(<<>>)
    BY DEF Sorted, Apart
  <2> QED BY <1>2, <1>3, <1>5, <2>1, <2>2 DEF Lined
<1>9. ScriptTypes'
  BY <1>1, <1>2, <1>5 DEF ScriptTypes
<1> QED BY <1>2, <1>7, <1>8, <1>9, RestStays DEF ScriptInv

LEMMA EndBatchKeeps ==
    ASSUME ScriptInv, S!EndBatch
    PROVE  ScriptInv'
<1>1. /\ script \in Seq(Seq(S!Commands)) /\ taken \in 1..Len(script) /\ now \in Nat
      /\ queue \in Seq(Events) /\ log \in Seq(Raised) /\ toInsert \in Seq(Events)
      /\ Sorted(queue) /\ Apart(queue) /\ Sorted(toInsert) /\ Apart(toInsert)
      /\ Separate(queue, toInsert)
  BY DEF ScriptInv, ScriptTypes, Lined
<1>2. PICK e : e = Head(toInsert)
  OBVIOUS
<1>3. /\ batch = <<>> /\ toInsert # <<>> /\ queue' = S!Insert(queue, e)
      /\ toInsert' = Tail(toInsert) /\ UNCHANGED <<script, taken, now, batch, log>>
  BY <1>2 DEF S!EndBatch
<1>4. /\ Tail(toInsert) \in Seq(Events) /\ Apart(Tail(toInsert)) /\ Sorted(Tail(toInsert))
      /\ e \in Elements(toInsert) /\ e \in Events
      /\ Elements(toInsert) = Elements(Tail(toInsert)) \cup {e}
      /\ \A x \in Elements(Tail(toInsert)) : x.line # e.line
  BY <1>1, <1>2, <1>3, TailKeeps
<1>5. /\ queue' \in Seq(Events) /\ Sorted(queue') /\ Apart(queue')
      /\ Elements(queue') = Elements(queue) \cup {e}
  <2>1. \A x \in Elements(queue) : x.line # e.line
    BY <1>1, <1>4 DEF Separate
  <2> QED BY <1>1, <1>3, <1>4, <2>1, InsertKeeps
<1>6. Elements(<<>>) = {}
  BY DEF Elements
<1>7. Pending' = Pending
  BY <1>3, <1>4, <1>5 DEF Pending
<1>8. Separate(queue', toInsert')
  BY <1>1, <1>3, <1>4, <1>5 DEF Separate
<1>9. Lined'
  <2>1. Separate(queue', <<>>) /\ Separate(<<>>, toInsert')
    BY <1>6 DEF Separate
  <2>2. Apart(<<>>)
    BY DEF Apart
  <2> QED BY <1>3, <1>4, <1>5, <1>6, <1>8, <2>1, <2>2 DEF Lined
<1>10. ScriptTypes'
  BY <1>1, <1>3, <1>4, <1>5 DEF ScriptTypes, ScriptInv
<1> QED BY <1>3, <1>7, <1>9, <1>10, RestStays DEF ScriptInv

LEMMA AdvanceKeeps ==
    ASSUME ScriptInv, S!Advance
    PROVE  ScriptInv'
<1>1. /\ batch = <<>> /\ toInsert = <<>>
      /\ queue # <<>> => Head(queue).due > now
      /\ UNCHANGED <<script, taken, queue, batch, toInsert, log>>
  BY DEF S!Advance
<1>2. PICK d \in 1..Step : now' = now + d
  BY DEF S!Advance
<1>3. /\ queue \in Seq(Events) /\ Sorted(queue) /\ now \in Nat /\ log \in Seq(Raised)
  BY DEF ScriptInv, ScriptTypes, Lined
<1>4. now' \in Nat /\ now <= now' /\ Step \in Nat /\ d \in Nat /\ d <= Step
  BY <1>2, <1>3, ScriptAssumption
<1>5. Pending = Elements(queue) /\ Pending' = Pending
  <2>1. Elements(<<>>) = {}
    BY DEF Elements
  <2> QED BY <1>1, <2>1 DEF Pending
<1>6. ASSUME NEW e \in Pending PROVE e.due > now /\ e \in Events /\ Awaits(e) /\ now' <= e.due + Step - 1
  <2>1. PICK i \in 1..Len(queue) : e = queue[i]
    BY <1>5 DEF Elements
  <2>2. queue # <<>> /\ Head(queue) = queue[1] /\ 1 \in 1..Len(queue) /\ 1 <= i
    <3>1. queue # <<>>
      <4>1. Len(<<>>) = 0
        OBVIOUS
      <4> QED BY <2>1, <4>1
    <3> QED BY <1>3, <2>1, <3>1, TailFacts
  <2>3. queue[1].due <= queue[i].due
    BY <1>3, <2>1, <2>2 DEF Sorted
  <2>4. e \in Events /\ queue[1] \in Events
    BY <1>3, <2>1, <2>2
  <2>5. e.due \in Nat /\ queue[1].due \in Nat
    BY <2>4, EventFields
  <2>6. e.due > now
    BY <1>1, <1>3, <2>1, <2>2, <2>3, <2>5
  <2>7. Awaits(e)
    BY DEF ScriptInv
  <2> QED BY <1>2, <1>3, <1>4, <2>4, <2>5, <2>6, <2>7
<1>7. ScriptTypes' /\ Lined'
  BY <1>1, <1>4 DEF ScriptInv, ScriptTypes, Lined, Elements
<1>8. Logged'
  <2>1. ASSUME NEW p \in 1..Len(log) PROVE log[p].line \in 1..taken /\ log[p].time <= now'
    <3>1. log[p] \in Raised
      BY <1>3
    <3>2. log[p].time \in Nat
      BY <3>1 DEF Raised
    <3>3. log[p].line \in 1..taken /\ log[p].time <= now
      BY DEF ScriptInv, Logged
    <3> QED BY <1>3, <1>4, <3>2, <3>3
  <2> QED BY <1>1, <2>1 DEF Logged
<1>9. S!OnTime'
  BY <1>1, OnTimeStays DEF ScriptInv
<1>10. OneByOne'
  BY <1>1, <1>5 DEF ScriptInv, OneByOne, Over, Does, S!Does, S!AtTime
<1>11. ASSUME NEW e \in Pending' PROVE Awaits(e)'
  <2>1. e.due > now /\ Awaits(e) /\ now' <= e.due + Step - 1 /\ e \in Events
    BY <1>5, <1>6
  <2>2. e.due \in Nat /\ e.nextUs \in Nat
    BY <2>1, EventFields
  <2>3. OfLine(e)'
    BY <1>1, <2>1 DEF Awaits, OfLine, Raises, S!Raises, S!IsBits
  <2>4. AtAwaits(e)'
    <3> SUFFICES ASSUME Does(e.line, {"at"}), NEW f \in 1..Len(log), Raises(e.line) = {f}
                 PROVE  /\ ~e.stream /\ e.due = S!AtTime(e.line)
                        /\ now' <= S!Later(S!AtTime(e.line), log[f].time) + Step - 1
      BY <1>1 DEF AtAwaits, Does, S!Does, Raises, S!Raises, S!AtTime, S!Later
    <3>1. ~e.stream /\ e.due = S!AtTime(e.line)
      BY <2>1 DEF Awaits, AtAwaits
    <3>2. log[f] \in Raised
      BY <1>3
    <3>3. log[f].time \in Nat
      BY <3>2 DEF Raised
    <3>4. PICK t \in Nat : t = S!Later(S!AtTime(e.line), log[f].time) /\ e.due <= t
      BY <2>2, <3>1, <3>3 DEF S!Later
    <3> QED BY <1>4, <2>1, <2>2, <3>1, <3>4
  <2>5. BitsAwait(e)'
    <3> SUFFICES ASSUME Does(e.line, {"bits"}), S!Promptly(e.line)
                 PROVE  /\ e.stream /\ e.rest = script[e.line]
                        /\ e.nextUs <= e.due /\ (e.due = e.nextUs \/ e.due <= now')
                        /\ now' <= e.nextUs + Step - 1
                        /\ Raises(e.line) = {} => e.due = e.nextUs
                        /\ \A f \in 1..Len(log) : S!Raises(e.line, f) = {f} =>
                             e.nextUs = log[f].due
                               + Cardinality(S!Bits(e.line, Len(log))) * S!AtTime(e.line)
      BY <1>1 DEF BitsAwait, Does, S!Does, Raises, S!Raises, S!AtTime, S!Promptly, S!Bits
    <3>1. /\ e.stream /\ e.rest = script[e.line]
          /\ e.nextUs <= e.due /\ (e.due = e.nextUs \/ e.due <= now)
          /\ Raises(e.line) = {} => e.due = e.nextUs
          /\ \A f \in 1..Len(log) : S!Raises(e.line, f) = {f} =>
               e.nextUs = log[f].due
                 + Cardinality(S!Bits(e.line, Len(log))) * S!AtTime(e.line)
      BY <2>1 DEF Awaits, BitsAwait
    <3>2. e.due = e.nextUs
      BY <1>3, <2>1, <2>2, <3>1
    <3> QED BY <2>1, <3>1, <3>2
  <2> QED BY <2>3, <2>4, <2>5 DEF Awaits
<1> QED BY <1>7, <1>8, <1>9, <1>10, <1>11 DEF ScriptInv

LEMMA ScriptPart == [TextNext]_textVars => [S!Next]_(S!vars)
BY Zenon DEF TextNext, StringStep, NumberStep, AddressStep, SerialStep, StreamStep, ScriptStep,
             textVars, scriptVars, S!vars

LEMMA ScriptKeeps == ScriptInv /\ [S!Next]_(S!vars) => ScriptInv'
<1>1. ASSUME ScriptInv, UNCHANGED S!vars PROVE ScriptInv'
  <2>1. Pending' = Pending
    BY <1>1 DEF S!vars, Pending, Elements
  <2>2. UNCHANGED <<script, taken, now, queue, batch, toInsert, log>>
    BY <1>1 DEF S!vars
  <2>3. ScriptTypes'
    BY <1>1, <2>2 DEF ScriptInv, ScriptTypes
  <2>4. Lined'
    BY <1>1, <2>2 DEF ScriptInv, Lined
  <2> QED BY <1>1, <2>1, <2>2, <2>3, <2>4, RestStays DEF ScriptInv
<1> QED BY <1>1, BatchKeeps, EndBatchKeeps, RaiseScriptKeeps, RaiseAtBitsKeeps, RaiseBitKeeps,
           AdvanceKeeps DEF S!Next

LEMMA ScriptBegins == TextInit => ScriptInv
<1> SUFFICES ASSUME TextInit PROVE ScriptInv
  OBVIOUS
<1>1. /\ script \in Scripts /\ now = 0 /\ taken = 1
      /\ queue = <<S!NewEvent(1, script[1], 0)>>
      /\ batch = <<>> /\ toInsert = <<>> /\ log = <<>>
  BY DEF TextInit, S!Init
<1>2. /\ script \in Seq(Seq(S!Commands)) /\ 1 \in 1..Len(script)
      /\ script[1] \in Seq(S!Commands)
  <2>1. script \in Seq(Seq(S!Commands)) /\ script # <<>>
    BY <1>1, ScriptAssumption
  <2>2. Len(script) >= 1 /\ Len(script) \in Nat
    BY <2>1, TailFacts
  <2> QED BY <2>1, <2>2
<1>3. PICK e : e = S!NewEvent(1, script[1], 0)
  OBVIOUS
<1>4. PICK words \in Seq(S!Commands) : words = script[1]
  BY <1>2
<1>5. /\ e \in Events /\ e.line = 1 /\ e.rest = words /\ e.due = 0 /\ e.nextUs = 0
      /\ (e.stream <=> S!IsBits(words))
  <2>1. PICK line \in Nat : line = 1
    OBVIOUS
  <2>2. PICK wait \in Nat : wait = 0
    OBVIOUS
  <2>3. now \in Nat /\ now + wait = 0 /\ e = S!NewEvent(line, words, wait)
    BY <1>1, <1>3, <1>4, <2>1, <2>2
  <2>4. S!NewEvent(line, words, wait) \in Events /\ S!NewEvent(line, words, wait).line = line
    BY <2>3, NewEventFields
  <2>5. S!NewEvent(line, words, wait).rest = words /\ S!NewEvent(line, words, wait).nextUs = now
    BY <2>3, NewEventFields
  <2>6. S!NewEvent(line, words, wait).due = now + wait
    BY <2>3, NewEventFields
  <2>7. S!NewEvent(line, words, wait).stream <=> S!IsBits(words)
    BY <2>3, NewEventFields
  <2>8. e.stream <=> S!IsBits(words)
    BY <2>3, <2>7
  <2> QED BY <1>1, <2>1, <2>3, <2>4, <2>5, <2>6, <2>8
<1>6. queue \in Seq(Events) /\ Len(queue) = 1 /\ queue[1] = e
  BY <1>1, <1>3, <1>5
<1>7. Elements(queue) = {e} /\ Elements(<<>>) = {}
  BY <1>6 DEF Elements
<1>8. Pending = {e}
  BY <1>1, <1>7 DEF Pending
<1>9. ScriptTypes
  BY <1>1, <1>2, <1>6 DEF ScriptTypes
<1>10. Lined
  <2>1. Sorted(queue) /\ Apart(queue)
    BY <1>5, <1>6 DEF Sorted, Apart
  <2>2. Sorted(<<>>) /\ Apart(<<>>)
    BY DEF Sorted, Apart
  <2> QED BY <1>1, <1>7, <2>1, <2>2 DEF Lined, Separate
<1>11. Len(log) = 0 /\ DOMAIN log = {}
  BY <1>1
<1>12. Logged /\ S!OnTime /\ Raises(1) = {}
  BY <1>11 DEF Logged, S!OnTime, Raises, S!Raises
<1>13. Awaits(e)
  <2>1. OfLine(e)
    <3>1. Len(words) \in Nat /\ 1 \in 1..taken
      BY <1>1
    <3> QED BY <1>4, <1>5, <3>1 DEF OfLine
  <2>2. AtAwaits(e)
    BY <1>11 DEF AtAwaits
  <2>3. BitsAwait(e)
    <3>1. Does(1, {"bits"}) => e.stream
      BY <1>4, <1>5 DEF Does, S!Does, S!IsBits
    <3>2. now <= 0 + Step - 1 /\ 0 <= 0
      BY <1>1, ScriptAssumption
    <3> QED BY <1>4, <1>5, <1>11, <3>1, <3>2 DEF BitsAwait
  <2> QED BY <2>1, <2>2, <2>3 DEF Awaits
<1>14. OneByOne
  <2>1. 0 = 1 - 1
    OBVIOUS
  <2> QED BY <1>1, <1>5, <1>8, <1>11, <2>1 DEF OneByOne
<1> QED BY <1>8, <1>9, <1>10, <1>12, <1>13, <1>14 DEF ScriptInv

LEMMA WaitsAreHeld == ScriptInv => S!ScriptInOrder
<1> SUFFICES ASSUME ScriptInv, \A i \in DOMAIN script : ~S!Does(i, {"at", "bits"})
             PROVE  S!WaitsHold
  BY DEF ScriptInv, S!ScriptInOrder, S!WaitsHoldInSequence
<1>1. DOMAIN script = 1..Len(script) /\ DOMAIN log = 1..Len(log) /\ Len(log) \in Nat
  BY DEF ScriptInv, ScriptTypes
<1>2. /\ \A p \in 1..Len(log) : log[p].line = p
      /\ \A q \in 1..Len(log) : \A i \in 1..q - 1 : Does(i, {"wait", "sync"}) => log[q].time >= Over(i)
  BY <1>1 DEF ScriptInv, OneByOne, Does
<1> SUFFICES ASSUME NEW q \in 1..Len(log), NEW i \in 1..log[q].line - 1, S!Does(i, {"wait", "sync"})
             PROVE  \E p \in S!First(i) : p < q
                      /\ log[q].time >= S!AtTime(i)
                           + (IF S!Does(i, {"wait"}) THEN log[p].time ELSE 0)
  BY <1>1 DEF S!WaitsHold
<1>3. i \in 1..q - 1 /\ i \in 1..Len(log) /\ i < q
  BY <1>1, <1>2
<1>4. i \in S!First(i)
  <2>1. \A r \in 1..i - 1 : r \in 1..Len(log) /\ r # i
    BY <1>1, <1>3
  <2> QED BY <1>1, <1>2, <1>3, <2>1 DEF S!First
<1>5. log[q].time >= S!AtTime(i) + (IF S!Does(i, {"wait"}) THEN log[i].time ELSE 0)
  BY <1>2, <1>3 DEF Over, Does
<1> QED BY <1>3, <1>4, <1>5

(* Whatever the script: where no line is raised twice, no line overtakes a *)
(* wait before it; and what "at" schedules, and every bit of a bitstream   *)
(* whose first bit was on time, comes at its time, less than a step late.  *)
THEOREM ScriptsInOrder == TextSpec => []ScriptInOrder
<1>1. ScriptInv /\ [TextNext]_textVars => ScriptInv'
  BY ScriptPart, ScriptKeeps
<1>2. ScriptInv => ScriptInOrder
  BY WaitsAreHeld DEF ScriptInOrder
<1> QED BY <1>1, <1>2, ScriptBegins, PTL DEF TextSpec
================================================================================
