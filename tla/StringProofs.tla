----------------------------- MODULE StringProofs -----------------------------
(***************************************************************************)
(* Proofs about String: for any Strings, characters, texts and sequence of *)
(* calls, with memory or without, the buffer holds the text and a NUL      *)
(* behind it, and what searches and comparisons say agrees.                *)
(***************************************************************************)
EXTENDS MCText, FiniteSetTheorems, TLAPS

LEMMA StringPart == [TextNext]_textVars => [A!Next]_(A!vars)
BY Zenon DEF TextNext, StringStep, NumberStep, AddressStep, SerialStep, StreamStep, ScriptStep,
             textVars, stringVars, A!vars

-----------------------------------------------------------------------------
(* Sequences.                                                              *)

LEMMA MadeSeq ==
    ASSUME NEW T, NEW n \in Nat, NEW f, f = [i \in 1..n |-> f[i]], \A i \in 1..n : f[i] \in T
    PROVE  f \in Seq(T) /\ Len(f) = n
OBVIOUS

LEMMA WiderSeq ==
    ASSUME NEW T, NEW U, T \subseteq U, NEW s \in Seq(T)
    PROVE  s \in Seq(U)
<1>1. s = [i \in 1..Len(s) |-> s[i]] /\ Len(s) \in Nat /\ \A i \in 1..Len(s) : s[i] \in U
  OBVIOUS
<1> QED BY <1>1, MadeSeq

LEMMA JoinedSeq ==
    ASSUME NEW T, NEW s \in Seq(T), NEW t \in Seq(T)
    PROVE  /\ s \o t \in Seq(T) /\ Len(s \o t) = Len(s) + Len(t)
           /\ Len(s) \in Nat /\ Len(t) \in Nat
           /\ \A i \in 1..Len(s) : (s \o t)[i] = s[i]
           /\ \A i \in 1..Len(t) : (s \o t)[Len(s) + i] = t[i]
OBVIOUS

LEMMA SameSeq ==
    ASSUME NEW T, NEW s \in Seq(T), NEW t \in Seq(T), Len(s) = Len(t),
           \A i \in 1..Len(s) : s[i] = t[i]
    PROVE  s = t
OBVIOUS

LEMMA JoinsTo ==
    ASSUME NEW T, NEW s \in Seq(T), NEW t \in Seq(T), NEW u \in Seq(T),
           Len(u) = Len(s) + Len(t), \A i \in 1..Len(s) : u[i] = s[i],
           \A i \in 1..Len(t) : u[Len(s) + i] = t[i]
    PROVE  u = s \o t
<1>1. /\ s \o t \in Seq(T) /\ Len(s \o t) = Len(s) + Len(t)
      /\ Len(s) \in Nat /\ Len(t) \in Nat /\ Len(u) \in Nat
      /\ \A i \in 1..Len(s) : (s \o t)[i] = s[i]
      /\ \A i \in 1..Len(t) : (s \o t)[Len(s) + i] = t[i]
  BY JoinedSeq
<1>2. ASSUME NEW i \in 1..Len(u) PROVE u[i] = (s \o t)[i]
  <2>1. CASE i <= Len(s)
    <3>1. i \in 1..Len(s)
      BY <1>1, <2>1
    <3> QED BY <1>1, <3>1, Zenon
  <2>2. CASE i > Len(s)
    <3>1. PICK j \in 1..Len(t) : i = Len(s) + j
      <4>1. i - Len(s) \in 1..Len(t) /\ i = Len(s) + (i - Len(s))
        BY <1>1, <2>2
      <4> QED BY <4>1
    <3> QED BY <1>1, <3>1, Zenon
  <2> QED BY <1>1, <2>1, <2>2
<1>3. u \in Seq(T) /\ s \o t \in Seq(T) /\ Len(u) = Len(s \o t)
  BY <1>1
<1> QED BY <1>2, <1>3, SameSeq

-----------------------------------------------------------------------------
(* The least and the greatest of a set of numbers.                         *)

LEMMA SmallestOf ==
    ASSUME NEW T \in SUBSET Nat, T # {}
    PROVE  \E m \in T : \A k \in T : m <= k
<1> DEFINE Lt == {ss \in Nat \X Nat : ss[1] < ss[2]}
<1>1. IsWellFoundedOn(Lt, Nat)
  BY NatLessThanWellFounded DEF OpToRel
<1>2. PICK m \in T : \A k \in T : ~(<<k, m>> \in Lt)
  <2> HIDE DEF Lt
  <2> QED BY <1>1, WFMin
<1>3. ASSUME NEW k \in T PROVE m <= k
  <2>1. ~(<<k, m>> \in Lt) /\ k \in Nat /\ m \in Nat
    BY <1>2
  <2> QED BY <2>1
<1> QED BY <1>3

LEMMA LargestOf ==
    ASSUME NEW T \in SUBSET Nat, T # {}, NEW n \in Nat, \A k \in T : k <= n
    PROVE  \E m \in T : \A k \in T : k <= m
<1> DEFINE U == {n - k : k \in T}
<1>1. U \in SUBSET Nat /\ U # {}
  <2>1. \A k \in T : n - k \in Nat
    OBVIOUS
  <2> QED BY <2>1
<1>2. PICK d \in U : \A u \in U : d <= u
  <2> HIDE DEF U
  <2> QED BY <1>1, SmallestOf
<1>3. PICK m \in T : d = n - m
  OBVIOUS
<1>4. ASSUME NEW k \in T PROVE k <= m
  <2>1. n - k \in U /\ k \in Nat /\ m \in Nat
    OBVIOUS
  <2>2. d <= n - k
    BY <1>2, <2>1
  <2> QED BY <1>3, <2>1, <2>2
<1> QED BY <1>4

LEMMA LeastFacts ==
    ASSUME NEW T \in SUBSET Nat
    PROVE  /\ T = {} => A!Least(T) = -1
           /\ T # {} => A!Least(T) \in T /\ \A k \in T : A!Least(T) <= k
<1>1. CASE T = {}
  BY <1>1 DEF A!Least
<1>2. CASE T # {}
  <2>1. \E m \in T : \A k \in T : m <= k
    BY <1>2, SmallestOf
  <2>2. A!Least(T) = CHOOSE p \in T : \A q \in T : p <= q
    BY <1>2, Zenon DEF A!Least
  <2> QED BY <1>2, <2>1, <2>2, Zenon
<1> QED BY <1>1, <1>2

LEMMA GreatestFacts ==
    ASSUME NEW T \in SUBSET Nat, NEW n \in Nat, \A k \in T : k <= n
    PROVE  /\ T = {} => A!Greatest(T) = -1
           /\ T # {} => A!Greatest(T) \in T /\ \A k \in T : k <= A!Greatest(T)
<1>1. CASE T = {}
  BY <1>1 DEF A!Greatest
<1>2. CASE T # {}
  <2>1. \E m \in T : \A k \in T : m >= k
    BY <1>2, LargestOf
  <2>2. A!Greatest(T) = CHOOSE p \in T : \A q \in T : p >= q
    BY <1>2, Zenon DEF A!Greatest
  <2>3. A!Greatest(T) \in T /\ \A k \in T : A!Greatest(T) >= k
    BY <2>1, <2>2, Zenon
  <2> QED BY <1>2, <2>3
<1> QED BY <1>1, <1>2

-----------------------------------------------------------------------------
(* What a String is, in terms of its bytes.                                *)

Bytes == A!Chars \cup {A!Nul, A!Junk}

Holds(buf, n) == n < Len(buf) /\ buf[n + 1] = A!Nul /\ \A i \in 1..n : buf[i] \in A!Chars
Sound(s) ==
    /\ s = [buf |-> s.buf, len |-> s.len]
    /\ s.buf \in Seq(Bytes) /\ s.len \in Nat
    /\ s.buf # <<>> => \E i \in DOMAIN s.buf : s.buf[i] = A!Nul
    /\ s.len > 0 => Holds(s.buf, s.len)

LEMMA CharFacts ==
    /\ A!Nul \notin A!Chars /\ A!Junk \notin A!Chars /\ A!Junk # A!Nul
    /\ A!Nul \in Bytes /\ A!Junk \in Bytes /\ A!Chars \subseteq Bytes
    /\ {" ", "A", "a"} \subseteq A!Chars
BY StringAssumption DEF Bytes, A!Nul, A!Junk

LEMMA NullSound == Sound(A!Null)
<1>1. <<>> \in Seq(Bytes)
  OBVIOUS
<1>2. A!Null.buf = <<>> /\ A!Null.len = 0 /\ A!Null = [buf |-> <<>>, len |-> 0]
  BY DEF A!Null
<1> QED BY <1>1, <1>2 DEF Sound

LEMMA MadeSound ==
    ASSUME NEW buf \in Seq(Bytes), NEW n \in Nat, Holds(buf, n)
    PROVE  Sound([buf |-> buf, len |-> n])
<1> DEFINE s == [buf |-> buf, len |-> n]
<1>1. s.buf = buf /\ s.len = n /\ s = [buf |-> s.buf, len |-> s.len]
  OBVIOUS
<1>2. Len(buf) \in Nat /\ n + 1 \in DOMAIN buf /\ buf[n + 1] = A!Nul
  BY DEF Holds
<1> HIDE DEF s
<1> QED BY <1>1, <1>2 DEF Sound, s

(* The text of a String.                                                   *)
LEMMA TextFacts ==
    ASSUME NEW s, Sound(s)
    PROVE  /\ A!Text(s) \in Seq(A!Chars) /\ Len(A!Text(s)) = s.len
           /\ \A i \in 1..s.len : A!Text(s)[i] = s.buf[i]
           /\ s.len > 0 => A!Valid(s)
<1>1. s.buf \in Seq(Bytes) /\ s.len \in Nat /\ Len(s.buf) \in Nat
      /\ (s.len > 0 => s.len < Len(s.buf) /\ \A i \in 1..s.len : s.buf[i] \in A!Chars)
  BY DEF Sound, Holds
<1>2. PICK b \in Seq(Bytes) : b = s.buf
  BY <1>1
<1>3. PICK n \in Nat : n = s.len
  BY <1>1
<1>4. n <= Len(b) /\ \A i \in 1..n : b[i] \in A!Chars
  BY <1>1, <1>2, <1>3
<1>5. /\ SubSeq(b, 1, n) \in Seq(A!Chars) /\ Len(SubSeq(b, 1, n)) = n
      /\ \A i \in 1..n : SubSeq(b, 1, n)[i] = b[i]
  BY <1>4
<1>6. s.len > 0 => s.buf # <<>>
  BY <1>1
<1> QED BY <1>2, <1>3, <1>5, <1>6 DEF A!Text, A!Valid

(* The C string in a buffer.                                               *)
LEMMA FirstNul ==
    ASSUME NEW b \in Seq(Bytes), \E i \in DOMAIN b : b[i] = A!Nul
    PROVE  /\ A!CStr(b) \in Seq(Bytes \ {A!Nul}) /\ Len(A!CStr(b)) < Len(b)
           /\ b[Len(A!CStr(b)) + 1] = A!Nul
           /\ \A i \in 1..Len(A!CStr(b)) : A!CStr(b)[i] = b[i]
<1> DEFINE Nuls == {i \in DOMAIN b : b[i] = A!Nul}
           at == CHOOSE i \in DOMAIN b : b[i] = A!Nul /\ \A j \in 1..i - 1 : b[j] # A!Nul
<1>1. Len(b) \in Nat /\ DOMAIN b = 1..Len(b) /\ \A i \in 1..Len(b) : b[i] \in Bytes
  OBVIOUS
<1>2. PICK m \in Nuls : \A k \in Nuls : m <= k
  <2>1. Nuls \in SUBSET Nat /\ Nuls # {}
    BY <1>1
  <2> HIDE DEF Nuls
  <2> QED BY <2>1, SmallestOf
<1>3. m \in DOMAIN b /\ b[m] = A!Nul /\ \A j \in 1..m - 1 : b[j] # A!Nul
  <2>1. ASSUME NEW j \in 1..m - 1, b[j] = A!Nul PROVE FALSE
    <3>1. m \in 1..Len(b) /\ j \in 1..Len(b) /\ j \in Nuls
      BY <1>1, <2>1
    <3> QED BY <1>2, <3>1
  <2> QED BY <2>1
<1>4. at \in DOMAIN b /\ b[at] = A!Nul /\ \A j \in 1..at - 1 : b[j] # A!Nul
  BY <1>3, Zenon
<1>5. A!CStr(b) = SubSeq(b, 1, at - 1)
  BY Zenon DEF A!CStr
<1> HIDE DEF at
<1>6. PICK n : n = at - 1
  OBVIOUS
<1>7. n \in Nat /\ n < Len(b) /\ b[n + 1] = A!Nul /\ A!CStr(b) = SubSeq(b, 1, n)
      /\ \A j \in 1..n : b[j] \in Bytes \ {A!Nul}
  BY <1>1, <1>4, <1>5, <1>6
<1>8. /\ SubSeq(b, 1, n) \in Seq(Bytes \ {A!Nul}) /\ Len(SubSeq(b, 1, n)) = n
      /\ \A i \in 1..n : SubSeq(b, 1, n)[i] = b[i]
  BY <1>7
<1> QED BY <1>7, <1>8

LEMMA CStrIsText ==
    ASSUME NEW s, Sound(s), s.len > 0
    PROVE  A!CStr(s.buf) = A!Text(s)
<1>1. PICK b \in Seq(Bytes) : b = s.buf
  BY DEF Sound
<1>2. PICK n \in Nat : n = s.len
  BY DEF Sound
<1>3. n > 0 /\ n < Len(b) /\ b[n + 1] = A!Nul /\ \A i \in 1..n : b[i] \in A!Chars
  BY <1>1, <1>2 DEF Sound, Holds
<1>4. n + 1 \in DOMAIN b
  BY <1>3
<1>5. PICK c \in Seq(Bytes \ {A!Nul}) : c = A!CStr(b)
  BY <1>3, <1>4, FirstNul
<1>6. Len(c) < Len(b) /\ b[Len(c) + 1] = A!Nul /\ \A i \in 1..Len(c) : c[i] = b[i]
  BY <1>3, <1>4, <1>5, FirstNul
<1>7. Len(c) \in Nat /\ \A i \in 1..Len(c) : c[i] # A!Nul
  BY <1>5
<1>8. Len(c) = n
  <2>1. ~(Len(c) < n)
    <3> SUFFICES ASSUME Len(c) < n PROVE FALSE
      OBVIOUS
    <3>1. Len(c) + 1 \in 1..n
      BY <1>7
    <3> QED BY <1>3, <1>6, <3>1, CharFacts
  <2>2. ~(Len(c) > n)
    <3> SUFFICES ASSUME Len(c) > n PROVE FALSE
      OBVIOUS
    <3>1. n + 1 \in 1..Len(c)
      BY <1>7
    <3> QED BY <1>3, <1>6, <1>7, <3>1
  <2> QED BY <1>7, <2>1, <2>2
<1>9. /\ A!Text(s) \in Seq(A!Chars) /\ Len(A!Text(s)) = n
      /\ \A i \in 1..n : A!Text(s)[i] = b[i]
  BY <1>1, <1>2, TextFacts
<1>10. c = A!Text(s)
  BY <1>5, <1>6, <1>8, <1>9
<1> QED BY <1>1, <1>5, <1>10

-----------------------------------------------------------------------------
(* What is written into a buffer.                                          *)

LEMMA PutFacts ==
    ASSUME NEW buf \in Seq(Bytes), NEW at \in Nat, NEW text \in Seq(Bytes)
    PROVE  LET b == A!Put(buf, at, text)
           IN  /\ b \in Seq(Bytes) /\ Len(b) = Len(buf)
               /\ \A i \in 1..Len(buf) : i <= at => b[i] = buf[i]
               /\ \A i \in 1..Len(text) : at + i <= Len(buf) => b[at + i] = text[i]
               /\ at + Len(text) < Len(buf) => b[at + Len(text) + 1] = A!Nul
<1> DEFINE b == A!Put(buf, at, text)
           n == Len(buf)
           m == Len(text)
<1>1. n \in Nat /\ m \in Nat /\ DOMAIN buf = 1..n
  OBVIOUS
<1>2. b = [i \in 1..n |-> IF i <= at THEN buf[i]
                          ELSE IF i <= at + m THEN text[i - at]
                          ELSE IF i = at + m + 1 THEN A!Nul ELSE buf[i]]
  BY <1>1, Zenon DEF A!Put
<1>3. ASSUME NEW i \in 1..n PROVE b[i] \in Bytes
  <2>1. buf[i] \in Bytes
    OBVIOUS
  <2>2. i > at /\ i <= at + m => i - at \in 1..m /\ text[i - at] \in Bytes
    BY <1>1
  <2>3. b[i] = IF i <= at THEN buf[i]
               ELSE IF i <= at + m THEN text[i - at]
               ELSE IF i = at + m + 1 THEN A!Nul ELSE buf[i]
    BY <1>2
  <2> HIDE DEF b, n, m
  <2>4. i <= at \/ i > at
    BY <1>1
  <2> QED BY <2>1, <2>2, <2>3, <2>4, CharFacts, Zenon
<1> HIDE DEF b, n, m
<1>4. b \in Seq(Bytes) /\ Len(b) = n
  <2>1. b = [i \in 1..n |-> b[i]]
    BY <1>2
  <2> QED BY <1>1, <1>3, <2>1, MadeSeq
<1>5. ASSUME NEW i \in 1..n, i <= at PROVE b[i] = buf[i]
  BY <1>2, <1>5
<1>6. ASSUME NEW i \in 1..m, at + i <= n PROVE b[at + i] = text[i]
  <2>1. PICK j : j = at + i
    OBVIOUS
  <2>2. j \in 1..n /\ ~(j <= at) /\ j <= at + m /\ j - at = i
    BY <1>1, <1>6, <2>1
  <2> QED BY <1>2, <2>1, <2>2
<1>7. ASSUME at + m < n PROVE b[at + m + 1] = A!Nul
  <2>1. PICK j : j = at + m + 1
    OBVIOUS
  <2>2. j \in 1..n /\ ~(j <= at) /\ ~(j <= at + m)
    BY <1>1, <1>7, <2>1
  <2> QED BY <1>2, <2>1, <2>2
<1> QED BY <1>4, <1>5, <1>6, <1>7 DEF b, n, m

LEMMA ReallocFacts ==
    ASSUME NEW s, Sound(s), NEW size \in Nat, size + 1 >= Len(s.buf)
    PROVE  /\ A!Realloc(s, size) \in Seq(Bytes) /\ Len(A!Realloc(s, size)) = size + 1
           /\ \A i \in 1..Len(s.buf) : A!Realloc(s, size)[i] = s.buf[i]
<1>1. PICK b \in Seq(Bytes) : b = s.buf
  BY DEF Sound
<1>2. PICK r : r = A!Realloc(s, size)
  OBVIOUS
<1>3. r = [i \in 1..size + 1 |-> IF i <= Len(b) THEN b[i] ELSE A!Junk]
  BY <1>1, <1>2 DEF A!Realloc
<1>4. ASSUME NEW i \in 1..size + 1 PROVE r[i] \in Bytes
  <2>1. r[i] = IF i <= Len(b) THEN b[i] ELSE A!Junk
    BY <1>3
  <2>2. i <= Len(b) => b[i] \in Bytes
    OBVIOUS
  <2> QED BY <2>1, <2>2, CharFacts, Zenon
<1>5. r \in Seq(Bytes) /\ Len(r) = size + 1
  <2>1. r = [i \in 1..size + 1 |-> r[i]] /\ size + 1 \in Nat
    BY <1>3
  <2> QED BY <1>4, <2>1, MadeSeq
<1>6. \A i \in 1..Len(b) : r[i] = b[i]
  BY <1>1, <1>3
<1> QED BY <1>1, <1>2, <1>5, <1>6

LEMMA ReservedFacts ==
    ASSUME NEW s, Sound(s), NEW size \in Nat
    PROVE  LET r == A!Reserved(s, size)
           IN  /\ r.buf \in Seq(Bytes) /\ r.len = s.len /\ size < Len(r.buf)
               /\ r = [buf |-> r.buf, len |-> r.len]
               /\ Len(s.buf) \in Nat /\ Len(s.buf) <= Len(r.buf)
               /\ \A i \in 1..Len(s.buf) : r.buf[i] = s.buf[i]
<1>1. s.buf \in Seq(Bytes) /\ Len(s.buf) \in Nat /\ s = [buf |-> s.buf, len |-> s.len]
  BY DEF Sound
<1>2. CASE A!Enough(s, size)
  BY <1>1, <1>2 DEF A!Reserved, A!Enough, A!Capacity, A!Valid
<1>3. CASE ~A!Enough(s, size)
  <2>1. size + 1 >= Len(s.buf)
    BY <1>1, <1>3 DEF A!Enough, A!Capacity, A!Valid
  <2>2. PICK r : r = A!Realloc(s, size)
    OBVIOUS
  <2>3. r \in Seq(Bytes) /\ Len(r) = size + 1 /\ \A i \in 1..Len(s.buf) : r[i] = s.buf[i]
    BY <2>1, <2>2, ReallocFacts
  <2>4. A!Reserved(s, size) = [buf |-> r, len |-> s.len]
    BY <1>1, <1>3, <2>2 DEF A!Reserved
  <2> QED BY <1>1, <2>1, <2>3, <2>4
<1> QED BY <1>2, <1>3

LEMMA CharsAreBytes == Seq(A!Chars) \subseteq Seq(Bytes)
BY CharFacts, WiderSeq

(* A text put into a buffer behind the text that is there: copy() behind   *)
(* none, concat() behind all of it, remove() behind some of it.            *)
LEMMA PutSound ==
    ASSUME NEW buf \in Seq(Bytes), NEW at \in Nat, NEW text \in Seq(A!Chars),
           at + Len(text) < Len(buf), \A i \in 1..at : buf[i] \in A!Chars
    PROVE  LET s == [buf |-> A!Put(buf, at, text), len |-> at + Len(text)]
           IN  /\ Sound(s) /\ A!Valid(s) /\ Len(A!Text(s)) = at + Len(text)
               /\ \A i \in 1..at : A!Text(s)[i] = buf[i]
               /\ \A i \in 1..Len(text) : A!Text(s)[at + i] = text[i]
<1>1. text \in Seq(Bytes) /\ Len(text) \in Nat /\ Len(buf) \in Nat
      /\ \A i \in 1..Len(text) : text[i] \in A!Chars
  BY CharsAreBytes
<1>2. PICK b : b = A!Put(buf, at, text)
  OBVIOUS
<1>3. /\ b \in Seq(Bytes) /\ Len(b) = Len(buf)
      /\ \A i \in 1..Len(buf) : i <= at => b[i] = buf[i]
      /\ \A i \in 1..Len(text) : at + i <= Len(buf) => b[at + i] = text[i]
      /\ at + Len(text) < Len(buf) => b[at + Len(text) + 1] = A!Nul
  BY <1>1, <1>2, PutFacts
<1>4. PICK n \in Nat : n = at + Len(text)
  BY <1>1
<1>5. ASSUME NEW i \in 1..n PROVE b[i] \in A!Chars
  <2>1. CASE i <= at
    <3>1. i \in 1..at /\ i \in 1..Len(buf)
      BY <1>1, <1>4, <2>1
    <3> QED BY <1>3, <2>1, <3>1
  <2>2. CASE i > at
    <3>1. PICK j \in 1..Len(text) : i = at + j
      <4>1. i - at \in 1..Len(text) /\ i = at + (i - at)
        BY <1>1, <1>4, <2>2
      <4> QED BY <4>1
    <3>2. at + j <= Len(buf)
      BY <1>1
    <3> QED BY <1>1, <1>3, <3>1, <3>2
  <2> QED BY <2>1, <2>2
<1>6. Holds(b, n)
  BY <1>3, <1>4, <1>5 DEF Holds
<1> DEFINE s == [buf |-> b, len |-> n]
<1>7. Sound(s)
  BY <1>3, <1>6, MadeSound
<1>8. s.buf = b /\ s.len = n
  OBVIOUS
<1> HIDE DEF s
<1>9. Len(A!Text(s)) = n /\ \A i \in 1..n : A!Text(s)[i] = b[i]
  BY <1>7, <1>8, TextFacts
<1>10. \A i \in 1..at : A!Text(s)[i] = buf[i]
  <2>1. \A i \in 1..at : i \in 1..n /\ i \in 1..Len(buf) /\ i <= at
    BY <1>1, <1>4
  <2> QED BY <1>3, <1>9, <2>1
<1>11. \A i \in 1..Len(text) : A!Text(s)[at + i] = text[i]
  <2>1. \A i \in 1..Len(text) : at + i \in 1..n /\ at + i <= Len(buf)
    BY <1>1, <1>4
  <2> QED BY <1>3, <1>9, <2>1
<1>12. A!Valid(s)
  BY <1>3, <1>8, <1>1 DEF A!Valid
<1> QED BY <1>2, <1>4, <1>7, <1>9, <1>10, <1>11, <1>12 DEF s

LEMMA CopiedSound ==
    ASSUME NEW s, Sound(s), NEW text \in Seq(A!Chars)
    PROVE  /\ Sound(A!Copied(s, text)) /\ A!Valid(A!Copied(s, text))
           /\ A!Text(A!Copied(s, text)) = text
<1>1. Len(text) \in Nat
  OBVIOUS
<1>2. PICK b : b = A!Reserved(s, Len(text)).buf
  OBVIOUS
<1>3. b \in Seq(Bytes) /\ Len(text) < Len(b)
  BY <1>1, <1>2, ReservedFacts
<1>4. PICK n : n = 0
  OBVIOUS
<1>5. n \in Nat /\ n + Len(text) < Len(b) /\ (\A i \in 1..n : b[i] \in A!Chars) /\ n + Len(text) = Len(text)
  BY <1>1, <1>3, <1>4
<1>6. PICK c : c = [buf |-> A!Put(b, n, text), len |-> n + Len(text)]
  OBVIOUS
<1>7. /\ Sound(c) /\ A!Valid(c) /\ Len(A!Text(c)) = n + Len(text)
      /\ \A i \in 1..Len(text) : A!Text(c)[n + i] = text[i]
  BY <1>3, <1>5, <1>6, PutSound
<1>8. A!Text(c) \in Seq(A!Chars)
  BY <1>7, TextFacts
<1>9. A!Text(c) = text
  BY <1>1, <1>4, <1>7, <1>8
<1>10. A!Copied(s, text) = c
  BY <1>2, <1>4, <1>5, <1>6 DEF A!Copied
<1> QED BY <1>7, <1>9, <1>10

LEMMA ConcatenatedSound ==
    ASSUME NEW s, Sound(s), NEW text \in Seq(A!Chars)
    PROVE  /\ Sound(A!Concatenated(s, text)) /\ A!Valid(A!Concatenated(s, text))
           /\ A!Text(A!Concatenated(s, text)) = A!Text(s) \o text
<1>1. Len(text) \in Nat /\ s.len \in Nat /\ s.len + Len(text) \in Nat
  BY DEF Sound
<1>2. PICK b : b = A!Reserved(s, s.len + Len(text)).buf
  OBVIOUS
<1>3. /\ b \in Seq(Bytes) /\ s.len + Len(text) < Len(b)
      /\ Len(s.buf) \in Nat /\ \A i \in 1..Len(s.buf) : b[i] = s.buf[i]
  BY <1>1, <1>2, ReservedFacts
<1>4. \A i \in 1..s.len : b[i] = s.buf[i] /\ b[i] \in A!Chars
  <2>1. \A i \in 1..s.len : i \in 1..Len(s.buf) /\ s.buf[i] \in A!Chars
    BY <1>1, <1>3 DEF Sound, Holds
  <2> QED BY <1>3, <2>1
<1>6. PICK c : c = [buf |-> A!Put(b, s.len, text), len |-> s.len + Len(text)]
  OBVIOUS
<1>7. /\ Sound(c) /\ A!Valid(c) /\ Len(A!Text(c)) = s.len + Len(text)
      /\ \A i \in 1..s.len : A!Text(c)[i] = b[i]
      /\ \A i \in 1..Len(text) : A!Text(c)[s.len + i] = text[i]
  BY <1>1, <1>3, <1>4, <1>6, PutSound
<1>8. A!Text(c) \in Seq(A!Chars)
  BY <1>7, TextFacts
<1>9. /\ A!Text(s) \in Seq(A!Chars) /\ Len(A!Text(s)) = s.len
      /\ \A i \in 1..s.len : A!Text(s)[i] = s.buf[i]
  BY TextFacts
<1>10. A!Text(c) = A!Text(s) \o text
  <2>1. PICK t \in Seq(A!Chars) : t = A!Text(s)
    BY <1>9
  <2>2. PICK u \in Seq(A!Chars) : u = A!Text(c)
    BY <1>8
  <2>3. Len(t) = s.len /\ Len(u) = Len(t) + Len(text)
        /\ (\A i \in 1..Len(t) : u[i] = t[i])
        /\ \A i \in 1..Len(text) : u[Len(t) + i] = text[i]
    BY <1>4, <1>7, <1>9, <2>1, <2>2
  <2>4. u = t \o text
    BY <2>3, JoinsTo
  <2> QED BY <2>1, <2>2, <2>4
<1>11. A!Concatenated(s, text) = c
  BY <1>2, <1>6 DEF A!Concatenated
<1> QED BY <1>7, <1>10, <1>11

-----------------------------------------------------------------------------
(* Occurrences, and the two passes of replace().                           *)

LEMMA SubSeqFacts ==
    ASSUME NEW T, NEW s \in Seq(T), NEW l \in Nat, NEW r \in Nat, l <= r, r <= Len(s)
    PROVE  /\ SubSeq(s, l + 1, r) \in Seq(T) /\ Len(SubSeq(s, l + 1, r)) = r - l
           /\ \A i \in 1..r - l : SubSeq(s, l + 1, r)[i] = s[l + i]
<1>1. Len(s) \in Nat
  OBVIOUS
<1>2. PICK m \in Nat : m = r - l
  OBVIOUS
<1>3. SubSeq(s, l + 1, r) = [i \in 1..m |-> s[l + i]]
  BY <1>1, <1>2
<1>4. \A i \in 1..m : s[l + i] \in T
  <2>1. \A i \in 1..m : l + i \in 1..Len(s)
    BY <1>1, <1>2
  <2>2. \A j \in 1..Len(s) : s[j] \in T
    OBVIOUS
  <2> QED BY <2>1, <2>2, Zenon
<1>5. PICK f : f = [i \in 1..m |-> s[l + i]]
  OBVIOUS
<1>6. f = [i \in 1..m |-> f[i]] /\ \A i \in 1..m : f[i] = s[l + i]
  BY <1>5
<1>7. \A i \in 1..m : f[i] \in T
  BY <1>4, <1>6
<1>8. f \in Seq(T) /\ Len(f) = m
  BY <1>6, <1>7, MadeSeq
<1> QED BY <1>2, <1>3, <1>5, <1>6, <1>8

LEMMA FrontFacts ==
    ASSUME NEW T, NEW s \in Seq(T), NEW p \in Nat, p <= Len(s)
    PROVE  /\ SubSeq(s, 1, p) \in Seq(T) /\ Len(SubSeq(s, 1, p)) = p
           /\ \A i \in 1..p : SubSeq(s, 1, p)[i] = s[i]
<1>1. PICK l \in Nat : l = 0
  OBVIOUS
<1>2. l <= p /\ l + 1 = 1 /\ p - l = p /\ \A i \in 1..p : l + i = i
  BY <1>1
<1>3. /\ SubSeq(s, l + 1, p) \in Seq(T) /\ Len(SubSeq(s, l + 1, p)) = p - l
      /\ \A i \in 1..p - l : SubSeq(s, l + 1, p)[i] = s[l + i]
  BY <1>2, SubSeqFacts
<1>4. PICK front : front = SubSeq(s, l + 1, p)
  OBVIOUS
<1>5. front \in Seq(T) /\ Len(front) = p /\ (\A i \in 1..p : front[i] = s[i])
      /\ front = SubSeq(s, 1, p)
  BY <1>2, <1>3, <1>4
<1> QED BY <1>5, Zenon

LEMMA MatchFacts ==
    ASSUME NEW T, NEW s \in Seq(T), NEW find \in Seq(T), NEW U \in SUBSET A!Matches(s, find)
    PROVE  /\ U \in SUBSET Nat /\ \A p \in U : p + Len(find) <= Len(s) /\ p <= Len(s)
           /\ \/ U = {} /\ A!Least(U) = -1 /\ A!Greatest(U) = -1
              \/ /\ A!Least(U) \in U /\ A!Greatest(U) \in U
                 /\ \A p \in U : A!Least(U) <= p /\ p <= A!Greatest(U)
<1>1. Len(s) \in Nat /\ Len(find) \in Nat
  OBVIOUS
<1>2. \A p \in U : p \in 0..Len(s) - Len(find)
  BY DEF A!Matches
<1>3. U \in SUBSET Nat /\ \A p \in U : p + Len(find) <= Len(s) /\ p <= Len(s)
  BY <1>1, <1>2
<1> QED BY <1>1, <1>3, LeastFacts, GreatestFacts

(* One more step of the left to right pass, in a function of its results.  *)
SweepStep(f, text, find, by, from) ==
    LET rest == SubSeq(text, from + 1, Len(text))
        p == A!Least(A!Matches(rest, find))
    IN  IF p < 0 THEN rest ELSE SubSeq(rest, 1, p) \o by \o f[from + p + Len(find)]
Sweeps(f, text, find, by, at) ==
    f = [from \in at..Len(text) |-> SweepStep(f, text, find, by, from)]
Sweeping(f, text, find, by) ==
    \A from \in 0..Len(text) : f[from] = SweepStep(f, text, find, by, from)

(* It looks only at what is further to the right.                          *)
LEMMA SweepLooksAhead ==
    ASSUME NEW text \in Seq(A!Chars), NEW find \in Seq(A!Chars), Len(find) > 0, NEW by,
           NEW from \in 0..Len(text), NEW f, NEW g,
           \A j \in from + 1..Len(text) : f[j] = g[j]
    PROVE  SweepStep(f, text, find, by, from) = SweepStep(g, text, find, by, from)
<1>1. PICK rest : rest = SubSeq(text, from + 1, Len(text))
  OBVIOUS
<1>2. Len(text) \in Nat /\ from \in Nat /\ from <= Len(text) /\ Len(find) \in Nat
  OBVIOUS
<1>3. rest \in Seq(A!Chars) /\ Len(rest) = Len(text) - from
  BY <1>1, <1>2, SubSeqFacts
<1>4. PICK p : p = A!Least(A!Matches(rest, find))
  OBVIOUS
<1>5. p = -1 \/ p \in A!Matches(rest, find)
  BY <1>3, <1>4, MatchFacts
<1>6. p = -1 \/ (p \in Nat /\ p + Len(find) <= Len(rest))
  BY <1>3, <1>5, MatchFacts
<1>7. CASE p = -1
  BY <1>1, <1>4, <1>7 DEF SweepStep
<1>8. CASE p \in Nat /\ p + Len(find) <= Len(rest)
  <2>1. from + p + Len(find) \in from + 1..Len(text)
    BY <1>2, <1>3, <1>8
  <2>2. f[from + p + Len(find)] = g[from + p + Len(find)]
    BY <2>1
  <2> QED BY <1>1, <1>4, <2>2, Zenon DEF SweepStep
<1> QED BY <1>6, <1>7, <1>8

LEMMA CountUp ==
    ASSUME NEW T \in SUBSET Nat, 0 \in T, \A n \in T : n + 1 \in T
    PROVE  T = Nat
<1> SUFFICES ASSUME T # Nat PROVE FALSE
  OBVIOUS
<1>1. Nat \ T \in SUBSET Nat /\ Nat \ T # {}
  OBVIOUS
<1>2. PICK m \in Nat \ T : \A k \in Nat \ T : m <= k
  BY <1>1, SmallestOf
<1>3. m # 0 /\ m - 1 \in Nat /\ m - 1 \in T
  BY <1>2
<1> QED BY <1>2, <1>3

LEMMA SweptUnfolds ==
    ASSUME NEW text \in Seq(A!Chars), NEW find \in Seq(A!Chars), Len(find) > 0, NEW by
    PROVE  \E f : A!Swept(text, find, by) = f[0] /\ Sweeping(f, text, find, by)
<1> DEFINE last == Len(text)
           K == {k \in Nat : k <= last + 1 => \E f : Sweeps(f, text, find, by, last + 1 - k)}
<1>1. last \in Nat
  OBVIOUS
<1>2. 0 \in K
  <2>1. PICK f : f = [from \in {} |-> 0]
    OBVIOUS
  <2>2. last + 1..last = {} /\ last + 1 - 0 = last + 1
    BY <1>1
  <2>3. f = [from \in last + 1..last |-> SweepStep(f, text, find, by, from)]
    BY <2>1, <2>2
  <2>4. Sweeps(f, text, find, by, last + 1 - 0)
    BY <2>2, <2>3, Zenon DEF Sweeps
  <2> QED BY <2>4
<1>3. ASSUME NEW k \in K PROVE k + 1 \in K
  <2> SUFFICES ASSUME k + 1 <= last + 1 PROVE \E f : Sweeps(f, text, find, by, last + 1 - (k + 1))
    OBVIOUS
  <2>1. PICK at : at = last - k
    OBVIOUS
  <2>2. /\ k \in Nat /\ at \in 0..last /\ last + 1 - (k + 1) = at /\ last + 1 - k = at + 1
        /\ k <= last + 1
    BY <1>1, <2>1
  <2>3. PICK g : Sweeps(g, text, find, by, at + 1)
    BY <2>2
  <2>4. \A from \in at + 1..last : g[from] = SweepStep(g, text, find, by, from)
    <3> HIDE DEF last
    <3>1. g = [from \in at + 1..last |-> SweepStep(g, text, find, by, from)]
      BY <2>3, Zenon DEF Sweeps, last
    <3> QED BY <3>1
  <2>5. PICK h : h = [from \in at..last |-> IF from = at THEN SweepStep(g, text, find, by, at)
                                         ELSE g[from]]
    OBVIOUS
  <2>6. ASSUME NEW from \in at..last PROVE h[from] = SweepStep(h, text, find, by, from)
    <3>1. from \in 0..last /\ \A j \in from + 1..last : j \in at + 1..last /\ j \in at..last /\ j # at
      BY <1>1, <2>2
    <3>2. \A j \in from + 1..last : h[j] = g[j]
      BY <2>5, <3>1
    <3>3. SweepStep(h, text, find, by, from) = SweepStep(g, text, find, by, from)
      BY <3>1, <3>2, SweepLooksAhead
    <3>4. CASE from = at
      BY <2>5, <3>3, <3>4
    <3>5. CASE from # at
      <4>1. from \in at + 1..last
        BY <2>2, <3>5
      <4> QED BY <2>4, <2>5, <3>3, <3>5, <4>1
    <3> QED BY <3>4, <3>5
  <2>7. h = [from \in at..last |-> SweepStep(h, text, find, by, from)]
    BY <2>5, <2>6
  <2>8. Sweeps(h, text, find, by, at)
    BY <2>7, Zenon DEF Sweeps
  <2> QED BY <2>2, <2>8
<1>4. last + 1 \in K
  <2> HIDE DEF K
  <2>1. K = Nat
    <3>1. K \in SUBSET Nat
      BY DEF K
    <3> QED BY <1>2, <1>3, <3>1, CountUp
  <2> QED BY <1>1, <2>1
<1>5. \E f : Sweeps(f, text, find, by, 0)
  BY <1>1, <1>4
<1>6. PICK f : f = CHOOSE g : Sweeps(g, text, find, by, 0)
  OBVIOUS
<1>7. A!Swept(text, find, by) = f[0]
  BY <1>6, Zenon DEF A!Swept, Sweeps, SweepStep
<1>8. Sweeps(f, text, find, by, 0)
  BY <1>5, <1>6, Zenon
<1>9. f = [from \in 0..last |-> SweepStep(f, text, find, by, from)]
  BY <1>8, Zenon DEF Sweeps
<1>10. \A from \in 0..last : f[from] = SweepStep(f, text, find, by, from)
  <2> HIDE DEF last
  <2> QED BY <1>9
<1> QED BY <1>7, <1>10 DEF Sweeping

(* The texts it makes, which are not longer than what they replace if what *)
(* is put in is not longer than what is taken out.                         *)
LEMMA SweepTexts ==
    ASSUME NEW text \in Seq(A!Chars), NEW find \in Seq(A!Chars), Len(find) > 0,
           NEW by \in Seq(A!Chars), NEW f, Sweeping(f, text, find, by)
    PROVE  \A from \in 0..Len(text) :
               /\ f[from] \in Seq(A!Chars)
               /\ Len(by) <= Len(find) => Len(f[from]) <= Len(text) - from
<1> DEFINE last == Len(text)
           OK(from) == /\ f[from] \in Seq(A!Chars)
                       /\ Len(by) <= Len(find) => Len(f[from]) <= last - from
           K == {k \in Nat : \A from \in 0..last : last - from < k => OK(from)}
<1>2. last \in Nat /\ Len(find) \in Nat /\ Len(by) \in Nat
  OBVIOUS
<1>3. 0 \in K
  BY <1>2
<1>4. ASSUME NEW k \in K PROVE k + 1 \in K
  <2> SUFFICES ASSUME NEW from \in 0..last, last - from < k + 1 PROVE OK(from)
    OBVIOUS
  <2>1. PICK rest : rest = SubSeq(text, from + 1, last)
    OBVIOUS
  <2>2. rest \in Seq(A!Chars) /\ Len(rest) = last - from /\ from \in Nat
    BY <1>2, <2>1, SubSeqFacts
  <2>3. PICK p : p = A!Least(A!Matches(rest, find))
    OBVIOUS
  <2>4. p = -1 \/ (p \in Nat /\ p + Len(find) <= Len(rest))
    <3>1. p = -1 \/ p \in A!Matches(rest, find)
      BY <2>2, <2>3, MatchFacts
    <3> QED BY <2>2, <3>1, MatchFacts
  <2>5. f[from] = IF p < 0 THEN rest ELSE SubSeq(rest, 1, p) \o by \o f[from + p + Len(find)]
    BY <2>1, <2>3, Zenon DEF SweepStep, Sweeping
  <2>6. CASE p = -1
    <3>1. f[from] = rest
      BY <2>5, <2>6
    <3> QED BY <2>2, <3>1
  <2>7. CASE p \in Nat /\ p + Len(find) <= Len(rest)
    <3>1. PICK j : j = from + p + Len(find)
      OBVIOUS
    <3>2. j \in 0..last /\ last - j < k /\ j \in Nat /\ last - j = Len(rest) - p - Len(find)
      BY <1>2, <2>2, <2>7, <3>1
    <3>3. OK(j)
      BY <3>2
    <3>4. PICK tail \in Seq(A!Chars) : tail = f[j]
      BY <3>3
    <3>5. PICK head \in Seq(A!Chars) : head = SubSeq(rest, 1, p) /\ Len(head) = p
      <4>1. p <= Len(rest) /\ p \in Nat
        BY <1>2, <2>2, <2>7
      <4> QED BY <2>2, <4>1, FrontFacts
    <3>6. f[from] = head \o by \o tail
      <4>1. ~(p < 0)
        BY <2>7
      <4> QED BY <2>5, <3>1, <3>4, <3>5, <4>1, Zenon
    <3>7. head \o by \in Seq(A!Chars) /\ Len(head \o by) = p + Len(by)
      BY <3>5, JoinedSeq
    <3>8. PICK both \in Seq(A!Chars) : both = head \o by /\ Len(both) = p + Len(by)
      BY <3>7
    <3>9. both \o tail \in Seq(A!Chars) /\ Len(both \o tail) = Len(both) + Len(tail) /\ Len(tail) \in Nat
      BY JoinedSeq
    <3>10. f[from] \in Seq(A!Chars) /\ Len(f[from]) = p + Len(by) + Len(tail)
      BY <3>6, <3>8, <3>9
    <3>11. Len(by) <= Len(find) => Len(tail) <= last - j
      BY <3>3, <3>4
    <3> HIDE DEF last
    <3> QED BY <1>2, <2>2, <2>7, <3>2, <3>9, <3>10, <3>11 DEF last
  <2> QED BY <2>4, <2>6, <2>7
<1>5. last + 1 \in K
  <2> HIDE DEF K
  <2>1. K = Nat
    <3>1. K \in SUBSET Nat
      BY DEF K
    <3> QED BY <1>3, <1>4, <3>1, CountUp
  <2> QED BY <1>2, <2>1
<1>6. ASSUME NEW from \in 0..last PROVE OK(from)
  <2>1. last - from < last + 1
    BY <1>2
  <2> QED BY <1>5, <2>1
<1> QED BY <1>6

LEMMA SweptFacts ==
    ASSUME NEW text \in Seq(A!Chars), NEW find \in Seq(A!Chars), Len(find) > 0,
           NEW by \in Seq(A!Chars)
    PROVE  /\ A!Swept(text, find, by) \in Seq(A!Chars)
           /\ Len(by) <= Len(find) => Len(A!Swept(text, find, by)) <= Len(text)
<1>1. PICK f : A!Swept(text, find, by) = f[0] /\ Sweeping(f, text, find, by)
  BY SweptUnfolds
<1>2. 0 \in 0..Len(text) /\ Len(text) - 0 = Len(text)
  OBVIOUS
<1>3. f[0] \in Seq(A!Chars) /\ (Len(by) <= Len(find) => Len(f[0]) <= Len(text) - 0)
  BY <1>1, <1>2, SweepTexts
<1> QED BY <1>1, <1>2, <1>3

(* One step of the right to left pass, and a function of its results.      *)
PassStep(s, find, by) ==
    LET p == A!Greatest({q \in A!Matches(s.text, find) : q <= s.index})
    IN  IF s.index < 0 \/ p < 0 THEN s
        ELSE [text |-> SubSeq(s.text, 1, p) \o by \o SubSeq(s.text, p + Len(find) + 1, Len(s.text)),
              index |-> p - 1]
Passes(f, first, find, by, last) ==
    f = [n \in 0..last |-> IF n = 0 THEN first ELSE PassStep(f[n - 1], find, by)]

LEMMA PassesExist ==
    ASSUME NEW first, NEW find, NEW by, NEW last \in Nat
    PROVE  \E f : Passes(f, first, find, by, last)
<1> DEFINE K == {k \in Nat : \E f : Passes(f, first, find, by, k)}
<1>1. 0 \in K
  <2>1. PICK f : f = [n \in 0..0 |-> first]
    OBVIOUS
  <2>2. ASSUME NEW n \in 0..0
        PROVE  f[n] = IF n = 0 THEN first ELSE PassStep(f[n - 1], find, by)
    <3>1. n = 0 /\ f[n] = first
      BY <2>1
    <3> QED BY <3>1, Zenon
  <2>3. Passes(f, first, find, by, 0)
    BY <2>1, <2>2, Zenon DEF Passes
  <2> QED BY <2>3
<1>2. ASSUME NEW k \in K PROVE k + 1 \in K
  <2>1. PICK f : Passes(f, first, find, by, k)
    OBVIOUS
  <2>2. k \in Nat /\ f = [n \in 0..k |-> IF n = 0 THEN first ELSE PassStep(f[n - 1], find, by)]
    BY <2>1, Zenon DEF Passes
  <2>3. PICK g : g = [n \in 0..k + 1 |-> IF n = k + 1 THEN PassStep(f[k], find, by) ELSE f[n]]
    OBVIOUS
  <2>4. ASSUME NEW n \in 0..k + 1
        PROVE  g[n] = IF n = 0 THEN first ELSE PassStep(g[n - 1], find, by)
    <3>1. CASE n = k + 1
      <4>1. n # 0 /\ n - 1 = k /\ k \in 0..k + 1 /\ k # k + 1
        BY <2>2, <3>1
      <4>2. g[n] = PassStep(f[k], find, by) /\ g[k] = f[k]
        BY <2>3, <3>1, <4>1, Zenon
      <4> QED BY <4>1, <4>2, Zenon
    <3>2. CASE n # k + 1
      <4>1. n \in 0..k
        BY <2>2, <3>2
      <4>2. g[n] = f[n] /\ f[n] = IF n = 0 THEN first ELSE PassStep(f[n - 1], find, by)
        BY <2>2, <2>3, <3>2, <4>1, Zenon
      <4>3. n # 0 => g[n - 1] = f[n - 1]
        <5>1. n # 0 => n - 1 \in 0..k + 1 /\ n - 1 # k + 1
          BY <2>2, <4>1
        <5> QED BY <2>3, <5>1, Zenon
      <4> QED BY <4>2, <4>3, Zenon
    <3> QED BY <3>1, <3>2
  <2>5. Passes(g, first, find, by, k + 1)
    <3>1. g = [n \in 0..k + 1 |-> g[n]]
      BY <2>3, Zenon
    <3> QED BY <2>4, <3>1, Zenon DEF Passes
  <2> QED BY <2>2, <2>5
<1>3. K = Nat
  <2>1. K \in SUBSET Nat
    OBVIOUS
  <2> HIDE DEF K
  <2> QED BY <1>1, <1>2, <2>1, CountUp
<1> QED BY <1>3

LEMMA GrownFacts ==
    ASSUME NEW text \in Seq(A!Chars), NEW find \in Seq(A!Chars), NEW by \in Seq(A!Chars),
           NEW index \in Nat
    PROVE  A!Grown(text, find, by, index) \in Seq(A!Chars)
<1> DEFINE first == [text |-> text, index |-> index]
<1>1. PICK f : f = CHOOSE g : Passes(g, first, find, by, index + 1)
  OBVIOUS
<1>2. Passes(f, first, find, by, index + 1)
  <2>1. index + 1 \in Nat
    OBVIOUS
  <2>2. \E g : Passes(g, first, find, by, index + 1)
    BY <2>1, PassesExist
  <2> QED BY <1>1, <2>2, Zenon
<1>3. A!Grown(text, find, by, index) = f[index + 1].text
  BY <1>1, Zenon DEF A!Grown, Passes, PassStep
<1>4. \A n \in 0..index + 1 : f[n] = IF n = 0 THEN first ELSE PassStep(f[n - 1], find, by)
  BY <1>2, Zenon DEF Passes
<1> DEFINE OK(s) == s.text \in Seq(A!Chars) /\ s.index \in Int
           K == {n \in Nat : n <= index + 1 => OK(f[n])}
<1>5. 0 \in K
  <2>1. OK(first)
    OBVIOUS
  <2>2. f[0] = first
    BY <1>4
  <2> QED BY <2>1, <2>2
<1>6. ASSUME NEW k \in K PROVE k + 1 \in K
  <2> SUFFICES ASSUME k + 1 <= index + 1 PROVE OK(f[k + 1])
    OBVIOUS
  <2>1. k + 1 \in 0..index + 1 /\ k + 1 # 0 /\ k + 1 - 1 = k /\ OK(f[k])
    OBVIOUS
  <2>2. PICK s : s = f[k]
    OBVIOUS
  <2>3. f[k + 1] = PassStep(s, find, by)
    <3>1. PICK n : n = k + 1
      OBVIOUS
    <3>2. n \in 0..index + 1 /\ n # 0 /\ n - 1 = k
      BY <2>1, <3>1
    <3>3. f[n] = PassStep(f[n - 1], find, by)
      BY <1>4, <3>2, Zenon
    <3> QED BY <2>2, <3>1, <3>2, <3>3, Zenon
  <2>4. PICK t \in Seq(A!Chars) : t = s.text
    BY <2>1, <2>2
  <2>5. PICK p : p = A!Greatest({q \in A!Matches(t, find) : q <= s.index})
    OBVIOUS
  <2>6. p = -1 \/ (p \in Nat /\ p + Len(find) <= Len(t))
    <3>1. PICK M1 : M1 = {q \in A!Matches(t, find) : q <= s.index}
      OBVIOUS
    <3>2. M1 \in SUBSET A!Matches(t, find) /\ p = A!Greatest(M1)
      BY <2>5, <3>1
    <3> QED BY <3>2, MatchFacts
  <2>7. CASE s.index < 0 \/ p < 0
    <3>1. f[k + 1] = s
      BY <2>3, <2>4, <2>5, <2>7, Zenon DEF PassStep
    <3> QED BY <2>1, <2>2, <3>1
  <2>8. CASE ~(s.index < 0 \/ p < 0)
    <3>1. f[k + 1] = [text |-> SubSeq(t, 1, p) \o by \o SubSeq(t, p + Len(find) + 1, Len(t)),
                      index |-> p - 1]
      BY <2>3, <2>4, <2>5, <2>8, Zenon DEF PassStep
    <3>2. p \in Nat /\ p <= Len(t) /\ p + Len(find) \in Nat /\ p + Len(find) <= Len(t)
          /\ Len(t) \in Nat /\ p - 1 \in Int
      <4>1. Len(t) \in Nat /\ Len(find) \in Nat /\ p \in Nat
        BY <2>6, <2>8
      <4> QED BY <2>6, <2>8, <4>1
    <3>3. PICK tail \in Seq(A!Chars) : tail = SubSeq(t, p + Len(find) + 1, Len(t))
      <4>1. PICK l \in Nat : l = p + Len(find)
        BY <3>2
      <4>2. SubSeq(t, l + 1, Len(t)) \in Seq(A!Chars)
        BY <3>2, <4>1, SubSeqFacts
      <4> QED BY <4>1, <4>2
    <3>4. PICK head \in Seq(A!Chars) : head = SubSeq(t, 1, p)
      BY <3>2, FrontFacts
    <3>5. PICK both \in Seq(A!Chars) : both = head \o by
      BY JoinedSeq
    <3>6. both \o tail \in Seq(A!Chars)
      BY JoinedSeq
    <3>7. f[k + 1] = [text |-> both \o tail, index |-> p - 1]
      BY <3>1, <3>3, <3>4, <3>5, Zenon
    <3> QED BY <3>2, <3>6, <3>7
  <2> QED BY <2>7, <2>8
<1>7. index + 1 \in K
  <2> HIDE DEF K
  <2>1. K = Nat
    <3>1. K \in SUBSET Nat
      BY DEF K
    <3> QED BY <1>5, <1>6, <3>1, CountUp
  <2> QED BY <2>1
<1> QED BY <1>3, <1>7

-----------------------------------------------------------------------------
(* What each call leaves.                                                  *)

(* Every String is sound as long as no byte outside a buffer was touched.  *)
StringInv ==
    /\ str = [x \in Names |-> str[x]] /\ broken \in BOOLEAN
    /\ ~broken => \A x \in Names : Sound(str[x])

(* A step of one String.                                                   *)
Kept(x) ==
    /\ str' = [y \in Names |-> str'[y]] /\ broken' \in BOOLEAN
    /\ \A y \in Names \ {x} : str'[y] = str[y]
    /\ ~broken' => Sound(str'[x])

LEMMA KeptKeeps ==
    ASSUME StringInv, ~broken, NEW x \in Names, Kept(x)
    PROVE  StringInv'
BY Zenon DEF StringInv, Kept

LEMMA PutAt ==
    ASSUME StringInv, ~broken, NEW x \in Names, NEW s, str' = [str EXCEPT ![x] = s],
           broken' \in BOOLEAN, ~broken' => Sound(s)
    PROVE  Kept(x) /\ str'[x] = s
<1>1. str = [y \in Names |-> str[y]]
  BY DEF StringInv
<1>2. str'[x] = s /\ (\A y \in Names \ {x} : str'[y] = str[y]) /\ str' = [y \in Names |-> str'[y]]
  BY <1>1
<1> QED BY <1>2 DEF Kept

LEMMA ChangeKept ==
    ASSUME StringInv, ~broken, NEW x \in Names, NEW s, Sound(s), A!Change(x, s)
    PROVE  Kept(x) /\ str'[x] = s
<1>1. str' = [str EXCEPT ![x] = s] /\ broken' \in BOOLEAN
  BY DEF A!Change, StringInv
<1> QED BY <1>1, PutAt

LEMMA StaysKept ==
    ASSUME StringInv, ~broken, NEW x \in Names, A!Change(x, str[x])
    PROVE  Kept(x) /\ str'[x] = str[x]
<1>1. Sound(str[x])
  BY DEF StringInv
<1> QED BY <1>1, ChangeKept

LEMMA InvalidKept ==
    ASSUME StringInv, ~broken, NEW x \in Names, A!Change(x, A!Null)
    PROVE  Kept(x) /\ str'[x] = A!Null /\ ~A!Valid(str'[x])
<1>1. Kept(x) /\ str'[x] = A!Null
  BY NullSound, ChangeKept
<1> QED BY <1>1 DEF A!Null, A!Valid

LEMMA AssignTextKept ==
    ASSUME StringInv, ~broken, NEW x \in Names, NEW t \in Seq(A!Chars), A!AssignText(x, t)
    PROVE  Kept(x) /\ (A!Valid(str'[x]) => A!Text(str'[x]) = t)
<1>1. Sound(str[x])
  BY DEF StringInv
<1>2. CASE A!Change(x, A!Copied(str[x], t))
  <2>1. Sound(A!Copied(str[x], t)) /\ A!Text(A!Copied(str[x], t)) = t
    BY <1>1, CopiedSound
  <2>2. Kept(x) /\ str'[x] = A!Copied(str[x], t)
    BY <1>2, <2>1, ChangeKept
  <2> QED BY <2>1, <2>2
<1>3. CASE A!Change(x, A!Null)
  BY <1>3, InvalidKept
<1> QED BY <1>2, <1>3 DEF A!AssignText

LEMMA AssignKept ==
    ASSUME StringInv, ~broken, NEW x \in Names, NEW y \in Names, A!Assign(x, y)
    PROVE  Kept(x)
<1>1. CASE A!AssignText(x, A!Text(str[y]))
  <2>1. A!Text(str[y]) \in Seq(A!Chars)
    BY TextFacts DEF StringInv
  <2> QED BY <1>1, <2>1, AssignTextKept
<1>2. CASE A!Change(x, A!Null)
  BY <1>2, InvalidKept
<1> QED BY <1>1, <1>2, Zenon DEF A!Assign

LEMMA ConcatTextKept ==
    ASSUME StringInv, ~broken, NEW x \in Names, NEW t \in Seq(A!Chars), NEW alias \in BOOLEAN,
           A!ConcatText(x, t, alias)
    PROVE  /\ Kept(x)
           /\ ~A!Valid(str'[x]) \/ A!Text(str'[x]) \in {A!Text(str[x]), A!Text(str[x]) \o t}
<1>1. Sound(str[x])
  BY DEF StringInv
<1>2. CASE A!Change(x, str[x])
  BY <1>2, StaysKept
<1>3. CASE A!Change(x, A!Null)
  BY <1>3, InvalidKept
<1>4. CASE /\ str' = [str EXCEPT ![x] = A!Concatenated(@, t)]
           /\ broken' = (alias /\ ~A!Enough(str[x], str[x].len + Len(t)))
  <2>1. PICK s : s = A!Concatenated(str[x], t)
    OBVIOUS
  <2>2. Sound(s) /\ A!Text(s) = A!Text(str[x]) \o t
    BY <1>1, <2>1, ConcatenatedSound
  <2>3. str' = [str EXCEPT ![x] = s]
    BY <1>4, <2>1
  <2>4. broken' \in BOOLEAN
    BY <1>4
  <2>5. Kept(x) /\ str'[x] = s
    BY <2>2, <2>3, <2>4, PutAt
  <2> QED BY <2>2, <2>5
<1> QED BY <1>2, <1>3, <1>4, Zenon DEF A!ConcatText

LEMMA ConcatKept ==
    ASSUME StringInv, ~broken, NEW x \in Names, NEW y \in Names, A!Concat(x, y)
    PROVE  Kept(x)
<1>1. CASE A!ConcatText(x, A!Text(str[y]), x = y)
  <2>1. A!Text(str[y]) \in Seq(A!Chars) /\ (x = y) \in BOOLEAN
    BY TextFacts DEF StringInv
  <2> QED BY <1>1, <2>1, ConcatTextKept
<1>2. CASE A!Change(x, str[x])
  BY <1>2, StaysKept
<1> QED BY <1>1, <1>2, Zenon DEF A!Concat

LEMMA ClearKept ==
    ASSUME StringInv, ~broken, NEW x \in Names, A!Clear(x)
    PROVE  Kept(x)
<1>1. Sound(str[x]) /\ str[x].buf \in Seq(Bytes)
  BY DEF StringInv, Sound
<1>2. PICK b : b = IF A!Valid(str[x]) THEN A!Put(str[x].buf, 0, <<>>) ELSE <<>>
  OBVIOUS
<1>3. A!Change(x, [buf |-> b, len |-> 0])
  BY <1>2 DEF A!Clear
<1>4. Sound([buf |-> b, len |-> 0])
  <2>1. CASE A!Valid(str[x])
    <3>1. PICK n \in Nat : n = 0
      OBVIOUS
    <3>2. PICK none \in Seq(A!Chars) : none = <<>>
      <4>1. <<>> \in Seq(A!Chars)
        OBVIOUS
      <4> QED BY <4>1, Zenon
    <3>3. Len(none) = 0 /\ n + Len(none) = 0 /\ (\A i \in 1..n : str[x].buf[i] \in A!Chars)
          /\ Len(str[x].buf) \in Nat /\ Len(str[x].buf) > 0
      <4>1. Len(none) = 0
        BY <3>2
      <4>2. Len(str[x].buf) \in Nat /\ Len(str[x].buf) > 0
        BY <1>1, <2>1 DEF A!Valid
      <4> QED BY <3>1, <4>1, <4>2
    <3>4. Sound([buf |-> A!Put(str[x].buf, n, none), len |-> n + Len(none)])
      BY <1>1, <3>3, PutSound
    <3> QED BY <1>2, <2>1, <3>1, <3>2, <3>3, <3>4
  <2>2. CASE ~A!Valid(str[x])
    BY <1>2, <2>2, NullSound DEF A!Null
  <2> QED BY <2>1, <2>2
<1> QED BY <1>3, <1>4, ChangeKept

LEMMA ReserveKept ==
    ASSUME StringInv, ~broken, NEW x \in Names, A!Reserve(x, MaxLen)
    PROVE  Kept(x) /\ A!Text(str'[x]) = A!Text(str[x])
<1>1. Sound(str[x]) /\ MaxLen \in Nat
  BY StringAssumption DEF StringInv
<1>2. CASE A!Change(x, str[x])
  BY <1>2, StaysKept
<1>3. PICK s : s = A!Reserved(str[x], MaxLen)
  OBVIOUS
<1>4. /\ s.buf \in Seq(Bytes) /\ s.len = str[x].len /\ MaxLen < Len(s.buf)
      /\ s = [buf |-> s.buf, len |-> s.len]
      /\ Len(str[x].buf) \in Nat /\ Len(str[x].buf) <= Len(s.buf)
      /\ \A i \in 1..Len(str[x].buf) : s.buf[i] = str[x].buf[i]
  BY <1>1, <1>3, ReservedFacts
<1>5. CASE A!Change(x, s) /\ (A!Enough(str[x], MaxLen) \/ s.len > 0)
  <2>1. CASE A!Enough(str[x], MaxLen)
    <3>1. s = str[x]
      BY <1>3, <2>1 DEF A!Reserved
    <3> QED BY <1>2, <1>5, <3>1
  <2>2. CASE s.len > 0
    <3>1. \A i \in 1..str[x].len + 1 : s.buf[i] = str[x].buf[i]
      <4>1. str[x].len < Len(str[x].buf) /\ str[x].len \in Nat
        BY <1>1, <1>4, <2>2 DEF Sound, Holds
      <4>2. \A i \in 1..str[x].len + 1 : i \in 1..Len(str[x].buf)
        BY <1>4, <4>1
      <4> QED BY <1>4, <4>2
    <3>2. Holds(s.buf, s.len) /\ s.len \in Nat
      <4>1. Holds(str[x].buf, str[x].len) /\ str[x].len \in Nat
        BY <1>1, <1>4, <2>2 DEF Sound
      <4>2. \A i \in 1..str[x].len : i \in 1..str[x].len + 1
        BY <4>1
      <4>3. str[x].len + 1 \in 1..str[x].len + 1 /\ str[x].len < Len(s.buf)
        BY <1>4, <4>1 DEF Holds
      <4> QED BY <1>4, <3>1, <4>1, <4>2, <4>3 DEF Holds
    <3>3. Sound(s)
      BY <1>4, <3>2, MadeSound
    <3>4. Kept(x) /\ str'[x] = s
      BY <1>5, <3>3, ChangeKept
    <3>5. A!Text(s) = A!Text(str[x])
      <4>1. /\ A!Text(s) \in Seq(A!Chars) /\ Len(A!Text(s)) = s.len
            /\ \A i \in 1..s.len : A!Text(s)[i] = s.buf[i]
        BY <3>3, TextFacts
      <4>2. /\ A!Text(str[x]) \in Seq(A!Chars) /\ Len(A!Text(str[x])) = s.len
            /\ \A i \in 1..s.len : A!Text(str[x])[i] = str[x].buf[i]
        BY <1>1, <1>4, TextFacts
      <4>3. \A i \in 1..s.len : i \in 1..s.len + 1
        BY <3>2
      <4> QED BY <1>4, <3>1, <4>1, <4>2, <4>3, SameSeq
    <3> QED BY <3>4, <3>5
  <2> QED BY <1>5, <2>1, <2>2
<1>6. CASE A!Change(x, [s EXCEPT !.buf[1] = A!Nul]) /\ ~(s.len > 0)
  <2>1. PICK b : b = [s.buf EXCEPT ![1] = A!Nul]
    OBVIOUS
  <2>2. b \in Seq(Bytes) /\ Len(b) = Len(s.buf) /\ b[1] = A!Nul /\ 1 \in DOMAIN b
    <3>1. A!Nul \in Bytes /\ 1 \in 1..Len(s.buf)
      <4>1. Len(s.buf) \in Nat
        BY <1>4
      <4>2. 1 \in 1..Len(s.buf)
        BY <1>1, <1>4, <4>1
      <4> QED BY <4>2, CharFacts
    <3>2. Len(b) = Len(s.buf) /\ b[1] = A!Nul /\ DOMAIN b = 1..Len(s.buf)
      BY <1>4, <2>1, <3>1
    <3>3. b = [i \in 1..Len(s.buf) |-> b[i]]
      BY <1>4, <2>1
    <3>4. \A i \in 1..Len(s.buf) : b[i] \in Bytes
      BY <1>4, <2>1, <3>1
    <3>5. b \in Seq(Bytes)
      BY <1>1, <1>4, <3>3, <3>4, MadeSeq
    <3> QED BY <3>1, <3>2, <3>5
  <2>3. s.len = 0
    BY <1>1, <1>4, <1>6 DEF Sound
  <2>4. [s EXCEPT !.buf[1] = A!Nul] = [buf |-> b, len |-> 0]
    BY <1>4, <2>1, <2>3
  <2>5. Sound([buf |-> b, len |-> 0])
    <3>1. Holds(b, 0)
      BY <2>2 DEF Holds
    <3> QED BY <2>2, <3>1, MadeSound
  <2>6. Kept(x) /\ str'[x] = [buf |-> b, len |-> 0]
    BY <1>6, <2>4, <2>5, ChangeKept
  <2>7. A!Text(str'[x]) = <<>> /\ A!Text(str[x]) = <<>>
    BY <1>4, <2>3, <2>6, <2>2, <1>1 DEF A!Text, Sound
  <2> QED BY <2>6, <2>7
<1> QED BY <1>2, <1>3, <1>4, <1>5, <1>6, Zenon DEF A!Reserve

(* What is between two positions of a String's text.                       *)
LEMMA CutFacts ==
    ASSUME NEW s, Sound(s), NEW l \in Nat, NEW r \in Nat, l <= r, r <= s.len
    PROVE  /\ SubSeq(s.buf, l + 1, r) \in Seq(A!Chars) /\ Len(SubSeq(s.buf, l + 1, r)) = r - l
           /\ \A i \in 1..r - l : SubSeq(s.buf, l + 1, r)[i] = s.buf[l + i]
           /\ SubSeq(s.buf, l + 1, r) = SubSeq(A!Text(s), l + 1, r)
<1>1. PICK b \in Seq(Bytes) : b = s.buf
  BY DEF Sound
<1>2. PICK t \in Seq(A!Chars) : t = A!Text(s)
  BY TextFacts
<1>3. s.len \in Nat /\ Len(t) = s.len /\ (\A i \in 1..s.len : t[i] = b[i]) /\ s.len <= Len(b)
  <2>1. s.len \in Nat /\ Len(b) \in Nat /\ (s.len > 0 => s.len < Len(b))
    BY <1>1 DEF Sound, Holds
  <2> QED BY <1>1, <1>2, <2>1, TextFacts
<1>4. PICK u \in Seq(A!Chars) : u = SubSeq(t, l + 1, r) /\ Len(u) = r - l
                                /\ \A i \in 1..r - l : u[i] = t[l + i]
  <2>1. r <= Len(t)
    BY <1>3
  <2>2. /\ SubSeq(t, l + 1, r) \in Seq(A!Chars) /\ Len(SubSeq(t, l + 1, r)) = r - l
        /\ \A i \in 1..r - l : SubSeq(t, l + 1, r)[i] = t[l + i]
    BY <2>1, SubSeqFacts
  <2> QED BY <2>2, Zenon
<1>5. Len(b) \in Nat /\ r <= Len(b)
  BY <1>3
<1>6. PICK v \in Seq(Bytes) : v = SubSeq(b, l + 1, r) /\ Len(v) = r - l
                              /\ \A i \in 1..r - l : v[i] = b[l + i]
  <2>1. /\ SubSeq(b, l + 1, r) \in Seq(Bytes) /\ Len(SubSeq(b, l + 1, r)) = r - l
        /\ \A i \in 1..r - l : SubSeq(b, l + 1, r)[i] = b[l + i]
    BY <1>5, SubSeqFacts
  <2> QED BY <2>1, Zenon
<1>7. \A i \in 1..r - l : l + i \in 1..s.len
  BY <1>3
<1>8. u \in Seq(Bytes) /\ \A i \in 1..Len(u) : u[i] = v[i]
  BY <1>3, <1>4, <1>6, <1>7, CharsAreBytes
<1>9. u = v
  BY <1>4, <1>6, <1>8, SameSeq
<1> QED BY <1>1, <1>2, <1>4, <1>6, <1>9

LEMMA MoveKept ==
    ASSUME StringInv, ~broken, NEW x \in Names, NEW y \in Names, A!Move(x, y)
    PROVE  StringInv' /\ (~broken' => A!Text(str'[x]) = A!Text(str[y]))
<1> DEFINE fits == A!Enough(str[x], str[y].len) /\ A!Valid(str[y])
<1>1. /\ x # y /\ str = [z \in Names |-> str[z]] /\ \A z \in Names : Sound(str[z])
      /\ broken' = (A!Valid(str[y]) /\ A!Enough(str[x], str[y].len)
                    /\ Len(A!CStr(str[y].buf)) > A!Capacity(str[x]))
  BY DEF A!Move, StringInv
<1>2. Sound(str[x]) /\ Sound(str[y]) /\ broken' \in BOOLEAN
  BY <1>1
<1>3. CASE ~fits
  <2>1. str' = [str EXCEPT ![x] = str[y], ![y] = A!Null]
    BY <1>3, Zenon DEF A!Move
  <2>2. str' = [z \in Names |-> IF z = y THEN A!Null ELSE IF z = x THEN str[y] ELSE str[z]]
    BY <1>1, <2>1
  <2>3. str'[x] = str[y] /\ str' = [z \in Names |-> str'[z]]
    BY <1>1, <2>2
  <2>4. \A z \in Names : Sound(str'[z])
    BY <1>1, <2>2, NullSound
  <2> QED BY <1>2, <2>3, <2>4 DEF StringInv
<1>4. CASE fits
  <2>1. PICK c : c = A!CStr(str[y].buf)
    OBVIOUS
  <2>2. PICK s : s = [buf |-> A!Put(str[x].buf, 0, c), len |-> str[y].len]
    OBVIOUS
  <2>3. PICK left : left = [str[y] EXCEPT !.len = 0]
    OBVIOUS
  <2>4. str' = [str EXCEPT ![x] = s, ![y] = left]
    <3>1. str' = [str EXCEPT ![x] = [buf |-> A!Put(@.buf, 0, A!CStr(str[y].buf)), len |-> str[y].len],
                             ![y].len = 0]
      BY <1>4, Zenon DEF A!Move
    <3> QED BY <1>1, <2>1, <2>2, <2>3, <3>1
  <2>5. str' = [z \in Names |-> IF z = y THEN left ELSE IF z = x THEN s ELSE str[z]]
    BY <1>1, <2>4
  <2>6. str'[x] = s /\ str' = [z \in Names |-> str'[z]]
    BY <1>1, <2>5
  <2>7. Sound(left)
    <3>1. left = [buf |-> str[y].buf, len |-> 0] /\ left.buf = str[y].buf /\ left.len = 0
      BY <1>2, <2>3 DEF Sound
    <3> QED BY <1>2, <3>1 DEF Sound
  <2>8. ASSUME ~broken' PROVE Sound(s) /\ A!Text(s) = A!Text(str[y])
    <3>1. PICK b \in Seq(Bytes) : b = str[x].buf
      BY <1>2 DEF Sound
    <3>2. Len(b) \in Nat /\ b # <<>> /\ Len(b) - 1 >= str[y].len /\ str[y].buf # <<>>
      BY <1>4, <3>1 DEF A!Enough, A!Valid, A!Capacity
    <3>3. str[y].buf \in Seq(Bytes) /\ (\E i \in DOMAIN str[y].buf : str[y].buf[i] = A!Nul)
          /\ str[y].len \in Nat
      BY <1>2, <3>2 DEF Sound
    <3>4. c \in Seq(Bytes \ {A!Nul})
      BY <2>1, <3>3, FirstNul
    <3>5. Len(c) \in Nat /\ c \in Seq(Bytes)
      <4>1. Bytes \ {A!Nul} \subseteq Bytes
        OBVIOUS
      <4> QED BY <3>4, <4>1, WiderSeq
    <3>6. Len(c) < Len(b)
      <4>1. ~(Len(c) > Len(b) - 1)
        BY <1>1, <1>4, <2>1, <2>8, <3>1 DEF A!Capacity
      <4> QED BY <3>2, <3>5, <4>1
    <3>7. PICK n \in Nat : n = 0
      OBVIOUS
    <3>8. CASE str[y].len > 0
      <4>1. c = A!Text(str[y]) /\ c \in Seq(A!Chars) /\ Len(c) = str[y].len
        BY <1>2, <2>1, <3>8, CStrIsText, TextFacts
      <4>2. n + Len(c) < Len(b) /\ n + Len(c) = str[y].len /\ \A i \in 1..n : b[i] \in A!Chars
        BY <3>5, <3>6, <3>7, <4>1
      <4>3. PICK w : w = [buf |-> A!Put(b, n, c), len |-> n + Len(c)]
        OBVIOUS
      <4>4. /\ Sound(w) /\ A!Valid(w) /\ Len(A!Text(w)) = n + Len(c)
            /\ \A i \in 1..Len(c) : A!Text(w)[n + i] = c[i]
        BY <4>1, <4>2, <4>3, PutSound
      <4>5. A!Text(w) \in Seq(A!Chars) /\ Len(A!Text(w)) = Len(c)
            /\ \A i \in 1..Len(A!Text(w)) : A!Text(w)[i] = c[i]
        BY <3>5, <3>7, <4>4, TextFacts
      <4>6. A!Text(w) = c
        BY <4>1, <4>5, SameSeq
      <4>7. w = s
        BY <2>2, <3>1, <3>7, <4>2, <4>3
      <4> QED BY <4>1, <4>4, <4>6, <4>7
    <3>9. CASE str[y].len = 0
      <4>1. PICK p : p = A!Put(b, n, c)
        OBVIOUS
      <4>2. p \in Seq(Bytes) /\ Len(p) = Len(b) /\ p[n + Len(c) + 1] = A!Nul
        <5>1. n + Len(c) < Len(b)
          BY <3>5, <3>6, <3>7
        <5> QED BY <3>5, <4>1, <5>1, PutFacts
      <4>3. n + Len(c) + 1 \in DOMAIN p
        BY <3>5, <3>6, <3>7, <4>2
      <4>4. s = [buf |-> p, len |-> 0] /\ s.buf = p /\ s.len = 0
        BY <2>2, <3>1, <3>7, <3>9, <4>1
      <4>5. Sound(s)
        BY <4>2, <4>3, <4>4 DEF Sound
      <4>6. A!Text(s) = A!Text(str[y])
        <5>1. A!Text(s) \in Seq(A!Chars) /\ Len(A!Text(s)) = 0
              /\ A!Text(str[y]) \in Seq(A!Chars) /\ Len(A!Text(str[y])) = 0
          BY <1>2, <3>9, <4>4, <4>5, TextFacts
        <5>2. A!Text(s) = <<>> /\ A!Text(str[y]) = <<>>
          BY <5>1
        <5> QED BY <5>2
      <4> QED BY <4>5, <4>6
    <3> QED BY <3>3, <3>8, <3>9
  <2>9. ~broken' => \A z \in Names : Sound(str'[z])
    BY <1>1, <2>5, <2>7, <2>8
  <2> QED BY <1>2, <2>6, <2>8, <2>9 DEF StringInv
<1> QED BY <1>3, <1>4

(* A String of which only the text in its buffer changes.                  *)
LEMMA PutBackKept ==
    ASSUME StringInv, ~broken, NEW x \in Names, NEW at \in Nat, NEW t \in Seq(A!Chars),
           at + Len(t) <= str[x].len, str[x].len > 0,
           A!Change(x, [buf |-> A!Put(str[x].buf, at, t), len |-> at + Len(t)])
    PROVE  Kept(x) /\ A!Text(str'[x]) = SubSeq(A!Text(str[x]), 1, at) \o t
<1>1. Sound(str[x]) /\ Holds(str[x].buf, str[x].len) /\ str[x].len \in Nat
  BY DEF StringInv, Sound
<1>2. PICK b \in Seq(Bytes) : b = str[x].buf
  BY <1>1 DEF Sound
<1>3. Len(b) \in Nat /\ Len(t) \in Nat /\ str[x].len < Len(b) /\ \A i \in 1..str[x].len : b[i] \in A!Chars
  <2>1. Len(b) \in Nat /\ Len(t) \in Nat
    OBVIOUS
  <2>2. Holds(b, str[x].len)
    BY <1>1, <1>2, Zenon
  <2> QED BY <2>1, <2>2, Zenon DEF Holds
<1>4. at + Len(t) < Len(b) /\ \A i \in 1..at : i \in 1..str[x].len /\ b[i] \in A!Chars
  BY <1>1, <1>3
<1>5. PICK s : s = [buf |-> A!Put(b, at, t), len |-> at + Len(t)]
  OBVIOUS
<1>6. /\ Sound(s) /\ Len(A!Text(s)) = at + Len(t)
      /\ \A i \in 1..at : A!Text(s)[i] = b[i]
      /\ \A i \in 1..Len(t) : A!Text(s)[at + i] = t[i]
  BY <1>4, <1>5, PutSound
<1>7. Kept(x) /\ str'[x] = s
  <2>1. A!Change(x, s)
    BY <1>2, <1>5
  <2> QED BY <1>6, <2>1, ChangeKept
<1>8. PICK u \in Seq(A!Chars) : u = A!Text(s)
  BY <1>6, TextFacts
<1>9. PICK old \in Seq(A!Chars) : old = A!Text(str[x])
  BY <1>1, TextFacts
<1>10. Len(old) = str[x].len /\ \A i \in 1..str[x].len : old[i] = b[i]
  BY <1>1, <1>2, <1>9, TextFacts
<1>11. PICK front \in Seq(A!Chars) : front = SubSeq(old, 1, at) /\ Len(front) = at
                                     /\ \A i \in 1..at : front[i] = old[i]
  <2>1. at <= Len(old)
    BY <1>1, <1>3, <1>10
  <2>2. /\ SubSeq(old, 1, at) \in Seq(A!Chars) /\ Len(SubSeq(old, 1, at)) = at
        /\ \A i \in 1..at : SubSeq(old, 1, at)[i] = old[i]
    BY <2>1, FrontFacts
  <2> QED BY <2>2, Zenon
<1>12. /\ Len(u) = Len(front) + Len(t) /\ (\A i \in 1..Len(front) : u[i] = front[i])
       /\ \A i \in 1..Len(t) : u[Len(front) + i] = t[i]
  BY <1>4, <1>6, <1>8, <1>10, <1>11
<1>13. u = front \o t
  BY <1>12, JoinsTo
<1> QED BY <1>7, <1>8, <1>9, <1>11, <1>13

LEMMA NoneBefore ==
    ASSUME NEW T, NEW s \in Seq(T), NEW t \in Seq(T)
    PROVE  SubSeq(s, 1, 0) \o t = t
<1>1. PICK n \in Nat : n = 0
  OBVIOUS
<1>2. PICK front \in Seq(T) : front = SubSeq(s, 1, n) /\ Len(front) = 0
  <2>1. n <= Len(s)
    BY <1>1
  <2>2. SubSeq(s, 1, n) \in Seq(T) /\ Len(SubSeq(s, 1, n)) = n
    BY <2>1, FrontFacts
  <2> QED BY <1>1, <2>2, Zenon
<1>3. front \o t = t
  <2>1. /\ front \o t \in Seq(T) /\ Len(front \o t) = 0 + Len(t)
        /\ Len(t) \in Nat /\ \A i \in 1..Len(t) : (front \o t)[0 + i] = t[i]
    BY <1>2, JoinedSeq
  <2>2. Len(front \o t) = Len(t) /\ \A i \in 1..Len(t) : 0 + i = i
    BY <2>1
  <2>3. \A i \in 1..Len(t) : (front \o t)[i] = t[i]
    BY <2>1, <2>2
  <2> QED BY <2>1, <2>2, <2>3, SameSeq
<1> QED BY <1>1, <1>2, <1>3

LEMMA RemoveKept ==
    ASSUME StringInv, ~broken, NEW x \in Names, NEW index \in Nat, NEW count \in Nat,
           A!Remove(x, index, count)
    PROVE  /\ Kept(x)
           /\ count = 1 =>
                A!Text(str'[x]) =
                    IF index < Len(A!Text(str[x]))
                    THEN SubSeq(A!Text(str[x]), 1, index)
                            \o SubSeq(A!Text(str[x]), index + 2, Len(A!Text(str[x])))
                    ELSE A!Text(str[x])
<1> DEFINE len == str[x].len
           n == IF count > len - index THEN len - index ELSE count
           rest == SubSeq(str[x].buf, index + n + 1, len)
<1>1. Sound(str[x]) /\ len \in Nat /\ Len(A!Text(str[x])) = len
  BY TextFacts DEF StringInv, Sound
<1>2. CASE index >= len \/ count = 0
  <2>1. A!Change(x, str[x])
    BY <1>2, Zenon DEF A!Remove
  <2>2. Kept(x) /\ str'[x] = str[x]
    BY <2>1, StaysKept
  <2>3. count = 1 => ~(index < len)
    BY <1>1, <1>2
  <2> QED BY <1>1, <2>2, <2>3, Zenon
<1>3. CASE ~(index >= len \/ count = 0)
  <2>1. n \in Nat /\ index + n <= len /\ index < len /\ n <= len /\ (count = 1 => n = 1)
    <3>1. index < len /\ count > 0
      BY <1>1, <1>3
    <3> QED BY <1>1, <3>1
  <2>2. A!Change(x, [buf |-> A!Put(str[x].buf, index, rest), len |-> len - n])
    BY <1>3, Zenon DEF A!Remove
  <2> HIDE DEF n
  <2>3. PICK l \in Nat : l = index + n
    BY <2>1
  <2>4. PICK t \in Seq(A!Chars) : t = rest /\ Len(t) = len - l /\ t = SubSeq(A!Text(str[x]), l + 1, len)
    <3>1. PICK r \in Nat : r = len
      BY <1>1
    <3>2. l <= r /\ r <= str[x].len
      BY <2>1, <2>3, <3>1
    <3>3. /\ SubSeq(str[x].buf, l + 1, r) \in Seq(A!Chars)
          /\ Len(SubSeq(str[x].buf, l + 1, r)) = r - l
          /\ SubSeq(str[x].buf, l + 1, r) = SubSeq(A!Text(str[x]), l + 1, r)
      BY <1>1, <3>2, CutFacts
    <3>4. rest = SubSeq(str[x].buf, l + 1, r)
      BY <2>3, <3>1
    <3> HIDE DEF rest, len
    <3>5. /\ rest \in Seq(A!Chars) /\ Len(rest) = len - l
          /\ rest = SubSeq(A!Text(str[x]), l + 1, len)
      BY <3>1, <3>3, <3>4
    <3>6. PICK u \in Seq(A!Chars) : u = rest
      BY <3>5
    <3>7. u = rest /\ Len(u) = len - l /\ u = SubSeq(A!Text(str[x]), l + 1, len)
      BY <3>5, <3>6
    <3> QED BY <3>7
  <2>5. index + Len(t) = len - n /\ index + Len(t) <= len /\ len > 0
    <3>1. Len(t) = len - l /\ Len(t) \in Nat
      BY <2>4
    <3> HIDE DEF len
    <3> QED BY <1>1, <2>1, <2>3, <3>1
  <2>6. A!Change(x, [buf |-> A!Put(str[x].buf, index, t), len |-> index + Len(t)])
    BY <2>2, <2>4, <2>5
  <2>7. Kept(x) /\ A!Text(str'[x]) = SubSeq(A!Text(str[x]), 1, index) \o t
    <3> HIDE DEF len
    <3>1. index + Len(t) <= str[x].len /\ str[x].len > 0
      BY <2>5 DEF len
    <3> QED BY <2>6, <3>1, PutBackKept
  <2>8. count = 1 => l + 1 = index + 2
    BY <2>1, <2>3
  <2> QED BY <1>1, <2>1, <2>4, <2>7, <2>8, Zenon
<1> QED BY <1>2, <1>3

LEMMA SetCharAtKept ==
    ASSUME StringInv, ~broken, NEW x \in Names, NEW i \in Nat, NEW c \in A!Chars,
           A!SetCharAt(x, i, c)
    PROVE  Kept(x)
<1>1. Sound(str[x]) /\ str[x].len \in Nat
  BY DEF StringInv, Sound
<1>2. CASE i < str[x].len
  <2>1. PICK old \in Seq(Bytes) : old = str[x].buf
    BY <1>1 DEF Sound
  <2>2. PICK n \in Nat : n = str[x].len
    BY <1>1
  <2>3. PICK b : b = [old EXCEPT ![i + 1] = c]
    OBVIOUS
  <2>4. str[x] = [buf |-> old, len |-> n] /\ Holds(old, n)
    <3>1. str[x].len > 0
      BY <1>1, <1>2
    <3> QED BY <1>1, <2>1, <2>2, <3>1, Zenon DEF Sound
  <2>5. Len(old) \in Nat /\ n < Len(old) /\ i + 1 \in 1..n /\ c \in Bytes
    <3>1. Len(old) \in Nat /\ c \in Bytes
      <4>1. c \in Bytes
        BY CharFacts
      <4> QED BY <4>1
    <3>2. n < Len(old)
      BY <2>4, Zenon DEF Holds
    <3> QED BY <1>2, <2>2, <3>1, <3>2
  <2>6. i + 1 \in 1..Len(old)
    BY <2>5
  <2>7. b = [j \in 1..Len(old) |-> IF j = i + 1 THEN c ELSE old[j]]
    <3>1. old = [j \in 1..Len(old) |-> old[j]]
      OBVIOUS
    <3> QED BY <2>3, <3>1
  <2>8. b \in Seq(Bytes) /\ Len(b) = Len(old)
    <3>1. b = [j \in 1..Len(old) |-> b[j]]
      BY <2>7
    <3>2. \A j \in 1..Len(old) : b[j] \in Bytes
      <4>1. \A j \in 1..Len(old) : old[j] \in Bytes
        OBVIOUS
      <4> QED BY <2>5, <2>7, <4>1
    <3> QED BY <2>5, <3>1, <3>2, MadeSeq
  <2>9. Holds(b, n)
    <3>1. \A j \in 1..n : j \in 1..Len(old)
      BY <2>5
    <3>2. \A j \in 1..n : b[j] \in A!Chars
      <4>1. \A j \in 1..n : old[j] \in A!Chars
        BY <2>4, Zenon DEF Holds
      <4> QED BY <2>7, <3>1, <4>1
    <3>3. n + 1 \in 1..Len(old) /\ n + 1 # i + 1
      BY <2>5
    <3>4. b[n + 1] = A!Nul
      BY <2>4, <2>7, <3>3, Zenon DEF Holds
    <3> QED BY <2>5, <2>8, <3>2, <3>4 DEF Holds
  <2>10. Sound([buf |-> b, len |-> n])
    BY <2>8, <2>9, MadeSound
  <2>11. [str[x] EXCEPT !.buf[i + 1] = c] = [buf |-> b, len |-> n]
    <3>1. PICK s : s = str[x]
      OBVIOUS
    <3>2. s = [buf |-> old, len |-> n]
      BY <2>4, <3>1
    <3>3. [s EXCEPT !.buf[i + 1] = c] = [buf |-> [old EXCEPT ![i + 1] = c], len |-> n]
      BY <3>2
    <3> QED BY <2>3, <3>1, <3>3, Zenon
  <2>12. A!Change(x, [buf |-> b, len |-> n])
    BY <1>2, <2>11, Zenon DEF A!SetCharAt
  <2> QED BY <2>10, <2>12, ChangeKept
<1>3. CASE ~(i < str[x].len)
  <2>1. A!Change(x, str[x])
    BY <1>3, Zenon DEF A!SetCharAt
  <2> QED BY <2>1, StaysKept
<1> QED BY <1>2, <1>3

LEMMA SwappedFacts ==
    ASSUME NEW T, NEW t \in Seq(T), NEW c \in T, NEW d \in T
    PROVE  A!Swapped(t, c, d) \in Seq(T) /\ Len(A!Swapped(t, c, d)) = Len(t)
<1>1. PICK u : u = A!Swapped(t, c, d)
  OBVIOUS
<1>2. u = [i \in 1..Len(t) |-> IF t[i] = c THEN d ELSE t[i]] /\ Len(t) \in Nat
  <2>1. DOMAIN t = 1..Len(t) /\ Len(t) \in Nat
    OBVIOUS
  <2> QED BY <1>1, <2>1, Zenon DEF A!Swapped
<1>3. u = [i \in 1..Len(t) |-> u[i]]
  BY <1>2
<1>4. \A i \in 1..Len(t) : u[i] \in T
  <2>1. \A i \in 1..Len(t) : t[i] \in T
    OBVIOUS
  <2> QED BY <1>2, <2>1
<1> QED BY <1>1, <1>2, <1>3, <1>4, MadeSeq

(* toLowerCase(), toUpperCase() and replace() of a character.              *)
LEMMA SwapKept ==
    ASSUME StringInv, ~broken, NEW x \in Names, NEW c \in A!Chars, NEW d \in A!Chars,
           A!ReplaceChar(x, c, d)
    PROVE  Kept(x) /\ A!Text(str'[x]) = A!Swapped(A!Text(str[x]), c, d)
<1>1. PICK s : s = str[x]
  OBVIOUS
<1>2. Sound(s)
  BY <1>1 DEF StringInv
<1>3. PICK b \in Seq(Bytes) : b = s.buf
  BY <1>2 DEF Sound
<1>4. PICK n \in Nat : n = s.len
  BY <1>2 DEF Sound
<1>5. s = [buf |-> b, len |-> n]
  BY <1>2, <1>3, <1>4 DEF Sound
<1>6. PICK old \in Seq(A!Chars) : old = A!Text(s) /\ Len(old) = n
  BY <1>2, <1>4, TextFacts
<1>7. CASE b = <<>>
  <2>1. ~A!Valid(s)
    BY <1>3, <1>7 DEF A!Valid
  <2>2. A!Change(x, str[x])
    BY <1>1, <2>1, Zenon DEF A!ReplaceChar, A!Rewrite
  <2>3. Kept(x) /\ str'[x] = s
    BY <1>1, <2>2, StaysKept
  <2>4. n = 0
    BY <1>2, <1>4, <2>1, TextFacts
  <2>5. PICK u \in Seq(A!Chars) : u = A!Swapped(old, c, d) /\ Len(u) = 0
    <3>1. A!Swapped(old, c, d) \in Seq(A!Chars) /\ Len(A!Swapped(old, c, d)) = Len(old)
      BY SwappedFacts
    <3> QED BY <1>6, <2>4, <3>1
  <2>6. u = old
    BY <1>6, <2>4, <2>5
  <2> QED BY <1>1, <1>6, <2>3, <2>5, <2>6
<1>8. CASE b # <<>>
  <2>1. A!Valid(s)
    BY <1>3, <1>8 DEF A!Valid
  <2>2. \E i \in DOMAIN b : b[i] = A!Nul
    BY <1>2, <1>3, <1>8 DEF Sound
  <2>3. PICK z \in Seq(Bytes \ {A!Nul}) : z = A!CStr(b)
    BY <2>2, FirstNul
  <2>4. Len(z) < Len(b) /\ Len(z) \in Nat /\ Len(b) \in Nat
    BY <2>2, <2>3, FirstNul
  <2>5. PICK t : t = A!Swapped(z, c, d)
    OBVIOUS
  <2>6. t \in Seq(Bytes \ {A!Nul}) /\ Len(t) = Len(z)
    <3>1. c \in Bytes \ {A!Nul} /\ d \in Bytes \ {A!Nul}
      BY CharFacts
    <3>2. PICK T : T = Bytes \ {A!Nul}
      OBVIOUS
    <3>3. z \in Seq(T) /\ c \in T /\ d \in T
      BY <3>1, <3>2
    <3>4. t \in Seq(T) /\ Len(t) = Len(z)
      BY <2>5, <3>3, SwappedFacts
    <3> QED BY <3>2, <3>4
  <2>7. A!Change(x, [s EXCEPT !.buf = A!Put(@, 0, t)])
    BY <1>1, <1>3, <2>1, <2>3, <2>5, Zenon DEF A!ReplaceChar, A!Rewrite
  <2>8. PICK p : p = A!Put(b, 0, t)
    OBVIOUS
  <2>9. A!Change(x, [buf |-> p, len |-> n])
    <3>1. [s EXCEPT !.buf = A!Put(@, 0, t)] = [buf |-> p, len |-> n]
      BY <1>5, <2>8
    <3> QED BY <2>7, <3>1
  <2>10. CASE n > 0
    <3>1. z = old
      BY <1>2, <1>3, <1>4, <1>6, <2>3, <2>10, CStrIsText
    <3>2. t \in Seq(A!Chars) /\ Len(t) = n
      BY <1>6, <2>5, <3>1, SwappedFacts
    <3>3. PICK at \in Nat : at = 0
      OBVIOUS
    <3>4. at + Len(t) <= s.len /\ s.len > 0 /\ at + Len(t) = n
      BY <1>4, <2>10, <3>2, <3>3
    <3>5. A!Change(x, [buf |-> A!Put(s.buf, at, t), len |-> at + Len(t)])
      BY <1>3, <2>8, <2>9, <3>3, <3>4
    <3>6. Kept(x) /\ A!Text(str'[x]) = SubSeq(old, 1, at) \o t
      BY <1>1, <1>6, <3>2, <3>4, <3>5, PutBackKept
    <3>7. SubSeq(old, 1, 0) \o t = t
      BY <3>2, NoneBefore
    <3> QED BY <1>1, <1>6, <2>5, <3>1, <3>3, <3>6, <3>7
  <2>11. CASE n = 0
    <3>1. t \in Seq(Bytes)
      <4>1. Bytes \ {A!Nul} \subseteq Bytes
        OBVIOUS
      <4> QED BY <2>6, <4>1, WiderSeq
    <3>2. p \in Seq(Bytes) /\ Len(p) = Len(b) /\ p[0 + Len(t) + 1] = A!Nul
      <4>1. 0 \in Nat /\ 0 + Len(t) < Len(b)
        BY <2>4, <2>6
      <4> QED BY <2>8, <3>1, <4>1, PutFacts
    <3>3. 0 + Len(t) + 1 \in DOMAIN p
      BY <2>4, <2>6, <3>2
    <3>4. PICK w : w = [buf |-> p, len |-> 0]
      OBVIOUS
    <3>5. w.buf = p /\ w.len = 0
      BY <3>4
    <3>6. Sound(w)
      BY <3>2, <3>3, <3>4, <3>5 DEF Sound
    <3>7. Kept(x) /\ str'[x] = w
      BY <2>9, <2>11, <3>4, <3>6, ChangeKept
    <3>8. A!Text(w) \in Seq(A!Chars) /\ Len(A!Text(w)) = 0
      BY <3>5, <3>6, TextFacts
    <3>9. PICK u \in Seq(A!Chars) : u = A!Swapped(old, c, d) /\ Len(u) = 0
      <4>1. A!Swapped(old, c, d) \in Seq(A!Chars) /\ Len(A!Swapped(old, c, d)) = Len(old)
        BY SwappedFacts
      <4> QED BY <1>6, <2>11, <4>1
    <3>10. A!Text(w) = u
      BY <3>8, <3>9
    <3> QED BY <1>1, <1>6, <3>7, <3>9, <3>10
  <2> QED BY <2>10, <2>11
<1> QED BY <1>7, <1>8

LEMMA CasesKept ==
    ASSUME StringInv, ~broken, NEW x \in Names
    PROVE  /\ A!ToLowerCase(x) => Kept(x) /\ A!Text(str'[x]) = A!Lower(A!Text(str[x]))
           /\ A!ToUpperCase(x) => Kept(x) /\ A!Text(str'[x]) = A!Upper(A!Text(str[x]))
<1>1. "A" \in A!Chars /\ "a" \in A!Chars
  BY CharFacts
<1>2. A!ToLowerCase(x) => A!ReplaceChar(x, "A", "a")
  BY Zenon DEF A!ToLowerCase, A!ReplaceChar, A!Lower, A!Swapped
<1>3. A!ToUpperCase(x) => A!ReplaceChar(x, "a", "A")
  BY Zenon DEF A!ToUpperCase, A!ReplaceChar, A!Upper, A!Swapped
<1>4. /\ A!Swapped(A!Text(str[x]), "A", "a") = A!Lower(A!Text(str[x]))
      /\ A!Swapped(A!Text(str[x]), "a", "A") = A!Upper(A!Text(str[x]))
  BY Zenon DEF A!Lower, A!Upper, A!Swapped
<1> QED BY <1>1, <1>2, <1>3, <1>4, SwapKept

(* What trim() makes of a text.                                            *)
TrimmedTo(before, after) ==
    /\ after # <<>> => after[1] # " " /\ after[Len(after)] # " "
    /\ \E i, n \in 0..Len(before) :
          /\ after = SubSeq(before, i + 1, n)
          /\ \A j \in DOMAIN before : j <= i \/ j > n => before[j] = " "

LEMMA TrimKept ==
    ASSUME StringInv, ~broken, NEW x \in Names, A!Trim(x)
    PROVE  Kept(x) /\ TrimmedTo(A!Text(str[x]), A!Text(str'[x]))
<1>1. PICK s : s = str[x]
  OBVIOUS
<1>12. PICK blank : blank = " "
  BY Zenon
<1>2. Sound(s)
  BY <1>1 DEF StringInv
<1>3. PICK n \in Nat : n = s.len
  BY <1>2 DEF Sound
<1>4. PICK before \in Seq(A!Chars) : before = A!Text(s)
  BY <1>2, TextFacts
<1>5. Len(before) = n /\ (\A i \in 1..n : before[i] = s.buf[i]) /\ DOMAIN before = 1..n
  BY <1>2, <1>3, <1>4, TextFacts
<1>6. PICK solid : solid = {i \in 1..n : s.buf[i] # blank}
  OBVIOUS
<1>7. PICK text : text = IF solid = {} THEN <<>> ELSE SubSeq(s.buf, A!Least(solid), A!Greatest(solid))
  OBVIOUS
<1>8. A!Change(x, IF n = 0 THEN s ELSE [buf |-> A!Put(s.buf, 0, text), len |-> Len(text)])
  BY <1>1, <1>3, <1>6, <1>7, <1>12, Zenon DEF A!Trim
<1>9. CASE n = 0
  <2>1. A!Change(x, str[x])
    BY <1>1, <1>8, <1>9
  <2>2. Kept(x) /\ A!Text(str'[x]) = before
    BY <1>1, <1>4, <2>1, StaysKept
  <2>3. before = <<>>
    BY <1>5, <1>9
  <2>4. 0 \in 0..Len(before) /\ before = SubSeq(before, 0 + 1, 0) /\ DOMAIN before = {}
    BY <1>5, <1>9, <2>3
  <2>5. \E i, m \in 0..Len(before) :
           /\ before = SubSeq(before, i + 1, m)
           /\ \A j \in DOMAIN before : j <= i \/ j > m => before[j] = blank
    BY <2>4, Zenon
  <2>6. TrimmedTo(before, before)
    <3>1. before # <<>> => before[1] # blank /\ before[Len(before)] # blank
      BY <2>3
    <3> QED BY <1>12, <2>5, <3>1, Zenon DEF TrimmedTo
  <2> QED BY <1>1, <1>4, <2>2, <2>6
<1>10. CASE n # 0 /\ solid = {}
  <2>1. text = <<>> /\ Len(text) = 0 /\ text \in Seq(A!Chars)
    BY <1>7, <1>10
  <2>2. PICK at \in Nat : at = 0
    OBVIOUS
  <2>3. at + Len(text) <= s.len /\ s.len > 0 /\ at + Len(text) = Len(text)
    BY <1>3, <1>10, <2>1, <2>2
  <2>4. A!Change(x, [buf |-> A!Put(s.buf, at, text), len |-> at + Len(text)])
    BY <1>8, <1>10, <2>2, <2>3
  <2>5. Kept(x) /\ A!Text(str'[x]) = SubSeq(before, 1, at) \o text
    BY <1>1, <1>4, <2>1, <2>3, <2>4, PutBackKept
  <2>6. A!Text(str'[x]) = <<>>
    BY <2>1, <2>2, <2>5, NoneBefore
  <2>7. \A j \in DOMAIN before : before[j] = blank
    BY <1>5, <1>6, <1>10
  <2>8. 0 \in 0..Len(before) /\ <<>> = SubSeq(before, 0 + 1, 0)
    BY <1>5
  <2>9. \E i, m \in 0..Len(before) :
           /\ <<>> = SubSeq(before, i + 1, m)
           /\ \A j \in DOMAIN before : j <= i \/ j > m => before[j] = blank
    BY <2>7, <2>8, Zenon
  <2>10. TrimmedTo(before, <<>>)
    BY <1>12, <2>9, Zenon DEF TrimmedTo
  <2> QED BY <1>1, <1>4, <2>5, <2>6, <2>10
<1>11. CASE n # 0 /\ solid # {}
  <2>1. solid \in SUBSET Nat /\ \A k \in solid : k <= n
    BY <1>6
  <2>2. PICK lo : lo = A!Least(solid)
    OBVIOUS
  <2>3. PICK hi : hi = A!Greatest(solid)
    OBVIOUS
  <2>4. lo \in solid /\ hi \in solid /\ \A k \in solid : lo <= k /\ k <= hi
    BY <1>11, <2>1, <2>2, <2>3, LeastFacts, GreatestFacts
  <2>5. lo \in 1..n /\ hi \in 1..n /\ s.buf[lo] # blank /\ s.buf[hi] # blank /\ lo <= hi
    <3>1. lo \in 1..n /\ s.buf[lo] # blank
      BY <1>6, <2>4
    <3>2. hi \in 1..n /\ s.buf[hi] # blank
      BY <1>6, <2>4
    <3> QED BY <2>4, <3>1, <3>2, Zenon
  <2>6. PICK l \in Nat : l = lo - 1
    BY <2>5
  <2>7. hi \in Nat /\ l <= hi /\ hi <= n /\ l < hi /\ l + 1 = lo
    BY <2>5, <2>6
  <2>8. text \in Seq(A!Chars) /\ Len(text) = hi - l /\ (\A i \in 1..hi - l : text[i] = s.buf[l + i])
        /\ text = SubSeq(before, l + 1, hi)
    <3>1. text = SubSeq(s.buf, l + 1, hi)
      BY <1>7, <1>11, <2>2, <2>3, <2>7, Zenon
    <3>2. hi <= s.len
      BY <1>3, <2>7
    <3> QED BY <1>2, <1>4, <2>7, <3>1, <3>2, CutFacts
  <2>9. PICK at \in Nat : at = 0
    OBVIOUS
  <2>10. at + Len(text) <= s.len /\ s.len > 0 /\ at + Len(text) = Len(text)
    BY <1>3, <1>11, <2>7, <2>8, <2>9
  <2>11. A!Change(x, [buf |-> A!Put(s.buf, at, text), len |-> at + Len(text)])
    BY <1>8, <1>11, <2>9, <2>10
  <2>12. Kept(x) /\ A!Text(str'[x]) = SubSeq(before, 1, at) \o text
    BY <1>1, <1>4, <2>8, <2>10, <2>11, PutBackKept
  <2>13. A!Text(str'[x]) = text
    BY <2>8, <2>9, <2>12, NoneBefore
  <2>14. text[1] # blank /\ text[Len(text)] # blank
    <3>1. 1 \in 1..hi - l /\ hi - l \in 1..hi - l /\ l + (hi - l) = hi
      BY <2>7
    <3>2. text[1] = s.buf[lo] /\ text[hi - l] = s.buf[hi]
      BY <2>7, <2>8, <3>1
    <3> QED BY <2>5, <2>8, <3>2
  <2>15. ASSUME NEW j \in DOMAIN before, j <= l \/ j > hi PROVE before[j] = blank
    <3>1. j \in 1..n /\ before[j] = s.buf[j]
      BY <1>5
    <3>2. j \notin solid
      BY <2>4, <2>7, <2>15, <3>1
    <3> QED BY <1>6, <3>1, <3>2
  <2>16. l \in 0..Len(before) /\ hi \in 0..Len(before)
    BY <1>5, <2>7
  <2>17. \E i, m \in 0..Len(before) :
           /\ text = SubSeq(before, i + 1, m)
           /\ \A j \in DOMAIN before : j <= i \/ j > m => before[j] = blank
    BY <2>8, <2>15, <2>16, Zenon
  <2>18. text # <<>> => text[1] # blank /\ text[Len(text)] # blank
    BY <2>14
  <2>19. TrimmedTo(before, text)
    BY <1>12, <2>17, <2>18, Zenon DEF TrimmedTo
  <2> QED BY <1>1, <1>4, <2>12, <2>13, <2>19
<1> QED BY <1>9, <1>10, <1>11

-----------------------------------------------------------------------------
(* replace() of one character: both passes make the same text.             *)

LEMMA SplitSeq ==
    ASSUME NEW T, NEW t \in Seq(T), NEW l \in Nat, NEW m \in Nat, NEW r \in Nat,
           l <= m, m <= r, r <= Len(t)
    PROVE  SubSeq(t, l + 1, r) = SubSeq(t, l + 1, m) \o SubSeq(t, m + 1, r)
<1>1. m <= Len(t) /\ l <= r /\ Len(t) \in Nat
  OBVIOUS
<1>2. PICK a : a = SubSeq(t, l + 1, m)
  OBVIOUS
<1>3. a \in Seq(T) /\ Len(a) = m - l /\ \A i \in 1..m - l : a[i] = t[l + i]
  BY <1>1, <1>2, SubSeqFacts
<1>4. PICK b : b = SubSeq(t, m + 1, r)
  OBVIOUS
<1>5. b \in Seq(T) /\ Len(b) = r - m /\ \A i \in 1..r - m : b[i] = t[m + i]
  BY <1>4, SubSeqFacts
<1>6. PICK c : c = SubSeq(t, l + 1, r)
  OBVIOUS
<1>7. c \in Seq(T) /\ Len(c) = r - l /\ \A i \in 1..r - l : c[i] = t[l + i]
  BY <1>1, <1>6, SubSeqFacts
<1>8. Len(c) = Len(a) + Len(b) /\ \A i \in 1..Len(a) : c[i] = a[i]
  BY <1>3, <1>5, <1>7
<1>9. ASSUME NEW i \in 1..Len(b) PROVE c[Len(a) + i] = b[i]
  <2>1. i \in 1..r - m
    BY <1>5
  <2>2. Len(a) + i \in 1..r - l /\ l + (Len(a) + i) = m + i
    BY <1>3, <2>1
  <2>3. c[Len(a) + i] = t[l + (Len(a) + i)] /\ b[i] = t[m + i]
    BY <1>5, <1>7, <2>1, <2>2
  <2> QED BY <2>2, <2>3
<1>10. c = a \o b
  BY <1>3, <1>5, <1>7, <1>8, <1>9, JoinsTo
<1> QED BY <1>2, <1>4, <1>6, <1>10

LEMMA JoinAssoc ==
    ASSUME NEW T, NEW a \in Seq(T), NEW b \in Seq(T), NEW c \in Seq(T)
    PROVE  (a \o b) \o c = a \o (b \o c)
<1>1. PICK ab : ab = a \o b
  OBVIOUS
<1>2. PICK bc : bc = b \o c
  OBVIOUS
<1>3. PICK u : u = ab \o c
  OBVIOUS
<1>4. /\ ab \in Seq(T) /\ Len(ab) = Len(a) + Len(b) /\ Len(a) \in Nat /\ Len(b) \in Nat
      /\ (\A i \in 1..Len(a) : ab[i] = a[i]) /\ \A i \in 1..Len(b) : ab[Len(a) + i] = b[i]
  BY <1>1, JoinedSeq
<1>5. /\ bc \in Seq(T) /\ Len(bc) = Len(b) + Len(c) /\ Len(c) \in Nat
      /\ (\A i \in 1..Len(b) : bc[i] = b[i]) /\ \A i \in 1..Len(c) : bc[Len(b) + i] = c[i]
  BY <1>2, JoinedSeq
<1>6. /\ u \in Seq(T) /\ Len(u) = Len(ab) + Len(c)
      /\ (\A i \in 1..Len(ab) : u[i] = ab[i]) /\ \A i \in 1..Len(c) : u[Len(ab) + i] = c[i]
  <2>1. PICK v \in Seq(T) : v = ab
    BY <1>4
  <2>2. PICK y : y = v \o c
    OBVIOUS
  <2>3. /\ y \in Seq(T) /\ Len(y) = Len(v) + Len(c)
        /\ (\A i \in 1..Len(v) : y[i] = v[i])
        /\ \A i \in 1..Len(c) : y[Len(v) + i] = c[i]
    BY <2>2, JoinedSeq
  <2>4. y = u
    BY <1>3, <2>1, <2>2
  <2> QED BY <2>1, <2>3, <2>4
<1>7. Len(u) = Len(a) + Len(bc)
  BY <1>4, <1>5, <1>6
<1>8. ASSUME NEW i \in 1..Len(a) PROVE u[i] = a[i]
  <2>1. i \in 1..Len(ab)
    BY <1>4
  <2> QED BY <1>4, <1>6, <2>1
<1>9. ASSUME NEW i \in 1..Len(bc) PROVE u[Len(a) + i] = bc[i]
  <2>1. CASE i <= Len(b)
    <3>1. i \in 1..Len(b) /\ Len(a) + i \in 1..Len(ab)
      BY <1>4, <1>5, <2>1
    <3> QED BY <1>4, <1>5, <1>6, <3>1
  <2>2. CASE i > Len(b)
    <3>1. PICK j \in 1..Len(c) : i = Len(b) + j
      <4>1. i - Len(b) \in 1..Len(c) /\ i = Len(b) + (i - Len(b))
        BY <1>4, <1>5, <2>2
      <4> QED BY <4>1
    <3>2. Len(a) + i = Len(ab) + j
      BY <1>4, <3>1
    <3> QED BY <1>5, <1>6, <3>1, <3>2
  <2> QED BY <1>4, <2>1, <2>2
<1>10. u = a \o bc
  BY <1>5, <1>6, <1>7, <1>8, <1>9, JoinsTo
<1> QED BY <1>1, <1>2, <1>3, <1>10

LEMMA TextsJoinAssoc ==
    ASSUME NEW u \in Seq(A!Chars), NEW v \in Seq(A!Chars), NEW w \in Seq(A!Chars),
           NEW vw, vw = v \o w
    PROVE  (u \o v) \o w = u \o vw
BY JoinAssoc

(* A text that is a part of another up to a position, and a tail.          *)
Tailed(w, t, l, j, u) == w = SubSeq(t, l + 1, j) \o u

(* What is left and right of a position in it.                             *)
LEMMA AroundJoin ==
    ASSUME NEW T, NEW t \in Seq(T), NEW u \in Seq(T), NEW j \in Nat, j <= Len(t),
           NEW w, Tailed(w, t, 0, j, u)
    PROVE  /\ w \in Seq(T) /\ Len(w) = j + Len(u) /\ Len(u) \in Nat
           /\ \A i \in 1..j : w[i] = t[i]
           /\ \A l \in 0..j : /\ SubSeq(w, 1, l) = SubSeq(t, 1, l)
                              /\ Tailed(SubSeq(w, l + 1, Len(w)), t, l, j, u)
<1>1. PICK front : front = SubSeq(t, 1, j)
  OBVIOUS
<1>2. front \in Seq(T) /\ Len(front) = j /\ \A i \in 1..j : front[i] = t[i]
  BY <1>1, FrontFacts
<1>3. w = front \o u
  <2>1. w = SubSeq(t, 0 + 1, j) \o u
    BY Zenon DEF Tailed
  <2>2. SubSeq(t, 0 + 1, j) = SubSeq(t, 1, j)
    OBVIOUS
  <2> QED BY <1>1, <2>1, <2>2, Zenon
<1>4. /\ w \in Seq(T) /\ Len(w) = j + Len(u) /\ Len(u) \in Nat
      /\ (\A i \in 1..j : w[i] = t[i]) /\ \A i \in 1..Len(u) : w[j + i] = u[i]
  <2>1. PICK v \in Seq(T) : v = front
    BY <1>2
  <2>2. PICK y : y = v \o u
    OBVIOUS
  <2>3. /\ y \in Seq(T) /\ Len(y) = Len(v) + Len(u) /\ Len(u) \in Nat
        /\ (\A i \in 1..Len(v) : y[i] = v[i])
        /\ \A i \in 1..Len(u) : y[Len(v) + i] = u[i]
    BY <2>2, JoinedSeq
  <2>4. y = w
    BY <1>3, <2>1, <2>2
  <2> QED BY <1>2, <2>1, <2>3, <2>4
<1>5. ASSUME NEW l \in 0..j
      PROVE  /\ SubSeq(w, 1, l) = SubSeq(t, 1, l)
             /\ Tailed(SubSeq(w, l + 1, Len(w)), t, l, j, u)
  <2>1. l \in Nat /\ l <= j /\ l <= Len(t) /\ l <= Len(w) /\ Len(w) \in Nat
    BY <1>4
  <2>2. PICK a : a = SubSeq(w, 1, l)
    OBVIOUS
  <2>3. a \in Seq(T) /\ Len(a) = l /\ \A i \in 1..l : a[i] = w[i]
    BY <1>4, <2>1, <2>2, FrontFacts
  <2>4. PICK b : b = SubSeq(t, 1, l)
    OBVIOUS
  <2>5. b \in Seq(T) /\ Len(b) = l /\ \A i \in 1..l : b[i] = t[i]
    BY <2>1, <2>4, FrontFacts
  <2>6. \A i \in 1..Len(a) : a[i] = b[i]
    <3>1. \A i \in 1..l : i \in 1..j
      BY <2>1
    <3> QED BY <1>4, <2>3, <2>5, <3>1
  <2>7. a = b
    BY <2>3, <2>5, <2>6, SameSeq
  <2>8. PICK c : c = SubSeq(w, l + 1, Len(w))
    OBVIOUS
  <2>9. c \in Seq(T) /\ Len(c) = Len(w) - l /\ \A i \in 1..Len(w) - l : c[i] = w[l + i]
    BY <1>4, <2>1, <2>8, SubSeqFacts
  <2>10. PICK d : d = SubSeq(t, l + 1, j)
    OBVIOUS
  <2>11. d \in Seq(T) /\ Len(d) = j - l /\ \A i \in 1..j - l : d[i] = t[l + i]
    BY <2>1, <2>10, SubSeqFacts
  <2>12. Len(c) = Len(d) + Len(u)
    BY <1>4, <2>1, <2>9, <2>11
  <2>13. ASSUME NEW i \in 1..Len(d) PROVE c[i] = d[i]
    <3>1. i \in 1..j - l /\ i \in 1..Len(w) - l /\ l + i \in 1..j
      BY <1>4, <2>1, <2>11
    <3> QED BY <1>4, <2>9, <2>11, <3>1
  <2>14. ASSUME NEW i \in 1..Len(u) PROVE c[Len(d) + i] = u[i]
    <3>1. Len(d) + i \in 1..Len(w) - l /\ l + (Len(d) + i) = j + i
      BY <1>4, <2>1, <2>11
    <3> QED BY <1>4, <2>9, <3>1
  <2>15. c = d \o u
    BY <2>9, <2>11, <2>12, <2>13, <2>14, JoinsTo
  <2>16. Tailed(c, t, l, j, u)
    BY <2>10, <2>15, Zenon DEF Tailed
  <2> QED BY <2>2, <2>4, <2>7, <2>8, <2>16
<1> QED BY <1>4, <1>5

LEMMA SameSingle ==
    ASSUME NEW T, NEW u \in Seq(T), NEW v \in Seq(T), Len(u) = 1, Len(v) = 1
    PROVE  u = v <=> u[1] = v[1]
<1>1. ASSUME u[1] = v[1] PROVE u = v
  <2>1. Len(u) = Len(v) /\ \A i \in 1..Len(u) : u[i] = v[i]
    BY <1>1
  <2> QED BY <2>1, SameSeq
<1> QED BY <1>1

LEMMA OneMatch ==
    ASSUME NEW T, NEW s \in Seq(T), NEW find \in Seq(T), Len(find) = 1
    PROVE  A!Matches(s, find) = {q \in 0..Len(s) - 1 : s[q + 1] = find[1]}
<1>1. Len(s) \in Nat
  OBVIOUS
<1>2. ASSUME NEW q \in 0..Len(s) - 1
      PROVE  SubSeq(s, q + 1, q + 1) = find <=> s[q + 1] = find[1]
  <2>1. q \in Nat /\ q + 1 \in Nat /\ q <= q + 1 /\ q + 1 <= Len(s) /\ q + 1 - q = 1
    BY <1>1
  <2>2. PICK r \in Nat : r = q + 1
    BY <2>1
  <2>3. PICK u : u = SubSeq(s, q + 1, r)
    OBVIOUS
  <2>4. u \in Seq(T) /\ Len(u) = r - q /\ \A i \in 1..r - q : u[i] = s[q + i]
    <3>1. q <= r /\ r <= Len(s)
      BY <2>1, <2>2
    <3> QED BY <2>1, <2>3, <3>1, SubSeqFacts
  <2>5. Len(u) = 1 /\ u[1] = s[q + 1]
    BY <2>1, <2>2, <2>4
  <2>6. u = find <=> u[1] = find[1]
    <3>1. PICK v \in Seq(T) : v = find /\ Len(v) = 1
      OBVIOUS
    <3>2. u = v <=> u[1] = v[1]
      BY <2>4, <2>5, <3>1, SameSingle, Zenon
    <3> QED BY <3>1, <3>2, Zenon
  <2> QED BY <2>2, <2>3, <2>5, <2>6
<1>3. Len(s) - Len(find) = Len(s) - 1 /\ \A q \in 0..Len(s) - 1 : q + Len(find) = q + 1
  OBVIOUS
<1>4. A!Matches(s, find) = {q \in 0..Len(s) - 1 : SubSeq(s, q + 1, q + 1) = find}
  BY <1>3 DEF A!Matches
<1> QED BY <1>2, <1>4

(* The pass meets the first occurrence right of where it is.               *)
MeetsNone(text, c, g, from) ==
    /\ \A i \in from + 1..Len(text) : text[i] # c
    /\ g[from] = SubSeq(text, from + 1, Len(text))
Meets(text, c, by, g, from, k) ==
    /\ text[k + 1] = c /\ \A i \in from + 1..k : text[i] # c
    /\ g[from] = SubSeq(text, from + 1, k) \o by \o g[k + 1]

LEMMA OneSweep ==
    ASSUME NEW text \in Seq(A!Chars), NEW find \in Seq(A!Chars), Len(find) = 1, NEW by, NEW g,
           NEW from \in 0..Len(text), g[from] = SweepStep(g, text, find, by, from)
    PROVE  \/ MeetsNone(text, find[1], g, from)
           \/ \E k \in from..Len(text) - 1 : Meets(text, find[1], by, g, from, k)
<1>1. PICK last \in Nat : last = Len(text)
  OBVIOUS
<1>2. PICK rest : rest = SubSeq(text, from + 1, last)
  OBVIOUS
<1>3. from \in Nat /\ from <= last /\ last <= Len(text) /\ Len(text) \in Nat
  BY <1>1
<1>4. rest \in Seq(A!Chars) /\ Len(rest) = last - from
      /\ \A i \in 1..last - from : rest[i] = text[from + i]
  BY <1>2, <1>3, SubSeqFacts
<1>5. PICK M1 : M1 = A!Matches(rest, find)
  OBVIOUS
<1>6. M1 = {q \in 0..Len(rest) - 1 : rest[q + 1] = find[1]}
  BY <1>4, <1>5, OneMatch
<1>7. PICK p : p = A!Least(M1)
  OBVIOUS
<1>8. g[from] = IF p < 0 THEN rest ELSE SubSeq(rest, 1, p) \o by \o g[from + p + Len(find)]
  BY <1>1, <1>2, <1>5, <1>7, Zenon DEF SweepStep
<1>9. M1 \in SUBSET Nat
  BY <1>4, <1>6
<1>10. CASE M1 = {}
  <2>1. p = -1
    BY <1>7, <1>9, <1>10, LeastFacts
  <2>2. g[from] = rest
    BY <1>8, <2>1
  <2>3. ASSUME NEW i \in from + 1..last PROVE text[i] # find[1]
    <3>1. PICK q : q = i - from - 1
      OBVIOUS
    <3>2. q \in 0..Len(rest) - 1 /\ q + 1 \in 1..last - from /\ from + (q + 1) = i
      BY <1>3, <1>4, <3>1
    <3>3. rest[q + 1] = text[i] /\ ~(rest[q + 1] = find[1])
      BY <1>4, <1>6, <1>10, <3>2
    <3> QED BY <3>3
  <2> QED BY <1>1, <1>2, <2>2, <2>3 DEF MeetsNone
<1>11. CASE M1 # {}
  <2>1. p \in M1 /\ \A q \in M1 : p <= q
    BY <1>7, <1>9, <1>11, LeastFacts
  <2>2. p \in 0..Len(rest) - 1 /\ rest[p + 1] = find[1]
    BY <1>6, <2>1
  <2>3. PICK k : k = from + p
    OBVIOUS
  <2>4. k \in from..last - 1 /\ k \in Nat /\ p + 1 \in 1..last - from /\ from + (p + 1) = k + 1
        /\ from + p + Len(find) = k + 1 /\ ~(p < 0) /\ p \in Nat /\ p <= Len(rest) /\ k <= last
    <3>1. p \in Nat /\ p < Len(rest) /\ Len(rest) = last - from
      BY <1>4, <2>2
    <3> QED BY <1>3, <2>3, <3>1
  <2>5. text[k + 1] = find[1]
    BY <1>4, <2>2, <2>4
  <2>6. ASSUME NEW i \in from + 1..k PROVE text[i] # find[1]
    <3>1. PICK q : q = i - from - 1
      OBVIOUS
    <3>2. q \in 0..Len(rest) - 1 /\ q + 1 \in 1..last - from /\ from + (q + 1) = i /\ q < p
      BY <1>3, <1>4, <2>3, <2>4, <3>1
    <3>3. rest[q + 1] = text[i]
      BY <1>4, <3>2
    <3>4. q \notin M1
      BY <2>1, <2>4, <3>2
    <3> QED BY <1>6, <3>2, <3>3, <3>4
  <2>7. SubSeq(rest, 1, p) = SubSeq(text, from + 1, k)
    <3>1. PICK a : a = SubSeq(rest, 1, p)
      OBVIOUS
    <3>2. a \in Seq(A!Chars) /\ Len(a) = p /\ \A i \in 1..p : a[i] = rest[i]
      BY <1>4, <2>4, <3>1, FrontFacts
    <3>3. PICK b : b = SubSeq(text, from + 1, k)
      OBVIOUS
    <3>4. from <= k /\ k <= Len(text) /\ k - from = p
      BY <1>1, <1>3, <2>3, <2>4
    <3>5. b \in Seq(A!Chars) /\ Len(b) = k - from /\ \A i \in 1..k - from : b[i] = text[from + i]
      BY <1>3, <2>4, <3>3, <3>4, SubSeqFacts
    <3>6. \A i \in 1..p : i \in 1..last - from
      BY <1>4, <2>4
    <3>7. \A i \in 1..Len(a) : a[i] = b[i]
      BY <1>4, <3>2, <3>4, <3>5, <3>6
    <3>8. a = b
      BY <3>2, <3>4, <3>5, <3>7, SameSeq
    <3> QED BY <3>1, <3>3, <3>8
  <2>8. g[from] = SubSeq(text, from + 1, k) \o by \o g[k + 1]
    BY <1>8, <2>4, <2>7, Zenon
  <2>9. Meets(text, find[1], by, g, from, k)
    BY <2>5, <2>6, <2>8, Zenon DEF Meets
  <2> QED BY <1>1, <2>4, <2>9
<1> QED BY <1>10, <1>11

(* What it makes from where it stands on an occurrence, and up to the next.*)
Puts(g, by, p) == g[p] = by \o g[p + 1]

LEMMA SweepHere ==
    ASSUME NEW text \in Seq(A!Chars), NEW find \in Seq(A!Chars), Len(find) = 1,
           NEW by \in Seq(A!Chars), NEW g, Sweeping(g, text, find, by),
           NEW p \in 0..Len(text) - 1, text[p + 1] = find[1]
    PROVE  Puts(g, by, p)
<1>1. Len(text) \in Nat /\ p \in Nat /\ p \in 0..Len(text) /\ p + 1 \in 0..Len(text)
      /\ p + 1 \in p + 1..Len(text) /\ Len(find) > 0
  OBVIOUS
<1>2. g[p + 1] \in Seq(A!Chars)
  BY <1>1, SweepTexts
<1>3. PICK k \in p..Len(text) - 1 :
          /\ text[k + 1] = find[1] /\ \A i \in p + 1..k : text[i] # find[1]
          /\ g[p] = SubSeq(text, p + 1, k) \o by \o g[k + 1]
  <2>1. g[p] = SweepStep(g, text, find, by, p)
    BY <1>1 DEF Sweeping
  <2>2. \/ MeetsNone(text, find[1], g, p)
        \/ \E k \in p..Len(text) - 1 : Meets(text, find[1], by, g, p, k)
    BY <1>1, <2>1, OneSweep
  <2>3. ~MeetsNone(text, find[1], g, p)
    BY <1>1 DEF MeetsNone
  <2> QED BY <2>2, <2>3 DEF Meets
<1>4. k = p
  <2>1. ~(k > p)
    <3> SUFFICES ASSUME k > p PROVE FALSE
      OBVIOUS
    <3>1. p + 1 \in p + 1..k
      BY <1>1
    <3> QED BY <1>3, <3>1
  <2> QED BY <1>1, <2>1
<1>5. SubSeq(text, p + 1, p) \o by = by
  <2>1. PICK none : none = SubSeq(text, p + 1, p)
    OBVIOUS
  <2>2. none \in Seq(A!Chars) /\ Len(none) = p - p
    BY <1>1, <2>1, SubSeqFacts
  <2>3. none = <<>>
    BY <1>1, <2>2
  <2>4. <<>> \o by = by
    OBVIOUS
  <2> QED BY <2>1, <2>3, <2>4
<1> QED BY <1>3, <1>4, <1>5, Zenon DEF Puts

Free(text, c, a, b) == \A i \in a + 1..b : text[i] # c

LEMMA SweepOver ==
    ASSUME NEW text \in Seq(A!Chars), NEW find \in Seq(A!Chars), Len(find) = 1,
           NEW by \in Seq(A!Chars), NEW g, Sweeping(g, text, find, by),
           NEW a \in 0..Len(text), NEW b \in 0..Len(text), a <= b, Free(text, find[1], a, b)
    PROVE  Tailed(g[a], text, a, b, g[b])
<1>6. \A i \in a + 1..b : text[i] # find[1]
  BY DEF Free
<1>1. PICK last \in Nat : last = Len(text)
  OBVIOUS
<1>2. a \in Nat /\ b \in Nat /\ b <= last /\ last <= Len(text) /\ Len(find) > 0
  BY <1>1
<1>3. /\ g[a] = SweepStep(g, text, find, by, a)
      /\ g[b] = SweepStep(g, text, find, by, b)
  BY DEF Sweeping
<1>4. CASE \A i \in b + 1..last : text[i] # find[1]
  <2>1. g[b] = SubSeq(text, b + 1, last)
    <3>1. ~\E k \in b..Len(text) - 1 : Meets(text, find[1], by, g, b, k)
      <4>1. \A k \in b..Len(text) - 1 : k + 1 \in b + 1..last
        BY <1>1, <1>2
      <4> QED BY <1>4, <4>1 DEF Meets
    <3>2. MeetsNone(text, find[1], g, b)
      BY <1>3, <3>1, OneSweep
    <3> QED BY <1>1, <3>2 DEF MeetsNone
  <2>2. \A i \in a + 1..last : text[i] # find[1]
    <3>1. \A i \in a + 1..last : i \in a + 1..b \/ i \in b + 1..last
      BY <1>2
    <3> QED BY <1>4, <1>6, <3>1
  <2>3. g[a] = SubSeq(text, a + 1, last)
    <3>1. ~\E k \in a..Len(text) - 1 : Meets(text, find[1], by, g, a, k)
      <4>1. \A k \in a..Len(text) - 1 : k + 1 \in a + 1..last
        BY <1>1, <1>2
      <4> QED BY <2>2, <4>1 DEF Meets
    <3>2. MeetsNone(text, find[1], g, a)
      BY <1>3, <3>1, OneSweep
    <3> QED BY <1>1, <3>2 DEF MeetsNone
  <2>4. SubSeq(text, a + 1, last) = SubSeq(text, a + 1, b) \o SubSeq(text, b + 1, last)
    BY <1>2, SplitSeq
  <2> QED BY <2>1, <2>3, <2>4, Zenon DEF Tailed
<1>5. CASE ~\A i \in b + 1..last : text[i] # find[1]
  <2>1. PICK k \in b..last - 1 :
            /\ text[k + 1] = find[1] /\ \A i \in b + 1..k : text[i] # find[1]
            /\ g[b] = SubSeq(text, b + 1, k) \o by \o g[k + 1]
    <3>1. ~MeetsNone(text, find[1], g, b)
      BY <1>1, <1>5 DEF MeetsNone
    <3>2. \E k \in b..Len(text) - 1 : Meets(text, find[1], by, g, b, k)
      BY <1>3, <3>1, OneSweep
    <3> QED BY <1>1, <3>2 DEF Meets
  <2>2. k \in Nat /\ k + 1 \in 0..Len(text) /\ k <= Len(text) /\ b <= k /\ k + 1 \in a + 1..Len(text)
    BY <1>1, <1>2
  <2>3. PICK m \in a..last - 1 :
            /\ text[m + 1] = find[1] /\ \A i \in a + 1..m : text[i] # find[1]
            /\ g[a] = SubSeq(text, a + 1, m) \o by \o g[m + 1]
    <3>1. ~MeetsNone(text, find[1], g, a)
      BY <2>1, <2>2 DEF MeetsNone
    <3>2. \E m \in a..Len(text) - 1 : Meets(text, find[1], by, g, a, m)
      BY <1>3, <3>1, OneSweep
    <3> QED BY <1>1, <3>2 DEF Meets
  <2>4. m = k
    <3>1. m \in Nat
      BY <1>2
    <3>2. ~(m < k)
      <4> SUFFICES ASSUME m < k PROVE FALSE
        OBVIOUS
      <4>1. m + 1 \in a + 1..b \/ m + 1 \in b + 1..k
        BY <1>2, <2>2, <3>1
      <4> QED BY <1>6, <2>1, <2>3, <4>1
    <3>3. ~(m > k)
      <4> SUFFICES ASSUME m > k PROVE FALSE
        OBVIOUS
      <4>1. k + 1 \in a + 1..m
        BY <1>2, <2>2, <3>1
      <4> QED BY <2>1, <2>3, <4>1
    <3> QED BY <2>2, <3>1, <3>2, <3>3
  <2>5. PICK x1 \in Seq(A!Chars) : x1 = SubSeq(text, a + 1, b)
    <3>1. b <= Len(text)
      OBVIOUS
    <3> QED BY <1>2, <3>1, SubSeqFacts
  <2>6. PICK x2 \in Seq(A!Chars) : x2 = SubSeq(text, b + 1, k)
    BY <1>2, <2>2, SubSeqFacts
  <2>7. PICK x3 \in Seq(A!Chars) : x3 = g[k + 1]
    BY <1>2, <2>2, SweepTexts
  <2>10. SubSeq(text, a + 1, k) = x1 \o x2
    BY <1>2, <2>2, <2>5, <2>6, SplitSeq
  <2>11. PICK x4 \in Seq(A!Chars) : x4 = x2 \o by
    BY JoinedSeq
  <2>12. (x1 \o x2) \o by = x1 \o x4
    BY <2>11, TextsJoinAssoc, SMTT(60)
  <2>15. PICK x5 \in Seq(A!Chars) : x5 = x4 \o x3
    BY JoinedSeq
  <2>13. (x1 \o x4) \o x3 = x1 \o x5
    BY <2>15, TextsJoinAssoc, SMTT(60)
  <2>14. g[b] = x5 /\ g[a] = (x1 \o x4) \o x3
    BY <2>1, <2>3, <2>4, <2>6, <2>7, <2>10, <2>11, <2>12, <2>15
  <2> QED BY <2>5, <2>13, <2>14, Zenon DEF Tailed
<1> QED BY <1>4, <1>5

(* The other pass, from the right: left of where it stands is the old      *)
(* text, right of it the new one.                                          *)
LEMMA GrownIsSwept ==
    ASSUME NEW text \in Seq(A!Chars), text # <<>>, NEW find \in Seq(A!Chars), Len(find) = 1,
           NEW by \in Seq(A!Chars)
    PROVE  A!Grown(text, find, by, Len(text) - 1) = A!Swept(text, find, by)
<1>14. PICK last \in Nat : last = Len(text)
  OBVIOUS
<1> DEFINE first == [text |-> text, index |-> last - 1]
<1>1. last \in Nat /\ last > 0 /\ last - 1 + 1 = last /\ Len(find) > 0 /\ 0 \in 0..last
      /\ last = Len(text)
  BY <1>14
<1>2. PICK g : A!Swept(text, find, by) = g[0] /\ Sweeping(g, text, find, by)
  BY <1>1, SweptUnfolds
<1>3. \A from \in 0..last : g[from] \in Seq(A!Chars)
  BY <1>1, <1>2, SweepTexts
<1>4. PICK f : f = CHOOSE h : Passes(h, first, find, by, last - 1 + 1)
  OBVIOUS
<1>5. Passes(f, first, find, by, last)
  <2>1. \E h : Passes(h, first, find, by, last)
    BY <1>1, PassesExist
  <2>2. f = CHOOSE h : Passes(h, first, find, by, last)
    BY <1>1, <1>4
  <2> QED BY <2>1, <2>2, Zenon
<1>6. A!Grown(text, find, by, last - 1) = f[last - 1 + 1].text
  BY <1>4, Zenon DEF A!Grown, Passes, PassStep
<1>7. \A n \in 0..last : f[n] = IF n = 0 THEN first ELSE PassStep(f[n - 1], find, by)
  BY <1>5, Zenon DEF Passes
<1> DEFINE Half(s, j) == s.index = j - 1 /\ Tailed(s.text, text, 0, j, g[j])
           Done(j, n) == j <= last - n \/ \A i \in 1..j : text[i] # find[1]
           K == {n \in Nat : n <= last => \E j \in 0..last : Half(f[n], j) /\ Done(j, n)}
<1>8. 0 \in K
  <2>1. f[0] = first
    BY <1>1, <1>7
  <2>2. g[last] = <<>>
    <3>1. \/ MeetsNone(text, find[1], g, last)
          \/ \E k \in last..last - 1 : Meets(text, find[1], by, g, last, k)
      <4>1. last \in 0..Len(text)
        BY <1>1
      <4>2. g[last] = SweepStep(g, text, find, by, last)
        BY <1>2, <4>1 DEF Sweeping
      <4> QED BY <1>1, <4>1, <4>2, OneSweep
    <3>2. last..last - 1 = {}
      BY <1>1
    <3>3. g[last] = SubSeq(text, last + 1, last)
      BY <1>1, <3>1, <3>2 DEF MeetsNone
    <3>4. Len(SubSeq(text, last + 1, last)) = last - last /\ SubSeq(text, last + 1, last) \in Seq(A!Chars)
      <4>1. last <= last /\ last <= Len(text)
        BY <1>1
      <4> QED BY <1>1, <4>1, SubSeqFacts
    <3>5. Len(g[last]) = 0 /\ g[last] \in Seq(A!Chars)
      BY <1>1, <3>3, <3>4
    <3> QED BY <3>5
  <2>3. Tailed(text, text, 0, last, <<>>)
    <3>1. PICK t : t = SubSeq(text, 1, last)
      OBVIOUS
    <3>2. t \in Seq(A!Chars) /\ Len(t) = last /\ \A i \in 1..last : t[i] = text[i]
      <4>1. last <= Len(text)
        BY <1>1
      <4> QED BY <1>1, <3>1, <4>1, FrontFacts
    <3>3. t = text
      <4>1. Len(t) = Len(text) /\ \A i \in 1..Len(t) : t[i] = text[i]
        BY <1>1, <3>2
      <4> QED BY <3>2, <4>1, SameSeq
    <3>4. text \o <<>> = text
      OBVIOUS
    <3>5. SubSeq(text, 0 + 1, last) = text
      BY <3>1, <3>3
    <3> QED BY <3>4, <3>5, Zenon DEF Tailed
  <2>4. Half(f[0], last) /\ Done(last, 0) /\ last \in 0..last
    BY <1>1, <2>1, <2>2, <2>3
  <2>5. \E j \in 0..last : Half(f[0], j) /\ Done(j, 0)
    BY <2>4
  <2>6. 0 \in Nat
    OBVIOUS
  <2> HIDE DEF Half, Done
  <2> QED BY <2>5, <2>6
<1>9. ASSUME NEW n \in K PROVE n + 1 \in K
  <2>16. n + 1 \in Nat
    OBVIOUS
  <2> SUFFICES ASSUME n + 1 <= last PROVE \E j \in 0..last : Half(f[n + 1], j) /\ Done(j, n + 1)
    <3> HIDE DEF Half, Done
    <3> QED BY <2>16
  <2>1. n \in Nat /\ n <= last /\ n + 1 \in 0..last /\ n + 1 # 0 /\ n + 1 - 1 = n
    BY <1>1
  <2>2. PICK s : s = f[n]
    OBVIOUS
  <2>3. f[n + 1] = PassStep(s, find, by)
    <3>1. PICK m : m = n + 1
      OBVIOUS
    <3>2. m \in 0..last /\ m # 0 /\ m - 1 = n
      BY <2>1, <3>1
    <3>3. f[m] = PassStep(f[m - 1], find, by)
      BY <1>7, <3>2, Zenon
    <3> QED BY <2>2, <3>1, <3>2, <3>3, Zenon
  <2>4. PICK j \in 0..last : Half(s, j) /\ Done(j, n)
    BY <2>1, <2>2
  <2>5. PICK tail \in Seq(A!Chars) : tail = g[j]
    BY <1>3
  <2>6. PICK w : w = s.text
    OBVIOUS
  <2>7. s.index = j - 1 /\ s.text = w /\ j \in Nat /\ j <= Len(text) /\ Tailed(w, text, 0, j, tail)
    BY <1>1, <2>4, <2>5, <2>6
  <2>8. /\ w \in Seq(A!Chars) /\ Len(w) = j + Len(tail) /\ Len(tail) \in Nat
        /\ \A i \in 1..j : w[i] = text[i]
        /\ \A l \in 0..j : /\ SubSeq(w, 1, l) = SubSeq(text, 1, l)
                           /\ Tailed(SubSeq(w, l + 1, Len(w)), text, l, j, tail)
    BY <2>7, AroundJoin
  <2>9. PICK M1 : M1 = {q \in A!Matches(w, find) : q <= s.index}
    OBVIOUS
  <2>10. M1 = {q \in 0..j - 1 : text[q + 1] = find[1]}
    <3>1. A!Matches(w, find) = {q \in 0..Len(w) - 1 : w[q + 1] = find[1]}
      BY <2>8, OneMatch
    <3>2. \A q \in 0..j - 1 : q \in 0..Len(w) - 1 /\ q <= j - 1 /\ q + 1 \in 1..j
      BY <2>7, <2>8
    <3>3. \A q \in 0..Len(w) - 1 : q <= j - 1 => q \in 0..j - 1
      BY <2>7, <2>8
    <3>4. ASSUME NEW q PROVE q \in M1 <=> q \in 0..j - 1 /\ text[q + 1] = find[1]
      <4>1. q \in M1 <=> q \in 0..Len(w) - 1 /\ w[q + 1] = find[1] /\ q <= j - 1
        BY <2>7, <2>9, <3>1
      <4>2. q \in 0..j - 1 => w[q + 1] = text[q + 1]
        BY <2>8, <3>2
      <4> QED BY <3>2, <3>3, <4>1, <4>2
    <3> QED BY <3>4
  <2>11. PICK p : p = A!Greatest(M1)
    OBVIOUS
  <2>12. M1 \in SUBSET Nat /\ \A q \in M1 : q <= j
    BY <2>7, <2>10
  <2>13. f[n + 1] = IF s.index < 0 \/ p < 0 THEN s
                    ELSE [text |-> SubSeq(w, 1, p) \o by \o SubSeq(w, p + Len(find) + 1, Len(w)),
                          index |-> p - 1]
    BY <2>3, <2>7, <2>9, <2>11, Zenon DEF PassStep
  <2>14. CASE M1 = {}
    <3>1. p = -1
      BY <2>7, <2>11, <2>12, <2>14, GreatestFacts
    <3>2. f[n + 1] = s
      BY <2>13, <3>1
    <3>3. ASSUME NEW i \in 1..j PROVE text[i] # find[1]
      <4>1. PICK q : q = i - 1
        OBVIOUS
      <4>2. q \in 0..j - 1 /\ q + 1 = i
        BY <2>7, <4>1
      <4> QED BY <2>10, <2>14, <4>2
    <3>4. Half(f[n + 1], j) /\ Done(j, n + 1)
      <4>1. Done(j, n + 1)
        BY <3>3
      <4>2. Half(f[n + 1], j)
        BY <2>4, <3>2
      <4> QED BY <4>1, <4>2
    <3> QED BY <3>4
  <2>15. CASE M1 # {}
    <3>1. p \in M1 /\ \A q \in M1 : q <= p
      BY <2>7, <2>11, <2>12, <2>15, GreatestFacts
    <3>2. p \in 0..j - 1 /\ text[p + 1] = find[1]
      BY <2>10, <3>1
    <3>3. /\ p \in Nat /\ p + 1 <= j /\ p \in 0..j /\ p + 1 \in 0..j /\ p \in 0..last
          /\ p + 1 \in 0..last /\ p \in 0..Len(text) - 1 /\ p + Len(find) + 1 = p + 1 + 1
          /\ ~(p < 0) /\ ~(s.index < 0) /\ p + 1 \in 1..j
      BY <2>7, <3>2
    <3>4. \A i \in p + 1 + 1..j : text[i] # find[1]
      <4> SUFFICES ASSUME NEW i \in p + 1 + 1..j, text[i] = find[1] PROVE FALSE
        OBVIOUS
      <4>1. PICK q : q = i - 1
        OBVIOUS
      <4>2. q \in 0..j - 1 /\ q + 1 = i /\ q > p
        BY <2>7, <3>3, <4>1
      <4>3. q \in M1
        BY <2>10, <4>2
      <4> QED BY <3>1, <3>3, <4>2, <4>3
    <3>5. PICK mid \in Seq(A!Chars) : mid = g[p + 1]
      BY <1>3, <3>3
    <3>6. Tailed(mid, text, p + 1, j, tail)
      <4>1. PICK a \in 0..Len(text) : a = p + 1
        BY <1>1, <3>3
      <4>2. a <= j /\ Free(text, find[1], a, j)
        BY <3>3, <3>4, <4>1 DEF Free
      <4>3. j \in 0..Len(text)
        BY <1>1
      <4>4. Tailed(g[a], text, a, j, g[j])
        BY <1>2, <4>2, <4>3, SweepOver
      <4> QED BY <2>5, <3>5, <4>1, <4>4
    <3>7. g[p] = by \o mid
      <4>1. Puts(g, by, p)
        BY <1>2, <3>2, <3>3, SweepHere
      <4> QED BY <3>5, <4>1, Zenon DEF Puts
    <3>8. SubSeq(w, 1, p) = SubSeq(text, 1, p)
      BY <2>8, <3>3
    <3>9. SubSeq(w, p + Len(find) + 1, Len(w)) = mid
      <4>1. Tailed(SubSeq(w, p + 1 + 1, Len(w)), text, p + 1, j, tail)
        BY <2>8, <3>3
      <4>2. SubSeq(w, p + 1 + 1, Len(w)) = mid
        BY <3>6, <4>1, Zenon DEF Tailed
      <4> QED BY <3>3, <4>2
    <3>10. PICK head \in Seq(A!Chars) : head = SubSeq(text, 1, p)
      <4>1. p <= Len(text)
        BY <3>3
      <4> QED BY <3>3, <4>1, FrontFacts
    <3>11. f[n + 1] = [text |-> (head \o by) \o mid, index |-> p - 1]
      BY <2>13, <3>3, <3>8, <3>9, <3>10, Zenon
    <3>15. PICK y \in Seq(A!Chars) : y = by \o mid
      BY JoinedSeq
    <3>12. (head \o by) \o mid = head \o y
      BY <3>15, TextsJoinAssoc, SMTT(60)
    <3>13. Half(f[n + 1], p)
      <4>1. f[n + 1].index = p - 1 /\ f[n + 1].text = (head \o by) \o mid
        BY <3>11
      <4>2. SubSeq(text, 0 + 1, p) = head
        BY <3>10
      <4>3. Tailed(f[n + 1].text, text, 0, p, g[p])
        BY <3>7, <3>12, <3>15, <4>1, <4>2, Zenon DEF Tailed
      <4> QED BY <4>1, <4>3
    <3>14. Done(p, n + 1)
      <4>1. ~\A i \in 1..j : text[i] # find[1]
        BY <3>2, <3>3
      <4>2. j <= last - n
        BY <2>4, <4>1
      <4> QED BY <1>1, <2>1, <2>7, <3>3, <4>2
    <3> QED BY <3>3, <3>13, <3>14
  <2> QED BY <2>14, <2>15
<1>10. last \in K
  <2> HIDE DEF K
  <2>1. K = Nat
    <3>1. K \in SUBSET Nat
      BY DEF K
    <3> QED BY <1>8, <1>9, <3>1, CountUp
  <2> QED BY <1>1, <2>1
<1>11. PICK j \in 0..last : Half(f[last], j) /\ Done(j, last)
  <2>1. last <= last
    BY <1>1
  <2> QED BY <1>10, <2>1, Zenon
<1>12. Free(text, find[1], 0, j)
  BY <1>1, <1>11 DEF Free
<1>13. Tailed(g[0], text, 0, j, g[j])
  <2>1. PICK a \in 0..Len(text) : a = 0
    BY <1>1
  <2>2. a <= j /\ j \in 0..Len(text) /\ Free(text, find[1], a, j)
    BY <1>1, <1>12, <2>1
  <2>3. Tailed(g[a], text, a, j, g[j])
    BY <1>2, <2>2, SweepOver
  <2> QED BY <2>1, <2>3
<1>15. g[0] = f[last].text
  <2>1. Tailed(f[last].text, text, 0, j, g[j])
    BY <1>11
  <2> QED BY <1>13, <2>1, Zenon DEF Tailed
<1> QED BY <1>1, <1>2, <1>6, <1>15

(* A text put into the whole of a buffer.                                  *)
LEMMA WholeSound ==
    ASSUME NEW buf \in Seq(Bytes), NEW t \in Seq(A!Chars), Len(t) < Len(buf)
    PROVE  LET s == [buf |-> A!Put(buf, 0, t), len |-> Len(t)] IN Sound(s) /\ A!Text(s) = t
<1>1. PICK at \in Nat : at = 0
  OBVIOUS
<1>2. at + Len(t) = Len(t) /\ at + Len(t) < Len(buf) /\ \A i \in 1..at : buf[i] \in A!Chars
  BY <1>1
<1>3. PICK s : s = [buf |-> A!Put(buf, at, t), len |-> at + Len(t)]
  OBVIOUS
<1>4. /\ Sound(s) /\ Len(A!Text(s)) = at + Len(t)
      /\ \A i \in 1..Len(t) : A!Text(s)[at + i] = t[i]
  BY <1>2, <1>3, PutSound
<1>5. A!Text(s) \in Seq(A!Chars)
  BY <1>4, TextFacts
<1>6. Len(A!Text(s)) = Len(t) /\ \A i \in 1..Len(A!Text(s)) : A!Text(s)[i] = t[i]
  BY <1>1, <1>4
<1>7. A!Text(s) = t
  BY <1>5, <1>6, SameSeq
<1> QED BY <1>1, <1>2, <1>3, <1>4, <1>7

LEMMA ReplaceKept ==
    ASSUME StringInv, ~broken, NEW x \in Names, NEW find \in Seq(A!Chars), NEW by \in Seq(A!Chars),
           A!Replace(x, find, by)
    PROVE  /\ Kept(x)
           /\ ~broken' /\ (Len(find) = 1 \/ Len(by) <= Len(find)) =>
                A!Text(str'[x]) \in {A!Text(str[x]), A!Swept(A!Text(str[x]), find, by)}
<1>1. PICK s : s = str[x]
  OBVIOUS
<1>2. Sound(s)
  BY <1>1 DEF StringInv
<1>3. PICK n \in Nat : n = s.len
  BY <1>2 DEF Sound
<1>4. PICK b \in Seq(Bytes) : b = s.buf
  BY <1>2 DEF Sound
<1>5. PICK text \in Seq(A!Chars) : text = A!Text(s)
  BY <1>2, TextFacts
<1>6. Len(text) = n
  BY <1>2, <1>3, <1>5, TextFacts
<1>7. PICK swept : swept = A!Swept(A!CStr(s.buf), find, by)
  OBVIOUS
<1>8. PICK grown : grown = A!Grown(A!CStr(s.buf), find, by, s.len - 1)
  OBVIOUS
<1>9. CASE A!Change(x, s)
  BY <1>1, <1>9, StaysKept
<1>10. CASE ~A!Change(x, s)
  <2>1. ~(n = 0) /\ ~(Len(find) = 0)
    BY <1>1, <1>3, <1>10, Zenon DEF A!Replace
  <2>2. n > 0 /\ Len(find) > 0 /\ Len(find) \in Nat /\ Len(by) \in Nat /\ text # <<>> /\ n - 1 \in Nat
    BY <1>6, <2>1
  <2>3. A!CStr(s.buf) = text
    BY <1>2, <1>3, <1>5, <2>2, CStrIsText
  <2>4. swept \in Seq(A!Chars) /\ (Len(by) <= Len(find) => Len(swept) <= n)
    BY <1>6, <1>7, <2>2, <2>3, SweptFacts
  <2>5. grown \in Seq(A!Chars)
    BY <1>3, <1>8, <2>2, <2>3, GrownFacts
  <2>6. n < Len(b) /\ Len(b) \in Nat
    BY <1>2, <1>3, <1>4, <2>2 DEF Sound, Holds
  <2>7. CASE Len(by) <= Len(find)
    <3>1. A!Change(x, [buf |-> A!Put(s.buf, 0, swept), len |-> Len(swept)])
      BY <1>1, <1>3, <1>7, <2>1, <2>7, Zenon DEF A!Replace
    <3>2. PICK w : w = [buf |-> A!Put(b, 0, swept), len |-> Len(swept)]
      OBVIOUS
    <3>3. Len(swept) < Len(b)
      BY <2>4, <2>6, <2>7
    <3>4. Sound(w) /\ A!Text(w) = swept
      BY <2>4, <3>2, <3>3, WholeSound
    <3>5. A!Change(x, w)
      BY <1>4, <3>1, <3>2
    <3>6. Kept(x) /\ str'[x] = w
      BY <3>4, <3>5, ChangeKept
    <3> QED BY <1>1, <1>5, <1>7, <2>3, <3>4, <3>6
  <2>8. CASE ~(Len(by) <= Len(find))
    <3>1. PICK r : r = IF Len(swept) > A!Capacity(s) THEN A!Realloc(s, Len(swept)) ELSE s.buf
      OBVIOUS
    <3>2. PICK fits : fits = (Len(grown) <= Len(r) - 1)
      OBVIOUS
    <3>3. /\ str' = [str EXCEPT ![x] =
                        IF fits THEN [buf |-> A!Put(r, 0, grown), len |-> Len(grown)] ELSE @]
          /\ broken' = ~fits
      BY <1>1, <1>3, <1>7, <1>8, <1>10, <2>1, <2>8, <3>1, <3>2, Zenon DEF A!Replace
    <3>4. r \in Seq(Bytes)
      <4>1. CASE Len(swept) > A!Capacity(s)
        <5>1. Len(swept) \in Nat /\ Len(swept) + 1 >= Len(s.buf)
          BY <1>4, <2>4, <2>6, <4>1 DEF A!Capacity
        <5>2. A!Realloc(s, Len(swept)) \in Seq(Bytes)
          BY <1>2, <5>1, ReallocFacts
        <5> QED BY <3>1, <4>1, <5>2
      <4>2. CASE ~(Len(swept) > A!Capacity(s))
        BY <1>4, <3>1, <4>2
      <4> QED BY <4>1, <4>2
    <3>5. PICK w : w = IF fits THEN [buf |-> A!Put(r, 0, grown), len |-> Len(grown)] ELSE s
      OBVIOUS
    <3>6. str' = [str EXCEPT ![x] = w]
      BY <1>1, <3>3, <3>5
    <3>7. fits => Sound(w) /\ A!Text(w) = grown
      <4> SUFFICES ASSUME fits PROVE Sound(w) /\ A!Text(w) = grown
        OBVIOUS
      <4>1. w = [buf |-> A!Put(r, 0, grown), len |-> Len(grown)]
        BY <3>5
      <4>2. Len(grown) < Len(r)
        <5>1. Len(grown) \in Nat /\ Len(r) \in Nat
          BY <2>5, <3>4
        <5>2. Len(grown) <= Len(r) - 1
          BY <3>2
        <5> QED BY <5>1, <5>2
      <4> QED BY <2>5, <3>4, <4>1, <4>2, WholeSound
    <3>8. broken' \in BOOLEAN /\ (~broken' => fits)
      BY <3>3
    <3>9. Kept(x) /\ str'[x] = w
      BY <3>6, <3>7, <3>8, PutAt
    <3>10. Len(find) = 1 => grown = swept
      <4> SUFFICES ASSUME Len(find) = 1 PROVE grown = swept
        OBVIOUS
      <4>1. A!Grown(text, find, by, Len(text) - 1) = A!Swept(text, find, by)
        BY <2>2, GrownIsSwept
      <4>2. s.len - 1 = Len(text) - 1
        BY <1>3, <1>6
      <4> QED BY <1>7, <1>8, <2>3, <4>1, <4>2
    <3>11. ASSUME ~broken', Len(find) = 1 PROVE A!Text(str'[x]) = A!Swept(A!Text(str[x]), find, by)
      BY <1>1, <1>5, <1>7, <2>3, <3>7, <3>8, <3>9, <3>10, <3>11
    <3> QED BY <2>8, <3>9, <3>11
  <2> QED BY <2>7, <2>8
<1> QED BY <1>9, <1>10

-----------------------------------------------------------------------------
(* The invariant.                                                          *)

LEMMA InitSound == TextInit => StringInv
<1> SUFFICES ASSUME TextInit PROVE StringInv
  OBVIOUS
<1>1. str \in [Names -> {A!Null} \cup {A!Copied(A!Null, t) : t \in Texts}] /\ broken = FALSE
  BY DEF TextInit, A!Init
<1>2. ASSUME NEW x \in Names PROVE Sound(str[x])
  <2>1. str[x] = A!Null \/ \E t \in Texts : str[x] = A!Copied(A!Null, t)
    BY <1>1
  <2>2. CASE str[x] = A!Null
    BY <2>2, NullSound
  <2>3. CASE \E t \in Texts : str[x] = A!Copied(A!Null, t)
    <3>1. PICK t \in Texts : str[x] = A!Copied(A!Null, t)
      BY <2>3
    <3>2. t \in Seq(A!Chars)
      BY StringAssumption
    <3>3. Sound(A!Copied(A!Null, t))
      BY <3>2, NullSound, CopiedSound
    <3> QED BY <3>1, <3>3
  <2> QED BY <2>1, <2>2, <2>3
<1> QED BY <1>1, <1>2 DEF StringInv

LEMMA StringStepKeeps == StringInv /\ [TextNext]_textVars => StringInv'
<1> SUFFICES ASSUME StringInv, [TextNext]_textVars PROVE StringInv'
  OBVIOUS
<1>1. [A!Next]_(A!vars)
  BY StringPart
<1>2. CASE UNCHANGED A!vars
  BY <1>2, Zenon DEF A!vars, StringInv
<1>3. CASE A!Next
  <2> USE <1>3
  <2>1. ~broken
    BY DEF A!Next
  <2>2. \A t \in Texts : t \in Seq(A!Chars)
    BY StringAssumption
  <2>3. Edited \subseteq Names /\ MaxLen \in Nat /\ " " \in A!Chars /\ "a" \in A!Chars
    BY StringAssumption, CharFacts, Zenon
  <2>4. ASSUME NEW x \in Names, NEW y \in Names, A!Assign(x, y) \/ A!Move(x, y) \/ A!Concat(x, y)
        PROVE  StringInv'
    BY <2>1, <2>4, AssignKept, MoveKept, ConcatKept, KeptKeeps
  <2>5. ASSUME NEW x \in Names,
               A!AssignNull(x) \/ A!Clear(x) \/ \E t \in Texts : A!AssignText(x, t)
        PROVE  StringInv'
    <3>1. A!AssignNull(x) => Kept(x)
      BY <2>1, InvalidKept DEF A!AssignNull
    <3> QED BY <2>1, <2>2, <2>5, <3>1, ClearKept, AssignTextKept, KeptKeeps
  <2>6. ASSUME NEW x \in Edited, NEW t \in Texts, A!ConcatText(x, t, FALSE) PROVE StringInv'
    BY <2>1, <2>2, <2>3, <2>6, ConcatTextKept, KeptKeeps
  <2>7. ASSUME NEW x \in Edited,
               A!Trim(x) \/ A!ToLowerCase(x) \/ A!ToUpperCase(x) \/ A!ReplaceChar(x, " ", "a")
        PROVE  StringInv'
    <3>1. x \in Names
      BY <2>3
    <3>2. A!ReplaceChar(x, " ", "a") => Kept(x)
      BY <2>1, <2>3, <3>1, SwapKept, Zenon
    <3>3. A!Trim(x) => Kept(x)
      BY <2>1, <3>1, TrimKept
    <3>4. (A!ToLowerCase(x) => Kept(x)) /\ (A!ToUpperCase(x) => Kept(x))
      BY <2>1, <3>1, CasesKept
    <3>5. Kept(x)
      BY <2>7, <3>2, <3>3, <3>4, Zenon
    <3> QED BY <2>1, <3>1, <3>5, KeptKeeps
  <2>8. ASSUME NEW x \in Edited, A!Reserve(x, MaxLen) PROVE StringInv'
    BY <2>1, <2>3, <2>8, ReserveKept, KeptKeeps
  <2>9. ASSUME NEW x \in Edited, NEW n \in 0..1,
               A!Remove(x, n, 1) \/ A!Remove(x, n, MaxLen) \/ A!SetCharAt(x, n, " ")
        PROVE  StringInv'
    <3>1. x \in Names /\ n \in Nat /\ 1 \in Nat /\ MaxLen \in Nat
      <4>1. Edited \subseteq Names /\ MaxLen \in Nat
        BY <2>3, Zenon
      <4> QED BY <4>1
    <3>2. A!SetCharAt(x, n, " ") => Kept(x)
      BY <2>1, <2>3, <3>1, SetCharAtKept, Zenon
    <3>3. A!Remove(x, n, 1) \/ A!Remove(x, n, MaxLen) => Kept(x)
      BY <2>1, <3>1, RemoveKept
    <3>4. Kept(x)
      BY <2>9, <3>2, <3>3, Zenon
    <3> QED BY <2>1, <3>1, <3>4, KeptKeeps
  <2>10. ASSUME NEW x \in Edited, NEW p \in Pairs, A!Replace(x, p[1], p[2]) PROVE StringInv'
    <3>1. x \in Names /\ p[1] \in Seq(A!Chars) /\ p[2] \in Seq(A!Chars)
      BY <2>3, StringAssumption
    <3>2. Kept(x)
      BY <2>1, <2>10, <3>1, ReplaceKept
    <3> QED BY <2>1, <3>1, <3>2, KeptKeeps
  <2> QED BY <2>4, <2>5, <2>6, <2>7, <2>8, <2>9, <2>10, Zenon DEF A!Next
<1> QED BY <1>1, <1>2, <1>3

LEMMA StringInvHolds == TextSpec => []StringInv
<1>1. TextInit => StringInv
  BY InitSound
<1>2. StringInv /\ [TextNext]_textVars => StringInv'
  BY StringStepKeeps
<1> QED BY <1>1, <1>2, PTL DEF TextSpec

(* What a Terminated String is follows from what a sound one is.           *)
LEMMA SoundTerminated ==
    ASSUME StringInv, ~broken
    PROVE  A!Terminated
<1> SUFFICES ASSUME NEW x \in Names
             PROVE  /\ A!Valid(str[x]) => \E i \in DOMAIN str[x].buf : str[x].buf[i] = A!Nul
                    /\ str[x].len > 0 => /\ A!Valid(str[x]) /\ str[x].len <= A!Capacity(str[x])
                                         /\ A!CStr(str[x].buf) = A!Text(str[x])
  BY Zenon DEF A!Terminated
<1>1. Sound(str[x])
  BY DEF StringInv
<1>2. A!Valid(str[x]) => \E i \in DOMAIN str[x].buf : str[x].buf[i] = A!Nul
  BY <1>1 DEF Sound, A!Valid
<1>3. ASSUME str[x].len > 0
      PROVE  A!Valid(str[x]) /\ str[x].len <= A!Capacity(str[x]) /\ A!CStr(str[x].buf) = A!Text(str[x])
  <2>1. str[x].len < Len(str[x].buf) /\ str[x].len \in Nat /\ Len(str[x].buf) \in Nat
    BY <1>1, <1>3 DEF Sound, Holds
  <2>2. str[x].len <= A!Capacity(str[x])
    BY <2>1 DEF A!Capacity
  <2> QED BY <1>1, <1>3, <2>2, TextFacts, CStrIsText
<1> QED BY <1>2, <1>3

-----------------------------------------------------------------------------
(* The searches.                                                           *)

(* A text with a NUL behind it, as a C string.                             *)
LEMMA EndsAtNul ==
    ASSUME NEW t \in Seq(A!Chars)
    PROVE  A!CStr(t \o <<A!Nul>>) = t /\ Len(t \o <<A!Nul>>) = Len(t) + 1
<1>1. PICK last \in Seq(Bytes) : last = <<A!Nul>> /\ Len(last) = 1 /\ last[1] = A!Nul
  <2>1. A!Nul \in Bytes
    BY CharFacts, Zenon
  <2>2. PICK nul \in Bytes : nul = A!Nul
    BY <2>1
  <2>3. <<nul>> \in Seq(Bytes) /\ Len(<<nul>>) = 1 /\ <<nul>>[1] = nul
    OBVIOUS
  <2> QED BY <2>2, <2>3, Zenon
<1>2. PICK s \in Seq(Bytes) : s = t
  BY CharsAreBytes
<1>3. PICK b : b = s \o last
  OBVIOUS
<1>4. /\ b \in Seq(Bytes) /\ Len(b) = Len(s) + Len(last) /\ Len(s) \in Nat
      /\ (\A i \in 1..Len(s) : b[i] = s[i]) /\ \A i \in 1..Len(last) : b[Len(s) + i] = last[i]
  BY <1>3, JoinedSeq
<1>5. PICK n \in Nat : n = Len(t)
  OBVIOUS
<1>6. Len(b) = n + 1 /\ b[n + 1] = A!Nul /\ (\A i \in 1..n : b[i] = t[i] /\ b[i] \in A!Chars)
  <2>1. Len(s) = n /\ 1 \in 1..Len(last) /\ \A i \in 1..n : t[i] \in A!Chars
    BY <1>1, <1>2, <1>5
  <2> QED BY <1>1, <1>2, <1>4, <2>1
<1>7. PICK w : w = [buf |-> b, len |-> n]
  OBVIOUS
<1>8. w.buf = b /\ w.len = n
  BY <1>7
<1>9. Sound(w)
  <2>1. Holds(b, n)
    BY <1>6 DEF Holds
  <2> QED BY <1>4, <1>7, <2>1, MadeSound
<1>10. A!Text(w) \in Seq(A!Chars) /\ Len(A!Text(w)) = n /\ \A i \in 1..n : A!Text(w)[i] = b[i]
  BY <1>8, <1>9, TextFacts
<1>11. A!Text(w) = t
  <2>1. \A i \in 1..Len(A!Text(w)) : A!Text(w)[i] = t[i]
    BY <1>6, <1>10
  <2> QED BY <1>5, <1>10, <2>1, SameSeq
<1>12. A!CStr(b) = t
  <2>1. CASE n > 0
    <3>1. w.len > 0
      BY <1>8, <2>1
    <3>2. A!CStr(w.buf) = A!Text(w)
      BY <1>9, <3>1, CStrIsText, Zenon
    <3> QED BY <1>8, <1>11, <3>2, Zenon
  <2>2. CASE n = 0
    <3>1. \E i \in DOMAIN b : b[i] = A!Nul
      <4>1. b \in Seq(Bytes) /\ Len(b) = n + 1
        BY <1>4, <1>6
      <4>2. n + 1 \in DOMAIN b
        BY <4>1
      <4> QED BY <1>6, <4>2
    <3>2. PICK c : c = A!CStr(b)
      OBVIOUS
    <3>3. c \in Seq(Bytes \ {A!Nul}) /\ Len(c) < Len(b)
      BY <1>4, <3>1, <3>2, FirstNul
    <3>4. Len(c) = 0
      <4>1. Len(b) = 1
        BY <1>1, <1>2, <1>3, <1>5, <1>4, <2>2
      <4>2. Len(c) \in Nat
        BY <3>3
      <4> QED BY <3>3, <4>1, <4>2
    <3>5. c = t
      <4>1. c \in Seq(Bytes) /\ t \in Seq(Bytes)
        BY <3>3, CharsAreBytes
      <4>2. Len(c) = Len(t) /\ \A i \in 1..Len(c) : c[i] = t[i]
        BY <1>5, <2>2, <3>4
      <4> QED BY <4>1, <4>2, SameSeq
    <3> QED BY <3>2, <3>5
  <2> QED BY <2>1, <2>2
<1> QED BY <1>1, <1>2, <1>3, <1>5, <1>6, <1>12

(* getBytes() gives what substring() gives, as far as the buffer goes.     *)
LEMMA BytesAgree ==
    ASSUME NEW s, Sound(s), NEW i \in 0..s.len, NEW size \in 1..s.len + 1
    PROVE  LET got == A!GetBytes(s, size, i)
               cut == A!Substring(s, i, s.len)
           IN  /\ A!CStr(got) = SubSeq(cut, 1, Len(got) - 1)
               /\ Len(got) = IF size > Len(cut) THEN Len(cut) + 1 ELSE size
<1>1. PICK len \in Nat : len = s.len
  BY DEF Sound
<1>2. i \in Nat /\ i <= len /\ size \in Nat /\ size >= 1
  BY <1>1
<1>3. PICK got : got = A!GetBytes(s, size, i)
  OBVIOUS
<1>4. PICK cut : cut = A!Substring(s, i, len)
  OBVIOUS
<1>5. PICK none \in Seq(A!Chars) : none = <<>> /\ Len(none) = 0
  <2>1. <<>> \in Seq(A!Chars) /\ Len(<<>>) = 0
    OBVIOUS
  <2> QED BY <2>1, Zenon
<1>6. CASE i = len
  <2>1. ~(i > len) /\ i >= len
    BY <1>2, <1>6
  <2>2. cut = none
    BY <1>1, <1>4, <1>5, <2>1, Zenon DEF A!Substring
  <2>3. got = <<A!Nul>>
    BY <1>1, <1>3, <2>1, Zenon DEF A!GetBytes
  <2>4. got = none \o <<A!Nul>>
    BY <1>5, <2>3
  <2>5. A!CStr(got) = none /\ Len(got) = 0 + 1
    BY <1>5, <2>4, EndsAtNul
  <2>6. SubSeq(cut, 1, 0) = none
    BY <1>5, <2>2
  <2>7. Len(got) - 1 = 0 /\ Len(got) = IF size > Len(cut) THEN Len(cut) + 1 ELSE size
    BY <1>2, <1>5, <2>2, <2>5
  <2> QED BY <1>1, <1>3, <1>4, <2>5, <2>6, <2>7
<1>7. CASE i < len
  <2>1. ~(i > len) /\ ~(i >= len) /\ ~(len > len)
    BY <1>2, <1>7
  <2>2. cut = SubSeq(s.buf, i + 1, len)
    BY <1>1, <1>4, <2>1, Zenon DEF A!Substring
  <2>3. cut \in Seq(A!Chars) /\ Len(cut) = len - i /\ \A j \in 1..len - i : cut[j] = s.buf[i + j]
    <3>1. i <= len /\ len <= s.len
      BY <1>1, <1>2
    <3>2. PICK r \in Nat : r = len
      OBVIOUS
    <3>3. PICK c : c = SubSeq(s.buf, i + 1, r)
      OBVIOUS
    <3>4. c \in Seq(A!Chars) /\ Len(c) = r - i /\ \A j \in 1..r - i : c[j] = s.buf[i + j]
      <4>1. i <= r /\ r <= s.len
        BY <3>1, <3>2
      <4> QED BY <1>2, <3>3, <4>1, CutFacts
    <3>5. cut = c
      BY <2>2, <3>2, <3>3
    <3> QED BY <3>2, <3>4, <3>5
  <2>4. PICK n \in Nat : n = IF size - 1 > len - i THEN len - i ELSE size - 1
    <3>1. len - i \in Nat /\ size - 1 \in Nat
      BY <1>2, <1>7
    <3> QED BY <3>1, Zenon
  <2>5. n <= len - i /\ i + n \in Nat /\ i <= i + n /\ i + n <= s.len /\ i + n - i = n
    BY <1>1, <1>2, <1>7, <2>4
  <2>6. got = SubSeq(s.buf, i + 1, i + n) \o <<A!Nul>>
    BY <1>1, <1>3, <2>1, <2>4, Zenon DEF A!GetBytes
  <2>7. PICK t \in Seq(A!Chars) : t = SubSeq(s.buf, i + 1, i + n) /\ Len(t) = n
                                   /\ \A j \in 1..n : t[j] = s.buf[i + j]
    <3>1. PICK r \in Nat : r = i + n
      BY <2>5
    <3>2. PICK t : t = SubSeq(s.buf, i + 1, r)
      OBVIOUS
    <3>3. t \in Seq(A!Chars) /\ Len(t) = r - i /\ \A j \in 1..r - i : t[j] = s.buf[i + j]
      <4>1. i <= r /\ r <= s.len
        BY <2>5, <3>1
      <4> QED BY <1>2, <3>2, <4>1, CutFacts
    <3>4. r - i = n
      BY <2>5, <3>1
    <3> QED BY <3>1, <3>2, <3>3, <3>4
  <2>8. A!CStr(got) = t /\ Len(got) = n + 1
    BY <2>6, <2>7, EndsAtNul
  <2>9. SubSeq(cut, 1, n) = t
    <3>1. PICK u : u = SubSeq(cut, 1, n)
      OBVIOUS
    <3>2. u \in Seq(A!Chars) /\ Len(u) = n /\ \A j \in 1..n : u[j] = cut[j]
      BY <2>3, <2>5, <3>1, FrontFacts
    <3>3. \A j \in 1..n : j \in 1..len - i
      BY <1>2, <2>5
    <3>4. \A j \in 1..Len(u) : u[j] = t[j]
      BY <2>3, <2>7, <3>2, <3>3
    <3>5. u = t
      BY <2>7, <3>2, <3>4, SameSeq
    <3> QED BY <3>1, <3>5
  <2>10. Len(got) - 1 = n /\ Len(got) = IF size > Len(cut) THEN Len(cut) + 1 ELSE size
    BY <1>2, <1>7, <2>3, <2>4, <2>8
  <2> QED BY <1>1, <1>3, <1>4, <2>8, <2>9, <2>10
<1> QED BY <1>2, <1>6, <1>7

(* indexOf() and lastIndexOf() of a text, and what confirms them.          *)
FoundAlike(s, t) ==
    LET p == A!IndexOf(s, t, 0)
        q == A!LastIndexOf(s, t, s.len - 1)
    IN  /\ (p < 0) = (q < 0) /\ p <= q
        /\ p >= 0 => A!StartsWith(s, t, p) /\ A!Substring(s, p + Len(t), p) = t
        /\ A!EndsWith(s, t) = (q >= 0 /\ q = s.len - Len(t))

LEMMA FindsAlike ==
    ASSUME NEW s, Sound(s), s.len > 0, NEW t \in Seq(A!Chars), Len(t) > 0
    PROVE  FoundAlike(s, t)
<1>1. PICK n \in Nat : n = s.len /\ n > 0
  BY DEF Sound
<1>2. PICK k \in Nat : k = Len(t) /\ k > 0
  OBVIOUS
<1>3. PICK text \in Seq(A!Chars) : text = A!Text(s) /\ Len(text) = n /\ A!CStr(s.buf) = text
  BY <1>1, TextFacts, CStrIsText
<1>4. A!Valid(s)
  BY <1>1, TextFacts
<1>5. PICK hits : hits = A!Matches(text, t)
  OBVIOUS
<1>6. /\ hits \in SUBSET Nat /\ \A p \in hits : p + k <= n /\ p <= n - 1
      /\ \/ hits = {} /\ A!Least(hits) = -1 /\ A!Greatest(hits) = -1
         \/ /\ A!Least(hits) \in hits /\ A!Greatest(hits) \in hits
            /\ \A p \in hits : A!Least(hits) <= p /\ p <= A!Greatest(hits)
  <2>1. hits \in SUBSET A!Matches(text, t)
    BY <1>5
  <2>2. /\ hits \in SUBSET Nat /\ \A p \in hits : p + Len(t) <= Len(text) /\ p <= Len(text)
        /\ \/ hits = {} /\ A!Least(hits) = -1 /\ A!Greatest(hits) = -1
           \/ /\ A!Least(hits) \in hits /\ A!Greatest(hits) \in hits
              /\ \A p \in hits : A!Least(hits) <= p /\ p <= A!Greatest(hits)
    BY <1>3, <2>1, MatchFacts, Zenon
  <2>3. \A p \in hits : p \in Nat /\ p + k <= n
    BY <1>2, <1>3, <2>2, Zenon
  <2>4. ASSUME NEW p \in Nat, p + k <= n PROVE p <= n - 1
    BY <1>2, <2>4
  <2>5. \A p \in hits : p + k <= n /\ p <= n - 1
    BY <2>3, <2>4, Zenon
  <2> QED BY <2>2, <2>5, Zenon
<1>7. PICK p : p = A!IndexOf(s, t, 0)
  OBVIOUS
<1>8. PICK q : q = A!LastIndexOf(s, t, n - 1)
  OBVIOUS
<1>9. p = A!Least(hits)
  <2>1. {i \in hits : i >= 0} = hits
    <3>1. \A i \in hits : i >= 0
      BY <1>6
    <3> QED BY <3>1, Zenon
  <2>2. ~(0 >= s.len)
    BY <1>1
  <2> QED BY <1>3, <1>5, <1>7, <2>1, <2>2, Zenon DEF A!IndexOf
<1>10. q = A!Greatest(hits)
  <2>1. CASE k > n
    <3>1. hits = {}
      BY <1>6, <2>1
    <3>2. q = -1
      BY <1>1, <1>2, <1>8, <2>1 DEF A!LastIndexOf
    <3>3. A!Greatest(hits) = -1
      BY <1>6, <3>1
    <3> QED BY <3>2, <3>3
  <2>2. CASE k <= n
    <3>1. ~(Len(t) = 0 \/ s.len = 0 \/ Len(t) > s.len) /\ ~(n - 1 >= s.len)
      BY <1>1, <1>2, <2>2
    <3>2. {i \in hits : i <= n - 1} = hits
      BY <1>6
    <3>3. q = A!Greatest({i \in hits : i <= n - 1})
      BY <1>3, <1>5, <1>8, <3>1, Zenon DEF A!LastIndexOf
    <3> QED BY <3>2, <3>3
  <2>3. k > n \/ k <= n
    BY <1>1, <1>2
  <2> QED BY <2>1, <2>2, <2>3, Zenon
<1>11. (p < 0) = (q < 0) /\ p <= q
  <2>1. (p = -1 /\ q = -1) \/ (p \in hits /\ q \in hits /\ p <= q)
    <3>1. p = A!Least(hits) /\ q = A!Greatest(hits)
      BY <1>9, <1>10
    <3>2. hits # {} => A!Least(hits) <= A!Greatest(hits)
      BY <1>6
    <3>3. hits = {} => A!Least(hits) = -1 /\ A!Greatest(hits) = -1
      BY <1>6
    <3>4. hits # {} => A!Least(hits) \in hits /\ A!Greatest(hits) \in hits
      BY <1>6
    <3> QED BY <3>1, <3>2, <3>3, <3>4
  <2>2. (p = -1 /\ q = -1) \/ (p \in Nat /\ q \in Nat /\ p <= q)
    BY <1>6, <2>1
  <2> QED BY <2>2
(* A match is where the bytes of the buffer are those of the text.         *)
<1>12. ASSUME NEW i \in hits
       PROVE  /\ i \in Nat /\ i + k \in Nat /\ i + k <= n /\ i <= n - k
              /\ SubSeq(s.buf, i + 1, i + k) = t
  <2>1. i \in Nat /\ i + k <= n /\ i <= n - k
    BY <1>6
  <2>2. SubSeq(text, i + 1, i + k) = t
    BY <1>2, <1>5 DEF A!Matches
  <2>3. PICK r \in Nat : r = i + k
    BY <2>1
  <2>4. SubSeq(s.buf, i + 1, r) = SubSeq(text, i + 1, r)
    <3>1. i <= r /\ r <= s.len
      BY <1>1, <2>1, <2>3
    <3> QED BY <1>3, <2>1, <3>1, CutFacts
  <2> QED BY <2>1, <2>2, <2>3, <2>4
<1>13. ASSUME p >= 0 PROVE A!StartsWith(s, t, p) /\ A!Substring(s, p + Len(t), p) = t
  <2>1. p \in hits
    BY <1>6, <1>9, <1>13
  <2>2. p \in Nat /\ p + k <= n /\ p <= n - k /\ SubSeq(s.buf, p + 1, p + k) = t
    BY <1>12, <2>1
  <2>3. A!StartsWith(s, t, p)
    BY <1>1, <1>2, <1>4, <2>2 DEF A!StartsWith
  <2>4. PICK r \in Nat : r = p + k
    BY <2>2
  <2>5. r > p /\ ~(p >= s.len) /\ ~(r > s.len)
    BY <1>1, <1>2, <2>2, <2>4
  <2>6. A!Substring(s, r, p) = SubSeq(s.buf, p + 1, r)
    BY <2>5, Zenon DEF A!Substring
  <2> QED BY <1>2, <2>2, <2>3, <2>4, <2>6
<1>14. A!EndsWith(s, t) = (q >= 0 /\ q = n - k)
  <2>1. ASSUME n >= k
        PROVE  SubSeq(text, n - k + 1, n) = t <=> n - k \in hits
    <3>1. PICK i \in Nat : i = n - k /\ i + k = n
      BY <2>1
    <3>2. i \in 0..n - k
      BY <3>1
    <3>3. i \in hits <=> SubSeq(text, i + 1, i + k) = t
      BY <1>2, <1>3, <1>5, <3>2, Zenon DEF A!Matches
    <3> QED BY <3>1, <3>3
  <2>2. ASSUME n >= k
        PROVE  n - k \in hits <=> q >= 0 /\ q = n - k
    <3>1. ASSUME n - k \in hits PROVE q >= 0 /\ q = n - k
      <4>1. q \in hits /\ n - k <= q
        BY <1>6, <1>10, <3>1
      <4>2. q \in Nat /\ q + k <= n
        BY <1>6, <4>1
      <4> QED BY <4>1, <4>2
    <3>2. ASSUME q >= 0, q = n - k PROVE n - k \in hits
      BY <1>6, <1>10, <3>2
    <3> QED BY <3>1, <3>2
  <2>3. A!EndsWith(s, t) <=> n >= k /\ SubSeq(text, n - k + 1, n) = t
    BY <1>1, <1>2, <1>3, <1>4, Zenon DEF A!EndsWith
  <2>4. q >= 0 /\ q = n - k => n >= k
    OBVIOUS
  <2>5. A!EndsWith(s, t) <=> (q >= 0 /\ q = n - k)
    BY <2>1, <2>2, <2>3, <2>4, Zenon
  <2>6. A!EndsWith(s, t) \in BOOLEAN
    BY Zenon DEF A!EndsWith
  <2> QED BY <2>5, <2>6
<1> QED BY <1>1, <1>2, <1>7, <1>8, <1>11, <1>13, <1>14, Zenon DEF FoundAlike

(* Texts of a String are not empty sequences of characters.                *)
LEMMA SoundSearches ==
    ASSUME StringInv, ~broken
    PROVE  A!SearchesAgree
<1>1. \A x \in Names : Sound(str[x])
  BY DEF StringInv
<1>2. ASSUME NEW x \in Names, NEW i \in 0..str[x].len, NEW size \in 1..str[x].len + 1
      PROVE  LET bytes_ == A!GetBytes(str[x], size, i)
                 cut == A!Substring(str[x], i, str[x].len)
             IN  /\ A!CStr(bytes_) = SubSeq(cut, 1, Len(bytes_) - 1)
                 /\ Len(bytes_) = IF size > Len(cut) THEN Len(cut) + 1 ELSE size
  <2>1. Sound(str[x])
    BY <1>1
  <2> QED BY <2>1, BytesAgree, Zenon
<1>3. ASSUME NEW x \in Names, NEW t \in {u \in Texts : u # <<>>}, str[x].len > 0
      PROVE  FoundAlike(str[x], t)
  <2>1. Sound(str[x])
    BY <1>1
  <2>2. t \in Seq(A!Chars) /\ Len(t) > 0
    <3>1. t \in Seq(A!Chars) /\ t # <<>>
      BY StringAssumption
    <3> QED BY <3>1
  <2> QED BY <1>3, <2>1, <2>2, FindsAlike
<1> QED BY <1>2, <1>3, Zenon DEF A!SearchesAgree, FoundAlike

-----------------------------------------------------------------------------
(* The comparisons.                                                        *)

(* Every character has its own code.                                       *)
LEMMA CodeFacts ==
    /\ \A c \in A!Chars : A!Code(c) \in Nat
    /\ \A c, d \in A!Chars : A!Code(c) = A!Code(d) => c = d
<1>1. ASSUME NEW c \in A!Chars
      PROVE  A!Code(c) \in DOMAIN Alphabet /\ Alphabet[A!Code(c)] = c
  <2>1. \E i \in DOMAIN Alphabet : Alphabet[i] = c
    BY Zenon DEF A!Chars
  <2> QED BY <2>1, Zenon DEF A!Code
<1>2. DOMAIN Alphabet \subseteq Nat
  <2>1. Alphabet \in Seq(A!Chars)
    BY StringAssumption
  <2> QED BY <2>1
<1> QED BY <1>1, <1>2, Zenon

(* A text is less than another from the first place where they differ.     *)
Lesser(s, t, n) ==
    /\ n \in Nat /\ n <= Len(s) /\ n < Len(t)
    /\ \A i \in 1..n : s[i] = t[i]
    /\ n = Len(s) \/ A!Code(s[n + 1]) < A!Code(t[n + 1])

LEMMA LessFacts ==
    ASSUME NEW s \in Seq(A!Chars), NEW t \in Seq(A!Chars)
    PROVE  A!Less(s, t) <=> \E n : Lesser(s, t, n)
<1>1. PICK l \in Nat : l = Len(s)
  OBVIOUS
<1>2. PICK m \in Nat : m = Len(t)
  OBVIOUS
<1>3. ASSUME NEW n \in Nat, n <= l, n < m
      PROVE  SubSeq(s, 1, n) = SubSeq(t, 1, n) <=> \A i \in 1..n : s[i] = t[i]
  <2>1. PICK u \in Seq(A!Chars) : u = SubSeq(s, 1, n) /\ Len(u) = n /\ \A i \in 1..n : u[i] = s[i]
    <3>1. /\ SubSeq(s, 1, n) \in Seq(A!Chars) /\ Len(SubSeq(s, 1, n)) = n
          /\ \A i \in 1..n : SubSeq(s, 1, n)[i] = s[i]
      BY <1>1, <1>3, FrontFacts
    <3> QED BY <3>1, Zenon
  <2>2. PICK v \in Seq(A!Chars) : v = SubSeq(t, 1, n) /\ Len(v) = n /\ \A i \in 1..n : v[i] = t[i]
    <3>1. /\ SubSeq(t, 1, n) \in Seq(A!Chars) /\ Len(SubSeq(t, 1, n)) = n
          /\ \A i \in 1..n : SubSeq(t, 1, n)[i] = t[i]
      BY <1>2, <1>3, FrontFacts
    <3> QED BY <3>1, Zenon
  <2>3. ASSUME \A i \in 1..n : s[i] = t[i] PROVE u = v
    BY <2>1, <2>2, <2>3, SameSeq
  <2>4. ASSUME u = v PROVE \A i \in 1..n : s[i] = t[i]
    BY <2>1, <2>2, <2>4
  <2> QED BY <2>1, <2>2, <2>3, <2>4, Zenon
<1>4. ASSUME A!Less(s, t) PROVE \E n : Lesser(s, t, n)
  <2>1. PICK n \in 0..l : /\ n < m /\ SubSeq(s, 1, n) = SubSeq(t, 1, n)
                          /\ n = l \/ A!Code(s[n + 1]) < A!Code(t[n + 1])
    BY <1>1, <1>2, <1>4, Zenon DEF A!Less
  <2>2. n \in Nat /\ n <= l
    OBVIOUS
  <2>3. \A i \in 1..n : s[i] = t[i]
    BY <1>3, <2>1, <2>2
  <2> QED BY <1>1, <1>2, <2>1, <2>2, <2>3, Zenon DEF Lesser
<1>5. ASSUME NEW n, Lesser(s, t, n) PROVE A!Less(s, t)
  <2>1. /\ n \in Nat /\ n <= l /\ n < m /\ (\A i \in 1..n : s[i] = t[i])
        /\ n = l \/ A!Code(s[n + 1]) < A!Code(t[n + 1])
    BY <1>1, <1>2, <1>5, Zenon DEF Lesser
  <2>2. n \in 0..l
    BY <2>1
  <2>3. SubSeq(s, 1, n) = SubSeq(t, 1, n)
    BY <1>3, <2>1
  <2> QED BY <1>1, <1>2, <2>1, <2>2, <2>3, Zenon DEF A!Less
<1> QED BY <1>4, <1>5, Zenon

(* Of two texts that differ, one is less than the other and not both are.  *)
LEMMA OneIsLess ==
    ASSUME NEW s \in Seq(A!Chars), NEW t \in Seq(A!Chars)
    PROVE  /\ ~(A!Less(s, t) /\ A!Less(t, s))
           /\ s = t \/ A!Less(s, t) \/ A!Less(t, s)
<1>1. PICK l \in Nat : l = Len(s)
  OBVIOUS
<1>2. PICK m \in Nat : m = Len(t)
  OBVIOUS
<1>3. /\ \A i \in 1..l : A!Code(s[i]) \in Nat
      /\ \A i \in 1..m : A!Code(t[i]) \in Nat
      /\ \A i \in 1..l : i <= m /\ A!Code(s[i]) = A!Code(t[i]) => s[i] = t[i]
  <2>1. (\A i \in 1..l : s[i] \in A!Chars) /\ \A i \in 1..m : t[i] \in A!Chars
    BY <1>1, <1>2
  <2>2. \A i \in 1..l : i <= m => i \in 1..m
    OBVIOUS
  <2> QED BY <2>1, <2>2, CodeFacts, Zenon
<1>4. ASSUME NEW n, NEW k, Lesser(s, t, n), Lesser(t, s, k) PROVE FALSE
  <2>1. /\ n \in Nat /\ n <= l /\ n < m /\ (\A i \in 1..n : s[i] = t[i])
        /\ n = l \/ A!Code(s[n + 1]) < A!Code(t[n + 1])
    BY <1>1, <1>2, <1>4, Zenon DEF Lesser
  <2>2. /\ k \in Nat /\ k <= m /\ k < l /\ (\A i \in 1..k : t[i] = s[i])
        /\ k = m \/ A!Code(t[k + 1]) < A!Code(s[k + 1])
    BY <1>1, <1>2, <1>4, Zenon DEF Lesser
  <2>3. CASE n < k
    <3>1. n + 1 \in 1..k /\ n # l /\ n + 1 \in 1..l /\ n + 1 \in 1..m
      BY <2>1, <2>2, <2>3
    <3>2. s[n + 1] = t[n + 1] /\ A!Code(s[n + 1]) < A!Code(t[n + 1])
      BY <2>1, <2>2, <3>1
    <3> QED BY <1>3, <3>1, <3>2
  <2>4. CASE k < n
    <3>1. k + 1 \in 1..n /\ k # m /\ k + 1 \in 1..l /\ k + 1 \in 1..m
      BY <2>1, <2>2, <2>4
    <3>2. s[k + 1] = t[k + 1] /\ A!Code(t[k + 1]) < A!Code(s[k + 1])
      BY <2>1, <2>2, <3>1
    <3> QED BY <1>3, <3>1, <3>2
  <2>5. CASE n = k
    <3>1. n # l /\ k # m /\ n + 1 \in 1..l /\ n + 1 \in 1..m
      BY <2>1, <2>2, <2>5
    <3>2. A!Code(s[n + 1]) < A!Code(t[n + 1]) /\ A!Code(t[n + 1]) < A!Code(s[n + 1])
      BY <2>1, <2>2, <2>5, <3>1
    <3> QED BY <1>3, <3>1, <3>2
  <2> QED BY <2>1, <2>2, <2>3, <2>4, <2>5
<1>5. ASSUME s # t PROVE (\E n : Lesser(s, t, n)) \/ \E n : Lesser(t, s, n)
  <2> DEFINE Differing == {i \in 1..l : i <= m /\ s[i] # t[i]}
  <2>1. CASE Differing = {}
    <3>1. \A i \in 1..l : i <= m => s[i] = t[i]
      BY <2>1
    <3>2. CASE l < m
      <4>1. \A i \in 1..l : s[i] = t[i]
        BY <3>1, <3>2
      <4>2. Lesser(s, t, l)
        BY <1>1, <1>2, <3>2, <4>1 DEF Lesser
      <4> QED BY <4>2
    <3>3. CASE m < l
      <4>1. \A i \in 1..m : t[i] = s[i]
        BY <3>1, <3>3
      <4>2. Lesser(t, s, m)
        BY <1>1, <1>2, <3>3, <4>1 DEF Lesser
      <4> QED BY <4>2
    <3>4. CASE l = m
      <4>1. \A i \in 1..l : s[i] = t[i]
        BY <3>1, <3>4
      <4> QED BY <1>1, <1>2, <1>5, <3>4, <4>1, SameSeq
    <3> QED BY <3>2, <3>3, <3>4
  <2>2. CASE Differing # {}
    <3>1. Differing \in SUBSET Nat
      OBVIOUS
    <3> HIDE DEF Differing
    <3>2. PICK d \in Differing : \A i \in Differing : d <= i
      BY <2>2, <3>1, SmallestOf
    <3>3. d \in 1..l /\ d <= m /\ s[d] # t[d]
      BY DEF Differing
    <3>4. PICK n \in Nat : n = d - 1 /\ n + 1 = d
      BY <3>3
    <3>5. ASSUME NEW i \in 1..n PROVE s[i] = t[i]
      <4>1. i \in 1..l /\ i <= m /\ ~(d <= i)
        BY <3>3, <3>4
      <4> QED BY <3>2, <4>1 DEF Differing
    <3>6. A!Code(s[d]) < A!Code(t[d]) \/ A!Code(t[d]) < A!Code(s[d])
      <4>1. d \in 1..m
        BY <3>3
      <4> QED BY <1>3, <3>3, <4>1
    <3>7. n <= l /\ n < m /\ n <= m /\ n < l
      BY <3>3, <3>4
    <3>8. A!Code(s[d]) < A!Code(t[d]) => Lesser(s, t, n)
      BY <1>1, <1>2, <3>4, <3>5, <3>7, Zenon DEF Lesser
    <3>9. A!Code(t[d]) < A!Code(s[d]) => Lesser(t, s, n)
      BY <1>1, <1>2, <3>4, <3>5, <3>7, Zenon DEF Lesser
    <3> QED BY <3>6, <3>8, <3>9
  <2> QED BY <2>1, <2>2
<1> QED BY <1>4, <1>5, LessFacts, Zenon

(* What compareTo() answers for Strings whose bytes are those of a text.   *)
LEMMA ComparedAs ==
    ASSUME NEW s, Sound(s), A!Valid(s) => A!CStr(s.buf) = A!Text(s),
           NEW t, Sound(t), A!Valid(t) => A!CStr(t.buf) = A!Text(t)
    PROVE  A!CompareTo(s, t) = IF A!Text(s) = A!Text(t) THEN 0
                               ELSE IF A!Less(A!Text(s), A!Text(t)) THEN -1 ELSE 1
<1>1. PICK u \in Seq(A!Chars) : u = A!Text(s) /\ Len(u) = s.len
  BY TextFacts
<1>2. PICK v \in Seq(A!Chars) : v = A!Text(t) /\ Len(v) = t.len
  BY TextFacts
<1>3. (s.len > 0 => A!Valid(s)) /\ (t.len > 0 => A!Valid(t)) /\ s.len \in Nat /\ t.len \in Nat
  <2>1. s.len \in Nat /\ t.len \in Nat
    BY DEF Sound
  <2> QED BY <2>1, TextFacts
<1>4. ~(A!Less(u, v) /\ A!Less(v, u)) /\ (u = v \/ A!Less(u, v) \/ A!Less(v, u)) /\ ~A!Less(u, u)
  BY OneIsLess
<1>5. CASE A!Valid(s) /\ A!Valid(t)
  <2>1. A!CompareTo(s, t) = IF A!Less(u, v) THEN -1 ELSE IF u = v THEN 0 ELSE 1
    BY <1>1, <1>2, <1>5, Zenon DEF A!CompareTo
  <2> QED BY <1>1, <1>2, <1>4, <2>1, Zenon
<1>6. CASE ~A!Valid(s) \/ ~A!Valid(t)
  <2>1. A!CompareTo(s, t) = IF A!Valid(t) /\ t.len > 0 THEN -1
                            ELSE IF A!Valid(s) /\ s.len > 0 THEN 1 ELSE 0
    BY <1>6, Zenon DEF A!CompareTo
  <2>2. CASE t.len > 0
    <3>1. Len(u) = 0 /\ Len(v) > 0
      BY <1>1, <1>2, <1>3, <1>6, <2>2
    <3>2. u # v /\ A!Less(u, v)
      <4>1. ~\E n : Lesser(v, u, n)
        BY <3>1 DEF Lesser
      <4>2. u # v
        BY <3>1
      <4> QED BY <1>4, <4>1, <4>2, LessFacts
    <3>3. A!CompareTo(s, t) = -1
      BY <1>3, <2>1, <2>2, Zenon
    <3> QED BY <1>1, <1>2, <3>2, <3>3, Zenon
  <2>3. CASE ~(t.len > 0) /\ s.len > 0
    <3>1. Len(v) = 0 /\ Len(u) > 0
      BY <1>1, <1>2, <1>3, <2>3
    <3>2. u # v /\ ~A!Less(u, v)
      <4>1. ~\E n : Lesser(u, v, n)
        BY <3>1 DEF Lesser
      <4>2. u # v
        BY <3>1
      <4> QED BY <4>1, <4>2, LessFacts
    <3>3. A!CompareTo(s, t) = 1
      BY <1>3, <2>1, <2>3, Zenon
    <3> QED BY <1>1, <1>2, <3>2, <3>3, Zenon
  <2>4. CASE ~(t.len > 0) /\ ~(s.len > 0)
    <3>1. Len(u) = Len(v) /\ \A i \in 1..Len(u) : u[i] = v[i]
      BY <1>1, <1>2, <1>3, <2>4
    <3>2. u = v
      BY <3>1, SameSeq
    <3>3. A!CompareTo(s, t) = 0
      BY <2>1, <2>4, Zenon
    <3> QED BY <1>1, <1>2, <3>2, <3>3, Zenon
  <2> QED BY <2>2, <2>3, <2>4, Zenon
<1> QED BY <1>5, <1>6, Zenon

(* A comparison without regard to case is one of the lower case texts.     *)
LEMMA CaseIgnored ==
    ASSUME NEW s, Sound(s), NEW t, Sound(t)
    PROVE  A!EqualsIgnoreCase(s, t) = (A!Lower(A!Text(s)) = A!Lower(A!Text(t)))
<1>1. PICK u \in Seq(A!Chars) : u = A!Text(s) /\ Len(u) = s.len
  BY TextFacts
<1>2. PICK v \in Seq(A!Chars) : v = A!Text(t) /\ Len(v) = t.len
  BY TextFacts
<1>3. s.len \in Nat /\ t.len \in Nat
  BY DEF Sound
<1>4. A!EqualsIgnoreCase(s, t) \in BOOLEAN
  BY Zenon DEF A!EqualsIgnoreCase
<1>5. DOMAIN A!Lower(u) = 1..s.len /\ DOMAIN A!Lower(v) = 1..t.len
  <2>1. DOMAIN A!Lower(u) = DOMAIN u /\ DOMAIN A!Lower(v) = DOMAIN v
    BY Zenon DEF A!Lower
  <2>2. DOMAIN u = 1..s.len /\ DOMAIN v = 1..t.len
    BY <1>1, <1>2
  <2> QED BY <2>1, <2>2
<1>6. ASSUME A!Lower(u) = A!Lower(v) PROVE s.len = t.len
  <2>1. 1..s.len = 1..t.len
    BY <1>5, <1>6
  <2> QED BY <1>3, <2>1
<1>7. CASE s.len # t.len
  <2>1. ~A!EqualsIgnoreCase(s, t)
    BY <1>7, Zenon DEF A!EqualsIgnoreCase
  <2> QED BY <1>1, <1>2, <1>4, <1>6, <1>7, <2>1
<1>8. CASE s.len = t.len /\ s.len > 0
  <2>1. A!CStr(s.buf) = u /\ A!CStr(t.buf) = v
    BY <1>1, <1>2, <1>8, CStrIsText
  <2>2. A!EqualsIgnoreCase(s, t) <=> A!Lower(u) = A!Lower(v)
    BY <1>8, <2>1, Zenon DEF A!EqualsIgnoreCase
  <2> QED BY <1>1, <1>2, <1>4, <2>2
<1>9. CASE s.len = t.len /\ ~(s.len > 0)
  <2>1. A!EqualsIgnoreCase(s, t)
    BY <1>9, Zenon DEF A!EqualsIgnoreCase
  <2>2. u = v
    <3>1. Len(u) = Len(v) /\ \A i \in 1..Len(u) : u[i] = v[i]
      BY <1>1, <1>2, <1>3, <1>9
    <3> QED BY <3>1, SameSeq
  <2> QED BY <1>1, <1>2, <1>4, <2>1, <2>2
<1> QED BY <1>7, <1>8, <1>9, Zenon

LEMMA SoundCompares ==
    ASSUME StringInv, ~broken
    PROVE  A!ComparesByText
<1>1. \A x \in Names : Sound(str[x])
  BY DEF StringInv
<1>2. ASSUME NEW s, Sound(s), A!Valid(s) => A!CStr(s.buf) = A!Text(s),
             NEW t, Sound(t), A!Valid(t) => A!CStr(t.buf) = A!Text(t)
      PROVE  /\ A!Equals(s, t) = (A!Text(s) = A!Text(t))
             /\ A!CompareTo(s, t) = -A!CompareTo(t, s)
             /\ A!CompareTo(s, t) = 0 => A!Equals(s, t)
             /\ A!EqualsIgnoreCase(s, t) = (A!Lower(A!Text(s)) = A!Lower(A!Text(t)))
  <2>1. PICK u \in Seq(A!Chars) : u = A!Text(s) /\ Len(u) = s.len
    BY <1>2, TextFacts
  <2>2. PICK v \in Seq(A!Chars) : v = A!Text(t) /\ Len(v) = t.len
    BY <1>2, TextFacts
  <2>3. A!CompareTo(s, t) = IF u = v THEN 0 ELSE IF A!Less(u, v) THEN -1 ELSE 1
    BY <1>2, <2>1, <2>2, ComparedAs, Zenon
  <2>4. A!CompareTo(t, s) = IF v = u THEN 0 ELSE IF A!Less(v, u) THEN -1 ELSE 1
    BY <1>2, <2>1, <2>2, ComparedAs, Zenon
  <2>5. ~(A!Less(u, v) /\ A!Less(v, u)) /\ (u = v \/ A!Less(u, v) \/ A!Less(v, u))
    BY OneIsLess
  <2>6. A!CompareTo(s, t) = -A!CompareTo(t, s) /\ (A!CompareTo(s, t) = 0 <=> u = v)
    BY <2>3, <2>4, <2>5
  <2>7. A!Equals(s, t) = (u = v)
    <3>1. A!Equals(s, t) \in BOOLEAN
      BY Zenon DEF A!Equals
    <3>2. A!Equals(s, t) <=> s.len = t.len /\ A!CompareTo(s, t) = 0
      BY Zenon DEF A!Equals
    <3>3. u = v => s.len = t.len
      BY <2>1, <2>2
    <3> QED BY <2>6, <3>1, <3>2, <3>3
  <2>8. A!EqualsIgnoreCase(s, t) = (A!Lower(A!Text(s)) = A!Lower(A!Text(t)))
    BY <1>2, CaseIgnored
  <2> QED BY <2>1, <2>2, <2>6, <2>7, <2>8
<1> QED BY <1>1, <1>2, Zenon DEF A!ComparesByText

(* A String is a terminated text on which searches and comparisons agree:  *)
(* what the code of String promises after any sequence of its calls.       *)
THEOREM StringsSound == TextSpec => []A!TextSound
<1>1. StringInv => A!TextSound
  BY SoundTerminated, SoundSearches, SoundCompares DEF A!TextSound
<1> QED BY <1>1, StringInvHolds, PTL

-----------------------------------------------------------------------------
(* What the calls are documented to leave.                                 *)

Documented(x) ==
    LET before == A!Text(str[x])
        after == A!Text(str'[x])
        invalid == ~A!Valid(str'[x])
    IN  /\ \A t \in Texts :
            /\ A!AssignText(x, t) => invalid \/ after = t
            /\ A!ConcatText(x, t, FALSE) => invalid \/ after \in {before, before \o t}
        /\ \A y \in Names : A!Move(x, y) => after = A!Text(str[y])
        /\ A!Reserve(x, MaxLen) => after = before
        /\ \A n \in 0..1 : A!Remove(x, n, 1) =>
                after = IF n < Len(before)
                        THEN SubSeq(before, 1, n) \o SubSeq(before, n + 2, Len(before))
                        ELSE before
        /\ A!ToLowerCase(x) => after = A!Lower(before)
        /\ A!ToUpperCase(x) => after = A!Upper(before)
        /\ A!ReplaceChar(x, " ", "a") => after = A!Swapped(before, " ", "a")
        /\ A!Trim(x) =>
            /\ after # <<>> => after[1] # " " /\ after[Len(after)] # " "
            /\ \E i, n \in 0..Len(before) :
                  /\ after = SubSeq(before, i + 1, n)
                  /\ \A j \in DOMAIN before : j <= i \/ j > n => before[j] = " "
        /\ \A p \in {q \in Pairs : Len(q[1]) = 1 \/ Len(q[2]) <= Len(q[1])} :
            A!Replace(x, p[1], p[2]) => after \in {before, A!Swept(before, p[1], p[2])}

LEMMA LeavesDocumented ==
    ASSUME StringInv, ~broken, ~broken', NEW x \in Names
    PROVE  Documented(x)
<1>1. \A t \in Texts : t \in Seq(A!Chars)
  BY StringAssumption
<1>2. " " \in A!Chars /\ "a" \in A!Chars
  BY CharFacts, Zenon
<1>3. ASSUME NEW t \in Texts, A!AssignText(x, t)
      PROVE  ~A!Valid(str'[x]) \/ A!Text(str'[x]) = t
  BY <1>1, <1>3, AssignTextKept
<1>4. ASSUME NEW t \in Texts, A!ConcatText(x, t, FALSE)
      PROVE  ~A!Valid(str'[x]) \/ A!Text(str'[x]) \in {A!Text(str[x]), A!Text(str[x]) \o t}
  <2>1. t \in Seq(A!Chars) /\ FALSE \in BOOLEAN
    BY <1>1
  <2> QED BY <1>4, <2>1, ConcatTextKept, Zenon
<1>5. ASSUME NEW y \in Names, A!Move(x, y)
      PROVE  A!Text(str'[x]) = A!Text(str[y])
  BY <1>5, MoveKept
<1>6. ASSUME A!Reserve(x, MaxLen) PROVE A!Text(str'[x]) = A!Text(str[x])
  BY <1>6, ReserveKept
<1>7. ASSUME NEW n \in 0..1, A!Remove(x, n, 1)
      PROVE  A!Text(str'[x]) =
                IF n < Len(A!Text(str[x]))
                THEN SubSeq(A!Text(str[x]), 1, n)
                        \o SubSeq(A!Text(str[x]), n + 2, Len(A!Text(str[x])))
                ELSE A!Text(str[x])
  <2>1. n \in Nat /\ 1 \in Nat /\ 1 = 1
    OBVIOUS
  <2> QED BY <1>7, <2>1, RemoveKept, Zenon
<1>8. (A!ToLowerCase(x) => A!Text(str'[x]) = A!Lower(A!Text(str[x])))
      /\ (A!ToUpperCase(x) => A!Text(str'[x]) = A!Upper(A!Text(str[x])))
  BY CasesKept, Zenon
<1>9. ASSUME A!ReplaceChar(x, " ", "a") PROVE A!Text(str'[x]) = A!Swapped(A!Text(str[x]), " ", "a")
  BY <1>2, <1>9, SwapKept, Zenon
<1>10. ASSUME A!Trim(x) PROVE TrimmedTo(A!Text(str[x]), A!Text(str'[x]))
  BY <1>10, TrimKept
<1>11. ASSUME NEW p \in {q \in Pairs : Len(q[1]) = 1 \/ Len(q[2]) <= Len(q[1])},
              A!Replace(x, p[1], p[2])
       PROVE  A!Text(str'[x]) \in {A!Text(str[x]), A!Swept(A!Text(str[x]), p[1], p[2])}
  <2>1. p[1] \in Seq(A!Chars) /\ p[2] \in Seq(A!Chars)
    BY StringAssumption
  <2>2. Len(p[1]) = 1 \/ Len(p[2]) <= Len(p[1])
    OBVIOUS
  <2> QED BY <1>11, <2>1, <2>2, ReplaceKept, Zenon
<1> QED BY <1>3, <1>4, <1>5, <1>6, <1>7, <1>8, <1>9, <1>10, <1>11, Zenon DEF Documented, TrimmedTo

LEMMA StepDocumented ==
    StringInv /\ [TextNext]_textVars
        => [~broken' => \A x \in Names : Documented(x)]_(A!vars)
<1> SUFFICES ASSUME StringInv, [TextNext]_textVars, ~UNCHANGED A!vars, ~broken'
             PROVE  \A x \in Names : Documented(x)
  BY Zenon
<1>1. A!Next
  BY StringPart, Zenon
<1>2. ~broken
  BY <1>1 DEF A!Next
<1> QED BY <1>2, LeavesDocumented

(* String does what its documentation says: the buffer holds the text and  *)
(* its NUL, searches and comparisons agree, every call leaves the text it  *)
(* is documented to leave.                                                 *)
THEOREM StringsKept == TextSpec => StringKept
<1>1. TextSpec => []A!TextSound
  BY StringsSound
<1>2. StringInv /\ [TextNext]_textVars
        => [~broken' => \A x \in Names : Documented(x)]_(A!vars)
  BY StepDocumented
<1>3. TextSpec => A!AsDocumented
  BY <1>2, StringInvHolds, PTL DEF TextSpec, A!AsDocumented, Documented
<1> QED BY <1>1, <1>3, PTL DEF StringKept
=============================================================================
