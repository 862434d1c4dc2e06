--------------------------- MODULE ConversionProofs ---------------------------
(***************************************************************************)
(* Conversions are exact, for every width, base and script line: what      *)
(* ltoa(), ultoa(), print(), dtostrf() and printFloat() write is read back *)
(* as the number it was, the arguments of a script line are those that are *)
(* written there, map() and random() keep to their range; and fromString() *)
(* takes the texts of an address, those that toString() writes among them. *)
(* Each is proved of the functions first, by induction over the text, and  *)
(* then of the calls: what a call answered is what its function gives.     *)
(***************************************************************************)
EXTENDS StringProofs

-----------------------------------------------------------------------------
(* Numbers as text.  What is defined by recursion exists.                  *)

(* f[n] from f[n - 1], by functions of a set of values.                    *)
Iterates(f, m, first, G) ==
    /\ f = [n \in 0..m |-> f[n]] /\ f[0] = first
    /\ \A n \in 1..m : f[n] = G[n][f[n - 1]]

LEMMA IterationExists ==
    ASSUME NEW V, NEW m \in Nat, NEW first \in V, NEW G \in [1..m -> [V -> V]]
    PROVE  \E f \in [0..m -> V] : Iterates(f, m, first, G)
<1> DEFINE K == {k \in Nat : k <= m => \E f \in [0..k -> V] : Iterates(f, k, first, G)}
<1>1. 0 \in K
  <2>1. PICK f : f = [n \in 0..0 |-> first]
    OBVIOUS
  <2>2. f \in [0..0 -> V] /\ f = [n \in 0..0 |-> f[n]] /\ f[0] = first
    BY <2>1
  <2>3. Iterates(f, 0, first, G)
    BY <2>2 DEF Iterates
  <2> QED BY <2>2, <2>3
<1>2. ASSUME NEW k \in K PROVE k + 1 \in K
  <2> SUFFICES ASSUME k + 1 <= m
               PROVE  \E f \in [0..k + 1 -> V] : Iterates(f, k + 1, first, G)
    OBVIOUS
  <2>1. k \in Nat /\ k <= m /\ k + 1 \in 1..m
    OBVIOUS
  <2>2. PICK g \in [0..k -> V] : Iterates(g, k, first, G)
    BY <2>1
  <2>3. PICK h : h = [n \in 0..k + 1 |-> IF n = k + 1 THEN G[k + 1][g[k]] ELSE g[n]]
    OBVIOUS
  <2>4. h[k + 1] = G[k + 1][g[k]] /\ \A n \in 0..k : h[n] = g[n]
    BY <2>1, <2>3
  <2>5. G[k + 1][g[k]] \in V
    BY <2>1, <2>2
  <2>6. h \in [0..k + 1 -> V] /\ h = [n \in 0..k + 1 |-> h[n]]
    <3>1. \A n \in 0..k + 1 : n = k + 1 \/ n \in 0..k
      BY <2>1
    <3>2. \A n \in 0..k + 1 : h[n] \in V
      BY <2>2, <2>4, <2>5, <3>1
    <3> QED BY <2>3, <3>2
  <2>7. h[0] = first
    <3>1. 0 \in 0..k /\ g[0] = first
      BY <2>1, <2>2 DEF Iterates
    <3> QED BY <2>4, <3>1
  <2>8. ASSUME NEW n \in 1..k + 1 PROVE h[n] = G[n][h[n - 1]]
    <3>1. CASE n = k + 1
      <4>1. n - 1 = k /\ k \in 0..k
        BY <2>1, <3>1
      <4> QED BY <2>4, <3>1, <4>1
    <3>2. CASE n # k + 1
      <4>1. n \in 1..k /\ n \in 0..k /\ n - 1 \in 0..k
        BY <2>1, <3>2
      <4>2. g[n] = G[n][g[n - 1]]
        BY <2>2, <4>1 DEF Iterates
      <4> QED BY <2>4, <4>1, <4>2
    <3> QED BY <3>1, <3>2
  <2>9. Iterates(h, k + 1, first, G)
    BY <2>6, <2>7, <2>8 DEF Iterates
  <2> QED BY <2>6, <2>9
<1>3. m \in K
  <2> HIDE DEF K
  <2>1. K \in SUBSET Nat
    BY DEF K
  <2> QED BY <1>1, <1>2, <2>1, CountUp
<1> QED BY <1>3

(* The characters of the digits, and what they are worth.                  *)
Ciphers == {N!Character[i] : i \in 1..36}

LEMMA CipherFacts ==
    /\ \A i \in 1..36 : N!Character[i] \in Ciphers /\ N!ValueOf(N!Character[i]) = i - 1
    /\ \A i \in 2..36 : N!Character[i] # N!Character[1]
    /\ \A c \in Ciphers : N!ValueOf(c) \in 0..35 /\ c \notin N!Marks
    /\ "0" = N!Character[1]
<1>1. \A i, j \in 1..36 : N!Character[i] = N!Character[j] => i = j
  BY SMTT(60) DEF N!Character
<1>2. DOMAIN N!Character = 1..36
  BY DEF N!Character
<1>3. ASSUME NEW i \in 1..36 PROVE N!ValueOf(N!Character[i]) = i - 1
  <2>1. PICK j : j = CHOOSE k \in DOMAIN N!Character : N!Character[k] = N!Character[i]
    OBVIOUS
  <2>2. j \in 1..36 /\ N!Character[j] = N!Character[i]
    BY <1>2, <2>1, Zenon
  <2>3. j = i
    BY <1>1, <2>2, Zenon
  <2>4. N!ValueOf(N!Character[i]) = j - 1
    BY <2>1, Zenon DEF N!ValueOf
  <2> QED BY <2>3, <2>4
<1>4. \A i \in 1..36 : N!Character[i] # "-" /\ N!Character[i] # "."
  BY SMTT(60) DEF N!Character
<1>5. \A i \in 1..36 : N!Character[i] # " "
  <2> DEFINE C == {"0", "1", "2", "3", "4", "5", "6", "7", "8", "9", "A", "B", "C", "D", "E", "F",
                   "G", "H", "I", "J", "K", "L", "M", "N", "O", "P", "Q", "R", "S", "T", "U", "V",
                   "W", "X", "Y", "Z"}
  <2>1. \A i \in 1..36 : N!Character[i] \in C
    BY SMTT(60) DEF N!Character
  <2>2. " " \notin C
    BY Zenon
  <2> HIDE DEF C
  <2> QED BY <2>1, <2>2, Zenon
<1>6. \A i \in 1..36 : N!Character[i] \notin N!Marks
  BY <1>4, <1>5, Zenon DEF N!Marks, N!Minus, N!Point, N!Blank
<1>7. \A i \in 1..36 : i - 1 \in 0..35
  OBVIOUS
<1>8. \A c \in Ciphers : N!ValueOf(c) \in 0..35 /\ c \notin N!Marks
  BY <1>3, <1>6, <1>7, Zenon DEF Ciphers
<1>9. \A i \in 2..36 : N!Character[i] # N!Character[1]
  <2>1. \A i \in 2..36 : i \in 1..36 /\ i # 1 /\ 1 \in 1..36
    OBVIOUS
  <2> QED BY <1>1, <2>1, Zenon
<1>10. "0" = N!Character[1]
  BY DEF N!Character
<1> QED BY <1>3, <1>8, <1>9, <1>10, Zenon DEF Ciphers

(* Reading digits, one by one.                                             *)
Reads(f, d, base) ==
    f = [n \in 0..Len(d) |-> IF n = 0 THEN 0 ELSE base * f[n - 1] + N!ValueOf(d[n])]

LEMMA ReadIs ==
    ASSUME NEW T, NEW d \in Seq(T), NEW base, NEW f, Reads(f, d, base)
    PROVE  N!Read(d, base) = f[Len(d)]
<1>1. PICK m \in Nat : m = Len(d)
  OBVIOUS
<1>2. PICK g : g = CHOOSE h : Reads(h, d, base)
  OBVIOUS
<1>3. Reads(g, d, base)
  BY <1>2, Zenon
<1>4. N!Read(d, base) = g[m]
  BY <1>1, <1>2, Zenon DEF N!Read, Reads
<1>5. /\ f = [n \in 0..m |-> IF n = 0 THEN 0 ELSE base * f[n - 1] + N!ValueOf(d[n])]
      /\ g = [n \in 0..m |-> IF n = 0 THEN 0 ELSE base * g[n - 1] + N!ValueOf(d[n])]
  BY <1>1, <1>3, Zenon DEF Reads
<1> DEFINE K == {n \in Nat : n <= m => f[n] = g[n]}
<1>6. 0 \in K
  BY <1>5
<1>7. ASSUME NEW k \in K PROVE k + 1 \in K
  <2> SUFFICES ASSUME k + 1 <= m PROVE f[k + 1] = g[k + 1]
    OBVIOUS
  <2>1. k + 1 \in 0..m /\ k + 1 # 0 /\ k + 1 - 1 = k /\ f[k] = g[k]
    OBVIOUS
  <2> QED BY <1>5, <2>1
<1>8. m \in K
  <2> HIDE DEF K
  <2>1. K \in SUBSET Nat
    BY DEF K
  <2> QED BY <1>6, <1>7, <2>1, CountUp
<1> QED BY <1>1, <1>4, <1>8

LEMMA ReadExists ==
    ASSUME NEW d \in Seq(Ciphers), NEW base \in Nat
    PROVE  \E f \in [0..Len(d) -> Nat] : Reads(f, d, base)
<1>1. PICK m \in Nat : m = Len(d)
  OBVIOUS
<1>2. PICK v : v = [n \in 1..m |-> N!ValueOf(d[n])]
  OBVIOUS
<1>3. \A n \in 1..m : v[n] = N!ValueOf(d[n]) /\ v[n] \in Nat
  <2>1. \A n \in 1..m : d[n] \in Ciphers
    BY <1>1
  <2>2. \A c \in Ciphers : N!ValueOf(c) \in 0..35
    BY CipherFacts, Zenon
  <2>3. \A c \in Ciphers : N!ValueOf(c) \in Nat
    <3>1. 0..35 \subseteq Nat
      OBVIOUS
    <3> QED BY <2>2, <3>1, Zenon
  <2> QED BY <1>2, <2>1, <2>3
<1>4. PICK G : G = [n \in 1..m |-> [x \in Nat |-> base * x + v[n]]]
  OBVIOUS
<1>5. G \in [1..m -> [Nat -> Nat]]
  <2>1. \A n \in 1..m, x \in Nat : base * x + v[n] \in Nat
    BY <1>3
  <2> QED BY <1>4, <2>1
<1>6. PICK f \in [0..m -> Nat] : Iterates(f, m, 0, G)
  BY <1>5, IterationExists
<1>7. \A n \in 0..m : f[n] = IF n = 0 THEN 0 ELSE base * f[n - 1] + N!ValueOf(d[n])
  <2>1. f[0] = 0
    BY <1>6 DEF Iterates
  <2>2. ASSUME NEW n \in 1..m PROVE f[n] = base * f[n - 1] + N!ValueOf(d[n])
    <3>1. f[n] = G[n][f[n - 1]]
      BY <1>6 DEF Iterates
    <3>2. f[n - 1] \in Nat
      BY <1>1
    <3> QED BY <1>3, <1>4, <3>1, <3>2
  <2>3. \A n \in 0..m : n = 0 \/ n \in 1..m
    OBVIOUS
  <2> QED BY <2>1, <2>2, <2>3, Zenon
<1>8. Reads(f, d, base)
  BY <1>1, <1>7 DEF Reads
<1> QED BY <1>1, <1>8

LEMMA ReadFacts ==
    ASSUME NEW base \in Nat
    PROVE  /\ N!Read(<<>>, base) = 0
           /\ \A d \in Seq(Ciphers) : N!Read(d, base) \in Nat
           /\ \A d \in Seq(Ciphers), c \in Ciphers :
                N!Read(d \o <<c>>, base) = base * N!Read(d, base) + N!ValueOf(c)
<1>1. N!Read(<<>>, base) = 0
  <2>1. PICK d \in Seq(Ciphers) : d = <<>> /\ Len(d) = 0
    <3>1. <<>> \in Seq(Ciphers) /\ Len(<<>>) = 0
      OBVIOUS
    <3> QED BY <3>1, Zenon
  <2>2. PICK f \in [0..Len(d) -> Nat] : Reads(f, d, base)
    BY ReadExists
  <2>3. f = [n \in 0..0 |-> IF n = 0 THEN 0 ELSE base * f[n - 1] + N!ValueOf(d[n])]
    BY <2>1, <2>2, Zenon DEF Reads
  <2>4. f[0] = 0
    BY <2>3
  <2>5. N!Read(d, base) = f[Len(d)]
    BY <2>2, ReadIs
  <2> QED BY <2>1, <2>4, <2>5
<1>2. ASSUME NEW d \in Seq(Ciphers) PROVE N!Read(d, base) \in Nat
  <2>1. PICK f \in [0..Len(d) -> Nat] : Reads(f, d, base)
    BY ReadExists
  <2>2. N!Read(d, base) = f[Len(d)]
    BY <2>1, ReadIs
  <2>3. Len(d) \in 0..Len(d)
    OBVIOUS
  <2> QED BY <2>2, <2>3
<1>3. ASSUME NEW d \in Seq(Ciphers), NEW c \in Ciphers
      PROVE  N!Read(d \o <<c>>, base) = base * N!Read(d, base) + N!ValueOf(c)
  <2>1. PICK m \in Nat : m = Len(d)
    OBVIOUS
  <2>2. PICK f \in [0..m -> Nat] : Reads(f, d, base)
    BY <2>1, ReadExists
  <2>3. PICK e \in Seq(Ciphers) : e = d \o <<c>> /\ Len(e) = m + 1 /\ e[m + 1] = c
                                   /\ \A n \in 1..m : e[n] = d[n]
    BY <2>1
  <2>4. PICK g : g = [n \in 0..m + 1 |-> IF n <= m THEN f[n] ELSE base * f[m] + N!ValueOf(c)]
    OBVIOUS
  <2>5. f = [n \in 0..m |-> IF n = 0 THEN 0 ELSE base * f[n - 1] + N!ValueOf(d[n])]
    BY <2>1, <2>2, Zenon DEF Reads
  <2>6. ASSUME NEW n \in 0..m + 1
        PROVE  g[n] = IF n = 0 THEN 0 ELSE base * g[n - 1] + N!ValueOf(e[n])
    <3>1. CASE n = 0
      <4>1. g[0] = f[0] /\ f[0] = 0
        BY <2>4, <2>5
      <4> QED BY <3>1, <4>1
    <3>2. CASE n \in 1..m
      <4>1. n <= m /\ n - 1 <= m /\ n # 0 /\ n \in 0..m /\ n - 1 \in 0..m + 1
        BY <3>2
      <4>2. g[n] = f[n] /\ g[n - 1] = f[n - 1] /\ e[n] = d[n]
        BY <2>3, <2>4, <3>2, <4>1
      <4>3. f[n] = base * f[n - 1] + N!ValueOf(d[n])
        BY <2>5, <4>1
      <4> QED BY <4>1, <4>2, <4>3
    <3>3. CASE n = m + 1
      <4>1. n # 0 /\ ~(n <= m) /\ n - 1 = m /\ m \in 0..m + 1 /\ m <= m
        BY <3>3
      <4>2. g[n] = base * f[m] + N!ValueOf(c) /\ g[n - 1] = f[m] /\ e[n] = c
        BY <2>3, <2>4, <3>3, <4>1
      <4> QED BY <4>1, <4>2
    <3>4. n = 0 \/ n \in 1..m \/ n = m + 1
      OBVIOUS
    <3> QED BY <3>1, <3>2, <3>3, <3>4
  <2>7. g = [n \in 0..m + 1 |-> g[n]]
    BY <2>4
  <2>8. g = [n \in 0..m + 1 |-> IF n = 0 THEN 0 ELSE base * g[n - 1] + N!ValueOf(e[n])]
    BY <2>6, <2>7
  <2>9. Reads(g, e, base)
    BY <2>3, <2>8, Zenon DEF Reads
  <2>10. N!Read(e, base) = g[m + 1]
    BY <2>3, <2>9, ReadIs
  <2>11. N!Read(d, base) = f[m]
    BY <2>1, <2>2, ReadIs
  <2>12. g[m + 1] = base * f[m] + N!ValueOf(c)
    BY <2>4
  <2> QED BY <2>3, <2>10, <2>11, <2>12
<1> QED BY <1>1, <1>2, <1>3

(* The digits of a number.                                                 *)
Spells(f, u, base) ==
    f = [n \in 0..u |-> (IF n < base THEN <<>> ELSE f[n \div base])
                           \o <<N!Character[(n % base) + 1]>>]

LEMMA SpellingExists ==
    ASSUME NEW u \in Nat, NEW base \in Nat, base > 1
    PROVE  \E f : Spells(f, u, base) /\ N!Digits(u, base) = f[u]
<1> DEFINE K == {k \in Nat : \E f : Spells(f, k, base)}
<1>1. ASSUME NEW k \in Nat, NEW n \in 0..k, n >= base PROVE n \div base \in 0..k /\ n \div base < n
  BY <1>1
<1>2. 0 \in K
  <2>1. PICK f : f = [n \in 0..0 |-> <<>> \o <<N!Character[(n % base) + 1]>>]
    OBVIOUS
  <2>2. \A n \in 0..0 : n < base
    OBVIOUS
  <2>3. f = [n \in 0..0 |-> (IF n < base THEN <<>> ELSE f[n \div base])
                               \o <<N!Character[(n % base) + 1]>>]
    BY <2>1, <2>2
  <2> QED BY <2>3, Zenon DEF Spells
<1>3. ASSUME NEW k \in K PROVE k + 1 \in K
  <2>1. PICK g : Spells(g, k, base)
    OBVIOUS
  <2> DEFINE Spelt(f, n) == (IF n < base THEN <<>> ELSE f[n \div base])
                              \o <<N!Character[(n % base) + 1]>>
  <2>2. g = [n \in 0..k |-> Spelt(g, n)]
    BY <2>1, Zenon DEF Spells
  <2>3. PICK h : h = [n \in 0..k + 1 |-> IF n <= k THEN g[n] ELSE Spelt(g, n)]
    OBVIOUS
  <2>4. ASSUME NEW n \in 0..k + 1 PROVE Spelt(h, n) = Spelt(g, n)
    <3>1. CASE n < base
      BY <3>1, Zenon
    <3>2. CASE ~(n < base)
      <4>1. n \div base \in 0..k + 1 /\ n \div base <= k
        <5>1. k + 1 \in Nat /\ n >= base
          BY <3>2
        <5>2. n \div base \in 0..k + 1 /\ n \div base < n
          BY <1>1, <5>1
        <5> QED BY <5>2
      <4>2. h[n \div base] = g[n \div base]
        BY <2>3, <4>1
      <4> QED BY <4>2, Zenon
    <3> QED BY <3>1, <3>2
  <2> HIDE DEF Spelt
  <2>5. ASSUME NEW n \in 0..k + 1 PROVE h[n] = Spelt(h, n)
    <3>1. CASE n <= k
      <4>1. n \in 0..k
        BY <3>1
      <4>2. h[n] = g[n] /\ g[n] = Spelt(g, n)
        BY <2>2, <2>3, <3>1, <4>1
      <4> QED BY <2>4, <4>2
    <3>2. CASE ~(n <= k)
      <4>1. h[n] = Spelt(g, n)
        BY <2>3, <3>2
      <4> QED BY <2>4, <4>1
    <3> QED BY <3>1, <3>2
  <2>6. h = [n \in 0..k + 1 |-> h[n]]
    BY <2>3
  <2>7. h = [n \in 0..k + 1 |-> Spelt(h, n)]
    BY <2>5, <2>6
  <2>8. Spells(h, k + 1, base)
    BY <2>7, Zenon DEF Spells, Spelt
  <2>9. k + 1 \in Nat
    OBVIOUS
  <2> QED BY <2>8, <2>9
<1>4. u \in K
  <2> HIDE DEF K
  <2>1. K \in SUBSET Nat
    BY DEF K
  <2> QED BY <1>2, <1>3, <2>1, CountUp
<1>5. PICK f : f = CHOOSE g : Spells(g, u, base)
  OBVIOUS
<1>6. Spells(f, u, base)
  BY <1>4, <1>5, Zenon
<1>7. N!Digits(u, base) = f[u]
  BY <1>5, Zenon DEF N!Digits, Spells
<1> QED BY <1>6, <1>7

LEMMA DivFacts ==
    ASSUME NEW n \in Nat, NEW base \in Nat, base > 1
    PROVE  /\ n \div base \in Nat /\ n % base \in 0..base - 1
           /\ n = base * (n \div base) + (n % base)
           /\ n < base => n % base = n
           /\ n >= base => n \div base < n /\ n \div base > 0
<1>1. n \div base \in Nat /\ n % base \in 0..base - 1 /\ n = base * (n \div base) + (n % base)
  OBVIOUS
<1>2. PICK q \in Nat : q = n \div base
  BY <1>1
<1>3. PICK r \in 0..base - 1 : r = n % base
  BY <1>1
<1>4. n = base * q + r
  BY <1>1, <1>2, <1>3
<1>5. ASSUME q = 0 PROVE n = r /\ n < base
  BY <1>4, <1>5
<1>6. ASSUME q > 0 PROVE n >= base /\ q < n
  <2>1. base * q >= base
    BY <1>6
  <2>2. base * q >= 2 * q
    OBVIOUS
  <2> QED BY <1>4, <1>6, <2>1, <2>2
<1>7. (n < base => r = n) /\ (n >= base => q < n /\ q > 0)
  BY <1>5, <1>6
<1> QED BY <1>1, <1>2, <1>3, <1>7

LEMMA AddCipher ==
    ASSUME NEW d \in Seq(Ciphers), NEW c \in Ciphers, NEW base \in Nat
    PROVE  /\ d \o <<c>> \in Seq(Ciphers) /\ Len(d \o <<c>>) = Len(d) + 1
           /\ (d \o <<c>>)[1] = IF Len(d) = 0 THEN c ELSE d[1]
           /\ N!Read(d \o <<c>>, base) = base * N!Read(d, base) + N!ValueOf(c)
<1>1. /\ d \o <<c>> \in Seq(Ciphers) /\ Len(d \o <<c>>) = Len(d) + 1
      /\ (d \o <<c>>)[1] = IF Len(d) = 0 THEN c ELSE d[1]
  OBVIOUS
<1>2. N!Read(d \o <<c>>, base) = base * N!Read(d, base) + N!ValueOf(c)
  BY ReadFacts, Zenon
<1> QED BY <1>1, <1>2, Zenon

LEMMA SpeltFacts ==
    ASSUME NEW u \in Nat, NEW base \in 2..36, NEW f, Spells(f, u, base)
    PROVE  \A n \in 0..u :
             /\ f[n] \in Seq(Ciphers) /\ N!Read(f[n], base) = n
             /\ n > 0 => f[n][1] # N!Character[1]
             /\ n < base => Len(f[n]) = 1
             /\ n >= base => Len(f[n]) = Len(f[n \div base]) + 1
<1> DEFINE OK(n) == /\ f[n] \in Seq(Ciphers) /\ N!Read(f[n], base) = n
                    /\ n > 0 => f[n][1] # N!Character[1]
                    /\ n < base => Len(f[n]) = 1
                    /\ n >= base => Len(f[n]) = Len(f[n \div base]) + 1
           K == {k \in Nat : \A n \in 0..u : n < k => OK(n)}
<1>1. \A n \in 0..u : f[n] = (IF n < base THEN <<>> ELSE f[n \div base])
                                \o <<N!Character[(n % base) + 1]>>
  <2>1. f = [n \in 0..u |-> (IF n < base THEN <<>> ELSE f[n \div base])
                               \o <<N!Character[(n % base) + 1]>>]
    BY Zenon DEF Spells
  <2> QED BY <2>1
<1>2. 0 \in K
  OBVIOUS
<1>3. ASSUME NEW k \in K PROVE k + 1 \in K
  <2> SUFFICES ASSUME NEW n \in 0..u, n < k + 1 PROVE OK(n)
    OBVIOUS
  <2>0. \A i \in 0..u : i < k => OK(i)
    OBVIOUS
  <2> HIDE DEF K, OK
  <2>1. n \in Nat /\ k \in Nat /\ base \in Nat /\ base > 1 /\ (n < base \/ n >= base)
    BY DEF K
  <2>2. PICK r \in 0..base - 1 : r = n % base
    BY <2>1, DivFacts
  <2>3. PICK c \in Ciphers : c = N!Character[r + 1] /\ N!ValueOf(c) = r
                             /\ (r > 0 => c # N!Character[1])
    <3>1. r + 1 \in 1..36 /\ r + 1 - 1 = r /\ (r > 0 => r + 1 \in 2..36)
      BY <2>2
    <3>2. PICK i \in 1..36 : i = r + 1 /\ i - 1 = r /\ (r > 0 => i \in 2..36)
      BY <3>1
    <3>3. N!Character[i] \in Ciphers /\ N!ValueOf(N!Character[i]) = i - 1
      BY CipherFacts, Zenon
    <3>4. r > 0 => N!Character[i] # N!Character[1]
      BY <3>2, CipherFacts, Zenon
    <3> QED BY <3>2, <3>3, <3>4
  <2>4. CASE n < base
    <3>1. PICK none \in Seq(Ciphers) : none = <<>> /\ Len(none) = 0
      <4>1. <<>> \in Seq(Ciphers) /\ Len(<<>>) = 0
        OBVIOUS
      <4> QED BY <4>1, Zenon
    <3>2. f[n] = none \o <<c>>
      <4>1. f[n] = <<>> \o <<N!Character[(n % base) + 1]>>
        BY <1>1, <2>4, Zenon
      <4> QED BY <2>2, <2>3, <3>1, <4>1
    <3>3. r = n
      BY <2>1, <2>2, <2>4, DivFacts
    <3>4. PICK d \in Seq(Ciphers) : /\ d = none \o <<c>> /\ Len(d) = 1 /\ d[1] = c
                                    /\ N!Read(d, base) = base * N!Read(none, base) + r
      <4>1. /\ none \o <<c>> \in Seq(Ciphers) /\ Len(none \o <<c>>) = Len(none) + 1
            /\ (none \o <<c>>)[1] = IF Len(none) = 0 THEN c ELSE none[1]
            /\ N!Read(none \o <<c>>, base) = base * N!Read(none, base) + N!ValueOf(c)
        BY <2>1, AddCipher
      <4>2. Len(none) + 1 = 1
        BY <3>1
      <4> QED BY <2>3, <3>1, <4>1, <4>2, Zenon
    <3>5. N!Read(d, base) = n
      <4>1. N!Read(none, base) = 0
        BY <2>1, <3>1, ReadFacts, Zenon
      <4>2. base * 0 + r = n
        BY <2>1, <3>3
      <4> QED BY <3>4, <4>1, <4>2
    <3>6. n > 0 => d[1] # N!Character[1]
      BY <2>3, <3>3, <3>4
    <3>7. ~(n >= base)
      BY <2>1, <2>4
    <3> QED BY <2>4, <3>2, <3>4, <3>5, <3>6, <3>7, Zenon DEF OK
  <2>5. CASE n >= base
    <3>1. PICK m \in 0..u : m = n \div base /\ m < n /\ m > 0 /\ n = base * m + r
      <4>1. PICK q : q = n \div base
        OBVIOUS
      <4>2. q \in Nat /\ q < n /\ q > 0 /\ n = base * q + r
        BY <2>1, <2>2, <2>5, <4>1, DivFacts
      <4>3. q \in 0..u
        BY <4>2
      <4> QED BY <4>1, <4>2, <4>3
    <3>2. m < k /\ m \in Nat
      BY <2>1, <3>1
    <3>3. OK(m)
      BY <2>0, <3>2
    <3>4. Len(f[m]) >= 1
      <4>1. CASE m < base
        <5>1. Len(f[m]) = 1
          BY <3>3, <4>1, Zenon DEF OK
        <5> QED BY <5>1
      <4>2. CASE m >= base
        <5>1. PICK q : q = m \div base
          OBVIOUS
        <5>2. q \in Nat /\ q < m
          BY <2>1, <3>2, <4>2, <5>1, DivFacts
        <5>3. q \in 0..u /\ q < k
          BY <2>1, <3>2, <5>2
        <5>4. OK(q)
          BY <2>0, <5>3
        <5>5. f[q] \in Seq(Ciphers)
          BY <5>4, Zenon DEF OK
        <5>6. Len(f[q]) \in Nat
          BY <5>5
        <5>7. Len(f[m]) = Len(f[q]) + 1
          BY <3>3, <4>2, <5>1, Zenon DEF OK
        <5> QED BY <5>6, <5>7
      <4>3. m < base \/ m >= base
        BY <2>1, <3>2
      <4> QED BY <4>1, <4>2, <4>3
    <3>5. PICK e \in Seq(Ciphers) : e = f[m] /\ Len(e) >= 1 /\ e[1] # N!Character[1]
                                     /\ N!Read(e, base) = m
      <4>1. f[m] \in Seq(Ciphers) /\ f[m][1] # N!Character[1] /\ N!Read(f[m], base) = m
        BY <3>1, <3>3, Zenon DEF OK
      <4> QED BY <3>4, <4>1, Zenon
    <3>6. f[n] = e \o <<c>>
      <4>1. ~(n < base)
        BY <2>1, <2>5
      <4>2. f[n] = f[n \div base] \o <<N!Character[(n % base) + 1]>>
        BY <1>1, <4>1, Zenon
      <4> QED BY <2>2, <2>3, <3>1, <3>5, <4>2
    <3>7. PICK d \in Seq(Ciphers) : /\ d = e \o <<c>> /\ Len(d) = Len(e) + 1 /\ d[1] = e[1]
                                    /\ N!Read(d, base) = base * m + r
      <4>1. /\ e \o <<c>> \in Seq(Ciphers) /\ Len(e \o <<c>>) = Len(e) + 1
            /\ (e \o <<c>>)[1] = IF Len(e) = 0 THEN c ELSE e[1]
            /\ N!Read(e \o <<c>>, base) = base * N!Read(e, base) + N!ValueOf(c)
        BY <2>1, AddCipher
      <4>2. Len(e) # 0
        BY <3>5
      <4> QED BY <2>3, <3>5, <4>1, <4>2, Zenon
    <3>8. N!Read(d, base) = n /\ ~(n < base)
      BY <2>1, <2>5, <3>1, <3>7
    <3> QED BY <3>1, <3>5, <3>6, <3>7, <3>8, Zenon DEF OK
  <2> QED BY <2>1, <2>4, <2>5
<1>4. u + 1 \in K
  <2> HIDE DEF K
  <2>1. K \in SUBSET Nat
    BY DEF K
  <2>2. K = Nat
    BY <1>2, <1>3, <2>1, CountUp
  <2> QED BY <2>2
<1>5. ASSUME NEW n \in 0..u PROVE OK(n)
  <2>1. n < u + 1
    OBVIOUS
  <2> QED BY <1>4, <2>1
<1> QED BY <1>5

(* How many there are.                                                     *)
LEMMA DigitsFit ==
    ASSUME NEW u \in Nat, NEW base \in 2..36, u < 2 ^ Width
    PROVE  Len(N!Digits(u, base)) <= Width
<1>1. PICK f : Spells(f, u, base) /\ N!Digits(u, base) = f[u]
  BY SpellingExists
<1>2. \A n \in 0..u : /\ n < base => Len(f[n]) = 1
                      /\ n >= base => Len(f[n]) = Len(f[n \div base]) + 1
  BY <1>1, SpeltFacts, Zenon
<1>3. Width \in Nat \ {0} /\ \A n \in 0..Width - 1 : 2 ^ n \in Nat \ {0} /\ 2 ^ (n + 1) = 2 * 2 ^ n
  BY NumberAssumption, Zenon
<1>4. PICK power : power = [n \in 0..Width |-> 2 ^ n]
  OBVIOUS
<1>5. /\ power[0] = 1 /\ power[Width] = 2 ^ Width
      /\ \A n \in 0..Width - 1 : power[n] \in Nat /\ power[n + 1] = 2 * power[n]
  <2>1. power[0] = 2 ^ 0 /\ power[Width] = 2 ^ Width
    BY <1>3, <1>4
  <2>2. 2 ^ 0 = 1
    OBVIOUS
  <2>3. ASSUME NEW n \in 0..Width - 1 PROVE power[n] \in Nat /\ power[n + 1] = 2 * power[n]
    <3>1. n \in 0..Width /\ n + 1 \in 0..Width
      BY <1>3
    <3>2. power[n] = 2 ^ n /\ power[n + 1] = 2 ^ (n + 1)
      BY <1>4, <3>1
    <3> QED BY <1>3, <3>2
  <2> QED BY <2>1, <2>2, <2>3
<1> DEFINE K == {k \in Nat : k < Width => \A n \in 0..u : n < power[k + 1] => Len(f[n]) <= k + 1}
<1>6. 0 \in K
  <2>1. power[0 + 1] = 2
    BY <1>3, <1>5
  <2>2. ASSUME NEW n \in 0..u, n < 2 PROVE Len(f[n]) <= 0 + 1
    <3>1. n < base
      BY <2>2
    <3>2. Len(f[n]) = 1
      BY <1>2, <3>1, Zenon
    <3> QED BY <3>2
  <2> QED BY <2>1, <2>2
<1>7. ASSUME NEW k \in K PROVE k + 1 \in K
  <2> SUFFICES ASSUME k + 1 < Width, NEW n \in 0..u, n < power[k + 1 + 1]
               PROVE  Len(f[n]) <= k + 1 + 1
    OBVIOUS
  <2>1. k \in Nat /\ k < Width /\ k + 1 \in 0..Width - 1
    BY <1>3
  <2>2. power[k + 1 + 1] = 2 * power[k + 1] /\ power[k + 1] \in Nat
    BY <1>5, <2>1
  <2>3. CASE n < base
    <3>1. Len(f[n]) = 1
      BY <1>2, <2>3, Zenon
    <3> QED BY <2>1, <3>1
  <2>4. CASE n >= base
    <3>1. n \div base \in 0..u /\ base * (n \div base) <= n
      BY <2>4
    <3>2. n \div base < power[k + 1]
      <4>1. 2 * (n \div base) <= base * (n \div base)
        BY <3>1
      <4> QED BY <2>2, <3>1, <4>1
    <3>3. Len(f[n \div base]) <= k + 1
      BY <2>1, <3>1, <3>2
    <3>4. Len(f[n]) = Len(f[n \div base]) + 1
      BY <1>2, <2>4
    <3>5. Len(f[n \div base]) \in Nat
      <4>1. f[n \div base] \in Seq(Ciphers)
        BY <1>1, <3>1, SpeltFacts, Zenon
      <4> QED BY <4>1
    <3> QED BY <2>1, <3>3, <3>4, <3>5
  <2>5. n < base \/ n >= base
    OBVIOUS
  <2> QED BY <2>3, <2>4, <2>5
<1>8. Width - 1 \in K
  <2> HIDE DEF K
  <2>1. K \in SUBSET Nat
    BY DEF K
  <2>2. K = Nat
    BY <1>6, <1>7, <2>1, CountUp
  <2> QED BY <1>3, <2>2
<1>9. Len(f[u]) <= Width
  <2>1. Width - 1 < Width /\ Width - 1 + 1 = Width /\ u \in 0..u
    BY <1>3
  <2> QED BY <1>5, <1>8, <2>1
<1> QED BY <1>1, <1>9

(* In base 10 a byte needs three.                                          *)
LEMMA TensFit ==
    ASSUME NEW u \in Nat, u < 2 ^ Width
    PROVE  Len(N!Digits(u, 10)) <= 3 * N!Bytes
<1>1. PICK f : Spells(f, u, 10) /\ N!Digits(u, 10) = f[u]
  <2>1. 10 \in Nat /\ 10 > 1
    OBVIOUS
  <2> QED BY <2>1, SpellingExists
<1>2. \A n \in 0..u : /\ f[n] \in Seq(Ciphers)
                      /\ n < 10 => Len(f[n]) = 1
                      /\ n >= 10 => Len(f[n]) = Len(f[n \div 10]) + 1
  <2>1. 10 \in 2..36
    OBVIOUS
  <2> QED BY <1>1, <2>1, SpeltFacts, Zenon
<1>3. /\ Width \in Nat \ {0} /\ Width % 8 = 0
      /\ \A n \in 0..Width - 1 : 2 ^ n \in Nat \ {0} /\ 2 ^ (n + 1) = 2 * 2 ^ n
  BY NumberAssumption, Zenon
<1>4. PICK power : power = [n \in 0..Width |-> 2 ^ n]
  OBVIOUS
<1>5. /\ power[0] = 1 /\ power[Width] = 2 ^ Width
      /\ \A n \in 0..Width - 1 : power[n] \in Nat /\ power[n + 1] = 2 * power[n]
  <2>1. power[0] = 2 ^ 0 /\ power[Width] = 2 ^ Width
    BY <1>3, <1>4
  <2>2. 2 ^ 0 = 1
    OBVIOUS
  <2>3. ASSUME NEW n \in 0..Width - 1 PROVE power[n] \in Nat /\ power[n + 1] = 2 * power[n]
    <3>1. n \in 0..Width /\ n + 1 \in 0..Width
      BY <1>3
    <3>2. power[n] = 2 ^ n /\ power[n + 1] = 2 ^ (n + 1)
      BY <1>4, <3>1
    <3> QED BY <1>3, <3>2
  <2> QED BY <2>1, <2>2, <2>3
<1>6. PICK b \in Nat : b = Width \div 8 /\ Width = 8 * b /\ b > 0
  BY <1>3
<1> DEFINE K == {k \in Nat : k <= b => \A n \in 0..u : k > 0 /\ n < power[8 * k] => Len(f[n]) <= 3 * k}
<1>7. 0 \in K
  OBVIOUS
<1>8. ASSUME NEW k \in K PROVE k + 1 \in K
  <2> SUFFICES ASSUME k + 1 <= b, NEW n \in 0..u, n < power[8 * (k + 1)]
               PROVE  Len(f[n]) <= 3 * (k + 1)
    OBVIOUS
  <2>1. k \in Nat /\ k <= b /\ \A i \in 0..u : k > 0 /\ i < power[8 * k] => Len(f[i]) <= 3 * k
    OBVIOUS
  <2> HIDE DEF K
  <2>2. PICK p \in Nat : p = power[8 * k] /\ power[8 * (k + 1)] = 256 * p
    <3>1. PICK j \in Nat : j = 8 * k /\ j + 8 <= Width /\ 8 * (k + 1) = j + 8
      BY <1>6, <2>1
    <3>2. \A i \in 0..7 : j + i \in 0..Width - 1 /\ j + i + 1 = j + (i + 1)
      BY <1>3, <3>1
    <3>3. \A i \in 0..7 : power[j + i] \in Nat /\ power[j + (i + 1)] = 2 * power[j + i]
      <4>1. \A i \in 0..7 : power[j + i] \in Nat /\ power[j + i + 1] = 2 * power[j + i]
        BY <1>5, <3>2
      <4> QED BY <3>2, <4>1
    <3>4. /\ power[j + 0] \in Nat /\ power[j + 1] = 2 * power[j + 0] /\ power[j + 2] = 2 * power[j + 1]
          /\ power[j + 3] = 2 * power[j + 2] /\ power[j + 4] = 2 * power[j + 3]
      BY <3>3
    <3>5. /\ power[j + 5] = 2 * power[j + 4] /\ power[j + 6] = 2 * power[j + 5]
          /\ power[j + 7] = 2 * power[j + 6] /\ power[j + 8] = 2 * power[j + 7]
      BY <3>3
    <3>6. power[j + 0] \in Nat /\ power[j + 8] = 256 * power[j + 0] /\ j + 0 = j
      BY <3>4, <3>5
    <3> QED BY <3>1, <3>6
  <2>3. n \in Nat /\ n < 256 * p /\ (k = 0 => p = 1)
    BY <1>5, <2>2
  <2>4. ASSUME NEW i \in 0..u PROVE Len(f[i]) \in Nat
    BY <1>2
  <2>5. ASSUME NEW i \in 0..u
        PROVE  IF i < 10 THEN Len(f[i]) = 1
               ELSE /\ i \div 10 \in 0..u /\ Len(f[i]) = Len(f[i \div 10]) + 1
                    /\ 10 * (i \div 10) <= i
    <3>1. i < 10 \/ (i \div 10 \in 0..u /\ 10 * (i \div 10) <= i /\ i >= 10)
      OBVIOUS
    <3> QED BY <1>2, <3>1
  <2>6. CASE n < 10
    <3>1. Len(f[n]) = 1
      BY <2>5, <2>6
    <3> QED BY <2>1, <3>1
  <2>7. CASE ~(n < 10)
    <3>1. PICK i \in 0..u : i = n \div 10 /\ Len(f[n]) = Len(f[i]) + 1 /\ 10 * i <= n
      BY <2>5, <2>7
    <3>2. CASE i < 10
      <4>1. Len(f[i]) = 1
        BY <2>5, <3>2
      <4> QED BY <2>1, <3>1, <4>1
    <3>3. CASE ~(i < 10)
      <4>1. PICK j \in 0..u : j = i \div 10 /\ Len(f[i]) = Len(f[j]) + 1 /\ 10 * j <= i
        BY <2>5, <3>3
      <4>2. CASE j < 10
        <5>1. Len(f[j]) = 1
          BY <2>5, <4>2
        <5> QED BY <2>1, <3>1, <4>1, <5>1
      <4>3. CASE ~(j < 10)
        <5>1. PICK h \in 0..u : h = j \div 10 /\ Len(f[j]) = Len(f[h]) + 1 /\ 10 * h <= j /\ h > 0
          <6>1. j \div 10 > 0
            BY <4>3
          <6> QED BY <2>5, <4>3, <6>1
        <5>2. 1000 * h <= n
          BY <3>1, <4>1, <5>1
        <5>3. h < p
          BY <2>2, <2>3, <5>2
        <5>4. k > 0
          BY <2>1, <2>3, <5>1, <5>3
        <5>5. Len(f[h]) <= 3 * k
          BY <2>1, <2>2, <5>3, <5>4
        <5>6. Len(f[h]) \in Nat
          BY <2>4
        <5> QED BY <2>1, <3>1, <4>1, <5>1, <5>5, <5>6
      <4> QED BY <4>2, <4>3
    <3> QED BY <3>2, <3>3
  <2> QED BY <2>6, <2>7
<1>9. b \in K
  <2> HIDE DEF K
  <2>1. K \in SUBSET Nat
    BY DEF K
  <2>2. K = Nat
    BY <1>7, <1>8, <2>1, CountUp
  <2> QED BY <2>2
<1>10. Len(f[u]) <= 3 * b
  <2>1. u \in 0..u /\ u < power[8 * b]
    BY <1>5, <1>6
  <2> QED BY <1>6, <1>9, <2>1
<1> QED BY <1>1, <1>6, <1>10 DEF N!Bytes

(* The text of an integer.                                                 *)
LEMMA DigitsFacts ==
    ASSUME NEW u \in Nat, NEW base \in 2..36
    PROVE  /\ N!Digits(u, base) \in Seq(Ciphers) /\ Len(N!Digits(u, base)) >= 1
           /\ N!Read(N!Digits(u, base), base) = u
           /\ N!Digits(u, base)[1] # "0" \/ Len(N!Digits(u, base)) = 1
<1>1. base \in Nat /\ base > 1 /\ u \in 0..u
  OBVIOUS
<1>2. PICK f : Spells(f, u, base) /\ N!Digits(u, base) = f[u]
  BY <1>1, SpellingExists
<1>3. /\ f[u] \in Seq(Ciphers) /\ N!Read(f[u], base) = u
      /\ u > 0 => f[u][1] # N!Character[1]
      /\ u < base => Len(f[u]) = 1
      /\ u >= base => Len(f[u]) = Len(f[u \div base]) + 1
  BY <1>1, <1>2, SpeltFacts
<1>4. Len(f[u]) >= 1
  <2>1. CASE u < base
    BY <1>3, <2>1
  <2>2. CASE u >= base
    <3>1. PICK q \in 0..u : q = u \div base
      <4>1. u \div base \in Nat /\ u \div base < u
        BY <1>1, <2>2, DivFacts
      <4> QED BY <4>1
    <3>2. f[q] \in Seq(Ciphers)
      BY <1>2, SpeltFacts
    <3>3. Len(f[q]) \in Nat
      BY <3>2
    <3> QED BY <1>3, <2>2, <3>1, <3>3
  <2> QED BY <1>1, <2>1, <2>2
<1>5. f[u][1] # "0" \/ Len(f[u]) = 1
  <2>1. u > 0 \/ u < base
    BY <1>1
  <2>2. "0" = N!Character[1]
    BY CipherFacts, Zenon
  <2> QED BY <1>3, <2>1, <2>2
<1> QED BY <1>2, <1>3, <1>4, <1>5, Zenon

LEMMA PowerFacts ==
    /\ Width \in Nat \ {0} /\ 2 ^ Width \in Nat \ {0} /\ 2 ^ (Width - 1) \in Nat \ {0}
    /\ 2 ^ Width = 2 * 2 ^ (Width - 1) /\ N!Bytes \in Nat /\ N!Bytes > 0
<1>1. /\ Width \in Nat \ {0} /\ Width % 8 = 0
      /\ \A n \in 0..Width - 1 : 2 ^ n \in Nat \ {0} /\ 2 ^ (n + 1) = 2 * 2 ^ n
  BY NumberAssumption, Zenon
<1>2. PICK n \in 0..Width - 1 : n = Width - 1 /\ n + 1 = Width
  BY <1>1
<1>3. 2 ^ n \in Nat \ {0} /\ 2 ^ (n + 1) = 2 * 2 ^ n
  BY <1>1
<1>4. Width \div 8 \in Nat /\ Width \div 8 > 0
  BY <1>1
<1> QED BY <1>1, <1>2, <1>3, <1>4 DEF N!Bytes

(* With its sign, or without one.                                          *)
LEMMA BareFacts ==
    ASSUME NEW d \in Seq(Ciphers), Len(d) >= 1
    PROVE  /\ ~N!Signed(d) /\ N!Bare(d) = d /\ d # <<>> /\ d[1] # N!Minus
           /\ N!ToInt(d) = N!Read(d, 10)
<1>1. \A c \in Ciphers : c # N!Minus
  <2>1. \A c \in Ciphers : c \notin N!Marks
    BY CipherFacts, Zenon
  <2>2. N!Minus \in N!Marks
    BY Zenon DEF N!Marks
  <2> QED BY <2>1, <2>2, Zenon
<1>2. \A i \in DOMAIN d : d[i] \in Ciphers
  OBVIOUS
<1>3. d # <<>> /\ d[1] # N!Minus
  BY <1>1, <1>2
<1>4. ~N!Signed(d)
  BY <1>1, <1>2, Zenon DEF N!Signed
<1>5. N!Bare(d) = d /\ N!ToInt(d) = N!Read(d, 10)
  BY <1>3, Zenon DEF N!Bare, N!ToInt
<1> QED BY <1>3, <1>4, <1>5

LEMMA SignFacts ==
    ASSUME NEW d \in Seq(Ciphers), Len(d) >= 1, NEW t, t = <<N!Minus>> \o d
    PROVE  /\ Len(t) = Len(d) + 1 /\ N!Bare(t) = d /\ N!ToInt(t) = -N!Read(d, 10)
<1>1. PICK minus : minus = N!Minus
  OBVIOUS
<1>2. Len(t) = Len(d) + 1 /\ t[1] = minus /\ Tail(t) = d /\ t # <<>>
  <2>1. PICK T : T = Ciphers \cup {minus}
    OBVIOUS
  <2>2. minus \in T /\ d \in Seq(T)
    BY <2>1
  <2>3. t = <<minus>> \o d /\ t \in Seq(T) /\ Len(t) = Len(d) + 1 /\ t[1] = minus
        /\ \A i \in 1..Len(d) : t[i + 1] = d[i]
    BY <1>1, <2>2
  <2>4. PICK e \in Seq(T) : e = Tail(t) /\ Len(e) = Len(d) /\ \A i \in 1..Len(d) : e[i] = t[i + 1]
    BY <2>3
  <2>5. e = d
    <3>1. \A i \in 1..Len(e) : e[i] = d[i]
      BY <2>3, <2>4
    <3> QED BY <2>2, <2>4, <3>1, SameSeq
  <2>6. t # <<>>
    BY <2>3
  <2> QED BY <2>3, <2>4, <2>5, <2>6
<1> QED BY <1>1, <1>2, Zenon DEF N!Bare, N!ToInt

(* What is written of an integer that fits.                                *)
LEMMA UnsignedText ==
    ASSUME NEW u \in Nat, u < 2 ^ Width, NEW base \in 2..36
    PROVE  LET d == N!Digits(u, base)
           IN  /\ d \in Seq(Ciphers) /\ 1 <= Len(d) /\ Len(d) <= Width
               /\ base = 10 => Len(d) <= 3 * N!Bytes /\ N!ToInt(d) = u
               /\ N!Read(d, base) = u /\ ~N!Signed(d) /\ N!Bare(d) = d /\ N!Plain(d)
<1>1. PICK d : d = N!Digits(u, base)
  OBVIOUS
<1>2. d \in Seq(Ciphers) /\ Len(d) >= 1 /\ N!Read(d, base) = u /\ (d[1] # "0" \/ Len(d) = 1)
  BY <1>1, DigitsFacts
<1>3. Len(d) <= Width
  BY <1>1, DigitsFit
<1>4. base = 10 => Len(d) <= 3 * N!Bytes
  BY <1>1, TensFit
<1>5. ~N!Signed(d) /\ N!Bare(d) = d /\ N!ToInt(d) = N!Read(d, 10)
  BY <1>2, BareFacts, Zenon
<1>6. N!Plain(d)
  BY <1>2, <1>5, Zenon DEF N!Plain
<1>7. 1 <= Len(d)
  BY <1>2
<1> QED BY <1>1, <1>2, <1>3, <1>4, <1>5, <1>6, <1>7, Zenon

LEMMA NegativeText ==
    ASSUME NEW u \in Nat, u < 2 ^ Width
    PROVE  LET t == <<N!Minus>> \o N!Digits(u, 10)
           IN  /\ Len(t) \in Nat /\ Len(t) <= Width + 1 /\ Len(t) <= 1 + 3 * N!Bytes
               /\ N!ToInt(t) = -u /\ Len(N!Bare(t)) = Len(t) - 1 /\ N!Plain(t)
<1>1. PICK d : d = N!Digits(u, 10)
  OBVIOUS
<1>2. 10 \in 2..36
  OBVIOUS
<1>3. /\ d \in Seq(Ciphers) /\ Len(d) >= 1 /\ N!Read(d, 10) = u /\ (d[1] # "0" \/ Len(d) = 1)
      /\ Len(d) <= Width /\ Len(d) <= 3 * N!Bytes
  BY <1>1, <1>2, DigitsFacts, DigitsFit, TensFit
<1>4. PICK t : t = <<N!Minus>> \o d
  OBVIOUS
<1>5. Len(t) = Len(d) + 1 /\ N!Bare(t) = d /\ N!ToInt(t) = -N!Read(d, 10)
  BY <1>3, <1>4, SignFacts
<1>6. N!Plain(t)
  BY <1>3, <1>5, Zenon DEF N!Plain
<1>7. Len(d) \in Nat
  BY <1>3
<1>8. Len(t) \in Nat /\ Len(t) <= Width + 1 /\ Len(t) <= 1 + 3 * N!Bytes
      /\ N!ToInt(t) = -u /\ Len(N!Bare(t)) = Len(t) - 1
  BY <1>3, <1>5, <1>7, PowerFacts
<1> QED BY <1>1, <1>4, <1>6, <1>8, Zenon

LEMMA BaseFacts ==
    ASSUME NEW b \in Bases
    PROVE  /\ b \in Nat /\ N!Base(b) \in 2..36 /\ N!PrintBase(b) \in 2..36
           /\ b = N!Base(b) => N!PrintBase(b) = b
<1>1. b \in Nat /\ N!PrintBase(b) <= 36
  BY NumberAssumption, Zenon
<1>2. N!Base(b) \in 2..36
  BY <1>1 DEF N!Base
<1>3. N!PrintBase(b) \in 2..36
  BY <1>1 DEF N!PrintBase
<1>4. b \in 2..36 => N!PrintBase(b) = b
  BY DEF N!PrintBase
<1> QED BY <1>1, <1>2, <1>3, <1>4

LEMMA UnsignedFacts ==
    /\ \A n \in N!ULong : n \in Nat /\ n < 2 ^ Width /\ N!Unsigned(n) = n
    /\ \A n \in N!Long : /\ n \in Int /\ N!Unsigned(n) \in Nat /\ N!Unsigned(n) < 2 ^ Width
                         /\ n >= 0 => N!Unsigned(n) = n
                         /\ n < 0 => -n \in Nat /\ -n < 2 ^ Width /\ N!Unsigned(-n) = -n
<1>1. PICK h \in Nat : h = 2 ^ (Width - 1) /\ 2 ^ Width = 2 * h /\ h > 0
  BY PowerFacts
<1>2. PICK p \in Nat : p = 2 ^ Width /\ p = 2 * h
  BY <1>1
<1>3. \A n \in 0..p - 1 : n % p = n
  BY <1>1, <1>2
<1>4. \A n \in Int : n % p \in 0..p - 1
  BY <1>1, <1>2
<1>5. ASSUME NEW n \in N!ULong PROVE n \in Nat /\ n < p /\ n % p = n
  <2>1. n \in 0..p - 1
    BY <1>2 DEF N!ULong
  <2> QED BY <1>3, <2>1
<1>6. ASSUME NEW n \in N!Long
      PROVE  /\ n \in Int /\ n % p \in Nat /\ n % p < p
             /\ n >= 0 => n % p = n
             /\ n < 0 => -n \in Nat /\ -n < p /\ (-n) % p = -n
  <2>1. n \in -h..h - 1
    BY <1>1, Zenon DEF N!Long
  <2>2. n \in Int /\ (n >= 0 => n \in 0..p - 1)
    BY <1>1, <1>2, <2>1
  <2>3. n < 0 => -n \in 0..p - 1
    BY <1>1, <1>2, <2>1
  <2>4. n % p \in Nat /\ n % p < p
    BY <1>4, <2>2
  <2>5. n < 0 => -n \in Nat /\ -n < p
    BY <1>2, <2>3
  <2>6. n < 0 => (-n) % p = -n
    BY <1>3, <2>3
  <2> QED BY <1>3, <2>2, <2>4, <2>5, <2>6
<1> QED BY <1>2, <1>5, <1>6 DEF N!Unsigned

LEMMA LtoaExact ==
    ASSUME NEW n \in N!Long, NEW b \in Bases, NEW base, base = N!Base(b),
           NEW t, t = N!LtoaText(n, b)
    PROVE  /\ N!Fits(t, Width + 2) /\ N!Plain(t)
           /\ base = 10 => N!Fits(t, 2 + 3 * N!Bytes) /\ N!ToInt(t) = n
           /\ base # 10 => ~N!Signed(t) /\ N!Read(t, base) = N!Unsigned(n)
<1>1. base \in 2..36 /\ base \in Nat
  BY BaseFacts
<1>2. /\ n \in Int /\ N!Unsigned(n) \in Nat /\ N!Unsigned(n) < 2 ^ Width
      /\ n >= 0 => N!Unsigned(n) = n
      /\ n < 0 => -n \in Nat /\ -n < 2 ^ Width /\ N!Unsigned(-n) = -n
  BY UnsignedFacts, Zenon
<1>3. Width \in Nat /\ N!Bytes \in Nat
  BY PowerFacts
<1>4. CASE base = 10 /\ n < 0
  <2>1. PICK u \in Nat : u = -n /\ u < 2 ^ Width /\ u = N!Unsigned(-n) /\ n = -u
    BY <1>2, <1>4
  <2>2. t = <<N!Minus>> \o N!Digits(u, 10)
    BY <1>4, <2>1, Zenon DEF N!LtoaText
  <2>3. /\ Len(t) \in Nat /\ Len(t) <= Width + 1 /\ Len(t) <= 1 + 3 * N!Bytes
        /\ N!ToInt(t) = -u /\ N!Plain(t)
    BY <2>1, <2>2, NegativeText
  <2>4. N!Fits(t, Width + 2) /\ N!Fits(t, 2 + 3 * N!Bytes)
    BY <1>3, <2>3 DEF N!Fits
  <2> QED BY <1>4, <2>1, <2>3, <2>4, Zenon
<1>5. CASE ~(base = 10 /\ n < 0)
  <2>1. PICK u \in Nat : u = N!Unsigned(n) /\ u < 2 ^ Width
    BY <1>2
  <2>2. t = N!Digits(u, base)
    BY <1>5, <2>1, Zenon DEF N!LtoaText
  <2>3. /\ t \in Seq(Ciphers) /\ 1 <= Len(t) /\ Len(t) <= Width
        /\ base = 10 => Len(t) <= 3 * N!Bytes /\ N!ToInt(t) = u
        /\ N!Read(t, base) = u /\ ~N!Signed(t) /\ N!Plain(t)
    BY <1>1, <2>1, <2>2, UnsignedText, Zenon
  <2>4. Len(t) \in Nat
    BY <2>3
  <2>5. N!Fits(t, Width + 2) /\ (base = 10 => N!Fits(t, 2 + 3 * N!Bytes))
    BY <1>3, <2>3, <2>4 DEF N!Fits
  <2>6. base = 10 => n = u
    BY <1>2, <1>5, <2>1
  <2> QED BY <2>1, <2>3, <2>5, <2>6, Zenon
<1> QED BY <1>4, <1>5

LEMMA UltoaExact ==
    ASSUME NEW n \in N!ULong, NEW b \in Bases, NEW base, base = N!Base(b),
           NEW t, t = N!UtoaText(n, b)
    PROVE  /\ N!Fits(t, Width + 1) /\ N!Plain(t)
           /\ base = 10 => N!Fits(t, 1 + 3 * N!Bytes)
           /\ N!Read(t, base) = n
<1>1. base \in 2..36
  BY BaseFacts
<1>2. n \in Nat /\ n < 2 ^ Width
  BY UnsignedFacts, Zenon
<1>3. Width \in Nat /\ N!Bytes \in Nat
  BY PowerFacts
<1>4. t = N!Digits(n, base)
  BY Zenon DEF N!UtoaText
<1>5. /\ t \in Seq(Ciphers) /\ 1 <= Len(t) /\ Len(t) <= Width
      /\ base = 10 => Len(t) <= 3 * N!Bytes
      /\ N!Read(t, base) = n /\ N!Plain(t)
  BY <1>1, <1>2, <1>4, UnsignedText, Zenon
<1>6. Len(t) \in Nat
  BY <1>5
<1>7. N!Fits(t, Width + 1) /\ (base = 10 => N!Fits(t, 1 + 3 * N!Bytes))
  BY <1>3, <1>5, <1>6 DEF N!Fits
<1> QED BY <1>5, <1>7, Zenon

LEMMA PrintExact ==
    ASSUME NEW n \in N!Long \cup N!ULong, NEW b \in Bases, NEW base, base = N!Base(b),
           NEW t, t = N!PrintText(n, b)
    PROVE  /\ N!Fits(N!Bare(t), Width + 1) /\ N!Plain(t)
           /\ b = base => t = IF n < 0 THEN N!LtoaText(n, base) ELSE N!UtoaText(n, base)
<1>1. b \in Nat /\ base \in 2..36 /\ N!PrintBase(b) \in 2..36 /\ (b = base => N!PrintBase(b) = b)
  BY BaseFacts
<1>2. /\ n \in Int /\ N!Unsigned(n) \in Nat /\ N!Unsigned(n) < 2 ^ Width
      /\ n >= 0 => N!Unsigned(n) = n
      /\ n < 0 => -n \in Nat /\ -n < 2 ^ Width /\ N!Unsigned(-n) = -n
  <2>1. CASE n \in N!Long
    BY <2>1, UnsignedFacts, Zenon
  <2>2. CASE n \in N!ULong
    <3>1. n \in Nat /\ n < 2 ^ Width /\ N!Unsigned(n) = n
      BY <2>2, UnsignedFacts, Zenon
    <3> QED BY <3>1
  <2> QED BY <2>1, <2>2
<1>3. Width \in Nat
  BY PowerFacts
<1>4. N!Base(base) = base
  BY <1>1 DEF N!Base
<1>5. CASE n < 0 /\ b = 10
  <2>1. PICK u \in Nat : u = N!Unsigned(-n) /\ u < 2 ^ Width
    BY <1>2, <1>5
  <2>2. t = <<N!Minus>> \o N!Digits(u, 10)
    BY <1>5, <2>1, Zenon DEF N!PrintText
  <2>3. /\ Len(t) \in Nat /\ Len(t) <= Width + 1 /\ Len(N!Bare(t)) = Len(t) - 1 /\ N!Plain(t)
    BY <2>1, <2>2, NegativeText
  <2>4. N!Fits(N!Bare(t), Width + 1)
    BY <1>3, <2>3 DEF N!Fits
  <2>5. b = base => t = N!LtoaText(n, base)
    BY <1>4, <1>5, <2>1, <2>2, Zenon DEF N!LtoaText
  <2> QED BY <1>5, <2>3, <2>4, <2>5, Zenon
<1>6. CASE ~(n < 0 /\ b = 10)
  <2>1. PICK u \in Nat : u = N!Unsigned(n) /\ u < 2 ^ Width
    BY <1>2
  <2>2. PICK k \in 2..36 : k = N!PrintBase(b)
    BY <1>1
  <2>3. t = N!Digits(u, k)
    BY <1>6, <2>1, <2>2, Zenon DEF N!PrintText
  <2>4. t \in Seq(Ciphers) /\ Len(t) <= Width /\ N!Bare(t) = t /\ N!Plain(t)
    BY <2>1, <2>3, UnsignedText, Zenon
  <2>5. Len(t) \in Nat
    BY <2>4
  <2>6. N!Fits(N!Bare(t), Width + 1)
    BY <1>3, <2>4, <2>5 DEF N!Fits
  <2>7. b = base /\ n < 0 => t = N!LtoaText(n, base)
    BY <1>1, <1>4, <1>6, <2>1, <2>2, <2>3, Zenon DEF N!LtoaText
  <2>8. b = base /\ ~(n < 0) => t = N!UtoaText(n, base)
    <3>1. ~(n < 0) => u = n
      BY <1>2, <2>1
    <3> QED BY <1>1, <1>4, <2>2, <2>3, <3>1, Zenon DEF N!UtoaText
  <2> QED BY <2>4, <2>6, <2>7, <2>8, Zenon
<1> QED BY <1>5, <1>6

(* A double: marks, whole digits, a point and the digits after it.         *)
Glyphs == Ciphers \cup N!Marks

Counts(f, t) ==
    f = [n \in 0..Len(t) |-> IF n = 0 THEN 0
                             ELSE IF t[n] \in N!Marks THEN f[n - 1]
                             ELSE 10 * f[n - 1] + N!ValueOf(t[n])]

LEMMA PrintedIs ==
    ASSUME NEW t \in Seq(Glyphs)
    PROVE  \E f \in [0..Len(t) -> Nat] : Counts(f, t) /\ N!Printed(t) = f[Len(t)]
<1>1. PICK m \in Nat : m = Len(t)
  OBVIOUS
<1>2. PICK v : v = [n \in 1..m |-> IF t[n] \in N!Marks THEN 0 ELSE N!ValueOf(t[n])]
  OBVIOUS
<1>3. \A n \in 1..m : v[n] \in Nat /\ (t[n] \notin N!Marks => v[n] = N!ValueOf(t[n]))
  <2>1. \A n \in 1..m : t[n] \in Ciphers \/ t[n] \in N!Marks
    BY <1>1 DEF Glyphs
  <2>2. \A c \in Ciphers : N!ValueOf(c) \in Nat
    <3>1. \A c \in Ciphers : N!ValueOf(c) \in 0..35
      BY CipherFacts, Zenon
    <3>2. 0..35 \subseteq Nat
      OBVIOUS
    <3> QED BY <3>1, <3>2, Zenon
  <2> QED BY <1>2, <2>1, <2>2
<1>4. PICK G : G = [n \in 1..m |-> [x \in Nat |-> IF t[n] \in N!Marks THEN x ELSE 10 * x + v[n]]]
  OBVIOUS
<1>5. G \in [1..m -> [Nat -> Nat]]
  <2>1. \A n \in 1..m, x \in Nat : 10 * x + v[n] \in Nat
    BY <1>3
  <2> QED BY <1>4, <2>1
<1>6. PICK f \in [0..m -> Nat] : Iterates(f, m, 0, G)
  BY <1>5, IterationExists
<1>7. ASSUME NEW n \in 1..m
      PROVE  f[n] = IF t[n] \in N!Marks THEN f[n - 1] ELSE 10 * f[n - 1] + N!ValueOf(t[n])
  <2>1. f[n] = G[n][f[n - 1]]
    BY <1>6 DEF Iterates
  <2>2. f[n - 1] \in Nat
    BY <1>1
  <2>3. f[n] = IF t[n] \in N!Marks THEN f[n - 1] ELSE 10 * f[n - 1] + v[n]
    BY <1>4, <2>1, <2>2
  <2> QED BY <1>3, <2>3, Zenon
<1>8. f[0] = 0 /\ f = [n \in 0..m |-> f[n]]
  BY <1>6 DEF Iterates
<1>9. \A n \in 0..m : f[n] = IF n = 0 THEN 0
                             ELSE IF t[n] \in N!Marks THEN f[n - 1]
                             ELSE 10 * f[n - 1] + N!ValueOf(t[n])
  <2>1. \A n \in 0..m : n = 0 \/ n \in 1..m
    OBVIOUS
  <2>2. \A n \in 1..m : n # 0
    OBVIOUS
  <2> QED BY <1>7, <1>8, <2>1, <2>2, Zenon
<1>10. Counts(f, t)
  BY <1>1, <1>8, <1>9 DEF Counts
<1>11. PICK g : g = CHOOSE h : Counts(h, t)
  OBVIOUS
<1>12. Counts(g, t)
  BY <1>10, <1>11, Zenon
<1>13. N!Printed(t) = g[m]
  BY <1>1, <1>11, Zenon DEF N!Printed, Counts
<1>14. Counts(g, t) /\ g[m] = g[Len(t)]
  BY <1>1, <1>12
<1>15. \A n \in 0..m : g[n] = IF n = 0 THEN 0
                             ELSE IF t[n] \in N!Marks THEN g[n - 1]
                             ELSE 10 * g[n - 1] + N!ValueOf(t[n])
  <2>1. g = [n \in 0..m |-> IF n = 0 THEN 0
                            ELSE IF t[n] \in N!Marks THEN g[n - 1]
                            ELSE 10 * g[n - 1] + N!ValueOf(t[n])]
    BY <1>1, <1>12, Zenon DEF Counts
  <2> QED BY <2>1
<1> DEFINE K == {n \in Nat : n <= m => f[n] = g[n]}
<1>16. 0 \in K
  BY <1>8, <1>15
<1>17. ASSUME NEW k \in K PROVE k + 1 \in K
  <2> SUFFICES ASSUME k + 1 <= m PROVE f[k + 1] = g[k + 1]
    OBVIOUS
  <2>1. PICK n \in 1..m : n = k + 1 /\ n - 1 = k /\ n \in 0..m /\ n # 0 /\ f[k] = g[k]
    OBVIOUS
  <2>2. g[n] = IF t[n] \in N!Marks THEN g[n - 1] ELSE 10 * g[n - 1] + N!ValueOf(t[n])
    BY <1>15, <2>1, Zenon
  <2>3. f[n - 1] = g[n - 1]
    BY <2>1
  <2>4. f[n] = g[n]
    BY <1>7, <2>2, <2>3, Zenon
  <2> QED BY <2>1, <2>4
<1>18. m \in K
  <2> HIDE DEF K
  <2>1. K \in SUBSET Nat
    BY DEF K
  <2> QED BY <1>16, <1>17, <2>1, CountUp
<1> QED BY <1>1, <1>10, <1>13, <1>18

(* a marks, the l digits of w, and p more after the point: x, y and z.     *)
Written(t, a, l, w, p, x, y, z) ==
    /\ l = Len(N!Digits(w, 10)) /\ Len(t) = IF p = 0 THEN a + l ELSE a + l + p + 1
    /\ \A i \in 1..a : t[i] \in N!Marks
    /\ \A i \in 1..l : t[a + i] = N!Digits(w, 10)[i]
    /\ p > 0 => t[a + l + 1] = N!Point /\ t[a + l + 2] = N!Character[x + 1]
    /\ p > 1 => t[a + l + 3] = N!Character[y + 1]
    /\ p > 2 => t[a + l + 4] = N!Character[z + 1]

Worth(v, w, p, x, y, z) ==
    /\ p = 0 => v = w
    /\ p = 1 => v = 10 * w + x
    /\ p = 2 => v = 100 * w + 10 * x + y
    /\ p = 3 => v = 1000 * w + 100 * x + 10 * y + z

Signs(t, a) == N!Signed(t) <=> \E i \in 1..a : t[i] = N!Minus
PointAt(t, p) == p > 0 => t[Len(t) - p] = N!Point

LEMMA DecimalRead ==
    ASSUME NEW t \in Seq(Glyphs), NEW a \in Nat, NEW w \in Nat, NEW l \in Nat, NEW p \in 0..3,
           NEW x \in 0..9, NEW y \in 0..9, NEW z \in 0..9, Written(t, a, l, w, p, x, y, z)
    PROVE  Worth(N!Printed(t), w, p, x, y, z) /\ Signs(t, a) /\ PointAt(t, p)
<1>1. PICK d : d = N!Digits(w, 10)
  OBVIOUS
<1>2. d \in Seq(Ciphers) /\ N!Read(d, 10) = w /\ Len(d) = l
  <2>1. 10 \in 2..36
    OBVIOUS
  <2>2. l = Len(d)
    BY <1>1, Zenon DEF Written
  <2> QED BY <1>1, <2>1, <2>2, DigitsFacts
<1>0. /\ \A i \in 1..a : t[i] \in N!Marks
      /\ \A i \in 1..l : t[a + i] = d[i]
  BY <1>1, Zenon DEF Written
<1>3. PICK m \in Nat : m = Len(t)
  OBVIOUS
<1>17. /\ p = 0 => m = a + l
       /\ p = 1 => m = a + l + 2
       /\ p = 2 => m = a + l + 3
       /\ p = 3 => m = a + l + 4
  <2>1. m = IF p = 0 THEN a + l ELSE a + l + p + 1
    BY <1>3, Zenon DEF Written
  <2> QED BY <2>1
<1>22. \A i \in 1..l : t[a + i] = d[i] /\ d[i] \in Ciphers
  <2>1. 1..l = 1..Len(d) /\ \A i \in 1..Len(d) : d[i] \in Ciphers
    BY <1>2
  <2> QED BY <1>0, <2>1, Zenon
<1>21. a <= m /\ a + l <= m
  BY <1>17
<1>4. PICK f \in [0..m -> Nat] : Counts(f, t) /\ N!Printed(t) = f[m]
  BY <1>3, PrintedIs
<1>5. f[0] = 0 /\ \A n \in 1..m : f[n] = IF t[n] \in N!Marks THEN f[n - 1]
                                         ELSE 10 * f[n - 1] + N!ValueOf(t[n])
  <2>1. f = [n \in 0..m |-> IF n = 0 THEN 0
                            ELSE IF t[n] \in N!Marks THEN f[n - 1]
                            ELSE 10 * f[n - 1] + N!ValueOf(t[n])]
    BY <1>3, <1>4, Zenon DEF Counts
  <2> QED BY <2>1
<1>6. PICK g \in [0..l -> Nat] : Reads(g, d, 10)
  <2>1. 10 \in Nat
    OBVIOUS
  <2> QED BY <1>2, <2>1, ReadExists
<1>7. g[l] = w
  BY <1>2, <1>6, ReadIs
<1>8. g[0] = 0 /\ \A n \in 1..l : g[n] = 10 * g[n - 1] + N!ValueOf(d[n])
  <2>1. g = [n \in 0..l |-> IF n = 0 THEN 0 ELSE 10 * g[n - 1] + N!ValueOf(d[n])]
    BY <1>2, <1>6, Zenon DEF Reads
  <2> QED BY <2>1
<1>9. f[a] = 0
  <2> DEFINE K == {n \in Nat : n <= a => f[n] = 0}
  <2>1. 0 \in K
    BY <1>5
  <2>2. ASSUME NEW k \in K PROVE k + 1 \in K
    <3> SUFFICES ASSUME k + 1 <= a PROVE f[k + 1] = 0
      OBVIOUS
    <3>1. k + 1 \in 1..m /\ k + 1 \in 1..a /\ k + 1 - 1 = k /\ f[k] = 0
      BY <1>21
    <3> QED BY <1>0, <1>5, <3>1
  <2>3. a \in K
    <3> HIDE DEF K
    <3>1. K \in SUBSET Nat
      BY DEF K
    <3> QED BY <2>1, <2>2, <3>1, CountUp
  <2> QED BY <2>3
<1>10. \A c \in Ciphers : c \notin N!Marks
  BY CipherFacts, Zenon
<1>11. f[a + l] = w
  <2> DEFINE K == {n \in Nat : n <= l => f[a + n] = g[n]}
  <2>1. 0 \in K
    BY <1>8, <1>9
  <2>2. ASSUME NEW k \in K PROVE k + 1 \in K
    <3> SUFFICES ASSUME k + 1 <= l PROVE f[a + (k + 1)] = g[k + 1]
      OBVIOUS
    <3>1. PICK j \in 1..l : j = k + 1 /\ j - 1 = k /\ f[a + k] = g[k]
      OBVIOUS
    <3>2. PICK n \in 1..m : n = a + j /\ n - 1 = a + k /\ n = a + (k + 1)
      <4>1. a + j \in 1..m /\ a + j - 1 = a + k /\ a + j = a + (k + 1)
        <5>1. j <= l /\ j >= 1 /\ j \in Nat
          OBVIOUS
        <5> QED BY <1>21, <3>1, <5>1
      <4> QED BY <4>1
    <3>3. t[n] = d[j] /\ d[j] \in Ciphers
      <4>1. t[a + j] = d[j] /\ d[j] \in Ciphers
        BY <1>22, <3>1, Zenon
      <4> QED BY <3>2, <4>1
    <3>4. f[n] = 10 * f[n - 1] + N!ValueOf(t[n])
      BY <1>5, <1>10, <3>3, Zenon
    <3>5. g[j] = 10 * g[j - 1] + N!ValueOf(d[j])
      BY <1>8
    <3> QED BY <3>1, <3>2, <3>3, <3>4, <3>5
  <2>3. l \in K
    <3> HIDE DEF K
    <3>1. K \in SUBSET Nat
      BY DEF K
    <3> QED BY <2>1, <2>2, <3>1, CountUp
  <2> QED BY <1>7, <2>3
<1>12. ASSUME NEW n \in 1..m, NEW c \in 0..9, t[n] = N!Character[c + 1]
       PROVE  f[n] = 10 * f[n - 1] + c /\ t[n] # N!Minus
  <2>1. PICK i \in 1..36 : i = c + 1 /\ i - 1 = c
    OBVIOUS
  <2>2. t[n] = N!Character[i] /\ N!Character[i] \in Ciphers /\ N!ValueOf(N!Character[i]) = c
    BY <1>12, <2>1, CipherFacts
  <2>3. t[n] \notin N!Marks
    BY <1>10, <2>2, Zenon
  <2>4. N!Minus \in N!Marks
    BY Zenon DEF N!Marks
  <2>5. f[n] = 10 * f[n - 1] + N!ValueOf(t[n])
    BY <1>5, <2>3, Zenon
  <2> QED BY <2>2, <2>3, <2>4, <2>5, Zenon
<1>13. p > 0 => f[a + l + 1] = w /\ m - p = a + l + 1
  <2> SUFFICES ASSUME p > 0 PROVE f[a + l + 1] = w /\ m - p = a + l + 1
    OBVIOUS
  <2>0. t[a + l + 1] = N!Point
    BY Zenon DEF Written
  <2>1. PICK n \in 1..m : n = a + l + 1 /\ n - 1 = a + l /\ m - p = n
    BY <1>17
  <2>2. N!Point \in N!Marks
    BY Zenon DEF N!Marks
  <2>3. f[n] = f[n - 1]
    BY <1>5, <2>0, <2>1, <2>2
  <2> QED BY <1>11, <2>1, <2>3
<1>14. p > 0 => f[a + l + 2] = 10 * w + x /\ t[a + l + 2] # N!Minus
  <2> SUFFICES ASSUME p > 0 PROVE f[a + l + 2] = 10 * w + x /\ t[a + l + 2] # N!Minus
    OBVIOUS
  <2>1. PICK n \in 1..m : n = a + l + 2 /\ n - 1 = a + l + 1
    BY <1>17
  <2>3. t[a + l + 2] = N!Character[x + 1]
    BY Zenon DEF Written
  <2>2. f[n] = 10 * f[n - 1] + x /\ t[n] # N!Minus
    BY <1>12, <2>1, <2>3
  <2> QED BY <1>13, <2>1, <2>2
<1>15. p > 1 => f[a + l + 3] = 100 * w + 10 * x + y /\ t[a + l + 3] # N!Minus
  <2> SUFFICES ASSUME p > 1
               PROVE  f[a + l + 3] = 100 * w + 10 * x + y /\ t[a + l + 3] # N!Minus
    OBVIOUS
  <2>1. PICK n \in 1..m : n = a + l + 3 /\ n - 1 = a + l + 2
    BY <1>17
  <2>3. t[a + l + 3] = N!Character[y + 1]
    BY Zenon DEF Written
  <2>2. f[n] = 10 * f[n - 1] + y /\ t[n] # N!Minus
    BY <1>12, <2>1, <2>3
  <2> QED BY <1>14, <2>1, <2>2
<1>16. p > 2 => f[a + l + 4] = 1000 * w + 100 * x + 10 * y + z /\ t[a + l + 4] # N!Minus
  <2> SUFFICES ASSUME p > 2
               PROVE  f[a + l + 4] = 1000 * w + 100 * x + 10 * y + z /\ t[a + l + 4] # N!Minus
    OBVIOUS
  <2>1. PICK n \in 1..m : n = a + l + 4 /\ n - 1 = a + l + 3
    BY <1>17
  <2>3. t[a + l + 4] = N!Character[z + 1]
    BY Zenon DEF Written
  <2>2. f[n] = 10 * f[n - 1] + z /\ t[n] # N!Minus
    BY <1>12, <2>1, <2>3
  <2> QED BY <1>15, <2>1, <2>2
<1>18. Worth(N!Printed(t), w, p, x, y, z)
  <2>1. CASE p = 0
    BY <1>4, <1>11, <1>17, <2>1 DEF Worth
  <2>2. CASE p = 1
    BY <1>4, <1>14, <1>17, <2>2 DEF Worth
  <2>3. CASE p = 2
    BY <1>4, <1>15, <1>17, <2>3 DEF Worth
  <2>4. CASE p = 3
    BY <1>4, <1>16, <1>17, <2>4 DEF Worth
  <2> QED BY <2>1, <2>2, <2>3, <2>4
<1>19. p > 0 => t[Len(t) - p] = N!Point
  <2> SUFFICES ASSUME p > 0 PROVE t[Len(t) - p] = N!Point
    OBVIOUS
  <2>1. t[a + l + 1] = N!Point
    BY Zenon DEF Written
  <2> QED BY <1>3, <1>13, <2>1
<1>20. N!Signed(t) <=> \E i \in 1..a : t[i] = N!Minus
  <2>1. ASSUME NEW i \in 1..m, t[i] = N!Minus PROVE i \in 1..a
    <3>1. CASE i \in 1..a
      BY <3>1
    <3>2. CASE i \in a + 1..a + l
      <4>1. PICK j \in 1..l : i = a + j
        BY <3>2
      <4>2. t[i] = d[j] /\ d[j] \in Ciphers
        BY <1>22, <4>1, Zenon
      <4>3. N!Minus \in N!Marks
        BY Zenon DEF N!Marks
      <4> QED BY <1>10, <2>1, <4>2, <4>3, Zenon
    <3>3. CASE p > 0 /\ i = a + l + 1
      <4>1. N!Point # N!Minus
        BY DEF N!Point, N!Minus
      <4>2. t[a + l + 1] = N!Point
        BY <3>3, Zenon DEF Written
      <4> QED BY <2>1, <3>3, <4>1, <4>2
    <3>4. \/ i \in 1..a \/ i \in a + 1..a + l \/ (p > 0 /\ i = a + l + 1)
          \/ (p > 0 /\ i = a + l + 2) \/ (p > 1 /\ i = a + l + 3) \/ (p > 2 /\ i = a + l + 4)
      <4>1. i \in Nat /\ 1 <= i /\ i <= m /\ (i <= a + l => i \in 1..a \/ i \in a + 1..a + l)
        OBVIOUS
      <4>2. CASE p = 0
        BY <1>17, <4>1, <4>2
      <4>3. CASE p = 1
        BY <1>17, <4>1, <4>3
      <4>4. CASE p = 2
        BY <1>17, <4>1, <4>4
      <4>5. CASE p = 3
        BY <1>17, <4>1, <4>5
      <4> QED BY <4>2, <4>3, <4>4, <4>5
    <3>5. ~(p > 0 /\ i = a + l + 2)
      BY <1>14, <2>1
    <3>6. ~(p > 1 /\ i = a + l + 3)
      BY <1>15, <2>1
    <3>7. ~(p > 2 /\ i = a + l + 4)
      BY <1>16, <2>1
    <3> QED BY <3>1, <3>2, <3>3, <3>4, <3>5, <3>6, <3>7, Zenon
  <2>2. DOMAIN t = 1..m
    BY <1>3
  <2>3. 1..a \subseteq 1..m
    BY <1>21
  <2>4. N!Signed(t) <=> \E i \in 1..m : t[i] = N!Minus
    BY <2>2, Zenon DEF N!Signed
  <2> QED BY <2>1, <2>3, <2>4, Zenon
<1> QED BY <1>18, <1>19, <1>20, Zenon DEF Signs, PointAt

LEMMA SecondJoined ==
    ASSUME NEW T, NEW u \in Seq(T), NEW v \in Seq(T), NEW w \in Seq(T), NEW vw, vw = v \o w
    PROVE  (u \o v) \o w = u \o vw
BY JoinAssoc

Joins(t, m, d, b, e) == t = m \o d \o b \o e

Spread(t, m, d, b, e) ==
    /\ t = m \o (d \o b \o e) /\ Len(t) = Len(m) + Len(d) + Len(b) + Len(e)
    /\ \A i \in 1..Len(m) : t[i] = m[i]
    /\ \A i \in 1..Len(d) : t[Len(m) + i] = d[i]
    /\ \A i \in 1..Len(b) : t[Len(m) + Len(d) + i] = b[i]
    /\ \A i \in 1..Len(e) : t[Len(m) + Len(d) + Len(b) + i] = e[i]

LEMMA FourJoined ==
    ASSUME NEW T, NEW m \in Seq(T), NEW d \in Seq(T), NEW b \in Seq(T), NEW e \in Seq(T),
           NEW t, Joins(t, m, d, b, e)
    PROVE  t \in Seq(T) /\ Spread(t, m, d, b, e)
<1>1. PICK h \in Seq(T) : h = m \o d
  BY JoinedSeq
<1>2. PICK k \in Seq(T) : k = h \o b
  BY JoinedSeq
<1>3. t = k \o e
  BY <1>1, <1>2, Zenon DEF Joins
<1>4. PICK g \in Seq(T) : g = d \o b
  BY JoinedSeq
<1>5. /\ h \in Seq(T) /\ Len(h) = Len(m) + Len(d) /\ Len(m) \in Nat /\ Len(d) \in Nat
      /\ \A i \in 1..Len(m) : h[i] = m[i]
      /\ \A i \in 1..Len(d) : h[Len(m) + i] = d[i]
  BY <1>1, JoinedSeq
<1>6. /\ k \in Seq(T) /\ Len(k) = Len(h) + Len(b) /\ Len(b) \in Nat
      /\ \A i \in 1..Len(h) : k[i] = h[i]
      /\ \A i \in 1..Len(b) : k[Len(h) + i] = b[i]
  BY <1>2, JoinedSeq
<1>7. /\ t \in Seq(T) /\ Len(t) = Len(k) + Len(e) /\ Len(e) \in Nat
      /\ \A i \in 1..Len(k) : t[i] = k[i]
      /\ \A i \in 1..Len(e) : t[Len(k) + i] = e[i]
  BY <1>3, JoinedSeq
<1>8. Len(t) = Len(m) + Len(d) + Len(b) + Len(e)
  BY <1>5, <1>6, <1>7
<1>9. ASSUME NEW i \in 1..Len(m) PROVE t[i] = m[i]
  <2>1. i \in 1..Len(h) /\ i \in 1..Len(k)
    BY <1>5, <1>6
  <2> QED BY <1>5, <1>6, <1>7, <2>1, Zenon
<1>10. ASSUME NEW i \in 1..Len(d) PROVE t[Len(m) + i] = d[i]
  <2>1. PICK j : j = Len(m) + i
    OBVIOUS
  <2>2. j \in 1..Len(h) /\ j \in 1..Len(k)
    BY <1>5, <1>6, <2>1
  <2>3. h[j] = d[i]
    BY <1>5, <2>1
  <2> QED BY <1>6, <1>7, <2>1, <2>2, <2>3, Zenon
<1>11. ASSUME NEW i \in 1..Len(b) PROVE t[Len(m) + Len(d) + i] = b[i]
  <2>1. PICK j : j = Len(h) + i
    OBVIOUS
  <2>2. j \in 1..Len(k) /\ j = Len(m) + Len(d) + i
    BY <1>5, <1>6, <2>1
  <2>3. k[j] = b[i]
    BY <1>6, <2>1
  <2> QED BY <1>7, <2>2, <2>3, Zenon
<1>12. \A i \in 1..Len(e) : t[Len(m) + Len(d) + Len(b) + i] = e[i]
  <2>1. Len(k) = Len(m) + Len(d) + Len(b)
    BY <1>5, <1>6
  <2> QED BY <1>7, <2>1, Zenon
<1>14. PICK f \in Seq(T) : f = g \o e
  BY JoinedSeq
<1>13. t = m \o (d \o b \o e)
  <2>1. (m \o d) \o b = m \o g
    BY <1>4, SecondJoined, SMTT(60)
  <2>2. (m \o g) \o e = m \o f
    BY <1>14, SecondJoined, SMTT(60)
  <2> QED BY <1>1, <1>2, <1>3, <1>4, <1>14, <2>1, <2>2, Zenon
<1> QED BY <1>7, <1>8, <1>9, <1>10, <1>11, <1>12, <1>13, Zenon DEF Spread

(* The text of a double, put together.                                     *)
Pieces(m, d, b, e, w, p, x, y, z) ==
    /\ \A i \in 1..Len(m) : m[i] \in N!Marks
    /\ d = N!Digits(w, 10)
    /\ Len(b) = (IF p > 0 THEN 1 ELSE 0) /\ (p > 0 => b[1] = N!Point)
    /\ Len(e) = p
    /\ p > 0 => e[1] = N!Character[x + 1]
    /\ p > 1 => e[2] = N!Character[y + 1]
    /\ p > 2 => e[3] = N!Character[z + 1]

LEMMA PiecesWritten ==
    ASSUME NEW m \in Seq(Glyphs), NEW d \in Seq(Glyphs), NEW b \in Seq(Glyphs),
           NEW e \in Seq(Glyphs), NEW w \in Nat, NEW p \in 0..3, NEW x, NEW y, NEW z,
           Pieces(m, d, b, e, w, p, x, y, z), NEW t, Joins(t, m, d, b, e)
    PROVE  t \in Seq(Glyphs) /\ Spread(t, m, d, b, e) /\ Written(t, Len(m), Len(d), w, p, x, y, z)
<1>0. t \in Seq(Glyphs) /\ Spread(t, m, d, b, e)
  BY FourJoined, Zenon
<1>1. /\ Len(t) = Len(m) + Len(d) + Len(b) + Len(e)
      /\ \A i \in 1..Len(m) : t[i] = m[i]
      /\ \A i \in 1..Len(d) : t[Len(m) + i] = d[i]
      /\ \A i \in 1..Len(b) : t[Len(m) + Len(d) + i] = b[i]
      /\ \A i \in 1..Len(e) : t[Len(m) + Len(d) + Len(b) + i] = e[i]
  BY <1>0, Zenon DEF Spread
<1>2. PICK a \in Nat, l \in Nat, k \in Nat : a = Len(m) /\ l = Len(d) /\ k = Len(b)
  OBVIOUS
<1>3. k = (IF p > 0 THEN 1 ELSE 0) /\ Len(e) = p
  BY <1>2, Zenon DEF Pieces
<1>4. Len(t) = IF p = 0 THEN a + l ELSE a + l + p + 1
  <2>1. Len(t) = a + l + k + p
    BY <1>1, <1>2, <1>3, Zenon
  <2>2. CASE p = 0
    BY <1>3, <2>1, <2>2
  <2>3. CASE p # 0
    <3>1. k = 1
      BY <1>3, <2>3
    <3> QED BY <2>1, <2>3, <3>1
  <2> QED BY <2>2, <2>3
<1>5. \A i \in 1..a : t[i] \in N!Marks
  BY <1>1, <1>2, Zenon DEF Pieces
<1>6. \A i \in 1..l : t[a + i] = N!Digits(w, 10)[i]
  BY <1>1, <1>2, Zenon DEF Pieces
<1>7. /\ \A i \in 1..k : t[a + l + i] = b[i]
      /\ \A i \in 1..p : t[a + l + k + i] = e[i]
  BY <1>1, <1>2, <1>3, Zenon
<1>8. p > 0 => t[a + l + 1] = N!Point /\ t[a + l + 2] = N!Character[x + 1]
  <2> SUFFICES ASSUME p > 0
               PROVE  t[a + l + 1] = N!Point /\ t[a + l + 2] = N!Character[x + 1]
    OBVIOUS
  <2>1. k = 1 /\ a + l + k + 1 = a + l + 2 /\ 1 \in 1..k /\ 1 \in 1..p
    BY <1>3
  <2>2. t[a + l + k + 1] = e[1] /\ t[a + l + 1] = b[1]
    BY <1>7, <2>1, Zenon
  <2> QED BY <2>1, <2>2, Zenon DEF Pieces
<1>9. p > 1 => t[a + l + 3] = N!Character[y + 1]
  <2> SUFFICES ASSUME p > 1 PROVE t[a + l + 3] = N!Character[y + 1]
    OBVIOUS
  <2>1. k = 1 /\ a + l + k + 2 = a + l + 3 /\ 2 \in 1..p
    BY <1>3
  <2>2. t[a + l + k + 2] = e[2]
    BY <1>7, <2>1, Zenon
  <2> QED BY <2>1, <2>2, Zenon DEF Pieces
<1>10. p > 2 => t[a + l + 4] = N!Character[z + 1]
  <2> SUFFICES ASSUME p > 2 PROVE t[a + l + 4] = N!Character[z + 1]
    OBVIOUS
  <2>1. k = 1 /\ a + l + k + 3 = a + l + 4 /\ 3 \in 1..p
    BY <1>3
  <2>2. t[a + l + k + 3] = e[3]
    BY <1>7, <2>1, Zenon
  <2> QED BY <2>1, <2>2, Zenon DEF Pieces
<1>11. l = Len(N!Digits(w, 10))
  BY <1>2, Zenon DEF Pieces
<1>12. Written(t, a, l, w, p, x, y, z)
  BY <1>4, <1>5, <1>6, <1>8, <1>9, <1>10, <1>11, Zenon DEF Written
<1> QED BY <1>0, <1>2, <1>12, Zenon

Pointed(p) == IF p > 0 THEN <<N!Point>> ELSE <<>>
Ciphered(f, p) == [n \in 1..p |-> N!Character[f[n] + 1]]

Fraction(f, p, x, y, z) ==
    /\ x \in 0..9 /\ y \in 0..9 /\ z \in 0..9
    /\ (p > 0 => f[1] = x) /\ (p > 1 => f[2] = y) /\ (p > 2 => f[3] = z)

Apart(m, f, w, p, x, y, z) ==
    \E d, b, e \in Seq(Glyphs) :
      /\ Pieces(m, d, b, e, w, p, x, y, z)
      /\ d = N!Digits(w, 10) /\ b = Pointed(p) /\ e = Ciphered(f, p)

LEMMA PiecesMade ==
    ASSUME NEW m \in Seq(N!Marks), NEW w \in Nat, NEW p \in 0..3, NEW x, NEW y, NEW z,
           NEW f, Fraction(f, p, x, y, z)
    PROVE  m \in Seq(Glyphs) /\ Apart(m, f, w, p, x, y, z)
<1>1. Ciphers \subseteq Glyphs /\ N!Marks \subseteq Glyphs /\ N!Point \in Glyphs
  <2>1. N!Point \in N!Marks
    BY Zenon DEF N!Marks
  <2> QED BY <2>1 DEF Glyphs
<1>2. m \in Seq(Glyphs)
  BY <1>1, WiderSeq
<1>3. PICK d \in Seq(Glyphs) : d = N!Digits(w, 10)
  <2>1. 10 \in 2..36
    OBVIOUS
  <2>2. N!Digits(w, 10) \in Seq(Ciphers)
    BY <2>1, DigitsFacts
  <2> QED BY <1>1, <2>2, WiderSeq
<1>4. PICK b \in Seq(Glyphs) : /\ b = Pointed(p)
                               /\ Len(b) = (IF p > 0 THEN 1 ELSE 0)
                               /\ p > 0 => b[1] = N!Point
  <2>1. CASE p > 0
    <3>1. <<N!Point>> \in Seq(Glyphs) /\ Len(<<N!Point>>) = 1 /\ <<N!Point>>[1] = N!Point
      BY <1>1
    <3> QED BY <2>1, <3>1 DEF Pointed
  <2>2. CASE ~(p > 0)
    <3>1. PICK none \in Seq(Glyphs) : none = <<>> /\ Len(none) = 0
      <4>1. <<>> \in Seq(Glyphs) /\ Len(<<>>) = 0
        OBVIOUS
      <4> QED BY <4>1, Zenon
    <3>2. none = Pointed(p)
      BY <2>2, <3>1, Zenon DEF Pointed
    <3>3. Len(none) = (IF p > 0 THEN 1 ELSE 0)
      BY <2>2, <3>1
    <3>4. p > 0 => none[1] = N!Point
      BY <2>2, Zenon
    <3> QED BY <3>2, <3>3, <3>4, Zenon
  <2> QED BY <2>1, <2>2
<1>5. \A n \in 0..9 : N!Character[n + 1] \in Glyphs
  <2>1. \A n \in 0..9 : n + 1 \in 1..36
    OBVIOUS
  <2>2. \A n \in 1..36 : N!Character[n] \in Glyphs
    BY <1>1, CipherFacts
  <2> QED BY <2>1, <2>2, Zenon
<1>6. PICK e : e = [n \in 1..p |-> N!Character[f[n] + 1]] /\ e = Ciphered(f, p)
  BY DEF Ciphered
<1>7. /\ p > 0 => e[1] = N!Character[x + 1]
      /\ p > 1 => e[2] = N!Character[y + 1]
      /\ p > 2 => e[3] = N!Character[z + 1]
  <2>1. (p > 0 => 1 \in 1..p) /\ (p > 1 => 2 \in 1..p) /\ (p > 2 => 3 \in 1..p)
    OBVIOUS
  <2>2. \A n \in 1..p : e[n] = N!Character[f[n] + 1]
    BY <1>6
  <2>3. (p > 0 => f[1] = x) /\ (p > 1 => f[2] = y) /\ (p > 2 => f[3] = z)
    BY Zenon DEF Fraction
  <2> QED BY <2>1, <2>2, <2>3, Zenon
<1>8. e \in Seq(Glyphs) /\ Len(e) = p
  <2>1. \A n \in 1..p : n = 1 \/ (p > 1 /\ n = 2) \/ (p > 2 /\ n = 3)
    OBVIOUS
  <2>2. \A n \in 1..p : e[n] \in Glyphs
    <3> SUFFICES ASSUME NEW n \in 1..p PROVE e[n] \in Glyphs
      OBVIOUS
    <3>1. p > 0
      OBVIOUS
    <3>2. x \in 0..9 /\ y \in 0..9 /\ z \in 0..9
      BY Zenon DEF Fraction
    <3> QED BY <1>5, <1>7, <2>1, <3>1, <3>2, Zenon
  <2>3. e = [n \in 1..p |-> e[n]] /\ p \in Nat
    BY <1>6
  <2> QED BY <2>2, <2>3, MadeSeq
<1>9. \A i \in 1..Len(m) : m[i] \in N!Marks
  OBVIOUS
<1>10. Pieces(m, d, b, e, w, p, x, y, z)
  BY <1>3, <1>4, <1>7, <1>8, <1>9, Zenon DEF Pieces
<1> QED BY <1>2, <1>3, <1>4, <1>6, <1>8, <1>10, Zenon DEF Apart

Shown(t, m, w, f, p) == t = m \o (N!Digits(w, 10) \o Pointed(p) \o Ciphered(f, p))

Led(t, m, p) ==
    /\ \A i \in 1..Len(m) : t[i] = m[i]
    /\ Len(t) = IF p = 0 THEN Len(m) + 1 ELSE Len(m) + p + 2

LEMMA DoubleText ==
    ASSUME NEW m \in Seq(N!Marks), NEW w \in 0..9, NEW p \in 0..3, NEW x, NEW y, NEW z,
           NEW f, Fraction(f, p, x, y, z), NEW t, Shown(t, m, w, f, p)
    PROVE  /\ Worth(N!Printed(t), w, p, x, y, z) /\ Signs(t, Len(m)) /\ PointAt(t, p)
           /\ Led(t, m, p) /\ m \in Seq(Glyphs)
           /\ N!Digits(w, 10) \o Pointed(p) \o Ciphered(f, p) \in Seq(Glyphs)
<1>1. w \in Nat
  OBVIOUS
<1>2. m \in Seq(Glyphs) /\ Apart(m, f, w, p, x, y, z)
  BY <1>1, PiecesMade, Zenon
<1>3. PICK d \in Seq(Glyphs), b \in Seq(Glyphs), e \in Seq(Glyphs) :
        /\ Pieces(m, d, b, e, w, p, x, y, z)
        /\ d = N!Digits(w, 10) /\ b = Pointed(p) /\ e = Ciphered(f, p)
  BY <1>2, Zenon DEF Apart
<1>4. PICK u : Joins(u, m, d, b, e)
  BY Zenon DEF Joins
<1>5. u \in Seq(Glyphs) /\ Spread(u, m, d, b, e) /\ Written(u, Len(m), Len(d), w, p, x, y, z)
  BY <1>1, <1>2, <1>3, <1>4, PiecesWritten, Zenon
<1>6. u = t
  BY <1>3, <1>5, Zenon DEF Spread, Shown
<1>7. PICK a \in Nat : a = Len(m)
  OBVIOUS
<1>8. Len(d) = 1
  <2>1. 10 \in Nat /\ 10 > 1 /\ 10 \in 2..36 /\ w \in 0..w /\ w < 10
    BY <1>1
  <2>2. PICK g : Spells(g, w, 10) /\ N!Digits(w, 10) = g[w]
    BY <1>1, <2>1, SpellingExists
  <2>3. Len(g[w]) = 1
    BY <1>1, <2>1, <2>2, SpeltFacts
  <2> QED BY <1>3, <2>2, <2>3, Zenon
<1>9. t \in Seq(Glyphs) /\ Written(t, a, 1, w, p, x, y, z)
  BY <1>5, <1>6, <1>7, <1>8, Zenon
<1>10. Worth(N!Printed(t), w, p, x, y, z) /\ Signs(t, a) /\ PointAt(t, p)
  <2>1. x \in 0..9 /\ y \in 0..9 /\ z \in 0..9
    BY Zenon DEF Fraction
  <2>2. 1 \in Nat
    OBVIOUS
  <2> QED BY <1>1, <1>9, <2>1, <2>2, DecimalRead, Zenon
<1>11. \A i \in 1..Len(m) : t[i] = m[i]
  BY <1>5, <1>6, Zenon DEF Spread
<1>12. Len(t) = IF p = 0 THEN a + 1 ELSE a + p + 2
  <2>1. Len(t) = IF p = 0 THEN a + 1 ELSE a + 1 + p + 1
    BY <1>9, Zenon DEF Written
  <2> QED BY <2>1
<1>13. d \o b \o e \in Seq(Glyphs)
  <2>1. PICK h \in Seq(Glyphs) : h = d \o b
    BY JoinedSeq
  <2>2. h \o e \in Seq(Glyphs)
    BY JoinedSeq
  <2> QED BY <2>1, <2>2, Zenon
<1>14. Led(t, m, p)
  BY <1>7, <1>11, <1>12, Zenon DEF Led
<1> QED BY <1>2, <1>3, <1>7, <1>10, <1>13, <1>14, Zenon

Near(t, k, p) ==
    /\ N!Absolute(8 * N!Printed(t) - N!Absolute(k) * 10 ^ p) <= 4
    /\ N!Signed(t) = (k < 0) /\ PointAt(t, p) /\ N!Fits(t, 33)

LEMMA OneSeq ==
    ASSUME NEW T, NEW c \in T
    PROVE  <<c>> \in Seq(T) /\ Len(<<c>>) = 1 /\ <<c>>[1] = c
OBVIOUS

(* The sign, and blanks before it.                                         *)
Leads(m, k) == Len(m) <= 6 /\ ((\E i \in 1..Len(m) : m[i] = N!Minus) <=> k < 0)

LEMMA MarkFacts ==
    ASSUME NEW n \in 0..5, NEW k \in Int
    PROVE  \E m, s, b \in Seq(N!Marks) :
             /\ b = [i \in 1..n |-> N!Blank] /\ s = (IF k < 0 THEN <<N!Minus>> ELSE <<>>)
             /\ m = b \o s /\ (n = 0 => m = s) /\ Leads(m, k)
<1>1. N!Blank \in N!Marks /\ N!Minus \in N!Marks
  BY Zenon DEF N!Marks
<1>2. N!Blank # N!Minus
  BY Zenon DEF N!Blank, N!Minus
<1>3. PICK b \in Seq(N!Marks) : /\ b = [i \in 1..n |-> N!Blank] /\ Len(b) = n
                                /\ \A i \in 1..n : b[i] = N!Blank
  <2>1. PICK b : b = [i \in 1..n |-> N!Blank]
    OBVIOUS
  <2>2. b = [i \in 1..n |-> b[i]] /\ (\A i \in 1..n : b[i] = N!Blank) /\ n \in Nat
    BY <2>1
  <2>3. \A i \in 1..n : b[i] \in N!Marks
    BY <1>1, <2>2, Zenon
  <2>4. b \in Seq(N!Marks) /\ Len(b) = n
    BY <2>2, <2>3, MadeSeq
  <2> QED BY <2>1, <2>2, <2>4, Zenon
<1>4. CASE k < 0
  <2>1. PICK s \in Seq(N!Marks) : s = <<N!Minus>> /\ Len(s) = 1 /\ s[1] = N!Minus
    BY <1>1, OneSeq, Zenon
  <2>2. PICK m \in Seq(N!Marks) : m = b \o s
    BY JoinedSeq
  <2>3. Len(m) = Len(b) + Len(s) /\ \A i \in 1..Len(s) : m[Len(b) + i] = s[i]
    BY <2>2, JoinedSeq
  <2>4. n + 1 \in 1..Len(m) /\ m[n + 1] = N!Minus /\ Len(m) <= 6
    BY <1>3, <2>1, <2>3
  <2>5. s = (IF k < 0 THEN <<N!Minus>> ELSE <<>>)
    BY <1>4, <2>1, Zenon
  <2>6. (\E i \in 1..Len(m) : m[i] = N!Minus) <=> k < 0
    BY <1>4, <2>4, Zenon
  <2>7. n = 0 => m = s
    <3> SUFFICES ASSUME n = 0 PROVE m = s
      OBVIOUS
    <3>1. Len(b) = 0 /\ Len(m) = Len(s) /\ \A i \in 1..Len(s) : m[0 + i] = s[i] /\ 0 + i = i
      BY <1>3, <2>3
    <3> QED BY <3>1, SameSeq
  <2>8. Leads(m, k)
    BY <2>4, <2>6, Zenon DEF Leads
  <2> QED BY <1>3, <2>2, <2>5, <2>7, <2>8, Zenon
<1>5. CASE ~(k < 0)
  <2>1. PICK s \in Seq(N!Marks) : s = <<>> /\ Len(s) = 0
    <3>1. <<>> \in Seq(N!Marks) /\ Len(<<>>) = 0
      OBVIOUS
    <3> QED BY <3>1, Zenon
  <2>2. PICK m \in Seq(N!Marks) : m = b \o s
    BY JoinedSeq
  <2>3. Len(m) = Len(b) + Len(s) /\ \A i \in 1..Len(b) : m[i] = b[i]
    BY <2>2, JoinedSeq
  <2>4. Len(m) = n /\ n <= 6
    BY <1>3, <2>1, <2>3
  <2>5. \A i \in 1..n : m[i] = N!Blank
    BY <1>3, <2>3, Zenon
  <2>6. s = (IF k < 0 THEN <<N!Minus>> ELSE <<>>)
    BY <1>5, <2>1, Zenon
  <2>7. (\E i \in 1..Len(m) : m[i] = N!Minus) <=> k < 0
    BY <1>2, <1>5, <2>4, <2>5, Zenon
  <2>8. Len(m) <= 6
    BY <2>4
  <2>9. n = 0 => m = s
    BY <2>1, <2>4, SameSeq
  <2>10. Leads(m, k)
    BY <2>7, <2>8, Zenon DEF Leads
  <2> QED BY <1>3, <2>2, <2>6, <2>9, <2>10, Zenon
<1> QED BY <1>4, <1>5

LEMMA TextSmall ==
    ASSUME NEW p \in 0..3, NEW l \in Nat, l <= 6,
           NEW n \in Nat, n = IF p = 0 THEN l + 1 ELSE l + p + 2
    PROVE  n + 1 <= 33
OBVIOUS

(* A number whose text is worth v, eight times as near.                    *)
LEMMA NearWhen ==
    ASSUME NEW m \in Seq(N!Marks), NEW k \in -20..20, NEW p \in 0..3, NEW t, NEW v \in Nat,
           v = N!Printed(t), Signs(t, Len(m)), PointAt(t, p), Led(t, m, p), Leads(m, k),
           NEW s \in Nat, s = N!Absolute(k) * 10 ^ p, 8 * v - s <= 4, s - 8 * v <= 4
    PROVE  Near(t, k, p)
<1>1. N!Absolute(8 * v - s) <= 4
  BY DEF N!Absolute
<1>2. /\ \A i \in 1..Len(m) : t[i] = m[i]
      /\ Len(t) = IF p = 0 THEN Len(m) + 1 ELSE Len(m) + p + 2
  BY Zenon DEF Led
<1>3. N!Signed(t) <=> k < 0
  BY <1>2, Zenon DEF Signs, Leads
<1>4. N!Signed(t) = (k < 0)
  <2>1. N!Signed(t) \in BOOLEAN
    BY Zenon DEF N!Signed
  <2> QED BY <1>3, <2>1
<1>5. N!Fits(t, 33)
  <2>1. PICK l \in Nat : l = Len(m) /\ l <= 6
    BY DEF Leads
  <2>2. PICK n \in Nat : n = IF p = 0 THEN l + 1 ELSE l + p + 2
    OBVIOUS
  <2>3. n + 1 <= 33
    BY <2>1, <2>2, TextSmall, Zenon
  <2>4. Len(t) = n
    BY <1>2, <2>1, <2>2, Zenon
  <2> QED BY <2>3, <2>4, Zenon DEF N!Fits
<1> QED BY <1>1, <1>4, <1>5, Zenon DEF Near

LEMMA WorthSame ==
    ASSUME NEW p \in 0..3, NEW w, NEW x, NEW y, NEW z, NEW v, NEW q,
           Worth(v, w, p, x, y, z), Worth(q, w, p, x, y, z)
    PROVE  v = q
BY DEF Worth

(* dtostrf(): the digits of the nearest whole number of units.             *)
Placed(f, q, p) == f = [n \in 1..p |-> (q \div (10 ^ (p - n))) % 10]
Unit(u, p) == u = IF p = 0 THEN 1 ELSE IF p = 1 THEN 10 ELSE IF p = 2 THEN 100 ELSE 1000
Shared(f, q, w, p) == \E x, y, z : Fraction(f, p, x, y, z) /\ Worth(q, w, p, x, y, z)

LEMMA PlacedFacts ==
    ASSUME NEW q \in Nat, NEW p \in 0..3, NEW f, Placed(f, q, p)
    PROVE  /\ p = 1 => f[1] = q % 10
           /\ p = 2 => f[1] = (q \div 10) % 10 /\ f[2] = q % 10
           /\ p = 3 => f[1] = (q \div 100) % 10 /\ f[2] = (q \div 10) % 10 /\ f[3] = q % 10
<1>1. PICK ten : ten = [i \in 0..3 |-> 10 ^ i]
  BY Zenon
<1>2. ten[0] = 1 /\ ten[1] = 10 /\ ten[2] = 100
  <2>1. 0 \in 0..3 /\ 1 \in 0..3 /\ 2 \in 0..3
    OBVIOUS
  <2>2. ten[0] = 10 ^ 0 /\ ten[1] = 10 ^ 1 /\ ten[2] = 10 ^ 2
    BY <1>1, <2>1, Zenon
  <2>3. 10 ^ 0 = 1 /\ 10 ^ 1 = 10 /\ 10 ^ 2 = 100
    OBVIOUS
  <2> QED BY <2>2, <2>3, Zenon
<1>3. \A n \in 1..p : f[n] = (q \div ten[p - n]) % 10
  <2>1. \A n \in 1..p : p - n \in 0..3
    OBVIOUS
  <2>2. \A n \in 1..p : ten[p - n] = 10 ^ (p - n)
    BY <1>1, <2>1, Zenon
  <2>3. \A n \in 1..p : f[n] = (q \div (10 ^ (p - n))) % 10
    BY Zenon DEF Placed
  <2> QED BY <2>2, <2>3, Zenon
<1>4. q \div 1 = q
  OBVIOUS
<1>5. p = 1 => f[1] = q % 10
  <2> SUFFICES ASSUME p = 1 PROVE f[1] = q % 10
    OBVIOUS
  <2>1. 1 \in 1..p /\ p - 1 = 0
    OBVIOUS
  <2> QED BY <1>2, <1>3, <1>4, <2>1
<1>6. p = 2 => f[1] = (q \div 10) % 10 /\ f[2] = q % 10
  <2> SUFFICES ASSUME p = 2 PROVE f[1] = (q \div 10) % 10 /\ f[2] = q % 10
    OBVIOUS
  <2>1. 1 \in 1..p /\ p - 1 = 1 /\ 2 \in 1..p /\ p - 2 = 0
    OBVIOUS
  <2> QED BY <1>2, <1>3, <1>4, <2>1
<1>7. p = 3 => f[1] = (q \div 100) % 10 /\ f[2] = (q \div 10) % 10 /\ f[3] = q % 10
  <2> SUFFICES ASSUME p = 3
               PROVE  f[1] = (q \div 100) % 10 /\ f[2] = (q \div 10) % 10 /\ f[3] = q % 10
    OBVIOUS
  <2>1. 1 \in 1..p /\ p - 1 = 2 /\ 2 \in 1..p /\ p - 2 = 1 /\ 3 \in 1..p /\ p - 3 = 0
    OBVIOUS
  <2> QED BY <1>2, <1>3, <1>4, <2>1
<1> QED BY <1>5, <1>6, <1>7

LEMMA SharedFrom ==
    ASSUME NEW p \in 0..3, NEW f, NEW q, NEW w, NEW x \in 0..9, NEW y \in 0..9, NEW z \in 0..9,
           (p > 0 => f[1] = x) /\ (p > 1 => f[2] = y) /\ (p > 2 => f[3] = z),
           Worth(q, w, p, x, y, z)
    PROVE  Shared(f, q, w, p)
BY Zenon DEF Shared, Fraction

LEMMA FixedDigits ==
    ASSUME NEW q \in Nat, NEW p \in 0..3, NEW f, Placed(f, q, p), NEW u \in Nat, Unit(u, p),
           q < 10 * u
    PROVE  q \div u \in 0..9 /\ Shared(f, q, q \div u, p)
<1>1. u = IF p = 0 THEN 1 ELSE IF p = 1 THEN 10 ELSE IF p = 2 THEN 100 ELSE 1000
  BY Zenon DEF Unit
<1>2. /\ p = 1 => f[1] = q % 10
      /\ p = 2 => f[1] = (q \div 10) % 10 /\ f[2] = q % 10
      /\ p = 3 => f[1] = (q \div 100) % 10 /\ f[2] = (q \div 10) % 10 /\ f[3] = q % 10
  BY PlacedFacts
<1>3. PICK a \in 0..9, b \in 0..9, c \in 0..9 :
        a = q % 10 /\ b = (q \div 10) % 10 /\ c = (q \div 100) % 10
  OBVIOUS
<1>4. CASE p = 0
  <2>1. u = 1 /\ q \div u = q /\ q \in 0..9
    BY <1>1, <1>4
  <2>2. 0 \in 0..9 /\ ~(p > 0) /\ ~(p > 1) /\ ~(p > 2)
    BY <1>4
  <2>3. Worth(q, q \div u, p, 0, 0, 0)
    BY <1>4, <2>1 DEF Worth
  <2> QED BY <2>1, <2>2, <2>3, SharedFrom
<1>5. CASE p = 1
  <2>1. u = 10 /\ q \div u \in 0..9 /\ q = 10 * (q \div 10) + a
    BY <1>1, <1>3, <1>5
  <2>2. 0 \in 0..9 /\ ~(p > 1) /\ ~(p > 2) /\ f[1] = a
    BY <1>2, <1>3, <1>5
  <2>3. Worth(q, q \div u, p, a, 0, 0)
    BY <1>5, <2>1 DEF Worth
  <2> QED BY <2>1, <2>2, <2>3, SharedFrom
<1>6. CASE p = 2
  <2>1. u = 100 /\ q \div u \in 0..9
    BY <1>1, <1>6
  <2>4. q = 100 * (q \div 100) + 10 * b + a
    BY <1>3
  <2>2. 0 \in 0..9 /\ ~(p > 2) /\ f[1] = b /\ f[2] = a
    BY <1>2, <1>3, <1>6
  <2>3. Worth(q, q \div u, p, b, a, 0)
    BY <1>6, <2>1, <2>4 DEF Worth
  <2> QED BY <2>1, <2>2, <2>3, SharedFrom
<1>7. CASE p = 3
  <2>1. u = 1000 /\ q \div u \in 0..9
    BY <1>1, <1>7
  <2>4. q = 1000 * (q \div 1000) + 100 * c + 10 * b + a
    <3>1. q = 10 * (q \div 10) + a /\ q \div 10 = 10 * (q \div 100) + b
      BY <1>3
    <3>2. q \div 100 = 10 * (q \div 1000) + c
      BY <1>3
    <3>3. q \div 10 \in Nat /\ q \div 100 \in Nat /\ q \div 1000 \in Nat
      OBVIOUS
    <3> QED BY <3>1, <3>2, <3>3
  <2>2. f[1] = c /\ f[2] = b /\ f[3] = a
    BY <1>2, <1>3, <1>7
  <2>3. Worth(q, q \div u, p, c, b, a)
    BY <1>7, <2>1, <2>4 DEF Worth
  <2>5. Shared(f, q, q \div u, p)
    BY <2>2, <2>3, SharedFrom, Zenon
  <2> QED BY <2>1, <2>5
<1> QED BY <1>4, <1>5, <1>6, <1>7

LEMMA DecimalText ==
    ASSUME NEW q \in Nat, NEW p \in 0..3, NEW f, Placed(f, q, p), NEW u, u = 10 ^ p
    PROVE  N!Decimal(q, p) = N!Digits(q \div u, 10) \o Pointed(p) \o Ciphered(f, p)
<1>1. \A n \in 1..p : f[n] = (q \div (10 ^ (p - n))) % 10
  BY Zenon DEF Placed
<1>2. Ciphered(f, p) = [n \in 1..p |-> N!Character[((q \div (10 ^ (p - n))) % 10) + 1]]
  BY <1>1, Zenon DEF Ciphered
<1> QED BY <1>2, Zenon DEF N!Decimal, Pointed

(* Half to even is never further than half a unit.                         *)
LEMMA Rounded ==
    ASSUME NEW s \in Nat, NEW u \in Nat, u > 0, s <= 20 * u,
           NEW q, q = IF 2 * (s % 8) > 8 \/ (2 * (s % 8) = 8 /\ (s \div 8) % 2 = 1)
                      THEN (s \div 8) + 1 ELSE s \div 8
    PROVE  q \in Nat /\ 8 * q - s <= 4 /\ s - 8 * q <= 4 /\ q < 10 * u
<1>1. PICK r \in 0..7, d \in Nat : r = s % 8 /\ d = s \div 8
  OBVIOUS
<1>2. s = 8 * d + r
  BY <1>1
<1>3. CASE 2 * r > 8 \/ (2 * r = 8 /\ d % 2 = 1)
  <2>1. q = d + 1
    BY <1>1, <1>3
  <2> QED BY <1>2, <1>3, <2>1
<1>4. CASE ~(2 * r > 8 \/ (2 * r = 8 /\ d % 2 = 1))
  <2>1. q = d
    BY <1>1, <1>4
  <2>2. r <= 4
    BY <1>4
  <2> QED BY <1>2, <2>1, <2>2
<1> QED BY <1>3, <1>4

Blanks(n) == [i \in 1..n |-> N!Blank]

LEMMA PadText ==
    ASSUME NEW text, NEW width, NEW n, n = IF Len(text) < width THEN width - Len(text) ELSE 0
    PROVE  N!Pad(text, width) = Blanks(n) \o text
BY DEF N!Pad, Blanks

LEMMA TenUnit ==
    ASSUME NEW p \in 0..3, NEW u, u = 10 ^ p
    PROVE  u \in Nat /\ u > 0 /\ Unit(u, p)
<1>1. CASE p = 0
  BY <1>1 DEF Unit
<1>2. CASE p = 1
  BY <1>2 DEF Unit
<1>3. CASE p = 2
  BY <1>3 DEF Unit
<1>4. CASE p = 3
  BY <1>4 DEF Unit
<1> QED BY <1>1, <1>2, <1>3, <1>4

LEMMA FixedExact ==
    ASSUME NEW k \in -20..20, NEW p \in 0..3
    PROVE  Near(N!FixedText(k, p + 2, p), k, p)
<1>1. PICK u \in Nat : u = 10 ^ p /\ Unit(u, p) /\ u > 0
  BY TenUnit, Zenon
<1>2. PICK s \in Nat : s = N!Absolute(k) * 10 ^ p /\ s <= 20 * u
  <2>1. PICK c : c = N!Absolute(k)
    OBVIOUS
  <2>2. c \in 0..20
    BY <2>1 DEF N!Absolute
  <2>3. c * u \in Nat /\ c * u <= 20 * u
    BY <2>2
  <2>4. c * u = N!Absolute(k) * 10 ^ p
    BY <1>1, <2>1, Zenon
  <2> QED BY <2>3, <2>4, Zenon
<1>3. PICK q : q = IF 2 * (s % 8) > 8 \/ (2 * (s % 8) = 8 /\ (s \div 8) % 2 = 1)
                   THEN (s \div 8) + 1 ELSE s \div 8
  OBVIOUS
<1>4. q \in Nat /\ 8 * q - s <= 4 /\ s - 8 * q <= 4 /\ q < 10 * u
  BY <1>1, <1>2, <1>3, Rounded
<1>5. N!FixedText(k, p + 2, p)
        = N!Pad((IF k < 0 THEN <<N!Minus>> ELSE <<>>) \o N!Decimal(q, p), p + 2)
  BY <1>2, <1>3, Zenon DEF N!FixedText
<1>6. PICK f : Placed(f, q, p)
  BY Zenon DEF Placed
<1>7. PICK w : w = q \div u
  OBVIOUS
<1>8. w \in 0..9 /\ Shared(f, q, w, p)
  BY <1>1, <1>4, <1>6, <1>7, FixedDigits, Zenon
<1>9. PICK x, y, z : Fraction(f, p, x, y, z) /\ Worth(q, w, p, x, y, z)
  BY <1>8, Zenon DEF Shared
<1>10. PICK r : /\ r = N!Digits(w, 10) \o Pointed(p) \o Ciphered(f, p)
                /\ r = N!Decimal(q, p)
  BY <1>1, <1>4, <1>6, <1>7, DecimalText, Zenon
<1>11. PICK sign \in Seq(N!Marks) : sign = IF k < 0 THEN <<N!Minus>> ELSE <<>>
  <2>1. 0 \in 0..5 /\ k \in Int
    OBVIOUS
  <2> QED BY <2>1, MarkFacts, Zenon
<1>12. sign \in Seq(Glyphs) /\ r \in Seq(Glyphs)
  <2>1. PICK t : Shown(t, sign, w, f, p)
    BY Zenon DEF Shown
  <2> QED BY <1>8, <1>9, <1>10, <2>1, DoubleText, Zenon
<1>13. PICK body \in Seq(Glyphs) : body = sign \o r
  BY <1>12, JoinedSeq
<1>14. PICK width \in 2..5, n \in 0..5 :
         width = p + 2 /\ n = IF Len(body) < width THEN width - Len(body) ELSE 0
  <2>1. Len(body) \in Nat /\ p + 2 \in 2..5
    OBVIOUS
  <2> QED BY <2>1
<1>15. PICK m, s1, b \in Seq(N!Marks) :
        /\ b = [i \in 1..n |-> N!Blank] /\ s1 = (IF k < 0 THEN <<N!Minus>> ELSE <<>>)
        /\ m = b \o s1 /\ Leads(m, k)
  <2>1. k \in Int
    OBVIOUS
  <2> QED BY <2>1, MarkFacts, Zenon
<1>16. PICK t : t = N!FixedText(k, p + 2, p)
  OBVIOUS
<1>17. t = b \o body
  <2>1. t = N!Pad(body, width)
    BY <1>5, <1>10, <1>11, <1>13, <1>14, <1>16, Zenon
  <2>2. N!Pad(body, width) = Blanks(n) \o body
    BY <1>14, PadText
  <2>3. Blanks(n) = b
    BY <1>15, Zenon DEF Blanks
  <2> QED BY <1>14, <2>1, <2>2, <2>3, Zenon
<1>18. b \in Seq(Glyphs)
  <2>1. N!Marks \subseteq Glyphs
    BY DEF Glyphs
  <2> QED BY <2>1, WiderSeq
<1>19. (b \o sign) \o r = b \o body
  BY <1>12, <1>13, <1>18, SecondJoined
<1>20. Shown(t, m, w, f, p)
  BY <1>10, <1>11, <1>13, <1>15, <1>17, <1>19, Zenon DEF Shown
<1>21. /\ Worth(N!Printed(t), w, p, x, y, z) /\ Signs(t, Len(m)) /\ PointAt(t, p)
       /\ Led(t, m, p)
  <2>1. m \in Seq(N!Marks) /\ Fraction(f, p, x, y, z) /\ Shown(t, m, w, f, p)
    BY <1>9, <1>15, <1>20, Zenon
  <2>2. w \in 0..9
    BY <1>8
  <2> QED BY <2>1, <2>2, DoubleText, Zenon
<1>22. N!Printed(t) = q
  BY <1>9, <1>21, WorthSame, Zenon
<1> QED BY <1>2, <1>4, <1>15, <1>16, <1>21, <1>22, NearWhen, Zenon

(* printFloat(): digit after digit of what is left.                        *)
Leaves(f, rest, unit, p) ==
    f = [n \in 0..p |-> IF n = 0 THEN rest ELSE (10 * f[n - 1]) % unit]
Tenths(g, f, unit, p) == g = [n \in 1..p |-> (10 * f[n - 1]) \div unit]

Characters(f, unit, p) == [n \in 1..p |-> N!Character[((10 * f[n - 1]) \div unit) + 1]]

LEMMA LeavesExists ==
    ASSUME NEW rest \in Nat, NEW unit \in Nat, unit > 0, NEW p \in 0..3
    PROVE  \E f : Leaves(f, rest, unit, p)
<1>1. PICK G : G = [n \in 1..p |-> [x \in Nat |-> (10 * x) % unit]]
  OBVIOUS
<1>2. G \in [1..p -> [Nat -> Nat]]
  <2>1. \A x \in Nat : (10 * x) % unit \in Nat
    OBVIOUS
  <2> QED BY <1>1, <2>1
<1>3. p \in Nat
  OBVIOUS
<1>4. PICK f \in [0..p -> Nat] : Iterates(f, p, rest, G)
  BY <1>2, <1>3, IterationExists
<1>5. \A n \in 0..p : f[n] = IF n = 0 THEN rest ELSE (10 * f[n - 1]) % unit
  <2>1. f[0] = rest
    BY <1>4 DEF Iterates
  <2>2. ASSUME NEW n \in 1..p PROVE f[n] = (10 * f[n - 1]) % unit
    <3>1. f[n] = G[n][f[n - 1]]
      BY <1>4 DEF Iterates
    <3>2. f[n - 1] \in Nat
      OBVIOUS
    <3> QED BY <1>1, <3>1, <3>2
  <2>3. \A n \in 0..p : n = 0 \/ n \in 1..p
    OBVIOUS
  <2> QED BY <2>1, <2>2, <2>3, Zenon
<1>6. Leaves(f, rest, unit, p)
  BY <1>5 DEF Leaves
<1> QED BY <1>6

LEMMA FractionText ==
    ASSUME NEW rest \in Nat, NEW unit \in Nat, unit > 0, NEW p \in 0..3
    PROVE  \E f, g : /\ Leaves(f, rest, unit, p) /\ Tenths(g, f, unit, p)
                     /\ N!Fraction(rest, unit, p) = Ciphered(g, p)
<1>1. PICK f : f = CHOOSE h : Leaves(h, rest, unit, p)
  OBVIOUS
<1>2. Leaves(f, rest, unit, p)
  BY <1>1, LeavesExists, Zenon
<1>3. PICK g : g = [n \in 1..p |-> (10 * f[n - 1]) \div unit]
  OBVIOUS
<1>4. N!Fraction(rest, unit, p) = Characters(f, unit, p)
  <2>1. N!Fraction(rest, unit, p) = Characters(CHOOSE h : Leaves(h, rest, unit, p), unit, p)
    BY Zenon DEF N!Fraction, Leaves, Characters
  <2> QED BY <1>1, <2>1, Zenon
<1>5. \A n \in 1..p : g[n] = (10 * f[n - 1]) \div unit
  BY <1>3
<1>6. Ciphered(g, p) = Characters(f, unit, p)
  BY <1>5, Zenon DEF Ciphered, Characters
<1>7. Tenths(g, f, unit, p)
  BY <1>3, Zenon DEF Tenths
<1> QED BY <1>2, <1>4, <1>6, <1>7, Zenon

Sixteenths == {16, 160, 1600, 16000}
Taken(unit, r, q, l) == q \in 0..9 /\ l \in Nat /\ l < unit /\ 10 * r = unit * q + l

LEMMA Tenth ==
    ASSUME NEW unit \in Sixteenths, NEW r \in Nat, r < unit,
           NEW q, NEW l, q = (10 * r) \div unit, l = (10 * r) % unit
    PROVE  Taken(unit, r, q, l)
<1>1. CASE unit = 16
  BY <1>1 DEF Taken
<1>2. CASE unit = 160
  BY <1>2 DEF Taken
<1>3. CASE unit = 1600
  BY <1>3 DEF Taken
<1>4. CASE unit = 16000
  BY <1>4 DEF Taken
<1> QED BY <1>1, <1>2, <1>3, <1>4 DEF Sixteenths

LEMMA TenthsFacts ==
    ASSUME NEW p \in 0..3, NEW f, NEW g, NEW rest, NEW unit,
           Leaves(f, rest, unit, p), Tenths(g, f, unit, p)
    PROVE  /\ f[0] = rest
           /\ p > 0 => g[1] = (10 * f[0]) \div unit /\ f[1] = (10 * f[0]) % unit
           /\ p > 1 => g[2] = (10 * f[1]) \div unit /\ f[2] = (10 * f[1]) % unit
           /\ p > 2 => g[3] = (10 * f[2]) \div unit /\ f[3] = (10 * f[2]) % unit
<1>1. /\ f = [n \in 0..p |-> IF n = 0 THEN rest ELSE (10 * f[n - 1]) % unit]
      /\ g = [n \in 1..p |-> (10 * f[n - 1]) \div unit]
  BY Zenon DEF Leaves, Tenths
<1>2. \A n \in 1..p : g[n] = (10 * f[n - 1]) \div unit /\ f[n] = (10 * f[n - 1]) % unit
  <2>1. \A n \in 1..p : n \in 0..p /\ n # 0
    OBVIOUS
  <2> QED BY <1>1, <2>1, Zenon
<1>3. f[0] = rest
  <2>1. 0 \in 0..p
    OBVIOUS
  <2> QED BY <1>1, <2>1, Zenon
<1>4. /\ p > 0 => 1 \in 1..p /\ 1 - 1 = 0
      /\ p > 1 => 2 \in 1..p /\ 2 - 1 = 1
      /\ p > 2 => 3 \in 1..p /\ 3 - 1 = 2
  OBVIOUS
<1> QED BY <1>2, <1>3, <1>4, Zenon

(* What is written is the number, in sixteenths of a unit, rounded down.   *)
Floors(v, number) == v \in Nat /\ 16 * v <= number /\ number < 16 * v + 16
Told(number, unit, f, g, p) ==
    \E x, y, z, v : /\ Fraction(g, p, x, y, z) /\ Worth(v, number \div unit, p, x, y, z)
                    /\ Floors(v, number)

LEMMA ToldFrom ==
    ASSUME NEW number, NEW unit, NEW f, NEW g, NEW p \in 0..3, NEW v,
           NEW x \in 0..9, NEW y \in 0..9, NEW z \in 0..9,
           (p > 0 => g[1] = x) /\ (p > 1 => g[2] = y) /\ (p > 2 => g[3] = z),
           Worth(v, number \div unit, p, x, y, z), Floors(v, number)
    PROVE  Told(number, unit, f, g, p)
BY Zenon DEF Told, Fraction

LEMMA FloatDigits ==
    ASSUME NEW p \in 0..3, NEW u \in Nat, Unit(u, p), NEW unit, unit = 16 * u,
           NEW number \in Nat, number < 10 * unit, NEW f, NEW g,
           Leaves(f, number % unit, unit, p), Tenths(g, f, unit, p)
    PROVE  number \div unit \in 0..9 /\ Told(number, unit, f, g, p)
<1>1. u = IF p = 0 THEN 1 ELSE IF p = 1 THEN 10 ELSE IF p = 2 THEN 100 ELSE 1000
  BY Zenon DEF Unit
<1>2. unit \in Sixteenths
  BY <1>1 DEF Sixteenths
<1>3. PICK w, r : w = number \div unit /\ r = number % unit
  OBVIOUS
<1>4. w \in 0..9 /\ r \in Nat /\ r < unit /\ number = unit * w + r
  <2>1. CASE unit = 16
    BY <1>3, <2>1
  <2>2. CASE unit = 160
    BY <1>3, <2>2
  <2>3. CASE unit = 1600
    BY <1>3, <2>3
  <2>4. CASE unit = 16000
    BY <1>3, <2>4
  <2> QED BY <1>2, <2>1, <2>2, <2>3, <2>4 DEF Sixteenths
<1>5. /\ f[0] = r
      /\ p > 0 => g[1] = (10 * f[0]) \div unit /\ f[1] = (10 * f[0]) % unit
      /\ p > 1 => g[2] = (10 * f[1]) \div unit /\ f[2] = (10 * f[1]) % unit
      /\ p > 2 => g[3] = (10 * f[2]) \div unit /\ f[3] = (10 * f[2]) % unit
  BY <1>3, TenthsFacts
<1>6. PICK x, a : x = (10 * r) \div unit /\ a = (10 * r) % unit
  OBVIOUS
<1>7. Taken(unit, r, x, a) /\ x \in 0..9 /\ a \in Nat /\ a < unit /\ 10 * r = unit * x + a
  <2>1. Taken(unit, r, x, a)
    BY <1>2, <1>4, <1>6, Tenth, Zenon
  <2> QED BY <2>1, Zenon DEF Taken
<1>8. PICK y, b : y = (10 * a) \div unit /\ b = (10 * a) % unit
  OBVIOUS
<1>9. Taken(unit, a, y, b) /\ y \in 0..9 /\ b \in Nat /\ b < unit /\ 10 * a = unit * y + b
  <2>1. Taken(unit, a, y, b)
    BY <1>2, <1>7, <1>8, Tenth, Zenon
  <2> QED BY <2>1, Zenon DEF Taken
<1>10. PICK z, c : z = (10 * b) \div unit /\ c = (10 * b) % unit
  OBVIOUS
<1>11. Taken(unit, b, z, c) /\ z \in 0..9 /\ c \in Nat /\ c < unit /\ 10 * b = unit * z + c
  <2>1. Taken(unit, b, z, c)
    BY <1>2, <1>9, <1>10, Tenth, Zenon
  <2> QED BY <2>1, Zenon DEF Taken
<1>12. (p > 0 => g[1] = x) /\ (p > 1 => g[2] = y) /\ (p > 2 => g[3] = z)
  <2>1. p > 0 => g[1] = x /\ f[1] = a
    BY <1>5, <1>6, Zenon
  <2>2. p > 1 => g[2] = y /\ f[2] = b
    <3> SUFFICES ASSUME p > 1 PROVE g[2] = y /\ f[2] = b
      OBVIOUS
    <3>1. p > 0
      OBVIOUS
    <3> QED BY <1>5, <1>8, <2>1, <3>1, Zenon
  <2>3. p > 2 => g[3] = z
    <3> SUFFICES ASSUME p > 2 PROVE g[3] = z
      OBVIOUS
    <3>1. p > 1
      OBVIOUS
    <3> QED BY <1>5, <1>10, <2>2, <3>1, Zenon
  <2> QED BY <2>1, <2>2, <2>3, Zenon
<1>13. \E v : Worth(v, w, p, x, y, z) /\ Floors(v, number)
  <2>1. CASE p = 0
    <3>1. unit = 16
      BY <1>1, <2>1
    <3>2. Floors(w, number)
      BY <1>4, <3>1 DEF Floors
    <3>3. Worth(w, w, p, x, y, z)
      BY <2>1 DEF Worth
    <3> QED BY <3>2, <3>3, Zenon
  <2>2. CASE p = 1
    <3>1. unit = 160
      BY <1>1, <2>2
    <3>2. PICK v : v = 10 * w + x
      OBVIOUS
    <3>3. Floors(v, number)
      BY <1>4, <1>7, <3>1, <3>2 DEF Floors
    <3>4. Worth(v, w, p, x, y, z)
      BY <2>2, <3>2 DEF Worth
    <3> QED BY <3>3, <3>4, Zenon
  <2>3. CASE p = 2
    <3>1. unit = 1600
      BY <1>1, <2>3
    <3>2. PICK v : v = 100 * w + 10 * x + y
      OBVIOUS
    <3>3. Floors(v, number)
      BY <1>4, <1>7, <1>9, <3>1, <3>2 DEF Floors
    <3>4. Worth(v, w, p, x, y, z)
      BY <2>3, <3>2 DEF Worth
    <3> QED BY <3>3, <3>4, Zenon
  <2>4. CASE p = 3
    <3>1. unit = 16000
      BY <1>1, <2>4
    <3>2. PICK v : v = 1000 * w + 100 * x + 10 * y + z
      OBVIOUS
    <3>3. Floors(v, number)
      BY <1>4, <1>7, <1>9, <1>11, <3>1, <3>2 DEF Floors
    <3>4. Worth(v, w, p, x, y, z)
      BY <2>4, <3>2 DEF Worth
    <3> QED BY <3>3, <3>4, Zenon
  <2> QED BY <2>1, <2>2, <2>3, <2>4
<1>14. PICK v : Worth(v, w, p, x, y, z) /\ Floors(v, number)
  BY <1>13
<1>15. Told(number, unit, f, g, p)
  BY <1>3, <1>7, <1>9, <1>11, <1>12, <1>14, ToldFrom, Zenon
<1> QED BY <1>3, <1>4, <1>15, Zenon

LEMMA FloatExact ==
    ASSUME NEW k \in -20..20, NEW p \in 0..3, NEW error \in 0..1
    PROVE  Near(N!FloatText(k, p, error), k, p)
<1>1. PICK u \in Nat : u = 10 ^ p /\ Unit(u, p) /\ u > 0
  BY TenUnit, Zenon
<1>2. PICK c \in 0..20 : c = N!Absolute(k)
  BY DEF N!Absolute
<1>3. PICK s \in Nat : s = N!Absolute(k) * 10 ^ p /\ s = c * u /\ s <= 20 * u
  <2>1. c * u \in Nat /\ c * u <= 20 * u
    OBVIOUS
  <2>2. c * u = N!Absolute(k) * 10 ^ p
    BY <1>1, <1>2, Zenon
  <2> QED BY <2>1, <2>2, Zenon
<1>4. PICK unit \in Nat : unit = 16 * u /\ unit > 0
  BY <1>1
<1>5. PICK number \in Nat : /\ number = 2 * c * u + 8 - error
                            /\ number = 2 * s + 8 - error /\ number < 10 * unit
  <2>1. 2 * c * u + 8 - error = 2 * s + 8 - error
    BY <1>3
  <2>2. 2 * s + 8 - error \in Nat /\ 2 * s + 8 - error < 10 * unit
    BY <1>1, <1>3, <1>4
  <2> QED BY <2>1, <2>2
<1>6. PICK f, g : /\ Leaves(f, number % unit, unit, p) /\ Tenths(g, f, unit, p)
                  /\ N!Fraction(number % unit, unit, p) = Ciphered(g, p)
  <2>1. number % unit \in Nat
    BY <1>4
  <2> QED BY <1>4, <2>1, FractionText, Zenon
<1>7. PICK w : w = number \div unit
  OBVIOUS
<1>8. w \in 0..9 /\ Told(number, unit, f, g, p)
  BY <1>1, <1>4, <1>5, <1>6, <1>7, FloatDigits, Zenon
<1>9. PICK x, y, z, v : /\ Fraction(g, p, x, y, z) /\ Worth(v, w, p, x, y, z)
                        /\ Floors(v, number)
  BY <1>7, <1>8, Zenon DEF Told
<1>10. PICK m \in Seq(N!Marks) : m = (IF k < 0 THEN <<N!Minus>> ELSE <<>>) /\ Leads(m, k)
  <2>1. 0 \in 0..5 /\ k \in Int
    OBVIOUS
  <2> QED BY <2>1, MarkFacts, Zenon
<1>11. PICK t : t = N!FloatText(k, p, error)
  OBVIOUS
<1>12. m \in Seq(Glyphs) /\ Apart(m, g, w, p, x, y, z)
  <2>1. w \in Nat
    BY <1>8
  <2> QED BY <1>9, <2>1, PiecesMade, Zenon
<1>13. PICK d \in Seq(Glyphs), b \in Seq(Glyphs), e \in Seq(Glyphs) :
        d = N!Digits(w, 10) /\ b = Pointed(p) /\ e = Ciphered(g, p)
  BY <1>12, Zenon DEF Apart
<1>14. t = m \o d \o b \o e
  BY <1>1, <1>2, <1>4, <1>5, <1>6, <1>7, <1>10, <1>11, <1>13, Zenon DEF N!FloatText, Pointed
<1>15. Shown(t, m, w, g, p)
  <2>1. Joins(t, m, d, b, e)
    BY <1>14, Zenon DEF Joins
  <2>2. Spread(t, m, d, b, e)
    BY <1>12, <2>1, FourJoined, Zenon
  <2> QED BY <1>13, <2>2, Zenon DEF Spread, Shown
<1>16. /\ Worth(N!Printed(t), w, p, x, y, z) /\ Signs(t, Len(m)) /\ PointAt(t, p)
       /\ Led(t, m, p)
  BY <1>8, <1>9, <1>15, DoubleText, Zenon
<1>17. N!Printed(t) = v
  BY <1>9, <1>16, WorthSame, Zenon
<1>18. v \in Nat /\ 8 * v - s <= 4 /\ s - 8 * v <= 4
  BY <1>5, <1>9 DEF Floors
<1> QED BY <1>3, <1>10, <1>11, <1>16, <1>17, <1>18, NearWhen, Zenon

(* map() and random().                                                     *)

LEMMA Shares ==
    ASSUME NEW n \in Nat, NEW m \in Nat, NEW b \in Nat, b > 0, n <= b
    PROVE  /\ (n * m) \div b \in Nat /\ (n * m) \div b <= m
           /\ n = 0 => (n * m) \div b = 0
           /\ n = b => (n * m) \div b = m
<1>1. n * m \in Nat /\ n * m <= b * m
  OBVIOUS
<1>2. PICK q \in Nat, r \in 0..b - 1 : q = (n * m) \div b /\ n * m = b * q + r
  BY <1>1
<1>3. q <= m
  <2> SUFFICES ASSUME q >= m + 1 PROVE FALSE
    OBVIOUS
  <2>1. b * q >= b * (m + 1)
    OBVIOUS
  <2>2. b * (m + 1) = b * m + b
    OBVIOUS
  <2> QED BY <1>1, <1>2, <2>1, <2>2
<1>4. n = b => q = m
  <2> SUFFICES ASSUME n = b, q <= m - 1 PROVE FALSE
    BY <1>3
  <2>1. b * q <= b * (m - 1)
    OBVIOUS
  <2>2. b * (m - 1) = b * m - b
    OBVIOUS
  <2> QED BY <1>2, <2>1, <2>2
<1>5. n = 0 => q = 0
  <2> SUFFICES ASSUME n = 0, q >= 1 PROVE FALSE
    OBVIOUS
  <2>1. b * q >= b
    OBVIOUS
  <2> QED BY <1>2, <2>1
<1> QED BY <1>2, <1>3, <1>4, <1>5

Between(x, y, z) == (y <= x /\ x <= z) \/ (z <= x /\ x <= y)

(* The size of a product is the product of the sizes.                      *)
LEMMA Sizes ==
    ASSUME NEW n \in Int, NEW m \in Int
    PROVE  /\ N!Absolute(n) \in Nat /\ (n >= 0 => N!Absolute(n) = n) /\ (n < 0 => N!Absolute(n) = -n)
           /\ N!Absolute(n * m) = N!Absolute(n) * N!Absolute(m)
           /\ (n * m < 0) <=> (n < 0 /\ m > 0) \/ (n > 0 /\ m < 0)
<1>1. CASE n = 0
  <2>1. n * m = 0
    BY <1>1
  <2> QED BY <1>1, <2>1 DEF N!Absolute
<1>2. CASE n > 0 /\ m >= 0
  <2>1. n * m >= 0 /\ n * m \in Int
    BY <1>2
  <2> QED BY <1>2, <2>1 DEF N!Absolute
<1>3. CASE n > 0 /\ m < 0
  <2>1. n * m < 0 /\ n * m \in Int /\ -(n * m) = n * (-m)
    BY <1>3
  <2> QED BY <1>3, <2>1 DEF N!Absolute
<1>4. CASE n < 0 /\ m > 0
  <2>1. n * m < 0 /\ n * m \in Int /\ -(n * m) = (-n) * m
    BY <1>4
  <2> QED BY <1>4, <2>1 DEF N!Absolute
<1>5. CASE n < 0 /\ m <= 0
  <2>1. n * m >= 0 /\ n * m \in Int /\ n * m = (-n) * (-m)
    BY <1>5
  <2>2. N!Absolute(n) = -n /\ N!Absolute(m) = -m
    BY <1>5 DEF N!Absolute
  <2>3. N!Absolute(n * m) = n * m
    BY <2>1 DEF N!Absolute
  <2> QED BY <1>5, <2>1, <2>2, <2>3
<1> QED BY <1>1, <1>2, <1>3, <1>4, <1>5

Scaled(v, n, m, b) ==
    /\ n = 0 => v = 0
    /\ n = b => v = m
    /\ Between(n, 0, b) => v \in Int /\ Between(v, 0, m)

(* A quotient by what is on the same side of 0 and no smaller.             *)
LEMMA Scales ==
    ASSUME NEW n \in Int, NEW m \in Int, NEW b \in Int, b # 0, NEW v, v = N!Quotient(n * m, b)
    PROVE  Scaled(v, n, m, b)
<1>1. PICK i \in Nat, j \in Nat, k \in Nat :
        i = N!Absolute(n) /\ j = N!Absolute(m) /\ k = N!Absolute(b)
  BY DEF N!Absolute
<1>2. /\ (n >= 0 => i = n) /\ (n < 0 => i = -n) /\ (m >= 0 => j = m) /\ (m < 0 => j = -m)
      /\ (b >= 0 => k = b) /\ (b < 0 => k = -b) /\ k > 0
  BY <1>1 DEF N!Absolute
<1>3. N!Absolute(n * m) = i * j /\ ((n * m < 0) <=> (n < 0 /\ m > 0) \/ (n > 0 /\ m < 0))
  BY <1>1, Sizes
<1>4. PICK q : q = (i * j) \div k
  OBVIOUS
<1>5. v = IF (n * m < 0) = (b < 0) THEN q ELSE -q
  BY <1>1, <1>3, <1>4, Zenon DEF N!Quotient
<1>6. ASSUME i <= k
      PROVE  q \in Nat /\ q <= j /\ (i = 0 => q = 0) /\ (i = k => q = j)
  BY <1>2, <1>4, <1>6, Shares
<1>7. n = 0 => v = 0
  <2> SUFFICES ASSUME n = 0 PROVE v = 0
    OBVIOUS
  <2>1. i = 0 /\ i <= k
    BY <1>2
  <2>2. q = 0
    BY <1>6, <2>1
  <2> QED BY <1>5, <2>2
<1>8. ASSUME Between(n, 0, b), n # 0
      PROVE  i <= k /\ (n = b => i = k) /\ v = IF m >= 0 THEN q ELSE -q
  <2>1. i <= k /\ (n = b => i = k)
    BY <1>2, <1>8 DEF Between
  <2>2. q \in Nat /\ q <= j
    BY <1>6, <2>1
  <2>3. CASE m = 0
    <3>1. q = 0
      BY <1>2, <2>2, <2>3
    <3> QED BY <1>5, <2>1, <2>3, <3>1
  <2>4. CASE m > 0
    <3>1. (n * m < 0) = (b < 0)
      <4>1. (n < 0) <=> (b < 0)
        BY <1>8 DEF Between
      <4>2. (n * m < 0) <=> (n < 0)
        BY <1>3, <2>4
      <4>3. (n * m < 0) \in BOOLEAN /\ (b < 0) \in BOOLEAN
        OBVIOUS
      <4> QED BY <4>1, <4>2, <4>3
    <3> QED BY <1>5, <2>1, <2>4, <3>1
  <2>5. CASE m < 0
    <3>1. (n * m < 0) # (b < 0)
      <4>1. (n > 0) <=> ~(b < 0)
        BY <1>8 DEF Between
      <4>2. (n * m < 0) <=> (n > 0)
        BY <1>3, <2>5
      <4> QED BY <4>1, <4>2
    <3> QED BY <1>5, <2>1, <2>5, <3>1
  <2> QED BY <2>3, <2>4, <2>5
<1>9. n = b => v = m
  <2> SUFFICES ASSUME n = b PROVE v = m
    OBVIOUS
  <2>1. Between(n, 0, b) /\ n # 0
    BY DEF Between
  <2>2. q = j
    BY <1>6, <1>8, <2>1
  <2> QED BY <1>2, <1>8, <2>1, <2>2
<1>10. Between(n, 0, b) => v \in Int /\ Between(v, 0, m)
  <2> SUFFICES ASSUME Between(n, 0, b) PROVE v \in Int /\ Between(v, 0, m)
    OBVIOUS
  <2>1. CASE n = 0
    BY <1>7, <2>1 DEF Between
  <2>2. CASE n # 0
    <3>1. q \in Nat /\ q <= j /\ v = IF m >= 0 THEN q ELSE -q
      BY <1>6, <1>8, <2>2
    <3> QED BY <1>2, <3>1 DEF Between
  <2> QED BY <2>1, <2>2
<1> QED BY <1>7, <1>9, <1>10, Zenon DEF Scaled

Mapped(x, a, b, c, d, v) ==
    /\ x = a => v = c
    /\ x = b => v = d
    /\ Between(x, a, b) => Between(v, c, d)

LEMMA MapExact ==
    ASSUME NEW x \in Readings, NEW a \in Ends, NEW b \in Ends, NEW c \in Ends,
           NEW d \in Ends, a # b, NEW v, v = N!Map(x, a, b, c, d)
    PROVE  Mapped(x, a, b, c, d, v)
<1>1. a \in Int /\ b \in Int /\ c \in Int /\ d \in Int /\ x \in Int
  BY RangeAssumption
<1>2. PICK n \in Int, m \in Int, l \in Int : n = x - a /\ m = d - c /\ l = b - a /\ l # 0
  <2>1. x - a \in Int /\ d - c \in Int /\ b - a \in Int /\ b - a # 0
    BY <1>1
  <2> QED BY <2>1
<1>3. PICK q : q = N!Quotient(n * m, l)
  OBVIOUS
<1>4. v = q + c
  BY <1>2, <1>3, Zenon DEF N!Map
<1>5. /\ n = 0 => q = 0
      /\ n = l => q = m
      /\ Between(n, 0, l) => q \in Int /\ Between(q, 0, m)
  <2>1. Scaled(q, n, m, l)
    BY <1>2, <1>3, Scales, Zenon
  <2> QED BY <2>1, Zenon DEF Scaled
<1>6. Between(x, a, b) => Between(v, c, d)
  <2> SUFFICES ASSUME Between(x, a, b) PROVE Between(v, c, d)
    OBVIOUS
  <2>1. Between(n, 0, l)
    BY <1>1, <1>2 DEF Between
  <2>2. q \in Int /\ Between(q, 0, m)
    BY <1>5, <2>1
  <2> QED BY <1>1, <1>2, <1>4, <2>2 DEF Between
<1>7. (x = a => v = c) /\ (x = b => v = d)
  BY <1>1, <1>2, <1>4, <1>5
<1> QED BY <1>6, <1>7 DEF Mapped

LEMMA RandomExact ==
    ASSUME NEW rand \in Draws, NEW small \in Ends, NEW big \in Ends,
           NEW v, v = N!RandomIn(rand, small, big)
    PROVE  IF small < big THEN small <= v /\ v < big ELSE v = small
<1>1. small \in Int /\ big \in Int /\ rand \in Nat
  BY RangeAssumption
<1>2. CASE small < big
  <2>1. PICK l \in Nat : l = big - small /\ l > 0
    BY <1>1, <1>2
  <2>2. N!Absolute(l) = l
    BY <2>1 DEF N!Absolute
  <2>3. N!RandomBelow(rand, l) = rand % l
    BY <2>1, <2>2 DEF N!RandomBelow
  <2>4. rand % l \in 0..l - 1
    BY <1>1, <2>1
  <2>5. v = (rand % l) + small
    BY <1>1, <1>2, <2>1, <2>3 DEF N!RandomIn
  <2> QED BY <1>1, <1>2, <2>1, <2>4, <2>5
<1>3. CASE ~(small < big)
  BY <1>1, <1>3 DEF N!RandomIn
<1> QED BY <1>2, <1>3

(* What ScriptParser reads of a line.                                      *)
Eats(line, rest, n) ==
    n \in 0..2 /\ rest = SubSeq(line, n + 1, Len(line)) /\ Len(line) - Len(rest) = n
Timed(l) == l # <<>> /\ "w" \in DOMAIN l[1] /\ l[1].w \in {"us", "ms", "s", "mn"}

LEMMA TailFacts ==
    ASSUME NEW T, NEW s \in Seq(T), s # <<>>
    PROVE  /\ Tail(s) \in Seq(T) /\ Len(Tail(s)) = Len(s) - 1 /\ Len(s) > 0
           /\ \A i \in 1..Len(s) - 1 : Tail(s)[i] = s[i + 1]
OBVIOUS

LEMMA EatsWhen ==
    ASSUME NEW T, NEW s \in Seq(T), NEW n \in 0..2, NEW r \in Seq(T), n <= Len(s),
           Len(r) = Len(s) - n, \A i \in 1..Len(s) - n : r[i] = s[i + n]
    PROVE  Eats(s, r, n)
<1>1. PICK m \in Nat : m = Len(s)
  OBVIOUS
<1>2. n \in Nat /\ m \in Nat /\ n <= m /\ m <= Len(s)
  BY <1>1
<1>3. /\ SubSeq(s, n + 1, m) \in Seq(T) /\ Len(SubSeq(s, n + 1, m)) = m - n
      /\ \A i \in 1..m - n : SubSeq(s, n + 1, m)[i] = s[n + i]
  BY <1>2, SubSeqFacts
<1>4. PICK u : u = SubSeq(s, n + 1, m)
  OBVIOUS
<1>5. u \in Seq(T) /\ Len(u) = m - n /\ \A i \in 1..m - n : u[i] = s[n + i]
  BY <1>3, <1>4, Zenon
<1>6. \A i \in 1..m - n : u[i] = r[i]
  <2>1. \A i \in 1..m - n : n + i = i + n
    OBVIOUS
  <2> QED BY <1>1, <1>5, <2>1
<1>7. r = u
  BY <1>1, <1>5, <1>6, SameSeq
<1>8. Len(s) - Len(r) = n
  BY <1>1, <1>2
<1> QED BY <1>1, <1>4, <1>7, <1>8, Zenon DEF Eats

LEMMA RestFacts ==
    ASSUME NEW T, NEW line \in Seq(T)
    PROVE  /\ Eats(line, line, 0)
           /\ line # <<>> => Eats(line, Tail(line), 1)
           /\ line # <<>> /\ Tail(line) # <<>> =>
                Len(line) > 1 /\ Tail(line)[1] = line[2] /\ Eats(line, Tail(Tail(line)), 2)
           /\ Len(line) > 1 => line # <<>> /\ Tail(line) # <<>>
<1>1. PICK m \in Nat : m = Len(line)
  OBVIOUS
<1>2. Eats(line, line, 0)
  <2>1. /\ 0 \in 0..2 /\ 0 <= Len(line) /\ Len(line) = Len(line) - 0
        /\ \A i \in 1..Len(line) - 0 : line[i] = line[i + 0]
    OBVIOUS
  <2> QED BY <2>1, EatsWhen
<1>3. ASSUME line # <<>>
      PROVE  \E u \in Seq(T) : u = Tail(line) /\ Len(u) = m - 1 /\ m > 0
                               /\ \A i \in 1..m - 1 : u[i] = line[i + 1]
  <2>1. /\ Tail(line) \in Seq(T) /\ Len(Tail(line)) = Len(line) - 1 /\ Len(line) > 0
        /\ \A i \in 1..Len(line) - 1 : Tail(line)[i] = line[i + 1]
    BY <1>3, TailFacts, Zenon
  <2> QED BY <1>1, <2>1, Zenon
<1>4. ASSUME line # <<>> PROVE Eats(line, Tail(line), 1)
  <2>1. PICK u \in Seq(T) : u = Tail(line) /\ Len(u) = m - 1 /\ m > 0
                            /\ \A i \in 1..m - 1 : u[i] = line[i + 1]
    BY <1>3, <1>4
  <2>2. 1 \in 0..2 /\ 1 <= Len(line)
    BY <1>1, <2>1
  <2>3. Eats(line, u, 1)
    BY <1>1, <2>1, <2>2, EatsWhen
  <2> QED BY <2>1, <2>3
<1>5. ASSUME line # <<>>, Tail(line) # <<>>
      PROVE  m > 1 /\ Tail(line)[1] = line[2] /\ Eats(line, Tail(Tail(line)), 2)
  <2>1. PICK u \in Seq(T) : u = Tail(line) /\ Len(u) = m - 1 /\ m > 0
                            /\ \A i \in 1..m - 1 : u[i] = line[i + 1]
    BY <1>3, <1>5
  <2>2. u # <<>> /\ Len(u) > 0
    BY <1>5, <2>1
  <2>3. m > 1 /\ u[1] = line[2]
    BY <2>1, <2>2
  <2>4. PICK w \in Seq(T) : w = Tail(u) /\ Len(w) = m - 2
                            /\ \A i \in 1..m - 2 : w[i] = u[i + 1]
    <3>1. /\ Tail(u) \in Seq(T) /\ Len(Tail(u)) = Len(u) - 1
          /\ \A i \in 1..Len(u) - 1 : Tail(u)[i] = u[i + 1]
      BY <2>2, TailFacts
    <3>2. Len(u) - 1 = m - 2
      BY <2>1
    <3> QED BY <3>1, <3>2
  <2>5. \A i \in 1..m - 2 : w[i] = line[i + 2]
    <3>1. \A i \in 1..m - 2 : i + 1 \in 1..m - 1 /\ (i + 1) + 1 = i + 2
      OBVIOUS
    <3> QED BY <2>1, <2>4, <3>1
  <2>6. 2 \in 0..2 /\ 2 <= Len(line)
    BY <1>1, <2>3
  <2>7. Eats(line, w, 2)
    BY <1>1, <2>4, <2>5, <2>6, EatsWhen
  <2> QED BY <2>1, <2>3, <2>4, <2>7
<1>6. ASSUME m > 1 PROVE line # <<>> /\ Tail(line) # <<>>
  <2>1. line # <<>>
    BY <1>1, <1>6
  <2>2. PICK u \in Seq(T) : u = Tail(line) /\ Len(u) = m - 1
    BY <1>3, <2>1
  <2>3. Len(u) > 0 /\ Len(<<>>) = 0
    BY <1>6, <2>2
  <2>4. u # <<>>
    BY <2>3
  <2> QED BY <2>1, <2>2, <2>4
<1> QED BY <1>1, <1>2, <1>4, <1>5, <1>6

LEMMA RatioFacts ==
    ASSUME NEW l
    PROVE  /\ Timed(l) => /\ N!Ratio(l) = N!Microseconds[l[1].w] /\ N!Ratio(l) # 0
                          /\ N!Period(l) = 0
           /\ ~Timed(l) => N!Ratio(l) = 0
           /\ (N!Ratio(l) # 0 \/ N!Period(l) # 0) => l # <<>>
<1>1. CASE ~(l # <<>> /\ "w" \in DOMAIN l[1])
  <2>1. N!Ratio(l) = 0 /\ N!Period(l) = 0
    BY <1>1, SMT DEF N!Ratio, N!Period, N!EatWord
  <2> QED BY <1>1, <2>1 DEF Timed
<1>2. CASE l # <<>> /\ "w" \in DOMAIN l[1]
  <2>1. N!Ratio(l) = IF l[1].w = "us" THEN 1 ELSE IF l[1].w = "ms" THEN 1000
                     ELSE IF l[1].w = "s" THEN 1000000 ELSE IF l[1].w = "mn" THEN 60000000 ELSE 0
    BY <1>2, SMT DEF N!Ratio, N!EatWord
  <2>2. N!Period(l) = IF l[1].w = "Mhz" THEN 1 ELSE IF l[1].w = "kHz" THEN 1000
                      ELSE IF l[1].w = "Hz" THEN 1000000 ELSE 0
    BY <1>2, SMT DEF N!Period, N!EatWord
  <2>3. PICK w : w = l[1].w
    OBVIOUS
  <2>4. Timed(l) <=> w \in {"us", "ms", "s", "mn"}
    BY <1>2, <2>3, SMT DEF Timed
  <2>5. /\ N!Microseconds["us"] = 1 /\ N!Microseconds["ms"] = 1000
        /\ N!Microseconds["s"] = 1000000 /\ N!Microseconds["mn"] = 60000000
    BY SMT DEF N!Microseconds
  <2> QED BY <1>2, <2>1, <2>2, <2>3, <2>4, <2>5, SMT
<1> QED BY <1>1, <1>2

TimedLine(line) ==
    /\ Len(line) > 1 /\ N!IsNumber(line)
    /\ ~N!IsNumber(Tail(line)) /\ line[2].w \in DOMAIN N!Microseconds

LEMMA LineFacts ==
    ASSUME NEW line \in Lines
    PROVE  /\ Eats(line, line, 0)
           /\ line # <<>> => Eats(line, Tail(line), 1)
           /\ line # <<>> /\ Tail(line) # <<>> => Eats(line, Tail(Tail(line)), 2)
           /\ TimedLine(line) <=> N!IsNumber(line) /\ Timed(Tail(line))
           /\ TimedLine(line) => Tail(line)[1] = line[2] /\ Tail(line) # <<>>
<1>1. PICK T : T = {line[i] : i \in DOMAIN line}
  OBVIOUS
<1>2. /\ line \in Seq(T)
      /\ \A i \in DOMAIN line : DOMAIN line[i] = {"n"} \/ DOMAIN line[i] = {"w"}
  BY <1>1, NumberAssumption
<1>3. /\ Eats(line, line, 0)
      /\ line # <<>> => Eats(line, Tail(line), 1)
      /\ line # <<>> /\ Tail(line) # <<>> =>
           Len(line) > 1 /\ Tail(line)[1] = line[2] /\ Eats(line, Tail(Tail(line)), 2)
      /\ Len(line) > 1 => line # <<>> /\ Tail(line) # <<>>
  BY <1>2, RestFacts, Zenon
<1>4. DOMAIN N!Microseconds = {"us", "ms", "s", "mn"}
  BY SMT DEF N!Microseconds
<1>5. ASSUME Len(line) > 1
      PROVE  /\ "n" \in DOMAIN line[2] <=> ~("w" \in DOMAIN line[2])
  <2>1. 2 \in DOMAIN line
    BY <1>2, <1>5
  <2> QED BY <1>2, <2>1
<1>6. TimedLine(line) <=> N!IsNumber(line) /\ Timed(Tail(line))
  <2>1. CASE Len(line) > 1
    <3>1. Tail(line) # <<>> /\ Tail(line)[1] = line[2]
      BY <1>3, <2>1, Zenon
    <3>2. N!IsNumber(Tail(line)) <=> ~("w" \in DOMAIN line[2])
      BY <1>5, <2>1, <3>1, Zenon DEF N!IsNumber
    <3>3. Timed(Tail(line)) <=> "w" \in DOMAIN line[2] /\ line[2].w \in {"us", "ms", "s", "mn"}
      BY <3>1, Zenon DEF Timed
    <3> QED BY <1>4, <2>1, <3>2, <3>3, Zenon DEF TimedLine
  <2>2. CASE ~(Len(line) > 1)
    BY <1>3, <2>2, Zenon DEF TimedLine, Timed, N!IsNumber
  <2> QED BY <2>1, <2>2
<1>7. TimedLine(line) => Tail(line)[1] = line[2] /\ Tail(line) # <<>>
  BY <1>3, Zenon DEF TimedLine
<1> QED BY <1>3, <1>6, <1>7, Zenon

(* A result that eats n and is an error unless the line was good.          *)
Argued(line, r, n) == Eats(line, r.rest, n) /\ (r.errors = 0 \/ r.errors = 1)
Meant(line) == line[1].n * N!Microseconds[line[2].w]

LEMMA DurationExact ==
    ASSUME NEW line \in Lines, NEW r, r = N!Duration(line)
    PROVE  \E n : /\ Argued(line, r, n)
                  /\ (r.errors = 0) <=> TimedLine(line)
                  /\ TimedLine(line) => n = 2 /\ r.value = Meant(line)
<1>1. CASE ~N!IsNumber(line)
  <2>1. r = N!Failed(0, line) /\ ~TimedLine(line)
    BY <1>1, Zenon DEF N!Duration, TimedLine
  <2>2. r.rest = line /\ r.errors = 1
    BY <2>1 DEF N!Failed
  <2>3. Argued(line, r, 0)
    BY <2>2, LineFacts DEF Argued
  <2> QED BY <2>1, <2>2, <2>3
<1>2. CASE N!IsNumber(line) /\ ~Timed(Tail(line))
  <2>1. N!Ratio(Tail(line)) = 0 /\ ~TimedLine(line) /\ line # <<>>
    BY <1>2, RatioFacts, LineFacts, Zenon DEF N!IsNumber
  <2>2. r = N!Failed(line[1].n, Tail(line))
    BY <1>2, <2>1, Zenon DEF N!Duration
  <2>3. r.rest = Tail(line) /\ r.errors = 1
    BY <2>2 DEF N!Failed
  <2>4. Argued(line, r, 1)
    BY <2>1, <2>3, LineFacts DEF Argued
  <2> QED BY <2>1, <2>3, <2>4
<1>3. CASE N!IsNumber(line) /\ Timed(Tail(line))
  <2>1. TimedLine(line) /\ Tail(line)[1] = line[2] /\ Tail(line) # <<>> /\ line # <<>>
    BY <1>3, LineFacts, Zenon DEF N!IsNumber
  <2>2. N!Ratio(Tail(line)) = N!Microseconds[line[2].w] /\ N!Ratio(Tail(line)) # 0
    BY <1>3, <2>1, RatioFacts, Zenon
  <2>3. r = N!Got(Meant(line), Tail(Tail(line)))
    BY <1>3, <2>2, Zenon DEF N!Duration, Meant
  <2>4. r.rest = Tail(Tail(line)) /\ r.errors = 0 /\ r.value = Meant(line)
    BY <2>3 DEF N!Got
  <2>5. Argued(line, r, 2)
    BY <2>1, <2>4, LineFacts DEF Argued
  <2> QED BY <2>1, <2>4, <2>5
<1> QED BY <1>1, <1>2, <1>3

LEMMA PeriodExact ==
    ASSUME NEW line \in Lines, NEW r, r = N!PeriodUs(line)
    PROVE  \E n : /\ Argued(line, r, n)
                  /\ r.errors = 0 => n = 2
                  /\ TimedLine(line) => r.errors = 0 /\ r.value = Meant(line)
<1>1. PICK unit : unit = IF N!Period(Tail(line)) = 0 THEN N!Ratio(Tail(line)) ELSE N!Period(Tail(line))
  OBVIOUS
<1>2. r = IF ~N!IsNumber(line) THEN N!Failed(0, line)
          ELSE IF unit = 0 THEN N!Failed(0, Tail(line))
          ELSE N!Got(line[1].n * unit, Tail(Tail(line)))
  BY <1>1, Zenon DEF N!PeriodUs
<1>3. CASE ~N!IsNumber(line)
  <2>1. r = N!Failed(0, line) /\ ~TimedLine(line)
    BY <1>2, <1>3, Zenon DEF TimedLine
  <2>2. r.rest = line /\ r.errors = 1
    BY <2>1 DEF N!Failed
  <2>3. Argued(line, r, 0)
    BY <2>2, LineFacts DEF Argued
  <2> QED BY <2>1, <2>2, <2>3
<1>4. CASE N!IsNumber(line) /\ unit = 0
  <2>1. r = N!Failed(0, Tail(line)) /\ line # <<>>
    BY <1>2, <1>4, Zenon DEF N!IsNumber
  <2>2. r.rest = Tail(line) /\ r.errors = 1
    BY <2>1 DEF N!Failed
  <2>3. Argued(line, r, 1)
    BY <2>1, <2>2, LineFacts DEF Argued
  <2>4. ~TimedLine(line)
    <3>1. N!Ratio(Tail(line)) = 0
      BY <1>1, <1>4, Zenon
    <3>2. ~Timed(Tail(line))
      BY <3>1, RatioFacts, Zenon
    <3> QED BY <3>2, LineFacts, Zenon
  <2> QED BY <2>2, <2>3, <2>4
<1>5. CASE N!IsNumber(line) /\ unit # 0
  <2>1. r = N!Got(line[1].n * unit, Tail(Tail(line))) /\ line # <<>>
    BY <1>2, <1>5, Zenon DEF N!IsNumber
  <2>2. r.rest = Tail(Tail(line)) /\ r.errors = 0 /\ r.value = line[1].n * unit
    BY <2>1 DEF N!Got
  <2>3. N!Ratio(Tail(line)) # 0 \/ N!Period(Tail(line)) # 0
    BY <1>1, <1>5, Zenon
  <2>4. Tail(line) # <<>>
    BY <2>3, RatioFacts, Zenon
  <2>5. Argued(line, r, 2)
    BY <2>1, <2>2, <2>4, LineFacts DEF Argued
  <2>6. TimedLine(line) => r.value = Meant(line)
    <3> SUFFICES ASSUME TimedLine(line) PROVE r.value = Meant(line)
      OBVIOUS
    <3>1. Timed(Tail(line)) /\ Tail(line)[1] = line[2]
      BY LineFacts, Zenon
    <3>2. unit = N!Microseconds[line[2].w]
      BY <1>1, <3>1, RatioFacts, Zenon
    <3> QED BY <2>2, <3>2, Zenon DEF Meant
  <2> QED BY <2>2, <2>5, <2>6
<1> QED BY <1>3, <1>4, <1>5

LEMMA PinExact ==
    ASSUME NEW line \in Lines, NEW r, r = N!PinNumber(line)
    PROVE  \E n : Argued(line, r, n) /\ (r.errors = 0 => n = 1)
<1>1. CASE line = <<>>
  <2>1. r = N!Failed(-1, line)
    BY <1>1, Zenon DEF N!PinNumber, N!IsNumber
  <2>2. r.rest = line /\ r.errors = 1
    BY <2>1 DEF N!Failed
  <2>3. Argued(line, r, 0)
    BY <2>2, LineFacts DEF Argued
  <2> QED BY <2>2, <2>3
<1>2. CASE line # <<>>
  <2>1. \/ \E v : r = N!Got(v, Tail(line))
        \/ r = N!Failed(-1, Tail(line))
    BY <1>2, Zenon DEF N!PinNumber
  <2>2. r.rest = Tail(line) /\ (r.errors = 0 \/ r.errors = 1)
    BY <2>1 DEF N!Got, N!Failed
  <2>3. Argued(line, r, 1)
    BY <1>2, <2>2, LineFacts DEF Argued
  <2> QED BY <2>3
<1> QED BY <1>1, <1>2

(* What each call answered.                                                *)
Wrote(op, n, b, t) == asked = [op |-> op, n |-> n, base |-> b] /\ answer = [text |-> t]
Doubled(op, k, p, t) == asked = [op |-> op, k |-> k, places |-> p] /\ answer = [text |-> t]
Parsed(op, line, r) == asked = [op |-> op, line |-> line] /\ answer = r
MappedTo(x, a, b, c, d, v) ==
    asked = [op |-> "map", x |-> x, from |-> <<a, b>>, to |-> <<c, d>>] /\ answer = [value |-> v]
Drew(small, big, v) ==
    asked = [op |-> "random", small |-> small, big |-> big] /\ answer = [value |-> v]

Answered ==
    \/ asked = [op |-> "none"]
    \/ \E n \in N!Long, b \in Bases : Wrote("ltoa", n, b, N!LtoaText(n, b))
    \/ \E n \in N!ULong, b \in Bases : Wrote("ultoa", n, b, N!UtoaText(n, b))
    \/ \E n \in N!Long \cup N!ULong, b \in Bases : Wrote("print", n, b, N!PrintText(n, b))
    \/ \E k \in -20..20, p \in 0..3 : Doubled("dtostrf", k, p, N!FixedText(k, p + 2, p))
    \/ \E k \in -20..20, p \in 0..3, e \in 0..1 :
          Doubled("printFloat", k, p, N!FloatText(k, p, e))
    \/ \E line \in Lines : \/ Parsed("duration", line, N!Duration(line))
                           \/ Parsed("period", line, N!PeriodUs(line))
                           \/ Parsed("pin", line, N!PinNumber(line))
    \/ \E x \in Readings, a, b, c, d \in Ends :
          a # b /\ MappedTo(x, a, b, c, d, N!Map(x, a, b, c, d))
    \/ \E small, big \in Ends, rand \in Draws : Drew(small, big, N!RandomIn(rand, small, big))

LEMMA NumberPart == [TextNext]_textVars => N!Next \/ UNCHANGED numberVars
BY Zenon DEF TextNext, StringStep, NumberStep, AddressStep, SerialStep, StreamStep, ScriptStep,
             textVars, numberVars

LEMMA AnsweredBegins == TextInit => Answered
BY DEF TextInit, N!Init, Answered

LEMMA AnsweredKept == Answered /\ [TextNext]_textVars => Answered'
<1> SUFFICES ASSUME Answered, [TextNext]_textVars PROVE Answered'
  OBVIOUS
<1>1. CASE UNCHANGED numberVars
  BY <1>1, Zenon DEF numberVars, Answered, Wrote, Doubled, Parsed, MappedTo, Drew
<1>2. ASSUME NEW n \in N!Long, NEW b \in Bases, N!Ltoa(n, b) \/ N!PrintNumber(n, b)
      PROVE  Answered'
  <2>1. n \in N!Long \cup N!ULong
    OBVIOUS
  <2> QED BY <1>2, <2>1, Zenon DEF N!Ltoa, N!PrintNumber, N!Writes, N!Answer, Answered, Wrote
<1>3. ASSUME NEW n \in N!ULong, NEW b \in Bases, N!Ultoa(n, b) \/ N!PrintNumber(n, b)
      PROVE  Answered'
  <2>1. n \in N!Long \cup N!ULong
    OBVIOUS
  <2> QED BY <1>3, <2>1, Zenon DEF N!Ultoa, N!PrintNumber, N!Writes, N!Answer, Answered, Wrote
<1>4. ASSUME NEW k \in -20..20, NEW p \in 0..3,
             N!Dtostrf(k, p) \/ \E e \in 0..1 : N!PrintFloat(k, p, e)
      PROVE  Answered'
  BY <1>4, Zenon DEF N!Dtostrf, N!PrintFloat, N!Writes, N!Answer, Answered, Doubled
<1>5. ASSUME NEW line \in Lines,
             N!GetDuration(line) \/ N!GetPeriodUs(line) \/ N!GetPinNumber(line)
      PROVE  Answered'
  BY <1>5, Zenon DEF N!GetDuration, N!GetPeriodUs, N!GetPinNumber, N!Answer, Answered, Parsed
<1>6. ASSUME NEW a \in Ends, NEW b \in Ends, NEW c \in Ends, NEW d \in Ends,
             NEW x \in Readings, N!MapRange(x, a, b, c, d)
      PROVE  Answered'
  BY <1>6, Zenon DEF N!MapRange, N!Yields, N!Answer, Answered, MappedTo
<1>7. ASSUME NEW small \in Ends, NEW big \in Ends, NEW rand \in Draws,
             N!Random(rand, small, big)
      PROVE  Answered'
  BY <1>7, Zenon DEF N!Random, N!Yields, N!Answer, Answered, Drew
<1> QED BY <1>1, <1>2, <1>3, <1>4, <1>5, <1>6, <1>7, NumberPart, Zenon DEF N!Next

LEMMA WroteExact ==
    ASSUME NEW op \in {"ltoa", "ultoa", "print"}, NEW n, NEW b, NEW t, Wrote(op, n, b, t),
           N!IntegersExact
    PROVE  N!NumbersExact
<1>1. asked.op = op
  BY DEF Wrote
<1>2. op \notin {"dtostrf", "printFloat", "duration", "period", "pin", "map", "random"}
  OBVIOUS
<1> QED BY <1>1, <1>2, Zenon
        DEF N!NumbersExact, N!DoublesNearest, N!ArgumentsRead, N!RangesKept

LEMMA LtoaHolds ==
    ASSUME NEW n \in N!Long, NEW b \in Bases, Wrote("ltoa", n, b, N!LtoaText(n, b))
    PROVE  N!NumbersExact
<1>1. PICK t, base : t = N!LtoaText(n, b) /\ base = N!Base(b)
  OBVIOUS
<1>2. /\ N!Fits(t, Width + 2) /\ N!Plain(t)
      /\ base = 10 => N!Fits(t, 2 + 3 * N!Bytes) /\ N!ToInt(t) = n
      /\ base # 10 => ~N!Signed(t) /\ N!Read(t, base) = N!Unsigned(n)
  BY <1>1, LtoaExact
<1>3. asked.op = "ltoa" /\ asked.n = n /\ asked.base = b /\ answer.text = t
  BY <1>1 DEF Wrote
<1>4. "ltoa" # "ultoa" /\ "ltoa" # "print" /\ "ltoa" \in {"ltoa", "ultoa", "print"}
  OBVIOUS
<1>5. N!IntegersExact
  BY <1>1, <1>2, <1>3, <1>4, Zenon DEF N!IntegersExact
<1> QED BY <1>4, <1>5, WroteExact, Zenon

LEMMA UltoaHolds ==
    ASSUME NEW n \in N!ULong, NEW b \in Bases, Wrote("ultoa", n, b, N!UtoaText(n, b))
    PROVE  N!NumbersExact
<1>1. PICK t, base : t = N!UtoaText(n, b) /\ base = N!Base(b)
  OBVIOUS
<1>2. /\ N!Fits(t, Width + 1) /\ N!Plain(t)
      /\ base = 10 => N!Fits(t, 1 + 3 * N!Bytes)
      /\ N!Read(t, base) = n
  BY <1>1, UltoaExact
<1>3. asked.op = "ultoa" /\ asked.n = n /\ asked.base = b /\ answer.text = t
  BY <1>1 DEF Wrote
<1>4. "ultoa" # "ltoa" /\ "ultoa" # "print" /\ "ultoa" \in {"ltoa", "ultoa", "print"}
  OBVIOUS
<1>5. N!IntegersExact
  BY <1>1, <1>2, <1>3, <1>4, Zenon DEF N!IntegersExact
<1> QED BY <1>4, <1>5, WroteExact, Zenon

LEMMA PrintHolds ==
    ASSUME NEW n \in N!Long \cup N!ULong, NEW b \in Bases, Wrote("print", n, b, N!PrintText(n, b))
    PROVE  N!NumbersExact
<1>1. PICK t, base : t = N!PrintText(n, b) /\ base = N!Base(b)
  OBVIOUS
<1>2. /\ N!Fits(N!Bare(t), Width + 1) /\ N!Plain(t)
      /\ b = base => t = IF n < 0 THEN N!LtoaText(n, base) ELSE N!UtoaText(n, base)
  BY <1>1, PrintExact
<1>3. asked.op = "print" /\ asked.n = n /\ asked.base = b /\ answer.text = t
  BY <1>1 DEF Wrote
<1>4. "print" # "ltoa" /\ "print" # "ultoa" /\ "print" \in {"ltoa", "ultoa", "print"}
  OBVIOUS
<1>5. N!IntegersExact
  BY <1>1, <1>2, <1>3, <1>4, Zenon DEF N!IntegersExact
<1> QED BY <1>4, <1>5, WroteExact, Zenon

LEMMA DoubleHolds ==
    ASSUME NEW op \in {"dtostrf", "printFloat"}, NEW k, NEW p, NEW t, Doubled(op, k, p, t),
           Near(t, k, p)
    PROVE  N!NumbersExact
<1>1. asked.op = op /\ asked.k = k /\ asked.places = p /\ answer.text = t
  BY DEF Doubled
<1>2. op \notin {"ltoa", "ultoa", "print", "duration", "period", "pin", "map", "random"}
  OBVIOUS
<1>3. N!DoublesNearest
  BY <1>1, Zenon DEF Near, PointAt, N!DoublesNearest
<1> QED BY <1>1, <1>2, <1>3, Zenon DEF N!NumbersExact, N!ArgumentsRead, N!RangesKept

LEMMA ParsedHolds ==
    ASSUME NEW op \in {"duration", "period", "pin"}, NEW line, NEW r, Parsed(op, line, r),
           NEW n, Argued(line, r, n),
           op = "duration" => /\ (r.errors = 0) <=> TimedLine(line)
                              /\ TimedLine(line) => n = 2 /\ r.value = Meant(line),
           op = "period" => /\ r.errors = 0 => n = 2
                            /\ TimedLine(line) => r.errors = 0 /\ r.value = Meant(line),
           op = "pin" => (r.errors = 0 => n = 1)
    PROVE  N!NumbersExact
<1>1. asked.op = op /\ asked.line = line /\ answer = r
  BY DEF Parsed
<1>2. op \notin {"ltoa", "ultoa", "print", "dtostrf", "printFloat", "map", "random"}
  OBVIOUS
<1>3. /\ Len(line) - Len(r.rest) = n /\ n \in 0..2
      /\ r.rest = SubSeq(line, n + 1, Len(line))
  BY Zenon DEF Argued, Eats
<1>4. op = "duration" => /\ (r.errors = 0) = TimedLine(line)
                         /\ TimedLine(line) => n = 2 /\ r.value = Meant(line)
  <2>1. TimedLine(line) \in BOOLEAN
    BY Zenon DEF TimedLine
  <2> QED BY <2>1
<1>5. r.errors = 0 => n = IF op = "pin" THEN 1 ELSE 2
  BY <1>4
<1>6. N!ArgumentsRead
  BY <1>1, <1>3, <1>4, <1>5, Zenon DEF N!ArgumentsRead, TimedLine, Meant
<1> QED BY <1>1, <1>2, <1>6, Zenon DEF N!NumbersExact, N!DoublesNearest, N!RangesKept

LEMMA LineHolds ==
    ASSUME NEW line \in Lines,
           \/ Parsed("duration", line, N!Duration(line))
           \/ Parsed("period", line, N!PeriodUs(line))
           \/ Parsed("pin", line, N!PinNumber(line))
    PROVE  N!NumbersExact
<1>1. "duration" # "period" /\ "duration" # "pin" /\ "period" # "pin"
  OBVIOUS
<1>2. CASE Parsed("duration", line, N!Duration(line))
  <2>1. PICK r : r = N!Duration(line)
    OBVIOUS
  <2>2. PICK n : /\ Argued(line, r, n)
                 /\ (r.errors = 0) <=> TimedLine(line)
                 /\ TimedLine(line) => n = 2 /\ r.value = Meant(line)
    BY <2>1, DurationExact
  <2> QED BY <1>1, <1>2, <2>1, <2>2, ParsedHolds
<1>3. CASE Parsed("period", line, N!PeriodUs(line))
  <2>1. PICK r : r = N!PeriodUs(line)
    OBVIOUS
  <2>2. PICK n : /\ Argued(line, r, n)
                 /\ r.errors = 0 => n = 2
                 /\ TimedLine(line) => r.errors = 0 /\ r.value = Meant(line)
    BY <2>1, PeriodExact
  <2> QED BY <1>1, <1>3, <2>1, <2>2, ParsedHolds
<1>4. CASE Parsed("pin", line, N!PinNumber(line))
  <2>1. PICK r : r = N!PinNumber(line)
    OBVIOUS
  <2>2. PICK n : Argued(line, r, n) /\ (r.errors = 0 => n = 1)
    BY <2>1, PinExact
  <2> QED BY <1>1, <1>4, <2>1, <2>2, ParsedHolds
<1> QED BY <1>2, <1>3, <1>4

LEMMA MapHolds ==
    ASSUME NEW x \in Readings, NEW a \in Ends, NEW b \in Ends, NEW c \in Ends,
           NEW d \in Ends, a # b, MappedTo(x, a, b, c, d, N!Map(x, a, b, c, d))
    PROVE  N!NumbersExact
<1>1. PICK v : v = N!Map(x, a, b, c, d)
  OBVIOUS
<1>2. Mapped(x, a, b, c, d, v)
  BY <1>1, MapExact, Zenon
<1>3. /\ asked.op = "map" /\ asked.x = x /\ asked.from[1] = a /\ asked.from[2] = b
      /\ asked.to[1] = c /\ asked.to[2] = d /\ answer.value = v
  BY <1>1 DEF MappedTo
<1>4. "map" \notin {"ltoa", "ultoa", "print", "dtostrf", "printFloat", "duration", "period",
                    "pin"} /\ "map" # "random"
  OBVIOUS
<1>5. N!RangesKept
  BY <1>2, <1>3, <1>4, Zenon DEF N!RangesKept, Mapped, Between
<1> QED BY <1>3, <1>4, <1>5, Zenon DEF N!NumbersExact, N!DoublesNearest, N!ArgumentsRead

LEMMA RandomHolds ==
    ASSUME NEW rand \in Draws, NEW small \in Ends, NEW big \in Ends,
           Drew(small, big, N!RandomIn(rand, small, big))
    PROVE  N!NumbersExact
<1>1. PICK v : v = N!RandomIn(rand, small, big)
  OBVIOUS
<1>2. IF small < big THEN small <= v /\ v < big ELSE v = small
  BY <1>1, RandomExact
<1>3. asked.op = "random" /\ asked.small = small /\ asked.big = big /\ answer.value = v
  BY <1>1 DEF Drew
<1>4. "random" \notin {"ltoa", "ultoa", "print", "dtostrf", "printFloat", "duration", "period",
                       "pin"} /\ "random" # "map"
  OBVIOUS
<1>5. N!RangesKept
  BY <1>2, <1>3, <1>4, Zenon DEF N!RangesKept
<1> QED BY <1>3, <1>4, <1>5, Zenon DEF N!NumbersExact, N!DoublesNearest, N!ArgumentsRead

LEMMA AnsweredExact == Answered => N!NumbersExact
<1> SUFFICES ASSUME Answered PROVE N!NumbersExact
  OBVIOUS
<1>1. CASE asked = [op |-> "none"]
  <2>1. asked.op = "none"
    BY <1>1
  <2> QED BY <2>1, Zenon DEF N!NumbersExact
<1>2. ASSUME NEW k \in -20..20, NEW p \in 0..3, Doubled("dtostrf", k, p, N!FixedText(k, p + 2, p))
      PROVE  N!NumbersExact
  <2>1. "dtostrf" \in {"dtostrf", "printFloat"}
    OBVIOUS
  <2> QED BY <1>2, <2>1, FixedExact, DoubleHolds, Zenon
<1>3. ASSUME NEW k \in -20..20, NEW p \in 0..3, NEW e \in 0..1,
             Doubled("printFloat", k, p, N!FloatText(k, p, e))
      PROVE  N!NumbersExact
  <2>1. "printFloat" \in {"dtostrf", "printFloat"}
    OBVIOUS
  <2> QED BY <1>3, <2>1, FloatExact, DoubleHolds, Zenon
<1> QED BY <1>1, <1>2, <1>3, LtoaHolds, UltoaHolds, PrintHolds, LineHolds, MapHolds, RandomHolds,
           Zenon DEF Answered

(* What is read back is what was written, nothing is written past a        *)
(* buffer, map() and random() stay in their range.                         *)
THEOREM NumbersHold == TextSpec => []N!NumbersExact
BY AnsweredBegins, AnsweredKept, AnsweredExact, PTL DEF TextSpec

-----------------------------------------------------------------------------
(* Addresses.  The number some digits make, one by one.                    *)
Weighs(w, d) == w = [i \in 0..Len(d) |-> IF i = 0 THEN 0 ELSE 10 * w[i - 1] + d[i]]

LEMMA WeighIs ==
    ASSUME NEW T, NEW d \in Seq(T), NEW f, Weighs(f, d)
    PROVE  D!Weigh(d) = f[Len(d)]
<1>1. PICK m \in Nat : m = Len(d)
  OBVIOUS
<1>2. PICK g : g = CHOOSE h : Weighs(h, d)
  OBVIOUS
<1>3. Weighs(g, d)
  BY <1>2, Zenon
<1>4. D!Weigh(d) = g[m]
  BY <1>1, <1>2, Zenon DEF D!Weigh, Weighs
<1>5. /\ f = [i \in 0..m |-> IF i = 0 THEN 0 ELSE 10 * f[i - 1] + d[i]]
      /\ g = [i \in 0..m |-> IF i = 0 THEN 0 ELSE 10 * g[i - 1] + d[i]]
  BY <1>1, <1>3, Zenon DEF Weighs
<1> DEFINE K == {n \in Nat : n <= m => f[n] = g[n]}
<1>6. 0 \in K
  BY <1>5
<1>7. ASSUME NEW k \in K PROVE k + 1 \in K
  <2> SUFFICES ASSUME k + 1 <= m PROVE f[k + 1] = g[k + 1]
    OBVIOUS
  <2>1. k + 1 \in 0..m /\ k + 1 # 0 /\ k + 1 - 1 = k /\ f[k] = g[k]
    OBVIOUS
  <2> QED BY <1>5, <2>1
<1>8. m \in K
  <2> HIDE DEF K
  <2>1. K \in SUBSET Nat
    BY DEF K
  <2> QED BY <1>6, <1>7, <2>1, CountUp
<1> QED BY <1>1, <1>4, <1>8

LEMMA WeighExists ==
    ASSUME NEW d \in Seq(Nat)
    PROVE  \E f \in [0..Len(d) -> Nat] : Weighs(f, d)
<1>1. PICK m \in Nat : m = Len(d)
  OBVIOUS
<1>2. PICK G : G = [n \in 1..m |-> [x \in Nat |-> 10 * x + d[n]]]
  OBVIOUS
<1>3. \A n \in 1..m : d[n] \in Nat
  BY <1>1
<1>4. G \in [1..m -> [Nat -> Nat]]
  <2>1. \A n \in 1..m, x \in Nat : 10 * x + d[n] \in Nat
    BY <1>3
  <2> QED BY <1>2, <2>1
<1>5. PICK f \in [0..m -> Nat] : Iterates(f, m, 0, G)
  BY <1>4, IterationExists
<1>6. \A n \in 0..m : f[n] = IF n = 0 THEN 0 ELSE 10 * f[n - 1] + d[n]
  <2>1. f[0] = 0
    BY <1>5 DEF Iterates
  <2>2. ASSUME NEW n \in 1..m PROVE f[n] = 10 * f[n - 1] + d[n]
    <3>1. f[n] = G[n][f[n - 1]]
      BY <1>5, Zenon DEF Iterates
    <3>2. n - 1 \in 0..m
      OBVIOUS
    <3>3. f[n - 1] \in Nat
      BY <3>2
    <3> QED BY <1>2, <1>3, <3>1, <3>3
  <2>3. \A n \in 0..m : n = 0 \/ n \in 1..m
    OBVIOUS
  <2> QED BY <2>1, <2>2, <2>3, Zenon
<1>7. Weighs(f, d)
  BY <1>1, <1>6 DEF Weighs
<1> QED BY <1>1, <1>7

Piece(u, s, l, r) == Len(u) = r - l /\ \A i \in 1..r - l : u[i] = s[l + i]

LEMMA PieceFacts ==
    ASSUME NEW T, NEW s \in Seq(T), NEW l \in Nat, NEW r \in Nat, l <= r, r <= Len(s),
           NEW u, u = SubSeq(s, l + 1, r)
    PROVE  u \in Seq(T) /\ Piece(u, s, l, r)
<1>1. /\ SubSeq(s, l + 1, r) \in Seq(T) /\ Len(SubSeq(s, l + 1, r)) = r - l
      /\ \A i \in 1..r - l : SubSeq(s, l + 1, r)[i] = s[l + i]
  BY SubSeqFacts
<1> QED BY <1>1, Zenon DEF Piece

(* The weight of what lies behind a, up to b.                              *)
Weight(text, a, b) == D!Weigh(SubSeq(text, a + 1, b))

LEMMA WeightFacts ==
    ASSUME NEW text \in Seq(Nat), NEW a \in Nat, NEW b \in Nat, a <= b, b <= Len(text)
    PROVE  /\ Weight(text, a, b) \in Nat
           /\ a = b => Weight(text, a, b) = 0
           /\ b < Len(text) => Weight(text, a, b + 1) = 10 * Weight(text, a, b) + text[b + 1]
<1>1. PICK d \in Seq(Nat) : /\ d = SubSeq(text, a + 1, b) /\ Len(d) = b - a
                            /\ \A i \in 1..b - a : d[i] = text[a + i]
  <2>1. PICK u : u = SubSeq(text, a + 1, b)
    OBVIOUS
  <2>2. u \in Seq(Nat) /\ Piece(u, text, a, b)
    BY <2>1, PieceFacts, Zenon
  <2> QED BY <2>1, <2>2, Zenon DEF Piece
<1>2. PICK f \in [0..Len(d) -> Nat] : Weighs(f, d)
  BY WeighExists
<1>3. Weight(text, a, b) = f[b - a]
  BY <1>1, <1>2, WeighIs DEF Weight
<1>4. PICK l \in Nat : l = b - a
  OBVIOUS
<1>5. f[l] \in Nat
  BY <1>1, <1>2, <1>4
<1>6. a = b => f[l] = 0
  BY <1>1, <1>2, <1>4 DEF Weighs
<1>7. ASSUME b < Len(text)
      PROVE  Weight(text, a, b + 1) = 10 * Weight(text, a, b) + text[b + 1]
  <2>1. PICK c \in Nat : c = b + 1 /\ c <= Len(text) /\ a <= c /\ c - a = l + 1
    BY <1>4, <1>7
  <2>2. PICK e \in Seq(Nat) : /\ e = SubSeq(text, a + 1, c) /\ Len(e) = c - a
                              /\ \A i \in 1..c - a : e[i] = text[a + i]
    <3>1. PICK u : u = SubSeq(text, a + 1, c)
      OBVIOUS
    <3>2. u \in Seq(Nat) /\ Piece(u, text, a, c)
      BY <2>1, <3>1, PieceFacts, Zenon
    <3> QED BY <3>1, <3>2, Zenon DEF Piece
  <2>3. PICK g \in [0..Len(e) -> Nat] : Weighs(g, e)
    BY WeighExists
  <2>4. Weight(text, a, c) = g[l + 1]
    <3>1. D!Weigh(e) = g[Len(e)]
      BY <2>3, WeighIs
    <3> QED BY <2>1, <2>2, <3>1, Zenon DEF Weight
  <2>5. \A i \in 0..l + 1 : g[i] = IF i = 0 THEN 0 ELSE 10 * g[i - 1] + e[i]
    BY <2>1, <2>2, <2>3 DEF Weighs
  <2>6. g[l + 1] = 10 * g[l] + text[b + 1]
    <3>1. l + 1 \in 0..l + 1 /\ l + 1 # 0 /\ (l + 1) - 1 = l /\ l + 1 \in 1..c - a /\ a + (l + 1) = b + 1
      BY <1>4, <2>1
    <3>2. e[l + 1] = text[b + 1]
      BY <2>2, <3>1
    <3> QED BY <2>5, <3>1, <3>2
  <2>7. PICK h : h = [i \in 0..l |-> g[i]]
    OBVIOUS
  <2>8. Weighs(h, d)
    <3>1. \A i \in 0..l : h[i] = IF i = 0 THEN 0 ELSE 10 * h[i - 1] + d[i]
      <4> SUFFICES ASSUME NEW i \in 0..l PROVE h[i] = IF i = 0 THEN 0 ELSE 10 * h[i - 1] + d[i]
        OBVIOUS
      <4>1. i \in 0..l + 1 /\ h[i] = g[i]
        BY <2>7
      <4>2. CASE i = 0
        BY <2>5, <4>1, <4>2
      <4>3. CASE i # 0
        <5>1. i \in 1..l /\ i - 1 \in 0..l /\ i \in 1..b - a /\ i \in 1..c - a
          BY <1>4, <2>1, <4>3
        <5>2. h[i - 1] = g[i - 1] /\ d[i] = e[i]
          BY <1>1, <2>2, <2>7, <5>1
        <5> QED BY <2>5, <4>1, <4>3, <5>2
      <4> QED BY <4>2, <4>3
    <3>2. h = [i \in 0..l |-> h[i]]
      BY <2>7
    <3> QED BY <1>1, <1>4, <3>1, <3>2 DEF Weighs
  <2>9. Weight(text, a, b) = h[l]
    BY <1>1, <1>4, <2>8, WeighIs DEF Weight
  <2>10. h[l] = g[l]
    BY <2>7
  <2> QED BY <2>1, <2>4, <2>6, <2>9, <2>10
<1> QED BY <1>3, <1>4, <1>5, <1>6, <1>7

LEMMA WeightGrows ==
    ASSUME NEW text \in Seq(Nat), NEW a \in Nat, NEW b \in Nat, NEW c \in Nat,
           a <= b, b <= c, c <= Len(text)
    PROVE  Weight(text, a, b) <= Weight(text, a, c)
<1> DEFINE K == {k \in Nat : b + k <= Len(text) => Weight(text, a, b) <= Weight(text, a, b + k)}
<1>1. 0 \in K
  <2>1. Weight(text, a, b) \in Nat /\ b + 0 = b
    BY WeightFacts
  <2> QED BY <2>1
<1>2. ASSUME NEW k \in K PROVE k + 1 \in K
  <2> SUFFICES ASSUME b + (k + 1) <= Len(text)
               PROVE  Weight(text, a, b) <= Weight(text, a, b + (k + 1))
    OBVIOUS
  <2>1. PICK n \in Nat : n = b + k /\ n + 1 = b + (k + 1) /\ a <= n /\ n < Len(text) /\ n <= Len(text)
    OBVIOUS
  <2>2. Weight(text, a, b) <= Weight(text, a, n)
    BY <2>1
  <2>3. Weight(text, a, n) \in Nat /\ Weight(text, a, n + 1) = 10 * Weight(text, a, n) + text[n + 1]
    BY <2>1, WeightFacts
  <2>4. text[n + 1] \in Nat
    BY <2>1
  <2>5. Weight(text, a, b) \in Nat
    BY WeightFacts
  <2> QED BY <2>1, <2>2, <2>3, <2>4, <2>5
<1>3. K = Nat
  <2> HIDE DEF K
  <2>1. K \in SUBSET Nat
    BY DEF K
  <2> QED BY <1>1, <1>2, <2>1, CountUp
<1>4. PICK n \in Nat : n = c - b /\ b + n = c
  OBVIOUS
<1>5. n \in K
  <2> HIDE DEF K
  <2> QED BY <1>3
<1>6. b + n <= Len(text) => Weight(text, a, b) <= Weight(text, a, b + n)
  BY <1>5
<1> QED BY <1>4, <1>6

(* fromString(), character by character.                                   *)
Octets == [1..4 -> 0..255]
ScanStates == [octets : Octets, acc : 0..255, dots : 0..3, ok : BOOLEAN]
Scans(f, text, octets) ==
    f = [n \in 0..Len(text) |->
           IF n = 0 THEN [octets |-> octets, acc |-> 0, dots |-> 0, ok |-> TRUE]
           ELSE D!Scanned(f[n - 1], text[n])]

LEMMA ScannedType ==
    ASSUME NEW s \in ScanStates, NEW c \in Nat
    PROVE  D!Scanned(s, c) \in ScanStates
<1>1. CASE ~s.ok
  BY <1>1 DEF D!Scanned
<1>2. CASE s.ok /\ c \in 0..9 /\ 10 * s.acc + c <= 255
  <2>1. s.acc \in 0..255
    BY DEF ScanStates
  <2>2. 10 * s.acc + c \in 0..255
    BY <1>2, <2>1
  <2>3. D!Scanned(s, c) = [s EXCEPT !.acc = 10 * s.acc + c]
    BY <1>2 DEF D!Scanned
  <2> QED BY <2>2, <2>3 DEF ScanStates
<1>3. CASE s.ok /\ ~(c \in 0..9 /\ 10 * s.acc + c <= 255) /\ c = D!Dot /\ s.dots < 3
  <2>1. s.acc \in 0..255 /\ s.dots \in 0..3 /\ s.octets \in Octets
    BY DEF ScanStates
  <2>2. s.dots + 1 \in 0..3 /\ s.dots + 1 \in 1..4
    BY <1>3, <2>1
  <2>3. [s.octets EXCEPT ![s.dots + 1] = s.acc] \in Octets
    BY <2>1, <2>2 DEF Octets
  <2>4. D!Scanned(s, c) = [s EXCEPT !.octets[s.dots + 1] = s.acc, !.dots = s.dots + 1, !.acc = 0]
    BY <1>3, Zenon DEF D!Scanned
  <2>5. [s EXCEPT !.octets[s.dots + 1] = s.acc, !.dots = s.dots + 1, !.acc = 0]
        = [s EXCEPT !.octets = [s.octets EXCEPT ![s.dots + 1] = s.acc],
                    !.dots = s.dots + 1, !.acc = 0]
    BY DEF ScanStates
  <2>6. D!Scanned(s, c) = [s EXCEPT !.octets = [s.octets EXCEPT ![s.dots + 1] = s.acc],
                                    !.dots = s.dots + 1, !.acc = 0]
    BY <2>4, <2>5, Zenon
  <2>7. PICK o \in Octets : o = [s.octets EXCEPT ![s.dots + 1] = s.acc]
    BY <2>3
  <2>8. PICK e \in 0..3 : e = s.dots + 1
    BY <2>2
  <2>9. D!Scanned(s, c) = [s EXCEPT !.octets = o, !.dots = e, !.acc = 0]
    BY <2>6, <2>7, <2>8, Zenon
  <2>10. [s EXCEPT !.octets = o, !.dots = e, !.acc = 0] \in ScanStates
    <3>1. s \in [octets : Octets, acc : 0..255, dots : 0..3, ok : BOOLEAN]
      BY DEF ScanStates
    <3>2. 0 \in 0..255
      OBVIOUS
    <3>3. [s EXCEPT !.octets = o, !.dots = e, !.acc = 0]
          \in [octets : Octets, acc : 0..255, dots : 0..3, ok : BOOLEAN]
      BY <3>1, <3>2
    <3> QED BY <3>3, Zenon DEF ScanStates
  <2> QED BY <2>9, <2>10, Zenon
<1>4. CASE s.ok /\ ~(c \in 0..9 /\ 10 * s.acc + c <= 255) /\ ~(c = D!Dot /\ s.dots < 3)
  <2>1. D!Scanned(s, c) = [s EXCEPT !.ok = FALSE]
    BY <1>4 DEF D!Scanned
  <2> QED BY <2>1 DEF ScanStates
<1> QED BY <1>1, <1>2, <1>3, <1>4

LEMMA ScanExists ==
    ASSUME NEW text \in Seq(Nat), NEW octets \in Octets
    PROVE  \E f : Scans(f, text, octets)
<1>1. PICK m \in Nat : m = Len(text)
  OBVIOUS
<1>2. PICK G : G = [n \in 1..m |-> [s \in ScanStates |-> D!Scanned(s, text[n])]]
  OBVIOUS
<1>3. G \in [1..m -> [ScanStates -> ScanStates]]
  <2>1. \A n \in 1..m : text[n] \in Nat
    BY <1>1
  <2>2. \A n \in 1..m, s \in ScanStates : D!Scanned(s, text[n]) \in ScanStates
    BY <2>1, ScannedType, Zenon
  <2> QED BY <1>2, <2>2
<1>4. PICK first : first = [octets |-> octets, acc |-> 0, dots |-> 0, ok |-> TRUE]
  OBVIOUS
<1>5. first \in ScanStates
  BY <1>4 DEF ScanStates
<1>6. PICK f \in [0..m -> ScanStates] : Iterates(f, m, first, G)
  BY <1>3, <1>5, IterationExists
<1>7. \A n \in 0..m : f[n] = IF n = 0 THEN first ELSE D!Scanned(f[n - 1], text[n])
  <2>1. f[0] = first
    BY <1>6 DEF Iterates
  <2>2. ASSUME NEW n \in 1..m PROVE f[n] = D!Scanned(f[n - 1], text[n])
    <3>1. f[n] = G[n][f[n - 1]]
      BY <1>6, Zenon DEF Iterates
    <3>2. n - 1 \in 0..m
      OBVIOUS
    <3>3. f[n - 1] \in ScanStates
      BY <3>2
    <3> QED BY <1>2, <3>1, <3>3
  <2>3. \A n \in 0..m : n = 0 \/ n \in 1..m
    OBVIOUS
  <2> QED BY <2>1, <2>2, <2>3, Zenon
<1>8. f = [n \in 0..m |-> f[n]]
  BY <1>6, Zenon DEF Iterates
<1>9. f = [n \in 0..m |-> IF n = 0 THEN first ELSE D!Scanned(f[n - 1], text[n])]
  BY <1>7, <1>8
<1> QED BY <1>1, <1>4, <1>9, Zenon DEF Scans

(* What a state says of the text so far: where the dots are, that the      *)
(* octets are the numbers between them; or why it is no address.           *)
Parted(text, octets, p, d) ==
    \A m \in 1..d : /\ p[m - 1] < p[m] /\ p[m] <= p[d] /\ text[p[m]] = D!Dot
                    /\ octets[m] = Weight(text, p[m - 1], p[m] - 1)
Dotted(text, p, d, n) == \A i \in 1..n : text[i] \in 0..9 \/ \E m \in 1..d : i = p[m]
HeldBy(text, s, n, p) ==
    /\ p[0] = 0 /\ p[s.dots] <= n /\ s.acc = Weight(text, p[s.dots], n)
    /\ Parted(text, s.octets, p, s.dots) /\ Dotted(text, p, s.dots, n)
Held(text, s, n) == \E p \in [0..3 -> Nat] : HeldBy(text, s, n, p)
Alien(text, k) == text[k] \notin 0..9 \cup {D!Dot}
Crowded(text, k) ==
    \E p \in [1..4 -> 1..k] : /\ p[1] < p[2] /\ p[2] < p[3] /\ p[3] < p[4]
                              /\ \A m \in 1..4 : text[p[m]] = D!Dot
Large(text, q, k) ==
    /\ q = 0 \/ text[q] = D!Dot
    /\ \A i \in q + 1..k : text[i] \in 0..9
    /\ Weight(text, q, k) > 255
Wrong(text, k) == Alien(text, k) \/ Crowded(text, k) \/ \E q \in 0..k - 1 : Large(text, q, k)
Scanning(text, s, n) ==
    /\ s \in ScanStates
    /\ s.ok => Held(text, s, n)
    /\ ~s.ok => \E k \in 1..n : Wrong(text, k)

LEMMA PlaceIs ==
    ASSUME NEW p \in [0..3 -> Nat], NEW m \in 0..3
    PROVE  p[m] \in Nat
OBVIOUS

LEMMA ScanDigit ==
    ASSUME NEW text \in Seq(Nat), NEW n \in Nat, n + 1 <= Len(text), NEW s \in ScanStates,
           Held(text, s, n), NEW c, c = text[n + 1], c \in 0..9, 10 * s.acc + c <= 255
    PROVE  Held(text, [s EXCEPT !.acc = 10 * s.acc + c], n + 1)
<1>1. PICK p \in [0..3 -> Nat] : HeldBy(text, s, n, p)
  BY Zenon DEF Held
<1>2. PICK t : t = [s EXCEPT !.acc = 10 * s.acc + c]
  OBVIOUS
<1>3. t.dots = s.dots /\ t.octets = s.octets /\ t.acc = 10 * s.acc + c /\ s.dots \in 0..3
  BY <1>2 DEF ScanStates
<1>4. PICK q \in Nat : q = p[s.dots]
  BY <1>3
<1>5. /\ p[0] = 0 /\ q <= n /\ s.acc = Weight(text, q, n)
      /\ Parted(text, s.octets, p, s.dots) /\ Dotted(text, p, s.dots, n)
  BY <1>1, <1>4, Zenon DEF HeldBy
<1>6. Weight(text, q, n + 1) = 10 * Weight(text, q, n) + c
  <2>1. n <= Len(text) /\ n < Len(text)
    OBVIOUS
  <2> QED BY <1>5, <2>1, WeightFacts
<1>7. Dotted(text, p, s.dots, n + 1)
  <2>1. \A i \in 1..n + 1 : i \in 1..n \/ i = n + 1
    OBVIOUS
  <2> QED BY <1>5, <2>1, Zenon DEF Dotted
<1>8. q <= n + 1 /\ t.acc = Weight(text, q, n + 1)
  BY <1>3, <1>5, <1>6
<1>9. HeldBy(text, t, n + 1, p)
  BY <1>3, <1>4, <1>5, <1>7, <1>8, Zenon DEF HeldBy
<1>10. Held(text, t, n + 1)
  BY <1>9, Zenon DEF Held
<1> QED BY <1>2, <1>10, Zenon

LEMMA ScanDot ==
    ASSUME NEW text \in Seq(Nat), NEW n \in Nat, n + 1 <= Len(text), NEW s \in ScanStates,
           Held(text, s, n), text[n + 1] = D!Dot, s.dots < 3,
           NEW t \in ScanStates, t.octets = [s.octets EXCEPT ![s.dots + 1] = s.acc],
           t.dots = s.dots + 1, t.acc = 0
    PROVE  Held(text, t, n + 1)
<1>1. PICK p \in [0..3 -> Nat] : HeldBy(text, s, n, p)
  BY Zenon DEF Held
<1>2. PICK d \in 0..2 : d = s.dots
  BY DEF ScanStates
<1>3. PICK o \in Octets : o = s.octets
  BY DEF ScanStates
<1>4. PICK a \in 0..255 : a = s.acc
  BY DEF ScanStates
<1>5. /\ p[0] = 0 /\ p[d] <= n /\ a = Weight(text, p[d], n)
      /\ Parted(text, o, p, d) /\ Dotted(text, p, d, n)
  BY <1>1, <1>2, <1>3, <1>4, Zenon DEF HeldBy
<1>6. PICK k \in Nat : k = n + 1
  OBVIOUS
<1>7. PICK e \in 1..3 : e = d + 1
  OBVIOUS
<1>8. PICK q \in [0..3 -> Nat] : q = [p EXCEPT ![e] = k]
  BY <1>7
<1>9. PICK u : u = [o EXCEPT ![e] = a]
  OBVIOUS
<1>10. t.dots = e /\ t.octets = u
  BY <1>2, <1>3, <1>4, <1>7, <1>9
<1>11. q[e] = k /\ \A m \in 0..d : q[m] = p[m]
  BY <1>7, <1>8
<1>12. u[e] = a /\ \A m \in 1..d : u[m] = o[m]
  BY <1>7, <1>9 DEF Octets
<1>13. q[0] = 0
  BY <1>5, <1>11
<1>14. t.acc = Weight(text, q[e], k)
  BY <1>6, <1>11, WeightFacts
<1>15. Parted(text, u, q, e)
  <2> SUFFICES ASSUME NEW m \in 1..e
               PROVE  /\ q[m - 1] < q[m] /\ q[m] <= q[e] /\ text[q[m]] = D!Dot
                      /\ u[m] = Weight(text, q[m - 1], q[m] - 1)
    BY Zenon DEF Parted
  <2>1. CASE m = e
    <3>1. m - 1 = d /\ k - 1 = n /\ d \in 0..d /\ d \in 0..3 /\ k <= k
      BY <1>6, <1>7, <2>1
    <3>2. q[m - 1] = p[d] /\ q[m] = k /\ q[m] <= q[e]
      BY <1>11, <2>1, <3>1, Zenon
    <3>3. p[d] < k
      <4>1. p[d] \in Nat
        BY <3>1, PlaceIs, Zenon
      <4> QED BY <1>5, <1>6, <4>1
    <3>4. u[m] = Weight(text, q[m - 1], q[m] - 1)
      BY <1>5, <1>12, <2>1, <3>1, <3>2, Zenon
    <3>5. text[k] = D!Dot
      BY <1>6
    <3> QED BY <3>2, <3>3, <3>4, <3>5, Zenon
  <2>2. CASE m # e
    <3>1. m \in 1..d /\ m - 1 \in 0..d /\ m \in 0..d
      BY <1>7, <2>2
    <3>2. q[m - 1] = p[m - 1] /\ q[m] = p[m] /\ u[m] = o[m]
      BY <1>11, <1>12, <3>1, Zenon
    <3>3. /\ p[m - 1] < p[m] /\ p[m] <= p[d] /\ text[p[m]] = D!Dot
          /\ o[m] = Weight(text, p[m - 1], p[m] - 1)
      BY <1>5, <3>1, Zenon DEF Parted
    <3>4. p[m] <= k
      <4>1. m \in 0..3 /\ d \in 0..3
        BY <3>1
      <4>2. PICK x \in Nat, y \in Nat : x = p[m] /\ y = p[d]
        BY <4>1, PlaceIs, Zenon
      <4>3. x <= y /\ y <= n
        BY <1>5, <3>3, <4>2, Zenon
      <4>4. x <= k
        BY <1>6, <4>3
      <4> QED BY <4>2, <4>4, Zenon
    <3> QED BY <1>11, <3>2, <3>3, <3>4, Zenon
  <2> QED BY <2>1, <2>2
<1>16. Dotted(text, q, e, k)
  <2> SUFFICES ASSUME NEW i \in 1..k, ~(text[i] \in 0..9) PROVE \E m \in 1..e : i = q[m]
    BY Zenon DEF Dotted
  <2>1. CASE i = k
    <3>1. e \in 1..e
      OBVIOUS
    <3> QED BY <1>11, <2>1, <3>1, Zenon
  <2>2. CASE i # k
    <3>1. i \in 1..n
      BY <1>6, <2>2
    <3>2. PICK m \in 1..d : i = p[m]
      BY <1>5, <3>1, Zenon DEF Dotted
    <3>3. m \in 1..e /\ m \in 0..d
      BY <1>7
    <3> QED BY <1>11, <3>2, <3>3, Zenon
  <2> QED BY <2>1, <2>2
<1>17. q[e] <= k
  BY <1>11
<1>18. HeldBy(text, t, k, q)
  BY <1>10, <1>13, <1>14, <1>15, <1>16, <1>17, Zenon DEF HeldBy
<1> QED BY <1>6, <1>18, Zenon DEF Held

LEMMA ScanWrong ==
    ASSUME NEW text \in Seq(Nat), NEW n \in Nat, n + 1 <= Len(text), NEW s \in ScanStates,
           Held(text, s, n), NEW c, c = text[n + 1],
           ~(c \in 0..9 /\ 10 * s.acc + c <= 255), ~(c = D!Dot /\ s.dots < 3)
    PROVE  Wrong(text, n + 1)
<1>1. PICK p \in [0..3 -> Nat] : HeldBy(text, s, n, p)
  BY Zenon DEF Held
<1>2. PICK d \in 0..3 : d = s.dots
  BY DEF ScanStates
<1>3. PICK a \in 0..255 : a = s.acc
  BY DEF ScanStates
<1>4. /\ p[0] = 0 /\ p[d] <= n /\ a = Weight(text, p[d], n)
      /\ Parted(text, s.octets, p, d) /\ Dotted(text, p, d, n)
  BY <1>1, <1>2, <1>3, Zenon DEF HeldBy
<1>5. CASE c \in 0..9
  <2>1. PICK q \in Nat : q = p[d] /\ q <= n
    BY <1>4
  <2>2. Weight(text, q, n + 1) = 10 * Weight(text, q, n) + c
    <3>1. n <= Len(text) /\ n < Len(text)
      OBVIOUS
    <3> QED BY <2>1, <3>1, WeightFacts
  <2>3. a = Weight(text, q, n)
    BY <1>4, <2>1, Zenon
  <2>4. ~(10 * a + c <= 255)
    BY <1>3, <1>5, Zenon
  <2>5. 10 * a + c > 255
    BY <1>5, <2>4
  <2>6. q = 0 \/ text[q] = D!Dot
    <3>1. CASE d = 0
      BY <1>4, <2>1, <3>1
    <3>2. CASE d # 0
      <4>1. d \in 1..d
        BY <3>2
      <4> QED BY <1>4, <2>1, <4>1, Zenon DEF Parted
    <3> QED BY <3>1, <3>2
  <2>7. \A i \in q + 1..n + 1 : text[i] \in 0..9
    <3> SUFFICES ASSUME NEW i \in q + 1..n + 1 PROVE text[i] \in 0..9
      OBVIOUS
    <3>1. CASE i = n + 1
      BY <1>5, <3>1
    <3>2. CASE i # n + 1
      <4>1. i \in 1..n /\ i > q
        BY <2>1, <3>2
      <4>2. ASSUME NEW m \in 1..d PROVE i # p[m]
        <5>1. p[m] <= p[d]
          BY <1>4, Zenon DEF Parted
        <5>2. m \in 0..3
          OBVIOUS
        <5>3. PICK x \in Nat : x = p[m]
          BY <5>2, PlaceIs, Zenon
        <5>4. x <= q
          BY <2>1, <5>1, <5>3, Zenon
        <5>5. i # x
          BY <4>1, <5>4
        <5> QED BY <5>3, <5>5, Zenon
      <4>3. text[i] \in 0..9 \/ \E m \in 1..d : i = p[m]
        BY <1>4, <4>1, Zenon DEF Dotted
      <4> QED BY <4>2, <4>3
    <3> QED BY <3>1, <3>2
  <2>8. q \in 0..(n + 1) - 1
    BY <2>1
  <2>9. Weight(text, q, n + 1) > 255
    BY <2>2, <2>3, <2>5
  <2>10. Large(text, q, n + 1)
    BY <2>6, <2>7, <2>9, Zenon DEF Large
  <2> QED BY <2>8, <2>10, Zenon DEF Wrong
<1>6. CASE c = D!Dot /\ ~(c \in 0..9)
  <2>1. d = 3
    BY <1>2, <1>6
  <2>2. PICK q : q = [m \in 1..4 |-> IF m = 4 THEN n + 1 ELSE p[m]]
    OBVIOUS
  <2>3. q[1] = p[1] /\ q[2] = p[2] /\ q[3] = p[3] /\ q[4] = n + 1
    BY <2>2
  <2>4. 1 \in 1..d /\ 2 \in 1..d /\ 3 \in 1..d /\ 1 - 1 = 0 /\ 2 - 1 = 1 /\ 3 - 1 = 2
    BY <2>1
  <2>5. /\ p[0] < p[1] /\ p[1] < p[2] /\ p[2] < p[3]
        /\ text[p[1]] = D!Dot /\ text[p[2]] = D!Dot /\ text[p[3]] = D!Dot
    BY <1>4, <2>4, Zenon DEF Parted
  <2>6. p[0] = 0 /\ p[1] \in Nat /\ p[2] \in Nat /\ p[3] \in Nat /\ p[3] <= n
    <3>1. 1 \in 0..3 /\ 2 \in 0..3 /\ 3 \in 0..3
      OBVIOUS
    <3> QED BY <1>4, <2>1, <3>1, PlaceIs, Zenon
  <2>7. p[1] \in 1..n + 1 /\ p[2] \in 1..n + 1 /\ p[3] \in 1..n + 1 /\ n + 1 \in 1..n + 1
    <3>1. PICK x \in Nat, y \in Nat, z \in Nat : x = p[1] /\ y = p[2] /\ z = p[3]
      BY <2>6, Zenon
    <3>2. 0 < x /\ x < y /\ y < z /\ z <= n
      BY <2>5, <2>6, <3>1, Zenon
    <3>3. x \in 1..n + 1 /\ y \in 1..n + 1 /\ z \in 1..n + 1 /\ n + 1 \in 1..n + 1
      BY <3>2
    <3> QED BY <3>1, <3>3, Zenon
  <2>8. \A m \in 1..4 : m = 1 \/ m = 2 \/ m = 3 \/ m = 4
    OBVIOUS
  <2>9. \A m \in 1..4 : q[m] \in 1..n + 1 /\ text[q[m]] = D!Dot
    <3>1. text[n + 1] = D!Dot
      BY <1>6
    <3> SUFFICES ASSUME NEW m \in 1..4 PROVE q[m] \in 1..n + 1 /\ text[q[m]] = D!Dot
      OBVIOUS
    <3>2. CASE m = 1
      BY <2>3, <2>5, <2>7, <3>2
    <3>3. CASE m = 2
      BY <2>3, <2>5, <2>7, <3>3
    <3>4. CASE m = 3
      BY <2>3, <2>5, <2>7, <3>4
    <3>5. CASE m = 4
      BY <2>3, <2>7, <3>1, <3>5
    <3> QED BY <2>8, <3>2, <3>3, <3>4, <3>5
  <2>10. q \in [1..4 -> 1..n + 1]
    BY <2>2, <2>9
  <2>11. q[1] < q[2] /\ q[2] < q[3] /\ q[3] < q[4]
    BY <2>3, <2>5, <2>6
  <2>12. Crowded(text, n + 1)
    BY <2>9, <2>10, <2>11, Zenon DEF Crowded
  <2> QED BY <2>12, Zenon DEF Wrong
<1>7. CASE ~(c \in 0..9) /\ c # D!Dot
  BY <1>7 DEF Wrong, Alien
<1> QED BY <1>5, <1>6, <1>7

LEMMA ScanStep ==
    ASSUME NEW text \in Seq(Nat), NEW n \in Nat, n + 1 <= Len(text), NEW s,
           Scanning(text, s, n)
    PROVE  Scanning(text, D!Scanned(s, text[n + 1]), n + 1)
<1>1. s \in ScanStates
  BY Zenon DEF Scanning
<1>2. PICK c \in Nat : c = text[n + 1]
  OBVIOUS
<1>3. PICK t \in ScanStates : t = D!Scanned(s, c)
  BY <1>1, <1>2, ScannedType
<1>4. n + 1 \in 1..n + 1
  OBVIOUS
<1>5. CASE ~s.ok
  <2>1. t = s
    BY <1>3, <1>5, Zenon DEF D!Scanned
  <2>2. PICK k \in 1..n : Wrong(text, k)
    BY <1>5, Zenon DEF Scanning
  <2>3. k \in 1..n + 1
    OBVIOUS
  <2> QED BY <1>2, <1>3, <1>5, <2>1, <2>2, <2>3, Zenon DEF Scanning
<1>6. CASE s.ok /\ c \in 0..9 /\ 10 * s.acc + c <= 255
  <2>1. t = [s EXCEPT !.acc = 10 * s.acc + c]
    BY <1>3, <1>6 DEF D!Scanned
  <2>2. Held(text, s, n)
    BY <1>6, Zenon DEF Scanning
  <2>3. Held(text, t, n + 1)
    BY <1>1, <1>2, <1>6, <2>1, <2>2, ScanDigit
  <2>4. t.ok
    BY <1>1, <1>6, <2>1 DEF ScanStates
  <2> QED BY <1>2, <1>3, <2>3, <2>4, Zenon DEF Scanning
<1>7. CASE s.ok /\ ~(c \in 0..9 /\ 10 * s.acc + c <= 255) /\ c = D!Dot /\ s.dots < 3
  <2>1. t = [s EXCEPT !.octets = [s.octets EXCEPT ![s.dots + 1] = s.acc],
                      !.dots = s.dots + 1, !.acc = 0]
    BY <1>1, <1>3, <1>7 DEF D!Scanned, ScanStates
  <2>2. Held(text, s, n)
    BY <1>7, Zenon DEF Scanning
  <2>3. /\ t.octets = [s.octets EXCEPT ![s.dots + 1] = s.acc]
        /\ t.dots = s.dots + 1 /\ t.acc = 0 /\ t.ok
    BY <1>1, <1>7, <2>1 DEF ScanStates
  <2>4. Held(text, t, n + 1)
    <3>1. text[n + 1] = D!Dot /\ s.dots < 3
      BY <1>2, <1>7
    <3> QED BY <1>1, <2>2, <2>3, <3>1, ScanDot, Zenon
  <2> QED BY <1>2, <1>3, <2>3, <2>4, Zenon DEF Scanning
<1>8. CASE s.ok /\ ~(c \in 0..9 /\ 10 * s.acc + c <= 255) /\ ~(c = D!Dot /\ s.dots < 3)
  <2>1. t = [s EXCEPT !.ok = FALSE]
    BY <1>3, <1>8 DEF D!Scanned
  <2>2. ~t.ok
    BY <1>1, <2>1 DEF ScanStates
  <2>3. Held(text, s, n)
    BY <1>8, Zenon DEF Scanning
  <2>4. Wrong(text, n + 1)
    BY <1>1, <1>2, <1>8, <2>3, ScanWrong
  <2> QED BY <1>2, <1>3, <1>4, <2>2, <2>4, Zenon DEF Scanning
<1> QED BY <1>5, <1>6, <1>7, <1>8

LEMMA ScanIs ==
    ASSUME NEW text \in Seq(Nat), NEW octets, NEW f, Scans(f, text, octets)
    PROVE  D!Scan(text, octets) = D!Outcome(f[Len(text)])
<1>1. PICK m \in Nat : m = Len(text)
  OBVIOUS
<1>2. PICK g : g = CHOOSE h : Scans(h, text, octets)
  OBVIOUS
<1>3. Scans(g, text, octets)
  BY <1>2, Zenon
<1>4. D!Scan(text, octets) = D!Outcome(g[m])
  BY <1>1, <1>2, Zenon DEF D!Scan, Scans
<1>5. PICK first : first = [octets |-> octets, acc |-> 0, dots |-> 0, ok |-> TRUE]
  OBVIOUS
<1>6. /\ f = [n \in 0..m |-> IF n = 0 THEN first ELSE D!Scanned(f[n - 1], text[n])]
      /\ g = [n \in 0..m |-> IF n = 0 THEN first ELSE D!Scanned(g[n - 1], text[n])]
  BY <1>1, <1>3, <1>5, Zenon DEF Scans
<1> DEFINE K == {n \in Nat : n <= m => f[n] = g[n]}
<1>7. 0 \in K
  BY <1>6
<1>8. ASSUME NEW k \in K PROVE k + 1 \in K
  <2> SUFFICES ASSUME k + 1 <= m PROVE f[k + 1] = g[k + 1]
    OBVIOUS
  <2>1. k + 1 \in 0..m /\ k + 1 # 0 /\ k + 1 - 1 = k /\ f[k] = g[k]
    OBVIOUS
  <2> QED BY <1>6, <2>1
<1>9. m \in K
  <2> HIDE DEF K
  <2>1. K \in SUBSET Nat
    BY DEF K
  <2> QED BY <1>7, <1>8, <2>1, CountUp
<1> QED BY <1>1, <1>4, <1>9

LEMMA ScanBegins ==
    ASSUME NEW text \in Seq(Nat), NEW octets \in Octets,
           NEW s, s = [octets |-> octets, acc |-> 0, dots |-> 0, ok |-> TRUE]
    PROVE  Scanning(text, s, 0)
<1>1. s \in ScanStates
  BY DEF ScanStates
<1>2. PICK p \in [0..3 -> Nat] : p = [i \in 0..3 |-> 0]
  OBVIOUS
<1>3. p[0] = 0 /\ p[s.dots] <= 0 /\ s.dots = 0 /\ p[s.dots] = 0
  BY <1>2
<1>4. s.acc = Weight(text, p[s.dots], 0)
  <2>1. Weight(text, 0, 0) = 0
    BY WeightFacts
  <2> QED BY <1>3, <2>1
<1>5. Parted(text, s.octets, p, s.dots) /\ Dotted(text, p, s.dots, 0)
  BY <1>3 DEF Parted, Dotted
<1>6. Held(text, s, 0)
  BY <1>2, <1>3, <1>4, <1>5, Zenon DEF Held, HeldBy
<1>7. s.ok
  OBVIOUS
<1> QED BY <1>1, <1>6, <1>7, Zenon DEF Scanning

LEMMA ScanHolds ==
    ASSUME NEW text \in Seq(Nat), NEW octets \in Octets, NEW f, Scans(f, text, octets)
    PROVE  Scanning(text, f[Len(text)], Len(text))
<1>1. PICK m \in Nat : m = Len(text)
  OBVIOUS
<1>2. PICK first : first = [octets |-> octets, acc |-> 0, dots |-> 0, ok |-> TRUE]
  OBVIOUS
<1>3. f = [n \in 0..m |-> IF n = 0 THEN first ELSE D!Scanned(f[n - 1], text[n])]
  BY <1>1, <1>2, Zenon DEF Scans
<1> DEFINE K == {n \in Nat : n <= m => Scanning(text, f[n], n)}
<1>4. 0 \in K
  <2>1. f[0] = first
    BY <1>3
  <2>2. Scanning(text, f[0], 0)
    BY <1>2, <2>1, ScanBegins, Zenon
  <2> QED BY <2>2
<1>5. ASSUME NEW k \in K PROVE k + 1 \in K
  <2> SUFFICES ASSUME k + 1 <= m PROVE Scanning(text, f[k + 1], k + 1)
    OBVIOUS
  <2>1. k + 1 \in 0..m /\ k + 1 # 0 /\ k + 1 - 1 = k /\ k \in Nat /\ k <= m
    OBVIOUS
  <2>2. f[k + 1] = D!Scanned(f[k], text[k + 1])
    <3>1. PICK n \in 0..m : n = k + 1 /\ n # 0 /\ n - 1 = k
      BY <2>1
    <3>2. f[n] = D!Scanned(f[n - 1], text[n])
      BY <1>3, <3>1
    <3> QED BY <3>1, <3>2
  <2>3. Scanning(text, f[k], k)
    BY <2>1
  <2>4. k + 1 <= Len(text)
    BY <1>1
  <2>5. Scanning(text, D!Scanned(f[k], text[k + 1]), k + 1)
    BY <2>1, <2>3, <2>4, ScanStep, Zenon
  <2> QED BY <2>2, <2>5, Zenon
<1>6. m \in K
  <2> HIDE DEF K
  <2>1. K \in SUBSET Nat
    BY DEF K
  <2> QED BY <1>4, <1>5, <2>1, CountUp
<1> QED BY <1>1, <1>6

(* Three dots between digits.                                              *)
Cut(text, a, b, c) ==
    /\ a \in 1..Len(text) /\ b \in 1..Len(text) /\ c \in 1..Len(text) /\ a < b /\ b < c
    /\ text[a] = D!Dot /\ text[b] = D!Dot /\ text[c] = D!Dot
    /\ \A i \in 1..Len(text) : text[i] \in 0..9 \/ i = a \/ i = b \/ i = c
Four(text, a, b, c) ==
    << Weight(text, 0, a - 1), Weight(text, a, b - 1),
       Weight(text, b, c - 1), Weight(text, c, Len(text)) >>

LEMMA SplitIs ==
    ASSUME NEW text \in Seq(Nat)
    PROVE  /\ \A p \in D!Splits(text) : \E a, b, c \in Nat : p = <<a, b, c>> /\ Cut(text, a, b, c)
           /\ \A a, b, c \in Nat : Cut(text, a, b, c) => <<a, b, c>> \in D!Splits(text)
<1>1. PICK dots : dots = {i \in DOMAIN text : text[i] = D!Dot}
  OBVIOUS
<1>2. D!Splits(text) = {p \in dots \X dots \X dots :
                         /\ p[1] < p[2] /\ p[2] < p[3]
                         /\ \A i \in DOMAIN text : text[i] \in 0..9 \/ i \in {p[1], p[2], p[3]}}
  BY <1>1 DEF D!Splits
<1>3. DOMAIN text = 1..Len(text)
  OBVIOUS
<1>4. ASSUME NEW p \in D!Splits(text)
      PROVE  \E a, b, c \in Nat : p = <<a, b, c>> /\ Cut(text, a, b, c)
  <2>1. PICK a \in dots, b \in dots, c \in dots : p = <<a, b, c>>
    BY <1>2
  <2>2. a \in Nat /\ b \in Nat /\ c \in Nat
    BY <1>1, <1>3
  <2>3. Cut(text, a, b, c)
    BY <1>1, <1>2, <1>3, <2>1 DEF Cut
  <2> QED BY <2>1, <2>2, <2>3, Zenon
<1>5. ASSUME NEW a \in Nat, NEW b \in Nat, NEW c \in Nat, Cut(text, a, b, c)
      PROVE  <<a, b, c>> \in D!Splits(text)
  <2>1. a \in dots /\ b \in dots /\ c \in dots
    BY <1>1, <1>3, <1>5 DEF Cut
  <2>2. PICK p : p = <<a, b, c>>
    OBVIOUS
  <2>3. p \in dots \X dots \X dots /\ p[1] = a /\ p[2] = b /\ p[3] = c
    BY <2>1, <2>2
  <2>4. p[1] < p[2] /\ p[2] < p[3]
    BY <1>5, <2>3 DEF Cut
  <2>5. \A i \in DOMAIN text : text[i] \in 0..9 \/ i \in {p[1], p[2], p[3]}
    BY <1>3, <1>5, <2>3 DEF Cut
  <2> QED BY <1>2, <2>2, <2>3, <2>4, <2>5
<1> QED BY <1>4, <1>5

LEMMA PartsIs ==
    ASSUME NEW text \in Seq(Nat), NEW a \in Nat, NEW b \in Nat, NEW c \in Nat
    PROVE  D!Numbers(text, <<a, b, c>>) = Four(text, a, b, c)
<1>1. PICK p : p = <<a, b, c>>
  OBVIOUS
<1>2. p[1] = a /\ p[2] = b /\ p[3] = c
  BY <1>1
<1>3. 0 + 1 = 1
  OBVIOUS
<1>4. D!Numbers(text, p) = Four(text, a, b, c)
  BY <1>2, <1>3 DEF D!Numbers, Four, Weight
<1> QED BY <1>1, <1>4

LEMMA CutOnce ==
    ASSUME NEW text \in Seq(Nat), NEW a \in Nat, NEW b \in Nat, NEW c \in Nat, Cut(text, a, b, c),
           NEW x \in Nat, NEW y \in Nat, NEW z \in Nat, Cut(text, x, y, z)
    PROVE  x = a /\ y = b /\ z = c
<1>1. D!Dot = 10
  BY DEF D!Dot
<1>2. (x = a \/ x = b \/ x = c) /\ (y = a \/ y = b \/ y = c) /\ (z = a \/ z = b \/ z = c)
  <2>1. \A i \in 1..Len(text) : text[i] = D!Dot => i = a \/ i = b \/ i = c
    <3>1. ~(D!Dot \in 0..9)
      BY <1>1
    <3> QED BY <3>1, Zenon DEF Cut
  <2>2. /\ x \in 1..Len(text) /\ y \in 1..Len(text) /\ z \in 1..Len(text)
        /\ text[x] = D!Dot /\ text[y] = D!Dot /\ text[z] = D!Dot
    BY Zenon DEF Cut
  <2> QED BY <2>1, <2>2, Zenon
<1>3. a < b /\ b < c /\ x < y /\ y < z
  BY DEF Cut
<1> QED BY <1>2, <1>3

(* A text that went wrong has no three dots between four numbers up to 255.*)
Small(w) == \A n \in 1..4 : w[n] <= 255
NextCut(a, b, c, q, r, l) ==
    \/ q = 0 /\ r = a
    \/ q = a /\ r = b
    \/ q = b /\ r = c
    \/ q = c /\ r = l + 1

LEMMA SmallParts ==
    ASSUME NEW text \in Seq(Nat), NEW a \in Nat, NEW b \in Nat, NEW c \in Nat,
           Small(Four(text, a, b, c)), NEW q \in Nat, NEW r \in Nat,
           NextCut(a, b, c, q, r, Len(text))
    PROVE  Weight(text, q, r - 1) <= 255
<1>1. PICK w : w = Four(text, a, b, c)
  OBVIOUS
<1>2. /\ w[1] = Weight(text, 0, a - 1) /\ w[2] = Weight(text, a, b - 1)
      /\ w[3] = Weight(text, b, c - 1) /\ w[4] = Weight(text, c, Len(text))
  BY <1>1 DEF Four
<1>3. w[1] <= 255 /\ w[2] <= 255 /\ w[3] <= 255 /\ w[4] <= 255
  BY <1>1 DEF Small
<1>4. CASE q = 0 /\ r = a
  BY <1>2, <1>3, <1>4
<1>5. CASE q = a /\ r = b
  BY <1>2, <1>3, <1>5
<1>6. CASE q = b /\ r = c
  BY <1>2, <1>3, <1>6
<1>7. CASE q = c /\ r = Len(text) + 1
  <2>1. r - 1 = Len(text)
    BY <1>7
  <2> QED BY <1>2, <1>3, <1>7, <2>1
<1> QED BY <1>4, <1>5, <1>6, <1>7 DEF NextCut

LEMMA WrongCut ==
    ASSUME NEW text \in Seq(Nat), NEW k \in 1..Len(text), Wrong(text, k),
           NEW a \in Nat, NEW b \in Nat, NEW c \in Nat, Cut(text, a, b, c),
           Small(Four(text, a, b, c))
    PROVE  FALSE
<1>1. ~(D!Dot \in 0..9)
  BY DEF D!Dot
<1>2. /\ a \in 1..Len(text) /\ b \in 1..Len(text) /\ c \in 1..Len(text) /\ a < b /\ b < c
      /\ text[a] = D!Dot /\ text[b] = D!Dot /\ text[c] = D!Dot
      /\ \A i \in 1..Len(text) : text[i] \in 0..9 \/ i = a \/ i = b \/ i = c
  BY Zenon DEF Cut
<1>3. CASE Alien(text, k)
  <2>1. ~(text[k] \in 0..9) /\ text[k] # D!Dot
    BY <1>3 DEF Alien
  <2> QED BY <1>2, <2>1, Zenon
<1>4. CASE Crowded(text, k)
  <2>1. PICK p \in [1..4 -> 1..k] : /\ p[1] < p[2] /\ p[2] < p[3] /\ p[3] < p[4]
                                    /\ \A m \in 1..4 : text[p[m]] = D!Dot
    BY <1>4, Zenon DEF Crowded
  <2>2. p[1] \in 1..Len(text) /\ p[2] \in 1..Len(text) /\ p[3] \in 1..Len(text) /\ p[4] \in 1..Len(text)
    OBVIOUS
  <2>3. text[p[1]] = D!Dot /\ text[p[2]] = D!Dot /\ text[p[3]] = D!Dot /\ text[p[4]] = D!Dot
    BY <2>1
  <2>4. \A i \in 1..Len(text) : text[i] = D!Dot => i = a \/ i = b \/ i = c
    BY <1>1, <1>2, Zenon
  <2>5. PICK v \in Nat, x \in Nat, y \in Nat, z \in Nat : v = p[1] /\ x = p[2] /\ y = p[3] /\ z = p[4]
    BY <2>2
  <2>6. /\ v = a \/ v = b \/ v = c
        /\ x = a \/ x = b \/ x = c
        /\ y = a \/ y = b \/ y = c
        /\ z = a \/ z = b \/ z = c
    BY <2>2, <2>3, <2>4, <2>5, Zenon
  <2>7. v < x /\ x < y /\ y < z
    BY <2>1, <2>5, Zenon
  <2>8. a < b /\ b < c
    BY <1>2, Zenon
  <2> QED BY <2>6, <2>7, <2>8
<1>5. ASSUME NEW q \in 0..k - 1, Large(text, q, k) PROVE FALSE
  <2>1. /\ q = 0 \/ text[q] = D!Dot
        /\ \A i \in q + 1..k : text[i] \in 0..9
        /\ Weight(text, q, k) > 255
    BY <1>5, Zenon DEF Large
  <2>2. q = 0 \/ q = a \/ q = b \/ q = c
    <3>1. q = 0 \/ q \in 1..Len(text)
      OBVIOUS
    <3> QED BY <1>1, <1>2, <2>1, <3>1, Zenon
  <2>3. PICK r \in Nat : NextCut(a, b, c, q, r, Len(text))
    <3>1. Len(text) + 1 \in Nat
      OBVIOUS
    <3> QED BY <2>2, <3>1, Zenon DEF NextCut
  <2>4. r > q /\ r <= Len(text) + 1 /\ (r <= Len(text) => text[r] = D!Dot)
    BY <1>2, <2>3 DEF NextCut
  <2>5. k <= r - 1
    <3> SUFFICES ASSUME r <= k PROVE FALSE
      BY <2>4
    <3>1. r \in q + 1..k /\ r <= Len(text)
      BY <2>4
    <3> QED BY <1>1, <2>1, <2>4, <3>1, Zenon
  <2>6. PICK n \in Nat : n = r - 1
    BY <2>4
  <2>7. Weight(text, q, k) <= Weight(text, q, n)
    <3>1. q \in Nat /\ k \in Nat /\ q <= k /\ k <= n /\ n <= Len(text)
      BY <2>4, <2>5, <2>6
    <3> QED BY <3>1, WeightGrows
  <2>8. Weight(text, q, n) <= 255
    <3>1. q \in Nat
      OBVIOUS
    <3>2. Weight(text, q, r - 1) <= 255
      BY <2>3, <3>1, SmallParts, Zenon
    <3> QED BY <2>6, <3>2
  <2>9. Weight(text, q, k) \in Nat /\ Weight(text, q, n) \in Nat
    <3>1. q \in Nat /\ k \in Nat /\ q <= k /\ q <= n /\ k <= Len(text) /\ n <= Len(text)
      BY <2>4, <2>5, <2>6
    <3> QED BY <3>1, WeightFacts
  <2> QED BY <2>1, <2>7, <2>8, <2>9
<1> QED BY <1>3, <1>4, <1>5, Zenon DEF Wrong

(* What fromString() says of a text, and the address it leaves.            *)
Judged(text, right, octets) ==
    /\ right = \E p \in D!Splits(text) : \A n \in 1..4 : D!Numbers(text, p)[n] <= 255
    /\ right => \A p \in D!Splits(text) : octets = D!Numbers(text, p)

LEMMA JudgedRight ==
    ASSUME NEW text \in Seq(Nat), NEW octets \in Octets,
           NEW a \in Nat, NEW b \in Nat, NEW c \in Nat, Cut(text, a, b, c),
           octets = Four(text, a, b, c)
    PROVE  Judged(text, TRUE, octets)
<1>1. PICK p : p = <<a, b, c>>
  OBVIOUS
<1>2. p \in D!Splits(text) /\ D!Numbers(text, p) = octets
  BY <1>1, SplitIs, PartsIs
<1>3. \A n \in 1..4 : D!Numbers(text, p)[n] <= 255
  <2>1. ASSUME NEW n \in 1..4 PROVE octets[n] <= 255
    <3>1. octets[n] \in 0..255
      BY DEF Octets
    <3>2. \A x \in 0..255 : x <= 255
      OBVIOUS
    <3> QED BY <3>1, <3>2, Zenon
  <2> QED BY <1>2, <2>1, Zenon
<1>4. ASSUME NEW r \in D!Splits(text) PROVE octets = D!Numbers(text, r)
  <2>1. PICK x \in Nat, y \in Nat, z \in Nat : r = <<x, y, z>> /\ Cut(text, x, y, z)
    BY SplitIs, Zenon
  <2>2. x = a /\ y = b /\ z = c
    BY <2>1, CutOnce, Zenon
  <2> QED BY <1>1, <1>2, <2>1, <2>2, Zenon
<1> QED BY <1>2, <1>3, <1>4, Zenon DEF Judged

LEMMA JudgedWrong ==
    ASSUME NEW text \in Seq(Nat), NEW octets,
           \A a, b, c \in Nat : ~(Cut(text, a, b, c) /\ Small(Four(text, a, b, c)))
    PROVE  Judged(text, FALSE, octets)
<1>1. ASSUME NEW p \in D!Splits(text), \A n \in 1..4 : D!Numbers(text, p)[n] <= 255 PROVE FALSE
  <2>1. PICK a \in Nat, b \in Nat, c \in Nat : p = <<a, b, c>> /\ Cut(text, a, b, c)
    BY SplitIs, Zenon
  <2>2. D!Numbers(text, p) = Four(text, a, b, c)
    BY <2>1, PartsIs, Zenon
  <2>3. Small(Four(text, a, b, c))
    BY <1>1, <2>2, Zenon DEF Small
  <2> QED BY <2>1, <2>3, Zenon
<1> QED BY <1>1, Zenon DEF Judged

Decided(text, verdict) ==
    \E right \in BOOLEAN, octets \in Octets :
        verdict = <<right, octets>> /\ Judged(text, right, octets)

LEMMA ScanExact ==
    ASSUME NEW text \in Seq(Nat), NEW octets \in Octets
    PROVE  Decided(text, D!Scan(text, octets))
<1>1. PICK f : Scans(f, text, octets)
  BY ScanExists
<1>2. PICK l \in Nat : l = Len(text)
  OBVIOUS
<1>3. PICK s : s = f[l]
  OBVIOUS
<1>4. D!Scan(text, octets) = D!Outcome(s)
  BY <1>1, <1>2, <1>3, ScanIs
<1>5. Scanning(text, s, l)
  BY <1>1, <1>2, <1>3, ScanHolds
<1>6. s \in ScanStates
  BY <1>5, Zenon DEF Scanning
<1>7. PICK o \in Octets : o = s.octets
  BY <1>6 DEF ScanStates
<1>8. CASE s.ok
  <2>1. PICK p \in [0..3 -> Nat] : HeldBy(text, s, l, p)
    BY <1>5, <1>8, Zenon DEF Scanning, Held
  <2>2. PICK d \in 0..3 : d = s.dots
    BY <1>6 DEF ScanStates
  <2>3. PICK v \in 0..255 : v = s.acc
    BY <1>6 DEF ScanStates
  <2>4. /\ p[0] = 0 /\ p[d] <= l /\ v = Weight(text, p[d], l)
        /\ Parted(text, o, p, d) /\ Dotted(text, p, d, l)
    BY <1>7, <2>1, <2>2, <2>3, Zenon DEF HeldBy
  <2>5. CASE d = 3
    <3>1. PICK a \in Nat, b \in Nat, c \in Nat : a = p[1] /\ b = p[2] /\ c = p[3]
      OBVIOUS
    <3>2. 1 \in 1..d /\ 2 \in 1..d /\ 3 \in 1..d /\ 1 - 1 = 0 /\ 2 - 1 = 1 /\ 3 - 1 = 2
      BY <2>5
    <3>3. /\ p[0] < a /\ a < b /\ b < c
          /\ text[a] = D!Dot /\ text[b] = D!Dot /\ text[c] = D!Dot
          /\ o[1] = Weight(text, p[0], a - 1) /\ o[2] = Weight(text, a, b - 1)
          /\ o[3] = Weight(text, b, c - 1)
      BY <2>4, <3>1, <3>2, Zenon DEF Parted
    <3>4. a \in 1..l /\ b \in 1..l /\ c \in 1..l
      <4>1. p[d] = c
        BY <2>5, <3>1, Zenon
      <4>2. c <= l /\ 0 < a
        BY <2>4, <3>3, <4>1, Zenon
      <4> QED BY <3>3, <4>2
    <3>5. \A i \in 1..l : text[i] \in 0..9 \/ i = a \/ i = b \/ i = c
      <4>1. \A m \in 1..d : m = 1 \/ m = 2 \/ m = 3
        BY <2>5
      <4> QED BY <2>4, <3>1, <4>1, Zenon DEF Dotted
    <3>6. Cut(text, a, b, c)
      BY <1>2, <3>3, <3>4, <3>5, Zenon DEF Cut
    <3>7. PICK r \in Octets : r = [o EXCEPT ![4] = v]
      BY DEF Octets
    <3>8. r = Four(text, a, b, c)
      <4>1. r[1] = o[1] /\ r[2] = o[2] /\ r[3] = o[3] /\ r[4] = v
        BY <3>7 DEF Octets
      <4>2. /\ r[1] = Weight(text, 0, a - 1) /\ r[2] = Weight(text, a, b - 1)
            /\ r[3] = Weight(text, b, c - 1) /\ r[4] = Weight(text, c, Len(text))
        BY <1>2, <2>4, <2>5, <3>1, <3>3, <4>1, Zenon
      <4>3. r = <<r[1], r[2], r[3], r[4]>>
        BY DEF Octets
      <4> QED BY <4>2, <4>3, Zenon DEF Four
    <3>9. Judged(text, TRUE, r)
      BY <3>6, <3>8, JudgedRight, Zenon
    <3>10. D!Outcome(s) = <<TRUE, r>>
      BY <1>7, <1>8, <2>2, <2>3, <2>5, <3>7 DEF D!Outcome
    <3> QED BY <1>4, <3>9, <3>10, Zenon DEF Decided
  <2>6. CASE d # 3
    <3>1. ASSUME NEW a \in Nat, NEW b \in Nat, NEW c \in Nat, Cut(text, a, b, c) PROVE FALSE
      <4>1. /\ a \in 1..l /\ b \in 1..l /\ c \in 1..l /\ a < b /\ b < c
            /\ text[a] = D!Dot /\ text[b] = D!Dot /\ text[c] = D!Dot
        BY <1>2, <3>1, Zenon DEF Cut
      <4>2. ~(D!Dot \in 0..9)
        BY DEF D!Dot
      <4>3. \A m \in 1..d : m = 1 \/ m = 2
        BY <2>6
      <4>4. \A i \in 1..l : text[i] = D!Dot => i = p[1] \/ i = p[2]
        <5> SUFFICES ASSUME NEW i \in 1..l, text[i] = D!Dot PROVE i = p[1] \/ i = p[2]
          OBVIOUS
        <5>1. \E m \in 1..d : i = p[m]
          BY <2>4, <4>2, Zenon DEF Dotted
        <5> QED BY <4>3, <5>1, Zenon
      <4>5. (a = p[1] \/ a = p[2]) /\ (b = p[1] \/ b = p[2]) /\ (c = p[1] \/ c = p[2])
        BY <4>1, <4>4, Zenon
      <4> QED BY <4>1, <4>5
    <3>2. Judged(text, FALSE, o)
      BY <3>1, JudgedWrong
    <3>3. D!Outcome(s) = <<FALSE, o>>
      BY <1>7, <2>2, <2>6 DEF D!Outcome
    <3> QED BY <1>4, <3>2, <3>3, Zenon DEF Decided
  <2> QED BY <2>5, <2>6
<1>9. CASE ~s.ok
  <2>1. PICK k \in 1..l : Wrong(text, k)
    BY <1>5, <1>9, Zenon DEF Scanning
  <2>2. k \in 1..Len(text)
    BY <1>2
  <2>3. \A a, b, c \in Nat : ~(Cut(text, a, b, c) /\ Small(Four(text, a, b, c)))
    BY <2>1, <2>2, WrongCut, Zenon
  <2>4. Judged(text, FALSE, o)
    BY <2>3, JudgedWrong, Zenon
  <2>5. D!Outcome(s) = <<FALSE, o>>
    BY <1>7, <1>9 DEF D!Outcome
  <2> QED BY <1>4, <2>4, <2>5, Zenon DEF Decided
<1> QED BY <1>8, <1>9

(* What toString() writes.                                                 *)
Decimals(f, n) == f = [m \in 0..n |-> (IF m < 10 THEN <<>> ELSE f[m \div 10]) \o <<m % 10>>]

LEMMA TensFacts ==
    ASSUME NEW m \in Nat
    PROVE  /\ m \div 10 \in Nat /\ m % 10 \in 0..9 /\ m = 10 * (m \div 10) + (m % 10)
           /\ m < 10 => m % 10 = m
  OBVIOUS

LEMMA OneJoined ==
    ASSUME NEW a \in Nat
    PROVE  <<>> \o <<a>> = <<a>>
<1>1. PICK s : s = <<>>
  OBVIOUS
<1>2. PICK t : t = <<a>>
  OBVIOUS
<1>3. PICK u : u = <<a>>
  OBVIOUS
<1>4. s \in Seq(Nat) /\ Len(s) = 0
  BY <1>1
<1>5. t \in Seq(Nat) /\ Len(t) = 1 /\ t[1] = a
  BY <1>2
<1>6. u \in Seq(Nat) /\ Len(u) = 1 /\ u[1] = a
  BY <1>3
<1>7. u = s \o t
  <2>1. Len(u) = Len(s) + Len(t)
    BY <1>4, <1>5, <1>6
  <2>2. \A i \in 1..Len(s) : u[i] = s[i]
    BY <1>4, <1>6
  <2>3. \A i \in 1..Len(t) : u[Len(s) + i] = t[i]
    BY <1>4, <1>5, <1>6
  <2> QED BY <1>4, <1>5, <1>6, <2>1, <2>2, <2>3, JoinsTo, Zenon
<1> QED BY <1>1, <1>2, <1>3, <1>7, Zenon

LEMMA TwoJoined ==
    ASSUME NEW a \in Nat, NEW b \in Nat
    PROVE  <<a>> \o <<b>> = <<a, b>>
<1>1. PICK s : s = <<a>>
  OBVIOUS
<1>2. PICK t : t = <<b>>
  OBVIOUS
<1>3. PICK u : u = <<a, b>>
  OBVIOUS
<1>4. s \in Seq(Nat) /\ Len(s) = 1 /\ s[1] = a
  BY <1>1
<1>5. t \in Seq(Nat) /\ Len(t) = 1 /\ t[1] = b
  BY <1>2
<1>6. u \in Seq(Nat) /\ Len(u) = 2 /\ u[1] = a /\ u[2] = b
  BY <1>3
<1>7. u = s \o t
  <2>1. Len(u) = Len(s) + Len(t)
    BY <1>4, <1>5, <1>6
  <2>2. \A i \in 1..Len(s) : u[i] = s[i]
    BY <1>4, <1>6
  <2>3. \A i \in 1..Len(t) : u[Len(s) + i] = t[i]
    BY <1>4, <1>5, <1>6
  <2> QED BY <1>4, <1>5, <1>6, <2>1, <2>2, <2>3, JoinsTo, Zenon
<1> QED BY <1>1, <1>2, <1>3, <1>7, Zenon

LEMMA ThreeJoined ==
    ASSUME NEW a \in Nat, NEW b \in Nat, NEW c \in Nat
    PROVE  <<a, b>> \o <<c>> = <<a, b, c>>
<1>1. PICK s : s = <<a, b>>
  OBVIOUS
<1>2. PICK t : t = <<c>>
  OBVIOUS
<1>3. PICK u : u = <<a, b, c>>
  OBVIOUS
<1>4. s \in Seq(Nat) /\ Len(s) = 2 /\ s[1] = a /\ s[2] = b
  BY <1>1
<1>5. t \in Seq(Nat) /\ Len(t) = 1 /\ t[1] = c
  BY <1>2
<1>6. u \in Seq(Nat) /\ Len(u) = 3 /\ u[1] = a /\ u[2] = b /\ u[3] = c
  BY <1>3
<1>7. u = s \o t
  <2>1. Len(u) = Len(s) + Len(t)
    BY <1>4, <1>5, <1>6
  <2>2. \A i \in 1..Len(s) : u[i] = s[i]
    BY <1>4, <1>6
  <2>3. \A i \in 1..Len(t) : u[Len(s) + i] = t[i]
    BY <1>4, <1>5, <1>6
  <2> QED BY <1>4, <1>5, <1>6, <2>1, <2>2, <2>3, JoinsTo, Zenon
<1> QED BY <1>1, <1>2, <1>3, <1>7, Zenon

LEMMA DecimalsExist ==
    ASSUME NEW n \in 0..255
    PROVE  \E f : Decimals(f, n)
<1>1. PICK two : two = [m \in 0..n |-> IF m < 10 THEN <<m % 10>> ELSE <<m \div 10, m % 10>>]
  OBVIOUS
<1>2. PICK f : f = [m \in 0..n |-> IF m < 100 THEN two[m] ELSE two[m \div 10] \o <<m % 10>>]
  OBVIOUS
<1>3. ASSUME NEW m \in 0..n
      PROVE  f[m] = (IF m < 10 THEN <<>> ELSE f[m \div 10]) \o <<m % 10>>
  <2>1. PICK k \in Nat, r \in 0..9 : k = m \div 10 /\ r = m % 10 /\ m = 10 * k + r
    BY TensFacts
  <2>2. CASE m < 10
    <3>1. f[m] = <<r>>
      <4>1. f[m] = two[m]
        BY <1>2, <2>2
      <4>2. two[m] = <<m % 10>>
        BY <1>1, <2>2
      <4> QED BY <2>1, <4>1, <4>2, Zenon
    <3>2. <<>> \o <<r>> = <<r>>
      BY OneJoined
    <3> QED BY <2>1, <2>2, <3>1, <3>2, Zenon
  <2>3. CASE ~(m < 10) /\ m < 100
    <3>1. k \in 0..n /\ k < 10 /\ k < 100
      BY <2>1, <2>3
    <3>2. k % 10 = k
      BY <3>1
    <3>3. f[k] = <<k>>
      BY <1>1, <1>2, <3>1, <3>2
    <3>4. f[m] = <<k, r>>
      <4>1. f[m] = two[m]
        BY <1>2, <2>3
      <4>2. two[m] = <<m \div 10, m % 10>>
        BY <1>1, <2>3
      <4> QED BY <2>1, <4>1, <4>2, Zenon
    <3>5. <<k>> \o <<r>> = <<k, r>>
      BY TwoJoined
    <3> QED BY <2>1, <2>3, <3>3, <3>4, <3>5, Zenon
  <2>4. CASE ~(m < 100)
    <3>1. k \in 0..n /\ k < 100 /\ ~(m < 10)
      BY <2>1, <2>4
    <3>2. f[k] = two[k]
      BY <1>2, <3>1
    <3>3. f[m] = two[k] \o <<r>>
      BY <1>2, <2>1, <2>4
    <3> QED BY <2>1, <3>1, <3>2, <3>3, Zenon
  <2> QED BY <2>2, <2>3, <2>4
<1>4. f = [m \in 0..n |-> f[m]]
  BY <1>2
<1>5. Decimals(f, n)
  BY <1>3, <1>4 DEF Decimals
<1> QED BY <1>5

Digits(d) == d \in Seq(0..9) /\ Len(d) \in 1..3

LEMMA DecimalFacts ==
    ASSUME NEW n \in 0..255
    PROVE  Digits(D!Decimal(n)) /\ D!Weigh(D!Decimal(n)) = n
<1>1. PICK f : f = CHOOSE h : Decimals(h, n)
  OBVIOUS
<1>2. Decimals(f, n)
  BY <1>1, DecimalsExist, Zenon
<1>3. D!Decimal(n) = f[n]
  BY <1>1, Zenon DEF D!Decimal, Decimals
<1>4. \A m \in 0..n : f[m] = (IF m < 10 THEN <<>> ELSE f[m \div 10]) \o <<m % 10>>
  BY <1>2 DEF Decimals
<1>5. PICK k \in Nat, r \in 0..9 : k = n \div 10 /\ r = n % 10 /\ n = 10 * k + r
  BY TensFacts
<1>6. PICK d : d = f[n]
  OBVIOUS
<1>7. n \in 0..n /\ n \in Nat
  OBVIOUS
<1>8. CASE n < 10
  <2>1. d = <<>> \o <<r>>
    BY <1>4, <1>5, <1>6, <1>7, <1>8, Zenon
  <2>2. d = <<r>> /\ r = n
    BY <1>5, <1>8, <2>1
  <2>3. d \in Seq(0..9) /\ d \in Seq(Nat) /\ Len(d) = 1 /\ d[1] = r
    BY <2>2
  <2>4. PICK w \in [0..Len(d) -> Nat] : Weighs(w, d)
    BY <2>3, WeighExists
  <2>5. w[0] = 0 /\ w[1] = 10 * w[0] + d[1]
    BY <2>3, <2>4 DEF Weighs
  <2>6. D!Weigh(d) = w[1]
    BY <2>3, <2>4, WeighIs
  <2> QED BY <1>3, <1>6, <2>2, <2>3, <2>5, <2>6 DEF Digits
<1>9. CASE ~(n < 10) /\ n < 100
  <2>1. d = f[k] \o <<r>>
    BY <1>4, <1>5, <1>6, <1>7, <1>9, Zenon
  <2>2. k \in 0..n /\ k < 10 /\ k % 10 = k /\ k \in 0..9
    BY <1>5, <1>9
  <2>3. f[k] = <<>> \o <<k>>
    BY <1>4, <2>2, Zenon
  <2>4. d = <<k, r>>
    <3>1. <<>> \o <<k>> = <<k>> /\ <<k>> \o <<r>> = <<k, r>>
      BY <2>2, OneJoined, TwoJoined
    <3> QED BY <2>1, <2>3, <3>1, Zenon
  <2>5. d \in Seq(0..9) /\ d \in Seq(Nat) /\ Len(d) = 2 /\ d[1] = k /\ d[2] = r
    BY <2>2, <2>4
  <2>6. PICK w \in [0..Len(d) -> Nat] : Weighs(w, d)
    BY <2>5, WeighExists
  <2>7. w[0] = 0 /\ w[1] = 10 * w[0] + d[1] /\ w[2] = 10 * w[1] + d[2]
    BY <2>5, <2>6 DEF Weighs
  <2>8. D!Weigh(d) = w[2]
    BY <2>5, <2>6, WeighIs
  <2> QED BY <1>3, <1>5, <1>6, <2>5, <2>7, <2>8 DEF Digits
<1>10. CASE ~(n < 100)
  <2>1. d = f[k] \o <<r>>
    <3>1. ~(n < 10)
      BY <1>10
    <3> QED BY <1>4, <1>5, <1>6, <1>7, <3>1, Zenon
  <2>2. k \in 0..n /\ ~(k < 10) /\ k < 100
    BY <1>5, <1>10
  <2>3. PICK j \in Nat, q \in 0..9 : j = k \div 10 /\ q = k % 10 /\ k = 10 * j + q
    BY TensFacts
  <2>4. f[k] = f[j] \o <<q>>
    BY <1>4, <2>2, <2>3, Zenon
  <2>5. j \in 0..n /\ j < 10 /\ j % 10 = j /\ j \in 0..9
    BY <2>2, <2>3
  <2>6. f[j] = <<>> \o <<j>>
    BY <1>4, <2>5, Zenon
  <2>7. <<>> \o <<j>> = <<j>> /\ <<j>> \o <<q>> = <<j, q>> /\ <<j, q>> \o <<r>> = <<j, q, r>>
    BY <2>5, OneJoined, TwoJoined, ThreeJoined
  <2>8. d = <<j, q, r>>
    BY <2>1, <2>4, <2>6, <2>7, Zenon
  <2>9. d \in Seq(0..9) /\ d \in Seq(Nat) /\ Len(d) = 3 /\ d[1] = j /\ d[2] = q /\ d[3] = r
    BY <2>5, <2>8
  <2>10. PICK w \in [0..Len(d) -> Nat] : Weighs(w, d)
    BY <2>9, WeighExists
  <2>11. w[0] = 0 /\ w[1] = 10 * w[0] + d[1] /\ w[2] = 10 * w[1] + d[2] /\ w[3] = 10 * w[2] + d[3]
    BY <2>9, <2>10 DEF Weighs
  <2>12. D!Weigh(d) = w[3]
    BY <2>9, <2>10, WeighIs
  <2> QED BY <1>3, <1>5, <1>6, <2>3, <2>9, <2>11, <2>12 DEF Digits
<1> QED BY <1>8, <1>9, <1>10

(* A text that lies in another behind l.                                   *)
Lies(d, text, l) == l + Len(d) <= Len(text) /\ \A i \in 1..Len(d) : text[l + i] = d[i]

LEMMA LiesJoined ==
    ASSUME NEW s \in Seq(Nat), NEW t \in Seq(Nat), NEW u, u = s \o t
    PROVE  /\ u \in Seq(Nat) /\ Len(u) = Len(s) + Len(t) /\ Lies(t, u, Len(s))
           /\ \A d \in Seq(Nat), l \in Nat : Lies(d, s, l) => Lies(d, u, l)
<1>1. u \in Seq(Nat) /\ Len(u) = Len(s) + Len(t)
  OBVIOUS
<1>2. Lies(t, u, Len(s))
  BY DEF Lies
<1>3. ASSUME NEW d \in Seq(Nat), NEW l \in Nat, Lies(d, s, l) PROVE Lies(d, u, l)
  <2>1. l + Len(d) <= Len(s) /\ \A i \in 1..Len(d) : s[l + i] = d[i]
    BY <1>3, Zenon DEF Lies
  <2>2. ASSUME NEW i \in 1..Len(d) PROVE u[l + i] = d[i]
    <3>1. l + i \in 1..Len(s)
      BY <2>1
    <3>2. u[l + i] = s[l + i]
      BY <3>1
    <3> QED BY <2>1, <3>2
  <2>3. l + Len(d) <= Len(u)
    BY <1>1, <2>1
  <2> QED BY <2>2, <2>3, Zenon DEF Lies
<1> QED BY <1>1, <1>2, <1>3

LEMMA DigitsSeq ==
    ASSUME NEW d \in Seq(0..9)
    PROVE  d \in Seq(Nat)
OBVIOUS

LEMMA LiesWeight ==
    ASSUME NEW text \in Seq(Nat), NEW d \in Seq(0..9), NEW l \in Nat, Lies(d, text, l),
           NEW r \in Nat, r = l + Len(d)
    PROVE  Weight(text, l, r) = D!Weigh(d)
<1>1. PICK u : u = SubSeq(text, l + 1, r)
  OBVIOUS
<1>2. l <= r /\ r <= Len(text)
  BY DEF Lies
<1>3. u \in Seq(Nat) /\ Piece(u, text, l, r)
  BY <1>1, <1>2, PieceFacts, Zenon
<1>4. Len(u) = Len(d) /\ \A i \in 1..Len(d) : u[i] = d[i]
  <2>1. r - l = Len(d)
    OBVIOUS
  <2>2. Len(u) = Len(d) /\ \A i \in 1..Len(d) : u[i] = text[l + i]
    BY <1>3, <2>1, Zenon DEF Piece
  <2> QED BY <2>2, Zenon DEF Lies
<1>5. d \in Seq(Nat)
  BY DigitsSeq, Zenon
<1>6. u = d
  BY <1>3, <1>4, <1>5, SameSeq
<1> QED BY <1>1, <1>6, Zenon DEF Weight

LEMMA LiesKept ==
    ASSUME NEW s \in Seq(Nat), NEW t \in Seq(Nat), NEW u, u = s \o t,
           NEW d \in Seq(Nat), NEW l \in Nat, Lies(d, s, l)
    PROVE  Lies(d, u, l)
BY LiesJoined, Zenon

LEMMA LiesDigit ==
    ASSUME NEW text \in Seq(Nat), NEW d \in Seq(0..9), NEW l \in Nat, Lies(d, text, l),
           NEW i \in Nat, l < i, i <= l + Len(d)
    PROVE  text[i] \in 0..9
<1>1. PICK k \in 1..Len(d) : k = i - l /\ l + k = i
  OBVIOUS
<1>2. text[l + k] = d[k]
  BY Zenon DEF Lies
<1>3. d[k] \in 0..9
  OBVIOUS
<1> QED BY <1>1, <1>2, <1>3, Zenon

Spelt(text, octets) ==
    /\ text \in Seq(Nat) /\ Len(text) <= 15
    /\ \E a, b, c \in Nat : Cut(text, a, b, c) /\ Four(text, a, b, c) = octets

Places(k1, k2, k3, k4, a, b, c, l) ==
    a = k1 + 1 /\ b = a + k2 + 1 /\ c = b + k3 + 1 /\ l = c + k4
Between4(i, k1, k2, k3, k4, a, b, c) ==
    \/ 0 < i /\ i <= 0 + k1
    \/ a < i /\ i <= a + k2
    \/ b < i /\ i <= b + k3
    \/ c < i /\ i <= c + k4

LEMMA PlacesFacts ==
    ASSUME NEW k1 \in 1..3, NEW k2 \in 1..3, NEW k3 \in 1..3, NEW k4 \in 1..3,
           NEW a \in Nat, NEW b \in Nat, NEW c \in Nat, NEW l \in Nat,
           Places(k1, k2, k3, k4, a, b, c, l)
    PROVE  /\ l <= 15 /\ a \in 1..l /\ b \in 1..l /\ c \in 1..l /\ a < b /\ b < c
           /\ a - 1 \in Nat /\ a - 1 = 0 + k1 /\ b - 1 \in Nat /\ b - 1 = a + k2
           /\ c - 1 \in Nat /\ c - 1 = b + k3 /\ l = c + k4 /\ 0 \in Nat
           /\ \A i \in 1..l : i = a \/ i = b \/ i = c \/ Between4(i, k1, k2, k3, k4, a, b, c)
BY DEF Places, Between4

LaidOut(text, octets, d1, d2, d3, d4, a, b, c) ==
    /\ D!Weigh(d1) = octets[1] /\ D!Weigh(d2) = octets[2]
    /\ D!Weigh(d3) = octets[3] /\ D!Weigh(d4) = octets[4]
    /\ Lies(d1, text, 0) /\ Lies(d2, text, a) /\ Lies(d3, text, b) /\ Lies(d4, text, c)
    /\ text[a] = D!Dot /\ text[b] = D!Dot /\ text[c] = D!Dot

LEMMA FourLie ==
    ASSUME NEW text \in Seq(Nat), NEW octets \in Octets,
           NEW d1, NEW d2, NEW d3, NEW d4, Digits(d1), Digits(d2), Digits(d3), Digits(d4),
           NEW a \in Nat, NEW b \in Nat, NEW c \in Nat,
           LaidOut(text, octets, d1, d2, d3, d4, a, b, c),
           Places(Len(d1), Len(d2), Len(d3), Len(d4), a, b, c, Len(text))
    PROVE  Spelt(text, octets)
<1>1. /\ d1 \in Seq(0..9) /\ d2 \in Seq(0..9) /\ d3 \in Seq(0..9) /\ d4 \in Seq(0..9)
      /\ Len(d1) \in 1..3 /\ Len(d2) \in 1..3 /\ Len(d3) \in 1..3 /\ Len(d4) \in 1..3
  BY DEF Digits
<1>2. PICK k1 \in 1..3, k2 \in 1..3, k3 \in 1..3, k4 \in 1..3 :
        k1 = Len(d1) /\ k2 = Len(d2) /\ k3 = Len(d3) /\ k4 = Len(d4)
  BY <1>1, Zenon
<1>3. PICK l \in Nat : l = Len(text)
  OBVIOUS
<1>4. Places(k1, k2, k3, k4, a, b, c, l)
  BY <1>2, <1>3, Zenon
<1>5. /\ l <= 15 /\ a \in 1..l /\ b \in 1..l /\ c \in 1..l /\ a < b /\ b < c
      /\ a - 1 \in Nat /\ a - 1 = 0 + k1 /\ b - 1 \in Nat /\ b - 1 = a + k2
      /\ c - 1 \in Nat /\ c - 1 = b + k3 /\ l = c + k4 /\ 0 \in Nat
      /\ \A i \in 1..l : i = a \/ i = b \/ i = c \/ Between4(i, k1, k2, k3, k4, a, b, c)
  BY <1>4, PlacesFacts, Zenon
<1>6. /\ Lies(d1, text, 0) /\ Lies(d2, text, a) /\ Lies(d3, text, b) /\ Lies(d4, text, c)
      /\ text[a] = D!Dot /\ text[b] = D!Dot /\ text[c] = D!Dot
  BY Zenon DEF LaidOut
<1>7. ASSUME NEW i \in 1..l PROVE text[i] \in 0..9 \/ i = a \/ i = b \/ i = c
  <2>1. i \in Nat
    OBVIOUS
  <2>2. CASE 0 < i /\ i <= 0 + k1
    BY <1>1, <1>2, <1>5, <1>6, <2>1, <2>2, LiesDigit, Zenon
  <2>3. CASE a < i /\ i <= a + k2
    BY <1>1, <1>2, <1>5, <1>6, <2>1, <2>3, LiesDigit, Zenon
  <2>4. CASE b < i /\ i <= b + k3
    BY <1>1, <1>2, <1>5, <1>6, <2>1, <2>4, LiesDigit, Zenon
  <2>5. CASE c < i /\ i <= c + k4
    BY <1>1, <1>2, <1>5, <1>6, <2>1, <2>5, LiesDigit, Zenon
  <2> QED BY <1>5, <2>2, <2>3, <2>4, <2>5, Zenon DEF Between4
<1>8. Cut(text, a, b, c)
  BY <1>3, <1>5, <1>6, <1>7, Zenon DEF Cut
<1>9. /\ Weight(text, 0, a - 1) = octets[1] /\ Weight(text, a, b - 1) = octets[2]
      /\ Weight(text, b, c - 1) = octets[3] /\ Weight(text, c, l) = octets[4]
  <2>1. Weight(text, 0, a - 1) = D!Weigh(d1)
    <3>1. d1 \in Seq(0..9) /\ Lies(d1, text, 0) /\ 0 \in Nat /\ a - 1 \in Nat /\ a - 1 = 0 + Len(d1)
      BY <1>1, <1>2, <1>5, <1>6, Zenon
    <3> QED BY <3>1, LiesWeight, Zenon
  <2>2. Weight(text, a, b - 1) = D!Weigh(d2)
    <3>1. d2 \in Seq(0..9) /\ Lies(d2, text, a) /\ b - 1 \in Nat /\ b - 1 = a + Len(d2)
      BY <1>1, <1>2, <1>5, <1>6, Zenon
    <3> QED BY <3>1, LiesWeight, Zenon
  <2>3. Weight(text, b, c - 1) = D!Weigh(d3)
    <3>1. d3 \in Seq(0..9) /\ Lies(d3, text, b) /\ c - 1 \in Nat /\ c - 1 = b + Len(d3)
      BY <1>1, <1>2, <1>5, <1>6, Zenon
    <3> QED BY <3>1, LiesWeight, Zenon
  <2>4. Weight(text, c, l) = D!Weigh(d4)
    <3>1. d4 \in Seq(0..9) /\ Lies(d4, text, c) /\ l = c + Len(d4)
      BY <1>1, <1>2, <1>5, <1>6, Zenon
    <3> QED BY <3>1, LiesWeight, Zenon
  <2> QED BY <2>1, <2>2, <2>3, <2>4, Zenon DEF LaidOut
<1>10. octets = <<octets[1], octets[2], octets[3], octets[4]>>
  BY DEF Octets
<1>11. Four(text, a, b, c) = octets
  BY <1>3, <1>9, <1>10, Zenon DEF Four
<1> QED BY <1>3, <1>5, <1>8, <1>11, Zenon DEF Spelt

LEMMA ShownSpelt ==
    ASSUME NEW octets \in Octets
    PROVE  Spelt(D!Shown(octets), octets)
<1>1. octets[1] \in 0..255 /\ octets[2] \in 0..255 /\ octets[3] \in 0..255 /\ octets[4] \in 0..255
  BY DEF Octets
<1>2. PICK d1 : d1 = D!Decimal(octets[1])
  OBVIOUS
<1>3. PICK d2 : d2 = D!Decimal(octets[2])
  OBVIOUS
<1>4. PICK d3 : d3 = D!Decimal(octets[3])
  OBVIOUS
<1>5. PICK d4 : d4 = D!Decimal(octets[4])
  OBVIOUS
<1>6. /\ Digits(d1) /\ D!Weigh(d1) = octets[1] /\ Digits(d2) /\ D!Weigh(d2) = octets[2]
      /\ Digits(d3) /\ D!Weigh(d3) = octets[3] /\ Digits(d4) /\ D!Weigh(d4) = octets[4]
  BY <1>1, <1>2, <1>3, <1>4, <1>5, DecimalFacts, Zenon
<1>7. /\ d1 \in Seq(0..9) /\ d2 \in Seq(0..9) /\ d3 \in Seq(0..9) /\ d4 \in Seq(0..9)
      /\ Len(d1) \in 1..3 /\ Len(d2) \in 1..3 /\ Len(d3) \in 1..3 /\ Len(d4) \in 1..3
  BY <1>6, Zenon DEF Digits
<1>8. d1 \in Seq(Nat) /\ d2 \in Seq(Nat) /\ d3 \in Seq(Nat) /\ d4 \in Seq(Nat)
  BY <1>7
<1>9. PICK dot : dot = <<D!Dot>>
  OBVIOUS
<1>10. dot \in Seq(Nat) /\ Len(dot) = 1 /\ dot[1] = D!Dot
  BY <1>9 DEF D!Dot
<1>11. PICK a \in Nat, b \in Nat, c \in Nat :
         a = Len(d1) + 1 /\ b = a + Len(d2) + 1 /\ c = b + Len(d3) + 1
  BY <1>7
<1>12. PICK s2 : s2 = d1 \o dot
  OBVIOUS
<1>13. PICK s3 : s3 = s2 \o d2
  OBVIOUS
<1>14. PICK s4 : s4 = s3 \o dot
  OBVIOUS
<1>15. PICK s5 : s5 = s4 \o d3
  OBVIOUS
<1>16. PICK s6 : s6 = s5 \o dot
  OBVIOUS
<1>17. PICK s7 : s7 = s6 \o d4
  OBVIOUS
<1>18. D!Shown(octets) = s7
  BY <1>2, <1>3, <1>4, <1>5, <1>9, <1>12, <1>13, <1>14, <1>15, <1>16, <1>17, Zenon DEF D!Shown
<1>19. s2 \in Seq(Nat) /\ Len(s2) = Len(d1) + Len(dot) /\ Lies(dot, s2, Len(d1))
  BY <1>8, <1>10, <1>12, LiesJoined, Zenon
<1>20. s3 \in Seq(Nat) /\ Len(s3) = Len(s2) + Len(d2) /\ Lies(d2, s3, Len(s2))
  BY <1>8, <1>13, <1>19, LiesJoined, Zenon
<1>21. s4 \in Seq(Nat) /\ Len(s4) = Len(s3) + Len(dot) /\ Lies(dot, s4, Len(s3))
  BY <1>10, <1>14, <1>20, LiesJoined, Zenon
<1>22. s5 \in Seq(Nat) /\ Len(s5) = Len(s4) + Len(d3) /\ Lies(d3, s5, Len(s4))
  BY <1>8, <1>15, <1>21, LiesJoined, Zenon
<1>23. s6 \in Seq(Nat) /\ Len(s6) = Len(s5) + Len(dot) /\ Lies(dot, s6, Len(s5))
  BY <1>10, <1>16, <1>22, LiesJoined, Zenon
<1>24. s7 \in Seq(Nat) /\ Len(s7) = Len(s6) + Len(d4) /\ Lies(d4, s7, Len(s6))
  BY <1>8, <1>17, <1>23, LiesJoined, Zenon
<1>25. Lies(d1, d1, 0)
  BY <1>7 DEF Lies
<1>26. PICK k1 \in Nat, k2 \in Nat, k3 \in Nat : k1 = Len(d1) /\ k2 = Len(s3) /\ k3 = Len(s5)
  BY <1>8, <1>20, <1>22
<1>27. /\ Len(s2) = a /\ Len(s4) = b /\ Len(s6) = c /\ Len(s7) = c + Len(d4)
       /\ k1 + 1 = a /\ k2 + 1 = b /\ k3 + 1 = c
  BY <1>7, <1>10, <1>11, <1>19, <1>20, <1>21, <1>22, <1>23, <1>24, <1>26
<1>28. /\ Lies(dot, s2, k1) /\ Lies(d2, s3, a) /\ Lies(dot, s4, k2) /\ Lies(d3, s5, b)
       /\ Lies(dot, s6, k3) /\ Lies(d4, s7, c)
  BY <1>19, <1>20, <1>21, <1>22, <1>23, <1>24, <1>26, <1>27, Zenon
<1>29. 0 \in Nat
  OBVIOUS
<1>30. Lies(d1, s2, 0)
  BY <1>8, <1>10, <1>12, <1>25, <1>29, LiesKept, Zenon
<1>31. Lies(d1, s3, 0) /\ Lies(dot, s3, k1)
  BY <1>8, <1>10, <1>13, <1>19, <1>28, <1>29, <1>30, LiesKept, Zenon
<1>32. Lies(d1, s4, 0) /\ Lies(dot, s4, k1) /\ Lies(d2, s4, a)
  BY <1>8, <1>10, <1>14, <1>20, <1>28, <1>29, <1>31, LiesKept, Zenon
<1>33. Lies(d1, s5, 0) /\ Lies(dot, s5, k1) /\ Lies(d2, s5, a) /\ Lies(dot, s5, k2)
  BY <1>8, <1>10, <1>15, <1>21, <1>28, <1>29, <1>32, LiesKept, Zenon
<1>34. /\ Lies(d1, s6, 0) /\ Lies(dot, s6, k1) /\ Lies(d2, s6, a) /\ Lies(dot, s6, k2)
       /\ Lies(d3, s6, b)
  BY <1>8, <1>10, <1>16, <1>22, <1>28, <1>29, <1>33, LiesKept, Zenon
<1>35. /\ Lies(d1, s7, 0) /\ Lies(dot, s7, k1) /\ Lies(d2, s7, a) /\ Lies(dot, s7, k2)
       /\ Lies(d3, s7, b) /\ Lies(dot, s7, k3)
  BY <1>8, <1>10, <1>17, <1>23, <1>28, <1>29, <1>34, LiesKept, Zenon
<1>36. s7[a] = D!Dot /\ s7[b] = D!Dot /\ s7[c] = D!Dot
  <2>1. 1 \in 1..Len(dot)
    BY <1>10
  <2>2. s7[k1 + 1] = dot[1] /\ s7[k2 + 1] = dot[1] /\ s7[k3 + 1] = dot[1]
    BY <1>35, <2>1, Zenon DEF Lies
  <2> QED BY <1>10, <1>27, <2>2, Zenon
<1>37. LaidOut(s7, octets, d1, d2, d3, d4, a, b, c)
  BY <1>6, <1>28, <1>35, <1>36, Zenon DEF LaidOut
<1>38. Places(Len(d1), Len(d2), Len(d3), Len(d4), a, b, c, Len(s7))
  BY <1>11, <1>27, Zenon DEF Places
<1>39. Spelt(s7, octets)
  BY <1>6, <1>24, <1>37, <1>38, FourLie, Zenon
<1> QED BY <1>18, <1>39, Zenon

LEMMA ShownReadBack ==
    ASSUME NEW octets \in Octets, NEW before \in Octets
    PROVE  D!Scan(D!Shown(octets), before) = <<TRUE, octets>>
<1>1. PICK text : text = D!Shown(octets)
  OBVIOUS
<1>2. Spelt(text, octets)
  BY <1>1, ShownSpelt, Zenon
<1>3. text \in Seq(Nat)
  BY <1>2, Zenon DEF Spelt
<1>4. PICK a \in Nat, b \in Nat, c \in Nat : Cut(text, a, b, c) /\ Four(text, a, b, c) = octets
  BY <1>2, Zenon DEF Spelt
<1>5. PICK p : p = <<a, b, c>>
  OBVIOUS
<1>6. p \in D!Splits(text)
  BY <1>3, <1>4, <1>5, SplitIs, Zenon
<1>7. D!Numbers(text, p) = octets
  BY <1>3, <1>4, <1>5, PartsIs, Zenon
<1>8. \A n \in 1..4 : D!Numbers(text, p)[n] <= 255
  <2>1. ASSUME NEW n \in 1..4 PROVE octets[n] <= 255
    <3>1. octets[n] \in 0..255
      BY DEF Octets
    <3>2. \A x \in 0..255 : x <= 255
      OBVIOUS
    <3> QED BY <3>1, <3>2, Zenon
  <2> QED BY <1>7, <2>1, Zenon
<1>9. PICK right \in BOOLEAN, r \in Octets :
        D!Scan(text, before) = <<right, r>> /\ Judged(text, right, r)
  <2>1. Decided(text, D!Scan(text, before))
    BY <1>3, ScanExact, Zenon
  <2> QED BY <2>1, Zenon DEF Decided
<1>10. right
  BY <1>6, <1>8, <1>9, Zenon DEF Judged
<1>11. r = octets
  BY <1>6, <1>7, <1>9, <1>10, Zenon DEF Judged
<1>12. right = TRUE
  BY <1>10
<1> QED BY <1>1, <1>9, <1>11, <1>12, Zenon

(* What an address is, and what fromString() last said.                    *)
AddressInv == bytes \in Octets /\ read \in Seq(Nat) /\ Judged(read, ok, bytes)

LEMMA GivenOctets ==
    /\ Addresses \subseteq Octets /\ <<0, 0, 0, 0>> \in Octets
    /\ AddressTexts \subseteq Seq(Nat)
<1>1. Seq(0..11) \subseteq Seq(Nat)
  <2>1. 0..11 \subseteq Nat
    OBVIOUS
  <2> QED BY <2>1, WiderSeq
<1>2. <<0, 0, 0, 0>> \in Octets
  BY DEF Octets
<1> QED BY <1>1, <1>2, AddressAssumption DEF Octets

LEMMA JudgedNone ==
    ASSUME NEW octets
    PROVE  Judged(<<>>, FALSE, octets)
<1>1. PICK none : none = <<>>
  OBVIOUS
<1>2. none \in Seq(Nat) /\ Len(none) = 0
  BY <1>1
<1>3. \A a, b, c \in Nat : ~(Cut(none, a, b, c) /\ Small(Four(none, a, b, c)))
  BY <1>2 DEF Cut
<1>4. Judged(none, FALSE, octets)
  BY <1>2, <1>3, JudgedWrong, Zenon
<1> QED BY <1>1, <1>4, Zenon

LEMMA AddressBegins == TextInit => AddressInv
<1> SUFFICES ASSUME TextInit PROVE AddressInv
  OBVIOUS
<1>1. bytes \in Addresses \cup {<<0, 0, 0, 0>>} /\ read = <<>> /\ ok = FALSE
  BY Zenon DEF TextInit, D!Init
<1>2. bytes \in Octets
  BY <1>1, GivenOctets
<1>3. <<>> \in Seq(Nat)
  OBVIOUS
<1> QED BY <1>1, <1>2, <1>3, JudgedNone, Zenon DEF AddressInv

LEMMA SetKept == \A octets \in Octets : D!Assign(octets) => AddressInv'
<1> SUFFICES ASSUME NEW octets \in Octets, D!Assign(octets) PROVE AddressInv'
  OBVIOUS
<1>1. bytes' = octets /\ read' = <<>> /\ ok' = FALSE
  BY Zenon DEF D!Assign
<1>2. <<>> \in Seq(Nat)
  OBVIOUS
<1> QED BY <1>1, <1>2, JudgedNone, Zenon DEF AddressInv

LEMMA FromStringKept == AddressInv => \A text \in Seq(Nat) : D!FromString(text) => AddressInv'
<1> SUFFICES ASSUME AddressInv, NEW text \in Seq(Nat), D!FromString(text) PROVE AddressInv'
  OBVIOUS
<1>1. PICK verdict : verdict = D!Scan(text, bytes)
  OBVIOUS
<1>2. Decided(text, verdict)
  BY <1>1, ScanExact, Zenon DEF AddressInv
<1>3. PICK right \in BOOLEAN, octets \in Octets :
        verdict = <<right, octets>> /\ Judged(text, right, octets)
  BY <1>2, Zenon DEF Decided
<1>4. ok' = verdict[1] /\ bytes' = verdict[2] /\ read' = text
  BY <1>1, Zenon DEF D!FromString
<1>5. verdict[1] = right /\ verdict[2] = octets
  BY <1>3
<1> QED BY <1>3, <1>4, <1>5, Zenon DEF AddressInv

LEMMA AddressPart == [TextNext]_textVars => D!Next \/ UNCHANGED addressVars
BY Zenon DEF TextNext, StringStep, NumberStep, AddressStep, SerialStep, StreamStep, ScriptStep,
             textVars, addressVars

LEMMA AddressKept == AddressInv /\ [TextNext]_textVars => AddressInv'
<1> SUFFICES ASSUME AddressInv, [TextNext]_textVars PROVE AddressInv'
  OBVIOUS
<1>1. CASE UNCHANGED addressVars
  BY <1>1, Zenon DEF addressVars, AddressInv
<1>2. ASSUME NEW a \in Addresses, D!Assign(a) PROVE AddressInv'
  <2>1. a \in Octets
    BY GivenOctets
  <2> QED BY <1>2, <2>1, SetKept, Zenon
<1>3. ASSUME NEW i \in {1, 4}, NEW v \in {0, 255}, D!SetOctet(i, v) PROVE AddressInv'
  <2>1. PICK octets : octets = [bytes EXCEPT ![i] = v]
    OBVIOUS
  <2>2. octets \in Octets
    <3>1. bytes \in Octets
      BY Zenon DEF AddressInv
    <3>2. v \in 0..255
      OBVIOUS
    <3> QED BY <2>1, <3>1, <3>2 DEF Octets
  <2>3. D!Assign(octets)
    BY <1>3, <2>1, Zenon DEF D!SetOctet
  <2> QED BY <2>2, <2>3, SetKept, Zenon
<1>4. ASSUME NEW t \in AddressTexts, D!FromString(t) PROVE AddressInv'
  <2>1. t \in Seq(Nat)
    BY GivenOctets
  <2> QED BY <1>4, <2>1, FromStringKept, Zenon
<1>5. CASE D!FromString(D!Shown(bytes))
  <2>1. D!Shown(bytes) \in Seq(Nat)
    <3>1. Spelt(D!Shown(bytes), bytes)
      BY ShownSpelt, Zenon DEF AddressInv
    <3> QED BY <3>1, Zenon DEF Spelt
  <2>2. PICK t \in Seq(Nat) : t = D!Shown(bytes)
    BY <2>1
  <2>3. D!FromString(t)
    BY <1>5, <2>2, Zenon
  <2>4. \A text \in Seq(Nat) : D!FromString(text) => AddressInv'
    BY FromStringKept, Zenon
  <2> QED BY <2>3, <2>4
<1>6. D!Next \/ UNCHANGED addressVars
  BY AddressPart, Zenon
<1>7. D!Next => \/ \E a \in Addresses : D!Assign(a)
                \/ \E i \in {1, 4}, v \in {0, 255} : D!SetOctet(i, v)
                \/ \E t \in AddressTexts : D!FromString(t)
                \/ D!FromString(D!Shown(bytes))
  BY Zenon DEF D!Next
<1>8. CASE \E i \in {1, 4}, v \in {0, 255} : D!SetOctet(i, v)
  BY <1>3, <1>8
<1> QED BY <1>1, <1>2, <1>4, <1>5, <1>6, <1>7, <1>8, Zenon

LEMMA AddressInvExact == AddressInv => D!AddressExact
<1> SUFFICES ASSUME AddressInv PROVE D!AddressExact
  OBVIOUS
<1>1. bytes \in Octets /\ Judged(read, ok, bytes)
  BY Zenon DEF AddressInv
<1>2. \A n \in 1..4 : bytes[n] \in 0..255
  BY <1>1 DEF Octets
<1>3. Len(D!Shown(bytes)) <= 15
  BY <1>1, ShownSpelt, Zenon DEF Spelt
<1>4. D!Scan(D!Shown(bytes), <<0, 0, 0, 0>>) = <<TRUE, bytes>>
  BY <1>1, GivenOctets, ShownReadBack, Zenon
<1> QED BY <1>1, <1>2, <1>3, <1>4, Zenon DEF D!AddressExact, Judged

(* fromString() takes exactly the texts of four numbers up to 255 between  *)
(* three dots, and the address is then those numbers; octets are bytes;    *)
(* toString() writes at most 15 characters, and fromString() reads them    *)
(* back as the address they were written from.                             *)
THEOREM AddressesHold == TextSpec => []D!AddressExact
BY AddressBegins, AddressKept, AddressInvExact, PTL DEF TextSpec

(* Both together: what is converted to text reads back as it was.          *)
THEOREM ConversionsHold == TextSpec => []ConversionsExact
<1>1. N!NumbersExact /\ D!AddressExact => ConversionsExact
  BY Zenon DEF ConversionsExact
<1> QED BY <1>1, NumbersHold, AddressesHold, PTL
=============================================================================
