------------------------------ MODULE IPAddress ------------------------------
(***************************************************************************)
(* IPAddress (cores/epoxy/IPAddress.cpp): four octets that a sketch sets   *)
(* as a whole or one by one, reads from a text and writes as one.          *)
(***************************************************************************)
EXTENDS Integers, Sequences

CONSTANTS
    Addresses, \* addresses a sketch sets: sequences of four octets
    Texts      \* what it reads: sequences of digits, Dot and Other

VARIABLES
    bytes,     \* _address.bytes
    read,      \* the last text read
    ok         \* what fromString() said of it

vars == <<bytes, read, ok>>

Dot == 10
Other == 11

Init == bytes \in Addresses \cup {<<0, 0, 0, 0>>} /\ read = <<>> /\ ok = FALSE

(* operator=, and operator[] for one octet.                                *)
Assign(address) == bytes' = address /\ read' = <<>> /\ ok' = FALSE
SetOctet(i, value) == Assign([bytes EXCEPT ![i] = value])

(* fromString(), a character at a time.  An octet is stored at the dot     *)
(* after it, whether or not what follows turns out to be an address, and   *)
(* the last one at the end.                                                *)
Scanned(s, c) ==
    IF ~s.ok THEN s
    ELSE IF c \in 0..9 /\ 10 * s.acc + c <= 255 THEN [s EXCEPT !.acc = 10 * @ + c]
    ELSE IF c = Dot /\ s.dots < 3
    THEN [s EXCEPT !.octets[s.dots + 1] = s.acc, !.dots = @ + 1, !.acc = 0]
    ELSE [s EXCEPT !.ok = FALSE]
Outcome(s) ==
    IF s.ok /\ s.dots = 3 THEN <<TRUE, [s.octets EXCEPT ![4] = s.acc]>> ELSE <<FALSE, s.octets>>
Scan(text, octets) ==
    LET scanned[n \in 0..Len(text)] ==
          IF n = 0 THEN [octets |-> octets, acc |-> 0, dots |-> 0, ok |-> TRUE]
          ELSE Scanned(scanned[n - 1], text[n])
    IN  Outcome(scanned[Len(text)])

FromString(text) ==
    /\ ok' = Scan(text, bytes)[1] /\ bytes' = Scan(text, bytes)[2]
    /\ read' = text

(* printTo(), toString().                                                  *)
Decimal(n) ==
    LET decimal[m \in 0..n] == (IF m < 10 THEN <<>> ELSE decimal[m \div 10]) \o <<m % 10>>
    IN  decimal[n]
Shown(octets) ==
    Decimal(octets[1]) \o <<Dot>> \o Decimal(octets[2]) \o <<Dot>>
    \o Decimal(octets[3]) \o <<Dot>> \o Decimal(octets[4])

(* A sketch also reads what it has written.                                *)
Next ==
    \/ \E a \in Addresses : Assign(a)
    \/ \E i \in {1, 4}, v \in {0, 255} : SetOctet(i, v)
    \/ \E t \in Texts : FromString(t)
    \/ FromString(Shown(bytes))

Spec == Init /\ [][Next]_vars

-----------------------------------------------------------------------------
Weigh(digits) ==
    LET w[i \in 0..Len(digits)] == IF i = 0 THEN 0 ELSE 10 * w[i - 1] + digits[i] IN w[Len(digits)]

\* The places of three dots between digits, and the numbers around them.
Splits(text) ==
    LET dots == {i \in DOMAIN text : text[i] = Dot}
    IN  {p \in dots \X dots \X dots :
            /\ p[1] < p[2] /\ p[2] < p[3]
            /\ \A i \in DOMAIN text : text[i] \in 0..9 \/ i \in {p[1], p[2], p[3]}}
Numbers(text, p) ==
    << Weigh(SubSeq(text, 1, p[1] - 1)), Weigh(SubSeq(text, p[1] + 1, p[2] - 1)),
       Weigh(SubSeq(text, p[2] + 1, p[3] - 1)), Weigh(SubSeq(text, p[3] + 1, Len(text))) >>

(* fromString() takes exactly the texts of four numbers up to 255 with     *)
(* dots between them (a missing number is 0), and then the address is that *)
(* text's; and what toString() writes it reads back as the same address.   *)
AddressExact ==
    /\ ok = \E p \in Splits(read) : \A n \in 1..4 : Numbers(read, p)[n] <= 255
    /\ ok => \A p \in Splits(read) : bytes = Numbers(read, p)
    /\ \A n \in 1..4 : bytes[n] \in 0..255
    /\ Len(Shown(bytes)) <= 15
    /\ Scan(Shown(bytes), <<0, 0, 0, 0>>) = <<TRUE, bytes>>
=============================================================================
