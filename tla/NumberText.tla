----------------------------- MODULE NumberText -----------------------------
(***************************************************************************)
(* Numbers as text and back: itoa() and its kin (cores/epoxy/              *)
(* avr_stdlib.cpp) under the constructors and concat() of String, the      *)
(* print() of numbers in Print.cpp, String::toInt(), the numbers, units    *)
(* and pins of ScriptParser, and the arithmetic of WMath.cpp.  They keep   *)
(* no state: a behaviour is one call, and call and result say what was     *)
(* asked and what came back.                                               *)
(*                                                                         *)
(* A double is a number of eighths, which binary and decimal both hold     *)
(* exactly; only where rounding falls on a tie is the last bit of the sum  *)
(* visible, and there the result is left open (error).                     *)
(***************************************************************************)
EXTENDS Integers, Sequences

CONSTANTS
    Width,      \* width of an integer
    Bases,     \* bases a sketch may ask for
    Eighths,   \* doubles: numerators over 8
    Places,    \* digits after the point
    Lines,     \* rests of a script line: sequences of [n |-> Nat] and [w |-> word]
    Pins,      \* pins_arduino: names to numbers
    Readings,  \* numbers that map() takes from one range to another
    Ends,      \* ends of such a range, and what random() is asked for
    Draws      \* what rand() gives

VARIABLES call, result

vars == <<call, result>>

Long == -(2 ^ (Width - 1))..2 ^ (Width - 1) - 1
ULong == 0..2 ^ Width - 1
Unsigned(n) == n % (2 ^ Width)
Character == <<"0", "1", "2", "3", "4", "5", "6", "7", "8", "9",
               "A", "B", "C", "D", "E", "F", "G", "H", "I", "J", "K", "L", "M",
               "N", "O", "P", "Q", "R", "S", "T", "U", "V", "W", "X", "Y", "Z">>
Minus == "-"
Point == "."
Blank == " "

Absolute(n) == IF n < 0 THEN -n ELSE n
Quotient(a, b) ==                         \* C's division, towards zero
    IF (a < 0) = (b < 0) THEN Absolute(a) \div Absolute(b)
    ELSE -(Absolute(a) \div Absolute(b))

-----------------------------------------------------------------------------
Digits(u, base) ==
    LET digits[n \in 0..u] ==
          (IF n < base THEN <<>> ELSE digits[n \div base]) \o <<Character[(n % base) + 1]>>
    IN  digits[u]

Base(base) == IF base \in 2..36 THEN base ELSE 10

(* utoa(), ultoa(); itoa(), ltoa(), which negate an unsigned so that the   *)
(* least integer has its text too, and write bits in a base other than 10. *)
UtoaText(u, base) == Digits(u, Base(base))

\* Mutant: a sign in every base.
LtoaSigned(n, base) ==
    IF n < 0 THEN <<Minus>> \o Digits(Unsigned(-n), Base(base))
    ELSE Digits(Unsigned(n), Base(base))

LtoaText(n, base) ==
    IF Base(base) = 10 /\ n < 0 THEN <<Minus>> \o Digits(Unsigned(-n), 10)
    ELSE Digits(Unsigned(n), Base(base))

(* atol(), under toInt().                                                  *)
ValueOf(c) == (CHOOSE i \in DOMAIN Character : Character[i] = c) - 1
Read(digits, base) ==
    LET value[n \in 0..Len(digits)] ==
          IF n = 0 THEN 0 ELSE base * value[n - 1] + ValueOf(digits[n])
    IN  value[Len(digits)]
ToInt(text) ==
    IF text # <<>> /\ text[1] = Minus THEN -Read(Tail(text), 10) ELSE Read(text, 10)

(* print(long, base), print(unsigned long, base) and printNumber(), whose  *)
(* base has eight bits: 0 writes the byte, 1 is no base.                   *)
PrintBase(base) == IF base % 256 < 2 THEN 10 ELSE base % 256
PrintText(n, base) ==
    IF n < 0 /\ base = 10 THEN <<Minus>> \o Digits(Unsigned(-n), 10)
    ELSE Digits(Unsigned(n), PrintBase(base))

(* dtostrf(): sprintf("%<width>.<prec>f"), half to even.                   *)
Pad(text, width) ==
    [i \in 1..(IF Len(text) < width THEN width - Len(text) ELSE 0) |-> Blank] \o text
Decimal(q, places) ==
    Digits(q \div (10 ^ places), 10)
    \o (IF places > 0 THEN <<Point>> ELSE <<>>)
    \o [n \in 1..places |-> Character[((q \div (10 ^ (places - n))) % 10) + 1]]
FixedText(k, width, places) ==
    LET scaled == Absolute(k) * 10 ^ places
        down == scaled \div 8
        q == IF 2 * (scaled % 8) > 8 \/ (2 * (scaled % 8) = 8 /\ down % 2 = 1) THEN down + 1 ELSE down
    IN  Pad((IF k < 0 THEN <<Minus>> ELSE <<>>) \o Decimal(q, places), width)

(* printFloat(): half a unit of the last place is added, then the whole    *)
(* part and one digit after the other are taken off.                       *)
Fraction(rest, unit, places) ==
    LET left[n \in 0..places] == IF n = 0 THEN rest ELSE (10 * left[n - 1]) % unit
    IN  [n \in 1..places |-> Character[((10 * left[n - 1]) \div unit) + 1]]
FloatText(k, places, error) ==
    LET unit == 16 * 10 ^ places
        number == 2 * Absolute(k) * 10 ^ places + 8 - error
    IN  (IF k < 0 THEN <<Minus>> ELSE <<>>)
        \o Digits(number \div unit, 10)
        \o (IF places > 0 THEN <<Point>> ELSE <<>>)
        \o Fraction(number % unit, unit, places)

-----------------------------------------------------------------------------
(* ScriptParser: what a getter returns, what it leaves of the line, and    *)
(* whether it reported an error.                                           *)
IsNumber(line) == line # <<>> /\ "n" \in DOMAIN line[1]
EatWord(line, word) == line # <<>> /\ "w" \in DOMAIN line[1] /\ line[1].w = word
Ratio(line) ==
    IF EatWord(line, "us") THEN 1 ELSE IF EatWord(line, "ms") THEN 1000
    ELSE IF EatWord(line, "s") THEN 1000000 ELSE IF EatWord(line, "mn") THEN 60000000 ELSE 0
Period(line) ==
    IF EatWord(line, "Mhz") THEN 1 ELSE IF EatWord(line, "kHz") THEN 1000
    ELSE IF EatWord(line, "Hz") THEN 1000000 ELSE 0

Got(value, rest) == [value |-> value, rest |-> rest, errors |-> 0]
Failed(value, rest) == [value |-> value, rest |-> rest, errors |-> 1]

Duration(line) ==
    IF ~IsNumber(line) THEN Failed(0, line)
    ELSE IF Ratio(Tail(line)) = 0 THEN Failed(line[1].n, Tail(line))
    ELSE Got(line[1].n * Ratio(Tail(line)), Tail(Tail(line)))
PeriodUs(line) ==
    LET unit == IF Period(Tail(line)) = 0 THEN Ratio(Tail(line)) ELSE Period(Tail(line))
    IN  IF ~IsNumber(line) THEN Failed(0, line)
        ELSE IF unit = 0 THEN Failed(0, Tail(line))
        ELSE Got(line[1].n * unit, Tail(Tail(line)))
PinNumber(line) ==
    IF IsNumber(line) THEN Got(line[1].n, Tail(line))
    ELSE IF line # <<>> /\ line[1].w \in DOMAIN Pins THEN Got(Pins[line[1].w], Tail(line))
    ELSE Failed(-1, IF line = <<>> THEN line ELSE Tail(line))

(* WMath.cpp; rand() is any number.                                        *)
Map(x, inMin, inMax, outMin, outMax) ==
    Quotient((x - inMin) * (outMax - outMin), inMax - inMin) + outMin
RandomBelow(rand, big) == IF big = 0 THEN 0 ELSE rand % Absolute(big)
RandomIn(rand, small, big) ==
    IF small >= big THEN small ELSE RandomBelow(rand, big - small) + small

-----------------------------------------------------------------------------
Init == call = [op |-> "none"] /\ result = [text |-> <<>>]

Answer(c, r) == call.op = "none" /\ call' = c /\ result' = r
Writes(c, text) == Answer(c, [text |-> text])
Yields(c, n) == Answer(c, [value |-> n])

Ltoa(n, base) == Writes([op |-> "ltoa", n |-> n, base |-> base], LtoaText(n, base))
Ultoa(u, base) == Writes([op |-> "ultoa", n |-> u, base |-> base], UtoaText(u, base))
PrintNumber(n, base) ==
    base # 0 /\ Writes([op |-> "print", n |-> n, base |-> base], PrintText(n, base))
Dtostrf(k, places) ==
    Writes([op |-> "dtostrf", k |-> k, places |-> places], FixedText(k, places + 2, places))
PrintFloat(k, places, error) ==
    /\ places = 0 => error = 0
    /\ Writes([op |-> "printFloat", k |-> k, places |-> places], FloatText(k, places, error))
GetDuration(line) == Answer([op |-> "duration", line |-> line], Duration(line))
GetPeriodUs(line) == Answer([op |-> "period", line |-> line], PeriodUs(line))
GetPinNumber(line) == Answer([op |-> "pin", line |-> line], PinNumber(line))
MapRange(x, a, b, c, d) ==
    a # b /\ Yields([op |-> "map", x |-> x, from |-> <<a, b>>, to |-> <<c, d>>], Map(x, a, b, c, d))
Random(rand, small, big) ==
    Yields([op |-> "random", small |-> small, big |-> big], RandomIn(rand, small, big))

Next ==
    \/ \E n \in Long, b \in Bases : Ltoa(n, b) \/ PrintNumber(n, b)
    \/ \E u \in ULong, b \in Bases : Ultoa(u, b) \/ PrintNumber(u, b)
    \/ \E k \in Eighths, p \in Places : Dtostrf(k, p) \/ \E e \in 0..1 : PrintFloat(k, p, e)
    \/ \E line \in Lines : GetDuration(line) \/ GetPeriodUs(line) \/ GetPinNumber(line)
    \/ \E a, b, c, d \in Ends, x \in Readings : MapRange(x, a, b, c, d)
    \/ \E small, big \in Ends, rand \in Draws : Random(rand, small, big)

Spec == Init /\ [][Next]_vars

-----------------------------------------------------------------------------
Marks == {Minus, Point, Blank}
Signed(text) == \E i \in DOMAIN text : text[i] = Minus
Bare(text) == IF text[1] = Minus THEN Tail(text) ELSE text
Bytes == Width \div 8
Fits(text, size) == Len(text) + 1 <= size           \* with its NUL
Plain(text) == Bare(text)[1] # "0" \/ Len(Bare(text)) = 1

(* An integer reads back as it was written, the least one too: in base 10  *)
(* with its sign, in another as its bits; print() and String write it      *)
(* alike; and every buffer on the way is long enough, those of a byte in   *)
(* base 2 and of concat(), which has three characters a byte, to the last. *)
IntegersExact ==
    LET base == Base(call.base) IN
    /\ call.op = "ltoa" =>
        /\ Fits(result.text, Width + 2)
        /\ base = 10 => Fits(result.text, 2 + 3 * Bytes) /\ ToInt(result.text) = call.n
        /\ base # 10 =>
              /\ ~Signed(result.text)
              /\ Read(result.text, base) = Unsigned(call.n)
    /\ call.op = "ultoa" =>
        /\ Fits(result.text, Width + 1)
        /\ base = 10 => Fits(result.text, 1 + 3 * Bytes)
        /\ Read(result.text, base) = call.n
    /\ call.op = "print" =>
        /\ Fits(Bare(result.text), Width + 1)
        /\ call.base = base =>
              result.text = IF call.n < 0 THEN LtoaText(call.n, base) ELSE UtoaText(call.n, base)
    /\ call.op \in {"ltoa", "ultoa", "print"} => Plain(result.text)

(* Both ways to write a double give the decimal nearest to it, with the    *)
(* digits asked for, and fit String's buffer of 33.                        *)
Printed(text) ==                          \* the number its digits make
    LET value[n \in 0..Len(text)] ==
          IF n = 0 THEN 0
          ELSE IF text[n] \in Marks THEN value[n - 1] ELSE 10 * value[n - 1] + ValueOf(text[n])
    IN  value[Len(text)]
DoublesNearest ==
    call.op \in {"dtostrf", "printFloat"} =>
        LET printed == Printed(result.text)
        IN  /\ Absolute(8 * printed - Absolute(call.k) * 10 ^ call.places) <= 4
            /\ Signed(result.text) = (call.k < 0)
            /\ call.places > 0 => result.text[Len(result.text) - call.places] = Point
            /\ Fits(result.text, 33)

(* A duration is read only as a number with its unit, a bad one is an      *)
(* error, and never more of the line is eaten than was read.               *)
Microseconds == [us |-> 1, ms |-> 1000, s |-> 1000000, mn |-> 60000000]
ArgumentsRead ==
    call.op \in {"duration", "period", "pin"} =>
        LET line == call.line
            eaten == Len(line) - Len(result.rest)
            timed == /\ Len(line) > 1 /\ IsNumber(line)
                     /\ ~IsNumber(Tail(line)) /\ line[2].w \in DOMAIN Microseconds
        IN  /\ eaten \in 0..2 /\ result.rest = SubSeq(line, eaten + 1, Len(line))
            /\ call.op = "duration" =>
                 /\ (result.errors = 0) = timed
                 /\ timed => eaten = 2 /\ result.value = line[1].n * Microseconds[line[2].w]
            /\ call.op = "period" /\ timed =>
                 result.errors = 0 /\ result.value = line[1].n * Microseconds[line[2].w]
            /\ result.errors = 0 => eaten = IF call.op = "pin" THEN 1 ELSE 2

(* map() takes the ends to the ends and what lies between them between     *)
(* them, whichever way the ranges run; random() stays below its end.       *)
RangesKept ==
    /\ call.op = "map" =>
         LET a == call.from[1]  b == call.from[2]  c == call.to[1]  d == call.to[2]
             between(x, y, z) == (y <= x /\ x <= z) \/ (z <= x /\ x <= y)
         IN  /\ call.x = a => result.value = c
             /\ call.x = b => result.value = d
             /\ between(call.x, a, b) => between(result.value, c, d)
    /\ call.op = "random" =>
         IF call.small < call.big THEN call.small <= result.value /\ result.value < call.big
         ELSE result.value = call.small

(* What is read is what was written, and nothing is written past a buffer. *)
NumbersExact ==
    call.op # "none" =>
        /\ call.op \in {"ltoa", "ultoa", "print"} => IntegersExact
        /\ DoublesNearest /\ ArgumentsRead /\ RangesKept
=============================================================================
