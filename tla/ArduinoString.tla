--------------------------- MODULE ArduinoString ---------------------------
(***************************************************************************)
(* String (cores/epoxy/WString.cpp): a heap buffer, its capacity and the   *)
(* length of the text in it.  The buffer is modelled byte by byte, because *)
(* that is where it can go wrong: reallocation may fail, a string that was *)
(* moved from keeps its old bytes, and replace() rewrites in place.        *)
(*                                                                         *)
(* Numbers become text before they reach a String, so that the overloads   *)
(* that take one are the ones that take the text.  What the code does with *)
(* a pointer into a buffer it has just given up is undefined (broken).     *)
(***************************************************************************)
EXTENDS Integers, Sequences, FiniteSets

CONSTANTS
    Names,     \* the sketch's Strings
    Edited,    \* those among them that it also edits in place
    Alphabet,  \* characters in the order of their codes, " ", "A" and "a" among them
    Texts,     \* C strings: sequences of characters
    Pairs,     \* arguments <<find, replace>> of replace()
    MaxLen     \* bound: length of a text

VARIABLES
    str,       \* per String: buf, its bytes (<<>> for NULL), and len
    broken     \* a byte was read or written outside a live buffer

vars == <<str, broken>>

Nul == "0"
Junk == "?"                     \* what realloc() adds
Chars == {Alphabet[i] : i \in DOMAIN Alphabet}
Capacity(s) == Len(s.buf) - 1
Null == [buf |-> <<>>, len |-> 0]

(* The C string in a buffer, and the text a String stands for.             *)
CStr(buf) == SubSeq(buf, 1, (CHOOSE i \in DOMAIN buf :
                buf[i] = Nul /\ \A j \in 1..i - 1 : buf[j] # Nul) - 1)
Text(s) == SubSeq(s.buf, 1, s.len)
Valid(s) == s.buf # <<>>

(* Bytes put over a buffer from position at (from 0), a NUL after them.    *)
Put(buf, at, text) ==
    [i \in DOMAIN buf |-> IF i <= at THEN buf[i]
                          ELSE IF i <= at + Len(text) THEN text[i - at]
                          ELSE IF i = at + Len(text) + 1 THEN Nul ELSE buf[i]]

Realloc(s, size) == [i \in 1..size + 1 |-> IF i <= Len(s.buf) THEN s.buf[i] ELSE Junk]

(* reserve(), without the NUL it gives an empty string: every caller but   *)
(* the sketch writes its own.                                              *)
Enough(s, size) == Valid(s) /\ Capacity(s) >= size
Reserved(s, size) == IF Enough(s, size) THEN s ELSE [s EXCEPT !.buf = Realloc(s, size)]

(* copy(), and concat() of length bytes, given the memory.                 *)
Copied(s, text) == [buf |-> Put(Reserved(s, Len(text)).buf, 0, text), len |-> Len(text)]
Concatenated(s, text) ==
    LET n == s.len + Len(text)
    IN  [buf |-> Put(Reserved(s, n).buf, s.len, text), len |-> n]

Init ==
    /\ str \in [Names -> {Null} \cup {Copied(Null, t) : t \in Texts}]
    /\ broken = FALSE

Change(x, s) == str' = [str EXCEPT ![x] = s] /\ UNCHANGED broken

-----------------------------------------------------------------------------
(* Constructors and assignments of a C string or of another String.        *)
AssignText(x, text) ==
    \/ Change(x, Copied(str[x], text))
    \/ /\ ~Enough(str[x], Len(text))                \* no memory: invalidate()
       /\ Change(x, Null)

Assign(x, y) ==
    /\ x # y
    /\ IF Valid(str[y]) THEN AssignText(x, Text(str[y]))
       ELSE Change(x, Null)

AssignNull(x) == Change(x, Null)

(* move(): into the buffer x has, if y's text fits, else y's buffer goes   *)
(* to x.  In the first case y keeps its buffer, bytes and all.             *)
Move(x, y) ==
    /\ x # y
    /\ str' = IF Enough(str[x], str[y].len) /\ Valid(str[y])
              THEN [str EXCEPT ![x] = [buf |-> Put(@.buf, 0, CStr(str[y].buf)), len |-> str[y].len],
                               ![y].len = 0]
              ELSE [str EXCEPT ![x] = str[y], ![y] = Null]
    /\ broken' = (Valid(str[y]) /\ Enough(str[x], str[y].len)
                  /\ Len(CStr(str[y].buf)) > Capacity(str[x]))

Reserve(x, size) ==
    \/ LET s == Reserved(str[x], size)
       IN  Change(x, IF Enough(str[x], size) \/ s.len > 0 THEN s
                     ELSE [s EXCEPT !.buf[1] = Nul])
    \/ ~Enough(str[x], size) /\ Change(x, str[x])

(* concat(), += and the steps of a sum, which invalidates on failure.      *)
(* Appending a String to itself reads its bytes after the reallocation.    *)
ConcatText(x, text, alias) ==
    /\ str[x].len + Len(text) <= MaxLen
    /\ IF text = <<>> THEN Change(x, str[x])
       ELSE \/ /\ str' = [str EXCEPT ![x] = Concatenated(@, text)]
               /\ broken' = (alias /\ ~Enough(str[x], str[x].len + Len(text)))
            \/ /\ ~Enough(str[x], str[x].len + Len(text))
               /\ Change(x, Null) \/ Change(x, str[x])   \* in a sum, or alone

Concat(x, y) ==
    IF Valid(str[y]) THEN ConcatText(x, Text(str[y]), x = y)
    ELSE Change(x, str[x])

Clear(x) ==
    Change(x, [buf |-> IF Valid(str[x]) THEN Put(str[x].buf, 0, <<>>) ELSE <<>>, len |-> 0])

-----------------------------------------------------------------------------
(* Where a text occurs in a C string, counted from 0; -1 for nowhere.      *)
Matches(s, find) == {p \in 0..Len(s) - Len(find) : SubSeq(s, p + 1, p + Len(find)) = find}
Least(S) == IF S = {} THEN -1 ELSE CHOOSE p \in S : \A q \in S : p <= q
Greatest(S) == IF S = {} THEN -1 ELSE CHOOSE p \in S : \A q \in S : p >= q

IndexOf(s, find, from) ==
    IF from >= s.len THEN -1 ELSE Least({p \in Matches(CStr(s.buf), find) : p >= from})
LastIndexOf(s, find, from) ==
    IF Len(find) = 0 \/ s.len = 0 \/ Len(find) > s.len THEN -1
    ELSE Greatest({p \in Matches(CStr(s.buf), find) :
                      p <= (IF from >= s.len THEN s.len - 1 ELSE from)})
StartsWith(s, prefix, offset) ==        \* len - prefix.len wraps: prefix no longer than s
    /\ offset <= s.len - Len(prefix) /\ Valid(s)
    /\ SubSeq(s.buf, offset + 1, offset + Len(prefix)) = prefix
EndsWith(s, suffix) ==
    /\ s.len >= Len(suffix) /\ Valid(s)
    /\ SubSeq(CStr(s.buf), s.len - Len(suffix) + 1, Len(CStr(s.buf))) = suffix
(* compareTo(), whose sign is what counts: strcmp() where both have a       *)
(* buffer, and without one a text is more than none.                       *)
Code(c) == CHOOSE i \in DOMAIN Alphabet : Alphabet[i] = c
Less(s, t) ==
    \E n \in 0..Len(s) :
        /\ n < Len(t) /\ SubSeq(s, 1, n) = SubSeq(t, 1, n)
        /\ n = Len(s) \/ Code(s[n + 1]) < Code(t[n + 1])
CompareTo(s, t) ==
    IF Valid(s) /\ Valid(t)
    THEN IF Less(CStr(s.buf), CStr(t.buf)) THEN -1 ELSE IF CStr(s.buf) = CStr(t.buf) THEN 0 ELSE 1
    ELSE IF Valid(t) /\ t.len > 0 THEN -1 ELSE IF Valid(s) /\ s.len > 0 THEN 1 ELSE 0
Equals(s, t) == s.len = t.len /\ CompareTo(s, t) = 0

Lower(text) == [i \in DOMAIN text |-> IF text[i] = "A" THEN "a" ELSE text[i]]
Upper(text) == [i \in DOMAIN text |-> IF text[i] = "a" THEN "A" ELSE text[i]]
EqualsIgnoreCase(s, t) ==
    s.len = t.len /\ (s.len > 0 => Lower(CStr(s.buf)) = Lower(CStr(t.buf)))

Substring(s, left, right) ==
    LET l == IF left > right THEN right ELSE left
        r == IF left > right THEN left ELSE right
    IN  IF l >= s.len THEN <<>>
        ELSE SubSeq(s.buf, l + 1, IF r > s.len THEN s.len ELSE r)

(* What getBytes(), toCharArray() leave in a buffer of size bytes, not 0.  *)
GetBytes(s, size, index) ==
    LET n == IF size - 1 > s.len - index THEN s.len - index ELSE size - 1
    IN  IF index >= s.len THEN <<Nul>> ELSE SubSeq(s.buf, index + 1, index + n) \o <<Nul>>

SetCharAt(x, i, c) ==
    Change(x, IF i < str[x].len THEN [str[x] EXCEPT !.buf[i + 1] = c] ELSE str[x])

Remove(x, index, count) ==
    LET s == str[x]
        n == IF count > s.len - index THEN s.len - index ELSE count
    IN  Change(x, IF index >= s.len \/ count = 0 THEN s
                  ELSE [buf |-> Put(s.buf, index, SubSeq(s.buf, index + n + 1, s.len)),
                        len |-> s.len - n])

\* Mutant: the blanks at the end stay.
TrimStart(x) ==
    LET s == str[x]
        solid == {i \in 1..s.len : s.buf[i] # " "}
        text == IF solid = {} THEN <<>> ELSE SubSeq(s.buf, Least(solid), s.len)
    IN  Change(x, IF s.len = 0 THEN s ELSE [buf |-> Put(s.buf, 0, text), len |-> Len(text)])

Trim(x) ==
    LET s == str[x]
        solid == {i \in 1..s.len : s.buf[i] # " "}
        text == IF solid = {} THEN <<>> ELSE SubSeq(s.buf, Least(solid), Greatest(solid))
    IN  Change(x, IF s.len = 0 THEN s ELSE [buf |-> Put(s.buf, 0, text), len |-> Len(text)])

(* toLowerCase(), toUpperCase() and replace() of a character: up to the    *)
(* NUL, wherever it is.                                                    *)
Rewrite(x, text) ==
    Change(x, IF Valid(str[x]) THEN [str[x] EXCEPT !.buf = Put(@, 0, text)] ELSE str[x])
ToLowerCase(x) == Rewrite(x, IF Valid(str[x]) THEN Lower(CStr(str[x].buf)) ELSE <<>>)
ToUpperCase(x) == Rewrite(x, IF Valid(str[x]) THEN Upper(CStr(str[x].buf)) ELSE <<>>)
Swapped(text, c, d) == [i \in DOMAIN text |-> IF text[i] = c THEN d ELSE text[i]]
ReplaceChar(x, c, d) == Rewrite(x, IF Valid(str[x]) THEN Swapped(CStr(str[x].buf), c, d) ELSE <<>>)

(* The left to right pass of replace(): the text it makes.                 *)
Swept(text, find, by) ==
    LET swept[from \in 0..Len(text)] ==
          LET rest == SubSeq(text, from + 1, Len(text))
              p == Least(Matches(rest, find))
          IN  IF p < 0 THEN rest ELSE SubSeq(rest, 1, p) \o by \o swept[from + p + Len(find)]
    IN  swept[0]

(* The right to left pass for a longer replacement: each match makes room  *)
(* for itself and looks again from the byte before it, so that it may meet *)
(* what it has just written; the size was computed left to right.          *)
Grown(text, find, by, index) ==
    LET Match(s) == Greatest({q \in Matches(s.text, find) : q <= s.index})
        Replaced(s, p) ==
          [text |-> SubSeq(s.text, 1, p) \o by \o SubSeq(s.text, p + Len(find) + 1, Len(s.text)),
           index |-> p - 1]
        pass[n \in 0..index + 1] ==
          IF n = 0 THEN [text |-> text, index |-> index]
          ELSE LET s == pass[n - 1]
               IN  IF s.index < 0 \/ Match(s) < 0 THEN s ELSE Replaced(s, Match(s))
    IN  pass[index + 1].text

Replace(x, find, by) ==
    LET s == str[x]
        swept == Swept(CStr(s.buf), find, by)
        grown == Grown(CStr(s.buf), find, by, s.len - 1)
    IN  IF s.len = 0 \/ Len(find) = 0 THEN Change(x, s)
        ELSE IF Len(by) <= Len(find)
        THEN Change(x, [buf |-> Put(s.buf, 0, swept), len |-> Len(swept)])
        ELSE /\ Len(swept) <= MaxLen
             /\ \/ /\ LET r == IF Len(swept) > Capacity(s) THEN Realloc(s, Len(swept)) ELSE s.buf
                          fits == Len(grown) <= Len(r) - 1
                      IN  /\ str' = [str EXCEPT ![x] =
                                IF fits THEN [buf |-> Put(r, 0, grown), len |-> Len(grown)] ELSE @]
                          /\ broken' = ~fits
                \/ Len(swept) > Capacity(s) /\ Change(x, s)

Next ==
    /\ ~broken
    /\ \/ \E x, y \in Names : Assign(x, y) \/ Move(x, y) \/ Concat(x, y)
       \/ \E x \in Names : AssignNull(x) \/ Clear(x) \/ \E t \in Texts : AssignText(x, t)
       \/ \E x \in Edited :
        \/ \E t \in Texts : ConcatText(x, t, FALSE)
        \/ Trim(x) \/ ToLowerCase(x) \/ ToUpperCase(x) \/ ReplaceChar(x, " ", "a")
        \/ Reserve(x, MaxLen)
        \/ \E n \in 0..1 : Remove(x, n, 1) \/ Remove(x, n, MaxLen) \/ SetCharAt(x, n, " ")
        \/ \E p \in Pairs : Replace(x, p[1], p[2])

Spec == Init /\ [][Next]_vars

-----------------------------------------------------------------------------
(* A String with a text has a buffer that holds it and a NUL right after,  *)
(* after any reallocation, failed or not, move or rewriting in place.  (An *)
(* empty one may still hold the bytes it had when it was moved from.)      *)
Terminated ==
    \A x \in Names : LET s == str[x] IN
        /\ Valid(s) => \E i \in DOMAIN s.buf : s.buf[i] = Nul
        /\ s.len > 0 => Valid(s) /\ s.len <= Capacity(s) /\ CStr(s.buf) = Text(s)

(* The searches agree with each other on every text: what indexOf() finds, *)
(* substring() cuts out and startsWith() confirms, lastIndexOf() finds it  *)
(* or a later one, and endsWith() is lastIndexOf() at the end; getBytes()  *)
(* gives what substring() gives, as far as the buffer goes.                *)
SearchesAgree ==
    /\ \A x \in Names : \A i \in 0..str[x].len, size \in 1..str[x].len + 1 :
        LET bytes == GetBytes(str[x], size, i)
            cut == Substring(str[x], i, str[x].len)
        IN  /\ CStr(bytes) = SubSeq(cut, 1, Len(bytes) - 1)
            /\ Len(bytes) = IF size > Len(cut) THEN Len(cut) + 1 ELSE size
    /\ \A x \in Names, t \in {u \in Texts : u # <<>>} :
        LET s == str[x]
            p == IndexOf(s, t, 0)
            q == LastIndexOf(s, t, s.len - 1)
        IN  s.len > 0 =>
            /\ (p < 0) = (q < 0) /\ p <= q
            /\ p >= 0 => StartsWith(s, t, p) /\ Substring(s, p + Len(t), p) = t
            /\ EndsWith(s, t) = (q >= 0 /\ q = s.len - Len(t))

(* Two Strings are equal when their texts are, an invalid one to an empty  *)
(* one too, and of two others one is less than the other.  (Not one that   *)
(* was moved from: compareTo() still sees its bytes.)                      *)
ComparesByText ==
    \A x, y \in Names :
        LET s == str[x]
            t == str[y]
            plain == \A u \in {s, t} : Valid(u) => CStr(u.buf) = Text(u)
        IN  plain =>
            /\ Equals(s, t) = (Text(s) = Text(t))
            /\ CompareTo(s, t) = -CompareTo(t, s)
            /\ CompareTo(s, t) = 0 => Equals(s, t)
            /\ EqualsIgnoreCase(s, t) = (Lower(Text(s)) = Lower(Text(t)))

(* A String is a terminated text on which searches and comparisons agree.  *)
TextSound == ~broken => Terminated /\ SearchesAgree /\ ComparesByText

(* Every call leaves the text it is documented to leave; without memory a  *)
(* concatenation leaves the String unchanged, an assignment or a sum makes *)
(* it invalid.  replace() with a longer text only for one character: for   *)
(* more, what it writes may match again.                                   *)
AsDocumented ==
    [][~broken' => \A x \in Names :
        LET before == Text(str[x])
            after == Text(str'[x])
            invalid == ~Valid(str'[x])
        IN  /\ \A t \in Texts :
                /\ AssignText(x, t) => invalid \/ after = t
                /\ ConcatText(x, t, FALSE) => invalid \/ after \in {before, before \o t}
            /\ \A y \in Names : Move(x, y) => after = Text(str[y])
            /\ Reserve(x, MaxLen) => after = before
            /\ \A n \in 0..1 : Remove(x, n, 1) =>
                    after = IF n < Len(before)
                            THEN SubSeq(before, 1, n) \o SubSeq(before, n + 2, Len(before))
                            ELSE before
            /\ ToLowerCase(x) => after = Lower(before)
            /\ ToUpperCase(x) => after = Upper(before)
            /\ ReplaceChar(x, " ", "a") => after = Swapped(before, " ", "a")
            /\ Trim(x) =>
                /\ after # <<>> => after[1] # " " /\ after[Len(after)] # " "
                /\ \E i, n \in 0..Len(before) :
                      /\ after = SubSeq(before, i + 1, n)
                      /\ \A j \in DOMAIN before : j <= i \/ j > n => before[j] = " "
            /\ \A p \in {q \in Pairs : Len(q[1]) = 1 \/ Len(q[2]) <= Len(q[1])} :
                Replace(x, p[1], p[2]) => after \in {before, Swept(before, p[1], p[2])}]_vars

(* "compute size needed for result" (replace()): the buffer is never too   *)
(* small for what replace() writes.                                        *)
ReplaceFits == [][\A x \in Names, p \in Pairs : Replace(x, p[1], p[2]) => ~broken']_vars
=============================================================================
