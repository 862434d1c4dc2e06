---------------------------- MODULE StreamParser ----------------------------
(***************************************************************************)
(* The parsing methods of Stream (cores/epoxy/Stream.cpp), which read a    *)
(* stream whose characters arrive one by one while they run.  Every method *)
(* is a loop of timedRead() or timedPeek(), which poll until a character   *)
(* is there or _timeout has passed since they began; a call is a record of *)
(* its locals.  Time is the wall clock's: under set_real_time(false)       *)
(* nothing moves millis() inside a call.                                   *)
(***************************************************************************)
EXTENDS Integers, Sequences, FiniteSets

CONSTANTS
    Inputs,     \* what may be sent: sequences of characters
    Targets,    \* findMulti()'s targets: sequences of strings
    Lengths,    \* buffer lengths; 0 for a string, which has no limit
    Timeout,    \* _timeout
    MaxCalls    \* bound: calls of the sketch

VARIABLES
    coming,     \* what is still to arrive
    arrived,    \* what has arrived and is not read yet
    waited,     \* millis() - _startMillis of the timedRead() or timedPeek()
    call,       \* the call in progress: its arguments and locals, or op = "none"
    consumed,   \* what the call, or the last one, has read
    result,     \* what the last call returned
    calls       \* calls so far

vars == <<coming, arrived, waited, call, consumed, result, calls>>

Eof == "eof"                        \* -1, a timeout
Digits == {"0", "1"}
Blanks == {" "}
Point == "."
Ignore == ","                       \* the ignore character of parseInt() and parseFloat()
End == "b"                          \* readBytesUntil()'s terminator
Value(d) == IF d = "1" THEN 1 ELSE 0

Init ==
    /\ coming \in Inputs /\ arrived = <<>> /\ waited = 0
    /\ call = [op |-> "none"] /\ consumed = <<>> /\ result = [kind |-> "none"] /\ calls = 0

Idle == call.op = "none"

Begin(c) ==
    /\ Idle /\ calls < MaxCalls
    /\ call' = c /\ consumed' = <<>> /\ waited' = 0 /\ calls' = calls + 1
    /\ result' = [kind |-> "none"]
    /\ UNCHANGED <<coming, arrived>>

(* find(), findUntil(): an empty target matches before anything is read.   *)
FindMulti(targets) ==
    LET empty == {t \in DOMAIN targets : targets[t] = <<>>}
    IN  /\ Idle /\ calls < MaxCalls
        /\ IF empty = {}
           THEN Begin([op |-> "find", targets |-> targets, index |-> [t \in DOMAIN targets |-> 0]])
           ELSE /\ result' = [kind |-> "find", of |-> targets,
                              found |-> CHOOSE t \in empty : \A u \in empty : t <= u]
                /\ consumed' = <<>> /\ calls' = calls + 1
                /\ UNCHANGED <<coming, arrived, waited, call>>

(* parseInt(), and with decimal parseFloat(), which keeps how often it is  *)
(* to multiply by 0.1 (places; -1 before the point).                       *)
ParseNumber(decimal, lookahead) ==
    Begin([op |-> "skip", decimal |-> decimal, lookahead |-> lookahead,
           negative |-> FALSE, value |-> 0, places |-> -1])

(* readBytes() and readString() have no terminator, readString() and       *)
(* readStringUntil() no length.                                            *)
ReadUntil(ends, length) ==
    Begin([op |-> "read", ends |-> ends, length |-> length, got |-> <<>>])

-----------------------------------------------------------------------------
Return(r) == call' = [op |-> "none"] /\ result' = r
Continue(c) == call' = c /\ UNCHANGED result

\* Mutant: after a mismatch the target is looked for from the next character.
WalkRestart(target, index, c) == IF target[index + 1] = c THEN index + 1 ELSE 0

(* The next index of a target: one more if c is next, else the walk back   *)
(* to the longest start of the target that the characters read end with.   *)
Walk(target, index, c) ==
    LET fits(k) == /\ target[k + 1] = c
                   /\ \A i \in 1..k : target[i] = target[i + index - k]
        K == {k \in 0..index : fits(k)}
    IN  IF K = {} THEN 0 ELSE 1 + CHOOSE k \in K : \A j \in K : j <= k

FindStep(c) ==
    LET index == [t \in DOMAIN call.targets |-> Walk(call.targets[t], call.index[t], c)]
        done == {t \in DOMAIN index : index[t] = Len(call.targets[t])}
    IN  IF c = Eof THEN Return([kind |-> "find", of |-> call.targets, found |-> 0])
        ELSE IF done = {} THEN Continue([call EXCEPT !.index = index])
        ELSE Return([kind |-> "find", of |-> call.targets,
                     found |-> CHOOSE t \in done : \A u \in done : t <= u])

\* Mutant: only the length and the terminator end the call.
ReadStepPatient(c) ==
    LET got == Append(call.got, c)
    IN  IF c = Eof THEN Continue(call)
        ELSE IF call.ends /\ c = End
        THEN Return([kind |-> "read", got |-> call.got, length |-> call.length])
        ELSE IF Len(got) = call.length
        THEN Return([kind |-> "read", got |-> got, length |-> call.length])
        ELSE Continue([call EXCEPT !.got = got])

ReadStep(c) ==
    LET got == Append(call.got, c)
    IN  IF c = Eof \/ (call.ends /\ c = End)
        THEN Return([kind |-> "read", got |-> call.got, length |-> call.length])
        ELSE IF Len(got) = call.length
        THEN Return([kind |-> "read", got |-> got, length |-> call.length])
        ELSE Continue([call EXCEPT !.got = got])

(* peekNextDigit(), then the loop over digits; both look before they read. *)
Discards(c) == \/ call.lookahead = "all"
               \/ call.lookahead = "whitespace" /\ c \in Blanks
Starts(c, decimal) == c = "-" \/ c \in Digits \/ (decimal /\ c = Point)
Goes(c, point) == c \in Digits \/ c = Ignore \/ (point /\ c = Point)
Signed(n) == [kind |-> "number", decimal |-> call.decimal,
              value |-> IF call.negative THEN -n ELSE n, places |-> call.places]

SkipEnds(c) == ~Starts(c, call.decimal) /\ (c = Eof \/ ~Discards(c))
Digested(c) ==
    [call EXCEPT !.op = "digits",
                 !.negative = @ \/ c = "-",
                 !.value = IF c \in Digits THEN 10 * @ + Value(c) ELSE @,
                 !.places = IF c = Point THEN 0
                            ELSE IF c \in Digits /\ @ >= 0 THEN @ + 1 ELSE @]

(* A character reaches the method that waits for it.                       *)
TimedRead ==
    /\ call.op \in {"find", "read"} /\ arrived # <<>>
    /\ LET c == Head(arrived)
       IN  IF call.op = "find" THEN FindStep(c) ELSE ReadStep(c)
    /\ arrived' = Tail(arrived) /\ consumed' = Append(consumed, Head(arrived))
    /\ waited' = 0
    /\ UNCHANGED <<coming, calls>>

TimedPeek ==
    /\ call.op \in {"skip", "digits"} /\ arrived # <<>>
    /\ LET c == Head(arrived)
           skips == call.op = "skip" /\ ~Starts(c, call.decimal) /\ Discards(c)
           stops == IF call.op = "skip" THEN SkipEnds(c) ELSE ~Goes(c, call.decimal /\ call.places < 0)
       IN  IF stops
           THEN /\ Return(IF call.op = "skip" THEN Signed(0) ELSE Signed(call.value))
                /\ UNCHANGED <<arrived, consumed>>
           ELSE /\ Continue(IF skips THEN call ELSE Digested(c))
                /\ arrived' = Tail(arrived) /\ consumed' = Append(consumed, c)
    /\ waited' = 0
    /\ UNCHANGED <<coming, calls>>

TimeOut ==
    /\ ~Idle /\ arrived = <<>> /\ waited >= Timeout
    /\ CASE call.op = "find" -> FindStep(Eof)
         [] call.op = "read" -> ReadStep(Eof)
         [] call.op = "skip" -> Return(Signed(0))
         [] OTHER -> Return(Signed(call.value))
    /\ waited' = 0
    /\ UNCHANGED <<coming, arrived, consumed, calls>>

Arrive ==
    /\ coming # <<>>
    /\ arrived' = Append(arrived, Head(coming)) /\ coming' = Tail(coming)
    /\ UNCHANGED <<waited, call, consumed, result, calls>>

Tick ==
    /\ ~Idle /\ waited < Timeout /\ waited' = waited + 1
    /\ UNCHANGED <<coming, arrived, call, consumed, result, calls>>

Next ==
    \/ \E t \in Targets : FindMulti(t)
    \/ \E l \in {"all", "none", "whitespace"}, decimal \in BOOLEAN : ParseNumber(decimal, l)
    \/ \E ends \in BOOLEAN, n \in Lengths : ReadUntil(ends, n)
    \/ TimedRead \/ TimedPeek \/ TimeOut \/ Arrive \/ Tick

(* The call runs and time passes; nothing need ever arrive.                *)
Fairness == WF_vars(TimedRead) /\ WF_vars(TimedPeek) /\ WF_vars(TimeOut) /\ WF_vars(Tick)
Spec == Init /\ [][Next]_vars
FairSpec == Spec /\ Fairness

-----------------------------------------------------------------------------
\* The first n characters of s end with the first k of t.
EndsWith(s, n, t, k) == k <= n /\ \A i \in 1..k : s[n - k + i] = t[i]

(* find() stops at the very character that completes a target, the first   *)
(* of the targets if there are several, and gives up only if none came by, *)
(* even where a target starts again inside itself.                         *)
FoundAtFirst ==
    result.kind = "find" =>
        LET of == result.of
            seen(t, n) == EndsWith(consumed, n, of[t], Len(of[t]))
        IN  /\ result.found # 0 => seen(result.found, Len(consumed))
            /\ \A t \in DOMAIN of, n \in 0..Len(consumed) :
                 seen(t, n) => result.found \in 1..t /\ n = Len(consumed)

\* The number that the digits of s are.
Weight(s) ==
    LET weight[i \in 0..Len(s)] ==
            IF i = 0 THEN 0
            ELSE IF s[i] \in Digits THEN 10 * weight[i - 1] + Value(s[i])
            ELSE weight[i - 1]
    IN  weight[Len(s)]

(* What parseInt() and parseFloat() return is the number they consumed, no *)
(* digit of it lost or counted twice, scaled by the digits after its       *)
(* point, and they leave the character after it; what readBytesUntil()     *)
(* returns is what it consumed but for the terminator.                     *)
ParsedAsConsumed ==
    /\ result.kind = "number" =>
         LET n == Weight(consumed)
             minus == \E i \in DOMAIN consumed : consumed[i] = "-"
             points == {i \in DOMAIN consumed : consumed[i] = Point /\ result.decimal}
         IN  /\ result.value = IF minus THEN -n ELSE n
             /\ result.places =
                  IF points = {} THEN -1
                  ELSE Cardinality({i \in DOMAIN consumed :
                                      consumed[i] \in Digits /\ \E j \in points : j < i})
             /\ Cardinality(points) <= 1
             /\ consumed # <<>> /\ Starts(consumed[1], result.decimal) =>
                  \A i \in 2..Len(consumed) : Goes(consumed[i], result.decimal)
    /\ result.kind = "read" =>
         /\ consumed \in {result.got, Append(result.got, End)}
         /\ result.length > 0 =>
              /\ Len(result.got) <= result.length
              /\ Len(result.got) = result.length => consumed = result.got

(* Every parsing method returns what it consumed, and consumes no more.    *)
ConsumedRight == FoundAtFirst /\ ParsedAsConsumed

(* Every call returns, if only after its timeouts.                         *)
CallReturns == ~Idle ~> Idle
=============================================================================
