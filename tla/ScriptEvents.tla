---------------------------- MODULE ScriptEvents ----------------------------
(***************************************************************************)
(* Test scripts, cores/epoxy/epoxy_test/Script, in simulated time.  A      *)
(* Script hands out its lines one at a time; every line becomes an event   *)
(* of the injector, and every raise of an event takes the next line.  So a *)
(* line that is raised more than once, "at" and "bitstream", makes the     *)
(* script go on in several places at once.                                 *)
(*                                                                         *)
(* A line is the sequence of its commands, ready parsed: records           *)
(*   [cmd |-> "at", time], [cmd |-> "wait", time], [cmd |-> "sync", time], *)
(*   [cmd |-> "pin"], [cmd |-> "bits", time, bits] (bitstream: the period  *)
(*   and how many bits) and [cmd |-> "unknown"]; a comment or an empty     *)
(*   line is <<>>.                                                         *)
(* Only "at" leaves something of its line for a later raise.               *)
(***************************************************************************)
EXTENDS Integers, Sequences, FiniteSets

CONSTANTS
    Scripts,   \* the scripts to run, of at least a line
    Step,      \* what one pass of the injector's loop adds to the time: 10 us
    MaxTime    \* bound: how far the sketch delays

VARIABLES
    script,    \* the lines
    taken,     \* ScriptParser::line_nr: lines handed out
    now,       \* micros()
    queue,     \* Injector::events, by time; equal times in insertion order
    batch,     \* the events of one time that the loop is raising
    toInsert,  \* Events to_insert, by time
    log        \* every raise: its line, what it did, when, and what it was due

vars == <<script, taken, now, queue, batch, toInsert, log>>

\* What a line may say.
Commands == [cmd : {"at", "wait", "sync"}, time : Nat]
              \cup [cmd : {"bits"}, time : Nat, bits : Nat] \cup [cmd : {"pin", "unknown"}]

(* multimap::insert(): after those that are due at the same time.          *)
Insert(events, e) ==
    LET n == CHOOSE k \in 0..Len(events) :
                /\ \A i \in 1..k : events[i].due <= e.due
                /\ \A i \in k + 1..Len(events) : events[i].due > e.due
    IN  SubSeq(events, 1, n) \o <<e>> \o SubSeq(events, n + 1, Len(events))

IsBits(rest) == rest # <<>> /\ Head(rest).cmd = "bits"

(* ScriptRegistry::build() for a bitstream, and the plain ScriptEvent: the *)
(* bitstream's next_us is the time it is built, not the time it is due.    *)
NewEvent(line, rest, delay) ==
    [line |-> line, rest |-> rest, due |-> now + delay, nextUs |-> now,
     stream |-> IsBits(rest), left |-> IF IsBits(rest) THEN Head(rest).bits ELSE 0]

(* Script::step(): the next line's event, or none at the end of the input. *)
StepEvent(delay) ==
    IF taken < Len(script) THEN <<NewEvent(taken + 1, script[taken + 1], delay)>> ELSE <<>>
Taken == IF taken < Len(script) THEN taken + 1 ELSE taken

Init ==                         \* Script::Script(), init()
    /\ script \in Scripts
    /\ now = 0 /\ taken = 1
    /\ queue = <<NewEvent(1, script[1], 0)>>
    /\ batch = <<>> /\ toInsert = <<>> /\ log = <<>>

-----------------------------------------------------------------------------
(* Injector::loop(): the events of the earliest time, if it has come.      *)
BeginBatch ==
    /\ batch = <<>> /\ toInsert = <<>> /\ queue # <<>> /\ Head(queue).due <= now
    /\ LET due == Head(queue).due
           n == CHOOSE k \in 1..Len(queue) :
                    \A i \in 1..Len(queue) : i <= k <=> queue[i].due = due
       IN  /\ batch' = SubSeq(queue, 1, n)
           /\ queue' = SubSeq(queue, n + 1, Len(queue))
    /\ UNCHANGED <<script, taken, now, toInsert, log>>

EndBatch ==
    /\ batch = <<>> /\ toInsert # <<>>
    /\ queue' = Insert(queue, Head(toInsert))
    /\ toInsert' = Tail(toInsert)
    /\ UNCHANGED <<script, taken, now, batch, log>>

(* What a raise leaves to the loop: the chained event, and itself again.   *)
Leave(e, did, chain, again) ==
    LET chained == IF chain = <<>> THEN toInsert ELSE Insert(toInsert, chain[1])
    IN  /\ toInsert' = IF again = <<>> THEN chained ELSE Insert(chained, again[1])
        /\ batch' = Tail(batch)
        /\ log' = Append(log, [line |-> e.line, did |-> did, time |-> now, due |-> e.due])
        /\ UNCHANGED <<script, now, queue>>

\* Mutant: a "wait" is counted from the start of the script.
NextStepAbsolute(c) ==
    IF c.cmd \in {"wait", "sync"} /\ c.time >= now THEN c.time - now ELSE 0

(* How long step() is told to wait: the rest of a "wait" or "sync", or     *)
(* nothing if its time is over.                                            *)
NextStep(c) ==
    CASE c.cmd = "wait" -> c.time
      [] c.cmd = "sync" /\ c.time >= now -> c.time - now
      [] OTHER -> 0

\* Mutant: a line without a command takes no other line.
RaiseScriptStopping ==
    /\ batch # <<>> /\ ~IsBits(Head(batch).rest)
    /\ LET e == Head(batch)
           c == IF e.rest = <<>> THEN [cmd |-> "none"] ELSE Head(e.rest)
           again == IF c.cmd = "at" /\ c.time # 0
                    THEN <<[e EXCEPT !.rest = Tail(@), !.due = c.time]>> ELSE <<>>
       IN  IF c.cmd = "none"
           THEN Leave(e, c.cmd, <<>>, again) /\ UNCHANGED taken
           ELSE Leave(e, c.cmd, StepEvent(NextStep(c)), again) /\ taken' = Taken

(* ScriptEvent::raise() with raise_().  "at" asks for the rest of its line *)
(* at that time, 0 meaning never again; "at" before a bitstream chains the *)
(* bitstream when the time has come, and takes no line then.               *)
RaiseScript ==
    /\ batch # <<>> /\ ~IsBits(Head(batch).rest)
    /\ LET e == Head(batch)
           c == IF e.rest = <<>> THEN [cmd |-> "none"] ELSE Head(e.rest)
           again == IF c.cmd = "at" /\ c.time # 0
                    THEN <<[e EXCEPT !.rest = Tail(@), !.due = c.time]>> ELSE <<>>
       IN  /\ Leave(e, c.cmd, StepEvent(NextStep(c)), again)
           /\ taken' = Taken

RaiseAtBits ==
    /\ batch # <<>> /\ IsBits(Head(batch).rest) /\ ~Head(batch).stream
    /\ LET e == Head(batch)
       IN  Leave(e, "chain", <<NewEvent(e.line, e.rest, 0)>>, <<>>)
    /\ UNCHANGED taken

(* BitStream::raise_(), which writes one bit and wants to come back one    *)
(* period after the last time it should have come, at once if that is over *)
(* (and at time 0 not at all).                                             *)
RaiseBit ==
    /\ batch # <<>> /\ Head(batch).stream
    /\ LET e == Head(batch)
           next == e.nextUs + Head(e.rest).time
           due == IF next > now THEN next ELSE now
           again == IF e.left = 0 \/ due = 0 THEN <<>>
                    ELSE <<[e EXCEPT !.left = @ - 1, !.nextUs = next, !.due = due]>>
       IN  /\ Leave(e, IF e.left = 0 THEN "end" ELSE "bit", StepEvent(0), again)
           /\ taken' = Taken

(* The sketch delays: the loop adds a step, or what is left of the delay,  *)
(* while no event is due.                                                  *)
Advance ==
    /\ batch = <<>> /\ toInsert = <<>>
    /\ queue # <<>> => Head(queue).due > now
    /\ \E d \in 1..Step : now + d <= MaxTime /\ now' = now + d
    /\ UNCHANGED <<script, taken, queue, batch, toInsert, log>>

Next == BeginBatch \/ EndBatch \/ RaiseScript \/ RaiseAtBits \/ RaiseBit \/ Advance

(* The injector's thread runs and the sketch goes on delaying.             *)
Fairness == WF_vars(Next)

Spec == Init /\ [][Next]_vars
FairSpec == Spec /\ Fairness

-----------------------------------------------------------------------------
Does(line, cmds) == script[line] # <<>> /\ Head(script[line]).cmd \in cmds
First(line) == {p \in DOMAIN log : log[p].line = line
                                  /\ \A q \in 1..p - 1 : log[q].line # line}
AtTime(line) == Head(script[line]).time

(* "sync 100ms   // Wait until millis() == 100": no line after a "wait" or *)
(* a "sync" is raised before its time is over.                             *)
WaitsHold ==
    \A q \in DOMAIN log : \A i \in 1..log[q].line - 1 :
        Does(i, {"wait", "sync"}) =>
            \E p \in First(i) : p < q
                /\ log[q].time >= AtTime(i) + (IF Does(i, {"wait"}) THEN log[p].time ELSE 0)

(* That is so for a script in which no line is raised twice.               *)
WaitsHoldInSequence ==
    (\A i \in DOMAIN script : ~Does(i, {"at", "bits"})) => WaitsHold

(* Punctual: what "at" schedules, the next raise of its line, happens at   *)
(* its time, less than a step late, or at once if that is over.  A bit of  *)
(* a bitstream is never early, and not late either when the stream was     *)
(* built at its first bit.                                                 *)
Later(t, u) == IF t > u THEN t ELSE u
Raises(line, p) == {q \in 1..p : log[q].line = line}
Bits(line, p) == {q \in Raises(line, p) : log[q].did = "bit"}
Promptly(line) ==
    \A i \in 1..line - 1 : \A k \in DOMAIN script[i] : script[i][k].cmd \notin {"wait", "sync"}
OnTime ==
    \A p \in DOMAIN log : LET e == log[p] IN
        /\ e.time >= e.due
        /\ \A f \in 1..p : Does(e.line, {"at"}) /\ Raises(e.line, p - 1) = {f} =>
              LET t == Later(AtTime(e.line), log[f].time) IN e.time \in t..t + Step - 1
        /\ \A f \in 1..p : e.did = "bit" /\ Does(e.line, {"bits"}) /\ Promptly(e.line)
                         /\ Raises(e.line, f) = {f} =>
              LET t == log[f].due + Cardinality(Bits(e.line, p - 1)) * AtTime(e.line)
              IN  e.time \in t..t + Step - 1

(* A script without repeated lines runs in order, and events are on time.  *)
ScriptInOrder == WaitsHoldInSequence /\ OnTime

(* Every line of the script is raised, whatever the lines before it do.    *)
AllLinesRaised == <>(\A i \in DOMAIN script : First(i) # {})
=============================================================================
