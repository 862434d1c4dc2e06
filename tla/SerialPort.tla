----------------------------- MODULE SerialPort -----------------------------
(***************************************************************************)
(* The serial ports of a sketch: StdioSerial, on the program's standard    *)
(* input and output, and PtySerial, on a terminal device, with Print's     *)
(* methods on top of their write().  A byte that peek() has fetched from   *)
(* the descriptor is kept in bufch until read() takes it.                  *)
(*                                                                         *)
(* The n-th byte the other side sends is n.  Of a printed text only the    *)
(* lengths of its parts matter: print() is one part, println() adds the    *)
(* end of the line, a negative number the sign before it.                  *)
(***************************************************************************)
EXTENDS Integers, Sequences

CONSTANTS
    MaxSent,    \* bound: bytes the other side sends
    MaxTaken,   \* bound: calls of read() that returned a byte
    Prints      \* part lengths of what the sketch prints

VARIABLES
    kind,       \* "stdio" or "pty"
    begun,      \* begin() succeeded and end() was not called
    wire,       \* bytes in the descriptor's input queue
    hungUp,     \* the other side is gone
    bufch,      \* the byte peek() holds, Empty for -1
    sent,       \* bytes sent so far
    taken,      \* what read() has returned
    dropped,    \* bytes thrown away by begin(), end() and tcflush()
    told,       \* available() has just returned 1
    job,        \* the print in progress: its parts still to do, its count
    out         \* for the print in progress, or the last: which byte of
                \* which part was written

vars == <<kind, begun, wire, hungUp, bufch, sent, taken, dropped, told, job, out>>
input == <<kind, begun, wire, hungUp, bufch, sent, taken, dropped, told>>
output == <<job, out>>

Empty == -1
Phantom == 0        \* what the zero-initialised global Serial holds before begin()
NoJob == [parts |-> <<>>, part |-> 0, at |-> 0, count |-> 0]

Open == kind = "stdio" \/ begun
Held == IF bufch > 0 THEN {bufch} ELSE {}
Queued == {wire[i] : i \in DOMAIN wire}

Init ==
    /\ kind \in {"stdio", "pty"} /\ begun = FALSE
    /\ wire = <<>> /\ hungUp = FALSE
    /\ bufch = IF kind = "stdio" THEN Phantom ELSE Empty
    /\ sent = 0 /\ taken = <<>> /\ dropped = {} /\ told = FALSE
    /\ job = NoJob /\ out = <<>>

Send ==
    /\ sent < MaxSent /\ ~hungUp
    /\ sent' = sent + 1 /\ wire' = Append(wire, sent + 1)
    /\ UNCHANGED <<kind, begun, hungUp, bufch, taken, dropped, told, output>>

HangUp ==
    /\ ~hungUp /\ hungUp' = TRUE
    /\ UNCHANGED <<kind, begun, wire, bufch, sent, taken, dropped, told, output>>

(* begin(): stdio forgets the byte it holds; a pty that opens is flushed;  *)
(* one that is open, or does not open, or refuses its settings is left as  *)
(* it was (no step).                                                       *)
Begin ==
    /\ kind = "pty" => ~begun /\ ~hungUp
    /\ begun' = TRUE /\ bufch' = Empty /\ told' = FALSE
    /\ wire' = IF kind = "pty" THEN <<>> ELSE wire
    /\ dropped' = dropped \cup Held \cup (IF kind = "pty" THEN Queued ELSE {})
    /\ UNCHANGED <<kind, hungUp, sent, taken, output>>

End ==
    /\ kind = "pty" /\ begun
    /\ begun' = FALSE /\ bufch' = Empty /\ told' = FALSE
    /\ dropped' = dropped \cup Held
    /\ UNCHANGED <<kind, wire, hungUp, sent, taken, output>>

(* peek(): what bufch holds then, and what is left in the queue.           *)
Fetched == IF Open /\ bufch = Empty /\ wire # <<>> THEN Head(wire) ELSE bufch
Left == IF Open /\ bufch = Empty /\ wire # <<>> THEN Tail(wire) ELSE wire

Peek ==
    /\ bufch' = Fetched /\ wire' = Left /\ told' = FALSE
    /\ UNCHANGED <<kind, begun, hungUp, sent, taken, dropped, output>>

\* Mutant: read() leaves the byte that peek() has fetched.
ReadKeeping ==
    /\ Len(taken) < MaxTaken
    /\ bufch' = Fetched /\ wire' = Left /\ told' = FALSE
    /\ taken' = IF Fetched = Empty THEN taken ELSE Append(taken, Fetched)
    /\ UNCHANGED <<kind, begun, hungUp, sent, dropped, output>>

Read ==
    /\ Len(taken) < MaxTaken
    /\ bufch' = Empty /\ wire' = Left /\ told' = FALSE
    /\ taken' = IF Fetched = Empty THEN taken ELSE Append(taken, Fetched)
    /\ UNCHANGED <<kind, begun, hungUp, sent, dropped, output>>

(* available(): stdio peeks; a pty asks select(), which also says yes when *)
(* the other side has hung up.                                             *)
Available ==
    /\ IF kind = "stdio" THEN bufch' = Fetched /\ wire' = Left ELSE UNCHANGED <<bufch, wire>>
    /\ told' = (Open /\ (Fetched # Empty \/ (kind = "pty" /\ hungUp)))
    /\ UNCHANGED <<kind, begun, hungUp, sent, taken, dropped, output>>

-----------------------------------------------------------------------------
PrintText(parts) ==
    /\ job = NoJob
    /\ job' = [parts |-> parts, part |-> 1, at |-> 1, count |-> 0] /\ out' = <<>>
    /\ UNCHANGED input

(* Print::write(): a byte the port does not take ends its part, and the    *)
(* next part begins all the same; the counts of the parts are added up.    *)
PrintByte ==
    /\ job # NoJob
    /\ \E ok \in (IF Open THEN BOOLEAN ELSE {FALSE}) :
        LET over == ~ok \/ job.at = job.parts[job.part]
        IN  /\ out' = IF ok THEN Append(out, <<job.part, job.at>>) ELSE out
            /\ job' = IF over /\ job.part = Len(job.parts) THEN NoJob
                      ELSE [job EXCEPT !.part = IF over THEN @ + 1 ELSE @,
                                       !.at = IF over THEN 1 ELSE @ + 1,
                                       !.count = IF ok THEN @ + 1 ELSE @]
    /\ UNCHANGED input

Next ==
    \/ Send \/ HangUp \/ Begin \/ End \/ Peek \/ Read \/ Available
    \/ \E p \in Prints : PrintText(p)
    \/ PrintByte

Spec == Init /\ [][Next]_vars

-----------------------------------------------------------------------------
Bytes(s) == {s[i] : i \in DOMAIN s} \ {Phantom}

(* Every byte of the other side is read once and in order, is held, is in  *)
(* the queue, or was thrown away by begin(), end() or tcflush(); nothing   *)
(* else is read, but for one NUL out of a Serial that never began.         *)
ReadInOrder ==
    /\ \A i, j \in DOMAIN taken : i < j => taken[i] < taken[j]
    /\ \A b \in Bytes(taken), c \in Held : b < c
    /\ \A b \in Bytes(taken) \cup Held, c \in Queued : b < c
    /\ 1..sent = Bytes(taken) \cup Held \cup Queued \cup dropped
    /\ dropped \cap (Bytes(taken) \cup Held \cup Queued) = {}
    /\ bufch = Phantom => ~begun /\ taken = <<>>

(* What was written of each part is a beginning of it, part after part, so *)
(* that a full count means the whole text.                                 *)
WrittenInOrder ==
    /\ \A i \in DOMAIN out : out[i][2] > 1 =>
          i > 1 /\ out[i - 1] = <<out[i][1], out[i][2] - 1>>
    /\ \A i, j \in DOMAIN out : i < j => out[i][1] <= out[j][1]
    /\ job # NoJob => job.count = Len(out)

(* read() right after available() said 1 returns a byte, while the other   *)
(* side of a pty has not hung up: then available() says 1 for ever.        *)
AvailableIsRead ==
    [][told /\ Read /\ (kind = "pty" => ~hungUp) => taken' # taken]_vars

(* The bytes of a port arrive and leave in order, none lost or doubled.    *)
SerialKept == [](ReadInOrder /\ WrittenInOrder) /\ AvailableIsRead
=============================================================================
