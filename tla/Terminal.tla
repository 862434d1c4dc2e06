------------------------------ MODULE Terminal ------------------------------
(***************************************************************************)
(* What a program does to the terminal it is started from (cores/epoxy/    *)
(* main.cpp): enableRawMode() before setup(), and disableRawMode() through *)
(* atexit().  The terminal's settings, and the status flags of the open    *)
(* file behind stdin, belong to the shell as well: they outlive the        *)
(* program.  Every call on them may fail, and a signal may end the program *)
(* anywhere, without atexit(): Ctrl-C stays enabled and nothing traps it.  *)
(***************************************************************************)
EXTENDS Integers

VARIABLES
    tty,       \* isatty() of stdin and stdout
    term,      \* the settings: echo, and canon (line by line)
    flags,     \* O_NONBLOCK of stdin
    before,    \* [term, flags] as the program found them
    origTermios, origFlags,        \* what it saved: orig_termios, orig_stdin_flags
    inRawMode, inNonBlockingMode,
    pc,        \* where it is: the call it makes next
    lost,      \* a call that restores failed
    echoed     \* enableTerminalEcho() turned on the echo of a terminal

vars == <<tty, term, flags, before, origTermios, origFlags, inRawMode, inNonBlockingMode,
          pc, lost, echoed>>
saved == <<origTermios, origFlags>>

Settings == [echo : BOOLEAN, canon : BOOLEAN]
Raw(t) == [t EXCEPT !.echo = FALSE, !.canon = FALSE]

Init ==
    /\ tty \in [{"in", "out"} -> BOOLEAN]
    /\ term \in Settings /\ flags \in BOOLEAN
    /\ before = [term |-> term, flags |-> flags]
    /\ origTermios = [echo |-> FALSE, canon |-> FALSE] /\ origFlags = FALSE
    /\ inRawMode = FALSE /\ inNonBlockingMode = FALSE
    /\ pc = "isatty" /\ lost = FALSE /\ echoed = FALSE

-----------------------------------------------------------------------------
(* enableRawMode(): raw only if both ends are a terminal; stdin never      *)
(* blocks, whatever it is.  die() is exit(1), which runs atexit().         *)
IsTty ==
    /\ pc = "isatty"
    /\ pc' = IF tty["in"] /\ tty["out"] THEN "save" ELSE "flags"
    /\ UNCHANGED <<tty, term, flags, before, saved, inRawMode, inNonBlockingMode, lost, echoed>>

SaveTerm ==
    /\ pc = "save"
    /\ \/ pc' = "raw" /\ origTermios' = term
       \/ pc' = "exit" /\ UNCHANGED origTermios
    /\ UNCHANGED <<tty, term, flags, before, origFlags, inRawMode, inNonBlockingMode, lost, echoed>>

\* Mutant: nothing notes that the terminal is raw.
SetRawUnmarked ==
    /\ pc = "raw"
    /\ \/ pc' = "flags" /\ term' = Raw(origTermios) /\ inRawMode' = FALSE
       \/ pc' = "exit" /\ UNCHANGED <<term, inRawMode>>
    /\ UNCHANGED <<tty, flags, before, saved, inNonBlockingMode, lost, echoed>>

SetRaw ==
    /\ pc = "raw"
    /\ \/ pc' = "flags" /\ term' = Raw(origTermios) /\ inRawMode' = TRUE
       \/ pc' = "exit" /\ UNCHANGED <<term, inRawMode>>
    /\ UNCHANGED <<tty, flags, before, saved, inNonBlockingMode, lost, echoed>>

(* Stdin that is not open fails here, so that the program never starts.    *)
SetNonBlocking ==
    /\ pc = "flags"
    /\ origFlags' = flags
    /\ \/ pc' = "run" /\ flags' = TRUE /\ inNonBlockingMode' = TRUE
       \/ pc' = "exit" /\ UNCHANGED <<flags, inNonBlockingMode>>
    /\ UNCHANGED <<tty, term, before, origTermios, inRawMode, lost, echoed>>

-----------------------------------------------------------------------------
(* setup() and loop(): the sketch may turn the echo on, and exit().        *)
EnableTerminalEcho ==
    /\ pc = "run" /\ tty["in"]
    /\ term' = [term EXCEPT !.echo = TRUE] /\ echoed' = TRUE
    /\ UNCHANGED <<tty, flags, before, saved, inRawMode, inNonBlockingMode, pc, lost>>

Exit ==
    /\ pc = "run" /\ pc' = "exit"
    /\ UNCHANGED <<tty, term, flags, before, saved, inRawMode, inNonBlockingMode, lost, echoed>>

(* disableRawMode(): each part is undone if it was done, the second even   *)
(* if the first fails.                                                     *)
RestoreTerm ==
    /\ pc = "exit" /\ pc' = "exitFlags"
    /\ \/ ~inRawMode /\ UNCHANGED <<term, inRawMode, lost>>
       \/ inRawMode /\ term' = origTermios /\ UNCHANGED <<inRawMode, lost>>
       \/ inRawMode /\ inRawMode' = FALSE /\ lost' = TRUE /\ UNCHANGED term
    /\ UNCHANGED <<tty, flags, before, saved, inNonBlockingMode, echoed>>

RestoreFlags ==
    /\ pc = "exitFlags" /\ pc' = "exited"
    /\ \/ ~inNonBlockingMode /\ UNCHANGED <<flags, inNonBlockingMode, lost>>
       \/ inNonBlockingMode /\ flags' = origFlags /\ UNCHANGED <<inNonBlockingMode, lost>>
       \/ inNonBlockingMode /\ inNonBlockingMode' = FALSE /\ lost' = TRUE /\ UNCHANGED flags
    /\ UNCHANGED <<tty, term, before, saved, inRawMode, echoed>>

Signal ==
    /\ pc \notin {"exited", "killed"} /\ pc' = "killed"
    /\ UNCHANGED <<tty, term, flags, before, saved, inRawMode, inNonBlockingMode, lost, echoed>>

Next ==
    \/ IsTty \/ SaveTerm \/ SetRaw \/ SetNonBlocking
    \/ EnableTerminalEcho \/ Exit \/ RestoreTerm \/ RestoreFlags \/ Signal

Spec == Init /\ [][Next]_vars

-----------------------------------------------------------------------------
(* A program that exits, if only because it could not start, leaves        *)
(* terminal and stdin as it found them, unless a call to restore them      *)
(* fails; but an echo it turned on without having entered raw mode stays.  *)
(* While it runs stdin does not block, and a terminal is raw but for the   *)
(* echo, unless its output goes elsewhere.                                 *)
TerminalKept ==
    /\ pc = "exited" /\ ~lost =>
         /\ flags = before.flags
         /\ \/ term = before.term
            \/ /\ echoed /\ ~tty["out"]
               /\ term = [before.term EXCEPT !.echo = TRUE]
    /\ pc = "run" =>
         /\ flags
         /\ IF tty["in"] /\ tty["out"] THEN ~term.canon /\ (term.echo => echoed)
            ELSE term.canon = before.term.canon
=============================================================================
