----------------------------- MODULE EepromEsp -----------------------------
(***************************************************************************)
(* The EEPROM of the ESP cores, libraries/EpoxyEepromEsp: a RAM copy of a  *)
(* file, read by begin() and written by commit() and end().  The process   *)
(* may die at any moment, also inside commit(), which truncates the file   *)
(* before it writes it, and starts again with what the file then holds.    *)
(***************************************************************************)
EXTENDS EepromEspConstants

VARIABLES
    core,       \* "esp8266" or "esp32", the core the sketch is built for
    file,       \* the data file
    data,       \* data_, size_ bytes of it; empty while closed
    dirty,      \* dirty_
    bypassed,   \* a byte was changed through operator[]'s reference
    saving,     \* progress of commit(): "no", "opened" or "written"
    closing     \* the commit() is end()'s

vars == <<core, file, data, dirty, bypassed, saving, closing>>

Size == Len(data)
Idle == saving = "no"

(* The size begin() really uses, 0 if it refuses.                          *)
Usable(size) ==
    IF core = "esp8266"
    THEN LET clamped == IF size > Sector THEN Sector ELSE size
         IN  ((clamped + Word - 1) \div Word) * Word
    ELSE IF size > MaxLength THEN 0 ELSE size

(* What open() reads: the file, then 0xFF where it is too short.           *)
Image(n) == [i \in 1..n |-> IF file # NoFile /\ i <= Len(file) THEN file[i] ELSE Blank]

Init ==
    /\ core \in {"esp8266", "esp32"}
    /\ file = NoFile /\ data = <<>> /\ dirty = FALSE /\ bypassed = FALSE
    /\ saving = "no" /\ closing = FALSE

(* begin(): the same size again changes nothing; another size reads the    *)
(* file again, whatever was not committed; a file that cannot be read      *)
(* keeps the previous contents (no step).                                  *)
Begin(size) ==
    /\ Idle /\ Usable(size) \notin {0, Size}
    /\ data' = Image(Usable(size))
    /\ dirty' = FALSE /\ bypassed' = FALSE
    /\ UNCHANGED <<core, file, saving, closing>>

Write(i, v) ==                  \* write(), and put() of one byte
    /\ Idle /\ i \in DOMAIN data /\ data[i] # v
    /\ data' = [data EXCEPT ![i] = v]
    /\ dirty' = TRUE
    /\ UNCHANGED <<core, file, bypassed, saving, closing>>

Put(bytes) ==                   \* put() of an object as long as the EEPROM
    /\ Idle /\ bytes # data
    /\ data' = bytes
    /\ dirty' = TRUE
    /\ UNCHANGED <<core, file, bypassed, saving, closing>>

IndexWrite(i, v) ==             \* EEPROM[i] = v
    /\ Idle /\ i \in DOMAIN data /\ data[i] # v
    /\ data' = [data EXCEPT ![i] = v]
    /\ bypassed' = TRUE
    /\ UNCHANGED <<core, file, dirty, saving, closing>>

-----------------------------------------------------------------------------
Close ==
    /\ data' = <<>> /\ dirty' = FALSE /\ bypassed' = FALSE
    /\ saving' = "no" /\ closing' = FALSE

(* commit(), alone or from end(): nothing to do, the file cannot be opened *)
(* (end() closes all the same), or it is opened, which empties it.         *)
Commit(ends) ==
    /\ Idle
    /\ \/ ends /\ Close /\ UNCHANGED <<core, file>>
       \/ /\ dirty /\ Size > 0
          /\ file' = <<>>
          /\ saving' = "opened" /\ closing' = ends
          /\ UNCHANGED <<core, data, dirty, bypassed>>

(* fwrite() and fclose(): what reaches the file is all of it or, when one  *)
(* of them fails, a part.                                                  *)
CommitWrite ==
    /\ saving = "opened"
    /\ \E n \in 0..Size : file' = SubSeq(data, 1, n)
    /\ saving' = "written"
    /\ UNCHANGED <<core, data, dirty, bypassed, closing>>

\* Mutant: the buffer is clean, whether or not it could be saved.
CommitDoneBlind ==
    /\ saving = "written"
    /\ IF closing THEN Close
       ELSE /\ dirty' = FALSE /\ bypassed' = FALSE
            /\ saving' = "no"
            /\ UNCHANGED <<data, closing>>
    /\ UNCHANGED <<core, file>>

CommitDone ==
    /\ saving = "written"
    /\ LET saved == Len(file) = Size
       IN  IF closing THEN Close
           ELSE /\ dirty' = (dirty /\ ~saved)
                /\ bypassed' = (bypassed /\ ~saved)
                /\ saving' = "no"
                /\ UNCHANGED <<data, closing>>
    /\ UNCHANGED <<core, file>>

Crash == Close /\ UNCHANGED <<core, file>> /\ (data # <<>> \/ ~Idle)

Next ==
    \/ \E s \in Sizes : Begin(s)
    \/ \E v \in Values : \E i \in DOMAIN data : Write(i, v) \/ IndexWrite(i, v)
    \/ \E bytes \in [DOMAIN data -> Values] : Put(bytes)
    \/ \E ends \in BOOLEAN : Commit(ends)
    \/ CommitWrite \/ CommitDone \/ Crash

Spec == Init /\ [][Next]_vars

-----------------------------------------------------------------------------
(* What is not marked dirty is on disk: with no commit() at work, a begun  *)
(* EEPROM that is not dirty holds what a restart would read, in spite of   *)
(* failed commits, deaths inside them, shorter and longer files.  Only     *)
(* writes through operator[] escape the mark.                              *)
CleanIsOnDisk ==
    Idle /\ Size > 0 /\ ~dirty /\ ~bypassed => data = Image(Size)
=============================================================================
