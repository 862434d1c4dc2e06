----------------------------- MODULE EepromAvr -----------------------------
(***************************************************************************)
(* The EEPROM of the AVR core, libraries/EpoxyEepromAvr: the constructor   *)
(* opens a file and makes it as long as the EEPROM; every byte read or     *)
(* written is one pread() or pwrite() on it, whose errors are ignored.     *)
(* An EERef is an index and the descriptor: its compound assignments and   *)
(* increments move the index.  put() writes byte by byte, and the process  *)
(* may die between two of them.                                            *)
(***************************************************************************)
EXTENDS Integers, Sequences

CONSTANTS Values, Zero,  \* values of a byte; Zero is what ftruncate() adds
          Length         \* kEpoxyEepromSize, scaled down from 1024

VARIABLES
    file,     \* the data file
    fd,       \* "closed", "open" or "bad" (fd = -1)
    ref,      \* an EERef the sketch keeps: its index, from 0
    putting,  \* bytes put() still has to write, at ref
    shadow    \* the last value written to each cell without an error

vars == <<file, fd, ref, putting, shadow>>

Cells == 0..Length - 1
Advance(i) == IF i < Length THEN i + 1 ELSE i           \* ++ of an EEPtr, to end()
Read(i) == IF fd = "open" /\ i \in Cells THEN file[i + 1] ELSE Zero

Init ==
    /\ \E n \in 0..Length + 1 : file \in [1..n -> Values]
    /\ shadow = [i \in Cells |-> IF i < Len(file) THEN file[i + 1] ELSE Zero]
    /\ fd = "closed" /\ ref = 0 /\ putting = <<>>

Construct ==
    /\ fd = "closed"
    /\ \/ fd' = "bad" /\ UNCHANGED file
       \/ /\ fd' = "open"
          /\ file' = [i \in 1..Length |-> IF i <= Len(file) THEN file[i] ELSE Zero]
    /\ UNCHANGED <<ref, putting, shadow>>

(* operator=, write(): a pwrite() that may fail, and always does without a *)
(* descriptor.                                                             *)
Store(i, v) ==
    \/ UNCHANGED <<file, shadow>>
    \/ /\ fd = "open" /\ i \in Cells
       /\ file' = [file EXCEPT ![i + 1] = v]
       /\ shadow' = [shadow EXCEPT ![i] = v]

Assign(v) ==
    /\ fd # "closed" /\ putting = <<>>
    /\ Store(ref, v)
    /\ UNCHANGED <<fd, ref, putting>>

(* update(): no write when the cell reads as the value; a pread() that     *)
(* fails reads as zero.                                                    *)
Update(i, v) ==
    \E c \in {Read(i), Zero} :
        IF c = v THEN UNCHANGED <<file, shadow>> ELSE Store(i, v)

(* ++, --, += and the like, and EEPtr's: the index moves, no cell changes. *)
Move(i) ==
    /\ fd # "closed" /\ putting = <<>>
    /\ ref' = i
    /\ UNCHANGED <<file, fd, putting, shadow>>

PutBegin(bytes) ==
    /\ fd # "closed" /\ putting = <<>>
    /\ putting' = bytes
    /\ UNCHANGED <<file, fd, ref, shadow>>

PutByte ==
    /\ putting # <<>>
    /\ Update(ref, Head(putting))
    /\ ref' = Advance(ref)
    /\ putting' = Tail(putting)
    /\ UNCHANGED fd

Get(i, n) == [k \in 1..n |-> Read(i + k - 1)]

Exit ==                 \* the destructor, or the death of the process
    /\ fd # "closed"
    /\ fd' = "closed" /\ ref' = 0 /\ putting' = <<>>
    /\ UNCHANGED <<file, shadow>>

Next ==
    \/ Construct \/ PutByte \/ Exit
    \/ \E v \in Values : Assign(v)
    \/ \E i \in 0..Length : Move(i)
    \/ \E bytes \in [1..2 -> Values] : PutBegin(bytes)

Spec == Init /\ [][Next]_vars

-----------------------------------------------------------------------------
(* Each cell keeps the last value written to it, over the end or the death *)
(* of the process and the next constructor; a cell never written keeps     *)
(* what the file held; and get() reads those values, up to the last cell.  *)
CellsPersist ==
    fd = "open" => \A i \in Cells, n \in 1..Length :
        i + n <= Length => Get(i, n) = [k \in 1..n |-> shadow[i + k - 1]]
=============================================================================
