----------------------------- MODULE FileSystem -----------------------------
(***************************************************************************)
(* libraries/EpoxyFS: File, Dir and FS (FS.cpp) over their implementation  *)
(* on a directory of the host (EpoxyFS.h, EpoxyFS.cpp).  A File is a       *)
(* shared pointer: copies of it use one stream, and closing one copy       *)
(* leaves the others pointing at an implementation whose FILE* is null.    *)
(* Paths are those of one flat directory.                                  *)
(*                                                                         *)
(* The C library is external: a stream writes through a buffer, which      *)
(* reaches the host file when it is flushed, at the stream's position or,  *)
(* in a mode "a", at the end.  Of the bytes only their number matters.     *)
(***************************************************************************)
EXTENDS Integers, Sequences, FiniteSets

CONSTANTS
    Paths, Inodes, Impls, Files,  \* names, host files, FileImpls, Files
    Modes,                        \* mode strings the sketch uses
    None,                         \* no such thing
    MaxSize                       \* bound: length of a file

VARIABLES
    dir,      \* the directory: path -> inode
    disk,     \* length of each inode
    impl,     \* the EpoxyFileImpls
    file,     \* the sketch's Files: File::_p
    explained,\* Files whose stream is gone although they test true: a copy
              \* was closed, or truncate() failed
    crashed   \* a null FILE* was used, which kills the program

vars == <<dir, disk, impl, file, explained, crashed>>

(* sflags() and rsflags(): a mode string to two flag words and back.       *)
Sflags(mode) ==
    [create   |-> Head(mode) # "r",
     append   |-> Head(mode) = "a",
     truncate |-> Head(mode) = "w",
     access   |-> IF Len(mode) = 2 THEN "rw" ELSE IF Head(mode) = "r" THEN "read" ELSE "write"]
Rsflags(om) ==
    CASE om.access = "read"  -> <<"r">>
      [] om.access = "write" -> IF om.truncate THEN <<"w">> ELSE <<"a">>
      [] om.access = "rw"    -> IF ~om.create /\ ~om.append /\ ~om.truncate THEN <<"r", "+">>
                                ELSE IF om.truncate THEN <<"w", "+">> ELSE <<"a", "+">>

\* The streams of the C library; a mode string is 1 or 2 characters.
ModeStrings == {<<c>> : c \in {"r", "w", "a"}} \cup {<<c, "+">> : c \in {"r", "w", "a"}}
Streams == [path : Paths, mode : ModeStrings, inode : Inodes, open : BOOLEAN,
            pos : Nat, buf : Nat, size : Nat]

CanRead(m) == m[1] = "r" \/ Len(m) = 2
CanWrite(m) == m[1] # "r" \/ Len(m) = 2

(* The disk after stream s wrote out its buffer, and its offset then.      *)
Offset(s) == IF s.mode[1] = "a" THEN disk[s.inode] ELSE s.pos
Position(s) == IF s.buf = 0 THEN s.pos ELSE Offset(s) + s.buf
Larger(a, b) == IF a > b THEN a ELSE b
Flushed(s) == [disk EXCEPT ![s.inode] = IF s.buf = 0 THEN @ ELSE Larger(@, Position(s))]

Used == {dir[p] : p \in Paths} \cup {impl[i].inode : i \in {j \in Impls : impl[j] # None}}
FreeInode == CHOOSE n \in Inodes : n \notin Used
Holders(i) == {f \in Files : file[f] = i}

Init ==
    /\ dir = [p \in Paths |-> None]
    /\ disk = [n \in Inodes |-> 0]
    /\ impl = [i \in Impls |-> None]
    /\ file = [f \in Files |-> None]
    /\ explained = {} /\ crashed = FALSE

-----------------------------------------------------------------------------
(* fopen() of a path in a mode: the inode it yields, or None, and what it  *)
(* does to the disk.                                                       *)
Opened(path, m) ==
    IF dir[path] # None THEN dir[path]
    ELSE IF m[1] = "r" \/ Inodes \subseteq Used THEN None ELSE FreeInode
Stream(path, m, inode, contents) ==
    [path |-> path, mode |-> m, inode |-> inode, open |-> TRUE, pos |-> 0,
     buf |-> 0, size |-> contents[inode]]

(* FS::open(); Dir::openFile() and File::openNextFile() with mode "r" on   *)
(* the entry they are at.  The File is null if fopen() fails (no step).    *)
Open(f, path, mode) ==
    /\ file[f] = None
    /\ LET m == Rsflags(Sflags(mode))
           n == Opened(path, m)
           empty == n # None /\ (m[1] = "w" \/ dir[path] = None)
           disk1 == IF empty THEN [disk EXCEPT ![n] = 0] ELSE disk
       IN  /\ n # None
           /\ \E i \in Impls :
                /\ impl[i] = None
                /\ \A j \in Impls : impl[j] = None => j >= i
                /\ impl' = [impl EXCEPT ![i] = Stream(path, m, n, disk1)]
                /\ file' = [file EXCEPT ![f] = i]
           /\ dir' = [dir EXCEPT ![path] = n]
           /\ disk' = disk1
    /\ UNCHANGED <<explained, crashed>>

Copy(f, g) ==                                        \* File g = f
    /\ file[f] # None /\ file[g] = None
    /\ file' = [file EXCEPT ![g] = file[f]]
    /\ explained' = IF f \in explained THEN explained \cup {g} ELSE explained
    /\ UNCHANGED <<dir, disk, impl, crashed>>

(* A stream operation through a File: Use(f, A) is A where the stream is   *)
(* there, and the end of the program where it is not.                      *)
Closed(f) == ~impl[file[f]].open
UseNull(f) ==
    /\ file[f] # None /\ Closed(f)
    /\ crashed' = TRUE
    /\ UNCHANGED <<dir, disk, impl, file, explained>>

Write(f) ==
    /\ file[f] # None /\ ~Closed(f)
    /\ LET s == impl[file[f]]
       IN  /\ CanWrite(s.mode) /\ Offset(s) + s.buf < MaxSize
           /\ impl' = [impl EXCEPT ![file[f]].buf = @ + 1]
    /\ UNCHANGED <<dir, disk, file, explained, crashed>>

(* flush(); seek() flushes too and reports success whatever happens.       *)
Seek(f, pos) ==
    /\ file[f] # None /\ ~Closed(f)
    /\ LET i == file[f]
       IN  /\ disk' = Flushed(impl[i])
           /\ impl' = [impl EXCEPT ![i].buf = 0, ![i].pos = pos]
    /\ UNCHANGED <<dir, file, explained, crashed>>

Flush(f) == file[f] # None /\ Seek(f, Position(impl[file[f]]))

(* read(): past no unflushed write (the C library asks for a seek between).*)
Read(f) ==
    /\ file[f] # None /\ ~Closed(f)
    /\ LET s == impl[file[f]]
       IN  /\ CanRead(s.mode) /\ s.buf = 0 /\ s.pos < disk[s.inode]
           /\ impl' = [impl EXCEPT ![file[f]].pos = @ + 1]
    /\ UNCHANGED <<dir, disk, file, explained, crashed>>

(* File::close(): the stream is closed for every copy, only this copy      *)
(* forgets it; the last copy's destructor frees the implementation.        *)
Close(f) ==
    /\ file[f] # None
    /\ LET i == file[f]
       IN  /\ disk' = IF impl[i].open THEN Flushed(impl[i]) ELSE disk
           /\ impl' = [impl EXCEPT ![i] =
                IF Holders(i) = {f} THEN None ELSE [@ EXCEPT !.open = FALSE, !.buf = 0, !.pos = 0]]
           /\ explained' = (explained \cup Holders(i)) \ {f}
    /\ file' = [file EXCEPT ![f] = None]
    /\ UNCHANGED <<dir, crashed>>

\* Mutant: the size is not read again.
TruncateUnsized(f, n) ==
    /\ file[f] # None
    /\ LET i == file[f]
           s == impl[i]
           disk1 == IF s.open THEN Flushed(s) ELSE disk
           node == dir[s.path]
       IN  /\ node # None
           /\ disk' = [disk1 EXCEPT ![node] = n]
           /\ impl' = [impl EXCEPT ![i] =
                [Stream(s.path, s.mode, node, disk') EXCEPT !.size = s.size]]
           /\ explained' = explained \ Holders(i)
    /\ UNCHANGED <<dir, file, crashed>>

(* truncate(): close, truncate the path (not the stream: it may have been  *)
(* removed or renamed), and open it again in the same mode, so that "w"    *)
(* empties it.  When the path is gone the File is left without a stream.   *)
Truncate(f, n) ==
    /\ file[f] # None
    /\ LET i == file[f]
           s == impl[i]
           disk1 == IF s.open THEN Flushed(s) ELSE disk
           node == dir[s.path]
           size == IF s.mode[1] = "w" THEN 0 ELSE n
       IN  IF node = None
           THEN /\ disk' = disk1
                /\ impl' = [impl EXCEPT ![i].open = FALSE, ![i].buf = 0, ![i].pos = 0]
                /\ explained' = explained \cup Holders(i)
           ELSE /\ disk' = [disk1 EXCEPT ![node] = size]
                /\ impl' = [impl EXCEPT ![i] = Stream(s.path, s.mode, node, disk')]
                /\ explained' = explained \ Holders(i)
    /\ UNCHANGED <<dir, file, crashed>>

-----------------------------------------------------------------------------
Remove(path) ==
    /\ dir[path] # None
    /\ dir' = [dir EXCEPT ![path] = None]
    /\ UNCHANGED <<disk, impl, file, explained, crashed>>

Rename(from, to) ==
    /\ from # to /\ dir[from] # None
    /\ dir' = [dir EXCEPT ![to] = dir[from], ![from] = None]
    /\ UNCHANGED <<disk, impl, file, explained, crashed>>

Format ==                   \* every entry of the root goes, open or not
    /\ dir' = [p \in Paths |-> None]
    /\ dir' # dir
    /\ UNCHANGED <<disk, impl, file, explained, crashed>>

Next ==
    /\ ~crashed
    /\ \/ \E f \in Files :
            \/ \E p \in Paths, m \in Modes : Open(f, p, m)
            \/ \E g \in Files : Copy(f, g)
            \/ UseNull(f) \/ Write(f) \/ Flush(f) \/ Read(f) \/ Close(f)
            \/ \E n \in 0..1 : Seek(f, n) \/ Truncate(f, n)
       \/ \E p, q \in Paths : Rename(p, q)
       \/ \E p \in Paths : Remove(p)
       \/ Format

Spec == Init /\ [][Next]_vars

-----------------------------------------------------------------------------
(* A File that tests true has a stream, or another copy of it was closed   *)
(* or its truncate() failed: no other sequence of opens, closes, renames   *)
(* and removals makes an operation use a null FILE*.                       *)
OpenUnlessExplained ==
    \A f \in Files : file[f] # None /\ f \notin explained => ~Closed(f)

(* size() is read when the stream is opened: it is right, and available()  *)
(* counts to the end, for a File opened to read while nobody changes the   *)
(* file; truncate() reads it again.  So a step that leaves the bytes of a  *)
(* file alone never makes the size of a File on it wrong.                  *)
SizeStaleOnlyByWrites ==
    [][\A i \in Impls :
        impl'[i] # None /\ impl'[i].open =>
            LET s == impl'[i]
            IN  \/ s.size = disk'[s.inode]
                \/ impl[i] # None /\ impl[i].size = s.size /\ impl[i].open
                   /\ (impl[i].size # disk[s.inode] \/ disk'[s.inode] # disk[s.inode])]_vars
=============================================================================
