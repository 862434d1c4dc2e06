------------------------------ MODULE Directory ------------------------------
(***************************************************************************)
(* The directory side of libraries/EpoxyFS (FS.cpp, EpoxyFS.h): begin(),   *)
(* mkdir(), rmdir(), remove(), info(), and the walks over the root that a  *)
(* Dir makes and that a File on the directory hides (_fakeDir).  A File is *)
(* copied with its walk, so that two copies may share one; which do        *)
(* depends on whether the walk had begun.  FileSystem has the rest.        *)
(*                                                                         *)
(* The C library is external: readdir() gives every entry that stays where *)
(* it is once, and one that comes or goes meanwhile perhaps.  "." stands   *)
(* for "." and "..".                                                       *)
(***************************************************************************)
EXTENDS Integers, FiniteSets

CONSTANTS
    Names,     \* entries of the root
    Files,     \* the sketch's Files on the root
    Walks,     \* EpoxyDirImpls
    None,      \* no such thing
    MaxSize    \* bound: length of a file

VARIABLES
    root,      \* what EPOXY_FS_ROOT names: "absent", "file" or "dir"
    mounted,   \* begin() has set fsroot_ and found a directory
    entry,     \* entry of the root: its kind and size, or None
    fake,      \* _fakeDir of each File
    walk,      \* the EpoxyDirImpls
    answer,    \* what an openNextFile() or info() just returned, or None
    steady     \* per walk: entries there since it began or was rewound

vars == <<root, mounted, entry, fake, walk, answer, steady>>

Dots == "."
File(size) == [kind |-> "file", size |-> size]
Folder == [kind |-> "dir", size |-> 0]
\* What a walk has left to come, and what has come.
WalkRecords == [left : SUBSET (Names \cup {Dots}), seen : SUBSET Names]
Present == {n \in Names : entry[n] # None}

Init ==
    /\ root \in {"absent", "file", "dir"} /\ mounted = FALSE
    /\ entry \in [Names -> {None} \cup (IF root = "dir" THEN {File(1)} ELSE {})]
    /\ fake = [f \in Files |-> None]
    /\ walk = [w \in Walks |-> None] /\ steady = [w \in Walks |-> {}]
    /\ answer = None

(* begin(): the root is made if nothing has its name.                      *)
Begin ==
    /\ \/ root' = IF root = "absent" THEN "dir" ELSE root
       \/ root = "absent" /\ root' = root
    /\ mounted' = (root' = "dir")
    /\ answer' = None
    /\ UNCHANGED <<entry, fake, walk, steady>>

(* An entry comes or goes; walks that have begun may see it or not.        *)
Come(n, e) ==
    /\ entry[n] = None /\ mounted
    /\ entry' = [entry EXCEPT ![n] = e]
    /\ walk' = [w \in Walks |-> IF walk[w] = None THEN None
                                ELSE [walk[w] EXCEPT !.left = @ \cup {n}]]
    /\ answer' = None
    /\ UNCHANGED <<root, mounted, fake, steady>>
Go(n) ==
    /\ entry[n] # None
    /\ entry' = [entry EXCEPT ![n] = None]
    /\ steady' = [w \in Walks |-> steady[w] \ {n}]
    /\ answer' = None
    /\ UNCHANGED <<root, mounted, fake, walk>>

Mkdir(n) == Come(n, Folder)
CreateFile(n) == \E size \in 0..MaxSize : Come(n, File(size))
Rmdir(n) == mounted /\ entry[n] = Folder /\ Go(n)
Remove(n) == mounted /\ Go(n)                       \* remove(3) takes either kind

(* exists(): lstat() finds it; info(): the lengths of the files, the       *)
(* directories not counted.                                                *)
Exists(n) == entry[n] # None
Total == LET Sum[S \in SUBSET Names] ==
               IF S = {} THEN 0 ELSE LET n == CHOOSE m \in S : TRUE
                                     IN  entry[n].size + Sum[S \ {n}]
         IN  Sum[{n \in Present : entry[n].kind = "file"}]
Info ==
    /\ mounted /\ answer' = [used |-> Total]
    /\ UNCHANGED <<root, mounted, entry, fake, walk, steady>>

-----------------------------------------------------------------------------
Unused == {w \in Walks : walk[w] = None}
Allocated(w) == w \in Unused /\ \A v \in Unused : w <= v

(* openDir(), rewind(): everything is to come, the dots too.               *)
Fresh == [left |-> Present \cup {Dots}, seen |-> {}]

RewindDirectory(f) ==
    /\ mounted
    /\ \E w \in Walks :
        /\ IF fake[f] = None THEN Allocated(w) ELSE w = fake[f]
        /\ walk' = [walk EXCEPT ![w] = Fresh] /\ steady' = [steady EXCEPT ![w] = Present]
        /\ fake' = [fake EXCEPT ![f] = w]
    /\ answer' = None
    /\ UNCHANGED <<root, mounted, entry>>

(* Dir::next() and openFile("r"): the dots are passed over; the entry may  *)
(* be gone when it is opened, and then the File is null as at the end.     *)
Step(f, w, was, stays) ==
    \/ \E n \in was.left \ {Dots}, dots \in {{}, {Dots}} :
        /\ walk' = [walk EXCEPT ![w] = [left |-> (was.left \ {n}) \ dots,
                                        seen |-> was.seen \cup {n}]]
        /\ answer' = [file |-> f, at |-> n, opened |-> entry[n] # None]
    \/ /\ was.left \cap stays = {}                   \* readdir() has no more
       /\ walk' = [walk EXCEPT ![w] = [was EXCEPT !.left = {}]]
       /\ answer' = [file |-> f, at |-> None, opened |-> FALSE]

OpenNextFile(f) ==
    /\ mounted
    /\ \E w \in Walks :
        IF fake[f] = None
        THEN /\ Allocated(w)
             /\ fake' = [fake EXCEPT ![f] = w]
             /\ steady' = [steady EXCEPT ![w] = Present]
             /\ Step(f, w, Fresh, Present)
        ELSE w = fake[f] /\ Step(f, w, walk[w], steady[w]) /\ UNCHANGED <<fake, steady>>
    /\ UNCHANGED <<root, mounted, entry>>

(* A File is assigned another one, or opened again; the last that uses a   *)
(* walk frees it.                                                          *)
Keep(fakes) ==
    LET kept == {fakes[f] : f \in Files}
    IN  /\ fake' = fakes
        /\ walk' = [w \in Walks |-> IF w \in kept THEN walk[w] ELSE None]
        /\ steady' = [w \in Walks |-> IF w \in kept THEN steady[w] ELSE {}]
Copy(f, g) ==
    /\ f # g /\ Keep([fake EXCEPT ![g] = fake[f]])
    /\ answer' = None
    /\ UNCHANGED <<root, mounted, entry>>
Reopen(f) ==
    /\ fake[f] # None /\ Keep([fake EXCEPT ![f] = None])
    /\ answer' = None
    /\ UNCHANGED <<root, mounted, entry>>

Next ==
    \/ Begin \/ Info
    \/ \E n \in Names : Mkdir(n) \/ CreateFile(n) \/ Rmdir(n) \/ Remove(n)
    \/ \E f \in Files : RewindDirectory(f) \/ OpenNextFile(f) \/ Reopen(f)
    \/ \E f, g \in Files : Copy(f, g)

Spec == Init /\ [][Next]_vars

-----------------------------------------------------------------------------
(* A loop of openNextFile() ends only after every entry that was there all *)
(* the time has come by, and none comes twice, whatever is made or removed *)
(* meanwhile: for one File, or for the copies that share its walk.  The    *)
(* dots never come, and an entry that does is a null File only if it is    *)
(* gone.                                                                   *)
WalkComplete ==
    [][\A f \in Files : OpenNextFile(f) =>
        LET w == fake'[f]
            n == answer'.at
        IN  /\ n = None => steady'[w] \subseteq walk'[w].seen
            /\ n # None =>
                 /\ n \in Names
                 /\ answer'.opened = Exists(n)
                 /\ fake[f] = None \/ n \notin steady[w] \cap walk[w].seen]_vars
=============================================================================
