----------------------------- MODULE StorageProofs -----------------------------
(***************************************************************************)
(* What outlives the program is kept, for files, EEPROMs and updates of    *)
(* any size, whatever fails or dies between two steps.  Each part of       *)
(* MCStorage has a section of its own: its inductive invariant, the lemma  *)
(* that the part keeps it, and the theorem on the property of the run.     *)
(***************************************************************************)
EXTENDS MCStorage, TLAPS

(* A step of the composition is a step of one part, and a stutter of the   *)
(* others.                                                                 *)
LEMMA OtaPart == [StorageNext]_storageVars => [O!Next]_(O!vars)
BY DEF StorageNext, EspStep, AvrStep, OtaStep, FsStep, WalkStep, TerminalStep,
       storageVars, otaVars, O!vars

LEMMA TerminalPart == [StorageNext]_storageVars => [T!Next]_(T!vars)
BY DEF StorageNext, EspStep, AvrStep, OtaStep, FsStep, WalkStep, TerminalStep,
       storageVars, ttyVars, T!vars

-----------------------------------------------------------------------------
(* OTA updates.  While an update runs there is no end record; the begin    *)
(* record and the image are those of the update unless an operation on     *)
(* them failed, which is noted.                                            *)

\* The flags need no type.
OtaTypeOK ==
    /\ source \in Sources \cup {""}
    /\ written \in Nat /\ update \in Nat
    /\ starting \in {"", "record", "image"}
    /\ given \in Seq(Nat)
    /\ beginFile \in O!BeginRecords \cup {None}
    /\ imageFile \in O!Images \cup {None}

Counted == written = Len(given)
NoEndWhileRunning ==
    /\ running \/ ~sink => endFile = None
    /\ starting # "" => running /\ sink /\ given = <<>>

ImageOpen == image => starting = "" /\ imageFile # None /\ imageFile.update = update

(* Unless a failure is noted, the begin record is whole and of this update *)
(* once it is written, and the image is open and has all bytes given.      *)
FailureNoted ==
    running /\ sink /\ ~sinkFailed =>
        /\ starting # "record" =>
             beginFile # None /\ beginFile.update = update /\ beginFile.whole
        /\ starting = "" => image /\ imageFile.bytes = given

OtaInv ==
    /\ OtaTypeOK /\ Counted /\ NoEndWhileRunning /\ ImageOpen /\ FailureNoted
    /\ O!OkMeansRecorded

(* The image after a write().                                              *)
LEMMA ImageGrows ==
    ASSUME NEW old \in O!Images, NEW chunk \in Nat
    PROVE  LET new == [old EXCEPT !.bytes = Append(@, chunk)]
           IN  /\ new \in O!Images /\ new # None
               /\ new.update = old.update
               /\ new.bytes = Append(old.bytes, chunk)
<1> DEFINE new == [old EXCEPT !.bytes = Append(@, chunk)]
<1>1. old.bytes \in Seq(Nat)
  BY DEF O!Images
<1>2. Append(old.bytes, chunk) \in Seq(Nat)
  BY <1>1
<1>3. new \in O!Images /\ new.update = old.update /\ new.bytes = Append(old.bytes, chunk)
  BY <1>2 DEF O!Images
<1> QED
  BY <1>3, NoneAssumption

LEMMA OtaTypeKept == OtaInv /\ [O!Next]_(O!vars) => OtaTypeOK'
<1> SUFFICES ASSUME OtaInv, [O!Next]_(O!vars)
             PROVE  OtaTypeOK'
  OBVIOUS
<1>0. OtaTypeOK
  BY DEF OtaInv
<1>a. <<>> \in Seq(Nat) /\ 0 \in Nat
  OBVIOUS
<1>b. update + 1 \in Nat /\ written + 1 \in Nat
  <2>1. update \in Nat /\ written \in Nat
    BY <1>0, Zenon DEF OtaTypeOK
  <2> QED
    BY <2>1
<1> USE DEF O!files
<1>1. ASSUME NEW url \in Sources, O!SetSource(url)
      PROVE  OtaTypeOK'
  BY <1>0, <1>1 DEF O!SetSource, OtaTypeOK
<1>2. CASE O!Begin
  BY <1>0, <1>a, <1>b, <1>2 DEF O!Begin, OtaTypeOK
<1>3. CASE O!BeginRecord
  <2>1. PICK whole \in BOOLEAN :
             beginFile' \in {[update |-> update, source |-> source, whole |-> whole], beginFile}
    BY <1>3 DEF O!BeginRecord
  <2>2. [update |-> update, source |-> source, whole |-> whole] \in O!BeginRecords
    BY <1>0 DEF O!BeginRecords, OtaTypeOK
  <2>3. beginFile' \in O!BeginRecords \cup {None}
    BY <1>0, <2>1, <2>2 DEF OtaTypeOK
  <2> QED
    BY <1>0, <1>3, <2>3 DEF O!BeginRecord, OtaTypeOK
<1>4. CASE O!BeginImage
  <2>1. imageFile' \in {imageFile, [update |-> update, bytes |-> <<>>]}
    BY <1>4 DEF O!BeginImage
  <2>2. [update |-> update, bytes |-> <<>>] \in O!Images
    BY <1>0, <1>a DEF O!Images, OtaTypeOK
  <2> QED
    BY <1>0, <1>4, <2>1, <2>2 DEF O!BeginImage, OtaTypeOK
<1>5. ASSUME NEW chunk \in 1..MaxChunks, O!Write(chunk)
      PROVE  OtaTypeOK'
  <2>0. chunk \in Nat
    BY SizeAssumption
  <2>1. given' \in Seq(Nat)
    <3>1. given' = Append(given, chunk) /\ given \in Seq(Nat)
      BY <1>0, <1>5 DEF O!Write, OtaTypeOK
    <3> QED
      BY <2>0, <3>1
  <2>2. imageFile' \in O!Images \cup {None}
    <3>1. CASE imageFile' = [imageFile EXCEPT !.bytes = Append(@, chunk)] /\ image
      <4>1. imageFile \in O!Images
        BY <1>0, <3>1 DEF OtaInv, ImageOpen, OtaTypeOK
      <4> QED
        BY <2>0, <3>1, <4>1, ImageGrows
    <3>2. CASE imageFile' = imageFile
      BY <1>0, <3>2 DEF OtaTypeOK
    <3> QED
      BY <1>5, <3>1, <3>2 DEF O!Write
  <2> QED
    BY <1>0, <1>b, <1>5, <2>1, <2>2 DEF O!Write, OtaTypeOK
<1>6. ASSUME NEW ok \in BOOLEAN, O!Finish(ok)
      PROVE  OtaTypeOK'
  BY <1>0, <1>6 DEF O!Finish, OtaTypeOK
<1>7. CASE O!Crash
  BY <1>0, <1>a, <1>7 DEF O!Crash, OtaTypeOK
<1>8. CASE UNCHANGED O!vars
  BY <1>0, <1>8 DEF O!vars, OtaTypeOK
<1> QED
  BY <1>1, <1>2, <1>3, <1>4, <1>5, <1>6, <1>7, <1>8 DEF O!Next


LEMMA OtaFlagsKept ==
    OtaInv /\ [O!Next]_(O!vars) => Counted' /\ NoEndWhileRunning' /\ ImageOpen'
<1> SUFFICES ASSUME OtaInv, [O!Next]_(O!vars)
             PROVE  Counted' /\ NoEndWhileRunning' /\ ImageOpen'
  OBVIOUS
<1>0. OtaTypeOK /\ Counted /\ NoEndWhileRunning /\ ImageOpen
  BY DEF OtaInv
<1>1. Counted'
  <2>1. ASSUME NEW chunk \in 1..MaxChunks, O!Write(chunk)
        PROVE  Counted'
    <3>1. given' = Append(given, chunk) /\ written' = written + 1
      BY <2>1 DEF O!Write
    <3>2. given \in Seq(Nat) /\ written = Len(given)
      BY <1>0, Zenon DEF Counted, OtaTypeOK
    <3>3. chunk \in Nat
      BY SizeAssumption
    <3> QED
      BY <3>1, <3>2, <3>3 DEF Counted
  <2>2. CASE given' = <<>> /\ written' = 0
    BY <2>2 DEF Counted
  <2>3. CASE UNCHANGED <<given, written>>
    BY <1>0, <2>3 DEF Counted
  <2> QED
    BY <2>1, <2>2, <2>3, Zenon DEF O!Next, O!SetSource, O!Begin, O!BeginRecord, O!BeginImage,
       O!Finish, O!Crash, O!vars
<1>2. NoEndWhileRunning'
  <2> USE <1>0 DEF NoEndWhileRunning, O!files
  <2>1. CASE O!Begin
    BY <2>1 DEF O!Begin
  <2>2. CASE O!BeginRecord \/ O!BeginImage
    BY <2>2 DEF O!BeginRecord, O!BeginImage
  <2>3. ASSUME NEW chunk \in 1..MaxChunks, O!Write(chunk)
        PROVE  NoEndWhileRunning'
    BY <2>3 DEF O!Write
  <2>4. ASSUME NEW ok \in BOOLEAN, O!Finish(ok)
        PROVE  NoEndWhileRunning'
    BY <2>4 DEF O!Finish
  <2>5. CASE O!Crash
    BY <2>5 DEF O!Crash
  <2>6. CASE UNCHANGED <<running, sink, endFile, starting, given>>
    BY <2>6
  <2> QED
    BY <2>1, <2>2, <2>3, <2>4, <2>5, <2>6, Zenon DEF O!Next, O!SetSource, O!vars
<1>3. ImageOpen'
  <2>1. CASE O!BeginImage
    <3>0. <<>> \in Seq(Nat)
      OBVIOUS
    <3>1. update \in Nat
      BY <1>0, Zenon DEF OtaTypeOK
    <3>2. [update |-> update, bytes |-> <<>>] # None
      <4>1. [update |-> update, bytes |-> <<>>] \in O!Images
        BY <3>0, <3>1 DEF O!Images
      <4> QED
        BY <4>1, NoneAssumption
    <3>3. CASE UNCHANGED <<image, imageFile>>
      BY <1>0, <2>1, <3>3 DEF O!BeginImage, ImageOpen
    <3>4. CASE imageFile' = [update |-> update, bytes |-> <<>>]
      <4>1. imageFile'.update = update' /\ starting' = ""
        BY <2>1, <3>4 DEF O!BeginImage
      <4> QED
        BY <3>2, <3>4, <4>1 DEF ImageOpen
    <3> QED
      BY <2>1, <3>3, <3>4 DEF O!BeginImage
  <2>2. ASSUME NEW chunk \in 1..MaxChunks, O!Write(chunk)
        PROVE  ImageOpen'
    <3>1. CASE image
      <4>1. imageFile \in O!Images
        BY <1>0, <3>1 DEF ImageOpen, OtaTypeOK
      <4>2. \/ imageFile' = imageFile
            \/ imageFile' = [imageFile EXCEPT !.bytes = Append(@, chunk)]
        BY <2>2, Zenon DEF O!Write
      <4>3. imageFile' # None /\ imageFile'.update = imageFile.update
        <5>1. CASE imageFile' = imageFile
          BY <1>0, <3>1, <5>1 DEF ImageOpen
        <5>2. CASE imageFile' = [imageFile EXCEPT !.bytes = Append(@, chunk)]
          <6>1. chunk \in Nat
            BY SizeAssumption
          <6> QED
            BY <4>1, <5>2, <6>1, ImageGrows, Zenon
        <5> QED
          BY <4>2, <5>1, <5>2
      <4> QED
        BY <1>0, <2>2, <3>1, <4>3 DEF O!Write, ImageOpen
    <3>2. CASE ~image
      BY <2>2, <3>2 DEF O!Write, ImageOpen
    <3> QED
      BY <3>1, <3>2
  <2>3. CASE ~image'
    BY <2>3 DEF ImageOpen
  <2>4. CASE UNCHANGED <<image, starting, imageFile, update>>
    BY <1>0, <2>4 DEF ImageOpen
  <2>5. CASE O!BeginRecord
    BY <1>0, <2>5 DEF ImageOpen, O!BeginRecord
  <2> QED
    BY <2>1, <2>2, <2>3, <2>4, <2>5, Zenon DEF O!Next, O!SetSource, O!Begin, O!Finish,
       O!Crash, O!vars, O!files
<1> QED
  BY <1>1, <1>2, <1>3


LEMMA FailureKept == OtaInv /\ [O!Next]_(O!vars) => FailureNoted'
<1> SUFFICES ASSUME OtaInv, [O!Next]_(O!vars)
             PROVE  FailureNoted'
  OBVIOUS
<1>0. OtaTypeOK /\ NoEndWhileRunning /\ ImageOpen /\ FailureNoted
  BY DEF OtaInv
<1>1. CASE O!Begin
  BY <1>1 DEF O!Begin, FailureNoted
<1>2. CASE O!BeginRecord
  <2>1. PICK whole \in BOOLEAN :
          /\ beginFile' \in {[update |-> update, source |-> source, whole |-> whole]}
                            \cup (IF whole THEN {} ELSE {beginFile})
          /\ sinkFailed' = (sinkFailed \/ ~whole)
    BY <1>2 DEF O!BeginRecord
  <2>2. starting' = "image" /\ update' = update
    BY <1>2 DEF O!BeginRecord
  <2>3. CASE ~whole
    BY <2>1, <2>3 DEF FailureNoted
  <2>4. CASE whole
    <3>1. beginFile' = [update |-> update, source |-> source, whole |-> whole]
      BY <2>1, <2>4
    <3>2. beginFile' \in O!BeginRecords
      <4>1. update \in Nat /\ source \in Sources \cup {""}
        BY <1>0, Zenon DEF OtaTypeOK
      <4> QED
        BY <3>1, <4>1 DEF O!BeginRecords
    <3>3. beginFile' # None /\ beginFile'.update = update /\ beginFile'.whole
      BY <2>4, <3>1, <3>2, NoneAssumption
    <3> QED
      BY <2>2, <3>3 DEF FailureNoted
  <2> QED
    BY <2>3, <2>4
<1>3. CASE O!BeginImage
  <2>1. CASE sinkFailed'
    BY <2>1 DEF FailureNoted
  <2>2. CASE ~sinkFailed'
    <3>1. image' /\ imageFile' = [update |-> update, bytes |-> <<>>] /\ sinkFailed' = sinkFailed
      BY <1>3, <2>2 DEF O!BeginImage
    <3>2. running /\ sink /\ given = <<>>
      BY <1>0, <1>3 DEF O!BeginImage, NoEndWhileRunning
    <3> QED
      BY <1>0, <1>3, <3>1, <3>2 DEF O!BeginImage, FailureNoted
  <2> QED
    BY <2>1, <2>2
<1>4. ASSUME NEW chunk \in 1..MaxChunks, O!Write(chunk)
      PROVE  FailureNoted'
  <2>1. CASE image /\ imageFile' = [imageFile EXCEPT !.bytes = Append(@, chunk)]
                   /\ UNCHANGED sinkFailed
    <3>0. chunk \in Nat
      BY SizeAssumption
    <3>1. imageFile \in O!Images
      BY <1>0, <2>1 DEF ImageOpen, OtaTypeOK
    <3>2. imageFile'.bytes = Append(imageFile.bytes, chunk)
      BY <2>1, <3>0, <3>1, ImageGrows, Zenon
    <3>3. given' = Append(given, chunk) /\ UNCHANGED <<running, sink, starting, image, update, beginFile>>
      BY <1>4 DEF O!Write
    <3> QED
      BY <1>0, <2>1, <3>2, <3>3 DEF FailureNoted
  <2>2. CASE sinkFailed'
    BY <2>2 DEF FailureNoted
  <2>3. CASE ~image /\ UNCHANGED sinkFailed
    BY <1>0, <1>4, <2>3 DEF FailureNoted, O!Write
  <2> QED
    BY <1>4, <2>1, <2>2, <2>3, Zenon DEF O!Write
<1>5. CASE ~running'
  BY <1>5 DEF FailureNoted
<1>6. CASE UNCHANGED <<running, sink, sinkFailed, starting, image, update, given, beginFile, imageFile>>
  BY <1>0, <1>6 DEF FailureNoted
<1> QED
  BY <1>1, <1>2, <1>3, <1>4, <1>5, <1>6, Zenon
     DEF O!Next, O!SetSource, O!Finish, O!Crash, O!vars, O!files

LEMMA OkKept == OtaInv /\ [O!Next]_(O!vars) => O!OkMeansRecorded'
<1> SUFFICES ASSUME OtaInv, [O!Next]_(O!vars)
             PROVE  O!OkMeansRecorded'
  OBVIOUS
<1>0. OtaTypeOK /\ Counted /\ NoEndWhileRunning /\ ImageOpen /\ FailureNoted /\ O!OkMeansRecorded
  BY DEF OtaInv
<1>1. ASSUME NEW ok \in BOOLEAN, O!Finish(ok)
      PROVE  O!OkMeansRecorded'
  <2>1. PICK closed \in BOOLEAN, opens \in BOOLEAN, whole \in BOOLEAN :
          endFile' = IF ~sink \/ ~opens THEN endFile
                     ELSE [update |-> update, ok |-> ok /\ ~(sinkFailed \/ (image /\ ~closed)),
                           written |-> written, whole |-> whole]
    BY <1>1 DEF O!Finish
  <2>2. UNCHANGED <<beginFile, imageFile, starting, update, given>> /\ running /\ starting = ""
    BY <1>1 DEF O!Finish
  <2>3. CASE ~sink \/ ~opens
    BY <1>0, <2>1, <2>2, <2>3 DEF NoEndWhileRunning, O!OkMeansRecorded
  <2>4. CASE sink /\ opens
    <3>1. endFile' = [update |-> update, ok |-> ok /\ ~(sinkFailed \/ (image /\ ~closed)),
                      written |-> written, whole |-> whole]
      BY <2>1, <2>4
    <3>2. endFile'.update = update /\ endFile'.written = written /\ (endFile'.ok => ~sinkFailed)
      BY <3>1
    <3>3. ASSUME ~sinkFailed
          PROVE  /\ beginFile # None /\ beginFile.update = update /\ beginFile.whole
                 /\ imageFile # None /\ imageFile.update = update /\ imageFile.bytes = given
      BY <1>0, <2>2, <2>4, <3>3 DEF FailureNoted, ImageOpen
    <3>4. written = Len(given)
      BY <1>0 DEF Counted
    <3> QED
      BY <2>2, <3>2, <3>3, <3>4 DEF O!OkMeansRecorded
  <2> QED
    BY <2>3, <2>4
<1>2. CASE endFile' = None
  BY <1>2 DEF O!OkMeansRecorded
<1>3. CASE UNCHANGED <<running, starting, update, given, beginFile, imageFile, endFile>>
  BY <1>0, <1>3 DEF O!OkMeansRecorded
<1>4. CASE O!Begin
  BY <1>0, <1>2, <1>4 DEF O!Begin, NoEndWhileRunning
<1>5. CASE O!BeginRecord \/ O!BeginImage
  BY <1>0, <1>2, <1>5 DEF O!BeginRecord, O!BeginImage, NoEndWhileRunning
<1>6. ASSUME NEW chunk \in 1..MaxChunks, O!Write(chunk)
      PROVE  O!OkMeansRecorded'
  BY <1>0, <1>2, <1>6 DEF O!Write, NoEndWhileRunning
<1>7. CASE O!Crash
  BY <1>0, <1>2, <1>7 DEF O!Crash, O!files, NoEndWhileRunning
<1> QED
  BY <1>1, <1>3, <1>4, <1>5, <1>6, <1>7, Zenon DEF O!Next, O!SetSource, O!vars, O!files

(* A test that finds an end record that says ok may trust it: begin record *)
(* and image are of the same update, whole, and hold every byte given, for *)
(* any number of updates and chunks, whatever failed or died (Update.h).   *)
THEOREM OkRecordTrusted == StorageSpec => []OkMeansRecorded
<1>1. StorageInit => OtaInv
  <2> SUFFICES ASSUME StorageInit
               PROVE  OtaInv
    OBVIOUS
  <2>1. O!Init
    BY DEF StorageInit
  <2>2. <<>> \in Seq(Nat)
    OBVIOUS
  <2>3. OtaTypeOK
    BY <2>1, <2>2, Zenon DEF O!Init, OtaTypeOK
  <2>4. Counted /\ NoEndWhileRunning /\ ImageOpen /\ FailureNoted /\ O!OkMeansRecorded
    BY <2>1 DEF O!Init, Counted, NoEndWhileRunning, ImageOpen, FailureNoted, O!OkMeansRecorded
  <2> QED
    BY <2>3, <2>4 DEF OtaInv
<1>2. OtaInv /\ [StorageNext]_storageVars => OtaInv'
  BY OtaPart, OtaTypeKept, OtaFlagsKept, FailureKept, OkKept DEF OtaInv
<1>3. OtaInv => OkMeansRecorded
  BY DEF OtaInv, OkMeansRecorded
<1> QED
  BY <1>1, <1>2, <1>3, PTL DEF StorageSpec


-----------------------------------------------------------------------------
(* The terminal.  From what a program has saved and what it has changed,   *)
(* at each place it may be, what disableRawMode() undoes is what it did.   *)

Tty == tty["in"] /\ tty["out"]
Echoed == [before.term EXCEPT !.echo = TRUE]

TerminalTypeOK ==
    /\ {term, origTermios, before.term} \subseteq T!Settings
    /\ pc \in {"isatty", "save", "raw", "flags", "run", "exit", "exitFlags", "exited", "killed"}

\* Nothing is changed before it was saved.
Untouched ==
    pc \in {"isatty", "save", "raw"} =>
        /\ term = before.term /\ flags = before.flags
        /\ ~inRawMode /\ ~inNonBlockingMode /\ ~echoed
        /\ pc # "isatty" => Tty
        /\ pc = "raw" => origTermios = before.term

\* The settings of the terminal and the flags of stdin can be restored.
TermRestorable ==
    pc \in {"flags", "run", "exit"} =>
        /\ inRawMode => origTermios = before.term
        /\ ~inRawMode => term = before.term \/ (echoed /\ ~tty["out"] /\ term = Echoed)
FlagsRestorable ==
    pc \in {"flags", "run", "exit", "exitFlags"} =>
        /\ inNonBlockingMode => origFlags = before.flags
        /\ ~inNonBlockingMode => flags = before.flags

Running ==
    /\ pc \in {"flags", "run"} => (inRawMode <=> Tty)
    /\ pc = "flags" => ~inNonBlockingMode /\ ~echoed
    /\ pc \in {"flags", "run"} =>
         /\ inRawMode => ~term.canon /\ (term.echo => echoed)
         /\ ~inRawMode => term.canon = before.term.canon
    /\ pc = "run" => flags

TermRestored ==
    pc \in {"exitFlags", "exited"} /\ ~lost =>
        term = before.term \/ (echoed /\ ~tty["out"] /\ term = Echoed)
FlagsRestored == pc = "exited" /\ ~lost => flags = before.flags

TerminalInv ==
    /\ TerminalTypeOK /\ Untouched /\ TermRestorable /\ FlagsRestorable
    /\ Running /\ TermRestored /\ FlagsRestored

LEMMA TerminalTypeKept == TerminalInv /\ [T!Next]_(T!vars) => TerminalTypeOK'
<1> SUFFICES ASSUME TerminalInv, [T!Next]_(T!vars)
             PROVE  TerminalTypeOK'
  OBVIOUS
<1> USE DEF TerminalTypeOK, T!Settings, T!saved
<1>0. TerminalTypeOK
  BY DEF TerminalInv
<1>1. CASE T!IsTty
  BY <1>0, <1>1 DEF T!IsTty
<1>2. CASE T!SaveTerm
  BY <1>0, <1>2 DEF T!SaveTerm
<1>3. CASE T!SetRaw
  BY <1>0, <1>3 DEF T!SetRaw, T!Raw
<1>4. CASE T!SetNonBlocking
  BY <1>0, <1>4 DEF T!SetNonBlocking
<1>5. CASE T!EnableTerminalEcho
  BY <1>0, <1>5 DEF T!EnableTerminalEcho
<1>6. CASE T!Exit \/ T!Signal
  BY <1>0, <1>6 DEF T!Exit, T!Signal
<1>7. CASE T!RestoreTerm
  BY <1>0, <1>7 DEF T!RestoreTerm
<1>8. CASE T!RestoreFlags
  BY <1>0, <1>8 DEF T!RestoreFlags
<1>9. CASE UNCHANGED T!vars
  BY <1>0, <1>9 DEF T!vars
<1> QED
  BY <1>1, <1>2, <1>3, <1>4, <1>5, <1>6, <1>7, <1>8, <1>9 DEF T!Next

LEMMA TerminalInvKept == TerminalInv /\ [T!Next]_(T!vars) => TerminalInv'
<1> SUFFICES ASSUME TerminalInv, [T!Next]_(T!vars)
             PROVE  TerminalInv'
  OBVIOUS
<1> DEFINE Rest == /\ Untouched /\ TermRestorable /\ FlagsRestorable
                   /\ Running /\ TermRestored /\ FlagsRestored
<1>0. TerminalTypeOK /\ Rest
  BY DEF TerminalInv
<1>a. TerminalTypeOK'
  BY TerminalTypeKept
<1>b. SUFFICES Rest'
  BY <1>a DEF TerminalInv
<1> USE DEF Untouched, TermRestorable, FlagsRestorable, Running, TermRestored, FlagsRestored,
            Tty, T!saved
<1>1. CASE T!IsTty
  BY <1>0, <1>1 DEF T!IsTty, Echoed
<1>2. CASE T!SaveTerm
  BY <1>0, <1>2 DEF T!SaveTerm
<1>3. CASE T!SetRaw
  BY <1>0, <1>3 DEF T!SetRaw, T!Raw, TerminalTypeOK, T!Settings
<1>4. CASE T!SetNonBlocking
  BY <1>0, <1>4 DEF T!SetNonBlocking, Echoed
<1>5. CASE T!EnableTerminalEcho
  BY <1>0, <1>5 DEF T!EnableTerminalEcho, Echoed, TerminalTypeOK, T!Settings
<1>6. CASE T!Exit \/ T!Signal
  BY <1>0, <1>6 DEF T!Exit, T!Signal, Echoed
<1>7. CASE T!RestoreTerm
  BY <1>0, <1>7 DEF T!RestoreTerm, Echoed
<1>8. CASE T!RestoreFlags
  BY <1>0, <1>8 DEF T!RestoreFlags, Echoed
<1>9. CASE UNCHANGED T!vars
  BY <1>0, <1>9 DEF T!vars, Echoed
<1> QED
  BY <1>1, <1>2, <1>3, <1>4, <1>5, <1>6, <1>7, <1>8, <1>9 DEF T!Next

(* A program that exits leaves the terminal and stdin as it found them,    *)
(* unless a call to restore them fails, from any settings and flags; and   *)
(* while it runs they are what enableRawMode() promises (main.cpp).        *)
THEOREM TerminalRestored == StorageSpec => []TerminalKept
<1>1. StorageInit => TerminalInv
  <2> SUFFICES ASSUME StorageInit
               PROVE  TerminalInv
    OBVIOUS
  <2>1. T!Init
    BY DEF StorageInit
  <2>2. TerminalTypeOK
    BY <2>1 DEF T!Init, TerminalTypeOK, T!Settings
  <2>3. Untouched /\ TermRestorable /\ FlagsRestorable /\ Running /\ TermRestored /\ FlagsRestored
    BY <2>1 DEF T!Init, Untouched, TermRestorable, FlagsRestorable, Running, TermRestored,
                FlagsRestored
  <2> QED
    BY <2>2, <2>3 DEF TerminalInv
<1>2. TerminalInv /\ [StorageNext]_storageVars => TerminalInv'
  BY TerminalPart, TerminalInvKept
<1>3. TerminalInv => TerminalKept
  BY DEF TerminalInv, TermRestored, FlagsRestored, Running, Tty, Echoed, TerminalTypeOK,
         T!Settings, TerminalKept, T!TerminalKept
<1> QED
  BY <1>1, <1>2, <1>3, PTL DEF StorageSpec

-----------------------------------------------------------------------------
(* The EEPROM of the AVR core: each cell of the file is what was written   *)
(* to it last, or what the file held; a cell beyond the end reads as zero. *)

AvrTypeOK ==
    /\ avrFile \in Seq(AvrValues \cup {0})
    /\ shadow \in [A!Cells -> AvrValues \cup {0}]
    /\ ref \in 0..Length
    /\ putting \in Seq(AvrValues)
FullLength == fd = "open" => Len(avrFile) = Length
Shadowed == \A i \in A!Cells : shadow[i] = IF i < Len(avrFile) THEN avrFile[i + 1] ELSE 0

AvrInv == AvrTypeOK /\ FullLength /\ Shadowed

LEMMA AvrPart == [StorageNext]_storageVars => [A!Next]_(A!vars)
BY DEF StorageNext, EspStep, AvrStep, OtaStep, FsStep, WalkStep, TerminalStep,
       storageVars, avrVars, A!vars

LEMMA FunctionIsSeq ==
    ASSUME NEW S, NEW n \in Nat, NEW f \in [1..n -> S]
    PROVE  f \in Seq(S)
OBVIOUS

(* A pwrite() that may fail, of a byte at a cell or beyond.                *)
LEMMA StoreKept ==
    ASSUME AvrTypeOK, FullLength, Shadowed, NEW i \in 0..Length, NEW v \in AvrValues, A!Store(i, v)
    PROVE  /\ avrFile' \in Seq(AvrValues \cup {0})
           /\ shadow' \in [A!Cells -> AvrValues \cup {0}]
           /\ Len(avrFile') = Len(avrFile)
           /\ \A j \in A!Cells :
                shadow'[j] = IF j < Len(avrFile') THEN avrFile'[j + 1] ELSE 0
<1>1. CASE UNCHANGED <<avrFile, shadow>>
  BY <1>1 DEF AvrTypeOK, Shadowed
<1>2. CASE ~UNCHANGED <<avrFile, shadow>>
  <2>1. /\ fd = "open" /\ i \in A!Cells
        /\ avrFile' = [avrFile EXCEPT ![i + 1] = v]
        /\ shadow' = [shadow EXCEPT ![i] = v]
    BY <1>2, Zenon DEF A!Store
  <2>2. i + 1 \in 1..Len(avrFile) /\ avrFile \in Seq(AvrValues \cup {0})
    BY <2>1, SizeAssumption DEF AvrTypeOK, FullLength, A!Cells
  <2>3. avrFile' \in Seq(AvrValues \cup {0}) /\ Len(avrFile') = Len(avrFile)
    BY <2>1, <2>2
  <2>4. shadow' \in [A!Cells -> AvrValues \cup {0}]
    BY <2>1 DEF AvrTypeOK
  <2>5. ASSUME NEW j \in A!Cells
        PROVE  shadow'[j] = IF j < Len(avrFile') THEN avrFile'[j + 1] ELSE 0
    <3>1. j \in Nat /\ i \in Nat /\ (j < Len(avrFile) => j + 1 \in 1..Len(avrFile))
      BY <2>1, <2>2, SizeAssumption DEF A!Cells
    <3>2. shadow[j] = IF j < Len(avrFile) THEN avrFile[j + 1] ELSE 0
      BY DEF Shadowed
    <3>3. CASE j = i
      BY <2>1, <2>2, <2>3, <3>1, <3>3 DEF AvrTypeOK
    <3>4. CASE j # i
      BY <2>1, <2>2, <2>3, <3>1, <3>2, <3>4 DEF AvrTypeOK
    <3> QED
      BY <3>3, <3>4
  <2> QED
    BY <2>3, <2>4, <2>5
<1> QED
  BY <1>1, <1>2

LEMMA AvrInvKept == AvrInv /\ [A!Next]_(A!vars) => AvrInv'
<1> SUFFICES ASSUME AvrInv, [A!Next]_(A!vars)
             PROVE  AvrInv'
  OBVIOUS
<1>0. AvrTypeOK /\ FullLength /\ Shadowed
  BY DEF AvrInv
<1>1. CASE A!Construct
  <2>1. CASE fd' = "bad" /\ UNCHANGED avrFile
    BY <1>0, <1>1, <2>1 DEF A!Construct, AvrInv, AvrTypeOK, FullLength, Shadowed, A!Cells
  <2>2. CASE fd' = "open"
    <3> DEFINE byte(i) == IF i <= Len(avrFile) THEN avrFile[i] ELSE 0
    <3>1. avrFile' = [i \in 1..Length |-> byte(i)] /\ UNCHANGED <<ref, putting, shadow>>
      BY <1>1, <2>2 DEF A!Construct
    <3>2. avrFile \in Seq(AvrValues \cup {0})
      BY <1>0, Zenon DEF AvrTypeOK
    <3>3. \A i \in 1..Length : byte(i) \in AvrValues \cup {0}
      BY <3>2, SizeAssumption
    <3> HIDE DEF byte
    <3>4. avrFile' \in Seq(AvrValues \cup {0}) /\ Len(avrFile') = Length
      BY <3>1, <3>3, SizeAssumption
    <3>5. ASSUME NEW i \in A!Cells
          PROVE  shadow'[i] = IF i < Len(avrFile') THEN avrFile'[i + 1] ELSE 0
      <4>1. i + 1 \in 1..Length /\ i \in Nat /\ i < Length /\ (i + 1 <= Len(avrFile) <=> i < Len(avrFile))
        BY <3>2, SizeAssumption DEF A!Cells
      <4>2. avrFile'[i + 1] = byte(i + 1)
        BY <3>1, <4>1
      <4>3. byte(i + 1) = shadow[i]
        BY <1>0, <4>1 DEF byte, Shadowed
      <4> QED
        BY <3>1, <3>4, <4>1, <4>2, <4>3
    <3>6. AvrTypeOK'
      BY <1>0, <3>1, <3>4 DEF AvrTypeOK, A!Cells
    <3> QED
      BY <3>4, <3>5, <3>6 DEF AvrInv, FullLength, Shadowed, A!Cells
  <2> QED
    BY <1>1, <2>1, <2>2 DEF A!Construct
<1>2. ASSUME NEW v \in AvrValues, A!Assign(v)
      PROVE  AvrInv'
  <2>1. A!Store(ref, v) /\ UNCHANGED <<fd, ref, putting>> /\ ref \in 0..Length
    BY <1>0, <1>2 DEF A!Assign, AvrTypeOK
  <2> QED
    BY <1>0, <2>1, StoreKept DEF AvrInv, AvrTypeOK, FullLength, Shadowed, A!Cells
<1>3. CASE A!PutByte
  <2>1. putting \in Seq(AvrValues) /\ putting # <<>> /\ ref \in 0..Length
    BY <1>0, <1>3 DEF AvrTypeOK, A!PutByte
  <2>2. Head(putting) \in AvrValues /\ Tail(putting) \in Seq(AvrValues)
    BY <2>1
  <2>3. A!Advance(ref) \in 0..Length
    BY <2>1, SizeAssumption DEF A!Advance
  <2>4. ref' \in 0..Length /\ putting' \in Seq(AvrValues) /\ fd' = fd
    BY <1>3, <2>2, <2>3 DEF A!PutByte
  <2>5. UNCHANGED <<avrFile, shadow>> \/ A!Store(ref, Head(putting))
    BY <1>3, Zenon DEF A!PutByte, A!Update
  <2>6. A!Store(ref, Head(putting))
    BY <2>5, Zenon DEF A!Store
  <2> QED
    BY <1>0, <2>1, <2>2, <2>4, <2>6, StoreKept
       DEF AvrInv, AvrTypeOK, FullLength, Shadowed, A!Cells
<1>4. ASSUME NEW i \in 0..Length, A!Move(i)
      PROVE  AvrInv'
  BY <1>0, <1>4 DEF A!Move, AvrInv, AvrTypeOK, FullLength, Shadowed, A!Cells
<1>5. ASSUME NEW bytes \in [1..2 -> AvrValues], A!PutBegin(bytes)
      PROVE  AvrInv'
  <2>0. bytes \in Seq(AvrValues)
    BY FunctionIsSeq, 2 \in Nat
  <2>1. putting' \in Seq(AvrValues)
    BY <1>5, <2>0, Zenon DEF A!PutBegin
  <2> QED
    BY <1>0, <1>5, <2>1 DEF A!PutBegin, AvrInv, AvrTypeOK, FullLength, Shadowed, A!Cells
<1>6. CASE A!Exit
  <2>1. <<>> \in Seq(AvrValues) /\ 0 \in 0..Length
    BY SizeAssumption
  <2> QED
    BY <1>0, <1>6, <2>1 DEF A!Exit, AvrInv, AvrTypeOK, FullLength, Shadowed, A!Cells
<1>7. CASE UNCHANGED A!vars
  BY <1>0, <1>7 DEF A!vars, AvrInv, AvrTypeOK, FullLength, Shadowed, A!Cells
<1> QED
  BY <1>1, <1>2, <1>3, <1>4, <1>5, <1>6, <1>7, Zenon DEF A!Next

LEMMA AvrInvHolds == StorageSpec => []AvrInv
<1>1. StorageInit => AvrInv
  <2> SUFFICES ASSUME StorageInit
               PROVE  AvrInv
    OBVIOUS
  <2>1. A!Init
    BY DEF StorageInit
  <2>2. PICK n \in 0..Length + 1 : avrFile \in [1..n -> AvrValues]
    BY <2>1 DEF A!Init
  <2>3. avrFile \in Seq(AvrValues \cup {0})
    BY <2>2, SizeAssumption
  <2>4. <<>> \in Seq(AvrValues) /\ 0 \in 0..Length
    BY SizeAssumption
  <2>5. shadow = [i \in A!Cells |-> IF i < Len(avrFile) THEN avrFile[i + 1] ELSE 0]
    BY <2>1 DEF A!Init
  <2>6. Shadowed
    BY <2>5 DEF Shadowed
  <2>7. \A i \in A!Cells : (IF i < Len(avrFile) THEN avrFile[i + 1] ELSE 0) \in AvrValues \cup {0}
    BY <2>3, SizeAssumption DEF A!Cells
  <2>8. shadow \in [A!Cells -> AvrValues \cup {0}]
    BY <2>5, <2>7
  <2>9. AvrTypeOK /\ FullLength
    BY <2>1, <2>3, <2>4, <2>8 DEF A!Init, AvrTypeOK, FullLength
  <2> QED
    BY <2>6, <2>9 DEF AvrInv
<1>2. AvrInv /\ [StorageNext]_storageVars => AvrInv'
  BY AvrPart, AvrInvKept
<1> QED
  BY <1>1, <1>2, PTL DEF StorageSpec

LEMMA AvrCellsPersist == AvrInv => A!CellsPersist
<1> SUFFICES ASSUME AvrInv, fd = "open", NEW i \in A!Cells, NEW n \in 1..Length, i + n <= Length
             PROVE  A!Get(i, n) = [k \in 1..n |-> shadow[i + k - 1]]
  BY DEF A!CellsPersist
<1>1. ASSUME NEW k \in 1..n
      PROVE  A!Read(i + k - 1) = shadow[i + k - 1]
  <2>1. i + k - 1 \in A!Cells /\ i + k - 1 < Length
    BY SizeAssumption DEF A!Cells
  <2>2. Len(avrFile) = Length
    BY DEF AvrInv, FullLength
  <2> QED
    BY <2>1, <2>2 DEF A!Read, AvrInv, Shadowed
<1> QED
  BY <1>1 DEF A!Get

-----------------------------------------------------------------------------
(* The EEPROM of the ESP cores.  commit() leaves the mark until it knows   *)
(* how it ended, and what it has written is a beginning of the buffer.     *)

LEMMA EspPart == [StorageNext]_storageVars => [E!Next]_(E!vars)
BY DEF StorageNext, EspStep, AvrStep, OtaStep, FsStep, WalkStep, TerminalStep,
       storageVars, espVars, E!vars

Bytes == Values \cup {Blank}

(* The type of what is stored; the flags need none.                        *)
EspTypeOK ==
    /\ saving \in {"no", "opened", "written"}
    /\ data \in Seq(Bytes)
    /\ espFile \in Seq(Bytes) \cup {NoFile}

(* What commit() relies on while it works: the mark stays until it knows   *)
(* how it ended, and what it has written is a beginning of the buffer.     *)
EspMarked == ~E!Idle => dirty
EspBegun ==
    saving = "written" =>
        /\ espFile # NoFile /\ Len(espFile) <= Len(data)
        /\ \A i \in 1..Len(espFile) : espFile[i] = data[i]

EspInv == EspTypeOK /\ EspMarked /\ EspBegun /\ E!CleanIsOnDisk

-----------------------------------------------------------------------------
LEMMA UsableNat ==
    ASSUME NEW size \in Nat
    PROVE  E!Usable(size) \in Nat
<1>1. CASE core = "esp8266"
  <2> DEFINE clamped == IF size > Sector THEN Sector ELSE size
             words == (clamped + Word - 1) \div Word
  <2>1. clamped \in Nat
    BY SizesAssumption
  <2>2. clamped + Word - 1 \in Nat
    BY <2>1, WordAssumption
  <2>3. words \in Nat
    BY <2>2, WordAssumption
  <2>4. E!Usable(size) = words * Word
    BY <1>1 DEF E!Usable
  <2> QED
    BY <2>3, <2>4, WordAssumption
<1>2. CASE core # "esp8266"
  BY <1>2, SizesAssumption DEF E!Usable
<1> QED
  BY <1>1, <1>2

LEMMA ImageIsSeq ==
    ASSUME EspTypeOK, NEW n \in Nat
    PROVE  /\ E!Image(n) \in Seq(Bytes)
           /\ Len(E!Image(n)) = n
BY DEF E!Image, EspTypeOK, Bytes

(* Assigning to a byte of the buffer.                                      *)
LEMMA ByteSet ==
    ASSUME EspTypeOK, NEW i \in DOMAIN data, NEW v \in Values
    PROVE  [data EXCEPT ![i] = v] \in Seq(Bytes)
BY DEF EspTypeOK, Bytes

-----------------------------------------------------------------------------
(* A step that leaves commit() alone and either reads the file again or    *)
(* marks what it changed keeps the invariant.                              *)

LEMMA EspTypeKept == EspInv /\ [E!Next]_(E!vars) => EspTypeOK'
<1> SUFFICES ASSUME EspInv, [E!Next]_(E!vars)
             PROVE  EspTypeOK'
  OBVIOUS
<1> USE DEF EspInv, EspTypeOK
<1>1. ASSUME NEW size \in Sizes, E!Begin(size)
      PROVE  EspTypeOK'
  <2>1. E!Usable(size) \in Nat
    BY UsableNat, SizesAssumption
  <2>2. data' \in Seq(Bytes)
    BY <1>1, <2>1, ImageIsSeq DEF E!Begin
  <2> QED
    BY <1>1, <2>2 DEF E!Begin
<1>2. ASSUME NEW v \in Values, NEW i \in DOMAIN data, E!Write(i, v) \/ E!IndexWrite(i, v)
      PROVE  EspTypeOK'
  <2>1. data' \in Seq(Bytes)
    BY <1>2, ByteSet DEF E!Write, E!IndexWrite
  <2> QED
    BY <1>2, <2>1 DEF E!Write, E!IndexWrite
<1>3. ASSUME NEW bytes \in [DOMAIN data -> Values], E!Put(bytes)
      PROVE  EspTypeOK'
  <2>1. data' \in Seq(Bytes)
    BY <1>3 DEF E!Put, Bytes
  <2> QED
    BY <1>3, <2>1 DEF E!Put
<1>4. ASSUME NEW ends \in BOOLEAN, E!Commit(ends)
      PROVE  EspTypeOK'
  <2>1. saving' \in {"no", "opened"}
    BY <1>4, Zenon DEF E!Commit, E!Close
  <2>2. data' \in {data, <<>>} /\ espFile' \in {espFile, <<>>}
    BY <1>4, Zenon DEF E!Commit, E!Close
  <2>3. <<>> \in Seq(Bytes)
    OBVIOUS
  <2>4. data' \in Seq(Bytes) /\ espFile' \in Seq(Bytes) \cup {NoFile}
    BY <2>2, <2>3, Zenon
  <2> QED
    BY <2>1, <2>4, Zenon
<1>5. CASE E!CommitWrite
  <2>1. PICK n \in 0..E!Size : espFile' = SubSeq(data, 1, n)
    BY <1>5 DEF E!CommitWrite
  <2>2. espFile' \in Seq(Bytes)
    BY <2>1 DEF E!Size
  <2> QED
    BY <1>5, <2>2 DEF E!CommitWrite
<1>6. CASE E!CommitDone
  <2>1. saving' = "no" /\ data' \in {data, <<>>} /\ espFile' = espFile
    BY <1>6, Zenon DEF E!CommitDone, E!Close
  <2>2. <<>> \in Seq(Bytes)
    OBVIOUS
  <2>3. data' \in Seq(Bytes) /\ espFile' \in Seq(Bytes) \cup {NoFile}
    BY <2>1, <2>2, Zenon
  <2> QED
    BY <2>1, <2>3, Zenon
<1>7. CASE E!Crash
  BY <1>7 DEF E!Crash, E!Close
<1>8. CASE UNCHANGED E!vars
  BY <1>8 DEF E!vars
<1> QED
  BY <1>1, <1>2, <1>3, <1>4, <1>5, <1>6, <1>7, <1>8 DEF E!Next

LEMMA EspMarkedKept == EspInv /\ [E!Next]_(E!vars) => EspMarked'
<1> SUFFICES ASSUME EspInv, [E!Next]_(E!vars)
             PROVE  EspMarked'
  OBVIOUS
<1> USE DEF EspInv, EspMarked, E!Idle
<1>1. CASE UNCHANGED E!vars
  BY <1>1 DEF E!vars
<1>2. CASE \E s \in Sizes : E!Begin(s)
  BY <1>2 DEF E!Begin
<1>3. CASE \E v \in Values : \E i \in DOMAIN data : E!Write(i, v) \/ E!IndexWrite(i, v)
  BY <1>3 DEF E!Write, E!IndexWrite
<1>4. CASE \E bytes \in [DOMAIN data -> Values] : E!Put(bytes)
  BY <1>4 DEF E!Put
<1>5. ASSUME NEW ends \in BOOLEAN, E!Commit(ends)
      PROVE  EspMarked'
  <2>1. CASE E!Close
    BY <2>1 DEF E!Close
  <2>2. CASE dirty /\ UNCHANGED <<core, data, dirty, bypassed>>
    BY <2>2, Zenon
  <2> QED
    BY <1>5, <2>1, <2>2, Zenon DEF E!Commit
<1>6. CASE E!CommitWrite
  BY <1>6 DEF E!CommitWrite
<1>7. CASE E!CommitDone
  BY <1>7, Zenon DEF E!CommitDone, E!Close
<1>8. CASE E!Crash
  BY <1>8 DEF E!Crash, E!Close
<1> QED
  BY <1>1, <1>2, <1>3, <1>4, <1>5, <1>6, <1>7, <1>8 DEF E!Next

LEMMA EspBegunKept == EspInv /\ [E!Next]_(E!vars) => EspBegun'
<1> SUFFICES ASSUME EspInv, [E!Next]_(E!vars), saving' = "written"
             PROVE  EspBegun'
  BY DEF EspBegun
<1> USE DEF EspInv, EspTypeOK
<1>1. CASE E!CommitWrite
  <2>1. PICK n \in 0..E!Size : espFile' = SubSeq(data, 1, n)
    BY <1>1 DEF E!CommitWrite
  <2>2. Len(espFile') = n /\ \A i \in 1..n : espFile'[i] = data[i]
    BY <2>1 DEF E!Size
  <2>3. data' = data /\ espFile' \in Seq(Bytes)
    BY <1>1, <2>1 DEF E!CommitWrite, E!Size
  <2> QED
    BY <2>2, <2>3, NoFileAssumption DEF EspBegun, E!Size, Bytes
<1>2. CASE UNCHANGED E!vars
  BY <1>2 DEF E!vars, EspBegun
<1>3. CASE E!Next /\ ~E!CommitWrite
  BY <1>3 DEF E!Next, E!Begin, E!Write, E!IndexWrite, E!Put, E!Commit, E!Close, E!CommitDone, E!Crash, E!Idle
<1> QED
  BY <1>1, <1>2, <1>3

LEMMA CleanKept == EspInv /\ [E!Next]_(E!vars) => E!CleanIsOnDisk'
<1> SUFFICES ASSUME EspInv, [E!Next]_(E!vars), E!Idle', E!Size' > 0, ~dirty', ~bypassed'
             PROVE  data' = E!Image(E!Size)'
  BY DEF E!CleanIsOnDisk
<1> USE DEF EspInv, EspTypeOK
<1>1. ASSUME NEW size \in Sizes, E!Begin(size)
      PROVE  data' = E!Image(E!Size)'
  <2>1. E!Usable(size) \in Nat
    BY UsableNat, SizesAssumption
  <2>2. data' = E!Image(E!Usable(size)) /\ Len(data') = E!Usable(size) /\ espFile' = espFile
    BY <1>1, <2>1, ImageIsSeq DEF E!Begin
  <2> QED
    BY <2>2 DEF E!Image, E!Size
<1>2. CASE \E v \in Values : \E i \in DOMAIN data : E!Write(i, v) \/ E!IndexWrite(i, v)
  BY <1>2 DEF E!Write, E!IndexWrite
<1>3. CASE \E bytes \in [DOMAIN data -> Values] : E!Put(bytes)
  BY <1>3 DEF E!Put
<1>4. ASSUME NEW ends \in BOOLEAN, E!Commit(ends)
      PROVE  data' = E!Image(E!Size)'
  BY <1>4 DEF E!Commit, E!Close, E!Idle, E!Size
<1>5. CASE E!CommitWrite
  BY <1>5 DEF E!CommitWrite, E!Idle
<1>6. CASE E!CommitDone
  <2>0. ~closing
    <3>1. CASE closing
      <4>1. data' = <<>>
        BY <1>6, <3>1 DEF E!CommitDone, E!Close
      <4> QED
        BY <4>1 DEF E!Size
    <3> QED
      BY <3>1
  <2>1. Len(espFile) = E!Size /\ data' = data /\ espFile' = espFile
    <3>1. dirty' = (dirty /\ ~(Len(espFile) = E!Size)) /\ data' = data /\ espFile' = espFile
      BY <1>6, <2>0, Zenon DEF E!CommitDone
    <3>2. dirty
      BY <1>6 DEF E!CommitDone, EspMarked, E!Idle
    <3> QED
      BY <3>1, <3>2, Zenon
  <2>2. espFile # NoFile /\ \A i \in 1..E!Size : i <= Len(espFile) /\ espFile[i] = data[i]
    BY <1>6, <2>1 DEF EspBegun, E!CommitDone, E!Size
  <2>3. E!Image(E!Size) = [i \in 1..E!Size |-> data[i]]
    BY <2>2 DEF E!Image
  <2>4. data = [i \in 1..E!Size |-> data[i]]
    BY DEF E!Size
  <2> QED
    BY <2>1, <2>3, <2>4 DEF E!Image, E!Size
<1>7. CASE E!Crash
  BY <1>7 DEF E!Crash, E!Close, E!Size
<1>8. CASE UNCHANGED E!vars
  BY <1>8 DEF E!vars, E!CleanIsOnDisk, E!Idle, E!Size, E!Image
<1> QED
  BY <1>1, <1>2, <1>3, <1>4, <1>5, <1>6, <1>7, <1>8 DEF E!Next

LEMMA EspInvHolds == StorageSpec => []EspInv
<1>1. StorageInit => EspInv
  <2> SUFFICES ASSUME StorageInit
               PROVE  EspInv
    OBVIOUS
  <2>0. E!Init
    BY DEF StorageInit
  <2>1. EspTypeOK
    BY <2>0 DEF E!Init, EspTypeOK
  <2>2. EspMarked /\ EspBegun
    BY <2>0 DEF E!Init, EspMarked, EspBegun, E!Idle
  <2>3. E!CleanIsOnDisk
    BY <2>0 DEF E!Init, E!CleanIsOnDisk, E!Size
  <2> QED
    BY <2>1, <2>2, <2>3 DEF EspInv
<1>2. EspInv /\ [StorageNext]_storageVars => EspInv'
  BY EspPart, EspTypeKept, EspMarkedKept, EspBegunKept, CleanKept DEF EspInv
<1> QED
  BY <1>1, <1>2, PTL DEF StorageSpec

(* What an EEPROM says is stored is what a restart reads.  ESP cores: what *)
(* is not marked dirty is on disk, for every size, sector and byte, after  *)
(* any commit() that failed or was cut short.  AVR core: every cell keeps  *)
(* its last value over the end of the process, for every length.           *)
THEOREM EepromStored == StorageSpec => []EepromPersists
<1>1. EspInv /\ AvrInv => EepromPersists
  BY AvrCellsPersist DEF EspInv, EepromPersists
<1> QED
  BY <1>1, EspInvHolds, AvrInvHolds, PTL

-----------------------------------------------------------------------------
(* The file system keeps its handles, sizes and walks straight, for any    *)
(* number of paths, inodes, Files, implementations and mode strings.       *)

LEMMA FsPart == [StorageNext]_storageVars => [F!Next]_(F!vars)
BY DEF StorageNext, EspStep, AvrStep, OtaStep, FsStep, WalkStep, TerminalStep,
       storageVars, fsVars, F!vars

LEMMA WalkPart == [StorageNext]_storageVars => [R!Next]_(R!vars)
BY DEF StorageNext, EspStep, AvrStep, OtaStep, FsStep, WalkStep, TerminalStep,
       storageVars, walkVars, R!vars

-----------------------------------------------------------------------------
(* The walks over a directory.  An entry that stays in the directory is    *)
(* still to come or has come, never both, for every walk that a File has;  *)
(* and the walk of a File is not freed while the File uses it.             *)

WalkTypeOK ==
    /\ entry = [n \in Paths |-> entry[n]]
    /\ fake \in [Files -> Walks \cup {None}]
    /\ walk \in [Walks -> R!WalkRecords \cup {None}]
    /\ steady \in [Walks -> SUBSET Paths]
WalkInUse == \A f \in Files : fake[f] # None => walk[fake[f]] # None
SteadyOnce ==
    \A w \in Walks : walk[w] # None =>
        /\ steady[w] \subseteq R!Present
        /\ \A n \in steady[w] : n \in walk[w].left <=> n \notin walk[w].seen

WalkInv == WalkTypeOK /\ WalkInUse /\ SteadyOnce

LEMMA FreshWalk ==
    /\ R!Fresh \in R!WalkRecords /\ R!Fresh # None
    /\ R!Fresh.left = R!Present \cup {R!Dots} /\ R!Fresh.seen = {}
    /\ R!Present \subseteq Paths
<1>1. R!Present \subseteq Paths
  BY DEF R!Present
<1>2. R!Fresh \in R!WalkRecords
  BY <1>1 DEF R!Fresh, R!WalkRecords
<1> QED
  BY <1>1, <1>2, NoneAssumption DEF R!Fresh

(* A walk w of the right type takes the place of whatever was there.       *)
LEMMA WalkSet ==
    ASSUME WalkInv, NEW w \in Walks, NEW new \in R!WalkRecords, NEW stays \in SUBSET R!Present,
           \A n \in stays : n \in new.left <=> n \notin new.seen,
           walk' = [walk EXCEPT ![w] = new], steady' = [steady EXCEPT ![w] = stays],
           entry' = entry,
           fake' \in [Files -> Walks \cup {None}],
           \A f \in Files : fake'[f] # None => fake'[f] = w \/ fake'[f] = fake[f]
    PROVE  WalkInv'
<1>0. WalkTypeOK /\ WalkInUse /\ SteadyOnce
  BY DEF WalkInv
<1>1. new # None /\ stays \subseteq Paths
  BY NoneAssumption, FreshWalk
<1>2. walk'[w] = new /\ steady'[w] = stays
  BY <1>0 DEF WalkTypeOK
<1>3. \A v \in Walks : v # w => walk'[v] = walk[v] /\ steady'[v] = steady[v]
  BY <1>0 DEF WalkTypeOK
<1>4. WalkTypeOK'
  BY <1>0, <1>1 DEF WalkTypeOK
<1>5. WalkInUse'
  BY <1>0, <1>1, <1>2, <1>3, NoneAssumption DEF WalkInUse, WalkTypeOK
<1>6. R!Present' = R!Present
  BY DEF R!Present
<1>7. SteadyOnce'
  BY <1>0, <1>2, <1>3, <1>6 DEF SteadyOnce
<1> QED
  BY <1>4, <1>5, <1>7 DEF WalkInv

(* One step of a walk that had begun, or of a fresh one.                   *)
LEMMA WalkMoves ==
    ASSUME WalkInv, NEW f \in Files, NEW w \in Walks, NEW was \in R!WalkRecords,
           NEW stays \in SUBSET R!Present,
           \A n \in stays : n \in was.left <=> n \notin was.seen,
           R!Step(f, w, was, stays)
    PROVE  \E new \in R!WalkRecords :
             /\ walk' = [walk EXCEPT ![w] = new]
             /\ \A n \in stays : n \in new.left <=> n \notin new.seen
             /\ answer'.at = None => stays \subseteq new.seen
             /\ answer'.at # None => /\ answer'.at \in Paths
                                     /\ answer'.opened = R!Exists(answer'.at)
                                     /\ answer'.at \in was.left
<1>0. was.left \subseteq Paths \cup {R!Dots} /\ was.seen \subseteq Paths
  BY DEF R!WalkRecords
<1>1. ASSUME NEW n \in was.left \ {R!Dots}, NEW dots \in {{}, {R!Dots}},
             walk' = [walk EXCEPT ![w] = [left |-> (was.left \ {n}) \ dots,
                                          seen |-> was.seen \cup {n}]],
             answer' = [file |-> f, at |-> n, opened |-> entry[n] # None]
      PROVE  \E new \in R!WalkRecords :
               /\ walk' = [walk EXCEPT ![w] = new]
               /\ \A m \in stays : m \in new.left <=> m \notin new.seen
               /\ answer'.at = None => stays \subseteq new.seen
               /\ answer'.at # None => /\ answer'.at \in Paths
                                       /\ answer'.opened = R!Exists(answer'.at)
                                       /\ answer'.at \in was.left
  <2> DEFINE new == [left |-> (was.left \ {n}) \ dots, seen |-> was.seen \cup {n}]
  <2>1. n \in Paths /\ n # None
    BY <1>0, NoneAssumption
  <2>2. new \in R!WalkRecords
    BY <1>0, <2>1 DEF R!WalkRecords
  <2>3. stays \subseteq Paths /\ R!Dots \notin stays
    BY FreshWalk, DotAssumption
  <2>4. \A m \in stays : m \in new.left <=> m \notin new.seen
    BY <2>3
  <2>5. answer'.at = n /\ answer'.opened = R!Exists(n)
    BY <1>1 DEF R!Exists
  <2> QED
    BY <1>1, <2>1, <2>2, <2>4, <2>5
<1>2. ASSUME was.left \cap stays = {},
             walk' = [walk EXCEPT ![w] = [was EXCEPT !.left = {}]],
             answer' = [file |-> f, at |-> None, opened |-> FALSE]
      PROVE  \E new \in R!WalkRecords :
               /\ walk' = [walk EXCEPT ![w] = new]
               /\ \A m \in stays : m \in new.left <=> m \notin new.seen
               /\ answer'.at = None => stays \subseteq new.seen
               /\ answer'.at # None => /\ answer'.at \in Paths
                                       /\ answer'.opened = R!Exists(answer'.at)
                                       /\ answer'.at \in was.left
  <2> DEFINE new == [was EXCEPT !.left = {}]
  <2>1. new \in R!WalkRecords /\ new.left = {} /\ new.seen = was.seen
    BY DEF R!WalkRecords
  <2>2. stays \subseteq was.seen
    BY <1>2
  <2>3. answer'.at = None
    BY <1>2
  <2> QED
    BY <1>2, <2>1, <2>2, <2>3
<1> QED
  BY <1>1, <1>2 DEF R!Step

(* What a call of openNextFile() does, and gives.                          *)
LEMMA NextFileMoves ==
    ASSUME WalkInv, NEW f \in Files, R!OpenNextFile(f)
    PROVE  /\ WalkInv'
           /\ LET w == fake'[f]
                  n == answer'.at
              IN  /\ n = None => steady'[w] \subseteq walk'[w].seen
                  /\ n # None =>
                       /\ n \in Paths
                       /\ answer'.opened = R!Exists(n)
                       /\ fake[f] = None \/ n \notin steady[w] \cap walk[w].seen
<1>0. WalkTypeOK /\ WalkInUse /\ SteadyOnce
  BY DEF WalkInv
<1>1. entry' = entry
  BY DEF R!OpenNextFile
<1>2. CASE fake[f] = None
  <2>1. PICK w \in Walks :
          /\ fake' = [fake EXCEPT ![f] = w]
          /\ steady' = [steady EXCEPT ![w] = R!Present]
          /\ R!Step(f, w, R!Fresh, R!Present)
    BY <1>2 DEF R!OpenNextFile
  <2>2. \A n \in R!Present : n \in R!Fresh.left <=> n \notin R!Fresh.seen
    BY FreshWalk
  <2>3. PICK new \in R!WalkRecords :
          /\ walk' = [walk EXCEPT ![w] = new]
          /\ \A n \in R!Present : n \in new.left <=> n \notin new.seen
          /\ answer'.at = None => R!Present \subseteq new.seen
          /\ answer'.at # None => /\ answer'.at \in Paths
                                  /\ answer'.opened = R!Exists(answer'.at)
    BY <2>1, <2>2, FreshWalk, WalkMoves
  <2>4. fake' \in [Files -> Walks \cup {None}] /\ fake'[f] = w
    BY <1>0, <2>1 DEF WalkTypeOK
  <2>5. \A g \in Files : fake'[g] # None => fake'[g] = w \/ fake'[g] = fake[g]
    BY <1>0, <2>1 DEF WalkTypeOK
  <2>6. WalkInv'
    BY <1>1, <2>1, <2>3, <2>4, <2>5, WalkSet
  <2>7. steady'[w] = R!Present /\ walk'[w] = new
    BY <1>0, <2>1, <2>3 DEF WalkTypeOK
  <2> QED
    BY <1>2, <2>3, <2>4, <2>6, <2>7
<1>3. CASE fake[f] # None
  <2> DEFINE w == fake[f]
  <2>1. /\ w \in Walks
        /\ R!Step(f, w, walk[w], steady[w])
        /\ UNCHANGED <<fake, steady>>
    BY <1>3 DEF R!OpenNextFile
  <2>2. walk[w] # None /\ walk[w] \in R!WalkRecords
    BY <1>0, <1>3, <2>1 DEF WalkInUse, WalkTypeOK
  <2>3. steady[w] \in SUBSET R!Present /\ \A n \in steady[w] : n \in walk[w].left <=> n \notin walk[w].seen
    BY <1>0, <2>1, <2>2 DEF SteadyOnce
  <2>4. PICK new \in R!WalkRecords :
          /\ walk' = [walk EXCEPT ![w] = new]
          /\ \A n \in steady[w] : n \in new.left <=> n \notin new.seen
          /\ answer'.at = None => steady[w] \subseteq new.seen
          /\ answer'.at # None => /\ answer'.at \in Paths
                                  /\ answer'.opened = R!Exists(answer'.at)
                                  /\ answer'.at \in walk[w].left
    BY <2>1, <2>2, <2>3, WalkMoves
  <2>5. steady' = [steady EXCEPT ![w] = steady[w]]
    BY <1>0, <2>1 DEF WalkTypeOK
  <2>6. fake' \in [Files -> Walks \cup {None}] /\ \A g \in Files : fake'[g] = fake[g]
    BY <1>0, <2>1 DEF WalkTypeOK
  <2>7. WalkInv'
    BY <1>1, <2>1, <2>3, <2>4, <2>5, <2>6, WalkSet
  <2>8. fake'[f] = w /\ steady'[w] = steady[w] /\ walk'[w] = new
    BY <1>0, <2>1, <2>4 DEF WalkTypeOK
  <2>9. answer'.at # None => answer'.at \notin steady[w] \cap walk[w].seen
    BY <2>3, <2>4
  <2> QED
    BY <2>4, <2>7, <2>8, <2>9
<1> QED
  BY <1>2, <1>3

(* Files that are assigned or opened again let go of their walks.          *)
LEMMA KeepKeeps ==
    ASSUME WalkInv, NEW fakes \in [Files -> Walks \cup {None}], R!Keep(fakes), entry' = entry,
           \A f \in Files : \E g \in Files : fakes[f] \in {None, fake[g]}
    PROVE  WalkInv'
<1> DEFINE kept == {fakes[f] : f \in Files}
<1>0. WalkTypeOK /\ WalkInUse /\ SteadyOnce
  BY DEF WalkInv
<1>1. /\ fake' = fakes
      /\ walk' = [w \in Walks |-> IF w \in kept THEN walk[w] ELSE None]
      /\ steady' = [w \in Walks |-> IF w \in kept THEN steady[w] ELSE {}]
  BY DEF R!Keep
<1>2. WalkTypeOK'
  BY <1>0, <1>1 DEF WalkTypeOK
<1>3. WalkInUse'
  BY <1>0, <1>1, NoneAssumption DEF WalkInUse, WalkTypeOK
<1>4. R!Present' = R!Present
  BY DEF R!Present
<1>5. SteadyOnce'
  BY <1>0, <1>1, <1>4 DEF SteadyOnce
<1> QED
  BY <1>2, <1>3, <1>5 DEF WalkInv

LEMMA WalkKept == WalkInv /\ [R!Next]_(R!vars) => WalkInv'
<1> SUFFICES ASSUME WalkInv, [R!Next]_(R!vars)
             PROVE  WalkInv'
  OBVIOUS
<1>0. WalkTypeOK /\ WalkInUse /\ SteadyOnce
  BY DEF WalkInv
<1>1. ASSUME NEW n \in Paths, NEW e, R!Come(n, e)
      PROVE  WalkInv'
  <2>1. /\ entry[n] = None
        /\ entry' = [entry EXCEPT ![n] = e]
        /\ walk' = [w \in Walks |-> IF walk[w] = None THEN None
                                    ELSE [walk[w] EXCEPT !.left = @ \cup {n}]]
        /\ UNCHANGED <<fake, steady>>
    BY <1>1 DEF R!Come
  <2>2. ASSUME NEW w \in Walks, walk[w] # None
        PROVE  /\ walk'[w] \in R!WalkRecords /\ walk'[w] # None
               /\ walk'[w].left = walk[w].left \cup {n} /\ walk'[w].seen = walk[w].seen
    <3>1. walk[w] \in R!WalkRecords /\ walk'[w] = [walk[w] EXCEPT !.left = @ \cup {n}]
      BY <1>0, <2>1, <2>2 DEF WalkTypeOK
    <3>2. /\ walk'[w] \in R!WalkRecords
          /\ walk'[w].left = walk[w].left \cup {n} /\ walk'[w].seen = walk[w].seen
      BY <3>1 DEF R!WalkRecords
    <3> QED
      BY <3>2, NoneAssumption
  <2>3. \A w \in Walks : walk[w] = None => walk'[w] = None
    BY <2>1
  <2>4. entry' = [m \in Paths |-> entry'[m]]
    BY <1>0, <2>1 DEF WalkTypeOK
  <2>5. WalkTypeOK'
    BY <1>0, <2>1, <2>2, <2>3, <2>4 DEF WalkTypeOK
  <2>6. WalkInUse'
    BY <1>0, <2>1, <2>2 DEF WalkInUse, WalkTypeOK
  <2>8. R!Present \subseteq R!Present' /\ n \notin R!Present
    BY <1>0, <2>1 DEF R!Present, WalkTypeOK
  <2>9. SteadyOnce'
    BY <1>0, <2>1, <2>2, <2>3, <2>8 DEF SteadyOnce
  <2> QED
    BY <2>5, <2>6, <2>9 DEF WalkInv
<1>2. ASSUME NEW n \in Paths, R!Go(n)
      PROVE  WalkInv'
  <2>1. /\ entry' = [entry EXCEPT ![n] = None]
        /\ steady' = [w \in Walks |-> steady[w] \ {n}]
        /\ UNCHANGED <<fake, walk>>
    BY <1>2 DEF R!Go
  <2>2. R!Present \ {n} \subseteq R!Present'
    BY <1>0, <2>1 DEF R!Present, WalkTypeOK
  <2>3. WalkTypeOK'
    BY <1>0, <2>1 DEF WalkTypeOK
  <2>4. WalkInUse'
    BY <1>0, <2>1 DEF WalkInUse
  <2>5. SteadyOnce'
    BY <1>0, <2>1, <2>2 DEF SteadyOnce
  <2> QED
    BY <2>3, <2>4, <2>5 DEF WalkInv
<1>3. ASSUME NEW f \in Files, R!RewindDirectory(f)
      PROVE  WalkInv'
  <2>1. PICK w \in Walks :
          /\ walk' = [walk EXCEPT ![w] = R!Fresh] /\ steady' = [steady EXCEPT ![w] = R!Present]
          /\ fake' = [fake EXCEPT ![f] = w]
    BY <1>3 DEF R!RewindDirectory
  <2>2. entry' = entry
    BY <1>3 DEF R!RewindDirectory
  <2>3. fake' \in [Files -> Walks \cup {None}]
        /\ \A g \in Files : fake'[g] # None => fake'[g] = w \/ fake'[g] = fake[g]
    BY <1>0, <2>1 DEF WalkTypeOK
  <2> QED
    BY <2>1, <2>2, <2>3, FreshWalk, WalkSet
<1>4. ASSUME NEW f \in Files, R!OpenNextFile(f)
      PROVE  WalkInv'
  BY <1>4, NextFileMoves
<1>5. ASSUME NEW f \in Files, NEW g \in Files, R!Copy(f, g)
      PROVE  WalkInv'
  <2> DEFINE fakes == [fake EXCEPT ![g] = fake[f]]
  <2>1. fakes \in [Files -> Walks \cup {None}]
        /\ \A h \in Files : \E k \in Files : fakes[h] \in {None, fake[k]}
    BY <1>0 DEF WalkTypeOK
  <2>2. R!Keep(fakes) /\ entry' = entry
    BY <1>5 DEF R!Copy
  <2> HIDE DEF fakes
  <2> QED
    BY <2>1, <2>2, KeepKeeps
<1>6. ASSUME NEW f \in Files, R!Reopen(f)
      PROVE  WalkInv'
  <2> DEFINE fakes == [fake EXCEPT ![f] = None]
  <2>1. fakes \in [Files -> Walks \cup {None}]
        /\ \A h \in Files : \E k \in Files : fakes[h] \in {None, fake[k]}
    BY <1>0 DEF WalkTypeOK
  <2>2. R!Keep(fakes) /\ entry' = entry
    BY <1>6 DEF R!Reopen
  <2> HIDE DEF fakes
  <2> QED
    BY <2>1, <2>2, KeepKeeps
<1>7. CASE UNCHANGED <<entry, fake, walk, steady>>
  BY <1>0, <1>7 DEF WalkInv, WalkTypeOK, WalkInUse, SteadyOnce, R!Present
<1>8. CASE R!Begin \/ R!Info
  BY <1>7, <1>8 DEF R!Begin, R!Info
<1>9. CASE UNCHANGED R!vars
  BY <1>7, <1>9 DEF R!vars
<1> QED
  BY <1>1, <1>2, <1>3, <1>4, <1>5, <1>6, <1>8, <1>9
     DEF R!Next, R!Mkdir, R!CreateFile, R!Rmdir, R!Remove

LEMMA WalkInvHolds == StorageSpec => []WalkInv
<1>1. StorageInit => WalkInv
  <2> SUFFICES ASSUME StorageInit
               PROVE  WalkInv
    OBVIOUS
  <2>1. R!Init
    BY DEF StorageInit
  <2>2. WalkTypeOK
    <3>1. entry = [n \in Paths |-> entry[n]]
      BY <2>1 DEF R!Init
    <3> QED
      BY <2>1, <3>1 DEF R!Init, WalkTypeOK
  <2>3. WalkInUse /\ SteadyOnce
    BY <2>1 DEF R!Init, WalkInUse, SteadyOnce
  <2> QED
    BY <2>2, <2>3 DEF WalkInv
<1>2. WalkInv /\ [StorageNext]_storageVars => WalkInv'
  BY WalkPart, WalkKept
<1> QED
  BY <1>1, <1>2, PTL DEF StorageSpec

LEMMA WalksComplete == StorageSpec => R!WalkComplete
<1>1. WalkInv =>
      [\A f \in Files : R!OpenNextFile(f) =>
          LET w == fake'[f]
              n == answer'.at
          IN  /\ n = None => steady'[w] \subseteq walk'[w].seen
              /\ n # None =>
                   /\ n \in Paths
                   /\ answer'.opened = R!Exists(n)
                   /\ fake[f] = None \/ n \notin steady[w] \cap walk[w].seen]_(R!vars)
  BY NextFileMoves
<1> QED
  BY <1>1, WalkInvHolds, PTL DEF R!WalkComplete

-----------------------------------------------------------------------------
(* Files and their streams.  A File that tests true has an implementation, *)
(* and that has a stream unless a copy was closed or a truncate() failed.  *)

FsTypeOK ==
    /\ dir \in [Paths -> Inodes \cup {None}]
    /\ disk \in [Inodes -> Nat]
    /\ impl \in [Impls -> F!Streams \cup {None}]
    /\ file \in [Files -> Impls \cup {None}]
Implemented == \A f \in Files : file[f] # None => impl[file[f]] # None

FsInv == FsTypeOK /\ Implemented /\ F!OpenUnlessExplained

\* The size of stream i is right, or as stale as it was.
SizeKept(i) ==
    impl'[i] # None /\ impl'[i].open =>
        LET s == impl'[i]
        IN  \/ s.size = disk'[s.inode]
            \/ impl[i] # None /\ impl[i].size = s.size /\ impl[i].open
               /\ (impl[i].size # disk[s.inode] \/ disk'[s.inode] # disk[s.inode])

\* A step that keeps the invariant and the sizes.
FsStepOK == FsInv' /\ \A i \in Impls : SizeKept(i)

(* A stream that has the same inode, size and openness is as right as it   *)
(* was.                                                                    *)
LEMMA SameSize ==
    ASSUME NEW i \in Impls, impl[i] # None, impl'[i].size = impl[i].size,
           impl'[i].inode = impl[i].inode, impl'[i].open => impl[i].open
    PROVE  SizeKept(i)
BY DEF SizeKept

(* The stream of a File changes, for all Files that hold it.               *)
LEMMA StreamSet ==
    ASSUME FsInv, NEW f \in Files, file[f] # None, NEW new \in F!Streams,
           impl' = [impl EXCEPT ![file[f]] = new],
           file' = file, dir' = dir, disk' \in [Inodes -> Nat],
           \/ new.open /\ explained' = explained
           \/ new.open /\ explained' = explained \ F!Holders(file[f])
           \/ explained' = explained \cup F!Holders(file[f])
    PROVE  /\ FsInv'
           /\ impl'[file[f]] = new
           /\ \A j \in Impls : j # file[f] => SizeKept(j)
<1> DEFINE i == file[f]
<1>0. FsTypeOK /\ Implemented /\ F!OpenUnlessExplained
  BY DEF FsInv
<1>1. i \in Impls /\ new # None
  BY <1>0, NoneAssumption DEF FsTypeOK
<1>2. impl'[i] = new /\ \A j \in Impls : j # i => impl'[j] = impl[j]
  BY <1>0, <1>1 DEF FsTypeOK
<1>3. FsTypeOK'
  BY <1>0, <1>1 DEF FsTypeOK
<1>4. Implemented'
  BY <1>0, <1>1, <1>2 DEF Implemented, FsTypeOK
<1>5. ASSUME NEW g \in Files, file'[g] # None, g \notin explained'
      PROVE  ~F!Closed(g)'
  <2>1. CASE file[g] = i
    BY <1>1, <1>2, <1>5, <2>1 DEF F!Closed, F!Holders
  <2>2. CASE file[g] # i
    <3>1. g \notin explained /\ file[g] # None /\ file[g] \in Impls
      BY <1>0, <1>5, <2>2 DEF F!Holders, FsTypeOK
    <3> QED
      BY <1>0, <1>2, <2>2, <3>1 DEF F!Closed, F!OpenUnlessExplained
  <2> QED
    BY <2>1, <2>2
<1>6. F!OpenUnlessExplained'
  BY <1>5 DEF F!OpenUnlessExplained
<1>7. \A j \in Impls : j # i => SizeKept(j)
  BY <1>2 DEF SizeKept
<1> QED
  BY <1>2, <1>3, <1>4, <1>6, <1>7 DEF FsInv

LEMMA FlushedDisk ==
    ASSUME FsTypeOK, NEW s \in F!Streams
    PROVE  F!Flushed(s) \in [Inodes -> Nat] /\ F!Position(s) \in Nat
<1>1. s.inode \in Inodes /\ s.pos \in Nat /\ s.buf \in Nat
  BY DEF F!Streams
<1>2. disk[s.inode] \in Nat
  BY <1>1 DEF FsTypeOK
<1>3. F!Offset(s) \in Nat
  BY <1>1, <1>2 DEF F!Offset
<1>4. F!Position(s) \in Nat
  BY <1>1, <1>3 DEF F!Position
<1>5. F!Larger(disk[s.inode], F!Position(s)) \in Nat
  BY <1>2, <1>4 DEF F!Larger
<1> QED
  BY <1>1, <1>2, <1>4, <1>5 DEF F!Flushed, FsTypeOK

LEMMA ModesKnown ==
    ASSUME NEW mode
    PROVE  F!Rsflags(F!Sflags(mode)) \in F!ModeStrings
BY DEF F!Rsflags, F!Sflags, F!ModeStrings

(* A stream that fopen() yields.                                           *)
LEMMA NewStream ==
    ASSUME NEW path \in Paths, NEW m \in F!ModeStrings, NEW n \in Inodes,
           NEW contents \in [Inodes -> Nat]
    PROVE  LET new == F!Stream(path, m, n, contents)
           IN  /\ new \in F!Streams /\ new # None /\ new.open
               /\ new.size = contents[n] /\ new.inode = n
<1>1. F!Stream(path, m, n, contents) \in F!Streams
  BY DEF F!Stream, F!Streams
<1> QED
  BY <1>1, NoneAssumption DEF F!Stream

(* The File's stream, while it is there.                                   *)
LEMMA HeldStream ==
    ASSUME FsInv, NEW f \in Files, file[f] # None
    PROVE  file[f] \in Impls /\ impl[file[f]] \in F!Streams /\ impl[file[f]] # None
BY DEF FsInv, FsTypeOK, Implemented

LEMMA OpenOK ==
    ASSUME FsInv, NEW f \in Files, NEW path \in Paths, NEW mode, F!Open(f, path, mode)
    PROVE  FsStepOK
<1> DEFINE m == F!Rsflags(F!Sflags(mode))
           n == F!Opened(path, m)
           empty == n # None /\ (m[1] = "w" \/ dir[path] = None)
           disk1 == IF empty THEN [disk EXCEPT ![n] = 0] ELSE disk
<1>0. FsTypeOK /\ Implemented /\ F!OpenUnlessExplained
  BY DEF FsInv
<1>1. PICK i \in Impls :
        /\ impl[i] = None
        /\ impl' = [impl EXCEPT ![i] = F!Stream(path, m, n, disk1)]
        /\ file' = [file EXCEPT ![f] = i]
  BY DEF F!Open
<1>2. /\ n # None /\ disk' = disk1 /\ file[f] = None
      /\ dir' = [dir EXCEPT ![path] = n] /\ explained' = explained
  BY DEF F!Open
<1>3. m \in F!ModeStrings
  BY ModesKnown
<1>4. n \in Inodes
  <2>1. CASE dir[path] # None
    BY <1>0, <2>1 DEF F!Opened, FsTypeOK
  <2>2. CASE dir[path] = None
    <3>1. n = F!FreeInode /\ ~(Inodes \subseteq F!Used)
      BY <1>2, <2>2 DEF F!Opened
    <3> QED
      BY <3>1 DEF F!FreeInode
  <2> QED
    BY <2>1, <2>2
<1> HIDE DEF m, n
<1>5. disk1 \in [Inodes -> Nat]
  BY <1>0, <1>4 DEF FsTypeOK
<1> HIDE DEF disk1
<1> DEFINE new == F!Stream(path, m, n, disk1)
<1>6. new \in F!Streams /\ new # None /\ new.open /\ new.size = disk1[n] /\ new.inode = n
  BY <1>3, <1>4, <1>5, NewStream
<1> HIDE DEF new
<1>7. impl'[i] = new /\ \A j \in Impls : j # i => impl'[j] = impl[j]
  BY <1>0, <1>1 DEF FsTypeOK, new
<1>8. i # None /\ file'[f] = i /\ \A g \in Files : g # f => file'[g] = file[g]
  BY <1>0, <1>1, NoneAssumption DEF FsTypeOK
<1>9. FsTypeOK'
  BY <1>0, <1>1, <1>2, <1>4, <1>5, <1>6 DEF FsTypeOK, new
<1>10. \A g \in Files : file[g] # i
  BY <1>0, <1>1, <1>8 DEF Implemented
<1>11. Implemented'
  BY <1>0, <1>6, <1>7, <1>8, <1>10 DEF Implemented, FsTypeOK
<1>12. F!OpenUnlessExplained'
  <2> SUFFICES ASSUME NEW g \in Files, file'[g] # None, g \notin explained'
               PROVE  ~F!Closed(g)'
    BY DEF F!OpenUnlessExplained
  <2>1. CASE g = f
    BY <1>6, <1>7, <1>8, <2>1 DEF F!Closed
  <2>2. CASE g # f
    <3>1. file[g] # None /\ file[g] # i /\ file[g] \in Impls /\ ~F!Closed(g)
      BY <1>0, <1>2, <1>8, <1>10, <2>2 DEF F!OpenUnlessExplained, FsTypeOK
    <3> QED
      BY <1>7, <1>8, <2>2, <3>1 DEF F!Closed
  <2> QED
    BY <2>1, <2>2
<1>13. ASSUME NEW j \in Impls
       PROVE  SizeKept(j)
  BY <1>2, <1>6, <1>7 DEF SizeKept
<1> QED
  BY <1>9, <1>11, <1>12, <1>13 DEF FsStepOK, FsInv

(* Reading, writing and seeking leave inode, size and openness alone.      *)
LEMMA UseOK ==
    ASSUME FsInv, NEW f \in Files, file[f] # None, ~F!Closed(f), NEW new \in F!Streams,
           impl' = [impl EXCEPT ![file[f]] = new],
           new.open, new.inode = impl[file[f]].inode, new.size = impl[file[f]].size,
           file' = file, dir' = dir, disk' \in [Inodes -> Nat], explained' = explained
    PROVE  FsStepOK
<1>1. FsInv' /\ impl'[file[f]] = new /\ \A j \in Impls : j # file[f] => SizeKept(j)
  BY StreamSet
<1>2. SizeKept(file[f])
  BY <1>1, HeldStream, SameSize DEF F!Closed
<1> QED
  BY <1>1, <1>2 DEF FsStepOK

LEMMA WriteReadOK ==
    ASSUME FsInv, NEW f \in Files, F!Write(f) \/ F!Read(f)
    PROVE  FsStepOK
<1> DEFINE s == impl[file[f]]
<1>0. file[f] # None /\ ~F!Closed(f) /\ UNCHANGED <<dir, disk, file, explained>>
  BY DEF F!Write, F!Read
<1>1. s \in F!Streams /\ file[f] \in Impls /\ s.open
  BY <1>0, HeldStream DEF F!Closed
<1>2. disk \in [Inodes -> Nat]
  BY DEF FsInv, FsTypeOK
<1>3. CASE F!Write(f)
  <2> DEFINE new == [s EXCEPT !.buf = @ + 1]
  <2>1. impl' = [impl EXCEPT ![file[f]] = new]
    BY <1>3 DEF F!Write
  <2>2. new \in F!Streams /\ new.open /\ new.inode = s.inode /\ new.size = s.size
    BY <1>1 DEF F!Streams
  <2> HIDE DEF new
  <2> QED
    BY <1>0, <1>2, <2>1, <2>2, UseOK
<1>4. CASE F!Read(f)
  <2> DEFINE new == [s EXCEPT !.pos = @ + 1]
  <2>1. impl' = [impl EXCEPT ![file[f]] = new]
    BY <1>4 DEF F!Read
  <2>2. new \in F!Streams /\ new.open /\ new.inode = s.inode /\ new.size = s.size
    BY <1>1 DEF F!Streams
  <2> HIDE DEF new
  <2> QED
    BY <1>0, <1>2, <2>1, <2>2, UseOK
<1> QED
  BY <1>3, <1>4

LEMMA SeekOK ==
    ASSUME FsInv, NEW f \in Files, NEW pos \in Nat, F!Seek(f, pos)
    PROVE  FsStepOK
<1> DEFINE s == impl[file[f]]
           new == [s EXCEPT !.buf = 0, !.pos = pos]
<1>0. /\ file[f] # None /\ ~F!Closed(f) /\ UNCHANGED <<dir, file, explained>>
      /\ disk' = F!Flushed(s)
      /\ impl' = [impl EXCEPT ![file[f]].buf = 0, ![file[f]].pos = pos]
  BY DEF F!Seek
<1>1. s \in F!Streams /\ file[f] \in Impls /\ s.open
  BY <1>0, HeldStream DEF F!Closed
<1>2. impl' = [impl EXCEPT ![file[f]] = new]
  BY <1>0, <1>1 DEF FsInv, FsTypeOK
<1>3. new \in F!Streams /\ new.open /\ new.inode = s.inode /\ new.size = s.size
  BY <1>1 DEF F!Streams
<1>4. disk' \in [Inodes -> Nat]
  BY <1>0, <1>1, FlushedDisk DEF FsInv
<1> HIDE DEF new
<1> QED
  BY <1>0, <1>2, <1>3, <1>4, UseOK

LEMMA CloseOK ==
    ASSUME FsInv, NEW f \in Files, F!Close(f)
    PROVE  FsStepOK
<1> DEFINE i == file[f]
           s == impl[i]
           shut == [s EXCEPT !.open = FALSE, !.buf = 0, !.pos = 0]
<1>0. FsTypeOK /\ Implemented /\ F!OpenUnlessExplained
  BY DEF FsInv
<1>1. /\ file[f] # None
      /\ disk' = IF s.open THEN F!Flushed(s) ELSE disk
      /\ impl' = [impl EXCEPT ![i] = IF F!Holders(i) = {f} THEN None ELSE shut]
      /\ explained' = (explained \cup F!Holders(i)) \ {f}
      /\ file' = [file EXCEPT ![f] = None] /\ dir' = dir
  BY DEF F!Close
<1>2. i \in Impls /\ s \in F!Streams
  BY <1>1, HeldStream
<1>3. disk' \in [Inodes -> Nat]
  BY <1>0, <1>1, <1>2, FlushedDisk DEF FsTypeOK
<1>4. shut \in F!Streams /\ shut # None /\ ~shut.open
  <2>1. shut \in F!Streams /\ ~shut.open
    BY <1>2 DEF F!Streams
  <2> QED
    BY <2>1, NoneAssumption
<1>5. /\ impl'[i] = IF F!Holders(i) = {f} THEN None ELSE shut
      /\ \A j \in Impls : j # i => impl'[j] = impl[j]
  BY <1>0, <1>1, <1>2 DEF FsTypeOK
<1>6. file'[f] = None /\ \A g \in Files : g # f => file'[g] = file[g]
  BY <1>0, <1>1 DEF FsTypeOK
<1> HIDE DEF shut
<1>7. FsTypeOK'
  BY <1>0, <1>1, <1>3, <1>4 DEF FsTypeOK
<1>8. ASSUME NEW g \in Files, file'[g] # None
      PROVE  impl'[file'[g]] # None /\ (g \notin explained' => impl'[file'[g]].open)
  <2>1. g # f /\ file'[g] = file[g]
    BY <1>6, <1>8
  <2>2. CASE file[g] = i
    <3>1. F!Holders(i) # {f} /\ g \in explained'
      BY <1>1, <2>1, <2>2 DEF F!Holders
    <3> QED
      BY <1>4, <1>5, <2>1, <2>2, <3>1
  <2>3. CASE file[g] # i
    <3>1. file[g] \in Impls /\ (g \notin explained' => g \notin explained)
      BY <1>0, <1>1, <1>8, <2>1, <2>3 DEF F!Holders, FsTypeOK
    <3> QED
      BY <1>0, <1>5, <1>8, <2>1, <2>3, <3>1 DEF Implemented, F!OpenUnlessExplained, F!Closed
  <2> QED
    BY <2>2, <2>3
<1>9. Implemented' /\ F!OpenUnlessExplained'
  BY <1>8 DEF Implemented, F!OpenUnlessExplained, F!Closed
<1>10. ASSUME NEW j \in Impls
       PROVE  SizeKept(j)
  BY <1>4, <1>5 DEF SizeKept
<1> QED
  BY <1>7, <1>9, <1>10 DEF FsStepOK, FsInv

LEMMA TruncateOK ==
    ASSUME FsInv, NEW f \in Files, NEW n \in Nat, F!Truncate(f, n)
    PROVE  FsStepOK
<1> DEFINE i == file[f]
           s == impl[i]
           disk1 == IF s.open THEN F!Flushed(s) ELSE disk
           node == dir[s.path]
           size == IF s.mode[1] = "w" THEN 0 ELSE n
<1>0. FsTypeOK
  BY DEF FsInv
<1>1. file[f] # None /\ UNCHANGED <<dir, file>>
  BY DEF F!Truncate
<1>2. i \in Impls /\ s \in F!Streams
  BY <1>1, HeldStream
<1>3. disk1 \in [Inodes -> Nat] /\ size \in Nat
  BY <1>0, <1>2, FlushedDisk DEF FsTypeOK
<1>4. s.path \in Paths /\ s.mode \in F!ModeStrings
  BY <1>2 DEF F!Streams
<1>5. CASE node = None
  <2> DEFINE new == [s EXCEPT !.open = FALSE, !.buf = 0, !.pos = 0]
  <2>1. /\ disk' = disk1
        /\ impl' = [impl EXCEPT ![i].open = FALSE, ![i].buf = 0, ![i].pos = 0]
        /\ explained' = explained \cup F!Holders(i)
    BY <1>5 DEF F!Truncate
  <2>2. impl' = [impl EXCEPT ![i] = new]
    BY <1>0, <1>2, <2>1 DEF FsTypeOK
  <2>3. new \in F!Streams /\ ~new.open
    BY <1>2 DEF F!Streams
  <2> HIDE DEF new
  <2>4. FsInv' /\ impl'[i] = new /\ \A j \in Impls : j # i => SizeKept(j)
    BY <1>1, <1>3, <2>1, <2>2, <2>3, StreamSet
  <2>5. SizeKept(i)
    BY <2>3, <2>4 DEF SizeKept
  <2> QED
    BY <2>4, <2>5 DEF FsStepOK
<1>6. CASE node # None
  <2> DEFINE new == F!Stream(s.path, s.mode, node, disk')
  <2>1. /\ disk' = [disk1 EXCEPT ![node] = size]
        /\ impl' = [impl EXCEPT ![i] = new]
        /\ explained' = explained \ F!Holders(i)
    BY <1>6 DEF F!Truncate
  <2>2. node \in Inodes
    BY <1>0, <1>4, <1>6 DEF FsTypeOK
  <2>3. disk' \in [Inodes -> Nat]
    BY <1>3, <2>1, <2>2
  <2>4. new \in F!Streams /\ new.open /\ new.size = disk'[new.inode]
    BY <1>4, <2>2, <2>3, NewStream
  <2> HIDE DEF new
  <2>5. FsInv' /\ impl'[i] = new /\ \A j \in Impls : j # i => SizeKept(j)
    BY <1>1, <2>1, <2>3, <2>4, StreamSet
  <2>6. SizeKept(i)
    BY <2>4, <2>5 DEF SizeKept
  <2> QED
    BY <2>5, <2>6 DEF FsStepOK
<1> QED
  BY <1>5, <1>6

LEMMA CopyOK ==
    ASSUME FsInv, NEW f \in Files, NEW g \in Files, F!Copy(f, g)
    PROVE  FsStepOK
<1>0. FsTypeOK /\ Implemented /\ F!OpenUnlessExplained
  BY DEF FsInv
<1>1. /\ file[f] # None /\ file' = [file EXCEPT ![g] = file[f]]
      /\ explained' = IF f \in explained THEN explained \cup {g} ELSE explained
      /\ UNCHANGED <<dir, disk, impl>>
  BY DEF F!Copy
<1>2. FsTypeOK'
  BY <1>0, <1>1 DEF FsTypeOK
<1>3. Implemented'
  BY <1>0, <1>1 DEF Implemented, FsTypeOK
<1>4. F!OpenUnlessExplained'
  BY <1>0, <1>1 DEF F!OpenUnlessExplained, F!Closed, FsTypeOK
<1>5. \A i \in Impls : SizeKept(i)
  BY <1>1 DEF SizeKept
<1> QED
  BY <1>2, <1>3, <1>4, <1>5 DEF FsStepOK, FsInv

(* Renames and removals change the directory only.                         *)
LEMMA DirectoryOK ==
    ASSUME FsInv, dir' \in [Paths -> Inodes \cup {None}],
           UNCHANGED <<disk, impl, file, explained>>
    PROVE  FsStepOK
BY DEF FsStepOK, FsInv, FsTypeOK, Implemented, F!OpenUnlessExplained, F!Closed, SizeKept

LEMMA FsStep1 ==
    ASSUME FsInv, [F!Next]_(F!vars)
    PROVE  FsStepOK
<1>0. FsTypeOK
  BY DEF FsInv
<1>1. ASSUME NEW f \in Files, NEW p \in Paths, NEW m \in Modes, F!Open(f, p, m)
      PROVE  FsStepOK
  BY <1>1, OpenOK
<1>2. ASSUME NEW f \in Files, NEW g \in Files, F!Copy(f, g)
      PROVE  FsStepOK
  BY <1>2, CopyOK
<1>3. CASE UNCHANGED <<dir, disk, impl, file, explained>>
  BY <1>0, <1>3, DirectoryOK DEF FsTypeOK
<1>4. ASSUME NEW f \in Files, F!UseNull(f)
      PROVE  FsStepOK
  BY <1>3, <1>4 DEF F!UseNull
<1>5. ASSUME NEW f \in Files, F!Write(f) \/ F!Read(f)
      PROVE  FsStepOK
  BY <1>5, WriteReadOK
<1>6. ASSUME NEW f \in Files, F!Flush(f)
      PROVE  FsStepOK
  <2>1. file[f] # None /\ F!Seek(f, F!Position(impl[file[f]]))
    BY <1>6 DEF F!Flush
  <2>2. F!Position(impl[file[f]]) \in Nat
    BY <1>0, <2>1, HeldStream, FlushedDisk
  <2> QED
    BY <2>1, <2>2, SeekOK
<1>7. ASSUME NEW f \in Files, F!Close(f)
      PROVE  FsStepOK
  BY <1>7, CloseOK
<1>8. ASSUME NEW f \in Files, NEW n \in 0..1, F!Seek(f, n) \/ F!Truncate(f, n)
      PROVE  FsStepOK
  <2>1. n \in Nat
    OBVIOUS
  <2> QED
    BY <1>8, <2>1, SeekOK, TruncateOK
<1>9. ASSUME NEW p \in Paths, NEW q \in Paths, F!Rename(p, q)
      PROVE  FsStepOK
  <2>1. dir' \in [Paths -> Inodes \cup {None}]
    BY <1>0, <1>9 DEF F!Rename, FsTypeOK
  <2> QED
    BY <1>9, <2>1, DirectoryOK DEF F!Rename
<1>10. ASSUME NEW p \in Paths, F!Remove(p)
       PROVE  FsStepOK
  <2>1. dir' \in [Paths -> Inodes \cup {None}]
    BY <1>0, <1>10 DEF F!Remove, FsTypeOK
  <2> QED
    BY <1>10, <2>1, DirectoryOK DEF F!Remove
<1>11. CASE F!Format
  <2>1. dir' \in [Paths -> Inodes \cup {None}]
    BY <1>11 DEF F!Format
  <2> QED
    BY <1>11, <2>1, DirectoryOK DEF F!Format
<1>12. CASE UNCHANGED F!vars
  BY <1>3, <1>12 DEF F!vars
<1> QED
  BY <1>1, <1>2, <1>4, <1>5, <1>6, <1>7, <1>8, <1>9, <1>10, <1>11, <1>12 DEF F!Next

LEMMA FsInvHolds == StorageSpec => []FsInv
<1>1. StorageInit => FsInv
  <2> SUFFICES ASSUME StorageInit
               PROVE  FsInv
    OBVIOUS
  <2>1. F!Init
    BY DEF StorageInit
  <2>2. FsTypeOK
    BY <2>1 DEF F!Init, FsTypeOK
  <2>3. Implemented /\ F!OpenUnlessExplained
    BY <2>1 DEF F!Init, Implemented, F!OpenUnlessExplained
  <2> QED
    BY <2>2, <2>3 DEF FsInv
<1>2. FsInv /\ [StorageNext]_storageVars => FsInv'
  BY FsPart, FsStep1 DEF FsStepOK
<1> QED
  BY <1>1, <1>2, PTL DEF StorageSpec

LEMMA SizesKept == StorageSpec => F!SizeStaleOnlyByWrites
<1>1. FsInv /\ [StorageNext]_storageVars =>
      [\A i \in Impls :
        impl'[i] # None /\ impl'[i].open =>
            LET s == impl'[i]
            IN  \/ s.size = disk'[s.inode]
                \/ impl[i] # None /\ impl[i].size = s.size /\ impl[i].open
                   /\ (impl[i].size # disk[s.inode] \/ disk'[s.inode] # disk[s.inode])]_(F!vars)
  BY FsPart, FsStep1 DEF FsStepOK, SizeKept
<1> QED
  BY <1>1, FsInvHolds, PTL DEF StorageSpec, F!SizeStaleOnlyByWrites

(* A File that tests true has a stream, unless a copy of it was closed or  *)
(* its truncate() failed; the size it reports goes wrong only when         *)
(* somebody writes to the file; and a walk over a directory misses nothing *)
(* that stays and gives nothing twice (FS.cpp, EpoxyFS.cpp).               *)
THEOREM FilesAreKept == StorageSpec => FilesKept
<1>1. FsInv => F!OpenUnlessExplained
  BY DEF FsInv
<1> QED
  BY <1>1, FsInvHolds, SizesKept, WalksComplete, PTL DEF FilesKept
=============================================================================
