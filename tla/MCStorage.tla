------------------------------ MODULE MCStorage ------------------------------
(***************************************************************************)
(* One run for what outlives the program, in files of the host: two EEPROM *)
(* libraries, the sink of OTA updates, the file system and its directory;  *)
(* and for the terminal it runs on.  They share no state, so a behaviour   *)
(* exercises one of them and leaves the others at an initial state.        *)
(***************************************************************************)
EXTENDS EepromEspConstants

CONSTANTS AvrValues, Length,
          None, Sources, MaxUpdates, MaxChunks,
          Paths, Inodes, Impls, Files, Modes, MaxSize,
          Walks

VARIABLES
  part,   \* what is used: "esp", "avr", "ota", "fs", "walk" or "terminal"
  core, espFile, data, dirty, bypassed, saving, closing,
  avrFile, fd, ref, putting, shadow,
  sink, running, source, image, written, sinkFailed, beginFile, imageFile, endFile,
  starting, update, given,
  dir, disk, impl, file, explained, crashed,
  root, mounted, entry, fake, walk, answer, steady,
  tty, term, flags, before, origTermios, origFlags, inRawMode, inNonBlockingMode, pc, lost, echoed

MCModes == {<<"r">>, <<"w">>}

E == INSTANCE EepromEsp WITH file <- espFile
A == INSTANCE EepromAvr WITH file <- avrFile, Values <- AvrValues, Zero <- 0
O == INSTANCE OtaUpdate
F == INSTANCE FileSystem
R == INSTANCE Directory WITH Names <- Paths
T == INSTANCE Terminal

(* "No such thing" is neither a name, nor a handle, nor one of the records *)
(* it stands in for; and "." is not an entry of a directory.               *)
ASSUME SizeAssumption == Length \in Nat /\ MaxChunks \in Nat
ASSUME NoneAssumption ==
  /\ None \notin Paths /\ None \notin Inodes /\ None \notin Impls /\ None \notin Walks
  /\ None \notin O!BeginRecords /\ None \notin O!Images
  /\ None \notin F!Streams
  /\ None \notin R!WalkRecords
ASSUME DotAssumption == R!Dots \notin Paths

espVars == <<core, espFile, data, dirty, bypassed, saving, closing>>
avrVars == <<avrFile, fd, ref, putting, shadow>>
otaVars == <<sink, running, source, image, written, sinkFailed, beginFile, imageFile,
             endFile, starting, update, given>>
fsVars  == <<dir, disk, impl, file, explained, crashed>>
walkVars == <<root, mounted, entry, fake, walk, answer, steady>>
ttyVars == <<tty, term, flags, before, origTermios, origFlags, inRawMode, inNonBlockingMode,
             pc, lost, echoed>>
storageVars == <<part, espVars, avrVars, otaVars, fsVars, walkVars, ttyVars>>

\* The initial states that matter to one part only are fixed for the others.
StorageInit ==
  /\ part \in {"esp", "avr", "ota", "fs", "walk", "terminal"}
  /\ E!Init /\ A!Init /\ O!Init /\ F!Init /\ R!Init /\ T!Init
  /\ part # "esp" => core = "esp32"
  /\ part # "avr" => avrFile = <<>>
  /\ part # "ota" => ~sink
  /\ part # "walk" => root = "absent"
  /\ part # "terminal" => ~flags /\ term = [echo |-> TRUE, canon |-> TRUE] /\ tty["in"] /\ tty["out"]

EspStep ==
  part = "esp" /\ E!Next /\ UNCHANGED <<part, avrVars, otaVars, fsVars, walkVars, ttyVars>>
AvrStep ==
  part = "avr" /\ A!Next /\ UNCHANGED <<part, espVars, otaVars, fsVars, walkVars, ttyVars>>
OtaStep ==
  part = "ota" /\ O!Next /\ UNCHANGED <<part, espVars, avrVars, fsVars, walkVars, ttyVars>>
FsStep ==
  part = "fs" /\ F!Next /\ UNCHANGED <<part, espVars, avrVars, otaVars, walkVars, ttyVars>>
WalkStep ==
  part = "walk" /\ R!Next /\ UNCHANGED <<part, espVars, avrVars, otaVars, fsVars, ttyVars>>
TerminalStep ==
  part = "terminal" /\ T!Next /\ UNCHANGED <<part, espVars, avrVars, otaVars, fsVars, walkVars>>

StorageNext == EspStep \/ AvrStep \/ OtaStep \/ FsStep \/ WalkStep \/ TerminalStep

StorageSpec == StorageInit /\ [][StorageNext]_storageVars

-----------------------------------------------------------------------------
(* The properties are those of the modules.                                 *)

\* What an EEPROM says is stored is what a restart reads.
EepromPersists == E!CleanIsOnDisk /\ A!CellsPersist

\* An end record that says ok stands for a complete image of the same update.
OkMeansRecorded == O!OkMeansRecorded

\* A File that tests true has a stream, unless a copy was closed or truncated; the
\* size it reports goes stale only when somebody writes to the file; and a loop over
\* a directory misses nothing that stays in it.
FilesKept == []F!OpenUnlessExplained /\ F!SizeStaleOnlyByWrites /\ R!WalkComplete

\* A program that exits leaves the terminal and stdin as it found them.
TerminalKept == T!TerminalKept
=============================================================================
