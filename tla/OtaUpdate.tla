----------------------------- MODULE OtaUpdate -----------------------------
(***************************************************************************)
(* The host's Update object, libraries/EpoxyUpdate: every call succeeds,   *)
(* and with a sink directory begin(), write(), end() and abort() leave     *)
(* three files there for a test to read.  Any file operation may fail      *)
(* (remove() of a file this program wrote is taken to succeed) and the     *)
(* process may die between any two of them.  A file carries the number of  *)
(* the update that wrote it, which is not in the real file, so that the    *)
(* property can say which files belong together.                           *)
(***************************************************************************)
EXTENDS Integers, Sequences

CONSTANTS None,        \* the file is absent
          Sources,     \* URLs, "" for an upload
          MaxUpdates,  \* bound: calls of begin()
          MaxChunks    \* bound: calls of write() in an update

VARIABLES
    sink,        \* EPOXY_UPDATE_SINK_DIR names a directory
    running,     \* UpdateClass::running
    source,      \* EpoxyUpdateSetSource()'s URL
    image,       \* the image file is open
    written,     \* bytes passed to write(), counted
    sinkFailed,  \* a sink operation of this update failed
    beginFile, imageFile, endFile,
    starting,    \* what begin() still does: "", "record" or "image"
    update,      \* number of the update
    given        \* what write() was given since begin()

vars == <<sink, running, source, image, written, sinkFailed, beginFile,
          imageFile, endFile, starting, update, given>>
files == <<beginFile, imageFile, endFile>>

\* What the files hold.
BeginRecords == [update : Nat, source : Sources \cup {""}, whole : BOOLEAN]
Images == [update : Nat, bytes : Seq(Nat)]

Init ==
    /\ sink \in BOOLEAN
    /\ running = FALSE /\ source = "" /\ image = FALSE /\ written = 0
    /\ sinkFailed = FALSE /\ starting = "" /\ update = 0 /\ given = <<>>
    /\ beginFile = None /\ imageFile = None /\ endFile = None

SetSource(url) ==
    /\ starting = "" /\ source' = url
    /\ UNCHANGED <<sink, running, image, written, sinkFailed, files, starting, update, given>>

\* Mutant: the previous end record stays.
BeginKeepingEnd ==
    /\ starting = "" /\ update < MaxUpdates
    /\ update' = update + 1
    /\ running' = TRUE /\ written' = 0 /\ given' = <<>>
    /\ image' = FALSE /\ sinkFailed' = FALSE
    /\ IF sink THEN starting' = "record" /\ UNCHANGED source
               ELSE source' = "" /\ UNCHANGED starting
    /\ UNCHANGED <<sink, beginFile, imageFile, endFile>>

(* begin(): the previous image is closed, the previous end record goes     *)
(* first of all, then the begin record and the image are written.          *)
Begin ==
    /\ starting = "" /\ update < MaxUpdates
    /\ update' = update + 1
    /\ running' = TRUE /\ written' = 0 /\ given' = <<>>
    /\ image' = FALSE /\ sinkFailed' = FALSE
    /\ IF sink THEN endFile' = None /\ starting' = "record" /\ UNCHANGED source
               ELSE source' = "" /\ UNCHANGED <<endFile, starting>>
    /\ UNCHANGED <<sink, beginFile, imageFile>>

(* fopen() fails, or the file is truncated and then written or not.        *)
BeginRecord ==
    /\ starting = "record"
    /\ \E whole \in BOOLEAN :
        /\ beginFile' \in {[update |-> update, source |-> source, whole |-> whole]}
                          \cup (IF whole THEN {} ELSE {beginFile})
        /\ sinkFailed' = (sinkFailed \/ ~whole)
    /\ starting' = "image"
    /\ UNCHANGED <<sink, running, source, image, written, imageFile, endFile, update, given>>

BeginImage ==
    /\ starting = "image"
    /\ \/ image' = TRUE /\ imageFile' = [update |-> update, bytes |-> <<>>]
          /\ UNCHANGED sinkFailed
       \/ sinkFailed' = TRUE /\ UNCHANGED <<image, imageFile>>
    /\ source' = "" /\ starting' = ""
    /\ UNCHANGED <<sink, running, written, beginFile, endFile, update, given>>

(* write(), while the update runs: fwrite() and fflush(), all or nothing.  *)
Write(chunk) ==
    /\ running /\ starting = "" /\ written < MaxChunks
    /\ written' = written + 1
    /\ given' = Append(given, chunk)
    /\ \/ image /\ imageFile' = [imageFile EXCEPT !.bytes = Append(@, chunk)]
          /\ UNCHANGED sinkFailed
       \/ image /\ sinkFailed' = TRUE /\ UNCHANGED imageFile
       \/ ~image /\ UNCHANGED <<imageFile, sinkFailed>>
    /\ UNCHANGED <<sink, running, source, image, beginFile, endFile, starting, update>>

(* end() and abort(): the image is closed, which may fail, and the record  *)
(* says ok only if nothing failed.  fopen() may fail, the record be cut.   *)
Finish(ok) ==
    /\ running /\ starting = ""
    /\ running' = FALSE /\ image' = FALSE
    /\ \E closed \in BOOLEAN, opens \in BOOLEAN, whole \in BOOLEAN :
        LET failed == sinkFailed \/ (image /\ ~closed)
        IN  /\ endFile' = IF ~sink \/ ~opens THEN endFile
                          ELSE [update |-> update, ok |-> ok /\ ~failed,
                                written |-> written, whole |-> whole]
            /\ sinkFailed' = (failed \/ (sink /\ opens /\ ~whole))
    /\ UNCHANGED <<sink, source, written, beginFile, imageFile, starting, update, given>>

Crash ==
    /\ running \/ starting # ""
    /\ running' = FALSE /\ source' = "" /\ image' = FALSE /\ written' = 0
    /\ sinkFailed' = FALSE /\ starting' = "" /\ given' = <<>>
    /\ UNCHANGED <<sink, files, update>>

Next ==
    \/ \E url \in Sources : SetSource(url)
    \/ Begin \/ BeginRecord \/ BeginImage \/ Crash
    \/ \E chunk \in 1..MaxChunks : Write(chunk)
    \/ \E ok \in BOOLEAN : Finish(ok)

Spec == Init /\ [][Next]_vars

-----------------------------------------------------------------------------
(* A test may trust an end record that says ok: begin record and image are *)
(* of the same update and complete, whatever failed or died before, and    *)
(* the image is every byte passed to write(), in order (Update.h).         *)
OkMeansRecorded ==
    endFile # None /\ endFile.whole /\ endFile.ok =>
        /\ starting = ""
        /\ beginFile # None /\ beginFile.update = endFile.update /\ beginFile.whole
        /\ imageFile # None /\ imageFile.update = endFile.update
        /\ Len(imageFile.bytes) = endFile.written
        /\ ~running /\ update = endFile.update => imageFile.bytes = given
=============================================================================
