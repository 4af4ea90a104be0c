----------------------------- MODULE PrivateFiles -----------------------------
(***************************************************************************)
(* The exporters, system call by system call, and programs that run them   *)
(* at once or one after another on the same paths:                         *)
(*   images     save_mosaics (maps.py) and save_embedded_webps (media.py): *)
(*              one open_new_private (_private.py) after another;          *)
(*   ply        export_ply (voxels.py): a temporary file, linked in place; *)
(*   recording  record_telemetry (telemetry.py): a directory of its own,   *)
(*              a file per event, the manifest last.                       *)
(* Any call may fail, and a program may die between two of them.  An       *)
(* interrupt is a failure where the code has a handler and as good as a    *)
(* death where it has none.                                                *)
(***************************************************************************)
EXTENDS Naturals, Sequences

CONSTANTS
    Programs,   (* runs of the program, rivals and retries alike            *)
    Nobody,     (* who holds a file that does not exist                     *)
    Images,     (* paths of images                                          *)
    MaxEvents   (* bound: events in a recording                             *)

ASSUME FilesAssumption == Nobody \notin Programs /\ MaxEvents \in Nat

Ply == <<"ply">>
Manifest == <<"manifest">>
Event(n) == <<"event", n>>
Events == {Event(n) : n \in 1..MaxEvents}
Paths == Images \cup Events \cup {Ply, Manifest}

ASSUME PathsAssumption == Images \cap (Events \cup {Ply, Manifest}) = {}

VARIABLES
    files,      \* what is at each path, and who put it there
    temporary,  \* what is in each program's temporary file
    recorded,   \* the directory of the recording exists
    pc,         \* where each program is
    todo,       \* images still to be saved
    saved,      \* paths that the program has finished with
    records     \* events it has recorded

fileVars == <<files, temporary, recorded, pc, todo, saved, records>>

Contents == {"nothing", "torn", "whole"}
Nothing == [content |-> "nothing", by |-> Nobody]
Torn(p) == [content |-> "torn", by |-> p]
Whole(p) == [content |-> "whole", by |-> p]

ImagePlaces == {"save", "image", "imageSync", "imageUnlink"}
PlyPlaces == {"temporary", "ply", "plySync", "link", "unlink", "plyUnlink"}
RecordPlaces == {"mkdir", "record", "event", "listing", "check"}
Over == {"done", "failed", "dead"}
Running == ImagePlaces \cup PlyPlaces \cup RecordPlaces

FilesInit ==
    /\ files = [f \in Paths |-> Nothing]
    /\ temporary = [p \in Programs |-> "nothing"]
    /\ recorded = FALSE
    /\ pc = [p \in Programs |-> "idle"]
    /\ todo = [p \in Programs |-> <<>>]
    /\ saved = [p \in Programs |-> {}]
    /\ records = [p \in Programs |-> 0]

Go(p, from, to) == pc[p] = from /\ pc' = [pc EXCEPT ![p] = to]
Put(f, entry) == files' = [files EXCEPT ![f] = entry]
Has(p, f) == saved' = [saved EXCEPT ![p] = @ \cup {f}]
------------------------------------------------------------------------------
(* save_mosaics, save_embedded_webps, open_new_private *)

SaveImages(p, paths) ==
    /\ Go(p, "idle", "save")
    /\ todo' = [todo EXCEPT ![p] = paths]
    /\ UNCHANGED <<files, temporary, recorded, saved, records>>

\* Mutant: the open has moved into the try, so its failure is cleaned up after.
CreateImageInTry(p) ==
    /\ todo[p] # <<>>
    /\ IF files[Head(todo[p])] = Nothing
       THEN Go(p, "save", "image") /\ Put(Head(todo[p]), Torn(p))
       ELSE Go(p, "save", "imageUnlink") /\ UNCHANGED files
    /\ UNCHANGED <<temporary, recorded, todo, saved, records>>

\* os.open with O_EXCL comes before the try: a file that exists is left alone.
CreateImage(p) ==
    /\ todo[p] # <<>>
    /\ IF files[Head(todo[p])] = Nothing
       THEN Go(p, "save", "image") /\ Put(Head(todo[p]), Torn(p))
       ELSE Go(p, "save", "failed") /\ UNCHANGED files
    /\ UNCHANGED <<temporary, recorded, todo, saved, records>>

WriteImage(p) ==
    /\ Go(p, "image", "imageSync")
    /\ Put(Head(todo[p]), Whole(p))
    /\ UNCHANGED <<temporary, recorded, todo, saved, records>>

SyncImage(p) ==
    /\ Go(p, "imageSync", "save")
    /\ Has(p, Head(todo[p]))
    /\ todo' = [todo EXCEPT ![p] = Tail(@)]
    /\ UNCHANGED <<files, temporary, recorded, records>>

\* The finally of open_new_private, for a file that is not complete.
UnlinkImage(p) ==
    /\ Go(p, "imageUnlink", "failed")
    /\ Put(Head(todo[p]), Nothing)
    /\ UNCHANGED <<temporary, recorded, todo, saved, records>>

ReturnImages(p) ==
    /\ todo[p] = <<>>
    /\ Go(p, "save", "done")
    /\ UNCHANGED <<files, temporary, recorded, todo, saved, records>>

ImageStep(p) == \/ CreateImage(p) \/ WriteImage(p) \/ SyncImage(p)
                \/ UnlinkImage(p) \/ ReturnImages(p)
------------------------------------------------------------------------------
(* export_ply *)

ExportPly(p) ==
    /\ Go(p, "idle", "temporary")
    /\ UNCHANGED <<files, temporary, recorded, todo, saved, records>>

\* Mutant: linked before it is written.
MakeTemporaryLinked(p) ==
    /\ files[Ply] = Nothing
    /\ Go(p, "temporary", "ply")
    /\ temporary' = [temporary EXCEPT ![p] = "torn"]
    /\ Put(Ply, Torn(p))
    /\ UNCHANGED <<recorded, todo, saved, records>>

MakeTemporary(p) ==
    /\ Go(p, "temporary", "ply")
    /\ temporary' = [temporary EXCEPT ![p] = "torn"]
    /\ UNCHANGED <<files, recorded, todo, saved, records>>

WritePly(p) ==
    /\ Go(p, "ply", "plySync")
    /\ temporary' = [temporary EXCEPT ![p] = "whole"]
    /\ UNCHANGED <<files, recorded, todo, saved, records>>

SyncPly(p) ==
    /\ Go(p, "plySync", "link")
    /\ UNCHANGED <<files, temporary, recorded, todo, saved, records>>

\* os.link refuses a destination that exists; the link names what is in the
\* temporary file.
LinkPly(p) ==
    /\ IF files[Ply] = Nothing
       THEN Go(p, "link", "unlink") /\ Put(Ply, [content |-> temporary[p], by |-> p])
       ELSE Go(p, "link", "plyUnlink") /\ UNCHANGED files
    /\ UNCHANGED <<temporary, recorded, todo, saved, records>>

UnlinkTemporary(p) ==
    /\ Go(p, "unlink", "done")
    /\ temporary' = [temporary EXCEPT ![p] = "nothing"]
    /\ Has(p, Ply)
    /\ UNCHANGED <<files, recorded, todo, records>>

\* The except clause of export_ply, for whatever was raised.
CleanUpPly(p) ==
    /\ Go(p, "plyUnlink", "failed")
    /\ temporary' = [temporary EXCEPT ![p] = "nothing"]
    /\ UNCHANGED <<files, recorded, todo, saved, records>>

PlyStep(p) == \/ MakeTemporary(p) \/ WritePly(p) \/ SyncPly(p) \/ LinkPly(p)
              \/ UnlinkTemporary(p) \/ CleanUpPly(p)
------------------------------------------------------------------------------
(* record_telemetry *)

Record(p) ==
    /\ Go(p, "idle", "mkdir")
    /\ UNCHANGED <<files, temporary, recorded, todo, saved, records>>

MakeDirectory(p) ==
    /\ IF recorded THEN Go(p, "mkdir", "failed") ELSE Go(p, "mkdir", "record")
    /\ recorded' = TRUE
    /\ UNCHANGED <<files, temporary, todo, saved, records>>

\* _write_private opens the next event's file ...
CreateEvent(p) ==
    /\ records[p] < MaxEvents
    /\ IF files[Event(records[p] + 1)] = Nothing
       THEN Go(p, "record", "event") /\ Put(Event(records[p] + 1), Torn(p))
       ELSE Go(p, "record", "failed") /\ UNCHANGED files
    /\ UNCHANGED <<temporary, recorded, todo, saved, records>>

\* Mutant: one os.write, which may write less than it was given.
WriteEventOnce(p) ==
    /\ Go(p, "event", "record")
    /\ \E entry \in {Torn(p), Whole(p)} : Put(Event(records[p] + 1), entry)
    /\ records' = [records EXCEPT ![p] = @ + 1]
    /\ UNCHANGED <<temporary, recorded, todo, saved>>

\* ... and its loop ends only when everything is written.
WriteEvent(p) ==
    /\ Go(p, "event", "record")
    /\ Put(Event(records[p] + 1), Whole(p))
    /\ records' = [records EXCEPT ![p] = @ + 1]
    /\ UNCHANGED <<temporary, recorded, todo, saved>>

\* The duration is over or there are enough events.  That every stream has ended
\* is no such case: StopAsyncIteration leaves record_telemetry as a failure does.
CreateManifest(p) ==
    /\ IF files[Manifest] = Nothing
       THEN Go(p, "record", "listing") /\ Put(Manifest, Torn(p))
       ELSE Go(p, "record", "failed") /\ UNCHANGED files
    /\ UNCHANGED <<temporary, recorded, todo, saved, records>>

WriteManifest(p) ==
    /\ Go(p, "listing", "check")
    /\ Put(Manifest, Whole(p))
    /\ UNCHANGED <<temporary, recorded, todo, saved, records>>

\* The directory has kept its mode.
ReturnDirectory(p) ==
    /\ Go(p, "check", "done")
    /\ saved' = [saved EXCEPT ![p] = {Event(n) : n \in 1..records[p]} \cup {Manifest}]
    /\ UNCHANGED <<files, temporary, recorded, todo, records>>

RecordStep(p) == \/ MakeDirectory(p) \/ CreateEvent(p) \/ WriteEvent(p)
                 \/ CreateManifest(p) \/ WriteManifest(p)
                 \/ ReturnDirectory(p)
------------------------------------------------------------------------------
(* What may go wrong at any step.                                            *)

\* Mutant: nothing is cleaned up once the temporary file is written.
HandlerBeforeLink(place) ==
    CASE place \in {"image", "imageSync"} -> "imageUnlink"
      [] place \in {"ply", "plySync"} -> "plyUnlink"
      [] OTHER -> "failed"

\* Where an exception leads.  That unlink() itself fails is left out.
Handler(place) ==
    CASE place \in {"image", "imageSync"} -> "imageUnlink"
      [] place \in {"ply", "plySync", "link", "unlink"} -> "plyUnlink"
      [] OTHER -> "failed"

Fails(p) ==
    /\ pc[p] \in Running \ {"imageUnlink", "plyUnlink"}
    /\ pc' = [pc EXCEPT ![p] = Handler(@)]
    /\ UNCHANGED <<files, temporary, recorded, todo, saved, records>>

Dies(p) ==
    /\ pc[p] \in Running
    /\ pc' = [pc EXCEPT ![p] = "dead"]
    /\ UNCHANGED <<files, temporary, recorded, todo, saved, records>>

FileStep(p) ==
    ImageStep(p) \/ PlyStep(p) \/ RecordStep(p) \/ Fails(p) \/ Dies(p)

\* A program that has nothing to export ends before it has done anything.
GiveUp(p) ==
    /\ Go(p, "idle", "failed")
    /\ UNCHANGED <<files, temporary, recorded, todo, saved, records>>

Begin(p) ==
    \/ \E paths \in Seq(Images) : SaveImages(p, paths)
    \/ ExportPly(p) \/ Record(p) \/ GiveUp(p)

FilesNext == \E p \in Programs : Begin(p) \/ FileStep(p)
FilesSpec == FilesInit /\ [][FilesNext]_fileVars
------------------------------------------------------------------------------
FilesTypeOK ==
    /\ files \in [Paths -> [content : Contents, by : Programs \cup {Nobody}]]
    /\ temporary \in [Programs -> Contents]
    /\ recorded \in BOOLEAN
    /\ pc \in [Programs -> Running \cup Over \cup {"idle"}]
    /\ todo \in [Programs -> Seq(Images)]
    /\ saved \in [Programs -> SUBSET Paths]
    /\ records \in [Programs -> 0..MaxEvents]

(* export_ply's docstring, "Atomically export one mission": whoever dies or  *)
(* fails and whenever, the destination is absent or holds a whole export.    *)
PlyIsAtomic == files[Ply].content # "torn"

(* What an exporter returned without an exception is on disk, whole and its  *)
(* own, whatever other runs of it, or their cleaning up, do at the same time *)
(* or afterwards.                                                            *)
SuccessIsFinal ==
    \A p \in Programs : pc[p] = "done" => \A f \in saved[p] : files[f] = Whole(p)

(* After an exception neither a torn image or export nor a temporary file of *)
(* that program is left (open_new_private's finally, export_ply's except).   *)
FailureLeavesNoDebris ==
    \A p \in Programs : pc[p] = "failed" =>
        /\ \A f \in Images \cup {Ply} : files[f] # Torn(p)
        /\ temporary[p] = "nothing"

(* A manifest that is whole lists every event file there is, and each of     *)
(* them is whole; an interrupted recording is one without a whole manifest.  *)
ManifestTellsAll ==
    LET manifest == files[Manifest] IN
    manifest.content = "whole" =>
        \A n \in 1..MaxEvents :
            files[Event(n)] = IF n <= records[manifest.by] THEN Whole(manifest.by)
                              ELSE Nothing
==============================================================================
