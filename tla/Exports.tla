-------------------------------- MODULE Exports --------------------------------
(***************************************************************************)
(* Programs that read captures into a collection state and export what it  *)
(* shows, or the images in them, or record telemetry: the commands of      *)
(* matic_sdk/cli.py, and a caller's programs that do the same with the     *)
(* library.                                                                *)
(*                                                                         *)
(* Reading touches nothing that programs share, so one of them reads at a  *)
(* time, and before any has touched the disk.                              *)
(***************************************************************************)
EXTENDS CollectionState, PrivateFiles

CONSTANTS
    Sorted,        (* sorted() on every set of mosaics                      *)
    WebpOrder      (* the images extracted from captures                    *)

VARIABLES
    reader,        \* the program that is reading, or Nobody
    unfit          \* programs whose tiles write_ply refuses

vars == <<collectionVars, fileVars, reader, unfit>>

\* A place is a mission and a page.
Mosaic(place, layer) == <<"mosaic", place[1], layer>>
MapLayers == {"floor-rgba", "surface-rgb", "composite"}
AllMosaics == {Mosaic(PlaceOf[k], l) : k \in Keys, l \in MapLayers}

ASSUME ImagesAssumption ==
    /\ AllMosaics \subseteq Images /\ WebpOrder \in Seq(Images)
    /\ \A S \in SUBSET AllMosaics : Sorted[S] \in Seq(S)

MissionsShown == {t.place[1] : t \in Tiles}

Init ==
    /\ FilesInit
    /\ Empty("map")
    /\ reader = Nobody
    /\ unfit = {}
------------------------------------------------------------------------------
DiskIsUntouched ==
    /\ \A p \in Programs : pc[p] \in {"idle", "save", "temporary", "mkdir", "failed"}
    /\ \A f \in Paths : files[f] = Nothing
    /\ ~recorded

Open(p) ==
    /\ reader = Nobody /\ pc[p] = "idle" /\ DiskIsUntouched
    /\ reader' = p
    /\ kind' \in Kinds
    /\ UNCHANGED <<heard, byKey, index, fileVars, unfit>>

Read ==
    /\ reader # Nobody
    /\ \E m \in Messages : Apply(m)
    /\ UNCHANGED <<fileVars, reader, unfit>>

\* The state is a local variable of the program that reads.
Close == reader' = Nobody /\ kind' = "map" /\ heard' = <<>> /\ index' = 0
         /\ byKey' = [k \in {} |-> {}]

\* The command line gives up at the first exception, and when there is nothing
\* to show; a caller who catches the exception may go on.
Abandon ==
    /\ reader # Nobody
    /\ \/ Tiles = {}
       \/ heard # <<>> /\ Raises(heard[Len(heard)].form)
    /\ Close
    /\ GiveUp(reader)
    /\ UNCHANGED unfit

\* build_mosaics makes an image for each mission and layer that has a tile.
Mosaics == Sorted[{Mosaic(t.place, t.layer) : t \in Tiles}]
DecodeMap ==
    /\ reader # Nobody /\ kind = "map" /\ Tiles # {}
    /\ SaveImages(reader, Mosaics)
    /\ Close
    /\ UNCHANGED unfit

\* write_ply takes the tiles of one mission.
ExportVoxels ==
    /\ reader # Nobody /\ kind = "voxel"
    /\ ExportPly(reader)
    /\ unfit' = IF \E m \in MissionsShown : MissionsShown = {m} THEN unfit
                ELSE unfit \cup {reader}
    /\ Close

ExtractMedia(p) ==
    /\ reader # p
    /\ \E n \in 1..Len(WebpOrder) : SaveImages(p, SubSeq(WebpOrder, 1, n))
    /\ UNCHANGED <<collectionVars, reader, unfit>>

RecordTelemetry(p) ==
    /\ reader # p
    /\ Record(p)
    /\ UNCHANGED <<collectionVars, reader, unfit>>

\* What each program does on the disk.
Save(p) ==
    /\ reader = Nobody
    /\ FileStep(p)
    /\ p \in unfit => pc'[p] # "plySync"
    /\ UNCHANGED <<collectionVars, reader, unfit>>

Terminated ==
    /\ \A p \in Programs : pc[p] \in Over
    /\ UNCHANGED vars

Next ==
    \/ Read \/ Abandon \/ DecodeMap \/ ExportVoxels
    \/ \E p \in Programs : Open(p) \/ ExtractMedia(p) \/ RecordTelemetry(p) \/ Save(p)
    \/ Terminated

Spec == Init /\ [][Next]_vars
------------------------------------------------------------------------------
TypeOK ==
    /\ FilesTypeOK
    /\ reader \in Programs \cup {Nobody}
    /\ unfit \subseteq Programs
    /\ kind \in Kinds
    /\ heard \in Seq(Messages) /\ Len(heard) <= MaxMessages
    /\ index \in 0..Len(heard)
    /\ DOMAIN byKey \subseteq Keys
    /\ \A k \in DOMAIN byKey :
         /\ byKey[k].index \in 0..index
         /\ byKey[k].message \in 1..Len(heard)
         /\ byKey[k].layers = LayersIn(heard[byKey[k].message].form)
==============================================================================
