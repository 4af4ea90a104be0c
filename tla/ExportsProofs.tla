----------------------------- MODULE ExportsProofs -----------------------------
(***************************************************************************)
(* First the private files: safety of the exporters for any number of      *)
(* programs on the same paths, any images and any number of events, by the *)
(* inductive invariant FilesIInv.  Then the exporting programs: each of    *)
(* their steps is one of PrivateFiles or none, so what is proved of those  *)
(* holds here; and the tiles they export are those that were told last,    *)
(* for any keys, places and messages.                                      *)
(***************************************************************************)
EXTENDS Exports, NaturalsInduction, WellFoundedInduction, SequenceTheorems, TLAPS

InImage == {"image", "imageSync", "imageUnlink"}
InPly == {"ply", "plySync", "link", "unlink", "plyUnlink"}
InDirectory == {"record", "event", "listing", "check"}

\* What a program has finished with is whole, and its own.
SavedIsWhole(p) == \A f \in saved[p] : files[f] = Whole(p)

\* O_EXCL: the image that a program is at is its own, and none it has saved.
ImageInHand(p) ==
    pc[p] \in InImage =>
        /\ todo[p] # <<>> /\ Head(todo[p]) \notin saved[p]
        /\ files[Head(todo[p])] \in {Torn(p), Whole(p)}

\* A torn image is one that its program is still at, or died over.
TornIsInHand(p) ==
    \A f \in Images : files[f] = Torn(p) =>
        \/ pc[p] = "dead"
        \/ pc[p] \in {"image", "imageUnlink"} /\ f = Head(todo[p])

\* The temporary file of a program is in use, and written before it is linked.
PlyInHand(p) ==
    /\ temporary[p] # "nothing" => pc[p] \in InPly \cup {"dead"}
    /\ pc[p] \in {"plySync", "link"} => temporary[p] = "whole"
    /\ pc[p] = "unlink" => files[Ply] = Whole(p)

\* The directory holds what its program has recorded, and no manifest before
\* that is all.
EventsInHand(p) ==
    pc[p] \in InDirectory =>
        \A n \in 1..MaxEvents :
           /\ n <= records[p] => files[Event(n)] = Whole(p)
           /\ n = records[p] + 1 /\ pc[p] = "event" => files[Event(n)] = Torn(p)
           /\ n = records[p] + 1 /\ pc[p] # "event" => files[Event(n)] = Nothing
           /\ n > records[p] + 1 => files[Event(n)] = Nothing
ManifestInHand(p) ==
    /\ pc[p] \in {"record", "event"} => files[Manifest] = Nothing
    /\ pc[p] = "listing" => files[Manifest] = Torn(p)
    /\ pc[p] = "check" => files[Manifest] = Whole(p)
    /\ pc[p] = "event" => records[p] < MaxEvents

Own(p) == /\ SavedIsWhole(p) /\ ImageInHand(p) /\ TornIsInHand(p)
          /\ PlyInHand(p) /\ EventsInHand(p) /\ ManifestInHand(p)

\* mkdir: the directory is one program's, and empty before it.
OneRecorder ==
    /\ \A p, q \in Programs :
         pc[p] \in InDirectory /\ pc[q] \in InDirectory => p = q
    /\ \A p \in Programs :
         /\ pc[p] \in InDirectory => recorded
         /\ pc[p] \in {"idle", "mkdir"} => records[p] = 0
    /\ ~recorded => \A f \in Events \cup {Manifest} : files[f] = Nothing

Authored == \A f \in Paths : files[f] = Nothing \/ files[f].by \in Programs

FilesIInv == /\ FilesTypeOK /\ Authored /\ \A p \in Programs : Own(p)
             /\ PlyIsAtomic /\ OneRecorder /\ ManifestTellsAll
------------------------------------------------------------------------------
Step(p) == Begin(p) \/ FileStep(p)

LEMMA StepsAreNext == FilesNext <=> \E p \in Programs : Step(p)
BY DEF FilesNext, Step

(* The paths of the three exporters are different paths.                    *)
LEMMA PathFacts ==
    /\ Nobody \notin Programs /\ MaxEvents \in Nat
    /\ Ply \in Paths /\ Manifest \in Paths /\ Images \subseteq Paths
    /\ \A n \in 1..MaxEvents : Event(n) \in Paths /\ Event(n) \in Events
    /\ Ply # Manifest /\ Ply \notin Images /\ Manifest \notin Images
    /\ \A n \in 1..MaxEvents : Event(n) \notin Images
    /\ \A n : Event(n) # Ply /\ Event(n) # Manifest
    /\ \A m, n : Event(m) = Event(n) => m = n
    /\ \A f \in Events : f # Ply /\ f # Manifest /\ f \notin Images
    /\ \A f \in Events : \E n \in 1..MaxEvents : f = Event(n)
<1>1. Len(Ply) = 1 /\ Len(Manifest) = 1 /\ Ply[1] = "ply" /\ Manifest[1] = "manifest"
  BY DEF Ply, Manifest
<1>2. \A n : Len(Event(n)) = 2 /\ Event(n)[2] = n
  BY DEF Event
<1> QED BY <1>1, <1>2, FilesAssumption, PathsAssumption DEF Paths, Events

(* What a file may hold.                                                    *)
LEMMA EntryFacts ==
    /\ \A p : Torn(p) # Nothing /\ Whole(p) # Nothing
    /\ \A p, q : Torn(p) # Whole(q) /\ (Torn(p) = Torn(q) => p = q)
                /\ (Whole(p) = Whole(q) => p = q)
    /\ \A p : Torn(p).content = "torn" /\ Whole(p).content = "whole"
              /\ Torn(p).by = p /\ Whole(p).by = p
    /\ Nothing.content = "nothing" /\ Nothing.by = Nobody
BY DEF Torn, Whole, Nothing

Entries == [content : Contents, by : Programs \cup {Nobody}]

LEMMA EntryTypes ==
    /\ Nothing \in Entries
    /\ \A p \in Programs : Torn(p) \in Entries /\ Whole(p) \in Entries
BY DEF Entries, Contents, Torn, Whole, Nothing

(* One file changes at a time.                                              *)
LEMMA Puts ==
    ASSUME FilesTypeOK, NEW f \in Paths, NEW e \in Entries, Put(f, e)
    PROVE  /\ files' \in [Paths -> Entries] /\ files'[f] = e
           /\ \A g \in Paths \ {f} : files'[g] = files[g]
BY DEF FilesTypeOK, Entries, Put

(* ... and one program moves.                                               *)
LEMMA Goes ==
    ASSUME FilesTypeOK, NEW p \in Programs, NEW from, NEW to, Go(p, from, to)
    PROVE  /\ pc[p] = from /\ pc'[p] = to
           /\ \A q \in Programs \ {p} : pc'[q] = pc[q]
BY DEF FilesTypeOK, Go

LEMMA Heads ==
    ASSUME FilesTypeOK, NEW p \in Programs, todo[p] # <<>>
    PROVE  Head(todo[p]) \in Images /\ Tail(todo[p]) \in Seq(Images)
<1>1. todo[p] \in Seq(Images) BY DEF FilesTypeOK
<1> QED BY <1>1, HeadTailProperties

LEMMA NextEvent ==
    ASSUME FilesTypeOK, NEW p \in Programs, records[p] < MaxEvents
    PROVE  /\ records[p] \in Nat /\ records[p] + 1 \in 1..MaxEvents
           /\ Event(records[p] + 1) \in Paths /\ Event(records[p] + 1) \in Events
<1>1. records[p] \in 0..MaxEvents BY DEF FilesTypeOK
<1> QED BY <1>1, PathFacts

(* A temporary file that is linked is whole.                                *)
LEMMA Links ==
    ASSUME FilesTypeOK, NEW p \in Programs, PlyInHand(p), LinkPly(p)
    PROVE  \/ files[Ply] = Nothing /\ Put(Ply, Whole(p)) /\ pc'[p] = "unlink"
           \/ UNCHANGED files /\ pc'[p] = "plyUnlink"
<1>1. CASE files[Ply] = Nothing
  <2>1. pc[p] = "link" /\ pc'[p] = "unlink" BY <1>1, Goes DEF LinkPly
  <2>2. [content |-> temporary[p], by |-> p] = Whole(p) BY <2>1 DEF PlyInHand, Whole
  <2> QED BY <1>1, <2>1, <2>2 DEF LinkPly
<1>2. CASE files[Ply] # Nothing BY <1>2, Goes DEF LinkPly
<1> QED BY <1>1, <1>2
------------------------------------------------------------------------------
(* What a step may touch.                                                   *)

(* Types are kept.                                                          *)
LEMMA StepKeepsTypes ==
    ASSUME NEW p \in Programs, FilesTypeOK, \A q \in Programs : Own(q),
           Step(p)
    PROVE  FilesTypeOK'
<1> USE PathFacts DEF FilesTypeOK, Entries, Go, Has, Contents, Handler,
        InImage, Own, ManifestInHand, ImageInHand, Running, ImagePlaces,
        PlyPlaces, RecordPlaces, Over
<1>1. CASE CreateImage(p) BY <1>1, Puts, Heads, EntryTypes DEF CreateImage
<1>2. CASE WriteImage(p) BY <1>2, Puts, Heads, EntryTypes DEF WriteImage
<1>3. CASE SyncImage(p) BY <1>3, Heads DEF SyncImage
<1>4. CASE UnlinkImage(p) BY <1>4, Puts, Heads, EntryTypes DEF UnlinkImage
<1>5. CASE ReturnImages(p) BY <1>5 DEF ReturnImages
<1>6. CASE MakeTemporary(p) BY <1>6 DEF MakeTemporary
<1>7. CASE WritePly(p) BY <1>7 DEF WritePly
<1>8. CASE SyncPly(p) BY <1>8 DEF SyncPly
<1>9. CASE LinkPly(p)
  <2>1. files' \in [Paths -> Entries] BY <1>9, Links, Puts, EntryTypes DEF FilesTypeOK, Entries, Own
  <2> QED BY <1>9, <2>1 DEF LinkPly
<1>10. CASE UnlinkTemporary(p) BY <1>10 DEF UnlinkTemporary
<1>11. CASE CleanUpPly(p) BY <1>11 DEF CleanUpPly
<1>12. CASE MakeDirectory(p) BY <1>12 DEF MakeDirectory
<1>13. CASE CreateEvent(p) BY <1>13, Puts, NextEvent, EntryTypes DEF
      CreateEvent
<1>14. CASE WriteEvent(p) BY <1>14, Puts, NextEvent, EntryTypes DEF WriteEvent
<1>15. CASE CreateManifest(p) BY <1>15, Puts, Heads, EntryTypes DEF
      CreateManifest
<1>16. CASE WriteManifest(p) BY <1>16, Puts, Heads, EntryTypes DEF
      WriteManifest
<1>17. CASE ReturnDirectory(p) BY <1>17 DEF ReturnDirectory
<1>18. CASE Fails(p) BY <1>18 DEF Fails
<1>19. CASE Dies(p) BY <1>19 DEF Dies
<1>20. CASE ExportPly(p) BY <1>20 DEF ExportPly
<1>21. CASE Record(p) BY <1>21 DEF Record
<1>22. CASE GiveUp(p) BY <1>22 DEF GiveUp
<1>23. CASE \E paths \in Seq(Images) : SaveImages(p, paths)
  BY <1>23 DEF SaveImages
<1> QED BY <1>1, <1>2, <1>3, <1>4, <1>5, <1>6, <1>7, <1>8, <1>9, <1>10, <1>11,
           <1>12, <1>13, <1>14, <1>15, <1>16, <1>17, <1>18, <1>19, <1>20,
           <1>21, <1>22, <1>23 DEF Step, Begin, FileStep, ImageStep, PlyStep,
           RecordStep

(* A program changes nothing of another's.                                  *)
LEMMA Frame ==
    ASSUME NEW p \in Programs, FilesTypeOK, Step(p)
    PROVE  \A q \in Programs \ {p} : /\ pc'[q] = pc[q] /\ temporary'[q] = temporary[q]
                                         /\ todo'[q] = todo[q] /\ saved'[q] = saved[q]
                                         /\ records'[q] = records[q]
<1> USE Goes DEF FilesTypeOK, Has
<1>1. CASE CreateImage(p) BY <1>1 DEF CreateImage
<1>2. CASE WriteImage(p) BY <1>2 DEF WriteImage
<1>3. CASE SyncImage(p) BY <1>3 DEF SyncImage
<1>4. CASE UnlinkImage(p) BY <1>4 DEF UnlinkImage
<1>5. CASE ReturnImages(p) BY <1>5 DEF ReturnImages
<1>6. CASE MakeTemporary(p) BY <1>6 DEF MakeTemporary
<1>7. CASE WritePly(p) BY <1>7 DEF WritePly
<1>8. CASE SyncPly(p) BY <1>8 DEF SyncPly
<1>9. CASE LinkPly(p) BY <1>9 DEF LinkPly
<1>10. CASE UnlinkTemporary(p) BY <1>10 DEF UnlinkTemporary
<1>11. CASE CleanUpPly(p) BY <1>11 DEF CleanUpPly
<1>12. CASE MakeDirectory(p) BY <1>12 DEF MakeDirectory
<1>13. CASE CreateEvent(p) BY <1>13 DEF CreateEvent
<1>14. CASE WriteEvent(p) BY <1>14 DEF WriteEvent
<1>15. CASE CreateManifest(p) BY <1>15 DEF CreateManifest
<1>16. CASE WriteManifest(p) BY <1>16 DEF WriteManifest
<1>17. CASE ReturnDirectory(p) BY <1>17 DEF ReturnDirectory
<1>18. CASE Fails(p) BY <1>18 DEF Fails
<1>19. CASE Dies(p) BY <1>19 DEF Dies
<1>20. CASE ExportPly(p) BY <1>20 DEF ExportPly
<1>21. CASE Record(p) BY <1>21 DEF Record
<1>22. CASE GiveUp(p) BY <1>22 DEF GiveUp
<1>23. CASE \E paths \in Seq(Images) : SaveImages(p, paths)
  BY <1>23 DEF SaveImages
<1> QED BY <1>1, <1>2, <1>3, <1>4, <1>5, <1>6, <1>7, <1>8, <1>9, <1>10, <1>11,
           <1>12, <1>13, <1>14, <1>15, <1>16, <1>17, <1>18, <1>19, <1>20,
           <1>21, <1>22, <1>23 DEF Step, Begin, FileStep, ImageStep, PlyStep,
           RecordStep

(* It touches its own files, and those that do not exist.                   *)
LEMMA Footprint ==
    ASSUME NEW p \in Programs, FilesTypeOK, Own(p), Step(p)
    PROVE  \A f \in Paths : files'[f] # files[f] =>
              /\ files[f] \in {Nothing, Torn(p), Whole(p)}
              /\ files'[f] \in {Nothing, Torn(p), Whole(p)}
              /\ \/ f \in Images /\ pc[p] \in InImage \cup {"save"}
                 \/ f = Ply /\ pc[p] = "link" /\ files[f] = Nothing /\ files'[f] = Whole(p)
                 \/ f \in Events \cup {Manifest} /\ pc[p] \in InDirectory
<1> USE PathFacts, Goes DEF Own, ImageInHand, EventsInHand, ManifestInHand,
        InImage, InDirectory
<1>1. CASE CreateImage(p) BY <1>1, Puts, Heads, EntryTypes DEF CreateImage
<1>2. CASE WriteImage(p) BY <1>2, Puts, Heads, EntryTypes DEF WriteImage
<1>3. CASE SyncImage(p) BY <1>3, Heads DEF SyncImage
<1>4. CASE UnlinkImage(p) BY <1>4, Puts, Heads, EntryTypes DEF UnlinkImage
<1>5. CASE ReturnImages(p) BY <1>5 DEF ReturnImages
<1>6. CASE MakeTemporary(p) BY <1>6 DEF MakeTemporary
<1>7. CASE WritePly(p) BY <1>7 DEF WritePly
<1>8. CASE SyncPly(p) BY <1>8 DEF SyncPly
<1>9. CASE LinkPly(p) BY <1>9, Links, Puts, EntryTypes DEF LinkPly
<1>10. CASE UnlinkTemporary(p) BY <1>10 DEF UnlinkTemporary
<1>11. CASE CleanUpPly(p) BY <1>11 DEF CleanUpPly
<1>12. CASE MakeDirectory(p) BY <1>12 DEF MakeDirectory
<1>13. CASE CreateEvent(p) BY <1>13, Puts, NextEvent, EntryTypes DEF
      CreateEvent
<1>14. CASE WriteEvent(p) BY <1>14, Puts, NextEvent, EntryTypes DEF WriteEvent
<1>15. CASE CreateManifest(p) BY <1>15, Puts, Heads, EntryTypes DEF
      CreateManifest
<1>16. CASE WriteManifest(p) BY <1>16, Puts, Heads, EntryTypes DEF
      WriteManifest
<1>17. CASE ReturnDirectory(p) BY <1>17 DEF ReturnDirectory
<1>18. CASE Fails(p) BY <1>18 DEF Fails
<1>19. CASE Dies(p) BY <1>19 DEF Dies
<1>20. CASE ExportPly(p) BY <1>20 DEF ExportPly
<1>21. CASE Record(p) BY <1>21 DEF Record
<1>22. CASE GiveUp(p) BY <1>22 DEF GiveUp
<1>23. CASE \E paths \in Seq(Images) : SaveImages(p, paths)
  BY <1>23 DEF SaveImages
<1> QED BY <1>1, <1>2, <1>3, <1>4, <1>5, <1>6, <1>7, <1>8, <1>9, <1>10, <1>11,
           <1>12, <1>13, <1>14, <1>15, <1>16, <1>17, <1>18, <1>19, <1>20,
           <1>21, <1>22, <1>23 DEF Step, Begin, FileStep, ImageStep, PlyStep,
           RecordStep

(* So another program's hold on its files stays.                            *)
LEMMA OthersKeep ==
    ASSUME NEW p \in Programs, FilesTypeOK, OneRecorder, Own(p), Step(p),
           NEW q \in Programs \ {p}, Own(q)
    PROVE  Own(q)'
<1>1. /\ pc'[q] = pc[q] /\ temporary'[q] = temporary[q] /\ todo'[q] = todo[q]
      /\ saved'[q] = saved[q] /\ records'[q] = records[q]
  BY Frame
<1>2. \A f \in Paths : files[f] \in {Torn(q), Whole(q)} => files'[f] = files[f]
  BY Footprint, EntryFacts
<1>3. \A f \in Paths : files'[f] \in {Torn(q), Whole(q)} => files'[f] = files[f]
  BY Footprint, EntryFacts
<1>4. SavedIsWhole(q)'
  <2>1. saved[q] \subseteq Paths BY DEF FilesTypeOK
  <2> QED BY <1>1, <1>2, <2>1 DEF Own, SavedIsWhole
<1>5. ImageInHand(q)'
  <2> SUFFICES ASSUME pc[q] \in InImage
               PROVE  /\ todo[q] # <<>> /\ Head(todo[q]) \notin saved[q]
                      /\ files'[Head(todo[q])] \in {Torn(q), Whole(q)}
    BY <1>1 DEF ImageInHand
  <2>1. /\ todo[q] # <<>> /\ Head(todo[q]) \notin saved[q]
        /\ files[Head(todo[q])] \in {Torn(q), Whole(q)}
    BY DEF Own, ImageInHand
  <2>2. Head(todo[q]) \in Paths BY <2>1, Heads, PathFacts
  <2> QED BY <1>2, <2>1, <2>2
<1>6. TornIsInHand(q)'
  <2>1. Images \subseteq Paths BY PathFacts
  <2> QED BY <1>1, <1>3, <2>1 DEF Own, TornIsInHand
<1>7. PlyInHand(q)'
  <2>1. Ply \in Paths BY PathFacts
  <2> QED BY <1>1, <1>2, <2>1 DEF Own, PlyInHand
<1>8. pc[q] \in InDirectory =>
        \A f \in Events \cup {Manifest} : f \in Paths /\ files'[f] = files[f]
  BY Footprint, PathFacts DEF OneRecorder
<1>9. EventsInHand(q)'
  <2>1. \A n \in 1..MaxEvents : Event(n) \in Events BY PathFacts
  <2> QED BY <1>1, <1>8, <2>1 DEF Own, EventsInHand
<1>10. ManifestInHand(q)'
  BY <1>1, <1>8 DEF Own, ManifestInHand, InDirectory
<1> QED BY <1>4, <1>5, <1>6, <1>7, <1>9, <1>10 DEF Own

(* What is saved stays.                                                     *)
LEMMA KeepsSaved ==
    ASSUME NEW p \in Programs, FilesTypeOK, OneRecorder, Own(p), Step(p)
    PROVE  SavedIsWhole(p)'
<1> USE PathFacts, EntryFacts, Goes DEF FilesTypeOK, Has, Own, SavedIsWhole,
        ImageInHand, TornIsInHand, PlyInHand, EventsInHand, ManifestInHand,
        InImage, InDirectory
<1>1. CASE CreateImage(p) BY <1>1, Puts, Heads, EntryTypes DEF CreateImage
<1>2. CASE WriteImage(p) BY <1>2, Puts, Heads, EntryTypes DEF WriteImage
<1>3. CASE SyncImage(p) BY <1>3, Heads DEF SyncImage
<1>4. CASE UnlinkImage(p) BY <1>4, Puts, Heads, EntryTypes DEF UnlinkImage
<1>5. CASE ReturnImages(p) BY <1>5 DEF ReturnImages
<1>6. CASE MakeTemporary(p) BY <1>6 DEF MakeTemporary
<1>7. CASE WritePly(p) BY <1>7 DEF WritePly
<1>8. CASE SyncPly(p) BY <1>8 DEF SyncPly
<1>9. CASE LinkPly(p) BY <1>9, Links, Puts, EntryTypes DEF LinkPly
<1>10. CASE UnlinkTemporary(p) BY <1>10 DEF UnlinkTemporary
<1>11. CASE CleanUpPly(p) BY <1>11 DEF CleanUpPly
<1>12. CASE MakeDirectory(p) BY <1>12 DEF MakeDirectory
<1>13. CASE CreateEvent(p) BY <1>13, Puts, NextEvent, EntryTypes DEF
      CreateEvent
<1>14. CASE WriteEvent(p) BY <1>14, Puts, NextEvent, EntryTypes DEF WriteEvent
<1>15. CASE CreateManifest(p) BY <1>15, Puts, Heads, EntryTypes DEF
      CreateManifest
<1>16. CASE WriteManifest(p) BY <1>16, Puts, Heads, EntryTypes DEF
      WriteManifest
<1>17. CASE ReturnDirectory(p) BY <1>17 DEF ReturnDirectory
<1>18. CASE Fails(p) BY <1>18 DEF Fails
<1>19. CASE Dies(p) BY <1>19 DEF Dies
<1>20. CASE ExportPly(p) BY <1>20 DEF ExportPly
<1>21. CASE Record(p) BY <1>21 DEF Record
<1>22. CASE GiveUp(p) BY <1>22 DEF GiveUp
<1>23. CASE \E paths \in Seq(Images) : SaveImages(p, paths)
  BY <1>23 DEF SaveImages
<1> QED BY <1>1, <1>2, <1>3, <1>4, <1>5, <1>6, <1>7, <1>8, <1>9, <1>10, <1>11,
           <1>12, <1>13, <1>14, <1>15, <1>16, <1>17, <1>18, <1>19, <1>20,
           <1>21, <1>22, <1>23 DEF Step, Begin, FileStep, ImageStep, PlyStep,
           RecordStep

(* An image stays its program's own.                                        *)
LEMMA KeepsImages ==
    ASSUME NEW p \in Programs, FilesTypeOK, OneRecorder, Own(p), Step(p)
    PROVE  ImageInHand(p)'
<1> USE PathFacts, EntryFacts, Goes DEF FilesTypeOK, Has, Own, SavedIsWhole,
        ImageInHand, InImage, Handler
<1>1. CASE CreateImage(p) BY <1>1, Puts, Heads, EntryTypes DEF CreateImage
<1>2. CASE WriteImage(p) BY <1>2, Puts, Heads, EntryTypes DEF WriteImage
<1>3. CASE SyncImage(p) BY <1>3, Heads DEF SyncImage
<1>4. CASE UnlinkImage(p) BY <1>4, Puts, Heads, EntryTypes DEF UnlinkImage
<1>5. CASE ReturnImages(p) BY <1>5 DEF ReturnImages
<1>6. CASE MakeTemporary(p) BY <1>6 DEF MakeTemporary
<1>7. CASE WritePly(p) BY <1>7 DEF WritePly
<1>8. CASE SyncPly(p) BY <1>8 DEF SyncPly
<1>9. CASE LinkPly(p) BY <1>9 DEF LinkPly
<1>10. CASE UnlinkTemporary(p) BY <1>10 DEF UnlinkTemporary
<1>11. CASE CleanUpPly(p) BY <1>11 DEF CleanUpPly
<1>12. CASE MakeDirectory(p) BY <1>12 DEF MakeDirectory
<1>13. CASE CreateEvent(p) BY <1>13 DEF CreateEvent
<1>14. CASE WriteEvent(p) BY <1>14 DEF WriteEvent
<1>15. CASE CreateManifest(p) BY <1>15 DEF CreateManifest
<1>16. CASE WriteManifest(p) BY <1>16 DEF WriteManifest
<1>17. CASE ReturnDirectory(p) BY <1>17 DEF ReturnDirectory
<1>18. CASE Fails(p) BY <1>18 DEF Fails
<1>19. CASE Dies(p) BY <1>19 DEF Dies
<1>20. CASE ExportPly(p) BY <1>20 DEF ExportPly
<1>21. CASE Record(p) BY <1>21 DEF Record
<1>22. CASE GiveUp(p) BY <1>22 DEF GiveUp
<1>23. CASE \E paths \in Seq(Images) : SaveImages(p, paths)
  BY <1>23 DEF SaveImages
<1> QED BY <1>1, <1>2, <1>3, <1>4, <1>5, <1>6, <1>7, <1>8, <1>9, <1>10, <1>11,
           <1>12, <1>13, <1>14, <1>15, <1>16, <1>17, <1>18, <1>19, <1>20,
           <1>21, <1>22, <1>23 DEF Step, Begin, FileStep, ImageStep, PlyStep,
           RecordStep

(* Away from the images, nothing happens to them.                           *)
LEMMA ImagesElsewhere ==
    ASSUME NEW p \in Programs, FilesTypeOK, Own(p), Step(p),
           pc[p] \notin InImage \cup {"save"}
    PROVE  \A f \in Images : files'[f] = files[f]
BY Footprint, PathFacts

(* A torn image is attended to.                                             *)
LEMMA KeepsTorn ==
    ASSUME NEW p \in Programs, FilesTypeOK, OneRecorder, Own(p), Step(p)
    PROVE  TornIsInHand(p)'
<1> USE PathFacts, EntryFacts, Goes DEF FilesTypeOK, Has, Own, TornIsInHand,
        ImageInHand, InImage, Handler
<1>1. CASE CreateImage(p) BY <1>1, Puts, Heads, EntryTypes DEF CreateImage
<1>2. CASE WriteImage(p) BY <1>2, Puts, Heads, EntryTypes DEF WriteImage
<1>3. CASE SyncImage(p) BY <1>3, Heads DEF SyncImage
<1>4. CASE UnlinkImage(p) BY <1>4, Puts, Heads, EntryTypes DEF UnlinkImage
<1>5. CASE ReturnImages(p) BY <1>5 DEF ReturnImages
<1>6. CASE MakeTemporary(p) BY <1>6 DEF MakeTemporary
<1>7. CASE WritePly(p) BY <1>7 DEF WritePly
<1>8. CASE SyncPly(p) BY <1>8 DEF SyncPly
<1>9. CASE LinkPly(p) BY <1>9, ImagesElsewhere DEF LinkPly, Put
<1>10. CASE UnlinkTemporary(p) BY <1>10 DEF UnlinkTemporary
<1>11. CASE CleanUpPly(p) BY <1>11 DEF CleanUpPly
<1>12. CASE MakeDirectory(p) BY <1>12 DEF MakeDirectory
<1>13. CASE CreateEvent(p) BY <1>13, ImagesElsewhere DEF CreateEvent, Put
<1>14. CASE WriteEvent(p) BY <1>14, ImagesElsewhere DEF WriteEvent, Put
<1>15. CASE CreateManifest(p) BY <1>15, ImagesElsewhere DEF CreateManifest,
      Put
<1>16. CASE WriteManifest(p) BY <1>16, ImagesElsewhere DEF WriteManifest, Put
<1>17. CASE ReturnDirectory(p) BY <1>17 DEF ReturnDirectory
<1>18. CASE Fails(p) BY <1>18 DEF Fails, Running, ImagePlaces, PlyPlaces,
      RecordPlaces, Over
<1>19. CASE Dies(p) BY <1>19 DEF Dies
<1>20. CASE ExportPly(p) BY <1>20 DEF ExportPly
<1>21. CASE Record(p) BY <1>21 DEF Record
<1>22. CASE GiveUp(p) BY <1>22 DEF GiveUp
<1>23. CASE \E paths \in Seq(Images) : SaveImages(p, paths)
  BY <1>23 DEF SaveImages
<1> QED BY <1>1, <1>2, <1>3, <1>4, <1>5, <1>6, <1>7, <1>8, <1>9, <1>10, <1>11,
           <1>12, <1>13, <1>14, <1>15, <1>16, <1>17, <1>18, <1>19, <1>20,
           <1>21, <1>22, <1>23 DEF Step, Begin, FileStep, ImageStep, PlyStep,
           RecordStep

(* A temporary file is written before it is linked, and removed.            *)
LEMMA KeepsPly ==
    ASSUME NEW p \in Programs, FilesTypeOK, OneRecorder, Own(p), Step(p)
    PROVE  PlyInHand(p)'
<1> USE PathFacts, EntryFacts, Goes DEF FilesTypeOK, Has, Own, PlyInHand,
        InPly, Handler
<1>1. CASE CreateImage(p) BY <1>1 DEF CreateImage
<1>2. CASE WriteImage(p) BY <1>2 DEF WriteImage
<1>3. CASE SyncImage(p) BY <1>3, Heads DEF SyncImage
<1>4. CASE UnlinkImage(p) BY <1>4 DEF UnlinkImage
<1>5. CASE ReturnImages(p) BY <1>5 DEF ReturnImages
<1>6. CASE MakeTemporary(p) BY <1>6 DEF MakeTemporary
<1>7. CASE WritePly(p) BY <1>7 DEF WritePly
<1>8. CASE SyncPly(p) BY <1>8 DEF SyncPly
<1>9. CASE LinkPly(p) BY <1>9, Links, Puts, EntryTypes DEF LinkPly
<1>10. CASE UnlinkTemporary(p) BY <1>10 DEF UnlinkTemporary
<1>11. CASE CleanUpPly(p) BY <1>11 DEF CleanUpPly
<1>12. CASE MakeDirectory(p) BY <1>12 DEF MakeDirectory
<1>13. CASE CreateEvent(p) BY <1>13 DEF CreateEvent
<1>14. CASE WriteEvent(p) BY <1>14 DEF WriteEvent
<1>15. CASE CreateManifest(p) BY <1>15 DEF CreateManifest
<1>16. CASE WriteManifest(p) BY <1>16 DEF WriteManifest
<1>17. CASE ReturnDirectory(p) BY <1>17 DEF ReturnDirectory
<1>18. CASE Fails(p) BY <1>18 DEF Fails, Running, ImagePlaces, PlyPlaces,
      RecordPlaces, Over
<1>19. CASE Dies(p) BY <1>19 DEF Dies
<1>20. CASE ExportPly(p) BY <1>20 DEF ExportPly
<1>21. CASE Record(p) BY <1>21 DEF Record
<1>22. CASE GiveUp(p) BY <1>22 DEF GiveUp
<1>23. CASE \E paths \in Seq(Images) : SaveImages(p, paths)
  BY <1>23 DEF SaveImages
<1> QED BY <1>1, <1>2, <1>3, <1>4, <1>5, <1>6, <1>7, <1>8, <1>9, <1>10, <1>11,
           <1>12, <1>13, <1>14, <1>15, <1>16, <1>17, <1>18, <1>19, <1>20,
           <1>21, <1>22, <1>23 DEF Step, Begin, FileStep, ImageStep, PlyStep,
           RecordStep

(* Events are written one after another.                                    *)
LEMMA KeepsEvents ==
    ASSUME NEW p \in Programs, FilesTypeOK, OneRecorder, Own(p), Step(p)
    PROVE  EventsInHand(p)'
<1> USE PathFacts, EntryFacts, Goes DEF FilesTypeOK, Has, Own, EventsInHand,
        ManifestInHand, OneRecorder, InDirectory, Handler
<1>1. CASE CreateImage(p) BY <1>1, Puts, Heads, EntryTypes DEF CreateImage
<1>2. CASE WriteImage(p) BY <1>2, Puts, Heads, EntryTypes DEF WriteImage
<1>3. CASE SyncImage(p) BY <1>3, Heads DEF SyncImage
<1>4. CASE UnlinkImage(p) BY <1>4, Puts, Heads, EntryTypes DEF UnlinkImage
<1>5. CASE ReturnImages(p) BY <1>5 DEF ReturnImages
<1>6. CASE MakeTemporary(p) BY <1>6 DEF MakeTemporary
<1>7. CASE WritePly(p) BY <1>7 DEF WritePly
<1>8. CASE SyncPly(p) BY <1>8 DEF SyncPly
<1>9. CASE LinkPly(p) BY <1>9, Links, Puts, EntryTypes DEF LinkPly
<1>10. CASE UnlinkTemporary(p) BY <1>10 DEF UnlinkTemporary
<1>11. CASE CleanUpPly(p) BY <1>11 DEF CleanUpPly
<1>12. CASE MakeDirectory(p) BY <1>12 DEF MakeDirectory
<1>13. CASE CreateEvent(p) BY <1>13, Puts, NextEvent, EntryTypes DEF
      CreateEvent
<1>14. CASE WriteEvent(p) BY <1>14, Puts, NextEvent, EntryTypes DEF WriteEvent
<1>15. CASE CreateManifest(p) BY <1>15, Puts, Heads, EntryTypes DEF
      CreateManifest
<1>16. CASE WriteManifest(p) BY <1>16, Puts, Heads, EntryTypes DEF
      WriteManifest
<1>17. CASE ReturnDirectory(p) BY <1>17 DEF ReturnDirectory
<1>18. CASE Fails(p) BY <1>18 DEF Fails
<1>19. CASE Dies(p) BY <1>19 DEF Dies
<1>20. CASE ExportPly(p) BY <1>20 DEF ExportPly
<1>21. CASE Record(p) BY <1>21 DEF Record
<1>22. CASE GiveUp(p) BY <1>22 DEF GiveUp
<1>23. CASE \E paths \in Seq(Images) : SaveImages(p, paths)
  BY <1>23 DEF SaveImages
<1> QED BY <1>1, <1>2, <1>3, <1>4, <1>5, <1>6, <1>7, <1>8, <1>9, <1>10, <1>11,
           <1>12, <1>13, <1>14, <1>15, <1>16, <1>17, <1>18, <1>19, <1>20,
           <1>21, <1>22, <1>23 DEF Step, Begin, FileStep, ImageStep, PlyStep,
           RecordStep

(* The manifest is written last.                                            *)
LEMMA KeepsManifest ==
    ASSUME NEW p \in Programs, FilesTypeOK, OneRecorder, Own(p), Step(p)
    PROVE  ManifestInHand(p)'
<1> USE PathFacts, EntryFacts, Goes DEF FilesTypeOK, Has, Own, ManifestInHand,
        EventsInHand, OneRecorder, InDirectory, Handler
<1>1. CASE CreateImage(p) BY <1>1, Puts, Heads, EntryTypes DEF CreateImage
<1>2. CASE WriteImage(p) BY <1>2, Puts, Heads, EntryTypes DEF WriteImage
<1>3. CASE SyncImage(p) BY <1>3, Heads DEF SyncImage
<1>4. CASE UnlinkImage(p) BY <1>4, Puts, Heads, EntryTypes DEF UnlinkImage
<1>5. CASE ReturnImages(p) BY <1>5 DEF ReturnImages
<1>6. CASE MakeTemporary(p) BY <1>6 DEF MakeTemporary
<1>7. CASE WritePly(p) BY <1>7 DEF WritePly
<1>8. CASE SyncPly(p) BY <1>8 DEF SyncPly
<1>9. CASE LinkPly(p) BY <1>9, Links, Puts, EntryTypes DEF LinkPly
<1>10. CASE UnlinkTemporary(p) BY <1>10 DEF UnlinkTemporary
<1>11. CASE CleanUpPly(p) BY <1>11 DEF CleanUpPly
<1>12. CASE MakeDirectory(p) BY <1>12 DEF MakeDirectory
<1>13. CASE CreateEvent(p) BY <1>13, Puts, NextEvent, EntryTypes DEF
      CreateEvent
<1>14. CASE WriteEvent(p) BY <1>14, Puts, NextEvent, EntryTypes DEF WriteEvent
<1>15. CASE CreateManifest(p) BY <1>15, Puts, Heads, EntryTypes DEF
      CreateManifest
<1>16. CASE WriteManifest(p) BY <1>16, Puts, Heads, EntryTypes DEF
      WriteManifest
<1>17. CASE ReturnDirectory(p) BY <1>17 DEF ReturnDirectory
<1>18. CASE Fails(p) BY <1>18 DEF Fails
<1>19. CASE Dies(p) BY <1>19 DEF Dies
<1>20. CASE ExportPly(p) BY <1>20 DEF ExportPly
<1>21. CASE Record(p) BY <1>21 DEF Record
<1>22. CASE GiveUp(p) BY <1>22 DEF GiveUp
<1>23. CASE \E paths \in Seq(Images) : SaveImages(p, paths)
  BY <1>23 DEF SaveImages
<1> QED BY <1>1, <1>2, <1>3, <1>4, <1>5, <1>6, <1>7, <1>8, <1>9, <1>10, <1>11,
           <1>12, <1>13, <1>14, <1>15, <1>16, <1>17, <1>18, <1>19, <1>20,
           <1>21, <1>22, <1>23 DEF Step, Begin, FileStep, ImageStep, PlyStep,
           RecordStep

(* mkdir makes one program the recorder.                                    *)
LEMMA KeepsRecorder ==
    ASSUME NEW p \in Programs, FilesTypeOK, OneRecorder, Own(p), Step(p)
    PROVE  OneRecorder'
<1>1. \A q \in Programs \ {p} : pc'[q] = pc[q] /\ records'[q] = records[q]
  BY Frame
<1>2. /\ recorded => recorded'
      /\ pc'[p] \in InDirectory =>
           pc[p] \in InDirectory \/ (~recorded /\ recorded')
      /\ pc'[p] \in {"idle", "mkdir"} => pc[p] = "idle" /\ records'[p] = records[p]
      /\ ~recorded' => ~recorded
  <2> USE Goes DEF FilesTypeOK, InDirectory, Handler
  <2>1. CASE CreateImage(p) BY <2>1 DEF CreateImage
  <2>2. CASE WriteImage(p) BY <2>2 DEF WriteImage
  <2>3. CASE SyncImage(p) BY <2>3 DEF SyncImage
  <2>4. CASE UnlinkImage(p) BY <2>4 DEF UnlinkImage
  <2>5. CASE ReturnImages(p) BY <2>5 DEF ReturnImages
  <2>6. CASE MakeTemporary(p) BY <2>6 DEF MakeTemporary
  <2>7. CASE WritePly(p) BY <2>7 DEF WritePly
  <2>8. CASE SyncPly(p) BY <2>8 DEF SyncPly
  <2>9. CASE LinkPly(p) BY <2>9 DEF LinkPly
  <2>10. CASE UnlinkTemporary(p) BY <2>10 DEF UnlinkTemporary
  <2>11. CASE CleanUpPly(p) BY <2>11 DEF CleanUpPly
  <2>12. CASE MakeDirectory(p) BY <2>12 DEF MakeDirectory
  <2>13. CASE CreateEvent(p) BY <2>13 DEF CreateEvent, Put
  <2>14. CASE WriteEvent(p) BY <2>14 DEF WriteEvent, Put
  <2>15. CASE CreateManifest(p) BY <2>15 DEF CreateManifest, Put
  <2>16. CASE WriteManifest(p) BY <2>16 DEF WriteManifest, Put
  <2>17. CASE ReturnDirectory(p) BY <2>17 DEF ReturnDirectory
  <2>18. CASE Fails(p) BY <2>18 DEF Fails
  <2>19. CASE Dies(p) BY <2>19 DEF Dies
  <2>20. CASE ExportPly(p) BY <2>20 DEF ExportPly
  <2>21. CASE Record(p) BY <2>21 DEF Record
  <2>22. CASE GiveUp(p) BY <2>22 DEF GiveUp
  <2>23. CASE \E paths \in Seq(Images) : SaveImages(p, paths)
    BY <2>23 DEF SaveImages
  <2> QED BY <2>1, <2>2, <2>3, <2>4, <2>5, <2>6, <2>7, <2>8, <2>9, <2>10,
             <2>11, <2>12, <2>13, <2>14, <2>15, <2>16, <2>17, <2>18, <2>19,
             <2>20, <2>21, <2>22, <2>23 DEF Step, Begin, FileStep, ImageStep,
             PlyStep, RecordStep
<1>3. \A x, y \in Programs :
        pc'[x] \in InDirectory /\ pc'[y] \in InDirectory => x = y
  BY <1>1, <1>2 DEF OneRecorder
<1>4. \A x \in Programs :
        /\ pc'[x] \in InDirectory => recorded'
        /\ pc'[x] \in {"idle", "mkdir"} => records'[x] = 0
  BY <1>1, <1>2 DEF OneRecorder
<1>5. ~recorded' => \A f \in Events \cup {Manifest} : files'[f] = Nothing
  <2> SUFFICES ASSUME ~recorded', NEW f \in Events \cup {Manifest}
               PROVE  files'[f] = Nothing
    OBVIOUS
  <2>1. files[f] = Nothing /\ pc[p] \notin InDirectory /\ f \in Paths
    BY <1>2, PathFacts DEF OneRecorder
  <2> QED BY <2>1, Footprint, PathFacts
<1> QED BY <1>3, <1>4, <1>5 DEF OneRecorder

(* The destination of export_ply is only ever linked, and when it is whole. *)
LEMMA KeepsPlyAtomic ==
    ASSUME NEW p \in Programs, FilesTypeOK, Own(p), PlyIsAtomic, Step(p)
    PROVE  PlyIsAtomic'
<1>1. Ply \in Paths /\ Ply \notin Images /\ Ply \notin Events \cup {Manifest}
  BY PathFacts
<1>2. files'[Ply] = files[Ply] \/ files'[Ply] = Whole(p)
  BY <1>1, Footprint
<1> QED BY <1>2, EntryFacts DEF PlyIsAtomic

(* Whoever is not in the directory after a step has left it as it was.      *)
LEMMA Leaves ==
    ASSUME NEW p \in Programs, FilesTypeOK, Own(p), Step(p), pc'[p] \notin InDirectory
    PROVE  /\ records' = records
           /\ \A f \in Events \cup {Manifest} : files'[f] = files[f]
<1>1. records' = records /\ (pc[p] \in InDirectory => files' = files)
  <2> USE Goes DEF InDirectory
  <2>1. CASE CreateImage(p) BY <2>1 DEF CreateImage
  <2>2. CASE WriteImage(p) BY <2>2 DEF WriteImage
  <2>3. CASE SyncImage(p) BY <2>3 DEF SyncImage
  <2>4. CASE UnlinkImage(p) BY <2>4 DEF UnlinkImage
  <2>5. CASE ReturnImages(p) BY <2>5 DEF ReturnImages
  <2>6. CASE MakeTemporary(p) BY <2>6 DEF MakeTemporary
  <2>7. CASE WritePly(p) BY <2>7 DEF WritePly
  <2>8. CASE SyncPly(p) BY <2>8 DEF SyncPly
  <2>9. CASE LinkPly(p) BY <2>9 DEF LinkPly
  <2>10. CASE UnlinkTemporary(p) BY <2>10 DEF UnlinkTemporary
  <2>11. CASE CleanUpPly(p) BY <2>11 DEF CleanUpPly
  <2>12. CASE MakeDirectory(p) BY <2>12 DEF MakeDirectory
  <2>13. CASE CreateEvent(p) BY <2>13 DEF CreateEvent, Put
  <2>14. CASE WriteEvent(p) BY <2>14 DEF WriteEvent, Put
  <2>15. CASE CreateManifest(p) BY <2>15 DEF CreateManifest, Put
  <2>16. CASE WriteManifest(p) BY <2>16 DEF WriteManifest, Put
  <2>17. CASE ReturnDirectory(p) BY <2>17 DEF ReturnDirectory
  <2>18. CASE Fails(p) BY <2>18 DEF Fails
  <2>19. CASE Dies(p) BY <2>19 DEF Dies
  <2>20. CASE ExportPly(p) BY <2>20 DEF ExportPly
  <2>21. CASE Record(p) BY <2>21 DEF Record
  <2>22. CASE GiveUp(p) BY <2>22 DEF GiveUp
  <2>23. CASE \E paths \in Seq(Images) : SaveImages(p, paths)
    BY <2>23 DEF SaveImages
  <2> QED BY <2>1, <2>2, <2>3, <2>4, <2>5, <2>6, <2>7, <2>8, <2>9, <2>10,
             <2>11, <2>12, <2>13, <2>14, <2>15, <2>16, <2>17, <2>18, <2>19,
             <2>20, <2>21, <2>22, <2>23 DEF Step, Begin, FileStep, ImageStep,
             PlyStep, RecordStep
<1>2. \A f \in Events \cup {Manifest} : f \in Paths /\ f \notin Images /\ f # Ply
  BY PathFacts
<1> QED BY <1>1, <1>2, Footprint

(* Every file has somebody who put it there.                                *)
LEMMA KeepsAuthors ==
    ASSUME NEW p \in Programs, FilesTypeOK, Own(p), Authored, Step(p)
    PROVE  Authored'
<1>1. \A f \in Paths : files'[f] = files[f] \/ files'[f] \in {Nothing, Torn(p), Whole(p)}
  BY Footprint
<1> QED BY <1>1, EntryFacts DEF Authored

(* A whole manifest is final, and so is what it tells.                      *)
LEMMA KeepsManifestTrue ==
    ASSUME NEW p \in Programs, FilesTypeOK, Own(p), Authored, ManifestTellsAll, Step(p),
           FilesTypeOK', Own(p)'
    PROVE  ManifestTellsAll'
<1>1. \A n \in 1..MaxEvents : Event(n) \in Events
  BY PathFacts
<1>2. CASE pc'[p] \notin InDirectory
  <2>1. records' = records /\ files'[Manifest] = files[Manifest]
        /\ \A n \in 1..MaxEvents : files'[Event(n)] = files[Event(n)]
    BY <1>1, <1>2, Leaves
  <2> QED BY <2>1 DEF ManifestTellsAll
<1>3. CASE pc'[p] \in InDirectory
  <2> SUFFICES ASSUME files'[Manifest].content = "whole", NEW n \in 1..MaxEvents
               PROVE  files'[Event(n)] =
                        IF n <= records'[files'[Manifest].by]
                        THEN Whole(files'[Manifest].by) ELSE Nothing
    BY DEF ManifestTellsAll
  <2>1. pc'[p] = "check" /\ files'[Manifest] = Whole(p)
    BY <1>3, EntryFacts DEF Own, ManifestInHand, InDirectory
  <2>2. files'[Manifest].by = p BY <2>1, EntryFacts
  <2>3. records'[p] \in Nat BY FilesAssumption DEF FilesTypeOK
  <2> QED BY <1>3, <2>1, <2>2, <2>3 DEF Own, EventsInHand
<1> QED BY <1>2, <1>3
------------------------------------------------------------------------------
(* Nothing is on the disk at first.                                         *)
LEMMA InitIsGood == FilesInit => FilesIInv
<1> SUFFICES ASSUME FilesInit PROVE FilesIInv
  OBVIOUS
<1>1. FilesTypeOK
  <2>1. files \in [Paths -> Entries] BY EntryTypes DEF FilesInit
  <2>2. 0 \in 0..MaxEvents BY FilesAssumption
  <2>3. <<>> \in Seq(Images) OBVIOUS
  <2> QED BY <2>1, <2>2, <2>3 DEF FilesInit, FilesTypeOK, Entries, Contents
<1>2. ASSUME NEW p \in Programs PROVE Own(p)
  BY PathFacts, EntryFacts DEF FilesInit, Own, SavedIsWhole, ImageInHand, TornIsInHand,
     PlyInHand, EventsInHand, ManifestInHand, InImage, InDirectory
<1>3. PlyIsAtomic BY PathFacts, EntryFacts DEF FilesInit, PlyIsAtomic
<1>4. OneRecorder
  <2>1. Events \subseteq Paths /\ Manifest \in Paths BY PathFacts DEF Paths
  <2> QED BY <2>1 DEF FilesInit, OneRecorder, InDirectory
<1>5. ManifestTellsAll BY PathFacts, EntryFacts DEF FilesInit, ManifestTellsAll
<1>6. Authored BY DEF FilesInit, Authored
<1> QED BY <1>1, <1>2, <1>3, <1>4, <1>5, <1>6 DEF FilesIInv

(* FilesIInv is inductive, also where a step of the specification is only   *)
(* one of several kinds (see Exports).                                      *)
LEMMA NextKeeps == FilesIInv /\ [FilesNext]_fileVars => FilesIInv'
<1> SUFFICES ASSUME FilesIInv, [FilesNext]_fileVars PROVE FilesIInv'
  OBVIOUS
<1>1. CASE UNCHANGED fileVars
  BY <1>1 DEF fileVars, FilesIInv, FilesTypeOK, Own, SavedIsWhole, ImageInHand, TornIsInHand,
     PlyInHand, EventsInHand, ManifestInHand, OneRecorder, PlyIsAtomic, ManifestTellsAll, Authored
<1>2. ASSUME NEW p \in Programs, Step(p) PROVE FilesIInv'
  <2>1. FilesTypeOK /\ OneRecorder /\ Own(p) /\ Authored /\ PlyIsAtomic /\ ManifestTellsAll
        /\ \A q \in Programs : Own(q)
    BY DEF FilesIInv
  <2>2. FilesTypeOK' BY <1>2, <2>1, StepKeepsTypes
  <2>3. Own(p)'
    BY <1>2, <2>1, KeepsSaved, KeepsImages, KeepsTorn, KeepsPly, KeepsEvents, KeepsManifest
       DEF Own
  <2>4. \A q \in Programs \ {p} : Own(q)' BY <1>2, <2>1, OthersKeep
  <2>5. OneRecorder' BY <1>2, <2>1, KeepsRecorder
  <2>6. PlyIsAtomic' BY <1>2, <2>1, KeepsPlyAtomic
  <2>7. ManifestTellsAll' BY <1>2, <2>1, <2>2, <2>3, KeepsManifestTrue
  <2>8. Authored' BY <1>2, <2>1, KeepsAuthors
  <2>9. \A q \in Programs : Own(q)' BY <2>3, <2>4
  <2> QED BY <2>2, <2>5, <2>6, <2>7, <2>8, <2>9 DEF FilesIInv
<1> QED BY <1>1, <1>2, StepsAreNext

(* What the invariant is for.                                               *)
LEMMA SavedIsFinal == FilesIInv => SuccessIsFinal
BY DEF FilesIInv, Own, SavedIsWhole, SuccessIsFinal
LEMMA NoDebris == FilesIInv => FailureLeavesNoDebris
BY EntryFacts DEF FilesIInv, Own, TornIsInHand, PlyInHand, InPly, PlyIsAtomic,
   FailureLeavesNoDebris

(* The strengthened invariant holds in every state.                         *)
THEOREM FilesInvariance == FilesSpec => []FilesIInv
BY InitIsGood, NextKeeps, PTL DEF FilesSpec

(* Types, for any number of programs on the same disk.                      *)
THEOREM FilesTypeCorrect == FilesSpec => []FilesTypeOK
BY FilesInvariance, PTL DEF FilesIInv

(* The destination of a voxel export is absent or whole, whoever fails or   *)
(* dies at whichever system call.                                           *)
THEOREM AtomicPly == FilesSpec => []PlyIsAtomic
BY FilesInvariance, PTL DEF FilesIInv

(* Nobody takes away or overwrites what an exporter has returned, and no    *)
(* exporter returns before what it returns is whole.                        *)
THEOREM FinalSuccess == FilesSpec => []SuccessIsFinal
BY FilesInvariance, SavedIsFinal, PTL

(* An exporter that raises takes away what it has begun, and only that.     *)
THEOREM CleanFailure == FilesSpec => []FailureLeavesNoDebris
BY FilesInvariance, NoDebris, PTL

(* A whole manifest and the event files beside it tell of each other.       *)
THEOREM TrueManifest == FilesSpec => []ManifestTellsAll
BY FilesInvariance, PTL DEF FilesIInv
--------------------------------------------------------------------------------
(* A set of numbers that is not empty has a least one, and a greatest one   *)
(* when it is bounded.                                                      *)
LEMMA LeastNumber ==
    ASSUME NEW T \in SUBSET Nat, T # {}
    PROVE  \E x \in T : \A y \in T : x <= y
<1>1. PICK x \in T : \A y \in T : ~ (<<y, x>> \in OpToRel(<, Nat))
  BY NatLessThanWellFounded, WFMin
<1>2. \A y \in T : ~(y < x) BY <1>1 DEF OpToRel
<1> QED BY <1>2

LEMMA GreatestNumber ==
    ASSUME NEW n \in Nat, NEW T \in SUBSET (0..n), T # {}
    PROVE  \E x \in T : \A y \in T : y <= x
<1> DEFINE U == {n - y : y \in T}
<1>0. \A y \in T : n - y \in Nat OBVIOUS
<1>1. U \in SUBSET Nat /\ U # {} BY <1>0
<1>2. PICK u \in U : \A w \in U : u <= w BY <1>1, LeastNumber
<1>3. PICK x \in T : u = n - x BY <1>2
<1>4. \A y \in T : n - x <= n - y BY <1>2, <1>3
<1> QED BY <1>4
------------------------------------------------------------------------------
(* The collection state.                                                    *)
(*                                                                          *)
(* Whether a message was applied is an operator of two variables; here they *)
(* are its arguments, so that it can be read before and after a message.    *)
LayersOf(k, form) == IF k = "map" THEN Drawn(form) ELSE Sparse(form)
Refuses(k, form) ==
    \/ form = "unreadable"
    \/ k = "map" /\ form = "misshapen"
    \/ k = "voxel" /\ form # "delete" /\ Sparse(form) = {}
Said(k, form) == ~(Refuses(k, form) /\ (k = "map" \/ form = "unreadable"))
LastOf(k, h, n) ==
    /\ Said(k, h[n].form)
    /\ \A o \in n + 1..Len(h) : h[o].key = h[n].key => ~Said(k, h[o].form)

LEMMA Arguments ==
    /\ \A f : LayersIn(f) = LayersOf(kind, f)
    /\ \A f : Raises(f) <=> Refuses(kind, f)
    /\ \A n : LastApplied(n) <=> LastOf(kind, heard, n)
<1>1. \A f : Raises(f) <=> Refuses(kind, f)
  BY DEF Raises, Refuses
<1>2. \A n : Missed(n) <=> ~Said(kind, heard[n].form)
  BY <1>1 DEF Missed, Said
<1> QED BY <1>1, <1>2 DEF LayersIn, LayersOf, LastApplied, LastOf

\* What is kept under a key is what the last message about it brought.
Held(k, h, b, i) ==
    \A key \in DOMAIN b :
        /\ b[key].message \in 1..Len(h) /\ LastOf(k, h, b[key].message)
        /\ h[b[key].message].key = key
        /\ b[key].layers = LayersOf(k, h[b[key].message].form)
        /\ b[key].index \in Nat /\ b[key].index < i
HeldWasTold == Held(kind, heard, byKey, index)

\* Whatever the last message about a key draws is kept.
Told(k, h, b) ==
    \A n \in 1..Len(h) : LastOf(k, h, n) /\ LayersOf(k, h[n].form) # {} =>
        h[n].key \in DOMAIN b /\ b[h[n].key].message = n
ToldIsHeld == Told(kind, heard, byKey)

\* The indices have the order of the messages.
Timely(b) ==
    \A j, k \in DOMAIN b : b[j].message < b[k].message => b[j].index < b[k].index
IndicesTellTime == Timely(byKey)

CollectionTypes ==
    /\ kind \in Kinds /\ heard \in Seq(Messages) /\ index \in Nat
    /\ DOMAIN byKey \subseteq Keys

CollectionIInv ==
    CollectionTypes /\ HeldWasTold /\ ToldIsHeld /\ IndicesTellTime

(* TilesAreAsApplied follows: the tile shown at a place and layer has the      *)
(* greatest index there, hence the last message.                            *)
LEMMA TilesFollow == CollectionIInv => TilesAreAsApplied
<1> SUFFICES ASSUME CollectionIInv PROVE TilesAreAsApplied
  OBVIOUS
<1>0. /\ Len(heard) \in Nat /\ index \in Nat
      /\ \A k \in DOMAIN byKey : byKey[k].message \in Nat /\ byKey[k].index \in Nat
  BY LenProperties DEF CollectionIInv, CollectionTypes, HeldWasTold, Held
<1>a. \A k \in DOMAIN byKey :
         /\ byKey[k].message \in 1..Len(heard) /\ LastApplied(byKey[k].message)
         /\ heard[byKey[k].message].key = k
         /\ byKey[k].layers = LayersIn(heard[byKey[k].message].form)
         /\ byKey[k].index < index
  BY Arguments DEF CollectionIInv, HeldWasTold, Held
<1>b. \A n \in 1..Len(heard) : LastApplied(n) /\ LayersIn(heard[n].form) # {} =>
         heard[n].key \in DOMAIN byKey /\ byKey[heard[n].key].message = n
  BY Arguments DEF CollectionIInv, ToldIsHeld, Told
<1>c. \A n \in 1..Len(heard) : Last(n) /\ LayersIn(heard[n].form) # {} => LastApplied(n)
  BY DEF Last, LastApplied, LayersIn, Missed, Raises, Drawn, Sparse
<1>1. ASSUME NEW t \in Tiles
      PROVE  /\ LastApplied(t.message) /\ t.layer \in LayersIn(heard[t.message].form)
             /\ t.place = PlaceOf[heard[t.message].key]
             /\ \A o \in t.message + 1..Len(heard) :
                   PlaceOf[heard[o].key] = t.place /\ Last(o) =>
                       t.layer \notin LayersIn(heard[o].form)
  <2>1. PICK k \in DOMAIN byKey : t \in TilesOf(k) /\ Shows(k, t.layer)
    BY DEF Tiles
  <2>2. t.place = PlaceOf[k] /\ t.layer \in byKey[k].layers /\ t.message = byKey[k].message
    BY <2>1 DEF TilesOf, Tile
  <2>3. /\ LastApplied(t.message) /\ t.layer \in LayersIn(heard[t.message].form)
        /\ t.place = PlaceOf[heard[t.message].key]
    BY <1>a, <2>2
  <2>4. ASSUME NEW o \in t.message + 1..Len(heard), PlaceOf[heard[o].key] = t.place,
               Last(o), t.layer \in LayersIn(heard[o].form)
        PROVE  FALSE
    <3> DEFINE j == heard[o].key
    <3>0. o \in 1..Len(heard) /\ byKey[k].message < o
      BY <1>0, <2>2, <2>4
    <3>1. LastApplied(o) /\ t.layer \in LayersIn(heard[o].form)
      BY <1>c, <2>4, <3>0
    <3>2. j \in DOMAIN byKey /\ byKey[j].message = o
      BY <1>b, <3>0, <3>1
    <3>3. t.layer \in byKey[j].layers
      BY <1>a, <3>1, <3>2
    <3>4. j \in Holding(PlaceOf[k], t.layer)
      BY <2>2, <2>4, <3>2, <3>3 DEF Holding
    <3>5. byKey[j].index <= byKey[k].index
      BY <2>1, <3>4 DEF Shows
    <3>6. byKey[k].index < byKey[j].index
      BY <3>0, <3>2 DEF CollectionIInv, IndicesTellTime, Timely
    <3> QED BY <1>0, <3>2, <3>5, <3>6
  <2> QED BY <2>3, <2>4
<1>2. ASSUME NEW n \in 1..Len(heard), NEW l \in LayersIn(heard[n].form), Last(n)
      PROVE  \E t \in Tiles : /\ t.place = PlaceOf[heard[n].key]
                              /\ t.layer = l /\ t.message >= n
  <2> DEFINE j == heard[n].key
             held == Holding(PlaceOf[j], l)
             T == {byKey[k].index : k \in held}
  <2>1. j \in DOMAIN byKey /\ byKey[j].message = n
    BY <1>b, <1>c, <1>2
  <2>2. j \in held
    BY <1>a, <2>1 DEF Holding
  <2>3. T \in SUBSET (0..index) /\ T # {}
    <3>1. \A k \in held : k \in DOMAIN byKey BY DEF Holding
    <3>2. \A k \in held : byKey[k].index \in 0..index
      BY <1>0, <1>a, <3>1
    <3> QED BY <2>2, <3>2
  <2>4. PICK x \in T : \A y \in T : y <= x
    BY <1>0, <2>3, GreatestNumber
  <2>5. PICK k \in held : byKey[k].index = x
    BY <2>4
  <2>6. k \in DOMAIN byKey /\ PlaceOf[k] = PlaceOf[j] /\ l \in byKey[k].layers
    BY <2>5 DEF Holding
  <2>7. Shows(k, l)
    BY <2>4, <2>5, <2>6 DEF Shows
  <2> DEFINE t == Tile(PlaceOf[k], l, byKey[k].message)
  <2>8. t \in TilesOf(k) /\ t.layer = l /\ t.place = PlaceOf[j]
        /\ t.message = byKey[k].message
    BY <2>6 DEF TilesOf, Tile
  <2>9. t \in Tiles BY <2>6, <2>7, <2>8 DEF Tiles
  <2>10. byKey[k].message >= n
    <3>0. byKey[j].index \in T BY <2>2
    <3>a. byKey[j].index <= byKey[k].index BY <2>4, <2>5, <3>0
    <3>1. ~(byKey[k].index < byKey[j].index) BY <1>0, <2>1, <2>6, <3>a
    <3>2. ~(byKey[k].message < byKey[j].message)
      BY <2>1, <2>6, <3>1 DEF CollectionIInv, IndicesTellTime, Timely
    <3> QED BY <1>0, <2>1, <2>6, <3>2
  <2> QED BY <2>8, <2>9, <2>10
<1> QED BY <1>1, <1>2 DEF TilesAreAsApplied

(* A message is heard after all others; what was said of its key before is  *)
(* no longer the last word if it says anything.                             *)
LEMMA LastWords ==
    ASSUME NEW k, NEW h \in Seq(Messages), NEW m \in Messages
    PROVE  LET g == Append(h, m) IN
           /\ g \in Seq(Messages) /\ Len(h) \in Nat /\ Len(g) = Len(h) + 1
           /\ \A n \in 1..Len(h) : g[n] = h[n]
           /\ g[Len(h) + 1] = m
           /\ \A n \in 1..Len(h) :
                 LastOf(k, g, n) <=> LastOf(k, h, n) /\ ~(m.key = h[n].key /\ Said(k, m.form))
           /\ LastOf(k, g, Len(h) + 1) <=> Said(k, m.form)
<1> DEFINE g == Append(h, m)
<1>1. /\ g \in Seq(Messages) /\ Len(h) \in Nat /\ Len(g) = Len(h) + 1
      /\ \A n \in 1..Len(h) : g[n] = h[n]
      /\ g[Len(h) + 1] = m
  BY AppendProperties, LenProperties
<1> HIDE DEF g
<1>2. ASSUME NEW n \in 1..Len(h)
      PROVE  LastOf(k, g, n) <=> LastOf(k, h, n) /\ ~(m.key = h[n].key /\ Said(k, m.form))
  <2>1. n + 1..Len(g) = (n + 1..Len(h)) \cup {Len(h) + 1}
    BY <1>1
  <2>2. \A o \in n + 1..Len(h) : o \in 1..Len(h) /\ g[o] = h[o]
    BY <1>1
  <2> QED BY <1>1, <2>1, <2>2 DEF LastOf
<1>3. LastOf(k, g, Len(h) + 1) <=> Said(k, m.form)
  <2>1. (Len(h) + 1) + 1..Len(g) = {} BY <1>1
  <2> QED BY <1>1, <2>1 DEF LastOf
<1> QED BY <1>1, <1>2, <1>3 DEF g

(* A message that says nothing changes nothing.                             *)
LEMMA SilenceKeeps ==
    ASSUME NEW k, NEW h \in Seq(Messages), NEW m \in Messages, NEW b, NEW i \in Nat,
           Held(k, h, b, i), Told(k, h, b), ~Said(k, m.form)
    PROVE  Held(k, Append(h, m), b, i) /\ Told(k, Append(h, m), b)
<1> DEFINE g == Append(h, m)
<1>1. /\ Len(h) \in Nat /\ Len(g) = Len(h) + 1
      /\ \A n \in 1..Len(h) : g[n] = h[n]
      /\ \A n \in 1..Len(h) : LastOf(k, g, n) <=> LastOf(k, h, n)
      /\ ~LastOf(k, g, Len(h) + 1)
  BY LastWords
<1> HIDE DEF g
<1>2. Held(k, g, b, i) BY <1>1 DEF Held
<1>3. Told(k, g, b)
  <2>1. \A n \in 1..Len(g) : n \in 1..Len(h) \/ n = Len(h) + 1 BY <1>1
  <2> QED BY <1>1, <2>1 DEF Told
<1> QED BY <1>2, <1>3 DEF g

(* A message that says something and draws nothing deletes.                 *)
LEMMA DeletionKeeps ==
    ASSUME NEW k, NEW h \in Seq(Messages), NEW m \in Messages, NEW b, NEW i \in Nat, NEW c,
           Held(k, h, b, i), Told(k, h, b), Timely(b),
           Said(k, m.form), LayersOf(k, m.form) = {},
           DOMAIN c = DOMAIN b \ {m.key},
           \A key \in DOMAIN b \ {m.key} : c[key] = b[key]
    PROVE  Held(k, Append(h, m), c, i + 1) /\ Told(k, Append(h, m), c) /\ Timely(c)
<1> DEFINE g == Append(h, m)
<1>1. /\ Len(h) \in Nat /\ Len(g) = Len(h) + 1
      /\ \A n \in 1..Len(h) : g[n] = h[n]
      /\ g[Len(h) + 1] = m
      /\ \A n \in 1..Len(h) : LastOf(k, g, n) <=> LastOf(k, h, n) /\ m.key # h[n].key
  BY LastWords
<1> HIDE DEF g
<1>2. Held(k, g, c, i + 1) BY <1>1 DEF Held
<1>3. Told(k, g, c)
  <2> SUFFICES ASSUME NEW n \in 1..Len(g), LastOf(k, g, n), LayersOf(k, g[n].form) # {}
               PROVE  g[n].key \in DOMAIN c /\ c[g[n].key].message = n
    BY DEF Told
  <2>1. CASE n = Len(h) + 1 BY <1>1, <2>1
  <2>2. CASE n \in 1..Len(h)
    <3>1. LastOf(k, h, n) /\ m.key # h[n].key /\ g[n] = h[n] BY <1>1, <2>2
    <3>2. h[n].key \in DOMAIN b /\ b[h[n].key].message = n BY <2>2, <3>1 DEF Told
    <3> QED BY <3>1, <3>2
  <2> QED BY <1>1, <2>1, <2>2
<1>4. Timely(c) BY DEF Timely
<1> QED BY <1>2, <1>3, <1>4 DEF g

(* A message that is kept has the greatest index.                           *)
LEMMA KeepingKeeps ==
    ASSUME NEW k, NEW h \in Seq(Messages), NEW m \in Messages, NEW b, NEW i \in Nat, NEW c,
           Held(k, h, b, i), Told(k, h, b), Timely(b),
           Said(k, m.form),
           DOMAIN c = DOMAIN b \cup {m.key},
           c[m.key] = [index |-> i, message |-> Len(h) + 1, layers |-> LayersOf(k, m.form)],
           \A key \in DOMAIN b \ {m.key} : c[key] = b[key]
    PROVE  Held(k, Append(h, m), c, i + 1) /\ Told(k, Append(h, m), c) /\ Timely(c)
<1> DEFINE g == Append(h, m)
<1>1. /\ Len(h) \in Nat /\ Len(g) = Len(h) + 1
      /\ \A n \in 1..Len(h) : g[n] = h[n]
      /\ g[Len(h) + 1] = m
      /\ \A n \in 1..Len(h) : LastOf(k, g, n) <=> LastOf(k, h, n) /\ m.key # h[n].key
      /\ LastOf(k, g, Len(h) + 1)
  BY LastWords
<1> HIDE DEF g
<1>2. Held(k, g, c, i + 1)
  <2> SUFFICES ASSUME NEW key \in DOMAIN c
               PROVE  /\ c[key].message \in 1..Len(g) /\ LastOf(k, g, c[key].message)
                      /\ g[c[key].message].key = key
                      /\ c[key].layers = LayersOf(k, g[c[key].message].form)
                      /\ c[key].index \in Nat /\ c[key].index < i + 1
    BY DEF Held
  <2>1. CASE key = m.key BY <1>1, <2>1
  <2>2. CASE key # m.key BY <1>1, <2>2 DEF Held
  <2> QED BY <2>1, <2>2
<1>3. Told(k, g, c)
  <2> SUFFICES ASSUME NEW n \in 1..Len(g), LastOf(k, g, n), LayersOf(k, g[n].form) # {}
               PROVE  g[n].key \in DOMAIN c /\ c[g[n].key].message = n
    BY DEF Told
  <2>1. CASE n = Len(h) + 1 BY <1>1, <2>1
  <2>2. CASE n \in 1..Len(h)
    <3>1. LastOf(k, h, n) /\ m.key # h[n].key /\ g[n] = h[n] BY <1>1, <2>2
    <3>2. h[n].key \in DOMAIN b /\ b[h[n].key].message = n BY <2>2, <3>1 DEF Told
    <3> QED BY <3>1, <3>2
  <2> QED BY <1>1, <2>1, <2>2
<1>4. Timely(c)
  <2> SUFFICES ASSUME NEW x \in DOMAIN c, NEW y \in DOMAIN c, c[x].message < c[y].message
               PROVE  c[x].index < c[y].index
    BY DEF Timely
  <2>1. \A key \in DOMAIN b : b[key].message \in 1..Len(h) /\ b[key].index \in Nat
                               /\ b[key].index < i
    BY DEF Held
  <2>2. x # m.key BY <1>1, <2>1
  <2>3. CASE y = m.key BY <2>1, <2>2, <2>3
  <2>4. CASE y # m.key BY <2>2, <2>4 DEF Timely
  <2> QED BY <2>3, <2>4
<1> QED BY <1>2, <1>3, <1>4 DEF g

(* Each of the four ways in which a message may be taken.                   *)
LEMMA ApplyKeeps ==
    ASSUME CollectionIInv, NEW m \in Messages, Apply(m)
    PROVE  CollectionIInv'
<1>0. /\ CollectionTypes /\ Held(kind, heard, byKey, index)
      /\ Told(kind, heard, byKey) /\ Timely(byKey)
      /\ heard \in Seq(Messages) /\ index \in Nat /\ kind \in Kinds
      /\ heard' = Append(heard, m) /\ kind' = kind /\ m.key \in Keys
  BY DEF CollectionIInv, CollectionTypes, HeldWasTold, ToldIsHeld, IndicesTellTime, Apply,
     Messages
<1>1. SUFFICES /\ Held(kind, Append(heard, m), byKey', index')
               /\ Told(kind, Append(heard, m), byKey') /\ Timely(byKey')
               /\ index' \in Nat /\ DOMAIN byKey' \subseteq Keys
  <2>1. heard' \in Seq(Messages) BY <1>0, AppendProperties
  <2> QED
    BY <1>0, <2>1
       DEF CollectionIInv, CollectionTypes, HeldWasTold, ToldIsHeld, IndicesTellTime
<1>2. CASE Skip(m)
  <2>1. ~Said(kind, m.form) /\ byKey' = byKey /\ index' = index
    BY <1>2, Arguments DEF Skip, Said
  <2> QED BY <1>0, <2>1, SilenceKeeps DEF CollectionTypes
<1>3. CASE Keep(m)
  <2>1. /\ Said(kind, m.form) /\ index' = index + 1
        /\ DOMAIN byKey' = DOMAIN byKey \cup {m.key}
        /\ byKey'[m.key] = [index |-> index, message |-> Len(heard) + 1,
                            layers |-> LayersOf(kind, m.form)]
        /\ \A k \in DOMAIN byKey \ {m.key} : byKey'[k] = byKey[k]
    BY <1>3, Arguments DEF Keep, Said, With
  <2>2. index' \in Nat /\ DOMAIN byKey' \subseteq Keys
    BY <1>0, <2>1 DEF CollectionTypes
  <2> QED BY <1>0, <2>1, <2>2, KeepingKeeps
<1>4. CASE Forget(m) \/ Spoil(m)
  <2>1. /\ Said(kind, m.form) /\ index' = index + 1 /\ LayersOf(kind, m.form) = {}
        /\ DOMAIN byKey' = DOMAIN byKey \ {m.key}
        /\ \A k \in DOMAIN byKey \ {m.key} : byKey'[k] = byKey[k]
    BY <1>4, Arguments
       DEF Forget, Spoil, Said, Without, Refuses, LayersOf, Drawn, Sparse
  <2>2. index' \in Nat /\ DOMAIN byKey' \subseteq Keys
    BY <1>0, <2>1 DEF CollectionTypes
  <2> QED BY <1>0, <2>1, <2>2, DeletionKeeps
<1> QED BY <1>2, <1>3, <1>4 DEF Apply
------------------------------------------------------------------------------
(* The programs: who reads, what there is to read, and how long it may be.  *)
ReaderIInv ==
    /\ CollectionIInv
    /\ reader \in Programs \cup {Nobody} /\ unfit \subseteq Programs
    /\ reader = Nobody => heard = <<>> /\ DOMAIN byKey = {} /\ index = 0
    /\ index <= Len(heard) /\ Len(heard) <= MaxMessages

\* A state that has heard nothing, or has forgotten all, is a good one.
LEMMA NothingHeard ==
    ASSUME kind \in Kinds, heard = <<>>, DOMAIN byKey = {}, index = 0
    PROVE  CollectionIInv /\ index <= Len(heard) /\ Len(heard) <= MaxMessages
<1>1. heard \in Seq(Messages) /\ Len(heard) = 0 BY EmptySeq
<1>2. HeldWasTold BY DEF HeldWasTold, Held
<1>3. ToldIsHeld BY <1>1 DEF ToldIsHeld, Told
<1>4. IndicesTellTime BY DEF IndicesTellTime, Timely
<1> QED
  BY <1>1, <1>2, <1>3, <1>4, CollectionAssumption DEF CollectionIInv, CollectionTypes

LEMMA ClosingEmpties == Close /\ unfit' \subseteq Programs => ReaderIInv'
<1> SUFFICES ASSUME Close, unfit' \subseteq Programs PROVE ReaderIInv'
  OBVIOUS
<1>1. /\ kind' \in Kinds /\ heard' = <<>> /\ DOMAIN byKey' = {} /\ index' = 0
      /\ reader' = Nobody
  BY DEF Close, Kinds
<1>2. (kind \in Kinds /\ heard = <<>> /\ DOMAIN byKey = {} /\ index = 0
        => CollectionIInv /\ index <= Len(heard) /\ Len(heard) <= MaxMessages)'
  BY NothingHeard, PTL
<1> QED BY <1>1, <1>2 DEF ReaderIInv

LEMMA ReaderStarts == Init => ReaderIInv
<1> SUFFICES ASSUME Init PROVE ReaderIInv
  OBVIOUS
<1>1. /\ kind \in Kinds /\ heard = <<>> /\ DOMAIN byKey = {} /\ index = 0
      /\ reader = Nobody /\ unfit = {}
  BY DEF Init, Empty, Kinds
<1> QED BY <1>1, NothingHeard DEF ReaderIInv

LEMMA ReaderKeeps == ReaderIInv /\ [Next]_vars => ReaderIInv'
<1> SUFFICES ASSUME ReaderIInv, [Next]_vars PROVE ReaderIInv'
  OBVIOUS
<1>0. /\ CollectionIInv /\ unfit \subseteq Programs /\ reader \in Programs \cup {Nobody}
  BY DEF ReaderIInv
<1>1. ASSUME UNCHANGED <<collectionVars, reader, unfit>> PROVE ReaderIInv'
  BY <1>1 DEF collectionVars, ReaderIInv, CollectionIInv, CollectionTypes, HeldWasTold,
     ToldIsHeld, IndicesTellTime
<1>2. ASSUME NEW p \in Programs, Open(p) PROVE ReaderIInv'
  <2>1. /\ kind' \in Kinds /\ heard' = <<>> /\ DOMAIN byKey' = {} /\ index' = 0
        /\ reader' = p /\ p # Nobody /\ unfit' = unfit
    BY <1>2, FilesAssumption DEF Open, ReaderIInv
  <2>2. (kind \in Kinds /\ heard = <<>> /\ DOMAIN byKey = {} /\ index = 0
          => CollectionIInv /\ index <= Len(heard) /\ Len(heard) <= MaxMessages)'
    BY NothingHeard, PTL
  <2> QED BY <1>0, <2>1, <2>2 DEF ReaderIInv
<1>3. CASE Read
  <2>1. PICK m \in Messages : Apply(m) BY <1>3 DEF Read
  <2>2. CollectionIInv' BY <1>0, <2>1, ApplyKeeps
  <2>3. /\ reader # Nobody /\ reader' = reader /\ unfit' = unfit
    BY <1>3 DEF Read
  <2>4. index \in Nat /\ Len(heard) \in Nat /\ Len(heard') = Len(heard) + 1
        /\ Len(heard) < MaxMessages
    <3>1. heard \in Seq(Messages) /\ index \in Nat BY <1>0 DEF CollectionIInv, CollectionTypes
    <3> QED BY <2>1, <3>1, LenProperties, AppendProperties DEF Apply
  <2>5. index' = index \/ index' = index + 1
    BY <2>1 DEF Apply, Forget, Keep, Spoil, Skip
  <2>6. index' <= Len(heard') /\ Len(heard') <= MaxMessages
    BY <2>4, <2>5, CollectionAssumption DEF ReaderIInv
  <2> QED BY <1>0, <2>2, <2>3, <2>6 DEF ReaderIInv
<1>4. CASE Abandon
  BY <1>0, <1>4, ClosingEmpties DEF Abandon
<1>5. CASE DecodeMap
  BY <1>0, <1>5, ClosingEmpties DEF DecodeMap
<1>6. CASE ExportVoxels
  <2>1. reader \in Programs BY <1>0, <1>6 DEF ExportVoxels
  <2>2. unfit' \subseteq Programs BY <1>0, <1>6, <2>1 DEF ExportVoxels
  <2> QED BY <1>6, <2>2, ClosingEmpties DEF ExportVoxels
<1>7. ASSUME NEW p \in Programs, ExtractMedia(p) \/ RecordTelemetry(p) \/ Save(p)
      PROVE  ReaderIInv'
  BY <1>1, <1>7 DEF ExtractMedia, RecordTelemetry, Save
<1>8. CASE Terminated \/ UNCHANGED vars
  BY <1>1, <1>8 DEF Terminated, vars
<1> QED BY <1>2, <1>3, <1>4, <1>5, <1>6, <1>7, <1>8 DEF Next

(* What a program reads into its state is in it as it was applied.          *)
THEOREM ReaderInvariance == Spec => []ReaderIInv
BY ReaderStarts, ReaderKeeps, PTL DEF Spec

(* Whatever messages are read, with however many keys, the tiles shown and  *)
(* exported are the last that were applied to each place and layer.         *)
THEOREM TilesAreApplied == Spec => []TilesAreAsApplied
<1>1. ReaderIInv => TilesAreAsApplied BY TilesFollow DEF ReaderIInv
<1> QED BY <1>1, ReaderInvariance, PTL
------------------------------------------------------------------------------
(* The programs do on the disk what PrivateFiles says and no more.          *)
LEMMA MosaicsAreImages ==
    ASSUME CollectionIInv, kind = "map"
    PROVE  Mosaics \in Seq(Images)
<1> DEFINE S == {Mosaic(t.place, t.layer) : t \in Tiles}
<1>1. ASSUME NEW t \in Tiles PROVE Mosaic(t.place, t.layer) \in AllMosaics
  <2>1. PICK k \in DOMAIN byKey : t \in TilesOf(k)
    BY DEF Tiles
  <2>2. PICK l \in byKey[k].layers : t = Tile(PlaceOf[k], l, byKey[k].message)
    BY <2>1 DEF TilesOf
  <2>3. k \in Keys BY DEF CollectionIInv, CollectionTypes
  <2>4. byKey[k].layers = LayersOf("map", heard[byKey[k].message].form)
    BY DEF CollectionIInv, HeldWasTold, Held
  <2>5. l \in MapLayers
    BY <2>2, <2>4 DEF LayersOf, Drawn, MapLayers
  <2>6. t.place = PlaceOf[k] /\ t.layer = l BY <2>2 DEF Tile
  <2> QED BY <2>3, <2>5, <2>6 DEF AllMosaics
<1>2. S \in SUBSET AllMosaics BY <1>1
<1>3. Sorted[S] \in Seq(S) BY <1>2, ImagesAssumption
<1>4. S \subseteq Images BY <1>2, ImagesAssumption
<1>5. \A s \in Seq(S) : s \in Seq(Images) BY <1>4, SeqDef
<1> QED BY <1>3, <1>5 DEF Mosaics

LEMMA StepIsOnFiles == ReaderIInv /\ [Next]_vars => [FilesNext]_fileVars
<1> SUFFICES ASSUME ReaderIInv, [Next]_vars PROVE [FilesNext]_fileVars
  OBVIOUS
<1>0. CollectionIInv /\ reader \in Programs \cup {Nobody} BY DEF ReaderIInv
<1>1. CASE Read \/ Terminated \/ UNCHANGED vars
  BY <1>1 DEF Read, Terminated, vars
<1>2. CASE Abandon
  <2>1. reader \in Programs /\ GiveUp(reader) BY <1>0, <1>2 DEF Abandon
  <2> QED BY <2>1 DEF FilesNext, Begin
<1>3. CASE DecodeMap
  <2>1. reader \in Programs /\ kind = "map" /\ SaveImages(reader, Mosaics)
    BY <1>0, <1>3 DEF DecodeMap
  <2>2. Mosaics \in Seq(Images) BY <1>0, <2>1, MosaicsAreImages
  <2> QED BY <2>1, <2>2 DEF FilesNext, Begin
<1>4. CASE ExportVoxels
  <2>1. reader \in Programs /\ ExportPly(reader) BY <1>0, <1>4 DEF ExportVoxels
  <2> QED BY <2>1 DEF FilesNext, Begin
<1>5. ASSUME NEW p \in Programs, Open(p) PROVE UNCHANGED fileVars
  BY <1>5 DEF Open
<1>6. ASSUME NEW p \in Programs, ExtractMedia(p) PROVE FilesNext
  <2>1. PICK n \in 1..Len(WebpOrder) : SaveImages(p, SubSeq(WebpOrder, 1, n))
    BY <1>6 DEF ExtractMedia
  <2>2. SubSeq(WebpOrder, 1, n) \in Seq(Images)
    <3>1. WebpOrder \in Seq(Images) /\ Len(WebpOrder) \in Nat
      BY ImagesAssumption, LenProperties
    <3> QED BY <3>1, SubSeqProperties
  <2> QED BY <2>1, <2>2 DEF FilesNext, Begin
<1>7. ASSUME NEW p \in Programs, RecordTelemetry(p) PROVE FilesNext
  BY <1>7 DEF RecordTelemetry, FilesNext, Begin
<1>8. ASSUME NEW p \in Programs, Save(p) PROVE FilesNext
  BY <1>8 DEF Save, FilesNext
<1> QED BY <1>1, <1>2, <1>3, <1>4, <1>5, <1>6, <1>7, <1>8 DEF Next

(* The composition implements PrivateFiles, so that each of its theorems    *)
(* holds of programs that read what they export.                            *)
THEOREM ExportsAreOnFiles == Spec => FilesSpec
<1>1. Init => FilesInit BY DEF Init
<1> QED BY <1>1, StepIsOnFiles, ReaderInvariance, PTL DEF Spec, FilesSpec

(* Types of both parts.                                                     *)
THEOREM TypeCorrect == Spec => []TypeOK
<1>1. ReaderIInv /\ FilesTypeOK => TypeOK
  <2> SUFFICES ASSUME ReaderIInv, FilesTypeOK PROVE TypeOK
    OBVIOUS
  <2>1. /\ CollectionTypes /\ HeldWasTold /\ index \in 0..Len(heard)
    <3>1. heard \in Seq(Messages) /\ index \in Nat
      BY DEF ReaderIInv, CollectionIInv, CollectionTypes
    <3>2. Len(heard) \in Nat BY <3>1, LenProperties
    <3> QED BY <3>1, <3>2 DEF ReaderIInv, CollectionIInv
  <2>2. \A k \in DOMAIN byKey :
          /\ byKey[k].index \in 0..index
          /\ byKey[k].message \in 1..Len(heard)
          /\ byKey[k].layers = LayersIn(heard[byKey[k].message].form)
    BY <2>1, Arguments DEF HeldWasTold, Held
  <2> QED BY <2>1, <2>2 DEF TypeOK, ReaderIInv, CollectionTypes
<1> QED BY <1>1, ReaderInvariance, ExportsAreOnFiles, FilesTypeCorrect, PTL

(* All that is promised of the files, whatever is read before.              *)
THEOREM ExportsKeepPromises ==
    Spec => [](PlyIsAtomic /\ SuccessIsFinal /\ FailureLeavesNoDebris /\ ManifestTellsAll)
BY ExportsAreOnFiles, AtomicPly, FinalSuccess, CleanFailure, TrueManifest, PTL
================================================================================
