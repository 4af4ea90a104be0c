---------------------------- MODULE CollectionState ----------------------------
(***************************************************************************)
(* MapCollectionState (matic_sdk/maps.py) and VoxelCollectionState         *)
(* (matic_sdk/voxels.py): a dictionary of decoded tiles kept under the raw *)
(* keys of a collection, to which messages are applied one at a time.  Two *)
(* raw keys may decode to one place; `tiles` settles which of them shows.  *)
(*                                                                         *)
(* A message is a key and a form, what its value is to the two decoders;   *)
(* a tile is a place, a layer and the number of the message it came with.  *)
(***************************************************************************)
EXTENDS Naturals, Sequences

CONSTANTS
    Keys,         (* raw keys                                               *)
    PlaceOf,      (* the mission and page each of them decodes to           *)
    MaxMessages   (* bound: messages applied to one state                   *)

ASSUME CollectionAssumption == MaxMessages \in Nat

Kinds == {"map", "voxel"}
Forms == {"full",        \* floor, surface bits, as many colours as bits
          "surface",     \* the same without a floor
          "floor",       \* a floor alone
          "miscounted",  \* surface bits with another number of colours
          "opaque",      \* parses, and holds nothing that can be drawn
          "misshapen",   \* an integrated tile whose planes have the wrong size
          "unreadable",  \* the response or its value does not parse
          "delete"}      \* no value at all
Messages == [key : Keys, form : Forms]

VARIABLES
    kind,      \* which of the two states this is
    heard,     \* the messages so far (history)
    byKey,     \* _by_key: the keys held, with index, message and layers
    index      \* _event_index

collectionVars == <<kind, heard, byKey, index>>

Empty(k) ==
    /\ kind = k
    /\ heard = <<>>
    /\ byKey = [k0 \in {} |-> {}]
    /\ index = 0
------------------------------------------------------------------------------
(* decode_map_event and decode_compressed_tile *)

Drawn(form) ==
    CASE form = "full" -> {"floor-rgba", "surface-rgb", "composite"}
      [] form = "floor" -> {"floor-rgba"}
      [] form \in {"surface", "miscounted"} -> {"surface-rgb"}
      [] OTHER -> {}
Sparse(form) == IF form \in {"full", "surface"} THEN {"voxels"} ELSE {}
LayersIn(form) == IF kind = "map" THEN Drawn(form) ELSE Sparse(form)

\* Messages that apply_message() raises on: those neither decoder can start on,
\* and those that this one refuses.
Raises(form) ==
    \/ form = "unreadable"
    \/ kind = "map" /\ form = "misshapen"
    \/ kind = "voxel" /\ form # "delete" /\ Sparse(form) = {}
------------------------------------------------------------------------------
(* apply_message *)

Without(key) == [k \in DOMAIN byKey \ {key} |-> byKey[k]]
\* Mutant: a key that is held keeps its rank, as it does in a plain dict.
WithInPlace(key, layers) ==
    [k \in DOMAIN byKey \cup {key} |->
        IF k = key
        THEN [index |-> IF k \in DOMAIN byKey THEN byKey[k].index ELSE index,
              message |-> Len(heard) + 1, layers |-> layers]
        ELSE byKey[k]]

With(key, layers) ==
    [k \in DOMAIN byKey \cup {key} |->
        IF k = key THEN [index |-> index, message |-> Len(heard) + 1, layers |-> layers]
        ELSE byKey[k]]

Forget(m) ==
    /\ m.form = "delete"
    /\ byKey' = Without(m.key)
    /\ index' = index + 1

Keep(m) ==
    /\ m.form # "delete" /\ ~Raises(m.form)
    /\ byKey' = With(m.key, LayersIn(m.form))
    /\ index' = index + 1

\* A voxel tile that cannot be decoded takes the previous one with it ...
Spoil(m) ==
    /\ kind = "voxel" /\ Raises(m.form) /\ m.form # "unreadable"
    /\ byKey' = Without(m.key)
    /\ index' = index + 1

\* ... but an exception before apply(), or from the map decoder, leaves all as it was.
Skip(m) ==
    /\ Raises(m.form)
    /\ kind = "map" \/ m.form = "unreadable"
    /\ UNCHANGED <<byKey, index>>

Apply(m) ==
    /\ Len(heard) < MaxMessages
    /\ heard' = Append(heard, m)
    /\ Forget(m) \/ Keep(m) \/ Spoil(m) \/ Skip(m)
    /\ UNCHANGED kind
------------------------------------------------------------------------------
(* tiles *)

Holding(place, layer) ==
    {k \in DOMAIN byKey : PlaceOf[k] = place /\ layer \in byKey[k].layers}
Tile(place, layer, message) == [place |-> place, layer |-> layer, message |-> message]
TilesOf(k) ==
    {Tile(PlaceOf[k], l, byKey[k].message) : l \in byKey[k].layers}
Shows(k, layer) ==
    \A j \in Holding(PlaceOf[k], layer) : byKey[j].index <= byKey[k].index
Tiles == UNION {{t \in TilesOf(k) : Shows(k, t.layer)} : k \in DOMAIN byKey}
------------------------------------------------------------------------------
(* What a tile that is shown may be                                          *)

\* Message n raised before the state took note of it.
Missed(n) == Raises(heard[n].form) /\ (kind = "map" \/ heard[n].form = "unreadable")
\* Message n is the last about its key ...
Last(n) == \A o \in n + 1..Len(heard) : heard[o].key # heard[n].key
\* ... or the last that was not missed.
LastApplied(n) ==
    /\ ~Missed(n)
    /\ \A o \in n + 1..Len(heard) : heard[o].key = heard[n].key => Missed(o)

(* A tile shown came with the last message about its key that the state did  *)
(* not miss, is in its place, and is no older at its place and layer than    *)
(* what the last message about any key draws there; and whatever the last    *)
(* message about a key draws is shown, or something newer is.  So a replaced *)
(* value leaves no layer behind, a deleted one and a voxel tile that cannot  *)
(* be decoded leave nothing, and the later of two encodings of a place wins. *)
(* This is what the comments on _by_key and on `tiles` in maps.py and        *)
(* voxels.py say, except of a message that raises before apply(), or in the  *)
(* map decoder: of a key whose last messages were such, a tile may be shown  *)
(* or not.                                                                   *)
TilesAreAsApplied ==
    /\ \A t \in Tiles :
         /\ LastApplied(t.message) /\ t.layer \in LayersIn(heard[t.message].form)
         /\ t.place = PlaceOf[heard[t.message].key]
         /\ \A o \in t.message + 1..Len(heard) :
              PlaceOf[heard[o].key] = t.place /\ Last(o) => t.layer \notin LayersIn(heard[o].form)
    /\ \A n \in 1..Len(heard) : \A l \in LayersIn(heard[n].form) :
         Last(n) =>
           \E t \in Tiles : /\ t.place = PlaceOf[heard[n].key]
                            /\ t.layer = l /\ t.message >= n

(* A malformed replacement leaves no stale voxel tile: what is shown came    *)
(* with the last message about its key, whatever that message was.  apply()  *)
(* and its test promise this; apply_message() parses the message before      *)
(* apply() sees it, and when that raises the previous tile stays.            *)
NoStaleTileStays == kind = "voxel" => \A t \in Tiles : Last(t.message)
==============================================================================
