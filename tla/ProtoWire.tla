----------------------------- MODULE ProtoWire -----------------------------
(***************************************************************************)
(* matic_sdk/protocol/wire.py: the protobuf wire format, as the SDK writes *)
(* and reads it.  A message is a sequence of bytes.                        *)
(*                                                                         *)
(* A fixed-width value is opaque to the SDK (a float, half of a UUID, an   *)
(* identifier): its four or eight bytes are written as so many copies of   *)
(* the value, which keeps the lengths and keeps different values apart.    *)
(***************************************************************************)
EXTENDS Integers, Sequences, SequencesExt

CONSTANT Malformed    \* what a parser returns for what it refuses

\* A field as it is parsed; a number is read as a sequence of one.
WireFields == [number: Nat, type: Nat, value: Seq(Nat), end: Nat]
ASSUME MalformedAssumption ==
    /\ Malformed \notin Nat \X Nat /\ Malformed \notin Seq(Nat)
    /\ Malformed \notin WireFields /\ Malformed \notin Seq(WireFields)

MaxGroups == 10    \* decode_varint stops at a shift of 70 bits

EncodeVarint[value \in Nat] ==
    IF value < 128 THEN <<value>>
    ELSE <<128 + (value % 128)>> \o EncodeVarint[value \div 128]

\* The two's complement of a negative number, as ten groups of seven bits.
EncodeSigned(value) ==
    LET rest[k \in 1..MaxGroups] == IF k = 1 THEN value ELSE rest[k - 1] \div 128
        group(k) == IF k = MaxGroups THEN rest[k] % 2 ELSE 128 + (rest[k] % 128)
    IN IF value >= 0 THEN EncodeVarint[value] ELSE [k \in 1..MaxGroups |-> group(k)]

Tag(number, wireType) == EncodeVarint[8 * number + wireType]

Varint(number, value) == Tag(number, 0) \o EncodeVarint[value]
Fixed64(number, value) == Tag(number, 1) \o [i \in 1..8 |-> value]
Bytes(number, value) == Tag(number, 2) \o EncodeVarint[Len(value)] \o value
Fixed32(number, value) == Tag(number, 5) \o [i \in 1..4 |-> value]

\* proto3 leaves a scalar out when it is zero, an optional field when absent.
When(present, field) == IF present THEN field ELSE <<>>
------------------------------------------------------------------------------
(* decode_varint: the value and the offset after it, 0-based as in Python.  *)

VarintIn(data, first, last) ==
    LET value[i \in first..last] ==
            IF i = last THEN data[i] ELSE data[i] - 128 + 128 * value[i + 1]
    IN <<value[first], last>>
DecodeVarint(data, offset) ==
    LET ends == {i \in offset + 1 .. Len(data) :
                    i <= offset + MaxGroups /\ data[i] < 128}
    IN IF ends = {} THEN Malformed
       ELSE VarintIn(data, offset + 1, CHOOSE i \in ends : \A j \in ends : i <= j)

\* The value of one field and the offset behind it.
Field(number, wireType, value, end) ==
    [number |-> number, type |-> wireType, value |-> value, end |-> end]
Slice(data, number, wireType, from, size) ==
    IF from + size > Len(data) THEN Malformed
    ELSE Field(number, wireType, SubSeq(data, from + 1, from + size), from + size)

\* Mutant: the slice of a length-delimited field goes as far as there are bytes.
CountedClamped(data, number, wireType, count) ==
    IF count = Malformed THEN Malformed
    ELSE IF wireType = 0 THEN Field(number, 0, <<count[1]>>, count[2])
    ELSE IF count[2] + count[1] > Len(data)
         THEN Slice(data, number, 2, count[2], Len(data) - count[2])
    ELSE Slice(data, number, 2, count[2], count[1])

\* A field that begins with a varint: its value, or its length.
Counted(data, number, wireType, count) ==
    IF count = Malformed THEN Malformed
    ELSE IF wireType = 0 THEN Field(number, 0, <<count[1]>>, count[2])
    ELSE Slice(data, number, 2, count[2], count[1])
FieldOf(data, number, wireType, offset) ==
    CASE wireType = 1 -> Slice(data, number, 1, offset, 8)
      [] wireType = 5 -> Slice(data, number, 5, offset, 4)
      [] wireType \in {0, 2} -> Counted(data, number, wireType, DecodeVarint(data, offset))
      [] OTHER -> Malformed
FieldAt(data, number, wireType, offset) ==
    IF number = 0 THEN Malformed ELSE FieldOf(data, number, wireType, offset)
FieldAfter(data, tag) ==
    IF tag = Malformed THEN Malformed
    ELSE FieldAt(data, tag[1] \div 8, tag[1] % 8, tag[2])

\* parse_fields: the fields of a message in order, or Malformed.
Before(field, rest) == IF rest = Malformed THEN Malformed ELSE <<field>> \o rest
FieldAndRest(field, from) ==
    IF field = Malformed THEN Malformed ELSE Before(field, from[field.end])
ParseFields(data) ==
    LET from[offset \in 0..Len(data)] ==
            IF offset = Len(data) THEN <<>>
            ELSE FieldAndRest(FieldAfter(data, DecodeVarint(data, offset)), from)
    IN from[0]
============================================================================
