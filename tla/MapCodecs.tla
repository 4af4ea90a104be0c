------------------------------ MODULE MapCodecs ------------------------------
(***************************************************************************)
(* matic_sdk/protocol/commands.py: the codecs that edit the map and the    *)
(* schedules.  They name rooms, partitions and events by UUIDs that        *)
(* crossed the Android application's foreign-function boundary.            *)
(***************************************************************************)
EXTENDS CoverageCodecs

\* _generated_full_uuid: the sixteen bytes, and the two halves once more.
GeneratedUuid(u) ==
    Bytes(1, [i \in 1..16 |-> IF i <= 8 THEN Backward(u[1]) ELSE Backward(u[2])]) \o
    Bytes(2, Fixed128(u))
\* _ffi_full_uuid: the same with the bytes of each half in the other order.
FfiUuid(u) == GeneratedUuid(<<Backward(u[1]), Backward(u[2])>>)
FfiPartition(u) == Bytes(1, FfiUuid(u))
FfiRegion(u) == Bytes(2, FfiUuid(u))

GoodPoint(p) == Valid(p.x_meters) /\ Valid(p.y_meters)
Point(p) == Float(1, -p.y_meters) \o Float(2, -p.x_meters)

\* Mutant: an option of another action is not looked at.
NothingLookedAt(c, allowed) == c.change # Junk
\* _map_command_has_extra_fields, for a command that may hold `allowed`.
NothingBut(c, allowed) ==
    Only([f \in DOMAIN c \ {"change_set"} |-> c[f]], {"mission_id"} \cup allowed)
NoExtra(c, allowed) == c.change_set = NoChangeSet /\ NothingBut(c, allowed)

RoomLabelFields(label) ==
    LET number == [bathroom |-> 0, bedroom |-> 1, dining_room |-> 2,
                   living_room |-> 3, kitchen |-> 4, hallway |-> 5]
    IN IF DOMAIN label = {"enum"} THEN Varint(1, number[label.enum])
       ELSE Bytes(2, label.text)

BuildPartitionAccepts(c) ==
    Valid(c.mission_id) /\ NoExtra(c, {"overwrite"}) /\ c.overwrite \in Bools
BuildPartitionPayload(c) ==
    Bytes(1, MissionId(c.mission_id)) \o
    Bytes(2, Bytes(1, GeneratedUuid(Fresh(1)))) \o
    Bytes(3, Bytes(1, Empty(1)) \o When(c.overwrite = "True", Varint(2, 1)))

Edits(c, kinds) == Valid(c.change) /\ c.change.edit \in kinds

EditRoomsAccepts(c) ==
    /\ Valid(c.mission_id) /\ Valid(c.partition_id)
    /\ NoExtra(c, {"partition_id", "change"})
    /\ Edits(c, {"RenameRoom", "MergeRooms", "SplitRoom"})
    /\ \A f \in DOMAIN c.change : c.change[f] # Junk
    /\ c.change.edit = "SplitRoom" => GoodPoint(c.change.start) /\ GoodPoint(c.change.end)
EditRoomsPayload(c) ==
    LET e == c.change
        edit == CASE e.edit = "RenameRoom" ->
                       Bytes(5, Bytes(1, FfiRegion(e.region_id)) \o
                                Bytes(2, RoomLabelFields(e.label)))
                  [] e.edit = "MergeRooms" ->
                       LET first == FfiRegion(e.first_region_id)
                           second == FfiRegion(e.second_region_id)
                       IN Bytes(6, Bytes(1, first) \o Bytes(2, second) \o
                                   Bytes(3, RoomLabelFields(e.label)) \o
                                   Bytes(4, first) \o Bytes(4, second))
                  [] e.edit = "SplitRoom" ->
                       Bytes(7, Bytes(1, FfiRegion(e.region_id)) \o
                                Bytes(2, Bytes(1, Point(e.start)) \o
                                         Bytes(2, Point(e.end))))
    IN Bytes(1, MissionId(c.mission_id)) \o
       Bytes(4, FfiPartition(c.partition_id)) \o edit

\* _compact_zone_region_id: a UUID holds a zone's u32 in bytes 8 to 11, and
\* zeroes elsewhere (half 2 has something in its last four bytes).
CompactZone(id) == IF DOMAIN id = {"int"} THEN id.int ELSE id.uuid[2]
IsZone(id) ==
    IF DOMAIN id = {"int"} THEN Valid(id.int) ELSE id.uuid[1] = 0 /\ id.uuid[2] < 2
ZoneEditAccepts(c) ==
    /\ Valid(c.mission_id)
    /\ NoExtra(c, {"change"})
    /\ Edits(c, {"AddZones", "RemoveZones"})
    /\ IF c.change.edit = "AddZones" THEN GoodCircles(c.change.circles)
       ELSE /\ c.change.region_ids \notin {Junk, <<>>}
            /\ \A i \in DOMAIN c.change.region_ids : IsZone(c.change.region_ids[i])
ZoneEditPayload(c) ==
    LET e == c.change
        packed == FlattenSeq([i \in DOMAIN e.region_ids |->
                                EncodeVarint[CompactZone(e.region_ids[i])]])
    IN Bytes(1, MissionId(c.mission_id)) \o
       (IF e.edit = "AddZones" THEN Bytes(4, DrawnArea(e.circles)) ELSE Bytes(3, packed))

SemanticsOverrideAccepts(c) ==
    /\ Valid(c.mission_id)
    /\ NoExtra(c, {"change"})
    /\ Edits(c, {"SemanticsOverride"})
    /\ Valid(c.change.kind) /\ GoodCircles(c.change.circles)
SemanticsOverridePayload(c) ==
    LET number == [unset |-> 0, hardfloor_allow_wire |-> 1, carpet_allow_wire |-> 2,
                   hardfloor_disallow_wire |-> 3, carpet_disallow_wire |-> 4]
    IN Bytes(1, MissionId(c.mission_id)) \o
       Bytes(2, Integer(2, number[c.change.kind]) \o
                Bytes(3, DrawnArea(c.change.circles)))

SinkSummonLocationAccepts(c) ==
    /\ Valid(c.mission_id)
    /\ NoExtra(c, {"change"})
    /\ \/ c.change = None
       \/ /\ Edits(c, {"SinkSummonLocation"})
          /\ \A f \in DOMAIN c.change : c.change[f] # Junk
SinkSummonLocationPayload(c) ==
    LET mission == MissionId(c.mission_id)
    IN IF c.change = None THEN Bytes(2, mission)
       ELSE Bytes(1, Bytes(1, mission) \o Bytes(2, Posture(c.change)))

FloorAccepts(c) ==
    IF c.action = "canonicalize" THEN NoExtra(c, {}) /\ c.mission_id # Junk
    ELSE /\ Valid(c.mission_id)
         /\ NothingBut(c, {"name"})
         /\ \/ Valid(c.name) /\ c.change_set = NoChangeSet
            \/ c.name = None /\ Valid(c.change_set.name) /\ c.change_set.other = None
FloorPayload(c) ==
    LET name == IF c.name # None THEN c.name ELSE c.change_set.name
    IN CASE c.action = "rename" ->
              Bytes(3, Bytes(1, MissionId(c.mission_id)) \o Bytes(2, name))
         [] c.mission_id = None -> Bytes(1, Empty(2))
         [] OTHER -> Bytes(1, Bytes(1, MissionId(c.mission_id)))

PersistenceAccepts(c) ==
    /\ NoExtra(c, {})
    /\ IF c.action = "clear_map" THEN Valid(c.mission_id) ELSE c.mission_id = None
PersistencePayload(c) ==
    CASE c.action = "persistence_clear" -> Empty(2)
      [] c.action = "clear_map" -> Bytes(4, MissionId(c.mission_id))
      [] c.action = "restore_map" -> Varint(1, 4) \o Bytes(6, Empty(2))
      [] c.action = "upload_map_for_debug" -> Varint(1, 5) \o Bytes(7, Empty(3))

Zones == {"edit_no_go_zone", "edit_drive_only_zone", "edit_stairs"}
MapAccepts(c) ==
    CASE c.action = "build_partition" -> BuildPartitionAccepts(c)
      [] c.action = "edit_rooms" -> EditRoomsAccepts(c)
      [] c.action \in Zones -> ZoneEditAccepts(c)
      [] c.action = "edit_semantics_override" -> SemanticsOverrideAccepts(c)
      [] c.action = "edit_sink_summon_location" -> SinkSummonLocationAccepts(c)
      [] c.action \in {"canonicalize", "rename"} -> FloorAccepts(c)
      [] c.action = "clear_rgb_weights" -> NoExtra(c, {}) /\ c.mission_id = None
      [] OTHER -> PersistenceAccepts(c)
MapPayload(c) ==
    CASE c.action = "build_partition" -> BuildPartitionPayload(c)
      [] c.action = "edit_rooms" -> EditRoomsPayload(c)
      [] c.action \in Zones -> ZoneEditPayload(c)
      [] c.action = "edit_semantics_override" -> SemanticsOverridePayload(c)
      [] c.action = "edit_sink_summon_location" -> SinkSummonLocationPayload(c)
      [] c.action \in {"canonicalize", "rename"} -> FloorPayload(c)
      [] c.action = "clear_rgb_weights" -> <<>>
      [] OTHER -> PersistencePayload(c)
------------------------------------------------------------------------------
GoodKey(key) == Valid(key) /\ Valid(key.mission_id) /\ Valid(key.event_id)
ScheduleKey(key) ==
    Bytes(1, MissionId(key.mission_id)) \o Bytes(3, Bytes(1, FfiUuid(key.event_id)))
SinkScheduleKey(key) ==
    Bytes(1, Bytes(1, FfiUuid(key.event_id))) \o Bytes(2, MissionId(key.mission_id))

\* Monday first, whatever the order of the caller.
DaysOfWeek == <<"monday", "tuesday", "wednesday", "thursday", "friday", "saturday",
                "sunday">>
GoodWeekdays(days) == ExactTuple(days) /\ IsInjective(days)
Weekdays(days) ==
    FlattenSeq([n \in 1..7 |-> When(Contains(days, DaysOfWeek[n]), Varint(n, 1))])

GoodTime(t) == t # Junk /\ t.utc_offset_seconds # Junk
Time(t) ==
    LET offset == t.utc_offset_seconds
        zone == Text(2, t.timezone_id) \o
                When(offset # 0, Tag(3, 0) \o EncodeSigned(offset))
    IN Integer(1, t.seconds_since_midnight) \o Bytes(4, zone)
Timing(event) == Bytes(1, Weekdays(event.weekdays)) \o Bytes(3, Time(event.time))

GoodTarget(t) ==
    /\ t # Junk
    /\ IF DOMAIN t = {"circles"} THEN GoodCircles(t.circles)
       ELSE ExactTuple(t.region_ids) /\ t.region_ids # <<>>
ScheduleTargetsOf(event) ==
    LET partition == Bytes(1, FfiPartition(event.partition_id))
        t == event.target
    IN IF DOMAIN t = {"circles"}
       THEN <<partition \o Bytes(2, Bytes(3, DrawnArea(t.circles))) \o Bytes(3, Empty(2))>>
       ELSE [i \in DOMAIN t.region_ids |->
               partition \o Bytes(2, Empty(1)) \o
               Bytes(3, Bytes(3, FfiRegion(t.region_ids[i])))]

EventAccepts(e) ==
    /\ Valid(e)
    /\ Valid(e.partition_id)
    /\ e.cleaning_mode \in CleaningModes
    /\ e.ordered \in Bools
    /\ e.name # Junk
    /\ Valid(e.enabled_state)
    /\ e.cleaning_mode \in {"vacuum", "vacuum_and_mop"} => Valid(e.vacuum_setting)
    /\ GoodTarget(e.target) /\ GoodWeekdays(e.weekdays) /\ GoodTime(e.time)

\* Mopping is always standard; every target gets the goals of every one.
EventFields(e) ==
    LET setting == [deprecated_deep |-> 0, standard |-> 1, quick |-> 2]
        enabled == [enabled |-> 1, disabled |-> 0, suggested |-> 2]
        specs == When(e.cleaning_mode # "mop", VacuumSpecs(setting[e.vacuum_setting])) \o
                 When(e.cleaning_mode # "vacuum", MopSpecs(1))
        targets == ScheduleTargetsOf(e)
        goal(n) ==
            Bytes(6, Bytes(1, Bytes(2, GeneratedUuid(Fresh(n)))) \o
                     Bytes(3, SpecFields(specs[1 + ((n - 1) % Len(specs))]))) \o
            Bytes(7, targets[1 + ((n - 1) \div Len(specs))])
        goals == [n \in 1..Len(targets) * Len(specs) |->
                    Bytes(GoalField(e.ordered), goal(n))]
        name == IF e.name = None THEN <<>> ELSE Bytes(2, e.name)
    IN Bytes(1, Timing(e)) \o name \o Varint(3, enabled[e.enabled_state]) \o
       Bytes(7, FlattenSeq(goals)) \o Empty(9)

SinkEventAccepts(e) ==
    /\ Valid(e)
    /\ e.enabled \in Bools
    /\ GoodWeekdays(e.weekdays) /\ GoodTime(e.time)
    /\ e.duration # Junk /\ Valid(e.duration.seconds) /\ Valid(e.duration.nanoseconds)
SinkEventFields(e) ==
    Bytes(1, Timing(e)) \o
    Bytes(4, Integer(1, e.duration.seconds) \o Integer(2, e.duration.nanoseconds)) \o
    Varint(6, Flag(e.enabled))

ScheduleAccepts(c) ==
    CASE c.action = "add_or_modify" ->
            Only(c, {"key", "event"}) /\ GoodKey(c.key) /\ EventAccepts(c.event)
      [] c.action = "sink_summon_add_or_modify" ->
            /\ Only(c, {"key", "sink_event"})
            /\ SinkEventAccepts(c.sink_event) /\ GoodKey(c.key)
      [] c.action = "generate_suggested" -> Only(c, {})
      [] OTHER -> Only(c, {"key"}) /\ GoodKey(c.key)
SchedulePayload(c) ==
    CASE c.action = "add_or_modify" ->
            Bytes(2, Bytes(1, ScheduleKey(c.key)) \o Bytes(2, EventFields(c.event)))
      [] c.action = "remove" -> Bytes(3, ScheduleKey(c.key))
      [] c.action = "toggle" -> Bytes(4, ScheduleKey(c.key))
      [] c.action = "generate_suggested" -> <<>>
      [] c.action = "sink_summon_add_or_modify" ->
            Bytes(1, Bytes(1, SinkScheduleKey(c.key)) \o
                     Bytes(2, SinkEventFields(c.sink_event)))
      [] c.action = "sink_summon_remove" -> Bytes(2, SinkScheduleKey(c.key))
============================================================================
