---------------------------- MODULE CommandTypes ----------------------------
(***************************************************************************)
(* matic_sdk/models/control.py: the typed command intents, as sets of      *)
(* records over a few values of each field.  A field also takes None where *)
(* Python's default is None, and Junk where the annotations (which Python  *)
(* does not enforce) are wrong: another type, or a value out of range.     *)
(*                                                                         *)
(* Bounds: the values of the scalars and the lists are constants.          *)
(* Python's booleans are the strings of Bools; a float is an integer; a    *)
(* UUID is its two 64-bit halves.                                          *)
(***************************************************************************)
EXTENDS Integers, Sequences

CONSTANTS
    None,         \* Python's None
    Junk,         \* a value the field's annotation does not allow
    U32,          \* the numbers a caller may give
    Texts,        \* texts, encoded
    Floats,       \* coordinates, speeds
    Uuids,        \* regions, sessions, events
    Partitions,   \* partitions of the map
    Offsets,      \* i32
    RegionLists,  \* the regions of one command
    CircleLists   \* the circles of one command, whose ordinates may be Junk

Halves == Nat \X Nat
DrawnCircles == [x_meters: Int, y_meters: Int \cup {Junk}, radius_meters: Int]
\* The largest i32, by groups of seven bits, and all of them.
MaxI32 == 127 + 128 * (127 + 128 * (127 + 128 * (127 + 128 * 7)))
I32 == (-MaxI32 - 1)..MaxI32
ASSUME ArgumentsAssumption ==
    /\ U32 \subseteq Nat /\ Floats \subseteq Int
    /\ Uuids \subseteq Halves /\ Partitions \subseteq Halves
    /\ Offsets \subseteq I32
    /\ \A text \in Texts : text \in Seq(Nat)
    /\ \A regions \in RegionLists : regions \in Seq(Halves)
    /\ \A circles \in CircleLists : circles \in Seq(DrawnCircles)
    /\ None # Junk
    /\ \A mark \in {None, Junk} :
          /\ mark \notin Int \cup DrawnCircles
          /\ mark \notin Seq(Nat) \cup Seq(Halves) \cup Seq(DrawnCircles)

Bools == {"True", "False"}
Fresh(n) == <<9, n>>                    \* the n-th uuid4() of a command
\* A half with its bytes in the opposite order: another half, but for zero.
Backward(h) == IF h = 0 THEN 0 ELSE IF h % 2 = 0 THEN h - 1 ELSE h + 1
Region1 == <<1, 0>>
Region2 == <<0, 1>>

\* sin and cos of a heading: only sin is ever exactly 0 (at heading 0).
Sin(yaw) == yaw
Cos(yaw) == 3 - yaw

Or(values) == values \cup {Junk}
Maybe(values) == values \cup {None, Junk}

UserActions == {"stop", "stay_put", "pause", "resume", "dock", "explore",
                "re_explore", "redo_coverage", "resume_coverage",
                "trace_calibration", "diagnose_brush_roll_jam"}
UserCommands ==
    [type: {"UserCommand"}, action: UserActions, until_localized: Maybe(Bools),
     mission_id: Maybe(U32), coverage_session_id: Maybe(Uuids)]

JoystickCommands ==
    [type: {"JoystickCommand"}, action: {"joystick"},
     linear_mps: Or(Floats), angular_rad_s: Or(Floats)]

NavigationModes == {"navigate", "navigate_and_wait", "navigate_and_explore"}
NavigationCommands ==
    [type: {"NavigationCommand"}, action: NavigationModes, mission_id: Or(U32),
     x_meters: Or(Floats), y_meters: Or(Floats), yaw_radians: Or({0, 1})]

GoodCircle == [x_meters |-> -1, y_meters |-> 0, radius_meters |-> 1]
CircleTuples == {Junk, <<>>, <<Junk>>, <<GoodCircle>>} \cup CircleLists

CleaningModes == {"vacuum", "mop", "vacuum_and_mop"}
RegionTuples == {Junk, <<>>, <<Junk>>} \cup RegionLists
CoverageSettings == {"standard", "quick"}
StainModes == {"dry_stain", "wet_spill"}
OneCoverage ==
    [type |-> "CoverageCommand", action |-> "normal", mission_id |-> 300,
     partition_id |-> <<0, 2>>, region_ids |-> <<Region1>>,
     cleaning_mode |-> "vacuum", coverage_setting |-> "quick", ordered |-> "False",
     stain_mode |-> None, circles |-> <<>>]
CoverageCommands ==
    [type: {"CoverageCommand"}, action: {"normal", "reprioritize"},
     mission_id: U32, partition_id: {None} \cup Partitions, region_ids: RegionTuples,
     cleaning_mode: CleaningModes, coverage_setting: CoverageSettings,
     ordered: Bools, stain_mode: {None, "wet_spill"}, circles: {<<>>, <<GoodCircle>>}]
    \cup
    [type: {"CoverageCommand"}, action: {"stain_mode"}, mission_id: U32,
     partition_id: {None} \cup Partitions, region_ids: {<<>>, <<Region1>>},
     cleaning_mode: {"mop", "vacuum_and_mop"}, coverage_setting: CoverageSettings,
     ordered: Bools, stain_mode: Maybe(StainModes), circles: CircleTuples]
    \cup
    {[OneCoverage EXCEPT ![f] = Junk] : f \in DOMAIN OneCoverage \ {"type", "action"}}

\* Exact values of the enums a coverage goal carries.
CoverageGoalSettings == 0..2
CleaningFloors == 0..1
CoverageGoalCleaningModes == 0..1
CoverageBehaviors == 0..3
CoverageGoalSpec(setting, floor, mode, behavior) ==
    [setting |-> setting, floor |-> floor, cleaning_mode |-> mode,
     behavior |-> behavior]
CoveragePlanGoal(id, partition, region, spec) ==
    [goal_id |-> id, partition_id |-> partition, region_id |-> region,
     spec |-> spec]
\* Every goal there is: its identifiers are any UUIDs.
CoverageGoalSpecs ==
    [setting: CoverageGoalSettings, floor: CleaningFloors,
     cleaning_mode: CoverageGoalCleaningModes, behavior: CoverageBehaviors]
CoveragePlanGoals ==
    [goal_id: Halves, partition_id: Halves, region_id: Halves, spec: CoverageGoalSpecs]

ReprioritizeActions == {"prioritize", "skip"}
ReprioritizeCommand(action, mission, goals, ordered, current, session, selected) ==
    [type |-> "ReprioritizeCoverageCommand", action |-> action,
     mission_id |-> mission, goals |-> goals, ordered |-> ordered,
     current_region_id |-> current, current_session_id |-> session,
     selected_region_id |-> selected]

\* Plans a caller may put together itself, each wrong in its own way but two.
HandmadePlans ==
    LET spec == CoverageGoalSpec(1, 0, 1, 0)
        goal(n, region) == CoveragePlanGoal(<<n, 0>>, <<0, 2>>, region, spec)
        three == <<goal(1, Region1), goal(2, Region2), goal(3, Region1)>>
    IN {Junk, <<>>, <<Junk>>, three, <<goal(1, Region1), goal(2, Junk)>>,
        <<goal(1, Region1), goal(1, Region2)>>,
        [three EXCEPT ![2].partition_id = <<2, 0>>],
        [three EXCEPT ![2].spec.floor = 1], [three EXCEPT ![2].spec = Junk]}
ReprioritizeCommands ==
    {ReprioritizeCommand(action, mission, goals, ordered, current, <<2, 0>>, selected) :
        action \in Or(ReprioritizeActions), mission \in {300, Junk},
        goals \in HandmadePlans, ordered \in Or(Bools),
        current \in {Region1, <<0, 3>>, Junk}, selected \in {Region1, Region2, None, Junk}}

CleaningCommands ==
    [type: {"CleaningCommand"}, action: {"manual"},
     mode: Or({"sweeping_carpet", "sweeping_hardfloor", "mopping_hardfloor",
               "sweeping_transition"}),
     intensity: Or({"base", "max"})]

RawMotorCommands ==
    [type: {"RawMotorCommand"}, action: {"setpoints"}, vacuum_rpm: Maybe({0}),
     sweeper_duty: {None, -1}, mopper_duty: {None, -1},
     head_position: {None, -1}, side_brush_duty: {None, 0}]
------------------------------------------------------------------------------
MapPoints == {[x_meters |-> -1, y_meters |-> 0], [x_meters |-> 0, y_meters |-> -1],
              [x_meters |-> Junk, y_meters |-> 0]}
RoomLabels == {"bathroom", "bedroom", "dining_room", "living_room", "kitchen",
               "hallway"}
\* A label is a RoomLabel, a text of the caller's, or neither.
Labels == [enum: RoomLabels] \cup [text: Texts] \cup {Junk}

RoomEdits ==
    [edit: {"RenameRoom"}, region_id: Or(Uuids), label: Labels] \cup
    [edit: {"MergeRooms"}, first_region_id: Or(Uuids),
     second_region_id: Uuids, label: {[enum |-> "bathroom"], Junk}] \cup
    [edit: {"SplitRoom"}, region_id: Or(Uuids), start: MapPoints,
     end: MapPoints]

\* A zone is named by an integer or by a UUID that holds one.
ZoneIds == [int: {1} \cup Or(U32)] \cup [uuid: Uuids]
ZoneEdits ==
    [edit: {"AddZones"}, circles: CircleTuples] \cup
    [edit: {"RemoveZones"},
     region_ids: {Junk, <<>>} \cup {<<z>> : z \in ZoneIds}
                 \cup {<<[int |-> 300], [int |-> 1]>>}]

SemanticsOverrideKinds ==
    {"unset", "hardfloor_allow_wire", "carpet_allow_wire",
     "hardfloor_disallow_wire", "carpet_disallow_wire"}
SemanticsOverrides ==
    [edit: {"SemanticsOverride"}, kind: Or(SemanticsOverrideKinds),
     circles: CircleTuples]

SinkSummonLocations ==
    [edit: {"SinkSummonLocation"}, x_meters: Or(Floats), y_meters: Or(Floats),
     yaw_radians: Or({0, 1})]

MapEnvironmentActions ==
    {"build_partition", "edit_rooms", "edit_no_go_zone", "edit_drive_only_zone",
     "edit_stairs", "edit_semantics_override", "edit_sink_summon_location",
     "canonicalize", "rename", "persistence_clear", "clear_map", "restore_map",
     "upload_map_for_debug", "clear_rgb_weights"}
EditActions == {"edit_rooms", "edit_no_go_zone", "edit_drive_only_zone", "edit_stairs",
                "edit_semantics_override", "edit_sink_summon_location"}
\* change_set is a mapping; None marks a key that is not in it.
ChangeSets(names) == [name: names, other: {None}] \cup
                     {[name |-> None, other |-> Junk]}
NoChangeSet == [name |-> None, other |-> None]

MapEnvironmentCommands ==
    [type: {"MapEnvironmentCommand"}, action: MapEnvironmentActions,
     mission_id: Maybe(U32), change_set: ChangeSets(Maybe(Texts)),
     partition_id: {None} \cup Partitions, change: {None, Junk},
     overwrite: {None} \cup Bools, name: Maybe(Texts)]
    \cup
    [type: {"MapEnvironmentCommand"}, action: EditActions,
     mission_id: U32, change_set: {NoChangeSet},
     partition_id: {None} \cup Partitions,
     change: {None} \cup RoomEdits \cup ZoneEdits \cup SemanticsOverrides
             \cup SinkSummonLocations,
     overwrite: {None}, name: {None}]
------------------------------------------------------------------------------
WifiCommands ==
    [type: {"WifiCommand"}, action: {"scan", "connect", "forget"},
     ssid: Maybe(Texts), passphrase: Maybe(Texts)]

DeviceActions == {"rename", "discoverability", "new_mop_roll", "clear_calibration",
                  "configure_shipping"}
DeviceCommands ==
    [type: {"DeviceCommand"}, action: DeviceActions, new_name: Maybe(Texts),
     enabled: Maybe(Bools), discoverable_seconds: Maybe(U32),
     retain_user_data: Maybe(Bools)]

\* The action is the operation command_key derives from the trigger.
SweeperMaintenanceCommands ==
    {[type |-> "SweeperMaintenanceCommand", trigger |-> t,
      action |-> IF t = None THEN "sweeper_maintenance_resolve"
                 ELSE "sweeper_maintenance_trigger"] :
        t \in Maybe({"maintenance", "feedback"})}

\* issued_at: seconds since 1970 and microseconds, or no aware datetime.
BrushRollJamResponses == {"brush_roll_removed", "start_motor_test", "stop_motor_test"}
BrushRollJamResponseCommands ==
    [type: {"BrushRollJamResponseCommand"}, action: {"brush_roll_jam_response"},
     response: Or(BrushRollJamResponses),
     issued_at: {Junk} \cup ({-1, 0, 300} \X {0, 5})]

BrushRollJamOutcomeDismissCommands ==
    [type: {"BrushRollJamOutcomeDismissCommand"},
     action: {"brush_roll_jam_outcome_dismiss"}]

BinarySettings == {"child_lock", "pet_waste_avoidance", "voice",
                   "auto_record_voice", "matter_pairing", "preview_release"}
JukeboxTracks == {"oh_hanukkah", "deck_the_halls", "jingle_bells"}
SettingsCommands ==
    [type: {"SettingsCommand"}, action: BinarySettings \cup {"jukebox"},
     value: Maybe(Bools \cup JukeboxTracks)]
DeepMopOverrideCommands ==
    [type: {"DeepMopOverrideCommand"}, action: {"deep_mop_override"},
     enabled: Or(Bools)]
\* The factor in quarters.
WaterFlowOverrideCommands ==
    [type: {"WaterFlowOverrideCommand"}, action: {"water_flow_override"},
     factor: Or(1..9)]
------------------------------------------------------------------------------
WeekdayTuples == {Junk, <<>>, <<Junk>>, <<"sunday", "monday">>,
                  <<"monday", "sunday">>, <<"monday", "monday">>}
ScheduleTimes ==
    {Junk} \cup
    [seconds_since_midnight: U32, timezone_id: Texts,
     utc_offset_seconds: Or(Offsets)]
ScheduleTargets ==
    {Junk} \cup [region_ids: RegionTuples] \cup [circles: {<<>>, <<GoodCircle>>}]
VacuumSettings == {"quick", "standard", "deprecated_deep"}
ScheduleEnabledStates == {"enabled", "disabled", "suggested"}

\* One field at a time leaves the ordinary event: bound of the alphabet.
OrdinaryEvent ==
    [weekdays |-> <<"monday">>,
     time |-> [seconds_since_midnight |-> 300, timezone_id |-> <<97>>, utc_offset_seconds |-> 0],
     target |-> [region_ids |-> <<Region1>>], partition_id |-> <<0, 2>>,
     cleaning_mode |-> "mop", name |-> None, ordered |-> "False",
     vacuum_setting |-> "standard", enabled_state |-> "enabled"]
Aimed(target, ordered) == [OrdinaryEvent EXCEPT !.target = target, !.ordered = ordered]
Cleaning(mode, setting) ==
    [OrdinaryEvent EXCEPT !.cleaning_mode = mode, !.vacuum_setting = setting]
Named(name, state, partition) ==
    [OrdinaryEvent EXCEPT !.name = name, !.enabled_state = state, !.partition_id = partition]
ScheduleEvents ==
    {Junk} \cup
    {[OrdinaryEvent EXCEPT !.weekdays = v] : v \in WeekdayTuples} \cup
    {[OrdinaryEvent EXCEPT !.time = v] : v \in ScheduleTimes} \cup
    {Aimed(v, o) : v \in ScheduleTargets, o \in Or(Bools)} \cup
    {Cleaning(v, s) : v \in Or(CleaningModes), s \in Maybe(VacuumSettings)} \cup
    {Named(v, k, p) : v \in Maybe(Texts), k \in Or(ScheduleEnabledStates),
                      p \in {<<2, 0>>} \cup Or(Partitions)}

ScheduleDurations == {Junk} \cup [seconds: Or(U32), nanoseconds: Or(U32)]
SinkSummonScheduleEvents ==
    {Junk} \cup
    [weekdays: {<<"monday">>, Junk}, duration: ScheduleDurations,
     time: {[seconds_since_midnight |-> 0, timezone_id |-> <<>>,
             utc_offset_seconds |-> 0]},
     enabled: Or(Bools)]
ScheduleEventKeys == {Junk} \cup [mission_id: Or(U32), event_id: Or(Uuids)]
OneKey == [mission_id |-> 300, event_id |-> <<1, 0>>]

ScheduleActions == {"add_or_modify", "remove", "toggle", "generate_suggested",
                    "sink_summon_add_or_modify", "sink_summon_remove"}
ScheduleCommands ==
    [type: {"ScheduleCommand"}, action: ScheduleActions,
     key: {None} \cup ScheduleEventKeys, definition: {None, Junk},
     event: {None, Junk}, sink_event: {None, Junk}]
    \cup
    [type: {"ScheduleCommand"}, action: {"add_or_modify"}, key: {OneKey},
     definition: {None}, event: ScheduleEvents, sink_event: {None, Junk}]
    \cup
    [type: {"ScheduleCommand"}, action: {"sink_summon_add_or_modify"}, key: {OneKey},
     definition: {None}, event: {None, Junk}, sink_event: SinkSummonScheduleEvents]
------------------------------------------------------------------------------
MediaActions == {"recording_enable", "rolling_buffer_config", "flush_rolling_buffer",
                 "confirm_save", "confirm_delete"}
MediaCommands ==
    [type: {"MediaCommand"}, action: MediaActions, recording_id: Maybe(U32),
     enabled: Maybe(Bools), confirm_for_each: Maybe(Bools)]
UserAudioRecordingCommands ==
    [type: {"UserAudioRecordingCommand"}, action: {"user_audio_recording"},
     mode: Maybe({"ambient", "direction_of_arrival", "wake_word"})]

TelemetryActions == {"uploader_config", "support_ssh_permission",
                     "push_notification_subscription"}
TelemetryCommands ==
    [type: {"TelemetryCommand"}, action: TelemetryActions, enabled: Maybe(Bools),
     device_id: Maybe(Texts), app_bundle: Maybe(Texts)]

LiveActivityTokens ==
    [kind: {"start"}, fcm_token: Or(Texts), push_to_start_token: Or(Texts)] \cup
    [kind: {"update"}, activity_id: Or(Uuids), push_token: Or(Texts)] \cup {Junk}
LiveActivityRegistrationCommands ==
    [type: {"LiveActivityRegistrationCommand"},
     action: {"live_activity_registration"}, device_id: Or(Texts),
     token: LiveActivityTokens]

LifecycleCommands ==
    [type: {"LifecycleCommand"}, action: {"update", "reboot", "shutdown"}]
------------------------------------------------------------------------------
\* None and Junk are none of the values above either.
ASSUME EditsAssumption ==
    \A mark \in {None, Junk} :
       /\ mark \notin RoomEdits \cup ZoneEdits \cup SemanticsOverrides \cup SinkSummonLocations
       /\ mark \notin Seq(ZoneIds) \cup {OneKey}
ASSUME NamesAssumption ==
    \A mark \in {None, Junk} :
       mark \notin Bools \cup CleaningModes \cup CoverageSettings \cup StainModes \cup
                  VacuumSettings \cup ReprioritizeActions \cup ScheduleEnabledStates \cup
                  SemanticsOverrideKinds \cup JukeboxTracks \cup BrushRollJamResponses
============================================================================
