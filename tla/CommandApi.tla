----------------------------- MODULE CommandApi -----------------------------
(***************************************************************************)
(* matic_sdk/commands.py: the commands that the convenience methods of     *)
(* CommandExecutor build, whatever they are called with (Python checks no  *)
(* annotation, but a tuple they make of an argument is a tuple); and every *)
(* command a caller may build itself.                                      *)
(***************************************************************************)
EXTENDS CommandSpecs

\* The options that a method has no argument for keep their defaults.
Defaults(c, default) == \A f \in DOMAIN default : c[f] = default[f]

UserCalls ==
    {c \in UserCommands :
        /\ c.action \in {"stop", "stay_put", "pause", "resume", "dock",
                         "diagnose_brush_roll_jam"}
        /\ Defaults(c, [until_localized |-> None, mission_id |-> None,
                        coverage_session_id |-> None])}
NavigationCalls == JoystickCommands \cup NavigationCommands
NormalCalls ==
    {c \in CoverageCommands :
        /\ c.action = "normal" /\ c.region_ids # Junk
        /\ Defaults(c, [stain_mode |-> None, circles |-> <<>>])}
StainCalls ==
    {c \in CoverageCommands :
        /\ c.action = "stain_mode" /\ c.circles # Junk
        /\ Defaults(c, [partition_id |-> None, region_ids |-> <<>>,
                        cleaning_mode |-> "vacuum_and_mop",
                        coverage_setting |-> "standard", ordered |-> "False"])}

\* The map's methods give the fields that are named.
MapCall(c, given) ==
    Defaults(c, [f \in {"change_set", "partition_id", "change", "overwrite", "name"} \ given |->
                   IF f = "change_set" THEN NoChangeSet ELSE None])
BuildPartitionCalls ==
    {c \in MapEnvironmentCommands : c.action = "build_partition" /\ MapCall(c, {"overwrite"})}
RoomCalls ==
    {c \in MapEnvironmentCommands :
        c.action = "edit_rooms" /\ c.change \in RoomEdits /\ MapCall(c, {"partition_id", "change"})}
ZoneCalls ==
    {c \in MapEnvironmentCommands :
        /\ c.action \in Zones /\ c.change \in ZoneEdits
        /\ \A f \in DOMAIN c.change : c.change[f] # Junk
        /\ MapCall(c, {"change"})}
PlaceCalls ==
    {c \in MapEnvironmentCommands :
        /\ \/ c.action = "edit_semantics_override" /\ c.change \in SemanticsOverrides
              /\ c.change.circles # Junk
           \/ c.action = "edit_sink_summon_location"
              /\ c.change \in {None, Junk} \cup SinkSummonLocations
        /\ MapCall(c, {"change"})}

ScheduleCall(c, given) ==
    Defaults(c, [f \in {"key", "definition", "event", "sink_event"} \ given |-> None])
ScheduleCalls ==
    {c \in ScheduleCommands :
        \/ c.action \in {"remove", "toggle", "sink_summon_remove"} /\ ScheduleCall(c, {"key"})
        \/ c.action = "generate_suggested" /\ ScheduleCall(c, {})
        \/ c.action = "add_or_modify" /\ ScheduleCall(c, {"key", "event"})
        \/ c.action = "sink_summon_add_or_modify" /\ ScheduleCall(c, {"key", "sink_event"})}

SettingCalls ==
    SettingsCommands \cup UserAudioRecordingCommands \cup DeepMopOverrideCommands
    \cup WaterFlowOverrideCommands
DeviceCalls ==
    SweeperMaintenanceCommands \cup BrushRollJamOutcomeDismissCommands
    \cup BrushRollJamResponseCommands \cup LiveActivityRegistrationCommands
    \cup RawMotorCommands

Calls == UserCalls \cup NavigationCalls \cup NormalCalls \cup StainCalls \cup
         ReprioritizeCommands \cup BuildPartitionCalls \cup RoomCalls \cup ZoneCalls \cup
         PlaceCalls \cup ScheduleCalls \cup SettingCalls \cup DeviceCalls
Commands ==
    UserCommands \cup JoystickCommands \cup NavigationCommands \cup CoverageCommands
    \cup ReprioritizeCommands \cup CleaningCommands \cup RawMotorCommands
    \cup MapEnvironmentCommands \cup WifiCommands
    \cup DeviceCommands \cup SweeperMaintenanceCommands
    \cup BrushRollJamResponseCommands \cup BrushRollJamOutcomeDismissCommands
    \cup SettingsCommands \cup DeepMopOverrideCommands \cup WaterFlowOverrideCommands
    \cup ScheduleCommands \cup MediaCommands \cup UserAudioRecordingCommands
    \cup TelemetryCommands \cup LiveActivityRegistrationCommands \cup LifecycleCommands
=============================================================================
