---------------------------- MODULE CommandSpecs ----------------------------
(***************************************************************************)
(* matic_sdk/protocol/commands.py: COMMAND_SPECS, the documented table of  *)
(* commands, COMMAND_REGISTRY, the codec of each of them; and              *)
(* matic_sdk/commands.py: the commands its convenience methods build.      *)
(***************************************************************************)
EXTENDS MapCodecs

\* A row: key, model, Hermes target and the payload on record, if there is one.
Row(prefix, action, model, target, payload) ==
    [key |-> <<prefix, action>>, model |-> model, target |-> target,
     payload |-> payload]
Rows(prefix, actions, model, target) ==
    {Row(prefix, a, model, target, None) : a \in actions}

UserRows ==
    LET onRecord ==
            [stop |-> <<122, 4, 10, 2, 34, 0>>,
             stay_put |-> <<130, 1, 0>>,
             pause |-> <<72, 1, 136, 1, 1>>,
             resume |-> <<72, 1, 136, 1, 0>>,
             dock |-> <<18, 4, 42, 2, 8, 0>>,
             explore |-> <<122, 10, 10, 8, 42, 6, 10, 2, 26, 0, 16, 2>>,
             diagnose_brush_roll_jam |-> <<146, 1, 4, 10, 2, 10, 0>>]
    IN {Row("user", a, "UserCommand", "user_command",
            IF a \in DOMAIN onRecord THEN onRecord[a] ELSE None) : a \in UserActions}
MotionRows ==
    Rows("user", {"joystick"}, "JoystickCommand", "user_command") \cup
    Rows("navigation", NavigationModes, "NavigationCommand", "user_command")
CoverageRows ==
    Rows("coverage", {"normal", "stain_mode"}, "CoverageCommand", "user_command") \cup
    Rows("coverage", {"reprioritize"}, "ReprioritizeCoverageCommand", "user_command") \cup
    Rows("cleaning", {"manual"}, "CleaningCommand", "user_command") \cup
    Rows("raw_motors", {"setpoints"}, "RawMotorCommand", "motor_command")
MapRows ==
    LET map(actions, target) == Rows("map", actions, "MapEnvironmentCommand", target)
    IN map({"build_partition"}, "build_regions") \cup
       map({"edit_rooms"}, "rename_area_command") \cup
       map({"edit_no_go_zone", "edit_drive_only_zone"}, "nogo_command") \cup
       map({"edit_stairs"}, "stair_command") \cup
       map({"edit_semantics_override"}, "semantics_override") \cup
       map({"edit_sink_summon_location"}, "edit_sink_summon_location") \cup
       map({"canonicalize", "rename"}, "floor_command") \cup
       map({"persistence_clear", "clear_map", "restore_map", "upload_map_for_debug"},
           "map_command") \cup
       {Row("map", "clear_rgb_weights", "MapEnvironmentCommand",
            "clear_rgb_weights_command", <<>>)}
WifiRows ==
    {Row("wifi", "scan", "WifiCommand", "wifi_scan_command", <<>>)} \cup
    Rows("wifi", {"connect", "forget"}, "WifiCommand", "wifi_update_command")
DeviceRows ==
    LET device(action, target) == Rows("device", {action}, "DeviceCommand", target)
    IN device("rename", "new_bot_name") \cup
       device("discoverability", "set_device_discoverable") \cup
       device("new_mop_roll", "new_mop_roll_override_command") \cup
       device("configure_shipping", "configure_shipping_command") \cup
       {Row("device", "clear_calibration", "DeviceCommand",
            "clear_online_calib_command", <<>>)}
SettingTargets ==
    [child_lock |-> "child_lock_enabled_command",
     pet_waste_avoidance |-> "petwaste_enabled_command",
     voice |-> "voice_enabled_command",
     auto_record_voice |-> "auto_record_voice_enabled_command",
     matter_pairing |-> "matter_pairing_command",
     preview_release |-> "request_preview_release_command",
     jukebox |-> "jukebox_command"]
SettingRows ==
    {Row("settings", a, "SettingsCommand", SettingTargets[a], None) :
        a \in DOMAIN SettingTargets}
ScheduleRows ==
    Rows("schedule", {"add_or_modify", "remove", "toggle"}, "ScheduleCommand",
         "edit_schedule") \cup
    Rows("schedule", {"sink_summon_add_or_modify", "sink_summon_remove"},
         "ScheduleCommand", "edit_sink_summon_schedule") \cup
    {Row("schedule", "generate_suggested", "ScheduleCommand",
         "generate_suggested_schedule", <<>>)}
MediaRows ==
    Rows("media", {"recording_enable", "flush_rolling_buffer"}, "MediaCommand",
         "recording_command") \cup
    Rows("media", {"rolling_buffer_config"}, "MediaCommand",
         "toggle_rolling_recordings") \cup
    Rows("media", {"confirm_save", "confirm_delete"}, "MediaCommand",
         "recording_upload_confirmation")
TelemetryRows ==
    Rows("telemetry", {"uploader_config"}, "TelemetryCommand",
         "uploader_config_command") \cup
    Rows("telemetry", {"support_ssh_permission"}, "TelemetryCommand",
         "user_tunnel_ssh_permission_command") \cup
    Rows("telemetry", {"push_notification_subscription"}, "TelemetryCommand",
         "subscribe_push_notifications")
\* The commands of the later firmware.
StableRows ==
    Rows("media", {"user_audio_recording"}, "UserAudioRecordingCommand",
         "user_audio_recording_command") \cup
    Rows("settings", {"deep_mop_override"}, "DeepMopOverrideCommand",
         "deep_mop_override_setting_command") \cup
    Rows("settings", {"water_flow_override"}, "WaterFlowOverrideCommand",
         "water_flow_override_command") \cup
    {Row("device", "sweeper_maintenance_resolve", "SweeperMaintenanceCommand",
         "sweeper_maintenance_command", <<10, 0>>)} \cup
    Rows("device", {"sweeper_maintenance_trigger"}, "SweeperMaintenanceCommand",
         "sweeper_maintenance_command") \cup
    Rows("device", {"brush_roll_jam_response"}, "BrushRollJamResponseCommand",
         "cleaning_workflow_response") \cup
    {Row("device", "brush_roll_jam_outcome_dismiss",
         "BrushRollJamOutcomeDismissCommand", "sweeper_jam_outcome_dismiss", <<>>)} \cup
    Rows("telemetry", {"live_activity_registration"},
         "LiveActivityRegistrationCommand", "live_activity_registration")
LifecycleRows ==
    {Row("lifecycle", "update", "LifecycleCommand", "update_command", <<10, 0>>),
     Row("lifecycle", "reboot", "LifecycleCommand", "reboot_command", <<10, 0>>),
     Row("lifecycle", "shutdown", "LifecycleCommand", "reboot_command", <<18, 0>>)}

CommandSpecs ==
    UserRows \cup MotionRows \cup CoverageRows \cup MapRows \cup WifiRows \cup
    DeviceRows \cup SettingRows \cup ScheduleRows \cup MediaRows \cup
    TelemetryRows \cup StableRows \cup LifecycleRows
------------------------------------------------------------------------------
\* command_key: the prefix of the model's family, and the action.
Prefix ==
    [UserCommand |-> "user", JoystickCommand |-> "user",
     NavigationCommand |-> "navigation", CoverageCommand |-> "coverage",
     ReprioritizeCoverageCommand |-> "coverage", CleaningCommand |-> "cleaning",
     RawMotorCommand |-> "raw_motors", MapEnvironmentCommand |-> "map",
     WifiCommand |-> "wifi", DeviceCommand |-> "device",
     SweeperMaintenanceCommand |-> "device", BrushRollJamResponseCommand |-> "device",
     BrushRollJamOutcomeDismissCommand |-> "device", SettingsCommand |-> "settings",
     DeepMopOverrideCommand |-> "settings", WaterFlowOverrideCommand |-> "settings",
     ScheduleCommand |-> "schedule", MediaCommand |-> "media",
     UserAudioRecordingCommand |-> "media", TelemetryCommand |-> "telemetry",
     LiveActivityRegistrationCommand |-> "telemetry", LifecycleCommand |-> "lifecycle"]
\* Mutant: a reprioritization is known by its action, like the others.
KeyOfAction(c) == <<Prefix[c.type], c.action>>
CommandKey(c) ==
    <<Prefix[c.type],
      IF c.type = "ReprioritizeCoverageCommand" THEN "reprioritize" ELSE c.action>>

\* The codec of each model: what it accepts, and its payload.
Accepts(c) ==
    CASE c.type = "UserCommand" -> UserAccepts(c)
      [] c.type = "JoystickCommand" -> JoystickAccepts(c)
      [] c.type = "NavigationCommand" -> NavigationAccepts(c)
      [] c.type = "CoverageCommand" ->
            IF c.action = "normal" THEN NormalAccepts(c) ELSE StainAccepts(c)
      [] c.type = "ReprioritizeCoverageCommand" -> ReprioritizeAccepts(c)
      [] c.type = "CleaningCommand" -> CleaningAccepts(c)
      [] c.type = "RawMotorCommand" -> RawMotorAccepts(c)
      [] c.type = "MapEnvironmentCommand" -> MapAccepts(c)
      [] c.type = "WifiCommand" -> WifiAccepts(c)
      [] c.type = "DeviceCommand" -> DeviceAccepts(c)
      [] c.type = "SweeperMaintenanceCommand" -> SweeperMaintenanceAccepts(c)
      [] c.type = "BrushRollJamResponseCommand" -> BrushRollJamResponseAccepts(c)
      [] c.type = "SettingsCommand" -> SettingsAccepts(c)
      [] c.type = "DeepMopOverrideCommand" -> DeepMopOverrideAccepts(c)
      [] c.type = "WaterFlowOverrideCommand" -> WaterFlowOverrideAccepts(c)
      [] c.type = "ScheduleCommand" -> ScheduleAccepts(c)
      [] c.type = "MediaCommand" -> MediaAccepts(c)
      [] c.type = "UserAudioRecordingCommand" -> UserAudioRecordingAccepts(c)
      [] c.type = "TelemetryCommand" -> TelemetryAccepts(c)
      [] c.type = "LiveActivityRegistrationCommand" -> LiveActivityRegistrationAccepts(c)
      [] OTHER -> TRUE
Payload(c) ==
    CASE c.type = "UserCommand" -> UserPayload(c)
      [] c.type = "JoystickCommand" -> JoystickPayload(c)
      [] c.type = "NavigationCommand" -> NavigationPayload(c)
      [] c.type = "CoverageCommand" ->
            IF c.action = "normal" THEN NormalPayload(c) ELSE StainPayload(c)
      [] c.type = "ReprioritizeCoverageCommand" -> ReprioritizePayload(c)
      [] c.type = "CleaningCommand" -> CleaningPayload(c)
      [] c.type = "RawMotorCommand" -> RawMotorPayload(c)
      [] c.type = "MapEnvironmentCommand" -> MapPayload(c)
      [] c.type = "WifiCommand" -> WifiPayload(c)
      [] c.type = "DeviceCommand" -> DevicePayload(c)
      [] c.type = "SweeperMaintenanceCommand" -> SweeperMaintenancePayload(c)
      [] c.type = "BrushRollJamResponseCommand" -> BrushRollJamResponsePayload(c)
      [] c.type = "BrushRollJamOutcomeDismissCommand" -> <<>>
      [] c.type = "SettingsCommand" -> SettingsPayload(c)
      [] c.type = "DeepMopOverrideCommand" -> DeepMopOverridePayload(c)
      [] c.type = "WaterFlowOverrideCommand" -> WaterFlowOverridePayload(c)
      [] c.type = "ScheduleCommand" -> SchedulePayload(c)
      [] c.type = "MediaCommand" -> MediaPayload(c)
      [] c.type = "UserAudioRecordingCommand" -> UserAudioRecordingPayload(c)
      [] c.type = "TelemetryCommand" -> TelemetryPayload(c)
      [] c.type = "LiveActivityRegistrationCommand" -> LiveActivityRegistrationPayload(c)
      [] c.type = "LifecycleCommand" -> LifecyclePayload(c)
============================================================================
