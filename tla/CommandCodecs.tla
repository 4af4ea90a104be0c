---------------------------- MODULE CommandCodecs ----------------------------
(***************************************************************************)
(* matic_sdk/protocol/commands.py: the codecs of the simple families.  Of  *)
(* each codec, what it Accepts (it raises on anything else) and the        *)
(* payload it returns then, byte for byte.                                 *)
(***************************************************************************)
EXTENDS CommandTypes, ProtoWire

Empty(number) == Bytes(number, <<>>)
Flag(value) == IF value = "True" THEN 1 ELSE 0

\* Every argument but these was left at None.
Only(c, fields) ==
    \A f \in DOMAIN c \ ({"type", "action"} \cup fields) : c[f] = None
Valid(value) == value \notin {None, Junk}

\* _encode_float32_field and its siblings leave zero out.
Float(number, value) == When(value # 0, Fixed32(number, value))
Integer(number, value) == When(value # 0, Varint(number, value))
Text(number, value) == When(value # <<>>, Bytes(number, value))
MissionId(mission) == When(mission # 0, Fixed32(2, mission))

\* A UUID as two fixed64, either of them omitted when zero.
Fixed128(u) == When(u[1] # 0, Fixed64(1, u[1])) \o When(u[2] # 0, Fixed64(2, u[2]))
WrappedUuid(u) == Bytes(2, Fixed128(u))

\* Where the robot should be, in its own reflected frame.
Posture(c) ==
    Float(1, -c.y_meters) \o Float(2, -c.x_meters) \o
    Bytes(4, Float(1, -Sin(c.yaw_radians)) \o Float(2, -Cos(c.yaw_radians)))
------------------------------------------------------------------------------
UserAccepts(c) ==
    CASE c.action = "re_explore" ->
            Only(c, {"until_localized"}) /\ c.until_localized \in Bools
      [] c.action = "trace_calibration" ->
            Only(c, {"mission_id"}) /\ Valid(c.mission_id)
      [] c.action \in {"redo_coverage", "resume_coverage"} ->
            Only(c, {"coverage_session_id"}) /\ Valid(c.coverage_session_id)
      [] OTHER -> Only(c, {})

\* The variants without an argument.
NoArgument ==
    [stop |-> Bytes(15, Bytes(1, Empty(4))),
     stay_put |-> Empty(16),
     pause |-> Varint(9, 1) \o Varint(17, 1),
     resume |-> Varint(9, 1) \o Varint(17, 0),
     dock |-> Bytes(2, Bytes(5, Varint(1, 0))),
     explore |-> Bytes(15, Bytes(1, Bytes(5, Bytes(1, Empty(3)) \o Varint(2, 2)))),
     diagnose_brush_roll_jam |-> Bytes(18, Bytes(1, Empty(1)))]

ReExplore(untilLocalized) ==
    LET task == Bytes(1, Empty(4)) IN
    Bytes(15, Bytes(1, Bytes(5,
        IF untilLocalized = "True" THEN task \o Varint(2, 3) \o Bytes(3, Empty(1))
        ELSE task \o Varint(2, 2))))
TraceCalibration(mission) ==
    Bytes(2, Bytes(6, Bytes(2, MissionId(mission)) \o Empty(3)))
CoverageSession(field, session) ==
    Bytes(15, Bytes(field, Bytes(2, Bytes(2, Fixed128(session)))))

UserPayload(c) ==
    CASE c.action = "re_explore" -> ReExplore(c.until_localized)
      [] c.action = "trace_calibration" -> TraceCalibration(c.mission_id)
      [] c.action = "redo_coverage" -> CoverageSession(3, c.coverage_session_id)
      [] c.action = "resume_coverage" -> CoverageSession(2, c.coverage_session_id)
      [] OTHER -> NoArgument[c.action]

JoystickAccepts(c) == Valid(c.linear_mps) /\ Valid(c.angular_rad_s)
JoystickPayload(c) ==
    Bytes(2, Bytes(2, Float(1, c.linear_mps) \o Float(2, c.angular_rad_s)))

NavigationAccepts(c) ==
    /\ Valid(c.mission_id)
    /\ Valid(c.x_meters) /\ Valid(c.y_meters) /\ Valid(c.yaw_radians)
NavigationPayload(c) ==
    LET wait == Bytes(4, Bytes(1, Bytes(1, Varint(1, 900)) \o Varint(2, 0)))
        goTo == Bytes(1, Posture(c)) \o Bytes(2, MissionId(c.mission_id)) \o
                When(c.action = "navigate_and_wait", wait)
    IN Bytes(2, Bytes(4, goTo)) \o
       When(c.action = "navigate_and_explore", NoArgument["explore"])

CleaningAccepts(c) == Valid(c.mode) /\ Valid(c.intensity)
CleaningPayload(c) ==
    LET mode == [sweeping_carpet |-> 0, sweeping_hardfloor |-> 1,
                 sweeping_transition |-> 2, mopping_hardfloor |-> 3]
        intensity == [base |-> 0, max |-> 1]
    IN Bytes(15, Bytes(1, Bytes(1, Bytes(3,
           Integer(1, intensity[c.intensity]) \o Integer(2, mode[c.mode])))))

\* Setpoints that are None are left out; zero is sent.
RawMotorAccepts(c) == \A f \in DOMAIN c : c[f] # Junk
RawMotorPayload(c) ==
    LET setpoint(number, value) == IF value = None THEN <<>> ELSE Fixed32(number, value)
    IN setpoint(2, c.vacuum_rpm) \o setpoint(3, c.sweeper_duty) \o
       setpoint(4, c.mopper_duty) \o setpoint(6, c.head_position) \o
       setpoint(7, c.side_brush_duty)
------------------------------------------------------------------------------
\* A jukebox track and a preference share one field of the model.
SettingsAccepts(c) ==
    IF c.action = "jukebox" THEN c.value \in {None} \cup JukeboxTracks
    ELSE c.value \in Bools
SettingsPayload(c) ==
    LET track == [oh_hanukkah |-> 0, deck_the_halls |-> 1, jingle_bells |-> 2] IN
    CASE c.action # "jukebox" -> Integer(1, Flag(c.value))
      [] c.value = None -> <<>>
      [] OTHER -> Varint(1, track[c.value])

DeepMopOverrideAccepts(c) == c.enabled \in Bools
DeepMopOverridePayload(c) == IF c.enabled = "True" THEN Empty(2) ELSE Empty(1)

\* Between 0.5 and 2.0, in quarters.
WaterFlowOverrideAccepts(c) == Valid(c.factor) /\ c.factor \in 2..8
WaterFlowOverridePayload(c) == Bytes(1, Fixed32(1, c.factor))

WifiAccepts(c) ==
    CASE c.action = "scan" -> Only(c, {})
      [] c.action = "connect" -> Valid(c.ssid) /\ c.passphrase # Junk
      [] c.action = "forget" -> Valid(c.ssid) /\ c.passphrase = None
WifiPayload(c) ==
    LET kind == IF c.action = "connect" THEN 1 ELSE 3
        passphrase == IF c.passphrase = None THEN <<>> ELSE Bytes(3, c.passphrase)
    IN When(c.action # "scan",
            Varint(1, kind) \o Bytes(2, c.ssid) \o passphrase \o Bytes(6, c.ssid))

ConfigureShippingAccepts(c) ==
    c.retain_user_data \in Bools /\ Only(c, {"retain_user_data"})
ConfigureShippingPayload(c) == Varint(1, Flag(c.retain_user_data))
DeviceAccepts(c) ==
    CASE c.action = "rename" -> Valid(c.new_name) /\ Only(c, {"new_name"})
      [] c.action = "discoverability" ->
            /\ Only(c, {"enabled", "discoverable_seconds"})
            /\ \/ c.enabled = "True" /\ Valid(c.discoverable_seconds)
               \/ c.enabled = "False" /\ c.discoverable_seconds = None
      [] c.action = "new_mop_roll" -> c.enabled \in Bools /\ Only(c, {"enabled"})
      [] c.action = "clear_calibration" -> Only(c, {})
      [] c.action = "configure_shipping" -> ConfigureShippingAccepts(c)
DevicePayload(c) ==
    CASE c.action = "rename" -> Bytes(1, c.new_name)
      [] c.action = "discoverability" ->
            IF c.enabled = "True" THEN Varint(1, c.discoverable_seconds) ELSE Empty(2)
      [] c.action = "new_mop_roll" -> Integer(1, Flag(c.enabled))
      [] c.action = "clear_calibration" -> <<>>
      [] c.action = "configure_shipping" -> ConfigureShippingPayload(c)

\* The oneofs of the maintenance and diagnostic workflows.
SweeperMaintenanceAccepts(c) == c.trigger # Junk
SweeperMaintenancePayload(c) ==
    LET field == [maintenance |-> 1, feedback |-> 2]
    IN IF c.trigger = None THEN Empty(1) ELSE Bytes(3, Empty(field[c.trigger]))

BrushRollJamResponseAccepts(c) ==
    /\ Valid(c.response)
    /\ c.issued_at # Junk
    /\ c.issued_at[1] >= 0
BrushRollJamResponsePayload(c) ==
    LET field == [brush_roll_removed |-> 1, start_motor_test |-> 2,
                  stop_motor_test |-> 3]
    IN Bytes(1, Integer(1, c.issued_at[1]) \o Integer(2, 1000 * c.issued_at[2])) \o
       Bytes(3, Empty(field[c.response]))
------------------------------------------------------------------------------
MediaAccepts(c) ==
    CASE c.action = "recording_enable" -> c.enabled \in Bools /\ Only(c, {"enabled"})
      [] c.action = "flush_rolling_buffer" -> Only(c, {})
      [] c.action = "rolling_buffer_config" ->
            /\ Only(c, {"enabled", "confirm_for_each"})
            /\ \/ c.enabled = "True" /\ c.confirm_for_each \in Bools
               \/ c.enabled = "False" /\ c.confirm_for_each = None
      [] OTHER -> Valid(c.recording_id) /\ Only(c, {"recording_id"})
MediaPayload(c) ==
    CASE c.action = "recording_enable" -> Bytes(4, Integer(1, Flag(c.enabled)))
      [] c.action = "flush_rolling_buffer" -> Empty(3)
      [] c.action = "rolling_buffer_config" ->
            CASE c.confirm_for_each = "True" -> Empty(2)
              [] c.confirm_for_each = "False" -> Empty(1)
              [] OTHER -> Empty(3)
      [] OTHER ->
            Varint(1, IF c.action = "confirm_save" THEN 0 ELSE 1) \o
            Bytes(2, Integer(1, c.recording_id))

UserAudioRecordingAccepts(c) == c.mode # Junk
UserAudioRecordingPayload(c) ==
    LET number == [ambient |-> 1, direction_of_arrival |-> 2, wake_word |-> 3]
    IN IF c.mode = None THEN Empty(2) ELSE Varint(1, number[c.mode])

TelemetryAccepts(c) ==
    IF c.action = "push_notification_subscription"
    THEN c.enabled = None /\ Valid(c.device_id) /\ Valid(c.app_bundle)
    ELSE c.enabled \in Bools /\ Only(c, {"enabled"})
TelemetryPayload(c) ==
    CASE c.action = "uploader_config" -> Varint(1, Flag(c.enabled))
      [] c.action = "support_ssh_permission" -> Integer(1, Flag(c.enabled))
      [] c.action = "push_notification_subscription" ->
            Bytes(1, c.device_id) \o Bytes(3, c.app_bundle) \o Varint(4, 1)

LiveActivityRegistrationAccepts(c) ==
    /\ Valid(c.device_id)
    /\ c.token # Junk
    /\ \A f \in DOMAIN c.token : c.token[f] # Junk
LiveActivityRegistrationPayload(c) ==
    LET t == c.token
        token == IF t.kind = "start"
                 THEN Bytes(1, Text(1, t.fcm_token) \o Text(2, t.push_to_start_token))
                 ELSE Bytes(2, Bytes(1, Bytes(1, WrappedUuid(t.activity_id))) \o
                               Text(2, t.push_token))
    IN Text(1, c.device_id) \o Bytes(2, token)

LifecyclePayload(c) == IF c.action = "shutdown" THEN Empty(2) ELSE Empty(1)
============================================================================
