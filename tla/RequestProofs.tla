---------------------------- MODULE RequestProofs ----------------------------
(***************************************************************************)
(* What a command asks for and what is written for it, for any arguments:  *)
(* the second half of the proofs about Reprioritization.                   *)
(*                                                                         *)
(* From the payloads of all models, the user commands' of                  *)
(* ReprioritizationProofs included, over the registry's table, the codecs' *)
(* acceptance and the convenience methods, to the command in hand: a       *)
(* request tells its intent, and a call is served.                         *)
(***************************************************************************)
EXTENDS ReprioritizationProofs

------------------------------------------------------------------------------
\* The user commands together: the way into the payload of each, and what it
\* tells.

\* The commands that are sent to user_command, and the way into each of them.
UserTarget(c) ==
    \/ c \in ExactUser /\ UserAccepts(c)
    \/ c \in ExactJoystick \/ c \in ExactNavigation \/ c \in ExactCleaning
    \/ c \in ExactNormal \/ c \in ExactStain \/ IsReprioritize(c)
DoorOf(c) ==
    CASE c.type = "UserCommand" -> UserDoors[c.action]
      [] c.type = "JoystickCommand" -> <<2, 2, 0>>
      [] c.type = "NavigationCommand" -> <<2, 4, 0>>
      [] c.type = "CleaningCommand" -> <<15, 1, 1>>
      [] OTHER -> <<15, 1, 3>>

\* The models that are sent to the target user_command, with what their
\* codecs ask.
LEMMA UserTargetTypes ==
    ASSUME NEW c, UserTarget(c)
    PROVE  /\ c.type = "UserCommand" => c \in ExactUser /\ UserAccepts(c) /\ c.action \in UserActions
           /\ c.type = "JoystickCommand" => c \in ExactJoystick
           /\ c.type = "NavigationCommand" => c \in ExactNavigation
           /\ c.type = "CleaningCommand" => c \in ExactCleaning
           /\ c.type = "CoverageCommand" /\ c.action = "normal" => c \in ExactNormal
           /\ c.type = "CoverageCommand" /\ c.action # "normal" =>
                 c \in ExactStain /\ c.action = "stain_mode"
           /\ c.type = "ReprioritizeCoverageCommand" => IsReprioritize(c)
           /\ c.type \in {"UserCommand", "JoystickCommand", "NavigationCommand",
                          "CleaningCommand", "CoverageCommand", "ReprioritizeCoverageCommand"}
BY DEF UserTarget, ExactUser, ExactJoystick, ExactNavigation, ExactCleaning, ExactNormal,
       ExactStain, IsReprioritize

\* The payload of each model sent to user_command has its route.
LEMMA DoorsAre ==
    ASSUME NEW c, UserTarget(c)
    PROVE  DoorOf(c) \in Routes /\ Route(Payload(c), DoorOf(c))
<1>1. CASE c.type = "UserCommand"
  <2>1. c \in ExactUser /\ UserAccepts(c) /\ c.action \in UserActions BY <1>1, UserTargetTypes
  <2>2. Route(UserPayload(c), UserDoors[c.action]) BY <2>1, UserRoute
  <2>3. Payload(c) = UserPayload(c) BY <1>1, MotionPayloads
  <2>4. DoorOf(c) = UserDoors[c.action] BY <1>1 DEF DoorOf
  <2> QED BY <2>1, <2>2, <2>3, <2>4, UserDoorsAre
<1>2. CASE c.type = "JoystickCommand"
  <2>1. Route(JoystickPayload(c), <<2, 2, 0>>) BY <1>2, UserTargetTypes, JoystickTells
  <2>2. DoorOf(c) = <<2, 2, 0>> BY <1>2 DEF DoorOf
  <2>3. <<2, 2, 0>> \in Routes BY DEF Routes
  <2> QED BY <1>2, <2>1, <2>2, <2>3, MotionPayloads
<1>3. CASE c.type = "NavigationCommand"
  <2>1. Route(NavigationPayload(c), <<2, 4, 0>>) BY <1>3, UserTargetTypes, NavigationTells
  <2>2. DoorOf(c) = <<2, 4, 0>> BY <1>3 DEF DoorOf
  <2>3. <<2, 4, 0>> \in Routes BY DEF Routes
  <2> QED BY <1>3, <2>1, <2>2, <2>3, MotionPayloads
<1>4. CASE c.type = "CleaningCommand"
  <2>1. Route(CleaningPayload(c), <<15, 1, 1>>) BY <1>4, UserTargetTypes, CleaningTells
  <2>2. DoorOf(c) = <<15, 1, 1>> BY <1>4 DEF DoorOf
  <2>3. <<15, 1, 1>> \in Routes BY DEF Routes
  <2> QED BY <1>4, <2>1, <2>2, <2>3, MotionPayloads
<1>5. CASE c.type \in {"CoverageCommand", "ReprioritizeCoverageCommand"}
  <2>1. DoorOf(c) = <<15, 1, 3>> BY <1>5 DEF DoorOf
  <2>2. <<15, 1, 3>> \in Routes BY DEF Routes
  <2>3. CASE c \in ExactNormal /\ c.type = "CoverageCommand" /\ c.action = "normal"
    <3>1. Payload(c) = NormalPayload(c) BY <2>3, CoveragePayloads
    <3> QED BY <2>1, <2>2, <2>3, <3>1, NormalEnveloped, EnvelopedTells
  <2>4. CASE c \in ExactStain /\ c.type = "CoverageCommand" /\ c.action = "stain_mode"
    <3>1. Payload(c) = StainPayload(c) BY <2>4, CoveragePayloads
    <3> QED BY <2>1, <2>2, <2>4, <3>1, StainEnveloped, EnvelopedTells
  <2>5. CASE IsReprioritize(c) /\ c.type = "ReprioritizeCoverageCommand"
    <3>1. Payload(c) = ReprioritizePayload(c) BY <2>5, CoveragePayloads
    <3> QED BY <2>1, <2>2, <2>5, <3>1, ReprioritizeEnveloped, EnvelopedTells
  <2> QED BY <1>5, <2>3, <2>4, <2>5, UserTargetTypes
<1> QED BY <1>1, <1>2, <1>3, <1>4, <1>5, UserTargetTypes

\* No two of these commands that are of different types share their way in,
\* but for coverages and reprioritizations.
CoverageTypes == {"CoverageCommand", "ReprioritizeCoverageCommand"}

\* Two models sent to user_command have routes that part, but for the two of
\* coverage.
LEMMA DoorsApart ==
    ASSUME NEW c, NEW d, UserTarget(c), UserTarget(d), Compatibly(DoorOf(c), DoorOf(d))
    PROVE  c.type = d.type \/ (c.type \in CoverageTypes /\ d.type \in CoverageTypes)
<1> DEFINE Closed == {<<15, 1, 4>>, <<16, 0, 0>>, <<9, 0, 0>>, <<2, 5, 0>>, <<15, 1, 5>>,
                      <<15, 3, 0>>, <<15, 2, 0>>, <<2, 6, 0>>, <<18, 0, 0>>}
           Others == {<<2, 2, 0>>, <<2, 4, 0>>, <<15, 1, 1>>, <<15, 1, 3>>}
<1>1. ASSUME NEW x, UserTarget(x), x.type = "UserCommand" PROVE DoorOf(x) \in Closed
  <2>1. x.action \in UserActions BY <1>1, UserTargetTypes
  <2>2. UserDoors[x.action] \in Closed BY <2>1 DEF UserActions, UserDoors
  <2> QED BY <1>1, <2>2 DEF DoorOf
<1>2. ASSUME NEW x, UserTarget(x), x.type # "UserCommand" PROVE DoorOf(x) \in Others
  <2>1. x.type \in {"JoystickCommand", "NavigationCommand", "CleaningCommand",
                    "CoverageCommand", "ReprioritizeCoverageCommand"}
    BY <1>2, UserTargetTypes
  <2> QED BY <2>1 DEF DoorOf
<1>3. \A p \in Closed, q \in Others : ~Compatibly(p, q) /\ ~Compatibly(q, p) BY DEF Compatibly
<1>4. \A p \in Others, q \in Others : Compatibly(p, q) => p = q BY DEF Compatibly
<1>5. ASSUME c.type # "UserCommand", d.type # "UserCommand"
      PROVE  c.type = d.type \/ (c.type \in CoverageTypes /\ d.type \in CoverageTypes)
  <2>1. DoorOf(c) = DoorOf(d) BY <1>2, <1>4, <1>5
  <2> DEFINE K == {"JoystickCommand", "NavigationCommand", "CleaningCommand",
                   "CoverageCommand", "ReprioritizeCoverageCommand"}
  <2>2. c.type \in K /\ d.type \in K BY <1>5, UserTargetTypes
  <2>3. <<2, 2, 0>> # <<2, 4, 0>> /\ <<2, 2, 0>> # <<15, 1, 1>> /\ <<2, 2, 0>> # <<15, 1, 3>>
        /\ <<2, 4, 0>> # <<15, 1, 1>> /\ <<2, 4, 0>> # <<15, 1, 3>> /\ <<15, 1, 1>> # <<15, 1, 3>>
    OBVIOUS
  <2> QED BY <2>1, <2>2, <2>3 DEF DoorOf, CoverageTypes
<1> HIDE DEF Closed, Others
<1> QED BY <1>1, <1>2, <1>3, <1>5

\* The payloads sent to user_command, which many models share, tell what is
\* asked.
LEMMA UserTargetTells ==
    ASSUME NEW c, NEW d, UserTarget(c), UserTarget(d), Payload(c) = Payload(d)
    PROVE  Intent(c) = Intent(d)
<1>1. Compatibly(DoorOf(c), DoorOf(d)) BY DoorsAre, RouteTells DEF Compatibly
<1>2. c.type = d.type \/ (c.type \in CoverageTypes /\ d.type \in CoverageTypes)
  BY <1>1, DoorsApart
<1>3. ASSUME c = d PROVE Intent(c) = Intent(d) BY <1>3
<1>4. CASE c.type = "UserCommand" /\ d.type = "UserCommand"
  BY <1>3, <1>4, UserTargetTypes, MotionPayloads, UserTells
<1>5. CASE c.type = "JoystickCommand" /\ d.type = "JoystickCommand"
  BY <1>3, <1>5, UserTargetTypes, MotionPayloads, JoystickTells
<1>6. CASE c.type = "NavigationCommand" /\ d.type = "NavigationCommand"
  BY <1>3, <1>6, UserTargetTypes, MotionPayloads, NavigationTells
<1>7. CASE c.type = "CleaningCommand" /\ d.type = "CleaningCommand"
  BY <1>3, <1>7, UserTargetTypes, MotionPayloads, CleaningTells
<1>8. CASE c.type \in CoverageTypes /\ d.type \in CoverageTypes
  <2> DEFINE N(x) == x \in ExactNormal /\ Payload(x) = NormalPayload(x)
             S(x) == x \in ExactStain /\ Payload(x) = StainPayload(x)
             R(x) == IsReprioritize(x) /\ Payload(x) = ReprioritizePayload(x)
  <2>1. ASSUME NEW x, UserTarget(x), x.type \in CoverageTypes PROVE N(x) \/ S(x) \/ R(x)
    BY <2>1, UserTargetTypes, CoveragePayloads DEF CoverageTypes
  <2>2. ASSUME NEW x, NEW y, Payload(x) = Payload(y)
        PROVE  ~(N(x) /\ S(y)) /\ ~(N(x) /\ R(y)) /\ ~(S(x) /\ R(y))
    BY <2>2, CoverageApart
  <2>3. ASSUME N(c), N(d) PROVE c = d BY <2>3, NormalTells
  <2>4. ASSUME S(c), S(d) PROVE c = d BY <2>4, StainTells
  <2>5. ASSUME R(c), R(d) PROVE Intent(c) = Intent(d) BY <2>5, ReprioritizeTells
  <2> HIDE DEF N, S, R
  <2>6. (N(c) \/ S(c) \/ R(c)) /\ (N(d) \/ S(d) \/ R(d)) BY <1>8, <2>1
  <2> QED BY <1>3, <2>2, <2>3, <2>4, <2>5, <2>6
<1> QED BY <1>2, <1>4, <1>5, <1>6, <1>7, <1>8, UserTargetTypes DEF CoverageTypes

------------------------------------------------------------------------------
\* The payloads of the other models, but for schedules and maps.

\* None and Junk are no number, list or identifier: the two are model
\* values.
LEMMA MarksApart ==
    ASSUME NEW mark \in {None, Junk}
    PROVE  /\ mark \notin Int /\ mark \notin DrawnCircles
           /\ mark \notin Seq(Nat) /\ mark \notin Seq(Halves) /\ mark \notin Seq(DrawnCircles)
           /\ mark \notin Nat /\ mark \notin Halves /\ mark # <<>>
<1>1. <<>> \in Seq(Nat) BY EmptySeq
<1> QED BY <1>1, ArgumentsAssumption, MarksAssumption

\* None and Junk are no name of a flag, a mode or an action.
LEMMA NamesApart ==
    ASSUME NEW mark \in {None, Junk}
    PROVE  /\ mark \notin Bools /\ mark \notin CleaningModes /\ mark \notin CoverageSettings
           /\ mark \notin StainModes /\ mark \notin VacuumSettings
           /\ mark \notin ReprioritizeActions /\ mark \notin ScheduleEnabledStates
           /\ mark \notin SemanticsOverrideKinds /\ mark \notin JukeboxTracks
           /\ mark \notin BrushRollJamResponses
BY NamesAssumption

\* A text, as its bytes, is written.
LEMMA TextsAreWords == Seq(Nat) \subseteq Words
<1>1. Nat \subseteq Int OBVIOUS
<1> QED BY <1>1, SeqMonotonic DEF Words

\* A message of one field, and of another.
LEMMA FieldsApart ==
    ASSUME NEW n \in Nat, NEW m \in Nat, n # m, NEW x \in Items(n), NEW y \in Items(m)
    PROVE  x # y /\ x # <<>>
BY ItemsApart, SomeItem

\* A setpoint that may be left out.
Setpoint(n, v) == IF v = None THEN <<>> ELSE Fixed32(n, v)

\* A setpoint tells its value, and whether it is given.
LEMMA SetpointTells ==
    ASSUME NEW n \in Nat, NEW v \in Int \cup {None}, NEW u \in Int \cup {None}
    PROVE  Setpoint(n, v) \in Parts(n) /\ (Setpoint(n, v) = Setpoint(n, u) => v = u)
<1>1. ASSUME NEW w \in Int PROVE Fixed32(n, w) \in Items(n) /\ Fixed32(n, w) # <<>>
  BY Fixed32Item, SomeItem
<1> QED BY <1>1, Fixed32Tells DEF Setpoint, Parts

ExactRawMotor ==
    [type: {"RawMotorCommand"}, action: {"setpoints"}, vacuum_rpm: Int \cup {None},
     sweeper_duty: Int \cup {None}, mopper_duty: Int \cup {None},
     head_position: Int \cup {None}, side_brush_duty: Int \cup {None}]

\* _VerifiedRawMotorCodec.encode tells the five setpoints, and which are
\* given.
LEMMA RawMotorTells ==
    ASSUME NEW c \in ExactRawMotor, NEW d \in ExactRawMotor,
           RawMotorPayload(c) = RawMotorPayload(d)
    PROVE  c = d
<1> DEFINE A(e) == Setpoint(2, e.vacuum_rpm)
           B(e) == Setpoint(3, e.sweeper_duty)
           C(e) == Setpoint(4, e.mopper_duty)
           D(e) == Setpoint(6, e.head_position)
           E(e) == Setpoint(7, e.side_brush_duty)
<1>1. /\ c.vacuum_rpm \in Int \cup {None} /\ d.vacuum_rpm \in Int \cup {None}
      /\ c.sweeper_duty \in Int \cup {None} /\ d.sweeper_duty \in Int \cup {None}
      /\ c.mopper_duty \in Int \cup {None} /\ d.mopper_duty \in Int \cup {None}
      /\ c.head_position \in Int \cup {None} /\ d.head_position \in Int \cup {None}
      /\ c.side_brush_duty \in Int \cup {None} /\ d.side_brush_duty \in Int \cup {None}
  BY DEF ExactRawMotor
<1>2. /\ A(c) \in Parts(2) /\ A(d) \in Parts(2) /\ (A(c) = A(d) => c.vacuum_rpm = d.vacuum_rpm)
      /\ B(c) \in Parts(3) /\ B(d) \in Parts(3) /\ (B(c) = B(d) => c.sweeper_duty = d.sweeper_duty)
      /\ C(c) \in Parts(4) /\ C(d) \in Parts(4) /\ (C(c) = C(d) => c.mopper_duty = d.mopper_duty)
  BY <1>1, SetpointTells
<1>3. /\ D(c) \in Parts(6) /\ D(d) \in Parts(6) /\ (D(c) = D(d) => c.head_position = d.head_position)
      /\ E(c) \in Parts(7) /\ E(d) \in Parts(7)
      /\ (E(c) = E(d) => c.side_brush_duty = d.side_brush_duty)
  BY <1>1, SetpointTells
<1>4. /\ RawMotorPayload(c) = Cat(Cat(Cat(Cat(A(c), B(c)), C(c)), D(c)), E(c))
      /\ RawMotorPayload(d) = Cat(Cat(Cat(Cat(A(d), B(d)), C(d)), D(d)), E(d))
  BY DEF RawMotorPayload, Setpoint, Cat
<1> HIDE DEF A, B, C, D, E
<1>5. E(c) \in Past(6) /\ E(d) \in Past(6) BY <1>3, Later
<1>6. 2 \in Nat /\ 3 \in Nat /\ 4 \in Nat /\ 6 \in Nat /\ 2 < 3 /\ 3 < 4 /\ 4 < 6 OBVIOUS
<1>7. Cat(Cat(Cat(Cat(A(c), B(c)), C(c)), D(c)), E(c))
      = Cat(Cat(Cat(Cat(A(d), B(d)), C(d)), D(d)), E(d))
  BY <1>4
<1>8. A(c) = A(d) /\ B(c) = B(d) /\ C(c) = C(d) /\ D(c) = D(d) /\ E(c) = E(d)
  BY ONLY <1>2, <1>3, <1>5, <1>6, <1>7, Split5
<1>9. /\ c.vacuum_rpm = d.vacuum_rpm /\ c.sweeper_duty = d.sweeper_duty
      /\ c.mopper_duty = d.mopper_duty /\ c.head_position = d.head_position
      /\ c.side_brush_duty = d.side_brush_duty
  BY <1>2, <1>3, <1>8
<1> QED BY <1>9 DEF ExactRawMotor

\* A flag is written as 0 or 1, and told.
LEMMA FlagTells ==
    ASSUME NEW b \in Bools, NEW e \in Bools
    PROVE  Flag(b) \in Nat /\ Flag(b) \in {0, 1} /\ (Flag(b) = Flag(e) => b = e)
BY DEF Bools, Flag

ExactSettings ==
    [type: {"SettingsCommand"}, action: BinarySettings \cup {"jukebox"},
     value: Bools \cup JukeboxTracks \cup {None}]
Track(v) == [oh_hanukkah |-> 0, deck_the_halls |-> 1, jingle_bells |-> 2][v]

\* The payload of a binary setting is its flag.
LEMMA PreferencePayload ==
    ASSUME NEW c, c.action # "jukebox", c.value # None
    PROVE  SettingsPayload(c) = Integer(1, Flag(c.value))
BY DEF SettingsPayload

\* The codecs of the settings tell the value, under the action's target.
LEMMA SettingsTells ==
    ASSUME NEW c \in ExactSettings, NEW d \in ExactSettings, SettingsAccepts(c), SettingsAccepts(d),
           c.action = d.action, SettingsPayload(c) = SettingsPayload(d)
    PROVE  c = d
<1>1. c.value = d.value
  <2>1. CASE c.action # "jukebox"
    <3>1. c.value \in Bools /\ d.value \in Bools BY <2>1 DEF SettingsAccepts
    <3>2. SettingsPayload(c) = Integer(1, Flag(c.value)) /\ SettingsPayload(d) = Integer(1, Flag(d.value))
      <4>1. ASSUME NEW b \in Bools PROVE b # None BY NamesApart
      <4>2. c.value # None /\ d.value # None /\ d.action # "jukebox" BY <2>1, <3>1, <4>1
      <4> QED BY <2>1, <4>2, PreferencePayload
    <3>3. Flag(c.value) = Flag(d.value) BY <3>1, <3>2, FlagTells, IntegerTells
    <3> QED BY <3>1, <3>3, FlagTells
  <2>2. CASE c.action = "jukebox"
    <3>1. c.value \in JukeboxTracks \cup {None} /\ d.value \in JukeboxTracks \cup {None}
      BY <2>2 DEF SettingsAccepts
    <3>2. /\ SettingsPayload(c) = IF c.value = None THEN <<>> ELSE Varint(1, Track(c.value))
          /\ SettingsPayload(d) = IF d.value = None THEN <<>> ELSE Varint(1, Track(d.value))
      BY <2>2 DEF SettingsPayload, Track
    <3>3. ASSUME NEW v \in JukeboxTracks PROVE Track(v) \in Nat BY DEF JukeboxTracks, Track
    <3>4. ASSUME NEW v \in JukeboxTracks, NEW u \in JukeboxTracks, Track(v) = Track(u) PROVE v = u
      BY <3>4 DEF JukeboxTracks, Track
    <3>5. ASSUME NEW v \in JukeboxTracks PROVE Varint(1, Track(v)) # <<>>
      BY <3>3, VarintField, SomeItem
    <3>6. ASSUME NEW v \in JukeboxTracks, NEW u \in JukeboxTracks,
                 Varint(1, Track(v)) = Varint(1, Track(u))
          PROVE  v = u
      BY <3>3, <3>4, <3>6, VarintField
    <3> QED BY <3>1, <3>2, <3>5, <3>6
  <2> QED BY <2>1, <2>2
<1> QED BY <1>1 DEF ExactSettings

ExactDeepMop ==
    [type: {"DeepMopOverrideCommand"}, action: {"deep_mop_override"}, enabled: Bools]

\* _VerifiedDeepMopOverrideCodec.encode tells the flag.
LEMMA DeepMopTells ==
    ASSUME NEW c \in ExactDeepMop, NEW d \in ExactDeepMop,
           DeepMopOverridePayload(c) = DeepMopOverridePayload(d)
    PROVE  c = d
<1>1. Empty(1) # Empty(2)
  <2>1. Empty(1) \in Items(1) /\ Empty(2) \in Items(2) BY EmptyField
  <2> QED BY <2>1, FieldsApart
<1>2. c.enabled = d.enabled BY <1>1 DEF DeepMopOverridePayload, ExactDeepMop, Bools
<1> QED BY <1>2 DEF ExactDeepMop

ExactWaterFlow ==
    [type: {"WaterFlowOverrideCommand"}, action: {"water_flow_override"}, factor: 2..8]

\* _VerifiedWaterFlowOverrideCodec.encode tells the factor.
LEMMA WaterFlowTells ==
    ASSUME NEW c \in ExactWaterFlow, NEW d \in ExactWaterFlow,
           WaterFlowOverridePayload(c) = WaterFlowOverridePayload(d)
    PROVE  c = d
<1>1. c.factor \in Int /\ d.factor \in Int BY DEF ExactWaterFlow
<1>2. Fixed32(1, c.factor) \in Words /\ Fixed32(1, d.factor) \in Words
  BY <1>1, Fixed32Item, ItemWords
<1>3. Fixed32(1, c.factor) = Fixed32(1, d.factor)
  BY <1>2, BytesField DEF WaterFlowOverridePayload
<1>4. c.factor = d.factor BY <1>1, <1>3, Fixed32Tells
<1> QED BY <1>4 DEF ExactWaterFlow

\* Networks.
Spoken == Seq(Nat)
ExactWifi ==
    [type: {"WifiCommand"}, action: {"scan", "connect", "forget"},
     ssid: Spoken \cup {None}, passphrase: Spoken \cup {None}]
Passphrase(v) == IF v = None THEN <<>> ELSE Bytes(3, v)
WifiKind(c) == IF c.action = "connect" THEN 1 ELSE 3

\* _VerifiedWifiUpdateCodec.encode tells the action, the network and the
\* passphrase; a scan has a target of its own.
LEMMA WifiTells ==
    ASSUME NEW c \in ExactWifi, NEW d \in ExactWifi, WifiAccepts(c), WifiAccepts(d),
           c.action = "scan" <=> d.action = "scan", WifiPayload(c) = WifiPayload(d)
    PROVE  c = d
<1>1. CASE c.action = "scan"
  <2>1. d.action = "scan" BY <1>1
  <2>2. Only(c, {}) /\ Only(d, {}) BY <1>1, <2>1 DEF WifiAccepts
  <2>3. c.ssid = None /\ c.passphrase = None /\ d.ssid = None /\ d.passphrase = None
    BY <2>2 DEF Only, ExactWifi
  <2> QED BY <1>1, <2>1, <2>3 DEF ExactWifi
<1>2. CASE c.action # "scan"
  <2> DEFINE A(e) == Varint(1, WifiKind(e))
             B(e) == Bytes(2, e.ssid)
             C(e) == Passphrase(e.passphrase)
             D(e) == Bytes(6, e.ssid)
  <2>1. /\ c.action \in {"connect", "forget"} /\ d.action \in {"connect", "forget"}
        /\ c.ssid \in Words /\ d.ssid \in Words
        /\ c.passphrase \in Words \cup {None} /\ d.passphrase \in Words \cup {None}
    BY <1>2, TextsAreWords DEF WifiAccepts, Valid, ExactWifi, Spoken
  <2>2. /\ WifiPayload(c) = Cat(Cat(Cat(A(c), B(c)), C(c)), D(c))
        /\ WifiPayload(d) = Cat(Cat(Cat(A(d), B(d)), C(d)), D(d))
    BY <2>1 DEF WifiPayload, Passphrase, WifiKind, When, Cat
  <2>3. /\ A(c) \in Parts(1) /\ A(d) \in Parts(1) /\ (A(c) = A(d) => WifiKind(c) = WifiKind(d))
    BY VarintField DEF WifiKind
  <2>4. /\ B(c) \in Parts(2) /\ B(d) \in Parts(2) /\ (B(c) = B(d) => c.ssid = d.ssid)
        /\ D(c) \in Parts(6) /\ D(d) \in Parts(6)
    BY <2>1, BytesField
  <2>5. /\ C(c) \in Parts(3) /\ C(d) \in Parts(3) /\ (C(c) = C(d) => c.passphrase = d.passphrase)
    <3>1. ASSUME NEW v \in Words PROVE Bytes(3, v) # <<>> /\ Bytes(3, v) \in Parts(3)
      BY BytesField, SomeItem
    <3>2. <<>> \in Parts(3) BY EmptyIsPast
    <3> QED BY <2>1, <3>1, <3>2, BytesField DEF Passphrase
  <2> HIDE DEF A, B, C, D
  <2>6. D(c) \in Past(3) /\ D(d) \in Past(3) BY <2>4, Later
  <2>7. 1 \in Nat /\ 2 \in Nat /\ 3 \in Nat /\ 1 < 2 /\ 2 < 3 OBVIOUS
  <2>8. Cat(Cat(Cat(A(c), B(c)), C(c)), D(c)) = Cat(Cat(Cat(A(d), B(d)), C(d)), D(d)) BY <2>2
  <2>9. A(c) = A(d) /\ B(c) = B(d) /\ C(c) = C(d)
    BY ONLY <2>3, <2>4, <2>5, <2>6, <2>7, <2>8, Split4
  <2>10. c.ssid = d.ssid /\ c.passphrase = d.passphrase /\ WifiKind(c) = WifiKind(d)
    BY <2>3, <2>4, <2>5, <2>9
  <2>11. c.action = d.action BY <2>1, <2>10 DEF WifiKind
  <2> QED BY <2>10, <2>11 DEF ExactWifi
<1> QED BY <1>1, <1>2

ExactDevice ==
    [type: {"DeviceCommand"}, action: DeviceActions, new_name: Spoken \cup {None},
     enabled: Bools \cup {None}, discoverable_seconds: Nat \cup {None},
     retain_user_data: Bools \cup {None}]

\* What each action leaves at None.
LEMMA DeviceArguments ==
    ASSUME NEW c \in ExactDevice, DeviceAccepts(c)
    PROVE  /\ c.action = "rename" => /\ c.new_name \in Words /\ c.enabled = None
                                     /\ c.discoverable_seconds = None /\ c.retain_user_data = None
           /\ c.action = "discoverability" =>
                 /\ c.new_name = None /\ c.retain_user_data = None
                 /\ \/ c.enabled = "True" /\ c.discoverable_seconds \in Nat
                    \/ c.enabled = "False" /\ c.discoverable_seconds = None
           /\ c.action = "new_mop_roll" => /\ c.enabled \in Bools /\ c.new_name = None
                                     /\ c.discoverable_seconds = None /\ c.retain_user_data = None
           /\ c.action = "clear_calibration" => /\ c.new_name = None /\ c.enabled = None
                                     /\ c.discoverable_seconds = None /\ c.retain_user_data = None
           /\ c.action = "configure_shipping" =>
                 /\ c.retain_user_data \in Bools /\ c.new_name = None /\ c.enabled = None
                 /\ c.discoverable_seconds = None
<1>1. DOMAIN c = {"type", "action", "new_name", "enabled", "discoverable_seconds", "retain_user_data"}
  BY DEF ExactDevice
<1>2. CASE c.action = "rename"
  BY <1>1, <1>2, TextsAreWords DEF DeviceAccepts, Only, Valid, ExactDevice, Spoken
<1>3. CASE c.action = "discoverability"
  BY <1>1, <1>3 DEF DeviceAccepts, Only, Valid, ExactDevice
<1>4. CASE c.action = "new_mop_roll"
  BY <1>1, <1>4 DEF DeviceAccepts, Only, ExactDevice
<1>5. CASE c.action = "clear_calibration"
  BY <1>1, <1>5 DEF DeviceAccepts, Only, ExactDevice
<1>6. CASE c.action = "configure_shipping"
  BY <1>1, <1>6 DEF DeviceAccepts, ConfigureShippingAccepts, Only, ExactDevice
<1>7. c.action \in {"rename", "discoverability", "new_mop_roll", "clear_calibration",
                    "configure_shipping"}
  BY DEF ExactDevice, DeviceActions
<1> QED BY <1>2, <1>3, <1>4, <1>5, <1>6, <1>7

\* The codecs of the device's commands tell every argument, under the
\* action's target.
LEMMA DeviceTells ==
    ASSUME NEW c \in ExactDevice, NEW d \in ExactDevice, DeviceAccepts(c), DeviceAccepts(d),
           c.action = d.action, DevicePayload(c) = DevicePayload(d)
    PROVE  c = d
<1>1. SUFFICES /\ c.new_name = d.new_name /\ c.enabled = d.enabled
               /\ c.discoverable_seconds = d.discoverable_seconds
               /\ c.retain_user_data = d.retain_user_data
  BY DEF ExactDevice
<1>2. CASE c.action = "rename"
  <2>1. DevicePayload(c) = Bytes(1, c.new_name) /\ DevicePayload(d) = Bytes(1, d.new_name)
    BY <1>2 DEF DevicePayload
  <2>2. c.new_name = d.new_name BY <1>2, <2>1, DeviceArguments, BytesField
  <2> QED BY <1>2, <2>2, DeviceArguments
<1>3. CASE c.action = "discoverability"
  <2>1. /\ DevicePayload(c) = IF c.enabled = "True" THEN Varint(1, c.discoverable_seconds) ELSE Empty(2)
        /\ DevicePayload(d) = IF d.enabled = "True" THEN Varint(1, d.discoverable_seconds) ELSE Empty(2)
    BY <1>3 DEF DevicePayload
  <2>2. ASSUME NEW n \in Nat PROVE Varint(1, n) # Empty(2)
    <3>1. Varint(1, n) \in Items(1) /\ Empty(2) \in Items(2) BY VarintField, EmptyField
    <3> QED BY <3>1, FieldsApart
  <2>3. /\ \/ c.enabled = "True" /\ c.discoverable_seconds \in Nat
           \/ c.enabled = "False" /\ c.discoverable_seconds = None
        /\ \/ d.enabled = "True" /\ d.discoverable_seconds \in Nat
           \/ d.enabled = "False" /\ d.discoverable_seconds = None
    BY <1>3, DeviceArguments
  <2>4. c.enabled = d.enabled /\ c.discoverable_seconds = d.discoverable_seconds
    BY <2>1, <2>2, <2>3, VarintField
  <2> QED BY <1>3, <2>4, DeviceArguments
<1>4. CASE c.action = "new_mop_roll"
  <2>1. /\ DevicePayload(c) = Integer(1, Flag(c.enabled))
        /\ DevicePayload(d) = Integer(1, Flag(d.enabled))
    BY <1>4 DEF DevicePayload
  <2>2. c.enabled \in Bools /\ d.enabled \in Bools BY <1>4, DeviceArguments
  <2>3. c.enabled = d.enabled BY <2>1, <2>2, FlagTells, IntegerTells
  <2> QED BY <1>4, <2>3, DeviceArguments
<1>5. CASE c.action = "clear_calibration" BY <1>5, DeviceArguments
<1>6. CASE c.action = "configure_shipping"
  <2>1. /\ DevicePayload(c) = Varint(1, Flag(c.retain_user_data))
        /\ DevicePayload(d) = Varint(1, Flag(d.retain_user_data))
    BY <1>6 DEF DevicePayload, ConfigureShippingPayload
  <2>2. c.retain_user_data \in Bools /\ d.retain_user_data \in Bools BY <1>6, DeviceArguments
  <2>3. c.retain_user_data = d.retain_user_data BY <2>1, <2>2, FlagTells, VarintField
  <2> QED BY <1>6, <2>3, DeviceArguments
<1>7. c.action \in {"rename", "discoverability", "new_mop_roll", "clear_calibration",
                    "configure_shipping"}
  BY DEF ExactDevice, DeviceActions
<1> QED BY <1>2, <1>3, <1>4, <1>5, <1>6, <1>7

\* The oneofs of the maintenance and diagnostic workflows.
LEMMA EmptiesApart ==
    ASSUME NEW n \in Nat, NEW m \in Nat, n # m
    PROVE  Empty(n) # Empty(m) /\ Empty(n) # <<>>
<1>1. Empty(n) \in Items(n) /\ Empty(m) \in Items(m) BY EmptyField
<1> QED BY <1>1, FieldsApart

Triggers == {"maintenance", "feedback"}
ExactSweeper ==
    {c \in [type: {"SweeperMaintenanceCommand"}, trigger: Triggers \cup {None},
            action: {"sweeper_maintenance_resolve", "sweeper_maintenance_trigger"}] :
        c.action = IF c.trigger = None THEN "sweeper_maintenance_resolve"
                   ELSE "sweeper_maintenance_trigger"}
TriggerField(t) == [maintenance |-> 1, feedback |-> 2][t]

\* _VerifiedSweeperMaintenanceCodec.encode tells the trigger, and whether
\* there is one.
LEMMA SweeperTells ==
    ASSUME NEW c \in ExactSweeper, NEW d \in ExactSweeper,
           SweeperMaintenancePayload(c) = SweeperMaintenancePayload(d)
    PROVE  c = d
<1> DEFINE P(t) == IF t = None THEN Empty(1) ELSE Bytes(3, Empty(TriggerField(t)))
<1>1. SweeperMaintenancePayload(c) = P(c.trigger) /\ SweeperMaintenancePayload(d) = P(d.trigger)
  BY DEF SweeperMaintenancePayload, TriggerField
<1>2. ASSUME NEW t \in Triggers
      PROVE  TriggerField(t) \in {1, 2}
  BY DEF Triggers, TriggerField
<1>3. ASSUME NEW t \in Triggers, NEW u \in Triggers, TriggerField(t) = TriggerField(u) PROVE t = u
  BY <1>3 DEF Triggers, TriggerField
<1>4. ASSUME NEW t \in Triggers PROVE Empty(1) # Bytes(3, Empty(TriggerField(t)))
  <2>1. Empty(TriggerField(t)) \in Words BY <1>2, EmptyField
  <2>2. Bytes(3, Empty(TriggerField(t))) \in Items(3) BY <2>1, BytesField
  <2>3. Empty(1) \in Items(1) BY EmptyField
  <2> QED BY <2>2, <2>3, FieldsApart
<1>5. ASSUME NEW t \in Triggers, NEW u \in Triggers,
             Bytes(3, Empty(TriggerField(t))) = Bytes(3, Empty(TriggerField(u)))
      PROVE  t = u
  <2>1. TriggerField(t) \in Nat /\ TriggerField(u) \in Nat BY <1>2
  <2>2. Empty(TriggerField(t)) \in Words /\ Empty(TriggerField(u)) \in Words BY <2>1, EmptyField
  <2>3. Empty(TriggerField(t)) = Empty(TriggerField(u)) BY <1>5, <2>2, BytesField
  <2>4. TriggerField(t) = TriggerField(u) BY <2>1, <2>3, EmptiesApart
  <2> QED BY <1>3, <2>4
<1>6. c.trigger \in Triggers \cup {None} /\ d.trigger \in Triggers \cup {None} BY DEF ExactSweeper
<1>7. c.trigger = d.trigger BY <1>1, <1>4, <1>5, <1>6
<1> QED BY <1>7 DEF ExactSweeper

ExactBrushRoll ==
    [type: {"BrushRollJamResponseCommand"}, action: {"brush_roll_jam_response"},
     response: BrushRollJamResponses, issued_at: Nat \X Nat]
ResponseField(r) ==
    [brush_roll_removed |-> 1, start_motor_test |-> 2, stop_motor_test |-> 3][r]

\* _VerifiedBrushRollJamResponseCodec.encode tells the response and when it
\* was issued.
LEMMA BrushRollTells ==
    ASSUME NEW c \in ExactBrushRoll, NEW d \in ExactBrushRoll,
           BrushRollJamResponsePayload(c) = BrushRollJamResponsePayload(d)
    PROVE  c = d
<1> DEFINE A(e) == Integer(1, e.issued_at[1])
           B(e) == Integer(2, 1000 * e.issued_at[2])
           C(e) == Bytes(1, Cat(A(e), B(e)))
           D(e) == Bytes(3, Empty(ResponseField(e.response)))
<1>1. /\ c.issued_at \in Nat \X Nat /\ d.issued_at \in Nat \X Nat
      /\ c.response \in BrushRollJamResponses /\ d.response \in BrushRollJamResponses
  BY DEF ExactBrushRoll
<1>2. /\ c.issued_at[1] \in Nat /\ d.issued_at[1] \in Nat
      /\ c.issued_at[2] \in Nat /\ d.issued_at[2] \in Nat
      /\ (c.issued_at[1] = d.issued_at[1] /\ c.issued_at[2] = d.issued_at[2]
          => c.issued_at = d.issued_at)
  BY <1>1
<1>3. /\ 1000 * c.issued_at[2] \in Nat /\ 1000 * d.issued_at[2] \in Nat
      /\ (1000 * c.issued_at[2] = 1000 * d.issued_at[2] => c.issued_at[2] = d.issued_at[2])
  BY <1>2
<1>4. ResponseField(c.response) \in 1..3 /\ ResponseField(d.response) \in 1..3
  BY <1>1 DEF BrushRollJamResponses, ResponseField
<1>5. ResponseField(c.response) = ResponseField(d.response) => c.response = d.response
  BY <1>1 DEF BrushRollJamResponses, ResponseField
<1>6. /\ A(c) \in Parts(1) /\ A(d) \in Parts(1)
      /\ (A(c) = A(d) => c.issued_at[1] = d.issued_at[1])
  BY <1>2, IntegerTells
<1>7. /\ B(c) \in Parts(2) /\ B(d) \in Parts(2)
      /\ (B(c) = B(d) => 1000 * c.issued_at[2] = 1000 * d.issued_at[2])
  BY <1>3, IntegerTells
<1>8. /\ BrushRollJamResponsePayload(c) = Cat(C(c), D(c))
      /\ BrushRollJamResponsePayload(d) = Cat(C(d), D(d))
  BY DEF BrushRollJamResponsePayload, ResponseField, Cat
<1> HIDE DEF A, B
<1>9. B(c) \in Past(1) /\ B(d) \in Past(1) BY <1>7, Later
<1>10. Cat(A(c), B(c)) \in Words /\ Cat(A(d), B(d)) \in Words
  BY <1>6, <1>7, ItemWords, CatParts
<1>11. C(c) \in Items(1) /\ C(d) \in Items(1) /\ (C(c) = C(d) => Cat(A(c), B(c)) = Cat(A(d), B(d)))
  BY <1>10, BytesField
<1>12. /\ Empty(ResponseField(c.response)) \in Words /\ Empty(ResponseField(d.response)) \in Words
       /\ Empty(ResponseField(c.response)) = Empty(ResponseField(d.response)) =>
             ResponseField(c.response) = ResponseField(d.response)
  BY <1>4, EmptyField, EmptiesApart
<1>13. D(c) \in Words /\ D(d) \in Words
       /\ (D(c) = D(d) => Empty(ResponseField(c.response)) = Empty(ResponseField(d.response)))
  BY <1>12, BytesField
<1> HIDE DEF C, D
<1>14. C(c) = C(d) /\ D(c) = D(d)
  <2>1. Cat(C(c), D(c)) = Cat(C(d), D(d)) BY <1>8
  <2> QED BY ONLY <1>11, <1>13, <2>1, ItemThen, 1 \in Nat
<1>15. A(c) = A(d) /\ B(c) = B(d)
  <2>1. Cat(A(c), B(c)) = Cat(A(d), B(d)) BY <1>11, <1>14
  <2> QED BY ONLY <1>6, <1>7, <1>9, <2>1, PartCancel, 1 \in Nat
<1>16. c.issued_at = d.issued_at BY <1>2, <1>3, <1>6, <1>7, <1>15
<1>17. c.response = d.response BY <1>5, <1>12, <1>13, <1>14
<1> QED BY <1>16, <1>17 DEF ExactBrushRoll

ExactAudio ==
    [type: {"UserAudioRecordingCommand"}, action: {"user_audio_recording"},
     mode: {"ambient", "direction_of_arrival", "wake_word"} \cup {None}]
AudioNumber(m) == [ambient |-> 1, direction_of_arrival |-> 2, wake_word |-> 3][m]

\* _VerifiedUserAudioRecordingCodec.encode tells the mode, and whether there
\* is one.
LEMMA AudioTells ==
    ASSUME NEW c \in ExactAudio, NEW d \in ExactAudio,
           UserAudioRecordingPayload(c) = UserAudioRecordingPayload(d)
    PROVE  c = d
<1> DEFINE M == {"ambient", "direction_of_arrival", "wake_word"}
<1>1. /\ UserAudioRecordingPayload(c) = IF c.mode = None THEN Empty(2) ELSE Varint(1, AudioNumber(c.mode))
      /\ UserAudioRecordingPayload(d) = IF d.mode = None THEN Empty(2) ELSE Varint(1, AudioNumber(d.mode))
  BY DEF UserAudioRecordingPayload, AudioNumber
<1>2. ASSUME NEW m \in M PROVE AudioNumber(m) \in Nat BY DEF AudioNumber
<1>3. ASSUME NEW m \in M, NEW n \in M, AudioNumber(m) = AudioNumber(n) PROVE m = n
  BY <1>3 DEF AudioNumber
<1>4. ASSUME NEW m \in M PROVE Varint(1, AudioNumber(m)) # Empty(2)
  <2>1. Varint(1, AudioNumber(m)) \in Items(1) /\ Empty(2) \in Items(2)
    BY <1>2, VarintField, EmptyField
  <2> QED BY <2>1, FieldsApart
<1>5. ASSUME NEW m \in M, NEW n \in M, Varint(1, AudioNumber(m)) = Varint(1, AudioNumber(n))
      PROVE  m = n
  BY <1>2, <1>3, <1>5, VarintField
<1>6. c.mode \in M \cup {None} /\ d.mode \in M \cup {None} BY DEF ExactAudio
<1> HIDE DEF M
<1>7. c.mode = d.mode BY <1>1, <1>4, <1>5, <1>6
<1> QED BY <1>7 DEF ExactAudio

ExactDismiss ==
    [type: {"BrushRollJamOutcomeDismissCommand"}, action: {"brush_roll_jam_outcome_dismiss"}]
ExactLifecycle ==
    [type: {"LifecycleCommand"}, action: {"update", "reboot", "shutdown"}]

\* _VerifiedLifecycleCodec.encode tells the action; an update has a target
\* of its own.
LEMMA LifecycleTells ==
    ASSUME NEW c \in ExactLifecycle, NEW d \in ExactLifecycle,
           c.action = "update" <=> d.action = "update", LifecyclePayload(c) = LifecyclePayload(d)
    PROVE  c = d
<1>1. Empty(1) # Empty(2) BY EmptiesApart
<1>2. c.action = d.action BY <1>1 DEF LifecyclePayload, ExactLifecycle
<1> QED BY <1>2 DEF ExactLifecycle

\* Recordings.
ExactMedia ==
    [type: {"MediaCommand"}, action: MediaActions, recording_id: Nat \cup {None},
     enabled: Bools \cup {None}, confirm_for_each: Bools \cup {None}]

\* Which arguments each recording action takes, and which must be left out.
LEMMA MediaArguments ==
    ASSUME NEW c \in ExactMedia, MediaAccepts(c)
    PROVE  /\ c.action = "recording_enable" =>
                 c.enabled \in Bools /\ c.recording_id = None /\ c.confirm_for_each = None
           /\ c.action = "flush_rolling_buffer" =>
                 c.enabled = None /\ c.recording_id = None /\ c.confirm_for_each = None
           /\ c.action = "rolling_buffer_config" =>
                 /\ c.recording_id = None
                 /\ \/ c.enabled = "True" /\ c.confirm_for_each \in Bools
                    \/ c.enabled = "False" /\ c.confirm_for_each = None
           /\ c.action \in {"confirm_save", "confirm_delete"} =>
                 c.recording_id \in Nat /\ c.enabled = None /\ c.confirm_for_each = None
<1>1. DOMAIN c = {"type", "action", "recording_id", "enabled", "confirm_for_each"}
  BY DEF ExactMedia
<1>2. CASE c.action = "recording_enable" BY <1>1, <1>2 DEF MediaAccepts, Only
<1>3. CASE c.action = "flush_rolling_buffer" BY <1>1, <1>3 DEF MediaAccepts, Only
<1>4. CASE c.action = "rolling_buffer_config" BY <1>1, <1>4 DEF MediaAccepts, Only
<1>5. CASE c.action \in {"confirm_save", "confirm_delete"}
  BY <1>1, <1>5 DEF MediaAccepts, Only, Valid, ExactMedia
<1> QED BY <1>2, <1>3, <1>4, <1>5 DEF ExactMedia, MediaActions

ConfirmNumber(c) == IF c.action = "confirm_save" THEN 0 ELSE 1

\* The payload of each recording action.
LEMMA MediaPayloads ==
    ASSUME NEW c
    PROVE  /\ c.action = "recording_enable" =>
                 MediaPayload(c) = Bytes(4, Integer(1, Flag(c.enabled)))
           /\ c.action = "flush_rolling_buffer" => MediaPayload(c) = Empty(3)
           /\ c.action = "rolling_buffer_config" =>
                 MediaPayload(c) = IF c.confirm_for_each = "True" THEN Empty(2)
                                   ELSE IF c.confirm_for_each = "False" THEN Empty(1) ELSE Empty(3)
           /\ c.action \in {"confirm_save", "confirm_delete"} =>
                 MediaPayload(c) = Cat(Varint(1, ConfirmNumber(c)), Bytes(2, Integer(1, c.recording_id)))
<1>1. CASE c.action = "recording_enable" BY <1>1 DEF MediaPayload
<1>2. CASE c.action = "flush_rolling_buffer" BY <1>2 DEF MediaPayload
<1>3. CASE c.action = "rolling_buffer_config" BY <1>3 DEF MediaPayload
<1>4. CASE c.action \in {"confirm_save", "confirm_delete"}
  BY <1>4 DEF MediaPayload, ConfirmNumber, Cat
<1> QED BY <1>1, <1>2, <1>3, <1>4

\* The actions that are sent to each target.
MediaTarget(a) ==
    IF a \in {"recording_enable", "flush_rolling_buffer"} THEN "recording_command"
    ELSE IF a = "rolling_buffer_config" THEN "toggle_rolling_recordings"
    ELSE "recording_upload_confirmation"

\* The codecs of the recordings tell the action and its arguments among the
\* actions of one target.
LEMMA MediaTells ==
    ASSUME NEW c \in ExactMedia, NEW d \in ExactMedia, MediaAccepts(c), MediaAccepts(d),
           MediaTarget(c.action) = MediaTarget(d.action), MediaPayload(c) = MediaPayload(d)
    PROVE  c = d
<1>0. c.action \in MediaActions /\ d.action \in MediaActions BY DEF ExactMedia
<1>1. SUFFICES /\ c.action = d.action /\ c.recording_id = d.recording_id
               /\ c.enabled = d.enabled /\ c.confirm_for_each = d.confirm_for_each
  BY DEF ExactMedia
<1>2. ASSUME NEW x \in ExactMedia, NEW y \in ExactMedia, MediaAccepts(x),
             x.action = "recording_enable", y.action = "flush_rolling_buffer"
      PROVE  MediaPayload(x) # MediaPayload(y)
  <2>1. x.enabled \in Bools BY <1>2, MediaArguments
  <2>2. Integer(1, Flag(x.enabled)) \in Words
    BY <2>1, FlagTells, IntegerTells, ItemWords
  <2>3. Bytes(4, Integer(1, Flag(x.enabled))) \in Items(4) /\ Empty(3) \in Items(3)
    BY <2>2, BytesField, EmptyField
  <2> QED BY <1>2, <2>3, FieldsApart, MediaPayloads
<1>3. CASE c.action = "recording_enable" /\ d.action = "recording_enable"
  <2>1. c.enabled \in Bools /\ d.enabled \in Bools BY <1>3, MediaArguments
  <2>2. Integer(1, Flag(c.enabled)) \in Words /\ Integer(1, Flag(d.enabled)) \in Words
    BY <2>1, FlagTells, IntegerTells, ItemWords
  <2>3. Integer(1, Flag(c.enabled)) = Integer(1, Flag(d.enabled))
    BY <1>3, <2>2, MediaPayloads, BytesField
  <2>4. c.enabled = d.enabled BY <2>1, <2>3, FlagTells, IntegerTells
  <2> QED BY <1>3, <2>4, MediaArguments
<1>4. CASE c.action = "flush_rolling_buffer" /\ d.action = "flush_rolling_buffer"
  BY <1>4, MediaArguments
<1>5. CASE c.action = "rolling_buffer_config" /\ d.action = "rolling_buffer_config"
  <2>1. Empty(1) # Empty(2) /\ Empty(1) # Empty(3) /\ Empty(2) # Empty(3) BY EmptiesApart
  <2>2. None # "True" /\ None # "False" BY NamesApart DEF Bools
  <2>3. /\ c.recording_id = None /\ d.recording_id = None
        /\ \/ c.enabled = "True" /\ c.confirm_for_each \in Bools
           \/ c.enabled = "False" /\ c.confirm_for_each = None
        /\ \/ d.enabled = "True" /\ d.confirm_for_each \in Bools
           \/ d.enabled = "False" /\ d.confirm_for_each = None
    BY <1>5, MediaArguments
  <2>4. /\ MediaPayload(c) = IF c.confirm_for_each = "True" THEN Empty(2)
                             ELSE IF c.confirm_for_each = "False" THEN Empty(1) ELSE Empty(3)
        /\ MediaPayload(d) = IF d.confirm_for_each = "True" THEN Empty(2)
                             ELSE IF d.confirm_for_each = "False" THEN Empty(1) ELSE Empty(3)
    BY <1>5, MediaPayloads
  <2>5. c.confirm_for_each = d.confirm_for_each BY <2>1, <2>2, <2>3, <2>4 DEF Bools
  <2> QED BY <1>5, <2>2, <2>3, <2>5 DEF Bools
<1>6. CASE c.action \in {"confirm_save", "confirm_delete"}
           /\ d.action \in {"confirm_save", "confirm_delete"}
  <2> DEFINE A(e) == Varint(1, ConfirmNumber(e))
             I(e) == Integer(1, e.recording_id)
             B(e) == Bytes(2, I(e))
  <2>1. c.recording_id \in Nat /\ d.recording_id \in Nat BY <1>6, MediaArguments
  <2>2. /\ A(c) \in Items(1) /\ A(d) \in Items(1)
        /\ (A(c) = A(d) => ConfirmNumber(c) = ConfirmNumber(d))
    BY VarintField DEF ConfirmNumber
  <2>3. I(c) \in Words /\ I(d) \in Words /\ (I(c) = I(d) => c.recording_id = d.recording_id)
    BY <2>1, IntegerTells, ItemWords
  <2>4. Cat(A(c), B(c)) = Cat(A(d), B(d)) BY <1>6, MediaPayloads
  <2> HIDE DEF A, I
  <2>5. B(c) \in Words /\ B(d) \in Words /\ (B(c) = B(d) => I(c) = I(d)) BY <2>3, BytesField
  <2> HIDE DEF B
  <2>6. A(c) = A(d) /\ B(c) = B(d) BY ONLY <2>2, <2>4, <2>5, ItemThen, 1 \in Nat
  <2>7. c.action = d.action BY <1>6, <2>2, <2>6 DEF ConfirmNumber
  <2> QED BY <1>6, <2>3, <2>5, <2>6, <2>7, MediaArguments
<1> QED BY <1>0, <1>2, <1>3, <1>4, <1>5, <1>6 DEF MediaActions, MediaTarget

ExactTelemetry ==
    [type: {"TelemetryCommand"}, action: TelemetryActions, enabled: Bools \cup {None},
     device_id: Spoken \cup {None}, app_bundle: Spoken \cup {None}]

\* The codecs of the telemetry commands tell every argument, under the
\* action's target.
LEMMA TelemetryTells ==
    ASSUME NEW c \in ExactTelemetry, NEW d \in ExactTelemetry,
           TelemetryAccepts(c), TelemetryAccepts(d),
           c.action = d.action, TelemetryPayload(c) = TelemetryPayload(d)
    PROVE  c = d
<1>0. DOMAIN c = {"type", "action", "enabled", "device_id", "app_bundle"}
      /\ DOMAIN d = {"type", "action", "enabled", "device_id", "app_bundle"}
  BY DEF ExactTelemetry
<1>1. SUFFICES /\ c.enabled = d.enabled /\ c.device_id = d.device_id /\ c.app_bundle = d.app_bundle
  BY DEF ExactTelemetry
<1>2. CASE c.action = "push_notification_subscription"
  <2> DEFINE A(e) == Bytes(1, e.device_id)
             B(e) == Bytes(3, e.app_bundle)
             D == Varint(4, 1)
  <2>1. /\ c.enabled = None /\ d.enabled = None
        /\ c.device_id \in Words /\ d.device_id \in Words
        /\ c.app_bundle \in Words /\ d.app_bundle \in Words
    BY <1>2, TextsAreWords DEF TelemetryAccepts, Valid, ExactTelemetry, Spoken
  <2>2. /\ TelemetryPayload(c) = Cat(Cat(A(c), B(c)), D)
        /\ TelemetryPayload(d) = Cat(Cat(A(d), B(d)), D)
    BY <1>2 DEF TelemetryPayload, Cat
  <2>3. /\ A(c) \in Parts(1) /\ A(d) \in Parts(1) /\ (A(c) = A(d) => c.device_id = d.device_id)
        /\ B(c) \in Parts(3) /\ B(d) \in Parts(3) /\ (B(c) = B(d) => c.app_bundle = d.app_bundle)
    BY <2>1, BytesField
  <2>4. D \in Past(3) BY VarintField, Later
  <2> HIDE DEF A, B, D
  <2>5. Cat(Cat(A(c), B(c)), D) = Cat(Cat(A(d), B(d)), D) BY <2>2
  <2>6. 1 \in Nat /\ 3 \in Nat /\ 1 < 3 OBVIOUS
  <2>7. A(c) = A(d) /\ B(c) = B(d) BY ONLY <2>3, <2>4, <2>5, <2>6, Split3
  <2> QED BY <2>1, <2>3, <2>7
<1>3. CASE c.action # "push_notification_subscription"
  <2>1. /\ c.enabled \in Bools /\ d.enabled \in Bools
        /\ c.device_id = None /\ d.device_id = None /\ c.app_bundle = None /\ d.app_bundle = None
    BY <1>0, <1>3 DEF TelemetryAccepts, Only
  <2>2. CASE c.action = "uploader_config"
    <3>1. TelemetryPayload(c) = Varint(1, Flag(c.enabled)) /\ TelemetryPayload(d) = Varint(1, Flag(d.enabled))
      BY <2>2 DEF TelemetryPayload
    <3>2. Flag(c.enabled) \in Nat /\ Flag(d.enabled) \in Nat BY <2>1, FlagTells
    <3>3. TelemetryPayload(c) = TelemetryPayload(d) => Flag(c.enabled) = Flag(d.enabled)
      BY ONLY <3>1, <3>2, VarintField, 1 \in Nat
    <3> QED BY ONLY <2>1, <3>3, FlagTells, TelemetryPayload(c) = TelemetryPayload(d)
  <2>3. CASE c.action = "support_ssh_permission"
    <3>1. TelemetryPayload(c) = Integer(1, Flag(c.enabled)) /\ TelemetryPayload(d) = Integer(1, Flag(d.enabled))
      BY <2>3 DEF TelemetryPayload
    <3>2. Flag(c.enabled) \in Nat /\ Flag(d.enabled) \in Nat BY <2>1, FlagTells
    <3>3. TelemetryPayload(c) = TelemetryPayload(d) => Flag(c.enabled) = Flag(d.enabled)
      BY ONLY <3>1, <3>2, IntegerTells, 1 \in Nat
    <3> QED BY ONLY <2>1, <3>3, FlagTells, TelemetryPayload(c) = TelemetryPayload(d)
  <2> QED BY <1>3, <2>2, <2>3 DEF ExactTelemetry, TelemetryActions
<1> QED BY <1>2, <1>3

\* The two kinds of tokens of a live activity.
StartTokens == [kind: {"start"}, fcm_token: Spoken, push_to_start_token: Spoken]
UpdateTokens == [kind: {"update"}, activity_id: Halves, push_token: Spoken]
ExactLiveActivity ==
    [type: {"LiveActivityRegistrationCommand"}, action: {"live_activity_registration"},
     device_id: Spoken, token: StartTokens \cup UpdateTokens]
StartToken(t) == Cat(Text(1, t.fcm_token), Text(2, t.push_to_start_token))
UpdateToken(t) == Cat(Bytes(1, Bytes(1, WrappedUuid(t.activity_id))), Text(2, t.push_token))
TokenField(t) == IF t.kind = "start" THEN Bytes(1, StartToken(t)) ELSE Bytes(2, UpdateToken(t))

\* The two forms of a live activity's token are told.
LEMMA TokensTell ==
    /\ \A t \in StartTokens, u \in StartTokens :
          StartToken(t) \in Words /\ (StartToken(t) = StartToken(u) => t = u)
    /\ \A t \in UpdateTokens, u \in UpdateTokens :
          UpdateToken(t) \in Words /\ (UpdateToken(t) = UpdateToken(u) => t = u)
<1>1. ASSUME NEW t \in StartTokens, NEW u \in StartTokens
      PROVE  StartToken(t) \in Words /\ (StartToken(t) = StartToken(u) => t = u)
  <2> DEFINE A(e) == Text(1, e.fcm_token)
             B(e) == Text(2, e.push_to_start_token)
  <2>1. /\ t.fcm_token \in Words /\ u.fcm_token \in Words
        /\ t.push_to_start_token \in Words /\ u.push_to_start_token \in Words
    BY TextsAreWords DEF StartTokens, Spoken
  <2>2. /\ A(t) \in Parts(1) /\ A(u) \in Parts(1) /\ (A(t) = A(u) => t.fcm_token = u.fcm_token)
        /\ B(t) \in Parts(2) /\ B(u) \in Parts(2)
        /\ (B(t) = B(u) => t.push_to_start_token = u.push_to_start_token)
    BY <2>1, TextTells
  <2>3. StartToken(t) = Cat(A(t), B(t)) /\ StartToken(u) = Cat(A(u), B(u)) BY DEF StartToken
  <2> HIDE DEF A, B
  <2>4. B(t) \in Past(1) /\ B(u) \in Past(1) BY <2>2, Later
  <2>5. ASSUME Cat(A(t), B(t)) = Cat(A(u), B(u)) PROVE A(t) = A(u) /\ B(t) = B(u)
    BY ONLY <2>2, <2>4, <2>5, PartCancel, 1 \in Nat
  <2>6. Cat(A(t), B(t)) \in Words BY <2>2, ItemWords, CatParts
  <2>7. StartToken(t) = StartToken(u) =>
           t.fcm_token = u.fcm_token /\ t.push_to_start_token = u.push_to_start_token
    BY <2>2, <2>3, <2>5
  <2> QED BY <2>3, <2>6, <2>7 DEF StartTokens
<1>2. ASSUME NEW t \in UpdateTokens, NEW u \in UpdateTokens
      PROVE  UpdateToken(t) \in Words /\ (UpdateToken(t) = UpdateToken(u) => t = u)
  <2> DEFINE A(e) == Bytes(1, Bytes(1, WrappedUuid(e.activity_id)))
             B(e) == Text(2, e.push_token)
  <2>1. /\ t.push_token \in Words /\ u.push_token \in Words
        /\ t.activity_id \in Halves /\ u.activity_id \in Halves
    BY TextsAreWords DEF UpdateTokens, Spoken
  <2>2. /\ A(t) \in Items(1) /\ A(u) \in Items(1) /\ (A(t) = A(u) => t.activity_id = u.activity_id)
    BY <2>1, IdentifierField
  <2>3. /\ B(t) \in Parts(2) /\ B(u) \in Parts(2) /\ (B(t) = B(u) => t.push_token = u.push_token)
    BY <2>1, TextTells
  <2>4. UpdateToken(t) = Cat(A(t), B(t)) /\ UpdateToken(u) = Cat(A(u), B(u)) BY DEF UpdateToken
  <2> HIDE DEF A, B
  <2>5. B(t) \in Words /\ B(u) \in Words BY <2>3, ItemWords
  <2>6. Cat(A(t), B(t)) \in Words /\ (Cat(A(t), B(t)) = Cat(A(u), B(u)) => A(t) = A(u) /\ B(t) = B(u))
    BY ONLY <2>2, <2>5, ItemThen, 1 \in Nat
  <2>7. UpdateToken(t) = UpdateToken(u) =>
           t.activity_id = u.activity_id /\ t.push_token = u.push_token
    BY <2>2, <2>3, <2>4, <2>6
  <2> QED BY <2>4, <2>6, <2>7 DEF UpdateTokens
<1> QED BY <1>1, <1>2

\* _VerifiedLiveActivityRegistrationCodec.encode tells the device, the token
\* and its form.
LEMMA LiveActivityTells ==
    ASSUME NEW c \in ExactLiveActivity, NEW d \in ExactLiveActivity,
           LiveActivityRegistrationPayload(c) = LiveActivityRegistrationPayload(d)
    PROVE  c = d
<1> DEFINE A(e) == Text(1, e.device_id)
           F(e) == TokenField(e.token)
           B(e) == Bytes(2, F(e))
<1>1. /\ LiveActivityRegistrationPayload(c) = Cat(A(c), B(c))
      /\ LiveActivityRegistrationPayload(d) = Cat(A(d), B(d))
  BY DEF LiveActivityRegistrationPayload, TokenField, StartToken, UpdateToken, Cat
<1>2. c.device_id \in Words /\ d.device_id \in Words
  BY TextsAreWords DEF ExactLiveActivity, Spoken
<1>3. c.token \in StartTokens \cup UpdateTokens /\ d.token \in StartTokens \cup UpdateTokens
  BY DEF ExactLiveActivity
<1>4. A(c) \in Parts(1) /\ A(d) \in Parts(1) /\ (A(c) = A(d) => c.device_id = d.device_id)
  BY <1>2, TextTells
<1>5. ASSUME NEW t \in StartTokens PROVE TokenField(t) = Bytes(1, StartToken(t))
  BY DEF TokenField, StartTokens
<1>6. ASSUME NEW t \in UpdateTokens PROVE TokenField(t) = Bytes(2, UpdateToken(t))
  BY DEF TokenField, UpdateTokens
<1>7. ASSUME NEW t \in StartTokens, NEW u \in UpdateTokens
      PROVE  TokenField(t) # TokenField(u) /\ TokenField(t) \in Words /\ TokenField(u) \in Words
  <2>1. StartToken(t) \in Words /\ UpdateToken(u) \in Words BY TokensTell
  <2>2. Bytes(1, StartToken(t)) \in Items(1) /\ Bytes(2, UpdateToken(u)) \in Items(2)
    BY <2>1, BytesField
  <2> QED BY <1>5, <1>6, <2>2, FieldsApart, ItemWords
<1>8. ASSUME NEW t \in StartTokens, NEW u \in StartTokens, TokenField(t) = TokenField(u)
      PROVE  t = u
  <2>1. StartToken(t) \in Words /\ StartToken(u) \in Words BY TokensTell
  <2>2. StartToken(t) = StartToken(u) BY <1>5, <1>8, <2>1, BytesField
  <2> QED BY <2>2, TokensTell
<1>9. ASSUME NEW t \in UpdateTokens, NEW u \in UpdateTokens, TokenField(t) = TokenField(u)
      PROVE  t = u
  <2>1. UpdateToken(t) \in Words /\ UpdateToken(u) \in Words BY TokensTell
  <2>2. UpdateToken(t) = UpdateToken(u) BY <1>6, <1>9, <2>1, BytesField
  <2> QED BY <2>2, TokensTell
<1>10. ASSUME NEW t \in StartTokens PROVE TokenField(t) \in Words
  BY <1>5, TokensTell, BytesField
<1>11. ASSUME NEW t \in UpdateTokens PROVE TokenField(t) \in Words
  BY <1>6, TokensTell, BytesField
<1>12. F(c) \in Words /\ F(d) \in Words BY <1>3, <1>10, <1>11
<1>13. F(c) = F(d) => c.token = d.token BY <1>3, <1>7, <1>8, <1>9
<1> HIDE DEF A, F
<1>14. /\ B(c) \in Parts(2) /\ B(d) \in Parts(2) /\ (B(c) = B(d) => F(c) = F(d))
  BY <1>12, BytesField
<1> HIDE DEF B
<1>15. B(c) \in Past(1) /\ B(d) \in Past(1) BY <1>14, Later
<1>16. Cat(A(c), B(c)) = Cat(A(d), B(d)) BY <1>1
<1>17. A(c) = A(d) /\ B(c) = B(d) BY ONLY <1>4, <1>15, <1>16, PartCancel, 1 \in Nat
<1>18. c.device_id = d.device_id /\ c.token = d.token BY <1>4, <1>13, <1>14, <1>17
<1> QED BY <1>18 DEF ExactLiveActivity

------------------------------------------------------------------------------
\* Schedules.

\* The groups of a negative number: r[k] is what is left of v at the k-th.
Shifted(r, v) == r = [k \in 1..MaxGroups |-> IF k = 1 THEN v ELSE Less(r[k - 1])]
Group(r, k) == IF k = MaxGroups THEN r[k] % 2 ELSE Low(r[k])

\* A number has its successive shifts by seven bits.
LEMMA ShiftsExist ==
    ASSUME NEW v
    PROVE  \E r : Shifted(r, v)
<1> DEFINE a2 == Less(v)
           a3 == Less(a2)
           a4 == Less(a3)
           a5 == Less(a4)
           a6 == Less(a5)
           a7 == Less(a6)
           a8 == Less(a7)
           a9 == Less(a8)
           a10 == Less(a9)
           h == [k \in 1..10 |-> IF k = 1 THEN v ELSE IF k = 2 THEN a2 ELSE IF k = 3 THEN a3
                                 ELSE IF k = 4 THEN a4 ELSE IF k = 5 THEN a5 ELSE IF k = 6 THEN a6
                                 ELSE IF k = 7 THEN a7 ELSE IF k = 8 THEN a8 ELSE IF k = 9 THEN a9
                                 ELSE a10]
           Next1(k) == IF k = 1 THEN v ELSE Less(h[k - 1])
<1>1. /\ a3 = Less(a2) /\ a4 = Less(a3) /\ a5 = Less(a4) /\ a6 = Less(a5) /\ a7 = Less(a6)
      /\ a8 = Less(a7) /\ a9 = Less(a8) /\ a10 = Less(a9) /\ a2 = Less(v)
  OBVIOUS
<1> HIDE DEF a2, a3, a4, a5, a6, a7, a8, a9, a10
<1>2. /\ h[1] = v /\ h[2] = a2 /\ h[3] = a3 /\ h[4] = a4 /\ h[5] = a5 /\ h[6] = a6
      /\ h[7] = a7 /\ h[8] = a8 /\ h[9] = a9 /\ h[10] = a10
  OBVIOUS
<1>3. h = [k \in 1..10 |-> h[k]] OBVIOUS
<1> HIDE DEF h
<1>4. ASSUME NEW k \in 1..10 PROVE h[k] = Next1(k)
  <2>1. k \in {1, 2, 3, 4, 5, 6, 7, 8, 9, 10} OBVIOUS
  <2>2. /\ 2 - 1 = 1 /\ 3 - 1 = 2 /\ 4 - 1 = 3 /\ 5 - 1 = 4 /\ 6 - 1 = 5 /\ 7 - 1 = 6
        /\ 8 - 1 = 7 /\ 9 - 1 = 8 /\ 10 - 1 = 9
    OBVIOUS
  <2> QED BY <1>1, <1>2, <2>1, <2>2
<1>5. h = [k \in 1..10 |-> Next1(k)]
  <2> HIDE DEF Next1
  <2> QED BY <1>3, <1>4
<1>6. Shifted(h, v) BY <1>5 DEF Shifted, MaxGroups
<1> QED BY <1>6

\* _signed_i64_varint of a negative number: ten groups.
LEMMA SignedIs ==
    ASSUME NEW v \in Int, v < 0
    PROVE  \E r : Shifted(r, v) /\ EncodeSigned(v) = [k \in 1..10 |-> Group(r, k)]
<1> DEFINE r == CHOOSE f : Shifted(f, v)
<1>1. Shifted(r, v)
  <2>1. \E f : Shifted(f, v) BY ShiftsExist
  <2> QED BY <2>1
<1>2. EncodeSigned(v) = [k \in 1..MaxGroups |-> Group(r, k)]
  BY DEF EncodeSigned, Shifted, Group, Low, Less
<1> HIDE DEF r
<1>3. MaxGroups = 10 BY DEF MaxGroups
<1> QED BY <1>1, <1>2, <1>3

\* What is left shrinks to -1 within five groups.
LEMMA Shrinks ==
    ASSUME NEW v \in Int, v < 0
    PROVE  /\ Less(v) \in Int /\ Less(v) < 0
           /\ v >= -128 => Less(v) = -1
           /\ \A p \in Nat : v >= -(128 * p) => Less(v) >= -p
           /\ v = 128 * Less(v) + Low(v) - 128
           /\ Low(v) \in Int
BY DEF Less, Low
Eighth == 128 * (128 * (128 * (128 * 8)))

\* The shifts of a negative number that fits in 35 bits reach -1 and stay
\* there: ten groups, all but the first five the same.
LEMMA SignedShrinks ==
    ASSUME NEW v \in Int, v < 0, v >= -Eighth, NEW r, Shifted(r, v)
    PROVE  /\ \A k \in 1..6 : r[k] \in Int /\ r[k] < 0
           /\ r[1] = v /\ r[6] = -1 /\ \A k \in 1..5 : r[k + 1] = Less(r[k])
           /\ \A k \in 1..10 : r[k] \in Int
<1> DEFINE Next1(k) == IF k = 1 THEN v ELSE Less(r[k - 1])
<1>0. r = [k \in 1..10 |-> Next1(k)] BY DEF Shifted, MaxGroups
<1>1. ASSUME NEW k \in 1..10 PROVE r[k] = Next1(k)
  <2> HIDE DEF Next1
  <2> QED BY <1>0
<1>2. /\ r[1] = v /\ r[2] = Less(r[1]) /\ r[3] = Less(r[2]) /\ r[4] = Less(r[3])
      /\ r[5] = Less(r[4]) /\ r[6] = Less(r[5]) /\ r[7] = Less(r[6]) /\ r[8] = Less(r[7])
      /\ r[9] = Less(r[8]) /\ r[10] = Less(r[9])
  BY <1>1
<1> HIDE DEF Next1
<1>3. r[2] \in Int /\ r[2] < 0 /\ r[2] >= -(128 * (128 * (128 * 8)))
  <2> DEFINE p == 128 * (128 * (128 * 8))
  <2>1. p \in Nat /\ v >= -(128 * p) BY DEF Eighth
  <2> HIDE DEF p
  <2>2. r[2] \in Int /\ r[2] < 0 /\ r[2] >= -p BY <1>2, <2>1, Shrinks
  <2> QED BY <2>2 DEF p
<1>4. r[3] \in Int /\ r[3] < 0 /\ r[3] >= -(128 * (128 * 8))
  <2> DEFINE p == 128 * (128 * 8)
  <2>1. p \in Nat /\ r[2] >= -(128 * p) BY <1>3
  <2> HIDE DEF p
  <2>2. r[3] \in Int /\ r[3] < 0 /\ r[3] >= -p BY <1>2, <1>3, <2>1, Shrinks
  <2> QED BY <2>2 DEF p
<1>5. r[4] \in Int /\ r[4] < 0 /\ r[4] >= -(128 * 8)
  <2> DEFINE p == 128 * 8
  <2>1. p \in Nat /\ r[3] >= -(128 * p) BY <1>4
  <2> HIDE DEF p
  <2>2. r[4] \in Int /\ r[4] < 0 /\ r[4] >= -p BY <1>2, <1>4, <2>1, Shrinks
  <2> QED BY <2>2 DEF p
<1>6. r[5] \in Int /\ r[5] < 0 /\ r[5] >= -8
  <2>1. 8 \in Nat OBVIOUS
  <2> QED BY <1>2, <1>5, <2>1, Shrinks
<1>7. r[6] \in Int /\ r[6] < 0 /\ r[6] = -1
  <2>1. r[5] >= -128 BY <1>6
  <2> QED BY <1>2, <1>6, <2>1, Shrinks
<1>8. r[7] \in Int /\ r[7] < 0 BY <1>2, <1>7, Shrinks
<1>9. r[8] \in Int /\ r[8] < 0 BY <1>2, <1>8, Shrinks
<1>10. r[9] \in Int /\ r[9] < 0 BY <1>2, <1>9, Shrinks
<1>11. r[10] \in Int /\ r[10] < 0 BY <1>2, <1>10, Shrinks
<1>12. ASSUME NEW k \in 1..10 PROVE r[k] \in Int
  <2>1. k \in {1, 2, 3, 4, 5, 6, 7, 8, 9, 10} OBVIOUS
  <2> QED BY <1>2, <1>3, <1>4, <1>5, <1>6, <1>7, <1>8, <1>9, <1>10, <1>11, <2>1
<1>13. ASSUME NEW k \in 1..6 PROVE r[k] < 0
  <2>1. k \in {1, 2, 3, 4, 5, 6} OBVIOUS
  <2> QED BY <1>2, <1>3, <1>4, <1>5, <1>6, <1>7, <2>1
<1>14. ASSUME NEW k \in 1..5 PROVE r[k + 1] = Less(r[k])
  <2>1. k \in {1, 2, 3, 4, 5} OBVIOUS
  <2>2. 1 + 1 = 2 /\ 2 + 1 = 3 /\ 3 + 1 = 4 /\ 4 + 1 = 5 /\ 5 + 1 = 6 OBVIOUS
  <2> QED BY <1>2, <2>1, <2>2
<1>15. \A k \in 1..6 : k \in 1..10 OBVIOUS
<1> QED BY <1>2, <1>7, <1>12, <1>13, <1>14, <1>15

\* A negative offset is written in ten groups, and is told by them.
LEMMA NegativesTell ==
    ASSUME NEW v \in Int, v < 0, v >= -Eighth, NEW u \in Int, u < 0, u >= -Eighth
    PROVE  /\ EncodeSigned(v) \in Words /\ Len(EncodeSigned(v)) = 10
           /\ EncodeSigned(v) = EncodeSigned(u) => v = u
<1>1. PICK r : Shifted(r, v) /\ EncodeSigned(v) = [k \in 1..10 |-> Group(r, k)] BY SignedIs
<1>2. PICK t : Shifted(t, u) /\ EncodeSigned(u) = [k \in 1..10 |-> Group(t, k)] BY SignedIs
<1>3. /\ \A k \in 1..6 : r[k] \in Int /\ r[k] < 0
      /\ r[1] = v /\ r[6] = -1 /\ \A k \in 1..5 : r[k + 1] = Less(r[k])
      /\ \A k \in 1..10 : r[k] \in Int
  BY <1>1, SignedShrinks
<1>4. /\ \A k \in 1..6 : t[k] \in Int /\ t[k] < 0
      /\ t[1] = u /\ t[6] = -1 /\ \A k \in 1..5 : t[k + 1] = Less(t[k])
  BY <1>2, SignedShrinks
<1>5. ASSUME NEW k \in 1..10 PROVE Group(r, k) \in Int
  <2>1. r[k] \in Int BY <1>3
  <2>2. r[k] % 2 \in Int /\ Low(r[k]) \in Int
    <3> DEFINE x == r[k]
    <3>1. x \in Int BY <2>1
    <3> HIDE DEF x
    <3>2. x % 2 \in Int /\ Low(x) \in Int BY <3>1 DEF Low
    <3> QED BY <3>2 DEF x
  <2> QED BY <2>2 DEF Group
<1>6. EncodeSigned(v) \in Words /\ Len(EncodeSigned(v)) = 10
  <2> DEFINE s == [k \in 1..10 |-> Group(r, k)]
  <2>1. s \in Seq(Int) /\ Len(s) = 10
    <3> HIDE DEF Group
    <3> QED BY <1>5, IsASeq, 10 \in Nat
  <2> QED BY <1>1, <2>1 DEF Words
<1>7. ASSUME EncodeSigned(v) = EncodeSigned(u) PROVE v = u
  <2>1. ASSUME NEW k \in 1..10 PROVE Group(r, k) = Group(t, k)
    <3> DEFINE s == [j \in 1..10 |-> Group(r, j)]
               z == [j \in 1..10 |-> Group(t, j)]
    <3>1. s = z BY <1>1, <1>2, <1>7
    <3>2. s[k] = Group(r, k) /\ z[k] = Group(t, k)
      <4> HIDE DEF Group
      <4> QED OBVIOUS
    <3> HIDE DEF s, z
    <3> QED BY <3>1, <3>2
  <2>2. ASSUME NEW k \in 1..5 PROVE Low(r[k]) = Low(t[k])
    <3>1. k \in 1..10 /\ k # MaxGroups BY DEF MaxGroups
    <3> QED BY <2>1, <3>1 DEF Group
  <2>3. ASSUME NEW k \in 1..5, r[k + 1] = t[k + 1] PROVE r[k] = t[k]
    <3> DEFINE x == r[k]
               y == t[k]
    <3>1. x \in Int /\ x < 0 /\ y \in Int /\ y < 0 BY <1>3, <1>4
    <3>2. Less(x) = Less(y) /\ Low(x) = Low(y) BY <1>3, <1>4, <2>2, <2>3
    <3> HIDE DEF x, y
    <3>3. x = 128 * Less(x) + Low(x) - 128 /\ y = 128 * Less(y) + Low(y) - 128 BY <3>1, Shrinks
    <3>4. x = y BY <3>2, <3>3
    <3> QED BY <3>4 DEF x, y
  <2>4. r[5 + 1] = t[5 + 1] /\ 5 \in 1..5 /\ 4 \in 1..5 /\ 3 \in 1..5 /\ 2 \in 1..5 /\ 1 \in 1..5
    BY <1>3, <1>4
  <2>5. r[4 + 1] = t[4 + 1]
    <3>1. r[5] = t[5] BY <2>3, <2>4
    <3> QED BY <3>1
  <2>6. r[3 + 1] = t[3 + 1]
    <3>1. r[4] = t[4] BY <2>3, <2>4, <2>5
    <3> QED BY <3>1
  <2>7. r[2 + 1] = t[2 + 1]
    <3>1. r[3] = t[3] BY <2>3, <2>4, <2>6
    <3> QED BY <3>1
  <2>8. r[1 + 1] = t[1 + 1]
    <3>1. r[2] = t[2] BY <2>3, <2>4, <2>7
    <3> QED BY <3>1
  <2>9. r[1] = t[1] BY <2>3, <2>4, <2>8
  <2> QED BY <1>3, <1>4, <2>9
<1> QED BY <1>6, <1>7

\* A number below 2^31 has at most five groups.
LEMMA ShortGroups ==
    ASSUME NEW v \in Nat, NEW p \in Nat, v < 128 * p
    PROVE  Less(v) \in Nat /\ Less(v) < p
BY DEF Less

\* A natural number that fits in 35 bits is written in at most five groups,
\* so it is never taken for a negative one.
LEMMA ShortNumber ==
    ASSUME NEW v \in Nat, v < Eighth
    PROVE  Len(EncodeVarint[v]) <= 5 /\ Len(EncodeVarint[v]) \in Nat
<1> DEFINE UpTo(n, p) == \A x \in Nat : x < p => Len(EncodeVarint[x]) \in 1..n
<1>1. UpTo(1, 128)
  <2>1. ASSUME NEW x \in Nat, x < 128 PROVE Len(EncodeVarint[x]) \in 1..1
    <3>1. Len(EncodeVarint[x]) = 1 BY <2>1, VarintLength
    <3> QED BY <3>1
  <2> QED BY <2>1
<1>2. ASSUME NEW n \in Nat, NEW p \in Nat, UpTo(n, p), n >= 1 PROVE UpTo(n + 1, 128 * p)
  <2>1. ASSUME NEW x \in Nat, x < 128 * p PROVE Len(EncodeVarint[x]) \in 1..n + 1
    <3>1. CASE x < 128
      <4>1. Len(EncodeVarint[x]) = 1 BY <3>1, VarintLength
      <4> QED BY <1>2, <4>1
    <3>2. CASE x >= 128
      <4>1. Less(x) \in Nat /\ Less(x) < p BY <2>1, ShortGroups
      <4>2. Len(EncodeVarint[Less(x)]) \in 1..n BY <1>2, <4>1
      <4>3. Len(EncodeVarint[x]) = 1 + Len(EncodeVarint[Less(x)]) BY <3>2, VarintLength
      <4> DEFINE y == Len(EncodeVarint[Less(x)])
      <4> HIDE DEF y
      <4>4. y \in 1..n /\ Len(EncodeVarint[x]) = 1 + y BY <4>2, <4>3 DEF y
      <4> QED BY <4>4
    <3> QED BY <3>1, <3>2
  <2> QED BY <2>1
<1>3. UpTo(1, 8)
  <2>1. \A x \in Nat : x < 8 => x < 128 OBVIOUS
  <2> QED BY <1>1, <2>1
<1> HIDE DEF UpTo
<1>4. UpTo(2, 128 * 8)
  <2>1. UpTo(1 + 1, 128 * 8) BY <1>2, <1>3
  <2> QED BY <2>1
<1>5. UpTo(3, 128 * (128 * 8))
  <2> DEFINE p == 128 * 8
  <2>1. p \in Nat OBVIOUS
  <2> HIDE DEF p
  <2>2. UpTo(2 + 1, 128 * p) BY <1>2, <1>4, <2>1 DEF p
  <2> QED BY <2>2 DEF p
<1>6. UpTo(4, 128 * (128 * (128 * 8)))
  <2> DEFINE p == 128 * (128 * 8)
  <2>1. p \in Nat OBVIOUS
  <2> HIDE DEF p
  <2>2. UpTo(3, p) BY <1>5 DEF p
  <2>3. UpTo(3 + 1, 128 * p) BY <1>2, <2>1, <2>2
  <2> QED BY <2>3 DEF p
<1>7. UpTo(5, Eighth)
  <2> DEFINE p == 128 * (128 * (128 * 8))
  <2>1. p \in Nat OBVIOUS
  <2> HIDE DEF p
  <2>2. UpTo(4, p) BY <1>6 DEF p
  <2>3. UpTo(4 + 1, 128 * p) BY <1>2, <2>1, <2>2
  <2> QED BY <2>3 DEF p, Eighth
<1> DEFINE m == Len(EncodeVarint[v])
<1>8. m \in 1..5 BY <1>7 DEF UpTo
<1> HIDE DEF m
<1>9. m <= 5 /\ m \in Nat BY <1>8
<1> QED BY <1>9 DEF m

\* Every offset of 32 bits fits in 35.
LEMMA OffsetsInside ==
    ASSUME NEW o \in I32
    PROVE  o \in Int /\ o >= -Eighth /\ o < Eighth
<1>1. MaxI32 \in Nat /\ MaxI32 + 1 = Eighth BY DEF MaxI32, Eighth
<1> DEFINE m == MaxI32
           e == Eighth
<1>2. o \in (-m - 1)..m /\ m \in Nat /\ m + 1 = e BY <1>1 DEF I32
<1> HIDE DEF m, e
<1>3. o \in Int /\ o >= -e /\ o < e BY <1>2
<1> QED BY <1>3 DEF e

\* Two offsets from UTC that are encoded alike are one.
LEMMA SignedTells ==
    ASSUME NEW v \in I32, NEW u \in I32
    PROVE  EncodeSigned(v) \in Words /\ (EncodeSigned(v) = EncodeSigned(u) => v = u)
<1>1. v \in Int /\ v >= -Eighth /\ v < Eighth /\ u \in Int /\ u >= -Eighth /\ u < Eighth
  BY OffsetsInside
<1>2. ASSUME NEW x \in Int, x >= 0, x < Eighth
      PROVE  /\ EncodeSigned(x) = Number(x) /\ EncodeSigned(x) \in Words
             /\ Len(EncodeSigned(x)) # 10
  <2>1. x \in Nat BY <1>2
  <2>2. EncodeSigned(x) = EncodeVarint[x] BY <1>2 DEF EncodeSigned
  <2>3. PICK m : m = Len(EncodeVarint[x]) OBVIOUS
  <2>4. m \in Nat /\ m <= 5 BY <1>2, <2>1, <2>3, ShortNumber
  <2>5. m # 10 BY <2>4
  <2> QED BY <2>1, <2>2, <2>3, <2>5, WordsOfVarint DEF Number
<1>3. CASE v >= 0 /\ u >= 0
  <2>1. /\ EncodeSigned(v) = Number(v) /\ EncodeSigned(u) = Number(u)
        /\ EncodeSigned(v) \in Words
    BY <1>1, <1>2, <1>3
  <2>2. ASSUME Number(v) = Number(u) PROVE v = u
    <3>1. /\ v \in Nat /\ u \in Nat /\ <<>> \in Words /\ Number(v) \in Words /\ Number(u) \in Words
      BY <1>1, <1>3, <2>1, <2>2, WordsEmpty
    <3>2. Cat(Number(v), <<>>) = Cat(Number(u), <<>>) BY <2>2
    <3> QED BY ONLY <3>1, <3>2, CatNumber
  <2> QED BY <2>1, <2>2
<1>4. CASE v < 0 /\ u < 0 BY <1>1, <1>4, NegativesTell
<1>5. CASE v < 0 /\ u >= 0
  <2>1. EncodeSigned(v) \in Words /\ Len(EncodeSigned(v)) = 10 BY <1>1, <1>5, NegativesTell
  <2>2. Len(EncodeSigned(u)) # 10 BY <1>1, <1>2, <1>5
  <2> QED BY <2>1, <2>2
<1>6. CASE v >= 0 /\ u < 0
  <2>1. EncodeSigned(u) \in Words /\ Len(EncodeSigned(u)) = 10 BY <1>1, <1>6, NegativesTell
  <2>2. EncodeSigned(v) \in Words /\ Len(EncodeSigned(v)) # 10 BY <1>1, <1>2, <1>6
  <2> QED BY <2>1, <2>2
<1> QED BY <1>1, <1>3, <1>4, <1>5, <1>6

\* The time of a schedule.
OffsetField(o) == When(o # 0, Cat(Tag(3, 0), EncodeSigned(o)))

\* The UTC offset of a schedule tells its value, whatever its sign, the zero
\* that is left out included.
LEMMA OffsetTells ==
    ASSUME NEW v \in I32, NEW u \in I32
    PROVE  OffsetField(v) \in Past(2) /\ (OffsetField(v) = OffsetField(u) => v = u)
<1>1. /\ EncodeSigned(v) \in Words /\ EncodeSigned(u) \in Words
      /\ EncodeSigned(v) = EncodeSigned(u) => v = u
  BY SignedTells
<1> DEFINE x == EncodeSigned(v)
           y == EncodeSigned(u)
           t == Tag(3, 0)
<1>2. x \in Words /\ y \in Words /\ (x = y => v = u) BY <1>1
<1> HIDE DEF x, y
<1>3. t \in Words /\ t # <<>>
  <2>1. 3 \in Nat /\ 0 \in WireTypes BY DEF WireTypes
  <2> QED BY <2>1, WordsOfTag
<1>4. Cat(t, x) \in Words /\ Cat(t, x) # <<>> /\ Cat(t, y) # <<>> BY <1>2, <1>3, CatParts
<1>5. Cat(t, x) = Cat(t, y) => x = y
  <2>1. 3 \in Nat /\ 0 \in {0, 1, 2, 5} OBVIOUS
  <2> QED BY <1>2, <2>1, CatTag
<1>6. Cat(t, x) \in Past(2)
  <2>1. Begins(Cat(t, x), 3) /\ 3 \in Nat /\ 2 < 3
    <3>1. 0 \in WireTypes BY DEF WireTypes
    <3> QED BY <1>2, <3>1 DEF Begins
  <2> QED BY <1>4, <2>1 DEF Past
<1> HIDE DEF t
<1>7. OffsetField(v) = (IF v # 0 THEN Cat(t, x) ELSE <<>>) /\ OffsetField(u) = (IF u # 0 THEN Cat(t, y) ELSE <<>>)
  BY DEF OffsetField, When, t, x, y
<1>8. <<>> \in Past(2) BY EmptyIsPast
<1> QED BY <1>2, <1>4, <1>5, <1>6, <1>7, <1>8

ExactTimes == [seconds_since_midnight: Nat, timezone_id: Spoken, utc_offset_seconds: I32]
Zone(t) == Cat(Text(2, t.timezone_id), OffsetField(t.utc_offset_seconds))

\* The time of an event tells the hour, the minute and the offset.
LEMMA TimeTells ==
    ASSUME NEW t \in ExactTimes, NEW u \in ExactTimes
    PROVE  Time(t) \in Words /\ (Time(t) = Time(u) => t = u)
<1> DEFINE A(e) == Integer(1, e.seconds_since_midnight)
           B(e) == Text(2, e.timezone_id)
           C(e) == OffsetField(e.utc_offset_seconds)
           D(e) == Bytes(4, Zone(e))
<1>1. /\ t.seconds_since_midnight \in Nat /\ u.seconds_since_midnight \in Nat
      /\ t.timezone_id \in Words /\ u.timezone_id \in Words
      /\ t.utc_offset_seconds \in I32 /\ u.utc_offset_seconds \in I32
  BY TextsAreWords DEF ExactTimes, Spoken
<1>2. /\ Time(t) = Cat(A(t), D(t)) /\ Time(u) = Cat(A(u), D(u))
      /\ Zone(t) = Cat(B(t), C(t)) /\ Zone(u) = Cat(B(u), C(u))
  BY DEF Time, Zone, OffsetField, Cat
<1>3. /\ A(t) \in Parts(1) /\ A(u) \in Parts(1)
      /\ A(t) = A(u) => t.seconds_since_midnight = u.seconds_since_midnight
  BY <1>1, IntegerTells
<1>4. /\ B(t) \in Parts(2) /\ B(u) \in Parts(2) /\ (B(t) = B(u) => t.timezone_id = u.timezone_id)
  BY <1>1, TextTells
<1>5. /\ C(t) \in Past(2) /\ C(u) \in Past(2)
      /\ C(t) = C(u) => t.utc_offset_seconds = u.utc_offset_seconds
  BY <1>1, OffsetTells
<1> HIDE DEF A, B, C
<1>6. ASSUME Cat(B(t), C(t)) = Cat(B(u), C(u)) PROVE B(t) = B(u) /\ C(t) = C(u)
  BY ONLY <1>4, <1>5, <1>6, PartCancel, 2 \in Nat
<1>7. Cat(B(t), C(t)) \in Words /\ Cat(B(u), C(u)) \in Words BY <1>4, <1>5, ItemWords, CatParts
<1>8. /\ D(t) \in Parts(4) /\ D(u) \in Parts(4) /\ (D(t) = D(u) => Zone(t) = Zone(u))
  BY <1>2, <1>7, BytesField
<1> HIDE DEF D
<1>9. D(t) \in Past(1) /\ D(u) \in Past(1) BY <1>8, Later
<1>10. ASSUME Cat(A(t), D(t)) = Cat(A(u), D(u)) PROVE A(t) = A(u) /\ D(t) = D(u)
  BY ONLY <1>3, <1>9, <1>10, PartCancel, 1 \in Nat
<1>11. Cat(A(t), D(t)) \in Words BY <1>3, <1>8, ItemWords, CatParts
<1>12. Time(t) = Time(u) =>
          /\ t.seconds_since_midnight = u.seconds_since_midnight
          /\ t.timezone_id = u.timezone_id /\ t.utc_offset_seconds = u.utc_offset_seconds
  BY <1>2, <1>3, <1>4, <1>5, <1>6, <1>8, <1>10
<1> QED BY <1>2, <1>11, <1>12 DEF ExactTimes

\* Its days: a set of them, in the order of the week.
WeekNames == {"monday", "tuesday", "wednesday", "thursday", "friday", "saturday", "sunday"}
DaysIn(days) == {days[i] : i \in DOMAIN days}
DayField(days, n) == When(Contains(days, DaysOfWeek[n]), Varint(n, 1))
DayFields(days) == [n \in 1..7 |-> DayField(days, n)]

\* The field of a day of the week tells whether the day is listed.
LEMMA DayFieldTells ==
    ASSUME NEW n \in 1..7, NEW s \in Seq(WeekNames), NEW z \in Seq(WeekNames)
    PROVE  /\ DayField(s, n) \in Parts(n)
           /\ DayField(s, n) = DayField(z, n) => (Contains(s, DaysOfWeek[n]) <=> Contains(z, DaysOfWeek[n]))
<1>1. n \in Nat /\ 1 \in Nat OBVIOUS
<1>2. Varint(n, 1) \in Items(n) /\ Varint(n, 1) # <<>> BY <1>1, VarintField, SomeItem
<1> DEFINE x == Varint(n, 1)
<1>3. x \in Items(n) /\ x # <<>> BY <1>2
<1> HIDE DEF x
<1>4. /\ DayField(s, n) = IF Contains(s, DaysOfWeek[n]) THEN x ELSE <<>>
      /\ DayField(z, n) = IF Contains(z, DaysOfWeek[n]) THEN x ELSE <<>>
  BY DEF DayField, When, x
<1> DEFINE p == Contains(s, DaysOfWeek[n])
           q == Contains(z, DaysOfWeek[n])
<1>5. DayField(s, n) = (IF p THEN x ELSE <<>>) /\ DayField(z, n) = (IF q THEN x ELSE <<>>) BY <1>4
<1> HIDE DEF p, q
<1>6. DayField(s, n) \in Parts(n) BY <1>3, <1>5 DEF Parts
<1>7. DayField(s, n) = DayField(z, n) => (p <=> q) BY <1>3, <1>5
<1> QED BY <1>6, <1>7 DEF p, q

\* The days that are listed are told by asking for each of the seven.
LEMMA DaysTell ==
    ASSUME NEW s \in Seq(WeekNames), NEW z \in Seq(WeekNames),
           \A n \in 1..7 : Contains(s, DaysOfWeek[n]) <=> Contains(z, DaysOfWeek[n])
    PROVE  DaysIn(s) = DaysIn(z)
<1>1. ASSUME NEW d \in WeekNames PROVE \E n \in 1..7 : DaysOfWeek[n] = d
  <2>1. /\ DaysOfWeek[1] = "monday" /\ DaysOfWeek[2] = "tuesday" /\ DaysOfWeek[3] = "wednesday"
        /\ DaysOfWeek[4] = "thursday" /\ DaysOfWeek[5] = "friday" /\ DaysOfWeek[6] = "saturday"
        /\ DaysOfWeek[7] = "sunday"
    BY DEF DaysOfWeek
  <2>2. 1 \in 1..7 /\ 2 \in 1..7 /\ 3 \in 1..7 /\ 4 \in 1..7 /\ 5 \in 1..7 /\ 6 \in 1..7 /\ 7 \in 1..7
    OBVIOUS
  <2> QED BY <2>1, <2>2 DEF WeekNames
<1>2. ASSUME NEW x \in Seq(WeekNames), NEW d
      PROVE  d \in DaysIn(x) <=> Contains(x, d)
  <2>1. DOMAIN x = 1..Len(x) OBVIOUS
  <2> QED BY <2>1 DEF DaysIn, Contains
<1>3. ASSUME NEW x \in Seq(WeekNames), NEW d \in DaysIn(x) PROVE d \in WeekNames
  BY DEF DaysIn
<1> QED BY <1>1, <1>2, <1>3

\* _weekdays() tells the set of days; their order and their repetition are
\* lost.
LEMMA WeekdaysTell ==
    ASSUME NEW s \in Seq(WeekNames), NEW z \in Seq(WeekNames)
    PROVE  Weekdays(s) \in Words /\ (Weekdays(s) = Weekdays(z) => DaysIn(s) = DaysIn(z))
<1>1. Weekdays(s) = FlattenSeq(DayFields(s)) /\ Weekdays(z) = FlattenSeq(DayFields(z))
  BY DEF Weekdays, DayFields, DayField
<1>2. ASSUME NEW x \in Seq(WeekNames)
      PROVE  /\ DayFields(x) \in Seq(Words) /\ Len(DayFields(x)) = 7 /\ Numbered1(DayFields(x))
             /\ \A n \in 1..7 : DayFields(x)[n] = DayField(x, n)
  <2>1. ASSUME NEW n \in 1..7 PROVE DayField(x, n) \in Parts(n) /\ DayField(x, n) \in Words
    <3>1. n \in Nat OBVIOUS
    <3> QED BY <3>1, DayFieldTells, ItemWords
  <2> DEFINE y == [n \in 1..7 |-> DayField(x, n)]
  <2>2. y \in Seq(Words) /\ Len(y) = 7 /\ \A n \in 1..7 : y[n] = DayField(x, n)
    <3> HIDE DEF DayField
    <3> QED BY <2>1, IsASeq, 7 \in Nat
  <2>3. DayFields(x) = y BY DEF DayFields
  <2> HIDE DEF y
  <2>4. Numbered1(y) BY <2>1, <2>2 DEF Numbered1
  <2> QED BY <2>2, <2>3, <2>4
<1> DEFINE a == DayFields(s)
           b == DayFields(z)
<1>3. a \in Seq(Words) /\ b \in Seq(Words) /\ Len(a) = Len(b) /\ Numbered1(a) /\ Numbered1(b)
  BY <1>2
<1>4. FlattenSeq(a) \in Words
  <2> HIDE DEF a
  <2>1. <<>> \in Words BY WordsEmpty
  <2> QED BY <1>3, <2>1, FlattenOneMore
<1>5. ASSUME FlattenSeq(a) = FlattenSeq(b) PROVE DaysIn(s) = DaysIn(z)
  <2>1. a = b
    <3> HIDE DEF a, b
    <3> QED BY <1>3, <1>5, PartsList
  <2>2. \A n \in 1..7 : DayField(s, n) = DayField(z, n) BY <1>2, <2>1
  <2> QED BY <2>2, DayFieldTells, DaysTell
<1> QED BY <1>1, <1>4, <1>5

\* The timing of an event tells the set of days and the time.
LEMMA TimingTells ==
    ASSUME NEW e, NEW f, e.weekdays \in Seq(WeekNames), f.weekdays \in Seq(WeekNames),
           e.time \in ExactTimes, f.time \in ExactTimes
    PROVE  /\ Timing(e) \in Words
           /\ Timing(e) = Timing(f) => DaysIn(e.weekdays) = DaysIn(f.weekdays) /\ e.time = f.time
<1> DEFINE A(g) == Bytes(1, Weekdays(g.weekdays))
           B(g) == Bytes(3, Time(g.time))
<1>1. Timing(e) = Cat(A(e), B(e)) /\ Timing(f) = Cat(A(f), B(f)) BY DEF Timing, Cat
<1>2. /\ A(e) \in Items(1) /\ A(f) \in Items(1)
      /\ A(e) = A(f) => Weekdays(e.weekdays) = Weekdays(f.weekdays)
  BY WeekdaysTell, BytesField
<1>3. /\ B(e) \in Words /\ B(f) \in Words /\ (B(e) = B(f) => Time(e.time) = Time(f.time))
  BY TimeTells, BytesField
<1> HIDE DEF A, B
<1>4. Cat(A(e), B(e)) \in Words /\ (Cat(A(e), B(e)) = Cat(A(f), B(f)) => A(e) = A(f) /\ B(e) = B(f))
  BY ONLY <1>2, <1>3, ItemThen, 1 \in Nat
<1> QED BY <1>1, <1>2, <1>3, <1>4, WeekdaysTell, TimeTells

\* The keys of the schedules.
ExactKeys == [mission_id: Nat, event_id: Halves]

\* _schedule_key() and _sink_schedule_key() tell the mission and the event.
LEMMA KeysTell ==
    ASSUME NEW k \in ExactKeys, NEW l \in ExactKeys
    PROVE  /\ ScheduleKey(k) \in Words /\ (ScheduleKey(k) = ScheduleKey(l) => k = l)
           /\ SinkScheduleKey(k) \in Words /\ (SinkScheduleKey(k) = SinkScheduleKey(l) => k = l)
<1> DEFINE M(e) == Bytes(1, MissionId(e.mission_id))
           I(e) == Bytes(3, Bytes(1, FfiUuid(e.event_id)))
           N(e) == Bytes(2, MissionId(e.mission_id))
           J(e) == Bytes(1, Bytes(1, FfiUuid(e.event_id)))
<1>1. /\ k.mission_id \in Int /\ l.mission_id \in Int /\ k.event_id \in Halves /\ l.event_id \in Halves
  BY DEF ExactKeys
<1>2. FfiUuid(k.event_id) \in Words /\ FfiUuid(l.event_id) \in Words
      /\ (FfiUuid(k.event_id) = FfiUuid(l.event_id) => k.event_id = l.event_id)
  BY <1>1, FfiTells
<1>3. /\ I(k) \in Words /\ I(l) \in Words /\ (I(k) = I(l) => k.event_id = l.event_id)
      /\ J(k) \in Items(1) /\ J(l) \in Items(1) /\ (J(k) = J(l) => k.event_id = l.event_id)
  BY <1>2, TwoDeep
<1>4. /\ M(k) \in Items(1) /\ M(l) \in Items(1) /\ (M(k) = M(l) => k.mission_id = l.mission_id)
      /\ N(k) \in Words /\ N(l) \in Words /\ (N(k) = N(l) => k.mission_id = l.mission_id)
  BY <1>1, MissionField
<1>5. /\ ScheduleKey(k) = Cat(M(k), I(k)) /\ ScheduleKey(l) = Cat(M(l), I(l))
      /\ SinkScheduleKey(k) = Cat(J(k), N(k)) /\ SinkScheduleKey(l) = Cat(J(l), N(l))
  BY DEF ScheduleKey, SinkScheduleKey, Cat
<1> HIDE DEF M, I, N, J
<1>6. Cat(M(k), I(k)) \in Words /\ (Cat(M(k), I(k)) = Cat(M(l), I(l)) => M(k) = M(l) /\ I(k) = I(l))
  BY ONLY <1>3, <1>4, ItemThen, 1 \in Nat
<1>7. Cat(J(k), N(k)) \in Words /\ (Cat(J(k), N(k)) = Cat(J(l), N(l)) => J(k) = J(l) /\ N(k) = N(l))
  BY ONLY <1>3, <1>4, ItemThen, 1 \in Nat
<1>8. k.mission_id = l.mission_id /\ k.event_id = l.event_id => k = l BY DEF ExactKeys
<1> QED BY <1>3, <1>4, <1>5, <1>6, <1>7, <1>8

\* What a schedule covers: an area, or some rooms.
PartitionField(p) == Bytes(1, FfiPartition(p))
AreaMessage(p, cs) ==
    Cat(Cat(PartitionField(p), Bytes(2, Bytes(3, DrawnArea(cs)))), Bytes(3, Empty(2)))
RoomMessage(p, r) ==
    Cat(Cat(PartitionField(p), Bytes(2, Empty(1))), Bytes(3, Bytes(3, FfiRegion(r))))
Target3(p, a, b) == Cat(Cat(PartitionField(p), Bytes(2, a)), Bytes(3, b))

\* A target of a schedule tells the partition and its two parts.
LEMMA TargetParts ==
    ASSUME NEW p \in Halves, NEW q \in Halves, NEW a \in Words, NEW b \in Words,
           NEW x \in Words, NEW y \in Words
    PROVE  /\ Target3(p, a, b) \in Words
           /\ Target3(p, a, b) = Target3(q, x, y) => p = q /\ a = x /\ b = y
<1> DEFINE P == PartitionField(p)
           Q == PartitionField(q)
           A == Bytes(2, a)
           X == Bytes(2, x)
           B == Bytes(3, b)
           Y == Bytes(3, y)
<1>1. P \in Parts(1) /\ Q \in Parts(1) /\ (P = Q => p = q)
  <2>1. /\ FfiPartition(p) \in Words /\ FfiPartition(q) \in Words
        /\ FfiPartition(p) = FfiPartition(q) => p = q
    BY FfiFieldsTell, ItemWords
  <2> QED BY <2>1, BytesField DEF PartitionField
<1>2. A \in Parts(2) /\ X \in Parts(2) /\ (A = X => a = x) BY BytesField
<1>3. B \in Parts(3) /\ Y \in Parts(3) /\ (B = Y => b = y) BY BytesField
<1>4. Target3(p, a, b) = Cat(Cat(P, A), B) /\ Target3(q, x, y) = Cat(Cat(Q, X), Y) BY DEF Target3
<1> HIDE DEF P, Q, A, X, B, Y
<1>5. B \in Past(2) /\ Y \in Past(2) BY <1>3, Later
<1>6. Cat(Cat(P, A), B) \in Words BY <1>1, <1>2, <1>3, ItemWords, CatParts
<1>7. ASSUME Cat(Cat(P, A), B) = Cat(Cat(Q, X), Y) PROVE P = Q /\ A = X /\ B = Y
  <2>1. 1 \in Nat /\ 2 \in Nat /\ 1 < 2 OBVIOUS
  <2> QED BY ONLY <1>1, <1>2, <1>5, <1>7, <2>1, Split3
<1> QED BY <1>1, <1>2, <1>3, <1>4, <1>6, <1>7

\* A drawn target of a schedule tells the partition and the circles, and is
\* never taken for a room.
LEMMA AreasTell ==
    ASSUME NEW p \in Halves, NEW q \in Halves, NEW s \in Seq(Drawn), NEW t \in Seq(Drawn),
           NEW u \in Halves, NEW v \in Halves
    PROVE  /\ AreaMessage(p, s) \in Words /\ RoomMessage(p, u) \in Words
           /\ AreaMessage(p, s) = AreaMessage(q, t) => p = q /\ s = t
           /\ RoomMessage(p, u) = RoomMessage(q, v) => p = q /\ u = v
           /\ AreaMessage(p, s) # RoomMessage(q, v)
<1> DEFINE A(x) == Bytes(3, DrawnArea(x))
           R(x) == Bytes(3, FfiRegion(x))
<1>1. /\ DrawnArea(s) \in Words /\ DrawnArea(t) \in Words /\ (DrawnArea(s) = DrawnArea(t) => s = t)
  BY DrawnTells, ItemWords
<1>2. /\ FfiRegion(u) \in Words /\ FfiRegion(v) \in Words /\ (FfiRegion(u) = FfiRegion(v) => u = v)
  BY FfiFieldsTell, ItemWords
<1>3. A(s) \in Words /\ A(t) \in Words /\ (A(s) = A(t) => s = t) BY <1>1, BytesField
<1>4. R(u) \in Words /\ R(v) \in Words /\ (R(u) = R(v) => u = v) /\ R(v) \in Items(3)
  BY <1>2, BytesField
<1>5. Empty(1) \in Words /\ Empty(2) \in Words /\ Empty(2) \in Items(2) BY EmptyField
<1>6. Empty(2) # R(v)
  <2> HIDE DEF R
  <2> QED BY <1>4, <1>5, FieldsApart
<1>7. /\ AreaMessage(p, s) = Target3(p, A(s), Empty(2)) /\ AreaMessage(q, t) = Target3(q, A(t), Empty(2))
      /\ RoomMessage(p, u) = Target3(p, Empty(1), R(u)) /\ RoomMessage(q, v) = Target3(q, Empty(1), R(v))
  BY DEF AreaMessage, RoomMessage, Target3
<1> HIDE DEF A, R
<1>8. /\ Target3(p, A(s), Empty(2)) \in Words
      /\ Target3(p, A(s), Empty(2)) = Target3(q, A(t), Empty(2)) => p = q /\ A(s) = A(t)
  BY ONLY <1>3, <1>5, TargetParts, p \in Halves, q \in Halves
<1>9. /\ Target3(p, Empty(1), R(u)) \in Words
      /\ Target3(p, Empty(1), R(u)) = Target3(q, Empty(1), R(v)) => p = q /\ R(u) = R(v)
  BY ONLY <1>4, <1>5, TargetParts, p \in Halves, q \in Halves
<1>10. Target3(p, A(s), Empty(2)) = Target3(q, Empty(1), R(v)) => Empty(2) = R(v)
  BY ONLY <1>3, <1>4, <1>5, TargetParts, p \in Halves, q \in Halves
<1> QED BY <1>3, <1>4, <1>6, <1>7, <1>8, <1>9, <1>10

\* A room target of a schedule tells the partition and the room.
LEMMA RoomsTell ==
    ASSUME NEW p \in Halves, NEW q \in Halves, NEW u \in Halves, NEW v \in Halves,
           RoomMessage(p, u) = RoomMessage(q, v)
    PROVE  p = q /\ u = v
<1>1. PICK w \in Seq(Drawn) : w = <<>> BY EmptySeq
<1>2. RoomMessage(p, u) = RoomMessage(q, v) => p = q /\ u = v
  BY ONLY AreasTell, w \in Seq(Drawn), p \in Halves, q \in Halves, u \in Halves, v \in Halves
<1> QED BY <1>2

RoomAreas == [region_ids: Seq(Halves) \ {<<>>}]
DrawnAreas == [circles: Seq(Drawn)]
Covers(e) == e.partition_id \in Halves /\ e.target \in RoomAreas \cup DrawnAreas

\* The targets of an event: one for the drawn area, or one for each room in
\* its order.
LEMMA TargetsAre ==
    ASSUME NEW e, Covers(e)
    PROVE  /\ Some(ScheduleTargetsOf(e))
           /\ e.target \in DrawnAreas =>
                 ScheduleTargetsOf(e) = <<AreaMessage(e.partition_id, e.target.circles)>>
           /\ e.target \in RoomAreas =>
                 /\ Len(ScheduleTargetsOf(e)) = Len(e.target.region_ids)
                 /\ Len(e.target.region_ids) \in Nat /\ Len(e.target.region_ids) > 0
                 /\ e.target.region_ids \in Seq(Halves)
                 /\ \A i \in 1..Len(e.target.region_ids) :
                       ScheduleTargetsOf(e)[i] = RoomMessage(e.partition_id, e.target.region_ids[i])
<1> DEFINE p == e.partition_id
           t == e.target
           ts == ScheduleTargetsOf(e)
<1>1. p \in Halves BY DEF Covers
<1>2. CASE t \in DrawnAreas
  <2>1. DOMAIN t = {"circles"} /\ t.circles \in Seq(Drawn) BY <1>2 DEF DrawnAreas
  <2>2. ts = <<AreaMessage(p, t.circles)>>
    BY <2>1 DEF ScheduleTargetsOf, AreaMessage, PartitionField, Cat
  <2>3. AreaMessage(p, t.circles) \in Words BY <1>1, <2>1, AreasTell
  <2> DEFINE m == AreaMessage(p, t.circles)
  <2>4. m \in Words /\ ts = <<m>> BY <2>2, <2>3
  <2> HIDE DEF m, ts
  <2>5. ts \in Seq(Words) /\ ts # <<>> BY <2>4
  <2>6. t \notin RoomAreas
    <3>1. \A x \in RoomAreas : DOMAIN x = {"region_ids"} BY DEF RoomAreas
    <3> QED BY <2>1, <3>1
  <2> QED BY <2>2, <2>5, <2>6 DEF Some, ts
<1>3. CASE t \in RoomAreas
  <2>1. DOMAIN t = {"region_ids"} /\ t.region_ids \in Seq(Halves) /\ t.region_ids # <<>>
    BY <1>3 DEF RoomAreas
  <2>2. DOMAIN t # {"circles"} BY <2>1
  <2> DEFINE s == t.region_ids
  <2>3. ts = [i \in DOMAIN s |-> RoomMessage(p, s[i])]
    BY <2>2 DEF ScheduleTargetsOf, RoomMessage, PartitionField, Cat
  <2>4. s \in Seq(Halves) /\ s # <<>> BY <2>1
  <2> HIDE DEF s, ts
  <2>5. /\ Len(s) \in Nat /\ Len(s) > 0 /\ DOMAIN s = 1..Len(s) /\ \A i \in 1..Len(s) : s[i] \in Halves
    BY <2>4, LenProperties, EmptySeq, ElementOfSeq
  <2>6. \A i \in 1..Len(s) : RoomMessage(p, s[i]) \in Words
    <3>1. ASSUME NEW u \in Halves PROVE RoomMessage(p, u) \in Words
      <4>1. PICK w \in Seq(Drawn) : TRUE
        <5>1. <<>> \in Seq(Drawn) BY EmptySeq
        <5> QED BY <5>1
      <4> QED BY <1>1, <4>1, AreasTell
    <3> QED BY <2>5, <3>1
  <2>7. ts = [i \in 1..Len(s) |-> RoomMessage(p, s[i])] BY <2>3, <2>5
  <2>8. ts \in Seq(Words) /\ Len(ts) = Len(s)
    <3> HIDE DEF p
    <3> QED BY <2>5, <2>6, <2>7, IsASeq
  <2>9. ts # <<>> BY <2>5, <2>8, EmptySeq
  <2>10. \A i \in 1..Len(s) : ts[i] = RoomMessage(p, s[i]) BY <2>7
  <2>11. t \notin DrawnAreas
    <3>1. \A x \in DrawnAreas : DOMAIN x = {"circles"} BY DEF DrawnAreas
    <3> QED BY <2>1, <3>1
  <2> QED BY <2>4, <2>5, <2>8, <2>9, <2>10, <2>11 DEF Some, ts, s
<1> QED BY <1>2, <1>3 DEF Covers

\* The targets of an event tell the partition and the target.
LEMMA TargetsTell ==
    ASSUME NEW e, NEW f, Covers(e), Covers(f), ScheduleTargetsOf(e) = ScheduleTargetsOf(f)
    PROVE  e.partition_id = f.partition_id /\ e.target = f.target
<1> DEFINE p == e.partition_id
           q == f.partition_id
           t == e.target
           u == f.target
<1>1. p \in Halves /\ q \in Halves /\ t \in RoomAreas \cup DrawnAreas /\ u \in RoomAreas \cup DrawnAreas
  BY DEF Covers
<1>2. ASSUME NEW g, Covers(g), g.target \in DrawnAreas
      PROVE  /\ ScheduleTargetsOf(g)[1] = AreaMessage(g.partition_id, g.target.circles)
             /\ g.target.circles \in Seq(Drawn)
  <2>1. ScheduleTargetsOf(g) = <<AreaMessage(g.partition_id, g.target.circles)>> BY <1>2, TargetsAre
  <2> QED BY <1>2, <2>1 DEF DrawnAreas
<1>3. ASSUME NEW g, Covers(g), g.target \in RoomAreas
      PROVE  /\ ScheduleTargetsOf(g)[1] = RoomMessage(g.partition_id, g.target.region_ids[1])
             /\ g.target.region_ids[1] \in Halves
  <2>1. /\ Len(g.target.region_ids) \in Nat /\ Len(g.target.region_ids) > 0
        /\ g.target.region_ids \in Seq(Halves)
    BY <1>3, TargetsAre
  <2>2. 1 \in 1..Len(g.target.region_ids) BY <2>1
  <2> QED BY <1>3, <2>1, <2>2, TargetsAre, ElementOfSeq
<1>4. ASSUME NEW g, NEW h, Covers(g), Covers(h), g.target \in DrawnAreas, h.target \in RoomAreas
      PROVE  ScheduleTargetsOf(g) # ScheduleTargetsOf(h)
  <2>1. g.partition_id \in Halves /\ h.partition_id \in Halves BY <1>4 DEF Covers
  <2>2. AreaMessage(g.partition_id, g.target.circles) # RoomMessage(h.partition_id, h.target.region_ids[1])
    BY <1>2, <1>3, <1>4, <2>1, AreasTell
  <2> QED BY <1>2, <1>3, <1>4, <2>2
<1>5. CASE t \in DrawnAreas /\ u \in DrawnAreas
  <2>1. AreaMessage(p, t.circles) = AreaMessage(q, u.circles)
        /\ t.circles \in Seq(Drawn) /\ u.circles \in Seq(Drawn)
    BY <1>2, <1>5
  <2>2. PICK w \in Halves : TRUE BY <1>1
  <2>3. p = q /\ t.circles = u.circles BY <1>1, <2>1, <2>2, AreasTell
  <2>4. t = u BY <1>5, <2>3 DEF DrawnAreas
  <2> QED BY <2>3, <2>4
<1>6. CASE t \in RoomAreas /\ u \in RoomAreas
  <2> DEFINE r == t.region_ids
             s == u.region_ids
  <2>1. /\ Len(r) \in Nat /\ Len(r) > 0 /\ r \in Seq(Halves) /\ Len(r) = Len(s) /\ s \in Seq(Halves)
        /\ \A i \in 1..Len(r) : RoomMessage(p, r[i]) = RoomMessage(q, s[i])
    <3>1. /\ Len(ScheduleTargetsOf(e)) = Len(r) /\ Len(r) \in Nat /\ Len(r) > 0 /\ r \in Seq(Halves)
          /\ \A i \in 1..Len(r) : ScheduleTargetsOf(e)[i] = RoomMessage(p, r[i])
      BY <1>6, TargetsAre
    <3>2. /\ Len(ScheduleTargetsOf(f)) = Len(s) /\ s \in Seq(Halves)
          /\ \A i \in 1..Len(s) : ScheduleTargetsOf(f)[i] = RoomMessage(q, s[i])
      BY <1>6, TargetsAre
    <3> HIDE DEF r, s, p, q
    <3> QED BY <3>1, <3>2
  <2> HIDE DEF r, s
  <2>2. ASSUME NEW i \in 1..Len(r) PROVE p = q /\ r[i] = s[i]
    <3>1. r[i] \in Halves /\ s[i] \in Halves BY <2>1, ElementOfSeq
    <3>2. PICK w \in Seq(Drawn) : w = <<>> BY EmptySeq
    <3> DEFINE x == r[i]
               y == s[i]
    <3>3. RoomMessage(p, x) = RoomMessage(q, y) BY <2>1
    <3>4. x \in Halves /\ y \in Halves BY <3>1
    <3> HIDE DEF x, y, p, q
    <3>5. p = q /\ x = y BY <1>1, <3>3, <3>4, RoomsTell
    <3> QED BY <3>5 DEF x, y
  <2>3. p = q
    <3>1. 1 \in 1..Len(r) BY <2>1
    <3> QED BY <2>2, <3>1
  <2>4. r = s BY <2>1, <2>2, SeqEqual
  <2>5. t = u BY <1>6, <2>4 DEF RoomAreas, r, s
  <2> QED BY <2>3, <2>5
<1> QED BY <1>1, <1>4, <1>5, <1>6

\* A schedule, as it is encoded.
ExactEvents ==
    [weekdays: Seq(WeekNames), time: ExactTimes, target: RoomAreas \cup DrawnAreas,
     partition_id: Halves, cleaning_mode: CleaningModes, name: Spoken \cup {None},
     ordered: Bools, vacuum_setting: VacuumSettings \cup {None, Junk},
     enabled_state: ScheduleEnabledStates]
Sweeps(e) == e.cleaning_mode # "mop" => e.vacuum_setting \in VacuumSettings
Numbers == [deprecated_deep |-> 0, standard |-> 1, quick |-> 2]
Setting(v) == Numbers[v]
EventSetting(e) == IF e.cleaning_mode = "mop" THEN 0 ELSE Setting(e.vacuum_setting)
EventSpecs(e) ==
    When(e.cleaning_mode # "mop", VacuumSpecs(Setting(e.vacuum_setting))) \o
    When(e.cleaning_mode # "vacuum", MopSpecs(1))
EventGrid(e) == Grid(EventIds, EventSpecs(e), ScheduleTargetsOf(e))
EventGoals(e) == FlattenSeq(GoalList(GoalField(e.ordered), EventGrid(e)))
State(s) == [enabled |-> 1, disabled |-> 0, suggested |-> 2][s]
NameField(n) == IF n = None THEN <<>> ELSE Bytes(2, n)

\* The vacuum setting of an event is told by its number.
LEMMA SettingTells ==
    ASSUME NEW v \in VacuumSettings, NEW u \in VacuumSettings
    PROVE  Setting(v) \in Settings /\ (Setting(v) = Setting(u) => v = u)
BY DEF VacuumSettings, Setting, Numbers, Settings

\* The state of a schedule is told by its number.
LEMMA StateTells ==
    ASSUME NEW v \in ScheduleEnabledStates, NEW u \in ScheduleEnabledStates
    PROVE  State(v) \in Nat /\ (State(v) = State(u) => v = u)
BY DEF ScheduleEnabledStates, State

\* The name of an event is told, and whether it has one.
LEMMA NameTells ==
    ASSUME NEW n \in Spoken \cup {None}, NEW m \in Spoken \cup {None}
    PROVE  NameField(n) \in Parts(2) /\ (NameField(n) = NameField(m) => n = m)
<1>1. ASSUME NEW w \in Spoken PROVE w \in Words /\ w # None
  BY TextsAreWords, MarksApart DEF Spoken
<1>2. ASSUME NEW w \in Spoken PROVE Bytes(2, w) \in Items(2) /\ Bytes(2, w) # <<>>
  BY <1>1, BytesField, SomeItem
<1>3. ASSUME NEW w \in Spoken, NEW x \in Spoken, Bytes(2, w) = Bytes(2, x) PROVE w = x
  BY <1>1, <1>3, BytesField
<1> QED BY <1>1, <1>2, <1>3 DEF NameField, Parts

\* The specs of an event are those of its mode and setting.
LEMMA EventListed ==
    ASSUME NEW e \in ExactEvents, Sweeps(e)
    PROVE  IsListed(EventSpecs(e), e.cleaning_mode, EventSetting(e), 1)
<1>1. e.cleaning_mode \in CleaningModes BY DEF ExactEvents
<1>2. EventSetting(e) \in Settings
  <2>1. 0 \in Settings BY DEF Settings
  <2> QED BY <2>1, SettingTells DEF EventSetting, Sweeps
<1>3. 1 \in Settings BY DEF Settings
<1>4. CASE e.cleaning_mode = "mop"
  <2>1. EventSpecs(e) = Specs(e.cleaning_mode, EventSetting(e), 1)
    BY <1>4 DEF EventSpecs, Specs, When
  <2> QED BY <1>1, <1>2, <1>3, <2>1 DEF IsListed
<1>5. CASE e.cleaning_mode # "mop"
  <2>1. EventSetting(e) = Setting(e.vacuum_setting) BY <1>5 DEF EventSetting
  <2>2. e.cleaning_mode \in {"vacuum", "vacuum_and_mop"} BY <1>1, <1>5 DEF CleaningModes
  <2>3. EventSpecs(e) = Specs(e.cleaning_mode, EventSetting(e), 1)
    BY <2>1, <2>2 DEF EventSpecs, Specs, When
  <2> QED BY <1>1, <1>2, <1>3, <2>3 DEF IsListed
<1> QED BY <1>4, <1>5

\* The goals of an event: one for each spec and each target, never none.
LEMMA EventGridIs ==
    ASSUME NEW e \in ExactEvents, Sweeps(e)
    PROVE  /\ EventGrid(e) \in Seq(Words) /\ EventGrid(e) # <<>>
           /\ EventGoals(e) \in Words /\ GoalField(e.ordered) \in {1, 2}
           /\ Some(ScheduleTargetsOf(e))
           /\ Len(EventGrid(e)) = Len(ScheduleTargetsOf(e)) * Len(EventSpecs(e))
<1> DEFINE s == EventSpecs(e)
           ts == ScheduleTargetsOf(e)
<1>1. Covers(e) BY DEF ExactEvents, Covers
<1>2. Some(ts) BY <1>1, TargetsAre
<1>3. IsListed(s, e.cleaning_mode, EventSetting(e), 1) BY EventListed
<1>4. EventIds \in [Nat -> Words] BY FreshIds
<1> HIDE DEF s, ts
<1>5. /\ Grid(EventIds, s, ts) \in Seq(Words) /\ Len(Grid(EventIds, s, ts)) = Len(ts) * Len(s)
      /\ Len(ts) * Len(s) >= 4 /\ Len(ts) * Len(s) \in Nat
  BY ONLY <1>2, <1>3, <1>4, GridIs
<1> DEFINE g == Grid(EventIds, s, ts)
<1>6. g \in Seq(Words) /\ g # <<>>
  <2>1. g \in Seq(Words) /\ Len(g) = Len(ts) * Len(s) BY <1>5
  <2> HIDE DEF g
  <2> QED BY <1>5, <2>1, EmptySeq
<1>7. GoalField(e.ordered) \in {1, 2} BY DEF GoalField
<1>8. EventGrid(e) = g BY DEF EventGrid, s, ts
<1>9. EventGoals(e) \in Words
  <2> HIDE DEF g
  <2> QED BY <1>6, <1>7, <1>8, GoalListTells DEF EventGoals
<1> QED BY <1>2, <1>5, <1>6, <1>7, <1>8, <1>9 DEF s, ts

\* The fields of an event, in the order they are written.
LEMMA EventIs ==
    ASSUME NEW e \in ExactEvents, Sweeps(e)
    PROVE  EventFields(e) =
              Cat(Cat(Cat(Cat(Bytes(1, Timing(e)), NameField(e.name)), Varint(3, State(e.enabled_state))),
                      Bytes(7, EventGoals(e))), Empty(9))
<1> DEFINE s == EventSpecs(e)
           ts == ScheduleTargetsOf(e)
           k == GoalField(e.ordered)
           c == Len(ts) * Len(s)
           f(n) == Goal(Headed(EventIds[n], s[OfSpec(n, Len(s))]), ts[OfTarget(n, Len(s))])
           h(n) == Bytes(6, Bytes(1, Bytes(2, GeneratedUuid(Fresh(n)))) \o
                            Bytes(3, SpecFields(s[1 + ((n - 1) % Len(s))]))) \o
                   Bytes(7, ts[1 + ((n - 1) \div Len(s))])
<1>1. EventFields(e) =
        Bytes(1, Timing(e)) \o NameField(e.name) \o Varint(3, State(e.enabled_state)) \o
        Bytes(7, FlattenSeq([n \in 1..c |-> Bytes(k, h(n))])) \o Empty(9)
  BY DEF EventFields, NameField, State, EventSpecs, Setting, Numbers
<1>2. Some(ts) /\ EventGrid(e) \in Seq(Words) /\ Len(EventGrid(e)) = c BY EventGridIs
<1>3. EventGrid(e) = [n \in 1..c |-> f(n)] BY DEF EventGrid, Grid
<1>4. ASSUME NEW n \in 1..c PROVE f(n) = h(n)
  <2> DEFINE t == ts[OfTarget(n, Len(s))]
             z == s[OfSpec(n, Len(s))]
  <2>0. n \in Nat OBVIOUS
  <2>1. EventIds[n] = GeneratedUuid(Fresh(n)) BY <2>0 DEF EventIds
  <2>2. h(n) = Bytes(6, Bytes(1, Bytes(2, GeneratedUuid(Fresh(n)))) \o Bytes(3, SpecFields(z))) \o Bytes(7, t)
    BY DEF OfSpec, OfTarget
  <2>3. f(n) = Goal(Headed(EventIds[n], z), t) OBVIOUS
  <2> HIDE DEF f, h, t, z
  <2> QED BY <2>1, <2>2, <2>3 DEF Goal, Headed, Cat
<1> HIDE DEF f, h
<1>5. GoalList(k, EventGrid(e)) = [n \in 1..c |-> Bytes(k, h(n))]
  <2>1. DOMAIN EventGrid(e) = 1..c /\ \A n \in 1..c : EventGrid(e)[n] = h(n)
    <3> HIDE DEF c
    <3> QED BY <1>3, <1>4
  <2> HIDE DEF c, k
  <2> QED BY <2>1 DEF GoalList
<1>6. EventFields(e) =
        Bytes(1, Timing(e)) \o NameField(e.name) \o Varint(3, State(e.enabled_state)) \o
        Bytes(7, EventGoals(e)) \o Empty(9)
  <2>1. EventGoals(e) = FlattenSeq([n \in 1..c |-> Bytes(k, h(n))]) BY <1>5 DEF EventGoals
  <2> HIDE DEF c, k
  <2> QED BY <1>1, <2>1
<1> QED BY <1>6 DEF Cat

\* What two schedules that are encoded alike have in common.
AlikeEvents(e, f) ==
    /\ DaysIn(e.weekdays) = DaysIn(f.weekdays) /\ e.time = f.time
    /\ e.target = f.target /\ e.partition_id = f.partition_id
    /\ e.cleaning_mode = f.cleaning_mode /\ e.name = f.name /\ e.ordered = f.ordered
    /\ e.cleaning_mode # "mop" => e.vacuum_setting = f.vacuum_setting
    /\ e.enabled_state = f.enabled_state

\* The goals of an event tell its target, partition, mode, setting and
\* order.
LEMMA EventGoalsTell ==
    ASSUME NEW e \in ExactEvents, NEW f \in ExactEvents, Sweeps(e), Sweeps(f),
           EventGoals(e) = EventGoals(f)
    PROVE  /\ e.target = f.target /\ e.partition_id = f.partition_id
           /\ e.cleaning_mode = f.cleaning_mode /\ e.ordered = f.ordered
           /\ e.cleaning_mode # "mop" => e.vacuum_setting = f.vacuum_setting
<1>1. /\ EventGrid(e) \in Seq(Words) /\ EventGrid(e) # <<>> /\ GoalField(e.ordered) \in {1, 2}
      /\ EventGrid(f) \in Seq(Words) /\ EventGrid(f) # <<>> /\ GoalField(f.ordered) \in {1, 2}
  BY EventGridIs
<1>2. EventGrid(e) = EventGrid(f) /\ GoalField(e.ordered) = GoalField(f.ordered)
  BY <1>1, GoalListTells DEF EventGoals
<1>3. e.ordered = f.ordered BY <1>2 DEF GoalField, ExactEvents, Bools
<1>4. /\ e.cleaning_mode = f.cleaning_mode
      /\ e.cleaning_mode # "mop" => EventSetting(e) = EventSetting(f)
      /\ ScheduleTargetsOf(e) = ScheduleTargetsOf(f)
  <2>1. /\ IsListed(EventSpecs(e), e.cleaning_mode, EventSetting(e), 1)
        /\ IsListed(EventSpecs(f), f.cleaning_mode, EventSetting(f), 1)
        /\ Some(ScheduleTargetsOf(e)) /\ Some(ScheduleTargetsOf(f)) /\ EventIds \in [Nat -> Words]
    BY EventListed, EventGridIs, FreshIds
  <2>2. Grid(EventIds, EventSpecs(e), ScheduleTargetsOf(e)) = Grid(EventIds, EventSpecs(f), ScheduleTargetsOf(f))
    BY <1>2 DEF EventGrid
  <2> QED BY ONLY <2>1, <2>2, GridTells
<1>5. ASSUME e.cleaning_mode # "mop" PROVE e.vacuum_setting = f.vacuum_setting
  <2>1. e.vacuum_setting \in VacuumSettings /\ f.vacuum_setting \in VacuumSettings
    BY <1>4, <1>5 DEF Sweeps
  <2>2. Setting(e.vacuum_setting) = Setting(f.vacuum_setting) BY <1>4, <1>5 DEF EventSetting
  <2> QED BY <2>1, <2>2, SettingTells
<1>6. Covers(e) /\ Covers(f) BY DEF ExactEvents, Covers
<1>7. e.partition_id = f.partition_id /\ e.target = f.target BY <1>4, <1>6, TargetsTell
<1> QED BY <1>3, <1>4, <1>5, <1>7

\* _VerifiedEditScheduleCodec._event tells an event, but for the order of
\* its days and a vacuum setting that a mop pass has no use for.
LEMMA EventsTell ==
    ASSUME NEW e \in ExactEvents, NEW f \in ExactEvents, Sweeps(e), Sweeps(f)
    PROVE  EventFields(e) \in Words /\ (EventFields(e) = EventFields(f) => AlikeEvents(e, f))
<1> DEFINE A(g) == Bytes(1, Timing(g))
           B(g) == NameField(g.name)
           C(g) == Varint(3, State(g.enabled_state))
           D(g) == Bytes(7, EventGoals(g))
           Z == Empty(9)
<1>1. /\ e.weekdays \in Seq(WeekNames) /\ f.weekdays \in Seq(WeekNames)
      /\ e.time \in ExactTimes /\ f.time \in ExactTimes
      /\ e.name \in Spoken \cup {None} /\ f.name \in Spoken \cup {None}
      /\ e.enabled_state \in ScheduleEnabledStates /\ f.enabled_state \in ScheduleEnabledStates
  BY DEF ExactEvents
<1>2. /\ Timing(e) \in Words /\ Timing(f) \in Words
      /\ Timing(e) = Timing(f) => DaysIn(e.weekdays) = DaysIn(f.weekdays) /\ e.time = f.time
  BY <1>1, TimingTells
<1>3. A(e) \in Parts(1) /\ A(f) \in Parts(1) /\ (A(e) = A(f) => Timing(e) = Timing(f))
  BY <1>2, BytesField
<1>4. B(e) \in Parts(2) /\ B(f) \in Parts(2) /\ (B(e) = B(f) => e.name = f.name)
  BY <1>1, NameTells
<1>5. C(e) \in Parts(3) /\ C(f) \in Parts(3) /\ (C(e) = C(f) => e.enabled_state = f.enabled_state)
  BY <1>1, StateTells, VarintField
<1>6. D(e) \in Parts(7) /\ D(f) \in Parts(7) /\ (D(e) = D(f) => EventGoals(e) = EventGoals(f))
  BY EventGridIs, BytesField
<1>7. Z \in Past(7) BY EmptyField, Later
<1>8. /\ EventFields(e) = Cat(Cat(Cat(Cat(A(e), B(e)), C(e)), D(e)), Z)
      /\ EventFields(f) = Cat(Cat(Cat(Cat(A(f), B(f)), C(f)), D(f)), Z)
  BY EventIs
<1> HIDE DEF A, B, C, D, Z
<1>9. Cat(Cat(Cat(Cat(A(e), B(e)), C(e)), D(e)), Z) \in Words
  <2>1. A(e) \in Words /\ B(e) \in Words /\ C(e) \in Words /\ D(e) \in Words /\ Z \in Words
    BY <1>3, <1>4, <1>5, <1>6, <1>7, ItemWords
  <2>2. Cat(A(e), B(e)) \in Words BY <2>1, CatParts
  <2>3. Cat(Cat(A(e), B(e)), C(e)) \in Words BY <2>1, <2>2, CatParts
  <2>4. Cat(Cat(Cat(A(e), B(e)), C(e)), D(e)) \in Words BY <2>1, <2>3, CatParts
  <2> QED BY <2>1, <2>4, CatParts
<1>10. ASSUME Cat(Cat(Cat(Cat(A(e), B(e)), C(e)), D(e)), Z) = Cat(Cat(Cat(Cat(A(f), B(f)), C(f)), D(f)), Z)
       PROVE  A(e) = A(f) /\ B(e) = B(f) /\ C(e) = C(f) /\ D(e) = D(f)
  <2>1. 1 \in Nat /\ 2 \in Nat /\ 3 \in Nat /\ 7 \in Nat /\ 1 < 2 /\ 2 < 3 /\ 3 < 7 OBVIOUS
  <2> QED BY ONLY <1>3, <1>4, <1>5, <1>6, <1>7, <1>10, <2>1, Split5
<1>11. ASSUME EventFields(e) = EventFields(f) PROVE AlikeEvents(e, f)
  <2>1. A(e) = A(f) /\ B(e) = B(f) /\ C(e) = C(f) /\ D(e) = D(f) BY <1>8, <1>10, <1>11
  <2>2. EventGoals(e) = EventGoals(f) BY <1>6, <2>1
  <2> QED BY <1>2, <1>3, <1>4, <1>5, <2>1, <2>2, EventGoalsTell DEF AlikeEvents
<1> QED BY <1>8, <1>9, <1>11

\* The sink's schedule.
ExactDurations == [seconds: Nat, nanoseconds: Nat]
ExactSinkEvents ==
    [weekdays: {<<"monday">>}, duration: ExactDurations, time: ExactTimes, enabled: Bools]

\* A duration tells its seconds and its nanoseconds.
LEMMA DurationTells ==
    ASSUME NEW s \in ExactDurations, NEW t \in ExactDurations
    PROVE  LET D(u) == Cat(Integer(1, u.seconds), Integer(2, u.nanoseconds))
           IN D(s) \in Words /\ (D(s) = D(t) => s = t)
<1> DEFINE A(u) == Integer(1, u.seconds)
           B(u) == Integer(2, u.nanoseconds)
<1>1. /\ A(s) \in Parts(1) /\ A(t) \in Parts(1) /\ (A(s) = A(t) => s.seconds = t.seconds)
      /\ B(s) \in Parts(2) /\ B(t) \in Parts(2) /\ (B(s) = B(t) => s.nanoseconds = t.nanoseconds)
  BY IntegerTells DEF ExactDurations
<1>2. s.seconds = t.seconds /\ s.nanoseconds = t.nanoseconds => s = t BY DEF ExactDurations
<1> HIDE DEF A, B
<1>3. B(s) \in Past(1) /\ B(t) \in Past(1) BY <1>1, Later
<1>4. Cat(A(s), B(s)) \in Words BY <1>1, ItemWords, CatParts
<1>5. ASSUME Cat(A(s), B(s)) = Cat(A(t), B(t)) PROVE A(s) = A(t) /\ B(s) = B(t)
  BY ONLY <1>1, <1>3, <1>5, PartCancel, 1 \in Nat
<1> QED BY <1>1, <1>2, <1>4, <1>5 DEF A, B
Duration(u) == Cat(Integer(1, u.seconds), Integer(2, u.nanoseconds))

\* The event of a sink schedule is told.
LEMMA SinkEventsTell ==
    ASSUME NEW e \in ExactSinkEvents, NEW f \in ExactSinkEvents
    PROVE  SinkEventFields(e) \in Words /\ (SinkEventFields(e) = SinkEventFields(f) => e = f)
<1> DEFINE A(g) == Bytes(1, Timing(g))
           B(g) == Bytes(4, Duration(g.duration))
           C(g) == Varint(6, Flag(g.enabled))
<1>1. /\ e.weekdays \in Seq(WeekNames) /\ f.weekdays \in Seq(WeekNames)
      /\ e.time \in ExactTimes /\ f.time \in ExactTimes
      /\ e.duration \in ExactDurations /\ f.duration \in ExactDurations
      /\ e.enabled \in Bools /\ f.enabled \in Bools
  <2>1. <<"monday">> \in Seq(WeekNames) BY DEF WeekNames
  <2> QED BY <2>1 DEF ExactSinkEvents
<1>2. /\ Timing(e) \in Words /\ Timing(f) \in Words /\ (Timing(e) = Timing(f) => e.time = f.time)
  BY <1>1, TimingTells
<1>3. /\ Duration(e.duration) \in Words /\ Duration(f.duration) \in Words
      /\ Duration(e.duration) = Duration(f.duration) => e.duration = f.duration
  BY <1>1, DurationTells DEF Duration
<1>4. A(e) \in Parts(1) /\ A(f) \in Parts(1) /\ (A(e) = A(f) => e.time = f.time)
  BY <1>2, BytesField
<1>5. B(e) \in Parts(4) /\ B(f) \in Parts(4) /\ (B(e) = B(f) => e.duration = f.duration)
  BY <1>3, BytesField
<1>6. C(e) \in Parts(6) /\ C(f) \in Parts(6) /\ (C(e) = C(f) => e.enabled = f.enabled)
  BY <1>1, FlagTells, VarintField
<1>7. /\ SinkEventFields(e) = Cat(Cat(A(e), B(e)), C(e))
      /\ SinkEventFields(f) = Cat(Cat(A(f), B(f)), C(f))
  BY DEF SinkEventFields, Duration, Cat
<1> HIDE DEF A, B, C
<1>8. C(e) \in Past(4) /\ C(f) \in Past(4) BY <1>6, Later
<1>9. Cat(Cat(A(e), B(e)), C(e)) \in Words
  <2>1. A(e) \in Words /\ B(e) \in Words /\ C(e) \in Words BY <1>4, <1>5, <1>6, ItemWords
  <2> QED BY <2>1, CatParts
<1>10. ASSUME Cat(Cat(A(e), B(e)), C(e)) = Cat(Cat(A(f), B(f)), C(f))
       PROVE  A(e) = A(f) /\ B(e) = B(f) /\ C(e) = C(f)
  <2>1. 1 \in Nat /\ 4 \in Nat /\ 1 < 4 OBVIOUS
  <2> QED BY ONLY <1>4, <1>5, <1>8, <1>10, <2>1, Split3
<1>11. e.time = f.time /\ e.duration = f.duration /\ e.enabled = f.enabled => e = f
  BY DEF ExactSinkEvents
<1> QED BY <1>4, <1>5, <1>6, <1>7, <1>9, <1>10, <1>11

\* The commands about schedules.
GoodEvents == {e \in ExactEvents : Sweeps(e) /\ Valid(e)}
Scheduling(actions, keys, events, sinks) ==
    [type: {"ScheduleCommand"}, action: actions, key: keys, definition: {None},
     event: events, sink_event: sinks]
ScheduleEdits == Scheduling({"add_or_modify"}, ExactKeys, GoodEvents, {None})
KeyEdits == Scheduling({"remove", "toggle", "sink_summon_remove"}, ExactKeys, {None}, {None})
Suggestions == Scheduling({"generate_suggested"}, {None}, {None}, {None})
SinkEdits == Scheduling({"sink_summon_add_or_modify"}, ExactKeys, {None}, ExactSinkEvents)
ExactSchedules == ScheduleEdits \cup KeyEdits \cup Suggestions \cup SinkEdits
ScheduleTarget(a) ==
    IF a \in {"add_or_modify", "remove", "toggle"} THEN "edit_schedule"
    ELSE IF a = "generate_suggested" THEN "generate_suggested_schedule"
    ELSE "edit_sink_summon_schedule"

\* Two events that are written alike ask for the same.
LEMMA NormalEventsAgree ==
    ASSUME NEW e \in ExactEvents, NEW f \in ExactEvents, AlikeEvents(e, f)
    PROVE  NormalEvent(e) = NormalEvent(f)
<1> DEFINE N(g) == [weekdays |-> DaysIn(g.weekdays), time |-> g.time, target |-> g.target,
                    partition_id |-> g.partition_id, cleaning_mode |-> g.cleaning_mode,
                    name |-> g.name, ordered |-> g.ordered,
                    vacuum_setting |-> IF g.cleaning_mode = "mop" THEN None ELSE g.vacuum_setting,
                    enabled_state |-> g.enabled_state]
<1>0. ASSUME NEW g \in ExactEvents PROVE NormalEvent(g) = N(g)
  <2>1. ASSUME NEW w, NEW v
        PROVE  [g EXCEPT !.weekdays = w, !.vacuum_setting = v]
                 = [weekdays |-> w, time |-> g.time, target |-> g.target,
                    partition_id |-> g.partition_id, cleaning_mode |-> g.cleaning_mode,
                    name |-> g.name, ordered |-> g.ordered, vacuum_setting |-> v,
                    enabled_state |-> g.enabled_state]
    <3> DEFINE h == [g EXCEPT !.weekdays = w]
    <3>1. h = [weekdays |-> w, time |-> g.time, target |-> g.target,
               partition_id |-> g.partition_id, cleaning_mode |-> g.cleaning_mode,
               name |-> g.name, ordered |-> g.ordered, vacuum_setting |-> g.vacuum_setting,
               enabled_state |-> g.enabled_state]
      <4>1. g = [weekdays |-> g.weekdays, time |-> g.time, target |-> g.target,
                 partition_id |-> g.partition_id, cleaning_mode |-> g.cleaning_mode,
                 name |-> g.name, ordered |-> g.ordered, vacuum_setting |-> g.vacuum_setting,
                 enabled_state |-> g.enabled_state]
        BY DEF ExactEvents
      <4> QED BY <4>1
    <3>2. [g EXCEPT !.weekdays = w, !.vacuum_setting = v] = [h EXCEPT !.vacuum_setting = v] OBVIOUS
    <3> HIDE DEF h
    <3> QED BY <3>1, <3>2
  <2> DEFINE w == DaysIn(g.weekdays)
             v == IF g.cleaning_mode = "mop" THEN None ELSE g.vacuum_setting
  <2>2. NormalEvent(g) = [g EXCEPT !.weekdays = w, !.vacuum_setting = v] BY DEF NormalEvent, DaysIn
  <2> HIDE DEF w, v
  <2>3. NormalEvent(g) = [weekdays |-> w, time |-> g.time, target |-> g.target,
                    partition_id |-> g.partition_id, cleaning_mode |-> g.cleaning_mode,
                    name |-> g.name, ordered |-> g.ordered, vacuum_setting |-> v,
                    enabled_state |-> g.enabled_state]
    BY <2>1, <2>2
  <2> QED BY <2>3 DEF w, v
<1>1. NormalEvent(e) = N(e) BY <1>0
<1>2. NormalEvent(f) = N(f) BY <1>0
<1>3. N(e) = N(f) BY DEF AlikeEvents
<1> QED BY <1>1, <1>2, <1>3

\* What a schedule command asks for is told by its normal event, when it has
\* one.
LEMMA ScheduleIntent ==
    ASSUME NEW c, c.type = "ScheduleCommand"
    PROVE  /\ Valid(c.event) => Intent(c) = [c EXCEPT !.event = NormalEvent(c.event)]
           /\ ~Valid(c.event) => Intent(c) = c
<1>1. c.type # "MapEnvironmentCommand" /\ c.type # "ReprioritizeCoverageCommand" OBVIOUS
<1> QED BY <1>1 DEF Intent

\* The payload of each schedule action.
LEMMA SchedulePayloads ==
    ASSUME NEW c
    PROVE  /\ c.action = "add_or_modify" =>
                 SchedulePayload(c) = Bytes(2, Cat(Bytes(1, ScheduleKey(c.key)), Bytes(2, EventFields(c.event))))
           /\ c.action = "remove" => SchedulePayload(c) = Bytes(3, ScheduleKey(c.key))
           /\ c.action = "toggle" => SchedulePayload(c) = Bytes(4, ScheduleKey(c.key))
           /\ c.action = "generate_suggested" => SchedulePayload(c) = <<>>
           /\ c.action = "sink_summon_add_or_modify" =>
                 SchedulePayload(c) =
                    Bytes(1, Cat(Bytes(1, SinkScheduleKey(c.key)), Bytes(2, SinkEventFields(c.sink_event))))
           /\ c.action = "sink_summon_remove" => SchedulePayload(c) = Bytes(2, SinkScheduleKey(c.key))
BY DEF SchedulePayload, Cat

\* Two fields, 1 and 2, inside another field.
Pair(n, a, b) == Bytes(n, Cat(Bytes(1, a), Bytes(2, b)))

\* A field that holds two fields tells both.
LEMMA PairTells ==
    ASSUME NEW n \in Nat, NEW a \in Words, NEW b \in Words, NEW x \in Words, NEW y \in Words
    PROVE  /\ Pair(n, a, b) \in Items(n)
           /\ Pair(n, a, b) = Pair(n, x, y) => a = x /\ b = y
<1> DEFINE A == Bytes(1, a)
           B == Bytes(2, b)
           X == Bytes(1, x)
           Y == Bytes(2, y)
<1>1. /\ A \in Items(1) /\ X \in Items(1) /\ (A = X => a = x)
      /\ B \in Words /\ Y \in Words /\ (B = Y => b = y)
  BY BytesField
<1>2. Pair(n, a, b) = Bytes(n, Cat(A, B)) /\ Pair(n, x, y) = Bytes(n, Cat(X, Y)) BY DEF Pair
<1> HIDE DEF A, B, X, Y
<1>3. Cat(A, B) \in Words /\ Cat(X, Y) \in Words /\ (Cat(A, B) = Cat(X, Y) => A = X /\ B = Y)
  BY ONLY <1>1, ItemThen, 1 \in Nat
<1> QED BY <1>1, <1>2, <1>3, BytesField

\* The payload of a schedule edit tells the action's key and event, as far
\* as they are asked for.
LEMMA SameSchedule ==
    ASSUME NEW c \in ScheduleEdits, NEW d \in ScheduleEdits, SchedulePayload(c) = SchedulePayload(d)
    PROVE  Intent(c) = Intent(d)
<1>1. /\ c.action = "add_or_modify" /\ d.action = "add_or_modify"
      /\ c.type = "ScheduleCommand" /\ d.type = "ScheduleCommand"
      /\ c.key \in ExactKeys /\ d.key \in ExactKeys /\ c.event \in GoodEvents /\ d.event \in GoodEvents
  BY DEF ScheduleEdits, Scheduling
<1> DEFINE a == ScheduleKey(c.key)
           x == ScheduleKey(d.key)
           b == EventFields(c.event)
           y == EventFields(d.event)
<1>2. a \in Words /\ x \in Words /\ (a = x => c.key = d.key) BY <1>1, KeysTell
<1>3. /\ c.event \in ExactEvents /\ d.event \in ExactEvents /\ Sweeps(c.event) /\ Sweeps(d.event)
      /\ Valid(c.event) /\ Valid(d.event)
  BY <1>1 DEF GoodEvents
<1>4. b \in Words /\ y \in Words /\ (b = y => AlikeEvents(c.event, d.event)) BY <1>3, EventsTell
<1>5. Pair(2, a, b) = Pair(2, x, y) BY <1>1, SchedulePayloads DEF Pair
<1> HIDE DEF a, x, b, y
<1>6. a = x /\ b = y BY ONLY <1>2, <1>4, <1>5, PairTells, 2 \in Nat
<1>7. c.key = d.key /\ NormalEvent(c.event) = NormalEvent(d.event)
  BY <1>2, <1>3, <1>4, <1>6, NormalEventsAgree
<1>8. Intent(c) = [c EXCEPT !.event = NormalEvent(c.event)] /\ Intent(d) = [d EXCEPT !.event = NormalEvent(d.event)]
  BY <1>1, <1>3, ScheduleIntent
<1> DEFINE v == NormalEvent(c.event)
<1>9. Intent(c) = [c EXCEPT !.event = v] /\ Intent(d) = [d EXCEPT !.event = v] BY <1>7, <1>8
<1> HIDE DEF v
<1>10. [c EXCEPT !.event = v] = [d EXCEPT !.event = v]
  <2>1. ASSUME NEW g \in ScheduleEdits
        PROVE  [g EXCEPT !.event = v] = [type |-> "ScheduleCommand", action |-> "add_or_modify",
                                         key |-> g.key, definition |-> None, event |-> v,
                                         sink_event |-> None]
    BY DEF ScheduleEdits, Scheduling
  <2> QED BY <1>7, <2>1
<1> QED BY <1>9, <1>10

\* The payload of a sink schedule edit tells the key and the event.
LEMMA SinksTell ==
    ASSUME NEW c \in SinkEdits, NEW d \in SinkEdits, SchedulePayload(c) = SchedulePayload(d)
    PROVE  c = d
<1>1. /\ c.action = "sink_summon_add_or_modify" /\ d.action = "sink_summon_add_or_modify"
      /\ c.key \in ExactKeys /\ d.key \in ExactKeys
      /\ c.sink_event \in ExactSinkEvents /\ d.sink_event \in ExactSinkEvents
  BY DEF SinkEdits, Scheduling
<1> DEFINE a == SinkScheduleKey(c.key)
           x == SinkScheduleKey(d.key)
           b == SinkEventFields(c.sink_event)
           y == SinkEventFields(d.sink_event)
<1>2. a \in Words /\ x \in Words /\ (a = x => c.key = d.key) BY <1>1, KeysTell
<1>3. b \in Words /\ y \in Words /\ (b = y => c.sink_event = d.sink_event) BY <1>1, SinkEventsTell
<1>4. Pair(1, a, b) = Pair(1, x, y) BY <1>1, SchedulePayloads DEF Pair
<1> HIDE DEF a, x, b, y
<1>5. a = x /\ b = y BY ONLY <1>2, <1>3, <1>4, PairTells, 1 \in Nat
<1> QED BY <1>2, <1>3, <1>5 DEF SinkEdits, Scheduling

\* The field each action begins with.
ScheduleField(a) ==
    CASE a = "add_or_modify" -> 2 [] a = "remove" -> 3 [] a = "toggle" -> 4
      [] a = "sink_summon_add_or_modify" -> 1 [] a = "sink_summon_remove" -> 2

\* The payload of a schedule action is a field, whose number is the
\* action's.
LEMMA ScheduleItem ==
    ASSUME NEW c \in ExactSchedules, c.action # "generate_suggested"
    PROVE  /\ SchedulePayload(c) \in Items(ScheduleField(c.action))
           /\ ScheduleField(c.action) \in Nat
<1>1. CASE c \in ScheduleEdits
  <2>1. c.action = "add_or_modify" /\ c.key \in ExactKeys /\ c.event \in GoodEvents
    BY <1>1 DEF ScheduleEdits, Scheduling
  <2>2. ScheduleKey(c.key) \in Words /\ EventFields(c.event) \in Words
    BY <2>1, KeysTell, EventsTell DEF GoodEvents
  <2>3. SchedulePayload(c) = Pair(2, ScheduleKey(c.key), EventFields(c.event))
    BY <2>1, SchedulePayloads DEF Pair
  <2>4. ScheduleField(c.action) = 2 BY <2>1 DEF ScheduleField
  <2> QED BY <2>2, <2>3, <2>4, PairTells
<1>2. CASE c \in KeyEdits
  <2>1. c.action \in {"remove", "toggle", "sink_summon_remove"} /\ c.key \in ExactKeys
    BY <1>2 DEF KeyEdits, Scheduling
  <2>2. ScheduleKey(c.key) \in Words /\ SinkScheduleKey(c.key) \in Words BY <2>1, KeysTell
  <2>3. /\ Bytes(3, ScheduleKey(c.key)) \in Items(3) /\ Bytes(4, ScheduleKey(c.key)) \in Items(4)
        /\ Bytes(2, SinkScheduleKey(c.key)) \in Items(2)
    BY <2>2, BytesField
  <2>4. CASE c.action = "remove"
    <3>1. ScheduleField(c.action) = 3 /\ SchedulePayload(c) = Bytes(3, ScheduleKey(c.key))
      BY <2>4, SchedulePayloads DEF ScheduleField
    <3> QED BY <2>3, <3>1
  <2>5. CASE c.action = "toggle"
    <3>1. ScheduleField(c.action) = 4 /\ SchedulePayload(c) = Bytes(4, ScheduleKey(c.key))
      BY <2>5, SchedulePayloads DEF ScheduleField
    <3> QED BY <2>3, <3>1
  <2>6. CASE c.action = "sink_summon_remove"
    <3>1. ScheduleField(c.action) = 2 /\ SchedulePayload(c) = Bytes(2, SinkScheduleKey(c.key))
      BY <2>6, SchedulePayloads DEF ScheduleField
    <3> QED BY <2>3, <3>1
  <2> QED BY <2>1, <2>4, <2>5, <2>6
<1>3. CASE c \in SinkEdits
  <2>1. /\ c.action = "sink_summon_add_or_modify" /\ c.key \in ExactKeys
        /\ c.sink_event \in ExactSinkEvents
    BY <1>3 DEF SinkEdits, Scheduling
  <2>2. SinkScheduleKey(c.key) \in Words /\ SinkEventFields(c.sink_event) \in Words
    BY <2>1, KeysTell, SinkEventsTell
  <2>3. SchedulePayload(c) = Pair(1, SinkScheduleKey(c.key), SinkEventFields(c.sink_event))
    BY <2>1, SchedulePayloads DEF Pair
  <2>4. ScheduleField(c.action) = 1 BY <2>1 DEF ScheduleField
  <2> QED BY <2>2, <2>3, <2>4, PairTells
<1>4. c \notin Suggestions BY DEF Suggestions, Scheduling
<1> QED BY <1>1, <1>2, <1>3, <1>4 DEF ExactSchedules

\* The payload of a schedule command tells the action among those of one
\* target.
LEMMA ScheduleActionsTell ==
    ASSUME NEW c \in ExactSchedules, NEW d \in ExactSchedules,
           ScheduleTarget(c.action) = ScheduleTarget(d.action), SchedulePayload(c) = SchedulePayload(d)
    PROVE  c.action = d.action
<1>1. c.action \in ScheduleActions /\ d.action \in ScheduleActions
  BY DEF ExactSchedules, ScheduleEdits, KeyEdits, Suggestions, SinkEdits, Scheduling, ScheduleActions
<1>2. CASE c.action = "generate_suggested" BY <1>1, <1>2 DEF ScheduleActions, ScheduleTarget
<1>3. CASE c.action # "generate_suggested"
  <2>1. d.action # "generate_suggested" BY <1>1, <1>3 DEF ScheduleActions, ScheduleTarget
  <2>2. ScheduleField(c.action) = ScheduleField(d.action)
    BY <1>3, <2>1, ScheduleItem, ItemsApart
  <2> QED BY <1>1, <1>3, <2>1, <2>2 DEF ScheduleActions, ScheduleTarget, ScheduleField
<1> QED BY <1>2, <1>3

\* Two schedule requests of one target that are alike ask for the same.
LEMMA ScheduleTells ==
    ASSUME NEW c \in ExactSchedules, NEW d \in ExactSchedules,
           ScheduleTarget(c.action) = ScheduleTarget(d.action), SchedulePayload(c) = SchedulePayload(d)
    PROVE  Intent(c) = Intent(d)
<1>1. c.action = d.action BY ScheduleActionsTell
<1>2. /\ c \in ScheduleEdits => c.action = "add_or_modify"
      /\ c \in KeyEdits => c.action \in {"remove", "toggle", "sink_summon_remove"}
      /\ c \in Suggestions => c.action = "generate_suggested"
      /\ c \in SinkEdits => c.action = "sink_summon_add_or_modify"
  BY DEF ScheduleEdits, KeyEdits, Suggestions, SinkEdits, Scheduling
<1>3. /\ d \in ScheduleEdits => d.action = "add_or_modify"
      /\ d \in KeyEdits => d.action \in {"remove", "toggle", "sink_summon_remove"}
      /\ d \in Suggestions => d.action = "generate_suggested"
      /\ d \in SinkEdits => d.action = "sink_summon_add_or_modify"
  BY DEF ScheduleEdits, KeyEdits, Suggestions, SinkEdits, Scheduling
<1>4. CASE c \in ScheduleEdits
  <2>1. d \in ScheduleEdits BY <1>1, <1>2, <1>3, <1>4 DEF ExactSchedules
  <2> QED BY <1>4, <2>1, SameSchedule
<1>5. CASE c \in SinkEdits
  <2>1. d \in SinkEdits BY <1>1, <1>2, <1>3, <1>5 DEF ExactSchedules
  <2>2. c = d BY <1>5, <2>1, SinksTell
  <2> QED BY <2>2
<1>6. CASE c \in Suggestions
  <2>1. d \in Suggestions BY <1>1, <1>2, <1>3, <1>6 DEF ExactSchedules
  <2>2. c = d BY <1>6, <2>1 DEF Suggestions, Scheduling
  <2> QED BY <2>2
<1>7. CASE c \in KeyEdits
  <2>1. d \in KeyEdits BY <1>1, <1>2, <1>3, <1>7 DEF ExactSchedules
  <2>2. c.key \in ExactKeys /\ d.key \in ExactKeys BY <1>7, <2>1 DEF KeyEdits, Scheduling
  <2>3. /\ ScheduleKey(c.key) \in Words /\ ScheduleKey(d.key) \in Words
        /\ SinkScheduleKey(c.key) \in Words /\ SinkScheduleKey(d.key) \in Words
    BY <2>2, KeysTell
  <2>4. ScheduleKey(c.key) = ScheduleKey(d.key) \/ SinkScheduleKey(c.key) = SinkScheduleKey(d.key)
    <3>1. CASE c.action = "remove"
      <4>1. Bytes(3, ScheduleKey(c.key)) = Bytes(3, ScheduleKey(d.key)) BY <1>1, <3>1, SchedulePayloads
      <4> QED BY <2>3, <4>1, BytesField
    <3>2. CASE c.action = "toggle"
      <4>1. Bytes(4, ScheduleKey(c.key)) = Bytes(4, ScheduleKey(d.key)) BY <1>1, <3>2, SchedulePayloads
      <4> QED BY <2>3, <4>1, BytesField
    <3>3. CASE c.action = "sink_summon_remove"
      <4>1. Bytes(2, SinkScheduleKey(c.key)) = Bytes(2, SinkScheduleKey(d.key)) BY <1>1, <3>3, SchedulePayloads
      <4> QED BY <2>3, <4>1, BytesField
    <3> QED BY <1>2, <1>7, <3>1, <3>2, <3>3
  <2>5. c.key = d.key BY <2>2, <2>4, KeysTell
  <2>6. c = d BY <1>1, <1>7, <2>1, <2>5 DEF KeyEdits, Scheduling
  <2> QED BY <2>6
<1> QED BY <1>4, <1>5, <1>6, <1>7 DEF ExactSchedules

------------------------------------------------------------------------------
\* Maps.

\* Two fields and what comes after them: items end by themselves.
LEMMA TwoItems ==
    ASSUME NEW n \in Nat, NEW m \in Nat, NEW a \in Items(n), NEW x \in Items(n),
           NEW b \in Items(m), NEW y \in Items(m), NEW r \in Words, NEW s \in Words
    PROVE  /\ Cat(Cat(a, b), r) \in Words
           /\ Cat(Cat(a, b), r) = Cat(Cat(x, y), s) => a = x /\ b = y /\ r = s
<1>1. a \in Words /\ x \in Words /\ b \in Words /\ y \in Words BY ItemWords
<1>2. /\ Cat(b, r) \in Words /\ Cat(y, s) \in Words
      /\ Cat(b, r) = Cat(y, s) => b = y /\ r = s
  BY ItemThen
<1>3. /\ Cat(Cat(a, b), r) = Cat(a, Cat(b, r)) /\ Cat(Cat(x, y), s) = Cat(x, Cat(y, s))
  BY <1>1, CatParts
<1> DEFINE p == Cat(b, r)
           q == Cat(y, s)
<1> HIDE DEF p, q
<1>4. p \in Words /\ q \in Words BY <1>2 DEF p, q
<1>5. Cat(a, p) \in Words /\ (Cat(a, p) = Cat(x, q) => a = x /\ p = q) BY <1>4, ItemThen
<1> QED BY <1>2, <1>3, <1>5 DEF p, q

\* What is the same of every map request.
MapShape(actions, missions, sets, partitions, changes, overwrites, names) ==
    [type: {"MapEnvironmentCommand"}, action: actions, mission_id: missions,
     change_set: sets, partition_id: partitions, change: changes,
     overwrite: overwrites, name: names]

\* The payload and the checks of each map action, by the arm of the codec
\* that is its own.
LEMMA MapPayloads ==
    ASSUME NEW c
    PROVE  /\ c.action = "build_partition" =>
                 MapPayload(c) = BuildPartitionPayload(c) /\ MapAccepts(c) = BuildPartitionAccepts(c)
           /\ c.action = "edit_rooms" =>
                 MapPayload(c) = EditRoomsPayload(c) /\ MapAccepts(c) = EditRoomsAccepts(c)
           /\ c.action \in Zones =>
                 MapPayload(c) = ZoneEditPayload(c) /\ MapAccepts(c) = ZoneEditAccepts(c)
           /\ c.action = "edit_semantics_override" =>
                 MapPayload(c) = SemanticsOverridePayload(c)
                 /\ MapAccepts(c) = SemanticsOverrideAccepts(c)
           /\ c.action = "edit_sink_summon_location" =>
                 MapPayload(c) = SinkSummonLocationPayload(c)
                 /\ MapAccepts(c) = SinkSummonLocationAccepts(c)
           /\ c.action \in {"canonicalize", "rename"} =>
                 MapPayload(c) = FloorPayload(c) /\ MapAccepts(c) = FloorAccepts(c)
           /\ c.action = "clear_rgb_weights" =>
                 MapPayload(c) = <<>> /\ MapAccepts(c) = (NoExtra(c, {}) /\ c.mission_id = None)
           /\ c.action \in {"persistence_clear", "clear_map", "restore_map", "upload_map_for_debug"} =>
                 MapPayload(c) = PersistencePayload(c) /\ MapAccepts(c) = PersistenceAccepts(c)
BY DEF MapPayload, MapAccepts, Zones

ExactBuild ==
    MapShape({"build_partition"}, Nat, {NoChangeSet}, {None}, {None}, Bools, {None})
BuiltOver(c) == When(c.overwrite = "True", Varint(2, 1))

\* _VerifiedBuildPartitionCodec.encode tells the mission and whether to
\* overwrite.
LEMMA BuildTells ==
    ASSUME NEW c \in ExactBuild, NEW d \in ExactBuild,
           BuildPartitionPayload(c) = BuildPartitionPayload(d)
    PROVE  c = d
<1> DEFINE M(e) == Bytes(1, MissionId(e.mission_id))
           K == Bytes(2, Bytes(1, GeneratedUuid(Fresh(1))))
           O(e) == Cat(Bytes(1, Empty(1)), BuiltOver(e))
           R(e) == Bytes(3, O(e))
<1>1. /\ c.mission_id \in Int /\ d.mission_id \in Int /\ c.overwrite \in Bools /\ d.overwrite \in Bools
  BY DEF ExactBuild, MapShape
<1>2. M(c) \in Items(1) /\ M(d) \in Items(1) /\ (M(c) = M(d) => c.mission_id = d.mission_id)
  BY <1>1, MissionField
<1>3. K \in Items(2)
  <2>1. GeneratedUuid(Fresh(1)) \in Words BY FreshIds, GeneratedTells
  <2> QED BY <2>1, TwoDeep
<1>4. /\ BuiltOver(c) \in Words /\ BuiltOver(d) \in Words
      /\ BuiltOver(c) = BuiltOver(d) => (c.overwrite = "True" <=> d.overwrite = "True")
  <2>1. Varint(2, 1) \in Items(2) BY VarintField
  <2> DEFINE V == Varint(2, 1)
             p == c.overwrite = "True"
             q == d.overwrite = "True"
  <2>3. BuiltOver(c) = When(p, V) /\ BuiltOver(d) = When(q, V) BY DEF BuiltOver
  <2>4. p \in BOOLEAN /\ q \in BOOLEAN OBVIOUS
  <2>5. V \in Items(2) BY <2>1
  <2> HIDE DEF V, p, q
  <2>6. /\ When(p, V) \in Parts(2) /\ When(q, V) \in Parts(2)
        /\ When(p, V) = When(q, V) => p = q
    BY ONLY <2>4, <2>5, WhenTells, 2 \in Nat
  <2>2. /\ BuiltOver(c) \in Parts(2) /\ BuiltOver(d) \in Parts(2)
        /\ BuiltOver(c) = BuiltOver(d) => (c.overwrite = "True" <=> d.overwrite = "True")
    BY <2>3, <2>6 DEF p, q
  <2> QED BY <2>2, ItemWords
<1>5. /\ O(c) \in Words /\ O(d) \in Words /\ (O(c) = O(d) => BuiltOver(c) = BuiltOver(d))
  <2>1. Bytes(1, Empty(1)) \in Items(1) BY EmptyField, BytesField
  <2> QED BY <1>4, <2>1, ItemThen
<1>6. R(c) \in Words /\ R(d) \in Words /\ (R(c) = R(d) => O(c) = O(d))
  BY <1>5, BytesField
<1>7. /\ BuildPartitionPayload(c) = Cat(Cat(M(c), K), R(c))
      /\ BuildPartitionPayload(d) = Cat(Cat(M(d), K), R(d))
  BY DEF BuildPartitionPayload, Cat, BuiltOver
<1> HIDE DEF M, K, R, O
<1>8. M(c) = M(d) /\ R(c) = R(d)
  <2>1. Cat(Cat(M(c), K), R(c)) = Cat(Cat(M(d), K), R(d)) BY <1>7
  <2> QED BY ONLY <1>2, <1>3, <1>6, <2>1, TwoItems, 1 \in Nat, 2 \in Nat
<1>9. c.mission_id = d.mission_id /\ c.overwrite = d.overwrite
  BY <1>1, <1>2, <1>4, <1>5, <1>6, <1>8 DEF Bools
<1> QED BY <1>9 DEF ExactBuild, MapShape

\* Rooms.
ExactLabels == [enum: RoomLabels] \cup [text: Spoken]
LabelNumber(v) == [bathroom |-> 0, bedroom |-> 1, dining_room |-> 2,
                   living_room |-> 3, kitchen |-> 4, hallway |-> 5][v]

\* A room's label tells its form and its text.
LEMMA LabelsTell ==
    ASSUME NEW l \in ExactLabels, NEW m \in ExactLabels
    PROVE  RoomLabelFields(l) \in Words /\ (RoomLabelFields(l) = RoomLabelFields(m) => l = m)
<1> DEFINE A(e) == Varint(1, LabelNumber(e.enum))
           B(e) == Bytes(2, e.text)
<1>1. ASSUME NEW e \in [enum: RoomLabels] PROVE RoomLabelFields(e) = A(e)
  <2>1. DOMAIN e = {"enum"} OBVIOUS
  <2> QED BY <2>1 DEF RoomLabelFields, LabelNumber
<1>2. ASSUME NEW e \in [text: Spoken] PROVE RoomLabelFields(e) = B(e)
  <2>1. DOMAIN e = {"text"} OBVIOUS
  <2>2. "enum" \notin DOMAIN e BY <2>1
  <2>3. DOMAIN e # {"enum"} BY <2>2
  <2> QED BY <2>3 DEF RoomLabelFields
<1>3. \A v \in RoomLabels : LabelNumber(v) \in Nat BY DEF LabelNumber, RoomLabels
<1>4. \A v, w \in RoomLabels : LabelNumber(v) = LabelNumber(w) => v = w BY DEF LabelNumber, RoomLabels
<1>5. ASSUME NEW e \in [enum: RoomLabels], NEW f \in [enum: RoomLabels]
      PROVE  A(e) \in Items(1) /\ (A(e) = A(f) => e = f)
  <2>1. e.enum \in RoomLabels /\ f.enum \in RoomLabels OBVIOUS
  <2>2. LabelNumber(e.enum) \in Nat /\ LabelNumber(f.enum) \in Nat BY <1>3, <2>1
  <2>3. A(e) \in Items(1) /\ (A(e) = A(f) => LabelNumber(e.enum) = LabelNumber(f.enum))
    BY <2>2, VarintField
  <2>4. e.enum = f.enum => e = f OBVIOUS
  <2> QED BY <1>4, <2>1, <2>3, <2>4
<1>6. ASSUME NEW e \in [text: Spoken], NEW f \in [text: Spoken]
      PROVE  B(e) \in Items(2) /\ (B(e) = B(f) => e = f)
  <2>1. e.text \in Words /\ f.text \in Words BY TextsAreWords DEF Spoken
  <2>2. B(e) \in Items(2) /\ (B(e) = B(f) => e.text = f.text) BY <2>1, BytesField
  <2> QED BY <2>2
<1>7. ASSUME NEW x \in Items(1), NEW y \in Items(2) PROVE x # y BY FieldsApart
<1> HIDE DEF A, B
<1>8. CASE l \in [enum: RoomLabels] /\ m \in [enum: RoomLabels] BY <1>1, <1>5, <1>8, ItemWords
<1>9. CASE l \in [text: Spoken] /\ m \in [text: Spoken] BY <1>2, <1>6, <1>9, ItemWords
<1>10. CASE l \in [enum: RoomLabels] /\ m \in [text: Spoken]
  BY <1>1, <1>2, <1>5, <1>6, <1>7, <1>10, ItemWords
<1>11. CASE l \in [text: Spoken] /\ m \in [enum: RoomLabels]
  BY <1>1, <1>2, <1>5, <1>6, <1>7, <1>11, ItemWords
<1> QED BY <1>8, <1>9, <1>10, <1>11 DEF ExactLabels

Spots == [x_meters: Int, y_meters: Int]
ExactRenames == [edit: {"RenameRoom"}, region_id: Halves, label: ExactLabels]
ExactMerges ==
    [edit: {"MergeRooms"}, first_region_id: Halves, second_region_id: Halves, label: ExactLabels]
ExactSplits == [edit: {"SplitRoom"}, region_id: Halves, start: Spots, end: Spots]
ExactRoomEdits == ExactRenames \cup ExactMerges \cup ExactSplits
RenameField(e) ==
    Bytes(5, Cat(Bytes(1, FfiRegion(e.region_id)), Bytes(2, RoomLabelFields(e.label))))
MergeBody(first, second, label) ==
    Cat(Cat(Cat(Cat(Bytes(1, first), Bytes(2, second)), Bytes(3, label)), Bytes(4, first)),
        Bytes(4, second))
MergeField(e) ==
    Bytes(6, MergeBody(FfiRegion(e.first_region_id), FfiRegion(e.second_region_id),
                       RoomLabelFields(e.label)))
SplitField(e) ==
    Bytes(7, Cat(Bytes(1, FfiRegion(e.region_id)),
                 Bytes(2, Cat(Bytes(1, Point(e.start)), Bytes(2, Point(e.end))))))

\* Two fields tell both their values.
LEMMA FieldPairTells ==
    ASSUME NEW n \in Nat, NEW m \in Nat, NEW a \in Words, NEW b \in Words,
           NEW x \in Words, NEW y \in Words
    PROVE  /\ Cat(Bytes(n, a), Bytes(m, b)) \in Words
           /\ Cat(Bytes(n, a), Bytes(m, b)) = Cat(Bytes(n, x), Bytes(m, y)) => a = x /\ b = y
<1> DEFINE A == Bytes(n, a)
           B == Bytes(m, b)
           X == Bytes(n, x)
           Y == Bytes(m, y)
<1>1. A \in Items(n) /\ X \in Items(n) /\ (A = X => a = x) BY BytesField
<1>2. B \in Words /\ Y \in Words /\ (B = Y => b = y) BY BytesField
<1> HIDE DEF A, B, X, Y
<1>3. Cat(A, B) \in Words /\ (Cat(A, B) = Cat(X, Y) => A = X /\ B = Y)
  BY ONLY <1>1, <1>2, ItemThen, n \in Nat
<1> QED BY <1>1, <1>2, <1>3 DEF A, B, X, Y

\* A region of a room edit is written, and tells its identifier.
LEMMA RegionWords ==
    ASSUME NEW u \in Halves, NEW v \in Halves
    PROVE  FfiRegion(u) \in Words /\ (FfiRegion(u) = FfiRegion(v) => u = v)
BY FfiFieldsTell, ItemWords

\* The edit that renames a room is told.
LEMMA RenamesTell ==
    ASSUME NEW e \in ExactRenames, NEW f \in ExactRenames
    PROVE  RenameField(e) \in Items(5) /\ (RenameField(e) = RenameField(f) => e = f)
<1> DEFINE R(g) == FfiRegion(g.region_id)
           L(g) == RoomLabelFields(g.label)
           B(g) == Cat(Bytes(1, R(g)), Bytes(2, L(g)))
<1>1. e.region_id \in Halves /\ f.region_id \in Halves /\ e.label \in ExactLabels /\ f.label \in ExactLabels
  BY DEF ExactRenames
<1>2. R(e) \in Words /\ R(f) \in Words /\ (R(e) = R(f) => e.region_id = f.region_id)
  BY <1>1, RegionWords
<1>3. L(e) \in Words /\ L(f) \in Words /\ (L(e) = L(f) => e.label = f.label) BY <1>1, LabelsTell
<1> HIDE DEF R, L
<1>4. B(e) \in Words /\ B(f) \in Words /\ (B(e) = B(f) => R(e) = R(f) /\ L(e) = L(f))
  BY <1>2, <1>3, FieldPairTells
<1>5. RenameField(e) = Bytes(5, B(e)) /\ RenameField(f) = Bytes(5, B(f)) BY DEF RenameField, R, L
<1> HIDE DEF B
<1>6. RenameField(e) \in Items(5) /\ (RenameField(e) = RenameField(f) => B(e) = B(f))
  BY <1>4, <1>5, BytesField
<1>7. e.region_id = f.region_id /\ e.label = f.label => e = f BY DEF ExactRenames
<1> QED BY <1>2, <1>3, <1>4, <1>6, <1>7

\* Five words one after the other, grouped as the merge groups them.
LEMMA FiveWords ==
    ASSUME NEW A \in Words, NEW B \in Words, NEW C \in Words, NEW D \in Words, NEW E \in Words
    PROVE  Cat(Cat(Cat(Cat(A, B), C), D), E) = Cat(Cat(A, B), Cat(C, Cat(D, E)))
<1>1. Cat(A, B) \in Words /\ Cat(D, E) \in Words BY CatParts
<1> DEFINE p == Cat(A, B)
<1> HIDE DEF p
<1>2. p \in Words BY <1>1 DEF p
<1>3. Cat(p, C) \in Words BY <1>2, CatParts
<1>4. Cat(Cat(Cat(p, C), D), E) = Cat(Cat(p, C), Cat(D, E)) BY <1>3, CatParts
<1>5. Cat(Cat(p, C), Cat(D, E)) = Cat(p, Cat(C, Cat(D, E))) BY <1>1, <1>2, CatParts
<1> QED BY <1>4, <1>5 DEF p

\* The body of a merge tells the two regions and the label.
LEMMA MergeBodyTells ==
    ASSUME NEW a \in Words, NEW b \in Words, NEW l \in Words,
           NEW x \in Words, NEW y \in Words, NEW m \in Words
    PROVE  /\ MergeBody(a, b, l) \in Words
           /\ MergeBody(a, b, l) = MergeBody(x, y, m) => a = x /\ b = y /\ l = m
<1> DEFINE A(g) == Bytes(1, g)
           B(g) == Bytes(2, g)
           C(g) == Bytes(3, g)
           D(g) == Bytes(4, g)
           T(g, h) == Cat(D(g), D(h))
           R(g, h, k) == Cat(C(k), T(g, h))
<1>2. /\ A(a) \in Items(1) /\ A(x) \in Items(1) /\ (A(a) = A(x) => a = x)
      /\ A(a) \in Words /\ A(x) \in Words
  BY BytesField
<1>3. /\ B(b) \in Items(2) /\ B(y) \in Items(2) /\ (B(b) = B(y) => b = y)
      /\ B(b) \in Words /\ B(y) \in Words
  BY BytesField
<1>4. /\ C(l) \in Items(3) /\ C(m) \in Items(3) /\ (C(l) = C(m) => l = m)
      /\ C(l) \in Words /\ C(m) \in Words
  BY BytesField
<1>5. D(a) \in Words /\ D(b) \in Words /\ D(x) \in Words /\ D(y) \in Words BY BytesField
<1>6. /\ MergeBody(a, b, l) = Cat(Cat(Cat(Cat(A(a), B(b)), C(l)), D(a)), D(b))
      /\ MergeBody(x, y, m) = Cat(Cat(Cat(Cat(A(x), B(y)), C(m)), D(x)), D(y))
  BY DEF MergeBody
<1> HIDE DEF A, B, C, D
<1>7. /\ MergeBody(a, b, l) = Cat(Cat(A(a), B(b)), R(a, b, l))
      /\ MergeBody(x, y, m) = Cat(Cat(A(x), B(y)), R(x, y, m))
  <2>1. Cat(Cat(Cat(Cat(A(a), B(b)), C(l)), D(a)), D(b)) = Cat(Cat(A(a), B(b)), Cat(C(l), Cat(D(a), D(b))))
    <3>1. A(a) \in Words /\ B(b) \in Words /\ C(l) \in Words /\ D(a) \in Words /\ D(b) \in Words
      BY <1>2, <1>3, <1>4, <1>5
    <3> QED BY ONLY <3>1, FiveWords
  <2>2. Cat(Cat(Cat(Cat(A(x), B(y)), C(m)), D(x)), D(y)) = Cat(Cat(A(x), B(y)), Cat(C(m), Cat(D(x), D(y))))
    <3>1. A(x) \in Words /\ B(y) \in Words /\ C(m) \in Words /\ D(x) \in Words /\ D(y) \in Words
      BY <1>2, <1>3, <1>4, <1>5
    <3> QED BY ONLY <3>1, FiveWords
  <2> QED BY <1>6, <2>1, <2>2
<1>8. T(a, b) \in Words /\ T(x, y) \in Words BY <1>5, CatParts
<1> HIDE DEF T
<1>9. R(a, b, l) \in Words /\ R(x, y, m) \in Words
      /\ (R(a, b, l) = R(x, y, m) => C(l) = C(m))
  BY <1>4, <1>8, ItemThen
<1> HIDE DEF R
<1>10. /\ Cat(Cat(A(a), B(b)), R(a, b, l)) \in Words
       /\ Cat(Cat(A(a), B(b)), R(a, b, l)) = Cat(Cat(A(x), B(y)), R(x, y, m)) =>
             A(a) = A(x) /\ B(b) = B(y) /\ R(a, b, l) = R(x, y, m)
  BY ONLY <1>2, <1>3, <1>9, TwoItems, 1 \in Nat, 2 \in Nat
<1> QED BY <1>2, <1>3, <1>4, <1>7, <1>9, <1>10

\* The edit that merges two rooms is told, its order included.
LEMMA MergesTell ==
    ASSUME NEW e \in ExactMerges, NEW f \in ExactMerges
    PROVE  MergeField(e) \in Items(6) /\ (MergeField(e) = MergeField(f) => e = f)
<1> DEFINE R(g) == FfiRegion(g.first_region_id)
           S(g) == FfiRegion(g.second_region_id)
           L(g) == RoomLabelFields(g.label)
           B(g) == MergeBody(R(g), S(g), L(g))
<1>1. /\ e.first_region_id \in Halves /\ f.first_region_id \in Halves
      /\ e.second_region_id \in Halves /\ f.second_region_id \in Halves
      /\ e.label \in ExactLabels /\ f.label \in ExactLabels
  BY DEF ExactMerges
<1>2. R(e) \in Words /\ R(f) \in Words /\ (R(e) = R(f) => e.first_region_id = f.first_region_id)
  BY <1>1, RegionWords
<1>3. S(e) \in Words /\ S(f) \in Words /\ (S(e) = S(f) => e.second_region_id = f.second_region_id)
  BY <1>1, RegionWords
<1>4. L(e) \in Words /\ L(f) \in Words /\ (L(e) = L(f) => e.label = f.label) BY <1>1, LabelsTell
<1> HIDE DEF R, S, L
<1>5. B(e) \in Words /\ B(f) \in Words
      /\ (B(e) = B(f) => R(e) = R(f) /\ S(e) = S(f) /\ L(e) = L(f))
  BY <1>2, <1>3, <1>4, MergeBodyTells
<1>6. MergeField(e) = Bytes(6, B(e)) /\ MergeField(f) = Bytes(6, B(f)) BY DEF MergeField, R, S, L
<1> HIDE DEF B
<1>7. MergeField(e) \in Items(6) /\ (MergeField(e) = MergeField(f) => B(e) = B(f))
  BY <1>5, <1>6, BytesField
<1>8. e.first_region_id = f.first_region_id /\ e.second_region_id = f.second_region_id
      /\ e.label = f.label => e = f
  BY DEF ExactMerges
<1> QED BY <1>2, <1>3, <1>4, <1>5, <1>7, <1>8

\* The edit that splits a room is told: the room, the line and the two
\* labels.
LEMMA SplitsTell ==
    ASSUME NEW e \in ExactSplits, NEW f \in ExactSplits
    PROVE  SplitField(e) \in Items(7) /\ (SplitField(e) = SplitField(f) => e = f)
<1> DEFINE R(g) == FfiRegion(g.region_id)
           P(g) == Point(g.start)
           Q(g) == Point(g.end)
           W(g) == Cat(Bytes(1, P(g)), Bytes(2, Q(g)))
           B(g) == Cat(Bytes(1, R(g)), Bytes(2, W(g)))
<1>1. /\ e.region_id \in Halves /\ f.region_id \in Halves
      /\ e.start \in Spots /\ f.start \in Spots /\ e.end \in Spots /\ f.end \in Spots
  BY DEF ExactSplits
<1>2. R(e) \in Words /\ R(f) \in Words /\ (R(e) = R(f) => e.region_id = f.region_id)
  BY <1>1, RegionWords
<1>3. ASSUME NEW p \in Spots, NEW q \in Spots
      PROVE  Point(p) \in Words /\ (Point(p) = Point(q) => p = q)
  <2>1. Placed(p) /\ Placed(q) BY DEF Placed, Spots
  <2>2. p.x_meters = q.x_meters /\ p.y_meters = q.y_meters => p = q BY DEF Spots
  <2> QED BY <2>1, <2>2, PointTells
<1>4. /\ P(e) \in Words /\ P(f) \in Words /\ (P(e) = P(f) => e.start = f.start)
      /\ Q(e) \in Words /\ Q(f) \in Words /\ (Q(e) = Q(f) => e.end = f.end)
  BY <1>1, <1>3
<1> HIDE DEF R, P, Q
<1>5. W(e) \in Words /\ W(f) \in Words /\ (W(e) = W(f) => P(e) = P(f) /\ Q(e) = Q(f))
  BY <1>4, FieldPairTells
<1> HIDE DEF W
<1>6. B(e) \in Words /\ B(f) \in Words /\ (B(e) = B(f) => R(e) = R(f) /\ W(e) = W(f))
  BY <1>2, <1>5, FieldPairTells
<1>7. SplitField(e) = Bytes(7, B(e)) /\ SplitField(f) = Bytes(7, B(f))
  BY DEF SplitField, R, P, Q, W
<1> HIDE DEF B
<1>8. SplitField(e) \in Items(7) /\ (SplitField(e) = SplitField(f) => B(e) = B(f))
  BY <1>6, <1>7, BytesField
<1>9. e.region_id = f.region_id /\ e.start = f.start /\ e.end = f.end => e = f BY DEF ExactSplits
<1> QED BY <1>2, <1>4, <1>5, <1>6, <1>8, <1>9

\* One edit of the rooms.
RoomEditField(e) ==
    IF e.edit = "RenameRoom" THEN RenameField(e)
    ELSE IF e.edit = "MergeRooms" THEN MergeField(e) ELSE SplitField(e)

\* A room edit tells its kind and its arguments.
LEMMA RoomEditsTell ==
    ASSUME NEW e \in ExactRoomEdits, NEW f \in ExactRoomEdits
    PROVE  RoomEditField(e) \in Words /\ (RoomEditField(e) = RoomEditField(f) => e = f)
<1>1. ASSUME NEW g \in ExactRoomEdits
      PROVE  /\ g \in ExactRenames => RoomEditField(g) = RenameField(g)
             /\ g \in ExactMerges => RoomEditField(g) = MergeField(g)
             /\ g \in ExactSplits => RoomEditField(g) = SplitField(g)
  BY DEF RoomEditField, ExactRenames, ExactMerges, ExactSplits
<1>2. ASSUME NEW x, NEW y,
             \/ x \in Items(5) /\ y \in Items(6)
             \/ x \in Items(5) /\ y \in Items(7)
             \/ x \in Items(6) /\ y \in Items(5)
             \/ x \in Items(6) /\ y \in Items(7)
             \/ x \in Items(7) /\ y \in Items(5)
             \/ x \in Items(7) /\ y \in Items(6)
      PROVE  x # y
  BY <1>2, FieldsApart
<1>3. ASSUME NEW g \in ExactRoomEdits
      PROVE  /\ g \in ExactRenames => RoomEditField(g) \in Items(5)
             /\ g \in ExactMerges => RoomEditField(g) \in Items(6)
             /\ g \in ExactSplits => RoomEditField(g) \in Items(7)
  BY <1>1, RenamesTell, MergesTell, SplitsTell
<1>4. RoomEditField(e) \in Words BY <1>3, ItemWords DEF ExactRoomEdits
<1>5. CASE e \in ExactRenames /\ f \in ExactRenames BY <1>1, <1>4, <1>5, RenamesTell
<1>6. CASE e \in ExactMerges /\ f \in ExactMerges BY <1>1, <1>4, <1>6, MergesTell
<1>7. CASE e \in ExactSplits /\ f \in ExactSplits BY <1>1, <1>4, <1>7, SplitsTell
<1>8. ASSUME NEW g \in ExactRoomEdits
      PROVE  g \in ExactRenames \/ g \in ExactMerges \/ g \in ExactSplits
  BY DEF ExactRoomEdits
<1>9. ASSUME NEW g \in ExactRenames, NEW h \in ExactMerges PROVE RoomEditField(g) # RoomEditField(h)
  <2>1. RoomEditField(g) \in Items(5) /\ RoomEditField(h) \in Items(6)
    BY <1>3 DEF ExactRoomEdits
  <2> QED BY <2>1, FieldsApart
<1>10. ASSUME NEW g \in ExactRenames, NEW h \in ExactSplits PROVE RoomEditField(g) # RoomEditField(h)
  <2>1. RoomEditField(g) \in Items(5) /\ RoomEditField(h) \in Items(7)
    BY <1>3 DEF ExactRoomEdits
  <2> QED BY <2>1, <1>2
<1>11. ASSUME NEW g \in ExactMerges, NEW h \in ExactSplits PROVE RoomEditField(g) # RoomEditField(h)
  <2>1. RoomEditField(g) \in Items(6) /\ RoomEditField(h) \in Items(7)
    BY <1>3 DEF ExactRoomEdits
  <2> QED BY <2>1, <1>2
<1> QED BY <1>4, <1>5, <1>6, <1>7, <1>8, <1>9, <1>10, <1>11

ExactRooms ==
    MapShape({"edit_rooms"}, Nat, {NoChangeSet}, Halves, ExactRoomEdits, {None}, {None})

\* _VerifiedEditRoomsCodec.encode tells the mission, the partition and the
\* edit.
LEMMA RoomRequestsTell ==
    ASSUME NEW c \in ExactRooms, NEW d \in ExactRooms, EditRoomsPayload(c) = EditRoomsPayload(d)
    PROVE  c = d
<1> DEFINE M(g) == Bytes(1, MissionId(g.mission_id))
           P(g) == Bytes(4, FfiPartition(g.partition_id))
           R(g) == RoomEditField(g.change)
<1>1. /\ c.mission_id \in Int /\ d.mission_id \in Int
      /\ c.partition_id \in Halves /\ d.partition_id \in Halves
      /\ c.change \in ExactRoomEdits /\ d.change \in ExactRoomEdits
  BY DEF ExactRooms, MapShape
<1>2. M(c) \in Items(1) /\ M(d) \in Items(1) /\ (M(c) = M(d) => c.mission_id = d.mission_id)
  BY <1>1, MissionField
<1>3. P(c) \in Items(4) /\ P(d) \in Items(4) /\ (P(c) = P(d) => c.partition_id = d.partition_id)
  <2>1. /\ FfiPartition(c.partition_id) \in Words /\ FfiPartition(d.partition_id) \in Words
        /\ FfiPartition(c.partition_id) = FfiPartition(d.partition_id) =>
              c.partition_id = d.partition_id
    BY <1>1, FfiFieldsTell, ItemWords
  <2> QED BY <2>1, BytesField
<1>4. R(c) \in Words /\ R(d) \in Words /\ (R(c) = R(d) => c.change = d.change)
  BY <1>1, RoomEditsTell
<1>5. ASSUME NEW g \in ExactRooms PROVE EditRoomsPayload(g) = Cat(Cat(M(g), P(g)), R(g))
  <2>1. g.change \in ExactRoomEdits BY DEF ExactRooms, MapShape
  <2>2. CASE g.change \in ExactRenames
    <3>1. g.change.edit = "RenameRoom" BY <2>2 DEF ExactRenames
    <3>2. RoomEditField(g.change) = RenameField(g.change) BY <3>1 DEF RoomEditField
    <3> QED BY <3>1, <3>2 DEF EditRoomsPayload, RenameField, Cat
  <2>3. CASE g.change \in ExactMerges
    <3>1. g.change.edit = "MergeRooms" BY <2>3 DEF ExactMerges
    <3>2. RoomEditField(g.change) = MergeField(g.change) BY <3>1 DEF RoomEditField
    <3> QED BY <3>1, <3>2 DEF EditRoomsPayload, MergeField, MergeBody, Cat
  <2>4. CASE g.change \in ExactSplits
    <3>1. g.change.edit = "SplitRoom" BY <2>4 DEF ExactSplits
    <3>2. RoomEditField(g.change) = SplitField(g.change) BY <3>1 DEF RoomEditField
    <3> QED BY <3>1, <3>2 DEF EditRoomsPayload, SplitField, Cat
  <2> QED BY <2>1, <2>2, <2>3, <2>4 DEF ExactRoomEdits
<1>6. EditRoomsPayload(c) = Cat(Cat(M(c), P(c)), R(c)) /\ EditRoomsPayload(d) = Cat(Cat(M(d), P(d)), R(d))
  BY <1>5
<1> HIDE DEF M, P, R
<1>7. M(c) = M(d) /\ P(c) = P(d) /\ R(c) = R(d)
  <2>1. Cat(Cat(M(c), P(c)), R(c)) = Cat(Cat(M(d), P(d)), R(d)) BY <1>6
  <2> QED BY ONLY <1>2, <1>3, <1>4, <2>1, TwoItems, 1 \in Nat, 4 \in Nat
<1> QED BY <1>2, <1>3, <1>4, <1>7 DEF ExactRooms, MapShape

\* Zones.
Numerals == {Number(v) : v \in Nat}

\* A packed list of varints is read back one by one.
LEMMA NumeralsTell == Telling(Numerals)
<1>1. \A v \in Nat : Number(v) \in Words BY WordsOfVarint DEF Number
<1>2. Numerals \subseteq Words BY <1>1 DEF Numerals
<1>3. <<>> \notin Numerals
  <2>1. SUFFICES ASSUME NEW v \in Nat, Number(v) = <<>> PROVE FALSE BY DEF Numerals
  <2>2. Cat(Number(v), Number(0)) = Cat(Number(0), <<>>) /\ Cat(Number(v), Number(1)) = Cat(Number(1), <<>>)
    BY <1>1, <2>1, CatParts
  <2>3. v = 0 /\ v = 1 BY <1>1, <2>2, CatNumber, CatParts, WordsEmpty
  <2> QED BY <2>3
<1>4. ASSUME NEW x \in Numerals, NEW y \in Numerals, NEW r \in Words, NEW s \in Words,
             Cat(x, r) = Cat(y, s)
      PROVE  x = y /\ r = s
  <2>1. PICK a \in Nat : x = Number(a) BY DEF Numerals
  <2>2. PICK b \in Nat : y = Number(b) BY DEF Numerals
  <2>3. a = b /\ r = s BY <1>4, <2>1, <2>2, CatNumber
  <2> QED BY <2>1, <2>2, <2>3
<1> QED BY <1>2, <1>3, <1>4 DEF Telling
Packed(zs) == [i \in DOMAIN zs |-> EncodeVarint[CompactZone(zs[i])]]
Compacted(zs) == [i \in DOMAIN zs |-> CompactZone(zs[i])]
ExactZoneIds == [int: Nat] \cup {z \in [uuid: Halves] : IsZone(z)}

\* _compact_zone_region_id gives a natural number.
LEMMA CompactZones ==
    ASSUME NEW z \in ExactZoneIds
    PROVE  CompactZone(z) \in Nat
<1>1. CASE z \in [int: Nat]
  <2>1. DOMAIN z = {"int"} /\ z.int \in Nat BY <1>1
  <2> QED BY <2>1 DEF CompactZone
<1>2. CASE z \in [uuid: Halves]
  <2>1. DOMAIN z = {"uuid"} /\ z.uuid \in Halves BY <1>2
  <2>2. "int" \notin DOMAIN z BY <2>1
  <2>3. DOMAIN z # {"int"} /\ z.uuid[2] \in Nat BY <2>1, <2>2 DEF Halves
  <2> QED BY <2>3 DEF CompactZone
<1> QED BY <1>1, <1>2 DEF ExactZoneIds

\* The packed identifiers of the zones to remove tell their compact forms
\* and their order.
LEMMA PackedTells ==
    ASSUME NEW s \in Seq(ExactZoneIds), NEW t \in Seq(ExactZoneIds)
    PROVE  /\ FlattenSeq(Packed(s)) \in Words
           /\ FlattenSeq(Packed(s)) = FlattenSeq(Packed(t)) => Compacted(s) = Compacted(t)
<1>1. ASSUME NEW z \in Seq(ExactZoneIds)
      PROVE  /\ Len(z) \in Nat /\ DOMAIN z = 1..Len(z)
             /\ \A i \in 1..Len(z) : z[i] \in ExactZoneIds
             /\ \A i \in 1..Len(z) : CompactZone(z[i]) \in Nat
  BY LenProperties, ElementOfSeq, CompactZones
<1>2. ASSUME NEW z \in Seq(ExactZoneIds)
      PROVE  /\ Packed(z) \in Seq(Numerals) /\ Len(Packed(z)) = Len(z)
             /\ \A i \in 1..Len(z) : Packed(z)[i] = Number(CompactZone(z[i]))
  <2>1. Packed(z) = [i \in 1..Len(z) |-> Number(CompactZone(z[i]))] BY <1>1 DEF Packed, Number
  <2>2. \A i \in 1..Len(z) : Number(CompactZone(z[i])) \in Numerals BY <1>1 DEF Numerals
  <2> QED BY <1>1, <2>1, <2>2, IsASeq
<1>3. FlattenSeq(Packed(s)) \in Words
  <2>1. Packed(s) \in Seq(Words) BY <1>2, NumeralsTell, SeqMonotonic DEF Telling
  <2> QED BY <2>1, FlattenOneMore, WordsEmpty
<1>4. ASSUME FlattenSeq(Packed(s)) = FlattenSeq(Packed(t)) PROVE Compacted(s) = Compacted(t)
  <2>1. Packed(s) = Packed(t) BY ONLY <1>2, <1>4, NumeralsTell, ListTells, s \in Seq(ExactZoneIds), t \in Seq(ExactZoneIds)
  <2>2. Len(s) = Len(t) BY <1>2, <2>1
  <2>3. ASSUME NEW i \in 1..Len(s) PROVE CompactZone(s[i]) = CompactZone(t[i])
    <3>1. Number(CompactZone(s[i])) = Number(CompactZone(t[i])) BY <1>2, <2>1, <2>2
    <3>2. CompactZone(s[i]) \in Nat /\ CompactZone(t[i]) \in Nat BY <1>1, <2>2
    <3> QED BY <3>1, <3>2, CatNumber, WordsEmpty
  <2>4. DOMAIN s = 1..Len(s) /\ DOMAIN t = 1..Len(s) BY <1>1, <2>2
  <2> QED BY <2>3, <2>4 DEF Compacted
<1> QED BY <1>3, <1>4

ExactAdds == [edit: {"AddZones"}, circles: Seq(Drawn)]
ExactRemoves == [edit: {"RemoveZones"}, region_ids: Seq(ExactZoneIds)]
ZoneShape ==
    MapShape(Zones, Nat, {NoChangeSet}, {None}, ExactAdds \cup ExactRemoves, {None}, {None})
ExactZones == {c \in ZoneShape : Valid(c.change)}
ZoneField(e) ==
    IF e.edit = "AddZones" THEN Bytes(4, DrawnArea(e.circles))
    ELSE Bytes(3, FlattenSeq(Packed(e.region_ids)))
AlikeZones(e, f) ==
    \/ e \in ExactAdds /\ f \in ExactAdds /\ e.circles = f.circles
    \/ e \in ExactRemoves /\ f \in ExactRemoves /\ Compacted(e.region_ids) = Compacted(f.region_ids)

\* The body of a zone edit tells whether it adds or removes, and what, up to
\* the two forms of an identifier.
LEMMA ZoneFieldsTell ==
    ASSUME NEW e \in ExactAdds \cup ExactRemoves, NEW f \in ExactAdds \cup ExactRemoves
    PROVE  ZoneField(e) \in Words /\ (ZoneField(e) = ZoneField(f) => AlikeZones(e, f))
<1>1. ASSUME NEW g \in ExactAdds
      PROVE  /\ ZoneField(g) = Bytes(4, DrawnArea(g.circles)) /\ g.circles \in Seq(Drawn)
             /\ DrawnArea(g.circles) \in Words
  <2>1. g.edit = "AddZones" /\ g.circles \in Seq(Drawn) BY DEF ExactAdds
  <2> QED BY <2>1, DrawnTells, ItemWords DEF ZoneField
<1>2. ASSUME NEW g \in ExactRemoves
      PROVE  /\ ZoneField(g) = Bytes(3, FlattenSeq(Packed(g.region_ids)))
             /\ g.region_ids \in Seq(ExactZoneIds) /\ FlattenSeq(Packed(g.region_ids)) \in Words
  <2>1. g.edit # "AddZones" /\ g.region_ids \in Seq(ExactZoneIds) BY DEF ExactRemoves
  <2> QED BY <2>1, PackedTells DEF ZoneField
<1>3. ASSUME NEW g \in ExactAdds PROVE ZoneField(g) \in Items(4) BY <1>1, BytesField
<1>4. ASSUME NEW g \in ExactRemoves PROVE ZoneField(g) \in Items(3) BY <1>2, BytesField
<1>5. CASE e \in ExactAdds /\ f \in ExactAdds
  <2>1. ZoneField(e) = ZoneField(f) => DrawnArea(e.circles) = DrawnArea(f.circles)
    BY <1>1, <1>5, BytesField
  <2>2. DrawnArea(e.circles) = DrawnArea(f.circles) => e.circles = f.circles BY <1>1, <1>5, DrawnTells
  <2> QED BY <1>3, <1>5, <2>1, <2>2, ItemWords DEF AlikeZones
<1>6. CASE e \in ExactRemoves /\ f \in ExactRemoves
  <2> DEFINE p == FlattenSeq(Packed(e.region_ids))
             q == FlattenSeq(Packed(f.region_ids))
  <2>1. p = q => Compacted(e.region_ids) = Compacted(f.region_ids) BY <1>2, <1>6, PackedTells
  <2>2. p \in Words /\ q \in Words /\ ZoneField(e) = Bytes(3, p) /\ ZoneField(f) = Bytes(3, q)
    BY <1>2, <1>6
  <2> HIDE DEF p, q
  <2>3. ZoneField(e) = ZoneField(f) => p = q BY <2>2, BytesField
  <2> QED BY <1>4, <1>6, <2>1, <2>3, ItemWords DEF AlikeZones
<1>7. CASE e \in ExactAdds /\ f \in ExactRemoves
  <2>1. ZoneField(e) \in Items(4) /\ ZoneField(f) \in Items(3) BY <1>3, <1>4, <1>7
  <2> QED BY <2>1, FieldsApart, ItemWords
<1>8. CASE e \in ExactRemoves /\ f \in ExactAdds
  <2>1. ZoneField(e) \in Items(3) /\ ZoneField(f) \in Items(4) BY <1>3, <1>4, <1>8
  <2> QED BY <2>1, FieldsApart, ItemWords
<1> QED BY <1>5, <1>6, <1>7, <1>8

\* What the intent of a zone request is.
ZoneIntent(c, change) ==
    [type |-> "MapEnvironmentCommand", action |-> c.action, mission_id |-> c.mission_id,
     change_set |-> NoChangeSet, partition_id |-> None, change |-> change,
     overwrite |-> None, name |-> None]

\* What a map command of a given shape is made of.
LEMMA ShapeIs ==
    ASSUME NEW c, NEW missions, NEW changes, NEW actions,
           c \in MapShape(actions, missions, {NoChangeSet}, {None}, changes, {None}, {None})
    PROVE  /\ c.type = "MapEnvironmentCommand" /\ c.action \in actions
           /\ c.mission_id \in missions /\ c.change \in changes
           /\ c = ZoneIntent(c, c.change)
           /\ \A z : [c EXCEPT !.change = z] = ZoneIntent(c, z)
<1>1. /\ c.type = "MapEnvironmentCommand" /\ c.action \in actions
      /\ c.mission_id \in missions /\ c.change \in changes
      /\ c = ZoneIntent(c, c.change)
  BY DEF MapShape, ZoneIntent
<1>2. ASSUME NEW z PROVE [c EXCEPT !.change = z] = ZoneIntent(c, z)
  BY DEF MapShape, ZoneIntent
<1> QED BY <1>1, <1>2

\* What a command that removes zones asks for: the zones, in their compact
\* form.
LEMMA RemoveIntent ==
    ASSUME NEW c, c.type = "MapEnvironmentCommand", c.action \in Zones, Edits(c, {"RemoveZones"})
    PROVE  Intent(c) = [c EXCEPT !.change = Compacted(c.change.region_ids)]
<1>1. c.type # "ScheduleCommand" /\ c.type # "ReprioritizeCoverageCommand" OBVIOUS
<1>2. c.action # "rename" BY DEF Zones
<1> QED BY <1>1, <1>2 DEF Intent, Compacted

\* What a renaming asks for: the mission and the name, in whichever of its
\* two places.
LEMMA RenameIntent ==
    ASSUME NEW c, c.type = "MapEnvironmentCommand", ~Edits(c, {"RemoveZones"}), c.action = "rename"
    PROVE  Intent(c) = [type |-> c.type, mission |-> c.mission_id,
                        name |-> IF c.name # None THEN c.name ELSE c.change_set.name]
<1>1. c.type # "ScheduleCommand" /\ c.type # "ReprioritizeCoverageCommand" OBVIOUS
<1> QED BY <1>1 DEF Intent

\* Everything else in a map command counts.
LEMMA MapIntentIs ==
    ASSUME NEW c, c.type = "MapEnvironmentCommand", ~Edits(c, {"RemoveZones"}), c.action # "rename"
    PROVE  Intent(c) = c
<1>1. c.type # "ScheduleCommand" /\ c.type # "ReprioritizeCoverageCommand" OBVIOUS
<1> QED BY <1>1 DEF Intent

Canonical(e) == IF e.edit = "AddZones" THEN e ELSE Compacted(e.region_ids)

\* What a zone edit asks for is told by its canonical form.
LEMMA ZoneIntentIs ==
    ASSUME NEW c \in ExactZones
    PROVE  Intent(c) = ZoneIntent(c, Canonical(c.change))
<1>1. c \in ZoneShape /\ Valid(c.change) BY DEF ExactZones
<1>2. /\ c.type = "MapEnvironmentCommand" /\ c.action \in Zones
      /\ c.change \in ExactAdds \cup ExactRemoves
      /\ c = ZoneIntent(c, c.change)
      /\ \A z : [c EXCEPT !.change = z] = ZoneIntent(c, z)
  BY <1>1, ShapeIs DEF ZoneShape
<1>3. CASE c.change \in ExactRemoves
  <2>1. c.change.edit = "RemoveZones" BY <1>3 DEF ExactRemoves
  <2>2. Edits(c, {"RemoveZones"}) BY <1>1, <2>1 DEF Edits
  <2>3. Canonical(c.change) = Compacted(c.change.region_ids) BY <2>1 DEF Canonical
  <2>4. Intent(c) = [c EXCEPT !.change = Compacted(c.change.region_ids)]
    BY <1>2, <2>2, RemoveIntent
  <2> QED BY <1>2, <2>3, <2>4
<1>4. CASE c.change \in ExactAdds
  <2>1. c.change.edit = "AddZones" BY <1>4 DEF ExactAdds
  <2>2. ~Edits(c, {"RemoveZones"}) BY <2>1 DEF Edits
  <2>3. Canonical(c.change) = c.change BY <2>1 DEF Canonical
  <2>4. c.action # "rename" BY <1>2 DEF Zones
  <2>5. Intent(c) = c BY <1>2, <2>2, <2>4, MapIntentIs
  <2> QED BY <1>2, <2>3, <2>5
<1> QED BY <1>2, <1>3, <1>4

\* The same edit of another kind of zone.
LEMMA OtherZone ==
    ASSUME NEW c \in ExactZones, NEW a \in Zones
    PROVE  LET e == [c EXCEPT !.action = a] IN
           /\ e \in ExactZones /\ e.action = a /\ e.mission_id = c.mission_id /\ e.change = c.change
           /\ c.action = a => e = c
<1>1. c \in MapShape(Zones, Nat, {NoChangeSet}, {None}, ExactAdds \cup ExactRemoves, {None}, {None})
      /\ Valid(c.change)
  BY DEF ExactZones, ZoneShape
<1> DEFINE e == [c EXCEPT !.action = a]
<1>2. /\ e \in MapShape(Zones, Nat, {NoChangeSet}, {None}, ExactAdds \cup ExactRemoves, {None}, {None})
      /\ e.action = a /\ e.mission_id = c.mission_id /\ e.change = c.change
      /\ c.action = a => e = c
  BY <1>1 DEF MapShape
<1> HIDE DEF e
<1>3. e \in ExactZones BY <1>1, <1>2 DEF ExactZones, ZoneShape
<1> QED BY <1>2, <1>3 DEF e

\* What the requests of two map commands tell: the same intent, but for the
\* kind of a zone.
Told(c, d) == Intent(c) = Intent(d) \/ AlikeButForZone(c, d)

\* _VerifiedZoneEditCodec.encode tells what is asked, but not whether a zone
\* is a no-go or a drive-only one; stairs have a target of their own.
LEMMA ZonesTell ==
    ASSUME NEW c \in ExactZones, NEW d \in ExactZones,
           c.action = "edit_stairs" <=> d.action = "edit_stairs",
           ZoneEditPayload(c) = ZoneEditPayload(d)
    PROVE  Told(c, d)
<1> DEFINE M(g) == Bytes(1, MissionId(g.mission_id))
           R(g) == ZoneField(g.change)
<1>1. /\ c.mission_id \in Int /\ d.mission_id \in Int
      /\ c.change \in ExactAdds \cup ExactRemoves /\ d.change \in ExactAdds \cup ExactRemoves
      /\ c.action \in Zones /\ d.action \in Zones
      /\ c.type = "MapEnvironmentCommand" /\ d.type = "MapEnvironmentCommand"
  BY DEF ExactZones, ZoneShape, MapShape
<1>2. M(c) \in Items(1) /\ M(d) \in Items(1) /\ (M(c) = M(d) => c.mission_id = d.mission_id)
  BY <1>1, MissionField
<1>3. R(c) \in Words /\ R(d) \in Words /\ (R(c) = R(d) => AlikeZones(c.change, d.change))
  BY <1>1, ZoneFieldsTell
<1>4. /\ ZoneEditPayload(c) = Cat(M(c), R(c)) /\ ZoneEditPayload(d) = Cat(M(d), R(d))
  BY DEF ZoneEditPayload, ZoneField, Packed, Cat
<1> HIDE DEF M, R
<1>5. M(c) = M(d) /\ R(c) = R(d)
  <2>1. Cat(M(c), R(c)) = Cat(M(d), R(d)) BY <1>4
  <2> QED BY ONLY <1>2, <1>3, <2>1, ItemThen, 1 \in Nat
<1>6. c.mission_id = d.mission_id /\ AlikeZones(c.change, d.change) BY <1>2, <1>3, <1>5
<1>7. Canonical(c.change) = Canonical(d.change)
  <2>1. CASE c.change \in ExactAdds /\ d.change \in ExactAdds /\ c.change.circles = d.change.circles
    BY <2>1 DEF ExactAdds
  <2>2. CASE c.change \in ExactRemoves /\ d.change \in ExactRemoves
             /\ Compacted(c.change.region_ids) = Compacted(d.change.region_ids)
    <3>1. c.change.edit # "AddZones" /\ d.change.edit # "AddZones" BY <2>2 DEF ExactRemoves
    <3> QED BY <2>2, <3>1 DEF Canonical
  <2> QED BY <1>6, <2>1, <2>2 DEF AlikeZones
<1> DEFINE e == [c EXCEPT !.action = d.action]
<1>8. /\ e \in ExactZones /\ e.action = d.action /\ e.mission_id = c.mission_id
      /\ e.change = c.change /\ (c.action = d.action => e = c)
  BY <1>1, OtherZone
<1>9. Intent(e) = Intent(d)
  <2> HIDE DEF e
  <2>1. ZoneIntent(e, Canonical(e.change)) = ZoneIntent(d, Canonical(d.change))
    BY <1>6, <1>7, <1>8 DEF ZoneIntent
  <2> QED BY <1>8, <2>1, ZoneIntentIs
<1>10. CASE c.action = d.action BY <1>8, <1>9, <1>10 DEF Told
<1>11. CASE c.action # d.action
  <2>1. {c.action, d.action} = ZonesOfNoGoCommand BY <1>1, <1>11 DEF Zones, ZonesOfNoGoCommand
  <2> QED BY <1>1, <1>9, <2>1 DEF Told, AlikeButForZone
<1> QED BY <1>10, <1>11

\* The floor's semantics.
ExactOverrides ==
    [edit: {"SemanticsOverride"}, kind: SemanticsOverrideKinds, circles: Seq(Drawn)]
ExactSemantics ==
    MapShape({"edit_semantics_override"}, Nat, {NoChangeSet}, {None}, ExactOverrides, {None}, {None})
KindNumber(k) ==
    [unset |-> 0, hardfloor_allow_wire |-> 1, carpet_allow_wire |-> 2,
     hardfloor_disallow_wire |-> 3, carpet_disallow_wire |-> 4][k]

\* _VerifiedSemanticsOverrideCodec.encode tells every argument.
LEMMA SemanticsTell ==
    ASSUME NEW c \in ExactSemantics, NEW d \in ExactSemantics,
           SemanticsOverridePayload(c) = SemanticsOverridePayload(d)
    PROVE  c = d
<1> DEFINE M(g) == Bytes(1, MissionId(g.mission_id))
           K(g) == Integer(2, KindNumber(g.change.kind))
           A(g) == Bytes(3, DrawnArea(g.change.circles))
           B(g) == Cat(K(g), A(g))
           R(g) == Bytes(2, B(g))
<1>1. /\ c.mission_id \in Int /\ d.mission_id \in Int
      /\ c.change \in ExactOverrides /\ d.change \in ExactOverrides
  BY DEF ExactSemantics, MapShape
<1>2. /\ c.change.kind \in SemanticsOverrideKinds /\ d.change.kind \in SemanticsOverrideKinds
      /\ c.change.circles \in Seq(Drawn) /\ d.change.circles \in Seq(Drawn)
  BY <1>1 DEF ExactOverrides
<1>3. M(c) \in Items(1) /\ M(d) \in Items(1) /\ (M(c) = M(d) => c.mission_id = d.mission_id)
  BY <1>1, MissionField
<1>4. K(c) \in Parts(2) /\ K(d) \in Parts(2) /\ (K(c) = K(d) => c.change.kind = d.change.kind)
  <2>1. \A k \in SemanticsOverrideKinds : KindNumber(k) \in Nat BY DEF KindNumber, SemanticsOverrideKinds
  <2>2. \A k, l \in SemanticsOverrideKinds : KindNumber(k) = KindNumber(l) => k = l
    BY DEF KindNumber, SemanticsOverrideKinds
  <2>3. KindNumber(c.change.kind) \in Nat /\ KindNumber(d.change.kind) \in Nat BY <1>2, <2>1
  <2>4. /\ K(c) \in Parts(2) /\ K(d) \in Parts(2)
        /\ K(c) = K(d) => KindNumber(c.change.kind) = KindNumber(d.change.kind)
    BY <2>3, IntegerTells
  <2> QED BY <1>2, <2>2, <2>4
<1>5. A(c) \in Parts(3) /\ A(d) \in Parts(3) /\ (A(c) = A(d) => c.change.circles = d.change.circles)
  <2>1. /\ DrawnArea(c.change.circles) \in Words /\ DrawnArea(d.change.circles) \in Words
        /\ DrawnArea(c.change.circles) = DrawnArea(d.change.circles) => c.change.circles = d.change.circles
    BY <1>2, DrawnTells, ItemWords
  <2> QED BY <2>1, BytesField
<1>6. /\ SemanticsOverridePayload(c) = Cat(M(c), R(c)) /\ SemanticsOverridePayload(d) = Cat(M(d), R(d))
  BY DEF SemanticsOverridePayload, KindNumber, Cat
<1> HIDE DEF M, K, A
<1>7. A(c) \in Past(2) /\ A(d) \in Past(2) BY <1>5, Later
<1>8. B(c) \in Words /\ B(d) \in Words BY <1>4, <1>5, ItemWords, CatParts
<1>9. ASSUME B(c) = B(d) PROVE K(c) = K(d) /\ A(c) = A(d)
  <2>1. Cat(K(c), A(c)) = Cat(K(d), A(d)) BY <1>9
  <2> QED BY ONLY <1>4, <1>7, <2>1, PartCancel, 2 \in Nat
<1> HIDE DEF B
<1>10. R(c) \in Words /\ R(d) \in Words /\ (R(c) = R(d) => B(c) = B(d)) BY <1>8, BytesField
<1> HIDE DEF R
<1>11. M(c) = M(d) /\ R(c) = R(d)
  <2>1. Cat(M(c), R(c)) = Cat(M(d), R(d)) BY <1>6
  <2> QED BY ONLY <1>3, <1>10, <2>1, ItemThen, 1 \in Nat
<1>12. c.mission_id = d.mission_id /\ c.change.kind = d.change.kind /\ c.change.circles = d.change.circles
  BY <1>3, <1>4, <1>5, <1>9, <1>10, <1>11
<1>13. c.change = d.change BY <1>1, <1>12 DEF ExactOverrides
<1> QED BY <1>12, <1>13 DEF ExactSemantics, MapShape

\* Where the sink summons the robot.
ExactPlaces ==
    [edit: {"SinkSummonLocation"}, x_meters: Int, y_meters: Int, yaw_radians: Int]
ExactLocations ==
    MapShape({"edit_sink_summon_location"}, Nat, {NoChangeSet}, {None}, ExactPlaces \cup {None},
             {None}, {None})

\* A sink summon location that is set is told: the mission and the place.
LEMMA PlacesTell ==
    ASSUME NEW c \in ExactLocations, NEW d \in ExactLocations, c.change # None, d.change # None
    PROVE  /\ SinkSummonLocationPayload(c) \in Items(1)
           /\ SinkSummonLocationPayload(c) = SinkSummonLocationPayload(d) => c = d
<1> DEFINE M(g) == MissionId(g.mission_id)
           P(g) == Posture(g.change)
           B(g) == Cat(Bytes(1, M(g)), Bytes(2, P(g)))
<1>1. /\ c.mission_id \in Int /\ d.mission_id \in Int
      /\ c.change \in ExactPlaces /\ d.change \in ExactPlaces
  BY DEF ExactLocations, MapShape
<1>2. /\ Placed(c.change) /\ Placed(d.change)
      /\ c.change.yaw_radians \in Int /\ d.change.yaw_radians \in Int
  BY <1>1 DEF ExactPlaces, Placed
<1>3. M(c) \in Words /\ M(d) \in Words /\ (M(c) = M(d) => c.mission_id = d.mission_id)
  BY <1>1, MissionTells, ItemWords
<1>4. /\ P(c) \in Words /\ P(d) \in Words
      /\ P(c) = P(d) => /\ c.change.x_meters = d.change.x_meters
                        /\ c.change.y_meters = d.change.y_meters
                        /\ c.change.yaw_radians = d.change.yaw_radians
  BY <1>2, PostureTells
<1>5. /\ SinkSummonLocationPayload(c) = Bytes(1, B(c)) /\ SinkSummonLocationPayload(d) = Bytes(1, B(d))
  BY DEF SinkSummonLocationPayload, Cat
<1> HIDE DEF M, P
<1>6. B(c) \in Words /\ B(d) \in Words /\ (B(c) = B(d) => M(c) = M(d) /\ P(c) = P(d))
  BY <1>3, <1>4, FieldPairTells
<1> HIDE DEF B
<1>7. /\ SinkSummonLocationPayload(c) \in Items(1)
      /\ SinkSummonLocationPayload(c) = SinkSummonLocationPayload(d) => B(c) = B(d)
  BY <1>5, <1>6, BytesField
<1>8. ASSUME B(c) = B(d) PROVE c = d
  <2>1. /\ c.mission_id = d.mission_id /\ c.change.x_meters = d.change.x_meters
        /\ c.change.y_meters = d.change.y_meters /\ c.change.yaw_radians = d.change.yaw_radians
    BY <1>3, <1>4, <1>6, <1>8
  <2>2. c.change = d.change BY <1>1, <2>1 DEF ExactPlaces
  <2> QED BY <2>1, <2>2 DEF ExactLocations, MapShape
<1> QED BY <1>7, <1>8

\* _VerifiedSinkSummonLocationCodec.encode tells the mission and the place,
\* and whether there is one.
LEMMA LocationsTell ==
    ASSUME NEW c \in ExactLocations, NEW d \in ExactLocations,
           SinkSummonLocationPayload(c) = SinkSummonLocationPayload(d)
    PROVE  c = d
<1>1. c.mission_id \in Int /\ d.mission_id \in Int BY DEF ExactLocations, MapShape
<1>2. ASSUME NEW g \in ExactLocations, g.change = None
      PROVE  SinkSummonLocationPayload(g) = Bytes(2, MissionId(g.mission_id))
  BY <1>2 DEF SinkSummonLocationPayload
<1>3. CASE c.change = None /\ d.change = None
  <2>1. Bytes(2, MissionId(c.mission_id)) = Bytes(2, MissionId(d.mission_id)) BY <1>2, <1>3
  <2>2. c.mission_id = d.mission_id BY <1>1, <2>1, MissionField
  <2> QED BY <1>3, <2>2 DEF ExactLocations, MapShape
<1>4. CASE c.change # None /\ d.change # None BY <1>4, PlacesTell
<1>5. CASE c.change = None /\ d.change # None
  <2>1. SinkSummonLocationPayload(c) \in Items(2) BY <1>1, <1>2, <1>5, MissionField
  <2>2. SinkSummonLocationPayload(d) \in Items(1) BY <1>5, PlacesTell
  <2> QED BY <2>1, <2>2, FieldsApart
<1>6. CASE c.change # None /\ d.change = None
  <2>1. SinkSummonLocationPayload(d) \in Items(2) BY <1>1, <1>2, <1>6, MissionField
  <2>2. SinkSummonLocationPayload(c) \in Items(1) BY <1>6, PlacesTell
  <2> QED BY <2>1, <2>2, FieldsApart
<1> QED BY <1>3, <1>4, <1>5, <1>6

\* The floor: what is canonical, and its name.
ExactCanonical ==
    MapShape({"canonicalize"}, Nat \cup {None}, {NoChangeSet}, {None}, {None}, {None}, {None})
NameOf(c) == IF c.name # None THEN c.name ELSE c.change_set.name
NameShape ==
    MapShape({"rename"}, Nat, [name: Spoken \cup {None}, other: {None}], {None}, {None}, {None},
             Spoken \cup {None})
ExactNames == {c \in NameShape : NameOf(c) \in Spoken}
ExactFloors == ExactCanonical \cup ExactNames

\* The payload of each floor action.
LEMMA FloorPayloads ==
    ASSUME NEW c
    PROVE  /\ c.action = "rename" /\ c.mission_id # None =>
                 FloorPayload(c) = Bytes(3, Cat(Bytes(1, MissionId(c.mission_id)), Bytes(2, NameOf(c))))
           /\ c.action = "canonicalize" /\ c.mission_id = None => FloorPayload(c) = Bytes(1, Empty(2))
           /\ c.action = "canonicalize" /\ c.mission_id # None =>
                 FloorPayload(c) = Bytes(1, Bytes(1, MissionId(c.mission_id)))
<1>1. c.action = "rename" /\ c.mission_id # None =>
         FloorPayload(c) = Bytes(3, Cat(Bytes(1, MissionId(c.mission_id)), Bytes(2, NameOf(c))))
  BY DEF FloorPayload, NameOf, Cat
<1>2. c.action = "canonicalize" /\ c.mission_id = None => FloorPayload(c) = Bytes(1, Empty(2))
  BY DEF FloorPayload
<1>3. c.action = "canonicalize" /\ c.mission_id # None =>
         FloorPayload(c) = Bytes(1, Bytes(1, MissionId(c.mission_id)))
  BY DEF FloorPayload
<1> QED BY <1>1, <1>2, <1>3

\* A renaming tells the mission and the name.
LEMMA NamesTell ==
    ASSUME NEW c \in ExactNames, NEW d \in ExactNames
    PROVE  /\ FloorPayload(c) \in Items(3)
           /\ FloorPayload(c) = FloorPayload(d) => c.mission_id = d.mission_id /\ NameOf(c) = NameOf(d)
<1> DEFINE M(g) == MissionId(g.mission_id)
           N(g) == NameOf(g)
           B(g) == Cat(Bytes(1, M(g)), Bytes(2, N(g)))
<1>1. /\ c.mission_id \in Int /\ d.mission_id \in Int /\ c.action = "rename" /\ d.action = "rename"
  BY DEF ExactNames, NameShape, MapShape
<1>2. N(c) \in Words /\ N(d) \in Words BY TextsAreWords DEF ExactNames, Spoken
<1>3. M(c) \in Words /\ M(d) \in Words /\ (M(c) = M(d) => c.mission_id = d.mission_id)
  BY <1>1, MissionTells, ItemWords
<1>4. FloorPayload(c) = Bytes(3, B(c)) /\ FloorPayload(d) = Bytes(3, B(d))
  <2>1. c.mission_id # None /\ d.mission_id # None BY <1>1, MarksApart
  <2> QED BY <1>1, <2>1, FloorPayloads
<1> HIDE DEF M, N
<1>5. B(c) \in Words /\ B(d) \in Words /\ (B(c) = B(d) => M(c) = M(d) /\ N(c) = N(d))
  BY <1>2, <1>3, FieldPairTells
<1> HIDE DEF B
<1>6. FloorPayload(c) \in Items(3) /\ (FloorPayload(c) = FloorPayload(d) => B(c) = B(d))
  BY <1>4, <1>5, BytesField
<1> QED BY <1>3, <1>5, <1>6 DEF N

\* A canonicalization tells the mission, and whether there is one.
LEMMA CanonicalTells ==
    ASSUME NEW c \in ExactCanonical, NEW d \in ExactCanonical
    PROVE  /\ FloorPayload(c) \in Items(1)
           /\ FloorPayload(c) = FloorPayload(d) => c = d
<1>1. /\ c.action = "canonicalize" /\ d.action = "canonicalize"
      /\ c.mission_id \in Nat \cup {None} /\ d.mission_id \in Nat \cup {None}
  BY DEF ExactCanonical, MapShape
<1>2. Empty(2) \in Items(2) /\ Empty(2) \in Words BY EmptyField
<1>3. ASSUME NEW m \in Int, NEW k \in Int
      PROVE  /\ Bytes(1, MissionId(m)) \in Items(1) /\ Bytes(1, MissionId(m)) \in Words
             /\ Bytes(1, MissionId(m)) = Bytes(1, MissionId(k)) => m = k
  BY MissionField
<1>4. ASSUME NEW g, g.action = "canonicalize", g.mission_id = None
      PROVE  FloorPayload(g) = Bytes(1, Empty(2))
  BY <1>4, FloorPayloads
<1>5. ASSUME NEW g, g.action = "canonicalize", g.mission_id # None
      PROVE  FloorPayload(g) = Bytes(1, Bytes(1, MissionId(g.mission_id)))
  BY <1>5, FloorPayloads
<1>6. ASSUME NEW m \in Int PROVE Bytes(1, Empty(2)) # Bytes(1, Bytes(1, MissionId(m)))
  <2>1. Bytes(1, MissionId(m)) # Empty(2) BY <1>2, <1>3, FieldsApart
  <2> QED BY <1>2, <1>3, <2>1, BytesField
<1>7. CASE c.mission_id = None
  <2>1. FloorPayload(c) = Bytes(1, Empty(2)) BY <1>1, <1>4, <1>7
  <2>2. CASE d.mission_id = None BY <1>2, <1>7, <2>1, <2>2, BytesField DEF ExactCanonical, MapShape
  <2>3. CASE d.mission_id # None BY <1>1, <1>2, <1>5, <1>6, <2>1, <2>3, BytesField
  <2> QED BY <2>2, <2>3
<1>8. CASE c.mission_id # None
  <2>1. c.mission_id \in Int /\ FloorPayload(c) = Bytes(1, Bytes(1, MissionId(c.mission_id)))
    BY <1>1, <1>5, <1>8
  <2>2. FloorPayload(c) \in Items(1) BY <1>3, <2>1, BytesField
  <2>3. CASE d.mission_id = None
    <3>1. FloorPayload(d) = Bytes(1, Empty(2)) BY <1>1, <1>4, <2>3
    <3> QED BY <1>6, <2>1, <2>2, <3>1
  <2>4. CASE d.mission_id # None
    <3>1. d.mission_id \in Int /\ FloorPayload(d) = Bytes(1, Bytes(1, MissionId(d.mission_id)))
      BY <1>1, <1>5, <2>4
    <3> DEFINE x == Bytes(1, MissionId(c.mission_id))
               y == Bytes(1, MissionId(d.mission_id))
    <3>2. x \in Words /\ y \in Words /\ (x = y => c.mission_id = d.mission_id) BY <1>3, <2>1, <3>1
    <3>3. FloorPayload(c) = Bytes(1, x) /\ FloorPayload(d) = Bytes(1, y) BY <2>1, <3>1
    <3> HIDE DEF x, y
    <3>4. FloorPayload(c) = FloorPayload(d) => x = y BY <3>2, <3>3, BytesField
    <3>5. c.mission_id = d.mission_id => c = d BY DEF ExactCanonical, MapShape
    <3> QED BY <2>2, <3>2, <3>4, <3>5
  <2> QED BY <2>3, <2>4
<1> QED BY <1>7, <1>8

\* _VerifiedFloorCodec.encode tells what is asked.
LEMMA FloorsTell ==
    ASSUME NEW c \in ExactFloors, NEW d \in ExactFloors, FloorPayload(c) = FloorPayload(d)
    PROVE  Intent(c) = Intent(d)
<1>1. ASSUME NEW g \in ExactNames
      PROVE  Intent(g) = [type |-> "MapEnvironmentCommand", mission |-> g.mission_id, name |-> NameOf(g)]
  <2>1. g.type = "MapEnvironmentCommand" /\ g.change = None /\ g.action = "rename"
    BY DEF ExactNames, NameShape, MapShape
  <2>2. ~Edits(g, {"RemoveZones"}) BY <2>1 DEF Edits, Valid
  <2> QED BY <2>1, <2>2, RenameIntent DEF NameOf
<1>2. CASE c \in ExactNames /\ d \in ExactNames BY <1>1, <1>2, NamesTell
<1>3. CASE c \in ExactCanonical /\ d \in ExactCanonical BY <1>3, CanonicalTells
<1>4. CASE c \in ExactNames /\ d \in ExactCanonical
  <2>1. FloorPayload(c) \in Items(3) /\ FloorPayload(d) \in Items(1) BY <1>4, NamesTell, CanonicalTells
  <2> QED BY <2>1, FieldsApart
<1>5. CASE c \in ExactCanonical /\ d \in ExactNames
  <2>1. FloorPayload(d) \in Items(3) /\ FloorPayload(c) \in Items(1) BY <1>5, NamesTell, CanonicalTells
  <2> QED BY <2>1, FieldsApart
<1> QED BY <1>2, <1>3, <1>4, <1>5 DEF ExactFloors

\* The maps that are stored.
ExactClears ==
    MapShape({"clear_map"}, Nat, {NoChangeSet}, {None}, {None}, {None}, {None})
ExactStored ==
    MapShape({"persistence_clear", "restore_map", "upload_map_for_debug"}, {None}, {NoChangeSet},
             {None}, {None}, {None}, {None})
ExactPersistence == ExactClears \cup ExactStored
StoredField(a) == IF a = "persistence_clear" THEN 2 ELSE IF a = "clear_map" THEN 4 ELSE 1

\* The payload of each persistence action.
LEMMA PersistencePayloads ==
    ASSUME NEW c
    PROVE  /\ c.action = "persistence_clear" => PersistencePayload(c) = Empty(2)
           /\ c.action = "clear_map" => PersistencePayload(c) = Bytes(4, MissionId(c.mission_id))
           /\ c.action = "restore_map" => PersistencePayload(c) = Cat(Varint(1, 4), Bytes(6, Empty(2)))
           /\ c.action = "upload_map_for_debug" =>
                 PersistencePayload(c) = Cat(Varint(1, 5), Bytes(7, Empty(3)))
BY DEF PersistencePayload, Cat

\* The payload of a persistence action begins with the field of its action.
LEMMA StoredBegins ==
    ASSUME NEW c \in ExactPersistence
    PROVE  Begins(PersistencePayload(c), StoredField(c.action))
<1>1. Empty(2) \in Items(2) /\ Empty(2) \in Words /\ Empty(3) \in Words BY EmptyField
<1>2. Bytes(6, Empty(2)) \in Words /\ Bytes(7, Empty(3)) \in Words BY <1>1, BytesField
<1>3. Varint(1, 4) \in Items(1) /\ Varint(1, 5) \in Items(1) BY VarintField
<1>4. CASE c \in ExactClears
  <2>1. c.action = "clear_map" /\ c.mission_id \in Int BY <1>4 DEF ExactClears, MapShape
  <2>2. Bytes(4, MissionId(c.mission_id)) \in Items(4) BY <2>1, MissionField
  <2>3. Begins(Bytes(4, MissionId(c.mission_id)), 4) BY <2>2, FirstDoor, WordsEmpty
  <2>4. PersistencePayload(c) = Bytes(4, MissionId(c.mission_id)) /\ StoredField(c.action) = 4
    BY <2>1, PersistencePayloads DEF StoredField
  <2> QED BY <2>3, <2>4
<1>5. CASE c.action = "persistence_clear"
  <2>1. Begins(Empty(2), 2) BY <1>1, FirstDoor, WordsEmpty
  <2>2. PersistencePayload(c) = Empty(2) /\ StoredField(c.action) = 2
    BY <1>5, PersistencePayloads DEF StoredField
  <2> QED BY <2>1, <2>2
<1>6. CASE c.action = "restore_map"
  <2>1. Begins(Cat(Varint(1, 4), Bytes(6, Empty(2))), 1) BY <1>2, <1>3, FirstDoor
  <2>2. PersistencePayload(c) = Cat(Varint(1, 4), Bytes(6, Empty(2))) /\ StoredField(c.action) = 1
    BY <1>6, PersistencePayloads DEF StoredField
  <2> QED BY <2>1, <2>2
<1>7. CASE c.action = "upload_map_for_debug"
  <2>1. Begins(Cat(Varint(1, 5), Bytes(7, Empty(3))), 1) BY <1>2, <1>3, FirstDoor
  <2>2. PersistencePayload(c) = Cat(Varint(1, 5), Bytes(7, Empty(3))) /\ StoredField(c.action) = 1
    BY <1>7, PersistencePayloads DEF StoredField
  <2> QED BY <2>1, <2>2
<1> QED BY <1>4, <1>5, <1>6, <1>7 DEF ExactPersistence, ExactStored, MapShape

\* _VerifiedPersistenceCodec.encode tells the action and the mission.
LEMMA StoredTell ==
    ASSUME NEW c \in ExactPersistence, NEW d \in ExactPersistence,
           PersistencePayload(c) = PersistencePayload(d)
    PROVE  c = d
<1> DEFINE x == PersistencePayload(c)
           m == StoredField(c.action)
           n == StoredField(d.action)
<1>1. /\ c.action \in {"persistence_clear", "clear_map", "restore_map", "upload_map_for_debug"}
      /\ d.action \in {"persistence_clear", "clear_map", "restore_map", "upload_map_for_debug"}
  BY DEF ExactPersistence, ExactClears, ExactStored, MapShape
<1>2. m = n
  <2>1. Begins(x, m) /\ Begins(x, n) BY StoredBegins
  <2>2. m \in Nat /\ n \in Nat BY DEF StoredField
  <2> HIDE DEF x, m, n
  <2> QED BY <2>1, <2>2, BeginsOnce
<1>3. Bytes(6, Empty(2)) \in Words /\ Bytes(7, Empty(3)) \in Words BY EmptyField, BytesField
<1>4. Cat(Varint(1, 4), Bytes(6, Empty(2))) # Cat(Varint(1, 5), Bytes(7, Empty(3)))
  <2>1. Varint(1, 4) \in Items(1) /\ Varint(1, 5) \in Items(1) /\ Varint(1, 4) # Varint(1, 5)
    BY VarintField
  <2> QED BY <1>3, <2>1, ItemThen
<1>5. ~(c.action = "restore_map" /\ d.action = "upload_map_for_debug")
  BY <1>4, PersistencePayloads
<1>6. ~(d.action = "restore_map" /\ c.action = "upload_map_for_debug")
  BY <1>4, PersistencePayloads
<1>7. c.action = d.action BY <1>1, <1>2, <1>5, <1>6 DEF StoredField
<1>8. CASE c.action = "clear_map"
  <2>1. c \in ExactClears /\ d \in ExactClears
    BY <1>7, <1>8 DEF ExactPersistence, ExactStored, MapShape
  <2>2. c.mission_id \in Int /\ d.mission_id \in Int BY <2>1 DEF ExactClears, MapShape
  <2>3. Bytes(4, MissionId(c.mission_id)) = Bytes(4, MissionId(d.mission_id))
    BY <1>7, <1>8, PersistencePayloads
  <2>4. c.mission_id = d.mission_id BY <2>2, <2>3, MissionField
  <2> QED BY <2>1, <2>4 DEF ExactClears, MapShape
<1>9. CASE c.action # "clear_map"
  <2>1. c \in ExactStored /\ d \in ExactStored
    BY <1>7, <1>9 DEF ExactPersistence, ExactClears, MapShape
  <2> QED BY <1>7, <2>1 DEF ExactStored, MapShape
<1> QED BY <1>8, <1>9

ExactColours ==
    MapShape({"clear_rgb_weights"}, {None}, {NoChangeSet}, {None}, {None}, {None}, {None})
ExactMaps ==
    ExactBuild \cup ExactRooms \cup ExactZones \cup ExactSemantics \cup ExactLocations
    \cup ExactFloors \cup ExactPersistence \cup ExactColours
MapTarget(a) ==
    CASE a = "build_partition" -> "build_regions" [] a = "edit_rooms" -> "rename_area_command"
      [] a \in {"edit_no_go_zone", "edit_drive_only_zone"} -> "nogo_command"
      [] a = "edit_stairs" -> "stair_command"
      [] a = "edit_semantics_override" -> "semantics_override"
      [] a = "edit_sink_summon_location" -> "edit_sink_summon_location"
      [] a \in {"canonicalize", "rename"} -> "floor_command"
      [] a = "clear_rgb_weights" -> "clear_rgb_weights_command"
      [] OTHER -> "map_command"
MapGroup(c, t) ==
    CASE t = "build_regions" -> c \in ExactBuild [] t = "rename_area_command" -> c \in ExactRooms
      [] t = "nogo_command" -> c \in ExactZones /\ c.action # "edit_stairs"
      [] t = "stair_command" -> c \in ExactZones /\ c.action = "edit_stairs"
      [] t = "semantics_override" -> c \in ExactSemantics
      [] t = "edit_sink_summon_location" -> c \in ExactLocations
      [] t = "floor_command" -> c \in ExactFloors
      [] t = "clear_rgb_weights_command" -> c \in ExactColours
      [] t = "map_command" -> c \in ExactPersistence
MapTargets ==
    {"build_regions", "rename_area_command", "nogo_command", "stair_command", "semantics_override",
     "edit_sink_summon_location", "floor_command", "clear_rgb_weights_command", "map_command"}

\* Each shape of a map command is that of its actions.
LEMMA MapActionIs ==
    ASSUME NEW c \in ExactMaps
    PROVE  /\ c \in ExactBuild => c.action = "build_partition"
           /\ c \in ExactRooms => c.action = "edit_rooms"
           /\ c \in ExactZones => c.action \in Zones
           /\ c \in ExactSemantics => c.action = "edit_semantics_override"
           /\ c \in ExactLocations => c.action = "edit_sink_summon_location"
           /\ c \in ExactFloors => c.action \in {"canonicalize", "rename"}
           /\ c \in ExactPersistence =>
                 c.action \in {"persistence_clear", "clear_map", "restore_map", "upload_map_for_debug"}
           /\ c \in ExactColours => c.action = "clear_rgb_weights"
           /\ c.type = "MapEnvironmentCommand"
<1>1. ASSUME NEW actions, NEW missions, NEW sets, NEW partitions, NEW changes, NEW overwrites, NEW names,
             c \in MapShape(actions, missions, sets, partitions, changes, overwrites, names)
      PROVE  c.action \in actions /\ c.type = "MapEnvironmentCommand"
  BY <1>1 DEF MapShape
<1>2. c \in ExactBuild => c.action = "build_partition" /\ c.type = "MapEnvironmentCommand"
  BY DEF ExactBuild, MapShape
<1>3. c \in ExactRooms => c.action = "edit_rooms" /\ c.type = "MapEnvironmentCommand"
  BY DEF ExactRooms, MapShape
<1>4. c \in ExactZones => c.action \in Zones /\ c.type = "MapEnvironmentCommand"
  BY DEF ExactZones, ZoneShape, MapShape
<1>5. c \in ExactSemantics => c.action = "edit_semantics_override" /\ c.type = "MapEnvironmentCommand"
  BY DEF ExactSemantics, MapShape
<1>6. c \in ExactLocations => c.action = "edit_sink_summon_location" /\ c.type = "MapEnvironmentCommand"
  BY DEF ExactLocations, MapShape
<1>7. c \in ExactFloors => c.action \in {"canonicalize", "rename"} /\ c.type = "MapEnvironmentCommand"
  BY DEF ExactFloors, ExactCanonical, ExactNames, NameShape, MapShape
<1>8. c \in ExactPersistence =>
         /\ c.action \in {"persistence_clear", "clear_map", "restore_map", "upload_map_for_debug"}
         /\ c.type = "MapEnvironmentCommand"
  BY DEF ExactPersistence, ExactStored, ExactClears, MapShape
<1>9. c \in ExactColours => c.action = "clear_rgb_weights" /\ c.type = "MapEnvironmentCommand"
  BY DEF ExactColours, MapShape
<1> QED BY <1>2, <1>3, <1>4, <1>5, <1>6, <1>7, <1>8, <1>9 DEF ExactMaps

\* Each map command is in the group that its target stands for.
LEMMA MapGroupIs ==
    ASSUME NEW c \in ExactMaps
    PROVE  MapTarget(c.action) \in MapTargets /\ MapGroup(c, MapTarget(c.action))
<1>1. CASE c \in ExactBuild BY <1>1, MapActionIs DEF MapTarget, MapTargets, MapGroup
<1>2. CASE c \in ExactRooms BY <1>2, MapActionIs DEF MapTarget, MapTargets, MapGroup
<1>3. CASE c \in ExactZones
  <2>1. c.action \in Zones BY <1>3, MapActionIs
  <2>2. CASE c.action = "edit_stairs"
    <3>1. MapTarget(c.action) = "stair_command" BY <2>2 DEF MapTarget
    <3> QED BY <1>3, <2>2, <3>1 DEF MapTargets, MapGroup
  <2>3. CASE c.action # "edit_stairs"
    <3>1. MapTarget(c.action) = "nogo_command" BY <2>1, <2>3 DEF MapTarget, Zones
    <3> QED BY <1>3, <2>3, <3>1 DEF MapTargets, MapGroup
  <2> QED BY <2>2, <2>3
<1>4. CASE c \in ExactSemantics BY <1>4, MapActionIs DEF MapTarget, MapTargets, MapGroup
<1>5. CASE c \in ExactLocations BY <1>5, MapActionIs DEF MapTarget, MapTargets, MapGroup
<1>6. CASE c \in ExactFloors
  <2>1. c.action \in {"canonicalize", "rename"} BY <1>6, MapActionIs
  <2>2. MapTarget(c.action) = "floor_command" BY <2>1 DEF MapTarget
  <2> QED BY <1>6, <2>2 DEF MapTargets, MapGroup
<1>7. CASE c \in ExactPersistence
  <2>1. c.action \in {"persistence_clear", "clear_map", "restore_map", "upload_map_for_debug"}
    BY <1>7, MapActionIs
  <2>2. MapTarget(c.action) = "map_command" BY <2>1 DEF MapTarget
  <2> QED BY <1>7, <2>2 DEF MapTargets, MapGroup
<1>8. CASE c \in ExactColours BY <1>8, MapActionIs DEF MapTarget, MapTargets, MapGroup
<1> QED BY <1>1, <1>2, <1>3, <1>4, <1>5, <1>6, <1>7, <1>8 DEF ExactMaps

\* Two map requests of one target that are alike ask for the same, but for
\* the kind of a zone.
LEMMA MapTells ==
    ASSUME NEW c \in ExactMaps, NEW d \in ExactMaps,
           MapTarget(c.action) = MapTarget(d.action), MapPayload(c) = MapPayload(d)
    PROVE  Told(c, d)
<1> DEFINE t == MapTarget(c.action)
<1>1. t \in MapTargets /\ MapGroup(c, t) /\ MapGroup(d, t) BY MapGroupIs
<1> HIDE DEF t
<1>2. CASE t = "build_regions"
  <2>1. c \in ExactBuild /\ d \in ExactBuild BY <1>1, <1>2 DEF MapGroup
  <2>2. c.action = "build_partition" /\ d.action = "build_partition" BY <2>1, MapActionIs
  <2> QED BY <2>1, <2>2, MapPayloads, BuildTells DEF Told
<1>3. CASE t = "rename_area_command"
  <2>1. c \in ExactRooms /\ d \in ExactRooms BY <1>1, <1>3 DEF MapGroup
  <2>2. c.action = "edit_rooms" /\ d.action = "edit_rooms" BY <2>1, MapActionIs
  <2> QED BY <2>1, <2>2, MapPayloads, RoomRequestsTell DEF Told
<1>4. CASE t \in {"nogo_command", "stair_command"}
  <2>1. c \in ExactZones /\ d \in ExactZones /\ (c.action = "edit_stairs" <=> d.action = "edit_stairs")
    BY <1>1, <1>4 DEF MapGroup
  <2>2. c.action \in Zones /\ d.action \in Zones BY <2>1, MapActionIs
  <2>3. ZoneEditPayload(c) = ZoneEditPayload(d) BY <2>2, MapPayloads
  <2> QED BY <2>1, <2>3, ZonesTell
<1>5. CASE t = "semantics_override"
  <2>1. c \in ExactSemantics /\ d \in ExactSemantics BY <1>1, <1>5 DEF MapGroup
  <2>2. c.action = "edit_semantics_override" /\ d.action = "edit_semantics_override"
    BY <2>1, MapActionIs
  <2> QED BY <2>1, <2>2, MapPayloads, SemanticsTell DEF Told
<1>6. CASE t = "edit_sink_summon_location"
  <2>1. c \in ExactLocations /\ d \in ExactLocations BY <1>1, <1>6 DEF MapGroup
  <2>2. c.action = "edit_sink_summon_location" /\ d.action = "edit_sink_summon_location"
    BY <2>1, MapActionIs
  <2> QED BY <2>1, <2>2, MapPayloads, LocationsTell DEF Told
<1>7. CASE t = "floor_command"
  <2>1. c \in ExactFloors /\ d \in ExactFloors BY <1>1, <1>7 DEF MapGroup
  <2>2. c.action \in {"canonicalize", "rename"} /\ d.action \in {"canonicalize", "rename"}
    BY <2>1, MapActionIs
  <2>3. FloorPayload(c) = FloorPayload(d) BY <2>2, MapPayloads
  <2> QED BY <2>1, <2>3, FloorsTell DEF Told
<1>8. CASE t = "clear_rgb_weights_command"
  <2>1. c \in ExactColours /\ d \in ExactColours BY <1>1, <1>8 DEF MapGroup
  <2>2. c = d BY <2>1 DEF ExactColours, MapShape
  <2> QED BY <2>2 DEF Told
<1>9. CASE t = "map_command"
  <2>1. c \in ExactPersistence /\ d \in ExactPersistence BY <1>1, <1>9 DEF MapGroup
  <2>2. PersistencePayload(c) = PersistencePayload(d)
    <3>1. /\ c.action \in {"persistence_clear", "clear_map", "restore_map", "upload_map_for_debug"}
          /\ d.action \in {"persistence_clear", "clear_map", "restore_map", "upload_map_for_debug"}
      BY <2>1, MapActionIs
    <3> QED BY <3>1, MapPayloads
  <2> QED BY <2>1, <2>2, StoredTell DEF Told
<1> QED BY <1>1, <1>2, <1>3, <1>4, <1>5, <1>6, <1>7, <1>8, <1>9 DEF MapTargets

------------------------------------------------------------------------------
\* The table of the registry: a target tells the model.

\* The table of commands, by model and action.
UserRecords ==
    [stop |-> <<122, 4, 10, 2, 34, 0>>,
     stay_put |-> <<130, 1, 0>>,
     pause |-> <<72, 1, 136, 1, 1>>,
     resume |-> <<72, 1, 136, 1, 0>>,
     dock |-> <<18, 4, 42, 2, 8, 0>>,
     explore |-> <<122, 10, 10, 8, 42, 6, 10, 2, 26, 0, 16, 2>>,
     diagnose_brush_roll_jam |-> <<146, 1, 4, 10, 2, 10, 0>>]
UserModels ==
    {"UserCommand", "JoystickCommand", "NavigationCommand", "CoverageCommand",
     "ReprioritizeCoverageCommand", "CleaningCommand"}
ModelAt(key) ==
    IF key[1] = "user" THEN IF key[2] = "joystick" THEN "JoystickCommand" ELSE "UserCommand"
    ELSE IF key[1] = "navigation" THEN "NavigationCommand"
    ELSE IF key[1] = "coverage"
         THEN IF key[2] = "reprioritize" THEN "ReprioritizeCoverageCommand" ELSE "CoverageCommand"
    ELSE IF key[1] = "cleaning" THEN "CleaningCommand"
    ELSE IF key[1] = "raw_motors" THEN "RawMotorCommand"
    ELSE IF key[1] = "map" THEN "MapEnvironmentCommand"
    ELSE IF key[1] = "wifi" THEN "WifiCommand"
    ELSE IF key[1] = "schedule" THEN "ScheduleCommand"
    ELSE IF key[1] = "lifecycle" THEN "LifecycleCommand"
    ELSE IF key[1] = "device"
         THEN IF key[2] \in {"sweeper_maintenance_resolve", "sweeper_maintenance_trigger"}
              THEN "SweeperMaintenanceCommand"
              ELSE IF key[2] = "brush_roll_jam_response" THEN "BrushRollJamResponseCommand"
              ELSE IF key[2] = "brush_roll_jam_outcome_dismiss"
                   THEN "BrushRollJamOutcomeDismissCommand"
              ELSE "DeviceCommand"
    ELSE IF key[1] = "settings"
         THEN IF key[2] = "deep_mop_override" THEN "DeepMopOverrideCommand"
              ELSE IF key[2] = "water_flow_override" THEN "WaterFlowOverrideCommand"
              ELSE "SettingsCommand"
    ELSE IF key[1] = "media"
         THEN IF key[2] = "user_audio_recording" THEN "UserAudioRecordingCommand"
              ELSE "MediaCommand"
    ELSE IF key[2] = "live_activity_registration" THEN "LiveActivityRegistrationCommand"
         ELSE "TelemetryCommand"
DeviceTarget(a) ==
    IF a = "rename" THEN "new_bot_name"
    ELSE IF a = "discoverability" THEN "set_device_discoverable"
    ELSE IF a = "new_mop_roll" THEN "new_mop_roll_override_command"
    ELSE IF a = "configure_shipping" THEN "configure_shipping_command"
    ELSE "clear_online_calib_command"
TelemetryTarget(a) ==
    IF a = "uploader_config" THEN "uploader_config_command"
    ELSE IF a = "support_ssh_permission" THEN "user_tunnel_ssh_permission_command"
    ELSE "subscribe_push_notifications"
TargetAt(model, a) ==
    IF model \in UserModels THEN "user_command"
    ELSE IF model = "RawMotorCommand" THEN "motor_command"
    ELSE IF model = "MapEnvironmentCommand" THEN MapTarget(a)
    ELSE IF model = "WifiCommand"
         THEN IF a = "scan" THEN "wifi_scan_command" ELSE "wifi_update_command"
    ELSE IF model = "DeviceCommand" THEN DeviceTarget(a)
    ELSE IF model = "SettingsCommand" THEN SettingTargets[a]
    ELSE IF model = "ScheduleCommand" THEN ScheduleTarget(a)
    ELSE IF model = "MediaCommand" THEN MediaTarget(a)
    ELSE IF model = "TelemetryCommand" THEN TelemetryTarget(a)
    ELSE IF model = "UserAudioRecordingCommand" THEN "user_audio_recording_command"
    ELSE IF model = "DeepMopOverrideCommand" THEN "deep_mop_override_setting_command"
    ELSE IF model = "WaterFlowOverrideCommand" THEN "water_flow_override_command"
    ELSE IF model = "SweeperMaintenanceCommand" THEN "sweeper_maintenance_command"
    ELSE IF model = "BrushRollJamResponseCommand" THEN "cleaning_workflow_response"
    ELSE IF model = "BrushRollJamOutcomeDismissCommand" THEN "sweeper_jam_outcome_dismiss"
    ELSE IF model = "LiveActivityRegistrationCommand" THEN "live_activity_registration"
    ELSE IF a = "update" THEN "update_command" ELSE "reboot_command"
RecordAt(model, a) ==
    IF model = "UserCommand" THEN IF a \in DOMAIN UserRecords THEN UserRecords[a] ELSE None
    ELSE IF a \in {"clear_rgb_weights", "scan", "clear_calibration", "generate_suggested",
                   "brush_roll_jam_outcome_dismiss"} THEN <<>>
    ELSE IF a \in {"sweeper_maintenance_resolve", "update", "reboot"} THEN <<10, 0>>
    ELSE IF a = "shutdown" THEN <<18, 0>> ELSE None
\* What the table says of a model's action.
Fits(model, a, r) ==
    /\ r.model = model /\ r.key = <<Prefix[model], a>> /\ ModelAt(r.key) = model
    /\ r.target = TargetAt(model, a) /\ r.payload = RecordAt(model, a)
ActionsOf(model) ==
    IF model = "UserCommand" THEN UserActions
    ELSE IF model = "JoystickCommand" THEN {"joystick"}
    ELSE IF model = "NavigationCommand" THEN NavigationModes
    ELSE IF model = "CoverageCommand" THEN {"normal", "stain_mode"}
    ELSE IF model = "ReprioritizeCoverageCommand" THEN {"reprioritize"}
    ELSE IF model = "CleaningCommand" THEN {"manual"}
    ELSE IF model = "RawMotorCommand" THEN {"setpoints"}
    ELSE IF model = "MapEnvironmentCommand" THEN MapEnvironmentActions
    ELSE IF model = "WifiCommand" THEN {"scan", "connect", "forget"}
    ELSE IF model = "DeviceCommand" THEN DeviceActions
    ELSE IF model = "SettingsCommand" THEN BinarySettings \cup {"jukebox"}
    ELSE IF model = "ScheduleCommand" THEN ScheduleActions
    ELSE IF model = "MediaCommand" THEN MediaActions
    ELSE IF model = "TelemetryCommand" THEN TelemetryActions
    ELSE IF model = "UserAudioRecordingCommand" THEN {"user_audio_recording"}
    ELSE IF model = "DeepMopOverrideCommand" THEN {"deep_mop_override"}
    ELSE IF model = "WaterFlowOverrideCommand" THEN {"water_flow_override"}
    ELSE IF model = "SweeperMaintenanceCommand"
         THEN {"sweeper_maintenance_resolve", "sweeper_maintenance_trigger"}
    ELSE IF model = "BrushRollJamResponseCommand" THEN {"brush_roll_jam_response"}
    ELSE IF model = "BrushRollJamOutcomeDismissCommand" THEN {"brush_roll_jam_outcome_dismiss"}
    ELSE IF model = "LiveActivityRegistrationCommand" THEN {"live_activity_registration"}
    ELSE {"update", "reboot", "shutdown"}
InTable(r) == \E model \in DOMAIN Prefix : \E a \in ActionsOf(model) : Fits(model, a, r)

\* A row with the prefix, the target and the record of a model and its
\* action is in the table.
LEMMA RowFits ==
    ASSUME NEW model \in DOMAIN Prefix, NEW a \in ActionsOf(model), NEW prefix, NEW target, NEW payload,
           prefix = Prefix[model], ModelAt(<<prefix, a>>) = model, target = TargetAt(model, a),
           payload = RecordAt(model, a)
    PROVE  InTable(Row(prefix, a, model, target, payload))
<1>1. Fits(model, a, Row(prefix, a, model, target, payload)) BY DEF Fits, Row
<1> QED BY <1>1 DEF InTable

\* A family of rows with one model and one target is in the table.
LEMMA RowsFit ==
    ASSUME NEW model \in DOMAIN Prefix, NEW actions, NEW prefix, NEW target,
           prefix = Prefix[model],
           \A a \in actions : /\ a \in ActionsOf(model) /\ ModelAt(<<prefix, a>>) = model
                              /\ target = TargetAt(model, a) /\ RecordAt(model, a) = None,
           NEW r \in Rows(prefix, actions, model, target)
    PROVE  InTable(r)
<1>1. PICK a \in actions : r = Row(prefix, a, model, target, None) BY DEF Rows
<1>2. /\ a \in ActionsOf(model) /\ ModelAt(<<prefix, a>>) = model
      /\ target = TargetAt(model, a) /\ None = RecordAt(model, a)
  OBVIOUS
<1>3. InTable(Row(prefix, a, model, target, None)) BY <1>2, RowFits
<1> QED BY <1>1, <1>3

\* The rows of the user commands are in the table.
LEMMA UserRowsFit ==
    ASSUME NEW r \in UserRows
    PROVE  InTable(r)
<1> DEFINE record(a) == IF a \in DOMAIN UserRecords THEN UserRecords[a] ELSE None
<1>1. UserRows = {Row("user", a, "UserCommand", "user_command", record(a)) : a \in UserActions}
  BY DEF UserRows, UserRecords
<1> HIDE DEF record
<1>2. PICK a \in UserActions : r = Row("user", a, "UserCommand", "user_command", record(a)) BY <1>1
<1>3. "UserCommand" \in DOMAIN Prefix /\ Prefix["UserCommand"] = "user" BY DEF Prefix
<1>4. a \in ActionsOf("UserCommand") BY <1>2 DEF ActionsOf
<1>5. ModelAt(<<"user", a>>) = "UserCommand" BY <1>2 DEF ModelAt, UserActions
<1>6. TargetAt("UserCommand", a) = "user_command" BY DEF TargetAt, UserModels
<1>7. RecordAt("UserCommand", a) = record(a) BY DEF RecordAt, record
<1> QED BY <1>2, <1>3, <1>4, <1>5, <1>6, <1>7, RowFits

\* The rows of the motion commands are in the table.
LEMMA MotionRowsFit ==
    ASSUME NEW r \in MotionRows
    PROVE  InTable(r)
<1>1. ASSUME NEW x \in Rows("user", {"joystick"}, "JoystickCommand", "user_command")
      PROVE  InTable(x)
  <2>1. "JoystickCommand" \in DOMAIN Prefix /\ "user" = Prefix["JoystickCommand"] BY DEF Prefix
  <2>2. \A a \in {"joystick"} :
           /\ a \in ActionsOf("JoystickCommand") /\ ModelAt(<<"user", a>>) = "JoystickCommand"
           /\ "user_command" = TargetAt("JoystickCommand", a) /\ RecordAt("JoystickCommand", a) = None
    BY DEF ActionsOf, ModelAt, TargetAt, RecordAt, UserModels
  <2> QED BY <2>1, <2>2, RowsFit
<1>2. ASSUME NEW x \in Rows("navigation", NavigationModes, "NavigationCommand", "user_command")
      PROVE  InTable(x)
  <2>1. "NavigationCommand" \in DOMAIN Prefix /\ "navigation" = Prefix["NavigationCommand"] BY DEF Prefix
  <2>2. \A a \in NavigationModes :
           /\ a \in ActionsOf("NavigationCommand") /\ ModelAt(<<"navigation", a>>) = "NavigationCommand"
           /\ "user_command" = TargetAt("NavigationCommand", a) /\ RecordAt("NavigationCommand", a) = None
    BY DEF ActionsOf, ModelAt, TargetAt, RecordAt, UserModels, NavigationModes
  <2> QED BY <2>1, <2>2, RowsFit
<1>3. \/ r \in Rows("user", {"joystick"}, "JoystickCommand", "user_command")
      \/ r \in Rows("navigation", NavigationModes, "NavigationCommand", "user_command")
  BY DEF MotionRows
<1> QED BY <1>1, <1>2, <1>3

\* The rows of coverage and reprioritization are in the table.
LEMMA CoverageRowsFit ==
    ASSUME NEW r \in CoverageRows
    PROVE  InTable(r)
<1>1. ASSUME NEW x \in Rows("coverage", {"normal", "stain_mode"}, "CoverageCommand", "user_command")
      PROVE  InTable(x)
  <2>1. "CoverageCommand" \in DOMAIN Prefix /\ "coverage" = Prefix["CoverageCommand"] BY DEF Prefix
  <2>2. \A a \in {"normal", "stain_mode"} :
           /\ a \in ActionsOf("CoverageCommand") /\ ModelAt(<<"coverage", a>>) = "CoverageCommand"
           /\ "user_command" = TargetAt("CoverageCommand", a) /\ RecordAt("CoverageCommand", a) = None
    BY DEF ActionsOf, ModelAt, TargetAt, RecordAt, UserModels
  <2> QED BY <2>1, <2>2, RowsFit
<1>2. ASSUME NEW x \in Rows("coverage", {"reprioritize"}, "ReprioritizeCoverageCommand", "user_command")
      PROVE  InTable(x)
  <2>1. "ReprioritizeCoverageCommand" \in DOMAIN Prefix /\ "coverage" = Prefix["ReprioritizeCoverageCommand"] BY DEF Prefix
  <2>2. \A a \in {"reprioritize"} :
           /\ a \in ActionsOf("ReprioritizeCoverageCommand") /\ ModelAt(<<"coverage", a>>) = "ReprioritizeCoverageCommand"
           /\ "user_command" = TargetAt("ReprioritizeCoverageCommand", a) /\ RecordAt("ReprioritizeCoverageCommand", a) = None
    BY DEF ActionsOf, ModelAt, TargetAt, RecordAt, UserModels
  <2> QED BY <2>1, <2>2, RowsFit
<1>3. ASSUME NEW x \in Rows("cleaning", {"manual"}, "CleaningCommand", "user_command")
      PROVE  InTable(x)
  <2>1. "CleaningCommand" \in DOMAIN Prefix /\ "cleaning" = Prefix["CleaningCommand"] BY DEF Prefix
  <2>2. \A a \in {"manual"} :
           /\ a \in ActionsOf("CleaningCommand") /\ ModelAt(<<"cleaning", a>>) = "CleaningCommand"
           /\ "user_command" = TargetAt("CleaningCommand", a) /\ RecordAt("CleaningCommand", a) = None
    BY DEF ActionsOf, ModelAt, TargetAt, RecordAt, UserModels
  <2> QED BY <2>1, <2>2, RowsFit
<1>4. ASSUME NEW x \in Rows("raw_motors", {"setpoints"}, "RawMotorCommand", "motor_command")
      PROVE  InTable(x)
  <2>1. "RawMotorCommand" \in DOMAIN Prefix /\ "raw_motors" = Prefix["RawMotorCommand"] BY DEF Prefix
  <2>2. \A a \in {"setpoints"} :
           /\ a \in ActionsOf("RawMotorCommand") /\ ModelAt(<<"raw_motors", a>>) = "RawMotorCommand"
           /\ "motor_command" = TargetAt("RawMotorCommand", a) /\ RecordAt("RawMotorCommand", a) = None
    BY DEF ActionsOf, ModelAt, TargetAt, RecordAt, UserModels
  <2> QED BY <2>1, <2>2, RowsFit
<1>5. \/ r \in Rows("coverage", {"normal", "stain_mode"}, "CoverageCommand", "user_command")
      \/ r \in Rows("coverage", {"reprioritize"}, "ReprioritizeCoverageCommand", "user_command")
      \/ r \in Rows("cleaning", {"manual"}, "CleaningCommand", "user_command")
      \/ r \in Rows("raw_motors", {"setpoints"}, "RawMotorCommand", "motor_command")
  BY DEF CoverageRows
<1> QED BY <1>1, <1>2, <1>3, <1>4, <1>5

\* The rows of the map commands are in the table.
LEMMA MapRowsFit ==
    ASSUME NEW r \in MapRows
    PROVE  InTable(r)
<1>1. ASSUME NEW x \in Rows("map", {"build_partition"}, "MapEnvironmentCommand", "build_regions")
      PROVE  InTable(x)
  <2>1. "MapEnvironmentCommand" \in DOMAIN Prefix /\ "map" = Prefix["MapEnvironmentCommand"] BY DEF Prefix
  <2>2. \A a \in {"build_partition"} :
           /\ a \in ActionsOf("MapEnvironmentCommand") /\ ModelAt(<<"map", a>>) = "MapEnvironmentCommand"
           /\ "build_regions" = TargetAt("MapEnvironmentCommand", a) /\ RecordAt("MapEnvironmentCommand", a) = None
    BY DEF ActionsOf, ModelAt, TargetAt, RecordAt, UserModels, MapTarget, MapEnvironmentActions
  <2> QED BY <2>1, <2>2, RowsFit
<1>2. ASSUME NEW x \in Rows("map", {"edit_rooms"}, "MapEnvironmentCommand", "rename_area_command")
      PROVE  InTable(x)
  <2>1. "MapEnvironmentCommand" \in DOMAIN Prefix /\ "map" = Prefix["MapEnvironmentCommand"] BY DEF Prefix
  <2>2. \A a \in {"edit_rooms"} :
           /\ a \in ActionsOf("MapEnvironmentCommand") /\ ModelAt(<<"map", a>>) = "MapEnvironmentCommand"
           /\ "rename_area_command" = TargetAt("MapEnvironmentCommand", a) /\ RecordAt("MapEnvironmentCommand", a) = None
    BY DEF ActionsOf, ModelAt, TargetAt, RecordAt, UserModels, MapTarget, MapEnvironmentActions
  <2> QED BY <2>1, <2>2, RowsFit
<1>3. ASSUME NEW x \in Rows("map", {"edit_no_go_zone", "edit_drive_only_zone"}, "MapEnvironmentCommand", "nogo_command")
      PROVE  InTable(x)
  <2>1. "MapEnvironmentCommand" \in DOMAIN Prefix /\ "map" = Prefix["MapEnvironmentCommand"] BY DEF Prefix
  <2>2. \A a \in {"edit_no_go_zone", "edit_drive_only_zone"} :
           /\ a \in ActionsOf("MapEnvironmentCommand") /\ ModelAt(<<"map", a>>) = "MapEnvironmentCommand"
           /\ "nogo_command" = TargetAt("MapEnvironmentCommand", a) /\ RecordAt("MapEnvironmentCommand", a) = None
    BY DEF ActionsOf, ModelAt, TargetAt, RecordAt, UserModels, MapTarget, MapEnvironmentActions
  <2> QED BY <2>1, <2>2, RowsFit
<1>4. ASSUME NEW x \in Rows("map", {"edit_stairs"}, "MapEnvironmentCommand", "stair_command")
      PROVE  InTable(x)
  <2>1. "MapEnvironmentCommand" \in DOMAIN Prefix /\ "map" = Prefix["MapEnvironmentCommand"] BY DEF Prefix
  <2>2. \A a \in {"edit_stairs"} :
           /\ a \in ActionsOf("MapEnvironmentCommand") /\ ModelAt(<<"map", a>>) = "MapEnvironmentCommand"
           /\ "stair_command" = TargetAt("MapEnvironmentCommand", a) /\ RecordAt("MapEnvironmentCommand", a) = None
    BY DEF ActionsOf, ModelAt, TargetAt, RecordAt, UserModels, MapTarget, MapEnvironmentActions
  <2> QED BY <2>1, <2>2, RowsFit
<1>5. ASSUME NEW x \in Rows("map", {"edit_semantics_override"}, "MapEnvironmentCommand", "semantics_override")
      PROVE  InTable(x)
  <2>1. "MapEnvironmentCommand" \in DOMAIN Prefix /\ "map" = Prefix["MapEnvironmentCommand"] BY DEF Prefix
  <2>2. \A a \in {"edit_semantics_override"} :
           /\ a \in ActionsOf("MapEnvironmentCommand") /\ ModelAt(<<"map", a>>) = "MapEnvironmentCommand"
           /\ "semantics_override" = TargetAt("MapEnvironmentCommand", a) /\ RecordAt("MapEnvironmentCommand", a) = None
    BY DEF ActionsOf, ModelAt, TargetAt, RecordAt, UserModels, MapTarget, MapEnvironmentActions
  <2> QED BY <2>1, <2>2, RowsFit
<1>6. ASSUME NEW x \in Rows("map", {"edit_sink_summon_location"}, "MapEnvironmentCommand", "edit_sink_summon_location")
      PROVE  InTable(x)
  <2>1. "MapEnvironmentCommand" \in DOMAIN Prefix /\ "map" = Prefix["MapEnvironmentCommand"] BY DEF Prefix
  <2>2. \A a \in {"edit_sink_summon_location"} :
           /\ a \in ActionsOf("MapEnvironmentCommand") /\ ModelAt(<<"map", a>>) = "MapEnvironmentCommand"
           /\ "edit_sink_summon_location" = TargetAt("MapEnvironmentCommand", a) /\ RecordAt("MapEnvironmentCommand", a) = None
    BY DEF ActionsOf, ModelAt, TargetAt, RecordAt, UserModels, MapTarget, MapEnvironmentActions
  <2> QED BY <2>1, <2>2, RowsFit
<1>7. ASSUME NEW x \in Rows("map", {"canonicalize", "rename"}, "MapEnvironmentCommand", "floor_command")
      PROVE  InTable(x)
  <2>1. "MapEnvironmentCommand" \in DOMAIN Prefix /\ "map" = Prefix["MapEnvironmentCommand"] BY DEF Prefix
  <2>2. \A a \in {"canonicalize", "rename"} :
           /\ a \in ActionsOf("MapEnvironmentCommand") /\ ModelAt(<<"map", a>>) = "MapEnvironmentCommand"
           /\ "floor_command" = TargetAt("MapEnvironmentCommand", a) /\ RecordAt("MapEnvironmentCommand", a) = None
    BY DEF ActionsOf, ModelAt, TargetAt, RecordAt, UserModels, MapTarget, MapEnvironmentActions
  <2> QED BY <2>1, <2>2, RowsFit
<1>8. ASSUME NEW x \in Rows("map", {"persistence_clear", "clear_map", "restore_map", "upload_map_for_debug"}, "MapEnvironmentCommand", "map_command")
      PROVE  InTable(x)
  <2>1. "MapEnvironmentCommand" \in DOMAIN Prefix /\ "map" = Prefix["MapEnvironmentCommand"] BY DEF Prefix
  <2>2. \A a \in {"persistence_clear", "clear_map", "restore_map", "upload_map_for_debug"} :
           /\ a \in ActionsOf("MapEnvironmentCommand") /\ ModelAt(<<"map", a>>) = "MapEnvironmentCommand"
           /\ "map_command" = TargetAt("MapEnvironmentCommand", a) /\ RecordAt("MapEnvironmentCommand", a) = None
    BY DEF ActionsOf, ModelAt, TargetAt, RecordAt, UserModels, MapTarget, MapEnvironmentActions
  <2> QED BY <2>1, <2>2, RowsFit
<1>9. InTable(Row("map", "clear_rgb_weights", "MapEnvironmentCommand", "clear_rgb_weights_command", <<>>))
  <2>1. "MapEnvironmentCommand" \in DOMAIN Prefix /\ "map" = Prefix["MapEnvironmentCommand"] BY DEF Prefix
  <2>2. /\ "clear_rgb_weights" \in ActionsOf("MapEnvironmentCommand") /\ ModelAt(<<"map", "clear_rgb_weights">>) = "MapEnvironmentCommand"
        /\ "clear_rgb_weights_command" = TargetAt("MapEnvironmentCommand", "clear_rgb_weights") /\ <<>> = RecordAt("MapEnvironmentCommand", "clear_rgb_weights")
    BY DEF ActionsOf, ModelAt, TargetAt, RecordAt, UserModels, MapTarget, MapEnvironmentActions
  <2> QED BY <2>1, <2>2, RowFits
<1>10. \/ r \in Rows("map", {"build_partition"}, "MapEnvironmentCommand", "build_regions")
      \/ r \in Rows("map", {"edit_rooms"}, "MapEnvironmentCommand", "rename_area_command")
      \/ r \in Rows("map", {"edit_no_go_zone", "edit_drive_only_zone"}, "MapEnvironmentCommand", "nogo_command")
      \/ r \in Rows("map", {"edit_stairs"}, "MapEnvironmentCommand", "stair_command")
      \/ r \in Rows("map", {"edit_semantics_override"}, "MapEnvironmentCommand", "semantics_override")
      \/ r \in Rows("map", {"edit_sink_summon_location"}, "MapEnvironmentCommand", "edit_sink_summon_location")
      \/ r \in Rows("map", {"canonicalize", "rename"}, "MapEnvironmentCommand", "floor_command")
      \/ r \in Rows("map", {"persistence_clear", "clear_map", "restore_map", "upload_map_for_debug"}, "MapEnvironmentCommand", "map_command")
      \/ r \in {Row("map", "clear_rgb_weights", "MapEnvironmentCommand", "clear_rgb_weights_command", <<>>)}
  BY DEF MapRows
<1> QED BY <1>1, <1>2, <1>3, <1>4, <1>5, <1>6, <1>7, <1>8, <1>9, <1>10

\* The rows of the Wi-Fi commands are in the table.
LEMMA WifiRowsFit ==
    ASSUME NEW r \in WifiRows
    PROVE  InTable(r)
<1>1. InTable(Row("wifi", "scan", "WifiCommand", "wifi_scan_command", <<>>))
  <2>1. "WifiCommand" \in DOMAIN Prefix /\ "wifi" = Prefix["WifiCommand"] BY DEF Prefix
  <2>2. /\ "scan" \in ActionsOf("WifiCommand") /\ ModelAt(<<"wifi", "scan">>) = "WifiCommand"
        /\ "wifi_scan_command" = TargetAt("WifiCommand", "scan") /\ <<>> = RecordAt("WifiCommand", "scan")
    BY DEF ActionsOf, ModelAt, TargetAt, RecordAt, UserModels
  <2> QED BY <2>1, <2>2, RowFits
<1>2. ASSUME NEW x \in Rows("wifi", {"connect", "forget"}, "WifiCommand", "wifi_update_command")
      PROVE  InTable(x)
  <2>1. "WifiCommand" \in DOMAIN Prefix /\ "wifi" = Prefix["WifiCommand"] BY DEF Prefix
  <2>2. \A a \in {"connect", "forget"} :
           /\ a \in ActionsOf("WifiCommand") /\ ModelAt(<<"wifi", a>>) = "WifiCommand"
           /\ "wifi_update_command" = TargetAt("WifiCommand", a) /\ RecordAt("WifiCommand", a) = None
    BY DEF ActionsOf, ModelAt, TargetAt, RecordAt, UserModels
  <2> QED BY <2>1, <2>2, RowsFit
<1>3. \/ r \in {Row("wifi", "scan", "WifiCommand", "wifi_scan_command", <<>>)}
      \/ r \in Rows("wifi", {"connect", "forget"}, "WifiCommand", "wifi_update_command")
  BY DEF WifiRows
<1> QED BY <1>1, <1>2, <1>3

\* The rows of the device commands are in the table.
LEMMA DeviceRowsFit ==
    ASSUME NEW r \in DeviceRows
    PROVE  InTable(r)
<1>1. ASSUME NEW x \in Rows("device", {"rename"}, "DeviceCommand", "new_bot_name")
      PROVE  InTable(x)
  <2>1. "DeviceCommand" \in DOMAIN Prefix /\ "device" = Prefix["DeviceCommand"] BY DEF Prefix
  <2>2. \A a \in {"rename"} :
           /\ a \in ActionsOf("DeviceCommand") /\ ModelAt(<<"device", a>>) = "DeviceCommand"
           /\ "new_bot_name" = TargetAt("DeviceCommand", a) /\ RecordAt("DeviceCommand", a) = None
    BY DEF ActionsOf, ModelAt, TargetAt, RecordAt, UserModels, DeviceTarget, DeviceActions
  <2> QED BY <2>1, <2>2, RowsFit
<1>2. ASSUME NEW x \in Rows("device", {"discoverability"}, "DeviceCommand", "set_device_discoverable")
      PROVE  InTable(x)
  <2>1. "DeviceCommand" \in DOMAIN Prefix /\ "device" = Prefix["DeviceCommand"] BY DEF Prefix
  <2>2. \A a \in {"discoverability"} :
           /\ a \in ActionsOf("DeviceCommand") /\ ModelAt(<<"device", a>>) = "DeviceCommand"
           /\ "set_device_discoverable" = TargetAt("DeviceCommand", a) /\ RecordAt("DeviceCommand", a) = None
    BY DEF ActionsOf, ModelAt, TargetAt, RecordAt, UserModels, DeviceTarget, DeviceActions
  <2> QED BY <2>1, <2>2, RowsFit
<1>3. ASSUME NEW x \in Rows("device", {"new_mop_roll"}, "DeviceCommand", "new_mop_roll_override_command")
      PROVE  InTable(x)
  <2>1. "DeviceCommand" \in DOMAIN Prefix /\ "device" = Prefix["DeviceCommand"] BY DEF Prefix
  <2>2. \A a \in {"new_mop_roll"} :
           /\ a \in ActionsOf("DeviceCommand") /\ ModelAt(<<"device", a>>) = "DeviceCommand"
           /\ "new_mop_roll_override_command" = TargetAt("DeviceCommand", a) /\ RecordAt("DeviceCommand", a) = None
    BY DEF ActionsOf, ModelAt, TargetAt, RecordAt, UserModels, DeviceTarget, DeviceActions
  <2> QED BY <2>1, <2>2, RowsFit
<1>4. ASSUME NEW x \in Rows("device", {"configure_shipping"}, "DeviceCommand", "configure_shipping_command")
      PROVE  InTable(x)
  <2>1. "DeviceCommand" \in DOMAIN Prefix /\ "device" = Prefix["DeviceCommand"] BY DEF Prefix
  <2>2. \A a \in {"configure_shipping"} :
           /\ a \in ActionsOf("DeviceCommand") /\ ModelAt(<<"device", a>>) = "DeviceCommand"
           /\ "configure_shipping_command" = TargetAt("DeviceCommand", a) /\ RecordAt("DeviceCommand", a) = None
    BY DEF ActionsOf, ModelAt, TargetAt, RecordAt, UserModels, DeviceTarget, DeviceActions
  <2> QED BY <2>1, <2>2, RowsFit
<1>5. InTable(Row("device", "clear_calibration", "DeviceCommand", "clear_online_calib_command", <<>>))
  <2>1. "DeviceCommand" \in DOMAIN Prefix /\ "device" = Prefix["DeviceCommand"] BY DEF Prefix
  <2>2. /\ "clear_calibration" \in ActionsOf("DeviceCommand") /\ ModelAt(<<"device", "clear_calibration">>) = "DeviceCommand"
        /\ "clear_online_calib_command" = TargetAt("DeviceCommand", "clear_calibration") /\ <<>> = RecordAt("DeviceCommand", "clear_calibration")
    BY DEF ActionsOf, ModelAt, TargetAt, RecordAt, UserModels, DeviceTarget, DeviceActions
  <2> QED BY <2>1, <2>2, RowFits
<1>6. \/ r \in Rows("device", {"rename"}, "DeviceCommand", "new_bot_name")
      \/ r \in Rows("device", {"discoverability"}, "DeviceCommand", "set_device_discoverable")
      \/ r \in Rows("device", {"new_mop_roll"}, "DeviceCommand", "new_mop_roll_override_command")
      \/ r \in Rows("device", {"configure_shipping"}, "DeviceCommand", "configure_shipping_command")
      \/ r \in {Row("device", "clear_calibration", "DeviceCommand", "clear_online_calib_command", <<>>)}
  BY DEF DeviceRows
<1> QED BY <1>1, <1>2, <1>3, <1>4, <1>5, <1>6

\* The rows of the schedule commands are in the table.
LEMMA ScheduleRowsFit ==
    ASSUME NEW r \in ScheduleRows
    PROVE  InTable(r)
<1>1. ASSUME NEW x \in Rows("schedule", {"add_or_modify", "remove", "toggle"}, "ScheduleCommand", "edit_schedule")
      PROVE  InTable(x)
  <2>1. "ScheduleCommand" \in DOMAIN Prefix /\ "schedule" = Prefix["ScheduleCommand"] BY DEF Prefix
  <2>2. \A a \in {"add_or_modify", "remove", "toggle"} :
           /\ a \in ActionsOf("ScheduleCommand") /\ ModelAt(<<"schedule", a>>) = "ScheduleCommand"
           /\ "edit_schedule" = TargetAt("ScheduleCommand", a) /\ RecordAt("ScheduleCommand", a) = None
    BY DEF ActionsOf, ModelAt, TargetAt, RecordAt, UserModels, ScheduleTarget, ScheduleActions
  <2> QED BY <2>1, <2>2, RowsFit
<1>2. ASSUME NEW x \in Rows("schedule", {"sink_summon_add_or_modify", "sink_summon_remove"}, "ScheduleCommand", "edit_sink_summon_schedule")
      PROVE  InTable(x)
  <2>1. "ScheduleCommand" \in DOMAIN Prefix /\ "schedule" = Prefix["ScheduleCommand"] BY DEF Prefix
  <2>2. \A a \in {"sink_summon_add_or_modify", "sink_summon_remove"} :
           /\ a \in ActionsOf("ScheduleCommand") /\ ModelAt(<<"schedule", a>>) = "ScheduleCommand"
           /\ "edit_sink_summon_schedule" = TargetAt("ScheduleCommand", a) /\ RecordAt("ScheduleCommand", a) = None
    BY DEF ActionsOf, ModelAt, TargetAt, RecordAt, UserModels, ScheduleTarget, ScheduleActions
  <2> QED BY <2>1, <2>2, RowsFit
<1>3. InTable(Row("schedule", "generate_suggested", "ScheduleCommand", "generate_suggested_schedule", <<>>))
  <2>1. "ScheduleCommand" \in DOMAIN Prefix /\ "schedule" = Prefix["ScheduleCommand"] BY DEF Prefix
  <2>2. /\ "generate_suggested" \in ActionsOf("ScheduleCommand") /\ ModelAt(<<"schedule", "generate_suggested">>) = "ScheduleCommand"
        /\ "generate_suggested_schedule" = TargetAt("ScheduleCommand", "generate_suggested") /\ <<>> = RecordAt("ScheduleCommand", "generate_suggested")
    BY DEF ActionsOf, ModelAt, TargetAt, RecordAt, UserModels, ScheduleTarget, ScheduleActions
  <2> QED BY <2>1, <2>2, RowFits
<1>4. \/ r \in Rows("schedule", {"add_or_modify", "remove", "toggle"}, "ScheduleCommand", "edit_schedule")
      \/ r \in Rows("schedule", {"sink_summon_add_or_modify", "sink_summon_remove"}, "ScheduleCommand", "edit_sink_summon_schedule")
      \/ r \in {Row("schedule", "generate_suggested", "ScheduleCommand", "generate_suggested_schedule", <<>>)}
  BY DEF ScheduleRows
<1> QED BY <1>1, <1>2, <1>3, <1>4

\* The rows of the recordings are in the table.
LEMMA MediaRowsFit ==
    ASSUME NEW r \in MediaRows
    PROVE  InTable(r)
<1>1. ASSUME NEW x \in Rows("media", {"recording_enable", "flush_rolling_buffer"}, "MediaCommand", "recording_command")
      PROVE  InTable(x)
  <2>1. "MediaCommand" \in DOMAIN Prefix /\ "media" = Prefix["MediaCommand"] BY DEF Prefix
  <2>2. \A a \in {"recording_enable", "flush_rolling_buffer"} :
           /\ a \in ActionsOf("MediaCommand") /\ ModelAt(<<"media", a>>) = "MediaCommand"
           /\ "recording_command" = TargetAt("MediaCommand", a) /\ RecordAt("MediaCommand", a) = None
    BY DEF ActionsOf, ModelAt, TargetAt, RecordAt, UserModels, MediaTarget, MediaActions
  <2> QED BY <2>1, <2>2, RowsFit
<1>2. ASSUME NEW x \in Rows("media", {"rolling_buffer_config"}, "MediaCommand", "toggle_rolling_recordings")
      PROVE  InTable(x)
  <2>1. "MediaCommand" \in DOMAIN Prefix /\ "media" = Prefix["MediaCommand"] BY DEF Prefix
  <2>2. \A a \in {"rolling_buffer_config"} :
           /\ a \in ActionsOf("MediaCommand") /\ ModelAt(<<"media", a>>) = "MediaCommand"
           /\ "toggle_rolling_recordings" = TargetAt("MediaCommand", a) /\ RecordAt("MediaCommand", a) = None
    BY DEF ActionsOf, ModelAt, TargetAt, RecordAt, UserModels, MediaTarget, MediaActions
  <2> QED BY <2>1, <2>2, RowsFit
<1>3. ASSUME NEW x \in Rows("media", {"confirm_save", "confirm_delete"}, "MediaCommand", "recording_upload_confirmation")
      PROVE  InTable(x)
  <2>1. "MediaCommand" \in DOMAIN Prefix /\ "media" = Prefix["MediaCommand"] BY DEF Prefix
  <2>2. \A a \in {"confirm_save", "confirm_delete"} :
           /\ a \in ActionsOf("MediaCommand") /\ ModelAt(<<"media", a>>) = "MediaCommand"
           /\ "recording_upload_confirmation" = TargetAt("MediaCommand", a) /\ RecordAt("MediaCommand", a) = None
    BY DEF ActionsOf, ModelAt, TargetAt, RecordAt, UserModels, MediaTarget, MediaActions
  <2> QED BY <2>1, <2>2, RowsFit
<1>4. \/ r \in Rows("media", {"recording_enable", "flush_rolling_buffer"}, "MediaCommand", "recording_command")
      \/ r \in Rows("media", {"rolling_buffer_config"}, "MediaCommand", "toggle_rolling_recordings")
      \/ r \in Rows("media", {"confirm_save", "confirm_delete"}, "MediaCommand", "recording_upload_confirmation")
  BY DEF MediaRows
<1> QED BY <1>1, <1>2, <1>3, <1>4

\* The rows of the telemetry commands are in the table.
LEMMA TelemetryRowsFit ==
    ASSUME NEW r \in TelemetryRows
    PROVE  InTable(r)
<1>1. ASSUME NEW x \in Rows("telemetry", {"uploader_config"}, "TelemetryCommand", "uploader_config_command")
      PROVE  InTable(x)
  <2>1. "TelemetryCommand" \in DOMAIN Prefix /\ "telemetry" = Prefix["TelemetryCommand"] BY DEF Prefix
  <2>2. \A a \in {"uploader_config"} :
           /\ a \in ActionsOf("TelemetryCommand") /\ ModelAt(<<"telemetry", a>>) = "TelemetryCommand"
           /\ "uploader_config_command" = TargetAt("TelemetryCommand", a) /\ RecordAt("TelemetryCommand", a) = None
    BY DEF ActionsOf, ModelAt, TargetAt, RecordAt, UserModels, TelemetryTarget, TelemetryActions
  <2> QED BY <2>1, <2>2, RowsFit
<1>2. ASSUME NEW x \in Rows("telemetry", {"support_ssh_permission"}, "TelemetryCommand", "user_tunnel_ssh_permission_command")
      PROVE  InTable(x)
  <2>1. "TelemetryCommand" \in DOMAIN Prefix /\ "telemetry" = Prefix["TelemetryCommand"] BY DEF Prefix
  <2>2. \A a \in {"support_ssh_permission"} :
           /\ a \in ActionsOf("TelemetryCommand") /\ ModelAt(<<"telemetry", a>>) = "TelemetryCommand"
           /\ "user_tunnel_ssh_permission_command" = TargetAt("TelemetryCommand", a) /\ RecordAt("TelemetryCommand", a) = None
    BY DEF ActionsOf, ModelAt, TargetAt, RecordAt, UserModels, TelemetryTarget, TelemetryActions
  <2> QED BY <2>1, <2>2, RowsFit
<1>3. ASSUME NEW x \in Rows("telemetry", {"push_notification_subscription"}, "TelemetryCommand", "subscribe_push_notifications")
      PROVE  InTable(x)
  <2>1. "TelemetryCommand" \in DOMAIN Prefix /\ "telemetry" = Prefix["TelemetryCommand"] BY DEF Prefix
  <2>2. \A a \in {"push_notification_subscription"} :
           /\ a \in ActionsOf("TelemetryCommand") /\ ModelAt(<<"telemetry", a>>) = "TelemetryCommand"
           /\ "subscribe_push_notifications" = TargetAt("TelemetryCommand", a) /\ RecordAt("TelemetryCommand", a) = None
    BY DEF ActionsOf, ModelAt, TargetAt, RecordAt, UserModels, TelemetryTarget, TelemetryActions
  <2> QED BY <2>1, <2>2, RowsFit
<1>4. \/ r \in Rows("telemetry", {"uploader_config"}, "TelemetryCommand", "uploader_config_command")
      \/ r \in Rows("telemetry", {"support_ssh_permission"}, "TelemetryCommand", "user_tunnel_ssh_permission_command")
      \/ r \in Rows("telemetry", {"push_notification_subscription"}, "TelemetryCommand", "subscribe_push_notifications")
  BY DEF TelemetryRows
<1> QED BY <1>1, <1>2, <1>3, <1>4

\* The rows of the overrides and of the live activities are in the table.
LEMMA StableRowsFit ==
    ASSUME NEW r \in StableRows
    PROVE  InTable(r)
<1>1. ASSUME NEW x \in Rows("media", {"user_audio_recording"}, "UserAudioRecordingCommand", "user_audio_recording_command")
      PROVE  InTable(x)
  <2>1. "UserAudioRecordingCommand" \in DOMAIN Prefix /\ "media" = Prefix["UserAudioRecordingCommand"] BY DEF Prefix
  <2>2. \A a \in {"user_audio_recording"} :
           /\ a \in ActionsOf("UserAudioRecordingCommand") /\ ModelAt(<<"media", a>>) = "UserAudioRecordingCommand"
           /\ "user_audio_recording_command" = TargetAt("UserAudioRecordingCommand", a) /\ RecordAt("UserAudioRecordingCommand", a) = None
    BY DEF ActionsOf, ModelAt, TargetAt, RecordAt, UserModels
  <2> QED BY <2>1, <2>2, RowsFit
<1>2. ASSUME NEW x \in Rows("settings", {"deep_mop_override"}, "DeepMopOverrideCommand", "deep_mop_override_setting_command")
      PROVE  InTable(x)
  <2>1. "DeepMopOverrideCommand" \in DOMAIN Prefix /\ "settings" = Prefix["DeepMopOverrideCommand"] BY DEF Prefix
  <2>2. \A a \in {"deep_mop_override"} :
           /\ a \in ActionsOf("DeepMopOverrideCommand") /\ ModelAt(<<"settings", a>>) = "DeepMopOverrideCommand"
           /\ "deep_mop_override_setting_command" = TargetAt("DeepMopOverrideCommand", a) /\ RecordAt("DeepMopOverrideCommand", a) = None
    BY DEF ActionsOf, ModelAt, TargetAt, RecordAt, UserModels
  <2> QED BY <2>1, <2>2, RowsFit
<1>3. ASSUME NEW x \in Rows("settings", {"water_flow_override"}, "WaterFlowOverrideCommand", "water_flow_override_command")
      PROVE  InTable(x)
  <2>1. "WaterFlowOverrideCommand" \in DOMAIN Prefix /\ "settings" = Prefix["WaterFlowOverrideCommand"] BY DEF Prefix
  <2>2. \A a \in {"water_flow_override"} :
           /\ a \in ActionsOf("WaterFlowOverrideCommand") /\ ModelAt(<<"settings", a>>) = "WaterFlowOverrideCommand"
           /\ "water_flow_override_command" = TargetAt("WaterFlowOverrideCommand", a) /\ RecordAt("WaterFlowOverrideCommand", a) = None
    BY DEF ActionsOf, ModelAt, TargetAt, RecordAt, UserModels
  <2> QED BY <2>1, <2>2, RowsFit
<1>4. InTable(Row("device", "sweeper_maintenance_resolve", "SweeperMaintenanceCommand", "sweeper_maintenance_command", <<10, 0>>))
  <2>1. "SweeperMaintenanceCommand" \in DOMAIN Prefix /\ "device" = Prefix["SweeperMaintenanceCommand"] BY DEF Prefix
  <2>2. /\ "sweeper_maintenance_resolve" \in ActionsOf("SweeperMaintenanceCommand") /\ ModelAt(<<"device", "sweeper_maintenance_resolve">>) = "SweeperMaintenanceCommand"
        /\ "sweeper_maintenance_command" = TargetAt("SweeperMaintenanceCommand", "sweeper_maintenance_resolve") /\ <<10, 0>> = RecordAt("SweeperMaintenanceCommand", "sweeper_maintenance_resolve")
    BY DEF ActionsOf, ModelAt, TargetAt, RecordAt, UserModels
  <2> QED BY <2>1, <2>2, RowFits
<1>5. ASSUME NEW x \in Rows("device", {"sweeper_maintenance_trigger"}, "SweeperMaintenanceCommand", "sweeper_maintenance_command")
      PROVE  InTable(x)
  <2>1. "SweeperMaintenanceCommand" \in DOMAIN Prefix /\ "device" = Prefix["SweeperMaintenanceCommand"] BY DEF Prefix
  <2>2. \A a \in {"sweeper_maintenance_trigger"} :
           /\ a \in ActionsOf("SweeperMaintenanceCommand") /\ ModelAt(<<"device", a>>) = "SweeperMaintenanceCommand"
           /\ "sweeper_maintenance_command" = TargetAt("SweeperMaintenanceCommand", a) /\ RecordAt("SweeperMaintenanceCommand", a) = None
    BY DEF ActionsOf, ModelAt, TargetAt, RecordAt, UserModels
  <2> QED BY <2>1, <2>2, RowsFit
<1>6. ASSUME NEW x \in Rows("device", {"brush_roll_jam_response"}, "BrushRollJamResponseCommand", "cleaning_workflow_response")
      PROVE  InTable(x)
  <2>1. "BrushRollJamResponseCommand" \in DOMAIN Prefix /\ "device" = Prefix["BrushRollJamResponseCommand"] BY DEF Prefix
  <2>2. \A a \in {"brush_roll_jam_response"} :
           /\ a \in ActionsOf("BrushRollJamResponseCommand") /\ ModelAt(<<"device", a>>) = "BrushRollJamResponseCommand"
           /\ "cleaning_workflow_response" = TargetAt("BrushRollJamResponseCommand", a) /\ RecordAt("BrushRollJamResponseCommand", a) = None
    BY DEF ActionsOf, ModelAt, TargetAt, RecordAt, UserModels
  <2> QED BY <2>1, <2>2, RowsFit
<1>7. InTable(Row("device", "brush_roll_jam_outcome_dismiss", "BrushRollJamOutcomeDismissCommand", "sweeper_jam_outcome_dismiss", <<>>))
  <2>1. "BrushRollJamOutcomeDismissCommand" \in DOMAIN Prefix /\ "device" = Prefix["BrushRollJamOutcomeDismissCommand"] BY DEF Prefix
  <2>2. /\ "brush_roll_jam_outcome_dismiss" \in ActionsOf("BrushRollJamOutcomeDismissCommand") /\ ModelAt(<<"device", "brush_roll_jam_outcome_dismiss">>) = "BrushRollJamOutcomeDismissCommand"
        /\ "sweeper_jam_outcome_dismiss" = TargetAt("BrushRollJamOutcomeDismissCommand", "brush_roll_jam_outcome_dismiss") /\ <<>> = RecordAt("BrushRollJamOutcomeDismissCommand", "brush_roll_jam_outcome_dismiss")
    BY DEF ActionsOf, ModelAt, TargetAt, RecordAt, UserModels
  <2> QED BY <2>1, <2>2, RowFits
<1>8. ASSUME NEW x \in Rows("telemetry", {"live_activity_registration"}, "LiveActivityRegistrationCommand", "live_activity_registration")
      PROVE  InTable(x)
  <2>1. "LiveActivityRegistrationCommand" \in DOMAIN Prefix /\ "telemetry" = Prefix["LiveActivityRegistrationCommand"] BY DEF Prefix
  <2>2. \A a \in {"live_activity_registration"} :
           /\ a \in ActionsOf("LiveActivityRegistrationCommand") /\ ModelAt(<<"telemetry", a>>) = "LiveActivityRegistrationCommand"
           /\ "live_activity_registration" = TargetAt("LiveActivityRegistrationCommand", a) /\ RecordAt("LiveActivityRegistrationCommand", a) = None
    BY DEF ActionsOf, ModelAt, TargetAt, RecordAt, UserModels
  <2> QED BY <2>1, <2>2, RowsFit
<1>9. \/ r \in Rows("media", {"user_audio_recording"}, "UserAudioRecordingCommand", "user_audio_recording_command")
      \/ r \in Rows("settings", {"deep_mop_override"}, "DeepMopOverrideCommand", "deep_mop_override_setting_command")
      \/ r \in Rows("settings", {"water_flow_override"}, "WaterFlowOverrideCommand", "water_flow_override_command")
      \/ r \in {Row("device", "sweeper_maintenance_resolve", "SweeperMaintenanceCommand", "sweeper_maintenance_command", <<10, 0>>)}
      \/ r \in Rows("device", {"sweeper_maintenance_trigger"}, "SweeperMaintenanceCommand", "sweeper_maintenance_command")
      \/ r \in Rows("device", {"brush_roll_jam_response"}, "BrushRollJamResponseCommand", "cleaning_workflow_response")
      \/ r \in {Row("device", "brush_roll_jam_outcome_dismiss", "BrushRollJamOutcomeDismissCommand", "sweeper_jam_outcome_dismiss", <<>>)}
      \/ r \in Rows("telemetry", {"live_activity_registration"}, "LiveActivityRegistrationCommand", "live_activity_registration")
  BY DEF StableRows
<1> QED BY <1>1, <1>2, <1>3, <1>4, <1>5, <1>6, <1>7, <1>8, <1>9

\* The rows of the lifecycle commands are in the table.
LEMMA LifecycleRowsFit ==
    ASSUME NEW r \in LifecycleRows
    PROVE  InTable(r)
<1>1. InTable(Row("lifecycle", "update", "LifecycleCommand", "update_command", <<10, 0>>))
  <2>1. "LifecycleCommand" \in DOMAIN Prefix /\ "lifecycle" = Prefix["LifecycleCommand"] BY DEF Prefix
  <2>2. /\ "update" \in ActionsOf("LifecycleCommand") /\ ModelAt(<<"lifecycle", "update">>) = "LifecycleCommand"
        /\ "update_command" = TargetAt("LifecycleCommand", "update") /\ <<10, 0>> = RecordAt("LifecycleCommand", "update")
    BY DEF ActionsOf, ModelAt, TargetAt, RecordAt, UserModels
  <2> QED BY <2>1, <2>2, RowFits
<1>2. InTable(Row("lifecycle", "reboot", "LifecycleCommand", "reboot_command", <<10, 0>>))
  <2>1. "LifecycleCommand" \in DOMAIN Prefix /\ "lifecycle" = Prefix["LifecycleCommand"] BY DEF Prefix
  <2>2. /\ "reboot" \in ActionsOf("LifecycleCommand") /\ ModelAt(<<"lifecycle", "reboot">>) = "LifecycleCommand"
        /\ "reboot_command" = TargetAt("LifecycleCommand", "reboot") /\ <<10, 0>> = RecordAt("LifecycleCommand", "reboot")
    BY DEF ActionsOf, ModelAt, TargetAt, RecordAt, UserModels
  <2> QED BY <2>1, <2>2, RowFits
<1>3. InTable(Row("lifecycle", "shutdown", "LifecycleCommand", "reboot_command", <<18, 0>>))
  <2>1. "LifecycleCommand" \in DOMAIN Prefix /\ "lifecycle" = Prefix["LifecycleCommand"] BY DEF Prefix
  <2>2. /\ "shutdown" \in ActionsOf("LifecycleCommand") /\ ModelAt(<<"lifecycle", "shutdown">>) = "LifecycleCommand"
        /\ "reboot_command" = TargetAt("LifecycleCommand", "shutdown") /\ <<18, 0>> = RecordAt("LifecycleCommand", "shutdown")
    BY DEF ActionsOf, ModelAt, TargetAt, RecordAt, UserModels
  <2> QED BY <2>1, <2>2, RowFits
<1>4. \/ r \in {Row("lifecycle", "update", "LifecycleCommand", "update_command", <<10, 0>>)}
      \/ r \in {Row("lifecycle", "reboot", "LifecycleCommand", "reboot_command", <<10, 0>>)}
      \/ r \in {Row("lifecycle", "shutdown", "LifecycleCommand", "reboot_command", <<18, 0>>)}
  BY DEF LifecycleRows
<1> QED BY <1>1, <1>2, <1>3, <1>4

\* The rows of the settings and of the audio recordings are in the table.
LEMMA SettingRowsFit ==
    ASSUME NEW r \in SettingRows
    PROVE  InTable(r)
<1>1. DOMAIN SettingTargets = BinarySettings \cup {"jukebox"} BY DEF SettingTargets, BinarySettings
<1>2. PICK a \in BinarySettings \cup {"jukebox"} :
         r = Row("settings", a, "SettingsCommand", SettingTargets[a], None)
  BY <1>1 DEF SettingRows
<1>3. "SettingsCommand" \in DOMAIN Prefix /\ "settings" = Prefix["SettingsCommand"] BY DEF Prefix
<1>4. a \in ActionsOf("SettingsCommand") /\ ModelAt(<<"settings", a>>) = "SettingsCommand"
  BY <1>2 DEF ActionsOf, ModelAt, BinarySettings
<1>5. SettingTargets[a] = TargetAt("SettingsCommand", a) BY DEF TargetAt, UserModels
<1>6. None = RecordAt("SettingsCommand", a) BY <1>2 DEF RecordAt, BinarySettings
<1> QED BY <1>2, <1>3, <1>4, <1>5, <1>6, RowFits

\* Every CommandSpec of the registry is in the table.
LEMMA TableIs ==
    ASSUME NEW r \in CommandSpecs
    PROVE  InTable(r)
BY UserRowsFit, MotionRowsFit, CoverageRowsFit, MapRowsFit, WifiRowsFit, DeviceRowsFit,
   SettingRowsFit, ScheduleRowsFit, MediaRowsFit, TelemetryRowsFit, StableRowsFit, LifecycleRowsFit
   DEF CommandSpecs

\* A target says which model it is for, but for those of user_command.
ScheduleTargetNames == {"edit_schedule", "edit_sink_summon_schedule", "generate_suggested_schedule"}
MediaTargets == {"recording_command", "toggle_rolling_recordings", "recording_upload_confirmation"}
SettingTargetNames ==
    {"child_lock_enabled_command", "petwaste_enabled_command", "voice_enabled_command",
     "auto_record_voice_enabled_command", "matter_pairing_command",
     "request_preview_release_command", "jukebox_command"}
DeviceTargets ==
    {"new_bot_name", "set_device_discoverable", "new_mop_roll_override_command",
     "configure_shipping_command", "clear_online_calib_command"}
TelemetryTargets ==
    {"uploader_config_command", "user_tunnel_ssh_permission_command", "subscribe_push_notifications"}
FamilyOf(t) ==
    IF t = "user_command" THEN "UserCommand"
    ELSE IF t = "motor_command" THEN "RawMotorCommand"
    ELSE IF t \in MapTargets THEN "MapEnvironmentCommand"
    ELSE IF t \in {"wifi_scan_command", "wifi_update_command"} THEN "WifiCommand"
    ELSE IF t \in DeviceTargets THEN "DeviceCommand"
    ELSE IF t \in SettingTargetNames THEN "SettingsCommand"
    ELSE IF t \in ScheduleTargetNames THEN "ScheduleCommand"
    ELSE IF t \in MediaTargets THEN "MediaCommand"
    ELSE IF t \in TelemetryTargets THEN "TelemetryCommand"
    ELSE IF t = "user_audio_recording_command" THEN "UserAudioRecordingCommand"
    ELSE IF t = "deep_mop_override_setting_command" THEN "DeepMopOverrideCommand"
    ELSE IF t = "water_flow_override_command" THEN "WaterFlowOverrideCommand"
    ELSE IF t = "sweeper_maintenance_command" THEN "SweeperMaintenanceCommand"
    ELSE IF t = "cleaning_workflow_response" THEN "BrushRollJamResponseCommand"
    ELSE IF t = "sweeper_jam_outcome_dismiss" THEN "BrushRollJamOutcomeDismissCommand"
    ELSE IF t = "live_activity_registration" THEN "LiveActivityRegistrationCommand"
    ELSE "LifecycleCommand"
Family(model) == IF model \in UserModels THEN "UserCommand" ELSE model

\* The models that the registry has an arm for.
LEMMA ModelNames ==
    DOMAIN Prefix = UserModels \cup
        {"RawMotorCommand", "MapEnvironmentCommand", "WifiCommand", "DeviceCommand",
         "SettingsCommand", "ScheduleCommand", "MediaCommand", "TelemetryCommand",
         "UserAudioRecordingCommand", "DeepMopOverrideCommand", "WaterFlowOverrideCommand",
         "SweeperMaintenanceCommand", "BrushRollJamResponseCommand",
         "BrushRollJamOutcomeDismissCommand", "LiveActivityRegistrationCommand",
         "LifecycleCommand"}
BY DEF Prefix, UserModels

\* A map action is sent to one of the map's targets.
LEMMA MapTargetIs ==
    ASSUME NEW a \in MapEnvironmentActions
    PROVE  MapTarget(a) \in MapTargets
BY DEF MapTarget, MapTargets, MapEnvironmentActions

\* A setting is sent to one of the settings' targets.
LEMMA SettingTargetIs ==
    ASSUME NEW a \in BinarySettings \cup {"jukebox"}
    PROVE  SettingTargets[a] \in SettingTargetNames
BY DEF SettingTargets, SettingTargetNames, BinarySettings

\* The target of a model's action is of the model's family.
LEMMA FamilyIs ==
    ASSUME NEW model \in DOMAIN Prefix, NEW a \in ActionsOf(model)
    PROVE  FamilyOf(TargetAt(model, a)) = Family(model)
<1> DEFINE t == TargetAt(model, a)
<1>1. CASE model \in UserModels
  <2>1. t = "user_command" BY <1>1 DEF TargetAt
  <2> QED BY <1>1, <2>1 DEF FamilyOf, Family
<1>2. CASE model = "MapEnvironmentCommand"
  <2>1. a \in MapEnvironmentActions BY <1>2 DEF ActionsOf
  <2>2. t = MapTarget(a) BY <1>2 DEF TargetAt, UserModels
  <2>3. t \in MapTargets BY <2>1, <2>2, MapTargetIs
  <2> QED BY <1>2, <2>3 DEF FamilyOf, Family, UserModels, MapTargets
<1>3. CASE model = "SettingsCommand"
  <2>1. a \in BinarySettings \cup {"jukebox"} BY <1>3 DEF ActionsOf
  <2>2. t = SettingTargets[a] BY <1>3 DEF TargetAt, UserModels
  <2>3. t \in SettingTargetNames BY <2>1, <2>2, SettingTargetIs
  <2> QED BY <1>3, <2>3 DEF FamilyOf, Family, UserModels, MapTargets, SettingTargetNames, DeviceTargets
<1>4. CASE model = "DeviceCommand"
  <2>1. t = DeviceTarget(a) BY <1>4 DEF TargetAt, UserModels
  <2>2. t \in DeviceTargets BY <2>1 DEF DeviceTarget, DeviceTargets
  <2> QED BY <1>4, <2>2 DEF FamilyOf, Family, UserModels, MapTargets, DeviceTargets
<1>5. CASE model = "ScheduleCommand"
  <2>1. t = ScheduleTarget(a) BY <1>5 DEF TargetAt, UserModels
  <2>2. t \in ScheduleTargetNames BY <2>1 DEF ScheduleTarget, ScheduleTargetNames
  <2> QED BY <1>5, <2>2
          DEF FamilyOf, Family, UserModels, MapTargets, DeviceTargets, SettingTargetNames, ScheduleTargetNames
<1>6. CASE model = "MediaCommand"
  <2>1. t = MediaTarget(a) BY <1>6 DEF TargetAt, UserModels
  <2>2. t \in MediaTargets BY <2>1 DEF MediaTarget, MediaTargets
  <2> QED BY <1>6, <2>2
          DEF FamilyOf, Family, UserModels, MapTargets, DeviceTargets, SettingTargetNames, ScheduleTargetNames,
              MediaTargets
<1>7. CASE model = "TelemetryCommand"
  <2>1. t = TelemetryTarget(a) BY <1>7 DEF TargetAt, UserModels
  <2>2. t \in TelemetryTargets BY <2>1 DEF TelemetryTarget, TelemetryTargets
  <2> QED BY <1>7, <2>2
          DEF FamilyOf, Family, UserModels, MapTargets, DeviceTargets, SettingTargetNames, ScheduleTargetNames,
              MediaTargets, TelemetryTargets
<1>8. CASE model \in {"RawMotorCommand", "WifiCommand",
         "UserAudioRecordingCommand", "DeepMopOverrideCommand", "WaterFlowOverrideCommand",
         "SweeperMaintenanceCommand", "BrushRollJamResponseCommand",
         "BrushRollJamOutcomeDismissCommand", "LiveActivityRegistrationCommand",
         "LifecycleCommand"}
  BY <1>8
     DEF TargetAt, FamilyOf, Family, UserModels, MapTargets, DeviceTargets, SettingTargetNames, ScheduleTargetNames,
         MediaTargets, TelemetryTargets
<1> QED BY <1>1, <1>2, <1>3, <1>4, <1>5, <1>6, <1>7, <1>8, ModelNames

\* A target tells the model, but for user_command, which many models share.
LEMMA TargetTellsModel ==
    ASSUME NEW model \in DOMAIN Prefix, NEW a \in ActionsOf(model),
           NEW other \in DOMAIN Prefix, NEW b \in ActionsOf(other),
           TargetAt(model, a) = TargetAt(other, b)
    PROVE  model = other \/ (model \in UserModels /\ other \in UserModels)
<1>1. Family(model) = Family(other) BY FamilyIs
<1> QED BY <1>1 DEF Family, UserModels

\* What encode() finds in the table for a command.
ActionAt(c) == IF c.type = "ReprioritizeCoverageCommand" THEN "reprioritize" ELSE c.action

\* What a known command is turned into: the target of its row and the
\* payload of its codec, the record of its row when it has one
\* (CommandRegistry.encode).
LEMMA KnownIs ==
    ASSUME NEW c, c.type \in DOMAIN Prefix, Known(c)
    PROVE  /\ ActionAt(c) \in ActionsOf(c.type)
           /\ Request(c).target = TargetAt(c.type, ActionAt(c))
           /\ Request(c).payload = Payload(c)
<1> DEFINE k == CommandKey(c)
<1>1. k = <<Prefix[c.type], ActionAt(c)>> BY DEF CommandKey, ActionAt
<1>2. \E r \in CommandSpecs : r.key = k BY DEF Known, Keys
<1>3. SpecFor(k) \in CommandSpecs /\ SpecFor(k).key = k BY <1>2 DEF SpecFor
<1>4. PICK r \in CommandSpecs : r = SpecFor(k) BY <1>3
<1>5. r.key = k /\ r.model = c.type BY <1>3, <1>4 DEF Known
<1>6. PICK model \in DOMAIN Prefix : \E a \in ActionsOf(model) : Fits(model, a, r)
  BY TableIs DEF InTable
<1>7. PICK a \in ActionsOf(model) : Fits(model, a, r) BY <1>6
<1>8. model = c.type /\ a = ActionAt(c) BY <1>1, <1>5, <1>7 DEF Fits
<1>9. r.target = TargetAt(c.type, ActionAt(c)) BY <1>7, <1>8 DEF Fits
<1> QED BY <1>4, <1>7, <1>8, <1>9 DEF Request

\* A command whose arguments are what its codec takes, all of them.
Whole(c) ==
    /\ c.type \in DOMAIN Prefix
    /\ c.type \in UserModels => UserTarget(c)
    /\ c.type = "RawMotorCommand" => c \in ExactRawMotor
    /\ c.type = "MapEnvironmentCommand" => c \in ExactMaps
    /\ c.type = "WifiCommand" => c \in ExactWifi /\ WifiAccepts(c)
    /\ c.type = "DeviceCommand" => c \in ExactDevice /\ DeviceAccepts(c)
    /\ c.type = "SettingsCommand" => c \in ExactSettings /\ SettingsAccepts(c)
    /\ c.type = "ScheduleCommand" => c \in ExactSchedules
    /\ c.type = "MediaCommand" => c \in ExactMedia /\ MediaAccepts(c)
    /\ c.type = "TelemetryCommand" => c \in ExactTelemetry /\ TelemetryAccepts(c)
    /\ c.type = "UserAudioRecordingCommand" => c \in ExactAudio
    /\ c.type = "DeepMopOverrideCommand" => c \in ExactDeepMop
    /\ c.type = "WaterFlowOverrideCommand" => c \in ExactWaterFlow
    /\ c.type = "SweeperMaintenanceCommand" => c \in ExactSweeper
    /\ c.type = "BrushRollJamResponseCommand" => c \in ExactBrushRoll
    /\ c.type = "BrushRollJamOutcomeDismissCommand" => c \in ExactDismiss
    /\ c.type = "LiveActivityRegistrationCommand" => c \in ExactLiveActivity
    /\ c.type = "LifecycleCommand" => c \in ExactLifecycle

\* Targets that are the same say as much of the action as the payload needs.
LEMMA SameTargets ==
    ASSUME NEW a, NEW b
    PROVE  /\ a \in BinarySettings \cup {"jukebox"} /\ b \in BinarySettings \cup {"jukebox"}
              /\ SettingTargets[a] = SettingTargets[b] => a = b
           /\ a \in DeviceActions /\ b \in DeviceActions /\ DeviceTarget(a) = DeviceTarget(b) => a = b
           /\ a \in TelemetryActions /\ b \in TelemetryActions
              /\ TelemetryTarget(a) = TelemetryTarget(b) => a = b
<1>1. a \in BinarySettings \cup {"jukebox"} /\ b \in BinarySettings \cup {"jukebox"}
      /\ SettingTargets[a] = SettingTargets[b] => a = b
  BY DEF SettingTargets, BinarySettings
<1>2. a \in DeviceActions /\ b \in DeviceActions /\ DeviceTarget(a) = DeviceTarget(b) => a = b
  BY DEF DeviceTarget, DeviceActions
<1>3. a \in TelemetryActions /\ b \in TelemetryActions /\ TelemetryTarget(a) = TelemetryTarget(b) => a = b
  BY DEF TelemetryTarget, TelemetryActions
<1> QED BY <1>1, <1>2, <1>3

\* There is one dismissal.
LEMMA DismissTells ==
    ASSUME NEW c \in ExactDismiss, NEW d \in ExactDismiss
    PROVE  c = d
<1>1. \A x \in ExactDismiss : x = [type |-> "BrushRollJamOutcomeDismissCommand",
                                   action |-> "brush_roll_jam_outcome_dismiss"]
  BY DEF ExactDismiss
<1> QED BY <1>1

\* Two such commands that encode() turns into the same request ask for the
\* same.
Same(c, d) ==
    /\ Whole(c) /\ Whole(d) /\ ActionAt(c) \in ActionsOf(c.type) /\ ActionAt(d) \in ActionsOf(d.type)
    /\ TargetAt(c.type, ActionAt(c)) = TargetAt(d.type, ActionAt(d)) /\ Payload(c) = Payload(d)
    /\ d.type = c.type

\* Two raw motor commands that become one request ask for the same.
LEMMA RawMotorSame ==
    ASSUME NEW c, NEW d, Same(c, d), c.type = "RawMotorCommand"
    PROVE  Intent(c) = Intent(d)
<1>1. c \in ExactRawMotor /\ d \in ExactRawMotor /\ d.type = "RawMotorCommand" BY DEF Same, Whole
<1>2. RawMotorPayload(c) = RawMotorPayload(d)
  <2>1. Payload(c) = RawMotorPayload(c) /\ Payload(d) = RawMotorPayload(d) BY <1>1, MotionPayloads
  <2> QED BY <2>1 DEF Same
<1>3. c = d BY <1>1, <1>2, RawMotorTells
<1> QED BY <1>3

\* Two deep mop overrides that become one request ask for the same.
LEMMA DeepMopSame ==
    ASSUME NEW c, NEW d, Same(c, d), c.type = "DeepMopOverrideCommand"
    PROVE  Intent(c) = Intent(d)
<1>1. c \in ExactDeepMop /\ d \in ExactDeepMop /\ d.type = "DeepMopOverrideCommand" BY DEF Same, Whole
<1>2. DeepMopOverridePayload(c) = DeepMopOverridePayload(d)
  <2>1. Payload(c) = DeepMopOverridePayload(c) /\ Payload(d) = DeepMopOverridePayload(d) BY <1>1, SettingPayloads
  <2> QED BY <2>1 DEF Same
<1>3. c = d BY <1>1, <1>2, DeepMopTells
<1> QED BY <1>3

\* Two water flow overrides that become one request ask for the same.
LEMMA WaterFlowSame ==
    ASSUME NEW c, NEW d, Same(c, d), c.type = "WaterFlowOverrideCommand"
    PROVE  Intent(c) = Intent(d)
<1>1. c \in ExactWaterFlow /\ d \in ExactWaterFlow /\ d.type = "WaterFlowOverrideCommand" BY DEF Same, Whole
<1>2. WaterFlowOverridePayload(c) = WaterFlowOverridePayload(d)
  <2>1. Payload(c) = WaterFlowOverridePayload(c) /\ Payload(d) = WaterFlowOverridePayload(d) BY <1>1, SettingPayloads
  <2> QED BY <2>1 DEF Same
<1>3. c = d BY <1>1, <1>2, WaterFlowTells
<1> QED BY <1>3

\* Two sweeper maintenance commands that become one request ask for the
\* same.
LEMMA SweeperSame ==
    ASSUME NEW c, NEW d, Same(c, d), c.type = "SweeperMaintenanceCommand"
    PROVE  Intent(c) = Intent(d)
<1>1. c \in ExactSweeper /\ d \in ExactSweeper /\ d.type = "SweeperMaintenanceCommand" BY DEF Same, Whole
<1>2. SweeperMaintenancePayload(c) = SweeperMaintenancePayload(d)
  <2>1. Payload(c) = SweeperMaintenancePayload(c) /\ Payload(d) = SweeperMaintenancePayload(d) BY <1>1, DevicePayloads
  <2> QED BY <2>1 DEF Same
<1>3. c = d BY <1>1, <1>2, SweeperTells
<1> QED BY <1>3

\* Two responses to a jam that become one request ask for the same.
LEMMA BrushRollSame ==
    ASSUME NEW c, NEW d, Same(c, d), c.type = "BrushRollJamResponseCommand"
    PROVE  Intent(c) = Intent(d)
<1>1. c \in ExactBrushRoll /\ d \in ExactBrushRoll /\ d.type = "BrushRollJamResponseCommand" BY DEF Same, Whole
<1>2. BrushRollJamResponsePayload(c) = BrushRollJamResponsePayload(d)
  <2>1. Payload(c) = BrushRollJamResponsePayload(c) /\ Payload(d) = BrushRollJamResponsePayload(d) BY <1>1, DevicePayloads
  <2> QED BY <2>1 DEF Same
<1>3. c = d BY <1>1, <1>2, BrushRollTells
<1> QED BY <1>3

\* Two audio recording commands that become one request ask for the same.
LEMMA AudioSame ==
    ASSUME NEW c, NEW d, Same(c, d), c.type = "UserAudioRecordingCommand"
    PROVE  Intent(c) = Intent(d)
<1>1. c \in ExactAudio /\ d \in ExactAudio /\ d.type = "UserAudioRecordingCommand" BY DEF Same, Whole
<1>2. UserAudioRecordingPayload(c) = UserAudioRecordingPayload(d)
  <2>1. Payload(c) = UserAudioRecordingPayload(c) /\ Payload(d) = UserAudioRecordingPayload(d) BY <1>1, SettingPayloads
  <2> QED BY <2>1 DEF Same
<1>3. c = d BY <1>1, <1>2, AudioTells
<1> QED BY <1>3

\* Two live activity registrations that become one request ask for the same.
LEMMA LiveActivitySame ==
    ASSUME NEW c, NEW d, Same(c, d), c.type = "LiveActivityRegistrationCommand"
    PROVE  Intent(c) = Intent(d)
<1>1. c \in ExactLiveActivity /\ d \in ExactLiveActivity /\ d.type = "LiveActivityRegistrationCommand" BY DEF Same, Whole
<1>2. LiveActivityRegistrationPayload(c) = LiveActivityRegistrationPayload(d)
  <2>1. Payload(c) = LiveActivityRegistrationPayload(c) /\ Payload(d) = LiveActivityRegistrationPayload(d) BY <1>1, SettingPayloads
  <2> QED BY <2>1 DEF Same
<1>3. c = d BY <1>1, <1>2, LiveActivityTells
<1> QED BY <1>3

\* Two settings that become one request ask for the same: each action has a
\* target of its own.
LEMMA SettingsSame ==
    ASSUME NEW c, NEW d, Same(c, d), c.type = "SettingsCommand"
    PROVE  Intent(c) = Intent(d)
<1>1. c \in ExactSettings /\ d \in ExactSettings /\ d.type = "SettingsCommand" /\ SettingsAccepts(c) /\ SettingsAccepts(d)
  BY DEF Same, Whole
<1>2. SettingsPayload(c) = SettingsPayload(d)
  <2>1. Payload(c) = SettingsPayload(c) /\ Payload(d) = SettingsPayload(d) BY <1>1, SettingPayloads
  <2> QED BY <2>1 DEF Same
<1>3. ActionAt(c) = c.action /\ ActionAt(d) = d.action BY <1>1 DEF ActionAt
<1>4. SettingTargets[c.action] = SettingTargets[d.action]
  <2>1. TargetAt(c.type, c.action) = SettingTargets[c.action]
        /\ TargetAt(d.type, d.action) = SettingTargets[d.action]
    BY <1>1 DEF TargetAt, UserModels
  <2> QED BY <1>3, <2>1 DEF Same
<1>5. c.action \in ActionsOf(c.type) /\ d.action \in ActionsOf(d.type) BY <1>3 DEF Same
<1>6. c.action = d.action BY <1>1, <1>4, <1>5, SameTargets DEF ActionsOf
<1>7. c = d BY <1>1, <1>2, <1>6, SettingsTells
<1> QED BY <1>7

\* Two device commands that become one request ask for the same: each action
\* has a target of its own.
LEMMA DeviceSame ==
    ASSUME NEW c, NEW d, Same(c, d), c.type = "DeviceCommand"
    PROVE  Intent(c) = Intent(d)
<1>1. c \in ExactDevice /\ d \in ExactDevice /\ d.type = "DeviceCommand" /\ DeviceAccepts(c) /\ DeviceAccepts(d)
  BY DEF Same, Whole
<1>2. DevicePayload(c) = DevicePayload(d)
  <2>1. Payload(c) = DevicePayload(c) /\ Payload(d) = DevicePayload(d) BY <1>1, DevicePayloads
  <2> QED BY <2>1 DEF Same
<1>3. ActionAt(c) = c.action /\ ActionAt(d) = d.action BY <1>1 DEF ActionAt
<1>4. DeviceTarget(c.action) = DeviceTarget(d.action)
  <2>1. TargetAt(c.type, c.action) = DeviceTarget(c.action)
        /\ TargetAt(d.type, d.action) = DeviceTarget(d.action)
    BY <1>1 DEF TargetAt, UserModels
  <2> QED BY <1>3, <2>1 DEF Same
<1>5. c.action \in ActionsOf(c.type) /\ d.action \in ActionsOf(d.type) BY <1>3 DEF Same
<1>6. c.action = d.action BY <1>1, <1>4, <1>5, SameTargets DEF ActionsOf
<1>7. c = d BY <1>1, <1>2, <1>6, DeviceTells
<1> QED BY <1>7

\* Two telemetry commands that become one request ask for the same: each
\* action has a target of its own.
LEMMA TelemetrySame ==
    ASSUME NEW c, NEW d, Same(c, d), c.type = "TelemetryCommand"
    PROVE  Intent(c) = Intent(d)
<1>1. c \in ExactTelemetry /\ d \in ExactTelemetry /\ d.type = "TelemetryCommand" /\ TelemetryAccepts(c) /\ TelemetryAccepts(d)
  BY DEF Same, Whole
<1>2. TelemetryPayload(c) = TelemetryPayload(d)
  <2>1. Payload(c) = TelemetryPayload(c) /\ Payload(d) = TelemetryPayload(d) BY <1>1, SettingPayloads
  <2> QED BY <2>1 DEF Same
<1>3. ActionAt(c) = c.action /\ ActionAt(d) = d.action BY <1>1 DEF ActionAt
<1>4. TelemetryTarget(c.action) = TelemetryTarget(d.action)
  <2>1. TargetAt(c.type, c.action) = TelemetryTarget(c.action)
        /\ TargetAt(d.type, d.action) = TelemetryTarget(d.action)
    BY <1>1 DEF TargetAt, UserModels
  <2> QED BY <1>3, <2>1 DEF Same
<1>5. c.action \in ActionsOf(c.type) /\ d.action \in ActionsOf(d.type) BY <1>3 DEF Same
<1>6. c.action = d.action BY <1>1, <1>4, <1>5, SameTargets DEF ActionsOf
<1>7. c = d BY <1>1, <1>2, <1>6, TelemetryTells
<1> QED BY <1>7

\* Two recording commands that become one request ask for the same.
LEMMA MediaSame ==
    ASSUME NEW c, NEW d, Same(c, d), c.type = "MediaCommand"
    PROVE  Intent(c) = Intent(d)
<1>1. c \in ExactMedia /\ d \in ExactMedia /\ d.type = "MediaCommand" /\ MediaAccepts(c) /\ MediaAccepts(d)
  BY DEF Same, Whole
<1>2. MediaPayload(c) = MediaPayload(d)
  <2>1. Payload(c) = MediaPayload(c) /\ Payload(d) = MediaPayload(d) BY <1>1, SettingPayloads
  <2> QED BY <2>1 DEF Same
<1>3. ActionAt(c) = c.action /\ ActionAt(d) = d.action BY <1>1 DEF ActionAt
<1>4. MediaTarget(c.action) = MediaTarget(d.action)
  <2>1. TargetAt(c.type, c.action) = MediaTarget(c.action)
        /\ TargetAt(d.type, d.action) = MediaTarget(d.action)
    BY <1>1 DEF TargetAt, UserModels
  <2> QED BY <1>3, <2>1 DEF Same
<1>6. MediaTarget(c.action) = MediaTarget(d.action) BY <1>4
<1>7. c = d BY <1>1, <1>2, <1>6, MediaTells
<1> QED BY <1>7

\* Two Wi-Fi commands that become one request ask for the same.
LEMMA WifiSame ==
    ASSUME NEW c, NEW d, Same(c, d), c.type = "WifiCommand"
    PROVE  Intent(c) = Intent(d)
<1>1. c \in ExactWifi /\ d \in ExactWifi /\ d.type = "WifiCommand" /\ WifiAccepts(c) /\ WifiAccepts(d)
  BY DEF Same, Whole
<1>2. WifiPayload(c) = WifiPayload(d)
  <2>1. Payload(c) = WifiPayload(c) /\ Payload(d) = WifiPayload(d) BY <1>1, DevicePayloads
  <2> QED BY <2>1 DEF Same
<1>3. ActionAt(c) = c.action /\ ActionAt(d) = d.action BY <1>1 DEF ActionAt
<1>4. (IF c.action = "scan" THEN "wifi_scan_command" ELSE "wifi_update_command") = (IF d.action = "scan" THEN "wifi_scan_command" ELSE "wifi_update_command")
  <2>1. TargetAt(c.type, c.action) = (IF c.action = "scan" THEN "wifi_scan_command" ELSE "wifi_update_command")
        /\ TargetAt(d.type, d.action) = (IF d.action = "scan" THEN "wifi_scan_command" ELSE "wifi_update_command")
    BY <1>1 DEF TargetAt, UserModels
  <2> QED BY <1>3, <2>1 DEF Same
<1>6. c.action = "scan" <=> d.action = "scan" BY <1>4
<1>7. c = d BY <1>1, <1>2, <1>6, WifiTells
<1> QED BY <1>7

\* Two lifecycle commands that become one request ask for the same.
LEMMA LifecycleSame ==
    ASSUME NEW c, NEW d, Same(c, d), c.type = "LifecycleCommand"
    PROVE  Intent(c) = Intent(d)
<1>1. c \in ExactLifecycle /\ d \in ExactLifecycle /\ d.type = "LifecycleCommand"
  BY DEF Same, Whole
<1>2. LifecyclePayload(c) = LifecyclePayload(d)
  <2>1. Payload(c) = LifecyclePayload(c) /\ Payload(d) = LifecyclePayload(d) BY <1>1, DevicePayloads
  <2> QED BY <2>1 DEF Same
<1>3. ActionAt(c) = c.action /\ ActionAt(d) = d.action BY <1>1 DEF ActionAt
<1>4. (IF c.action = "update" THEN "update_command" ELSE "reboot_command") = (IF d.action = "update" THEN "update_command" ELSE "reboot_command")
  <2>1. TargetAt(c.type, c.action) = (IF c.action = "update" THEN "update_command" ELSE "reboot_command")
        /\ TargetAt(d.type, d.action) = (IF d.action = "update" THEN "update_command" ELSE "reboot_command")
    BY <1>1 DEF TargetAt, UserModels
  <2> QED BY <1>3, <2>1 DEF Same
<1>6. c.action = "update" <=> d.action = "update" BY <1>4
<1>7. c = d BY <1>1, <1>2, <1>6, LifecycleTells
<1> QED BY <1>7

\* Two schedule commands that become one request ask for the same.
LEMMA ScheduleSame ==
    ASSUME NEW c, NEW d, Same(c, d), c.type = "ScheduleCommand"
    PROVE  Intent(c) = Intent(d)
<1>1. c \in ExactSchedules /\ d \in ExactSchedules /\ d.type = "ScheduleCommand"
  BY DEF Same, Whole
<1>2. SchedulePayload(c) = SchedulePayload(d)
  <2>1. Payload(c) = SchedulePayload(c) /\ Payload(d) = SchedulePayload(d) BY <1>1, CoveragePayloads
  <2> QED BY <2>1 DEF Same
<1>3. ActionAt(c) = c.action /\ ActionAt(d) = d.action BY <1>1 DEF ActionAt
<1>4. ScheduleTarget(c.action) = ScheduleTarget(d.action)
  <2>1. TargetAt(c.type, c.action) = ScheduleTarget(c.action)
        /\ TargetAt(d.type, d.action) = ScheduleTarget(d.action)
    BY <1>1 DEF TargetAt, UserModels
  <2> QED BY <1>3, <2>1 DEF Same
<1>6. ScheduleTarget(c.action) = ScheduleTarget(d.action) BY <1>4
<1> QED BY <1>1, <1>2, <1>6, ScheduleTells

\* Two map commands that become one request ask for the same, but for the
\* kind of a zone.
LEMMA MapSame ==
    ASSUME NEW c, NEW d, Same(c, d), c.type = "MapEnvironmentCommand"
    PROVE  Told(c, d)
<1>1. c \in ExactMaps /\ d \in ExactMaps /\ d.type = "MapEnvironmentCommand"
  BY DEF Same, Whole
<1>2. MapPayload(c) = MapPayload(d)
  <2>1. Payload(c) = MapPayload(c) /\ Payload(d) = MapPayload(d) BY <1>1, CoveragePayloads
  <2> QED BY <2>1 DEF Same
<1>3. ActionAt(c) = c.action /\ ActionAt(d) = d.action BY <1>1 DEF ActionAt
<1>4. MapTarget(c.action) = MapTarget(d.action)
  <2>1. TargetAt(c.type, c.action) = MapTarget(c.action)
        /\ TargetAt(d.type, d.action) = MapTarget(d.action)
    BY <1>1 DEF TargetAt, UserModels
  <2> QED BY <1>3, <2>1 DEF Same
<1>6. MapTarget(c.action) = MapTarget(d.action) BY <1>4
<1> QED BY <1>1, <1>2, <1>6, MapTells

\* Two whole commands that the registry turns into one request ask for the
\* same, but for the kind of a zone: the target tells the model and the
\* payload the arguments.
LEMMA RequestsTell ==
    ASSUME NEW c, NEW d, Whole(c), Whole(d), Known(c), Known(d), Request(c) = Request(d)
    PROVE  Told(c, d)
<1>1. /\ ActionAt(c) \in ActionsOf(c.type) /\ ActionAt(d) \in ActionsOf(d.type)
      /\ TargetAt(c.type, ActionAt(c)) = TargetAt(d.type, ActionAt(d)) /\ Payload(c) = Payload(d)
  <2>1. c.type \in DOMAIN Prefix /\ d.type \in DOMAIN Prefix BY DEF Whole
  <2> QED BY <2>1, KnownIs
<1>2. c.type = d.type \/ (c.type \in UserModels /\ d.type \in UserModels)
  <2>1. c.type \in DOMAIN Prefix /\ d.type \in DOMAIN Prefix BY DEF Whole
  <2>2. PICK m \in DOMAIN Prefix, n \in DOMAIN Prefix : m = c.type /\ n = d.type BY <2>1
  <2>3. PICK a, b : a = ActionAt(c) /\ b = ActionAt(d) OBVIOUS
  <2> QED BY <1>1, <2>2, <2>3, TargetTellsModel
<1>3. CASE c.type \in UserModels /\ d.type \in UserModels
  <2>1. UserTarget(c) /\ UserTarget(d) BY <1>3 DEF Whole
  <2> QED BY <1>1, <2>1, UserTargetTells DEF Told
<1>4. CASE c.type = d.type /\ c.type \notin UserModels
  <2>1. Same(c, d) BY <1>1, <1>4 DEF Same
  <2>2. c.type \in DOMAIN Prefix BY DEF Whole
  <2>3. CASE c.type = "BrushRollJamOutcomeDismissCommand"
    <3>1. c \in ExactDismiss /\ d \in ExactDismiss BY <1>4, <2>3 DEF Whole
    <3>2. c = d BY <3>1, DismissTells
    <3> QED BY <3>2 DEF Told
  <2>4. CASE c.type = "MapEnvironmentCommand" BY <2>1, <2>4, MapSame
  <2>5. CASE c.type \notin {"BrushRollJamOutcomeDismissCommand", "MapEnvironmentCommand"}
    <3>1. Intent(c) = Intent(d)
      BY <1>4, <2>1, <2>2, <2>5, ModelNames, RawMotorSame, DeepMopSame, WaterFlowSame, SweeperSame,
         BrushRollSame, AudioSame, LiveActivitySame, SettingsSame, DeviceSame, TelemetrySame,
         MediaSame, WifiSame, LifecycleSame, ScheduleSame
    <3> QED BY <3>1 DEF Told
  <2> QED BY <2>3, <2>4, <2>5
<1> QED BY <1>2, <1>3, <1>4

------------------------------------------------------------------------------
\* A command that its codec takes has the arguments of its action, whatever
\* the values that were tried: it is whole.

\* What is left of a command's arguments when its codec takes it.

\* An argument that is no mark is one of its type.
LEMMA ArgumentsAre ==
    /\ \A x \in Maybe(U32) : x # Junk => x \in Nat \cup {None}
    /\ \A x \in Or(U32) : x # Junk => x \in Nat
    /\ \A x \in U32 : x \in Nat
    /\ \A x \in Maybe(Uuids) : x # Junk => x \in Halves \cup {None}
    /\ \A x \in Or(Uuids) : x # Junk => x \in Halves
    /\ \A x \in Uuids : x \in Halves
    /\ \A x \in Partitions : x \in Halves
    /\ \A x \in Maybe(Texts) : x # Junk => x \in Spoken \cup {None}
    /\ \A x \in Or(Texts) : x # Junk => x \in Spoken
    /\ \A x \in Texts : x \in Spoken
    /\ \A x \in Or(Floats) : x # Junk => x \in Int
    /\ \A x \in Maybe(Bools) : x # Junk => x \in Bools \cup {None}
    /\ \A x \in Or(Bools) : x # Junk => x \in Bools
<1>1. /\ U32 \subseteq Nat /\ Floats \subseteq Int /\ Uuids \subseteq Halves
      /\ Partitions \subseteq Halves
  BY ArgumentsAssumption
<1>2. \A text \in Texts : text \in Spoken BY ArgumentsAssumption DEF Spoken
<1> QED BY <1>1, <1>2 DEF Maybe, Or

\* A user command that its codec takes has the arguments of its action.
LEMMA UserArguments ==
    ASSUME NEW c \in UserCommands, UserAccepts(c)
    PROVE  c \in ExactUser
<1>1. DOMAIN c = {"type", "action", "until_localized", "mission_id", "coverage_session_id"}
  BY DEF UserCommands
<1>2. /\ c.action \in UserActions /\ c.until_localized \in Maybe(Bools)
      /\ c.mission_id \in Maybe(U32) /\ c.coverage_session_id \in Maybe(Uuids)
  BY DEF UserCommands
<1>3. /\ c.until_localized \in Bools \cup {None} \/ c.until_localized = Junk
      /\ c.mission_id \in Nat \cup {None} \/ c.mission_id = Junk
      /\ c.coverage_session_id \in Halves \cup {None} \/ c.coverage_session_id = Junk
  BY <1>2, ArgumentsAre
<1>4. None # Junk BY ArgumentsAssumption
<1>5. Junk \notin Bools BY NamesApart
<1>6. /\ c.until_localized # Junk /\ c.mission_id # Junk /\ c.coverage_session_id # Junk
  <2>1. CASE c.action = "re_explore" BY <1>1, <1>4, <1>5, <2>1 DEF UserAccepts, Only
  <2>2. CASE c.action = "trace_calibration" BY <1>1, <1>4, <2>2 DEF UserAccepts, Only, Valid
  <2>3. CASE c.action \in {"redo_coverage", "resume_coverage"}
    BY <1>1, <1>4, <2>3 DEF UserAccepts, Only, Valid
  <2>4. CASE c.action \notin {"re_explore", "trace_calibration", "redo_coverage", "resume_coverage"}
    BY <1>1, <1>4, <2>4 DEF UserAccepts, Only
  <2> QED BY <2>1, <2>2, <2>3, <2>4
<1> QED BY <1>3, <1>6 DEF UserCommands, ExactUser

\* A joystick command that its codec takes has two speeds.
LEMMA JoystickArguments ==
    ASSUME NEW c \in JoystickCommands, JoystickAccepts(c)
    PROVE  c \in ExactJoystick
<1>1. c.linear_mps \in Or(Floats) /\ c.angular_rad_s \in Or(Floats) BY DEF JoystickCommands
<1>2. c.linear_mps \in Int /\ c.angular_rad_s \in Int
  BY <1>1, ArgumentsAre DEF JoystickAccepts, Valid
<1> QED BY <1>2 DEF JoystickCommands, ExactJoystick

\* A navigation that its codec takes has a mission and a place.
LEMMA NavigationArguments ==
    ASSUME NEW c \in NavigationCommands, NavigationAccepts(c)
    PROVE  c \in ExactNavigation
<1>1. /\ c.mission_id \in Or(U32) /\ c.x_meters \in Or(Floats) /\ c.y_meters \in Or(Floats)
      /\ c.yaw_radians \in Or({0, 1})
  BY DEF NavigationCommands
<1>2. c.mission_id \in Nat /\ c.x_meters \in Int /\ c.y_meters \in Int
  BY <1>1, ArgumentsAre DEF NavigationAccepts, Valid
<1>3. c.yaw_radians \in Int BY <1>1 DEF NavigationAccepts, Valid, Or
<1> QED BY <1>2, <1>3 DEF NavigationCommands, ExactNavigation

\* A manual cleaning that its codec takes has a mode and an intensity.
LEMMA CleaningArguments ==
    ASSUME NEW c \in CleaningCommands, CleaningAccepts(c)
    PROVE  c \in ExactCleaning
BY DEF CleaningCommands, ExactCleaning, ManualModes, CleaningAccepts, Valid, Or

\* A raw motor command that its codec takes has numbers for setpoints.
LEMMA RawMotorArguments ==
    ASSUME NEW c \in RawMotorCommands, RawMotorAccepts(c)
    PROVE  c \in ExactRawMotor
<1>1. DOMAIN c = {"type", "action", "vacuum_rpm", "sweeper_duty", "mopper_duty", "head_position",
                  "side_brush_duty"}
  BY DEF RawMotorCommands
<1>2. c.vacuum_rpm # Junk BY <1>1 DEF RawMotorAccepts
<1> QED BY <1>2 DEF RawMotorCommands, ExactRawMotor, Maybe

\* A setting that its codec takes has the value of its action.
LEMMA SettingsArguments ==
    ASSUME NEW c \in SettingsCommands, SettingsAccepts(c)
    PROVE  c \in ExactSettings
<1>1. c.value \in Bools \cup JukeboxTracks \cup {None} BY DEF SettingsAccepts
<1> QED BY <1>1 DEF SettingsCommands, ExactSettings

\* An override that its codec takes has the values of its model.
LEMMA OverrideArguments ==
    /\ \A c \in DeepMopOverrideCommands : DeepMopOverrideAccepts(c) => c \in ExactDeepMop
    /\ \A c \in WaterFlowOverrideCommands : WaterFlowOverrideAccepts(c) => c \in ExactWaterFlow
BY DEF DeepMopOverrideCommands, DeepMopOverrideAccepts, ExactDeepMop,
       WaterFlowOverrideCommands, WaterFlowOverrideAccepts, ExactWaterFlow

\* A Wi-Fi command that its codec takes has the arguments of its action.
LEMMA WifiArguments ==
    ASSUME NEW c \in WifiCommands, WifiAccepts(c)
    PROVE  c \in ExactWifi
<1>1. DOMAIN c = {"type", "action", "ssid", "passphrase"} BY DEF WifiCommands
<1>2. c.ssid \in Maybe(Texts) /\ c.passphrase \in Maybe(Texts) BY DEF WifiCommands
<1>3. None # Junk BY ArgumentsAssumption
<1>4. c.ssid # Junk /\ c.passphrase # Junk
  <2>1. CASE c.action = "scan" BY <1>1, <1>3, <2>1 DEF WifiAccepts, Only
  <2>2. CASE c.action = "connect" BY <2>2 DEF WifiAccepts, Valid
  <2>3. CASE c.action = "forget" BY <1>3, <2>3 DEF WifiAccepts, Valid
  <2> QED BY <2>1, <2>2, <2>3 DEF WifiCommands
<1>5. c.ssid \in Spoken \cup {None} /\ c.passphrase \in Spoken \cup {None}
  BY <1>2, <1>4, ArgumentsAre
<1> QED BY <1>5 DEF WifiCommands, ExactWifi

\* A device command that its codec takes has the arguments of its action.
LEMMA DeviceShape ==
    ASSUME NEW c \in DeviceCommands, DeviceAccepts(c)
    PROVE  c \in ExactDevice
<1>1. DOMAIN c = {"type", "action", "new_name", "enabled", "discoverable_seconds", "retain_user_data"}
  BY DEF DeviceCommands
<1>2. /\ c.new_name \in Maybe(Texts) /\ c.enabled \in Maybe(Bools)
      /\ c.discoverable_seconds \in Maybe(U32) /\ c.retain_user_data \in Maybe(Bools)
  BY DEF DeviceCommands
<1>3. None # Junk BY ArgumentsAssumption
<1>4. Junk \notin Bools /\ Junk \notin {"True", "False"} BY NamesApart DEF Bools
<1>5. /\ c.new_name # Junk /\ c.enabled # Junk
      /\ c.discoverable_seconds # Junk /\ c.retain_user_data # Junk
  <2>1. CASE c.action = "rename" BY <1>1, <1>3, <2>1 DEF DeviceAccepts, Only, Valid
  <2>2. CASE c.action = "discoverability"
    BY <1>1, <1>3, <1>4, <2>2 DEF DeviceAccepts, Only, Valid
  <2>3. CASE c.action = "new_mop_roll" BY <1>1, <1>3, <1>4, <2>3 DEF DeviceAccepts, Only
  <2>4. CASE c.action = "clear_calibration" BY <1>1, <1>3, <2>4 DEF DeviceAccepts, Only
  <2>5. CASE c.action = "configure_shipping"
    BY <1>1, <1>3, <1>4, <2>5 DEF DeviceAccepts, ConfigureShippingAccepts, Only
  <2> QED BY <2>1, <2>2, <2>3, <2>4, <2>5 DEF DeviceCommands, DeviceActions
<1>6. /\ c.new_name \in Spoken \cup {None} /\ c.enabled \in Bools \cup {None}
      /\ c.discoverable_seconds \in Nat \cup {None} /\ c.retain_user_data \in Bools \cup {None}
  BY <1>2, <1>5, ArgumentsAre
<1> QED BY <1>6 DEF DeviceCommands, ExactDevice

\* A sweeper maintenance command that its codec takes has a trigger or none.
LEMMA SweeperArguments ==
    ASSUME NEW c \in SweeperMaintenanceCommands, SweeperMaintenanceAccepts(c)
    PROVE  c \in ExactSweeper
<1>1. PICK t \in Maybe({"maintenance", "feedback"}) :
         c = [type |-> "SweeperMaintenanceCommand", trigger |-> t,
              action |-> IF t = None THEN "sweeper_maintenance_resolve"
                         ELSE "sweeper_maintenance_trigger"]
  BY DEF SweeperMaintenanceCommands
<1>2. t \in Triggers \cup {None} BY <1>1 DEF SweeperMaintenanceAccepts, Maybe, Triggers
<1> QED BY <1>1, <1>2 DEF ExactSweeper

\* A response to a jam that its codec takes has a response and a time of
\* issue.
LEMMA BrushRollArguments ==
    ASSUME NEW c \in BrushRollJamResponseCommands, BrushRollJamResponseAccepts(c)
    PROVE  c \in ExactBrushRoll
<1>1. c.response \in BrushRollJamResponses
  BY DEF BrushRollJamResponseCommands, BrushRollJamResponseAccepts, Valid, Or
<1>2. c.issued_at \in {-1, 0, 300} \X {0, 5} /\ c.issued_at[1] >= 0
  BY DEF BrushRollJamResponseCommands, BrushRollJamResponseAccepts
<1>3. c.issued_at \in Nat \X Nat BY <1>2
<1> QED BY <1>1, <1>3 DEF BrushRollJamResponseCommands, ExactBrushRoll

\* A recording command that its codec takes has values for arguments.
LEMMA MediaShape ==
    ASSUME NEW c \in MediaCommands, MediaAccepts(c)
    PROVE  c \in ExactMedia
<1>1. DOMAIN c = {"type", "action", "recording_id", "enabled", "confirm_for_each"}
  BY DEF MediaCommands
<1>2. /\ c.recording_id \in Maybe(U32) /\ c.enabled \in Maybe(Bools)
      /\ c.confirm_for_each \in Maybe(Bools) /\ c.action \in MediaActions
  BY DEF MediaCommands
<1>3. None # Junk BY ArgumentsAssumption
<1>4. Junk \notin Bools /\ Junk \notin {"True", "False"} BY NamesApart DEF Bools
<1>5. c.recording_id # Junk /\ c.enabled # Junk /\ c.confirm_for_each # Junk
  <2>1. CASE c.action = "recording_enable" BY <1>1, <1>3, <1>4, <2>1 DEF MediaAccepts, Only
  <2>2. CASE c.action = "flush_rolling_buffer" BY <1>1, <1>3, <2>2 DEF MediaAccepts, Only
  <2>3. CASE c.action = "rolling_buffer_config" BY <1>1, <1>3, <1>4, <2>3 DEF MediaAccepts, Only
  <2>4. CASE c.action \in {"confirm_save", "confirm_delete"}
    BY <1>1, <1>3, <2>4 DEF MediaAccepts, Only, Valid
  <2> QED BY <1>2, <2>1, <2>2, <2>3, <2>4 DEF MediaActions
<1>6. /\ c.recording_id \in Nat \cup {None} /\ c.enabled \in Bools \cup {None}
      /\ c.confirm_for_each \in Bools \cup {None}
  BY <1>2, <1>5, ArgumentsAre
<1> QED BY <1>6 DEF MediaCommands, ExactMedia

\* An audio recording that its codec takes has a mode or none.
LEMMA AudioArguments ==
    ASSUME NEW c \in UserAudioRecordingCommands, UserAudioRecordingAccepts(c)
    PROVE  c \in ExactAudio
BY DEF UserAudioRecordingCommands, UserAudioRecordingAccepts, ExactAudio, Maybe

\* A telemetry command that its codec takes has values for arguments.
LEMMA TelemetryShape ==
    ASSUME NEW c \in TelemetryCommands, TelemetryAccepts(c)
    PROVE  c \in ExactTelemetry
<1>1. DOMAIN c = {"type", "action", "enabled", "device_id", "app_bundle"} BY DEF TelemetryCommands
<1>2. /\ c.enabled \in Maybe(Bools) /\ c.device_id \in Maybe(Texts) /\ c.app_bundle \in Maybe(Texts)
  BY DEF TelemetryCommands
<1>3. None # Junk BY ArgumentsAssumption
<1>4. Junk \notin Bools BY NamesApart
<1>5. c.enabled # Junk /\ c.device_id # Junk /\ c.app_bundle # Junk
  <2>1. CASE c.action = "push_notification_subscription"
    BY <1>3, <2>1 DEF TelemetryAccepts, Valid
  <2>2. CASE c.action # "push_notification_subscription"
    BY <1>1, <1>3, <1>4, <2>2 DEF TelemetryAccepts, Only
  <2> QED BY <2>1, <2>2
<1>6. /\ c.enabled \in Bools \cup {None} /\ c.device_id \in Spoken \cup {None}
      /\ c.app_bundle \in Spoken \cup {None}
  BY <1>2, <1>5, ArgumentsAre
<1> QED BY <1>6 DEF TelemetryCommands, ExactTelemetry

\* A live activity registration that its codec takes has a token in one of
\* the two forms.
LEMMA LiveActivityArguments ==
    ASSUME NEW c \in LiveActivityRegistrationCommands, LiveActivityRegistrationAccepts(c)
    PROVE  c \in ExactLiveActivity
<1> DEFINE t == c.token
<1>1. c.device_id \in Spoken
  <2>1. c.device_id \in Or(Texts) BY DEF LiveActivityRegistrationCommands
  <2> QED BY <2>1, ArgumentsAre DEF LiveActivityRegistrationAccepts, Valid
<1>2. t \in LiveActivityTokens /\ t # Junk /\ \A f \in DOMAIN t : t[f] # Junk
  BY DEF LiveActivityRegistrationCommands, LiveActivityRegistrationAccepts
<1> HIDE DEF t
<1>3. CASE t \in [kind: {"start"}, fcm_token: Or(Texts), push_to_start_token: Or(Texts)]
  <2>1. t.fcm_token # Junk /\ t.push_to_start_token # Junk BY <1>2, <1>3
  <2>2. t.fcm_token \in Spoken /\ t.push_to_start_token \in Spoken BY <1>3, <2>1, ArgumentsAre
  <2> QED BY <1>1, <1>3, <2>2
         DEF t, LiveActivityRegistrationCommands, ExactLiveActivity, StartTokens
<1>4. CASE t \in [kind: {"update"}, activity_id: Or(Uuids), push_token: Or(Texts)]
  <2>1. t.activity_id # Junk /\ t.push_token # Junk BY <1>2, <1>4
  <2>2. t.activity_id \in Halves /\ t.push_token \in Spoken BY <1>4, <2>1, ArgumentsAre
  <2> QED BY <1>1, <1>4, <2>2
         DEF t, LiveActivityRegistrationCommands, ExactLiveActivity, UpdateTokens
<1> QED BY <1>2, <1>3, <1>4 DEF LiveActivityTokens

\* The dismissal and the lifecycle commands have no argument to check.
LEMMA PlainArguments ==
    /\ \A c \in BrushRollJamOutcomeDismissCommands : c \in ExactDismiss
    /\ \A c \in LifecycleCommands : c \in ExactLifecycle
BY DEF BrushRollJamOutcomeDismissCommands, ExactDismiss, LifecycleCommands, ExactLifecycle

\* Lists without a mark.
LEMMA RegionsChosen ==
    ASSUME NEW rs \in RegionTuples, ExactTuple(rs)
    PROVE  rs \in Seq(Halves)
<1>1. rs # Junk /\ \A i \in DOMAIN rs : rs[i] # Junk BY DEF ExactTuple
<1>2. rs # <<Junk>> BY <1>1
<1>3. rs = <<>> \/ rs \in RegionLists BY <1>1, <1>2 DEF RegionTuples
<1>4. \A list \in RegionLists : list \in Seq(Halves) BY ArgumentsAssumption
<1>5. <<>> \in Seq(Halves) OBVIOUS
<1> QED BY <1>3, <1>4, <1>5

\* Circles that _drawn_area takes are drawn, and there is one at least.
LEMMA CirclesChosen ==
    ASSUME NEW cs \in CircleTuples, GoodCircles(cs)
    PROVE  cs \in Seq(Drawn) /\ cs # <<>>
<1>1. /\ cs # Junk /\ cs # <<>>
      /\ \A i \in DOMAIN cs : /\ cs[i] # Junk /\ cs[i].y_meters # Junk
  BY DEF GoodCircles, Valid
<1>2. cs # <<Junk>> BY <1>1
<1>3. cs \in CircleLists \/ cs = <<GoodCircle>> BY <1>1, <1>2 DEF CircleTuples
<1>4. cs \in Seq(DrawnCircles)
  <2>1. \A list \in CircleLists : list \in Seq(DrawnCircles) BY ArgumentsAssumption
  <2>2. GoodCircle \in DrawnCircles BY DEF GoodCircle, DrawnCircles
  <2>3. <<GoodCircle>> \in Seq(DrawnCircles) BY <2>2
  <2> QED BY <1>3, <2>1, <2>3
<1>5. DOMAIN cs = 1..Len(cs) /\ Len(cs) \in Nat BY <1>4, LenProperties
<1>6. ASSUME NEW i \in 1..Len(cs) PROVE cs[i] \in Drawn
  <2>1. cs[i] \in DrawnCircles BY <1>4, ElementOfSeq
  <2>2. cs[i].y_meters # Junk BY <1>1, <1>5
  <2> QED BY <2>1, <2>2 DEF DrawnCircles, Drawn
<1>7. cs \in [1..Len(cs) -> Drawn] BY <1>4, <1>5, <1>6
<1> QED BY <1>1, <1>5, <1>7

\* A normal coverage with one argument spoilt is refused.
LEMMA OneCoverageSpoils ==
    ASSUME NEW f \in {"mission_id", "partition_id", "region_ids", "cleaning_mode", "coverage_setting",
                      "ordered", "stain_mode", "circles"},
           NEW c, c = [OneCoverage EXCEPT ![f] = Junk]
    PROVE  ~NormalAccepts(c) /\ c.action = "normal"
<1>1. c[f] = Junk /\ c.action = "normal" BY DEF OneCoverage
<1>2. None # Junk /\ Junk # <<>> BY MarksApart, ArgumentsAssumption
<1>3. Junk \notin CleaningModes /\ Junk \notin Bools BY NamesApart
<1>4. CASE f = "mission_id" BY <1>1, <1>4 DEF NormalAccepts, Valid
<1>5. CASE f = "partition_id" BY <1>1, <1>5 DEF NormalAccepts, Valid
<1>6. CASE f = "region_ids" BY <1>1, <1>6 DEF NormalAccepts, ExactTuple
<1>7. CASE f = "cleaning_mode" BY <1>1, <1>3, <1>7 DEF NormalAccepts
<1>8. CASE f = "coverage_setting" BY <1>1, <1>8 DEF NormalAccepts, Valid
<1>9. CASE f = "ordered" BY <1>1, <1>3, <1>9 DEF NormalAccepts
<1>10. CASE f = "stain_mode" BY <1>1, <1>2, <1>10 DEF NormalAccepts
<1>11. CASE f = "circles" BY <1>1, <1>2, <1>11 DEF NormalAccepts
<1> QED BY <1>1, <1>4, <1>5, <1>6, <1>7, <1>8, <1>9, <1>10, <1>11

AreaCoverage ==
    [type: {"CoverageCommand"}, action: {"normal", "reprioritize"},
     mission_id: U32, partition_id: {None} \cup Partitions, region_ids: RegionTuples,
     cleaning_mode: CleaningModes, coverage_setting: CoverageSettings,
     ordered: Bools, stain_mode: {None, "wet_spill"}, circles: {<<>>, <<GoodCircle>>}]
StainCoverage ==
    [type: {"CoverageCommand"}, action: {"stain_mode"}, mission_id: U32,
     partition_id: {None} \cup Partitions, region_ids: {<<>>, <<Region1>>},
     cleaning_mode: {"mop", "vacuum_and_mop"}, coverage_setting: CoverageSettings,
     ordered: Bools, stain_mode: Maybe(StainModes), circles: CircleTuples]

\* The coverage commands: one of the two shapes, or a normal one that is
\* refused.
LEMMA CoverageKinds ==
    ASSUME NEW c \in CoverageCommands
    PROVE  \/ c \in AreaCoverage \/ c \in StainCoverage
           \/ c.action = "normal" /\ ~NormalAccepts(c)
<1>1. CASE c \in {[OneCoverage EXCEPT ![f] = Junk] : f \in DOMAIN OneCoverage \ {"type", "action"}}
  <2>1. DOMAIN OneCoverage \ {"type", "action"} =
           {"mission_id", "partition_id", "region_ids", "cleaning_mode", "coverage_setting",
            "ordered", "stain_mode", "circles"}
    BY DEF OneCoverage
  <2> QED BY <1>1, <2>1, OneCoverageSpoils
<1> QED BY <1>1 DEF CoverageCommands, AreaCoverage, StainCoverage

\* A normal coverage that its codec takes has the arguments of one.
LEMMA NormalArguments ==
    ASSUME NEW c \in CoverageCommands, c.action = "normal", NormalAccepts(c)
    PROVE  c \in ExactNormal
<1>1. c \in AreaCoverage BY CoverageKinds DEF StainCoverage
<1>2. c.mission_id \in Nat
  <2>1. c.mission_id \in U32 BY <1>1 DEF AreaCoverage
  <2> QED BY <2>1, ArgumentsAre
<1>3. c.partition_id \in Halves
  <2>1. c.partition_id \in {None} \cup Partitions BY <1>1 DEF AreaCoverage
  <2> QED BY <2>1, ArgumentsAre DEF NormalAccepts, Valid
<1>4. c.region_ids \in Seq(Halves) \ {<<>>}
  <2>1. c.region_ids \in RegionTuples BY <1>1 DEF AreaCoverage
  <2>2. ExactTuple(c.region_ids) /\ c.region_ids # <<>> BY DEF NormalAccepts
  <2>3. PICK rs \in RegionTuples : rs = c.region_ids BY <2>1
  <2> QED BY <2>2, <2>3, RegionsChosen
<1>5. c.stain_mode = None /\ c.circles = <<>> BY DEF NormalAccepts
<1> QED BY <1>1, <1>2, <1>3, <1>4, <1>5 DEF AreaCoverage, ExactNormal, CoverageSettings

\* A stain that its codec takes has the arguments of one.
LEMMA StainArguments ==
    ASSUME NEW c \in CoverageCommands, c.action = "stain_mode", StainAccepts(c)
    PROVE  c \in ExactStain
<1>1. c \in StainCoverage BY CoverageKinds DEF AreaCoverage
<1>2. c.mission_id \in Nat
  <2>1. c.mission_id \in U32 BY <1>1 DEF StainCoverage
  <2> QED BY <2>1, ArgumentsAre
<1>3. /\ c.partition_id = None /\ c.region_ids = <<>> /\ c.cleaning_mode = "vacuum_and_mop"
      /\ c.coverage_setting = "standard" /\ c.ordered = "False" /\ c.stain_mode \in StainModes
      /\ GoodCircles(c.circles)
  BY DEF StainAccepts
<1>4. c.circles \in Seq(Drawn)
  <2>1. c.circles \in CircleTuples BY <1>1 DEF StainCoverage
  <2>2. PICK cs \in CircleTuples : cs = c.circles BY <2>1
  <2> QED BY <1>3, <2>2, CirclesChosen
<1> QED BY <1>1, <1>2, <1>3, <1>4 DEF StainCoverage, ExactStain

\* A hand-made plan that passes the checks is a sequence of goals.
LEMMA HandmadeParts ==
    ASSUME NEW goals \in HandmadePlans, ValidGoals(goals)
    PROVE  goals \in Seq(CoveragePlanGoals)
<1> DEFINE spec == CoverageGoalSpec(1, 0, 1, 0)
           goal(n, region) == CoveragePlanGoal(<<n, 0>>, <<0, 2>>, region, spec)
           three == <<goal(1, Region1), goal(2, Region2), goal(3, Region1)>>
<1>1. goals \in {Junk, <<>>, <<Junk>>, three, <<goal(1, Region1), goal(2, Junk)>>,
        <<goal(1, Region1), goal(1, Region2)>>,
        [three EXCEPT ![2].partition_id = <<2, 0>>],
        [three EXCEPT ![2].spec.floor = 1], [three EXCEPT ![2].spec = Junk]}
  BY DEF HandmadePlans
<1>2. spec \in CoverageGoalSpecs
  BY DEF CoverageGoalSpec, CoverageGoalSpecs, CoverageGoalSettings, CleaningFloors,
         CoverageGoalCleaningModes, CoverageBehaviors
<1>3. \A n \in Nat, region \in Halves : goal(n, region) \in CoveragePlanGoals
  BY <1>2 DEF CoveragePlanGoal, CoveragePlanGoals, Halves
<1>4. Region1 \in Halves /\ Region2 \in Halves BY DEF Region1, Region2, Halves
<1>5. three \in Seq(CoveragePlanGoals)
  <2>1. goal(1, Region1) \in CoveragePlanGoals /\ goal(2, Region2) \in CoveragePlanGoals
        /\ goal(3, Region1) \in CoveragePlanGoals
    BY <1>3, <1>4
  <2> HIDE DEF goal
  <2> QED BY <2>1
<1>6. /\ goals # Junk /\ \A i \in DOMAIN goals : goals[i] # Junk
      /\ \A i \in DOMAIN goals : \A f \in DOMAIN goals[i] : goals[i][f] # Junk
      /\ \A i \in DOMAIN goals : ~(goals[i].spec.cleaning_mode = 1 /\ goals[i].spec.floor = 1)
  BY DEF ValidGoals, ExactTuple
<1>7. goals # <<Junk>> BY <1>6
<1>8. goals # <<goal(1, Region1), goal(2, Junk)>>
  <2>1. SUFFICES ASSUME goals = <<goal(1, Region1), goal(2, Junk)>> PROVE FALSE OBVIOUS
  <2>2. 2 \in DOMAIN goals /\ goals[2] = goal(2, Junk) BY <2>1
  <2>3. "region_id" \in DOMAIN goal(2, Junk) /\ goal(2, Junk).region_id = Junk
    BY DEF CoveragePlanGoal
  <2> QED BY <1>6, <2>2, <2>3
<1>9. CASE goals = <<goal(1, Region1), goal(1, Region2)>>
  <2>1. goal(1, Region1) \in CoveragePlanGoals /\ goal(1, Region2) \in CoveragePlanGoals
    BY <1>3, <1>4
  <2> HIDE DEF goal
  <2> QED BY <1>9, <2>1
<1>10. CASE goals = [three EXCEPT ![2].partition_id = <<2, 0>>]
  <2> DEFINE other == [goal(2, Region2) EXCEPT !.partition_id = <<2, 0>>]
  <2>1. other \in CoveragePlanGoals BY <1>3, <1>4 DEF CoveragePlanGoals, Halves
  <2>2. three[2] = goal(2, Region2) OBVIOUS
  <2>3. goals = [three EXCEPT ![2] = other] BY <1>10, <2>2
  <2>4. Len(three) = 3 OBVIOUS
  <2> HIDE DEF other, three
  <2>5. 2 \in 1..Len(three) BY <2>4
  <2> QED BY <1>5, <2>1, <2>3, <2>5, ExceptSeq
<1>11. goals # [three EXCEPT ![2].spec.floor = 1]
  <2>1. SUFFICES ASSUME goals = [three EXCEPT ![2].spec.floor = 1] PROVE FALSE OBVIOUS
  <2>2. 2 \in DOMAIN goals BY <2>1
  <2>3. goals[2].spec = [spec EXCEPT !.floor = 1] BY <2>1 DEF CoveragePlanGoal
  <2>4. goals[2].spec.floor = 1 /\ goals[2].spec.cleaning_mode = 1 BY <2>3 DEF CoverageGoalSpec
  <2> QED BY <1>6, <2>2, <2>4
<1>12. goals # [three EXCEPT ![2].spec = Junk]
  <2>1. SUFFICES ASSUME goals = [three EXCEPT ![2].spec = Junk] PROVE FALSE OBVIOUS
  <2>2. 2 \in DOMAIN goals /\ "spec" \in DOMAIN goals[2] /\ goals[2].spec = Junk
    BY <2>1 DEF CoveragePlanGoal
  <2> QED BY <1>6, <2>2
<1>13. CASE goals = <<>>
  <2>1. <<>> \in Seq(CoveragePlanGoals) OBVIOUS
  <2> QED BY <1>13, <2>1
<1> HIDE DEF three, goal
<1> QED BY <1>1, <1>5, <1>6, <1>7, <1>8, <1>9, <1>10, <1>11, <1>12, <1>13

\* A reprioritization that its codec takes has the parts of one.
LEMMA ReprioritizeArguments ==
    ASSUME NEW c \in ReprioritizeCommands, ReprioritizeAccepts(c)
    PROVE  IsReprioritize(c)
<1>1. PICK action \in Or(ReprioritizeActions), mission \in {300, Junk}, goals \in HandmadePlans :
         \E ordered \in Or(Bools), current \in {Region1, <<0, 3>>, Junk},
            selected \in {Region1, Region2, None, Junk} :
            c = ReprioritizeCommand(action, mission, goals, ordered, current, <<2, 0>>, selected)
  BY DEF ReprioritizeCommands
<1>2. PICK ordered, current, selected :
         c = ReprioritizeCommand(action, mission, goals, ordered, current, <<2, 0>>, selected)
  BY <1>1
<1>3. /\ c.type = "ReprioritizeCoverageCommand" /\ c.mission_id = mission /\ c.goals = goals
      /\ c.current_session_id = <<2, 0>>
  BY <1>2 DEF ReprioritizeCommand
<1>4. mission \in Nat BY <1>1, <1>3 DEF ReprioritizeAccepts, Valid
<1>5. c.ordered \in Bools BY DEF ReprioritizeAccepts
<1>6. ValidGoals(goals) BY <1>3 DEF ReprioritizeAccepts
<1>7. goals \in Seq(CoveragePlanGoals) BY <1>1, <1>6, HandmadeParts
<1> QED BY <1>3, <1>4, <1>5, <1>7 DEF IsReprioritize, Session

\* Every map command, by its fields.
MapEdits == RoomEdits \cup ZoneEdits \cup SemanticsOverrides \cup SinkSummonLocations
MapDrafts ==
    MapShape(MapEnvironmentActions, Maybe(U32), ChangeSets(Maybe(Texts)), {None} \cup Partitions,
             {None, Junk} \cup MapEdits, {None} \cup Bools, Maybe(Texts))

\* Every map command is a draft: each argument is in its set, whatever the
\* others are.
LEMMA MapDraftsAre ==
    ASSUME NEW c \in MapEnvironmentCommands
    PROVE  c \in MapDrafts
<1> DEFINE free == [type: {"MapEnvironmentCommand"}, action: MapEnvironmentActions,
                    mission_id: Maybe(U32), change_set: ChangeSets(Maybe(Texts)),
                    partition_id: {None} \cup Partitions, change: {None, Junk},
                    overwrite: {None} \cup Bools, name: Maybe(Texts)]
           edit == [type: {"MapEnvironmentCommand"}, action: EditActions,
                    mission_id: U32, change_set: {NoChangeSet},
                    partition_id: {None} \cup Partitions, change: {None} \cup MapEdits,
                    overwrite: {None}, name: {None}]
<1>1. c \in free \/ c \in edit BY DEF MapEnvironmentCommands, MapEdits
<1>2. NoChangeSet \in ChangeSets(Maybe(Texts)) /\ None \in Maybe(Texts) /\ U32 \subseteq Maybe(U32)
  BY DEF NoChangeSet, ChangeSets, Maybe
<1>3. EditActions \subseteq MapEnvironmentActions BY DEF EditActions, MapEnvironmentActions
<1>4. CASE c \in free BY <1>4 DEF MapDrafts, MapShape
<1>5. CASE c \in edit BY <1>2, <1>3, <1>5 DEF MapDrafts, MapShape
<1> QED BY <1>1, <1>4, <1>5

\* What a draft is made of, argument by argument.
LEMMA DraftParts ==
    ASSUME NEW c \in MapDrafts
    PROVE  /\ c.action \in MapEnvironmentActions /\ c.mission_id \in Maybe(U32)
           /\ c.change_set \in ChangeSets(Maybe(Texts)) /\ c.partition_id \in {None} \cup Partitions
           /\ c.change \in {None, Junk} \cup MapEdits /\ c.overwrite \in {None} \cup Bools
           /\ c.name \in Maybe(Texts) /\ c.type = "MapEnvironmentCommand"
           /\ DOMAIN c = {"type", "action", "mission_id", "change_set", "partition_id", "change",
                          "overwrite", "name"}
BY DEF MapDrafts, MapShape

\* A draft whose arguments are in narrower sets has that narrower shape.
LEMMA DraftIs ==
    ASSUME NEW c \in MapDrafts, NEW actions, NEW missions, NEW sets, NEW partitions, NEW changes,
           NEW overwrites, NEW names,
           c.action \in actions, c.mission_id \in missions, c.change_set \in sets,
           c.partition_id \in partitions, c.change \in changes, c.overwrite \in overwrites,
           c.name \in names
    PROVE  c \in MapShape(actions, missions, sets, partitions, changes, overwrites, names)
BY DEF MapDrafts, MapShape

\* _map_command_has_extra_fields finds no argument given but those the
\* action allows.
LEMMA NothingElse ==
    ASSUME NEW c \in MapDrafts, NEW allowed, NothingBut(c, allowed),
           NEW f \in {"partition_id", "change", "overwrite", "name"}, f \notin allowed
    PROVE  c[f] = None
<1> DEFINE x == [g \in DOMAIN c \ {"change_set"} |-> c[g]]
<1>1. f \in DOMAIN c \ {"change_set"} BY DraftParts
<1>2. Only(x, {"mission_id"} \cup allowed) BY DEF NothingBut
<1>3. f \in DOMAIN x \ ({"type", "action"} \cup ({"mission_id"} \cup allowed)) BY <1>1
<1>4. x[f] = None BY <1>2, <1>3 DEF Only
<1> QED BY <1>1, <1>4

\* A mission that is checked is a number; one that may be left out is a
\* number or None.
LEMMA MissionIs ==
    ASSUME NEW c \in MapDrafts
    PROVE  /\ Valid(c.mission_id) => c.mission_id \in Nat
           /\ c.mission_id # Junk => c.mission_id \in Nat \cup {None}
<1>1. c.mission_id \in Maybe(U32) BY DraftParts
<1> QED BY <1>1, ArgumentsAre DEF Valid

\* A partition build that its codec takes has the arguments of one.
LEMMA BuildArguments ==
    ASSUME NEW c \in MapDrafts, c.action = "build_partition", BuildPartitionAccepts(c)
    PROVE  c \in ExactBuild
<1>1. /\ c.mission_id \in Nat /\ c.change_set = NoChangeSet /\ c.overwrite \in Bools
  BY MissionIs DEF BuildPartitionAccepts, NoExtra
<1>2. NothingBut(c, {"overwrite"}) BY DEF BuildPartitionAccepts, NoExtra
<1>3. c.partition_id = None /\ c.change = None /\ c.name = None BY <1>2, NothingElse
<1> QED BY <1>1, <1>3, DraftIs DEF ExactBuild

\* A map command without any argument allowed has a mission and nothing
\* else.
LEMMA PlainMap ==
    ASSUME NEW c \in MapDrafts, NEW actions, NEW missions, c.action \in actions,
           c.mission_id \in missions, NoExtra(c, {})
    PROVE  c \in MapShape(actions, missions, {NoChangeSet}, {None}, {None}, {None}, {None})
<1>1. c.change_set = NoChangeSet /\ NothingBut(c, {}) BY DEF NoExtra
<1>2. c.partition_id = None /\ c.change = None /\ c.overwrite = None /\ c.name = None
  BY <1>1, NothingElse
<1> QED BY <1>1, <1>2, DraftIs

\* A map edit that is checked has a mission and a change and nothing else.
LEMMA EditMap ==
    ASSUME NEW c \in MapDrafts, NEW actions, NEW changes, c.action \in actions,
           Valid(c.mission_id), NoExtra(c, {"change"}), c.change \in changes
    PROVE  c \in MapShape(actions, Nat, {NoChangeSet}, {None}, changes, {None}, {None})
<1>1. c.change_set = NoChangeSet /\ NothingBut(c, {"change"}) BY DEF NoExtra
<1>2. c.partition_id = None /\ c.overwrite = None /\ c.name = None BY <1>1, NothingElse
<1>3. c.mission_id \in Nat BY MissionIs
<1> QED BY <1>1, <1>2, <1>3, DraftIs

\* A persistence command that its codec takes has the arguments of its
\* action.
LEMMA PersistenceArguments ==
    ASSUME NEW c \in MapDrafts, PersistenceAccepts(c),
           c.action \in {"persistence_clear", "clear_map", "restore_map", "upload_map_for_debug"}
    PROVE  c \in ExactPersistence
<1>1. NoExtra(c, {}) BY DEF PersistenceAccepts
<1>2. CASE c.action = "clear_map"
  <2>1. c.mission_id \in Nat BY <1>2, MissionIs DEF PersistenceAccepts
  <2> QED BY <1>1, <1>2, <2>1, PlainMap DEF ExactPersistence, ExactClears
<1>3. CASE c.action # "clear_map"
  <2>1. c.mission_id = None BY <1>3 DEF PersistenceAccepts
  <2> QED BY <1>1, <1>3, <2>1, PlainMap DEF ExactPersistence, ExactStored
<1> QED BY <1>2, <1>3

\* A clearing of the colour weights that its codec takes has no argument.
LEMMA ColourArguments ==
    ASSUME NEW c \in MapDrafts, c.action = "clear_rgb_weights", NoExtra(c, {}), c.mission_id = None
    PROVE  c \in ExactColours
BY PlainMap DEF ExactColours

\* A floor command that its codec takes has the arguments of its action.
LEMMA FloorArguments ==
    ASSUME NEW c \in MapDrafts, c.action \in {"canonicalize", "rename"}, FloorAccepts(c)
    PROVE  c \in ExactFloors
<1>1. CASE c.action = "canonicalize"
  <2>1. NoExtra(c, {}) /\ c.mission_id \in Nat \cup {None} BY <1>1, MissionIs DEF FloorAccepts
  <2> QED BY <1>1, <2>1, PlainMap DEF ExactFloors, ExactCanonical
<1>2. CASE c.action = "rename"
  <2>1. /\ Valid(c.mission_id) /\ NothingBut(c, {"name"})
        /\ \/ Valid(c.name) /\ c.change_set = NoChangeSet
           \/ c.name = None /\ Valid(c.change_set.name) /\ c.change_set.other = None
    BY <1>2 DEF FloorAccepts
  <2>2. c.partition_id = None /\ c.change = None /\ c.overwrite = None BY <2>1, NothingElse
  <2>3. c.mission_id \in Nat BY <2>1, MissionIs
  <2>4. c.name \in Maybe(Texts) /\ c.change_set \in ChangeSets(Maybe(Texts)) BY DraftParts
  <2>5. None # Junk BY ArgumentsAssumption
  <2>6. /\ c.name \in Spoken \cup {None} /\ c.change_set \in [name: Spoken \cup {None}, other: {None}]
        /\ NameOf(c) \in Spoken
    <3>1. CASE Valid(c.name) /\ c.change_set = NoChangeSet
      <4>1. c.name \in Spoken BY <2>4, <3>1, ArgumentsAre DEF Valid
      <4>2. NoChangeSet \in [name: Spoken \cup {None}, other: {None}] BY DEF NoChangeSet
      <4> QED BY <3>1, <4>1, <4>2 DEF NameOf, Valid
    <3>2. CASE c.name = None /\ Valid(c.change_set.name) /\ c.change_set.other = None
      <4>1. c.change_set \in [name: Maybe(Texts), other: {None}]
        BY <2>4, <2>5, <3>2 DEF ChangeSets
      <4>2. c.change_set.name \in Maybe(Texts) BY <4>1
      <4>3. c.change_set.name \in Spoken BY <3>2, <4>2, ArgumentsAre DEF Valid
      <4> QED BY <3>2, <4>1, <4>3 DEF NameOf
    <3> QED BY <2>1, <3>1, <3>2
  <2>7. c \in NameShape
    <3> DEFINE sets == [name: Spoken \cup {None}, other: {None}]
               names == Spoken \cup {None}
               shape == MapShape({"rename"}, Nat, sets, {None}, {None}, {None}, names)
    <3>1. shape = NameShape BY DEF NameShape
    <3>2. c.change_set \in sets /\ c.name \in names BY <2>6
    <3> HIDE DEF sets, names
    <3>3. c \in shape BY <1>2, <2>2, <2>3, <3>2, DraftIs
    <3> HIDE DEF shape
    <3> QED BY <3>1, <3>3
  <2> QED BY <2>6, <2>7 DEF ExactFloors, ExactNames
<1> QED BY <1>1, <1>2

\* A change that is checked is of one of the kinds, with the arguments of
\* its kind.
LEMMA EditKinds ==
    ASSUME NEW c \in MapDrafts, Valid(c.change)
    PROVE  /\ c.change \in MapEdits
           /\ c.change.edit \in {"RenameRoom", "MergeRooms", "SplitRoom"} => c.change \in RoomEdits
           /\ c.change.edit = "AddZones" => c.change \in [edit: {"AddZones"}, circles: CircleTuples]
           /\ c.change.edit = "RemoveZones" => c.change \in ZoneEdits /\ c.change.edit = "RemoveZones"
           /\ c.change.edit = "SemanticsOverride" => c.change \in SemanticsOverrides
           /\ c.change.edit = "SinkSummonLocation" => c.change \in SinkSummonLocations
<1>1. c.change \in MapEdits BY DraftParts DEF Valid
<1>2. \A e \in RoomEdits : e.edit \in {"RenameRoom", "MergeRooms", "SplitRoom"} BY DEF RoomEdits
<1>3. \A e \in ZoneEdits : /\ e.edit \in {"AddZones", "RemoveZones"}
                           /\ e.edit = "AddZones" => e \in [edit: {"AddZones"}, circles: CircleTuples]
  BY DEF ZoneEdits
<1>4. \A e \in SemanticsOverrides : e.edit = "SemanticsOverride" BY DEF SemanticsOverrides
<1>5. \A e \in SinkSummonLocations : e.edit = "SinkSummonLocation" BY DEF SinkSummonLocations
<1> DEFINE e == c.change
<1>6. e \in RoomEdits \/ e \in ZoneEdits \/ e \in SemanticsOverrides \/ e \in SinkSummonLocations
  BY <1>1 DEF MapEdits
<1> HIDE DEF e
<1>7. /\ e.edit \in {"RenameRoom", "MergeRooms", "SplitRoom"} => e \in RoomEdits
      /\ e.edit = "AddZones" => e \in [edit: {"AddZones"}, circles: CircleTuples]
      /\ e.edit = "RemoveZones" => e \in ZoneEdits
      /\ e.edit = "SemanticsOverride" => e \in SemanticsOverrides
      /\ e.edit = "SinkSummonLocation" => e \in SinkSummonLocations
  BY <1>2, <1>3, <1>4, <1>5, <1>6
<1> QED BY <1>1, <1>7 DEF e

\* A label that is not spoilt is one of the forms of a label.
LEMMA LabelsChosen ==
    ASSUME NEW l \in Labels, l # Junk
    PROVE  l \in ExactLabels
<1>1. l \in [enum: RoomLabels] \/ l \in [text: Texts] BY DEF Labels
<1>2. \A x \in [text: Texts] : x \in [text: Spoken] BY ArgumentsAre
<1> QED BY <1>1, <1>2 DEF ExactLabels

\* A point that _map_point takes has two numbers.
LEMMA PointsChosen ==
    ASSUME NEW p \in MapPoints, GoodPoint(p)
    PROVE  p \in Spots
<1>1. p \in {[x_meters |-> -1, y_meters |-> 0], [x_meters |-> 0, y_meters |-> -1],
             [x_meters |-> Junk, y_meters |-> 0]}
  BY DEF MapPoints
<1>2. p.x_meters # Junk BY DEF GoodPoint, Valid
<1>3. p # [x_meters |-> Junk, y_meters |-> 0] BY <1>2
<1> QED BY <1>1, <1>3 DEF Spots

\* A room edit with no argument spoilt has the arguments of its kind.
LEMMA RoomEditsChosen ==
    ASSUME NEW e \in RoomEdits, \A f \in DOMAIN e : e[f] # Junk,
           e.edit = "SplitRoom" => GoodPoint(e.start) /\ GoodPoint(e.end)
    PROVE  e \in ExactRoomEdits
<1>1. CASE e \in [edit: {"RenameRoom"}, region_id: Or(Uuids), label: Labels]
  <2>1. e.region_id # Junk /\ e.label # Junk BY <1>1
  <2>2. e.region_id \in Or(Uuids) /\ e.label \in Labels BY <1>1
  <2>3. e.region_id \in Halves BY <2>1, <2>2, ArgumentsAre
  <2>4. e.label \in ExactLabels BY <2>1, <2>2, LabelsChosen
  <2> QED BY <1>1, <2>3, <2>4 DEF ExactRoomEdits, ExactRenames
<1>2. CASE e \in [edit: {"MergeRooms"}, first_region_id: Or(Uuids),
                  second_region_id: Uuids, label: {[enum |-> "bathroom"], Junk}]
  <2>1. e.first_region_id # Junk /\ e.label # Junk BY <1>2
  <2>2. /\ e.first_region_id \in Or(Uuids) /\ e.second_region_id \in Uuids
        /\ e.label \in {[enum |-> "bathroom"], Junk}
    BY <1>2
  <2>3. e.first_region_id \in Halves /\ e.second_region_id \in Halves BY <2>1, <2>2, ArgumentsAre
  <2>4. e.label \in ExactLabels BY <2>1, <2>2 DEF ExactLabels, RoomLabels
  <2> QED BY <1>2, <2>3, <2>4 DEF ExactRoomEdits, ExactMerges
<1>3. CASE e \in [edit: {"SplitRoom"}, region_id: Or(Uuids), start: MapPoints, end: MapPoints]
  <2>1. e.region_id # Junk BY <1>3
  <2>2. e.region_id \in Or(Uuids) /\ e.start \in MapPoints /\ e.end \in MapPoints BY <1>3
  <2>3. e.region_id \in Halves BY <2>1, <2>2, ArgumentsAre
  <2>4. GoodPoint(e.start) /\ GoodPoint(e.end) BY <1>3
  <2>5. PICK p \in MapPoints, q \in MapPoints : p = e.start /\ q = e.end BY <2>2
  <2>6. e.start \in Spots /\ e.end \in Spots BY <2>4, <2>5, PointsChosen
  <2> QED BY <1>3, <2>3, <2>6 DEF ExactRoomEdits, ExactSplits
<1> QED BY <1>1, <1>2, <1>3 DEF RoomEdits

\* A room command that its codec takes has a mission, a partition and a room
\* edit.
LEMMA RoomArguments ==
    ASSUME NEW c \in MapDrafts, c.action = "edit_rooms", EditRoomsAccepts(c)
    PROVE  c \in ExactRooms
<1>1. /\ Valid(c.mission_id) /\ Valid(c.partition_id) /\ c.change_set = NoChangeSet
      /\ NothingBut(c, {"partition_id", "change"})
      /\ Edits(c, {"RenameRoom", "MergeRooms", "SplitRoom"})
      /\ \A f \in DOMAIN c.change : c.change[f] # Junk
      /\ c.change.edit = "SplitRoom" => GoodPoint(c.change.start) /\ GoodPoint(c.change.end)
  BY DEF EditRoomsAccepts, NoExtra
<1>2. c.overwrite = None /\ c.name = None BY <1>1, NothingElse
<1>3. c.mission_id \in Nat BY <1>1, MissionIs
<1>4. c.partition_id \in Halves BY <1>1, DraftParts, ArgumentsAre DEF Valid
<1>5. c.change \in RoomEdits BY <1>1, EditKinds DEF Edits
<1>6. c.change \in ExactRoomEdits
  <2>1. PICK e \in RoomEdits : e = c.change BY <1>5
  <2> QED BY <1>1, <2>1, RoomEditsChosen
<1> QED BY <1>1, <1>2, <1>3, <1>4, <1>6, DraftIs DEF ExactRooms

\* An identifier of a zone that passes the check is in one of its two forms.
LEMMA ZoneIdsChosen ==
    ASSUME NEW z \in ZoneIds \cup {[int |-> 300], [int |-> 1]}, IsZone(z)
    PROVE  z \in ExactZoneIds
<1>1. CASE z \in [int: {1} \cup Or(U32)]
  <2>1. DOMAIN z = {"int"} /\ z.int \in {1} \cup Or(U32) BY <1>1
  <2>2. z.int # Junk BY <2>1 DEF IsZone, Valid
  <2>3. z.int \in Nat BY <2>1, <2>2, ArgumentsAre
  <2>4. z \in [int: Nat] BY <1>1, <2>3
  <2> QED BY <2>4 DEF ExactZoneIds
<1>2. CASE z \in [uuid: Uuids]
  <2>1. z.uuid \in Halves BY <1>2, ArgumentsAre
  <2>2. z \in [uuid: Halves] BY <1>2, <2>1
  <2> QED BY <2>2 DEF ExactZoneIds
<1>3. CASE z \in {[int |-> 300], [int |-> 1]}
  <2>1. z \in [int: Nat] BY <1>3
  <2> QED BY <2>1 DEF ExactZoneIds
<1> QED BY <1>1, <1>2, <1>3 DEF ZoneIds

\* A list of zones that passes the check holds identifiers in one of their
\* two forms.
LEMMA ZoneListsChosen ==
    ASSUME NEW zs \in {Junk, <<>>} \cup {<<z>> : z \in ZoneIds} \cup {<<[int |-> 300], [int |-> 1]>>},
           zs # Junk, \A i \in DOMAIN zs : IsZone(zs[i])
    PROVE  zs \in Seq(ExactZoneIds)
<1>1. CASE zs = <<>>
  <2>1. <<>> \in Seq(ExactZoneIds) OBVIOUS
  <2> QED BY <1>1, <2>1
<1>2. CASE zs \in {<<z>> : z \in ZoneIds}
  <2>1. PICK z \in ZoneIds : zs = <<z>> BY <1>2
  <2>2. IsZone(z) BY <2>1
  <2>3. z \in ExactZoneIds BY <2>1, <2>2, ZoneIdsChosen
  <2> QED BY <2>1, <2>3
<1>3. CASE zs = <<[int |-> 300], [int |-> 1]>>
  <2> DEFINE a == [int |-> 300]
             b == [int |-> 1]
  <2>1. DOMAIN zs = {1, 2} /\ zs[1] = a /\ zs[2] = b /\ zs = <<a, b>> BY <1>3
  <2>2. IsZone(a) /\ IsZone(b) BY <2>1
  <2>3. a \in ExactZoneIds /\ b \in ExactZoneIds BY <2>2, ZoneIdsChosen
  <2> HIDE DEF a, b
  <2> QED BY <2>1, <2>3
<1> QED BY <1>1, <1>2, <1>3

\* A zone command that its codec takes has a mission and zones to add or to
\* remove.
LEMMA ZoneArguments ==
    ASSUME NEW c \in MapDrafts, c.action \in Zones, ZoneEditAccepts(c)
    PROVE  c \in ExactZones
<1>1. /\ Valid(c.mission_id) /\ NoExtra(c, {"change"}) /\ Valid(c.change)
      /\ c.change.edit \in {"AddZones", "RemoveZones"}
      /\ c.change.edit = "AddZones" => GoodCircles(c.change.circles)
      /\ c.change.edit # "AddZones" => /\ c.change.region_ids # Junk
                                       /\ \A i \in DOMAIN c.change.region_ids : IsZone(c.change.region_ids[i])
  BY DEF ZoneEditAccepts, Edits
<1>2. c.change \in ExactAdds \cup ExactRemoves
  <2>1. CASE c.change.edit = "AddZones"
    <3>1. PICK e \in [edit: {"AddZones"}, circles: CircleTuples] : e = c.change
      BY <1>1, <2>1, EditKinds
    <3>2. PICK cs \in CircleTuples : cs = e.circles BY <3>1
    <3>3. cs \in Seq(Drawn) BY <1>1, <2>1, <3>1, <3>2, CirclesChosen
    <3>4. e \in ExactAdds BY <3>1, <3>2, <3>3 DEF ExactAdds
    <3> QED BY <3>1, <3>4
  <2>2. CASE c.change.edit = "RemoveZones"
    <3>1. PICK e \in ZoneEdits : e = c.change /\ e.edit = "RemoveZones" BY <1>1, <2>2, EditKinds
    <3>2. e \in [edit: {"RemoveZones"},
                 region_ids: {Junk, <<>>} \cup {<<z>> : z \in ZoneIds} \cup {<<[int |-> 300], [int |-> 1]>>}]
      BY <3>1 DEF ZoneEdits
    <3>3. PICK zs \in {Junk, <<>>} \cup {<<z>> : z \in ZoneIds} \cup {<<[int |-> 300], [int |-> 1]>>} :
             zs = e.region_ids
      BY <3>2
    <3>4. zs # Junk /\ \A i \in DOMAIN zs : IsZone(zs[i]) BY <1>1, <3>1, <3>3
    <3>5. zs \in Seq(ExactZoneIds) BY <3>3, <3>4, ZoneListsChosen
    <3>6. e \in ExactRemoves BY <3>2, <3>3, <3>5 DEF ExactRemoves
    <3> QED BY <3>1, <3>6
  <2> QED BY <1>1, <2>1, <2>2
<1>3. c \in ZoneShape BY <1>1, <1>2, EditMap DEF ZoneShape
<1> QED BY <1>1, <1>3 DEF ExactZones

\* A semantics override that its codec takes has a mission and its change.
LEMMA SemanticsArguments ==
    ASSUME NEW c \in MapDrafts, c.action = "edit_semantics_override", SemanticsOverrideAccepts(c)
    PROVE  c \in ExactSemantics
<1>1. /\ Valid(c.mission_id) /\ NoExtra(c, {"change"}) /\ Valid(c.change)
      /\ c.change.edit = "SemanticsOverride" /\ Valid(c.change.kind) /\ GoodCircles(c.change.circles)
  BY DEF SemanticsOverrideAccepts, Edits
<1>2. PICK e \in SemanticsOverrides : e = c.change BY <1>1, EditKinds
<1>3. e.kind \in SemanticsOverrideKinds BY <1>1, <1>2 DEF SemanticsOverrides, Or, Valid
<1>4. e.circles \in Seq(Drawn)
  <2>1. PICK cs \in CircleTuples : cs = e.circles BY <1>2 DEF SemanticsOverrides
  <2> QED BY <1>1, <1>2, <2>1, CirclesChosen
<1>5. e \in ExactOverrides BY <1>2, <1>3, <1>4 DEF SemanticsOverrides, ExactOverrides
<1>6. c.change \in ExactOverrides BY <1>2, <1>5
<1> QED BY <1>1, <1>6, EditMap DEF ExactSemantics

\* A sink summon location that its codec takes has a mission, and a place or
\* none.
LEMMA LocationArguments ==
    ASSUME NEW c \in MapDrafts, c.action = "edit_sink_summon_location", SinkSummonLocationAccepts(c)
    PROVE  c \in ExactLocations
<1>1. /\ Valid(c.mission_id) /\ NoExtra(c, {"change"})
      /\ \/ c.change = None
         \/ /\ Valid(c.change) /\ c.change.edit = "SinkSummonLocation"
            /\ \A f \in DOMAIN c.change : c.change[f] # Junk
  BY DEF SinkSummonLocationAccepts, Edits
<1>2. c.change \in ExactPlaces \cup {None}
  <2>1. CASE c.change # None
    <3>1. PICK e \in SinkSummonLocations : e = c.change BY <1>1, <2>1, EditKinds
    <3>2. DOMAIN e = {"edit", "x_meters", "y_meters", "yaw_radians"} BY <3>1 DEF SinkSummonLocations
    <3>3. e.x_meters # Junk /\ e.y_meters # Junk /\ e.yaw_radians # Junk
      BY <1>1, <2>1, <3>1, <3>2
    <3>4. e.x_meters \in Int /\ e.y_meters \in Int
      <4>1. e.x_meters \in Or(Floats) /\ e.y_meters \in Or(Floats) BY <3>1 DEF SinkSummonLocations
      <4> QED BY <3>3, <4>1, ArgumentsAre
    <3>5. e.yaw_radians \in Int BY <3>1, <3>3 DEF SinkSummonLocations, Or
    <3>6. e \in ExactPlaces BY <3>1, <3>4, <3>5 DEF SinkSummonLocations, ExactPlaces
    <3> QED BY <3>1, <3>6
  <2> QED BY <2>1
<1> DEFINE changes == ExactPlaces \cup {None}
<1>3. c.change \in changes BY <1>2
<1>4. MapShape({"edit_sink_summon_location"}, Nat, {NoChangeSet}, {None}, changes, {None}, {None})
         = ExactLocations
  BY DEF ExactLocations
<1> HIDE DEF changes
<1>5. c \in MapShape({"edit_sink_summon_location"}, Nat, {NoChangeSet}, {None}, changes, {None}, {None})
  BY <1>1, <1>3, EditMap
<1> QED BY <1>4, <1>5

\* A map command that its codec takes has the arguments of its action.
LEMMA MapArguments ==
    ASSUME NEW c \in MapEnvironmentCommands, MapAccepts(c)
    PROVE  c \in ExactMaps
<1>1. c \in MapDrafts BY MapDraftsAre
<1>2. c.action \in MapEnvironmentActions BY <1>1, DraftParts
<1>3. CASE c.action = "build_partition"
  <2>1. BuildPartitionAccepts(c) BY <1>3, MapPayloads
  <2> QED BY <1>1, <1>3, <2>1, BuildArguments DEF ExactMaps
<1>4. CASE c.action = "edit_rooms"
  <2>1. EditRoomsAccepts(c) BY <1>4, MapPayloads
  <2> QED BY <1>1, <1>4, <2>1, RoomArguments DEF ExactMaps
<1>5. CASE c.action \in Zones
  <2>1. ZoneEditAccepts(c) BY <1>5, MapPayloads
  <2> QED BY <1>1, <1>5, <2>1, ZoneArguments DEF ExactMaps
<1>6. CASE c.action = "edit_semantics_override"
  <2>1. SemanticsOverrideAccepts(c) BY <1>6, MapPayloads
  <2> QED BY <1>1, <1>6, <2>1, SemanticsArguments DEF ExactMaps
<1>7. CASE c.action = "edit_sink_summon_location"
  <2>1. SinkSummonLocationAccepts(c) BY <1>7, MapPayloads
  <2> QED BY <1>1, <1>7, <2>1, LocationArguments DEF ExactMaps
<1>8. CASE c.action \in {"canonicalize", "rename"}
  <2>1. FloorAccepts(c) BY <1>8, MapPayloads
  <2> QED BY <1>1, <1>8, <2>1, FloorArguments DEF ExactMaps
<1>9. CASE c.action = "clear_rgb_weights"
  <2>1. NoExtra(c, {}) /\ c.mission_id = None BY <1>9, MapPayloads
  <2> QED BY <1>1, <1>9, <2>1, ColourArguments DEF ExactMaps
<1>10. CASE c.action \in {"persistence_clear", "clear_map", "restore_map", "upload_map_for_debug"}
  <2>1. PersistenceAccepts(c) BY <1>10, MapPayloads
  <2> QED BY <1>1, <1>10, <2>1, PersistenceArguments DEF ExactMaps
<1> QED BY <1>2, <1>3, <1>4, <1>5, <1>6, <1>7, <1>8, <1>9, <1>10 DEF MapEnvironmentActions, Zones

\* Every event, by its fields.
OrdinaryTime == [seconds_since_midnight |-> 300, timezone_id |-> <<97>>, utc_offset_seconds |-> 0]
OrdinaryTarget == [region_ids |-> <<Region1>>]
EventDrafts ==
    [weekdays: {<<"monday">>} \cup WeekdayTuples, time: {OrdinaryTime} \cup ScheduleTimes,
     target: {OrdinaryTarget} \cup ScheduleTargets,
     partition_id: {<<0, 2>>, <<2, 0>>} \cup Or(Partitions), cleaning_mode: Or(CleaningModes),
     name: Maybe(Texts), ordered: Or(Bools), vacuum_setting: Maybe(VacuumSettings),
     enabled_state: Or(ScheduleEnabledStates)]

\* Every schedule event but the spoilt one is a draft: each argument is in
\* its set.
LEMMA EventDraftsAre ==
    ASSUME NEW e \in ScheduleEvents, e # Junk
    PROVE  e \in EventDrafts
<1> DEFINE one == OrdinaryEvent
<1>1. /\ "mop" \in Or(CleaningModes) /\ "False" \in Or(Bools) /\ None \in Maybe(Texts)
      /\ "standard" \in Maybe(VacuumSettings) /\ "enabled" \in Or(ScheduleEnabledStates)
  BY DEF Or, Maybe, CleaningModes, Bools, VacuumSettings, ScheduleEnabledStates
<1>2. one = [weekdays |-> <<"monday">>, time |-> OrdinaryTime, target |-> OrdinaryTarget,
           partition_id |-> <<0, 2>>, cleaning_mode |-> "mop", name |-> None,
           ordered |-> "False", vacuum_setting |-> "standard", enabled_state |-> "enabled"]
  BY DEF OrdinaryEvent, OrdinaryTime, OrdinaryTarget
<1>3. one \in EventDrafts BY <1>1, <1>2 DEF EventDrafts
<1>4. CASE e \in {[OrdinaryEvent EXCEPT !.weekdays = v] : v \in WeekdayTuples}
  <2>1. PICK v \in WeekdayTuples : e = [OrdinaryEvent EXCEPT !.weekdays = v] BY <1>4
  <2> HIDE DEF one
  <2>2. e = [one EXCEPT !.weekdays = v] BY <2>1 DEF one
  <2> QED BY <1>3, <2>2 DEF EventDrafts
<1>5. CASE e \in {[OrdinaryEvent EXCEPT !.time = v] : v \in ScheduleTimes}
  <2>1. PICK v \in ScheduleTimes : e = [OrdinaryEvent EXCEPT !.time = v] BY <1>5
  <2> HIDE DEF one
  <2>2. e = [one EXCEPT !.time = v] BY <2>1 DEF one
  <2> QED BY <1>3, <2>2 DEF EventDrafts
<1>6. CASE e \in {Aimed(v, o) : v \in ScheduleTargets, o \in Or(Bools)}
  <2>1. PICK v \in ScheduleTargets, k \in Or(Bools) : e = Aimed(v, k) BY <1>6
  <2> HIDE DEF one
  <2>2. e = [one EXCEPT !.target = v, !.ordered = k] BY <2>1 DEF one, Aimed
  <2>3. [one EXCEPT !.target = v] \in EventDrafts BY <1>3 DEF EventDrafts
  <2>4. e = [[one EXCEPT !.target = v] EXCEPT !.ordered = k] BY <1>3, <2>2 DEF EventDrafts
  <2> QED BY <2>3, <2>4 DEF EventDrafts
<1>7. CASE e \in {Cleaning(v, s) : v \in Or(CleaningModes), s \in Maybe(VacuumSettings)}
  <2>1. PICK v \in Or(CleaningModes), k \in Maybe(VacuumSettings) : e = Cleaning(v, k) BY <1>7
  <2> HIDE DEF one
  <2>2. e = [one EXCEPT !.cleaning_mode = v, !.vacuum_setting = k] BY <2>1 DEF one, Cleaning
  <2>3. [one EXCEPT !.cleaning_mode = v] \in EventDrafts BY <1>3 DEF EventDrafts
  <2>4. e = [[one EXCEPT !.cleaning_mode = v] EXCEPT !.vacuum_setting = k]
    BY <1>3, <2>2 DEF EventDrafts
  <2> QED BY <2>3, <2>4 DEF EventDrafts
<1>8. CASE e \in {Named(v, k, p) : v \in Maybe(Texts), k \in Or(ScheduleEnabledStates),
                                  p \in {<<2, 0>>} \cup Or(Partitions)}
  <2>1. PICK v \in Maybe(Texts), k \in Or(ScheduleEnabledStates),
             p \in {<<2, 0>>} \cup Or(Partitions) : e = Named(v, k, p)
    BY <1>8
  <2> HIDE DEF one
  <2>2. e = [one EXCEPT !.name = v, !.enabled_state = k, !.partition_id = p] BY <2>1 DEF one, Named
  <2>3. [one EXCEPT !.name = v] \in EventDrafts BY <1>3 DEF EventDrafts
  <2>4. [[one EXCEPT !.name = v] EXCEPT !.enabled_state = k] \in EventDrafts
    BY <2>3 DEF EventDrafts
  <2>5. e = [[[one EXCEPT !.name = v] EXCEPT !.enabled_state = k] EXCEPT !.partition_id = p]
    BY <1>3, <2>2 DEF EventDrafts
  <2> QED BY <2>4, <2>5 DEF EventDrafts
<1> QED BY <1>4, <1>5, <1>6, <1>7, <1>8 DEF ScheduleEvents

\* Zero is a 32-bit integer.
LEMMA ZeroFits == 0 \in I32
<1>1. MaxI32 \in Nat /\ MaxI32 + 1 = Eighth BY DEF MaxI32, Eighth
<1> DEFINE m == MaxI32
<1>2. m \in Nat /\ I32 = (-m - 1)..m BY <1>1 DEF I32
<1> HIDE DEF m
<1> QED BY <1>2

\* A time that passes the checks has an hour, a minute and an offset in 32
\* bits.
LEMMA TimesChosen ==
    ASSUME NEW t \in {OrdinaryTime} \cup ScheduleTimes, GoodTime(t)
    PROVE  t \in ExactTimes
<1>1. CASE t = OrdinaryTime
  <2>1. 0 \in I32 BY ZeroFits
  <2>2. <<97>> \in Spoken BY DEF Spoken
  <2> QED BY <1>1, <2>1, <2>2 DEF OrdinaryTime, ExactTimes
<1>2. CASE t # OrdinaryTime
  <2>1. t \in [seconds_since_midnight: U32, timezone_id: Texts, utc_offset_seconds: Or(Offsets)]
    BY <1>2 DEF GoodTime, ScheduleTimes
  <2>2. t.utc_offset_seconds \in I32 BY <2>1, ArgumentsAssumption DEF GoodTime, Or
  <2>3. t.seconds_since_midnight \in Nat /\ t.timezone_id \in Spoken BY <2>1, ArgumentsAre
  <2> QED BY <2>1, <2>2, <2>3 DEF ExactTimes
<1> QED BY <1>1, <1>2

\* Days that pass the checks are names of days.
LEMMA WeekdaysChosen ==
    ASSUME NEW days \in {<<"monday">>} \cup WeekdayTuples, GoodWeekdays(days)
    PROVE  days \in Seq(WeekNames)
<1>1. days # Junk /\ \A i \in DOMAIN days : days[i] # Junk BY DEF GoodWeekdays, ExactTuple
<1>2. days # <<Junk>> BY <1>1
<1>3. days \in {<<"monday">>, <<>>, <<"sunday", "monday">>, <<"monday", "sunday">>, <<"monday", "monday">>}
  BY <1>1, <1>2 DEF WeekdayTuples
<1>4. "monday" \in WeekNames /\ "sunday" \in WeekNames BY DEF WeekNames
<1>5. <<>> \in Seq(WeekNames) OBVIOUS
<1>6. <<"monday">> \in Seq(WeekNames) BY <1>4
<1>7. <<"sunday", "monday">> \in Seq(WeekNames) BY <1>4
<1>8. <<"monday", "sunday">> \in Seq(WeekNames) BY <1>4
<1>9. <<"monday", "monday">> \in Seq(WeekNames) BY <1>4
<1> QED BY <1>3, <1>5, <1>6, <1>7, <1>8, <1>9

\* A target that passes the checks is a list of rooms or a drawn area.
LEMMA TargetsChosen ==
    ASSUME NEW t \in {OrdinaryTarget} \cup ScheduleTargets, GoodTarget(t)
    PROVE  t \in RoomAreas \cup DrawnAreas
<1>1. CASE t = OrdinaryTarget
  <2>1. <<Region1>> \in Seq(Halves) \ {<<>>} BY DEF Region1, Halves
  <2> QED BY <1>1, <2>1 DEF OrdinaryTarget, RoomAreas
<1>2. CASE t \in [region_ids: RegionTuples]
  <2>1. DOMAIN t # {"circles"} BY <1>2
  <2>2. ExactTuple(t.region_ids) /\ t.region_ids # <<>> BY <2>1 DEF GoodTarget
  <2>3. PICK rs \in RegionTuples : rs = t.region_ids BY <1>2
  <2>4. rs \in Seq(Halves) BY <2>2, <2>3, RegionsChosen
  <2> QED BY <1>2, <2>2, <2>3, <2>4 DEF RoomAreas
<1>3. CASE t \in [circles: {<<>>, <<GoodCircle>>}]
  <2>1. GoodCircle \in Drawn BY DEF GoodCircle, Drawn
  <2>2. t.circles \in Seq(Drawn)
    <3>1. <<>> \in Seq(Drawn) OBVIOUS
    <3> DEFINE g == GoodCircle
    <3>2. g \in Drawn BY <2>1
    <3>3. t.circles \in {<<>>, <<g>>} BY <1>3
    <3> HIDE DEF g
    <3>4. <<g>> \in Seq(Drawn) BY <3>2
    <3> QED BY <3>1, <3>3, <3>4
  <2> QED BY <1>3, <2>2 DEF DrawnAreas
<1> QED BY <1>1, <1>2, <1>3 DEF ScheduleTargets, GoodTarget

\* An event that passes the checks has values for all its arguments.
LEMMA EventChosen ==
    ASSUME NEW e \in {None, Junk} \cup ScheduleEvents, EventAccepts(e)
    PROVE  e \in GoodEvents
<1>1. /\ Valid(e) /\ Valid(e.partition_id) /\ e.cleaning_mode \in CleaningModes
      /\ e.ordered \in Bools /\ e.name # Junk /\ Valid(e.enabled_state)
      /\ e.cleaning_mode \in {"vacuum", "vacuum_and_mop"} => Valid(e.vacuum_setting)
      /\ GoodTarget(e.target) /\ GoodWeekdays(e.weekdays) /\ GoodTime(e.time)
  BY DEF EventAccepts
<1>2. e \in EventDrafts BY <1>1, EventDraftsAre DEF Valid
<1>3. e.partition_id \in Halves
  <2>1. e.partition_id \in {<<0, 2>>, <<2, 0>>} \cup Or(Partitions) /\ e.partition_id # Junk
    BY <1>1, <1>2 DEF EventDrafts, Valid
  <2>2. <<0, 2>> \in Halves /\ <<2, 0>> \in Halves BY DEF Halves
  <2> QED BY <2>1, <2>2, ArgumentsAre DEF Or
<1>4. e.name \in Spoken \cup {None}
  <2>1. e.name \in Maybe(Texts) BY <1>2 DEF EventDrafts
  <2> QED BY <1>1, <2>1, ArgumentsAre
<1>5. e.enabled_state \in ScheduleEnabledStates BY <1>1, <1>2 DEF EventDrafts, Or, Valid
<1>6. e.vacuum_setting \in VacuumSettings \cup {None, Junk} BY <1>2 DEF EventDrafts, Maybe
<1>7. Sweeps(e) BY <1>1, <1>6 DEF Sweeps, Valid, CleaningModes
<1>8. e.weekdays \in Seq(WeekNames)
  <2>1. PICK v \in {<<"monday">>} \cup WeekdayTuples : v = e.weekdays BY <1>2 DEF EventDrafts
  <2> QED BY <1>1, <2>1, WeekdaysChosen
<1>9. e.time \in ExactTimes
  <2>1. PICK v \in {OrdinaryTime} \cup ScheduleTimes : v = e.time BY <1>2 DEF EventDrafts
  <2> QED BY <1>1, <2>1, TimesChosen
<1>10. e.target \in RoomAreas \cup DrawnAreas
  <2>1. PICK v \in {OrdinaryTarget} \cup ScheduleTargets : v = e.target BY <1>2 DEF EventDrafts
  <2> QED BY <1>1, <2>1, TargetsChosen
<1>11. e \in ExactEvents
  BY <1>1, <1>2, <1>3, <1>4, <1>5, <1>6, <1>8, <1>9, <1>10 DEF EventDrafts, ExactEvents
<1> QED BY <1>1, <1>7, <1>11 DEF GoodEvents

\* A sink event that passes the checks has values for all its arguments.
LEMMA SinkEventChosen ==
    ASSUME NEW e \in {None, Junk} \cup SinkSummonScheduleEvents, SinkEventAccepts(e)
    PROVE  e \in ExactSinkEvents
<1>1. /\ Valid(e) /\ e.enabled \in Bools /\ GoodWeekdays(e.weekdays) /\ GoodTime(e.time)
      /\ e.duration # Junk /\ Valid(e.duration.seconds) /\ Valid(e.duration.nanoseconds)
  BY DEF SinkEventAccepts
<1>2. e \in [weekdays: {<<"monday">>, Junk}, duration: ScheduleDurations,
             time: {[seconds_since_midnight |-> 0, timezone_id |-> <<>>, utc_offset_seconds |-> 0]},
             enabled: Or(Bools)]
  BY <1>1 DEF Valid, SinkSummonScheduleEvents
<1>3. e.weekdays = <<"monday">> BY <1>1, <1>2 DEF GoodWeekdays, ExactTuple
<1>4. e.time \in ExactTimes
  <2>1. e.time = [seconds_since_midnight |-> 0, timezone_id |-> <<>>, utc_offset_seconds |-> 0]
    BY <1>2
  <2>2. 0 \in I32 BY ZeroFits
  <2>3. <<>> \in Spoken BY DEF Spoken
  <2> QED BY <2>1, <2>2, <2>3 DEF ExactTimes
<1>5. e.duration \in ExactDurations
  <2>1. e.duration \in [seconds: Or(U32), nanoseconds: Or(U32)] BY <1>1, <1>2 DEF ScheduleDurations
  <2>2. e.duration.seconds \in Nat /\ e.duration.nanoseconds \in Nat
    BY <1>1, <2>1, ArgumentsAre DEF Valid
  <2> QED BY <2>1, <2>2 DEF ExactDurations
<1> QED BY <1>1, <1>2, <1>3, <1>4, <1>5 DEF ExactSinkEvents

\* A key that passes the checks has a mission and an event.
LEMMA KeysChosen ==
    ASSUME NEW k \in {None, OneKey} \cup ScheduleEventKeys, GoodKey(k)
    PROVE  k \in ExactKeys
<1>1. Valid(k) /\ Valid(k.mission_id) /\ Valid(k.event_id) BY DEF GoodKey
<1>2. CASE k = OneKey BY <1>2 DEF OneKey, ExactKeys, Halves
<1>3. CASE k # OneKey
  <2>1. k \in [mission_id: Or(U32), event_id: Or(Uuids)] BY <1>1, <1>3 DEF Valid, ScheduleEventKeys
  <2>2. k.mission_id \in Nat /\ k.event_id \in Halves BY <1>1, <2>1, ArgumentsAre DEF Valid
  <2> QED BY <2>1, <2>2 DEF ExactKeys
<1> QED BY <1>2, <1>3

\* Every command about schedules, by its fields.
ScheduleDrafts ==
    [type: {"ScheduleCommand"}, action: ScheduleActions,
     key: {None, OneKey} \cup ScheduleEventKeys, definition: {None, Junk},
     event: {None, Junk} \cup ScheduleEvents,
     sink_event: {None, Junk} \cup SinkSummonScheduleEvents]

\* Every schedule command is a draft: each argument is in its set.
LEMMA ScheduleDraftsAre ==
    ASSUME NEW c \in ScheduleCommands
    PROVE  c \in ScheduleDrafts
<1> DEFINE keys == ScheduleEventKeys
           events == ScheduleEvents
           sinks == SinkSummonScheduleEvents
           key == OneKey
           free == [type: {"ScheduleCommand"}, action: ScheduleActions, key: {None} \cup keys,
                    definition: {None, Junk}, event: {None, Junk}, sink_event: {None, Junk}]
           edit == [type: {"ScheduleCommand"}, action: {"add_or_modify"}, key: {key},
                    definition: {None}, event: events, sink_event: {None, Junk}]
           sink == [type: {"ScheduleCommand"}, action: {"sink_summon_add_or_modify"}, key: {key},
                    definition: {None}, event: {None, Junk}, sink_event: sinks]
           all == [type: {"ScheduleCommand"}, action: ScheduleActions, key: {None, key} \cup keys,
                   definition: {None, Junk}, event: {None, Junk} \cup events,
                   sink_event: {None, Junk} \cup sinks]
<1>1. ScheduleCommands = free \cup edit \cup sink BY DEF ScheduleCommands
<1>2. "add_or_modify" \in ScheduleActions /\ "sink_summon_add_or_modify" \in ScheduleActions
  BY DEF ScheduleActions
<1>3. all = ScheduleDrafts BY DEF ScheduleDrafts
<1> HIDE DEF keys, events, sinks, key
<1>5. CASE c \in free BY <1>3, <1>5
<1>6. CASE c \in edit
  <2> QED BY <1>2, <1>3, <1>6
<1>7. CASE c \in sink
  <2> QED BY <1>2, <1>3, <1>7
<1> HIDE DEF free, edit, sink, all
<1> QED BY <1>1, <1>3, <1>5, <1>6, <1>7

\* What a draft of a schedule command is made of, argument by argument.
LEMMA ScheduleParts ==
    ASSUME NEW c \in ScheduleDrafts
    PROVE  /\ c.type = "ScheduleCommand" /\ c.action \in ScheduleActions
           /\ c.key \in {None, OneKey} \cup ScheduleEventKeys
           /\ c.event \in {None, Junk} \cup ScheduleEvents
           /\ c.sink_event \in {None, Junk} \cup SinkSummonScheduleEvents
           /\ DOMAIN c = {"type", "action", "key", "definition", "event", "sink_event"}
           /\ c = [type |-> c.type, action |-> c.action, key |-> c.key,
                   definition |-> c.definition, event |-> c.event, sink_event |-> c.sink_event]
BY DEF ScheduleDrafts

\* A draft whose arguments are in narrower sets has that narrower shape.
LEMMA IsSchedule ==
    ASSUME NEW c \in ScheduleDrafts, NEW actions, NEW keys, NEW events, NEW sinks,
           c.action \in actions, c.key \in keys, c.definition = None, c.event \in events,
           c.sink_event \in sinks
    PROVE  c \in Scheduling(actions, keys, events, sinks)
BY ScheduleParts DEF Scheduling

\* A schedule command that its codec takes has the arguments of its action.
LEMMA ScheduleArguments ==
    ASSUME NEW c \in ScheduleCommands, ScheduleAccepts(c)
    PROVE  c \in ExactSchedules
<1>1. c \in ScheduleDrafts BY ScheduleDraftsAre
<1>2. /\ c.action \in ScheduleActions
      /\ c.key \in {None, OneKey} \cup ScheduleEventKeys
      /\ c.event \in {None, Junk} \cup ScheduleEvents
      /\ c.sink_event \in {None, Junk} \cup SinkSummonScheduleEvents
      /\ DOMAIN c = {"type", "action", "key", "definition", "event", "sink_event"}
  BY <1>1, ScheduleParts
<1> DEFINE exactKeys == ExactKeys
           goodEvents == GoodEvents
           sinkEvents == ExactSinkEvents
<1>3. CASE c.action = "add_or_modify"
  <2>1. Only(c, {"key", "event"}) /\ GoodKey(c.key) /\ EventAccepts(c.event)
    BY <1>3 DEF ScheduleAccepts
  <2>2. c.definition = None /\ c.sink_event = None BY <1>2, <2>1 DEF Only
  <2>3. c.key \in exactKeys BY <1>2, <2>1, KeysChosen
  <2>4. c.event \in goodEvents BY <1>2, <2>1, EventChosen
  <2> HIDE DEF exactKeys, goodEvents
  <2>5. c \in Scheduling({"add_or_modify"}, exactKeys, goodEvents, {None})
    BY <1>1, <1>3, <2>2, <2>3, <2>4, IsSchedule
  <2> QED BY <2>5 DEF exactKeys, goodEvents, ScheduleEdits, ExactSchedules
<1>4. CASE c.action = "sink_summon_add_or_modify"
  <2>1. Only(c, {"key", "sink_event"}) /\ SinkEventAccepts(c.sink_event) /\ GoodKey(c.key)
    BY <1>4 DEF ScheduleAccepts
  <2>2. c.definition = None /\ c.event = None BY <1>2, <2>1 DEF Only
  <2>3. c.key \in exactKeys BY <1>2, <2>1, KeysChosen
  <2>4. c.sink_event \in sinkEvents BY <1>2, <2>1, SinkEventChosen
  <2> HIDE DEF exactKeys, sinkEvents
  <2>5. c \in Scheduling({"sink_summon_add_or_modify"}, exactKeys, {None}, sinkEvents)
    BY <1>1, <1>4, <2>2, <2>3, <2>4, IsSchedule
  <2> QED BY <2>5 DEF exactKeys, sinkEvents, SinkEdits, ExactSchedules
<1>5. CASE c.action = "generate_suggested"
  <2>1. Only(c, {}) BY <1>5 DEF ScheduleAccepts
  <2>2. c.key = None /\ c.definition = None /\ c.event = None /\ c.sink_event = None
    BY <1>2, <2>1 DEF Only
  <2>3. c \in Scheduling({"generate_suggested"}, {None}, {None}, {None})
    BY <1>1, <1>5, <2>2, IsSchedule
  <2> QED BY <2>3 DEF Suggestions, ExactSchedules
<1>6. CASE c.action \in {"remove", "toggle", "sink_summon_remove"}
  <2>1. Only(c, {"key"}) /\ GoodKey(c.key) BY <1>6 DEF ScheduleAccepts
  <2>2. c.definition = None /\ c.event = None /\ c.sink_event = None BY <1>2, <2>1 DEF Only
  <2>3. c.key \in exactKeys BY <1>2, <2>1, KeysChosen
  <2> HIDE DEF exactKeys
  <2>4. c \in Scheduling({"remove", "toggle", "sink_summon_remove"}, exactKeys, {None}, {None})
    BY <1>1, <1>6, <2>2, <2>3, IsSchedule
  <2> QED BY <2>4 DEF exactKeys, KeyEdits, ExactSchedules
<1> QED BY <1>2, <1>3, <1>4, <1>5, <1>6 DEF ScheduleActions

\* What is whole of a command of one model says that the command is whole.
LEMMA WholeIs ==
    ASSUME NEW c
    PROVE  /\ c.type \in UserModels /\ UserTarget(c) => Whole(c)
           /\ c.type = "RawMotorCommand" /\ c \in ExactRawMotor => Whole(c)
           /\ c.type = "MapEnvironmentCommand" /\ c \in ExactMaps => Whole(c)
           /\ c.type = "WifiCommand" /\ c \in ExactWifi /\ WifiAccepts(c) => Whole(c)
           /\ c.type = "DeviceCommand" /\ c \in ExactDevice /\ DeviceAccepts(c) => Whole(c)
           /\ c.type = "SettingsCommand" /\ c \in ExactSettings /\ SettingsAccepts(c) => Whole(c)
           /\ c.type = "ScheduleCommand" /\ c \in ExactSchedules => Whole(c)
           /\ c.type = "MediaCommand" /\ c \in ExactMedia /\ MediaAccepts(c) => Whole(c)
           /\ c.type = "TelemetryCommand" /\ c \in ExactTelemetry /\ TelemetryAccepts(c) => Whole(c)
           /\ c.type = "UserAudioRecordingCommand" /\ c \in ExactAudio => Whole(c)
           /\ c.type = "DeepMopOverrideCommand" /\ c \in ExactDeepMop => Whole(c)
           /\ c.type = "WaterFlowOverrideCommand" /\ c \in ExactWaterFlow => Whole(c)
           /\ c.type = "SweeperMaintenanceCommand" /\ c \in ExactSweeper => Whole(c)
           /\ c.type = "BrushRollJamResponseCommand" /\ c \in ExactBrushRoll => Whole(c)
           /\ c.type = "BrushRollJamOutcomeDismissCommand" /\ c \in ExactDismiss => Whole(c)
           /\ c.type = "LiveActivityRegistrationCommand" /\ c \in ExactLiveActivity => Whole(c)
           /\ c.type = "LifecycleCommand" /\ c \in ExactLifecycle => Whole(c)
<1>1. c.type \in UserModels /\ UserTarget(c) => Whole(c) BY ModelNames DEF Whole, UserModels
<1>2. c.type = "RawMotorCommand" /\ c \in ExactRawMotor => Whole(c) BY ModelNames DEF Whole, UserModels
<1>3. c.type = "MapEnvironmentCommand" /\ c \in ExactMaps => Whole(c) BY ModelNames DEF Whole, UserModels
<1>4. c.type = "WifiCommand" /\ c \in ExactWifi /\ WifiAccepts(c) => Whole(c) BY ModelNames DEF Whole, UserModels
<1>5. c.type = "DeviceCommand" /\ c \in ExactDevice /\ DeviceAccepts(c) => Whole(c) BY ModelNames DEF Whole, UserModels
<1>6. c.type = "SettingsCommand" /\ c \in ExactSettings /\ SettingsAccepts(c) => Whole(c) BY ModelNames DEF Whole, UserModels
<1>7. c.type = "ScheduleCommand" /\ c \in ExactSchedules => Whole(c) BY ModelNames DEF Whole, UserModels
<1>8. c.type = "MediaCommand" /\ c \in ExactMedia /\ MediaAccepts(c) => Whole(c) BY ModelNames DEF Whole, UserModels
<1>9. c.type = "TelemetryCommand" /\ c \in ExactTelemetry /\ TelemetryAccepts(c) => Whole(c) BY ModelNames DEF Whole, UserModels
<1>10. c.type = "UserAudioRecordingCommand" /\ c \in ExactAudio => Whole(c) BY ModelNames DEF Whole, UserModels
<1>11. c.type = "DeepMopOverrideCommand" /\ c \in ExactDeepMop => Whole(c) BY ModelNames DEF Whole, UserModels
<1>12. c.type = "WaterFlowOverrideCommand" /\ c \in ExactWaterFlow => Whole(c) BY ModelNames DEF Whole, UserModels
<1>13. c.type = "SweeperMaintenanceCommand" /\ c \in ExactSweeper => Whole(c) BY ModelNames DEF Whole, UserModels
<1>14. c.type = "BrushRollJamResponseCommand" /\ c \in ExactBrushRoll => Whole(c) BY ModelNames DEF Whole, UserModels
<1>15. c.type = "BrushRollJamOutcomeDismissCommand" /\ c \in ExactDismiss => Whole(c) BY ModelNames DEF Whole, UserModels
<1>16. c.type = "LiveActivityRegistrationCommand" /\ c \in ExactLiveActivity => Whole(c) BY ModelNames DEF Whole, UserModels
<1>17. c.type = "LifecycleCommand" /\ c \in ExactLifecycle => Whole(c) BY ModelNames DEF Whole, UserModels
<1> QED BY <1>1, <1>2, <1>3, <1>4, <1>5, <1>6, <1>7, <1>8, <1>9, <1>10, <1>11, <1>12, <1>13, <1>14, <1>15, <1>16, <1>17

\* A known user, joystick, navigation or cleaning command that its codec
\* takes is whole.
LEMMA UserCommandsWhole ==
    ASSUME NEW c, Known(c), Accepts(c),
           \/ c \in UserCommands \/ c \in JoystickCommands \/ c \in NavigationCommands
           \/ c \in CleaningCommands
    PROVE  Whole(c)
<1>1. CASE c \in UserCommands
  <2>1. c.type = "UserCommand" BY <1>1 DEF UserCommands
  <2>2. UserAccepts(c) BY <2>1, MotionPayloads
  <2>3. UserTarget(c) BY <1>1, <2>2, UserArguments DEF UserTarget
  <2> QED BY <2>1, <2>3, WholeIs DEF UserModels
<1>2. CASE c \in JoystickCommands
  <2>1. c.type = "JoystickCommand" BY <1>2 DEF JoystickCommands
  <2>2. JoystickAccepts(c) BY <2>1, MotionPayloads
  <2>3. UserTarget(c) BY <1>2, <2>2, JoystickArguments DEF UserTarget
  <2> QED BY <2>1, <2>3, WholeIs DEF UserModels
<1>3. CASE c \in NavigationCommands
  <2>1. c.type = "NavigationCommand" BY <1>3 DEF NavigationCommands
  <2>2. NavigationAccepts(c) BY <2>1, MotionPayloads
  <2>3. UserTarget(c) BY <1>3, <2>2, NavigationArguments DEF UserTarget
  <2> QED BY <2>1, <2>3, WholeIs DEF UserModels
<1>4. CASE c \in CleaningCommands
  <2>1. c.type = "CleaningCommand" BY <1>4 DEF CleaningCommands
  <2>2. CleaningAccepts(c) BY <2>1, MotionPayloads
  <2>3. UserTarget(c) BY <1>4, <2>2, CleaningArguments DEF UserTarget
  <2> QED BY <2>1, <2>3, WholeIs DEF UserModels
<1> QED BY <1>1, <1>2, <1>3, <1>4

\* A coverage command is of the coverage model.
LEMMA CoverageType ==
    ASSUME NEW c \in CoverageCommands
    PROVE  c.type = "CoverageCommand"
<1> DEFINE spoiled == {[OneCoverage EXCEPT ![f] = Junk] : f \in DOMAIN OneCoverage \ {"type", "action"}}
<1>1. CASE c \in spoiled
  <2>1. PICK f \in DOMAIN OneCoverage \ {"type", "action"} : c = [OneCoverage EXCEPT ![f] = Junk]
    BY <1>1
  <2>2. OneCoverage.type = "CoverageCommand" /\ "type" \in DOMAIN OneCoverage BY DEF OneCoverage
  <2>3. c.type = OneCoverage.type BY <2>1, <2>2
  <2> QED BY <2>2, <2>3
<1>2. CASE c \notin spoiled BY <1>2 DEF CoverageCommands
<1> QED BY <1>1, <1>2

\* A known coverage command that its codec takes is whole.
LEMMA CoverageCommandsWhole ==
    ASSUME NEW c \in CoverageCommands, Known(c), Accepts(c)
    PROVE  Whole(c)
<1>1. c.type = "CoverageCommand" BY CoverageType
<1>2. c.type \in DOMAIN Prefix BY <1>1, ModelNames DEF UserModels
<1>3. c.action \in {"normal", "stain_mode"}
  <2>1. ActionAt(c) \in ActionsOf(c.type) BY <1>2, KnownIs
  <2> QED BY <1>1, <2>1 DEF ActionAt, ActionsOf
<1>4. UserTarget(c)
  <2>1. CASE c.action = "normal"
    <3>1. NormalAccepts(c) BY <1>1, <2>1, CoveragePayloads
    <3> QED BY <2>1, <3>1, NormalArguments DEF UserTarget
  <2>2. CASE c.action = "stain_mode"
    <3>1. StainAccepts(c) BY <1>1, <2>2, CoveragePayloads
    <3> QED BY <2>2, <3>1, StainArguments DEF UserTarget
  <2> QED BY <1>3, <2>1, <2>2
<1> QED BY <1>1, <1>4, WholeIs DEF UserModels

\* A reprioritization that its codec takes is whole.
LEMMA ReprioritizeCommandsWhole ==
    ASSUME NEW c \in ReprioritizeCommands, Accepts(c)
    PROVE  Whole(c)
<1>1. c.type = "ReprioritizeCoverageCommand"
  <2>1. PICK action \in Or(ReprioritizeActions), mission \in {300, Junk}, goals \in HandmadePlans :
           \E ordered \in Or(Bools), current \in {Region1, <<0, 3>>, Junk},
              selected \in {Region1, Region2, None, Junk} :
              c = ReprioritizeCommand(action, mission, goals, ordered, current, <<2, 0>>, selected)
    BY DEF ReprioritizeCommands
  <2> QED BY <2>1 DEF ReprioritizeCommand
<1>2. ReprioritizeAccepts(c) BY <1>1, CoveragePayloads
<1>3. UserTarget(c) BY <1>2, ReprioritizeArguments DEF UserTarget
<1> QED BY <1>1, <1>3, WholeIs DEF UserModels

\* A raw motor, map or schedule command that its codec takes is whole.
LEMMA MovingCommandsWhole ==
    ASSUME NEW c, Accepts(c),
           \/ c \in RawMotorCommands
           \/ c \in MapEnvironmentCommands
           \/ c \in ScheduleCommands
    PROVE  Whole(c)
<1>1. CASE c \in RawMotorCommands
  <2>1. c.type = "RawMotorCommand" BY <1>1 DEF RawMotorCommands
  <2>2. RawMotorAccepts(c) BY <2>1, MotionPayloads
  <2> QED BY <1>1, <2>1, <2>2, RawMotorArguments, WholeIs
<1>2. CASE c \in MapEnvironmentCommands
  <2>1. c.type = "MapEnvironmentCommand" BY <1>2, MapDraftsAre DEF MapDrafts, MapShape
  <2>2. MapAccepts(c) BY <2>1, CoveragePayloads
  <2> QED BY <1>2, <2>1, <2>2, MapArguments, WholeIs
<1>3. CASE c \in ScheduleCommands
  <2>1. c.type = "ScheduleCommand" BY <1>3, ScheduleDraftsAre, ScheduleParts
  <2>2. ScheduleAccepts(c) BY <2>1, CoveragePayloads
  <2> QED BY <1>3, <2>1, <2>2, ScheduleArguments, WholeIs
<1> QED BY <1>1, <1>2, <1>3

\* A command of the device that its codec takes is whole.
LEMMA DeviceCommandsWhole ==
    ASSUME NEW c, Accepts(c),
           \/ c \in WifiCommands
           \/ c \in DeviceCommands
           \/ c \in SweeperMaintenanceCommands
           \/ c \in BrushRollJamResponseCommands
           \/ c \in BrushRollJamOutcomeDismissCommands
           \/ c \in LifecycleCommands
    PROVE  Whole(c)
<1>1. CASE c \in WifiCommands
  <2>1. c.type = "WifiCommand" BY <1>1 DEF WifiCommands
  <2>2. WifiAccepts(c) BY <2>1, DevicePayloads
  <2> QED BY <1>1, <2>1, <2>2, WifiArguments, WholeIs
<1>2. CASE c \in DeviceCommands
  <2>1. c.type = "DeviceCommand" BY <1>2 DEF DeviceCommands
  <2>2. DeviceAccepts(c) BY <2>1, DevicePayloads
  <2> QED BY <1>2, <2>1, <2>2, DeviceShape, WholeIs
<1>3. CASE c \in SweeperMaintenanceCommands
  <2>1. c.type = "SweeperMaintenanceCommand" BY <1>3 DEF SweeperMaintenanceCommands
  <2>2. SweeperMaintenanceAccepts(c) BY <2>1, DevicePayloads
  <2> QED BY <1>3, <2>1, <2>2, SweeperArguments, WholeIs
<1>4. CASE c \in BrushRollJamResponseCommands
  <2>1. c.type = "BrushRollJamResponseCommand" BY <1>4 DEF BrushRollJamResponseCommands
  <2>2. BrushRollJamResponseAccepts(c) BY <2>1, DevicePayloads
  <2> QED BY <1>4, <2>1, <2>2, BrushRollArguments, WholeIs
<1>5. CASE c \in BrushRollJamOutcomeDismissCommands
  <2>1. c.type = "BrushRollJamOutcomeDismissCommand" BY <1>5 DEF BrushRollJamOutcomeDismissCommands
  <2> QED BY <1>5, <2>1, PlainArguments, WholeIs
<1>6. CASE c \in LifecycleCommands
  <2>1. c.type = "LifecycleCommand" BY <1>6 DEF LifecycleCommands
  <2> QED BY <1>6, <2>1, PlainArguments, WholeIs
<1> QED BY <1>1, <1>2, <1>3, <1>4, <1>5, <1>6

\* A setting, an override, a recording or a registration that its codec
\* takes is whole.
LEMMA SettingCommandsWhole ==
    ASSUME NEW c, Accepts(c),
           \/ c \in SettingsCommands
           \/ c \in DeepMopOverrideCommands
           \/ c \in WaterFlowOverrideCommands
           \/ c \in MediaCommands
           \/ c \in UserAudioRecordingCommands
           \/ c \in TelemetryCommands
           \/ c \in LiveActivityRegistrationCommands
    PROVE  Whole(c)
<1>1. CASE c \in SettingsCommands
  <2>1. c.type = "SettingsCommand" BY <1>1 DEF SettingsCommands
  <2>2. SettingsAccepts(c) BY <2>1, SettingPayloads
  <2> QED BY <1>1, <2>1, <2>2, SettingsArguments, WholeIs
<1>2. CASE c \in DeepMopOverrideCommands
  <2>1. c.type = "DeepMopOverrideCommand" BY <1>2 DEF DeepMopOverrideCommands
  <2>2. DeepMopOverrideAccepts(c) BY <2>1, SettingPayloads
  <2> QED BY <1>2, <2>1, <2>2, OverrideArguments, WholeIs
<1>3. CASE c \in WaterFlowOverrideCommands
  <2>1. c.type = "WaterFlowOverrideCommand" BY <1>3 DEF WaterFlowOverrideCommands
  <2>2. WaterFlowOverrideAccepts(c) BY <2>1, SettingPayloads
  <2> QED BY <1>3, <2>1, <2>2, OverrideArguments, WholeIs
<1>4. CASE c \in MediaCommands
  <2>1. c.type = "MediaCommand" BY <1>4 DEF MediaCommands
  <2>2. MediaAccepts(c) BY <2>1, SettingPayloads
  <2> QED BY <1>4, <2>1, <2>2, MediaShape, WholeIs
<1>5. CASE c \in UserAudioRecordingCommands
  <2>1. c.type = "UserAudioRecordingCommand" BY <1>5 DEF UserAudioRecordingCommands
  <2>2. UserAudioRecordingAccepts(c) BY <2>1, SettingPayloads
  <2> QED BY <1>5, <2>1, <2>2, AudioArguments, WholeIs
<1>6. CASE c \in TelemetryCommands
  <2>1. c.type = "TelemetryCommand" BY <1>6 DEF TelemetryCommands
  <2>2. TelemetryAccepts(c) BY <2>1, SettingPayloads
  <2> QED BY <1>6, <2>1, <2>2, TelemetryShape, WholeIs
<1>7. CASE c \in LiveActivityRegistrationCommands
  <2>1. c.type = "LiveActivityRegistrationCommand" BY <1>7 DEF LiveActivityRegistrationCommands
  <2>2. LiveActivityRegistrationAccepts(c) BY <2>1, SettingPayloads
  <2> QED BY <1>7, <2>1, <2>2, LiveActivityArguments, WholeIs
<1> QED BY <1>1, <1>2, <1>3, <1>4, <1>5, <1>6, <1>7

\* A command of the caller's own that encode() takes has all its arguments.
LEMMA CommandsWhole ==
    ASSUME NEW c \in Commands, Known(c), Accepts(c)
    PROVE  Whole(c)
<1>1. \/ c \in UserCommands \/ c \in JoystickCommands \/ c \in NavigationCommands
      \/ c \in CoverageCommands \/ c \in ReprioritizeCommands \/ c \in CleaningCommands
      \/ c \in RawMotorCommands \/ c \in MapEnvironmentCommands \/ c \in WifiCommands
      \/ c \in DeviceCommands \/ c \in SweeperMaintenanceCommands
      \/ c \in BrushRollJamResponseCommands \/ c \in BrushRollJamOutcomeDismissCommands
      \/ c \in SettingsCommands \/ c \in DeepMopOverrideCommands
      \/ c \in WaterFlowOverrideCommands \/ c \in ScheduleCommands \/ c \in MediaCommands
      \/ c \in UserAudioRecordingCommands \/ c \in TelemetryCommands
      \/ c \in LiveActivityRegistrationCommands \/ c \in LifecycleCommands
  BY Zenon DEF Commands
<1> QED BY ONLY <1>1, Known(c), Accepts(c), UserCommandsWhole, CoverageCommandsWhole,
            ReprioritizeCommandsWhole, MovingCommandsWhole, DeviceCommandsWhole, SettingCommandsWhole

------------------------------------------------------------------------------
\* What the convenience methods build has a codec.

\* A command that has a row of the table in its name is known, and what the
\* table has on record for it is RecordAt.
LEMMA HasRow ==
    ASSUME NEW c, NEW target, NEW payload, c.type \in DOMAIN Prefix,
           Row(Prefix[c.type], ActionAt(c), c.type, target, payload) \in CommandSpecs
    PROVE  Known(c) /\ SpecFor(CommandKey(c)).payload = RecordAt(c.type, ActionAt(c))
<1> DEFINE k == CommandKey(c)
           row == Row(Prefix[c.type], ActionAt(c), c.type, target, payload)
<1>1. k = <<Prefix[c.type], ActionAt(c)>> BY DEF CommandKey, ActionAt
<1>2. row \in CommandSpecs /\ row.key = k /\ row.model = c.type BY <1>1 DEF Row
<1> HIDE DEF k, row
<1>3. ModelAt(k) = c.type
  <2>1. PICK model \in DOMAIN Prefix : \E a \in ActionsOf(model) : Fits(model, a, row)
    BY <1>2, TableIs DEF InTable
  <2> QED BY <1>2, <2>1 DEF Fits
<1>4. PICK r \in CommandSpecs : r = SpecFor(k) /\ r.key = k
  <2>1. SpecFor(k) \in CommandSpecs /\ SpecFor(k).key = k BY <1>2 DEF SpecFor
  <2> QED BY <2>1
<1>5. PICK model \in DOMAIN Prefix : \E a \in ActionsOf(model) : Fits(model, a, r)
  BY <1>4, TableIs DEF InTable
<1>6. PICK a \in ActionsOf(model) : Fits(model, a, r) BY <1>5
<1>7. model = c.type BY <1>3, <1>4, <1>6 DEF Fits
<1>8. a = ActionAt(c) BY <1>1, <1>4, <1>6, <1>7 DEF Fits
<1>9. r.model = c.type /\ r.payload = RecordAt(c.type, ActionAt(c)) BY <1>6, <1>7, <1>8 DEF Fits
<1>10. k \in Keys BY <1>2 DEF Keys
<1> QED BY <1>4, <1>9, <1>10 DEF Known, k

\* A command that encode() takes.
Served(c) == Known(c) /\ Accepts(c) /\ OnRecord(c)

\* A command with a row in the registry that its codec takes, and whose
\* payload is the record when the row has one, is served.
LEMMA ServedIs ==
    ASSUME NEW c, NEW target, NEW payload, c.type \in DOMAIN Prefix,
           Row(Prefix[c.type], ActionAt(c), c.type, target, payload) \in CommandSpecs,
           Accepts(c), RecordAt(c.type, ActionAt(c)) \in {None, Payload(c)}
    PROVE  Served(c)
<1>1. Known(c) /\ SpecFor(CommandKey(c)).payload = RecordAt(c.type, ActionAt(c)) BY HasRow
<1> QED BY <1>1 DEF Served, OnRecord

\* The rows of the actions that share a target.
LEMMA RowsIn ==
    ASSUME NEW prefix, NEW actions, NEW model, NEW target, NEW a \in actions,
           Rows(prefix, actions, model, target) \subseteq CommandSpecs
    PROVE  Row(prefix, a, model, target, None) \in CommandSpecs
BY DEF Rows

\* Every family of rows is among the registry's CommandSpecs.
LEMMA SpecsHave ==
    /\ UserRows \subseteq CommandSpecs /\ MotionRows \subseteq CommandSpecs
    /\ CoverageRows \subseteq CommandSpecs /\ MapRows \subseteq CommandSpecs
    /\ SettingRows \subseteq CommandSpecs /\ ScheduleRows \subseteq CommandSpecs
    /\ StableRows \subseteq CommandSpecs
BY DEF CommandSpecs

\* Each action of the user has a row.
LEMMA UserHasRow ==
    ASSUME NEW a \in UserActions
    PROVE  \E payload : Row("user", a, "UserCommand", "user_command", payload) \in CommandSpecs
<1> DEFINE record(x) == IF x \in DOMAIN UserRecords THEN UserRecords[x] ELSE None
<1>1. UserRows = {Row("user", x, "UserCommand", "user_command", record(x)) : x \in UserActions}
  BY DEF UserRows, UserRecords
<1> HIDE DEF record
<1>2. Row("user", a, "UserCommand", "user_command", record(a)) \in UserRows BY <1>1
<1> QED BY <1>2, SpecsHave

\* The joystick, each navigation and each coverage has a row.
LEMMA MotionHasRow ==
    /\ Row("user", "joystick", "JoystickCommand", "user_command", None) \in CommandSpecs
    /\ \A a \in NavigationModes :
          Row("navigation", a, "NavigationCommand", "user_command", None) \in CommandSpecs
    /\ \A a \in {"normal", "stain_mode"} :
          Row("coverage", a, "CoverageCommand", "user_command", None) \in CommandSpecs
    /\ Row("coverage", "reprioritize", "ReprioritizeCoverageCommand", "user_command", None)
          \in CommandSpecs
    /\ Row("raw_motors", "setpoints", "RawMotorCommand", "motor_command", None) \in CommandSpecs
<1>1. /\ Rows("user", {"joystick"}, "JoystickCommand", "user_command") \subseteq CommandSpecs
      /\ Rows("navigation", NavigationModes, "NavigationCommand", "user_command")
            \subseteq CommandSpecs
  BY SpecsHave DEF MotionRows
<1>2. /\ Rows("coverage", {"normal", "stain_mode"}, "CoverageCommand", "user_command")
            \subseteq CommandSpecs
      /\ Rows("coverage", {"reprioritize"}, "ReprioritizeCoverageCommand", "user_command")
            \subseteq CommandSpecs
      /\ Rows("raw_motors", {"setpoints"}, "RawMotorCommand", "motor_command")
            \subseteq CommandSpecs
  BY SpecsHave DEF CoverageRows
<1> QED BY <1>1, <1>2, RowsIn

\* Each map edit has a row.
LEMMA MapHasRow ==
    ASSUME NEW a \in {"build_partition", "edit_rooms", "edit_no_go_zone", "edit_drive_only_zone",
                      "edit_stairs", "edit_semantics_override", "edit_sink_summon_location"}
    PROVE  \E target : Row("map", a, "MapEnvironmentCommand", target, None) \in CommandSpecs
<1> DEFINE map(actions, target) == Rows("map", actions, "MapEnvironmentCommand", target)
<1>1. /\ map({"build_partition"}, "build_regions") \subseteq CommandSpecs
      /\ map({"edit_rooms"}, "rename_area_command") \subseteq CommandSpecs
      /\ map({"edit_no_go_zone", "edit_drive_only_zone"}, "nogo_command") \subseteq CommandSpecs
      /\ map({"edit_stairs"}, "stair_command") \subseteq CommandSpecs
      /\ map({"edit_semantics_override"}, "semantics_override") \subseteq CommandSpecs
      /\ map({"edit_sink_summon_location"}, "edit_sink_summon_location") \subseteq CommandSpecs
  BY SpecsHave DEF MapRows
<1> QED BY <1>1, RowsIn

\* Each setting, the two overrides and the audio recording have a row.
LEMMA SettingHasRow ==
    /\ \A a \in BinarySettings \cup {"jukebox"} :
          \E target : Row("settings", a, "SettingsCommand", target, None) \in CommandSpecs
    /\ Row("media", "user_audio_recording", "UserAudioRecordingCommand",
           "user_audio_recording_command", None) \in CommandSpecs
    /\ Row("settings", "deep_mop_override", "DeepMopOverrideCommand",
           "deep_mop_override_setting_command", None) \in CommandSpecs
    /\ Row("settings", "water_flow_override", "WaterFlowOverrideCommand",
           "water_flow_override_command", None) \in CommandSpecs
<1>1. BinarySettings \cup {"jukebox"} = DOMAIN SettingTargets BY DEF BinarySettings, SettingTargets
<1>2. \A a \in DOMAIN SettingTargets :
         Row("settings", a, "SettingsCommand", SettingTargets[a], None) \in SettingRows
  BY DEF SettingRows
<1>3. /\ Rows("media", {"user_audio_recording"}, "UserAudioRecordingCommand",
              "user_audio_recording_command") \subseteq CommandSpecs
      /\ Rows("settings", {"deep_mop_override"}, "DeepMopOverrideCommand",
              "deep_mop_override_setting_command") \subseteq CommandSpecs
      /\ Rows("settings", {"water_flow_override"}, "WaterFlowOverrideCommand",
              "water_flow_override_command") \subseteq CommandSpecs
  BY SpecsHave DEF StableRows
<1> QED BY <1>1, <1>2, <1>3, RowsIn, SpecsHave

\* Each schedule action has a row.
LEMMA ScheduleHasRow ==
    ASSUME NEW a \in ScheduleActions
    PROVE  \E target, payload :
              Row("schedule", a, "ScheduleCommand", target, payload) \in CommandSpecs
<1>1. /\ Rows("schedule", {"add_or_modify", "remove", "toggle"}, "ScheduleCommand",
              "edit_schedule") \subseteq CommandSpecs
      /\ Rows("schedule", {"sink_summon_add_or_modify", "sink_summon_remove"},
              "ScheduleCommand", "edit_sink_summon_schedule") \subseteq CommandSpecs
      /\ Row("schedule", "generate_suggested", "ScheduleCommand",
             "generate_suggested_schedule", <<>>) \in CommandSpecs
  BY SpecsHave DEF ScheduleRows
<1> QED BY <1>1, RowsIn DEF ScheduleActions

\* Each command of the device has a row.
LEMMA DeviceHasRow ==
    /\ \E target, payload :
          Row("device", "sweeper_maintenance_resolve", "SweeperMaintenanceCommand", target, payload)
             \in CommandSpecs
    /\ \E target :
          Row("device", "sweeper_maintenance_trigger", "SweeperMaintenanceCommand", target, None)
             \in CommandSpecs
    /\ \E target :
          Row("device", "brush_roll_jam_response", "BrushRollJamResponseCommand", target, None)
             \in CommandSpecs
    /\ \E target, payload :
          Row("device", "brush_roll_jam_outcome_dismiss", "BrushRollJamOutcomeDismissCommand", target,
              payload) \in CommandSpecs
    /\ \E target :
          Row("telemetry", "live_activity_registration", "LiveActivityRegistrationCommand", target,
              None) \in CommandSpecs
<1>1. /\ Row("device", "sweeper_maintenance_resolve", "SweeperMaintenanceCommand",
             "sweeper_maintenance_command", <<10, 0>>) \in CommandSpecs
      /\ Rows("device", {"sweeper_maintenance_trigger"}, "SweeperMaintenanceCommand",
              "sweeper_maintenance_command") \subseteq CommandSpecs
      /\ Rows("device", {"brush_roll_jam_response"}, "BrushRollJamResponseCommand",
              "cleaning_workflow_response") \subseteq CommandSpecs
      /\ Row("device", "brush_roll_jam_outcome_dismiss", "BrushRollJamOutcomeDismissCommand",
             "sweeper_jam_outcome_dismiss", <<>>) \in CommandSpecs
      /\ Rows("telemetry", {"live_activity_registration"}, "LiveActivityRegistrationCommand",
              "live_activity_registration") \subseteq CommandSpecs
  BY SpecsHave DEF StableRows
<1>2. /\ Row("device", "sweeper_maintenance_trigger", "SweeperMaintenanceCommand",
             "sweeper_maintenance_command", None) \in CommandSpecs
      /\ Row("device", "brush_roll_jam_response", "BrushRollJamResponseCommand",
             "cleaning_workflow_response", None) \in CommandSpecs
      /\ Row("telemetry", "live_activity_registration", "LiveActivityRegistrationCommand",
             "live_activity_registration", None) \in CommandSpecs
  BY <1>1, RowsIn
<1> QED BY <1>1, <1>2

\* A reprioritization has a codec, whatever its action says.
LEMMA ReprioritizationsKnown ==
    ASSUME NEW c, c.type = "ReprioritizeCoverageCommand"
    PROVE  Known(c)
<1>1. /\ ActionAt(c) = "reprioritize" /\ c.type \in DOMAIN Prefix /\ Prefix[c.type] = "coverage"
  BY DEF ActionAt, Prefix
<1>2. Row(Prefix[c.type], ActionAt(c), c.type, "user_command", None) \in CommandSpecs
  BY <1>1, MotionHasRow
<1> QED BY <1>1, <1>2, HasRow

\* An argument that is no mark is given.
LEMMA Given ==
    /\ \A x \in U32 : Valid(x)
    /\ \A x \in Or(U32) \cup Or(Floats) \cup Or(Uuids) \cup Or(Texts) \cup Or({0, 1}) :
          x # Junk => Valid(x)
    /\ \A x \in Partitions : Valid(x)
    /\ \A x \in Halves : Valid(x)
    /\ \A x \in Int : Valid(x)
    /\ \A x \in Bools \cup CoverageSettings \cup StainModes \cup SemanticsOverrideKinds : Valid(x)
<1>1. /\ \A x \in Or(U32) \cup Or(Floats) : x # Junk => x \in Int
      /\ \A x \in Or({0, 1}) : x # Junk => x \in Int
      /\ \A x \in U32 : x \in Int
  BY ArgumentsAre DEF Or
<1>2. /\ \A x \in Or(Uuids) : x # Junk => x \in Halves
      /\ \A x \in Partitions : x \in Halves
      /\ \A x \in Or(Texts) : x # Junk => x \in Seq(Nat)
  BY ArgumentsAre DEF Spoken
<1>3. /\ None \notin Int /\ Junk \notin Int /\ None \notin Halves /\ Junk \notin Halves
      /\ None \notin Seq(Nat) /\ Junk \notin Seq(Nat)
  BY MarksApart
<1>4. /\ \A x \in Int : Valid(x)
      /\ \A x \in Halves : Valid(x)
      /\ \A x \in Seq(Nat) : Valid(x)
  BY <1>3 DEF Valid
<1>5. \A x \in Bools \cup CoverageSettings \cup StainModes \cup SemanticsOverrideKinds : Valid(x)
  BY NamesApart DEF Valid
<1> QED BY <1>1, <1>2, <1>4, <1>5

\* The table of every model a convenience method builds has a row for each of
\* its actions.
LEMMA RowKnown ==
    ASSUME NEW c, NEW model, NEW prefix, NEW a, c.type = model, ActionAt(c) = a,
           model \in DOMAIN Prefix, Prefix[model] = prefix,
           \E target, payload : Row(prefix, a, model, target, payload) \in CommandSpecs
    PROVE  Known(c)
BY HasRow

\* What moves the robot has a codec.
LEMMA MovingCallsKnown ==
    ASSUME NEW c \in UserCalls \cup NavigationCalls \cup NormalCalls \cup StainCalls
                     \cup ReprioritizeCommands \cup RawMotorCommands
    PROVE  Known(c)
<1>1. CASE c \in UserCalls
  <2>1. c.type = "UserCommand" /\ c.action \in UserActions BY <1>1 DEF UserCalls, UserCommands
  <2>2. ActionAt(c) = c.action /\ "UserCommand" \in DOMAIN Prefix /\ Prefix["UserCommand"] = "user"
    BY <2>1 DEF ActionAt, Prefix
  <2>3. \E target, payload : Row("user", c.action, "UserCommand", target, payload) \in CommandSpecs
    BY <2>1, UserHasRow
  <2> QED BY <2>1, <2>2, <2>3, RowKnown
<1>2. CASE c \in JoystickCommands
  <2>1. c.type = "JoystickCommand" /\ c.action = "joystick" BY <1>2 DEF JoystickCommands
  <2>2. /\ ActionAt(c) = "joystick" /\ "JoystickCommand" \in DOMAIN Prefix
        /\ Prefix["JoystickCommand"] = "user"
    BY <2>1 DEF ActionAt, Prefix
  <2>3. \E target, payload : Row("user", "joystick", "JoystickCommand", target, payload) \in CommandSpecs
    BY MotionHasRow
  <2> QED BY <2>1, <2>2, <2>3, RowKnown
<1>3. CASE c \in NavigationCommands
  <2>1. c.type = "NavigationCommand" /\ c.action \in NavigationModes BY <1>3 DEF NavigationCommands
  <2>2. /\ ActionAt(c) = c.action /\ "NavigationCommand" \in DOMAIN Prefix
        /\ Prefix["NavigationCommand"] = "navigation"
    BY <2>1 DEF ActionAt, Prefix
  <2>3. \E target, payload :
           Row("navigation", c.action, "NavigationCommand", target, payload) \in CommandSpecs
    BY <2>1, MotionHasRow
  <2> QED BY <2>1, <2>2, <2>3, RowKnown
<1>4. CASE c \in NormalCalls \cup StainCalls
  <2>1. c.type = "CoverageCommand" /\ c.action \in {"normal", "stain_mode"}
    BY <1>4, CoverageType DEF NormalCalls, StainCalls
  <2>2. /\ ActionAt(c) = c.action /\ "CoverageCommand" \in DOMAIN Prefix
        /\ Prefix["CoverageCommand"] = "coverage"
    BY <2>1 DEF ActionAt, Prefix
  <2>3. \E target, payload :
           Row("coverage", c.action, "CoverageCommand", target, payload) \in CommandSpecs
    BY <2>1, MotionHasRow
  <2> QED BY <2>1, <2>2, <2>3, RowKnown
<1>5. CASE c \in ReprioritizeCommands
  <2>1. c.type = "ReprioritizeCoverageCommand" BY <1>5 DEF ReprioritizeCommands, ReprioritizeCommand
  <2> QED BY <2>1, ReprioritizationsKnown
<1>6. CASE c \in RawMotorCommands
  <2>1. c.type = "RawMotorCommand" /\ c.action = "setpoints" BY <1>6 DEF RawMotorCommands
  <2>2. /\ ActionAt(c) = "setpoints" /\ "RawMotorCommand" \in DOMAIN Prefix
        /\ Prefix["RawMotorCommand"] = "raw_motors"
    BY <2>1 DEF ActionAt, Prefix
  <2>3. \E target, payload :
           Row("raw_motors", "setpoints", "RawMotorCommand", target, payload) \in CommandSpecs
    BY MotionHasRow
  <2> QED BY <2>1, <2>2, <2>3, RowKnown
<1> QED BY <1>1, <1>2, <1>3, <1>4, <1>5, <1>6 DEF NavigationCalls

\* What edits the map and the schedules has a codec.
LEMMA EditingCallsKnown ==
    ASSUME NEW c \in BuildPartitionCalls \cup RoomCalls \cup ZoneCalls \cup PlaceCalls
                     \cup ScheduleCalls
    PROVE  Known(c)
<1>1. CASE c \notin ScheduleCalls
  <2>1. c \in MapEnvironmentCommands
    BY <1>1 DEF BuildPartitionCalls, RoomCalls, ZoneCalls, PlaceCalls
  <2>2. c.action \in {"build_partition", "edit_rooms", "edit_no_go_zone", "edit_drive_only_zone",
                      "edit_stairs", "edit_semantics_override", "edit_sink_summon_location"}
    BY <1>1 DEF BuildPartitionCalls, RoomCalls, ZoneCalls, PlaceCalls, Zones
  <2>3. c.type = "MapEnvironmentCommand" BY <2>1, MapDraftsAre DEF MapDrafts, MapShape
  <2>4. /\ ActionAt(c) = c.action /\ "MapEnvironmentCommand" \in DOMAIN Prefix
        /\ Prefix["MapEnvironmentCommand"] = "map"
    BY <2>3 DEF ActionAt, Prefix
  <2>5. \E target, payload :
           Row("map", c.action, "MapEnvironmentCommand", target, payload) \in CommandSpecs
    BY <2>2, MapHasRow
  <2> QED BY <2>3, <2>4, <2>5, RowKnown
<1>2. CASE c \in ScheduleCalls
  <2>1. c \in ScheduleCommands BY <1>2 DEF ScheduleCalls
  <2>2. c.type = "ScheduleCommand" /\ c.action \in ScheduleActions
    BY <2>1, ScheduleDraftsAre, ScheduleParts
  <2>3. /\ ActionAt(c) = c.action /\ "ScheduleCommand" \in DOMAIN Prefix
        /\ Prefix["ScheduleCommand"] = "schedule"
    BY <2>2 DEF ActionAt, Prefix
  <2>4. \E target, payload :
           Row("schedule", c.action, "ScheduleCommand", target, payload) \in CommandSpecs
    BY <2>2, ScheduleHasRow
  <2> QED BY <2>2, <2>3, <2>4, RowKnown
<1> QED BY <1>1, <1>2

\* Every setting has a codec.
LEMMA SettingCallsKnown ==
    ASSUME NEW c \in SettingCalls
    PROVE  Known(c)
<1>1. CASE c \in SettingsCommands
  <2>1. c.type = "SettingsCommand" /\ c.action \in BinarySettings \cup {"jukebox"}
    BY <1>1 DEF SettingsCommands
  <2>2. /\ ActionAt(c) = c.action /\ "SettingsCommand" \in DOMAIN Prefix
        /\ Prefix["SettingsCommand"] = "settings"
    BY <2>1 DEF ActionAt, Prefix
  <2>3. \E target, payload :
           Row("settings", c.action, "SettingsCommand", target, payload) \in CommandSpecs
    BY <2>1, SettingHasRow
  <2> QED BY <2>1, <2>2, <2>3, RowKnown
<1>2. CASE c \in UserAudioRecordingCommands
  <2>1. c.type = "UserAudioRecordingCommand" /\ c.action = "user_audio_recording"
    BY <1>2 DEF UserAudioRecordingCommands
  <2>2. /\ ActionAt(c) = c.action /\ "UserAudioRecordingCommand" \in DOMAIN Prefix
        /\ Prefix["UserAudioRecordingCommand"] = "media"
    BY <2>1 DEF ActionAt, Prefix
  <2>3. \E target, payload :
           Row("media", c.action, "UserAudioRecordingCommand", target, payload) \in CommandSpecs
    BY <2>1, SettingHasRow
  <2> QED BY <2>1, <2>2, <2>3, RowKnown
<1>3. CASE c \in DeepMopOverrideCommands
  <2>1. c.type = "DeepMopOverrideCommand" /\ c.action = "deep_mop_override"
    BY <1>3 DEF DeepMopOverrideCommands
  <2>2. /\ ActionAt(c) = c.action /\ "DeepMopOverrideCommand" \in DOMAIN Prefix
        /\ Prefix["DeepMopOverrideCommand"] = "settings"
    BY <2>1 DEF ActionAt, Prefix
  <2>3. \E target, payload :
           Row("settings", c.action, "DeepMopOverrideCommand", target, payload) \in CommandSpecs
    BY <2>1, SettingHasRow
  <2> QED BY <2>1, <2>2, <2>3, RowKnown
<1>4. CASE c \in WaterFlowOverrideCommands
  <2>1. c.type = "WaterFlowOverrideCommand" /\ c.action = "water_flow_override"
    BY <1>4 DEF WaterFlowOverrideCommands
  <2>2. /\ ActionAt(c) = c.action /\ "WaterFlowOverrideCommand" \in DOMAIN Prefix
        /\ Prefix["WaterFlowOverrideCommand"] = "settings"
    BY <2>1 DEF ActionAt, Prefix
  <2>3. \E target, payload :
           Row("settings", c.action, "WaterFlowOverrideCommand", target, payload) \in CommandSpecs
    BY <2>1, SettingHasRow
  <2> QED BY <2>1, <2>2, <2>3, RowKnown
<1> QED BY <1>1, <1>2, <1>3, <1>4 DEF SettingCalls

\* Every request to the device has a codec.
LEMMA DeviceCallsKnown ==
    ASSUME NEW c \in DeviceCalls
    PROVE  Known(c)
<1>1. CASE c \in SweeperMaintenanceCommands
  <2>1. /\ c.type = "SweeperMaintenanceCommand"
        /\ c.action \in {"sweeper_maintenance_resolve", "sweeper_maintenance_trigger"}
    BY <1>1 DEF SweeperMaintenanceCommands
  <2>2. /\ ActionAt(c) = c.action /\ "SweeperMaintenanceCommand" \in DOMAIN Prefix
        /\ Prefix["SweeperMaintenanceCommand"] = "device"
    BY <2>1 DEF ActionAt, Prefix
  <2>3. \E target, payload :
           Row("device", c.action, "SweeperMaintenanceCommand", target, payload) \in CommandSpecs
    BY <2>1, DeviceHasRow
  <2> QED BY <2>1, <2>2, <2>3, RowKnown
<1>2. CASE c \in BrushRollJamOutcomeDismissCommands
  <2>1. /\ c.type = "BrushRollJamOutcomeDismissCommand"
        /\ c.action = "brush_roll_jam_outcome_dismiss"
    BY <1>2 DEF BrushRollJamOutcomeDismissCommands
  <2>2. /\ ActionAt(c) = c.action /\ "BrushRollJamOutcomeDismissCommand" \in DOMAIN Prefix
        /\ Prefix["BrushRollJamOutcomeDismissCommand"] = "device"
    BY <2>1 DEF ActionAt, Prefix
  <2>3. \E target, payload :
           Row("device", c.action, "BrushRollJamOutcomeDismissCommand", target, payload)
              \in CommandSpecs
    BY <2>1, DeviceHasRow
  <2> QED BY <2>1, <2>2, <2>3, RowKnown
<1>3. CASE c \in BrushRollJamResponseCommands
  <2>1. c.type = "BrushRollJamResponseCommand" /\ c.action = "brush_roll_jam_response"
    BY <1>3 DEF BrushRollJamResponseCommands
  <2>2. /\ ActionAt(c) = c.action /\ "BrushRollJamResponseCommand" \in DOMAIN Prefix
        /\ Prefix["BrushRollJamResponseCommand"] = "device"
    BY <2>1 DEF ActionAt, Prefix
  <2>3. \E target, payload :
           Row("device", c.action, "BrushRollJamResponseCommand", target, payload) \in CommandSpecs
    BY <2>1, DeviceHasRow
  <2> QED BY <2>1, <2>2, <2>3, RowKnown
<1>4. CASE c \in LiveActivityRegistrationCommands
  <2>1. c.type = "LiveActivityRegistrationCommand" /\ c.action = "live_activity_registration"
    BY <1>4 DEF LiveActivityRegistrationCommands
  <2>2. /\ ActionAt(c) = c.action /\ "LiveActivityRegistrationCommand" \in DOMAIN Prefix
        /\ Prefix["LiveActivityRegistrationCommand"] = "telemetry"
    BY <2>1 DEF ActionAt, Prefix
  <2>3. \E target, payload :
           Row("telemetry", c.action, "LiveActivityRegistrationCommand", target, payload)
              \in CommandSpecs
    BY <2>1, DeviceHasRow
  <2> QED BY <2>1, <2>2, <2>3, RowKnown
<1>5. CASE c \in RawMotorCommands BY <1>5, MovingCallsKnown
<1> QED BY <1>1, <1>2, <1>3, <1>4, <1>5 DEF DeviceCalls

\* A convenience method builds a command that a caller could have built, and
\* there is a codec for it.
LEMMA CallsKnown ==
    ASSUME NEW c \in Calls
    PROVE  c \in Commands /\ Known(c)
<1>1. c \in Commands
  BY DEF Calls, Commands, UserCalls, NavigationCalls, NormalCalls, StainCalls, BuildPartitionCalls,
         RoomCalls, ZoneCalls, PlaceCalls, ScheduleCalls, SettingCalls, DeviceCalls
<1>2. Known(c)
  BY MovingCallsKnown, EditingCallsKnown, SettingCallsKnown, DeviceCallsKnown DEF Calls
<1> QED BY <1>1, <1>2

------------------------------------------------------------------------------
\* The command in hand, from one step to the next.

\* A reprioritization that encode() takes, or one that names no region to
\* prioritize.
Returnable(c) ==
    /\ Known(c)
    /\ Served(c) \/ (c.action = "prioritize" /\ c.selected_region_id = None)

\* What reprioritize_coverage builds from a snapshot is whole, and served if
\* it names the region to prioritize.
LEMMA ReprioritizationsServed ==
    ASSUME NEW action \in ReprioritizeActions, NEW goals, IsPlan(goals), NEW current \in Halves,
           NEW selected \in Regions(goals) \cup {<<9, 9>>, None}
    PROVE  LET c == ReprioritizeCommand(action, Mission, goals, "True", current, Session, selected)
           IN Whole(c) /\ Returnable(c)
<1> DEFINE c == ReprioritizeCommand(action, Mission, goals, "True", current, Session, selected)
<1>1. /\ c.type = "ReprioritizeCoverageCommand" /\ c.action = action /\ c.mission_id = Mission
      /\ c.goals = goals /\ c.ordered = "True" /\ c.current_region_id = current
      /\ c.current_session_id = Session /\ c.selected_region_id = selected
  BY DEF ReprioritizeCommand
<1> HIDE DEF c
<1>2. /\ goals \in Seq(CoveragePlanGoals) /\ ValidGoals(goals) /\ OnePartition(goals)
  BY DEF IsPlan
<1>3. "True" \in Bools /\ Mission \in Nat /\ Mission \in Int /\ Session \in Halves
  BY DEF Bools, Mission, Session, Halves
<1>4. Whole(c)
  <2>1. IsReprioritize(c) BY <1>1, <1>2, <1>3 DEF IsReprioritize
  <2>2. UserTarget(c) BY <2>1 DEF UserTarget
  <2> QED BY <1>1, <2>2, WholeIs DEF UserModels
<1>5. Known(c) BY <1>1, ReprioritizationsKnown
<1>6. CASE action = "prioritize" /\ selected = None
  BY <1>1, <1>4, <1>5, <1>6 DEF Returnable, c
<1>7. CASE ~(action = "prioritize" /\ selected = None)
  <2>1. Valid(Mission) /\ Valid(current) /\ Valid(Session) BY <1>3, Given
  <2>2. action = "prioritize" => Valid(selected)
    <3>1. ASSUME action = "prioritize" PROVE selected \in Halves
      <4>1. selected \in Regions(goals) \cup {<<9, 9>>} BY <1>7, <3>1
      <4>2. <<9, 9>> \in Halves BY DEF Halves
      <4>3. ASSUME NEW i \in DOMAIN goals PROVE goals[i].region_id \in Halves
        <5>1. goals[i] \in CoveragePlanGoals BY <1>2
        <5> QED BY <5>1 DEF CoveragePlanGoals
      <4> QED BY <4>1, <4>2, <4>3 DEF Regions
    <3> QED BY <3>1, Given
  <2>3. ReprioritizeAccepts(c) BY <1>1, <1>2, <1>3, <2>1, <2>2 DEF ReprioritizeAccepts
  <2>4. Accepts(c) BY <1>1, <2>3, CoveragePayloads
  <2>5. Served(c)
    <3>1. ActionAt(c) = "reprioritize" /\ c.type \in DOMAIN Prefix /\ Prefix[c.type] = "coverage"
      BY <1>1 DEF ActionAt, Prefix
    <3>2. RecordAt(c.type, ActionAt(c)) = None BY <1>1, <3>1 DEF RecordAt
    <3>3. Row(Prefix[c.type], ActionAt(c), c.type, "user_command", None) \in CommandSpecs
      BY <1>1, <3>1, MotionHasRow
    <3> QED BY <2>4, <3>1, <3>2, <3>3, ServedIs
  <2> QED BY <1>4, <1>5, <2>5 DEF Returnable, c
<1> QED BY <1>6, <1>7
------------------------------------------------------------------------------
\* What is known of the command in hand: one that encode() has taken is
\* whole, there is a codec for a convenience method's, and the robot's own
\* goals can be returned to it.
HandKept ==
    /\ outcome = "built" => command \in Commands \/ Whole(command)
    /\ outcome = "encoded" => Known(command) /\ Whole(command)
    /\ called => Known(command)
    /\ snapshot # None /\ outcome # "idle" => Returnable(command)
    /\ EveryCallHasACodec
    /\ SnapshotIsServed

\* Nothing is in hand at first.
LEMMA HandAtFirst == Init => HandKept
BY DEF Init, RegistryInit, HandKept, EveryCallHasACodec, SnapshotIsServed

\* What the caller builds is one of the commands, and there is a codec for
\* what a convenience method builds.
LEMMA BuildingHands ==
    ASSUME HandKept, Alone, Construct \/ Call
    PROVE  HandKept'
<1>1. outcome' = "built" /\ snapshot' = None BY DEF Construct, Call, Build, Alone
<1>2. command' \in Commands /\ (called' => Known(command'))
  <2>1. CASE Construct
    <3>1. PICK c \in Commands : Build(c, FALSE) BY <2>1 DEF Construct
    <3> QED BY <3>1 DEF Build
  <2>2. CASE Call
    <3>1. PICK c \in Calls : Build(c, TRUE) BY <2>2 DEF Call
    <3> QED BY <3>1, CallsKnown DEF Build
  <2> QED BY <2>1, <2>2
<1> QED BY <1>1, <1>2 DEF HandKept, EveryCallHasACodec, SnapshotIsServed

\* The reprioritization that is built from the snapshot is whole.
LEMMA ReprioritizingHands ==
    ASSUME IInv, HandKept, Reprioritize
    PROVE  HandKept'
<1>1. outcome' = "built" /\ snapshot # None BY DEF Reprioritize, Build
<1>2. IsSnapshot(snapshot) BY <1>1 DEF IInv, SnapshotKept
<1>3. /\ snapshot.mission_id = Mission /\ snapshot.current_session_id = Session
      /\ IsPlan(snapshot.goals) /\ snapshot.current_region_id \in Halves
  BY <1>2, SnapshotParts DEF IsSnapshot
<1>4. PICK action \in ReprioritizeActions, selected \in Regions(snapshot.goals) \cup {<<9, 9>>, None} :
         command' = ReprioritizeCommand(action, snapshot.mission_id, snapshot.goals, "True",
                        snapshot.current_region_id, snapshot.current_session_id, selected)
  BY DEF Reprioritize, Build
<1>5. PICK goals, current : goals = snapshot.goals /\ current = snapshot.current_region_id OBVIOUS
<1>6. command' = ReprioritizeCommand(action, Mission, goals, "True", current, Session, selected)
  BY <1>3, <1>4, <1>5
<1>7. Whole(command') /\ Returnable(command')
  <2>1. IsPlan(goals) /\ current \in Halves /\ selected \in Regions(goals) \cup {<<9, 9>>, None}
    BY <1>3, <1>5
  <2> QED BY <1>6, <2>1, ReprioritizationsServed
<1> QED BY <1>1, <1>7 DEF HandKept, EveryCallHasACodec, SnapshotIsServed, Returnable

\* The registry knows what a convenience method built, refuses no plan that
\* was read from the robot, and encodes only what is whole.
LEMMA EncodingHands ==
    ASSUME HandKept, Registry, UNCHANGED <<plan, snapshot>>
    PROVE  HandKept'
<1>1. /\ outcome = "built" /\ command' = command /\ called' = called /\ snapshot' = snapshot
  BY DEF Registry, RefuseVersion, RefuseUnknown, RefuseArguments, Encode, Raise
<1>2. called' => Known(command') BY <1>1 DEF HandKept
<1>3. snapshot' # None => Returnable(command') BY <1>1 DEF HandKept
<1>4. CASE RefuseVersion
  <2>1. outcome' = "UnsupportedProtocolVersion" BY <1>4 DEF RefuseVersion, Raise
  <2> QED BY <1>2, <1>3, <2>1 DEF HandKept, EveryCallHasACodec, SnapshotIsServed
<1>5. CASE RefuseUnknown
  <2>1. ~Known(command) /\ outcome' = "UnknownCommand" BY <1>5 DEF RefuseUnknown, Raise
  <2>2. ~called' /\ snapshot' = None BY <1>1, <1>2, <1>3, <2>1 DEF Returnable
  <2> QED BY <1>2, <2>1, <2>2 DEF HandKept, EveryCallHasACodec, SnapshotIsServed
<1>6. CASE RefuseArguments
  <2>1. ~(Accepts(command) /\ OnRecord(command)) /\ outcome' = "ValueError"
    BY <1>6 DEF RefuseArguments, Raise
  <2>2. snapshot' # None => command'.action = "prioritize" /\ command'.selected_region_id = None
    BY <1>1, <1>3, <2>1 DEF Returnable, Served
  <2> QED BY <1>2, <1>3, <2>1, <2>2 DEF HandKept, EveryCallHasACodec, SnapshotIsServed
<1>7. CASE Encode
  <2>1. outcome' = "encoded" /\ Known(command) /\ Accepts(command) BY <1>7 DEF Encode
  <2>2. command \in Commands \/ Whole(command) BY <1>1 DEF HandKept
  <2>3. Whole(command) BY <2>1, <2>2, CommandsWhole
  <2> QED BY <1>1, <1>2, <1>3, <2>1, <2>3 DEF HandKept, EveryCallHasACodec, SnapshotIsServed
<1> QED BY <1>4, <1>5, <1>6, <1>7 DEF Registry

\* Every step keeps what is known of the command in hand.
LEMMA EachHand == IInv /\ HandKept /\ [Next]_vars => HandKept'
<1> SUFFICES ASSUME IInv, HandKept, [Next]_vars PROVE HandKept' OBVIOUS
<1>1. CASE Alone /\ (Construct \/ Call) BY <1>1, BuildingHands
<1>2. CASE Registry /\ UNCHANGED <<plan, snapshot>> BY <1>2, EncodingHands
<1>3. CASE TakeSnapshot
  <2>1. outcome = "idle" /\ UNCHANGED registryVars BY <1>3 DEF TakeSnapshot
  <2> QED BY <2>1 DEF registryVars, HandKept, EveryCallHasACodec, SnapshotIsServed
<1>4. CASE RobotAdvances \/ UNCHANGED vars
  <2>1. UNCHANGED registryVars /\ snapshot' = snapshot BY <1>4 DEF RobotAdvances, vars
  <2> QED BY <2>1 DEF registryVars, HandKept, EveryCallHasACodec, SnapshotIsServed
<1>5. CASE Reprioritize BY <1>5, ReprioritizingHands
<1>6. CASE RobotObeys \/ RequestIsLost
  <2>1. outcome' = "idle" /\ called' = FALSE BY <1>6 DEF RobotObeys, RequestIsLost, Settle
  <2> QED BY <2>1 DEF HandKept, EveryCallHasACodec, SnapshotIsServed
<1> QED BY <1>1, <1>2, <1>3, <1>4, <1>5, <1>6 DEF Next

\* A command in hand that encode() has taken is whole, there is a codec for
\* what a convenience method built, and what was read from the robot can be
\* sent back, whatever the constants.
THEOREM EveryHandIsKept == Spec => []HandKept
BY HandAtFirst, EachHand, EveryPlanIsKept, PTL DEF Spec
------------------------------------------------------------------------------
\* Two commands that encode() turns into the same request ask for the same,
\* whatever their arguments: no argument is ignored, lost, defaulted or
\* swapped on its way into the payload (_Verified*Codec.encode,
\* CommandRegistry.encode).  Only whether a zone is a no-go or a drive-only one
\* is not told.
THEOREM EveryRequestTellsIntent == Spec => []RequestTellsIntent
<1>1. IInv /\ HandKept => RequestTellsIntent
  <2>1. SUFFICES ASSUME IInv, HandKept, outcome = "encoded", NEW s \in Sent, s.request = request
                 PROVE  Intent(s.by) = Intent(command) \/ AlikeButForZone(s.by, command)
    BY DEF RequestTellsIntent
  <2>2. PICK c \in Commands : Known(c) /\ Accepts(c) /\ s = [request |-> Request(c), by |-> c]
    BY <2>1 DEF Sent
  <2>3. Whole(c) BY <2>2, CommandsWhole
  <2>4. Known(command) /\ Whole(command) BY <2>1 DEF HandKept
  <2>5. request = Request(command) BY <2>1 DEF IInv, RequestKept
  <2>6. s.by = c /\ s.request = Request(c) BY <2>2
  <2>7. Request(c) = Request(command) BY <2>1, <2>5, <2>6
  <2> QED BY <2>2, <2>3, <2>4, <2>6, <2>7, RequestsTell DEF Told
<1> QED BY <1>1, EveryPlanIsKept, EveryHandIsKept, PTL

\* The registry has a codec for what any convenience method builds, whatever it
\* is called with (commands.py against COMMAND_SPECS).
THEOREM EveryCallIsKnown == Spec => []EveryCallHasACodec
<1>1. HandKept => EveryCallHasACodec BY DEF HandKept
<1> QED BY <1>1, EveryHandIsKept, PTL

\* Any plan of up to 10000 goals that was read from the robot can be sent back
\* to it in another order or without the current region, after any series of
\* requests (_VerifiedReprioritizeCodec.encode against coverage.py).
THEOREM EverySnapshotIsServed == Spec => []SnapshotIsServed
<1>1. HandKept => SnapshotIsServed BY DEF HandKept
<1> QED BY <1>1, EveryHandIsKept, PTL
==============================================================================
