--------------------------- MODULE CoverageCodecs ---------------------------
(***************************************************************************)
(* matic_sdk/protocol/commands.py: the coverage codecs, and                *)
(* matic_sdk/coverage.py: the decoders of what the robot publishes about   *)
(* its coverage.  Both speak of the same goals.                            *)
(***************************************************************************)
EXTENDS CommandCodecs

SpecFields(s) ==
    Varint(1, s.setting) \o Varint(2, s.floor) \o
    Varint(4, s.cleaning_mode) \o Varint(5, s.behavior)
GoalHeader(id, spec) ==
    Bytes(6, Bytes(1, Bytes(2, WrappedUuid(id))) \o Bytes(3, SpecFields(spec)))
RegionTarget(partition, region) ==
    Bytes(1, Bytes(1, WrappedUuid(partition))) \o
    Bytes(2, Empty(1)) \o
    Bytes(3, Bytes(3, Bytes(2, WrappedUuid(region))))

\* A circle, its point in the robot's reflected frame.
Circle(c) ==
    Bytes(1, Bytes(1, Float(1, -c.y_meters) \o Float(2, -c.x_meters)) \o
             Fixed32(2, c.radius_meters))
GoodCircles(circles) ==
    /\ circles \notin {Junk, <<>>}
    /\ \A i \in DOMAIN circles :
          /\ circles[i] # Junk
          /\ Valid(circles[i].x_meters) /\ Valid(circles[i].y_meters)
          /\ circles[i].radius_meters > 0
DrawnArea(circles) ==
    Bytes(2, FlattenSeq([i \in DOMAIN circles |-> Circle(circles[i])]))
DrawnAreaTarget(partition, circles) ==
    Bytes(1, Bytes(1, WrappedUuid(partition))) \o
    Bytes(2, Bytes(3, DrawnArea(circles))) \o
    Bytes(3, Empty(2))

CoverageEnvelope(mission, goals, session, id) ==
    Bytes(15, Bytes(1, Bytes(3,
        Bytes(2, Bytes(2, Empty(1))) \o Bytes(3, MissionId(mission)) \o
        Bytes(5, goals) \o Bytes(6, Bytes(2, WrappedUuid(session))) \o
        Bytes(7, Bytes(1, WrappedUuid(id))))))

\* The goals of one area: vacuuming covers carpet too, mopping does not.
VacuumSpecs(setting) ==
    [i \in 1..8 |-> CoverageGoalSpec(setting, (i - 1) \div 4, 0, (i - 1) % 4)]
MopSpecs(setting) == [i \in 1..4 |-> CoverageGoalSpec(setting, 0, 1, i - 1)]
Specs(mode, vacuum, mop) ==
    When(mode \in {"vacuum", "vacuum_and_mop"}, VacuumSpecs(vacuum)) \o
    When(mode \in {"mop", "vacuum_and_mop"}, MopSpecs(mop))
GoalField(ordered) == IF ordered = "True" THEN 1 ELSE 2
------------------------------------------------------------------------------
ExactTuple(values) == values # Junk /\ \A i \in DOMAIN values : values[i] # Junk

NormalAccepts(c) ==
    /\ Valid(c.mission_id) /\ Valid(c.partition_id)
    /\ ExactTuple(c.region_ids) /\ c.region_ids # <<>>
    /\ c.cleaning_mode \in CleaningModes
    /\ Valid(c.coverage_setting)
    /\ c.ordered \in Bools
    /\ c.stain_mode = None /\ c.circles = <<>>

\* Every region gets the goals of every specification, in that order.
NormalPayload(c) ==
    LET setting == IF c.coverage_setting = "standard" THEN 1 ELSE 2
        specs == Specs(c.cleaning_mode, setting, setting)
        count == Len(c.region_ids) * Len(specs)
        goal(n) ==
            GoalHeader(Fresh(n), specs[1 + ((n - 1) % Len(specs))]) \o
            Bytes(7, RegionTarget(c.partition_id,
                                  c.region_ids[1 + ((n - 1) \div Len(specs))]))
        goals == [n \in 1..count |-> Bytes(GoalField(c.ordered), goal(n))]
    IN CoverageEnvelope(c.mission_id, FlattenSeq(goals), Fresh(count + 1),
                        Fresh(count + 2))

StainAccepts(c) ==
    /\ Valid(c.mission_id)
    /\ c.partition_id = None /\ c.region_ids = <<>>
    /\ c.cleaning_mode = "vacuum_and_mop"
    /\ c.coverage_setting = "standard"
    /\ c.ordered = "False"
    /\ c.stain_mode \in StainModes
    /\ GoodCircles(c.circles)
StainPayload(c) ==
    LET thrice == MopSpecs(0) \o MopSpecs(0) \o MopSpecs(0)
        specs == When(c.stain_mode = "dry_stain", VacuumSpecs(1)) \o thrice
        target == DrawnAreaTarget(Fresh(2), c.circles)
        goals == [n \in 1..Len(specs) |->
                    Bytes(2, GoalHeader(Fresh(n + 2), specs[n]) \o Bytes(7, target))]
    IN CoverageEnvelope(c.mission_id, FlattenSeq(goals), Fresh(1),
                        Fresh(Len(specs) + 3))
------------------------------------------------------------------------------
(* Reprioritization: the robot's own goals, in another order or fewer.      *)

ValidGoals(goals) ==
    /\ ExactTuple(goals)
    /\ \A i \in DOMAIN goals :
          LET g == goals[i] IN
          /\ \A f \in DOMAIN g : g[f] # Junk
          /\ ~(g.spec.cleaning_mode = 1 /\ g.spec.floor = 1)
    /\ \A i, j \in DOMAIN goals : i # j => goals[i].goal_id # goals[j].goal_id
OnePartition(goals) ==
    goals # <<>> /\ \A i \in DOMAIN goals : goals[i].partition_id = goals[1].partition_id

\* Mutant: a region is asked for whatever the action.
AcceptsSelected(c) ==
    /\ Valid(c.mission_id)
    /\ c.action \in ReprioritizeActions
    /\ c.ordered \in Bools
    /\ ValidGoals(c.goals)
    /\ Valid(c.current_region_id) /\ Valid(c.current_session_id)
    /\ OnePartition(c.goals) => Valid(c.selected_region_id)
ReprioritizeAccepts(c) ==
    /\ Valid(c.mission_id)
    /\ c.action \in ReprioritizeActions
    /\ c.ordered \in Bools
    /\ ValidGoals(c.goals)
    /\ Valid(c.current_region_id) /\ Valid(c.current_session_id)
    /\ OnePartition(c.goals) /\ c.action = "prioritize" =>
          Valid(c.selected_region_id)

\* The goals of one region, and the others, in their order.
Inside(goals, region) ==
    FlattenSeq([i \in DOMAIN goals |-> When(goals[i].region_id = region, <<goals[i]>>)])
Outside(goals, region) ==
    FlattenSeq([i \in DOMAIN goals |-> When(goals[i].region_id # region, <<goals[i]>>)])

\* Mutant: the insertion index is counted in the whole plan.
PrioritizedByPlanIndex(goals, currentRegion, selected) ==
    LET current == Inside(goals, currentRegion)
        remaining == Outside(goals, currentRegion)
        at == {0} \cup {i \in DOMAIN goals : goals[i].region_id = selected}
        insertion == CHOOSE i \in at : \A j \in at : j <= i
    IN SubSeq(remaining, 1, IF insertion > Len(remaining) THEN Len(remaining)
                            ELSE insertion) \o current \o
       SubSeq(remaining, insertion + 2, Len(remaining))
\* Mutant: behind the selected region's first goal.
PrioritizedBehindFirst(goals, currentRegion, selected) ==
    LET current == Inside(goals, currentRegion)
        remaining == Outside(goals, currentRegion)
        at == {i \in DOMAIN remaining : remaining[i].region_id = selected}
        insertion == IF at = {} THEN 0 ELSE CHOOSE i \in at : \A j \in at : i <= j
    IN SubSeq(remaining, 1, insertion) \o current \o
       SubSeq(remaining, insertion + 1, Len(remaining))
\* The current region's goals go behind the selected region's last one.
Prioritized(goals, currentRegion, selected) ==
    LET current == Inside(goals, currentRegion)
        remaining == Outside(goals, currentRegion)
        at == {0} \cup {i \in DOMAIN remaining : remaining[i].region_id = selected}
        insertion == CHOOSE i \in at : \A j \in at : j <= i
    IN SubSeq(remaining, 1, insertion) \o current \o
       SubSeq(remaining, insertion + 1, Len(remaining))

Transformed(c) ==
    IF ~OnePartition(c.goals) THEN c.goals
    ELSE IF c.action = "prioritize"
         THEN Prioritized(c.goals, c.current_region_id, c.selected_region_id)
    ELSE Outside(c.goals, c.current_region_id)

PlanGoal(g) == GoalHeader(g.goal_id, g.spec) \o
               Bytes(7, RegionTarget(g.partition_id, g.region_id))
ReprioritizePayload(c) ==
    LET reordered == Transformed(c)
        goals == [i \in DOMAIN reordered |-> Bytes(GoalField(c.ordered), PlanGoal(reordered[i]))]
    IN CoverageEnvelope(c.mission_id, FlattenSeq(goals), c.current_session_id, Fresh(1))
------------------------------------------------------------------------------
(* matic_sdk/coverage.py.  Malformed stands for CoverageDecodeError.        *)

\* What it decodes, when it refuses nothing; None, Junk and Malformed are no such
\* values, and no parts of them.
DecodedPlans ==
    [mission_id: Nat, goals: Seq(CoveragePlanGoals), current_region_id: Halves]
DecodedSessions == [mission_id: Nat, session_id: Halves]
ASSUME MarksAssumption ==
    /\ None # Malformed
    /\ \A mark \in {None, Junk, Malformed} :
          /\ mark \notin Nat /\ mark \notin Halves /\ mark \notin Seq(Nat)
          /\ mark \notin CoverageGoalSpecs /\ mark \notin CoveragePlanGoals
          /\ mark \notin Seq(CoveragePlanGoals)
          /\ mark \notin DecodedPlans /\ mark \notin DecodedSessions

FieldsOf(message) ==
    IF message = Malformed THEN Malformed ELSE ParseFields(message)
Numbered(fields, number) == {i \in DOMAIN fields : fields[i].number = number}

\* _optional_message and _optional_integer: at most one field of that number,
\* of that wire type; Malformed, None or its value.
Optional(fields, number, wireType) ==
    IF fields = Malformed THEN Malformed
    ELSE LET found == Numbered(fields, number) IN
         IF \/ \E i \in found : fields[i].type # wireType
            \/ \E i, j \in found : i # j
         THEN Malformed
         ELSE IF found = {} THEN None ELSE fields[CHOOSE i \in found : TRUE].value
Required(fields, number, wireType) ==
    LET value == Optional(fields, number, wireType)
    IN IF value = None THEN Malformed ELSE value

\* The message in a required field of another.
Within(message, number) == Required(FieldsOf(message), number, 2)
Scalar(fields, number, wireType) ==
    LET value == Optional(fields, number, wireType)
    IN IF value = Malformed THEN Malformed ELSE IF value = None THEN 0 ELSE value[1]

DecodeMission(message) == Scalar(FieldsOf(message), 2, 5)

\* _decode_uuid: sixteen bytes, or two numbers.
TwoHalves(fields) ==
    IF Malformed \in {Scalar(fields, 1, 1), Scalar(fields, 2, 1)} THEN Malformed
    ELSE <<Scalar(fields, 1, 1), Scalar(fields, 2, 1)>>
\* Mutant: the bytes of a legacy identifier are read in the wire's order.
UuidAsRead(legacy, fixed) ==
    IF Malformed \in {legacy, fixed} \/ (legacy = None <=> fixed = None) THEN Malformed
    ELSE IF legacy = None THEN TwoHalves(FieldsOf(fixed))
    ELSE IF Len(legacy) = 16 THEN <<legacy[1], legacy[9]>>
    ELSE Malformed
Uuid(legacy, fixed) ==
    IF Malformed \in {legacy, fixed} \/ (legacy = None <=> fixed = None) THEN Malformed
    ELSE IF legacy = None THEN TwoHalves(FieldsOf(fixed))
    ELSE IF Len(legacy) = 16 THEN <<Backward(legacy[1]), Backward(legacy[9])>>
    ELSE Malformed
UuidIn(fields) == Uuid(Optional(fields, 1, 2), Optional(fields, 2, 2))
DecodeUuid(message) == UuidIn(FieldsOf(message))
DecodeIdentifier(message) == DecodeUuid(Within(message, 2))

SpecOf(setting, floor, mode, behavior) ==
    IF \/ Malformed \in {setting, floor, mode, behavior}
       \/ setting[1] \notin CoverageGoalSettings \/ floor[1] \notin CleaningFloors
       \/ mode[1] \notin CoverageGoalCleaningModes
       \/ behavior[1] \notin CoverageBehaviors
       \/ mode[1] = 1 /\ floor[1] = 1
    THEN Malformed
    ELSE CoverageGoalSpec(setting[1], floor[1], mode[1], behavior[1])
SpecIn(fields) == SpecOf(Required(fields, 1, 0), Required(fields, 2, 0),
                         Required(fields, 4, 0), Required(fields, 5, 0))

\* _decode_standard_goal: a whole region of the map, not a drawn area.
IsRegion(kind) == Optional(kind, 1, 2) \notin {None, Malformed} /\ Optional(kind, 3, 2) = None
GoalOf(id, spec, partition, region, regular) ==
    IF Malformed \in {id, spec, partition, region} \/ ~regular THEN Malformed
    ELSE CoveragePlanGoal(id, partition, region, spec)
DecodeGoal(message) ==
    LET header == Within(message, 6)
        target == Within(message, 7)
    IN GoalOf(DecodeUuid(Within(Within(header, 1), 2)),
              SpecIn(FieldsOf(Within(header, 3))),
              DecodeUuid(Within(Within(target, 1), 1)),
              DecodeIdentifier(Within(Within(target, 3), 3)),
              /\ IsRegion(FieldsOf(Within(target, 2)))
              /\ Optional(FieldsOf(Within(target, 3)), 2, 2) = None)

\* _decode_current_region: the robot's candidate.
DecodeCurrentRegion(message) == DecodeIdentifier(Within(Within(message, 1), 4))

\* _repeated_messages: the values of the fields of that number, in order.
Repeated(fields, number) ==
    FlattenSeq([i \in DOMAIN fields |->
                  When(fields[i].number = number, <<fields[i].value>>)])

\* The goals of the reports, those left out that have none.
GoalMessages(reports) ==
    FlattenSeq([i \in DOMAIN reports |->
                  LET goal == Optional(FieldsOf(reports[i]), 1, 2)
                  IN When(goal # None, <<goal>>)])
GoalsOf(messages) ==
    [i \in DOMAIN messages |->
        IF messages[i] = Malformed THEN Malformed ELSE DecodeGoal(messages[i])]
GoalsIn(fields) ==
    IF fields = Malformed \/ \E i \in Numbered(fields, 1) : fields[i].type # 2
    THEN <<Malformed>>
    ELSE GoalsOf(GoalMessages(Repeated(fields, 1)))

\* decode_coverage_plan: a plan, None while there is nothing to act on.
PlanWith(goals, mission, region) ==
    IF ~ValidGoals(goals) \/ ~OnePartition(goals) \/ Malformed \in {mission, region}
    THEN Malformed
    ELSE [mission_id |-> mission, goals |-> goals, current_region_id |-> region]
PlanOf(goals, mission, candidate) ==
    IF \E i \in DOMAIN goals : goals[i] = Malformed THEN Malformed
    ELSE IF goals = <<>> THEN None
    ELSE IF mission = None THEN Malformed
    ELSE IF candidate = None THEN None
    ELSE PlanWith(goals, DecodeMission(mission), DecodeCurrentRegion(candidate))
PlanIn(reports, mission, candidate) ==
    IF Malformed \in {reports, mission, candidate} THEN Malformed
    ELSE IF reports = None THEN None
    ELSE PlanOf(GoalsIn(FieldsOf(reports)), mission, candidate)
PlanFields(fields) ==
    PlanIn(Optional(fields, 7, 2), Optional(fields, 11, 2), Optional(fields, 14, 2))
DecodePlan(payload) == IF payload = <<>> THEN None ELSE PlanFields(FieldsOf(payload))

\* decode_active_session_key: the session, None while the robot is idle.
SessionOf(mission, session) ==
    IF Malformed \in {mission, session} THEN Malformed
    ELSE [mission_id |-> mission, session_id |-> session]
SessionIn(fields) ==
    SessionOf(DecodeMission(Required(fields, 1, 2)), DecodeIdentifier(Required(fields, 2, 2)))
DecodeSessionKey(payload) == IF payload = <<>> THEN None ELSE SessionIn(FieldsOf(payload))
============================================================================
