-------------------------- MODULE Reprioritization --------------------------
(***************************************************************************)
(* A robot at work and a caller who reprioritizes it, on top of            *)
(* CommandRegistry: the caller reads a snapshot of the robot's plan        *)
(* (matic_sdk/coverage.py), builds a ReprioritizeCoverageCommand from it,  *)
(* encodes it, and the robot takes up the goals it is sent; so the next    *)
(* snapshot is made of what an earlier request carried.  The robot goes on *)
(* working meanwhile, and a request may be lost.                           *)
(*                                                                         *)
(* The robot is external: its messages have the fields that coverage.py    *)
(* reads, and it reads the fields that the codec writes.                   *)
(*                                                                         *)
(* Bounds: a behaviour is one command of the alphabet, with the robot      *)
(* idle, or a series of reprioritizations of one of Plans.                 *)
(***************************************************************************)
EXTENDS CommandRegistry

CONSTANT Plans    \* the goals a robot may have when the behaviour begins

\* Plans that coverage.py takes: no more goals than it allows, each of them one
\* that it knows, of one partition.
MaxReports == 10000
IsPlan(goals) ==
    /\ goals \in Seq(CoveragePlanGoals) /\ Len(goals) <= MaxReports
    /\ ValidGoals(goals) /\ OnePartition(goals)
ASSUME PlansAssumption == \A goals \in Plans : IsPlan(goals)

\* What the caller is given of one.
Snapshots ==
    [mission_id: Nat, goals: Seq(CoveragePlanGoals), current_region_id: Halves,
     current_session_id: Halves]
ASSUME SnapshotsAssumption == None \notin Snapshots /\ Malformed \notin Snapshots

Mission == 300
Session == <<2, 0>>
Styles == {"legacy", "fixed128"}    \* how firmware writes an identifier

VARIABLES
    plan,       \* the robot's goals, in the order it will take them
    snapshot    \* the caller's ReprioritizationSnapshot, None, or Malformed

vars == <<registryVars, plan, snapshot>>

Init ==
    /\ RegistryInit
    /\ plan \in Plans \cup {<<>>}
    /\ snapshot = None
------------------------------------------------------------------------------
(* What the robot publishes: coverage_plan and active_session_key.          *)

RobotUuid(u, style) ==
    IF style = "fixed128" THEN WrappedUuid(u)
    ELSE Bytes(1, [i \in 1..16 |-> IF i <= 8 THEN Backward(u[1]) ELSE Backward(u[2])])
RobotGoal(g, style) ==
    Bytes(6, Bytes(1, Bytes(2, RobotUuid(g.goal_id, style))) \o
             Bytes(3, SpecFields(g.spec))) \o
    Bytes(7, Bytes(1, Bytes(1, RobotUuid(g.partition_id, style))) \o
             Bytes(2, Empty(1)) \o
             Bytes(3, Bytes(3, Bytes(2, RobotUuid(g.region_id, style)))))
PlanMessage(goals, current, style) ==
    IF goals = <<>> THEN <<>>
    ELSE Bytes(7, FlattenSeq([i \in DOMAIN goals |->
                     Bytes(1, Bytes(1, RobotGoal(goals[i], style)))])) \o
         Bytes(11, MissionId(Mission)) \o
         Bytes(14, Bytes(1, Bytes(4, Bytes(2, RobotUuid(current, style)))))
SessionMessage(goals, style) ==
    IF goals = <<>> THEN <<>>
    ELSE Bytes(1, MissionId(Mission)) \o Bytes(2, Bytes(2, RobotUuid(Session, style)))

Regions(goals) == {goals[i].region_id : i \in DOMAIN goals}

\* fetch_reprioritization_snapshot (CoverageSnapshot has its waiting): the
\* plan and the session of one mission; None while the robot is idle.
Joined(decoded, active) ==
    IF active = None THEN None
    ELSE IF Malformed \in {decoded, active} THEN Malformed
    ELSE IF decoded = None \/ decoded.mission_id # active.mission_id THEN None
    ELSE [mission_id |-> decoded.mission_id, goals |-> decoded.goals,
          current_region_id |-> decoded.current_region_id,
          current_session_id |-> active.session_id]

\* The robot names any region of its plan as the one it is in.
TakeSnapshot ==
    /\ outcome = "idle"
    /\ \E current \in IF plan = <<>> THEN {None} ELSE Regions(plan), style \in Styles :
          snapshot' = Joined(DecodePlan(PlanMessage(plan, current, style)),
                             DecodeSessionKey(SessionMessage(plan, style)))
    /\ UNCHANGED <<registryVars, plan>>

\* reprioritize_coverage with the parts of a snapshot; the snapshot's goals
\* are ordered.
Reprioritize ==
    /\ outcome = "idle"
    /\ snapshot \notin {None, Malformed}
    /\ \E action \in ReprioritizeActions,
          selected \in Regions(snapshot.goals) \cup {<<9, 9>>, None} :
          Build(ReprioritizeCommand(action, snapshot.mission_id, snapshot.goals,
                    "True", snapshot.current_region_id,
                    snapshot.current_session_id, selected), TRUE)
    /\ UNCHANGED <<plan, snapshot>>
------------------------------------------------------------------------------
(* The robot.                                                               *)

\* The ordered goals of a coverage request for this mission and session.
Delivered(payload) ==
    LET job == Within(Within(Within(payload, 15), 1), 3)
        goals == Repeated(FieldsOf(Within(job, 5)), 1)
    IN IF /\ DecodeMission(Within(job, 3)) = Mission
          /\ DecodeIdentifier(Within(job, 6)) = Session
       THEN [i \in DOMAIN goals |-> DecodeGoal(goals[i])]
       ELSE <<>>

Settle(goals) ==
    /\ plan' = goals
    /\ outcome' = "idle" /\ request' = None
    /\ command' = None /\ called' = FALSE
    /\ UNCHANGED <<version, snapshot>>
InSeries == outcome = "encoded" /\ snapshot # None
RobotObeys == InSeries /\ Settle(Delivered(request.payload))
RequestIsLost == InSeries /\ Settle(plan)

\* It finishes its first goal, whatever the caller is doing.
RobotAdvances ==
    /\ plan # <<>>
    /\ plan' = Tail(plan)
    /\ UNCHANGED <<registryVars, snapshot>>

Alone == plan = <<>> /\ snapshot = None /\ UNCHANGED <<plan, snapshot>>
Next ==
    \/ Alone /\ (Construct \/ Call)
    \/ Registry /\ UNCHANGED <<plan, snapshot>>
    \/ TakeSnapshot \/ Reprioritize
    \/ RobotObeys \/ RequestIsLost \/ RobotAdvances

Spec == Init /\ [][Next]_vars
------------------------------------------------------------------------------
TypeOK ==
    /\ version \in Versions
    /\ called \in BOOLEAN
    /\ outcome \in {"idle", "built", "encoded", "UnsupportedProtocolVersion",
                    "UnknownCommand", "ValueError"}
    /\ (command = None) <=> (outcome = "idle")
    /\ (request # None) <=> (outcome = "encoded")
    /\ snapshot \notin {None, Malformed} =>
          snapshot.current_region_id \in Regions(snapshot.goals)

\* A snapshot is the robot's plan at that moment, goal for goal, however the
\* firmware writes identifiers: what the codec wrote into an earlier request and
\* the robot took up is read back unchanged (decode_coverage_plan,
\* decode_active_session_key).
SnapshotIsThePlan ==
    [][TakeSnapshot =>
          IF plan = <<>> THEN snapshot' = None
          ELSE /\ snapshot' # Malformed
               /\ snapshot'.goals = plan
               /\ snapshot'.mission_id = Mission
               /\ snapshot'.current_session_id = Session]_vars

\* No goal of the snapshot is lost, repeated or altered on the way to the robot:
\* prioritizing only moves the current region's goals, skipping removes them and
\* nothing else (_VerifiedReprioritizeCodec.encode).
GoalsSurvive ==
    [][RobotObeys =>
          LET here == command.current_region_id IN
          /\ Outside(plan', here) = Outside(command.goals, here)
          /\ Inside(plan', here) = IF command.action = "skip" THEN <<>>
                                   ELSE Inside(command.goals, here)]_vars

\* After prioritizing a region, the robot takes up all of its goals before any
\* goal of the region it was in (test: Prioritize inserts the current goals after
\* the last goal of the selected region).
SelectedGoesFirst ==
    [][RobotObeys /\ command.action = "prioritize"
       /\ command.selected_region_id \in
            Regions(command.goals) \ {command.current_region_id} =>
          \A i, j \in DOMAIN plan' :
             /\ plan'[i].region_id = command.selected_region_id
             /\ plan'[j].region_id = command.current_region_id
             => i < j]_vars

\* What was read from the robot can be sent back: a reprioritization made of a
\* snapshot is one that the codec takes, however far the robot has come since,
\* unless it names no region to prioritize (_VerifiedReprioritizeCodec.encode
\* against the decoders of coverage.py).
SnapshotIsServed ==
    snapshot # None =>
       /\ outcome # "UnknownCommand"
       /\ outcome = "ValueError" =>
             command.action = "prioritize" /\ command.selected_region_id = None

\* A plan that is cut short is never acted on: whatever part of the robot's
\* messages arrives, the decoders refuse it or wait, they never return a plan
\* with goals missing (wire.py parse_fields, coverage.py).
CutMessages ==
    \A style \in Styles :
       LET whole == PlanMessage(plan, plan[1].region_id, style)
           session == SessionMessage(plan, style)
       IN /\ \A n \in 0..Len(whole) - 1 :
                DecodePlan(SubSeq(whole, 1, n)) \in {None, Malformed}
          /\ \A n \in 0..Len(session) - 1 :
                DecodeSessionKey(SubSeq(session, 1, n)) \in {None, Malformed}
CutPlanIsInert == plan # <<>> /\ outcome = "idle" /\ snapshot = None => CutMessages
=============================================================================
