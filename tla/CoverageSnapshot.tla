-------------------------- MODULE CoverageSnapshot --------------------------
(***************************************************************************)
(* matic_sdk/coverage.py: fetch_reprioritization_snapshot joins two        *)
(* collections, coverage_plan and active_session_key, that the robot       *)
(* updates independently.  The TelemetrySession below it (see Telemetry)   *)
(* is an arbitrary merge of the two streams, each in its own order.        *)
(***************************************************************************)
EXTENDS Naturals, Sequences

CONSTANTS
    MissionOf,  (* the mission of each coverage session, in time order *)
    MaxPlans    (* bound: plans the robot publishes per session        *)

ASSUME MissionsAssumption ==
    /\ Len(MissionOf) \in Nat \ {0}
    /\ MaxPlans \in Nat \ {0}

Sessions == 1..Len(MissionOf)
Idle == 0
None == <<>>                 \* an empty value, a DELETE, or a plan still selecting
Unseen == <<"unseen">>
Collections == {"coverage_plan", "active_session_key"}

VARIABLES
    session,   \* the robot's coverage session, or Idle
    past,      \* sessions that have begun
    plans,     \* plans published in the current session
    retained,  \* the current value of each collection
    stream,    \* updates on their way to each subscription
    call,      \* where the call is
    plan,      \* its local variables
    active,
    result,    \* the snapshot: the plan and the session it is joined with
    wasIdle    \* the robot has been idle since the call began

robotVars == <<session, past, plans, retained, wasIdle>>
snapshotVars == <<session, past, plans, retained, stream, call, plan, active, result, wasIdle>>

\* A plan value names its mission and lists its goals, here by the session and the
\* number of the plan; that session is nowhere in the value for the call to read.
Plan(s, n) == <<MissionOf[s], s, n>>
Key(s) == <<MissionOf[s], s>>

Subscribed(c) == \/ call = "waiting"
                 \/ call = "half" /\ c = "coverage_plan"

SnapshotInit ==
    /\ session \in {Idle, 1}
    /\ past = session
    /\ plans = 0
    /\ retained = [c \in Collections |->
                     IF c = "active_session_key" /\ session # Idle THEN Key(1) ELSE None]
    /\ stream = [c \in Collections |-> <<>>]
    /\ call = "idle"
    /\ plan = Unseen /\ active = Unseen
    /\ result = None
    /\ wasIdle = FALSE
------------------------------------------------------------------------------
(* The robot (external) publishes; a subscription receives every update.    *)

Publish(c, v) ==
    /\ retained' = [retained EXCEPT ![c] = v]
    /\ stream' = IF Subscribed(c) THEN [stream EXCEPT ![c] = Append(@, v)] ELSE stream

callVars == <<call, plan, active, result>>

BeginSession ==
    /\ session = Idle /\ past < Len(MissionOf)
    /\ session' = past + 1 /\ past' = past + 1 /\ plans' = 0
    /\ Publish("active_session_key", Key(past + 1))
    /\ UNCHANGED <<callVars, wasIdle>>

PublishPlan ==
    /\ session # Idle /\ plans < MaxPlans
    /\ plans' = plans + 1
    /\ Publish("coverage_plan", Plan(session, plans + 1))
    /\ UNCHANGED <<session, past, callVars, wasIdle>>

EndSession ==
    /\ session # Idle
    /\ session' = Idle
    /\ Publish("active_session_key", None)
    /\ wasIdle' = (wasIdle \/ call # "idle")
    /\ UNCHANGED <<past, plans, callVars>>

\* The plan is withdrawn separately, before or after the session ends.
WithdrawPlan ==
    /\ retained["coverage_plan"] # None
    /\ Publish("coverage_plan", None)
    /\ UNCHANGED <<session, past, plans, callVars, wasIdle>>
------------------------------------------------------------------------------
(* fetch_reprioritization_snapshot.                                         *)

\* start() subscribes to the plan first; each subscription is fresh, that is,
\* begins with the retained value.
Fresh(c) == stream' = [stream EXCEPT ![c] = Append(@, retained[c])]

SubscribePlan ==
    /\ call = "idle"
    /\ call' = "half"
    /\ Fresh("coverage_plan")
    /\ wasIdle' = (session = Idle)
    /\ UNCHANGED <<session, past, plans, retained, plan, active, result>>

SubscribeKey ==
    /\ call = "half"
    /\ call' = "waiting"
    /\ Fresh("active_session_key")
    /\ UNCHANGED <<robotVars, plan, active, result>>

\* The next update of the merged stream is one of collection c.
Update(c) ==
    /\ call = "waiting"
    /\ stream[c] # <<>>
    /\ stream' = [stream EXCEPT ![c] = Tail(@)]

\* The join: both values present and of the same mission.
Join(p, a) ==
    IF p \notin {Unseen, None} /\ a \notin {Unseen, None} /\ p[1] = a[1]
    THEN call' = "snapshot" /\ result' = <<p, a>>
    ELSE UNCHANGED <<call, result>>

\* Mutant: a withdrawn plan is taken for an idle robot.
TakePlanAsIdle ==
    /\ Update("coverage_plan")
    /\ plan' = Head(stream["coverage_plan"])
    /\ IF plan' = None THEN call' = "inactive" /\ UNCHANGED result ELSE Join(plan', active)
    /\ UNCHANGED <<robotVars, active>>

TakePlan ==
    /\ Update("coverage_plan")
    /\ plan' = Head(stream["coverage_plan"])
    /\ Join(plan', active)
    /\ UNCHANGED <<robotVars, active>>

TakeKey ==
    /\ Update("active_session_key")
    /\ active' = Head(stream["active_session_key"])
    /\ IF active' = None THEN call' = "inactive" /\ UNCHANGED result
       ELSE Join(plan, active')
    /\ UNCHANGED <<robotVars, plan>>

\* A payload that cannot be decoded, a stream that fails or ends, the deadline.
Fail ==
    /\ call \in {"half", "waiting"}
    /\ call' = "error"
    /\ UNCHANGED <<robotVars, stream, plan, active, result>>
------------------------------------------------------------------------------
Robot == BeginSession \/ PublishPlan \/ EndSession \/ WithdrawPlan
Fetch == SubscribePlan \/ SubscribeKey \/ TakePlan \/ TakeKey \/ Fail
Returned == call \in {"snapshot", "inactive", "error"} /\ UNCHANGED snapshotVars

SnapshotNext == Robot \/ Fetch \/ Returned

SnapshotSpec == SnapshotInit /\ [][SnapshotNext]_snapshotVars
------------------------------------------------------------------------------
(* Properties.                                                              *)

Plans == {Plan(s, n) : s \in Sessions, n \in 1..MaxPlans}
Keys == {Key(s) : s \in Sessions}
Values == [coverage_plan |-> Plans \cup {None}, active_session_key |-> Keys \cup {None}]

\* Types of the variables: no value of one collection is taken for one of the
\* other, and a snapshot is a plan and a session.
SnapshotTypeOK ==
    /\ session \in Sessions \cup {Idle} /\ past \in 0..Len(MissionOf)
    /\ plans \in 0..MaxPlans
    /\ \A c \in Collections : retained[c] \in Values[c] /\ stream[c] \in Seq(Values[c])
    /\ call \in {"idle", "half", "waiting", "snapshot", "inactive", "error"}
    /\ plan \in Values["coverage_plan"] \cup {Unseen}
    /\ active \in Values["active_session_key"] \cup {Unseen}
    /\ result \in {None} \cup (Plans \X Keys)
    /\ wasIdle \in BOOLEAN

\* None is returned only if the robot was idle at some moment of the call,
\* whatever the robot published before, between and after the two subscriptions.
InactiveMeansIdle == call = "inactive" => wasIdle
==============================================================================
