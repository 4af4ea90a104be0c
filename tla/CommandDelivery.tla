--------------------------- MODULE CommandDelivery ---------------------------
(***************************************************************************)
(* What CommandExecutor promises to whoever issues a command: the robot is *)
(* handed the request at most once, and the caller is told one thing about *)
(* it.  "refused" promises the robot never gets it, "receipt" that it has  *)
(* it, "unknown" promises nothing: this answer must not be retried.        *)
(***************************************************************************)
EXTENDS Naturals

CONSTANT Commands

VARIABLES
    handed,    \* how often the request was handed to the network
    received,  \* how often the robot received it
    verdict    \* what the caller was told

Verdicts == {"none", "refused", "receipt", "unknown"}

Init ==
    /\ handed = [c \in Commands |-> 0]
    /\ received = [c \in Commands |-> 0]
    /\ verdict = [c \in Commands |-> "none"]

Hand(c) ==
    /\ verdict[c] = "none" /\ handed[c] = 0
    /\ handed' = [handed EXCEPT ![c] = 1]
    /\ UNCHANGED <<received, verdict>>

Receive(c) ==
    /\ received[c] < handed[c]
    /\ received' = [received EXCEPT ![c] = 1]
    /\ UNCHANGED <<handed, verdict>>

Tell(c, v) ==
    /\ verdict[c] = "none"
    /\ v = "refused" => handed[c] = 0
    /\ v = "receipt" => received[c] = 1
    /\ verdict' = [verdict EXCEPT ![c] = v]
    /\ UNCHANGED <<handed, received>>

Next == \E c \in Commands :
    Hand(c) \/ Receive(c) \/ \E v \in Verdicts \ {"none"} : Tell(c, v)

Spec == Init /\ [][Next]_<<handed, received, verdict>>
==============================================================================
