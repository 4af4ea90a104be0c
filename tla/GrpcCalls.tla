------------------------------ MODULE GrpcCalls ------------------------------
(***************************************************************************)
(* What the transport promises to the callers that share its connection,   *)
(* each call as if it were alone: a refused call never reaches the robot;  *)
(* what is handed to the caller is what the robot answered, and only when  *)
(* the caller's last message is out; the caller is told one thing at the   *)
(* end, a status only with the whole answer and only the one the robot     *)
(* gave; and a call that nobody else can cancel is never ended quietly.    *)
(***************************************************************************)
EXTENDS Naturals

CONSTANTS
    Calls,
    Shared    \* the calls that somebody beside the caller may cancel

VARIABLES
    response,   \* the robot's side: not begun, open, or how it ended it
    answered,   \* the messages the robot has sent
    asked,      \* the caller's last message is out
    handed,     \* the messages the caller has been handed
    told        \* what the caller was told

Statuses == {"ok", "bad"}
Verdicts == {"ok", "status", "error", "stopped"}

Init ==
    /\ response = [c \in Calls |-> "none"]
    /\ answered = [c \in Calls |-> 0]
    /\ asked = [c \in Calls |-> FALSE]
    /\ handed = [c \in Calls |-> 0]
    /\ told = [c \in Calls |-> "none"]

Begin(c) ==
    /\ told[c] = "none" /\ response[c] = "none"
    /\ response' = [response EXCEPT ![c] = "open"]
    /\ UNCHANGED <<answered, asked, handed, told>>

Ask(c) ==
    /\ told[c] = "none" /\ response[c] # "none" /\ ~asked[c]
    /\ asked' = [asked EXCEPT ![c] = TRUE]
    /\ UNCHANGED <<response, answered, handed, told>>

\* The robot may answer before it is asked, and end before it is done.
Answer(c) ==
    /\ response[c] = "open"
    /\ answered' = [answered EXCEPT ![c] = @ + 1]
    /\ UNCHANGED <<response, asked, handed, told>>

EndResponse(c) ==
    /\ response[c] = "open"
    /\ \E e \in Statuses \cup {"reset"} : response' = [response EXCEPT ![c] = e]
    /\ UNCHANGED <<answered, asked, handed, told>>

\* A message is handed over; the caller may have one to send in return.
Hand(c) ==
    /\ told[c] = "none" /\ asked[c] /\ handed[c] < answered[c]
    /\ handed' = [handed EXCEPT ![c] = @ + 1]
    /\ \E b \in BOOLEAN : asked' = [asked EXCEPT ![c] = b]
    /\ UNCHANGED <<response, answered, told>>

Whole(c) == asked[c] /\ handed[c] = answered[c]
Tell(c, v) ==
    /\ told[c] = "none"
    /\ v = "ok" => response[c] = "ok" /\ Whole(c)
    /\ v = "status" => response[c] = "bad" /\ Whole(c)
    /\ v = "stopped" => c \in Shared
    /\ told' = [told EXCEPT ![c] = v]
    /\ UNCHANGED <<response, answered, asked, handed>>

Next == \E c \in Calls :
    \/ Begin(c) \/ Ask(c) \/ Answer(c) \/ EndResponse(c) \/ Hand(c)
    \/ \E v \in Verdicts : Tell(c, v)

Spec == Init /\ [][Next]_<<response, answered, asked, handed, told>>
=============================================================================
