--------------------------- MODULE CommandExecutor ---------------------------
(***************************************************************************)
(* matic_sdk/commands.py and transport/commands.py: CommandExecutor, the   *)
(* JSONL audit log it writes to, and the channel transport below it.       *)
(*                                                                         *)
(* One execute() call per command.  It awaits twice: in send_channel and   *)
(* in the observer; the audit log is written synchronously, so what the    *)
(* code does between two awaits is one action.  Several calls may be under *)
(* way at once, and the program may die and start again meanwhile.         *)
(***************************************************************************)
EXTENDS Naturals, Sequences

CONSTANT Commands   \* the calls made, each with a request id of its own

VARIABLES
    kind,      \* what the registry makes of each command
    tls,       \* CommandExecutor._tls_identity_verified
    observed,  \* the calls made with an observer
    pc,        \* where each call is
    sent,      \* requests the transport has written, per call
    received,  \* requests the robot has received, per call
    acked,     \* the calls whose channel response has arrived
    outcome,   \* what execute() returned or raised
    log,       \* the complete lines of the audit log
    torn       \* a partial line follows them

setup == <<kind, tls, observed>>
wire == <<sent, received, acked>>
audit == <<log, torn>>
vars == <<kind, tls, observed, pc, sent, received, acked, outcome, log, torn>>

\* spec_for raises; encode raises (the version, a missing codec, a value the
\* codec rejects, a payload that is not the verified one); or both succeed.
Kinds == {"undocumented", "unencodable", "encodable"}
Outcomes == {"none", "receipt", "error", "unknown", "cancelled"}
\* A record that follows a partial line is part of a line nobody can parse.
Garbled == <<"garbled">>
Entries == ({"attempt", "complete", "failed"} \X Commands) \cup {Garbled}

Init ==
    /\ kind \in [Commands -> Kinds]
    /\ tls \in BOOLEAN
    /\ observed \in SUBSET Commands
    /\ pc = [c \in Commands |-> "idle"]
    /\ sent = [c \in Commands |-> 0]
    /\ received = [c \in Commands |-> 0]
    /\ acked = {}
    /\ outcome = [c \in Commands |-> "none"]
    /\ log = <<>>
    /\ torn = FALSE
------------------------------------------------------------------------------
(* JsonlAuditLog.record: one O_APPEND write loop, which may fail before or  *)
(* after some of the line is out; the next line then joins the partial one. *)

Record(event, c) ==
    /\ log' = Append(log, IF torn THEN Garbled ELSE <<event, c>>)
    /\ torn' = FALSE

RecordFails ==
    /\ torn' \in {torn, TRUE}
    /\ UNCHANGED log

\* The records made after the command has begun may fail silently.
RecordIfPossible(event, c) == Record(event, c) \/ RecordFails

Finish(c, result) ==
    /\ pc' = [pc EXCEPT ![c] = "done"]
    /\ outcome' = [outcome EXCEPT ![c] = result]

Raise(c, result) == Finish(c, result) /\ RecordIfPossible("failed", c)

\* Mutant: a full disk after delivery reaches the caller as an error.
ReceiptOrError(c) ==
    \/ Finish(c, "receipt") /\ Record("complete", c)
    \/ Finish(c, "error") /\ RecordFails

Receipt(c) == Finish(c, "receipt") /\ RecordIfPossible("complete", c)
------------------------------------------------------------------------------
(* _execute_guarded.                                                        *)

Undocumented(c) ==
    /\ pc[c] = "idle" /\ kind[c] = "undocumented"
    /\ Finish(c, "error")
    /\ UNCHANGED <<setup, wire, audit>>

AuditRefuses(c) ==
    /\ pc[c] = "idle" /\ kind[c] # "undocumented"
    /\ RecordFails
    /\ Finish(c, "error")
    /\ UNCHANGED <<setup, wire>>

\* Two records in one step: the attempt, then the refusal, which may fail.
Attempted(c) == Append(log, IF torn THEN Garbled ELSE <<"attempt", c>>)
Refused(c) ==
    /\ pc[c] = "idle" /\ kind[c] # "undocumented"
    /\ ~tls \/ kind[c] = "unencodable"
    /\ \/ log' = Append(Attempted(c), <<"failed", c>>) /\ torn' = FALSE
       \/ log' = Attempted(c) /\ torn' \in BOOLEAN
    /\ Finish(c, "error")
    /\ UNCHANGED <<setup, wire>>

\* Mutant: a log that cannot be written does not stop the command.
BeginAnyway(c) ==
    /\ pc[c] = "idle" /\ kind[c] = "encodable" /\ tls
    /\ RecordIfPossible("attempt", c)
    /\ pc' = [pc EXCEPT ![c] = "sending"]
    /\ UNCHANGED <<setup, wire, outcome>>

Begin(c) ==
    /\ pc[c] = "idle" /\ kind[c] = "encodable" /\ tls
    /\ Record("attempt", c)
    /\ pc' = [pc EXCEPT ![c] = "sending"]
    /\ UNCHANGED <<setup, wire, outcome>>

\* send_channel calls unary once, and unary opens one stream.
Transmit(c) ==
    /\ pc[c] = "sending" /\ sent[c] = 0
    /\ sent' = [sent EXCEPT ![c] = @ + 1]
    /\ UNCHANGED <<setup, pc, received, acked, outcome, audit>>

\* Mutant: one more attempt when the transport fails.
SendRetried(c) ==
    /\ pc[c] = "sending"
    /\ IF sent[c] = 1
       THEN /\ sent' = [sent EXCEPT ![c] = 2]
            /\ UNCHANGED <<setup, pc, received, acked, outcome, audit>>
       ELSE Raise(c, "unknown") /\ UNCHANGED <<setup, wire>>

\* Transport error, deadline, cancellation, an answer that is not exactly one
\* ChannelResponse or has another status: the caller cannot tell which.  (The
\* TypeError for a transport that returns something else is left out: this one
\* returns a TransportAcknowledgement or raises.)
SendFails(c) ==
    /\ pc[c] = "sending"
    /\ Raise(c, "unknown")
    /\ UNCHANGED <<setup, wire>>

\* Mutant: a call that has been written is taken as delivered.
AcknowledgedEarly(c) ==
    /\ pc[c] = "sending" /\ sent[c] = 1
    /\ IF c \in observed
       THEN pc' = [pc EXCEPT ![c] = "observing"] /\ UNCHANGED <<outcome, audit>>
       ELSE Receipt(c)
    /\ UNCHANGED <<setup, wire>>

Acknowledged(c) ==
    /\ pc[c] = "sending" /\ c \in acked
    /\ IF c \in observed
       THEN pc' = [pc EXCEPT ![c] = "observing"] /\ UNCHANGED <<outcome, audit>>
       ELSE Receipt(c)
    /\ UNCHANGED <<setup, wire>>

\* The observer returns, or raises an Exception, which becomes NOT_CHECKED.
Observed(c) ==
    /\ pc[c] = "observing"
    /\ Receipt(c)
    /\ UNCHANGED <<setup, wire>>

\* CancelledError is no Exception: it leaves execute() as it is, and the log
\* says the command failed.
ObserverCancelled(c) ==
    /\ pc[c] = "observing"
    /\ Raise(c, "cancelled")
    /\ UNCHANGED <<setup, wire>>

\* The program dies and is started again: the calls under way end with no
\* answer to anybody, the log is what it was.
Crash ==
    /\ \E c \in Commands : pc[c] \in {"sending", "observing"}
    /\ pc' = [c \in Commands |-> IF pc[c] \in {"sending", "observing"} THEN "done"
                                 ELSE pc[c]]
    /\ UNCHANGED <<setup, wire, outcome, audit>>
------------------------------------------------------------------------------
(* The network and the robot (external): a request may be lost, and so may  *)
(* the response to one that was received.                                   *)

RobotReceives(c) ==
    /\ received[c] < sent[c]
    /\ received' = [received EXCEPT ![c] = @ + 1]
    /\ acked' \in {acked, acked \cup {c}}
    /\ UNCHANGED <<setup, pc, sent, outcome, audit>>
------------------------------------------------------------------------------
Execute(c) ==
    \/ Undocumented(c) \/ AuditRefuses(c) \/ Refused(c) \/ Begin(c)
    \/ Transmit(c) \/ SendFails(c) \/ Acknowledged(c)
    \/ Observed(c) \/ ObserverCancelled(c)

AllDone ==
    /\ \A c \in Commands : pc[c] = "done"
    /\ UNCHANGED vars

Next == (\E c \in Commands : Execute(c) \/ RobotReceives(c)) \/ Crash \/ AllDone

Spec == Init /\ [][Next]_vars
------------------------------------------------------------------------------
(* Properties.                                                              *)

\* Types of the variables: no call ever hands over a second request.
TypeOK ==
    /\ kind \in [Commands -> Kinds]
    /\ tls \in BOOLEAN
    /\ observed \subseteq Commands
    /\ pc \in [Commands -> {"idle", "sending", "observing", "done"}]
    /\ sent \in [Commands -> 0..1] /\ received \in [Commands -> 0..1]
    /\ acked \subseteq Commands
    /\ outcome \in [Commands -> Outcomes]
    /\ log \in Seq(Entries)
    /\ torn \in BOOLEAN

Has(lines, entry) == \E i \in 1..Len(lines) : lines[i] = entry
InLog(entry) == Has(log, entry)

\* Nothing reaches the network before its attempt is in the log, crash or not,
\* unless an earlier failure of the log itself has spoilt a line.
AttemptOnRecord ==
    \A c \in Commands : sent[c] > 0 => InLog(<<"attempt", c>>) \/ InLog(Garbled)

\* The log never tells two stories of one command, and calls complete only
\* what the robot has received.
LogIsConsistent ==
    \A c \in Commands : InLog(<<"complete", c>>) =>
        received[c] = 1 /\ ~InLog(<<"failed", c>>)

\* The executor keeps CommandDelivery's promises: one request at most, an
\* error other than "unknown" only when nothing was sent, a receipt only when
\* the robot has the command.  A cancelled observer is an unknown outcome.
Told == [c \in Commands |->
    CASE outcome[c] = "error" -> "refused"
      [] outcome[c] = "cancelled" -> "unknown"
      [] OTHER -> outcome[c]]
Delivery == INSTANCE CommandDelivery WITH handed <- sent, verdict <- Told
ImplementsDelivery == Delivery!Spec
------------------------------------------------------------------------------
(* The inductive invariant behind the safety properties.                    *)

\* What a call knows of its request, by where it is.
CallsAreInOrder ==
    \A c \in Commands :
        /\ pc[c] = "idle" => sent[c] = 0
        /\ pc[c] # "done" => outcome[c] = "none"
        /\ outcome[c] = "error" => sent[c] = 0
        /\ pc[c] = "observing" \/ c \in acked \/ outcome[c] = "receipt" => received[c] = 1
        /\ received[c] <= sent[c]

\* A call in send_channel has its attempt in the log.
SendersAreOnRecord ==
    \A c \in Commands : pc[c] = "sending" => InLog(<<"attempt", c>>) \/ InLog(Garbled)

\* A call that is not over has no last word in the log.
NoEarlyLastWord ==
    \A c \in Commands : pc[c] # "done" =>
        ~InLog(<<"complete", c>>) /\ ~InLog(<<"failed", c>>)

IInv ==
    /\ TypeOK
    /\ CallsAreInOrder
    /\ SendersAreOnRecord
    /\ AttemptOnRecord
    /\ NoEarlyLastWord
    /\ LogIsConsistent
==============================================================================
