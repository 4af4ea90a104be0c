---------------------------- MODULE ClientProofs ----------------------------
(***************************************************************************)
(* Proofs about two of the client's calls, which share no state.           *)
(*                                                                         *)
(* CommandExecutor, for any number of concurrent commands: its inductive   *)
(* invariant, and that it implements CommandDelivery.                      *)
(*                                                                         *)
(* CoverageSnapshot, fetch_reprioritization_snapshot for any series of     *)
(* coverage sessions, any number of plans, and every merge of the two      *)
(* collections: what an idle robot and a snapshot are.                     *)
(***************************************************************************)
EXTENDS CommandExecutor, CoverageSnapshot, SequenceTheorems, TLAPS

------------------------------------------------------------------------------
(* The audit log.                                                           *)

\* Appending a line adds that line to those there were, and no other.
LEMMA HasAppend ==
    ASSUME NEW S, NEW lines \in Seq(S), NEW e \in S, NEW x
    PROVE  Has(Append(lines, e), x) <=> Has(lines, x) \/ x = e
<1>1. /\ Len(lines) \in Nat
      /\ Len(Append(lines, e)) = Len(lines) + 1
      /\ \A i \in 1..Len(lines) : Append(lines, e)[i] = lines[i]
      /\ Append(lines, e)[Len(lines) + 1] = e
  BY AppendProperties, LenProperties
<1>2. ASSUME Has(Append(lines, e), x)
      PROVE  Has(lines, x) \/ x = e
  <2>1. PICK i \in 1..(Len(lines) + 1) : Append(lines, e)[i] = x
    BY <1>1, <1>2 DEF Has
  <2>2. CASE i = Len(lines) + 1
    BY <1>1, <2>1, <2>2
  <2>3. CASE i # Len(lines) + 1
    <3>1. i \in 1..Len(lines)
      BY <1>1, <2>3
    <3>2. QED
      BY <1>1, <2>1, <3>1 DEF Has
  <2>4. QED
    BY <2>2, <2>3
<1>3. ASSUME Has(lines, x)
      PROVE  Has(Append(lines, e), x)
  <2>1. PICK i \in 1..Len(lines) : lines[i] = x
    BY <1>3 DEF Has
  <2>2. i \in 1..Len(Append(lines, e))
    BY <1>1
  <2>3. QED
    BY <1>1, <2>1, <2>2 DEF Has
<1>4. x = e => Has(Append(lines, e), x)
  <2>1. Len(lines) + 1 \in 1..Len(Append(lines, e))
    BY <1>1
  <2>2. QED
    BY <1>1, <2>1 DEF Has
<1>5. QED
  BY <1>2, <1>3, <1>4

\* The records of the log are different things.
LEMMA EntryFacts ==
    /\ Garbled \in Entries
    /\ \A c \in Commands : \A k \in {"attempt", "complete", "failed"} :
         /\ <<k, c>> \in Entries
         /\ <<k, c>> # Garbled
<1>1. \A c \in Commands : \A k \in {"attempt", "complete", "failed"} : <<k, c>> # <<"garbled">>
  <2>1. \A c, k : Len(<<k, c>>) = 2 /\ Len(<<"garbled">>) = 1
    OBVIOUS
  <2>2. QED
    BY <2>1
<1>2. QED
  BY <1>1 DEF Entries, Garbled

\* Only the call itself, and only its own kind of record, enters the log: the
\* step of c adds at most attempt and failed lines, or a complete line.
LEMMA LogStep ==
    ASSUME TypeOK, NEW c \in Commands, Execute(c)
    PROVE  /\ log' \in Seq(Entries) /\ torn' \in BOOLEAN
           /\ \A x : InLog(x) => InLog(x)'
           /\ \A d \in Commands : \A k \in {"complete", "failed"} :
                d # c => (InLog(<<k, d>>)' => InLog(<<k, d>>))
           /\ pc'[c] # "done" =>
                \A k \in {"complete", "failed"} : InLog(<<k, c>>)' => InLog(<<k, c>>)
           /\ Begin(c) => InLog(<<"attempt", c>>)' \/ InLog(Garbled)'
           /\ InLog(<<"complete", c>>)' => InLog(<<"complete", c>>) \/ outcome'[c] = "receipt"
           /\ InLog(<<"failed", c>>)' => InLog(<<"failed", c>>) \/ outcome'[c] # "receipt"
<1> USE EntryFacts DEF InLog
<1>0. log \in Seq(Entries) /\ torn \in BOOLEAN
  BY DEF TypeOK
<1>1. ASSUME NEW k \in {"attempt", "complete", "failed"}, Record(k, c)
      PROVE  /\ log' \in Seq(Entries) /\ torn' \in BOOLEAN
             /\ \A x : Has(log', x) <=>
                  Has(log, x) \/ x = (IF torn THEN Garbled ELSE <<k, c>>)
  <2> DEFINE e == IF torn THEN Garbled ELSE <<k, c>>
  <2>1. e \in Entries
    OBVIOUS
  <2>2. log' = Append(log, e) /\ torn' = FALSE
    BY <1>1 DEF Record
  <2> HIDE DEF e
  <2>3. log' \in Seq(Entries)
    BY <1>0, <2>1, <2>2, AppendProperties
  <2>4. \A x : Has(log', x) <=> Has(log, x) \/ x = e
    BY <1>0, <2>1, <2>2, HasAppend
  <2>5. QED
    BY <2>2, <2>3, <2>4 DEF e
<1>2. CASE log' = log /\ torn' \in BOOLEAN /\ ~Begin(c)
  BY <1>0, <1>2
<1>3. CASE Begin(c)
  <2>1. Record("attempt", c) /\ outcome' = outcome /\ pc' = [pc EXCEPT ![c] = "sending"]
    BY <1>3 DEF Begin
  <2>2. \A x : Has(log', x) <=> Has(log, x) \/ x = (IF torn THEN Garbled ELSE <<"attempt", c>>)
    BY <1>1, <2>1
  <2>3. \A d \in Commands : \A k \in {"complete", "failed"} : Has(log', <<k, d>>) => Has(log, <<k, d>>)
    BY <2>2
  <2>4. QED
    BY <1>1, <2>1, <2>2, <2>3
<1>4. CASE Refused(c)
  <2>1. Attempted(c) \in Seq(Entries)
    BY <1>0, AppendProperties DEF Attempted
  <2>2. \A x : Has(Attempted(c), x) <=>
                 Has(log, x) \/ x = (IF torn THEN Garbled ELSE <<"attempt", c>>)
    <3>1. (IF torn THEN Garbled ELSE <<"attempt", c>>) \in Entries
      OBVIOUS
    <3>2. QED
      BY <1>0, <3>1, HasAppend DEF Attempted
  <2>3. \A x : Has(Append(Attempted(c), <<"failed", c>>), x) <=>
                 Has(Attempted(c), x) \/ x = <<"failed", c>>
    BY <2>1, HasAppend
  <2>4. outcome'[c] = "error" /\ pc'[c] = "done"
    BY <1>4 DEF Refused, Finish, TypeOK
  <2>5. log' = Attempted(c) \/ log' = Append(Attempted(c), <<"failed", c>>)
    BY <1>4 DEF Refused
  <2>6. log' \in Seq(Entries) /\ torn' \in BOOLEAN
    BY <1>4, <2>1, AppendProperties DEF Refused
  <2>7. \A x : Has(log, x) => Has(log', x)
    BY <2>2, <2>3, <2>5
  <2>8. \A d \in Commands : \A k \in {"complete", "failed"} :
          Has(log', <<k, d>>) => Has(log, <<k, d>>) \/ (k = "failed" /\ d = c)
    BY <2>2, <2>3, <2>5
  <2>9. QED
    BY <1>4, <2>4, <2>6, <2>7, <2>8 DEF Refused, Begin
<1>5. ASSUME NEW r \in {"unknown", "cancelled"}, Raise(c, r)
      PROVE  /\ outcome'[c] = r /\ pc'[c] = "done"
             /\ log' \in Seq(Entries) /\ torn' \in BOOLEAN
             /\ \A x : Has(log, x) => Has(log', x)
             /\ \A d \in Commands : \A k \in {"complete", "failed"} :
                  Has(log', <<k, d>>) => Has(log, <<k, d>>) \/ (k = "failed" /\ d = c)
  <2>1. outcome'[c] = r /\ pc'[c] = "done"
    BY <1>5 DEF Raise, Finish, TypeOK
  <2>2. CASE Record("failed", c)
    BY <1>1, <2>1, <2>2
  <2>3. CASE RecordFails
    BY <1>0, <2>1, <2>3 DEF RecordFails
  <2>4. QED
    BY <1>5, <2>2, <2>3 DEF Raise, RecordIfPossible
<1>6. ASSUME Receipt(c)
      PROVE  /\ outcome'[c] = "receipt" /\ pc'[c] = "done"
             /\ log' \in Seq(Entries) /\ torn' \in BOOLEAN
             /\ \A x : Has(log, x) => Has(log', x)
             /\ \A d \in Commands : \A k \in {"complete", "failed"} :
                  Has(log', <<k, d>>) => Has(log, <<k, d>>) \/ (k = "complete" /\ d = c)
  <2>1. outcome'[c] = "receipt" /\ pc'[c] = "done"
    BY <1>6 DEF Receipt, Finish, TypeOK
  <2>2. CASE Record("complete", c)
    BY <1>1, <2>1, <2>2
  <2>3. CASE RecordFails
    BY <1>0, <2>1, <2>3 DEF RecordFails
  <2>4. QED
    BY <1>6, <2>2, <2>3 DEF Receipt, RecordIfPossible
<1>7. CASE Raise(c, "unknown") \/ Raise(c, "cancelled")
  BY <1>5, <1>7 DEF Begin, Raise, Finish, TypeOK
<1>8. CASE Receipt(c)
  BY <1>6, <1>8 DEF Begin, Receipt, Finish, TypeOK
<1>9. CASE Undocumented(c) \/ AuditRefuses(c) \/ Transmit(c)
  <2>1. log' = log /\ torn' \in BOOLEAN
    BY <1>0, <1>9 DEF Undocumented, AuditRefuses, Transmit, RecordFails, audit
  <2>2. QED
    BY <1>2, <1>3, <2>1
<1>10. QED
  BY <1>0, <1>2, <1>3, <1>4, <1>7, <1>8, <1>9
  DEF Execute, SendFails, Acknowledged, Observed, ObserverCancelled, audit
------------------------------------------------------------------------------
(* The inductive invariant.                                                 *)

\* What each step does to the calls themselves.
LEMMA CallStep ==
    ASSUME TypeOK, CallsAreInOrder, NEW c \in Commands, Execute(c)
    PROVE  /\ UNCHANGED <<kind, tls, observed, received, acked>>
           /\ pc[c] # "done"
           /\ pc' = [pc EXCEPT ![c] = pc'[c]]
           /\ outcome' = [outcome EXCEPT ![c] = outcome'[c]]
           /\ pc'[c] \in {"sending", "observing", "done"} /\ outcome'[c] \in Outcomes
           /\ sent' = sent \/ (pc[c] = "sending" /\ Transmit(c))
           /\ pc'[c] # "done" => outcome'[c] = "none"
           /\ outcome'[c] = "error" => sent[c] = 0 /\ sent' = sent
           /\ pc'[c] = "observing" \/ outcome'[c] = "receipt" => received[c] = 1
           /\ pc'[c] = "sending" => pc[c] = "sending" \/ Begin(c)
BY DEF TypeOK, CallsAreInOrder, Execute, Undocumented, AuditRefuses, Refused, Begin,
   Transmit, SendFails, Acknowledged, Observed, ObserverCancelled, Raise, Receipt, Finish,
   setup, wire, Outcomes

\* A step of one call keeps every part of the invariant.
LEMMA ExecuteStep ==
    ASSUME IInv, NEW c \in Commands, Execute(c)
    PROVE  IInv'
<1> USE DEF IInv
<1>1. TypeOK'
  <2>1. sent' \in [Commands -> 0..1]
    BY CallStep DEF Transmit, TypeOK
  <2>2. log' \in Seq(Entries) /\ torn' \in BOOLEAN
    BY LogStep
  <2>3. /\ pc' \in [Commands -> {"idle", "sending", "observing", "done"}]
        /\ outcome' \in [Commands -> Outcomes]
    BY CallStep DEF TypeOK
  <2>4. UNCHANGED <<kind, tls, observed, received, acked>>
    BY CallStep
  <2>5. QED
    BY <2>1, <2>2, <2>3, <2>4 DEF TypeOK
<1>2. CallsAreInOrder'
  <2> SUFFICES ASSUME NEW d \in Commands
               PROVE  /\ pc'[d] = "idle" => sent'[d] = 0
                      /\ pc'[d] # "done" => outcome'[d] = "none"
                      /\ outcome'[d] = "error" => sent'[d] = 0
                      /\ pc'[d] = "observing" \/ d \in acked' \/ outcome'[d] = "receipt"
                           => received'[d] = 1
                      /\ received'[d] <= sent'[d]
    BY DEF CallsAreInOrder
  <2>1. d # c => sent'[d] = sent[d]
    BY CallStep DEF Transmit, TypeOK
  <2>2. CASE d # c
    BY <2>1, <2>2, CallStep DEF CallsAreInOrder, TypeOK
  <2>3. CASE d = c
    <3>1. sent'[c] \in {sent[c], 1} /\ sent[c] \in 0..1 /\ received[c] \in 0..1
      BY CallStep DEF Transmit, TypeOK
    <3>2. QED
      BY <2>3, <3>1, CallStep DEF CallsAreInOrder, TypeOK
  <2>4. QED
    BY <2>2, <2>3
<1>3. SendersAreOnRecord'
  <2> SUFFICES ASSUME NEW d \in Commands, pc'[d] = "sending"
               PROVE  InLog(<<"attempt", d>>)' \/ InLog(Garbled)'
    BY DEF SendersAreOnRecord
  <2>1. pc[d] = "sending" \/ (d = c /\ Begin(c))
    BY CallStep DEF TypeOK
  <2>2. QED
    BY <2>1, LogStep DEF SendersAreOnRecord
<1>4. AttemptOnRecord'
  <2> SUFFICES ASSUME NEW d \in Commands, sent'[d] > 0
               PROVE  InLog(<<"attempt", d>>)' \/ InLog(Garbled)'
    BY DEF AttemptOnRecord
  <2>1. sent[d] > 0 \/ pc[d] = "sending"
    BY CallStep DEF Transmit, TypeOK
  <2>2. QED
    BY <2>1, LogStep DEF AttemptOnRecord, SendersAreOnRecord
<1>5. NoEarlyLastWord'
  <2> SUFFICES ASSUME NEW d \in Commands, pc'[d] # "done"
               PROVE  ~InLog(<<"complete", d>>)' /\ ~InLog(<<"failed", d>>)'
    BY DEF NoEarlyLastWord
  <2>1. pc[d] # "done"
    BY CallStep DEF TypeOK
  <2>2. ~InLog(<<"complete", d>>) /\ ~InLog(<<"failed", d>>)
    BY <2>1 DEF NoEarlyLastWord
  <2>3. QED
    BY <2>2, LogStep
<1>6. LogIsConsistent'
  <2> SUFFICES ASSUME NEW d \in Commands, InLog(<<"complete", d>>)'
               PROVE  received'[d] = 1 /\ ~InLog(<<"failed", d>>)'
    BY DEF LogIsConsistent
  <2>1. CASE d # c
    BY <2>1, LogStep, CallStep DEF LogIsConsistent
  <2>2. CASE d = c
    <3>1. ~InLog(<<"complete", c>>) /\ ~InLog(<<"failed", c>>)
      BY CallStep DEF NoEarlyLastWord
    <3>2. outcome'[c] = "receipt"
      BY <2>2, <3>1, LogStep
    <3>3. QED
      BY <2>2, <3>1, <3>2, LogStep, CallStep
  <2>3. QED
    BY <2>1, <2>2
<1>7. QED
  BY <1>1, <1>2, <1>3, <1>4, <1>5, <1>6

\* So does everything that is not a step of a call.
LEMMA WorldStep ==
    ASSUME IInv,
           Crash \/ AllDone \/ UNCHANGED vars \/ \E c \in Commands : RobotReceives(c)
    PROVE  IInv'
<1>1. CASE AllDone \/ UNCHANGED vars
  BY <1>1 DEF AllDone, vars, IInv, TypeOK, CallsAreInOrder, SendersAreOnRecord,
     AttemptOnRecord, NoEarlyLastWord, LogIsConsistent, InLog
<1>2. CASE Crash
  BY <1>2 DEF Crash, setup, wire, audit, IInv, TypeOK, CallsAreInOrder,
     SendersAreOnRecord, AttemptOnRecord, NoEarlyLastWord, LogIsConsistent, InLog
<1>3. ASSUME NEW c \in Commands, RobotReceives(c)
      PROVE  IInv'
  <2>1. /\ received' = [received EXCEPT ![c] = 1] /\ sent[c] = 1
        /\ acked' \subseteq acked \cup {c} /\ c \in Commands
        /\ UNCHANGED <<kind, tls, observed, pc, sent, outcome, log, torn>>
    <3>1. sent[c] \in 0..1 /\ received[c] \in 0..1 /\ received[c] < sent[c]
      BY <1>3 DEF RobotReceives, IInv, TypeOK
    <3>2. received[c] + 1 = 1 /\ sent[c] = 1
      BY <3>1
    <3>3. QED
      BY <1>3, <3>2 DEF RobotReceives, setup, audit
  <2>2. TypeOK' /\ CallsAreInOrder'
    BY <2>1 DEF IInv, TypeOK, CallsAreInOrder
  <2>3. SendersAreOnRecord' /\ AttemptOnRecord' /\ NoEarlyLastWord'
    BY <2>1 DEF IInv, SendersAreOnRecord, AttemptOnRecord, NoEarlyLastWord, InLog
  <2>4. LogIsConsistent'
    BY <2>1 DEF IInv, TypeOK, LogIsConsistent, InLog
  <2>5. QED
    BY <2>2, <2>3, <2>4 DEF IInv
<1>4. QED
  BY <1>1, <1>2, <1>3

\* The invariant holds before the first call.
LEMMA IInvInit == Init => IInv
<1> SUFFICES ASSUME Init
             PROVE  IInv
  OBVIOUS
<1>1. \A x : ~InLog(x)
  BY DEF Init, InLog, Has
<1>2. TypeOK
  <2>1. log \in Seq(Entries)
    BY EmptySeq DEF Init
  <2>2. /\ pc \in [Commands -> {"idle", "sending", "observing", "done"}]
        /\ outcome \in [Commands -> Outcomes]
    BY DEF Init, Outcomes
  <2>3. sent \in [Commands -> 0..1] /\ received \in [Commands -> 0..1]
    <3>1. 0 \in 0..1
      OBVIOUS
    <3>2. QED
      BY <3>1 DEF Init
  <2>4. kind \in [Commands -> Kinds] /\ tls \in BOOLEAN /\ observed \subseteq Commands
    BY DEF Init
  <2>5. acked \subseteq Commands /\ torn \in BOOLEAN
    BY DEF Init
  <2>6. QED
    BY <2>1, <2>2, <2>3, <2>4, <2>5 DEF TypeOK
<1>3. CallsAreInOrder
  <2>1. \A c \in Commands :
          /\ sent[c] = 0 /\ received[c] = 0
          /\ pc[c] = "idle" /\ outcome[c] = "none" /\ c \notin acked
    BY DEF Init
  <2>2. ASSUME NEW c \in Commands
        PROVE  received[c] <= sent[c]
    <3>1. received[c] \in Nat /\ sent[c] \in Nat
      BY <1>2 DEF TypeOK
    <3>2. received[c] = sent[c]
      BY <2>1
    <3>3. QED
      BY <3>1, <3>2
  <2>3. \A c \in Commands : outcome[c] \notin {"error", "receipt"} /\ pc[c] # "observing"
    BY <2>1
  <2>4. QED
    BY <2>1, <2>2, <2>3 DEF CallsAreInOrder
<1>4. QED
  BY <1>1, <1>2, <1>3 DEF Init, IInv, SendersAreOnRecord, AttemptOnRecord, NoEarlyLastWord,
     LogIsConsistent

\* Every reachable state satisfies the invariant.
LEMMA Invariance == Spec => []IInv
<1>1. IInv /\ [Next]_vars => IInv'
  BY ExecuteStep, WorldStep DEF Next
<1>2. QED
  BY <1>1, IInvInit, PTL DEF Spec
------------------------------------------------------------------------------
(* The theorems.                                                            *)

\* Every variable keeps its type; in particular no call sends twice.
THEOREM TypeCorrect == Spec => []TypeOK
<1>1. IInv => TypeOK
  BY DEF IInv
<1>2. QED
  BY <1>1, Invariance, PTL

\* No command reaches the network without its attempt on record.
THEOREM AuditBeforeSend == Spec => []AttemptOnRecord
<1>1. IInv => AttemptOnRecord
  BY DEF IInv
<1>2. QED
  BY <1>1, Invariance, PTL

\* A command the log calls complete was received and is not also called failed.
THEOREM OneStory == Spec => []LogIsConsistent
<1>1. IInv => LogIsConsistent
  BY DEF IInv
<1>2. QED
  BY <1>1, Invariance, PTL

\* Every behaviour of the executor is one of CommandDelivery: at most one
\* request, no refusal of what was sent, no receipt for what was not received.
THEOREM ExecutorImplementsDelivery == Spec => ImplementsDelivery
<1> DEFINE avars == <<sent, received, Told>>
<1>1. Init => Delivery!Init
  BY DEF Init, Delivery!Init, Told
<1>2. ASSUME IInv, [Next]_vars
      PROVE  [Delivery!Next]_avars
  <2> USE DEF IInv
  <2>1. ASSUME NEW c \in Commands, Execute(c)
        PROVE  [Delivery!Next]_avars
    <3>1. CASE Transmit(c)
      <4>1. Delivery!Hand(c)
        <5>1. sent[c] = 0 /\ pc[c] = "sending" /\ sent' = [sent EXCEPT ![c] = 1]
          BY <1>2, <3>1 DEF Transmit, TypeOK
        <5>2. Told[c] = "none" /\ Told' = Told /\ received' = received
          BY <1>2, <3>1, <5>1 DEF Transmit, Told, CallsAreInOrder
        <5>3. QED
          BY <5>1, <5>2 DEF Delivery!Hand
      <4>2. QED
        BY <4>1 DEF Delivery!Next
    <3>2. CASE ~Transmit(c)
      <4>1. sent' = sent /\ received' = received
        BY <1>2, <2>1, <3>2, CallStep
      <4>2. outcome' = [outcome EXCEPT ![c] = outcome'[c]] /\ outcome[c] = "none"
        BY <1>2, <2>1, CallStep DEF CallsAreInOrder
      <4>3. CASE outcome'[c] = "none"
        <5>1. outcome' = outcome
          BY <1>2, <4>2, <4>3 DEF TypeOK
        <5>2. QED
          BY <4>1, <5>1 DEF Told
      <4>4. CASE outcome'[c] # "none"
        <5> DEFINE v == CASE outcome'[c] = "error" -> "refused"
                          [] outcome'[c] = "cancelled" -> "unknown"
                          [] OTHER -> outcome'[c]
        <5>1. outcome'[c] \in {"receipt", "error", "unknown", "cancelled"}
          BY <1>2, <2>1, <4>4, CallStep DEF Outcomes
        <5>2. v \in {"refused", "receipt", "unknown"}
          BY <5>1
        <5>3. Told' = [Told EXCEPT ![c] = v] /\ Told[c] = "none"
          BY <1>2, <4>2 DEF Told, TypeOK
        <5>4. v = "refused" => sent[c] = 0
          BY <1>2, <2>1, <5>1, CallStep
        <5>5. v = "receipt" => received[c] = 1
          BY <1>2, <2>1, <5>1, CallStep
        <5>6. Delivery!Tell(c, v)
          BY <4>1, <5>3, <5>4, <5>5 DEF Delivery!Tell
        <5>7. QED
          BY <5>2, <5>6 DEF Delivery!Next, Delivery!Verdicts
      <4>5. QED
        BY <4>3, <4>4
    <3>3. QED
      BY <3>1, <3>2
  <2>2. ASSUME NEW c \in Commands, RobotReceives(c)
        PROVE  [Delivery!Next]_avars
    <3>1. received[c] = 0 /\ sent[c] = 1
      BY <1>2, <2>2 DEF RobotReceives, TypeOK
    <3>2. Delivery!Receive(c)
      BY <2>2, <3>1 DEF RobotReceives, Delivery!Receive, Told
    <3>3. QED
      BY <3>2 DEF Delivery!Next
  <2>3. CASE Crash \/ AllDone \/ UNCHANGED vars
    BY <2>3 DEF Crash, AllDone, vars, wire, Told
  <2>4. QED
    BY <1>2, <2>1, <2>2, <2>3 DEF Next
<1>3. QED
  BY <1>1, <1>2, Invariance, PTL DEF Spec, ImplementsDelivery, Delivery!Spec

------------------------------------------------------------------------------
(* CoverageSnapshot. What the invariant relates.                            *)

PlanValues == Plans \cup {None}
KeyValues == Keys \cup {None}

PlanStream == stream["coverage_plan"]
KeyStream == stream["active_session_key"]

\* A session that goes on has published its key.
KeyTellsSession == retained["active_session_key"] = None => session = Idle

\* A call during which the robot is idle knows of it.
IdleIsNoticed == call # "idle" /\ session = Idle => wasIdle

\* No key is on its way before it is subscribed to, and a key that was
\* withdrawn is on its way only if the robot was idle.
NoneIsNoticed ==
    /\ call \in {"idle", "half"} => KeyStream = <<>>
    /\ \A i \in 1..Len(KeyStream) : KeyStream[i] = None => wasIdle

\* Both collections are there, and no others.
Held ==
    /\ retained = [c \in Collections |-> retained[c]]
    /\ stream = [c \in Collections |-> stream[c]]

SnapshotIInv == /\ SnapshotTypeOK /\ Held /\ KeyTellsSession /\ IdleIsNoticed
        /\ NoneIsNoticed /\ InactiveMeansIdle
------------------------------------------------------------------------------
(* Neither a plan nor a key is a mark; each names its mission and session.  *)
LEMMA ValuesAreValues ==
    /\ None # Unseen
    /\ \A s, n : Plan(s, n) \notin {None, Unseen} /\ Plan(s, n)[1] = MissionOf[s]
                 /\ Plan(s, n)[2] = s
    /\ \A s : Key(s) \notin {None, Unseen} /\ Key(s)[1] = MissionOf[s] /\ Key(s)[2] = s
<1>1. Len(None) = 0 /\ Len(Unseen) = 1 BY DEF None, Unseen
<1>2. \A s, n : Len(Plan(s, n)) = 3 BY DEF Plan
<1>3. \A s : Len(Key(s)) = 2 BY DEF Key
<1>4. \A s, n : Plan(s, n)[1] = MissionOf[s] /\ Plan(s, n)[2] = s BY DEF Plan
<1>5. \A s : Key(s)[1] = MissionOf[s] /\ Key(s)[2] = s BY DEF Key
<1> QED BY <1>1, <1>2, <1>3, <1>4, <1>5

LEMMA ValuesOf ==
    /\ Values["coverage_plan"] = PlanValues
    /\ Values["active_session_key"] = KeyValues
    /\ "coverage_plan" # "active_session_key"
BY DEF Values, PlanValues, KeyValues

(* The types, collection by collection.                                     *)
Typed ==
    /\ session \in Sessions \cup {Idle} /\ past \in 0..Len(MissionOf)
    /\ plans \in 0..MaxPlans
    /\ retained["coverage_plan"] \in PlanValues
    /\ retained["active_session_key"] \in KeyValues
    /\ PlanStream \in Seq(PlanValues)
    /\ KeyStream \in Seq(KeyValues)
    /\ call \in {"idle", "half", "waiting", "snapshot", "inactive", "error"}
    /\ plan \in PlanValues \cup {Unseen}
    /\ active \in KeyValues \cup {Unseen}
    /\ result \in {None} \cup (Plans \X Keys)
    /\ wasIdle \in BOOLEAN

LEMMA Types == SnapshotTypeOK <=> Typed
BY ValuesOf DEF SnapshotTypeOK, Typed, Collections, PlanStream, KeyStream

(* An update of one collection leaves the other alone.                      *)
LEMMA UpdateOfOne ==
    ASSUME NEW f, f = [c \in Collections |-> f[c]], NEW c \in Collections, NEW v,
           NEW g, g = [f EXCEPT ![c] = v]
    PROVE  /\ g = [d \in Collections |-> g[d]]
           /\ g[c] = v
           /\ \A d \in Collections \ {c} : g[d] = f[d]
OBVIOUS

LEMMA PlansAndKeys ==
    /\ \A s \in Sessions, n \in 1..MaxPlans : Plan(s, n) \in Plans
    /\ \A s \in Sessions : Key(s) \in Keys
    /\ Plans \subseteq PlanValues /\ Keys \subseteq KeyValues
    /\ None \in PlanValues /\ None \in KeyValues
BY DEF Plans, Keys, PlanValues, KeyValues

LEMMA InitIsGood == SnapshotInit => SnapshotIInv
<1> SUFFICES ASSUME SnapshotInit PROVE SnapshotIInv
  OBVIOUS
<1>0. Len(MissionOf) \in Nat \ {0} /\ MaxPlans \in Nat \ {0}
  BY MissionsAssumption
<1>1. session \in Sessions \cup {Idle} /\ past \in 0..Len(MissionOf)
  BY <1>0 DEF SnapshotInit, Sessions, Idle
<1>2. /\ retained["coverage_plan"] = None
      /\ session # Idle => retained["active_session_key"] = Key(1)
      /\ session = Idle => retained["active_session_key"] = None
  BY DEF SnapshotInit, Collections
<1>3. session # Idle => 1 \in Sessions
  BY <1>0 DEF Sessions
<1>4. retained["active_session_key"] \in KeyValues
  BY <1>2, <1>3, PlansAndKeys
<1>5. PlanStream = <<>> /\ KeyStream = <<>>
  BY DEF SnapshotInit, Collections, PlanStream, KeyStream
<1>6. Typed
  <2>1. PlanStream \in Seq(PlanValues) /\ KeyStream \in Seq(KeyValues)
    BY <1>5
  <2>2. plans \in 0..MaxPlans BY <1>0 DEF SnapshotInit
  <2>3. plan = Unseen /\ active = Unseen /\ result = None /\ call = "idle"
        /\ wasIdle \in BOOLEAN
    BY DEF SnapshotInit
  <2>4. retained["coverage_plan"] \in PlanValues BY <1>2, PlansAndKeys
  <2> QED BY <1>1, <1>4, <2>1, <2>2, <2>3, <2>4 DEF Typed
<1>7. SnapshotTypeOK BY <1>6, Types
<1>8. KeyTellsSession
  BY <1>2, ValuesAreValues DEF KeyTellsSession
<1>9. NoneIsNoticed
  BY <1>5 DEF NoneIsNoticed
<1>10. Held BY DEF SnapshotInit, Held
<1>11. IdleIsNoticed /\ InactiveMeansIdle
  BY DEF SnapshotInit, IdleIsNoticed, InactiveMeansIdle
<1> QED BY <1>7, <1>8, <1>9, <1>10, <1>11 DEF SnapshotIInv
------------------------------------------------------------------------------
(* The robot's steps.                                                       *)

(* A published value reaches the stream of a subscription and nothing else. *)
LEMMA Published ==
    ASSUME SnapshotTypeOK, Held, NEW c \in Collections, NEW v \in Values[c], Publish(c, v)
    PROVE  /\ Held'
           /\ retained'[c] = v
           /\ stream'[c] = IF Subscribed(c) THEN Append(stream[c], v) ELSE stream[c]
           /\ \A d \in Collections \ {c} :
                 retained'[d] = retained[d] /\ stream'[d] = stream[d]
<1>1. CASE Subscribed(c)
  BY <1>1, UpdateOfOne DEF Held, Publish
<1>2. CASE ~Subscribed(c)
  BY <1>2, UpdateOfOne DEF Held, Publish
<1> QED BY <1>1, <1>2

LEMMA RobotKeeps == SnapshotIInv /\ Robot => SnapshotIInv'
<1> SUFFICES ASSUME SnapshotIInv, Robot PROVE SnapshotIInv'
  OBVIOUS
<1>0. Typed /\ Len(MissionOf) \in Nat \ {0} /\ MaxPlans \in Nat \ {0}
  BY Types, MissionsAssumption DEF SnapshotIInv
<1> DEFINE planned == "coverage_plan"
           keyed == "active_session_key"
<1>c. planned \in Collections /\ keyed \in Collections /\ planned # keyed
  BY ValuesOf DEF Collections
(* What every step of the robot has in common with every other.             *)
<1>1. ASSUME NEW v \in PlanValues, Publish(planned, v), UNCHANGED callVars,
             UNCHANGED <<session, past>>, plans' \in 0..MaxPlans, UNCHANGED wasIdle
      PROVE  SnapshotIInv'
  <2>1. /\ Held' /\ retained'[planned] = v
        /\ PlanStream' \in {PlanStream, Append(PlanStream, v)}
        /\ retained'[keyed] = retained[keyed] /\ KeyStream' = KeyStream
    BY <1>1, <1>c, Published, ValuesOf DEF SnapshotIInv, PlanStream, KeyStream
  <2>2. Append(PlanStream, v) \in Seq(PlanValues)
    BY <1>0, <1>1, AppendProperties DEF Typed
  <2>3. Typed' BY <1>0, <1>1, <2>1, <2>2 DEF Typed, callVars
  <2>4. SnapshotTypeOK' BY <2>3, Types, PTL
  <2> QED BY <1>1, <2>1, <2>4 DEF SnapshotIInv, KeyTellsSession, IdleIsNoticed, NoneIsNoticed,
             InactiveMeansIdle, callVars
<1>2. ASSUME NEW v \in KeyValues, Publish(keyed, v), UNCHANGED callVars,
             session' \in Sessions \cup {Idle}, past' \in 0..Len(MissionOf),
             plans' \in 0..MaxPlans, wasIdle' \in BOOLEAN, wasIdle => wasIdle',
             v = None => session' = Idle /\ (call # "idle" => wasIdle'),
             v # None => session' # Idle
      PROVE  SnapshotIInv'
  <2>1. /\ Held' /\ retained'[keyed] = v
        /\ KeyStream' = IF call = "waiting" THEN Append(KeyStream, v) ELSE KeyStream
        /\ retained'[planned] = retained[planned] /\ PlanStream' = PlanStream
    BY <1>2, <1>c, Published, ValuesOf DEF SnapshotIInv, PlanStream, KeyStream, Subscribed
  <2>2. /\ Append(KeyStream, v) \in Seq(KeyValues)
        /\ Len(Append(KeyStream, v)) = Len(KeyStream) + 1
        /\ \A i \in 1..Len(KeyStream) : Append(KeyStream, v)[i] = KeyStream[i]
        /\ Append(KeyStream, v)[Len(KeyStream) + 1] = v
    BY <1>0, <1>2, AppendProperties DEF Typed
  <2>3. Typed' BY <1>0, <1>2, <2>1, <2>2 DEF Typed, callVars
  <2>4. SnapshotTypeOK' BY <2>3, Types, PTL
  <2>5. NoneIsNoticed'
    <3>1. call' = call BY <1>2 DEF callVars
    <3>2. call \in {"idle", "half"} => KeyStream' = <<>>
      BY <2>1 DEF SnapshotIInv, NoneIsNoticed
    <3>3. ASSUME NEW i \in 1..Len(KeyStream'), KeyStream'[i] = None PROVE wasIdle'
      <4>0. Len(KeyStream) \in Nat BY <1>0, LenProperties DEF Typed
      <4>1. CASE i \in 1..Len(KeyStream)
        BY <1>2, <2>1, <2>2, <3>3, <4>1 DEF SnapshotIInv, NoneIsNoticed
      <4>2. CASE i \notin 1..Len(KeyStream)
        <5>1. call = "waiting" /\ i = Len(KeyStream) + 1
          BY <2>1, <2>2, <3>3, <4>0, <4>2
        <5> QED BY <1>2, <2>1, <2>2, <3>3, <5>1
      <4> QED BY <4>1, <4>2
    <3> QED BY <3>1, <3>2, <3>3 DEF NoneIsNoticed
  <2> QED BY <1>2, <2>1, <2>4, <2>5 DEF SnapshotIInv, KeyTellsSession, IdleIsNoticed,
             InactiveMeansIdle, callVars
<1>3. CASE BeginSession
  <2>1. past + 1 \in Sessions /\ past + 1 # Idle
    BY <1>0, <1>3 DEF BeginSession, Typed, Sessions, Idle
  <2>2. Key(past + 1) \in KeyValues /\ Key(past + 1) # None
    BY <2>1, PlansAndKeys, ValuesAreValues
  <2>3. past + 1 \in 0..Len(MissionOf)
    BY <2>1 DEF Sessions
  <2> QED BY <1>0, <1>2, <1>3, <2>1, <2>2, <2>3 DEF BeginSession, Typed
<1>4. CASE PublishPlan
  <2>1. plans + 1 \in 1..MaxPlans /\ session \in Sessions
    BY <1>0, <1>4 DEF PublishPlan, Typed
  <2>2. Plan(session, plans + 1) \in PlanValues
    BY <2>1, PlansAndKeys
  <2> QED BY <1>0, <1>1, <1>4, <2>1, <2>2 DEF PublishPlan
<1>5. CASE EndSession
  BY <1>0, <1>2, <1>5, PlansAndKeys DEF EndSession, Typed
<1>6. CASE WithdrawPlan
  BY <1>0, <1>1, <1>6, PlansAndKeys DEF WithdrawPlan, Typed
<1> QED BY <1>3, <1>4, <1>5, <1>6 DEF Robot
------------------------------------------------------------------------------
(* The call's steps.                                                        *)

(* A join returns a plan and a key, or nothing.                             *)
LEMMA Joins ==
    ASSUME SnapshotIInv, NEW p \in PlanValues \cup {Unseen}, NEW a \in KeyValues \cup {Unseen},
           Join(p, a), call = "waiting"
    PROVE  \/ call' = "snapshot" /\ result' \in Plans \X Keys
           \/ call' = "waiting" /\ result' = result
<1>1. CASE p \notin {Unseen, None} /\ a \notin {Unseen, None} /\ p[1] = a[1]
  <2>1. p \in Plans /\ a \in Keys BY <1>1 DEF PlanValues, KeyValues
  <2>2. call' = "snapshot" /\ result' = <<p, a>> BY <1>1 DEF Join
  <2>3. result' \in Plans \X Keys /\ result'[1] = p /\ result'[2] = a
    BY <2>1, <2>2
  <2> QED BY <1>1, <2>2, <2>3
<1>2. CASE ~(p \notin {Unseen, None} /\ a \notin {Unseen, None} /\ p[1] = a[1])
  BY <1>2 DEF Join
<1> QED BY <1>1, <1>2

LEMMA SubscribePlanKeeps == SnapshotIInv /\ SubscribePlan => SnapshotIInv'
<1> SUFFICES ASSUME SnapshotIInv, SubscribePlan PROVE SnapshotIInv'
  OBVIOUS
<1>0. Typed BY Types DEF SnapshotIInv
<1>1. /\ stream' = [stream EXCEPT !["coverage_plan"] = Append(@, retained["coverage_plan"])]
      /\ UNCHANGED <<session, past, plans, retained, plan, active, result>>
      /\ call = "idle" /\ call' = "half" /\ wasIdle' = (session = Idle)
  BY DEF SubscribePlan, Fresh
<1>2. /\ stream' = [d \in Collections |-> stream'[d]]
      /\ PlanStream' = Append(PlanStream, retained["coverage_plan"])
      /\ KeyStream' = KeyStream
  BY <1>1, UpdateOfOne DEF SnapshotIInv, Held, Collections, PlanStream, KeyStream
<1>3. Append(PlanStream, retained["coverage_plan"]) \in Seq(PlanValues)
  BY <1>0, AppendProperties DEF Typed
<1>4. Typed' BY <1>0, <1>1, <1>2, <1>3 DEF Typed
<1>5. SnapshotTypeOK' BY <1>4, Types, PTL
<1>6. NoneIsNoticed'
  <2>1. KeyStream' = <<>> BY <1>1, <1>2 DEF SnapshotIInv, NoneIsNoticed
  <2> QED BY <2>1 DEF NoneIsNoticed
<1>7. Held' BY <1>1, <1>2 DEF SnapshotIInv, Held
<1> QED BY <1>1, <1>5, <1>6, <1>7 DEF SnapshotIInv, KeyTellsSession, IdleIsNoticed,
           InactiveMeansIdle

LEMMA SubscribeKeyKeeps == SnapshotIInv /\ SubscribeKey => SnapshotIInv'
<1> SUFFICES ASSUME SnapshotIInv, SubscribeKey PROVE SnapshotIInv'
  OBVIOUS
<1> DEFINE key == retained["active_session_key"]
<1>0. Typed BY Types DEF SnapshotIInv
<1>1. /\ stream' = [stream EXCEPT !["active_session_key"] = Append(@, key)]
      /\ UNCHANGED <<session, past, plans, retained, wasIdle, plan, active, result>>
      /\ call = "half" /\ call' = "waiting"
  BY DEF SubscribeKey, Fresh, robotVars
<1>2. /\ stream' = [d \in Collections |-> stream'[d]]
      /\ KeyStream' = Append(KeyStream, key)
      /\ PlanStream' = PlanStream
  BY <1>1, UpdateOfOne DEF SnapshotIInv, Held, Collections, PlanStream, KeyStream
<1>3. Append(KeyStream, key) \in Seq(KeyValues)
  BY <1>0, AppendProperties DEF Typed
<1>4. Typed' BY <1>0, <1>1, <1>2, <1>3 DEF Typed
<1>5. SnapshotTypeOK' BY <1>4, Types, PTL
<1>6. NoneIsNoticed'
  <2>1. KeyStream = <<>> BY <1>1 DEF SnapshotIInv, NoneIsNoticed
  <2>2. Len(KeyStream') = 1 /\ KeyStream'[1] = key BY <1>2, <2>1
  <2>3. key = None => wasIdle BY <1>1 DEF SnapshotIInv, KeyTellsSession, IdleIsNoticed
  <2> QED BY <1>1, <2>2, <2>3 DEF NoneIsNoticed
<1>7. Held' BY <1>1, <1>2 DEF SnapshotIInv, Held
<1> QED BY <1>1, <1>5, <1>6, <1>7 DEF SnapshotIInv, KeyTellsSession, IdleIsNoticed,
           InactiveMeansIdle

LEMMA TakePlanKeeps == SnapshotIInv /\ TakePlan => SnapshotIInv'
<1> SUFFICES ASSUME SnapshotIInv, TakePlan PROVE SnapshotIInv'
  OBVIOUS
<1>0. Typed BY Types DEF SnapshotIInv
<1>1. /\ stream' = [stream EXCEPT !["coverage_plan"] = Tail(@)]
      /\ UNCHANGED <<session, past, plans, retained, wasIdle, active>>
      /\ call = "waiting" /\ PlanStream # <<>> /\ plan' = Head(PlanStream)
      /\ Join(plan', active)
  BY DEF TakePlan, Update, robotVars, PlanStream
<1>2. /\ stream' = [d \in Collections |-> stream'[d]]
      /\ PlanStream' = Tail(PlanStream) /\ KeyStream' = KeyStream
  BY <1>1, UpdateOfOne DEF SnapshotIInv, Held, Collections, PlanStream, KeyStream
<1>3. Tail(PlanStream) \in Seq(PlanValues) /\ plan' \in PlanValues
  BY <1>0, <1>1, HeadTailProperties DEF Typed
<1>4. \/ call' = "snapshot" /\ result' \in Plans \X Keys
      \/ call' = "waiting" /\ result' = result
  BY <1>0, <1>1, <1>3, Joins DEF Typed
<1>5. Typed' BY <1>0, <1>1, <1>2, <1>3, <1>4 DEF Typed
<1>6. SnapshotTypeOK' BY <1>5, Types, PTL
<1>7. Held' BY <1>1, <1>2 DEF SnapshotIInv, Held
<1> QED BY <1>1, <1>2, <1>4, <1>6, <1>7 DEF SnapshotIInv, KeyTellsSession, IdleIsNoticed,
           NoneIsNoticed, InactiveMeansIdle

LEMMA TakeKeyKeeps == SnapshotIInv /\ TakeKey => SnapshotIInv'
<1> SUFFICES ASSUME SnapshotIInv, TakeKey PROVE SnapshotIInv'
  OBVIOUS
<1>0. Typed BY Types DEF SnapshotIInv
<1>1. /\ stream' = [stream EXCEPT !["active_session_key"] = Tail(@)]
      /\ UNCHANGED <<session, past, plans, retained, wasIdle, plan>>
      /\ call = "waiting" /\ KeyStream # <<>> /\ active' = Head(KeyStream)
      /\ active' = None => call' = "inactive" /\ result' = result
      /\ active' # None => Join(plan, active')
  BY DEF TakeKey, Update, robotVars, KeyStream
<1>2. /\ stream' = [d \in Collections |-> stream'[d]]
      /\ KeyStream' = Tail(KeyStream) /\ PlanStream' = PlanStream
  BY <1>1, UpdateOfOne DEF SnapshotIInv, Held, Collections, PlanStream, KeyStream
<1>3. /\ Tail(KeyStream) \in Seq(KeyValues) /\ active' \in KeyValues
      /\ Len(Tail(KeyStream)) = Len(KeyStream) - 1 /\ Len(KeyStream) \in Nat \ {0}
      /\ \A i \in 1..Len(Tail(KeyStream)) : Tail(KeyStream)[i] = KeyStream[i + 1]
      /\ active' = KeyStream[1]
  BY <1>0, <1>1, HeadTailProperties, LenProperties, EmptySeq DEF Typed
<1>4. \/ call' = "snapshot" /\ result' \in Plans \X Keys
      \/ call' = "waiting" /\ result' = result
      \/ call' = "inactive" /\ result' = result /\ active' = None
  BY <1>0, <1>1, <1>3, Joins DEF Typed
<1>5. Typed' BY <1>0, <1>1, <1>2, <1>3, <1>4 DEF Typed
<1>6. SnapshotTypeOK' BY <1>5, Types, PTL
<1>7. Held' BY <1>1, <1>2 DEF SnapshotIInv, Held
<1>8. \A i \in 1..Len(KeyStream) : KeyStream[i] = None => wasIdle
  BY DEF SnapshotIInv, NoneIsNoticed
<1>9. active' = None => wasIdle
  <2>1. 1 \in 1..Len(KeyStream) BY <1>3
  <2> QED BY <1>3, <1>8, <2>1
<1>10. NoneIsNoticed' BY <1>1, <1>2, <1>3, <1>4, <1>8 DEF NoneIsNoticed
<1> QED BY <1>1, <1>4, <1>6, <1>7, <1>9, <1>10 DEF SnapshotIInv, KeyTellsSession, IdleIsNoticed,
           InactiveMeansIdle

LEMMA FailKeeps == SnapshotIInv /\ Fail => SnapshotIInv'
<1> SUFFICES ASSUME SnapshotIInv, Fail PROVE SnapshotIInv'
  OBVIOUS
<1>0. Typed BY Types DEF SnapshotIInv
<1>1. /\ UNCHANGED <<session, past, plans, retained, wasIdle, stream, plan, active, result>>
      /\ call # "idle" /\ call' = "error"
  BY DEF Fail, robotVars
<1>2. Typed' BY <1>0, <1>1 DEF Typed, PlanStream, KeyStream
<1>3. SnapshotTypeOK' BY <1>2, Types, PTL
<1> QED BY <1>1, <1>3 DEF SnapshotIInv, Held, KeyTellsSession, IdleIsNoticed, NoneIsNoticed,
           KeyStream, InactiveMeansIdle
------------------------------------------------------------------------------
(* The strengthened invariant holds in every state.                         *)
THEOREM SnapshotInvariance == SnapshotSpec => []SnapshotIInv
<1>1. SnapshotIInv /\ [SnapshotNext]_snapshotVars => SnapshotIInv'
  <2> SUFFICES ASSUME SnapshotIInv, [SnapshotNext]_snapshotVars PROVE SnapshotIInv'
    OBVIOUS
  <2>1. CASE Robot BY <2>1, RobotKeeps
  <2>2. CASE SubscribePlan BY <2>2, SubscribePlanKeeps
  <2>3. CASE SubscribeKey BY <2>3, SubscribeKeyKeeps
  <2>4. CASE TakePlan BY <2>4, TakePlanKeeps
  <2>5. CASE TakeKey BY <2>5, TakeKeyKeeps
  <2>6. CASE Fail BY <2>6, FailKeeps
  <2>7. CASE UNCHANGED snapshotVars
    BY <2>7 DEF snapshotVars, SnapshotIInv, SnapshotTypeOK, Held, KeyTellsSession, IdleIsNoticed, NoneIsNoticed,
                KeyStream, InactiveMeansIdle
  <2> QED BY <2>1, <2>2, <2>3, <2>4, <2>5, <2>6, <2>7 DEF SnapshotNext, Fetch, Returned
<1> QED BY InitIsGood, <1>1, PTL DEF SnapshotSpec

(* Every value that a subscription delivers, and every result, is of its    *)
(* collection.                                                              *)
THEOREM SnapshotTypeCorrect == SnapshotSpec => []SnapshotTypeOK
BY SnapshotInvariance, PTL DEF SnapshotIInv

(* None is never returned for a robot that was busy during the whole call   *)
(* (fetch_reprioritization_snapshot's "inactive-session value").            *)
THEOREM InactiveIsIdle == SnapshotSpec => []InactiveMeansIdle
BY SnapshotInvariance, PTL DEF SnapshotIInv
==============================================================================
