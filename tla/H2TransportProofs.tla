-------------------------- MODULE H2TransportProofs --------------------------
(***************************************************************************)
(* What holds of H2Transport for every number of calls, every window and   *)
(* every response, by two inductive invariants: IInv, of the table and the *)
(* tasks, and LifeIInv, which adds what is queued and what is in flight.   *)
(***************************************************************************)
EXTENDS H2Transport, SequenceTheorems, FiniteSetTheorems, TLAPS

------------------------------------------------------------------------------
(* The tasks are pairs; the proofs below use only these facts about them.   *)

\* Callers and cancellers are distinct tasks, one of each for every stream.
LEMMA TaskFacts ==
    /\ \A s \in Streams : Caller(s) \in Tasks /\ Canceller(s) \in Tasks
    /\ \A t \in Tasks : t[2] \in Streams
    /\ \A s : Caller(s)[2] = s /\ Canceller(s)[2] = s
    /\ \A s, r : Caller(s) = Caller(r) => s = r
    /\ \A s, r : Caller(s) # Canceller(r)
BY DEF Caller, Canceller, Tasks

\* Moving one task, or waking the waiting ones, keeps pc a function to places.
LEMMA PlaceTypes ==
    ASSUME pc \in [Tasks -> Places]
    PROVE  /\ \A t \in Tasks : \A p \in Places : [pc EXCEPT ![t] = p] \in [Tasks -> Places]
           /\ Woken(pc) \in [Tasks -> Places]
           /\ \A t \in Tasks : Woken(pc)[t] = IF pc[t] = "window" THEN "send" ELSE pc[t]
BY DEF Woken, Places

\* What _fail_all leaves behind has the right types, an empty table, and no
\* sender that waits.
LEMMA FailAllType ==
    ASSUME TypeOK, FailAll
    PROVE  /\ queue' \in [Streams -> Seq(Events)]
           /\ ended' \in [Streams -> BOOLEAN]
           /\ streams' = {}
           /\ pc' \in [Tasks -> Places]
<1>1. "lost" \in Events
  BY DEF Events, Terminals
<1>2. \A s \in Streams : Append(queue[s], "lost") \in Seq(Events)
  BY <1>1, AppendProperties DEF TypeOK
<1>3. QED
  BY <1>2, PlaceTypes DEF TypeOK, FailAll

\* The batch and what stays in flight are sequences of frames, and counting
\* the frames that widen the window gives numbers.
LEMMA ReadTypes ==
    ASSUME TypeOK, NEW n \in 1..Len(inbound)
    PROVE  /\ SubSeq(inbound, 1, n) \in Seq(Frames)
           /\ SubSeq(inbound, n + 1, Len(inbound)) \in Seq(Frames)
           /\ Cardinality({i \in 1..n : inbound[i] = WindowUpdate}) \in Nat
           /\ Cardinality({i \in 1..n : inbound[i] = Settings}) \in Nat
           /\ {i \in 1..n : inbound[i] = WindowUpdate} = {} =>
                Cardinality({i \in 1..n : inbound[i] = WindowUpdate}) = 0
<1> DEFINE U == {i \in 1..n : inbound[i] = WindowUpdate}
           R == {i \in 1..n : inbound[i] = Settings}
<1>1. inbound \in Seq(Frames) /\ Len(inbound) \in Nat /\ n \in Nat
  BY LenProperties DEF TypeOK
<1>2. \A i \in 1..Len(inbound) : inbound[i] \in Frames
  BY <1>1, ElementOfSeq
<1>3. SubSeq(inbound, 1, n) \in Seq(Frames)
  BY <1>1, <1>2, SubSeqProperties
<1>4. SubSeq(inbound, n + 1, Len(inbound)) \in Seq(Frames)
  BY <1>1, <1>2, SubSeqProperties
<1>5. IsFiniteSet(1..n)
  BY <1>1, FS_Interval
<1>6. IsFiniteSet(U) /\ IsFiniteSet(R)
  BY <1>5, FS_Subset
<1>7. Cardinality(U) \in Nat /\ Cardinality(R) \in Nat
  BY <1>6, FS_CardinalityType
<1>8. U = {} => Cardinality(U) = 0
  BY FS_EmptySet
<1>9. QED
  BY <1>3, <1>4, <1>7, <1>8

\* A frame that joins those in flight leaves a sequence of frames.
LEMMA ArrivesType ==
    ASSUME TypeOK, NEW f \in Frames, Arrives(f)
    PROVE  inbound' \in Seq(Frames)
BY AppendProperties DEF TypeOK, Arrives

\* Taking an event leaves queues of events.
LEMMA TookType ==
    ASSUME TypeOK, NEW s \in Streams, NEW K, Took(s, K)
    PROVE  queue' \in [Streams -> Seq(Events)]
<1>1. queue[s] \in Seq(Events) /\ queue[s] # <<>>
  BY DEF TypeOK, Took
<1>2. Tail(queue[s]) \in Seq(Events)
  BY <1>1, HeadTailProperties
<1>3. QED
  BY <1>2 DEF TypeOK, Took
------------------------------------------------------------------------------
(* Type correctness.                                                        *)

\* What a message makes its reader do next.
LEMMA MessageMoves ==
    ASSUME NEW s, ReceiveMessage(s)
    PROVE  \/ todo' = [todo EXCEPT ![s] = 1] /\ Go(s, "send")
           \/ UNCHANGED todo /\ (Go(s, "next") \/ Go(s, "get"))
<1>1. CASE s \in Streaming
  BY <1>1 DEF ReceiveMessage
<1>2. CASE s \notin Streaming
  BY <1>2 DEF ReceiveMessage
<1>3. QED
  BY <1>1, <1>2

\* An exception leaves cancelled, outcome and pc well typed.
LEMMA RaiseType ==
    ASSUME TypeOK, NEW s \in Streams, Raise(s)
    PROVE  /\ outcome' \in [Streams -> {"none", "ok", "status", "error", "stopped"}]
           /\ cancelled' \in [Streams -> BOOLEAN]
           /\ pc' \in [Tasks -> Places]
<1>1. Caller(s) \in Tasks /\ "done" \in Places /\ "reset" \in Places
  BY TaskFacts DEF Places
<1>2. QED
  BY <1>1, PlaceTypes DEF TypeOK, Raise, Go

\* The state after connect() is well typed.
LEMMA TypeInit == Init => TypeOK
<1>1. <<>> \in Seq(Events) /\ <<>> \in Seq(Frames)
  BY EmptySeq
<1>2. "idle" \in Places
  BY DEF Places
<1>3. ASSUME Init
      PROVE  /\ queue \in [Streams -> Seq(Events)]
             /\ batch \in Seq(Frames) /\ inbound \in Seq(Frames)
             /\ pc \in [Tasks -> Places]
  BY <1>1, <1>2, <1>3 DEF Init
<1>4. ASSUME Init
      PROVE  /\ todo \in [Streams -> Nat] /\ got \in [Streams -> Nat]
             /\ served \in [Streams -> Nat]
             /\ window \in Nat /\ unheard \in Nat /\ grants \in Nat
  BY <1>4, SizesAssumption DEF Init
<1>5. ASSUME Init
      PROVE  /\ ended \in [Streams -> BOOLEAN]
             /\ rcvdEnd \in [Streams -> BOOLEAN] /\ cancelled \in [Streams -> BOOLEAN]
  BY <1>5 DEF Init
<1>6. ASSUME Init
      PROVE  /\ outcome \in [Streams -> {"none", "ok", "status", "error", "stopped"}]
             /\ peer \in [Streams -> {"none", "open"} \cup Ends]
  BY <1>6 DEF Init
<1>7. ASSUME Init
      PROVE  /\ closing \in BOOLEAN /\ terminal \in BOOLEAN
             /\ streams \subseteq Streams /\ abandoned \subseteq Streams
             /\ reader \in {"read", "flush", "dispatch", "done"}
             /\ closer \in {"idle", "lock", "flush", "join", "done"}
             /\ link \in {"up", "goaway", "broken"}
  BY <1>7 DEF Init
<1>8. QED
  BY <1>3, <1>4, <1>5, <1>6, <1>7 DEF TypeOK

\* A caller's step keeps the types; todo stays a number because it sends only
\* while something remains.
LEMMA TypeCaller ==
    ASSUME TypeOK, SenderHasData, NEW s \in Streams, CallerStep(s)
    PROVE  TypeOK'
<1> USE DEF connVars, tableVars, callVars, peerVars
<1>0. Caller(s) \in Tasks /\ Canceller(s) \in Tasks
  BY TaskFacts
<1>1. \A p \in Places : Go(s, p) => pc' \in [Tasks -> Places]
  BY <1>0, PlaceTypes DEF TypeOK, Go
<1>2. {"openFlush", "done", "send", "sendFlush", "window", "next", "get", "reset"} \subseteq Places
  BY DEF Places
<1>3. Reading(s) \in Places
  BY <1>2 DEF Reading
<1>4. CASE Open(s)
  BY <1>1, <1>2, <1>4 DEF Open, TypeOK
<1>5. CASE OpenRefused(s)
  BY <1>1, <1>2, <1>5 DEF OpenRefused, TypeOK
<1>6. CASE OpenFlushed(s)
  BY <1>1, <1>2, <1>6 DEF OpenFlushed, TypeOK
<1>7. CASE OpenFails(s)
  BY <1>1, <1>2, <1>7 DEF OpenFails, TypeOK
<1>8. CASE Send(s)
  <2>1. todo[s] \in Nat /\ todo[s] > 0
    BY <1>8 DEF TypeOK, SenderHasData, Send, MaySend, At
  <2>2. todo[s] - 1 \in Nat /\ window - 1 \in Nat
    BY <1>8, <2>1 DEF Send, TypeOK
  <2>3. QED
    BY <1>1, <1>2, <1>8, <2>2 DEF Send, TypeOK
<1>9. CASE Starve(s)
  BY <1>1, <1>2, <1>9 DEF Starve, TypeOK
<1>10. CASE SendRefused(s)
  BY <1>10, RaiseType DEF SendRefused, TypeOK
<1>11. CASE SendFlushed(s)
  <2>1. PICK p \in Places : Go(s, p)
    BY <1>2, <1>3, <1>11 DEF SendFlushed
  <2>2. QED
    BY <1>1, <1>11, <2>1 DEF SendFlushed, TypeOK
<1>12. CASE AskNext(s)
  BY <1>1, <1>2, <1>12 DEF AskNext, TypeOK
<1>13. CASE ReceiveMessage(s)
  <2>1. queue' \in [Streams -> Seq(Events)]
    BY <1>13, TookType DEF ReceiveMessage
  <2>2. todo' \in [Streams -> Nat] /\ got' \in [Streams -> Nat]
    <3>1. got' = [got EXCEPT ![s] = got[s] + 1]
      BY <1>13 DEF ReceiveMessage
    <3>2. todo' = todo \/ todo' = [todo EXCEPT ![s] = 1]
      BY <1>13 DEF ReceiveMessage
    <3>3. todo \in [Streams -> Nat] /\ got \in [Streams -> Nat] /\ 1 \in Nat
      BY DEF TypeOK
    <3>4. QED
      BY ONLY <3>1, <3>2, <3>3, s \in Streams
  <2>3. pc' \in [Tasks -> Places]
    <3>1. PICK p \in Places : Go(s, p)
      BY <1>2, <1>13, MessageMoves
    <3>2. QED
      BY <1>1, <3>1
  <2>4. QED
    BY <1>13, <2>1, <2>2, <2>3 DEF ReceiveMessage, TypeOK
<1>14. CASE ReceiveEnd(s)
  BY <1>1, <1>2, <1>14, TookType DEF ReceiveEnd, TypeOK
<1>15. CASE ReceiveError(s)
  BY <1>15, TookType, RaiseType DEF ReceiveError, TypeOK
<1>16. CASE Interrupt(s)
  BY <1>16, RaiseType DEF Interrupt, TypeOK
<1>17. CASE StartCancel(s)
  BY <1>0, <1>2, <1>17, PlaceTypes DEF StartCancel, Move, TypeOK
<1>18. QED
  BY <1>4, <1>5, <1>6, <1>7, <1>8, <1>9, <1>10, <1>11, <1>12, <1>13, <1>14,
     <1>15, <1>16, <1>17 DEF CallerStep

\* A step of cancel() keeps the types.
LEMMA TypeCancel ==
    ASSUME TypeOK, NEW t \in Tasks, CancelStep(t)
    PROVE  TypeOK'
<1> USE DEF connVars, tableVars, callVars, peerVars
<1>1. t[2] \in Streams
  BY TaskFacts
<1>2. \A p \in Places : Move(t, p) => pc' \in [Tasks -> Places]
  BY PlaceTypes DEF TypeOK, Move
<1>3. {"done", "resetFlush"} \subseteq Places
  BY DEF Places
<1>4. CASE CancelFails(t)
  BY <1>1, <1>2, <1>3, <1>4 DEF CancelFails, TypeOK
<1>5. CASE Reset(t)
  BY <1>1, <1>2, <1>3, <1>5 DEF Reset, TypeOK
<1>6. CASE ResetUnknown(t)
  BY <1>1, <1>2, <1>3, <1>6 DEF ResetUnknown, TypeOK
<1>7. CASE ResetFlushed(t)
  BY <1>1, <1>2, <1>3, <1>7 DEF ResetFlushed, TypeOK
<1>8. QED
  BY <1>4, <1>5, <1>6, <1>7 DEF CancelStep

\* Reading and flushing keep the types.
LEMMA TypeReader ==
    ASSUME TypeOK, ReaderStep
    PROVE  TypeOK'
<1> USE DEF connVars, tableVars, callVars, peerVars
<1>1. CASE ReadBatch
  <2>1. PICK n \in 1..Len(inbound) :
          /\ batch' = SubSeq(inbound, 1, n)
          /\ inbound' = SubSeq(inbound, n + 1, Len(inbound))
          /\ window' = window + Cardinality({i \in 1..n : inbound[i] = WindowUpdate})
                               + Cardinality({i \in 1..n : inbound[i] = Settings})
          /\ pc' = pc \/ pc' = Woken(pc)
          /\ \/ unheard' = 0
             \/ unheard' = unheard + Cardinality({i \in 1..n : inbound[i] = Settings})
    BY <1>1 DEF ReadBatch
  <2>2. batch' \in Seq(Frames) /\ inbound' \in Seq(Frames)
    BY <2>1, ReadTypes
  <2>3. window' \in Nat /\ unheard' \in Nat
    <3>1. /\ Cardinality({i \in 1..n : inbound[i] = WindowUpdate}) \in Nat
          /\ Cardinality({i \in 1..n : inbound[i] = Settings}) \in Nat
      BY ReadTypes
    <3>2. QED
      BY <2>1, <3>1 DEF TypeOK
  <2>4. pc' \in [Tasks -> Places]
    BY <2>1, PlaceTypes DEF TypeOK
  <2>5. QED
    BY <1>1, <2>2, <2>3, <2>4 DEF ReadBatch, TypeOK
<1>2. CASE ReaderFlushed
  BY <1>2 DEF ReaderFlushed, TypeOK
<1>3. CASE ReaderFails
  <2>1. batch' \in Seq(Frames)
    BY <1>3, EmptySeq DEF ReaderFails
  <2>2. CASE closing
    BY <1>3, <2>1, <2>2 DEF ReaderFails, TypeOK
  <2>3. CASE ~closing
    BY <1>3, <2>1, <2>3, FailAllType DEF ReaderFails, TypeOK
  <2>4. QED
    BY <2>2, <2>3
<1>4. QED
  BY <1>1, <1>2, <1>3 DEF ReaderStep

\* Dispatching an event keeps the types.
LEMMA TypeDispatch ==
    ASSUME TypeOK, DispatchStep
    PROVE  TypeOK'
<1> USE DEF connVars, tableVars, callVars, peerVars
<1>1. \A f : Dispatching(f) => batch' \in Seq(Frames)
  BY HeadTailProperties DEF TypeOK, Dispatching
<1>2. \A s \in Streams, k \in Events : Append(queue[s], k) \in Seq(Events)
  BY AppendProperties DEF TypeOK
<1>3. Messages \subseteq Events /\ Ends \subseteq Events
  BY DEF Events, Terminals
<1>4. CASE DispatchGoAway
  BY <1>1, <1>4, FailAllType DEF DispatchGoAway, TypeOK
<1>5. CASE DispatchIgnored
  BY <1>1, <1>5 DEF DispatchIgnored, TypeOK
<1>6. CASE Dispatched
  BY <1>6 DEF Dispatched, TypeOK
<1>7. ASSUME NEW s \in Streams, DispatchMessage(s)
      PROVE  TypeOK'
  BY <1>1, <1>2, <1>3, <1>7 DEF DispatchMessage, TypeOK
<1>8. ASSUME NEW s \in Streams, DispatchEnd(s)
      PROVE  TypeOK'
  BY <1>1, <1>2, <1>3, <1>8 DEF DispatchEnd, TypeOK
<1>9. QED
  BY <1>4, <1>5, <1>6, <1>7, <1>8 DEF DispatchStep

\* A step of close() keeps the types.
LEMMA TypeClose ==
    ASSUME TypeOK, CloseStep
    PROVE  TypeOK'
<1> USE DEF connVars, tableVars, callVars, peerVars
<1>1. CASE Close
  <2>1. batch' \in Seq(Frames)
    BY <1>1, EmptySeq DEF Close, TypeOK
  <2>2. QED
    BY <1>1, <2>1, FailAllType DEF Close, TypeOK
<1>2. CASE CloseLocked
  BY <1>2 DEF CloseLocked, TypeOK
<1>3. CASE CloseFlushed
  BY <1>3 DEF CloseFlushed, TypeOK
<1>4. CASE CloseJoined
  BY <1>4 DEF CloseJoined, TypeOK
<1>5. QED
  BY <1>1, <1>2, <1>3, <1>4 DEF CloseStep

\* A step of the robot or the network keeps the types.
LEMMA TypePeer ==
    ASSUME TypeOK, PeerStep
    PROVE  TypeOK'
<1> USE DEF connVars, tableVars, callVars, peerVars
<1>1. \A s \in Streams, k \in Messages \cup Ends : <<k, s>> \in Frames
  BY DEF Frames
<1>2. WindowUpdate \in Frames /\ Settings \in Frames /\ GoAway \in Frames
  BY DEF Frames
<1>3. ASSUME NEW s \in Streams, PeerMessage(s)
      PROVE  TypeOK'
  BY <1>1, <1>3, ArrivesType DEF PeerMessage, TypeOK
<1>4. ASSUME NEW s \in Streams, PeerEnd(s)
      PROVE  TypeOK'
  BY <1>1, <1>4, ArrivesType DEF PeerEnd, TypeOK
<1>5. CASE PeerGrants \/ PeerSettings
  BY <1>2, <1>5, ArrivesType DEF PeerGrants, PeerSettings, TypeOK
<1>6. CASE PeerGoesAway
  BY <1>2, <1>6, ArrivesType DEF PeerGoesAway, TypeOK
<1>7. CASE LinkBreaks
  BY <1>7 DEF LinkBreaks, TypeOK
<1>8. QED
  BY <1>3, <1>4, <1>5, <1>6, <1>7 DEF PeerStep

\* Every step keeps the types.
LEMMA TypeStep ==
    ASSUME TypeOK, SenderHasData, [Next]_vars
    PROVE  TypeOK'
<1>1. CASE UNCHANGED vars
  BY <1>1 DEF vars, TypeOK
<1>2. CASE AllDone
  BY <1>2 DEF AllDone, vars, TypeOK
<1>3. QED
  BY <1>1, <1>2, TypeCaller, TypeCancel, TypeReader, TypeDispatch, TypeClose, TypePeer
  DEF Next
------------------------------------------------------------------------------
(* How the program counters move.                                           *)

\* Moving a caller moves nobody else.
LEMMA GoFacts ==
    ASSUME TypeOK, NEW s \in Streams, NEW p, Go(s, p)
    PROVE  /\ \A r \in Streams : pc'[Caller(r)] = IF r = s THEN p ELSE pc[Caller(r)]
           /\ \A t \in Tasks : t # Caller(s) => pc'[t] = pc[t]
           /\ pc'[Caller(s)] = p
BY TaskFacts DEF TypeOK, Go

\* Moving a task moves nobody else.
LEMMA MoveFacts ==
    ASSUME TypeOK, NEW t \in Tasks, NEW p, Move(t, p)
    PROVE  \A u \in Tasks : pc'[u] = IF u = t THEN p ELSE pc[u]
BY DEF TypeOK, Move

\* Setting the window event moves the waiting senders and nobody else.
LEMMA WokenFacts ==
    ASSUME TypeOK, pc' = Woken(pc)
    PROVE  \A t \in Tasks : pc'[t] = IF pc[t] = "window" THEN "send" ELSE pc[t]
BY PlaceTypes DEF TypeOK

\* _fail_all wakes every sender.
LEMMA FailAllWakes ==
    ASSUME TypeOK, FailAll
    PROVE  \A t \in Tasks : pc'[t] = IF pc[t] = "window" THEN "send" ELSE pc[t]
BY WokenFacts DEF FailAll

\* Every way out of a call ends it or starts its reset.
LEMMA RaiseFacts ==
    ASSUME TypeOK, NEW s \in Streams, Raise(s)
    PROVE  /\ \A r \in Streams : r # s => pc'[Caller(r)] = pc[Caller(r)]
           /\ \A t \in Tasks : t # Caller(s) => pc'[t] = pc[t]
           /\ pc'[Caller(s)] \in {"done", "reset"}
           /\ pc'[Caller(s)] = "reset" => cancelled'[s]
           /\ \A r \in Streams : cancelled[r] => cancelled'[r]
<1>1. CASE rcvdEnd[s] \/ cancelled[s]
  <2>1. UNCHANGED cancelled /\ Go(s, "done")
    BY <1>1 DEF Raise
  <2>2. QED
    BY <2>1, GoFacts, TaskFacts
<1>2. CASE ~(rcvdEnd[s] \/ cancelled[s])
  <2>1. cancelled' = [cancelled EXCEPT ![s] = TRUE] /\ Go(s, "reset")
    BY <1>2 DEF Raise
  <2>2. cancelled'[s] /\ \A r \in Streams : cancelled[r] => cancelled'[r]
    BY <2>1 DEF TypeOK
  <2>3. QED
    BY <2>1, <2>2, GoFacts, TaskFacts
<1>3. QED
  BY <1>1, <1>2
------------------------------------------------------------------------------
(* IInv is inductive, one conjunct at a time.                               *)

\* The steps of tasks other than callers and cancellers.
OtherStep == ReaderStep \/ DispatchStep \/ CloseStep \/ PeerStep \/ AllDone \/ UNCHANGED vars

\* They leave the calls' own state alone and move no call but by waking it.
LEMMA OtherFrame ==
    ASSUME OtherStep
    PROVE  /\ UNCHANGED <<todo, got, rcvdEnd, cancelled, outcome, abandoned>>
           /\ pc' = pc \/ pc' = Woken(pc)
BY DEF OtherStep, ReaderStep, ReadBatch, ReaderFlushed, ReaderFails, DispatchStep,
   DispatchGoAway, DispatchIgnored, Dispatched, DispatchMessage, DispatchEnd,
   CloseStep, Close, CloseLocked, CloseFlushed, CloseJoined, PeerStep, PeerMessage,
   PeerEnd, PeerGrants, PeerSettings, PeerGoesAway, LinkBreaks, AllDone, vars, FailAll, callVars

\* What a step of one of them does to the table: shut everything down, take
\* one event off the batch, or nothing.
LEMMA OtherTable ==
    ASSUME OtherStep
    PROVE  \/ FailAll /\ (closing' \/ terminal')
           \/ /\ UNCHANGED <<closing, terminal>>
              /\ \/ UNCHANGED <<streams, ended, queue>>
                 \/ \E s \in Streams : DispatchMessage(s) \/ DispatchEnd(s)
BY DEF OtherStep, ReaderStep, ReadBatch, ReaderFlushed, ReaderFails, DispatchStep,
   DispatchGoAway, DispatchIgnored, Dispatched, DispatchMessage, DispatchEnd,
   CloseStep, Close, CloseLocked, CloseFlushed, CloseJoined, PeerStep, PeerMessage,
   PeerEnd, PeerGrants, PeerSettings, PeerGoesAway, LinkBreaks, AllDone, vars, connVars, tableVars

\* A caller changes the table by opening its stream, by failing to, or by
\* taking from its own queue.
LEMMA CallerTable ==
    ASSUME NEW s \in Streams, CallerStep(s)
    PROVE  /\ UNCHANGED <<closing, terminal, ended>>
           /\ \/ Open(s)
              \/ /\ streams' \subseteq streams
                 /\ \/ OpenFails(s)
                    \/ streams' = streams
BY DEF CallerStep, Open, OpenRefused, OpenFlushed, OpenFails, Send, Starve, SendRefused,
   SendFlushed, AskNext, ReceiveMessage, ReceiveEnd, ReceiveError, Interrupt, StartCancel,
   connVars, tableVars

\* cancel() changes the table only by removing its own stream.
LEMMA CancelTable ==
    ASSUME NEW t \in Tasks, CancelStep(t)
    PROVE  /\ UNCHANGED <<closing, terminal, queue, cancelled>>
           /\ Move(t, "done") \/ Move(t, "resetFlush")
           /\ pc[t] \in {"reset", "resetFlush"}
           /\ \/ Reset(t)
              \/ UNCHANGED <<streams, ended>>
BY DEF CancelStep, CancelFails, Reset, ResetUnknown, ResetFlushed, connVars, tableVars,
   callVars

\* _send_data turns back to its loop only while something remains to send.
LEMMA SenderHasDataStep ==
    ASSUME TypeOK, SenderHasData, TypeOK', [Next]_vars
    PROVE  SenderHasData'
<1> USE TaskFacts DEF connVars, tableVars, callVars, peerVars
<1> SUFFICES ASSUME NEW r \in Streams,
                    pc'[Caller(r)] \in {"idle", "openFlush", "send", "window"}
             PROVE  todo'[r] > 0
  BY DEF SenderHasData
<1> DEFINE Sending == pc[Caller(r)] \in {"idle", "openFlush", "send", "window"}
<1>1. Sending /\ todo'[r] = todo[r] => todo'[r] > 0
  BY DEF SenderHasData
<1>2. ASSUME NEW s \in Streams, CallerStep(s)
      PROVE  todo'[r] > 0
  <2>1. CASE Open(s)
    BY <1>1, <2>1, GoFacts DEF Open, At
  <2>2. CASE OpenRefused(s)
    BY <1>1, <2>2, GoFacts DEF OpenRefused
  <2>3. CASE OpenFlushed(s)
    BY <1>1, <2>3, GoFacts DEF OpenFlushed, At
  <2>4. CASE OpenFails(s)
    BY <1>1, <2>4, GoFacts DEF OpenFails
  <2>5. CASE Send(s)
    BY <1>1, <2>5, GoFacts DEF Send, TypeOK
  <2>6. CASE Starve(s)
    BY <1>1, <2>6, GoFacts DEF Starve, MaySend, At
  <2>7. CASE SendRefused(s)
    BY <1>1, <2>7, RaiseFacts DEF SendRefused
  <2>8. CASE SendFlushed(s)
    <3>1. CASE r = s /\ todo[s] = 0
      BY <2>8, <3>1, GoFacts DEF SendFlushed, Reading
    <3>2. CASE r = s /\ todo[s] # 0
      BY <2>8, <3>2 DEF SendFlushed, TypeOK
    <3>3. CASE r # s
      BY <1>1, <2>8, <3>3, GoFacts DEF SendFlushed
    <3>4. QED
      BY <3>1, <3>2, <3>3
  <2>9. CASE AskNext(s)
    BY <1>1, <2>9, GoFacts DEF AskNext
  <2>10. CASE ReceiveMessage(s)
    <3>1. CASE todo' = [todo EXCEPT ![s] = 1] /\ Go(s, "send")
      <4>1. todo'[s] > 0
        BY <3>1 DEF TypeOK
      <4>2. r # s => Sending /\ todo'[r] = todo[r]
        BY <3>1, GoFacts DEF TypeOK
      <4>3. QED
        BY <1>1, <4>1, <4>2
    <3>2. CASE UNCHANGED todo /\ (Go(s, "next") \/ Go(s, "get"))
      BY <1>1, <3>2, GoFacts
    <3>3. QED
      BY <2>10, <3>1, <3>2, MessageMoves
  <2>11. CASE ReceiveEnd(s)
    BY <1>1, <2>11, GoFacts DEF ReceiveEnd
  <2>12. CASE ReceiveError(s)
    BY <1>1, <2>12, RaiseFacts DEF ReceiveError
  <2>13. CASE Interrupt(s)
    BY <1>1, <2>13, RaiseFacts DEF Interrupt
  <2>14. CASE StartCancel(s)
    BY <1>1, <2>14, MoveFacts DEF StartCancel
  <2>15. QED
    BY <1>2, <2>1, <2>2, <2>3, <2>4, <2>5, <2>6, <2>7, <2>8, <2>9, <2>10, <2>11,
       <2>12, <2>13, <2>14 DEF CallerStep
<1>3. ASSUME NEW t \in Tasks, CancelStep(t)
      PROVE  todo'[r] > 0
  <2>1. Move(t, "done") \/ Move(t, "resetFlush")
    BY <1>3 DEF CancelStep, CancelFails, Reset, ResetUnknown, ResetFlushed
  <2>2. todo' = todo
    BY <1>3 DEF CancelStep, CancelFails, Reset, ResetUnknown, ResetFlushed
  <2>3. QED
    BY <1>1, <2>1, <2>2, MoveFacts
<1>4. ASSUME OtherStep
      PROVE  todo'[r] > 0
  BY <1>1, <1>4, OtherFrame, WokenFacts
<1>5. QED
  BY <1>2, <1>3, <1>4 DEF Next, OtherStep

\* Only Open adds to the table, and it requires a connection; what ends the
\* connection empties the table in the same step.
LEMMA ShutdownStep ==
    ASSUME TypeOK, ShutdownClearsStreams, [Next]_vars
    PROVE  ShutdownClearsStreams'
<1>1. ASSUME NEW s \in Streams, CallerStep(s)
      PROVE  ShutdownClearsStreams'
  BY <1>1, CallerTable DEF ShutdownClearsStreams, Open, Require
<1>2. ASSUME NEW t \in Tasks, CancelStep(t)
      PROVE  ShutdownClearsStreams'
  BY <1>2, CancelTable DEF ShutdownClearsStreams, Reset
<1>3. ASSUME OtherStep
      PROVE  ShutdownClearsStreams'
  BY <1>3, OtherTable DEF ShutdownClearsStreams, FailAll, DispatchMessage, DispatchEnd
<1>4. QED
  BY <1>1, <1>2, <1>3 DEF Next, OtherStep

\* A stream is marked ended in the step that takes it off the table.
LEMMA RegisteredStep ==
    ASSUME TypeOK, RegisteredIsLive, [Next]_vars
    PROVE  RegisteredIsLive'
<1> USE TaskFacts DEF At
<1> SUFFICES ASSUME NEW r \in Streams
             PROVE  /\ r \in streams' => pc'[Caller(r)] # "idle" /\ ~ended'[r]
                    /\ pc'[Caller(r)] = "idle" => ~ended'[r]
  BY DEF RegisteredIsLive
<1>1. /\ r \in streams => pc[Caller(r)] # "idle" /\ ~ended[r]
      /\ pc[Caller(r)] = "idle" => ~ended[r]
  BY DEF RegisteredIsLive
<1>2. ASSUME NEW s \in Streams, CallerStep(s)
      PROVE  /\ r \in streams' => pc'[Caller(r)] # "idle" /\ ~ended'[r]
             /\ pc'[Caller(r)] = "idle" => ~ended'[r]
  <2>1. pc'[Caller(r)] = "idle" => pc[Caller(r)] = "idle"
    BY <1>2, GoFacts, RaiseFacts, MoveFacts DEF CallerStep, Open, OpenRefused, OpenFlushed,
       OpenFails, Send, Starve, SendRefused, SendFlushed, AskNext, Reading, ReceiveMessage,
       ReceiveEnd, ReceiveError, Interrupt, StartCancel
  <2>2. CASE Open(s)
    BY <1>1, <2>1, <2>2, GoFacts DEF Open, connVars
  <2>3. CASE ~Open(s)
    BY <1>1, <1>2, <2>1, <2>3, CallerTable
  <2>4. QED
    BY <2>2, <2>3
<1>3. ASSUME NEW t \in Tasks, CancelStep(t)
      PROVE  /\ r \in streams' => pc'[Caller(r)] # "idle" /\ ~ended'[r]
             /\ pc'[Caller(r)] = "idle" => ~ended'[r]
  <2>1. pc'[Caller(r)] = "idle" => pc[Caller(r)] = "idle"
    BY <1>3, CancelTable, MoveFacts
  <2>2. CASE Reset(t)
    BY <1>1, <2>1, <2>2 DEF Reset, TypeOK
  <2>3. CASE ~Reset(t)
    BY <1>1, <1>3, <2>1, <2>3, CancelTable
  <2>4. QED
    BY <2>2, <2>3
<1>4. ASSUME OtherStep
      PROVE  /\ r \in streams' => pc'[Caller(r)] # "idle" /\ ~ended'[r]
             /\ pc'[Caller(r)] = "idle" => ~ended'[r]
  <2>1. pc'[Caller(r)] = "idle" <=> pc[Caller(r)] = "idle"
    BY <1>4, OtherFrame, WokenFacts
  <2>2. CASE FailAll
    BY <1>1, <2>1, <2>2 DEF FailAll
  <2>3. CASE \E s \in Streams : DispatchMessage(s) \/ DispatchEnd(s)
    BY <1>1, <2>1, <2>3 DEF DispatchMessage, DispatchEnd, TypeOK
  <2>4. CASE UNCHANGED <<streams, ended, queue>>
    BY <1>1, <2>1, <2>4
  <2>5. QED
    BY <1>4, <2>2, <2>3, <2>4, OtherTable
<1>5. QED
  BY <1>2, <1>3, <1>4 DEF Next, OtherStep

\* cancel() records the cancellation before it waits for the lock.
LEMMA ResetIsCancelledStep ==
    ASSUME TypeOK, ResetIsCancelled, [Next]_vars
    PROVE  ResetIsCancelled'
<1> USE TaskFacts
<1> SUFFICES ASSUME NEW u \in Tasks, pc'[u] = "reset"
             PROVE  cancelled'[u[2]]
  BY DEF ResetIsCancelled
<1>1. pc[u] = "reset" => cancelled[u[2]]
  BY DEF ResetIsCancelled
<1>2. ASSUME NEW s \in Streams, CallerStep(s)
      PROVE  cancelled'[u[2]]
  <2>1. \A r \in Streams : cancelled[r] => cancelled'[r]
    BY <1>2, RaiseFacts DEF CallerStep, Open, OpenRefused, OpenFlushed, OpenFails, Send,
       Starve, SendRefused, SendFlushed, AskNext, ReceiveMessage, ReceiveEnd, ReceiveError,
       Interrupt, StartCancel, callVars, TypeOK
  <2>2. CASE SendRefused(s) \/ ReceiveError(s) \/ Interrupt(s)
    BY <1>1, <2>1, <2>2, RaiseFacts DEF SendRefused, ReceiveError, Interrupt
  <2>3. CASE StartCancel(s)
    BY <1>1, <2>1, <2>3, MoveFacts DEF StartCancel, TypeOK
  <2>4. CASE ~(SendRefused(s) \/ ReceiveError(s) \/ Interrupt(s) \/ StartCancel(s))
    <3>1. \E p \in Places \ {"reset"} : Go(s, p)
      BY <1>2, <2>4 DEF CallerStep, Open, OpenRefused, OpenFlushed, OpenFails, Send, Starve,
         SendFlushed, AskNext, Reading, ReceiveMessage, ReceiveEnd, Places
    <3>2. QED
      BY <1>1, <2>1, <3>1, GoFacts
  <2>5. QED
    BY <2>2, <2>3, <2>4
<1>3. ASSUME NEW t \in Tasks, CancelStep(t)
      PROVE  cancelled'[u[2]]
  BY <1>1, <1>3, CancelTable, MoveFacts
<1>4. ASSUME OtherStep
      PROVE  cancelled'[u[2]]
  BY <1>1, <1>4, OtherFrame, WokenFacts
<1>5. QED
  BY <1>2, <1>3, <1>4 DEF Next, OtherStep

\* An end that is queued stays queued until the caller takes it.
LEMMA QueueFacts ==
    ASSUME TypeOK, NEW s \in Streams
    PROVE  /\ \A k \in Events : queue'[s] = Append(queue[s], k) =>
                (EndIsQueued(s) \/ k \in Terminals => EndIsQueued(s)')
           /\ queue[s] # <<>> /\ Head(queue[s]) \notin Terminals
                /\ queue'[s] = Tail(queue[s]) /\ EndIsQueued(s) => EndIsQueued(s)'
           /\ queue'[s] = queue[s] /\ EndIsQueued(s) => EndIsQueued(s)'
<1>1. queue[s] \in Seq(Events) /\ Len(queue[s]) \in Nat
  BY LenProperties DEF TypeOK
<1>2. ASSUME NEW k \in Events, queue'[s] = Append(queue[s], k),
             EndIsQueued(s) \/ k \in Terminals
      PROVE  EndIsQueued(s)'
  <2>1. /\ Len(queue'[s]) = Len(queue[s]) + 1
        /\ \A i \in 1..Len(queue[s]) : queue'[s][i] = queue[s][i]
        /\ queue'[s][Len(queue[s]) + 1] = k
    BY <1>1, <1>2, AppendProperties
  <2>2. QED
    BY <1>1, <1>2, <2>1 DEF EndIsQueued
<1>3. ASSUME queue[s] # <<>>, Head(queue[s]) \notin Terminals,
             queue'[s] = Tail(queue[s]), EndIsQueued(s)
      PROVE  EndIsQueued(s)'
  <2>1. PICK i \in 1..Len(queue[s]) : queue[s][i] \in Terminals
    BY <1>3 DEF EndIsQueued
  <2>2. Head(queue[s]) = queue[s][1]
    BY <1>1, <1>3
  <2>3. i # 1
    BY <1>3, <2>1, <2>2
  <2>4. /\ Len(queue'[s]) = Len(queue[s]) - 1
        /\ \A j \in 1..Len(queue'[s]) : queue'[s][j] = queue[s][j + 1]
    BY <1>1, <1>3, HeadTailProperties
  <2>5. i - 1 \in 1..Len(queue'[s]) /\ queue'[s][i - 1] = queue[s][i]
    BY <1>1, <2>3, <2>4
  <2>6. QED
    BY <2>1, <2>5 DEF EndIsQueued
<1>4. QED
  BY <1>2, <1>3 DEF EndIsQueued

\* A stream leaves the table with its end queued, or after a local cancel.
LEMMA TrackedStep ==
    ASSUME TypeOK, RegisteredIsLive, ResetIsCancelled, StreamIsTracked, [Next]_vars
    PROVE  StreamIsTracked'
<1> USE TaskFacts
<1> DEFINE Reads == {"openFlush", "send", "sendFlush", "window", "next", "get"}
<1> SUFFICES ASSUME NEW r \in Streams, pc'[Caller(r)] \in Reads
             PROVE  (r \in streams \/ EndIsQueued(r) \/ cancelled[r])'
  BY DEF StreamIsTracked
<1> DEFINE Tracked == r \in streams \/ EndIsQueued(r) \/ cancelled[r]
<1>1. pc[Caller(r)] \in Reads => Tracked
  BY DEF StreamIsTracked
<1>2. Tracked /\ r \in streams' /\ UNCHANGED <<queue, cancelled>> => Tracked'
  OBVIOUS
<1>3. Tracked /\ UNCHANGED <<streams, queue, cancelled>> => Tracked'
  BY QueueFacts
<1>4. ASSUME NEW s \in Streams, CallerStep(s)
      PROVE  Tracked'
  <2>1. CASE Open(s)
    <3>1. CASE r = s
      BY <2>1, <3>1 DEF Open
    <3>2. CASE r # s
      BY <1>1, <2>1, <3>2, GoFacts, QueueFacts DEF Open, callVars
    <3>3. QED
      BY <3>1, <3>2
  <2>2. CASE OpenFails(s)
    <3>1. r # s
      BY <2>2, GoFacts DEF OpenFails
    <3>2. QED
      BY <1>1, <2>2, <3>1, GoFacts, QueueFacts DEF OpenFails
  <2>3. CASE ReceiveMessage(s)
    <3>1. \E p \in Places : Go(s, p)
      BY <2>3 DEF ReceiveMessage, Places
    <3>2. pc[Caller(r)] \in Reads
      BY <2>3, <3>1, GoFacts DEF ReceiveMessage, Took, At
    <3>3. CASE r = s
      <4>1. queue[r] # <<>> /\ Head(queue[r]) = "data" /\ queue'[r] = Tail(queue[r])
        BY <2>3, <3>3 DEF ReceiveMessage, Took, TypeOK
      <4>2. Head(queue[r]) \notin Terminals
        BY <4>1 DEF Terminals, Ends
      <4>3. QED
        BY <1>1, <2>3, <3>2, <4>1, <4>2, QueueFacts DEF ReceiveMessage
    <3>4. CASE r # s
      <4>1. queue'[r] = queue[r]
        BY <2>3, <3>4 DEF ReceiveMessage, Took, TypeOK
      <4>2. QED
        BY <1>1, <2>3, <3>2, <4>1, QueueFacts DEF ReceiveMessage
    <3>5. QED
      BY <3>3, <3>4
  <2>4. CASE ReceiveEnd(s)
    <3>1. r # s
      BY <2>4, GoFacts DEF ReceiveEnd
    <3>2. queue'[r] = queue[r]
      BY <2>4, <3>1 DEF ReceiveEnd, Took, TypeOK
    <3>3. QED
      BY <1>1, <2>4, <3>1, <3>2, GoFacts, QueueFacts DEF ReceiveEnd
  <2>5. CASE ReceiveError(s)
    <3>1. r # s
      BY <2>5, RaiseFacts DEF ReceiveError
    <3>2. queue'[r] = queue[r]
      BY <2>5, <3>1 DEF ReceiveError, Took, TypeOK
    <3>3. QED
      BY <1>1, <2>5, <3>1, <3>2, RaiseFacts, QueueFacts DEF ReceiveError
  <2>6. CASE SendRefused(s) \/ Interrupt(s)
    <3>1. UNCHANGED <<streams, queue>> /\ Raise(s)
      BY <2>6 DEF SendRefused, Interrupt, tableVars
    <3>2. r # s
      BY <3>1, RaiseFacts
    <3>3. QED
      BY <1>1, <3>1, <3>2, RaiseFacts, QueueFacts
  <2>7. CASE StartCancel(s)
    <3>1. UNCHANGED <<streams, queue>> /\ Move(Canceller(s), "reset")
      BY <2>7 DEF StartCancel, tableVars
    <3>2. pc[Caller(r)] \in Reads
      BY <3>1, MoveFacts
    <3>3. cancelled[r] => cancelled'[r]
      BY <2>7 DEF StartCancel, TypeOK
    <3>4. QED
      BY <1>1, <3>1, <3>2, <3>3, QueueFacts
  <2>8. CASE OpenRefused(s) \/ OpenFlushed(s) \/ Send(s) \/ Starve(s) \/ SendFlushed(s)
             \/ AskNext(s)
    <3>1. UNCHANGED <<streams, queue, cancelled>>
      BY <2>8 DEF OpenRefused, OpenFlushed, Send, Starve, SendFlushed, AskNext, tableVars,
         callVars
    <3>2. pc[Caller(r)] \in Reads
      BY <2>8, GoFacts DEF OpenRefused, OpenFlushed, Send, MaySend, Starve, SendFlushed,
         AskNext, At
    <3>3. QED
      BY <1>1, <1>3, <3>1, <3>2
  <2>9. QED
    BY <1>4, <2>1, <2>2, <2>3, <2>4, <2>5, <2>6, <2>7, <2>8 DEF CallerStep
<1>5. ASSUME NEW t \in Tasks, CancelStep(t)
      PROVE  Tracked'
  <2>1. pc[Caller(r)] \in Reads
    BY <1>5, CancelTable, MoveFacts
  <2>2. CASE Reset(t)
    <3>1. UNCHANGED <<queue, cancelled>> /\ streams' = streams \ {t[2]} /\ cancelled[t[2]]
      BY <2>2 DEF Reset, ResetIsCancelled, callVars
    <3>2. QED
      BY <1>1, <2>1, <3>1, QueueFacts
  <2>3. CASE ~Reset(t)
    BY <1>1, <1>3, <1>5, <2>1, <2>3, CancelTable
  <2>4. QED
    BY <2>2, <2>3
<1>6. ASSUME OtherStep
      PROVE  Tracked'
  <2>1. pc[Caller(r)] \in Reads /\ UNCHANGED cancelled
    BY <1>6, OtherFrame, WokenFacts
  <2>2. CASE FailAll
    <3>1. CASE r \in streams
      <4>1. queue'[r] = Append(queue[r], "lost")
        BY <2>2, <3>1 DEF FailAll, RegisteredIsLive
      <4>2. QED
        BY <4>1, QueueFacts DEF Events, Terminals
    <3>2. CASE r \notin streams
      BY <1>1, <2>1, <2>2, <3>2, QueueFacts DEF FailAll
    <3>3. QED
      BY <3>1, <3>2
  <2>3. ASSUME NEW s \in Streams, DispatchMessage(s)
        PROVE  Tracked'
    <3>1. PICK k \in Messages : queue' = [queue EXCEPT ![s] = Append(@, k)]
      BY <2>3 DEF DispatchMessage
    <3>2. k \in Events /\ streams' = streams
      BY <2>3 DEF Events, DispatchMessage
    <3>3. queue'[r] = queue[r] \/ queue'[r] = Append(queue[r], k)
      BY <3>1 DEF TypeOK
    <3>4. QED
      BY <1>1, <2>1, <3>2, <3>3, QueueFacts
  <2>4. ASSUME NEW s \in Streams, DispatchEnd(s)
        PROVE  Tracked'
    <3>1. PICK k \in Ends : queue' = [queue EXCEPT ![s] = Append(@, k)]
      BY <2>4 DEF DispatchEnd
    <3>2. k \in Events /\ k \in Terminals /\ streams' = streams \ {s}
      BY <2>4 DEF Events, Terminals, DispatchEnd
    <3>3. IF r = s THEN queue'[r] = Append(queue[r], k) ELSE queue'[r] = queue[r]
      BY <3>1 DEF TypeOK
    <3>4. QED
      BY <1>1, <2>1, <3>2, <3>3, QueueFacts
  <2>5. CASE UNCHANGED <<streams, ended, queue>>
    BY <1>1, <1>3, <2>1, <2>5
  <2>6. QED
    BY <1>6, <2>2, <2>3, <2>4, <2>5, OtherTable
<1>7. QED
  BY <1>4, <1>5, <1>6 DEF Next, OtherStep

\* Callers and cancellers leave the connection's own state alone; they can only
\* spend the window, and only Starve begins to wait for it.
LEMMA CallFrame ==
    ASSUME TypeOK,
           \/ \E s \in Streams : CallerStep(s)
           \/ \E t \in Tasks : CancelStep(t)
    PROVE  /\ UNCHANGED <<closing, terminal, reader, unheard>>
           /\ window' <= window
           /\ \A r \in Streams : pc'[Caller(r)] = "window" =>
                pc[Caller(r)] = "window" \/ Starve(r)
<1> USE TaskFacts
<1>1. ASSUME NEW s \in Streams, CallerStep(s)
      PROVE  /\ UNCHANGED <<closing, terminal, reader, unheard>>
             /\ window' <= window
             /\ \A r \in Streams : pc'[Caller(r)] = "window" =>
                  pc[Caller(r)] = "window" \/ Starve(r)
  <2>1. UNCHANGED <<closing, terminal, reader, unheard>> /\ window' <= window
    BY <1>1 DEF TypeOK, CallerStep, Open, OpenRefused, OpenFlushed, OpenFails, Send, Starve,
       SendRefused, SendFlushed, AskNext, ReceiveMessage, ReceiveEnd, ReceiveError,
       Interrupt, StartCancel, connVars
  <2>2. CASE Starve(s)
    BY <2>1, <2>2, GoFacts DEF Starve
  <2>3. CASE SendRefused(s) \/ ReceiveError(s) \/ Interrupt(s)
    BY <2>1, <2>3, RaiseFacts DEF SendRefused, ReceiveError, Interrupt
  <2>4. CASE StartCancel(s)
    BY <2>1, <2>4, MoveFacts DEF StartCancel
  <2>5. CASE ~(Starve(s) \/ SendRefused(s) \/ ReceiveError(s) \/ Interrupt(s)
                  \/ StartCancel(s))
    <3>1. \E p \in Places \ {"window"} : Go(s, p)
      BY <1>1, <2>5 DEF CallerStep, Open, OpenRefused, OpenFlushed, OpenFails, Send,
         SendFlushed, AskNext, Reading, ReceiveMessage, ReceiveEnd, Places
    <3>2. QED
      BY <2>1, <3>1, GoFacts
  <2>6. QED
    BY <2>2, <2>3, <2>4, <2>5
<1>2. ASSUME NEW t \in Tasks, CancelStep(t)
      PROVE  /\ UNCHANGED <<closing, terminal, reader, unheard>>
             /\ window' <= window
             /\ \A r \in Streams : pc'[Caller(r)] = "window" => pc[Caller(r)] = "window"
  <2>1. UNCHANGED <<closing, terminal, reader, unheard>> /\ window' <= window
    BY <1>2 DEF TypeOK, CancelStep, CancelFails, Reset, ResetUnknown, ResetFlushed, connVars
  <2>2. QED
    BY <1>2, <2>1, CancelTable, MoveFacts
<1>3. QED
  BY <1>1, <1>2

\* A step of the connection that shuts it down wakes the senders that wait, and
\* so does one that widens the window, unless by SETTINGS alone.
LEMMA OtherWindow ==
    ASSUME TypeOK, OtherStep
    PROVE  \/ pc' = Woken(pc)
           \/ /\ pc' = pc
              /\ \E k \in Nat : window' = window + k /\ unheard' = unheard + k
              /\ UNCHANGED <<closing, terminal>>
              /\ reader' = "done" => closing \/ reader = "done"
<1>1. CASE ReadBatch
  <2> DEFINE R(n) == Cardinality({i \in 1..n : inbound[i] = Settings})
  <2>1. PICK n \in 1..Len(inbound) :
          /\ window' = window + Cardinality({i \in 1..n : inbound[i] = WindowUpdate}) + R(n)
          /\ unheard' = IF {i \in 1..n : inbound[i] = WindowUpdate} = {}
                        THEN unheard + R(n) ELSE 0
          /\ pc' = IF {i \in 1..n : inbound[i] = WindowUpdate} = {} THEN pc ELSE Woken(pc)
    BY <1>1 DEF ReadBatch
  <2>2. CASE {i \in 1..n : inbound[i] = WindowUpdate} = {}
    <3>1. Cardinality({i \in 1..n : inbound[i] = WindowUpdate}) = 0
      BY <2>2, ReadTypes
    <3>2. R(n) \in Nat
      BY ReadTypes
    <3>3. window' = window + R(n) /\ unheard' = unheard + R(n) /\ pc' = pc
      <4> HIDE DEF R
      <4>1. QED
        BY <2>1, <2>2, <3>1, <3>2 DEF TypeOK
    <3>4. UNCHANGED <<closing, terminal>> /\ reader' # "done"
      BY <1>1 DEF ReadBatch
    <3>5. QED
      BY <3>2, <3>3, <3>4
  <2>3. CASE {i \in 1..n : inbound[i] = WindowUpdate} # {}
    BY <2>1, <2>3
  <2>4. QED
    BY <2>2, <2>3
<1>2. CASE ~ReadBatch
  <2>1. \/ pc' = Woken(pc)
        \/ /\ pc' = pc /\ UNCHANGED <<window, unheard>>
           /\ UNCHANGED <<closing, terminal>>
           /\ reader' = "done" => closing \/ reader = "done"
    BY <1>2 DEF OtherStep, ReaderStep, ReaderFlushed, ReaderFails, DispatchStep,
     DispatchGoAway, DispatchIgnored, Dispatched, DispatchMessage, DispatchEnd, CloseStep,
     Close, CloseLocked, CloseFlushed, CloseJoined, PeerStep, PeerMessage, PeerEnd,
     PeerGrants, PeerSettings, PeerGoesAway, LinkBreaks, AllDone, vars, connVars, FailAll
  <2>2. window + 0 = window /\ unheard + 0 = unheard
    BY DEF TypeOK
  <2>3. QED
    BY <2>1, <2>2
<1>3. QED
  BY <1>1, <1>2

\* A sender begins to wait in the step in which it sees the window closed.
LEMMA BlockedStep ==
    ASSUME TypeOK, OnlySettingsAreSleptThrough, TypeOK', [Next]_vars
    PROVE  OnlySettingsAreSleptThrough'
<1> USE TaskFacts DEF At
<1> SUFFICES ASSUME NEW r \in Streams, pc'[Caller(r)] = "window"
             PROVE  window' <= unheard' /\ Require'
  BY DEF OnlySettingsAreSleptThrough
<1>1. pc[Caller(r)] = "window" => window <= unheard /\ Require
  BY DEF OnlySettingsAreSleptThrough
<1>2. CASE \/ \E s \in Streams : CallerStep(s)
           \/ \E t \in Tasks : CancelStep(t)
  <2>1. window <= unheard /\ Require
    <3>1. Starve(r) => window <= unheard /\ Require
      BY DEF Starve, MaySend, TypeOK
    <3>2. pc[Caller(r)] = "window" \/ Starve(r)
      BY <1>2, CallFrame
    <3>3. QED
      BY <1>1, <3>1, <3>2
  <2>2. UNCHANGED <<closing, terminal, reader, unheard>> /\ window' <= window
    BY <1>2, CallFrame
  <2>3. window' \in Nat /\ window \in Nat /\ unheard \in Nat
    BY DEF TypeOK
  <2>4. window' <= unheard'
    BY <2>1, <2>2, <2>3
  <2>5. Require'
    BY <2>1, <2>2 DEF Require
  <2>6. QED
    BY <2>4, <2>5
<1>3. CASE OtherStep
  <2>1. pc' # Woken(pc)
    BY WokenFacts
  <2>2. /\ pc[Caller(r)] = "window" /\ window <= unheard /\ Require
        /\ UNCHANGED <<closing, terminal>>
        /\ reader' = "done" => closing \/ reader = "done"
    BY <1>1, <1>3, <2>1, OtherWindow
  <2>3. PICK k \in Nat : window' = window + k /\ unheard' = unheard + k
    BY <1>3, <2>1, OtherWindow
  <2>4. QED
    BY <2>2, <2>3 DEF Require, TypeOK
<1>4. QED
  BY <1>2, <1>3 DEF Next, OtherStep

\* Only _fail_all queues the connection's error.
LEMMA FailureStep ==
    ASSUME TypeOK, FailureIsLocal, [Next]_vars
    PROVE  FailureIsLocal'
<1> DEFINE Lost(q) == \E i \in 1..Len(q) : q[i] = "lost"
<1>1. \A r \in Streams : Lost(queue[r]) => closing \/ terminal
  BY DEF FailureIsLocal
<1> SUFFICES ASSUME NEW r \in Streams, Lost(queue'[r])
             PROVE  closing' \/ terminal'
  BY DEF FailureIsLocal
<1>2. queue[r] \in Seq(Events)
  BY DEF TypeOK
<1>3. queue'[r] = queue[r] => Lost(queue[r])
  OBVIOUS
<1>4. queue[r] # <<>> /\ queue'[r] = Tail(queue[r]) => Lost(queue[r])
  BY <1>2, HeadTailProperties
<1>5. \A k \in Messages \cup Ends : queue'[r] = Append(queue[r], k) => Lost(queue[r])
  <2>1. SUFFICES ASSUME NEW k \in Messages \cup Ends, queue'[r] = Append(queue[r], k)
                 PROVE  Lost(queue[r])
    OBVIOUS
  <2>2. k \in Events /\ k # "lost"
    BY DEF Events, Terminals, Messages, Ends
  <2>3. /\ Len(queue[r]) \in Nat
        /\ Len(queue'[r]) = Len(queue[r]) + 1
        /\ \A i \in 1..Len(queue[r]) : queue'[r][i] = queue[r][i]
        /\ queue'[r][Len(queue[r]) + 1] = k
    BY <1>2, <2>1, <2>2, AppendProperties, LenProperties
  <2>4. PICK i \in 1..Len(queue'[r]) : queue'[r][i] = "lost"
    OBVIOUS
  <2>5. i \in 1..Len(queue[r])
    BY <2>2, <2>3, <2>4
  <2>6. QED
    BY <2>3, <2>4, <2>5
<1> HIDE DEF Lost
<1>6. ASSUME NEW s \in Streams, CallerStep(s)
      PROVE  closing' \/ terminal'
  <2>1. CASE \E K \in {{"data"}, {"ok", "bad"}, {"reset", "lost", "junk"}} : Took(s, K)
    <3>1. queue'[r] = queue[r] \/ (queue[r] # <<>> /\ queue'[r] = Tail(queue[r]))
      BY <2>1 DEF Took, TypeOK
    <3>2. QED
      BY <1>1, <1>3, <1>4, <1>6, <3>1, CallerTable
  <2>2. CASE UNCHANGED queue
    BY <1>1, <1>3, <1>6, <2>2, CallerTable
  <2>3. QED
    BY <1>6, <2>1, <2>2 DEF CallerStep, Open, OpenRefused, OpenFlushed, OpenFails, Send,
       Starve, SendRefused, SendFlushed, AskNext, ReceiveMessage, ReceiveEnd, ReceiveError,
       Interrupt, StartCancel, tableVars
<1>7. ASSUME NEW t \in Tasks, CancelStep(t)
      PROVE  closing' \/ terminal'
  BY <1>1, <1>3, <1>7, CancelTable
<1>8. ASSUME OtherStep
      PROVE  closing' \/ terminal'
  <2>1. ASSUME NEW s \in Streams, DispatchMessage(s) \/ DispatchEnd(s)
        PROVE  closing' \/ terminal'
    <3>1. PICK k \in Messages \cup Ends : queue' = [queue EXCEPT ![s] = Append(@, k)]
      BY <2>1 DEF DispatchMessage, DispatchEnd
    <3>2. queue'[r] = queue[r] \/ queue'[r] = Append(queue[r], k)
      BY <3>1 DEF TypeOK
    <3>3. UNCHANGED <<closing, terminal>>
      BY <2>1 DEF DispatchMessage, DispatchEnd
    <3>4. QED
      BY <1>1, <1>3, <1>5, <3>2, <3>3
  <2>2. QED
    BY <1>1, <1>3, <1>8, <2>1, OtherTable
<1>9. QED
  BY <1>6, <1>7, <1>8 DEF Next, OtherStep
------------------------------------------------------------------------------
(* The theorems.                                                            *)

\* The invariant holds when connect() returns: nothing is registered, nothing
\* queued, nobody waits.
LEMMA IInvInit == Init => IInv
<1> SUFFICES ASSUME Init
             PROVE  IInv
  OBVIOUS
<1>1. TypeOK
  BY TypeInit
<1>2. \A t \in Tasks : pc[t] = "idle"
  BY DEF Init
<1>3. \A s \in Streams : todo[s] > 0
  BY SizesAssumption DEF Init
<1>4. \A s \in Streams : queue[s] = <<>> /\ ~ended[s]
  BY DEF Init
<1>5. FailureIsLocal
  BY <1>4, EmptySeq DEF FailureIsLocal
<1>6. /\ SenderHasData /\ RegisteredIsLive /\ StreamIsTracked
      /\ OnlySettingsAreSleptThrough
  BY <1>2, <1>3, <1>4, TaskFacts DEF SenderHasData, RegisteredIsLive, StreamIsTracked,
     OnlySettingsAreSleptThrough, At, Init
<1>7. ShutdownClearsStreams /\ ResetIsCancelled
  BY <1>2 DEF ShutdownClearsStreams, ResetIsCancelled, Init
<1>8. QED
  BY <1>1, <1>5, <1>6, <1>7 DEF IInv

\* Every step of every task preserves the invariant.
LEMMA IInvStep == IInv /\ [Next]_vars => IInv'
<1> SUFFICES ASSUME IInv, [Next]_vars
             PROVE  IInv'
  OBVIOUS
<1>1. TypeOK'
  BY TypeStep DEF IInv
<1>2. SenderHasData'
  BY <1>1, SenderHasDataStep DEF IInv
<1>3. ShutdownClearsStreams'
  BY ShutdownStep DEF IInv
<1>4. RegisteredIsLive'
  BY RegisteredStep DEF IInv
<1>5. StreamIsTracked'
  BY TrackedStep DEF IInv
<1>6. ResetIsCancelled'
  BY ResetIsCancelledStep DEF IInv
<1>7. OnlySettingsAreSleptThrough'
  BY <1>1, BlockedStep DEF IInv
<1>8. FailureIsLocal'
  BY FailureStep DEF IInv
<1>9. QED
  BY <1>1, <1>2, <1>3, <1>4, <1>5, <1>6, <1>7, <1>8 DEF IInv

\* The conjunction of everything below is an invariant of the transport.
THEOREM Invariance == Spec => []IInv
BY IInvInit, IInvStep, PTL DEF Spec

\* Every variable keeps its type.
THEOREM TypeCorrect == Spec => []TypeOK
<1>1. IInv => TypeOK
  BY DEF IInv
<1>2. QED
  BY <1>1, Invariance, PTL

\* Once close() was called or the connection failed, the table of streams is
\* empty and stays empty, whoever was opening, cancelling or delivering.
THEOREM ShutdownIsFinal == Spec => []ShutdownClearsStreams
<1>1. IInv => ShutdownClearsStreams
  BY DEF IInv
<1>2. QED
  BY <1>1, Invariance, PTL

\* A caller in queue.get() has a registered stream or a queued end, unless its
\* own side cancelled the stream.
THEOREM NoOrphanedReader == Spec => []ReaderNotOrphaned
<1>1. IInv => ReaderNotOrphaned
  BY DEF IInv, StreamIsTracked, ReaderNotOrphaned, At
<1>2. QED
  BY <1>1, Invariance, PTL

\* No sender waits on a connection that is down, or sleeps through a
\* WINDOW_UPDATE: whatever window it has missed came with SETTINGS.
THEOREM NoUpdateIsSleptThrough == Spec => []OnlySettingsAreSleptThrough
<1>1. IInv => OnlySettingsAreSleptThrough
  BY DEF IInv
<1>2. QED
  BY <1>1, Invariance, PTL

\* A reset of one stream never fails another.
THEOREM ResetIsStreamLocal == Spec => []FailureIsLocal
<1>1. IInv => FailureIsLocal
  BY DEF IInv
<1>2. QED
  BY <1>1, Invariance, PTL

\* No task begins to write on a connection that is closing or has failed.
THEOREM NothingIsSentAfterShutdown == Spec => QuietAfterShutdown
<1>1. ASSUME IInv, [Next]_vars
      PROVE  [closing \/ terminal =>
                \A t \in Tasks : pc'[t] \in Flushing => pc[t] = pc'[t]]_vars
  <2> USE TaskFacts
  <2> SUFFICES ASSUME closing \/ terminal, NEW u \in Tasks, pc'[u] \in Flushing
               PROVE  pc[u] = pc'[u]
    OBVIOUS
  <2>1. TypeOK /\ streams = {} /\ ~Require
    BY <1>1 DEF IInv, ShutdownClearsStreams, Require
  <2>2. ASSUME NEW s \in Streams, CallerStep(s)
        PROVE  pc[u] = pc'[u]
    <3>1. CASE SendRefused(s) \/ ReceiveError(s) \/ Interrupt(s)
      BY <2>1, <3>1, RaiseFacts DEF SendRefused, ReceiveError, Interrupt, Flushing
    <3>2. CASE StartCancel(s)
      BY <2>1, <3>2, MoveFacts DEF StartCancel, Flushing
    <3>3. CASE ~(SendRefused(s) \/ ReceiveError(s) \/ Interrupt(s) \/ StartCancel(s))
      <4>1. \E p \in Places \ Flushing : Go(s, p)
        BY <2>1, <2>2, <3>3 DEF CallerStep, Open, OpenRefused, OpenFlushed, OpenFails, Send,
           MaySend, Starve, SendFlushed, AskNext, Reading, ReceiveMessage, ReceiveEnd,
           Places, Flushing
      <4>2. QED
        BY <2>1, <4>1, GoFacts
    <3>4. QED
      BY <3>1, <3>2, <3>3
  <2>3. ASSUME NEW t \in Tasks, CancelStep(t)
        PROVE  pc[u] = pc'[u]
    <3>1. Move(t, "done")
      BY <2>1, <2>3 DEF CancelStep, CancelFails, Reset, ResetUnknown, ResetFlushed
    <3>2. QED
      BY <2>1, <3>1, MoveFacts DEF Flushing
  <2>4. ASSUME OtherStep
        PROVE  pc[u] = pc'[u]
    BY <2>1, <2>4, OtherFrame, WokenFacts DEF Flushing
  <2>5. QED
    BY <1>1, <2>2, <2>3, <2>4 DEF Next, OtherStep
<1>2. QED
  BY <1>1, Invariance, PTL DEF Spec, QuietAfterShutdown
------------------------------------------------------------------------------
(* What becomes of a call, from its opening to its last message.            *)

FramesOf(s) == (Messages \cup Ends) \X {s}
MessagesOf(s) == Messages \X {s}

\* Frames the robot has sent and the reader has not dispatched.
Flight == batch \o inbound
NoneOf(s, q) == \A i \in 1..Len(q) : q[i] \notin FramesOf(s)
Count(S, q) == Cardinality({i \in 1..Len(q) : q[i] \in S})

\* The reader takes a batch only when it has dispatched the last one.
BatchIsTaken == reader \in {"read", "done"} => batch = <<>>

\* A call that has not begun has left no trace.
NothingBefore ==
    \A s \in Streams : At(s, "idle") =>
        /\ queue[s] = <<>> /\ ~rcvdEnd[s] /\ ~cancelled[s] /\ outcome[s] = "none"
        /\ got[s] = 0 /\ served[s] = 0 /\ peer[s] = "none" /\ NoneOf(s, Flight)

\* A stream that has heard its end, or been reset from here, is not registered.
EndIsOut ==
    /\ \A s \in Streams : EndIsQueued(s) \/ rcvdEnd[s] => s \notin streams
    /\ \A t \in Tasks : pc[t] = "resetFlush" => t[2] \notin streams /\ cancelled[t[2]]

\* A stream that is cancelled and registered has somebody who is to reset it,
\* or was; and a call that is over has cancelled its stream if it is registered.
CancelIsFollowed ==
    \A s \in streams :
        /\ At(s, "done") => cancelled[s]
        /\ cancelled[s] => s \in abandoned \/ \E t \in Tasks : t[2] = s /\ pc[t] = "reset"

\* Of a stream, the end is the last there is.
InOrder(s, q, last) ==
    \A i \in 1..Len(q) : q[i] \in Ends \X {s} =>
        /\ q[i] = <<last, s>>
        /\ \A j \in i + 1..Len(q) : q[j] \notin FramesOf(s)

\* It is so of what is in flight, where the end is the one the robot sent ...
FlightIsInOrder == \A s \in Streams : InOrder(s, Flight, peer[s])

\* ... and in the queue.
QueueIsInOrder ==
    \A s \in Streams : \A i \in 1..Len(queue[s]) :
        /\ queue[s][i] \in Terminals => i = Len(queue[s])
        /\ queue[s][i] \in Ends => peer[s] = queue[s][i] /\ NoneOf(s, Flight)

\* A caller reads when its request, or its acknowledgement, is sent.
RequestIsSent ==
    \A s \in Streams : pc[Caller(s)] \in {"next", "get"} => todo[s] = 0

Live == {"openFlush", "send", "sendFlush", "window", "next", "get"}
IsLost(s) == \E i \in 1..Len(queue[s]) : queue[s][i] = "lost"

Queued(s) == Count(Messages, queue[s])
Flying(s) == Count(MessagesOf(s), Flight)

\* No message is lost: while a call goes on that nothing has cut short, what the
\* robot has served is handed over, queued, or in flight.
Accounted ==
    \A s \in Streams : pc[Caller(s)] \in Live /\ ~cancelled[s] /\ ~IsLost(s) =>
        got[s] + Queued(s) + Flying(s) = served[s]

\* A call that has succeeded is over.
SuccessIsOver == \A s \in Streams : outcome[s] = "ok" => At(s, "done")

LifeIInv ==
    /\ IInv /\ BatchIsTaken /\ NothingBefore /\ EndIsOut /\ CancelIsFollowed
    /\ FlightIsInOrder /\ QueueIsInOrder /\ RequestIsSent /\ Accounted
    /\ SuccessIsOver /\ SuccessIsComplete
------------------------------------------------------------------------------
(* Queues and the frames in flight, as sequences that are put to and taken   *)
(* from.                                                                     *)

\* Counting gives a number, and nothing is counted where there is nothing.
LEMMA CountType ==
    ASSUME NEW S, NEW T, NEW q \in Seq(S)
    PROVE  /\ IsFiniteSet({i \in 1..Len(q) : q[i] \in T}) /\ Count(T, q) \in Nat
           /\ (\A i \in 1..Len(q) : q[i] \notin T) => Count(T, q) = 0
<1> DEFINE I == {i \in 1..Len(q) : q[i] \in T}
<1>1. IsFiniteSet(1..Len(q)) BY LenProperties, FS_Interval
<1>2. IsFiniteSet(I) BY <1>1, FS_Subset
<1>3. Cardinality(I) \in Nat BY <1>2, FS_CardinalityType
<1>4. I = {} => Cardinality(I) = 0 BY FS_EmptySet
<1>5. QED BY <1>2, <1>3, <1>4 DEF Count

\* One more at the end.
LEMMA PutFacts ==
    ASSUME NEW S, NEW q \in Seq(S), NEW x \in S
    PROVE  LET r == Append(q, x) IN
           /\ r \in Seq(S) /\ Len(q) \in Nat /\ Len(r) = Len(q) + 1 /\ r[Len(q) + 1] = x
           /\ \A i \in 1..Len(q) : r[i] = q[i]
           /\ \A T : Count(T, r) = Count(T, q) + (IF x \in T THEN 1 ELSE 0)
<1> DEFINE r == Append(q, x)
<1>1. /\ r \in Seq(S) /\ Len(r) = Len(q) + 1 /\ r[Len(q) + 1] = x
      /\ Len(q) \in Nat /\ \A i \in 1..Len(q) : r[i] = q[i]
  BY AppendProperties, LenProperties
<1> HIDE DEF r
<1>2. ASSUME NEW T
      PROVE  Count(T, r) = Count(T, q) + (IF x \in T THEN 1 ELSE 0)
  <2> DEFINE I == {i \in 1..Len(q) : q[i] \in T}
             J == {i \in 1..Len(r) : r[i] \in T}
  <2>1. IsFiniteSet(I) /\ Cardinality(I) \in Nat /\ Len(q) + 1 \notin I
    <3>1. IsFiniteSet(I)
      BY CountType
    <3>2. Len(q) + 1 \notin I
      BY <1>1
    <3>3. QED
      BY <3>1, <3>2, FS_CardinalityType
  <2>2. CASE x \in T
    <3>1. J = I \cup {Len(q) + 1}
      BY <1>1, <2>2
    <3>2. Cardinality(J) = Cardinality(I) + 1
      BY <2>1, <3>1, FS_AddElement
    <3>3. QED
      BY <2>2, <3>2 DEF Count
  <2>3. CASE x \notin T
    <3>1. J = I
      BY <1>1, <2>3
    <3>2. Count(T, r) = Count(T, q) /\ Count(T, q) \in Nat
      BY <3>1, CountType DEF Count
    <3>3. QED
      BY <2>3, <3>2
  <2>4. QED
    BY <2>2, <2>3
<1>3. QED
  BY <1>1, <1>2 DEF r

\* One less at the beginning.
LEMMA TakeFacts ==
    ASSUME NEW S, NEW q \in Seq(S), q # <<>>
    PROVE  LET r == Tail(q) IN
           /\ r \in Seq(S) /\ Len(q) \in Nat \ {0} /\ Len(r) = Len(q) - 1
           /\ Head(q) = q[1] /\ \A i \in 1..Len(r) : r[i] = q[i + 1]
           /\ \A T : Count(T, q) = Count(T, r) + (IF Head(q) \in T THEN 1 ELSE 0)
<1> DEFINE r == Tail(q)
<1>1. /\ r \in Seq(S) /\ Len(q) \in Nat \ {0} /\ Len(r) = Len(q) - 1
      /\ Head(q) = q[1] /\ \A i \in 1..Len(r) : r[i] = q[i + 1]
  BY HeadTailProperties, EmptySeq
<1> HIDE DEF r
<1>2. ASSUME NEW T
      PROVE  Count(T, q) = Count(T, r) + (IF Head(q) \in T THEN 1 ELSE 0)
  <2> DEFINE I == {i \in 1..Len(r) : r[i] \in T}
             J == {i \in 1..Len(q) : q[i] \in T}
             K == J \ {1}
             f == [i \in I |-> i + 1]
  <2>1. IsFiniteSet(I) /\ IsFiniteSet(J)
    BY <1>1, CountType
  <2>2. f \in Bijection(I, K)
    <3>1. \A i \in I : i + 1 \in K
      BY <1>1
    <3>2. \A k \in K : k - 1 \in I /\ k = (k - 1) + 1
      BY <1>1
    <3>3. \A i, j \in I : i + 1 = j + 1 => i = j
      OBVIOUS
    <3>4. f \in [I -> K] /\ \A i \in I : f[i] = i + 1
      BY <3>1
    <3> HIDE DEF I, K, f
    <3>5. \A i, j \in I : f[i] = f[j] => i = j
      BY <3>3, <3>4
    <3>6. f \in Injection(I, K)
      BY <3>4, <3>5 DEF Injection, IsInjective
    <3>7. \A k \in K : \E i \in I : f[i] = k
      BY <3>2, <3>4
    <3>8. f \in Surjection(I, K)
      BY <3>4, <3>7 DEF Surjection
    <3>9. QED
      BY <3>6, <3>8 DEF Bijection
  <2>3. Cardinality(K) = Cardinality(I)
    BY <2>1, <2>2, FS_Bijection DEF ExistsBijection
  <2>4. Cardinality(K) = IF 1 \in J THEN Cardinality(J) - 1 ELSE Cardinality(J)
    BY <2>1, FS_RemoveElement
  <2>5. 1 \in J <=> Head(q) \in T
    BY <1>1
  <2>6. Cardinality(J) \in Nat
    BY <2>1, FS_CardinalityType
  <2>7. QED
    BY <2>3, <2>4, <2>5, <2>6 DEF Count
<1>3. QED
  BY <1>1, <1>2 DEF r

\* The frames in flight are those of the batch, then those still to be read.
LEMMA FlightType ==
    ASSUME TypeOK
    PROVE  /\ Flight \in Seq(Frames) /\ Len(Flight) \in Nat
           /\ batch = <<>> => Flight = inbound
BY ConcatProperties, ConcatEmptySeq, LenProperties DEF TypeOK, Flight

\* Dispatching takes the first of them.
LEMMA FlightDispatch ==
    ASSUME TypeOK, NEW f, Dispatching(f), inbound' = inbound
    PROVE  Flight # <<>> /\ Head(Flight) = f /\ Flight' = Tail(Flight)
<1> DEFINE q == batch \o inbound
           r == Tail(batch) \o inbound
<1>1. /\ batch \in Seq(Frames) /\ batch # <<>> /\ inbound \in Seq(Frames)
      /\ Head(batch) = f /\ batch' = Tail(batch)
  BY DEF TypeOK, Dispatching
<1>2. /\ Tail(batch) \in Seq(Frames) /\ Len(batch) \in Nat \ {0}
      /\ Len(Tail(batch)) = Len(batch) - 1 /\ batch[1] = f
      /\ \A i \in 1..Len(batch) - 1 : Tail(batch)[i] = batch[i + 1]
  BY <1>1, TakeFacts
<1>3. Len(inbound) \in Nat
  BY <1>1, LenProperties
<1>4. /\ q \in Seq(Frames) /\ Len(q) = Len(batch) + Len(inbound)
      /\ \A i \in 1..Len(q) : q[i] = IF i <= Len(batch) THEN batch[i]
                                     ELSE inbound[i - Len(batch)]
  BY <1>1, ConcatProperties
<1>5. /\ r \in Seq(Frames) /\ Len(r) = Len(batch) - 1 + Len(inbound)
      /\ \A i \in 1..Len(r) : r[i] = IF i <= Len(batch) - 1 THEN Tail(batch)[i]
                                     ELSE inbound[i - (Len(batch) - 1)]
  BY <1>1, <1>2, ConcatProperties
<1> HIDE DEF q, r
<1>6. Len(q) # 0 /\ q # <<>>
  BY <1>2, <1>3, <1>4, EmptySeq
<1>7. /\ Tail(q) \in Seq(Frames) /\ Len(Tail(q)) = Len(q) - 1 /\ Head(q) = q[1]
      /\ \A i \in 1..Len(q) - 1 : Tail(q)[i] = q[i + 1]
  BY <1>4, <1>6, TakeFacts
<1>8. \A i \in 1..Len(r) : r[i] = q[i + 1]
  BY <1>2, <1>3, <1>4, <1>5
<1>9. \A i \in 1..Len(r) : r[i] = Tail(q)[i]
  BY <1>2, <1>3, <1>4, <1>5, <1>7, <1>8
<1>10. Len(r) = Len(Tail(q))
  BY <1>2, <1>3, <1>4, <1>5, <1>7
<1>11. r = Tail(q)
  BY <1>5, <1>7, <1>9, <1>10, SeqEqual
<1>12. q[1] = f
  BY <1>2, <1>3, <1>4
<1>13. QED
  BY <1>1, <1>6, <1>7, <1>11, <1>12 DEF Flight, q, r

\* What arrives is the last of them.
LEMMA FlightArrives ==
    ASSUME TypeOK, NEW f \in Frames, Arrives(f), batch' = batch
    PROVE  Flight' = Append(Flight, f)
<1>1. batch \in Seq(Frames) /\ inbound \in Seq(Frames) /\ <<f>> \in Seq(Frames)
  BY DEF TypeOK
<1>2. Append(inbound, f) = inbound \o <<f>>
  BY <1>1, AppendIsConcat
<1>3. Append(batch \o inbound, f) = (batch \o inbound) \o <<f>>
  BY <1>1, ConcatProperties, AppendIsConcat
<1>4. QED
  BY <1>1, <1>2, <1>3, ConcatAssociative DEF Arrives, Flight

\* Reading moves some of them from the socket to the batch.
LEMMA FlightRead ==
    ASSUME TypeOK, BatchIsTaken, ReadBatch
    PROVE  Flight' = Flight
<1>1. PICK n \in 1..Len(inbound) :
        /\ batch' = SubSeq(inbound, 1, n)
        /\ inbound' = SubSeq(inbound, n + 1, Len(inbound))
  BY DEF ReadBatch
<1>2. inbound \in Seq(Frames) /\ Len(inbound) \in Nat
  BY LenProperties DEF TypeOK
<1>3. batch = <<>>
  BY DEF ReadBatch, BatchIsTaken
<1>4. SubSeq(inbound, 1, n) \o SubSeq(inbound, n + 1, Len(inbound))
        = SubSeq(inbound, 1, Len(inbound))
  BY <1>2, ConcatAdjacentSubSeq
<1>5. SubSeq(inbound, 1, Len(inbound)) = inbound
  BY <1>2, SubSeqFull
<1>6. QED
  BY <1>1, <1>3, <1>4, <1>5, FlightType DEF Flight

\* The end of a sequence.
Suffix(q, p) ==
    \E m \in Nat : Len(q) = Len(p) - m /\ \A i \in 1..Len(q) : q[i] = p[i + m]

\* When the batch is dropped, what is left was there before.
LEMMA FlightDropped ==
    ASSUME TypeOK, batch' = <<>> \/ batch' = batch, inbound' = inbound
    PROVE  Suffix(Flight', Flight)
<1>1. batch \in Seq(Frames) /\ inbound \in Seq(Frames)
  BY DEF TypeOK
<1>2. Len(batch) \in Nat /\ Len(inbound) \in Nat /\ Len(Flight) \in Nat
  BY <1>1, LenProperties, FlightType
<1>3. CASE batch' = batch
  <2>1. Flight' = Flight
    BY <1>3 DEF Flight
  <2>2. Len(Flight') = Len(Flight) - 0 /\ \A i \in 1..Len(Flight') : Flight'[i] = Flight[i + 0]
    BY <1>2, <2>1
  <2>3. QED
    BY <2>2 DEF Suffix
<1>4. CASE batch' = <<>>
  <2>1. Flight' = inbound
    BY <1>1, <1>4, ConcatEmptySeq DEF Flight
  <2>2. /\ Len(Flight) = Len(batch) + Len(inbound)
        /\ \A i \in 1..Len(Flight) : Flight[i] = IF i <= Len(batch) THEN batch[i]
                                                 ELSE inbound[i - Len(batch)]
    BY <1>1, ConcatProperties DEF Flight
  <2>3. \A i \in 1..Len(inbound) : inbound[i] = Flight[i + Len(batch)]
    BY <1>2, <2>2
  <2>4. QED
    BY <1>2, <2>1, <2>2, <2>3 DEF Suffix
<1>5. QED
  BY <1>3, <1>4

\* The tail is one.
LEMMA TailIsSuffix ==
    ASSUME NEW S, NEW q \in Seq(S), q # <<>>
    PROVE  Suffix(Tail(q), q)
BY TakeFacts DEF Suffix

\* What is in order stays so when it loses its beginning ...
LEMMA SuffixKeeps ==
    ASSUME NEW S, NEW p \in Seq(S), NEW q \in Seq(S), Suffix(q, p), NEW s, NEW last
    PROVE  /\ NoneOf(s, p) => NoneOf(s, q)
           /\ InOrder(s, p, last) => InOrder(s, q, last)
<1>1. Len(p) \in Nat /\ Len(q) \in Nat
  BY LenProperties
<1>2. PICK m \in Nat : Len(q) = Len(p) - m /\ \A i \in 1..Len(q) : q[i] = p[i + m]
  BY DEF Suffix
<1>3. \A i \in 1..Len(q) : i + m \in 1..Len(p)
  BY <1>1, <1>2
<1>4. NoneOf(s, p) => NoneOf(s, q)
  BY <1>2, <1>3 DEF NoneOf
<1>5. ASSUME InOrder(s, p, last)
      PROVE  InOrder(s, q, last)
  <2>1. SUFFICES ASSUME NEW i \in 1..Len(q), q[i] \in Ends \X {s}
                 PROVE  /\ q[i] = <<last, s>>
                        /\ \A j \in i + 1..Len(q) : q[j] \notin FramesOf(s)
    BY DEF InOrder
  <2>2. i + m \in 1..Len(p) /\ p[i + m] \in Ends \X {s} /\ q[i] = p[i + m]
    BY <1>2, <1>3, <2>1
  <2>3. /\ p[i + m] = <<last, s>>
        /\ \A j \in i + m + 1..Len(p) : p[j] \notin FramesOf(s)
    BY <1>5, <2>2 DEF InOrder
  <2>4. \A j \in i + 1..Len(q) : j \in 1..Len(q) /\ j + m \in i + m + 1..Len(p)
    BY <1>1, <1>2
  <2>5. QED
    BY <1>2, <2>2, <2>3, <2>4
<1>6. QED
  BY <1>4, <1>5

\* ... or when something else is put to its end.
LEMMA PutKeeps ==
    ASSUME NEW S, NEW q \in Seq(S), NEW f \in S, NEW s, NEW last, f \notin FramesOf(s)
    PROVE  /\ NoneOf(s, q) => NoneOf(s, Append(q, f))
           /\ InOrder(s, q, last) => InOrder(s, Append(q, f), last)
<1> DEFINE r == Append(q, f)
<1>1. /\ Len(q) \in Nat /\ Len(r) = Len(q) + 1 /\ r[Len(q) + 1] = f
      /\ \A i \in 1..Len(q) : r[i] = q[i]
  BY PutFacts
<1> HIDE DEF r
<1>2. NoneOf(s, q) => NoneOf(s, r)
  BY <1>1 DEF NoneOf
<1>3. \A i \in 1..Len(r) : i \in 1..Len(q) \/ (i = Len(q) + 1 /\ r[i] = f)
  BY <1>1
<1>4. f \notin Ends \X {s}
  BY DEF FramesOf
<1>5. InOrder(s, q, last) => InOrder(s, r, last)
  <2>1. SUFFICES ASSUME InOrder(s, q, last), NEW i \in 1..Len(r), r[i] \in Ends \X {s}
                 PROVE  /\ r[i] = <<last, s>>
                        /\ \A j \in i + 1..Len(r) : r[j] \notin FramesOf(s)
    BY DEF InOrder
  <2>2. i \in 1..Len(q) /\ r[i] = q[i]
    BY <1>1, <1>3, <1>4, <2>1
  <2>3. r[i] = <<last, s>> /\ \A j \in i + 1..Len(q) : q[j] \notin FramesOf(s)
    BY <2>1, <2>2 DEF InOrder
  <2>4. ASSUME NEW j \in i + 1..Len(r)
        PROVE  r[j] \notin FramesOf(s)
    <3>1. (j \in i + 1..Len(q) /\ j \in 1..Len(q)) \/ j = Len(q) + 1
      BY <1>1, <2>2
    <3>2. QED
      BY <1>1, <2>3, <3>1
  <2>5. QED
    BY <2>3, <2>4
<1>6. QED
  BY <1>2, <1>5 DEF r
------------------------------------------------------------------------------
(* What a step does, and to whom.                                            *)

\* A step is a caller's, a step of cancel(), or one of the connection.
LEMMA Steps ==
    ASSUME [Next]_vars
    PROVE  \/ \E s \in Streams : CallerStep(s)
           \/ \E t \in Tasks : CancelStep(t)
           \/ OtherStep
BY DEF Next, OtherStep

\* A caller's step: nothing of another stream changes, nothing arrives.
LEMMA CallerFrame ==
    ASSUME TypeOK, NEW s \in Streams, CallerStep(s)
    PROVE  /\ UNCHANGED <<Flight, served, reader, batch, abandoned>>
           /\ peer' = peer \/ Open(s)
           /\ \A r \in Streams \ {s} :
                /\ queue'[r] = queue[r] /\ rcvdEnd'[r] = rcvdEnd[r]
                /\ cancelled'[r] = cancelled[r] /\ outcome'[r] = outcome[r]
                /\ got'[r] = got[r] /\ todo'[r] = todo[r] /\ peer'[r] = peer[r]
                /\ r \in streams' <=> r \in streams
                /\ pc'[Caller(r)] = pc[Caller(r)]
<1> USE TaskFacts
<1>1. UNCHANGED <<Flight, served, reader, batch, abandoned>> /\ (peer' = peer \/ Open(s))
  BY DEF CallerStep, Open, OpenRefused, OpenFlushed, OpenFails, Send, Starve,
     SendRefused, SendFlushed, AskNext, ReceiveMessage, ReceiveEnd, ReceiveError,
     Interrupt, StartCancel, connVars, tableVars, callVars, peerVars, Flight
<1>2. ASSUME NEW r \in Streams \ {s}
      PROVE  /\ queue'[r] = queue[r] /\ rcvdEnd'[r] = rcvdEnd[r] /\ peer'[r] = peer[r]
             /\ got'[r] = got[r] /\ todo'[r] = todo[r]
             /\ r \in streams' <=> r \in streams
  BY DEF TypeOK, CallerStep, Open, OpenRefused, OpenFlushed, OpenFails, Send, Starve,
     SendRefused, SendFlushed, AskNext, ReceiveMessage, ReceiveEnd, ReceiveError, Took,
     Interrupt, StartCancel, connVars, tableVars, callVars, peerVars
<1>3. ASSUME NEW r \in Streams \ {s}
      PROVE  /\ cancelled'[r] = cancelled[r] /\ outcome'[r] = outcome[r]
             /\ pc'[Caller(r)] = pc[Caller(r)]
  <2>1. CASE SendRefused(s) \/ ReceiveError(s) \/ Interrupt(s)
    <3>1. Raise(s)
      BY <2>1 DEF SendRefused, ReceiveError, Interrupt
    <3>2. cancelled'[r] = cancelled[r] /\ outcome'[r] = outcome[r]
      BY <3>1 DEF Raise, TypeOK
    <3>3. QED
      BY <3>1, <3>2, RaiseFacts
  <2>2. CASE StartCancel(s)
    <3>1. cancelled'[r] = cancelled[r] /\ outcome'[r] = outcome[r]
      BY <2>2 DEF StartCancel, TypeOK
    <3>2. QED
      BY <2>2, <3>1, MoveFacts DEF StartCancel
  <2>3. CASE ~(SendRefused(s) \/ ReceiveError(s) \/ Interrupt(s) \/ StartCancel(s))
    <3>1. \E p \in Places : Go(s, p)
      BY <2>3 DEF CallerStep, Open, OpenRefused, OpenFlushed, OpenFails, Send, Starve,
         SendFlushed, AskNext, Reading, ReceiveMessage, ReceiveEnd, Places
    <3>2. cancelled'[r] = cancelled[r] /\ outcome'[r] = outcome[r]
      BY <2>3 DEF TypeOK, CallerStep, Open, OpenRefused, OpenFlushed, OpenFails, Send,
         Starve, SendFlushed, AskNext, ReceiveMessage, ReceiveEnd, callVars
    <3>3. QED
      BY <3>1, <3>2, GoFacts
  <2>4. QED
    BY <2>1, <2>2, <2>3
<1>4. QED
  BY <1>1, <1>2, <1>3

\* A step of cancel() leaves the calls, and all that is in flight, alone.
LEMMA CancelFrame ==
    ASSUME TypeOK, NEW t \in Tasks, CancelStep(t)
    PROVE  /\ UNCHANGED <<Flight, served, peer, reader, batch, queue, cancelled, outcome,
                          got, todo>>
           /\ streams' \subseteq streams
           /\ \A r \in Streams : r # t[2] => rcvdEnd'[r] = rcvdEnd[r]
           /\ \A u \in Tasks : u # t => pc'[u] = pc[u]
           /\ pc'[t] \in {"done", "resetFlush"} /\ pc[t] \in {"reset", "resetFlush"}
<1>1. Move(t, "done") \/ Move(t, "resetFlush")
  BY CancelTable
<1>2. t[2] \in Streams
  BY TaskFacts
<1>3. QED
  BY <1>1, <1>2, MoveFacts, CancelTable
  DEF TypeOK, CancelStep, CancelFails, Reset, ResetUnknown, ResetFlushed, Flight,
      connVars, tableVars, callVars, peerVars

\* What reaches a queue, and what happens to the frames in flight.
Cut ==
    /\ FailAll \/ (streams = {} /\ UNCHANGED <<streams, ended, queue>>)
    /\ Suffix(Flight', Flight)
    /\ UNCHANGED <<peer, served>>
Delivered(s, k) ==
    /\ s \in streams /\ Flight # <<>> /\ Head(Flight) = <<k, s>>
    /\ Flight' = Tail(Flight)
    /\ queue' = [queue EXCEPT ![s] = Append(@, k)]
    /\ IF k \in Ends THEN streams' = streams \ {s} ELSE streams' = streams
    /\ UNCHANGED <<peer, served>>
Dropped ==
    /\ Flight # <<>> /\ \A s \in streams : Head(Flight) \notin FramesOf(s)
    /\ Flight' = Tail(Flight)
    /\ UNCHANGED <<streams, queue, peer, served>>
Sent(s, k) ==
    /\ peer[s] = "open"
    /\ Flight' = Append(Flight, <<k, s>>)
    /\ IF k \in Ends THEN peer' = [peer EXCEPT ![s] = k] /\ UNCHANGED served
       ELSE served' = [served EXCEPT ![s] = @ + 1] /\ UNCHANGED peer
    /\ UNCHANGED <<streams, queue>>
Noticed ==
    /\ \E f \in {WindowUpdate, Settings, GoAway} : Flight' = Append(Flight, f)
    /\ UNCHANGED <<streams, queue, peer, served>>
Still == UNCHANGED <<Flight, streams, queue, peer, served>>

\* The marks are frames of no stream.
LEMMA FrameFacts ==
    /\ \A s \in Streams, k \in Messages \cup Ends : <<k, s>> \in Frames
    /\ {WindowUpdate, Settings, GoAway} \subseteq Frames
    /\ \A s : \A f \in {WindowUpdate, Settings, GoAway} : f \notin FramesOf(s)
    /\ Messages \cap Ends = {} /\ Messages \cap Terminals = {} /\ Ends \subseteq Terminals
    /\ "lost" \in Terminals \ Ends /\ Messages \subseteq Events /\ Terminals \subseteq Events
    /\ "open" \notin Ends /\ "none" \notin Ends
    /\ Terminals = Ends \cup {"lost"}
<1>1. Len(WindowUpdate) = 1 /\ Len(Settings) = 1 /\ Len(GoAway) = 1
  BY DEF WindowUpdate, Settings, GoAway
<1>2. \A s : \A f \in FramesOf(s) : Len(f) = 2
  BY DEF FramesOf
<1>3. QED
  BY <1>1, <1>2 DEF Frames, Messages, Ends, Terminals, Events

\* Every step of the connection is one of these.
LEMMA OtherEffects ==
    ASSUME TypeOK, BatchIsTaken, ShutdownClearsStreams, OtherStep
    PROVE  \/ Cut \/ Dropped \/ Noticed \/ Still
           \/ \E s \in Streams, k \in Messages \cup Ends : Delivered(s, k) \/ Sent(s, k)
<1> USE FrameFacts
<1>1. CASE ReadBatch
  <2>1. Flight' = Flight
    BY <1>1, FlightRead
  <2>2. QED
    BY <1>1, <2>1 DEF ReadBatch, tableVars, Still
<1>2. CASE ReaderFails \/ Close
  <2>1. Suffix(Flight', Flight)
    BY <1>2, FlightDropped DEF ReaderFails, Close, peerVars
  <2>2. closing => streams = {}
    BY DEF ShutdownClearsStreams
  <2>3. QED
    BY <1>2, <2>1, <2>2 DEF ReaderFails, Close, peerVars, tableVars, Cut
<1>3. CASE DispatchGoAway
  <2>1. Flight # <<>> /\ Flight' = Tail(Flight)
    BY <1>3, FlightDispatch DEF DispatchGoAway, peerVars
  <2>2. Suffix(Flight', Flight)
    BY <2>1, TailIsSuffix, FlightType
  <2>3. QED
    BY <1>3, <2>2 DEF DispatchGoAway, peerVars, Cut
<1>4. CASE DispatchIgnored
  <2>1. PICK f \in {WindowUpdate, Settings} \cup ((Messages \cup Ends) \X (Streams \ streams)) :
          Dispatching(f)
    BY <1>4 DEF DispatchIgnored
  <2>2. Flight # <<>> /\ Head(Flight) = f /\ Flight' = Tail(Flight)
    BY <1>4, <2>1, FlightDispatch DEF DispatchIgnored, peerVars
  <2>3. \A s \in streams : f \notin FramesOf(s)
    BY <2>1 DEF FramesOf
  <2>4. QED
    BY <1>4, <2>2, <2>3 DEF DispatchIgnored, tableVars, peerVars, Dropped
<1>5. ASSUME NEW s \in Streams, DispatchMessage(s)
      PROVE  \E k \in Messages \cup Ends : Delivered(s, k)
  <2>1. PICK k \in Messages : Dispatching(<<k, s>>) /\ queue' = [queue EXCEPT ![s] = Append(@, k)]
    BY <1>5 DEF DispatchMessage
  <2>2. Flight # <<>> /\ Head(Flight) = <<k, s>> /\ Flight' = Tail(Flight)
    BY <1>5, <2>1, FlightDispatch DEF DispatchMessage, peerVars
  <2>3. QED
    BY <1>5, <2>1, <2>2 DEF DispatchMessage, peerVars, Delivered
<1>6. ASSUME NEW s \in Streams, DispatchEnd(s)
      PROVE  \E k \in Messages \cup Ends : Delivered(s, k)
  <2>1. PICK k \in Ends : Dispatching(<<k, s>>) /\ queue' = [queue EXCEPT ![s] = Append(@, k)]
    BY <1>6 DEF DispatchEnd
  <2>2. Flight # <<>> /\ Head(Flight) = <<k, s>> /\ Flight' = Tail(Flight)
    BY <1>6, <2>1, FlightDispatch DEF DispatchEnd, peerVars
  <2>3. QED
    BY <1>6, <2>1, <2>2 DEF DispatchEnd, peerVars, Delivered
<1>7. ASSUME NEW s \in Streams, PeerMessage(s)
      PROVE  \E k \in Messages \cup Ends : Sent(s, k)
  <2>1. PICK k \in Messages : Arrives(<<k, s>>)
    BY <1>7 DEF PeerMessage
  <2>2. Flight' = Append(Flight, <<k, s>>)
    BY <1>7, <2>1, FlightArrives DEF PeerMessage, connVars
  <2>3. QED
    BY <1>7, <2>1, <2>2 DEF PeerMessage, tableVars, Sent
<1>8. ASSUME NEW s \in Streams, PeerEnd(s)
      PROVE  \E k \in Messages \cup Ends : Sent(s, k)
  <2>1. PICK k \in Ends : Arrives(<<k, s>>) /\ peer' = [peer EXCEPT ![s] = k]
    BY <1>8 DEF PeerEnd
  <2>2. Flight' = Append(Flight, <<k, s>>)
    BY <1>8, <2>1, FlightArrives DEF PeerEnd, connVars
  <2>3. QED
    BY <1>8, <2>1, <2>2 DEF PeerEnd, tableVars, Sent
<1>9. CASE PeerGrants \/ PeerSettings \/ PeerGoesAway
  <2>1. \E f \in {WindowUpdate, Settings, GoAway} : Flight' = Append(Flight, f)
    BY <1>9, FlightArrives DEF PeerGrants, PeerSettings, PeerGoesAway, connVars
  <2>2. QED
    BY <1>9, <2>1 DEF PeerGrants, PeerSettings, PeerGoesAway, tableVars, Noticed
<1>10. CASE \/ ReaderFlushed \/ Dispatched \/ CloseLocked \/ CloseFlushed \/ CloseJoined
            \/ LinkBreaks \/ AllDone \/ UNCHANGED vars
  BY <1>10 DEF ReaderFlushed, Dispatched, CloseLocked, CloseFlushed, CloseJoined,
     LinkBreaks, AllDone, vars, connVars, tableVars, peerVars, Flight, Still
<1>11. QED
  BY <1>1, <1>2, <1>3, <1>4, <1>5, <1>6, <1>7, <1>8, <1>9, <1>10
  DEF OtherStep, ReaderStep, DispatchStep, CloseStep, PeerStep
------------------------------------------------------------------------------
(* LifeIInv is inductive, one conjunct at a time.                            *)

\* How a caller's step moves it.
LEMMA CallerMoves ==
    ASSUME TypeOK, NEW s \in Streams, CallerStep(s)
    PROVE  /\ \A t \in Tasks : t[2] # s => pc'[t] = pc[t]
           /\ \A t \in Tasks : pc'[t] = "resetFlush" => pc[t] = "resetFlush"
           /\ pc'[Caller(s)] # "idle"
           /\ pc[Caller(s)] \notin {"reset", "resetFlush", "done"}
           /\ \A r \in Streams : cancelled[r] => cancelled'[r]
<1> USE TaskFacts
<1>1. pc[Caller(s)] \notin {"reset", "resetFlush", "done"}
  BY DEF CallerStep, Open, OpenRefused, OpenFlushed, OpenFails, Send, MaySend, Starve,
     SendRefused, SendFlushed, AskNext, ReceiveMessage, ReceiveEnd, ReceiveError, Took,
     Interrupt, StartCancel, At
<1>2. CASE SendRefused(s) \/ ReceiveError(s) \/ Interrupt(s)
  BY <1>1, <1>2, RaiseFacts DEF SendRefused, ReceiveError, Interrupt
<1>3. CASE StartCancel(s)
  BY <1>1, <1>3, MoveFacts DEF StartCancel, TypeOK
<1>4. CASE ~(SendRefused(s) \/ ReceiveError(s) \/ Interrupt(s) \/ StartCancel(s))
  <2>1. \E p \in Places \ {"idle", "resetFlush"} : Go(s, p)
    BY <1>4 DEF CallerStep, Open, OpenRefused, OpenFlushed, OpenFails, Send, Starve,
       SendFlushed, AskNext, Reading, ReceiveMessage, ReceiveEnd, Places
  <2>2. UNCHANGED cancelled
    BY <1>4 DEF CallerStep, Open, OpenRefused, OpenFlushed, OpenFails, Send, Starve,
       SendFlushed, AskNext, ReceiveMessage, ReceiveEnd, callVars
  <2>3. QED
    BY <1>1, <2>1, <2>2, GoFacts
<1>5. QED
  BY <1>2, <1>3, <1>4

\* The connection moves no task but from "window" to "send".
LEMMA OtherMoves ==
    ASSUME TypeOK, OtherStep
    PROVE  /\ \A t \in Tasks : pc'[t] = IF pc'[t] = "send" THEN "send" ELSE pc[t]
           /\ \A t \in Tasks : pc'[t] = "send" => pc[t] \in {"send", "window"}
           /\ \A t \in Tasks : pc[t] # "window" => pc'[t] = pc[t]
           /\ UNCHANGED <<todo, got, rcvdEnd, cancelled, outcome, abandoned>>
BY OtherFrame, WokenFacts

\* A batch is taken only between two batches.
LEMMA BatchIsTakenStep ==
    ASSUME LifeIInv, [Next]_vars
    PROVE  BatchIsTaken'
<1> USE DEF BatchIsTaken, LifeIInv, IInv
<1>1. ASSUME NEW s \in Streams, CallerStep(s)
      PROVE  BatchIsTaken'
  BY <1>1, CallerFrame
<1>2. ASSUME NEW t \in Tasks, CancelStep(t)
      PROVE  BatchIsTaken'
  BY <1>2, CancelFrame
<1>3. CASE OtherStep
  <2>1. CASE DispatchStep
    BY <2>1 DEF DispatchStep, DispatchGoAway, DispatchIgnored, Dispatched, DispatchMessage,
       DispatchEnd, Dispatching
  <2>2. CASE ReaderStep \/ CloseStep
    BY <2>2 DEF ReaderStep, ReadBatch, ReaderFlushed, ReaderFails, CloseStep, Close,
       CloseLocked, CloseFlushed, CloseJoined
  <2>3. CASE PeerStep \/ AllDone \/ UNCHANGED vars
    BY <2>3 DEF PeerStep, PeerMessage, PeerEnd, PeerGrants, PeerSettings, PeerGoesAway, LinkBreaks,
       AllDone, vars, connVars
  <2>4. QED
    BY <1>3, <2>1, <2>2, <2>3 DEF OtherStep
<1>4. QED
  BY <1>1, <1>2, <1>3, Steps

\* What is left of the frames in flight, for whoever waits for none of them.
LEMMA NoneStays ==
    ASSUME TypeOK, NEW r \in Streams, NoneOf(r, Flight), Flight' \in Seq(Frames)
    PROVE  /\ Cut \/ Dropped \/ Noticed \/ Still => NoneOf(r, Flight')
           /\ \A s \in Streams, k \in Messages \cup Ends :
                Delivered(s, k) \/ (Sent(s, k) /\ s # r) => NoneOf(r, Flight')
<1>1. Flight # <<>> /\ Flight' = Tail(Flight) => NoneOf(r, Flight')
  BY TailIsSuffix, SuffixKeeps, FlightType
<1>2. Suffix(Flight', Flight) => NoneOf(r, Flight')
  BY SuffixKeeps, FlightType
<1>3. \A f \in Frames : f \notin FramesOf(r) /\ Flight' = Append(Flight, f) => NoneOf(r, Flight')
  BY PutKeeps, FlightType
<1>4. \A s \in Streams : \A k : s # r => <<k, s>> \notin FramesOf(r)
  BY DEF FramesOf
<1>5. QED
  BY <1>1, <1>2, <1>3, <1>4, FrameFacts DEF Cut, Dropped, Noticed, Still, Delivered, Sent

\* The frames in flight stay frames.
LEMMA FlightStays ==
    ASSUME IInv, [Next]_vars
    PROVE  Flight' \in Seq(Frames)
<1>1. TypeOK'
  BY IInvStep DEF IInv
<1>2. QED
  BY <1>1, ConcatProperties DEF TypeOK, Flight

\* Nobody else can touch a call that has not begun.
LEMMA NothingBeforeStep ==
    ASSUME LifeIInv, [Next]_vars
    PROVE  NothingBefore'
<1> USE TaskFacts DEF At
<1>0. /\ TypeOK /\ IInv /\ NothingBefore /\ RegisteredIsLive /\ ResetIsCancelled /\ EndIsOut
      /\ BatchIsTaken /\ ShutdownClearsStreams
  BY DEF LifeIInv, IInv
<1> SUFFICES ASSUME NEW r \in Streams, pc'[Caller(r)] = "idle"
             PROVE  /\ queue'[r] = <<>> /\ ~rcvdEnd'[r] /\ ~cancelled'[r]
                    /\ outcome'[r] = "none" /\ got'[r] = 0 /\ served'[r] = 0
                    /\ peer'[r] = "none" /\ NoneOf(r, Flight')
  BY DEF NothingBefore
<1> DEFINE Clean == /\ queue[r] = <<>> /\ ~rcvdEnd[r] /\ ~cancelled[r]
                    /\ outcome[r] = "none" /\ got[r] = 0 /\ served[r] = 0
                    /\ peer[r] = "none" /\ NoneOf(r, Flight)
<1>1. pc[Caller(r)] = "idle" => Clean /\ r \notin streams
  BY <1>0 DEF NothingBefore, RegisteredIsLive
<1>2. ASSUME NEW s \in Streams, CallerStep(s)
      PROVE  Clean'
  <2>1. r # s
    BY <1>0, <1>2, CallerMoves
  <2>2. QED
    BY <1>0, <1>1, <1>2, <2>1, CallerFrame
<1>3. ASSUME NEW t \in Tasks, CancelStep(t)
      PROVE  Clean'
  <2>1. pc[Caller(r)] = "idle"
    BY <1>0, <1>3, CancelFrame
  <2>2. t[2] # r
    BY <1>0, <1>1, <1>3, <2>1, CancelFrame DEF ResetIsCancelled, EndIsOut
  <2>3. QED
    BY <1>0, <1>1, <1>3, <2>1, <2>2, CancelFrame
<1>4. CASE OtherStep
  <2>1. pc[Caller(r)] = "idle"
    BY <1>0, <1>4, OtherMoves
  <2>2. UNCHANGED <<rcvdEnd, cancelled, outcome, got>>
    BY <1>0, <1>4, OtherMoves
  <2>3. Flight' \in Seq(Frames)
    BY <1>0, FlightStays
  <2>4. CASE Cut \/ Dropped \/ Noticed \/ Still
    <3>1. queue'[r] = queue[r] /\ peer' = peer /\ served' = served
      BY <1>1, <2>1, <2>4 DEF Cut, FailAll, Dropped, Noticed, Still
    <3>2. QED
      BY <1>0, <1>1, <2>1, <2>2, <2>3, <2>4, <3>1, NoneStays
  <2>5. ASSUME NEW s \in Streams, NEW k \in Messages \cup Ends, Delivered(s, k) \/ Sent(s, k)
        PROVE  Clean'
    <3>1. s # r
      BY <1>1, <2>1, <2>5 DEF Delivered, Sent
    <3>2. queue'[r] = queue[r] /\ peer'[r] = peer[r] /\ served'[r] = served[r]
      BY <1>0, <2>5, <3>1 DEF Delivered, Sent, TypeOK
    <3>3. QED
      BY <1>0, <1>1, <2>1, <2>2, <2>3, <2>5, <3>1, <3>2, NoneStays
  <2>6. QED
    BY <1>0, <1>4, <2>4, <2>5, OtherEffects
<1>5. QED
  BY <1>2, <1>3, <1>4, Steps

\* An end is in the queue because it was put there.
LEMMA EndFacts ==
    ASSUME TypeOK, NEW s \in Streams
    PROVE  /\ queue'[s] = queue[s] => (EndIsQueued(s)' <=> EndIsQueued(s))
           /\ queue[s] # <<>> /\ queue'[s] = Tail(queue[s]) /\ EndIsQueued(s)' => EndIsQueued(s)
           /\ \A k \in Messages : queue'[s] = Append(queue[s], k) /\ EndIsQueued(s)'
                => EndIsQueued(s)
           /\ queue[s] # <<>> /\ Head(queue[s]) \in Terminals => EndIsQueued(s)
<1>1. queue[s] \in Seq(Events)
  BY DEF TypeOK
<1>2. ASSUME queue[s] # <<>>
      PROVE  /\ queue'[s] = Tail(queue[s]) /\ EndIsQueued(s)' => EndIsQueued(s)
             /\ Head(queue[s]) \in Terminals => EndIsQueued(s)
  <2>1. /\ Len(queue[s]) \in Nat \ {0} /\ Head(queue[s]) = queue[s][1]
        /\ Len(Tail(queue[s])) = Len(queue[s]) - 1
        /\ \A i \in 1..Len(Tail(queue[s])) : Tail(queue[s])[i] = queue[s][i + 1]
    BY <1>1, <1>2, TakeFacts
  <2>2. Head(queue[s]) \in Terminals => EndIsQueued(s)
    BY <2>1 DEF EndIsQueued
  <2>3. ASSUME queue'[s] = Tail(queue[s]), NEW i \in 1..Len(queue'[s]),
               queue'[s][i] \in Terminals
        PROVE  EndIsQueued(s)
    <3>1. i + 1 \in 1..Len(queue[s]) /\ queue[s][i + 1] \in Terminals
      BY <2>1, <2>3
    <3>2. QED
      BY <3>1 DEF EndIsQueued
  <2>4. QED
    BY <2>2, <2>3 DEF EndIsQueued
<1>3. ASSUME NEW k \in Messages, queue'[s] = Append(queue[s], k), EndIsQueued(s)'
      PROVE  EndIsQueued(s)
  <2>1. k \in Events /\ k \notin Terminals
    BY FrameFacts
  <2>2. /\ Len(queue[s]) \in Nat /\ Len(queue'[s]) = Len(queue[s]) + 1
        /\ queue'[s][Len(queue[s]) + 1] = k
        /\ \A i \in 1..Len(queue[s]) : queue'[s][i] = queue[s][i]
    BY <1>1, <1>3, <2>1, PutFacts
  <2>3. QED
    BY <1>3, <2>1, <2>2 DEF EndIsQueued
<1>4. QED
  BY <1>2, <1>3 DEF EndIsQueued

\* A stream leaves the table in the step in which its end is queued, and does
\* not come back.
LEMMA EndIsOutStep ==
    ASSUME LifeIInv, [Next]_vars
    PROVE  EndIsOut'
<1> USE TaskFacts DEF At
<1>0. /\ TypeOK /\ NothingBefore /\ RegisteredIsLive /\ ResetIsCancelled /\ EndIsOut
      /\ BatchIsTaken /\ ShutdownClearsStreams
  BY DEF LifeIInv, IInv
<1>a. /\ \A r \in Streams : EndIsQueued(r) \/ rcvdEnd[r] => r \notin streams
      /\ \A t \in Tasks : pc[t] = "resetFlush" => t[2] \notin streams /\ cancelled[t[2]]
  BY <1>0 DEF EndIsOut
<1>1. ASSUME NEW s \in Streams, CallerStep(s)
      PROVE  EndIsOut'
  <2>1. ASSUME NEW r \in Streams \ {s}, (EndIsQueued(r) \/ rcvdEnd[r])'
        PROVE  r \notin streams'
    BY <1>0, <1>1, <1>a, <2>1, CallerFrame, EndFacts
  <2>2. ASSUME (EndIsQueued(s) \/ rcvdEnd[s])'
        PROVE  s \notin streams'
    <3>1. CASE Open(s)
      <4>1. queue[s] = <<>> /\ ~rcvdEnd[s] /\ UNCHANGED <<queue, rcvdEnd>>
        BY <1>0, <3>1 DEF Open, NothingBefore, callVars
      <4>2. QED
        BY <2>2, <4>1 DEF EndIsQueued
    <3>2. CASE ReceiveEnd(s)
      <4>1. queue[s] # <<>> /\ Head(queue[s]) \in Terminals /\ streams' = streams
        BY <3>2, FrameFacts DEF ReceiveEnd, Took, Ends
      <4>2. QED
        BY <1>0, <1>a, <4>1, EndFacts
    <3>3. CASE ReceiveMessage(s) \/ ReceiveError(s)
      <4>1. /\ queue[s] # <<>> /\ queue'[s] = Tail(queue[s])
            /\ UNCHANGED <<streams, rcvdEnd>>
        BY <1>0, <3>3 DEF ReceiveMessage, ReceiveError, Took, TypeOK
      <4>2. QED
        BY <1>0, <1>a, <2>2, <4>1, EndFacts
    <3>4. CASE ~(Open(s) \/ ReceiveEnd(s) \/ ReceiveMessage(s) \/ ReceiveError(s))
      <4>1. UNCHANGED <<queue, rcvdEnd>>
        BY <1>1, <3>4 DEF CallerStep, OpenRefused, OpenFlushed, OpenFails, Send, Starve,
           SendRefused, SendFlushed, AskNext, Interrupt, StartCancel, tableVars, callVars
      <4>2. streams' \subseteq streams
        BY <1>1, <3>4, CallerTable
      <4>3. QED
        BY <1>0, <1>a, <2>2, <4>1, <4>2, EndFacts
    <3>5. QED
      BY <3>1, <3>2, <3>3, <3>4
  <2>3. ASSUME NEW t \in Tasks, pc'[t] = "resetFlush"
        PROVE  t[2] \notin streams' /\ cancelled'[t[2]]
    <3>1. t[2] \notin streams /\ cancelled[t[2]] /\ cancelled'[t[2]]
      BY <1>0, <1>1, <1>a, <2>3, CallerMoves
    <3>2. CASE Open(s)
      <4>1. t[2] # s
        BY <1>0, <3>1, <3>2 DEF Open, NothingBefore
      <4>2. QED
        BY <3>1, <3>2, <4>1 DEF Open
    <3>3. CASE ~Open(s)
      BY <1>1, <3>1, <3>3, CallerTable
    <3>4. QED
      BY <3>2, <3>3
  <2>4. QED
    BY <2>1, <2>2, <2>3 DEF EndIsOut
<1>2. ASSUME NEW t \in Tasks, CancelStep(t)
      PROVE  EndIsOut'
  <2>1. ASSUME NEW r \in Streams, (EndIsQueued(r) \/ rcvdEnd[r])'
        PROVE  r \notin streams'
    <3>1. CASE EndIsQueued(r) \/ rcvdEnd[r]
      BY <1>0, <1>2, <1>a, <3>1, CancelFrame
    <3>2. CASE ~(EndIsQueued(r) \/ rcvdEnd[r])
      <4>1. r = t[2] /\ rcvdEnd'[r] # rcvdEnd[r]
        BY <1>0, <1>2, <2>1, <3>2, CancelFrame, EndFacts
      <4>2. ResetUnknown(t) \/ ResetFlushed(t)
        BY <1>2, <4>1 DEF CancelStep, CancelFails, Reset, callVars
      <4>3. QED
        BY <1>0, <1>2, <1>a, <4>1, <4>2, CancelFrame DEF ResetUnknown, ResetFlushed
    <3>3. QED
      BY <3>1, <3>2
  <2>2. ASSUME NEW u \in Tasks, pc'[u] = "resetFlush"
        PROVE  u[2] \notin streams' /\ cancelled'[u[2]]
    <3>1. CASE pc[u] = "resetFlush"
      BY <1>0, <1>2, <1>a, <3>1, CancelFrame
    <3>2. CASE pc[u] # "resetFlush"
      <4>1. u = t
        BY <1>0, <1>2, <2>2, <3>2, CancelFrame
      <4>2. Reset(t)
        BY <1>0, <1>2, <2>2, <4>1, MoveFacts
        DEF CancelStep, CancelFails, ResetUnknown, ResetFlushed
      <4>3. t[2] \notin streams' /\ cancelled[t[2]]
        BY <1>0, <4>2 DEF Reset, ResetIsCancelled
      <4>4. QED
        BY <1>0, <1>2, <4>1, <4>3, CancelFrame
    <3>3. QED
      BY <3>1, <3>2
  <2>3. QED
    BY <2>1, <2>2 DEF EndIsOut
<1>3. CASE OtherStep
  <2>1. UNCHANGED <<rcvdEnd, cancelled>> /\ \A t \in Tasks : pc'[t] = "resetFlush" => pc[t] = pc'[t]
    BY <1>0, <1>3, OtherMoves
  <2>2. CASE Cut \/ Dropped \/ Noticed \/ Still
    <3>1. streams' = {} \/ UNCHANGED <<streams, queue>>
      BY <2>2 DEF Cut, FailAll, Dropped, Noticed, Still
    <3>2. QED
      BY <1>0, <1>a, <2>1, <3>1, EndFacts DEF EndIsOut
  <2>3. ASSUME NEW s \in Streams, NEW k \in Messages \cup Ends, Delivered(s, k) \/ Sent(s, k)
        PROVE  EndIsOut'
    <3>1. streams' \subseteq streams
      BY <2>3 DEF Delivered, Sent
    <3>2. ASSUME NEW r \in Streams, EndIsQueued(r)', r \in streams'
          PROVE  EndIsQueued(r)
      <4>1. CASE queue'[r] = queue[r]
        BY <1>0, <3>2, <4>1, EndFacts
      <4>2. CASE queue'[r] # queue[r]
        <5>1. r = s /\ Delivered(s, k) /\ queue'[r] = Append(queue[r], k)
          BY <1>0, <2>3, <4>2 DEF Delivered, Sent, TypeOK
        <5>2. k \in Messages
          BY <3>2, <5>1 DEF Delivered
        <5>3. QED
          BY <1>0, <3>2, <5>1, <5>2, EndFacts
      <4>3. QED
        BY <4>1, <4>2
    <3>3. QED
      BY <1>a, <2>1, <3>1, <3>2 DEF EndIsOut
  <2>4. QED
    BY <1>0, <1>3, <2>2, <2>3, OtherEffects
<1>4. QED
  BY <1>1, <1>2, <1>3, Steps

\* Whoever leaves a call, or begins to reset it, has somebody reset the stream.
LEMMA CancelIsFollowedStep ==
    ASSUME LifeIInv, [Next]_vars
    PROVE  CancelIsFollowed'
<1> USE TaskFacts DEF At
<1>0. /\ TypeOK /\ NothingBefore /\ RegisteredIsLive /\ ResetIsCancelled /\ EndIsOut
      /\ BatchIsTaken /\ ShutdownClearsStreams /\ CancelIsFollowed
  BY DEF LifeIInv, IInv
<1> DEFINE Followed(r) == /\ pc[Caller(r)] = "done" => cancelled[r]
                          /\ cancelled[r] => \/ r \in abandoned
                                             \/ \E t \in Tasks : t[2] = r /\ pc[t] = "reset"
<1>a. \A r \in streams : Followed(r)
  BY <1>0 DEF CancelIsFollowed
<1>b. streams' \subseteq Streams
  BY TypeStep DEF LifeIInv, IInv, TypeOK
<1> SUFFICES ASSUME NEW r \in Streams, r \in streams'
             PROVE  Followed(r)'
  BY <1>b DEF CancelIsFollowed
<1> HIDE DEF Followed
<1>1. ASSUME NEW s \in Streams, CallerStep(s)
      PROVE  Followed(r)'
  <2>1. CASE r # s
    <3>1. r \in streams /\ Followed(r)
      BY <1>0, <1>1, <1>a, <2>1, CallerFrame
    <3>2. /\ cancelled'[r] = cancelled[r] /\ abandoned' = abandoned
          /\ \A t \in Tasks : t[2] = r => pc'[t] = pc[t]
      BY <1>0, <1>1, <2>1, CallerFrame, CallerMoves
    <3>3. QED
      BY <3>1, <3>2 DEF Followed
  <2>2. CASE r = s /\ Open(s)
    <3>1. ~cancelled[s] /\ cancelled' = cancelled /\ pc'[Caller(s)] = "openFlush"
      BY <1>0, <2>2, GoFacts DEF Open, NothingBefore, callVars
    <3>2. QED
      BY <2>2, <3>1 DEF Followed
  <2>3. CASE r = s /\ ~Open(s)
    <3>1. s \in streams /\ Followed(s) /\ ~rcvdEnd[s] /\ pc[Caller(s)] # "idle"
      BY <1>0, <1>1, <1>a, <2>3, CallerTable DEF EndIsOut, RegisteredIsLive
    <3>2. CASE StartCancel(s)
      <4>1. /\ pc'[Canceller(s)] = "reset" /\ pc'[Caller(s)] = pc[Caller(s)]
            /\ pc[Caller(s)] # "done"
        BY <1>0, <3>2, MoveFacts DEF StartCancel
      <4>2. QED
        BY <2>3, <4>1 DEF Followed
    <3>3. CASE SendRefused(s) \/ ReceiveError(s) \/ Interrupt(s)
      <4>1. Raise(s) /\ abandoned' = abandoned /\ pc[Caller(s)] # "reset"
        BY <3>3 DEF SendRefused, ReceiveError, Took, Interrupt
      <4>2. CASE cancelled[s]
        <5>1. \A t \in Tasks : pc[t] = "reset" => pc'[t] = "reset"
          BY <1>0, <4>1, RaiseFacts
        <5>2. cancelled'[s]
          BY <1>0, <4>1, <4>2, RaiseFacts
        <5>3. QED
          BY <2>3, <3>1, <4>1, <4>2, <5>1, <5>2 DEF Followed
      <4>3. CASE ~cancelled[s]
        <5>1. cancelled'[s] /\ Go(s, "reset")
          BY <1>0, <3>1, <4>1, <4>3 DEF Raise, TypeOK
        <5>2. pc'[Caller(s)] = "reset"
          BY <1>0, <5>1, GoFacts
        <5>3. QED
          BY <2>3, <5>1, <5>2 DEF Followed
      <4>4. QED
        BY <4>2, <4>3
    <3>4. CASE ~(StartCancel(s) \/ SendRefused(s) \/ ReceiveError(s) \/ Interrupt(s))
      <4>1. ~ReceiveEnd(s)
        <5>1. SUFFICES ASSUME ReceiveEnd(s)
                       PROVE  EndIsQueued(s)
          BY <1>0, <3>1 DEF EndIsOut
        <5>2. queue[s] # <<>> /\ Head(queue[s]) \in Terminals
          BY <5>1, FrameFacts DEF ReceiveEnd, Took, Ends
        <5>3. QED
          BY <1>0, <5>2, EndFacts
      <4>2. ~OpenFails(s)
        BY <2>3 DEF OpenFails
      <4>3. /\ \E p \in Places \ {"done"} : Go(s, p)
            /\ UNCHANGED <<cancelled, abandoned>>
        BY <1>1, <2>3, <3>1, <3>4, <4>1, <4>2 DEF CallerStep, OpenRefused, OpenFlushed,
           Send, Starve, SendFlushed, AskNext, Reading, ReceiveMessage, Places, callVars
      <4>4. pc[Caller(s)] # "reset"
        BY <1>0, <1>1, CallerMoves
      <4>5. /\ pc'[Caller(s)] # "done"
            /\ \A t \in Tasks : pc[t] = "reset" => pc'[t] = "reset"
        BY <1>0, <4>3, <4>4, GoFacts
      <4>6. QED
        BY <2>3, <3>1, <4>3, <4>5 DEF Followed
    <3>5. QED
      BY <3>2, <3>3, <3>4
  <2>4. QED
    BY <2>1, <2>2, <2>3
<1>2. ASSUME NEW t \in Tasks, CancelStep(t)
      PROVE  Followed(r)'
  <2>1. r \in streams /\ Followed(r) /\ cancelled' = cancelled
    BY <1>0, <1>2, <1>a, CancelFrame
  <2>2. CASE t[2] = r
    <3>1. CancelFails(t) /\ pc[t] = "reset"
      BY <1>0, <1>2, <2>1, <2>2 DEF CancelStep, CancelFails, Reset, ResetUnknown,
         ResetFlushed, EndIsOut
    <3>2. r \in abandoned' /\ cancelled[r]
      BY <1>0, <2>2, <3>1 DEF CancelFails, ResetIsCancelled
    <3>3. QED
      BY <2>1, <3>2 DEF Followed
  <2>3. CASE t[2] # r
    <3>1. \A u \in Tasks : u[2] = r => pc'[u] = pc[u]
      BY <1>0, <1>2, <2>3, CancelFrame
    <3>2. abandoned \subseteq abandoned'
      BY <1>2 DEF CancelStep, CancelFails, Reset, ResetUnknown, ResetFlushed, callVars
    <3>3. QED
      BY <2>1, <3>1, <3>2 DEF Followed
  <2>4. QED
    BY <2>2, <2>3
<1>3. CASE OtherStep
  <2>1. streams' \subseteq streams
    BY <1>0, <1>3, OtherEffects DEF Cut, FailAll, Dropped, Noticed, Still, Delivered, Sent
  <2>2. /\ UNCHANGED <<cancelled, abandoned>>
        /\ \A t \in Tasks : pc'[t] = "done" => pc[t] = "done"
        /\ \A t \in Tasks : pc[t] = "reset" => pc'[t] = "reset"
    BY <1>0, <1>3, OtherMoves
  <2>3. QED
    BY <1>a, <2>1, <2>2 DEF Followed
<1>4. QED
  BY <1>1, <1>2, <1>3, Steps

\* The robot ends a stream once, and sends nothing on it afterwards.
LEMMA SentKeeps ==
    ASSUME NEW S, NEW q \in Seq(S), NEW s, NEW k \in Messages \cup Ends, <<k, s>> \in S,
           InOrder(s, q, "open")
    PROVE  InOrder(s, Append(q, <<k, s>>), IF k \in Ends THEN k ELSE "open")
<1> DEFINE r == Append(q, <<k, s>>)
<1>1. /\ Len(q) \in Nat /\ Len(r) = Len(q) + 1 /\ r[Len(q) + 1] = <<k, s>>
      /\ \A i \in 1..Len(q) : r[i] = q[i]
  BY PutFacts
<1>2. \A i \in 1..Len(q) : q[i] \notin Ends \X {s}
  <2>1. <<"open", s>> \notin Ends \X {s}
    BY FrameFacts
  <2>2. QED
    BY <2>1 DEF InOrder
<1> HIDE DEF r
<1>3. ASSUME NEW i \in 1..Len(r), r[i] \in Ends \X {s}
      PROVE  i = Len(q) + 1 /\ Len(r) = i /\ r[i] = <<k, s>> /\ k \in Ends
  <2>1. i = Len(q) + 1
    BY <1>1, <1>2, <1>3
  <2>2. QED
    BY <1>1, <1>3, <2>1
<1>4. \A i \in 1..Len(r) : i = Len(r) => i + 1..Len(r) = {}
  BY <1>1
<1>5. QED
  BY <1>3, <1>4 DEF InOrder, r

\* The robot sends nothing on a stream it has ended.
LEMMA FlightOrderStep ==
    ASSUME LifeIInv, [Next]_vars
    PROVE  FlightIsInOrder'
<1> USE TaskFacts DEF At
<1>0. /\ TypeOK /\ IInv /\ NothingBefore /\ BatchIsTaken /\ ShutdownClearsStreams
      /\ FlightIsInOrder
  BY DEF LifeIInv, IInv
<1> SUFFICES ASSUME NEW r \in Streams
             PROVE  InOrder(r, Flight', peer'[r])
  BY DEF FlightIsInOrder, InOrder
<1>1. InOrder(r, Flight, peer[r])
  BY <1>0 DEF FlightIsInOrder
<1>a. Flight \in Seq(Frames) /\ Flight' \in Seq(Frames)
  BY <1>0, FlightType, FlightStays
<1>2. ASSUME NEW s \in Streams, CallerStep(s)
      PROVE  InOrder(r, Flight', peer'[r])
  <2>1. CASE r = s /\ Open(s)
    <3>1. NoneOf(r, Flight) /\ Flight' = Flight
      BY <1>0, <1>2, <2>1, CallerFrame DEF Open, NothingBefore
    <3>2. QED
      BY <3>1 DEF NoneOf, InOrder, FramesOf
  <2>2. CASE ~(r = s /\ Open(s))
    <3>1. Flight' = Flight /\ peer'[r] = peer[r]
      BY <1>0, <1>2, <2>2, CallerFrame
    <3>2. QED
      BY <1>1, <3>1
  <2>3. QED
    BY <2>1, <2>2
<1>3. ASSUME NEW t \in Tasks, CancelStep(t)
      PROVE  InOrder(r, Flight', peer'[r])
  <2>1. Flight' = Flight /\ peer' = peer
    BY <1>0, <1>3, CancelFrame
  <2>2. QED
    BY <1>1, <2>1
<1>4. CASE OtherStep
  <2>1. CASE Cut \/ Dropped \/ Noticed \/ Still
    <3>1. peer' = peer
      BY <2>1 DEF Cut, Dropped, Noticed, Still
    <3>2. CASE Suffix(Flight', Flight)
      BY <1>1, <1>a, <3>1, <3>2, SuffixKeeps
    <3>3. CASE Noticed
      <4>1. PICK f \in {WindowUpdate, Settings, GoAway} : Flight' = Append(Flight, f)
        BY <3>3 DEF Noticed
      <4>2. f \in Frames /\ f \notin FramesOf(r)
        BY FrameFacts
      <4>3. QED
        BY <1>1, <1>a, <3>1, <4>1, <4>2, PutKeeps
    <3>4. CASE Still
      BY <1>1, <3>1, <3>4 DEF Still
    <3>5. Cut \/ Dropped => Suffix(Flight', Flight)
      BY <1>a, TailIsSuffix DEF Cut, Dropped
    <3>6. QED
      BY <2>1, <3>2, <3>3, <3>4, <3>5
  <2>2. ASSUME NEW s \in Streams, NEW k \in Messages \cup Ends, Delivered(s, k)
        PROVE  InOrder(r, Flight', peer'[r])
    <3>1. Suffix(Flight', Flight) /\ peer' = peer
      BY <1>a, <2>2, TailIsSuffix DEF Delivered
    <3>2. QED
      BY <1>1, <1>a, <3>1, SuffixKeeps
  <2>3. ASSUME NEW s \in Streams, NEW k \in Messages \cup Ends, Sent(s, k)
        PROVE  InOrder(r, Flight', peer'[r])
    <3>1. Flight' = Append(Flight, <<k, s>>) /\ <<k, s>> \in Frames
      BY <2>3, FrameFacts DEF Sent
    <3>2. CASE r = s
      <4>1. peer[r] = "open" /\ peer'[r] = IF k \in Ends THEN k ELSE "open"
        BY <1>0, <2>3, <3>2 DEF Sent, TypeOK
      <4>2. QED
        BY <1>1, <1>a, <3>1, <3>2, <4>1, SentKeeps
    <3>3. CASE r # s
      <4>1. peer'[r] = peer[r] /\ <<k, s>> \notin FramesOf(r)
        BY <1>0, <2>3, <3>3 DEF Sent, TypeOK, FramesOf
      <4>2. QED
        BY <1>1, <1>a, <3>1, <4>1, PutKeeps
    <3>4. QED
      BY <3>2, <3>3
  <2>4. QED
    BY <1>0, <1>4, <2>1, <2>2, <2>3, OtherEffects
<1>5. QED
  BY <1>2, <1>3, <1>4, Steps

\* A queue is in order, its end known to be the robot's.
Ordered(q, last, none) ==
    \A i \in 1..Len(q) :
        /\ q[i] \in Terminals => i = Len(q)
        /\ q[i] \in Ends => last = q[i] /\ none

\* It stays so when its first is taken, and when an end is the first put to it.
LEMMA OrderedFacts ==
    ASSUME NEW q \in Seq(Events), NEW last, NEW none \in BOOLEAN
    PROVE  /\ Ordered(q, last, none) /\ q # <<>> => Ordered(Tail(q), last, none)
           /\ \A k \in Events :
                (\A i \in 1..Len(q) : q[i] \notin Terminals) /\ (k \in Ends => last = k /\ none)
                => Ordered(Append(q, k), last, none)
<1>1. ASSUME Ordered(q, last, none), q # <<>>
      PROVE  Ordered(Tail(q), last, none)
  <2> DEFINE r == Tail(q)
  <2>1. /\ Len(q) \in Nat \ {0} /\ Len(r) = Len(q) - 1
        /\ \A i \in 1..Len(r) : r[i] = q[i + 1]
    BY <1>1, TakeFacts
  <2> HIDE DEF r
  <2>2. \A i \in 1..Len(r) : i + 1 \in 1..Len(q) /\ (i + 1 = Len(q) => i = Len(r))
    BY <2>1
  <2>3. Ordered(r, last, none)
    BY <1>1, <2>1, <2>2 DEF Ordered
  <2>4. QED
    BY <2>3 DEF r
<1>2. ASSUME NEW k \in Events, \A i \in 1..Len(q) : q[i] \notin Terminals,
             k \in Ends => last = k /\ none
      PROVE  Ordered(Append(q, k), last, none)
  <2>1. /\ Len(q) \in Nat /\ Len(Append(q, k)) = Len(q) + 1
        /\ Append(q, k)[Len(q) + 1] = k
        /\ \A i \in 1..Len(q) : Append(q, k)[i] = q[i]
    BY PutFacts
  <2>2. ASSUME NEW i \in 1..Len(Append(q, k)), Append(q, k)[i] \in Terminals
        PROVE  i = Len(Append(q, k)) /\ Append(q, k)[i] = k
    BY <1>2, <2>1, <2>2
  <2>3. QED
    BY <1>2, <2>2, FrameFacts DEF Ordered
<1>3. QED
  BY <1>1, <1>2

\* What reaches a queue comes in the order of the frames, and the end last.
LEMMA QueueOrderStep ==
    ASSUME LifeIInv, [Next]_vars
    PROVE  QueueIsInOrder'
<1> USE TaskFacts DEF At
<1>0. /\ TypeOK /\ IInv /\ NothingBefore /\ RegisteredIsLive /\ EndIsOut /\ BatchIsTaken
      /\ ShutdownClearsStreams /\ FlightIsInOrder /\ QueueIsInOrder
  BY DEF LifeIInv, IInv
<1> SUFFICES ASSUME NEW r \in Streams
             PROVE  Ordered(queue'[r], peer'[r], NoneOf(r, Flight'))
  BY DEF QueueIsInOrder, Ordered
<1>1. Ordered(queue[r], peer[r], NoneOf(r, Flight)) /\ queue[r] \in Seq(Events)
  BY <1>0 DEF QueueIsInOrder, Ordered, TypeOK
<1>a. /\ Flight \in Seq(Frames) /\ Flight' \in Seq(Frames)
      /\ NoneOf(r, Flight) \in BOOLEAN /\ NoneOf(r, Flight') \in BOOLEAN
  BY <1>0, FlightType, FlightStays DEF NoneOf
<1>b. r \in streams => \A i \in 1..Len(queue[r]) : queue[r][i] \notin Terminals
  BY <1>0 DEF EndIsOut, EndIsQueued
<1>c. /\ queue'[r] = queue[r] /\ peer'[r] = peer[r]
      /\ NoneOf(r, Flight) => NoneOf(r, Flight')
      => Ordered(queue'[r], peer'[r], NoneOf(r, Flight'))
  BY <1>1 DEF Ordered
<1>2. ASSUME NEW s \in Streams, CallerStep(s)
      PROVE  Ordered(queue'[r], peer'[r], NoneOf(r, Flight'))
  <2>0. Flight' = Flight
    BY <1>0, <1>2, CallerFrame
  <2>1. CASE r = s /\ Open(s)
    <3>1. queue'[r] = <<>>
      BY <1>0, <2>1 DEF Open, NothingBefore
    <3>2. QED
      BY <3>1 DEF Ordered
  <2>2. CASE r = s /\ (ReceiveMessage(s) \/ ReceiveEnd(s) \/ ReceiveError(s))
    <3>1. queue[r] # <<>> /\ queue'[r] = Tail(queue[r])
      BY <1>0, <2>2 DEF ReceiveMessage, ReceiveEnd, ReceiveError, Took, TypeOK
    <3>2. peer'[r] = peer[r]
      BY <2>2 DEF ReceiveMessage, ReceiveEnd, ReceiveError, peerVars
    <3>3. QED
      BY <1>1, <1>a, <2>0, <3>1, <3>2, OrderedFacts
  <2>3. CASE \/ r # s
             \/ ~(Open(s) \/ ReceiveMessage(s) \/ ReceiveEnd(s) \/ ReceiveError(s))
    <3>1. queue'[r] = queue[r]
      BY <1>0, <1>2, <2>3, CallerFrame DEF CallerStep, OpenRefused, OpenFlushed, OpenFails,
         Send, Starve, SendRefused, SendFlushed, AskNext, Interrupt, StartCancel, tableVars
    <3>2. peer'[r] = peer[r]
      BY <1>0, <1>2, <2>3, CallerFrame
    <3>3. QED
      BY <1>c, <2>0, <3>1, <3>2
  <2>4. QED
    BY <2>1, <2>2, <2>3
<1>3. ASSUME NEW t \in Tasks, CancelStep(t)
      PROVE  Ordered(queue'[r], peer'[r], NoneOf(r, Flight'))
  BY <1>0, <1>3, <1>c, CancelFrame
<1>4. CASE OtherStep
  <2>1. CASE Cut \/ Dropped \/ Noticed \/ Still
    <3>1. peer' = peer /\ (NoneOf(r, Flight) => NoneOf(r, Flight'))
      BY <1>0, <1>a, <2>1, NoneStays DEF Cut, Dropped, Noticed, Still
    <3>2. CASE queue'[r] = queue[r]
      BY <1>c, <3>1, <3>2
    <3>3. CASE queue'[r] # queue[r]
      <4>1. r \in streams /\ queue'[r] = Append(queue[r], "lost")
        BY <1>0, <2>1, <3>3 DEF Cut, FailAll, Dropped, Noticed, Still
      <4>2. "lost" \in Events /\ "lost" \notin Ends
        BY FrameFacts
      <4>3. QED
        BY <1>1, <1>a, <1>b, <4>1, <4>2, OrderedFacts
    <3>4. QED
      BY <3>2, <3>3
  <2>2. ASSUME NEW s \in Streams, NEW k \in Messages \cup Ends, Delivered(s, k), r # s
        PROVE  Ordered(queue'[r], peer'[r], NoneOf(r, Flight'))
    <3>1. queue'[r] = queue[r] /\ peer' = peer
      BY <1>0, <2>2 DEF Delivered, TypeOK
    <3>2. QED
      BY <1>0, <1>a, <1>c, <2>2, <3>1, NoneStays
  <2>3. ASSUME NEW s \in Streams, NEW k \in Messages \cup Ends, Delivered(s, k), r = s
        PROVE  Ordered(queue'[r], peer'[r], NoneOf(r, Flight'))
    <3>1. /\ queue'[r] = Append(queue[r], k) /\ peer' = peer /\ r \in streams /\ k \in Events
          /\ Flight # <<>> /\ Flight' = Tail(Flight) /\ Head(Flight) = <<k, r>>
      BY <1>0, <2>3, FrameFacts DEF Delivered, TypeOK
    <3>2. ASSUME k \in Ends
          PROVE  peer[r] = k /\ NoneOf(r, Flight')
      <4>1. /\ Len(Flight) \in Nat \ {0} /\ Flight[1] = <<k, r>>
            /\ Len(Flight') = Len(Flight) - 1
            /\ \A i \in 1..Len(Flight') : Flight'[i] = Flight[i + 1]
        BY <1>a, <3>1, TakeFacts
      <4>2. 1 \in 1..Len(Flight) /\ Flight[1] \in Ends \X {r}
        BY <3>2, <4>1
      <4>3. /\ Flight[1] = <<peer[r], r>>
            /\ \A j \in 1 + 1..Len(Flight) : Flight[j] \notin FramesOf(r)
        BY <1>0, <4>2 DEF FlightIsInOrder, InOrder
      <4>4. \A i \in 1..Len(Flight') : i + 1 \in 1 + 1..Len(Flight)
        BY <4>1
      <4>5. QED
        BY <4>1, <4>3, <4>4 DEF NoneOf
    <3>3. QED
      BY <1>1, <1>a, <1>b, <3>1, <3>2, OrderedFacts
  <2>4. ASSUME NEW s \in Streams, NEW k \in Messages \cup Ends, Sent(s, k)
        PROVE  Ordered(queue'[r], peer'[r], NoneOf(r, Flight'))
    <3>1. queue' = queue
      BY <2>4 DEF Sent
    <3>2. CASE r # s
      <4>1. peer'[r] = peer[r]
        BY <1>0, <2>4, <3>2 DEF Sent, TypeOK
      <4>2. QED
        BY <1>0, <1>a, <1>c, <2>4, <3>1, <3>2, <4>1, NoneStays
    <3>3. CASE r = s
      <4>1. \A i \in 1..Len(queue[r]) : queue[r][i] \notin Ends
        BY <1>1, <2>4, <3>3, FrameFacts DEF Sent, Ordered
      <4>2. QED
        BY <1>1, <3>1, <4>1 DEF Ordered
    <3>4. QED
      BY <3>2, <3>3
  <2>5. QED
    BY <1>0, <1>4, <2>1, <2>2, <2>3, <2>4, OtherEffects
<1>5. QED
  BY <1>2, <1>3, <1>4, Steps

\* A caller reads when everything is sent, and sends before it reads again.
LEMMA RequestSentStep ==
    ASSUME LifeIInv, [Next]_vars
    PROVE  RequestIsSent'
<1> USE TaskFacts DEF At
<1>0. TypeOK /\ RequestIsSent
  BY DEF LifeIInv, IInv
<1> SUFFICES ASSUME NEW r \in Streams, pc'[Caller(r)] \in {"next", "get"}
             PROVE  todo'[r] = 0
  BY DEF RequestIsSent
<1>1. pc[Caller(r)] \in {"next", "get"} => todo[r] = 0
  BY <1>0 DEF RequestIsSent
<1>2. ASSUME NEW s \in Streams, CallerStep(s)
      PROVE  todo'[r] = 0
  <2>1. CASE r # s
    BY <1>0, <1>1, <1>2, <2>1, CallerFrame
  <2>2. CASE r = s
    <3>1. CASE SendFlushed(s)
      BY <1>0, <2>2, <3>1, GoFacts DEF SendFlushed, callVars
    <3>2. CASE AskNext(s)
      BY <1>0, <1>1, <2>2, <3>2 DEF AskNext
    <3>3. CASE ReceiveMessage(s)
      <4>1. pc[Caller(s)] = "get"
        BY <3>3 DEF ReceiveMessage, Took
      <4>2. UNCHANGED todo \/ Go(s, "send")
        BY <3>3 DEF ReceiveMessage
      <4>3. QED
        BY <1>0, <1>1, <2>2, <4>1, <4>2, GoFacts
    <3>4. CASE SendRefused(s) \/ ReceiveError(s) \/ Interrupt(s)
      BY <1>0, <2>2, <3>4, RaiseFacts DEF SendRefused, ReceiveError, Interrupt
    <3>5. CASE StartCancel(s)
      BY <1>0, <1>1, <2>2, <3>5, MoveFacts DEF StartCancel
    <3>6. CASE ~(\/ SendFlushed(s) \/ AskNext(s) \/ ReceiveMessage(s) \/ SendRefused(s)
                 \/ ReceiveError(s) \/ Interrupt(s) \/ StartCancel(s))
      <4>1. \E p \in Places \ {"next", "get"} : Go(s, p)
        BY <1>2, <3>6 DEF CallerStep, Open, OpenRefused, OpenFlushed, OpenFails, Send,
           Starve, ReceiveEnd, Places
      <4>2. QED
        BY <1>0, <2>2, <4>1, GoFacts
    <3>7. QED
      BY <3>1, <3>2, <3>3, <3>4, <3>5, <3>6
  <2>3. QED
    BY <2>1, <2>2
<1>3. ASSUME NEW t \in Tasks, CancelStep(t)
      PROVE  todo'[r] = 0
  BY <1>0, <1>1, <1>3, CancelFrame
<1>4. CASE OtherStep
  BY <1>0, <1>1, <1>4, OtherMoves
<1>5. QED
  BY <1>2, <1>3, <1>4, Steps

\* Nothing of a stream is in flight that has left the table while its call goes
\* on, unless the call has been cut short.
LEMMA NoMore ==
    ASSUME LifeIInv, NEW r \in Streams \ streams, pc[Caller(r)] \in Live, ~cancelled[r],
           ~IsLost(r)
    PROVE  NoneOf(r, Flight)
<1>1. EndIsQueued(r)
  BY DEF LifeIInv, IInv, StreamIsTracked, Live
<1>2. PICK i \in 1..Len(queue[r]) : queue[r][i] \in Terminals
  BY <1>1 DEF EndIsQueued
<1>3. queue[r][i] \in Ends
  BY <1>2, FrameFacts DEF IsLost
<1>4. QED
  BY <1>2, <1>3 DEF LifeIInv, QueueIsInOrder

\* The messages of a stream of which nothing is in flight are none.
LEMMA NoneCounted ==
    ASSUME NEW q \in Seq(Frames), NEW s, NoneOf(s, q)
    PROVE  Count(MessagesOf(s), q) = 0
<1>1. \A i \in 1..Len(q) : q[i] \notin MessagesOf(s)
  BY DEF NoneOf, MessagesOf, FramesOf
<1>2. QED
  BY <1>1, CountType

\* A queue that is put to, or whose first is no error, keeps its error.
LEMMA LostFacts ==
    ASSUME TypeOK, NEW r \in Streams, IsLost(r)
    PROVE  /\ \A k \in Events : queue'[r] = Append(queue[r], k) => IsLost(r)'
           /\ queue[r] # <<>> /\ queue'[r] = Tail(queue[r]) /\ Head(queue[r]) = "data"
                => IsLost(r)'
<1>1. queue[r] \in Seq(Events) /\ Len(queue[r]) \in Nat
  BY LenProperties DEF TypeOK
<1>2. PICK i \in 1..Len(queue[r]) : queue[r][i] = "lost"
  BY DEF IsLost
<1>3. ASSUME NEW k \in Events, queue'[r] = Append(queue[r], k)
      PROVE  IsLost(r)'
  <2>1. /\ Len(queue'[r]) = Len(queue[r]) + 1
        /\ \A j \in 1..Len(queue[r]) : queue'[r][j] = queue[r][j]
    BY <1>1, <1>3, PutFacts
  <2>2. i \in 1..Len(queue'[r]) /\ queue'[r][i] = "lost"
    BY <1>1, <1>2, <2>1
  <2>3. QED
    BY <2>2 DEF IsLost
<1>4. ASSUME queue[r] # <<>>, queue'[r] = Tail(queue[r]), Head(queue[r]) = "data"
      PROVE  IsLost(r)'
  <2>1. /\ Head(queue[r]) = queue[r][1] /\ Len(queue'[r]) = Len(queue[r]) - 1
        /\ \A j \in 1..Len(queue'[r]) : queue'[r][j] = queue[r][j + 1]
    BY <1>1, <1>4, TakeFacts
  <2>2. i # 1
    BY <1>2, <1>4, <2>1
  <2>3. i - 1 \in 1..Len(queue'[r]) /\ queue'[r][i - 1] = queue[r][(i - 1) + 1]
    BY <1>1, <2>1, <2>2
  <2>4. (i - 1) + 1 = i
    BY <1>1
  <2>5. QED
    BY <1>2, <2>3, <2>4 DEF IsLost
<1>5. QED
  BY <1>3, <1>4

\* Every message the robot serves is put in flight, every one in flight is
\* queued or its stream has left the table, every one queued is handed over.
LEMMA AccountedStep ==
    ASSUME LifeIInv, [Next]_vars
    PROVE  Accounted'
<1> USE TaskFacts DEF At
<1>0. /\ TypeOK /\ IInv /\ NothingBefore /\ RegisteredIsLive /\ BatchIsTaken
      /\ ShutdownClearsStreams /\ Accounted
  BY DEF LifeIInv, IInv
<1> SUFFICES ASSUME NEW r \in Streams, pc'[Caller(r)] \in Live, ~cancelled'[r], ~IsLost(r)'
             PROVE  got'[r] + Queued(r)' + Flying(r)' = served'[r]
  BY DEF Accounted
<1> DEFINE Going == pc[Caller(r)] \in Live /\ ~cancelled[r] /\ ~IsLost(r)
           Sum == got'[r] + Queued(r)' + Flying(r)' = served'[r]
<1>1. Going => got[r] + Queued(r) + Flying(r) = served[r]
  BY <1>0 DEF Accounted
<1>2. /\ Flight \in Seq(Frames) /\ Flight' \in Seq(Frames) /\ queue[r] \in Seq(Events)
      /\ got[r] \in Nat /\ served[r] \in Nat /\ Queued(r) \in Nat /\ Flying(r) \in Nat
  <2>1. Flight \in Seq(Frames) /\ Flight' \in Seq(Frames) /\ queue[r] \in Seq(Events)
    BY <1>0, FlightType, FlightStays DEF TypeOK
  <2>2. QED
    BY <1>0, <2>1, CountType DEF TypeOK, Queued, Flying
<1>3. queue'[r] = queue[r] => Queued(r)' = Queued(r) /\ (IsLost(r)' <=> IsLost(r))
  BY DEF IsLost, Queued
<1>4. Going /\ r \notin streams => NoneOf(r, Flight) /\ Flying(r) = 0
  BY <1>2, NoMore, NoneCounted DEF LifeIInv, Flying
<1>5. ASSUME NEW s \in Streams, CallerStep(s)
      PROVE  Sum
  <2>0. Flying(r)' = Flying(r) /\ served' = served
    BY <1>0, <1>5, CallerFrame DEF Flying
  <2>1. CASE r # s
    <3>1. /\ queue'[r] = queue[r] /\ got'[r] = got[r] /\ cancelled'[r] = cancelled[r]
          /\ pc'[Caller(r)] = pc[Caller(r)]
      BY <1>0, <1>5, <2>1, CallerFrame
    <3>2. QED
      BY <1>1, <1>3, <2>0, <3>1
  <2>2. CASE r = s /\ Open(s)
    <3>1. /\ queue[r] = <<>> /\ got[r] = 0 /\ served[r] = 0 /\ NoneOf(r, Flight)
          /\ UNCHANGED <<queue, got>>
      BY <1>0, <2>2 DEF Open, NothingBefore, callVars
    <3>2. Queued(r) = 0
      <4>1. Len(queue[r]) = 0
        BY <3>1, EmptySeq
      <4>2. \A i \in 1..Len(queue[r]) : queue[r][i] \notin Messages
        BY <4>1
      <4>3. QED
        BY <1>2, <4>2, CountType DEF Queued
    <3>3. Flying(r) = 0
      BY <1>2, <3>1, NoneCounted DEF Flying
    <3>4. QED
      BY <1>3, <2>0, <3>1, <3>2, <3>3
  <2>3. CASE r = s /\ ReceiveMessage(s)
    <3>1. /\ pc[Caller(r)] \in Live /\ cancelled[r] = cancelled'[r]
          /\ queue[r] # <<>> /\ Head(queue[r]) = "data" /\ queue'[r] = Tail(queue[r])
          /\ got'[r] = got[r] + 1
      BY <1>0, <2>3 DEF ReceiveMessage, Took, TypeOK, Live
    <3>2. ~IsLost(r)
      BY <1>0, <3>1, LostFacts
    <3>3. Queued(r) = Queued(r)' + 1
      BY <1>2, <3>1, TakeFacts DEF Queued, Messages
    <3>4. Queued(r)' \in Nat
      <4>1. Tail(queue[r]) \in Seq(Events)
        BY <1>2, <3>1, TakeFacts
      <4>2. QED
        BY <3>1, <4>1, CountType DEF Queued
    <3>5. QED
      BY <1>1, <1>2, <2>0, <3>1, <3>2, <3>3, <3>4
  <2>4. CASE r = s /\ ~Open(s) /\ ~ReceiveMessage(s)
    <3>1. ~(SendRefused(s) \/ ReceiveError(s) \/ Interrupt(s))
      BY <1>0, <2>4, RaiseFacts DEF SendRefused, ReceiveError, Interrupt, Live
    <3>2. ~StartCancel(s)
      BY <1>0, <2>4 DEF StartCancel, TypeOK
    <3>3. ~(OpenRefused(s) \/ OpenFails(s) \/ ReceiveEnd(s))
      BY <1>0, <2>4, GoFacts DEF OpenRefused, OpenFails, ReceiveEnd, Live
    <3>4. UNCHANGED <<queue, got, cancelled>> /\ pc[Caller(r)] \in Live
      BY <1>5, <2>4, <3>1, <3>2, <3>3 DEF CallerStep, OpenFlushed, Send, MaySend, Starve,
         SendFlushed, AskNext, tableVars, callVars, Live
    <3>5. QED
      BY <1>1, <1>3, <2>0, <3>4
  <2>5. QED
    BY <2>1, <2>2, <2>3, <2>4
<1>6. ASSUME NEW t \in Tasks, CancelStep(t)
      PROVE  Sum
  <2>1. UNCHANGED <<Flight, served, queue, cancelled, got>>
    BY <1>0, <1>6, CancelFrame
  <2>2. pc[Caller(r)] = pc'[Caller(r)]
    BY <1>0, <1>6, CancelFrame DEF Live
  <2>3. QED
    BY <1>1, <1>3, <2>1, <2>2 DEF Flying
<1>7. CASE OtherStep
  <2>0. UNCHANGED <<got, cancelled>> /\ pc[Caller(r)] \in Live
    BY <1>0, <1>7, OtherMoves DEF Live
  <2>1. ASSUME ~IsLost(r), Queued(r)' = Queued(r), Flying(r)' = Flying(r), served'[r] = served[r]
        PROVE  Sum
    BY <1>1, <2>0, <2>1
  <2>2. CASE Cut
    <3>1. CASE r \in streams
      <4>1. queue'[r] = Append(queue[r], "lost")
        BY <1>0, <2>2, <3>1 DEF Cut, FailAll, RegisteredIsLive
      <4>2. /\ Len(queue'[r]) = Len(queue[r]) + 1 /\ Len(queue[r]) \in Nat
            /\ queue'[r][Len(queue[r]) + 1] = "lost"
        BY <1>2, <4>1, PutFacts, FrameFacts
      <4>3. IsLost(r)'
        BY <4>2 DEF IsLost
      <4>4. QED
        BY <4>3
    <3>2. CASE r \notin streams
      <4>1. queue'[r] = queue[r] /\ served' = served
        BY <2>2, <3>2 DEF Cut, FailAll
      <4>2. Flying(r) = 0 /\ NoneOf(r, Flight')
        BY <1>0, <1>2, <1>3, <1>4, <2>0, <2>2, <3>2, <4>1, NoneStays
      <4>3. Flying(r)' = 0
        BY <1>2, <4>2, NoneCounted DEF Flying
      <4>4. QED
        BY <1>3, <2>1, <4>1, <4>2, <4>3
    <3>3. QED
      BY <3>1, <3>2
  <2>3. CASE Dropped
    <3>1. queue' = queue /\ served' = served /\ Flight # <<>> /\ Flight' = Tail(Flight)
      BY <2>3 DEF Dropped
    <3>2. ~IsLost(r)
      BY <1>3, <3>1
    <3>3. Head(Flight) \notin MessagesOf(r)
      <4>1. CASE r \in streams
        BY <2>3, <4>1 DEF Dropped, FramesOf, MessagesOf
      <4>2. CASE r \notin streams
        <5>1. NoneOf(r, Flight)
          BY <1>4, <2>0, <3>2, <4>2
        <5>2. 1 \in 1..Len(Flight) /\ Head(Flight) = Flight[1]
          BY <1>2, <3>1, TakeFacts
        <5>3. QED
          BY <5>1, <5>2 DEF NoneOf, FramesOf, MessagesOf
      <4>3. QED
        BY <4>1, <4>2
    <3>4. Flying(r)' = Flying(r)
      <4>1. Flying(r) = Flying(r)' + 0 /\ Flying(r)' \in Nat
        BY <1>2, <3>1, <3>3, TakeFacts, CountType DEF Flying
      <4>2. QED
        BY <4>1
    <3>5. QED
      BY <1>3, <2>1, <3>1, <3>2, <3>4
  <2>4. CASE Noticed
    <3>1. PICK f \in Frames : f \notin FramesOf(r) /\ Flight' = Append(Flight, f)
      BY <2>4, FrameFacts DEF Noticed
    <3>2. f \notin MessagesOf(r)
      BY <3>1 DEF FramesOf, MessagesOf
    <3>3. Flying(r)' = Flying(r) + 0
      BY <1>2, <3>1, <3>2, PutFacts DEF Flying
    <3>4. Flying(r)' = Flying(r)
      BY <1>2, <3>3
    <3>5. QED
      BY <1>3, <2>1, <2>4, <3>4 DEF Noticed
  <2>5. CASE Still
    BY <1>3, <2>1, <2>5 DEF Still, Flying
  <2>6. ASSUME NEW s \in Streams, NEW k \in Messages \cup Ends, Delivered(s, k)
        PROVE  Sum
    <3>1. /\ Flight # <<>> /\ Flight' = Tail(Flight) /\ Head(Flight) = <<k, s>>
          /\ served' = served /\ k \in Events
      BY <2>6, FrameFacts DEF Delivered
    <3>2. /\ Flying(r)' \in Nat
          /\ Flying(r) = Flying(r)' + (IF <<k, s>> \in MessagesOf(r) THEN 1 ELSE 0)
      <4>1. Flying(r)' \in Nat
        BY <1>2, CountType DEF Flying
      <4>2. Count(MessagesOf(r), Flight) = Count(MessagesOf(r), Flight')
              + (IF Head(Flight) \in MessagesOf(r) THEN 1 ELSE 0)
        BY <1>2, <3>1, TakeFacts
      <4>3. QED
        BY <3>1, <4>1, <4>2 DEF Flying
    <3>3. CASE r # s
      <4>1. queue'[r] = queue[r] /\ <<k, s>> \notin MessagesOf(r)
        BY <1>0, <2>6, <3>3 DEF Delivered, TypeOK, MessagesOf
      <4>2. Flying(r)' = Flying(r)
        BY <3>2, <4>1
      <4>3. QED
        BY <1>3, <2>1, <3>1, <4>1, <4>2
    <3>4. CASE r = s
      <4>1. queue'[r] = Append(queue[r], k)
        BY <1>0, <2>6, <3>4 DEF Delivered, TypeOK
      <4>2. ~IsLost(r)
        BY <1>0, <3>1, <4>1, LostFacts
      <4>3. Queued(r)' = Queued(r) + (IF k \in Messages THEN 1 ELSE 0)
        BY <1>2, <3>1, <4>1, PutFacts DEF Queued
      <4>4. <<k, s>> \in MessagesOf(r) <=> k \in Messages
        BY <3>4 DEF MessagesOf
      <4>5. CASE k \in Messages
        <5>1. Queued(r)' = Queued(r) + 1 /\ Flying(r) = Flying(r)' + 1
          BY <3>2, <4>3, <4>4, <4>5
        <5>2. got'[r] = got[r] /\ served'[r] = served[r] /\ got[r] + Queued(r) + Flying(r) = served[r]
          BY <1>1, <2>0, <3>1, <4>2
        <5>3. QED
          BY <1>2, <3>2, <5>1, <5>2
      <4>6. CASE k \notin Messages
        <5>1. Queued(r)' = Queued(r) + 0 /\ Flying(r) = Flying(r)' + 0
          BY <3>2, <4>3, <4>4, <4>6
        <5>2. got'[r] = got[r] /\ served'[r] = served[r] /\ got[r] + Queued(r) + Flying(r) = served[r]
          BY <1>1, <2>0, <3>1, <4>2
        <5>3. QED
          BY <1>2, <3>2, <5>1, <5>2
      <4>7. QED
        BY <4>5, <4>6
    <3>5. QED
      BY <3>3, <3>4
  <2>7. ASSUME NEW s \in Streams, NEW k \in Messages \cup Ends, Sent(s, k)
        PROVE  Sum
    <3>1. queue' = queue /\ Flight' = Append(Flight, <<k, s>>) /\ <<k, s>> \in Frames
      BY <2>7, FrameFacts DEF Sent
    <3>2. Flying(r)' = Flying(r) + (IF <<k, s>> \in MessagesOf(r) THEN 1 ELSE 0)
      BY <1>2, <3>1, PutFacts DEF Flying
    <3>3. <<k, s>> \in MessagesOf(r) <=> k \in Messages /\ r = s
      BY DEF MessagesOf
    <3>4. served'[r] = served[r] + (IF k \in Messages /\ r = s THEN 1 ELSE 0)
      <4>1. k \in Ends <=> k \notin Messages
        BY FrameFacts
      <4>2. QED
        BY <1>0, <1>2, <2>7, <4>1 DEF Sent, TypeOK
    <3>5. Queued(r)' = Queued(r) /\ ~IsLost(r)
      BY <1>3, <3>1
    <3>6. CASE k \in Messages /\ r = s
      <4>1. Flying(r)' = Flying(r) + 1 /\ served'[r] = served[r] + 1
        BY <3>2, <3>3, <3>4, <3>6
      <4>2. got'[r] = got[r] /\ got[r] + Queued(r) + Flying(r) = served[r]
        BY <1>1, <2>0, <3>5
      <4>3. got[r] \in Nat /\ Queued(r) \in Nat /\ Flying(r) \in Nat
        BY <1>2
      <4>4. (got[r] + Queued(r)) + (Flying(r) + 1) = (got[r] + Queued(r) + Flying(r)) + 1
        BY <4>3
      <4>5. got[r] + Queued(r) + (Flying(r) + 1) = served[r] + 1
        BY <4>2, <4>4
      <4>6. QED
        BY <3>5, <4>1, <4>2, <4>5
    <3>7. CASE ~(k \in Messages /\ r = s)
      <4>1. Flying(r)' = Flying(r) + 0 /\ served'[r] = served[r] + 0
        BY <3>2, <3>3, <3>4, <3>7
      <4>2. got'[r] = got[r] /\ got[r] + Queued(r) + Flying(r) = served[r]
        BY <1>1, <2>0, <3>5
      <4>3. QED
        BY <1>2, <3>5, <4>1, <4>2
    <3>8. QED
      BY <3>6, <3>7
  <2>8. QED
    BY <1>0, <1>7, <2>2, <2>3, <2>4, <2>5, <2>6, <2>7, OtherEffects
<1>8. QED
  BY <1>5, <1>6, <1>7, Steps

\* The status a caller takes from its queue is the robot's, and comes with the
\* whole answer.
LEMMA TakenStatus ==
    ASSUME LifeIInv, NEW s \in Streams, ReceiveEnd(s), ~cancelled[s]
    PROVE  peer[s] = Head(queue[s]) /\ todo[s] = 0 /\ got[s] = served[s]
<1> USE DEF At
<1>0. TypeOK /\ RequestIsSent /\ QueueIsInOrder /\ Accounted
  BY DEF LifeIInv, IInv
<1>1. pc[Caller(s)] = "get" /\ queue[s] # <<>> /\ Head(queue[s]) \in {"ok", "bad"}
  BY DEF ReceiveEnd, Took
<1>2. queue[s] \in Seq(Events) /\ Flight \in Seq(Frames)
  BY <1>0, FlightType DEF TypeOK
<1>3. Len(queue[s]) \in Nat \ {0} /\ queue[s][1] = Head(queue[s])
  BY <1>1, <1>2, TakeFacts
<1>4. 1 \in 1..Len(queue[s]) /\ queue[s][1] \in Ends \cap Terminals
  BY <1>1, <1>3, FrameFacts DEF Ends
<1>5. Len(queue[s]) = 1 /\ peer[s] = queue[s][1] /\ NoneOf(s, Flight)
  BY <1>0, <1>3, <1>4 DEF QueueIsInOrder
<1>6. \A i \in 1..Len(queue[s]) : queue[s][i] \in {"ok", "bad"}
  BY <1>1, <1>3, <1>5
<1>7. ~IsLost(s) /\ \A i \in 1..Len(queue[s]) : queue[s][i] \notin Messages
  BY <1>6 DEF IsLost, Messages
<1>8. Queued(s) = 0 /\ Flying(s) = 0
  BY <1>2, <1>5, <1>7, CountType, NoneCounted DEF Queued, Flying
<1>9. got[s] + Queued(s) + Flying(s) = served[s]
  BY <1>0, <1>1, <1>7 DEF Accounted, Live
<1>10. got[s] = served[s]
  BY <1>0, <1>8, <1>9 DEF TypeOK
<1>11. todo[s] = 0
  BY <1>0, <1>1 DEF RequestIsSent
<1>12. QED
  BY <1>3, <1>5, <1>10, <1>11

\* So a call that takes the end of its stream for a success has had everything.
LEMMA TakenEnd ==
    ASSUME LifeIInv, NEW s \in Streams, ReceiveEnd(s), outcome'[s] = "ok", outcome[s] # "ok"
    PROVE  peer[s] = "ok" /\ todo[s] = 0 /\ got[s] = served[s]
<1>1. ~cancelled[s] /\ Head(queue[s]) = "ok"
  BY DEF LifeIInv, IInv, TypeOK, ReceiveEnd, Took
<1>2. QED
  BY <1>1, TakenStatus

\* A call succeeds in the step in which it takes the end of its stream, and
\* nothing happens to it after that.
LEMMA SuccessStep ==
    ASSUME LifeIInv, [Next]_vars
    PROVE  SuccessIsOver' /\ SuccessIsComplete'
<1> USE TaskFacts DEF At
<1>0. /\ TypeOK /\ BatchIsTaken /\ ShutdownClearsStreams /\ SuccessIsOver /\ SuccessIsComplete
  BY DEF LifeIInv, IInv
<1> SUFFICES ASSUME NEW r \in Streams, outcome'[r] = "ok"
             PROVE  /\ pc'[Caller(r)] = "done"
                    /\ peer'[r] = "ok" /\ todo'[r] = 0 /\ got'[r] = served'[r]
  BY DEF SuccessIsOver, SuccessIsComplete
<1> DEFINE Complete == /\ pc[Caller(r)] = "done"
                       /\ peer[r] = "ok" /\ todo[r] = 0 /\ got[r] = served[r]
<1>1. outcome[r] = "ok" => Complete
  BY <1>0 DEF SuccessIsOver, SuccessIsComplete
<1>2. ASSUME NEW s \in Streams, CallerStep(s)
      PROVE  Complete'
  <2>1. CASE r # s
    BY <1>0, <1>1, <1>2, <2>1, CallerFrame
  <2>2. CASE r = s
    <3>1. outcome[s] # "ok"
      BY <1>0, <1>1, <1>2, <2>2, CallerMoves
    <3>2. ReceiveEnd(s)
      <4>1. ~(SendRefused(s) \/ ReceiveError(s) \/ Interrupt(s))
        BY <1>0, <2>2 DEF SendRefused, ReceiveError, Interrupt, Raise, TypeOK
      <4>2. ~(OpenRefused(s) \/ OpenFails(s) \/ AskNext(s))
        BY <1>0, <2>2, <3>1 DEF OpenRefused, OpenFails, AskNext, TypeOK
      <4>3. outcome' # outcome
        BY <2>2, <3>1
      <4>4. QED
        BY <1>2, <4>1, <4>2, <4>3 DEF CallerStep, Open, OpenFlushed, Send, Starve,
           SendFlushed, ReceiveMessage, StartCancel, callVars
    <3>3. peer[s] = "ok" /\ todo[s] = 0 /\ got[s] = served[s]
      BY <2>2, <3>1, <3>2, TakenEnd
    <3>4. pc'[Caller(s)] = "done"
      BY <1>0, <3>2, GoFacts DEF ReceiveEnd
    <3>5. QED
      BY <2>2, <3>2, <3>3, <3>4 DEF ReceiveEnd, peerVars
  <2>3. QED
    BY <2>1, <2>2
<1>3. ASSUME NEW t \in Tasks, CancelStep(t)
      PROVE  Complete'
  BY <1>0, <1>1, <1>3, CancelFrame
<1>4. CASE OtherStep
  <2>1. Complete
    BY <1>0, <1>1, <1>4, OtherMoves
  <2>2. pc'[Caller(r)] = "done" /\ UNCHANGED <<todo, got>>
    BY <1>0, <1>4, <2>1, OtherMoves
  <2>3. peer'[r] = peer[r] /\ served'[r] = served[r]
    <3>1. CASE Cut \/ Dropped \/ Noticed \/ Still
      BY <3>1 DEF Cut, Dropped, Noticed, Still
    <3>2. ASSUME NEW s \in Streams, NEW k \in Messages \cup Ends, Delivered(s, k) \/ Sent(s, k)
          PROVE  peer'[r] = peer[r] /\ served'[r] = served[r]
      BY <1>0, <2>1, <3>2 DEF Delivered, Sent, TypeOK
    <3>3. QED
      BY <1>0, <1>4, <3>1, <3>2, OtherEffects
  <2>4. QED
    BY <2>1, <2>2, <2>3
<1>5. QED
  BY <1>2, <1>3, <1>4, Steps

\* It holds before anything has happened ...
LEMMA LifeInit == Init => LifeIInv
<1> SUFFICES ASSUME Init
             PROVE  LifeIInv
  OBVIOUS
<1> USE DEF At
<1>1. IInv /\ TypeOK
  BY IInvInit DEF IInv
<1>2. \A t \in Tasks : pc[t] = "idle"
  BY DEF Init
<1>3. Flight = <<>> /\ Len(Flight) = 0
  BY <1>1, FlightType, EmptySeq DEF Init
<1>4. \A s \in Streams : Len(queue[s]) = 0
  BY EmptySeq DEF Init
<1>5. \A s : NoneOf(s, Flight)
  BY <1>3 DEF NoneOf
<1>6. BatchIsTaken /\ CancelIsFollowed
  BY DEF BatchIsTaken, CancelIsFollowed, Init
<1>7. NothingBefore
  BY <1>5 DEF NothingBefore, Init
<1>8. EndIsOut
  BY <1>2 DEF EndIsOut, Init
<1>9. FlightIsInOrder /\ QueueIsInOrder
  BY <1>3, <1>4 DEF FlightIsInOrder, QueueIsInOrder, InOrder
<1>10. RequestIsSent /\ Accounted
  BY <1>2, TaskFacts DEF RequestIsSent, Accounted, Live
<1>11. SuccessIsOver /\ SuccessIsComplete
  BY DEF SuccessIsOver, SuccessIsComplete, Init
<1>12. QED
  BY <1>1, <1>6, <1>7, <1>8, <1>9, <1>10, <1>11 DEF LifeIInv

\* ... and after every step.
LEMMA LifeStep == LifeIInv /\ [Next]_vars => LifeIInv'
<1> SUFFICES ASSUME LifeIInv, [Next]_vars
             PROVE  LifeIInv'
  OBVIOUS
<1>1. IInv'
  BY IInvStep DEF LifeIInv
<1>2. BatchIsTaken' /\ NothingBefore' /\ EndIsOut' /\ CancelIsFollowed'
  BY BatchIsTakenStep, NothingBeforeStep, EndIsOutStep, CancelIsFollowedStep
<1>3. FlightIsInOrder' /\ QueueIsInOrder' /\ RequestIsSent' /\ Accounted'
  BY FlightOrderStep, QueueOrderStep, RequestSentStep, AccountedStep
<1>4. SuccessIsOver' /\ SuccessIsComplete'
  BY SuccessStep
<1>5. QED
  BY <1>1, <1>2, <1>3, <1>4 DEF LifeIInv

\* The stronger invariant holds in every state, whatever the sizes.
THEOREM LifeInvariance == Spec => []LifeIInv
BY LifeInit, LifeStep, PTL DEF Spec

\* A call that reports success has sent its whole request, has been handed all
\* the robot sent on its stream, and the robot ended that stream with status 0.
THEOREM CompleteSuccess == Spec => []SuccessIsComplete
<1>1. LifeIInv => SuccessIsComplete
  BY DEF LifeIInv
<1>2. QED
  BY <1>1, LifeInvariance, PTL

\* A stream whose call is over leaves the table, or somebody was to see to it.
THEOREM FinishedIsForgotten == Spec => []FinishedCallIsForgotten
<1>1. LifeIInv => FinishedCallIsForgotten
  BY DEF LifeIInv, CancelIsFollowed, FinishedCallIsForgotten
<1>2. QED
  BY <1>1, LifeInvariance, PTL
------------------------------------------------------------------------------
(* The transport implements GrpcCalls.                                       *)

\* A call that has been told something is over, but for the reset of its stream;
\* one that goes on has begun, and only who shares it can have cancelled it.
CallsAreInOrder ==
    \A s \in Streams :
        /\ outcome[s] # "none" => pc[Caller(s)] \in {"reset", "resetFlush", "done"}
        /\ pc[Caller(s)] \in Live =>
              peer[s] # "none" /\ (cancelled[s] \/ rcvdEnd[s] => s \in Contested)

\* What is handed over, queued and in flight has been served, whatever is cut.
NothingInvented == \A s \in Streams : got[s] + Queued(s) + Flying(s) <= served[s]

CallsIInv == LifeIInv /\ CallsAreInOrder /\ NothingInvented

\* The end of a sequence has no more of anything.
LEMMA SuffixCount ==
    ASSUME NEW S, NEW T, NEW p \in Seq(S), NEW q \in Seq(S), Suffix(q, p)
    PROVE  Count(T, q) <= Count(T, p)
<1> DEFINE I == {i \in 1..Len(p) : p[i] \in T}
           J == {i \in 1..Len(q) : q[i] \in T}
<1>1. Len(p) \in Nat /\ Len(q) \in Nat
  BY LenProperties
<1>2. PICK m \in Nat : Len(q) = Len(p) - m /\ \A i \in 1..Len(q) : q[i] = p[i + m]
  BY DEF Suffix
<1> DEFINE f == [j \in J |-> j + m]
<1>3. IsFiniteSet(I) /\ IsFiniteSet(J)
  BY CountType
<1>4. \A j \in J : j + m \in I
  BY <1>1, <1>2
<1>5. \A i, j \in J : i + m = j + m => i = j
  BY <1>2
<1>6. f \in Injection(J, I)
  <2>1. f \in [J -> I] /\ \A j \in J : f[j] = j + m
    BY <1>4
  <2> HIDE DEF I, J, f
  <2>2. \A i, j \in J : f[i] = f[j] => i = j
    BY <1>5, <2>1
  <2>3. QED
    BY <2>1, <2>2 DEF Injection, IsInjective
<1> HIDE DEF I, J, f
<1>7. Cardinality(J) <= Cardinality(I)
  BY <1>3, <1>6, FS_Injection
<1>8. QED
  BY <1>7 DEF Count, I, J

\* What a call is told ends it, and only who shares it cancels a call that goes on.
LEMMA CallsInOrderStep ==
    ASSUME CallsIInv, [Next]_vars
    PROVE  CallsAreInOrder'
<1> USE TaskFacts DEF At
<1>0. /\ TypeOK /\ BatchIsTaken /\ ShutdownClearsStreams /\ ResetIsCancelled /\ EndIsOut
      /\ NothingBefore /\ CallsAreInOrder
  BY DEF CallsIInv, LifeIInv, IInv
<1> SUFFICES ASSUME NEW r \in Streams
             PROVE  /\ outcome'[r] # "none" => pc'[Caller(r)] \in {"reset", "resetFlush", "done"}
                    /\ pc'[Caller(r)] \in Live =>
                         peer'[r] # "none" /\ (cancelled'[r] \/ rcvdEnd'[r] => r \in Contested)
  BY DEF CallsAreInOrder
<1> DEFINE Fine == /\ outcome[r] # "none" => pc[Caller(r)] \in {"reset", "resetFlush", "done"}
                   /\ pc[Caller(r)] \in Live =>
                         peer[r] # "none" /\ (cancelled[r] \/ rcvdEnd[r] => r \in Contested)
<1>1. Fine
  BY <1>0 DEF CallsAreInOrder
<1>2. ASSUME NEW s \in Streams, CallerStep(s)
      PROVE  Fine'
  <2>1. CASE r # s
    <3>1. /\ outcome'[r] = outcome[r] /\ pc'[Caller(r)] = pc[Caller(r)] /\ peer'[r] = peer[r]
          /\ cancelled'[r] = cancelled[r] /\ rcvdEnd'[r] = rcvdEnd[r]
      BY <1>0, <1>2, <2>1, CallerFrame
    <3>2. QED
      BY <1>1, <3>1
  <2>2. CASE r = s /\ (SendRefused(s) \/ ReceiveError(s) \/ Interrupt(s))
    BY <1>0, <2>2, RaiseFacts DEF SendRefused, ReceiveError, Interrupt, Live
  <2>3. CASE r = s /\ (OpenRefused(s) \/ OpenFails(s) \/ ReceiveEnd(s))
    BY <1>0, <2>3, GoFacts DEF OpenRefused, OpenFails, ReceiveEnd, Live
  <2>4. CASE r = s /\ Open(s)
    <3>1. /\ pc'[Caller(r)] = "openFlush" /\ peer'[r] = "open"
          /\ UNCHANGED <<outcome, cancelled, rcvdEnd>> /\ pc[Caller(r)] = "idle"
      BY <1>0, <2>4, GoFacts DEF Open, callVars, TypeOK
    <3>2. outcome[r] = "none" /\ ~cancelled[r] /\ ~rcvdEnd[r]
      BY <1>0, <3>1 DEF NothingBefore
    <3>3. QED
      BY <3>1, <3>2
  <2>5. CASE r = s /\ StartCancel(s)
    <3>1. s \in Contested /\ pc'[Caller(r)] = pc[Caller(r)] /\ UNCHANGED <<outcome, peer>>
      BY <1>0, <2>5, MoveFacts DEF StartCancel, peerVars
    <3>2. QED
      BY <1>1, <2>5, <3>1
  <2>6. CASE r = s /\ AskNext(s)
    <3>1. pc[Caller(r)] = "next" /\ UNCHANGED <<rcvdEnd, cancelled, peer>>
      BY <2>6 DEF AskNext, peerVars
    <3>2. CASE rcvdEnd[s]
      BY <1>0, <2>6, <3>2, GoFacts DEF AskNext, Live
    <3>3. CASE ~rcvdEnd[s]
      <4>1. outcome'[r] = outcome[r]
        BY <1>0, <2>6, <3>3 DEF AskNext, TypeOK
      <4>2. QED
        BY <1>1, <3>1, <4>1 DEF Live
    <3>4. QED
      BY <3>2, <3>3
  <2>7. CASE r = s /\ ~(\/ SendRefused(s) \/ ReceiveError(s) \/ Interrupt(s) \/ OpenRefused(s)
                        \/ OpenFails(s) \/ ReceiveEnd(s) \/ Open(s) \/ StartCancel(s) \/ AskNext(s))
    <3>1. /\ pc[Caller(r)] \in Live /\ UNCHANGED <<outcome, rcvdEnd, cancelled, peer>>
      BY <1>2, <2>7 DEF CallerStep, OpenFlushed, Send, MaySend, Starve, SendFlushed,
         ReceiveMessage, Took, callVars, peerVars, Live
    <3>2. QED
      BY <1>1, <3>1 DEF Live
  <2>8. QED
    BY <2>1, <2>2, <2>3, <2>4, <2>5, <2>6, <2>7
<1>3. ASSUME NEW t \in Tasks, CancelStep(t)
      PROVE  Fine'
  <2>1. UNCHANGED <<peer, cancelled, outcome>> /\ (r # t[2] => rcvdEnd'[r] = rcvdEnd[r])
    BY <1>0, <1>3, CancelFrame
  <2>2. /\ \A u \in Tasks : u # t => pc'[u] = pc[u]
        /\ pc'[t] \in {"done", "resetFlush"} /\ pc[t] \in {"reset", "resetFlush"}
    BY <1>0, <1>3, CancelFrame
  <2>3. cancelled[t[2]]
    BY <1>0, <2>2 DEF ResetIsCancelled, EndIsOut
  <2>4. QED
    BY <1>1, <2>1, <2>2, <2>3 DEF Live
<1>4. CASE OtherStep
  <2>1. UNCHANGED <<rcvdEnd, cancelled, outcome>>
    BY <1>0, <1>4, OtherMoves
  <2>2. \/ pc'[Caller(r)] = pc[Caller(r)]
        \/ pc[Caller(r)] = "window" /\ pc'[Caller(r)] = "send"
    BY <1>0, <1>4, OtherMoves
  <2>3. peer[r] # "none" => peer'[r] # "none"
    <3>1. CASE Cut \/ Dropped \/ Noticed \/ Still
      BY <3>1 DEF Cut, Dropped, Noticed, Still
    <3>2. ASSUME NEW s \in Streams, NEW k \in Messages \cup Ends, Delivered(s, k) \/ Sent(s, k),
                 peer[r] # "none"
          PROVE  peer'[r] # "none"
      BY <1>0, <3>2, FrameFacts DEF Delivered, Sent, TypeOK
    <3>3. QED
      BY <1>0, <1>4, <3>1, <3>2, OtherEffects
  <2>4. QED
    BY <1>1, <2>1, <2>2, <2>3 DEF Live
<1>5. QED
  BY <1>2, <1>3, <1>4, Steps

\* A caller hands over only what is queued, and the robot alone adds to the sum.
LEMMA NothingInventedStep ==
    ASSUME CallsIInv, [Next]_vars
    PROVE  NothingInvented'
<1> USE TaskFacts DEF At
<1>0. TypeOK /\ IInv /\ BatchIsTaken /\ ShutdownClearsStreams /\ NothingInvented
  BY DEF CallsIInv, LifeIInv, IInv
<1> SUFFICES ASSUME NEW r \in Streams
             PROVE  got'[r] + Queued(r)' + Flying(r)' <= served'[r]
  BY DEF NothingInvented
<1> DEFINE Sum == got'[r] + Queued(r)' + Flying(r)' <= served'[r]
<1>1. got[r] + Queued(r) + Flying(r) <= served[r]
  BY <1>0 DEF NothingInvented
<1>2. /\ Flight \in Seq(Frames) /\ Flight' \in Seq(Frames)
      /\ queue[r] \in Seq(Events) /\ queue'[r] \in Seq(Events)
  <2>1. TypeOK'
    BY <1>0, IInvStep DEF IInv
  <2>2. QED
    BY <1>0, <2>1, FlightType, FlightStays DEF TypeOK
<1>3. /\ got[r] \in Nat /\ served[r] \in Nat
      /\ Queued(r) \in Nat /\ Queued(r)' \in Nat /\ Flying(r) \in Nat /\ Flying(r)' \in Nat
  BY <1>0, <1>2, CountType DEF TypeOK, Queued, Flying
<1>4. queue'[r] = queue[r] => Queued(r)' = Queued(r)
  BY DEF Queued
<1>4a. ASSUME NEW k \in Events \ Messages, queue'[r] = Append(queue[r], k)
      PROVE  Queued(r)' = Queued(r)
  <2>1. Count(Messages, Append(queue[r], k)) = Count(Messages, queue[r])
          + (IF k \in Messages THEN 1 ELSE 0)
    BY <1>2, PutFacts
  <2>2. Queued(r)' = Queued(r) + 0
    BY <1>4a, <2>1 DEF Queued
  <2>3. QED
    BY <1>3, <2>2
<1>5. ASSUME got'[r] = got[r], served'[r] = served[r], Queued(r)' <= Queued(r),
             Flying(r)' <= Flying(r)
      PROVE  Sum
  BY <1>1, <1>3, <1>5
<1>6. ASSUME NEW s \in Streams, CallerStep(s)
      PROVE  Sum
  <2>1. Flying(r)' = Flying(r) /\ served' = served
    BY <1>0, <1>6, CallerFrame DEF Flying
  <2>2. CASE r # s
    <3>1. queue'[r] = queue[r] /\ got'[r] = got[r]
      BY <1>0, <1>6, <2>2, CallerFrame
    <3>2. QED
      BY <1>3, <1>4, <1>5, <2>1, <3>1
  <2>3. CASE r = s /\ (ReceiveMessage(s) \/ ReceiveEnd(s) \/ ReceiveError(s))
    <3>1. queue[r] # <<>> /\ queue'[r] = Tail(queue[r])
      BY <1>0, <2>3 DEF ReceiveMessage, ReceiveEnd, ReceiveError, Took, TypeOK
    <3>2. Queued(r) = Queued(r)' + (IF Head(queue[r]) \in Messages THEN 1 ELSE 0)
      BY <1>2, <3>1, TakeFacts DEF Queued
    <3>3. CASE ReceiveMessage(s)
      <4>1. got'[r] = got[r] + 1 /\ Head(queue[r]) \in Messages
        BY <1>0, <2>3, <3>3 DEF ReceiveMessage, Took, TypeOK, Messages
      <4>2. Queued(r) = Queued(r)' + 1
        BY <3>2, <4>1
      <4>3. QED
        BY <1>1, <1>3, <2>1, <4>1, <4>2
    <3>4. CASE ReceiveEnd(s) \/ ReceiveError(s)
      <4>1. got' = got
        BY <3>4 DEF ReceiveEnd, ReceiveError
      <4>2. Queued(r)' <= Queued(r)
        BY <1>3, <3>2
      <4>3. QED
        BY <1>3, <1>5, <2>1, <4>1, <4>2
    <3>5. QED
      BY <2>3, <3>3, <3>4
  <2>4. CASE r = s /\ ~(ReceiveMessage(s) \/ ReceiveEnd(s) \/ ReceiveError(s))
    <3>1. UNCHANGED <<queue, got>>
      BY <1>6, <2>4 DEF CallerStep, Open, OpenRefused, OpenFlushed, OpenFails, Send, Starve,
         SendRefused, SendFlushed, AskNext, Interrupt, StartCancel, tableVars, callVars
    <3>2. QED
      BY <1>3, <1>4, <1>5, <2>1, <3>1
  <2>5. QED
    BY <2>2, <2>3, <2>4
<1>7. ASSUME NEW t \in Tasks, CancelStep(t)
      PROVE  Sum
  <2>1. UNCHANGED <<Flight, served, queue, got>>
    BY <1>0, <1>7, CancelFrame
  <2>2. QED
    BY <1>3, <1>4, <1>5, <2>1 DEF Flying
<1>8. CASE OtherStep
  <2>0. got' = got
    BY <1>0, <1>8, OtherMoves
  <2>1. CASE Cut
    <3>1. Suffix(Flight', Flight) /\ served' = served
      BY <2>1 DEF Cut
    <3>2. Flying(r)' <= Flying(r)
      BY <1>2, <3>1, SuffixCount DEF Flying
    <3>3. queue'[r] = queue[r] \/ queue'[r] = Append(queue[r], "lost")
      BY <2>1 DEF Cut, FailAll
    <3>4. "lost" \in Events /\ "lost" \notin Messages
      BY FrameFacts
    <3>5. Queued(r)' = Queued(r)
      BY <1>4, <1>4a, <3>3, <3>4
    <3>6. Queued(r)' <= Queued(r)
      BY <1>3, <3>5
    <3>7. QED
      BY <1>5, <2>0, <3>1, <3>2, <3>6
  <2>2. CASE Dropped
    <3>1. Flight # <<>> /\ Flight' = Tail(Flight) /\ UNCHANGED <<queue, served>>
      BY <2>2 DEF Dropped
    <3>2. Flying(r)' <= Flying(r)
      BY <1>2, <3>1, TailIsSuffix, SuffixCount DEF Flying
    <3>3. QED
      BY <1>3, <1>4, <1>5, <2>0, <3>1, <3>2
  <2>3. CASE Noticed
    <3>1. PICK f \in Frames : f \notin FramesOf(r) /\ Flight' = Append(Flight, f)
      BY <2>3, FrameFacts DEF Noticed
    <3>2. f \notin MessagesOf(r)
      BY <3>1 DEF FramesOf, MessagesOf
    <3>3. Flying(r)' = Flying(r) + 0
      BY <1>2, <3>1, <3>2, PutFacts DEF Flying
    <3>4. QED
      BY <1>3, <1>4, <1>5, <2>0, <2>3, <3>3 DEF Noticed
  <2>4. CASE Still
    BY <1>3, <1>4, <1>5, <2>0, <2>4 DEF Still, Flying
  <2>5. ASSUME NEW s \in Streams, NEW k \in Messages \cup Ends, Delivered(s, k)
        PROVE  Sum
    <3>1. /\ Flight # <<>> /\ Flight' = Tail(Flight) /\ Head(Flight) = <<k, s>>
          /\ served' = served /\ k \in Events
      BY <2>5, FrameFacts DEF Delivered
    <3>2. Flying(r) = Flying(r)' + (IF <<k, s>> \in MessagesOf(r) THEN 1 ELSE 0)
      <4>1. Count(MessagesOf(r), Flight) = Count(MessagesOf(r), Flight')
              + (IF Head(Flight) \in MessagesOf(r) THEN 1 ELSE 0)
        BY <1>2, <3>1, TakeFacts
      <4>2. QED
        BY <3>1, <4>1 DEF Flying
    <3>3. CASE r # s \/ k \notin Messages
      <4>1. <<k, s>> \notin MessagesOf(r)
        BY <3>3 DEF MessagesOf
      <4>2. queue'[r] = queue[r] \/ (queue'[r] = Append(queue[r], k) /\ k \notin Messages)
        BY <1>0, <2>5, <3>3 DEF Delivered, TypeOK
      <4>3. Queued(r)' = Queued(r)
        BY <1>4, <1>4a, <3>1, <4>2
      <4>4. Flying(r) = Flying(r)' + 0
        BY <3>2, <4>1
      <4>5. Queued(r)' <= Queued(r) /\ Flying(r)' <= Flying(r)
        BY <1>3, <4>3, <4>4
      <4>6. QED
        BY <1>5, <2>0, <3>1, <4>5
    <3>4. CASE r = s /\ k \in Messages
      <4>1. <<k, s>> \in MessagesOf(r) /\ queue'[r] = Append(queue[r], k)
        BY <1>0, <2>5, <3>4 DEF Delivered, TypeOK, MessagesOf
      <4>2. Queued(r)' = Queued(r) + 1
        BY <1>2, <3>1, <3>4, <4>1, PutFacts DEF Queued
      <4>3. Flying(r) = Flying(r)' + 1
        BY <3>2, <4>1
      <4>4. got'[r] = got[r] /\ served'[r] = served[r]
        BY <2>0, <3>1
      <4>5. QED
        BY <1>1, <1>3, <4>2, <4>3, <4>4
    <3>5. QED
      BY <3>3, <3>4
  <2>6. ASSUME NEW s \in Streams, NEW k \in Messages \cup Ends, Sent(s, k)
        PROVE  Sum
    <3>1. queue' = queue /\ Flight' = Append(Flight, <<k, s>>) /\ <<k, s>> \in Frames
      BY <2>6, FrameFacts DEF Sent
    <3>2. Flying(r)' = Flying(r) + (IF <<k, s>> \in MessagesOf(r) THEN 1 ELSE 0)
      BY <1>2, <3>1, PutFacts DEF Flying
    <3>3. <<k, s>> \in MessagesOf(r) <=> k \in Messages /\ r = s
      BY DEF MessagesOf
    <3>4. served'[r] = served[r] + (IF k \in Messages /\ r = s THEN 1 ELSE 0)
      <4>1. k \in Ends <=> k \notin Messages
        BY FrameFacts
      <4>2. QED
        BY <1>0, <1>3, <2>6, <4>1 DEF Sent, TypeOK
    <3>5. \E d \in {0, 1} : Flying(r)' = Flying(r) + d /\ served'[r] = served[r] + d
      BY <3>2, <3>3, <3>4
    <3>6. QED
      BY <1>1, <1>3, <1>4, <2>0, <3>1, <3>5
  <2>7. QED
    BY <1>0, <1>8, <2>1, <2>2, <2>3, <2>4, <2>5, <2>6, OtherEffects
<1>9. QED
  BY <1>6, <1>7, <1>8, Steps

\* What the callers are promised holds before anything has happened ...
LEMMA CallsInit == Init => CallsIInv
<1> SUFFICES ASSUME Init
             PROVE  CallsIInv
  OBVIOUS
<1>1. LifeIInv /\ TypeOK
  BY LifeInit, IInvInit DEF LifeIInv, IInv
<1>2. CallsAreInOrder
  BY TaskFacts DEF Init, CallsAreInOrder, Live
<1>3. NothingInvented
  <2>1. Flight = <<>> /\ \A s \in Streams : queue[s] = <<>> /\ queue[s] \in Seq(Events)
    BY <1>1, FlightType DEF Init, TypeOK
  <2>2. Flight \in Seq(Frames) /\ Len(Flight) = 0 /\ \A s \in Streams : Len(queue[s]) = 0
    BY <1>1, <2>1, FlightType, EmptySeq
  <2>3. ASSUME NEW S, NEW T, NEW q \in Seq(S), Len(q) = 0
        PROVE  Count(T, q) = 0
    <3>1. \A i \in 1..Len(q) : q[i] \notin T
      BY <2>3
    <3>2. QED
      BY <3>1, CountType
  <2>3a. \A s \in Streams : Queued(s) = 0 /\ Flying(s) = 0
    BY <2>1, <2>2, <2>3 DEF Queued, Flying
  <2>4. QED
    BY <2>3a DEF NothingInvented, Init
<1>4. QED
  BY <1>1, <1>2, <1>3 DEF CallsIInv

\* ... and after every step.
LEMMA CallsStep == CallsIInv /\ [Next]_vars => CallsIInv'
<1> SUFFICES ASSUME CallsIInv, [Next]_vars
             PROVE  CallsIInv'
  OBVIOUS
<1>1. LifeIInv'
  BY LifeStep DEF CallsIInv
<1>2. QED
  BY <1>1, CallsInOrderStep, NothingInventedStep DEF CallsIInv

\* It holds in every state.
THEOREM CallsInvariance == Spec => []CallsIInv
BY CallsInit, CallsStep, PTL DEF Spec

\* The abstract state of the calls.
Asked == [s \in Streams |-> todo[s] = 0]
calls == <<peer, served, Asked, got, outcome>>

\* The caller of s alone can have more to say, or be done with it.
LEMMA AskedFacts ==
    ASSUME TypeOK, NEW s \in Streams, NEW n \in Nat, todo' = [todo EXCEPT ![s] = n]
    PROVE  Asked' = [Asked EXCEPT ![s] = (n = 0)]
<1>1. todo'[s] = n /\ \A r \in Streams : r # s => todo'[r] = todo[r]
  BY DEF TypeOK
<1>2. ASSUME NEW r \in Streams
      PROVE  Asked'[r] = [Asked EXCEPT ![s] = (n = 0)][r]
  <2>1. CASE r = s
    BY <1>1, <2>1, Zenon DEF Asked
  <2>2. CASE r # s
    BY <1>1, <2>2, Zenon DEF Asked
  <2>3. QED
    BY <2>1, <2>2
<1>3. QED
  BY <1>2, Zenon DEF Asked

\* A caller that is told something is told it once, and it is true.
LEMMA TellingStep ==
    ASSUME CallsIInv, NEW s \in Streams, NEW v, v \in {"ok", "status", "error", "stopped"},
           outcome[s] = "none", outcome' = [outcome EXCEPT ![s] = v],
           UNCHANGED <<peer, served, todo, got>>,
           v \in {"ok", "status"} => /\ peer[s] = IF v = "ok" THEN "ok" ELSE "bad"
                                     /\ todo[s] = 0 /\ got[s] = served[s],
           v = "stopped" => s \in Contested
    PROVE  Promise!Next
<1>1. Asked' = Asked /\ (todo[s] = 0 => Asked[s])
  BY DEF Asked
<1>2. Promise!Tell(s, v)
  BY <1>1 DEF Promise!Tell, Promise!Whole, Asked
<1>3. QED
  BY <1>2 DEF Promise!Next, Promise!Verdicts

\* A step of a caller is a step of its call, or none.
LEMMA CallerImplements ==
    ASSUME CallsIInv, NEW s \in Streams, CallerStep(s)
    PROVE  [Promise!Next]_calls
<1> USE TaskFacts DEF At
<1>0. TypeOK /\ CallsAreInOrder /\ NothingInvented /\ SenderHasData
  BY DEF CallsIInv, LifeIInv, IInv
<1>1. CASE Open(s)
  <2>1. outcome[s] = "none" /\ peer[s] = "none"
    BY <1>1 DEF Open, CallsIInv, LifeIInv, NothingBefore
  <2>2. Promise!Begin(s)
    BY <1>1, <2>1 DEF Open, callVars, Promise!Begin
  <2>3. QED
    BY <2>2 DEF Promise!Next
<1>2. CASE OpenRefused(s) \/ OpenFails(s)
  <2>1. outcome[s] = "none"
    BY <1>0, <1>2 DEF OpenRefused, OpenFails, CallsAreInOrder
  <2>2. outcome' = [outcome EXCEPT ![s] = "error"] /\ UNCHANGED <<peer, served, todo, got>>
    BY <1>2 DEF OpenRefused, OpenFails, peerVars
  <2>3. QED
    BY <2>1, <2>2, TellingStep
<1>3. CASE SendRefused(s) \/ ReceiveError(s) \/ Interrupt(s)
  <2>1. outcome[s] = "none"
    BY <1>0, <1>3 DEF SendRefused, ReceiveError, Took, Interrupt, CallsAreInOrder
  <2>2. outcome' = [outcome EXCEPT ![s] = "error"] /\ UNCHANGED <<peer, served, todo, got>>
    BY <1>3 DEF SendRefused, ReceiveError, Interrupt, Raise, peerVars
  <2>3. QED
    BY <2>1, <2>2, TellingStep
<1>4. CASE Send(s)
  <2>1. todo[s] > 0 /\ outcome[s] = "none" /\ peer[s] # "none"
    BY <1>0, <1>4 DEF Send, MaySend, SenderHasData, CallsAreInOrder, Live
  <2>2. todo' = [todo EXCEPT ![s] = @ - 1] /\ UNCHANGED <<peer, served, got, outcome>>
    BY <1>4 DEF Send, peerVars
  <2>3. CASE todo[s] = 1
    <3>1. Asked' = [Asked EXCEPT ![s] = TRUE] /\ ~Asked[s]
      <4>1. todo' = [todo EXCEPT ![s] = 0]
        BY <2>2, <2>3
      <4>2. Asked' = [Asked EXCEPT ![s] = (0 = 0)] /\ (0 = 0) = TRUE
        BY <1>0, <4>1, AskedFacts
      <4>3. ~Asked[s]
        <5>1. todo[s] # 0
          BY <2>3
        <5>2. Asked[s] = (todo[s] = 0)
          BY Zenon DEF Asked
        <5>3. QED
          BY <5>1, <5>2, Zenon
      <4>4. QED
        BY <4>2, <4>3, Zenon
    <3>2. Promise!Ask(s)
      BY <2>1, <2>2, <3>1 DEF Promise!Ask, Asked
    <3>3. QED
      BY <3>2 DEF Promise!Next
  <2>4. CASE todo[s] # 1
    <3>1. Asked' = Asked
      BY <1>0, <2>1, <2>2, <2>4 DEF Asked, TypeOK
    <3>2. QED
      BY <2>2, <3>1 DEF calls
  <2>5. QED
    BY <2>3, <2>4
<1>5. CASE ReceiveMessage(s)
  <2>1. /\ pc[Caller(s)] = "get" /\ queue[s] # <<>> /\ Head(queue[s]) = "data"
        /\ got' = [got EXCEPT ![s] = @ + 1] /\ UNCHANGED <<peer, served, outcome>>
        /\ todo' = todo \/ todo' = [todo EXCEPT ![s] = 1]
    BY <1>5 DEF ReceiveMessage, Took, peerVars
  <2>2. outcome[s] = "none" /\ todo[s] = 0
    BY <1>0, <2>1 DEF CallsAreInOrder, CallsIInv, LifeIInv, RequestIsSent
  <2>3. got[s] < served[s]
    <3>1. queue[s] \in Seq(Events) /\ Flight \in Seq(Frames)
      BY <1>0, FlightType DEF TypeOK
    <3>2. Queued(s) = Count(Messages, Tail(queue[s])) + 1
      BY <2>1, <3>1, TakeFacts DEF Queued, Messages
    <3>3. Tail(queue[s]) \in Seq(Events)
      BY <2>1, <3>1, TakeFacts
    <3>4. Count(Messages, Tail(queue[s])) \in Nat /\ Flying(s) \in Nat
      BY <3>1, <3>3, CountType DEF Flying
    <3>5. QED
      BY <1>0, <3>2, <3>4 DEF NothingInvented, TypeOK
  <2>4. \E b \in BOOLEAN : Asked' = [Asked EXCEPT ![s] = b]
    <3>1. CASE todo' = todo
      BY <2>2, <3>1 DEF Asked
    <3>2. CASE todo' = [todo EXCEPT ![s] = 1]
      <4>1. Asked' = [Asked EXCEPT ![s] = (1 = 0)]
        BY <1>0, <3>2, AskedFacts
      <4>2. QED
        BY <4>1
    <3>3. QED
      BY <2>1, <3>1, <3>2
  <2>5. Promise!Hand(s)
    BY <2>1, <2>2, <2>3, <2>4 DEF Promise!Hand, Asked
  <2>6. QED
    BY <2>5 DEF Promise!Next
<1>6. CASE ReceiveEnd(s)
  <2>1. outcome[s] = "none" /\ UNCHANGED <<peer, served, todo, got>>
    BY <1>0, <1>6 DEF ReceiveEnd, Took, CallsAreInOrder, peerVars
  <2>2. CASE cancelled[s]
    <3>1. s \in Contested /\ outcome' = [outcome EXCEPT ![s] = "stopped"]
      BY <1>0, <1>6, <2>2 DEF ReceiveEnd, Took, CallsAreInOrder, Live
    <3>2. QED
      BY <2>1, <3>1, TellingStep
  <2>3. CASE ~cancelled[s]
    <3>1. peer[s] = Head(queue[s]) /\ todo[s] = 0 /\ got[s] = served[s]
      BY <1>6, <2>3, TakenStatus DEF CallsIInv
    <3>2. \E v \in {"ok", "status"} :
             /\ outcome' = [outcome EXCEPT ![s] = v]
             /\ peer[s] = IF v = "ok" THEN "ok" ELSE "bad"
      BY <1>6, <2>3, <3>1 DEF ReceiveEnd, Took
    <3>3. QED
      BY <2>1, <3>1, <3>2, TellingStep
  <2>4. QED
    BY <2>2, <2>3
<1>7. CASE AskNext(s)
  <2>1. outcome[s] = "none" /\ UNCHANGED <<peer, served, todo, got>>
    BY <1>0, <1>7 DEF AskNext, CallsAreInOrder, peerVars
  <2>2. CASE rcvdEnd[s]
    <3>1. s \in Contested /\ outcome' = [outcome EXCEPT ![s] = "stopped"]
      BY <1>0, <1>7, <2>2 DEF AskNext, CallsAreInOrder, Live
    <3>2. QED
      BY <2>1, <3>1, TellingStep
  <2>3. CASE ~rcvdEnd[s]
    <3>1. outcome' = outcome /\ Asked' = Asked
      BY <1>0, <1>7, <2>1, <2>3 DEF AskNext, Asked, TypeOK
    <3>2. QED
      BY <2>1, <3>1 DEF calls
  <2>4. QED
    BY <2>2, <2>3
<1>8. CASE OpenFlushed(s) \/ Starve(s) \/ SendFlushed(s) \/ StartCancel(s)
  BY <1>8 DEF OpenFlushed, Starve, SendFlushed, StartCancel, callVars, peerVars, calls, Asked
<1>9. QED
  BY <1>1, <1>2, <1>3, <1>4, <1>5, <1>6, <1>7, <1>8 DEF CallerStep

\* The robot's frames are its part of a call; nothing else the connection does is.
LEMMA PeerImplements ==
    ASSUME CallsIInv, OtherStep
    PROVE  [Promise!Next]_calls
<1>0. TypeOK /\ BatchIsTaken /\ ShutdownClearsStreams
  BY DEF CallsIInv, LifeIInv, IInv
<1>1. UNCHANGED <<todo, got, outcome>> /\ Asked' = Asked
  BY <1>0, OtherMoves DEF Asked
<1>2. ASSUME NEW s \in Streams, NEW k \in Messages \cup Ends, Sent(s, k)
      PROVE  Promise!Next
  <2>1. CASE k \in Ends
    <3>1. Promise!EndResponse(s)
      BY <1>1, <1>2, <2>1 DEF Sent, Ends, Promise!EndResponse, Promise!Statuses, Asked
    <3>2. QED
      BY <3>1 DEF Promise!Next
  <2>2. CASE k \notin Ends
    <3>1. Promise!Answer(s)
      BY <1>1, <1>2, <2>2 DEF Sent, Promise!Answer, Asked
    <3>2. QED
      BY <3>1 DEF Promise!Next
  <2>3. QED
    BY <2>1, <2>2
<1>3. CASE Cut \/ Dropped \/ Noticed \/ Still
  BY <1>1, <1>3 DEF Cut, Dropped, Noticed, Still, calls
<1>4. ASSUME NEW s \in Streams, NEW k \in Messages \cup Ends, Delivered(s, k)
      PROVE  UNCHANGED calls
  BY <1>1, <1>4 DEF Delivered, calls
<1>5. QED
  BY <1>0, <1>2, <1>3, <1>4, OtherEffects

\* Every behaviour of the transport is, for each of the calls that share it, one
\* of GrpcCalls: no message invented or repeated, none handed over before the
\* caller's own is out, one verdict, and a true one.
THEOREM TransportImplementsCalls == Spec => ImplementsCalls
<1>1. ASSUME Init
      PROVE  Promise!Init
  <2>1. \A s \in Streams : (todo[s] = 0) = FALSE
    BY <1>1, SizesAssumption DEF Init
  <2>2. Asked = [c \in Streams |-> FALSE]
    BY <2>1 DEF Asked
  <2>3. QED
    BY <1>1, <2>2 DEF Init, Promise!Init, Asked
<1>2. ASSUME CallsIInv, [Next]_vars
      PROVE  [Promise!Next]_calls
  <2>1. ASSUME NEW t \in Tasks, CancelStep(t)
        PROVE  UNCHANGED calls
    BY <1>2, <2>1, CancelFrame DEF calls, Asked, CallsIInv, LifeIInv, IInv
  <2>2. QED
    BY <1>2, <2>1, CallerImplements, PeerImplements, Steps
<1>3. QED
  BY <1>1, <1>2, CallsInvariance, PTL DEF Spec, ImplementsCalls, Promise!Spec, calls, Asked
==============================================================================
