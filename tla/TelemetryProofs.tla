---------------------------- MODULE TelemetryProofs ----------------------------
(***************************************************************************)
(* Safety of a telemetry session for any number of collections and events, *)
(* by one inductive invariant, IInv: what is in the queue is counted, and  *)
(* whoever closes the session is followed until it is clean.               *)
(***************************************************************************)
EXTENDS Telemetry, SequenceTheorems, FiniteSetTheorems, TLAPS

Entries == {Finished, Failure} \cup {Event(t) : t \in Targets}

\* The marks and events of the queue are told apart.
LEMMA EntryFacts ==
    /\ Finished \in Entries /\ Failure \in Entries /\ Finished # Failure
    /\ \A t \in Targets : Event(t) \in Entries
    /\ \A t : Event(t) # Finished /\ Event(t) # Failure
    /\ \A t, u : Event(t) = Event(u) => t = u
    /\ Last \in Nat \ {0} /\ MaxEvents \in Nat
<1>1. /\ Len(Finished) = 1 /\ Finished[1] = "finished"
      /\ Len(Failure) = 1 /\ Failure[1] = "failure"
  BY DEF Finished, Failure
<1>2. \A t : Len(Event(t)) = 2 /\ Event(t)[2] = t
  BY DEF Event
<1> QED BY <1>1, <1>2, BoundsAssumption DEF Entries

Count(e, q) == Cardinality({i \in 1..Len(q) : q[i] = e})

\* The indices of an entry are finitely many.
LEMMA CountType ==
    ASSUME NEW S, NEW q \in Seq(S), NEW e
    PROVE  /\ IsFiniteSet({i \in 1..Len(q) : q[i] = e}) /\ Count(e, q) \in Nat
           /\ Count(e, q) = 0 <=> \A i \in 1..Len(q) : q[i] # e
<1> DEFINE I == {i \in 1..Len(q) : q[i] = e}
<1>1. Len(q) \in Nat BY LenProperties
<1>2. IsFiniteSet(1..Len(q)) BY <1>1, FS_Interval
<1>3. IsFiniteSet(I) BY <1>2, FS_Subset
<1>4. Count(e, q) \in Nat BY <1>3, FS_CardinalityType DEF Count
<1>5. Count(e, q) = 0 <=> I = {} BY <1>3, FS_EmptySet DEF Count
<1> QED BY <1>3, <1>4, <1>5

\* An entry joins the queue ...
LEMMA CountPut ==
    ASSUME NEW S, NEW q \in Seq(S), NEW x \in S
    PROVE  LET r == Append(q, x) IN
           /\ r \in Seq(S) /\ r # <<>> /\ Len(r) = Len(q) + 1 /\ r[Len(r)] = x
           /\ Len(q) \in Nat /\ \A i \in 1..Len(q) : r[i] = q[i]
           /\ \A e : Count(e, r) = Count(e, q) + (IF e = x THEN 1 ELSE 0)
<1> DEFINE r == Append(q, x)
<1>1. /\ r \in Seq(S) /\ r # <<>> /\ Len(r) = Len(q) + 1 /\ r[Len(q) + 1] = x
      /\ Len(q) \in Nat /\ \A i \in 1..Len(q) : r[i] = q[i]
  BY AppendProperties, LenProperties
<1> HIDE DEF r
<1>2. ASSUME NEW e PROVE Count(e, r) = Count(e, q) + (IF e = x THEN 1 ELSE 0)
  <2> DEFINE I == {i \in 1..Len(q) : q[i] = e}
             J == {i \in 1..Len(r) : r[i] = e}
  <2>1. IsFiniteSet(I) BY CountType
  <2>2. Len(q) + 1 \notin I BY <1>1
  <2>3. Cardinality(I) \in Nat BY <2>1, FS_CardinalityType
  <2>4. CASE e = x
    <3>1. J = I \cup {Len(q) + 1} BY <1>1, <2>4
    <3>2. Cardinality(J) = Cardinality(I) + 1 BY <2>1, <2>2, <3>1, FS_AddElement
    <3> QED BY <2>4, <3>2 DEF Count
  <2>5. CASE e # x
    <3>1. J = I BY <1>1, <2>5
    <3>2. Count(e, r) = Count(e, q) BY <3>1 DEF Count
    <3>3. Count(e, q) \in Nat BY CountType
    <3> QED BY <2>5, <3>2, <3>3
  <2> QED BY <2>4, <2>5
<1> QED BY <1>1, <1>2 DEF r

\* ... or leaves it.
LEMMA CountTake ==
    ASSUME NEW S, NEW q \in Seq(S), q # <<>>
    PROVE  LET r == Tail(q) IN
           /\ r \in Seq(S) /\ Len(q) \in Nat \ {0} /\ Len(r) = Len(q) - 1
           /\ Head(q) = q[1] /\ \A i \in 1..Len(r) : r[i] = q[i + 1]
           /\ \A e : Count(e, q) = Count(e, r) + (IF e = Head(q) THEN 1 ELSE 0)
<1> DEFINE r == Tail(q)
<1>1. /\ r \in Seq(S) /\ Len(q) \in Nat \ {0} /\ Len(r) = Len(q) - 1
      /\ Head(q) = q[1] /\ \A i \in 1..Len(r) : r[i] = q[i + 1]
  BY HeadTailProperties, EmptySeq
<1> HIDE DEF r
<1>2. ASSUME NEW e PROVE Count(e, q) = Count(e, r) + (IF e = Head(q) THEN 1 ELSE 0)
  <2> DEFINE I == {i \in 1..Len(r) : r[i] = e}
             J == {i \in 1..Len(q) : q[i] = e}
             K == J \ {1}
             f == [i \in I |-> i + 1]
  <2>1. IsFiniteSet(I) /\ IsFiniteSet(J) BY <1>1, CountType
  <2>2. f \in Bijection(I, K)
    <3>1. \A i \in I : i + 1 \in K BY <1>1
    <3>2. \A k \in K : k - 1 \in I /\ k = (k - 1) + 1 BY <1>1
    <3>3. \A i, j \in I : i + 1 = j + 1 => i = j OBVIOUS
    <3>4. f \in [I -> K] /\ \A i \in I : f[i] = i + 1 BY <3>1
    <3> HIDE DEF I, K, f
    <3>a. DOMAIN f = I /\ \A i, j \in I : f[i] = f[j] => i = j BY <3>3, <3>4
    <3>5. f \in Injection(I, K) BY <3>4, <3>a DEF Injection, IsInjective
    <3>6. \A k \in K : \E i \in I : f[i] = k BY <3>2, <3>4
    <3>7. f \in Surjection(I, K) BY <3>4, <3>6 DEF Surjection
    <3> QED BY <3>5, <3>7 DEF Bijection
  <2>3. Cardinality(K) = Cardinality(I)
    <3>1. ExistsBijection(I, K) BY <2>2 DEF ExistsBijection
    <3> QED BY <2>1, <3>1, FS_Bijection
  <2>4. Cardinality(K) = IF 1 \in J THEN Cardinality(J) - 1 ELSE Cardinality(J)
    BY <2>1, FS_RemoveElement
  <2>5. 1 \in J <=> e = Head(q) BY <1>1
  <2>6. Cardinality(J) \in Nat BY <2>1, FS_CardinalityType
  <2> QED BY <2>3, <2>4, <2>5, <2>6 DEF Count
<1> QED BY <1>1, <1>2 DEF r
------------------------------------------------------------------------------
(* The invariant.                                                           *)

Leaving == {"gather", "release"}
PumpPlaces == {"none", "created", "reading", "acking", "failing", "unwinding", "never", "done"}
Ended == {t \in Targets : pump[t] = "done"}

\* Collections are subscribed in order, and before the first update is awaited.
OpenedInOrder ==
    /\ \A t \in Targets : IF t <= opened THEN pump[t] # "none" /\ sub[t] # "none"
                          ELSE pump[t] = "none" /\ sub[t] = "none"
    /\ place["consumer"] = "idle" => opened = 0
    /\ place["consumer"] = "subscribe" => opened < Last
    /\ place["consumer"] \in {"get", "body"} => opened = Last

\* The session is closed from the first call of aclose() on, whoever makes it.
ClosedByWhom ==
    /\ closed => place["closer"] # "idle" \/ place["consumer"] \in Leaving \cup {"done"}
    /\ place["consumer"] \in Leaving \cup {"done"} => closed
    /\ place["closer"] # "idle" => closed

\* What aclose() has come to, and that it is under way or finished.
ClosingGoesOn ==
    /\ released <= opened
    /\ \A t \in 1..released : sub[t] = "closed"
    /\ closed => gathering = (1..opened) \ late
    /\ ~closed => late = {}
    /\ \A k \in Closers : At(k, "release") => \A t \in gathering : Over(t)
    /\ closed /\ ~cut /\ (\A k \in Closers : place[k] \notin Leaving) =>
          \A t \in gathering : Over(t) /\ sub[t] = "closed"

\* Every pump that is over has left one mark, taken or not.
MarksAreCounted == completed + Count(Finished, queue) = Cardinality(Ended)

NoFailure == \A i \in 1..Len(queue) : queue[i] # Failure
InHand(p) == IF p = "acking" THEN 1 ELSE 0

\* An event is with its pump, in the queue or delivered; those lost belong to
\* a pump that failed, which shows in the queue, or to a session that is closed.
EventsAreCounted ==
    \A t \in Targets :
        /\ delivered[t] + Count(Event(t), queue) <= received[t] - InHand(pump[t])
        /\ ~closed /\ NoFailure /\ pump[t] # "failing" =>
              delivered[t] + Count(Event(t), queue) = received[t] - InHand(pump[t])

MarkIsLast == queue # <<>> /\ Ended = Targets => queue[Len(queue)] = Finished

EndIsTheEnd ==
    outcome = "exhausted" =>
        /\ queue = <<>> /\ Ended = Targets
        /\ place["consumer"] \in Leaving \cup {"done"}
        /\ At("closer", "idle") => delivered = received

IInv ==
    /\ TypeOK /\ OpenedInOrder /\ ClosedByWhom /\ ClosingGoesOn
    /\ MarksAreCounted /\ EventsAreCounted /\ MarkIsLast /\ EndIsTheEnd

(* One step of one task.                                                    *)
Moves ==
    \/ Start \/ ConsumerStep \/ Interrupted \/ CloseFromOutside
    \/ \E k \in Closers : CloseStep(k) \/ CloseInterrupted(k)
    \/ \E t \in Targets : PumpStep(t) \/ ClientCloses(t)

\* What the queue is after a step.
LEMMA Putting ==
    ASSUME queue \in Seq(Entries), NEW x \in Entries, Put(<<x>>)
    PROVE  /\ queue' \in Seq(Entries) /\ queue' # <<>> /\ queue'[Len(queue')] = x
           /\ Len(queue) \in Nat /\ Len(queue') = Len(queue) + 1
           /\ \A i \in 1..Len(queue) : queue'[i] = queue[i]
           /\ \A e : Count(e, queue') = Count(e, queue) + (IF e = x THEN 1 ELSE 0)
<1>1. queue' = Append(queue, x) BY AppendIsConcat DEF Put
<1> QED BY <1>1, CountPut

LEMMA PuttingTwo ==
    ASSUME queue \in Seq(Entries), NEW x \in Entries, NEW y \in Entries, Put(<<x, y>>)
    PROVE  /\ queue' \in Seq(Entries) /\ queue' # <<>> /\ queue'[Len(queue')] = y
           /\ Len(queue) \in Nat /\ Len(queue') = Len(queue) + 2
           /\ \A i \in 1..Len(queue) : queue'[i] = queue[i]
           /\ queue'[Len(queue) + 1] = x
           /\ \A e : Count(e, queue') = Count(e, queue) + (IF e = x THEN 1 ELSE 0)
                                                       + (IF e = y THEN 1 ELSE 0)
<1> DEFINE r == Append(queue, x)
<1>1. /\ r \in Seq(Entries) /\ Len(r) = Len(queue) + 1 /\ r[Len(r)] = x
      /\ Len(queue) \in Nat /\ \A i \in 1..Len(queue) : r[i] = queue[i]
      /\ \A e : Count(e, r) = Count(e, queue) + (IF e = x THEN 1 ELSE 0)
  BY CountPut
<1>2. queue' = Append(r, y)
  <2>1. <<x>> \in Seq(Entries) /\ <<y>> \in Seq(Entries) /\ <<x, y>> = <<x>> \o <<y>>
    <3>1. <<x>> \in Seq(Entries) /\ <<y>> \in Seq(Entries) /\ <<x, y>> \in Seq(Entries)
      OBVIOUS
    <3>2. /\ Len(<<x>>) = 1 /\ Len(<<y>>) = 1 /\ Len(<<x, y>>) = 2
          /\ <<x>>[1] = x /\ <<y>>[1] = y /\ <<x, y>>[1] = x /\ <<x, y>>[2] = y
      OBVIOUS
    <3>3. /\ <<x>> \o <<y>> \in Seq(Entries) /\ Len(<<x>> \o <<y>>) = 2
          /\ \A i \in 1..2 : (<<x>> \o <<y>>)[i] = <<x, y>>[i]
      BY <3>1, <3>2, ConcatProperties
    <3> QED BY <3>1, <3>2, <3>3, SeqEqual
  <2>2. r = queue \o <<x>> /\ Append(r, y) = r \o <<y>> BY <1>1, AppendIsConcat
  <2> QED BY <2>1, <2>2, ConcatAssociative DEF Put
<1> HIDE DEF r
<1> QED BY <1>1, <1>2, CountPut

LEMMA Taking ==
    ASSUME queue \in Seq(Entries), NEW x, Took(x)
    PROVE  /\ queue' \in Seq(Entries) /\ Len(queue) \in Nat \ {0}
           /\ Len(queue') = Len(queue) - 1 /\ queue[1] = x /\ queue # <<>>
           /\ \A i \in 1..Len(queue') : queue'[i] = queue[i + 1]
           /\ \A e : Count(e, queue) = Count(e, queue') + (IF e = x THEN 1 ELSE 0)
<1>1. queue # <<>> /\ Head(queue) = x /\ queue' = Tail(queue) BY DEF Took
<1> QED BY <1>1, CountTake

\* As many marks as pumps that are over, and no more than targets.
LEMMA EndedType ==
    ASSUME TypeOK
    PROVE  /\ IsFiniteSet(Ended) /\ Cardinality(Ended) \in 0..Last
           /\ Cardinality(Ended) = Last => Ended = Targets
<1>1. IsFiniteSet(Targets) /\ Cardinality(Targets) = Last
  BY EntryFacts, FS_Interval DEF Targets
<1>2. Ended \in SUBSET Targets BY DEF Ended
<1> QED BY <1>1, <1>2, FS_Subset, FS_CardinalityType, EntryFacts

\* aclose() up to its first await.
LEMMA Closing ==
    ASSUME TypeOK, NEW k \in Closers, Close(k)
    PROVE  /\ closed' = TRUE /\ gathering' \subseteq Targets
           /\ pump' = [t \in Targets |-> pump'[t]]
           /\ \A t \in Targets :
                 /\ pump'[t] \in PumpPlaces
                 /\ pump'[t] = "done" <=> pump[t] = "done"
                 /\ pump'[t] = "none" <=> pump[t] = "none"
                 /\ pump'[t] = pump[t] \/ pump'[t] \in {"never", "unwinding"}
                 /\ Over(t) => Over(t)'
           /\ place' = [place EXCEPT ![k] = IF closed THEN "done" ELSE "gather"]
           /\ closed => gathering' = gathering /\ pump' = pump
           /\ ~closed => gathering' = 1..opened
<1>1. 1..opened \subseteq Targets BY EntryFacts DEF TypeOK, Targets
<1>2. ASSUME NEW t \in Targets
      PROVE  /\ pump[t] \in PumpPlaces /\ Cancel(pump[t]) \in PumpPlaces
             /\ Cancel(pump[t]) = "done" <=> pump[t] = "done"
             /\ Cancel(pump[t]) = "none" <=> pump[t] = "none"
             /\ Cancel(pump[t]) = pump[t] \/ Cancel(pump[t]) \in {"never", "unwinding"}
             /\ pump[t] \in {"done", "never"} => Cancel(pump[t]) \in {"done", "never"}
  BY DEF TypeOK, PumpPlaces, Cancel
<1>3. CASE closed BY <1>2, <1>3 DEF Close, TypeOK, Over
<1>4. CASE ~closed BY <1>1, <1>2, <1>4 DEF Close, TypeOK, Over
<1> QED BY <1>3, <1>4

(* Types.                                                                   *)
LEMMA TypesKept ==
    ASSUME TypeOK, OpenedInOrder, ClosingGoesOn, MarksAreCounted, EventsAreCounted, Moves
    PROVE  TypeOK'
<1> USE EntryFacts
    DEF TypeOK, Entries, Targets, Closers, sessionVars, pumpVars, consumerVars, pumpFrame,
        At, Go, MovePump
<1>1. CASE Start
  BY <1>1 DEF Start
<1>2. CASE Subscribed
  <2>1. opened + 1 \in Targets /\ opened + 1 \in 0..Last
    BY <1>2 DEF Subscribed, OpenedInOrder
  <2>2. late' \subseteq Targets BY <2>1, <1>2 DEF Subscribed
  <2>3. pump' \in [Targets -> PumpPlaces] /\ sub' \in [Targets -> {"none", "open", "closed"}]
    BY <2>1, <1>2 DEF Subscribed, PumpPlaces
  <2>4. place' = place \/ place' = [place EXCEPT !["consumer"] = "done"]
        \/ place' = [place EXCEPT !["consumer"] = "get"]
    BY <1>2 DEF Subscribed
  <2>5. outcome' \in {"none", "exhausted", "stopped", "error", "left"}
    BY <1>2 DEF Subscribed
  <2> QED BY <2>1, <2>2, <2>3, <2>4, <2>5, <1>2 DEF Subscribed, PumpPlaces
<1>3. CASE SubscribeFails
  <2>1. "consumer" \in Closers BY DEF Closers
  <2>2. /\ closed' = TRUE /\ gathering' \subseteq Targets
        /\ pump' \in [Targets -> PumpPlaces]
        /\ place' = [place EXCEPT !["consumer"] = IF closed THEN "done" ELSE "gather"]
        /\ outcome' \in {"error", "left"}
    BY <2>1, <1>3, Closing DEF SubscribeFails, Leave
  <2> QED BY <2>2, <1>3 DEF SubscribeFails, PumpPlaces
<1>4. CASE TakeFailure
  <2>1. "consumer" \in Closers BY DEF Closers
  <2>2. /\ closed' = TRUE /\ gathering' \subseteq Targets
        /\ pump' \in [Targets -> PumpPlaces]
        /\ place' = [place EXCEPT !["consumer"] = IF closed THEN "done" ELSE "gather"]
        /\ outcome' \in {"error", "left"}
    BY <2>1, <1>4, Closing DEF TakeFailure, Leave
  <2> QED BY <2>2, <1>4, Taking DEF TakeFailure, PumpPlaces
<1>5. CASE TakeFinished
  <2>1. "consumer" \in Closers BY DEF Closers
  <2>2. Count(Finished, queue) >= 1 /\ completed + 1 \in 0..Last
    <3>1. Count(Finished, queue) = Count(Finished, queue') + 1 /\ queue' \in Seq(Entries)
      BY <1>5, Taking DEF TakeFinished
    <3>2. Count(Finished, queue') \in Nat BY <3>1, CountType
    <3>3. Cardinality(Ended) \in 0..Last BY EndedType
    <3> QED BY <3>1, <3>2, <3>3 DEF MarksAreCounted
  <2>3. queue' \in Seq(Entries) BY <1>5, Taking DEF TakeFinished
  <2>4. CASE Leave("exhausted")
    <3>1. /\ closed' = TRUE /\ gathering' \subseteq Targets
          /\ pump' \in [Targets -> PumpPlaces]
          /\ place' = [place EXCEPT !["consumer"] = IF closed THEN "done" ELSE "gather"]
      BY <2>1, <2>4, Closing DEF Leave
    <3> QED BY <2>2, <2>3, <2>4, <3>1, <1>5 DEF TakeFinished, Leave, PumpPlaces
  <2>5. CASE UNCHANGED <<closed, gathering, pump, place, outcome>>
    BY <2>2, <2>3, <2>5, <1>5 DEF TakeFinished
  <2> QED BY <2>4, <2>5, <1>5 DEF TakeFinished
<1>6. CASE Again
  BY <1>6 DEF Again
<1>7. CASE Interrupted
  <2>1. "consumer" \in Closers BY DEF Closers
  <2>2. /\ closed' = TRUE /\ gathering' \subseteq Targets
        /\ pump' \in [Targets -> PumpPlaces]
        /\ place' = [place EXCEPT !["consumer"] = IF closed THEN "done" ELSE "gather"]
        /\ outcome' \in {"error", "left"}
    BY <2>1, <1>7, Closing DEF Interrupted, Leave
  <2> QED BY <2>2, <1>7 DEF Interrupted, PumpPlaces
<1>8. CASE CloseFromOutside
  <2>1. "closer" \in Closers BY DEF Closers
  <2>2. /\ closed' = TRUE /\ gathering' \subseteq Targets
        /\ pump' \in [Targets -> PumpPlaces]
        /\ place' = [place EXCEPT !["closer"] = IF closed THEN "done" ELSE "gather"]
    BY <2>1, <1>8, Closing DEF CloseFromOutside
  <2> QED BY <2>2, <1>8 DEF CloseFromOutside, PumpPlaces
<1>9. ASSUME NEW t \in Targets, TakeEvent(t) PROVE TypeOK'
  <2>1. /\ queue' \in Seq(Entries)
        /\ Count(Event(t), queue) = Count(Event(t), queue') + 1
    BY <1>9, Taking DEF TakeEvent
  <2>2. Count(Event(t), queue') \in Nat BY <2>1, CountType
  <2>3. delivered[t] + Count(Event(t), queue) <= received[t]
    <3>1. received[t] \in 0..MaxEvents /\ delivered[t] \in 0..MaxEvents OBVIOUS
    <3>2. InHand(pump[t]) \in 0..1 BY DEF InHand
    <3>3. delivered[t] + Count(Event(t), queue) <= received[t] - InHand(pump[t])
      BY DEF EventsAreCounted
    <3> QED BY <2>1, <2>2, <3>1, <3>2, <3>3
  <2>4. delivered[t] + 1 \in 0..MaxEvents BY <2>1, <2>2, <2>3
  <2> QED BY <2>1, <2>4, <1>9 DEF TakeEvent
<1>10. ASSUME NEW k \in Closers, Gathered(k) PROVE TypeOK'
  BY <1>10 DEF Gathered
<1>11. ASSUME NEW k \in Closers, ReleaseOne(k) PROVE TypeOK'
  BY <1>11 DEF ReleaseOne
<1>12. ASSUME NEW k \in Closers, Released(k) PROVE TypeOK'
  BY <1>12 DEF Released
<1>13. ASSUME NEW k \in Closers, CloseInterrupted(k) PROVE TypeOK'
  BY <1>13 DEF CloseInterrupted
<1>14. ASSUME NEW t \in Targets, PumpStarts(t) PROVE TypeOK'
  BY <1>14, Putting DEF PumpStarts
<1>15. ASSUME NEW t \in Targets, PumpReceives(t) PROVE TypeOK'
  BY <1>15 DEF PumpReceives
<1>16. ASSUME NEW t \in Targets, PumpAcknowledged(t) PROVE TypeOK'
  BY <1>16, Putting, PuttingTwo DEF PumpAcknowledged
<1>17. ASSUME NEW t \in Targets, PumpEnds(t) PROVE TypeOK'
  BY <1>17, Putting DEF PumpEnds
<1>18. ASSUME NEW t \in Targets, PumpFails(t) PROVE TypeOK'
  BY <1>18 DEF PumpFails
<1>19. ASSUME NEW t \in Targets, PumpFailed(t) PROVE TypeOK'
  BY <1>19, PuttingTwo DEF PumpFailed
<1>20. ASSUME NEW t \in Targets, PumpUnwound(t) PROVE TypeOK'
  BY <1>20, Putting DEF PumpUnwound
<1>21. ASSUME NEW t \in Targets, ClientCloses(t) PROVE TypeOK'
  BY <1>21 DEF ClientCloses
<1> QED
  BY <1>1, <1>2, <1>3, <1>4, <1>5, <1>6, <1>7, <1>8, <1>9, <1>10, <1>11, <1>12, <1>13, <1>14,
     <1>15, <1>16, <1>17, <1>18, <1>19, <1>20, <1>21
     DEF Moves, ConsumerStep, CloseStep, PumpStep

(* The order of subscriptions.                                              *)
LEMMA OrderKept ==
    ASSUME TypeOK, OpenedInOrder, ClosingGoesOn, Moves
    PROVE  OpenedInOrder'
<1> USE EntryFacts
    DEF TypeOK, OpenedInOrder, Targets, Closers, sessionVars, pumpVars, consumerVars,
        pumpFrame, At, Go, Leave, Close, Cancel, MovePump, Over, Took
<1>1. CASE Start
  BY <1>1 DEF Start
<1>2. CASE Subscribed
  BY <1>2 DEF Subscribed
<1>3. CASE SubscribeFails
  BY <1>3 DEF SubscribeFails
<1>4. CASE TakeFailure
  BY <1>4 DEF TakeFailure
<1>5. CASE TakeFinished
  BY <1>5 DEF TakeFinished
<1>6. CASE Again
  BY <1>6 DEF Again
<1>7. CASE Interrupted
  BY <1>7 DEF Interrupted
<1>8. CASE CloseFromOutside
  BY <1>8 DEF CloseFromOutside
<1>9. ASSUME NEW t \in Targets, TakeEvent(t) PROVE OpenedInOrder'
  BY <1>9 DEF TakeEvent
<1>10. ASSUME NEW k \in Closers, Gathered(k) PROVE OpenedInOrder'
  BY <1>10 DEF Gathered
<1>11. ASSUME NEW k \in Closers, ReleaseOne(k) PROVE OpenedInOrder'
  BY <1>11 DEF ReleaseOne
<1>12. ASSUME NEW k \in Closers, Released(k) PROVE OpenedInOrder'
  BY <1>12 DEF Released
<1>13. ASSUME NEW k \in Closers, CloseInterrupted(k) PROVE OpenedInOrder'
  BY <1>13 DEF CloseInterrupted
<1>14. ASSUME NEW t \in Targets, PumpStarts(t) PROVE OpenedInOrder'
  BY <1>14 DEF PumpStarts
<1>15. ASSUME NEW t \in Targets, PumpReceives(t) PROVE OpenedInOrder'
  BY <1>15 DEF PumpReceives
<1>16. ASSUME NEW t \in Targets, PumpAcknowledged(t) PROVE OpenedInOrder'
  BY <1>16 DEF PumpAcknowledged
<1>17. ASSUME NEW t \in Targets, PumpEnds(t) PROVE OpenedInOrder'
  BY <1>17 DEF PumpEnds
<1>18. ASSUME NEW t \in Targets, PumpFails(t) PROVE OpenedInOrder'
  BY <1>18 DEF PumpFails
<1>19. ASSUME NEW t \in Targets, PumpFailed(t) PROVE OpenedInOrder'
  BY <1>19 DEF PumpFailed
<1>20. ASSUME NEW t \in Targets, PumpUnwound(t) PROVE OpenedInOrder'
  BY <1>20 DEF PumpUnwound
<1>21. ASSUME NEW t \in Targets, ClientCloses(t) PROVE OpenedInOrder'
  BY <1>21 DEF ClientCloses
<1> QED
  BY <1>1, <1>2, <1>3, <1>4, <1>5, <1>6, <1>7, <1>8, <1>9, <1>10, <1>11, <1>12, <1>13, <1>14,
     <1>15, <1>16, <1>17, <1>18, <1>19, <1>20, <1>21
     DEF Moves, ConsumerStep, CloseStep, PumpStep

(* Who has closed the session.                                              *)
LEMMA CloserKept ==
    ASSUME TypeOK, ClosedByWhom, Moves
    PROVE  ClosedByWhom'
<1> USE EntryFacts
    DEF TypeOK, ClosedByWhom, Leaving, Closers, sessionVars, pumpVars, consumerVars,
        pumpFrame, At, Go, Leave, Close, Cancel, MovePump, Over, Took
<1>1. CASE Start
  BY <1>1 DEF Start
<1>2. CASE Subscribed
  BY <1>2 DEF Subscribed
<1>3. CASE SubscribeFails
  BY <1>3 DEF SubscribeFails
<1>4. CASE TakeFailure
  BY <1>4 DEF TakeFailure
<1>5. CASE TakeFinished
  BY <1>5 DEF TakeFinished
<1>6. CASE Again
  BY <1>6 DEF Again
<1>7. CASE Interrupted
  BY <1>7 DEF Interrupted
<1>8. CASE CloseFromOutside
  BY <1>8 DEF CloseFromOutside
<1>9. ASSUME NEW t \in Targets, TakeEvent(t) PROVE ClosedByWhom'
  BY <1>9 DEF TakeEvent
<1>10. ASSUME NEW k \in Closers, Gathered(k) PROVE ClosedByWhom'
  BY <1>10 DEF Gathered
<1>11. ASSUME NEW k \in Closers, ReleaseOne(k) PROVE ClosedByWhom'
  BY <1>11 DEF ReleaseOne
<1>12. ASSUME NEW k \in Closers, Released(k) PROVE ClosedByWhom'
  BY <1>12 DEF Released
<1>13. ASSUME NEW k \in Closers, CloseInterrupted(k) PROVE ClosedByWhom'
  BY <1>13 DEF CloseInterrupted
<1>14. ASSUME NEW t \in Targets, PumpStarts(t) PROVE ClosedByWhom'
  BY <1>14 DEF PumpStarts
<1>15. ASSUME NEW t \in Targets, PumpReceives(t) PROVE ClosedByWhom'
  BY <1>15 DEF PumpReceives
<1>16. ASSUME NEW t \in Targets, PumpAcknowledged(t) PROVE ClosedByWhom'
  BY <1>16 DEF PumpAcknowledged
<1>17. ASSUME NEW t \in Targets, PumpEnds(t) PROVE ClosedByWhom'
  BY <1>17 DEF PumpEnds
<1>18. ASSUME NEW t \in Targets, PumpFails(t) PROVE ClosedByWhom'
  BY <1>18 DEF PumpFails
<1>19. ASSUME NEW t \in Targets, PumpFailed(t) PROVE ClosedByWhom'
  BY <1>19 DEF PumpFailed
<1>20. ASSUME NEW t \in Targets, PumpUnwound(t) PROVE ClosedByWhom'
  BY <1>20 DEF PumpUnwound
<1>21. ASSUME NEW t \in Targets, ClientCloses(t) PROVE ClosedByWhom'
  BY <1>21 DEF ClientCloses
<1> QED
  BY <1>1, <1>2, <1>3, <1>4, <1>5, <1>6, <1>7, <1>8, <1>9, <1>10, <1>11, <1>12, <1>13, <1>14,
     <1>15, <1>16, <1>17, <1>18, <1>19, <1>20, <1>21
     DEF Moves, ConsumerStep, CloseStep, PumpStep

(* What aclose() does.                                                      *)
LEMMA ClosingKept ==
    ASSUME TypeOK, OpenedInOrder, ClosedByWhom, ClosingGoesOn, Moves
    PROVE  ClosingGoesOn'
<1> USE EntryFacts
    DEF TypeOK, OpenedInOrder, ClosedByWhom, ClosingGoesOn, Leaving, Targets, Closers,
        sessionVars, pumpVars, consumerVars, pumpFrame, At, Go, Leave, Close, Cancel,
        MovePump, Over, Took
<1>1. CASE Start
  BY <1>1 DEF Start
<1>2. CASE Subscribed
  BY <1>2 DEF Subscribed
<1>3. CASE SubscribeFails
  BY <1>3 DEF SubscribeFails
<1>4. CASE TakeFailure
  BY <1>4 DEF TakeFailure
<1>5. CASE TakeFinished
  BY <1>5 DEF TakeFinished
<1>6. CASE Again
  BY <1>6 DEF Again
<1>7. CASE Interrupted
  BY <1>7 DEF Interrupted
<1>8. CASE CloseFromOutside
  BY <1>8 DEF CloseFromOutside
<1>9. ASSUME NEW t \in Targets, TakeEvent(t) PROVE ClosingGoesOn'
  BY <1>9 DEF TakeEvent
<1>10. ASSUME NEW k \in Closers, Gathered(k) PROVE ClosingGoesOn'
  BY <1>10 DEF Gathered
<1>11. ASSUME NEW k \in Closers, ReleaseOne(k) PROVE ClosingGoesOn'
  BY <1>11 DEF ReleaseOne
<1>12. ASSUME NEW k \in Closers, Released(k) PROVE ClosingGoesOn'
  BY <1>12 DEF Released
<1>13. ASSUME NEW k \in Closers, CloseInterrupted(k) PROVE ClosingGoesOn'
  BY <1>13 DEF CloseInterrupted
<1>14. ASSUME NEW t \in Targets, PumpStarts(t) PROVE ClosingGoesOn'
  BY <1>14 DEF PumpStarts
<1>15. ASSUME NEW t \in Targets, PumpReceives(t) PROVE ClosingGoesOn'
  BY <1>15 DEF PumpReceives
<1>16. ASSUME NEW t \in Targets, PumpAcknowledged(t) PROVE ClosingGoesOn'
  BY <1>16 DEF PumpAcknowledged
<1>17. ASSUME NEW t \in Targets, PumpEnds(t) PROVE ClosingGoesOn'
  BY <1>17 DEF PumpEnds
<1>18. ASSUME NEW t \in Targets, PumpFails(t) PROVE ClosingGoesOn'
  BY <1>18 DEF PumpFails
<1>19. ASSUME NEW t \in Targets, PumpFailed(t) PROVE ClosingGoesOn'
  BY <1>19 DEF PumpFailed
<1>20. ASSUME NEW t \in Targets, PumpUnwound(t) PROVE ClosingGoesOn'
  BY <1>20 DEF PumpUnwound
<1>21. ASSUME NEW t \in Targets, ClientCloses(t) PROVE ClosingGoesOn'
  BY <1>21 DEF ClientCloses
<1> QED
  BY <1>1, <1>2, <1>3, <1>4, <1>5, <1>6, <1>7, <1>8, <1>9, <1>10, <1>11, <1>12, <1>13, <1>14,
     <1>15, <1>16, <1>17, <1>18, <1>19, <1>20, <1>21
     DEF Moves, ConsumerStep, CloseStep, PumpStep

\* The queue and what counting it gives.
LEMMA QueueType ==
    ASSUME TypeOK
    PROVE  /\ queue \in Seq(Entries) /\ completed \in Nat
           /\ \A e : Count(e, queue) \in Nat
<1>1. queue \in Seq(Entries) BY DEF TypeOK, Entries
<1>2. \A e : Count(e, queue) \in Nat BY <1>1, CountType
<1>3. completed \in Nat BY EntryFacts DEF TypeOK
<1> QED BY <1>1, <1>2, <1>3

LEMMA PumpTypes ==
    ASSUME TypeOK
    PROVE  /\ pump \in [Targets -> PumpPlaces]
           /\ received \in [Targets -> Nat] /\ delivered \in [Targets -> Nat]
BY EntryFacts DEF TypeOK, PumpPlaces

\* A pump that is over stays so; one more is over when `done' says so.
LEMMA EndedSame ==
    ASSUME \A t \in Targets : pump'[t] = "done" <=> pump[t] = "done"
    PROVE  Ended' = Ended
BY DEF Ended

LEMMA EndedOne ==
    ASSUME TypeOK, NEW t \in Targets, pump[t] # "done", MovePump(t, "done")
    PROVE  /\ Ended' = Ended \cup {t} /\ Cardinality(Ended') = Cardinality(Ended) + 1
           /\ Cardinality(Ended) \in Nat /\ Ended # Targets
<1>1. Ended' = Ended \cup {t} BY DEF Ended, MovePump, TypeOK
<1>2. t \notin Ended BY DEF Ended
<1>3. IsFiniteSet(Ended) BY EndedType
<1> QED BY <1>1, <1>2, <1>3, FS_AddElement, FS_CardinalityType

(* A pump leaves a mark when it is over, and at no other time.              *)
LEMMA MarksKept ==
    ASSUME TypeOK, OpenedInOrder, MarksAreCounted, Moves
    PROVE  MarksAreCounted'
<1>1. CASE Start
  <2>1. Ended' = Ended BY <1>1, EndedSame DEF Start, TypeOK, MovePump, sessionVars, pumpVars,
                          pumpFrame
  <2>2. UNCHANGED <<queue, completed>> BY <1>1 DEF Start, sessionVars, pumpVars, consumerVars,
                                          pumpFrame, MovePump, Took
  <2> QED BY <2>1, <2>2 DEF MarksAreCounted
<1>2. CASE Subscribed
  <2>1. Ended' = Ended
    BY <1>2, EndedSame, EntryFacts DEF Subscribed, OpenedInOrder, TypeOK, Targets
  <2>2. UNCHANGED <<queue, completed>> BY <1>2 DEF Subscribed, sessionVars, pumpVars,
                                          consumerVars, pumpFrame, MovePump, Took
  <2> QED BY <2>1, <2>2 DEF MarksAreCounted
<1>3. CASE SubscribeFails
  <2>0. "consumer" \in Closers /\ "closer" \in Closers BY DEF Closers
  <2>1. Ended' = Ended BY <2>0, <1>3, Closing, EndedSame DEF SubscribeFails, Leave
  <2>2. UNCHANGED <<queue, completed>> BY <1>3 DEF SubscribeFails, sessionVars, pumpVars,
                                          consumerVars, pumpFrame, MovePump, Took
  <2> QED BY <2>1, <2>2 DEF MarksAreCounted
<1>4. CASE TakeFailure
  <2>0. "consumer" \in Closers /\ "closer" \in Closers BY DEF Closers
  <2>1. Ended' = Ended BY <2>0, <1>4, Closing, EndedSame DEF TakeFailure, Leave
  <2>2. completed' + Count(Finished, queue') = completed + Count(Finished, queue)
    <3>1. queue' \in Seq(Entries) BY <1>4, QueueType, Taking DEF TakeFailure
    <3>2. Count(Finished, queue') \in Nat BY <3>1, CountType
    <3> QED BY <1>4, <3>2, QueueType, Taking, EntryFacts DEF TakeFailure, consumerVars
  <2> QED BY <2>1, <2>2 DEF MarksAreCounted
<1>5. CASE TakeFinished
  <2>0. "consumer" \in Closers /\ "closer" \in Closers BY DEF Closers
  <2>1. Ended' = Ended
    <3>1. CASE Leave("exhausted") BY <2>0, <3>1, Closing, EndedSame DEF Leave
    <3>2. CASE UNCHANGED pump BY <3>2, EndedSame
    <3> QED BY <3>1, <3>2, <1>5 DEF TakeFinished
  <2>2. completed' + Count(Finished, queue') = completed + Count(Finished, queue)
    <3>1. queue' \in Seq(Entries) BY <1>5, QueueType, Taking DEF TakeFinished
    <3>2. Count(Finished, queue') \in Nat BY <3>1, CountType
    <3> QED BY <1>5, <3>2, QueueType, Taking, EntryFacts DEF TakeFinished, consumerVars
  <2> QED BY <2>1, <2>2 DEF MarksAreCounted
<1>6. CASE Again
  <2>1. Ended' = Ended BY <1>6, EndedSame DEF Again, TypeOK, MovePump, sessionVars, pumpVars,
                          pumpFrame
  <2>2. UNCHANGED <<queue, completed>> BY <1>6 DEF Again, sessionVars, pumpVars, consumerVars,
                                          pumpFrame, MovePump, Took
  <2> QED BY <2>1, <2>2 DEF MarksAreCounted
<1>7. CASE Interrupted
  <2>0. "consumer" \in Closers /\ "closer" \in Closers BY DEF Closers
  <2>1. Ended' = Ended BY <2>0, <1>7, Closing, EndedSame DEF Interrupted, Leave
  <2>2. UNCHANGED <<queue, completed>> BY <1>7 DEF Interrupted, sessionVars, pumpVars,
                                          consumerVars, pumpFrame, MovePump, Took
  <2> QED BY <2>1, <2>2 DEF MarksAreCounted
<1>8. CASE CloseFromOutside
  <2>0. "consumer" \in Closers /\ "closer" \in Closers BY DEF Closers
  <2>1. Ended' = Ended BY <2>0, <1>8, Closing, EndedSame DEF CloseFromOutside, Leave
  <2>2. UNCHANGED <<queue, completed>> BY <1>8 DEF CloseFromOutside, sessionVars, pumpVars,
                                          consumerVars, pumpFrame, MovePump, Took
  <2> QED BY <2>1, <2>2 DEF MarksAreCounted
<1>9. ASSUME NEW t \in Targets, TakeEvent(t) PROVE MarksAreCounted'
  <2>1. Ended' = Ended BY <1>9, EndedSame DEF TakeEvent, TypeOK, MovePump, sessionVars,
                          pumpVars, pumpFrame
  <2>2. completed' + Count(Finished, queue') = completed + Count(Finished, queue)
    <3>1. queue' \in Seq(Entries) BY <1>9, QueueType, Taking DEF TakeEvent
    <3>2. Count(Finished, queue') \in Nat BY <3>1, CountType
    <3> QED BY <1>9, <3>2, QueueType, Taking, EntryFacts DEF TakeEvent, consumerVars
  <2> QED BY <2>1, <2>2 DEF MarksAreCounted
<1>10. ASSUME NEW k \in Closers, Gathered(k) PROVE MarksAreCounted'
  <2>1. Ended' = Ended BY <1>10, EndedSame DEF Gathered, TypeOK, MovePump, sessionVars,
                          pumpVars, pumpFrame
  <2>2. UNCHANGED <<queue, completed>> BY <1>10 DEF Gathered, sessionVars, pumpVars,
                                          consumerVars, pumpFrame, MovePump, Took
  <2> QED BY <2>1, <2>2 DEF MarksAreCounted
<1>11. ASSUME NEW k \in Closers, ReleaseOne(k) PROVE MarksAreCounted'
  <2>1. Ended' = Ended BY <1>11, EndedSame DEF ReleaseOne, TypeOK, MovePump, sessionVars,
                          pumpVars, pumpFrame
  <2>2. UNCHANGED <<queue, completed>> BY <1>11 DEF ReleaseOne, sessionVars, pumpVars,
                                          consumerVars, pumpFrame, MovePump, Took
  <2> QED BY <2>1, <2>2 DEF MarksAreCounted
<1>12. ASSUME NEW k \in Closers, Released(k) PROVE MarksAreCounted'
  <2>1. Ended' = Ended BY <1>12, EndedSame DEF Released, TypeOK, MovePump, sessionVars,
                          pumpVars, pumpFrame
  <2>2. UNCHANGED <<queue, completed>> BY <1>12 DEF Released, sessionVars, pumpVars,
                                          consumerVars, pumpFrame, MovePump, Took
  <2> QED BY <2>1, <2>2 DEF MarksAreCounted
<1>13. ASSUME NEW k \in Closers, CloseInterrupted(k) PROVE MarksAreCounted'
  <2>1. Ended' = Ended BY <1>13, EndedSame DEF CloseInterrupted, TypeOK, MovePump,
                          sessionVars, pumpVars, pumpFrame
  <2>2. UNCHANGED <<queue, completed>> BY <1>13 DEF CloseInterrupted, sessionVars, pumpVars,
                                          consumerVars, pumpFrame, MovePump, Took
  <2> QED BY <2>1, <2>2 DEF MarksAreCounted
<1>14. ASSUME NEW t \in Targets, PumpStarts(t) PROVE MarksAreCounted'
  <2>0. /\ queue \in Seq(Entries) /\ completed' = completed /\ completed \in Nat
        /\ Count(Finished, queue) \in Nat
    BY <1>14, QueueType DEF PumpStarts, sessionVars, pumpVars, consumerVars, pumpFrame,
       MovePump, Took
  <2>1. CASE sub[t] = "closed"
    <3>1. Ended' = Ended \cup {t} /\ Cardinality(Ended') = Cardinality(Ended) + 1
      BY <2>1, <1>14, EndedOne DEF PumpStarts
    <3>2. Count(Finished, queue') = Count(Finished, queue) + 1
      BY <2>0, <2>1, <1>14, Putting, PuttingTwo, EntryFacts DEF PumpStarts
    <3> QED BY <2>0, <3>1, <3>2 DEF MarksAreCounted
  <2>2. CASE sub[t] # "closed"
    <3>1. Ended' = Ended BY <2>2, <1>14, EndedSame DEF PumpStarts, TypeOK, MovePump
    <3>2. Count(Finished, queue') = Count(Finished, queue)
      BY <2>0, <2>2, <1>14, Putting, PuttingTwo, EntryFacts DEF PumpStarts
    <3> QED BY <2>0, <3>1, <3>2 DEF MarksAreCounted
  <2> QED BY <2>1, <2>2
<1>15. ASSUME NEW t \in Targets, PumpReceives(t) PROVE MarksAreCounted'
  <2>1. Ended' = Ended BY <1>15, EndedSame DEF PumpReceives, TypeOK, MovePump, sessionVars,
                          pumpVars, pumpFrame
  <2>2. UNCHANGED <<queue, completed>> BY <1>15 DEF PumpReceives, sessionVars, pumpVars,
                                          consumerVars, pumpFrame, MovePump, Took
  <2> QED BY <2>1, <2>2 DEF MarksAreCounted
<1>16. ASSUME NEW t \in Targets, PumpAcknowledged(t) PROVE MarksAreCounted'
  <2>0. /\ queue \in Seq(Entries) /\ completed' = completed /\ completed \in Nat
        /\ Count(Finished, queue) \in Nat
    BY <1>16, QueueType DEF PumpAcknowledged, sessionVars, pumpVars, consumerVars, pumpFrame,
       MovePump, Took
  <2>1. CASE sub[t] = "closed"
    <3>1. Ended' = Ended \cup {t} /\ Cardinality(Ended') = Cardinality(Ended) + 1
      BY <2>1, <1>16, EndedOne DEF PumpAcknowledged
    <3>2. Count(Finished, queue') = Count(Finished, queue) + 1
      BY <2>0, <2>1, <1>16, Putting, PuttingTwo, EntryFacts DEF PumpAcknowledged
    <3> QED BY <2>0, <3>1, <3>2 DEF MarksAreCounted
  <2>2. CASE sub[t] # "closed"
    <3>1. Ended' = Ended BY <2>2, <1>16, EndedSame DEF PumpAcknowledged, TypeOK, MovePump
    <3>2. Count(Finished, queue') = Count(Finished, queue)
      BY <2>0, <2>2, <1>16, Putting, PuttingTwo, EntryFacts DEF PumpAcknowledged
    <3> QED BY <2>0, <3>1, <3>2 DEF MarksAreCounted
  <2> QED BY <2>1, <2>2
<1>17. ASSUME NEW t \in Targets, PumpEnds(t) PROVE MarksAreCounted'
  <2>0. /\ queue \in Seq(Entries) /\ completed' = completed /\ completed \in Nat
        /\ Count(Finished, queue) \in Nat
    BY <1>17, QueueType DEF PumpEnds, sessionVars, pumpVars, consumerVars, pumpFrame,
       MovePump, Took
  <2>1. Ended' = Ended \cup {t} /\ Cardinality(Ended') = Cardinality(Ended) + 1
    BY <1>17, EndedOne DEF PumpEnds
  <2>2. Count(Finished, queue') = Count(Finished, queue) + 1
    BY <2>0, <1>17, Putting, PuttingTwo, EntryFacts DEF PumpEnds
  <2> QED BY <2>0, <2>1, <2>2 DEF MarksAreCounted
<1>18. ASSUME NEW t \in Targets, PumpFails(t) PROVE MarksAreCounted'
  <2>1. Ended' = Ended BY <1>18, EndedSame DEF PumpFails, TypeOK, MovePump, sessionVars,
                          pumpVars, pumpFrame
  <2>2. UNCHANGED <<queue, completed>> BY <1>18 DEF PumpFails, sessionVars, pumpVars,
                                          consumerVars, pumpFrame, MovePump, Took
  <2> QED BY <2>1, <2>2 DEF MarksAreCounted
<1>19. ASSUME NEW t \in Targets, PumpFailed(t) PROVE MarksAreCounted'
  <2>0. /\ queue \in Seq(Entries) /\ completed' = completed /\ completed \in Nat
        /\ Count(Finished, queue) \in Nat
    BY <1>19, QueueType DEF PumpFailed, sessionVars, pumpVars, consumerVars, pumpFrame,
       MovePump, Took
  <2>1. Ended' = Ended \cup {t} /\ Cardinality(Ended') = Cardinality(Ended) + 1
    BY <1>19, EndedOne DEF PumpFailed
  <2>2. Count(Finished, queue') = Count(Finished, queue) + 1
    BY <2>0, <1>19, Putting, PuttingTwo, EntryFacts DEF PumpFailed
  <2> QED BY <2>0, <2>1, <2>2 DEF MarksAreCounted
<1>20. ASSUME NEW t \in Targets, PumpUnwound(t) PROVE MarksAreCounted'
  <2>0. /\ queue \in Seq(Entries) /\ completed' = completed /\ completed \in Nat
        /\ Count(Finished, queue) \in Nat
    BY <1>20, QueueType DEF PumpUnwound, sessionVars, pumpVars, consumerVars, pumpFrame,
       MovePump, Took
  <2>1. Ended' = Ended \cup {t} /\ Cardinality(Ended') = Cardinality(Ended) + 1
    BY <1>20, EndedOne DEF PumpUnwound
  <2>2. Count(Finished, queue') = Count(Finished, queue) + 1
    BY <2>0, <1>20, Putting, PuttingTwo, EntryFacts DEF PumpUnwound
  <2> QED BY <2>0, <2>1, <2>2 DEF MarksAreCounted
<1>21. ASSUME NEW t \in Targets, ClientCloses(t) PROVE MarksAreCounted'
  <2>1. Ended' = Ended BY <1>21, EndedSame DEF ClientCloses, TypeOK, MovePump, sessionVars,
                          pumpVars, pumpFrame
  <2>2. UNCHANGED <<queue, completed>> BY <1>21 DEF ClientCloses, sessionVars, pumpVars,
                                          consumerVars, pumpFrame, MovePump, Took
  <2> QED BY <2>1, <2>2 DEF MarksAreCounted
<1> QED
  BY <1>1, <1>2, <1>3, <1>4, <1>5, <1>6, <1>7, <1>8, <1>9, <1>10, <1>11, <1>12, <1>13, <1>14,
     <1>15, <1>16, <1>17, <1>18, <1>19, <1>20, <1>21
     DEF Moves, ConsumerStep, CloseStep, PumpStep

(* When all pumps are over a mark is last in the queue.                     *)
LEMMA LastKept ==
    ASSUME TypeOK, OpenedInOrder, MarkIsLast, Moves
    PROVE  MarkIsLast'
<1>1. CASE Start
  <2>1. Ended' = Ended BY <1>1, EndedSame DEF Start, TypeOK, MovePump, sessionVars, pumpVars,
                          pumpFrame
  <2>2. queue' = queue BY <1>1 DEF Start, sessionVars, pumpVars, consumerVars, pumpFrame,
                          MovePump, Took
  <2> QED BY <2>1, <2>2 DEF MarkIsLast
<1>2. CASE Subscribed
  <2>1. Ended' = Ended
    BY <1>2, EndedSame, EntryFacts DEF Subscribed, OpenedInOrder, TypeOK, Targets
  <2>2. queue' = queue BY <1>2 DEF Subscribed, sessionVars, pumpVars, consumerVars, pumpFrame,
                          MovePump, Took
  <2> QED BY <2>1, <2>2 DEF MarkIsLast
<1>3. CASE SubscribeFails
  <2>0. "consumer" \in Closers /\ "closer" \in Closers BY DEF Closers
  <2>1. Ended' = Ended BY <2>0, <1>3, Closing, EndedSame DEF SubscribeFails, Leave
  <2>2. queue' = queue BY <1>3 DEF SubscribeFails, sessionVars, pumpVars, consumerVars,
                          pumpFrame, MovePump, Took
  <2> QED BY <2>1, <2>2 DEF MarkIsLast
<1>4. CASE TakeFailure
  <2>0. "consumer" \in Closers /\ "closer" \in Closers BY DEF Closers
  <2>1. Ended' = Ended BY <2>0, <1>4, Closing, EndedSame DEF TakeFailure, Leave
  <2>2. queue' # <<>> => queue # <<>> /\ queue'[Len(queue')] = queue[Len(queue)]
    <3>1. queue' \in Seq(Entries) BY <1>4, QueueType, Taking DEF TakeFailure
    <3>2. queue' # <<>> => Len(queue') \in Nat \ {0} BY <3>1, EmptySeq
    <3> QED BY <1>4, <3>2, QueueType, Taking DEF TakeFailure
  <2> QED BY <2>1, <2>2 DEF MarkIsLast
<1>5. CASE TakeFinished
  <2>0. "consumer" \in Closers /\ "closer" \in Closers BY DEF Closers
  <2>1. Ended' = Ended
    <3>1. CASE Leave("exhausted") BY <2>0, <3>1, Closing, EndedSame DEF Leave
    <3>2. CASE UNCHANGED pump BY <3>2, EndedSame
    <3> QED BY <3>1, <3>2, <1>5 DEF TakeFinished
  <2>2. queue' # <<>> => queue # <<>> /\ queue'[Len(queue')] = queue[Len(queue)]
    <3>1. queue' \in Seq(Entries) BY <1>5, QueueType, Taking DEF TakeFinished
    <3>2. queue' # <<>> => Len(queue') \in Nat \ {0} BY <3>1, EmptySeq
    <3> QED BY <1>5, <3>2, QueueType, Taking DEF TakeFinished
  <2> QED BY <2>1, <2>2 DEF MarkIsLast
<1>6. CASE Again
  <2>1. Ended' = Ended BY <1>6, EndedSame DEF Again, TypeOK, MovePump, sessionVars, pumpVars,
                          pumpFrame
  <2>2. queue' = queue BY <1>6 DEF Again, sessionVars, pumpVars, consumerVars, pumpFrame,
                          MovePump, Took
  <2> QED BY <2>1, <2>2 DEF MarkIsLast
<1>7. CASE Interrupted
  <2>0. "consumer" \in Closers /\ "closer" \in Closers BY DEF Closers
  <2>1. Ended' = Ended BY <2>0, <1>7, Closing, EndedSame DEF Interrupted, Leave
  <2>2. queue' = queue BY <1>7 DEF Interrupted, sessionVars, pumpVars, consumerVars,
                          pumpFrame, MovePump, Took
  <2> QED BY <2>1, <2>2 DEF MarkIsLast
<1>8. CASE CloseFromOutside
  <2>0. "consumer" \in Closers /\ "closer" \in Closers BY DEF Closers
  <2>1. Ended' = Ended BY <2>0, <1>8, Closing, EndedSame DEF CloseFromOutside, Leave
  <2>2. queue' = queue BY <1>8 DEF CloseFromOutside, sessionVars, pumpVars, consumerVars,
                          pumpFrame, MovePump, Took
  <2> QED BY <2>1, <2>2 DEF MarkIsLast
<1>9. ASSUME NEW t \in Targets, TakeEvent(t) PROVE MarkIsLast'
  <2>1. Ended' = Ended BY <1>9, EndedSame DEF TakeEvent, TypeOK, MovePump, sessionVars,
                          pumpVars, pumpFrame
  <2>2. queue' # <<>> => queue # <<>> /\ queue'[Len(queue')] = queue[Len(queue)]
    <3>1. queue' \in Seq(Entries) BY <1>9, QueueType, Taking DEF TakeEvent
    <3>2. queue' # <<>> => Len(queue') \in Nat \ {0} BY <3>1, EmptySeq
    <3> QED BY <1>9, <3>2, QueueType, Taking DEF TakeEvent
  <2> QED BY <2>1, <2>2 DEF MarkIsLast
<1>10. ASSUME NEW k \in Closers, Gathered(k) PROVE MarkIsLast'
  <2>1. Ended' = Ended BY <1>10, EndedSame DEF Gathered, TypeOK, MovePump, sessionVars,
                          pumpVars, pumpFrame
  <2>2. queue' = queue BY <1>10 DEF Gathered, sessionVars, pumpVars, consumerVars, pumpFrame,
                          MovePump, Took
  <2> QED BY <2>1, <2>2 DEF MarkIsLast
<1>11. ASSUME NEW k \in Closers, ReleaseOne(k) PROVE MarkIsLast'
  <2>1. Ended' = Ended BY <1>11, EndedSame DEF ReleaseOne, TypeOK, MovePump, sessionVars,
                          pumpVars, pumpFrame
  <2>2. queue' = queue BY <1>11 DEF ReleaseOne, sessionVars, pumpVars, consumerVars,
                          pumpFrame, MovePump, Took
  <2> QED BY <2>1, <2>2 DEF MarkIsLast
<1>12. ASSUME NEW k \in Closers, Released(k) PROVE MarkIsLast'
  <2>1. Ended' = Ended BY <1>12, EndedSame DEF Released, TypeOK, MovePump, sessionVars,
                          pumpVars, pumpFrame
  <2>2. queue' = queue BY <1>12 DEF Released, sessionVars, pumpVars, consumerVars, pumpFrame,
                          MovePump, Took
  <2> QED BY <2>1, <2>2 DEF MarkIsLast
<1>13. ASSUME NEW k \in Closers, CloseInterrupted(k) PROVE MarkIsLast'
  <2>1. Ended' = Ended BY <1>13, EndedSame DEF CloseInterrupted, TypeOK, MovePump,
                          sessionVars, pumpVars, pumpFrame
  <2>2. queue' = queue BY <1>13 DEF CloseInterrupted, sessionVars, pumpVars, consumerVars,
                          pumpFrame, MovePump, Took
  <2> QED BY <2>1, <2>2 DEF MarkIsLast
<1>14. ASSUME NEW t \in Targets, PumpStarts(t) PROVE MarkIsLast'
  <2>0. queue \in Seq(Entries) BY DEF TypeOK, Entries
  <2>1. CASE sub[t] = "closed"
    BY <2>0, <2>1, <1>14, Putting, PuttingTwo, EntryFacts DEF PumpStarts, MarkIsLast
  <2>2. CASE sub[t] # "closed"
    <3>1. t \notin Ended' BY <2>2, <1>14 DEF PumpStarts, TypeOK, MovePump, Ended
    <3> QED BY <3>1 DEF MarkIsLast
  <2> QED BY <2>1, <2>2
<1>15. ASSUME NEW t \in Targets, PumpReceives(t) PROVE MarkIsLast'
  <2>1. Ended' = Ended BY <1>15, EndedSame DEF PumpReceives, TypeOK, MovePump, sessionVars,
                          pumpVars, pumpFrame
  <2>2. queue' = queue BY <1>15 DEF PumpReceives, sessionVars, pumpVars, consumerVars,
                          pumpFrame, MovePump, Took
  <2> QED BY <2>1, <2>2 DEF MarkIsLast
<1>16. ASSUME NEW t \in Targets, PumpAcknowledged(t) PROVE MarkIsLast'
  <2>0. queue \in Seq(Entries) BY DEF TypeOK, Entries
  <2>1. CASE sub[t] = "closed"
    BY <2>0, <2>1, <1>16, Putting, PuttingTwo, EntryFacts DEF PumpAcknowledged, MarkIsLast
  <2>2. CASE sub[t] # "closed"
    <3>1. t \notin Ended' BY <2>2, <1>16 DEF PumpAcknowledged, TypeOK, MovePump, Ended
    <3> QED BY <3>1 DEF MarkIsLast
  <2> QED BY <2>1, <2>2
<1>17. ASSUME NEW t \in Targets, PumpEnds(t) PROVE MarkIsLast'
  <2>0. queue \in Seq(Entries) BY DEF TypeOK, Entries
  <2> QED BY <2>0, <1>17, Putting, PuttingTwo, EntryFacts DEF PumpEnds, MarkIsLast
<1>18. ASSUME NEW t \in Targets, PumpFails(t) PROVE MarkIsLast'
  <2>1. Ended' = Ended BY <1>18, EndedSame DEF PumpFails, TypeOK, MovePump, sessionVars,
                          pumpVars, pumpFrame
  <2>2. queue' = queue BY <1>18 DEF PumpFails, sessionVars, pumpVars, consumerVars, pumpFrame,
                          MovePump, Took
  <2> QED BY <2>1, <2>2 DEF MarkIsLast
<1>19. ASSUME NEW t \in Targets, PumpFailed(t) PROVE MarkIsLast'
  <2>0. queue \in Seq(Entries) BY DEF TypeOK, Entries
  <2> QED BY <2>0, <1>19, Putting, PuttingTwo, EntryFacts DEF PumpFailed, MarkIsLast
<1>20. ASSUME NEW t \in Targets, PumpUnwound(t) PROVE MarkIsLast'
  <2>0. queue \in Seq(Entries) BY DEF TypeOK, Entries
  <2> QED BY <2>0, <1>20, Putting, PuttingTwo, EntryFacts DEF PumpUnwound, MarkIsLast
<1>21. ASSUME NEW t \in Targets, ClientCloses(t) PROVE MarkIsLast'
  <2>1. Ended' = Ended BY <1>21, EndedSame DEF ClientCloses, TypeOK, MovePump, sessionVars,
                          pumpVars, pumpFrame
  <2>2. queue' = queue BY <1>21 DEF ClientCloses, sessionVars, pumpVars, consumerVars,
                          pumpFrame, MovePump, Took
  <2> QED BY <2>1, <2>2 DEF MarkIsLast
<1> QED
  BY <1>1, <1>2, <1>3, <1>4, <1>5, <1>6, <1>7, <1>8, <1>9, <1>10, <1>11, <1>12, <1>13, <1>14,
     <1>15, <1>16, <1>17, <1>18, <1>19, <1>20, <1>21
     DEF Moves, ConsumerStep, CloseStep, PumpStep

\* What is delivered and queued grows with what the pumps have let go, and keeps
\* step with it as long as there are no losses.
LEMMA EventsStay ==
    ASSUME TypeOK, EventsAreCounted,
           \A u \in Targets :
             /\ delivered'[u] + Count(Event(u), queue') = delivered[u] + Count(Event(u), queue)
             /\ received'[u] - InHand(pump'[u]) >= received[u] - InHand(pump[u])
             /\ ~closed' /\ NoFailure' /\ pump'[u] # "failing" =>
                  /\ ~closed /\ NoFailure /\ pump[u] # "failing"
                  /\ received'[u] - InHand(pump'[u]) = received[u] - InHand(pump[u]),
           received' \in [Targets -> Nat]
    PROVE  EventsAreCounted'
<1>1. ASSUME NEW u \in Targets
      PROVE  /\ received[u] - InHand(pump[u]) \in Int /\ received'[u] - InHand(pump'[u]) \in Int
             /\ delivered[u] + Count(Event(u), queue) \in Nat
  <2>1. received[u] \in Nat /\ received'[u] \in Nat /\ delivered[u] \in Nat
    BY EntryFacts DEF TypeOK
  <2>2. InHand(pump[u]) \in 0..1 /\ InHand(pump'[u]) \in 0..1 BY DEF InHand
  <2> QED BY <2>1, <2>2, QueueType
<1> QED BY <1>1 DEF EventsAreCounted

\* In a step that keeps the queue, what it has delivered and what it has taken.
LEMMA EventsWithQueue ==
    ASSUME TypeOK, EventsAreCounted, UNCHANGED <<queue, delivered, received>>,
           \A u \in Targets :
             /\ pump'[u] = pump[u] \/ pump'[u] # "acking"
             /\ ~closed' => ~closed
             /\ ~closed' /\ pump'[u] # "failing" =>
                  /\ pump[u] # "failing"
                  /\ pump'[u] = "acking" <=> pump[u] = "acking"
    PROVE  EventsAreCounted'
<1>1. NoFailure' = NoFailure BY DEF NoFailure
<1>2. received' \in [Targets -> Nat] /\ received \in [Targets -> Nat]
  BY EntryFacts DEF TypeOK
<1>3. ASSUME NEW u \in Targets
      PROVE  /\ received'[u] - InHand(pump'[u]) >= received[u] - InHand(pump[u])
             /\ ~closed' /\ pump'[u] # "failing" =>
                  received'[u] - InHand(pump'[u]) = received[u] - InHand(pump[u])
  BY <1>2 DEF InHand
<1> QED BY <1>1, <1>2, <1>3, EventsStay

\* A step that puts marks, and loses nothing without a failure.
LEMMA EventsWithMark ==
    ASSUME TypeOK, EventsAreCounted, UNCHANGED <<closed, delivered, received>>,
           \A e : e # Finished /\ e # Failure => Count(e, queue') = Count(e, queue),
           NoFailure' => NoFailure,
           \A u \in Targets :
             /\ pump'[u] = "acking" <=> pump[u] = "acking"
             /\ NoFailure' /\ pump'[u] # "failing" => pump[u] # "failing"
    PROVE  EventsAreCounted'
<1>1. \A u \in Targets : Count(Event(u), queue') = Count(Event(u), queue)
  BY EntryFacts
<1>2. received' \in [Targets -> Nat] BY EntryFacts DEF TypeOK
<1>3. \A u \in Targets : InHand(pump'[u]) = InHand(pump[u]) BY DEF InHand
<1>4. \A u \in Targets : received[u] - InHand(pump[u]) \in Int
  BY <1>2 DEF InHand
<1> QED BY <1>1, <1>2, <1>3, <1>4, EventsStay

(* No event is lost without a failure that shows, or a session closed.      *)
LEMMA EventsKept ==
    ASSUME TypeOK, OpenedInOrder, EventsAreCounted, Moves
    PROVE  EventsAreCounted'
<1>1. CASE Start
  BY <1>1, EventsWithQueue DEF Start, sessionVars, pumpVars, consumerVars, pumpFrame,
     MovePump, Took
<1>2. CASE Subscribed
  <2>1. opened + 1 \in Targets /\ pump[opened + 1] = "none"
    <3>1. opened + 1 \in Targets /\ ~(opened + 1 <= opened)
      BY <1>2, EntryFacts DEF Subscribed, OpenedInOrder, TypeOK, Targets, At
    <3> QED BY <3>1 DEF OpenedInOrder
  <2>2. pump' = [pump EXCEPT ![opened + 1] = "created"] /\ closed' = closed
        /\ UNCHANGED <<queue, delivered, received>>
    BY <1>2 DEF Subscribed
  <2> QED BY <2>1, <2>2, EventsWithQueue DEF TypeOK
<1>3. CASE SubscribeFails
  <2>0. "consumer" \in Closers /\ "closer" \in Closers BY DEF Closers
  <2>1. UNCHANGED <<queue, delivered, received>> BY <1>3 DEF SubscribeFails, sessionVars,
                                                    pumpVars, consumerVars, pumpFrame,
                                                    MovePump, Took
  <2>2. closed' = TRUE /\ \A u \in Targets : pump'[u] = pump[u] \/ pump'[u] # "acking"
    BY <2>0, <1>3, Closing DEF SubscribeFails, Leave
  <2> QED BY <2>1, <2>2, EventsWithQueue
<1>4. CASE TakeFailure
  <2>0. "consumer" \in Closers /\ "closer" \in Closers BY DEF Closers
  <2>1. UNCHANGED <<delivered, received>> BY <1>4 DEF TakeFailure, sessionVars, pumpVars,
                                             consumerVars, pumpFrame, MovePump, Took
  <2>2. \A e : e # Finished /\ e # Failure => Count(e, queue') = Count(e, queue)
    <3>1. queue' \in Seq(Entries) BY <1>4, QueueType, Taking DEF TakeFailure
    <3>2. \A e : Count(e, queue') \in Nat BY <3>1, CountType
    <3> QED BY <1>4, <3>2, QueueType, Taking DEF TakeFailure
  <2>3. received' \in [Targets -> Nat] BY <2>1, EntryFacts DEF TypeOK
  <2>4. CASE Leave("error")
    <3>1. closed' = TRUE /\ \A u \in Targets : pump'[u] = pump[u] \/ pump'[u] # "acking"
      BY <2>0, <2>4, Closing DEF Leave
    <3>2. ASSUME NEW u \in Targets
          PROVE  received'[u] - InHand(pump'[u]) >= received[u] - InHand(pump[u])
      BY <2>1, <2>3, <3>1 DEF InHand
    <3> QED BY <2>1, <2>2, <2>3, <3>1, <3>2, EntryFacts, EventsStay
  <2> QED BY <2>4, <1>4 DEF TakeFailure
<1>5. CASE TakeFinished
  <2>0. "consumer" \in Closers /\ "closer" \in Closers BY DEF Closers
  <2>1. UNCHANGED <<delivered, received>> BY <1>5 DEF TakeFinished, sessionVars, pumpVars,
                                             consumerVars, pumpFrame, MovePump, Took
  <2>2. \A e : e # Finished /\ e # Failure => Count(e, queue') = Count(e, queue)
    <3>1. queue' \in Seq(Entries) BY <1>5, QueueType, Taking DEF TakeFinished
    <3>2. \A e : Count(e, queue') \in Nat BY <3>1, CountType
    <3> QED BY <1>5, <3>2, QueueType, Taking DEF TakeFinished
  <2>3. received' \in [Targets -> Nat] BY <2>1, EntryFacts DEF TypeOK
  <2>4. CASE Leave("exhausted")
    <3>1. closed' = TRUE /\ \A u \in Targets : pump'[u] = pump[u] \/ pump'[u] # "acking"
      BY <2>0, <2>4, Closing DEF Leave
    <3>2. ASSUME NEW u \in Targets
          PROVE  received'[u] - InHand(pump'[u]) >= received[u] - InHand(pump[u])
      BY <2>1, <2>3, <3>1 DEF InHand
    <3> QED BY <2>1, <2>2, <2>3, <3>1, <3>2, EntryFacts, EventsStay
  <2>5. CASE UNCHANGED <<closed, gathering, pump, place, outcome>>
    <3>1. NoFailure' => NoFailure
      <4>1. \A i \in 1..Len(queue) : i = 1 \/ i - 1 \in 1..Len(queue')
        BY <1>5, QueueType, Taking DEF TakeFinished
      <4>2. queue[1] = Finished
            /\ \A i \in 1..Len(queue) : i # 1 => queue[i] = queue'[i - 1]
        BY <1>5, <4>1, QueueType, Taking DEF TakeFinished
      <4> QED BY <4>1, <4>2, EntryFacts DEF NoFailure
    <3> QED BY <2>1, <2>2, <2>5, <3>1, EventsWithMark
  <2> QED BY <2>4, <2>5, <1>5 DEF TakeFinished
<1>6. CASE Again
  BY <1>6, EventsWithQueue DEF Again, sessionVars, pumpVars, consumerVars, pumpFrame,
     MovePump, Took
<1>7. CASE Interrupted
  <2>0. "consumer" \in Closers /\ "closer" \in Closers BY DEF Closers
  <2>1. UNCHANGED <<queue, delivered, received>> BY <1>7 DEF Interrupted, sessionVars,
                                                    pumpVars, consumerVars, pumpFrame,
                                                    MovePump, Took
  <2>2. closed' = TRUE /\ \A u \in Targets : pump'[u] = pump[u] \/ pump'[u] # "acking"
    BY <2>0, <1>7, Closing DEF Interrupted, Leave
  <2> QED BY <2>1, <2>2, EventsWithQueue
<1>8. CASE CloseFromOutside
  <2>0. "consumer" \in Closers /\ "closer" \in Closers BY DEF Closers
  <2>1. UNCHANGED <<queue, delivered, received>> BY <1>8 DEF CloseFromOutside, sessionVars,
                                                    pumpVars, consumerVars, pumpFrame,
                                                    MovePump, Took
  <2>2. closed' = TRUE /\ \A u \in Targets : pump'[u] = pump[u] \/ pump'[u] # "acking"
    BY <2>0, <1>8, Closing DEF CloseFromOutside, Leave
  <2> QED BY <2>1, <2>2, EventsWithQueue
<1>9. ASSUME NEW t \in Targets, TakeEvent(t) PROVE EventsAreCounted'
  <2>1. /\ queue' \in Seq(Entries) /\ UNCHANGED <<closed, pump, received>>
        /\ delivered' = [delivered EXCEPT ![t] = @ + 1]
    BY <1>9, QueueType, Taking DEF TakeEvent, sessionVars, pumpVars
  <2>2. \A e : Count(e, queue') \in Nat BY <2>1, CountType
  <2>3. \A u \in Targets : delivered'[u] + Count(Event(u), queue')
                             = delivered[u] + Count(Event(u), queue)
    <3>1. \A u \in Targets : delivered[u] \in Nat BY EntryFacts DEF TypeOK
    <3>2. delivered'[t] = delivered[t] + 1 /\ \A u \in Targets \ {t} : delivered'[u] = delivered[u]
      BY <2>1, PumpTypes
    <3>3. Count(Event(t), queue) = Count(Event(t), queue') + 1
      BY <1>9, QueueType, Taking DEF TakeEvent
    <3>4. \A u \in Targets \ {t} : Count(Event(u), queue) = Count(Event(u), queue')
      BY <1>9, <2>2, QueueType, Taking, EntryFacts DEF TakeEvent
    <3> QED BY <2>2, <3>1, <3>2, <3>3, <3>4
  <2>4. NoFailure' => NoFailure
    <3>1. \A i \in 1..Len(queue) : i = 1 \/ i - 1 \in 1..Len(queue')
      BY <1>9, QueueType, Taking DEF TakeEvent
    <3>2. queue[1] = Event(t)
          /\ \A i \in 1..Len(queue) : i # 1 => queue[i] = queue'[i - 1]
      BY <1>9, <3>1, QueueType, Taking DEF TakeEvent
    <3> QED BY <3>1, <3>2, EntryFacts DEF NoFailure
  <2>5. received' \in [Targets -> Nat] BY <2>1, EntryFacts DEF TypeOK
  <2>6. \A u \in Targets : received[u] - InHand(pump[u]) \in Int
    BY <2>1, <2>5 DEF InHand
  <2> QED BY <2>1, <2>3, <2>4, <2>5, <2>6, EventsStay
<1>10. ASSUME NEW k \in Closers, Gathered(k) PROVE EventsAreCounted'
  BY <1>10, EventsWithQueue DEF Gathered, sessionVars, pumpVars, consumerVars, pumpFrame,
     MovePump, Took
<1>11. ASSUME NEW k \in Closers, ReleaseOne(k) PROVE EventsAreCounted'
  BY <1>11, EventsWithQueue DEF ReleaseOne, sessionVars, pumpVars, consumerVars, pumpFrame,
     MovePump, Took
<1>12. ASSUME NEW k \in Closers, Released(k) PROVE EventsAreCounted'
  BY <1>12, EventsWithQueue DEF Released, sessionVars, pumpVars, consumerVars, pumpFrame,
     MovePump, Took
<1>13. ASSUME NEW k \in Closers, CloseInterrupted(k) PROVE EventsAreCounted'
  BY <1>13, EventsWithQueue DEF CloseInterrupted, sessionVars, pumpVars, consumerVars,
     pumpFrame, MovePump, Took
<1>14. ASSUME NEW t \in Targets, PumpStarts(t) PROVE EventsAreCounted'
  <2>1. /\ UNCHANGED <<closed, delivered, received>> /\ pump[t] = "created"
        /\ \/ pump' = [pump EXCEPT ![t] = "done"] /\ Put(<<Finished>>)
           \/ pump' = [pump EXCEPT ![t] = "reading"] /\ UNCHANGED queue
    BY <1>14 DEF PumpStarts, sessionVars, pumpVars, consumerVars, pumpFrame, MovePump, Took
  <2>2. \A e : e # Finished /\ e # Failure => Count(e, queue') = Count(e, queue)
    BY <2>1, Putting, QueueType, EntryFacts
  <2>3. NoFailure' => NoFailure
    BY <2>1, Putting, QueueType, EntryFacts DEF NoFailure
  <2>4. \A u \in Targets : /\ pump'[u] = "acking" <=> pump[u] = "acking"
                           /\ pump'[u] # "failing" => pump[u] # "failing"
    BY <2>1, PumpTypes
  <2> QED BY <2>1, <2>2, <2>3, <2>4, EventsWithMark
<1>15. ASSUME NEW t \in Targets, PumpReceives(t) PROVE EventsAreCounted'
  <2>1. /\ received' = [received EXCEPT ![t] = @ + 1] /\ pump' = [pump EXCEPT ![t] = "acking"]
        /\ pump[t] = "reading" /\ UNCHANGED <<queue, delivered, closed>>
    BY <1>15 DEF PumpReceives, sessionVars, pumpVars, consumerVars, pumpFrame, MovePump, Took
  <2>2. received \in [Targets -> Nat] /\ received' \in [Targets -> Nat]
    BY <2>1, EntryFacts DEF TypeOK
  <2>3. NoFailure' = NoFailure BY <2>1 DEF NoFailure
  <2>4. \A u \in Targets : /\ received'[u] - InHand(pump'[u]) = received[u] - InHand(pump[u])
                           /\ received[u] - InHand(pump[u]) \in Int
                           /\ pump'[u] # "failing" => pump[u] # "failing"
    BY <2>1, <2>2, PumpTypes DEF InHand
  <2> QED BY <2>1, <2>2, <2>3, <2>4, EventsStay
<1>16. ASSUME NEW t \in Targets, PumpAcknowledged(t) PROVE EventsAreCounted'
  <2>1. /\ UNCHANGED <<closed, delivered, received>> /\ pump[t] = "acking"
        /\ \/ pump' = [pump EXCEPT ![t] = "done"] /\ Put(<<Event(t), Finished>>)
           \/ pump' = [pump EXCEPT ![t] = "reading"] /\ Put(<<Event(t)>>)
    BY <1>16 DEF PumpAcknowledged, sessionVars, pumpVars, consumerVars, pumpFrame, MovePump,
       Took
  <2>2. /\ Count(Event(t), queue') = Count(Event(t), queue) + 1
        /\ \A u \in Targets \ {t} : Count(Event(u), queue') = Count(Event(u), queue)
    <3>1. \A e : \/ e = Event(t) /\ Count(e, queue') = Count(e, queue) + 1
                 \/ e # Event(t) /\ (e # Finished => Count(e, queue') = Count(e, queue))
      BY <2>1, Putting, PuttingTwo, QueueType, EntryFacts
    <3> QED BY <3>1, EntryFacts
  <2>3. NoFailure' => NoFailure
    BY <2>1, Putting, PuttingTwo, QueueType, EntryFacts DEF NoFailure
  <2>4. /\ InHand(pump[t]) = 1 /\ InHand(pump'[t]) = 0
        /\ \A u \in Targets \ {t} : pump'[u] = pump[u]
    BY <2>1, PumpTypes DEF InHand
  <2>5. \A u \in Targets : received[u] \in Nat /\ delivered[u] \in Nat
    BY EntryFacts DEF TypeOK
  <2>6. ASSUME NEW u \in Targets
        PROVE  /\ delivered'[u] + Count(Event(u), queue') <= received'[u] - InHand(pump'[u])
               /\ ~closed' /\ NoFailure' /\ pump'[u] # "failing" =>
                    delivered'[u] + Count(Event(u), queue') = received'[u] - InHand(pump'[u])
    <3>1. /\ delivered[u] + Count(Event(u), queue) <= received[u] - InHand(pump[u])
          /\ ~closed /\ NoFailure /\ pump[u] # "failing" =>
               delivered[u] + Count(Event(u), queue) = received[u] - InHand(pump[u])
      BY DEF EventsAreCounted
    <3>2. Count(Event(u), queue) \in Nat BY QueueType
    <3>3. CASE u = t BY <2>1, <2>2, <2>3, <2>4, <2>5, <3>1, <3>2, <3>3
    <3>4. CASE u # t BY <2>1, <2>2, <2>3, <2>4, <2>5, <3>1, <3>2, <3>4
    <3> QED BY <3>3, <3>4
  <2> QED BY <2>6 DEF EventsAreCounted
<1>17. ASSUME NEW t \in Targets, PumpEnds(t) PROVE EventsAreCounted'
  <2>1. /\ UNCHANGED <<closed, delivered, received>> /\ pump[t] = "reading"
        /\ \/ pump' = [pump EXCEPT ![t] = "done"] /\ Put(<<Finished>>)
           \/ pump' = [pump EXCEPT ![t] = "reading"] /\ UNCHANGED queue
    BY <1>17 DEF PumpEnds, sessionVars, pumpVars, consumerVars, pumpFrame, MovePump, Took
  <2>2. \A e : e # Finished /\ e # Failure => Count(e, queue') = Count(e, queue)
    BY <2>1, Putting, QueueType, EntryFacts
  <2>3. NoFailure' => NoFailure
    BY <2>1, Putting, QueueType, EntryFacts DEF NoFailure
  <2>4. \A u \in Targets : /\ pump'[u] = "acking" <=> pump[u] = "acking"
                           /\ pump'[u] # "failing" => pump[u] # "failing"
    BY <2>1, PumpTypes
  <2> QED BY <2>1, <2>2, <2>3, <2>4, EventsWithMark
<1>18. ASSUME NEW t \in Targets, PumpFails(t) PROVE EventsAreCounted'
  BY <1>18, EventsWithQueue DEF PumpFails, sessionVars, pumpVars, consumerVars, pumpFrame,
     MovePump, Took, TypeOK
<1>19. ASSUME NEW t \in Targets, PumpFailed(t) PROVE EventsAreCounted'
  <2>1. /\ UNCHANGED <<closed, delivered, received>> /\ pump[t] = "failing"
        /\ pump' = [pump EXCEPT ![t] = "done"] /\ Put(<<Failure, Finished>>)
    BY <1>19 DEF PumpFailed, sessionVars, pumpVars, consumerVars, pumpFrame, MovePump, Took
  <2>2. \A e : e # Finished /\ e # Failure => Count(e, queue') = Count(e, queue)
    BY <2>1, PuttingTwo, QueueType, EntryFacts
  <2>3. ~NoFailure'
    <3>1. Len(queue) + 1 \in 1..Len(queue') /\ queue'[Len(queue) + 1] = Failure
      BY <2>1, PuttingTwo, QueueType, EntryFacts
    <3> QED BY <3>1 DEF NoFailure
  <2>4. \A u \in Targets : pump'[u] = "acking" <=> pump[u] = "acking"
    BY <2>1, PumpTypes
  <2> QED BY <2>1, <2>2, <2>3, <2>4, EventsWithMark
<1>20. ASSUME NEW t \in Targets, PumpUnwound(t) PROVE EventsAreCounted'
  <2>1. /\ UNCHANGED <<closed, delivered, received>> /\ pump[t] = "unwinding"
        /\ \/ pump' = [pump EXCEPT ![t] = "done"] /\ Put(<<Finished>>)
           \/ pump' = [pump EXCEPT ![t] = "reading"] /\ UNCHANGED queue
    BY <1>20 DEF PumpUnwound, sessionVars, pumpVars, consumerVars, pumpFrame, MovePump, Took
  <2>2. \A e : e # Finished /\ e # Failure => Count(e, queue') = Count(e, queue)
    BY <2>1, Putting, QueueType, EntryFacts
  <2>3. NoFailure' => NoFailure
    BY <2>1, Putting, QueueType, EntryFacts DEF NoFailure
  <2>4. \A u \in Targets : /\ pump'[u] = "acking" <=> pump[u] = "acking"
                           /\ pump'[u] # "failing" => pump[u] # "failing"
    BY <2>1, PumpTypes
  <2> QED BY <2>1, <2>2, <2>3, <2>4, EventsWithMark
<1>21. ASSUME NEW t \in Targets, ClientCloses(t) PROVE EventsAreCounted'
  BY <1>21, EventsWithQueue DEF ClientCloses, sessionVars, pumpVars, consumerVars, pumpFrame,
     MovePump, Took
<1> QED
  BY <1>1, <1>2, <1>3, <1>4, <1>5, <1>6, <1>7, <1>8, <1>9, <1>10, <1>11, <1>12, <1>13, <1>14,
     <1>15, <1>16, <1>17, <1>18, <1>19, <1>20, <1>21
     DEF Moves, ConsumerStep, CloseStep, PumpStep

\* The last mark is all there is in the queue when it is taken.
LEMMA LastMark ==
    ASSUME TypeOK, MarksAreCounted, MarkIsLast, Took(Finished), completed + 1 = Last
    PROVE  /\ queue' = <<>> /\ Ended = Targets /\ NoFailure
           /\ \A e : e # Finished => Count(e, queue) = 0
<1>1. /\ queue' \in Seq(Entries) /\ Len(queue) \in Nat \ {0} /\ Len(queue') = Len(queue) - 1
      /\ queue[1] = Finished /\ queue # <<>>
      /\ \A i \in 1..Len(queue') : queue'[i] = queue[i + 1]
      /\ Count(Finished, queue) = Count(Finished, queue') + 1
      /\ \A e : e # Finished => Count(e, queue) = Count(e, queue')
  <2>1. /\ queue' \in Seq(Entries) /\ Len(queue) \in Nat \ {0} /\ Len(queue') = Len(queue) - 1
        /\ queue[1] = Finished /\ queue # <<>>
        /\ \A i \in 1..Len(queue') : queue'[i] = queue[i + 1]
        /\ Count(Finished, queue) = Count(Finished, queue') + 1
    BY QueueType, Taking
  <2>2. \A e : Count(e, queue') \in Nat BY <2>1, CountType
  <2>3. \A e : e # Finished => Count(e, queue) = Count(e, queue')
    BY <2>2, QueueType, Taking
  <2> QED BY <2>1, <2>3
<1>2. Count(Finished, queue') = 0 /\ Cardinality(Ended) = Last
  <2>1. Count(Finished, queue') \in Nat BY <1>1, CountType
  <2>2. Cardinality(Ended) \in 0..Last BY EndedType
  <2> QED BY <1>1, <2>1, <2>2, QueueType, EntryFacts DEF MarksAreCounted
<1>3. Ended = Targets BY <1>2, EndedType
<1>4. queue[Len(queue)] = Finished BY <1>1, <1>3 DEF MarkIsLast
<1>5. \A i \in 1..Len(queue') : queue'[i] # Finished BY <1>1, <1>2, CountType
<1>6. Len(queue') = 0
  <2>1. SUFFICES ASSUME Len(queue') # 0 PROVE FALSE OBVIOUS
  <2>2. Len(queue') \in 1..Len(queue') /\ Len(queue') + 1 = Len(queue) BY <1>1, <2>1
  <2>3. queue'[Len(queue')] = queue[Len(queue)] BY <1>1, <2>2
  <2> QED BY <1>4, <1>5, <2>2, <2>3
<1>7. queue' = <<>> BY <1>1, <1>6, EmptySeq
<1>8. \A e : Count(e, queue') = 0
  <2>1. \A e : \A i \in 1..Len(queue') : queue'[i] # e BY <1>6
  <2> QED BY <1>1, <2>1, CountType
<1>9. NoFailure
  <2>0. Len(queue) = 1 BY <1>1, <1>6
  <2>1. \A i \in 1..Len(queue) : i = 1 BY <2>0
  <2> QED BY <1>1, <2>1, EntryFacts DEF NoFailure
<1> QED BY <1>1, <1>3, <1>7, <1>8, <1>9

(* A session that is exhausted stays so.                                    *)
LEMMA EndKept ==
    ASSUME IInv, Moves
    PROVE  EndIsTheEnd'
<1>0. /\ TypeOK /\ OpenedInOrder /\ ClosedByWhom /\ MarksAreCounted /\ EventsAreCounted
      /\ MarkIsLast /\ EndIsTheEnd
      /\ "consumer" \in Closers /\ "closer" \in Closers /\ "consumer" # "closer"
  BY DEF IInv, Closers
<1>a. place \in [Closers -> {"idle", "subscribe", "get", "body", "gather", "release", "done"}]
  BY <1>0 DEF TypeOK
<1>1. SUFFICES ASSUME outcome' = "exhausted" PROVE EndIsTheEnd'
  BY DEF EndIsTheEnd
<1>2. CASE outcome = "exhausted"
  <2>1. /\ queue = <<>> /\ Ended = Targets /\ place["consumer"] \in Leaving \cup {"done"}
        /\ At("closer", "idle") => delivered = received
    BY <1>0, <1>2 DEF EndIsTheEnd
  <2>2. \A t \in Targets : pump[t] = "done" BY <2>1 DEF Ended
  <2>3. \/ CloseFromOutside
        \/ \E k \in Closers : CloseStep(k) \/ CloseInterrupted(k)
        \/ \E t \in Targets : ClientCloses(t)
    BY <2>1, <2>2
       DEF Moves, ConsumerStep, PumpStep, Start, Subscribed, SubscribeFails, Took, TakeEvent,
           TakeFailure, TakeFinished, Again, Interrupted, At, PumpStarts, PumpReceives,
           PumpAcknowledged, PumpEnds, PumpFails, PumpFailed, PumpUnwound, Leaving
  <2>4. CASE CloseFromOutside
    <3>1. Ended' = Ended /\ place' = [place EXCEPT !["closer"] = IF closed THEN "done" ELSE "gather"]
      BY <1>0, <2>4, Closing, EndedSame DEF CloseFromOutside
    <3>2. place'["consumer"] = place["consumer"] /\ place'["closer"] # "idle"
      BY <1>0, <1>a, <3>1
    <3>3. queue' = queue BY <2>4 DEF CloseFromOutside
    <3> QED BY <2>1, <3>1, <3>2, <3>3 DEF EndIsTheEnd, At
  <2>5. ASSUME NEW k \in Closers, CloseStep(k) \/ CloseInterrupted(k) PROVE EndIsTheEnd'
    <3>1. /\ UNCHANGED <<queue, pump, delivered, received>>
          /\ \/ place' = place
             \/ place[k] \in Leaving /\ \E w \in Leaving \cup {"done"} : place' = [place EXCEPT ![k] = w]
      BY <2>5 DEF CloseStep, CloseInterrupted, Gathered, ReleaseOne, Released, Go, At, Leaving,
         sessionVars, pumpVars, consumerVars
    <3>2. /\ place'["consumer"] \in Leaving \cup {"done"}
          /\ place'["closer"] = "idle" => place["closer"] = "idle"
      BY <1>0, <1>a, <2>1, <3>1 DEF Leaving
    <3>3. Ended' = Ended BY <3>1, EndedSame
    <3> QED BY <2>1, <3>1, <3>2, <3>3 DEF EndIsTheEnd, At
  <2>6. ASSUME NEW t \in Targets, ClientCloses(t) PROVE EndIsTheEnd'
    <3>1. UNCHANGED <<queue, pump, delivered, received, place>>
      BY <2>6 DEF ClientCloses, pumpFrame, consumerVars
    <3>2. Ended' = Ended BY <3>1, EndedSame
    <3> QED BY <2>1, <3>1, <3>2 DEF EndIsTheEnd, At
  <2> QED BY <2>3, <2>4, <2>5, <2>6
<1>3. CASE outcome # "exhausted"
  <2>1. TakeFinished /\ Leave("exhausted") /\ completed + 1 = opened
    BY <1>1, <1>3
       DEF Moves, ConsumerStep, CloseStep, PumpStep, Start, Subscribed, SubscribeFails,
           TakeEvent, TakeFailure, TakeFinished, Again, Interrupted, CloseFromOutside, Leave,
           Gathered, ReleaseOne, Released, CloseInterrupted, PumpStarts, PumpReceives,
           PumpAcknowledged, PumpEnds, PumpFails, PumpFailed, PumpUnwound, ClientCloses,
           sessionVars, pumpVars, consumerVars, pumpFrame
  <2>2. place["consumer"] = "get" /\ Took(Finished) /\ UNCHANGED <<delivered, received>>
    BY <2>1 DEF TakeFinished, Took, At
  <2>3. completed + 1 = Last BY <1>0, <2>1, <2>2 DEF OpenedInOrder
  <2>4. queue' = <<>> /\ Ended = Targets /\ NoFailure /\ \A e : e # Finished => Count(e, queue) = 0
    BY <1>0, <2>2, <2>3, LastMark
  <2>5. Ended' = Ended /\ place' = [place EXCEPT !["consumer"] = IF closed THEN "done" ELSE "gather"]
    BY <1>0, <2>1, Closing, EndedSame DEF Leave
  <2>6. place'["consumer"] \in Leaving \cup {"done"} /\ place'["closer"] = place["closer"]
    BY <1>0, <1>a, <2>5 DEF Leaving
  <2>7. ASSUME place["closer"] = "idle" PROVE delivered' = received'
    <3>1. ~closed BY <1>0, <2>2, <2>7 DEF ClosedByWhom, Leaving
    <3>2. \A t \in Targets : pump[t] = "done" BY <2>4 DEF Ended
    <3>3. \A t \in Targets : Count(Event(t), queue) = 0 BY <2>4, EntryFacts
    <3>4. \A t \in Targets : delivered[t] \in Nat /\ received[t] \in Nat BY <1>0, PumpTypes
    <3>5. ASSUME NEW t \in Targets PROVE delivered[t] = received[t]
      <4>1. delivered[t] + Count(Event(t), queue) = received[t] - InHand(pump[t])
        BY <1>0, <2>4, <3>1, <3>2 DEF EventsAreCounted
      <4>2. InHand(pump[t]) = 0 BY <3>2 DEF InHand
      <4> QED BY <3>3, <3>4, <4>1, <4>2
    <3>6. delivered \in [Targets -> Nat] /\ received \in [Targets -> Nat] BY <1>0, PumpTypes
    <3> QED BY <2>2, <3>5, <3>6
  <2> QED BY <2>4, <2>5, <2>6, <2>7 DEF EndIsTheEnd, At
<1> QED BY <1>2, <1>3

(* The invariant is inductive.                                              *)
LEMMA InitIsGood == Init => IInv
<1> SUFFICES ASSUME Init PROVE IInv
  OBVIOUS
<1>1. TypeOK
  <2>1. 0 \in 0..Last /\ 0 \in 0..MaxEvents BY EntryFacts
  <2>2. queue \in Seq(Entries) BY EmptySeq DEF Init
  <2> QED BY <2>1, <2>2 DEF Init, TypeOK, Closers, Entries
<1>2. OpenedInOrder /\ ClosedByWhom /\ ClosingGoesOn /\ MarkIsLast /\ EndIsTheEnd
  BY EntryFacts
     DEF Init, OpenedInOrder, ClosedByWhom, ClosingGoesOn, MarkIsLast, EndIsTheEnd, Leaving,
         Closers, Targets, At
<1>3. \A e : Count(e, queue) = 0
  <2>1. queue \in Seq(Entries) /\ Len(queue) = 0 BY EmptySeq DEF Init
  <2>2. \A e : \A i \in 1..Len(queue) : queue[i] # e BY <2>1
  <2> QED BY <2>1, <2>2, CountType
<1>4. Cardinality(Ended) = 0
  <2>1. Ended = {} BY DEF Init, Ended
  <2> QED BY <2>1, FS_EmptySet
<1>5. MarksAreCounted BY <1>3, <1>4 DEF Init, MarksAreCounted
<1>6. EventsAreCounted BY <1>3, EntryFacts DEF Init, EventsAreCounted, InHand
<1> QED BY <1>1, <1>2, <1>5, <1>6 DEF IInv

LEMMA NextKeeps == IInv /\ [Next]_vars => IInv'
<1> SUFFICES ASSUME IInv, [Next]_vars PROVE IInv'
  OBVIOUS
<1>1. CASE UNCHANGED vars
  <2>1. Ended' = Ended BY <1>1, EndedSame DEF vars
  <2>2. Count(Finished, queue') = Count(Finished, queue) BY <1>1 DEF vars
  <2> QED
    BY <1>1, <2>1, <2>2
       DEF vars, IInv, TypeOK, OpenedInOrder, ClosedByWhom, ClosingGoesOn, MarksAreCounted,
           EventsAreCounted, NoFailure, MarkIsLast, EndIsTheEnd, At, Over
<1>2. CASE Moves
  <2>1. /\ TypeOK /\ OpenedInOrder /\ ClosedByWhom /\ ClosingGoesOn
        /\ MarksAreCounted /\ EventsAreCounted /\ MarkIsLast
    BY DEF IInv
  <2>2. TypeOK' BY <1>2, <2>1, TypesKept
  <2>3. OpenedInOrder' BY <1>2, <2>1, OrderKept
  <2>4. ClosedByWhom' BY <1>2, <2>1, CloserKept
  <2>5. ClosingGoesOn' BY <1>2, <2>1, ClosingKept
  <2>6. MarksAreCounted' BY <1>2, <2>1, MarksKept
  <2>7. EventsAreCounted' BY <1>2, <2>1, EventsKept
  <2>8. MarkIsLast' BY <1>2, <2>1, LastKept
  <2>9. EndIsTheEnd' BY <1>2, EndKept
  <2> QED BY <2>2, <2>3, <2>4, <2>5, <2>6, <2>7, <2>8, <2>9 DEF IInv
<1> QED BY <1>1, <1>2 DEF Next, Moves, AllDone

(* What follows for every session.                                          *)

(* The strengthened invariant holds in every state.                         *)
THEOREM Invariance == Spec => []IInv
BY InitIsGood, NextKeeps, PTL DEF Spec

(* Types; in particular no more marks are taken than pumps were started,    *)
(* and no more events delivered than received.                              *)
THEOREM TypeCorrect == Spec => []TypeOK
BY Invariance, PTL DEF IInv

(* Whoever closed the session and whatever was under way, nothing is left   *)
(* open but what start() opened afterwards.                                 *)
THEOREM ClosedIsClean == Spec => []ClosedSessionIsClean
<1>1. IInv => ClosedSessionIsClean
  <2> SUFFICES ASSUME IInv, At("consumer", "done"), Idle("closer"), ~cut,
                      NEW t \in Targets \ late
               PROVE  sub[t] # "open" /\ (Over(t) \/ pump[t] = "none")
    BY DEF ClosedSessionIsClean
  <2>1. closed /\ gathering = (1..opened) \ late
    BY DEF IInv, ClosedByWhom, ClosingGoesOn, At
  <2>2. \A k \in Closers : place[k] \notin Leaving
    BY DEF Closers, Leaving, At, Idle
  <2>3. \A u \in gathering : Over(u) /\ sub[u] = "closed"
    BY <2>1, <2>2 DEF IInv, ClosingGoesOn
  <2>4. CASE t <= opened
    <3>1. t \in 1..opened BY <2>4 DEF Targets, IInv, TypeOK
    <3> QED BY <2>1, <2>3, <3>1
  <2>5. CASE ~(t <= opened) BY <2>5 DEF IInv, OpenedInOrder
  <2> QED BY <2>4, <2>5
<1> QED BY <1>1, Invariance, PTL

(* With any number of collections, an iteration that comes to its end has   *)
(* delivered everything.                                                    *)
THEOREM NothingIsMissed == Spec => []ExhaustedIsComplete
<1>1. IInv => ExhaustedIsComplete BY DEF IInv, EndIsTheEnd, ExhaustedIsComplete, Ended
<1> QED BY <1>1, Invariance, PTL

(* ... and has not swallowed an error.                                      *)
THEOREM ErrorsSurface == Spec => []FailureSurfaces
<1>1. IInv => FailureSurfaces
  BY EmptySeq DEF IInv, EndIsTheEnd, FailureSurfaces
<1> QED BY <1>1, Invariance, PTL
================================================================================
