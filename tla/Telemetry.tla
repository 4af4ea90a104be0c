------------------------------ MODULE Telemetry ------------------------------
(***************************************************************************)
(* matic_sdk/telemetry.py with matic_sdk/collections.py under it: a        *)
(* TelemetrySession merges several collections into one iterator.          *)
(*                                                                         *)
(* A consumer runs "async with session: async for update in session"; one  *)
(* pump task per target moves events from its CollectionSubscription to    *)
(* the session's queue.  Another task may call session.aclose(), and the   *)
(* client may be closed underneath.  Places are awaits; the code between   *)
(* two awaits is one action.                                               *)
(***************************************************************************)
EXTENDS Naturals, Sequences

CONSTANTS
    Last,       (* the session's targets are 1..Last, subscribed in order *)
    MaxEvents   (* bound: events the robot sends on one collection        *)

ASSUME BoundsAssumption == Last \in Nat \ {0} /\ MaxEvents \in Nat

Targets == 1..Last

VARIABLES
    started,    \* TelemetrySession._started
    closed,     \* TelemetrySession._closed
    opened,     \* Len(_tasks), and Len(_subscriptions)
    queue,      \* TelemetrySession._queue
    completed,  \* TelemetrySession._completed_pumps
    place,      \* where the consumer, and the other task that closes, are
    gathering,  \* the pumps aclose() waits for: those there were when called
    released,   \* the subscriptions its loop has passed
    pump,       \* where each pump task is
    sub,        \* each subscription: none, open, or CollectionSubscription._closed
    received,   \* events each pump has taken from its stream
    delivered,  \* events of each target the consumer was given
    outcome,    \* how the iteration ended
    late,       \* subscriptions opened after the session was closed
    cut         \* aclose() was itself cancelled

sessionVars == <<started, closed, opened, gathering, released, late, cut>>
pumpVars == <<pump, sub, received>>
consumerVars == <<completed, delivered, outcome>>
vars == <<started, closed, opened, queue, completed, place, gathering, released,
          pump, sub, received, delivered, outcome, late, cut>>
------------------------------------------------------------------------------
Finished == <<"finished">>
Failure == <<"failure">>
Event(t) == <<"event", t>>
Closers == {"consumer", "closer"}   \* the tasks that call aclose()

Init ==
    /\ started = FALSE /\ closed = FALSE
    /\ opened = 0
    /\ queue = <<>>
    /\ completed = 0
    /\ place = [k \in Closers |-> "idle"]
    /\ gathering = {}
    /\ released = 0
    /\ pump = [t \in Targets |-> "none"]
    /\ sub = [t \in Targets |-> "none"]
    /\ received = [t \in Targets |-> 0]
    /\ delivered = [t \in Targets |-> 0]
    /\ outcome = "none"
    /\ late = {}
    /\ cut = FALSE

\* Task.cancel: a pump that has not run yet never will; one that waits in the
\* subscription closes it on the way out; one on its way out already goes on,
\* the cancellation being suppressed.
Cancel(p) == CASE p = "created" -> "never"
               [] p \in {"reading", "acking"} -> "unwinding"
               [] OTHER -> p

\* Mutant: the pumps are awaited without being cancelled.
CloseWithoutCancel(k) ==
    IF closed
    THEN /\ place' = [place EXCEPT ![k] = "done"]
         /\ UNCHANGED <<closed, gathering, pump>>
    ELSE /\ closed' = TRUE
         /\ pump' = pump
         /\ gathering' = 1..opened
         /\ place' = [place EXCEPT ![k] = "gather"]

\* aclose() up to its first await; only the first call does anything.
Close(k) ==
    IF closed
    THEN /\ place' = [place EXCEPT ![k] = "done"]
         /\ UNCHANGED <<closed, gathering, pump>>
    ELSE /\ closed' = TRUE
         /\ pump' = [t \in Targets |-> Cancel(pump[t])]
         /\ gathering' = 1..opened
         /\ place' = [place EXCEPT ![k] = "gather"]

At(k, p) == place[k] = p
Go(k, p) == place' = [place EXCEPT ![k] = p]

Over(t) == pump[t] \in {"done", "never"}

Gathered(k) ==
    /\ At(k, "gather") /\ \A t \in gathering : Over(t)
    /\ Go(k, "release")
    /\ UNCHANGED <<sessionVars, queue, pumpVars, consumerVars>>

\* The loop runs over the live list, so it meets what start() still appends.
ReleaseOne(k) ==
    /\ At(k, "release") /\ released < opened
    /\ released' = released + 1
    /\ sub' = [sub EXCEPT ![released + 1] = "closed"]
    /\ UNCHANGED <<started, closed, opened, gathering, late, cut, queue, place, pump,
                   received, consumerVars>>

Released(k) ==
    /\ At(k, "release") /\ released = opened
    /\ Go(k, "done")
    /\ UNCHANGED <<sessionVars, queue, pumpVars, consumerVars>>

\* aclose() is cancelled while it waits for the pumps: nobody takes up where it
\* stopped.  The release loop collects a cancellation as any error and goes on.
CloseInterrupted(k) ==
    /\ At(k, "gather")
    /\ cut' = TRUE
    /\ Go(k, "done")
    /\ UNCHANGED <<started, closed, opened, gathering, released, late, queue,
                   pumpVars, consumerVars>>

\* Another task closes the session.
CloseFromOutside ==
    /\ At("closer", "idle")
    /\ Close("closer")
    /\ UNCHANGED <<started, opened, released, late, cut, queue, sub, received, consumerVars>>
------------------------------------------------------------------------------
(* The consumer: start(), __anext__, and aclose() at the end.               *)

Leave(why) == outcome' = why /\ Close("consumer")

Start ==
    /\ At("consumer", "idle")
    /\ started' = TRUE
    /\ Go("consumer", "subscribe")
    /\ UNCHANGED <<closed, opened, gathering, released, late, cut, queue, pumpVars,
                   consumerVars>>

\* Mutant: a target named twice is subscribed twice.
SubscribedTwice ==
    LET t == opened + 1 IN
    /\ At("consumer", "subscribe")
    /\ opened' = t
    /\ sub' = [sub EXCEPT ![t] = "open"]
    /\ pump' = [pump EXCEPT ![t] = "created"]
    /\ late' = late
    /\ IF t <= Last THEN UNCHANGED <<place, outcome>>
       ELSE Go("consumer", "get") /\ UNCHANGED outcome
    /\ UNCHANGED <<started, closed, gathering, released, cut, queue, received, completed,
                   delivered>>

\* _closed is looked at only when every target has been subscribed.
Subscribed ==
    LET t == opened + 1 IN
    /\ At("consumer", "subscribe")
    /\ opened' = t
    /\ sub' = [sub EXCEPT ![t] = "open"]
    /\ pump' = [pump EXCEPT ![t] = "created"]
    /\ late' = IF closed THEN late \cup {t} ELSE late
    /\ IF t < Last THEN UNCHANGED <<place, outcome>>
       ELSE IF closed THEN Go("consumer", "done") /\ outcome' = "stopped"
       ELSE Go("consumer", "get") /\ UNCHANGED outcome
    /\ UNCHANGED <<started, closed, gathering, released, cut, queue, received, completed,
                   delivered>>

\* Mutant: what was subscribed before the failure stays.
SubscribeFailsUnclosed ==
    /\ At("consumer", "subscribe")
    /\ outcome' = "error"
    /\ Go("consumer", "done")
    /\ UNCHANGED <<closed, gathering, pump, started, opened, released, late, cut, queue,
                   sub, received, completed, delivered>>

\* subscribe() raises or is cancelled; start() closes the session.
SubscribeFails ==
    /\ At("consumer", "subscribe")
    /\ Leave("error")
    /\ UNCHANGED <<started, opened, released, late, cut, queue, sub, received,
                   completed, delivered>>

Took(entry) ==
    /\ At("consumer", "get")
    /\ queue # <<>> /\ Head(queue) = entry
    /\ queue' = Tail(queue)

TakeEvent(t) ==
    /\ Took(Event(t))
    /\ delivered' = [delivered EXCEPT ![t] = @ + 1]
    /\ Go("consumer", "body")
    /\ UNCHANGED <<sessionVars, pumpVars, completed, outcome>>

TakeFailure ==
    /\ Took(Failure)
    /\ Leave("error")
    /\ UNCHANGED <<started, opened, released, late, cut, sub, received, completed, delivered>>

\* Mutant: the first collection that ends ends the session.
TakeAnyFinished ==
    /\ Took(Finished)
    /\ completed' = completed + 1
    /\ Leave("exhausted")
    /\ UNCHANGED <<started, opened, released, late, cut, sub, received, delivered>>

TakeFinished ==
    /\ Took(Finished)
    /\ completed' = completed + 1
    /\ IF completed + 1 = opened
       THEN Leave("exhausted")
       ELSE UNCHANGED <<closed, gathering, pump, place, outcome>>
    /\ UNCHANGED <<started, opened, released, late, cut, sub, received, delivered>>

\* The next __anext__ finds the session closed or waits; or the body leaves.
Again ==
    /\ At("consumer", "body")
    /\ IF closed THEN Go("consumer", "done") /\ outcome' = "stopped"
       ELSE Go("consumer", "get") /\ UNCHANGED outcome
    /\ UNCHANGED <<sessionVars, queue, pumpVars, completed, delivered>>

\* break, an exception of the body, a timeout or a cancellation.
Interrupted ==
    /\ place["consumer"] \in {"body", "get"}
    /\ Leave("left")
    /\ UNCHANGED <<started, opened, released, late, cut, queue, sub, received,
                   completed, delivered>>
------------------------------------------------------------------------------
(* _pump of target t, and the subscription it reads.                        *)

Put(entries) == queue' = queue \o entries
MovePump(t, p) == pump' = [pump EXCEPT ![t] = p]
pumpFrame == <<sessionVars, place, consumerVars>>

\* A subscription that was closed meanwhile stops the iteration at once.
PumpStarts(t) ==
    /\ pump[t] = "created"
    /\ IF sub[t] = "closed" THEN Put(<<Finished>>) /\ MovePump(t, "done")
       ELSE UNCHANGED queue /\ MovePump(t, "reading")
    /\ UNCHANGED <<pumpFrame, sub, received>>

PumpReceives(t) ==
    /\ pump[t] = "reading" /\ received[t] < MaxEvents
    /\ received' = [received EXCEPT ![t] = @ + 1]
    /\ MovePump(t, "acking")
    /\ UNCHANGED <<pumpFrame, queue, sub>>

PumpAcknowledged(t) ==
    /\ pump[t] = "acking"
    /\ IF sub[t] = "closed" THEN Put(<<Event(t), Finished>>) /\ MovePump(t, "done")
       ELSE Put(<<Event(t)>>) /\ MovePump(t, "reading")
    /\ UNCHANGED <<pumpFrame, sub, received>>

\* The stream has ended: it is not cancelled, only forgotten.
PumpEnds(t) ==
    /\ pump[t] = "reading"
    /\ sub' = [sub EXCEPT ![t] = "closed"]
    /\ Put(<<Finished>>)
    /\ MovePump(t, "done")
    /\ UNCHANGED <<pumpFrame, received>>

\* The stream, the decoder or the acknowledgement raises; the subscription
\* closes itself, awaiting the cancellation of its stream, before it raises.
PumpFails(t) ==
    /\ pump[t] \in {"reading", "acking"}
    /\ sub' = [sub EXCEPT ![t] = "closed"]
    /\ MovePump(t, "failing")
    /\ UNCHANGED <<pumpFrame, queue, received>>

\* Mutant: the error is put after the mark that the pump is over.
PumpFailedLate(t) ==
    /\ pump[t] = "failing"
    /\ Put(<<Finished, Failure>>)
    /\ MovePump(t, "done")
    /\ UNCHANGED <<pumpFrame, sub, received>>

PumpFailed(t) ==
    /\ pump[t] = "failing"
    /\ Put(<<Failure, Finished>>)
    /\ MovePump(t, "done")
    /\ UNCHANGED <<pumpFrame, sub, received>>

\* Mutant: a cancelled pump leaves no mark.
PumpUnwoundQuietly(t) ==
    /\ pump[t] = "unwinding"
    /\ sub' = [sub EXCEPT ![t] = "closed"]
    /\ queue' = queue
    /\ MovePump(t, "done")
    /\ UNCHANGED <<pumpFrame, received>>

PumpUnwound(t) ==
    /\ pump[t] = "unwinding"
    /\ sub' = [sub EXCEPT ![t] = "closed"]
    /\ Put(<<Finished>>)
    /\ MovePump(t, "done")
    /\ UNCHANGED <<pumpFrame, received>>

\* MaticClient.close() closes the subscription of t, which cancels its stream:
\* whoever waits for that stream is not woken (H2Transport, Reset).
ClientCloses(t) ==
    /\ sub[t] = "open"
    /\ sub' = [sub EXCEPT ![t] = "closed"]
    /\ UNCHANGED <<pumpFrame, queue, pump, received>>
------------------------------------------------------------------------------
PumpStep(t) ==
    \/ PumpStarts(t) \/ PumpReceives(t) \/ PumpAcknowledged(t) \/ PumpEnds(t)
    \/ PumpFails(t) \/ PumpFailed(t) \/ PumpUnwound(t)

CloseStep(k) == Gathered(k) \/ ReleaseOne(k) \/ Released(k)

ConsumerStep ==
    \/ Subscribed \/ SubscribeFails
    \/ (\E t \in Targets : TakeEvent(t)) \/ TakeFailure \/ TakeFinished \/ Again

AllDone ==
    /\ At("consumer", "done") /\ place["closer"] \in {"idle", "done"}
    /\ \A t \in Targets : Over(t) \/ pump[t] = "none"
    /\ UNCHANGED vars

Next ==
    \/ Start \/ ConsumerStep \/ Interrupted \/ CloseFromOutside
    \/ \E k \in Closers : CloseStep(k) \/ CloseInterrupted(k)
    \/ \E t \in Targets : PumpStep(t) \/ ClientCloses(t)
    \/ AllDone

Spec == Init /\ [][Next]_vars

(***************************************************************************)
(* Fairness.  The event loop resumes every task whose await is over.  A    *)
(* pump is on its way by itself before its first step, while it writes an  *)
(* acknowledgement on an open stream and while it ends; the robot may say  *)
(* nothing for ever on a stream it is reading, and a reader whose stream   *)
(* was cancelled by others waits for ever.                                 *)
(***************************************************************************)
PumpProgress(t) ==
    \/ PumpStarts(t) \/ PumpFailed(t) \/ PumpUnwound(t)
    \/ sub[t] = "open" /\ PumpAcknowledged(t)

Fairness ==
    /\ WF_vars(ConsumerStep)
    /\ \A k \in Closers : WF_vars(CloseStep(k))
    /\ \A t \in Targets : WF_vars(PumpProgress(t))

FairSpec == Spec /\ Fairness
------------------------------------------------------------------------------
(* Properties.                                                              *)

\* Types of the variables.
TypeOK ==
    /\ started \in BOOLEAN /\ closed \in BOOLEAN /\ cut \in BOOLEAN
    /\ opened \in 0..Last /\ released \in 0..Last /\ completed \in 0..Last
    /\ queue \in Seq({Finished, Failure} \cup {Event(t) : t \in Targets})
    /\ place \in [Closers -> {"idle", "subscribe", "get", "body", "gather", "release", "done"}]
    /\ place["closer"] \in {"idle", "gather", "release", "done"}
    /\ gathering \subseteq Targets /\ late \subseteq Targets
    /\ pump \in [Targets -> {"none", "created", "reading", "acking", "failing",
                             "unwinding", "never", "done"}]
    /\ sub \in [Targets -> {"none", "open", "closed"}]
    /\ received \in [Targets -> 0..MaxEvents] /\ delivered \in [Targets -> 0..MaxEvents]
    /\ outcome \in {"none", "exhausted", "stopped", "error", "left"}

Idle(k) == place[k] \in {"idle", "done"}

\* When the consumer has left the session and nobody is in aclose() any more,
\* every subscription is closed and every pump is over, except for those that
\* start() opened after another task had closed the session, and unless
\* aclose() was itself cancelled.
ClosedSessionIsClean ==
    At("consumer", "done") /\ Idle("closer") /\ ~cut =>
        \A t \in Targets \ late : sub[t] # "open" /\ (Over(t) \/ pump[t] = "none")

\* A session nobody closed that comes to its end has delivered every event of
\* every target: no event is overtaken by the end of its own or another stream.
ExhaustedIsComplete ==
    outcome = "exhausted" /\ At("closer", "idle") =>
        /\ delivered = received
        /\ \A t \in Targets : pump[t] = "done"

\* A failed collection is never mistaken for one that ended: the session does
\* not come to its end while an error is still in the queue.
FailureSurfaces ==
    outcome = "exhausted" => \A i \in 1..Len(queue) : queue[i] # Failure

\* Once the session is closed, a consumer that waits for an update is woken,
\* unless a pump was cancelled before it ever ran and so left no mark.
ClosingWakesConsumer ==
    (closed /\ \A t \in Targets : pump[t] # "never") ~> ~At("consumer", "get")

\* aclose() returns.
ClosingEnds == \A k \in Closers : At(k, "gather") ~> At(k, "done")
==============================================================================
