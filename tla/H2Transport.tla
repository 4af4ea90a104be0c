----------------------------- MODULE H2Transport -----------------------------
(***************************************************************************)
(* matic_sdk/transport/h2.py: one HTTP/2 connection shared by many gRPC    *)
(* calls.  A single asyncio event loop runs the reader task, one caller    *)
(* per call, the tasks that cancel a call they did not make, and the task  *)
(* that closes the transport.  They share the stream table, one lock held  *)
(* across the draining of the socket, and one flow-control event.          *)
(*                                                                         *)
(* Each state below is a place where a task awaits; the code between two   *)
(* awaits is one action.  The lock is held exactly in the states whose     *)
(* name ends in Flush, so LockFree is read off the program counters.       *)
(***************************************************************************)
EXTENDS Integers, Sequences, FiniteSets

CONSTANTS
    Streams,      (* the calls made on the connection, one stream each      *)
    Streaming,    (* those whose caller answers every message (collections) *)
    Contested,    (* those that another task may cancel meanwhile           *)
    RequestSize,  (* DATA frames a request takes                            *)
    InitWindow,   (* frames the robot lets us send at first                 *)
    MaxGrants,    (* bound: WINDOW_UPDATE and SETTINGS frames it sends      *)
    MaxSettings,  (* bound: SETTINGS are only among the first so many       *)
    MaxData,      (* bound: messages the robot sends on one stream          *)
    MaxInFlight   (* bound: frames on their way to us at any time           *)

ASSUME StreamsAssumption ==
    /\ IsFiniteSet(Streams)
    /\ Streaming \subseteq Streams
    /\ Contested \subseteq Streaming   (* unary() keeps its stream to itself *)
ASSUME SizesAssumption ==
    /\ RequestSize \in Nat \ {0}    (* a framed message is never empty *)
    /\ InitWindow \in Nat
    /\ MaxGrants \in Nat
    /\ MaxSettings \in Nat
    /\ MaxData \in Nat
    /\ MaxInFlight \in Nat \ {0}

VARIABLES
    closing,    \* H2Transport._closing
    terminal,   \* H2Transport._terminal_error is set
    streams,    \* the keys of H2Transport._streams
    ended,      \* _StreamState.ended
    queue,      \* _StreamState.queue
    reader,     \* where the reader task is
    batch,      \* the h2 events it has received and not yet dispatched
    closer,     \* where the task running close() is
    pc,         \* where each caller and each canceller is
    todo,       \* frames of the caller's current message still to send
    got,        \* messages handed to the caller
    rcvdEnd,    \* GrpcStream._received_end
    cancelled,  \* GrpcStream._locally_cancelled
    outcome,    \* how the call ended
    abandoned,  \* streams whose cancel() was itself interrupted
    window,     \* outbound flow-control window h2 knows of
    unheard,    \* auxiliary: what it grew by since its event was last set
    inbound,    \* frames on their way from the robot
    peer,       \* what the robot has made of each stream
    served,     \* messages the robot has sent on each stream
    link,       \* the connection: "up", "goaway" or "broken"
    grants      \* WINDOW_UPDATE and SETTINGS frames sent

connVars == <<closing, terminal, reader, batch, closer, unheard>>
tableVars == <<streams, ended, queue>>
callVars == <<todo, got, rcvdEnd, cancelled, outcome, abandoned>>
peerVars == <<inbound, peer, served, link, grants>>
vars == <<closing, terminal, streams, ended, queue, reader, batch, closer, pc,
          todo, got, rcvdEnd, cancelled, outcome, abandoned, window, unheard,
          inbound, peer, served, link, grants>>
------------------------------------------------------------------------------
(* Tasks, frames and queue entries.                                         *)

Caller(s) == <<"caller", s>>
Canceller(s) == <<"canceller", s>>
Tasks == {"caller", "canceller"} \X Streams

Places == {"idle", "openFlush", "send", "sendFlush", "window", "next", "get",
           "reset", "resetFlush", "done"}

\* A stream's response: messages the decoder accepts ("data") or rejects
\* ("junk"), then trailers with a zero or non-zero status, or RST_STREAM.
Messages == {"data", "junk"}
Ends == {"ok", "bad", "reset"}
\* "lost" is the error _fail_all leaves in every queue.
Terminals == Ends \cup {"lost"}
Events == Messages \cup Terminals

WindowUpdate == <<"window">>
\* A SETTINGS frame that raises INITIAL_WINDOW_SIZE.
Settings == <<"settings">>
GoAway == <<"goaway">>
Frames == ((Messages \cup Ends) \X Streams) \cup {WindowUpdate, Settings, GoAway}

Flushing == {"openFlush", "sendFlush", "resetFlush"}

LockFree ==
    /\ reader # "flush"
    /\ closer # "flush"
    /\ \A t \in Tasks : pc[t] \notin Flushing

\* Mutant: a shutdown in progress is not noticed.
RequireNoShutdown == ~terminal

\* _require_connection does not raise.
Require == ~closing /\ ~terminal /\ reader # "done"

\* The window event: a waiter clears it in the same step in which it starts
\* to wait, so setting it is waking every task that waits.
Woken(p) == [t \in Tasks |-> IF p[t] = "window" THEN "send" ELSE p[t]]

\* Mutant: the error reaches the queues but blocked senders are not woken.
FailAllQuietly ==
    /\ queue' = [s \in Streams |-> IF s \in streams /\ ~ended[s]
                                   THEN Append(queue[s], "lost") ELSE queue[s]]
    /\ ended' = [s \in Streams |-> ended[s] \/ s \in streams]
    /\ streams' = {}
    /\ pc' = pc

\* _fail_all: wake the senders, leave the error to every reader, forget all.
FailAll ==
    /\ queue' = [s \in Streams |-> IF s \in streams /\ ~ended[s]
                                   THEN Append(queue[s], "lost") ELSE queue[s]]
    /\ ended' = [s \in Streams |-> ended[s] \/ s \in streams]
    /\ streams' = {}
    /\ pc' = Woken(pc)

Init ==
    /\ closing = FALSE
    /\ terminal = FALSE
    /\ streams = {}
    /\ ended = [s \in Streams |-> FALSE]
    /\ queue = [s \in Streams |-> <<>>]
    /\ reader = "read"
    /\ batch = <<>>
    /\ closer = "idle"
    /\ pc = [t \in Tasks |-> "idle"]
    /\ todo = [s \in Streams |-> RequestSize]
    /\ got = [s \in Streams |-> 0]
    /\ rcvdEnd = [s \in Streams |-> FALSE]
    /\ cancelled = [s \in Streams |-> FALSE]
    /\ outcome = [s \in Streams |-> "none"]
    /\ abandoned = {}
    /\ window = InitWindow
    /\ unheard = 0
    /\ inbound = <<>>
    /\ peer = [s \in Streams |-> "none"]
    /\ served = [s \in Streams |-> 0]
    /\ link = "up"
    /\ grants = 0
------------------------------------------------------------------------------
(* open_grpc_stream and _send_data, run by the caller of s.                 *)

At(s, place) == pc[Caller(s)] = place
Go(s, place) == pc' = [pc EXCEPT ![Caller(s)] = place]

\* An exception leaves the call through stream.cancel(), which returns at once
\* if the stream has ended or is being cancelled, and then waits for the lock.
Raise(s) ==
    /\ outcome' = [outcome EXCEPT ![s] = "error"]
    /\ IF rcvdEnd[s] \/ cancelled[s]
       THEN UNCHANGED cancelled /\ Go(s, "done")
       ELSE cancelled' = [cancelled EXCEPT ![s] = TRUE] /\ Go(s, "reset")

\* Registered and HEADERS written in one step; the robot may answer before the
\* drain returns.
Open(s) ==
    /\ At(s, "idle") /\ LockFree /\ Require
    /\ streams' = streams \cup {s}
    /\ peer' = [peer EXCEPT ![s] = "open"]
    /\ Go(s, "openFlush")
    /\ UNCHANGED <<connVars, ended, queue, callVars, window, inbound, served, link, grants>>

OpenRefused(s) ==
    /\ At(s, "idle") /\ LockFree /\ ~Require
    /\ outcome' = [outcome EXCEPT ![s] = "error"]
    /\ Go(s, "done")
    /\ UNCHANGED <<connVars, tableVars, todo, got, rcvdEnd, cancelled, abandoned,
                   window, peerVars>>

OpenFlushed(s) ==
    /\ At(s, "openFlush")
    /\ Go(s, "send")
    /\ UNCHANGED <<connVars, tableVars, callVars, window, peerVars>>

\* Mutant: a failed open leaves its entry in the table.
OpenFailsUnregistered(s) ==
    /\ At(s, "openFlush")
    /\ outcome' = [outcome EXCEPT ![s] = "error"]
    /\ Go(s, "done")
    /\ UNCHANGED <<connVars, tableVars, todo, got, rcvdEnd, cancelled, abandoned,
                   window, peerVars>>

\* The drain raises or the caller is cancelled in it: the entry is dropped, and
\* with no GrpcStream to cancel nothing tells the robot.
OpenFails(s) ==
    /\ At(s, "openFlush")
    /\ streams' = streams \ {s}
    /\ outcome' = [outcome EXCEPT ![s] = "error"]
    /\ Go(s, "done")
    /\ UNCHANGED <<connVars, ended, queue, todo, got, rcvdEnd, cancelled, abandoned,
                   window, peerVars>>

\* unary asks for the next message at once, a collection's user in its own time.
Reading(s) == IF s \in Streaming THEN "next" ELSE "get"

MaySend(s) == At(s, "send") /\ LockFree /\ Require /\ s \in streams

\* Mutant: the window is not looked at.
SendUnchecked(s) ==
    /\ MaySend(s)
    /\ window' = window - 1
    /\ todo' = [todo EXCEPT ![s] = @ - 1]
    /\ Go(s, "sendFlush")
    /\ UNCHANGED <<connVars, tableVars, got, rcvdEnd, cancelled, outcome, abandoned, peerVars>>

\* One turn of the loop: the window is read and spent under the lock.
Send(s) ==
    /\ MaySend(s) /\ window > 0
    /\ window' = window - 1
    /\ todo' = [todo EXCEPT ![s] = @ - 1]
    /\ Go(s, "sendFlush")
    /\ UNCHANGED <<connVars, tableVars, got, rcvdEnd, cancelled, outcome, abandoned, peerVars>>

Starve(s) ==
    /\ MaySend(s) /\ window = 0
    /\ Go(s, "window")
    /\ UNCHANGED <<connVars, tableVars, callVars, window, peerVars>>

\* H2TransportClosed, for the connection or for a stream that has left the table.
SendRefused(s) ==
    /\ At(s, "send") /\ LockFree
    /\ ~Require \/ s \notin streams
    /\ Raise(s)
    /\ UNCHANGED <<connVars, tableVars, todo, got, rcvdEnd, abandoned, window, peerVars>>

\* Mutant: the answer is read when the first frame is out.
SendFlushedFirst(s) ==
    /\ At(s, "sendFlush")
    /\ Go(s, Reading(s))
    /\ UNCHANGED <<connVars, tableVars, callVars, window, peerVars>>

SendFlushed(s) ==
    /\ At(s, "sendFlush")
    /\ Go(s, IF todo[s] = 0 THEN Reading(s) ELSE "send")
    /\ UNCHANGED <<connVars, tableVars, callVars, window, peerVars>>
------------------------------------------------------------------------------
(* GrpcStream.__anext__, and the caller's exception path.                   *)

\* _received_end can only be somebody else's doing here.
AskNext(s) ==
    /\ At(s, "next")
    /\ outcome' = [outcome EXCEPT ![s] = IF rcvdEnd[s] THEN "stopped" ELSE @]
    /\ Go(s, IF rcvdEnd[s] THEN "done" ELSE "get")
    /\ UNCHANGED <<connVars, tableVars, todo, got, rcvdEnd, cancelled, abandoned,
                   window, peerVars>>

Took(s, kinds) ==
    /\ At(s, "get")
    /\ queue[s] # <<>> /\ Head(queue[s]) \in kinds
    /\ queue' = [queue EXCEPT ![s] = Tail(@)]

\* A collection's message is acknowledged on the same stream before the next,
\* if it has a sequence_id.
ReceiveMessage(s) ==
    /\ Took(s, {"data"})
    /\ got' = [got EXCEPT ![s] = @ + 1]
    /\ IF s \in Streaming
       THEN \/ todo' = [todo EXCEPT ![s] = 1] /\ Go(s, "send")
            \/ UNCHANGED todo /\ Go(s, "next")
       ELSE UNCHANGED todo /\ Go(s, "get")
    /\ UNCHANGED <<connVars, streams, ended, rcvdEnd, cancelled, outcome, abandoned,
                   window, peerVars>>

\* _Ended: the status is examined unless the stream was cancelled here.
ReceiveEnd(s) ==
    /\ Took(s, {"ok", "bad"})
    /\ rcvdEnd' = [rcvdEnd EXCEPT ![s] = TRUE]
    /\ outcome' = [outcome EXCEPT ![s] = IF cancelled[s] THEN "stopped"
                                         ELSE IF Head(queue[s]) = "ok" THEN "ok"
                                         ELSE "status"]
    /\ Go(s, "done")
    /\ UNCHANGED <<connVars, streams, ended, todo, got, cancelled, abandoned,
                   window, peerVars>>

\* A queued error is raised, or the frame decoder raises.
ReceiveError(s) ==
    /\ Took(s, {"reset", "lost", "junk"})
    /\ Raise(s)
    /\ UNCHANGED <<connVars, streams, ended, todo, got, rcvdEnd, abandoned, window, peerVars>>

\* Mutant: the deadline covers the sending of the request only.
InterruptSending(s) ==
    /\ pc[Caller(s)] \in {"send", "sendFlush"}
    /\ Raise(s)
    /\ UNCHANGED <<connVars, tableVars, todo, got, rcvdEnd, abandoned, window, peerVars>>

\* unary's deadline, the caller's own cancellation, or a drain that raises.
Interrupt(s) ==
    /\ pc[Caller(s)] \in {"send", "sendFlush", "window", "get"}
    /\ Raise(s)
    /\ UNCHANGED <<connVars, tableVars, todo, got, rcvdEnd, abandoned, window, peerVars>>
------------------------------------------------------------------------------
(* GrpcStream.cancel and _reset_stream, run by the caller or a canceller.   *)

Move(t, place) == pc' = [pc EXCEPT ![t] = place]

\* Any task that holds the GrpcStream.  Once the stream has ended or is being
\* cancelled, cancel() returns at once; after the call is over it is one of these.
StartCancel(s) ==
    /\ s \in Contested
    /\ pc[Canceller(s)] = "idle"
    /\ pc[Caller(s)] \in {"send", "sendFlush", "window", "next", "get"}
    /\ ~rcvdEnd[s] /\ ~cancelled[s]
    /\ cancelled' = [cancelled EXCEPT ![s] = TRUE]
    /\ Move(Canceller(s), "reset")
    /\ UNCHANGED <<connVars, tableVars, todo, got, rcvdEnd, outcome, abandoned,
                   window, peerVars>>

\* Mutant: RST_STREAM is written without looking the stream up first.
ResetUnconditionally(t) ==
    /\ pc[t] = "reset" /\ LockFree
    /\ streams' = streams \ {t[2]}
    /\ ended' = [ended EXCEPT ![t[2]] = TRUE]
    /\ Move(t, "resetFlush")
    /\ UNCHANGED <<connVars, queue, callVars, window, peerVars>>

\* Nothing is put in the queue of a stream that is reset from this side.
Reset(t) ==
    /\ pc[t] = "reset" /\ LockFree
    /\ t[2] \in streams
    /\ streams' = streams \ {t[2]}
    /\ ended' = [ended EXCEPT ![t[2]] = TRUE]
    /\ Move(t, "resetFlush")
    /\ UNCHANGED <<connVars, queue, callVars, window, peerVars>>

ResetUnknown(t) ==
    /\ pc[t] = "reset" /\ LockFree
    /\ t[2] \notin streams
    /\ rcvdEnd' = [rcvdEnd EXCEPT ![t[2]] = TRUE]
    /\ Move(t, "done")
    /\ UNCHANGED <<connVars, tableVars, todo, got, cancelled, outcome, abandoned,
                   window, peerVars>>

ResetFlushed(t) ==
    /\ pc[t] = "resetFlush"
    /\ rcvdEnd' = [rcvdEnd EXCEPT ![t[2]] = TRUE]
    /\ Move(t, "done")
    /\ UNCHANGED <<connVars, tableVars, todo, got, cancelled, outcome, abandoned,
                   window, peerVars>>

\* cancel() is itself cancelled at an await, or its drain raises; the stream
\* will not be cancelled again, _locally_cancelled being set.
CancelFails(t) ==
    /\ pc[t] \in {"reset", "resetFlush"}
    /\ abandoned' = IF pc[t] = "reset" THEN abandoned \cup {t[2]} ELSE abandoned
    /\ Move(t, "done")
    /\ UNCHANGED <<connVars, tableVars, todo, got, rcvdEnd, cancelled, outcome,
                   window, peerVars>>
------------------------------------------------------------------------------
(* _reader_loop and _dispatch.                                              *)

\* One read() returns any number of frames, then the lock is taken: h2 takes
\* the frames, both kinds that widen its window included, WindowUpdated alone
\* sets the event, acknowledgements are written.
ReadBatch ==
    /\ reader = "read" /\ LockFree /\ Require
    /\ \E n \in 1..Len(inbound) :
         /\ batch' = SubSeq(inbound, 1, n)
         /\ inbound' = SubSeq(inbound, n + 1, Len(inbound))
         /\ LET updates == {i \in 1..n : inbound[i] = WindowUpdate}
                settings == {i \in 1..n : inbound[i] = Settings}
            IN  /\ window' = window + Cardinality(updates) + Cardinality(settings)
                /\ pc' = IF updates = {} THEN pc ELSE Woken(pc)
                /\ unheard' = IF updates = {} THEN unheard + Cardinality(settings) ELSE 0
    /\ reader' = "flush"
    /\ UNCHANGED <<closing, terminal, closer, tableVars, callVars, peer, served, link, grants>>

\* The lock is released without yielding to the event loop, so no other task
\* runs before the whole batch is dispatched (see Next).
ReaderFlushed ==
    /\ reader = "flush"
    /\ reader' = "dispatch"
    /\ UNCHANGED <<closing, terminal, batch, closer, tableVars, pc, callVars, window,
                   unheard, peerVars>>

\* End of file, a read or drain error, bytes h2 rejects, or a connection that
\* _require_connection refuses; silent when close() caused it.
ReaderFails ==
    /\ \/ reader = "read" /\ (link = "broken" \/ terminal)
       \/ reader = "flush" /\ link = "broken"
    /\ reader' = "done"
    /\ batch' = <<>>
    /\ IF closing
       THEN UNCHANGED <<terminal, tableVars, pc>>
       ELSE terminal' = TRUE /\ FailAll
    /\ UNCHANGED <<closing, closer, callVars, window, unheard, peerVars>>

Dispatching(f) ==
    /\ reader = "dispatch"
    /\ batch # <<>> /\ Head(batch) = f
    /\ batch' = Tail(batch)

\* ConnectionTerminated: the loop goes on, to find the socket closed.
DispatchGoAway ==
    /\ Dispatching(GoAway)
    /\ terminal' = TRUE
    /\ FailAll
    /\ UNCHANGED <<closing, reader, closer, callVars, window, unheard, peerVars>>

DispatchMessage(s) ==
    /\ s \in streams
    /\ \E k \in Messages :
         /\ Dispatching(<<k, s>>)
         /\ queue' = [queue EXCEPT ![s] = Append(@, k)]
    /\ UNCHANGED <<closing, terminal, reader, closer, streams, ended, pc, callVars,
                   window, unheard, peerVars>>

\* Mutant: a reset is taken for the end of the response.
DispatchAnyEnd(s) ==
    /\ s \in streams
    /\ \E k \in Ends :
         /\ Dispatching(<<k, s>>)
         /\ queue' = [queue EXCEPT ![s] = Append(@, "ok")]
    /\ ended' = [ended EXCEPT ![s] = TRUE]
    /\ streams' = streams \ {s}
    /\ UNCHANGED <<closing, terminal, reader, closer, pc, callVars, window, unheard, peerVars>>

\* Mutant: a reset removes the stream and tells its reader nothing.
DispatchEndUnheard(s) ==
    /\ s \in streams
    /\ \E k \in Ends :
         /\ Dispatching(<<k, s>>)
         /\ queue' = [queue EXCEPT ![s] = IF k = "reset" THEN @ ELSE Append(@, k)]
    /\ ended' = [ended EXCEPT ![s] = TRUE]
    /\ streams' = streams \ {s}
    /\ UNCHANGED <<closing, terminal, reader, closer, pc, callVars, window, unheard, peerVars>>

\* Mutant: a reset fails every stream of the connection.
DispatchEndForAll(s) ==
    /\ s \in streams
    /\ \E k \in Ends :
         /\ Dispatching(<<k, s>>)
         /\ IF k = "reset" THEN FailAll
            ELSE /\ queue' = [queue EXCEPT ![s] = Append(@, k)]
                 /\ ended' = [ended EXCEPT ![s] = TRUE]
                 /\ streams' = streams \ {s}
                 /\ UNCHANGED pc
    /\ UNCHANGED <<closing, terminal, reader, closer, callVars, window, unheard, peerVars>>

\* StreamEnded and StreamReset end the stream and leave the table.
DispatchEnd(s) ==
    /\ s \in streams
    /\ \E k \in Ends :
         /\ Dispatching(<<k, s>>)
         /\ queue' = [queue EXCEPT ![s] = Append(@, k)]
    /\ ended' = [ended EXCEPT ![s] = TRUE]
    /\ streams' = streams \ {s}
    /\ UNCHANGED <<closing, terminal, reader, closer, pc, callVars, window, unheard, peerVars>>

DispatchIgnored ==
    /\ \E f \in {WindowUpdate, Settings} \cup ((Messages \cup Ends) \X (Streams \ streams)) :
         Dispatching(f)
    /\ UNCHANGED <<closing, terminal, reader, closer, tableVars, pc, callVars,
                   window, unheard, peerVars>>

Dispatched ==
    /\ reader = "dispatch" /\ batch = <<>>
    /\ reader' = IF closing THEN "done" ELSE "read"
    /\ UNCHANGED <<closing, terminal, batch, closer, tableVars, pc, callVars, window,
                   unheard, peerVars>>
------------------------------------------------------------------------------
(* close().                                                                 *)

\* Mutant: the reader task is awaited without having been cancelled.
CloseWithoutCancel ==
    /\ closer = "idle"
    /\ closing' = TRUE
    /\ FailAll
    /\ closer' = "lock"
    /\ UNCHANGED <<terminal, reader, batch, callVars, window, unheard, peerVars>>

\* The reader is cancelled at whatever it awaits, unless an error ended it
\* already; if it held the lock, the lock is free again.
Close ==
    /\ closer = "idle"
    /\ closing' = TRUE
    /\ FailAll
    /\ reader' = IF terminal THEN reader ELSE "done"
    /\ batch' = IF terminal THEN batch ELSE <<>>
    /\ closer' = "lock"
    /\ UNCHANGED <<terminal, callVars, window, unheard, peerVars>>

\* GOAWAY is written unless the connection is already dead.
CloseLocked ==
    /\ closer = "lock" /\ LockFree
    /\ closer' = IF terminal THEN "join" ELSE "flush"
    /\ UNCHANGED <<closing, terminal, reader, batch, tableVars, pc, callVars, window,
                   unheard, peerVars>>

CloseFlushed ==
    /\ closer = "flush"
    /\ closer' = "join"
    /\ UNCHANGED <<closing, terminal, reader, batch, tableVars, pc, callVars, window,
                   unheard, peerVars>>

CloseJoined ==
    /\ closer = "join" /\ reader = "done"
    /\ closer' = "done"
    /\ UNCHANGED <<closing, terminal, reader, batch, tableVars, pc, callVars, window,
                   unheard, peerVars>>
------------------------------------------------------------------------------
(* The robot and the network (external).  Frames arrive in order.           *)

Arrives(f) ==
    /\ Len(inbound) < MaxInFlight
    /\ inbound' = Append(inbound, f)

PeerMessage(s) ==
    /\ link = "up" /\ peer[s] = "open" /\ served[s] < MaxData
    /\ \E k \in Messages : Arrives(<<k, s>>)
    /\ served' = [served EXCEPT ![s] = @ + 1]
    /\ UNCHANGED <<connVars, tableVars, pc, callVars, window, peer, link, grants>>

\* A response may end before the request has.
PeerEnd(s) ==
    /\ link = "up" /\ peer[s] = "open"
    /\ \E k \in Ends : Arrives(<<k, s>>) /\ peer' = [peer EXCEPT ![s] = k]
    /\ UNCHANGED <<connVars, tableVars, pc, callVars, window, served, link, grants>>

PeerGrants ==
    /\ link = "up" /\ grants < MaxGrants
    /\ grants' = grants + 1
    /\ Arrives(WindowUpdate)
    /\ UNCHANGED <<connVars, tableVars, pc, callVars, window, peer, served, link>>

PeerSettings ==
    /\ link = "up" /\ grants < MaxGrants /\ grants < MaxSettings
    /\ grants' = grants + 1
    /\ Arrives(Settings)
    /\ UNCHANGED <<connVars, tableVars, pc, callVars, window, peer, served, link>>

PeerGoesAway ==
    /\ link = "up"
    /\ link' = "goaway"
    /\ Arrives(GoAway)
    /\ UNCHANGED <<connVars, tableVars, pc, callVars, window, peer, served, grants>>

LinkBreaks ==
    /\ link # "broken"
    /\ link' = "broken"
    /\ UNCHANGED <<connVars, tableVars, pc, callVars, window, inbound, peer, served, grants>>
------------------------------------------------------------------------------
CallerStep(s) ==
    \/ Open(s) \/ OpenRefused(s) \/ OpenFlushed(s) \/ OpenFails(s)
    \/ Send(s) \/ Starve(s) \/ SendRefused(s) \/ SendFlushed(s)
    \/ AskNext(s) \/ ReceiveMessage(s) \/ ReceiveEnd(s) \/ ReceiveError(s)
    \/ Interrupt(s) \/ StartCancel(s)

CancelStep(t) ==
    \/ CancelFails(t) \/ Reset(t) \/ ResetUnknown(t) \/ ResetFlushed(t)

ReaderStep == ReadBatch \/ ReaderFlushed \/ ReaderFails
DispatchStep ==
    \/ DispatchGoAway \/ DispatchIgnored \/ Dispatched
    \/ \E s \in Streams : DispatchMessage(s) \/ DispatchEnd(s)
CloseStep == Close \/ CloseLocked \/ CloseFlushed \/ CloseJoined

PeerStep ==
    \/ \E s \in Streams : PeerMessage(s) \/ PeerEnd(s)
    \/ PeerGrants \/ PeerSettings \/ PeerGoesAway \/ LinkBreaks

\* The end of a run: every task that started has finished.
AllDone ==
    /\ closer = "done"
    /\ \A s \in Streams : pc[Caller(s)] = "done" /\ pc[Canceller(s)] \in {"idle", "done"}
    /\ UNCHANGED vars

Next ==
    \/ DispatchStep
    \/ /\ reader # "dispatch"
       /\ \/ \E s \in Streams : CallerStep(s)
          \/ \E t \in Tasks : CancelStep(t)
          \/ ReaderStep \/ CloseStep \/ PeerStep \/ AllDone

Spec == Init /\ [][Next]_vars

(***************************************************************************)
(* Fairness.  The event loop resumes every task whose await is over, a     *)
(* drain ends (the environment's part: nothing in the code bounds it), and *)
(* asyncio.Lock is first come first served: hence strong fairness for each *)
(* task's own steps, opening a call and failing to excepted.  A unary call *)
(* has a deadline, so its interruption is fair; a collection's is not.     *)
(***************************************************************************)
CallerProgress(s) ==
    \/ OpenFlushed(s) \/ Send(s) \/ Starve(s) \/ SendRefused(s) \/ SendFlushed(s)
    \/ AskNext(s) \/ ReceiveMessage(s) \/ ReceiveEnd(s) \/ ReceiveError(s)
CancelProgress(t) == Reset(t) \/ ResetUnknown(t) \/ ResetFlushed(t)

Fairness ==
    /\ SF_vars(ReaderStep \/ DispatchStep)
    /\ SF_vars(CloseLocked \/ CloseFlushed \/ CloseJoined)
    /\ \A s \in Streams : SF_vars(CallerProgress(s)) /\ SF_vars(CancelProgress(Caller(s)))
    /\ \A s \in Streams \ Streaming : WF_vars(Interrupt(s))
    /\ \A s \in Contested : SF_vars(CancelProgress(Canceller(s)))

FairSpec == Spec /\ Fairness
------------------------------------------------------------------------------
(* Properties.                                                              *)

\* Types of the variables.
TypeOK ==
    /\ closing \in BOOLEAN /\ terminal \in BOOLEAN
    /\ streams \subseteq Streams
    /\ ended \in [Streams -> BOOLEAN]
    /\ queue \in [Streams -> Seq(Events)]
    /\ reader \in {"read", "flush", "dispatch", "done"}
    /\ batch \in Seq(Frames)
    /\ closer \in {"idle", "lock", "flush", "join", "done"}
    /\ pc \in [Tasks -> Places]
    /\ todo \in [Streams -> Nat] /\ got \in [Streams -> Nat]
    /\ rcvdEnd \in [Streams -> BOOLEAN] /\ cancelled \in [Streams -> BOOLEAN]
    /\ outcome \in [Streams -> {"none", "ok", "status", "error", "stopped"}]
    /\ abandoned \subseteq Streams
    /\ window \in Nat /\ unheard \in Nat
    /\ inbound \in Seq(Frames)
    /\ peer \in [Streams -> {"none", "open"} \cup Ends]
    /\ served \in [Streams -> Nat]
    /\ link \in {"up", "goaway", "broken"}
    /\ grants \in Nat

\* However opens, cancels and deliveries interleave with a shutdown or a fatal
\* error, no stream is registered afterwards: nobody could ever end it.
ShutdownClearsStreams == closing \/ terminal => streams = {}

\* The queue of s holds what ends its stream.
EndIsQueued(s) == \E i \in 1..Len(queue[s]) : queue[s][i] \in Terminals

\* A caller waiting in queue.get() is waiting for something: its stream is
\* registered, or the queue holds what ends the wait.  The one exception is a
\* stream cancelled from this side, whose reader _reset_stream tells nothing.
ReaderNotOrphaned ==
    \A s \in Streams : At(s, "get") =>
        s \in streams \/ EndIsQueued(s) \/ cancelled[s]

\* No WINDOW_UPDATE is slept through: a sender waits for the window only while
\* the connection can still bring some, and what h2 would let it send meanwhile
\* came with SETTINGS, which the reader loop does not take for a wake-up, and
\* after the last WINDOW_UPDATE: the next one wakes it.
OnlySettingsAreSleptThrough ==
    \A s \in Streams : At(s, "window") => window <= unheard /\ Require

\* A call reports success only when the robot ended that very stream with
\* status 0, after its request was complete, and every message it sent on the
\* stream has been handed over.
SuccessIsComplete ==
    \A s \in Streams : outcome[s] = "ok" =>
        peer[s] = "ok" /\ todo[s] = 0 /\ got[s] = served[s]

\* Peer reset is stream-local: a call sees the connection's error only when
\* the connection was shut down or failed.
FailureIsLocal ==
    \A s \in Streams :
        (\E i \in 1..Len(queue[s]) : queue[s][i] = "lost") => closing \/ terminal

\* A finished call leaves no entry in the table, unless another task is still
\* cancelling it or was stopped doing so.
FinishedCallIsForgotten ==
    \A s \in streams : At(s, "done") =>
        s \in abandoned \/ \E t \in Tasks : t[2] = s /\ pc[t] = "reset"

\* Once the transport is shut down or has failed, no task hands h2 another
\* HEADERS, DATA or RST_STREAM frame.
QuietAfterShutdown ==
    [][closing \/ terminal =>
         \A t \in Tasks : pc'[t] \in Flushing => pc[t] = pc'[t]]_vars

\* Each call on the shared connection is one of GrpcCalls: whatever the window,
\* the other calls, the cancellations, the batches of the reader and a shutdown
\* do, no message is invented, repeated or told of before the caller's own is
\* out, and the verdict is one, true, and told with the whole answer.
Promise == INSTANCE GrpcCalls WITH
    Calls <- Streams, Shared <- Contested, response <- peer, answered <- served,
    asked <- [s \in Streams |-> todo[s] = 0], handed <- got, told <- outcome
ImplementsCalls == Promise!Spec

\* Every unary call that starts returns or raises.
CallsFinish ==
    \A s \in Streams \ Streaming : ~At(s, "idle") ~> At(s, "done")

\* close() returns, whatever the reader is doing when it is called.
CloseTerminates == closing ~> closer = "done"

\* Closing the transport fails every stream somebody is waiting on.
LocalCloseFailsPendingStream ==
    \A s \in Streams : closing ~> ~At(s, "get")
------------------------------------------------------------------------------
(* The inductive invariant behind the safety properties.                    *)

\* A caller about to write has something to write: the loop of _send_data is
\* entered with a framed message, and left when nothing remains of it.
SenderHasData ==
    \A s \in Streams :
        pc[Caller(s)] \in {"idle", "openFlush", "send", "window"} => todo[s] > 0

\* Only a call that has opened its stream and has not ended it is registered.
RegisteredIsLive ==
    \A s \in Streams :
        /\ s \in streams => ~At(s, "idle") /\ ~ended[s]
        /\ At(s, "idle") => ~ended[s]

\* As ReaderNotOrphaned, from the moment the stream is registered.
StreamIsTracked ==
    \A s \in Streams :
        pc[Caller(s)] \in {"openFlush", "send", "sendFlush", "window", "next", "get"} =>
            s \in streams \/ EndIsQueued(s) \/ cancelled[s]

\* _reset_stream runs only on behalf of cancel().
ResetIsCancelled ==
    \A t \in Tasks : pc[t] = "reset" => cancelled[t[2]]

IInv ==
    /\ TypeOK
    /\ SenderHasData
    /\ ShutdownClearsStreams
    /\ RegisteredIsLive
    /\ StreamIsTracked
    /\ ResetIsCancelled
    /\ OnlySettingsAreSleptThrough
    /\ FailureIsLocal
==============================================================================
