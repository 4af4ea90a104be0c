# matic-sdk: specifications, checks and proofs

TLA+ models of `matic_sdk`, an asyncio client for a cleaning robot that talks
gRPC over one HTTP/2 connection, issues guarded commands, merges telemetry
collections, turns map and voxel collections into private exports, and enrolls
once per device. Each module is a translation of named lines of
`src/src/matic_sdk/`; `PROJECT.json` says which ("map"), which TLC run checks
what ("runs"), how a plausible bug would break each property ("mutants"), and
which theorems hold for every value of the constants ("theorems").

Run a configuration with `tlc -config X.cfg M` and check a proof module with
`tlapm M.tla`.

## The system

| Component | State it keeps | Operations | Model |
|---|---|---|---|
| HTTP/2 transport, `transport/h2.py` | stream table, per-stream queue and `ended`, `_closing`, `_terminal_error`, one lock, one window event, the reader task | open a stream, send under flow control, receive, cancel, dispatch, `close` | `H2Transport`, and what it promises in `GrpcCalls` |
| gRPC framing, `protocol/grpc.py` | the decoder's buffer | `frame_message`, `feed`, `finish`, `grpc_status` | `GrpcFraming`; the status only as the verdict of `H2Transport!ReceiveEnd` |
| Commands, `commands.py`, `transport/commands.py` | the append-only audit log, one call each | `execute`, the audit records, `send_channel`, the observer | `CommandExecutor`, `CommandDelivery` |
| Command registry and codecs, `protocol/commands.py` | none | look up, validate, encode | `CommandTypes`, `CommandSpecs`, `CommandCodecs`, `CoverageCodecs`, `MapCodecs`, `CommandRegistry`; their callers in `CommandApi` |
| Collections and telemetry, `collections.py`, `telemetry.py` | subscriptions, pump tasks, a queue, `_closed`, a count of pumps that are over | `start`, pumps, iteration, `aclose` | `Telemetry` |
| Client, `client.py` | one transport, the set of subscriptions | connect, subscribe, probe, first, close | only what a session meets, in `Telemetry` |
| Coverage, `coverage.py` | two latest values per call | `fetch_reprioritization_snapshot`; pure re-planning | `CoverageSnapshot`; decoding and re-planning in `CoverageCodecs`, `Reprioritization` |
| Enrollment, `enrollment.py`, `credentials.py` | two private files per device alias | `enroll`, `import_token`, `load` | `Enrollment` |
| Maps and voxels, `maps.py`, `voxels.py` | tiles and key aliases | apply an update, `tiles` | `CollectionState`; which layers a value yields, not their pixels |
| Private exports, `maps.py`, `voxels.py`, `telemetry.py` | files, a temporary file, a directory | create, write, sync, link, unlink | `PrivateFiles`, composed with the reading in `Exports` |
| Protobuf helpers, `protocol/wire.py` | none | varints, fields | `ProtoWire` |
| Remote portal, `experimental/remote.py` | none; experimental | codecs and a gate that refuses | not modelled |
| Collection payloads, `collection_models.py` | none | decode values into dataclasses | not modelled |
| macOS helper, discovery, CLI, TLS and configuration | none that changes | front ends and checks made once | the CLI's exporting commands in `Exports`, the rest not modelled |

How they meet. `MaticClient` owns one `H2Transport`; a `CollectionSubscription`
holds one stream of it, decodes each message and answers it on the same stream;
a `TelemetrySession` runs one pump task per subscription into one queue;
`CommandExecutor` writes its audit log and then has `CommandTransport` make one
unary call; the coverage snapshot is two collections read through a telemetry
session; enrollment asks the robot for a token over Bluetooth between two file
operations, and everything else starts from the files it leaves. A convenience
method builds a command, the registry encodes it, and what a coverage snapshot
held goes back to the robot inside such a command. Within a program all of this
runs on one event loop, so a step is the code between two awaits. Enrollment
and the exporters are where separate processes share state, through the file
system.

What is hard here is listed line by line under "hazards" in `PROJECT.json`. In
short: a cancellation at any await while the stream table, the lock and the
queues change underneath; frames, window updates, resets and GOAWAY in any
order against `close()`; requests and answers lost around a log that itself
fails; sessions closed by one task while another subscribes; two collections
that are each in order but not with each other; processes that race or die
between two system calls on the same files; bytes cut anywhere; commands whose
options the wire format cannot carry, and which must be refused rather than
sent without them; two raw keys of a collection that name one place.

## Modules, and how they correspond to the code

**`H2Transport`.** A task is a place (`pc`, `reader`, `closer`) and each place is
an await. A caller goes through `open_grpc_stream`, `_send_data` and
`__anext__`, and its exceptions leave through `cancel()`; calls in `Contested`
may also be cancelled by another task. The lock is held exactly at the places
named `...Flush` (the socket is drained under it), so it needs no variable. A
batch is dispatched without an await, which `Next` says by letting nothing else
run in `"dispatch"`. `_fail_all` is the operator `FailAll`; the window event is
cleared by each waiter in the step in which it starts to wait, so setting it is
`Woken`. The reader wakes the senders for a WINDOW_UPDATE only: a SETTINGS frame
that raises the initial window opens it too and wakes nobody, and `unheard` counts
what it brought. HPACK, header validation, sizes of frames and PING are abstracted;
a DATA frame is one unit of the window and holds at most one message; one window
stands for the smaller of a stream's and the connection's, and SETTINGS that lower
it are left out. A collection answers a message or not, as the event has a sequence
identifier or not. The robot answers any open stream with messages, junk, trailers or a reset, in
any order with window updates and GOAWAY, and the link may break at any time.

**`GrpcCalls`.** What the transport promises to those who share its connection,
each call as if it were alone: a refused call is never begun; messages are
handed over only once the caller's last one is out, and never more than the
robot has sent; the caller is told one thing, a status only with the whole
answer and the one the robot ended it with; and only a call that somebody else
may cancel ends quietly. The connection, its table, window, queues and lock are
gone. The refinement mapping in `H2Transport` (`Promise`) reads the robot's side
off `peer` and `served`, takes a request to be asked when `todo` is 0, and what
is handed and told from `got` and `outcome`.

**`CommandExecutor`, `CommandDelivery`.** `CommandDelivery` is the promise: the
request goes out at most once, `refused` means that it never did, `receipt`
means that the robot has it, anything else is `unknown`. `CommandExecutor` is
`_execute_guarded` with its log (an append may fail before or half-way through
a line, which then garbles the next one), `send_channel` (one call, no retry),
the observer and its cancellation, and crashes that leave the log behind. A
transport of the caller's own, whose result is of the wrong type, is left out. The
refinement mapping is `Told`, the caller's view of `outcome`.

**`Telemetry`.** The consumer (`start`, `__anext__`, `aclose` at the end), the
pumps and the subscriptions under them, a second task that calls `aclose()`,
and a client closed underneath. `Close` is `aclose()` up to its first await;
`Cancel` is what `Task.cancel` does to a pump at each place, in particular that
one that has not run yet never runs its `finally`.

**`CoverageSnapshot`.** The robot begins and ends coverage sessions, publishes
and withdraws plans, and retains the current value of each collection. The call
subscribes to the plan, then to the key, and takes updates in any merge of the
two streams, which is all that `Telemetry` promises about their order. A decoded
plan is a mission and its goals.

**`GrpcFraming`.** `feed`, one turn of its loop per action, and `finish`, on
real bytes with the real big-endian length. A script is what the robot sends:
framed messages and a tail that may be empty, cut off, compressed or too long.

**`Enrollment`.** `enroll`, `acquire_bot_token`, `load_or_create_client_id`, `save_token`
and `_write_new_private` as system calls on the token and the identity file: the test for a file,
`open` with `O_EXCL`, the write, the read. A process may fail or die between any
two, and a write may fail or be cut short by the process's end with the file torn
or whole. The token exchange is a request the robot may answer or not; a token
remembers the identity it was issued to. `import_token` takes the last part
only. Identities and tokens are compared, never looked into.

**`ProtoWire`.** The encoders and `parse_fields` of `wire.py`, on sequences of
bytes: varints of at most ten groups, the wire types the library reads, and what
is refused (a cut field, a group that never ends, field number zero). A value of
fixed width is opaque to the library and is written as so many copies of itself,
which keeps the lengths.

**`CommandTypes`, `CommandCodecs`, `CoverageCodecs`, `MapCodecs`.** The command
models are sets of records whose scalars and lists come from constants (`U32`,
`Texts`, `Floats`, `Uuids`, `Partitions`, `Offsets`, `RegionLists`, `CircleLists`),
with `None` where Python's default is `None` and `Junk` where a caller may put what
the annotation forbids: the dataclasses check nothing, so the codecs must. The runs
give each constant two or three values; `ArgumentsAssumption` says only what kind of
value each holds (numbers, texts as their bytes, pairs of halves, offsets of 32
bits), and that the two marks `None` and `Junk` are none of them. A float is a
number of the precision the wire has: two that round to one `float32` are one
value. Of each codec there is what it accepts (it raises on the rest) and the
payload it then returns, byte for byte.
`CoverageCodecs` also has the decoders of `coverage.py`, on the same bytes.

**`CommandSpecs`, `CommandApi`, `CommandRegistry`.** The table `COMMAND_SPECS`,
with the payloads on record; the commands that the convenience methods build, whatever they are called with,
as none of them looks at its arguments; and `encode`, which tests the protocol version, then looks the command up by its
exact class and action, then encodes, in that order.

**`Reprioritization`.** A robot at work under `CommandRegistry`: the caller reads
a snapshot of its plan, builds a `ReprioritizeCoverageCommand` from it and
encodes it, the robot takes up the goals it decodes from the request, or the
request is lost, and the next snapshot is made of the result. The robot finishes
goals meanwhile. It is external; it reads the fields the codec writes and writes
those that `coverage.py` reads, in either of the two styles firmware has for
identifiers. Of the decoders' limits `_MAX_REPORTS` is in `IsPlan`; the others
(8 MiB, fields per message) cannot be reached by so many goals of at most 240
bytes, in messages of a few fields each, and are left out.

**`CollectionState`.** `MapCollectionState` and `VoxelCollectionState`: `apply`
with its four outcomes (a delete forgets the key, a value that decodes replaces
it and takes a new index, a voxel value that does not decode takes the previous
one with it, an exception from the map decoder or from parsing changes nothing),
and `tiles`, which settles between raw keys that decode to one place. A message
is a key and a form, what its value is to the two decoders.

**`PrivateFiles`.** `save_mosaics`, `save_embedded_webps`, `open_new_private`,
`export_ply` and `record_telemetry` as system calls on shared paths. Any call may
fail and lead to the handler the code has there; a program may die between any
two. `FilesSpec` lets a program begin any of them with any images.

**`Exports`.** The composition: a program reads a capture into a collection
state, message by message, and exports what `tiles` shows then, or gives up at
an exception or when there is nothing to show, as the CLI does; or goes on, as a caller that
catches it may. The memory of a program is its own, so one reads at a time
before any has touched the disk, and the interleavings are those on the disk.

The modules named `MC...` give the constants small values for TLC; the modules
named `...Proofs` hold theorems. Operators marked "Mutant" are bugs a change to
the code could introduce; each breaks the property it is listed with.

## The runs

All passing runs but `commands` check for deadlock; the end of a run is a step
that changes nothing and is enabled only when every task is over. In `commands`
a behaviour ends where a command is refused or sent, and there is nothing that
could wait.

| Run | Instance | What it shows |
|---|---|---|
| `h2_unary` | two unary calls, two request frames each, a window that is opened twice, by WINDOW_UPDATE or by SETTINGS, no messages in the responses; 3.4 M states with symmetry | after a shutdown or fatal error nothing is registered and nothing is sent (`ShutdownClearsStreams`, `QuietAfterShutdown`); no WINDOW_UPDATE and no shutdown is slept through, only SETTINGS are (`OnlySettingsAreSleptThrough`); a reset is stream-local (`FailureIsLocal`) |
| `h2_collection` | one collection, two request frames, up to two messages, each answered or not, a second task that cancels; 7.1 M states | a success is the whole response of that stream (`SuccessIsComplete`); a reader that waits will be told, except in one case (below); a finished call leaves no table entry; whatever the table and the queues do, the call keeps what `GrpcCalls` promises (`ImplementsCalls`) |
| `h2_live` | one unary call, a closer; fairness | every unary call that starts ends (`CallsFinish`); `close()` returns, whatever the reader is doing (`CloseTerminates`) |
| `command_executor` | two concurrent commands of every kind, every setup | attempts are recorded before anything is sent, the log tells one story, the executor implements `CommandDelivery` |
| `telemetry` | two collections of up to two events, an impatient closer, a client that may close; fairness; 90 k states | a left session is clean, an exhausted one is complete, an error is not taken for the end, closing ends and wakes the consumer |
| `snapshot` | three sessions, the first and the last of one mission, two plans each; 257 k states | `None` means idle at some moment of the call (`InactiveMeansIdle`) |
| `grpc_framing` | up to three messages out of three, eight tails, every cut; 43 k states | neither the returned messages nor the verdict depends on the cuts |
| `enrollment` | two programs that pair, one that imports | one identity per alias, at most one success, which stays usable; whole files are final |
| `commands` | 26 and an unsupported version, an alphabet of commands that takes each codec through each of its branches, a plan of four goals in three rooms; 143 k states | a request says all that the command says and goes where its row sends it, and what the wire cannot carry is refused, one pair of commands excepted (`RequestTellsIntent`, below); what a convenience method builds has a codec (`EveryCallHasACodec`), and a reprioritization made of a snapshot is accepted (`SnapshotIsServed`); a robot's message cut anywhere is never a plan (`CutPlanIsInert`); through any series of snapshots and requests no goal is lost, invented or out of order (`SnapshotIsThePlan`, `GoalsSurvive`, `SelectedGoesFirst`) |
| `exports` | two programs, captures of up to three messages on three keys, two of which name one place, recordings of up to two events; 1.5 M states with symmetry | what is shown is what was applied last (`TilesAreAsApplied`); a success is whole and stays (`SuccessIsFinal`), a failure leaves no debris (`FailureLeavesNoDebris`), the export of a mission is there whole or not at all (`PlyIsAtomic`), a manifest lists what there is (`ManifestTellsAll`) |

Why the bounds are enough. Two callers are what competition for the window, the
lock and `_fail_all` needs; a third behaves as the second. A message and an
answer already put a caller through every place of its loop, a second lets
what is queued and what is received differ. `MaxInFlight` 2 or 3 lets window
updates, ends and GOAWAY overtake none of each other yet arrive in one batch or
in several. Two telemetry targets distinguish "one pump is over" from "all
are"; three coverage sessions let a call meet the end of one and the beginning
of the next twice. Payloads of zero to two bytes under `MaxMessage` 2 reach
each side of every comparison in `feed`. Three processes let one fail, one
retry and one interfere. Three messages let a value be replaced or deleted and an
alias of its key come in between; two programs let one export, fail or die while
the other starts on the same path, and a rerun is a second program. The values of
the command alphabet are chosen per branch: zero, which the wire leaves out, and
a value that takes two groups of a varint; each option absent, present and
unfit; lists that are empty, in order, repeated and reversed. In a plan of four
goals the room that is selected has goals on both sides of another's. The safety properties that the proofs cover do not
depend on these bounds at all.

The codecs and the collection states were also compared with the Python they
model outside TLC: 21,811 commands (accepted or refused, and the bytes) and 5,324
histories of messages (keys and tiles held), without a difference.

### Where the code and what is said of it disagree

Two runs end in a counterexample, each to one statement of a test or comment.

* `h2_pending`: a stream that another task cancels while its reader waits in
  `anext()` is dropped from the table with nothing in its queue
  (`_reset_stream`); the reader is never woken, not by `close()` either, whose
  `_fail_all` goes through the table. `test_local_close_fails_pending_stream...`
  claims that pending streams fail. `ReaderNotOrphaned` states the exception and
  shows that there is no other: the table being empty after `close()`
  (`ShutdownClearsStreams`), a reader nobody cancelled has its error queued.
* `stale_tile`: a voxel tile stays, in the state and in `tiles`, after a replacement
  of it that does not parse, since `apply_message` parses before it calls `apply`,
  and `apply` alone drops the tile. The comment at `voxels.py` 145-146 says that "a
  malformed replacement makes the value unknown" and that to keep the previous tile
  would "silently invent stale collection state".
  `test_malformed_replacement_does_not_leave_stale_state` has a value that parses.

Three more are excepted by name in a property that passes, which shows that nothing
else is:

* An edit of a no-go zone and the same edit of a drive-only zone are one request:
  they share a codec that writes nothing of the kind of zone, and a target. The
  documents count them as two of "74 documented intents, 74 exact `wire_verified`
  formats" (`docs/command-verification.md`, lines 4, 39 and 40). `Intent` tells them
  apart, and `RequestTellsIntent` excepts this pair (`AlikeButForZone`) and no other.
* A SETTINGS frame that opens the window wakes no sender (`h2.py:290` asks for
  `WindowUpdated`): a sender may sleep with window to spare until the next
  WINDOW_UPDATE or its deadline (`OnlySettingsAreSleptThrough`).
* `start()` does not look at `_closed` between two subscriptions. A session that
  another task closes meanwhile, or has closed before, ends with subscriptions and
  pumps open; `ClosedSessionIsClean` shows that these, in `late`, are the only ones.

What else a reader of the code may not expect, and the models have as it is:

* A snapshot joins plan and session on the mission identifier. The plan of an ended
  session that the robot still retains can so be joined with the key of the next
  session of the same mission, although the class is documented as "one coherent
  active plan and coverage-session identity" (`coverage.py:71`). Whether a robot
  withdraws the plan before it begins the next session is not to be read from this
  repository, so no property claims or refutes it. Nothing makes the robot refuse a
  request made from a snapshot that it has overtaken since.
* A token file torn by a failed or interrupted write makes later runs say that
  the alias is already paired.
* A map value that the decoder raises on leaves the previous tile, as a message that
  does not parse does. `TilesAreAsApplied` allows a tile to stay or to go after a
  message that was not applied, and asks for what was applied last otherwise.
* A line of the audit log that was cut short garbles the record appended to it.
* `feed` loses the messages it has decoded from a DATA frame if a bad frame follows
  them in it: what is returned before the error depends on the cuts.
* `encode` refuses arguments that the annotations of a convenience method allow
  (`set_binary_setting` of the jukebox, `PRIORITIZE` without a region, numbers out of range), after the attempt is on record and before anything is sent.
* A cancellation of `aclose()` while it closes its subscriptions is collected, and
  the loop goes on; one while it gathers its pumps leaves it at once.
* `record_telemetry` raises `StopAsyncIteration` and writes no manifest when every
  stream ends before the duration is over.
* An interrupt between the `os.open` of an image and the `try` after it leaves a
  torn file, and one after `os.link` makes `export_ply` fail with the whole export
  in place. These are deaths in `PrivateFiles`, and its handler at `unlink`.
* `save_mosaics` and `save_embedded_webps` refuse files that exist, so a rerun
  into the directory of an earlier attempt always fails.
* Some requests can be made in two ways, and `Intent` makes one of the two: the
  removal of zones tells an identifier by its compact number only; a map's new name may stand in the command
  or in its change set; the days of a schedule are a set; a pass that only mops has
  no use for the vacuum setting; and a reprioritization asks for the plan it results
  in.

### Fairness

`H2Transport!FairSpec`: the event loop resumes a task whose await is over, a
drain ends, and `asyncio.Lock` serves its waiters in order; hence strong
fairness for each task's own steps, which other tasks disable while they hold
the lock. The robot, the link, the beginning of a call and its failure are not
fair. A unary call runs under `asyncio.timeout`, so its interruption is weakly
fair; a collection has no deadline, and nothing is claimed about its end. That
a drain ends is the environment's part, nothing in the code bounds it.

`Telemetry!FairSpec`: weak fairness for the consumer, for `aclose()` and for a
pump whose next step is its own. A pump that reads gets no fairness (the robot
may be silent for ever), and neither does one whose subscription was closed
under it, because of `h2_pending`. `ClosingWakesConsumer` excludes a pump
cancelled before it ever ran: it puts no mark in the queue, and a consumer that
waits then stays there unless it has a deadline of its own.

## What is proved

The proofs hold for any number of calls, commands, collections or programs, any
sizes and bounds. They assume only what the modules' ASSUMEs say of the
constants. Each of them shows an inductive invariant first: that it holds at the
start, that each action keeps each of its parts, and that the property follows.

**`H2TransportProofs`.** Three invariants, and a refinement. `IInv` is about the table and the tasks,
and gives `TypeOK`, `ShutdownClearsStreams`, `ReaderNotOrphaned`,
`OnlySettingsAreSleptThrough`, `FailureIsLocal` and the action property
`QuietAfterShutdown`. It adds `SenderHasData` (a caller that is about to write
has something to write, else `todo` would leave the naturals);
`RegisteredIsLive` (a registered stream has not ended, so `_fail_all` reaches
it; a call that has not begun is not in the table); `StreamIsTracked`
(`ReaderNotOrphaned` from the moment of registration, which a reader inherits
when it begins to wait); `ResetIsCancelled` (whoever resets has set
`_locally_cancelled`, which accounts for the one exception). A lemma per group
of actions (callers, cancellers, reader, dispatch, close, robot) shows that each
part is preserved.

`LifeIInv` follows the messages, and gives `SuccessIsComplete` and
`FinishedCallIsForgotten`. What the robot has sent and the reader has not
dispatched is one sequence, `Flight`: the batch, then the socket
(`BatchIsTaken`: a batch is taken only when the last one is empty). A response
that has ended has nothing behind its end, in flight (`FlightIsInOrder`) or
queued (`QueueIsInOrder`: an end that is queued is the robot's, and nothing of
the stream is in flight any more). `Accounted` is the sum: while a call goes on
that nothing has cut short, the messages handed over, queued and in flight are
together those the robot has served. So whoever takes an end with status 0 off
the queue finds the last two to be none. `RequestIsSent` gives the rest of
`SuccessIsComplete`; `NothingBefore`, `EndIsOut` and `SuccessIsOver` say when a
call has left no trace yet, when its stream is out of the table, and that
nothing happens after a success. `CancelIsFollowed` is what
`FinishedCallIsForgotten` needs: a stream that is cancelled and registered has
somebody who is to reset it, or who was stopped doing so. The lemmas reduce a
step of the connection to one of six effects (a message delivered, dropped, sent,
all cut, a mark, nothing), so that each part is shown for six cases instead of
twenty actions.

`Spec => ImplementsCalls` is the refinement of `GrpcCalls`. Each step of the
connection maps to one step of one call or to none: a batch, a shutdown or a
lost link changes the queues of many calls and tells nobody anything yet. What
the mapping lacks is in `CallsIInv`, the third invariant: `CallsAreInOrder` (a
caller whose outcome is set only clears up after itself, and one that goes on
has a stream that the robot knows and that nobody has cancelled or stopped
unless somebody shares it) and
`NothingInvented`, which bounds the messages handed over, queued and in flight
by those the robot has sent even for a call that was cut short, where
`Accounted` says nothing. The lemmas `CallerImplements` and `PeerImplements`
take the callers' steps and the robot's; the verdict of `TakeEnd` is the hard
one, and takes its truth from `SuccessIsComplete`'s invariant.

**`ClientProofs`, of `CommandExecutor`.** `TypeOK`, `AttemptOnRecord`, `LogIsConsistent`, and
`Spec => ImplementsDelivery`. `IInv` adds `CallsAreInOrder` (an error outcome
implies that nothing was sent; an acknowledgement that the robot has received),
`SendersAreOnRecord` and `NoEarlyLastWord`. Each executor action maps to one
action of `CommandDelivery` or to a stutter.

**`TelemetryProofs`.** `TypeOK`, `ClosedSessionIsClean`, `ExhaustedIsComplete`
and `FailureSurfaces`, for any number of collections and events. The end of a
session is recognised by counting, so the invariant counts: `MarksAreCounted`
(the end marks taken and queued are the pumps that are over), `EventsAreCounted`
(the events delivered, queued and in a pump's hand are those received) and
`MarkIsLast` (when all pumps are over, the last thing in the queue is a mark, so
an error cannot be behind it) make `EndIsTheEnd`. `OpenedInOrder`, `ClosedByWhom`
and `ClosingGoesOn` follow whoever closes until the session is clean.

**`ClientProofs`, of `CoverageSnapshot`.** `SnapshotTypeOK` and `InactiveMeansIdle`, for
any sessions, missions and plans. `KeyTellsSession`, `IdleIsNoticed` and
`NoneIsNoticed` say that a key which is withdrawn, retained or on its way, means a
robot that was idle during the call.

**`ExportsProofs`.** Of `PrivateFiles`: `PlyIsAtomic`, `SuccessIsFinal`,
`FailureLeavesNoDebris` and `ManifestTellsAll`, for any number of programs on the
same paths. `FilesIInv` says for each program what it has in hand at each of its
system calls (`SavedIsWhole`, `ImageInHand`, `TornIsInHand`, `PlyInHand`,
`EventsInHand`, `ManifestInHand`), that every file is some program's
(`Authored`) and that `mkdir` leaves one recorder (`OneRecorder`). A frame lemma
says which files a step of one program can touch, so what another has in hand is
kept.

Of `Exports`: `TilesAreAsApplied`, for any keys, places and messages: what is held was
applied last (`HeldWasTold`), what was told last is held unless it was not applied
(`ToldIsHeld`), and the indices have the order of the messages (`IndicesTellTime`), by which of
two aliases the later one is shown. And `Spec => FilesSpec`: the programs that
read and export implement `PrivateFiles`, so its theorems hold of them.

**`GrpcFramingProofs`.** `TypeOK`, `BufferIsBounded`, `CutDoesNotMatter` and
`VerdictIsTheStreams`, for every set of scripts, messages of any bytes and any
cuts. For the bound, the length test comes before the wait for the body. For the
other two, `StreamInv` says that at each turn of the loop the decoder stands at
the beginning of a frame (`AtSomeFrame`: what was returned are the first n
messages of the script, and the buffer and what has not arrived yet are what
follows them) and that what the loop is about to do fits what the buffer holds
(`StateTellsBuffer`). It rests on arithmetic (`FourBytes` and the length read
from them are inverse below 2^32) and on lemmas about prefixes: a buffer that
begins with a whole frame decides the same whatever comes behind it. The
induction over the messages is over a set of naturals (`EveryNumber`), which
needs no operator parameter. `EveryStreamHasAScript` justifies the shape of
`Scripts`: every sequence of bytes is some script's stream, so the theorems are
about whatever a robot sends.

**`ReprioritizationProofs`, `RequestProofs`.** All seven properties of the run `commands`.
The modules go from bytes to behaviours, twice: from what the robot writes to what is read of
it, for `CutPlanIsInert`, `SnapshotIsThePlan`, `GoalsSurvive` and
`SelectedGoesFirst`, for every set of plans that `coverage.py` takes (up to 10000
goals of one partition, with any identifiers and any settings); and from what a
caller asks for to what is written, for `RequestTellsIntent`, `EveryCallHasACodec` and `SnapshotIsServed`, for any numbers, texts, identifiers, partitions, offsets and lists of regions and
circles.

Of what is read, in `ReprioritizationProofs`:

* Bytes. The recursive functions that write and read varints and fields are each
  shown to have one solution and to be inverse on what the codecs and the robot
  write. The heart is `RestIsParsed`: behind any fields already read, a message
  that may end early is parsed as the fields that are whole, or refused, and a
  varint or a slice that the end falls into is never taken for a shorter one. From
  it `MessageParsed` (a whole message) and `CutParsed` (any proper part of one).
* Messages. `Holds` and `Omits` say what a message holds without saying where, so
  that concatenating messages (`Beside`) needs no counting. By them each message is
  read back: identifiers in the SDK's and in both of the firmware's forms, a goal's
  settings and its place, a list of goals, the plan, the session and the request
  (`SnapshotRead`, `DeliveredRead`). A message that is cut short lacks its last
  field, and the decoders ask for the last field of both (`PlansAreCutSafely`).
* Order. `Inside` and `Outside` split a plan, `Prioritized` moves one part behind
  the last goal of the selected region (`MovesBehind`), and what comes of a plan is
  a plan or empty (`TransformedIsPlan`).
* Behaviours. `IInv`: the robot's plan is one that the decoders take, or none
  (`PlanKept`); a snapshot is of such a plan (`SnapshotKept`); a command made from
  one carries its goals, its mission and its session (`CommandKept`); and a request
  is what the codec makes of its command (`RequestKept`). None of the four
  properties is inductive by itself, since each snapshot is read from a plan that
  an earlier request left there.

Of what is asked for, all by injectivity, since every codec writes by concatenation
and the danger is that two fields, two options or two lists run into each other. The
bytes and the payloads of motion and of coverages are the last two sections of
`ReprioritizationProofs`, the rest is `RequestProofs`:

* Bytes. `Words` are what is written, and a field of a known wire type ends where its
  bytes say (`ChunkCancel`), so a message is told apart field by field when its fields
  are in the order of their numbers, left out or not (`Items`, `Parts`, `Past`,
  `Split3` to `Split5`), and a list of fields item by item (`Telling`, `ListTells`,
  `NumeralsTell` for the packed one). Each encoder of `ProtoWire` tells its value, the
  zero that proto3 leaves out included; a negative offset is ten groups, which no
  number below 2^35 takes (`NegativesTell`, `ShortNumber`).
* Payloads. For each codec a lemma `...Tells`: two commands of its model with the
  arguments that the codec asks for (`ExactUser`, `ExactMaps`, ...) and equal payloads
  ask for the same. The goals of a coverage are the specs times the targets in one
  list; the first and the ninth place tell the mode and the settings, and with them
  how many specs there are and so the targets (`GridTells`).
* The table. `Fits` gives the target and the payload on record of each model and
  action, `TableIs` shows every `CommandSpec` to fit, and `TargetTellsModel` that a
  target tells the model, but for `user_command`, which six models share. The
  payloads of those have different field numbers on the way in (`Route`,
  `UserDoorsApart`, `DoorsApart`), so they tell the model too (`UserTargetTells`).
  Hence `RequestsTell`.
* Arguments. A command that its codec accepts is one of those above, whatever was
  tried: `Whole` (`...Arguments`, `CommandsWhole`). And a command that a convenience
  method builds has a row, whatever the method was called with: `Known` (`HasRow`,
  `...CallsKnown`). A reprioritization made of a snapshot is also accepted, unless it
  names no region to prioritize: `Returnable` (`ReprioritizationsServed`).
* Behaviours. `HandKept`, a second inductive invariant on top of `IInv`: what is
  built is one of the commands that can be tried or is whole, as the one made from a
  snapshot is; what has been encoded is known and whole; what a method built is
  known, and what was made of a snapshot is returnable. `RequestTellsIntent` compares the command in hand with all that could have
  been sent, so it needs of both that they are whole.

The inductions over lists and numbers are over sets of them (`EveryNumber`,
`EverySequence`, `FromSmaller`), which need no operator parameter. Assumed are,
of the plans, that each is one of those (`PlansAssumption`), of the arguments what
`ArgumentsAssumption` says of them, and of the marks `None`, `Junk` and
`Malformed` that they are no bytes, fields, goals or snapshots
(`MarksAssumption`, `MalformedAssumption`, `SnapshotsAssumption`), and no names or
edits (`NamesAssumption`, `EditsAssumption`), as Python's `None` and an exception are
not.

**`EnrollmentProofs`.** `TypeOK`, `OneIdentity`, `EnrolledIsUsable` and
`NeverOverwritten`, for any number of processes. `IInv` adds `IdentityIsFiled`
(an identity in memory is the one in the file), `WriterIsAlone` (`O_EXCL` leaves
one writer per file, on a file that is not whole), `TokensAreForTheFile` and
`StillSilent`.

**Model-checked only.** Liveness and everything that rests on fairness
(`CallsFinish`, `CloseTerminates`, `ClosingWakesConsumer`, `ClosingEnds`): TLAPS does
not handle ENABLED. Every other property of the passing runs has a theorem.

## What is not modelled, and why

* `connect()`, TLS and configuration are checks made once before anything runs;
  `CommandExecutor` keeps their result as `tls`.
* The client facade's `probe` and `first`, and its own list of subscriptions: a
  subscription that `client.subscribe()` adds while `close()` runs is not covered
  by any property.
* Discovery is one request to a system service.
* The macOS helper parses arguments, over components modelled here; so does the
  command line, but for its commands that read captures and export or record,
  which are in `Exports`.
* The decoding of collection payloads into dataclasses keeps no state;
  `CoverageSnapshot`, `CoverageCodecs`, `CollectionState` and `Telemetry` keep what
  matters of it. Pixels, voxels and the search for images in a capture are
  abstracted.
* The remote portal is a set of codecs without a connection, behind a gate that
  refuses.
* `grpc_status` and `GrpcResponse` appear only as the verdict with which a stream
  of `H2Transport` ends.
* Integers above 64 bits, which ten groups of a varint can spell, are beyond TLC's
  integers.

## What is left

In this order:

1. `Client`: connect, subscribe, probe, first and close over an abstract
   transport, and the subscriptions it keeps; then composed with `Telemetry`.
2. `grpc_status` and `GrpcResponse`, between `GrpcFraming` and `H2Transport`.
3. The gate of the remote portal.
