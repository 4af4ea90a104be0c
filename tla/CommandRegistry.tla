--------------------------- MODULE CommandRegistry ---------------------------
(***************************************************************************)
(* From an intent to a request.                                            *)
(*                                                                         *)
(* A caller builds one command, by a convenience method of                 *)
(* matic_sdk/commands.py or as a model of its own (the dataclasses check   *)
(* nothing); CommandRegistry.encode of matic_sdk/protocol/commands.py      *)
(* returns a request or raises.                                            *)
(***************************************************************************)
EXTENDS CommandApi

CONSTANT Versions    \* protocol versions the executor may be configured with

VARIABLES
    version,    \* the executor's protocol_version
    command,    \* the command in hand, or None
    called,     \* it comes from a convenience method
    outcome,    \* "idle", "built", or how encode() ended
    request     \* the EncodedCommand, or None

registryVars == <<version, command, called, outcome, request>>

RegistryInit ==
    /\ version \in Versions
    /\ command = None /\ called = FALSE
    /\ outcome = "idle" /\ request = None

\* ensure_protocol_compatible: any positive integer, 25 or not.
Compatible == Valid(version) /\ version >= 1

\* COMMAND_SPECS by key; CommandRegistry refuses a table with a key twice.
Keys == {r.key : r \in CommandSpecs}
SpecFor(key) == CHOOSE r \in CommandSpecs : r.key = key

Known(c) == CommandKey(c) \in Keys /\ SpecFor(CommandKey(c)).model = c.type
Request(c) == [target |-> SpecFor(CommandKey(c)).target, payload |-> Payload(c)]
OnRecord(c) == SpecFor(CommandKey(c)).payload \in {None, Payload(c)}
------------------------------------------------------------------------------
Build(c, byMethod) ==
    /\ command' = c /\ called' = byMethod
    /\ outcome' = "built" /\ request' = None
    /\ UNCHANGED version
Construct == outcome = "idle" /\ \E c \in Commands : Build(c, FALSE)
Call == outcome = "idle" /\ \E c \in Calls : Build(c, TRUE)

\* CommandRegistry.encode, in the order of its checks.
Raise(error) ==
    /\ outcome' = error
    /\ UNCHANGED <<version, command, called, request>>

RefuseVersion ==
    /\ outcome = "built"
    /\ ~Compatible
    /\ Raise("UnsupportedProtocolVersion")
RefuseUnknown ==
    /\ outcome = "built"
    /\ Compatible /\ ~Known(command)
    /\ Raise("UnknownCommand")
RefuseArguments ==
    /\ outcome = "built"
    /\ Compatible /\ Known(command)
    /\ ~(Accepts(command) /\ OnRecord(command))
    /\ Raise("ValueError")
Encode ==
    /\ outcome = "built"
    /\ Compatible /\ Known(command)
    /\ Accepts(command) /\ OnRecord(command)
    /\ request' = Request(command)
    /\ outcome' = "encoded"
    /\ UNCHANGED <<version, command, called>>

Registry == RefuseVersion \/ RefuseUnknown \/ RefuseArguments \/ Encode
------------------------------------------------------------------------------
(* What a request must tell apart.                                          *)

\* Weekdays are a set, and mopping has no vacuum setting.
NormalEvent(e) ==
    [e EXCEPT !.weekdays = {e.weekdays[i] : i \in DOMAIN e.weekdays},
              !.vacuum_setting = IF e.cleaning_mode = "mop" THEN None ELSE @]

\* Where the models say one thing in several ways: an integer or a UUID names a
\* zone, a map's name has two places, weekdays are a set, mopping has no vacuum
\* setting, and a reprioritization is the plan that comes of it.
Intent(c) ==
    CASE c.type = "MapEnvironmentCommand" /\ Edits(c, {"RemoveZones"}) ->
            [c EXCEPT !.change = [i \in DOMAIN c.change.region_ids |->
                                    CompactZone(c.change.region_ids[i])]]
      [] c.type = "MapEnvironmentCommand" /\ c.action = "rename" ->
            [type |-> c.type, mission |-> c.mission_id,
             name |-> IF c.name # None THEN c.name ELSE c.change_set.name]
      [] c.type = "ScheduleCommand" /\ Valid(c.event) ->
            [c EXCEPT !.event = NormalEvent(@)]
      [] c.type = "ReprioritizeCoverageCommand" ->
            [type |-> c.type, mission |-> c.mission_id,
             session |-> c.current_session_id, plan |-> Transformed(c),
             ordered |-> Transformed(c) # <<>> /\ c.ordered = "True"]
      [] OTHER -> c

Sent == {[request |-> Request(c), by |-> c] :
            c \in {served \in Commands : Known(served) /\ Accepts(served)}}

\* The same edit of a no-go and of a drive-only zone, which have one codec.
ZonesOfNoGoCommand == {"edit_no_go_zone", "edit_drive_only_zone"}
AlikeButForZone(c, d) ==
    /\ c.type = "MapEnvironmentCommand" /\ d.type = "MapEnvironmentCommand"
    /\ {c.action, d.action} = ZonesOfNoGoCommand
    /\ Intent([c EXCEPT !.action = d.action]) = Intent(d)

\* Two commands that encode() turns into the same request ask for the same: an
\* option that a codec ignores "cannot silently change the requested job"
\* (models/control.py, CoverageCommand), and no argument is lost, defaulted or
\* swapped with another on its way into the payload (_Verified*Codec.encode).
\* The one exception is named: docs/command-verification.md lists the editing of
\* no-go zones and of drive-only zones as two commands, and both are sent as one.
RequestTellsIntent ==
    outcome = "encoded" =>
        \A s \in Sent : s.request = request =>
            Intent(s.by) = Intent(command) \/ AlikeButForZone(s.by, command)

\* A convenience method never builds a command without a codec, whatever it is
\* called with (commands.py against COMMAND_SPECS): encode() may refuse its
\* arguments, but it knows the command.
EveryCallHasACodec == called => outcome # "UnknownCommand"
=============================================================================
