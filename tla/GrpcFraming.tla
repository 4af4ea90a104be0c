---------------------------- MODULE GrpcFraming ----------------------------
(***************************************************************************)
(* matic_sdk/protocol/grpc.py: frame_message and GrpcFrameDecoder.  The    *)
(* messages of a response arrive as DATA frames cut at arbitrary places;   *)
(* the decoder is fed one DATA frame after another, and finish() is called *)
(* at the end of the stream.  One turn of feed()'s loop is one action.     *)
(***************************************************************************)
EXTENDS Integers, Sequences, SequencesExt

CONSTANTS
    MaxMessage,   (* GrpcFrameDecoder.max_message_bytes                     *)
    Scripts       (* what the robot may send: framed messages, then a tail  *)

Byte == 0..255
Header == 5

VARIABLES
    script,     \* what this robot sends
    fed,        \* bytes of it the decoder has been given
    buffer,     \* GrpcFrameDecoder._buffer
    messages,   \* the list feed() is building
    delivered,  \* what its calls have returned
    state       \* waiting, feeding, or how it ended

vars == <<script, fed, buffer, messages, delivered, state>>

\* struct.pack(">I", n) and struct.unpack(">I", b[1:5]).
BigEndian(n) ==
    LET q == n \div 256  r == q \div 256  t == r \div 256
    IN  <<t % 256, r % 256, q % 256, n % 256>>
FitsFourBytes(n) == ((n \div 256) \div 256) \div 256 \in Byte
Length(b) == ((b[2] * 256 + b[3]) * 256 + b[4]) * 256 + b[5]

\* frame_message
Frame(payload) == <<0>> \o BigEndian(Len(payload)) \o payload

Wire(s) == FlattenSeq([i \in 1..Len(s.messages) |-> Frame(s.messages[i])]) \o s.tail

ASSUME MaxMessageAssumption == MaxMessage \in Nat \ {0}

\* The script of a stream of bytes: every frame the decoder can take from its
\* front is one of the messages, and its length fits the four bytes that
\* frame_message gives it; the tail is what no further frame begins.
BeginsWithFrame(b) ==
    /\ Len(b) >= Header /\ b[1] = 0
    /\ Length(b) <= MaxMessage /\ Len(b) >= Length(b) + Header
IsScript(s) ==
    /\ s.messages \in Seq(Seq(Byte)) /\ s.tail \in Seq(Byte)
    /\ \A i \in 1..Len(s.messages) :
         Len(s.messages[i]) <= MaxMessage /\ FitsFourBytes(Len(s.messages[i]))
    /\ ~BeginsWithFrame(s.tail)
ASSUME ScriptsAssumption == \A s \in Scripts : IsScript(s)

Init ==
    /\ script \in Scripts
    /\ fed = 0
    /\ buffer = <<>>
    /\ messages = <<>>
    /\ delivered = <<>>
    /\ state = "waiting"
------------------------------------------------------------------------------
\* Mutant: a DATA frame replaces what an earlier one has left.
FeedAfresh(n) ==
    /\ state = "waiting" /\ fed + n <= Len(Wire(script))
    /\ buffer' = SubSeq(Wire(script), fed + 1, fed + n)
    /\ fed' = fed + n
    /\ messages' = <<>>
    /\ state' = "feeding"
    /\ UNCHANGED <<script, delivered>>

\* feed() is called with the next n bytes.
Feed(n) ==
    /\ state = "waiting" /\ fed + n <= Len(Wire(script))
    /\ buffer' = buffer \o SubSeq(Wire(script), fed + 1, fed + n)
    /\ fed' = fed + n
    /\ messages' = <<>>
    /\ state' = "feeding"
    /\ UNCHANGED <<script, delivered>>

HasHeader == Len(buffer) >= Header
Compressed == buffer[1] # 0
HasBody == Len(buffer) >= Length(buffer) + Header
\* Mutant: a message is waited for before its length is judged.
TooLongOnceWhole == HasBody /\ Length(buffer) > MaxMessage
TooLong == Length(buffer) > MaxMessage
NeedsMore == HasHeader => ~Compressed /\ ~TooLong /\ ~HasBody

\* The call raises: what it has decoded itself is lost with its local list.
Reject ==
    /\ state = "feeding" /\ HasHeader
    /\ Compressed \/ TooLong
    /\ state' = "failed"
    /\ UNCHANGED <<script, fed, buffer, messages, delivered>>

Decode ==
    /\ state = "feeding" /\ HasHeader /\ ~Compressed /\ ~TooLong /\ HasBody
    /\ messages' = Append(messages, SubSeq(buffer, Header + 1, Length(buffer) + Header))
    /\ buffer' = SubSeq(buffer, Length(buffer) + Header + 1, Len(buffer))
    /\ UNCHANGED <<script, fed, delivered, state>>

\* No whole frame is left.
Return ==
    /\ state = "feeding"
    /\ NeedsMore
    /\ delivered' = delivered \o messages
    /\ state' = "waiting"
    /\ UNCHANGED <<script, fed, buffer, messages>>

\* Mutant: finish() does not look at the buffer.
FinishAnyway ==
    /\ state = "waiting" /\ fed = Len(Wire(script))
    /\ state' = "finished"
    /\ UNCHANGED <<script, fed, buffer, messages, delivered>>

Finish ==
    /\ state = "waiting" /\ fed = Len(Wire(script))
    /\ state' = IF buffer = <<>> THEN "finished" ELSE "truncated"
    /\ UNCHANGED <<script, fed, buffer, messages, delivered>>
------------------------------------------------------------------------------
Over == state \in {"failed", "finished", "truncated"} /\ UNCHANGED vars

Next ==
    \/ \E n \in 1..(Len(Wire(script)) - fed) : Feed(n)
    \/ Reject \/ Decode \/ Return \/ Finish \/ Over

Spec == Init /\ [][Next]_vars
------------------------------------------------------------------------------
(* Properties.                                                              *)

\* Types of the variables: no message is longer than max_message_bytes.
Message == {m \in Seq(Byte) : Len(m) <= MaxMessage}
TypeOK ==
    /\ script \in Scripts
    /\ fed \in Nat
    /\ buffer \in Seq(Byte)
    /\ messages \in Seq(Message) /\ delivered \in Seq(Message)
    /\ state \in {"waiting", "feeding", "failed", "finished", "truncated"}

\* What the decoder holds between two calls is less than one longest frame: a
\* length that is too long is refused before its message is waited for.
BufferIsBounded == state = "waiting" => Len(buffer) < Header + MaxMessage

\* The messages whose frames lie within the first n bytes, and no other, have
\* been returned, in order, wherever the stream was cut.
WholeWithin(n) ==
    {k \in 0..Len(script.messages) :
        Len(FlattenSeq([i \in 1..k |-> Frame(script.messages[i])])) <= n}
CutDoesNotMatter ==
    state = "waiting" =>
        \E k \in WholeWithin(fed) :
            /\ k + 1 \notin WholeWithin(fed)
            /\ delivered = SubSeq(script.messages, 1, k)

\* The stream is judged by how it ends: all messages when it ends with the last
\* frame, truncated within a frame, failed for a tail that is no frame; what
\* was returned before a failure is still a prefix of the messages.
IsPartial(tail) ==
    /\ tail # <<>>
    /\ Len(tail) < Header \/ (tail[1] = 0 /\ Length(tail) <= MaxMessage)
VerdictIsTheStreams ==
    /\ state = "finished" => script.tail = <<>> /\ delivered = script.messages
    /\ state = "truncated" => IsPartial(script.tail) /\ delivered = script.messages
    /\ state = "failed" =>
         /\ script.tail # <<>> /\ ~IsPartial(script.tail)
         /\ IsPrefix(delivered \o messages, script.messages)
==============================================================================
