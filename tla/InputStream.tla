----------------------------- MODULE InputStream -----------------------------
(***************************************************************************)
(* One input channel in bytes: the client's frames (src/bin/client.rs),    *)
(* the daemon's relay (src/protocol.rs) that checks each event and writes  *)
(* it to the agent's Unix socket, and the agent's reader                   *)
(* (src/bin/input_agent.rs) that finds the events again in what arrives.   *)
(* The layout of events is src/transport.rs.  InputAgent takes up where    *)
(* this module ends: what the agent does with an event.                    *)
(***************************************************************************)
EXTENDS Integers, Sequences

CONSTANTS
    Sendable,      \* frames that clients send
    Sockets,       \* sockets to look at: whether one takes a small buffer whole
                   \* or not at all, as Linux does, or may take a part of it
    PipeLimit,     \* bytes that fit into the socket
    Chunk,         \* bytes that the agent reads at a time
    PendingLimit,  \* bytes that the agent holds undecoded
    MaxFrames      \* bound: frames a client sends

-----------------------------------------------------------------------------
(* transport.rs: the bytes of an event.                                    *)

MaxEvdevCode   == 767
PointerButtons == 272..279
MaxEncodedLen  == 5

Half  == 32768
Byte  == 0..255
Int16 == -Half..(Half - 1)

InputEvent ==
         [op : {"key"}, code : 1..MaxEvdevCode, pressed : BOOLEAN]
    \cup [op : {"button"}, code : PointerButtons, pressed : BOOLEAN]
    \cup [op : {"motion", "scroll"}, x : Int16, y : Int16]
    \cup {[op |-> "reset"]}

Reset   == [op |-> "reset"]
Invalid == [op |-> "invalid"]

(* Two bytes, high one first; a negative number as its two's complement.   *)
High(n)        == (n % 65536) \div 256
Low(n)         == n % 256
Unsigned(h, l) == 256 * h + l
Signed(h, l)   == IF h < 128 THEN Unsigned(h, l) ELSE Unsigned(h, l) - 65536

Encode(event) ==
    CASE event.op = "key"    -> <<1, IF event.pressed THEN 1 ELSE 0, High(event.code), Low(event.code)>>
      [] event.op = "motion" -> <<2, High(event.x), Low(event.x), High(event.y), Low(event.y)>>
      [] event.op = "button" -> <<3, IF event.pressed THEN 1 ELSE 0, High(event.code), Low(event.code)>>
      [] event.op = "scroll" -> <<4, High(event.x), Low(event.x), High(event.y), Low(event.y)>>
      [] event.op = "reset"  -> <<5>>

(* encoded_len_for_tag; 0 for a tag that no event has.                     *)
EncodedLen(tag) == CASE tag \in {1, 3} -> 4
                     [] tag \in {2, 4} -> 5
                     [] tag = 5        -> 1
                     [] OTHER          -> 0

(* decode: the bytes of one event and nothing else.                        *)
Decode(bytes) ==
    IF bytes = <<>> \/ Len(bytes) # EncodedLen(bytes[1]) THEN Invalid
    ELSE CASE bytes[1] \in {1, 3} ->
                LET code == Unsigned(bytes[3], bytes[4])
                    op   == IF bytes[1] = 1 THEN "key" ELSE "button"
                IN  IF /\ bytes[2] \in {0, 1}
                       /\ code \in IF op = "key" THEN 1..MaxEvdevCode ELSE PointerButtons
                    THEN [op |-> op, code |-> code, pressed |-> bytes[2] = 1]
                    ELSE Invalid
           [] bytes[1] \in {2, 4} ->
                [op |-> IF bytes[1] = 2 THEN "motion" ELSE "scroll",
                 x |-> Signed(bytes[2], bytes[3]), y |-> Signed(bytes[4], bytes[5])]
           [] bytes[1] = 5 -> Reset

(* A frame as read_from_with_limit sees it: a header that is refused       *)
(* (magic, version, kind), of the input kind or of another, and as much of *)
(* the payload it declares as arrived.                                     *)
Frame == [header : {"refused", "input", "other"}, length : Nat, payload : Seq(Byte)]

Framed(event) ==
    [header |-> "input", length |-> Len(Encode(event)), payload |-> Encode(event)]

Whole(frame) == Len(frame.payload) = frame.length

ASSUME FrameAssumption == \A frame \in Sendable : frame \in Frame /\ Whole(frame)
ASSUME SocketAssumption == Sockets \subseteq BOOLEAN
ASSUME LimitAssumption ==
    /\ {PipeLimit, Chunk} \subseteq Nat \ {0}
    /\ {PendingLimit, MaxFrames} \subseteq Nat

-----------------------------------------------------------------------------
VARIABLES
    whole,    \* the socket takes what it is given whole
    client,   \* sending, silent with its connection open, or gone
    net,      \* frames on their way to the daemon
    frames,   \* how many were sent
    pc,       \* the relay: reading a frame, writing an event or the closing
              \* reset, done, or closed
    left,     \* what write_all has not written
    written,  \* the bytes that the socket was given, from the first on;
    ends,     \* history: where among them each event of the client ends
    taken,    \* how many of them the agent has read,
    parsed,   \* and how many of those it has decoded
    agent,    \* the agent's reader, or how it ended
    batch,    \* events that receive has decoded and not returned
    played,   \* history: events that receive has returned
    sent      \* history: events in the frames sent

sender == <<client, net, frames, sent>>
relay  == <<pc, left, written, ends>>
reader == <<taken, parsed, agent, batch, played>>
vars   == <<whole, sender, relay, reader>>

Reading == agent \in {"reading", "decoding"}

-----------------------------------------------------------------------------
(* The client.  The reference client sends its events, a reset, and hangs  *)
(* up; any other may send any frames, stop in the middle of one, or stop   *)
(* and stay.                                                               *)

SendFrame(frame) ==
    /\ client = "sending" /\ frames < MaxFrames
    /\ net' = Append(net, frame)
    /\ frames' = frames + 1
    /\ sent' = IF frame.header = "input" /\ Decode(frame.payload) # Invalid
               THEN Append(sent, Decode(frame.payload)) ELSE sent
    /\ UNCHANGED <<whole, client, relay, reader>>

(* The end of what the client sends, in order or in the middle of a frame. *)
Stop ==
    /\ client = "sending"
    /\ client' \in {"silent", "gone"}
    /\ \/ net' = net
       \/ \E frame \in Sendable :
              /\ frame.length > 0 /\ frames < MaxFrames
              /\ net' = Append(net, [frame EXCEPT !.payload = <<>>])
    /\ UNCHANGED <<whole, frames, sent, relay, reader>>

-----------------------------------------------------------------------------
(* The daemon: forward_input_frames.                                       *)

(* The header of the next frame, and then its payload, are such that the   *)
(* loop ends.                                                              *)
Rejected(frame) ==
    \/ frame.header = "refused" \/ frame.length > MaxEncodedLen
    \/ Whole(frame) /\ (frame.header = "other" \/ Decode(frame.payload) = Invalid)

Accepted(frame) == Whole(frame) /\ ~Rejected(frame)

(* Mutant of ReadFrame: the payload is forwarded as it came.               *)
ReadFrameRaw ==
    /\ pc = "read" /\ net # <<>>
    /\ Whole(Head(net)) /\ Head(net).header = "input" /\ Head(net).length \in 1..MaxEncodedLen
    /\ left' = Head(net).payload
    /\ pc' = "write" /\ net' = Tail(net)
    /\ UNCHANGED <<whole, client, frames, sent, written, ends, reader>>

(* The next event, decoded and encoded again.                              *)
ReadFrame ==
    /\ pc = "read" /\ net # <<>> /\ Accepted(Head(net))
    /\ left' = Encode(Decode(Head(net).payload))
    /\ pc' = "write" /\ net' = Tail(net)
    /\ UNCHANGED <<whole, client, frames, sent, written, ends, reader>>

(* Mutant of EndRead: without a read timeout.                              *)
EndReadAtEof ==
    /\ pc = "read"
    /\ IF net = <<>> THEN client = "gone"
       ELSE Rejected(Head(net)) \/ (~Whole(Head(net)) /\ client = "gone")
    /\ pc' = "reset" /\ left' = Encode(Reset)
    /\ UNCHANGED <<whole, sender, written, ends, reader>>

(* A frame that is refused; or no whole frame is there, and none will come *)
(* or none does for fifteen seconds.                                       *)
EndRead ==
    /\ pc = "read"
    /\ net # <<>> => ~Accepted(Head(net))
    /\ pc' = "reset" /\ left' = Encode(Reset)
    /\ UNCHANGED <<whole, sender, written, ends, reader>>

(* Bytes of `left' that the socket may take now.                           *)
Takes(n) ==
    /\ Reading
    /\ n \in 1..Len(left) /\ Len(written) - taken + n <= PipeLimit
    /\ whole => n = Len(left)

(* One turn of write_all; after the last of an event comes the next frame, *)
(* and after the last of the closing reset the end.                        *)
Write ==
    /\ pc \in {"write", "reset"}
    /\ \E n \in 1..Len(left) :
           /\ Takes(n)
           /\ written' = written \o SubSeq(left, 1, n)
           /\ left' = SubSeq(left, n + 1, Len(left))
           /\ pc' = IF n < Len(left) THEN pc ELSE IF pc = "write" THEN "read" ELSE "done"
           /\ ends' = IF pc' = "read" THEN Append(ends, Len(written')) ELSE ends
    /\ UNCHANGED <<whole, sender, reader>>

(* Mutant of WriteFails: an event that cannot be written is skipped.       *)
WriteFailsAndGoesOn ==
    /\ pc \in {"write", "reset"}
    /\ \A n \in 1..Len(left) : ~Takes(n)
    /\ pc' = IF pc = "write" /\ Reading THEN "read" ELSE "done"
    /\ left' = <<>>
    /\ UNCHANGED <<whole, sender, written, ends, reader>>

(* Five seconds in which the socket takes nothing, or a reader that is     *)
(* gone: the reset is tried, and whether it fails is all one.              *)
WriteFails ==
    /\ pc \in {"write", "reset"}
    /\ \A n \in 1..Len(left) : ~Takes(n)
    /\ \/ pc = "write" /\ pc' = "reset" /\ left' = Encode(Reset)
       \/ pc = "reset" /\ pc' = "done" /\ left' = <<>>
    /\ UNCHANGED <<whole, sender, written, ends, reader>>

(* The relay's socket is closed.                                           *)
Drop ==
    /\ pc = "done"
    /\ pc' = "closed"
    /\ UNCHANGED <<whole, sender, left, written, ends, reader>>

(* The daemon's process ends at any point.                                 *)
DaemonDies ==
    /\ pc # "closed"
    /\ pc' = "closed" /\ left' = <<>>
    /\ UNCHANGED <<whole, sender, written, ends, reader>>

-----------------------------------------------------------------------------
(* The agent: InputClient::receive, again and again.                       *)

Least(m, n) == IF m < n THEN m ELSE n

(* Mutant of ReadChunk: the buffer counts as filled.                       *)
ReadChunkFull ==
    /\ agent = "reading" /\ taken < Len(written)
    /\ taken' = taken + Chunk
    /\ agent' = IF taken' - parsed > PendingLimit THEN "full" ELSE agent
    /\ UNCHANGED <<whole, sender, relay, parsed, batch, played>>

ReadChunk ==
    /\ agent = "reading" /\ taken < Len(written)
    /\ taken' = Least(taken + Chunk, Len(written))
    /\ agent' = IF taken' - parsed > PendingLimit THEN "full" ELSE agent
    /\ UNCHANGED <<whole, sender, relay, parsed, batch, played>>

(* Nothing is left to read: for now, or since the relay was dropped.       *)
ReadEnds ==
    /\ agent = "reading" /\ taken = Len(written)
    /\ agent' = IF pc = "closed" THEN "ended" ELSE "decoding"
    /\ UNCHANGED <<whole, sender, relay, taken, parsed, batch, played>>

(* The bytes of the next event, if they are all there.                     *)
NextLen == EncodedLen(written[parsed + 1])
NextBytes == SubSeq(written, parsed + 1, parsed + NextLen)

(* Mutant of NextReady: more than the event has to be there.               *)
NextPassed == parsed < taken /\ parsed + NextLen < taken

NextReady == parsed < taken /\ parsed + NextLen <= taken

(* A tag that no event has has length 0, and does not decode.              *)
DecodeNext ==
    /\ agent = "decoding" /\ NextReady
    /\ IF Decode(NextBytes) = Invalid
       THEN agent' = "rejected" /\ batch' = <<>> /\ UNCHANGED parsed
       ELSE /\ batch' = Append(batch, Decode(NextBytes))
            /\ parsed' = parsed + NextLen
            /\ UNCHANGED agent
    /\ UNCHANGED <<whole, sender, relay, taken, played>>

Return ==
    /\ agent = "decoding" /\ ~NextReady
    /\ played' = played \o batch /\ batch' = <<>>
    /\ agent' = "reading"
    /\ UNCHANGED <<whole, sender, relay, taken, parsed>>

(* The agent lets the client go, or ends, for reasons of its own: an event *)
(* that no device can play, a compositor that is gone.                     *)
LetGo ==
    /\ Reading
    /\ agent' = "ended" /\ batch' = <<>>
    /\ UNCHANGED <<whole, sender, relay, taken, parsed, played>>

-----------------------------------------------------------------------------
Init ==
    /\ whole \in Sockets
    /\ client = "sending" /\ net = <<>> /\ frames = 0 /\ sent = <<>>
    /\ pc = "read" /\ left = <<>> /\ written = <<>> /\ ends = <<>>
    /\ taken = 0 /\ parsed = 0 /\ agent = "reading" /\ batch = <<>> /\ played = <<>>

Client == Stop \/ \E frame \in Sendable : SendFrame(frame)
Relay  == ReadFrame \/ EndRead \/ Write \/ WriteFails \/ Drop
Agent  == ReadChunk \/ ReadEnds \/ DecodeNext \/ Return

Next == Client \/ Relay \/ DaemonDies \/ Agent \/ LetGo

(* The relay reads what is there and gives up on a client that stopped     *)
(* after fifteen seconds; a write ends after five; the agent's loop goes   *)
(* on.  Nothing is assumed of the client.                                  *)
Fairness ==
    /\ WF_vars(ReadFrame \/ Write \/ WriteFails \/ Drop)
    /\ WF_vars(EndRead /\ (client # "sending" \/ net # <<>>))
    /\ WF_vars(Agent)

Spec == Init /\ [][Next]_vars /\ Fairness

-----------------------------------------------------------------------------
TypeOK ==
    /\ whole \in Sockets
    /\ client \in {"sending", "silent", "gone"}
    /\ net \in Seq(Frame) /\ frames \in 0..MaxFrames
    /\ pc \in {"read", "write", "reset", "done", "closed"}
    /\ left \in Seq(Byte) /\ written \in Seq(Byte) /\ ends \in Seq(Nat)
    /\ Len(written) - taken <= PipeLimit
    /\ parsed \in 0..taken /\ taken \in 0..Len(written)
    /\ agent \in {"reading", "decoding", "ended", "full", "rejected"}
    /\ batch \in Seq(InputEvent)
    /\ played \in Seq(InputEvent) /\ sent \in Seq(InputEvent)

(* What the agent plays is what the client sent, in its order and without  *)
(* a gap; one event at the end may be the daemon's closing reset.  Of a    *)
(* socket that takes parts, that one may be anything: a cut event and the  *)
(* reset behind it read as one (protocol.rs 303-309).                      *)
InOrder ==
    LET n == Len(played)
        FromClient(k) == k <= Len(sent) /\ SubSeq(played, 1, k) = SubSeq(sent, 1, k)
    IN  n > 0 => \/ FromClient(n)
                 \/ FromClient(n - 1) /\ (whole => played[n] = Reset)

(* The agent never finds bytes that do not decode: the daemon has checked  *)
(* them, and the socket has kept events whole (input_agent.rs 155-160).    *)
NothingRejected == whole => agent # "rejected"

(* An event is played unless the channel ends (input_agent.rs 152-162).    *)
SentIsPlayed ==
    \A n \in 1..MaxFrames :
        Len(sent) >= n ~> (Len(played) >= n \/ pc \in {"reset", "done", "closed"} \/ ~Reading)

(* When the client stops, or the relay fails, the agent lets go, for which *)
(* the daemon must stop reading (protocol.rs 288-311, main.rs 149).        *)
EndIsSeen == (client # "sending" \/ pc \in {"reset", "done", "closed"}) ~> ~Reading
=============================================================================
