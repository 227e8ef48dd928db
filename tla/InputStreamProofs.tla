--------------------------- MODULE InputStreamProofs --------------------------
(***************************************************************************)
(* Theorems about InputStream, for any frames, either socket, and any      *)
(* limits: events survive their encoding, and arrive in order.             *)
(***************************************************************************)
EXTENDS InputStream, SequenceTheorems, TLAPS

(* A number is its quotient and its remainder.                             *)
LEMMA Divides ==
    ASSUME NEW u \in Int, NEW h \in Int, NEW l \in Int, h = u \div 256, l = u % 256
    PROVE  256 * h + l = u
OBVIOUS
(* The numbers of sixteen bits.                                            *)
LEMMA SixteenBits ==
    ASSUME NEW x \in Int16
    PROVE  x \in Int /\ x >= -32768 /\ x <= 65535 /\ x < 32768
<1>1. Half \in Int
  BY DEF Half
<1>2. x \in Int /\ -Half <= x /\ x <= Half - 1
  BY <1>1 DEF Int16
<1>3. QED BY <1>2 DEF Half

(* The two bytes of a number below 65536.                                  *)
LEMMA Halves ==
    ASSUME NEW u \in Int, u >= 0, u <= 65535
    PROVE  /\ u \div 256 \in Int /\ u \div 256 >= 0 /\ u \div 256 <= 255
           /\ u % 256 \in Int /\ u % 256 >= 0 /\ u % 256 <= 255
           /\ u \div 256 < 128 <=> u < 32768
<1>1. u \div 256 \in Int /\ u % 256 \in Int
  OBVIOUS
<1>2. u \div 256 >= 0 /\ u \div 256 <= 255
  OBVIOUS
<1>3. u % 256 >= 0 /\ u % 256 <= 255
  OBVIOUS
<1>4. u \div 256 < 128 <=> u < 32768
  OBVIOUS
<1>5. QED BY <1>1, <1>2, <1>3, <1>4

(* A number of sixteen bits is its two bytes, whether it has a sign or not. *)
LEMMA TwoBytes ==
    ASSUME NEW n \in Int, n >= -32768, n <= 65535
    PROVE  /\ High(n) \in Byte /\ Low(n) \in Byte
           /\ n >= 0 => Unsigned(High(n), Low(n)) = n
           /\ n < 32768 => Signed(High(n), Low(n)) = n
<1>1. PICK u \in Int : u = n % 65536
  OBVIOUS
<1>2. u = IF n >= 0 THEN n ELSE n + 65536
  BY <1>1
<1>3. u >= 0 /\ u <= 65535
  BY <1>2
<1>4. High(n) = u \div 256
  BY <1>1 DEF High
<1>5. Low(n) = u % 256
  <2>1. n % 256 = u % 256
    <3>1. CASE n >= 0
      BY <1>2, <3>1
    <3>2. CASE n < 0
      <4>1. (n + 65536) % 256 = n % 256
        OBVIOUS
      <4>2. QED BY <1>2, <3>2, <4>1
    <3>3. QED BY <3>1, <3>2
  <2>2. QED BY <2>1 DEF Low
<1>6. PICK h \in Int, l \in Int : h = High(n) /\ l = Low(n)
  BY <1>3, <1>4, <1>5, Halves
<1>7. /\ h >= 0 /\ h <= 255 /\ l >= 0 /\ l <= 255
      /\ h < 128 <=> u < 32768
      /\ 256 * h + l = u
  BY <1>3, <1>4, <1>5, <1>6, Halves, Divides
<1>8. h \in Byte /\ l \in Byte
  BY <1>7 DEF Byte
<1>9. n >= 0 => Unsigned(High(n), Low(n)) = n
  BY <1>2, <1>6, <1>7 DEF Unsigned
<1>10. n < 32768 => Signed(High(n), Low(n)) = n
  BY <1>2, <1>6, <1>7 DEF Signed, Unsigned
<1>11. QED BY <1>6, <1>8, <1>9, <1>10

(* What Encode makes of each kind of event, and what Decode makes of that. *)
LEMMA KeyBytes ==
    ASSUME NEW tag \in {1, 3}, NEW code \in 1..MaxEvdevCode, NEW pressed \in BOOLEAN,
           tag = 3 => code \in PointerButtons
    PROVE  LET bytes == <<tag, IF pressed THEN 1 ELSE 0, High(code), Low(code)>>
               event == [op |-> IF tag = 1 THEN "key" ELSE "button", code |-> code, pressed |-> pressed]
           IN  bytes \in Seq(Byte) /\ Len(bytes) = 4 /\ Decode(bytes) = event
<1> DEFINE bytes == <<tag, IF pressed THEN 1 ELSE 0, High(code), Low(code)>>
           event == [op |-> IF tag = 1 THEN "key" ELSE "button", code |-> code, pressed |-> pressed]
<1>1. code \in Int /\ code >= 0 /\ code <= 767 /\ code >= 1
  BY DEF MaxEvdevCode
<1>2. High(code) \in Byte /\ Low(code) \in Byte /\ Unsigned(High(code), Low(code)) = code
  BY <1>1, TwoBytes
<1>3. tag \in Byte /\ (IF pressed THEN 1 ELSE 0) \in Byte
  BY DEF Byte
<1>4. bytes \in Seq(Byte) /\ Len(bytes) = 4 /\ bytes # <<>>
  BY <1>2, <1>3
<1>5. bytes[1] = tag /\ bytes[2] = (IF pressed THEN 1 ELSE 0) /\ bytes[3] = High(code) /\ bytes[4] = Low(code)
  OBVIOUS
<1> HIDE DEF bytes
<1>6. EncodedLen(tag) = 4
  BY DEF EncodedLen
<1>7. Decode(bytes) = event
  <2>1. (bytes[2] = 1) = pressed
    BY <1>5
  <2>2. Unsigned(bytes[3], bytes[4]) = code
    BY <1>2, <1>5
  <2>3. tag = 1 => code \in 1..MaxEvdevCode
    OBVIOUS
  <2>4. bytes[2] \in {0, 1}
    BY <1>5
  <2>5. CASE tag = 1
    BY <1>4, <1>5, <1>6, <2>1, <2>2, <2>3, <2>4, <2>5 DEF Decode
  <2>6. CASE tag = 3
    BY <1>4, <1>5, <1>6, <2>1, <2>2, <2>4, <2>6 DEF Decode
  <2>7. QED BY <2>5, <2>6
<1>8. QED BY <1>4, <1>7 DEF bytes

LEMMA PairBytes ==
    ASSUME NEW tag \in {2, 4}, NEW x \in Int16, NEW y \in Int16
    PROVE  LET bytes == <<tag, High(x), Low(x), High(y), Low(y)>>
               event == [op |-> IF tag = 2 THEN "motion" ELSE "scroll", x |-> x, y |-> y]
           IN  bytes \in Seq(Byte) /\ Len(bytes) = 5 /\ Decode(bytes) = event
<1> DEFINE bytes == <<tag, High(x), Low(x), High(y), Low(y)>>
           event == [op |-> IF tag = 2 THEN "motion" ELSE "scroll", x |-> x, y |-> y]
<1>1. /\ x \in Int /\ x >= -32768 /\ x <= 65535 /\ x < 32768
      /\ y \in Int /\ y >= -32768 /\ y <= 65535 /\ y < 32768
  BY SixteenBits
<1>2. /\ High(x) \in Byte /\ Low(x) \in Byte /\ Signed(High(x), Low(x)) = x
      /\ High(y) \in Byte /\ Low(y) \in Byte /\ Signed(High(y), Low(y)) = y
  BY <1>1, TwoBytes
<1>3. tag \in Byte
  BY DEF Byte
<1>4. bytes \in Seq(Byte) /\ Len(bytes) = 5 /\ bytes # <<>>
  BY <1>2, <1>3
<1>5. bytes[1] = tag /\ bytes[2] = High(x) /\ bytes[3] = Low(x) /\ bytes[4] = High(y) /\ bytes[5] = Low(y)
  OBVIOUS
<1> HIDE DEF bytes
<1>6. EncodedLen(tag) = 5
  BY DEF EncodedLen
<1>7. Decode(bytes) = event
  <2>1. Signed(bytes[2], bytes[3]) = x /\ Signed(bytes[4], bytes[5]) = y
    BY <1>2, <1>5
  <2>2. QED BY <1>4, <1>5, <1>6, <2>1 DEF Decode
<1>8. QED BY <1>4, <1>7 DEF bytes

LEMMA EventBytes ==
    ASSUME NEW event \in InputEvent
    PROVE  /\ Encode(event) \in Seq(Byte)
           /\ Len(Encode(event)) \in 1..MaxEncodedLen
           /\ Decode(Encode(event)) = event
<1>1. CASE event \in [op : {"key"}, code : 1..MaxEvdevCode, pressed : BOOLEAN]
  <2>1. Encode(event) = <<1, IF event.pressed THEN 1 ELSE 0, High(event.code), Low(event.code)>>
    BY <1>1 DEF Encode
  <2>2. event = [op |-> "key", code |-> event.code, pressed |-> event.pressed]
    BY <1>1
  <2>3. QED BY <1>1, <2>1, <2>2, KeyBytes DEF MaxEncodedLen
<1>2. CASE event \in [op : {"button"}, code : PointerButtons, pressed : BOOLEAN]
  <2>1. Encode(event) = <<3, IF event.pressed THEN 1 ELSE 0, High(event.code), Low(event.code)>>
    BY <1>2 DEF Encode
  <2>2. event = [op |-> "button", code |-> event.code, pressed |-> event.pressed]
    BY <1>2
  <2>3. event.code \in 1..MaxEvdevCode
    BY <1>2 DEF PointerButtons, MaxEvdevCode
  <2>4. QED BY <1>2, <2>1, <2>2, <2>3, KeyBytes DEF MaxEncodedLen
<1>3. CASE event \in [op : {"motion", "scroll"}, x : Int16, y : Int16]
  <2> DEFINE tag == IF event.op = "motion" THEN 2 ELSE 4
  <2>1. Encode(event) = <<tag, High(event.x), Low(event.x), High(event.y), Low(event.y)>>
    BY <1>3 DEF Encode
  <2>2. event = [op |-> IF tag = 2 THEN "motion" ELSE "scroll", x |-> event.x, y |-> event.y]
    BY <1>3
  <2>3. tag \in {2, 4}
    OBVIOUS
  <2> HIDE DEF tag
  <2>4. QED BY <1>3, <2>1, <2>2, <2>3, PairBytes DEF MaxEncodedLen
<1>4. CASE event = Reset
  <2>1. Encode(event) = <<5>>
    BY <1>4 DEF Encode, Reset
  <2>2. QED BY <1>4, <2>1 DEF Decode, EncodedLen, Byte, MaxEncodedLen
<1>5. QED BY <1>1, <1>2, <1>3, <1>4 DEF InputEvent, Reset

-----------------------------------------------------------------------------
(* What decodes is an event.                                               *)
LEMMA DecodedEvent ==
    ASSUME NEW bytes \in Seq(Byte)
    PROVE  Decode(bytes) \in InputEvent \cup {Invalid}
<1> SUFFICES ASSUME Decode(bytes) # Invalid PROVE Decode(bytes) \in InputEvent
  OBVIOUS
<1>1. bytes # <<>> /\ Len(bytes) = EncodedLen(bytes[1])
  BY DEF Decode
<1>2. ASSUME NEW h \in Byte, NEW l \in Byte PROVE Signed(h, l) \in Int16
  <2>1. /\ h \in Int /\ 0 <= h /\ h <= 255
        /\ l \in Int /\ 0 <= l /\ l <= 255
    BY DEF Byte
  <2>2. Signed(h, l) \in Int /\ -32768 <= Signed(h, l) /\ Signed(h, l) <= 32767
    BY <2>1 DEF Signed, Unsigned
  <2>3. Half \in Int /\ -Half <= Signed(h, l) /\ Signed(h, l) <= Half - 1
    BY <2>2 DEF Half
  <2>4. QED BY <2>2, <2>3 DEF Int16
<1>3. CASE bytes[1] \in {1, 3}
  <2>1. Decode(bytes) \in [op : {IF bytes[1] = 1 THEN "key" ELSE "button"},
                           code : IF bytes[1] = 1 THEN 1..MaxEvdevCode ELSE PointerButtons,
                           pressed : BOOLEAN]
    BY <1>1, <1>3 DEF Decode
  <2>2. QED BY <1>3, <2>1 DEF InputEvent
<1>4. CASE bytes[1] \in {2, 4}
  <2>1. Len(bytes) = 5
    BY <1>1, <1>4 DEF EncodedLen
  <2>2. bytes[2] \in Byte /\ bytes[3] \in Byte /\ bytes[4] \in Byte /\ bytes[5] \in Byte
    BY <2>1, ElementOfSeq
  <2>3. Decode(bytes) = [op |-> IF bytes[1] = 2 THEN "motion" ELSE "scroll",
                         x |-> Signed(bytes[2], bytes[3]), y |-> Signed(bytes[4], bytes[5])]
    BY <1>1, <1>4 DEF Decode
  <2>4. QED BY <1>2, <2>2, <2>3 DEF InputEvent
<1>5. CASE bytes[1] = 5
  <2>1. Decode(bytes) = Reset
    BY <1>1, <1>5 DEF Decode
  <2>2. QED BY <2>1 DEF InputEvent, Reset
<1>6. QED
  <2>1. Len(bytes) # 0
    BY <1>1, EmptySeq
  <2>2. bytes[1] \in {1, 2, 3, 4, 5}
    BY <1>1, <2>1 DEF EncodedLen
  <2>3. QED BY <1>3, <1>4, <1>5, <2>2

(* Every event survives its encoding, in at most MAX_ENCODED_LEN bytes     *)
(* (the daemon's limit on the payload of an input frame).                  *)
THEOREM RoundTrip ==
    \A event \in InputEvent : /\ Decode(Encode(event)) = event
                              /\ Len(Encode(event)) <= MaxEncodedLen
<1> TAKE event \in InputEvent
<1>1. Decode(Encode(event)) = event /\ Len(Encode(event)) \in 1..MaxEncodedLen
  BY EventBytes
<1>2. \A n \in 1..MaxEncodedLen : n <= MaxEncodedLen
  BY DEF MaxEncodedLen
<1>3. QED BY <1>1, <1>2, Zenon

(* The length of an encoded event is told by its first byte.               *)
LEMMA TagTellsLength ==
    ASSUME NEW event \in InputEvent
    PROVE  LET bytes == Encode(event) IN
           /\ bytes \in Seq(Byte) /\ Decode(bytes) = event /\ event # Invalid
           /\ Len(bytes) \in Nat \ {0} /\ EncodedLen(bytes[1]) = Len(bytes)
<1> DEFINE bytes == Encode(event)
<1>1. event # Invalid
  BY DEF InputEvent, Invalid, Reset
<1>2. bytes \in Seq(Byte) /\ Len(bytes) \in 1..MaxEncodedLen /\ Decode(bytes) = event
  BY EventBytes
<1> HIDE DEF bytes
<1>3. EncodedLen(bytes[1]) = Len(bytes)
  BY <1>1, <1>2 DEF Decode
<1>4. Len(bytes) \in Nat \ {0}
  BY <1>2 DEF MaxEncodedLen
<1>5. QED BY <1>1, <1>2, <1>3, <1>4 DEF bytes

-----------------------------------------------------------------------------
(* A piece of a sequence.                                                  *)
LEMMA SubSeqFacts ==
    ASSUME NEW S, NEW q \in Seq(S), NEW m \in Nat \ {0}, NEW n \in 0..Len(q)
    PROVE  /\ SubSeq(q, m, n) \in Seq(S)
           /\ Len(SubSeq(q, m, n)) = IF m <= n THEN n - m + 1 ELSE 0
           /\ \A i \in 1..(n - m + 1) : SubSeq(q, m, n)[i] = q[m + i - 1]
<1>1. m \in Int /\ n \in Int /\ Len(q) \in Nat
  BY LenProperties
<1>2. \A i \in m..n : q[i] \in S
  BY <1>1, ElementOfSeq
<1>3. QED BY <1>1, <1>2, SubSeqProperties

-----------------------------------------------------------------------------
(* Types.                                                                  *)
LEMMA TypeInit == Init => TypeOK
<1> SUFFICES ASSUME Init PROVE TypeOK
  OBVIOUS
<1>1. <<>> \in Seq(Byte) /\ <<>> \in Seq(Nat) /\ <<>> \in Seq(Frame) /\ <<>> \in Seq(InputEvent)
  OBVIOUS
<1>2. Len(written) = 0 /\ PipeLimit \in Nat /\ MaxFrames \in Nat
  BY LimitAssumption DEF Init
<1>3. QED BY <1>1, <1>2 DEF Init, TypeOK

(* The client: a frame, or the beginning of one.                           *)
LEMMA TypeClient == ASSUME TypeOK, Client PROVE TypeOK'
<1>1. CASE \E frame \in Sendable : SendFrame(frame)
  <2>1. PICK frame \in Sendable : SendFrame(frame)
    BY <1>1
  <2>2. frame \in Frame
    BY FrameAssumption
  <2>3. net' \in Seq(Frame)
    BY <2>1, <2>2, AppendProperties DEF SendFrame, TypeOK
  <2>4. frames' \in 0..MaxFrames
    BY SMTT(30), <2>1, LimitAssumption DEF SendFrame, TypeOK
  <2>5. Decode(frame.payload) \in InputEvent \cup {Invalid}
    BY <2>2, DecodedEvent DEF Frame
  <2>6. sent' \in Seq(InputEvent)
    BY <2>1, <2>5, AppendProperties DEF SendFrame, TypeOK
  <2>7. UNCHANGED <<whole, client, relay, reader>>
    BY <2>1 DEF SendFrame
  <2>8. QED BY <2>3, <2>4, <2>6, <2>7 DEF TypeOK, relay, reader
<1>2. CASE Stop
  <2>1. net' \in Seq(Frame)
    <3>1. net \in Seq(Frame)
      BY DEF TypeOK
    <3>2. CASE net' = net
      BY <3>1, <3>2
    <3>3. ASSUME NEW frame \in Sendable, net' = Append(net, [frame EXCEPT !.payload = <<>>])
          PROVE  net' \in Seq(Frame)
      <4>1. frame \in Frame /\ <<>> \in Seq(Byte)
        BY FrameAssumption
      <4>2. [frame EXCEPT !.payload = <<>>] \in Frame
        BY <4>1 DEF Frame
      <4>3. QED BY <3>1, <3>3, <4>2, AppendProperties
    <3>4. QED BY <1>2, <3>2, <3>3 DEF Stop
  <2>2. client' \in {"silent", "gone"} /\ UNCHANGED <<whole, frames, sent, relay, reader>>
    BY <1>2 DEF Stop
  <2>3. QED BY <2>1, <2>2 DEF TypeOK, relay, reader
<1>3. QED BY <1>1, <1>2 DEF Client

(* The daemon.                                                             *)
LEMMA TypeRelay == ASSUME TypeOK, Relay \/ DaemonDies PROVE TypeOK'
<1>1. Encode(Reset) \in Seq(Byte)
  BY EventBytes DEF Reset, InputEvent
<1>2. CASE ReadFrame
  <2>1. Head(net) \in Frame /\ Tail(net) \in Seq(Frame)
    BY <1>2, HeadTailProperties DEF ReadFrame, TypeOK
  <2>2. Decode(Head(net).payload) \in InputEvent
    BY <1>2, <2>1, DecodedEvent DEF ReadFrame, Accepted, Rejected, Frame
  <2>3. left' \in Seq(Byte)
    BY <1>2, <2>2, EventBytes DEF ReadFrame
  <2>4. QED BY <1>2, <2>1, <2>3 DEF ReadFrame, TypeOK, reader
<1>3. CASE EndRead \/ WriteFails \/ Drop \/ DaemonDies
  <2>1. left' \in {left, <<>>, Encode(Reset)} /\ pc' \in {"reset", "done", "closed"}
    BY <1>3 DEF EndRead, WriteFails, Drop, DaemonDies
  <2> left \in Seq(Byte) /\ <<>> \in Seq(Byte)
    BY DEF TypeOK
  <2>2. UNCHANGED <<whole, sender, written, ends, reader>>
    BY <1>3 DEF EndRead, WriteFails, Drop, DaemonDies
  <2>3. left' \in Seq(Byte)
    BY <1>1, <2>1
  <2>4. QED BY <2>1, <2>2, <2>3 DEF TypeOK, sender, reader
<1>4. CASE Write
  <2>1. PICK n \in 1..Len(left) :
            /\ Takes(n)
            /\ written' = written \o SubSeq(left, 1, n)
            /\ left' = SubSeq(left, n + 1, Len(left))
            /\ pc' = IF n < Len(left) THEN pc ELSE IF pc = "write" THEN "read" ELSE "done"
            /\ ends' = IF pc' = "read" THEN Append(ends, Len(written')) ELSE ends
    BY <1>4 DEF Write
  <2>2. /\ SubSeq(left, 1, n) \in Seq(Byte) /\ Len(SubSeq(left, 1, n)) = n
        /\ SubSeq(left, n + 1, Len(left)) \in Seq(Byte)
    BY SMTT(30), SubSeqFacts DEF TypeOK
  <2>3. written' \in Seq(Byte) /\ Len(written') = Len(written) + n
    BY <2>1, <2>2, ConcatProperties DEF TypeOK
  <2>4. ends' \in Seq(Nat)
    <3>1. Len(written') \in Nat
      BY <2>3, LenProperties
    <3>2. QED BY <2>1, <3>1, AppendProperties DEF TypeOK
  <2>5. Len(written') - taken <= PipeLimit /\ taken \in 0..Len(written')
    <3>1. Len(written) \in Nat /\ n \in Nat /\ taken \in 0..Len(written)
      BY LenProperties DEF TypeOK
    <3>2. Len(written) - taken + n <= PipeLimit
      BY <2>1 DEF Takes
    <3>3. QED BY <2>3, <3>1, <3>2, LimitAssumption
  <2>6. pc' \in {"read", "write", "reset", "done", "closed"}
    BY <2>1 DEF TypeOK
  <2>7. UNCHANGED <<whole, sender, reader>>
    BY <1>4 DEF Write
  <2>8. left' \in Seq(Byte)
    BY <2>1, <2>2
  <2>9. QED BY <2>3, <2>4, <2>5, <2>6, <2>7, <2>8 DEF TypeOK, sender, reader
<1>5. QED BY <1>2, <1>3, <1>4 DEF Relay

(* The agent.                                                              *)
LEMMA TypeAgent == ASSUME TypeOK, Agent \/ LetGo PROVE TypeOK'
<1>1. taken \in Nat /\ Len(written) \in Nat /\ taken <= Len(written) /\ parsed \in 0..taken
      /\ PipeLimit \in Nat /\ Chunk \in Nat /\ Len(written) - taken <= PipeLimit
  <2>1. Len(written) \in Nat
    BY LenProperties DEF TypeOK
  <2>2. QED BY <2>1, LimitAssumption DEF TypeOK
<1>2. CASE ReadChunk
  <2>1. taken' \in Nat /\ taken <= taken' /\ taken' <= Len(written)
    BY <1>1, <1>2 DEF ReadChunk, Least
  <2>2. UNCHANGED <<whole, sender, relay, parsed, batch, played>>
        /\ agent' \in {"reading", "decoding", "ended", "full", "rejected"}
    BY <1>2 DEF ReadChunk
  <2>3. Len(written) - taken' <= PipeLimit /\ taken' \in 0..Len(written) /\ parsed \in 0..taken'
    BY <1>1, <2>1
  <2>4. QED BY <2>2, <2>3 DEF TypeOK, sender, relay
<1>3. CASE ReadEnds \/ LetGo
  <2>1. agent' \in {"decoding", "ended"} /\ batch' \in {batch, <<>>}
    BY <1>3 DEF ReadEnds, LetGo
  <2>2. batch' \in Seq(InputEvent)
    <3>1. batch \in Seq(InputEvent) /\ <<>> \in Seq(InputEvent)
      BY DEF TypeOK
    <3>2. QED BY <2>1, <3>1
  <2>3. UNCHANGED <<whole, sender, relay, taken, parsed, played>>
    BY <1>3 DEF ReadEnds, LetGo
  <2>4. QED BY <2>1, <2>2, <2>3 DEF TypeOK, sender, relay
<1>4. CASE DecodeNext
  <2>1. CASE UNCHANGED parsed /\ batch' = <<>>
    <3>1. agent' \in {"decoding", "rejected"} /\ UNCHANGED <<whole, sender, relay, taken, played>>
      BY <1>4 DEF DecodeNext
    <3>2. <<>> \in Seq(InputEvent)
      OBVIOUS
    <3>3. QED BY <2>1, <3>1, <3>2 DEF TypeOK, sender, relay
  <2>2. CASE Decode(NextBytes) # Invalid
    <3>1. NextLen \in Nat
      BY DEF NextLen, EncodedLen
    <3>2. parsed' = parsed + NextLen /\ parsed + NextLen <= taken
      BY <1>4, <2>2 DEF DecodeNext, NextReady
    <3>3. parsed' \in 0..taken
      BY <1>1, <3>1, <3>2
    <3>4. NextBytes \in Seq(Byte)
      BY <1>1, <3>1, <3>2, SubSeqFacts DEF NextBytes, TypeOK
    <3>5. batch' \in Seq(InputEvent)
      <4>1. Decode(NextBytes) \in InputEvent
        BY <2>2, <3>4, DecodedEvent
      <4>2. batch' = Append(batch, Decode(NextBytes)) /\ batch \in Seq(InputEvent)
        BY <1>4, <2>2 DEF DecodeNext, TypeOK
      <4>3. QED BY <4>1, <4>2, AppendProperties
    <3>6. QED BY <1>4, <2>2, <3>3, <3>5 DEF DecodeNext, TypeOK, sender, relay
  <2>3. QED BY <1>4, <2>1, <2>2 DEF DecodeNext
<1>5. CASE Return
  <2>1. played' \in Seq(InputEvent) /\ batch' \in Seq(InputEvent)
    BY <1>5, ConcatProperties DEF Return, TypeOK
  <2>2. QED BY <1>5, <2>1 DEF Return, TypeOK, sender, relay
<1>6. QED BY <1>2, <1>3, <1>4, <1>5 DEF Agent

(* Every variable keeps its type, and the agent decodes what it has read   *)
(* and reads what was written.                                             *)
THEOREM TypeCorrect == Spec => []TypeOK
<1>1. TypeOK /\ [Next]_vars => TypeOK'
  <2>1. CASE UNCHANGED vars
    BY <2>1 DEF TypeOK, vars, sender, relay, reader
  <2>2. QED BY <2>1, TypeClient, TypeRelay, TypeAgent DEF Next
<1>2. QED BY <1>1, TypeInit, PTL DEF Spec

-----------------------------------------------------------------------------
(* Where the first i events of the client end in what was written, what    *)
(* was written behind them all, and how many events the daemon has taken.  *)
End(i) == IF i = 0 THEN 0 ELSE ends[i]
Kept   == Len(ends)
Rest   == Len(written) - End(Kept)
Drawn  == IF pc = "write" THEN Kept + 1 ELSE Kept

(* The next frames are the next events, up to the first that is rejected.  *)
AllAccepted(n) == \A i \in 1..n : Accepted(net[i])

NetInv ==
    pc \in {"read", "write"} =>
        /\ Drawn <= Len(sent)
        /\ AllAccepted(Len(net)) => Len(sent) = Drawn + Len(net)
        /\ \A i \in 1..Len(net) :
               AllAccepted(i) => /\ Drawn + i <= Len(sent)
                                 /\ sent[Drawn + i] = Decode(net[i].payload)

(* The events that were written whole.                                     *)
EndsInv ==
    /\ Kept <= Len(sent)
    /\ \A i \in 1..Kept :
           /\ End(i) = End(i - 1) + Len(Encode(sent[i]))
           /\ End(i) <= Len(written)
           /\ \A j \in 1..Len(Encode(sent[i])) :
                  written[End(i - 1) + j] = Encode(sent[i])[j]

(* What was written behind them: nothing, the beginning of an event, or    *)
(* that with the closing reset, which together are not longer than the     *)
(* event.                                                                  *)
RestInv ==
    /\ End(Kept) <= Len(written)
    /\ pc = "read" => Rest = 0
    /\ pc = "write" =>
           /\ Rest + Len(left) = Len(Encode(sent[Drawn])) /\ Len(left) > 0
           /\ \A j \in 1..Rest : written[End(Kept) + j] = Encode(sent[Drawn])[j]
           /\ \A j \in 1..Len(left) : left[j] = Encode(sent[Drawn])[Rest + j]
           /\ whole => Rest = 0
    /\ pc = "reset" =>
           /\ left = Encode(Reset)
           /\ Rest > 0 => ~whole /\ Rest < EncodedLen(written[End(Kept) + 1])
    /\ pc \in {"done", "closed"} /\ Rest > 0 =>
           /\ Rest <= EncodedLen(written[End(Kept) + 1])
           /\ whole => Rest = 1 /\ written[End(Kept) + 1] = 5

(* What the agent has decoded.                                             *)
Decoded == played \o batch

FromClient(n) == n <= Len(sent) /\ \A i \in 1..n : Decoded[i] = sent[i]

ReadInv ==
    LET n == Len(Decoded)
    IN  /\ agent # "decoding" => batch = <<>>
        /\ agent = "rejected" => ~whole
        /\ \/ n <= Kept /\ FromClient(n) /\ (Reading => parsed = End(n))
           \/ /\ n = Kept + 1 /\ FromClient(Kept)
              /\ pc \in {"done", "closed"} /\ (Reading => parsed = Len(written))
              /\ whole => Decoded[n] = Reset

IInv == TypeOK /\ NetInv /\ EndsInv /\ RestInv /\ ReadInv

-----------------------------------------------------------------------------
(* Numbers that the invariant is about.                                    *)
LEMMA Numbers ==
    ASSUME TypeOK
    PROVE  /\ Kept \in Nat /\ Len(sent) \in Nat /\ Len(written) \in Nat /\ Len(left) \in Nat
           /\ Len(net) \in Nat
           /\ \A i \in 0..Kept : End(i) \in Nat
           /\ \A i \in 1..Len(sent) : sent[i] \in InputEvent
<1>1. ends \in Seq(Nat) /\ sent \in Seq(InputEvent) /\ written \in Seq(Byte) /\ left \in Seq(Byte)
      /\ net \in Seq(Frame)
  BY DEF TypeOK
<1>2. Kept \in Nat /\ Len(sent) \in Nat /\ Len(written) \in Nat /\ Len(left) \in Nat /\ Len(net) \in Nat
  BY <1>1, LenProperties DEF Kept
<1>3. ASSUME NEW i \in 0..Kept PROVE End(i) \in Nat
  <2>1. CASE i = 0
    BY <2>1 DEF End
  <2>2. CASE i # 0
    <3>1. i \in 1..Len(ends)
      BY <1>2, <2>2 DEF Kept
    <3>2. QED BY <1>1, <2>2, <3>1, ElementOfSeq DEF End
  <2>3. QED BY <2>1, <2>2
<1>4. QED BY <1>1, <1>2, <1>3, ElementOfSeq

(* What the agent finds where an event was written whole.                  *)
LEMMA DecodeWhole ==
    ASSUME TypeOK, NEW event \in InputEvent,
           parsed + Len(Encode(event)) <= Len(written),
           \A j \in 1..Len(Encode(event)) : written[parsed + j] = Encode(event)[j]
    PROVE  NextLen = Len(Encode(event)) /\ Decode(NextBytes) = event
<1> DEFINE bytes == Encode(event)
<1>1. bytes \in Seq(Byte) /\ Decode(bytes) = event /\ Len(bytes) \in Nat \ {0}
      /\ EncodedLen(bytes[1]) = Len(bytes)
  BY TagTellsLength
<1>2. parsed + Len(bytes) <= Len(written) /\ \A j \in 1..Len(bytes) : written[parsed + j] = bytes[j]
  OBVIOUS
<1> HIDE DEF bytes
<1>3. parsed \in Nat /\ Len(written) \in Nat
  BY Numbers DEF TypeOK
<1>4. written[parsed + 1] = bytes[1]
  BY <1>1, <1>2
<1>5. NextLen = Len(bytes)
  BY <1>1, <1>4 DEF NextLen
<1>6. NextBytes = bytes
  <2> DEFINE m == parsed + 1
             n == parsed + NextLen
  <2>1. m \in Nat \ {0} /\ n \in 0..Len(written) /\ written \in Seq(Byte)
    BY SMTT(30), <1>1, <1>2, <1>3, <1>5 DEF TypeOK
  <2>2. NextBytes = SubSeq(written, m, n)
    BY DEF NextBytes
  <2>3. m <= n /\ n - m + 1 = Len(bytes) /\ \A j \in Nat : m + j - 1 = parsed + j
    BY <1>1, <1>3, <1>5
  <2> HIDE DEF m, n
  <2>4. /\ NextBytes \in Seq(Byte)
        /\ Len(NextBytes) = IF m <= n THEN n - m + 1 ELSE 0
        /\ \A j \in 1..(n - m + 1) : NextBytes[j] = written[m + j - 1]
    <3>1. /\ SubSeq(written, m, n) \in Seq(Byte)
          /\ Len(SubSeq(written, m, n)) = IF m <= n THEN n - m + 1 ELSE 0
          /\ \A i \in 1..(n - m + 1) : SubSeq(written, m, n)[i] = written[m + i - 1]
      BY <2>1, SubSeqFacts
    <3>2. QED BY <2>2, <3>1, Zenon
  <2>5. ASSUME NEW j \in 1..Len(bytes) PROVE NextBytes[j] = bytes[j]
    <3>1. j \in Nat /\ j \in 1..(n - m + 1)
      BY <1>1, <2>3
    <3>2. NextBytes[j] = written[m + j - 1] /\ m + j - 1 = parsed + j
      BY <2>3, <2>4, <3>1, Zenon
    <3>3. QED BY <1>2, <3>2
  <2>6. QED BY <1>1, <2>3, <2>4, <2>5, SeqEqual
<1>7. QED BY <1>1, <1>5, <1>6 DEF bytes

-----------------------------------------------------------------------------
(* The client sends: events are only added to those that were sent.        *)
LEMMA SentGrows ==
    ASSUME TypeOK, Client
    PROVE  /\ Len(sent') \in Nat /\ Len(sent) <= Len(sent')
           /\ \A i \in 1..Len(sent) : sent'[i] = sent[i]
           /\ UNCHANGED <<whole, pc, left, written, ends, taken, parsed, agent, batch, played>>
<1>1. CASE Stop
  BY <1>1, Numbers DEF Stop, relay, reader
<1>2. CASE \E frame \in Sendable : SendFrame(frame)
  <2>1. PICK frame \in Sendable : SendFrame(frame)
    BY <1>2
  <2>2. UNCHANGED <<whole, pc, left, written, ends, taken, parsed, agent, batch, played>>
    BY <2>1 DEF SendFrame, relay, reader
  <2>3. CASE sent' = sent
    BY <2>2, <2>3, Numbers
  <2>4. CASE Decode(frame.payload) # Invalid /\ sent' = Append(sent, Decode(frame.payload))
    <3>1. frame.payload \in Seq(Byte)
      BY FrameAssumption DEF Frame
    <3>2. Decode(frame.payload) \in InputEvent
      BY <2>4, <3>1, DecodedEvent
    <3>3. sent \in Seq(InputEvent)
      BY DEF TypeOK
    <3>4. Len(sent') = Len(sent) + 1 /\ \A i \in 1..Len(sent) : sent'[i] = sent[i]
      BY <2>4, <3>2, <3>3, AppendProperties
    <3>5. QED BY <2>2, <3>4, Numbers
  <2>5. QED BY <2>1, <2>3, <2>4 DEF SendFrame
<1>3. QED BY <1>1, <1>2 DEF Client

(* A frame is added to those on their way.                                 *)
LEMMA NetGrows ==
    ASSUME TypeOK, NetInv, pc \in {"read", "write"}, NEW frame \in Frame,
           net' = Append(net, frame), UNCHANGED <<pc, ends>>,
           Len(sent') \in Nat, Len(sent) <= Len(sent'),
           \A i \in 1..Len(sent) : sent'[i] = sent[i],
           Accepted(frame) => sent' = Append(sent, Decode(frame.payload))
    PROVE  NetInv'
<1>1. net \in Seq(Frame) /\ sent \in Seq(InputEvent)
  BY DEF TypeOK
<1>2. /\ Len(net') = Len(net) + 1 /\ net'[Len(net) + 1] = frame
      /\ \A i \in 1..Len(net) : net'[i] = net[i]
  BY <1>1, AppendProperties
<1>3. Drawn \in Nat /\ Drawn' = Drawn /\ Drawn <= Len(sent) /\ Len(sent) \in Nat /\ Len(net) \in Nat
  BY Numbers DEF Drawn, Kept, NetInv
<1>4. ASSUME NEW n \in 0..Len(net), AllAccepted(n)' PROVE AllAccepted(n)
  BY <1>2, <1>3, <1>4 DEF AllAccepted
<1>5. ASSUME NEW n \in 0..Len(net), AllAccepted(n) PROVE AllAccepted(n)'
  BY <1>2, <1>3, <1>5 DEF AllAccepted
<1>6. ASSUME \A i \in 1..(Len(net) + 1) : Accepted(net'[i])
      PROVE  /\ Len(sent) = Drawn + Len(net) /\ Len(sent') = Len(sent) + 1
             /\ sent'[Len(sent) + 1] = Decode(frame.payload)
  <2>1. AllAccepted(Len(net))
    BY <1>2, <1>3, <1>6 DEF AllAccepted
  <2>2. Len(sent) = Drawn + Len(net)
    BY <2>1 DEF NetInv
  <2>3. Accepted(frame)
    BY <1>2, <1>3, <1>6 DEF AllAccepted
  <2>4. sent' = Append(sent, Decode(frame.payload))
    BY <2>3
  <2>5. Decode(frame.payload) \in InputEvent
    <3>1. Decode(frame.payload) # Invalid /\ frame.payload \in Seq(Byte)
      BY <2>3 DEF Accepted, Rejected, Frame
    <3>2. QED BY <3>1, DecodedEvent
  <2>6. QED BY <1>1, <2>2, <2>4, <2>5, AppendProperties
<1>7. ASSUME AllAccepted(Len(net))' PROVE Len(sent') = Drawn' + Len(net')
  <2>1. \A i \in 1..(Len(net) + 1) : Accepted(net'[i])
    BY <1>2, <1>7 DEF AllAccepted
  <2>2. QED BY <1>2, <1>3, <1>6, <2>1
<1>8. ASSUME NEW i \in 1..Len(net'), AllAccepted(i)'
      PROVE  Drawn' + i <= Len(sent') /\ sent'[Drawn' + i] = Decode(net'[i].payload)
  <2>1. CASE i <= Len(net)
    <3>1. AllAccepted(i)
      BY <1>3, <1>4, <1>8, <2>1
    <3>2. i \in 1..Len(net) /\ Drawn + i <= Len(sent) /\ sent[Drawn + i] = Decode(net[i].payload)
      BY <1>3, <2>1, <3>1 DEF NetInv
    <3>3. Drawn + i \in 1..Len(sent)
      BY <1>3, <3>2
    <3>4. QED BY <1>2, <1>3, <3>2, <3>3
  <2>2. CASE i = Len(net) + 1
    <3>1. \A k \in 1..(Len(net) + 1) : Accepted(net'[k])
      BY <1>8, <2>2 DEF AllAccepted
    <3>2. /\ Len(sent) = Drawn + Len(net) /\ Len(sent') = Len(sent) + 1
          /\ sent'[Len(sent) + 1] = Decode(frame.payload)
      BY <1>6, <3>1
    <3>3. Drawn' + i = Len(sent) + 1 /\ net'[i] = frame
      BY <1>2, <1>3, <2>2, <3>2
    <3>4. QED BY <3>2, <3>3
  <2>3. QED BY <1>2, <1>3, <2>1, <2>2
<1>9. QED BY <1>3, <1>7, <1>8 DEF NetInv

LEMMA NetClient == ASSUME TypeOK, NetInv, Client PROVE NetInv'
<1>1. /\ Len(sent') \in Nat /\ Len(sent) <= Len(sent')
      /\ \A i \in 1..Len(sent) : sent'[i] = sent[i]
      /\ UNCHANGED <<pc, ends>>
  BY SentGrows
<1> SUFFICES ASSUME pc \in {"read", "write"} PROVE NetInv'
  BY <1>1 DEF NetInv
<1>2. CASE UNCHANGED net /\ UNCHANGED sent
  BY <1>1, <1>2 DEF NetInv, Drawn, Kept, AllAccepted
<1>3. ASSUME NEW frame \in Sendable, SendFrame(frame) PROVE NetInv'
  <2>1. frame \in Frame /\ net' = Append(net, frame)
    BY <1>3, FrameAssumption DEF SendFrame
  <2>2. Accepted(frame) => sent' = Append(sent, Decode(frame.payload))
    BY <1>3, <2>1 DEF Accepted, Rejected, SendFrame, Frame
  <2>3. QED BY <1>1, <2>1, <2>2, NetGrows
<1>4. ASSUME NEW frame \in Sendable, frame.length > 0, UNCHANGED sent,
             net' = Append(net, [frame EXCEPT !.payload = <<>>])
      PROVE  NetInv'
  <2> DEFINE cut == [frame EXCEPT !.payload = <<>>]
  <2>1. frame \in Frame /\ <<>> \in Seq(Byte)
    BY FrameAssumption
  <2>2. cut \in Frame /\ cut.payload = <<>> /\ cut.length = frame.length
    BY <2>1 DEF Frame
  <2>3. ~Whole(cut)
    <3>1. Len(<<>>) = 0 /\ frame.length \in Nat
      BY <2>1 DEF Frame
    <3>2. QED BY <1>4, <2>2, <3>1 DEF Whole
  <2> HIDE DEF cut
  <2>4. net' = Append(net, cut) /\ ~Accepted(cut)
    BY <1>4, <2>3 DEF Accepted, cut
  <2>5. QED BY <1>1, <2>2, <2>4, NetGrows
<1>5. QED BY <1>2, <1>3, <1>4 DEF Client, Stop

LEMMA EndsClient == ASSUME TypeOK, EndsInv, Client PROVE EndsInv'
<1>1. /\ Len(sent') \in Nat /\ Len(sent) <= Len(sent')
      /\ \A i \in 1..Len(sent) : sent'[i] = sent[i]
      /\ UNCHANGED <<written, ends>>
  BY SentGrows
<1>2. Kept \in Nat /\ Kept <= Len(sent) /\ Len(sent) \in Nat
  BY Numbers DEF EndsInv
<1>3. Kept' = Kept /\ \A i : End(i)' = End(i)
  BY <1>1 DEF Kept, End
<1>4. \A i \in 1..Kept : sent'[i] = sent[i]
  BY <1>1, <1>2
<1>5. QED BY <1>1, <1>2, <1>3, <1>4 DEF EndsInv

LEMMA RestClient == ASSUME TypeOK, NetInv, EndsInv, RestInv, Client PROVE RestInv'
<1>1. /\ \A i \in 1..Len(sent) : sent'[i] = sent[i]
      /\ UNCHANGED <<whole, pc, left, written, ends>>
  BY SentGrows
<1>2. Kept' = Kept /\ Rest' = Rest /\ Drawn' = Drawn /\ End(Kept)' = End(Kept)
  BY <1>1 DEF Kept, Rest, Drawn, End
<1>3. pc = "write" => sent'[Drawn] = sent[Drawn]
  <2>1. pc = "write" => Drawn \in 1..Len(sent)
    BY Numbers DEF NetInv, Drawn
  <2>2. QED BY <1>1, <2>1
<1>4. QED BY <1>1, <1>2, <1>3 DEF RestInv

LEMMA ReadClient == ASSUME TypeOK, EndsInv, ReadInv, Client PROVE ReadInv'
<1>1. /\ Len(sent') \in Nat /\ Len(sent) <= Len(sent')
      /\ \A i \in 1..Len(sent) : sent'[i] = sent[i]
      /\ UNCHANGED <<whole, pc, written, ends, parsed, agent, batch, played>>
  BY SentGrows
<1>2. Kept' = Kept /\ Decoded' = Decoded /\ Reading' = Reading /\ \A n : End(n)' = End(n)
  BY <1>1 DEF Kept, Decoded, Reading, End
<1>3. ASSUME NEW n \in Nat, FromClient(n) PROVE FromClient(n)'
  BY <1>1, <1>2, <1>3, Numbers DEF FromClient
<1>4. Len(Decoded) \in Nat /\ Kept \in Nat
  BY Numbers, ConcatProperties, LenProperties DEF Decoded, TypeOK
<1>5. QED BY <1>1, <1>2, <1>3, <1>4 DEF ReadInv

-----------------------------------------------------------------------------
(* The daemon takes the next frame.                                        *)
LEMMA TakesFrame == ASSUME IInv, ReadFrame PROVE NetInv' /\ EndsInv' /\ RestInv' /\ ReadInv'
<1>1. /\ pc = "read" /\ pc' = "write" /\ net # <<>> /\ Accepted(Head(net)) /\ net' = Tail(net)
      /\ left' = Encode(Decode(Head(net).payload))
      /\ UNCHANGED <<whole, sent, written, ends, parsed, agent, batch, played>>
  BY DEF ReadFrame, reader
<1>2. net \in Seq(Frame) /\ Len(net) \in Nat /\ Kept \in Nat /\ Len(sent) \in Nat /\ End(Kept) \in Nat
      /\ Len(written) \in Nat
  BY Numbers DEF IInv, TypeOK
<1>3. /\ Len(net) > 0 /\ Len(net') = Len(net) - 1 /\ Head(net) = net[1]
      /\ \A i \in 1..Len(net') : net'[i] = net[i + 1]
  BY <1>1, <1>2, HeadTailProperties, EmptySeq
<1>4. Kept' = Kept /\ Drawn = Kept /\ Drawn' = Kept + 1 /\ \A i : End(i)' = End(i)
  BY <1>1 DEF Kept, Drawn, End
<1>5. Kept + 1 <= Len(sent) /\ sent[Kept + 1] = Decode(Head(net).payload)
  <2>1. 1 \in 1..Len(net) /\ AllAccepted(1)
    BY <1>1, <1>2, <1>3 DEF AllAccepted
  <2>2. Drawn + 1 <= Len(sent) /\ sent[Drawn + 1] = Decode(net[1].payload)
    BY <1>1, <2>1 DEF IInv, NetInv
  <2>3. QED BY <1>3, <1>4, <2>2
<1>6. ASSUME NEW n \in 0..Len(net'), AllAccepted(n)' PROVE AllAccepted(n + 1)
  <2> SUFFICES ASSUME NEW i \in 1..(n + 1) PROVE Accepted(net[i])
    BY DEF AllAccepted
  <2>1. CASE i = 1
    BY <1>1, <1>3, <2>1
  <2>2. CASE i # 1
    <3>1. i - 1 \in 1..n /\ i - 1 \in 1..Len(net') /\ i - 1 + 1 = i
      BY <1>2, <1>3, <2>2
    <3>2. Accepted(net'[i - 1]) /\ net'[i - 1] = net[i]
      BY <1>3, <1>6, <3>1 DEF AllAccepted
    <3>3. QED BY <3>2
  <2>3. QED BY <2>1, <2>2
<1>7. NetInv'
  <2>1. ASSUME AllAccepted(Len(net))' PROVE Len(sent') = Drawn' + Len(net')
    <3>1. Len(net') \in 0..Len(net') /\ Len(net') + 1 = Len(net)
      BY <1>2, <1>3
    <3>2. AllAccepted(Len(net))
      <4>1. ASSUME NEW n, n = Len(net') PROVE AllAccepted(n)'
        BY <2>1, <4>1 DEF AllAccepted
      <4>2. QED BY <1>6, <3>1, <4>1
    <3>3. QED BY <1>1, <1>2, <1>3, <1>4, <3>2 DEF IInv, NetInv
  <2>2. ASSUME NEW i \in 1..Len(net'), AllAccepted(i)'
        PROVE  Drawn' + i <= Len(sent') /\ sent'[Drawn' + i] = Decode(net'[i].payload)
    <3>1. i \in 0..Len(net') /\ i + 1 \in 1..Len(net)
      BY <1>2, <1>3
    <3>2. AllAccepted(i + 1)
      BY <1>6, <2>2, <3>1
    <3>3. Drawn + (i + 1) <= Len(sent) /\ sent[Drawn + (i + 1)] = Decode(net[i + 1].payload)
      BY <1>1, <3>1, <3>2 DEF IInv, NetInv
    <3>4. Drawn + (i + 1) = Drawn' + i
      BY <1>2, <1>4
    <3>5. QED BY <1>1, <1>3, <3>3, <3>4
  <2>3. QED BY <1>1, <1>4, <1>5, <2>1, <2>2 DEF NetInv
<1>8. EndsInv'
  BY <1>1, <1>4 DEF IInv, EndsInv
<1>9. RestInv'
  <2>1. Rest = 0 /\ Rest' = 0 /\ End(Kept) <= Len(written)
    BY <1>1, <1>4 DEF IInv, RestInv, Rest
  <2>2. left' = Encode(sent[Kept + 1]) /\ sent[Kept + 1] \in InputEvent
    BY <1>1, <1>2, <1>5, Numbers DEF IInv
  <2>3. Len(left') \in Nat \ {0}
    BY <2>2, TagTellsLength
  <2>4. sent'[Drawn'] = sent[Kept + 1]
    BY <1>1, <1>4
  <2>5. QED BY <1>1, <1>4, <2>1, <2>2, <2>3, <2>4 DEF RestInv
<1>10. ReadInv'
  <2>1. Decoded' = Decoded /\ Reading' = Reading /\ \A n : FromClient(n)' = FromClient(n)
    BY <1>1 DEF Decoded, Reading, FromClient
  <2>2. QED BY <1>1, <1>4, <2>1 DEF IInv, ReadInv
<1>11. QED BY <1>7, <1>8, <1>9, <1>10

(* What is behind the whole events is shorter than the event it begins.    *)
LEMMA RestIsShort ==
    ASSUME IInv, pc = "write", Rest > 0
    PROVE  ~whole /\ Rest < EncodedLen(written[End(Kept) + 1])
<1> DEFINE bytes == Encode(sent[Drawn])
<1>1. sent[Drawn] \in InputEvent
  BY Numbers DEF IInv, NetInv, Drawn
<1>2. Len(bytes) \in Nat \ {0} /\ EncodedLen(bytes[1]) = Len(bytes)
  BY <1>1, TagTellsLength
<1>3. /\ Rest + Len(left) = Len(bytes) /\ Len(left) > 0 /\ (whole => Rest = 0)
      /\ \A j \in 1..Rest : written[End(Kept) + j] = bytes[j]
  BY DEF IInv, RestInv
<1> HIDE DEF bytes
<1>4. Rest \in Nat /\ Len(left) \in Nat
  BY Numbers DEF IInv, RestInv, Rest
<1>5. written[End(Kept) + 1] = bytes[1]
  BY <1>3, <1>4
<1>6. QED BY <1>2, <1>3, <1>4, <1>5

(* The relay gives up, is done, or dies: nothing is written.               *)
LEMMA StopsWriting ==
    ASSUME IInv, EndRead \/ WriteFails \/ Drop \/ DaemonDies
    PROVE  NetInv' /\ EndsInv' /\ RestInv' /\ ReadInv'
<1>1. /\ pc' \in {"reset", "done", "closed"}
      /\ pc' = "reset" => left' = Encode(Reset) /\ pc \in {"read", "write"}
      /\ pc \in {"done", "closed"} => pc' \in {"done", "closed"}
      /\ UNCHANGED <<whole, sent, written, ends, parsed, agent, batch, played>>
  BY DEF EndRead, WriteFails, Drop, DaemonDies, sender, reader
<1>2. Kept' = Kept /\ Rest' = Rest /\ \A i : End(i)' = End(i)
  BY <1>1 DEF Kept, Rest, End
<1>3. NetInv'
  BY <1>1 DEF NetInv
<1>4. EndsInv'
  BY <1>1, <1>2 DEF IInv, EndsInv
<1>5. RestInv'
  <2>1. Rest \in Nat
    BY Numbers DEF IInv, RestInv, Rest
  <2>2. CASE Rest = 0
    BY <1>1, <1>2, <2>2 DEF IInv, RestInv
  <2>3. CASE Rest > 0 /\ pc \in {"write", "reset"}
    <3>1. ~whole /\ Rest < EncodedLen(written[End(Kept) + 1])
      BY <2>3, RestIsShort DEF IInv, RestInv
    <3>2. EncodedLen(written[End(Kept) + 1]) \in Nat
      BY DEF EncodedLen
    <3>3. QED BY <1>1, <1>2, <2>1, <3>1, <3>2 DEF IInv, RestInv
  <2>4. CASE pc \in {"done", "closed"}
    BY <1>1, <1>2, <2>4 DEF IInv, RestInv
  <2>5. QED BY <2>1, <2>2, <2>3, <2>4 DEF IInv, RestInv, TypeOK
<1>6. ReadInv'
  <2>1. Decoded' = Decoded /\ Reading' = Reading /\ \A n : FromClient(n)' = FromClient(n)
    BY <1>1 DEF Decoded, Reading, FromClient
  <2>2. QED BY <1>1, <1>2, <2>1 DEF IInv, ReadInv
<1>7. QED BY <1>3, <1>4, <1>5, <1>6

-----------------------------------------------------------------------------
(* The relay writes n bytes.                                               *)
Wrote(n) ==
    /\ Takes(n)
    /\ written' = written \o SubSeq(left, 1, n)
    /\ left' = SubSeq(left, n + 1, Len(left))
    /\ pc' = IF n < Len(left) THEN pc ELSE IF pc = "write" THEN "read" ELSE "done"
    /\ ends' = IF pc' = "read" THEN Append(ends, Len(written')) ELSE ends
    /\ pc \in {"write", "reset"}
    /\ UNCHANGED <<whole, sender, reader>>

LEMMA WroteBytes ==
    ASSUME TypeOK, NEW n \in 1..Len(left), Wrote(n)
    PROVE  /\ Len(written') = Len(written) + n /\ Len(written) \in Nat
           /\ Len(left') = Len(left) - n /\ Len(left) \in Nat
           /\ \A i \in 1..Len(written) : written'[i] = written[i]
           /\ \A j \in 1..n : written'[Len(written) + j] = left[j]
           /\ \A j \in 1..(Len(left) - n) : left'[j] = left[n + j]
<1>1. left \in Seq(Byte) /\ written \in Seq(Byte) /\ Len(left) \in Nat /\ Len(written) \in Nat
  BY LenProperties DEF TypeOK
<1> DEFINE piece == SubSeq(left, 1, n)
<1>2. /\ piece \in Seq(Byte)
      /\ Len(piece) = IF 1 <= n THEN n - 1 + 1 ELSE 0
      /\ \A i \in 1..(n - 1 + 1) : piece[i] = left[1 + i - 1]
  BY <1>1, SubSeqFacts
<1>3. Len(piece) = n /\ \A j \in 1..n : piece[j] = left[j]
  BY <1>1, <1>2
<1>4. written' = written \o piece
  BY DEF Wrote
<1> HIDE DEF piece
<1>5. /\ Len(written') = Len(written) + n
      /\ \A i \in 1..(Len(written) + n) :
             written'[i] = IF i <= Len(written) THEN written[i] ELSE piece[i - Len(written)]
  BY <1>1, <1>2, <1>3, <1>4, ConcatProperties
<1>6. \A i \in 1..Len(written) : written'[i] = written[i]
  BY <1>1, <1>5
<1>7. ASSUME NEW j \in 1..n PROVE written'[Len(written) + j] = left[j]
  <2>1. /\ Len(written) + j \in 1..(Len(written) + n) /\ ~(Len(written) + j <= Len(written))
        /\ Len(written) + j - Len(written) = j
    BY <1>1
  <2>2. QED BY <1>3, <1>5, <2>1
<1> DEFINE m == n + 1
<1>8. m \in Nat \ {0} /\ Len(left) \in 0..Len(left)
  BY <1>1
<1>9. left' = SubSeq(left, m, Len(left))
  BY DEF Wrote
<1>10. /\ Len(left') = IF m <= Len(left) THEN Len(left) - m + 1 ELSE 0
       /\ \A i \in 1..(Len(left) - m + 1) : left'[i] = left[m + i - 1]
  <2> HIDE DEF m
  <2>1. QED BY <1>1, <1>8, <1>9, SubSeqFacts
<1>11. Len(left') = Len(left) - n
  BY <1>1, <1>10
<1>12. ASSUME NEW j \in 1..(Len(left) - n) PROVE left'[j] = left[n + j]
  <2>1. j \in 1..(Len(left) - m + 1) /\ m + j - 1 = n + j
    BY <1>1
  <2>2. QED BY <1>10, <2>1
<1>13. QED BY <1>1, <1>5, <1>6, <1>7, <1>11, <1>12

(* The end of an event: it is one of the whole ones from now on.           *)
LEMMA WroteEvent ==
    ASSUME IInv, NEW n \in 1..Len(left), Wrote(n), pc = "write", n = Len(left)
    PROVE  NetInv' /\ EndsInv' /\ RestInv'
<1>1. /\ Len(written') = Len(written) + n /\ Len(written) \in Nat
      /\ Len(left) \in Nat
      /\ \A i \in 1..Len(written) : written'[i] = written[i]
      /\ \A j \in 1..n : written'[Len(written) + j] = left[j]
  BY WroteBytes DEF IInv
<1>2. pc' = "read" /\ ends' = Append(ends, Len(written')) /\ UNCHANGED <<whole, net, sent>>
  BY DEF Wrote, sender
<1>3. Kept' = Kept + 1 /\ (\A i \in 0..Kept : End(i)' = End(i)) /\ End(Kept)' = Len(written')
      /\ Kept \in Nat /\ End(Kept) \in Nat
  <2>1. ends \in Seq(Nat) /\ Len(written') \in Nat /\ Kept \in Nat /\ End(Kept) \in Nat
    BY SMTT(30), <1>1, Numbers DEF IInv, TypeOK
  <2>2. /\ Len(ends') = Len(ends) + 1 /\ ends'[Len(ends) + 1] = Len(written')
        /\ \A i \in 1..Len(ends) : ends'[i] = ends[i]
    BY <1>2, <2>1, AppendProperties
  <2>3. Kept' = Kept + 1
    BY <2>2 DEF Kept
  <2>4. ASSUME NEW i \in 0..Kept PROVE End(i)' = End(i)
    <3>1. i = 0 \/ i \in 1..Len(ends)
      BY <2>1 DEF Kept
    <3>2. QED BY <2>2, <3>1 DEF End
  <2>5. End(Kept)' = ends'[Len(ends) + 1]
    <3>1. Kept' # 0 /\ Kept' = Len(ends) + 1
      BY <2>1, <2>3 DEF Kept
    <3>2. QED BY <3>1 DEF End
  <2>6. QED BY <2>1, <2>2, <2>3, <2>4, <2>5
<1>4. Drawn = Kept + 1 /\ Drawn' = Kept + 1
  BY <1>2, <1>3 DEF Drawn
<1>5. NetInv'
  BY <1>2, <1>4 DEF IInv, NetInv, AllAccepted
<1> DEFINE bytes == Encode(sent[Drawn])
<1>6. /\ Drawn <= Len(sent) /\ Len(sent) \in Nat
      /\ Rest + Len(left) = Len(bytes) /\ Rest \in Nat
      /\ \A j \in 1..Rest : written[End(Kept) + j] = bytes[j]
      /\ \A j \in 1..Len(left) : left[j] = bytes[Rest + j]
      /\ End(Kept) <= Len(written)
  <2>1. Drawn <= Len(sent) /\ Len(sent) \in Nat
    BY Numbers DEF IInv, NetInv
  <2>2. End(Kept) <= Len(written) /\ Rest \in Nat
    BY <1>1, <1>3 DEF IInv, RestInv, Rest
  <2>3. /\ Rest + Len(left) = Len(bytes)
        /\ \A j \in 1..Rest : written[End(Kept) + j] = bytes[j]
        /\ \A j \in 1..Len(left) : left[j] = bytes[Rest + j]
    <3>1. RestInv
      BY DEF IInv
    <3>2. QED BY <3>1 DEF RestInv
  <2>4. QED BY <2>1, <2>2, <2>3
<1> HIDE DEF bytes
<1>7. Len(written) = End(Kept) + Rest /\ Len(written') = End(Kept) + Len(bytes)
      /\ Len(bytes) \in Nat
  <2>1. Len(written) = End(Kept) + Rest
    BY <1>1, <1>3 DEF Rest
  <2>2. Rest + Len(left) = Len(bytes) /\ Rest \in Nat
    BY <1>6
  <2>3. /\ Len(written') = Len(written) + n /\ Len(left) \in Nat
        /\ End(Kept) \in Nat
    BY <1>1, <1>3
  <2>4. Len(bytes) \in Nat
    BY <2>2, <2>3
  <2>5. QED BY SMTT(30), <2>1, <2>2, <2>3, <2>4
<1>8. ASSUME NEW j \in 1..Len(bytes) PROVE written'[End(Kept) + j] = bytes[j]
  <2>1. CASE j <= Rest
    <3>1. j \in 1..Rest /\ End(Kept) + j \in 1..Len(written)
      BY SMTT(30), <1>1, <1>3, <1>6, <1>7, <2>1
    <3>2. QED BY <1>1, <1>6, <3>1
  <2>2. CASE j > Rest
    <3>1. j - Rest \in 1..n /\ j - Rest \in 1..Len(left) /\ Len(written) + (j - Rest) = End(Kept) + j
          /\ Rest + (j - Rest) = j
      BY SMTT(30), <1>1, <1>3, <1>6, <1>7, <2>2
    <3>2. written'[Len(written) + (j - Rest)] = left[j - Rest] /\ left[j - Rest] = bytes[Rest + (j - Rest)]
      BY <1>1, <1>6, <3>1
    <3>3. QED BY <3>1, <3>2
  <2>3. QED BY <1>6, <2>1, <2>2
<1>9. EndsInv'
  <2>1. Kept' <= Len(sent')
    BY <1>2, <1>3, <1>4, <1>6
  <2>2. ASSUME NEW i \in 1..Kept'
        PROVE  /\ End(i)' = End(i - 1)' + Len(Encode(sent'[i]))
               /\ End(i)' <= Len(written')
               /\ \A j \in 1..Len(Encode(sent'[i])) : written'[End(i - 1)' + j] = Encode(sent'[i])[j]
    <3>1. CASE i <= Kept
      <4>1. i \in 1..Kept /\ i \in 0..Kept /\ i - 1 \in 0..Kept
        BY <1>3, <3>1
      <4>2. /\ End(i) = End(i - 1) + Len(Encode(sent[i])) /\ End(i) <= Len(written)
            /\ \A j \in 1..Len(Encode(sent[i])) : written[End(i - 1) + j] = Encode(sent[i])[j]
        BY <4>1 DEF IInv, EndsInv
      <4>3. End(i - 1) \in Nat /\ Len(Encode(sent[i])) \in Nat /\ End(i)' = End(i) /\ End(i - 1)' = End(i - 1)
            /\ End(i) \in Nat
        <5>1. sent[i] \in InputEvent
          BY SMTT(30), <1>3, <1>4, <1>6, <4>1, Numbers DEF IInv
        <5>2. QED BY <1>3, <4>1, <5>1, Numbers, TagTellsLength DEF IInv
      <4>4. ASSUME NEW j \in 1..Len(Encode(sent[i])) PROVE written'[End(i - 1) + j] = Encode(sent[i])[j]
        <5>1. End(i - 1) + j \in 1..Len(written)
          BY <1>1, <4>2, <4>3
        <5>2. QED BY <1>1, <4>2, <5>1
      <4>5. End(i)' <= Len(written')
        BY <1>1, <4>2, <4>3
      <4>6. QED BY <1>2, <4>2, <4>3, <4>4, <4>5
    <3>2. CASE i = Kept + 1
      <4>1. End(i)' = Len(written') /\ End(i - 1)' = End(Kept) /\ Encode(sent'[i]) = bytes
        <5>1. i - 1 = Kept /\ Kept \in 0..Kept
          BY <1>3, <3>2
        <5>2. i = Kept' /\ i = Drawn /\ End(i)' = Len(written')
          <6>1. i = Kept' /\ i = Drawn
            BY <1>3, <1>4, <3>2
          <6>2. QED BY <1>3, <6>1 DEF End
        <5>3. End(i - 1)' = End(Kept)
          <6>1. ASSUME NEW k \in 0..Kept, k = i - 1 PROVE End(i - 1)' = End(k)'
            BY <6>1
          <6>2. QED BY <1>3, <5>1, <6>1
        <5>4. QED BY <1>2, <5>2, <5>3 DEF bytes
      <4>2. Len(written') \in Nat
        BY <1>1
      <4>3. QED BY <1>7, <1>8, <4>1, <4>2
    <3>3. QED BY <1>3, <3>1, <3>2
  <2>3. QED BY <2>1, <2>2 DEF EndsInv
<1>10. RestInv'
  <2>1. End(Kept)' = Len(written') /\ Len(written') \in Nat
    BY <1>1, <1>3
  <2>2. Rest' = 0
    BY <2>1 DEF Rest
  <2>3. QED BY <1>2, <2>1, <2>2 DEF RestInv
<1>11. QED BY <1>5, <1>9, <1>10

(* The whole events stay when something is written behind them.            *)
LEMMA EndsKept ==
    ASSUME IInv, UNCHANGED <<sent, ends>>,
           Len(written') \in Nat, Len(written) <= Len(written'),
           \A i \in 1..Len(written) : written'[i] = written[i]
    PROVE  EndsInv' /\ Kept' = Kept /\ \A i : End(i)' = End(i)
<1>1. Kept' = Kept /\ \A i : End(i)' = End(i)
  BY DEF Kept, End
<1>2. Kept \in Nat /\ Kept <= Len(sent) /\ Len(sent) \in Nat /\ Len(written) \in Nat
  BY Numbers DEF IInv, EndsInv
<1>3. ASSUME NEW i \in 1..Kept
      PROVE  /\ End(i) = End(i - 1) + Len(Encode(sent[i]))
             /\ End(i) <= Len(written')
             /\ \A j \in 1..Len(Encode(sent[i])) : written'[End(i - 1) + j] = Encode(sent[i])[j]
  <2>1. /\ End(i) = End(i - 1) + Len(Encode(sent[i])) /\ End(i) <= Len(written)
        /\ \A j \in 1..Len(Encode(sent[i])) : written[End(i - 1) + j] = Encode(sent[i])[j]
    BY DEF IInv, EndsInv
  <2>2. End(i) \in Nat /\ End(i - 1) \in Nat /\ Len(Encode(sent[i])) \in Nat
    <3>1. i \in 0..Kept /\ i - 1 \in 0..Kept /\ i \in 1..Len(sent)
      BY <1>2
    <3>2. sent[i] \in InputEvent
      BY <3>1, Numbers DEF IInv
    <3>3. QED BY <3>1, <3>2, Numbers, TagTellsLength DEF IInv
  <2>3. ASSUME NEW j \in 1..Len(Encode(sent[i])) PROVE written'[End(i - 1) + j] = Encode(sent[i])[j]
    <3>1. End(i - 1) + j \in 1..Len(written)
      BY SMTT(30), <1>2, <2>1, <2>2
    <3>2. QED BY <2>1, <3>1
  <2>4. End(i) <= Len(written')
    BY <1>2, <2>1, <2>2
  <2>5. QED BY <2>1, <2>3, <2>4
<1>4. QED BY <1>1, <1>2, <1>3 DEF EndsInv

LEMMA Shifts ==
    /\ \A r, l, m \in Nat : m < l => r + m + (l - m) = r + l /\ l - m > 0
    /\ \A e, w, m \in Nat : e <= w => e <= w + m
OBVIOUS

(* A part of an event, into a socket that takes parts.                     *)
LEMMA WrotePart ==
    ASSUME IInv, NEW n \in 1..Len(left), Wrote(n), pc = "write", n < Len(left)
    PROVE  NetInv' /\ EndsInv' /\ RestInv'
<1>1. /\ Len(written') = Len(written) + n /\ Len(written) \in Nat
      /\ Len(left') = Len(left) - n /\ Len(left) \in Nat
      /\ \A i \in 1..Len(written) : written'[i] = written[i]
      /\ \A j \in 1..n : written'[Len(written) + j] = left[j]
      /\ \A j \in 1..(Len(left) - n) : left'[j] = left[n + j]
  BY WroteBytes DEF IInv
<1>2. pc' = "write" /\ ~whole /\ UNCHANGED <<whole, net, sent, ends>>
  <2>1. n # Len(left)
    BY <1>1
  <2>2. QED BY <2>1 DEF Wrote, Takes, sender
<1>3. EndsInv' /\ Kept' = Kept /\ (\A i : End(i)' = End(i)) /\ Kept \in Nat /\ End(Kept) \in Nat
  <2>1. Len(written') \in Nat /\ Len(written) <= Len(written')
    BY <1>1
  <2>2. Kept \in Nat /\ End(Kept) \in Nat
    BY Numbers DEF IInv
  <2>3. QED BY <1>1, <1>2, <2>1, <2>2, EndsKept
<1>4. NetInv'
  BY <1>2, <1>3 DEF IInv, NetInv, Drawn, AllAccepted
<1> DEFINE bytes == Encode(sent[Drawn])
<1>5. /\ Rest + Len(left) = Len(bytes)
      /\ \A j \in 1..Rest : written[End(Kept) + j] = bytes[j]
      /\ \A j \in 1..Len(left) : left[j] = bytes[Rest + j]
      /\ End(Kept) <= Len(written)
  <2>1. RestInv
    BY DEF IInv
  <2>2. QED BY <2>1 DEF RestInv
<1>6. Encode(sent[Drawn])' = bytes
  BY <1>2, <1>3 DEF Drawn
<1> HIDE DEF bytes
<1>7. Rest \in Nat /\ Len(written) = End(Kept) + Rest /\ Rest' = Rest + n
  <2>1. Rest = Len(written) - End(Kept) /\ Rest' = Len(written') - End(Kept)
    BY <1>3 DEF Rest
  <2>2. End(Kept) <= Len(written)
    BY <1>5
  <2>3. QED BY SMTT(30), <1>1, <1>3, <2>1, <2>2
<1>8. ASSUME NEW j \in 1..(Rest + n) PROVE written'[End(Kept) + j] = bytes[j]
  <2>1. CASE j <= Rest
    <3>1. j \in 1..Rest /\ End(Kept) + j \in 1..Len(written)
      BY SMTT(30), <1>1, <1>3, <1>7, <2>1
    <3>2. QED BY SMTT(30), <1>1, <1>5, <3>1
  <2>2. CASE j > Rest
    <3>1. j - Rest \in 1..n /\ j - Rest \in 1..Len(left) /\ Len(written) + (j - Rest) = End(Kept) + j
          /\ Rest + (j - Rest) = j
      BY SMTT(30), <1>1, <1>3, <1>7, <2>2
    <3>2. written'[Len(written) + (j - Rest)] = left[j - Rest] /\ left[j - Rest] = bytes[Rest + (j - Rest)]
      BY <1>1, <1>5, <3>1
    <3>3. QED BY <3>1, <3>2
  <2>3. QED BY <1>7, <2>1, <2>2
<1>9. ASSUME NEW j \in 1..Len(left') PROVE left'[j] = bytes[Rest' + j]
  <2>1. j \in 1..(Len(left) - n) /\ n + j \in 1..Len(left) /\ Rest + (n + j) = Rest' + j
    BY <1>1, <1>7
  <2>2. left'[j] = left[n + j] /\ left[n + j] = bytes[Rest + (n + j)]
    BY <1>1, <1>5, <2>1
  <2>3. QED BY <2>1, <2>2
<1>10. Rest' + Len(left') = Len(bytes) /\ Len(left') > 0 /\ End(Kept)' <= Len(written')
  <2>1. End(Kept)' = End(Kept)
    BY <1>3
  <2>2. Rest + Len(left) = Len(bytes) /\ End(Kept) <= Len(written) /\ End(Kept) \in Nat
    BY <1>3, <1>5
  <2>3. /\ Len(left') = Len(left) - n /\ n < Len(left)
        /\ Len(written') = Len(written) + n /\ Rest' = Rest + n
    BY <1>1, <1>7
  <2>4. Rest \in Nat /\ Len(left) \in Nat /\ n \in Nat /\ Len(written) \in Nat
    BY <1>1, <1>7
  <2>5. Rest' + Len(left') = Len(bytes) /\ Len(left') > 0
    BY <2>2, <2>3, <2>4, Shifts
  <2>6. QED BY <2>1, <2>2, <2>3, <2>4, <2>5, Shifts
<1>11. RestInv'
  <2>1. End(Kept)' = End(Kept)
    BY <1>3
  <2>2. QED BY <1>2, <1>6, <1>7, <1>8, <1>9, <1>10, <2>1 DEF RestInv
<1>12. QED BY <1>3, <1>4, <1>11

(* The closing reset.                                                      *)
LEMMA WroteReset ==
    ASSUME IInv, NEW n \in 1..Len(left), Wrote(n), pc = "reset"
    PROVE  NetInv' /\ EndsInv' /\ RestInv' /\ pc' = "done"
<1>1. left = <<5>> /\ n = 1 /\ Len(left) = 1
  <2>1. left = <<5>>
    <3>1. RestInv
      BY DEF IInv
    <3>2. left = Encode(Reset)
      BY <3>1 DEF RestInv
    <3>3. QED BY <3>2 DEF Encode, Reset
  <2>2. QED BY <2>1
<1>2. /\ Len(written') = Len(written) + 1 /\ Len(written) \in Nat
      /\ \A i \in 1..Len(written) : written'[i] = written[i]
      /\ written'[Len(written) + 1] = 5
  BY <1>1, WroteBytes DEF IInv
<1>3. pc' = "done" /\ UNCHANGED <<whole, sent, ends>>
  BY <1>1 DEF Wrote, sender
<1>4. NetInv'
  BY <1>3 DEF NetInv
<1>5. EndsInv' /\ Kept' = Kept /\ (\A i : End(i)' = End(i)) /\ End(Kept) \in Nat
  <2>1. Len(written') \in Nat /\ Len(written) <= Len(written')
    BY <1>2
  <2>2. Kept \in Nat /\ End(Kept) \in Nat
    BY Numbers DEF IInv
  <2>3. QED BY <1>2, <1>3, <2>1, <2>2, EndsKept
<1>6. /\ End(Kept) <= Len(written)
      /\ Rest > 0 => ~whole /\ Rest < EncodedLen(written[End(Kept) + 1])
  <2>1. RestInv
    BY DEF IInv
  <2>2. QED BY <2>1 DEF RestInv
<1>7. Rest \in Nat /\ Rest = Len(written) - End(Kept) /\ Rest' = Rest + 1 /\ End(Kept)' = End(Kept)
  <2>1. Rest = Len(written) - End(Kept) /\ Rest' = Len(written') - End(Kept) /\ End(Kept)' = End(Kept)
    BY <1>5 DEF Rest
  <2>2. QED BY <1>2, <1>5, <1>6, <2>1
<1>8. RestInv'
  <2>1. End(Kept)' <= Len(written')
    BY <1>2, <1>5, <1>6, <1>7
  <2>2. CASE Rest = 0
    <3>1. written'[End(Kept) + 1] = 5
      <4>1. End(Kept) = Len(written)
        BY <1>2, <1>5, <1>7, <2>2
      <4>2. QED BY <1>2, <4>1
    <3>2. EncodedLen(5) = 1
      BY DEF EncodedLen
    <3>3. QED BY <1>3, <1>7, <2>1, <2>2, <3>1, <3>2 DEF RestInv
  <2>3. CASE Rest > 0
    <3>1. written'[End(Kept) + 1] = written[End(Kept) + 1]
      <4>1. End(Kept) + 1 \in 1..Len(written)
        BY <1>2, <1>5, <1>7, <2>3
      <4>2. QED BY <1>2, <4>1
    <3>2. EncodedLen(written[End(Kept) + 1]) \in Nat
      BY DEF EncodedLen
    <3>3. Rest + 1 <= EncodedLen(written[End(Kept) + 1]) /\ ~whole
      BY <1>6, <1>7, <2>3, <3>2
    <3>4. QED BY <1>3, <1>7, <2>1, <3>1, <3>3 DEF RestInv
  <2>4. QED BY <1>7, <2>2, <2>3
<1>9. QED BY <1>3, <1>4, <1>5, <1>8

(* What was decoded is where it was.                                       *)
LEMMA ReadWrote ==
    ASSUME IInv, NEW n \in 1..Len(left), Wrote(n), EndsInv'
    PROVE  ReadInv'
<1>1. /\ pc \in {"write", "reset"} /\ UNCHANGED <<whole, sent, parsed, agent, batch, played>>
      /\ ends' = ends \/ ends' = Append(ends, Len(written'))
  BY DEF Wrote, sender, reader
<1>2. Decoded' = Decoded /\ Reading' = Reading /\ \A k : FromClient(k)' = FromClient(k)
  BY <1>1 DEF Decoded, Reading, FromClient
<1>3. /\ agent # "decoding" => batch = <<>>
      /\ agent = "rejected" => ~whole
      /\ Len(Decoded) <= Kept /\ FromClient(Len(Decoded)) /\ (Reading => parsed = End(Len(Decoded)))
  BY <1>1 DEF IInv, ReadInv
<1>4. Kept \in Nat /\ Len(Decoded) \in Nat /\ Kept <= Kept' /\ \A i \in 0..Kept : End(i)' = End(i)
  <2>1. ends \in Seq(Nat) /\ Kept \in Nat /\ Len(written') \in Nat
    <3>1. Len(written') \in Nat
      BY WroteBytes DEF IInv
    <3>2. QED BY <3>1, Numbers DEF IInv, TypeOK
  <2>2. Len(Decoded) \in Nat
    BY ConcatProperties, LenProperties DEF Decoded, IInv, TypeOK
  <2>3. CASE ends' = ends
    BY <2>1, <2>2, <2>3 DEF Kept, End
  <2>4. CASE ends' = Append(ends, Len(written'))
    <3>1. Len(ends') = Len(ends) + 1 /\ \A i \in 1..Len(ends) : ends'[i] = ends[i]
      BY <2>1, <2>4, AppendProperties
    <3>2. ASSUME NEW i \in 0..Kept PROVE End(i)' = End(i)
      <4>1. i = 0 \/ i \in 1..Len(ends)
        BY <2>1 DEF Kept
      <4>2. QED BY <3>1, <4>1 DEF End
    <3>3. Kept <= Kept'
      BY <2>1, <3>1 DEF Kept
    <3>4. QED BY <2>1, <2>2, <3>2, <3>3
  <2>5. QED BY <1>1, <2>3, <2>4
<1> DEFINE k == Len(Decoded)
<1>5. k <= Kept' /\ End(k)' = End(k) /\ k = Len(Decoded)'
  <2>1. k \in 0..Kept /\ k <= Kept'
    <3>1. k \in Nat /\ k <= Kept /\ Kept <= Kept' /\ Kept \in Nat /\ Kept' \in Nat
      BY <1>1, <1>3, <1>4, LenProperties DEF Kept, EndsInv
    <3>2. QED BY <3>1
  <2>2. ASSUME NEW i \in 0..Kept, i = k PROVE End(k)' = End(k)
    <3>1. i = k'
      BY <1>2, <2>2
    <3>2. QED BY <1>4, <2>2, <3>1
  <2>3. QED BY <1>2, <2>1, <2>2
<1>6. QED BY <1>1, <1>2, <1>3, <1>5 DEF ReadInv

LEMMA WriteKeeps == ASSUME IInv, Write PROVE NetInv' /\ EndsInv' /\ RestInv' /\ ReadInv'
<1>1. PICK n \in 1..Len(left) : Wrote(n)
  BY DEF Write, Wrote
<1>2. NetInv' /\ EndsInv' /\ RestInv'
  <2>1. Len(left) \in Nat
    BY Numbers DEF IInv
  <2>2. CASE pc = "write"
    <3>1. n < Len(left) \/ n = Len(left)
      BY <2>1
    <3>2. QED BY <1>1, <2>2, <3>1, WroteEvent, WrotePart
  <2>3. CASE pc = "reset"
    BY <1>1, <2>3, WroteReset
  <2>4. QED BY <1>1, <2>2, <2>3 DEF Wrote
<1>3. QED BY <1>1, <1>2, ReadWrote

-----------------------------------------------------------------------------
(* The agent.  None of its steps is about the client or the relay.         *)
LEMMA ReaderAlone ==
    ASSUME IInv, UNCHANGED <<whole, sender, relay>>
    PROVE  /\ NetInv' /\ EndsInv' /\ RestInv' /\ Kept' = Kept
           /\ \A i : End(i)' = End(i)
<1>1. UNCHANGED <<whole, net, sent, pc, left, written, ends>>
  BY DEF sender, relay
<1>2. Kept' = Kept /\ Drawn' = Drawn /\ (\A i : End(i)' = End(i))
  BY <1>1 DEF Kept, Drawn, End
<1>3. Rest' = Rest /\ End(Kept)' = End(Kept)
  BY <1>1, <1>2 DEF Rest, Kept, End
<1>4. NetInv'
  BY <1>1, <1>2 DEF IInv, NetInv, AllAccepted
<1>5. EndsInv'
  BY <1>1, <1>2 DEF IInv, EndsInv
<1>6. RestInv'
  BY <1>1, <1>2, <1>3 DEF IInv, RestInv
<1>7. QED BY <1>2, <1>4, <1>5, <1>6

(* Lengths of what was decoded.                                            *)
LEMMA DecodedLength ==
    ASSUME TypeOK
    PROVE  /\ Decoded \in Seq(InputEvent) /\ Len(Decoded) \in Nat /\ Len(played) \in Nat
           /\ Len(played) <= Len(Decoded)
           /\ \A i \in 1..Len(played) : Decoded[i] = played[i]
           /\ batch = <<>> => Decoded = played
<1>1. played \in Seq(InputEvent) /\ batch \in Seq(InputEvent) /\ Len(played) \in Nat /\ Len(batch) \in Nat
  BY LenProperties DEF TypeOK
<1>2. /\ Decoded \in Seq(InputEvent) /\ Len(Decoded) = Len(played) + Len(batch)
      /\ \A i \in 1..Len(Decoded) :
             Decoded[i] = IF i <= Len(played) THEN played[i] ELSE batch[i - Len(played)]
  BY <1>1, ConcatProperties DEF Decoded
<1>3. ASSUME batch = <<>> PROVE Decoded = played
  BY <1>1, <1>3, ConcatEmptySeq DEF Decoded
<1>4. QED BY <1>1, <1>2, <1>3

(* The agent returns what it decoded, or reads on.                         *)
LEMMA ReadsOn ==
    ASSUME IInv, TypeOK', UNCHANGED <<whole, sender, relay, parsed>>, Decoded' = Decoded,
           agent' # "decoding" => batch' = <<>>, agent' # "rejected", Reading
    PROVE  ReadInv'
<1>1. UNCHANGED <<whole, sent, pc, written, ends>>
  BY DEF sender, relay
<1>2. Kept' = Kept /\ (\A i : End(i)' = End(i)) /\ \A k : FromClient(k)' = FromClient(k)
  BY <1>1 DEF Kept, End, FromClient
<1>3. ReadInv
  BY DEF IInv
<1>4. QED BY <1>1, <1>2, <1>3 DEF ReadInv

(* The agent ends, and events that it has decoded are lost with it.        *)
LEMMA Drops ==
    ASSUME IInv, UNCHANGED <<whole, sender, relay, played>>, batch' = <<>>, ~Reading',
           agent' = "rejected" => ~whole
    PROVE  ReadInv'
<1>1. UNCHANGED <<whole, sent, pc, written, ends>>
  BY DEF sender, relay
<1>2. Kept' = Kept
  BY <1>1 DEF Kept
<1>3. /\ Len(Decoded) \in Nat /\ Len(played) \in Nat /\ Len(played) <= Len(Decoded)
      /\ \A i \in 1..Len(played) : Decoded[i] = played[i]
  BY DecodedLength DEF IInv
<1>4. Decoded' = played
  BY ConcatEmptySeq DEF Decoded, IInv, TypeOK
<1>5. Kept \in Nat /\ Len(sent) \in Nat /\ Kept <= Len(sent)
  BY Numbers DEF IInv, EndsInv
<1>6. ASSUME NEW k \in Nat, k <= Len(played), FromClient(k) PROVE FromClient(k)'
  BY <1>1, <1>3, <1>4, <1>6 DEF FromClient
<1>7. \/ Len(Decoded) <= Kept /\ FromClient(Len(Decoded))
      \/ /\ Len(Decoded) = Kept + 1 /\ FromClient(Kept) /\ pc \in {"done", "closed"}
         /\ whole => Decoded[Len(Decoded)] = Reset
  BY DEF IInv, ReadInv
<1>8. CASE Len(played) <= Kept
  <2>1. FromClient(Len(played))
    BY <1>3, <1>5, <1>7, <1>8 DEF FromClient
  <2>2. FromClient(Len(played))'
    <3>1. ASSUME NEW k, k = Len(played) PROVE FromClient(k)' /\ k = Len(Decoded')
      BY <1>3, <1>4, <1>6, <2>1, <3>1
    <3>2. QED BY <1>1, <3>1
  <2>3. QED BY <1>2, <1>4, <1>8, <2>2 DEF ReadInv
<1>9. CASE Len(played) > Kept
  <2>1. /\ Len(played) = Kept + 1 /\ Len(Decoded) = Kept + 1 /\ FromClient(Kept)
        /\ pc \in {"done", "closed"}
        /\ whole => Decoded[Len(Decoded)] = Reset
    BY <1>3, <1>5, <1>7, <1>9
  <2>2. Kept <= Len(played) /\ Len(played) \in 1..Len(played)
    BY <1>3, <1>5, <2>1
  <2>3. FromClient(Kept)'
    <3>1. ASSUME NEW k, k = Kept PROVE FromClient(k)'
      BY <1>5, <1>6, <2>1, <2>2, <3>1
    <3>2. QED BY <1>2, <3>1
  <2>4. whole' => played[Len(played)] = Reset
    BY <1>1, <1>3, <2>1, <2>2
  <2>5. QED BY <1>1, <1>2, <1>4, <2>1, <2>3, <2>4 DEF ReadInv
<1>10. QED BY <1>3, <1>5, <1>8, <1>9

(* What the agent finds behind the whole events, if it is long enough to   *)
(* be read as an event, is the last thing that was written.                *)
LEMMA AfterWhole ==
    ASSUME IInv, parsed = End(Kept), NextReady
    PROVE  /\ pc \in {"done", "closed"} /\ parsed + NextLen = Len(written)
           /\ whole => Decode(NextBytes) = Reset
<1>1. /\ parsed \in Nat /\ taken \in Nat /\ Len(written) \in Nat /\ taken <= Len(written)
      /\ parsed < taken /\ parsed + NextLen <= taken /\ NextLen \in Nat
  <2>1. parsed \in 0..taken /\ taken \in 0..Len(written) /\ Len(written) \in Nat
    BY Numbers DEF IInv, TypeOK
  <2>2. NextLen \in Nat
    BY DEF NextLen, EncodedLen
  <2>3. parsed < taken /\ parsed + NextLen <= taken
    BY DEF NextReady
  <2>4. QED BY <2>1, <2>2, <2>3
<1>2. Rest = Len(written) - parsed /\ NextLen = EncodedLen(written[End(Kept) + 1])
  BY DEF Rest, NextLen
<1>3. Rest > 0 /\ NextLen <= Rest /\ Rest \in Nat
  BY SMTT(30), <1>1, <1>2
<1>4. RestInv
  BY DEF IInv
<1>5. pc # "read"
  BY <1>3, <1>4 DEF RestInv
<1>6. pc # "write"
  <2>1. ASSUME pc = "write" PROVE Rest < NextLen
    BY <1>2, <1>3, <2>1, RestIsShort
  <2>2. QED BY <1>1, <1>3, <2>1
<1>7. pc # "reset"
  <2>1. ASSUME pc = "reset" PROVE Rest < NextLen
    BY <1>2, <1>3, <1>4, <2>1 DEF RestInv
  <2>2. QED BY <1>1, <1>3, <2>1
<1>8. pc \in {"done", "closed"}
  BY <1>5, <1>6, <1>7 DEF IInv, TypeOK
<1>9. Rest <= NextLen /\ (whole => Rest = 1 /\ written[End(Kept) + 1] = 5)
  BY <1>2, <1>3, <1>4, <1>8 DEF RestInv
<1>10. parsed + NextLen = Len(written)
  BY <1>1, <1>2, <1>3, <1>9
<1>11. ASSUME whole PROVE Decode(NextBytes) = Reset
  <2>1. /\ Encode(Reset) = <<5>> /\ Len(<<5>>) = 1 /\ <<5>>[1] = 5
        /\ Reset \in InputEvent
    BY DEF Encode, Reset, InputEvent
  <2>2. /\ parsed + Len(Encode(Reset)) <= Len(written)
        /\ \A j \in 1..Len(Encode(Reset)) : written[parsed + j] = Encode(Reset)[j]
    <3>1. parsed + 1 <= Len(written) /\ written[parsed + 1] = 5
      BY <1>1, <1>2, <1>9, <1>11
    <3>2. ASSUME NEW j \in 1..1 PROVE written[parsed + j] = <<5>>[j]
      BY <2>1, <3>1
    <3>3. QED BY <2>1, <3>1, <3>2
  <2>3. QED BY <2>1, <2>2, DecodeWhole DEF IInv
<1>12. QED BY <1>8, <1>10, <1>11

(* The next event is one of the client's; or it is the closing reset, or   *)
(* whatever a cut event and the reset read as.                             *)
LEMMA Decodes == ASSUME IInv, DecodeNext PROVE ReadInv'
<1>1. /\ agent = "decoding" /\ NextReady /\ UNCHANGED <<whole, sender, relay, played>>
      /\ UNCHANGED <<whole, sent, pc, written, ends, played>>
  BY DEF DecodeNext, sender, relay
<1> DEFINE event == Decode(NextBytes)
<1>2. PICK n \in Nat : n = Len(Decoded)
  BY DecodedLength DEF IInv
<1>3. /\ Kept \in Nat /\ Len(sent) \in Nat /\ Kept <= Len(sent)
      /\ Len(written) \in Nat /\ parsed \in Nat
  BY Numbers DEF IInv, EndsInv, TypeOK
<1>4. n <= Kept /\ FromClient(n) /\ parsed = End(n)
  <2>1. parsed < Len(written)
    <3>1. parsed < taken /\ taken \in 0..Len(written)
      BY <1>1 DEF NextReady, IInv, TypeOK
    <3>2. QED BY <1>3, <3>1
  <2>2. Reading
    BY <1>1 DEF Reading
  <2>3. ReadInv /\ parsed # Len(written)
    BY <1>3, <2>1 DEF IInv
  <2>4. QED BY <1>2, <2>2, <2>3 DEF ReadInv
<1>5. ASSUME n < Kept
      PROVE  /\ n + 1 \in 1..Len(sent) /\ event = sent[n + 1] /\ event \in InputEvent
             /\ parsed + NextLen = End(n + 1)
  <2>1. PICK i \in 1..Kept : i = n + 1
    BY <1>3, <1>5
  <2>2. i \in 1..Len(sent) /\ sent[i] \in InputEvent
    BY <1>3, <2>1, Numbers DEF IInv
  <2>3. /\ End(i) = End(n) + Len(Encode(sent[i])) /\ End(i) <= Len(written)
        /\ \A j \in 1..Len(Encode(sent[i])) : written[End(n) + j] = Encode(sent[i])[j]
    <3>1. i - 1 = n
      BY <2>1
    <3>2. QED BY <3>1 DEF IInv, EndsInv
  <2>4. event = sent[i] /\ NextLen = Len(Encode(sent[i]))
    BY <1>4, <2>2, <2>3, DecodeWhole DEF IInv
  <2>5. QED BY <1>4, <2>1, <2>2, <2>3, <2>4
<1>6. ASSUME n = Kept
      PROVE  /\ pc \in {"done", "closed"} /\ parsed + NextLen = Len(written)
             /\ whole => event = Reset
  BY <1>1, <1>4, <1>6, AfterWhole
<1>7. n < Kept \/ n = Kept
  BY <1>3, <1>4
<1>8. CASE event = Invalid
  <2>1. agent' = "rejected" /\ batch' = <<>> /\ ~Reading'
    BY <1>8 DEF DecodeNext, Reading
  <2>2. Reset # Invalid /\ Invalid \notin InputEvent
    BY DEF Reset, Invalid, InputEvent
  <2>3. ~whole
    BY <1>5, <1>6, <1>7, <1>8, <2>2
  <2>4. QED BY <1>1, <2>1, <2>3, Drops
<1>9. CASE event # Invalid
  <2>1. batch' = Append(batch, event) /\ parsed' = parsed + NextLen /\ agent' = "decoding"
    BY <1>1, <1>9 DEF DecodeNext
  <2>2. event \in InputEvent
    <3>1. NextBytes \in Seq(Byte)
      <4>1. parsed + NextLen \in 0..Len(written) /\ parsed + 1 \in Nat \ {0} /\ written \in Seq(Byte)
        <5>1. NextLen \in Nat
          BY DEF NextLen, EncodedLen
        <5>2. parsed + NextLen <= taken /\ taken \in 0..Len(written)
          BY <1>1 DEF NextReady, IInv, TypeOK
        <5>3. QED BY <1>3, <5>1, <5>2 DEF IInv, TypeOK
      <4>2. QED BY <4>1, SubSeqFacts DEF NextBytes
    <3>2. QED BY <1>9, <3>1, DecodedEvent
  <2> HIDE DEF event
  <2>3. Decoded' = Append(Decoded, event)
    <3>1. played \in Seq(InputEvent) /\ batch \in Seq(InputEvent) /\ <<event>> \in Seq(InputEvent)
      BY <2>2 DEF IInv, TypeOK
    <3>2. Append(batch, event) = batch \o <<event>>
      BY <2>2, <3>1, AppendIsConcat
    <3>3. Decoded' = played \o (batch \o <<event>>)
      BY <1>1, <2>1, <3>2 DEF Decoded
    <3>4. Decoded' = (played \o batch) \o <<event>>
      BY <3>1, <3>3, ConcatAssociative
    <3>5. Decoded \in Seq(InputEvent)
      BY DecodedLength DEF IInv
    <3>6. QED BY <2>2, <3>4, <3>5, AppendIsConcat DEF Decoded
  <2>4. /\ Len(Decoded') = n + 1 /\ Decoded'[n + 1] = event
        /\ \A i \in 1..n : Decoded'[i] = Decoded[i]
    <3>1. Decoded \in Seq(InputEvent)
      BY DecodedLength DEF IInv
    <3>2. QED BY <1>2, <2>2, <2>3, <3>1, AppendProperties
  <2>5. Kept' = Kept /\ \A i : End(i)' = End(i)
    BY <1>1 DEF Kept, End
  <2>6. FromClient(n)'
    BY <1>1, <1>4, <2>4 DEF FromClient
  <2>7. CASE n < Kept
    <3>1. n + 1 \in 1..Len(sent) /\ event = sent[n + 1] /\ parsed + NextLen = End(n + 1)
      BY <1>5, <2>7
    <3>2. FromClient(n + 1)'
      <4>1. ASSUME NEW i \in 1..(n + 1) PROVE Decoded'[i] = sent[i]
        <5>1. i \in 1..n \/ i = n + 1
          OBVIOUS
        <5>2. QED BY <1>4, <2>4, <3>1, <5>1 DEF FromClient
      <4>2. n + 1 <= Len(sent)
        BY <1>3, <3>1
      <4>3. QED BY <1>1, <4>1, <4>2 DEF FromClient
    <3>3. n + 1 <= Kept' /\ parsed' = End(n + 1)'
      BY <1>3, <2>1, <2>5, <2>7, <3>1
    <3>4. PICK k \in Nat : k = n + 1
      OBVIOUS
    <3>5. Len(Decoded') = k /\ k <= Kept' /\ FromClient(k)' /\ parsed' = End(k)'
      BY <2>4, <3>2, <3>3, <3>4
    <3>6. QED BY <2>1, <3>5 DEF ReadInv
  <2>8. CASE n = Kept
    <3>1. pc' \in {"done", "closed"} /\ parsed' = Len(written') /\ (whole' => event = Reset)
      BY <1>1, <1>6, <2>1, <2>8
    <3>2. Len(Decoded') = Kept' + 1 /\ FromClient(Kept)' /\ (whole' => Decoded'[Len(Decoded')] = Reset)
      <4>1. n = Kept'
        BY <2>5, <2>8
      <4>2. FromClient(Kept)'
        BY <2>6, <4>1
      <4>3. QED BY <2>4, <3>1, <4>1, <4>2
    <3>3. QED BY <2>1, <3>1, <3>2 DEF ReadInv
  <2>9. QED BY <1>7, <2>7, <2>8
<1>10. QED BY <1>8, <1>9

LEMMA ReadKeeps == ASSUME IInv, TypeOK', Agent \/ LetGo PROVE ReadInv'
<1>1. CASE ReadChunk \/ ReadEnds
  <2>1. /\ agent = "reading" /\ agent' \in {"reading", "decoding", "full", "ended"}
        /\ UNCHANGED <<whole, sender, relay, parsed, batch, played>>
    BY <1>1 DEF ReadChunk, ReadEnds
  <2>2. batch = <<>> /\ Reading /\ Decoded' = Decoded
    BY <2>1 DEF IInv, ReadInv, Reading, Decoded
  <2>3. QED BY <2>1, <2>2, ReadsOn
<1>2. CASE DecodeNext
  BY <1>2, Decodes
<1>3. CASE Return
  <2>1. /\ agent = "decoding" /\ agent' = "reading" /\ batch' = <<>> /\ played' = Decoded
        /\ UNCHANGED <<whole, sender, relay, parsed>>
    BY <1>3 DEF Return, Decoded
  <2>2. Decoded' = Decoded
    <3>1. Decoded \in Seq(InputEvent)
      BY DecodedLength DEF IInv
    <3>2. Decoded \o <<>> = Decoded
      BY <3>1, ConcatEmptySeq
    <3>3. Decoded' = played' \o batch'
      BY DEF Decoded
    <3>4. QED BY <2>1, <3>2, <3>3
  <2>3. QED BY <2>1, <2>2, ReadsOn DEF Reading
<1>4. CASE LetGo
  BY <1>4, Drops DEF LetGo, Reading
<1>5. QED BY <1>1, <1>2, <1>3, <1>4 DEF Agent

LEMMA Initially == Init => IInv
<1> SUFFICES ASSUME Init PROVE IInv
  OBVIOUS
<1>1. /\ net = <<>> /\ sent = <<>> /\ pc = "read" /\ left = <<>> /\ written = <<>> /\ ends = <<>>
      /\ parsed = 0 /\ agent = "reading" /\ batch = <<>> /\ played = <<>> /\ Len(<<>>) = 0
  BY DEF Init
<1>2. TypeOK
  BY TypeInit
<1>3. Kept = 0 /\ Drawn = 0 /\ End(0) = 0 /\ Rest = 0
  BY <1>1 DEF Kept, Drawn, End, Rest
<1>4. NetInv
  BY <1>1, <1>3 DEF NetInv
<1>5. EndsInv
  BY <1>1, <1>3 DEF EndsInv
<1>6. RestInv
  BY <1>1, <1>3 DEF RestInv
<1>7. ReadInv
  <2>1. Decoded = <<>> /\ Len(Decoded) = 0
    BY <1>1 DEF Decoded
  <2>2. QED BY <1>1, <1>3, <2>1 DEF ReadInv, FromClient
<1>8. QED BY <1>2, <1>4, <1>5, <1>6, <1>7 DEF IInv

LEMMA Inductive == ASSUME IInv, [Next]_vars PROVE IInv'
<1>1. CASE UNCHANGED vars
  <2>1. TypeOK'
    BY <1>1 DEF IInv, TypeOK, vars, sender, relay, reader
  <2>2. NetInv' /\ EndsInv' /\ RestInv'
    BY <1>1, ReaderAlone DEF vars
  <2>3. ReadInv'
    <3>1. UNCHANGED <<whole, sender, relay, parsed, agent, batch, played, sent, pc, written, ends>>
      BY <1>1 DEF vars, reader, sender, relay
    <3>2. /\ Decoded' = Decoded /\ Reading' = Reading /\ Kept' = Kept
          /\ (\A i : End(i)' = End(i)) /\ \A k : FromClient(k)' = FromClient(k)
      BY <3>1 DEF Decoded, Reading, Kept, End, FromClient
    <3>3. QED BY <3>1, <3>2 DEF IInv, ReadInv
  <2>4. QED BY <2>1, <2>2, <2>3 DEF IInv
<1>2. CASE Client
  BY <1>2, TypeClient, NetClient, EndsClient, RestClient, ReadClient DEF IInv
<1>3. CASE Relay \/ DaemonDies
  <2>1. TypeOK'
    BY <1>3, TypeRelay DEF IInv
  <2>2. NetInv' /\ EndsInv' /\ RestInv' /\ ReadInv'
    BY <1>3, TakesFrame, StopsWriting, WriteKeeps DEF Relay
  <2>3. QED BY <2>1, <2>2 DEF IInv
<1>4. CASE Agent \/ LetGo
  <2>1. TypeOK'
    BY <1>4, TypeAgent DEF IInv
  <2>2. UNCHANGED <<whole, sender, relay>>
    BY <1>4 DEF Agent, ReadChunk, ReadEnds, DecodeNext, Return, LetGo
  <2>3. NetInv' /\ EndsInv' /\ RestInv'
    BY <2>2, ReaderAlone
  <2>4. ReadInv'
    BY <1>4, <2>1, ReadKeeps
  <2>5. QED BY <2>1, <2>3, <2>4 DEF IInv
<1>5. QED BY <1>1, <1>2, <1>3, <1>4 DEF Next

LEMMA Invariant == Spec => []IInv
<1>1. IInv /\ [Next]_vars => IInv'
  BY Inductive
<1>2. QED BY <1>1, Initially, PTL DEF Spec

(* Two sequences that agree have the same beginning.                       *)
LEMMA SamePrefix ==
    ASSUME TypeOK, NEW k \in Nat, k <= Len(played), k <= Len(sent),
           \A i \in 1..k : played[i] = sent[i]
    PROVE  SubSeq(played, 1, k) = SubSeq(sent, 1, k)
<1>1. played \in Seq(InputEvent) /\ sent \in Seq(InputEvent) /\ Len(played) \in Nat /\ Len(sent) \in Nat
  BY LenProperties DEF TypeOK
<1>2. k \in 0..Len(played) /\ k \in 0..Len(sent)
  BY <1>1
<1> DEFINE p == SubSeq(played, 1, k)
           q == SubSeq(sent, 1, k)
<1>3. /\ p \in Seq(InputEvent) /\ Len(p) = IF 1 <= k THEN k - 1 + 1 ELSE 0
      /\ \A i \in 1..(k - 1 + 1) : p[i] = played[1 + i - 1]
  BY <1>1, <1>2, SubSeqFacts
<1>4. /\ q \in Seq(InputEvent) /\ Len(q) = IF 1 <= k THEN k - 1 + 1 ELSE 0
      /\ \A i \in 1..(k - 1 + 1) : q[i] = sent[1 + i - 1]
  BY <1>1, <1>2, SubSeqFacts
<1> HIDE DEF p, q
<1>5. Len(p) = k /\ Len(q) = k
  BY <1>3, <1>4
<1>6. ASSUME NEW i \in 1..k PROVE p[i] = q[i]
  <2>1. i \in 1..(k - 1 + 1) /\ 1 + i - 1 = i
    OBVIOUS
  <2>2. QED BY <1>3, <1>4, <2>1
<1>7. p = q
  BY <1>3, <1>4, <1>5, <1>6, SeqEqual
<1>8. QED BY <1>7 DEF p, q

(* The agent plays what the client sent, whole, in order, without a gap,   *)
(* whatever the frames and however the socket cuts them, and at most one   *)
(* event at the end that nobody sent.                                      *)
THEOREM Ordered == Spec => []InOrder
<1>1. ASSUME IInv PROVE InOrder
  <2>1. TypeOK
    BY <1>1 DEF IInv
  <2>2. /\ Len(Decoded) \in Nat /\ Len(played) \in Nat /\ Len(played) <= Len(Decoded)
        /\ \A i \in 1..Len(played) : Decoded[i] = played[i]
    BY <2>1, DecodedLength
  <2>3. Kept \in Nat /\ Len(sent) \in Nat /\ Kept <= Len(sent)
    BY <1>1, <2>1, Numbers DEF IInv, EndsInv
  <2>4. \/ Len(Decoded) <= Kept /\ FromClient(Len(Decoded))
        \/ /\ Len(Decoded) = Kept + 1 /\ FromClient(Kept)
           /\ whole => Decoded[Len(Decoded)] = Reset
    BY <1>1 DEF IInv, ReadInv
  <2>5. ASSUME NEW k \in Nat, k <= Len(played), k <= Kept
        PROVE  k <= Len(sent) /\ SubSeq(played, 1, k) = SubSeq(sent, 1, k)
    <3>1. ASSUME NEW i \in 1..k PROVE played[i] = sent[i]
      <4>1. i \in 1..Len(played) /\ i \in 1..Kept /\ (Len(Decoded) <= Kept => i \in 1..Len(Decoded))
        BY <2>2, <2>3, <2>5
      <4>2. QED BY <2>2, <2>4, <4>1 DEF FromClient
    <3>2. k <= Len(sent)
      BY <2>3, <2>5
    <3>3. QED BY <2>1, <2>5, <3>1, <3>2, SamePrefix
  <2>6. CASE Len(played) <= Kept
    BY <2>2, <2>5, <2>6 DEF InOrder
  <2>7. CASE Len(played) > Kept
    <3>1. /\ Len(played) = Kept + 1 /\ Len(Decoded) = Kept + 1
          /\ whole => Decoded[Len(Decoded)] = Reset
      BY <2>2, <2>3, <2>4, <2>7
    <3>2. Len(played) - 1 \in Nat /\ Len(played) - 1 <= Len(played) /\ Len(played) - 1 <= Kept
          /\ Len(played) \in 1..Len(played)
      BY <2>2, <2>3, <3>1
    <3>3. whole => played[Len(played)] = Reset
      BY <2>2, <3>1, <3>2
    <3>4. QED BY <2>5, <3>2, <3>3 DEF InOrder
  <2>8. QED BY <2>2, <2>3, <2>6, <2>7
<1>2. QED BY <1>1, Invariant, PTL

(* Of a socket that takes small writes whole, the agent never finds bytes  *)
(* that it has to refuse.                                                  *)
THEOREM NeverRejects == Spec => []NothingRejected
<1>1. IInv => NothingRejected
  BY DEF IInv, ReadInv, NothingRejected
<1>2. QED BY <1>1, Invariant, PTL
=============================================================================
