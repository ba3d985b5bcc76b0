----------------------------- MODULE FrameCodec -----------------------------
(***************************************************************************)
(* The three framings of a client's MTProto stream (abridged, intermediate *)
(* and secure intermediate), which the repository implements three times:  *)
(* read_client_payload / write_client_payload of proxy/middle_relay.rs     *)
(* ("relay"), the codecs of stream/frame_codec.rs ("codec") and the frame  *)
(* readers and writers of stream/frame_stream.rs ("stream").               *)
(*                                                                         *)
(* One end writes frames with one implementation, the bytes arrive one at  *)
(* a time, and the other end reads with another.  Bytes are numbers below  *)
(* ByteBase, and a long abridged length has LongBytes bytes, so that the    *)
(* boundaries of the headers (0x7f words, the quick-ack bit, the largest   *)
(* abridged length) fall at small lengths.                                 *)
(* Simple ACKs, which are written without a header, are left out.  The     *)
(* full framing with sequence numbers and checksums is in                  *)
(* stream/frame_stream.rs only.                                            *)
(***************************************************************************)
EXTENDS Naturals, Sequences, SequencesExt

CONSTANTS
    ByteBase,       \* 256 in the code; even
    LongBytes,      \* bytes of a long abridged length: 3 in the code
    CbcPadding,     \* 16 in the code
    MaxFrame,       \* max_frame of the relay, max_frame_size of the codec
    MAX_MSG_LEN,    \* of a message in the full framing
    Lengths,        \* payload lengths a sender may use
    Ends,           \* <<tag, writer, reader>> combinations
    MaxSent         \* bound: frames sent

ASSUME FrameCodecAssumption ==
    /\ ByteBase \in Nat \ {0, 1} /\ ByteBase % 2 = 0
    /\ CbcPadding \in Nat \ {0}
    /\ LongBytes \in Nat \ {0}
    /\ MaxFrame \in Nat /\ MAX_MSG_LEN \in Nat /\ MaxSent \in Nat
    /\ Lengths \subseteq Nat
    /\ Ends \subseteq {"abridged", "intermediate", "secure", "full"}
                        \X {"relay", "codec", "stream"} \X {"relay", "codec", "stream"}

VARIABLES
    ends,       \* the combination of this connection
    frames,     \* frames sent: [data, quickack]
    inflight,   \* bytes sent and not yet arrived
    rbuf,       \* bytes arrived and not yet decoded
    decoded,    \* frames decoded
    fstatus     \* "open", or "err" after the reader rejected the stream

frameVars == <<ends, frames, inflight, rbuf, decoded, fstatus>>

tag == ends[1]
writer == ends[2]
reader == ends[3]

----------------------------------------------------------------------------
\* Little-endian bytes and headers.

LittleEndian(n, width) == [i \in 1..width |-> (n \div ByteBase^(i - 1)) % ByteBase]

FromLittleEndian(bytes) ==
    FoldLeft(LAMBDA acc, i : acc + bytes[i] * ByteBase^(i - 1), 0, [i \in DOMAIN bytes |-> i])

AckBit(width) == ByteBase^width \div 2      \* 0x80, 0x80000000
LongMark == ByteBase \div 2 - 1             \* 0x7f

Aligned(len) == len % 4 = 0

secure_padding_len == 1..3

\* secure_payload_len_from_wire_len: truncate to a multiple of four.
secure_payload_len(len) == len - (len % 4)

\* Any function of the bytes will do for the checksum.
crc32(bytes) == LittleEndian(FoldLeft(LAMBDA acc, b : acc + b, 0, bytes), 4)

----------------------------------------------------------------------------
\* Writers.  Each gives the set of byte strings a frame may become: the padding
\* of a secure frame is random, and the set is empty where the writer returns an
\* error and writes nothing.

\* A slip: the mark of a long length is taken for a short one.
Abridged_short_mark(data, ack) ==
    LET words == Len(data) \div 4
        bit == IF ack THEN AckBit(1) ELSE 0
    IN {head \o data : head \in
            IF ~Aligned(Len(data)) THEN {}
            ELSE IF words <= LongMark THEN {<<words + bit>>}
            ELSE IF words < ByteBase^LongBytes
                 THEN {<<LongMark + bit>> \o LittleEndian(words, LongBytes)}
            ELSE {}}

Abridged(data, ack) ==
    LET words == Len(data) \div 4
        bit == IF ack THEN AckBit(1) ELSE 0
    IN {head \o data : head \in
            IF ~Aligned(Len(data)) THEN {}
            ELSE IF words < LongMark THEN {<<words + bit>>}
            ELSE IF words < ByteBase^LongBytes
                 THEN {<<LongMark + bit>> \o LittleEndian(words, LongBytes)}
            ELSE {}}

Intermediate(data, ack, padding) ==
    LittleEndian(Len(data) + padding + (IF ack THEN AckBit(4) ELSE 0), 4)
        \o data \o [i \in 1..padding |-> 0]

Secure(data, ack) ==
    {Intermediate(data, ack, p) : p \in IF Aligned(Len(data)) THEN secure_padding_len ELSE {}}

encode_abridged(f) == Abridged(f.data, f.quickack)
encode_intermediate(f) == {Intermediate(f.data, f.quickack, 0)}
encode_secure(f) == Secure(f.data, f.quickack)

codec_encode(f) ==
    CASE tag = "abridged" -> encode_abridged(f)
      [] tag = "intermediate" -> encode_intermediate(f)
      [] tag = "secure" -> encode_secure(f)

\* The frame writers of stream/frame_stream.rs never set the quick-ack bit.
AbridgedFrameWriter(f) == Abridged(f.data, FALSE)
IntermediateFrameWriter(f) == {Intermediate(f.data, FALSE, 0)}
SecureIntermediateFrameWriter(f) == Secure(f.data, FALSE)

\* The full framing: length, sequence number, data, checksum, fillers to a block.
MtprotoFrameWriter(f) ==
    LET head == LittleEndian(Len(f.data) + 12, 4) \o LittleEndian(Len(frames), 4) \o f.data
        total == Len(head) + 4
        fillers == ((CbcPadding - (total % CbcPadding)) % CbcPadding) \div 4
    IN {head \o crc32(head) \o FlattenSeq([i \in 1..fillers |-> LittleEndian(4, 4)])}

FrameWriterKind(f) ==
    CASE tag = "abridged" -> AbridgedFrameWriter(f)
      [] tag = "intermediate" -> IntermediateFrameWriter(f)
      [] tag = "secure" -> SecureIntermediateFrameWriter(f)
      [] tag = "full" -> MtprotoFrameWriter(f)

relay_write_payload(f) ==
    CASE tag = "abridged" -> Abridged(f.data, f.quickack)
      [] tag = "intermediate" -> {Intermediate(f.data, f.quickack, 0)}
      [] tag = "secure" -> Secure(f.data, f.quickack)

write_frame(f) ==
    CASE writer = "codec" -> codec_encode(f)
      [] writer = "stream" -> FrameWriterKind(f)
      [] writer = "relay" -> relay_write_payload(f)

----------------------------------------------------------------------------
\* Readers.  A header is the bytes it takes, the length it gives and the quick
\* ack bit; `here` is false while it has not arrived.

Header(here, hlen, len, ack) == [here |-> here, hlen |-> hlen, len |-> len, ack |-> ack]
NoHeader == Header(FALSE, 0, 0, FALSE)

AbridgedHeader(buf) ==
    LET word == buf[1] % AckBit(1)
        ack == buf[1] >= AckBit(1)
    IN CASE buf = <<>> \/ (word = LongMark /\ Len(buf) <= LongBytes) -> NoHeader
         [] word = LongMark ->
                Header(TRUE, 1 + LongBytes, 4 * FromLittleEndian(SubSeq(buf, 2, 1 + LongBytes)), ack)
         [] OTHER -> Header(TRUE, 1, 4 * word, ack)

\* ackFrom is the least length word taken to carry the quick-ack bit.
IntermediateHeader(buf, ackFrom) ==
    LET value == FromLittleEndian(SubSeq(buf, 1, 4))
        ack == value >= ackFrom
    IN IF Len(buf) < 4 THEN NoHeader
       ELSE Header(TRUE, 4, value - (IF ack THEN AckBit(4) ELSE 0), ack)

\* What a reader does with the bytes at hand: wait for more, reject the stream,
\* skip bytes, or take a frame off.
Wait == [do |-> "wait", take |-> 0, frame |-> <<>>]
Reject == [do |-> "reject", take |-> 0, frame |-> <<>>]
Skip(n) == [do |-> "skip", take |-> n, frame |-> <<>>]
Frame(buf, h, len) ==
    [do |-> "frame", take |-> h.hlen + h.len,
     frame |-> [data |-> SubSeq(buf, h.hlen + 1, h.hlen + len), quickack |-> h.ack]]

BodyHere(buf, h) == Len(buf) >= h.hlen + h.len

decode_abridged(buf) ==
    LET h == AbridgedHeader(buf)
    IN CASE ~h.here -> Wait
         [] h.len > MaxFrame -> Reject
         [] ~BodyHere(buf, h) -> Wait
         [] OTHER -> Frame(buf, h, h.len)

decode_intermediate(buf) ==
    LET h == IntermediateHeader(buf, AckBit(4))
    IN CASE ~h.here -> Wait
         [] h.len > MaxFrame -> Reject
         [] ~BodyHere(buf, h) -> Wait
         [] OTHER -> Frame(buf, h, h.len)

decode_secure(buf) ==
    LET h == IntermediateHeader(buf, AckBit(4))
    IN CASE ~h.here -> Wait
         [] h.len > MaxFrame -> Reject
         [] ~BodyHere(buf, h) -> Wait
         [] h.len < 4 -> Reject
         [] OTHER -> Frame(buf, h, secure_payload_len(h.len))

codec_decode(buf) ==
    CASE tag = "abridged" -> decode_abridged(buf)
      [] tag = "intermediate" -> decode_intermediate(buf)
      [] tag = "secure" -> decode_secure(buf)

\* The frame readers of stream/frame_stream.rs have no limit, and take a length
\* word above 0x80000000, not the word itself, to carry the quick-ack bit.
AbridgedFrameReader(buf) ==
    LET h == AbridgedHeader(buf)
    IN IF h.here /\ BodyHere(buf, h) THEN Frame(buf, h, h.len) ELSE Wait

IntermediateFrameReader(buf) ==
    LET h == IntermediateHeader(buf, AckBit(4) + 1)
    IN IF h.here /\ BodyHere(buf, h) THEN Frame(buf, h, h.len) ELSE Wait

SecureIntermediateFrameReader(buf) ==
    LET h == IntermediateHeader(buf, AckBit(4) + 1)
    IN CASE ~h.here \/ ~BodyHere(buf, h) -> Wait
         [] h.len < 4 -> Reject
         [] OTHER -> Frame(buf, h, secure_payload_len(h.len))

MtprotoFrameReader(buf) ==
    LET value == FromLittleEndian(SubSeq(buf, 1, 4))
        body == SubSeq(buf, 1, value - 4)
    IN CASE Len(buf) < 4 -> Wait
         [] value = 4 -> Skip(4)
         [] value < 12 \/ value > MAX_MSG_LEN \/ ~Aligned(value) -> Reject
         [] Len(buf) < value -> Wait
         [] \/ FromLittleEndian(SubSeq(buf, 5, 8)) # Len(decoded)
            \/ SubSeq(buf, value - 3, value) # crc32(body) -> Reject
         [] OTHER -> [do |-> "frame", take |-> value,
                      frame |-> [data |-> SubSeq(buf, 9, value - 4), quickack |-> FALSE]]

FrameReaderKind(buf) ==
    CASE tag = "abridged" -> AbridgedFrameReader(buf)
      [] tag = "intermediate" -> IntermediateFrameReader(buf)
      [] tag = "secure" -> SecureIntermediateFrameReader(buf)
      [] tag = "full" -> MtprotoFrameReader(buf)

\* The relay goes on to the next header after an empty frame, and refuses bad
\* lengths before it reads the body.
read_client_payload(buf) ==
    LET h == IF tag = "abridged" THEN AbridgedHeader(buf)
             ELSE IntermediateHeader(buf, AckBit(4))
    IN CASE ~h.here -> Wait
         [] h.len = 0 -> Skip(h.hlen)
         [] h.len > MaxFrame \/ (h.len < 4 /\ tag # "abridged") -> Reject
         [] ~BodyHere(buf, h) -> Wait
         [] OTHER -> Frame(buf, h, IF tag = "secure" THEN secure_payload_len(h.len) ELSE h.len)

read_frame(buf) ==
    CASE reader = "codec" -> codec_decode(buf)
      [] reader = "stream" -> FrameReaderKind(buf)
      [] reader = "relay" -> read_client_payload(buf)

----------------------------------------------------------------------------
\* Actions.

\* Data bytes only have to tell positions apart.
Data(len) == [i \in 1..len |-> (i + Len(frames)) % ByteBase]

send(len, quickack) ==
    LET frame == [data |-> Data(len), quickack |-> quickack] IN
    /\ Len(frames) < MaxSent
    /\ \E bytes \in write_frame(frame) : inflight' = inflight \o bytes
    /\ frames' = Append(frames, frame)
    /\ UNCHANGED <<ends, rbuf, decoded, fstatus>>

arrive ==
    /\ inflight # <<>> /\ fstatus = "open"
    /\ rbuf' = Append(rbuf, Head(inflight))
    /\ inflight' = Tail(inflight)
    /\ UNCHANGED <<ends, frames, decoded, fstatus>>

receive ==
    LET r == read_frame(rbuf) IN
    /\ fstatus = "open" /\ r.do # "wait"
    /\ rbuf' = SubSeq(rbuf, r.take + 1, Len(rbuf))
    /\ decoded' = IF r.do = "frame" THEN Append(decoded, r.frame) ELSE decoded
    /\ fstatus' = IF r.do = "reject" THEN "err" ELSE "open"
    /\ UNCHANGED <<ends, frames, inflight>>

FrameInit ==
    /\ ends \in Ends
    /\ frames = <<>> /\ inflight = <<>> /\ rbuf = <<>> /\ decoded = <<>>
    /\ fstatus = "open"

FrameNext ==
    \/ \E len \in Lengths, quickack \in BOOLEAN : send(len, quickack)
    \/ arrive
    \/ receive

FrameSpec == FrameInit /\ [][FrameNext]_frameVars

----------------------------------------------------------------------------
\* Properties.

\* What a reader is expected to make of a frame: the frame writers of
\* stream/frame_stream.rs lose the quick ack, the relay drops empty frames.
Expected ==
    LET seen == SelectSeq(frames, LAMBDA f : ~(reader = "relay" /\ f.data = <<>> /\ tag # "secure"))
    IN [i \in DOMAIN seen |-> [seen[i] EXCEPT !.quickack = @ /\ writer # "stream"]]

\* A frame outside what the reader supports: over its limit (the readers of
\* stream/frame_stream.rs have one in the full framing only), under four bytes on
\* the relay, an empty secure frame, whose wire length is its padding, or an
\* unaligned one in the full framing, whose writer does not check.
Unsupported(f) ==
    \/ reader # "stream" /\ Len(f.data) + (IF tag = "secure" THEN 3 ELSE 0) > MaxFrame
    \/ reader = "relay" /\ tag # "abridged" /\ Len(f.data) \in 1..3
    \/ tag = "secure" /\ f.data = <<>>
    \/ tag = "full" /\ (~Aligned(Len(f.data)) \/ Len(f.data) + 12 > MAX_MSG_LEN)

\* The codec's state is well formed: bytes are bytes.
FrameTypeOK ==
    /\ ends \in Ends /\ fstatus \in {"open", "err"}
    /\ \A i \in DOMAIN rbuf : rbuf[i] \in 0..(ByteBase - 1)
    /\ \A i \in DOMAIN inflight : inflight[i] \in 0..(ByteBase - 1)
    /\ Len(frames) <= MaxSent

\* Wherever the byte stream is cut, and whichever of the implementations writes
\* and reads it, the frames that come out are the frames that went in: same
\* order, same bytes without padding, same quick-ack flag.
FramesInOrder == IsPrefix(decoded, Expected)

\* The limits are exact: no frame outside them comes out, and a reader rejects the
\* stream at the first such frame and at no other.
RejectsOnlyUnsupported ==
    /\ \A i \in DOMAIN decoded : ~Unsupported(decoded[i])
    /\ fstatus = "err" =>
        Len(decoded) < Len(Expected) /\ Unsupported(Expected[Len(decoded) + 1])

\* Nothing is withheld: a reader that can go no further with every byte at hand
\* has decoded every frame.  The one exception is the readers of
\* stream/frame_stream.rs and an empty frame with the quick-ack bit.
NothingWithheld ==
    (inflight = <<>> /\ fstatus = "open" /\ ~ENABLED receive) =>
        \/ decoded = Expected
        \/ reader = "stream" /\ tag = "intermediate"
           /\ \E i \in DOMAIN frames : frames[i].data = <<>> /\ frames[i].quickack

\* Frames come out as they went in and in order, for every pair of a writer and a
\* reader, at the boundaries of every header and limit; only unsupported ones are
\* rejected and none is withheld.
FramesRight == FramesInOrder /\ RejectsOnlyUnsupported /\ NothingWithheld
=============================================================================
