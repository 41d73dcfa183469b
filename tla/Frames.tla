-------------------------------- MODULE Frames --------------------------------
(***************************************************************************)
(* Bytes on the wire (src/server/protocol.py): the v3 frames of the        *)
(* realtime link, the v1 packets of the bootstrap and login links, and     *)
(* their stream decoders.  A decoder is an operator from its state and one *)
(* byte to its next state and what that byte completed; Wire feeds it.     *)
(***************************************************************************)
EXTENDS Integers, SequencesExt, Bitwise

CONSTANT Bad            \* PacketError; what is not a frame, or not yet

Byte == 0..255

\* Little-endian bytes of a number, cut to their width, and their number.
ToBytes(n, width) == [i \in 1..width |-> (n \div 256 ^ (i - 1)) % 256]
\* Numbers here are below 2^31, so none is beyond a field of four bytes.
Fits(n, width) == width > 3 \/ n < 256 ^ width
Cut(n, width) == IF width > 3 THEN n ELSE n % 256 ^ width
ToNumber(bytes) ==
    LET from[i \in 1..Len(bytes) + 1] == IF i > Len(bytes) THEN 0 ELSE bytes[i] + 256 * from[i + 1]
    IN  from[1]

\* With zeros after it up to a length (ljust of a workspace).
Padded(bytes, n) == SubSeq(bytes \o [i \in 1..n |-> 0], 1, n)

rstrip(bytes) ==
    SubSeq(bytes, 1, Max({0} \cup {i \in DOMAIN bytes : bytes[i] # 0}))

\* What bytes make of a state, one after the other.  TLC works out the state after
\* the first half before the second begins, and so nests no deeper for a long
\* frame than for a short one.
Through(Step(_, _), state, bytes) ==
    LET RECURSIVE Between(_, _, _)
        Between(s, i, j) ==
            LET half == (i + j) \div 2
            IN  IF i = j THEN Step(s, bytes[i])
                ELSE CHOOSE all \in {Between(first, half + 1, j) : first \in {Between(s, i, half)}} : TRUE
    IN  IF bytes = <<>> THEN state ELSE Between(state, 1, Len(bytes))

-----------------------------------------------------------------------------
(* v3.                                                                      *)

REALTIME_V3_HEAD_BYTES == 6
REALTIME_V3_MAX_PAYLOAD == 54
REALTIME_V3_WORKSPACE == 64
REALTIME_VERSION_V3 == 3
MAX_ENCODED == REALTIME_V3_HEAD_BYTES + REALTIME_V3_MAX_PAYLOAD + 2 + 2

Shifted(crc) == IF crc >= 32768 THEN ((2 * crc) % 65536) ^^ 4129 ELSE 2 * crc
CrcOf ==
    [b \in Byte |-> LET after[bits \in 0..8] == IF bits = 0 THEN 256 * b ELSE Shifted(after[bits - 1])
                    IN  after[8]]
XorOf == [a \in Byte |-> [b \in Byte |-> a ^^ b]]
\* Its low byte moves up, under what the tables say of its high byte.
Crc(crc, byte) ==
    LET of == CrcOf[XorOf[crc \div 256][byte]]
    IN  256 * XorOf[crc % 256][of \div 256] + (of % 256)
crc16_ccitt(bytes) == Through(Crc, 65535, bytes)

\* A block for what precedes each zero, and one for what follows the last.  A
\* frame is far shorter than the 254 bytes a full block would take.
RECURSIVE encode_cobs(_)
encode_cobs(bytes) ==
    LET zeros == {i \in DOMAIN bytes : bytes[i] = 0}
        end == Min(zeros)
    IN  IF zeros = {} THEN <<Len(bytes) + 1>> \o bytes
        ELSE <<end>> \o SubSeq(bytes, 1, end - 1) \o encode_cobs(SubSeq(bytes, end + 1, Len(bytes)))

RECURSIVE decode_cobs(_)
decode_cobs(bytes) ==
    IF bytes = <<>> THEN <<>>
    ELSE LET code == Head(bytes)
             tail == SubSeq(bytes, code + 1, Len(bytes))
             rest == decode_cobs(tail)
         IN  IF code = 0 \/ code > Len(bytes) \/ rest = Bad THEN Bad
             ELSE SubSeq(bytes, 2, code)
                  \o (IF code # 255 /\ tail # <<>> THEN <<0>> ELSE <<>>) \o rest

\* Mutant: the CRC is not looked at.
RawUnchecked(bytes) ==
    IF Len(bytes) >= 8 /\ bytes[2] = REALTIME_VERSION_V3 /\ Len(bytes) >= bytes[1] + 8
    THEN SubSeq(bytes, 1, bytes[1] + 8) ELSE Bad

\* What it starts with, if that is a whole frame.
_try_raw_realtime(bytes) ==
    LET end == REALTIME_V3_HEAD_BYTES + bytes[1]
    IN  IF /\ Len(bytes) >= REALTIME_V3_HEAD_BYTES + 2
           /\ bytes[1] <= REALTIME_V3_MAX_PAYLOAD
           /\ bytes[2] = REALTIME_VERSION_V3
           /\ Len(bytes) >= end + 2
           /\ crc16_ccitt(SubSeq(bytes, 1, end)) = ToNumber(SubSeq(bytes, end + 1, end + 2))
        THEN SubSeq(bytes, 1, end + 2) ELSE Bad

\* A raw frame is tried before the encoding is undone.
_normalize_realtime(bytes) ==
    LET raw == _try_raw_realtime(bytes)
        decoded == decode_cobs(rstrip(bytes))
    IN  IF raw # Bad THEN raw
        ELSE IF decoded = Bad THEN Bad ELSE _try_raw_realtime(decoded)

\* _realtime_base and _finalize_realtime: the frame of a payload.
_finalize_realtime(type, status, seq, payload) ==
    LET sent == rstrip(payload)
        raw == <<Len(sent), REALTIME_VERSION_V3, type, status % 256>> \o ToBytes(seq, 2) \o sent
    IN  IF Len(sent) > REALTIME_V3_MAX_PAYLOAD THEN Bad
        ELSE encode_cobs(raw \o ToBytes(crc16_ccitt(raw), 2)) \o <<0>>

\* The fields of a raw frame, its payload padded again.
_validate_realtime(raw) ==
    [type |-> raw[3], status |-> raw[4], seq |-> ToNumber(SubSeq(raw, 5, 6)),
     payload |-> Padded(SubSeq(raw, 7, Len(raw) - 2), REALTIME_V3_WORKSPACE - REALTIME_V3_HEAD_BYTES)]

NewDecoder == [buffer |-> <<>>, discarding |-> FALSE]

\* RealtimeFrameDecoder.feed, one byte of it.
FeedV3(d, byte) ==
    LET frame == _normalize_realtime(d.buffer)
    IN  IF byte = 0
        THEN <<NewDecoder, IF d.discarding \/ d.buffer = <<>> THEN Bad ELSE frame>>
        ELSE IF d.discarding THEN <<d, Bad>>
        ELSE IF Len(d.buffer) >= MAX_ENCODED
        THEN <<[buffer |-> <<>>, discarding |-> TRUE], Bad>>
        ELSE <<[d EXCEPT !.buffer = Append(@, byte)], Bad>>

-----------------------------------------------------------------------------
(* v1.                                                                      *)

MAGIC == 191
VERSION == 1

checksum(bytes) == Through(LAMBDA sum, byte : sum + byte, 0, bytes) % 256

encode_packet(type, payload) ==
    LET head == <<MAGIC, VERSION, type, Len(payload)>> \o payload
    IN  IF Len(payload) > 255 THEN Bad ELSE Append(head, checksum(head))

decode_packet(bytes) ==
    IF /\ Len(bytes) >= 5
       /\ bytes[1] = MAGIC /\ bytes[2] = VERSION
       /\ Len(bytes) = bytes[4] + 5
       /\ checksum(Front(bytes)) = Last(bytes)
    THEN [type |-> bytes[3], payload |-> SubSeq(bytes, 5, Len(bytes) - 1)] ELSE Bad

\* PacketStreamDecoder.feed, one byte of it.
FeedV1(d, byte) ==
    LET buffer == Append(d.buffer, byte)
    IN  IF d.buffer = <<>> /\ byte # MAGIC THEN <<d, Bad>>
        ELSE IF Len(buffer) >= 4 /\ Len(buffer) = buffer[4] + 5
        THEN <<NewDecoder, decode_packet(buffer)>>
        ELSE <<[d EXCEPT !.buffer = buffer], Bad>>
=============================================================================
