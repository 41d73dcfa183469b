---------------------------------- MODULE Wire ----------------------------------
(***************************************************************************)
(* A stream of packets from their encoders over a byte stream that may     *)
(* damage it to the stream decoder and the decoders of src/server/protocol.py. *)
(* One direction of one link; the same decoders stand at either end.       *)
(***************************************************************************)
EXTENDS Packets

CONSTANTS
    Scenes      \* a sequence: which link, what is sent over it, what befalls it

VARIABLES
    at,         \* the scene
    wire,       \* the bytes under way, each with the number of its frame
    decoder,    \* RealtimeFrameDecoder, or PacketStreamDecoder
    sent,       \* what the frames put on the wire say
    got,        \* what the receiver read
    hit,        \* numbers of the frames that were damaged
    damages

vars == <<at, wire, decoder, sent, got, hit, damages>>

scene == Scenes[at]
V3 == scene.link = "v3"
Encode(m) == IF V3 THEN EncodeRealtime(m) ELSE EncodeV1(m)
Decode(frame) == IF V3 THEN DecodeRealtime(frame) ELSE DecodeV1(frame)
Feed(d, byte) == IF V3 THEN FeedV3(d, byte) ELSE FeedV1(d, byte)

\* What a reader is to understand: every number as far as its field goes, as many
\* records or as much of a text as a packet of its kind takes.
Meaning(m) ==
    IF ~V3 THEN [m EXCEPT !.list = SubSeq(@, 1, Min({Len(@), 6}))]
    ELSE LET f == FormatOf(Realtime, m.type)
             Field(layout, name) == layout[CHOOSE i \in DOMAIN layout : layout[i][1] = name]
             Carried(layout, values) ==
                 [name \in DOMAIN values |-> Cut(values[name], Field(layout, name)[2])]
         IN  [m EXCEPT !.seq = @ % 65536, !.head = Carried(f.write, @),
                       !.list = [i \in 1..Min({Len(@), f.most}) |-> Carried(f.each, @[i])],
                       !.bytes = IF f.body = "text" THEN Sanitized(@, f.most) ELSE @]

\* A window of the bootstrap goes out in chunks.
Outgoing(m) == IF ~V3 /\ m.type = WINDOW.type /\ "chunk_h" \notin DOMAIN m.head THEN window_chunks(m) ELSE <<m>>

Numbered(frame, n) == IF frame = Bad THEN <<>> ELSE [k \in DOMAIN frame |-> <<frame[k], n>>]

\* The frames of a message, one after the other.
Send(m) ==
    LET out == Outgoing(m)
    IN  /\ Len(sent) < scene.frames
        /\ wire' = wire \o FlattenSeq([i \in DOMAIN out |-> Numbered(Encode(out[i]), Len(sent) + i)])
        /\ sent' = IF m \in scene.refused THEN sent ELSE sent \o [i \in DOMAIN out |-> Meaning(out[i])]
        /\ UNCHANGED <<at, decoder, got, hit, damages>>

\* The state after one byte more, and what that byte completed.
FeedByte(s, byte) ==
    LET step == Feed(s.decoder, byte)
        message == IF step[2] = Bad THEN Bad ELSE Decode(step[2])
    IN  [decoder |-> step[1], got |-> IF message = Bad THEN s.got ELSE Append(s.got, message)]

\* feed, with as many bytes as the socket had.
Deliver(count) ==
    LET taken == Min({count, Len(wire)})
        read == [n \in 1..taken |-> wire[n][1]]
        fed == Through(FeedByte, [decoder |-> decoder, got |-> got], read)
    IN  /\ wire # <<>>
        /\ wire' = SubSeq(wire, taken + 1, Len(wire))
        /\ decoder' = fed.decoder /\ got' = fed.got
        /\ UNCHANGED <<at, sent, hit, damages>>

\* A byte of a frame is lost, changed, or joined by another.  Without its
\* delimiter it runs into the next frame.
Damage(i, how, byte) ==
    LET n == wire[i][2]
    IN  /\ V3 /\ damages < scene.damages
        /\ wire' = CASE how = "lose" -> RemoveAt(wire, i)
                     [] how = "change" -> [wire EXCEPT ![i][1] = byte]
                     [] how = "insert" -> InsertAt(wire, i, <<byte, n>>)
        /\ hit' = hit \cup {n} \cup (IF how # "insert" /\ wire[i][1] = 0 THEN {n + 1} ELSE {})
        /\ damages' = damages + 1
        /\ UNCHANGED <<at, decoder, sent, got>>

\* Bytes that belong to no packet arrive between two packets of v1.
Noise(i, byte) ==
    /\ ~V3 /\ damages < scene.damages /\ byte # MAGIC
    /\ IF i = 1 THEN decoder.buffer = <<>> ELSE wire[i - 1][2] # wire[i][2]
    /\ wire' = InsertAt(wire, i, <<byte, 0>>)
    /\ damages' = damages + 1
    /\ UNCHANGED <<at, decoder, sent, got, hit>>

Init ==
    /\ at \in DOMAIN Scenes
    /\ wire = <<>> /\ decoder = NewDecoder
    /\ sent = <<>> /\ got = <<>> /\ hit = {} /\ damages = 0

Next ==
    \/ \E m \in scene.messages \cup scene.refused : Send(m)
    \/ \E count \in scene.chunks : Deliver(count)
    \/ \E i \in DOMAIN wire :
         \/ Damage(i, "lose", 0)
         \/ \E byte \in scene.bytes : Damage(i, "change", byte) \/ Damage(i, "insert", byte) \/ Noise(i, byte)

Spec == Init /\ [][Next]_vars

-----------------------------------------------------------------------------

IsSubsequence(s, t) ==
    FoldLeft(LAMBDA n, x : IF n < Len(s) /\ s[n + 1] = x THEN n + 1 ELSE n, 0, t) = Len(s)

\* Every message an encoder takes is read as it was meant, whatever the chunks
\* it arrives in, and what it cannot carry it refuses.
ReadAsWritten == wire = <<>> /\ hit = {} => got = sent

\* "A frame damaged in any way costs exactly the bytes up to the next zero
\* delimiter": every frame that was not damaged, nor run into by one that was,
\* is read, in its order, and nothing is read that was not sent.
Realigned ==
    wire = <<>> =>
        /\ IsSubsequence(FlattenSeq([n \in DOMAIN sent |-> IF n \in hit THEN <<>> ELSE <<sent[n]>>]), got)
        /\ IsSubsequence(got, sent)
=============================================================================
