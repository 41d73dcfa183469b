-------------------------------- MODULE Packets --------------------------------
(***************************************************************************)
(* What the packets say (src/server/protocol.py).  Each kind of packet is  *)
(* a format: how its encoder lays the fields out (write) and where its     *)
(* decoder reads them (read), the two written down apart, as they are in   *)
(* the code.  A message is a record of numbers, head, with a list of       *)
(* records, a string of bytes or some texts where its kind has them.       *)
(***************************************************************************)
EXTENDS Frames

-----------------------------------------------------------------------------
(* struct.pack_into and unpack_from: the widths of the struct are the       *)
(* widths of the fields in the order they are passed.                       *)

Layout(widths, names) == [i \in DOMAIN names |-> <<names[i], widths[i]>>]
Bytes(names) == [i \in DOMAIN names |-> <<names[i], 1>>]
SizeOf(layout) == FoldLeft(LAMBDA sum, field : sum + field[2], 0, layout)

\* A field that values leaves out is a zero.
Pack(layout, values) ==
    FlattenSeq([i \in DOMAIN layout |->
        ToBytes(IF layout[i][1] \in DOMAIN values THEN values[layout[i][1]] ELSE 0, layout[i][2])])
Unpack(layout, bytes) ==
    [name \in {layout[i][1] : i \in DOMAIN layout} |->
        LET i == CHOOSE j \in DOMAIN layout : layout[j][1] = name
            at == SizeOf(SubSeq(layout, 1, i - 1))
        IN  ToNumber(SubSeq(bytes, at + 1, at + layout[i][2]))]

Format(type, write, read) ==
    [type |-> type, write |-> write, read |-> read, body |-> "none",
     each |-> <<>>, eachRead |-> <<>>, most |-> 0]
Listing(format, body, each, eachRead, most) ==
    [format EXCEPT !.body = body, !.each = each, !.eachRead = eachRead, !.most = most]

-----------------------------------------------------------------------------
(* The realtime formats.                                                    *)

PLAYER == <<1, 1, 1, 1, 1, 1, 2, 1, 1>>
PLAYER_STATE ==
    Format(1, Layout(PLAYER, <<"x", "y", "facing", "buttons", "fire_counter", "pickup_counter",
                               "last_server_seq", "rx_drops", "pvp_toggle_counter">>),
              Layout(PLAYER, <<"x", "y", "facing", "buttons", "fire_counter", "pickup_counter",
                               "last_server_seq", "rx_drops", "pvp_toggle_counter">>))

WORLD == <<1, 1, 1, 1, 2, 1, 1, 1>>
BEAVER == Bytes(<<"x", "y", "hp", "kind">>)
WORLD_STATE ==
    Listing(Format(2, Layout(WORLD, <<"player_x", "player_y", "health", "correction_flags",
                                      "echo_client_seq", "tile_id", "tile_x", "tile_y">>),
                      Layout(WORLD, <<"player_x", "player_y", "health", "correction_flags",
                                      "echo_client_seq", "tile_id", "tile_x", "tile_y">>)),
            "first", BEAVER, BEAVER, 6)

TERRAIN_EDGE ==
    Listing(Format(3, Layout(<<1, 1, 1, 1, 2>>, <<"origin_x", "origin_y", "width", "height", "revision">>),
                      Layout(<<1, 1, 1, 1, 2>>, <<"origin_x", "origin_y", "width", "height", "revision">>)),
            "area", <<>>, <<>>, REALTIME_V3_WORKSPACE - 14)

BYE == Format(4, <<>>, <<>>)

MAP_CHANGE ==
    Format(5, Bytes(<<"map_id", "spawn_x", "spawn_y", "tileset_id", "palette_id", "flags">>),
              Bytes(<<"map_id", "spawn_x", "spawn_y", "tileset_id", "palette_id", "flags">>))

EntityDeltaRecord == <<"entity_id", "entity_type", "x", "y", "tile_id", "hp", "flags", "state">>
ENTITY_DELTA ==
    Listing(Format(6, <<>>, <<>>), "list",
            Bytes(<<"entity_id", "entity_type", "x", "y", "tile_id", "hp", "flags", "state">>),
            Bytes(EntityDeltaRecord), REALTIME_V3_MAX_PAYLOAD \div 8)

HUD == <<1, 1, 1, 2, 2, 2, 1, 2>>
HUD_UPDATE ==
    Format(7, Layout(HUD, <<"hp", "max_hp", "level", "xp", "xp_next", "gold", "flags", "pvp_kills">>),
              Layout(HUD, <<"hp", "max_hp", "level", "xp", "xp_next", "gold", "flags", "pvp_kills">>))

REALTIME_TEXT_MAX_LEN == 39
MESSAGE ==
    Listing(Format(8, Bytes(<<"message_id">>), Bytes(<<"message_id">>)), "text", <<>>, <<>>, REALTIME_TEXT_MAX_LEN)

QUEST_UPDATE ==
    Listing(Format(9, Bytes(<<"quest_id", "state">>), Bytes(<<"quest_id", "state">>)),
            "text", <<>>, <<>>, REALTIME_TEXT_MAX_LEN)

INVENTORY_UPDATE ==
    Listing(Format(10, Layout(<<1, 2>>, <<"slot_count", "gold">>), Layout(<<1, 2>>, <<"slot_count", "gold">>)),
            "counted", Bytes(<<"item_id", "quantity">>), Bytes(<<"item_id", "quantity">>), 8)

\* Mutant: it is read in the order of the fields of RespawnEventPacket.
RespawnAsDeclared ==
    Format(11, Bytes(<<"map_id", "x", "y", "hp", "max_hp", "message_id", "flags">>),
               Bytes(<<"x", "y", "hp", "flags", "map_id", "max_hp", "message_id">>))

RESPAWN_EVENT ==
    Format(11, Bytes(<<"map_id", "x", "y", "hp", "max_hp", "message_id", "flags">>),
               Bytes(<<"map_id", "x", "y", "hp", "max_hp", "message_id", "flags">>))

COMMAND == <<1, 1, 1, 1, 2>>
PLAYER_COMMAND ==
    Format(12, Layout(COMMAND, <<"command", "direction", "arg0", "arg1", "last_server_seq">>),
               Layout(COMMAND, <<"command", "direction", "arg0", "arg1", "last_server_seq">>))

AUTH == Format(13, Layout(<<4>>, <<"token">>), Layout(<<4>>, <<"token">>))

REMOTE_PLAYERS ==
    Listing(Format(14, <<>>, <<>>), "list", Bytes(<<"x", "y", "facing", "state">>),
            Bytes(<<"x", "y", "facing", "state">>), 12)

RESYNC_REQUEST ==
    Format(15, Layout(<<1, 1, 1, 1, 3, 1, 1>>, <<"origin_x", "origin_y", "fill_origin_x", "fill_origin_y",
                                                 "rows_have", "fill_id", "flags">>),
               Layout(<<1, 1, 1, 1, 3, 1, 1>>, <<"origin_x", "origin_y", "fill_origin_x", "fill_origin_y",
                                                 "rows_have", "fill_id", "flags">>))

WINDOW_W == 32
WINDOW_ROW ==
    Listing(Format(16, Bytes(<<"origin_x", "origin_y", "row_index", "fill_id">>),
                       Bytes(<<"origin_x", "origin_y", "row_index", "fill_id">>)),
            "row", <<>>, <<>>, WINDOW_W)

ITEM_DROPS ==
    Listing(Format(17, <<>>, <<>>), "list", Bytes(<<"x", "y", "item_id", "quantity">>),
            Bytes(<<"x", "y", "item_id", "quantity">>), 4)

MAP_SUMMARY ==
    Listing(Format(18, Bytes(<<"map_id", "origin_zx", "origin_zy", "width", "height", "pad">>),
                       Bytes(<<"map_id", "origin_zx", "origin_zy", "width", "height", "pad">>)),
            "area", <<>>, <<>>, REALTIME_V3_WORKSPACE - 14)

MAP_READY ==
    Format(19, Bytes(<<"map_id", "origin_x", "origin_y">>), Bytes(<<"map_id", "origin_x", "origin_y">>))

WINDOW_COMMIT ==
    Format(20, Bytes(<<"fill_id", "origin_x", "origin_y", "map_id", "flags">>),
               Bytes(<<"fill_id", "origin_x", "origin_y", "map_id", "flags">>))

CACHE_STEP_ACK ==
    Format(21, Layout(<<2, 1, 1>>, <<"revision", "origin_x", "origin_y">>),
               Layout(<<2, 1, 1>>, <<"revision", "origin_x", "origin_y">>))

WINDOW_COMMIT_ACK ==
    Format(22, Bytes(<<"fill_id", "origin_x", "origin_y">>), Bytes(<<"fill_id", "origin_x", "origin_y">>))

NetStats == <<"rx_drops", "handler_overflows", "handler_serial_errors", "handler_last_status",
              "fill_id", "commit_pending", "origin_x", "origin_y">>
NET_STATS ==
    Format(23, Layout(<<1, 1, 1, 1, 1, 1, 1, 1, 2>>, NetStats \o <<"cache_revision">>),
               Layout(<<1, 1, 1, 1, 1, 1, 1, 1, 2>>, NetStats \o <<"cache_revision">>))

DIALOGUE == <<"dialogue_id", "speaker_id", "page_index", "page_count", "flags", "chunk_index">>
DIALOGUE_PAGE ==
    Listing(Format(24, Bytes(DIALOGUE), Bytes(DIALOGUE)), "text", <<>>, <<>>,
            REALTIME_V3_MAX_PAYLOAD - 7)

Realtime ==
    {PLAYER_STATE, WORLD_STATE, TERRAIN_EDGE, BYE, MAP_CHANGE, ENTITY_DELTA, HUD_UPDATE, MESSAGE,
     QUEST_UPDATE, INVENTORY_UPDATE, RESPAWN_EVENT, PLAYER_COMMAND, AUTH, REMOTE_PLAYERS,
     RESYNC_REQUEST, WINDOW_ROW, ITEM_DROPS, MAP_SUMMARY, MAP_READY, WINDOW_COMMIT,
     CACHE_STEP_ACK, WINDOW_COMMIT_ACK, NET_STATS, DIALOGUE_PAGE}

\* Fields that are written and read but belong to no message.
Derived == {"slot_count", "tile_count", "pad"}
HeadOf(layout, bytes) ==
    LET fields == Unpack(layout, bytes) IN [name \in DOMAIN fields \ Derived |-> fields[name]]

FormatOf(formats, type) == CHOOSE f \in formats : f.type = type

\* _encode_realtime_text: upper case, and "?" for what the client cannot draw.
Sanitized(text, most) ==
    LET Upper(c) == IF c \in 97..122 THEN c - 32 ELSE c
    IN  [i \in 1..Min({Len(text), most}) |->
            IF Upper(text[i]) \in 32..95 THEN Upper(text[i]) ELSE 63]

Overfull(f, m) ==
    \/ f.body \in {"list", "counted"} /\ Len(m.list) > f.most
    \/ f.body = "area" /\ (m.head.width * m.head.height # Len(m.bytes) \/ Len(m.bytes) > f.most)
    \/ f.body = "row" /\ Len(m.bytes) # f.most

\* What follows the head.
Body(f, m) ==
    LET text == Sanitized(m.bytes, f.most)
        records == SubSeq(m.list, 1, Min({Len(m.list), f.most}))
    IN  IF f.body = "text" THEN <<Len(text)>> \o text
        ELSE FlattenSeq([i \in DOMAIN records |-> Pack(f.each, records[i])]) \o m.bytes

\* How many there are, unless that is said elsewhere.
StatusOf(f, m) ==
    CASE f.body \in {"none", "counted", "text"} -> 0
      [] f.body \in {"first", "list"} -> Min({Len(m.list), f.most})
      [] f.body \in {"area", "row"} -> Len(m.bytes)

EncodeRealtime(m) ==
    LET f == FormatOf(Realtime, m.type)
        head == m.head @@ [slot_count |-> Len(m.list)]
    IN  IF Overfull(f, m) THEN Bad
        ELSE _finalize_realtime(f.type, StatusOf(f, m), m.seq, Pack(f.write, head) \o Body(f, m))

DecodeRealtime(raw) ==
    LET v == _validate_realtime(raw)
        f == FormatOf(Realtime, v.type)
        head == Unpack(f.read, v.payload)
        rest == SubSeq(v.payload, SizeOf(f.read) + 1, Len(v.payload))
        size == SizeOf(f.eachRead)
        refused == \/ f.body = "list" /\ v.status > f.most
                   \/ f.body = "counted" /\ head.slot_count > f.most
                   \/ f.body = "area" /\ head.width * head.height # v.status
                   \/ f.type = MAP_SUMMARY.type /\ v.status > f.most
                   \/ f.body = "row" /\ v.status # f.most
                   \/ f.type = WINDOW_COMMIT.type /\ head.fill_id = 0
        records == CASE f.body \in {"first", "list"} -> Min({v.status, f.most})
                     [] f.body = "counted" -> head.slot_count
                     [] OTHER -> 0
        bytes == CASE f.body \in {"area", "row"} -> SubSeq(rest, 1, Min({v.status, Len(rest)}))
                   [] f.body = "text" -> SubSeq(rest, 2, rest[1] + 1)
                   [] OTHER -> <<>>
    IN  IF ~(\E g \in Realtime : g.type = v.type) THEN Bad
        ELSE IF refused THEN Bad
        ELSE [type |-> v.type, seq |-> v.seq, head |-> HeadOf(f.read, v.payload), bytes |-> bytes,
              list |-> [i \in 1..records |-> Unpack(f.eachRead, SubSeq(rest, (i - 1) * size + 1, i * size))]]

-----------------------------------------------------------------------------
(* The formats of v1: struct.pack refuses what does not fit, and a payload  *)
(* must have exactly its length.  texts are the kinds of its texts.         *)

FormatV1(type, layout, texts, body) ==
    [type |-> type, layout |-> layout, texts |-> texts, body |-> body]

HELLO == FormatV1(1, Layout(<<1, 2, 4>>, <<"flags", "seed", "token">>), <<>>, "none")
INPUT == FormatV1(2, Layout(<<2, 1, 1, 1, 2>>, <<"tick", "direction", "buttons", "aim", "ack_tick">>), <<>>, "none")
WINDOW ==
    FormatV1(128, Layout(<<2, 2, 2, 1, 1, 1, 1, 2>>,
                         <<"tick", "origin_x", "origin_y", "width", "height", "chunk_y", "chunk_h", "tile_count">>),
             <<>>, "tiles")
WELCOME ==
    FormatV1(129, Layout(<<1, 2, 1, 1>>, <<"player_id", "seed", "max_beavers", "protocol_version">>), <<>>, "none")
SNAPSHOT ==
    FormatV1(130, Layout(<<2, 1, 1, 1, 2>>, <<"tick", "player_x", "player_y", "health", "score">>), <<>>, "beavers")
LOGIN_REQUEST == FormatV1(160, <<>>, <<"username">>, "texts")
LOGIN_RESPONSE == FormatV1(161, Bytes(<<"status">>), <<"token">>, "texts")
RESUME_REQUEST == FormatV1(162, <<>>, <<"token">>, "texts")
RESUME_RESPONSE == FormatV1(163, Bytes(<<"status">>), <<"username">>, "texts")
RENAME_REQUEST == FormatV1(164, <<>>, <<"token", "username">>, "texts")
RENAME_RESPONSE == FormatV1(165, Bytes(<<"status">>), <<>>, "texts")

Bootstrap ==
    {HELLO, INPUT, WINDOW, WELCOME, SNAPSHOT, LOGIN_REQUEST, LOGIN_RESPONSE,
     RESUME_REQUEST, RESUME_RESPONSE, RENAME_REQUEST, RENAME_RESPONSE}

_ascii_bytes(text) == Len(text) \in 1..10 /\ \A i \in DOMAIN text : text[i] < 128
_username_bytes(text) ==
    _ascii_bytes(text) /\ \A i \in DOMAIN text : text[i] \in 32..126 \ {44}
Writable(kind, text) == IF kind = "username" THEN _username_bytes(text) ELSE _ascii_bytes(text)

TILE == Bytes(<<"tile_x", "tile_y", "tile_id">>)

EncodeV1(m) ==
    LET f == FormatOf(Bootstrap, m.type)
        head == m.head @@ [tile_count |-> Len(m.bytes)]
        fits == \A i \in DOMAIN f.layout : Fits(head[f.layout[i][1]], f.layout[i][2])
        count == Min({Len(m.list), WORLD_STATE.most})
        beavers == FlattenSeq([i \in 1..count |-> Pack(BEAVER, m.list[i])])
        body == CASE f.body = "beavers" ->
                       <<count>> \o Padded(beavers, WORLD_STATE.most * SizeOf(BEAVER)) \o Pack(TILE, m.head)
                  [] f.body = "texts" -> FlattenSeq([i \in DOMAIN m.texts |-> <<Len(m.texts[i])>> \o m.texts[i]])
                  [] OTHER -> m.bytes
    IN  IF \/ ~fits
           \/ f.body = "tiles" /\ Len(m.bytes) # m.head.width * m.head.chunk_h
           \/ ~\A i \in DOMAIN m.texts : Writable(f.texts[i], m.texts[i])
        THEN Bad ELSE encode_packet(f.type, Pack(f.layout, head) \o body)

\* _decode_ascii, once for each string; the last must end the payload.
RECURSIVE _decode_ascii(_, _)
_decode_ascii(kinds, bytes) ==
    IF kinds = <<>> THEN (IF bytes = <<>> THEN <<>> ELSE Bad)
    ELSE IF bytes = <<>> \/ bytes[1] = 0 \/ bytes[1] > 10 \/ bytes[1] + 1 > Len(bytes) THEN Bad
    ELSE LET text == SubSeq(bytes, 2, bytes[1] + 1)
             rest == _decode_ascii(Tail(kinds), SubSeq(bytes, bytes[1] + 2, Len(bytes)))
         IN  IF ~Writable(Head(kinds), text) \/ rest = Bad THEN Bad ELSE <<text>> \o rest

DecodeV1(packet) ==
    LET f == FormatOf(Bootstrap, packet.type)
        size == SizeOf(f.layout)
        rest == SubSeq(packet.payload, size + 1, Len(packet.payload))
        head == Unpack(f.layout, packet.payload)
        beavers == WORLD_STATE.most * SizeOf(BEAVER)
        texts == _decode_ascii(f.texts, rest)
        message == [type |-> packet.type, head |-> HeadOf(f.layout, packet.payload),
                    list |-> <<>>, bytes |-> <<>>, texts |-> <<>>]
    IN  IF \/ ~\E g \in Bootstrap : g.type = packet.type
           \/ Len(packet.payload) < size
        THEN Bad
        ELSE CASE f.body = "none" -> IF rest = <<>> THEN message ELSE Bad
               [] f.body = "texts" -> IF texts = Bad THEN Bad ELSE [message EXCEPT !.texts = texts]
               [] f.body = "tiles" ->
                    IF /\ head.tile_count = head.width * head.chunk_h
                       /\ Len(rest) = head.tile_count
                       /\ head.chunk_y + head.chunk_h <= head.height
                    THEN [message EXCEPT !.bytes = rest] ELSE Bad
               [] f.body = "beavers" ->
                    IF Len(rest) # 1 + beavers + 3 THEN Bad
                    ELSE [message EXCEPT
                            !.head = @ @@ Unpack(TILE, SubSeq(rest, beavers + 2, Len(rest))),
                            !.list = [i \in 1..Min({rest[1], WORLD_STATE.most}) |->
                                         Unpack(BEAVER, SubSeq(rest, 4 * i - 2, 4 * i + 1))]]

\* A window as the WINDOW packets it is sent in, each of a few of its rows.
WINDOW_CHUNK_MAX_ROWS == 3
window_chunks(w) ==
    LET Chunk(y, rows) ==
            [type |-> WINDOW.type,
             head |-> [tick |-> w.head.tick, origin_x |-> w.head.origin_x, origin_y |-> w.head.origin_y,
                       width |-> w.head.width, height |-> w.head.height, chunk_y |-> y, chunk_h |-> rows],
             bytes |-> SubSeq(w.bytes, y * w.head.width + 1, (y + rows) * w.head.width),
             list |-> <<>>, texts |-> <<>>]
        chunks == (w.head.height + WINDOW_CHUNK_MAX_ROWS - 1) \div WINDOW_CHUNK_MAX_ROWS
    IN  IF w.head.width * w.head.height <= WINDOW_W * WINDOW_CHUNK_MAX_ROWS THEN <<Chunk(0, w.head.height)>>
        ELSE [i \in 1..chunks |->
                 LET y == (i - 1) * WINDOW_CHUNK_MAX_ROWS
                 IN  Chunk(y, Min({WINDOW_CHUNK_MAX_ROWS, w.head.height - y}))]
=============================================================================
