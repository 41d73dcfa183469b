--------------------------------- MODULE MCWire ---------------------------------
(* Small instances of Wire for TLC.                                         *)
EXTENDS Wire

\* Names of a layout, and the top of a field.
Names(layout) == {layout[i][1] : i \in DOMAIN layout} \ Derived
Place(layout, name) == CHOOSE i \in DOMAIN layout : layout[i][1] = name
Top(layout, name) ==
    LET width == layout[Place(layout, name)][2] IN IF width > 3 THEN 2147483647 ELSE 256 ^ width - 1

\* All different, all zero, all at their top, past it, and one alone.
Values(layout) ==
    {[n \in Names(layout) |-> 10 * Place(layout, n) + 1], [n \in Names(layout) |-> 0],
     [n \in Names(layout) |-> Top(layout, n)]}
    \cup {[n \in Names(layout) |-> IF n = one THEN 1 ELSE 0] : one \in Names(layout)}
Beyond(layout) ==
    IF \E i \in DOMAIN layout : layout[i][2] > 3 THEN {}
    ELSE {[n \in Names(layout) |-> Top(layout, n) + 1 + Place(layout, n)]}

Run(n) == [i \in 1..n |-> i]
Full(n) == [i \in 1..n |-> 250 - i]
Text(n) == [i \in 1..n |-> IF i % 5 = 0 THEN 97 + i ELSE IF i % 7 = 0 THEN 200 ELSE 32 + i]
Records(layout, n) == [i \in 1..n |-> [name \in Names(layout) |-> 10 * i + Place(layout, name)]]

Sized(head, w, h) == [head EXCEPT !.width = w, !.height = h]
Message(f, seq, head, list, bytes) ==
    [type |-> f.type, seq |-> seq, head |-> head, list |-> list, bytes |-> bytes]

Heads(f) == Values(f.write) \cup Beyond(f.write)
Plain(f) == {Message(f, s, h, <<>>, <<>>) : s \in {0, 258, 65535, 65537}, h \in Heads(f)}
Lists(f, counts) == {Message(f, 7, h, Records(f.each, n), <<>>) : h \in Heads(f), n \in counts}
Strings(f, strings) == {Message(f, 7, h, <<>>, bytes) : h \in Heads(f), bytes \in strings}
Areas(f, sizes) ==
    {Message(f, 7, Sized(h, s[1], s[2]), <<>>, Run(s[1] * s[2])) : h \in Values(f.write), s \in sizes}

RealtimeMessages ==
    UNION {Plain(f) : f \in {g \in Realtime : g.body = "none"} \ {WINDOW_COMMIT}}
    \cup {m \in Plain(WINDOW_COMMIT) : m.head.fill_id % 256 # 0}
    \cup UNION {Lists(f, {0, 1, f.most}) : f \in {g \in Realtime : g.body \in {"list", "counted"}}}
    \cup Lists(WORLD_STATE, {0, 1, 6, 7})
    \cup UNION {Strings(f, {Text(n) : n \in {0, 1, 39, 40, 48}}) : f \in {g \in Realtime : g.body = "text"}}
    \cup Strings(WINDOW_ROW, {Run(WINDOW_W)})
    \cup Areas(TERRAIN_EDGE, {<<32, 1>>, <<1, 24>>, <<0, 0>>}) \cup Areas(MAP_SUMMARY, {<<5, 8>>, <<8, 6>>})

Too(f, n) == Message(f, 7, [x \in Names(f.write) |-> 1], Records(f.each, n), <<>>)
RealtimeRefused ==
    {Too(f, f.most + 1) : f \in {g \in Realtime : g.body \in {"list", "counted"}}}
    \cup Areas(MAP_SUMMARY, {<<7, 7>>, <<5, 11>>}) \cup Areas(TERRAIN_EDGE, {<<7, 7>>})
    \cup {Message(WINDOW_ROW, 7, [x \in Names(WINDOW_ROW.write) |-> 1], <<>>, Run(31))}

V1Message(f, head, list, bytes, texts) ==
    [type |-> f.type, head |-> head, list |-> list, bytes |-> bytes, texts |-> texts]
Ann == <<65, 110, 110>>
Ten == [i \in 1..10 |-> 48 + i]
Snap == Names(SNAPSHOT.layout) \cup {"tile_x", "tile_y", "tile_id"}
Window(w, h) ==
    V1Message(WINDOW, [tick |-> 1, origin_x |-> 300, origin_y |-> 2, width |-> w, height |-> h],
              <<>>, [i \in 1..(w * h) |-> i % 253], <<>>)
Odd(h) == V1Message(WINDOW, [tick |-> 1, origin_x |-> 3, origin_y |-> 2, width |-> 4, height |-> 6,
                             chunk_y |-> 3, chunk_h |-> h], <<>>, Run(12), <<>>)
Login(kinds, texts) ==
    {V1Message(f, h, <<>>, <<>>, [i \in DOMAIN f.texts |-> text])
        : f \in kinds, h \in Values(Bytes(<<"status">>)), text \in texts}
Answers == {LOGIN_RESPONSE, RESUME_RESPONSE, RENAME_RESPONSE}
Requests == {LOGIN_REQUEST, RESUME_REQUEST, RENAME_REQUEST}
Asked(kinds, texts) == {[m EXCEPT !.head = <<>>] : m \in Login(kinds, texts)}

BootstrapMessages ==
    UNION {{V1Message(f, h, <<>>, <<>>, <<>>) : h \in Values(f.layout)} : f \in {HELLO, INPUT, WELCOME}}
    \cup {V1Message(SNAPSHOT, [name \in Snap |-> x], Records(BEAVER, n), <<>>, <<>>) : x \in {0, 200}, n \in {0, 1, 6, 7}}
    \cup {Window(32, 24), Window(32, 3), Window(32, 8), Window(5, 7), Odd(3)}
    \cup Login(Answers, {Ann, Ten}) \cup Asked(Requests, {Ann, Ten})
BootstrapRefused ==
    UNION {{V1Message(f, h, <<>>, <<>>, <<>>) : h \in Beyond(f.layout)} : f \in {HELLO, INPUT, WELCOME}}
    \cup {Odd(2)}
    \cup Asked(Requests, {<<>>, Append(Ten, 48), <<65, 200>>}) \cup Asked({LOGIN_REQUEST}, {<<65, 44>>, <<10>>})

Scene(over, said, not_said, count, harm, reads) ==
    [link |-> over, messages |-> said, refused |-> not_said, frames |-> count,
     damages |-> harm, chunks |-> reads, bytes |-> {0, 3}]
All == {200}
Ready == Message(MAP_READY, 258, [map_id |-> 1, origin_x |-> 0, origin_y |-> 70], <<>>, <<>>)
Bye == Message(BYE, 3, <<>>, <<>>, <<>>)
Row == Message(WINDOW_ROW, 7, [x \in Names(WINDOW_ROW.write) |-> 4], <<>>, Full(32))
Hello == V1Message(HELLO, [flags |-> 0, seed |-> 700, token |-> 191], <<>>, <<>>, <<>>)
Ask == V1Message(LOGIN_REQUEST, <<>>, <<>>, <<>>, <<Ann>>)

\* Every kind of message alone; and streams of a few with damage anywhere.
Links ==
    <<Scene("v3", RealtimeMessages, RealtimeRefused, 1, 0, All),
     Scene("v1", BootstrapMessages, BootstrapRefused, 1, 0, All),
     Scene("v3", {Ready, Bye}, {}, 3, 1, {5, 200}),
     Scene("v3", {Row}, {}, 3, 1, All),
     Scene("v1", {Hello, Ask}, {}, 3, 2, {3, 200})>>
=============================================================================
