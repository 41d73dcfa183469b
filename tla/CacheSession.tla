---------------------------- MODULE CacheSession ----------------------------
(***************************************************************************)
(* The server's half of the terrain cache protocol: the part of one        *)
(* ClientSession (src/server/hybrid_server.py) that tracks where the       *)
(* client's window is and how it gets to the player.  Two mechanisms share *)
(* it: cache steps, a go-back-N pipeline of TERRAIN_EDGE packets, and      *)
(* fills, a transaction of WINDOW_ROW packets closed by a WINDOW_COMMIT.   *)
(*                                                                         *)
(* Every handler is an operator from a session (and the player it serves)  *)
(* to a Reply: the session after it and the packets it queued, in order.   *)
(* CacheSync makes them actions.                                           *)
(***************************************************************************)
EXTENDS TerrainGrid

CONSTANTS
    Changing,                 \* the places whose tile the world itself changes
    MaxRevision,              \* 0xFFFF: cache revisions wrap to 1
    MaxFillId,                \* 0xFF: fill ids wrap to 1
    CACHE_STEP_PIPELINE,
    CACHE_STEP_RETRY_LIMIT,
    WINDOW_RESYNC_DISTANCE,
    ResyncRowBudget           \* session.resync_row_budget

ASSUME SessionAssumption ==
    /\ MaxRevision \in Nat \ {0}
    /\ MaxFillId \in Nat \ {0}
    /\ Changing \subseteq Place
    /\ CACHE_STEP_PIPELINE \in 1 .. MaxRevision
    /\ CACHE_STEP_RETRY_LIMIT \in Nat
    /\ WINDOW_RESYNC_DISTANCE \in Nat
    /\ ResyncRowBudget \in Nat \ {0}
    /\ \A o \in Origin : o # None
    /\ \A rows \in SUBSET Row : rows # None
    /\ \A m \in Maps : m # None

-----------------------------------------------------------------------------
(* Packets the server sends.                                                *)

EdgePacket(revision, edge) ==
    [type |-> "edge", revision |-> revision, x |-> edge.x, y |-> edge.y,
     width |-> edge.width, height |-> edge.height, tiles |-> edge.tiles]

RowPacket(fill_id, x, y, row, tiles) ==
    [type |-> "row", fill_id |-> fill_id, x |-> x, y |-> y, row |-> row,
     tiles |-> tiles]

CommitAckPacket(fill_id, o) ==
    [type |-> "commit_ack", fill_id |-> fill_id, origin |-> o]

MapChangePacket(map) == [type |-> "map_change", map |-> map]

\* Of a WORLD_STATE, its tile update; it does not say of which map it is.
WorldStatePacket(x, y, tile) == [type |-> "world", x |-> x, y |-> y, tile |-> tile]

-----------------------------------------------------------------------------
(* The session.  resync_rows is the set of rows still to send, None when no *)
(* fill is being sent; the code keeps it as an ascending list.              *)

NewSession(origin, needs_full, last_map_change) ==
    [latest |-> FALSE,            \* session.latest is not None
     window_origin |-> origin,
     needs_full_resync |-> needs_full,
     resync_rows |-> None,
     fill_id |-> 0,
     fill_origin |-> None,
     fill_waiting_for_commit |-> FALSE,
     last_map_change |-> last_map_change,
     next_cache_revision |-> 0,
     inflight_steps |-> << >>,
     step_retries |-> 0,
     last_acked_revision |-> 0,
     world |-> None]              \* session.out.latest["world"]

Reply(s, out) == [session |-> s, out |-> out]
Silent(s) == Reply(s, << >>)

RevisionAfter(revision, k) == Advance(revision, k, MaxRevision)

_cancel_inflight_step(s) ==
    [s EXCEPT !.inflight_steps = << >>, !.step_retries = 0]

\* Opens a fill transaction under a new id, at the player's current window.
_start_window_resync(s, p, rows) ==
    [_cancel_inflight_step(s) EXCEPT
        !.fill_id = Advance(@, 1, MaxFillId),
        !.fill_origin = p.target,
        !.fill_waiting_for_commit = FALSE,
        !.resync_rows = rows]

-----------------------------------------------------------------------------
(* Types.                                                                   *)

ColumnEdgeMsg ==
    [type : {"edge"}, revision : 1 .. MaxRevision,
     x : 0 .. MaxX + WINDOW_W - 1, y : 0 .. MaxY,
     width : {1}, height : {WINDOW_H}, tiles : ColTiles]
RowEdgeMsg ==
    [type : {"edge"}, revision : 1 .. MaxRevision,
     x : 0 .. MaxX, y : 0 .. MaxY + WINDOW_H - 1,
     width : {WINDOW_W}, height : {1}, tiles : RowTiles]
EdgeMsg == ColumnEdgeMsg \cup RowEdgeMsg

RowMsg ==
    [type : {"row"}, fill_id : 0 .. MaxFillId,
     x : 0 .. MaxX, y : 0 .. MaxY + WINDOW_H - 1, row : Row, tiles : RowTiles]
CommitAckMsg ==
    [type : {"commit_ack"}, fill_id : 0 .. MaxFillId, origin : Origin]
MapChangeMsg == [type : {"map_change"}, map : Maps]
WorldMsg ==
    {w \in [type : {"world"}, x : 0 .. MaxX + WINDOW_W - 1,
            y : 0 .. MaxY + WINDOW_H - 1, tile : Tile] :
        PlacedAt(w.tile, w.x, w.y)}
ServerMsg == EdgeMsg \cup RowMsg \cup CommitAckMsg \cup MapChangeMsg \cup WorldMsg

InflightStep == [revision : 1 .. MaxRevision, origin : Origin, packet : EdgeMsg]

Session ==
    [latest : BOOLEAN, window_origin : Origin, needs_full_resync : BOOLEAN,
     resync_rows : {None} \cup SUBSET Row, fill_id : 0 .. MaxFillId,
     fill_origin : {None} \cup Origin, fill_waiting_for_commit : BOOLEAN,
     last_map_change : {None} \cup Maps,
     next_cache_revision : 0 .. MaxRevision, inflight_steps : Seq(InflightStep),
     step_retries : 0 .. CACHE_STEP_RETRY_LIMIT,
     last_acked_revision : 0 .. MaxRevision, world : {None} \cup WorldMsg]

\* What a session reads of the game's player (CacheSync says who writes it).
Player ==
    [target : Origin, map : Maps, ver : Nat, transition_loading : BOOLEAN,
     pending_map_change : {None} \cup Maps, pending_terrain_resync : BOOLEAN,
     bootstrapped : BOOLEAN]

-----------------------------------------------------------------------------
(* What every handler keeps true of a session.                              *)

\* The tiles of a strip or a row are those of the place it names.
RowPlaced(tiles, x, y) == \A c \in Col : PlacedAt(tiles[c], x + c, y)
ColPlaced(tiles, x, y) == \A r \in Row : PlacedAt(tiles[r], x, y + r)

EdgePlaced(e) ==
    IF e.width = 1 /\ e.height = WINDOW_H
    THEN ColPlaced(e.tiles, e.x, e.y) ELSE RowPlaced(e.tiles, e.x, e.y)

PacketPlaced(pkt) ==
    /\ pkt.type = "edge" => EdgePlaced(pkt)
    /\ pkt.type = "row" => /\ RowPlaced(pkt.tiles, pkt.x, pkt.y)
                           /\ pkt.y - pkt.row \in 0 .. MaxY

PlacedMsg == {m \in ServerMsg : PacketPlaced(m)}
PlacedStep == {i \in InflightStep : EdgePlaced(i.packet)}

\* While a fill is open no step is in flight; a fill is open exactly while
\* its rows are being sent or its commit is awaited.
FillExcludesSteps(s) ==
    /\ s.fill_origin # None => s.inflight_steps = << >>
    /\ s.fill_origin # None <=>
         (s.resync_rows # None \/ s.fill_waiting_for_commit)
    /\ ~(s.resync_rows # None /\ s.fill_waiting_for_commit)

\* The steps in flight lead from window_origin one tile at a time, under
\* consecutive revisions that end with the last one used.
Chained(start, steps, last) ==
    \A i \in 1 .. Len(steps) :
        /\ Gap(IF i = 1 THEN start ELSE steps[i - 1].origin,
               steps[i].origin) = 1
        /\ RevisionAfter(steps[i].revision, Len(steps) - i) = last

StepsChained(s) ==
    /\ Len(s.inflight_steps) <= CACHE_STEP_PIPELINE
    /\ Chained(s.window_origin, s.inflight_steps, s.next_cache_revision)

SessionInv(s) ==
    /\ s \in Session
    /\ s.inflight_steps \in Seq(PlacedStep)
    /\ FillExcludesSteps(s)
    /\ StepsChained(s)

-----------------------------------------------------------------------------
(* Cache steps.                                                             *)

InflightPackets(s) ==
    [i \in 1 .. Len(s.inflight_steps) |-> s.inflight_steps[i].packet]

\* The timer of the oldest unacknowledged step ran out: give up the pipeline
\* for a fill, or send all of it again.
RetransmitSteps(s, p) ==
    IF s.step_retries >= CACHE_STEP_RETRY_LIMIT
    THEN Silent(_start_window_resync(s, p, Row))
    ELSE Reply([s EXCEPT !.step_retries = @ + 1], InflightPackets(s))

\* Fill the pipeline with one-tile steps chained from the last queued origin.
ExtendPipeline(s, p) ==
    LET depth == Len(s.inflight_steps)
        base == IF depth = 0 THEN s.window_origin
                             ELSE s.inflight_steps[depth].origin
        room == IF depth < CACHE_STEP_PIPELINE
                THEN CACHE_STEP_PIPELINE - depth ELSE 0
        n == Least(room, Gap(base, p.target))
        Step(k) ==
            LET revision == RevisionAfter(s.next_cache_revision, k)
                old == OriginAfter(base, p.target, k - 1)
                new == OriginAfter(base, p.target, k)
            IN  [revision |-> revision, origin |-> new,
                 packet |-> EdgePacket(revision,
                                edge_window(p.map, p.ver, old, new))]
    IN  IF n = 0
        THEN Silent(s)
        ELSE Reply([s EXCEPT
                        !.next_cache_revision = RevisionAfter(@, n),
                        !.step_retries = IF depth = 0 THEN 0 ELSE @,
                        !.inflight_steps = @ \o [k \in 1 .. n |-> Step(k)]],
                   [k \in 1 .. n |-> Step(k).packet])

\* timer: CACHE_STEP_RETRANSMIT has passed since the pipeline was last sent.
_service_cache_step(s, p, timer) ==
    IF timer /\ s.inflight_steps # << >>
    THEN RetransmitSteps(s, p)
    ELSE ExtendPipeline(s, p)

\* settled: at least 0.1 s since the pipeline was last sent.
_handle_cache_step_ack(s, p, ack, settled) ==
    LET hits == {i \in 1 .. Len(s.inflight_steps) :
                    s.inflight_steps[i].revision = ack.revision}
        duplicate == /\ s.inflight_steps # << >>
                     /\ ack.revision = s.last_acked_revision
                     /\ ack.origin = s.window_origin
    IN  IF hits # {}
        THEN LET i == CHOOSE h \in hits : \A g \in hits : h <= g
             IN  IF ack.origin # s.inflight_steps[i].origin
                 THEN Silent(s)
                 ELSE _service_cache_step(
                        [s EXCEPT
                            !.window_origin = ack.origin,
                            !.last_acked_revision = ack.revision,
                            !.inflight_steps = SubSeq(@, i + 1, Len(@)),
                            !.step_retries = 0],
                        p, FALSE)
        ELSE IF duplicate /\ settled
             THEN Reply(s, InflightPackets(s))
             ELSE Silent(s)

-----------------------------------------------------------------------------
(* Fills.                                                                   *)

\* Faulty: takes the commit of any fill, of any map.
CommitAnyFill(s, p, commit) ==
    IF s.fill_origin = None THEN Silent(s)
    ELSE Reply([s EXCEPT !.window_origin = s.fill_origin,
                         !.fill_origin = None,
                         !.fill_waiting_for_commit = FALSE,
                         !.resync_rows = None],
               <<CommitAckPacket(s.fill_id, s.fill_origin)>>)

\* Faulty: takes the player's window of now for the one the client committed.
CommitAtTarget(s, p, commit) ==
    IF commit.fill_id = s.fill_id /\ commit.origin = s.fill_origin
    THEN Reply([s EXCEPT !.window_origin = p.target,
                         !.fill_origin = None,
                         !.fill_waiting_for_commit = FALSE,
                         !.resync_rows = None],
               <<CommitAckPacket(s.fill_id, s.fill_origin)>>)
    ELSE Silent(s)

_handle_window_commit(s, p, commit) ==
    LET reack == /\ commit.fill_id = s.fill_id
                 /\ commit.origin = s.window_origin
        accept == /\ commit.fill_id = s.fill_id
                  /\ commit.map = p.map
                  /\ commit.origin = s.fill_origin
    IN  IF s.fill_origin = None
        THEN IF reack
             THEN Reply(s, <<CommitAckPacket(s.fill_id, s.window_origin)>>)
             ELSE Silent(s)
        ELSE IF accept
             THEN Reply([s EXCEPT !.window_origin = s.fill_origin,
                                  !.fill_origin = None,
                                  !.fill_waiting_for_commit = FALSE,
                                  !.resync_rows = None],
                        <<CommitAckPacket(s.fill_id, s.fill_origin)>>)
             ELSE Silent(s)

\* A request that does not name the fill the server waits to see committed
\* abandons that fill.
AbandonFill(s) ==
    IF s.fill_waiting_for_commit
    THEN [s EXCEPT !.fill_origin = None, !.fill_waiting_for_commit = FALSE]
    ELSE s

\* The rows of a new fill: only the missing ones when the client holds some
\* of a fill of the same window, all of them otherwise.
RowsFor(p, r) ==
    IF r.rows_have # {} /\ r.fill_origin = p.target /\ Row \ r.rows_have # {}
    THEN Row \ r.rows_have
    ELSE Row

ReplayOrRefill(s, p, r) ==
    LET gap == Gap(r.origin, s.window_origin)
    IN  IF s.resync_rows # None \/ gap = 0
        THEN s
        ELSE IF gap <= WINDOW_RESYNC_DISTANCE
             THEN [_cancel_inflight_step(s) EXCEPT !.window_origin = r.origin]
             ELSE _start_window_resync(s, p, RowsFor(p, r))

_handle_resync_request(s, p, r) ==
    IF r.clean
    THEN _start_window_resync(s, p, Row)
    ELSE IF s.fill_origin # None /\ r.fill_id = s.fill_id
         THEN [s EXCEPT !.resync_rows = Row \ r.rows_have,
                        !.fill_waiting_for_commit = FALSE]
         ELSE ReplayOrRefill(AbandonFill(s), p, r)

-----------------------------------------------------------------------------
(* What one tick sends on the session, _send_tick_packets: announce a map   *)
(* change, give up a fill nobody commits, open a fill, send either rows or  *)
(* steps, then queue a WORLD_STATE.  The three timers are arguments.        *)

\* Faulty: the announcement is never repeated.
AnnounceOnce(s, p, resend) ==
    IF p.pending_map_change = None THEN Silent(s)
    ELSE Reply(_start_window_resync(
                   [s EXCEPT !.last_map_change = p.pending_map_change], p, Row),
               <<MapChangePacket(p.pending_map_change)>>)

AnnounceMap(s, p, resend) ==
    IF p.pending_map_change # None
    THEN Reply(_start_window_resync(
                   [s EXCEPT !.last_map_change = p.pending_map_change], p, Row),
               <<MapChangePacket(p.pending_map_change)>>)
    ELSE IF p.transition_loading /\ s.last_map_change # None /\ resend
         THEN Reply(IF s.resync_rows = None /\ s.fill_origin = None
                    THEN _start_window_resync(s, p, Row) ELSE s,
                    <<MapChangePacket(s.last_map_change)>>)
         ELSE Silent(s)

\* Faulty: waits for a commit for ever.
AwaitCommit(s, p, timeout) == s

ExpireCommit(s, p, timeout) ==
    IF s.fill_waiting_for_commit /\ timeout
    THEN _start_window_resync(s, p, Row) ELSE s

Idle(s) == s.resync_rows = None /\ ~s.fill_waiting_for_commit

NeedsFill(s, p) ==
    \/ s.needs_full_resync
    \/ p.pending_terrain_resync
    \/ Gap(p.target, s.window_origin) > WINDOW_RESYNC_DISTANCE

OpenFill(s, p) ==
    IF Idle(s) /\ NeedsFill(s, p)
    THEN _start_window_resync([s EXCEPT !.needs_full_resync = FALSE], p, Row)
    ELSE s

\* The rows one tick sends: the lowest unsent ones, in order, up to the budget.
RowBatch(rows) ==
    {b \in UNION {[1 .. n -> rows] : n \in 0 .. ResyncRowBudget} :
        LET sent == {b[i] : i \in DOMAIN b}
        IN  /\ \A i, j \in DOMAIN b : i < j => b[i] < b[j]
            /\ \A row \in rows \ sent : /\ Len(b) = ResyncRowBudget
                                        /\ \A q \in sent : q < row}

SendRows(s, p, batch) ==
    LET left == s.resync_rows \ {batch[i] : i \in DOMAIN batch}
        o == IF s.fill_origin # None THEN s.fill_origin ELSE s.window_origin
    IN  Reply([s EXCEPT
                  !.resync_rows = IF left = {} THEN None ELSE left,
                  !.fill_waiting_for_commit = (left = {})],
              [i \in DOMAIN batch |->
                  RowPacket(s.fill_id, o[1], o[2] + batch[i], batch[i],
                      window_row_tiles(p.map, p.ver, o[1], o[2] + batch[i]))])

\* The replies of the terrain part of a tick (one: the batch is determined).
TransmitTerrain(s, p, timer) ==
    IF s.resync_rows # None
    THEN {SendRows(s, p, b) : b \in RowBatch(s.resync_rows)}
    ELSE {IF s.fill_waiting_for_commit THEN Silent(s)
          ELSE _service_cache_step(s, p, timer)}

\* What a tick consumes of the player: the pending map change, and the story
\* terrain flag when no fill is open.
ConsumeFlags(s, p) ==
    [p EXCEPT !.pending_map_change = None,
              !.pending_terrain_resync = IF Idle(s) THEN FALSE ELSE @]

\* The tile update of snapshot_for_window: a tile of the session's window that
\* has changed, or that the player stands on, or (0, 0, 0) for none.
_snapshot_tile_update(s, p) ==
    {WorldStatePacket(0, 0, Grass)} \cup
        {WorldStatePacket(c[1], c[2], TileAt(p.map, p.ver, c[1], c[2])) :
            c \in {d \in Changing : _in_window(d, s.window_origin)}}

\* queue_latest: it replaces the WORLD_STATE that was not sent yet (one that a
\* map change cleared is replaced here too).
QueueWorld(s, world) == [s EXCEPT !.world = world]

\* The reliable output is empty: next_frame takes the WORLD_STATE.
next_frame(s) == Reply([s EXCEPT !.world = None], <<s.world>>)

Ticked(announced, terrain, world, p) ==
    [session |-> QueueWorld(terrain.session, world), player |-> p,
     out |-> announced.out \o terrain.out]

\* timers: [resend, commit, step |-> BOOLEAN].
_send_tick_packets(s, p, timers) ==
    LET announced == AnnounceMap(s, p, timers.resend)
        waited == ExpireCommit(announced.session, p, timers.commit)
        opened == OpenFill(waited, p)
    IN  {Ticked(announced, t, world, ConsumeFlags(waited, p)) :
            t \in TransmitTerrain(opened, p, timers.step),
            world \in _snapshot_tile_update(opened, p)}
=============================================================================
