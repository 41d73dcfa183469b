---------------------------- MODULE CacheClient -----------------------------
(***************************************************************************)
(* The client's half of the terrain cache protocol, as the Lynx client     *)
(* runs it (src/lynx-client/src/bootstrap.c and main.c; the Amiga and Palm *)
(* clients are built from the same files).  The active window is slid by   *)
(* TERRAIN_EDGE packets and replaced by a complete set of WINDOW_ROWs,     *)
(* which is staged aside until its last row arrives.                       *)
(*                                                                         *)
(* As in CacheSession, a handler is an operator to a Reply: the client     *)
(* after it and the packets it sent.                                       *)
(***************************************************************************)
EXTENDS CacheSession

CONSTANT Overworld   \* MAP_OVERWORLD, the map a client assumes at boot

ASSUME OverworldAssumption == Overworld \in Maps

\* A staged fill maps the rows that arrived to their tiles and the others to
\* None; the code keeps the former as a bitmap, rows_have.
NoRows == [r \in Row |-> None]
NoFill == [active |-> FALSE, fill_id |-> 0, origin |-> <<0, 0>>, rows |-> NoRows]
RowsHave(fill) == {r \in Row : fill.rows[r] # None}

(* Packets the client sends.                                                *)

AckPacket(c) ==
    [type |-> "ack", revision |-> c.revision, origin |-> c.origin]

ReadyPacket(c) == [type |-> "map_ready", map |-> c.current_map_id]

CommitPacket(c) ==
    [type |-> "commit", fill_id |-> c.commit_fill_id, origin |-> c.origin,
     map |-> c.current_map_id]

ResyncPacket(c) ==
    [type |-> "resync", clean |-> FALSE, origin |-> c.origin,
     fill_id |-> c.fill.fill_id, fill_origin |-> c.fill.origin,
     rows_have |-> RowsHave(c.fill)]

-----------------------------------------------------------------------------
(* The client.                                                              *)

\* After the bootstrap delivered the window at o of the player's map.
BootedClient(map, ver, o) ==
    [origin |-> o,
     terrain |-> window_at(map, ver, o),
     revision |-> 0,
     revision_trust_next |-> FALSE,
     commit_pending |-> FALSE,
     commit_fill_id |-> 0,
     commit_due |-> FALSE,         \* commit_retry_countdown is 0
     fill |-> NoFill,
     resync_pending |-> FALSE,
     current_map_id |-> Overworld,
     map_loading |-> FALSE]

Answer(c, out) == [client |-> c, out |-> out]
Quiet(c) == Answer(c, << >>)

send_resync_request(c) ==
    Answer([c EXCEPT !.revision_trust_next = TRUE, !.resync_pending = TRUE],
           <<ResyncPacket(c)>>)

send_map_ready(c) == Answer(c, <<ReadyPacket(c)>>)

-----------------------------------------------------------------------------
(* Types.                                                                   *)

AckMsg == [type : {"ack"}, revision : 0 .. MaxRevision, origin : Origin]
ReadyMsg == [type : {"map_ready"}, map : Maps]
CommitMsg ==
    [type : {"commit"}, fill_id : 0 .. MaxFillId, origin : Origin, map : Maps]
ResyncMsg ==
    [type : {"resync"}, clean : BOOLEAN, origin : Origin,
     fill_id : 0 .. MaxFillId, fill_origin : Origin, rows_have : SUBSET Row]
ClientMsg == AckMsg \cup ReadyMsg \cup CommitMsg \cup ResyncMsg

StagedFill ==
    [active : BOOLEAN, fill_id : 0 .. MaxFillId, origin : Origin,
     rows : [Row -> {None} \cup RowTiles]]

ClientState ==
    [origin : Origin, terrain : Cells, revision : 0 .. MaxRevision,
     revision_trust_next : BOOLEAN, commit_pending : BOOLEAN,
     commit_fill_id : 0 .. MaxFillId, commit_due : BOOLEAN, fill : StagedFill,
     resync_pending : BOOLEAN, current_map_id : Maps, map_loading : BOOLEAN]

-----------------------------------------------------------------------------
(* What every handler keeps true of a client.                               *)

\* Every cell of the active window shows the tile of its own position.
CellsPlaced(c) ==
    \A r \in Row : RowPlaced(c.terrain[r], c.origin[1], c.origin[2] + r)

StagedPlaced(fill) ==
    \A r \in RowsHave(fill) :
        RowPlaced(fill.rows[r], fill.origin[1], fill.origin[2] + r)

ClientInv(c) ==
    /\ c \in ClientState
    /\ CellsPlaced(c)
    /\ StagedPlaced(c.fill)

-----------------------------------------------------------------------------
(* Edges.                                                                   *)

\* A one-tile slide brings these cells in front; the strip fills the rest.
ShiftRight(terrain, tiles) ==
    [r \in Row |-> [k \in Col |-> IF k = 0 THEN tiles[r] ELSE terrain[r][k - 1]]]
ShiftLeft(terrain, tiles) ==
    [r \in Row |-> [k \in Col |-> IF k = WINDOW_W - 1 THEN tiles[r]
                                  ELSE terrain[r][k + 1]]]
ShiftDown(terrain, tiles) ==
    [r \in Row |-> IF r = 0 THEN tiles ELSE terrain[r - 1]]
ShiftUp(terrain, tiles) ==
    [r \in Row |-> IF r = WINDOW_H - 1 THEN tiles ELSE terrain[r + 1]]

IsColumn(e) == e.width = 1 /\ e.height = WINDOW_H
IsRow(e) == ~IsColumn(e) /\ e.height = 1 /\ e.width = WINDOW_W

\* Faulty variants, this one and others in other modules, show that the properties
\* can fail; nothing uses them.  This one takes a column of the right x at any height.
ColumnAfterAnyRow(c, e) == IsColumn(e) /\ e.x = c.origin[1] + WINDOW_W

ColumnBefore(c, e) == IsColumn(e) /\ e.y = c.origin[2] /\ e.x = c.origin[1] - 1
ColumnAfter(c, e) ==
    IsColumn(e) /\ e.y = c.origin[2] /\ e.x = c.origin[1] + WINDOW_W
RowBefore(c, e) == IsRow(e) /\ e.x = c.origin[1] /\ e.y = c.origin[2] - 1
RowAfter(c, e) == IsRow(e) /\ e.x = c.origin[1] /\ e.y = c.origin[2] + WINDOW_H

Adjacent(c, e) ==
    ColumnBefore(c, e) \/ ColumnAfter(c, e) \/ RowBefore(c, e) \/ RowAfter(c, e)

Slide(c, e) ==
    LET x == c.origin[1]
        y == c.origin[2]
    IN  CASE ColumnBefore(c, e) ->
               [c EXCEPT !.origin = <<x - 1, y>>,
                         !.terrain = ShiftRight(@, e.tiles)]
          [] ColumnAfter(c, e) ->
               [c EXCEPT !.origin = <<x + 1, y>>,
                         !.terrain = ShiftLeft(@, e.tiles)]
          [] RowBefore(c, e) ->
               [c EXCEPT !.origin = <<x, y - 1>>,
                         !.terrain = ShiftDown(@, e.tiles)]
          [] RowAfter(c, e) ->
               [c EXCEPT !.origin = <<x, y + 1>>,
                         !.terrain = ShiftUp(@, e.tiles)]

\* The revision is the next one, or the client just asked for a baseline.
Expected(c, e) ==
    c.revision_trust_next \/ e.revision = RevisionAfter(c.revision, 1)

bootstrap_apply_terrain_edge(c, e) ==
    [Slide(c, e) EXCEPT !.revision = e.revision, !.revision_trust_next = FALSE]

ReceiveEdge(c, e) ==
    LET acked(d) == Answer([d EXCEPT !.resync_pending = FALSE], <<AckPacket(d)>>)
    IN  IF c.fill.active
        THEN Quiet(c)
        ELSE IF e.revision = c.revision
             THEN acked(c)
             ELSE IF Expected(c, e) /\ Adjacent(c, e)
                  THEN acked(bootstrap_apply_terrain_edge(c, e))
                  ELSE send_resync_request(c)

-----------------------------------------------------------------------------
(* Fills.                                                                   *)

\* The staged fill the row belongs to: the current one, or a fresh one.
FillOfRow(fill, w) ==
    LET origin == <<w.x, w.y - w.row>>
    IN  IF fill.active /\ fill.fill_id = w.fill_id /\ fill.origin = origin
        THEN fill
        ELSE [active |-> TRUE, fill_id |-> w.fill_id, origin |-> origin,
              rows |-> NoRows]

bootstrap_fill_apply_row(fill, w) ==
    LET f == FillOfRow(fill, w)
    IN  IF w.row \in RowsHave(f)
        THEN f
        ELSE [f EXCEPT !.rows[w.row] = w.tiles]

\* Faulty: swaps the cells but not the origin.
ActivateCellsOnly(c, fill) ==
    [c EXCEPT !.terrain = fill.rows, !.revision_trust_next = TRUE,
              !.commit_pending = TRUE, !.commit_fill_id = fill.fill_id,
              !.fill = NoFill]

bootstrap_fill_activate(c, fill) ==
    [c EXCEPT !.terrain = fill.rows,
              !.origin = fill.origin,
              !.revision_trust_next = TRUE,
              !.commit_pending = TRUE,
              !.commit_fill_id = fill.fill_id,
              !.fill = NoFill]

\* The last row activates the fill and, during a map load, ends the load.
ReceiveRow(c, w) ==
    LET f == bootstrap_fill_apply_row(c.fill, w)
        d == [bootstrap_fill_activate(c, f) EXCEPT !.resync_pending = FALSE,
                                                   !.commit_due = TRUE]
    IN  IF RowsHave(f) # Row
        THEN Quiet([c EXCEPT !.fill = f])
        ELSE IF c.map_loading
             THEN send_map_ready([d EXCEPT !.map_loading = FALSE])
             ELSE Quiet(d)

ReceiveCommitAck(c, a) ==
    IF c.commit_pending /\ a.fill_id = c.commit_fill_id /\ a.origin = c.origin
    THEN Quiet([c EXCEPT !.commit_pending = FALSE])
    ELSE Quiet(c)

\* service_cache_retries, the commit half.
SendCommit(c) == Answer([c EXCEPT !.commit_due = FALSE], <<CommitPacket(c)>>)

-----------------------------------------------------------------------------
(* Map changes.                                                             *)

ReceiveMapChange(c, m) ==
    IF m.map = c.current_map_id
    THEN IF c.map_loading THEN Quiet(c) ELSE send_map_ready(c)
    ELSE Quiet([c EXCEPT !.current_map_id = m.map,
                         !.fill = NoFill,
                         !.commit_pending = FALSE,
                         !.map_loading = TRUE,
                         !.resync_pending = TRUE])

-----------------------------------------------------------------------------
(* The world's own changes.                                                 *)

\* The tile update of a WORLD_STATE goes into the active window, whatever map
\* that is of and whether or not a tile has changed.
apply_world_state(c, w) ==
    Quiet(IF _in_window(<<w.x, w.y>>, c.origin)
          THEN [c EXCEPT !.terrain[w.y - c.origin[2]][w.x - c.origin[1]] = w.tile]
          ELSE c)

\* The packet dispatch of realtime_pump.
realtime_pump(c, pkt) ==
    CASE pkt.type = "edge" -> ReceiveEdge(c, pkt)
      [] pkt.type = "row" -> ReceiveRow(c, pkt)
      [] pkt.type = "commit_ack" -> ReceiveCommitAck(c, pkt)
      [] pkt.type = "map_change" -> ReceiveMapChange(c, pkt)
      [] pkt.type = "world" -> apply_world_state(c, pkt)
=============================================================================
