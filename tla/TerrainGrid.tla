----------------------------- MODULE TerrainGrid -----------------------------
(***************************************************************************)
(* The geometry of the terrain cache: a client sees a Width x Height       *)
(* window of a world through the window's origin, and the window slides    *)
(* one tile at a time.  A tile is abstracted to what makes it the right    *)
(* tile: the map and the story version it was read from, and its absolute  *)
(* position.  (src/server/game.py, "Terrain windows (per player)".)        *)
(***************************************************************************)
EXTENDS Integers, Sequences

CONSTANTS
    WINDOW_W, WINDOW_H,  \* size of the window, 32 x 24 in the code
    MaxX, MaxY,          \* largest origin: world.width - WINDOW_W and so on
    Maps,                \* the map ids
    None                 \* Python's None

ASSUME WindowAssumption ==
    /\ WINDOW_W \in Nat \ {0}
    /\ WINDOW_H \in Nat \ {0}
    /\ <<WINDOW_W, WINDOW_H>> # <<1, 1>>   \* a column and a row differ
    /\ MaxX \in Nat
    /\ MaxY \in Nat

Row == 0 .. WINDOW_H - 1
Col == 0 .. WINDOW_W - 1
Origin == (0 .. MaxX) \X (0 .. MaxY)

\* The places of a map, and those of them that the window at o has.
Place == (0 .. MaxX + WINDOW_W - 1) \X (0 .. MaxY + WINDOW_H - 1)
_in_window(place, o) == place[1] - o[1] \in Col /\ place[2] - o[2] \in Row

Abs(n) == IF n < 0 THEN -n ELSE n
Least(m, n) == IF m <= n THEN m ELSE n
Sign(n) == IF n < 0 THEN -1 ELSE IF n > 0 THEN 1 ELSE 0

\* A counter that runs 1, 2, ... max, 1, ... (0 before its first use), k steps
\* after n: the code's (n + 1) & max or 1, for k up to max.
Advance(n, k, max) == IF n + k > max THEN n + k - max ELSE n + k

\* The gap the server compares with WINDOW_RESYNC_DISTANCE.
Gap(a, b) == Abs(a[1] - b[1]) + Abs(a[2] - b[2])

-----------------------------------------------------------------------------
(* Tiles.  ver counts the changes a player's own story made to what he sees *)
(* of the map (a repaired bridge, an NPC that left his tile).               *)

\* Tile 0 at (0, 0): what a WORLD_STATE says when no tile has changed, and what
\* is then shown at the corner of whatever map the window is on.
Grass == [map |-> None, ver |-> 0, x |-> 0, y |-> 0]

Tile == [map : Maps, ver : Nat, x : Int, y : Int] \cup {Grass}
TileAt(map, ver, x, y) == [map |-> map, ver |-> ver, x |-> x, y |-> y]

RowTiles == [Col -> Tile]
ColTiles == [Row -> Tile]
Cells == [Row -> RowTiles]

PlacedAt(tile, x, y) == tile.x = x /\ tile.y = y

\* The tiles of one absolute row, from x rightwards.
window_row_tiles(map, ver, x, y) == [c \in Col |-> TileAt(map, ver, x + c, y)]

\* The tiles of one absolute column, from y downwards.
window_col_tiles(map, ver, x, y) == [r \in Row |-> TileAt(map, ver, x, y + r)]

\* A whole window at origin o.
window_at(map, ver, o) ==
    [r \in Row |-> window_row_tiles(map, ver, o[1], o[2] + r)]

-----------------------------------------------------------------------------
(* The way of the window to the player: along x first, then along y, one    *)
(* tile a step.                                                             *)

next_window_origin_toward_player(o, target) ==
    IF o[1] # target[1]
    THEN <<o[1] + Sign(target[1] - o[1]), o[2]>>
    ELSE <<o[1], o[2] + Sign(target[2] - o[2])>>

\* Where k applications of the operator above lead from o, for k up to the gap.
OriginAfter(o, target, k) ==
    LET dx == Least(k, Abs(target[1] - o[1]))
    IN  <<o[1] + Sign(target[1] - o[1]) * dx,
          o[2] + Sign(target[2] - o[2]) * (k - dx)>>

\* The strip of new tiles a window needs to slide from old to new.
edge_window(map, ver, old, new) ==
    IF new[1] # old[1]
    THEN LET x == IF new[1] > old[1] THEN old[1] + WINDOW_W ELSE new[1]
         IN  [x |-> x, y |-> old[2], width |-> 1, height |-> WINDOW_H,
              tiles |-> window_col_tiles(map, ver, x, old[2])]
    ELSE LET y == IF new[2] > old[2] THEN old[2] + WINDOW_H ELSE new[2]
         IN  [x |-> old[1], y |-> y, width |-> WINDOW_W, height |-> 1,
              tiles |-> window_row_tiles(map, ver, old[1], y)]
=============================================================================
