--------------------------------- MODULE Bots ---------------------------------
(***************************************************************************)
(* A simulated player (src/server/ai_player.py) and the hybrid server: the *)
(* server's half is that of CacheSync, the client is the bot.  It keeps no *)
(* window but a memory of every tile it was ever sent, filed by map, and   *)
(* it alone knows on which map it left off: that is in its TokenStore.     *)
(*                                                                         *)
(* It talks TCP, so nothing is lost but what is under way when a           *)
(* connection ends.  Where the bot walks, whom it shoots and what it takes *)
(* are left out: the player's moves are those of CacheSync.                *)
(***************************************************************************)
EXTENDS CacheSync

CONSTANT COMMIT_RETRY_LIMIT

ASSUME BotAssumption == COMMIT_RETRY_LIMIT \in Nat

VARIABLES
    stored,     \* the bot's record in the TokenStore: its map, or None
    name,       \* its name at the login server: "free", "taken", or "lost",
                \* which is taken by the bot, that never learned of it
    adopted     \* history: what each bootstrap brought was of the map it was filed under,
                \* and AUTH found the player where it had shown him

disk == <<stored, name, adopted>>
all == <<vars, disk>>

\* MapMemory: the tile of each cell of each map, None where it was never sent; and
\* those of the bootstrap, whose map is not known yet, under None.
Cell == Place
Unknown == [cell \in Cell |-> None]

apply_rect(known, x, y, width, tiles) ==
    [cell \in Cell |->
        LET i == cell[1] - x
            j == cell[2] - y
        IN  IF width = 1 /\ i = 0 /\ j \in DOMAIN tiles THEN tiles[j]
            ELSE IF width # 1 /\ j = 0 /\ i \in DOMAIN tiles THEN tiles[i]
            ELSE known[cell]]

\* The first n rows of a window, each an apply_rect.
apply_rows(known, window, o, n) ==
    [cell \in Cell |->
        LET i == cell[1] - o[1]
            j == cell[2] - o[2]
        IN  IF i \in Col /\ j \in 0 .. n - 1 THEN window[j][i] ELSE known[cell]]

\* A program that has just begun.  The transition's hold and the map it has to
\* report are set and cleared together; so are a commit and the fill it is of.
NewBot ==
    [memory |-> [m \in Maps \cup {None} |-> Unknown],
     playing |-> FALSE, map |-> Overworld, boot_origin |-> <<0, 0>>, origin |-> <<0, 0>>,
     last_step_revision |-> 0,      \* 0: None
     fill_id |-> None, fill_origin |-> None, rows_have |-> {},
     commit_pending |-> FALSE, commit_due |-> FALSE, retries |-> 0,
     hold |-> FALSE]                \* transition_hold

-----------------------------------------------------------------------------
(* The lifecycle of one session.                                            *)

\* Its name is registered once; after that its token is in the store.  If the answer
\* or the store's file is lost, the name stays taken.
_ensure_identity ==
    /\ conn = "off" /\ stored = None /\ name = "free"
    /\ \/ name' = "taken" /\ stored' = Overworld
       \/ name' = "lost" /\ UNCHANGED stored
    /\ UNCHANGED <<vars, adopted>>

\* HELLO, and the window of this moment, or the rows of it that came before the
\* connection broke: they stay in memory.
_bootstrap_terrain ==
    /\ conn = "off" /\ stored # None
    /\ \E n \in 1 .. WINDOW_H :
        LET bot == IF client = None THEN NewBot ELSE client
            window == window_at(player.map, player.ver, player.target)
        IN  /\ client' = [bot EXCEPT
                            !.memory[None] = apply_rows(@, window, player.target, n),
                            !.boot_origin = IF n = WINDOW_H THEN player.target ELSE @,
                            !.playing = FALSE]
            /\ conn' = IF n = WINDOW_H THEN "booted" ELSE "off"
    /\ player' = [player EXCEPT !.bootstrapped = TRUE]
    /\ UNCHANGED <<session, s2c, c2s, counters, disk>>

_adopt_bootstrap(memory, map) ==
    [memory EXCEPT
        ![map] = [cell \in Cell |-> IF memory[None][cell] # None THEN memory[None][cell] ELSE @[cell]],
        ![None] = Unknown]

_reset_session_state(bot) ==
    [NewBot EXCEPT !.memory = bot.memory, !.boot_origin = bot.boot_origin,
                   !.map = stored, !.origin = bot.boot_origin, !.playing = TRUE]

\* It starts over on the map of its record, and connects again with AUTH.
_play_realtime ==
    /\ conn = "booted" /\ ~client.playing
    /\ client' = [_reset_session_state(client) EXCEPT !.memory = _adopt_bootstrap(@, stored)]
    /\ adopted' = (adopted /\ \A cell \in Cell :
                    client.memory[None][cell] # None => client.memory[None][cell].map = stored)
    /\ UNCHANGED <<player, session, conn, s2c, c2s, counters, stored, name>>

\* The program is killed between two sessions and started again.
Restart ==
    /\ conn = "off" /\ client # None
    /\ client' = None
    /\ UNCHANGED <<player, session, conn, s2c, c2s, counters, disk>>

-----------------------------------------------------------------------------
(* The receive path.                                                        *)

BotAck(bot) == [type |-> "ack", revision |-> bot.last_step_revision, origin |-> bot.origin]
BotReady(bot) == [type |-> "map_ready", map |-> bot.map]
BotCommit(bot) ==
    [type |-> "commit", fill_id |-> bot.fill_id, origin |-> bot.fill_origin, map |-> bot.map]
BotNack(bot) ==
    [type |-> "resync", clean |-> FALSE, origin |-> bot.origin, fill_id |-> bot.fill_id,
     fill_origin |-> bot.fill_origin, rows_have |-> bot.rows_have]
CleanFill ==
    [type |-> "resync", clean |-> TRUE, origin |-> <<0, 0>>, fill_id |-> 0,
     fill_origin |-> <<0, 0>>, rows_have |-> {}]

\* Where a strip beside the window moves it; the row of a column is not looked at.
Beside(o, e) ==
    CASE e.width = 1 /\ e.x = o[1] + WINDOW_W -> <<o[1] + 1, o[2]>>
      [] e.width = 1 /\ e.x = o[1] - 1 -> <<o[1] - 1, o[2]>>
      [] e.height = 1 /\ e.y = o[2] + WINDOW_H -> <<o[1], o[2] + 1>>
      [] e.height = 1 /\ e.y = o[2] - 1 -> <<o[1], o[2] - 1>>
      [] OTHER -> None

\* Faulty: takes the steps of a fill's time too.
EdgeAnyTime(bot, e) ==
    LET to == Beside(bot.origin, e)
        moved == [bot EXCEPT !.memory[bot.map] = apply_rect(@, e.x, e.y, e.width, e.tiles),
                             !.origin = to, !.last_step_revision = e.revision]
    IN  IF to # None THEN Answer(moved, <<BotAck(moved)>>) ELSE Quiet(bot)

_on_terrain_edge(bot, e) ==
    LET to == Beside(bot.origin, e)
        moved == [bot EXCEPT !.memory[bot.map] = apply_rect(@, e.x, e.y, e.width, e.tiles),
                             !.origin = to, !.last_step_revision = e.revision]
    IN  IF bot.hold \/ bot.fill_id # None THEN Quiet(bot)
        ELSE IF e.revision = bot.last_step_revision THEN Answer(bot, <<BotAck(bot)>>)
        ELSE IF to # None THEN Answer(moved, <<BotAck(moved)>>)
        ELSE IF bot.last_step_revision # 0 THEN Answer(bot, <<BotAck(bot)>>)
        ELSE Quiet(bot)

\* Faulty: the rows of an abandoned fill count for the next.
RowOfAnyFill(bot, w) ==
    LET next == [bot EXCEPT !.fill_id = w.fill_id, !.fill_origin = <<w.x, w.y - w.row>>,
                            !.rows_have = @ \cup {w.row},
                            !.memory[bot.map] = apply_rect(@, w.x, w.y, WINDOW_W, w.tiles)]
    IN  Quiet(IF next.rows_have # Row \/ bot.commit_pending THEN next
              ELSE [next EXCEPT !.commit_pending = TRUE, !.commit_due = TRUE, !.retries = 0])

\* The last missing row of a fill makes its commit.
_on_window_row(bot, w) ==
    LET o == <<w.x, w.y - w.row>>
        fill == IF bot.fill_id = w.fill_id /\ bot.fill_origin = o THEN bot
                ELSE [bot EXCEPT !.fill_id = w.fill_id, !.fill_origin = o, !.rows_have = {},
                                 !.commit_pending = FALSE]
        next == [fill EXCEPT !.memory[bot.map] = apply_rect(@, w.x, w.y, WINDOW_W, w.tiles),
                             !.rows_have = @ \cup {w.row}]
    IN  Quiet(IF next.rows_have # Row \/ next.commit_pending THEN next
              ELSE [next EXCEPT !.commit_pending = TRUE, !.commit_due = TRUE, !.retries = 0])

\* A fill that is acknowledged ends the hold of a transition.
_on_commit_ack(bot, a) ==
    LET done == [bot EXCEPT !.origin = a.origin, !.fill_id = None, !.fill_origin = None,
                            !.commit_pending = FALSE, !.last_step_revision = 0, !.hold = FALSE]
    IN  IF ~bot.commit_pending \/ a.fill_id # bot.fill_id THEN Quiet(bot)
        ELSE Answer(done, IF bot.hold THEN <<BotReady(bot)>> ELSE << >>)

\* Faulty: while it is held it takes any announcement for a repeated one.
ChangeOnce(bot, m) ==
    Quiet(IF bot.hold THEN bot
          ELSE [bot EXCEPT !.map = m.map, !.hold = TRUE, !.fill_id = None, !.fill_origin = None,
                           !.commit_pending = FALSE, !.last_step_revision = 0])

_on_map_change(bot, m) ==
    Quiet(IF m.map = bot.map /\ bot.hold THEN bot
          ELSE [bot EXCEPT !.map = m.map, !.hold = TRUE, !.fill_id = None, !.fill_origin = None,
                           !.commit_pending = FALSE, !.last_step_revision = 0])

\* The tile update of a WORLD_STATE, which means none when it is at (0, 0).
_on_world_state(bot, w) ==
    Quiet(IF <<w.x, w.y>> = <<0, 0>> THEN bot
          ELSE [bot EXCEPT !.memory[bot.map][<<w.x, w.y>>] = w.tile])

_handle_frame(bot, pkt) ==
    CASE pkt.type = "edge" -> _on_terrain_edge(bot, pkt)
      [] pkt.type = "row" -> _on_window_row(bot, pkt)
      [] pkt.type = "commit_ack" -> _on_commit_ack(bot, pkt)
      [] pkt.type = "map_change" -> _on_map_change(bot, pkt)
      [] pkt.type = "world" -> _on_world_state(bot, pkt)

\* TokenStore.update_map, when a map change begins.
update_map(map) == stored' = map

\* _drain_frames, one frame of it.
Receives ==
    /\ s2c # << >>
    /\ ClientTurn(_handle_frame(client, Head(s2c)))
    /\ update_map(IF client' # client THEN client'.map ELSE stored)
    /\ s2c' = Tail(s2c)
    /\ UNCHANGED <<counters, name, adopted>>

\* A timer of either side that runs out while packets are under way is bounded; when
\* all is quiet they run out as often as it takes.
Early == IF Underway THEN {"timer"} ELSE {}

\* _service_fill: the commit at once, and again until it is acknowledged or given up
\* for a clean fill ...
_service_commit ==
    /\ conn = "up" /\ client.commit_pending
    /\ Spend(IF client.commit_due THEN {} ELSE Early)
    /\ ClientTurn(IF client.retries >= COMMIT_RETRY_LIMIT
                  THEN Answer([client EXCEPT !.fill_id = None, !.commit_pending = FALSE], <<CleanFill>>)
                  ELSE Answer([client EXCEPT !.commit_due = FALSE, !.retries = @ + 1], <<BotCommit(client)>>))
    /\ UNCHANGED <<s2c, disk>>

\* ... and what it has of a fill whose rows stopped coming.
_service_nack ==
    /\ conn = "up" /\ ~client.commit_pending /\ client.fill_id # None
    /\ Spend(Early)
    /\ ClientTurn(Answer(client, <<BotNack(client)>>))
    /\ UNCHANGED <<s2c, disk>>

-----------------------------------------------------------------------------
(* The server's half: CacheSync's, with the timers above.                    *)

ServerTick(step, timers) ==
    /\ session # None
    /\ Spend(({step} \ {"stay"}) \cup (IF timers = NoTimer THEN {} ELSE Early))
    /\ \E p \in GameStep(step, player) :
        IF session.latest
        THEN \E t \in _send_tick_packets(session, p, timers) :
                /\ Queued + Len(t.out) <= MaxLink
                /\ Telling(t.session)
                /\ session' = t.session
                /\ player' = t.player
                /\ Send(t.out)
        ELSE player' = p /\ UNCHANGED <<session, s2c>>
    /\ UNCHANGED <<client, conn, c2s, disk>>

Serves ==
    (HandleCommit \/ HandleResync \/ HandleMapReady \/ HandlePlayerState \/ SendWorld) /\ UNCHANGED disk

Acknowledged ==
    /\ Arrives("ack")
    /\ \E settled \in BOOLEAN :
        /\ settled => Queued + CACHE_STEP_PIPELINE <= MaxLink
        /\ Spend(IF settled THEN {"timer"} ELSE {})
        /\ Serve(_handle_cache_step_ack(session, player, Head(c2s), settled))
    /\ UNCHANGED <<player, disk>>

Attaches ==
    /\ conn = "booted" /\ client.playing
    /\ _attach_realtime
    /\ adopted' = (adopted /\ client.map = player.map /\ client.boot_origin = player.target)
    /\ UNCHANGED <<stored, name>>

\* run: after a break, or a pause that grows, the next session.
Leaves == (Disconnect \/ _drop_session \/ BootstrapExpires \/ IdleTick) /\ UNCHANGED disk

BotInit ==
    /\ Init
    /\ \/ name = "free" /\ stored = None /\ player.map = Overworld
       \/ name = "taken" /\ stored = player.map
    /\ adopted = TRUE

BotNext ==
    \/ \E step \in GameSteps, timers \in Timer : ServerTick(step, timers)
    \/ Acknowledged
    \/ Serves
    \/ Attaches
    \/ Leaves
    \/ _ensure_identity
    \/ _bootstrap_terrain
    \/ _play_realtime
    \/ Restart
    \/ Receives
    \/ _service_commit
    \/ _service_nack

BotSpec == BotInit /\ [][BotNext]_all

-----------------------------------------------------------------------------

\* A bot that was never wrong about where it left off remembers each tile in its
\* place and on its map, whatever it abandoned, resumed or received twice on the way.
KnownTerrain ==
    adopted /\ client # None =>
        \A m \in Maps, cell \in Cell :
            LET tile == client.memory[m][cell]
            IN  tile # None => tile.map = m /\ PlacedAt(tile, cell[1], cell[2])

\* Nothing is under way on either side, and none of the server's timers has to run out.
BothDone ==
    /\ conn = "up" /\ s2c = << >> /\ c2s = << >>
    /\ session.latest /\ Idle(session) /\ session.inflight_steps = << >>
    /\ ~NeedsFill(session, player) /\ ~player.transition_loading
    /\ client.fill_id = None

\* When both sides are done, the bot and its session agree on its window, which it
\* remembers whole; and it is not left held at a map's entry, where nothing would
\* release it.  A timer that ran out early can do that: an announcement repeated while
\* MAP_READY is under way holds the bot again and drops the fill to release it.
BotAgreement ==
    BothDone =>
        /\ "timer" \notin seen => ~client.hold
        /\ ~client.hold /\ adopted =>
             /\ client.origin = session.window_origin /\ client.map = player.map
             /\ \A r \in Row, c \in Col :
                  client.memory[player.map][<<client.origin[1] + c, client.origin[2] + r>>] # None

\* The server ends its pause, or closes a fill, only when the bot has every row of
\* that window of the player's map.
HasWindow(o) ==
    \A r \in Row, c \in Col : client.memory[player.map][<<o[1] + c, o[2] + r>>] # None
BotCommitHonest ==
    [][/\ adopted
       /\ \/ HandleCommit /\ session'.fill_origin # session.fill_origin
          \/ HandleMapReady /\ player' # player
       => HasWindow(session'.window_origin)]_all
=============================================================================
