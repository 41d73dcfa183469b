-------------------------------- MODULE Combat --------------------------------
(***************************************************************************)
(* One tick of the world as players fight and walk in it: what the latest  *)
(* PLAYER_STATE of each client does, gates and graves, shots, bites, loot, *)
(* herbs and trees (src/server/game.py, world.py; the tick of              *)
(* hybrid_server.py).  The clients are any clients: Receive takes any      *)
(* report from where a player may think he is.                             *)
(*                                                                         *)
(* Every hit takes one point.  A map is one zone, awake while a player is  *)
(* on it.  One beaver chops and bites; inventories do not fill.  What a    *)
(* press of the pickup button says to a villager is in Story.              *)
(***************************************************************************)
EXTENDS Integers, FiniteSets, Sequences

CONSTANTS
    Token,
    Order,              \* the players in the order of their sessions
    Layout,             \* the tile of each place as the maps are built
    Gates, Exit,        \* places with a way out, and where each leads
    Grave,              \* where the dead of each map wake
    Champions,          \* whom the arena lets in
    MaxHealth, EnemyHealth, Range, Sight,   \* of a shot; of the beaver
    Cooldown, Grace, Hold,              \* TRANSITION_COOLDOWN_TICKS, TRANSITION_READY_GRACE_TICKS, RESPAWN_CORRECTION_TICKS
    Pause, Regrowth, Alert, Despawn,    \* ticks of the beaver, of herbs, trees and beavers, of its anger, of loot
    Windows,            \* the parts of the maps whose terrain a client may hold
    Scenes,             \* where players and beaver are at first; and a bound: packets, shots, presses, repeated MAP_READYs
    Nothing

Place == DOMAIN Layout
Beyond == "border"
Aim == {<<dx, dy>> : dx \in -1..1, dy \in -1..1} \ {<<0, 0>>}

\* No tree is chopped at first (the maps have none); the dead of every map have a
\* grave on it; each session has its place in the order of a tick.
ASSUME CombatAssumption ==
    /\ Place \subseteq {"field", "arena", "cave"} \X Int \X Int
    /\ Layout \in [Place -> {"grass", "herb", "full", "wall"}]
    /\ Gates \subseteq Place /\ Exit \in [Gates -> Place] /\ Champions \subseteq Token
    /\ \A place \in Place : Grave[place[1]] \in Place /\ Grave[place[1]][1] = place[1]
    /\ Order \in Seq(Token) /\ \A t \in Token : \E i \in 1..Len(Order) : Order[i] = t
    /\ \A i, j \in 1..Len(Order) : Order[i] = Order[j] => i = j
    /\ \A scene \in Scenes : scene.start \in [Token -> Place] /\ scene.den \in Place
    /\ Windows \subseteq SUBSET Place
    /\ Nothing \notin Place \cup Nat \cup (Place \X {"grass", "herb", "full", "damaged", "stump", "wall"})
    /\ \A n \in {MaxHealth, EnemyHealth, Range, Sight, Cooldown, Grace, Hold, Pause, Regrowth, Alert, Despawn} : n \in Nat \ {0}

VARIABLES
    v,          \* GameState: players, enemy, tiles, timers, loot, tile_update
    latest,     \* ClientSession.latest of each player
    ticked,     \* history: the last step was a tick
    budget      \* bound left

vars == <<v, latest, ticked, budget>>

Put(place, dx, dy) == <<place[1], place[2] + dx, place[3] + dy>>
Less(a, b) == IF a > b THEN a - b ELSE b - a
Distance(a, b) == Less(a[2], b[2]) + Less(a[3], b[3])
Least(a, b) == IF a < b THEN a ELSE b
Down(n) == IF n > 0 THEN n - 1 ELSE 0

-----------------------------------------------------------------------------
(* World.                                                                  *)

tile(g, place) == IF place \in Place THEN g.tiles[place] ELSE Beyond
player_can_enter(g, place) == tile(g, place) \notin {"full", "damaged", "wall", Beyond}
enemy_can_enter(g, place) == tile(g, place) \in {"grass", "herb", "stump"}

Herbs == {place \in Place : Layout[place] = "herb"}
Trees == {place \in Place : Layout[place] = "full"}

\* Faulty: arms no timer.
ConsumeForever(g, place) == IF tile(g, place) # "herb" THEN g ELSE [g EXCEPT !.tiles[place] = "grass"]

consume_herb_if_present(g, place) ==
    IF tile(g, place) # "herb" THEN g
    ELSE [g EXCEPT !.tiles[place] = "grass", !.herb_ticks[place] = Regrowth]

\* What a chop leaves of a tree, and nothing where there is none to fell.
Chopped == [tree \in {"full", "damaged"} |-> IF tree = "full" THEN "damaged" ELSE "stump"]
chop_tree_if_present(g, place) ==
    LET left == Chopped[tile(g, place)]
    IN  [g EXCEPT !.tiles[place] = left, !.tile_update = <<place, left>>,
                  !.tree_ticks[place] = IF left = "stump" THEN Regrowth ELSE @]

player_at(g, place) == \E t \in Token : g.players[t].at = place
Live(g) == g.enemy.hp > 0
entity_at(g, place) ==
    player_at(g, place) \/ (Live(g) /\ g.enemy.at = place) \/ \E item \in g.items : item.at = place

-----------------------------------------------------------------------------
(* Walking.                                                                *)

_blocked_by_entity(g, t, place) ==
    (Live(g) /\ g.enemy.at = place) \/ \E u \in Token \ {t} : g.players[u].at = place

Free(g, t, place) == player_can_enter(g, place) /\ ~_blocked_by_entity(g, t, place)

\* Faulty: sees the enemies only.
AllowedThroughPlayers(g, t, place) ==
    player_can_enter(g, place) /\ ~(Live(g) /\ g.enemy.at = place)

_player_destination_allowed(g, t, place) ==
    LET at == g.players[t].at
        dx == place[2] - at[2]
        dy == place[3] - at[3]
    IN  /\ Free(g, t, place)
        /\ dx \in {-1, 1} /\ dy \in {-1, 1} => Free(g, t, Put(at, dx, 0)) /\ Free(g, t, Put(at, 0, dy))

map_forces_pvp(place) == place[1] = "arena"
\* Faulty: who leaves the arena stays as he was there.
ForceOnly(player, from) == IF map_forces_pvp(player.at) THEN [player EXCEPT !.pvp = TRUE] ELSE player

_apply_map_pvp_policy(player, from) ==
    IF map_forces_pvp(player.at) THEN [player EXCEPT !.pvp = TRUE]
    ELSE IF map_forces_pvp(from) THEN [player EXCEPT !.pvp = FALSE, !.chose = FALSE]
    ELSE player

Through(player) ==
    _apply_map_pvp_policy(
        [player EXCEPT !.at = Exit[player.at], !.loading = TRUE, !.grace = 0,
                       !.cooldown = Cooldown, !.correction = Hold, !.placed = TRUE], player.at)

_apply_transition_if_present(g, t) ==
    LET player == g.players[t]
    IN  IF player.cooldown > 0 \/ player.at \notin Gates THEN g
        ELSE IF map_forces_pvp(Exit[player.at]) /\ t \notin Champions
             THEN [g EXCEPT !.players[t].cooldown = Cooldown]
             ELSE [g EXCEPT !.players[t] = Through(player)]

_transition_protected(player) == player.loading \/ player.grace > 0

item_at(g, place) == {item \in g.items : item.at = place}
collect_item(g, item) == [g EXCEPT !.items = @ \ {item}]
_pickup_item_at(g, place) ==
    IF item_at(g, place) = {} THEN g ELSE collect_item(g, CHOOSE item \in item_at(g, place) : TRUE)

\* The cells a report passes, as far as it can diagonally, and both corners of each
\* diagonal step; one item is taken from each.
Sign(n) == IF n > 0 THEN 1 ELSE IF n < 0 THEN -1 ELSE 0
Passed(from, to) ==
    LET dx == Less(from[2], to[2])
        dy == Less(from[3], to[3])
        sx == Sign(to[2] - from[2])
        sy == Sign(to[3] - from[3])
        cell(k) == Put(from, sx * Least(k, dx), sy * Least(k, dy))
    IN  {cell(k) : k \in 0..(dx + dy - Least(dx, dy))}
        \cup UNION {{Put(cell(k), sx, 0), Put(cell(k), 0, sy)} : k \in 0..(Least(dx, dy) - 1)}

_pickup_items_along_path(g, from, to) ==
    LET cells == {cell \in Passed(from, to) : item_at(g, cell) # {}}
    IN  [g EXCEPT !.items = @ \ {CHOOSE item \in item_at(g, cell) : TRUE : cell \in cells}]

pickup_nearby_item(g, t) ==
    LET at == g.players[t].at
        cells == <<at, Put(at, 1, 0), Put(at, -1, 0), Put(at, 0, 1), Put(at, 0, -1)>>
        found == {i \in 1..5 : item_at(g, cells[i]) # {}}
    IN  IF found = {} THEN g
        ELSE _pickup_item_at(g, cells[CHOOSE i \in found : \A j \in found : i <= j])

-----------------------------------------------------------------------------
(* Fighting.                                                               *)

Wake(g, map) ==
    IF g.enemy.at[1] = map THEN [g EXCEPT !.enemy.aggro = 0, !.enemy.attack_cooldown = 0] ELSE g

handle_player_death(g, t) ==
    LET player == g.players[t]
        up == [player EXCEPT !.at = Grave[player.at[1]], !.health = MaxHealth,
                             !.correction = Hold, !.placed = TRUE]
    IN  Wake([g EXCEPT !.players[t] = _apply_map_pvp_policy(up, player.at)], player.at[1])

Hurt(g, t) ==
    LET h == [g EXCEPT !.players[t].health = @ - 1]
    IN  IF h.players[t].health <= 0 THEN handle_player_death(h, t) ELSE h

\* Faulty: asks the attacker only.
DamageArriving(g, t, attacker) ==
    IF _transition_protected(g.players[attacker]) THEN g ELSE Hurt(g, t)

_damage_player(g, t, attacker) ==
    IF _transition_protected(g.players[t]) \/ _transition_protected(g.players[attacker]) THEN g
    ELSE Hurt(g, t)

\* Gold, sticks or both: where the beaver fell, the second beside it if there is room.
_drop_loot(g, drops) ==
    LET at == g.enemy.at
        room == {aim \in Aim : player_can_enter(g, Put(at, aim[1], aim[2]))
                               /\ ~entity_at(g, Put(at, aim[1], aim[2]))}
        beside == IF room = {} THEN at ELSE LET aim == CHOOSE a \in room : TRUE IN Put(at, aim[1], aim[2])
        place(what) == IF what = "sticks" /\ "gold" \in drops THEN beside ELSE at
    IN  [g EXCEPT !.items = @ \cup {[what |-> what, at |-> place(what), left |-> Despawn] : what \in drops}]

_damage_entity(g, drops) ==
    LET h == [g EXCEPT !.enemy.hp = @ - 1, !.enemy.aggro = Alert]
    IN  IF h.enemy.hp > 0 THEN h ELSE _drop_loot([h EXCEPT !.enemy.respawn = Regrowth], drops)

_shot_terrain_blocks(g, place) == ~player_can_enter(g, place)
_diagonal_shot_corner_blocks(g, place, aim) ==
    /\ aim[1] # 0 /\ aim[2] # 0
    /\ _shot_terrain_blocks(g, Put(place, aim[1], 0)) \/ _shot_terrain_blocks(g, Put(place, 0, aim[2]))

\* The first thing in the line of fire: the beaver before a player, both before terrain.
_hunter_attack(g, t, aim, drops) ==
    LET at == g.players[t].at
        cell(n) == Put(at, n * aim[1], n * aim[2])
        targets(n) == {u \in Token \ {t} : g.players[u].at = cell(n)}
        Struck(n) == (Live(g) /\ g.enemy.at = cell(n)) \/ targets(n) # {}
        Open(n) == /\ ~_diagonal_shot_corner_blocks(g, cell(n - 1), aim)
                   /\ n > 1 => ~Struck(n - 1) /\ ~_shot_terrain_blocks(g, cell(n - 1))
        hits == {n \in 1..Range : Struck(n) /\ \A m \in 1..n : Open(m)}
    IN  IF hits = {} THEN g
        ELSE LET n == CHOOSE k \in hits : TRUE
                 u == CHOOSE other \in targets(n) : TRUE
             IN  IF Live(g) /\ g.enemy.at = cell(n) THEN _damage_entity(g, drops)
                 ELSE IF g.players[t].pvp /\ g.players[u].pvp THEN _damage_player(g, u, t)
                 ELSE g

-----------------------------------------------------------------------------
(* What a PLAYER_STATE does.                                               *)

Acked(player, s) ==
    [player EXCEPT !.fire = s.fire, !.pickup = s.pickup, !.toggle = s.toggle, !.buttons = s.buttons]

_apply_player_state_fire(g, t, s, drops) ==
    LET player == g.players[t]
        h == [g EXCEPT !.players[t].fire = s.fire]
    IN  IF s.fire = player.fire /\ ~(s.buttons /\ ~player.buttons) THEN h
        ELSE _hunter_attack(h, t, s.facing, drops)

_apply_player_state_pickup(g, t, s) ==
    IF s.pickup = g.players[t].pickup THEN g
    ELSE pickup_nearby_item([g EXCEPT !.players[t].pickup = s.pickup], t)

_apply_player_state_pvp_toggle(g, t, s) ==
    IF s.toggle = g.players[t].toggle THEN g
    ELSE [g EXCEPT !.players[t].toggle = s.toggle,
                   !.players[t].pvp = map_forces_pvp(g.players[t].at) \/ ~@,
                   !.players[t].chose = ~map_forces_pvp(g.players[t].at)]

\* Faulty: as it was, a refused step kept its buttons.
InputsOfSteps(g, t, s, drops) ==
    IF <<s.x, s.y>> # <<g.players[t].at[2], g.players[t].at[3]>> THEN g
    ELSE [_apply_player_state_pvp_toggle(
            _apply_player_state_pickup(_apply_player_state_fire(g, t, s, drops), t, s), t, s)
          EXCEPT !.players[t].buttons = s.buttons]

_apply_player_state_inputs(g, t, s, drops) ==
    [_apply_player_state_pvp_toggle(
        _apply_player_state_pickup(_apply_player_state_fire(g, t, s, drops), t, s), t, s)
     EXCEPT !.players[t].buttons = s.buttons]

_discard_player_state_inputs(g, t, s) == [g EXCEPT !.players[t] = Acked(@, s)]

_heal_player_from_herb(g, t, place) ==
    IF g.players[t].health < MaxHealth /\ tile(g, place) = "herb"
    THEN [consume_herb_if_present(g, place) EXCEPT
            !.players[t].health = @ + 1, !.tile_update = <<place, "grass">>]
    ELSE g

Moved(g, t, place) ==
    LET from == g.players[t].at
        ate == _heal_player_from_herb(g, t, place)
        walked == [ate EXCEPT !.players[t].at = place, !.players[t].placed = @ /\ place = from]
    IN  _apply_transition_if_present(_pickup_items_along_path(walked, from, place), t)

apply_player_state(g, t, s, drops) ==
    LET player == g.players[t]
        place == <<player.at[1], s.x, s.y>>
        no == [g EXCEPT !.players[t].accepted = FALSE]
        h == [no EXCEPT !.players[t].correction = 0]
    IN  IF player.loading THEN _discard_player_state_inputs(no, t, s)
        ELSE IF player.correction > 0 /\ place # player.at
             THEN _discard_player_state_inputs([no EXCEPT !.players[t].correction = @ - 1], t, s)
        ELSE IF ~_player_destination_allowed(g, t, place)
             THEN _apply_player_state_inputs(h, t, s, drops)
        ELSE [_apply_player_state_inputs(Moved(h, t, place), t, s, drops) EXCEPT !.players[t].accepted = TRUE]

-----------------------------------------------------------------------------
(* The tick.                                                               *)

begin_tick(g) ==
    [g EXCEPT !.tile_update = Nothing,
              !.players = [t \in Token |->
                 [g.players[t] EXCEPT !.cooldown = Down(@), !.grace = IF g.players[t].loading THEN @ ELSE Down(@)]]]

Applied(g, t, drops) == IF latest[t] = Nothing THEN g ELSE apply_player_state(g, t, latest[t], drops)

ApplyAll(g, drops) ==
    LET after[i \in 0..Len(Order)] == IF i = 0 THEN g ELSE Applied(after[i - 1], Order[i], drops)
    IN  after[Len(Order)]

_decay_expired_items(g) ==
    [g EXCEPT !.items = {[item EXCEPT !.left = @ - 1] : item \in {i \in @ : i.left > 0}}]

NewBeaver(home) == [home |-> home, at |-> home, hp |-> EnemyHealth, respawn |-> 0, aggro |-> 0,
              move_cooldown |-> 0, attack_cooldown |-> 0, chop_cooldown |-> 0]

_respawn_dead_enemies(g) ==
    IF Live(g) THEN g
    ELSE IF g.enemy.respawn > 1 THEN [g EXCEPT !.enemy.respawn = @ - 1]
    ELSE IF player_at(g, g.enemy.home) THEN [g EXCEPT !.enemy.respawn = 1]
    ELSE [g EXCEPT !.enemy = NewBeaver(g.enemy.home)]

Ticked(ticks) == [place \in Place |-> IF ticks[place] = Nothing THEN Nothing ELSE Down(ticks[place])]
Ready(ticks) == {place \in Place : ticks[place] = 0}

\* One grows back a tick, the first in the order of maps and cells, if the tick's
\* one tile update is not taken; what stands or lies on the others puts them off.
Before(a, b) ==
    \/ <<a[1], b[1]>> \in {<<"field", "cave">>, <<"field", "arena">>, <<"cave", "arena">>}
    \/ a[1] = b[1] /\ (a[3] < b[3] \/ (a[3] = b[3] /\ a[2] < b[2]))
Grown(g, ready) ==
    {place \in ready : ~entity_at(g, place)
                        /\ \A other \in ready : Before(other, place) => entity_at(g, other)}
PutOff(g, ready) ==
    {place \in ready : entity_at(g, place)
                        /\ \A other \in Grown(g, ready) : Before(place, other)}

_respawn_herbs(g) ==
    LET ticks == Ticked(g.herb_ticks)
        up == Grown(g, Ready(ticks))
        wait == PutOff(g, Ready(ticks))
    IN  IF g.tile_update # Nothing THEN [g EXCEPT !.herb_ticks = ticks]
        ELSE [g EXCEPT
                !.herb_ticks = [p \in Place |-> IF p \in up THEN Nothing ELSE IF p \in wait THEN 1 ELSE ticks[p]],
                !.tiles = [p \in Place |-> IF p \in up THEN "herb" ELSE @[p]],
                !.tile_update = IF up = {} THEN @ ELSE <<CHOOSE p \in up : TRUE, "herb">>]

_respawn_trees(g) ==
    LET ticks == Ticked(g.tree_ticks)
        up == Grown(g, Ready(ticks))
        wait == PutOff(g, Ready(ticks))
    IN  IF g.tile_update # Nothing THEN [g EXCEPT !.tree_ticks = ticks]
        ELSE [g EXCEPT
                !.tree_ticks = [p \in Place |-> IF p \in up THEN Nothing ELSE IF p \in wait THEN 1 ELSE ticks[p]],
                !.tiles = [p \in Place |-> IF p \in up THEN "full" ELSE @[p]],
                !.tile_update = IF up = {} THEN @ ELSE <<CHOOSE p \in up : TRUE, "full">>]

\* The nearest player who is there to be attacked, of equals the first.
First(t, u) == \E i, j \in 1..Len(Order) : Order[i] = t /\ Order[j] = u /\ i <= j
_nearest_live_player(g) ==
    LET near == {t \in Token : /\ g.players[t].at[1] = g.enemy.at[1]
                               /\ ~_transition_protected(g.players[t])}
        far(t) == Distance(g.players[t].at, g.enemy.at)
    IN  {t \in near : \A u \in near : far(t) < far(u) \/ (far(t) = far(u) /\ First(t, u))}

Neighbours(place) == <<Put(place, 0, -1), Put(place, 0, 1), Put(place, -1, 0), Put(place, 1, 0)>>
_try_chop(g) ==
    LET cells == Neighbours(g.enemy.at)
        trees == {i \in 1..4 : tile(g, cells[i]) \in DOMAIN Chopped}
    IN  chop_tree_if_present([g EXCEPT !.enemy.chop_cooldown = Pause],
                             cells[CHOOSE i \in trees : \A j \in trees : i <= j])
\* Faulty: chops whatever else the tick has changed.
ChopAnyway(g) ==
    /\ g.enemy.chop_cooldown = 0
    /\ \E i \in 1..4 : tile(g, Neighbours(g.enemy.at)[i]) \in DOMAIN Chopped

CanChop(g) ==
    /\ g.tile_update = Nothing
    /\ g.enemy.chop_cooldown = 0
    /\ \E i \in 1..4 : tile(g, Neighbours(g.enemy.at)[i]) \in DOMAIN Chopped

\* Toward whom it is after, wherever it likes otherwise.
_enemy_direction(g, t, whim) ==
    LET from == g.enemy.at
        to == g.players[t].at
    IN  IF g.enemy.aggro = 0 /\ Distance(from, to) > Sight THEN whim
        ELSE IF Less(from[2], to[2]) >= Less(from[3], to[3]) THEN <<IF to[2] < from[2] THEN -1 ELSE 1, 0>>
        ELSE <<0, IF to[3] < from[3] THEN -1 ELSE 1>>

_move_enemies(g, whim) ==
    LET h == [g EXCEPT !.enemy.aggro = Down(@)]
        target == _nearest_live_player(h)
        t == CHOOSE u \in target : TRUE
        rest == IF h.tile_update = Nothing THEN [h EXCEPT !.enemy.chop_cooldown = Down(@)] ELSE h
        aim == _enemy_direction(h, t, whim)
        to == Put(h.enemy.at, aim[1], aim[2])
        moves == enemy_can_enter(h, to) /\ ~player_at(h, to)
    IN  IF ~Live(g) THEN g
        ELSE IF target = {} \/ Distance(h.enemy.at, h.players[t].at) <= 1 THEN h
        ELSE IF CanChop(h) THEN _try_chop(h)
        ELSE IF h.enemy.move_cooldown > 0 THEN [rest EXCEPT !.enemy.move_cooldown = @ - 1]
        ELSE [rest EXCEPT !.enemy.move_cooldown = Pause, !.enemy.at = IF moves THEN to ELSE @]

_apply_enemy_contact_damage(g) ==
    LET target == _nearest_live_player(g)
        t == CHOOSE u \in target : TRUE
    IN  IF ~Live(g) THEN g
        ELSE IF g.enemy.attack_cooldown > 0 THEN [g EXCEPT !.enemy.attack_cooldown = @ - 1]
        ELSE IF target = {} \/ Distance(g.enemy.at, g.players[t].at) > 1 THEN g
        ELSE Hurt([g EXCEPT !.enemy.attack_cooldown = Pause], t)

finish_tick(g, whim) ==
    _apply_enemy_contact_damage(_move_enemies(
        _respawn_trees(_respawn_herbs(_respawn_dead_enemies(_decay_expired_items(g)))), whim))

\* What a tick's snapshot tells a client of the tiles: the tick's tile update if it
\* is on his map, else the herb he stands on; no more than is in his window.
_snapshot_tile_update(g, t, window) ==
    LET at == g.players[t].at
        told == IF g.tile_update # Nothing /\ g.tile_update[1][1] = at[1] THEN g.tile_update
                ELSE IF g.tiles[at] = "herb" THEN <<at, "herb">> ELSE Nothing
    IN  IF told # Nothing /\ told[1] \in window THEN told ELSE Nothing

\* The beaver's whims and its loot matter while somebody is there.
Awake(g) == Live(g) /\ \E t \in Token : g.players[t].at[1] = g.enemy.at[1]
Whims(g) == IF Awake(g) THEN {aim \in Aim : aim[1] = 0 \/ aim[2] = 0} ELSE {<<1, 0>>}
Drops(g) == IF Awake(g) THEN SUBSET {"gold", "sticks"} \ {{}} ELSE {{"gold"}}

Tick ==
    /\ \E drops \in Drops(v) :
          LET played == ApplyAll(begin_tick(v), drops)
          IN  \E whim \in Whims(played) : v' = finish_tick(played, whim)
    /\ ticked' = TRUE
    /\ UNCHANGED <<latest, budget>>

-----------------------------------------------------------------------------
(* The clients.                                                            *)

\* One press at most between two packets: of fire, of pickup, of the PvP key.  The
\* window a client begins with is as old as his first packet here.
Pressed(s, press) ==
    [s EXCEPT !.fire = IF press = "fire" THEN 1 - @ ELSE @,
              !.pickup = IF press = "pickup" THEN 1 - @ ELSE @,
              !.toggle = IF press = "toggle" THEN 1 - @ ELSE @,
              !.buttons = press = "fire"]
Idle == [x |-> 0, y |-> 0, facing |-> <<1, 0>>, fire |-> 0, pickup |-> 0, toggle |-> 0, buttons |-> FALSE]

\* A report of where he is, or steps to, or was when he last wrote.
Reported(t) ==
    LET at == v.players[t].at
        last == IF latest[t] = Nothing THEN {} ELSE {<<latest[t].x, latest[t].y>>}
    IN  last \cup {<<place[2], place[3]>> : place \in {p \in Place :
            p[1] = at[1] /\ Less(p[2], at[2]) <= 1 /\ Less(p[3], at[3]) <= 1}}

Receive(t) ==
    \E press \in {"none", "fire", "pickup", "toggle"}, xy \in Reported(t), facing \in Aim :
       LET last == IF latest[t] = Nothing THEN Idle ELSE latest[t]
           s == [Pressed(last, press) EXCEPT !.x = xy[1], !.y = xy[2], !.facing = facing]
       IN  /\ press # "fire" => facing = last.facing
           /\ Put(v.players[t].at, facing[1], facing[2]) \in Place
           /\ budget.packets[t] > 0
           /\ press # "none" => budget[press] > 0
           /\ s # last
           /\ latest' = [latest EXCEPT ![t] = s]
           /\ budget' = IF press = "none" THEN [budget EXCEPT !.packets[t] = @ - 1]
                        ELSE [budget EXCEPT !.packets[t] = @ - 1, ![press] = @ - 1]
           /\ ticked' = FALSE
           /\ UNCHANGED v

\* He has the new map's window: or says so once more.
mark_player_map_ready(t) ==
    /\ v.players[t].loading \/ (budget.ready > 0 /\ v.players[t].placed)
    /\ v' = [v EXCEPT !.players[t].loading = FALSE, !.players[t].grace = Grace]
    /\ budget' = [budget EXCEPT !.ready = IF v.players[t].loading THEN @ ELSE @ - 1]
    /\ ticked' = FALSE
    /\ UNCHANGED latest

-----------------------------------------------------------------------------

\* History: chose, that he turned PvP on or off himself since he left the arena;
\* placed, that a gate or a grave put him where he is, or that he begins where
\* another does.
NewPlayer(place, shared) ==
    [at |-> place, health |-> MaxHealth, pvp |-> map_forces_pvp(place), cooldown |-> 0, loading |-> FALSE,
     grace |-> 0, correction |-> 0, fire |-> 0, pickup |-> 0, toggle |-> 0, buttons |-> FALSE,
     accepted |-> TRUE, chose |-> FALSE, placed |-> shared]

Init ==
    /\ budget \in Scenes
    /\ v = [players |-> [t \in Token |->
                           NewPlayer(budget.start[t], \E u \in Token \ {t} : budget.start[u] = budget.start[t])],
            enemy |-> NewBeaver(budget.den), tiles |-> Layout, items |-> {}, tile_update |-> Nothing,
            herb_ticks |-> [place \in Place |-> Nothing], tree_ticks |-> [place \in Place |-> Nothing]]
    /\ latest = [t \in Token |-> Nothing]
    /\ ticked = FALSE

Next == Tick \/ \E t \in Token : Receive(t) \/ mark_player_map_ready(t)

Spec == Init /\ [][Next]_vars

-----------------------------------------------------------------------------
(* Properties.                                                             *)

\* After a tick, no press is pending, accepted, refused or held: the packet is
\* applied again in every tick, and what is pending would go off by itself later.
EdgesSettled ==
    [][ticked' => \A t \in Token :
        latest[t] # Nothing => Acked(v'.players[t], latest[t]) = v'.players[t]]_vars

\* Two players are in one cell only where a gate or a grave has put one of them, or
\* both began, whatever both step on in one tick.
NoStacking ==
    \A t, u \in Token : t # u /\ v.players[t].at = v.players[u].at
                        => v.players[t].placed \/ v.players[u].placed

\* In the arena PvP is on; outside it is on for those only who have asked for it
\* since they left.
PvpByChoice ==
    \A t \in Token : IF map_forces_pvp(v.players[t].at) THEN v.players[t].pvp
                     ELSE v.players[t].pvp => v.players[t].chose

\* Who has come through a gate is not hurt in a tick that begins before he has seen
\* where he is, by anybody's shot or any bite; and until he says that he is there,
\* or the correction has lasted, no report moves whom a gate or a grave has put
\* somewhere.
SafeArrival ==
    [][ticked' => \A t \in Token :
        LET from == begin_tick(v).players[t]
            to == v'.players[t]
        IN  /\ _transition_protected(from) => to.health >= from.health
            /\ from.placed /\ (from.loading \/ from.correction > 0) => to.placed]_vars

\* Nor does it later.  It does not hold: the last report is applied in every tick,
\* each costs one of the ticks that the correction lasts, and then it is believed.
NoLeap ==
    [][ticked' => \A t \in Token :
        LET from == v.players[t]
            to == v'.players[t]
        IN  from.placed /\ to.accepted /\ ~to.placed
            => Less(from.at[2], to.at[2]) <= 1 /\ Less(from.at[3], to.at[3]) <= 1]_vars

\* A herb that is gone has a timer, and so has a stump; nothing else has: what is
\* eaten or felled grows again, once.
Regrows ==
    \A place \in Place :
        /\ (v.herb_ticks[place] # Nothing) = (place \in Herbs /\ v.tiles[place] # "herb")
        /\ (v.tree_ticks[place] # Nothing) = (v.tiles[place] = "stump")

\* A tick's snapshot says nothing false of the terrain, and tells whoever is on the
\* map of every tile in his window that the tick changed, though it tells of one
\* tile: a chop and a growth wait until there is nothing else to tell.  But of the
\* herbs eaten in one tick the last is told.  (What becomes of a snapshot on its way
\* is not in question here.)
Changed(place) == v'.tiles[place] # v.tiles[place]
Grazing(place) == v.tiles[place] = "herb" /\ v'.tiles[place] = "grass"
TerrainTold ==
    [][ticked' => \A t \in Token, window \in Windows :
        LET told == _snapshot_tile_update(v', t, window)
        IN  /\ told # Nothing => told[1][1] = v'.players[t].at[1] /\ v'.tiles[told[1]] = told[2]
            /\ \A place \in window : place[1] = v'.players[t].at[1] /\ Changed(place) =>
                  \/ told = <<place, v'.tiles[place]>>
                  \/ Grazing(place) /\ \E other \in Place \ {place} :
                                         Grazing(other) /\ v'.tile_update = <<other, "grass">>]_vars

\* And of every herb.  It does not hold.
HerbsTold ==
    [][ticked' => \A t \in Token, window \in Windows, place \in Place :
        place \in window /\ place[1] = v'.players[t].at[1] /\ Changed(place)
        => _snapshot_tile_update(v', t, window) = <<place, v'.tiles[place]>>]_vars
=============================================================================
