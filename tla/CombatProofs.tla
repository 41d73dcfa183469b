------------------------------ MODULE CombatProofs ------------------------------
(***************************************************************************)
(* The world of players who walk, shoot and die, for every map, number of  *)
(* players and length of the timers: World is inductive; NoStacking,       *)
(* PvpByChoice and Regrows are parts of it, EdgesSettled and SafeArrival   *)
(* follow from what one player's report does to the others, and            *)
(* TerrainTold from what the parts of a tick do to the tiles and to what   *)
(* the tick tells of them.                                                 *)
(***************************************************************************)
EXTENDS Combat, WellFoundedInduction, TLAPS

Tile == {"grass", "herb", "full", "damaged", "stump", "wall"}
Player == [at : Place, health : Int, pvp : BOOLEAN, cooldown : Int, loading : BOOLEAN, grace : Int,
           correction : Int, fire : {0, 1}, pickup : {0, 1}, toggle : {0, 1}, buttons : BOOLEAN,
           accepted : BOOLEAN, chose : BOOLEAN, placed : BOOLEAN]
Beaver == [home : Place, at : Place, hp : Int, respawn : Int, aggro : Int, move_cooldown : Int,
           attack_cooldown : Int, chop_cooldown : Int]
Item == [what : {"gold", "sticks"}, at : Place, left : Int]
Loot == SUBSET {"gold", "sticks"}
Timers == [Place -> Nat \cup {Nothing}]
Game == [players : [Token -> Player], enemy : Beaver, tiles : [Place -> Tile], items : SUBSET Item,
         tile_update : (Place \X Tile) \cup {Nothing}, herb_ticks : Timers, tree_ticks : Timers]
Report == [x : Int, y : Int, facing : Aim, fire : {0, 1}, pickup : {0, 1}, toggle : {0, 1},
           buttons : BOOLEAN]

\* NoStacking, of the players p.
Spaced(p) == \A t, u \in Token : t # u /\ p[t].at = p[u].at => p[t].placed \/ p[u].placed

\* PvpByChoice, of one player.
Chosen(player) == IF map_forces_pvp(player.at) THEN player.pvp ELSE player.pvp => player.chose

\* Regrows, and where there is a herb none but a herb grows.
Growing(tiles, herbs, trees) ==
    \A place \in Place :
        /\ (herbs[place] # Nothing) <=> (place \in Herbs /\ tiles[place] # "herb")
        /\ (trees[place] # Nothing) <=> (tiles[place] = "stump")
        /\ place \in Herbs => tiles[place] \in {"grass", "herb"}
        /\ tiles[place] = "herb" => place \in Herbs

\* The inductive invariant.
World(g) ==
    /\ g \in Game /\ Spaced(g.players) /\ \A t \in Token : Chosen(g.players[t])
    /\ Growing(g.tiles, g.herb_ticks, g.tree_ticks)

\* What happens to a player, a before and b after it, when it is not his report that
\* is applied: he may be hurt if nothing protects him, and wake at a grave of his map.
Bystander(a, b) ==
    /\ b.fire = a.fire /\ b.pickup = a.pickup /\ b.toggle = a.toggle /\ b.buttons = a.buttons
    /\ b.loading = a.loading /\ b.grace = a.grace /\ b.at[1] = a.at[1]
    /\ _transition_protected(a) => b.health >= a.health
    /\ a.placed => b.placed
    /\ a.correction > 0 => b.correction > 0

\* What does not move him where his report says, and his own report: neither ends
\* what protects him, or hurts him, and if it takes him to another map he waits for it.
Own(a, b) ==
    /\ _transition_protected(a) => _transition_protected(b) /\ b.health >= a.health
    /\ ~b.loading => ~a.loading /\ b.at[1] = a.at[1]

\* Nobody's report was applied.
Passes(g, h) == World(h) /\ \A u \in Token : Bystander(g.players[u], h.players[u])

\* No tile changes, and there is nothing more to tell.
Still(g, h) == h.tiles = g.tiles /\ h.tile_update = g.tile_update

\* Herbs are eaten, and the last is told.
Grazed(g, h) ==
    /\ \A p \in Place : h.tiles[p] = g.tiles[p] \/ (g.tiles[p] = "herb" /\ h.tiles[p] = "grass")
    /\ \/ Still(g, h)
       \/ \E p \in Place : g.tiles[p] = "herb" /\ h.tiles[p] = "grass" /\ h.tile_update = <<p, "grass">>

\* The report of t was.
PassesBut(g, h, t) ==
    World(h) /\ Grazed(g, h) /\ \A u \in Token \ {t} : Bystander(g.players[u], h.players[u])

-----------------------------------------------------------------------------
(* One field of the world, or of a player, becomes another.                 *)

LEMMA Constants ==
    /\ Place \subseteq {"field", "arena", "cave"} \X Int \X Int
    /\ Layout \in [Place -> {"grass", "herb", "full", "wall"}]
    /\ Gates \subseteq Place /\ Exit \in [Gates -> Place]
    /\ \A place \in Place : Grave[place[1]] \in Place /\ Grave[place[1]][1] = place[1]
    /\ Nothing \notin Nat /\ Nothing \notin Place \X Tile
    /\ {MaxHealth, EnemyHealth, Range, Sight, Cooldown, Grace, Hold, Pause, Regrowth, Alert, Despawn} \subseteq Nat \ {0}
  BY CombatAssumption DEF Tile

LEMMA SetPlayers ==
    ASSUME NEW g \in Game, NEW p \in [Token -> Player], NEW h, h = [g EXCEPT !.players = p]
    PROVE  /\ h \in Game /\ h.players = p /\ h.enemy = g.enemy /\ h.tiles = g.tiles /\ h.items = g.items
           /\ h.tile_update = g.tile_update /\ h.herb_ticks = g.herb_ticks /\ h.tree_ticks = g.tree_ticks
  BY DEF Game

LEMMA SetEnemy ==
    ASSUME NEW g \in Game, NEW e \in Beaver, NEW h, h = [g EXCEPT !.enemy = e]
    PROVE  /\ h \in Game /\ h.players = g.players /\ h.enemy = e /\ h.tiles = g.tiles /\ h.items = g.items
           /\ h.tile_update = g.tile_update /\ h.herb_ticks = g.herb_ticks /\ h.tree_ticks = g.tree_ticks
  BY DEF Game

LEMMA SetItems ==
    ASSUME NEW g \in Game, NEW i \in SUBSET Item, NEW h, h = [g EXCEPT !.items = i]
    PROVE  /\ h \in Game /\ h.players = g.players /\ h.enemy = g.enemy /\ h.tiles = g.tiles /\ h.items = i
           /\ h.tile_update = g.tile_update /\ h.herb_ticks = g.herb_ticks /\ h.tree_ticks = g.tree_ticks
  BY DEF Game

\* The beaver, loot and the update of a tick are in none of it.
LEMMA SameWorld ==
    ASSUME NEW g, World(g), NEW h \in Game, h.players = g.players, h.tiles = g.tiles,
           h.herb_ticks = g.herb_ticks, h.tree_ticks = g.tree_ticks
    PROVE  World(h) /\ Passes(g, h)
<1>1. World(h)
  BY DEF World
<1>2. ASSUME NEW u \in Token
      PROVE  Bystander(g.players[u], h.players[u])
  <2>1. g.players[u] \in Player
    BY DEF World, Game
  <2> QED BY <2>1 DEF Bystander, Player
<1> QED BY <1>1, <1>2 DEF Passes

LEMMA PassesTwice ==
    ASSUME NEW g, NEW h, NEW k, World(g), Passes(g, h), Passes(h, k)
    PROVE  Passes(g, k)
<1>1. ASSUME NEW u \in Token
      PROVE  Bystander(g.players[u], k.players[u])
  <2> DEFINE a == g.players[u]
             b == h.players[u]
             c == k.players[u]
  <2>1. a \in Player /\ b \in Player /\ c \in Player /\ Bystander(a, b) /\ Bystander(b, c)
    BY DEF Passes, World, Game
  <2> HIDE DEF a, b, c
  <2>2. Bystander(a, c)
    BY <2>1 DEF Bystander, Player, _transition_protected
  <2> QED BY <2>2 DEF a, c
<1> QED BY <1>1 DEF Passes

\* One player becomes another, q.
With(g, t, q) == [g EXCEPT !.players = [g.players EXCEPT ![t] = q]]

LEMMA WithTwice ==
    ASSUME NEW g \in Game, NEW t \in Token, NEW q, NEW r
    PROVE  With(With(g, t, q), t, r) = With(g, t, r)
  BY DEF With, Game

\* Nothing else does, and the world stays one.
Becomes(g, t, q, h) ==
    /\ World(h) /\ h.players[t] = q /\ PassesBut(g, h, t)
    /\ \A u \in Token \ {t} : h.players[u] = g.players[u]
    /\ h.enemy = g.enemy /\ h.tiles = g.tiles /\ h.items = g.items
    /\ h.tile_update = g.tile_update /\ h.herb_ticks = g.herb_ticks /\ h.tree_ticks = g.tree_ticks

\* He stands where he stood, or was put there, or where nobody else is.
Stays(a, q) == q.at = a.at /\ q.placed = a.placed
Fits(g, t, q) == q.placed \/ Stays(g.players[t], q) \/ \A u \in Token \ {t} : g.players[u].at # q.at

LEMMA SetPlayer ==
    ASSUME NEW g, World(g), NEW t \in Token, NEW q \in Player, Chosen(q), Fits(g, t, q)
    PROVE  Becomes(g, t, q, With(g, t, q))
<1> DEFINE p == [g.players EXCEPT ![t] = q]
           h == With(g, t, q)
<1>1. g \in Game /\ g.players \in [Token -> Player] /\ p \in [Token -> Player]
  BY DEF World, Game
<1>2. /\ h \in Game /\ h.players = p /\ h.enemy = g.enemy /\ h.tiles = g.tiles /\ h.items = g.items
      /\ h.tile_update = g.tile_update /\ h.herb_ticks = g.herb_ticks /\ h.tree_ticks = g.tree_ticks
  BY <1>1, SetPlayers DEF With
<1>3. p[t] = q /\ \A u \in Token \ {t} : p[u] = g.players[u]
  BY <1>1
<1> HIDE DEF p, h
<1>4. Spaced(p)
  BY <1>3 DEF World, Spaced, Fits, Stays
<1>5. \A u \in Token : Chosen(p[u])
  BY <1>3 DEF World
<1>6. World(h)
  BY <1>2, <1>4, <1>5 DEF World
<1>7. ASSUME NEW u \in Token \ {t}
      PROVE  Bystander(g.players[u], h.players[u])
  BY <1>1, <1>2, <1>3 DEF Bystander, Player
<1>8. Grazed(g, h)
  BY <1>2 DEF Grazed, Still
<1> QED BY <1>2, <1>3, <1>6, <1>7, <1>8 DEF PassesBut, Becomes, h

\* What does not change where he is, what he was told of it or his PvP: his reports'
\* counters, timers and health.
LEMMA SetTimers ==
    ASSUME NEW g, World(g), NEW t \in Token, NEW q \in Player, Stays(g.players[t], q),
           q.pvp = g.players[t].pvp, q.chose = g.players[t].chose
    PROVE  Becomes(g, t, q, With(g, t, q))
<1>1. Chosen(q)
  BY DEF World, Chosen, Stays
<1> QED BY <1>1, SetPlayer DEF Fits

-----------------------------------------------------------------------------
(* Hurt and dead.                                                           *)

\* PvP is on in the arena, and whoever leaves it has to choose it again.
LEMMA Policy ==
    ASSUME NEW player \in Player, NEW from,
           IF map_forces_pvp(from) THEN player.pvp ELSE player.pvp => player.chose
    PROVE  LET q == _apply_map_pvp_policy(player, from)
           IN  /\ q \in Player /\ Chosen(q)
               /\ q.at = player.at /\ q.health = player.health /\ q.cooldown = player.cooldown
               /\ q.loading = player.loading /\ q.grace = player.grace
               /\ q.correction = player.correction /\ q.fire = player.fire
               /\ q.pickup = player.pickup /\ q.toggle = player.toggle
               /\ q.buttons = player.buttons /\ q.placed = player.placed
<1>1. CASE map_forces_pvp(player.at)
  BY <1>1 DEF _apply_map_pvp_policy, Player, Chosen
<1>2. CASE ~map_forces_pvp(player.at) /\ map_forces_pvp(from)
  BY <1>2 DEF _apply_map_pvp_policy, Player, Chosen
<1>3. CASE ~map_forces_pvp(player.at) /\ ~map_forces_pvp(from)
  BY <1>3 DEF _apply_map_pvp_policy, Player, Chosen
<1> QED BY <1>1, <1>2, <1>3

\* Beavers forget.
LEMMA Woken ==
    ASSUME NEW g, World(g), NEW map
    PROVE  /\ World(Wake(g, map)) /\ Wake(g, map).players = g.players
           /\ Wake(g, map).items = g.items /\ Still(g, Wake(g, map))
<1> DEFINE e == [g.enemy EXCEPT !.aggro = 0, !.attack_cooldown = 0]
           h == [g EXCEPT !.enemy = e]
<1>1. g \in Game /\ g.enemy \in Beaver
  BY DEF World, Game
<1>2. e \in Beaver
  <2> DEFINE b == g.enemy
  <2>1. b \in Beaver
    BY <1>1
  <2> HIDE DEF b
  <2> DEFINE c == [b EXCEPT !.aggro = 0]
  <2>2. c \in Beaver
    BY <2>1 DEF Beaver
  <2>3. e = [c EXCEPT !.attack_cooldown = 0]
    BY DEF b
  <2> HIDE DEF c
  <2> QED BY <2>2, <2>3 DEF Beaver
<1>3. Wake(g, map) \in {g, h}
  BY <1>1 DEF Wake
<1> HIDE DEF e
<1>4. /\ h \in Game /\ h.players = g.players /\ h.tiles = g.tiles /\ h.items = g.items
      /\ h.tile_update = g.tile_update /\ h.herb_ticks = g.herb_ticks /\ h.tree_ticks = g.tree_ticks
  BY <1>1, <1>2, SetEnemy
<1> HIDE DEF h
<1>5. World(h)
  BY <1>4, SameWorld
<1> QED BY <1>3, <1>4, <1>5 DEF Still

LEMMA Dead ==
    ASSUME NEW g, World(g), NEW t \in Token, NEW h, h = handle_player_death(g, t)
    PROVE  /\ World(h) /\ Still(g, h) /\ \A u \in Token \ {t} : h.players[u] = g.players[u]
           /\ LET a == g.players[t]
                  b == h.players[t]
              IN  /\ b.fire = a.fire /\ b.pickup = a.pickup /\ b.toggle = a.toggle /\ b.buttons = a.buttons
                  /\ b.loading = a.loading /\ b.grace = a.grace /\ b.placed /\ b.correction > 0
                  /\ b.at[1] = a.at[1]
<1> DEFINE a == g.players[t]
           up == [a EXCEPT !.at = Grave[a.at[1]], !.health = MaxHealth, !.correction = Hold, !.placed = TRUE]
           q == _apply_map_pvp_policy(up, a.at)
           k == With(g, t, q)
<1>1. a \in Player /\ a.at \in Place /\ Chosen(a)
  BY DEF World, Game, Player
<1>2. /\ up \in Player /\ up.placed /\ up.correction = Hold /\ up.pvp = a.pvp /\ up.chose = a.chose
      /\ up.fire = a.fire /\ up.pickup = a.pickup /\ up.toggle = a.toggle /\ up.buttons = a.buttons
      /\ up.loading = a.loading /\ up.grace = a.grace /\ up.at[1] = a.at[1]
  <2>1. Grave[a.at[1]] \in Place /\ Grave[a.at[1]][1] = a.at[1] /\ MaxHealth \in Int /\ Hold \in Int
    BY <1>1, Constants
  <2> HIDE DEF a
  <2> QED BY <1>1, <2>1 DEF Player
<1>3. h = Wake(k, a.at[1])
  BY DEF handle_player_death, With
<1> HIDE DEF a, up
<1>4. IF map_forces_pvp(a.at) THEN up.pvp ELSE up.pvp => up.chose
  BY <1>1, <1>2 DEF Chosen
<1>5. /\ q \in Player /\ Chosen(q) /\ q.placed /\ q.correction = Hold
      /\ q.fire = a.fire /\ q.pickup = a.pickup /\ q.toggle = a.toggle /\ q.buttons = a.buttons
      /\ q.loading = a.loading /\ q.grace = a.grace /\ q.at[1] = a.at[1]
  BY <1>2, <1>4, Policy
<1> HIDE DEF q
<1>6. World(k) /\ Still(g, k) /\ k.players[t] = q /\ \A u \in Token \ {t} : k.players[u] = g.players[u]
  BY <1>5, SetPlayer DEF Fits, Becomes, Still
<1> HIDE DEF k
<1>7. World(h) /\ h.players = k.players /\ Still(k, h)
  BY <1>3, <1>6, Woken
<1> QED BY <1>5, <1>6, <1>7, Constants DEF a, Still

\* A point is taken of whom nothing protects.
LEMMA Hurts ==
    ASSUME NEW g, World(g), NEW t \in Token, ~_transition_protected(g.players[t])
    PROVE  /\ Passes(g, Hurt(g, t)) /\ Still(g, Hurt(g, t))
           /\ \A u \in Token \ {t} : Hurt(g, t).players[u] = g.players[u]
<1> DEFINE a == g.players[t]
           q == [a EXCEPT !.health = a.health - 1]
           h == With(g, t, q)
<1>1. g \in Game /\ a \in Player
  BY DEF World, Game
<1>2. /\ q \in Player /\ Stays(a, q) /\ q.pvp = a.pvp /\ q.chose = a.chose /\ q.fire = a.fire /\ q.pickup = a.pickup
      /\ q.toggle = a.toggle /\ q.buttons = a.buttons /\ q.loading = a.loading /\ q.grace = a.grace
      /\ q.correction = a.correction
  BY <1>1 DEF Player, Stays
<1>3. Hurt(g, t) \in {h, handle_player_death(h, t)}
  BY DEF Hurt, With
<1> HIDE DEF q
<1>4. World(h) /\ Still(g, h) /\ h.players[t] = q /\ \A u \in Token \ {t} : h.players[u] = g.players[u]
  BY <1>2, SetTimers DEF Becomes, Still
<1> HIDE DEF h
<1>5. CASE Hurt(g, t) = h
  <2>1. Bystander(a, q)
    BY <1>2 DEF Bystander, Stays
  <2>2. \A u \in Token \ {t} : Bystander(g.players[u], h.players[u])
    BY <1>1, <1>4 DEF Bystander, Player, Game
  <2> QED BY <1>4, <1>5, <2>1, <2>2 DEF Passes
<1>6. CASE Hurt(g, t) = handle_player_death(h, t)
  <2> DEFINE k == handle_player_death(h, t)
  <2>1. /\ World(k) /\ Still(h, k) /\ \A u \in Token \ {t} : k.players[u] = h.players[u]
        /\ LET b == k.players[t]
           IN  /\ b.fire = q.fire /\ b.pickup = q.pickup /\ b.toggle = q.toggle /\ b.buttons = q.buttons
               /\ b.loading = q.loading /\ b.grace = q.grace /\ b.placed /\ b.correction > 0
               /\ b.at[1] = q.at[1]
    BY <1>4, Dead
  <2> HIDE DEF k
  <2>2. Bystander(a, k.players[t])
    BY <1>2, <2>1 DEF Bystander, Stays
  <2>3. \A u \in Token \ {t} : Bystander(g.players[u], k.players[u])
    BY <1>1, <1>4, <2>1 DEF Bystander, Player, Game
  <2> QED BY <1>4, <1>6, <2>1, <2>2, <2>3 DEF Passes, Still, k
<1> QED BY <1>3, <1>5, <1>6

LEMMA Nobody == ASSUME NEW g, World(g) PROVE Passes(g, g)
  BY SameWorld DEF World

LEMMA DamagePlayer ==
    ASSUME NEW g, World(g), NEW t \in Token, NEW u \in Token
    PROVE  /\ Passes(g, _damage_player(g, t, u)) /\ Still(g, _damage_player(g, t, u))
           /\ \A o \in Token \ {t} : _damage_player(g, t, u).players[o] = g.players[o]
<1>1. CASE _transition_protected(g.players[t]) \/ _transition_protected(g.players[u])
  BY <1>1, Nobody DEF _damage_player, Still
<1>2. CASE ~(_transition_protected(g.players[t]) \/ _transition_protected(g.players[u]))
  BY <1>2, Hurts DEF _damage_player
<1> QED BY <1>1, <1>2

-----------------------------------------------------------------------------
(* The beaver, and loot.                                                    *)

WithEnemy(g, e) == [g EXCEPT !.enemy = e]
WithItems(g, i) == [g EXCEPT !.items = i]

\* No player, tile or timer changes.
Unharmed(g, h) ==
    /\ World(h) /\ h.players = g.players /\ h.tiles = g.tiles /\ h.tile_update = g.tile_update

LEMMA SetBeaver ==
    ASSUME NEW g, World(g), NEW e \in Beaver
    PROVE  Unharmed(g, WithEnemy(g, e)) /\ WithEnemy(g, e).enemy = e /\ WithEnemy(g, e).items = g.items
<1> DEFINE h == WithEnemy(g, e)
<1>1. g \in Game
  BY DEF World
<1>2. /\ h \in Game /\ h.players = g.players /\ h.enemy = e /\ h.tiles = g.tiles /\ h.items = g.items
      /\ h.tile_update = g.tile_update /\ h.herb_ticks = g.herb_ticks /\ h.tree_ticks = g.tree_ticks
  BY <1>1, SetEnemy DEF WithEnemy
<1> HIDE DEF h
<1>3. World(h)
  BY <1>2, SameWorld
<1> QED BY <1>2, <1>3 DEF Unharmed, h

LEMMA SetLoot ==
    ASSUME NEW g, World(g), NEW i \in SUBSET Item
    PROVE  Unharmed(g, WithItems(g, i)) /\ WithItems(g, i).enemy = g.enemy
<1> DEFINE h == WithItems(g, i)
<1>1. g \in Game
  BY DEF World
<1>2. /\ h \in Game /\ h.players = g.players /\ h.enemy = g.enemy /\ h.tiles = g.tiles /\ h.items = i
      /\ h.tile_update = g.tile_update /\ h.herb_ticks = g.herb_ticks /\ h.tree_ticks = g.tree_ticks
  BY <1>1, SetItems DEF WithItems
<1> HIDE DEF h
<1>3. World(h)
  BY <1>2, SameWorld
<1> QED BY <1>2, <1>3 DEF Unharmed, h

LEMMA UnharmedPasses ==
    ASSUME NEW g, World(g), NEW h, Unharmed(g, h)
    PROVE  Passes(g, h)
<1>1. ASSUME NEW u \in Token
      PROVE  Bystander(g.players[u], h.players[u])
  <2>1. g.players[u] \in Player /\ h.players[u] = g.players[u]
    BY DEF World, Game, Unharmed
  <2> QED BY <2>1 DEF Bystander, Player
<1> QED BY <1>1 DEF Passes, Unharmed

\* What can be entered is a place of the map.
LEMMA Enterable ==
    ASSUME NEW g, NEW place, player_can_enter(g, place) \/ enemy_can_enter(g, place)
    PROVE  place \in Place
  BY DEF player_can_enter, enemy_can_enter, tile, Beyond

LEMMA Dropped ==
    ASSUME NEW g, World(g), NEW drops \in Loot
    PROVE  Unharmed(g, _drop_loot(g, drops))
<1> DEFINE at == g.enemy.at
           room == {aim \in Aim : player_can_enter(g, Put(at, aim[1], aim[2]))
                                    /\ ~entity_at(g, Put(at, aim[1], aim[2]))}
           beside == IF room = {} THEN at ELSE LET aim == CHOOSE a \in room : TRUE IN Put(at, aim[1], aim[2])
           place(what) == IF what = "sticks" /\ "gold" \in drops THEN beside ELSE at
           new == {[what |-> what, at |-> place(what), left |-> Despawn] : what \in drops}
<1>1. at \in Place /\ g.items \in SUBSET Item /\ Despawn \in Int
  BY Constants DEF World, Game, Beaver
<1>2. beside \in Place
  <2>1. CASE room = {}
    BY <2>1, <1>1
  <2>2. CASE room # {}
    <3> DEFINE aim == CHOOSE a \in room : TRUE
    <3>1. aim \in room
      BY <2>2
    <3>2. player_can_enter(g, Put(at, aim[1], aim[2])) /\ beside = Put(at, aim[1], aim[2])
      BY <2>2, <3>1
    <3> QED BY <3>2, Enterable
  <2> QED BY <2>1, <2>2
<1> HIDE DEF at, room, beside
<1>3. \A what \in drops : [what |-> what, at |-> place(what), left |-> Despawn] \in Item
  BY <1>1, <1>2 DEF Item, Loot
<1>4. g.items \cup new \in SUBSET Item
  BY <1>1, <1>3
<1>5. _drop_loot(g, drops) = WithItems(g, g.items \cup new)
  BY DEF _drop_loot, WithItems, at, room, beside
<1> HIDE DEF new
<1> QED BY <1>4, <1>5, SetLoot

LEMMA DamageEntity ==
    ASSUME NEW g, World(g), NEW drops \in Loot
    PROVE  Unharmed(g, _damage_entity(g, drops))
<1> DEFINE b == g.enemy
           e == [b EXCEPT !.hp = b.hp - 1]
           f == [e EXCEPT !.aggro = Alert]
           r == [f EXCEPT !.respawn = Regrowth]
           h == WithEnemy(g, f)
           k == WithEnemy(h, r)
<1>1. g \in Game /\ b \in Beaver /\ Alert \in Int /\ Regrowth \in Int
  BY Constants DEF World, Game
<1>2. e \in Beaver
  BY <1>1 DEF Beaver
<1>3. f \in Beaver
  <2> HIDE DEF e
  <2> QED BY <1>1, <1>2 DEF Beaver
<1>4. r \in Beaver
  <2> HIDE DEF f
  <2> QED BY <1>1, <1>3 DEF Beaver
<1>5. h = [g EXCEPT !.enemy.hp = @ - 1, !.enemy.aggro = Alert]
  BY <1>1 DEF WithEnemy, Game
<1>6. Unharmed(g, h) /\ h.enemy = f
  BY <1>3, SetBeaver
<1>7. [h EXCEPT !.enemy.respawn = Regrowth] = k
  BY <1>6 DEF WithEnemy
<1>8. Unharmed(h, k)
  BY <1>4, <1>6, SetBeaver DEF Unharmed
<1>9. _damage_entity(g, drops) \in {h, _drop_loot(k, drops)}
  BY <1>5, <1>7 DEF _damage_entity
<1> HIDE DEF h, k
<1>10. Unharmed(k, _drop_loot(k, drops))
  BY <1>8, Dropped DEF Unharmed
<1> QED BY <1>6, <1>8, <1>9, <1>10 DEF Unharmed

-----------------------------------------------------------------------------
(* What a report presses.                                                   *)

\* A shot hurts another player, or the beaver, or nobody.
LEMMA Shot ==
    ASSUME NEW g, World(g), NEW t \in Token, NEW aim, NEW drops \in Loot
    PROVE  /\ Passes(g, _hunter_attack(g, t, aim, drops)) /\ Still(g, _hunter_attack(g, t, aim, drops))
           /\ _hunter_attack(g, t, aim, drops).players[t] = g.players[t]
<1> DEFINE at == g.players[t].at
           cell(n) == Put(at, n * aim[1], n * aim[2])
           targets(n) == {u \in Token \ {t} : g.players[u].at = cell(n)}
           Struck(n) == (Live(g) /\ g.enemy.at = cell(n)) \/ targets(n) # {}
           Open(n) == /\ ~_diagonal_shot_corner_blocks(g, cell(n - 1), aim)
                      /\ n > 1 => ~Struck(n - 1) /\ ~_shot_terrain_blocks(g, cell(n - 1))
           hits == {n \in 1..Range : Struck(n) /\ \A m \in 1..n : Open(m)}
           n == CHOOSE k \in hits : TRUE
           u == CHOOSE other \in targets(n) : TRUE
           r == _hunter_attack(g, t, aim, drops)
<1>1. r = IF hits = {} THEN g
          ELSE IF Live(g) /\ g.enemy.at = cell(n) THEN _damage_entity(g, drops)
          ELSE IF g.players[t].pvp /\ g.players[u].pvp THEN _damage_player(g, u, t) ELSE g
  BY DEF _hunter_attack
<1>2. hits # {} => Struck(n)
  <2>1. hits # {} => n \in hits
    <3> HIDE DEF hits
    <3> QED OBVIOUS
  <2> HIDE DEF n, Struck, Open
  <2> QED BY <2>1
<1>3. hits # {} /\ ~(Live(g) /\ g.enemy.at = cell(n)) => u \in Token \ {t}
  <2>1. hits # {} /\ ~(Live(g) /\ g.enemy.at = cell(n)) => targets(n) # {}
    <3> HIDE DEF hits, n, targets, cell
    <3> QED BY <1>2
  <2>2. targets(n) # {} => u \in targets(n)
    <3> HIDE DEF targets
    <3> QED OBVIOUS
  <2>3. targets(n) \subseteq Token \ {t}
    OBVIOUS
  <2> HIDE DEF hits, n, targets, cell, u
  <2> QED BY <2>1, <2>2, <2>3
<1> HIDE DEF hits, n, targets, cell, u, r
<1>4. CASE r = g
  BY <1>4, Nobody DEF r, Still
<1>5. CASE r = _damage_entity(g, drops)
  <2>1. Unharmed(g, r)
    BY <1>5, DamageEntity
  <2> QED BY <2>1, UnharmedPasses DEF Unharmed, Still, r
<1>6. CASE u \in Token \ {t} /\ r = _damage_player(g, u, t)
  <2>1. Passes(g, r) /\ Still(g, r) /\ r.players[t] = g.players[t]
    BY <1>6, DamagePlayer
  <2> QED BY <2>1 DEF r
<1> QED BY <1>1, <1>3, <1>4, <1>5, <1>6

LEMMA GrazedTwice ==
    ASSUME NEW g, NEW h, NEW k, Grazed(g, h), Grazed(h, k)
    PROVE  Grazed(g, k)
<1>1. \A p \in Place : h.tiles[p] = "grass" => k.tiles[p] = "grass"
  BY DEF Grazed
<1>2. \A p \in Place : h.tiles[p] = "herb" => g.tiles[p] = "herb"
  BY DEF Grazed
<1>3. ASSUME NEW p \in Place
      PROVE  k.tiles[p] = g.tiles[p] \/ (g.tiles[p] = "herb" /\ k.tiles[p] = "grass")
  BY DEF Grazed
<1> QED BY <1>1, <1>2, <1>3 DEF Grazed, Still

LEMMA PassesButTwice ==
    ASSUME NEW g, NEW h, NEW k, NEW t \in Token, World(g), PassesBut(g, h, t), PassesBut(h, k, t)
    PROVE  PassesBut(g, k, t)
<1>1. ASSUME NEW u \in Token \ {t}
      PROVE  Bystander(g.players[u], k.players[u])
  <2> DEFINE a == g.players[u]
             b == h.players[u]
             c == k.players[u]
  <2>1. a \in Player /\ b \in Player /\ c \in Player /\ Bystander(a, b) /\ Bystander(b, c)
    BY DEF PassesBut, World, Game
  <2> HIDE DEF a, b, c
  <2>2. Bystander(a, c)
    BY <2>1 DEF Bystander, Player, _transition_protected
  <2> QED BY <2>2 DEF a, c
<1> QED BY <1>1, GrazedTwice DEF PassesBut

LEMMA PassesIsBut ==
    ASSUME NEW g, NEW h, NEW t, Passes(g, h), Still(g, h)
    PROVE  PassesBut(g, h, t)
  BY DEF Passes, PassesBut, Grazed, Still

LEMMA Fired ==
    ASSUME NEW g, World(g), NEW t \in Token, NEW s \in Report, NEW drops \in Loot,
           NEW h, h = _apply_player_state_fire(g, t, s, drops)
    PROVE  PassesBut(g, h, t) /\ h.players[t] = [g.players[t] EXCEPT !.fire = s.fire]
<1> DEFINE a == g.players[t]
           q == [a EXCEPT !.fire = s.fire]
           k == With(g, t, q)
<1>1. a \in Player /\ s.fire \in {0, 1}
  BY DEF World, Game, Report
<1>2. q \in Player /\ Stays(a, q) /\ q.pvp = a.pvp /\ q.chose = a.chose
  BY <1>1 DEF Player, Stays
<1>3. h \in {k, _hunter_attack(k, t, s.facing, drops)}
  BY DEF _apply_player_state_fire, With
<1> HIDE DEF q
<1>4. PassesBut(g, k, t) /\ World(k) /\ k.players[t] = q
  BY <1>2, SetTimers DEF Becomes
<1> HIDE DEF k
<1>5. CASE h = k
  BY <1>4, <1>5 DEF q
<1>6. CASE h = _hunter_attack(k, t, s.facing, drops)
  <2>1. Passes(k, h) /\ Still(k, h) /\ h.players[t] = q
    BY <1>4, <1>6, Shot
  <2>2. PassesBut(g, h, t)
    BY <1>4, <2>1, PassesIsBut, PassesButTwice
  <2> QED BY <2>1, <2>2 DEF q
<1> QED BY <1>3, <1>5, <1>6

\* Items only go.
LEMMA Collected ==
    ASSUME NEW g, World(g), NEW i, i \subseteq g.items
    PROVE  Unharmed(g, WithItems(g, i))
<1>1. i \in SUBSET Item
  BY DEF World, Game
<1> QED BY <1>1, SetLoot

LEMMA PickedUp ==
    ASSUME NEW g, World(g), NEW place
    PROVE  Unharmed(g, _pickup_item_at(g, place))
<1>1. PICK i \in SUBSET g.items : _pickup_item_at(g, place) \in {g, WithItems(g, i)}
  BY DEF _pickup_item_at, collect_item, WithItems
<1>2. Unharmed(g, WithItems(g, i)) /\ Unharmed(g, g)
  BY Collected DEF Unharmed
<1> QED BY <1>1, <1>2

LEMMA Swept ==
    ASSUME NEW g, World(g), NEW from, NEW to
    PROVE  Unharmed(g, _pickup_items_along_path(g, from, to))
<1>1. PICK i \in SUBSET g.items : _pickup_items_along_path(g, from, to) = WithItems(g, i)
  BY DEF _pickup_items_along_path, WithItems
<1> QED BY <1>1, Collected

LEMMA Nearby ==
    ASSUME NEW g, World(g), NEW t
    PROVE  Unharmed(g, pickup_nearby_item(g, t))
<1>1. \E place : pickup_nearby_item(g, t) \in {g, _pickup_item_at(g, place)}
  BY DEF pickup_nearby_item
<1> QED BY <1>1, PickedUp DEF Unharmed

\* Nothing but counters, buttons and his choice of PvP is another.
Answered(a, b, s) ==
    /\ b.fire = s.fire /\ b.pickup = s.pickup /\ b.toggle = s.toggle /\ b.buttons = s.buttons
    /\ Stays(a, b) /\ b.health = a.health /\ b.loading = a.loading /\ b.grace = a.grace
    /\ b.correction = a.correction

LEMMA Inputs ==
    ASSUME NEW g, World(g), NEW t \in Token, NEW s \in Report, NEW drops \in Loot,
           NEW h, h = _apply_player_state_inputs(g, t, s, drops)
    PROVE  PassesBut(g, h, t) /\ Answered(g.players[t], h.players[t], s)
<1> DEFINE a == g.players[t]
           k == _apply_player_state_fire(g, t, s, drops)
           l == _apply_player_state_pickup(k, t, s)
           m == _apply_player_state_pvp_toggle(l, t, s)
           b == k.players[t]
           c == l.players[t]
           d == m.players[t]
           e == [d EXCEPT !.buttons = s.buttons]
<1>0. a \in Player /\ s.fire \in {0, 1} /\ s.pickup \in {0, 1} /\ s.toggle \in {0, 1} /\ s.buttons \in BOOLEAN
  BY DEF World, Game, Report
<1>1. PassesBut(g, k, t) /\ World(k) /\ b = [a EXCEPT !.fire = s.fire]
  BY Fired DEF PassesBut
<1>2. PassesBut(k, l, t) /\ World(l) /\ c = [b EXCEPT !.pickup = s.pickup]
  <2> HIDE DEF k
  <2>1. b \in Player
    BY <1>1 DEF World, Game
  <2>2. CASE s.pickup = b.pickup
    <3>1. l = k /\ b = [b EXCEPT !.pickup = s.pickup]
      BY <2>1, <2>2 DEF _apply_player_state_pickup, Player
    <3>2. PassesBut(k, k, t)
      BY <1>1, Nobody, PassesIsBut DEF Still
    <3> QED BY <1>1, <3>1, <3>2
  <2>3. CASE s.pickup # b.pickup
    <3> DEFINE q == [b EXCEPT !.pickup = s.pickup]
               n == With(k, t, q)
    <3>1. l = pickup_nearby_item(n, t)
      BY <2>3 DEF _apply_player_state_pickup, With
    <3>2. q \in Player /\ Stays(b, q) /\ q.pvp = b.pvp /\ q.chose = b.chose
      BY <1>0, <2>1 DEF Player, Stays
    <3> HIDE DEF q
    <3>3. PassesBut(k, n, t) /\ World(n) /\ n.players[t] = q
      <4>1. World(k)
        BY <1>1
      <4> QED BY <4>1, <3>2, SetTimers DEF Becomes
    <3> HIDE DEF n
    <3>4. Unharmed(n, l)
      BY <3>1, <3>3, Nearby
    <3> HIDE DEF l
    <3>5. PassesBut(n, l, t)
      BY <3>3, <3>4, UnharmedPasses, PassesIsBut DEF Unharmed, Still
    <3> QED BY <1>1, <3>3, <3>4, <3>5, PassesButTwice DEF Unharmed, q
  <2> QED BY <2>2, <2>3
<1>3. /\ PassesBut(l, m, t) /\ World(m) /\ d.toggle = s.toggle /\ d.fire = c.fire /\ d.pickup = c.pickup
      /\ Stays(c, d) /\ d.health = c.health /\ d.loading = c.loading /\ d.grace = c.grace
      /\ d.correction = c.correction
  <2> HIDE DEF l
  <2>1. c \in Player
    BY <1>2 DEF World, Game
  <2>2. CASE s.toggle = c.toggle
    <3>1. m = l
      BY <2>2 DEF _apply_player_state_pvp_toggle
    <3>2. PassesBut(l, l, t)
      BY <1>2, Nobody, PassesIsBut DEF Still
    <3> QED BY <1>2, <2>2, <3>1, <3>2 DEF Stays
  <2>3. CASE s.toggle # c.toggle
    <3> DEFINE q == [c EXCEPT !.toggle = s.toggle, !.pvp = map_forces_pvp(c.at) \/ ~c.pvp,
                              !.chose = ~map_forces_pvp(c.at)]
    <3>1. m = With(l, t, q)
      <4>1. l \in Game
        BY <1>2 DEF World
      <4> DEFINE forced == map_forces_pvp(c.at)
                 x == [c EXCEPT !.toggle = s.toggle]
                 y == [x EXCEPT !.pvp = forced \/ ~c.pvp]
      <4>2. m = [l EXCEPT !.players[t].toggle = s.toggle, !.players[t].pvp = forced \/ ~@,
                          !.players[t].chose = ~forced]
        BY <2>3 DEF _apply_player_state_pvp_toggle
      <4> HIDE DEF m, forced
      <4>3. [l EXCEPT !.players[t].toggle = s.toggle] = With(l, t, x)
        BY DEF With
      <4>4. With(l, t, x).players[t] = x /\ x.pvp = c.pvp
        BY <4>1, <2>1 DEF With, Game, Player
      <4>5. [With(l, t, x) EXCEPT !.players[t].pvp = forced \/ ~@] = With(With(l, t, x), t, y)
        BY <4>4 DEF With
      <4>6. With(With(l, t, x), t, y) = With(l, t, y)
        BY <4>1, WithTwice
      <4>7. With(l, t, y).players[t] = y
        BY <4>1 DEF With, Game
      <4>8. [With(l, t, y) EXCEPT !.players[t].chose = ~forced] = With(With(l, t, y), t, q)
        BY <4>7 DEF With, forced
      <4>9. With(With(l, t, y), t, q) = With(l, t, q)
        BY <4>1, WithTwice
      <4>10. m = [[[l EXCEPT !.players[t].toggle = s.toggle] EXCEPT !.players[t].pvp = forced \/ ~@]
                     EXCEPT !.players[t].chose = ~forced]
        BY <4>2, ZenonT(60)
      <4> HIDE DEF x, y
      <4> QED BY <4>3, <4>5, <4>6, <4>8, <4>9, <4>10
    <3>2. /\ q \in Player /\ Stays(c, q) /\ Chosen(q) /\ q.toggle = s.toggle /\ q.fire = c.fire
          /\ q.pickup = c.pickup /\ q.health = c.health /\ q.loading = c.loading /\ q.grace = c.grace
          /\ q.correction = c.correction
      <4> DEFINE x == [c EXCEPT !.toggle = s.toggle]
                 forced == map_forces_pvp(c.at)
                 on == forced \/ ~c.pvp
                 own == ~forced
      <4>1. /\ x \in Player /\ Stays(c, x) /\ x.toggle = s.toggle /\ x.fire = c.fire
            /\ x.pickup = c.pickup /\ x.health = c.health /\ x.loading = c.loading
            /\ x.grace = c.grace /\ x.correction = c.correction
        BY <1>0, <2>1 DEF Player, Stays
      <4>2. on \in BOOLEAN /\ own \in BOOLEAN
        OBVIOUS
      <4>3. q = [x EXCEPT !.pvp = on, !.chose = own]
        OBVIOUS
      <4> HIDE DEF x, forced, on, own, q
      <4>4. /\ q \in Player /\ Stays(x, q) /\ q.pvp = on /\ q.chose = own
            /\ q.toggle = x.toggle /\ q.fire = x.fire /\ q.pickup = x.pickup /\ q.health = x.health
            /\ q.loading = x.loading /\ q.grace = x.grace /\ q.correction = x.correction
        BY <4>1, <4>2, <4>3 DEF Player, Stays
      <4>5. q.at = c.at /\ q.placed = c.placed
        BY <4>1, <4>4 DEF Stays
      <4>6. Chosen(q)
        BY <4>4, <4>5 DEF Chosen, forced, on, own
      <4> QED BY <4>1, <4>4, <4>5, <4>6 DEF Stays
    <3> HIDE DEF q, m
    <3>3. PassesBut(l, m, t) /\ World(m) /\ m.players[t] = q
      BY <1>2, <3>1, <3>2, SetPlayer DEF Becomes, Fits
    <3> QED BY <3>2, <3>3
  <2> QED BY <2>2, <2>3
<1>4. h = With(m, t, e)
  BY DEF _apply_player_state_inputs, With
<1> HIDE DEF k, l, m
<1>5. a \in Player /\ b \in Player /\ c \in Player /\ d \in Player
  BY <1>0, <1>1, <1>2, <1>3 DEF World, Game
<1> HIDE DEF a, b, c, d
<1>6. /\ e \in Player /\ Stays(d, e) /\ e.pvp = d.pvp /\ e.chose = d.chose /\ e.buttons = s.buttons
      /\ e.fire = d.fire /\ e.pickup = d.pickup /\ e.toggle = d.toggle /\ e.health = d.health
      /\ e.loading = d.loading /\ e.grace = d.grace /\ e.correction = d.correction
  BY <1>0, <1>5 DEF Player, Stays
<1>7. /\ b.fire = s.fire /\ b.at = a.at /\ b.placed = a.placed /\ b.health = a.health
      /\ b.loading = a.loading /\ b.grace = a.grace /\ b.correction = a.correction
  BY <1>0, <1>1, <1>5 DEF Player
<1>8. /\ c.fire = b.fire /\ c.pickup = s.pickup /\ c.at = b.at /\ c.placed = b.placed /\ c.health = b.health
      /\ c.loading = b.loading /\ c.grace = b.grace /\ c.correction = b.correction
  BY <1>0, <1>2, <1>5 DEF Player
<1> HIDE DEF e
<1>9. Answered(a, e, s)
  BY <1>3, <1>6, <1>7, <1>8 DEF Answered, Stays
<1>10. PassesBut(m, h, t) /\ h.players[t] = e
  BY <1>3, <1>4, <1>6, SetTimers DEF Becomes, d
<1>11. PassesBut(g, h, t)
  BY <1>1, <1>2, <1>3, <1>10, PassesButTwice
<1> QED BY <1>9, <1>10, <1>11 DEF a

-----------------------------------------------------------------------------
(* What a report does.                                                      *)

\* The land becomes another.
LEMMA Landed ==
    ASSUME NEW g, World(g), NEW h \in Game, h.players = g.players,
           Growing(h.tiles, h.herb_ticks, h.tree_ticks)
    PROVE  World(h) /\ Passes(g, h)
<1>1. World(h)
  BY DEF World
<1>2. ASSUME NEW u \in Token
      PROVE  Bystander(g.players[u], h.players[u])
  BY DEF Bystander, Player, World, Game
<1> QED BY <1>1, <1>2 DEF Passes

LEMMA Consumed ==
    ASSUME NEW g, World(g), NEW place, tile(g, place) = "herb",
           NEW h, h = consume_herb_if_present(g, place)
    PROVE  /\ Passes(g, h) /\ h.players = g.players /\ h.enemy = g.enemy /\ h.items = g.items
           /\ h.tiles = [g.tiles EXCEPT ![place] = "grass"]
<1> DEFINE tiles == [g.tiles EXCEPT ![place] = "grass"]
           herbs == [g.herb_ticks EXCEPT ![place] = Regrowth]
<1>1. /\ g \in Game /\ Growing(g.tiles, g.herb_ticks, g.tree_ticks) /\ g.tiles \in [Place -> Tile]
      /\ g.herb_ticks \in Timers /\ g.tree_ticks \in Timers
  BY DEF World, Game
<1>2. place \in Place /\ g.tiles[place] = "herb"
  BY DEF tile, Beyond
<1>3. Regrowth \in Nat /\ Nothing \notin Nat
  BY Constants
<1>4. tiles \in [Place -> Tile] /\ herbs \in Timers
  BY <1>1, <1>3 DEF Tile, Timers
<1>5. Growing(tiles, herbs, g.tree_ticks)
  <2> SUFFICES ASSUME NEW p \in Place
               PROVE  /\ (herbs[p] # Nothing) <=> (p \in Herbs /\ tiles[p] # "herb")
                      /\ (g.tree_ticks[p] # Nothing) <=> (tiles[p] = "stump")
                      /\ p \in Herbs => tiles[p] \in {"grass", "herb"}
                      /\ tiles[p] = "herb" => p \in Herbs
    BY DEF Growing
  <2>1. CASE p = place
    <3>1. tiles[p] = "grass" /\ herbs[p] = Regrowth
      BY <1>1, <2>1 DEF Timers
    <3>2. p \in Herbs /\ g.tree_ticks[p] = Nothing
      BY <1>1, <1>2, <2>1 DEF Growing
    <3> QED BY <3>1, <3>2, <1>3
  <2>2. CASE p # place
    <3>1. tiles[p] = g.tiles[p] /\ herbs[p] = g.herb_ticks[p]
      BY <1>1, <2>2 DEF Timers
    <3> QED BY <3>1, <1>1 DEF Growing
  <2> QED BY <2>1, <2>2
<1>6. h = [g EXCEPT !.tiles = tiles, !.herb_ticks = herbs]
  BY DEF consume_herb_if_present
<1> HIDE DEF tiles, herbs
<1>7. /\ h \in Game /\ h.players = g.players /\ h.enemy = g.enemy /\ h.items = g.items
      /\ h.tiles = tiles /\ h.herb_ticks = herbs /\ h.tree_ticks = g.tree_ticks
  BY <1>1, <1>4, <1>6 DEF Game
<1> QED BY <1>5, <1>7, Landed DEF tiles

\* The tick has something to tell.
WithUpdate(g, up) == [g EXCEPT !.tile_update = up]
LEMMA SetUpdate ==
    ASSUME NEW g, World(g), NEW up \in (Place \X Tile) \cup {Nothing}
    PROVE  /\ World(WithUpdate(g, up)) /\ Passes(g, WithUpdate(g, up))
           /\ WithUpdate(g, up).players = g.players /\ WithUpdate(g, up).tiles = g.tiles
           /\ WithUpdate(g, up).tile_update = up
<1> DEFINE h == WithUpdate(g, up)
<1>1. g \in Game
  BY DEF World
<1>2. /\ h \in Game /\ h.players = g.players /\ h.tiles = g.tiles /\ h.herb_ticks = g.herb_ticks
      /\ h.tree_ticks = g.tree_ticks /\ h.tile_update = up
  BY <1>1 DEF WithUpdate, Game
<1> HIDE DEF h
<1>3. World(h) /\ Passes(g, h)
  BY <1>2, SameWorld
<1> QED BY <1>2, <1>3 DEF h

\* Nothing is at another place but his health, which is no less.
Fed(a, b) ==
    /\ Stays(a, b) /\ b.pvp = a.pvp /\ b.chose = a.chose /\ b.health >= a.health
    /\ b.loading = a.loading /\ b.grace = a.grace /\ b.correction = a.correction

LEMMA Healed ==
    ASSUME NEW g, World(g), NEW t \in Token, NEW place, NEW h, h = _heal_player_from_herb(g, t, place)
    PROVE  /\ PassesBut(g, h, t) /\ Fed(g.players[t], h.players[t])
           /\ \A u \in Token \ {t} : h.players[u] = g.players[u]
<1> DEFINE a == g.players[t]
<1>1. g \in Game /\ a \in Player
  BY DEF World, Game
<1>2. CASE ~(a.health < MaxHealth /\ tile(g, place) = "herb")
  <2>1. h = g
    BY <1>2 DEF _heal_player_from_herb
  <2>2. Fed(a, a)
    BY <1>1 DEF Fed, Stays, Player
  <2> QED BY <2>1, <2>2, Nobody, PassesIsBut DEF Still
<1>3. CASE tile(g, place) = "herb" /\ a.health < MaxHealth
  <2> DEFINE up == <<place, "grass">>
             c == consume_herb_if_present(g, place)
             q == [a EXCEPT !.health = a.health + 1]
             k == With(c, t, q)
  <2>1. up \in (Place \X Tile) \cup {Nothing}
    BY <1>3 DEF tile, Beyond, Tile
  <2>2. Passes(g, c) /\ World(c) /\ c.players = g.players /\ c.tiles = [g.tiles EXCEPT ![place] = "grass"]
    <3>1. Passes(g, c) /\ c.players = g.players /\ c.tiles = [g.tiles EXCEPT ![place] = "grass"]
      BY <1>3, Consumed
    <3> HIDE DEF c
    <3> QED BY <3>1 DEF Passes
  <2>3. h = WithUpdate(k, up)
    <3>1. h = [c EXCEPT !.players[t].health = @ + 1, !.tile_update = up]
      BY <1>3 DEF _heal_player_from_herb
    <3> HIDE DEF c, up
    <3> QED BY <3>1, <2>2 DEF With, WithUpdate
  <2>4. q \in Player /\ Fed(a, q)
    BY <1>1 DEF Player, Fed, Stays
  <2> HIDE DEF c, q, up
  <2>5. /\ World(k) /\ k.players[t] = q /\ k.tiles = c.tiles
        /\ \A u \in Token \ {t} : k.players[u] = c.players[u]
    BY <2>2, <2>4, SetTimers DEF Becomes, Fed
  <2> HIDE DEF k
  <2>6. World(h) /\ h.players = k.players /\ h.tiles = k.tiles /\ h.tile_update = <<place, "grass">>
    BY <2>1, <2>3, <2>5, SetUpdate DEF up
  <2>7. PassesBut(g, h, t)
    <3>1. place \in Place /\ g.tiles[place] = "herb" /\ g.tiles \in [Place -> Tile]
      BY <1>1, <1>3 DEF tile, Beyond, Game
    <3>2. h.tiles[place] = "grass" /\ \A p \in Place \ {place} : h.tiles[p] = g.tiles[p]
      BY <2>2, <2>5, <2>6, <3>1
    <3>3. Grazed(g, h)
      BY <2>6, <3>1, <3>2 DEF Grazed
    <3>4. \A u \in Token \ {t} : Bystander(g.players[u], g.players[u])
      BY Nobody DEF Passes
    <3> QED BY <2>2, <2>5, <2>6, <3>3, <3>4 DEF PassesBut
  <2> QED BY <2>2, <2>4, <2>5, <2>6, <2>7
<1> QED BY <1>2, <1>3

LEMMA Paused ==
    ASSUME NEW a \in Player, NEW place \in Place
    PROVE  LET y == [a EXCEPT !.at = place, !.loading = TRUE, !.grace = 0]
           IN  y \in Player /\ y.loading /\ y.health = a.health /\ y.pvp = a.pvp /\ y.chose = a.chose
<1> DEFINE b == [a EXCEPT !.at = place]
           c == [b EXCEPT !.loading = TRUE]
           d == [c EXCEPT !.grace = 0]
<1>1. b \in Player /\ b.health = a.health /\ b.pvp = a.pvp /\ b.chose = a.chose
  BY DEF Player
<1> HIDE DEF b
<1>2. c \in Player /\ c.loading /\ c.health = b.health /\ c.pvp = b.pvp /\ c.chose = b.chose
  BY <1>1 DEF Player
<1> HIDE DEF c
<1>3. d \in Player /\ d.loading = c.loading /\ d.health = c.health /\ d.pvp = c.pvp /\ d.chose = c.chose
  <2>1. c \in Player
    BY <1>2
  <2>2. \A n \in Int : [c EXCEPT !.grace = n] \in Player
    BY <2>1 DEF Player
  <2>3. d \in Player
    BY <2>2
  <2>4. d.loading = c.loading /\ d.health = c.health /\ d.pvp = c.pvp /\ d.chose = c.chose
    BY <2>1, Zenon DEF Player
  <2> QED BY <2>3, <2>4
<1>4. [a EXCEPT !.at = place, !.loading = TRUE, !.grace = 0] = d
  BY DEF b, c
<1> QED BY <1>1, <1>2, <1>3, <1>4

\* Through a gate, or told that it is closed to him.
LEMMA Gate ==
    ASSUME NEW g, World(g), NEW t \in Token, NEW h, h = _apply_transition_if_present(g, t)
    PROVE  /\ PassesBut(g, h, t) /\ Own(g.players[t], h.players[t])
           /\ g.players[t].placed => h.players[t].placed
<1> DEFINE a == g.players[t]
<1>1. g \in Game /\ a \in Player /\ Chosen(a)
  BY DEF World, Game
<1>2. CASE h = g
  <2>1. Own(a, a)
    BY <1>1 DEF Own, Player
  <2> QED BY <1>2, <2>1, Nobody, PassesIsBut DEF Still
<1>3. CASE h = [g EXCEPT !.players[t].cooldown = Cooldown]
  <2> DEFINE q == [a EXCEPT !.cooldown = Cooldown]
  <2>1. Cooldown \in Int
    BY Constants
  <2>2. q \in Player /\ Stays(a, q) /\ q.pvp = a.pvp /\ q.chose = a.chose /\ Own(a, q)
    BY <1>1, <2>1 DEF Player, Stays, Own, _transition_protected
  <2>3. h = With(g, t, q)
    BY <1>3 DEF With
  <2> HIDE DEF q
  <2>4. PassesBut(g, h, t) /\ h.players[t] = q
    BY <2>2, <2>3, SetTimers DEF Becomes
  <2> QED BY <2>2, <2>4 DEF Stays
<1>4. CASE a.at \in Gates /\ h = [g EXCEPT !.players[t] = Through(a)]
  <2> DEFINE x == [a EXCEPT !.at = Exit[a.at], !.loading = TRUE, !.grace = 0,
                            !.cooldown = Cooldown, !.correction = Hold, !.placed = TRUE]
             q == _apply_map_pvp_policy(x, a.at)
  <2>1. Cooldown \in Int /\ Hold \in Int /\ Exit[a.at] \in Place
    BY <1>4, Constants
  <2>2. /\ x \in Player /\ x.placed /\ x.loading /\ x.health = a.health
        /\ x.pvp = a.pvp /\ x.chose = a.chose
    <3> DEFINE y == [a EXCEPT !.at = Exit[a.at], !.loading = TRUE, !.grace = 0]
    <3>1. y \in Player /\ y.loading /\ y.health = a.health /\ y.pvp = a.pvp /\ y.chose = a.chose
      BY <1>1, <2>1, Paused
    <3>2. x = [y EXCEPT !.cooldown = Cooldown, !.correction = Hold, !.placed = TRUE]
      OBVIOUS
    <3> HIDE DEF x, y
    <3> QED BY <2>1, <3>1, <3>2 DEF Player
  <2>3. h = With(g, t, q)
    BY <1>4 DEF With, Through
  <2> HIDE DEF x
  <2>4. IF map_forces_pvp(a.at) THEN x.pvp ELSE x.pvp => x.chose
    BY <1>1, <2>2 DEF Chosen
  <2>5. q \in Player /\ Chosen(q) /\ q.placed /\ q.loading /\ q.health = a.health
    BY <2>2, <2>4, Policy
  <2> HIDE DEF q
  <2>6. PassesBut(g, h, t) /\ h.players[t] = q
    BY <2>3, <2>5, SetPlayer DEF Becomes, Fits
  <2>7. Own(a, q)
    BY <1>1, <2>5 DEF Own, _transition_protected, Player
  <2> QED BY <2>5, <2>6, <2>7
<1> QED BY <1>2, <1>3, <1>4 DEF _apply_transition_if_present

LEMMA OwnTwice ==
    ASSUME NEW a \in Player, NEW b \in Player, NEW c \in Player, Own(a, b), Own(b, c)
    PROVE  Own(a, c)
  BY DEF Own, Player

\* A step to a cell that is free, or none.
LEMMA Walked ==
    ASSUME NEW g, World(g), NEW t \in Token, NEW place \in Place, place[1] = g.players[t].at[1],
           \A u \in Token \ {t} : g.players[u].at # place,
           NEW h, h = Moved(g, t, place)
    PROVE  /\ PassesBut(g, h, t) /\ Own(g.players[t], h.players[t])
           /\ g.players[t].placed /\ place = g.players[t].at => h.players[t].placed
<1> DEFINE a == g.players[t]
           from == a.at
           k == _heal_player_from_herb(g, t, place)
           b == k.players[t]
           q == [b EXCEPT !.at = place, !.placed = b.placed /\ place = from]
           l == With(k, t, q)
           m == _pickup_items_along_path(l, from, place)
<1>1. g \in Game /\ a \in Player /\ Chosen(a)
  BY DEF World, Game
<1>2. /\ PassesBut(g, k, t) /\ World(k) /\ Fed(a, b)
      /\ \A u \in Token \ {t} : k.players[u] = g.players[u]
  BY Healed DEF PassesBut
<1>3. k \in Game /\ b \in Player
  BY <1>2 DEF World, Game
<1>4. l = [k EXCEPT !.players[t].at = place, !.players[t].placed = @ /\ place = from]
  <2> HIDE DEF k, from
  <2> DEFINE x == [b EXCEPT !.at = place]
  <2>1. [k EXCEPT !.players[t].at = place] = With(k, t, x)
    BY DEF With
  <2>2. With(k, t, x).players[t] = x /\ x.placed = b.placed
    BY <1>3 DEF With, Game, Player
  <2>3. [With(k, t, x) EXCEPT !.players[t].placed = @ /\ place = from] = With(With(k, t, x), t, q)
    BY <2>2 DEF With
  <2>4. With(With(k, t, x), t, q) = l
    BY <1>3, WithTwice
  <2>5. [k EXCEPT !.players[t].at = place, !.players[t].placed = @ /\ place = from]
          = [[k EXCEPT !.players[t].at = place] EXCEPT !.players[t].placed = @ /\ place = from]
    OBVIOUS
  <2> HIDE DEF x, q, l
  <2> QED BY <2>1, <2>3, <2>4, <2>5
<1>5. h = _apply_transition_if_present(m, t)
  BY <1>4 DEF Moved
<1> HIDE DEF k
<1>6. /\ q \in Player /\ q.at = place /\ (a.placed /\ place = from => q.placed) /\ Own(a, q)
      /\ q.pvp = b.pvp /\ q.chose = b.chose
  <2>1. /\ q \in Player /\ q.at = place /\ q.placed = (b.placed /\ place = from) /\ q.pvp = b.pvp
        /\ q.chose = b.chose /\ q.health = b.health /\ q.loading = b.loading /\ q.grace = b.grace
    BY <1>3 DEF Player
  <2> HIDE DEF q, b
  <2> QED BY <1>1, <1>2, <2>1 DEF Own, Fed, Stays, _transition_protected
<1> HIDE DEF q
<1>7. Chosen(q)
  BY <1>1, <1>2, <1>6 DEF Chosen, Fed, map_forces_pvp
<1>8. Fits(k, t, q)
  BY <1>2, <1>6 DEF Fits
<1>9. PassesBut(k, l, t) /\ World(l) /\ l.players[t] = q
  BY <1>2, <1>6, <1>7, <1>8, SetPlayer DEF Becomes
<1> HIDE DEF l
<1>10. Unharmed(l, m)
  BY <1>9, Swept
<1> HIDE DEF m
<1>11. PassesBut(l, m, t) /\ World(m) /\ m.players[t] = q
  BY <1>9, <1>10, UnharmedPasses, PassesIsBut DEF Unharmed, Still
<1>12. PassesBut(m, h, t) /\ Own(q, h.players[t]) /\ (q.placed => h.players[t].placed)
  BY <1>5, <1>11, Gate
<1>13. PassesBut(g, h, t)
  BY <1>2, <1>9, <1>11, <1>12, PassesButTwice
<1>14. h.players[t] \in Player
  BY <1>12 DEF PassesBut, World, Game
<1>15. Own(a, h.players[t])
  BY <1>1, <1>6, <1>12, <1>14, OwnTwice
<1> QED BY <1>6, <1>12, <1>13, <1>15

\* Only what was told of his last report, or of its buttons, is another.
Heard(b, s) == b.fire = s.fire /\ b.pickup = s.pickup /\ b.toggle = s.toggle /\ b.buttons = s.buttons
Quiet(a, b) ==
    /\ Stays(a, b) /\ b.pvp = a.pvp /\ b.chose = a.chose /\ b.health = a.health
    /\ b.loading = a.loading /\ b.grace = a.grace

LEMMA Noted ==
    ASSUME NEW a \in Player, NEW yes \in BOOLEAN, NEW b, b = [a EXCEPT !.accepted = yes]
    PROVE  b \in Player /\ Quiet(a, b) /\ b.correction = a.correction /\ \A s : Heard(a, s) => Heard(b, s)
  BY DEF Player, Quiet, Stays, Heard

LEMMA Counted ==
    ASSUME NEW a \in Player, NEW n \in Int, NEW b, b = [a EXCEPT !.correction = n]
    PROVE  b \in Player /\ Quiet(a, b)
  BY DEF Player, Quiet, Stays

\* A player who is quiet is held by nothing less.
LEMMA QuietOwn ==
    ASSUME NEW a \in Player, NEW b \in Player, Quiet(a, b)
    PROVE  Own(a, b)
<1>1. _transition_protected(a) => _transition_protected(b) /\ b.health >= a.health
  BY DEF Quiet, Player, _transition_protected
<1>2. ~b.loading => ~a.loading /\ b.at[1] = a.at[1]
  BY DEF Quiet, Stays
<1> QED BY <1>1, <1>2 DEF Own

LEMMA AnsweredOwn ==
    ASSUME NEW a \in Player, NEW b \in Player, NEW s, Answered(a, b, s)
    PROVE  Own(a, b)
<1>1. _transition_protected(a) => _transition_protected(b) /\ b.health >= a.health
  BY DEF Answered, Player, _transition_protected
<1>2. ~b.loading => ~a.loading /\ b.at[1] = a.at[1]
  BY DEF Answered, Stays
<1> QED BY <1>1, <1>2 DEF Own

LEMMA QuietPasses ==
    ASSUME NEW g, World(g), NEW t \in Token, NEW q \in Player, Quiet(g.players[t], q),
           NEW h, h = With(g, t, q)
    PROVE  /\ World(h) /\ PassesBut(g, h, t) /\ h.players[t] = q
           /\ \A u \in Token \ {t} : h.players[u] = g.players[u]
           /\ h.tiles = g.tiles /\ h.enemy = g.enemy
  BY SetTimers DEF Quiet, Becomes

LEMMA Discarded ==
    ASSUME NEW g, World(g), NEW t \in Token, NEW s \in Report,
           NEW h, h = _discard_player_state_inputs(g, t, s)
    PROVE  PassesBut(g, h, t) /\ Quiet(g.players[t], h.players[t]) /\ Heard(h.players[t], s)
<1> DEFINE a == g.players[t]
           q == Acked(a, s)
           x == [a EXCEPT !.fire = s.fire, !.pickup = s.pickup]
<1>1. a \in Player /\ s.fire \in {0, 1} /\ s.pickup \in {0, 1} /\ s.toggle \in {0, 1} /\ s.buttons \in BOOLEAN
  BY DEF World, Game, Report
<1>2. h = With(g, t, q)
  BY DEF _discard_player_state_inputs, With
<1> HIDE DEF a
<1>3. x \in Player /\ Quiet(a, x) /\ x.fire = s.fire /\ x.pickup = s.pickup
  BY <1>1 DEF Player, Quiet, Stays
<1>4. q = [x EXCEPT !.toggle = s.toggle, !.buttons = s.buttons]
  BY DEF Acked
<1> HIDE DEF x, q
<1>5. q \in Player /\ Quiet(x, q) /\ Heard(q, s)
  BY <1>1, <1>3, <1>4 DEF Player, Quiet, Stays, Heard
<1>6. Quiet(a, q)
  BY <1>3, <1>5 DEF Quiet, Stays
<1> QED BY <1>2, <1>5, <1>6, QuietPasses DEF a

\* Whom a gate or a grave has put somewhere, and no report may move yet.
Held(a) == a.placed /\ (a.loading \/ a.correction > 0)

LEMMA Allowed ==
    ASSUME NEW g, NEW t \in Token, NEW place, _player_destination_allowed(g, t, place)
    PROVE  place \in Place /\ \A u \in Token \ {t} : g.players[u].at # place
<1>1. player_can_enter(g, place) /\ ~_blocked_by_entity(g, t, place)
  BY DEF _player_destination_allowed, Free
<1> QED BY <1>1, Enterable DEF _blocked_by_entity

\* A report of t is told, leaves the others as bystanders, and moves nobody who is held.
Tells(g, r, t, s) ==
    /\ PassesBut(g, r, t) /\ Own(g.players[t], r.players[t]) /\ Heard(r.players[t], s)
    /\ Held(g.players[t]) => r.players[t].placed

LEMMA Reporting ==
    ASSUME NEW g, World(g), NEW t \in Token, NEW s \in Report, NEW drops \in Loot
    PROVE  Tells(g, apply_player_state(g, t, s, drops), t, s)
<1> DEFINE a == g.players[t]
           place == <<a.at[1], s.x, s.y>>
           b == [a EXCEPT !.accepted = FALSE]
           no == With(g, t, b)
           c == [b EXCEPT !.correction = 0]
           h == With(no, t, c)
           r == apply_player_state(g, t, s, drops)
<1>1. g \in Game /\ a \in Player
  BY DEF World, Game
<1>2. b \in Player /\ Quiet(a, b) /\ b.correction = a.correction
  BY <1>1, Noted
<1>3. World(no) /\ PassesBut(g, no, t) /\ no.players[t] = b
  BY <1>2, QuietPasses
<1>4. c \in Player /\ Quiet(b, c)
  <2>1. b \in Player /\ 0 \in Int
    BY <1>2
  <2> HIDE DEF b
  <2> QED BY <2>1, Counted
<1>5. /\ World(h) /\ PassesBut(no, h, t) /\ h.players[t] = c
      /\ \A u \in Token \ {t} : h.players[u] = g.players[u]
  <2>1. \A u \in Token \ {t} : no.players[u] = g.players[u]
    BY <1>2, QuietPasses
  <2> HIDE DEF no, c
  <2> QED BY <1>3, <1>4, <2>1, QuietPasses
<1>6. Quiet(a, c)
  BY <1>2, <1>4 DEF Quiet, Stays
<1>7. PassesBut(g, h, t)
  BY <1>3, <1>5, PassesButTwice
<1>8. no = [g EXCEPT !.players[t].accepted = FALSE] /\ h = [no EXCEPT !.players[t].correction = 0]
  <2>1. no = [g EXCEPT !.players[t].accepted = FALSE]
    BY DEF With
  <2> HIDE DEF no, b
  <2>2. h = [no EXCEPT !.players[t].correction = 0]
    BY <1>3 DEF With
  <2> QED BY <2>1, <2>2
<1>9. r = IF a.loading THEN _discard_player_state_inputs(no, t, s)
          ELSE IF a.correction > 0 /\ place # a.at
               THEN _discard_player_state_inputs([no EXCEPT !.players[t].correction = @ - 1], t, s)
          ELSE IF ~_player_destination_allowed(g, t, place) THEN _apply_player_state_inputs(h, t, s, drops)
          ELSE [_apply_player_state_inputs(Moved(h, t, place), t, s, drops) EXCEPT !.players[t].accepted = TRUE]
  <2> DEFINE x == [g EXCEPT !.players[t].accepted = FALSE]
             y == [x EXCEPT !.players[t].correction = 0]
  <2>1. r = IF a.loading THEN _discard_player_state_inputs(x, t, s)
            ELSE IF a.correction > 0 /\ place # a.at
                 THEN _discard_player_state_inputs([x EXCEPT !.players[t].correction = @ - 1], t, s)
            ELSE IF ~_player_destination_allowed(g, t, place) THEN _apply_player_state_inputs(y, t, s, drops)
            ELSE [_apply_player_state_inputs(Moved(y, t, place), t, s, drops) EXCEPT !.players[t].accepted = TRUE]
    BY DEF apply_player_state
  <2>2. x = no
    BY <1>8
  <2> HIDE DEF x, no
  <2>3. y = h
    BY <1>8, <2>2
  <2> HIDE DEF r, y, h, place, a
  <2> QED BY <2>1, <2>2, <2>3
<1> HIDE DEF r, b, no, c, h
<1>10. CASE r = _discard_player_state_inputs(no, t, s)
  <2>1. PassesBut(no, r, t) /\ Quiet(b, r.players[t]) /\ Heard(r.players[t], s)
    BY <1>3, <1>10, Discarded
  <2>2. PassesBut(g, r, t) /\ Quiet(a, r.players[t]) /\ r.players[t] \in Player
    BY <1>2, <1>3, <2>1, PassesButTwice DEF Quiet, Stays, PassesBut, World, Game
  <2>3. Own(a, r.players[t])
    BY <1>1, <2>2, QuietOwn
  <2> QED BY <2>1, <2>2, <2>3 DEF Tells, Held, Quiet, Stays, r
<1>11. CASE r = _discard_player_state_inputs([no EXCEPT !.players[t].correction = @ - 1], t, s)
  <2> DEFINE d == [b EXCEPT !.correction = b.correction - 1]
             k == With(no, t, d)
  <2>1. r = _discard_player_state_inputs(k, t, s)
    BY <1>3, <1>11 DEF With
  <2>2. d \in Player /\ Quiet(b, d)
    <3>1. b.correction - 1 \in Int
      BY <1>2 DEF Player
    <3> QED BY <1>2, <3>1, Counted
  <2> HIDE DEF d
  <2>3. World(k) /\ PassesBut(no, k, t) /\ k.players[t] = d
    BY <1>3, <2>2, QuietPasses
  <2> HIDE DEF k
  <2>4. PassesBut(k, r, t) /\ Quiet(d, r.players[t]) /\ Heard(r.players[t], s)
    BY <2>1, <2>3, Discarded
  <2>5. PassesBut(g, r, t)
    BY <1>3, <2>3, <2>4, PassesButTwice
  <2>6. Quiet(a, r.players[t]) /\ r.players[t] \in Player
    BY <1>2, <2>2, <2>4, <2>5 DEF Quiet, Stays, PassesBut, World, Game
  <2>7. Own(a, r.players[t])
    BY <1>1, <2>6, QuietOwn
  <2> QED BY <2>4, <2>5, <2>6, <2>7 DEF Tells, Held, Quiet, Stays, r
<1>12. CASE r = _apply_player_state_inputs(h, t, s, drops)
  <2>1. PassesBut(h, r, t) /\ Answered(c, r.players[t], s)
    BY <1>5, <1>12, Inputs
  <2>2. PassesBut(g, r, t) /\ r.players[t] \in Player
    BY <1>5, <1>7, <2>1, PassesButTwice DEF PassesBut, World, Game
  <2>3. Own(a, r.players[t]) /\ r.players[t].placed = a.placed
    BY <1>1, <1>6, <2>1, <2>2 DEF Answered, Quiet, Stays, Own, Player, _transition_protected
  <2> QED BY <2>1, <2>2, <2>3 DEF Tells, Held, Answered, Heard, r
<1>13. CASE /\ ~a.loading /\ ~(a.correction > 0 /\ place # a.at) /\ _player_destination_allowed(g, t, place)
            /\ r = [_apply_player_state_inputs(Moved(h, t, place), t, s, drops) EXCEPT !.players[t].accepted = TRUE]
  <2> DEFINE k == Moved(h, t, place)
             m == _apply_player_state_inputs(k, t, s, drops)
             e == m.players[t]
             f == [e EXCEPT !.accepted = TRUE]
  <2>1. place \in Place /\ place[1] = c.at[1] /\ c.at = a.at /\ c.placed = a.placed
    BY <1>6, <1>13, Allowed, SMTT(20) DEF Quiet, Stays
  <2>2. \A u \in Token \ {t} : h.players[u].at # place
    BY <1>5, <1>13, Allowed
  <2> HIDE DEF place
  <2>3. PassesBut(h, k, t) /\ Own(c, k.players[t]) /\ (c.placed /\ place = c.at => k.players[t].placed)
    BY <1>5, <2>1, <2>2, Walked
  <2> HIDE DEF k
  <2>4. PassesBut(k, m, t) /\ Answered(k.players[t], e, s)
    BY <2>3, Inputs DEF PassesBut
  <2>5. r = With(m, t, f)
    BY <1>13 DEF With, k
  <2> HIDE DEF m
  <2>6. World(m) /\ e \in Player
    BY <2>4 DEF PassesBut, World, Game
  <2>7. f \in Player /\ Quiet(e, f) /\ (Heard(e, s) => Heard(f, s))
    BY <2>6, Noted
  <2> HIDE DEF f
  <2>8. PassesBut(m, r, t) /\ r.players[t] = f
    BY <2>5, <2>6, <2>7, QuietPasses DEF e
  <2>9. PassesBut(h, r, t)
    BY <1>5, <2>3, <2>4, <2>8, PassesButTwice DEF PassesBut
  <2>10. PassesBut(g, r, t)
    BY <1>7, <2>9, PassesButTwice
  <2>11. k.players[t] \in Player
    BY <2>3 DEF PassesBut, World, Game
  <2>12. Own(a, c) /\ Own(k.players[t], e) /\ Own(e, f)
    <3>1. Own(a, c) /\ Own(e, f)
      BY <1>1, <1>4, <1>6, <2>6, <2>7, QuietOwn
    <3>2. Own(k.players[t], e)
      BY <2>4, <2>6, <2>11, AnsweredOwn
    <3> QED BY <3>1, <3>2
  <2>13. Own(a, f)
    BY <1>1, <1>4, <2>3, <2>6, <2>7, <2>11, <2>12, OwnTwice
  <2>14. Heard(f, s)
    BY <2>4, <2>7 DEF Answered, Heard
  <2>15. Held(a) => f.placed
    BY <1>13, <2>1, <2>3, <2>4, <2>7 DEF Held, Answered, Quiet, Stays
  <2> QED BY <2>8, <2>10, <2>13, <2>14, <2>15 DEF Tells, r
<1> QED BY <1>9, <1>10, <1>11, <1>12, <1>13 DEF r

-----------------------------------------------------------------------------
(* The reports of a tick, one after the other.                              *)

LEMMA Smallest ==
    ASSUME NEW T \in SUBSET Nat, T # {}
    PROVE  \E i \in T : \A j \in T : i <= j
<1>1. PICK i \in T : \A j \in T : ~(<<j, i>> \in OpToRel(<, Nat))
  BY WFMin, NatLessThanWellFounded
<1>2. \A j \in T : ~(j < i)
  BY <1>1 DEF OpToRel
<1> QED BY <1>2

\* The worlds after each of the first n reports.
Worlds(f, g, drops, n) ==
    f = [i \in 0..n |-> IF i = 0 THEN g ELSE Applied(f[i - 1], Order[i], drops)]

LEMMA WorldsExist ==
    ASSUME NEW g, NEW drops, NEW n \in Nat
    PROVE  \E f : Worlds(f, g, drops, n)
<1> DEFINE T == {m \in Nat : ~\E f : Worlds(f, g, drops, m)}
<1>1. SUFFICES ASSUME T # {} PROVE FALSE
  OBVIOUS
<1>2. PICK m \in T : \A j \in T : m <= j
  <2>1. T \in SUBSET Nat
    OBVIOUS
  <2> HIDE DEF T
  <2> QED BY <1>1, <2>1, Smallest
<1>3. m \in Nat /\ ~\E f : Worlds(f, g, drops, m)
  OBVIOUS
<1>4. CASE m = 0
  <2> DEFINE f == [i \in 0..0 |-> g]
  <2>1. f = [i \in 0..0 |-> IF i = 0 THEN g ELSE Applied(f[i - 1], Order[i], drops)]
    OBVIOUS
  <2>2. Worlds(f, g, drops, 0)
    BY <2>1 DEF Worlds
  <2> QED BY <1>3, <1>4, <2>2
<1>5. CASE m # 0
  <2>1. m - 1 \in Nat /\ m - 1 \notin T
    BY <1>2, <1>3, <1>5
  <2>2. PICK e : Worlds(e, g, drops, m - 1)
    BY <2>1
  <2> DEFINE f == [i \in 0..m |-> IF i = m THEN Applied(e[m - 1], Order[m], drops) ELSE e[i]]
  <2>3. \A i \in 0..(m - 1) : f[i] = e[i] /\ e[i] = IF i = 0 THEN g ELSE Applied(e[i - 1], Order[i], drops)
    BY <1>3, <2>2 DEF Worlds
  <2>4. ASSUME NEW i \in 0..m
        PROVE  f[i] = IF i = 0 THEN g ELSE Applied(f[i - 1], Order[i], drops)
    <3>1. CASE i = m
      <4>1. m - 1 \in 0..(m - 1) /\ i # 0 /\ f[i] = Applied(e[m - 1], Order[m], drops)
        BY <1>3, <1>5, <3>1
      <4>2. f[m - 1] = e[m - 1]
        BY <2>3, <4>1
      <4> HIDE DEF f
      <4> QED BY <3>1, <4>1, <4>2
    <3>2. CASE i # m
      <4>1. i \in 0..(m - 1) /\ (i # 0 => i - 1 \in 0..(m - 1))
        BY <1>3, <3>2
      <4> HIDE DEF f
      <4> QED BY <2>3, <4>1
    <3> QED BY <3>1, <3>2
  <2>5. f = [i \in 0..m |-> f[i]]
    OBVIOUS
  <2> HIDE DEF f
  <2>6. Worlds(f, g, drops, m)
    BY <2>4, <2>5 DEF Worlds
  <2> QED BY <1>3, <2>6
<1> QED BY <1>4, <1>5

LEMMA Applying ==
    ASSUME NEW g, NEW drops
    PROVE  \E f : Worlds(f, g, drops, Len(Order)) /\ ApplyAll(g, drops) = f[Len(Order)]
<1> DEFINE f == CHOOSE f : Worlds(f, g, drops, Len(Order))
<1>1. Len(Order) \in Nat
  BY CombatAssumption
<1>2. Worlds(f, g, drops, Len(Order))
  <2> HIDE DEF Worlds
  <2> QED BY <1>1, WorldsExist
<1>3. ApplyAll(g, drops) = f[Len(Order)]
  BY DEF ApplyAll, Worlds
<1> HIDE DEF f
<1> QED BY <1>2, <1>3

\* What became of g and its players after the first i reports of the tick.
Round(g, r, i) ==
    /\ World(r) /\ Grazed(g, r)
    /\ \A t \in Token :
        /\ Own(g.players[t], r.players[t])
        /\ Held(g.players[t]) => r.players[t].placed
        /\ Held(g.players[t]) /\ (\A j \in 1..i : Order[j] # t) => Held(r.players[t])
        /\ latest[t] # Nothing /\ (\E j \in 1..i : Order[j] = t) => Heard(r.players[t], latest[t])

LEMMA BystanderKept ==
    ASSUME NEW a \in Player, NEW b \in Player, Bystander(a, b)
    PROVE  Own(a, b) /\ (a.placed => b.placed) /\ (Held(a) => Held(b)) /\ \A s : Heard(a, s) => Heard(b, s)
  BY DEF Bystander, Own, Held, Heard, Player, _transition_protected

LEMMA Turn ==
    ASSUME NEW g, World(g), NEW drops \in Loot, NEW i \in Nat, i + 1 \in 1..Len(Order),
           latest \in [Token -> Report \cup {Nothing}], NEW r, Round(g, r, i)
    PROVE  Round(g, Applied(r, Order[i + 1], drops), i + 1)
<1> DEFINE t == Order[i + 1]
           k == Applied(r, t, drops)
<1>1. /\ t \in Token /\ World(r) /\ \A j \in 1..i : Order[j] # t
      /\ 1..(i + 1) = 1..i \cup {i + 1} /\ r.players \in [Token -> Player] /\ g.players \in [Token -> Player]
  <2>1. t \in Token /\ Len(Order) \in Nat
    <3>1. Order \in Seq(Token)
      BY CombatAssumption
    <3> QED BY <3>1
  <2>2. ASSUME NEW j \in 1..i, Order[j] = t
        PROVE  FALSE
    <3>1. j \in 1..Len(Order) /\ j # i + 1
      BY <2>1
    <3> QED BY <2>2, <3>1, CombatAssumption
  <2>3. 1..(i + 1) = 1..i \cup {i + 1}
    OBVIOUS
  <2>4. World(r) /\ r.players \in [Token -> Player] /\ g.players \in [Token -> Player]
    BY DEF Round, World, Game
  <2> QED BY <2>1, <2>2, <2>3, <2>4
<1>2. CASE latest[t] = Nothing
  <2>1. k = r
    BY <1>2 DEF Applied
  <2> HIDE DEF k, t
  <2>2. ASSUME NEW u \in Token
        PROVE  /\ Own(g.players[u], k.players[u]) /\ (Held(g.players[u]) => k.players[u].placed)
               /\ Held(g.players[u]) /\ (\A j \in 1..(i + 1) : Order[j] # u) => Held(k.players[u])
               /\ latest[u] # Nothing /\ (\E j \in 1..(i + 1) : Order[j] = u) => Heard(k.players[u], latest[u])
    BY <1>1, <1>2, <2>1 DEF Round, t
  <2> QED BY <1>1, <2>1, <2>2 DEF Round, k, t
<1>3. CASE latest[t] # Nothing
  <2> DEFINE s == latest[t]
  <2>1. Tells(r, k, t, s)
    <3>1. s \in Report /\ k = apply_player_state(r, t, s, drops)
      BY <1>1, <1>3 DEF Applied
    <3> HIDE DEF t, s, k
    <3> QED BY <1>1, <3>1, Reporting
  <2>4. Grazed(g, k)
    BY <2>1, GrazedTwice DEF Tells, PassesBut, Round
  <2> HIDE DEF k
  <2>2. World(k) /\ k.players \in [Token -> Player]
    BY <2>1 DEF Tells, PassesBut, World, Game
  <2>3. ASSUME NEW u \in Token
        PROVE  /\ Own(g.players[u], k.players[u]) /\ (Held(g.players[u]) => k.players[u].placed)
               /\ Held(g.players[u]) /\ (\A j \in 1..(i + 1) : Order[j] # u) => Held(k.players[u])
               /\ latest[u] # Nothing /\ (\E j \in 1..(i + 1) : Order[j] = u) => Heard(k.players[u], latest[u])
    <3> DEFINE a == g.players[u]
               b == r.players[u]
               c == k.players[u]
    <3>1. a \in Player /\ b \in Player /\ c \in Player
      BY <1>1, <2>2
    <3>2. /\ Own(a, b) /\ (Held(a) => b.placed) /\ (Held(a) /\ (\A j \in 1..i : Order[j] # u) => Held(b))
          /\ latest[u] # Nothing /\ (\E j \in 1..i : Order[j] = u) => Heard(b, latest[u])
      BY DEF Round
    <3> HIDE DEF a, b, c
    <3>3. CASE u = t
      <4>1. Own(b, c) /\ Heard(c, latest[u]) /\ (Held(b) => c.placed)
        BY <2>1, <3>3 DEF Tells, b, c
      <4>2. Own(a, c) /\ (Held(a) => c.placed)
        BY <1>1, <3>1, <3>2, <3>3, <4>1, OwnTwice
      <4>3. ~(\A j \in 1..(i + 1) : Order[j] # u)
        BY <1>1, <3>3
      <4> QED BY <4>1, <4>2, <4>3 DEF a, c
    <3>4. CASE u # t
      <4>1. Bystander(b, c)
        BY <2>1, <3>4 DEF Tells, PassesBut, b, c
      <4>2. Own(b, c) /\ (b.placed => c.placed) /\ (Held(b) => Held(c)) /\ \A x : Heard(b, x) => Heard(c, x)
        BY <3>1, <4>1, BystanderKept
      <4>3. Own(a, c)
        BY <3>1, <3>2, <4>2, OwnTwice
      <4>4. (\E j \in 1..(i + 1) : Order[j] = u) => (\E j \in 1..i : Order[j] = u)
        BY <1>1, <3>4
      <4>5. (\A j \in 1..(i + 1) : Order[j] # u) => (\A j \in 1..i : Order[j] # u)
        BY <1>1
      <4> QED BY <3>2, <4>2, <4>3, <4>4, <4>5 DEF a, c
    <3> QED BY <3>3, <3>4
  <2> QED BY <2>2, <2>3, <2>4 DEF Round, k
<1> QED BY <1>2, <1>3

LEMMA Rounds ==
    ASSUME NEW g, World(g), NEW drops \in Loot, latest \in [Token -> Report \cup {Nothing}]
    PROVE  Round(g, ApplyAll(g, drops), Len(Order))
<1>1. Len(Order) \in Nat
  BY CombatAssumption
<1>2. PICK f : Worlds(f, g, drops, Len(Order)) /\ ApplyAll(g, drops) = f[Len(Order)]
  BY Applying
<1>3. \A i \in 0..Len(Order) : f[i] = IF i = 0 THEN g ELSE Applied(f[i - 1], Order[i], drops)
  BY <1>2 DEF Worlds
<1> DEFINE T == {i \in 0..Len(Order) : ~Round(g, f[i], i)}
<1>4. SUFFICES ASSUME T # {} PROVE FALSE
  BY <1>1, <1>2
<1>5. PICK i \in T : \A j \in T : i <= j
  <2>1. T \in SUBSET Nat
    BY <1>1
  <2> HIDE DEF T
  <2> QED BY <1>4, <2>1, Smallest
<1>6. i \in 0..Len(Order) /\ ~Round(g, f[i], i)
  OBVIOUS
<1>7. CASE i = 0
  <2>1. f[0] = g
    BY <1>1, <1>3
  <2>2. \A t \in Token : Own(g.players[t], g.players[t])
    BY DEF Own, World, Game, Player
  <2>3. Round(g, g, 0)
    BY <2>2 DEF Round, Held, Grazed, Still
  <2> QED BY <1>6, <1>7, <2>1, <2>3
<1>8. CASE i # 0
  <2>1. i - 1 \in Nat /\ i - 1 \in 0..Len(Order) /\ (i - 1) + 1 = i /\ i \in 1..Len(Order) /\ i - 1 \notin T
    BY <1>1, <1>5, <1>6, <1>8
  <2>2. Round(g, f[i - 1], i - 1)
    BY <2>1
  <2>3. Round(g, Applied(f[i - 1], Order[(i - 1) + 1], drops), (i - 1) + 1)
    BY <2>1, <2>2, Turn
  <2>4. f[i] = Applied(f[i - 1], Order[i], drops)
    BY <1>3, <1>6, <1>8
  <2> QED BY <1>6, <2>1, <2>3, <2>4
<1> QED BY <1>7, <1>8

-----------------------------------------------------------------------------
(* The rest of the tick.                                                    *)

LEMMA Counting == \A n \in Int : Down(n) \in Int /\ (n \in Nat => Down(n) \in Nat)
  BY DEF Down

LEMMA Begun ==
    ASSUME NEW g, World(g)
    PROVE  /\ World(begin_tick(g)) /\ begin_tick(g).tiles = g.tiles /\ begin_tick(g).tile_update = Nothing
           /\ \A t \in Token : /\ begin_tick(g).players[t].loading = g.players[t].loading
                               /\ begin_tick(g).players[t].at = g.players[t].at
<1> DEFINE up == WithUpdate(g, Nothing)
           q(t) == [g.players[t] EXCEPT !.cooldown = Down(@),
                                        !.grace = IF g.players[t].loading THEN @ ELSE Down(@)]
           p == [t \in Token |-> q(t)]
           h == [up EXCEPT !.players = p]
<1>1. /\ World(up) /\ up.players = g.players /\ up.tiles = g.tiles /\ up.tile_update = Nothing
      /\ g.players \in [Token -> Player]
  BY SetUpdate DEF World, Game
<1>2. ASSUME NEW t \in Token
      PROVE  /\ q(t) \in Player /\ Stays(g.players[t], q(t)) /\ Chosen(q(t))
             /\ q(t).loading = g.players[t].loading
  <2> DEFINE a == g.players[t]
             m == Down(a.cooldown)
             n == IF a.loading THEN a.grace ELSE Down(a.grace)
  <2>1. a \in Player /\ Chosen(a)
    BY <1>1 DEF World
  <2>2. m \in Int /\ n \in Int
    BY <2>1, Counting DEF Player
  <2>3. q(t) = [a EXCEPT !.cooldown = m, !.grace = n]
    OBVIOUS
  <2> HIDE DEF a, m, n, q
  <2> QED BY <2>1, <2>2, <2>3 DEF Player, Stays, Chosen, a
<1>3. p \in [Token -> Player] /\ \A t \in Token : p[t] = q(t)
  BY <1>2
<1>4. begin_tick(g) = h
  BY DEF begin_tick, WithUpdate
<1> HIDE DEF q, p
<1>5. Spaced(p) /\ \A t \in Token : Chosen(p[t])
  <2>1. \A t \in Token : p[t].at = g.players[t].at /\ p[t].placed = g.players[t].placed /\ Chosen(p[t])
    BY <1>2, <1>3 DEF Stays
  <2>2. Spaced(g.players)
    BY DEF World
  <2> QED BY <2>1, <2>2 DEF Spaced
<1>6. up \in Game
  BY <1>1 DEF World
<1> HIDE DEF up
<1>7. /\ h \in Game /\ h.players = p /\ h.tiles = up.tiles /\ h.tile_update = up.tile_update
      /\ h.herb_ticks = up.herb_ticks /\ h.tree_ticks = up.tree_ticks
  BY <1>3, <1>6, SetPlayers
<1> HIDE DEF h
<1>8. World(h)
  BY <1>1, <1>5, <1>7 DEF World
<1>9. \A t \in Token : h.players[t].loading = g.players[t].loading /\ h.players[t].at = g.players[t].at
  BY <1>2, <1>3, <1>7, Zenon DEF Stays
<1> QED BY <1>1, <1>4, <1>7, <1>8, <1>9

LEMMA Decayed ==
    ASSUME NEW g, World(g)
    PROVE  Unharmed(g, _decay_expired_items(g))
<1> DEFINE kept == {i \in g.items : i.left > 0}
           items == {[item EXCEPT !.left = @ - 1] : item \in kept}
<1>1. g.items \subseteq Item
  BY DEF World, Game
<1>2. ASSUME NEW item \in kept
      PROVE  [item EXCEPT !.left = @ - 1] \in Item
  BY <1>1 DEF Item
<1>3. items \in SUBSET Item
  BY <1>2
<1>4. _decay_expired_items(g) = WithItems(g, items)
  BY DEF _decay_expired_items, WithItems
<1> QED BY <1>3, <1>4, SetLoot

\* What a beaver counts.
LEMMA Counts ==
    ASSUME NEW e \in Beaver, NEW n \in Int
    PROVE  /\ [e EXCEPT !.respawn = n] \in Beaver /\ [e EXCEPT !.aggro = n] \in Beaver
           /\ [e EXCEPT !.move_cooldown = n] \in Beaver /\ [e EXCEPT !.attack_cooldown = n] \in Beaver
           /\ [e EXCEPT !.chop_cooldown = n] \in Beaver
  BY DEF Beaver

LEMMA Newborn ==
    ASSUME NEW home \in Place
    PROVE  NewBeaver(home) \in Beaver
<1>1. EnemyHealth \in Int /\ 0 \in Int
  BY Constants
<1> QED BY <1>1 DEF NewBeaver, Beaver

LEMMA Reborn ==
    ASSUME NEW g, World(g)
    PROVE  Unharmed(g, _respawn_dead_enemies(g))
<1> DEFINE e == g.enemy
           m == e.respawn - 1
           h == _respawn_dead_enemies(g)
<1>1. g \in Game /\ e \in Beaver /\ e.home \in Place /\ m \in Int /\ 1 \in Int
  BY DEF World, Game, Beaver
<1>2. h \in {g, WithEnemy(g, [e EXCEPT !.respawn = m]), WithEnemy(g, [e EXCEPT !.respawn = 1]),
             WithEnemy(g, NewBeaver(e.home))}
  BY DEF _respawn_dead_enemies, WithEnemy
<1> HIDE DEF e, m, h
<1>3. /\ [e EXCEPT !.respawn = m] \in Beaver /\ [e EXCEPT !.respawn = 1] \in Beaver
      /\ NewBeaver(e.home) \in Beaver
  BY <1>1, Counts, Newborn
<1>4. Unharmed(g, g)
  BY DEF Unharmed
<1>5. \A b \in Beaver : Unharmed(g, WithEnemy(g, b))
  BY SetBeaver
<1> QED BY <1>2, <1>3, <1>4, <1>5 DEF h

\* One tile becomes another and is told, where there was nothing to tell yet.
Grows(g, h) ==
    \/ Still(g, h)
    \/ /\ g.tile_update = Nothing
       /\ \E p \in Place : /\ h.tile_update = <<p, h.tiles[p]>>
                           /\ \A q \in Place \ {p} : h.tiles[q] = g.tiles[q]

LEMMA GrowsTwice ==
    ASSUME NEW g, NEW h, NEW k, World(h), Grows(g, h), Grows(h, k)
    PROVE  Grows(g, k)
<1>1. CASE Still(g, h)
  BY <1>1 DEF Grows, Still
<1>2. CASE ~Still(g, h)
  <2>1. PICK p \in Place : h.tile_update = <<p, h.tiles[p]>>
    BY <1>2 DEF Grows
  <2>2. h.tiles[p] \in Tile
    BY DEF World, Game
  <2>3. h.tile_update # Nothing
    BY <2>1, <2>2, Constants
  <2>4. Still(h, k)
    BY <2>3 DEF Grows
  <2> QED BY <2>4 DEF Grows, Still
<1> QED BY <1>1, <1>2

\* Of those that are ready at most one grows: the first where nothing stands or lies.
LEMMA OneGrows ==
    ASSUME NEW g, NEW ready \in SUBSET Place, NEW p \in Grown(g, ready), NEW q \in Grown(g, ready)
    PROVE  p = q
<1>1. p \in ready /\ q \in ready /\ ~entity_at(g, p) /\ ~entity_at(g, q)
  BY DEF Grown
<1>2. ~Before(p, q) /\ ~Before(q, p)
  BY <1>1 DEF Grown
<1>3. p \in {"field", "arena", "cave"} \X Int \X Int /\ q \in {"field", "arena", "cave"} \X Int \X Int
  BY <1>1, Constants
<1> QED BY <1>2, <1>3 DEF Before

\* Herbs grow back where they were, trees where their stumps are.
LEMMA Timing ==
    ASSUME NEW ticks \in Timers
    PROVE  /\ Ticked(ticks) \in Timers
           /\ \A p \in Place : (Ticked(ticks)[p] = Nothing) <=> (ticks[p] = Nothing)
           /\ \A p \in Ready(Ticked(ticks)) : p \in Place /\ ticks[p] # Nothing
           /\ \A g : Grown(g, Ready(Ticked(ticks))) \subseteq Ready(Ticked(ticks))
           /\ \A g : \A p, q \in Grown(g, Ready(Ticked(ticks))) : p = q
           /\ \A g : PutOff(g, Ready(Ticked(ticks))) \subseteq Ready(Ticked(ticks))
<1> DEFINE down == Ticked(ticks)
<1>1. Nothing \notin Nat /\ 0 \in Nat
  BY Constants
<1>2. ASSUME NEW p \in Place
      PROVE  /\ down[p] \in Nat \cup {Nothing}
             /\ (down[p] = Nothing) <=> (ticks[p] = Nothing)
  <2>1. down[p] = IF ticks[p] = Nothing THEN Nothing ELSE Down(ticks[p])
    BY DEF Ticked
  <2>2. ticks[p] \in Nat \cup {Nothing}
    BY DEF Timers
  <2>3. CASE ticks[p] = Nothing
    BY <2>1, <2>3
  <2>4. CASE ticks[p] # Nothing
    <3>1. down[p] \in Nat
      BY <2>1, <2>2, <2>4, Counting
    <3> QED BY <1>1, <2>4, <3>1
  <2> QED BY <2>3, <2>4
<1>3. down \in Timers
  BY <1>2 DEF Ticked, Timers
<1> HIDE DEF down
<1>4. \A p \in Ready(down) : p \in Place /\ ticks[p] # Nothing
  BY <1>1, <1>2 DEF Ready
<1>5. \A g : Grown(g, Ready(down)) \subseteq Ready(down)
  BY DEF Grown
<1>6. \A g : PutOff(g, Ready(down)) \subseteq Ready(down)
  BY DEF PutOff
<1>7. \A g : \A p, q \in Grown(g, Ready(down)) : p = q
  <2>1. Ready(down) \in SUBSET Place
    BY DEF Ready
  <2> QED BY <2>1, OneGrows
<1> QED BY <1>2, <1>3, <1>4, <1>5, <1>6, <1>7 DEF down

\* The tiles up grow to be what, and the timers of those that wait run once more.
Regrown(ticks, up, wait) == [p \in Place |-> IF p \in up THEN Nothing ELSE IF p \in wait THEN 1 ELSE ticks[p]]

LEMMA Regrowing ==
    ASSUME NEW ticks \in Timers, NEW up \in SUBSET Place, NEW wait \in SUBSET Place,
           \A p \in wait : ticks[p] # Nothing
    PROVE  /\ Regrown(ticks, up, wait) \in Timers
           /\ \A p \in up : Regrown(ticks, up, wait)[p] = Nothing
           /\ \A p \in Place \ up : (Regrown(ticks, up, wait)[p] = Nothing) <=> (ticks[p] = Nothing)
<1>1. Nothing \notin Nat /\ 1 \in Nat
  BY Constants
<1>2. ASSUME NEW p \in Place
      PROVE  /\ Regrown(ticks, up, wait)[p] \in Nat \cup {Nothing}
             /\ p \in up => Regrown(ticks, up, wait)[p] = Nothing
             /\ p \notin up => ((Regrown(ticks, up, wait)[p] = Nothing) <=> (ticks[p] = Nothing))
  <2>1. Regrown(ticks, up, wait)[p] = IF p \in up THEN Nothing ELSE IF p \in wait THEN 1 ELSE ticks[p]
    BY DEF Regrown
  <2>2. ticks[p] \in Nat \cup {Nothing} /\ (p \in wait => ticks[p] # Nothing)
    BY DEF Timers
  <2> QED BY <1>1, <2>1, <2>2
<1>3. Regrown(ticks, up, wait) \in Timers
  BY <1>2 DEF Regrown, Timers
<1> QED BY <1>2, <1>3

LEMMA Told ==
    ASSUME NEW g, World(g), NEW up \in SUBSET Place, NEW what \in Tile
    PROVE  (IF up = {} THEN g.tile_update ELSE <<CHOOSE p \in up : TRUE, what>>) \in (Place \X Tile) \cup {Nothing}
<1>1. g.tile_update \in (Place \X Tile) \cup {Nothing}
  BY DEF World, Game
<1> DEFINE p == CHOOSE p \in up : TRUE
<1>2. up # {} => p \in Place
  OBVIOUS
<1> HIDE DEF p
<1> QED BY <1>1, <1>2 DEF p

LEMMA HerbsGrow ==
    ASSUME NEW g, World(g), NEW h, h = _respawn_herbs(g)
    PROVE  Passes(g, h) /\ Grows(g, h)
<1> DEFINE ticks == Ticked(g.herb_ticks)
           up == Grown(g, Ready(ticks))
           wait == PutOff(g, Ready(ticks))
           herbs == Regrown(ticks, up, wait)
           tiles == [p \in Place |-> IF p \in up THEN "herb" ELSE g.tiles[p]]
           told == IF up = {} THEN g.tile_update ELSE <<CHOOSE p \in up : TRUE, "herb">>
<1>1. /\ g \in Game /\ Growing(g.tiles, g.herb_ticks, g.tree_ticks) /\ g.tiles \in [Place -> Tile]
      /\ g.herb_ticks \in Timers /\ g.tree_ticks \in Timers
  BY DEF World, Game
<1>2. /\ ticks \in Timers /\ \A p \in Place : (ticks[p] = Nothing) <=> (g.herb_ticks[p] = Nothing)
      /\ up \in SUBSET Place /\ wait \in SUBSET Place
      /\ \A p \in up : g.herb_ticks[p] # Nothing
      /\ \A p \in wait : g.herb_ticks[p] # Nothing
      /\ \A p, q \in up : p = q
  BY <1>1, Timing
<1>3. \/ h = [g EXCEPT !.herb_ticks = ticks]
      \/ /\ g.tile_update = Nothing
         /\ h = [g EXCEPT !.herb_ticks = herbs, !.tiles = tiles, !.tile_update = told]
  BY DEF _respawn_herbs, Regrown
<1> HIDE DEF ticks, up, wait
<1>4. CASE h = [g EXCEPT !.herb_ticks = ticks]
  <2>1. /\ h \in Game /\ h.players = g.players /\ h.tiles = g.tiles /\ h.herb_ticks = ticks
        /\ h.tree_ticks = g.tree_ticks /\ h.tile_update = g.tile_update
    BY <1>1, <1>2, <1>4 DEF Game
  <2>2. Growing(g.tiles, ticks, g.tree_ticks)
    BY <1>1, <1>2 DEF Growing
  <2> QED BY <2>1, <2>2, Landed DEF Grows, Still
<1>5. CASE /\ g.tile_update = Nothing
           /\ h = [g EXCEPT !.herb_ticks = herbs, !.tiles = tiles, !.tile_update = told]
  <2>1. /\ herbs \in Timers /\ \A p \in up : herbs[p] = Nothing
        /\ \A p \in Place \ up : (herbs[p] = Nothing) <=> (ticks[p] = Nothing)
    <3>1. /\ ticks \in Timers /\ up \in SUBSET Place /\ wait \in SUBSET Place
          /\ \A p \in wait : ticks[p] # Nothing
      BY <1>2
    <3> QED BY <3>1, Regrowing
  <2>2. tiles \in [Place -> Tile] /\ \A p \in Place : tiles[p] = IF p \in up THEN "herb" ELSE g.tiles[p]
    BY <1>1 DEF Tile
  <2>3. told \in (Place \X Tile) \cup {Nothing}
    BY <1>2, Told DEF Tile
  <2> HIDE DEF herbs, tiles, told
  <2>4. /\ h \in Game /\ h.players = g.players /\ h.tiles = tiles /\ h.herb_ticks = herbs
        /\ h.tree_ticks = g.tree_ticks /\ h.tile_update = told
    BY <1>1, <2>1, <2>2, <2>3, <1>5 DEF Game
  <2>5. ASSUME NEW p \in Place
        PROVE  /\ (herbs[p] # Nothing) <=> (p \in Herbs /\ tiles[p] # "herb")
               /\ (g.tree_ticks[p] # Nothing) <=> (tiles[p] = "stump")
               /\ p \in Herbs => tiles[p] \in {"grass", "herb"}
               /\ tiles[p] = "herb" => p \in Herbs
    <3>1. CASE p \in up
      <4>1. tiles[p] = "herb" /\ herbs[p] = Nothing /\ g.herb_ticks[p] # Nothing
        BY <1>2, <2>1, <2>2, <3>1
      <4>2. p \in Herbs /\ g.tree_ticks[p] = Nothing
        BY <1>1, <4>1 DEF Growing
      <4> QED BY <4>1, <4>2
    <3>2. CASE p \notin up
      <4>1. tiles[p] = g.tiles[p] /\ ((herbs[p] = Nothing) <=> (g.herb_ticks[p] = Nothing))
        BY <1>2, <2>1, <2>2, <3>2
      <4> QED BY <1>1, <4>1 DEF Growing
    <3> QED BY <3>1, <3>2
  <2>6. Growing(tiles, herbs, g.tree_ticks)
    BY <2>5 DEF Growing
  <2>7. Grows(g, h)
    <3>1. (up = {} => told = g.tile_update) /\ \A p \in up : told = <<p, "herb">>
      BY <1>2, Zenon DEF told
    <3>2. \A p \in Place : h.tiles[p] = IF p \in up THEN "herb" ELSE g.tiles[p]
      BY <2>2, <2>4
    <3>3. CASE up = {}
      <4>1. h.tiles = g.tiles
        BY <1>1, <2>4, <3>2, <3>3 DEF Game
      <4> QED BY <2>4, <3>1, <3>3, <4>1 DEF Grows, Still
    <3>4. CASE up # {}
      <4>1. PICK p \in up : h.tile_update = <<p, "herb">>
        BY <2>4, <3>1, <3>4
      <4>2. p \in Place /\ h.tiles[p] = "herb" /\ \A q \in Place \ {p} : h.tiles[q] = g.tiles[q]
        BY <1>2, <3>2
      <4> QED BY <1>5, <4>1, <4>2 DEF Grows
    <3> QED BY <3>3, <3>4
  <2> QED BY <2>4, <2>6, <2>7, Landed
<1> QED BY <1>3, <1>4, <1>5

LEMMA TreesGrow ==
    ASSUME NEW g, World(g), NEW h, h = _respawn_trees(g)
    PROVE  Passes(g, h) /\ Grows(g, h)
<1> DEFINE ticks == Ticked(g.tree_ticks)
           up == Grown(g, Ready(ticks))
           wait == PutOff(g, Ready(ticks))
           trees == Regrown(ticks, up, wait)
           tiles == [p \in Place |-> IF p \in up THEN "full" ELSE g.tiles[p]]
           told == IF up = {} THEN g.tile_update ELSE <<CHOOSE p \in up : TRUE, "full">>
<1>1. /\ g \in Game /\ Growing(g.tiles, g.herb_ticks, g.tree_ticks) /\ g.tiles \in [Place -> Tile]
      /\ g.herb_ticks \in Timers /\ g.tree_ticks \in Timers
  BY DEF World, Game
<1>2. /\ ticks \in Timers /\ \A p \in Place : (ticks[p] = Nothing) <=> (g.tree_ticks[p] = Nothing)
      /\ up \in SUBSET Place /\ wait \in SUBSET Place
      /\ \A p \in up : g.tree_ticks[p] # Nothing
      /\ \A p \in wait : g.tree_ticks[p] # Nothing
      /\ \A p, q \in up : p = q
  BY <1>1, Timing
<1>3. \/ h = [g EXCEPT !.tree_ticks = ticks]
      \/ /\ g.tile_update = Nothing
         /\ h = [g EXCEPT !.tree_ticks = trees, !.tiles = tiles, !.tile_update = told]
  BY DEF _respawn_trees, Regrown
<1> HIDE DEF ticks, up, wait
<1>4. CASE h = [g EXCEPT !.tree_ticks = ticks]
  <2>1. /\ h \in Game /\ h.players = g.players /\ h.tiles = g.tiles /\ h.herb_ticks = g.herb_ticks
        /\ h.tree_ticks = ticks /\ h.tile_update = g.tile_update
    BY <1>1, <1>2, <1>4 DEF Game
  <2>2. Growing(g.tiles, g.herb_ticks, ticks)
    BY <1>1, <1>2 DEF Growing
  <2> QED BY <2>1, <2>2, Landed DEF Grows, Still
<1>5. CASE /\ g.tile_update = Nothing
           /\ h = [g EXCEPT !.tree_ticks = trees, !.tiles = tiles, !.tile_update = told]
  <2>1. /\ trees \in Timers /\ \A p \in up : trees[p] = Nothing
        /\ \A p \in Place \ up : (trees[p] = Nothing) <=> (ticks[p] = Nothing)
    <3>1. /\ ticks \in Timers /\ up \in SUBSET Place /\ wait \in SUBSET Place
          /\ \A p \in wait : ticks[p] # Nothing
      BY <1>2
    <3> QED BY <3>1, Regrowing
  <2>2. tiles \in [Place -> Tile] /\ \A p \in Place : tiles[p] = IF p \in up THEN "full" ELSE g.tiles[p]
    BY <1>1 DEF Tile
  <2>3. told \in (Place \X Tile) \cup {Nothing}
    BY <1>2, Told DEF Tile
  <2> HIDE DEF trees, tiles, told
  <2>4. /\ h \in Game /\ h.players = g.players /\ h.tiles = tiles /\ h.herb_ticks = g.herb_ticks
        /\ h.tree_ticks = trees /\ h.tile_update = told
    BY <1>1, <2>1, <2>2, <2>3, <1>5 DEF Game
  <2>5. ASSUME NEW p \in Place
        PROVE  /\ (g.herb_ticks[p] # Nothing) <=> (p \in Herbs /\ tiles[p] # "herb")
               /\ (trees[p] # Nothing) <=> (tiles[p] = "stump")
               /\ p \in Herbs => tiles[p] \in {"grass", "herb"}
               /\ tiles[p] = "herb" => p \in Herbs
    <3>1. CASE p \in up
      <4>1. tiles[p] = "full" /\ trees[p] = Nothing /\ g.tree_ticks[p] # Nothing
        BY <1>2, <2>1, <2>2, <3>1
      <4>2. p \notin Herbs /\ g.herb_ticks[p] = Nothing
        BY <1>1, <4>1 DEF Growing
      <4> QED BY <4>1, <4>2
    <3>2. CASE p \notin up
      <4>1. tiles[p] = g.tiles[p] /\ ((trees[p] = Nothing) <=> (g.tree_ticks[p] = Nothing))
        BY <1>2, <2>1, <2>2, <3>2
      <4> QED BY <1>1, <4>1 DEF Growing
    <3> QED BY <3>1, <3>2
  <2>6. Growing(tiles, g.herb_ticks, trees)
    BY <2>5 DEF Growing
  <2>7. Grows(g, h)
    <3>1. (up = {} => told = g.tile_update) /\ \A p \in up : told = <<p, "full">>
      BY <1>2, Zenon DEF told
    <3>2. \A p \in Place : h.tiles[p] = IF p \in up THEN "full" ELSE g.tiles[p]
      BY <2>2, <2>4
    <3>3. CASE up = {}
      <4>1. h.tiles = g.tiles
        BY <1>1, <2>4, <3>2, <3>3 DEF Game
      <4> QED BY <2>4, <3>1, <3>3, <4>1 DEF Grows, Still
    <3>4. CASE up # {}
      <4>1. PICK p \in up : h.tile_update = <<p, "full">>
        BY <2>4, <3>1, <3>4
      <4>2. p \in Place /\ h.tiles[p] = "full" /\ \A q \in Place \ {p} : h.tiles[q] = g.tiles[q]
        BY <1>2, <3>2
      <4> QED BY <1>5, <4>1, <4>2 DEF Grows
    <3> QED BY <3>3, <3>4
  <2> QED BY <2>4, <2>6, <2>7, Landed
<1> QED BY <1>3, <1>4, <1>5

\* What is felled is no herb, and what is left a stump is timed.
LEMMA Felled ==
    ASSUME NEW g, World(g), NEW place, tile(g, place) \in DOMAIN Chopped, g.tile_update = Nothing,
           NEW h, h = chop_tree_if_present(g, place)
    PROVE  Passes(g, h) /\ Grows(g, h)
<1> DEFINE left == Chopped[tile(g, place)]
           tiles == [g.tiles EXCEPT ![place] = left]
           told == <<place, left>>
           trees == [g.tree_ticks EXCEPT ![place] = IF left = "stump" THEN Regrowth ELSE g.tree_ticks[place]]
<1>1. /\ g \in Game /\ Growing(g.tiles, g.herb_ticks, g.tree_ticks) /\ g.tiles \in [Place -> Tile]
      /\ g.herb_ticks \in Timers /\ g.tree_ticks \in Timers
  BY DEF World, Game
<1>2. tile(g, place) \in {"full", "damaged"}
  BY DEF Chopped
<1>3. place \in Place /\ g.tiles[place] \in {"full", "damaged"} /\ tile(g, place) = g.tiles[place]
  BY <1>2 DEF tile, Beyond
<1>4. left = IF g.tiles[place] = "full" THEN "damaged" ELSE "stump"
  BY <1>3 DEF Chopped
<1>5. place \notin Herbs /\ g.tree_ticks[place] = Nothing /\ g.herb_ticks[place] = Nothing
  BY <1>1, <1>3 DEF Growing
<1>6. h = [g EXCEPT !.tiles = tiles, !.tile_update = told, !.tree_ticks = trees]
  BY DEF chop_tree_if_present
<1> HIDE DEF left
<1>7. Regrowth \in Nat /\ Nothing \notin Nat
  BY Constants
<1>8. tiles \in [Place -> Tile] /\ trees \in Timers /\ told \in (Place \X Tile) \cup {Nothing}
  <2>1. left \in Tile
    BY <1>4 DEF Tile
  <2>2. (IF left = "stump" THEN Regrowth ELSE g.tree_ticks[place]) \in Nat \cup {Nothing}
    BY <1>5, <1>7
  <2> QED BY <1>1, <1>3, <2>1, <2>2 DEF Timers
<1>9. ASSUME NEW p \in Place
      PROVE  /\ (g.herb_ticks[p] # Nothing) <=> (p \in Herbs /\ tiles[p] # "herb")
             /\ (trees[p] # Nothing) <=> (tiles[p] = "stump")
             /\ p \in Herbs => tiles[p] \in {"grass", "herb"}
             /\ tiles[p] = "herb" => p \in Herbs
  <2>1. CASE p = place
    <3>1. tiles[p] = left /\ trees[p] = IF left = "stump" THEN Regrowth ELSE Nothing
      BY <1>1, <1>5, <2>1 DEF Timers
    <3> QED BY <1>4, <1>5, <1>7, <2>1, <3>1
  <2>2. CASE p # place
    <3>1. tiles[p] = g.tiles[p] /\ trees[p] = g.tree_ticks[p]
      BY <1>1, <2>2 DEF Timers
    <3> QED BY <1>1, <3>1 DEF Growing
  <2> QED BY <2>1, <2>2
<1>10. Growing(tiles, g.herb_ticks, trees)
  BY <1>9 DEF Growing
<1> HIDE DEF tiles, trees, told
<1>11. /\ h \in Game /\ h.players = g.players /\ h.tiles = tiles /\ h.herb_ticks = g.herb_ticks
       /\ h.tree_ticks = trees /\ h.tile_update = told
  BY <1>1, <1>6, <1>8 DEF Game
<1>12. h.tile_update = <<place, h.tiles[place]>> /\ \A q \in Place \ {place} : h.tiles[q] = g.tiles[q]
  BY <1>1, <1>3, <1>11 DEF tiles, told
<1> QED BY <1>3, <1>10, <1>11, <1>12, Landed DEF Grows

LEMMA UnharmedTwice ==
    ASSUME NEW g, NEW h, NEW k, Unharmed(g, h), Passes(h, k), World(g)
    PROVE  Passes(g, k) /\ (Grows(h, k) => Grows(g, k))
<1>1. Passes(g, k)
  BY UnharmedPasses, PassesTwice DEF Unharmed
<1>2. World(h) /\ Grows(g, h)
  BY DEF Unharmed, Grows, Still
<1> QED BY <1>1, <1>2, GrowsTwice

LEMMA Chops ==
    ASSUME NEW g, World(g), CanChop(g)
    PROVE  Passes(g, _try_chop(g)) /\ Grows(g, _try_chop(g))
<1> DEFINE e == [g.enemy EXCEPT !.chop_cooldown = Pause]
           h == WithEnemy(g, e)
           cells == Neighbours(g.enemy.at)
           trees == {i \in 1..4 : tile(g, cells[i]) \in DOMAIN Chopped}
           first == CHOOSE i \in trees : \A j \in trees : i <= j
<1>1. Pause \in Int /\ g.enemy \in Beaver
  BY Constants DEF World, Game
<1>2. Unharmed(g, h) /\ World(h)
  BY <1>1, Counts, SetBeaver DEF Unharmed
<1>3. first \in trees
  <2>1. trees \in SUBSET Nat /\ trees # {}
    BY DEF CanChop
  <2> HIDE DEF trees
  <2>2. \E i \in trees : \A j \in trees : i <= j
    BY <2>1, Smallest
  <2> QED BY <2>2
<1>4. tile(g, cells[first]) \in DOMAIN Chopped
  <2> HIDE DEF first, cells
  <2> QED BY <1>3
<1>5. _try_chop(g) = chop_tree_if_present(h, cells[first])
  BY DEF _try_chop, WithEnemy
<1> HIDE DEF cells, first, h
<1>6. tile(h, cells[first]) \in DOMAIN Chopped /\ h.tile_update = Nothing
  BY <1>2, <1>4 DEF tile, Unharmed, CanChop
<1>7. Passes(h, _try_chop(g)) /\ Grows(h, _try_chop(g))
  BY <1>2, <1>5, <1>6, Felled
<1> QED BY <1>2, <1>7, UnharmedTwice

LEMMA Stalks ==
    ASSUME NEW g, World(g), NEW whim
    PROVE  Passes(g, _move_enemies(g, whim)) /\ Grows(g, _move_enemies(g, whim))
<1> DEFINE n == Down(g.enemy.aggro)
           e == [g.enemy EXCEPT !.aggro = n]
           h == WithEnemy(g, e)
           m == Down(e.chop_cooldown)
           f == [e EXCEPT !.chop_cooldown = m]
           k == WithEnemy(h, f)
           rest == IF h.tile_update = Nothing THEN k ELSE h
           b == rest.enemy
           t == CHOOSE u \in _nearest_live_player(h) : TRUE
           aim == _enemy_direction(h, t, whim)
           to == Put(h.enemy.at, aim[1], aim[2])
           moves == enemy_can_enter(h, to) /\ ~player_at(h, to)
           p == b.move_cooldown - 1
           x == [b EXCEPT !.move_cooldown = p]
           y == [b EXCEPT !.move_cooldown = Pause]
           z == [y EXCEPT !.at = IF moves THEN to ELSE y.at]
           r == _move_enemies(g, whim)
<1>1. g \in Game /\ g.enemy \in Beaver /\ n \in Int
  BY Counting DEF World, Game, Beaver
<1>2. e \in Beaver
  <2> HIDE DEF n
  <2> QED BY <1>1, Counts
<1>3. Unharmed(g, h) /\ World(h) /\ h.enemy = e
  BY <1>2, SetBeaver DEF Unharmed
<1>4. m \in Int
  BY <1>2, Counting DEF Beaver
<1>5. f \in Beaver
  <2> HIDE DEF e, m
  <2> QED BY <1>2, <1>4, Counts
<1>6. Unharmed(h, k) /\ k.enemy = f
  <2> HIDE DEF h, f
  <2> QED BY <1>3, <1>5, SetBeaver
<1>7. /\ h = [g EXCEPT !.enemy.aggro = Down(@)]
      /\ k = [h EXCEPT !.enemy.chop_cooldown = Down(@)]
  BY <1>3 DEF WithEnemy
<1>8. \/ r \in {g, h}
      \/ CanChop(h) /\ r = _try_chop(h)
      \/ r = [rest EXCEPT !.enemy.move_cooldown = @ - 1]
      \/ r = [rest EXCEPT !.enemy.move_cooldown = Pause, !.enemy.at = IF moves THEN to ELSE @]
  <2> DEFINE h1 == [g EXCEPT !.enemy.aggro = Down(@)]
             k1 == [h1 EXCEPT !.enemy.chop_cooldown = Down(@)]
             rest1 == IF h1.tile_update = Nothing THEN k1 ELSE h1
             t1 == CHOOSE u \in _nearest_live_player(h1) : TRUE
             aim1 == _enemy_direction(h1, t1, whim)
             to1 == Put(h1.enemy.at, aim1[1], aim1[2])
             moves1 == enemy_can_enter(h1, to1) /\ ~player_at(h1, to1)
             step1 == [rest1 EXCEPT !.enemy.move_cooldown = @ - 1]
             go1 == [rest1 EXCEPT !.enemy.move_cooldown = Pause, !.enemy.at = IF moves1 THEN to1 ELSE @]
  <2>1. r = IF ~Live(g) THEN g
            ELSE IF _nearest_live_player(h1) = {} \/ Distance(h1.enemy.at, h1.players[t1].at) <= 1 THEN h1
            ELSE IF CanChop(h1) THEN _try_chop(h1)
            ELSE IF h1.enemy.move_cooldown > 0 THEN step1 ELSE go1
    BY DEF _move_enemies
  <2>2. h1 = h /\ k1 = k
    <3>1. h1 = h
      BY <1>7
    <3> HIDE DEF h1, h
    <3> QED BY <1>7, <3>1
  <2> HIDE DEF h1, h, k1, k
  <2>3. step1 = [rest EXCEPT !.enemy.move_cooldown = @ - 1]
    BY <2>2
  <2>4. go1 = [rest EXCEPT !.enemy.move_cooldown = Pause, !.enemy.at = IF moves THEN to ELSE @]
    BY <2>2
  <2> HIDE DEF step1, go1, r
  <2> QED BY <2>1, <2>2, <2>3, <2>4
<1> HIDE DEF r, h, e
<1>9. Passes(g, g) /\ Passes(g, h) /\ Grows(g, g) /\ Grows(g, h)
  BY <1>3, Nobody, UnharmedPasses DEF Unharmed, Grows, Still
<1>10. CASE r \in {g, h}
  BY <1>9, <1>10 DEF r
<1>11. CASE CanChop(h) /\ r = _try_chop(h)
  BY <1>3, <1>11, Chops, UnharmedTwice DEF r
<1>12. rest \in {h, k}
  OBVIOUS
<1> HIDE DEF k, f, rest
<1>13. World(rest) /\ Unharmed(g, rest) /\ b \in Beaver /\ rest \in Game
  BY <1>3, <1>6, <1>12 DEF Unharmed, World, Game
<1> HIDE DEF b, to, moves
<1>14. CASE r = [rest EXCEPT !.enemy.move_cooldown = @ - 1]
  <2>1. r = WithEnemy(rest, x)
    BY <1>14 DEF WithEnemy, b
  <2>2. p \in Int
    BY <1>13 DEF Beaver
  <2> HIDE DEF p
  <2>3. x \in Beaver
    BY <1>13, <2>2, Counts
  <2> HIDE DEF x
  <2>4. Passes(rest, r) /\ Grows(rest, r)
    BY <1>13, <2>1, <2>3, SetBeaver, UnharmedPasses DEF Unharmed, Grows, Still
  <2> QED BY <1>13, <2>4, UnharmedTwice DEF r
<1>15. CASE r = [rest EXCEPT !.enemy.move_cooldown = Pause, !.enemy.at = IF moves THEN to ELSE @]
  <2>1. y \in Beaver
    <3>1. Pause \in Int
      BY Constants
    <3> QED BY <1>13, <3>1, Counts
  <2>2. z \in Beaver
    <3>1. moves => to \in Place
      BY Enterable DEF moves
    <3>2. (IF moves THEN to ELSE y.at) \in Place
      BY <2>1, <3>1 DEF Beaver
    <3> HIDE DEF y
    <3> QED BY <2>1, <3>2 DEF Beaver
  <2>3. r = WithEnemy(rest, z)
    <3>1. [rest EXCEPT !.enemy.move_cooldown = Pause] = WithEnemy(rest, y)
      BY DEF WithEnemy, b
    <3>2. WithEnemy(rest, y).enemy = y
      BY <1>13, <2>1, SetBeaver
    <3>3. r = [WithEnemy(rest, y) EXCEPT !.enemy.at = IF moves THEN to ELSE @]
      BY <1>15, <3>1, ZenonT(60)
    <3> HIDE DEF y
    <3>4. r = WithEnemy(WithEnemy(rest, y), z)
      BY <3>2, <3>3 DEF WithEnemy
    <3> QED BY <1>13, <3>4 DEF WithEnemy, Game
  <2> HIDE DEF z
  <2>4. Passes(rest, r) /\ Grows(rest, r)
    BY <1>13, <2>2, <2>3, SetBeaver, UnharmedPasses DEF Unharmed, Grows, Still
  <2> QED BY <1>13, <2>4, UnharmedTwice DEF r
<1> QED BY <1>8, <1>10, <1>11, <1>14, <1>15

LEMMA Bitten ==
    ASSUME NEW g, World(g)
    PROVE  Passes(g, _apply_enemy_contact_damage(g)) /\ Grows(g, _apply_enemy_contact_damage(g))
<1> DEFINE target == _nearest_live_player(g)
           t == CHOOSE u \in target : TRUE
           n == g.enemy.attack_cooldown - 1
           x == [g.enemy EXCEPT !.attack_cooldown = n]
           y == [g.enemy EXCEPT !.attack_cooldown = Pause]
           h == WithEnemy(g, y)
           r == _apply_enemy_contact_damage(g)
<1>1. g.enemy \in Beaver /\ n \in Int /\ Pause \in Int
  BY Constants DEF World, Game, Beaver
<1>2. x \in Beaver /\ y \in Beaver
  <2> HIDE DEF n
  <2> QED BY <1>1, Counts
<1>3. r \in {g, WithEnemy(g, x)} \/ (target # {} /\ r = Hurt(h, t))
  BY DEF _apply_enemy_contact_damage, WithEnemy
<1>4. target # {} => t \in Token /\ ~_transition_protected(g.players[t])
  <2>1. \A u \in target : u \in Token /\ ~_transition_protected(g.players[u])
    BY DEF _nearest_live_player
  <2> HIDE DEF target
  <2> QED BY <2>1
<1> HIDE DEF x, y, r, t, target
<1>5. CASE r \in {g, WithEnemy(g, x)}
  BY <1>2, <1>5, Nobody, SetBeaver, UnharmedPasses DEF r, Unharmed, Grows, Still
<1>6. CASE target # {} /\ r = Hurt(h, t)
  <2>1. Unharmed(g, h) /\ World(h) /\ h.players = g.players
    BY <1>2, SetBeaver DEF Unharmed
  <2> HIDE DEF h
  <2>2. Passes(h, r) /\ Grows(h, r)
    BY <1>4, <1>6, <2>1, Hurts DEF Grows
  <2> QED BY <2>1, <2>2, UnharmedTwice DEF r
<1> QED BY <1>3, <1>5, <1>6

LEMMA Finished ==
    ASSUME NEW g, World(g), NEW whim
    PROVE  Passes(g, finish_tick(g, whim)) /\ Grows(g, finish_tick(g, whim))
<1> DEFINE a == _decay_expired_items(g)
           b == _respawn_dead_enemies(a)
           c == _respawn_herbs(b)
           d == _respawn_trees(c)
           e == _move_enemies(d, whim)
           f == _apply_enemy_contact_damage(e)
<1>1. Passes(g, a) /\ World(a) /\ Grows(g, a)
  BY Decayed, UnharmedPasses DEF Unharmed, Grows, Still
<1> HIDE DEF a
<1>2. Passes(a, b) /\ World(b) /\ Grows(a, b)
  BY <1>1, Reborn, UnharmedPasses DEF Unharmed, Grows, Still
<1> HIDE DEF b
<1>3. Passes(b, c) /\ World(c) /\ Grows(b, c)
  BY <1>2, HerbsGrow DEF Passes
<1> HIDE DEF c
<1>4. Passes(c, d) /\ World(d) /\ Grows(c, d)
  BY <1>3, TreesGrow DEF Passes
<1> HIDE DEF d
<1>5. Passes(d, e) /\ World(e) /\ Grows(d, e)
  BY <1>4, Stalks DEF Passes
<1> HIDE DEF e
<1>6. Passes(e, f) /\ World(f) /\ Grows(e, f)
  BY <1>5, Bitten DEF Passes
<1>7. finish_tick(g, whim) = f
  BY DEF finish_tick, a, b, c, d, e
<1> HIDE DEF f
<1>8. Passes(g, c) /\ Grows(g, c)
  BY <1>1, <1>2, <1>3, PassesTwice, GrowsTwice
<1>9. Passes(c, f) /\ Grows(c, f)
  BY <1>3, <1>4, <1>5, <1>6, PassesTwice, GrowsTwice
<1> QED BY <1>1, <1>3, <1>7, <1>8, <1>9, PassesTwice, GrowsTwice

-----------------------------------------------------------------------------
(* The specification.                                                       *)

\* The reports are reports and the world is one.
Invariant == World(v) /\ latest \in [Token -> Report \cup {Nothing}]

LEMMA Beginning ==
    ASSUME Init
    PROVE  Invariant
<1> DEFINE shared(t) == \E u \in Token \ {t} : budget.start[u] = budget.start[t]
           p == [t \in Token |-> NewPlayer(budget.start[t], shared(t))]
           none == [place \in Place |-> Nothing]
<1>1. budget.start \in [Token -> Place] /\ budget.den \in Place
  BY CombatAssumption DEF Init
<1>2. ASSUME NEW t \in Token
      PROVE  p[t] \in Player /\ Chosen(p[t]) /\ p[t].at = budget.start[t] /\ p[t].placed = shared(t)
  <2>1. MaxHealth \in Int /\ 0 \in Int /\ budget.start[t] \in Place
    BY <1>1, Constants
  <2>2. p[t] = NewPlayer(budget.start[t], shared(t)) /\ shared(t) \in BOOLEAN
    OBVIOUS
  <2>3. map_forces_pvp(budget.start[t]) \in BOOLEAN
    BY DEF map_forces_pvp
  <2> HIDE DEF p, shared
  <2> QED BY <2>1, <2>2, <2>3 DEF NewPlayer, Player, Chosen
<1>3. p \in [Token -> Player]
  BY <1>2
<1>4. Spaced(p)
  <2> HIDE DEF p
  <2> QED BY <1>2 DEF Spaced
<1>5. none \in Timers /\ \A place \in Place : none[place] = Nothing
  BY DEF Timers
<1>6. Layout \in [Place -> Tile]
  BY Constants DEF Tile
<1>7. Growing(Layout, none, none)
  <2>1. ASSUME NEW place \in Place
        PROVE  /\ (none[place] # Nothing) <=> (place \in Herbs /\ Layout[place] # "herb")
               /\ (none[place] # Nothing) <=> (Layout[place] = "stump")
               /\ place \in Herbs => Layout[place] \in {"grass", "herb"}
               /\ Layout[place] = "herb" => place \in Herbs
    <3>1. Layout[place] \in {"grass", "herb", "full", "wall"}
      BY Constants
    <3> QED BY <1>5, <3>1 DEF Herbs
  <2> QED BY <2>1 DEF Growing
<1>8. NewBeaver(budget.den) \in Beaver
  BY <1>1, Newborn
<1>9. v = [players |-> p, enemy |-> NewBeaver(budget.den), tiles |-> Layout, items |-> {},
           tile_update |-> Nothing, herb_ticks |-> none, tree_ticks |-> none]
  BY DEF Init
<1> HIDE DEF p, none
<1>10. v \in Game
  BY <1>3, <1>5, <1>6, <1>8, <1>9 DEF Game
<1>11. World(v)
  BY <1>2, <1>4, <1>7, <1>9, <1>10 DEF World
<1>12. latest \in [Token -> Report \cup {Nothing}]
  BY DEF Init
<1> QED BY <1>11, <1>12 DEF Invariant

\* What a tick does to each player.
Safe(from, to) ==
    /\ _transition_protected(from) => to.health >= from.health
    /\ from.placed /\ (from.loading \/ from.correction > 0) => to.placed

\* What a tick does to the land: herbs are eaten, and then one tile more may change.
Tilled(g, h) == \E r : World(r) /\ Grazed(g, r) /\ Grows(r, h)

LEMMA Ticking ==
    ASSUME Invariant, Tick
    PROVE  /\ Invariant' /\ Tilled(begin_tick(v), v')
           /\ \A t \in Token : Own(begin_tick(v).players[t], v'.players[t])
           /\ \A t \in Token : latest[t] # Nothing => Acked(v'.players[t], latest[t]) = v'.players[t]
           /\ \A t \in Token : Safe(begin_tick(v).players[t], v'.players[t])
<1> DEFINE g == begin_tick(v)
<1>1. PICK drops \in Drops(v) : \E whim \in Whims(ApplyAll(g, drops)) : v' = finish_tick(ApplyAll(g, drops), whim)
  BY DEF Tick
<1> DEFINE r == ApplyAll(g, drops)
<1>2. PICK whim : v' = finish_tick(r, whim)
  BY <1>1
<1>3. World(g)
  BY Begun DEF Invariant
<1>4. drops \in Loot
  BY DEF Drops, Loot
<1> HIDE DEF g
<1>5. Round(g, r, Len(Order))
  BY <1>3, <1>4, Rounds DEF Invariant
<1> HIDE DEF r
<1>6. World(r)
  BY <1>5 DEF Round
<1>7. Passes(r, v') /\ Grows(r, v')
  BY <1>2, <1>6, Finished
<1>8. World(v') /\ latest' = latest
  BY <1>7 DEF Passes, Tick
<1>11. Invariant'
  BY <1>8 DEF Invariant
<1>12. Tilled(g, v')
  BY <1>5, <1>6, <1>7 DEF Round, Tilled
<1>10. ASSUME NEW t \in Token
       PROVE  /\ latest[t] # Nothing => Acked(v'.players[t], latest[t]) = v'.players[t]
              /\ Safe(g.players[t], v'.players[t]) /\ Own(g.players[t], v'.players[t])
  <2> DEFINE a == g.players[t]
             b == r.players[t]
             c == v'.players[t]
             s == latest[t]
  <2>1. a \in Player /\ b \in Player /\ c \in Player
    BY <1>3, <1>6, <1>8 DEF World, Game
  <2>2. \E j \in 1..Len(Order) : Order[j] = t
    BY CombatAssumption
  <2>3. Own(a, b) /\ (Held(a) => b.placed) /\ (s # Nothing => Heard(b, s))
    BY <1>5, <2>2 DEF Round
  <2>4. Bystander(b, c)
    BY <1>7 DEF Passes
  <2> HIDE DEF a, b, c, s
  <2>5. Own(b, c) /\ (b.placed => c.placed) /\ (Heard(b, s) => Heard(c, s))
    BY <2>1, <2>4, BystanderKept
  <2>6. Own(a, c) /\ (Held(a) => c.placed)
    BY <2>1, <2>3, <2>5, OwnTwice
  <2>7. Safe(a, c)
    BY <2>6 DEF Safe, Own, Held
  <2>8. s # Nothing => Acked(c, s) = c
    <3>1. Heard(c, s) => Acked(c, s) = c
      BY <2>1 DEF Heard, Acked, Player
    <3> QED BY <2>3, <2>5, <3>1
  <2> QED BY <2>6, <2>7, <2>8 DEF a, c, s
<1> QED BY <1>10, <1>11, <1>12 DEF g

LEMMA Receiving ==
    ASSUME Invariant, NEW t \in Token, Receive(t)
    PROVE  Invariant'
<1> DEFINE last == IF latest[t] = Nothing THEN Idle ELSE latest[t]
           Sent(press, xy, facing) == [Pressed(last, press) EXCEPT !.x = xy[1], !.y = xy[2], !.facing = facing]
<1>1. PICK press \in {"none", "fire", "pickup", "toggle"}, xy \in Reported(t), facing \in Aim :
        /\ press # "fire" => facing = last.facing
        /\ Put(v.players[t].at, facing[1], facing[2]) \in Place
        /\ budget.packets[t] > 0
        /\ press # "none" => budget[press] > 0
        /\ Sent(press, xy, facing) # last
        /\ latest' = [latest EXCEPT ![t] = Sent(press, xy, facing)]
        /\ budget' = IF press = "none" THEN [budget EXCEPT !.packets[t] = @ - 1]
                     ELSE [budget EXCEPT !.packets[t] = @ - 1, ![press] = @ - 1]
        /\ ticked' = FALSE
        /\ UNCHANGED v
  BY Zenon DEF Receive
<1> DEFINE k == Pressed(last, press)
           s == [k EXCEPT !.x = xy[1], !.y = xy[2], !.facing = facing]
<1>2. Idle \in Report
  <2>1. <<1, 0>> \in Aim
    BY DEF Aim
  <2> QED BY <2>1 DEF Idle, Report
<1>3. last \in Report
  BY <1>2 DEF Invariant
<1> HIDE DEF last
<1>4. k \in Report
  <2> DEFINE f == IF press = "fire" THEN 1 - last.fire ELSE last.fire
             p == IF press = "pickup" THEN 1 - last.pickup ELSE last.pickup
             o == IF press = "toggle" THEN 1 - last.toggle ELSE last.toggle
             m == press = "fire"
  <2>1. f \in {0, 1} /\ p \in {0, 1} /\ o \in {0, 1} /\ m \in BOOLEAN
    BY <1>3 DEF Report
  <2>2. k = [last EXCEPT !.fire = f, !.pickup = p, !.toggle = o, !.buttons = m]
    BY <1>3 DEF Pressed, Report
  <2> HIDE DEF f, p, o, m, k
  <2>3. [last EXCEPT !.fire = f, !.pickup = p] \in Report
    BY <1>3, <2>1 DEF Report
  <2>4. k = [[last EXCEPT !.fire = f, !.pickup = p] EXCEPT !.toggle = o, !.buttons = m]
    BY <2>2
  <2> QED BY <2>1, <2>3, <2>4 DEF Report
<1>5. xy[1] \in Int /\ xy[2] \in Int
  BY Constants DEF Reported, Invariant, Report
<1> HIDE DEF k
<1>6. s \in Report
  BY <1>4, <1>5 DEF Report
<1> HIDE DEF s
<1>7. latest' = [latest EXCEPT ![t] = s] /\ v' = v
  BY <1>1 DEF s, k, last
<1> QED BY <1>6, <1>7 DEF Invariant

LEMMA Seeing ==
    ASSUME Invariant, NEW t \in Token, mark_player_map_ready(t)
    PROVE  Invariant'
<1> DEFINE a == v.players[t]
           q == [a EXCEPT !.loading = FALSE, !.grace = Grace]
<1>1. World(v) /\ a \in Player /\ Grace \in Int
  BY Constants DEF Invariant, World, Game
<1>2. v' = [v EXCEPT !.players[t].loading = FALSE, !.players[t].grace = Grace] /\ latest' = latest
  BY DEF mark_player_map_ready
<1>3. v' = With(v, t, q)
  BY <1>1, <1>2 DEF With, World, Game
<1> HIDE DEF a
<1>4. q \in Player /\ Stays(a, q) /\ q.pvp = a.pvp /\ q.chose = a.chose
  BY <1>1 DEF Player, Stays
<1> HIDE DEF q
<1>5. World(v')
  BY <1>1, <1>3, <1>4, SetTimers DEF Becomes, a
<1> QED BY <1>2, <1>5 DEF Invariant

\* The worlds of the program: every player, beaver, item, tile and timer is one, and
\* of the four parts of it each needs the others in a tick (begin_tick,
\* apply_player_state, finish_tick, mark_player_map_ready).
THEOREM InvariantAlways == Spec => []Invariant
<1>1. Init => Invariant
  BY Beginning
<1>2. Invariant /\ [Next]_vars => Invariant'
  <2> SUFFICES ASSUME Invariant, [Next]_vars PROVE Invariant'
    OBVIOUS
  <2>1. CASE Tick
    BY <2>1, Ticking
  <2>2. ASSUME NEW t \in Token, Receive(t) PROVE Invariant'
    BY <2>2, Receiving
  <2>3. ASSUME NEW t \in Token, mark_player_map_ready(t) PROVE Invariant'
    BY <2>3, Seeing
  <2>4. CASE UNCHANGED vars
    BY <2>4 DEF Invariant, vars
  <2> QED BY <2>1, <2>2, <2>3, <2>4 DEF Next
<1> QED BY <1>1, <1>2, PTL DEF Spec

\* Two players stand in one cell only where one of them was put by a gate, a grave or
\* the start, on every map and for every number of players
\* (_player_destination_allowed, _apply_transition_if_present, handle_player_death).
THEOREM NoStackingAlways == Spec => []NoStacking
<1>1. Invariant => NoStacking
  BY DEF Invariant, World, Spaced, NoStacking
<1> QED BY <1>1, InvariantAlways, PTL

\* PvP is on in the arena and outside it for those only who have asked for it since
\* (_apply_map_pvp_policy at every gate and grave, _apply_player_state_pvp_toggle).
THEOREM PvpByChoiceAlways == Spec => []PvpByChoice
<1>1. Invariant => PvpByChoice
  BY DEF Invariant, World, Chosen, PvpByChoice
<1> QED BY <1>1, InvariantAlways, PTL

\* What is eaten or felled has a timer, and nothing else (consume_herb_if_present,
\* chop_tree_if_present, _respawn_herbs, _respawn_trees).
THEOREM RegrowsAlways == Spec => []Regrows
<1>1. Invariant => Regrows
  BY DEF Invariant, World, Growing, Regrows
<1> QED BY <1>1, InvariantAlways, PTL

\* No step but a tick is taken for one.
LEMMA Stepping ==
    ASSUME Invariant, [Next]_vars
    PROVE  Tick \/ ~ticked' \/ UNCHANGED vars
<1>1. ASSUME NEW t \in Token, Receive(t) PROVE ticked' = FALSE
  BY <1>1, Zenon DEF Receive
<1>2. ASSUME NEW t \in Token, mark_player_map_ready(t) PROVE ticked' = FALSE
  BY <1>2 DEF mark_player_map_ready
<1> QED BY <1>1, <1>2 DEF Next

\* After a tick no press of any client is pending: fire, pickup, toggle and buttons of
\* each are those of his latest report, whichever way it went
\* (apply_player_state, _discard_player_state_inputs).
THEOREM EdgesSettledAlways == Spec => EdgesSettled
<1> DEFINE Settled == ticked' => \A t \in Token :
                        latest[t] # Nothing => Acked(v'.players[t], latest[t]) = v'.players[t]
<1>1. ASSUME Invariant, [Next]_vars PROVE [Settled]_vars
  <2>1. Tick => Settled
    BY <1>1, Ticking
  <2> QED BY <1>1, <2>1, Stepping
<1>2. Spec => [][Settled]_vars
  <2> HIDE DEF Settled
  <2> QED BY <1>1, InvariantAlways, PTL DEF Spec
<1> QED BY <1>2 DEF EdgesSettled

\* Nobody is hurt in a tick that begins before he has seen where he came out, and no
\* report moves whom a gate or a grave has put somewhere while the correction lasts
\* (_transition_protected, _damage_player, _nearest_live_player, apply_player_state).
THEOREM SafeArrivalAlways == Spec => SafeArrival
<1> DEFINE Arrived == ticked' => \A t \in Token :
                        LET from == begin_tick(v).players[t]
                            to == v'.players[t]
                        IN  /\ _transition_protected(from) => to.health >= from.health
                            /\ from.placed /\ (from.loading \/ from.correction > 0) => to.placed
<1>1. ASSUME Invariant, [Next]_vars PROVE [Arrived]_vars
  <2>1. Tick => Arrived
    BY <1>1, Ticking DEF Safe
  <2> QED BY <1>1, <2>1, Stepping
<1>2. Spec => [][Arrived]_vars
  <2> HIDE DEF Arrived
  <2> QED BY <1>1, InvariantAlways, PTL DEF Spec
<1> QED BY <1>2 DEF SafeArrival

-----------------------------------------------------------------------------
(* What is told.                                                            *)

\* A tick changes no tile, or one, and tells it, or eats herbs, and tells one of
\* those.
ToldOf(p) ==
    /\ v'.tile_update = <<p, v'.tiles[p]>>
    /\ \/ \A q \in Place \ {p} : v'.tiles[q] = v.tiles[q]
       \/ Grazing(p) /\ \A q \in Place : v'.tiles[q] = v.tiles[q] \/ Grazing(q)

LEMMA OneTold ==
    ASSUME Invariant, Tick
    PROVE  \/ v'.tiles = v.tiles /\ v'.tile_update = Nothing
           \/ \E p \in Place : ToldOf(p)
<1> DEFINE g == begin_tick(v)
<1>1. Tilled(g, v') /\ g.tiles = v.tiles /\ g.tile_update = Nothing
  BY Ticking, Begun DEF Invariant
<1> HIDE DEF g
<1>2. PICK r : World(r) /\ Grazed(g, r) /\ Grows(r, v')
  BY <1>1 DEF Tilled
<1>3. CASE Still(g, r)
  BY <1>1, <1>2, <1>3 DEF Still, Grows, ToldOf
<1>4. CASE ~Still(g, r)
  <2>1. PICK p \in Place : v.tiles[p] = "herb" /\ r.tiles[p] = "grass" /\ r.tile_update = <<p, "grass">>
    BY <1>1, <1>2, <1>4 DEF Grazed
  <2>2. r.tile_update # Nothing
    BY <2>1, Constants DEF Tile
  <2>3. v'.tiles = r.tiles /\ v'.tile_update = r.tile_update
    BY <1>2, <2>2 DEF Grows, Still
  <2>4. \A q \in Place : v'.tiles[q] = v.tiles[q] \/ Grazing(q)
    BY <1>1, <1>2, <2>3 DEF Grazed, Grazing
  <2> QED BY <2>1, <2>3, <2>4 DEF ToldOf, Grazing
<1> QED BY <1>3, <1>4

\* What the snapshot of a player says is so.
LEMMA Honest ==
    ASSUME Invariant, Tick, NEW t \in Token, NEW window,
           NEW told, told = _snapshot_tile_update(v', t, window), told # Nothing
    PROVE  told[1][1] = v'.players[t].at[1] /\ v'.tiles[told[1]] = told[2]
<1> DEFINE at == v'.players[t].at
           up == v'.tile_update
<1>1. (told = up /\ up # Nothing /\ up[1][1] = at[1]) \/ (told = <<at, "herb">> /\ v'.tiles[at] = "herb")
  BY DEF _snapshot_tile_update
<1>2. up # Nothing => v'.tiles[up[1]] = up[2]
  <2>1. ASSUME NEW p, ToldOf(p)
        PROVE  v'.tiles[up[1]] = up[2]
    <3>1. up = <<p, v'.tiles[p]>>
      BY <2>1 DEF ToldOf
    <3> HIDE DEF up
    <3> QED BY <3>1
  <2> QED BY <2>1, OneTold
<1> HIDE DEF at, up
<1>3. CASE told = up /\ up # Nothing /\ up[1][1] = at[1]
  BY <1>2, <1>3 DEF at
<1>4. CASE told = <<at, "herb">> /\ v'.tiles[at] = "herb"
  BY <1>4 DEF at
<1> QED BY <1>1, <1>3, <1>4

\* What a tick has changed in his window it tells him, or it is a herb eaten beside
\* another that the tick tells of.
LEMMA Informed ==
    ASSUME Invariant, Tick, NEW t \in Token, NEW window \in SUBSET Place, NEW place \in window,
           place[1] = v'.players[t].at[1], Changed(place)
    PROVE  \/ _snapshot_tile_update(v', t, window) = <<place, v'.tiles[place]>>
           \/ Grazing(place) /\ \E other \in Place \ {place} :
                                  Grazing(other) /\ v'.tile_update = <<other, "grass">>
<1>1. PICK p \in Place : ToldOf(p)
  BY OneTold DEF Changed
<1>2. CASE p = place
  <2>1. v'.tile_update = <<place, v'.tiles[place]>> /\ v'.tiles[place] \in Tile
    BY <1>1, <1>2, Ticking DEF ToldOf, Invariant, World, Game
  <2>2. v'.tile_update # Nothing
    BY <2>1, Constants
  <2>3. v'.tile_update[1] = place
    BY <2>1
  <2> QED BY <2>1, <2>2, <2>3 DEF _snapshot_tile_update
<1>3. CASE p # place
  <2>1. Grazing(p) /\ Grazing(place)
    BY <1>1, <1>3 DEF ToldOf, Changed
  <2> QED BY <1>1, <1>3, <2>1 DEF ToldOf, Grazing
<1> QED BY <1>2, <1>3

\* Whatever the maps and the windows, a tick's snapshot says nothing false, and
\* tells whoever is on the map of each tile in his window that the tick changed, but
\* for all herbs but one of those eaten in it (tile_update, begin_tick,
\* _respawn_herbs, _respawn_trees, _try_chop, _snapshot_tile_update).
THEOREM TerrainToldAlways == Spec => TerrainTold
<1> DEFINE Informs(t, window) ==
             LET told == _snapshot_tile_update(v', t, window)
             IN  /\ told # Nothing => told[1][1] = v'.players[t].at[1] /\ v'.tiles[told[1]] = told[2]
                 /\ \A place \in window : place[1] = v'.players[t].at[1] /\ Changed(place) =>
                       \/ told = <<place, v'.tiles[place]>>
                       \/ Grazing(place) /\ \E other \in Place \ {place} :
                                              Grazing(other) /\ v'.tile_update = <<other, "grass">>
           Kept == ticked' => \A t \in Token, window \in Windows : Informs(t, window)
<1>1. ASSUME Invariant, Tick, NEW t \in Token, NEW window \in Windows
      PROVE  Informs(t, window)
  <2>1. window \in SUBSET Place
    BY CombatAssumption
  <2> QED BY <1>1, <2>1, Honest, Informed
<1>2. ASSUME Invariant, [Next]_vars PROVE [Kept]_vars
  BY <1>1, <1>2, Stepping
<1>3. Spec => [][Kept]_vars
  <2> HIDE DEF Kept
  <2> QED BY <1>2, InvariantAlways, PTL DEF Spec
<1> QED BY <1>3 DEF TerrainTold
=============================================================================
