------------------------------ MODULE Encounters ------------------------------
(***************************************************************************)
(* The entity table of the world and the scripted encounters that live in  *)
(* it: ids that are used again, zones that wake and sleep as players walk, *)
(* the escort and repair of the bridge, the fight with Gorvak, helpers,    *)
(* deaths and departures (src/server/game.py, encounters.py, zones.py,     *)
(* entities.py).                                                           *)
(*                                                                         *)
(* A place is a zone and what stands in it; the timers of the tick (walks, *)
(* waves, cooldowns, decay, respawn, absence) are choices of Tick, which   *)
(* is finish_tick as a whole.  A wave is one beaver.  Positions within a   *)
(* zone, hit points and shared enemies, which no encounter refers to, are  *)
(* left out.                                                               *)
(***************************************************************************)
EXTENDS Naturals, SequencesExt

CONSTANTS
    Token,
    MaxId,          \* 255 in the code
    MaxSpawns,      \* bound: entities ever spawned
    MaxDepartures,  \* bound: deaths and departures
    Parties,        \* the encounter each player's story stage calls for
    NoOne

ASSUME EncountersAssumption ==
    /\ MaxId \in Nat /\ MaxSpawns \in Nat /\ IsFiniteSet(Token) /\ NoOne \notin Token
    /\ Parties \subseteq [Token -> {"bridge", "gorvak", "none"}]

Id == 1..MaxId
\* The overworld is one zone here, the cave a row of four.  GORVAK_MARKER is on
\* the last row of its zone, the lair: he and his summons stand there or in the pit.
Place == {"road", "mouth", "hall", "lair", "pit"}
Cave == Place \ {"road"}
Depth == [road |-> 0, mouth |-> 1, hall |-> 2, lair |-> 3, pit |-> 4]
Beside(a, b) == Depth[a] - Depth[b] \in {0, 1} \/ Depth[b] - Depth[a] \in {0, 1}

VARIABLES
    w,                      \* what GameState keeps
    robbed,                 \* history: whose entity, or Wilhelm, went as a summon of Gorvak
    spawns, departures      \* bounds used up

vars == <<w, robbed, spawns, departures>>

Nothing == [what |-> "nothing", owner |-> NoOne, zone |-> "road", born |-> "road",
            live |-> FALSE, respawns |-> FALSE]
NoEncounter == [kind |-> "none", phase |-> "none", spawned |-> {}, escort |-> 0, boss |-> 0,
                summon |-> 0, return_leg |-> FALSE]

New(what, owner, zone) ==
    [what |-> what, owner |-> owner, zone |-> zone, born |-> zone, live |-> TRUE, respawns |-> FALSE]
is_temporary(e) == e.what \in {"boss", "summon", "beaver", "loot"}
Is(v, id, what, t) == id # 0 /\ v.entities[id].what = what /\ v.entities[id].owner = t
Alive(v, id) == id # 0 /\ v.entities[id].live

-----------------------------------------------------------------------------
(* Entities and zones.                                                     *)

Used(v) == {id \in Id : v.entities[id] # Nothing}

\* Ids are given in a circle, over those in use.
next_entity_id(v) ==
    CHOOSE id \in Id \ Used(v) :
       \A other \in Id \ Used(v) :
          (id + MaxId - v.counter) % MaxId <= (other + MaxId - v.counter) % MaxId

spawn_entity(v, e) ==
    LET id == next_entity_id(v)
    IN  [v EXCEPT !.entities[id] = e, !.counter = (id % MaxId) + 1,
                  !.zones[e.zone] = IF e.zone \in v.active /\ e.what \notin {"player", "wilhelm"}
                                    THEN @ \cup {id} ELSE @]

\* Faulty: encounters keep the ids of what is gone.
RemoveUnlisted(v, ids) ==
    LET gone == ids \cap Used(v)
        leavers == {t \in Token : v.player_entities[t] \in gone}
    IN  [v EXCEPT !.entities = [id \in Id |-> IF id \in gone THEN Nothing ELSE v.entities[id]],
                  !.zones = [z \in Place |-> {id \in v.zones[z] : ~(id \in gone /\ v.entities[id].zone = z)}],
                  !.player_entities = [t \in Token |-> IF t \in leavers THEN 0 ELSE v.player_entities[t]],
                  !.players = @ \ leavers, !.loading = @ \ leavers]

\* remove_entity, for each of ids that is in use.
RemoveAll(v, ids) ==
    LET gone == ids \cap Used(v)
        leavers == {t \in Token : v.player_entities[t] \in gone}
        Without(e) == [e EXCEPT !.spawned = e.spawned \ gone, !.escort = IF e.escort \in gone THEN 0 ELSE e.escort]
    IN  [v EXCEPT !.entities = [id \in Id |-> IF id \in gone THEN Nothing ELSE v.entities[id]],
                  !.zones = [z \in Place |-> {id \in v.zones[z] : ~(id \in gone /\ v.entities[id].zone = z)}],
                  !.encounter = [t \in Token |-> Without(v.encounter[t])],
                  !.player_entities = [t \in Token |-> IF t \in leavers THEN 0 ELSE v.player_entities[t]],
                  !.players = @ \ leavers, !.loading = @ \ leavers]

remove_entity(v, id) == RemoveAll(v, {id})

desired_active_zones(v) ==
    {z \in Place : \E t \in v.players : Beside(z, v.at[t]) /\ (z = "road" <=> v.at[t] = "road")}

\* Zones that nobody is near lose what was spawned in them.
update_active_zones(v) ==
    LET wanted == desired_active_zones(v)
        asleep == v.active \ wanted
        lost == {id \in Id : /\ \E z \in asleep : id \in v.zones[z]
                             /\ is_temporary(v.entities[id])}
    IN  [RemoveAll(v, lost) EXCEPT
           !.active = wanted,
           !.zones = [z \in Place |-> IF z \in wanted THEN @[z] ELSE {}]]

-----------------------------------------------------------------------------
(* Encounters.                                                             *)

create_scripted_encounter(v, t, kind) == [v EXCEPT !.encounter[t] = [NoEncounter EXCEPT !.kind = kind]]

\* e is spawned for the encounter of t.
Owned(v, t, e) == [spawn_entity(v, e) EXCEPT !.encounter[t].spawned = @ \cup {next_entity_id(v)}]

start_scripted_escort(v, t, npc) == [v EXCEPT !.encounter[t].escort = npc, !.encounter[t].phase = "escorting"]

create_bridge_repair_encounter(v, t) ==
    start_scripted_escort(Owned(create_scripted_encounter(v, t, "bridge"), t, New("wilhelm", t, "road")),
                          t, next_entity_id(v))

_spawn_gorvak_summon(v, t, zone) ==
    [Owned(v, t, New("summon", t, zone)) EXCEPT !.encounter[t].summon = next_entity_id(v)]

_spawn_bridge_wave(v, t) ==
    IF v.encounter[t].escort = 0 THEN v ELSE Owned(v, t, New("beaver", t, "road"))

\* The repair begins with a wave (_bridge_repair_started).
activate_scripted_encounter(v, t) ==
    LET a == [v EXCEPT !.encounter[t].phase = "active"]
    IN  IF v.encounter[t].kind = "bridge" THEN _spawn_bridge_wave(a, t) ELSE a

_spawn_gorvak_encounter(v, t) ==
    activate_scripted_encounter(
      [Owned(create_scripted_encounter(v, t, "gorvak"), t, New("boss", t, "lair"))
         EXCEPT !.encounter[t].boss = next_entity_id(v)], t)

_remove_encounter_entities(v, t) ==
    [RemoveAll(v, v.encounter[t].spawned) EXCEPT !.encounter[t].spawned = {}, !.encounter[t].escort = 0]

fail_scripted_encounter(v, t) ==
    IF v.encounter[t].phase \in {"none", "failed", "cleanup"} THEN v
    ELSE _remove_encounter_entities([v EXCEPT !.encounter[t].phase = "failed"], t)

cleanup_scripted_encounter(v, t) ==
    [_remove_encounter_entities(v, t) EXCEPT !.encounter[t] = NoEncounter]

\* Also what the player owns without an encounter.
cleanup_scripted_encounters_for_owner(v, t) ==
    LET c == cleanup_scripted_encounter(v, t)
    IN  RemoveAll(c, {id \in Id : c.entities[id].owner = t /\ c.entities[id].what # "player"})

\* Faulty: takes the escort for a beaver.
ClearAll(v, t) == RemoveAll(v, v.encounter[t].spawned)

_clear_bridge_wave_beavers(v, t) ==
    RemoveAll(v, v.encounter[t].spawned \ {v.encounter[t].escort})

_bridge_repair_success(v, t) ==
    [_clear_bridge_wave_beavers(v, t) EXCEPT
       !.encounter[t].phase = "returning", !.encounter[t].return_leg = TRUE]

\* A repaired bridge still has Wilhelm to walk home; of a boss nothing is left.
succeed_scripted_encounter(v, t) ==
    LET s == [v EXCEPT !.encounter[t].phase = "succeeded", !.quest[t] = "none"]
    IN  IF v.encounter[t].phase \in {"succeeded", "cleanup"} THEN v
        ELSE IF v.encounter[t].kind = "bridge" THEN _bridge_repair_success(s, t)
        ELSE _remove_encounter_entities(s, t)

_scripted_escort_arrived(v, t) ==
    IF v.encounter[t].return_leg
    THEN cleanup_scripted_encounter(v, t)
    ELSE activate_scripted_encounter(v, t)

_advance_scripted_escort(v, t, arrives) ==
    IF ~Alive(v, v.encounter[t].escort) THEN fail_scripted_encounter(v, t)
    ELSE IF arrives THEN _scripted_escort_arrived(v, t) ELSE v

_resolve_gorvak_defeat(v, t) ==
    succeed_scripted_encounter([remove_entity(v, v.encounter[t].summon) EXCEPT !.encounter[t].summon = 0], t)

_update_gorvak_encounter_state(v, t) ==
    IF t \in v.players /\ v.quest[t] = "gorvak" /\ v.at[t] \in {"lair", "pit"} /\ v.encounter[t] = NoEncounter
    THEN _spawn_gorvak_encounter(v, t) ELSE v

owner_is_present(v, t) ==
    t \in v.players /\ t \notin v.loading /\ (v.encounter[t].kind = "gorvak" <=> v.at[t] \in Cave)

_sync_player_entity(v, t) ==
    IF v.player_entities[t] = 0 THEN v ELSE [v EXCEPT !.entities[v.player_entities[t]].zone = v.at[t]]

handle_player_death(v, t) ==
    update_active_zones(_sync_player_entity(
      [fail_scripted_encounter(v, t) EXCEPT !.at[t] = IF @ = "road" THEN "road" ELSE "mouth"], t))

_advance_gorvak_boss_ai(v, t, ch) ==
    IF ch.slain /\ v.entities[v.encounter[t].boss].zone = v.at[t] THEN handle_player_death(v, t) ELSE v

\* A summon that died starts a cooldown, whose end is a choice.  The tick goes on
\* when the boss has just slain his opponent.
_advance_gorvak_encounter(v, t, ch) ==
    LET a == _advance_gorvak_boss_ai(v, t, ch)
        summon == a.encounter[t].summon
        missing == summon = 0 \/ a.entities[summon] = Nothing
    IN  IF ~Alive(v, v.encounter[t].boss) THEN v
        ELSE IF ~missing /\ ~Alive(a, summon) THEN [a EXCEPT !.encounter[t].summon = 0]
        ELSE IF missing /\ ch.calls # "none" THEN _spawn_gorvak_summon(a, t, ch.calls) ELSE a

\* The encounter of t in one tick.
_update_scripted_encounters(v, t, ch) ==
    LET e == v.encounter[t]
        present == owner_is_present(v, t)
    IN  CASE e.phase = "none" -> v
          [] e.phase \in {"failed", "succeeded"} -> [v EXCEPT !.encounter[t].phase = "cleanup"]
          [] e.phase = "cleanup" -> cleanup_scripted_encounter(v, t)
          [] e.phase \in {"escorting", "active"} /\ ~present ->
               IF ch.absent /\ e.kind = "bridge" THEN fail_scripted_encounter(v, t) ELSE v
          [] e.phase \in {"escorting", "returning"} /\ (present \/ e.phase = "returning") ->
               _advance_scripted_escort(v, t, ch.arrives)
          [] e.phase = "active" /\ present /\ e.kind = "gorvak" ->
               _advance_gorvak_encounter(v, t, ch)
          [] OTHER ->
               IF ch.repaired THEN succeed_scripted_encounter(v, t)
               ELSE IF ch.calls # "none" THEN _spawn_bridge_wave(v, t) ELSE v

_decay_dead_beavers(v, ch) ==
    IF ch.decays # 0 /\ ~Alive(v, ch.decays) /\ ~v.entities[ch.decays].respawns
    THEN remove_entity(v, ch.decays) ELSE v
_decay_expired_items(v, ch) ==
    IF ch.decays # 0 /\ v.entities[ch.decays].what = "loot" THEN remove_entity(v, ch.decays) ELSE v
_respawn_dead_enemies(v, ch) ==
    IF ch.revives # 0 /\ v.entities[ch.revives].respawns /\ ~Alive(v, ch.revives)
    THEN [v EXCEPT !.entities[ch.revives].live = TRUE, !.entities[ch.revives].zone = v.entities[ch.revives].born]
    ELSE v
\* Owned enemies may follow their owner to the next zone; only Gorvak's zone is kept.
_move_boss(v, ch) ==
    IF ch.roams # 0 /\ v.entities[ch.roams].what = "boss" /\ Alive(v, ch.roams)
    THEN [v EXCEPT !.entities[ch.roams].zone = IF @ = "lair" THEN "pit" ELSE "lair"] ELSE v

\* Players and encounters are gone through one after the other.
Order == SetToSeq(Token)

ForAll(v, ch) ==
    LET made[i \in 0..Cardinality(Token)] ==
            IF i = 0 THEN v ELSE _update_scripted_encounters(made[i - 1], Order[i], ch)
    IN  made[Cardinality(Token)]

Meet(v) ==
    LET made[i \in 0..Cardinality(Token)] ==
            IF i = 0 THEN v ELSE _update_gorvak_encounter_state(made[i - 1], Order[i])
    IN  made[Cardinality(Token)]

finish_tick(v, ch) ==
    _respawn_dead_enemies(_decay_expired_items(_decay_dead_beavers(
      Meet(_move_boss(ForAll(v, ch), ch)), ch), ch), ch)

-----------------------------------------------------------------------------
(* Actions.                                                                *)

Quiet == [slain |-> FALSE, absent |-> FALSE, arrives |-> FALSE, calls |-> "none",
          repaired |-> FALSE, decays |-> 0, revives |-> 0, roams |-> 0]
Calls(killed, zone) == [Quiet EXCEPT !.slain = killed, !.calls = zone]
\* What a tick may bring: at most one thing besides the phases.
Chances ==
    {Quiet} \cup {[Quiet EXCEPT ![f] = TRUE] : f \in {"slain", "absent", "arrives", "repaired"}}
            \cup {[Quiet EXCEPT ![f] = id] : f \in {"decays", "revives", "roams"}, id \in Id}
            \cup {Calls(killed, zone) : killed \in BOOLEAN, zone \in {"lair", "pit"}}

Room(n) == spawns + n <= MaxSpawns /\ Cardinality(Id \ Used(w)) >= n

Tick ==
    \E ch \in Chances :
      /\ Room(Cardinality({t \in Token : w.quest[t] # "none"}))
      /\ w' = finish_tick(w, ch)
      /\ spawns' = spawns + (IF w'.counter = w.counter THEN 0 ELSE 1)
      /\ UNCHANGED <<robbed, departures>>

\* _interact_wilhelm with the materials staged.
AskWilhelm(t) ==
    /\ t \in w.players /\ w.quest[t] = "bridge" /\ w.at[t] = "road" /\ Room(1)
    /\ w.encounter[t].phase \in {"none", "failed", "cleanup"}
    /\ w' = create_bridge_repair_encounter(cleanup_scripted_encounter(w, t), t)
    /\ spawns' = spawns + 1 /\ UNCHANGED <<robbed, departures>>

_encounter_for_entity(v, id) == {t \in Token : id \in v.encounter[t].spawned}

_damage_entity(v, id) ==
    LET e == v.entities[id]
        dead == [v EXCEPT !.entities[id].live = FALSE, !.entities[id].respawns = (e.what # "boss")]
    IN  IF e.what = "boss" /\ _encounter_for_entity(v, id) # {}
        THEN _resolve_gorvak_defeat(dead, CHOOSE t \in _encounter_for_entity(v, id) : TRUE) ELSE dead

\* Gorvak's defeat takes what has his summon's id: the id of one that is gone stays
\* in the encounter, and is given again.  These lose their entity by it, or Wilhelm.
Taken(v, id) ==
    {o \in Token : /\ v.entities[id].what = "boss"
                   /\ \E t \in _encounter_for_entity(v, id), what \in {"player", "wilhelm"} :
                         Is(v, v.encounter[t].summon, what, o)}

\* A helper's hit counts as the owner's.
Kill(t, id) ==
    /\ t \in w.players /\ t \notin w.loading
    /\ w.entities[id].what \in {"boss", "summon", "beaver"} /\ w.entities[id].live
    /\ w.entities[id].zone = w.at[t]
    /\ \E drops \in {FALSE, w.entities[id].what = "beaver"} :
         LET k == _damage_entity(w, id)
         IN  /\ drops => Room(1)
             /\ w' = IF drops THEN spawn_entity(k, New("loot", NoOne, w.at[t])) ELSE k
             /\ spawns' = spawns + (IF drops THEN 1 ELSE 0)
    /\ robbed' = robbed \cup Taken(w, id)
    /\ UNCHANGED departures

PickUp(t, id) ==
    /\ t \in w.players /\ w.entities[id].what = "loot" /\ w.entities[id].zone = w.at[t]
    /\ w' = remove_entity(w, id) /\ UNCHANGED <<robbed, spawns, departures>>

\* Across a zone border, or through the portal, which pauses the player.
Walk(t, z) ==
    /\ t \in w.players /\ t \notin w.loading /\ z # w.at[t] /\ Beside(z, w.at[t])
    /\ w' = update_active_zones(_sync_player_entity(
              [w EXCEPT !.at[t] = z,
                        !.loading = IF "road" \in {z, w.at[t]} THEN @ \cup {t} ELSE @], t))
    /\ UNCHANGED <<robbed, spawns, departures>>

mark_player_map_ready(t) ==
    t \in w.loading /\ w' = [w EXCEPT !.loading = @ \ {t}] /\ UNCHANGED <<robbed, spawns, departures>>

\* Bitten to death by something the model leaves out.
Die(t) ==
    /\ t \in w.players /\ w' = handle_player_death(w, t) /\ departures < MaxDepartures
    /\ departures' = departures + 1 /\ UNCHANGED <<robbed, spawns>>

\* Faulty: his entity stays in the world.
DetachState(t) ==
    /\ t \in w.players /\ departures < MaxDepartures
    /\ w' = update_active_zones([cleanup_scripted_encounters_for_owner(w, t) EXCEPT
               !.players = @ \ {t}, !.loading = @ \ {t}])
    /\ departures' = departures + 1 /\ UNCHANGED <<robbed, spawns>>

detach_player(t) ==
    /\ t \in w.players /\ departures < MaxDepartures
    /\ LET c == cleanup_scripted_encounters_for_owner(w, t)
       IN  w' = update_active_zones(
                  [c EXCEPT !.players = @ \ {t}, !.player_entities[t] = 0, !.loading = @ \ {t},
                            !.entities = [id \in Id |-> IF id = c.player_entities[t] THEN Nothing ELSE @[id]]])
    /\ departures' = departures + 1 /\ UNCHANGED <<robbed, spawns>>

_spawn_player_entity(v, t) ==
    [spawn_entity(v, New("player", t, v.at[t])) EXCEPT !.player_entities[t] = next_entity_id(v)]

_attach_player(v, t) == update_active_zones([_spawn_player_entity(v, t) EXCEPT !.players = @ \cup {t}])

Join(t) ==
    /\ t \notin w.players /\ Room(1) /\ w' = _attach_player(w, t)
    /\ spawns' = spawns + 1 /\ UNCHANGED <<robbed, departures>>

Init ==
    /\ \E party \in Parties :
         w = [entities |-> [id \in Id |-> Nothing], counter |-> 1, quest |-> party,
              players |-> {}, player_entities |-> [t \in Token |-> 0], loading |-> {},
              at |-> [t \in Token |-> IF "gorvak" \in {party[o] : o \in Token} THEN "hall" ELSE "road"],
              encounter |-> [t \in Token |-> NoEncounter],
              active |-> {}, zones |-> [z \in Place |-> {}]]
    /\ robbed = {} /\ spawns = 0 /\ departures = 0

Next ==
    \/ Tick
    \/ \E t \in Token :
         \/ AskWilhelm(t) \/ mark_player_map_ready(t) \/ Die(t) \/ detach_player(t) \/ Join(t)
         \/ \E id \in Id : Kill(t, id) \/ PickUp(t, id)
         \/ \E z \in Place : Walk(t, z)

Spec == Init /\ [][Next]_vars

-----------------------------------------------------------------------------
(* Properties.                                                             *)

\* spawned_entity_ids never holds an id that was given to something else: what
\* an encounter removes when it ends is its own.
SpawnedOwned ==
    \A t \in Token : \A id \in w.encounter[t].spawned :
       w.entities[id].owner = t /\ w.entities[id].what # "player"

\* Nothing of an encounter outlives it, or its owner's stay in the world
\* (cleanup_scripted_encounters_for_owner, _remove_encounter_entities), but of an
\* owner whom another's victory over Gorvak has robbed; and what any encounter will
\* remove is its own.
CleanedUp ==
    /\ SpawnedOwned
    /\ \A id \in Id :
         /\ w.entities[id].what \in {"boss", "summon", "beaver", "wilhelm"}
         /\ w.entities[id].owner \notin robbed
         => /\ w.entities[id].owner \in w.players
            /\ id \in w.encounter[w.entities[id].owner].spawned

\* Wilhelm is there as long as he has somewhere to go or something to repair, with
\* the same exception.
WilhelmPresent ==
    \A t \in Token \ robbed : w.encounter[t].phase \in {"escorting", "returning"} =>
       Is(w, w.encounter[t].escort, "wilhelm", t)

\* A player in the world has an entity there, and an entity of a player is his.
InWorldTogether ==
    \A t \in Token :
       /\ t \in w.players => Is(w, w.player_entities[t], "player", t)
       /\ \A id \in Id : Is(w, id, "player", t) => t \in w.players /\ w.player_entities[t] = id

\* "Two players run independent encounters without cleanup crosstalk"
\* (test_scripted_encounters.py): nobody leaves the world but by his own departure.
OnlyLeavers == [][w.players \subseteq w'.players \/ departures' > departures]_vars

=============================================================================
