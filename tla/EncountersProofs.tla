--------------------------- MODULE EncountersProofs ----------------------------
(***************************************************************************)
(* The world and its encounters, for any players, stages and ids.          *)
(*                                                                         *)
(* That a player is in the world with his entity, and that an encounter    *)
(* refers to nothing but its own, holds whatever happens (Standing).  What *)
(* an encounter leaves behind and Wilhelm's presence are proved for all    *)
(* but those who are robbed: the id of Gorvak's summon outlives it, and    *)
(* his defeat removes who has it then (Settled, with R for them).          *)
(***************************************************************************)
EXTENDS Encounters, FiniteSetTheorems, WellFoundedInduction, TLAPS

What == {"nothing", "player", "boss", "summon", "beaver", "wilhelm", "loot"}
Minion == {"boss", "summon", "beaver", "wilhelm"}
Phase == {"none", "escorting", "active", "returning", "failed", "succeeded", "cleanup"}
Some == {"bridge", "gorvak", "none"}

Entity == [what : What, owner : Token \cup {NoOne}, zone : Place, born : Place,
           live : BOOLEAN, respawns : BOOLEAN]
Encounter == [kind : Some, phase : Phase, spawned : SUBSET Id, escort : Id \cup {0}, boss : Id \cup {0},
              summon : Id \cup {0}, return_leg : BOOLEAN]
World == [entities : [Id -> Entity], counter : 1..(MaxId + 1), quest : [Token -> Some],
          players : SUBSET Token, player_entities : [Token -> Id \cup {0}], loading : SUBSET Token,
          at : [Token -> Place], encounter : [Token -> Encounter],
          active : SUBSET Place, zones : [Place -> SUBSET Id]]

-----------------------------------------------------------------------------
(* The invariant, as a predicate of a world.                                *)

\* A player is there with his entity.
Embodied(v) ==
    /\ \A t \in Token :
         IF t \in v.players
         THEN v.player_entities[t] \in Id /\ v.entities[v.player_entities[t]].what = "player"
              /\ v.entities[v.player_entities[t]].owner = t
         ELSE v.player_entities[t] = 0
    /\ \A id \in Id : v.entities[id].what = "player" =>
         /\ v.entities[id].owner \in v.players /\ v.player_entities[v.entities[id].owner] = id
         /\ v.entities[id].live

\* What an encounter has spawned is there and is its own.
OwnSpawned(v) ==
    /\ \A t \in Token : \A id \in v.encounter[t].spawned :
         /\ v.entities[id].owner = t /\ v.entities[id].what \in Minion
         /\ v.entities[id].what = "boss" => v.encounter[t].kind = "gorvak"
    /\ \A id \in Id : v.entities[id].what = "wilhelm" => v.entities[id].live

\* How the phases of an encounter go with its kind and with its owner's stage.
Phased(e, quest) ==
    /\ e.kind = "none" => e.phase = "none" /\ e.spawned = {} /\ e.summon = 0
    /\ e.phase = "none" => e.kind = "none"
    /\ e.phase \in {"escorting", "active"} => quest # "none"
    /\ e.phase \in {"escorting", "returning"} => e.kind = "bridge"
    /\ e.phase = "returning" => e.return_leg
    /\ e.summon # 0 => e.kind = "gorvak"

Standing(v) ==
    /\ v \in World /\ Embodied(v) /\ OwnSpawned(v)
    /\ \A t \in Token : Phased(v.encounter[t], v.quest[t])

\* What belongs to an encounter has its owner there and goes with it, unless he is
\* in R.
Attended(v, R) ==
    /\ \A id \in Id : v.entities[id].what \in Minion /\ v.entities[id].owner \notin R =>
         /\ v.entities[id].owner \in v.players
         /\ id \in v.encounter[v.entities[id].owner].spawned
    /\ \A t \in Token \ R : t \notin v.players => v.encounter[t].kind = "none"

\* Wilhelm is there from his first step to his last, but for those in R.
Leads(e) == e.kind = "bridge" /\ e.phase \in {"escorting", "active", "returning"}
Guided(v, R) ==
    \A t \in Token \ R : Leads(v.encounter[t]) =>
       /\ v.encounter[t].escort \in v.encounter[t].spawned
       /\ v.entities[v.encounter[t].escort].what = "wilhelm"

Settled(v, R) == Standing(v) /\ Attended(v, R) /\ Guided(v, R)

\* As invariants of the system.
StandingInv == Standing(w)
SettledInv == Settled(w, robbed)

\* A step leaves the world standing, and settled if it was.
Keeps(v, u, R) == Standing(u) /\ (Settled(v, R) => Settled(u, R))

LEMMA KeepsTrans ==
    ASSUME NEW R, NEW v, NEW u, NEW x, Keeps(v, u, R), Keeps(u, x, R)
    PROVE  Keeps(v, x, R)
  BY DEF Keeps

-----------------------------------------------------------------------------
(* Four kinds of change, and what they keep.                                *)

\* Entities move, get hurt or revive.
Moves(v, u) ==
    /\ u \in World
    /\ u.players = v.players /\ u.player_entities = v.player_entities
    /\ u.encounter = v.encounter /\ u.quest = v.quest
    /\ \A id \in Id :
         /\ u.entities[id].what = v.entities[id].what /\ u.entities[id].owner = v.entities[id].owner
         /\ v.entities[id].what \in {"player", "wilhelm"} /\ v.entities[id].live => u.entities[id].live
         /\ v.entities[id] = Nothing => u.entities[id] = Nothing

LEMMA Moved ==
    ASSUME NEW R, NEW v, NEW u, Standing(v), Moves(v, u)
    PROVE  Keeps(v, u, R) /\ Used(u) \subseteq Used(v)
<1>1. v \in World /\ Embodied(v) /\ OwnSpawned(v) /\ \A t \in Token : Phased(v.encounter[t], v.quest[t])
  BY DEF Standing
<1>2. \A t \in Token : v.encounter[t].spawned \subseteq Id
  BY <1>1 DEF World, Encounter
<1>3. Embodied(u)
  BY <1>1 DEF Moves, Embodied
<1>4. OwnSpawned(u)
  BY <1>1, <1>2 DEF Moves, OwnSpawned
<1>5. Standing(u)
  BY <1>1, <1>3, <1>4 DEF Moves, Standing
<1>6. ASSUME Settled(v, R) PROVE Settled(u, R)
  <2>1. Attended(v, R) /\ Guided(v, R)
    BY <1>6 DEF Settled
  <2>2. Attended(u, R)
    BY <2>1 DEF Moves, Attended
  <2>3. Guided(u, R)
    BY <2>1, <1>2 DEF Moves, Guided
  <2> QED BY <1>5, <2>2, <2>3 DEF Settled
<1>7. Used(u) \subseteq Used(v)
  BY DEF Moves, Used
<1> QED BY <1>5, <1>6, <1>7 DEF Keeps

\* The entities in gone are removed.
Removed(v, gone, u) ==
    /\ u \in World /\ gone \subseteq Id
    /\ \A id \in Id : u.entities[id] = IF id \in gone THEN Nothing ELSE v.entities[id]
    /\ u.players = {t \in v.players : v.player_entities[t] \notin gone}
    /\ \A t \in Token : u.player_entities[t] = IF v.player_entities[t] \in gone THEN 0 ELSE v.player_entities[t]

\* What becomes of an encounter then.
Fades(v, gone, u, t) ==
    LET e == v.encounter[t]
        f == u.encounter[t]
    IN  /\ f.spawned \subseteq e.spawned \ gone
        /\ f.kind \in {e.kind, "none"} /\ Phased(f, u.quest[t])
        /\ u.quest[t] \in {v.quest[t], "none"}

\* What it must not lose.
Spares(v, gone, u, t) ==
    LET e == v.encounter[t]
        f == u.encounter[t]
    IN  /\ f.spawned = e.spawned \ gone
        /\ v.player_entities[t] \in gone => f.kind = "none"
        /\ Leads(f) => Leads(e) /\ f.escort = e.escort /\ e.escort \notin gone
        /\ f.summon \in {0, e.summon}

LEMMA Pruned ==
    ASSUME NEW R, NEW v, NEW u, NEW gone, Standing(v), Removed(v, gone, u), \A t \in Token : Fades(v, gone, u, t),
           Settled(v, R) => \A t \in Token \ R : Spares(v, gone, u, t)
    PROVE  Keeps(v, u, R) /\ Used(u) \subseteq Used(v)
<1>1. v \in World /\ Embodied(v) /\ OwnSpawned(v) /\ \A t \in Token : Phased(v.encounter[t], v.quest[t])
  BY DEF Standing
<1>2. /\ \A t \in Token : v.encounter[t].spawned \subseteq Id
      /\ \A id \in Id : v.entities[id].owner \in Token \cup {NoOne}
      /\ v.players \subseteq Token
      /\ \A t \in Token : v.player_entities[t] \in Id \cup {0}
  BY <1>1 DEF World, Encounter, Entity
<1>3. /\ u \in World /\ gone \subseteq Id /\ u.players \subseteq v.players
      /\ \A id \in gone : u.entities[id] = Nothing
      /\ \A id \in Id \ gone : u.entities[id] = v.entities[id]
      /\ \A t \in v.players : t \in u.players <=> v.player_entities[t] \notin gone
  BY DEF Removed
<1>4. Nothing.what = "nothing"
  BY DEF Nothing
<1>5. \A t \in Token : u.player_entities[t] = IF v.player_entities[t] \in gone THEN 0 ELSE v.player_entities[t]
  BY DEF Removed
<1>6. Embodied(u)
  <2>1. ASSUME NEW t \in Token
        PROVE  IF t \in u.players
               THEN u.player_entities[t] \in Id /\ u.entities[u.player_entities[t]].what = "player"
                    /\ u.entities[u.player_entities[t]].owner = t
               ELSE u.player_entities[t] = 0
    <3>1. CASE t \in u.players
      BY <1>1, <1>3, <1>5, <3>1 DEF Embodied
    <3>2. CASE t \notin u.players
      BY <1>1, <1>3, <1>5, <3>2 DEF Embodied
    <3> QED BY <3>1, <3>2
  <2>2. ASSUME NEW id \in Id, u.entities[id].what = "player"
        PROVE  /\ u.entities[id].owner \in u.players /\ u.player_entities[u.entities[id].owner] = id
               /\ u.entities[id].live
    <3>1. id \notin gone /\ u.entities[id] = v.entities[id]
      BY <1>3, <1>4, <2>2
    <3> QED BY <1>1, <1>2, <1>3, <1>5, <2>2, <3>1 DEF Embodied
  <2> QED BY <2>1, <2>2 DEF Embodied
<1>7. OwnSpawned(u)
  <2>1. ASSUME NEW t \in Token, NEW id \in u.encounter[t].spawned
        PROVE  /\ u.entities[id].owner = t /\ u.entities[id].what \in Minion
               /\ u.entities[id].what = "boss" => u.encounter[t].kind = "gorvak"
    <3>1. id \in v.encounter[t].spawned /\ id \in Id \ gone /\ u.entities[id] = v.entities[id]
      BY <1>2, <1>3, <2>1 DEF Fades
    <3>2. u.encounter[t].kind = v.encounter[t].kind
      BY <2>1 DEF Fades, Phased
    <3> QED BY <1>1, <3>1, <3>2 DEF OwnSpawned
  <2>2. \A id \in Id : u.entities[id].what = "wilhelm" => u.entities[id].live
    BY <1>1, <1>3, <1>4 DEF OwnSpawned
  <2> QED BY <2>1, <2>2 DEF OwnSpawned
<1>8. Standing(u)
  BY <1>3, <1>6, <1>7 DEF Standing, Fades
<1>9. ASSUME Settled(v, R) PROVE Settled(u, R)
  <2>1. Attended(v, R) /\ Guided(v, R) /\ \A t \in Token \ R : Spares(v, gone, u, t)
    BY <1>9 DEF Settled
  <2>2. Attended(u, R)
    <3>1. ASSUME NEW id \in Id, u.entities[id].what \in Minion, u.entities[id].owner \notin R
          PROVE  u.entities[id].owner \in u.players /\ id \in u.encounter[u.entities[id].owner].spawned
      <4>1. id \notin gone /\ u.entities[id] = v.entities[id]
        BY <1>3, <1>4, <3>1 DEF Minion
      <4> DEFINE t == v.entities[id].owner
      <4>2. t \in v.players /\ t \in Token \ R /\ id \in v.encounter[t].spawned
        BY <1>2, <2>1, <3>1, <4>1 DEF Attended
      <4> HIDE DEF t
      <4>3. id \in u.encounter[t].spawned
        BY <2>1, <4>1, <4>2 DEF Spares
      <4>4. u.encounter[t].kind # "none"
        BY <4>2, <4>3 DEF Fades, Phased
      <4>5. v.player_entities[t] \notin gone
        BY <2>1, <4>2, <4>4 DEF Spares
      <4>6. t = v.entities[id].owner
        BY DEF t
      <4> QED BY <1>3, <4>1, <4>2, <4>3, <4>5, <4>6
    <3>2. ASSUME NEW t \in Token \ R, t \notin u.players
          PROVE  u.encounter[t].kind = "none"
      <4>1. CASE t \in v.players
        <5>1. v.player_entities[t] \in gone
          BY <1>3, <3>2, <4>1
        <5> QED BY <2>1, <5>1 DEF Spares
      <4>2. CASE t \notin v.players
        BY <2>1, <4>2 DEF Attended, Fades
      <4> QED BY <4>1, <4>2
    <3> QED BY <3>1, <3>2 DEF Attended
  <2>3. Guided(u, R)
    <3>1. ASSUME NEW t \in Token \ R, Leads(u.encounter[t])
          PROVE  u.encounter[t].escort \in u.encounter[t].spawned /\ u.entities[u.encounter[t].escort].what = "wilhelm"
      <4>1. /\ Leads(v.encounter[t]) /\ u.encounter[t].escort = v.encounter[t].escort
            /\ v.encounter[t].escort \notin gone /\ u.encounter[t].spawned = v.encounter[t].spawned \ gone
        BY <2>1, <3>1 DEF Spares
      <4>2. v.encounter[t].escort \in v.encounter[t].spawned /\ v.entities[v.encounter[t].escort].what = "wilhelm"
        BY <2>1, <4>1 DEF Guided
      <4> QED BY <1>2, <1>3, <4>1, <4>2
    <3> QED BY <3>1 DEF Guided
  <2> QED BY <1>8, <2>2, <2>3 DEF Settled
<1>10. Used(u) \subseteq Used(v)
  BY <1>3 DEF Used
<1> QED BY <1>8, <1>9, <1>10 DEF Keeps

\* e comes into the world as id.
Appears(v, u, id, e) ==
    /\ u \in World /\ id \in Id /\ v.entities[id] = Nothing
    /\ \A other \in Id : u.entities[other] = IF other = id THEN e ELSE v.entities[other]
    /\ u.quest = v.quest

\* The encounter of t gets it.
Grows(v, u, t, id, e) ==
    /\ Appears(v, u, id, e)
    /\ e.owner = t /\ e.what \in Minion /\ e.live
    /\ u.players = v.players /\ u.player_entities = v.player_entities
    /\ \A o \in Token \ {t} : u.encounter[o] = v.encounter[o]
    /\ LET x == v.encounter[t]
           y == u.encounter[t]
       IN  /\ y.spawned = x.spawned \cup {id} /\ Phased(y, v.quest[t])
           /\ y.kind = x.kind \/ (x.kind = "none" /\ y.kind = v.quest[t])
           /\ e.what = "boss" => y.kind = "gorvak"
           /\ y.summon \in {0, x.summon, id}
           /\ Leads(y) => \/ y.escort = id /\ e.what = "wilhelm"
                          \/ Leads(x) /\ y.escort = x.escort

LEMMA Grown ==
    ASSUME NEW R, NEW v, NEW u, NEW t \in Token, NEW id, NEW e, Standing(v), Grows(v, u, t, id, e),
           Settled(v, R) => t \in v.players
    PROVE  Keeps(v, u, R) /\ Used(u) \subseteq Used(v) \cup {id}
<1> DEFINE x == v.encounter[t]
           y == u.encounter[t]
<1>1. v \in World /\ Embodied(v) /\ OwnSpawned(v) /\ \A s \in Token : Phased(v.encounter[s], v.quest[s])
  BY DEF Standing
<1>2. /\ \A s \in Token : v.encounter[s].spawned \subseteq Id
      /\ \A i \in Id : v.entities[i].owner \in Token \cup {NoOne}
      /\ v.players \subseteq Token /\ 0 \notin Id
      /\ \A s \in Token : v.player_entities[s] \in Id \cup {0}
  <2>1. 0 \notin Id
    BY DEF Id
  <2> QED BY <1>1, <2>1 DEF World, Encounter, Entity
<1>3. /\ u \in World /\ id \in Id /\ v.entities[id] = Nothing /\ u.entities[id] = e
      /\ \A i \in Id \ {id} : u.entities[i] = v.entities[i]
      /\ u.players = v.players /\ u.player_entities = v.player_entities /\ u.quest = v.quest
      /\ \A o \in Token \ {t} : u.encounter[o] = v.encounter[o]
      /\ e.owner = t /\ e.what \in Minion /\ e.live /\ e.what # "player"
  BY DEF Grows, Appears, Minion
<1>4. /\ y.spawned = x.spawned \cup {id} /\ Phased(y, v.quest[t])
      /\ y.kind = x.kind \/ (x.kind = "none" /\ y.kind = v.quest[t])
      /\ e.what = "boss" => y.kind = "gorvak"
      /\ y.summon \in {0, x.summon, id}
      /\ Leads(y) => (y.escort = id /\ e.what = "wilhelm") \/ (Leads(x) /\ y.escort = x.escort)
  BY DEF Grows
<1> HIDE DEF x, y
<1>5. Nothing.what = "nothing"
  BY DEF Nothing
<1>6. Embodied(u)
  <2>1. ASSUME NEW s \in Token
        PROVE  IF s \in u.players
               THEN u.player_entities[s] \in Id /\ u.entities[u.player_entities[s]].what = "player"
                    /\ u.entities[u.player_entities[s]].owner = s
               ELSE u.player_entities[s] = 0
    BY <1>1, <1>3, <1>5 DEF Embodied
  <2>2. \A i \in Id : u.entities[i].what = "player" =>
          /\ u.entities[i].owner \in u.players /\ u.player_entities[u.entities[i].owner] = i
          /\ u.entities[i].live
    BY <1>1, <1>3 DEF Embodied
  <2> QED BY <2>1, <2>2 DEF Embodied
<1>7. OwnSpawned(u)
  <2>1. ASSUME NEW s \in Token, NEW i \in u.encounter[s].spawned
        PROVE  /\ u.entities[i].owner = s /\ u.entities[i].what \in Minion
               /\ u.entities[i].what = "boss" => u.encounter[s].kind = "gorvak"
    <3>1. CASE s = t
      <4>1. CASE i = id
        BY <1>3, <1>4, <3>1, <4>1 DEF y
      <4>2. CASE i # id
        <5>1. i \in x.spawned /\ i \in Id \ {id}
          BY <1>2, <1>4, <2>1, <3>1, <4>2 DEF x, y
        <5>2. y.kind = x.kind
          BY <1>1, <1>4, <5>1 DEF Phased, x
        <5> QED BY <1>1, <1>3, <3>1, <5>1, <5>2 DEF OwnSpawned, x, y
      <4> QED BY <4>1, <4>2
    <3>2. CASE s # t
      <4>1. i \in v.encounter[s].spawned /\ i \in Id /\ u.encounter[s] = v.encounter[s]
        BY <1>2, <1>3, <2>1, <3>2
      <4>2. i # id
        BY <1>1, <1>3, <1>5, <4>1 DEF OwnSpawned, Minion
      <4> QED BY <1>1, <1>3, <4>1, <4>2 DEF OwnSpawned
    <3> QED BY <3>1, <3>2
  <2>2. \A i \in Id : u.entities[i].what = "wilhelm" => u.entities[i].live
    BY <1>1, <1>3 DEF OwnSpawned
  <2> QED BY <2>1, <2>2 DEF OwnSpawned
<1>8. Standing(u)
  <2>1. \A s \in Token : Phased(u.encounter[s], u.quest[s])
    BY <1>1, <1>3, <1>4 DEF y
  <2> QED BY <1>3, <1>6, <1>7, <2>1 DEF Standing
<1>9. ASSUME Settled(v, R) PROVE Settled(u, R)
  <2>1. Attended(v, R) /\ Guided(v, R) /\ t \in v.players
    BY <1>9 DEF Settled
  <2>2. Attended(u, R)
    <3>1. ASSUME NEW i \in Id, u.entities[i].what \in Minion, u.entities[i].owner \notin R
          PROVE  u.entities[i].owner \in u.players /\ i \in u.encounter[u.entities[i].owner].spawned
      <4>1. CASE i = id
        BY <1>3, <1>4, <2>1, <4>1 DEF y
      <4>2. CASE i # id
        <5> DEFINE s == v.entities[i].owner
        <5>1. u.entities[i].owner = s /\ s \in v.players /\ s \in Token /\ i \in v.encounter[s].spawned
          BY <1>2, <1>3, <2>1, <3>1, <4>2 DEF Attended
        <5> HIDE DEF s
        <5>2. i \in u.encounter[s].spawned
          BY <1>3, <1>4, <5>1 DEF x, y
        <5> QED BY <1>3, <5>1, <5>2
      <4> QED BY <4>1, <4>2
    <3>2. ASSUME NEW s \in Token \ R, s \notin u.players
          PROVE  u.encounter[s].kind = "none"
      BY <1>3, <2>1, <3>2 DEF Attended
    <3> QED BY <3>1, <3>2 DEF Attended
  <2>3. Guided(u, R)
    <3>1. ASSUME NEW s \in Token \ R, Leads(u.encounter[s])
          PROVE  u.encounter[s].escort \in u.encounter[s].spawned /\ u.entities[u.encounter[s].escort].what = "wilhelm"
      <4>1. ASSUME Leads(v.encounter[s])
            PROVE  /\ v.encounter[s].escort \in v.encounter[s].spawned
                   /\ u.entities[v.encounter[s].escort].what = "wilhelm"
        <5>1. /\ v.encounter[s].escort \in v.encounter[s].spawned
              /\ v.entities[v.encounter[s].escort].what = "wilhelm"
          BY <2>1, <4>1 DEF Guided
        <5>2. v.encounter[s].escort \in Id /\ v.encounter[s].escort # id
          BY <1>2, <1>3, <1>5, <5>1
        <5> QED BY <1>3, <5>1, <5>2
      <4>2. CASE s = t
        <5>1. CASE y.escort = id /\ e.what = "wilhelm"
          BY <1>3, <1>4, <4>2, <5>1 DEF y
        <5>2. CASE Leads(x) /\ y.escort = x.escort
          BY <1>4, <4>1, <4>2, <5>2 DEF x, y
        <5> QED BY <1>4, <3>1, <4>2, <5>1, <5>2 DEF y
      <4>3. CASE s # t
        BY <1>3, <3>1, <4>1, <4>3
      <4> QED BY <4>2, <4>3
    <3> QED BY <3>1 DEF Guided
  <2> QED BY <1>8, <2>2, <2>3 DEF Settled
<1>10. Used(u) \subseteq Used(v) \cup {id}
  BY <1>3 DEF Used
<1> QED BY <1>8, <1>9, <1>10 DEF Keeps

\* A player enters with it.
Enters(v, u, t, id, e) ==
    /\ Appears(v, u, id, e) /\ u.encounter = v.encounter
    /\ e.owner = t /\ e.what = "player" /\ e.live
    /\ t \notin v.players /\ u.players = v.players \cup {t}
    /\ \A o \in Token : u.player_entities[o] = IF o = t THEN id ELSE v.player_entities[o]

LEMMA Entered ==
    ASSUME NEW R, NEW v, NEW u, NEW t \in Token, NEW id, NEW e, Standing(v), Enters(v, u, t, id, e)
    PROVE  Keeps(v, u, R)
<1>1. v \in World /\ Embodied(v) /\ OwnSpawned(v) /\ \A s \in Token : Phased(v.encounter[s], v.quest[s])
  BY DEF Standing
<1>2. /\ \A s \in Token : v.encounter[s].spawned \subseteq Id
      /\ \A i \in Id : v.entities[i].owner \in Token \cup {NoOne}
      /\ v.players \subseteq Token /\ 0 \notin Id
      /\ \A s \in Token : v.player_entities[s] \in Id \cup {0}
  <2>1. 0 \notin Id
    BY DEF Id
  <2> QED BY <1>1, <2>1 DEF World, Encounter, Entity
<1>3. /\ u \in World /\ id \in Id /\ v.entities[id] = Nothing /\ u.entities[id] = e
      /\ \A i \in Id \ {id} : u.entities[i] = v.entities[i]
      /\ u.encounter = v.encounter /\ u.quest = v.quest
      /\ e.owner = t /\ e.what = "player" /\ e.live
      /\ t \notin v.players /\ u.players = v.players \cup {t}
      /\ u.player_entities[t] = id /\ \A o \in Token \ {t} : u.player_entities[o] = v.player_entities[o]
  BY DEF Enters, Appears
<1>4. Nothing.what = "nothing"
  BY DEF Nothing
<1>5. Embodied(u)
  <2>1. ASSUME NEW s \in Token
        PROVE  IF s \in u.players
               THEN u.player_entities[s] \in Id /\ u.entities[u.player_entities[s]].what = "player"
                    /\ u.entities[u.player_entities[s]].owner = s
               ELSE u.player_entities[s] = 0
    BY <1>1, <1>3, <1>4 DEF Embodied
  <2>2. ASSUME NEW i \in Id, u.entities[i].what = "player"
        PROVE  /\ u.entities[i].owner \in u.players /\ u.player_entities[u.entities[i].owner] = i
               /\ u.entities[i].live
    BY <1>1, <1>2, <1>3, <2>2 DEF Embodied
  <2> QED BY <2>1, <2>2 DEF Embodied
<1>6. OwnSpawned(u)
  <2>1. ASSUME NEW s \in Token, NEW i \in u.encounter[s].spawned
        PROVE  /\ u.entities[i].owner = s /\ u.entities[i].what \in Minion
               /\ u.entities[i].what = "boss" => u.encounter[s].kind = "gorvak"
    <3>1. i \in v.encounter[s].spawned /\ i \in Id
      BY <1>2, <1>3
    <3>2. i # id
      BY <1>1, <1>3, <1>4, <3>1 DEF OwnSpawned, Minion
    <3> QED BY <1>1, <1>3, <3>1, <3>2 DEF OwnSpawned
  <2>2. \A i \in Id : u.entities[i].what = "wilhelm" => u.entities[i].live
    BY <1>1, <1>3 DEF OwnSpawned
  <2> QED BY <2>1, <2>2 DEF OwnSpawned
<1>7. Standing(u)
  BY <1>1, <1>3, <1>5, <1>6 DEF Standing
<1>8. ASSUME Settled(v, R) PROVE Settled(u, R)
  <2>1. Attended(v, R) /\ Guided(v, R)
    BY <1>8 DEF Settled
  <2>2. Attended(u, R)
    <3>1. \A i \in Id : u.entities[i].what \in Minion => i # id
      BY <1>3 DEF Minion
    <3> QED BY <1>3, <2>1, <3>1 DEF Attended
  <2>3. Guided(u, R)
    <3>1. ASSUME NEW s \in Token \ R, Leads(v.encounter[s])
          PROVE  v.encounter[s].escort \in v.encounter[s].spawned /\ u.entities[v.encounter[s].escort].what = "wilhelm"
      <4>1. /\ v.encounter[s].escort \in v.encounter[s].spawned
            /\ v.entities[v.encounter[s].escort].what = "wilhelm"
        BY <2>1, <3>1 DEF Guided
      <4>2. v.encounter[s].escort \in Id /\ v.encounter[s].escort # id
        BY <1>2, <1>3, <1>4, <4>1
      <4> QED BY <1>3, <4>1, <4>2
    <3> QED BY <1>3, <3>1 DEF Guided
  <2> QED BY <1>7, <2>2, <2>3 DEF Settled
<1> QED BY <1>7, <1>8 DEF Keeps

\* Something lies there that is nobody's.
LEMMA Littered ==
    ASSUME NEW R, NEW v, NEW u, NEW id, NEW e, Standing(v), Appears(v, u, id, e), e.what = "loot",
           u.players = v.players, u.player_entities = v.player_entities, u.encounter = v.encounter
    PROVE  Keeps(v, u, R)
<1>1. v \in World /\ Embodied(v) /\ OwnSpawned(v) /\ \A s \in Token : Phased(v.encounter[s], v.quest[s])
  BY DEF Standing
<1>2. \A s \in Token : v.encounter[s].spawned \subseteq Id
  BY <1>1 DEF World, Encounter
<1>3. /\ u \in World /\ id \in Id /\ v.entities[id] = Nothing /\ u.entities[id] = e
      /\ \A i \in Id \ {id} : u.entities[i] = v.entities[i]
      /\ u.quest = v.quest
  BY DEF Appears
<1>4. Nothing.what = "nothing"
  BY DEF Nothing
<1>5. Embodied(u)
  BY <1>1, <1>3, <1>4 DEF Embodied
<1>6. \A s \in Token : \A i \in v.encounter[s].spawned : i # id /\ i \in Id
  BY <1>1, <1>2, <1>3, <1>4 DEF OwnSpawned, Minion
<1>7. OwnSpawned(u)
  BY <1>1, <1>3, <1>6 DEF OwnSpawned
<1>8. Standing(u)
  BY <1>1, <1>3, <1>5, <1>7 DEF Standing
<1>9. ASSUME Settled(v, R) PROVE Settled(u, R)
  <2>1. Attended(v, R) /\ Guided(v, R)
    BY <1>9 DEF Settled
  <2>2. Attended(u, R)
    <3>1. \A i \in Id : u.entities[i].what \in Minion => i # id
      BY <1>3 DEF Minion
    <3> QED BY <1>3, <2>1, <3>1 DEF Attended
  <2>3. Guided(u, R)
    BY <1>3, <1>6, <2>1 DEF Guided
  <2> QED BY <1>8, <2>2, <2>3 DEF Settled
<1> QED BY <1>8, <1>9 DEF Keeps

-----------------------------------------------------------------------------
(* Removing and spawning.                                                   *)

LEMMA Blank ==
    /\ Nothing \in Entity /\ Nothing.what = "nothing" /\ 0 \notin Id
    /\ NoEncounter \in Encounter /\ NoEncounter.kind = "none" /\ NoEncounter.phase = "none"
    /\ NoEncounter.spawned = {} /\ NoEncounter.escort = 0 /\ NoEncounter.boss = 0
    /\ NoEncounter.summon = 0 /\ NoEncounter.return_leg = FALSE
<1>1. 0 \notin Id
  BY DEF Id
<1>2. Nothing \in Entity /\ Nothing.what = "nothing"
  BY DEF Nothing, Entity, What, Place
<1>3. NoEncounter \in Encounter
  BY DEF NoEncounter, Encounter, Some, Phase
<1> QED BY <1>1, <1>2, <1>3 DEF NoEncounter

\* The fields of a world.
LEMMA Fields ==
    ASSUME NEW v \in World
    PROVE  /\ v.entities \in [Id -> Entity] /\ v.counter \in 1..(MaxId + 1) /\ v.quest \in [Token -> Some]
           /\ v.players \subseteq Token /\ v.player_entities \in [Token -> Id \cup {0}] /\ v.loading \subseteq Token
           /\ v.at \in [Token -> Place] /\ v.encounter \in [Token -> Encounter]
           /\ v.active \subseteq Place /\ v.zones \in [Place -> SUBSET Id]
  BY DEF World

LEMMA EncounterFields ==
    ASSUME NEW e \in Encounter
    PROVE  /\ e.kind \in Some /\ e.phase \in Phase /\ e.spawned \subseteq Id /\ e.escort \in Id \cup {0}
           /\ e.boss \in Id \cup {0} /\ e.summon \in Id \cup {0} /\ e.return_leg \in BOOLEAN
  BY DEF Encounter

\* The world but for its entities, zones and what refers to them.
Apart(v, u) == u.quest = v.quest /\ u.at = v.at /\ u.active = v.active /\ u.counter = v.counter

Without(e, gone) == [e EXCEPT !.spawned = e.spawned \ gone, !.escort = IF e.escort \in gone THEN 0 ELSE e.escort]

LEMMA WithoutFields ==
    ASSUME NEW e \in Encounter, NEW gone
    PROVE  /\ Without(e, gone) \in Encounter
           /\ Without(e, gone).kind = e.kind /\ Without(e, gone).phase = e.phase
           /\ Without(e, gone).spawned = e.spawned \ gone
           /\ Without(e, gone).escort = IF e.escort \in gone THEN 0 ELSE e.escort
           /\ Without(e, gone).boss = e.boss /\ Without(e, gone).summon = e.summon
           /\ Without(e, gone).return_leg = e.return_leg
<1> DEFINE s == e.spawned \ gone
           x == IF e.escort \in gone THEN 0 ELSE e.escort
<1>1. s \in SUBSET Id /\ x \in Id \cup {0}
  BY EncounterFields
<1>2. Without(e, gone) = [e EXCEPT !.spawned = s, !.escort = x]
  BY DEF Without
<1> HIDE DEF s, x
<1>3. /\ Without(e, gone) \in Encounter
      /\ Without(e, gone).kind = e.kind /\ Without(e, gone).phase = e.phase
      /\ Without(e, gone).spawned = s /\ Without(e, gone).escort = x
      /\ Without(e, gone).boss = e.boss /\ Without(e, gone).summon = e.summon
      /\ Without(e, gone).return_leg = e.return_leg
  BY <1>1, <1>2 DEF Encounter
<1> QED BY <1>3 DEF s, x

LEMMA Removing ==
    ASSUME NEW v \in World, NEW ids
    PROVE  /\ Removed(v, ids \cap Used(v), RemoveAll(v, ids)) /\ Apart(v, RemoveAll(v, ids))
           /\ RemoveAll(v, ids).encounter = [t \in Token |-> Without(v.encounter[t], ids \cap Used(v))]
<1> DEFINE gone == ids \cap Used(v)
           leavers == {t \in Token : v.player_entities[t] \in gone}
           u == RemoveAll(v, ids)
           E == [id \in Id |-> IF id \in gone THEN Nothing ELSE v.entities[id]]
           Z == [z \in Place |-> {id \in v.zones[z] : ~(id \in gone /\ v.entities[id].zone = z)}]
           C == [t \in Token |-> Without(v.encounter[t], gone)]
           P == [t \in Token |-> IF t \in leavers THEN 0 ELSE v.player_entities[t]]
           L == v.loading \ leavers
           S == v.players \ leavers
<1>1. u = [v EXCEPT !.entities = E, !.zones = Z, !.encounter = C, !.player_entities = P,
                    !.players = S, !.loading = L]
  BY DEF RemoveAll, Without
<1>2. gone \subseteq Id
  BY DEF Used
<1>3. E \in [Id -> Entity]
  BY Fields, Blank
<1>4. Z \in [Place -> SUBSET Id]
  BY Fields
<1>5. C \in [Token -> Encounter]
  <2>1. \A t \in Token : v.encounter[t] \in Encounter
    BY Fields
  <2> QED BY <2>1, WithoutFields
<1>6. P \in [Token -> Id \cup {0}]
  BY Fields
<1>7. L \in SUBSET Token /\ S \in SUBSET Token
  BY Fields
<1>8. S = {t \in v.players : v.player_entities[t] \notin gone}
  BY Fields
<1>9. /\ \A id \in Id : E[id] = IF id \in gone THEN Nothing ELSE v.entities[id]
      /\ \A t \in Token : P[t] = IF v.player_entities[t] \in gone THEN 0 ELSE v.player_entities[t]
  BY <1>2
<1> HIDE DEF E, Z, P, L, S, C, u, leavers
<1>10. /\ u \in World /\ u.entities = E /\ u.player_entities = P /\ u.players = S /\ u.encounter = C
       /\ u.quest = v.quest /\ u.at = v.at /\ u.active = v.active /\ u.counter = v.counter
  BY <1>1, <1>3, <1>4, <1>5, <1>6, <1>7 DEF World
<1>11. Removed(v, gone, u)
  <2> HIDE DEF gone
  <2> QED BY <1>2, <1>8, <1>9, <1>10 DEF Removed
<1> QED BY <1>10, <1>11 DEF u, C, Apart

\* Nobody leaves when no entity of a player is removed.
LEMMA NobodyLeaves ==
    ASSUME NEW v, NEW u, NEW gone, Standing(v), Removed(v, gone, u),
           \A id \in gone : v.entities[id].what # "player"
    PROVE  /\ u.players = v.players /\ u.player_entities = v.player_entities
           /\ \A t \in Token : v.player_entities[t] \notin gone
<1>1. v \in World /\ Embodied(v)
  BY DEF Standing
<1>2. u \in World /\ gone \subseteq Id
  BY DEF Removed
<1>3. \A t \in Token : v.player_entities[t] \notin gone
  BY <1>1, <1>2, Blank DEF Embodied
<1>4. u.player_entities \in [Token -> Id \cup {0}] /\ v.player_entities \in [Token -> Id \cup {0}] /\ v.players \subseteq Token
  BY <1>1, <1>2, Fields
<1>5. u.player_entities = v.player_entities
  BY <1>3, <1>4 DEF Removed
<1>6. u.players = v.players
  BY <1>3, <1>4 DEF Removed
<1> QED BY <1>3, <1>5, <1>6

-----------------------------------------------------------------------------
(* Ids.                                                                     *)

LEMMA Smallest ==
    ASSUME NEW T \in SUBSET Nat, T # {}
    PROVE  \E i \in T : \A j \in T : i <= j
<1>1. PICK i \in T : \A j \in T : ~(<<j, i>> \in OpToRel(<, Nat))
  BY WFMin, NatLessThanWellFounded
<1>2. \A j \in T : ~(j < i)
  BY <1>1 DEF OpToRel
<1> QED BY <1>2

LEMMA NextId ==
    ASSUME NEW v \in World, Id \ Used(v) # {}
    PROVE  next_entity_id(v) \in Id /\ v.entities[next_entity_id(v)] = Nothing
<1> DEFINE Free == Id \ Used(v)
           far == [id \in Id |-> (id + MaxId - v.counter) % MaxId]
           T == {far[id] : id \in Free}
<1>1. MaxId \in Nat /\ v.counter \in 1..(MaxId + 1)
  BY Fields, EncountersAssumption DEF EncountersAssumption
<1>2. MaxId > 0
  BY <1>1 DEF Id
<1>3. \A id \in Id : far[id] \in Nat
  <2>1. ASSUME NEW id \in Id PROVE (id + MaxId - v.counter) % MaxId \in Nat
    <3>1. id + MaxId - v.counter \in Int
      BY <1>1 DEF Id
    <3> QED BY <1>1, <1>2, <3>1
  <2> QED BY <2>1
<1>4. T \in SUBSET Nat /\ T # {}
  BY <1>3
<1>5. PICK i \in T : \A j \in T : i <= j
  <2> HIDE DEF T
  <2> QED BY <1>4, Smallest
<1>6. \E id \in Free : \A other \in Free : far[id] <= far[other]
  BY <1>5
<1>7. \E id \in Id \ Used(v) : \A other \in Id \ Used(v) :
         (id + MaxId - v.counter) % MaxId <= (other + MaxId - v.counter) % MaxId
  BY <1>6
<1>8. next_entity_id(v) \in Id \ Used(v)
  <2> DEFINE Near(id) == \A other \in Id \ Used(v) :
                            (id + MaxId - v.counter) % MaxId <= (other + MaxId - v.counter) % MaxId
  <2>1. \E id \in Id \ Used(v) : Near(id)
    BY <1>7
  <2>2. next_entity_id(v) = CHOOSE id \in Id \ Used(v) : Near(id)
    BY DEF next_entity_id
  <2> HIDE DEF Near
  <2> QED BY <2>1, <2>2
<1> QED BY <1>8 DEF Used

\* Everything else is as it was.
Beside2(v, u) ==
    /\ u.players = v.players /\ u.player_entities = v.player_entities /\ u.loading = v.loading
    /\ u.at = v.at /\ u.active = v.active /\ u.quest = v.quest

LEMMA Spawning ==
    ASSUME NEW v \in World, Id \ Used(v) # {}, NEW e \in Entity
    PROVE  /\ Appears(v, spawn_entity(v, e), next_entity_id(v), e)
           /\ Beside2(v, spawn_entity(v, e)) /\ spawn_entity(v, e).encounter = v.encounter
<1> DEFINE id == next_entity_id(v)
           n == (id % MaxId) + 1
           Z == [v.zones EXCEPT ![e.zone] = IF e.zone \in v.active /\ e.what \notin {"player", "wilhelm"}
                                            THEN v.zones[e.zone] \cup {id} ELSE v.zones[e.zone]]
           E == [v.entities EXCEPT ![id] = e]
           u == spawn_entity(v, e)
<1>1. id \in Id /\ v.entities[id] = Nothing
  BY NextId
<1>2. u = [v EXCEPT !.entities = E, !.counter = n, !.zones = Z]
  BY DEF spawn_entity
<1> HIDE DEF id, u
<1>3. n \in 1..(MaxId + 1)
  <2>1. MaxId \in Nat /\ id \in 1..MaxId
    BY <1>1, EncountersAssumption DEF Id, EncountersAssumption
  <2>2. id % MaxId \in 0..(MaxId - 1)
    BY <2>1
  <2> QED BY <2>1, <2>2
<1>4. Z \in [Place -> SUBSET Id]
  BY <1>1, Fields
<1>5. E \in [Id -> Entity]
  BY Fields
<1>6. \A other \in Id : E[other] = IF other = id THEN e ELSE v.entities[other]
  BY <1>1, Fields
<1> HIDE DEF n, Z, E
<1>7. /\ u \in World /\ u.entities = E /\ u.players = v.players /\ u.player_entities = v.player_entities
      /\ u.loading = v.loading /\ u.at = v.at /\ u.active = v.active /\ u.quest = v.quest
      /\ u.encounter = v.encounter
  BY <1>2, <1>3, <1>4, <1>5 DEF World
<1>8. Appears(v, u, id, e) /\ Beside2(v, u)
  BY <1>1, <1>6, <1>7 DEF Appears, Beside2
<1> QED BY <1>7, <1>8 DEF u, id

\* Only the encounter of t changes.
Only(v, u, t) ==
    /\ u \in World /\ Beside2(v, u)
    /\ u.entities = v.entities /\ u.counter = v.counter
    /\ \A o \in Token \ {t} : u.encounter[o] = v.encounter[o]

Put(v, t, y) == [v EXCEPT !.encounter[t] = y]

LEMMA Updating ==
    ASSUME NEW v \in World, NEW t \in Token, NEW y \in Encounter
    PROVE  Only(v, Put(v, t, y), t) /\ Put(v, t, y).encounter[t] = y
<1> DEFINE C == [v.encounter EXCEPT ![t] = y]
           u == Put(v, t, y)
<1>1. C \in [Token -> Encounter] /\ C[t] = y /\ \A o \in Token \ {t} : C[o] = v.encounter[o]
  BY Fields
<1>2. u = [v EXCEPT !.encounter = C]
  BY DEF Put
<1> HIDE DEF C, u
<1>3. /\ u \in World /\ u.entities = v.entities /\ u.counter = v.counter
      /\ u.players = v.players /\ u.player_entities = v.player_entities
      /\ u.loading = v.loading /\ u.at = v.at /\ u.active = v.active /\ u.quest = v.quest
      /\ u.encounter = C
  BY <1>1, <1>2 DEF World
<1>4. Only(v, u, t) /\ u.encounter[t] = y
  BY <1>1, <1>3 DEF Only, Beside2
<1> QED BY <1>4 DEF u

LEMMA OnlyTrans ==
    ASSUME NEW v, NEW u, NEW x, NEW t, Only(v, u, t), Only(u, x, t)
    PROVE  Only(v, x, t)
  BY DEF Only, Beside2

LEMMA OnlySame ==
    ASSUME NEW v, NEW u, NEW t, Only(v, u, t)
    PROVE  Used(u) = Used(v) /\ next_entity_id(u) = next_entity_id(v)
<1>1. Used(u) = Used(v) /\ u.counter = v.counter
  BY DEF Only, Used
<1> QED BY <1>1 DEF next_entity_id

-----------------------------------------------------------------------------
(* What an encounter spawns.                                                *)

LEMMA BridgeRepair ==
    ASSUME NEW R, NEW v, NEW t \in Token, Standing(v), v.encounter[t].kind = "none", v.quest[t] = "bridge",
           Id \ Used(v) # {}, Settled(v, R) => t \in v.players
    PROVE  Keeps(v, create_bridge_repair_encounter(v, t), R)
<1> DEFINE id == next_entity_id(v)
           e == New("wilhelm", t, "road")
           c == create_scripted_encounter(v, t, "bridge")
           y1 == [NoEncounter EXCEPT !.kind = "bridge"]
           s == spawn_entity(c, e)
           o == Owned(c, t, e)
           y2 == [y1 EXCEPT !.spawned = y1.spawned \cup {id}]
           y3 == [y2 EXCEPT !.escort = id, !.phase = "escorting"]
           u == create_bridge_repair_encounter(v, t)
<1>1. v \in World /\ Phased(v.encounter[t], v.quest[t])
  BY DEF Standing
<1>2. id \in Id /\ v.entities[id] = Nothing
  BY <1>1, NextId
<1> HIDE DEF id
<1>3. e \in Entity /\ e.owner = t /\ e.what = "wilhelm" /\ e.live
  BY DEF New, Entity, What, Place
<1> HIDE DEF e
<1>4. /\ y1 \in Encounter /\ y1.spawned = {}
      /\ y2 \in Encounter /\ y3 \in Encounter
      /\ y3.kind = "bridge" /\ y3.phase = "escorting" /\ y3.spawned = {id} /\ y3.escort = id /\ y3.summon = 0
  BY <1>2 DEF NoEncounter, Encounter, Some, Phase
<1>5. Only(v, c, t) /\ c.encounter[t] = y1
  <2>1. c = Put(v, t, y1)
    BY DEF create_scripted_encounter, Put
  <2> HIDE DEF c, y1
  <2> QED BY <1>1, <1>4, <2>1, Updating
<1>6. c \in World /\ next_entity_id(c) = id /\ Used(c) = Used(v)
  BY <1>5, OnlySame DEF Only, id
<1>7. /\ Appears(c, s, id, e) /\ Beside2(c, s) /\ s.encounter = c.encounter /\ s \in World
  <2> HIDE DEF c
  <2> QED BY <1>3, <1>6, Spawning DEF Appears
<1>8. Only(s, o, t) /\ o.encounter[t] = y2
  <2>1. s.encounter[t] = y1
    BY <1>5, <1>7
  <2>2. o = Put(s, t, y2)
    <3> HIDE DEF c, y1
    <3> QED BY <1>6, <2>1 DEF Owned, Put
  <2> HIDE DEF s, o, y2
  <2> QED BY <1>4, <1>7, <2>2, Updating
<1>9. Only(o, u, t) /\ u.encounter[t] = y3
  <2>1. u = [o EXCEPT !.encounter[t].escort = id, !.encounter[t].phase = "escorting"]
    BY DEF create_bridge_repair_encounter, start_scripted_escort, id, e
  <2>2. o \in World
    BY <1>8 DEF Only
  <2> HIDE DEF o, u, y2
  <2>3. u = Put(o, t, y3)
    BY <1>8, <2>1, <2>2, Fields DEF Put
  <2> HIDE DEF y3
  <2> QED BY <1>4, <2>2, <2>3, Updating
<1> HIDE DEF c, s, o, u, y1, y2, y3
<1>10. Appears(v, u, id, e)
  BY <1>2, <1>5, <1>7, <1>8, <1>9 DEF Appears, Only, Beside2
<1>11. Grows(v, u, t, id, e)
  <2>1. u.players = v.players /\ u.player_entities = v.player_entities
    BY <1>5, <1>7, <1>8, <1>9 DEF Only, Beside2
  <2>2. \A p \in Token \ {t} : u.encounter[p] = v.encounter[p]
    BY <1>5, <1>7, <1>8, <1>9 DEF Only
  <2>3. v.encounter[t].spawned = {}
    BY <1>1 DEF Phased
  <2>4. Phased(y3, v.quest[t])
    BY <1>4 DEF Phased
  <2> QED BY <1>3, <1>4, <1>9, <1>10, <2>1, <2>2, <2>3, <2>4 DEF Grows, Minion
<1>12. Keeps(v, u, R)
  BY <1>11, Grown
<1> QED BY <1>12 DEF u

\* What a step for t costs: at most one id, and that only for an encounter his
\* stage calls for.
Spends(v, u, t) ==
    /\ \A o \in Token \ {t} : u.encounter[o].kind = v.encounter[o].kind
    /\ \A o \in Token : u.quest[o] \in {v.quest[o], "none"}
    /\ \/ Used(u) \subseteq Used(v)
       \/ /\ v.quest[t] # "none" /\ u.encounter[t].kind # "none"
          /\ \E id \in Id : Used(u) \subseteq Used(v) \cup {id}

LEMMA SpendsTrans ==
    ASSUME NEW v, NEW u, NEW x, NEW t \in Token,
           Spends(v, u, t), Used(u) \subseteq Used(v), Spends(u, x, t)
    PROVE  Spends(v, x, t)
<1>1. \A o \in Token \ {t} : x.encounter[o].kind = v.encounter[o].kind
  BY DEF Spends
<1>2. \A o \in Token : x.quest[o] \in {v.quest[o], "none"}
  BY DEF Spends
<1>3. CASE Used(x) \subseteq Used(u)
  BY <1>1, <1>2, <1>3 DEF Spends
<1>4. CASE /\ u.quest[t] # "none" /\ x.encounter[t].kind # "none"
           /\ \E id \in Id : Used(x) \subseteq Used(u) \cup {id}
  <2>1. PICK id \in Id : Used(x) \subseteq Used(u) \cup {id}
    BY <1>4
  <2>2. Used(x) \subseteq Used(v) \cup {id}
    BY <2>1
  <2>3. v.quest[t] # "none"
    BY <1>4 DEF Spends
  <2> QED BY <1>1, <1>2, <1>4, <2>2, <2>3 DEF Spends
<1> QED BY <1>3, <1>4 DEF Spends

LEMMA GrowsSpends ==
    ASSUME NEW v, NEW u, NEW t \in Token, NEW id, NEW e, Standing(v), Grows(v, u, t, id, e), v.quest[t] # "none"
    PROVE  Spends(v, u, t)
<1>1. id \in Id /\ Used(u) \subseteq Used(v) \cup {id}
  BY DEF Grows, Appears, Used
<1>2. u.encounter[t].kind # "none"
  BY DEF Grows, Phased
<1>3. \A o \in Token : u.quest[o] = v.quest[o]
  BY DEF Grows, Appears
<1>4. \A o \in Token \ {t} : u.encounter[o].kind = v.encounter[o].kind
  BY DEF Grows
<1> QED BY <1>1, <1>2, <1>3, <1>4 DEF Spends

LEMMA GorvakEncounter ==
    ASSUME NEW R, NEW v, NEW t \in Token, Standing(v), v.encounter[t].kind = "none", v.quest[t] = "gorvak",
           Id \ Used(v) # {}, t \in v.players
    PROVE  Keeps(v, _spawn_gorvak_encounter(v, t), R) /\ Spends(v, _spawn_gorvak_encounter(v, t), t)
<1> DEFINE id == next_entity_id(v)
           e == New("boss", t, "lair")
           c == create_scripted_encounter(v, t, "gorvak")
           y1 == [NoEncounter EXCEPT !.kind = "gorvak"]
           s == spawn_entity(c, e)
           o == Owned(c, t, e)
           y2 == [y1 EXCEPT !.spawned = y1.spawned \cup {id}]
           y3 == [y2 EXCEPT !.boss = id]
           b == [o EXCEPT !.encounter[t].boss = id]
           y4 == [y3 EXCEPT !.phase = "active"]
           u == _spawn_gorvak_encounter(v, t)
<1>1. v \in World /\ Phased(v.encounter[t], v.quest[t])
  BY DEF Standing
<1>2. id \in Id /\ v.entities[id] = Nothing
  BY <1>1, NextId
<1> HIDE DEF id
<1>3. e \in Entity /\ e.owner = t /\ e.what = "boss" /\ e.live
  BY DEF New, Entity, What, Place
<1> HIDE DEF e
<1>4. /\ y1 \in Encounter /\ y1.spawned = {}
      /\ y2 \in Encounter /\ y3 \in Encounter /\ y4 \in Encounter /\ y3.kind = "gorvak"
      /\ y4.kind = "gorvak" /\ y4.phase = "active" /\ y4.spawned = {id} /\ y4.summon = 0
  BY <1>2 DEF NoEncounter, Encounter, Some, Phase
<1>5. Only(v, c, t) /\ c.encounter[t] = y1
  <2>1. c = Put(v, t, y1)
    BY DEF create_scripted_encounter, Put
  <2> HIDE DEF c, y1
  <2> QED BY <1>1, <1>4, <2>1, Updating
<1>6. c \in World /\ next_entity_id(c) = id /\ Used(c) = Used(v)
  BY <1>5, OnlySame DEF Only, id
<1>7. /\ Appears(c, s, id, e) /\ Beside2(c, s) /\ s.encounter = c.encounter /\ s \in World
  <2> HIDE DEF c
  <2> QED BY <1>3, <1>6, Spawning DEF Appears
<1>8. Only(s, o, t) /\ o.encounter[t] = y2
  <2>1. s.encounter[t] = y1
    BY <1>5, <1>7
  <2>2. o = Put(s, t, y2)
    <3> HIDE DEF c, y1
    <3> QED BY <1>6, <2>1 DEF Owned, Put
  <2> HIDE DEF s, o, y2
  <2> QED BY <1>4, <1>7, <2>2, Updating
<1>9. Only(o, b, t) /\ b.encounter[t] = y3
  <2>1. o \in World
    BY <1>8 DEF Only
  <2> HIDE DEF o, y2
  <2>2. b = Put(o, t, y3)
    BY <1>8, <2>1, Fields DEF Put
  <2> HIDE DEF b, y3
  <2> QED BY <1>4, <2>1, <2>2, Updating
<1>10. Only(b, u, t) /\ u.encounter[t] = y4
  <2>1. u = activate_scripted_encounter(b, t)
    BY DEF _spawn_gorvak_encounter, id, e
  <2>2. b \in World
    BY <1>9 DEF Only
  <2> HIDE DEF b, u, y3
  <2>3. u = [b EXCEPT !.encounter[t].phase = "active"]
    BY <1>4, <1>9, <2>1 DEF activate_scripted_encounter
  <2>4. u = Put(b, t, y4)
    BY <1>9, <2>2, <2>3, Fields DEF Put
  <2> HIDE DEF y4
  <2> QED BY <1>4, <2>2, <2>4, Updating
<1> HIDE DEF c, s, o, b, u, y1, y2, y3, y4
<1>11. Appears(v, u, id, e)
  BY <1>2, <1>5, <1>7, <1>8, <1>9, <1>10 DEF Appears, Only, Beside2
<1>12. Grows(v, u, t, id, e)
  <2>1. u.players = v.players /\ u.player_entities = v.player_entities
    BY <1>5, <1>7, <1>8, <1>9, <1>10 DEF Only, Beside2
  <2>2. \A p \in Token \ {t} : u.encounter[p] = v.encounter[p]
    BY <1>5, <1>7, <1>8, <1>9, <1>10 DEF Only
  <2>3. v.encounter[t].spawned = {}
    BY <1>1 DEF Phased
  <2>4. Phased(y4, v.quest[t])
    BY <1>4 DEF Phased
  <2>5. ~Leads(y4)
    BY <1>4 DEF Leads
  <2> QED BY <1>3, <1>4, <1>10, <1>11, <2>1, <2>2, <2>3, <2>4, <2>5 DEF Grows, Minion
<1>13. Keeps(v, u, R) /\ Spends(v, u, t)
  BY <1>12, Grown, GrowsSpends
<1> QED BY <1>13 DEF u

\* A beaver, or a summon.
LEMMA OwnedGrows ==
    ASSUME NEW v, NEW t \in Token, Standing(v), v.encounter[t].kind # "none", Id \ Used(v) # {},
           NEW e \in Entity, e.owner = t, e.what \in {"beaver", "summon"}, e.live
    PROVE  /\ Grows(v, Owned(v, t, e), t, next_entity_id(v), e) /\ Beside2(v, Owned(v, t, e))
           /\ next_entity_id(v) \in Id
<1> DEFINE id == next_entity_id(v)
           x == v.encounter[t]
           s == spawn_entity(v, e)
           y == [x EXCEPT !.spawned = x.spawned \cup {id}]
           u == Owned(v, t, e)
<1>1. v \in World /\ Phased(v.encounter[t], v.quest[t]) /\ x \in Encounter
  BY Fields DEF Standing
<1>2. id \in Id /\ v.entities[id] = Nothing
  BY <1>1, NextId
<1>3. /\ Appears(v, s, id, e) /\ Beside2(v, s) /\ s.encounter = v.encounter /\ s \in World
  BY <1>1, Spawning DEF Appears
<1>4. u = Put(s, t, y)
  BY <1>3 DEF Owned, Put
<1> HIDE DEF s, u, id, x
<1>5. /\ y \in Encounter /\ y.kind = x.kind /\ y.phase = x.phase /\ y.spawned = x.spawned \cup {id}
      /\ y.escort = x.escort /\ y.summon = x.summon /\ y.return_leg = x.return_leg
  BY <1>1, <1>2 DEF Encounter
<1> HIDE DEF y
<1>6. Only(s, u, t) /\ u.encounter[t] = y
  BY <1>3, <1>4, <1>5, Updating
<1>7. Appears(v, u, id, e) /\ Beside2(v, u)
  BY <1>3, <1>6 DEF Appears, Only, Beside2
<1>8. Grows(v, u, t, id, e)
  <2>1. Phased(y, v.quest[t])
    BY <1>1, <1>5 DEF Phased, x
  <2>2. Leads(y) => Leads(x)
    BY <1>5 DEF Leads
  <2> QED BY <1>3, <1>5, <1>6, <1>7, <2>1, <2>2 DEF Grows, Minion, x, Beside2, Only
<1> QED BY <1>2, <1>7, <1>8 DEF u, id

LEMMA NewMinion ==
    ASSUME NEW t \in Token, NEW zone \in Place, NEW what \in {"beaver", "summon"}
    PROVE  New(what, t, zone) \in Entity /\ New(what, t, zone).owner = t
           /\ New(what, t, zone).what = what /\ New(what, t, zone).live
  BY DEF New, Entity, What

LEMMA Wave ==
    ASSUME NEW R, NEW v, NEW t \in Token, Standing(v), v.encounter[t].kind # "none", v.quest[t] # "none",
           Id \ Used(v) # {}, t \in v.players
    PROVE  Keeps(v, _spawn_bridge_wave(v, t), R) /\ Spends(v, _spawn_bridge_wave(v, t), t)
<1> DEFINE e == New("beaver", t, "road")
<1>1. CASE v.encounter[t].escort = 0
  BY <1>1 DEF _spawn_bridge_wave, Keeps, Spends
<1>2. CASE v.encounter[t].escort # 0
  <2>1. e \in Entity /\ e.owner = t /\ e.what = "beaver" /\ e.live
    BY NewMinion DEF Place
  <2>2. _spawn_bridge_wave(v, t) = Owned(v, t, e)
    BY <1>2 DEF _spawn_bridge_wave
  <2> HIDE DEF e
  <2>3. Grows(v, Owned(v, t, e), t, next_entity_id(v), e)
    BY <2>1, OwnedGrows
  <2> DEFINE u == Owned(v, t, e)
             id == next_entity_id(v)
  <2> HIDE DEF u, id
  <2>4. Keeps(v, u, R) /\ Spends(v, u, t)
    BY <2>3, Grown, GrowsSpends DEF u, id
  <2> QED BY <2>2, <2>4 DEF u
<1> QED BY <1>1, <1>2

LEMMA Summoned ==
    ASSUME NEW R, NEW v, NEW t \in Token, NEW zone \in Place, Standing(v), v.encounter[t].kind = "gorvak", v.quest[t] # "none",
           Id \ Used(v) # {}, t \in v.players
    PROVE  Keeps(v, _spawn_gorvak_summon(v, t, zone), R) /\ Spends(v, _spawn_gorvak_summon(v, t, zone), t)
<1> DEFINE e == New("summon", t, zone)
           o == Owned(v, t, e)
           id == next_entity_id(v)
           y == [o.encounter[t] EXCEPT !.summon = id]
           u == _spawn_gorvak_summon(v, t, zone)
<1>1. e \in Entity /\ e.owner = t /\ e.what = "summon" /\ e.live
  BY NewMinion
<1> HIDE DEF e
<1>2. Grows(v, o, t, id, e) /\ id \in Id
  BY <1>1, OwnedGrows
<1>3. o \in World /\ o.encounter[t] \in Encounter
  <2>1. o \in World
    BY <1>2 DEF Grows, Appears
  <2> QED BY <2>1, Fields
<1>4. u = Put(o, t, y)
  BY DEF _spawn_gorvak_summon, Put, e
<1> HIDE DEF o, u, id
<1>5. /\ y \in Encounter /\ y.kind = o.encounter[t].kind /\ y.phase = o.encounter[t].phase
      /\ y.spawned = o.encounter[t].spawned
      /\ y.escort = o.encounter[t].escort /\ y.summon = id /\ y.return_leg = o.encounter[t].return_leg
  BY <1>2, <1>3 DEF Encounter
<1> HIDE DEF y
<1>6. Only(o, u, t) /\ u.encounter[t] = y
  BY <1>3, <1>4, <1>5, Updating
<1>7. Appears(v, u, id, e)
  BY <1>2, <1>6 DEF Grows, Appears, Only, Beside2
<1>8. Grows(v, u, t, id, e)
  <2>1. u.players = v.players /\ u.player_entities = v.player_entities
        /\ \A p \in Token \ {t} : u.encounter[p] = v.encounter[p]
    BY <1>2, <1>6 DEF Grows, Only, Beside2
  <2>2. y.kind = "gorvak" /\ y.spawned = v.encounter[t].spawned \cup {id}
    BY <1>2, <1>5 DEF Grows
  <2>3. Phased(y, v.quest[t])
    BY <1>2, <1>5, <2>2 DEF Grows, Phased
  <2>4. ~Leads(y)
    BY <2>2 DEF Leads
  <2> QED BY <1>1, <1>5, <1>6, <1>7, <2>1, <2>2, <2>3, <2>4 DEF Grows, Minion
<1>9. Keeps(v, u, R) /\ Spends(v, u, t)
  BY <1>8, Grown, GrowsSpends
<1> QED BY <1>9 DEF u

-----------------------------------------------------------------------------
(* The phases of an encounter.                                              *)

\* An encounter goes on with what it has.
LEMMA Turned ==
    ASSUME NEW R, NEW v, NEW u, NEW t \in Token, Standing(v), Only(v, u, t),
           LET x == v.encounter[t]
               y == u.encounter[t]
           IN  /\ y.kind = x.kind /\ y.spawned = x.spawned /\ Phased(y, v.quest[t])
               /\ y.summon \in {0, x.summon}
               /\ Leads(y) => Leads(x) /\ y.escort = x.escort
    PROVE  Keeps(v, u, R) /\ Spends(v, u, t) /\ Used(u) = Used(v)
<1>1. v \in World /\ \A o \in Token : Phased(v.encounter[o], v.quest[o])
  BY DEF Standing
<1>2. /\ u \in World /\ u.entities = v.entities /\ u.players = v.players /\ u.quest = v.quest
      /\ u.player_entities = v.player_entities
      /\ \A o \in Token \ {t} : u.encounter[o] = v.encounter[o]
  BY DEF Only, Beside2
<1>3. Removed(v, {}, u)
  BY <1>2 DEF Removed
<1>4. \A o \in Token : Fades(v, {}, u, o)
  <2>1. Fades(v, {}, u, t)
    BY <1>2 DEF Fades
  <2>2. \A o \in Token \ {t} : Fades(v, {}, u, o)
    BY <1>1, <1>2 DEF Fades
  <2> QED BY <2>1, <2>2
<1>5. \A o \in Token : Spares(v, {}, u, o)
  <2>1. Spares(v, {}, u, t)
    BY DEF Spares
  <2>2. \A o \in Token \ {t} : Spares(v, {}, u, o)
    BY <1>2 DEF Spares
  <2> QED BY <2>1, <2>2
<1>6. Keeps(v, u, R)
  BY <1>3, <1>4, <1>5, Pruned
<1>7. Used(u) = Used(v)
  BY OnlySame
<1> QED BY <1>2, <1>6, <1>7 DEF Spends

\* The phase of t becomes p.
InPhase(v, u, t, p) ==
    LET x == v.encounter[t]
        y == u.encounter[t]
    IN  /\ Only(v, u, t) /\ y \in Encounter /\ y.kind = x.kind /\ y.phase = p /\ y.spawned = x.spawned
        /\ y.escort = x.escort /\ y.summon = x.summon /\ y.return_leg = x.return_leg

LEMMA Phasing ==
    ASSUME NEW v \in World, NEW t \in Token, NEW p \in Phase
    PROVE  InPhase(v, [v EXCEPT !.encounter[t].phase = p], t, p)
<1> DEFINE x == v.encounter[t]
           y == [x EXCEPT !.phase = p]
           u == [v EXCEPT !.encounter[t].phase = p]
<1>1. x \in Encounter
  BY Fields
<1>2. u = Put(v, t, y)
  BY DEF Put
<1> HIDE DEF x, u
<1>3. /\ y \in Encounter /\ y.kind = x.kind /\ y.phase = p /\ y.spawned = x.spawned
      /\ y.escort = x.escort /\ y.summon = x.summon /\ y.return_leg = x.return_leg
  BY <1>1 DEF Encounter
<1> HIDE DEF y
<1>4. Only(v, u, t) /\ u.encounter[t] = y
  BY <1>2, <1>3, Updating
<1>5. InPhase(v, u, t, p)
  BY <1>3, <1>4 DEF InPhase, x
<1> QED BY <1>5 DEF u

\* A phase in which Wilhelm has no way to go.
LEMMA Ended ==
    ASSUME NEW R, NEW v, NEW u, NEW t \in Token, NEW p \in {"failed", "succeeded", "cleanup"},
           Standing(v), v.encounter[t].kind # "none", InPhase(v, u, t, p)
    PROVE  Keeps(v, u, R) /\ Spends(v, u, t) /\ Used(u) = Used(v)
<1>1. Phased(v.encounter[t], v.quest[t])
  BY DEF Standing
<1>2. Phased(u.encounter[t], v.quest[t])
  BY <1>1 DEF Phased, InPhase
<1>3. ~Leads(u.encounter[t])
  BY DEF Leads, InPhase
<1> QED BY <1>2, <1>3, Turned DEF InPhase

LEMMA Activated ==
    ASSUME NEW R, NEW v, NEW t \in Token, Standing(v), v.encounter[t].kind = "bridge", v.encounter[t].phase = "escorting",
           Id \ Used(v) # {}, t \in v.players
    PROVE  Keeps(v, activate_scripted_encounter(v, t), R) /\ Spends(v, activate_scripted_encounter(v, t), t)
<1> DEFINE a == [v EXCEPT !.encounter[t].phase = "active"]
<1>1. v \in World /\ Phased(v.encounter[t], v.quest[t])
  BY DEF Standing
<1>2. activate_scripted_encounter(v, t) = _spawn_bridge_wave(a, t)
  BY DEF activate_scripted_encounter
<1>3. InPhase(v, a, t, "active")
  BY <1>1, Phasing DEF Phase
<1> HIDE DEF a
<1>4. Phased(a.encounter[t], v.quest[t])
  BY <1>1, <1>3 DEF Phased, InPhase
<1>5. Keeps(v, a, R) /\ Spends(v, a, t) /\ Used(a) = Used(v)
  BY <1>3, <1>4, Turned DEF InPhase, Leads
<1>6. Keeps(a, _spawn_bridge_wave(a, t), R) /\ Spends(a, _spawn_bridge_wave(a, t), t)
  <2>1. Standing(a) /\ a.encounter[t].kind # "none"
    BY <1>3, <1>5 DEF Keeps, InPhase
  <2>2. a.quest[t] # "none" /\ t \in a.players
    BY <1>1, <1>3 DEF Phased, InPhase, Only, Beside2
  <2> QED BY <1>5, <2>1, <2>2, Wave
<1> QED BY <1>2, <1>5, <1>6, KeepsTrans, SpendsTrans

-----------------------------------------------------------------------------
(* What an encounter leaves.                                                *)

\* A removal that other encounters go through.
LEMMA WithoutFades ==
    ASSUME NEW v, NEW u, NEW gone, NEW t \in Token, Standing(v), u.encounter[t] = Without(v.encounter[t], gone),
           u.quest[t] = v.quest[t]
    PROVE  Fades(v, gone, u, t) /\ u.encounter[t].kind = v.encounter[t].kind
<1>1. v.encounter[t] \in Encounter /\ Phased(v.encounter[t], v.quest[t])
  BY Fields DEF Standing
<1> DEFINE x == v.encounter[t]
           y == u.encounter[t]
<1>2. /\ y.kind = x.kind /\ y.phase = x.phase /\ y.spawned = x.spawned \ gone
      /\ y.summon = x.summon /\ y.return_leg = x.return_leg
  BY <1>1, WithoutFields
<1> HIDE DEF x, y
<1>3. Phased(y, v.quest[t])
  BY <1>1, <1>2 DEF Phased, x
<1>4. Fades(v, gone, u, t)
  BY <1>2, <1>3 DEF Fades, x, y
<1> QED BY <1>2, <1>4 DEF x, y

LEMMA WithoutSpares ==
    ASSUME NEW R, NEW v, NEW u, NEW gone, NEW t \in Token, Settled(v, R), u.encounter[t] = Without(v.encounter[t], gone),
           v.player_entities[t] \in gone => v.encounter[t].kind = "none",
           Leads(v.encounter[t]) => v.encounter[t].escort \notin gone
    PROVE  Spares(v, gone, u, t)
<1>1. v.encounter[t] \in Encounter
  BY Fields DEF Settled, Standing
<1> DEFINE x == v.encounter[t]
           y == u.encounter[t]
<1>2. /\ y.kind = x.kind /\ y.phase = x.phase /\ y.spawned = x.spawned \ gone
      /\ y.escort = IF x.escort \in gone THEN 0 ELSE x.escort
      /\ y.summon = x.summon
  BY <1>1, WithoutFields
<1> HIDE DEF x, y
<1>3. Leads(y) => Leads(x)
  BY <1>2 DEF Leads
<1> QED BY <1>2, <1>3 DEF Spares, x, y

\* What t's encounter has spawned belongs to no other, and to no player.
LEMMA OwnOnly ==
    ASSUME NEW R, NEW v, NEW t \in Token, Standing(v)
    PROVE  LET own == v.encounter[t].spawned
           IN  /\ own \subseteq Used(v) /\ own \subseteq Id
               /\ \A id \in own : v.entities[id].what # "player"
               /\ Settled(v, R) => \A o \in (Token \ R) \ {t} : Leads(v.encounter[o]) => v.encounter[o].escort \notin own
<1>1. v \in World /\ OwnSpawned(v)
  BY DEF Standing
<1> DEFINE own == v.encounter[t].spawned
<1>2. own \subseteq Id
  <2>1. v.encounter[t] \in Encounter
    BY <1>1, Fields
  <2> QED BY <2>1, EncounterFields
<1>3. \A id \in own : v.entities[id].owner = t /\ v.entities[id].what \in Minion
  BY <1>1 DEF OwnSpawned
<1>4. own \subseteq Used(v)
  BY <1>2, <1>3, Blank DEF Used, Minion
<1>5. ASSUME Settled(v, R), NEW o \in (Token \ R) \ {t}, Leads(v.encounter[o])
      PROVE  v.encounter[o].escort \notin own
  <2>1. v.encounter[o].escort \in v.encounter[o].spawned
    BY <1>5 DEF Settled, Guided
  <2>2. v.entities[v.encounter[o].escort].owner = o
    BY <1>1, <2>1 DEF OwnSpawned
  <2> QED BY <1>3, <2>2
<1> QED BY <1>2, <1>3, <1>4, <1>5 DEF Minion

\* All that t's encounter has spawned is gone.
Discards(v, u, t) ==
    /\ Removed(v, v.encounter[t].spawned, u) /\ u.quest = v.quest
    /\ u.at = v.at /\ u.active = v.active
    /\ u.players = v.players /\ u.player_entities = v.player_entities
    /\ \A o \in Token \ {t} : u.encounter[o] = Without(v.encounter[o], v.encounter[t].spawned)

LEMMA Discarded ==
    ASSUME NEW R, NEW v, NEW u, NEW t \in Token, Standing(v), Discards(v, u, t),
           LET x == v.encounter[t]
               y == u.encounter[t]
           IN  /\ y.kind \in {x.kind, "none"} /\ y.spawned = {} /\ Phased(y, v.quest[t])
               /\ y.summon \in {0, x.summon} /\ ~Leads(y)
    PROVE  Keeps(v, u, R) /\ Spends(v, u, t) /\ Used(u) \subseteq Used(v)
<1> DEFINE own == v.encounter[t].spawned
<1>1. Removed(v, own, u) /\ u.quest = v.quest
  BY DEF Discards
<1>2. \A o \in Token \ {t} : u.encounter[o] = Without(v.encounter[o], own)
  BY DEF Discards
<1>3. /\ \A id \in own : v.entities[id].what # "player"
      /\ Settled(v, R) => \A o \in (Token \ R) \ {t} : Leads(v.encounter[o]) => v.encounter[o].escort \notin own
  BY OwnOnly
<1>4. Fades(v, own, u, t) /\ Spares(v, own, u, t)
  <2>1. v.player_entities[t] \notin own
    BY <1>1, <1>3, NobodyLeaves
  <2> QED BY <1>1, <2>1 DEF Fades, Spares
<1>5. \A o \in Token : v.player_entities[o] \notin own
  BY <1>1, <1>3, NobodyLeaves
<1> HIDE DEF own
<1>6. \A o \in Token \ {t} : Fades(v, own, u, o) /\ u.encounter[o].kind = v.encounter[o].kind
  BY <1>1, <1>2, WithoutFades
<1>7. ASSUME Settled(v, R), NEW o \in (Token \ R) \ {t} PROVE Spares(v, own, u, o)
  BY <1>2, <1>3, <1>5, <1>7, WithoutSpares
<1>8. Keeps(v, u, R) /\ Used(u) \subseteq Used(v)
  <2>1. \A o \in Token : Fades(v, own, u, o)
    BY <1>4, <1>6
  <2>2. Settled(v, R) => \A o \in Token \ R : Spares(v, own, u, o)
    BY <1>4, <1>7
  <2> QED BY <1>1, <2>1, <2>2, Pruned
<1> QED BY <1>1, <1>6, <1>8 DEF Spends

LEMMA Unburdening ==
    ASSUME NEW v, NEW t \in Token, Standing(v)
    PROVE  LET u == _remove_encounter_entities(v, t)
               x == v.encounter[t]
               y == u.encounter[t]
           IN  /\ Discards(v, u, t) /\ y \in Encounter
               /\ y.kind = x.kind /\ y.phase = x.phase /\ y.summon = x.summon /\ y.return_leg = x.return_leg
               /\ y.spawned = {} /\ y.escort = 0
<1> DEFINE x == v.encounter[t]
           own == x.spawned
           r == RemoveAll(v, own)
           y == [r.encounter[t] EXCEPT !.spawned = {}, !.escort = 0]
           u == _remove_encounter_entities(v, t)
<1>1. v \in World /\ x \in Encounter
  BY Fields DEF Standing
<1>2. own \cap Used(v) = own /\ \A id \in own : v.entities[id].what # "player"
  BY OwnOnly
<1> HIDE DEF own
<1>3. Removed(v, own, r) /\ Apart(v, r) /\ r.encounter = [o \in Token |-> Without(v.encounter[o], own)]
  BY <1>1, <1>2, Removing
<1>4. r \in World
  BY <1>3 DEF Removed
<1>5. r.players = v.players /\ r.player_entities = v.player_entities
  BY <1>2, <1>3, NobodyLeaves
<1>6. u = [r EXCEPT !.encounter[t].spawned = {}, !.encounter[t].escort = 0]
  BY DEF _remove_encounter_entities, own
<1> HIDE DEF r, u, x
<1>7. u = Put(r, t, y)
  BY <1>4, <1>6, Fields DEF Put
<1>8. r.encounter[t] = Without(x, own)
  BY <1>3 DEF x
<1>9. /\ r.encounter[t] \in Encounter /\ r.encounter[t].kind = x.kind /\ r.encounter[t].phase = x.phase
      /\ r.encounter[t].summon = x.summon /\ r.encounter[t].return_leg = x.return_leg
  BY <1>1, <1>8, WithoutFields
<1>10. /\ y \in Encounter /\ y.kind = x.kind /\ y.phase = x.phase /\ y.spawned = {} /\ y.escort = 0
       /\ y.summon = x.summon /\ y.return_leg = x.return_leg
  BY <1>9 DEF Encounter
<1> HIDE DEF y
<1>11. Only(r, u, t) /\ u.encounter[t] = y
  BY <1>4, <1>7, <1>10, Updating
<1>12. Removed(v, own, u)
  BY <1>3, <1>11 DEF Removed, Only, Beside2
<1>13. Discards(v, u, t)
  BY <1>3, <1>5, <1>11, <1>12 DEF Discards, Only, Beside2, Apart, own, x
<1> QED BY <1>10, <1>11, <1>13 DEF u, x

LEMMA Failed ==
    ASSUME NEW R, NEW v, NEW t \in Token, Standing(v)
    PROVE  LET u == fail_scripted_encounter(v, t)
           IN  /\ Keeps(v, u, R) /\ Spends(v, u, t) /\ Used(u) \subseteq Used(v)
               /\ u.players = v.players /\ u.player_entities = v.player_entities
               /\ u.at = v.at /\ u.quest = v.quest /\ u.encounter[t].kind = v.encounter[t].kind
<1>1. CASE v.encounter[t].phase \in {"none", "failed", "cleanup"}
  BY <1>1 DEF fail_scripted_encounter, Keeps, Spends
<1>2. CASE v.encounter[t].phase \notin {"none", "failed", "cleanup"}
  <2> DEFINE a == [v EXCEPT !.encounter[t].phase = "failed"]
             u == _remove_encounter_entities(a, t)
  <2>1. fail_scripted_encounter(v, t) = u
    BY <1>2 DEF fail_scripted_encounter
  <2>2. v \in World /\ Phased(v.encounter[t], v.quest[t])
    BY DEF Standing
  <2>3. InPhase(v, a, t, "failed")
    BY <2>2, Phasing DEF Phase
  <2> HIDE DEF a
  <2>4. v.encounter[t].kind # "none"
    BY <1>2, <2>2 DEF Phased
  <2>5. Keeps(v, a, R) /\ Spends(v, a, t) /\ Used(a) = Used(v) /\ Standing(a)
    BY <2>3, <2>4, Ended DEF Keeps
  <2>6. /\ Discards(a, u, t) /\ u.encounter[t].kind = a.encounter[t].kind
        /\ u.encounter[t].phase = a.encounter[t].phase /\ u.encounter[t].summon = a.encounter[t].summon
        /\ u.encounter[t].spawned = {}
    BY <2>5, Unburdening
  <2> HIDE DEF u
  <2>7. a.encounter[t].phase = "failed" /\ a.encounter[t].kind = v.encounter[t].kind /\ Phased(a.encounter[t], a.quest[t])
    BY <2>3, <2>5 DEF InPhase, Standing
  <2>8. Phased(u.encounter[t], a.quest[t]) /\ ~Leads(u.encounter[t])
    BY <2>4, <2>6, <2>7 DEF Phased, Leads
  <2>9. Keeps(a, u, R) /\ Spends(a, u, t) /\ Used(u) \subseteq Used(a)
    BY <2>5, <2>6, <2>8, Discarded
  <2>10. Keeps(v, u, R) /\ Spends(v, u, t)
    BY <2>5, <2>9, KeepsTrans, SpendsTrans
  <2>11. a.players = v.players /\ a.player_entities = v.player_entities /\ a.at = v.at /\ a.quest = v.quest
    BY <2>3 DEF InPhase, Only, Beside2
  <2>12. u.players = a.players /\ u.player_entities = a.player_entities /\ u.at = a.at /\ u.quest = a.quest
    BY <2>6 DEF Discards
  <2> QED BY <2>1, <2>5, <2>6, <2>7, <2>9, <2>10, <2>11, <2>12
<1> QED BY <1>1, <1>2

LEMMA CleanedUpAfter ==
    ASSUME NEW R, NEW v, NEW t \in Token, Standing(v)
    PROVE  LET u == cleanup_scripted_encounter(v, t)
           IN  /\ Keeps(v, u, R) /\ Spends(v, u, t) /\ Used(u) \subseteq Used(v)
               /\ u.players = v.players /\ u.player_entities = v.player_entities
               /\ u.at = v.at /\ u.quest = v.quest /\ u.encounter[t] = NoEncounter
<1> DEFINE r == _remove_encounter_entities(v, t)
           u == cleanup_scripted_encounter(v, t)
<1>1. Discards(v, r, t)
  BY Unburdening
<1>2. r \in World
  BY <1>1 DEF Discards, Removed
<1>3. u = Put(r, t, NoEncounter)
  BY DEF cleanup_scripted_encounter, Put
<1> HIDE DEF r, u
<1>4. Only(r, u, t) /\ u.encounter[t] = NoEncounter
  BY <1>2, <1>3, Blank, Updating
<1>5. Discards(v, u, t)
  BY <1>1, <1>4 DEF Discards, Only, Beside2, Removed
<1>6. Phased(NoEncounter, v.quest[t]) /\ ~Leads(NoEncounter)
  BY Blank DEF Phased, Leads
<1>7. Keeps(v, u, R) /\ Spends(v, u, t) /\ Used(u) \subseteq Used(v)
  BY <1>4, <1>5, <1>6, Blank, Discarded
<1> QED BY <1>4, <1>5, <1>7 DEF u, Discards

\* The stage and the phase of t change together.
Advances(v, u, t) ==
    LET x == v.encounter[t]
        y == u.encounter[t]
    IN  /\ u \in World /\ u.entities = v.entities /\ u.players = v.players
        /\ u.player_entities = v.player_entities /\ u.at = v.at /\ u.active = v.active
        /\ u.quest[t] = "none" /\ \A o \in Token \ {t} : u.quest[o] = v.quest[o] /\ u.encounter[o] = v.encounter[o]
        /\ y \in Encounter /\ y.kind = x.kind /\ y.phase = "succeeded" /\ y.spawned = x.spawned
        /\ y.escort = x.escort /\ y.summon = x.summon /\ y.return_leg = x.return_leg

LEMMA Advancing ==
    ASSUME NEW v \in World, NEW t \in Token
    PROVE  Advances(v, [v EXCEPT !.encounter[t].phase = "succeeded", !.quest[t] = "none"], t)
<1> DEFINE x == v.encounter[t]
           y == [x EXCEPT !.phase = "succeeded"]
           C == [v.encounter EXCEPT ![t] = y]
           Q == [v.quest EXCEPT ![t] = "none"]
           u == [v EXCEPT !.encounter[t].phase = "succeeded", !.quest[t] = "none"]
<1>1. x \in Encounter
  BY Fields
<1>2. u = [v EXCEPT !.encounter = C, !.quest = Q]
  BY Fields
<1> HIDE DEF u, x
<1>3. /\ y \in Encounter /\ y.kind = x.kind /\ y.phase = "succeeded" /\ y.spawned = x.spawned
      /\ y.escort = x.escort /\ y.summon = x.summon /\ y.return_leg = x.return_leg
  BY <1>1 DEF Encounter, Phase
<1> HIDE DEF y
<1>4. C \in [Token -> Encounter] /\ C[t] = y /\ \A o \in Token \ {t} : C[o] = v.encounter[o]
  BY <1>3, Fields
<1>5. Q \in [Token -> Some] /\ Q[t] = "none" /\ \A o \in Token \ {t} : Q[o] = v.quest[o]
  BY Fields DEF Some
<1> HIDE DEF C, Q
<1>6. /\ u \in World /\ u.entities = v.entities /\ u.players = v.players
      /\ u.player_entities = v.player_entities /\ u.at = v.at /\ u.active = v.active
      /\ u.quest = Q /\ u.encounter = C
  BY <1>2, <1>4, <1>5 DEF World
<1>7. Advances(v, u, t)
  BY <1>3, <1>4, <1>5, <1>6 DEF Advances, x
<1> QED BY <1>7 DEF u

LEMMA AdvancesKeeps ==
    ASSUME NEW R, NEW v, NEW u, NEW t \in Token, Standing(v), Advances(v, u, t), v.encounter[t].kind # "none"
    PROVE  Keeps(v, u, R) /\ Spends(v, u, t) /\ Used(u) \subseteq Used(v)
<1>1. v \in World /\ \A o \in Token : Phased(v.encounter[o], v.quest[o])
  BY DEF Standing
<1>2. /\ u \in World /\ u.entities = v.entities /\ u.players = v.players
      /\ u.player_entities = v.player_entities
      /\ \A o \in Token \ {t} : u.quest[o] = v.quest[o] /\ u.encounter[o] = v.encounter[o]
  BY DEF Advances
<1>3. Removed(v, {}, u)
  BY <1>2 DEF Removed
<1>4. Fades(v, {}, u, t) /\ Spares(v, {}, u, t)
  <2>1. Phased(u.encounter[t], u.quest[t])
    BY <1>1 DEF Phased, Advances
  <2>2. ~Leads(u.encounter[t])
    BY DEF Advances, Leads
  <2> QED BY <2>1, <2>2 DEF Fades, Spares, Advances
<1>5. \A o \in Token \ {t} : Fades(v, {}, u, o) /\ Spares(v, {}, u, o)
  BY <1>1, <1>2 DEF Fades, Spares
<1>6. Keeps(v, u, R) /\ Used(u) \subseteq Used(v)
  <2>1. \A o \in Token : Fades(v, {}, u, o) /\ Spares(v, {}, u, o)
    BY <1>4, <1>5
  <2> QED BY <1>3, <2>1, Pruned
<1> QED BY <1>2, <1>6 DEF Spends, Advances

LEMMA RepairSucceeded ==
    ASSUME NEW R, NEW v, NEW t \in Token, NEW s, Standing(v), Advances(v, s, t), Leads(v.encounter[t])
    PROVE  LET u == _bridge_repair_success(s, t)
           IN  Keeps(v, u, R) /\ Spends(v, u, t) /\ Used(u) \subseteq Used(v)
<1> DEFINE own == v.encounter[t].spawned
           x == v.encounter[t]
           gone == own \ {x.escort}
           r == _clear_bridge_wave_beavers(s, t)
           y == [r.encounter[t] EXCEPT !.phase = "returning", !.return_leg = TRUE]
           u == _bridge_repair_success(s, t)
<1>1. v \in World /\ x \in Encounter /\ (\A o \in Token : Phased(v.encounter[o], v.quest[o])) /\ s \in World
  BY Fields DEF Standing, Advances
<1>2. /\ s.entities = v.entities /\ s.players = v.players /\ s.player_entities = v.player_entities
      /\ s.quest[t] = "none"
      /\ \A o \in Token \ {t} : s.quest[o] = v.quest[o] /\ s.encounter[o] = v.encounter[o]
      /\ s.encounter[t] \in Encounter /\ s.encounter[t].kind = x.kind
      /\ s.encounter[t].spawned = own /\ s.encounter[t].escort = x.escort /\ s.encounter[t].summon = x.summon
  BY DEF Advances
<1>3. /\ own \subseteq Used(v) /\ \A id \in gone : v.entities[id].what # "player"
      /\ Settled(v, R) => \A o \in (Token \ R) \ {t} : Leads(v.encounter[o]) => v.encounter[o].escort \notin own
  BY OwnOnly
<1>4. gone \cap Used(s) = gone
  BY <1>2, <1>3 DEF Used
<1>5. r = RemoveAll(s, gone)
  BY <1>2 DEF _clear_bridge_wave_beavers
<1> HIDE DEF own, gone, r, x, u
<1>6. Removed(s, gone, r) /\ Apart(s, r) /\ r.encounter = [o \in Token |-> Without(s.encounter[o], gone)]
  <2>1. s \in World
    BY <1>1
  <2>2. /\ Removed(s, gone \cap Used(s), RemoveAll(s, gone)) /\ Apart(s, RemoveAll(s, gone))
        /\ RemoveAll(s, gone).encounter = [o \in Token |-> Without(s.encounter[o], gone \cap Used(s))]
    BY <2>1, Removing
  <2> QED BY <1>4, <1>5, <2>2
<1>7. r \in World
  BY <1>6 DEF Removed
<1>8. x.escort \notin gone /\ gone \subseteq own
  BY DEF gone
<1>9. /\ r.encounter[t] \in Encounter /\ r.encounter[t].kind = x.kind
      /\ r.encounter[t].spawned = own \ gone /\ r.encounter[t].escort = x.escort /\ r.encounter[t].summon = x.summon
  <2>1. r.encounter[t] = Without(s.encounter[t], gone)
    BY <1>6
  <2> QED BY <1>2, <1>8, <2>1, WithoutFields
<1>10. /\ y \in Encounter /\ y.kind = x.kind /\ y.phase = "returning" /\ y.return_leg = TRUE
       /\ y.spawned = own \ gone /\ y.escort = x.escort /\ y.summon = x.summon
  BY <1>9 DEF Encounter, Phase
<1>11. u = Put(r, t, y)
  <2>1. u = [r EXCEPT !.encounter[t].phase = "returning", !.encounter[t].return_leg = TRUE]
    BY DEF _bridge_repair_success, u, r
  <2> QED BY <1>7, <2>1, Fields DEF Put
<1> HIDE DEF y
<1>12. Only(r, u, t) /\ u.encounter[t] = y
  BY <1>7, <1>10, <1>11, Updating
<1>13. Removed(v, gone, u)
  BY <1>2, <1>6, <1>12 DEF Removed, Only, Beside2
<1>14. \A o \in Token \ {t} : u.encounter[o] = Without(v.encounter[o], gone) /\ u.quest[o] = v.quest[o]
  BY <1>2, <1>6, <1>12 DEF Only, Beside2, Apart
<1>15. u.quest[t] = "none"
  BY <1>2, <1>6, <1>12 DEF Only, Beside2, Apart
<1>16. \A o \in Token : v.player_entities[o] \notin gone
  BY <1>3, <1>13, NobodyLeaves
<1>17. Fades(v, gone, u, t) /\ Spares(v, gone, u, t)
  <2>1. Phased(y, "none")
    <3>1. x.kind = "bridge" /\ Phased(x, v.quest[t])
      BY <1>1 DEF Leads, x
    <3> QED BY <1>10, <3>1 DEF Phased
  <2>2. u.encounter[t].spawned = v.encounter[t].spawned \ gone /\ u.encounter[t].kind = v.encounter[t].kind
        /\ u.encounter[t].summon = v.encounter[t].summon /\ u.encounter[t].escort = v.encounter[t].escort
        /\ v.encounter[t].escort \notin gone
    BY <1>8, <1>10, <1>12 DEF x, own
  <2> QED BY <1>12, <1>15, <1>16, <2>1, <2>2 DEF Fades, Spares
<1>18. \A o \in Token \ {t} : Fades(v, gone, u, o) /\ u.encounter[o].kind = v.encounter[o].kind
  BY <1>14, WithoutFades
<1>19. ASSUME Settled(v, R), NEW o \in (Token \ R) \ {t} PROVE Spares(v, gone, u, o)
  BY <1>3, <1>8, <1>14, <1>16, <1>19, WithoutSpares
<1>20. Keeps(v, u, R) /\ Used(u) \subseteq Used(v)
  BY <1>13, <1>17, <1>18, <1>19, Pruned
<1>21. Spends(v, u, t)
  BY <1>14, <1>15, <1>18, <1>20 DEF Spends
<1> QED BY <1>20, <1>21 DEF u

LEMMA Succeeded ==
    ASSUME NEW R, NEW v, NEW t \in Token, Standing(v), v.encounter[t].kind = "gorvak" \/ Leads(v.encounter[t])
    PROVE  LET u == succeed_scripted_encounter(v, t)
           IN  Keeps(v, u, R) /\ Spends(v, u, t) /\ Used(u) \subseteq Used(v)
<1>1. CASE v.encounter[t].phase \in {"succeeded", "cleanup"}
  BY <1>1 DEF succeed_scripted_encounter, Keeps, Spends
<1>2. CASE v.encounter[t].phase \notin {"succeeded", "cleanup"}
  <2> DEFINE s == [v EXCEPT !.encounter[t].phase = "succeeded", !.quest[t] = "none"]
  <2>1. v \in World
    BY DEF Standing
  <2>2. Advances(v, s, t)
    BY <2>1, Advancing
  <2>3. CASE v.encounter[t].kind = "bridge"
    <3>1. succeed_scripted_encounter(v, t) = _bridge_repair_success(s, t)
      BY <1>2, <2>3 DEF succeed_scripted_encounter
    <3>2. Leads(v.encounter[t])
      BY <2>3
    <3> HIDE DEF s
    <3> QED BY <2>2, <3>1, <3>2, RepairSucceeded
  <2>4. CASE v.encounter[t].kind # "bridge"
    <3> DEFINE u == _remove_encounter_entities(s, t)
    <3>1. succeed_scripted_encounter(v, t) = u
      BY <1>2, <2>4 DEF succeed_scripted_encounter
    <3> HIDE DEF s
    <3>2. v.encounter[t].kind = "gorvak"
      BY <2>4 DEF Leads
    <3>3. Keeps(v, s, R) /\ Spends(v, s, t) /\ Used(s) \subseteq Used(v) /\ Standing(s)
      BY <2>2, <3>2, AdvancesKeeps DEF Keeps
    <3>4. /\ Discards(s, u, t) /\ u.encounter[t].kind = s.encounter[t].kind
          /\ u.encounter[t].phase = s.encounter[t].phase /\ u.encounter[t].summon = s.encounter[t].summon
          /\ u.encounter[t].spawned = {}
      BY <3>3, Unburdening
    <3> HIDE DEF u
    <3>5. s.encounter[t].phase = "succeeded" /\ s.encounter[t].kind = "gorvak"
      BY <2>2, <3>2 DEF Advances
    <3>6. Phased(u.encounter[t], s.quest[t]) /\ ~Leads(u.encounter[t])
      BY <3>4, <3>5 DEF Phased, Leads
    <3>7. Keeps(s, u, R) /\ Spends(s, u, t) /\ Used(u) \subseteq Used(s)
      BY <3>3, <3>4, <3>6, Discarded
    <3>8. Keeps(v, u, R) /\ Spends(v, u, t)
      BY <3>3, <3>7, KeepsTrans, SpendsTrans
    <3> QED BY <3>1, <3>3, <3>7, <3>8
  <2> QED BY <2>3, <2>4
<1> QED BY <1>1, <1>2

\* Players, stages and the kinds of the encounters stay; no id is taken.
Stays(v, u, R) ==
    /\ Keeps(v, u, R) /\ Used(u) \subseteq Used(v)
    /\ u.players = v.players /\ u.player_entities = v.player_entities /\ u.quest = v.quest
    /\ \A t \in Token : u.encounter[t].kind = v.encounter[t].kind

LEMMA StaysTrans ==
    ASSUME NEW R, NEW v, NEW u, NEW x, Stays(v, u, R), Stays(u, x, R)
    PROVE  Stays(v, x, R)
<1>1. Keeps(v, x, R)
  BY KeepsTrans DEF Stays
<1> QED BY <1>1 DEF Stays

LEMMA StaysSpends ==
    ASSUME NEW R, NEW v, NEW u, NEW t \in Token, Stays(v, u, R)
    PROVE  Spends(v, u, t)
  BY DEF Stays, Spends

LEMMA MovesStays ==
    ASSUME NEW R, NEW v, NEW u, Standing(v), Moves(v, u)
    PROVE  Stays(v, u, R)
<1>1. Keeps(v, u, R) /\ Used(u) \subseteq Used(v)
  BY Moved
<1> QED BY <1>1 DEF Stays, Moves

LEMMA Escorted ==
    ASSUME NEW R, NEW v, NEW t \in Token, NEW arrives, Standing(v), v.encounter[t].phase \in {"escorting", "returning"},
           v.encounter[t].phase = "escorting" => t \in v.players /\ Id \ Used(v) # {}
    PROVE  Keeps(v, _advance_scripted_escort(v, t, arrives), R) /\ Spends(v, _advance_scripted_escort(v, t, arrives), t)
<1>1. CASE ~Alive(v, v.encounter[t].escort)
  <2>1. _advance_scripted_escort(v, t, arrives) = fail_scripted_encounter(v, t)
    BY <1>1 DEF _advance_scripted_escort
  <2> QED BY <2>1, Failed
<1>2. CASE Alive(v, v.encounter[t].escort) /\ arrives
  <2>1. _advance_scripted_escort(v, t, arrives) = _scripted_escort_arrived(v, t)
    BY <1>2 DEF _advance_scripted_escort
  <2>2. CASE v.encounter[t].return_leg
    <3>1. _scripted_escort_arrived(v, t) = cleanup_scripted_encounter(v, t)
      BY <2>2 DEF _scripted_escort_arrived
    <3> QED BY <2>1, <3>1, CleanedUpAfter
  <2>3. CASE ~v.encounter[t].return_leg
    <3>1. _scripted_escort_arrived(v, t) = activate_scripted_encounter(v, t)
      BY <2>3 DEF _scripted_escort_arrived
    <3>2. v.encounter[t].phase = "escorting" /\ v.encounter[t].kind = "bridge"
      BY <2>3 DEF Standing, Phased
    <3> QED BY <2>1, <3>1, <3>2, Activated
  <2> QED BY <2>2, <2>3
<1>3. CASE Alive(v, v.encounter[t].escort) /\ ~arrives
  BY <1>3 DEF _advance_scripted_escort, Keeps, Spends
<1> QED BY <1>1, <1>2, <1>3

-----------------------------------------------------------------------------
(* Removals that no encounter asks for.                                     *)

\* Temporary things, or what an owner without an encounter has.
LEMMA Cleared ==
    ASSUME NEW R, NEW v, NEW ids, Standing(v), \A id \in ids \cap Used(v) : v.entities[id].what # "player",
           Settled(v, R) => \A t \in Token \ R : Leads(v.encounter[t]) => v.encounter[t].escort \notin ids
    PROVE  Stays(v, RemoveAll(v, ids), R) /\ Apart(v, RemoveAll(v, ids))
           /\ \A t \in Token : v.encounter[t].spawned = {} => RemoveAll(v, ids).encounter[t].spawned = {}
<1> DEFINE gone == ids \cap Used(v)
           u == RemoveAll(v, ids)
<1>1. v \in World /\ \A t \in Token : v.encounter[t] \in Encounter
  BY Fields DEF Standing
<1>2. Removed(v, gone, u) /\ Apart(v, u) /\ u.encounter = [t \in Token |-> Without(v.encounter[t], gone)]
  BY <1>1, Removing
<1>3. \A id \in gone : v.entities[id].what # "player"
  OBVIOUS
<1>4. Settled(v, R) => \A t \in Token \ R : Leads(v.encounter[t]) => v.encounter[t].escort \notin gone
  OBVIOUS
<1> HIDE DEF gone, u
<1>5. /\ u.players = v.players /\ u.player_entities = v.player_entities
      /\ \A t \in Token : v.player_entities[t] \notin gone
  BY <1>2, <1>3, NobodyLeaves
<1>6. \A t \in Token : u.encounter[t] = Without(v.encounter[t], gone) /\ u.quest[t] = v.quest[t]
  BY <1>2 DEF Apart
<1>7. \A t \in Token : Fades(v, gone, u, t) /\ u.encounter[t].kind = v.encounter[t].kind
  BY <1>6, WithoutFades
<1>8. ASSUME Settled(v, R), NEW t \in Token \ R PROVE Spares(v, gone, u, t)
  BY <1>4, <1>5, <1>6, <1>8, WithoutSpares
<1>9. Keeps(v, u, R) /\ Used(u) \subseteq Used(v)
  BY <1>2, <1>7, <1>8, Pruned
<1>10. Stays(v, u, R)
  BY <1>2, <1>5, <1>7, <1>9 DEF Stays, Apart
<1>11. \A t \in Token : v.encounter[t].spawned = {} => u.encounter[t].spawned = {}
  BY <1>7 DEF Fades
<1> QED BY <1>2, <1>10, <1>11 DEF u

LEMMA ZonesUpdated ==
    ASSUME NEW R, NEW v, Standing(v)
    PROVE  Stays(v, update_active_zones(v), R)
<1> DEFINE wanted == desired_active_zones(v)
           asleep == v.active \ wanted
           lost == {id \in Id : (\E z \in asleep : id \in v.zones[z]) /\ is_temporary(v.entities[id])}
           r == RemoveAll(v, lost)
           Z == [z \in Place |-> IF z \in wanted THEN r.zones[z] ELSE {}]
           u == update_active_zones(v)
<1>1. \A id \in lost : v.entities[id].what \notin {"player", "wilhelm"}
  BY DEF is_temporary
<1>2. u = [r EXCEPT !.active = wanted, !.zones = Z]
  BY DEF update_active_zones
<1>3. wanted \in SUBSET Place
  BY DEF desired_active_zones
<1>4. Stays(v, r, R)
  <2> HIDE DEF lost
  <2>1. ASSUME Settled(v, R), NEW t \in Token \ R, Leads(v.encounter[t])
        PROVE  v.encounter[t].escort \notin lost
    <3>1. v.entities[v.encounter[t].escort].what = "wilhelm"
      BY <2>1 DEF Settled, Guided
    <3> QED BY <1>1, <3>1
  <2> QED BY <1>1, <2>1, Cleared
<1>5. r \in World /\ Standing(r)
  BY <1>4 DEF Stays, Keeps, Standing
<1>6. Z \in [Place -> SUBSET Id]
  BY <1>5, Fields
<1> HIDE DEF u, r, Z, wanted
<1>7. /\ u \in World /\ u.entities = r.entities /\ u.players = r.players /\ u.encounter = r.encounter
      /\ u.player_entities = r.player_entities /\ u.quest = r.quest
  BY <1>2, <1>3, <1>5, <1>6 DEF World
<1>8. Stays(r, u, R)
  <2>1. Moves(r, u)
    BY <1>7 DEF Moves
  <2> QED BY <1>5, <2>1, MovesStays
<1>9. Stays(v, u, R)
  BY <1>4, <1>8, StaysTrans
<1> QED BY <1>9 DEF u

LEMMA Synced ==
    ASSUME NEW R, NEW v, NEW t \in Token, Standing(v)
    PROVE  Stays(v, _sync_player_entity(v, t), R)
<1>1. CASE v.player_entities[t] = 0
  <2>1. _sync_player_entity(v, t) = v
    BY <1>1 DEF _sync_player_entity
  <2> QED BY <2>1 DEF Stays, Keeps
<1>2. CASE v.player_entities[t] # 0
  <2> DEFINE id == v.player_entities[t]
             e == [v.entities[id] EXCEPT !.zone = v.at[t]]
             E == [v.entities EXCEPT ![id] = e]
             u == _sync_player_entity(v, t)
  <2>1. v \in World /\ Embodied(v)
    BY DEF Standing
  <2>2. id \in Id /\ v.entities[id].what = "player" /\ v.entities[id] \in Entity /\ v.at[t] \in Place
    BY <1>2, <2>1, Fields DEF Embodied
  <2>3. u = [v EXCEPT !.entities = E]
    BY <1>2 DEF _sync_player_entity
  <2> HIDE DEF id, u
  <2>4. e \in Entity /\ e.what = "player" /\ e.owner = v.entities[id].owner /\ e.live = v.entities[id].live
    BY <2>2 DEF Entity
  <2> HIDE DEF e
  <2>5. E \in [Id -> Entity] /\ E[id] = e /\ \A i \in Id \ {id} : E[i] = v.entities[i]
    BY <2>1, <2>2, <2>4, Fields
  <2> HIDE DEF E
  <2>6. /\ u \in World /\ u.entities = E /\ u.players = v.players /\ u.encounter = v.encounter
        /\ u.player_entities = v.player_entities /\ u.quest = v.quest
    BY <2>1, <2>3, <2>5 DEF World
  <2>7. Moves(v, u)
    BY <2>2, <2>4, <2>5, <2>6, Blank DEF Moves
  <2>8. Stays(v, u, R)
    BY <2>7, MovesStays
  <2> QED BY <2>8 DEF u
<1> QED BY <1>1, <1>2

LEMMA Died ==
    ASSUME NEW R, NEW v, NEW t \in Token, Standing(v)
    PROVE  Stays(v, handle_player_death(v, t), R)
<1> DEFINE f == fail_scripted_encounter(v, t)
           A == [f.at EXCEPT ![t] = IF f.at[t] = "road" THEN "road" ELSE "mouth"]
           g == [f EXCEPT !.at[t] = IF f.at[t] = "road" THEN "road" ELSE "mouth"]
           h == _sync_player_entity(g, t)
           u == update_active_zones(h)
<1>1. handle_player_death(v, t) = u
  BY DEF handle_player_death
<1>2. Stays(v, f, R)
  <2>1. /\ Keeps(v, f, R) /\ Spends(v, f, t) /\ Used(f) \subseteq Used(v)
        /\ f.players = v.players /\ f.player_entities = v.player_entities
        /\ f.quest = v.quest /\ f.encounter[t].kind = v.encounter[t].kind
    BY Failed
  <2> QED BY <2>1 DEF Stays, Spends
<1> HIDE DEF f
<1>3. Standing(f) /\ f \in World
  BY <1>2 DEF Stays, Keeps, Standing
<1>4. A \in [Token -> Place]
  BY <1>3, Fields DEF Place
<1>5. g = [f EXCEPT !.at = A]
  OBVIOUS
<1> HIDE DEF g, A
<1>6. /\ g \in World /\ g.entities = f.entities /\ g.players = f.players /\ g.encounter = f.encounter
      /\ g.player_entities = f.player_entities /\ g.quest = f.quest
  BY <1>3, <1>4, <1>5 DEF World
<1>7. Stays(f, g, R)
  <2>1. Moves(f, g)
    BY <1>6 DEF Moves
  <2> QED BY <1>3, <2>1, MovesStays
<1>8. Stays(v, g, R) /\ Standing(g)
  BY <1>2, <1>7, StaysTrans DEF Stays, Keeps
<1>9. Stays(g, h, R) /\ Standing(h)
  BY <1>8, Synced DEF Stays, Keeps
<1> HIDE DEF h
<1>10. Stays(h, u, R)
  BY <1>9, ZonesUpdated
<1> HIDE DEF u
<1> QED BY <1>1, <1>8, <1>9, <1>10, StaysTrans

-----------------------------------------------------------------------------
(* One tick of one encounter.                                               *)

LEMMA SummonOver ==
    ASSUME NEW R, NEW v, NEW t \in Token, Standing(v), NEW u, u = [v EXCEPT !.encounter[t].summon = 0]
    PROVE  Keeps(v, u, R) /\ Spends(v, u, t) /\ Used(u) = Used(v) /\ Beside2(v, u)
           /\ u.encounter[t].kind = v.encounter[t].kind /\ u.encounter[t].phase = v.encounter[t].phase
<1> DEFINE x == v.encounter[t]
           y == [x EXCEPT !.summon = 0]
           r == Put(v, t, y)
<1>1. v \in World /\ x \in Encounter /\ Phased(x, v.quest[t])
  BY Fields DEF Standing
<1>2. u = r
  BY DEF Put
<1> HIDE DEF r, x
<1>3. /\ y \in Encounter /\ y.kind = x.kind /\ y.phase = x.phase /\ y.spawned = x.spawned
      /\ y.escort = x.escort /\ y.summon = 0 /\ y.return_leg = x.return_leg
  BY <1>1 DEF Encounter
<1> HIDE DEF y
<1>4. Only(v, r, t) /\ r.encounter[t] = y
  BY <1>1, <1>3, Updating DEF r
<1>5. Phased(y, v.quest[t]) /\ (Leads(y) => Leads(x))
  BY <1>1, <1>3 DEF Phased, Leads
<1>6. Keeps(v, r, R) /\ Spends(v, r, t) /\ Used(r) = Used(v)
  BY <1>3, <1>4, <1>5, Turned DEF x
<1> QED BY <1>2, <1>3, <1>4, <1>6 DEF Only, x

LEMMA GorvakTicked ==
    ASSUME NEW R, NEW v, NEW t \in Token, NEW ch, ch.calls \in {"none", "lair", "pit"}, Standing(v),
           v.encounter[t].kind = "gorvak", v.quest[t] # "none", t \in v.players, Id \ Used(v) # {}
    PROVE  Keeps(v, _advance_gorvak_encounter(v, t, ch), R) /\ Spends(v, _advance_gorvak_encounter(v, t, ch), t)
<1> DEFINE a == _advance_gorvak_boss_ai(v, t, ch)
           summon == a.encounter[t].summon
           missing == summon = 0 \/ a.entities[summon] = Nothing
           u == _advance_gorvak_encounter(v, t, ch)
           s == [a EXCEPT !.encounter[t].summon = 0]
<1>1. u \in {v, s, _spawn_gorvak_summon(a, t, ch.calls), a}
      /\ (u = _spawn_gorvak_summon(a, t, ch.calls) => u \in {v, s, a} \/ ch.calls # "none")
  BY DEF _advance_gorvak_encounter
<1>2. Stays(v, a, R)
  <2>1. Stays(v, v, R)
    BY DEF Stays, Keeps
  <2>2. a \in {v, handle_player_death(v, t)}
    BY DEF _advance_gorvak_boss_ai
  <2> HIDE DEF a
  <2> QED BY <2>1, <2>2, Died
<1> SUFFICES Keeps(v, u, R) /\ Spends(v, u, t)
  OBVIOUS
<1> HIDE DEF a, u
<1>3. /\ Standing(a) /\ a.encounter[t].kind = "gorvak" /\ a.quest[t] # "none" /\ t \in a.players /\ Id \ Used(a) # {}
      /\ Keeps(v, a, R) /\ Spends(v, a, t) /\ Used(a) \subseteq Used(v)
  BY <1>2, StaysSpends DEF Stays, Keeps
<1>4. CASE u = v
  BY <1>4 DEF Keeps, Spends
<1>5. CASE u = a
  BY <1>3, <1>5
<1>6. CASE u = s
  <2>1. Keeps(a, s, R) /\ Spends(a, s, t)
    BY <1>3, SummonOver
  <2> HIDE DEF s
  <2> QED BY <1>3, <1>6, <2>1, KeepsTrans, SpendsTrans
<1>7. CASE u = _spawn_gorvak_summon(a, t, ch.calls) /\ u \notin {v, s, a}
  <2> DEFINE x == _spawn_gorvak_summon(a, t, ch.calls)
  <2>1. ch.calls \in Place
    BY <1>1, <1>7 DEF Place
  <2>2. Keeps(a, x, R) /\ Spends(a, x, t)
    BY <1>3, <2>1, Summoned
  <2>3. u = x
    BY <1>7
  <2> HIDE DEF x
  <2> QED BY <1>3, <2>2, <2>3, KeepsTrans, SpendsTrans
<1> HIDE DEF s
<1> QED BY <1>1, <1>4, <1>5, <1>6, <1>7

LEMMA EncounterTicked ==
    ASSUME NEW R, NEW v, NEW t \in Token, NEW ch, ch.calls \in {"none", "lair", "pit"}, Standing(v),
           v.quest[t] # "none" => Id \ Used(v) # {}
    PROVE  Keeps(v, _update_scripted_encounters(v, t, ch), R) /\ Spends(v, _update_scripted_encounters(v, t, ch), t)
<1> DEFINE e == v.encounter[t]
           present == owner_is_present(v, t)
           u == _update_scripted_encounters(v, t, ch)
<1> SUFFICES Keeps(v, u, R) /\ Spends(v, u, t)
  OBVIOUS
<1>1. v \in World /\ e \in Encounter /\ Phased(e, v.quest[t])
  BY Fields DEF Standing
<1>2. e.phase \in Phase /\ e.kind \in Some
  BY <1>1, EncounterFields
<1>3. present => t \in v.players
  BY DEF owner_is_present
<1>4. present \in BOOLEAN
  BY DEF owner_is_present
<1> HIDE DEF present
<1>5. Keeps(v, v, R) /\ Spends(v, v, t)
  BY DEF Keeps, Spends
<1>6. CASE e.phase = "none"
  <2>1. u = v
    BY <1>6 DEF _update_scripted_encounters
  <2> QED BY <1>5, <2>1
<1>7. CASE e.phase \in {"failed", "succeeded"}
  <2> DEFINE a == [v EXCEPT !.encounter[t].phase = "cleanup"]
  <2>1. u = a
    BY <1>7 DEF _update_scripted_encounters
  <2>2. InPhase(v, a, t, "cleanup")
    BY <1>1, Phasing DEF Phase
  <2> HIDE DEF a
  <2>3. e.kind # "none"
    BY <1>1, <1>7 DEF Phased
  <2>4. Keeps(v, a, R) /\ Spends(v, a, t)
    BY <2>2, <2>3, Ended
  <2> QED BY <2>1, <2>4
<1>8. CASE e.phase = "cleanup"
  <2>1. u = cleanup_scripted_encounter(v, t)
    BY <1>8 DEF _update_scripted_encounters
  <2> QED BY <2>1, CleanedUpAfter
<1>9. CASE e.phase \in {"escorting", "active"} /\ ~present
  <2>1. u \in {v, fail_scripted_encounter(v, t)}
    BY <1>9 DEF _update_scripted_encounters, present
  <2> HIDE DEF u
  <2>2. CASE u = v
    BY <1>5, <2>2
  <2>3. CASE u = fail_scripted_encounter(v, t)
    BY <2>3, Failed
  <2> QED BY <2>1, <2>2, <2>3
<1>10. CASE e.phase \in {"escorting", "returning"} /\ (present \/ e.phase = "returning")
  <2>1. u = _advance_scripted_escort(v, t, ch.arrives)
    BY <1>10 DEF _update_scripted_encounters, present
  <2>2. e.phase = "escorting" => t \in v.players /\ Id \ Used(v) # {}
    BY <1>1, <1>3, <1>10 DEF Phased
  <2> HIDE DEF u
  <2> QED BY <1>10, <2>1, <2>2, Escorted
<1>11. CASE e.phase = "active" /\ present
  <2>1. v.quest[t] # "none" /\ t \in v.players /\ Id \ Used(v) # {} /\ e.kind # "none"
    BY <1>1, <1>3, <1>11 DEF Phased
  <2>2. CASE e.kind = "gorvak"
    <3>1. u = _advance_gorvak_encounter(v, t, ch)
      BY <1>11, <2>2 DEF _update_scripted_encounters, present
    <3> HIDE DEF u
    <3> QED BY <2>1, <2>2, <3>1, GorvakTicked
  <2>3. CASE e.kind = "bridge"
    <3>1. u \in {succeed_scripted_encounter(v, t), _spawn_bridge_wave(v, t), v}
      BY <1>11, <2>3 DEF _update_scripted_encounters, present
    <3> HIDE DEF u
    <3>2. Leads(e)
      BY <1>11, <2>3 DEF Leads
    <3>3. CASE u = v
      BY <1>5, <3>3
    <3>4. CASE u = _spawn_bridge_wave(v, t)
      BY <2>1, <3>4, Wave
    <3>5. CASE u = succeed_scripted_encounter(v, t)
      BY <3>2, <3>5, Succeeded
    <3> QED BY <3>1, <3>3, <3>4, <3>5
  <2> QED BY <1>2, <2>1, <2>2, <2>3 DEF Some
<1> HIDE DEF u
<1> QED BY <1>2, <1>4, <1>6, <1>7, <1>8, <1>9, <1>10, <1>11 DEF Phase

LEMMA Met ==
    ASSUME NEW R, NEW v, NEW t \in Token, Standing(v),
           v.quest[t] # "none" /\ v.encounter[t].kind = "none" => Id \ Used(v) # {}
    PROVE  LET u == _update_gorvak_encounter_state(v, t)
           IN  /\ Keeps(v, u, R)
               /\ \/ u = v
                  \/ v.quest[t] # "none" /\ v.encounter[t].kind = "none" /\ Spends(v, u, t)
<1>1. CASE t \in v.players /\ v.quest[t] = "gorvak" /\ v.at[t] \in {"lair", "pit"} /\ v.encounter[t] = NoEncounter
  <2>1. _update_gorvak_encounter_state(v, t) = _spawn_gorvak_encounter(v, t)
    BY <1>1 DEF _update_gorvak_encounter_state
  <2>2. v.encounter[t].kind = "none" /\ Id \ Used(v) # {}
    BY <1>1, Blank
  <2> QED BY <1>1, <2>1, <2>2, GorvakEncounter
<1>2. CASE ~(t \in v.players /\ v.quest[t] = "gorvak" /\ v.at[t] \in {"lair", "pit"} /\ v.encounter[t] = NoEncounter)
  BY <1>2 DEF _update_gorvak_encounter_state, Keeps
<1> QED BY <1>1, <1>2

-----------------------------------------------------------------------------
(* A tick, player after player.  There is an id for each encounter that may *)
(* want one: for those to come, and for those that may yet meet Gorvak.     *)

LEMMA Induction ==
    ASSUME NEW n \in Nat, NEW T \in SUBSET (0..n), 0 \in T, \A i \in 0..(n - 1) : i \in T => i + 1 \in T
    PROVE  \A i \in 0..n : i \in T
<1> DEFINE U == (0..n) \ T
<1>1. SUFFICES ASSUME U # {} PROVE FALSE
  OBVIOUS
<1>2. PICK i \in U : \A j \in U : i <= j
  <2>1. U \in SUBSET Nat
    OBVIOUS
  <2> HIDE DEF U
  <2> QED BY <1>1, <2>1, Smallest
<1>3. i # 0 /\ i - 1 \in 0..(n - 1) /\ i - 1 \notin U
  BY <1>2
<1>4. i - 1 \in T /\ (i - 1) + 1 = i
  BY <1>3
<1> QED BY <1>2, <1>3, <1>4

N == Cardinality(Token)

LEMMA EachOnce ==
    /\ N \in Nat /\ \A i \in 1..N : Order[i] \in Token
    /\ \A i, j \in 1..N : Order[i] = Order[j] => i = j
<1>1. IsFiniteSet(Token)
  BY EncountersAssumption DEF EncountersAssumption
<1>2. N \in Nat /\ ExistsBijection(1..N, Token)
  BY <1>1, FS_CardinalityType DEF N
<1>3. \E f \in [1..N -> Token] : \A a, b \in DOMAIN f : f[a] = f[b] => a = b
  <2>1. PICK f \in Bijection(1..N, Token) : TRUE
    BY <1>2 DEF ExistsBijection
  <2>2. f \in [1..N -> Token] /\ \A a, b \in 1..N : f[a] = f[b] => a = b
    BY <2>1 DEF Bijection, Injection, IsInjective
  <2> QED BY <2>2
<1>4. Order \in [1..N -> Token] /\ \A a, b \in DOMAIN Order : Order[a] = Order[b] => a = b
  BY <1>3 DEF Order, SetToSeq, IsInjective, N
<1> QED BY <1>2, <1>4

Ids(v) == Cardinality(Id \ Used(v))

LEMMA Counting ==
    ASSUME NEW v
    PROVE  /\ IsFiniteSet(Id \ Used(v)) /\ Ids(v) \in Nat
           /\ Ids(v) > 0 => Id \ Used(v) # {}
<1>1. IsFiniteSet(Id)
  <2>1. MaxId \in Int
    BY EncountersAssumption DEF EncountersAssumption
  <2> QED BY <2>1, FS_Interval DEF Id
<1>2. IsFiniteSet(Id \ Used(v))
  BY <1>1, FS_Subset
<1>3. Cardinality(Id \ Used(v)) \in Nat
  BY <1>2, FS_CardinalityType
<1>4. Cardinality(Id \ Used(v)) > 0 => Id \ Used(v) # {}
  BY FS_EmptySet
<1> QED BY <1>2, <1>3, <1>4 DEF Ids

LEMMA TokensFinite ==
    ASSUME NEW S \in SUBSET Token
    PROVE  IsFiniteSet(S) /\ Cardinality(S) \in Nat /\ (S # {} => Cardinality(S) > 0)
<1>1. IsFiniteSet(Token)
  BY EncountersAssumption DEF EncountersAssumption
<1>2. IsFiniteSet(S)
  BY <1>1, FS_Subset
<1>3. Cardinality(S) \in Nat
  BY <1>2, FS_CardinalityType
<1>4. Cardinality(S) = 0 => S = {}
  BY <1>2, FS_EmptySet
<1> QED BY <1>2, <1>3, <1>4

\* Ids enough for S, and for what is left of it after a step.
LEMMA Affords ==
    ASSUME NEW v, NEW u, NEW S \in SUBSET Token, NEW T \in SUBSET Token, Ids(v) >= Cardinality(S),
           \/ Used(u) \subseteq Used(v) /\ T \subseteq S
           \/ \E id \in Id, t \in S : Used(u) \subseteq Used(v) \cup {id} /\ T \subseteq S \ {t}
    PROVE  Ids(u) >= Cardinality(T)
<1> DEFINE A == Id \ Used(v)
           B == Id \ Used(u)
<1>1. IsFiniteSet(A) /\ IsFiniteSet(B) /\ Cardinality(A) \in Nat /\ Cardinality(B) \in Nat /\ Cardinality(A) >= Cardinality(S)
  BY Counting DEF Ids
<1>2. IsFiniteSet(S) /\ Cardinality(S) \in Nat /\ Cardinality(T) \in Nat
  BY TokensFinite
<1>3. CASE Used(u) \subseteq Used(v) /\ T \subseteq S
  <2>1. A \subseteq B
    BY <1>3
  <2> HIDE DEF A, B
  <2>2. Cardinality(A) <= Cardinality(B)
    BY <1>1, <2>1, FS_Subset
  <2>3. Cardinality(T) <= Cardinality(S)
    BY <1>2, <1>3, FS_Subset
  <2>4. Cardinality(B) >= Cardinality(T)
    BY <1>1, <1>2, <2>2, <2>3
  <2> QED BY <2>4 DEF Ids, B
<1>4. CASE \E id \in Id, t \in S : Used(u) \subseteq Used(v) \cup {id} /\ T \subseteq S \ {t}
  <2>1. PICK id \in Id, t \in S : Used(u) \subseteq Used(v) \cup {id} /\ T \subseteq S \ {t}
    BY <1>4
  <2>2. A \ {id} \subseteq B
    BY <2>1
  <2> HIDE DEF A, B
  <2>3. Cardinality(A \ {id}) <= Cardinality(B)
    BY <1>1, <2>2, FS_Subset
  <2>4. Cardinality(A \ {id}) >= Cardinality(A) - 1
    <3>1. Cardinality(A \ {id}) = IF id \in A THEN Cardinality(A) - 1 ELSE Cardinality(A)
      BY <1>1, FS_RemoveElement
    <3> QED BY <1>1, <3>1
  <2>5. IsFiniteSet(S \ {t}) /\ Cardinality(S \ {t}) = Cardinality(S) - 1
    BY <1>2, FS_RemoveElement
  <2>6. Cardinality(T) <= Cardinality(S \ {t})
    BY <2>1, <2>5, FS_Subset
  <2>7. Cardinality(A \ {id}) \in Nat
    BY <1>1, FS_RemoveElement, FS_CardinalityType
  <2>8. Cardinality(B) >= Cardinality(T)
    BY <1>1, <1>2, <2>3, <2>4, <2>5, <2>6, <2>7
  <2> QED BY <2>8 DEF Ids, B
<1> QED BY <1>3, <1>4

LEMMA TicksMade ==
    ASSUME NEW v, NEW ch
    PROVE  \E f : /\ f[0] = v /\ ForAll(v, ch) = f[N]
                  /\ \A i \in 1..N : f[i] = _update_scripted_encounters(f[i - 1], Order[i], ch)
<1> DEFINE Made(f, m) == f = [i \in 0..m |-> IF i = 0 THEN v ELSE _update_scripted_encounters(f[i - 1], Order[i], ch)]
           T == {m \in 0..N : \E f : Made(f, m)}
<1>1. N \in Nat
  BY EachOnce
<1>2. 0 \in T
  <2> DEFINE f == [i \in 0..0 |-> v]
  <2>1. Made(f, 0)
    OBVIOUS
  <2> HIDE DEF f, Made
  <2> QED BY <1>1, <2>1
<1>3. ASSUME NEW m \in 0..(N - 1), m \in T
      PROVE  m + 1 \in T
  <2>1. PICK e : Made(e, m)
    BY <1>3
  <2> DEFINE x == _update_scripted_encounters(e[m], Order[m + 1], ch)
             f == [i \in 0..(m + 1) |-> IF i = m + 1 THEN x ELSE e[i]]
  <2>2. m \in Nat /\ m + 1 \in 0..N
    BY <1>1
  <2>3. \A i \in 0..m : e[i] = IF i = 0 THEN v ELSE _update_scripted_encounters(e[i - 1], Order[i], ch)
    BY <2>1
  <2> HIDE DEF x
  <2>4. f[m + 1] = x /\ \A i \in 0..m : f[i] = e[i]
    BY <2>2
  <2> HIDE DEF f
  <2>5. \A i \in 0..(m + 1) : f[i] = IF i = 0 THEN v ELSE _update_scripted_encounters(f[i - 1], Order[i], ch)
    <3>1. ASSUME NEW i \in 0..(m + 1)
          PROVE  f[i] = IF i = 0 THEN v ELSE _update_scripted_encounters(f[i - 1], Order[i], ch)
      <4>1. CASE i = m + 1
        <5>1. i # 0 /\ i - 1 = m /\ m \in 0..m
          BY <2>2, <4>1
        <5> QED BY <2>4, <4>1, <5>1 DEF x
      <4>2. CASE i # m + 1
        <5>1. i \in 0..m /\ (i # 0 => i - 1 \in 0..m)
          BY <2>2, <4>2
        <5> QED BY <2>3, <2>4, <5>1
      <4> QED BY <4>1, <4>2
    <3> QED BY <3>1
  <2>6. f = [i \in 0..(m + 1) |-> f[i]]
    BY DEF f
  <2>7. Made(f, m + 1)
    BY <2>5, <2>6
  <2> HIDE DEF Made
  <2> QED BY <2>2, <2>7
<1>4. N \in T
  <2>1. T \in SUBSET (0..N) /\ N \in 0..N
    BY <1>1
  <2> HIDE DEF T
  <2> QED BY <1>1, <1>2, <1>3, <2>1, Induction
<1>5. \E f : Made(f, N)
  BY <1>4
<1> DEFINE f == CHOOSE f : Made(f, N)
<1>6. Made(f, N)
  <2> HIDE DEF Made
  <2> QED BY <1>5
<1>7. ForAll(v, ch) = f[N]
  BY DEF ForAll, N
<1> HIDE DEF f
<1>8. f[0] = v /\ \A i \in 1..N : f[i] = _update_scripted_encounters(f[i - 1], Order[i], ch)
  BY <1>1, <1>6
<1> QED BY <1>7, <1>8

LEMMA MeetingsMade ==
    ASSUME NEW v
    PROVE  \E f : /\ f[0] = v /\ Meet(v) = f[N]
                  /\ \A i \in 1..N : f[i] = _update_gorvak_encounter_state(f[i - 1], Order[i])
<1> DEFINE Made(f, m) == f = [i \in 0..m |-> IF i = 0 THEN v ELSE _update_gorvak_encounter_state(f[i - 1], Order[i])]
           T == {m \in 0..N : \E f : Made(f, m)}
<1>1. N \in Nat
  BY EachOnce
<1>2. 0 \in T
  <2> DEFINE f == [i \in 0..0 |-> v]
  <2>1. Made(f, 0)
    OBVIOUS
  <2> HIDE DEF f, Made
  <2> QED BY <1>1, <2>1
<1>3. ASSUME NEW m \in 0..(N - 1), m \in T
      PROVE  m + 1 \in T
  <2>1. PICK e : Made(e, m)
    BY <1>3
  <2> DEFINE x == _update_gorvak_encounter_state(e[m], Order[m + 1])
             f == [i \in 0..(m + 1) |-> IF i = m + 1 THEN x ELSE e[i]]
  <2>2. m \in Nat /\ m + 1 \in 0..N
    BY <1>1
  <2>3. \A i \in 0..m : e[i] = IF i = 0 THEN v ELSE _update_gorvak_encounter_state(e[i - 1], Order[i])
    BY <2>1
  <2> HIDE DEF x
  <2>4. f[m + 1] = x /\ \A i \in 0..m : f[i] = e[i]
    BY <2>2
  <2> HIDE DEF f
  <2>5. \A i \in 0..(m + 1) : f[i] = IF i = 0 THEN v ELSE _update_gorvak_encounter_state(f[i - 1], Order[i])
    <3>1. ASSUME NEW i \in 0..(m + 1)
          PROVE  f[i] = IF i = 0 THEN v ELSE _update_gorvak_encounter_state(f[i - 1], Order[i])
      <4>1. CASE i = m + 1
        <5>1. i # 0 /\ i - 1 = m /\ m \in 0..m
          BY <2>2, <4>1
        <5> QED BY <2>4, <4>1, <5>1 DEF x
      <4>2. CASE i # m + 1
        <5>1. i \in 0..m /\ (i # 0 => i - 1 \in 0..m)
          BY <2>2, <4>2
        <5> QED BY <2>3, <2>4, <5>1
      <4> QED BY <4>1, <4>2
    <3> QED BY <3>1
  <2>6. f = [i \in 0..(m + 1) |-> f[i]]
    BY DEF f
  <2>7. Made(f, m + 1)
    BY <2>5, <2>6
  <2> HIDE DEF Made
  <2> QED BY <2>2, <2>7
<1>4. N \in T
  <2>1. T \in SUBSET (0..N) /\ N \in 0..N
    BY <1>1
  <2> HIDE DEF T
  <2> QED BY <1>1, <1>2, <1>3, <2>1, Induction
<1>5. \E f : Made(f, N)
  BY <1>4
<1> DEFINE f == CHOOSE f : Made(f, N)
<1>6. Made(f, N)
  <2> HIDE DEF Made
  <2> QED BY <1>5
<1>7. Meet(v) = f[N]
  BY DEF Meet, N
<1> HIDE DEF f
<1>8. f[0] = v /\ \A i \in 1..N : f[i] = _update_gorvak_encounter_state(f[i - 1], Order[i])
  BY <1>1, <1>6
<1> QED BY <1>7, <1>8

\* Those who may yet want an id after the first i have been gone through.
Wanting(v, i) ==
    {t \in Token : v.quest[t] # "none" /\ (v.encounter[t].kind = "none" \/ \E j \in (i + 1)..N : Order[j] = t)}

Meeting(v, i) ==
    {t \in Token : v.quest[t] # "none" /\ v.encounter[t].kind = "none" /\ \E j \in (i + 1)..N : Order[j] = t}

LEMMA WantingLess ==
    ASSUME NEW v, NEW u, NEW i \in 0..(N - 1), Spends(v, u, Order[i + 1])
    PROVE  LET S == Wanting(v, i)
               T == Wanting(u, i + 1)
           IN  \/ Used(u) \subseteq Used(v) /\ T \subseteq S
               \/ \E id \in Id, t \in S : Used(u) \subseteq Used(v) \cup {id} /\ T \subseteq S \ {t}
<1> DEFINE S == Wanting(v, i)
           T == Wanting(u, i + 1)
           t == Order[i + 1]
<1> SUFFICES \/ Used(u) \subseteq Used(v) /\ T \subseteq S
             \/ \E id \in Id, s \in S : Used(u) \subseteq Used(v) \cup {id} /\ T \subseteq S \ {s}
  OBVIOUS
<1>1. N \in Nat /\ (\A j \in 1..N : Order[j] \in Token) /\ \A j, k \in 1..N : Order[j] = Order[k] => j = k
  BY EachOnce
<1>2. i + 1 \in 1..N /\ i + 1 \in (i + 1)..N /\ t \in Token
  BY <1>1
<1>3. T \subseteq S
  <2>1. ASSUME NEW s \in T
        PROVE  s \in S
    <3>1. s \in Token /\ u.quest[s] # "none" /\ (u.encounter[s].kind = "none" \/ \E j \in ((i + 1) + 1)..N : Order[j] = s)
      BY <2>1 DEF Wanting
    <3>2. v.quest[s] # "none"
      BY <3>1 DEF Spends
    <3>3. CASE s = t
      BY <1>2, <3>1, <3>2, <3>3 DEF Wanting
    <3>4. CASE s # t
      <4>1. u.encounter[s].kind = v.encounter[s].kind
        BY <3>1, <3>4 DEF Spends
      <4>2. \A j \in ((i + 1) + 1)..N : j \in (i + 1)..N
        BY <1>1
      <4> QED BY <3>1, <3>2, <4>1, <4>2 DEF Wanting
    <3> QED BY <3>3, <3>4
  <2> QED BY <2>1
<1>4. CASE Used(u) \subseteq Used(v)
  BY <1>3, <1>4
<1>5. CASE /\ v.quest[t] # "none" /\ u.encounter[t].kind # "none"
           /\ \E id \in Id : Used(u) \subseteq Used(v) \cup {id}
  <2>1. t \in S
    BY <1>2, <1>5 DEF Wanting
  <2>2. \A j \in ((i + 1) + 1)..N : Order[j] # t
    <3>1. \A j \in ((i + 1) + 1)..N : j \in 1..N /\ j # i + 1
      BY <1>1
    <3> QED BY <1>1, <1>2, <3>1
  <2>3. t \notin T
    BY <1>5, <2>2 DEF Wanting
  <2> HIDE DEF S, T
  <2> QED BY <1>3, <1>5, <2>1, <2>3
<1> QED BY <1>4, <1>5 DEF Spends

LEMMA MeetingLess ==
    ASSUME NEW v, NEW u, NEW i \in 0..(N - 1),
           \/ u = v
           \/ /\ v.quest[Order[i + 1]] # "none" /\ v.encounter[Order[i + 1]].kind = "none"
              /\ Spends(v, u, Order[i + 1])
    PROVE  LET S == Meeting(v, i)
               T == Meeting(u, i + 1)
           IN  \/ Used(u) \subseteq Used(v) /\ T \subseteq S
               \/ \E id \in Id, t \in S : Used(u) \subseteq Used(v) \cup {id} /\ T \subseteq S \ {t}
<1> DEFINE S == Meeting(v, i)
           T == Meeting(u, i + 1)
           t == Order[i + 1]
<1> SUFFICES \/ Used(u) \subseteq Used(v) /\ T \subseteq S
             \/ \E id \in Id, s \in S : Used(u) \subseteq Used(v) \cup {id} /\ T \subseteq S \ {s}
  OBVIOUS
<1>1. N \in Nat /\ (\A j \in 1..N : Order[j] \in Token) /\ \A j, k \in 1..N : Order[j] = Order[k] => j = k
  BY EachOnce
<1>2. i + 1 \in 1..N /\ i + 1 \in (i + 1)..N /\ t \in Token
  BY <1>1
<1>3. \A j \in ((i + 1) + 1)..N : j \in (i + 1)..N /\ Order[j] # t
  <2>1. \A j \in ((i + 1) + 1)..N : j \in (i + 1)..N /\ j \in 1..N /\ j # i + 1
    BY <1>1
  <2> QED BY <1>1, <1>2, <2>1
<1>4. t \notin T
  BY <1>3 DEF Meeting
<1>5. CASE u = v
  <2>1. T \subseteq S
    BY <1>3, <1>5 DEF Meeting
  <2> QED BY <1>5, <2>1
<1>6. CASE v.quest[t] # "none" /\ v.encounter[t].kind = "none" /\ Spends(v, u, t)
  <2>1. T \subseteq S
    <3>1. ASSUME NEW s \in T
          PROVE  s \in S
      <4>1. s \in Token /\ s # t /\ u.quest[s] # "none" /\ u.encounter[s].kind = "none"
            /\ \E j \in ((i + 1) + 1)..N : Order[j] = s
        BY <1>4, <3>1 DEF Meeting
      <4>2. v.quest[s] # "none" /\ v.encounter[s].kind = "none"
        BY <1>6, <4>1 DEF Spends
      <4> QED BY <1>3, <4>1, <4>2 DEF Meeting
    <3> QED BY <3>1
  <2>2. t \in S
    BY <1>2, <1>6 DEF Meeting
  <2> HIDE DEF S, T
  <2>3. CASE Used(u) \subseteq Used(v)
    BY <2>1, <2>3
  <2>4. CASE \E id \in Id : Used(u) \subseteq Used(v) \cup {id}
    BY <1>4, <2>1, <2>2, <2>4
  <2> QED BY <1>6, <2>3, <2>4 DEF Spends
<1> QED BY <1>5, <1>6

LEMMA AllTicked ==
    ASSUME NEW R, NEW v, NEW ch, ch.calls \in {"none", "lair", "pit"}, Standing(v),
           Ids(v) >= Cardinality({t \in Token : v.quest[t] # "none"})
    PROVE  Keeps(v, ForAll(v, ch), R) /\ Ids(ForAll(v, ch)) >= Cardinality(Meeting(ForAll(v, ch), 0))
<1>1. N \in Nat /\ \A i \in 1..N : Order[i] \in Token
  BY EachOnce
<1>2. PICK f : /\ f[0] = v /\ ForAll(v, ch) = f[N]
               /\ \A i \in 1..N : f[i] = _update_scripted_encounters(f[i - 1], Order[i], ch)
  BY TicksMade
<1> DEFINE Good(i) == Keeps(v, f[i], R) /\ Ids(f[i]) >= Cardinality(Wanting(f[i], i))
           T == {i \in 0..N : Good(i)}
<1>3. 0 \in T
  <2> DEFINE S == {t \in Token : v.quest[t] # "none"}
             P == Wanting(v, 0)
  <2>1. P \subseteq S /\ S \in SUBSET Token /\ P \in SUBSET Token
    BY DEF Wanting
  <2>2. Ids(v) >= Cardinality(S)
    OBVIOUS
  <2> HIDE DEF S, P
  <2>3. Ids(v) >= Cardinality(P)
    BY <2>1, <2>2, Affords
  <2>4. Keeps(v, v, R)
    BY DEF Keeps
  <2> QED BY <1>1, <1>2, <2>3, <2>4 DEF P
<1>4. ASSUME NEW i \in 0..(N - 1), i \in T
      PROVE  i + 1 \in T
  <2> DEFINE a == f[i]
             t == Order[i + 1]
             b == _update_scripted_encounters(a, t, ch)
             S == Wanting(a, i)
             P == Wanting(b, i + 1)
  <2>1. i + 1 \in 1..N /\ (i + 1) - 1 = i /\ i + 1 \in 0..N
    BY <1>1
  <2>2. t \in Token /\ f[i + 1] = b
    BY <1>1, <1>2, <2>1
  <2>3. Keeps(v, a, R) /\ Ids(a) >= Cardinality(S) /\ Standing(a)
    BY <1>4 DEF Keeps
  <2>4. S \in SUBSET Token /\ P \in SUBSET Token
    BY DEF Wanting
  <2>5. a.quest[t] # "none" => t \in S
    BY <1>1, <2>1, <2>2 DEF Wanting
  <2> HIDE DEF a
  <2>6. a.quest[t] # "none" => Id \ Used(a) # {}
    <3> HIDE DEF S
    <3>1. a.quest[t] # "none" => Cardinality(S) \in Nat /\ Cardinality(S) > 0
      BY <2>4, <2>5, TokensFinite
    <3>2. Ids(a) \in Nat /\ (Ids(a) > 0 => Id \ Used(a) # {})
      BY Counting
    <3> QED BY <2>3, <3>1, <3>2
  <2>7. Keeps(a, b, R) /\ Spends(a, b, t)
    <3> HIDE DEF t
    <3> QED BY <2>2, <2>3, <2>6, EncounterTicked
  <2> HIDE DEF b
  <2>8. \/ Used(b) \subseteq Used(a) /\ P \subseteq S
        \/ \E id \in Id, s \in S : Used(b) \subseteq Used(a) \cup {id} /\ P \subseteq S \ {s}
    BY <2>7, WantingLess
  <2> HIDE DEF S, P
  <2>9. Ids(b) >= Cardinality(P)
    BY <2>3, <2>4, <2>8, Affords
  <2>10. Keeps(v, b, R)
    BY <2>3, <2>7, KeepsTrans
  <2>11. Good(i + 1)
    BY <2>2, <2>9, <2>10 DEF P
  <2> HIDE DEF Good
  <2> QED BY <2>1, <2>11
<1>5. Good(N)
  <2>1. T \in SUBSET (0..N) /\ N \in 0..N
    BY <1>1
  <2>2. N \in T
    <3> HIDE DEF T
    <3> QED BY <1>1, <1>3, <1>4, <2>1, Induction
  <2> QED BY <2>2
<1> DEFINE u == f[N]
           S == Wanting(u, N)
           P == Meeting(u, 0)
<1>6. S \in SUBSET Token /\ P \in SUBSET Token /\ P \subseteq S
  BY DEF Wanting, Meeting
<1>7. Keeps(v, u, R) /\ Ids(u) >= Cardinality(S)
  BY <1>5
<1> HIDE DEF u, S, P
<1>8. Ids(u) >= Cardinality(P)
  BY <1>6, <1>7, Affords
<1> QED BY <1>2, <1>7, <1>8 DEF u, P

LEMMA AllMet ==
    ASSUME NEW R, NEW v, Standing(v), Ids(v) >= Cardinality(Meeting(v, 0))
    PROVE  Keeps(v, Meet(v), R)
<1>1. N \in Nat /\ \A i \in 1..N : Order[i] \in Token
  BY EachOnce
<1>2. PICK f : /\ f[0] = v /\ Meet(v) = f[N]
               /\ \A i \in 1..N : f[i] = _update_gorvak_encounter_state(f[i - 1], Order[i])
  BY MeetingsMade
<1> DEFINE Good(i) == Keeps(v, f[i], R) /\ Ids(f[i]) >= Cardinality(Meeting(f[i], i))
           T == {i \in 0..N : Good(i)}
<1>3. 0 \in T
  BY <1>1, <1>2 DEF Keeps
<1>4. ASSUME NEW i \in 0..(N - 1), i \in T
      PROVE  i + 1 \in T
  <2> DEFINE a == f[i]
             t == Order[i + 1]
             b == _update_gorvak_encounter_state(a, t)
             S == Meeting(a, i)
             P == Meeting(b, i + 1)
  <2>1. i + 1 \in 1..N /\ (i + 1) - 1 = i /\ i + 1 \in 0..N
    BY <1>1
  <2>2. t \in Token /\ f[i + 1] = b
    BY <1>1, <1>2, <2>1
  <2>3. Keeps(v, a, R) /\ Ids(a) >= Cardinality(S) /\ Standing(a)
    BY <1>4 DEF Keeps
  <2>4. S \in SUBSET Token /\ P \in SUBSET Token
    BY DEF Meeting
  <2>5. a.quest[t] # "none" /\ a.encounter[t].kind = "none" => t \in S
    BY <1>1, <2>1, <2>2 DEF Meeting
  <2> HIDE DEF a
  <2>6. a.quest[t] # "none" /\ a.encounter[t].kind = "none" => Id \ Used(a) # {}
    <3> HIDE DEF S
    <3>1. a.quest[t] # "none" /\ a.encounter[t].kind = "none" => Cardinality(S) \in Nat /\ Cardinality(S) > 0
      BY <2>4, <2>5, TokensFinite
    <3>2. Ids(a) \in Nat /\ (Ids(a) > 0 => Id \ Used(a) # {})
      BY Counting
    <3> QED BY <2>3, <3>1, <3>2
  <2>7. /\ Keeps(a, b, R)
        /\ b = a \/ (a.quest[t] # "none" /\ a.encounter[t].kind = "none" /\ Spends(a, b, t))
    <3> HIDE DEF t
    <3> QED BY <2>2, <2>3, <2>6, Met
  <2> HIDE DEF b
  <2>8. \/ Used(b) \subseteq Used(a) /\ P \subseteq S
        \/ \E id \in Id, s \in S : Used(b) \subseteq Used(a) \cup {id} /\ P \subseteq S \ {s}
    BY <2>7, MeetingLess
  <2> HIDE DEF S, P
  <2>9. Ids(b) >= Cardinality(P)
    BY <2>3, <2>4, <2>8, Affords
  <2>10. Keeps(v, b, R)
    BY <2>3, <2>7, KeepsTrans
  <2>11. Good(i + 1)
    BY <2>2, <2>9, <2>10 DEF P
  <2> HIDE DEF Good
  <2> QED BY <2>1, <2>11
<1>5. Good(N)
  <2>1. T \in SUBSET (0..N) /\ N \in 0..N
    BY <1>1
  <2>2. N \in T
    <3> HIDE DEF T
    <3> QED BY <1>1, <1>3, <1>4, <2>1, Induction
  <2> QED BY <2>2
<1> QED BY <1>2, <1>5

-----------------------------------------------------------------------------
(* What else a tick does, and what players do.                              *)

PutEntity(v, id, e) == [v EXCEPT !.entities[id] = e]

LEMMA EntityMoved ==
    ASSUME NEW R, NEW v, NEW id \in Id, NEW e \in Entity, Standing(v), v.entities[id] # Nothing,
           e.what = v.entities[id].what, e.owner = v.entities[id].owner,
           v.entities[id].what \in {"player", "wilhelm"} /\ v.entities[id].live => e.live
    PROVE  Stays(v, PutEntity(v, id, e), R) /\ PutEntity(v, id, e).encounter = v.encounter
<1> DEFINE E == [v.entities EXCEPT ![id] = e]
           u == PutEntity(v, id, e)
<1>1. v \in World
  BY DEF Standing
<1>2. E \in [Id -> Entity] /\ E[id] = e /\ \A i \in Id \ {id} : E[i] = v.entities[i]
  BY <1>1, Fields
<1>3. u = [v EXCEPT !.entities = E]
  BY DEF PutEntity
<1> HIDE DEF E, u
<1>4. /\ u \in World /\ u.entities = E /\ u.players = v.players /\ u.encounter = v.encounter
      /\ u.player_entities = v.player_entities /\ u.quest = v.quest
  BY <1>1, <1>2, <1>3 DEF World
<1>5. Moves(v, u)
  BY <1>2, <1>4 DEF Moves
<1>6. Stays(v, u, R)
  BY <1>5, MovesStays
<1> QED BY <1>4, <1>6 DEF u

LEMMA ChanceFields ==
    ASSUME NEW ch \in Chances
    PROVE  ch.calls \in {"none", "lair", "pit"} /\ ch.decays \in Id \cup {0}
           /\ ch.revives \in Id \cup {0} /\ ch.roams \in Id \cup {0}
<1>1. /\ Quiet.calls = "none" /\ Quiet.decays = 0 /\ Quiet.revives = 0 /\ Quiet.roams = 0
  BY DEF Quiet
<1>2. CASE ch = Quiet
  BY <1>1, <1>2
<1> DEFINE A == {[Quiet EXCEPT ![f] = TRUE] : f \in {"slain", "absent", "arrives", "repaired"}}
           B == {[Quiet EXCEPT ![f] = id] : f \in {"decays", "revives", "roams"}, id \in Id}
           C == {Calls(killed, zone) : killed \in BOOLEAN, zone \in {"lair", "pit"}}
<1>3. CASE ch \in A
  BY <1>3 DEF Quiet
<1>4. CASE ch \in B
  BY <1>4 DEF Quiet
<1>5. CASE ch \in C
  <2>1. PICK killed \in BOOLEAN, zone \in {"lair", "pit"} : ch = Calls(killed, zone)
    BY <1>5
  <2> QED BY <2>1 DEF Quiet, Calls
<1>6. ch \in {Quiet} \cup A \cup B \cup C
  BY DEF Chances
<1> HIDE DEF A, B, C
<1> QED BY <1>2, <1>3, <1>4, <1>5, <1>6

LEMMA BossMoved ==
    ASSUME NEW R, NEW v, NEW ch \in Chances, Standing(v)
    PROVE  Stays(v, _move_boss(v, ch), R) /\ _move_boss(v, ch).encounter = v.encounter
<1> DEFINE id == ch.roams
           e == v.entities[id]
<1>1. CASE id # 0 /\ e.what = "boss" /\ Alive(v, id)
  <2> DEFINE z == IF e.zone = "lair" THEN "pit" ELSE "lair"
             d == [e EXCEPT !.zone = z]
  <2>1. id \in Id /\ e \in Entity
    BY <1>1, ChanceFields, Fields DEF Standing
  <2>2. _move_boss(v, ch) = PutEntity(v, id, d)
    BY <1>1 DEF _move_boss, PutEntity
  <2> HIDE DEF id, e
  <2>3. z \in Place
    BY DEF Place
  <2> HIDE DEF z
  <2>4. d \in Entity /\ d.what = e.what /\ d.owner = e.owner /\ d.live = e.live
    BY <2>1, <2>3 DEF Entity
  <2>5. e # Nothing
    BY <1>1, Blank
  <2> HIDE DEF d
  <2>6. Stays(v, PutEntity(v, id, d), R) /\ PutEntity(v, id, d).encounter = v.encounter
    BY <1>1, <2>1, <2>4, <2>5, EntityMoved DEF e
  <2> QED BY <2>2, <2>6
<1>2. CASE ~(id # 0 /\ e.what = "boss" /\ Alive(v, id))
  BY <1>2 DEF _move_boss, Stays, Keeps
<1> QED BY <1>1, <1>2

LEMMA Revived ==
    ASSUME NEW R, NEW v, NEW ch \in Chances, Standing(v)
    PROVE  Keeps(v, _respawn_dead_enemies(v, ch), R)
<1> DEFINE id == ch.revives
           e == v.entities[id]
           c == id # 0 /\ e.respawns /\ ~Alive(v, id)
<1>1. CASE c
  <2> DEFINE d == [e EXCEPT !.live = TRUE, !.zone = e.born]
             u == [v EXCEPT !.entities[id].live = TRUE, !.entities[id].zone = e.born]
  <2>1. id \in Id /\ e \in Entity /\ v \in World
    BY <1>1, ChanceFields, Fields DEF Standing
  <2>2. _respawn_dead_enemies(v, ch) = u
    BY <1>1 DEF _respawn_dead_enemies
  <2>3. u = PutEntity(v, id, d)
    <3> HIDE DEF id
    <3> QED BY <2>1, Fields DEF PutEntity
  <2> HIDE DEF u, id, e
  <2>4. d \in Entity /\ d.what = e.what /\ d.owner = e.owner /\ d.live = TRUE
    BY <2>1 DEF Entity
  <2>5. e # Nothing
    BY <1>1 DEF Nothing
  <2> HIDE DEF d
  <2>6. Stays(v, PutEntity(v, id, d), R)
    BY <2>1, <2>4, <2>5, EntityMoved DEF e
  <2> QED BY <2>2, <2>3, <2>6 DEF Stays
<1>2. CASE ~c
  BY <1>2 DEF _respawn_dead_enemies, Keeps
<1> QED BY <1>1, <1>2

LEMMA Decayed ==
    ASSUME NEW R, NEW v, NEW ch \in Chances, Standing(v)
    PROVE  Keeps(v, _decay_dead_beavers(v, ch), R) /\ Keeps(v, _decay_expired_items(v, ch), R)
<1> DEFINE id == ch.decays
           u == remove_entity(v, id)
<1>1. v \in World /\ id \in Id \cup {0} /\ Embodied(v) /\ OwnSpawned(v)
  BY ChanceFields DEF Standing
<1>2. Keeps(v, v, R)
  BY DEF Keeps
<1>3. ASSUME id # 0, v.entities[id].what \notin {"player", "wilhelm"} PROVE Keeps(v, u, R)
  <2> DEFINE ids == {id}
  <2>1. \A i \in ids \cap Used(v) : v.entities[i].what # "player"
    BY <1>3
  <2>2. ASSUME Settled(v, R), NEW t \in Token \ R, Leads(v.encounter[t])
        PROVE  v.encounter[t].escort \notin ids
    BY <1>3, <2>2 DEF Settled, Guided
  <2> HIDE DEF ids
  <2>3. Stays(v, RemoveAll(v, ids), R)
    BY <2>1, <2>2, Cleared
  <2> QED BY <2>3 DEF Stays, remove_entity, ids
<1>4. Keeps(v, _decay_dead_beavers(v, ch), R)
  <2>1. CASE id # 0 /\ ~Alive(v, id) /\ ~v.entities[id].respawns
    <3>1. v.entities[id].what \notin {"player", "wilhelm"}
      BY <1>1, <2>1 DEF Embodied, OwnSpawned, Alive
    <3>2. _decay_dead_beavers(v, ch) = u
      BY <2>1 DEF _decay_dead_beavers
    <3> QED BY <1>3, <2>1, <3>1, <3>2
  <2>2. CASE ~(id # 0 /\ ~Alive(v, id) /\ ~v.entities[id].respawns)
    <3>1. _decay_dead_beavers(v, ch) = v
      BY <2>2 DEF _decay_dead_beavers
    <3> QED BY <1>2, <3>1
  <2> QED BY <2>1, <2>2
<1>5. Keeps(v, _decay_expired_items(v, ch), R)
  <2>1. CASE id # 0 /\ v.entities[id].what = "loot"
    <3>1. _decay_expired_items(v, ch) = u
      BY <2>1 DEF _decay_expired_items
    <3> QED BY <1>3, <2>1, <3>1
  <2>2. CASE ~(id # 0 /\ v.entities[id].what = "loot")
    <3>1. _decay_expired_items(v, ch) = v
      BY <2>2 DEF _decay_expired_items
    <3> QED BY <1>2, <3>1
  <2> QED BY <2>1, <2>2
<1> QED BY <1>4, <1>5

LEMMA TickKeeps ==
    ASSUME NEW R, NEW v, NEW ch \in Chances, Standing(v), Ids(v) >= Cardinality({t \in Token : v.quest[t] # "none"})
    PROVE  Keeps(v, finish_tick(v, ch), R)
<1> DEFINE a == ForAll(v, ch)
           b == _move_boss(a, ch)
           c == Meet(b)
           d == _decay_dead_beavers(c, ch)
           e == _decay_expired_items(d, ch)
           u == _respawn_dead_enemies(e, ch)
           S == Meeting(a, 0)
           T == Meeting(b, 0)
<1>1. finish_tick(v, ch) = u
  BY DEF finish_tick
<1>2. Keeps(v, a, R) /\ Ids(a) >= Cardinality(S) /\ Standing(a)
  BY ChanceFields, AllTicked DEF Keeps
<1> HIDE DEF a
<1>3. Stays(a, b, R) /\ b.encounter = a.encounter /\ Standing(b)
  BY <1>2, BossMoved DEF Stays, Keeps
<1> HIDE DEF b
<1>4. T \subseteq S /\ S \in SUBSET Token /\ T \in SUBSET Token /\ Used(b) \subseteq Used(a)
  BY <1>3 DEF Meeting, Stays
<1>5. Ids(b) >= Cardinality(T)
  <2> HIDE DEF S, T
  <2> QED BY <1>2, <1>4, Affords
<1>6. Keeps(b, c, R) /\ Standing(c)
  BY <1>3, <1>5, AllMet DEF Keeps
<1> HIDE DEF c
<1>7. Keeps(c, d, R) /\ Standing(d)
  BY <1>6, Decayed DEF Keeps
<1> HIDE DEF d
<1>8. Keeps(d, e, R) /\ Standing(e)
  BY <1>7, Decayed DEF Keeps
<1> HIDE DEF e
<1>9. Keeps(e, u, R)
  BY <1>8, Revived
<1> HIDE DEF u
<1>10. Keeps(a, b, R)
  BY <1>3 DEF Stays
<1> QED BY <1>1, <1>2, <1>6, <1>7, <1>8, <1>9, <1>10, KeepsTrans

LEMMA Defeated ==
    ASSUME NEW R, NEW v, NEW t \in Token, Standing(v), v.encounter[t].kind = "gorvak",
           \A o \in Token \ R : /\ ~Is(v, v.encounter[t].summon, "player", o)
                               /\ ~Is(v, v.encounter[t].summon, "wilhelm", o)
    PROVE  Keeps(v, _resolve_gorvak_defeat(v, t), R) /\ Used(_resolve_gorvak_defeat(v, t)) \subseteq Used(v)
<1> DEFINE summon == v.encounter[t].summon
           ids == {summon}
           gone == ids \cap Used(v)
           r == RemoveAll(v, ids)
           s == [r EXCEPT !.encounter[t].summon = 0]
           u == _resolve_gorvak_defeat(v, t)
<1>1. u = succeed_scripted_encounter(s, t)
  BY DEF _resolve_gorvak_defeat, remove_entity
<1>2. v \in World /\ gone \subseteq Id /\ \A o \in Token : v.player_entities[o] \in Id \cup {0}
  BY Fields DEF Standing, Used
<1>3. \A id \in gone : id = summon /\ id # 0
  BY <1>2, Blank
<1> HIDE DEF ids
<1>4. Removed(v, gone, r) /\ Apart(v, r) /\ r.encounter = [o \in Token |-> Without(v.encounter[o], gone)]
  BY <1>2, Removing
<1> HIDE DEF gone, r, u, summon
<1>5. \A o \in Token : r.encounter[o] = Without(v.encounter[o], gone) /\ r.quest[o] = v.quest[o]
  BY <1>4 DEF Apart
<1>6. \A o \in Token : Fades(v, gone, r, o) /\ r.encounter[o].kind = v.encounter[o].kind
  BY <1>5, WithoutFades
<1>7. ASSUME Settled(v, R), NEW o \in Token \ R
      PROVE  Spares(v, gone, r, o)
  <2>1. summon # 0 => /\ ~(v.entities[summon].what = "player" /\ v.entities[summon].owner = o)
                      /\ ~(v.entities[summon].what = "wilhelm" /\ v.entities[summon].owner = o)
    BY DEF Is, summon
  <2>2. v.player_entities[o] \notin gone
    <3>1. v.player_entities[o] # 0 => /\ v.entities[v.player_entities[o]].what = "player"
                                      /\ v.entities[v.player_entities[o]].owner = o
      BY DEF Standing, Embodied
    <3> QED BY <1>3, <2>1, <3>1
  <2>3. Leads(v.encounter[o]) => v.encounter[o].escort \notin gone
    <3>1. ASSUME Leads(v.encounter[o])
          PROVE  /\ v.entities[v.encounter[o].escort].what = "wilhelm"
                 /\ v.entities[v.encounter[o].escort].owner = o
      BY <1>7, <3>1 DEF Settled, Guided, Standing, OwnSpawned
    <3> QED BY <1>3, <2>1, <3>1
  <2> QED BY <1>5, <1>7, <2>2, <2>3, WithoutSpares
<1>8. Keeps(v, r, R) /\ Used(r) \subseteq Used(v) /\ Standing(r)
  BY <1>4, <1>6, <1>7, Pruned DEF Keeps
<1>9. Keeps(r, s, R) /\ Used(s) = Used(r) /\ s.encounter[t].kind = "gorvak" /\ Standing(s)
  <2>1. Standing(r) /\ r.encounter[t].kind = "gorvak"
    BY <1>6, <1>8
  <2> HIDE DEF s
  <2>2. s = [r EXCEPT !.encounter[t].summon = 0]
    BY DEF s
  <2>3. Keeps(r, s, R) /\ Used(s) = Used(r) /\ s.encounter[t].kind = r.encounter[t].kind
    BY <2>1, <2>2, SummonOver
  <2>4. Standing(s)
    BY <2>3 DEF Keeps
  <2> QED BY <2>1, <2>3, <2>4
<1> HIDE DEF s
<1>10. Keeps(s, u, R) /\ Used(u) \subseteq Used(s)
  BY <1>1, <1>9, Succeeded
<1>11. Keeps(v, u, R) /\ Used(u) \subseteq Used(v)
  BY <1>8, <1>9, <1>10, KeepsTrans
<1> QED BY <1>11 DEF u

LEMMA Damaged ==
    ASSUME NEW R, NEW v, NEW id \in Id, Standing(v), v.entities[id].what \in {"boss", "summon", "beaver"},
           Taken(v, id) \subseteq R
    PROVE  Keeps(v, _damage_entity(v, id), R) /\ Used(_damage_entity(v, id)) \subseteq Used(v)
<1> DEFINE e == v.entities[id]
           d == [e EXCEPT !.live = FALSE, !.respawns = (e.what # "boss")]
           dead == [v EXCEPT !.entities[id].live = FALSE, !.entities[id].respawns = (e.what # "boss")]
           owners == _encounter_for_entity(v, id)
           t == CHOOSE o \in owners : TRUE
           u == _damage_entity(v, id)
<1>1. v \in World /\ e \in Entity /\ OwnSpawned(v)
  BY Fields DEF Standing
<1>2. dead = PutEntity(v, id, d)
  BY <1>1, Fields DEF PutEntity
<1>3. u = IF e.what = "boss" /\ owners # {} THEN _resolve_gorvak_defeat(dead, t) ELSE dead
  BY DEF _damage_entity
<1> HIDE DEF e, dead
<1>4. d \in Entity /\ d.what = e.what /\ d.owner = e.owner
  <2>1. (e.what # "boss") \in BOOLEAN
    OBVIOUS
  <2> DEFINE b == (e.what # "boss")
  <2> HIDE DEF b
  <2>2. [e EXCEPT !.live = FALSE, !.respawns = b] \in Entity
        /\ [e EXCEPT !.live = FALSE, !.respawns = b].what = e.what
        /\ [e EXCEPT !.live = FALSE, !.respawns = b].owner = e.owner
    BY <1>1, <2>1 DEF Entity, b
  <2> QED BY <2>2 DEF b
<1> HIDE DEF d
<1>5. Stays(v, dead, R) /\ dead.encounter = v.encounter
  <2>1. e # Nothing
    BY Blank DEF e
  <2>2. Stays(v, PutEntity(v, id, d), R) /\ PutEntity(v, id, d).encounter = v.encounter
    BY <1>1, <1>4, <2>1, EntityMoved DEF e
  <2> QED BY <1>2, <2>2
<1>6. Keeps(v, dead, R) /\ Used(dead) \subseteq Used(v) /\ Standing(dead)
  BY <1>5 DEF Stays, Keeps
<1>7. CASE e.what = "boss" /\ owners # {}
  <2>1. t \in owners
    BY <1>7
  <2> HIDE DEF t
  <2>2. t \in Token /\ id \in v.encounter[t].spawned
    BY <2>1 DEF _encounter_for_entity
  <2>3. dead.encounter[t].kind = "gorvak"
    BY <1>1, <1>5, <1>7, <2>2 DEF OwnSpawned, e
  <2> DEFINE x == _resolve_gorvak_defeat(dead, t)
             summon == v.encounter[t].summon
  <2>7. ASSUME NEW o \in Token \ R
        PROVE  ~Is(dead, summon, "player", o) /\ ~Is(dead, summon, "wilhelm", o)
    <3>1. ~Is(v, summon, "player", o) /\ ~Is(v, summon, "wilhelm", o)
      BY <1>7, <2>1 DEF Taken, e
    <3>2. summon \in Id => /\ dead.entities[summon].what = v.entities[summon].what
                           /\ dead.entities[summon].owner = v.entities[summon].owner
      <4> HIDE DEF summon
      <4> QED BY <1>1, <1>2, <1>4, Fields DEF PutEntity, e
    <3>3. summon \in Id \cup {0}
      <4>1. v.encounter[t] \in Encounter
        BY <1>1, <2>2, Fields
      <4> QED BY <4>1, EncounterFields
    <3> QED BY <3>1, <3>2, <3>3 DEF Is
  <2>4. Keeps(dead, x, R) /\ Used(x) \subseteq Used(dead)
    BY <1>5, <1>6, <2>2, <2>3, <2>7, Defeated
  <2>5. u = x
    BY <1>3, <1>7
  <2> HIDE DEF x, u
  <2>6. Keeps(v, u, R) /\ Used(u) \subseteq Used(v)
    BY <1>6, <2>4, <2>5, KeepsTrans
  <2> QED BY <2>6 DEF u
<1>8. CASE ~(e.what = "boss" /\ owners # {})
  BY <1>3, <1>6, <1>8
<1> QED BY <1>7, <1>8

LEMMA RoomFor ==
    ASSUME NEW n \in Nat, Room(n)
    PROVE  Ids(w) >= n /\ (n > 0 => Id \ Used(w) # {})
<1>1. Ids(w) >= n
  BY DEF Room, Ids
<1>2. Ids(w) \in Nat /\ (Ids(w) > 0 => Id \ Used(w) # {})
  BY Counting
<1> QED BY <1>1, <1>2

LEMMA Killed ==
    ASSUME NEW R, NEW t \in Token, NEW id \in Id, StandingInv, Kill(t, id), robbed' \subseteq R
    PROVE  Keeps(w, w', R)
<1> DEFINE k == _damage_entity(w, id)
           e == New("loot", NoOne, w.at[t])
<1>1. Standing(w) /\ w \in World
  BY DEF StandingInv, Standing
<1>2. w.entities[id].what \in {"boss", "summon", "beaver"}
  BY DEF Kill
<1>6. Taken(w, id) \subseteq R
  BY DEF Kill
<1>3. Keeps(w, k, R) /\ Used(k) \subseteq Used(w) /\ Standing(k) /\ k \in World
  BY <1>1, <1>2, <1>6, Damaged DEF Keeps, Standing
<1>4. w' = k \/ (Room(1) /\ w' = spawn_entity(k, e))
  BY DEF Kill
<1> HIDE DEF k
<1>5. ASSUME Room(1), w' = spawn_entity(k, e) PROVE Keeps(w, w', R)
  <2>1. Id \ Used(k) # {}
    BY <1>3, <1>5, RoomFor
  <2>2. e \in Entity /\ e.what = "loot"
    <3>1. w.at[t] \in Place
      BY <1>1, Fields
    <3> QED BY <3>1 DEF New, Entity, What
  <2> HIDE DEF e
  <2> DEFINE u == spawn_entity(k, e)
             i == next_entity_id(k)
  <2>3. Appears(k, u, i, e) /\ Beside2(k, u) /\ u.encounter = k.encounter
    BY <1>3, <2>1, <2>2, Spawning
  <2>4. w' = u
    BY <1>5
  <2> HIDE DEF u, i
  <2>5. Keeps(k, u, R)
    BY <1>3, <2>2, <2>3, Littered DEF Beside2
  <2> QED BY <1>3, <2>4, <2>5, KeepsTrans
<1> QED BY <1>3, <1>4, <1>5

LEMMA PickedUp ==
    ASSUME NEW R, NEW t \in Token, NEW id \in Id, StandingInv, PickUp(t, id)
    PROVE  Keeps(w, w', R)
<1> DEFINE ids == {id}
           u == RemoveAll(w, ids)
<1>1. Standing(w) /\ w.entities[id].what = "loot" /\ w' = u
  BY DEF StandingInv, PickUp, remove_entity
<1>2. \A i \in ids \cap Used(w) : w.entities[i].what # "player"
  BY <1>1
<1>3. ASSUME Settled(w, R), NEW o \in Token \ R, Leads(w.encounter[o])
      PROVE  w.encounter[o].escort \notin ids
  BY <1>1, <1>3 DEF Settled, Guided
<1> HIDE DEF ids
<1>4. Stays(w, u, R)
  BY <1>1, <1>2, <1>3, Cleared
<1> HIDE DEF u
<1> QED BY <1>1, <1>4 DEF Stays

LEMMA Walked ==
    ASSUME NEW R, NEW t \in Token, NEW z \in Place, StandingInv, Walk(t, z)
    PROVE  Keeps(w, w', R)
<1> DEFINE A == [w.at EXCEPT ![t] = z]
           L == IF "road" \in {z, w.at[t]} THEN w.loading \cup {t} ELSE w.loading
           g == [w EXCEPT !.at[t] = z, !.loading = L]
           h == _sync_player_entity(g, t)
           u == update_active_zones(h)
<1>1. Standing(w) /\ w \in World
  BY DEF StandingInv, Standing
<1>2. w' = u
  BY DEF Walk
<1>3. A \in [Token -> Place] /\ L \subseteq Token
  BY <1>1, Fields
<1>4. g = [w EXCEPT !.at = A, !.loading = L]
  BY <1>1, Fields
<1> HIDE DEF g, A, L
<1>5. /\ g \in World /\ g.entities = w.entities /\ g.players = w.players /\ g.encounter = w.encounter
      /\ g.player_entities = w.player_entities /\ g.quest = w.quest
  BY <1>1, <1>3, <1>4 DEF World
<1>6. Stays(w, g, R) /\ Standing(g)
  <2>1. Moves(w, g)
    BY <1>5 DEF Moves
  <2> QED BY <1>1, <2>1, MovesStays DEF Stays, Keeps
<1>7. Stays(g, h, R) /\ Standing(h)
  BY <1>6, Synced DEF Stays, Keeps
<1> HIDE DEF h
<1>8. Stays(h, u, R)
  BY <1>7, ZonesUpdated
<1> HIDE DEF u
<1>9. Stays(w, u, R)
  BY <1>6, <1>7, <1>8, StaysTrans
<1> QED BY <1>2, <1>9 DEF Stays

LEMMA MapReady ==
    ASSUME NEW R, NEW t \in Token, StandingInv, mark_player_map_ready(t)
    PROVE  Keeps(w, w', R)
<1> DEFINE L == w.loading \ {t}
           g == [w EXCEPT !.loading = L]
<1>1. Standing(w) /\ w \in World /\ w' = g
  BY DEF StandingInv, Standing, mark_player_map_ready
<1>2. L \subseteq Token
  BY <1>1, Fields
<1> HIDE DEF L
<1>3. /\ g \in World /\ g.entities = w.entities /\ g.players = w.players /\ g.encounter = w.encounter
      /\ g.player_entities = w.player_entities /\ g.quest = w.quest
  BY <1>1, <1>2 DEF World
<1> HIDE DEF g
<1>4. Moves(w, g)
  BY <1>3 DEF Moves
<1>5. Stays(w, g, R)
  BY <1>1, <1>4, MovesStays
<1> QED BY <1>1, <1>5 DEF Stays

LEMMA WilhelmAsked ==
    ASSUME NEW R, NEW t \in Token, StandingInv, AskWilhelm(t)
    PROVE  Keeps(w, w', R)
<1> DEFINE c == cleanup_scripted_encounter(w, t)
           u == create_bridge_repair_encounter(c, t)
<1>1. Standing(w) /\ t \in w.players /\ w.quest[t] = "bridge" /\ w' = u /\ Room(1)
  BY DEF StandingInv, AskWilhelm
<1>2. /\ Keeps(w, c, R) /\ Used(c) \subseteq Used(w) /\ c.players = w.players /\ c.quest = w.quest
      /\ c.encounter[t] = NoEncounter /\ Standing(c)
  BY <1>1, CleanedUpAfter DEF Keeps
<1> HIDE DEF c
<1>3. Id \ Used(c) # {} /\ c.encounter[t].kind = "none"
  BY <1>1, <1>2, RoomFor, Blank
<1>4. Keeps(c, u, R)
  BY <1>1, <1>2, <1>3, BridgeRepair
<1> HIDE DEF u
<1> QED BY <1>1, <1>2, <1>4, KeepsTrans

LEMMA OwnerCleared ==
    ASSUME NEW R, NEW v, NEW t \in Token, Standing(v)
    PROVE  LET c == cleanup_scripted_encounters_for_owner(v, t)
           IN  Keeps(v, c, R) /\ c.players = v.players /\ c.player_entities = v.player_entities /\ c.encounter[t].kind = "none"
<1> DEFINE d == cleanup_scripted_encounter(v, t)
           ids == {id \in Id : d.entities[id].owner = t /\ d.entities[id].what # "player"}
           c == RemoveAll(d, ids)
<1>1. cleanup_scripted_encounters_for_owner(v, t) = c
  BY DEF cleanup_scripted_encounters_for_owner
<1>2. /\ Keeps(v, d, R) /\ d.players = v.players /\ d.player_entities = v.player_entities
      /\ d.encounter[t].kind = "none" /\ Standing(d)
  BY CleanedUpAfter, Blank DEF Keeps
<1> HIDE DEF d
<1>3. \A id \in ids \cap Used(d) : d.entities[id].what # "player"
  OBVIOUS
<1>4. ASSUME Settled(d, R), NEW o \in Token \ R, Leads(d.encounter[o])
      PROVE  d.encounter[o].escort \notin ids
  <2>1. o # t
    BY <1>2, <1>4 DEF Leads
  <2>2. d.encounter[o].escort \in d.encounter[o].spawned
    BY <1>4 DEF Settled, Guided
  <2>3. d.entities[d.encounter[o].escort].owner = o
    BY <1>2, <2>2 DEF Standing, OwnSpawned
  <2> QED BY <2>1, <2>3
<1> HIDE DEF ids
<1>5. Stays(d, c, R)
  BY <1>2, <1>3, <1>4, Cleared
<1> HIDE DEF c
<1>6. Keeps(v, c, R) /\ c.players = v.players /\ c.player_entities = v.player_entities /\ c.encounter[t].kind = "none"
  BY <1>2, <1>5, KeepsTrans DEF Stays
<1> QED BY <1>1, <1>6

LEMMA Detached ==
    ASSUME NEW R, NEW t \in Token, StandingInv, detach_player(t)
    PROVE  Keeps(w, w', R)
<1> DEFINE c == cleanup_scripted_encounters_for_owner(w, t)
           id == c.player_entities[t]
           gone == {id}
           E == [i \in Id |-> IF i = id THEN Nothing ELSE c.entities[i]]
           P == [c.player_entities EXCEPT ![t] = 0]
           S == c.players \ {t}
           L == c.loading \ {t}
           d == [c EXCEPT !.players = S, !.player_entities = P, !.loading = L, !.entities = E]
           dd == [c EXCEPT !.players = @ \ {t}, !.player_entities[t] = 0, !.loading = @ \ {t},
                           !.entities = [i \in Id |-> IF i = id THEN Nothing ELSE @[i]]]
           u == update_active_zones(d)
<1>1. Standing(w) /\ t \in w.players /\ w' = update_active_zones(dd)
  BY DEF StandingInv, detach_player
<1>2. /\ Keeps(w, c, R) /\ c.players = w.players /\ c.player_entities = w.player_entities
      /\ c.encounter[t].kind = "none" /\ Standing(c)
  BY <1>1, OwnerCleared DEF Keeps
<1>3. c \in World /\ Embodied(c) /\ OwnSpawned(c) /\ \A o \in Token : Phased(c.encounter[o], c.quest[o])
  BY <1>2 DEF Standing
<1>4. dd = d
  <2> HIDE DEF c
  <2> QED BY <1>3, Fields
<1> HIDE DEF c, dd
<1>5. id \in Id /\ c.entities[id].what = "player" /\ c.entities[id].owner = t
  BY <1>1, <1>2, <1>3 DEF Embodied
<1>6. \A o \in Token : c.player_entities[o] \in gone <=> o = t
  BY <1>1, <1>2, <1>3, <1>5, Blank DEF Embodied
<1>7. E \in [Id -> Entity] /\ \A i \in Id : E[i] = IF i \in gone THEN Nothing ELSE c.entities[i]
  BY <1>3, Fields, Blank
<1>8. P \in [Token -> Id \cup {0}] /\ \A o \in Token : P[o] = IF c.player_entities[o] \in gone THEN 0 ELSE c.player_entities[o]
  <2> HIDE DEF gone
  <2> QED BY <1>3, <1>6, Fields
<1>9. S \subseteq Token /\ L \subseteq Token /\ S = {o \in c.players : c.player_entities[o] \notin gone}
  <2> HIDE DEF gone
  <2> QED BY <1>3, <1>6, Fields
<1>10. gone \subseteq Id
  BY <1>5
<1> HIDE DEF E, P, S, L, gone, d, id
<1>11. /\ d \in World /\ d.entities = E /\ d.player_entities = P /\ d.players = S
       /\ d.encounter = c.encounter /\ d.quest = c.quest
  BY <1>3, <1>7, <1>8, <1>9 DEF World, d
<1>12. Removed(c, gone, d)
  BY <1>7, <1>8, <1>9, <1>10, <1>11 DEF Removed
<1>13. \A o \in Token : c.encounter[o].spawned \ gone = c.encounter[o].spawned
  BY <1>3, <1>5 DEF OwnSpawned, Minion, gone
<1>14. \A o \in Token : Fades(c, gone, d, o)
  BY <1>3, <1>11, <1>13 DEF Fades
<1>15. ASSUME Settled(c, R), NEW o \in Token \ R PROVE Spares(c, gone, d, o)
  <2>1. c.player_entities[o] \in gone => c.encounter[o].kind = "none"
    BY <1>2, <1>6
  <2>2. Leads(c.encounter[o]) => c.encounter[o].escort \notin gone
    BY <1>5, <1>15 DEF Settled, Guided, gone
  <2> QED BY <1>11, <1>13, <2>1, <2>2 DEF Spares
<1>16. Keeps(c, d, R) /\ Standing(d)
  BY <1>2, <1>12, <1>14, <1>15, Pruned DEF Keeps
<1>17. Keeps(d, u, R)
  BY <1>16, ZonesUpdated DEF Stays
<1> HIDE DEF u
<1>18. w' = u
  BY <1>1, <1>4 DEF u
<1> QED BY <1>2, <1>16, <1>17, <1>18, KeepsTrans

LEMMA Joined ==
    ASSUME NEW R, NEW t \in Token, StandingInv, Join(t)
    PROVE  Keeps(w, w', R)
<1> DEFINE e == New("player", t, w.at[t])
           id == next_entity_id(w)
           s == spawn_entity(w, e)
           P == [s.player_entities EXCEPT ![t] = id]
           S == s.players \cup {t}
           p == _spawn_player_entity(w, t)
           q == [p EXCEPT !.players = @ \cup {t}]
           u == update_active_zones(q)
<1>1. Standing(w) /\ w \in World /\ t \notin w.players /\ Room(1) /\ w' = u
  BY DEF StandingInv, Standing, Join, _attach_player
<1>2. Id \ Used(w) # {}
  BY <1>1, RoomFor
<1>3. e \in Entity /\ e.owner = t /\ e.what = "player" /\ e.live
  <2>1. w.at[t] \in Place
    BY <1>1, Fields
  <2> QED BY <2>1 DEF New, Entity, What
<1>4. p = [s EXCEPT !.player_entities = P]
  BY DEF _spawn_player_entity
<1> HIDE DEF e
<1>5. Appears(w, s, id, e) /\ Beside2(w, s) /\ s.encounter = w.encounter /\ s \in World /\ id \in Id
  BY <1>1, <1>2, <1>3, Spawning DEF Appears
<1> HIDE DEF s, id, p
<1>6. P \in [Token -> Id \cup {0}] /\ \A o \in Token : P[o] = IF o = t THEN id ELSE s.player_entities[o]
  BY <1>5, Fields
<1>7. S \subseteq Token
  BY <1>5, Fields
<1> HIDE DEF P
<1>8. p \in World /\ p.players = s.players
  BY <1>4, <1>5, <1>6 DEF World
<1>9. q = [p EXCEPT !.players = S]
  BY <1>8
<1> HIDE DEF S, q
<1>10. /\ q \in World /\ q.entities = s.entities /\ q.player_entities = P /\ q.players = S
       /\ q.encounter = s.encounter /\ q.quest = s.quest
  BY <1>4, <1>5, <1>6, <1>7, <1>8, <1>9 DEF World
<1>11. Enters(w, q, t, id, e)
  <2>1. Appears(w, q, id, e)
    BY <1>5, <1>10 DEF Appears
  <2>2. q.players = w.players \cup {t}
    BY <1>5, <1>10 DEF Beside2, S
  <2>3. \A o \in Token : q.player_entities[o] = IF o = t THEN id ELSE w.player_entities[o]
    BY <1>5, <1>6, <1>10 DEF Beside2
  <2> QED BY <1>1, <1>3, <1>5, <1>10, <2>1, <2>2, <2>3 DEF Enters
<1>12. Keeps(w, q, R) /\ Standing(q)
  BY <1>1, <1>11, Entered DEF Keeps
<1>13. Keeps(q, u, R)
  BY <1>12, ZonesUpdated DEF Stays
<1> HIDE DEF u
<1> QED BY <1>1, <1>12, <1>13, KeepsTrans

-----------------------------------------------------------------------------
(* The invariant.                                                           *)

LEMMA Initially == Init => StandingInv /\ SettledInv
<1> SUFFICES ASSUME Init PROVE StandingInv /\ SettledInv
  OBVIOUS
<1> DEFINE P == [t \in Token |-> 0]
           C == [t \in Token |-> NoEncounter]
           E == [id \in Id |-> Nothing]
           Z == [z \in Place |-> {}]
<1>1. PICK party \in Parties :
         w = [entities |-> E, counter |-> 1, quest |-> party,
              players |-> {}, player_entities |-> P, loading |-> {},
              at |-> [t \in Token |-> IF "gorvak" \in {party[o] : o \in Token} THEN "hall" ELSE "road"],
              encounter |-> C, active |-> {}, zones |-> Z]
  BY DEF Init
<1> DEFINE A == [t \in Token |-> IF "gorvak" \in {party[o] : o \in Token} THEN "hall" ELSE "road"]
<1>2. party \in [Token -> Some]
  BY EncountersAssumption DEF EncountersAssumption, Some
<1>3. A \in [Token -> Place]
  BY DEF Place
<1>4. P \in [Token -> Id \cup {0}] /\ \A t \in Token : P[t] = 0
  OBVIOUS
<1>5. C \in [Token -> Encounter] /\ \A t \in Token : C[t] = NoEncounter
  BY Blank
<1>6. E \in [Id -> Entity] /\ \A id \in Id : E[id] = Nothing
  BY Blank
<1>7. Z \in [Place -> SUBSET Id]
  OBVIOUS
<1>8. MaxId \in Nat /\ 1 \in 1..(MaxId + 1)
  BY EncountersAssumption DEF EncountersAssumption
<1> HIDE DEF A, P, C, E, Z
<1>9. w = [entities |-> E, counter |-> 1, quest |-> party, players |-> {}, player_entities |-> P, loading |-> {},
           at |-> A, encounter |-> C, active |-> {}, zones |-> Z]
  BY <1>1 DEF A
<1>10. w \in World
  BY <1>2, <1>3, <1>4, <1>5, <1>6, <1>7, <1>8, <1>9 DEF World
<1>11. w.entities = E /\ w.quest = party /\ w.players = {} /\ w.player_entities = P /\ w.encounter = C
  BY <1>9
<1>12. Embodied(w)
  BY <1>4, <1>6, <1>11, Blank DEF Embodied
<1>13. OwnSpawned(w)
  BY <1>5, <1>6, <1>11, Blank DEF OwnSpawned
<1>14. \A t \in Token : Phased(w.encounter[t], w.quest[t])
  BY <1>5, <1>11, Blank DEF Phased
<1>15. Standing(w)
  BY <1>10, <1>12, <1>13, <1>14 DEF Standing
<1>16. Settled(w, robbed)
  <2>1. Attended(w, robbed)
    BY <1>5, <1>6, <1>11, Blank DEF Attended, Minion
  <2>2. Guided(w, robbed)
    BY <1>5, <1>11, Blank DEF Guided, Leads
  <2> QED BY <1>15, <2>1, <2>2 DEF Settled
<1> QED BY <1>15, <1>16 DEF StandingInv, SettledInv

LEMMA NextKeeps ==
    ASSUME NEW R, StandingInv, [Next]_vars, robbed' \subseteq R
    PROVE  Keeps(w, w', R)
<1>1. Standing(w)
  BY DEF StandingInv
<1>2. CASE Tick
  <2>1. PICK ch \in Chances : /\ Room(Cardinality({t \in Token : w.quest[t] # "none"}))
                              /\ w' = finish_tick(w, ch)
    BY <1>2 DEF Tick
  <2>2. Ids(w) >= Cardinality({t \in Token : w.quest[t] # "none"})
    BY <2>1 DEF Room, Ids
  <2>3. Keeps(w, finish_tick(w, ch), R)
    BY <1>1, <2>2, TickKeeps
  <2> QED BY <2>1, <2>3
<1>3. CASE \E t \in Token : AskWilhelm(t)
  BY <1>3, WilhelmAsked
<1>4. CASE \E t \in Token : mark_player_map_ready(t)
  BY <1>4, MapReady
<1>5. CASE \E t \in Token : Die(t)
  <2>1. PICK t \in Token : w' = handle_player_death(w, t)
    BY <1>5 DEF Die
  <2>2. Keeps(w, handle_player_death(w, t), R)
    BY <1>1, Died DEF Stays
  <2> QED BY <2>1, <2>2
<1>6. CASE \E t \in Token : detach_player(t)
  BY <1>6, Detached
<1>7. CASE \E t \in Token : Join(t)
  BY <1>7, Joined
<1>8. CASE \E t \in Token, id \in Id : Kill(t, id)
  BY <1>8, Killed
<1>9. CASE \E t \in Token, id \in Id : PickUp(t, id)
  BY <1>9, PickedUp
<1>10. CASE \E t \in Token, z \in Place : Walk(t, z)
  BY <1>10, Walked
<1>11. CASE UNCHANGED vars
  BY <1>1, <1>11 DEF Keeps, vars
<1> QED BY <1>2, <1>3, <1>4, <1>5, <1>6, <1>7, <1>8, <1>9, <1>10, <1>11 DEF Next

LEMMA MoreRobbed ==
    ASSUME [Next]_vars
    PROVE  robbed \subseteq robbed'
<1>1. CASE Tick
  BY <1>1 DEF Tick
<1>2. ASSUME NEW t \in Token, AskWilhelm(t) \/ mark_player_map_ready(t) \/ Die(t) \/ detach_player(t) \/ Join(t)
      PROVE  robbed' = robbed
  BY <1>2 DEF AskWilhelm, mark_player_map_ready, Die, detach_player, Join
<1>3. ASSUME NEW t \in Token, NEW id \in Id, Kill(t, id) \/ PickUp(t, id)
      PROVE  robbed \subseteq robbed'
  BY <1>3 DEF Kill, PickUp
<1>4. ASSUME NEW t \in Token, NEW z \in Place, Walk(t, z)
      PROVE  robbed' = robbed
  BY <1>4 DEF Walk
<1>5. CASE UNCHANGED vars
  BY <1>5 DEF vars
<1> QED BY <1>1, <1>2, <1>3, <1>4, <1>5 DEF Next

LEMMA Inductive ==
    /\ StandingInv /\ [Next]_vars => StandingInv'
    /\ StandingInv /\ SettledInv /\ [Next]_vars => SettledInv'
<1>1. ASSUME StandingInv, [Next]_vars PROVE StandingInv'
  <2>1. Standing(w')
    BY <1>1, NextKeeps DEF Keeps
  <2> QED BY <2>1 DEF StandingInv
<1>2. ASSUME StandingInv, SettledInv, [Next]_vars PROVE SettledInv'
  <2>1. Settled(w, robbed')
    BY <1>2, MoreRobbed DEF SettledInv, Settled, Attended, Guided
  <2>2. Settled(w', robbed')
    BY <1>2, <2>1, NextKeeps DEF Keeps
  <2> QED BY <2>2 DEF SettledInv
<1> QED BY <1>1, <1>2

\* Whatever happens, the world is well formed, who is in it is there with his one
\* entity, an encounter owns what it will remove, and its phase fits its kind and
\* its owner's stage (spawn_entity, remove_entity, GameState.finish_tick).
THEOREM Stands == Spec => []StandingInv
<1>1. Init => StandingInv
  BY Initially
<1>2. StandingInv /\ [Next]_vars => StandingInv'
  BY Inductive
<1> QED BY <1>1, <1>2, PTL DEF Spec

\* A player in the world has an entity there, and an entity of a player is his,
\* through deaths, departures, ticks and ids used again (_attach_player,
\* remove_entity, detach_player).
THEOREM TogetherInTheWorld == Spec => []InWorldTogether
<1>1. StandingInv => InWorldTogether
  <2> SUFFICES ASSUME StandingInv PROVE InWorldTogether
    OBVIOUS
  <2>1. Embodied(w)
    BY DEF StandingInv, Standing
  <2>2. \A t \in Token : t \in w.players => Is(w, w.player_entities[t], "player", t)
    BY <2>1, Blank DEF Embodied, Is
  <2>3. \A t \in Token, id \in Id : Is(w, id, "player", t) => t \in w.players /\ w.player_entities[t] = id
    BY <2>1 DEF Embodied, Is
  <2> QED BY <2>2, <2>3 DEF InWorldTogether
<1> QED BY <1>1, Stands, PTL

\* An encounter that ends removes nothing but its own, whatever other encounters
\* there are (spawned_entity_ids, _remove_encounter_entities).
THEOREM RemovesItsOwn == Spec => []SpawnedOwned
<1>1. StandingInv => SpawnedOwned
  BY DEF StandingInv, Standing, OwnSpawned, SpawnedOwned, Minion
<1> QED BY <1>1, Stands, PTL

\* What encounters have spawned is attended and Wilhelm is led to his end, but for
\* those whom a victory over Gorvak has robbed.
LEMMA Settles == Spec => []SettledInv
<1>1. Init => SettledInv
  BY Initially
<1>2. StandingInv /\ SettledInv /\ [Next]_vars => SettledInv'
  BY Inductive
<1> QED BY <1>1, <1>2, Stands, PTL DEF Spec

\* Nothing of an encounter outlives it, or its owner's stay in the world
\* (cleanup_scripted_encounters_for_owner, _remove_encounter_entities), but of an
\* owner whose entity or Wilhelm was taken for another's summon
\* (_resolve_gorvak_defeat): nobody else loses by that.
THEOREM NothingLeft == Spec => []CleanedUp
<1>1. StandingInv /\ SettledInv => CleanedUp
  <2> SUFFICES ASSUME StandingInv, SettledInv PROVE CleanedUp
    OBVIOUS
  <2>1. SpawnedOwned
    BY DEF StandingInv, Standing, OwnSpawned, SpawnedOwned, Minion
  <2>2. Attended(w, robbed)
    BY DEF SettledInv, Settled
  <2> QED BY <2>1, <2>2 DEF CleanedUp, Attended, Minion
<1> QED BY <1>1, Stands, Settles, PTL

\* And Wilhelm is there as long as he has somewhere to go, with the same exception
\* (start_scripted_escort, _bridge_repair_success, _clear_bridge_wave_beavers).
THEOREM WilhelmStays == Spec => []WilhelmPresent
<1>1. SettledInv => WilhelmPresent
  <2> SUFFICES ASSUME SettledInv, NEW t \in Token \ robbed, w.encounter[t].phase \in {"escorting", "returning"}
               PROVE  Is(w, w.encounter[t].escort, "wilhelm", t)
    BY DEF WilhelmPresent
  <2>1. w \in World /\ OwnSpawned(w) /\ Guided(w, robbed) /\ Phased(w.encounter[t], w.quest[t])
    BY DEF SettledInv, Settled, Standing
  <2>2. Leads(w.encounter[t])
    BY <2>1 DEF Phased, Leads
  <2>3. w.encounter[t].escort \in w.encounter[t].spawned /\ w.entities[w.encounter[t].escort].what = "wilhelm"
    BY <2>1, <2>2 DEF Guided
  <2>4. w.encounter[t].spawned \subseteq Id
    <3>1. w.encounter[t] \in Encounter
      BY <2>1, Fields
    <3> QED BY <3>1, EncounterFields
  <2> QED BY <2>1, <2>3, <2>4, Blank DEF OwnSpawned, Is
<1> QED BY <1>1, Settles, PTL
=============================================================================
