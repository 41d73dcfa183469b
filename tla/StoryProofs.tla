----------------------------- MODULE StoryProofs -------------------------------
(***************************************************************************)
(* Safety of the story for every target of the quests, every length of a   *)
(* scene and any number of deaths, departures and crashes: Sound is        *)
(* inductive; StageForward, MilestonesChained and NothingToLose follow.    *)
(* Over it Settled, of the rewards, from which follows MilestonesPaid.     *)
(***************************************************************************)
EXTENDS Story, TLAPS

\* The quests, how far one is, and how far an encounter is.
Quest == {"none", "road", "bridge", "blackwater", "mud"}
Progress == {"not_started", "active", "ready", "complete"}
Phase == {"none", "escorting", "active", "returning", "ended"}

\* What is in sessions.json of a player, and the player in memory.
Record == [stage : Nat, step : Nat, quest : Quest, qstate : Progress, progress : Nat,
           offer : {"none", "road"}, sticks : BOOLEAN, oil : Nat, rust : Nat, staged : BOOLEAN,
           repaired : BOOLEAN, key : BOOLEAN, gorvak : BOOLEAN, pump : BOOLEAN,
           pvp : BOOLEAN, paid : [Rewards -> Nat]]
Player == [stage : Nat, step : Nat, quest : Quest, qstate : Progress, progress : Nat,
           offer : {"none", "road"}, sticks : BOOLEAN, oil : Nat, rust : Nat, staged : BOOLEAN,
           repaired : BOOLEAN, key : BOOLEAN, gorvak : BOOLEAN, pump : BOOLEAN,
           pvp : BOOLEAN, paid : [Rewards -> Nat],
           online : BOOLEAN, dialogue : Scenes \cup {"none"}, page : Nat,
           bridge : Phase, boss : Phase, key_item : BOOLEAN, saved : Record]

\* The fields that serialize_player_state writes.
Fields == {"stage", "step", "quest", "qstate", "progress", "offer", "sticks", "oil", "rust",
           "staged", "repaired", "key", "gorvak", "pump", "pvp", "paid"}

\* A milestone and the ones before it, and what the stage says of them.
Chain(r) ==
    /\ r.pvp => r.pump /\ r.stage >= COMPLETE
    /\ r.pump => r.gorvak /\ r.stage >= RETURN_NERISSA
    /\ r.gorvak => r.key /\ r.stage >= GORVAK
    /\ r.key => r.stage >= WARDEN_KEY
    /\ r.stage >= BEYOND_ROAD => r.repaired
    /\ r.repaired => r.staged /\ r.stage >= BRIDGE
    /\ r.stage >= GORVAK => r.key
    /\ r.stage >= RETURN_NERISSA => r.pump
    /\ r.quest \in {"blackwater", "mud"} => r.repaired

\* The scenes east of the bridge, or about what lies there.
East == {"NERISSA_POST_BRIDGE", "NERISSA_SAMPLES", "NERISSA_ENDING", "PUMP_SHUTDOWN"}
           \cup ScenesOf.lucian \cup ScenesOf.grix

\* What is under way when an encounter runs, the key lies about, a scene is open.
Staged(p) ==
    /\ p.bridge \in {"escorting", "active", "returning"} => p.staged /\ p.stage >= BRIDGE
    /\ p.boss = "active" => p.stage >= GORVAK
    /\ p.key_item => p.stage >= WARDEN_KEY
    /\ p.dialogue \in East => p.repaired
    /\ p.dialogue = "GRIX_COMPLETE" => p.key
    /\ p.dialogue = "PUMP_SHUTDOWN" => p.gorvak
    /\ p.dialogue = "NERISSA_ENDING" => p.pump

\* A player as a handler may save him.
Ready(p) == p \in Player /\ Chain(p) /\ Staged(p)

\* What a crash would bring back is what a reconnection would.
Safe(p) ==
    _restore_player_from_record(p.saved) = _restore_player_from_record(serialize_player_state(p))

\* The inductive invariant: of the player, and of the record that a crash leaves.
Sound(p) ==
    /\ Ready(p)
    /\ Chain(p.saved) /\ p.saved.stage >= p.stage
    /\ Safe(p)

\* All the states that handler h, run on player p, leaves after a save.
Fine(h, p) ==
    /\ h \in Seq(Player) /\ h # << >>
    /\ \A i \in 1..Len(h) : Sound(h[i]) /\ h[i].stage >= p.stage

\* The largest of two numbers is one of them.
LEMMA MaxOfTwo ==
    ASSUME NEW m \in Nat, NEW n \in Nat
    PROVE  Max({m, n}) \in Nat /\ Max({m, n}) >= m /\ Max({m, n}) >= n /\ Max({m,n}) \in {m, n}
<1>1. \E x \in {m, n} : \A y \in {m, n} : x >= y
  <2>1. CASE m >= n  BY <2>1
  <2>2. CASE n >= m  BY <2>2
  <2>. QED  BY <2>1, <2>2
<1>. QED  BY <1>1 DEF Max

\* The least of two numbers is a number.
LEMMA MinOfTwo ==
    ASSUME NEW m \in Nat, NEW n \in Nat
    PROVE  Min({m, n}) \in Nat
<1>1. \E x \in {m, n} : \A y \in {m, n} : x =< y
  <2>1. CASE m =< n  BY <2>1
  <2>2. CASE n =< m  BY <2>2
  <2>. QED  BY <2>1, <2>2
<1>. QED  BY <1>1 DEF Min

\* A number that is at least as large as four others is the largest.
LEMMA GreatestOfFive ==
    ASSUME NEW m \in Nat, NEW a \in Nat, NEW b \in Nat, NEW c \in Nat, NEW d \in Nat,
           m >= a, m >= b, m >= c, m >= d
    PROVE  Max({m, a, b, c, d}) = m
<1>1. \A x \in {m, a, b, c, d} : (\A y \in {m, a, b, c, d} : x >= y) => x = m
  OBVIOUS
<1>2. \E x \in {m, a, b, c, d} : \A y \in {m, a, b, c, d} : x >= y
  OBVIOUS
<1>. QED  BY <1>1, <1>2 DEF Max

\* Raised changes the stage, upwards, and the step.
LEMMA RaisedIs ==
    ASSUME NEW p \in Player, NEW n \in Nat
    PROVE  /\ Raised(p, n) \in Player
           /\ Raised(p, n).stage >= p.stage /\ Raised(p, n).stage >= n
           /\ Raised(p, n).stage \in {p.stage, n}
           /\ Raised(p, n) = [p EXCEPT !.stage = Raised(p, n).stage, !.step = 0]
<1>1. Max({p.stage, n}) \in Nat BY MaxOfTwo DEF Player
<1>. QED BY <1>1, MaxOfTwo DEF Raised, Player

\* What is saved of a player who is ready is sound.
LEMMA MarkIs ==
    ASSUME NEW p, Ready(p)
    PROVE  Sound(mark(p)) /\ mark(p).stage = p.stage
<1>. p \in Player /\ Chain(p) /\ Staged(p)
  BY DEF Ready
<1>1. serialize_player_state(p) \in Record
  BY DEF serialize_player_state, New, Player, Record
<1>2. mark(p) \in Player
  BY <1>1 DEF mark, Player
<1>3. Chain(serialize_player_state(p)) /\ serialize_player_state(p).stage = p.stage
  BY DEF serialize_player_state, New, Player, Record, Chain
<1>4. mark(p).saved = serialize_player_state(p)
  BY DEF mark, Player
<1>5. Chain(mark(p)) /\ mark(p).stage = p.stage /\ Staged(mark(p))
  BY DEF mark, Player, Chain, Staged
<1>6. Safe(mark(p))
  <2>1. serialize_player_state(mark(p)) = serialize_player_state(p)
    BY DEF serialize_player_state, mark, New, Player
  <2>. QED  BY <1>4, <2>1 DEF Safe
<1>. QED  BY <1>2, <1>3, <1>4, <1>5, <1>6 DEF Sound, Ready, Player

\* They are those of a new player.
LEMMA FieldsSaved == DOMAIN New = Fields
BY DEF New, Fields

\* Nothing that is saved has changed.
LEMMA StillSound ==
    ASSUME NEW p, Sound(p), NEW q, Ready(q), q.saved = p.saved, \A f \in Fields : q[f] = p[f]
    PROVE  Sound(q) /\ q.stage >= p.stage
<1>1. serialize_player_state(q) = serialize_player_state(p)
  BY FieldsSaved DEF serialize_player_state
<1>2. q.stage = p.stage /\ p.stage \in Nat
  BY DEF Fields, Sound, Ready, Player
<1>. QED  BY <1>1, <1>2 DEF Sound, Safe

\* The step that _normalize_story_state leaves.
Rewound(r) ==
    IF (r.stage = BRIDGE /\ ~r.repaired) \/ (r.stage = GORVAK /\ ~r.gorvak) THEN 0 ELSE r.step

\* On chained milestones _normalize_story_state finds nothing to repair.
LEMMA Normal ==
    ASSUME NEW r, r.stage \in Nat, Chain(r),
           {r.key, r.gorvak, r.pump, r.pvp} \subseteq BOOLEAN
    PROVE  /\ Max({r.stage, IF r.key THEN WARDEN_KEY ELSE 0, IF r.gorvak THEN GORVAK ELSE 0,
                   IF r.pump THEN RETURN_NERISSA ELSE 0, IF r.pvp THEN COMPLETE ELSE 0}) = r.stage
           /\ (r.pump \/ r.pvp) = r.pump
           /\ (r.gorvak \/ r.pump) = r.gorvak
           /\ (r.key \/ r.pump) = r.key
<1>. DEFINE a == IF r.key THEN WARDEN_KEY ELSE 0
            b == IF r.gorvak THEN GORVAK ELSE 0
            c == IF r.pump THEN RETURN_NERISSA ELSE 0
            d == IF r.pvp THEN COMPLETE ELSE 0
<1>1. /\ a \in Nat /\ b \in Nat /\ c \in Nat /\ d \in Nat
      /\ r.stage >= a /\ r.stage >= b /\ r.stage >= c /\ r.stage >= d
  BY DEF Chain, WARDEN_KEY, GORVAK, RETURN_NERISSA, COMPLETE
<1>2. Max({r.stage, a, b, c, d}) = r.stage
  <2>. HIDE DEF a, b, c, d
  <2>. QED  BY <1>1, GreatestOfFive
<1>. QED  BY <1>2 DEF Chain

\* Of a record it changes the step at most.
LEMMA NormalRecord ==
    ASSUME NEW r \in Record, Chain(r)
    PROVE  _normalize_story_state(r) = [r EXCEPT !.step = Rewound(r)] /\ Rewound(r) \in Nat
<1>. DEFINE pump == r.pump \/ r.pvp
            gorvak == r.gorvak \/ pump
            key == r.key \/ pump
            stage == Max({r.stage, IF key THEN WARDEN_KEY ELSE 0, IF gorvak THEN GORVAK ELSE 0,
                          IF pump THEN RETURN_NERISSA ELSE 0, IF r.pvp THEN COMPLETE ELSE 0})
            step == IF (stage = BRIDGE /\ ~r.repaired) \/ (stage = GORVAK /\ ~gorvak) THEN 0 ELSE r.step
<1>1. pump = r.pump /\ gorvak = r.gorvak /\ key = r.key
  BY DEF Chain, Record
<1>2. stage = r.stage
  <2>. HIDE DEF pump, gorvak, key
  <2>. QED  BY <1>1, Normal DEF Record
<1>3. _normalize_story_state(r)
        = [r EXCEPT !.pump = pump, !.gorvak = gorvak, !.key = key, !.stage = stage, !.step = step]
  BY DEF _normalize_story_state
<1>4. step \in Nat
  <2>. HIDE DEF pump, gorvak, key, stage
  <2>. QED  BY DEF Record
<1>. HIDE DEF pump, gorvak, key, stage, step
<1>5. _normalize_story_state(r) = [r EXCEPT !.step = step]
  <2>1. [r EXCEPT !.pump = r.pump, !.gorvak = r.gorvak, !.key = r.key, !.stage = r.stage, !.step = step]
          = [r EXCEPT !.step = step]
    BY DEF Record
  <2>. QED  BY <1>1, <1>2, <1>3, <2>1
<1>6. step = Rewound(r)
  BY <1>1, <1>2 DEF step, Rewound
<1>. QED  BY <1>4, <1>5, <1>6

\* The same of a player.
LEMMA NormalPlayer ==
    ASSUME NEW r \in Player, Chain(r)
    PROVE  _normalize_story_state(r) = [r EXCEPT !.step = Rewound(r)] /\ Rewound(r) \in Nat
<1>. DEFINE pump == r.pump \/ r.pvp
            gorvak == r.gorvak \/ pump
            key == r.key \/ pump
            stage == Max({r.stage, IF key THEN WARDEN_KEY ELSE 0, IF gorvak THEN GORVAK ELSE 0,
                          IF pump THEN RETURN_NERISSA ELSE 0, IF r.pvp THEN COMPLETE ELSE 0})
            step == IF (stage = BRIDGE /\ ~r.repaired) \/ (stage = GORVAK /\ ~gorvak) THEN 0 ELSE r.step
<1>1. pump = r.pump /\ gorvak = r.gorvak /\ key = r.key
  BY DEF Chain, Player
<1>2. stage = r.stage
  <2>. HIDE DEF pump, gorvak, key
  <2>. QED  BY <1>1, Normal DEF Player
<1>3. _normalize_story_state(r)
        = [r EXCEPT !.pump = pump, !.gorvak = gorvak, !.key = key, !.stage = stage, !.step = step]
  BY DEF _normalize_story_state
<1>4. step \in Nat
  <2>. HIDE DEF pump, gorvak, key, stage
  <2>. QED  BY DEF Player
<1>. HIDE DEF pump, gorvak, key, stage, step
<1>5. _normalize_story_state(r) = [r EXCEPT !.step = step]
  <2>1. [r EXCEPT !.pump = r.pump, !.gorvak = r.gorvak, !.key = r.key, !.stage = r.stage, !.step = step]
          = [r EXCEPT !.step = step]
    BY DEF Player
  <2>. QED  BY <1>1, <1>2, <1>3, <2>1
<1>6. step = Rewound(r)
  BY <1>1, <1>2 DEF step, Rewound
<1>. QED  BY <1>4, <1>5, <1>6

\* A quest that is cleared breaks no milestone.
LEMMA ClearedIs ==
    ASSUME NEW r \in Record, Chain(r)
    PROVE  /\ Cleared(r) \in Record /\ Chain(Cleared(r))
           /\ Cleared(r).stage = r.stage
<1>1. Cleared(r) \in Record
  BY DEF Cleared, Record, Quest, Progress
<1>. QED  BY <1>1 DEF Cleared, Record, Chain

\* What is restored of a chained record is chained, at the same stage.
LEMMA Restored ==
    ASSUME NEW r \in Record, Chain(r)
    PROVE  /\ _restore_player_from_record(r) \in Record
           /\ Chain(_restore_player_from_record(r))
           /\ _restore_player_from_record(r).stage = r.stage
<1>. DEFINE d == deserialize_player_state(r)
            e == IF d.quest = "none" THEN Cleared(d) ELSE d
<1>1. d \in Record /\ Chain(d) /\ d.stage = r.stage
  BY ClearedIs DEF deserialize_player_state
<1>. HIDE DEF d
<1>2. e \in Record /\ Chain(e) /\ e.stage = r.stage
  BY <1>1, ClearedIs
<1>. HIDE DEF e
<1>3. PICK step \in Nat : _normalize_story_state(e) = [e EXCEPT !.step = step]
  BY <1>2, NormalRecord
<1>4. _restore_player_from_record(r) = _normalize_story_state(e)
  BY DEF _restore_player_from_record, _normalize_restored_player, e, d
<1>5. [e EXCEPT !.step = step] \in Record
  BY <1>2 DEF Record
<1>. QED  BY <1>2, <1>3, <1>4, <1>5 DEF Record, Chain

\* Restoring is done once: a second restore changes nothing.
LEMMA RestoredTwice ==
    ASSUME NEW r \in Record, Chain(r)
    PROVE  _restore_player_from_record(_restore_player_from_record(r)) = _restore_player_from_record(r)
<1>. DEFINE d == deserialize_player_state(r)
            e == IF d.quest = "none" THEN Cleared(d) ELSE d
            n == _restore_player_from_record(r)
<1>1. d \in Record /\ Chain(d)
  BY ClearedIs DEF deserialize_player_state
<1>2. ~(d.stage > LIVING_MUD /\ d.quest = "mud")
  BY DEF deserialize_player_state, Cleared, Record
<1>. HIDE DEF d
<1>3. e \in Record /\ Chain(e)
  BY <1>1, ClearedIs
<1>4. ~(e.stage > LIVING_MUD /\ e.quest = "mud")
  BY <1>1, <1>2 DEF Cleared, Record
<1>5. e.quest = "none" => e.qstate = "not_started" /\ e.progress = 0
  BY <1>1 DEF Cleared, Record
<1>. HIDE DEF e
<1>6. n = [e EXCEPT !.step = Rewound(e)] /\ Rewound(e) \in Nat
  BY <1>3, NormalRecord DEF _restore_player_from_record, _normalize_restored_player, e, d
<1>. HIDE DEF n
<1>7. n \in Record /\ n.step = Rewound(e) /\ Chain(n) /\ n = [n EXCEPT !.step = Rewound(n)]
  <2>1. n \in Record /\ n.step = Rewound(e) /\ n.stage = e.stage
        /\ n.repaired = e.repaired /\ n.gorvak = e.gorvak
    BY <1>3, <1>6 DEF Record
  <2>2. Chain(n)
    BY <1>3, <1>6 DEF Record, Chain
  <2>3. Rewound(n) = n.step
    BY <2>1 DEF Rewound
  <2>. QED  BY <2>1, <2>2, <2>3 DEF Record
<1>8. deserialize_player_state(n) = n
  BY <1>3, <1>4, <1>6 DEF deserialize_player_state, Record
<1>9. n.quest = "none" => Cleared(n) = n
  <2>1. n.quest = e.quest /\ n.qstate = e.qstate /\ n.progress = e.progress
    BY <1>3, <1>6 DEF Record
  <2>. HIDE DEF n
  <2>2. n = [n EXCEPT !.quest = n.quest, !.qstate = n.qstate, !.progress = n.progress]
    BY <1>7 DEF Record
  <2>. QED  BY <1>5, <2>1, <2>2 DEF Cleared
<1>10. _normalize_restored_player(n) = n
  BY <1>7, <1>9, NormalRecord DEF _normalize_restored_player
<1>. QED  BY <1>8, <1>10 DEF _restore_player_from_record, n

\* The player that is made of a record, field by field.
LEMMA LoadedRecord ==
    ASSUME NEW r
    PROVE  LET n == _restore_player_from_record(r)
           IN  Loaded(r) =
          [stage |-> n.stage, step |-> n.step, quest |-> n.quest, qstate |-> n.qstate,
               progress |-> n.progress, offer |-> n.offer, sticks |-> n.sticks, oil |-> n.oil,
               rust |-> n.rust, staged |-> n.staged, repaired |-> n.repaired, key |-> n.key,
               gorvak |-> n.gorvak, pump |-> n.pump, pvp |-> n.pvp, paid |-> n.paid,
               online |-> TRUE, dialogue |-> "none", page |-> 0, bridge |-> "none", boss |-> "none",
               key_item |-> FALSE, saved |-> r]
<1>. DEFINE n == _restore_player_from_record(r)
            l == Loaded(r)
            D == {"stage", "step", "quest", "qstate", "progress", "offer", "sticks", "oil",
                  "rust", "staged", "repaired", "key", "gorvak", "pump", "pvp", "paid"}
            T == {"online", "dialogue", "page", "bridge", "boss", "key_item"}
<1>1. DOMAIN New = D
  BY DEF New
<1>2. DOMAIN Transient = T
  BY DEF Transient
<1>3. l = [f \in D \cup T \cup {"saved"} |->
             IF f = "saved" THEN r ELSE IF f \in D THEN n[f] ELSE Transient[f]]
  BY <1>1, <1>2 DEF Loaded
<1>. HIDE DEF l, n
<1>4. l = [stage |-> n.stage, step |-> n.step, quest |-> n.quest, qstate |-> n.qstate,
           progress |-> n.progress, offer |-> n.offer, sticks |-> n.sticks, oil |-> n.oil,
           rust |-> n.rust, staged |-> n.staged, repaired |-> n.repaired, key |-> n.key,
           gorvak |-> n.gorvak, pump |-> n.pump, pvp |-> n.pvp, paid |-> n.paid,
           online |-> TRUE, dialogue |-> "none", page |-> 0, bridge |-> "none", boss |-> "none",
           key_item |-> FALSE, saved |-> r]
  BY <1>3 DEF Transient
<1>. QED  BY <1>4 DEF l, n

\* The server started again: the player is sound and has lost no stage.
LEMMA LoadedIs ==
    ASSUME NEW r \in Record, Chain(r)
    PROVE  LET q == [Loaded(r) EXCEPT !.online = FALSE]
           IN  Sound(q) /\ Sound(Loaded(r)) /\ q.stage = r.stage
<1>. DEFINE n == _restore_player_from_record(r)
            l == Loaded(r)
            q == [l EXCEPT !.online = FALSE]
<1>1. n \in Record /\ Chain(n) /\ n.stage = r.stage
  BY Restored
<1>. HIDE DEF n
<1>2. l = [stage |-> n.stage, step |-> n.step, quest |-> n.quest, qstate |-> n.qstate,
           progress |-> n.progress, offer |-> n.offer, sticks |-> n.sticks, oil |-> n.oil,
           rust |-> n.rust, staged |-> n.staged, repaired |-> n.repaired, key |-> n.key,
           gorvak |-> n.gorvak, pump |-> n.pump, pvp |-> n.pvp, paid |-> n.paid,
           online |-> TRUE, dialogue |-> "none", page |-> 0, bridge |-> "none", boss |-> "none",
           key_item |-> FALSE, saved |-> r]
  BY LoadedRecord DEF n
<1>. HIDE DEF l
<1>3. l \in Player /\ q \in Player
  <2>1. n.stage \in Nat /\ n.step \in Nat /\ n.quest \in Quest /\ n.qstate \in Progress
        /\ n.progress \in Nat /\ n.offer \in {"none", "road"} /\ n.oil \in Nat /\ n.rust \in Nat
        /\ {n.sticks, n.staged, n.repaired, n.key, n.gorvak, n.pump, n.pvp} \subseteq BOOLEAN
        /\ n.paid \in [Rewards -> Nat]
    BY <1>1 DEF Record
  <2>2. l \in Player
    BY <1>2, <2>1 DEF Player, Phase
  <2>. QED  BY <2>2 DEF Player
<1>4. Chain(l) /\ Chain(q) /\ l.stage = r.stage /\ q.stage = r.stage /\ l.saved = r /\ q.saved = r
  BY <1>1, <1>2 DEF Chain
<1>5. Staged(l) /\ Staged(q)
  BY <1>2 DEF Staged, East, ScenesOf
<1>6. Safe(l) /\ Safe(q)
  <2>2. serialize_player_state(l) = n /\ serialize_player_state(q) = n
    BY <1>1, <1>2, FieldsSaved DEF serialize_player_state, Record, Fields
  <2>3. _restore_player_from_record(n) = n
    BY RestoredTwice DEF n
  <2>. QED  BY <1>4, <2>2, <2>3 DEF Safe, n
<1>. QED  BY <1>3, <1>4, <1>5, <1>6 DEF Sound, Ready, l, Record

\* A handler that saves once.
LEMMA OneState ==
    ASSUME NEW p, NEW a, Sound(a), a.stage >= p.stage
    PROVE  Fine(<<a>>, p)
BY DEF Fine, Sound, Ready

\* A handler that saves twice.
LEMMA TwoStates ==
    ASSUME NEW p, NEW a, NEW b, Sound(a), a.stage >= p.stage, Sound(b), b.stage >= p.stage
    PROVE  Fine(<<a, b>>, p)
BY DEF Fine, Sound, Ready

\* A handler runs to its end or the server dies inside it: both are sound.
LEMMA DoFine ==
    ASSUME Sound(s), NEW h, Fine(h, s), Do(h)
    PROVE  Sound(s)' /\ s'.stage >= s.stage
<1>1. CASE s' = h[Len(h)]
  <2>1. Len(h) \in 1..Len(h)
    BY DEF Fine
  <2>. QED  BY <1>1, <2>1 DEF Fine
<1>2. CASE \E i \in 1..Len(h) - 1 : s' = [Loaded(h[i].saved) EXCEPT !.online = FALSE]
  <2>1. PICK i \in 1..Len(h) - 1 : s' = [Loaded(h[i].saved) EXCEPT !.online = FALSE]
    BY <1>2
  <2>2. i \in 1..Len(h)
    BY DEF Fine
  <2>3. Sound(h[i]) /\ h[i].stage >= s.stage
    BY <2>2 DEF Fine
  <2>4. h[i].saved \in Record /\ Chain(h[i].saved) /\ h[i].saved.stage >= h[i].stage
    BY <2>3 DEF Sound, Ready, Player
  <2>5. h[i].stage \in Nat /\ h[i].saved.stage \in Nat /\ s.stage \in Nat
    BY <2>3 DEF Sound, Ready, Player, Record
  <2>6. Sound(s') /\ s'.stage = h[i].saved.stage
    BY <2>1, <2>4, LoadedIs
  <2>. QED  BY <2>3, <2>4, <2>5, <2>6
<1>. QED  BY <1>1, <1>2 DEF Do

\* A stage is raised only on the milestones it needs.
LEMMA RaisedReady ==
    ASSUME NEW p, Ready(p), NEW n \in Nat,
           n >= BEYOND_ROAD => p.repaired, n >= GORVAK => p.key, n >= RETURN_NERISSA => p.pump
    PROVE  Ready(Raised(p, n)) /\ Raised(p, n).stage >= p.stage
<1>. DEFINE q == Raised(p, n)
            m == q.stage
<1>1. p \in Player /\ Chain(p) /\ Staged(p)
  BY DEF Ready
<1>2. /\ q \in Player /\ m >= p.stage /\ m \in {p.stage, n}
      /\ q = [p EXCEPT !.stage = m, !.step = 0]
  BY <1>1, RaisedIs
<1>3. m \in Nat
  BY <1>2 DEF Player
<1>. HIDE DEF q, m
<1>4. Chain(q)
  BY <1>1, <1>2, <1>3 DEF Player, Chain, BRIDGE, BEYOND_ROAD, WARDEN_KEY, GORVAK, RETURN_NERISSA, COMPLETE
<1>5. Staged(q)
  BY <1>1, <1>2, <1>3 DEF Player, Staged, BRIDGE, WARDEN_KEY, GORVAK
<1>. QED  BY <1>2, <1>4, <1>5 DEF Ready, q, m

\* A quest starts: those of Lucian need the bridge.
LEMMA StartedReady ==
    ASSUME NEW p, Ready(p), NEW q \in Quest, q \in {"blackwater", "mud"} => p.repaired
    PROVE  Ready(Started(p, q)) /\ Started(p, q).stage = p.stage
<1>1. Started(p, q) \in Player
  BY DEF Started, Ready, Player, Progress
<1>. QED  BY <1>1 DEF Started, Ready, Player, Chain, Staged

\* A reward is paid and saved.
LEMMA AwardIs ==
    ASSUME NEW p, Ready(p), NEW r \in Rewards
    PROVE  Sound(award_gold(p, r)) /\ award_gold(p, r).stage = p.stage
<1>. DEFINE q == [p EXCEPT !.paid[r] = IF @ < MaxPaid THEN @ + 1 ELSE @]
<1>1. q \in Player
  BY DEF Ready, Player
<1>2. Ready(q) /\ q.stage = p.stage
  BY <1>1 DEF Ready, Player, Chain, Staged
<1>3. award_gold(p, r) = mark(q)
  BY DEF award_gold
<1>. QED  BY <1>2, <1>3, MarkIs

\* The repair of the bridge starts once its sticks are handed over.
LEMMA RepairStarted ==
    ASSUME NEW p, Sound(p), p.staged
    PROVE  /\ Sound(_start_bridge_repair_for_player(p))
           /\ _start_bridge_repair_for_player(p).stage >= p.stage
<1>. DEFINE q == [p EXCEPT !.bridge = "escorting"]
            r == Raised(q, BRIDGE)
<1>1. p \in Player /\ Chain(p) /\ Staged(p)
  BY DEF Sound, Ready
<1>2. q \in Player /\ Chain(q) /\ q.stage = p.stage
  BY <1>1 DEF Player, Phase, Chain
<1>3. /\ r \in Player /\ r.stage >= q.stage /\ r.stage >= BRIDGE /\ r.stage \in {q.stage, BRIDGE}
      /\ r = [q EXCEPT !.stage = r.stage, !.step = 0]
  BY <1>2, RaisedIs DEF BRIDGE
<1>. DEFINE m == r.stage
<1>4. m \in Nat
  BY <1>3 DEF Player
<1>. HIDE DEF r, m
<1>5. r = [p EXCEPT !.bridge = "escorting", !.stage = m, !.step = 0]
  BY <1>3 DEF m
<1>6. m >= p.stage /\ m >= BRIDGE /\ m \in {p.stage, BRIDGE}
  BY <1>2, <1>3 DEF m
<1>7. Chain(r) /\ r.stage = m
  BY <1>1, <1>4, <1>5, <1>6 DEF Player, Chain, BRIDGE, BEYOND_ROAD, WARDEN_KEY, GORVAK,
     RETURN_NERISSA, COMPLETE
<1>8. Staged(r)
  BY <1>1, <1>4, <1>5, <1>6 DEF Player, Staged, BRIDGE, WARDEN_KEY, GORVAK
<1>9. Sound(mark(r)) /\ mark(r).stage = m
  BY <1>3, <1>7, <1>8, MarkIs DEF Ready
<1>. QED  BY <1>1, <1>4, <1>6, <1>9 DEF _start_bridge_repair_for_player, r, Player

\* Wilhelm takes the sticks, or tries again.
LEMMA BridgeCommitted ==
    ASSUME NEW p, Sound(p)
    PROVE  Fine(_commit_wilhelm_bridge_start(p), p)
<1>0. p \in Player /\ Chain(p) /\ Staged(p) /\ p.stage \in Nat
  BY DEF Sound, Ready, Player
<1>1. CASE p.repaired \/ (~p.staged /\ ~p.sticks)
  BY <1>0, <1>1, OneState DEF _commit_wilhelm_bridge_start
<1>2. CASE ~p.repaired /\ p.staged
  BY <1>2, RepairStarted, OneState DEF _commit_wilhelm_bridge_start
<1>3. CASE ~p.repaired /\ ~p.staged /\ p.sticks
  <2>. DEFINE q == [p EXCEPT !.sticks = FALSE, !.staged = TRUE]
              gave == mark(Started(q, "bridge"))
  <2>1. Ready(q) /\ q.stage = p.stage /\ q.staged
    <3>1. q \in Player /\ q.stage = p.stage /\ q.staged
      BY <1>0 DEF Player
    <3>2. Chain(q) /\ Staged(q)
      BY <1>0 DEF Player, Chain, Staged
    <3>. QED  BY <3>1, <3>2 DEF Ready
  <2>2. Ready(Started(q, "bridge")) /\ Started(q, "bridge").stage = p.stage
        /\ Started(q, "bridge").staged
    <3>. HIDE DEF q
    <3>1. Ready(Started(q, "bridge")) /\ Started(q, "bridge").stage = p.stage
      BY <2>1, StartedReady DEF Quest
    <3>2. Started(q, "bridge").staged
      BY <2>1 DEF Started, Ready, Player
    <3>. QED  BY <3>1, <3>2
  <2>. HIDE DEF q
  <2>3. Sound(gave) /\ gave.stage = p.stage
    BY <2>2, MarkIs
  <2>4. gave.staged
    BY <2>2 DEF mark, Ready, Player
  <2>5. _commit_wilhelm_bridge_start(p) = <<gave, _start_bridge_repair_for_player(gave)>>
    BY <1>3 DEF _commit_wilhelm_bridge_start, q
  <2>. HIDE DEF gave
  <2>. QED  BY <1>0, <2>3, <2>4, <2>5, RepairStarted, TwoStates
<1>. QED  BY <1>1, <1>2, <1>3, <1>0 DEF Player

\* Daniel's quest is turned in.
LEMMA OrchardSaved ==
    ASSUME NEW p, Sound(p)
    PROVE  Fine(_complete_save_my_orchard(p), p)
<1>. DEFINE q == [p EXCEPT !.qstate = "complete"]
<1>1. Ready(q) /\ q.stage = p.stage
  BY DEF Sound, Ready, Player, Progress, Chain, Staged
<1>. HIDE DEF q
<1>2. Ready(Raised(q, ROAD_TROUBLE)) /\ Raised(q, ROAD_TROUBLE).stage >= p.stage
  BY <1>1, RaisedReady DEF ROAD_TROUBLE, BEYOND_ROAD, GORVAK, RETURN_NERISSA
<1>. QED  BY <1>2, AwardIs, OneState DEF _complete_save_my_orchard, q, Rewards

\* Wilhelm's quest is turned in.
LEMMA BridgePaid ==
    ASSUME NEW p, Sound(p)
    PROVE  Fine(_complete_repair_the_bridge(p), p)
<1>. DEFINE q == [p EXCEPT !.qstate = "complete"]
<1>1. Ready(q) /\ q.stage = p.stage /\ p.stage \in Nat
  BY DEF Sound, Ready, Player, Progress, Chain, Staged
<1>. HIDE DEF q
<1>2. Sound(award_gold(q, "bridge")) /\ award_gold(q, "bridge").stage >= p.stage
  BY <1>1, AwardIs DEF Rewards
<1>. QED  BY <1>2, OneState DEF _complete_repair_the_bridge, q

\* Lucian's first quest starts.
LEMMA BlackwaterStarted ==
    ASSUME NEW p, Sound(p), p.repaired
    PROVE  Fine(_start_blackwater_bite(p), p)
<1>. DEFINE q == Started(p, "blackwater")
            r == Raised(q, BLACKWATER)
<1>1. Ready(q) /\ q.stage = p.stage /\ q.repaired
  <2>1. Ready(q) /\ q.stage = p.stage
    BY StartedReady DEF Sound, Quest
  <2>. QED  BY <2>1 DEF Started, Sound, Ready, Player
<1>. HIDE DEF q
<1>2. Ready(r) /\ r.stage >= p.stage
  BY <1>1, RaisedReady DEF BLACKWATER, GORVAK, RETURN_NERISSA
<1>. HIDE DEF r
<1>3. Sound(mark(r)) /\ mark(r).stage >= p.stage
  BY <1>2, MarkIs
<1>. QED  BY <1>3, OneState DEF _start_blackwater_bite, q, r

\* It is turned in, and his second one starts.
LEMMA BlackwaterPaid ==
    ASSUME NEW p, Sound(p), p.repaired
    PROVE  Fine(_complete_blackwater_and_start_living_mud(p), p)
<1>. DEFINE paid == award_gold(p, "blackwater")
            q == Started(paid, "mud")
            r == Raised(q, LIVING_MUD)
<1>1. Sound(paid) /\ paid.stage = p.stage /\ p.stage \in Nat
  BY AwardIs DEF Sound, Ready, Player, Rewards
<1>2. paid.repaired
  BY DEF Sound, Ready, Player, award_gold, mark
<1>. HIDE DEF paid
<1>3. Ready(q) /\ q.stage = p.stage
  BY <1>1, <1>2, StartedReady DEF Sound, Quest
<1>4. q.repaired
  BY <1>1, <1>2 DEF Started, Sound, Ready, Player
<1>. HIDE DEF q
<1>5. Ready(r) /\ r.stage >= p.stage
  BY <1>3, <1>4, RaisedReady DEF LIVING_MUD, GORVAK, RETURN_NERISSA
<1>. HIDE DEF r
<1>6. Sound(mark(r)) /\ mark(r).stage >= p.stage
  BY <1>5, MarkIs
<1>7. _complete_blackwater_and_start_living_mud(p) = <<paid, mark(r)>>
  BY DEF _complete_blackwater_and_start_living_mud, paid, q, r
<1>. QED  BY <1>1, <1>6, <1>7, TwoStates

\* Nerissa takes the samples.
LEMMA MudPaid ==
    ASSUME NEW p, Sound(p), p.repaired
    PROVE  Fine(_complete_living_mud(p), p)
<1>. DEFINE empty == [p EXCEPT !.oil = 0, !.rust = 0]
            paid == award_gold(empty, "mud")
            q == Raised(paid, GOBLIN_WARNED)
            r == Cleared(q)
<1>1. Ready(empty) /\ empty.stage = p.stage /\ p.stage \in Nat /\ empty.repaired
  <2>1. empty \in Player /\ empty.stage = p.stage /\ p.stage \in Nat /\ empty.repaired
    BY DEF Sound, Ready, Player
  <2>2. Chain(empty) /\ Staged(empty)
    BY DEF Sound, Ready, Player, Chain, Staged
  <2>. QED  BY <2>1, <2>2 DEF Ready
<1>. HIDE DEF empty
<1>2. Sound(paid) /\ paid.stage = p.stage
  BY <1>1, AwardIs DEF Rewards
<1>3. paid.repaired
  BY <1>1 DEF Ready, Player, award_gold, mark
<1>. HIDE DEF paid
<1>4. Ready(q) /\ q.stage >= p.stage
  BY <1>2, <1>3, RaisedReady DEF Sound, GOBLIN_WARNED, GORVAK, RETURN_NERISSA
<1>. HIDE DEF q
<1>5. Ready(r) /\ r.stage = q.stage
  <2>1. r \in Player
    BY <1>4 DEF Cleared, Ready, Player, Quest, Progress
  <2>. QED  BY <1>4, <2>1 DEF Cleared, Ready, Player, Chain, Staged
<1>. HIDE DEF r
<1>6. Sound(mark(r)) /\ mark(r).stage >= p.stage
  BY <1>4, <1>5, MarkIs
<1>7. _complete_living_mud(p) = <<paid, mark(r)>>
  BY DEF _complete_living_mud, empty, paid, q, r
<1>. QED  BY <1>1, <1>2, <1>6, <1>7, TwoStates

\* The key of the warden appears.
LEMMA KeySpawned ==
    ASSUME NEW p, Ready(p)
    PROVE  Ready(_ensure_warden_key_spawned(p)) /\ _ensure_warden_key_spawned(p).stage = p.stage
<1>1. CASE p.key \/ p.stage # WARDEN_KEY
  BY <1>1 DEF _ensure_warden_key_spawned
<1>2. CASE ~p.key /\ p.stage = WARDEN_KEY
  <2>. DEFINE q == [p EXCEPT !.key_item = TRUE]
  <2>1. q \in Player /\ q.stage = p.stage
    BY DEF Ready, Player
  <2>2. Chain(q) /\ Staged(q)
    BY <1>2 DEF Ready, Player, Chain, Staged, WARDEN_KEY
  <2>. QED  BY <1>2, <2>1, <2>2 DEF _ensure_warden_key_spawned, spawn_warden_key, Ready
<1>. QED  BY <1>1, <1>2

\* Nothing else of the player is touched.
LEMMA KeyOnly ==
    ASSUME NEW p \in Player
    PROVE  LET k == _ensure_warden_key_spawned(p)
           IN  /\ k \in Player /\ k.saved = p.saved /\ k.dialogue = p.dialogue /\ k.bridge = p.bridge
               /\ \A f \in Fields : k[f] = p[f]
<1>. DEFINE q == [p EXCEPT !.key_item = TRUE]
<1>1. q \in Player
  BY DEF Player
<1>2. /\ q.saved = p.saved /\ q.dialogue = p.dialogue /\ q.bridge = p.bridge
      /\ \A f \in Fields : q[f] = p[f]
  BY DEF Player, Fields
<1>3. _ensure_warden_key_spawned(p) \in {p, q}
  BY DEF _ensure_warden_key_spawned, spawn_warden_key
<1>. HIDE DEF q
<1>. QED  BY <1>1, <1>2, <1>3

\* The deep pump is shut down.
LEMMA PumpStopped ==
    ASSUME NEW p, Sound(p), p.gorvak
    PROVE  Fine(_complete_deep_pump_shutdown(p), p)
<1>. DEFINE q == [p EXCEPT !.pump = TRUE]
            r == Raised(q, RETURN_NERISSA)
            m == r.stage
<1>1. p \in Player /\ Chain(p) /\ Staged(p)
  BY DEF Sound, Ready
<1>2. q \in Player /\ q.stage = p.stage
  BY <1>1 DEF Player
<1>3. /\ r \in Player /\ m >= q.stage /\ m >= RETURN_NERISSA /\ m \in {q.stage, RETURN_NERISSA}
      /\ r = [q EXCEPT !.stage = m, !.step = 0]
  BY <1>2, RaisedIs DEF RETURN_NERISSA
<1>4. m \in Nat /\ m >= p.stage /\ m \in {p.stage, RETURN_NERISSA}
  BY <1>2, <1>3 DEF Player
<1>. HIDE DEF r, m
<1>5. r = [p EXCEPT !.pump = TRUE, !.stage = m, !.step = 0]
  BY <1>3
<1>6. Chain(r) /\ r.stage = m
  BY <1>1, <1>3, <1>4, <1>5 DEF Player, Chain, BRIDGE, BEYOND_ROAD, WARDEN_KEY, GORVAK,
     RETURN_NERISSA, COMPLETE
<1>7. Staged(r)
  BY <1>1, <1>3, <1>4, <1>5 DEF Player, Staged, BRIDGE, WARDEN_KEY, GORVAK, RETURN_NERISSA
<1>8. Sound(mark(r)) /\ mark(r).stage >= p.stage
  BY <1>3, <1>4, <1>6, <1>7, MarkIs DEF Ready
<1>. QED  BY <1>8, OneState DEF _complete_deep_pump_shutdown, r

\* The ending.
LEMMA WillowcrossSaved ==
    ASSUME NEW p, Sound(p), p.pump
    PROVE  Fine(_complete_willowcross_saved(p), p)
<1>. DEFINE q == [p EXCEPT !.pvp = TRUE]
            r == Raised(q, COMPLETE)
            m == r.stage
<1>1. p \in Player /\ Chain(p) /\ Staged(p)
  BY DEF Sound, Ready
<1>2. q \in Player /\ q.stage = p.stage
  BY <1>1 DEF Player
<1>3. /\ r \in Player /\ m >= q.stage /\ m >= COMPLETE /\ m \in {q.stage, COMPLETE}
      /\ r = [q EXCEPT !.stage = m, !.step = 0]
  BY <1>2, RaisedIs DEF COMPLETE
<1>4. m \in Nat /\ m >= p.stage /\ m \in {p.stage, COMPLETE} /\ p.stage \in Nat
  BY <1>1, <1>2, <1>3 DEF Player
<1>. HIDE DEF r, m
<1>5. r = [p EXCEPT !.pvp = TRUE, !.stage = m, !.step = 0]
  BY <1>3
<1>6. Chain(r) /\ r.stage = m
  BY <1>1, <1>3, <1>4, <1>5 DEF Player, Chain, BRIDGE, BEYOND_ROAD, WARDEN_KEY, GORVAK,
     RETURN_NERISSA, COMPLETE
<1>7. Staged(r)
  BY <1>1, <1>3, <1>4, <1>5 DEF Player, Staged, BRIDGE, WARDEN_KEY, GORVAK, COMPLETE
<1>8. Sound(award_gold(r, "saved")) /\ award_gold(r, "saved").stage >= p.stage
  BY <1>3, <1>4, <1>6, <1>7, AwardIs DEF Ready, Rewards
<1>9. CASE p.pvp
  BY <1>4, <1>9, OneState DEF _complete_willowcross_saved
<1>10. CASE ~p.pvp
  BY <1>8, <1>10, OneState DEF _complete_willowcross_saved, r
<1>. QED  BY <1>9, <1>10

\* The scenes, one by one.
LEMMA AllScenes ==
    Scenes = {"NERISSA_INTRO", "NERISSA_POST_BRIDGE", "NERISSA_SAMPLES", "NERISSA_ENDING",
              "DANIEL_OFFER", "DANIEL_COMPLETE", "WILHELM_COMPLETE", "WILHELM_BRIDGE_START",
              "WILHELM_INTRO", "LUCIAN_SAMPLES_REDIRECT", "LUCIAN_LIVING_MUD_OFFER",
              "LUCIAN_BLACKWATER_OFFER", "GRIX_EXPLAIN", "GRIX_COMPLETE", "PUMP_SHUTDOWN"}
<1>1. DOMAIN ScenesOf = {"nerissa", "daniel", "wilhelm", "lucian", "grix", "pump"}
  BY DEF ScenesOf
<1>2. Scenes = ScenesOf.nerissa \cup ScenesOf.daniel \cup ScenesOf.wilhelm
                 \cup ScenesOf.lucian \cup ScenesOf.grix \cup ScenesOf.pump
  BY <1>1 DEF Scenes
<1>. QED  BY <1>2 DEF ScenesOf

\* What is known of a sound player; a handler that does nothing.
LEMMA Bounds ==
    ASSUME NEW p, Sound(p)
    PROVE  p.stage \in Nat /\ p \in Player /\ Chain(p) /\ Staged(p) /\ Ready(p) /\ Fine(<<p>>, p)
<1>1. p.stage \in Nat
  BY DEF Sound, Ready, Player
<1>. QED  BY <1>1, OneState DEF Sound, Ready

\* A handler that only raises the stage.
LEMMA MarkedRaise ==
    ASSUME NEW p, Sound(p), NEW n \in Nat,
           n >= BEYOND_ROAD => p.repaired, n >= GORVAK => p.key, n >= RETURN_NERISSA => p.pump
    PROVE  Fine(<<mark(Raised(p, n))>>, p)
<1>1. Ready(Raised(p, n)) /\ Raised(p, n).stage >= p.stage
  BY Bounds, RaisedReady
<1>2. Sound(mark(Raised(p, n))) /\ mark(Raised(p, n)).stage >= p.stage
  BY <1>1, MarkIs
<1>. QED  BY <1>2, OneState

\* Whatever scene is accepted, on the milestones it was opened with.
LEMMA ConfirmedFine ==
    ASSUME NEW p, Sound(p), NEW d \in Scenes, d \in East => p.repaired,
           d = "GRIX_COMPLETE" => p.key, d = "PUMP_SHUTDOWN" => p.gorvak,
           d = "NERISSA_ENDING" => p.pump
    PROVE  Fine(Confirmed(d, p), p)
<1>0. /\ p.stage \in Nat /\ p \in Player /\ Chain(p) /\ Staged(p) /\ Ready(p)
      /\ Fine(<<p>>, p)
  BY Bounds
<1>1. CASE d = "DANIEL_OFFER"
  <2>1. CASE p.offer = "road"
    <3>. DEFINE q == [p EXCEPT !.offer = "none"]
                r == Started(q, p.offer)
    <3>1. Ready(q) /\ q.stage = p.stage
      BY <1>0 DEF Ready, Player, Chain, Staged
    <3>. HIDE DEF q
    <3>2. Ready(r) /\ r.stage = p.stage
      BY <2>1, <3>1, StartedReady DEF Quest
    <3>. HIDE DEF r
    <3>3. Sound(mark(r)) /\ mark(r).stage >= p.stage
      BY <1>0, <3>2, MarkIs
    <3>. QED  BY <1>1, <2>1, <3>3, OneState DEF Confirmed, accept_pending_quest_offer, q, r
  <2>2. CASE p.offer # "road"
    BY <1>0, <1>1, <2>2 DEF Confirmed
  <2>. QED  BY <2>1, <2>2
<1>2. CASE d = "NERISSA_INTRO"
  <2>1. Fine(<<mark(Raised(p, WELCOME))>>, p)
    BY MarkedRaise DEF WELCOME, BEYOND_ROAD, GORVAK, RETURN_NERISSA
  <2>. QED  BY <1>2, <2>1 DEF Confirmed
<1>3. CASE d = "NERISSA_POST_BRIDGE"
  <2>1. p.repaired
    BY <1>3 DEF East
  <2>2. Fine(<<mark(Raised(p, BEYOND_ROAD))>>, p)
    BY <2>1, MarkedRaise DEF BEYOND_ROAD, GORVAK, RETURN_NERISSA
  <2>. QED  BY <1>3, <2>2 DEF Confirmed
<1>4. CASE d = "WILHELM_BRIDGE_START"
  BY <1>4, BridgeCommitted DEF Confirmed
<1>5. CASE d = "DANIEL_COMPLETE"
  BY <1>5, OrchardSaved DEF Confirmed
<1>6. CASE d = "WILHELM_COMPLETE"
  BY <1>6, BridgePaid DEF Confirmed
<1>7. CASE d = "LUCIAN_BLACKWATER_OFFER"
  <2>1. p.repaired
    BY <1>7 DEF East, ScenesOf
  <2>. QED  BY <1>7, <2>1, BlackwaterStarted DEF Confirmed
<1>8. CASE d = "LUCIAN_LIVING_MUD_OFFER"
  <2>1. p.repaired
    BY <1>8 DEF East, ScenesOf
  <2>. QED  BY <1>8, <2>1, BlackwaterPaid DEF Confirmed
<1>9. CASE d = "LUCIAN_SAMPLES_REDIRECT"
  <2>. DEFINE q == [p EXCEPT !.step = 1]
  <2>1. Ready(q) /\ q.stage = p.stage
    BY <1>0 DEF Ready, Player, Chain, Staged
  <2>2. Sound(mark(q)) /\ mark(q).stage >= p.stage
    <3>. HIDE DEF q
    <3>. QED  BY <1>0, <2>1, MarkIs
  <2>. QED  BY <1>9, <2>2, OneState DEF Confirmed
<1>10. CASE d = "NERISSA_SAMPLES"
  <2>1. p.repaired
    BY <1>10 DEF East
  <2>. QED  BY <1>10, <2>1, MudPaid DEF Confirmed
<1>11. CASE d = "GRIX_EXPLAIN"
  <2>. DEFINE q == Raised(p, WARDEN_KEY)
              r == _ensure_warden_key_spawned(q)
  <2>1. p.repaired
    BY <1>11 DEF East, ScenesOf
  <2>2. Ready(q) /\ q.stage >= p.stage
    BY <1>0, <2>1, RaisedReady DEF WARDEN_KEY, GORVAK, RETURN_NERISSA
  <2>. HIDE DEF q
  <2>3. Ready(r) /\ r.stage = q.stage
    BY <2>2, KeySpawned
  <2>. HIDE DEF r
  <2>4. Sound(mark(r)) /\ mark(r).stage >= p.stage
    BY <2>2, <2>3, MarkIs
  <2>. QED  BY <1>11, <2>4, OneState DEF Confirmed, q, r
<1>12. CASE d = "GRIX_COMPLETE"
  <2>1. p.repaired /\ p.key
    BY <1>12 DEF East, ScenesOf
  <2>2. Fine(<<mark(Raised(p, GORVAK))>>, p)
    BY <2>1, MarkedRaise DEF GORVAK, RETURN_NERISSA
  <2>. QED  BY <1>12, <2>2 DEF Confirmed
<1>13. CASE d = "PUMP_SHUTDOWN"
  BY <1>13, PumpStopped DEF Confirmed
<1>14. CASE d = "NERISSA_ENDING"
  BY <1>14, WillowcrossSaved DEF Confirmed
<1>15. CASE d = "WILHELM_INTRO"
  BY <1>0, <1>15 DEF Confirmed
<1>. QED
  BY <1>1, <1>2, <1>3, <1>4, <1>5, <1>6, <1>7, <1>8, <1>9, <1>10, <1>11, <1>12, <1>13,
     <1>14, <1>15, AllScenes

\* A page is turned, or the scene is closed.
LEMMA AdvanceFine ==
    ASSUME NEW p, Sound(p), p.dialogue # "none", NEW accept \in BOOLEAN
    PROVE  Fine(advance_dialogue(p, accept), p)
<1>0. p.stage \in Nat /\ p \in Player /\ Chain(p) /\ Staged(p)
  BY Bounds
<1>1. CASE p.page < LastPage
  <2>. DEFINE q == [p EXCEPT !.page = @ + 1]
  <2>1. q \in Player /\ q.saved = p.saved /\ \A f \in Fields : q[f] = p[f]
    BY <1>0 DEF Player, Fields
  <2>2. Chain(q) /\ Staged(q)
    BY <1>0 DEF Player, Chain, Staged
  <2>3. Sound(q) /\ q.stage >= p.stage
    <3>. HIDE DEF q
    <3>. QED  BY <2>1, <2>2, StillSound DEF Ready
  <2>. QED  BY <1>1, <2>3, OneState DEF advance_dialogue
<1>2. CASE ~(p.page < LastPage)
  <2>. DEFINE q == [p EXCEPT !.dialogue = "none", !.page = 0]
  <2>1. "none" \notin East
    BY DEF East, ScenesOf
  <2>2. Sound(q) /\ q.stage = p.stage
    <3>1. q \in Player /\ q.saved = p.saved /\ \A f \in Fields : q[f] = p[f]
      BY <1>0 DEF Player, Fields
    <3>2. Chain(q) /\ Staged(q)
      BY <1>0, <2>1 DEF Player, Chain, Staged
    <3>. HIDE DEF q
    <3>. QED  BY <3>1, <3>2, StillSound DEF Ready, Fields
  <2>3. q.repaired = p.repaired /\ q.key = p.key /\ q.gorvak = p.gorvak /\ q.pump = p.pump
    BY <1>0 DEF Player
  <2>4. advance_dialogue(p, accept) = IF accept THEN Confirmed(p.dialogue, q) ELSE <<q>>
    BY <1>2 DEF advance_dialogue, _close_dialogue
  <2>5. p.dialogue \in Scenes
    BY <1>0 DEF Player
  <2>. HIDE DEF q
  <2>6. Fine(Confirmed(p.dialogue, q), q)
    BY <1>0, <2>2, <2>3, <2>5, ConfirmedFine DEF Staged
  <2>7. Fine(Confirmed(p.dialogue, q), p)
    BY <2>2, <2>6 DEF Fine
  <2>. QED  BY <1>0, <2>2, <2>4, <2>7, OneState
<1>. QED  BY <1>1, <1>2

\* A scene that opens is due: the milestones it needs are there.
LEMMA Opened ==
    ASSUME NEW p, Sound(p), p.dialogue = "none", NEW c \in DOMAIN ScenesOf, Reachable(p, c),
           NEW d \in ScenesOf[c], Due(d, p)
    PROVE  /\ d \in Scenes
           /\ d \in East => p.repaired
           /\ d = "GRIX_COMPLETE" => p.key
           /\ d = "PUMP_SHUTDOWN" => p.gorvak
           /\ d = "NERISSA_ENDING" => p.pump
<1>0. p.stage \in Nat /\ p \in Player /\ Chain(p)
  BY Bounds
<1>1. d \in Scenes
  BY DEF Scenes
<1>2. CASE c \in {"lucian", "grix", "pump"}
  <2>1. p.repaired
    BY <1>2 DEF Reachable
  <2>2. d \in ScenesOf.lucian \cup ScenesOf.grix \cup ScenesOf.pump
    BY <1>2
  <2>3. d = "GRIX_COMPLETE" => p.key
    BY DEF Due, ScenesOf, _interact_grix
  <2>4. d = "PUMP_SHUTDOWN" => p.gorvak
    BY DEF Due, ScenesOf, _interact_deep_pump_controls
  <2>5. d # "NERISSA_ENDING"
    BY <2>2 DEF ScenesOf
  <2>. QED  BY <1>1, <2>1, <2>3, <2>4, <2>5
<1>3. CASE c = "nerissa"
  <2>1. _interact_nerissa(d, p)
    BY <1>3 DEF Due, ScenesOf
  <2>2. d \in {"NERISSA_INTRO", "NERISSA_POST_BRIDGE", "NERISSA_SAMPLES", "NERISSA_ENDING"}
    BY <1>3 DEF ScenesOf
  <2>3. CASE d = "NERISSA_INTRO"
    BY <1>1, <2>3 DEF East, ScenesOf
  <2>4. CASE d = "NERISSA_POST_BRIDGE"
    BY <1>1, <2>1, <2>4 DEF _interact_nerissa
  <2>5. CASE d = "NERISSA_SAMPLES"
    BY <1>0, <1>1, <2>1, <2>5 DEF _interact_nerissa, Has, Chain
  <2>6. CASE d = "NERISSA_ENDING"
    BY <1>0, <1>1, <2>1, <2>6 DEF _interact_nerissa, Chain, RETURN_NERISSA, BEYOND_ROAD
  <2>. QED  BY <2>2, <2>3, <2>4, <2>5, <2>6
<1>4. CASE c \in {"daniel", "wilhelm"}
  <2>1. d \in {"DANIEL_OFFER", "DANIEL_COMPLETE", "WILHELM_COMPLETE", "WILHELM_BRIDGE_START",
                "WILHELM_INTRO"}
    BY <1>4 DEF ScenesOf
  <2>. QED  BY <1>1, <2>1 DEF East, ScenesOf
<1>. QED  BY <1>2, <1>3, <1>4 DEF ScenesOf

\* A character is spoken to.
LEMMA InteractFine ==
    ASSUME NEW p, Sound(p), p.dialogue = "none", NEW c \in DOMAIN ScenesOf, Reachable(p, c)
    PROVE  Fine(interact(p, c), p)
<1>. DEFINE offered == c = "daniel" /\ Due("DANIEL_OFFER", p) /\ p.offer # "road"
            q == IF offered THEN mark([p EXCEPT !.offer = "road"]) ELSE p
            due == {d \in ScenesOf[c] : Due(d, p)}
            d == CHOOSE x \in due : TRUE
            retry == /\ c = "wilhelm" /\ p.staged /\ ~p.repaired
                     /\ ~Running(p) /\ ~Has(p, "bridge", "ready")
<1>0. p.stage \in Nat /\ p \in Player /\ Chain(p) /\ Staged(p) /\ Fine(<<p>>, p)
  BY Bounds
<1>1. interact(p, c) = IF retry THEN <<_start_bridge_repair_for_player(p)>>
                       ELSE IF due = {} THEN <<p>> ELSE <<open_dialogue(q, d)>>
  BY DEF interact
<1>2. CASE retry
  BY <1>1, <1>2, RepairStarted, OneState
<1>3. Sound(q) /\ q.stage = p.stage /\ q.dialogue = p.dialogue /\ q.repaired = p.repaired
      /\ q.key = p.key /\ q.gorvak = p.gorvak /\ q.pump = p.pump
  <2>. DEFINE o == [p EXCEPT !.offer = "road"]
  <2>1. o \in Player /\ o.stage = p.stage /\ o.dialogue = p.dialogue /\ o.repaired = p.repaired
        /\ o.key = p.key /\ o.gorvak = p.gorvak /\ o.pump = p.pump
    BY <1>0 DEF Player
  <2>2. Chain(o) /\ Staged(o)
    BY <1>0 DEF Player, Chain, Staged
  <2>. HIDE DEF o
  <2>3. Sound(mark(o)) /\ mark(o).stage = o.stage
    BY <2>1, <2>2, MarkIs DEF Ready
  <2>4. mark(o).dialogue = o.dialogue /\ mark(o).repaired = o.repaired
        /\ mark(o).key = o.key /\ mark(o).gorvak = o.gorvak /\ mark(o).pump = o.pump
    BY <2>1 DEF mark, Player
  <2>. QED  BY <2>1, <2>3, <2>4 DEF o
<1>4. CASE due # {}
  <2>1. d \in due
    BY <1>4
  <2>2. d \in ScenesOf[c] /\ Due(d, p)
    BY <2>1
  <2>. HIDE DEF d, q
  <2>3. /\ d \in Scenes
        /\ d \in East => p.repaired
        /\ d = "GRIX_COMPLETE" => p.key
        /\ d = "PUMP_SHUTDOWN" => p.gorvak
        /\ d = "NERISSA_ENDING" => p.pump
    BY <2>2, Opened
  <2>. DEFINE r == [q EXCEPT !.dialogue = d, !.page = 1]
  <2>4. open_dialogue(q, d) = r
    BY <1>3 DEF open_dialogue
  <2>5. r \in Player /\ r.saved = q.saved /\ \A f \in Fields : r[f] = q[f]
    BY <1>3, <2>3 DEF Sound, Ready, Player, Fields
  <2>6. Chain(r) /\ Staged(r)
    BY <1>3, <2>3 DEF Sound, Ready, Player, Chain, Staged
  <2>. HIDE DEF r
  <2>7. Sound(r) /\ r.stage >= p.stage
    BY <1>3, <2>5, <2>6, StillSound DEF Ready
  <2>8. interact(p, c) = IF retry THEN <<_start_bridge_repair_for_player(p)>> ELSE <<r>>
    BY <1>1, <1>4, <2>4
  <2>. QED  BY <1>2, <2>7, <2>8, OneState
<1>. QED  BY <1>0, <1>1, <1>2, <1>4

\* Every quest has something to count.
LEMMA TargetsPositive ==
    ASSUME NEW q \in {"road", "bridge", "blackwater", "mud"}
    PROVE  QuestTarget[q] \in Nat \ {0}
BY StoryAssumption

\* Progress on a quest.
Counted(p, n, state) == [p EXCEPT !.progress = n, !.qstate = state]

\* Counting for a quest touches no milestone.
LEMMA CountedReady ==
    ASSUME NEW p, Ready(p), NEW n \in Nat, NEW state \in Progress
    PROVE  /\ Sound(mark(Counted(p, n, state)))
           /\ mark(Counted(p, n, state)).stage = p.stage
<1>. DEFINE q == Counted(p, n, state)
<1>1. q \in Player /\ q.stage = p.stage
  BY DEF Ready, Player, Counted
<1>2. Chain(q) /\ Staged(q)
  BY DEF Ready, Player, Counted, Chain, Staged
<1>. HIDE DEF q
<1>3. Sound(mark(q)) /\ mark(q).stage = p.stage
  BY <1>1, <1>2, MarkIs DEF Ready
<1>. QED  BY <1>3 DEF q

\* One more for the quest under way.
LEMMA AdvanceIs ==
    ASSUME NEW p, Ready(p), p.quest \in {"road", "blackwater"}
    PROVE  Sound(Advance(p)) /\ Advance(p).stage = p.stage
<1>. DEFINE n == Min({p.progress + 1, QuestTarget[p.quest]})
            state == IF n = QuestTarget[p.quest] THEN "ready" ELSE p.qstate
<1>1. p.progress \in Nat /\ p.qstate \in Progress
  BY DEF Ready, Player
<1>2. n \in Nat
  BY <1>1, TargetsPositive, MinOfTwo
<1>3. state \in Progress
  BY <1>1 DEF Progress
<1>4. Advance(p) = mark(Counted(p, n, state))
  BY DEF Advance, Ready, Player, Counted
<1>. HIDE DEF n, state
<1>. QED  BY <1>2, <1>3, <1>4, CountedReady

\* A beaver counts for the orchard; the last one leaves the sticks.
LEMMA BeaverFine ==
    ASSUME NEW p, Sound(p)
    PROVE  Fine(_advance_road_trouble_progress(p), p)
<1>. DEFINE o == [p EXCEPT !.sticks = TRUE]
            q == _guarantee_road_trouble_sticks(p)
<1>0. p.stage \in Nat /\ p \in Player /\ Chain(p) /\ Staged(p)
  BY Bounds
<1>1. Sound(mark(o)) /\ mark(o).stage = p.stage
  <2>1. Ready(o) /\ o.stage = p.stage
    <3>1. o \in Player /\ o.stage = p.stage
      BY <1>0 DEF Player
    <3>2. Chain(o) /\ Staged(o)
      BY <1>0 DEF Player, Chain, Staged
    <3>. QED  BY <3>1, <3>2 DEF Ready
  <2>. HIDE DEF o
  <2>. QED  BY <2>1, MarkIs
<1>2. Sound(q) /\ q.stage = p.stage
  BY <1>1 DEF _guarantee_road_trouble_sticks
<1>. HIDE DEF q
<1>3. _advance_road_trouble_progress(p)
        = IF Has(q, "road", "active") THEN <<q, Advance(q)>> ELSE <<q>>
  BY DEF _advance_road_trouble_progress, q
<1>4. CASE Has(q, "road", "active")
  <2>1. Sound(Advance(q)) /\ Advance(q).stage = q.stage
    BY <1>2, <1>4, AdvanceIs DEF Has, Sound
  <2>. QED  BY <1>0, <1>2, <1>3, <1>4, <2>1, TwoStates
<1>5. CASE ~Has(q, "road", "active")
  BY <1>0, <1>2, <1>3, <1>5, OneState
<1>. QED  BY <1>4, <1>5

\* The same of a snake.
LEMMA SnakeFine ==
    ASSUME NEW p, Sound(p)
    PROVE  Fine(_advance_blackwater_progress(p), p)
<1>0. p.stage \in Nat /\ Ready(p) /\ Fine(<<p>>, p)
  BY Bounds
<1>1. CASE Has(p, "blackwater", "active")
  <2>1. Sound(Advance(p)) /\ Advance(p).stage = p.stage
    BY <1>0, <1>1, AdvanceIs DEF Has
  <2>. QED  BY <1>0, <1>1, <2>1, OneState DEF _advance_blackwater_progress
<1>2. CASE ~Has(p, "blackwater", "active")
  BY <1>0, <1>2 DEF _advance_blackwater_progress
<1>. QED  BY <1>1, <1>2

\* A slime leaves a sample.
LEMMA SlimeFine ==
    ASSUME NEW p, Sound(p)
    PROVE  Fine(_grant_living_mud_sample(p), p)
<1>. DEFINE none == Needs(p.oil) <= 0 /\ Needs(p.rust) <= 0
            g == grant_personal_sample(p)
            all == g.oil >= SampleTarget /\ g.rust >= SampleTarget
            n == Min({QuestTarget["mud"], g.oil + g.rust})
            state == IF all THEN "ready" ELSE g.qstate
            r == Counted(g, n, state)
<1>0. p.stage \in Nat /\ p \in Player /\ Chain(p) /\ Staged(p) /\ Fine(<<p>>, p)
  BY Bounds
<1>1. Sound(g) /\ g.stage = p.stage
  <2>. DEFINE a == [p EXCEPT !.oil = @ + 1]
              b == [p EXCEPT !.rust = @ + 1]
  <2>1. Ready(a) /\ a.stage = p.stage /\ Ready(b) /\ b.stage = p.stage
    <3>1. a \in Player /\ a.stage = p.stage /\ b \in Player /\ b.stage = p.stage
      BY <1>0 DEF Player
    <3>2. Chain(a) /\ Staged(a)
      BY <1>0 DEF Player, Chain, Staged
    <3>3. Chain(b) /\ Staged(b)
      BY <1>0 DEF Player, Chain, Staged
    <3>. QED  BY <3>1, <3>2, <3>3 DEF Ready
  <2>2. g = mark(a) \/ g = mark(b)
    BY DEF grant_personal_sample
  <2>. HIDE DEF g, a, b
  <2>. QED  BY <2>1, <2>2, MarkIs
<1>. HIDE DEF g
<1>2. n \in Nat /\ state \in Progress
  <2>1. g.oil \in Nat /\ g.rust \in Nat /\ g.qstate \in Progress
    BY <1>1 DEF Sound, Ready, Player
  <2>. QED  BY <2>1, TargetsPositive, MinOfTwo DEF Progress
<1>3. r = [g EXCEPT !.progress = n, !.qstate = IF all THEN "ready" ELSE @]
  BY <1>1 DEF Sound, Ready, Player, Counted
<1>4. _grant_living_mud_sample(p)
        = IF ~Has(p, "mud", "active") \/ none THEN <<p>> ELSE <<g, mark(r)>>
  BY <1>3 DEF _grant_living_mud_sample, g
<1>. HIDE DEF n, state
<1>5. Sound(mark(r)) /\ mark(r).stage = g.stage
  BY <1>1, <1>2, CountedReady DEF Sound
<1>. HIDE DEF r, none
<1>. QED  BY <1>0, <1>1, <1>4, <1>5, TwoStates

\* Any kill.
LEMMA KilledFine ==
    ASSUME NEW p, Sound(p), NEW k \in {"beaver", "snake", "slime"}
    PROVE  Fine(Killed(p, k), p)
BY BeaverFine, SnakeFine, SlimeFine DEF Killed

\* What a death or a departure does last.
LEMMA NormalIs ==
    ASSUME NEW p, Ready(p)
    PROVE  Sound(mark(_normalize_story_state(p))) /\ mark(_normalize_story_state(p)).stage = p.stage
<1>1. PICK step \in Nat : _normalize_story_state(p) = [p EXCEPT !.step = step]
  BY NormalPlayer DEF Ready
<1>. DEFINE q == [p EXCEPT !.step = step]
<1>2. Ready(q) /\ q.stage = p.stage
  BY DEF Ready, Player, Chain, Staged
<1>. HIDE DEF q
<1>3. Sound(mark(q)) /\ mark(q).stage = p.stage
  BY <1>2, MarkIs
<1>. QED  BY <1>1, <1>3 DEF q

\* A death ends his encounters and nothing else.
LEMMA DeathFine ==
    ASSUME NEW p, Sound(p)
    PROVE  Sound(handle_player_death(p)[1]) /\ handle_player_death(p)[1].stage >= p.stage
<1>. DEFINE b == IF Running(p) THEN "ended" ELSE p.bridge
            o == IF p.boss = "active" THEN "ended" ELSE p.boss
            q == [p EXCEPT !.bridge = b, !.boss = o]
<1>0. p.stage \in Nat /\ p \in Player /\ Chain(p) /\ Staged(p)
  BY Bounds
<1>1. Failed(p) = q
  BY <1>0 DEF Failed, Player
<1>2. /\ b \in Phase /\ b \notin {"escorting", "active", "returning"}
      /\ o \in Phase /\ o # "active"
  BY <1>0 DEF Player, Phase, Running
<1>. HIDE DEF b, o
<1>3. q \in Player /\ q.stage = p.stage
  BY <1>0, <1>2 DEF Player
<1>4. Chain(q) /\ Staged(q)
  BY <1>0, <1>2 DEF Player, Chain, Staged
<1>. HIDE DEF q
<1>5. Sound(mark(_normalize_story_state(q))) /\ mark(_normalize_story_state(q)).stage = q.stage
  BY <1>3, <1>4, NormalIs DEF Ready
<1>. QED  BY <1>0, <1>1, <1>3, <1>5 DEF handle_player_death

\* A departure.
LEMMA DetachFine ==
    ASSUME NEW p, Sound(p)
    PROVE  Sound(detach_player(p)[1]) /\ detach_player(p)[1].stage >= p.stage
<1>. DEFINE q == [p EXCEPT !.dialogue = "none", !.page = 0, !.online = FALSE,
                           !.bridge = "none", !.boss = "none", !.key_item = FALSE]
<1>0. p.stage \in Nat /\ p \in Player /\ Chain(p)
  BY Bounds
<1>1. q \in Player /\ q.stage = p.stage
  <2>1. "none" \in Phase
    BY DEF Phase
  <2>2. q \in Player
    BY <1>0, <2>1 DEF Player
  <2>. QED  BY <1>0, <2>2 DEF Player
<1>2. Chain(q)
  BY <1>0 DEF Player, Chain
<1>3. Staged(q)
  <2>1. "none" \notin East
    BY DEF East, ScenesOf
  <2>. QED  BY <1>0, <2>1 DEF Player, Staged
<1>. HIDE DEF q
<1>4. Sound(mark(_normalize_story_state(q))) /\ mark(_normalize_story_state(q)).stage = q.stage
  BY <1>1, <1>2, <1>3, NormalIs DEF Ready
<1>. QED  BY <1>0, <1>1, <1>4 DEF detach_player, q

\* A handler that saves one change.
LEMMA MarkedFine ==
    ASSUME NEW p, Sound(p), NEW q, q \in Player, Chain(q), Staged(q), q.stage >= p.stage
    PROVE  Fine(<<mark(q)>>, p)
BY MarkIs, OneState DEF Ready

\* The escort reached the bridge.
LEMMA RepairBegun ==
    ASSUME NEW p, Sound(p), p.bridge = "escorting"
    PROVE  Fine(_bridge_repair_started(p), p)
<1>. DEFINE q == [p EXCEPT !.bridge = "active", !.step = 1, !.progress = 0]
<1>0. p.stage \in Nat /\ p \in Player /\ Chain(p) /\ Staged(p)
  BY Bounds
<1>1. q \in Player /\ q.stage >= p.stage
  <2>1. {"active", "ended"} \subseteq Phase
    BY DEF Phase
  <2>2. q \in Player
    BY <1>0, <2>1 DEF Player
  <2>. QED  BY <1>0, <2>2 DEF Player
<1>2. Chain(q) /\ Staged(q)
  BY <1>0 DEF Player, Chain, Staged
<1>. HIDE DEF q
<1>. QED  BY <1>1, <1>2, MarkedFine DEF _bridge_repair_started, q

\* A quarter of the repair is done.
LEMMA RepairProgress ==
    ASSUME NEW p, Sound(p)
    PROVE  Fine(_bridge_repair_progress(p), p)
<1>. DEFINE n == Min({p.progress + 1, QuestTarget["bridge"] - 1})
            q == [p EXCEPT !.progress = n]
<1>0. p.stage \in Nat /\ p \in Player /\ Chain(p) /\ Staged(p)
  BY Bounds
<1>1. n \in Nat
  <2>1. p.progress + 1 \in Nat
    BY <1>0 DEF Player
  <2>2. QuestTarget["bridge"] - 1 \in Nat
    BY TargetsPositive
  <2>. QED  BY <2>1, <2>2, MinOfTwo
<1>2. _bridge_repair_progress(p) = <<mark(q)>>
  BY DEF _bridge_repair_progress
<1>. HIDE DEF n
<1>3. q \in Player /\ q.stage >= p.stage
  BY <1>0, <1>1 DEF Player
<1>4. Chain(q) /\ Staged(q)
  BY <1>0 DEF Player, Chain, Staged
<1>. HIDE DEF q
<1>. QED  BY <1>2, <1>3, <1>4, MarkedFine

\* The bridge opens.
LEMMA RepairDone ==
    ASSUME NEW p, Sound(p), p.bridge = "active"
    PROVE  Fine(_bridge_repair_success(p), p)
<1>. DEFINE o == [p EXCEPT !.repaired = TRUE]
            open == mark(o)
            told == [open EXCEPT !.stage = Max({@, BRIDGE}), !.step = 1, !.bridge = "returning"]
            ready == [told EXCEPT !.qstate = "ready", !.progress = QuestTarget["bridge"]]
            last == IF told.quest = "bridge" THEN ready ELSE told
<1>0. p.stage \in Nat /\ p \in Player /\ Chain(p) /\ Staged(p)
  BY Bounds
<1>1. p.staged /\ p.stage >= BRIDGE
  BY <1>0 DEF Staged
<1>2. o \in Player /\ o.stage = p.stage /\ o.staged /\ o.repaired
  BY <1>0, <1>1 DEF Player
<1>3. Chain(o) /\ Staged(o)
  BY <1>0, <1>1 DEF Player, Chain, Staged
<1>. HIDE DEF o
<1>4. Sound(open) /\ open.stage = p.stage
  BY <1>2, <1>3, MarkIs DEF Ready
<1>5. open \in Player /\ open.staged /\ open.repaired
  <2>1. open.staged /\ open.repaired
    BY <1>2 DEF mark, Player
  <2>. QED  BY <1>4, <2>1 DEF Sound, Ready
<1>6. Max({open.stage, BRIDGE}) = open.stage
  <2>1. \A m \in {open.stage, BRIDGE} :
          (\A n \in {open.stage, BRIDGE} : m >= n) <=> m = open.stage
    BY <1>0, <1>1, <1>4 DEF BRIDGE
  <2>2. open.stage \in {open.stage, BRIDGE}
    OBVIOUS
  <2>. QED  BY <2>1, <2>2 DEF Max
<1>7. _bridge_repair_success(p) = <<open, mark(last)>>
  BY DEF _bridge_repair_success, o
<1>. HIDE DEF open
<1>8. told = [open EXCEPT !.step = 1, !.bridge = "returning"]
  BY <1>5, <1>6 DEF Player
<1>. HIDE DEF told
<1>9. told \in Player /\ told.stage = p.stage /\ Chain(told) /\ Staged(told)
  <2>1. told \in Player /\ told.stage = p.stage
    BY <1>4, <1>5, <1>8 DEF Player, Phase
  <2>. QED  BY <1>1, <1>4, <1>5, <1>8, <2>1 DEF Sound, Ready, Player, Chain, Staged
<1>10. ready \in Player /\ ready.stage = p.stage /\ Chain(ready) /\ Staged(ready)
  <2>1. ready \in Player /\ ready.stage = p.stage
    BY <1>9, TargetsPositive DEF Player, Progress
  <2>. QED  BY <1>9, <2>1 DEF Player, Chain, Staged
<1>. HIDE DEF ready
<1>11. last \in Player /\ last.stage = p.stage /\ Chain(last) /\ Staged(last)
  BY <1>9, <1>10
<1>. HIDE DEF last
<1>12. Sound(mark(last)) /\ mark(last).stage = p.stage
  BY <1>11, MarkIs DEF Ready
<1>. QED  BY <1>0, <1>4, <1>7, <1>12, TwoStates

\* Gorvak falls.
LEMMA GorvakBeaten ==
    ASSUME NEW p, Sound(p), p.boss = "active"
    PROVE  Fine(_gorvak_encounter_success(p), p)
<1>. DEFINE q == [p EXCEPT !.gorvak = TRUE, !.step = 3, !.boss = "ended"]
<1>0. p.stage \in Nat /\ p \in Player /\ Chain(p) /\ Staged(p)
  BY Bounds
<1>1. q \in Player /\ q.stage >= p.stage
  <2>1. {"active", "ended"} \subseteq Phase
    BY DEF Phase
  <2>2. q \in Player
    BY <1>0, <2>1 DEF Player
  <2>. QED  BY <1>0, <2>2 DEF Player
<1>2. Chain(q) /\ Staged(q)
  BY <1>0 DEF Player, Chain, Staged
<1>. HIDE DEF q
<1>. QED  BY <1>1, <1>2, MarkedFine DEF _gorvak_encounter_success, q

-----------------------------------------------------------------------------

\* A new player is sound.
LEMMA InitSound ==
    ASSUME Init
    PROVE  Sound(s)
<1>1. New \in Record
  BY DEF New, NONE, Record, Quest, Progress
<1>2. Chain(New)
  BY DEF New, NONE, Chain, BEYOND_ROAD, GORVAK, RETURN_NERISSA
<1>. HIDE DEF New
<1>. QED  BY <1>1, <1>2, LoadedIs DEF Init

\* Every step keeps the player sound, and his stage.
LEMMA StepSound ==
    ASSUME Sound(s), [Next]_vars
    PROVE  Sound(s)' /\ s'.stage >= s.stage
<1>0. /\ s.stage \in Nat /\ s \in Player /\ Chain(s) /\ Staged(s) /\ Fine(<<s>>, s)
      /\ Ready(s)
  BY Bounds
<1>1. CASE UNCHANGED vars
  BY <1>0, <1>1 DEF vars, Sound, Ready, Chain, Staged
<1>2. CASE Interact
  <2>1. PICK c \in DOMAIN ScenesOf :
          s.dialogue = "none" /\ Reachable(s, c) /\ Do(interact(s, c))
    BY <1>2 DEF Interact
  <2>. QED  BY <2>1, InteractFine, DoFine
<1>3. CASE Acknowledge
  <2>1. PICK accept \in BOOLEAN : s.dialogue # "none" /\ Do(advance_dialogue(s, accept))
    BY <1>3 DEF Acknowledge
  <2>. QED  BY <2>1, AdvanceFine, DoFine
<1>4. CASE Kill
  <2>1. PICK k \in {"beaver", "snake", "slime"} : Do(Killed(s, k))
    BY <1>4 DEF Kill
  <2>. QED  BY <2>1, KilledFine, DoFine
<1>5. CASE CollectSticks
  <2>. DEFINE q == [s EXCEPT !.sticks = TRUE]
  <2>1. q \in Player /\ q.stage = s.stage
    BY <1>0 DEF Player
  <2>2. Chain(q) /\ Staged(q)
    BY <1>0 DEF Player, Chain, Staged
  <2>3. Do(<<mark(q)>>)
    BY <1>5 DEF CollectSticks
  <2>. HIDE DEF q
  <2>. QED  BY <1>0, <2>1, <2>2, <2>3, MarkedFine, DoFine
<1>6. CASE CollectKey
  <2>. DEFINE q == [s EXCEPT !.key = TRUE, !.key_item = FALSE]
  <2>1. q \in Player /\ q.stage = s.stage
    BY <1>0 DEF Player
  <2>2. Chain(q) /\ Staged(q)
    BY <1>0, <1>6 DEF CollectKey, Player, Chain, Staged
  <2>3. Do(<<mark(q)>>)
    BY <1>6 DEF CollectKey
  <2>. HIDE DEF q
  <2>. QED  BY <1>0, <2>1, <2>2, <2>3, MarkedFine, DoFine
<1>7. CASE KeyDecays
  <2>1. s' = [s EXCEPT !.key_item = FALSE]
    BY <1>7 DEF KeyDecays
  <2>2. s' \in Player /\ s'.saved = s.saved /\ \A f \in Fields : s'[f] = s[f]
    BY <1>0, <2>1 DEF Player, Fields
  <2>3. Chain(s') /\ Staged(s')
    BY <1>0, <2>1 DEF Player, Chain, Staged
  <2>4. Sound(s') /\ s'.stage >= s.stage
    BY <2>2, <2>3, StillSound DEF Ready
  <2>. QED  BY <2>4
<1>8. CASE Tick
  <2>. DEFINE k == _ensure_warden_key_spawned(s)
              b == IF k.bridge = "ended" THEN "none" ELSE k.bridge
              o == IF k.boss = "ended" THEN "none" ELSE k.boss
  <2>1. Ready(k) /\ k.saved = s.saved /\ \A f \in Fields : k[f] = s[f]
    <3>1. k.saved = s.saved /\ \A f \in Fields : k[f] = s[f]
      BY <1>0, KeyOnly
    <3>. QED  BY <1>0, <3>1, KeySpawned
  <2>2. s' = [k EXCEPT !.bridge = b, !.boss = o]
    BY <1>8, <2>1 DEF Tick, Ready, Player
  <2>3. /\ b \in Phase /\ b \in {k.bridge, "none"}
        /\ o \in Phase /\ o \in {k.boss, "none"}
    BY <2>1 DEF Ready, Player, Phase
  <2>. HIDE DEF k, b, o
  <2>4. s' \in Player /\ s'.saved = s.saved /\ \A f \in Fields : s'[f] = s[f]
    BY <2>1, <2>2, <2>3 DEF Ready, Player, Fields
  <2>5. Chain(s') /\ Staged(s')
    BY <2>1, <2>2, <2>3 DEF Ready, Player, Chain, Staged
  <2>6. Sound(s') /\ s'.stage >= s.stage
    BY <2>4, <2>5, StillSound DEF Ready
  <2>. QED  BY <2>6
<1>9. CASE Bridge
  <2>. DEFINE q(phase) == [s EXCEPT !.bridge = phase]
  <2>1. ASSUME NEW phase \in {"ended", "none"}
        PROVE  Fine(<<mark(q(phase))>>, s)
    <3>1. q(phase) \in Player /\ q(phase).stage >= s.stage
      BY <1>0 DEF Player, Phase
    <3>2. Chain(q(phase)) /\ Staged(q(phase))
      BY <1>0 DEF Player, Chain, Staged
    <3>. HIDE DEF q
    <3>. QED  BY <3>1, <3>2, MarkedFine
  <2>2. CASE s.bridge = "escorting" /\ Do(_bridge_repair_started(s))
    BY <2>2, RepairBegun, DoFine
  <2>3. CASE s.bridge = "active" /\ Do(_bridge_repair_progress(s))
    BY <2>3, RepairProgress, DoFine
  <2>4. CASE s.bridge = "active" /\ Do(_bridge_repair_success(s))
    BY <2>4, RepairDone, DoFine
  <2>5. CASE Do(<<mark(q("ended"))>>)
    <3>. HIDE DEF q
    <3>. QED  BY <2>1, <2>5, DoFine
  <2>6. CASE Do(<<mark(q("none"))>>)
    <3>. HIDE DEF q
    <3>. QED  BY <2>1, <2>6, DoFine
  <2>. QED  BY <1>9, <2>2, <2>3, <2>4, <2>5, <2>6 DEF Bridge
<1>10. CASE Boss
  <2>. DEFINE q == [s EXCEPT !.boss = "active"]
  <2>1. CASE s.stage = GORVAK /\ Do(<<q>>)
    <3>1. q \in Player /\ q.saved = s.saved /\ \A f \in Fields : q[f] = s[f]
      BY <1>0 DEF Player, Phase, Fields
    <3>2. Chain(q) /\ Staged(q)
      BY <1>0, <2>1 DEF Player, Chain, Staged, GORVAK
    <3>. HIDE DEF q
    <3>3. Sound(q) /\ q.stage >= s.stage
      BY <3>1, <3>2, StillSound DEF Ready
    <3>. QED  BY <2>1, <3>3, OneState, DoFine
  <2>2. CASE s.boss = "active" /\ Do(_gorvak_encounter_success(s))
    BY <2>2, GorvakBeaten, DoFine
  <2>. QED  BY <1>10, <2>1, <2>2 DEF Boss
<1>11. CASE Die
  BY <1>11, DeathFine DEF Die, Sound, Ready, Chain, Staged
<1>12. CASE Leave
  BY <1>12, DetachFine DEF Leave, Sound, Ready, Chain, Staged
<1>13. CASE Return
  <2>1. s' = [s EXCEPT !.online = TRUE]
    BY <1>13 DEF Return
  <2>2. s' \in Player /\ s'.saved = s.saved /\ \A f \in Fields : s'[f] = s[f]
    BY <1>0, <2>1 DEF Player, Fields
  <2>3. Chain(s') /\ Staged(s')
    BY <1>0, <2>1 DEF Player, Chain, Staged
  <2>4. Sound(s') /\ s'.stage >= s.stage
    BY <2>2, <2>3, StillSound DEF Ready
  <2>. QED  BY <2>4
<1>14. CASE Crash
  <2>1. s' = [Loaded(s.saved) EXCEPT !.online = FALSE]
    BY <1>14 DEF Crash
  <2>2. s.saved \in Record /\ Chain(s.saved) /\ s.saved.stage >= s.stage
    BY <1>0 DEF Sound, Player
  <2>3. Sound(s') /\ s'.stage >= s.stage
    BY <2>1, <2>2, LoadedIs
  <2>. QED  BY <2>3 DEF Sound, Ready, Chain, Staged
<1>. QED
  BY <1>1, <1>2, <1>3, <1>4, <1>5, <1>6, <1>7, <1>8, <1>9, <1>10, <1>11, <1>12, <1>13, <1>14
  DEF Next

\* In every state the player, and what is saved of him, is sound: typed, his milestones
\* chained, the scene he reads and the encounter he plays backed by them.
THEOREM AlwaysSound == Spec => []Sound(s)
<1>1. Init => Sound(s)
  BY InitSound
<1>2. Sound(s) /\ [Next]_vars => Sound(s)'
  BY StepSound
<1>. QED  BY <1>1, <1>2, PTL DEF Spec

\* The stage never goes back, in play (Raised takes the larger stage) and wherever the
\* server dies, inside a handler or between two (quests.py's durable anchor).
THEOREM StoryNeverGoesBack == Spec => StageForward
<1>1. Sound(s) /\ [Next]_vars => [s'.stage >= s.stage]_vars
  BY StepSound
<1>. QED  BY <1>1, AlwaysSound, PTL DEF Spec, StageForward

\* A milestone comes after the earlier ones it needs, and _normalize_story_state never
\* finds a stage to repair.
THEOREM ChainedMilestones == Spec => []MilestonesChained
<1>1. Sound(s) => MilestonesChained
  <2>. SUFFICES ASSUME Sound(s) PROVE MilestonesChained
    OBVIOUS
  <2>0. s.stage \in Nat /\ s \in Player /\ Chain(s)
    BY Bounds
  <2>1. PICK step \in Nat : _normalize_story_state(s) = [s EXCEPT !.step = step]
    BY <2>0, NormalPlayer
  <2>2. _normalize_story_state(s).stage = s.stage
    BY <2>0, <2>1 DEF Player
  <2>. QED  BY <2>0, <2>2 DEF MilestonesChained, Chain
<1>. QED  BY <1>1, AlwaysSound, PTL

\* A crash costs no more than a reconnection: every handler of game.py saved what it did.
THEOREM CrashHarmless == Spec => []NothingToLose
<1>1. Sound(s) => NothingToLose
  BY DEF Sound, Safe, NothingToLose
<1>. QED  BY <1>1, AlwaysSound, PTL

-----------------------------------------------------------------------------
(* The rewards of the story: beside Sound, the record pays for exactly the  *)
(* milestones it has, until the server dies inside a handler.               *)

\* What a record says of the rewards that its milestones brought.
Paid(r) ==
    /\ r.paid["bridge"] \in {0, 1} /\ (r.paid["bridge"] = 1 => r.repaired)
    /\ r.paid["blackwater"] = IF r.stage >= LIVING_MUD THEN 1 ELSE 0
    /\ r.paid["mud"] = IF r.stage >= GOBLIN_WARNED THEN 1 ELSE 0
    /\ r.paid["saved"] = IF r.pvp THEN 1 ELSE 0
    /\ r.quest = "blackwater" => r.stage = BLACKWATER
    /\ r.quest = "mud" => r.stage = LIVING_MUD
    /\ r.quest = "bridge" /\ r.qstate \in {"active", "ready"} => r.paid["bridge"] = 0
    /\ r.quest = "bridge" /\ r.qstate = "ready" => r.repaired

\* What makes a scene that pays due.
Talked(d, p) ==
    /\ d = "WILHELM_COMPLETE" => Has(p, "bridge", "ready")
    /\ d = "LUCIAN_LIVING_MUD_OFFER" => Has(p, "blackwater", "ready")
    /\ d = "LUCIAN_BLACKWATER_OFFER" => p.stage < BLACKWATER
    /\ d = "NERISSA_SAMPLES" => Has(p, "mud", "ready")
    /\ d = "GRIX_EXPLAIN" => p.stage = GOBLIN_WARNED

\* The invariant, as long as the server died inside no handler.
Settled(p) ==
    /\ Paid(p) /\ Paid(p.saved)
    /\ Talked(p.dialogue, p)
    /\ p.bridge \in {"escorting", "active"} => ~p.repaired

\* Where a handler ends.
Last(h) == h[Len(h)]

\* What is saved of a settled player is settled.
LEMMA MarkSettled ==
    ASSUME NEW p \in Player, Paid(p), Talked(p.dialogue, p),
           p.bridge \in {"escorting", "active"} => ~p.repaired
    PROVE  Settled(mark(p))
<1>1. \A f \in Fields : serialize_player_state(p)[f] = p[f]
  BY FieldsSaved DEF serialize_player_state
<1>2. Paid(serialize_player_state(p))
  BY <1>1 DEF Paid, Fields
<1>3. mark(p).saved = serialize_player_state(p)
  BY DEF mark, Player
<1>4. Paid(mark(p))
  BY DEF mark, Player, Paid
<1>5. Talked(mark(p).dialogue, mark(p))
  BY DEF mark, Player, Talked, Has
<1>6. mark(p).bridge = p.bridge /\ mark(p).repaired = p.repaired
  BY DEF mark, Player
<1>. QED  BY <1>2, <1>3, <1>4, <1>5, <1>6 DEF Settled

\* Nothing that is saved has changed.
LEMMA StillSettled ==
    ASSUME NEW p \in Player, Settled(p), NEW q, q.saved = p.saved, \A f \in Fields : q[f] = p[f],
           Talked(q.dialogue, p), q.bridge \in {"escorting", "active"} => ~p.repaired
    PROVE  Settled(q)
<1>1. /\ q.stage = p.stage /\ q.quest = p.quest /\ q.qstate = p.qstate /\ q.pvp = p.pvp
      /\ q.paid = p.paid /\ q.repaired = p.repaired
  BY DEF Fields
<1>2. Paid(q)
  BY <1>1 DEF Settled, Paid
<1>3. Talked(q.dialogue, q)
  BY <1>1 DEF Talked, Has
<1>. QED  BY <1>1, <1>2, <1>3 DEF Settled

\* So is what is restored of it.
LEMMA LoadedSettled ==
    ASSUME NEW r \in Record, Chain(r), Paid(r)
    PROVE  Settled([Loaded(r) EXCEPT !.online = FALSE])
<1>. DEFINE d == deserialize_player_state(r)
            e == IF d.quest = "none" THEN Cleared(d) ELSE d
            n == _restore_player_from_record(r)
            q == [Loaded(r) EXCEPT !.online = FALSE]
<1>1. d = r
  BY DEF deserialize_player_state, Paid, LIVING_MUD
<1>. HIDE DEF d
<1>2. e \in Record /\ Chain(e)
  BY <1>1, ClearedIs
<1>3. /\ e.stage = r.stage /\ e.pvp = r.pvp /\ e.paid = r.paid /\ e.repaired = r.repaired
      /\ e.quest = r.quest /\ (r.quest # "none" => e.qstate = r.qstate)
  BY <1>1 DEF Cleared, Record
<1>. HIDE DEF e
<1>4. n = [e EXCEPT !.step = Rewound(e)]
  BY <1>2, NormalRecord DEF _restore_player_from_record, _normalize_restored_player, e, d
<1>5. /\ n.stage = r.stage /\ n.pvp = r.pvp /\ n.paid = r.paid /\ n.repaired = r.repaired
      /\ n.quest = r.quest /\ (r.quest # "none" => n.qstate = r.qstate)
  BY <1>2, <1>3, <1>4 DEF Record
<1>. HIDE DEF n
<1>6. /\ q.stage = n.stage /\ q.pvp = n.pvp /\ q.paid = n.paid /\ q.repaired = n.repaired
      /\ q.quest = n.quest /\ q.qstate = n.qstate /\ q.dialogue = "none" /\ q.bridge = "none"
      /\ q.saved = r
  BY LoadedRecord DEF n
<1>. HIDE DEF q
<1>7. Paid(q)
  BY <1>5, <1>6 DEF Paid
<1>8. Talked(q.dialogue, q)
  BY <1>6 DEF Talked
<1>. QED  BY <1>6, <1>7, <1>8 DEF Settled, q

\* A stage that is raised leaves the rest alone.
LEMMA RaisedKeeps ==
    ASSUME NEW p \in Player, NEW n \in Nat
    PROVE  LET q == Raised(p, n)
           IN  /\ q.dialogue = p.dialogue /\ q.bridge = p.bridge /\ q.repaired = p.repaired
               /\ q.quest = p.quest /\ q.qstate = p.qstate /\ q.pvp = p.pvp /\ q.paid = p.paid
BY DEF Raised, Player

\* A stage that pays nothing is raised.
LEMMA RaisedPaid ==
    ASSUME NEW p \in Player, Paid(p), NEW n \in Nat,
           n >= LIVING_MUD => p.stage >= GOBLIN_WARNED, n = BLACKWATER => p.stage > BLACKWATER
    PROVE  /\ Paid(Raised(p, n)) /\ Raised(p, n) \in Player
           /\ Raised(p, n).dialogue = p.dialogue
           /\ Raised(p, n).bridge = p.bridge /\ Raised(p, n).repaired = p.repaired
<1>. DEFINE q == Raised(p, n)
            m == q.stage
<1>1. q \in Player /\ m >= p.stage /\ m \in {p.stage, n} /\ q = [p EXCEPT !.stage = m, !.step = 0]
  BY RaisedIs
<1>2. m \in Nat /\ p.stage \in Nat
  BY <1>1 DEF Player
<1>. HIDE DEF q, m
<1>3. /\ q.quest = p.quest /\ q.qstate = p.qstate /\ q.pvp = p.pvp /\ q.paid = p.paid
      /\ q.repaired = p.repaired /\ q.stage = m /\ q.dialogue = p.dialogue /\ q.bridge = p.bridge
  BY <1>1, RaisedKeeps DEF q, m
<1>4. Paid(q)
  BY <1>1, <1>2, <1>3 DEF Paid, BLACKWATER, LIVING_MUD, GOBLIN_WARNED
<1>. QED  BY <1>1, <1>3, <1>4 DEF q

\* The same, saved.
LEMMA MarkedRaiseSettled ==
    ASSUME NEW p, Sound(p), Settled(p), p.dialogue = "none", NEW n \in Nat,
           n >= LIVING_MUD => p.stage >= GOBLIN_WARNED, n = BLACKWATER => p.stage > BLACKWATER
    PROVE  Settled(mark(Raised(p, n)))
<1>0. p \in Player
  BY Bounds
<1>1. /\ Paid(Raised(p, n)) /\ Raised(p, n) \in Player
      /\ Raised(p, n).dialogue = p.dialogue
      /\ Raised(p, n).bridge = p.bridge /\ Raised(p, n).repaired = p.repaired
  BY <1>0, RaisedPaid DEF Settled
<1>2. Talked(Raised(p, n).dialogue, Raised(p, n))
  BY <1>1 DEF Talked
<1>. QED  BY <1>1, <1>2, MarkSettled DEF Settled

\* A reward changes nothing but what is paid.
LEMMA AwardFields ==
    ASSUME NEW p \in Player, NEW r \in Rewards
    PROVE  LET q == award_gold(p, r)
           IN  /\ q.stage = p.stage /\ q.quest = p.quest /\ q.qstate = p.qstate /\ q.pvp = p.pvp
               /\ q.repaired = p.repaired /\ q.dialogue = p.dialogue /\ q.bridge = p.bridge
               /\ \A x \in Rewards \ {r} : q.paid[x] = p.paid[x]
               /\ p.paid[r] = 0 => q.paid[r] = 1
BY StoryAssumption DEF award_gold, mark, Player

\* It is a change that is saved.
LEMMA AwardMarked ==
    ASSUME NEW p \in Player, NEW r \in Rewards
    PROVE  \E q \in Player : award_gold(p, r) = mark(q) /\ q.paid = award_gold(p, r).paid
             /\ q.stage = p.stage /\ q.quest = p.quest /\ q.qstate = p.qstate /\ q.pvp = p.pvp
             /\ q.repaired = p.repaired /\ q.dialogue = p.dialogue /\ q.bridge = p.bridge
<1>. DEFINE q == [p EXCEPT !.paid[r] = IF @ < MaxPaid THEN @ + 1 ELSE @]
<1>1. q \in Player
  BY DEF Player
<1>2. award_gold(p, r) = mark(q)
  BY DEF award_gold
<1>3. mark(q).paid = q.paid
  BY <1>1 DEF mark, Player
<1>4. /\ q.stage = p.stage /\ q.quest = p.quest /\ q.qstate = p.qstate /\ q.pvp = p.pvp
      /\ q.repaired = p.repaired /\ q.dialogue = p.dialogue /\ q.bridge = p.bridge
  BY DEF Player
<1>. QED  BY <1>1, <1>2, <1>3, <1>4

\* A reward that was due is paid.
LEMMA AwardSettled ==
    ASSUME NEW p \in Player, NEW r \in Rewards, p.dialogue = "none", Paid(award_gold(p, r)),
           p.bridge \in {"escorting", "active"} => ~p.repaired
    PROVE  Settled(award_gold(p, r))
<1>1. PICK q \in Player : award_gold(p, r) = mark(q) /\ q.paid = award_gold(p, r).paid
             /\ q.stage = p.stage /\ q.quest = p.quest /\ q.qstate = p.qstate /\ q.pvp = p.pvp
             /\ q.repaired = p.repaired /\ q.dialogue = p.dialogue /\ q.bridge = p.bridge
  BY AwardMarked
<1>2. Paid(q)
  BY <1>1, AwardFields DEF Paid
<1>3. Talked(q.dialogue, q)
  BY <1>1 DEF Talked
<1>. QED  BY <1>1, <1>2, <1>3, MarkSettled

\* The repair of the bridge starts, before the bridge is open.
LEMMA RepairSettled ==
    ASSUME NEW p, Sound(p), Settled(p), ~p.repaired, p.dialogue = "none"
    PROVE  Settled(_start_bridge_repair_for_player(p))
<1>0. p \in Player
  BY Bounds
<1>. DEFINE q == [p EXCEPT !.bridge = "escorting"]
<1>1. /\ q \in Player /\ q.dialogue = "none" /\ ~q.repaired
      /\ q.stage = p.stage /\ q.quest = p.quest /\ q.qstate = p.qstate /\ q.pvp = p.pvp
      /\ q.paid = p.paid /\ q.repaired = p.repaired
  BY <1>0 DEF Player, Phase
<1>. HIDE DEF q
<1>2. Paid(q)
  BY <1>1 DEF Settled, Paid
<1>3. /\ Paid(Raised(q, BRIDGE)) /\ Raised(q, BRIDGE) \in Player
      /\ Raised(q, BRIDGE).dialogue = "none" /\ ~Raised(q, BRIDGE).repaired
  BY <1>1, <1>2, RaisedPaid DEF BRIDGE, LIVING_MUD, BLACKWATER
<1>4. Settled(mark(Raised(q, BRIDGE)))
  BY <1>3, MarkSettled DEF Talked
<1>. QED  BY <1>4 DEF _start_bridge_repair_for_player, q

\* Wilhelm takes the sticks: his quest starts, unpaid.
LEMMA CommitSettled ==
    ASSUME NEW p, Sound(p), Settled(p), p.dialogue = "none"
    PROVE  Settled(Last(_commit_wilhelm_bridge_start(p)))
<1>0. p \in Player
  BY Bounds
<1>1. CASE p.repaired \/ (~p.staged /\ ~p.sticks)
  BY <1>1 DEF _commit_wilhelm_bridge_start, Last
<1>2. CASE ~p.repaired /\ p.staged
  BY <1>2, RepairSettled DEF _commit_wilhelm_bridge_start, Last
<1>3. CASE ~p.repaired /\ ~p.staged /\ p.sticks
  <2>. DEFINE q == Started([p EXCEPT !.sticks = FALSE, !.staged = TRUE], "bridge")
              gave == mark(q)
  <2>1. _commit_wilhelm_bridge_start(p) = <<gave, _start_bridge_repair_for_player(gave)>>
    BY <1>3 DEF _commit_wilhelm_bridge_start
  <2>2. q = [p EXCEPT !.sticks = FALSE, !.staged = TRUE, !.quest = "bridge", !.qstate = "active",
                      !.progress = 0]
    BY DEF Started
  <2>. HIDE DEF q
  <2>3. q \in Player
    BY <1>0, <2>2 DEF Player, Quest, Progress
  <2>4. /\ q.stage = p.stage /\ q.pvp = p.pvp /\ q.paid = p.paid /\ ~q.repaired
        /\ q.quest = "bridge" /\ q.qstate = "active" /\ q.dialogue = "none"
    BY <1>0, <1>3, <2>2 DEF Player
  <2>5. Paid(q)
    BY <1>3, <2>4 DEF Settled, Paid
  <2>6. Settled(gave)
    BY <2>3, <2>4, <2>5, MarkSettled DEF Talked
  <2>7. Fine(_commit_wilhelm_bridge_start(p), p)
    BY BridgeCommitted
  <2>8. Sound(gave)
    BY <2>1, <2>7 DEF Fine
  <2>9. gave.dialogue = "none" /\ ~gave.repaired
    BY <2>3, <2>4 DEF mark, Player
  <2>. HIDE DEF gave
  <2>10. Settled(_start_bridge_repair_for_player(gave))
    BY <2>6, <2>8, <2>9, RepairSettled
  <2>. QED  BY <2>1, <2>10 DEF Last
<1>. QED  BY <1>0, <1>1, <1>2, <1>3 DEF Player

\* Daniel's quest is turned in.
LEMMA OrchardSettled ==
    ASSUME NEW p, Sound(p), Settled(p), p.dialogue = "none"
    PROVE  Settled(Last(_complete_save_my_orchard(p)))
<1>. DEFINE q == [p EXCEPT !.qstate = "complete"]
            r == Raised(q, ROAD_TROUBLE)
            a == award_gold(r, "road")
<1>0. p \in Player
  BY Bounds
<1>1. q \in Player
  BY <1>0 DEF Player, Progress
<1>2. /\ q.dialogue = "none" /\ q.bridge = p.bridge /\ q.qstate = "complete"
      /\ q.stage = p.stage /\ q.quest = p.quest /\ q.pvp = p.pvp
      /\ q.paid = p.paid /\ q.repaired = p.repaired
  BY <1>0 DEF Player
<1>. HIDE DEF q
<1>3. Paid(q)
  BY <1>2 DEF Settled, Paid
<1>4. /\ Paid(r) /\ r \in Player /\ r.dialogue = "none"
      /\ r.bridge = q.bridge /\ r.repaired = q.repaired
  BY <1>1, <1>2, <1>3, RaisedPaid DEF ROAD_TROUBLE, LIVING_MUD, BLACKWATER
<1>. HIDE DEF r
<1>5. Paid(a)
  BY <1>4, AwardFields DEF Paid, Rewards
<1>6. Settled(a)
  BY <1>2, <1>4, <1>5, AwardSettled DEF Settled, Rewards
<1>. QED  BY <1>6 DEF _complete_save_my_orchard, Last, q, r

\* Wilhelm's quest is turned in, once.
LEMMA BridgeSettled ==
    ASSUME NEW p, Sound(p), Settled(p), p.dialogue = "none", Has(p, "bridge", "ready")
    PROVE  Settled(Last(_complete_repair_the_bridge(p)))
<1>. DEFINE q == [p EXCEPT !.qstate = "complete"]
            a == award_gold(q, "bridge")
<1>0. p \in Player
  BY Bounds
<1>1. q \in Player
  BY <1>0 DEF Player, Progress
<1>2. /\ q.dialogue = "none" /\ q.bridge = p.bridge /\ q.qstate = "complete"
      /\ q.stage = p.stage /\ q.quest = p.quest /\ q.pvp = p.pvp
      /\ q.paid = p.paid /\ q.repaired = p.repaired
  BY <1>0 DEF Player
<1>. HIDE DEF q
<1>3. q.paid["bridge"] = 0 /\ q.repaired
  BY <1>2 DEF Settled, Paid, Has
<1>4. Paid(a)
  BY <1>1, <1>2, <1>3, AwardFields DEF Settled, Paid, Rewards
<1>5. Settled(a)
  BY <1>1, <1>2, <1>4, AwardSettled DEF Settled, Rewards
<1>. QED  BY <1>5 DEF _complete_repair_the_bridge, Last, q

\* Lucian's first quest starts, at its stage.
LEMMA BlackwaterSettled ==
    ASSUME NEW p, Sound(p), Settled(p), p.dialogue = "none", p.stage < BLACKWATER
    PROVE  Settled(Last(_start_blackwater_bite(p)))
<1>. DEFINE q == Started(p, "blackwater")
            r == Raised(q, BLACKWATER)
<1>0. p \in Player /\ p.stage \in Nat
  BY Bounds
<1>1. q \in Player
  BY <1>0 DEF Started, Player, Quest, Progress
<1>2. /\ q.dialogue = "none" /\ q.bridge = p.bridge /\ q.quest = "blackwater"
      /\ q.stage = p.stage /\ q.pvp = p.pvp /\ q.paid = p.paid /\ q.repaired = p.repaired
  BY <1>0 DEF Started, Player
<1>. HIDE DEF q
<1>3. r \in Player /\ r.stage \in {q.stage, BLACKWATER} /\ r.stage >= BLACKWATER
      /\ r = [q EXCEPT !.stage = r.stage, !.step = 0]
  BY <1>1, RaisedIs DEF BLACKWATER
<1>4. r.stage = BLACKWATER
  BY <1>0, <1>2, <1>3 DEF BLACKWATER
<1>. HIDE DEF r
<1>5. /\ r.dialogue = "none" /\ r.bridge = p.bridge /\ r.quest = "blackwater"
      /\ r.pvp = p.pvp /\ r.paid = p.paid /\ r.repaired = p.repaired
  BY <1>1, <1>2, RaisedKeeps DEF r, BLACKWATER
<1>6. Paid(r)
  BY <1>0, <1>4, <1>5 DEF Settled, Paid, BLACKWATER, LIVING_MUD, GOBLIN_WARNED
<1>7. Settled(mark(r))
  BY <1>3, <1>5, <1>6, MarkSettled DEF Settled, Talked
<1>. QED  BY <1>7 DEF _start_blackwater_bite, Last, q, r

\* It is paid as the stage passes it.
LEMMA BlackwaterPaidSettled ==
    ASSUME NEW p, Sound(p), Settled(p), p.dialogue = "none", Has(p, "blackwater", "ready")
    PROVE  Settled(Last(_complete_blackwater_and_start_living_mud(p)))
<1>. DEFINE a == award_gold(p, "blackwater")
            q == Started(a, "mud")
            r == Raised(q, LIVING_MUD)
<1>0. p \in Player /\ p.stage = BLACKWATER
  BY Bounds DEF Settled, Paid, Has
<1>1. a \in Player
  BY <1>0, AwardIs, Bounds DEF Rewards, Sound, Ready
<1>2. /\ a.dialogue = "none" /\ a.bridge = p.bridge /\ a.stage = p.stage /\ a.pvp = p.pvp
      /\ a.repaired = p.repaired /\ a.paid["blackwater"] = 1
      /\ \A x \in Rewards \ {"blackwater"} : a.paid[x] = p.paid[x]
  BY <1>0, AwardFields DEF Rewards, Settled, Paid, BLACKWATER, LIVING_MUD
<1>. HIDE DEF a
<1>3. q \in Player
  BY <1>1 DEF Started, Player, Quest, Progress
<1>4. /\ q.dialogue = "none" /\ q.bridge = a.bridge /\ q.quest = "mud"
      /\ q.stage = a.stage /\ q.pvp = a.pvp /\ q.paid = a.paid /\ q.repaired = a.repaired
  BY <1>1, <1>2 DEF Started, Player
<1>. HIDE DEF q
<1>5. r \in Player /\ r.stage \in {q.stage, LIVING_MUD} /\ r.stage >= LIVING_MUD
      /\ r = [q EXCEPT !.stage = r.stage, !.step = 0]
  BY <1>3, RaisedIs DEF LIVING_MUD
<1>6. r.stage = LIVING_MUD
  BY <1>0, <1>2, <1>4, <1>5 DEF BLACKWATER, LIVING_MUD
<1>. HIDE DEF r
<1>7. /\ r.dialogue = "none" /\ r.bridge = q.bridge /\ r.quest = "mud"
      /\ r.pvp = q.pvp /\ r.paid = q.paid /\ r.repaired = q.repaired
  BY <1>3, <1>4, RaisedKeeps DEF r, LIVING_MUD
<1>8. Paid(r)
  BY <1>0, <1>2, <1>4, <1>6, <1>7 DEF Settled, Paid, BLACKWATER, LIVING_MUD, GOBLIN_WARNED, Rewards
<1>9. Settled(mark(r))
  BY <1>2, <1>4, <1>5, <1>7, <1>8, MarkSettled DEF Settled, Talked
<1>. QED  BY <1>9 DEF _complete_blackwater_and_start_living_mud, Last, a, q, r

\* The samples are paid as the stage passes them.
LEMMA MudPaidSettled ==
    ASSUME NEW p, Sound(p), Settled(p), p.dialogue = "none", Has(p, "mud", "ready")
    PROVE  Settled(Last(_complete_living_mud(p)))
<1>. DEFINE e == [p EXCEPT !.oil = 0, !.rust = 0]
            a == award_gold(e, "mud")
            q == Raised(a, GOBLIN_WARNED)
            r == Cleared(q)
<1>0. p \in Player /\ p.stage = LIVING_MUD /\ Chain(p) /\ Staged(p)
  BY Bounds DEF Settled, Paid, Has
<1>1. /\ e \in Player /\ e.dialogue = "none" /\ e.bridge = p.bridge /\ e.stage = p.stage
      /\ e.pvp = p.pvp /\ e.repaired = p.repaired /\ e.paid = p.paid
  BY <1>0 DEF Player
<1>2. Ready(e)
  BY <1>0, <1>1 DEF Ready, Player, Chain, Staged
<1>. HIDE DEF e
<1>3. a \in Player
  BY <1>2, AwardIs DEF Rewards, Sound, Ready
<1>4. /\ a.dialogue = "none" /\ a.bridge = p.bridge /\ a.stage = p.stage /\ a.pvp = p.pvp
      /\ a.repaired = p.repaired /\ a.paid["mud"] = 1
      /\ \A x \in Rewards \ {"mud"} : a.paid[x] = p.paid[x]
  BY <1>0, <1>1, AwardFields DEF Rewards, Settled, Paid, LIVING_MUD, GOBLIN_WARNED
<1>. HIDE DEF a
<1>5. q \in Player /\ q.stage \in {a.stage, GOBLIN_WARNED} /\ q.stage >= GOBLIN_WARNED
      /\ q = [a EXCEPT !.stage = q.stage, !.step = 0]
  BY <1>3, RaisedIs DEF GOBLIN_WARNED
<1>6. q.stage = GOBLIN_WARNED
  BY <1>0, <1>4, <1>5 DEF LIVING_MUD, GOBLIN_WARNED
<1>. HIDE DEF q
<1>7. /\ q.dialogue = "none" /\ q.bridge = a.bridge
      /\ q.pvp = a.pvp /\ q.paid = a.paid /\ q.repaired = a.repaired
  BY <1>3, <1>4, RaisedKeeps DEF q, GOBLIN_WARNED
<1>8. r \in Player
  BY <1>5 DEF Cleared, Player, Quest, Progress
<1>9. /\ r.dialogue = "none" /\ r.bridge = q.bridge /\ r.quest = "none" /\ r.stage = q.stage
      /\ r.pvp = q.pvp /\ r.paid = q.paid /\ r.repaired = q.repaired
  BY <1>5, <1>7 DEF Cleared, Player
<1>. HIDE DEF r
<1>10. Paid(r)
  BY <1>0, <1>4, <1>6, <1>7, <1>9 DEF Settled, Paid, BLACKWATER, LIVING_MUD, GOBLIN_WARNED, Rewards
<1>11. Settled(mark(r))
  BY <1>4, <1>7, <1>8, <1>9, <1>10, MarkSettled DEF Settled, Talked
<1>. QED  BY <1>11 DEF _complete_living_mud, Last, e, a, q, r

\* The ending is paid with its milestone.
LEMMA SavedSettled ==
    ASSUME NEW p, Sound(p), Settled(p), p.dialogue = "none", p.pump
    PROVE  Settled(Last(_complete_willowcross_saved(p)))
<1>. DEFINE e == [p EXCEPT !.pvp = TRUE]
            q == Raised(e, COMPLETE)
            a == award_gold(q, "saved")
<1>0. p \in Player /\ p.stage \in Nat /\ p.stage >= RETURN_NERISSA
  BY Bounds DEF Chain
<1>1. CASE p.pvp
  BY <1>1 DEF _complete_willowcross_saved, Last
<1>2. CASE ~p.pvp
  <2>1. /\ e \in Player /\ e.dialogue = "none" /\ e.bridge = p.bridge /\ e.stage = p.stage /\ e.pvp
        /\ e.repaired = p.repaired /\ e.paid = p.paid /\ e.quest = p.quest /\ e.qstate = p.qstate
    BY <1>0 DEF Player
  <2>. HIDE DEF e
  <2>2. q \in Player /\ q.stage >= COMPLETE /\ q = [e EXCEPT !.stage = q.stage, !.step = 0]
    BY <2>1, RaisedIs DEF COMPLETE
  <2>3. q.stage \in Nat
    BY <2>2 DEF Player
  <2>. HIDE DEF q
  <2>4. /\ q.dialogue = "none" /\ q.bridge = p.bridge /\ q.pvp
        /\ q.repaired = p.repaired /\ q.paid = p.paid /\ q.quest = p.quest /\ q.qstate = p.qstate
    <3>1. /\ q.dialogue = e.dialogue /\ q.bridge = e.bridge /\ q.pvp = e.pvp
          /\ q.repaired = e.repaired /\ q.paid = e.paid /\ q.quest = e.quest /\ q.qstate = e.qstate
      BY <2>1, RaisedKeeps DEF q, COMPLETE
    <3>. QED  BY <2>1, <3>1
  <2>5. p.paid["saved"] = 0
    BY <1>2 DEF Settled, Paid
  <2>6. Paid(a)
    <3>1. /\ a.stage = q.stage /\ a.quest = q.quest /\ a.qstate = q.qstate /\ a.pvp
          /\ a.repaired = q.repaired /\ a.paid["saved"] = 1
          /\ \A x \in Rewards \ {"saved"} : a.paid[x] = q.paid[x]
      BY <2>2, <2>4, <2>5, AwardFields DEF Rewards
    <3>. HIDE DEF a
    <3>. QED
      BY <1>0, <2>2, <2>3, <2>4, <3>1
      DEF Settled, Paid, BLACKWATER, LIVING_MUD, GOBLIN_WARNED, RETURN_NERISSA, COMPLETE, Rewards
  <2>7. Settled(a)
    BY <2>2, <2>4, <2>6, AwardSettled DEF Settled, Rewards
  <2>. QED  BY <1>2, <2>7 DEF _complete_willowcross_saved, Last, e, q
<1>. QED  BY <1>0, <1>1, <1>2 DEF Player

\* The deep pump is shut down: nothing is paid.
LEMMA PumpSettled ==
    ASSUME NEW p, Sound(p), Settled(p), p.dialogue = "none", p.gorvak
    PROVE  Settled(Last(_complete_deep_pump_shutdown(p)))
<1>. DEFINE q == [p EXCEPT !.pump = TRUE]
<1>0. p \in Player /\ p.stage \in Nat /\ p.stage >= GORVAK
  BY Bounds DEF Chain
<1>1. /\ q \in Player /\ q.dialogue = "none" /\ q.bridge = p.bridge /\ q.stage = p.stage
      /\ q.pvp = p.pvp /\ q.repaired = p.repaired /\ q.paid = p.paid /\ q.quest = p.quest
      /\ q.qstate = p.qstate
  BY <1>0 DEF Player
<1>. HIDE DEF q
<1>2. Paid(q)
  BY <1>1 DEF Settled, Paid
<1>3. /\ Paid(Raised(q, RETURN_NERISSA)) /\ Raised(q, RETURN_NERISSA) \in Player
      /\ Raised(q, RETURN_NERISSA).dialogue = "none"
      /\ Raised(q, RETURN_NERISSA).bridge = p.bridge
      /\ Raised(q, RETURN_NERISSA).repaired = p.repaired
  BY <1>0, <1>1, <1>2, RaisedPaid DEF RETURN_NERISSA, LIVING_MUD, BLACKWATER, GOBLIN_WARNED, GORVAK
<1>4. Settled(mark(Raised(q, RETURN_NERISSA)))
  BY <1>3, MarkSettled DEF Settled, Talked
<1>. QED  BY <1>4 DEF _complete_deep_pump_shutdown, Last, q

\* Whatever scene is accepted.
LEMMA ConfirmedSettled ==
    ASSUME NEW p, Sound(p), Settled(p), p.dialogue = "none", NEW d \in Scenes, Talked(d, p),
           d = "GRIX_COMPLETE" => p.key, d = "PUMP_SHUTDOWN" => p.gorvak,
           d = "NERISSA_ENDING" => p.pump
    PROVE  Settled(Last(Confirmed(d, p)))
<1>0. p \in Player /\ p.stage \in Nat /\ Chain(p)
  BY Bounds
<1>1. CASE d = "DANIEL_OFFER"
  <2>1. CASE p.offer = "road"
    <3>. DEFINE q == Started([p EXCEPT !.offer = "none"], p.offer)
    <3>1. q \in Player
      BY <1>0, <2>1 DEF Started, Player, Quest, Progress
    <3>2. /\ q.dialogue = "none" /\ q.bridge = p.bridge /\ q.quest = "road" /\ q.stage = p.stage
          /\ q.pvp = p.pvp /\ q.paid = p.paid /\ q.repaired = p.repaired
      BY <1>0, <2>1 DEF Started, Player
    <3>. HIDE DEF q
    <3>3. Paid(q)
      BY <3>2 DEF Settled, Paid
    <3>4. Settled(mark(q))
      BY <3>1, <3>2, <3>3, MarkSettled DEF Settled, Talked
    <3>. QED  BY <1>1, <2>1, <3>4 DEF Confirmed, accept_pending_quest_offer, q, Last
  <2>2. CASE p.offer # "road"
    BY <1>1, <2>2 DEF Confirmed, Last
  <2>. QED  BY <2>1, <2>2
<1>2. CASE d = "NERISSA_INTRO"
  <2>1. Settled(mark(Raised(p, WELCOME)))
    BY MarkedRaiseSettled DEF WELCOME, LIVING_MUD, BLACKWATER
  <2>. QED  BY <1>2, <2>1 DEF Confirmed, Last
<1>3. CASE d = "NERISSA_POST_BRIDGE"
  <2>1. Settled(mark(Raised(p, BEYOND_ROAD)))
    BY MarkedRaiseSettled DEF BEYOND_ROAD, LIVING_MUD, BLACKWATER
  <2>. QED  BY <1>3, <2>1 DEF Confirmed, Last
<1>4. CASE d = "WILHELM_BRIDGE_START"
  BY <1>4, CommitSettled DEF Confirmed
<1>5. CASE d = "DANIEL_COMPLETE"
  BY <1>5, OrchardSettled DEF Confirmed
<1>6. CASE d = "WILHELM_COMPLETE"
  BY <1>6, BridgeSettled DEF Confirmed, Talked
<1>7. CASE d = "LUCIAN_BLACKWATER_OFFER"
  BY <1>7, BlackwaterSettled DEF Confirmed, Talked
<1>8. CASE d = "LUCIAN_LIVING_MUD_OFFER"
  BY <1>8, BlackwaterPaidSettled DEF Confirmed, Talked
<1>9. CASE d = "LUCIAN_SAMPLES_REDIRECT"
  <2>. DEFINE q == [p EXCEPT !.step = 1]
  <2>1. q \in Player
    BY <1>0 DEF Player
  <2>2. /\ q.dialogue = "none" /\ q.bridge = p.bridge /\ q.quest = p.quest /\ q.stage = p.stage
        /\ q.pvp = p.pvp /\ q.paid = p.paid /\ q.repaired = p.repaired /\ q.qstate = p.qstate
    BY <1>0 DEF Player
  <2>. HIDE DEF q
  <2>3. Paid(q)
    BY <2>2 DEF Settled, Paid
  <2>4. Settled(mark(q))
    BY <2>1, <2>2, <2>3, MarkSettled DEF Settled, Talked
  <2>. QED  BY <1>9, <2>4 DEF Confirmed, q, Last
<1>10. CASE d = "NERISSA_SAMPLES"
  BY <1>10, MudPaidSettled DEF Confirmed, Talked
<1>11. CASE d = "GRIX_EXPLAIN"
  <2>. DEFINE q == Raised(p, WARDEN_KEY)
              r == _ensure_warden_key_spawned(q)
  <2>1. /\ Paid(q) /\ q \in Player /\ q.dialogue = "none"
        /\ q.bridge = p.bridge /\ q.repaired = p.repaired
    BY <1>0, <1>11, RaisedPaid DEF Settled, Talked, WARDEN_KEY, LIVING_MUD, GOBLIN_WARNED, BLACKWATER
  <2>. HIDE DEF q
  <2>2. r \in Player /\ r.dialogue = "none" /\ r.bridge = q.bridge /\ \A f \in Fields : r[f] = q[f]
    BY <2>1, KeyOnly
  <2>3. /\ r.quest = q.quest /\ r.stage = q.stage
        /\ r.pvp = q.pvp /\ r.paid = q.paid /\ r.repaired = q.repaired /\ r.qstate = q.qstate
    BY <2>2 DEF Fields
  <2>. HIDE DEF r
  <2>4. Paid(r)
    BY <2>1, <2>3 DEF Paid
  <2>5. Settled(mark(r))
    BY <2>1, <2>2, <2>3, <2>4, MarkSettled DEF Settled, Talked
  <2>. QED  BY <1>11, <2>5 DEF Confirmed, q, r, Last
<1>12. CASE d = "GRIX_COMPLETE"
  <2>1. p.stage >= WARDEN_KEY
    BY <1>0, <1>12 DEF Chain
  <2>2. Settled(mark(Raised(p, GORVAK)))
    BY <1>0, <2>1, MarkedRaiseSettled DEF WARDEN_KEY, GORVAK, LIVING_MUD, GOBLIN_WARNED, BLACKWATER
  <2>. QED  BY <1>12, <2>2 DEF Confirmed, Last
<1>13. CASE d = "PUMP_SHUTDOWN"
  BY <1>13, PumpSettled DEF Confirmed
<1>14. CASE d = "NERISSA_ENDING"
  BY <1>14, SavedSettled DEF Confirmed
<1>15. CASE d = "WILHELM_INTRO"
  BY <1>15 DEF Confirmed, Last
<1>. QED
  BY <1>1, <1>2, <1>3, <1>4, <1>5, <1>6, <1>7, <1>8, <1>9, <1>10, <1>11, <1>12, <1>13,
     <1>14, <1>15, AllScenes

\* A page is turned, or the scene is closed.
LEMMA AdvanceSettled ==
    ASSUME NEW p, Sound(p), Settled(p), p.dialogue # "none", NEW accept \in BOOLEAN
    PROVE  Settled(Last(advance_dialogue(p, accept)))
<1>0. p.stage \in Nat /\ p \in Player /\ Chain(p) /\ Staged(p)
  BY Bounds
<1>1. CASE p.page < LastPage
  <2>. DEFINE q == [p EXCEPT !.page = @ + 1]
  <2>1. /\ q.saved = p.saved /\ q.dialogue = p.dialogue /\ q.bridge = p.bridge
        /\ \A f \in Fields : q[f] = p[f]
    BY <1>0 DEF Player, Fields
  <2>. HIDE DEF q
  <2>2. Settled(q)
    BY <1>0, <2>1, StillSettled DEF Settled
  <2>. QED  BY <1>1, <2>2 DEF advance_dialogue, q, Last
<1>2. CASE ~(p.page < LastPage)
  <2>. DEFINE q == [p EXCEPT !.dialogue = "none", !.page = 0]
  <2>1. q \in Player /\ q.saved = p.saved /\ q.dialogue = "none" /\ q.bridge = p.bridge
        /\ \A f \in Fields : q[f] = p[f]
    BY <1>0 DEF Player, Fields
  <2>2. Chain(q) /\ Staged(q)
    <3>1. "none" \notin East
      BY DEF East, ScenesOf
    <3>. QED  BY <1>0, <3>1 DEF Player, Chain, Staged
  <2>3. q.key = p.key /\ q.gorvak = p.gorvak /\ q.pump = p.pump /\ q.stage = p.stage
        /\ q.quest = p.quest /\ q.qstate = p.qstate
    BY <2>1 DEF Fields
  <2>4. advance_dialogue(p, accept) = IF accept THEN Confirmed(p.dialogue, q) ELSE <<q>>
    BY <1>2 DEF advance_dialogue, _close_dialogue
  <2>5. p.dialogue \in Scenes
    BY <1>0 DEF Player
  <2>. HIDE DEF q
  <2>6. Sound(q)
    BY <2>1, <2>2, StillSound DEF Ready
  <2>7. Settled(q)
    BY <1>0, <2>1, StillSettled DEF Settled, Talked
  <2>8. Talked(p.dialogue, q)
    BY <2>3 DEF Settled, Talked, Has
  <2>9. Settled(Last(Confirmed(p.dialogue, q)))
    BY <1>0, <2>1, <2>3, <2>5, <2>6, <2>7, <2>8, ConfirmedSettled DEF Staged
  <2>. QED  BY <2>4, <2>7, <2>9 DEF Last
<1>. QED  BY <1>1, <1>2

\* A character is spoken to: a scene that pays opens only when it is due.
LEMMA InteractSettled ==
    ASSUME NEW p, Sound(p), Settled(p), p.dialogue = "none", NEW c \in DOMAIN ScenesOf
    PROVE  Settled(Last(interact(p, c)))
<1>. DEFINE offered == c = "daniel" /\ Due("DANIEL_OFFER", p) /\ p.offer # "road"
            q == IF offered THEN mark([p EXCEPT !.offer = "road"]) ELSE p
            due == {d \in ScenesOf[c] : Due(d, p)}
            d == CHOOSE x \in due : TRUE
            retry == /\ c = "wilhelm" /\ p.staged /\ ~p.repaired
                     /\ ~Running(p) /\ ~Has(p, "bridge", "ready")
<1>0. p \in Player
  BY Bounds
<1>1. interact(p, c) = IF retry THEN <<_start_bridge_repair_for_player(p)>>
                       ELSE IF due = {} THEN <<p>> ELSE <<open_dialogue(q, d)>>
  BY DEF interact
<1>2. CASE retry
  BY <1>1, <1>2, RepairSettled DEF Last
<1>3. Settled(q) /\ q \in Player /\ q.dialogue = "none" /\ q.stage = p.stage /\ q.quest = p.quest
      /\ q.qstate = p.qstate
  <2>. DEFINE o == [p EXCEPT !.offer = "road"]
  <2>1. o \in Player
    BY <1>0 DEF Player
  <2>2. /\ o.dialogue = "none" /\ o.bridge = p.bridge /\ o.quest = p.quest /\ o.stage = p.stage
        /\ o.pvp = p.pvp /\ o.paid = p.paid /\ o.repaired = p.repaired /\ o.qstate = p.qstate
    BY <1>0 DEF Player
  <2>. HIDE DEF o
  <2>3. Paid(o)
    BY <2>2 DEF Settled, Paid
  <2>4. Settled(mark(o))
    BY <2>1, <2>2, <2>3, MarkSettled DEF Settled, Talked
  <2>5. serialize_player_state(o) \in Record
    BY <2>1 DEF serialize_player_state, New, Player, Record
  <2>6. mark(o) \in Player /\ mark(o).dialogue = o.dialogue /\ mark(o).stage = o.stage
        /\ mark(o).quest = o.quest /\ mark(o).qstate = o.qstate
    BY <2>1, <2>5 DEF mark, Player
  <2>. QED  BY <1>0, <2>2, <2>4, <2>6 DEF o
<1>4. CASE due # {}
  <2>1. d \in ScenesOf[c] /\ Due(d, p)
    BY <1>4
  <2>. HIDE DEF d, q
  <2>2. Talked(d, p)
    BY <2>1 DEF Due, ScenesOf, _interact_nerissa, _interact_wilhelm, _interact_lucian,
                _interact_grix, Talked, Has
  <2>. DEFINE r == [q EXCEPT !.dialogue = d, !.page = 1]
  <2>3. open_dialogue(q, d) = r
    BY <1>3 DEF open_dialogue
  <2>4. /\ r.saved = q.saved /\ r.dialogue = d /\ r.bridge = q.bridge
        /\ \A f \in Fields : r[f] = q[f]
    BY <1>3 DEF Player, Fields
  <2>. HIDE DEF r
  <2>5. Talked(d, q)
    BY <1>3, <2>2 DEF Talked, Has
  <2>6. Settled(r)
    BY <1>3, <2>4, <2>5, StillSettled DEF Settled
  <2>. QED  BY <1>1, <1>2, <1>4, <2>3, <2>6 DEF Last
<1>. QED  BY <1>1, <1>2, <1>4 DEF Last

\* What the changes of the other fields leave alone.
LEMMA UntouchedSettled ==
    ASSUME NEW p \in Player, Settled(p), NEW q \in Player,
           q.stage = p.stage, q.quest = p.quest, q.qstate = p.qstate, q.pvp = p.pvp,
           q.paid = p.paid, q.repaired = p.repaired, q.dialogue \in {p.dialogue, "none"},
           q.bridge \in {p.bridge, "none", "ended", "returning"} \/ ~p.repaired
    PROVE  Settled(mark(q))
<1>1. Paid(q)
  BY DEF Settled, Paid
<1>2. Talked(q.dialogue, q)
  BY DEF Settled, Talked, Has
<1>. QED  BY <1>1, <1>2, MarkSettled DEF Settled

\* Counting for a quest under way.
LEMMA CountedSettled ==
    ASSUME NEW p \in Player, Settled(p), p.quest \in {"road", "blackwater", "mud"},
           p.qstate = "active", NEW n \in Nat, NEW state \in {"active", "ready"}
    PROVE  Settled(mark(Counted(p, n, state)))
<1>. DEFINE q == Counted(p, n, state)
<1>1. q \in Player
  BY DEF Counted, Player, Progress
<1>2. /\ q.dialogue = p.dialogue /\ q.bridge = p.bridge /\ q.quest = p.quest /\ q.stage = p.stage
      /\ q.pvp = p.pvp /\ q.paid = p.paid /\ q.repaired = p.repaired /\ q.qstate = state
  BY DEF Counted, Player
<1>. HIDE DEF q
<1>3. Paid(q)
  BY <1>2 DEF Settled, Paid
<1>4. Talked(q.dialogue, q)
  BY <1>2 DEF Settled, Talked, Has
<1>5. Settled(mark(q))
  BY <1>1, <1>2, <1>3, <1>4, MarkSettled DEF Settled
<1>. QED  BY <1>5 DEF q

\* One more for it.
LEMMA AdvanceStepSettled ==
    ASSUME NEW p \in Player, Settled(p), p.quest \in {"road", "blackwater"}, p.qstate = "active"
    PROVE  Settled(Advance(p))
<1>. DEFINE n == Min({p.progress + 1, QuestTarget[p.quest]})
            state == IF n = QuestTarget[p.quest] THEN "ready" ELSE p.qstate
<1>1. p.progress \in Nat
  BY DEF Player
<1>2. n \in Nat
  BY <1>1, TargetsPositive, MinOfTwo
<1>3. state \in {"active", "ready"}
  OBVIOUS
<1>4. Advance(p) = mark(Counted(p, n, state))
  BY DEF Advance, Player, Counted
<1>. HIDE DEF n, state
<1>. QED  BY <1>2, <1>3, <1>4, CountedSettled

\* Any kill.
LEMMA KilledSettled ==
    ASSUME NEW p, Sound(p), Settled(p), NEW k \in {"beaver", "snake", "slime"}
    PROVE  Settled(Last(Killed(p, k)))
<1>0. p \in Player
  BY Bounds
<1>1. CASE k = "beaver"
  <2>. DEFINE o == [p EXCEPT !.sticks = TRUE]
              q == _guarantee_road_trouble_sticks(p)
  <2>1. o \in Player
    BY <1>0 DEF Player
  <2>2. /\ o.dialogue = p.dialogue /\ o.bridge = p.bridge /\ o.quest = p.quest /\ o.stage = p.stage
        /\ o.pvp = p.pvp /\ o.paid = p.paid /\ o.repaired = p.repaired /\ o.qstate = p.qstate
    BY <1>0 DEF Player
  <2>. HIDE DEF o
  <2>3. Settled(mark(o))
    BY <1>0, <2>1, <2>2, UntouchedSettled
  <2>4. mark(o) \in Player
    <3>1. serialize_player_state(o) \in Record
      BY <2>1 DEF serialize_player_state, New, Player, Record
    <3>. QED  BY <2>1, <3>1 DEF mark, Player
  <2>5. Settled(q) /\ q \in Player
    BY <1>0, <2>3, <2>4 DEF _guarantee_road_trouble_sticks, o
  <2>6. Killed(p, k) = IF Has(q, "road", "active") THEN <<q, Advance(q)>> ELSE <<q>>
    BY <1>1 DEF Killed, _advance_road_trouble_progress
  <2>. HIDE DEF q
  <2>7. Has(q, "road", "active") => Settled(Advance(q))
    BY <2>5, AdvanceStepSettled DEF Has
  <2>. QED  BY <2>5, <2>6, <2>7 DEF Last
<1>2. CASE k = "snake"
  <2>1. Killed(p, k) = <<IF Has(p, "blackwater", "active") THEN Advance(p) ELSE p>>
    BY <1>2 DEF Killed, _advance_blackwater_progress
  <2>2. Has(p, "blackwater", "active") => Settled(Advance(p))
    BY <1>0, AdvanceStepSettled DEF Has
  <2>. QED  BY <2>1, <2>2 DEF Last
<1>3. CASE k = "slime"
  <2>. DEFINE none == Needs(p.oil) <= 0 /\ Needs(p.rust) <= 0
              a == [p EXCEPT !.oil = @ + 1]
              b == [p EXCEPT !.rust = @ + 1]
              g == grant_personal_sample(p)
              all == g.oil >= SampleTarget /\ g.rust >= SampleTarget
              n == Min({QuestTarget["mud"], g.oil + g.rust})
              state == IF all THEN "ready" ELSE g.qstate
  <2>1. a \in Player /\ b \in Player
    BY <1>0 DEF Player
  <2>2. /\ a.dialogue = p.dialogue /\ a.bridge = p.bridge /\ a.quest = p.quest /\ a.stage = p.stage
        /\ a.pvp = p.pvp /\ a.paid = p.paid /\ a.repaired = p.repaired /\ a.qstate = p.qstate
    BY <1>0 DEF Player
  <2>3. /\ b.dialogue = p.dialogue /\ b.bridge = p.bridge /\ b.quest = p.quest /\ b.stage = p.stage
        /\ b.pvp = p.pvp /\ b.paid = p.paid /\ b.repaired = p.repaired /\ b.qstate = p.qstate
    BY <1>0 DEF Player
  <2>4. g = mark(a) \/ g = mark(b)
    BY DEF grant_personal_sample
  <2>. HIDE DEF a, b, g
  <2>5. Settled(mark(a)) /\ Settled(mark(b))
    BY <1>0, <2>1, <2>2, <2>3, UntouchedSettled
  <2>6. g \in Player /\ g.quest = p.quest /\ g.qstate = p.qstate
    <3>1. serialize_player_state(a) \in Record /\ serialize_player_state(b) \in Record
      BY <2>1 DEF serialize_player_state, New, Player, Record
    <3>2. mark(a) \in Player /\ mark(b) \in Player
      BY <2>1, <3>1 DEF mark, Player
    <3>3. /\ mark(a).quest = a.quest /\ mark(a).qstate = a.qstate
          /\ mark(b).quest = b.quest /\ mark(b).qstate = b.qstate
      BY <2>1 DEF mark, Player
    <3>. QED  BY <2>2, <2>3, <2>4, <3>2, <3>3
  <2>7. n \in Nat
    <3>1. g.oil \in Nat /\ g.rust \in Nat
      BY <2>6 DEF Player
    <3>. QED  BY <3>1, TargetsPositive, MinOfTwo
  <2>8. Killed(p, k) = IF ~Has(p, "mud", "active") \/ none THEN <<p>>
                       ELSE <<g, mark(Counted(g, n, state))>>
    <3>1. Counted(g, n, state)
            = [g EXCEPT !.progress = n, !.qstate = IF all THEN "ready" ELSE @]
      BY <2>6 DEF Player, Counted
    <3>. QED  BY <1>3, <3>1 DEF Killed, _grant_living_mud_sample, g
  <2>. HIDE DEF none, n
  <2>9. Has(p, "mud", "active") => Settled(mark(Counted(g, n, state)))
    BY <2>4, <2>5, <2>6, <2>7, CountedSettled DEF Has
  <2>. QED  BY <2>8, <2>9 DEF Last
<1>. QED  BY <1>1, <1>2, <1>3

\* The bridge opens: only then can Wilhelm's quest be turned in.
LEMMA RepairDoneSettled ==
    ASSUME NEW p, Sound(p), Settled(p), p.bridge = "active"
    PROVE  Settled(Last(_bridge_repair_success(p)))
<1>. DEFINE o == [p EXCEPT !.repaired = TRUE]
            open == mark(o)
            told == [open EXCEPT !.stage = Max({@, BRIDGE}), !.step = 1, !.bridge = "returning"]
            ready == [told EXCEPT !.qstate = "ready", !.progress = QuestTarget["bridge"]]
            last == IF told.quest = "bridge" THEN ready ELSE told
<1>0. p \in Player /\ p.stage \in Nat /\ ~p.repaired
  BY Bounds DEF Settled
<1>1. p.stage >= BRIDGE
  BY Bounds DEF Staged
<1>2. o \in Player
  BY <1>0 DEF Player
<1>3. /\ o.dialogue = p.dialogue /\ o.quest = p.quest /\ o.stage = p.stage
      /\ o.pvp = p.pvp /\ o.paid = p.paid /\ o.repaired /\ o.qstate = p.qstate
  BY <1>0 DEF Player
<1>. HIDE DEF o
<1>4. open \in Player
  <2>1. serialize_player_state(o) \in Record
    BY <1>2 DEF serialize_player_state, New, Player, Record
  <2>. QED  BY <1>2, <2>1 DEF mark, Player
<1>5. /\ open.dialogue = p.dialogue /\ open.quest = p.quest /\ open.stage = p.stage
      /\ open.pvp = p.pvp /\ open.paid = p.paid /\ open.repaired = TRUE /\ open.qstate = p.qstate
  BY <1>2, <1>3 DEF mark, Player
<1>6. Max({open.stage, BRIDGE}) = open.stage
  <2>1. \A m \in {open.stage, BRIDGE} :
          (\A n \in {open.stage, BRIDGE} : m >= n) <=> m = open.stage
    BY <1>0, <1>1, <1>5 DEF BRIDGE
  <2>2. open.stage \in {open.stage, BRIDGE}
    OBVIOUS
  <2>. QED  BY <2>1, <2>2 DEF Max
<1>7. Last(_bridge_repair_success(p)) = mark(last)
  BY DEF _bridge_repair_success, o, Last
<1>. HIDE DEF open
<1>8. told = [open EXCEPT !.step = 1, !.bridge = "returning"]
  BY <1>4, <1>6 DEF Player
<1>. HIDE DEF told
<1>9. told \in Player
  BY <1>4, <1>8 DEF Player, Phase
<1>10. /\ told.dialogue = p.dialogue /\ told.quest = p.quest /\ told.stage = p.stage
       /\ told.pvp = p.pvp /\ told.paid = p.paid /\ told.repaired = TRUE /\ told.qstate = p.qstate
       /\ told.bridge = "returning"
  BY <1>4, <1>5, <1>8 DEF Player
<1>11. ready \in Player
  BY <1>9, TargetsPositive DEF Player, Progress
<1>12. /\ ready.dialogue = p.dialogue /\ ready.quest = p.quest /\ ready.stage = p.stage
       /\ ready.pvp = p.pvp /\ ready.paid = p.paid /\ ready.repaired = TRUE /\ ready.qstate = "ready"
       /\ ready.bridge = "returning"
  BY <1>9, <1>10 DEF Player
<1>. HIDE DEF ready
<1>13. Paid(told)
  BY <1>10 DEF Settled, Paid
<1>14. told.quest = "bridge" => Paid(ready)
  BY <1>0, <1>10, <1>12 DEF Settled, Paid
<1>15. Talked(told.dialogue, told)
  BY <1>10 DEF Settled, Talked, Has
<1>16. told.quest = "bridge" => Talked(ready.dialogue, ready)
  BY <1>10, <1>12 DEF Settled, Talked, Has
<1>17. Settled(mark(last))
  BY <1>9, <1>10, <1>11, <1>12, <1>13, <1>14, <1>15, <1>16, MarkSettled
<1>. QED  BY <1>7, <1>17

\* A handler runs to its end, or dies having saved nothing new.
LEMMA DoSettled ==
    ASSUME Sound(s), Settled(s), NEW h, Settled(Last(h)), Do(h), ~torn'
    PROVE  Settled(s')
<1>1. CASE s' = h[Len(h)]
  BY <1>1 DEF Last
<1>2. CASE \E i \in 1..Len(h) - 1 :
             s' = [Loaded(h[i].saved) EXCEPT !.online = FALSE] /\ torn' = (torn \/ h[i].saved # s.saved)
  <2>1. s' = [Loaded(s.saved) EXCEPT !.online = FALSE]
    BY <1>2
  <2>2. s.saved \in Record /\ Chain(s.saved)
    BY DEF Sound, Ready, Player
  <2>. QED  BY <2>1, <2>2, LoadedSettled DEF Settled
<1>. QED  BY <1>1, <1>2 DEF Do

\* Every step that tears nothing.
LEMMA StepSettled ==
    ASSUME Sound(s), Settled(s), [Next]_vars, ~torn'
    PROVE  Settled(s')
<1>0. s \in Player /\ Chain(s) /\ Staged(s)
  BY Bounds
<1>1. CASE UNCHANGED vars
  BY <1>1 DEF vars
<1>2. CASE Interact
  <2>1. PICK c \in DOMAIN ScenesOf : s.dialogue = "none" /\ Do(interact(s, c))
    BY <1>2 DEF Interact
  <2>. QED  BY <2>1, InteractSettled, DoSettled
<1>3. CASE Acknowledge
  <2>1. PICK accept \in BOOLEAN : s.dialogue # "none" /\ Do(advance_dialogue(s, accept))
    BY <1>3 DEF Acknowledge
  <2>. QED  BY <2>1, AdvanceSettled, DoSettled
<1>4. CASE Kill
  <2>1. PICK k \in {"beaver", "snake", "slime"} : Do(Killed(s, k))
    BY <1>4 DEF Kill
  <2>. QED  BY <2>1, KilledSettled, DoSettled
<1>5. ASSUME NEW q, Do(<<mark(q)>>), q \in Player,
             q.stage = s.stage, q.quest = s.quest, q.qstate = s.qstate, q.pvp = s.pvp,
             q.paid = s.paid, q.repaired = s.repaired, q.dialogue = s.dialogue,
             q.bridge \in {s.bridge, "none", "ended"} \/ ~s.repaired
      PROVE  Settled(s')
  <2>1. Settled(mark(q))
    BY <1>0, <1>5, UntouchedSettled
  <2>. QED  BY <1>5, <2>1, DoSettled DEF Last
<1>6. CASE CollectSticks
  <2>. DEFINE q == [s EXCEPT !.sticks = TRUE]
  <2>1. q \in Player
    BY <1>0 DEF Player
  <2>2. /\ q.stage = s.stage /\ q.quest = s.quest /\ q.qstate = s.qstate /\ q.pvp = s.pvp
        /\ q.paid = s.paid /\ q.repaired = s.repaired /\ q.dialogue = s.dialogue /\ q.bridge = s.bridge
    BY <1>0 DEF Player
  <2>3. Do(<<mark(q)>>)
    BY <1>6 DEF CollectSticks
  <2>. HIDE DEF q
  <2>. QED  BY <1>5, <2>1, <2>2, <2>3
<1>7. CASE CollectKey
  <2>. DEFINE q == [s EXCEPT !.key = TRUE, !.key_item = FALSE]
  <2>1. q \in Player
    BY <1>0 DEF Player
  <2>2. /\ q.stage = s.stage /\ q.quest = s.quest /\ q.qstate = s.qstate /\ q.pvp = s.pvp
        /\ q.paid = s.paid /\ q.repaired = s.repaired /\ q.dialogue = s.dialogue /\ q.bridge = s.bridge
    BY <1>0 DEF Player
  <2>3. Do(<<mark(q)>>)
    BY <1>7 DEF CollectKey
  <2>. HIDE DEF q
  <2>. QED  BY <1>5, <2>1, <2>2, <2>3
<1>8. CASE KeyDecays
  <2>1. s' = [s EXCEPT !.key_item = FALSE]
    BY <1>8 DEF KeyDecays
  <2>2. /\ s'.saved = s.saved /\ s'.dialogue = s.dialogue /\ s'.bridge = s.bridge
        /\ \A f \in Fields : s'[f] = s[f]
    BY <1>0, <2>1 DEF Player, Fields
  <2>. QED  BY <1>0, <2>2, StillSettled DEF Settled
<1>9. CASE Tick
  <2>. DEFINE k == _ensure_warden_key_spawned(s)
              b == IF k.bridge = "ended" THEN "none" ELSE k.bridge
              o == IF k.boss = "ended" THEN "none" ELSE k.boss
  <2>1. k \in Player
    BY <1>0, KeyOnly
  <2>2. /\ k.saved = s.saved /\ k.dialogue = s.dialogue /\ k.bridge = s.bridge
        /\ \A f \in Fields : k[f] = s[f]
    BY <1>0, KeyOnly
  <2>3. s' = [k EXCEPT !.bridge = b, !.boss = o]
    BY <1>9, <2>1 DEF Tick, Player
  <2>4. b \in {k.bridge, "none"}
    OBVIOUS
  <2>. HIDE DEF k, b, o
  <2>5. /\ s'.saved = s.saved /\ s'.dialogue = s.dialogue /\ s'.bridge \in {s.bridge, "none"}
        /\ \A f \in Fields : s'[f] = s[f]
    BY <2>1, <2>2, <2>3, <2>4 DEF Player, Fields
  <2>. QED  BY <1>0, <2>5, StillSettled DEF Settled
<1>10. CASE Bridge
  <2>. DEFINE begun == [s EXCEPT !.bridge = "active", !.step = 1, !.progress = 0]
              n == Min({s.progress + 1, QuestTarget["bridge"] - 1})
              going == [s EXCEPT !.progress = n]
              ended == [s EXCEPT !.bridge = "ended"]
              walked == [s EXCEPT !.bridge = "none"]
  <2>1. n \in Nat
    <3>1. s.progress + 1 \in Nat
      BY <1>0 DEF Player
    <3>2. QuestTarget["bridge"] - 1 \in Nat
      BY TargetsPositive
    <3>. QED  BY <3>1, <3>2, MinOfTwo
  <2>2. {"active", "ended", "none"} \subseteq Phase
    BY DEF Phase
  <2>3. CASE s.bridge = "escorting" /\ Do(_bridge_repair_started(s))
    <3>1. begun \in Player
      BY <1>0, <2>2 DEF Player
    <3>2. /\ begun.stage = s.stage /\ begun.quest = s.quest /\ begun.qstate = s.qstate
          /\ begun.pvp = s.pvp /\ begun.paid = s.paid /\ begun.repaired = s.repaired
          /\ begun.dialogue = s.dialogue /\ ~s.repaired
      BY <1>0, <2>3 DEF Player, Settled
    <3>3. Do(<<mark(begun)>>)
      BY <2>3 DEF _bridge_repair_started
    <3>. HIDE DEF begun
    <3>. QED  BY <1>5, <3>1, <3>2, <3>3
  <2>4. CASE Do(_bridge_repair_progress(s))
    <3>1. Do(<<mark(going)>>)
      BY <2>4 DEF _bridge_repair_progress
    <3>. HIDE DEF n
    <3>2. going \in Player
      BY <1>0, <2>1 DEF Player
    <3>3. /\ going.stage = s.stage /\ going.quest = s.quest /\ going.qstate = s.qstate
          /\ going.pvp = s.pvp /\ going.paid = s.paid /\ going.repaired = s.repaired
          /\ going.dialogue = s.dialogue /\ going.bridge = s.bridge
      BY <1>0 DEF Player
    <3>. HIDE DEF going
    <3>. QED  BY <1>5, <3>1, <3>2, <3>3
  <2>5. CASE s.bridge = "active" /\ Do(_bridge_repair_success(s))
    BY <2>5, RepairDoneSettled, DoSettled
  <2>6. CASE Do(<<mark(ended)>>)
    <3>1. ended \in Player
      BY <1>0, <2>2 DEF Player
    <3>2. /\ ended.stage = s.stage /\ ended.quest = s.quest /\ ended.qstate = s.qstate
          /\ ended.pvp = s.pvp /\ ended.paid = s.paid /\ ended.repaired = s.repaired
          /\ ended.dialogue = s.dialogue /\ ended.bridge = "ended"
      BY <1>0 DEF Player
    <3>. HIDE DEF ended
    <3>. QED  BY <1>5, <2>6, <3>1, <3>2
  <2>7. CASE Do(<<mark(walked)>>)
    <3>1. walked \in Player
      BY <1>0, <2>2 DEF Player
    <3>2. /\ walked.stage = s.stage /\ walked.quest = s.quest /\ walked.qstate = s.qstate
          /\ walked.pvp = s.pvp /\ walked.paid = s.paid /\ walked.repaired = s.repaired
          /\ walked.dialogue = s.dialogue /\ walked.bridge = "none"
      BY <1>0 DEF Player
    <3>. HIDE DEF walked
    <3>. QED  BY <1>5, <2>7, <3>1, <3>2
  <2>. QED  BY <1>10, <2>3, <2>4, <2>5, <2>6, <2>7 DEF Bridge
<1>11. CASE Boss
  <2>. DEFINE fought == [s EXCEPT !.boss = "active"]
              beaten == [s EXCEPT !.gorvak = TRUE, !.step = 3, !.boss = "ended"]
  <2>1. CASE Do(<<fought>>)
    <3>1. /\ fought.saved = s.saved /\ fought.dialogue = s.dialogue /\ fought.bridge = s.bridge
          /\ \A f \in Fields : fought[f] = s[f]
      BY <1>0 DEF Player, Fields
    <3>. HIDE DEF fought
    <3>2. Settled(fought)
      BY <1>0, <3>1, StillSettled DEF Settled
    <3>. QED  BY <2>1, <3>2, DoSettled DEF Last
  <2>2. CASE Do(_gorvak_encounter_success(s))
    <3>1. "ended" \in Phase
      BY DEF Phase
    <3>2. beaten \in Player
      BY <1>0, <3>1 DEF Player
    <3>3. /\ beaten.stage = s.stage /\ beaten.quest = s.quest /\ beaten.qstate = s.qstate
          /\ beaten.pvp = s.pvp /\ beaten.paid = s.paid /\ beaten.repaired = s.repaired
          /\ beaten.dialogue = s.dialogue /\ beaten.bridge = s.bridge
      BY <1>0 DEF Player
    <3>4. Do(<<mark(beaten)>>)
      BY <2>2 DEF _gorvak_encounter_success
    <3>. HIDE DEF beaten
    <3>. QED  BY <1>5, <3>2, <3>3, <3>4
  <2>. QED  BY <1>11, <2>1, <2>2 DEF Boss
<1>12. ASSUME NEW q \in Player, Chain(q), s' = mark(_normalize_story_state(q)),
              q.stage = s.stage, q.quest = s.quest, q.qstate = s.qstate, q.pvp = s.pvp,
              q.paid = s.paid, q.repaired = s.repaired, q.dialogue \in {s.dialogue, "none"},
              q.bridge \in {s.bridge, "none", "ended"}
       PROVE  Settled(s')
  <2>. DEFINE r == [q EXCEPT !.step = Rewound(q)]
  <2>1. _normalize_story_state(q) = r /\ Rewound(q) \in Nat
    BY <1>12, NormalPlayer
  <2>2. /\ r.stage = s.stage /\ r.quest = s.quest /\ r.qstate = s.qstate /\ r.pvp = s.pvp
        /\ r.paid = s.paid /\ r.repaired = s.repaired /\ r.dialogue = q.dialogue
        /\ r.bridge = q.bridge /\ r \in Player
    BY <1>12, <2>1 DEF Player
  <2>. HIDE DEF r
  <2>3. Settled(mark(r))
    BY <1>0, <1>12, <2>2, UntouchedSettled
  <2>. QED  BY <1>12, <2>1, <2>3
<1>13. CASE Die
  <2>. DEFINE b == IF Running(s) THEN "ended" ELSE s.bridge
              o == IF s.boss = "active" THEN "ended" ELSE s.boss
              q == [s EXCEPT !.bridge = b, !.boss = o]
  <2>1. Failed(s) = q
    BY <1>0 DEF Failed, Player
  <2>2. b \in Phase /\ b \in {s.bridge, "ended"} /\ o \in Phase
    BY <1>0 DEF Player, Phase
  <2>. HIDE DEF b, o
  <2>3. q \in Player
    BY <1>0, <2>2 DEF Player
  <2>4. /\ q.stage = s.stage /\ q.quest = s.quest /\ q.qstate = s.qstate /\ q.pvp = s.pvp
        /\ q.paid = s.paid /\ q.repaired = s.repaired /\ q.dialogue = s.dialogue /\ q.bridge = b
    BY <1>0 DEF Player
  <2>5. Chain(q)
    BY <1>0 DEF Player, Chain
  <2>6. s' = mark(_normalize_story_state(q))
    BY <1>13, <2>1 DEF Die, handle_player_death
  <2>. HIDE DEF q
  <2>. QED  BY <1>12, <2>2, <2>3, <2>4, <2>5, <2>6
<1>14. CASE Leave
  <2>. DEFINE q == [s EXCEPT !.dialogue = "none", !.page = 0, !.online = FALSE,
                             !.bridge = "none", !.boss = "none", !.key_item = FALSE]
  <2>1. q \in Player
    BY <1>0 DEF Player, Phase
  <2>2. /\ q.stage = s.stage /\ q.quest = s.quest /\ q.qstate = s.qstate /\ q.pvp = s.pvp
        /\ q.paid = s.paid /\ q.repaired = s.repaired /\ q.dialogue = "none" /\ q.bridge = "none"
    BY <1>0 DEF Player
  <2>3. Chain(q)
    BY <1>0 DEF Player, Chain
  <2>4. s' = mark(_normalize_story_state(q))
    BY <1>14 DEF Leave, detach_player
  <2>. HIDE DEF q
  <2>. QED  BY <1>12, <2>1, <2>2, <2>3, <2>4
<1>15. CASE Return
  <2>1. s' = [s EXCEPT !.online = TRUE]
    BY <1>15 DEF Return
  <2>2. /\ s'.saved = s.saved /\ s'.dialogue = s.dialogue /\ s'.bridge = s.bridge
        /\ \A f \in Fields : s'[f] = s[f]
    BY <1>0, <2>1 DEF Player, Fields
  <2>. QED  BY <1>0, <2>2, StillSettled DEF Settled
<1>16. CASE Crash
  <2>1. s' = [Loaded(s.saved) EXCEPT !.online = FALSE]
    BY <1>16 DEF Crash
  <2>2. s.saved \in Record /\ Chain(s.saved)
    BY DEF Sound, Ready, Player
  <2>. QED  BY <2>1, <2>2, LoadedSettled DEF Settled
<1>. QED
  BY <1>1, <1>2, <1>3, <1>4, <1>6, <1>7, <1>8, <1>9, <1>10, <1>11, <1>13, <1>14, <1>15, <1>16
  DEF Next

\* Nothing torn becomes whole again.
LEMMA StaysTorn ==
    ASSUME [Next]_vars, torn
    PROVE  torn'
<1>1. CASE UNCHANGED vars
  BY <1>1 DEF vars
<1>2. ASSUME NEW h, Do(h)
      PROVE  torn'
  BY <1>2 DEF Do
<1>3. CASE UNCHANGED torn
  BY <1>3
<1>. QED
  BY <1>1, <1>2, <1>3
  DEF Next, Interact, Acknowledge, Kill, CollectSticks, CollectKey, KeyDecays, Tick, Bridge, Boss,
      Die, Leave, Return, Crash

\* A new player has been paid nothing.
LEMMA InitSettled ==
    ASSUME Init
    PROVE  Settled(s)
<1>1. Paid(New)
  BY DEF New, NONE, Paid, LIVING_MUD, GOBLIN_WARNED, Rewards
<1>2. New \in Record /\ Chain(New)
  <2>1. New \in Record
    BY DEF New, NONE, Record, Quest, Progress
  <2>2. Chain(New)
    BY DEF New, NONE, Chain, BEYOND_ROAD, GORVAK, RETURN_NERISSA
  <2>. QED  BY <2>1, <2>2
<1>. DEFINE l == Loaded(New)
            q == [l EXCEPT !.online = FALSE]
<1>3. Settled(q)
  BY <1>1, <1>2, LoadedSettled
<1>4. l \in Player
  BY <1>2, LoadedIs DEF Sound, Ready
<1>5. /\ q.saved = l.saved /\ q.dialogue = l.dialogue /\ q.bridge = l.bridge
      /\ \A f \in Fields : q[f] = l[f]
  BY <1>4 DEF Player, Fields
<1>6. q \in Player
  BY <1>4 DEF Player
<1>. HIDE DEF q, l
<1>7. q.repaired = l.repaired
  BY <1>5 DEF Fields
<1>8. Settled(l)
  BY <1>3, <1>5, <1>6, StillSettled DEF Settled
<1>. QED  BY <1>8 DEF Init, l

\* As long as the server died inside no handler, the rewards paid are those of the
\* milestones, in the game and in sessions.json.
THEOREM AlwaysSettled == Spec => [](~torn => Settled(s))
<1>1. Init => (~torn => Settled(s))
  BY InitSettled
<1>2. Sound(s) /\ (~torn => Settled(s)) /\ [Next]_vars => (~torn => Settled(s))'
  <2>. SUFFICES ASSUME Sound(s), ~torn => Settled(s), [Next]_vars, ~torn'
                PROVE  Settled(s)'
    OBVIOUS
  <2>1. ~torn
    BY StaysTorn
  <2>2. Settled(s')
    BY <2>1, StepSettled
  <2>. QED  BY <2>2
<1>. QED  BY <1>1, <1>2, AlwaysSound, PTL DEF Spec

\* Each reward of the story is paid with its milestone and once (award_gold in each
\* completion of game.py), unless the server died inside the handler that pays it; and the
\* milestones are chained.
THEOREM MilestonesPaidOnce == Spec => []MilestonesPaid
<1>1. Sound(s) /\ MilestonesChained /\ (~torn => Settled(s)) => MilestonesPaid
  BY Bounds DEF Settled, Paid, MilestonesPaid, Rewards, LIVING_MUD, GOBLIN_WARNED
<1>. QED  BY <1>1, AlwaysSound, ChainedMilestones, AlwaysSettled, PTL
-----------------------------------------------------------------------------
(***************************************************************************)
(* The way on: whatever scene is open is still due, and at the stages that *)
(* end with a quest the player has that quest.  Focused is inductive, over *)
(* Sound; ObjectiveHeld and SceneStillDue follow.                          *)
(***************************************************************************)

\* Scenes that are about nothing that could pass.
Idle == {"none", "DANIEL_OFFER", "WILHELM_INTRO"}

\* The quest of a record fits its stage, no sample comes before its quest; quests of the stages that need one are there
\* (kept: no quest was replaced), and can be finished (whole: no handler was torn).
Aimed(r, kept, whole) ==
    /\ r.quest = "blackwater" => r.stage = BLACKWATER /\ r.qstate \in {"active", "ready"}
    /\ r.quest = "mud" => r.stage = LIVING_MUD /\ r.qstate \in {"active", "ready"}
    /\ r.stage < LIVING_MUD => r.oil = 0 /\ r.rust = 0
    /\ kept => /\ r.stage = BLACKWATER => r.quest = "blackwater"
               /\ r.stage = LIVING_MUD => r.quest = "mud"
               /\ r.staged /\ ~r.repaired => Has(r, "bridge", "active")
               /\ whole => (Has(r, "mud", "active") => r.oil < SampleTarget \/ r.rust < SampleTarget)

\* The bridge is repaired once.
Crossing(p) == p.bridge \in {"escorting", "active"} => ~p.repaired

StillDue(d, p) == d \notin Idle => Due(d, p)

\* The invariant, of the player and of the record that a crash leaves.
Focused(p, kept, whole) ==
    /\ Aimed(p, kept, whole) /\ Aimed(p.saved, kept, whole)
    /\ Crossing(p) /\ StillDue(p.dialogue, p)

\* What handler h saves, torn or whole, and the state it ends in.
Aims(h, kept, whole) ==
    /\ h # << >> /\ h \in Seq(Player)
    /\ \A i \in 1 .. Len(h) : Aimed(h[i].saved, kept, FALSE)
    /\ Focused(h[Len(h)], kept, whole)

\* The fields that Aimed reads, and those that Due does.
AimFields == {"stage", "quest", "qstate", "staged", "repaired", "oil", "rust"}
DueFields == {"stage", "quest", "qstate", "staged", "repaired", "step", "sticks", "bridge",
              "key", "gorvak", "pump"}
Passing == {"online", "dialogue", "page", "bridge", "boss", "key_item"}

-----------------------------------------------------------------------------
(* The parts of the invariant.                                              *)

\* When each scene is due.
LEMMA DueIs ==
    ASSUME NEW p
    PROVE  /\ Due("NERISSA_INTRO", p) <=> p.stage = NONE /\ ~p.repaired
           /\ Due("NERISSA_POST_BRIDGE", p) <=> p.repaired /\ p.stage <= BRIDGE
           /\ Due("NERISSA_SAMPLES", p) <=>
                /\ Has(p, "mud", "ready") /\ p.step = 1
                /\ p.stage > WELCOME /\ (p.stage > ROAD_TROUBLE \/ p.repaired)
                /\ ~(p.repaired /\ p.stage <= BRIDGE)
           /\ Due("NERISSA_ENDING", p) <=>
                p.stage >= RETURN_NERISSA /\ ~(Has(p, "mud", "ready") /\ p.step = 1)
           /\ Due("DANIEL_COMPLETE", p) <=> Has(p, "road", "ready")
           /\ Due("WILHELM_COMPLETE", p) <=> ~Running(p) /\ Has(p, "bridge", "ready")
           /\ Due("WILHELM_BRIDGE_START", p) <=>
                ~Running(p) /\ ~p.repaired /\ ~p.staged /\ p.sticks /\ Has(p, "road", "complete")
           /\ Due("LUCIAN_SAMPLES_REDIRECT", p) <=> Has(p, "mud", "ready") /\ p.step = 0
           /\ Due("LUCIAN_LIVING_MUD_OFFER", p) <=> Has(p, "blackwater", "ready")
           /\ Due("LUCIAN_BLACKWATER_OFFER", p) <=>
                /\ p.stage < BLACKWATER
                /\ \A q \in {"mud", "blackwater"} : ~Has(p, q, "ready") /\ ~Has(p, q, "active")
           /\ Due("GRIX_EXPLAIN", p) <=> p.stage = GOBLIN_WARNED
           /\ Due("GRIX_COMPLETE", p) <=> p.stage = WARDEN_KEY /\ p.key
           /\ Due("PUMP_SHUTDOWN", p) <=> ~p.pump /\ p.gorvak /\ p.key
BY DEF Due, ScenesOf, _interact_nerissa, _interact_daniel, _interact_wilhelm, _interact_lucian,
       _interact_grix, _interact_deep_pump_controls

\* A scene remains due while these fields change so.
LEMMA DueKept ==
    ASSUME NEW p \in Player, NEW q \in Player, NEW kept, NEW whole, Aimed(p, kept, whole),
           NEW d \in Scenes \cup {"none"}, StillDue(d, p),
           q.stage = p.stage, q.quest = p.quest, q.staged = p.staged, q.pump = p.pump,
           q.repaired = p.repaired, p.sticks => q.sticks, p.key => q.key, p.gorvak => q.gorvak,
           q.qstate = p.qstate \/ (p.qstate = "active" /\ q.qstate = "ready"),
           q.step = p.step \/ p.quest # "mud",
           Running(q) => Running(p)
    PROVE  StillDue(d, q)
<1>. SUFFICES ASSUME d \notin Idle, Due(d, p) PROVE Due(d, q)
  BY DEF StillDue
<1>1. /\ p.quest = "blackwater" => p.qstate \in {"active", "ready"}
      /\ p.quest = "mud" => p.stage = LIVING_MUD /\ p.qstate \in {"active", "ready"}
  BY DEF Aimed
<1>2. d \in Scenes \ Idle
  BY DEF Idle
<1>3. CASE d \in {"NERISSA_INTRO", "NERISSA_POST_BRIDGE", "GRIX_EXPLAIN", "GRIX_COMPLETE", "PUMP_SHUTDOWN"}
  BY <1>3, DueIs
<1>4. CASE d \in {"NERISSA_SAMPLES", "LUCIAN_SAMPLES_REDIRECT", "LUCIAN_LIVING_MUD_OFFER"}
  BY <1>4, DueIs DEF Has
<1>5. CASE d = "NERISSA_ENDING"
  BY <1>1, <1>5, DueIs DEF Has, LIVING_MUD, RETURN_NERISSA
<1>6. CASE d \in {"DANIEL_COMPLETE", "WILHELM_COMPLETE", "WILHELM_BRIDGE_START"}
  BY <1>6, DueIs DEF Has
<1>7. CASE d = "LUCIAN_BLACKWATER_OFFER"
  BY <1>1, <1>7, DueIs DEF Has
<1>. QED  BY <1>2, <1>3, <1>4, <1>5, <1>6, <1>7, AllScenes DEF Idle

\* Of equal fields the same is true.
LEMMA AimedSame ==
    ASSUME NEW p, NEW kept, NEW whole, Aimed(p, kept, whole), NEW q, \A f \in AimFields : q[f] = p[f]
    PROVE  Aimed(q, kept, whole)
<1>1. /\ q.stage = p.stage /\ q.quest = p.quest /\ q.qstate = p.qstate /\ q.staged = p.staged
      /\ q.repaired = p.repaired /\ q.oil = p.oil /\ q.rust = p.rust
  BY DEF AimFields
<1>. QED  BY <1>1 DEF Aimed, Has

\* Less is asked of who replaced a quest, or of a torn handler.
LEMMA AimedWeaker ==
    ASSUME NEW p, NEW kept, NEW whole, Aimed(p, kept, whole),
           NEW less \in BOOLEAN, less => kept, NEW part \in BOOLEAN, part => whole
    PROVE  Aimed(p, less, part)
BY DEF Aimed

LEMMA FocusedWeaker ==
    ASSUME NEW p, NEW kept, NEW whole, Focused(p, kept, whole),
           NEW less \in BOOLEAN, less => kept, NEW part \in BOOLEAN, part => whole
    PROVE  Focused(p, less, part)
BY AimedWeaker DEF Focused

\* What is saved of a player.
LEMMA MarkFields ==
    ASSUME NEW p \in Player
    PROVE  /\ mark(p) \in Player
           /\ \A f \in Fields : mark(p).saved[f] = p[f]
           /\ \A f \in Fields \cup Passing : mark(p)[f] = p[f]
<1>1. serialize_player_state(p) \in Record
  BY DEF serialize_player_state, New, Player, Record
<1>2. mark(p) \in Player /\ mark(p).saved = serialize_player_state(p)
  BY <1>1 DEF mark, Player
<1>3. \A f \in Fields : serialize_player_state(p)[f] = p[f]
  BY FieldsSaved DEF serialize_player_state
<1>4. \A f \in Fields \cup Passing : mark(p)[f] = p[f]
  BY DEF mark, Player, Fields, Passing
<1>. QED  BY <1>2, <1>3, <1>4

\* Due of the same fields is the same.
LEMMA DueSame ==
    ASSUME NEW p, NEW q, \A f \in DueFields : q[f] = p[f], NEW d \in Scenes \cup {"none"},
           StillDue(d, p)
    PROVE  StillDue(d, q)
<1>1. /\ q.stage = p.stage /\ q.quest = p.quest /\ q.qstate = p.qstate /\ q.staged = p.staged
      /\ q.repaired = p.repaired /\ q.step = p.step /\ q.sticks = p.sticks /\ q.bridge = p.bridge
      /\ q.key = p.key /\ q.gorvak = p.gorvak /\ q.pump = p.pump
  BY DEF DueFields
<1>2. \A x, y : Has(q, x, y) <=> Has(p, x, y)
  BY <1>1 DEF Has
<1>3. Running(q) <=> Running(p)
  BY <1>1 DEF Running
<1>. SUFFICES ASSUME d \notin Idle, Due(d, p) PROVE Due(d, q)
  BY DEF StillDue
<1>4. d \in Scenes \ Idle
  BY DEF Idle
<1>. QED  BY <1>1, <1>2, <1>3, <1>4, DueIs, AllScenes DEF Idle

\* What is saved of a player who has his aim leaves him his aim.
LEMMA MarkFocused ==
    ASSUME NEW p \in Player, NEW kept, NEW whole, Aimed(p, kept, whole), Crossing(p),
           StillDue(p.dialogue, p)
    PROVE  Focused(mark(p), kept, whole)
<1>1. /\ \A f \in Fields : mark(p).saved[f] = p[f]
      /\ \A f \in Fields \cup Passing : mark(p)[f] = p[f]
  BY MarkFields
<1>2. AimFields \subseteq Fields /\ DueFields \subseteq Fields \cup Passing
  BY DEF AimFields, DueFields, Fields, Passing
<1>3. mark(p).dialogue = p.dialogue /\ mark(p).bridge = p.bridge /\ mark(p).repaired = p.repaired
  BY <1>1 DEF Fields, Passing
<1>4. Aimed(mark(p), kept, whole) /\ Aimed(mark(p).saved, kept, whole)
  BY <1>1, <1>2, AimedSame
<1>5. StillDue(p.dialogue, mark(p))
  BY <1>1, <1>2, DueSame DEF Player
<1>. QED  BY <1>3, <1>4, <1>5 DEF Focused, Crossing

\* Nothing that is saved has changed.
LEMMA StillFocused ==
    ASSUME NEW p \in Player, NEW kept, NEW whole, Focused(p, kept, whole), NEW q \in Player,
           q.saved = p.saved, \A f \in Fields : q[f] = p[f],
           q.bridge = p.bridge \/ q.bridge \in {"none", "ended"}, q.dialogue \in {p.dialogue, "none"}
    PROVE  Focused(q, kept, whole)
<1>1. /\ q.stage = p.stage /\ q.quest = p.quest /\ q.qstate = p.qstate /\ q.staged = p.staged
      /\ q.repaired = p.repaired /\ q.step = p.step /\ q.sticks = p.sticks
      /\ q.key = p.key /\ q.gorvak = p.gorvak /\ q.pump = p.pump /\ q.oil = p.oil /\ q.rust = p.rust
  BY DEF Fields
<1>2. Aimed(q, kept, whole)
  BY AimedSame DEF Focused, AimFields, Fields
<1>3. Crossing(q)
  BY <1>1 DEF Focused, Crossing
<1>4. Running(q) => Running(p)
  BY DEF Running
<1>5. StillDue(p.dialogue, q)
  BY <1>1, <1>4, DueKept DEF Focused, Player
<1>6. StillDue("none", q)
  BY DEF StillDue, Idle
<1>. QED  BY <1>2, <1>3, <1>5, <1>6 DEF Focused

\* So does what is restored of it.
LEMMA LoadedFocused ==
    ASSUME NEW r \in Record, Chain(r), NEW kept, NEW whole, Aimed(r, kept, whole)
    PROVE  /\ Focused([Loaded(r) EXCEPT !.online = FALSE], kept, whole)
           /\ Focused(Loaded(r), kept, whole)
<1>. DEFINE d == deserialize_player_state(r)
            e == IF d.quest = "none" THEN Cleared(d) ELSE d
            n == _restore_player_from_record(r)
            l == Loaded(r)
            q == [l EXCEPT !.online = FALSE]
<1>1. d = r
  BY DEF deserialize_player_state, Aimed, LIVING_MUD
<1>. HIDE DEF d
<1>2. e \in Record /\ Chain(e)
  BY <1>1, ClearedIs
<1>3. /\ e.stage = r.stage /\ e.quest = r.quest /\ e.staged = r.staged /\ e.repaired = r.repaired
      /\ e.oil = r.oil /\ e.rust = r.rust /\ (r.quest # "none" => e.qstate = r.qstate)
  BY <1>1 DEF Cleared, Record
<1>. HIDE DEF e
<1>4. n = [e EXCEPT !.step = Rewound(e)]
  BY <1>2, NormalRecord DEF _restore_player_from_record, _normalize_restored_player, e, d
<1>5. /\ n.stage = r.stage /\ n.quest = r.quest /\ n.staged = r.staged /\ n.repaired = r.repaired
      /\ n.oil = r.oil /\ n.rust = r.rust /\ (r.quest # "none" => n.qstate = r.qstate)
  BY <1>2, <1>3, <1>4 DEF Record
<1>6. Aimed(n, kept, whole)
  <2>1. /\ n.stage = r.stage /\ n.quest = r.quest /\ n.staged = r.staged /\ n.repaired = r.repaired
        /\ n.oil = r.oil /\ n.rust = r.rust /\ (r.quest # "none" => n.qstate = r.qstate)
    BY <1>5
  <2>. HIDE DEF n
  <2>. QED  BY <2>1 DEF Aimed, Has
<1>. HIDE DEF n
<1>7. /\ \A f \in AimFields : l[f] = n[f]
      /\ l.dialogue = "none" /\ l.bridge = "none" /\ l.saved = r
  BY LoadedRecord DEF n, AimFields
<1>8. l \in Player
  BY LoadedIs DEF Sound, Ready
<1>. HIDE DEF l
<1>9. /\ \A f \in AimFields : q[f] = n[f]
      /\ q.dialogue = "none" /\ q.bridge = "none" /\ q.saved = r
  BY <1>7, <1>8 DEF Player, AimFields
<1>. HIDE DEF q
<1>10. Aimed(l, kept, whole) /\ Aimed(q, kept, whole)
  BY <1>6, <1>7, <1>9, AimedSame
<1>. QED  BY <1>7, <1>9, <1>10 DEF Focused, Crossing, StillDue, Idle, l, q

\* A handler runs to its end, or the server dies inside it.
LEMMA DoFocused ==
    ASSUME NEW kept \in BOOLEAN, NEW whole, Focused(s, kept, whole), whole <=> ~torn, Sound(s),
           NEW h, NEW p, Fine(h, p), Aims(h, kept, whole), Do(h)
    PROVE  Focused(s', kept, ~torn')
<1>1. CASE s' = h[Len(h)] /\ torn' = torn
  <2>1. Focused(s', kept, whole)
    BY <1>1 DEF Aims
  <2>. QED  BY <1>1, <2>1, FocusedWeaker
<1>2. CASE \E i \in 1..Len(h) - 1 :
             s' = [Loaded(h[i].saved) EXCEPT !.online = FALSE] /\ torn' = (torn \/ h[i].saved # s.saved)
  <2>1. PICK i \in 1..Len(h) - 1 :
             s' = [Loaded(h[i].saved) EXCEPT !.online = FALSE] /\ torn' = (torn \/ h[i].saved # s.saved)
    BY <1>2
  <2>2. i \in 1 .. Len(h)
    BY DEF Fine
  <2>3. h[i].saved \in Record /\ Chain(h[i].saved) /\ Aimed(h[i].saved, kept, FALSE)
    BY <2>2 DEF Fine, Aims, Sound, Ready, Player, Focused
  <2>4. Aimed(h[i].saved, kept, ~torn')
    <3>1. CASE torn'
      BY <2>3, <3>1, AimedWeaker
    <3>2. CASE ~torn'
      <4>1. h[i].saved = s.saved /\ ~torn
        BY <2>1, <3>2
      <4>2. Aimed(s.saved, kept, whole)
        BY DEF Focused
      <4>. QED  BY <3>2, <4>1, <4>2, AimedWeaker
    <3>. QED  BY <3>1, <3>2
  <2>. QED  BY <2>1, <2>3, <2>4, LoadedFocused
<1>. QED  BY <1>1, <1>2 DEF Do

\* A handler that saves once.
LEMMA OneAim ==
    ASSUME NEW p \in Player, NEW kept \in BOOLEAN, NEW whole \in BOOLEAN, Focused(p, kept, whole)
    PROVE  Aims(<<p>>, kept, whole)
<1>1. Aimed(p.saved, kept, FALSE)
  BY FocusedWeaker DEF Focused
<1>2. \A i \in 1 .. Len(<<p>>) : <<p>>[i] = p
  OBVIOUS
<1>3. <<p>> # << >> /\ <<p>> \in Seq(Player) /\ <<p>>[Len(<<p>>)] = p
  OBVIOUS
<1>. QED  BY <1>1, <1>2, <1>3 DEF Aims

\* A handler that saves twice.
LEMMA TwoAims ==
    ASSUME NEW p \in Player, NEW q \in Player, NEW kept \in BOOLEAN, NEW whole \in BOOLEAN,
           Aimed(p.saved, kept, FALSE), Focused(q, kept, whole)
    PROVE  Aims(<<p, q>>, kept, whole)
<1>1. Aimed(q.saved, kept, FALSE)
  BY FocusedWeaker DEF Focused
<1>2. \A i \in 1 .. Len(<<p, q>>) : <<p, q>>[i] \in {p, q}
  OBVIOUS
<1>3. <<p, q>> # << >> /\ <<p, q>> \in Seq(Player) /\ <<p, q>>[Len(<<p, q>>)] = q
  OBVIOUS
<1>. QED  BY <1>1, <1>2, <1>3 DEF Aims

-----------------------------------------------------------------------------
(* Scenes.  All end with no scene open.                                     *)

\* A player with no scene open whose aim is right.
Aiming(p, kept, whole) ==
    p \in Player /\ Aimed(p, kept, whole) /\ Crossing(p) /\ p.dialogue = "none"

\* He is saved.
LEMMA Closed ==
    ASSUME NEW p, NEW kept \in BOOLEAN, NEW whole \in BOOLEAN, Aiming(p, kept, whole)
    PROVE  /\ Aiming(mark(p), kept, whole) /\ Focused(mark(p), kept, whole)
           /\ Aims(<<mark(p)>>, kept, whole)
           /\ \A f \in Fields \cup Passing : mark(p)[f] = p[f]
<1>1. mark(p) \in Player /\ \A f \in Fields \cup Passing : mark(p)[f] = p[f]
  BY MarkFields DEF Aiming
<1>2. Focused(mark(p), kept, whole)
  BY MarkFocused DEF Aiming, StillDue, Idle
<1>3. mark(p).dialogue = "none"
  BY <1>1 DEF Aiming, Passing
<1>. QED  BY <1>1, <1>2, <1>3, OneAim DEF Aiming, Focused

\* What is no part of the aim may change.
LEMMA SameAim ==
    ASSUME NEW p, NEW kept, NEW whole, Aiming(p, kept, whole), NEW q \in Player,
           \A f \in AimFields \cup {"bridge", "dialogue"} : q[f] = p[f]
    PROVE  Aiming(q, kept, whole)
<1>1. q.bridge = p.bridge /\ q.repaired = p.repaired /\ q.dialogue = p.dialogue
  BY DEF AimFields
<1>. QED  BY <1>1, AimedSame DEF Aiming, Crossing

\* Raised leaves all else alone.
LEMMA RaisedFields ==
    ASSUME NEW p \in Player, NEW n \in Nat
    PROVE  LET q == Raised(p, n)
           IN  /\ q \in Player /\ q.stage >= p.stage /\ q.stage >= n /\ q.stage \in {p.stage, n}
               /\ \A f \in (Fields \ {"stage", "step"}) \cup Passing : q[f] = p[f]
<1>. DEFINE q == Raised(p, n)
            m == q.stage
<1>1. /\ q \in Player /\ m >= p.stage /\ m >= n /\ m \in {p.stage, n}
      /\ q = [p EXCEPT !.stage = m, !.step = 0]
  BY RaisedIs
<1>. HIDE DEF q, m
<1>2. \A f \in (Fields \ {"stage", "step"}) \cup Passing : q[f] = p[f]
  BY <1>1, ZenonT(60) DEF Player, Fields, Passing
<1>. QED  BY <1>1, <1>2 DEF q, m

\* A stage is raised: to one that needs no quest, from one without or past it.
LEMMA RaisedAim ==
    ASSUME NEW p, NEW kept, NEW whole, Aiming(p, kept, whole),
           NEW n \in Nat, n \notin {BLACKWATER, LIVING_MUD},
           n > p.stage => p.quest \notin {"blackwater", "mud"}
    PROVE  LET q == Raised(p, n)
           IN  Aiming(q, kept, whole) /\ \A f \in Fields \ {"stage", "step"} : q[f] = p[f]
<1>. DEFINE q == Raised(p, n)
<1>0. p \in Player
  BY DEF Aiming
<1>1. /\ q \in Player /\ q.stage >= p.stage /\ q.stage \in {p.stage, n}
      /\ \A f \in (Fields \ {"stage", "step"}) \cup Passing : q[f] = p[f]
  BY <1>0, RaisedFields
<1>2. q.stage \in Nat /\ p.stage \in Nat
  BY <1>0, <1>1 DEF Player
<1>. HIDE DEF q
<1>3. /\ q.quest = p.quest /\ q.qstate = p.qstate /\ q.staged = p.staged /\ q.repaired = p.repaired
      /\ q.oil = p.oil /\ q.rust = p.rust /\ q.dialogue = p.dialogue /\ q.bridge = p.bridge
  BY <1>1 DEF Fields, Passing
<1>4. Aimed(q, kept, whole)
  BY <1>1, <1>2, <1>3 DEF Aiming, Aimed, Has, LIVING_MUD
<1>5. Crossing(q)
  BY <1>3 DEF Aiming, Crossing
<1>. QED  BY <1>1, <1>3, <1>4, <1>5 DEF Aiming, q

\* The reward is no part of the aim.
LEMMA AwardAim ==
    ASSUME NEW p, NEW kept \in BOOLEAN, NEW whole \in BOOLEAN, Aiming(p, kept, whole), NEW r \in Rewards
    PROVE  LET q == award_gold(p, r)
           IN  /\ Aiming(q, kept, whole) /\ Focused(q, kept, whole) /\ Aims(<<q>>, kept, whole)
               /\ \A f \in Fields \ {"paid"} : q[f] = p[f]
<1>. DEFINE o == [p EXCEPT !.paid[r] = IF @ < MaxPaid THEN @ + 1 ELSE @]
<1>1. o \in Player /\ \A f \in (Fields \ {"paid"}) \cup Passing : o[f] = p[f]
  BY DEF Aiming, Player, Fields, Passing
<1>2. award_gold(p, r) = mark(o)
  BY DEF award_gold
<1>. HIDE DEF o
<1>3. Aiming(o, kept, whole)
  BY <1>1, SameAim DEF AimFields, Fields, Passing
<1>. QED  BY <1>1, <1>2, <1>3, Closed

\* The repair of the bridge starts, or is under way.
LEMMA RepairAim ==
    ASSUME NEW p, NEW kept \in BOOLEAN, NEW whole \in BOOLEAN, Focused(p, kept, whole),
           Aiming(p, kept, whole), ~p.repaired
    PROVE  LET q == _start_bridge_repair_for_player(p)
           IN  q \in Player /\ Focused(q, kept, whole)
<1>. DEFINE q == [p EXCEPT !.bridge = "escorting"]
<1>1. /\ q \in Player /\ q.repaired = p.repaired /\ q.dialogue = p.dialogue
      /\ \A f \in Fields : q[f] = p[f]
  BY DEF Aiming, Player, Phase, Fields
<1>2. _start_bridge_repair_for_player(p) = IF Running(p) THEN p ELSE mark(Raised(q, BRIDGE))
  BY DEF _start_bridge_repair_for_player
<1>. HIDE DEF q
<1>3. Aimed(q, kept, whole) /\ q.stage = p.stage /\ q.quest = p.quest
  <2>1. \A f \in AimFields : q[f] = p[f]
    BY <1>1 DEF AimFields, Fields
  <2>. QED  BY <2>1, AimedSame DEF Aiming, AimFields
<1>4. Aiming(q, kept, whole)
  BY <1>1, <1>3 DEF Aiming, Crossing
<1>5. BRIDGE > q.stage => q.quest \notin {"blackwater", "mud"}
  BY <1>3 DEF Aimed, BRIDGE, BLACKWATER, LIVING_MUD
<1>6. Aiming(Raised(q, BRIDGE), kept, whole)
  BY <1>4, <1>5, RaisedAim DEF BRIDGE, BLACKWATER, LIVING_MUD
<1>. QED  BY <1>2, <1>6, Closed DEF Aiming

\* Wilhelm takes the sticks.
LEMMA CommitAims ==
    ASSUME NEW p, NEW kept \in BOOLEAN, NEW whole \in BOOLEAN, Aiming(p, kept, whole),
           ~p.repaired, ~p.staged, p.sticks, p.quest = "road"
    PROVE  Aims(_commit_wilhelm_bridge_start(p), kept, whole)
<1>. DEFINE q == Started([p EXCEPT !.sticks = FALSE, !.staged = TRUE], "bridge")
            gave == mark(q)
<1>1. /\ q \in Player /\ q.quest = "bridge" /\ q.qstate = "active" /\ q.staged /\ ~q.repaired
      /\ q.stage = p.stage /\ q.oil = p.oil /\ q.rust = p.rust /\ q.dialogue = p.dialogue
  BY ZenonT(60) DEF Aiming, Started, Player, Quest, Progress
<1>2. _commit_wilhelm_bridge_start(p) = <<gave, _start_bridge_repair_for_player(gave)>>
  BY DEF _commit_wilhelm_bridge_start
<1>. HIDE DEF q
<1>3. Aimed(q, kept, whole)
  BY <1>1 DEF Aiming, Aimed, Has
<1>4. Aiming(q, kept, whole)
  BY <1>1, <1>3 DEF Aiming, Crossing
<1>5. Aiming(gave, kept, whole) /\ Focused(gave, kept, whole) /\ ~gave.repaired
  <2>1. gave.repaired = q.repaired
    BY <1>4, Closed DEF Fields
  <2>. QED  BY <1>1, <1>4, <2>1, Closed
<1>. DEFINE last == _start_bridge_repair_for_player(gave)
<1>6. last \in Player /\ Focused(last, kept, whole)
  BY <1>5, RepairAim
<1>. HIDE DEF gave, last
<1>7. Aimed(gave.saved, kept, FALSE)
  BY <1>5, AimedWeaker DEF Focused
<1>8. Aims(<<gave, last>>, kept, whole)
  BY <1>5, <1>6, <1>7, TwoAims DEF Aiming
<1>. QED  BY <1>2, <1>8 DEF last

\* Daniel's quest is turned in.
LEMMA OrchardAims ==
    ASSUME NEW p, NEW kept \in BOOLEAN, NEW whole \in BOOLEAN, Aiming(p, kept, whole),
           Has(p, "road", "ready")
    PROVE  Aims(_complete_save_my_orchard(p), kept, whole)
<1>. DEFINE q == [p EXCEPT !.qstate = "complete"]
<1>1. /\ q \in Player /\ q.quest = "road" /\ q.stage = p.stage /\ q.staged = p.staged
      /\ q.repaired = p.repaired /\ q.oil = p.oil /\ q.rust = p.rust
      /\ q.dialogue = p.dialogue /\ q.bridge = p.bridge
  BY DEF Aiming, Has, Player, Progress
<1>2. _complete_save_my_orchard(p) = <<award_gold(Raised(q, ROAD_TROUBLE), "road")>>
  BY DEF _complete_save_my_orchard
<1>. HIDE DEF q
<1>3. Aiming(q, kept, whole)
  BY <1>1 DEF Aiming, Aimed, Crossing, Has
<1>4. Aiming(Raised(q, ROAD_TROUBLE), kept, whole)
  BY <1>1, <1>3, RaisedAim DEF ROAD_TROUBLE, BLACKWATER, LIVING_MUD
<1>. QED  BY <1>2, <1>4, AwardAim DEF Rewards

\* Wilhelm's quest is turned in.
LEMMA BridgePaidAims ==
    ASSUME NEW p, NEW kept \in BOOLEAN, NEW whole \in BOOLEAN, Aiming(p, kept, whole),
           Has(p, "bridge", "ready")
    PROVE  Aims(_complete_repair_the_bridge(p), kept, whole)
<1>. DEFINE q == [p EXCEPT !.qstate = "complete"]
<1>1. /\ q \in Player /\ q.quest = "bridge" /\ q.stage = p.stage /\ q.staged = p.staged
      /\ q.repaired = p.repaired /\ q.oil = p.oil /\ q.rust = p.rust
      /\ q.dialogue = p.dialogue /\ q.bridge = p.bridge
  BY DEF Aiming, Has, Player, Progress
<1>2. _complete_repair_the_bridge(p) = <<award_gold(q, "bridge")>>
  BY DEF _complete_repair_the_bridge
<1>. HIDE DEF q
<1>3. Aiming(q, kept, whole)
  BY <1>1 DEF Aiming, Aimed, Crossing, Has
<1>. QED  BY <1>2, <1>3, AwardAim DEF Rewards

\* Lucian's first quest starts.
LEMMA BlackwaterAims ==
    ASSUME NEW p, NEW kept \in BOOLEAN, NEW whole \in BOOLEAN, Aiming(p, kept, whole),
           p.repaired, p.stage < BLACKWATER
    PROVE  Aims(_start_blackwater_bite(p), kept, whole)
<1>. DEFINE q == Started(p, "blackwater")
            r == Raised(q, BLACKWATER)
<1>1. /\ q \in Player /\ q.quest = "blackwater" /\ q.qstate = "active" /\ q.stage = p.stage
      /\ q.repaired /\ q.oil = p.oil /\ q.rust = p.rust /\ q.dialogue = p.dialogue
  BY DEF Aiming, Started, Player, Quest, Progress
<1>2. _start_blackwater_bite(p) = <<mark(r)>>
  BY DEF _start_blackwater_bite
<1>3. /\ r \in Player /\ r.stage >= q.stage /\ r.stage >= BLACKWATER
      /\ r.stage \in {q.stage, BLACKWATER}
      /\ \A f \in (Fields \ {"stage", "step"}) \cup Passing : r[f] = q[f]
  BY <1>1, RaisedFields DEF BLACKWATER
<1>. HIDE DEF q, r
<1>4. /\ r.quest = "blackwater" /\ r.qstate = "active" /\ r.repaired /\ r.oil = p.oil
      /\ r.rust = p.rust /\ r.dialogue = p.dialogue /\ r.bridge = q.bridge
  BY <1>1, <1>3 DEF Fields, Passing
<1>5. r.stage = BLACKWATER /\ p.stage \in Nat
  BY <1>1, <1>3 DEF BLACKWATER, Player
<1>6. q.bridge = p.bridge
  BY DEF q, Started, Aiming, Player
<1>7. Aiming(r, kept, whole)
  BY <1>3, <1>4, <1>5, <1>6 DEF Aiming, Aimed, Crossing, Has, BLACKWATER, LIVING_MUD
<1>. QED  BY <1>2, <1>7, Closed

\* It is turned in, and his second one starts.
LEMMA MudAims ==
    ASSUME NEW p, NEW kept \in BOOLEAN, NEW whole \in BOOLEAN, Aiming(p, kept, whole),
           p.repaired, p.quest = "blackwater"
    PROVE  Aims(_complete_blackwater_and_start_living_mud(p), kept, whole)
<1>. DEFINE paid == award_gold(p, "blackwater")
            q == Started(paid, "mud")
            r == Raised(q, LIVING_MUD)
<1>1. /\ Aiming(paid, kept, whole) /\ Aimed(paid.saved, kept, FALSE)
      /\ \A f \in Fields \ {"paid"} : paid[f] = p[f]
  <2>1. Aiming(paid, kept, whole) /\ Focused(paid, kept, whole)
        /\ \A f \in Fields \ {"paid"} : paid[f] = p[f]
    BY AwardAim DEF Rewards
  <2>. QED  BY <2>1, AimedWeaker DEF Focused
<1>2. paid.repaired /\ paid.stage = BLACKWATER /\ paid.oil = 0 /\ paid.rust = 0
  <2>1. p.stage = BLACKWATER /\ p.oil = 0 /\ p.rust = 0
    BY DEF Aiming, Aimed, BLACKWATER, LIVING_MUD
  <2>. QED  BY <1>1, <2>1 DEF Fields
<1>3. _complete_blackwater_and_start_living_mud(p) = <<paid, mark(r)>>
  BY DEF _complete_blackwater_and_start_living_mud
<1>. HIDE DEF paid
<1>4. /\ q \in Player /\ q.quest = "mud" /\ q.qstate = "active" /\ q.stage = BLACKWATER
      /\ q.repaired /\ q.oil = 0 /\ q.rust = 0 /\ q.dialogue = "none" /\ q.bridge = paid.bridge
  BY <1>1, <1>2 DEF Aiming, Started, Player, Quest, Progress
<1>5. /\ r \in Player /\ r.stage >= LIVING_MUD /\ r.stage \in {q.stage, LIVING_MUD}
      /\ \A f \in (Fields \ {"stage", "step"}) \cup Passing : r[f] = q[f]
  BY <1>4, RaisedFields DEF LIVING_MUD
<1>. HIDE DEF q, r
<1>6. /\ r.quest = "mud" /\ r.qstate = "active" /\ r.repaired /\ r.oil = 0
      /\ r.rust = 0 /\ r.dialogue = "none" /\ r.bridge = paid.bridge
  BY <1>4, <1>5 DEF Fields, Passing
<1>7. r.stage = LIVING_MUD
  BY <1>4, <1>5 DEF BLACKWATER, LIVING_MUD
<1>8. SampleTarget > 0
  BY StoryAssumption
<1>9. Aiming(r, kept, whole)
  BY <1>1, <1>2, <1>5, <1>6, <1>7, <1>8 DEF Aiming, Aimed, Crossing, Has, BLACKWATER, LIVING_MUD
<1>10. mark(r) \in Player /\ Focused(mark(r), kept, whole)
  BY <1>9, Closed DEF Aiming
<1>. HIDE DEF r
<1>. QED  BY <1>1, <1>3, <1>10, TwoAims DEF Aiming

\* Nerissa takes the samples.
LEMMA SamplesAims ==
    ASSUME NEW p, NEW kept \in BOOLEAN, NEW whole \in BOOLEAN, Aiming(p, kept, whole),
           p.repaired, Has(p, "mud", "ready")
    PROVE  Aims(_complete_living_mud(p), kept, whole)
<1>. DEFINE empty == [p EXCEPT !.oil = 0, !.rust = 0]
            paid == award_gold(empty, "mud")
            q == Raised(paid, GOBLIN_WARNED)
            r == Cleared(q)
<1>1. /\ empty \in Player /\ empty.quest = "mud" /\ empty.qstate = "ready"
      /\ empty.stage = p.stage /\ empty.repaired /\ empty.oil = 0 /\ empty.rust = 0
      /\ empty.dialogue = p.dialogue /\ empty.bridge = p.bridge
  BY DEF Aiming, Has, Player
<1>2. _complete_living_mud(p) = <<paid, mark(r)>>
  BY DEF _complete_living_mud
<1>. HIDE DEF empty
<1>3. Aiming(empty, kept, whole)
  BY <1>1 DEF Aiming, Aimed, Crossing, Has
<1>4. /\ Aiming(paid, kept, whole) /\ Aimed(paid.saved, kept, FALSE)
      /\ paid.repaired /\ paid.stage = LIVING_MUD
  <2>1. Aiming(paid, kept, whole) /\ Focused(paid, kept, whole)
        /\ \A f \in Fields \ {"paid"} : paid[f] = empty[f]
    BY <1>3, AwardAim DEF Rewards
  <2>2. empty.stage = LIVING_MUD
    BY <1>1, <1>3 DEF Aiming, Aimed
  <2>3. Aimed(paid.saved, kept, FALSE)
    BY <2>1, AimedWeaker DEF Focused
  <2>. QED  BY <1>1, <2>1, <2>2, <2>3 DEF Fields
<1>. HIDE DEF paid
<1>5. /\ q \in Player /\ q.stage >= GOBLIN_WARNED /\ q.stage \in {paid.stage, GOBLIN_WARNED}
      /\ \A f \in (Fields \ {"stage", "step"}) \cup Passing : q[f] = paid[f]
  BY <1>4, RaisedFields DEF Aiming, GOBLIN_WARNED
<1>. HIDE DEF q
<1>6. q.stage = GOBLIN_WARNED
  BY <1>4, <1>5 DEF LIVING_MUD, GOBLIN_WARNED
<1>7. q.repaired /\ q.dialogue = "none" /\ q.bridge = paid.bridge
  BY <1>4, <1>5 DEF Aiming, Fields, Passing
<1>8. /\ r \in Player /\ r.quest = "none" /\ r.stage = GOBLIN_WARNED /\ r.repaired
      /\ r.dialogue = "none" /\ r.bridge = paid.bridge
  BY <1>5, <1>6, <1>7 DEF Cleared, Player, Quest, Progress
<1>. HIDE DEF r
<1>9. Aiming(r, kept, whole)
  BY <1>4, <1>8 DEF Aiming, Aimed, Crossing, Has, BLACKWATER, LIVING_MUD, GOBLIN_WARNED
<1>10. mark(r) \in Player /\ Focused(mark(r), kept, whole)
  BY <1>9, Closed DEF Aiming
<1>. QED  BY <1>2, <1>4, <1>10, TwoAims DEF Aiming

\* A stage past the quests is reached.
LEMMA RaisedAims ==
    ASSUME NEW p, NEW kept \in BOOLEAN, NEW whole \in BOOLEAN, Aiming(p, kept, whole),
           NEW n \in Nat, n \notin {BLACKWATER, LIVING_MUD},
           p.stage \notin {BLACKWATER, LIVING_MUD} \/ n <= p.stage
    PROVE  Aims(<<mark(Raised(p, n))>>, kept, whole)
<1>1. n > p.stage => p.quest \notin {"blackwater", "mud"}
  <2>1. p.stage \in Nat
    BY DEF Aiming, Player
  <2>. QED  BY <2>1 DEF Aiming, Aimed
<1>. QED  BY <1>1, RaisedAim, Closed

\* The deep pump is shut down.
LEMMA PumpAims ==
    ASSUME NEW p, NEW kept \in BOOLEAN, NEW whole \in BOOLEAN, Aiming(p, kept, whole),
           p.stage >= GORVAK
    PROVE  Aims(_complete_deep_pump_shutdown(p), kept, whole)
<1>. DEFINE q == [p EXCEPT !.pump = TRUE]
<1>1. q \in Player /\ q.stage = p.stage /\ \A f \in AimFields \cup {"bridge", "dialogue"} : q[f] = p[f]
  BY DEF Aiming, Player, AimFields
<1>2. _complete_deep_pump_shutdown(p) = <<mark(Raised(q, RETURN_NERISSA))>>
  BY DEF _complete_deep_pump_shutdown
<1>. HIDE DEF q
<1>3. Aiming(q, kept, whole)
  BY <1>1, SameAim
<1>. QED  BY <1>1, <1>2, <1>3, RaisedAims DEF GORVAK, RETURN_NERISSA, BLACKWATER, LIVING_MUD

\* The ending.
LEMMA WillowcrossAims ==
    ASSUME NEW p, NEW kept \in BOOLEAN, NEW whole \in BOOLEAN, Aiming(p, kept, whole),
           Focused(p, kept, whole), p.stage >= RETURN_NERISSA
    PROVE  Aims(_complete_willowcross_saved(p), kept, whole)
<1>. DEFINE q == [p EXCEPT !.pvp = TRUE]
<1>1. q \in Player /\ q.stage = p.stage /\ \A f \in AimFields \cup {"bridge", "dialogue"} : q[f] = p[f]
  BY DEF Aiming, Player, AimFields
<1>2. _complete_willowcross_saved(p)
        = IF p.pvp THEN <<p>> ELSE <<award_gold(Raised(q, COMPLETE), "saved")>>
  BY DEF _complete_willowcross_saved
<1>. HIDE DEF q
<1>3. Aiming(q, kept, whole)
  BY <1>1, SameAim
<1>4. q.quest \notin {"blackwater", "mud"}
  BY <1>1, <1>3 DEF Aiming, Aimed, RETURN_NERISSA, BLACKWATER, LIVING_MUD
<1>5. Aiming(Raised(q, COMPLETE), kept, whole)
  BY <1>3, <1>4, RaisedAim DEF COMPLETE, BLACKWATER, LIVING_MUD
<1>6. Aims(<<award_gold(Raised(q, COMPLETE), "saved")>>, kept, whole)
  BY <1>5, AwardAim DEF Rewards
<1>7. Aims(<<p>>, kept, whole)
  BY OneAim DEF Aiming
<1>. QED  BY <1>2, <1>6, <1>7

\* Daniel's quest is accepted: by one who keeps his, over none that is under way.
LEMMA AcceptAims ==
    ASSUME NEW p, NEW kept \in BOOLEAN, NEW whole \in BOOLEAN, Aiming(p, kept, whole),
           p.offer = "road", kept => _can_offer_quest(p)
    PROVE  Aims(<<accept_pending_quest_offer(p)>>, kept, whole)
<1>. DEFINE q == Started([p EXCEPT !.offer = "none"], p.offer)
<1>1. /\ q \in Player /\ q.quest = "road" /\ q.stage = p.stage /\ q.staged = p.staged
      /\ q.repaired = p.repaired /\ q.oil = p.oil /\ q.rust = p.rust
      /\ q.dialogue = p.dialogue /\ q.bridge = p.bridge
  BY DEF Aiming, Started, Player, Quest, Progress
<1>2. accept_pending_quest_offer(p) = mark(q)
  BY DEF accept_pending_quest_offer
<1>. HIDE DEF q
<1>3. kept => ~(p.staged /\ ~p.repaired) /\ p.stage \notin {BLACKWATER, LIVING_MUD}
  BY DEF Aiming, Aimed, Has, _can_offer_quest
<1>4. Aiming(q, kept, whole)
  BY <1>1, <1>3 DEF Aiming, Aimed, Crossing, Has
<1>. QED  BY <1>2, <1>4, Closed

\* Whatever scene is accepted, being due.
LEMMA ConfirmedAims ==
    ASSUME NEW p, NEW kept \in BOOLEAN, NEW whole \in BOOLEAN, Sound(p), Focused(p, kept, whole),
           p.dialogue = "none", NEW d \in Scenes, StillDue(d, p), d \in East => p.repaired,
           d = "DANIEL_OFFER" /\ p.offer = "road" => (kept => _can_offer_quest(p))
    PROVE  Aims(Confirmed(d, p), kept, whole)
<1>0. /\ p \in Player /\ Chain(p) /\ p.stage \in Nat
      /\ Aiming(p, kept, whole) /\ Aims(<<p>>, kept, whole)
  BY Bounds, OneAim DEF Aiming, Focused
<1>1. CASE d = "DANIEL_OFFER"
  BY <1>0, <1>1, AcceptAims DEF Confirmed
<1>2. CASE d = "NERISSA_INTRO"
  <2>1. Aims(<<mark(Raised(p, WELCOME))>>, kept, whole)
    BY <1>0, <1>2, RaisedAims, DueIs DEF StillDue, Idle, NONE, WELCOME, BLACKWATER, LIVING_MUD
  <2>. QED  BY <1>2, <2>1 DEF Confirmed
<1>3. CASE d = "NERISSA_POST_BRIDGE"
  <2>1. p.stage <= BRIDGE
    BY <1>3, DueIs DEF StillDue, Idle
  <2>2. Aims(<<mark(Raised(p, BEYOND_ROAD))>>, kept, whole)
    BY <1>0, <2>1, RaisedAims DEF BRIDGE, BEYOND_ROAD, BLACKWATER, LIVING_MUD
  <2>. QED  BY <1>3, <2>2 DEF Confirmed
<1>4. CASE d = "WILHELM_BRIDGE_START"
  <2>1. ~p.repaired /\ ~p.staged /\ p.sticks /\ p.quest = "road"
    BY <1>4, DueIs DEF StillDue, Idle, Has
  <2>. QED  BY <1>0, <1>4, <2>1, CommitAims DEF Confirmed
<1>5. CASE d = "DANIEL_COMPLETE"
  <2>1. Has(p, "road", "ready")
    BY <1>5, DueIs DEF StillDue, Idle
  <2>. QED  BY <1>0, <1>5, <2>1, OrchardAims DEF Confirmed
<1>6. CASE d = "WILHELM_COMPLETE"
  <2>1. Has(p, "bridge", "ready")
    BY <1>6, DueIs DEF StillDue, Idle
  <2>. QED  BY <1>0, <1>6, <2>1, BridgePaidAims DEF Confirmed
<1>7. CASE d = "LUCIAN_BLACKWATER_OFFER"
  <2>1. p.repaired /\ p.stage < BLACKWATER
    BY <1>7, DueIs DEF StillDue, Idle, East, ScenesOf
  <2>. QED  BY <1>0, <1>7, <2>1, BlackwaterAims DEF Confirmed
<1>8. CASE d = "LUCIAN_LIVING_MUD_OFFER"
  <2>1. p.repaired /\ p.quest = "blackwater"
    BY <1>8, DueIs DEF StillDue, Idle, East, ScenesOf, Has
  <2>. QED  BY <1>0, <1>8, <2>1, MudAims DEF Confirmed
<1>9. CASE d = "LUCIAN_SAMPLES_REDIRECT"
  <2>. DEFINE q == [p EXCEPT !.step = 1]
  <2>1. q \in Player /\ \A f \in AimFields \cup {"bridge", "dialogue"} : q[f] = p[f]
    BY <1>0 DEF Player, AimFields
  <2>2. Confirmed(d, p) = <<mark(q)>>
    BY <1>9 DEF Confirmed
  <2>. HIDE DEF q
  <2>. QED  BY <1>0, <2>1, <2>2, SameAim, Closed
<1>10. CASE d = "NERISSA_SAMPLES"
  <2>1. p.repaired /\ Has(p, "mud", "ready")
    BY <1>10, DueIs DEF StillDue, Idle, East
  <2>. QED  BY <1>0, <1>10, <2>1, SamplesAims DEF Confirmed
<1>11. CASE d = "GRIX_EXPLAIN"
  <2>. DEFINE q == Raised(p, WARDEN_KEY)
              r == _ensure_warden_key_spawned(q)
  <2>1. p.quest \notin {"blackwater", "mud"}
    <3>1. p.stage = GOBLIN_WARNED
      BY <1>11, DueIs DEF StillDue, Idle
    <3>. QED  BY <1>0, <3>1 DEF Aiming, Aimed, GOBLIN_WARNED, BLACKWATER, LIVING_MUD
  <2>2. Aiming(q, kept, whole)
    BY <1>0, <2>1, RaisedAim DEF WARDEN_KEY, BLACKWATER, LIVING_MUD
  <2>3. Confirmed(d, p) = <<mark(r)>>
    BY <1>11 DEF Confirmed
  <2>. HIDE DEF q
  <2>4. r \in Player /\ \A f \in AimFields \cup {"bridge", "dialogue"} : r[f] = q[f]
    BY <2>2, KeyOnly DEF Aiming, AimFields, Fields
  <2>. HIDE DEF r
  <2>. QED  BY <2>2, <2>3, <2>4, SameAim, Closed
<1>12. CASE d = "GRIX_COMPLETE"
  <2>1. p.stage = WARDEN_KEY
    BY <1>12, DueIs DEF StillDue, Idle
  <2>2. Aims(<<mark(Raised(p, GORVAK))>>, kept, whole)
    BY <1>0, <2>1, RaisedAims DEF WARDEN_KEY, GORVAK, BLACKWATER, LIVING_MUD
  <2>. QED  BY <1>12, <2>2 DEF Confirmed
<1>13. CASE d = "PUMP_SHUTDOWN"
  <2>1. p.stage >= GORVAK
    BY <1>0, <1>13, DueIs DEF StillDue, Idle, Chain
  <2>. QED  BY <1>0, <1>13, <2>1, PumpAims DEF Confirmed
<1>14. CASE d = "NERISSA_ENDING"
  <2>1. p.stage >= RETURN_NERISSA
    BY <1>14, DueIs DEF StillDue, Idle
  <2>. QED  BY <1>0, <1>14, <2>1, WillowcrossAims DEF Confirmed
<1>15. CASE d = "WILHELM_INTRO"
  BY <1>0, <1>15 DEF Confirmed
<1>. QED
  BY <1>1, <1>2, <1>3, <1>4, <1>5, <1>6, <1>7, <1>8, <1>9, <1>10, <1>11, <1>12, <1>13,
     <1>14, <1>15, AllScenes

\* A page is turned, or the scene is closed.
LEMMA AdvanceAims ==
    ASSUME NEW p, NEW kept \in BOOLEAN, NEW whole \in BOOLEAN, Sound(p), Focused(p, kept, whole),
           p.dialogue # "none", NEW accept \in BOOLEAN,
           p.dialogue = "DANIEL_OFFER" /\ p.page >= LastPage /\ accept /\ p.offer = "road"
             => (kept => _can_offer_quest(p))
    PROVE  Aims(advance_dialogue(p, accept), kept, whole)
<1>0. p \in Player /\ Chain(p) /\ Staged(p)
  BY Bounds
<1>1. CASE p.page < LastPage
  <2>. DEFINE q == [p EXCEPT !.page = @ + 1]
  <2>1. /\ q \in Player /\ q.saved = p.saved /\ q.bridge = p.bridge /\ q.dialogue = p.dialogue
        /\ \A f \in Fields : q[f] = p[f]
    BY <1>0 DEF Player, Fields
  <2>2. advance_dialogue(p, accept) = <<q>>
    BY <1>1 DEF advance_dialogue
  <2>. HIDE DEF q
  <2>. QED  BY <1>0, <2>1, <2>2, StillFocused, OneAim
<1>2. CASE ~(p.page < LastPage)
  <2>. DEFINE q == [p EXCEPT !.dialogue = "none", !.page = 0]
  <2>1. /\ q \in Player /\ q.saved = p.saved /\ q.bridge = p.bridge /\ q.dialogue = "none"
        /\ \A f \in Fields : q[f] = p[f]
    BY <1>0 DEF Player, Fields
  <2>2. Chain(q) /\ Staged(q)
    BY <1>0 DEF Player, Chain, Staged, East, ScenesOf
  <2>3. advance_dialogue(p, accept) = IF accept THEN Confirmed(p.dialogue, q) ELSE <<q>>
    BY <1>2 DEF advance_dialogue, _close_dialogue
  <2>. HIDE DEF q
  <2>4. Sound(q)
    BY <2>1, <2>2, StillSound DEF Ready
  <2>5. Focused(q, kept, whole) /\ Aims(<<q>>, kept, whole)
    BY <1>0, <2>1, StillFocused, OneAim
  <2>6. CASE accept
    <3>1. p.dialogue \in Scenes
      BY <1>0 DEF Player
    <3>2. StillDue(p.dialogue, q)
      <4>1. \A f \in DueFields : q[f] = p[f]
        BY <2>1 DEF DueFields, Fields
      <4>. QED  BY <3>1, <4>1, DueSame DEF Focused
    <3>3. p.dialogue \in East => q.repaired
      BY <1>0, <2>1 DEF Staged, Fields
    <3>4. p.dialogue = "DANIEL_OFFER" /\ q.offer = "road" => (kept => _can_offer_quest(q))
      <4>1. q.offer = p.offer /\ q.quest = p.quest /\ q.qstate = p.qstate
        BY <2>1 DEF Fields
      <4>2. p.page >= LastPage
        BY <1>0, <1>2, StoryAssumption DEF Player
      <4>. QED  BY <2>6, <4>1, <4>2 DEF _can_offer_quest
    <3>5. Aims(Confirmed(p.dialogue, q), kept, whole)
      BY <2>1, <2>4, <2>5, <3>1, <3>2, <3>3, <3>4, ConfirmedAims
    <3>. QED  BY <2>3, <2>6, <3>5
  <2>. QED  BY <2>3, <2>5, <2>6
<1>. QED  BY <1>1, <1>2

\* A character is spoken to.
LEMMA InteractAims ==
    ASSUME NEW p, NEW kept \in BOOLEAN, NEW whole \in BOOLEAN, Sound(p), Focused(p, kept, whole),
           p.dialogue = "none", NEW c \in DOMAIN ScenesOf
    PROVE  Aims(interact(p, c), kept, whole)
<1>. DEFINE offered == c = "daniel" /\ Due("DANIEL_OFFER", p) /\ p.offer # "road"
            q == IF offered THEN mark([p EXCEPT !.offer = "road"]) ELSE p
            due == {d \in ScenesOf[c] : Due(d, p)}
            d == CHOOSE x \in due : TRUE
            retry == /\ c = "wilhelm" /\ p.staged /\ ~p.repaired
                     /\ ~Running(p) /\ ~Has(p, "bridge", "ready")
<1>0. p \in Player /\ Aiming(p, kept, whole) /\ Aims(<<p>>, kept, whole)
  BY Bounds, OneAim DEF Aiming, Focused
<1>1. interact(p, c) = IF retry THEN <<_start_bridge_repair_for_player(p)>>
                       ELSE IF due = {} THEN <<p>> ELSE <<open_dialogue(q, d)>>
  BY DEF interact
<1>2. CASE retry
  BY <1>0, <1>1, <1>2, RepairAim, OneAim
<1>3. /\ Focused(q, kept, whole) /\ q \in Player /\ q.dialogue = "none"
      /\ \A f \in DueFields : q[f] = p[f]
  <2>. DEFINE o == [p EXCEPT !.offer = "road"]
  <2>1. o \in Player /\ \A f \in AimFields \cup DueFields \cup {"bridge", "dialogue"} : o[f] = p[f]
    BY <1>0 DEF Player, AimFields, DueFields
  <2>2. q = IF offered THEN mark(o) ELSE p
    OBVIOUS
  <2>. HIDE DEF o, offered, q
  <2>3. Aiming(o, kept, whole)
    BY <1>0, <2>1, SameAim
  <2>4. /\ Focused(mark(o), kept, whole) /\ Aiming(mark(o), kept, whole)
        /\ \A f \in DueFields : mark(o)[f] = o[f]
    BY <2>3, Closed DEF DueFields, Fields, Passing
  <2>. QED  BY <1>0, <2>1, <2>2, <2>4 DEF Aiming
<1>4. CASE due # {}
  <2>1. d \in ScenesOf[c] /\ Due(d, p)
    BY <1>4
  <2>2. d \in Scenes
    BY <2>1 DEF Scenes
  <2>. HIDE DEF d, q, due
  <2>. DEFINE r == [q EXCEPT !.dialogue = d, !.page = 1]
  <2>3. open_dialogue(q, d) = r
    BY <1>3 DEF open_dialogue
  <2>4. /\ r \in Player /\ r.saved = q.saved /\ r.dialogue = d /\ r.bridge = q.bridge
        /\ \A f \in AimFields \cup DueFields : r[f] = q[f]
    BY <1>3, <2>2 DEF Player, AimFields, DueFields
  <2>. HIDE DEF r
  <2>5. Aimed(r, kept, whole) /\ Aimed(r.saved, kept, whole)
    BY <1>3, <2>4, AimedSame DEF Focused
  <2>6. Crossing(r)
    BY <1>3, <2>4 DEF Focused, Crossing, AimFields
  <2>7. StillDue(d, r)
    <3>1. \A f \in DueFields : r[f] = p[f]
      BY <1>3, <2>4
    <3>2. StillDue(d, p)
      BY <2>1 DEF StillDue
    <3>. QED  BY <2>2, <3>1, <3>2, DueSame
  <2>8. Aims(<<r>>, kept, whole)
    BY <2>4, <2>5, <2>6, <2>7, OneAim DEF Focused
  <2>. QED  BY <1>1, <1>2, <1>4, <2>3, <2>8
<1>. QED  BY <1>0, <1>1, <1>2, <1>4

-----------------------------------------------------------------------------
(* Kills, items and encounters, with a scene open or not.                   *)

\* A change that leaves the aim right, and the scene that is open due, is saved.
LEMMA GoesOn ==
    ASSUME NEW p \in Player, NEW kept, NEW part, Focused(p, kept, part),
           NEW q \in Player, NEW whole, Aimed(q, kept, whole), q.dialogue = p.dialogue,
           \A f \in {"stage", "quest", "staged", "pump", "repaired"} : q[f] = p[f],
           p.sticks => q.sticks, p.key => q.key, p.gorvak => q.gorvak,
           q.qstate = p.qstate \/ (p.qstate = "active" /\ q.qstate = "ready"),
           q.step = p.step \/ p.quest # "mud",
           \/ q.bridge = p.bridge \/ q.bridge \in {"none", "ended"}
           \/ p.bridge = "escorting" /\ q.bridge = "active"
    PROVE  mark(q) \in Player /\ Focused(mark(q), kept, whole)
<1>1. /\ q.stage = p.stage /\ q.quest = p.quest /\ q.staged = p.staged /\ q.pump = p.pump
      /\ q.repaired = p.repaired
  OBVIOUS
<1>2. Running(q) => Running(p)
  BY DEF Running
<1>3. StillDue(p.dialogue, q)
  BY <1>1, <1>2, DueKept DEF Focused, Player
<1>4. Crossing(q)
  BY <1>1 DEF Focused, Crossing
<1>. QED  BY <1>3, <1>4, MarkFocused, MarkFields

\* Progress on a quest other than the bridge; of the last sample, also after a torn handler.
LEMMA CountedAim ==
    ASSUME NEW p \in Player, NEW kept, NEW part, Focused(p, kept, part), NEW whole,
           NEW n \in Nat, NEW state \in {"active", "ready"}, p.qstate = "active", p.quest # "bridge",
           p.quest = "mud" /\ state = "active" => p.oil < SampleTarget \/ p.rust < SampleTarget
    PROVE  /\ mark(Counted(p, n, state)) \in Player
           /\ Focused(mark(Counted(p, n, state)), kept, whole)
<1>. DEFINE q == Counted(p, n, state)
<1>1. /\ q \in Player /\ q.qstate = state /\ q.dialogue = p.dialogue /\ q.bridge = p.bridge
      /\ \A f \in Fields \ {"progress", "qstate"} : q[f] = p[f]
  BY DEF Counted, Player, Progress, Fields
<1>. HIDE DEF q
<1>2. /\ \A f \in {"stage", "quest", "staged", "pump", "repaired"} : q[f] = p[f]
      /\ q.sticks = p.sticks /\ q.key = p.key /\ q.gorvak = p.gorvak /\ q.step = p.step
      /\ q.oil = p.oil /\ q.rust = p.rust
  BY <1>1 DEF Fields
<1>3. Aimed(q, kept, whole)
  BY <1>1, <1>2 DEF Focused, Aimed, Has
<1>. QED  BY <1>1, <1>2, <1>3, GoesOn DEF q

\* One more for the quest under way.
LEMMA AdvanceAim ==
    ASSUME NEW p \in Player, NEW kept, NEW whole, Focused(p, kept, whole),
           p.quest \in {"road", "blackwater"}, p.qstate = "active"
    PROVE  Advance(p) \in Player /\ Focused(Advance(p), kept, whole)
<1>. DEFINE n == Min({p.progress + 1, QuestTarget[p.quest]})
            state == IF n = QuestTarget[p.quest] THEN "ready" ELSE p.qstate
<1>1. n \in Nat
  BY TargetsPositive, MinOfTwo DEF Player
<1>2. state \in {"active", "ready"}
  OBVIOUS
<1>3. Advance(p) = mark(Counted(p, n, state))
  BY DEF Advance, Player, Counted
<1>. HIDE DEF n, state
<1>. QED  BY <1>1, <1>2, <1>3, CountedAim

\* Sticks come to a player by a kill or from the ground.
LEMMA SticksAim ==
    ASSUME NEW p \in Player, NEW kept, NEW whole, Focused(p, kept, whole)
    PROVE  LET q == mark([p EXCEPT !.sticks = TRUE])
           IN  q \in Player /\ Focused(q, kept, whole)
<1>. DEFINE o == [p EXCEPT !.sticks = TRUE]
<1>1. /\ o \in Player /\ o.dialogue = p.dialogue /\ o.bridge = p.bridge /\ o.sticks
      /\ \A f \in Fields \ {"sticks"} : o[f] = p[f]
  BY DEF Player, Fields
<1>. HIDE DEF o
<1>2. Aimed(o, kept, whole)
  <2>1. \A f \in AimFields : o[f] = p[f]
    BY <1>1 DEF AimFields, Fields
  <2>. QED  BY <2>1, AimedSame DEF Focused
<1>3. mark(o) \in Player /\ Focused(mark(o), kept, whole)
  BY <1>1, <1>2, GoesOn DEF Fields
<1>. QED  BY <1>3 DEF o

\* A beaver is killed.
LEMMA BeaverAims ==
    ASSUME NEW p \in Player, NEW kept \in BOOLEAN, NEW whole \in BOOLEAN, Focused(p, kept, whole)
    PROVE  Aims(_advance_road_trouble_progress(p), kept, whole)
<1>. DEFINE q == _guarantee_road_trouble_sticks(p)
<1>1. q \in Player /\ Focused(q, kept, whole)
  BY SticksAim DEF _guarantee_road_trouble_sticks
<1>2. _advance_road_trouble_progress(p)
        = IF Has(q, "road", "active") THEN <<q, Advance(q)>> ELSE <<q>>
  BY DEF _advance_road_trouble_progress
<1>. HIDE DEF q
<1>3. CASE Has(q, "road", "active")
  <2>1. Advance(q) \in Player /\ Focused(Advance(q), kept, whole)
    BY <1>1, <1>3, AdvanceAim DEF Has
  <2>2. Aimed(q.saved, kept, FALSE)
    BY <1>1, AimedWeaker DEF Focused
  <2>. QED  BY <1>1, <1>2, <1>3, <2>1, <2>2, TwoAims
<1>4. CASE ~Has(q, "road", "active")
  BY <1>1, <1>2, <1>4, OneAim
<1>. QED  BY <1>3, <1>4

\* A snake is killed.
LEMMA SnakeAims ==
    ASSUME NEW p \in Player, NEW kept \in BOOLEAN, NEW whole \in BOOLEAN, Focused(p, kept, whole)
    PROVE  Aims(_advance_blackwater_progress(p), kept, whole)
<1>. DEFINE q == IF Has(p, "blackwater", "active") THEN Advance(p) ELSE p
<1>1. q \in Player /\ Focused(q, kept, whole)
  BY AdvanceAim DEF Has
<1>2. _advance_blackwater_progress(p) = <<q>>
  BY DEF _advance_blackwater_progress
<1>. HIDE DEF q
<1>. QED  BY <1>1, <1>2, OneAim

\* A slime is killed.  After the sample is saved and before the quest is, the last one
\* leaves a quest that cannot be finished.
LEMMA SlimeAims ==
    ASSUME NEW p \in Player, NEW kept \in BOOLEAN, NEW whole \in BOOLEAN, Focused(p, kept, whole)
    PROVE  Aims(_grant_living_mud_sample(p), kept, whole)
<1>. DEFINE none == Needs(p.oil) <= 0 /\ Needs(p.rust) <= 0
            o == IF Needs(p.oil) >= Needs(p.rust) THEN [p EXCEPT !.oil = @ + 1]
                 ELSE [p EXCEPT !.rust = @ + 1]
            g == grant_personal_sample(p)
            all == g.oil >= SampleTarget /\ g.rust >= SampleTarget
            n == Min({QuestTarget["mud"], g.oil + g.rust})
            state == IF all THEN "ready" ELSE g.qstate
            last == mark(Counted(g, n, state))
<1>1. CASE ~Has(p, "mud", "active") \/ none
  BY <1>1, OneAim DEF _grant_living_mud_sample
<1>2. CASE Has(p, "mud", "active") /\ ~none
  <2>1. p.quest = "mud" /\ p.qstate = "active" /\ p.stage = LIVING_MUD
    BY <1>2 DEF Has, Focused, Aimed
  <2>2. /\ o \in Player /\ o.dialogue = p.dialogue /\ o.bridge = p.bridge
        /\ \A f \in Fields \ {"oil", "rust"} : o[f] = p[f]
    BY DEF Player, Fields
  <2>3. g = mark(o)
    BY DEF grant_personal_sample
  <2>. HIDE DEF o, g
  <2>4. /\ \A f \in {"stage", "quest", "staged", "pump", "repaired", "qstate", "step", "sticks",
                     "key", "gorvak"} : o[f] = p[f]
    BY <2>2 DEF Fields
  <2>5. Aimed(o, kept, FALSE)
    BY <2>1, <2>4 DEF Focused, Aimed, Has, LIVING_MUD
  <2>6. g \in Player /\ Focused(g, kept, FALSE)
    BY <2>2, <2>3, <2>4, <2>5, GoesOn
  <2>7. g.quest = "mud" /\ g.qstate = "active"
    <3>1. g.quest = o.quest /\ g.qstate = o.qstate
      BY <2>2, <2>3, MarkFields DEF Fields
    <3>. QED  BY <2>1, <2>4, <3>1
  <2>8. n \in Nat
    BY <2>6, TargetsPositive, MinOfTwo DEF Player
  <2>9. state \in {"active", "ready"}
    BY <2>7
  <2>10. state = "active" => g.oil < SampleTarget \/ g.rust < SampleTarget
    <3>1. SampleTarget \in Nat
      BY StoryAssumption
    <3>2. g.oil \in Nat /\ g.rust \in Nat
      BY <2>6 DEF Player
    <3>. QED  BY <3>1, <3>2
  <2>11. last = mark([g EXCEPT !.progress = n, !.qstate = IF all THEN "ready" ELSE @])
    BY <2>6 DEF Player, Counted
  <2>12. _grant_living_mud_sample(p) = <<g, last>>
    BY <1>2, <2>11 DEF _grant_living_mud_sample, g
  <2>. HIDE DEF n, state
  <2>13. last \in Player /\ Focused(last, kept, whole)
    BY <2>6, <2>7, <2>8, <2>9, <2>10, CountedAim
  <2>. HIDE DEF last
  <2>. QED  BY <2>6, <2>12, <2>13, TwoAims DEF Focused
<1>. QED  BY <1>1, <1>2

\* The bridge opens: whatever scene is open meanwhile is Daniel's.
LEMMA RepairDoneAims ==
    ASSUME NEW p, NEW kept \in BOOLEAN, NEW whole \in BOOLEAN, Sound(p), Focused(p, kept, whole),
           p.bridge = "active"
    PROVE  Aims(_bridge_repair_success(p), kept, whole)
<1>. DEFINE o == [p EXCEPT !.repaired = TRUE]
            open == mark(o)
            told == [open EXCEPT !.stage = Max({@, BRIDGE}), !.step = 1, !.bridge = "returning"]
            ready == [told EXCEPT !.qstate = "ready", !.progress = QuestTarget["bridge"]]
            last == IF told.quest = "bridge" THEN ready ELSE told
<1>0. p \in Player /\ Chain(p) /\ Staged(p) /\ p.stage \in Nat
  BY Bounds
<1>1. /\ p.staged /\ ~p.repaired /\ p.stage = BRIDGE /\ p.quest \notin {"blackwater", "mud"}
      /\ p.dialogue \notin East
  BY <1>0 DEF Staged, Focused, Crossing, Chain, BRIDGE, BEYOND_ROAD
<1>2. _bridge_repair_success(p) = <<open, mark(last)>>
  BY DEF _bridge_repair_success
<1>3. /\ o \in Player /\ o.repaired /\ o.dialogue = p.dialogue
      /\ \A f \in Fields \ {"repaired"} : o[f] = p[f]
  BY <1>0 DEF Player, Fields
<1>. HIDE DEF o
<1>4. /\ open \in Player /\ open.repaired /\ open.dialogue = p.dialogue
      /\ \A f \in Fields \ {"repaired"} : open[f] = p[f]
      /\ \A f \in Fields : open.saved[f] = o[f]
  BY <1>3, MarkFields DEF Fields, Passing
<1>5. Aimed(o, kept, whole)
  BY <1>1, <1>3 DEF Focused, Aimed, Has, Fields, BRIDGE, BLACKWATER, LIVING_MUD
<1>6. Aimed(open.saved, kept, FALSE)
  <2>1. Aimed(open.saved, kept, whole)
    BY <1>4, <1>5, AimedSame DEF AimFields, Fields
  <2>. QED  BY <2>1, AimedWeaker
<1>. HIDE DEF open
<1>7. Max({open.stage, BRIDGE}) = BRIDGE
  <2>1. open.stage = BRIDGE
    BY <1>1, <1>4 DEF Fields
  <2>. QED  BY <2>1, MaxOfTwo DEF BRIDGE
<1>8. told = [open EXCEPT !.stage = BRIDGE, !.step = 1, !.bridge = "returning"]
  BY <1>4, <1>7 DEF Player
<1>. HIDE DEF told
<1>9. /\ told \in Player /\ told.stage = BRIDGE /\ told.repaired /\ told.bridge = "returning"
      /\ told.dialogue = p.dialogue /\ told.quest = p.quest /\ told.qstate = p.qstate
      /\ told.oil = p.oil /\ told.rust = p.rust
  BY <1>4, <1>8, ZenonT(60) DEF Player, Phase, Fields, BRIDGE
<1>10. /\ last \in Player /\ last.stage = BRIDGE /\ last.repaired /\ last.bridge = "returning"
       /\ last.dialogue = p.dialogue /\ last.quest = p.quest
       /\ last.oil = p.oil /\ last.rust = p.rust
       /\ last.quest = "road" => last.qstate = p.qstate
  <2>1. /\ ready \in Player /\ ready.stage = BRIDGE /\ ready.repaired /\ ready.bridge = "returning"
        /\ ready.dialogue = p.dialogue /\ ready.quest = p.quest
        /\ ready.oil = p.oil /\ ready.rust = p.rust
    BY <1>9, TargetsPositive DEF Player, Progress
  <2>. HIDE DEF ready
  <2>2. CASE told.quest = "bridge"
    BY <1>9, <2>1, <2>2
  <2>3. CASE told.quest # "bridge"
    BY <1>9, <2>3
  <2>. QED  BY <2>2, <2>3
<1>. HIDE DEF last
<1>11. Aimed(last, kept, whole)
  BY <1>1, <1>10 DEF Focused, Aimed, Has, BRIDGE, BLACKWATER, LIVING_MUD
<1>12. Crossing(last)
  BY <1>10 DEF Crossing
<1>13. StillDue(p.dialogue, last)
  <2>. SUFFICES ASSUME p.dialogue \notin Idle PROVE Due(p.dialogue, last)
    BY DEF StillDue
  <2>1. Due(p.dialogue, p) /\ p.dialogue \in Scenes \ East
    BY <1>0, <1>1 DEF Focused, StillDue, Player, Idle
  <2>2. p.dialogue # "NERISSA_INTRO"
    BY <1>1, <2>1, DueIs DEF NONE, BRIDGE
  <2>3. p.dialogue \notin {"WILHELM_COMPLETE", "WILHELM_BRIDGE_START"}
    BY <2>1, DueIs DEF Running
  <2>4. p.dialogue = "DANIEL_COMPLETE"
    BY <2>1, <2>2, <2>3, AllScenes DEF Idle, East, ScenesOf
  <2>. QED  BY <1>10, <2>1, <2>4, DueIs DEF Has
<1>14. Focused(mark(last), kept, whole) /\ mark(last) \in Player
  BY <1>10, <1>11, <1>12, <1>13, MarkFocused, MarkFields
<1>. QED  BY <1>2, <1>4, <1>6, <1>14, TwoAims

\* Any kill.
LEMMA KilledAims ==
    ASSUME NEW p \in Player, NEW kept \in BOOLEAN, NEW whole \in BOOLEAN, Focused(p, kept, whole),
           NEW k \in {"beaver", "snake", "slime"}
    PROVE  Aims(Killed(p, k), kept, whole)
BY BeaverAims, SnakeAims, SlimeAims DEF Killed

\* A change of a phase, a step, the key or the progress is saved.
LEMMA PhaseAims ==
    ASSUME NEW p \in Player, NEW kept \in BOOLEAN, NEW whole \in BOOLEAN, Focused(p, kept, whole),
           NEW q \in Player, q.dialogue = p.dialogue,
           \A f \in Fields \ {"step", "progress", "key", "gorvak"} : q[f] = p[f],
           p.key => q.key, p.gorvak => q.gorvak, q.step = p.step \/ p.quest # "mud",
           \/ q.bridge = p.bridge \/ q.bridge \in {"none", "ended"}
           \/ p.bridge = "escorting" /\ q.bridge = "active"
    PROVE  /\ mark(q) \in Player /\ Focused(mark(q), kept, whole)
           /\ Aims(<<mark(q)>>, kept, whole)
<1>1. Aimed(q, kept, whole)
  <2>1. \A f \in AimFields : q[f] = p[f]
    BY DEF AimFields, Fields
  <2>. QED  BY <2>1, AimedSame DEF Focused
<1>2. /\ \A f \in {"stage", "quest", "staged", "pump", "repaired"} : q[f] = p[f]
      /\ q.sticks = p.sticks /\ q.qstate = p.qstate
  BY DEF Fields
<1>3. mark(q) \in Player /\ Focused(mark(q), kept, whole)
  BY <1>1, <1>2, GoesOn
<1>. QED  BY <1>3, OneAim

\* The step that a death leaves: none of the quest that counts it is lost.
LEMMA RewoundAim ==
    ASSUME NEW p, NEW kept, NEW whole, Aimed(p, kept, whole)
    PROVE  Rewound(p) = p.step \/ p.quest # "mud"
BY DEF Aimed, Rewound, BRIDGE, GORVAK, LIVING_MUD

\* A death ends his encounters; what he reads goes on.
LEMMA DeathFocused ==
    ASSUME NEW p, NEW kept \in BOOLEAN, NEW whole \in BOOLEAN, Sound(p), Focused(p, kept, whole)
    PROVE  Focused(handle_player_death(p)[1], kept, whole)
<1>. DEFINE b == IF Running(p) THEN "ended" ELSE p.bridge
            o == IF p.boss = "active" THEN "ended" ELSE p.boss
            q == [p EXCEPT !.bridge = b, !.boss = o]
            r == [q EXCEPT !.step = Rewound(q)]
<1>0. p \in Player /\ Chain(p)
  BY Bounds
<1>1. Failed(p) = q
  BY <1>0 DEF Failed, Player
<1>2. b \in Phase /\ b \in {p.bridge, "ended"} /\ o \in Phase
  BY <1>0 DEF Player, Phase
<1>. HIDE DEF b, o
<1>3. /\ q \in Player /\ q.dialogue = p.dialogue /\ q.bridge = b
      /\ \A f \in Fields : q[f] = p[f]
  BY <1>0, <1>2 DEF Player, Fields
<1>4. Chain(q)
  BY <1>0, <1>2 DEF Player, Chain
<1>. HIDE DEF q
<1>5. _normalize_story_state(q) = r /\ Rewound(q) \in Nat
  BY <1>3, <1>4, NormalPlayer
<1>6. Rewound(q) = p.step \/ p.quest # "mud"
  <2>1. q.stage = p.stage /\ q.repaired = p.repaired /\ q.gorvak = p.gorvak /\ q.step = p.step
    BY <1>3 DEF Fields
  <2>. QED  BY <2>1, RewoundAim DEF Rewound, Focused
<1>7. /\ r \in Player /\ r.dialogue = p.dialogue /\ r.bridge = b /\ r.step = Rewound(q)
      /\ r.key = p.key /\ r.gorvak = p.gorvak
      /\ \A f \in Fields \ {"step", "progress", "key", "gorvak"} : r[f] = p[f]
  BY <1>3, <1>5 DEF Player, Fields
<1>. HIDE DEF r
<1>8. Focused(mark(r), kept, whole)
  BY <1>0, <1>2, <1>6, <1>7, PhaseAims
<1>9. handle_player_death(p)[1] = mark(r)
  BY <1>1, <1>5 DEF handle_player_death
<1>. QED  BY <1>8, <1>9

\* A departure closes what he reads.
LEMMA DetachFocused ==
    ASSUME NEW p, NEW kept \in BOOLEAN, NEW whole \in BOOLEAN, Sound(p), Focused(p, kept, whole)
    PROVE  Focused(detach_player(p)[1], kept, whole)
<1>. DEFINE q == [p EXCEPT !.dialogue = "none", !.page = 0, !.online = FALSE,
                           !.bridge = "none", !.boss = "none", !.key_item = FALSE]
            r == [q EXCEPT !.step = Rewound(q)]
<1>0. p \in Player /\ Chain(p)
  BY Bounds
<1>1. /\ q \in Player /\ q.dialogue = "none" /\ q.bridge = "none"
      /\ \A f \in Fields : q[f] = p[f]
  BY <1>0 DEF Player, Phase, Fields
<1>2. Chain(q)
  BY <1>0 DEF Player, Chain
<1>3. detach_player(p)[1] = mark(_normalize_story_state(q))
  BY DEF detach_player
<1>. HIDE DEF q
<1>4. _normalize_story_state(q) = r /\ Rewound(q) \in Nat
  BY <1>1, <1>2, NormalPlayer
<1>5. r \in Player /\ r.dialogue = "none" /\ r.bridge = "none" /\ \A f \in AimFields : r[f] = p[f]
  BY <1>1, <1>4 DEF Player, AimFields, Fields
<1>. HIDE DEF r
<1>6. Aiming(r, kept, whole)
  BY <1>5, AimedSame DEF Aiming, Focused, Crossing
<1>. QED  BY <1>3, <1>4, <1>6, Closed

-----------------------------------------------------------------------------

\* A new player has nothing to lose sight of.
LEMMA InitFocused ==
    ASSUME Init
    PROVE  Focused(s, ~replaced, ~torn) /\ replaced \in BOOLEAN /\ torn \in BOOLEAN
<1>1. New \in Record
  BY DEF New, NONE, Record, Quest, Progress
<1>2. Chain(New)
  BY DEF New, NONE, Chain, BEYOND_ROAD, GORVAK, RETURN_NERISSA
<1>3. Aimed(New, TRUE, TRUE)
  BY DEF New, NONE, Aimed, Has, BLACKWATER, LIVING_MUD
<1>. HIDE DEF New
<1>. QED  BY <1>1, <1>2, <1>3, LoadedFocused DEF Init

\* Every step keeps the player's aim, and what is open due.
LEMMA StepFocused ==
    ASSUME Sound(s), Focused(s, ~replaced, ~torn), replaced \in BOOLEAN, torn \in BOOLEAN, [Next]_vars
    PROVE  Focused(s', ~replaced', ~torn') /\ replaced' \in BOOLEAN /\ torn' \in BOOLEAN
<1>. DEFINE kept == ~replaced
            whole == ~torn
<1>0. /\ s \in Player /\ Chain(s) /\ Staged(s) /\ s.stage \in Nat
      /\ kept \in BOOLEAN /\ whole \in BOOLEAN /\ Focused(s, kept, whole)
  BY Bounds
<1>. DEFINE Ends == Focused(s', ~replaced', ~torn') /\ replaced' \in BOOLEAN /\ torn' \in BOOLEAN
<1>. SUFFICES Ends
  OBVIOUS
<1>1. ASSUME NEW h, NEW less \in BOOLEAN, less => kept, Focused(s, less, whole), Fine(h, s),
             Aims(h, less, whole), Do(h), replaced' = ~less
      PROVE  Ends
  <2>1. Focused(s', less, ~torn')
    BY <1>1, DoFocused
  <2>2. torn' \in BOOLEAN
    BY <1>1 DEF Do
  <2>. QED  BY <1>1, <2>1, <2>2
<1>2. ASSUME Focused(s', kept, whole), UNCHANGED <<replaced, torn>>
      PROVE  Ends
  BY <1>2
<1>3. ASSUME NEW h, Fine(h, s), Aims(h, kept, whole), Do(h), Kept
      PROVE  Ends
  <2>1. replaced' = ~kept
    BY <1>3 DEF Kept
  <2>. HIDE DEF kept, whole, Ends
  <2>. QED  BY <1>0, <1>1, <1>3, <2>1
<1>. HIDE DEF Ends, kept, whole
<1>4. CASE UNCHANGED vars
  <2>1. s' = s /\ UNCHANGED <<replaced, torn>>
    BY <1>4 DEF vars
  <2>. QED  BY <1>0, <1>2, <2>1
<1>5. CASE Interact
  <2>1. PICK c \in DOMAIN ScenesOf :
          s.dialogue = "none" /\ Reachable(s, c) /\ Do(interact(s, c)) /\ Kept
    BY <1>5 DEF Interact
  <2>2. Fine(interact(s, c), s) /\ Aims(interact(s, c), kept, whole)
    BY <1>0, <2>1, InteractFine, InteractAims
  <2>. QED  BY <1>3, <2>1, <2>2
<1>6. CASE Acknowledge
  <2>1. PICK accept \in BOOLEAN :
          /\ s.dialogue # "none" /\ Do(advance_dialogue(s, accept))
          /\ replaced' = (replaced \/ (s.dialogue = "DANIEL_OFFER" /\ s.page >= LastPage
                                       /\ accept /\ s.offer = "road" /\ ~_can_offer_quest(s)))
    BY <1>6 DEF Acknowledge
  <2>. DEFINE less == ~replaced'
  <2>2. less \in BOOLEAN /\ (less => kept) /\ replaced' = ~less
    BY <2>1 DEF kept
  <2>3. s.dialogue = "DANIEL_OFFER" /\ s.page >= LastPage /\ accept /\ s.offer = "road"
          => (less => _can_offer_quest(s))
    BY <2>1
  <2>. HIDE DEF less
  <2>4. Focused(s, less, whole)
    BY <1>0, <2>2, FocusedWeaker
  <2>5. Fine(advance_dialogue(s, accept), s) /\ Aims(advance_dialogue(s, accept), less, whole)
    BY <1>0, <2>1, <2>2, <2>3, <2>4, AdvanceFine, AdvanceAims
  <2>. QED  BY <1>1, <2>1, <2>2, <2>4, <2>5
<1>7. CASE Kill
  <2>1. PICK k \in {"beaver", "snake", "slime"} : Do(Killed(s, k)) /\ Kept
    BY <1>7 DEF Kill
  <2>2. Fine(Killed(s, k), s) /\ Aims(Killed(s, k), kept, whole)
    BY <1>0, KilledFine, KilledAims
  <2>. QED  BY <1>3, <2>1, <2>2
<1>8. CASE CollectSticks
  <2>. DEFINE q == [s EXCEPT !.sticks = TRUE]
  <2>1. q \in Player /\ q.stage = s.stage
    BY <1>0 DEF Player
  <2>2. Chain(q) /\ Staged(q)
    BY <1>0 DEF Player, Chain, Staged
  <2>3. Do(<<mark(q)>>) /\ Kept
    BY <1>8 DEF CollectSticks
  <2>4. mark(q) \in Player /\ Focused(mark(q), kept, whole)
    BY <1>0, SticksAim
  <2>. HIDE DEF q
  <2>5. Fine(<<mark(q)>>, s) /\ Aims(<<mark(q)>>, kept, whole)
    BY <1>0, <2>1, <2>2, <2>4, MarkedFine, OneAim
  <2>. QED  BY <1>3, <2>3, <2>5
<1>9. CASE CollectKey
  <2>. DEFINE q == [s EXCEPT !.key = TRUE, !.key_item = FALSE]
  <2>1. /\ q \in Player /\ q.stage = s.stage /\ q.dialogue = s.dialogue /\ q.bridge = s.bridge
        /\ q.key /\ q.gorvak = s.gorvak /\ q.step = s.step
        /\ \A f \in Fields \ {"step", "progress", "key", "gorvak"} : q[f] = s[f]
    BY <1>0 DEF Player, Fields
  <2>2. Chain(q) /\ Staged(q)
    BY <1>0, <1>9 DEF CollectKey, Player, Chain, Staged
  <2>3. Do(<<mark(q)>>) /\ Kept
    BY <1>9 DEF CollectKey
  <2>. HIDE DEF q
  <2>4. Fine(<<mark(q)>>, s)
    BY <1>0, <2>1, <2>2, MarkedFine
  <2>5. Aims(<<mark(q)>>, kept, whole)
    BY <1>0, <2>1, PhaseAims
  <2>. QED  BY <1>3, <2>3, <2>4, <2>5
<1>10. CASE KeyDecays
  <2>1. s' = [s EXCEPT !.key_item = FALSE] /\ UNCHANGED <<replaced, torn>>
    BY <1>10 DEF KeyDecays
  <2>2. /\ s' \in Player /\ s'.saved = s.saved /\ s'.bridge = s.bridge /\ s'.dialogue = s.dialogue
        /\ \A f \in Fields : s'[f] = s[f]
    BY <1>0, <2>1 DEF Player, Fields
  <2>3. Focused(s', kept, whole)
    BY <1>0, <2>2, StillFocused
  <2>. QED  BY <1>2, <2>1, <2>3
<1>11. CASE Tick
  <2>. DEFINE k == _ensure_warden_key_spawned(s)
              b == IF k.bridge = "ended" THEN "none" ELSE k.bridge
              o == IF k.boss = "ended" THEN "none" ELSE k.boss
  <2>1. /\ k \in Player /\ k.saved = s.saved /\ k.dialogue = s.dialogue /\ k.bridge = s.bridge
        /\ \A f \in Fields : k[f] = s[f]
    BY <1>0, KeyOnly
  <2>2. s' = [k EXCEPT !.bridge = b, !.boss = o] /\ UNCHANGED <<replaced, torn>>
    BY <1>11, <2>1 DEF Tick, Player
  <2>3. b \in Phase /\ b \in {s.bridge, "none"} /\ o \in Phase
    BY <2>1 DEF Player, Phase
  <2>. HIDE DEF k, b, o
  <2>4. /\ s' \in Player /\ s'.saved = s.saved /\ s'.bridge = b /\ s'.dialogue = s.dialogue
        /\ \A f \in Fields : s'[f] = s[f]
    BY <2>1, <2>2, <2>3 DEF Player, Fields
  <2>5. Focused(s', kept, whole)
    BY <1>0, <2>3, <2>4, StillFocused
  <2>. QED  BY <1>2, <2>2, <2>5
<1>12. CASE Bridge
  <2>. DEFINE q(phase) == [s EXCEPT !.bridge = phase]
  <2>1. ASSUME NEW phase \in {"ended", "none"}
        PROVE  Fine(<<mark(q(phase))>>, s) /\ Aims(<<mark(q(phase))>>, kept, whole)
    <3>1. /\ q(phase) \in Player /\ q(phase).stage >= s.stage
          /\ q(phase).dialogue = s.dialogue /\ q(phase).bridge = phase
          /\ \A f \in Fields : q(phase)[f] = s[f]
      BY <1>0 DEF Player, Phase, Fields
    <3>2. Chain(q(phase)) /\ Staged(q(phase))
      BY <1>0 DEF Player, Chain, Staged
    <3>. HIDE DEF q
    <3>3. Fine(<<mark(q(phase))>>, s)
      BY <1>0, <3>1, <3>2, MarkedFine
    <3>4. Aims(<<mark(q(phase))>>, kept, whole)
      BY <1>0, <3>1, PhaseAims DEF Fields
    <3>. QED  BY <3>3, <3>4
  <2>2. CASE s.bridge = "escorting" /\ Do(_bridge_repair_started(s)) /\ Kept
    <3>. DEFINE begun == [s EXCEPT !.bridge = "active", !.step = 1, !.progress = 0]
    <3>1. /\ begun \in Player /\ begun.dialogue = s.dialogue /\ begun.bridge = "active"
          /\ begun.key = s.key /\ begun.gorvak = s.gorvak
          /\ \A f \in Fields \ {"step", "progress", "key", "gorvak"} : begun[f] = s[f]
      BY <1>0 DEF Player, Phase, Fields
    <3>2. s.quest # "mud"
      BY <1>0, <2>2 DEF Focused, Crossing, Chain
    <3>3. _bridge_repair_started(s) = <<mark(begun)>>
      BY DEF _bridge_repair_started
    <3>. HIDE DEF begun
    <3>4. Aims(<<mark(begun)>>, kept, whole)
      BY <1>0, <2>2, <3>1, <3>2, PhaseAims
    <3>5. Fine(<<mark(begun)>>, s)
      BY <2>2, <3>3, RepairBegun
    <3>. QED  BY <1>3, <2>2, <3>3, <3>4, <3>5
  <2>3. CASE s.bridge = "active" /\ Do(_bridge_repair_progress(s)) /\ Kept
    <3>. DEFINE n == Min({s.progress + 1, QuestTarget["bridge"] - 1})
                more == [s EXCEPT !.progress = n]
    <3>1. n \in Nat
      <4>1. s.progress + 1 \in Nat /\ QuestTarget["bridge"] - 1 \in Nat
        BY <1>0, TargetsPositive DEF Player
      <4>. QED  BY <4>1, MinOfTwo
    <3>2. _bridge_repair_progress(s) = <<mark(more)>>
      BY DEF _bridge_repair_progress
    <3>. HIDE DEF n
    <3>3. /\ more \in Player /\ more.dialogue = s.dialogue /\ more.bridge = s.bridge
          /\ \A f \in Fields \ {"progress"} : more[f] = s[f]
      BY <1>0, <3>1 DEF Player, Fields
    <3>. HIDE DEF more
    <3>4. Aims(<<mark(more)>>, kept, whole)
      BY <1>0, <3>3, PhaseAims DEF Fields
    <3>5. Fine(<<mark(more)>>, s)
      BY <3>2, RepairProgress
    <3>. QED  BY <1>3, <2>3, <3>2, <3>4, <3>5
  <2>4. CASE s.bridge = "active" /\ Do(_bridge_repair_success(s)) /\ Kept
    BY <1>0, <1>3, <2>4, RepairDone, RepairDoneAims
  <2>5. CASE Do(<<mark(q("ended"))>>) /\ Kept
    <3>. HIDE DEF q
    <3>. QED  BY <1>3, <2>1, <2>5
  <2>6. CASE Do(<<mark(q("none"))>>) /\ Kept
    <3>. HIDE DEF q
    <3>. QED  BY <1>3, <2>1, <2>6
  <2>. QED  BY <1>12, <2>2, <2>3, <2>4, <2>5, <2>6 DEF Bridge
<1>13. CASE Boss
  <2>1. CASE s.stage = GORVAK /\ Do(<<[s EXCEPT !.boss = "active"]>>) /\ Kept
    <3>. DEFINE q == [s EXCEPT !.boss = "active"]
    <3>1. /\ q \in Player /\ q.saved = s.saved /\ q.bridge = s.bridge /\ q.dialogue = s.dialogue
          /\ \A f \in Fields : q[f] = s[f]
      BY <1>0 DEF Player, Phase, Fields
    <3>2. Chain(q) /\ Staged(q)
      BY <1>0, <2>1 DEF Player, Chain, Staged, GORVAK
    <3>3. Do(<<q>>)
      BY <2>1
    <3>. HIDE DEF q
    <3>4. Sound(q) /\ q.stage >= s.stage
      BY <3>1, <3>2, StillSound DEF Ready
    <3>5. Aims(<<q>>, kept, whole)
      BY <1>0, <3>1, StillFocused, OneAim
    <3>6. Fine(<<q>>, s)
      BY <3>4, OneState
    <3>. QED  BY <1>3, <2>1, <3>3, <3>5, <3>6
  <2>2. CASE s.boss = "active" /\ Do(_gorvak_encounter_success(s)) /\ Kept
    <3>. DEFINE won == [s EXCEPT !.gorvak = TRUE, !.step = 3, !.boss = "ended"]
    <3>1. /\ won \in Player /\ won.dialogue = s.dialogue /\ won.bridge = s.bridge
          /\ won.key = s.key /\ won.gorvak
          /\ \A f \in Fields \ {"step", "progress", "key", "gorvak"} : won[f] = s[f]
      BY <1>0 DEF Player, Phase, Fields
    <3>2. s.quest # "mud"
      BY <1>0, <2>2 DEF Staged, Focused, Aimed, GORVAK, LIVING_MUD
    <3>3. _gorvak_encounter_success(s) = <<mark(won)>>
      BY DEF _gorvak_encounter_success
    <3>. HIDE DEF won
    <3>4. Aims(<<mark(won)>>, kept, whole)
      BY <1>0, <3>1, <3>2, PhaseAims
    <3>5. Fine(<<mark(won)>>, s)
      BY <2>2, <3>3, GorvakBeaten
    <3>. QED  BY <1>3, <2>2, <3>3, <3>4, <3>5
  <2>. QED  BY <1>13, <2>1, <2>2 DEF Boss
<1>14. CASE Die
  <2>1. s' = handle_player_death(s)[1] /\ UNCHANGED <<replaced, torn>>
    BY <1>14 DEF Die
  <2>. QED  BY <1>0, <1>2, <2>1, DeathFocused
<1>15. CASE Leave
  <2>1. s' = detach_player(s)[1] /\ UNCHANGED <<replaced, torn>>
    BY <1>15 DEF Leave
  <2>. QED  BY <1>0, <1>2, <2>1, DetachFocused
<1>16. CASE Return
  <2>1. s' = [s EXCEPT !.online = TRUE] /\ UNCHANGED <<replaced, torn>>
    BY <1>16 DEF Return
  <2>2. /\ s' \in Player /\ s'.saved = s.saved /\ s'.bridge = s.bridge /\ s'.dialogue = s.dialogue
        /\ \A f \in Fields : s'[f] = s[f]
    BY <1>0, <2>1 DEF Player, Fields
  <2>3. Focused(s', kept, whole)
    BY <1>0, <2>2, StillFocused
  <2>. QED  BY <1>2, <2>1, <2>3
<1>17. CASE Crash
  <2>1. s' = [Loaded(s.saved) EXCEPT !.online = FALSE] /\ UNCHANGED <<replaced, torn>>
    BY <1>17 DEF Crash
  <2>2. s.saved \in Record /\ Chain(s.saved) /\ Aimed(s.saved, kept, whole)
    BY <1>0 DEF Sound, Player, Focused
  <2>3. Focused(s', kept, whole)
    BY <2>1, <2>2, LoadedFocused
  <2>. QED  BY <1>2, <2>1, <2>3
<1>. QED
  BY <1>4, <1>5, <1>6, <1>7, <1>8, <1>9, <1>10, <1>11, <1>12, <1>13, <1>14, <1>15, <1>16, <1>17
  DEF Next

\* In every state, and in what is saved of it, the quest fits the stage and the scene
\* that is open is due; a stage that needs a quest has it, unless it was replaced.
THEOREM AlwaysFocused == Spec => []Focused(s, ~replaced, ~torn)
<1>. DEFINE I == Focused(s, ~replaced, ~torn) /\ replaced \in BOOLEAN /\ torn \in BOOLEAN
<1>1. Init => I
  BY InitFocused
<1>2. Sound(s) /\ I /\ [Next]_vars => I'
  BY StepFocused
<1>3. I => Focused(s, ~replaced, ~torn)
  OBVIOUS
<1>. HIDE DEF I
<1>. QED  BY <1>1, <1>2, <1>3, AlwaysSound, PTL DEF Spec

\* Nobody is left without a way on: the quest that ends the stage he is at is his and can
\* be finished, but for an offer accepted over it, or a server that died between the save
\* of the last sample and that of the quest (_grant_living_mud_sample).
THEOREM WayOn == Spec => []ObjectiveHeld
<1>1. Focused(s, ~replaced, ~torn) => ObjectiveHeld
  BY DEF Focused, Aimed, ObjectiveHeld, Has
<1>. QED  BY <1>1, AlwaysFocused, PTL

\* A confirmation is never stale: what a scene is about holds on each of its pages, through
\* kills, deaths, the repair of the bridge and reconnections (advance_dialogue asks nothing).
THEOREM NeverStale == Spec => []SceneStillDue
<1>1. Focused(s, ~replaced, ~torn) => SceneStillDue
  BY DEF Focused, StillDue, Idle, SceneStillDue
<1>. QED  BY <1>1, AlwaysFocused, PTL
==============================================================================
