-------------------------------- MODULE Story --------------------------------
(***************************************************************************)
(* The story of one player: quests, paged scenes, milestones and rewards   *)
(* (src/server/game.py, quests.py, story.py, items.py), through deaths,    *)
(* reconnections and crashes of the server.                                *)
(*                                                                         *)
(* A handler saves the player several times.  It is an operator that       *)
(* returns the states right after each of its saves, the last being where  *)
(* it ends, so that a crash may leave any of them in sessions.json.        *)
(*                                                                         *)
(* Gold stands for gold and experience.  The phases of an encounter are    *)
(* here; how it is played is in Encounters.  The legacy farmer and goblin, *)
(* whom no map places, and the wording are left out.  Eight slots hold the *)
(* seven kinds of item, so the inventory is never full.                    *)
(***************************************************************************)
EXTENDS Naturals, Sequences, FiniteSetsExt

CONSTANTS
    QuestTarget,    \* QUEST_TARGETS: how much of it completes each quest
    SampleTarget,   \* LIVING_MUD_OIL_TARGET and LIVING_MUD_RUST_TARGET
    LastPage,       \* pages of a scene
    MaxPaid,        \* bound: how often a reward is counted
    MaxLeaves, MaxDeaths, MaxCrashes    \* bounds on interruptions

ASSUME StoryAssumption ==
    /\ QuestTarget \in [{"road", "bridge", "blackwater", "mud"} -> Nat \ {0}]
    /\ LastPage \in Nat \ {0} /\ SampleTarget \in Nat \ {0} /\ MaxPaid \in Nat \ {0}

NONE == 0   WELCOME == 1   ROAD_TROUBLE == 2   BRIDGE == 3   BEYOND_ROAD == 4
BLACKWATER == 5   LIVING_MUD == 6   GOBLIN_WARNED == 7   WARDEN_KEY == 8
GORVAK == 9   RETURN_NERISSA == 10   COMPLETE == 11

Rewards == {"road", "bridge", "blackwater", "mud", "saved"}

VARIABLES
    s,              \* PlayerState, its encounters, and what is saved of it
    interrupted,    \* how often the player left, died, the server crashed
    replaced,       \* an offer was accepted over an active quest (history)
    torn            \* the server crashed inside a handler (history)

vars == <<s, interrupted, replaced, torn>>

-----------------------------------------------------------------------------
(* The record of a player, and the part of it that serialize_player_state  *)
(* writes.                                                                 *)

New == [stage |-> NONE, step |-> 0, quest |-> "none", qstate |-> "not_started",
        progress |-> 0, offer |-> "none", sticks |-> FALSE, oil |-> 0, rust |-> 0,
        staged |-> FALSE, repaired |-> FALSE, key |-> FALSE, gorvak |-> FALSE,
        pump |-> FALSE, pvp |-> FALSE, paid |-> [r \in Rewards |-> 0]]

Transient == [online |-> TRUE, dialogue |-> "none", page |-> 0,
              bridge |-> "none", boss |-> "none", key_item |-> FALSE]

serialize_player_state(p) == [f \in DOMAIN New |-> p[f]]
mark(p) == [p EXCEPT !.saved = serialize_player_state(p)]

Cleared(p) == [p EXCEPT !.quest = "none", !.qstate = "not_started", !.progress = 0]

deserialize_player_state(p) ==
    IF p.stage > LIVING_MUD /\ p.quest = "mud" THEN Cleared(p) ELSE p

_normalize_story_state(p) ==
    LET pump == p.pump \/ p.pvp
        gorvak == p.gorvak \/ pump
        key == p.key \/ pump
        stage == Max({p.stage, IF key THEN WARDEN_KEY ELSE 0,
                      IF gorvak THEN GORVAK ELSE 0,
                      IF pump THEN RETURN_NERISSA ELSE 0,
                      IF p.pvp THEN COMPLETE ELSE 0})
        rewound == (stage = BRIDGE /\ ~p.repaired) \/ (stage = GORVAK /\ ~gorvak)
    IN  [p EXCEPT !.pump = pump, !.gorvak = gorvak, !.key = key, !.stage = stage,
                  !.step = IF rewound THEN 0 ELSE @]

_normalize_restored_player(p) ==
    _normalize_story_state(IF p.quest = "none" THEN Cleared(p) ELSE p)

_restore_player_from_record(record) ==
    _normalize_restored_player(deserialize_player_state(record))

Loaded(record) ==
    [f \in DOMAIN New \cup DOMAIN Transient \cup {"saved"} |->
       IF f = "saved" THEN record
       ELSE IF f \in DOMAIN New THEN _restore_player_from_record(record)[f]
       ELSE Transient[f]]

award_gold(p, r) == mark([p EXCEPT !.paid[r] = IF @ < MaxPaid THEN @ + 1 ELSE @])

-----------------------------------------------------------------------------
(* Scenes.                                                                 *)

\* Faulty: a quest that waits to be turned in counts as done.
CanOfferUnlessActive(p) == p.qstate # "active"
_can_offer_quest(p) == p.quest = "none" \/ p.qstate = "complete"
Has(p, q, state) == p.quest = q /\ p.qstate = state
Running(p) == p.bridge \in {"escorting", "active", "returning"}

\* When a character opens scene d.
_interact_nerissa(d, p) ==
    CASE d = "NERISSA_INTRO" -> p.stage = NONE /\ ~p.repaired
      [] d = "NERISSA_POST_BRIDGE" -> p.repaired /\ p.stage <= BRIDGE
      [] d = "NERISSA_SAMPLES" ->
           /\ Has(p, "mud", "ready") /\ p.step = 1
           /\ p.stage > WELCOME /\ (p.stage > ROAD_TROUBLE \/ p.repaired)
           /\ ~(p.repaired /\ p.stage <= BRIDGE)
      [] d = "NERISSA_ENDING" ->
           p.stage >= RETURN_NERISSA /\ ~(Has(p, "mud", "ready") /\ p.step = 1)

_interact_daniel(d, p) ==
    CASE d = "DANIEL_OFFER" -> p.quest # "road" /\ (p.offer = "road" \/ _can_offer_quest(p))
      [] d = "DANIEL_COMPLETE" -> Has(p, "road", "ready")

_interact_wilhelm(d, p) ==
    /\ ~Running(p)
    /\ CASE d = "WILHELM_COMPLETE" -> Has(p, "bridge", "ready")
         [] d = "WILHELM_BRIDGE_START" ->
              ~p.repaired /\ ~p.staged /\ p.sticks /\ Has(p, "road", "complete")
         [] d = "WILHELM_INTRO" ->
              /\ ~p.repaired /\ ~p.staged /\ ~p.sticks
              /\ ~Has(p, "road", "active") /\ ~Has(p, "bridge", "ready")

_interact_lucian(d, p) ==
    CASE d = "LUCIAN_SAMPLES_REDIRECT" -> Has(p, "mud", "ready") /\ p.step = 0
      [] d = "LUCIAN_LIVING_MUD_OFFER" -> Has(p, "blackwater", "ready")
      [] d = "LUCIAN_BLACKWATER_OFFER" ->
           /\ p.stage < BLACKWATER
           /\ \A q \in {"mud", "blackwater"} : ~Has(p, q, "ready") /\ ~Has(p, q, "active")

_interact_grix(d, p) ==
    CASE d = "GRIX_EXPLAIN" -> p.stage = GOBLIN_WARNED
      [] d = "GRIX_COMPLETE" -> p.stage = WARDEN_KEY /\ p.key

_interact_deep_pump_controls(d, p) == ~p.pump /\ p.gorvak /\ p.key

ScenesOf ==
    [nerissa |-> {"NERISSA_INTRO", "NERISSA_POST_BRIDGE", "NERISSA_SAMPLES", "NERISSA_ENDING"},
     daniel |-> {"DANIEL_OFFER", "DANIEL_COMPLETE"},
     wilhelm |-> {"WILHELM_COMPLETE", "WILHELM_BRIDGE_START", "WILHELM_INTRO"},
     lucian |-> {"LUCIAN_SAMPLES_REDIRECT", "LUCIAN_LIVING_MUD_OFFER", "LUCIAN_BLACKWATER_OFFER"},
     grix |-> {"GRIX_EXPLAIN", "GRIX_COMPLETE"},
     pump |-> {"PUMP_SHUTDOWN"}]
Scenes == UNION {ScenesOf[c] : c \in DOMAIN ScenesOf}

Due(d, p) ==
    CASE d \in ScenesOf.nerissa -> _interact_nerissa(d, p)
      [] d \in ScenesOf.daniel -> _interact_daniel(d, p)
      [] d \in ScenesOf.wilhelm -> _interact_wilhelm(d, p)
      [] d \in ScenesOf.lucian -> _interact_lucian(d, p)
      [] d \in ScenesOf.grix -> _interact_grix(d, p)
      [] d \in ScenesOf.pump -> _interact_deep_pump_controls(d, p)

open_dialogue(p, d) ==
    IF p.dialogue # "none" THEN p ELSE [p EXCEPT !.dialogue = d, !.page = 1]

\* Everything east of the bridge is behind it (OVERWORLD_BRIDGE_CELLS).
Reachable(p, c) == c \in {"lucian", "grix", "pump"} => p.repaired

\* Faulty: sets the stage of the quest just ended.
RaisedTo(p, stage) == [p EXCEPT !.stage = stage, !.step = 0]
Raised(p, stage) == [p EXCEPT !.stage = Max({@, stage}), !.step = 0]
Started(p, q) == [p EXCEPT !.quest = q, !.qstate = "active", !.progress = 0]

accept_pending_quest_offer(p) == mark(Started([p EXCEPT !.offer = "none"], p.offer))

_start_bridge_repair_for_player(p) ==
    IF Running(p) THEN p ELSE mark(Raised([p EXCEPT !.bridge = "escorting"], BRIDGE))

_commit_wilhelm_bridge_start(p) ==
    IF p.repaired \/ (~p.staged /\ ~p.sticks) THEN <<p>>
    ELSE IF p.staged THEN <<_start_bridge_repair_for_player(p)>>
    ELSE LET gave == mark(Started([p EXCEPT !.sticks = FALSE, !.staged = TRUE], "bridge"))
         IN  <<gave, _start_bridge_repair_for_player(gave)>>

_complete_save_my_orchard(p) ==
    <<award_gold(Raised([p EXCEPT !.qstate = "complete"], ROAD_TROUBLE), "road")>>
_complete_repair_the_bridge(p) == <<award_gold([p EXCEPT !.qstate = "complete"], "bridge")>>
_start_blackwater_bite(p) == <<mark(Raised(Started(p, "blackwater"), BLACKWATER))>>
_complete_blackwater_and_start_living_mud(p) ==
    LET paid == award_gold(p, "blackwater")
    IN  <<paid, mark(Raised(Started(paid, "mud"), LIVING_MUD))>>
_complete_living_mud(p) ==
    LET paid == award_gold([p EXCEPT !.oil = 0, !.rust = 0], "mud")
    IN  <<paid, mark(Cleared(Raised(paid, GOBLIN_WARNED)))>>
spawn_warden_key(p) == [p EXCEPT !.key_item = TRUE]
_ensure_warden_key_spawned(p) == IF p.key \/ p.stage # WARDEN_KEY THEN p ELSE spawn_warden_key(p)
_complete_deep_pump_shutdown(p) ==
    <<mark(Raised([p EXCEPT !.pump = TRUE], RETURN_NERISSA))>>
\* Faulty: pays whenever the ending is read.
SavedAgain(p) == <<award_gold(Raised([p EXCEPT !.pvp = TRUE], COMPLETE), "saved")>>
_complete_willowcross_saved(p) ==
    IF p.pvp THEN <<p>>
    ELSE <<award_gold(Raised([p EXCEPT !.pvp = TRUE], COMPLETE), "saved")>>

\* What the last page of scene d does when it is accepted.
Confirmed(d, p) ==
    CASE d = "DANIEL_OFFER" -> IF p.offer = "road" THEN <<accept_pending_quest_offer(p)>> ELSE <<p>>
      [] d = "NERISSA_INTRO" -> <<mark(Raised(p, WELCOME))>>
      [] d = "NERISSA_POST_BRIDGE" -> <<mark(Raised(p, BEYOND_ROAD))>>
      [] d = "WILHELM_BRIDGE_START" -> _commit_wilhelm_bridge_start(p)
      [] d = "DANIEL_COMPLETE" -> _complete_save_my_orchard(p)
      [] d = "WILHELM_COMPLETE" -> _complete_repair_the_bridge(p)
      [] d = "LUCIAN_BLACKWATER_OFFER" -> _start_blackwater_bite(p)
      [] d = "LUCIAN_LIVING_MUD_OFFER" -> _complete_blackwater_and_start_living_mud(p)
      [] d = "LUCIAN_SAMPLES_REDIRECT" -> <<mark([p EXCEPT !.step = 1])>>
      [] d = "NERISSA_SAMPLES" -> _complete_living_mud(p)
      [] d = "GRIX_EXPLAIN" -> <<mark(_ensure_warden_key_spawned(Raised(p, WARDEN_KEY)))>>
      [] d = "GRIX_COMPLETE" -> <<mark(Raised(p, GORVAK))>>
      [] d = "PUMP_SHUTDOWN" -> _complete_deep_pump_shutdown(p)
      [] d = "NERISSA_ENDING" -> _complete_willowcross_saved(p)
      [] d = "WILHELM_INTRO" -> <<p>>

\* Faulty: a scene that is accepted stays open.
CloseUnlessAccepted(p, accept) ==
    IF accept THEN Confirmed(p.dialogue, p) ELSE <<[p EXCEPT !.dialogue = "none", !.page = 0]>>

_close_dialogue(p, accept) ==
    LET closed == [p EXCEPT !.dialogue = "none", !.page = 0]
    IN  IF accept THEN Confirmed(p.dialogue, closed) ELSE <<closed>>

advance_dialogue(p, accept) ==
    IF p.page < LastPage THEN <<[p EXCEPT !.page = @ + 1]>> ELSE _close_dialogue(p, accept)

\* A press next to character c, no scene being open.
interact(p, c) ==
    LET offered == c = "daniel" /\ Due("DANIEL_OFFER", p) /\ p.offer # "road"
        q == IF offered THEN mark([p EXCEPT !.offer = "road"]) ELSE p
        due == {d \in ScenesOf[c] : Due(d, p)}
        retry == /\ c = "wilhelm" /\ p.staged /\ ~p.repaired
                 /\ ~Running(p) /\ ~Has(p, "bridge", "ready")
    IN  IF retry THEN <<_start_bridge_repair_for_player(p)>>
        ELSE IF due = {} THEN <<p>>
        ELSE <<open_dialogue(q, CHOOSE d \in due : TRUE)>>

-----------------------------------------------------------------------------
(* Kills, items and encounters.                                            *)

Advance(p) ==
    LET n == Min({p.progress + 1, QuestTarget[p.quest]})
    IN  mark([p EXCEPT !.progress = n,
                       !.qstate = IF n = QuestTarget[p.quest] THEN "ready" ELSE @])

_guarantee_road_trouble_sticks(p) ==
    IF Has(p, "road", "active") /\ p.progress + 1 >= QuestTarget["road"]
    THEN mark([p EXCEPT !.sticks = TRUE]) ELSE p

_advance_road_trouble_progress(p) ==
    LET q == _guarantee_road_trouble_sticks(p)
    IN  IF Has(q, "road", "active") THEN <<q, Advance(q)>> ELSE <<q>>

_advance_blackwater_progress(p) ==
    <<IF Has(p, "blackwater", "active") THEN Advance(p) ELSE p>>

Needs(n) == SampleTarget - n
\* Of what he has less.
grant_personal_sample(p) ==
    mark(IF Needs(p.oil) >= Needs(p.rust) THEN [p EXCEPT !.oil = @ + 1] ELSE [p EXCEPT !.rust = @ + 1])

_grant_living_mud_sample(p) ==
    LET none == Needs(p.oil) <= 0 /\ Needs(p.rust) <= 0
        g == grant_personal_sample(p)
        all == g.oil >= SampleTarget /\ g.rust >= SampleTarget
    IN  IF ~Has(p, "mud", "active") \/ none THEN <<p>>
        ELSE <<g, mark([g EXCEPT !.progress = Min({QuestTarget["mud"], g.oil + g.rust}),
                                       !.qstate = IF all THEN "ready" ELSE @])>>

Killed(p, species) ==
    CASE species = "beaver" -> _advance_road_trouble_progress(p)
      [] species = "snake" -> _advance_blackwater_progress(p)
      [] species = "slime" -> _grant_living_mud_sample(p)

_bridge_repair_started(p) ==
    <<mark([p EXCEPT !.bridge = "active", !.step = 1, !.progress = 0])>>
\* At each quarter of the repair.
_bridge_repair_progress(p) ==
    <<mark([p EXCEPT !.progress = Min({@ + 1, QuestTarget["bridge"] - 1})])>>
_bridge_repair_success(p) ==
    LET open == mark([p EXCEPT !.repaired = TRUE])
        told == [open EXCEPT !.stage = Max({@, BRIDGE}), !.step = 1, !.bridge = "returning"]
    IN  <<open, mark(IF told.quest = "bridge"
                     THEN [told EXCEPT !.qstate = "ready", !.progress = QuestTarget["bridge"]]
                     ELSE told)>>
\* Faulty: the victory is saved with the next milestone.
SucceedUnsaved(p) == <<[p EXCEPT !.gorvak = TRUE, !.step = 3, !.boss = "ended"]>>
_gorvak_encounter_success(p) ==
    <<mark([p EXCEPT !.gorvak = TRUE, !.step = 3, !.boss = "ended"])>>

\* fail_scripted_encounter on whatever the player owns.
Failed(p) ==
    [p EXCEPT !.bridge = IF Running(p) THEN "ended" ELSE @,
              !.boss = IF @ = "active" THEN "ended" ELSE @]

handle_player_death(p) == <<mark(_normalize_story_state(Failed(p)))>>

detach_player(p) ==
    <<mark(_normalize_story_state([p EXCEPT !.dialogue = "none", !.page = 0, !.online = FALSE,
             !.bridge = "none", !.boss = "none", !.key_item = FALSE]))>>

-----------------------------------------------------------------------------
(* Actions.  A handler runs to its end, or the server dies after one of    *)
(* its saves and is started again.                                         *)

Do(h) ==
    \/ s' = h[Len(h)] /\ UNCHANGED <<interrupted, torn>>
    \/ /\ interrupted.crashes < MaxCrashes
       /\ \E i \in 1..Len(h) - 1 :
            /\ s' = [Loaded(h[i].saved) EXCEPT !.online = FALSE]
            /\ torn' = (torn \/ h[i].saved # s.saved)
       /\ interrupted' = [interrupted EXCEPT !.crashes = @ + 1]

Kept == UNCHANGED replaced

Interact == \E c \in DOMAIN ScenesOf :
    /\ s.online /\ s.dialogue = "none" /\ Reachable(s, c)
    /\ Do(interact(s, c)) /\ Kept

Acknowledge == \E accept \in BOOLEAN :
    /\ s.online /\ s.dialogue # "none"
    /\ Do(advance_dialogue(s, accept))
    /\ replaced' = (replaced \/ (s.dialogue = "DANIEL_OFFER" /\ s.page >= LastPage
                                 /\ accept /\ s.offer = "road" /\ ~_can_offer_quest(s)))

Kill == \E k \in {"beaver", "snake", "slime"} :
    /\ s.online /\ (k # "beaver" => s.repaired)
    /\ Do(Killed(s, k)) /\ Kept

CollectSticks == s.online /\ Do(<<mark([s EXCEPT !.sticks = TRUE])>>) /\ Kept

CollectKey ==
    /\ s.online /\ s.key_item
    /\ Do(<<mark([s EXCEPT !.key = TRUE, !.key_item = FALSE])>>) /\ Kept

KeyDecays == s.key_item /\ s' = [s EXCEPT !.key_item = FALSE] /\ UNCHANGED <<interrupted, replaced, torn>>

\* _update_grix_story_state and the last ticks of an ended encounter.
Tick ==
    /\ s.online
    /\ s' = [_ensure_warden_key_spawned(s) EXCEPT !.bridge = IF @ = "ended" THEN "none" ELSE @,
                                                  !.boss = IF @ = "ended" THEN "none" ELSE @]
    /\ UNCHANGED <<interrupted, replaced, torn>>

Bridge ==
    /\ s.online
    /\ \/ s.bridge = "escorting" /\ Do(_bridge_repair_started(s))
       \/ s.bridge = "active" /\ Do(_bridge_repair_progress(s))
       \/ s.bridge = "active" /\ Do(_bridge_repair_success(s))
       \/ s.bridge \in {"escorting", "active"} /\ Do(<<mark([s EXCEPT !.bridge = "ended"])>>)
       \/ s.bridge = "returning" /\ Do(<<mark([s EXCEPT !.bridge = "none"])>>)
    /\ Kept

Boss ==
    /\ s.online
    /\ \/ /\ s.stage = GORVAK /\ ~s.gorvak /\ s.boss = "none"
          /\ Do(<<[s EXCEPT !.boss = "active"]>>)
       \/ s.boss = "active" /\ Do(_gorvak_encounter_success(s))
    /\ Kept

Count(f, bound) == interrupted[f] < bound /\ interrupted' = [interrupted EXCEPT ![f] = @ + 1]

Die ==
    /\ s.online /\ Count("deaths", MaxDeaths)
    /\ s' = handle_player_death(s)[1] /\ UNCHANGED <<replaced, torn>>

Leave ==
    /\ s.online /\ Count("leaves", MaxLeaves)
    /\ s' = detach_player(s)[1] /\ UNCHANGED <<replaced, torn>>

Return == ~s.online /\ s' = [s EXCEPT !.online = TRUE] /\ UNCHANGED <<interrupted, replaced, torn>>

\* The server dies between two handlers.
Crash ==
    /\ Count("crashes", MaxCrashes)
    /\ s' = [Loaded(s.saved) EXCEPT !.online = FALSE] /\ UNCHANGED <<replaced, torn>>

Init ==
    /\ s = Loaded(New)
    /\ interrupted = [leaves |-> 0, deaths |-> 0, crashes |-> 0]
    /\ replaced = FALSE /\ torn = FALSE

Next ==
    \/ Interact \/ Acknowledge \/ Kill \/ CollectSticks \/ CollectKey \/ KeyDecays
    \/ Tick \/ Bridge \/ Boss \/ Die \/ Leave \/ Return \/ Crash

Spec == Init /\ [][Next]_vars

-----------------------------------------------------------------------------
(* Properties.                                                             *)

\* The stage never goes back, whatever the player does and wherever the server
\* dies: quests.py promises a durable anchor of the campaign.
StageForward == [][s'.stage >= s.stage]_vars

\* A later milestone comes after the earlier ones it needs, in play as well as
\* after a restore: what _normalize_story_state repairs never happens.
MilestonesChained ==
    /\ _normalize_story_state(s).stage = s.stage
    /\ s.pvp => s.pump
    /\ s.pump => s.gorvak
    /\ s.gorvak => s.key
    /\ s.stage >= BEYOND_ROAD => s.repaired
    /\ s.repaired => s.staged /\ s.stage >= BRIDGE
    /\ s.stage >= GORVAK => s.key

\* Nobody is left without a way on: at the stages that end with a quest, that
\* quest is still the player's and can be finished, unless he accepted an offer
\* over an active one; or, of the last sample, the server died inside a handler.
ObjectiveHeld ==
    ~replaced =>
      /\ s.stage = BLACKWATER => s.quest = "blackwater" /\ s.qstate \in {"active", "ready"}
      /\ s.stage = LIVING_MUD => s.quest = "mud" /\ s.qstate \in {"active", "ready"}
      /\ Has(s, "mud", "active") /\ ~torn => s.oil < SampleTarget \/ s.rust < SampleTarget
      /\ s.staged /\ ~s.repaired => Has(s, "bridge", "active")

\* Each reward of the story is paid with its milestone and once, unless the server
\* died inside the handler that pays it; and the milestones are chained.
MilestonesPaid ==
    /\ MilestonesChained
    /\ ~torn =>
         /\ \A r \in Rewards \ {"road"} : s.paid[r] <= 1
         /\ s.stage >= LIVING_MUD => s.paid["blackwater"] = 1
         /\ s.stage >= GOBLIN_WARNED => s.paid["mud"] = 1
         /\ s.pvp <=> s.paid["saved"] = 1

\* What a scene is about still holds on every page of it, whatever happened
\* since it was opened: a confirmation is never stale.
SceneStillDue ==
    s.dialogue \notin {"none", "DANIEL_OFFER", "WILHELM_INTRO"} => Due(s.dialogue, s)

\* A crash loses no more than a reconnection: every handler saved what it did.
NothingToLose ==
    _restore_player_from_record(s.saved) = _restore_player_from_record(serialize_player_state(s))

\* "A player may only chase one quest at a time" (_can_offer_quest): accepting
\* an offer does not take the place of a quest that is under way.
OneQuestAtATime ==
    [][s.qstate = "active" /\ s'.qstate = "active" /\ s'.offer # s.offer => s'.quest = s.quest]_vars
=============================================================================
