---------------------------- MODULE MCCacheSync -----------------------------
(* Small instances of CacheSync for TLC: the scenarios of the runs.         *)
EXTENDS CacheSync

\* Portals of the two-map instances lead to a corner of their map.
MCSpawn == [m \in Maps |-> IF m = Overworld THEN <<0, 0>> ELSE <<1, 0>>]

\* One tile of the first rows changes by itself.
MCChanging == {<<1, 0>>}

\* What some allows, and nothing else.
Allow(some) == [b \in Bounds |-> IF b \in DOMAIN some THEN some[b] ELSE 0]

\* Safety.
Walks == Allow([move |-> 2, drop |-> 1, timer |-> 2])
Portals == Allow([transfer |-> 2, drop |-> 1, timer |-> 2])
Returns == Allow([move |-> 1, transfer |-> 1, drop |-> 1, reconnect |-> 1,
                  timer |-> 1])
Deaths == Allow([move |-> 1, retell |-> 1, kill |-> 1, reconnect |-> 1,
                 timer |-> 1])
Tells == Allow([move |-> 2, retell |-> 1, timer |-> 2])
Updates == Allow([move |-> 1, transfer |-> 1, drop |-> 1, timer |-> 1, world |-> 1])
SafetyBudgets == {Walks, Portals, Returns, Deaths, Tells, Updates}

\* Liveness: the timers are patient.
LiveBudgets == {Allow([transfer |-> 1, drop |-> 2]),
                Allow([move |-> 2, drop |-> 1]),
                Allow([transfer |-> 1, world |-> 1]),
                Allow([move |-> 1, world |-> 1])}

\* Disagreements.
ResumeBudgets ==
    {Allow([transfer |-> 1, drop |-> 1, reconnect |-> 1, timer |-> 1])}
StoryBudgets == {Allow([move |-> 2, retell |-> 1, drop |-> 3, timer |-> 2])}
StepBudgets == {Walks}
=============================================================================
