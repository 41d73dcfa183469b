-------------------------------- MODULE MCBots --------------------------------
(* Small instances of Bots for TLC.                                         *)
EXTENDS Bots

MCSpawn == [m \in Maps |-> IF m = Overworld THEN <<0, 0>> ELSE <<1, 0>>]
MCChanging == {<<1, 0>>}
Allow(some) == [b \in Bounds |-> IF b \in DOMAIN some THEN some[b] ELSE 0]
BotBudgets ==
    {Allow([transfer |-> 1, reconnect |-> 1, timer |-> 1]),
     Allow([move |-> 2, timer |-> 1]),
     Allow([transfer |-> 2, timer |-> 1]),
     Allow([transfer |-> 1, reconnect |-> 2]),
     Allow([kill |-> 1, reconnect |-> 1]),
     Allow([move |-> 1, retell |-> 1, timer |-> 1]),
     Allow([move |-> 1, transfer |-> 1, timer |-> 1]),
     Allow([transfer |-> 1, world |-> 1]),
     Allow([move |-> 1, reconnect |-> 1, world |-> 1])}
=============================================================================
