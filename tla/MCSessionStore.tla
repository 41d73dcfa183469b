--------------------------- MODULE MCSessionStore ---------------------------
(* Small instances of SessionStore for TLC.                                 *)
EXTENDS SessionStore

CONSTANTS t1, t2, Ann, Player1

\* Both tokens fall back to the same name, which a player may ask for too.
MCFallback == [t \in Token |-> Player1]

\* One player whose save is of the previous generation of the game ...
OldSave ==
    [t \in {t1} |-> [username |-> Ann, online |-> TRUE,
                     state |-> [current |-> FALSE, progress |-> 0]]]
MCOldSave == {OldSave}

\* ... or no file yet.
MCStored == {OldSave, <<>>}

\* The game server may be restarted once.
MCBoots == [p \in Process |-> IF p = Game THEN 2 ELSE 1]
=============================================================================
