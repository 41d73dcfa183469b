----------------------------- MODULE MCEncounters -----------------------------
(* Small instances of Encounters for TLC.                                   *)
EXTENDS Encounters, TLC

CONSTANTS p, q, r

\* One player has the bridge or Gorvak before him, the other helps, or has the bridge
\* before him too.
Parties2 == {(p :> "bridge") @@ (q :> "none"), (p :> "gorvak") @@ (q :> "none"),
             (p :> "gorvak") @@ (q :> "bridge")}
\* Two others come and go while one fights.
Parties3 == {(p :> "gorvak") @@ (q :> "none") @@ (r :> "none")}
=============================================================================
