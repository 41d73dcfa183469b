------------------------- MODULE MCSessionLifecycle -------------------------
(* Small instances of SessionLifecycle for TLC.                             *)
EXTENDS SessionLifecycle

CONSTANTS c1, c2, c3, t1, t2
=============================================================================
