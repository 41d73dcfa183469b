--------------------------- MODULE MCSessionOutput --------------------------
(* Small instances of SessionOutput for TLC.                                *)
EXTENDS SessionOutput

\* The world, which goes out every tick, and a slot that is sent when it
\* changed: the remote players, which are also repeated, or the HUD.
MCOrder == <<"world", "remote">>
MCHudOrder == <<"world", "hud">>
=============================================================================
