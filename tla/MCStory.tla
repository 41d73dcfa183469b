------------------------------- MODULE MCStory -------------------------------
(* Small instances of Story for TLC.                                        *)
EXTENDS Story

Targets == [road |-> 2, bridge |-> 4, blackwater |-> 2, mud |-> 2]
=============================================================================
