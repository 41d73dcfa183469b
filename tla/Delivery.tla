------------------------------ MODULE Delivery ------------------------------
(***************************************************************************)
(* What the output of a session promises its client, whatever the socket   *)
(* and the pacing do: reliable frames arrive once each and in order,       *)
(* messages in order although some may be lost, and what is shown of a     *)
(* slot of replaceable state is a state the game was in and never goes     *)
(* back.  SessionOutput implements it.                                     *)
(***************************************************************************)
EXTENDS Naturals

CONSTANT Slot

VARIABLES
    queued,     \* how many reliable frames and messages were queued
    state,      \* the version of what each slot shows, in the game
    got         \* the last of each that arrived

vars == <<queued, state, got>>

Init ==
    /\ queued = [reliable |-> 0, message |-> 0]
    /\ state = [s \in Slot |-> 1]
    /\ got = [reliable |-> 0, message |-> 0, shown |-> [s \in Slot |-> 0]]

Queue ==
    /\ queued' \in [reliable : Nat, message : Nat]
    /\ queued'.reliable >= queued.reliable /\ queued'.message >= queued.message
    /\ UNCHANGED <<state, got>>

Change(s) ==
    /\ state' = [state EXCEPT ![s] = @ + 1]
    /\ UNCHANGED <<queued, got>>

ReliableArrives ==
    /\ got.reliable < queued.reliable
    /\ got' = [got EXCEPT !.reliable = @ + 1]
    /\ UNCHANGED <<queued, state>>

MessageArrives ==
    /\ \E n \in got.message + 1 .. queued.message : got' = [got EXCEPT !.message = n]
    /\ UNCHANGED <<queued, state>>

StateArrives(s) ==
    /\ \E n \in got.shown[s] + 1 .. state[s] : got' = [got EXCEPT !.shown[s] = n]
    /\ UNCHANGED <<queued, state>>

Next ==
    \/ Queue \/ ReliableArrives \/ MessageArrives
    \/ \E s \in Slot : Change(s) \/ StateArrives(s)

Spec == Init /\ [][Next]_vars
=============================================================================
