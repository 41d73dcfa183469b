------------------------------- MODULE MCCombat -------------------------------
(* Small instances of Combat for TLC.                                       *)
EXTENDS Combat, TLC

CONSTANTS p, q

At(map, x, y) == <<map, x, y>>
\* A gate, a way past the den, a herb and a tree; and an arena of three cells.
Small == At("field", 0, 0) :> "grass" @@ At("field", 1, 0) :> "grass" @@ At("field", 2, 0) :> "herb"
      @@ At("field", 0, 1) :> "grass" @@ At("field", 1, 1) :> "grass" @@ At("field", 2, 1) :> "full"
      @@ At("arena", 0, 0) :> "grass" @@ At("arena", 1, 0) :> "grass" @@ At("arena", 2, 0) :> "grass"
      @@ At("cave", 0, 0) :> "grass"
Order2 == <<p, q>>
Gates2 == {At("field", 0, 0), At("arena", 0, 0)}
Exit2 == At("field", 0, 0) :> At("arena", 1, 0) @@ At("arena", 0, 0) :> At("field", 1, 0)
Grave2 == "field" :> At("field", 0, 1) @@ "arena" :> At("arena", 1, 0) @@ "cave" :> At("cave", 0, 0)

Outside == p :> At("field", 0, 1) @@ q :> At("field", 1, 0)
Ahead == p :> At("field", 0, 1) @@ q :> At("arena", 2, 0)
Inside == p :> At("arena", 0, 0) @@ q :> At("arena", 1, 0)
Scene(start, den, ps, qs, fire, pickup, toggle, ready) ==
    [start |-> start, den |-> den, packets |-> (p :> ps @@ q :> qs),
     fire |-> fire, pickup |-> pickup, toggle |-> toggle, ready |-> ready]
Near == At("field", 1, 1)
Far == At("cave", 0, 0)
\* One hunts where the other stands; both walk; one comes to the arena, where the
\* other may wait for him; they duel.
Fights == {Scene(Outside, Near, 3, 0, 2, 1, 0, 0), Scene(Outside, Near, 2, 2, 0, 0, 0, 0),
           Scene(Ahead, Far, 2, 1, 1, 0, 1, 1), Scene(Inside, Far, 2, 1, 2, 0, 1, 0)}

\* Two who have hurt each other, each beside a herb.
Meadow == [place \in {At("arena", x, y) : x \in 0..1, y \in 0..1} |->
              IF place[3] = 1 THEN "herb" ELSE "grass"]
          @@ At("field", 0, 0) :> "grass"
Duel == {Scene(p :> At("arena", 0, 0) @@ q :> At("arena", 1, 0), At("field", 0, 0), 2, 2, 2, 0, 0, 0)}
\* A client holds all, or all but the right column.
Windows2 == {Place, {place \in Place : place[2] < 2}}
NoExit == <<>>
GravesApart == "field" :> At("field", 0, 0) @@ "arena" :> At("arena", 0, 0)
=============================================================================
