----------------------------- MODULE Bathhouse -----------------------------
(***************************************************************************)
(* What the shower room of seminar_6/shower.cpp promises: a room with N    *)
(* places that never mixes the sexes, and everybody uses it at most once.  *)
(***************************************************************************)
EXTENDS Integers, FiniteSets

CONSTANTS Men, Women, N

VARIABLES inside,   \* the people in the shower
          washed    \* the people who have left it

bathVars == <<inside, washed>>

SameSex(p, q) == {p, q} \subseteq Men \/ {p, q} \subseteq Women

Init == inside = {} /\ washed = {}

Enter(p) ==
  /\ p \notin inside \cup washed
  /\ \A q \in inside : SameSex(p, q)
  /\ Cardinality(inside) < N
  /\ inside' = inside \cup {p}
  /\ UNCHANGED washed

Leave(p) ==
  /\ p \in inside
  /\ inside' = inside \ {p}
  /\ washed' = washed \cup {p}

Next == \E p \in Men \cup Women : Enter(p) \/ Leave(p)

Spec == Init /\ [][Next]_bathVars
=============================================================================
