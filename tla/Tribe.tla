------------------------------- MODULE Tribe -------------------------------
(***************************************************************************)
(* What the evenings of hanters/main.c promise, without processes and      *)
(* semaphores: who is in the tribe, and who is sure to fail tomorrow.  One *)
(* step is one whole evening, lines 150-219 of the cook.                   *)
(***************************************************************************)
EXTENDS Integers, FiniteSets

CONSTANTS N, M

Hunter == 0 .. N - 1

VARIABLES evening,  \* evenings so far
          tribe,    \* the living
          cursed    \* those who left an evening hungry: unlucky tomorrow

tribeVars == <<evening, tribe, cursed>>

\* The k lowest-numbered members of S.
First(k, S) == {h \in S : Cardinality({g \in S : g < h}) < k}

Init == evening = 0 /\ tribe = Hunter /\ cursed = {}

\* `lucky` are the hunters whose last hunt of the day brought meat, `meat` the
\* pieces in the pot.  The cook takes one piece, the rest goes round in index
\* order, and for every hungry mouth one unlucky hunter is butchered.
Evening(lucky, meat) ==
  LET fed    == First(meat - 1, tribe)
      hungry == Cardinality(tribe \ fed)
  IN  /\ evening < M
      /\ tribe # {}
      /\ evening' = evening + 1
      /\ tribe'   = tribe \ First(hungry, tribe \ lucky)
      /\ cursed'  = tribe' \ fed

\* A cursed hunter is never among the lucky ones, and nobody is lucky without
\* bringing a piece; no hunt brings more than one.
Next ==
  \E lucky \in SUBSET (tribe \ cursed), meat \in 0 .. Cardinality(tribe) :
    Cardinality(lucky) <= meat /\ Evening(lucky, meat)

Spec == Init /\ [][Next]_tribeVars
=============================================================================
