------------------------------- MODULE MCSongs -----------------------------
(***************************************************************************)
(* Both songs with four singers, in one run: the user starts one of the    *)
(* two programs, and the other one's variables stay as they are.           *)
(***************************************************************************)
EXTENDS Bogatiry, Bogatiry2

VARIABLE singing   \* the program that is run

SongsInit == singing \in {"bogatiry", "bogatiry2"} /\ Init /\ Init2

SongsNext ==
  /\ UNCHANGED singing
  /\ \/ singing = "bogatiry"  /\ Next  /\ UNCHANGED vars2
     \/ singing = "bogatiry2" /\ Next2 /\ UNCHANGED vars

\* The fairness of the program that is run.
SongsFairness ==
  /\ WF_vars(singing = "bogatiry" /\ MainStep)
  /\ \A t \in Thread : WF_vars(singing = "bogatiry" /\ SingerStep(t))
  /\ WF_vars2(singing = "bogatiry2" /\ MainStep2)
  /\ \A t \in Thread2 : WF_vars2(singing = "bogatiry2" /\ SingerStep2(t))

SongsSpec == SongsInit /\ [][SongsNext]_<<singing, vars, vars2>> /\ SongsFairness

-----------------------------------------------------------------------------
(* Inputs *)

\* bogatiry.c: the characters 0 (NUL, never sung), 1 and 3; nobody's turn is 2.
\* Files with and without a NUL, with a byte that no singer has (4), and some longer
\* than the buffer of four.
AnyFiles == BoundedSeq({0, 1, 3, 4}, 3) \cup BoundedSeq({1, 3}, 4)

\* bogatiry2.c: slots 1 and 3 have a turn; slot 4 and the negative char -4 never meet.
AnySongs == BoundedSeq({1, 3, -4}, 3)
=============================================================================
