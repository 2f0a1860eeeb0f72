--------------------------------- MODULE Cat -------------------------------
(***************************************************************************)
(* What a cat made of two threads or processes promises: what was read is  *)
(* printed, all of it but what is still on its way, and in order.          *)
(***************************************************************************)
EXTENDS Integers, Sequences, SequencesExt

VARIABLES taken,   \* the bytes read so far
          given    \* the bytes printed so far

catVars == <<taken, given>>

Init == taken = <<>> /\ given = <<>>

Take ==
  /\ taken' \in Seq(Nat)
  /\ IsStrictPrefix(taken, taken')
  /\ UNCHANGED given

Give ==
  /\ given' \in Prefixes(taken) /\ IsStrictPrefix(given, given')
  /\ UNCHANGED taken

Next == Take \/ Give

Spec == Init /\ [][Next]_catVars
=============================================================================
