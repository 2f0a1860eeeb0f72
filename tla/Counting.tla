----------------------------- MODULE Counting ------------------------------
(* How many processes are where: the ledgers of the other modules sum these. *)
EXTENDS Integers, FiniteSets

\* The members of S that f maps into L, and their number.
Where(f, S, L) == {x \in S : f[x] \in L}
Count(f, S, L) == Cardinality(Where(f, S, L))
=============================================================================
