-------------------------- MODULE CountingTheorems -------------------------
(* How Count changes when one process moves: the lemmas the ledger proofs cite. *)
EXTENDS Counting, FiniteSetTheorems, TLAPS

\* A count over a finite set is a natural number, at most the size of the set.
LEMMA CountType ==
  ASSUME NEW S, IsFiniteSet(S), NEW f, NEW L
  PROVE  /\ IsFiniteSet(Where(f, S, L))
         /\ Count(f, S, L) \in Nat
         /\ Count(f, S, L) <= Cardinality(S)
  <1>1. Where(f, S, L) \subseteq S
    BY DEF Where
  <1>2. IsFiniteSet(Where(f, S, L)) /\ Cardinality(Where(f, S, L)) <= Cardinality(S)
    BY <1>1, FS_Subset
  <1>3. QED
    BY <1>2, FS_CardinalityType DEF Count

\* A count is zero exactly when nobody is there.
LEMMA CountZero ==
  ASSUME NEW S, IsFiniteSet(S), NEW f, NEW L
  PROVE  Count(f, S, L) = 0 <=> \A x \in S : f[x] \notin L
  <1>1. IsFiniteSet(Where(f, S, L))
    BY CountType
  <1>2. Count(f, S, L) = 0 <=> Where(f, S, L) = {}
    BY <1>1, FS_EmptySet DEF Count
  <1>3. QED
    BY <1>2 DEF Where

\* A count is one when exactly one process is there.
LEMMA CountOne ==
  ASSUME NEW S, IsFiniteSet(S), NEW f, NEW L, Count(f, S, L) <= 1,
         NEW x \in S, f[x] \in L, NEW y \in S, f[y] \in L
  PROVE  x = y
  <1>1. IsFiniteSet(Where(f, S, L)) /\ Count(f, S, L) \in Nat
    BY CountType
  <1>2. x \in Where(f, S, L) /\ y \in Where(f, S, L)
    BY DEF Where
  <1>3. Count(f, S, L) # 0
    BY <1>1, <1>2, FS_EmptySet DEF Count
  <1>4. Cardinality(Where(f, S, L)) = 1
    BY <1>1, <1>3 DEF Count
  <1>5. PICK z : Where(f, S, L) = {z}
    BY <1>1, <1>4, FS_Singleton
  <1>6. QED
    BY <1>2, <1>5

\* Where one process stands alone, the count is one.
LEMMA CountAlone ==
  ASSUME NEW S, NEW f, NEW L, NEW x \in S, f[x] \in L,
         \A y \in S : f[y] \in L => y = x
  PROVE  Count(f, S, L) = 1
  <1>1. Where(f, S, L) = {x}
    BY DEF Where
  <1>2. QED
    BY <1>1, FS_Singleton DEF Count

\* When f and g agree on S except at x, their counts differ by what x does.
LEMMA CountMove ==
  ASSUME NEW S, IsFiniteSet(S), NEW f, NEW g, NEW L, NEW x,
         Where(g, S, L) \ {x} = Where(f, S, L) \ {x}
  PROVE  /\ Count(f, S, L) \in Nat /\ Count(g, S, L) \in Nat
         /\ x \in Where(g, S, L) /\ x \in Where(f, S, L) => Count(g, S, L) = Count(f, S, L)
         /\ x \notin Where(g, S, L) /\ x \notin Where(f, S, L)
              => Count(g, S, L) = Count(f, S, L)
         /\ x \in Where(g, S, L) /\ x \notin Where(f, S, L)
              => Count(g, S, L) = Count(f, S, L) + 1
         /\ x \notin Where(g, S, L) /\ x \in Where(f, S, L)
              => Count(g, S, L) = Count(f, S, L) - 1
  <1> DEFINE A == Where(f, S, L)
             B == Where(g, S, L)
  <1>1. /\ IsFiniteSet(A) /\ IsFiniteSet(B)
        /\ Cardinality(A) \in Nat /\ Cardinality(B) \in Nat
    BY CountType DEF Count
  <1>2. A \ {x} = B \ {x}
    OBVIOUS
  <1> HIDE DEF A, B
  <1>3. Cardinality(A \ {x}) = IF x \in A THEN Cardinality(A) - 1 ELSE Cardinality(A)
    BY <1>1, FS_RemoveElement
  <1>4. Cardinality(B \ {x}) = IF x \in B THEN Cardinality(B) - 1 ELSE Cardinality(B)
    BY <1>1, FS_RemoveElement
  <1>5. Cardinality(A \ {x}) = Cardinality(B \ {x})
    BY <1>2
  <1>6. QED
    BY <1>1, <1>3, <1>4, <1>5 DEF A, B, Count

\* Where nobody is at first, the count is zero.
LEMMA CountConstant ==
  ASSUME NEW S, IsFiniteSet(S), NEW v, NEW L, v \notin L
  PROVE  Count([x \in S |-> v], S, L) = 0
  BY CountZero
=============================================================================
