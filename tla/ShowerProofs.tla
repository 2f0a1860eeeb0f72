---------------------------- MODULE ShowerProofs ---------------------------
(***************************************************************************)
(* Theorems about Shower for every crowd and every number of places.  The  *)
(* argument: each mutex, each counter, the slots and the two barriers keep *)
(* a ledger (permits left plus processes that hold one is constant), and a *)
(* process at "room" or "free" is the only one of its sex that counts.     *)
(***************************************************************************)
EXTENDS Shower, CountingTheorems

Sexes      == {"men", "women"}
Members(s) == IF s = "men" THEN Men ELSE Women
MutexOf(s) == IF s = "men" THEN "S_MEN_MTX" ELSE "S_WOM_MTX"

MutexHeld == {"room", "unlock", "free", "reunlock"}            \* holds its mutex
InCounter == {"room", "unlock", "slot", "inside", "relock"}    \* is in men_in or women_in
Holding   == {"unlock", "slot", "inside", "relock", "free"}    \* its sex has S_ROOM

Held(s)    == Count(pc, Members(s), MutexHeld)
Counted(s) == Count(pc, Members(s), InCounter)
Inside     == Count(pc, Person, {"inside"})
Absent     == Count(pc, Person, {"unborn", "arrive"})
Waiting    == Count(pc, Person, {"wait"})

\* One holder per mutex; the counters count; the slots add up to N.
Ledgers ==
  /\ \A s \in Sexes : sem[MutexOf(s)] + Held(s) = 1
  /\ \A s \in Sexes : counter[s] = Counted(s)
  /\ sem["S_SLOTS"] + Inside = N

\* Whoever goes for the room is the only one counted, and whoever gives it back
\* is counted no more and left nobody behind.
Alone ==
  \A p \in Person : /\ pc[p] = "room" => counter[Sex(p)] = 1
                    /\ pc[p] = "free" => counter[Sex(p)] = 0

\* The arrival barrier before the opening, the start barrier after it.
Barriers ==
  IF parent \in {"fork", "failed", "gather"}
  THEN /\ sem["S_START"] = 0
       /\ sem["S_ARRIVAL"] + Absent = arrivals
       /\ \A p \in Person : pc[p] \in {"unborn", "arrive", "wait"}
  ELSE /\ sem["S_START"] + (IF parent = "open" THEN arrivals ELSE 0) = Waiting
       /\ sem["S_ARRIVAL"] = 0
       /\ \A p \in Person : pc[p] \notin {"unborn", "arrive"}
       /\ parent = "done" => \A p \in Person : pc[p] = "exited"

IInv == TypeOK /\ Ledgers /\ Alone /\ RoomTruth /\ Barriers

-----------------------------------------------------------------------------
(* Vocabulary *)

LEMMA Finite ==
  /\ IsFiniteSet(Person) /\ IsFiniteSet(Men) /\ IsFiniteSet(Women)
  /\ Crowd \in Nat
  <1>1. IsFiniteSet(Person)
    BY ShowerAssumption, FS_Union DEF Person
  <1>2. QED
    BY <1>1, ShowerAssumption, FS_CardinalityType DEF Crowd

LEMMA Sorted ==
  /\ \A p \in Person : /\ Sex(p) \in Sexes
                       /\ Mutex(p) = MutexOf(Sex(p))
                       /\ \A s \in Sexes : p \in Members(s) <=> s = Sex(p)
  /\ \A s \in Sexes : /\ Members(s) \subseteq Person
                      /\ IsFiniteSet(Members(s))
                      /\ MutexOf(s) \in Semaphore
                      /\ MutexOf(s) \notin {"S_ARRIVAL", "S_START", "S_ROOM", "S_SLOTS"}
                      /\ \A r \in Sexes : MutexOf(s) = MutexOf(r) => s = r
  BY ShowerAssumption DEF Person, Sex, Mutex, Sexes, Members, MutexOf, Semaphore

LEMMA CountsAreNat ==
  /\ \A s \in Sexes : Held(s) \in Nat /\ Counted(s) \in Nat
  /\ Inside \in Nat /\ Absent \in Nat /\ Waiting \in Nat
  BY Finite, Sorted, CountType DEF Held, Counted, Inside, Absent, Waiting

\* What one process does to every count when it moves.
LEMMA Moves ==
  ASSUME TypeOK, NEW p \in Person, NEW l \in PersonPC, Goto(p, l)
  PROVE  /\ pc' \in [Person -> PersonPC]
         /\ pc'[p] = l
         /\ \A q \in Person : q # p => pc'[q] = pc[q]
         /\ \A s \in Sexes \ {Sex(p)} : Held(s)' = Held(s) /\ Counted(s)' = Counted(s)
         /\ Held(Sex(p))' = Held(Sex(p)) + (IF l \in MutexHeld THEN 1 ELSE 0)
                                         - (IF pc[p] \in MutexHeld THEN 1 ELSE 0)
         /\ Counted(Sex(p))' = Counted(Sex(p)) + (IF l \in InCounter THEN 1 ELSE 0)
                                               - (IF pc[p] \in InCounter THEN 1 ELSE 0)
         /\ Inside' = Inside + (IF l \in {"inside"} THEN 1 ELSE 0)
                             - (IF pc[p] \in {"inside"} THEN 1 ELSE 0)
         /\ Absent' = Absent + (IF l \in {"unborn", "arrive"} THEN 1 ELSE 0)
                             - (IF pc[p] \in {"unborn", "arrive"} THEN 1 ELSE 0)
         /\ Waiting' = Waiting + (IF l \in {"wait"} THEN 1 ELSE 0)
                               - (IF pc[p] \in {"wait"} THEN 1 ELSE 0)
  <1>1. pc' = [pc EXCEPT ![p] = l] /\ DOMAIN pc = Person /\ Person \subseteq DOMAIN pc
    BY DEF Goto, TypeOK
  <1>2. /\ pc' \in [Person -> PersonPC]
        /\ pc'[p] = l
        /\ \A q \in Person : q # p => pc'[q] = pc[q]
    BY <1>1 DEF TypeOK
  <1>3. \A s \in Sexes \ {Sex(p)} : Held(s)' = Held(s) /\ Counted(s)' = Counted(s)
    <2>1. TAKE s \in Sexes \ {Sex(p)}
    <2>2. p \notin Members(s) /\ Members(s) \subseteq Person
      BY Sorted
    <2>3. \A L : Where(pc', Members(s), L) = Where(pc, Members(s), L)
      BY <1>2, <2>2 DEF Where
    <2>4. QED
      BY <2>3 DEF Held, Counted, Members, Count
  <1>4. ASSUME NEW S, IsFiniteSet(S), p \in S, S \subseteq Person, NEW L
        PROVE  Count(pc', S, L) = Count(pc, S, L) + (IF l \in L THEN 1 ELSE 0)
                                                  - (IF pc[p] \in L THEN 1 ELSE 0)
    <2>1. Where(pc', S, L) \ {p} = Where(pc, S, L) \ {p}
      BY <1>4, <1>2 DEF Where
    <2>2. /\ p \in Where(pc', S, L) <=> l \in L
          /\ p \in Where(pc, S, L) <=> pc[p] \in L
      BY <1>4, <1>2 DEF Where
    <2>3. QED
      BY <1>4, <2>1, <2>2, CountMove
  <1>5. /\ p \in Members(Sex(p)) /\ Members(Sex(p)) \subseteq Person
        /\ IsFiniteSet(Members(Sex(p))) /\ IsFiniteSet(Person) /\ Sex(p) \in Sexes
    BY Sorted, Finite
  <1>6. QED
    BY <1>2, <1>3, <1>4, <1>5 DEF Held, Counted, Members, Sex, Inside, Absent, Waiting

\* The counts depend on nothing but where the processes are.
LEMMA CountsStay ==
  ASSUME UNCHANGED pc
  PROVE  /\ \A s \in Sexes : Held(s)' = Held(s) /\ Counted(s)' = Counted(s)
         /\ Inside' = Inside /\ Absent' = Absent /\ Waiting' = Waiting
  BY DEF Held, Counted, Members, Inside, Absent, Waiting

\* What the ledgers say of the processes of one sex.
LEMMA LedgersMean ==
  ASSUME TypeOK, Ledgers, NEW s \in Sexes
  PROVE  /\ sem[MutexOf(s)] > 0 => \A p \in Members(s) : pc[p] \notin MutexHeld
         /\ \A p, q \in Members(s) :
              pc[p] \in MutexHeld /\ pc[q] \in MutexHeld => p = q
         /\ counter[s] = 0 <=> \A p \in Members(s) : pc[p] \notin InCounter
         /\ counter[s] = 1 => \A p, q \in Members(s) :
              pc[p] \in InCounter /\ pc[q] \in InCounter => p = q
         /\ \A p \in Members(s) :
              pc[p] \in InCounter /\ (\A q \in Members(s) : pc[q] \in InCounter => q = p)
                => counter[s] = 1
  <1>1. /\ sem[MutexOf(s)] + Held(s) = 1 /\ counter[s] = Counted(s)
        /\ Held(s) \in Nat /\ Counted(s) \in Nat /\ sem[MutexOf(s)] \in Nat
    BY CountsAreNat, Sorted DEF Ledgers, TypeOK
  <1>2. IsFiniteSet(Members(s))
    BY Sorted
  <1>3. Held(s) = 0 <=> \A p \in Members(s) : pc[p] \notin MutexHeld
    BY <1>2, CountZero DEF Held
  <1>4. Counted(s) = 0 <=> \A p \in Members(s) : pc[p] \notin InCounter
    BY <1>2, CountZero DEF Counted
  <1>5. ASSUME NEW p \in Members(s), NEW q \in Members(s), pc[p] \in MutexHeld, pc[q] \in MutexHeld
        PROVE  p = q
    <2>1. Count(pc, Members(s), MutexHeld) <= 1
      BY <1>1 DEF Held
    <2>2. QED
      BY <1>2, <1>5, <2>1, CountOne
  <1>6. ASSUME NEW p \in Members(s), NEW q \in Members(s), pc[p] \in InCounter, pc[q] \in InCounter,
               counter[s] = 1
        PROVE  p = q
    <2>1. Count(pc, Members(s), InCounter) <= 1
      BY <1>1, <1>6 DEF Counted
    <2>2. QED
      BY <1>2, <1>6, <2>1, CountOne
  <1>7. ASSUME NEW p \in Members(s), pc[p] \in InCounter,
               \A q \in Members(s) : pc[q] \in InCounter => q = p
        PROVE  counter[s] = 1
    BY <1>1, <1>7, CountAlone DEF Counted
  <1>8. QED
    BY <1>1, <1>3, <1>4, <1>5, <1>6, <1>7

-----------------------------------------------------------------------------
(* The child processes keep the invariant *)

LEMMA ArriveKeeps ==
  ASSUME IInv, NEW p \in Person, Arrive(p)
  PROVE  IInv'
  <1> USE DEF IInv
  <1>1. pc[p] = "arrive" /\ Goto(p, "wait") /\ V("S_ARRIVAL")
        /\ UNCHANGED <<parent, arrivals, counter>>
    BY DEF Arrive
  <1>2. TypeOK'
    BY <1>1 DEF TypeOK, Goto, PersonPC, V, Semaphore
  <1>3. Ledgers'
    BY <1>1, Moves, CountsAreNat, Sorted DEF TypeOK, PersonPC, Ledgers, V, MutexHeld, InCounter
  <1>4. Alone'
    BY <1>1, Moves DEF Alone, PersonPC
  <1>5. RoomTruth'
    BY <1>1, Moves DEF RoomTruth, At, Where, PersonPC, V, TypeOK, Semaphore
  <1>6. Barriers'
    BY <1>1, Moves, CountsAreNat DEF Barriers, PersonPC, V, TypeOK, Semaphore
  <1>7. QED
    BY <1>2, <1>3, <1>4, <1>5, <1>6

LEMMA AwaitStartKeeps ==
  ASSUME IInv, NEW p \in Person, AwaitStart(p)
  PROVE  IInv'
  <1> USE DEF IInv
  <1>1. /\ pc[p] = "wait" /\ P("S_START") /\ Goto(p, "lock")
        /\ UNCHANGED <<parent, arrivals, counter>>
    BY DEF AwaitStart
  <1>2. TypeOK'
    BY <1>1, Moves, Sorted DEF TypeOK, PersonPC, V, P, Semaphore
  <1>3. Ledgers'
    BY <1>1, Moves, CountsAreNat, Sorted DEF TypeOK, PersonPC, Ledgers, V, P, MutexHeld, InCounter
  <1>4. Alone'
    BY <1>1, Moves DEF Alone, PersonPC
  <1>5. RoomTruth'
    BY <1>1, Moves, Sorted DEF RoomTruth, At, Where, PersonPC, V, P, TypeOK, Semaphore
  <1>6. Barriers'
    BY <1>1, Moves, CountsAreNat, Sorted DEF Barriers, PersonPC, V, P, TypeOK, Semaphore
  <1>7. QED
    BY <1>2, <1>3, <1>4, <1>5, <1>6

LEMMA TakeRoomKeeps ==
  ASSUME IInv, NEW p \in Person, TakeRoom(p)
  PROVE  IInv'
  <1> USE DEF IInv
  <1>1. /\ pc[p] = "room" /\ P("S_ROOM") /\ Goto(p, "unlock")
        /\ UNCHANGED <<parent, arrivals, counter>>
    BY DEF TakeRoom
  <1>2. TypeOK'
    BY <1>1, Moves, Sorted DEF TypeOK, PersonPC, V, P, Semaphore
  <1>3. Ledgers'
    BY <1>1, Moves, CountsAreNat, Sorted DEF TypeOK, PersonPC, Ledgers, V, P, MutexHeld, InCounter
  <1>4. Alone'
    BY <1>1, Moves DEF Alone, PersonPC
  <1>5. RoomTruth'
    BY <1>1, Moves, Sorted DEF RoomTruth, At, Where, PersonPC, V, P, TypeOK, Semaphore
  <1>6. Barriers'
    BY <1>1, Moves, CountsAreNat, Sorted DEF Barriers, PersonPC, V, P, TypeOK, Semaphore
  <1>7. QED
    BY <1>2, <1>3, <1>4, <1>5, <1>6

LEMMA CountInKeeps ==
  ASSUME IInv, NEW p \in Person, CountIn(p)
  PROVE  IInv'
  <1> USE DEF IInv
  <1> DEFINE l == IF counter[Sex(p)] = 0 THEN "room" ELSE "unlock"
  <1>1. /\ pc[p] = "lock" /\ P(MutexOf(Sex(p))) /\ Goto(p, l) /\ l \in PersonPC
        /\ counter' = [counter EXCEPT ![Sex(p)] = @ + 1]
        /\ UNCHANGED <<parent, arrivals>>
    BY Sorted DEF CountIn, PersonPC
  <1>2. /\ p \in Members(Sex(p)) /\ Sex(p) \in Sexes /\ counter[Sex(p)] \in Nat
        /\ l \in {"room", "unlock"} /\ (l = "room" <=> counter[Sex(p)] = 0)
    BY Sorted DEF TypeOK, Sexes
  <1>3. \A q \in Members(Sex(p)) : pc[q] \notin MutexHeld
    BY <1>1, <1>2, LedgersMean DEF P
  <1> HIDE DEF l
  <1>4. TypeOK'
    BY <1>1, <1>2, Moves, Sorted DEF TypeOK, PersonPC, P, Sexes
  <1>5. Ledgers'
    <2>1. ASSUME NEW s \in Sexes
          PROVE  (sem[MutexOf(s)] + Held(s))' = 1
      <3>1. MutexOf(s)' = MutexOf(s) /\ sem[MutexOf(s)] + Held(s) = 1
        BY <2>1 DEF MutexOf, Ledgers
      <3>2. CASE s = Sex(p)
        <4>1. sem'[MutexOf(s)] = sem[MutexOf(s)] - 1
          BY <1>1, <3>2, <2>1, Sorted DEF P, TypeOK
        <4>2. Held(s)' = Held(s) + 1
          BY <1>1, <1>2, <3>2, Moves, CountsAreNat DEF MutexHeld
        <4>3. QED
          BY <3>1, <4>1, <4>2, <2>1, Sorted, CountsAreNat DEF TypeOK
      <3>3. CASE s # Sex(p)
        <4>1. sem'[MutexOf(s)] = sem[MutexOf(s)]
          BY <1>1, <1>2, <3>3, <2>1, Sorted DEF P, TypeOK
        <4>2. Held(s)' = Held(s)
          BY <1>1, <3>3, <2>1, Moves
        <4>3. QED
          BY <3>1, <4>1, <4>2
      <3>4. QED
        BY <3>2, <3>3
    <2>2. \A s \in Sexes : counter'[s] = Counted(s)'
      BY <1>1, <1>2, Moves, CountsAreNat, Sorted DEF TypeOK, Ledgers, InCounter, Sexes
    <2>3. (sem["S_SLOTS"] + Inside)' = N
      BY <1>1, <1>2, Moves, CountsAreNat, Sorted DEF TypeOK, Ledgers, P, Semaphore
    <2>4. QED
      BY <2>1, <2>2, <2>3 DEF Ledgers
  <1>6. Alone'
    <2>1. \A q \in Person : q # p /\ pc[q] \in {"room", "free"} => Sex(q) # Sex(p)
      BY <1>3, Sorted DEF MutexHeld
    <2>2. QED
      BY <1>1, <1>2, <2>1, Moves, Sorted DEF Alone, TypeOK, Sexes
  <1>7. RoomTruth'
    <2>1. sem'["S_ROOM"] = sem["S_ROOM"]
      BY <1>1, <1>2, Sorted DEF P, TypeOK, Semaphore
    <2>2. CASE l = "room"
      BY <1>1, <2>1, <2>2, Moves DEF RoomTruth, At, Where
    <2>3. CASE l = "unlock"
      <3>1. PICK q \in Members(Sex(p)) : pc[q] \in InCounter
        BY <1>2, <2>3, LedgersMean
      <3>2. q \in Person /\ pc[q] \in Holding /\ Sex(q) = Sex(p) /\ q # p
        BY <1>1, <1>2, <1>3, <3>1, Sorted DEF Holding, InCounter, MutexHeld
      <3>3. \A r \in Person : pc'[r] \in Holding => Sex(r) = Sex(p)
        BY <1>1, <3>2, Moves DEF RoomTruth, At, Where, Holding
      <3>4. sem["S_ROOM"] = 0
        BY <3>2 DEF RoomTruth, At, Where, Holding
      <3>5. pc'[p] \in Holding
        BY <1>1, <2>3, Moves DEF Holding
      <3>6. QED
        BY <2>1, <3>3, <3>4, <3>5 DEF RoomTruth, At, Where, Holding
    <2>4. QED
      BY <1>2, <2>2, <2>3
  <1>8. Barriers'
    BY <1>1, <1>2, Moves, CountsAreNat, Sorted DEF Barriers, P, TypeOK, Semaphore
  <1>9. QED
    BY <1>4, <1>5, <1>6, <1>7, <1>8

LEMMA UnlockInKeeps ==
  ASSUME IInv, NEW p \in Person, UnlockIn(p)
  PROVE  IInv'
  <1> USE DEF IInv
  <1>1. /\ pc[p] = "unlock" /\ V(Mutex(p)) /\ Goto(p, "slot")
        /\ UNCHANGED <<parent, arrivals, counter>>
    BY DEF UnlockIn
  <1>2. TypeOK'
    BY <1>1, Moves, Sorted DEF TypeOK, PersonPC, V, P, Semaphore
  <1>3. Ledgers'
    <2>1. \A s \in Sexes : (sem[MutexOf(s)] + Held(s))' = 1
      BY <1>1, Moves, CountsAreNat, Sorted DEF TypeOK, PersonPC, Ledgers, V, P, MutexHeld, InCounter, Semaphore
    <2>2. \A s \in Sexes : counter'[s] = Counted(s)'
      BY <1>1, Moves, CountsAreNat, Sorted DEF TypeOK, PersonPC, Ledgers, V, P, MutexHeld, InCounter, Semaphore
    <2>3. (sem["S_SLOTS"] + Inside)' = N
      BY <1>1, Moves, CountsAreNat, Sorted DEF TypeOK, PersonPC, Ledgers, V, P, MutexHeld, InCounter, Semaphore
    <2>4. QED
      BY <2>1, <2>2, <2>3 DEF Ledgers
  <1>4. Alone'
    BY <1>1, Moves DEF Alone, PersonPC
  <1>5. RoomTruth'
    BY <1>1, Moves, Sorted DEF RoomTruth, At, Where, PersonPC, V, P, TypeOK, Semaphore
  <1>6. Barriers'
    BY <1>1, Moves, CountsAreNat, Sorted DEF Barriers, PersonPC, V, P, TypeOK, Semaphore
  <1>7. QED
    BY <1>2, <1>3, <1>4, <1>5, <1>6

LEMMA TakeSlotKeeps ==
  ASSUME IInv, NEW p \in Person, TakeSlot(p)
  PROVE  IInv'
  <1> USE DEF IInv
  <1>1. /\ pc[p] = "slot" /\ P("S_SLOTS") /\ Goto(p, "inside")
        /\ UNCHANGED <<parent, arrivals, counter>>
    BY DEF TakeSlot
  <1>2. TypeOK'
    BY <1>1, Moves, Sorted DEF TypeOK, PersonPC, V, P, Semaphore
  <1>3. Ledgers'
    <2>1. \A s \in Sexes : (sem[MutexOf(s)] + Held(s))' = 1
      BY <1>1, Moves, CountsAreNat, Sorted DEF TypeOK, PersonPC, Ledgers, V, P, MutexHeld, InCounter, Semaphore
    <2>2. \A s \in Sexes : counter'[s] = Counted(s)'
      BY <1>1, Moves, CountsAreNat, Sorted DEF TypeOK, PersonPC, Ledgers, V, P, MutexHeld, InCounter, Semaphore
    <2>3. (sem["S_SLOTS"] + Inside)' = N
      BY <1>1, Moves, CountsAreNat, Sorted DEF TypeOK, PersonPC, Ledgers, V, P, MutexHeld, InCounter, Semaphore
    <2>4. QED
      BY <2>1, <2>2, <2>3 DEF Ledgers
  <1>4. Alone'
    BY <1>1, Moves DEF Alone, PersonPC
  <1>5. RoomTruth'
    BY <1>1, Moves, Sorted DEF RoomTruth, At, Where, PersonPC, V, P, TypeOK, Semaphore
  <1>6. Barriers'
    BY <1>1, Moves, CountsAreNat, Sorted DEF Barriers, PersonPC, V, P, TypeOK, Semaphore
  <1>7. QED
    BY <1>2, <1>3, <1>4, <1>5, <1>6

LEMMA GiveSlotKeeps ==
  ASSUME IInv, NEW p \in Person, GiveSlot(p)
  PROVE  IInv'
  <1> USE DEF IInv
  <1>1. /\ pc[p] = "inside" /\ V("S_SLOTS") /\ Goto(p, "relock")
        /\ UNCHANGED <<parent, arrivals, counter>>
    BY DEF GiveSlot
  <1>2. TypeOK'
    BY <1>1, Moves, Sorted DEF TypeOK, PersonPC, V, P, Semaphore
  <1>3. Ledgers'
    <2>1. \A s \in Sexes : (sem[MutexOf(s)] + Held(s))' = 1
      BY <1>1, Moves, CountsAreNat, Sorted DEF TypeOK, PersonPC, Ledgers, V, P, MutexHeld, InCounter, Semaphore
    <2>2. \A s \in Sexes : counter'[s] = Counted(s)'
      BY <1>1, Moves, CountsAreNat, Sorted DEF TypeOK, PersonPC, Ledgers, V, P, MutexHeld, InCounter, Semaphore
    <2>3. (sem["S_SLOTS"] + Inside)' = N
      BY <1>1, Moves, CountsAreNat, Sorted DEF TypeOK, PersonPC, Ledgers, V, P, MutexHeld, InCounter, Semaphore
    <2>4. QED
      BY <2>1, <2>2, <2>3 DEF Ledgers
  <1>4. Alone'
    BY <1>1, Moves DEF Alone, PersonPC
  <1>5. RoomTruth'
    BY <1>1, Moves, Sorted DEF RoomTruth, At, Where, PersonPC, V, P, TypeOK, Semaphore
  <1>6. Barriers'
    BY <1>1, Moves, CountsAreNat, Sorted DEF Barriers, PersonPC, V, P, TypeOK, Semaphore
  <1>7. QED
    BY <1>2, <1>3, <1>4, <1>5, <1>6

LEMMA CountOutKeeps ==
  ASSUME IInv, NEW p \in Person, CountOut(p)
  PROVE  IInv'
  <1> USE DEF IInv
  <1> DEFINE l == IF counter[Sex(p)] = 1 THEN "free" ELSE "reunlock"
  <1>1. /\ pc[p] = "relock" /\ P(MutexOf(Sex(p))) /\ Goto(p, l) /\ l \in PersonPC
        /\ counter' = [counter EXCEPT ![Sex(p)] = @ - 1]
        /\ UNCHANGED <<parent, arrivals>>
    BY Sorted DEF CountOut, PersonPC
  <1>2. /\ p \in Members(Sex(p)) /\ Sex(p) \in Sexes /\ counter[Sex(p)] \in Nat
        /\ l \in {"free", "reunlock"} /\ (l = "free" <=> counter[Sex(p)] = 1)
        /\ counter[Sex(p)] > 0
    <2>1. p \in Members(Sex(p)) /\ Sex(p) \in Sexes /\ counter[Sex(p)] \in Nat
      BY Sorted DEF TypeOK, Sexes
    <2>2. counter[Sex(p)] # 0
      BY <1>1, <2>1, LedgersMean DEF InCounter
    <2>3. QED
      BY <2>1, <2>2
  <1>3. \A q \in Members(Sex(p)) : pc[q] \notin MutexHeld
    BY <1>1, <1>2, LedgersMean DEF P
  <1> HIDE DEF l
  <1>4. TypeOK'
    BY <1>1, <1>2, Moves, Sorted DEF TypeOK, PersonPC, P, Sexes
  <1>5. Ledgers'
    <2>1. ASSUME NEW s \in Sexes
          PROVE  (sem[MutexOf(s)] + Held(s))' = 1
      <3>1. MutexOf(s)' = MutexOf(s) /\ sem[MutexOf(s)] + Held(s) = 1
        BY <2>1 DEF MutexOf, Ledgers
      <3>2. CASE s = Sex(p)
        <4>1. sem'[MutexOf(s)] = sem[MutexOf(s)] - 1
          BY <1>1, <3>2, <2>1, Sorted DEF P, TypeOK
        <4>2. Held(s)' = Held(s) + 1
          BY <1>1, <1>2, <3>2, Moves, CountsAreNat DEF MutexHeld
        <4>3. QED
          BY <3>1, <4>1, <4>2, <2>1, Sorted, CountsAreNat DEF TypeOK
      <3>3. CASE s # Sex(p)
        <4>1. sem'[MutexOf(s)] = sem[MutexOf(s)]
          BY <1>1, <1>2, <3>3, <2>1, Sorted DEF P, TypeOK
        <4>2. Held(s)' = Held(s)
          BY <1>1, <3>3, <2>1, Moves
        <4>3. QED
          BY <3>1, <4>1, <4>2
      <3>4. QED
        BY <3>2, <3>3
    <2>2. \A s \in Sexes : counter'[s] = Counted(s)'
      BY <1>1, <1>2, Moves, CountsAreNat, Sorted DEF TypeOK, Ledgers, InCounter, Sexes
    <2>3. (sem["S_SLOTS"] + Inside)' = N
      BY <1>1, <1>2, Moves, CountsAreNat, Sorted DEF TypeOK, Ledgers, P, Semaphore
    <2>4. QED
      BY <2>1, <2>2, <2>3 DEF Ledgers
  <1>6. Alone'
    <2>1. \A q \in Person : q # p /\ pc[q] \in {"room", "free"} => Sex(q) # Sex(p)
      BY <1>3, Sorted DEF MutexHeld
    <2>2. QED
      BY <1>1, <1>2, <2>1, Moves, Sorted DEF Alone, TypeOK, Sexes
  <1>7. RoomTruth'
    <2>1. sem'["S_ROOM"] = sem["S_ROOM"]
      BY <1>1, <1>2, Sorted DEF P, TypeOK, Semaphore
    <2>2. CASE l = "free"
      BY <1>1, <2>1, <2>2, Moves DEF RoomTruth, At, Where
    <2>3. CASE l = "reunlock"
      <3>1. PICK q \in Members(Sex(p)) : pc[q] \in InCounter /\ q # p
        BY <1>1, <1>2, <2>3, LedgersMean DEF InCounter
      <3>2. q \in Person /\ pc[q] \in Holding
        BY <1>2, <1>3, <3>1, Sorted DEF Holding, InCounter, MutexHeld
      <3>3. q \in Person /\ pc'[q] \in Holding
        BY <1>1, <3>1, <3>2, Moves
      <3>4. \A r \in Person : pc'[r] \in Holding => pc[r] \in Holding
        BY <1>1, <2>3, Moves DEF Holding
      <3>5. sem["S_ROOM"] = 0
        BY <3>2 DEF RoomTruth, At, Where, Holding
      <3>6. QED
        BY <2>1, <3>3, <3>4, <3>5 DEF RoomTruth, At, Where, Holding
    <2>4. QED
      BY <1>2, <2>2, <2>3
  <1>8. Barriers'
    BY <1>1, <1>2, Moves, CountsAreNat, Sorted DEF Barriers, P, TypeOK, Semaphore
  <1>9. QED
    BY <1>4, <1>5, <1>6, <1>7, <1>8

LEMMA FreeRoomKeeps ==
  ASSUME IInv, NEW p \in Person, FreeRoom(p)
  PROVE  IInv'
  <1> USE DEF IInv
  <1>1. /\ pc[p] = "free" /\ V("S_ROOM") /\ Goto(p, "reunlock")
        /\ UNCHANGED <<parent, arrivals, counter>>
    BY DEF FreeRoom
  <1>2. TypeOK'
    BY <1>1, Moves, Sorted DEF TypeOK, PersonPC, V, P, Semaphore
  <1>3. Ledgers'
    BY <1>1, Moves, CountsAreNat, Sorted DEF TypeOK, PersonPC, Ledgers, V, P, MutexHeld, InCounter
  <1>4. Alone'
    BY <1>1, Moves DEF Alone, PersonPC
  <1>5. RoomTruth'
    <2>1. \A q \in Person : pc[q] \in Holding => q = p
      <3>1. counter[Sex(p)] = 0
        BY <1>1 DEF Alone
      <3>2. \A q \in Members(Sex(p)) : pc[q] \notin InCounter
        BY <3>1, Sorted, LedgersMean
      <3>3. \A q \in Members(Sex(p)) : pc[q] = "free" => q = p
        BY <1>1, Sorted, LedgersMean DEF MutexHeld
      <3>4. \A q \in Person : pc[q] \in Holding => q \in Members(Sex(p))
        BY <1>1, Sorted DEF RoomTruth, At, Where, Holding
      <3>5. QED
        BY <3>2, <3>3, <3>4 DEF Holding, InCounter
    <2>2. \A q \in Person : pc'[q] \notin Holding
      BY <1>1, <2>1, Moves DEF PersonPC, Holding
    <2>3. sem["S_ROOM"] = 0
      BY <1>1 DEF RoomTruth, At, Where
    <2>4. sem'["S_ROOM"] = 1
      BY <1>1, <2>3 DEF V, TypeOK, Semaphore
    <2>5. QED
      BY <2>2, <2>4 DEF RoomTruth, At, Where, Holding
  <1>6. Barriers'
    BY <1>1, Moves, CountsAreNat, Sorted DEF Barriers, PersonPC, V, P, TypeOK, Semaphore
  <1>7. QED
    BY <1>2, <1>3, <1>4, <1>5, <1>6

LEMMA UnlockOutKeeps ==
  ASSUME IInv, NEW p \in Person, UnlockOut(p)
  PROVE  IInv'
  <1> USE DEF IInv
  <1>1. /\ pc[p] = "reunlock" /\ V(Mutex(p)) /\ Goto(p, "exited")
        /\ UNCHANGED <<parent, arrivals, counter>>
    BY DEF UnlockOut
  <1>2. TypeOK'
    BY <1>1, Moves, Sorted DEF TypeOK, PersonPC, V, P, Semaphore
  <1>3. Ledgers'
    BY <1>1, Moves, CountsAreNat, Sorted DEF TypeOK, PersonPC, Ledgers, V, P, MutexHeld, InCounter
  <1>4. Alone'
    BY <1>1, Moves DEF Alone, PersonPC
  <1>5. RoomTruth'
    BY <1>1, Moves, Sorted DEF RoomTruth, At, Where, PersonPC, V, P, TypeOK, Semaphore
  <1>6. Barriers'
    BY <1>1, Moves, CountsAreNat, Sorted DEF Barriers, PersonPC, V, P, TypeOK, Semaphore
  <1>7. QED
    BY <1>2, <1>3, <1>4, <1>5, <1>6

-----------------------------------------------------------------------------
(* main keeps the invariant *)

LEMMA ForkKeeps ==
  ASSUME IInv, NEW p \in Person, Fork(p)
  PROVE  IInv'
  <1> USE DEF IInv
  <1>1. /\ parent = "fork" /\ pc[p] = "unborn" /\ Goto(p, "arrive")
        /\ UNCHANGED <<parent, arrivals, counter, sem>>
    BY DEF Fork, Unborn
  <1>2. TypeOK'
    BY <1>1, Moves DEF TypeOK, PersonPC
  <1>3. Ledgers'
    BY <1>1, Moves, CountsAreNat, Sorted DEF TypeOK, PersonPC, Ledgers, MutexHeld, InCounter
  <1>4. Alone'
    BY <1>1, Moves DEF Alone, PersonPC
  <1>5. RoomTruth'
    BY <1>1, Moves, Sorted DEF RoomTruth, At, Where, PersonPC
  <1>6. Barriers'
    BY <1>1, Moves, CountsAreNat DEF Barriers, PersonPC
  <1>7. QED
    BY <1>2, <1>3, <1>4, <1>5, <1>6

\* The steps of main that move no child touch the barriers only.
LEMMA RestKeeps ==
  ASSUME IInv, UNCHANGED <<pc, counter>>, TypeOK',
         \A s \in Semaphore \ {"S_ARRIVAL", "S_START"} : sem'[s] = sem[s]
  PROVE  Ledgers' /\ Alone' /\ RoomTruth'
  <1> USE DEF IInv
  <1>1. Ledgers'
    BY CountsStay, Sorted DEF Ledgers, TypeOK, Semaphore
  <1>2. Alone'
    BY DEF Alone
  <1>3. RoomTruth'
    BY DEF RoomTruth, At, Where, Semaphore
  <1>4. QED
    BY <1>1, <1>2, <1>3

LEMMA ParentKeeps ==
  ASSUME IInv,
         ForkFails \/ ForksDone \/ Gather \/ Gathered \/ Open \/ Opened \/ CleanUp \/ Stopped
  PROVE  IInv'
  <1> USE DEF IInv
  <1>1. /\ UNCHANGED <<pc, counter>>
        /\ \A s \in Semaphore \ {"S_ARRIVAL", "S_START"} : sem'[s] = sem[s]
    BY DEF ForkFails, ForksDone, Gather, Gathered, Open, Opened, CleanUp, Stopped,
           vars, P, V, TypeOK, Semaphore
  <1>2. TypeOK'
    BY Finite DEF ForkFails, ForksDone, Gather, Gathered, Open, Opened, CleanUp, Stopped,
           vars, P, V, TypeOK, Semaphore, ParentPC
  <1>3. Barriers'
    <2>1. CASE ForkFails \/ ForksDone
      BY <2>1, <1>1, CountsStay DEF ForkFails, ForksDone, Barriers
    <2>2. CASE Gather
      BY <2>2, <1>1, CountsStay, CountsAreNat DEF Gather, P, Barriers, TypeOK, Semaphore
    <2>3. CASE Gathered
      <3>1. Absent = 0 /\ sem["S_ARRIVAL"] = 0 /\ sem["S_START"] = 0
        BY <2>3, CountsAreNat DEF Gathered, Barriers, TypeOK, Semaphore
      <3>2. \A p \in Person : pc[p] \notin {"unborn", "arrive"}
        BY <3>1, Finite, CountZero DEF Absent
      <3>3. \A p \in Person : pc[p] = "wait"
        BY <2>3, <3>2 DEF Gathered, Barriers
      <3>4. Where(pc, Person, {"wait"}) = Person
        BY <3>3 DEF Where
      <3>5. Waiting = Crowd
        BY <3>4 DEF Waiting, Count, Crowd
      <3>6. QED
        BY <2>3, <3>1, <3>2, <3>5, CountsStay, Finite DEF Gathered, Barriers
    <2>4. CASE Open
      BY <2>4, <1>1, CountsStay, CountsAreNat DEF Open, V, Barriers, TypeOK, Semaphore
    <2>5. CASE Opened
      BY <2>5, <1>1, CountsStay, CountsAreNat DEF Opened, Barriers, TypeOK, Semaphore
    <2>6. CASE CleanUp
      BY <2>6, <1>1, CountsStay DEF CleanUp, Barriers
    <2>7. CASE Stopped
      BY <2>7, <1>1, CountsStay DEF Stopped, vars, Barriers
    <2>8. QED
      BY <2>1, <2>2, <2>3, <2>4, <2>5, <2>6, <2>7
  <1>4. QED
    BY <1>1, <1>2, <1>3, RestKeeps

-----------------------------------------------------------------------------
(* The invariant and what follows from it *)

LEMMA InitHolds == Init => IInv
  <1> SUFFICES ASSUME Init PROVE IInv
    OBVIOUS
  <1>1. TypeOK
    BY ShowerAssumption, Finite
    DEF Init, TypeOK, ParentPC, PersonPC, Semaphore
  <1>2. \A S, L : IsFiniteSet(S) /\ S \subseteq Person /\ "unborn" \notin L => Count(pc, S, L) = 0
    <2>1. \A p \in Person : pc[p] = "unborn"
      BY DEF Init
    <2>2. QED
      BY <2>1, CountZero
  <1>3. Ledgers
    <2>1. \A s \in Sexes : Held(s) = 0 /\ Counted(s) = 0
      BY <1>2, Sorted DEF Held, Counted, MutexHeld, InCounter
    <2>2. Inside = 0
      BY <1>2, Finite DEF Inside
    <2>3. /\ \A s \in Sexes : sem[MutexOf(s)] = 1 /\ counter[s] = 0
          /\ sem["S_SLOTS"] = N
      BY DEF Init, Sexes, MutexOf, Semaphore
    <2>4. QED
      BY <2>1, <2>2, <2>3, ShowerAssumption DEF Ledgers
  <1>4. Alone
    BY DEF Init, Alone
  <1>5. RoomTruth
    BY DEF Init, RoomTruth, At, Where, Semaphore
  <1>6. Barriers
    <2>1. Where(pc, Person, {"unborn", "arrive"}) = Person
      BY DEF Init, Where
    <2>2. Absent = Crowd
      BY <2>1 DEF Absent, Count, Crowd
    <2>3. sem["S_ARRIVAL"] = 0 /\ sem["S_START"] = 0 /\ parent = "fork" /\ arrivals = Crowd
      BY DEF Init, Semaphore
    <2>4. QED
      BY <2>2, <2>3, Finite DEF Init, Barriers
  <1>7. QED
    BY <1>1, <1>3, <1>4, <1>5, <1>6 DEF IInv

LEMMA NextKeeps == IInv /\ [Next]_vars => IInv'
  <1> SUFFICES ASSUME IInv, [Next]_vars PROVE IInv'
    OBVIOUS
  <1>1. ASSUME NEW p \in Person, PersonStep(p) PROVE IInv'
    BY <1>1, ArriveKeeps, AwaitStartKeeps, CountInKeeps, TakeRoomKeeps, UnlockInKeeps,
       TakeSlotKeeps, GiveSlotKeeps, CountOutKeeps, FreeRoomKeeps, UnlockOutKeeps
    DEF PersonStep
  <1>2. ASSUME ParentStep \/ Stopped PROVE IInv'
    BY <1>2, ForkKeeps, ParentKeeps DEF ParentStep
  <1>3. CASE UNCHANGED vars
    BY <1>3, CountsStay
    DEF vars, IInv, TypeOK, Ledgers, Alone, RoomTruth, At, Where, Barriers, MutexOf
  <1>4. QED
    BY <1>1, <1>2, <1>3 DEF Next

LEMMA Invariance == Spec => []IInv
  BY InitHolds, NextKeeps, PTL DEF Spec

\* The six semaphores, the counters and every program counter keep their types
\* for every crowd: no semop and no unlocked decrement ever goes below zero.
THEOREM TypeCorrect == Spec => []TypeOK
  BY Invariance, PTL DEF IInv

\* S_ROOM tells the truth, for every crowd and every N: it is 1 exactly when no
\* sex holds the room, and one sex at a time holds it.
THEOREM RoomIsTrue == Spec => []RoomTruth
  BY Invariance, PTL DEF IInv

\* A man and a woman are never in the shower together.
THEOREM SexesApart == Spec => []Segregation
  <1>1. IInv => Segregation
    BY DEF IInv, RoomTruth, Segregation, At, Where
  <1>2. QED
    BY <1>1, Invariance, PTL

\* Never more than N people are in the shower.
THEOREM NeverOverN == Spec => []Capacity
  <1>1. IInv => Capacity
    BY CountsAreNat, ShowerAssumption DEF IInv, Ledgers, Capacity, Inside, TypeOK, Semaphore
  <1>2. QED
    BY <1>1, Invariance, PTL

\* Nobody goes past the start barrier before everybody has arrived.
THEOREM AllArriveFirst == Spec => []Barrier
  <1>1. IInv => Barrier
    BY DEF IInv, Barriers, Barrier, At, Where, PersonPC
  <1>2. QED
    BY <1>1, Invariance, PTL

\* When main removes the semaphore set, every permit is back in it.
THEOREM NothingTaken == Spec => []CleanAtEnd
  <1>1. ASSUME IInv PROVE CleanAtEnd
    <2> SUFFICES ASSUME parent = "done"
                 PROVE  CleanAtEnd
      BY DEF CleanAtEnd
    <2>1. \A p \in Person : pc[p] = "exited"
      BY <1>1 DEF IInv, Barriers
    <2>2. \A S, L : IsFiniteSet(S) /\ S \subseteq Person /\ "exited" \notin L => Count(pc, S, L) = 0
      BY <2>1, CountZero
    <2>3. /\ \A s \in Sexes : Held(s) = 0 /\ Counted(s) = 0
          /\ Inside = 0 /\ Waiting = 0
      BY <2>2, Sorted, Finite DEF Held, Counted, MutexHeld, InCounter, Inside, Waiting
    <2>4. /\ sem["S_MEN_MTX"] = 1 /\ sem["S_WOM_MTX"] = 1
          /\ counter["men"] = 0 /\ counter["women"] = 0 /\ sem["S_SLOTS"] = N
      BY <1>1, <2>3 DEF IInv, Ledgers, MutexOf, Sexes, TypeOK, Semaphore
    <2>5. sem["S_ROOM"] = 1
      BY <1>1, <2>1 DEF IInv, RoomTruth, At, Where
    <2>6. sem["S_START"] = 0 /\ sem["S_ARRIVAL"] = 0
      BY <1>1, <2>3 DEF IInv, Barriers, TypeOK, Semaphore
    <2>7. QED
      BY <2>4, <2>5, <2>6 DEF CleanAtEnd
  <1>2. QED
    BY <1>1, Invariance, PTL

-----------------------------------------------------------------------------
(* Refinement *)

InShower == At({"inside"})
Washed   == At({"relock", "free", "reunlock", "exited"})

LEMMA ShowerInit == Init => B!Init
  BY DEF Init, B!Init, At, Where

\* Taking a slot is entering, giving it back is leaving, all else is a stutter.
LEMMA ShowerStep == IInv /\ IInv' /\ [Next]_vars => [B!Next]_(B!bathVars)
  <1> SUFFICES ASSUME IInv, IInv', [Next]_vars
               PROVE  B!Next \/ UNCHANGED <<InShower, Washed>>
    BY DEF B!bathVars, InShower, Washed
  <1> USE DEF IInv
  <1>1. ASSUME NEW p \in Person, TakeSlot(p) PROVE B!Enter(p)
    <2>1. pc[p] = "slot" /\ Goto(p, "inside") /\ sem["S_SLOTS"] > 0
      BY <1>1 DEF TakeSlot, P
    <2>2. p \notin InShower \cup Washed
      BY <2>1 DEF InShower, Washed, At, Where
    <2>3. \A q \in InShower : B!SameSex(p, q)
      BY <2>1 DEF RoomTruth, InShower, At, Where, B!SameSex, Sex, Person
    <2>4. Cardinality(InShower) < N
      <3>1. Inside < N
        BY <2>1, CountsAreNat, ShowerAssumption DEF Ledgers, TypeOK, Semaphore
      <3>2. QED
        BY <3>1 DEF Inside, Count, InShower, At
    <2>5. InShower' = InShower \cup {p} /\ Washed' = Washed
      BY <2>1, Moves DEF InShower, Washed, At, Where, PersonPC
    <2>6. B!Cardinality(InShower) < N
      BY <2>4 DEF B!Cardinality, Cardinality
    <2>7. QED
      BY <2>2, <2>3, <2>5, <2>6 DEF B!Enter, InShower, Washed
  <1>2. ASSUME NEW p \in Person, GiveSlot(p) PROVE B!Leave(p)
    <2>1. pc[p] = "inside" /\ Goto(p, "relock")
      BY <1>2 DEF GiveSlot
    <2>2. p \in InShower /\ InShower' = InShower \ {p} /\ Washed' = Washed \cup {p}
      BY <2>1, Moves DEF InShower, Washed, At, Where, PersonPC
    <2>3. QED
      BY <2>2 DEF B!Leave, InShower, Washed
  <1>3. ASSUME NEW p \in Person, NEW l \in PersonPC, Goto(p, l),
               {pc[p], l} \cap {"inside"} = {},
               pc[p] \in {"relock", "free", "reunlock", "exited"}
                 <=> l \in {"relock", "free", "reunlock", "exited"}
        PROVE  UNCHANGED <<InShower, Washed>>
    <2>1. InShower' = InShower
      BY <1>3, Moves DEF InShower, At, Where
    <2>2. Washed' = Washed
      BY <1>3, Moves DEF Washed, At, Where
    <2>3. QED
      BY <2>1, <2>2
  <1>4. ASSUME NEW p \in Person, PersonStep(p) \/ Fork(p), ~TakeSlot(p), ~GiveSlot(p)
        PROVE  UNCHANGED <<InShower, Washed>>
    BY <1>3, <1>4
    DEF PersonStep, Arrive, AwaitStart, CountIn, TakeRoom, UnlockIn, CountOut, FreeRoom,
        UnlockOut, Fork, Unborn, PersonPC
  <1>5. UNCHANGED pc => UNCHANGED <<InShower, Washed>>
    BY DEF InShower, Washed, At
  <1>6. QED
    BY <1>1, <1>2, <1>4, <1>5
    DEF Next, ParentStep, PersonStep, ForkFails, ForksDone, Gather, Gathered, Open, Opened,
        CleanUp, Stopped, vars, B!Next, Person

\* For every crowd and every N, the processes implement the abstract shower room.
THEOREM ShowerImplementsBathhouse == Spec => RefinesBathhouse
  <1>1. Spec => B!Spec
    BY ShowerInit, ShowerStep, Invariance, PTL DEF Spec, B!Spec
  <1>2. QED
    BY <1>1 DEF RefinesBathhouse
=============================================================================
