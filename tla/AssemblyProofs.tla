--------------------------- MODULE AssemblyProofs --------------------------
(***************************************************************************)
(* Theorems about Assembly for any numbers of wrench and screw processes.  *)
(* The argument: as long as the semaphores exist, each part semaphore adds *)
(* up with what was printed, and SEM_TOTAL with what was printed by those  *)
(* who have counted it; so SEM_TOTAL = 0 says that the product is whole    *)
(* and everybody has counted.  Once they are removed nothing is made.      *)
(***************************************************************************)
EXTENDS Assembly, CountingTheorems

InSection == Refilling \cup {"check", "unlock"}

Uncounted == Count(pc, Worker, {"total"})
Locked    == Count(pc, Worker, InSection)
OwedB     == Count(pc, Worker, {"refillB"})
OwedTotal == Count(pc, Worker, {"refillB", "refillTotal"})

\* What was printed and what the semaphores still allow add up.
Ledgers ==
  /\ sem["A"] + wrenches = 2 * products + 2
  /\ sem["B"] + screws + OwedB = products + 1
  /\ sem["TOTAL"] + wrenches + screws + 3 * OwedTotal = 3 * products + 3 + Uncounted
  /\ sem["MUTEX"] + Locked = 1
  /\ \A p \in Worker : pc[p] \in Refilling => sem["TOTAL"] = 0

Core ==
  /\ TypeOK /\ OneRefill /\ PartsMatchProducts
  /\ exists => Ledgers

\* main forks nobody twice.
Unborn == \A p \in unforked : pc[p] = "unborn"

IInv == Core /\ Unborn

-----------------------------------------------------------------------------
(* Vocabulary *)

LEMMA Finite == IsFiniteSet(Worker)
  BY AssemblyAssumption, FS_Union DEF Worker

LEMMA CountsAreNat ==
  Uncounted \in Nat /\ Locked \in Nat /\ OwedB \in Nat /\ OwedTotal \in Nat
  BY Finite, CountType DEF Uncounted, Locked, OwedB, OwedTotal

\* What one process does to every count when it moves.
LEMMA Moves ==
  ASSUME TypeOK, NEW p \in Worker, NEW l \in WorkerPC, Goto(p, l)
  PROVE  /\ pc' \in [Worker -> WorkerPC]
         /\ pc'[p] = l
         /\ \A q \in Worker : q # p => pc'[q] = pc[q]
         /\ Uncounted' = Uncounted + (IF l \in {"total"} THEN 1 ELSE 0)
                                   - (IF pc[p] \in {"total"} THEN 1 ELSE 0)
         /\ Locked' = Locked + (IF l \in InSection THEN 1 ELSE 0)
                             - (IF pc[p] \in InSection THEN 1 ELSE 0)
         /\ OwedB' = OwedB + (IF l \in {"refillB"} THEN 1 ELSE 0)
                           - (IF pc[p] \in {"refillB"} THEN 1 ELSE 0)
         /\ OwedTotal' = OwedTotal
              + (IF l \in {"refillB", "refillTotal"} THEN 1 ELSE 0)
              - (IF pc[p] \in {"refillB", "refillTotal"} THEN 1 ELSE 0)
  <1>1. /\ pc' \in [Worker -> WorkerPC]
        /\ pc'[p] = l
        /\ \A q \in Worker : q # p => pc'[q] = pc[q]
    BY DEF Goto, TypeOK
  <1>2. ASSUME NEW L
        PROVE  Count(pc', Worker, L) = Count(pc, Worker, L)
                 + (IF l \in L THEN 1 ELSE 0) - (IF pc[p] \in L THEN 1 ELSE 0)
    <2>1. Where(pc', Worker, L) \ {p} = Where(pc, Worker, L) \ {p}
      BY <1>1 DEF Where
    <2>2. /\ p \in Where(pc', Worker, L) <=> l \in L
          /\ p \in Where(pc, Worker, L) <=> pc[p] \in L
      BY <1>1 DEF Where
    <2>3. QED
      BY Finite, <2>1, <2>2, CountMove
  <1>3. QED
    BY <1>1, <1>2 DEF Uncounted, Locked, OwedB, OwedTotal

LEMMA CountsStay ==
  ASSUME UNCHANGED pc
  PROVE  UNCHANGED <<Uncounted, Locked, OwedB, OwedTotal>>
  BY DEF Uncounted, Locked, OwedB, OwedTotal

\* Whoever is in a place is counted there, and nobody else in SEM_MUTEX's section.
LEMMA LedgersMean ==
  ASSUME TypeOK, Ledgers, NEW p \in Worker
  PROVE  /\ pc[p] \in InSection => /\ Locked = 1 /\ sem["MUTEX"] = 0
                                   /\ \A q \in Worker : pc[q] \in InSection => q = p
         /\ sem["MUTEX"] > 0 => \A q \in Worker : pc[q] \notin InSection
         /\ (\A q \in Worker : pc[q] \notin {"refillB", "refillTotal"})
              => OwedB = 0 /\ OwedTotal = 0
         /\ pc[p] = "total" => Uncounted > 0
         /\ pc[p] = "refillB" => OwedB > 0
         /\ pc[p] \in {"refillB", "refillTotal"} => OwedTotal > 0
  <1>1. sem["MUTEX"] + Locked = 1 /\ sem["MUTEX"] \in Nat
    BY DEF Ledgers, TypeOK, Semaphore
  <1>2. Locked <= 1 /\ (sem["MUTEX"] > 0 => Locked = 0)
    BY <1>1, CountsAreNat
  <1>3. pc[p] \in InSection => Locked # 0
    BY Finite, CountZero DEF Locked
  <1>4. Locked = 0 => \A q \in Worker : pc[q] \notin InSection
    BY Finite, CountZero DEF Locked
  <1>5. ASSUME pc[p] \in InSection, NEW q \in Worker, pc[q] \in InSection
        PROVE  q = p
    <2>1. Count(pc, Worker, InSection) <= 1
      BY <1>2 DEF Locked
    <2>2. QED
      BY <1>5, <2>1, Finite, CountOne
  <1>6. (\A q \in Worker : pc[q] \notin {"refillB", "refillTotal"}) => OwedB = 0 /\ OwedTotal = 0
    BY Finite, CountZero DEF OwedB, OwedTotal
  <1>7. pc[p] = "total" => Uncounted # 0
    BY Finite, CountZero DEF Uncounted
  <1>8. pc[p] = "refillB" => OwedB # 0
    BY Finite, CountZero DEF OwedB
  <1>9. pc[p] \in {"refillB", "refillTotal"} => OwedTotal # 0
    BY Finite, CountZero DEF OwedTotal
  <1>10. QED
    BY <1>1, <1>2, <1>3, <1>4, <1>5, <1>6, <1>7, <1>8, <1>9, CountsAreNat

-----------------------------------------------------------------------------
(* The loop keeps the invariant *)

\* Once the semaphores are gone nothing is made, and nobody starts to refill.
LEMMA GoneKeeps ==
  ASSUME Core, ~exists, NEW p \in Worker, WorkerStep(p)
  PROVE  Core'
  <1> USE DEF Core
  <1>1. /\ exists' = exists \/ exists' = FALSE
        /\ UNCHANGED <<made, sem, main, unforked, left>>
    BY DEF WorkerStep, Wrench, Screw, Finish, Remove, TakeTotal, Lock, Check, RefillA,
           RefillB, RefillTotal, Unlock, Step, Semop, made, TypeOK
  <1>2. PICK l \in WorkerPC : Goto(p, l) /\ (l \in Refilling => pc[p] \in Refilling)
    BY DEF WorkerStep, Wrench, Screw, Finish, Remove, TakeTotal, Lock, Check, RefillA,
           RefillB, RefillTotal, Unlock, Step, WorkerPC, Refilling
  <1>3. TypeOK'
    BY <1>1, <1>2, Moves DEF TypeOK, made
  <1>4. OneRefill'
    BY <1>2, Moves DEF OneRefill
  <1>5. PartsMatchProducts'
    BY <1>1 DEF PartsMatchProducts, made
  <1>6. QED
    BY <1>1, <1>3, <1>4, <1>5

LEMMA WrenchKeeps ==
  ASSUME Core, exists, NEW p \in Worker, Wrench(p)
  PROVE  Core'
  <1> USE DEF Core
  <1>1. /\ pc[p] = "top" /\ Goto(p, "total") /\ sem["A"] - 1 >= 0
        /\ sem' = [sem EXCEPT !["A"] = @ - 1] /\ wrenches' = wrenches + 1
        /\ UNCHANGED <<main, unforked, left, exists, screws, products>>
    BY DEF Wrench, Step, Semop, TypeOK, Semaphore
  <1>2. TypeOK'
    BY <1>1, Moves DEF TypeOK, WorkerPC, Semaphore
  <1>3. OneRefill'
    BY <1>1, Moves DEF OneRefill, WorkerPC, Refilling
  <1>4. Ledgers'
    BY <1>1, Moves, CountsAreNat DEF Ledgers, TypeOK, WorkerPC, Semaphore, Refilling, InSection
  <1>5. PartsMatchProducts'
    BY <1>1 DEF PartsMatchProducts, Ledgers, TypeOK, Semaphore
  <1>6. QED
    BY <1>2, <1>3, <1>4, <1>5

LEMMA ScrewKeeps ==
  ASSUME Core, exists, NEW p \in Worker, Screw(p)
  PROVE  Core'
  <1> USE DEF Core
  <1>1. /\ pc[p] = "top" /\ Goto(p, "total") /\ sem["B"] - 1 >= 0 /\ p \in Screws
        /\ sem' = [sem EXCEPT !["B"] = @ - 1] /\ screws' = screws + 1 /\ left[p] > 0
        /\ left' = [left EXCEPT ![p] = @ - 1]
        /\ UNCHANGED <<main, unforked, exists, wrenches, products>>
    BY DEF Screw, Semop, TypeOK, Semaphore
  <1>2. TypeOK'
    <2>1. left' \in [Screws -> 0 .. n]
      BY <1>1, AssemblyAssumption DEF TypeOK
    <2>2. sem' \in [Semaphore -> 0 .. 3] /\ sem'["A"] <= 2 /\ sem'["B"] <= 1 /\ sem'["MUTEX"] <= 1
      BY <1>1 DEF TypeOK, Semaphore
    <2>3. QED
      BY <1>1, <2>1, <2>2, Moves DEF TypeOK, WorkerPC
  <1>3. OneRefill'
    BY <1>1, Moves DEF OneRefill, WorkerPC, Refilling
  <1>4. Ledgers'
    BY <1>1, Moves, CountsAreNat DEF Ledgers, TypeOK, WorkerPC, Semaphore, Refilling, InSection
  <1>5. PartsMatchProducts'
    BY <1>1, CountsAreNat DEF PartsMatchProducts, Ledgers, TypeOK, Semaphore
  <1>6. QED
    BY <1>2, <1>3, <1>4, <1>5

LEMMA QuietKeeps ==
  ASSUME Core, exists, NEW p \in Worker, Finish(p) \/ Remove(p) \/ Check(p)
  PROVE  Core'
  <1> USE DEF Core
  <1>1. PICK l \in WorkerPC : Goto(p, l) /\ (l = "refillA" => sem["TOTAL"] = 0)
                              /\ (l \in Refilling => l = "refillA")
                              /\ (l \in InSection <=> pc[p] \in InSection)
                              /\ l \notin {"total", "refillB", "refillTotal"}
                              /\ pc[p] \notin {"total", "refillB", "refillTotal"}
    BY DEF Finish, Remove, Check, WorkerPC, Refilling, InSection
  <1>2. UNCHANGED <<main, unforked, left, sem, wrenches, screws, products>> /\ exists' \in BOOLEAN
    BY DEF Finish, Remove, Check, made, TypeOK
  <1>3. TypeOK'
    BY <1>1, <1>2, Moves DEF TypeOK
  <1>4. OneRefill'
    BY <1>1, Moves, LedgersMean DEF OneRefill, Refilling, InSection
  <1>5. Ledgers'
    <2>1. Locked' = Locked
      <3>1. CASE pc[p] \in InSection
        BY <1>1, <3>1, Moves, CountsAreNat
      <3>2. CASE pc[p] \notin InSection
        BY <1>1, <3>2, Moves, CountsAreNat
      <3>3. QED
        BY <3>1, <3>2
    <2>4. UNCHANGED <<Uncounted, OwedB, OwedTotal>>
      BY <1>1, Moves, CountsAreNat
    <2>2. \A q \in Worker : pc'[q] \in Refilling => sem["TOTAL"] = 0
      BY <1>1, Moves DEF Ledgers
    <2>3. QED
      BY <1>2, <2>1, <2>4, <2>2 DEF Ledgers
  <1>6. PartsMatchProducts'
    BY <1>2 DEF PartsMatchProducts
  <1>7. QED
    BY <1>3, <1>4, <1>5, <1>6

LEMMA TakeTotalKeeps ==
  ASSUME Core, exists, NEW p \in Worker, TakeTotal(p)
  PROVE  Core'
  <1> USE DEF Core
  <1>1. /\ pc[p] = "total" /\ Goto(p, "mutex") /\ sem["TOTAL"] - 1 >= 0
        /\ sem' = [sem EXCEPT !["TOTAL"] = @ - 1]
        /\ UNCHANGED <<main, unforked, left, exists, wrenches, screws, products>>
    BY DEF TakeTotal, Step, Semop, TypeOK, Semaphore, made
  <1>2. TypeOK'
    BY <1>1, Moves DEF TypeOK, WorkerPC, Semaphore
  <1>3. OneRefill'
    BY <1>1, Moves DEF OneRefill, WorkerPC, Refilling
  <1>4. Ledgers'
    BY <1>1, Moves, CountsAreNat DEF Ledgers, TypeOK, WorkerPC, Semaphore, Refilling, InSection
  <1>5. QED
    BY <1>1, <1>2, <1>3, <1>4 DEF PartsMatchProducts

LEMMA LockKeeps ==
  ASSUME Core, exists, NEW p \in Worker, Lock(p)
  PROVE  Core'
  <1> USE DEF Core
  <1>1. /\ pc[p] = "mutex" /\ Goto(p, "check") /\ sem["MUTEX"] - 1 >= 0
        /\ sem' = [sem EXCEPT !["MUTEX"] = @ - 1]
        /\ UNCHANGED <<main, unforked, left, exists, wrenches, screws, products>>
    BY DEF Lock, Step, Semop, TypeOK, Semaphore, made
  <1>2. TypeOK'
    BY <1>1, Moves DEF TypeOK, WorkerPC, Semaphore
  <1>3. OneRefill'
    BY <1>1, Moves DEF OneRefill, WorkerPC, Refilling
  <1>4. Ledgers'
    <2>1. Locked' = Locked + 1 /\ UNCHANGED <<Uncounted, OwedB, OwedTotal>>
      BY <1>1, Moves, CountsAreNat DEF WorkerPC, InSection, Refilling
    <2>2. \A q \in Worker : pc'[q] \in Refilling => pc[q] \in Refilling
      BY <1>1, Moves DEF WorkerPC, Refilling
    <2>3. /\ sem'["MUTEX"] = sem["MUTEX"] - 1
          /\ \A s \in Semaphore \ {"MUTEX"} : sem'[s] = sem[s]
      BY <1>1 DEF TypeOK, Semaphore
    <2>4. sem'["TOTAL"] = sem["TOTAL"] /\ sem'["A"] = sem["A"] /\ sem'["B"] = sem["B"]
      BY <2>3 DEF Semaphore
    <2>5. \A q \in Worker : pc'[q] \in Refilling => sem'["TOTAL"] = 0
      BY <2>2, <2>4 DEF Ledgers
    <2>6. (sem["MUTEX"] + Locked)' = 1
      BY <2>1, <2>3, CountsAreNat DEF Ledgers, TypeOK, Semaphore
    <2>7. QED
      BY <1>1, <2>1, <2>4, <2>5, <2>6 DEF Ledgers
  <1>5. QED
    BY <1>1, <1>2, <1>3, <1>4 DEF PartsMatchProducts

\* SEM_TOTAL = 0: the product is whole, and the parts are counted to the last.
LEMMA ProductIsWhole ==
  ASSUME Core, exists, NEW p \in Worker, pc[p] = "refillA"
  PROVE  /\ wrenches = 2 * products + 2 /\ screws = products + 1
         /\ sem["A"] = 0 /\ sem["B"] = 0
  <1> USE DEF Core
  <1>1. \A q \in Worker : pc[q] \notin {"refillB", "refillTotal"}
    BY LedgersMean DEF InSection, Refilling
  <1>2. OwedB = 0 /\ OwedTotal = 0 /\ sem["TOTAL"] = 0
    BY <1>1, LedgersMean DEF Ledgers, Refilling
  <1>3. wrenches + screws >= 3 * products + 3
    BY <1>2, CountsAreNat DEF Ledgers, TypeOK, Semaphore
  <1>4. QED
    BY <1>2, <1>3 DEF Ledgers, TypeOK, Semaphore

LEMMA RefillAKeeps ==
  ASSUME Core, exists, NEW p \in Worker, RefillA(p)
  PROVE  Core'
  <1> USE DEF Core
  <1>1. /\ pc[p] = "refillA" /\ Goto(p, "refillB")
        /\ sem' = [sem EXCEPT !["A"] = @ + 2] /\ products' = products + 1
        /\ UNCHANGED <<main, unforked, left, exists, wrenches, screws>>
    BY DEF RefillA, Step, Semop, TypeOK, Semaphore
  <1>2. /\ wrenches = 2 * products + 2 /\ screws = products + 1
        /\ sem["A"] = 0 /\ sem["B"] = 0
    BY <1>1, ProductIsWhole
  <1>3. TypeOK'
    BY <1>1, <1>2, Moves DEF TypeOK, WorkerPC, Semaphore
  <1>4. OneRefill'
    BY <1>1, Moves DEF OneRefill, WorkerPC, Refilling
  <1>5. Ledgers'
    <2>1. sem["TOTAL"] = 0 /\ sem'["TOTAL"] = 0
      BY <1>1 DEF Ledgers, Refilling, TypeOK, Semaphore
    <2>2. \A s \in Semaphore \ {"A"} : sem'[s] = sem[s]
      BY <1>1 DEF TypeOK, Semaphore
    <2>3. OwedB' = OwedB + 1 /\ OwedTotal' = OwedTotal + 1 /\ Uncounted' = Uncounted
          /\ Locked' = Locked
      BY <1>1, Moves, CountsAreNat DEF WorkerPC, InSection, Refilling
    <2>4. sem'["A"] = 2
      BY <1>1, <1>2 DEF TypeOK, Semaphore
    <2>5. QED
      BY <1>1, <1>2, <2>1, <2>2, <2>3, <2>4, CountsAreNat DEF Ledgers, TypeOK, Semaphore
  <1>6. PartsMatchProducts'
    BY <1>1, <1>2 DEF PartsMatchProducts, TypeOK
  <1>7. QED
    BY <1>3, <1>4, <1>5, <1>6

LEMMA RefillBKeeps ==
  ASSUME Core, exists, NEW p \in Worker, RefillB(p)
  PROVE  Core'
  <1> USE DEF Core
  <1>1. /\ pc[p] = "refillB" /\ Goto(p, "refillTotal")
        /\ sem' = [sem EXCEPT !["B"] = @ + 1]
        /\ UNCHANGED <<main, unforked, left, exists, wrenches, screws, products>>
    BY DEF RefillB, Step, Semop, TypeOK, Semaphore, made
  <1>2. sem["B"] = 0
    BY <1>1, LedgersMean, CountsAreNat DEF Ledgers, PartsMatchProducts, TypeOK, Semaphore
  <1>3. TypeOK'
    BY <1>1, <1>2, Moves DEF TypeOK, WorkerPC, Semaphore
  <1>4. OneRefill'
    BY <1>1, Moves DEF OneRefill, WorkerPC, Refilling
  <1>5. Ledgers'
    BY <1>1, Moves, CountsAreNat DEF Ledgers, TypeOK, WorkerPC, Semaphore, Refilling, InSection
  <1>6. QED
    BY <1>1, <1>3, <1>4, <1>5 DEF PartsMatchProducts

LEMMA RefillTotalKeeps ==
  ASSUME Core, exists, NEW p \in Worker, RefillTotal(p)
  PROVE  Core'
  <1> USE DEF Core
  <1>1. /\ pc[p] = "refillTotal" /\ Goto(p, "unlock")
        /\ sem' = [sem EXCEPT !["TOTAL"] = @ + 3]
        /\ UNCHANGED <<main, unforked, left, exists, wrenches, screws, products>>
    BY DEF RefillTotal, Step, Semop, TypeOK, Semaphore, made
  <1>2. sem["TOTAL"] = 0 /\ \A q \in Worker : q # p => pc[q] \notin Refilling
    BY <1>1, LedgersMean DEF Ledgers, Refilling, InSection
  <1>3. TypeOK'
    BY <1>1, <1>2, Moves DEF TypeOK, WorkerPC, Semaphore
  <1>4. OneRefill'
    BY <1>1, Moves DEF OneRefill, WorkerPC, Refilling
  <1>5. Ledgers'
    BY <1>1, <1>2, Moves, CountsAreNat
    DEF Ledgers, TypeOK, WorkerPC, Semaphore, Refilling, InSection
  <1>6. QED
    BY <1>1, <1>3, <1>4, <1>5 DEF PartsMatchProducts

LEMMA UnlockKeeps ==
  ASSUME Core, exists, NEW p \in Worker, Unlock(p)
  PROVE  Core'
  <1> USE DEF Core
  <1>1. /\ pc[p] = "unlock" /\ Goto(p, "top")
        /\ sem' = [sem EXCEPT !["MUTEX"] = @ + 1]
        /\ UNCHANGED <<main, unforked, left, exists, wrenches, screws, products>>
    BY DEF Unlock, Step, Semop, TypeOK, Semaphore, made
  <1>2. sem["MUTEX"] = 0
    BY <1>1, LedgersMean DEF InSection
  <1>3. TypeOK'
    BY <1>1, <1>2, Moves DEF TypeOK, WorkerPC, Semaphore
  <1>4. OneRefill'
    BY <1>1, Moves DEF OneRefill, WorkerPC, Refilling
  <1>5. Ledgers'
    BY <1>1, Moves, CountsAreNat DEF Ledgers, TypeOK, WorkerPC, Semaphore, Refilling, InSection
  <1>6. QED
    BY <1>1, <1>3, <1>4, <1>5 DEF PartsMatchProducts

LEMMA StepKeeps ==
  ASSUME IInv, NEW p \in Worker, WorkerStep(p)
  PROVE  IInv'
  <1>1. Core'
    <2>1. CASE ~exists
      BY <2>1, GoneKeeps DEF IInv
    <2>2. CASE exists
      BY <2>2, WrenchKeeps, ScrewKeeps, QuietKeeps, TakeTotalKeeps, LockKeeps, RefillAKeeps,
         RefillBKeeps, RefillTotalKeeps, UnlockKeeps
      DEF WorkerStep, IInv
    <2>3. QED
      BY <2>1, <2>2
  <1>2. Unborn'
    <2>1. UNCHANGED unforked /\ pc[p] # "unborn"
      BY DEF WorkerStep, Wrench, Screw, Finish, Remove, TakeTotal, Lock, Check, RefillA,
             RefillB, RefillTotal, Unlock, Step
    <2>2. PICK l : Goto(p, l)
      BY DEF WorkerStep, Wrench, Screw, Finish, Remove, TakeTotal, Lock, Check, RefillA,
             RefillB, RefillTotal, Unlock, Step
    <2>3. QED
      BY <2>1, <2>2 DEF IInv, Core, TypeOK, Unborn, Goto
  <1>3. QED
    BY <1>1, <1>2 DEF IInv

\* main's forks and its wait touch no semaphore and make nothing.
LEMMA MainKeeps ==
  ASSUME IInv, MainStep \/ Stopped
  PROVE  IInv'
  <1> USE DEF IInv, Core
  <1>1. UNCHANGED <<left, sem, exists, wrenches, screws, products>>
    BY DEF MainStep, Fork, Wait, Stopped, vars, made
  <1>2. CASE UNCHANGED pc
    <2>1. TypeOK'
      BY <1>1, <1>2 DEF TypeOK, MainStep, Fork, Wait, Stopped, vars
    <2>2. Unborn'
      BY <1>2 DEF Unborn, MainStep, Fork, Wait, Stopped, vars
    <2>3. QED
      BY <1>1, <1>2, <2>1, <2>2, CountsStay DEF OneRefill, PartsMatchProducts, Ledgers
  <1>3. ASSUME NEW p \in Worker, Fork(p), Goto(p, "top") PROVE IInv'
    <2>1. pc[p] = "unborn"
      BY <1>3 DEF Fork, Unborn
    <2>2. TypeOK'
      BY <1>1, <1>3, Moves DEF TypeOK, Fork, WorkerPC
    <2>3. OneRefill'
      BY <1>3, Moves DEF OneRefill, WorkerPC, Refilling
    <2>4. exists => Ledgers'
      <3>1. UNCHANGED <<Uncounted, Locked, OwedB, OwedTotal>>
        BY <1>3, <2>1, Moves, CountsAreNat DEF WorkerPC, InSection, Refilling
      <3>2. \A q \in Worker : pc'[q] \in Refilling => pc[q] \in Refilling
        BY <1>3, Moves DEF WorkerPC, Refilling
      <3>3. QED
        BY <1>1, <3>1, <3>2 DEF Ledgers
    <2>5. Unborn'
      BY <1>3 DEF Fork, Unborn, Goto, TypeOK
    <2>6. QED
      BY <1>1, <2>2, <2>3, <2>4, <2>5 DEF PartsMatchProducts
  <1>4. QED
    BY <1>2, <1>3 DEF MainStep, Fork, Wait, Stopped, vars, Goto

-----------------------------------------------------------------------------
(* The invariant and what follows from it *)

LEMMA InitHolds == Init => IInv
  <1> SUFFICES ASSUME Init PROVE IInv
    OBVIOUS
  <1>1. TypeOK /\ Unborn
    BY AssemblyAssumption DEF Init, TypeOK, Unborn, WorkerPC, Semaphore
  <1>2. OneRefill /\ PartsMatchProducts
    BY DEF Init, OneRefill, PartsMatchProducts, Refilling
  <1>3. Ledgers
    <2>1. \A p \in Worker : pc[p] = "unborn"
      BY DEF Init
    <2>2. Uncounted = 0 /\ Locked = 0 /\ OwedB = 0 /\ OwedTotal = 0
      BY <2>1, Finite, CountZero DEF Uncounted, Locked, OwedB, OwedTotal, InSection, Refilling
    <2>3. sem["A"] = 2 /\ sem["B"] = 1 /\ sem["TOTAL"] = 3 /\ sem["MUTEX"] = 1
      BY DEF Init, Semaphore
    <2>4. QED
      BY <2>1, <2>2, <2>3 DEF Init, Ledgers, Refilling
  <1>4. QED
    BY <1>1, <1>2, <1>3 DEF IInv, Core

LEMMA NextKeeps == IInv /\ [Next]_vars => IInv'
  <1> SUFFICES ASSUME IInv, [Next]_vars PROVE IInv'
    OBVIOUS
  <1>1. CASE UNCHANGED vars
    BY <1>1, CountsStay
    DEF vars, made, IInv, Core, Unborn, TypeOK, OneRefill, PartsMatchProducts, Ledgers
  <1>2. QED
    BY <1>1, StepKeeps, MainKeeps DEF Next

LEMMA Invariance == Spec => []IInv
  BY InitHolds, NextKeeps, PTL DEF Spec

\* No semaphore ever goes below zero or above what it starts with, for any
\* numbers of processes.
THEOREM TypeCorrect == Spec => []TypeOK
  BY Invariance, PTL DEF IInv, Core

\* Only one process refills, whatever happens to the semaphore set meanwhile.
THEOREM OnlyOneRefills == Spec => []OneRefill
  BY Invariance, PTL DEF IInv, Core

\* Parts and products stay in step, also after the set was removed half-way
\* through a refill.
THEOREM PartsAndProductsAgree == Spec => []PartsMatchProducts
  BY Invariance, PTL DEF IInv, Core

-----------------------------------------------------------------------------
(* Refinement *)

\* A part is printed where its semaphore still allows one, and a refill begins
\* when the product is whole; all else is a stutter.
LEMMA AssemblyStep == IInv /\ [Next]_vars => [W!Next]_<<wrenches, screws, products>>
  <1> SUFFICES ASSUME IInv, [Next]_vars, ~UNCHANGED <<wrenches, screws, products>>
               PROVE  W!Next
    OBVIOUS
  <1> USE DEF IInv, Core
  <1>1. PICK p \in Worker : Wrench(p) \/ Screw(p) \/ (RefillA(p) /\ exists)
    BY DEF Next, MainStep, Fork, Wait, Stopped, vars, made, WorkerStep, Finish, Remove,
           TakeTotal, Lock, Check, RefillA, RefillB, RefillTotal, Unlock
  <1>2. CASE Wrench(p)
    BY <1>2 DEF Wrench, Step, Semop, Ledgers, TypeOK, Semaphore, W!Next, W!Wrench
  <1>3. CASE Screw(p)
    BY <1>3, CountsAreNat DEF Screw, Semop, Ledgers, TypeOK, Semaphore, W!Next, W!Screw
  <1>4. CASE RefillA(p) /\ exists
    BY <1>4, ProductIsWhole DEF RefillA, Step, W!Next, W!Assemble
  <1>5. QED
    BY <1>1, <1>2, <1>3, <1>4

\* For any numbers of processes, they work as the abstract workshop does.
THEOREM AssemblyImplementsWorkshop == Spec => RefinesWorkshop
  <1>1. Init => W!Init
    BY DEF Init, W!Init
  <1>2. Spec => W!Spec
    BY <1>1, AssemblyStep, Invariance, PTL DEF Spec, W!Spec
  <1>3. QED
    BY <1>2 DEF RefinesWorkshop
=============================================================================
