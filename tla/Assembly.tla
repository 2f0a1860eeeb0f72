------------------------------ MODULE Assembly -----------------------------
(***************************************************************************)
(* seminar_9/task.cpp: wrench and screw processes make the parts of a      *)
(* product under four System V semaphores.  Whoever makes the last part    *)
(* refills the semaphores; the first screw process to have done its share  *)
(* removes them under the feet of the others.  The code runs one wrench    *)
(* process and two screw processes.                                        *)
(*                                                                         *)
(* Every semop and semctl is a step of its own.                            *)
(***************************************************************************)
EXTENDS Integers, FiniteSets, Counting

CONSTANTS Wrenches, Screws,   \* the child processes
          n                   \* Context.n: what a screw process is to do, 10 in the code

ASSUME AssemblyAssumption ==
  /\ IsFiniteSet(Wrenches) /\ IsFiniteSet(Screws)
  /\ Wrenches \cap Screws = {}
  /\ n \in Nat

Worker == Wrenches \cup Screws

VARIABLES
  main,                         \* where main is
  unforked,                     \* the children main has still to fork
  pc, left,                     \* where each child is; ctx.n of each screw process
  sem, exists,                  \* the semaphore set; FALSE after IPC_RMID
  wrenches, screws, products    \* "Wrench" and "Screw" printed; refills begun

made == <<wrenches, screws, products>>
vars == <<main, unforked, pc, left, sem, exists, made>>

WorkerPC  == {"unborn", "top", "total", "mutex", "check", "refillA", "refillB",
              "refillTotal", "unlock", "remove", "exited"}
Refilling == {"refillA", "refillB", "refillTotal"}
Semaphore == {"A", "B", "TOTAL", "MUTEX"}

Init ==
  /\ main = "fork" /\ unforked = Worker
  /\ pc = [p \in Worker |-> "unborn"]
  /\ left = [p \in Screws |-> n]
  /\ sem = [s \in Semaphore |-> CASE s = "A" -> 2 [] s = "TOTAL" -> 3 [] OTHER -> 1]
  /\ exists = TRUE
  /\ wrenches = 0 /\ screws = 0 /\ products = 0

\* semop: it waits for the value to allow it, or fails when the set is gone.
Semop(s, delta) ==
  IF exists THEN sem[s] + delta >= 0 /\ sem' = [sem EXCEPT ![s] = @ + delta]
  ELSE UNCHANGED sem

Goto(p, label) == pc' = [pc EXCEPT ![p] = label]

\* A semop whose result is not looked at.
Step(p, from, s, delta, to) ==
  /\ pc[p] = from
  /\ Semop(s, delta)
  /\ Goto(p, to)
  /\ UNCHANGED <<main, unforked, left, exists>>

-----------------------------------------------------------------------------
(* The loop of wrench and screw *)

Wrench(p) ==
  /\ p \in Wrenches /\ exists
  /\ Step(p, "top", "A", -1, "total")
  /\ wrenches' = wrenches + 1
  /\ UNCHANGED <<screws, products>>

Screw(p) ==
  /\ p \in Screws /\ pc[p] = "top" /\ left[p] > 0 /\ exists
  /\ Semop("B", -1)
  /\ left' = [left EXCEPT ![p] = @ - 1]
  /\ screws' = screws + 1
  /\ Goto(p, "total")
  /\ UNCHANGED <<main, unforked, exists, wrenches, products>>

\* The share is done, or the semaphores are gone.
Finish(p) ==
  /\ pc[p] = "top"
  /\ ~exists \/ (p \in Screws /\ left[p] = 0)
  /\ Goto(p, IF p \in Screws THEN "remove" ELSE "exited")
  /\ UNCHANGED <<main, unforked, left, sem, exists, made>>

\* Mutant: the semaphores are left in place.
RemoveNothing(p) ==
  /\ pc[p] = "remove"
  /\ Goto(p, "exited")
  /\ UNCHANGED <<main, unforked, left, sem, exists, made>>

Remove(p) ==
  /\ pc[p] = "remove"
  /\ exists' = FALSE
  /\ Goto(p, "exited")
  /\ UNCHANGED <<main, unforked, left, sem, made>>

TakeTotal(p) == Step(p, "total", "TOTAL", -1, "mutex") /\ UNCHANGED made

\* Mutant: no mutex around the look at SEM_TOTAL and the refill.
NoLock(p) == Step(p, "mutex", "MUTEX", 0, "check") /\ UNCHANGED made
Lock(p)   == Step(p, "mutex", "MUTEX", -1, "check") /\ UNCHANGED made

\* Mutant: the refill comes one part too early.
CheckEarly(p) ==
  /\ pc[p] = "check"
  /\ Goto(p, IF exists /\ sem["TOTAL"] <= 1 THEN "refillA" ELSE "unlock")
  /\ UNCHANGED <<main, unforked, left, sem, exists, made>>

\* getval of a removed set is -1.
Check(p) ==
  /\ pc[p] = "check"
  /\ Goto(p, IF exists /\ sem["TOTAL"] = 0 THEN "refillA" ELSE "unlock")
  /\ UNCHANGED <<main, unforked, left, sem, exists, made>>

RefillA(p) ==
  /\ Step(p, "refillA", "A", 2, "refillB")
  /\ products' = IF exists THEN products + 1 ELSE products
  /\ UNCHANGED <<wrenches, screws>>

RefillB(p)     == Step(p, "refillB", "B", 1, "refillTotal") /\ UNCHANGED made
RefillTotal(p) == Step(p, "refillTotal", "TOTAL", 3, "unlock") /\ UNCHANGED made
Unlock(p)      == Step(p, "unlock", "MUTEX", 1, "top") /\ UNCHANGED made

WorkerStep(p) ==
  \/ Wrench(p) \/ Screw(p) \/ Finish(p) \/ Remove(p)
  \/ TakeTotal(p) \/ Lock(p) \/ Check(p)
  \/ RefillA(p) \/ RefillB(p) \/ RefillTotal(p) \/ Unlock(p)

-----------------------------------------------------------------------------
(* main *)

\* The screw processes are forked before the wrench; a failed fork goes
\* unnoticed.
Fork(p) ==
  /\ main = "fork" /\ p \in unforked
  /\ p \in Wrenches => unforked \subseteq Wrenches
  /\ unforked' = unforked \ {p}
  /\ pc' = [pc EXCEPT ![p] = "top"] \/ UNCHANGED pc
  /\ UNCHANGED <<main, left, sem, exists, made>>

\* wait until there is no child left.
Wait ==
  /\ main = "fork" /\ unforked = {}
  /\ \A p \in Worker : pc[p] \in {"unborn", "exited"}
  /\ main' = "done"
  /\ UNCHANGED <<unforked, pc, left, sem, exists, made>>

MainStep == (\E p \in Worker : Fork(p)) \/ Wait

Stopped == main = "done" /\ UNCHANGED vars

Next == MainStep \/ (\E p \in Worker : WorkerStep(p)) \/ Stopped

\* Every process is scheduled.
Fairness == WF_vars(MainStep) /\ \A p \in Worker : WF_vars(WorkerStep(p))

Spec == Init /\ [][Next]_vars /\ Fairness

-----------------------------------------------------------------------------
(* Properties *)

\* Every variable stays within its type; no semaphore is filled above the value
\* it starts with, whoever refills it and whenever.
TypeOK ==
  /\ main \in {"fork", "done"} /\ unforked \subseteq Worker
  /\ pc \in [Worker -> WorkerPC] /\ left \in [Screws -> 0 .. n]
  /\ sem \in [Semaphore -> 0 .. 3]
  /\ sem["A"] <= 2 /\ sem["B"] <= 1 /\ sem["MUTEX"] <= 1
  /\ exists \in BOOLEAN
  /\ wrenches \in Nat /\ screws \in Nat /\ products \in Nat

\* Only one process is ever refilling, although after IPC_RMID SEM_MUTEX holds
\* nobody back any more (task.cpp:50-56).
OneRefill ==
  \A p, q \in Worker : pc[p] \in Refilling /\ pc[q] \in Refilling => p = q

\* Parts are never made ahead: at most two wrenches and one screw more than the
\* products assembled, and never fewer than they need, also while the
\* semaphores are refilled one by one and when they are removed half-way.
PartsMatchProducts ==
  /\ wrenches - 2 * products \in 0 .. 2
  /\ screws - products \in 0 .. 1

\* The processes make products as Workshop says: each of two wrenches and a
\* screw.
W == INSTANCE Workshop
RefinesWorkshop == W!Spec

\* Every process ends and main returns, although the semaphores go while others
\* work, unless a fork failed and there are no wrenches or no screws at all.
Unmanned(workers) == unforked = {} /\ \A p \in workers : pc[p] = "unborn"
EndsUnlessUnmanned ==
  <>(main = "done") \/ <>[]Unmanned(Wrenches) \/ <>[]Unmanned(Screws)
=============================================================================
