------------------------------- MODULE Shower ------------------------------
(***************************************************************************)
(* seminar_6/shower.cpp: M men and W women, one process each, share a      *)
(* shower with N places through one System V semaphore set and two         *)
(* counters in shared memory.  man_enter/man_leave and woman_enter/        *)
(* woman_leave are the same code over different names, so every action     *)
(* here is written once, for the sex of the process that takes it.         *)
(*                                                                         *)
(* Every semop is a step of its own; an assignment to a counter belongs to *)
(* the step that acquired the counter's mutex.                             *)
(***************************************************************************)
EXTENDS Integers, FiniteSets, Counting

CONSTANTS Men, Women,   \* the child processes (argv: M and W of them)
          N             \* places in the shower (argv)

ASSUME ShowerAssumption ==
  /\ IsFiniteSet(Men) /\ IsFiniteSet(Women)
  /\ Men \cap Women = {}
  /\ N \in Nat

Person == Men \cup Women
Crowd  == Cardinality(Person)

VARIABLES
  parent,     \* where main is
  arrivals,   \* main's loop counter: operations left in the current loop
  pc,         \* where each child is
  counter,    \* Shared: men_in and women_in
  sem         \* the semaphore set

vars == <<parent, arrivals, pc, counter, sem>>

Sex(p)    == IF p \in Men THEN "men" ELSE "women"
Mutex(p)  == IF Sex(p) = "men" THEN "S_MEN_MTX" ELSE "S_WOM_MTX"
Semaphore == {"S_ARRIVAL", "S_START", "S_ROOM", "S_SLOTS", "S_MEN_MTX", "S_WOM_MTX"}

ParentPC == {"fork", "failed", "gather", "open", "wait", "done"}
PersonPC == {"unborn", "arrive", "wait", "lock", "room", "unlock", "slot", "inside",
             "relock", "free", "reunlock", "exited"}

\* sem_change retries on EINTR, so a semop either waits or succeeds.
P(s) == sem[s] > 0 /\ sem' = [sem EXCEPT ![s] = @ - 1]
V(s) == sem' = [sem EXCEPT ![s] = @ + 1]

Goto(p, label) == pc' = [pc EXCEPT ![p] = label]

Init ==
  /\ parent = "fork"
  /\ arrivals = Crowd
  /\ pc = [p \in Person |-> "unborn"]
  /\ counter = [s \in {"men", "women"} |-> 0]
  /\ sem = [s \in Semaphore |->
              CASE s \in {"S_ARRIVAL", "S_START"} -> 0
                [] s = "S_SLOTS" -> N
                [] OTHER -> 1]

-----------------------------------------------------------------------------
(* The child processes *)

Arrive(p) ==
  /\ pc[p] = "arrive"
  /\ V("S_ARRIVAL")
  /\ Goto(p, "wait")
  /\ UNCHANGED <<parent, arrivals, counter>>

AwaitStart(p) ==
  /\ pc[p] = "wait"
  /\ P("S_START")
  /\ Goto(p, "lock")
  /\ UNCHANGED <<parent, arrivals, counter>>

\* Mutant: nobody closes the room.
CountInOnly(p) ==
  /\ pc[p] = "lock"
  /\ P(Mutex(p))
  /\ counter' = [counter EXCEPT ![Sex(p)] = @ + 1]
  /\ Goto(p, "unlock")
  /\ UNCHANGED <<parent, arrivals>>

\* The first of its sex goes on to close the room, with the mutex held.
CountIn(p) ==
  /\ pc[p] = "lock"
  /\ P(Mutex(p))
  /\ counter' = [counter EXCEPT ![Sex(p)] = @ + 1]
  /\ Goto(p, IF counter[Sex(p)] = 0 THEN "room" ELSE "unlock")
  /\ UNCHANGED <<parent, arrivals>>

TakeRoom(p) ==
  /\ pc[p] = "room"
  /\ P("S_ROOM")
  /\ Goto(p, "unlock")
  /\ UNCHANGED <<parent, arrivals, counter>>

UnlockIn(p) ==
  /\ pc[p] = "unlock"
  /\ V(Mutex(p))
  /\ Goto(p, "slot")
  /\ UNCHANGED <<parent, arrivals, counter>>

TakeSlot(p) ==
  /\ pc[p] = "slot"
  /\ P("S_SLOTS")
  /\ Goto(p, "inside")
  /\ UNCHANGED <<parent, arrivals, counter>>

GiveSlot(p) ==
  /\ pc[p] = "inside"
  /\ V("S_SLOTS")
  /\ Goto(p, "relock")
  /\ UNCHANGED <<parent, arrivals, counter>>

\* Mutant: everybody who leaves opens the room.
CountOutAlways(p) ==
  /\ pc[p] = "relock"
  /\ P(Mutex(p))
  /\ counter' = [counter EXCEPT ![Sex(p)] = @ - 1]
  /\ Goto(p, "free")
  /\ UNCHANGED <<parent, arrivals>>

\* The last of its sex opens the room.
CountOut(p) ==
  /\ pc[p] = "relock"
  /\ P(Mutex(p))
  /\ counter' = [counter EXCEPT ![Sex(p)] = @ - 1]
  /\ Goto(p, IF counter[Sex(p)] = 1 THEN "free" ELSE "reunlock")
  /\ UNCHANGED <<parent, arrivals>>

FreeRoom(p) ==
  /\ pc[p] = "free"
  /\ V("S_ROOM")
  /\ Goto(p, "reunlock")
  /\ UNCHANGED <<parent, arrivals, counter>>

\* Mutant: the mutex is kept on the way out.
UnlockOutForgotten(p) ==
  /\ pc[p] = "reunlock"
  /\ Goto(p, "exited")
  /\ UNCHANGED <<parent, arrivals, counter, sem>>

UnlockOut(p) ==
  /\ pc[p] = "reunlock"
  /\ V(Mutex(p))
  /\ Goto(p, "exited")
  /\ UNCHANGED <<parent, arrivals, counter>>

PersonStep(p) ==
  \/ Arrive(p) \/ AwaitStart(p) \/ CountIn(p) \/ TakeRoom(p) \/ UnlockIn(p)
  \/ TakeSlot(p) \/ GiveSlot(p) \/ CountOut(p) \/ FreeRoom(p) \/ UnlockOut(p)

-----------------------------------------------------------------------------
(* main *)

Unborn == {p \in Person : pc[p] = "unborn"}

\* The men are forked before the women.
Fork(p) ==
  /\ parent = "fork"
  /\ p \in Unborn
  /\ p \in Women => Men \cap Unborn = {}
  /\ Goto(p, "arrive")
  /\ UNCHANGED <<parent, arrivals, counter, sem>>

\* Fork prints the error and _exits: the children so far, the semaphore set and
\* the shared memory stay behind.
ForkFails ==
  /\ parent = "fork"
  /\ Unborn # {}
  /\ parent' = "failed"
  /\ UNCHANGED <<arrivals, pc, counter, sem>>

ForksDone ==
  /\ parent = "fork"
  /\ Unborn = {}
  /\ parent' = "gather"
  /\ UNCHANGED <<arrivals, pc, counter, sem>>

\* for (i < M + W) P(S_ARRIVAL)
Gather ==
  /\ parent = "gather" /\ arrivals > 0
  /\ P("S_ARRIVAL")
  /\ arrivals' = arrivals - 1
  /\ UNCHANGED <<parent, pc, counter>>

\* Mutant: main starts one arrival early.
GatheredEarly ==
  /\ parent = "gather" /\ arrivals <= 1
  /\ arrivals' = Crowd
  /\ parent' = "open"
  /\ UNCHANGED <<pc, counter, sem>>

Gathered ==
  /\ parent = "gather" /\ arrivals = 0
  /\ arrivals' = Crowd
  /\ parent' = "open"
  /\ UNCHANGED <<pc, counter, sem>>

\* for (i < M + W) V(S_START)
Open ==
  /\ parent = "open" /\ arrivals > 0
  /\ V("S_START")
  /\ arrivals' = arrivals - 1
  /\ UNCHANGED <<parent, pc, counter>>

Opened ==
  /\ parent = "open" /\ arrivals = 0
  /\ parent' = "wait"
  /\ UNCHANGED <<arrivals, pc, counter, sem>>

\* Mutant: the semaphores are removed without waiting for the children.
CleanUpAtOnce ==
  /\ parent = "wait"
  /\ parent' = "done"
  /\ UNCHANGED <<arrivals, pc, counter, sem>>

\* while (wait(&status) > 0) ends when no child is left; then cleanup_ipc.
CleanUp ==
  /\ parent = "wait"
  /\ \A p \in Person : pc[p] = "exited"
  /\ parent' = "done"
  /\ UNCHANGED <<arrivals, pc, counter, sem>>

ParentStep ==
  \/ \E p \in Person : Fork(p)
  \/ ForkFails \/ ForksDone \/ Gather \/ Gathered \/ Open \/ Opened \/ CleanUp

\* The parent has returned from main or _exited.
Stopped == parent \in {"done", "failed"} /\ UNCHANGED vars

Next == ParentStep \/ (\E p \in Person : PersonStep(p)) \/ Stopped

\* Every process is scheduled.  Weak fairness is enough: a process that waits on
\* a semaphore is passed over at most once by each of the others.
Fairness == WF_vars(ParentStep) /\ \A p \in Person : WF_vars(PersonStep(p))

Spec == Init /\ [][Next]_vars /\ Fairness

-----------------------------------------------------------------------------
(* Properties *)

At(labels) == Where(pc, Person, labels)

\* Every variable stays within its type; no semaphore and no counter is negative.
TypeOK ==
  /\ parent \in ParentPC
  /\ arrivals \in 0 .. Crowd
  /\ pc \in [Person -> PersonPC]
  /\ counter \in [{"men", "women"} -> Nat]
  /\ sem \in [Semaphore -> Nat]

\* "0 - taken by one of the sexes" (shower.cpp:24): a man and a woman are never
\* in the shower together, though S_ROOM is taken and freed by different
\* processes.
Segregation ==
  \A p, q \in At({"inside"}) : Sex(p) = Sex(q)

\* "counting: free places" (shower.cpp:25): never more than N in the shower.
Capacity == Count(pc, Person, {"inside"}) <= N

\* S_ROOM is 1 exactly when neither sex holds the room, although men_in and
\* women_in change under two different mutexes; in particular it is never
\* posted twice.
RoomTruth ==
  LET holding == At({"unlock", "slot", "inside", "relock", "free"})
  IN  /\ sem["S_ROOM"] = IF holding = {} THEN 1 ELSE 0
      /\ \A p, q \in holding : Sex(p) = Sex(q)

\* "the barrier that waits for all" (shower.cpp:22-23): nobody gets past S_START
\* before everybody has stood in front of the shower.
Barrier ==
  At(PersonPC \ {"unborn", "arrive", "wait"}) # {} => At({"unborn", "arrive"}) = {}

\* When cleanup_ipc removes the set, every permit is back where it started, so no
\* process can still need it.
CleanAtEnd ==
  parent = "done" =>
    /\ sem["S_ARRIVAL"] = 0 /\ sem["S_START"] = 0 /\ sem["S_SLOTS"] = N
    /\ sem["S_ROOM"] = 1 /\ sem["S_MEN_MTX"] = 1 /\ sem["S_WOM_MTX"] = 1
    /\ counter["men"] = 0 /\ counter["women"] = 0

\* Whatever the interleaving of semops, the room behaves as Bathhouse: entering
\* is taking a slot, leaving is giving it back.
B == INSTANCE Bathhouse WITH inside <- At({"inside"}),
                             washed <- At({"relock", "free", "reunlock", "exited"})
RefinesBathhouse == B!Spec

\* Everybody who came gets a shower and goes, and the parent returns, unless a
\* fork failed: no deadlock between the mutex, the room and the slots, and
\* neither sex waits for ever.
Termination == <>(parent \in {"done", "failed"})
=============================================================================
