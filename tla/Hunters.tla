------------------------------ MODULE Hunters ------------------------------
(***************************************************************************)
(* hanters/main.c: a tribe of N hunter processes and one cook process that *)
(* share an mmap'ed SharedMemory and four POSIX semaphores.  Every day the *)
(* cook posts start_hunt once per living hunter, waits until the last one  *)
(* back posts all_hunters_back, feeds the tribe, butchers the unlucky, and *)
(* posts dinner_done once per hunter that was alive before dinner.         *)
(*                                                                         *)
(* A critical section of the code's mutex is one step when everything in   *)
(* it is private to the mutex; the cook's dinner is several steps because  *)
(* hunters read hunter_alive and hunter_ate_today without the mutex.       *)
(***************************************************************************)
EXTENDS Integers, FiniteSets, Counting

CONSTANTS N,    \* number of hunters, argv[1]
          M     \* number of days, argv[2]

ASSUME HuntersAssumption == N \in Nat \ {0} /\ M \in Nat \ {0}

Hunter == 0 .. N - 1

VARIABLES
  cook,                   \* where the cook (the parent process) is
  posts,                  \* cook's local: sem_posts left in the current loop
  hungry,                 \* cook's local hungry_count, less the victims tried
  pc,                     \* where each hunter process is
  success,                \* hunter's local: the outcome of the current hunt
  ate,                    \* hunter's local: what it read at line 96
  day, alive_count, pot_meat, hunters_back, terminate,
  hunter_alive, hunter_success_today, hunter_ate_today, hunter_forced_fail,
  mutex, start_hunt, all_hunters_back, dinner_done

cookLocals == <<posts, hungry>>
locals  == <<success, ate>>
flags   == <<hunter_alive, hunter_success_today, hunter_ate_today, hunter_forced_fail>>
scalars == <<day, alive_count, pot_meat, hunters_back, terminate>>
sems    == <<mutex, start_hunt, all_hunters_back, dinner_done>>
vars    == <<cook, cookLocals, pc, locals, flags, scalars, sems>>

CookPC   == {"fork", "failed", "morning", "send", "back", "butcher", "curse",
             "dinner", "finish", "release", "reap", "done"}
HunterPC == {"unborn", "start", "check", "hunt", "deposit", "signal", "dinner",
             "report", "mourn", "exited"}

sem_wait(sem) == sem > 0 /\ sem' = sem - 1
sem_post(sem) == sem' = sem + 1

Alive     == {h \in Hunter : hunter_alive[h]}
Unlucky   == {h \in Alive : ~hunter_success_today[h]}
\* The k lowest-numbered members of S: both loops of the dinner go up from 0.
First(k, S) == {h \in S : Cardinality({g \in S : g < h}) < k}

Goto(h, label) == pc' = [pc EXCEPT ![h] = label]

-----------------------------------------------------------------------------
(* main: shared memory and semaphores, then one fork per hunter. *)

Init ==
  /\ cook = "fork" /\ posts = 0 /\ hungry = 0
  /\ pc = [h \in Hunter |-> "unborn"]
  /\ success = [h \in Hunter |-> FALSE]
  /\ ate = [h \in Hunter |-> FALSE]
  /\ day = 0 /\ alive_count = N /\ pot_meat = 0 /\ hunters_back = 0
  /\ terminate = FALSE
  /\ hunter_alive = [h \in Hunter |-> TRUE]
  /\ hunter_success_today = [h \in Hunter |-> FALSE]
  /\ hunter_ate_today = [h \in Hunter |-> FALSE]
  /\ hunter_forced_fail = [h \in Hunter |-> FALSE]
  /\ mutex = 1 /\ start_hunt = 0 /\ all_hunters_back = 0 /\ dinner_done = 0

Fork(h) ==
  /\ cook = "fork"
  /\ pc[h] = "unborn"
  /\ \A g \in Hunter : g < h => pc[g] # "unborn"
  /\ Goto(h, "start")
  /\ cook' = IF h = N - 1 THEN "morning" ELSE "fork"
  /\ UNCHANGED <<cookLocals, locals, flags, scalars, sems>>

\* my_fork: the parent prints the error and _exits; the hunters it has already
\* forked live on.
ForkFails ==
  /\ cook = "fork"
  /\ cook' = "failed"
  /\ UNCHANGED <<cookLocals, pc, locals, flags, scalars, sems>>

-----------------------------------------------------------------------------
(* hunter_process *)

WaitStart(h) ==
  /\ pc[h] = "start"
  /\ sem_wait(start_hunt)
  /\ Goto(h, "check")
  /\ UNCHANGED <<cook, cookLocals, locals, flags, scalars, mutex,
                 all_hunters_back, dinner_done>>

\* Reads hunter_alive and terminate without the mutex.
CheckAlive(h) ==
  /\ pc[h] = "check"
  /\ Goto(h, IF terminate \/ ~hunter_alive[h] THEN "exited" ELSE "hunt")
  /\ UNCHANGED <<cook, cookLocals, locals, flags, scalars, sems>>

\* Mutant: the curse is not looked at.
HuntUncursed(h) ==
  /\ pc[h] = "hunt"
  /\ \E luck \in BOOLEAN : success' = [success EXCEPT ![h] = luck]
  /\ Goto(h, "deposit")
  /\ UNCHANGED <<cook, cookLocals, ate, flags, scalars, sems>>

\* Reads hunter_forced_fail without the mutex; luck is rand() % 2.
Hunt(h) ==
  /\ pc[h] = "hunt"
  /\ \E luck \in BOOLEAN :
       success' = [success EXCEPT ![h] = luck /\ ~hunter_forced_fail[h]]
  /\ Goto(h, "deposit")
  /\ UNCHANGED <<cook, cookLocals, ate, flags, scalars, sems>>

\* Who of the returning hunters wakes the cook: the one that makes the tribe
\* complete.  Mutants: the last but one; the last of the tribe as it was at first.
LastButOne(back) == back = alive_count - 1
LastOfAll(back)  == back = N
LastBack(back)   == back = alive_count

\* The critical section of lines 73-86; only the hunter that finds
\* back == alive_count goes on to wake the cook.
Deposit(h) ==
  /\ pc[h] = "deposit"
  /\ mutex = 1
  /\ hunter_success_today' = [hunter_success_today EXCEPT ![h] = success[h]]
  /\ pot_meat' = IF success[h] THEN pot_meat + 1 ELSE pot_meat
  /\ hunters_back' = hunters_back + 1
  /\ success' = [success EXCEPT ![h] = FALSE]
  /\ Goto(h, IF LastBack(hunters_back') THEN "signal" ELSE "dinner")
  /\ UNCHANGED <<cook, cookLocals, ate, day, alive_count, terminate, hunter_alive,
                 hunter_ate_today, hunter_forced_fail, sems>>

WakeCook(h) ==
  /\ pc[h] = "signal"
  /\ sem_post(all_hunters_back)
  /\ Goto(h, "dinner")
  /\ UNCHANGED <<cook, cookLocals, locals, flags, scalars, mutex,
                 start_hunt, dinner_done>>

WaitDinner(h) ==
  /\ pc[h] = "dinner"
  /\ sem_wait(dinner_done)
  /\ Goto(h, "report")
  /\ UNCHANGED <<cook, cookLocals, locals, flags, scalars, mutex,
                 start_hunt, all_hunters_back>>

\* Lines 96 and 97 are two unsynchronised reads.
ReadAte(h) ==
  /\ pc[h] = "report"
  /\ ate' = [ate EXCEPT ![h] = hunter_ate_today[h]]
  /\ Goto(h, "mourn")
  /\ UNCHANGED <<cook, cookLocals, success, flags, scalars, sems>>

ReadAlive(h) ==
  /\ pc[h] = "mourn"
  /\ ate' = [ate EXCEPT ![h] = FALSE]
  /\ Goto(h, IF hunter_alive[h] THEN "start" ELSE "exited")
  /\ UNCHANGED <<cook, cookLocals, success, flags, scalars, sems>>

HunterStep(h) ==
  \/ WaitStart(h) \/ CheckAlive(h) \/ Hunt(h) \/ Deposit(h) \/ WakeCook(h)
  \/ WaitDinner(h) \/ ReadAte(h) \/ ReadAlive(h)

-----------------------------------------------------------------------------
(* cook_process *)

\* How many hunters a day sends out: the living.  Mutant: everybody.
SendEverybody == N
ToSend == alive_count

DayBegins ==
  /\ cook = "morning" /\ day < M
  /\ mutex = 1
  /\ alive_count > 0
  /\ day' = day + 1
  /\ pot_meat' = 0
  /\ hunters_back' = 0
  /\ hunter_success_today' = [h \in Hunter |-> FALSE]
  /\ hunter_ate_today' = [h \in Hunter |-> FALSE]
  /\ posts' = ToSend
  /\ cook' = "send"
  /\ UNCHANGED <<hungry, pc, locals, alive_count, terminate, hunter_alive,
                 hunter_forced_fail, sems>>

TribeExtinct ==
  /\ cook = "morning" /\ day < M
  /\ mutex = 1
  /\ alive_count = 0
  /\ terminate' = TRUE
  /\ cook' = "finish"
  /\ UNCHANGED <<cookLocals, pc, locals, flags, day, alive_count, pot_meat,
                 hunters_back, sems>>

SendHunter ==
  /\ cook = "send"
  /\ sem_post(start_hunt)
  /\ posts' = posts - 1
  /\ cook' = IF posts' = 0 THEN "back" ELSE "send"
  /\ UNCHANGED <<hungry, pc, locals, flags, scalars, mutex,
                 all_hunters_back, dinner_done>>

\* The cook eats first.  Mutant: it leaves the meat to the hunters.
ShareAll == pot_meat
Share == IF pot_meat > 0 THEN pot_meat - 1 ELSE 0
Fed   == First(Share, Alive)

\* Woken by the last hunter, the cook locks the mutex and serves the meat in
\* index order.
Serve ==
  /\ cook = "back"
  /\ sem_wait(all_hunters_back)
  /\ sem_wait(mutex)
  /\ hunter_ate_today' =
       [h \in Hunter |-> IF hunter_alive[h] THEN h \in Fed ELSE hunter_ate_today[h]]
  /\ hungry' = Cardinality(Alive \ Fed)
  /\ posts' = alive_count
  /\ cook' = "butcher"
  /\ UNCHANGED <<pc, locals, scalars, hunter_alive, hunter_success_today,
                 hunter_forced_fail, start_hunt, dinner_done>>

\* One victim per hungry mouth, as long as somebody living had no luck today.
Butcher ==
  /\ cook = "butcher"
  /\ hungry > 0
  /\ \E victim \in First(1, Unlucky) :
       hunter_alive' = [hunter_alive EXCEPT ![victim] = FALSE]
  /\ alive_count' = alive_count - 1
  /\ hungry' = hungry - 1
  /\ UNCHANGED <<cook, posts, pc, locals, hunter_success_today,
                 hunter_ate_today, hunter_forced_fail, day, pot_meat,
                 hunters_back, terminate, sems>>

\* Mutant: dinner is called for those alive after it.
ButcherDoneRecount ==
  /\ cook = "butcher"
  /\ hungry = 0 \/ Unlucky = {}
  /\ hungry' = 0
  /\ posts' = alive_count
  /\ cook' = "curse"
  /\ UNCHANGED <<pc, locals, flags, scalars, sems>>

ButcherDone ==
  /\ cook = "butcher"
  /\ hungry = 0 \/ Unlucky = {}
  /\ hungry' = 0
  /\ cook' = "curse"
  /\ UNCHANGED <<posts, pc, locals, flags, scalars, sems>>

Curse ==
  /\ cook = "curse"
  /\ hunter_forced_fail' =
       [h \in Hunter |-> IF hunter_alive[h] THEN ~hunter_ate_today[h]
                                            ELSE hunter_forced_fail[h]]
  /\ sem_post(mutex)
  /\ cook' = "dinner"
  /\ UNCHANGED <<cookLocals, pc, locals, hunter_alive, hunter_success_today,
                 hunter_ate_today, scalars, start_hunt, all_hunters_back,
                 dinner_done>>

CallToDinner ==
  /\ cook = "dinner"
  /\ sem_post(dinner_done)
  /\ posts' = posts - 1
  /\ cook' = IF posts' = 0 THEN "morning" ELSE "dinner"
  /\ UNCHANGED <<hungry, pc, locals, flags, scalars, mutex, start_hunt,
                 all_hunters_back>>

Finish ==
  /\ cook = "finish" \/ (cook = "morning" /\ day = M)
  /\ terminate' = TRUE
  /\ posts' = alive_count + 4
  /\ cook' = "release"
  /\ UNCHANGED <<hungry, pc, locals, flags, day, alive_count, pot_meat,
                 hunters_back, sems>>

\* One turn of the closing loop: a post of each semaphore.
Release ==
  /\ cook = "release"
  /\ sem_post(start_hunt)
  /\ sem_post(dinner_done)
  /\ posts' = posts - 1
  /\ cook' = IF posts' = 0 THEN "reap" ELSE "release"
  /\ UNCHANGED <<hungry, pc, locals, flags, scalars, mutex,
                 all_hunters_back>>

\* N calls of wait(NULL), then the semaphores and the mapping go.
Reap ==
  /\ cook = "reap"
  /\ \A h \in Hunter : pc[h] = "exited"
  /\ cook' = "done"
  /\ UNCHANGED <<cookLocals, pc, locals, flags, scalars, sems>>

CookStep ==
  \/ \E h \in Hunter : Fork(h)
  \/ ForkFails \/ DayBegins \/ TribeExtinct \/ SendHunter \/ Serve \/ Butcher
  \/ ButcherDone \/ Curse \/ CallToDinner \/ Finish \/ Release \/ Reap

\* The parent has returned from main or _exited.
Stopped == cook \in {"done", "failed"} /\ UNCHANGED vars

Next == CookStep \/ (\E h \in Hunter : HunterStep(h)) \/ Stopped

\* Every process is scheduled: none that can run is left out for ever.
Fairness == WF_vars(CookStep) /\ \A h \in Hunter : WF_vars(HunterStep(h))

Spec == Init /\ [][Next]_vars /\ Fairness

-----------------------------------------------------------------------------
(* Properties *)

\* The hunters that hold a start_hunt token, that are about to wake the cook, and
\* that came back and wait for dinner.
Out     == Count(pc, Hunter, {"check", "hunt", "deposit"})
Callers == Count(pc, Hunter, {"signal"})
Diners  == Count(pc, Hunter, {"signal", "dinner"})

\* Every variable of the model stays within its type; semaphores are never
\* negative and the mutex is binary.
TypeOK ==
  /\ cook \in CookPC /\ posts \in Nat /\ hungry \in Nat
  /\ pc \in [Hunter -> HunterPC]
  /\ success \in [Hunter -> BOOLEAN] /\ ate \in [Hunter -> BOOLEAN]
  /\ day \in 0 .. M /\ alive_count \in 0 .. N
  /\ pot_meat \in Nat /\ hunters_back \in Nat
  /\ terminate \in BOOLEAN
  /\ hunter_alive \in [Hunter -> BOOLEAN]
  /\ hunter_success_today \in [Hunter -> BOOLEAN]
  /\ hunter_ate_today \in [Hunter -> BOOLEAN]
  /\ hunter_forced_fail \in [Hunter -> BOOLEAN]
  /\ mutex \in {0, 1}
  /\ start_hunt \in Nat /\ all_hunters_back \in Nat /\ dinner_done \in Nat

\* While a hunt is on, the start_hunt tokens still to come, those lying there,
\* those in a hunter's hands and the hunts already reported never exceed the
\* living: back == alive_count (line 89) is hit once a day, by the last hunt.
StartLedger ==
  cook \in {"send", "back"} =>
    posts + start_hunt + Out + hunters_back <= alive_count

\* From the moment the cook may be woken until the day is over, nobody is out
\* hunting, no start_hunt token is left over, and the wake-up is posted once:
\* the unlocked read of hunter_forced_fail at line 67 meets no write.
HuntIsOver ==
  /\ all_hunters_back + Callers <= 1
  /\ \/ all_hunters_back + Callers = 1
     \/ cook \in {"butcher", "curse", "dinner", "morning", "finish"}
     => start_hunt = 0 /\ Out = 0

\* dinner_done is posted exactly once per hunt: outside the closing release the
\* tokens there and to come are as many as the hunters that wait for one, so a
\* token taken by the wrong hunter is missed by somebody, and no hunter is left
\* waiting for a dinner after the last day.
DinnerLedger ==
  /\ cook \in {"morning", "finish"} => dinner_done = Diners
  /\ cook \in {"send", "back"} => dinner_done + hunters_back = Diners
  /\ cook \in {"butcher", "curse", "dinner"} => dinner_done + posts = Diners
  /\ cook \in {"release", "reap"} => dinner_done >= Diners

\* alive_count, which decides how many posts and returns a day has, is the
\* number of hunters flagged alive, at every point of the butchering.
AliveCountExact == alive_count = Cardinality(Alive)

\* "A hunter who has not eaten will be unlucky in the next hunt"
\* (task_3a.txt:8): the flag is read at line 67 and the meat goes into the pot at
\* line 76, yet no hunter under the curse ever adds a piece.
HungryBringNothing ==
  [][\A h \in Hunter :
       pot_meat' > pot_meat /\ pc[h] = "deposit" /\ pc'[h] # "deposit"
         => ~hunter_forced_fail[h]]_vars

\* The evenings refine Tribe: the commit point is Serve, when the outcome of the
\* butchering and of the curse is already decided by the pot and the flags.
Survivors == IF cook = "butcher" THEN Alive \ First(hungry, Unlucky) ELSE Alive
HungryTomorrow ==
  IF cook \in {"butcher", "curse"}
  THEN {h \in Survivors : ~hunter_ate_today[h]}
  ELSE {h \in Survivors : hunter_forced_fail[h]}
Evenings == IF cook \in {"send", "back"} THEN day - 1 ELSE day

T == INSTANCE Tribe WITH evening <- Evenings, tribe <- Survivors,
                         cursed <- HungryTomorrow

\* Whatever the interleaving, each evening is one step of Tribe.
RefinesTribe == T!Spec

\* The hunt in which a hunter was missing: all who went are back, their number is
\* less than alive_count, and no start_hunt token is left.  Only a butchered hunter
\* that took a token and exited at line 56 can have brought this about.
Starved ==
  /\ cook = "back" /\ start_hunt = 0 /\ Out = 0
  /\ all_hunters_back + Callers = 0 /\ hunters_back < alive_count
  /\ \E h \in Hunter : ~hunter_alive[h] /\ pc[h] = "exited"

\* Every hunter process ends and the parent returns, unless a fork failed or a
\* hunt was starved of a token: nothing else can hold up the program, and no
\* hunter is left behind by the closing release.
EndsUnlessStarved == <>(cook \in {"done", "failed"}) \/ <>[]Starved

\* Each day the cook begins, it also ends: the last hunter back wakes it
\* (main.c:147-148).
DayEnds == cook = "send" ~> cook = "morning"

\* What a hunter prints after dinner is what awaits it: "ate, will hunt as usual
\* tomorrow" or "stayed hungry, will surely be unlucky tomorrow" (main.c:105-108).
ReportsHonestly ==
  [][\A h \in Hunter :
       pc[h] = "mourn" /\ pc'[h] = "start" => hunter_forced_fail[h] = ~ate[h]]_vars
=============================================================================
