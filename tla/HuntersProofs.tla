---------------------------- MODULE HuntersProofs --------------------------
(***************************************************************************)
(* Theorems about Hunters for every number of hunters and of days.  The    *)
(* argument follows the tokens: start_hunt tokens are handed out, carried  *)
(* and returned, and the hunter whose return completes the day is the only *)
(* one that wakes the cook; so the cook's dinner overlaps no hunt, and     *)
(* dinner_done is posted once for every hunter that came back.             *)
(***************************************************************************)
EXTENDS Hunters, CountingTheorems

Serving == {"butcher", "curse", "dinner"}
Closing == {"release", "reap", "done"}

\* The cook holds the mutex while it shares out the meat and butchers.
MutexTruth == mutex = IF cook \in {"butcher", "curse"} THEN 0 ELSE 1

\* A posting loop of the cook has something left to post; a day has hunters.
Loops ==
  /\ cook \in {"send", "release"} \cup Serving => posts > 0
  /\ cook = "back" => posts = 0
  /\ cook \in {"send", "back"} => alive_count > 0

\* Before the first day nothing has moved.
Before ==
  cook \in {"fork", "failed"} =>
    /\ start_hunt = 0 /\ dinner_done = 0 /\ hunters_back = 0
    /\ all_hunters_back = 0
    /\ \A h \in Hunter : pc[h] \in {"unborn", "start"}

\* The cook is woken once, by the hunter that completes the day.
Woken ==
  /\ cook # "back" => all_hunters_back = 0 /\ Callers = 0
  /\ all_hunters_back + Callers <= 1
  /\ cook = "back" /\ all_hunters_back + Callers = 1 => hunters_back = alive_count

\* Outside the hunt nobody is out and no start_hunt token lies about.
Quiet == cook \in {"morning", "finish"} \cup Serving => start_hunt = 0 /\ Out = 0

\* Once the closing release has begun, whoever takes a token exits.
Closed ==
  cook \in Closing => terminate /\ \A h \in Hunter : pc[h] \notin {"hunt", "deposit"}

\* The curse a hunter read before its hunt still stands when it deposits.
CurseStands ==
  \A h \in Hunter : pc[h] = "deposit" /\ success[h] => ~hunter_forced_fail[h]

HInv ==
  /\ TypeOK /\ AliveCountExact /\ MutexTruth /\ Loops /\ Before
  /\ StartLedger /\ Woken /\ Quiet /\ DinnerLedger /\ Closed /\ CurseStands
-----------------------------------------------------------------------------
(* Vocabulary *)

LEMMA Finite == IsFiniteSet(Hunter) /\ Cardinality(Hunter) = N
  BY HuntersAssumption, FS_Interval DEF Hunter

LEMMA CountsAreNat == Out \in Nat /\ Callers \in Nat /\ Diners \in Nat
  BY Finite, CountType DEF Out, Callers, Diners

\* A count that is zero tells where nobody is.
LEMMA Nobody ==
  /\ Out = 0 <=> \A h \in Hunter : pc[h] \notin {"check", "hunt", "deposit"}
  /\ Callers = 0 <=> \A h \in Hunter : pc[h] # "signal"
  /\ Diners = 0 <=> \A h \in Hunter : pc[h] \notin {"signal", "dinner"}
  BY Finite, CountZero DEF Out, Callers, Diners

\* What one hunter does to the counts when it moves.
LEMMA Moves ==
  ASSUME TypeOK, NEW h \in Hunter, NEW l \in HunterPC, Goto(h, l)
  PROVE  /\ pc' \in [Hunter -> HunterPC]
         /\ pc'[h] = l
         /\ \A g \in Hunter : g # h => pc'[g] = pc[g]
         /\ Out' = Out + (IF l \in {"check", "hunt", "deposit"} THEN 1 ELSE 0)
                         - (IF pc[h] \in {"check", "hunt", "deposit"} THEN 1 ELSE 0)
         /\ Callers' = Callers + (IF l = "signal" THEN 1 ELSE 0)
                               - (IF pc[h] = "signal" THEN 1 ELSE 0)
         /\ Diners' = Diners + (IF l \in {"signal", "dinner"} THEN 1 ELSE 0)
                               - (IF pc[h] \in {"signal", "dinner"} THEN 1 ELSE 0)
  <1>1. /\ pc' \in [Hunter -> HunterPC]
        /\ pc'[h] = l
        /\ \A g \in Hunter : g # h => pc'[g] = pc[g]
    BY DEF Goto, TypeOK
  <1>2. ASSUME NEW L
        PROVE  Count(pc', Hunter, L) = Count(pc, Hunter, L) + (IF l \in L THEN 1 ELSE 0)
                                                          - (IF pc[h] \in L THEN 1 ELSE 0)
    <2>1. Where(pc', Hunter, L) \ {h} = Where(pc, Hunter, L) \ {h}
      BY <1>1 DEF Where
    <2>2. /\ h \in Where(pc', Hunter, L) <=> l \in L
          /\ h \in Where(pc, Hunter, L) <=> pc[h] \in L
      BY <1>1 DEF Where
    <2>3. QED
      BY <2>1, <2>2, Finite, CountMove
  <1>3. Callers' = Callers + (IF l \in {"signal"} THEN 1 ELSE 0)
                          - (IF pc[h] \in {"signal"} THEN 1 ELSE 0)
    BY <1>2 DEF Callers
  <1>4. QED
    BY <1>1, <1>2, <1>3 DEF Out, Diners

\* The counts depend on nothing but where the hunters are.
LEMMA CountsStay ==
  ASSUME UNCHANGED pc
  PROVE  Out' = Out /\ Callers' = Callers /\ Diners' = Diners
  BY DEF Out, Callers, Diners

-----------------------------------------------------------------------------
(* The hunters keep the invariant *)

LEMMA HunterFrame ==
  ASSUME HInv, NEW h \in Hunter, HunterStep(h)
  PROVE  AliveCountExact' /\ MutexTruth' /\ Loops'
  BY DEF HInv, HunterStep, WaitStart, CheckAlive, Hunt, Deposit, WakeCook, WaitDinner,
         ReadAte, ReadAlive, AliveCountExact, Alive, MutexTruth, Loops, Serving,
         scalars, flags, cookLocals, sems

LEMMA WaitStartKeeps ==
  ASSUME HInv, NEW h \in Hunter, WaitStart(h)
  PROVE  HInv'
  <1> USE DEF HInv
  <1>1. /\ pc[h] = "start" /\ Goto(h, "check") /\ sem_wait(start_hunt)
        /\ UNCHANGED <<cook, posts, alive_count, terminate, hunter_forced_fail,
                       hunter_alive, hunters_back,
                       success, all_hunters_back, dinner_done>>
    BY DEF WaitStart, locals, flags, scalars, cookLocals, sems
  <1>2. TypeOK'
    BY <1>1, Moves DEF WaitStart, TypeOK, HunterPC, sem_wait, sem_post, locals, flags, scalars,
           sems, cookLocals
  <1>3. Before'
    BY <1>1, Moves DEF Before, HunterPC, sem_wait
  <1>4. StartLedger' /\ DinnerLedger'
    BY <1>1, Moves, CountsAreNat
    DEF TypeOK, HunterPC, StartLedger, DinnerLedger, Quiet, Serving, sem_wait, sem_post
  <1>5. Woken' /\ Quiet'
    BY <1>1, Moves, CountsAreNat, Nobody
    DEF TypeOK, HunterPC, Woken, Quiet, Serving, StartLedger, sem_wait, sem_post
  <1>6. Closed' /\ CurseStands'
    BY <1>1, Moves DEF TypeOK, HunterPC, Closed, CurseStands, Closing
  <1>7. QED
    BY <1>2, <1>3, <1>4, <1>5, <1>6, HunterFrame DEF HunterStep

LEMMA CheckAliveKeeps ==
  ASSUME HInv, NEW h \in Hunter, CheckAlive(h)
  PROVE  HInv'
  <1> USE DEF HInv
  <1>1. /\ pc[h] = "check" /\ Goto(h, IF terminate \/ ~hunter_alive[h] THEN "exited" ELSE "hunt")
        /\ UNCHANGED <<cook, posts, alive_count, terminate, hunter_forced_fail,
                       hunter_alive, hunters_back,
                       success, start_hunt, all_hunters_back, dinner_done>>
    BY DEF CheckAlive, locals, flags, scalars, cookLocals, sems
  <1>2. TypeOK'
    BY <1>1, Moves DEF CheckAlive, TypeOK, HunterPC, sem_wait, sem_post, locals, flags, scalars,
           sems, cookLocals
  <1>3. Before'
    BY <1>1, Moves DEF Before, HunterPC, sem_wait
  <1>4. StartLedger' /\ DinnerLedger'
    BY <1>1, Moves, CountsAreNat
    DEF TypeOK, HunterPC, StartLedger, DinnerLedger, Quiet, Serving, sem_wait, sem_post
  <1>5. Woken' /\ Quiet'
    BY <1>1, Moves, CountsAreNat, Nobody
    DEF TypeOK, HunterPC, Woken, Quiet, Serving, StartLedger, sem_wait, sem_post
  <1>6. Closed' /\ CurseStands'
    BY <1>1, Moves DEF TypeOK, HunterPC, Closed, CurseStands, Closing
  <1>7. QED
    BY <1>2, <1>3, <1>4, <1>5, <1>6, HunterFrame DEF HunterStep

LEMMA HuntKeeps ==
  ASSUME HInv, NEW h \in Hunter, Hunt(h)
  PROVE  HInv'
  <1> USE DEF HInv
  <1>1. /\ pc[h] = "hunt" /\ Goto(h, "deposit")
        /\ UNCHANGED <<cook, posts, alive_count, terminate, hunter_forced_fail,
                       hunter_alive, hunters_back,
                       start_hunt, all_hunters_back, dinner_done>>
    BY DEF Hunt, locals, flags, scalars, cookLocals, sems
  <1>2. TypeOK'
    BY <1>1, Moves DEF Hunt, TypeOK, HunterPC, sem_wait, sem_post, locals, flags, scalars,
           sems, cookLocals
  <1>3. Before'
    BY <1>1, Moves DEF Before, HunterPC, sem_wait
  <1>4. StartLedger' /\ DinnerLedger'
    BY <1>1, Moves, CountsAreNat
    DEF TypeOK, HunterPC, StartLedger, DinnerLedger, Quiet, Serving, sem_wait, sem_post
  <1>5. Woken' /\ Quiet'
    BY <1>1, Moves, CountsAreNat, Nobody
    DEF TypeOK, HunterPC, Woken, Quiet, Serving, StartLedger, sem_wait, sem_post
  <1>6. Closed' /\ CurseStands'
    <2>1. Closed'
      BY <1>1, Moves DEF Closed, Closing, HunterPC
    <2>2. \A g \in Hunter : g # h => success'[g] = success[g]
      BY DEF Hunt, TypeOK
    <2>3. success'[h] => ~hunter_forced_fail[h]
      BY DEF Hunt, TypeOK
    <2>4. CurseStands'
      BY <1>1, <2>2, <2>3, Moves DEF CurseStands, HunterPC
    <2>5. QED
      BY <2>1, <2>4
  <1>7. QED
    BY <1>2, <1>3, <1>4, <1>5, <1>6, HunterFrame DEF HunterStep

LEMMA DepositKeeps ==
  ASSUME HInv, NEW h \in Hunter, Deposit(h)
  PROVE  HInv'
  <1> USE DEF HInv
  <1>1. /\ pc[h] = "deposit" /\ mutex = 1 /\ hunters_back' = hunters_back + 1
        /\ Goto(h, IF hunters_back' = alive_count THEN "signal" ELSE "dinner")
        /\ UNCHANGED <<cook, posts, alive_count, terminate, hunter_forced_fail,
                       hunter_alive,
                       start_hunt, all_hunters_back, dinner_done>>
    BY DEF Deposit, LastBack, locals, flags, scalars, cookLocals, sems
  <1>2. TypeOK'
    BY <1>1, Moves DEF Deposit, LastBack, TypeOK, HunterPC, sem_wait, sem_post, locals, flags, scalars,
           sems, cookLocals
  <1>3. Before'
    BY <1>1, Moves DEF Before, HunterPC, sem_wait
  <1>4. /\ cook \in {"send", "back"} /\ Out > 0
        /\ Out' = Out - 1 /\ Diners' = Diners + 1
        /\ Callers' = Callers + (IF hunters_back' = alive_count THEN 1 ELSE 0)
    <2>1. Out # 0
      BY <1>1, Nobody
    <2>2. cook \in {"send", "back"}
      BY <1>1, <2>1 DEF Quiet, Before, Closed, TypeOK, CookPC, Serving, Closing
    <2>3. QED
      BY <1>1, <2>1, <2>2, Moves, CountsAreNat DEF HunterPC
  <1>5. StartLedger' /\ DinnerLedger' /\ Woken' /\ Quiet'
    <2>1. StartLedger' /\ DinnerLedger'
      BY <1>1, <1>4, CountsAreNat DEF StartLedger, DinnerLedger, TypeOK
    <2>2. hunters_back < alive_count
      BY <1>4, CountsAreNat DEF StartLedger, TypeOK
    <2>3. cook = "send" => hunters_back' < alive_count
      BY <1>1, <1>4, CountsAreNat DEF StartLedger, TypeOK, Loops
    <2>4. all_hunters_back + Callers = 0
      BY <1>4, <2>2, CountsAreNat DEF Woken, TypeOK
    <2>5. Woken'
      BY <1>1, <1>4, <2>2, <2>3, <2>4, CountsAreNat DEF Woken, TypeOK
    <2>6. Quiet'
      BY <1>1, <1>4 DEF Quiet, Serving
    <2>7. QED
      BY <2>1, <2>5, <2>6
  <1>6. Closed' /\ CurseStands'
    <2>1. Closed'
      BY <1>1, Moves DEF Closed, Closing, HunterPC
    <2>2. \A g \in Hunter : g # h => success'[g] = success[g]
      BY DEF Deposit, TypeOK
    <2>3. CurseStands'
      BY <1>1, <2>2, Moves DEF CurseStands, HunterPC
    <2>4. QED
      BY <2>1, <2>3
  <1>7. QED
    BY <1>2, <1>3, <1>5, <1>6, HunterFrame DEF HunterStep

LEMMA WakeCookKeeps ==
  ASSUME HInv, NEW h \in Hunter, WakeCook(h)
  PROVE  HInv'
  <1> USE DEF HInv
  <1>1. /\ pc[h] = "signal" /\ Goto(h, "dinner") /\ sem_post(all_hunters_back)
        /\ UNCHANGED <<cook, posts, alive_count, terminate, hunter_forced_fail,
                       hunter_alive, hunters_back,
                       success, start_hunt, dinner_done>>
    BY DEF WakeCook, locals, flags, scalars, cookLocals, sems
  <1>2. TypeOK'
    BY <1>1, Moves DEF WakeCook, TypeOK, HunterPC, sem_wait, sem_post, locals, flags, scalars,
           sems, cookLocals
  <1>3. Before'
    BY <1>1, Moves DEF Before, HunterPC, sem_wait
  <1>4. StartLedger' /\ DinnerLedger'
    BY <1>1, Moves, CountsAreNat
    DEF TypeOK, HunterPC, StartLedger, DinnerLedger, Quiet, Serving, sem_wait, sem_post
  <1>5. Woken' /\ Quiet'
    BY <1>1, Moves, CountsAreNat, Nobody
    DEF TypeOK, HunterPC, Woken, Quiet, Serving, StartLedger, sem_wait, sem_post
  <1>6. Closed' /\ CurseStands'
    BY <1>1, Moves DEF TypeOK, HunterPC, Closed, CurseStands, Closing
  <1>7. QED
    BY <1>2, <1>3, <1>4, <1>5, <1>6, HunterFrame DEF HunterStep

LEMMA WaitDinnerKeeps ==
  ASSUME HInv, NEW h \in Hunter, WaitDinner(h)
  PROVE  HInv'
  <1> USE DEF HInv
  <1>1. /\ pc[h] = "dinner" /\ Goto(h, "report") /\ sem_wait(dinner_done)
        /\ UNCHANGED <<cook, posts, alive_count, terminate, hunter_forced_fail,
                       hunter_alive, hunters_back,
                       success, start_hunt, all_hunters_back>>
    BY DEF WaitDinner, locals, flags, scalars, cookLocals, sems
  <1>2. TypeOK'
    BY <1>1, Moves DEF WaitDinner, TypeOK, HunterPC, sem_wait, sem_post, locals, flags, scalars,
           sems, cookLocals
  <1>3. Before'
    BY <1>1, Moves DEF Before, HunterPC, sem_wait
  <1>4. StartLedger' /\ DinnerLedger'
    BY <1>1, Moves, CountsAreNat
    DEF TypeOK, HunterPC, StartLedger, DinnerLedger, Quiet, Serving, sem_wait, sem_post
  <1>5. Woken' /\ Quiet'
    BY <1>1, Moves, CountsAreNat, Nobody
    DEF TypeOK, HunterPC, Woken, Quiet, Serving, StartLedger, sem_wait, sem_post
  <1>6. Closed' /\ CurseStands'
    BY <1>1, Moves DEF TypeOK, HunterPC, Closed, CurseStands, Closing
  <1>7. QED
    BY <1>2, <1>3, <1>4, <1>5, <1>6, HunterFrame DEF HunterStep

LEMMA ReadAteKeeps ==
  ASSUME HInv, NEW h \in Hunter, ReadAte(h)
  PROVE  HInv'
  <1> USE DEF HInv
  <1>1. /\ pc[h] = "report" /\ Goto(h, "mourn")
        /\ UNCHANGED <<cook, posts, alive_count, terminate, hunter_forced_fail,
                       hunter_alive, hunters_back,
                       success, start_hunt, all_hunters_back, dinner_done>>
    BY DEF ReadAte, locals, flags, scalars, cookLocals, sems
  <1>2. TypeOK'
    BY <1>1, Moves DEF ReadAte, TypeOK, HunterPC, sem_wait, sem_post, locals, flags, scalars,
           sems, cookLocals
  <1>3. Before'
    BY <1>1, Moves DEF Before, HunterPC, sem_wait
  <1>4. StartLedger' /\ DinnerLedger'
    BY <1>1, Moves, CountsAreNat
    DEF TypeOK, HunterPC, StartLedger, DinnerLedger, Quiet, Serving, sem_wait, sem_post
  <1>5. Woken' /\ Quiet'
    BY <1>1, Moves, CountsAreNat, Nobody
    DEF TypeOK, HunterPC, Woken, Quiet, Serving, StartLedger, sem_wait, sem_post
  <1>6. Closed' /\ CurseStands'
    BY <1>1, Moves DEF TypeOK, HunterPC, Closed, CurseStands, Closing
  <1>7. QED
    BY <1>2, <1>3, <1>4, <1>5, <1>6, HunterFrame DEF HunterStep

LEMMA ReadAliveKeeps ==
  ASSUME HInv, NEW h \in Hunter, ReadAlive(h)
  PROVE  HInv'
  <1> USE DEF HInv
  <1>1. /\ pc[h] = "mourn" /\ Goto(h, IF hunter_alive[h] THEN "start" ELSE "exited")
        /\ UNCHANGED <<cook, posts, alive_count, terminate, hunter_forced_fail,
                       hunter_alive, hunters_back,
                       success, start_hunt, all_hunters_back, dinner_done>>
    BY DEF ReadAlive, locals, flags, scalars, cookLocals, sems
  <1>2. TypeOK'
    BY <1>1, Moves DEF ReadAlive, TypeOK, HunterPC, sem_wait, sem_post, locals, flags, scalars,
           sems, cookLocals
  <1>3. Before'
    BY <1>1, Moves DEF Before, HunterPC, sem_wait
  <1>4. StartLedger' /\ DinnerLedger'
    BY <1>1, Moves, CountsAreNat
    DEF TypeOK, HunterPC, StartLedger, DinnerLedger, Quiet, Serving, sem_wait, sem_post
  <1>5. Woken' /\ Quiet'
    BY <1>1, Moves, CountsAreNat, Nobody
    DEF TypeOK, HunterPC, Woken, Quiet, Serving, StartLedger, sem_wait, sem_post
  <1>6. Closed' /\ CurseStands'
    BY <1>1, Moves DEF TypeOK, HunterPC, Closed, CurseStands, Closing
  <1>7. QED
    BY <1>2, <1>3, <1>4, <1>5, <1>6, HunterFrame DEF HunterStep

-----------------------------------------------------------------------------
(* The cook keeps the invariant *)

LEMMA ForkKeeps ==
  ASSUME HInv, NEW h \in Hunter, Fork(h)
  PROVE  HInv'
  <1> USE DEF HInv
  <1>1. /\ cook = "fork" /\ pc[h] = "unborn" /\ Goto(h, "start") /\ cook' \in {"fork", "morning"}
        /\ UNCHANGED <<posts, alive_count, terminate, hunter_forced_fail, hunter_alive,
                       mutex,
                       hunters_back, success, start_hunt, all_hunters_back, dinner_done>>
    BY DEF Fork, locals, flags, scalars, cookLocals, sems
  <1>2. TypeOK'
    BY <1>1, Moves DEF Fork, TypeOK, CookPC, HunterPC, locals, flags, scalars, sems, cookLocals
  <1>3. AliveCountExact' /\ MutexTruth' /\ Loops'
    BY <1>1 DEF AliveCountExact, Alive, MutexTruth, Loops, Serving
  <1>4. Before' /\ Closed' /\ CurseStands'
    BY <1>1, Moves DEF Before, Closed, CurseStands, Closing, HunterPC
  <1>5. Out = 0 /\ Callers = 0 /\ Diners = 0
    BY <1>1, Nobody DEF Before
  <1>6. Out' = 0 /\ Callers' = 0 /\ Diners' = 0
    BY <1>1, <1>5, Moves DEF HunterPC
  <1>7. StartLedger' /\ DinnerLedger' /\ Woken' /\ Quiet'
    BY <1>1, <1>6 DEF StartLedger, DinnerLedger, Woken, Quiet, Serving, Before
  <1>8. QED
    BY <1>2, <1>3, <1>4, <1>7

\* Dealing out a flag to the living keeps it a flag.
LEMMA DealType ==
  ASSUME NEW living \in [Hunter -> BOOLEAN], NEW flag \in [Hunter -> BOOLEAN], NEW S
  PROVE  [h \in Hunter |-> IF living[h] THEN h \in S ELSE flag[h]] \in [Hunter -> BOOLEAN]
  <1>1. ASSUME NEW h \in Hunter
        PROVE  (IF living[h] THEN h \in S ELSE flag[h]) \in BOOLEAN
    <2>1. CASE living[h]
      BY <2>1
    <2>2. CASE ~living[h]
      BY <2>2
    <2>3. QED
      BY <2>1, <2>2
  <1>2. QED
    BY <1>1

LEMMA ForkFailsKeeps ==
  ASSUME HInv, ForkFails
  PROVE  HInv'
  <1> USE DEF HInv, ForkFails, cookLocals, locals, flags, scalars, sems
  <1>1. /\ Out' = Out /\ Callers' = Callers /\ Diners' = Diners
        /\ Out \in Nat /\ Callers \in Nat /\ Diners \in Nat
    BY CountsStay, CountsAreNat
  <1>2. TypeOK'
    BY HuntersAssumption DEF TypeOK, CookPC, sem_wait, sem_post, MutexTruth, Loops, Serving
  <1>3. AliveCountExact'
    BY DEF AliveCountExact, Alive
  <1>4. MutexTruth' /\ Loops' /\ Before'
    BY DEF TypeOK, MutexTruth, Loops, Serving, Before, sem_wait, sem_post
  <1>5. StartLedger' /\ DinnerLedger' /\ Woken' /\ Quiet'
    BY <1>1 DEF TypeOK, StartLedger, DinnerLedger, Woken, Quiet, Serving, Loops, Before,
       sem_wait, sem_post
  <1>6. Closed' /\ CurseStands'
    BY Nobody DEF TypeOK, Closed, CurseStands, Closing, Quiet, Serving
  <1>7. QED
    BY <1>2, <1>3, <1>4, <1>5, <1>6

LEMMA DayBeginsKeeps ==
  ASSUME HInv, DayBegins
  PROVE  HInv'
  <1> USE DEF HInv, DayBegins, ToSend, cookLocals, locals, flags, scalars, sems
  <1>1. /\ Out' = Out /\ Callers' = Callers /\ Diners' = Diners
        /\ Out \in Nat /\ Callers \in Nat /\ Diners \in Nat
    BY CountsStay, CountsAreNat
  <1>2. TypeOK'
    BY HuntersAssumption DEF TypeOK, CookPC, sem_wait, sem_post, MutexTruth, Loops, Serving
  <1>3. AliveCountExact'
    BY DEF AliveCountExact, Alive
  <1>4. MutexTruth' /\ Loops' /\ Before'
    BY DEF TypeOK, MutexTruth, Loops, Serving, Before, sem_wait, sem_post
  <1>5. StartLedger' /\ DinnerLedger' /\ Woken' /\ Quiet'
    BY <1>1 DEF TypeOK, StartLedger, DinnerLedger, Woken, Quiet, Serving, Loops, Before,
       sem_wait, sem_post
  <1>6. Closed' /\ CurseStands'
    BY Nobody DEF TypeOK, Closed, CurseStands, Closing, Quiet, Serving
  <1>7. QED
    BY <1>2, <1>3, <1>4, <1>5, <1>6

LEMMA TribeExtinctKeeps ==
  ASSUME HInv, TribeExtinct
  PROVE  HInv'
  <1> USE DEF HInv, TribeExtinct, cookLocals, locals, flags, scalars, sems
  <1>1. /\ Out' = Out /\ Callers' = Callers /\ Diners' = Diners
        /\ Out \in Nat /\ Callers \in Nat /\ Diners \in Nat
    BY CountsStay, CountsAreNat
  <1>2. TypeOK'
    BY HuntersAssumption DEF TypeOK, CookPC, sem_wait, sem_post, MutexTruth, Loops, Serving
  <1>3. AliveCountExact'
    BY DEF AliveCountExact, Alive
  <1>4. MutexTruth' /\ Loops' /\ Before'
    BY DEF TypeOK, MutexTruth, Loops, Serving, Before, sem_wait, sem_post
  <1>5. StartLedger' /\ DinnerLedger' /\ Woken' /\ Quiet'
    BY <1>1 DEF TypeOK, StartLedger, DinnerLedger, Woken, Quiet, Serving, Loops, Before,
       sem_wait, sem_post
  <1>6. Closed' /\ CurseStands'
    BY Nobody DEF TypeOK, Closed, CurseStands, Closing, Quiet, Serving
  <1>7. QED
    BY <1>2, <1>3, <1>4, <1>5, <1>6

LEMMA SendHunterKeeps ==
  ASSUME HInv, SendHunter
  PROVE  HInv'
  <1> USE DEF HInv, SendHunter, cookLocals, locals, flags, scalars, sems
  <1>1. /\ Out' = Out /\ Callers' = Callers /\ Diners' = Diners
        /\ Out \in Nat /\ Callers \in Nat /\ Diners \in Nat
    BY CountsStay, CountsAreNat
  <1>2. TypeOK'
    BY HuntersAssumption DEF TypeOK, CookPC, sem_wait, sem_post, MutexTruth, Loops, Serving
  <1>3. AliveCountExact'
    BY DEF AliveCountExact, Alive
  <1>4. MutexTruth' /\ Loops' /\ Before'
    BY DEF TypeOK, MutexTruth, Loops, Serving, Before, sem_wait, sem_post
  <1>5. StartLedger' /\ DinnerLedger' /\ Woken' /\ Quiet'
    BY <1>1 DEF TypeOK, StartLedger, DinnerLedger, Woken, Quiet, Serving, Loops, Before,
       sem_wait, sem_post
  <1>6. Closed' /\ CurseStands'
    BY Nobody DEF TypeOK, Closed, CurseStands, Closing, Quiet, Serving
  <1>7. QED
    BY <1>2, <1>3, <1>4, <1>5, <1>6

LEMMA ServeKeeps ==
  ASSUME HInv, Serve
  PROVE  HInv'
  <1> USE DEF HInv, Serve, cookLocals, locals, flags, scalars, sems
  <1>1. /\ Out' = Out /\ Callers' = Callers /\ Diners' = Diners
        /\ Out \in Nat /\ Callers \in Nat /\ Diners \in Nat
    BY CountsStay, CountsAreNat
  <1>f. /\ all_hunters_back = 1 /\ Callers = 0 /\ hunters_back = alive_count
        /\ start_hunt = 0 /\ Out = 0
    BY <1>1 DEF sem_wait, TypeOK, Woken, StartLedger, Loops
  <1>h. Cardinality(Alive \ Fed) \in Nat
    BY Finite, FS_Subset, FS_CardinalityType DEF Alive
  <1>t. hunter_ate_today' \in [Hunter -> BOOLEAN]
    BY DealType DEF TypeOK
  <1>2. TypeOK'
    BY <1>f, <1>h, <1>t, HuntersAssumption DEF TypeOK, CookPC, sem_wait, sem_post, MutexTruth, Loops, Serving
  <1>3. AliveCountExact'
    BY DEF AliveCountExact, Alive
  <1>4. MutexTruth' /\ Loops' /\ Before'
    BY DEF TypeOK, MutexTruth, Loops, Serving, Before, sem_wait, sem_post
  <1>5. StartLedger' /\ DinnerLedger' /\ Woken' /\ Quiet'
    BY <1>1, <1>f DEF TypeOK, StartLedger, DinnerLedger, Woken, Quiet, Serving, Loops, Before,
       sem_wait, sem_post
  <1>6. Closed' /\ CurseStands'
    BY <1>f, Nobody DEF TypeOK, Closed, CurseStands, Closing, Quiet, Serving
  <1>7. QED
    BY <1>2, <1>3, <1>4, <1>5, <1>6

LEMMA ButcherKeeps ==
  ASSUME HInv, Butcher
  PROVE  HInv'
  <1> USE DEF HInv, Butcher, cookLocals, locals, flags, scalars, sems
  <1>1. /\ Out' = Out /\ Callers' = Callers /\ Diners' = Diners
        /\ Out \in Nat /\ Callers \in Nat /\ Diners \in Nat
    BY CountsStay, CountsAreNat
  <1>f. PICK victim \in Alive : hunter_alive' = [hunter_alive EXCEPT ![victim] = FALSE]
    BY DEF First, Unlucky
  <1>g. /\ IsFiniteSet(Alive) /\ alive_count = Cardinality(Alive) /\ alive_count # 0
        /\ Alive' = Alive \ {victim}
    <2>1. IsFiniteSet(Alive)
      BY Finite, FS_Subset DEF Alive
    <2>2. Alive # {}
      BY <1>f
    <2>3. Alive' = Alive \ {victim}
      BY <1>f DEF Alive, TypeOK
    <2>4. QED
      BY <2>1, <2>2, <2>3, FS_EmptySet DEF AliveCountExact
  <1>h. hunter_alive' \in [Hunter -> BOOLEAN] /\ alive_count' \in 0 .. N
    <2>1. hunter_alive' \in [Hunter -> BOOLEAN]
      BY <1>f DEF TypeOK
    <2>2. alive_count' = alive_count - 1
      OBVIOUS
    <2>3. QED
      BY <1>g, <2>1, <2>2, HuntersAssumption DEF TypeOK
  <1>2. TypeOK'
    BY <1>h, HuntersAssumption DEF TypeOK, CookPC, sem_wait, sem_post, MutexTruth, Loops, Serving
  <1>3. AliveCountExact'
    BY <1>g, FS_RemoveElement, <1>f DEF AliveCountExact
  <1>4. MutexTruth' /\ Loops' /\ Before'
    BY DEF TypeOK, MutexTruth, Loops, Serving, Before, sem_wait, sem_post
  <1>5. StartLedger' /\ DinnerLedger' /\ Woken' /\ Quiet'
    BY <1>1, <1>f DEF TypeOK, StartLedger, DinnerLedger, Woken, Quiet, Serving, Loops, Before,
       sem_wait, sem_post
  <1>6. Closed' /\ CurseStands'
    BY <1>f, Nobody DEF TypeOK, Closed, CurseStands, Closing, Quiet, Serving
  <1>7. QED
    BY <1>2, <1>3, <1>4, <1>5, <1>6

LEMMA CurseKeeps ==
  ASSUME HInv, Curse
  PROVE  HInv'
  <1> USE DEF HInv, Curse, cookLocals, locals, flags, scalars, sems
  <1>1. /\ Out' = Out /\ Callers' = Callers /\ Diners' = Diners
        /\ Out \in Nat /\ Callers \in Nat /\ Diners \in Nat
    BY CountsStay, CountsAreNat
  <1>t. hunter_forced_fail' \in [Hunter -> BOOLEAN]
    BY DEF TypeOK
  <1>2. TypeOK'
    BY <1>t, HuntersAssumption DEF TypeOK, CookPC, sem_wait, sem_post, MutexTruth, Loops, Serving
  <1>3. AliveCountExact'
    BY DEF AliveCountExact, Alive
  <1>4. MutexTruth' /\ Loops' /\ Before'
    BY DEF TypeOK, MutexTruth, Loops, Serving, Before, sem_wait, sem_post
  <1>5. StartLedger' /\ DinnerLedger' /\ Woken' /\ Quiet'
    BY <1>1 DEF TypeOK, StartLedger, DinnerLedger, Woken, Quiet, Serving, Loops, Before,
       sem_wait, sem_post
  <1>6. Closed' /\ CurseStands'
    BY Nobody DEF TypeOK, Closed, CurseStands, Closing, Quiet, Serving
  <1>7. QED
    BY <1>2, <1>3, <1>4, <1>5, <1>6

LEMMA ButcherDoneKeeps ==
  ASSUME HInv, ButcherDone
  PROVE  HInv'
  <1> USE DEF HInv, ButcherDone, cookLocals, locals, flags, scalars, sems
  <1>1. /\ Out' = Out /\ Callers' = Callers /\ Diners' = Diners
        /\ Out \in Nat /\ Callers \in Nat /\ Diners \in Nat
    BY CountsStay, CountsAreNat
  <1>2. TypeOK'
    BY HuntersAssumption DEF TypeOK, CookPC, sem_wait, sem_post, MutexTruth, Loops, Serving
  <1>3. AliveCountExact'
    BY DEF AliveCountExact, Alive
  <1>4. MutexTruth' /\ Loops' /\ Before'
    BY DEF TypeOK, MutexTruth, Loops, Serving, Before, sem_wait, sem_post
  <1>5. StartLedger' /\ DinnerLedger' /\ Woken' /\ Quiet'
    BY <1>1 DEF TypeOK, StartLedger, DinnerLedger, Woken, Quiet, Serving, Loops, Before,
       sem_wait, sem_post
  <1>6. Closed' /\ CurseStands'
    BY Nobody DEF TypeOK, Closed, CurseStands, Closing, Quiet, Serving
  <1>7. QED
    BY <1>2, <1>3, <1>4, <1>5, <1>6

LEMMA CallToDinnerKeeps ==
  ASSUME HInv, CallToDinner
  PROVE  HInv'
  <1> USE DEF HInv, CallToDinner, cookLocals, locals, flags, scalars, sems
  <1>1. /\ Out' = Out /\ Callers' = Callers /\ Diners' = Diners
        /\ Out \in Nat /\ Callers \in Nat /\ Diners \in Nat
    BY CountsStay, CountsAreNat
  <1>2. TypeOK'
    BY HuntersAssumption DEF TypeOK, CookPC, sem_wait, sem_post, MutexTruth, Loops, Serving
  <1>3. AliveCountExact'
    BY DEF AliveCountExact, Alive
  <1>4. MutexTruth' /\ Loops' /\ Before'
    BY DEF TypeOK, MutexTruth, Loops, Serving, Before, sem_wait, sem_post
  <1>5. StartLedger' /\ DinnerLedger' /\ Woken' /\ Quiet'
    BY <1>1 DEF TypeOK, StartLedger, DinnerLedger, Woken, Quiet, Serving, Loops, Before,
       sem_wait, sem_post
  <1>6. Closed' /\ CurseStands'
    BY Nobody DEF TypeOK, Closed, CurseStands, Closing, Quiet, Serving
  <1>7. QED
    BY <1>2, <1>3, <1>4, <1>5, <1>6

LEMMA FinishKeeps ==
  ASSUME HInv, Finish
  PROVE  HInv'
  <1> USE DEF HInv, Finish, cookLocals, locals, flags, scalars, sems
  <1>1. /\ Out' = Out /\ Callers' = Callers /\ Diners' = Diners
        /\ Out \in Nat /\ Callers \in Nat /\ Diners \in Nat
    BY CountsStay, CountsAreNat
  <1>2. TypeOK'
    BY HuntersAssumption DEF TypeOK, CookPC, sem_wait, sem_post, MutexTruth, Loops, Serving
  <1>3. AliveCountExact'
    BY DEF AliveCountExact, Alive
  <1>4. MutexTruth' /\ Loops' /\ Before'
    BY DEF TypeOK, MutexTruth, Loops, Serving, Before, sem_wait, sem_post
  <1>5. StartLedger' /\ DinnerLedger' /\ Woken' /\ Quiet'
    BY <1>1 DEF TypeOK, StartLedger, DinnerLedger, Woken, Quiet, Serving, Loops, Before,
       sem_wait, sem_post
  <1>6. Closed' /\ CurseStands'
    BY Nobody DEF TypeOK, Closed, CurseStands, Closing, Quiet, Serving
  <1>7. QED
    BY <1>2, <1>3, <1>4, <1>5, <1>6

LEMMA ReleaseKeeps ==
  ASSUME HInv, Release
  PROVE  HInv'
  <1> USE DEF HInv, Release, cookLocals, locals, flags, scalars, sems
  <1>1. /\ Out' = Out /\ Callers' = Callers /\ Diners' = Diners
        /\ Out \in Nat /\ Callers \in Nat /\ Diners \in Nat
    BY CountsStay, CountsAreNat
  <1>2. TypeOK'
    BY HuntersAssumption DEF TypeOK, CookPC, sem_wait, sem_post, MutexTruth, Loops, Serving
  <1>3. AliveCountExact'
    BY DEF AliveCountExact, Alive
  <1>4. MutexTruth' /\ Loops' /\ Before'
    BY DEF TypeOK, MutexTruth, Loops, Serving, Before, sem_wait, sem_post
  <1>5. StartLedger' /\ DinnerLedger' /\ Woken' /\ Quiet'
    BY <1>1 DEF TypeOK, StartLedger, DinnerLedger, Woken, Quiet, Serving, Loops, Before,
       sem_wait, sem_post
  <1>6. Closed' /\ CurseStands'
    BY Nobody DEF TypeOK, Closed, CurseStands, Closing, Quiet, Serving
  <1>7. QED
    BY <1>2, <1>3, <1>4, <1>5, <1>6

LEMMA ReapKeeps ==
  ASSUME HInv, Reap
  PROVE  HInv'
  <1> USE DEF HInv, Reap, cookLocals, locals, flags, scalars, sems
  <1>1. /\ Out' = Out /\ Callers' = Callers /\ Diners' = Diners
        /\ Out \in Nat /\ Callers \in Nat /\ Diners \in Nat
    BY CountsStay, CountsAreNat
  <1>2. TypeOK'
    BY HuntersAssumption DEF TypeOK, CookPC, sem_wait, sem_post, MutexTruth, Loops, Serving
  <1>3. AliveCountExact'
    BY DEF AliveCountExact, Alive
  <1>4. MutexTruth' /\ Loops' /\ Before'
    BY DEF TypeOK, MutexTruth, Loops, Serving, Before, sem_wait, sem_post
  <1>5. StartLedger' /\ DinnerLedger' /\ Woken' /\ Quiet'
    BY <1>1 DEF TypeOK, StartLedger, DinnerLedger, Woken, Quiet, Serving, Loops, Before,
       sem_wait, sem_post
  <1>6. Closed' /\ CurseStands'
    BY Nobody DEF TypeOK, Closed, CurseStands, Closing, Quiet, Serving
  <1>7. QED
    BY <1>2, <1>3, <1>4, <1>5, <1>6

-----------------------------------------------------------------------------
(* The invariant and what follows from it *)

LEMMA InitHolds == Init => HInv
  <1> SUFFICES ASSUME Init PROVE HInv
    OBVIOUS
  <1> USE DEF Init
  <1>1. TypeOK
    <2>1. /\ cook \in CookPC /\ posts \in Nat /\ hungry \in Nat
          /\ day \in 0 .. M /\ alive_count \in 0 .. N
          /\ pot_meat \in Nat /\ hunters_back \in Nat
      BY HuntersAssumption DEF CookPC
    <2>2. /\ pc \in [Hunter -> HunterPC]
          /\ success \in [Hunter -> BOOLEAN] /\ ate \in [Hunter -> BOOLEAN]
      BY DEF HunterPC
    <2>3. QED
      BY <2>1, <2>2 DEF TypeOK
  <1>2. AliveCountExact
    <2>1. Alive = Hunter
      BY DEF Alive
    <2>2. QED
      BY <2>1, Finite DEF AliveCountExact
  <1>3. MutexTruth /\ Loops /\ Before /\ Closed /\ CurseStands
    BY DEF MutexTruth, Loops, Before, Closed, CurseStands, Serving, Closing
  <1>4. Out = 0 /\ Callers = 0 /\ Diners = 0
    BY Nobody
  <1>5. StartLedger /\ DinnerLedger /\ Woken /\ Quiet
    BY <1>4 DEF StartLedger, DinnerLedger, Woken, Quiet, Serving
  <1>6. QED
    BY <1>1, <1>2, <1>3, <1>5 DEF HInv

LEMMA NextKeeps == HInv /\ [Next]_vars => HInv'
  <1> SUFFICES ASSUME HInv, [Next]_vars PROVE HInv'
    OBVIOUS
  <1>1. ASSUME NEW h \in Hunter, HunterStep(h) PROVE HInv'
    BY <1>1, WaitStartKeeps, CheckAliveKeeps, HuntKeeps, DepositKeeps, WakeCookKeeps,
       WaitDinnerKeeps, ReadAteKeeps, ReadAliveKeeps
    DEF HunterStep
  <1>2. ASSUME CookStep PROVE HInv'
    BY <1>2, ForkKeeps, ForkFailsKeeps, DayBeginsKeeps, TribeExtinctKeeps, SendHunterKeeps,
       ServeKeeps, ButcherKeeps, ButcherDoneKeeps, CurseKeeps, CallToDinnerKeeps,
       FinishKeeps, ReleaseKeeps, ReapKeeps
    DEF CookStep
  <1>3. CASE UNCHANGED vars
    BY <1>3, CountsStay
    DEF vars, cookLocals, locals, flags, scalars, sems, HInv, TypeOK, AliveCountExact, Alive,
        MutexTruth, Loops, Before, StartLedger, Woken, Quiet, DinnerLedger, Closed, CurseStands
  <1>4. QED
    BY <1>1, <1>2, <1>3 DEF Next, Stopped

LEMMA Invariance == Spec => []HInv
  BY InitHolds, NextKeeps, PTL DEF Spec

\* Types hold for every N and M: in particular the cook's butchering never takes
\* alive_count below zero, and none of its posting loops runs past its bound.
THEOREM TypeCorrect == Spec => []TypeOK
  BY Invariance, PTL DEF HInv

\* alive_count is the number of living hunters, for every tribe.
THEOREM AliveCountIsExact == Spec => []AliveCountExact
  BY Invariance, PTL DEF HInv

\* The start_hunt tokens, the hunters that carry one and the hunts reported never
\* exceed the living.
THEOREM StartTokensAccounted == Spec => []StartLedger
  BY Invariance, PTL DEF HInv

\* dinner_done is posted once for every hunt.
THEOREM DinnersAccounted == Spec => []DinnerLedger
  BY Invariance, PTL DEF HInv

\* The cook is woken once a day, when nobody is out and no token is left over.
THEOREM CookWokenAfterTheHunt == Spec => []HuntIsOver
  <1>1. ASSUME HInv PROVE HuntIsOver
    <2>1. Out \in Nat /\ Callers \in Nat
      BY CountsAreNat
    <2>2. ASSUME all_hunters_back + Callers = 1 PROVE start_hunt = 0 /\ Out = 0
      <3>1. cook = "back" /\ hunters_back = alive_count /\ posts = 0
        BY <1>1, <2>2 DEF HInv, Woken, Loops
      <3>2. QED
        BY <1>1, <2>1, <3>1 DEF HInv, StartLedger, TypeOK
    <2>3. QED
      BY <1>1, <2>2 DEF HInv, Woken, Quiet, Serving, HuntIsOver
  <1>2. QED
    BY <1>1, Invariance, PTL

\* A hunter under the curse never adds to the pot, though it reads the curse
\* without the mutex.
THEOREM CursedHuntersFail == Spec => HungryBringNothing
  <1> DEFINE Fair == \A h \in Hunter :
                       pot_meat' > pot_meat /\ pc[h] = "deposit" /\ pc'[h] # "deposit"
                         => ~hunter_forced_fail[h]
  <1>1. ASSUME HInv, [Next]_vars, NEW h \in Hunter,
               pot_meat' > pot_meat, pc[h] = "deposit", pc'[h] # "deposit"
        PROVE  ~hunter_forced_fail[h]
    <2>1. pot_meat \in Nat /\ pot_meat' # pot_meat /\ pc' # pc
      BY <1>1 DEF HInv, TypeOK
    <2>2. PICK g \in Hunter : Deposit(g)
      BY <1>1, <2>1
      DEF Next, CookStep, HunterStep, Stopped, vars, cookLocals, locals, flags, scalars, sems,
          Fork, ForkFails, DayBegins, TribeExtinct, SendHunter, Serve, Butcher, ButcherDone,
          Curse, CallToDinner, Finish, Release, Reap,
          WaitStart, CheckAlive, Hunt, WakeCook, WaitDinner, ReadAte, ReadAlive
    <2>3. g = h
      BY <1>1, <2>2 DEF Deposit, Goto, HInv, TypeOK
    <2>4. success[h]
      BY <2>1, <2>2, <2>3 DEF Deposit
    <2>5. QED
      BY <1>1, <2>4 DEF HInv, CurseStands
  <1>2. HInv /\ [Next]_vars => [Fair]_vars
    BY <1>1
  <1>3. QED
    BY <1>2, Invariance, PTL DEF Spec, HungryBringNothing

-----------------------------------------------------------------------------
(* The evenings *)

\* During a hunt the pot never shows more lucky hunters than pieces, no more pieces
\* than hunters that came back, and no luck under the curse.
PotTruth ==
  cook \in {"send", "back"} =>
    /\ pot_meat <= hunters_back
    /\ Count(hunter_success_today, Hunter, {TRUE}) <= pot_meat
    /\ \A h \in Hunter : hunter_success_today[h] => ~hunter_forced_fail[h]

LEMMA DepositKeepsPot ==
  ASSUME HInv, PotTruth, NEW h \in Hunter, Deposit(h)
  PROVE  PotTruth'
<1> DEFINE now == Count(hunter_success_today, Hunter, {TRUE})
<1>1. /\ \A g \in Hunter \ {h} : hunter_success_today'[g] = hunter_success_today[g]
      /\ hunter_success_today'[h] = success[h] /\ success[h] \in BOOLEAN
  BY DEF HInv, TypeOK, Deposit
<1>2. Where(hunter_success_today', Hunter, {TRUE}) \ {h}
        = Where(hunter_success_today, Hunter, {TRUE}) \ {h}
  BY <1>1 DEF Where
<1>3. h \in Where(hunter_success_today', Hunter, {TRUE}) <=> success[h]
  BY <1>1 DEF Where
<1>4. /\ now \in Nat /\ now' \in Nat
      /\ now' <= IF success[h] THEN now + 1 ELSE now
  BY <1>2, <1>3, Finite, CountMove
<1>5. /\ pot_meat \in Nat /\ hunters_back \in Nat /\ hunters_back' = hunters_back + 1
      /\ pot_meat' = IF success[h] THEN pot_meat + 1 ELSE pot_meat
  BY DEF HInv, TypeOK, Deposit
<1>6. \A g \in Hunter : hunter_success_today'[g] /\ cook \in {"send", "back"}
                          => ~hunter_forced_fail[g]
  BY <1>1 DEF HInv, CurseStands, Deposit, PotTruth
<1> QED BY <1>1, <1>4, <1>5, <1>6 DEF PotTruth, Deposit

LEMMA NextKeepsPot == HInv /\ PotTruth /\ [Next]_vars => PotTruth'
<1> SUFFICES ASSUME HInv, PotTruth, [Next]_vars PROVE PotTruth'
  OBVIOUS
<1>1. ASSUME NEW h \in Hunter, HunterStep(h) PROVE PotTruth'
  <2>1. CASE Deposit(h)
    BY <2>1, DepositKeepsPot
  <2>2. CASE ~Deposit(h)
    <3>1. UNCHANGED <<cook, flags, scalars>>
      BY <1>1, <2>2 DEF HunterStep, WaitStart, CheckAlive, Hunt, WakeCook, WaitDinner, ReadAte,
                        ReadAlive
    <3> QED BY <3>1 DEF PotTruth, flags, scalars, Count, Where
  <2> QED BY <2>1, <2>2
<1>2. ASSUME CookStep PROVE PotTruth'
  <2>1. CASE DayBegins
    <3>1. Where(hunter_success_today', Hunter, {TRUE}) = {}
      BY <2>1 DEF DayBegins, Where
    <3>2. Count(hunter_success_today', Hunter, {TRUE}) = 0
      BY <3>1, FS_EmptySet DEF Count
    <3>3. \A h \in Hunter : ~hunter_success_today'[h]
      BY <2>1 DEF DayBegins
    <3> QED BY <2>1, <3>2, <3>3 DEF DayBegins, PotTruth
  <2>2. CASE SendHunter
    BY <2>2 DEF SendHunter, PotTruth, flags, scalars, Count, Where
  <2>3. CASE ~DayBegins /\ ~SendHunter
    <3>1. cook' \notin {"send", "back"}
      BY <1>2, <2>3 DEF CookStep, Fork, ForkFails, TribeExtinct, Serve, Butcher, ButcherDone, Curse,
                        CallToDinner, Finish, Release, Reap
    <3> QED BY <3>1 DEF PotTruth
  <2> QED BY <2>1, <2>2, <2>3
<1>3. CASE UNCHANGED vars
  BY <1>3 DEF vars, flags, scalars, PotTruth, Count, Where
<1> QED BY <1>1, <1>2, <1>3 DEF Next, Stopped

LEMMA PotIsTrue == Spec => [](HInv /\ PotTruth)
<1>1. Init => PotTruth
  BY DEF Init, PotTruth
<1> QED BY <1>1, NextKeepsPot, Invariance, PTL DEF Spec

\* First: nobody is among the first none, and the first of the others follow the
\* first of all.
LEMMA FirstOfNone ==
  ASSUME NEW S, IsFiniteSet(S), NEW k \in Int, k <= 0 \/ S = {}
  PROVE  First(k, S) = {}
<1>1. \A h \in S : Cardinality({g \in S : g < h}) \in Nat
  BY FS_Subset, FS_CardinalityType
<1>2. ASSUME NEW h \in S, Cardinality({g \in S : g < h}) < k PROVE FALSE
  BY <1>1, <1>2
<1> QED BY <1>2 DEF First

LEMMA FirstAndNext ==
  ASSUME NEW S, IsFiniteSet(S), S \subseteq Int, NEW v \in First(1, S), NEW k \in Nat \ {0}
  PROVE  First(k, S) = First(k - 1, S \ {v}) \cup {v}
<1> DEFINE Below(h) == {g \in S : g < h}
<1>1. v \in S /\ \A h \in S : IsFiniteSet(Below(h)) /\ Cardinality(Below(h)) \in Nat
  BY FS_Subset, FS_CardinalityType DEF First
<1>2. Cardinality(Below(v)) = 0 /\ Below(v) = {}
  <2>1. Cardinality(Below(v)) < 1
    BY DEF First
  <2> QED BY <1>1, <2>1, FS_EmptySet
<1>3. \A h \in S \ {v} : v \in Below(h)
  <2> TAKE h \in S \ {v}
  <2>1. h \notin Below(v) /\ h \in Int /\ v \in Int
    BY <1>1, <1>2
  <2> QED BY <1>1, <2>1
<1>4. ASSUME NEW h \in S \ {v}
      PROVE  h \in First(k, S) <=> h \in First(k - 1, S \ {v})
  <2>1. {g \in S \ {v} : g < h} = Below(h) \ {v}
    OBVIOUS
  <2>2. Cardinality(Below(h) \ {v}) = Cardinality(Below(h)) - 1
    BY <1>1, <1>3, FS_RemoveElement
  <2>3. Cardinality(Below(h)) < k <=> Cardinality(Below(h)) - 1 < k - 1
    BY <1>1
  <2>4. h \in First(k, S) <=> Cardinality(Below(h)) < k
    BY DEF First
  <2>5. h \in First(k - 1, S \ {v}) <=> Cardinality(Below(h) \ {v}) < k - 1
    BY <2>1 DEF First
  <2> QED BY <2>2, <2>3, <2>4, <2>5
<1>5. v \in First(k, S)
  BY <1>1, <1>2 DEF First
<1>6. First(k, S) \subseteq S /\ First(k - 1, S \ {v}) \subseteq S \ {v}
  BY DEF First
<1> QED BY <1>1, <1>4, <1>5, <1>6
\* Tribe counts and picks as Hunters does.
LEMMA SizeOfTribe == \A S : T!Cardinality(S) = Cardinality(S)
BY DEF Cardinality, T!Cardinality

LEMMA FirstOfTribe == \A k, S : T!First(k, S) = First(k, S)
BY SizeOfTribe DEF First, T!First

LEMMA UnluckyAreHunters ==
  IsFiniteSet(Unlucky) /\ Unlucky \subseteq Int /\ IsFiniteSet(Alive) /\ Alive \subseteq Int
<1>1. Alive \subseteq Hunter /\ Unlucky \subseteq Alive
  BY DEF Alive, Unlucky
<1>2. Hunter \subseteq Int
  BY DEF Hunter
<1> QED BY <1>1, <1>2, Finite, FS_Subset

\* Serve is the evening: what the pot and the flags say then is what the butchering
\* and the curse bring about.
LEMMA ServeIsEvening ==
  ASSUME HInv, PotTruth, Serve
  PROVE  T!Next
<1> DEFINE lucky == {h \in Alive : hunter_success_today[h]}
<1>1. /\ all_hunters_back = 1 /\ hunters_back = alive_count
      /\ pot_meat \in Nat /\ alive_count \in Nat \ {0} /\ day \in 0 .. M /\ cook = "back"
  BY CountsAreNat, HuntersAssumption DEF HInv, TypeOK, Woken, Loops, Serve, sem_wait
<1>2. /\ Survivors = Alive /\ Evenings = day - 1 /\ Evenings' = day
      /\ HungryTomorrow = {h \in Alive : hunter_forced_fail[h]}
  BY <1>1 DEF Survivors, Evenings, HungryTomorrow, Serve, scalars
<1>3. /\ Alive' = Alive /\ Unlucky' = Unlucky /\ Unlucky = Alive \ lucky
  BY DEF Serve, Alive, Unlucky
<1>4. IsFiniteSet(Alive) /\ Alive \subseteq Hunter /\ Cardinality(Alive) = alive_count
  BY Finite, FS_Subset DEF Alive, HInv, AliveCountExact
<1>5. /\ lucky \in SUBSET (Survivors \ HungryTomorrow)
      /\ pot_meat \in 0 .. Cardinality(Survivors)
      /\ Cardinality(lucky) <= pot_meat
  <2>1. lucky \subseteq Where(hunter_success_today, Hunter, {TRUE})
    BY <1>4 DEF Where
  <2>2. /\ IsFiniteSet(lucky) /\ Cardinality(lucky) \in Nat
        /\ Count(hunter_success_today, Hunter, {TRUE}) \in Nat
        /\ Cardinality(lucky) <= Count(hunter_success_today, Hunter, {TRUE})
    BY <2>1, Finite, CountType, FS_Subset, FS_CardinalityType DEF Count
  <2> QED BY <1>1, <1>2, <1>4, <2>2 DEF PotTruth
<1>6. T!First(pot_meat - 1, Survivors) = Fed
  <2>1. CASE pot_meat > 0
    BY <1>1, <1>2, <2>1, FirstOfTribe DEF Fed, Share
  <2>2. CASE pot_meat = 0
    <3>1. First(-1, Alive) = {} /\ First(0, Alive) = {}
      BY <1>4, FirstOfNone
    <3>2. pot_meat - 1 = -1 /\ Share = 0
      BY <2>2 DEF Share
    <3> QED BY <1>2, <3>1, <3>2, FirstOfTribe DEF Fed
  <2> QED BY <1>1, <2>1, <2>2
<1>7. Survivors' = Survivors \ T!First(Cardinality(Survivors \ Fed), Survivors \ lucky)
  <2>1. Survivors' = Alive \ First(hungry', Unlucky)
    BY <1>3 DEF Survivors, Serve
  <2>2. hungry' = Cardinality(Alive \ Fed)
    BY DEF Serve
  <2> QED BY <1>2, <1>3, <2>1, <2>2, FirstOfTribe
<1>8. HungryTomorrow' = Survivors' \ Fed
  <2>1. HungryTomorrow' = {h \in Survivors' : ~hunter_ate_today'[h]}
    BY DEF HungryTomorrow, Serve
  <2>2. \A h \in Survivors' : h \in Hunter /\ hunter_alive[h]
    BY <1>2, <1>7 DEF Alive
  <2>3. \A h \in Survivors' : hunter_ate_today'[h] <=> h \in Fed
    BY <2>2 DEF Serve
  <2> QED BY <2>1, <2>3
<1>9. Survivors # {} /\ Evenings < M /\ Evenings' = Evenings + 1
  BY <1>1, <1>2, <1>4, FS_EmptySet, HuntersAssumption
<1>10. T!Evening(lucky, pot_meat)
  <2> HIDE DEF lucky
  <2> QED BY <1>6, <1>7, <1>8, <1>9, SizeOfTribe DEF T!Evening
<1> QED BY <1>5, <1>10, SizeOfTribe DEF T!Next

\* One victim less to butcher: the survivors are the same.
LEMMA ButcherKeepsSurvivors ==
  ASSUME HInv, Butcher
  PROVE  Survivors' = Survivors
<1>1. PICK v \in First(1, Unlucky) : hunter_alive' = [hunter_alive EXCEPT ![v] = FALSE]
  BY DEF Butcher
<1>2. IsFiniteSet(Unlucky) /\ Unlucky \subseteq Int /\ v \in Unlucky /\ v \in Alive
  BY <1>1, UnluckyAreHunters DEF Unlucky, First
<1>3. Alive' = Alive \ {v}
  BY <1>1, <1>2 DEF Alive, HInv, TypeOK
<1>4. Unlucky' = Unlucky \ {v}
  BY <1>3 DEF Unlucky, Butcher
<1>5. hungry \in Nat \ {0} /\ hungry' = hungry - 1 /\ cook = "butcher" /\ cook' = "butcher"
  BY DEF Butcher, HInv, TypeOK
<1>6. First(hungry, Unlucky) = First(hungry - 1, Unlucky \ {v}) \cup {v}
  BY <1>1, <1>2, <1>5, FirstAndNext
<1>7. Survivors = Alive \ First(hungry, Unlucky)
  BY <1>5 DEF Survivors
<1>8. Survivors' = Alive' \ First(hungry - 1, Unlucky')
  BY <1>5 DEF Survivors
<1> QED BY <1>3, <1>4, <1>6, <1>7, <1>8

LEMMA StepRefinesTribe ==
  ASSUME HInv, PotTruth, [Next]_vars
  PROVE  T!Next \/ UNCHANGED T!tribeVars
<1> SUFFICES ASSUME ~Serve PROVE UNCHANGED <<Evenings, Survivors, HungryTomorrow>>
  BY ServeIsEvening DEF T!tribeVars
<1>1. ASSUME NEW h \in Hunter, HunterStep(h)
      PROVE  UNCHANGED <<Evenings, Survivors, HungryTomorrow>>
  <2>1. UNCHANGED <<cook, cookLocals, day, hunter_alive, hunter_ate_today, hunter_forced_fail>>
    BY <1>1 DEF HunterStep, WaitStart, CheckAlive, Hunt, Deposit, WakeCook, WaitDinner, ReadAte,
                ReadAlive, flags, scalars
  <2>2. Alive' = Alive
    BY <2>1 DEF Alive
  <2>3. cook = "butcher" => Unlucky' = Unlucky
    <3>1. cook = "butcher" => pc[h] # "deposit"
      BY Nobody DEF HInv, Quiet, Serving
    <3>2. ~Deposit(h) => UNCHANGED flags
      BY <1>1 DEF HunterStep, WaitStart, CheckAlive, Hunt, WakeCook, WaitDinner, ReadAte, ReadAlive
    <3> QED BY <2>2, <3>1, <3>2 DEF Unlucky, Deposit, flags
  <2>4. Evenings' = Evenings
    BY <2>1 DEF Evenings
  <2>5. Survivors' = Survivors
    BY <2>1, <2>2, <2>3 DEF Survivors, cookLocals, First
  <2>6. HungryTomorrow' = HungryTomorrow
    BY <2>1, <2>5 DEF HungryTomorrow
  <2> QED BY <2>4, <2>5, <2>6
<1>2. CASE UNCHANGED vars
  BY <1>2 DEF vars, cookLocals, flags, scalars, Evenings, Survivors, HungryTomorrow, Alive, Unlucky, First
<1>3. CASE Butcher
  <2>1. Survivors' = Survivors
    BY <1>3, ButcherKeepsSurvivors
  <2> QED BY <1>3, <2>1 DEF Butcher, Evenings, HungryTomorrow
<1>4. CASE ButcherDone
  <2>1. hungry \in Int /\ (hungry <= 0 \/ Unlucky = {})
    BY <1>4 DEF ButcherDone, HInv, TypeOK
  <2>2. First(hungry, Unlucky) = {}
    BY <2>1, UnluckyAreHunters, FirstOfNone
  <2>3. Survivors' = Survivors
    BY <1>4, <2>2 DEF ButcherDone, Survivors, Alive, flags
  <2> QED BY <1>4, <2>3 DEF ButcherDone, Evenings, HungryTomorrow, flags, scalars
<1>5. CASE Curse
  <2>1. Survivors = Alive /\ Survivors' = Alive /\ Evenings' = Evenings
    BY <1>5 DEF Curse, Survivors, Alive, Evenings, scalars
  <2>2. /\ HungryTomorrow = {h \in Alive : ~hunter_ate_today[h]}
        /\ HungryTomorrow' = {h \in Alive : hunter_forced_fail'[h]}
    BY <1>5, <2>1 DEF Curse, HungryTomorrow
  <2>3. \A h \in Alive : hunter_forced_fail'[h] = ~hunter_ate_today[h]
    BY <1>5 DEF Curse, Alive
  <2> QED BY <2>1, <2>2, <2>3
<1>6. CASE DayBegins
  <2>1. day \in Int
    BY DEF HInv, TypeOK
  <2> QED BY <1>6, <2>1 DEF DayBegins, Evenings, Survivors, HungryTomorrow, Alive
<1>7. ASSUME (\E h \in Hunter : Fork(h)) \/ ForkFails \/ TribeExtinct \/ SendHunter \/ CallToDinner
               \/ Finish \/ Release \/ Reap
      PROVE  UNCHANGED <<Evenings, Survivors, HungryTomorrow>>
  BY <1>7 DEF Fork, ForkFails, TribeExtinct, SendHunter, CallToDinner, Finish, Release, Reap,
              flags, scalars, Evenings, Survivors, HungryTomorrow, Alive
<1> QED BY <1>1, <1>2, <1>3, <1>4, <1>5, <1>6, <1>7 DEF Next, CookStep, Stopped

\* Whatever the interleaving, each evening is one step of Tribe: the butchered are the
\* first unlucky ones, as many as are hungry, and tomorrow's cursed are the living who
\* did not eat.
THEOREM EveningsImplementTribe == Spec => RefinesTribe
<1>1. Init => T!Init
  <2> SUFFICES ASSUME Init PROVE T!Init
    OBVIOUS
  <2>1. Alive = Hunter
    BY DEF Init, Alive
  <2>2. Survivors = Hunter /\ Evenings = 0
    BY <2>1 DEF Init, Survivors, Evenings
  <2>3. HungryTomorrow = {}
    BY <2>2 DEF Init, HungryTomorrow
  <2> QED BY <2>2, <2>3 DEF T!Init, T!Hunter, Hunter
<1> QED BY <1>1, StepRefinesTribe, PotIsTrue, PTL DEF Spec, RefinesTribe, T!Spec
=============================================================================
