------------------------------- MODULE Stadion -----------------------------
(***************************************************************************)
(* seminar_5/stadion.cpp: a judge and N runners share one System V message *)
(* queue.  The runners say hello, the judge gives the baton to the first,  *)
(* each passes it on to the next, and the last gives it back.  Messages    *)
(* for everybody lie in the same queue and are told apart by mtype.        *)
(***************************************************************************)
EXTENDS Integers, Sequences, SequencesExt, FiniteSets

CONSTANTS N,      \* runner_count (argv)
          Slots   \* messages the queue holds: msg_qbytes over the message size

\* STADIUM_STATUS_READY is never received: it takes a slot for good.
ASSUME StadionAssumption == N \in Nat /\ Slots \in Nat /\ Slots >= 2

Runner == 1 .. N

VARIABLES
  main, forked,        \* where main is, and how many children it has forked
  judge, arrive_cnt,   \* where the judge is, and how many hellos it has had
  pc,                  \* where each runner is
  queue,               \* messages in the order they were sent
  track                \* the runners in the order they said GO

vars == <<main, forked, judge, arrive_cnt, pc, queue, track>>

Status   == {"SPAWNED", "ADVANCE", "READY"}

\* mtype of a hello, and of the baton for runner i; the judge is runner N + 1.
\* Mutant: hellos counted from offset_base too.
HelloAsBaton(i) == N + 1 + i + 1
HelloType(i)    == i + 1
BatonType(i)    == N + 1 + i + 1
ReadyType       == 1

Init ==
  /\ main = "fork" /\ forked = 0
  /\ judge = "unborn" /\ arrive_cnt = 0
  /\ pc = [i \in Runner |-> "unborn"]
  /\ queue = <<>> /\ track = <<>>

msgsnd(type, status) ==
  /\ Len(queue) < Slots
  /\ queue' = Append(queue, [mtype |-> type, status |-> status])

\* Where a message for msgtyp lies: the first of all, or the first of its type.
\* Mutant: the first of all, whatever was asked for.
FirstOfAll(type) == {k \in 1 .. Len(queue) : k = 1}
Found(type) ==
  {k \in 1 .. Len(queue) :
     IF type = 0 THEN k = 1
     ELSE queue[k].mtype = type /\ \A j \in 1 .. k - 1 : queue[j].mtype # type}

\* msgrcv with a result of that status.
msgrcv(type, status) ==
  \E k \in Found(type) : queue[k].status = status /\ queue' = RemoveAt(queue, k)

-----------------------------------------------------------------------------
(* judge *)

CheckIn ==
  /\ judge = "checkin" /\ arrive_cnt < N
  /\ \E status \in Status : msgrcv(0, status)
  /\ arrive_cnt' = arrive_cnt + 1
  /\ UNCHANGED <<main, forked, judge, pc, track>>

AllIn ==
  /\ judge = "checkin" /\ arrive_cnt = N
  /\ judge' = "ready"
  /\ UNCHANGED <<main, forked, arrive_cnt, pc, queue, track>>

Ready ==
  /\ judge = "ready"
  /\ msgsnd(ReadyType, "READY")
  /\ judge' = "start"
  /\ UNCHANGED <<main, forked, arrive_cnt, pc, track>>

\* The clock runs from here.
Start ==
  /\ judge = "start"
  /\ msgsnd(BatonType(1), "ADVANCE")
  /\ judge' = "finish"
  /\ UNCHANGED <<main, forked, arrive_cnt, pc, track>>

\* Mutant: the judge does not wait for the baton to come back.
FinishAtOnce ==
  /\ judge = "finish"
  /\ judge' = "exited"
  /\ UNCHANGED <<main, forked, arrive_cnt, pc, queue, track>>

Finish ==
  /\ judge = "finish"
  /\ \E status \in Status : msgrcv(BatonType(N + 1), status)
  /\ judge' = "exited"
  /\ UNCHANGED <<main, forked, arrive_cnt, pc, track>>

JudgeStep == CheckIn \/ AllIn \/ Ready \/ Start \/ Finish

-----------------------------------------------------------------------------
(* runner *)

Hello(i) ==
  /\ pc[i] = "hello"
  /\ msgsnd(HelloType(i), "SPAWNED")
  /\ pc' = [pc EXCEPT ![i] = "wait"]
  /\ UNCHANGED <<main, forked, judge, arrive_cnt, track>>

\* A runner who is given another status gives up.
Go(i) ==
  /\ pc[i] = "wait"
  /\ \E status \in Status :
       /\ msgrcv(BatonType(i), status)
       /\ pc' = [pc EXCEPT ![i] = IF status = "ADVANCE" THEN "pass" ELSE "failed"]
       /\ track' = IF status = "ADVANCE" THEN Append(track, i) ELSE track
  /\ UNCHANGED <<main, forked, judge, arrive_cnt>>

\* Mutant: the baton goes to the one after the next.
PassTooFar(i) ==
  /\ pc[i] = "pass"
  /\ msgsnd(BatonType(i + 2), "ADVANCE")
  /\ pc' = [pc EXCEPT ![i] = "exited"]
  /\ UNCHANGED <<main, forked, judge, arrive_cnt, track>>

Pass(i) ==
  /\ pc[i] = "pass"
  /\ msgsnd(BatonType(i + 1), "ADVANCE")
  /\ pc' = [pc EXCEPT ![i] = "exited"]
  /\ UNCHANGED <<main, forked, judge, arrive_cnt, track>>

RunnerStep(i) == Hello(i) \/ Go(i) \/ Pass(i)

-----------------------------------------------------------------------------
(* main *)

\* The judge is forked first, then the runners in their order.
Fork ==
  /\ main = "fork" /\ forked <= N
  /\ forked' = forked + 1
  /\ IF forked = 0
     THEN judge' = "checkin" /\ UNCHANGED pc
     ELSE pc' = [pc EXCEPT ![forked] = "hello"] /\ UNCHANGED judge
  /\ UNCHANGED <<main, arrive_cnt, queue, track>>

\* The parent exits; the children and the queue stay behind.
ForkFails ==
  /\ main = "fork" /\ forked <= N
  /\ main' = "failed"
  /\ UNCHANGED <<forked, judge, arrive_cnt, pc, queue, track>>

AllForked ==
  /\ main = "fork" /\ forked = N + 1
  /\ main' = "wait"
  /\ UNCHANGED <<forked, judge, arrive_cnt, pc, queue, track>>

\* N + 1 waits, then the queue is removed.
RemoveQueue ==
  /\ main = "wait"
  /\ judge = "exited" /\ \A i \in Runner : pc[i] \in {"exited", "failed"}
  /\ main' = "done"
  /\ UNCHANGED <<forked, judge, arrive_cnt, pc, queue, track>>

MainStep == Fork \/ ForkFails \/ AllForked \/ RemoveQueue

Stopped == main \in {"failed", "done"} /\ UNCHANGED vars

Next == MainStep \/ JudgeStep \/ (\E i \in Runner : RunnerStep(i)) \/ Stopped

\* Every process is scheduled; the queue wakes whom it can serve.
Fairness ==
  WF_vars(MainStep) /\ WF_vars(JudgeStep) /\ \A i \in Runner : WF_vars(RunnerStep(i))

Spec == Init /\ [][Next]_vars /\ Fairness

-----------------------------------------------------------------------------
(* Properties *)

\* In one queue for all, the message types keep everybody's mail apart: the
\* judge's msgrcv of any type takes nothing but hellos, and no runner is given
\* a message that is not the baton (stadion.cpp:78, 151).
MailIsForItsReader ==
  /\ judge = "checkin" => \A k \in 1 .. Len(queue) : queue[k].status = "SPAWNED"
  /\ \A i \in Runner : pc[i] # "failed"

\* The runners run as Relay says: all there before the first, in order, and the
\* judge's clock, which runs from Start to Finish, covers the whole race.
R == INSTANCE Relay WITH
       here  <- {i \in Runner : pc[i] \notin {"unborn", "hello"}},
       clock <- CASE judge = "finish" -> "running"
                  [] judge = "exited" -> "stopped"
                  [] OTHER            -> "reset"
RefinesRelay == R!Spec

\* Once the judge is there the race ends and main returns, even when the queue holds
\* no more than two messages, unless a fork fails.
Termination == forked > 0 ~> main \in {"failed", "done"}
=============================================================================
