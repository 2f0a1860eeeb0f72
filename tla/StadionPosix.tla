----------------------------- MODULE StadionPosix --------------------------
(***************************************************************************)
(* seminar_5/stadion_posix.cpp: the race of stadion.cpp over POSIX message *)
(* queues, one for the hellos and one for each hand-over of the baton.     *)
(* The queues are named; main makes the names and unlinks them.            *)
(*                                                                         *)
(* Names that Stadion has as well end in P: the proofs extend both.        *)
(***************************************************************************)
EXTENDS Integers, Sequences, FiniteSets

CONSTANTS total_runners,   \* n (argv)
          CheckinRoom,     \* mq_maxmsg of q_checkin; the code asks for max(n, 10)
          BatonRoom        \* mq_maxmsg of each baton queue, 10 in the code

ASSUME StadionPosixAssumption ==
  total_runners \in Nat \ {0} /\ CheckinRoom \in Nat \ {0} /\ BatonRoom \in Nat \ {0}

RunnerP == 1 .. total_runners
Queue   == 0 .. total_runners + 1   \* 0 is q_checkin, i the queue baton[i]

VARIABLES
  mainP, opened, forkedP,  \* where main is; queues made; children forked
  judgeP, heard,           \* where the judge is; hellos received
  pcP,                     \* where each runner is
  queues,                  \* the messages in each queue
  trackP                   \* the runners in the order they said GO

varsP == <<mainP, opened, forkedP, judgeP, heard, pcP, queues, trackP>>

InitP ==
  /\ mainP = "open" /\ opened = {} /\ forkedP = 0
  /\ judgeP = "unborn" /\ heard = 0
  /\ pcP = [i \in RunnerP |-> "unborn"]
  /\ queues = [q \in Queue |-> <<>>] /\ trackP = <<>>

Capacity(q) == IF q = 0 THEN CheckinRoom ELSE BatonRoom

mq_send(q, i, st) ==
  /\ Len(queues[q]) < Capacity(q)
  /\ queues' = [queues EXCEPT ![q] = Append(@, [runner_idx |-> i, status |-> st])]

mq_receive(q) == queues[q] # <<>> /\ queues' = [queues EXCEPT ![q] = Tail(@)]

-----------------------------------------------------------------------------
(* judge *)

CheckInP ==
  /\ judgeP = "checkin" /\ heard < total_runners
  /\ mq_receive(0)
  /\ heard' = heard + 1
  /\ UNCHANGED <<mainP, opened, forkedP, judgeP, pcP, trackP>>

\* Mutant: one hello is enough.
FirstIn ==
  /\ judgeP = "checkin" /\ heard >= 1
  /\ judgeP' = "start"
  /\ UNCHANGED <<mainP, opened, forkedP, heard, pcP, queues, trackP>>

AllInP ==
  /\ judgeP = "checkin" /\ heard = total_runners
  /\ judgeP' = "start"
  /\ UNCHANGED <<mainP, opened, forkedP, heard, pcP, queues, trackP>>

StartP ==
  /\ judgeP = "start"
  /\ mq_send(1, 0, "ADVANCE")
  /\ judgeP' = "finish"
  /\ UNCHANGED <<mainP, opened, forkedP, heard, pcP, trackP>>

\* Mutant: the judge waits for the last runner's queue.
FinishOnLast ==
  /\ judgeP = "finish"
  /\ mq_receive(total_runners)
  /\ judgeP' = "exited"
  /\ UNCHANGED <<mainP, opened, forkedP, heard, pcP, trackP>>

FinishP ==
  /\ judgeP = "finish"
  /\ mq_receive(total_runners + 1)
  /\ judgeP' = "exited"
  /\ UNCHANGED <<mainP, opened, forkedP, heard, pcP, trackP>>

JudgeStepP == CheckInP \/ AllInP \/ StartP \/ FinishP

-----------------------------------------------------------------------------
(* runner *)

HelloP(i) ==
  /\ pcP[i] = "hello"
  /\ mq_send(0, i, "SPAWNED")
  /\ pcP' = [pcP EXCEPT ![i] = "wait"]
  /\ UNCHANGED <<mainP, opened, forkedP, judgeP, heard, trackP>>

\* A runner who is given another status than ADVANCE gives up.
GoP(i) ==
  /\ pcP[i] = "wait"
  /\ mq_receive(i)
  /\ LET advance == Head(queues[i]).status = "ADVANCE"
     IN  /\ pcP' = [pcP EXCEPT ![i] = IF advance THEN "pass" ELSE "failed"]
         /\ trackP' = IF advance THEN Append(trackP, i) ELSE trackP
  /\ UNCHANGED <<mainP, opened, forkedP, judgeP, heard>>

\* Mutant: the runner passes the baton on and keeps it.
PassAgain(i) ==
  /\ pcP[i] = "pass"
  /\ mq_send(i + 1, i, "ADVANCE")
  /\ UNCHANGED <<mainP, opened, forkedP, judgeP, heard, pcP, trackP>>

PassP(i) ==
  /\ pcP[i] = "pass"
  /\ mq_send(i + 1, i, "ADVANCE")
  /\ pcP' = [pcP EXCEPT ![i] = "exited"]
  /\ UNCHANGED <<mainP, opened, forkedP, judgeP, heard, trackP>>

RunnerStepP(i) == HelloP(i) \/ GoP(i) \/ PassP(i)

-----------------------------------------------------------------------------
(* main *)

\* q_checkin first, then baton[1] to baton[N + 1].
Open ==
  /\ mainP = "open"
  /\ opened' = opened \cup {Cardinality(opened)}
  /\ mainP' = IF opened' = Queue THEN "fork" ELSE "open"
  /\ UNCHANGED <<forkedP, judgeP, heard, pcP, queues, trackP>>

\* mq_open or fork fails: main exits at once.
Fails ==
  /\ mainP \in {"open", "fork"}
  /\ mainP' = "failed"
  /\ UNCHANGED <<opened, forkedP, judgeP, heard, pcP, queues, trackP>>

\* The judge first, then the runners in their order.
ForkP ==
  /\ mainP = "fork"
  /\ forkedP' = forkedP + 1
  /\ IF forkedP = 0
     THEN judgeP' = "checkin" /\ UNCHANGED pcP
     ELSE pcP' = [pcP EXCEPT ![forkedP] = "hello"] /\ UNCHANGED judgeP
  /\ mainP' = IF forkedP = total_runners THEN "wait" ELSE "fork"
  /\ UNCHANGED <<opened, heard, queues, trackP>>

\* Mutant: one wait less.
WaitForRunners ==
  /\ mainP = "wait"
  /\ \A i \in RunnerP : pcP[i] \in {"exited", "failed"}
  /\ mainP' = "close"
  /\ UNCHANGED <<opened, forkedP, judgeP, heard, pcP, queues, trackP>>

Wait ==
  /\ mainP = "wait"
  /\ judgeP = "exited" /\ \A i \in RunnerP : pcP[i] \in {"exited", "failed"}
  /\ mainP' = "close"
  /\ UNCHANGED <<opened, forkedP, judgeP, heard, pcP, queues, trackP>>

Unlink ==
  /\ mainP = "close"
  /\ \E q \in opened :
       /\ \A r \in opened : q <= r
       /\ opened' = opened \ {q}
  /\ mainP' = IF opened' = {} THEN "done" ELSE "close"
  /\ UNCHANGED <<forkedP, judgeP, heard, pcP, queues, trackP>>

MainStepP == Open \/ Fails \/ ForkP \/ Wait \/ Unlink

StoppedP == mainP \in {"failed", "done"} /\ UNCHANGED varsP

NextP == MainStepP \/ JudgeStepP \/ (\E i \in RunnerP : RunnerStepP(i)) \/ StoppedP

\* Every process is scheduled; a queue wakes whom it can serve.
FairnessP ==
  WF_varsP(MainStepP) /\ WF_varsP(JudgeStepP) /\ \A i \in RunnerP : WF_varsP(RunnerStepP(i))

SpecP == InitP /\ [][NextP]_varsP /\ FairnessP

-----------------------------------------------------------------------------
(* Properties *)

\* There is one baton: in one of the queues, or with the runner who runs.
OneBaton ==
  Cardinality({q \in Queue \ {0} : queues[q] # <<>>}) +
  Cardinality({i \in RunnerP : pcP[i] = "pass"})
  = IF judgeP = "finish" THEN 1 ELSE 0

\* A queue is unlinked only when nobody is alive and nothing is in it, and a run
\* that comes to its end leaves no name behind.
NothingLeftBehind ==
  /\ mainP \in {"close", "done"} => /\ judgeP = "exited"
                                    /\ \A q \in Queue : queues[q] = <<>>
  /\ mainP = "done" => opened = {}

\* The runners run as Relay says: all there before the first, in order, and the
\* judge's clock, which runs from Start to Finish, covers the whole race.
RP == INSTANCE Relay WITH
       N     <- total_runners,
       track <- trackP,
       here  <- {i \in RunnerP : pcP[i] \notin {"unborn", "hello"}},
       clock <- CASE judgeP = "finish" -> "running"
                  [] judgeP = "exited" -> "stopped"
                  [] OTHER            -> "reset"
RefinesRelayP == RP!Spec

\* Once there is a queue the race ends and main returns, however small the queues,
\* unless a queue cannot be made or a fork fails.
TerminationP == opened # {} ~> mainP \in {"failed", "done"}
=============================================================================
