------------------------------- MODULE MCRelays ----------------------------
(***************************************************************************)
(* Both relays in one run: the user starts one of the two programs, and    *)
(* the other one's variables stay as they are.                             *)
(***************************************************************************)
EXTENDS Stadion, StadionPosix

VARIABLE relay   \* the program that is run

RelaysInit == relay \in {"stadion", "stadion_posix"} /\ Init /\ InitP

RelaysNext ==
  /\ UNCHANGED relay
  /\ \/ relay = "stadion"       /\ Next  /\ UNCHANGED varsP
     \/ relay = "stadion_posix" /\ NextP /\ UNCHANGED vars

\* The fairness of the program that is run.
RelaysFairness ==
  /\ WF_vars(relay = "stadion" /\ MainStep)
  /\ WF_vars(relay = "stadion" /\ JudgeStep)
  /\ \A i \in Runner : WF_vars(relay = "stadion" /\ RunnerStep(i))
  /\ WF_varsP(relay = "stadion_posix" /\ MainStepP)
  /\ WF_varsP(relay = "stadion_posix" /\ JudgeStepP)
  /\ \A i \in RunnerP : WF_varsP(relay = "stadion_posix" /\ RunnerStepP(i))

RelaysSpec == RelaysInit /\ [][RelaysNext]_<<relay, vars, varsP>> /\ RelaysFairness
=============================================================================
