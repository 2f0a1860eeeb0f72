-------------------------------- MODULE Relay ------------------------------
(***************************************************************************)
(* What both versions of seminar_5/stadion promise: N runners arrive; when *)
(* all are there the judge's clock is started, they run one after the      *)
(* other, in their order, and the clock is stopped when all have run.      *)
(***************************************************************************)
EXTENDS Integers, Sequences

CONSTANT N

VARIABLES here,   \* the runners who have said hello
          clock,  \* "reset", "running" or "stopped"
          track   \* the runners in the order they ran

relayVars == <<here, clock, track>>

Init == here = {} /\ clock = "reset" /\ track = <<>>

Arrive(i) ==
  /\ i \notin here
  /\ here' = here \cup {i}
  /\ UNCHANGED <<clock, track>>

StartClock ==
  /\ here = 1 .. N /\ clock = "reset"
  /\ clock' = "running"
  /\ UNCHANGED <<here, track>>

Run ==
  /\ clock = "running"
  /\ Len(track) < N
  /\ track' = Append(track, Len(track) + 1)
  /\ UNCHANGED <<here, clock>>

StopClock ==
  /\ clock = "running" /\ Len(track) = N
  /\ clock' = "stopped"
  /\ UNCHANGED <<here, track>>

Next == (\E i \in 1 .. N : Arrive(i)) \/ StartClock \/ Run \/ StopClock

Spec == Init /\ [][Next]_relayVars
=============================================================================
