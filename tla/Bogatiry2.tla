----------------------------- MODULE Bogatiry2 -----------------------------
(***************************************************************************)
(* bogatiry/bogatiry2.c: the song is argv[1]; MAX_SINGERS threads number   *)
(* themselves from 1 and share a cursor.  A thread looks at the character  *)
(* under the cursor each time it has the lock: it prints it, waits, or     *)
(* leaves at the final NUL.                                                *)
(*                                                                         *)
(* One step is one stretch with the lock held.  A wait is inside an if,    *)
(* and the loop takes the lock again before it looks.                      *)
(*                                                                         *)
(* ctx, with text, cursor and lock, is a local variable of main.  When a   *)
(* thread cannot be created main returns, and those that exist run on with *)
(* what has become of its frame, until exit ends the process.              *)
(*                                                                         *)
(* Names that Bogatiry has as well end in 2: the proofs extend both.       *)
(***************************************************************************)
EXTENDS Integers, Sequences, FiniteSets

CONSTANTS MAX_SINGERS,   \* 128 in the code: the number of non-negative chars
          Songs,         \* the texts argv[1] may be
          AstrayLimit    \* bound: characters sung when ctx is gone

NUL2 == 0
\* char is signed: a byte from MAX_SINGERS up is negative, and slot MAX_SINGERS
\* is no character.
Char == (- MAX_SINGERS) .. (MAX_SINGERS - 1) \ {NUL2}

ASSUME Bogatiry2Assumption ==
  /\ MAX_SINGERS \in Nat \ {0}
  /\ Songs \subseteq Seq(Char)
  /\ AstrayLimit \in Nat

Thread2 == 1 .. MAX_SINGERS

VARIABLES
  main2,      \* where main is
  created2,   \* threads created so far
  pc2,        \* where each singer is
  my_slot,    \* my_slot of each singer
  slot_id, text, cursor,
  sung2       \* what putchar was given

ctx   == <<slot_id, text, cursor>>
vars2 == <<main2, created2, pc2, my_slot, ctx, sung2>>

NoSlot == 0

Init2 ==
  /\ main2 = "start" /\ created2 = 0
  /\ pc2 = [t \in Thread2 |-> "unborn"]
  /\ my_slot = [t \in Thread2 |-> NoSlot]
  /\ slot_id = 1 /\ cursor = 0 /\ text = <<>>
  /\ sung2 = <<>>

\* The character under the cursor.
Under == IF cursor < Len(text) THEN text[cursor + 1] ELSE NUL2

Broadcast2(pcs) == [t \in Thread2 |-> IF pcs[t] = "waiting" THEN "loop" ELSE pcs[t]]

-----------------------------------------------------------------------------
(* main *)

TakeText(s) ==
  /\ main2 = "start"
  /\ text' = s
  /\ main2' = "create"
  /\ UNCHANGED <<created2, pc2, my_slot, slot_id, cursor, sung2>>

Create2 ==
  /\ main2 = "create" /\ created2 < MAX_SINGERS
  /\ created2' = created2 + 1
  /\ pc2' = [pc2 EXCEPT ![created2'] = "register"]
  /\ UNCHANGED <<main2, my_slot, ctx, sung2>>

AllCreated2 ==
  /\ main2 = "create" /\ created2 = MAX_SINGERS
  /\ main2' = "join"
  /\ UNCHANGED <<created2, pc2, my_slot, ctx, sung2>>

\* No text on the command line.
NoText ==
  /\ main2 = "start"
  /\ main2' = "refused"
  /\ UNCHANGED <<created2, pc2, my_slot, ctx, sung2>>

\* pthread_create fails: main returns, and leaves the threads without ctx.
CreateFails2 ==
  /\ main2 = "create" /\ created2 < MAX_SINGERS
  /\ main2' = "left"
  /\ UNCHANGED <<created2, pc2, my_slot, ctx, sung2>>

\* exit, or a thread's access to where ctx was, ends the process.
ProcessEnds ==
  /\ main2 = "left"
  /\ main2' = "failed"
  /\ UNCHANGED <<created2, pc2, my_slot, ctx, sung2>>

Join2 ==
  /\ main2 = "join"
  /\ \A t \in Thread2 : pc2[t] = "exited"
  /\ main2' = "done"
  /\ UNCHANGED <<created2, pc2, my_slot, ctx, sung2>>

MainStep2 ==
  \/ \E s \in Songs : TakeText(s)
  \/ NoText \/ Create2 \/ AllCreated2 \/ CreateFails2 \/ ProcessEnds \/ Join2

-----------------------------------------------------------------------------
(* singer_routine *)

CtxLives == main2 \in {"create", "join"}

\* The last to register wakes those that wait already.
Register2(t) ==
  /\ CtxLives /\ pc2[t] = "register"
  /\ my_slot' = [my_slot EXCEPT ![t] = slot_id]
  /\ slot_id' = slot_id + 1
  /\ LET pcs == [pc2 EXCEPT ![t] = "loop"]
     IN  pc2' = IF slot_id = MAX_SINGERS THEN Broadcast2(pcs) ELSE pcs
  /\ UNCHANGED <<main2, created2, text, cursor, sung2>>

WaitForChange(t) ==
  /\ CtxLives /\ pc2[t] = "loop"
  /\ Under \notin {NUL2, my_slot[t]}
  /\ pc2' = [pc2 EXCEPT ![t] = "waiting"]
  /\ UNCHANGED <<main2, created2, my_slot, ctx, sung2>>

\* Mutants: the cursor moves and nobody is told; the cursor skips a character.
SingSilently(t) ==
  /\ CtxLives /\ pc2[t] = "loop"
  /\ Under # NUL2 /\ Under = my_slot[t]
  /\ sung2' = Append(sung2, my_slot[t])
  /\ cursor' = cursor + 1
  /\ UNCHANGED <<main2, created2, pc2, my_slot, slot_id, text>>

SingAndSkip(t) ==
  /\ CtxLives /\ pc2[t] = "loop"
  /\ Under # NUL2 /\ Under = my_slot[t]
  /\ sung2' = Append(sung2, my_slot[t])
  /\ cursor' = cursor + (IF cursor + 1 < Len(text) THEN 2 ELSE 1)
  /\ pc2' = Broadcast2(pc2)
  /\ UNCHANGED <<main2, created2, my_slot, slot_id, text>>

Sing(t) ==
  /\ CtxLives /\ pc2[t] = "loop"
  /\ Under # NUL2 /\ Under = my_slot[t]
  /\ sung2' = Append(sung2, my_slot[t])
  /\ cursor' = cursor + 1
  /\ pc2' = Broadcast2(pc2)
  /\ UNCHANGED <<main2, created2, my_slot, slot_id, text>>

\* Whoever leaves wakes the others.
Leave(t) ==
  /\ CtxLives /\ pc2[t] = "loop"
  /\ Under = NUL2
  /\ pc2' = [Broadcast2(pc2) EXCEPT ![t] = "exited"]
  /\ UNCHANGED <<main2, created2, my_slot, ctx, sung2>>

SingerStep2(t) == Register2(t) \/ WaitForChange(t) \/ Sing(t) \/ Leave(t)

\* pthread_cond_wait may return without a broadcast.
SpuriousWakeup2(t) ==
  /\ CtxLives /\ pc2[t] = "waiting"
  /\ pc2' = [pc2 EXCEPT ![t] = "loop"]
  /\ UNCHANGED <<main2, created2, my_slot, ctx, sung2>>

\* Where ctx was a thread may find anything, and so its own character under the
\* cursor; one that had yet to register may find any number for it.  What else it does (it
\* waits, or leaves) has no consequences any more.
Astray(t) ==
  /\ main2 = "left" /\ pc2[t] \notin {"unborn", "exited"}
  /\ Len(sung2) < cursor + AstrayLimit
  /\ \E s \in (IF pc2[t] = "register" THEN Char ELSE {my_slot[t]}) :
       sung2' = Append(sung2, s)
  /\ UNCHANGED <<main2, created2, pc2, my_slot, ctx>>

Stopped2 == main2 \in {"refused", "done", "failed"} /\ UNCHANGED vars2

Next2 ==
  \/ MainStep2
  \/ \E t \in Thread2 : SingerStep2(t) \/ SpuriousWakeup2(t) \/ Astray(t)
  \/ Stopped2

\* Every thread is scheduled, and gets the lock at last; no wake-up is owed to
\* luck.
Fairness2 == WF_vars2(MainStep2) /\ \A t \in Thread2 : WF_vars2(SingerStep2(t))

Spec2 == Init2 /\ [][Next2]_vars2 /\ Fairness2

-----------------------------------------------------------------------------
(* Properties *)

\* Although the wait is not in a loop of its own, no wake-up is lost: whoever
\* waits has neither its turn missed nor the end of the song.
NobodySleepsThroughTheirTurn2 ==
  CtxLives => \A t \in Thread2 : pc2[t] = "waiting" => Under \notin {NUL2, my_slot[t]}

\* Whatever the interleaving, the song is sung as Chorus says, all of it when main
\* returns well.  When a thread cannot be created main deserts the others
\* (bogatiry2.c:37): up to then they have sung the song's beginning and nothing else,
\* and what they sing after that may be anything.
C2 == INSTANCE Chorus WITH song <- text, sung <- sung2, over <- main2 = "done",
                           deserted <- main2 \in {"left", "failed"}
RefinesChorus2 == C2!Spec

\* A text of ASCII characters comes to its end and main returns, also when a thread
\* cannot be created; at a negative char every thread waits, and for ever.
EndsOrMissesAVoice2 ==
  main2 = "create" ~> main2 \in {"done", "failed"} \/ [](Under < 0)
=============================================================================
