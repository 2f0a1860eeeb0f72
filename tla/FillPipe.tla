------------------------------- MODULE FillPipe ----------------------------
(***************************************************************************)
(* final_task: three programs that write single bytes into a pipe nobody   *)
(* reads, to see how much it holds.  task.c is told by EAGAIN that it is   *)
(* full; task2.c and task3.c block in write and count on the alarm's       *)
(* signal to end it.  task2.c installs the handler with signal(), which    *)
(* has the system restart the write; task3.c with sigaction(), without     *)
(* SA_RESTART.                                                             *)
(***************************************************************************)
EXTENDS Integers

CONSTANT Room   \* bytes the pipe holds, 65536 on Linux

VARIABLES
  program,       \* which of the three
  filler,        \* where it is
  held, total,   \* bytes in the pipe; bytes it has counted
  alarm, stop    \* the alarm: "none", "set", "early" or "late"; what the handler sets

fillVars == <<program, filler, held, total, alarm, stop>>

FillInit ==
  /\ program = "none" /\ filler = "off"
  /\ held = 0 /\ total = 0
  /\ alarm = "none" /\ stop = FALSE

FillStart(task) ==
  /\ filler = "off"
  /\ program' = task
  /\ alarm' = IF task = "task" THEN "none" ELSE "set"
  /\ filler' = "write"
  /\ UNCHANGED <<held, total, stop>>

WriteByte ==
  /\ filler = "write" /\ held < Room
  /\ held' = held + 1 /\ total' = total + 1
  /\ UNCHANGED <<program, filler, alarm, stop>>

\* EAGAIN.
PipeIsFull ==
  /\ filler = "write" /\ held = Room /\ program = "task"
  /\ filler' = "done"
  /\ UNCHANGED <<program, held, total, alarm, stop>>

WriteBlocks ==
  /\ filler = "write" /\ held = Room /\ program # "task"
  /\ filler' = "blocked"
  /\ UNCHANGED <<program, held, total, alarm, stop>>

\* The handler runs.  A write that is blocked returns -1 (EINTR) in task3.c, finds
\* stop set and leaves the loop; in task2.c the system calls it again.  An alarm
\* between two writes interrupts neither.
\* Mutant: a handler whose stop is looked at only after the next alarm.
AlarmUnheard ==
  /\ alarm = "set"
  /\ alarm' = IF filler = "blocked" THEN "late" ELSE "early"
  /\ stop' = TRUE
  /\ filler' = IF filler = "blocked" /\ program = "task3" /\ stop THEN "done" ELSE filler
  /\ UNCHANGED <<program, held, total>>

Alarm ==
  /\ alarm = "set"
  /\ alarm' = IF filler = "blocked" THEN "late" ELSE "early"
  /\ stop' = TRUE
  /\ filler' = IF filler = "blocked" /\ program = "task3" /\ stop' THEN "done" ELSE filler
  /\ UNCHANGED <<program, held, total>>

FillStep == WriteByte \/ PipeIsFull \/ WriteBlocks

FillNext == (\E task \in {"task", "task2", "task3"} : FillStart(task)) \/ FillStep \/ Alarm

\* The program is scheduled, and one second comes to its end.
FillFairness == WF_fillVars(FillStep) /\ WF_fillVars(Alarm)

FillSpec == FillInit /\ [][FillNext]_fillVars /\ FillFairness

FillIdle == filler \in {"off", "done"}

-----------------------------------------------------------------------------
(* Properties *)

\* A program that ends has counted what the pipe holds: task.c always does, task3.c
\* when its alarm finds it blocked in write.  (An alarm before that interrupts nothing,
\* and task3.c then blocks for ever.)
EndsWithTheCount ==
  /\ (program = "task" /\ filler = "write") ~> (filler = "done" /\ total = Room)
  /\ (program = "task3" /\ filler = "blocked" /\ alarm = "set")
       ~> (filler = "done" /\ total = Room)

\* "write was interrupted and returned -1" (final_task/task2.c:37, in Russian): the
\* alarm ends task2.c's write when it finds it blocked, as it does in task3.c.
WriteIsInterrupted ==
  (program = "task2" /\ filler = "blocked" /\ alarm = "set") ~> filler = "done"
=============================================================================
