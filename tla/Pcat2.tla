-------------------------------- MODULE Pcat2 ------------------------------
(***************************************************************************)
(* seminar_8/pcat2.c: a writer thread reads the files, a reader thread     *)
(* prints them; one chunk at a time goes through a monitor with one slot   *)
(* and two condition variables.                                            *)
(*                                                                         *)
(* A critical section, from pthread_mutex_lock or the return of            *)
(* pthread_cond_wait to the unlock or the next wait, is one step.          *)
(***************************************************************************)
EXTENDS Integers, Sequences, SequencesExt

CONSTANTS
  Chunk,         \* what one read asks for: sizeof(buf) of a char*, 8 in the code
  Inputs,        \* the argument lists: sequences of files, each its bytes or Missing;
                 \* without arguments stdin is the one file
  Missing        \* a file that open cannot open

ASSUME Pcat2Assumption ==
  /\ Chunk \in Nat \ {0}
  /\ Inputs \subseteq Seq(Seq(Nat) \cup {Missing})

VARIABLES
  args, rest,                              \* the files after the current one; bytes of it unread
  writer, chunk,                           \* where writer_thread is; what it has read
  buffer_ready, writer_done, data,         \* the monitor
  reader, main,                            \* where reader_thread and main are
  taken, out                               \* everything read so far; the output

monitor == <<buffer_ready, writer_done, data>>
vars    == <<args, rest, writer, chunk, monitor, reader, main, taken, out>>


Init ==
  /\ args \in Inputs /\ rest = <<>>
  /\ writer = "next" /\ chunk = <<>>
  /\ buffer_ready = FALSE /\ writer_done = FALSE /\ data = <<>>
  /\ reader = "get" /\ main = "join"
  /\ taken = <<>> /\ out = <<>>

\* The threads run until main returns or the process is ended.
Alive == main = "join"

\* pthread_cond_signal: the thread that waits, if it does, looks again.
Signal(thread, label) == IF thread = "waiting" THEN label ELSE thread

-----------------------------------------------------------------------------
(* writer_thread *)

\* exit(1) takes the reader thread along, and the chunk in the slot.
Open ==
  /\ Alive /\ writer = "next" /\ args # <<>>
  /\ args' = Tail(args)
  /\ IF Head(args) = Missing
     THEN main' = "killed" /\ UNCHANGED <<rest, writer>>
     ELSE rest' = Head(args) /\ writer' = "read" /\ UNCHANGED main
  /\ UNCHANGED <<chunk, monitor, reader, taken, out>>

\* A read may give less than was asked for.
Read ==
  /\ Alive /\ writer = "read"
  /\ \E n \in 1 .. Chunk :
       /\ n <= Len(rest)
       /\ chunk' = SubSeq(rest, 1, n)
       /\ rest' = SubSeq(rest, n + 1, Len(rest))
       /\ taken' = taken \o chunk'
  /\ writer' = "put"
  /\ UNCHANGED <<args, monitor, reader, main, out>>

\* End of file; a read that fails is taken for it, and the rest of the file is
\* left out without a word.
EndOfFile ==
  /\ Alive /\ writer = "read"
  /\ rest' = <<>>
  /\ writer' = "next"
  /\ UNCHANGED <<args, chunk, monitor, reader, main, taken, out>>

Put ==
  /\ Alive /\ writer = "put"
  /\ IF buffer_ready
     THEN writer' = "waiting" /\ UNCHANGED <<monitor, reader>>
     ELSE /\ data' = chunk /\ buffer_ready' = TRUE
          /\ reader' = Signal(reader, "get")
          /\ writer' = "read"
          /\ UNCHANGED writer_done
  /\ UNCHANGED <<args, rest, chunk, main, taken, out>>

\* Mutant: the reader is not told.
DoneSilently ==
  /\ Alive /\ writer = "next" /\ args = <<>>
  /\ writer_done' = TRUE
  /\ writer' = "exited"
  /\ UNCHANGED <<args, rest, chunk, buffer_ready, data, reader, main, taken, out>>

Done ==
  /\ Alive /\ writer = "next" /\ args = <<>>
  /\ writer_done' = TRUE
  /\ reader' = Signal(reader, "get")
  /\ writer' = "exited"
  /\ UNCHANGED <<args, rest, chunk, buffer_ready, data, main, taken, out>>

WriterStep == Open \/ Read \/ EndOfFile \/ Put \/ Done

-----------------------------------------------------------------------------
(* reader_thread *)

\* Mutant: the end is looked for before the slot.
LookForEndFirst ==
  /\ Alive /\ reader = "get"
  /\ ~buffer_ready \/ writer_done
  /\ reader' = IF writer_done THEN "exited" ELSE "waiting"
  /\ UNCHANGED <<args, rest, writer, chunk, monitor, main, taken, out>>

NothingToPrint ==
  /\ Alive /\ reader = "get" /\ ~buffer_ready
  /\ reader' = IF writer_done THEN "exited" ELSE "waiting"
  /\ UNCHANGED <<args, rest, writer, chunk, monitor, main, taken, out>>

\* Mutant: the slot is not marked empty.
WriteOutTwice ==
  /\ Alive /\ reader = "get" /\ buffer_ready
  /\ out' = out \o data
  /\ writer' = Signal(writer, "put")
  /\ UNCHANGED <<args, rest, chunk, monitor, reader, main, taken>>

\* One write of the whole chunk.  Its result is not looked at: out is what write
\* was given, and how much of it was taken makes no difference to the program.
WriteOut ==
  /\ Alive /\ reader = "get" /\ buffer_ready
  /\ out' = out \o data
  /\ data' = <<>> /\ buffer_ready' = FALSE
  /\ writer' = Signal(writer, "put")
  /\ UNCHANGED <<args, rest, chunk, writer_done, reader, main, taken>>

ReaderStep == NothingToPrint \/ WriteOut

\* pthread_cond_wait may return without a signal.
SpuriousWakeup ==
  /\ Alive
  /\ \/ writer = "waiting" /\ writer' = "put" /\ UNCHANGED reader
     \/ reader = "waiting" /\ reader' = "get" /\ UNCHANGED writer
  /\ UNCHANGED <<args, rest, chunk, monitor, main, taken, out>>

-----------------------------------------------------------------------------
(* main *)

Join ==
  /\ main = "join" /\ writer = "exited" /\ reader = "exited"
  /\ main' = "done"
  /\ UNCHANGED <<args, rest, writer, chunk, monitor, reader, taken, out>>

Stopped == ~Alive /\ UNCHANGED vars

Next == WriterStep \/ ReaderStep \/ SpuriousWakeup \/ Join \/ Stopped

\* Both threads and main are scheduled; no wake-up is owed to luck.
Fairness == WF_vars(WriterStep) /\ WF_vars(ReaderStep) /\ WF_vars(Join)

Spec == Init /\ [][Next]_vars /\ Fairness

-----------------------------------------------------------------------------
(* Properties *)

\* What was read and is not printed is in the slot, and after it in the writer's
\* hands.  When main returns nothing is left there, also not what the writer put
\* in the slot just before it declared itself done; a process that is ended by a
\* file that is missing loses one chunk at most.
InTransit == data \o (IF writer \in {"put", "waiting"} THEN chunk ELSE <<>>)
NothingLostOnTheWay ==
  /\ taken = out \o InTransit
  /\ main = "done" => InTransit = <<>>
  /\ main = "killed" => Len(InTransit) <= Chunk

\* The two threads print what they read as Cat says.
C == INSTANCE Cat WITH given <- out
RefinesCat == C!Spec

\* The program ends, with or without the missing file, whatever the reads give.
Termination == <>(main \in {"done", "killed"})
=============================================================================
