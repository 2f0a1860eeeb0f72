-------------------------------- MODULE Pcat -------------------------------
(***************************************************************************)
(* seminar_4/pcat.c: a reader process copies the files into a pipe, a      *)
(* writer process copies the pipe to the output, and the parent waits for  *)
(* both.  After the forks all three hold both ends of the pipe; the writer *)
(* sees the end of the input only when no process holds the writing end.   *)
(***************************************************************************)
EXTENDS Integers, Sequences, SequencesExt

CONSTANTS
  Chunk,         \* what one read asks for: sizeof(buf), 4096 in the code
  PipeSize,      \* bytes the pipe holds
  Inputs,        \* the argument lists: sequences of files, each its bytes or Missing;
                 \* without arguments stdin is the one file
  Missing        \* a file that open cannot open

ASSUME PcatAssumption ==
  /\ Chunk \in Nat \ {0} /\ PipeSize \in Nat \ {0}
  /\ Inputs \subseteq Seq(Seq(Nat) \cup {Missing})

VARIABLES
  parent, reader, writer,      \* where each process is
  files, unread,               \* the arguments after the current one; bytes of it unread
  readerBuf, writerBuf,        \* what each process has still to write of its buf
  pipe, readEnd, writeEnd,     \* the bytes in the pipe; the processes that hold each end
  taken, given                 \* everything read from the files; everything printed

vars == <<parent, reader, writer, files, unread, readerBuf, writerBuf,
              pipe, readEnd, writeEnd, taken, given>>

Init ==
  /\ parent = "off" /\ reader = "unborn" /\ writer = "unborn"
  /\ files = <<>> /\ unread = <<>>
  /\ readerBuf = <<>> /\ writerBuf = <<>>
  /\ pipe = <<>> /\ readEnd = {} /\ writeEnd = {}
  /\ taken = <<>> /\ given = <<>>

\* The end of a process closes what it holds.
Close(process) ==
  /\ readEnd' = readEnd \ {process}
  /\ writeEnd' = writeEnd \ {process}

\* Any number of bytes that a read or a write of at most size can be about.
Some(buf, size) == {n \in 1 .. size : n <= Len(buf)}
First(buf, n)   == SubSeq(buf, 1, n)
After(buf, n)   == SubSeq(buf, n + 1, Len(buf))

-----------------------------------------------------------------------------
(* main *)

Start(arguments) ==
  /\ parent = "off"
  /\ files' = arguments
  /\ readEnd' = {"parent"} /\ writeEnd' = {"parent"}
  /\ parent' = "forkReader"
  /\ UNCHANGED <<reader, writer, unread, readerBuf, writerBuf, pipe, taken, given>>

ForkReader ==
  /\ parent = "forkReader"
  /\ reader' = "close"
  /\ readEnd' = readEnd \cup {"reader"} /\ writeEnd' = writeEnd \cup {"reader"}
  /\ parent' = "forkWriter"
  /\ UNCHANGED <<writer, files, unread, readerBuf, writerBuf, pipe, taken, given>>

ForkWriter ==
  /\ parent = "forkWriter"
  /\ writer' = "close"
  /\ readEnd' = readEnd \cup {"writer"} /\ writeEnd' = writeEnd \cup {"writer"}
  /\ parent' = "closeRead"
  /\ UNCHANGED <<reader, files, unread, readerBuf, writerBuf, pipe, taken, given>>

\* main returns at once; a reader that was started is left to itself.
ForkFails ==
  /\ parent \in {"forkReader", "forkWriter"}
  /\ parent' = "failed"
  /\ Close("parent")
  /\ UNCHANGED <<reader, writer, files, unread, readerBuf, writerBuf, pipe, taken, given>>

CloseReadingEnd ==
  /\ parent = "closeRead"
  /\ readEnd' = readEnd \ {"parent"}
  /\ parent' = "closeWrite"
  /\ UNCHANGED <<reader, writer, files, unread, readerBuf, writerBuf, pipe, writeEnd, taken, given>>

\* Mutant: the parent keeps the writing end.
KeepWritingEnd ==
  /\ parent = "closeWrite"
  /\ parent' = "wait"
  /\ UNCHANGED <<reader, writer, files, unread, readerBuf, writerBuf, pipe, readEnd, writeEnd,
                 taken, given>>

CloseWritingEnd ==
  /\ parent = "closeWrite"
  /\ writeEnd' = writeEnd \ {"parent"}
  /\ parent' = "wait"
  /\ UNCHANGED <<reader, writer, files, unread, readerBuf, writerBuf, pipe, readEnd, taken, given>>

Gone == {"exited", "failed"}

Wait ==
  /\ parent = "wait" /\ reader \in Gone /\ writer \in Gone
  /\ parent' = "done"
  /\ UNCHANGED <<reader, writer, files, unread, readerBuf, writerBuf, pipe, readEnd, writeEnd,
                 taken, given>>

ParentStep == ForkReader \/ ForkWriter \/ ForkFails \/ CloseReadingEnd \/ CloseWritingEnd \/ Wait

-----------------------------------------------------------------------------
(* reader_process *)

ReaderCloses ==
  /\ reader = "close"
  /\ readEnd' = readEnd \ {"reader"}
  /\ reader' = "next"
  /\ UNCHANGED <<parent, writer, files, unread, readerBuf, writerBuf, pipe, writeEnd, taken, given>>

ReaderEnds(how) ==
  /\ reader' = how
  /\ Close("reader")
  /\ UNCHANGED <<parent, writer, readerBuf, writerBuf, pipe, taken, given>>

\* A file that is missing ends the reader, and only the reader.
Open ==
  /\ reader = "next" /\ files # <<>>
  /\ files' = Tail(files)
  /\ IF Head(files) = Missing
     THEN ReaderEnds("failed") /\ UNCHANGED unread
     ELSE /\ unread' = Head(files) /\ reader' = "read"
          /\ UNCHANGED <<parent, writer, readerBuf, writerBuf, pipe, readEnd, writeEnd, taken, given>>

Read ==
  /\ reader = "read"
  /\ \E n \in Some(unread, Chunk) :
       /\ readerBuf' = First(unread, n)
       /\ unread' = After(unread, n)
  /\ taken' = taken \o readerBuf'
  /\ reader' = "write"
  /\ UNCHANGED <<parent, writer, files, writerBuf, pipe, readEnd, writeEnd, given>>

ReadFails ==
  /\ reader = "read"
  /\ ReaderEnds("failed")
  /\ UNCHANGED <<files, unread>>

EndOfFile ==
  /\ reader = "read" /\ unread = <<>>
  /\ reader' = "next"
  /\ UNCHANGED <<parent, writer, files, unread, readerBuf, writerBuf, pipe, readEnd, writeEnd, taken, given>>

\* safe_write: a write takes what there is room for, and what it does not take is
\* written again.
WriteToPipe ==
  /\ reader = "write" /\ readEnd # {}
  /\ \E n \in Some(readerBuf, PipeSize - Len(pipe)) :
       /\ pipe' = pipe \o First(readerBuf, n)
       /\ readerBuf' = After(readerBuf, n)
  /\ reader' = IF readerBuf' = <<>> THEN "read" ELSE "write"
  /\ UNCHANGED <<parent, writer, files, unread, writerBuf, readEnd, writeEnd, taken, given>>

\* Nobody can read any more: the process is ended by SIGPIPE.
BrokenPipe ==
  /\ reader = "write" /\ readEnd = {}
  /\ ReaderEnds("failed")
  /\ UNCHANGED <<files, unread>>

ReaderDone ==
  /\ reader = "next" /\ files = <<>>
  /\ ReaderEnds("exited")
  /\ UNCHANGED <<files, unread>>

ReaderStep ==
  \/ ReaderCloses \/ Open \/ Read \/ ReadFails \/ EndOfFile
  \/ WriteToPipe \/ BrokenPipe \/ ReaderDone

-----------------------------------------------------------------------------
(* writer_process *)

WriterCloses ==
  /\ writer = "close"
  /\ writeEnd' = writeEnd \ {"writer"}
  /\ writer' = "read"
  /\ UNCHANGED <<parent, reader, files, unread, readerBuf, writerBuf, pipe, readEnd, taken, given>>

ReadFromPipe ==
  /\ writer = "read"
  /\ \E n \in Some(pipe, Chunk) :
       /\ writerBuf' = First(pipe, n)
       /\ pipe' = After(pipe, n)
  /\ writer' = "write"
  /\ UNCHANGED <<parent, reader, files, unread, readerBuf, readEnd, writeEnd, taken, given>>

WriterEnds(how) ==
  /\ writer' = how
  /\ Close("writer")
  /\ UNCHANGED <<parent, reader, files, unread, readerBuf, writerBuf, pipe, taken, given>>

\* Mutant: an empty pipe is taken for its end.
EmptyIsTheEnd ==
  /\ writer = "read" /\ pipe = <<>>
  /\ WriterEnds("exited")

EndOfPipe ==
  /\ writer = "read" /\ pipe = <<>> /\ writeEnd = {}
  /\ WriterEnds("exited")

WriteOut ==
  /\ writer = "write"
  /\ \E n \in Some(writerBuf, Chunk) :
       /\ given' = given \o First(writerBuf, n)
       /\ writerBuf' = After(writerBuf, n)
  /\ writer' = IF writerBuf' = <<>> THEN "read" ELSE "write"
  /\ UNCHANGED <<parent, reader, files, unread, readerBuf, pipe, readEnd, writeEnd, taken>>

WriteFails ==
  /\ writer = "write"
  /\ WriterEnds("failed")

WriterStep == WriterCloses \/ ReadFromPipe \/ EndOfPipe \/ WriteOut \/ WriteFails

-----------------------------------------------------------------------------

\* Nothing runs: not started, or nobody is left.
Idle ==
  /\ parent \in {"off", "failed", "done"}
  /\ reader \in Gone \cup {"unborn"} /\ writer \in Gone \cup {"unborn"}

Next == (\E arguments \in Inputs : Start(arguments)) \/ ParentStep \/ ReaderStep \/ WriterStep

\* The three processes are scheduled; the pipe wakes whom it can serve.
Fairness == WF_vars(ParentStep) /\ WF_vars(ReaderStep) /\ WF_vars(WriterStep)

Spec == Init /\ [][Next]_vars /\ Fairness

-----------------------------------------------------------------------------
(* Properties *)

\* What was read and not printed is, in order, in the writer's buffer, in the
\* pipe and in the reader's buffer, whatever short reads and writes there were;
\* and a writer that ends well has left nothing there, also when the reader
\* stopped at a file that is missing.
NothingLostInThePipe ==
  /\ taken = given \o writerBuf \o pipe \o readerBuf
  /\ writer = "exited" => given = taken

\* Once started, all three processes come to their end and let go of the pipe:
\* the writer is told of the end of the input, and a reader without a writer is
\* not left to write for ever, whatever failed.
NobodyStays == (parent = "forkReader") ~> (Idle /\ readEnd = {} /\ writeEnd = {})

\* The processes print what they read as Cat says.
C == INSTANCE Cat
RefinesCat == C!Spec
=============================================================================
