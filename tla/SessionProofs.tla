---------------------------- MODULE SessionProofs --------------------------
(***************************************************************************)
(* Proofs about the small programs of Session, each for every input, every *)
(* buffer and every pipe:                                                  *)
(*   - pcat loses nothing between its processes and implements Cat;        *)
(*   - cat, whatever writes are cut short, prints what it reads in order;  *)
(*   - mywc counts the words, the lines and the bits of what it has read;  *)
(*   - cp leaves a single source as it was, and cp and cp_mmap say so when *)
(*     they have not copied what they were to copy;                        *)
(*   - myshell, whose passes write into the line, makes of any line what   *)
(*     it says, and is back at the prompt without children and without     *)
(*     pipes.                                                              *)
(* A session is a behaviour of each of them, so all of this holds of it.   *)
(***************************************************************************)
EXTENDS Session, FiniteSetTheorems, SequenceTheorems, WellFoundedInduction, TLAPS

\* Recursive functions are reasoned about by the least place where they are wrong.
Less == OpToRel(<, Nat)

\* A set of natural numbers that is not empty has a least element.
LEMMA Least == ASSUME NEW T \in SUBSET Nat, T # {} PROVE \E x \in T : \A y \in T : x <= y
<1>1. IsWellFoundedOn(Less, Nat)
  BY NatLessThanWellFounded DEF Less
<1>2. PICK x \in T : \A y \in T : ~ (<<y, x>> \in Less)
  BY <1>1, WFMin
<1>3. ASSUME NEW y \in T PROVE x <= y
  <2>1. ~ (<<y, x>> \in Less) /\ x \in Nat /\ y \in Nat
    BY <1>2
  <2>2. ASSUME y < x PROVE FALSE
    BY <2>1, <2>2 DEF OpToRel, Less
  <2> QED BY <2>1, <2>2
<1> QED BY <1>3

-----------------------------------------------------------------------------
(* pcat *)

Bytes   == Seq(Nat)
Process == {"parent", "reader", "writer"}

TypeOK ==
  /\ parent \in {"off", "forkReader", "forkWriter", "closeRead", "closeWrite", "wait",
                 "failed", "done"}
  /\ reader \in {"unborn", "close", "next", "read", "write"} \cup Gone
  /\ writer \in {"unborn", "close", "read", "write"} \cup Gone
  /\ files \in Seq(Bytes \cup {Missing}) /\ unread \in Bytes
  /\ readerBuf \in Bytes /\ writerBuf \in Bytes /\ pipe \in Bytes
  /\ readEnd \subseteq Process /\ writeEnd \subseteq Process
  /\ taken \in Bytes /\ given \in Bytes

ReaderLives == reader \notin {"unborn"} \cup Gone
WriterLives == writer \notin {"unborn"} \cup Gone

\* A process that may still use an end of the pipe holds it, and the parent holds
\* the reading end until both children are born.
EndsOK ==
  /\ ReaderLives => "reader" \in writeEnd
  /\ WriterLives => "writer" \in readEnd
  /\ parent \in {"forkReader", "forkWriter", "closeRead"} => "parent" \in readEnd
  /\ parent \in {"off", "forkReader"} => reader = "unborn"
  /\ parent \in {"off", "forkReader", "forkWriter"} => writer = "unborn"
  /\ parent = "off" => readEnd = {}

\* A buffer holds something only while its process writes, or when the process has
\* ended; a reader ends so only when nobody can read from the pipe any more.
BuffersOK ==
  /\ readerBuf # <<>> => reader = "write" \/ (reader \in Gone /\ readEnd = {})
  /\ writerBuf # <<>> => writer \in {"write", "failed"}
  /\ writer = "exited" =>
       /\ writerBuf = <<>> /\ pipe = <<>> /\ readerBuf = <<>>
       /\ ~ReaderLives /\ parent \notin {"off", "forkReader"}

NothingLost == taken = given \o writerBuf \o pipe \o readerBuf

IInv == TypeOK /\ EndsOK /\ BuffersOK /\ NothingLost

-----------------------------------------------------------------------------
(* Sequences *)

\* The first bytes of a sequence and the others.
LEMMA Split ==
  ASSUME NEW s \in Bytes, NEW size, NEW n \in Some(s, size), size \in Nat
  PROVE  /\ First(s, n) \in Bytes /\ Len(First(s, n)) = n /\ n >= 1
         /\ After(s, n) \in Bytes
         /\ First(s, n) \o After(s, n) = s
<1>1. n \in Nat /\ n >= 1 /\ n <= Len(s) /\ Len(s) \in Nat
  BY LenProperties DEF Some, Bytes
<1>2. \A k \in 1 .. Len(s) : s[k] \in Nat
  BY ElementOfSeq DEF Bytes
<1>3. First(s, n) \in Bytes /\ Len(First(s, n)) = n
  BY <1>1, <1>2, SubSeqProperties DEF First, Bytes
<1>4. After(s, n) \in Bytes
  BY <1>1, <1>2, SubSeqProperties DEF After, Bytes
<1>5. SubSeq(s, 1, n) \o SubSeq(s, n + 1, Len(s)) = SubSeq(s, 1, Len(s))
  <2>1. 1 \in 1 .. Len(s) + 1 /\ n \in 1 - 1 .. Len(s) /\ Len(s) \in n .. Len(s)
    BY <1>1
  <2> QED BY <2>1, ConcatAdjacentSubSeq DEF Bytes
<1> QED BY <1>1, <1>3, <1>4, <1>5, SubSeqFull DEF First, After, Bytes

\* Concatenations of bytes are bytes, and moving the border between two neighbours
\* moves nothing else.
LEMMA Shift ==
  ASSUME NEW a \in Bytes, NEW b \in Bytes
  PROVE  a \o b \in Bytes /\ a \o <<>> = a /\ <<>> \o a = a
BY ConcatProperties, ConcatEmptySeq DEF Bytes

LEMMA Associate ==
  \A a, b, c \in Bytes : (a \o b) \o c = a \o (b \o c)
<1> TAKE a, b, c \in Bytes
<1>1. a \in Seq(Nat) /\ b \in Seq(Nat) /\ c \in Seq(Nat)
  BY DEF Bytes
<1> QED BY <1>1, ConcatAssociative, SMTT(30)

\* s is a prefix of s \o t, and a strict one unless t is empty.
LEMMA PrefixOfConcat ==
  ASSUME NEW s \in Bytes, NEW t \in Bytes
  PROVE  /\ IsPrefix(s, s \o t)
         /\ s \o t # s => IsStrictPrefix(s, s \o t)
         /\ s \in Prefixes(s \o t)
<1>1. /\ Len(s) \in Nat /\ Len(t) \in Nat
      /\ s \o t \in Bytes /\ Len(s \o t) = Len(s) + Len(t)
  BY ConcatProperties, LenProperties DEF Bytes
<1>2. SubSeq(s \o t, 1, Len(s)) = SubSeq(s, 1, Len(s))
  <2>1. CASE s = <<>>
    BY <2>1, <1>1, SubSeqEmpty
  <2>2. CASE s # <<>>
    <3>1. 1 \in 1 .. Len(s) /\ Len(s) \in 1 .. Len(s)
      BY <1>1, <2>2, EmptySeq DEF Bytes
    <3> QED BY <3>1, SubSeqOfConcat1 DEF Bytes
  <2> QED BY <2>1, <2>2
<1>3. SubSeq(s, 1, Len(s)) = s
  BY SubSeqFull DEF Bytes
<1>4. IsPrefix(s, s \o t)
  BY <1>1, <1>2 DEF IsPrefix
<1>5. \E l \in 0 .. Len(s \o t) : s = SubSeq(s \o t, 1, l)
  <2>1. Len(s) \in 0 .. Len(s \o t)
    BY <1>1
  <2>2. s = SubSeq(s \o t, 1, Len(s))
    BY <1>2, <1>3
  <2> QED BY <2>1, <2>2
<1> QED BY <1>4, <1>5 DEF IsStrictPrefix, Prefixes

\* The first of four sequences in a row is a prefix of them all.
InARow(a, b, c, d) == ((a \o b) \o c) \o d

LEMMA FirstInARow ==
  ASSUME NEW a \in Bytes, NEW b \in Bytes, NEW c \in Bytes, NEW d \in Bytes
  PROVE  a \in Prefixes(InARow(a, b, c, d))
<1>1. a \o b \in Bytes /\ c \o d \in Bytes
  BY Shift
<1>2. b \o (c \o d) \in Bytes
  BY <1>1, Shift
<1>3. ((a \o b) \o c) \o d = (a \o b) \o (c \o d)
  BY <1>1, Associate, SMTT(30)
<1>4. (a \o b) \o (c \o d) = a \o (b \o (c \o d))
  BY <1>1, Associate, SMTT(30)
<1>5. a \in Prefixes(a \o (b \o (c \o d)))
  BY <1>2, PrefixOfConcat
<1> QED BY <1>3, <1>4, <1>5 DEF InARow

-----------------------------------------------------------------------------
(* The invariant *)

LEMMA InitIInv ==
  ASSUME Init PROVE IInv
<1>1. <<>> \in Bytes /\ <<>> \in Seq(Bytes \cup {Missing}) /\ <<>> \o <<>> = <<>>
  BY EmptySeq, ConcatEmptySeq DEF Bytes
<1> QED BY <1>1 DEF Init, IInv, TypeOK, EndsOK, BuffersOK, NothingLost, ReaderLives, WriterLives, Gone

LEMMA StartIInv ==
  ASSUME IInv, NEW arguments \in Inputs, Start(arguments) PROVE IInv'
<1>1. files' \in Seq(Bytes \cup {Missing})
  BY PcatAssumption DEF Start, Bytes
<1>2. TypeOK'
  BY <1>1 DEF Start, IInv, TypeOK, Process
<1> QED BY <1>2 DEF Start, IInv, TypeOK, EndsOK, BuffersOK, NothingLost, ReaderLives, WriterLives, Gone

\* The parent's steps move no bytes.
LEMMA ParentStepIInv ==
  ASSUME IInv, ParentStep PROVE IInv'
<1>1. TypeOK'
  BY DEF ParentStep, ForkReader, ForkWriter, ForkFails, CloseReadingEnd, CloseWritingEnd, Wait,
         Close, IInv, TypeOK, Process, Gone
<1>2. EndsOK'
  BY DEF ParentStep, ForkReader, ForkWriter, ForkFails, CloseReadingEnd, CloseWritingEnd, Wait,
         Close, IInv, TypeOK, EndsOK, ReaderLives, WriterLives, Gone, Process
<1>3. BuffersOK'
  BY DEF ParentStep, ForkReader, ForkWriter, ForkFails, CloseReadingEnd, CloseWritingEnd, Wait,
         Close, IInv, TypeOK, EndsOK, BuffersOK, ReaderLives, WriterLives, Gone, Process
<1>4. NothingLost'
  BY DEF ParentStep, ForkReader, ForkWriter, ForkFails, CloseReadingEnd, CloseWritingEnd, Wait,
         IInv, NothingLost
<1> QED BY <1>1, <1>2, <1>3, <1>4 DEF IInv

LEMMA ReaderClosesIInv ==
  ASSUME IInv, ReaderCloses PROVE IInv'
BY DEF ReaderCloses, IInv, TypeOK, EndsOK, BuffersOK, NothingLost, ReaderLives, WriterLives, Gone, Process

\* The reader ends, with what it could not write only if nobody can read it.
LEMMA ReaderEndsIInv ==
  ASSUME IInv, NEW how \in Gone, ReaderLives, ReaderEnds(how),
         readerBuf = <<>> \/ readEnd = {},
         files' \in Seq(Bytes \cup {Missing}), UNCHANGED unread
  PROVE  IInv'
<1>1. TypeOK'
  BY DEF ReaderEnds, Close, IInv, TypeOK, Process, Gone
<1>2. EndsOK'
  BY DEF ReaderEnds, Close, IInv, TypeOK, EndsOK, ReaderLives, WriterLives, Gone, Process
<1>3. BuffersOK'
  BY DEF ReaderEnds, Close, IInv, TypeOK, EndsOK, BuffersOK, ReaderLives, Gone
<1>4. NothingLost'
  BY DEF ReaderEnds, IInv, NothingLost
<1> QED BY <1>1, <1>2, <1>3, <1>4 DEF IInv

LEMMA OpenIInv ==
  ASSUME IInv, Open PROVE IInv'
<1>1. Head(files) \in Bytes \cup {Missing} /\ files' \in Seq(Bytes \cup {Missing})
  BY HeadTailProperties DEF Open, IInv, TypeOK
<1>2. ReaderLives /\ readerBuf = <<>>
  BY DEF Open, IInv, BuffersOK, ReaderLives, Gone
<1>3. CASE Head(files) = Missing
  BY <1>1, <1>2, <1>3, ReaderEndsIInv DEF Open, Gone
<1>4. CASE Head(files) # Missing
  BY <1>1, <1>2, <1>4 DEF Open, IInv, TypeOK, EndsOK, BuffersOK, NothingLost, ReaderLives,
                          WriterLives, Gone
<1> QED BY <1>3, <1>4

LEMMA ReadIInv ==
  ASSUME IInv, Read PROVE IInv'
<1>1. PICK n \in Some(unread, Chunk) : readerBuf' = First(unread, n) /\ unread' = After(unread, n)
  BY DEF Read
<1>2. readerBuf' \in Bytes /\ unread' \in Bytes
  BY <1>1, Split, PcatAssumption DEF IInv, TypeOK
<1>3. readerBuf = <<>>
  BY DEF Read, IInv, BuffersOK, Gone
<1>4. taken = (given \o writerBuf) \o pipe /\ taken' \in Bytes
  BY <1>2, <1>3, Shift DEF Read, IInv, TypeOK, NothingLost
<1>5. NothingLost'
  BY <1>4 DEF Read, NothingLost
<1>6. TypeOK'
  BY <1>2, <1>4 DEF Read, IInv, TypeOK
<1>7. EndsOK' /\ BuffersOK'
  BY DEF Read, IInv, TypeOK, EndsOK, BuffersOK, ReaderLives, WriterLives, Gone
<1> QED BY <1>5, <1>6, <1>7 DEF IInv

LEMMA ReadFailsIInv ==
  ASSUME IInv, ReadFails PROVE IInv'
<1>1. ReaderLives /\ readerBuf = <<>>
  BY DEF ReadFails, IInv, BuffersOK, ReaderLives, Gone
<1> QED BY <1>1, ReaderEndsIInv DEF ReadFails, Gone, IInv, TypeOK

LEMMA EndOfFileIInv ==
  ASSUME IInv, EndOfFile PROVE IInv'
BY DEF EndOfFile, IInv, TypeOK, EndsOK, BuffersOK, NothingLost, ReaderLives, WriterLives, Gone

\* The border between the reader's buffer and the pipe moves.
LEMMA WriteToPipeIInv ==
  ASSUME IInv, WriteToPipe PROVE IInv'
<1>1. PICK n \in Some(readerBuf, PipeSize - Len(pipe)) :
         pipe' = pipe \o First(readerBuf, n) /\ readerBuf' = After(readerBuf, n)
  BY DEF WriteToPipe
<1>2. n \in Some(readerBuf, n) /\ n \in Nat
  BY LenProperties, PcatAssumption DEF Some, IInv, TypeOK, Bytes
<1>3. /\ First(readerBuf, n) \in Bytes /\ readerBuf' \in Bytes
      /\ readerBuf = First(readerBuf, n) \o readerBuf'
  BY <1>1, <1>2, Split DEF IInv, TypeOK
<1>4. pipe' \in Bytes
  BY <1>1, <1>3, Shift DEF IInv, TypeOK
<1>5. NothingLost'
  <2> DEFINE g == given \o writerBuf
             f == First(readerBuf, n)
  <2>1. g \in Bytes /\ f \in Bytes /\ pipe \in Bytes /\ readerBuf' \in Bytes
    BY <1>3, Shift DEF IInv, TypeOK
  <2>2. g \o pipe \in Bytes
    BY <2>1, Shift
  <2> HIDE DEF g, f
  <2>3. (g \o pipe) \o (f \o readerBuf') = ((g \o pipe) \o f) \o readerBuf'
    BY <2>1, <2>2, Associate
  <2>4. (g \o pipe) \o f = g \o (pipe \o f)
    BY <2>1, Associate
  <2>5. taken = (g \o pipe) \o (f \o readerBuf')
    BY <1>3 DEF IInv, NothingLost, g, f
  <2> QED BY <1>1, <2>3, <2>4, <2>5 DEF WriteToPipe, NothingLost, g, f
<1>6. TypeOK'
  BY <1>3, <1>4 DEF WriteToPipe, IInv, TypeOK
<1>7. EndsOK' /\ BuffersOK'
  BY DEF WriteToPipe, IInv, TypeOK, EndsOK, BuffersOK, ReaderLives, WriterLives, Gone
<1> QED BY <1>5, <1>6, <1>7 DEF IInv

LEMMA BrokenPipeIInv ==
  ASSUME IInv, BrokenPipe PROVE IInv'
<1>1. ReaderLives /\ readEnd = {}
  BY DEF BrokenPipe, ReaderLives, Gone
<1> QED BY <1>1, ReaderEndsIInv DEF BrokenPipe, Gone, IInv, TypeOK

LEMMA ReaderDoneIInv ==
  ASSUME IInv, ReaderDone PROVE IInv'
<1>1. ReaderLives /\ readerBuf = <<>>
  BY DEF ReaderDone, IInv, BuffersOK, ReaderLives, Gone
<1> QED BY <1>1, ReaderEndsIInv DEF ReaderDone, Gone, IInv, TypeOK

LEMMA WriterClosesIInv ==
  ASSUME IInv, WriterCloses PROVE IInv'
BY DEF WriterCloses, IInv, TypeOK, EndsOK, BuffersOK, NothingLost, ReaderLives, WriterLives, Gone, Process

\* The border between the pipe and the writer's buffer, which was empty, moves.
LEMMA ReadFromPipeIInv ==
  ASSUME IInv, ReadFromPipe PROVE IInv'
<1>1. PICK n \in Some(pipe, Chunk) : writerBuf' = First(pipe, n) /\ pipe' = After(pipe, n)
  BY DEF ReadFromPipe
<1>2. writerBuf' \in Bytes /\ pipe' \in Bytes /\ pipe = writerBuf' \o pipe'
  BY <1>1, Split, PcatAssumption DEF IInv, TypeOK
<1>3. writerBuf = <<>>
  BY DEF ReadFromPipe, IInv, BuffersOK
<1>4. given \o pipe = (given \o writerBuf') \o pipe'
  <2>1. given \in Bytes
    BY DEF IInv, TypeOK
  <2>2. (given \o writerBuf') \o pipe' = given \o (writerBuf' \o pipe')
    BY <1>2, <2>1, Associate
  <2> QED BY <1>2, <2>2
<1>5. NothingLost'
  <2>1. given \o writerBuf = given
    BY <1>3, Shift DEF IInv, TypeOK
  <2> QED BY <1>4, <2>1 DEF ReadFromPipe, IInv, NothingLost
<1>6. TypeOK'
  BY <1>2 DEF ReadFromPipe, IInv, TypeOK
<1>7. EndsOK' /\ BuffersOK'
  BY DEF ReadFromPipe, IInv, TypeOK, EndsOK, BuffersOK, ReaderLives, WriterLives, Gone
<1> QED BY <1>5, <1>6, <1>7 DEF IInv

\* With nobody left who could write, nothing is left in any buffer: a reader that
\* has ended with bytes in hand did so because the writer had ended before.
LEMMA EndOfPipeIInv ==
  ASSUME IInv, EndOfPipe PROVE IInv'
<1>1. ~ReaderLives /\ readEnd # {} /\ parent \notin {"off", "forkReader"}
  BY DEF EndOfPipe, IInv, EndsOK, WriterLives, Gone
<1>2. readerBuf = <<>> /\ writerBuf = <<>>
  BY <1>1 DEF EndOfPipe, IInv, BuffersOK, ReaderLives, Gone
<1>3. TypeOK'
  BY DEF EndOfPipe, WriterEnds, Close, IInv, TypeOK, Gone
<1>4. EndsOK'
  BY DEF EndOfPipe, WriterEnds, Close, IInv, EndsOK, ReaderLives, WriterLives, Gone
<1>5. BuffersOK'
  BY <1>1, <1>2 DEF EndOfPipe, WriterEnds, IInv, BuffersOK, ReaderLives
<1>6. NothingLost'
  BY DEF EndOfPipe, WriterEnds, IInv, NothingLost
<1> QED BY <1>3, <1>4, <1>5, <1>6 DEF IInv

\* The border between the writer's buffer and the output moves.
LEMMA WriteOutIInv ==
  ASSUME IInv, WriteOut PROVE IInv'
<1>1. PICK n \in Some(writerBuf, Chunk) :
         given' = given \o First(writerBuf, n) /\ writerBuf' = After(writerBuf, n)
  BY DEF WriteOut
<1>2. /\ First(writerBuf, n) \in Bytes /\ writerBuf' \in Bytes
      /\ writerBuf = First(writerBuf, n) \o writerBuf'
  BY <1>1, Split, PcatAssumption DEF IInv, TypeOK
<1>3. given' \in Bytes /\ given \o writerBuf = given' \o writerBuf'
  <2>1. given \in Bytes
    BY DEF IInv, TypeOK
  <2>2. given \o (First(writerBuf, n) \o writerBuf') = given' \o writerBuf'
    BY <1>1, <1>2, <2>1, Associate
  <2> QED BY <1>1, <1>2, <2>1, <2>2, Shift
<1>4. NothingLost'
  BY <1>3 DEF WriteOut, IInv, NothingLost
<1>5. TypeOK'
  BY <1>2, <1>3 DEF WriteOut, IInv, TypeOK
<1>6. EndsOK' /\ BuffersOK'
  BY DEF WriteOut, IInv, TypeOK, EndsOK, BuffersOK, ReaderLives, WriterLives, Gone
<1> QED BY <1>4, <1>5, <1>6 DEF IInv

LEMMA WriteFailsIInv ==
  ASSUME IInv, WriteFails PROVE IInv'
<1>1. TypeOK'
  BY DEF WriteFails, WriterEnds, Close, IInv, TypeOK, Gone
<1>2. EndsOK'
  BY DEF WriteFails, WriterEnds, Close, IInv, EndsOK, ReaderLives, WriterLives, Gone
<1>3. BuffersOK' /\ NothingLost'
  BY DEF WriteFails, WriterEnds, Close, IInv, EndsOK, BuffersOK, NothingLost, ReaderLives, Gone
<1> QED BY <1>1, <1>2, <1>3 DEF IInv

LEMMA NextIInv ==
  ASSUME IInv, [Next]_vars PROVE IInv'
<1>1. CASE UNCHANGED vars
  BY <1>1 DEF IInv, TypeOK, EndsOK, BuffersOK, NothingLost, ReaderLives, WriterLives, vars
<1> QED
  BY <1>1, StartIInv, ParentStepIInv, ReaderClosesIInv, OpenIInv, ReadIInv, ReadFailsIInv,
     EndOfFileIInv, WriteToPipeIInv, BrokenPipeIInv, ReaderDoneIInv, WriterClosesIInv,
     ReadFromPipeIInv, EndOfPipeIInv, WriteOutIInv, WriteFailsIInv
     DEF Next, ReaderStep, WriterStep

LEMMA Invariance == Spec => []IInv
BY InitIInv, NextIInv, PTL DEF Spec

-----------------------------------------------------------------------------
(* Theorems *)

\* What was read is printed, in the writer's buffer, in the pipe or in the reader's
\* buffer; and a writer that has seen the end of the pipe has printed all of it.
THEOREM PipeLosesNothing == Spec => []NothingLostInThePipe
<1>1. ASSUME IInv PROVE NothingLostInThePipe
  <2>1. writer = "exited" => given = taken
    BY <1>1, Shift DEF IInv, TypeOK, BuffersOK, NothingLost
  <2> QED BY <1>1, <2>1 DEF IInv, NothingLost, NothingLostInThePipe
<1> QED BY <1>1, Invariance, PTL

\* A step that reads a file is Take, one that prints is Give, all others change
\* nothing that Cat sees.
LEMMA StepRefinesCat ==
  ASSUME IInv, [Next]_vars PROVE C!Next \/ UNCHANGED C!catVars
<1>1. CASE Read
  <2>1. readerBuf' \in Bytes /\ taken' = taken \o readerBuf' /\ taken' \in Bytes
    BY <1>1, ReadIInv DEF IInv, TypeOK, Read
  <2>2. taken' # taken => C!Take
    BY <1>1, <2>1, PrefixOfConcat
       DEF IInv, TypeOK, Read, C!Take, C!IsStrictPrefix, C!IsPrefix, IsStrictPrefix, IsPrefix, Bytes
  <2> QED BY <1>1, <2>2 DEF Read, C!Next, C!catVars
<1>2. CASE WriteOut
  <2>1. PICK n \in Some(writerBuf, Chunk) : given' = given \o First(writerBuf, n)
    BY <1>2 DEF WriteOut
  <2>2. First(writerBuf, n) \in Bytes /\ given \in Bytes /\ taken' = taken
    BY <1>2, <2>1, Split, PcatAssumption DEF WriteOut, IInv, TypeOK
  <2>3. IInv'
    BY <1>2, WriteOutIInv
  <2>4. /\ given' \in Bytes /\ writerBuf' \in Bytes /\ pipe' \in Bytes /\ readerBuf' \in Bytes
        /\ taken' = InARow(given', writerBuf', pipe', readerBuf')
    BY <2>3 DEF IInv, TypeOK, NothingLost, InARow
  <2>5. given' \in Prefixes(InARow(given', writerBuf', pipe', readerBuf'))
    BY <2>4, FirstInARow
  <2>7. given' \in Prefixes(taken)
    BY <2>2, <2>4, <2>5
  <2>8. given' # given => C!Give
    BY <2>1, <2>2, <2>7, PrefixOfConcat
       DEF C!Give, C!Prefixes, C!IsStrictPrefix, C!IsPrefix, Prefixes, IsStrictPrefix, IsPrefix
  <2> QED BY <2>2, <2>8 DEF C!Next, C!catVars
<1>3. CASE ~Read /\ ~WriteOut
  BY <1>3 DEF Next, vars, Start, ParentStep, ForkReader, ForkWriter, ForkFails, CloseReadingEnd,
              CloseWritingEnd, Wait, ReaderStep, ReaderCloses, Open, ReadFails, EndOfFile,
              WriteToPipe, BrokenPipe, ReaderDone, ReaderEnds, WriterStep, WriterCloses,
              ReadFromPipe, EndOfPipe, WriteFails, WriterEnds, C!catVars
<1> QED BY <1>1, <1>2, <1>3

\* Three processes and a pipe implement a cat that prints what it reads.
THEOREM PcatImplementsCat == Spec => RefinesCat
<1>1. Init => C!Init
  BY DEF Init, C!Init
<1> QED BY <1>1, StepRefinesCat, Invariance, PTL DEF Spec, RefinesCat, C!Spec

-----------------------------------------------------------------------------
(* cat *)

-----------------------------------------------------------------------------
(* The bytes that were read *)

OwnUpTo(f, text) ==
  f = [k \in 0 .. Len(text) |-> IF k = 0 THEN <<>>
                                ELSE IF text[k] = Stale THEN f[k - 1]
                                ELSE Append(f[k - 1], text[k])]

LEMMA OwnExists == ASSUME NEW text \in Seq(Int) PROVE \E f : OwnUpTo(f, text)
<1> DEFINE Up(f, m) == f = [k \in 0 .. m |-> IF k = 0 THEN <<>>
                                             ELSE IF text[k] = Stale THEN f[k - 1]
                                             ELSE Append(f[k - 1], text[k])]
           T == {m \in Nat : ~ \E f : Up(f, m)}
<1>1. Len(text) \in Nat
  BY LenProperties
<1> SUFFICES ASSUME T # {} PROVE FALSE
  BY <1>1 DEF OwnUpTo
<1>2. PICK m \in T : \A j \in T : m <= j
  <2> HIDE DEF Up
  <2>1. T \in SUBSET Nat
    OBVIOUS
  <2> HIDE DEF T
  <2> QED BY <2>1, Least
<1>3. CASE m = 0
  <2> DEFINE f == [j \in 0 .. 0 |-> <<>>]
  <2>1. Up(f, 0)
    OBVIOUS
  <2> HIDE DEF f, Up
  <2> QED BY <1>2, <1>3, <2>1
<1>4. CASE m # 0
  <2>1. m \in Nat /\ m - 1 \in Nat /\ \E g : Up(g, m - 1)
    <3> HIDE DEF Up
    <3>1. m \in Nat /\ m - 1 \in Nat /\ m - 1 \notin T
      BY <1>2, <1>4
    <3> QED BY <3>1
  <2>2. PICK g : Up(g, m - 1)
    BY <2>1
  <2> DEFINE f == [j \in 0 .. m |-> IF j # m THEN g[j] 
                                    ELSE IF text[m] = Stale THEN g[m - 1]
                                    ELSE Append(g[m - 1], text[m])]
  <2>3. \A j \in 0 .. m - 1 : g[j] = IF j = 0 THEN <<>>
                                     ELSE IF text[j] = Stale THEN g[j - 1]
                                     ELSE Append(g[j - 1], text[j])
    BY <2>1, <2>2
  <2>4. ASSUME NEW j \in 0 .. m
        PROVE  f[j] = IF j = 0 THEN <<>>
                      ELSE IF text[j] = Stale THEN f[j - 1]
                      ELSE Append(f[j - 1], text[j])
    <3>1. CASE j = m
      <4>1. f[m - 1] = g[m - 1]
        BY <2>1
      <4> QED BY <1>4, <2>1, <3>1, <4>1
    <3>2. CASE j # m
      <4>1. j \in 0 .. m - 1 /\ f[j] = g[j] /\ (j # 0 => f[j - 1] = g[j - 1])
        BY <2>1, <3>2
      <4> QED BY <2>3, <4>1
    <3> QED BY <3>1, <3>2
  <2>5. f = [j \in 0 .. m |-> f[j]]
    OBVIOUS
  <2> HIDE DEF f
  <2>6. Up(f, m)
    BY <2>4, <2>5
  <2> HIDE DEF Up
  <2> QED BY <1>2, <2>6
<1> QED BY <1>3, <1>4

\* What there is of a text after each of its places.
LEMMA OwnByPlace ==
  ASSUME NEW text \in Seq(Int)
  PROVE  \E f : /\ Own(text) = f[Len(text)] /\ f[0] = <<>>
                /\ \A k \in 1 .. Len(text) : f[k] = IF text[k] = Stale THEN f[k - 1]
                                                    ELSE Append(f[k - 1], text[k])
                /\ \A k \in 0 .. Len(text) : f[k] \in Seq(Int)
<1> DEFINE f == CHOOSE f : OwnUpTo(f, text)
<1>1. OwnUpTo(f, text)
  BY OwnExists
<1>2. Own(text) = f[Len(text)]
  BY DEF Own, OwnUpTo
<1> HIDE DEF f
<1>3. Len(text) \in Nat /\ \A k \in 1 .. Len(text) : text[k] \in Int
  BY LenProperties, ElementOfSeq
<1>4. /\ f[0] = <<>>
      /\ \A k \in 1 .. Len(text) : f[k] = IF text[k] = Stale THEN f[k - 1]
                                          ELSE Append(f[k - 1], text[k])
  <2>1. \A k \in 0 .. Len(text) : f[k] = IF k = 0 THEN <<>>
                                        ELSE IF text[k] = Stale THEN f[k - 1]
                                        ELSE Append(f[k - 1], text[k])
    BY <1>1 DEF OwnUpTo
  <2>2. 0 \in 0 .. Len(text) /\ \A k \in 1 .. Len(text) : k \in 0 .. Len(text) /\ k # 0
    BY <1>3
  <2> QED BY <2>1, <2>2
<1>5. \A k \in 0 .. Len(text) : f[k] \in Seq(Int)
  <2> DEFINE T == {k \in 0 .. Len(text) : f[k] \notin Seq(Int)}
  <2> SUFFICES ASSUME T # {} PROVE FALSE
    OBVIOUS
  <2>1. PICK k \in T : \A j \in T : k <= j
    <3>1. T \in SUBSET Nat
      BY <1>3
    <3> HIDE DEF T
    <3> QED BY <3>1, Least
  <2>2. k # 0 /\ <<>> \in Seq(Int)
    BY <1>4, <2>1, EmptySeq
  <2>3. k - 1 \in 0 .. Len(text) /\ k - 1 \notin T /\ k \in 1 .. Len(text)
    BY <1>3, <2>1, <2>2
  <2>4. f[k - 1] \in Seq(Int) /\ text[k] \in Int
    BY <1>3, <2>3
  <2>5. Append(f[k - 1], text[k]) \in Seq(Int)
    BY <2>4, AppendProperties
  <2> QED BY <1>4, <2>1, <2>3, <2>4, <2>5
<1> QED BY <1>2, <1>4, <1>5

\* Of a text without such bytes all is left, of one with nothing else nothing.
LEMMA OwnOfOneKind ==
  ASSUME NEW text \in Seq(Int)
  PROVE  /\ Own(text) \in Seq(Int)
         /\ (\A k \in 1 .. Len(text) : text[k] # Stale) => Own(text) = text
         /\ (\A k \in 1 .. Len(text) : text[k] = Stale) => Own(text) = <<>>
<1>1. PICK f : /\ Own(text) = f[Len(text)] /\ f[0] = <<>>
               /\ \A k \in 1 .. Len(text) : f[k] = IF text[k] = Stale THEN f[k - 1]
                                                   ELSE Append(f[k - 1], text[k])
               /\ \A k \in 0 .. Len(text) : f[k] \in Seq(Int)
  BY OwnByPlace
<1>2. Len(text) \in Nat /\ \A k \in 1 .. Len(text) : text[k] \in Int
  BY LenProperties, ElementOfSeq
<1>3. ASSUME \A k \in 1 .. Len(text) : text[k] # Stale PROVE Own(text) = text
  <2> DEFINE T == {k \in 0 .. Len(text) : f[k] # SubSeq(text, 1, k)}
  <2>1. CASE T = {}
    <3>1. f[Len(text)] = SubSeq(text, 1, Len(text))
      BY <1>2, <2>1
    <3> QED BY <1>1, <3>1, SubSeqFull
  <2>2. CASE T # {}
    <3>1. PICK k \in T : \A j \in T : k <= j
      <4>1. T \in SUBSET Nat
        BY <1>2
      <4> HIDE DEF T
      <4> QED BY <2>2, <4>1, Least
    <3>2. k # 0
      BY <1>1, <3>1, SubSeqEmpty
    <3>3. k - 1 \in 0 .. Len(text) /\ k - 1 \notin T /\ k \in 1 .. Len(text) /\ k \in Nat
      BY <1>2, <3>1, <3>2
    <3>4. f[k - 1] = SubSeq(text, 1, k - 1) /\ f[k] = Append(SubSeq(text, 1, k - 1), text[k])
      BY <1>1, <1>3, <3>3
    <3>5. SubSeq(text, 1, k - 1) \in Seq(Int)
      BY <1>1, <3>3, <3>4
    <3>6. SubSeq(text, k, k) = <<text[k]>>
      <4>1. k \in Int /\ \A j \in k .. k : text[j] \in Int
        BY <1>2, <3>3
      <4>2. /\ SubSeq(text, k, k) \in Seq(Int) /\ Len(SubSeq(text, k, k)) = 1
            /\ SubSeq(text, k, k)[1] = text[k]
        <5>1. /\ SubSeq(text, k, k) \in Seq(Int)
              /\ Len(SubSeq(text, k, k)) = IF k <= k THEN k - k + 1 ELSE 0
              /\ \A j \in 1 .. k - k + 1 : SubSeq(text, k, k)[j] = text[k + j - 1]
          BY <4>1, SubSeqProperties
        <5>2. 1 \in 1 .. k - k + 1 /\ k + 1 - 1 = k /\ k - k + 1 = 1 /\ k <= k
          BY <4>1
        <5> QED BY <5>1, <5>2
      <4>3. <<text[k]>> \in Seq(Int) /\ Len(<<text[k]>>) = 1 /\ <<text[k]>>[1] = text[k]
        BY <1>2, <3>3
      <4>4. \A j \in 1 .. 1 : SubSeq(text, k, k)[j] = <<text[k]>>[j]
        BY <4>2, <4>3
      <4> QED BY <4>2, <4>3, <4>4, SeqEqual
    <3>7. SubSeq(text, 1, k - 1) \o SubSeq(text, k - 1 + 1, k) = SubSeq(text, 1, k)
      <4>1. 1 \in 1 .. Len(text) + 1 /\ k - 1 \in 1 - 1 .. Len(text) /\ k \in k - 1 .. Len(text)
        BY <1>2, <3>3
      <4> QED BY <4>1, ConcatAdjacentSubSeq
    <3>8. Append(SubSeq(text, 1, k - 1), text[k]) = SubSeq(text, 1, k - 1) \o <<text[k]>>
      BY <1>2, <3>3, <3>5, AppendIsConcat
    <3>9. k - 1 + 1 = k
      BY <3>3
    <3>10. f[k] = SubSeq(text, 1, k)
      BY <3>4, <3>6, <3>7, <3>8, <3>9
    <3> QED BY <3>1, <3>10
  <2> QED BY <2>1, <2>2
<1>4. ASSUME \A k \in 1 .. Len(text) : text[k] = Stale PROVE Own(text) = <<>>
  <2> DEFINE T == {k \in 0 .. Len(text) : f[k] # <<>>}
  <2>1. CASE T = {}
    BY <1>1, <1>2, <2>1
  <2>2. CASE T # {}
    <3>1. PICK k \in T : \A j \in T : k <= j
      <4>1. T \in SUBSET Nat
        BY <1>2
      <4> HIDE DEF T
      <4> QED BY <2>2, <4>1, Least
    <3>2. k # 0
      BY <1>1, <3>1
    <3>3. k - 1 \in 0 .. Len(text) /\ k - 1 \notin T /\ k \in 1 .. Len(text)
      BY <1>2, <3>1, <3>2
    <3> QED BY <1>1, <1>4, <3>1, <3>3
  <2> QED BY <2>1, <2>2
<1> QED BY <1>1, <1>2, <1>3, <1>4

LEMMA AppendToConcat ==
  ASSUME NEW s \in Seq(Int), NEW t \in Seq(Int), NEW b \in Int
  PROVE  Append(s \o t, b) = s \o Append(t, b)
<1>1. s \o t \in Seq(Int) /\ <<b>> \in Seq(Int)
  BY ConcatProperties
<1>2. Append(s \o t, b) = (s \o t) \o <<b>> /\ Append(t, b) = t \o <<b>>
  BY <1>1, AppendIsConcat
<1>3. (s \o t) \o <<b>> = s \o (t \o <<b>>)
  BY <1>1, ConcatAssociative, SMTT(30)
<1> QED BY <1>2, <1>3

LEMMA OwnOfConcat ==
  ASSUME NEW s \in Seq(Int), NEW t \in Seq(Int)
  PROVE  Own(s \o t) = Own(s) \o Own(t)
<1> DEFINE st == s \o t
           m  == Len(s)
           n  == Len(t)
<1>1. /\ st \in Seq(Int) /\ Len(st) = m + n /\ m \in Nat /\ n \in Nat
      /\ \A k \in 1 .. m + n : st[k] = IF k <= m THEN s[k] ELSE t[k - m]
      /\ \A k \in 1 .. n : t[k] \in Int
  BY ConcatProperties, LenProperties, ElementOfSeq
<1>0. m \in Nat /\ n \in Nat
  BY LenProperties
<1>2. PICK f : /\ Own(st) = f[Len(st)] /\ f[0] = <<>>
               /\ \A k \in 1 .. Len(st) : f[k] = IF st[k] = Stale THEN f[k - 1]
                                                 ELSE Append(f[k - 1], st[k])
               /\ \A k \in 0 .. Len(st) : f[k] \in Seq(Int)
  BY <1>1, OwnByPlace
<1>3. PICK g : /\ Own(s) = g[Len(s)] /\ g[0] = <<>>
               /\ \A k \in 1 .. Len(s) : g[k] = IF s[k] = Stale THEN g[k - 1]
                                                ELSE Append(g[k - 1], s[k])
               /\ \A k \in 0 .. Len(s) : g[k] \in Seq(Int)
  BY OwnByPlace
<1>4. PICK h : /\ Own(t) = h[Len(t)] /\ h[0] = <<>>
               /\ \A k \in 1 .. Len(t) : h[k] = IF t[k] = Stale THEN h[k - 1]
                                                ELSE Append(h[k - 1], t[k])
               /\ \A k \in 0 .. Len(t) : h[k] \in Seq(Int)
  BY OwnByPlace
<1> HIDE DEF st, m, n
<1>5. \A k \in 0 .. m : f[k] = g[k]
  <2> DEFINE T == {k \in 0 .. m : f[k] # g[k]}
  <2> SUFFICES ASSUME T # {} PROVE FALSE
    OBVIOUS
  <2>1. PICK k \in T : \A j \in T : k <= j
    <3>1. T \in SUBSET Nat
      BY <1>1
    <3> HIDE DEF T
    <3> QED BY <3>1, Least
  <2>2. k # 0
    BY <1>2, <1>3, <2>1
  <2>3. k - 1 \in 0 .. m /\ k - 1 \notin T /\ k \in 1 .. m /\ k \in 1 .. m + n
    <3>1. k - 1 \in 0 .. m /\ k \in 1 .. m /\ k \in 1 .. m + n /\ k - 1 \in Nat /\ ~ (k <= k - 1)
      BY <1>0, <2>2
    <3>2. k - 1 \notin T
      BY <2>1, <3>1
    <3> QED BY <3>1, <3>2
  <2>4. st[k] = s[k] /\ f[k - 1] = g[k - 1]
    BY <1>1, <2>3
  <2> QED BY <1>1, <1>2, <1>3, <2>1, <2>3, <2>4 DEF m
<1> DEFINE Fits(k) == f[m + k] = g[m] \o h[k]
<1>6. \A k \in 0 .. n : Fits(k)
  <2> DEFINE T == {k \in 0 .. n : ~ Fits(k)}
  <2>0. g[m] \in Seq(Int) /\ f[m] = g[m] /\ m + 0 = m
    BY <1>1, <1>3, <1>5 DEF m
  <2> SUFFICES ASSUME T # {} PROVE FALSE
    <3>1. T = {} => \A k \in 0 .. n : Fits(k)
      <4> HIDE DEF Fits
      <4> QED OBVIOUS
    <3> HIDE DEF T
    <3> QED BY <3>1
  <2>1. PICK k \in T : \A j \in T : k <= j
    <3> HIDE DEF Fits
    <3>1. T \in SUBSET Nat
      BY <1>1
    <3> HIDE DEF T
    <3> QED BY <3>1, Least
  <2>2. k # 0
    <3>1. g[m] \o <<>> = g[m]
      BY <2>0, ConcatEmptySeq
    <3>2. f[m + 0] = g[m] \o h[0]
      BY <1>4, <2>0, <3>1
    <3>3. Fits(0)
      BY <3>2
    <3> HIDE DEF Fits
    <3> QED BY <2>1, <3>3
  <2>3. /\ k - 1 \in 0 .. n /\ Fits(k - 1) /\ k \in 1 .. n
        /\ m + k \in 1 .. m + n /\ ~(m + k <= m) /\ m + k - m = k /\ m + k - 1 = m + (k - 1)
    <3> HIDE DEF Fits
    <3>1. k \in 0 .. n /\ k - 1 \in 0 .. n /\ k - 1 \notin T /\ k \in 1 .. n
      BY <1>1, <2>1, <2>2
    <3> QED BY <1>1, <3>1
  <2>4. f[m + (k - 1)] = g[m] \o h[k - 1]
    BY <2>3
  <2>5. /\ st[m + k] = t[k] /\ t[k] \in Int /\ h[k - 1] \in Seq(Int)
    <3>1. st[m + k] = t[k] /\ t[k] \in Int
      BY <1>1, <2>3
    <3>2. h[k - 1] \in Seq(Int)
      BY <1>4, <2>3 DEF n
    <3> QED BY <3>1, <3>2
  <2>6. f[m + k] = IF t[k] = Stale THEN f[m + (k - 1)] ELSE Append(f[m + (k - 1)], t[k])
    <3>1. m + k \in 1 .. Len(st)
      BY <1>1, <2>3
    <3>2. PICK j \in 1 .. Len(st) : j = m + k
      BY <3>1
    <3>3. f[j] = IF st[j] = Stale THEN f[j - 1] ELSE Append(f[j - 1], st[j])
      BY <1>2
    <3>4. j - 1 = m + (k - 1) /\ st[j] = t[k]
      <4>1. m \in Nat /\ k \in Nat
        BY <1>1, <2>1
      <4>2. j - 1 = m + (k - 1)
        BY <3>2, <4>1
      <4> QED BY <2>5, <3>2, <4>2
    <3>5. f[j] = IF t[k] = Stale THEN f[m + (k - 1)] ELSE Append(f[m + (k - 1)], t[k])
      BY <3>3, <3>4
    <3> QED BY <3>2, <3>5
  <2>7. h[k] = IF t[k] = Stale THEN h[k - 1] ELSE Append(h[k - 1], t[k])
    BY <1>4, <2>3 DEF n
  <2>8. Append(g[m] \o h[k - 1], t[k]) = g[m] \o Append(h[k - 1], t[k])
    BY <2>0, <2>5, AppendToConcat
  <2>9. f[m + k] = g[m] \o h[k]
    BY <2>4, <2>6, <2>7, <2>8
  <2>10. Fits(k)
    BY <2>9
  <2> HIDE DEF Fits
  <2> QED BY <2>1, <2>10
<1>7. f[m + n] = g[m] \o h[n]
  <2>1. n \in 0 .. n
    BY <1>1
  <2>2. Fits(n)
    <3> HIDE DEF Fits
    <3> QED BY <1>6, <2>1
  <2> QED BY <2>2
<1> QED BY <1>1, <1>2, <1>3, <1>4, <1>7 DEF m, n, st

-----------------------------------------------------------------------------
(* The invariant *)

\* What is still to be written of buf.
Rest == SubSeq(buf, written + 1, Len(buf))

CatTypeOK ==
  /\ cat \in {"off", "next", "read", "write", "failed", "done"}
  /\ catFiles \in Seq(Seq(Nat) \cup {NoFile}) /\ catLeft \in Seq(Nat)
  /\ buf \in Seq(Nat) /\ written \in Nat
  /\ expected \in Seq(Int) /\ printed \in Seq(Int)

WrittenOrRest ==
  /\ expected = Own(printed) \o Rest
  /\ cat \notin {"write", "failed"} => Len(buf) <= written
  /\ cat = "write" => written < Len(buf) /\ (~cutShort => written = 0)
  /\ written < 2 * Len(buf) \/ buf = <<>>

CleanUnlessCut == ~cutShort => \A k \in 1 .. Len(printed) : printed[k] # Stale

CatIInv == CatTypeOK /\ WrittenOrRest /\ CleanUnlessCut

-----------------------------------------------------------------------------

LEMMA BufIsBytes ==
  ASSUME CatIInv
  PROVE  /\ Len(buf) \in Nat /\ written \in Nat /\ \A k \in 1 .. Len(buf) : buf[k] \in Nat
         /\ Rest \in Seq(Int) /\ Own(printed) \in Seq(Int)
         /\ (Len(buf) <= written => Rest = <<>> /\ expected = Own(printed))
<1>1. /\ Len(buf) \in Nat /\ written \in Nat /\ \A k \in 1 .. Len(buf) : buf[k] \in Nat
  BY LenProperties, ElementOfSeq DEF CatIInv, CatTypeOK
<1>2. Rest \in Seq(Int)
  <2>1. \A k \in written + 1 .. Len(buf) : buf[k] \in Int
    BY <1>1
  <2> QED BY <1>1, <2>1, SubSeqProperties DEF Rest
<1>3. Own(printed) \in Seq(Int)
  BY OwnOfOneKind DEF CatIInv, CatTypeOK
<1>4. ASSUME Len(buf) <= written PROVE Rest = <<>> /\ expected = Own(printed)
  <2>1. Rest = <<>>
    BY <1>1, <1>4, SubSeqEmpty DEF Rest
  <2>2. Own(printed) \o <<>> = Own(printed)
    BY <1>3, ConcatEmptySeq
  <2> QED BY <2>1, <2>2 DEF CatIInv, WrittenOrRest
<1> QED BY <1>1, <1>2, <1>3, <1>4

LEMMA CatInitIInv ==
  ASSUME CatInit PROVE CatIInv
<1>1. <<>> \in Seq(Int) /\ <<>> \in Seq(Nat) /\ <<>> \in Seq(Seq(Nat) \cup {NoFile}) /\ Len(<<>>) = 0
  BY EmptySeq
<1>2. Own(<<>>) = <<>>
  <2>1. \A k \in 1 .. Len(<<>>) : (<<>>)[k] = Stale
    BY <1>1
  <2> QED BY <1>1, <2>1, OwnOfOneKind
<1>3. SubSeq(<<>>, 1, 0) = <<>>
  BY SubSeqEmpty
<1>4. <<>> \o <<>> = <<>>
  BY <1>1, ConcatEmptySeq
<1>5. WrittenOrRest
  BY <1>1, <1>2, <1>3, <1>4 DEF CatInit, WrittenOrRest, Rest
<1> QED BY <1>1, <1>5 DEF CatInit, CatIInv, CatTypeOK, CleanUnlessCut

\* The steps that print nothing and leave buf alone.
LEMMA CatOtherIInv ==
  ASSUME CatIInv,
         \/ \E arguments \in CatInputs : CatStart(arguments)
         \/ CatOpen \/ CatFails \/ CatDone \/ UNCHANGED catVars
  PROVE  CatIInv'
<1>1. UNCHANGED <<buf, written, cutShort, expected, printed>>
  BY DEF CatStart, CatOpen, CatFails, CatDone, catVars
<1>2. /\ cat' \in {cat, "next", "read", "failed", "done"}
      /\ cat' = "write" => cat = "write"
      /\ cat' \notin {"write", "failed"} => cat \notin {"write", "failed"} \/ cat' = cat
  BY DEF CatStart, CatOpen, CatFails, CatDone, catVars
<1>3. catFiles' \in Seq(Seq(Nat) \cup {NoFile}) /\ catLeft' \in Seq(Nat)
  <2>1. ASSUME NEW arguments \in CatInputs, CatStart(arguments)
        PROVE  catFiles' \in Seq(Seq(Nat) \cup {NoFile}) /\ catLeft' \in Seq(Nat)
    <3>1. arguments \in Seq(Seq(Nat) \cup {NoFile})
      BY OneCatAssumption
    <3>2. ASSUME Len(arguments) = 1 PROVE arguments[1] \in Seq(Nat) \cup {NoFile}
      <4>1. 1 \in 1 .. Len(arguments)
        BY <3>2
      <4> QED BY <3>1, <4>1, ElementOfSeq
    <3> QED BY <2>1, <3>1, <3>2 DEF CatStart, CatIInv, CatTypeOK
  <2>2. CASE CatOpen
    <3>1. catFiles # <<>> /\ catFiles \in Seq(Seq(Nat) \cup {NoFile})
      BY <2>2 DEF CatOpen, CatIInv, CatTypeOK
    <3>2. Head(catFiles) \in Seq(Nat) \cup {NoFile} /\ Tail(catFiles) \in Seq(Seq(Nat) \cup {NoFile})
      BY <3>1, HeadTailProperties
    <3> QED BY <2>2, <3>2 DEF CatOpen, CatIInv, CatTypeOK
  <2>3. CASE CatFails \/ CatDone \/ UNCHANGED catVars
    BY <2>3 DEF CatFails, CatDone, catVars, CatIInv, CatTypeOK
  <2> QED BY <2>1, <2>2, <2>3
<1>4. CatTypeOK'
  BY <1>1, <1>2, <1>3 DEF CatIInv, CatTypeOK
<1>5. WrittenOrRest'
  <2>1. Rest' = Rest /\ Own(printed)' = Own(printed)
    BY <1>1 DEF Rest
  <2> QED BY <1>1, <1>2, <2>1 DEF CatIInv, WrittenOrRest
<1> QED BY <1>1, <1>4, <1>5 DEF CatIInv, CleanUnlessCut

LEMMA CatReadIInv ==
  ASSUME CatIInv, CatRead PROVE CatIInv'
<1>1. PICK n \in 1 .. CatChunk : /\ n <= Len(catLeft) /\ buf' = SubSeq(catLeft, 1, n)
                                 /\ catLeft' = SubSeq(catLeft, n + 1, Len(catLeft))
  BY DEF CatRead
<1>2. /\ expected' = expected \o buf' /\ written' = 0 /\ cat = "read" /\ cat' = "write"
      /\ UNCHANGED <<catFiles, cutShort, printed>>
  BY DEF CatRead
<1>3. /\ n \in Nat /\ 1 <= n /\ Len(catLeft) \in Nat
      /\ \A k \in 1 .. Len(catLeft) : catLeft[k] \in Nat
  BY OneCatAssumption, LenProperties, ElementOfSeq DEF CatIInv, CatTypeOK
<1>4. buf' \in Seq(Nat) /\ Len(buf') = n
  <2>1. \A k \in 1 .. n : catLeft[k] \in Nat
    BY <1>1, <1>3
  <2>2. 1 \in Int /\ n \in Int /\ 1 <= n /\ n - 1 + 1 = n
    BY <1>3
  <2>3. /\ SubSeq(catLeft, 1, n) \in Seq(Nat)
        /\ Len(SubSeq(catLeft, 1, n)) = IF 1 <= n THEN n - 1 + 1 ELSE 0
    BY <2>1, <2>2, SubSeqProperties
  <2> QED BY <1>1, <2>2, <2>3
<1>5. catLeft' \in Seq(Nat)
  <2>1. \A k \in n + 1 .. Len(catLeft) : catLeft[k] \in Nat
    BY <1>3
  <2> QED BY <1>1, <1>3, <2>1, SubSeqProperties
<1>6. expected = Own(printed)
  BY <1>2, BufIsBytes DEF CatIInv, WrittenOrRest
<1>7. buf' \in Seq(Int) /\ expected' \in Seq(Int)
  <2>1. buf' \in Seq(Int) /\ expected \in Seq(Int)
    BY <1>4, SeqMonotonic DEF CatIInv, CatTypeOK
  <2> QED BY <1>2, <2>1, ConcatProperties
<1>8. Rest' = buf'
  <2>1. SubSeq(buf', 1, Len(buf')) = buf'
    BY <1>4, SubSeqFull
  <2>2. 0 + 1 = 1
    OBVIOUS
  <2> QED BY <1>2, <2>1, <2>2 DEF Rest
<1>9. expected' = Own(printed') \o Rest'
  BY <1>2, <1>6, <1>8
<1>10. WrittenOrRest'
  BY <1>2, <1>3, <1>4, <1>9 DEF WrittenOrRest
<1> QED BY <1>2, <1>4, <1>5, <1>7, <1>10 DEF CatIInv, CatTypeOK, CleanUnlessCut

\* The bytes that one write prints: of them, those up to the end of buf were read.
LEMMA InBufHolds ==
  ASSUME CatIInv, written < Len(buf), NEW m \in 1 .. Len(buf)
  PROVE  /\ InBuf(written, m) \in Seq(Int)
         /\ Rest = Own(InBuf(written, m)) \o SubSeq(buf, written + m + 1, Len(buf))
         /\ written = 0 => \A k \in 1 .. Len(InBuf(written, m)) : InBuf(written, m)[k] # Stale
<1> DEFINE text == InBuf(written, m)
           size == Len(buf)
<1>1. /\ size \in Nat /\ written \in Nat /\ m \in Nat /\ 1 <= m /\ m <= size /\ written < size
      /\ \A k \in 1 .. size : buf[k] \in Nat
  BY BufIsBytes
<1>2. /\ text \in Seq(Int) /\ Len(text) = m
      /\ \A k \in 1 .. m : text[k] = IF written + k <= size THEN buf[written + k] ELSE Stale
  <2>1. \A k \in 1 .. m : (IF written + k <= size THEN buf[written + k] ELSE Stale) \in Int
    <3>1. \A k \in 1 .. m : written + k <= size => written + k \in 1 .. size
      BY <1>1
    <3>2. Stale \in Int /\ \A k \in 1 .. size : buf[k] \in Int
      BY <1>1 DEF Stale
    <3> HIDE DEF size
    <3> QED BY <3>1, <3>2
  <2>2. text = [k \in 1 .. m |-> IF written + k <= size THEN buf[written + k] ELSE Stale]
    BY DEF InBuf
  <2> HIDE DEF text, size
  <2>3. text \in [1 .. m -> Int]
    BY <2>1, <2>2
  <2>4. text \in Seq(Int) /\ Len(text) = m
    BY <1>1, <2>3, SeqDef, LenProperties
  <2> QED BY <2>2, <2>4
<1>3. \A k \in 1 .. size : buf[k] # Stale /\ buf[k] \in Int
  BY <1>1 DEF Stale
<1> HIDE DEF text, size
<1>4. ASSUME NEW last \in Nat, last <= size, written <= last
      PROVE  /\ SubSeq(buf, written + 1, last) \in Seq(Int)
             /\ Len(SubSeq(buf, written + 1, last)) = last - written
             /\ \A k \in 1 .. last - written : SubSeq(buf, written + 1, last)[k] = buf[written + k]
             /\ \A k \in 1 .. last - written : written + k \in 1 .. size
  <2>1. \A k \in written + 1 .. last : buf[k] \in Int
    BY <1>1, <1>3, <1>4
  <2>2. /\ SubSeq(buf, written + 1, last) \in Seq(Int)
        /\ Len(SubSeq(buf, written + 1, last)) = IF written + 1 <= last THEN last - (written + 1) + 1 ELSE 0
        /\ \A k \in 1 .. last - (written + 1) + 1 :
              SubSeq(buf, written + 1, last)[k] = buf[(written + 1) + k - 1]
    BY <1>1, <1>4, <2>1, SubSeqProperties
  <2>3. \A k \in 1 .. last - written : /\ k \in 1 .. last - (written + 1) + 1
                                       /\ (written + 1) + k - 1 = written + k
                                       /\ written + k \in 1 .. size
    BY <1>1, <1>4
  <2>4. Len(SubSeq(buf, written + 1, last)) = last - written
    BY <1>1, <1>4, <2>2
  <2> QED BY <2>2, <2>3, <2>4
<1>5. Rest \in Seq(Int) /\ Rest = SubSeq(buf, written + 1, size)
  BY BufIsBytes DEF Rest, size
<1>6. CASE written + m <= size
  <2>1. text = SubSeq(buf, written + 1, written + m)
    <3>1. /\ SubSeq(buf, written + 1, written + m) \in Seq(Int)
          /\ Len(SubSeq(buf, written + 1, written + m)) = m
          /\ \A k \in 1 .. m : SubSeq(buf, written + 1, written + m)[k] = buf[written + k]
      <4>1. PICK last \in Nat : last = written + m
        BY <1>1
      <4>2. last <= size /\ written <= last /\ last - written = m
        BY <1>1, <1>6, <4>1
      <4>3. /\ SubSeq(buf, written + 1, last) \in Seq(Int)
            /\ Len(SubSeq(buf, written + 1, last)) = m
            /\ \A k \in 1 .. m : SubSeq(buf, written + 1, last)[k] = buf[written + k]
        BY <1>4, <4>2
      <4> QED BY <4>1, <4>3
    <3>2. \A k \in 1 .. m : text[k] = SubSeq(buf, written + 1, written + m)[k]
      <4>1. \A k \in 1 .. m : written + k <= size
        BY <1>1, <1>6
      <4> QED BY <1>2, <3>1, <4>1
    <3> QED BY <1>2, <3>1, <3>2, SeqEqual
  <2>2. \A k \in 1 .. Len(text) : text[k] # Stale
    <3>1. \A k \in 1 .. m : written + k <= size /\ written + k \in 1 .. size
      BY <1>1, <1>6
    <3> QED BY <1>2, <1>3, <3>1
  <2>3. Own(text) = text
    BY <1>2, <2>2, OwnOfOneKind
  <2>4. SubSeq(buf, written + 1, written + m) \o SubSeq(buf, written + m + 1, size)
          = SubSeq(buf, written + 1, size)
    <3>1. /\ written + 1 \in 1 .. Len(buf) + 1 /\ written + m \in (written + 1) - 1 .. Len(buf)
          /\ Len(buf) \in written + m .. Len(buf)
      BY <1>1, <1>6 DEF size
    <3>2. buf \in Seq(Nat)
      BY DEF CatIInv, CatTypeOK
    <3> QED BY <3>1, <3>2, ConcatAdjacentSubSeq DEF size
  <2> QED BY <1>2, <1>5, <2>1, <2>2, <2>3, <2>4 DEF text, size
<1>7. CASE size < written + m
  <2> DEFINE good  == SubSeq(text, 1, size - written)
             stale == SubSeq(text, size - written + 1, m)
  <2>1. good \o stale = text
    <3>1. /\ 1 \in 1 .. Len(text) + 1 /\ size - written \in 1 - 1 .. Len(text)
          /\ m \in size - written .. Len(text)
      BY <1>1, <1>2, <1>7
    <3>2. SubSeq(text, 1, m) = text
      BY <1>2, SubSeqFull
    <3> QED BY <1>2, <3>1, <3>2, ConcatAdjacentSubSeq
  <2>2. good \in Seq(Int) /\ Len(good) = size - written /\ \A k \in 1 .. size - written : good[k] = buf[written + k]
    <3>1. \A k \in 1 .. size - written : k \in 1 .. m /\ written + k <= size
      BY <1>1, <1>7
    <3>2. \A k \in 1 .. m : text[k] \in Int
      BY <1>2, ElementOfSeq
    <3>3. \A k \in 1 .. size - written : text[k] \in Int
      BY <3>1, <3>2
    <3>4. size - written \in Int
      BY <1>1
    <3>5. /\ good \in Seq(Int)
          /\ Len(good) = (IF 1 <= size - written THEN size - written - 1 + 1 ELSE 0)
          /\ \A k \in 1 .. size - written - 1 + 1 : good[k] = text[1 + k - 1]
      BY <3>3, <3>4, SubSeqProperties
    <3> HIDE DEF good
    <3>6. Len(good) = size - written
      BY <1>1, <3>5
    <3>7. \A k \in 1 .. size - written : k \in 1 .. size - written - 1 + 1 /\ 1 + k - 1 = k
      BY <1>1
    <3> QED BY <1>2, <3>1, <3>5, <3>6, <3>7
  <2>3. stale \in Seq(Int) /\ \A k \in 1 .. Len(stale) : stale[k] = Stale
    <3>1. \A k \in size - written + 1 .. m : k \in 1 .. m /\ ~(written + k <= size)
      BY <1>1, <1>7
    <3>2. \A k \in size - written + 1 .. m : text[k] = Stale /\ text[k] \in Int
      BY <1>2, <3>1 DEF Stale
    <3>3. size - written + 1 \in Int /\ m \in Int
      BY <1>1
    <3>4. /\ stale \in Seq(Int)
          /\ Len(stale) = (IF size - written + 1 <= m THEN m - (size - written + 1) + 1 ELSE 0)
          /\ \A k \in 1 .. m - (size - written + 1) + 1 :
                stale[k] = text[(size - written + 1) + k - 1]
      BY <3>2, <3>3, SubSeqProperties
    <3> HIDE DEF stale
    <3>5. \A k \in 1 .. Len(stale) : /\ k \in 1 .. m - (size - written + 1) + 1
                                     /\ (size - written + 1) + k - 1 \in size - written + 1 .. m
      BY <1>1, <3>4
    <3> QED BY <3>2, <3>4, <3>5
  <2> HIDE DEF good, stale
  <2>4. Own(good) = good /\ Own(stale) = <<>>
    <3>1. \A k \in 1 .. Len(good) : good[k] # Stale
      <4>1. \A k \in 1 .. size - written : written + k \in 1 .. size
        BY <1>1
      <4> QED BY <1>3, <2>2, <4>1
    <3> QED BY <2>2, <2>3, <3>1, OwnOfOneKind
  <2>5. Own(text) = good
    <3>1. Own(good \o stale) = Own(good) \o Own(stale)
      BY <2>2, <2>3, OwnOfConcat
    <3>2. good \o <<>> = good
      BY <2>2, ConcatEmptySeq
    <3> QED BY <2>1, <2>4, <3>1, <3>2
  <2>6. good = Rest
    <3>1. /\ Len(SubSeq(buf, written + 1, size)) = size - written
          /\ \A k \in 1 .. size - written : SubSeq(buf, written + 1, size)[k] = buf[written + k]
      <4>1. size \in Nat /\ size <= size /\ written <= size
        BY <1>1
      <4> QED BY <1>4, <4>1
    <3>2. \A k \in 1 .. size - written : good[k] = Rest[k]
      BY <1>5, <2>2, <3>1
    <3> QED BY <1>5, <2>2, <3>1, <3>2, SeqEqual
  <2>7. SubSeq(buf, written + m + 1, size) = <<>>
    <3>1. written + m + 1 \in Int /\ size \in Int /\ size < written + m + 1
      BY <1>1, <1>7
    <3> QED BY <3>1, SubSeqEmpty
  <2>8. good \o <<>> = good
    BY <2>2, ConcatEmptySeq
  <2>9. written # 0
    BY <1>1, <1>7
  <2>10. Rest = Own(text) \o SubSeq(buf, written + m + 1, size)
    BY <2>5, <2>6, <2>7, <2>8
  <2> QED BY <1>2, <2>9, <2>10 DEF text, size
<1>8. written + m <= size \/ size < written + m
  BY <1>1
<1> QED BY <1>6, <1>7, <1>8

LEMMA CatWriteIInv ==
  ASSUME CatIInv, CatWrite PROVE CatIInv'
<1>1. PICK m \in 1 .. Len(buf) : /\ printed' = printed \o InBuf(written, m)
                                 /\ written' = written + m
                                 /\ cutShort' = (cutShort \/ m < Len(buf))
  BY DEF CatWrite
<1>2. /\ cat = "write" /\ cat' = IF written' < Len(buf) THEN "write" ELSE "read"
      /\ UNCHANGED <<catFiles, catLeft, buf, expected>>
  BY DEF CatWrite
<1>3. /\ Len(buf) \in Nat /\ written \in Nat /\ m \in Nat /\ 1 <= m /\ m <= Len(buf)
      /\ written < Len(buf) /\ (~cutShort => written = 0)
      /\ Own(printed) \in Seq(Int) /\ printed \in Seq(Int) /\ expected = Own(printed) \o Rest
  BY <1>2, BufIsBytes DEF CatIInv, CatTypeOK, WrittenOrRest
<1> DEFINE text == InBuf(written, m)
<1>4. /\ text \in Seq(Int) /\ Rest = Own(text) \o SubSeq(buf, written + m + 1, Len(buf))
      /\ written = 0 => \A k \in 1 .. Len(text) : text[k] # Stale
  BY <1>3, InBufHolds
<1> HIDE DEF text
<1>5. Rest' = SubSeq(buf, written + m + 1, Len(buf)) /\ Rest' \in Seq(Int)
  <2>1. Rest' = SubSeq(buf, written + m + 1, Len(buf))
    BY <1>1, <1>2 DEF Rest
  <2>2. \A k \in written + m + 1 .. Len(buf) : buf[k] \in Int
    BY <1>3, BufIsBytes
  <2>3. written + m + 1 \in Int
    BY <1>3
  <2> QED BY <1>3, <2>1, <2>2, <2>3, SubSeqProperties
<1>6. printed' = printed \o text /\ printed' \in Seq(Int) /\ Own(printed') = Own(printed) \o Own(text)
  <2>1. printed' = printed \o text
    BY <1>1 DEF text
  <2> QED BY <1>3, <1>4, <2>1, ConcatProperties, OwnOfConcat
<1>7. expected' = Own(printed') \o Rest'
  <2>1. Own(text) \in Seq(Int)
    BY <1>4, OwnOfOneKind
  <2>2. (Own(printed) \o Own(text)) \o Rest' = Own(printed) \o (Own(text) \o Rest')
    <3>1. Own(printed) \in Seq(Int) /\ Own(text) \in Seq(Int) /\ Rest' \in Seq(Int)
      BY <1>3, <1>5, <2>1
    <3> HIDE DEF Rest
    <3> QED BY <3>1, ConcatAssociative, SMTT(30)
  <2>3. Rest = Own(text) \o Rest'
    BY <1>4, <1>5
  <2>4. expected' = Own(printed) \o Rest
    BY <1>2, <1>3
  <2>5. Own(printed') \o Rest' = (Own(printed) \o Own(text)) \o Rest'
    BY <1>6
  <2> QED BY <2>2, <2>3, <2>4, <2>5, Zenon
<1>8. CleanUnlessCut'
  <2> SUFFICES ASSUME ~cutShort', NEW k \in 1 .. Len(printed') PROVE printed'[k] # Stale
    BY DEF CleanUnlessCut
  <2>1. ~cutShort /\ written = 0
    BY <1>1, <1>3
  <2>2. /\ \A j \in 1 .. Len(printed) : printed[j] # Stale
        /\ \A j \in 1 .. Len(text) : text[j] # Stale
    BY <1>4, <2>1 DEF CatIInv, CleanUnlessCut
  <2>3. /\ Len(printed') = Len(printed) + Len(text)
        /\ printed'[k] = IF k <= Len(printed) THEN printed[k] ELSE text[k - Len(printed)]
    <3>1. /\ Len(printed \o text) = Len(printed) + Len(text)
          /\ \A j \in 1 .. Len(printed) + Len(text) :
                (printed \o text)[j] = IF j <= Len(printed) THEN printed[j] ELSE text[j - Len(printed)]
      BY <1>3, <1>4, ConcatProperties
    <3> QED BY <1>6, <3>1
  <2>4. Len(printed) \in Nat /\ Len(text) \in Nat
    BY <1>3, <1>4, LenProperties
  <2>5. k \in 1 .. Len(printed) \/ (~(k <= Len(printed)) /\ k - Len(printed) \in 1 .. Len(text))
    BY <2>3, <2>4
  <2>6. CASE k \in 1 .. Len(printed)
    <3>1. k <= Len(printed)
      BY <2>4, <2>6
    <3> QED BY <2>2, <2>3, <2>6, <3>1
  <2> QED BY <2>2, <2>3, <2>5, <2>6
<1>9. written' < 2 * Len(buf') \/ buf' = <<>>
  BY <1>1, <1>2, <1>3
<1>10. WrittenOrRest'
  <2>1. cat' = "write" /\ ~cutShort' => written' = 0
    <3>1. ~cutShort' => written = 0 /\ m = Len(buf)
      <4>1. ~cutShort' => ~cutShort /\ ~(m < Len(buf))
        BY <1>1
      <4> QED BY <1>3, <4>1
    <3> QED BY <1>1, <1>2, <1>3, <3>1
  <2>2. cat' # "write" => Len(buf') <= written'
    BY <1>1, <1>2, <1>3
  <2>3. cat' = "write" => written' < Len(buf')
    BY <1>2
  <2> QED BY <1>7, <1>9, <2>1, <2>2, <2>3 DEF WrittenOrRest
<1>11. written' \in Nat
  BY <1>1, <1>3
<1> QED BY <1>2, <1>6, <1>8, <1>10, <1>11 DEF CatIInv, CatTypeOK

LEMMA CatEndOfFileIInv ==
  ASSUME CatIInv, CatEndOfFile PROVE CatIInv'
<1>1. PICK end \in {<<>>, IF fromStdin THEN <<>> ELSE <<Newline>>} :
        expected' = expected \o end /\ printed' = printed \o end
  BY DEF CatEndOfFile
<1>2. /\ cat = "read" /\ cat' = "next"
      /\ UNCHANGED <<catFiles, catLeft, buf, written, cutShort>>
  BY DEF CatEndOfFile
<1>3. end \in Seq(Int) /\ \A k \in 1 .. Len(end) : end[k] # Stale
  <2>1. <<>> \in Seq(Int) /\ Len(<<>>) = 0
    BY EmptySeq
  <2>2. <<Newline>> \in Seq(Int) /\ Len(<<Newline>>) = 1 /\ <<Newline>>[1] # Stale
    BY DEF Newline, Stale
  <2>3. end = <<>> \/ end = <<Newline>>
    OBVIOUS
  <2>4. CASE end = <<>>
    BY <2>1, <2>4
  <2>5. CASE end = <<Newline>>
    BY <2>2, <2>5
  <2> QED BY <2>3, <2>4, <2>5
<1>4. /\ expected = Own(printed) /\ expected \in Seq(Int) /\ printed \in Seq(Int)
      /\ Len(buf) <= written /\ Rest = <<>> /\ Own(printed) \in Seq(Int)
  BY <1>2, BufIsBytes DEF CatIInv, CatTypeOK, WrittenOrRest
<1>5. printed' \in Seq(Int) /\ expected' \in Seq(Int) /\ Own(printed') = expected'
  <2>1. Own(end) = end
    BY <1>3, OwnOfOneKind
  <2>2. Own(printed \o end) = Own(printed) \o Own(end)
    BY <1>3, <1>4, OwnOfConcat
  <2>3. printed \o end \in Seq(Int) /\ expected \o end \in Seq(Int)
    BY <1>3, <1>4, ConcatProperties
  <2> QED BY <1>1, <1>4, <2>1, <2>2, <2>3
<1>6. expected' = Own(printed') \o Rest'
  <2>1. Rest' = <<>>
    BY <1>2, <1>4 DEF Rest
  <2>2. expected' \o <<>> = expected'
    BY <1>5, ConcatEmptySeq
  <2> QED BY <1>5, <2>1, <2>2
<1>7. CleanUnlessCut'
  <2> SUFFICES ASSUME ~cutShort, NEW k \in 1 .. Len(printed') PROVE printed'[k] # Stale
    BY <1>2 DEF CleanUnlessCut
  <2>1. \A j \in 1 .. Len(printed) : printed[j] # Stale
    BY DEF CatIInv, CleanUnlessCut
  <2>2. /\ Len(printed \o end) = Len(printed) + Len(end)
        /\ \A j \in 1 .. Len(printed) + Len(end) :
             (printed \o end)[j] = IF j <= Len(printed) THEN printed[j] ELSE end[j - Len(printed)]
    BY <1>3, <1>4, ConcatProperties
  <2>3. Len(printed) \in Nat /\ Len(end) \in Nat
    BY <1>3, <1>4, LenProperties
  <2>4. printed'[k] = IF k <= Len(printed) THEN printed[k] ELSE end[k - Len(printed)]
    BY <1>1, <2>2
  <2>5. k \in 1 .. Len(printed) + Len(end)
    BY <1>1, <2>2
  <2>6. CASE k <= Len(printed)
    <3>1. k \in 1 .. Len(printed)
      BY <2>3, <2>5, <2>6
    <3> QED BY <2>1, <2>4, <2>6, <3>1
  <2>7. CASE ~(k <= Len(printed))
    <3>1. k - Len(printed) \in 1 .. Len(end)
      BY <2>3, <2>5, <2>7
    <3> QED BY <1>3, <2>4, <2>7, <3>1
  <2> QED BY <2>6, <2>7
<1>8. WrittenOrRest'
  BY <1>2, <1>4, <1>6 DEF CatIInv, WrittenOrRest
<1> QED BY <1>2, <1>5, <1>7, <1>8 DEF CatIInv, CatTypeOK

\* Whatever writes are cut short, all that was read is printed, in its order; the
\* bytes in between are fewer, after each chunk, than it has.
THEOREM ShortWritesAddOnly == CatSpec => []ShortWritesOnlyAdd
<1>1. CatIInv /\ [CatNext]_catVars => CatIInv'
  BY CatOtherIInv, CatReadIInv, CatWriteIInv, CatEndOfFileIInv DEF CatNext
<1>2. ASSUME CatIInv PROVE ShortWritesOnlyAdd
  <2> DEFINE own == Own(printed)
  <2>1. own \in Seq(Int) /\ Rest \in Seq(Int) /\ expected = own \o Rest
    BY <1>2, BufIsBytes DEF CatIInv, WrittenOrRest
  <2>2. IsPrefix(own, expected)
    <3> HIDE DEF own
    <3>1. /\ Len(own) \in Nat /\ Len(Rest) \in Nat
          /\ own \o Rest \in Seq(Int) /\ Len(own \o Rest) = Len(own) + Len(Rest)
      BY <2>1, ConcatProperties, LenProperties
    <3>2. SubSeq(own \o Rest, 1, Len(own)) = SubSeq(own, 1, Len(own))
      <4>1. CASE own = <<>>
        BY <3>1, <4>1, SubSeqEmpty
      <4>2. CASE own # <<>>
        <5>1. 1 \in 1 .. Len(own) /\ Len(own) \in 1 .. Len(own)
          BY <2>1, <3>1, <4>2, EmptySeq
        <5> QED BY <2>1, <5>1, SubSeqOfConcat1
      <4> QED BY <4>1, <4>2
    <3>3. Len(own) <= Len(own \o Rest)
      BY <3>1
    <3>4. IsPrefix(own, own \o Rest)
      BY <3>2, <3>3 DEF IsPrefix
    <3> QED BY <2>1, <3>4
  <2>3. cat \in {"read", "next", "done"} => own = expected
    BY <1>2, BufIsBytes DEF CatIInv, WrittenOrRest
  <2>4. ~cutShort => own = printed
    BY <1>2, OwnOfOneKind DEF CatIInv, CatTypeOK, CleanUnlessCut
  <2>5. written < 2 * Len(buf) \/ buf = <<>>
    BY <1>2 DEF CatIInv, WrittenOrRest
  <2> QED BY <2>2, <2>3, <2>4, <2>5 DEF ShortWritesOnlyAdd
<1> QED BY <1>1, <1>2, CatInitIInv, PTL DEF CatSpec

-----------------------------------------------------------------------------
(* mywc *)

-----------------------------------------------------------------------------
(* The characters counted *)

Known  == [words : Nat, lines : Nat, in_word : BOOLEAN]
Begun(r) == {k \in 1 .. r : output[k] = "letter" /\ (k = 1 \/ output[k - 1] # "letter")}
Ended(r) == {k \in 1 .. r : output[k] = "newline"}

\* What main knows is right about the first r characters.
Describes(n, r) ==
  /\ n \in Known
  /\ n.in_word <=> r > 0 /\ output[r] = "letter"
  /\ n.lines = Cardinality(Ended(r))
  /\ n.words + (IF n.in_word THEN 1 ELSE 0) = Cardinality(Begun(r))

LEMMA OneMore ==
  ASSUME NEW r \in Nat
  PROVE  /\ Cardinality(Begun(r)) \in Nat /\ Cardinality(Ended(r)) \in Nat
         /\ Cardinality(Ended(r + 1)) =
              Cardinality(Ended(r)) + (IF output[r + 1] = "newline" THEN 1 ELSE 0)
         /\ Cardinality(Begun(r + 1)) =
              Cardinality(Begun(r)) +
                (IF output[r + 1] = "letter" /\ (r = 0 \/ output[r] # "letter") THEN 1 ELSE 0)
<1>1. /\ IsFiniteSet(Begun(r)) /\ IsFiniteSet(Ended(r))
      /\ r + 1 \notin Begun(r) /\ r + 1 \notin Ended(r)
  <2>1. IsFiniteSet(1 .. r) /\ Begun(r) \subseteq 1 .. r /\ Ended(r) \subseteq 1 .. r
    BY FS_Interval DEF Begun, Ended
  <2>2. r + 1 \notin 1 .. r
    OBVIOUS
  <2> QED BY <2>1, <2>2, FS_Subset
<1>2. /\ Cardinality(Begun(r)) \in Nat /\ Cardinality(Ended(r)) \in Nat
      /\ Cardinality(Begun(r) \cup {r + 1}) = Cardinality(Begun(r)) + 1
      /\ Cardinality(Ended(r) \cup {r + 1}) = Cardinality(Ended(r)) + 1
  BY <1>1, FS_AddElement, FS_CardinalityType
<1>3. Ended(r + 1) = IF output[r + 1] = "newline" THEN Ended(r) \cup {r + 1} ELSE Ended(r)
  BY DEF Ended
<1>4. Begun(r + 1) = IF output[r + 1] = "letter" /\ (r = 0 \/ output[r] # "letter")
                     THEN Begun(r) \cup {r + 1} ELSE Begun(r)
  BY DEF Begun
<1> QED BY <1>2, <1>3, <1>4

LEMMA CountIsRight ==
  ASSUME NEW r \in Nat, NEW n, Describes(n, r), output[r + 1] \in Character
  PROVE  Describes(Count(n, output[r + 1]), r + 1)
<1> DEFINE c == output[r + 1]
           m == Count(n, c)
<1>1. /\ m \in Known /\ (m.in_word <=> c = "letter")
      /\ m.lines = (IF c = "newline" THEN n.lines + 1 ELSE n.lines)
      /\ m.words = (IF c # "letter" /\ n.in_word THEN n.words + 1 ELSE n.words)
  <2>1. n \in Known /\ c \in Character
    BY DEF Describes
  <2>2. /\ DOMAIN n = {"words", "lines", "in_word"}
        /\ n.words \in Nat /\ n.lines \in Nat /\ n.in_word \in BOOLEAN
        /\ c \in {"newline", "blank", "letter"}
    BY <2>1 DEF Known, Character
  <2>3. /\ m.words = (IF c \in Separator /\ n.in_word THEN n.words + 1 ELSE n.words)
        /\ m.lines = (IF c = "newline" THEN n.lines + 1 ELSE n.lines)
        /\ m.in_word = (c \notin Separator)
    <3> HIDE DEF c
    <3> QED BY DEF Count
  <2>4. m \in Known
    <3>1. ASSUME NEW w \in Nat, NEW l \in Nat, NEW b \in BOOLEAN
          PROVE  [words |-> w, lines |-> l, in_word |-> b] \in Known
      BY DEF Known
    <3>2. /\ (IF c \in Separator /\ n.in_word THEN n.words + 1 ELSE n.words) \in Nat
          /\ (IF c = "newline" THEN n.lines + 1 ELSE n.lines) \in Nat
          /\ (c \notin Separator) \in BOOLEAN
      BY <2>2
    <3> HIDE DEF c
    <3> QED BY <3>1, <3>2 DEF Count
  <2> HIDE DEF c, m
  <2> QED BY <2>2, <2>3, <2>4 DEF Separator
<1>2. n \in Known /\ n.words \in Nat /\ n.lines \in Nat /\ n.in_word \in BOOLEAN
  BY DEF Describes, Known
<1>3. m.lines = Cardinality(Ended(r + 1))
  BY <1>1, OneMore DEF Describes
<1> HIDE DEF m
<1>4. m.words + (IF m.in_word THEN 1 ELSE 0) = Cardinality(Begun(r + 1))
  BY <1>1, <1>2, OneMore DEF Describes
<1> QED BY <1>1, <1>3, <1>4 DEF Describes, m

-----------------------------------------------------------------------------
(* The loop *)

Loop(f, n, piece, m) == f = [k \in 0 .. m |-> IF k = 0 THEN n ELSE Count(f[k - 1], piece[k])]

LEMMA LoopExists == ASSUME NEW n, NEW piece, NEW m \in Nat PROVE \E f : Loop(f, n, piece, m)
<1> DEFINE T == {k \in Nat : ~ \E f : Loop(f, n, piece, k)}
<1> SUFFICES ASSUME T # {} PROVE FALSE
  OBVIOUS
<1>1. PICK k \in T : \A j \in T : k <= j
  BY Least
<1>2. CASE k = 0
  <2> DEFINE f == [j \in 0 .. 0 |-> n]
  <2>1. Loop(f, n, piece, 0)
    BY DEF Loop
  <2> HIDE DEF f
  <2> QED BY <1>1, <1>2, <2>1
<1>3. CASE k # 0
  <2>1. k - 1 \in Nat /\ k - 1 \notin T
    BY <1>1, <1>3
  <2>2. PICK g : Loop(g, n, piece, k - 1)
    BY <2>1
  <2> DEFINE f == [j \in 0 .. k |-> IF j = k THEN Count(g[k - 1], piece[k]) ELSE g[j]]
  <2>3. Loop(f, n, piece, k)
    <3>1. \A j \in 0 .. k - 1 : g[j] = IF j = 0 THEN n ELSE Count(g[j - 1], piece[j])
      BY <2>1, <2>2 DEF Loop
    <3>2. ASSUME NEW j \in 0 .. k PROVE f[j] = IF j = 0 THEN n ELSE Count(f[j - 1], piece[j])
      <4>1. CASE j = k
        <5>1. f[k] = Count(g[k - 1], piece[k]) /\ f[k - 1] = g[k - 1]
          BY <2>1
        <5> QED BY <1>3, <4>1, <5>1
      <4>2. CASE j # k
        <5>1. j \in 0 .. k - 1 /\ f[j] = g[j] /\ (j # 0 => f[j - 1] = g[j - 1])
          BY <1>1, <4>2
        <5> QED BY <3>1, <5>1
      <4> QED BY <4>1, <4>2
    <3>3. f = [j \in 0 .. k |-> f[j]]
      OBVIOUS
    <3> HIDE DEF f
    <3> QED BY <3>2, <3>3 DEF Loop
  <2> HIDE DEF f
  <2> QED BY <1>1, <2>3
<1> QED BY <1>2, <1>3

LEMMA PieceIsCounted ==
  ASSUME NEW r \in Nat, NEW n, Describes(n, r), NEW piece \in Seq(Character),
         \A k \in 1 .. Len(piece) : piece[k] = output[r + k]
  PROVE  Describes(Counted(n, piece), r + Len(piece))
<1> DEFINE size == Len(piece)
<1>1. size \in Nat /\ \A k \in 1 .. size : output[r + k] \in Character /\ piece[k] = output[r + k]
  BY LenProperties, ElementOfSeq
<1>2. PICK f : Loop(f, n, piece, size) /\ Counted(n, piece) = f[size]
  <2> DEFINE f == CHOOSE f : Loop(f, n, piece, size)
  <2>1. Loop(f, n, piece, size)
    BY <1>1, LoopExists
  <2>2. Counted(n, piece) = f[size]
    BY DEF Counted, Loop
  <2> QED BY <2>1, <2>2
<1> HIDE DEF size
<1>3. f[0] = n /\ \A k \in 1 .. size : f[k] = Count(f[k - 1], piece[k])
  BY <1>1, <1>2 DEF Loop
<1> DEFINE T == {k \in 0 .. size : ~ Describes(f[k], r + k)}
<1> SUFFICES ASSUME T # {} PROVE FALSE
  BY <1>1, <1>2 DEF size
<1>4. PICK k \in T : \A j \in T : k <= j
  <2>1. T \in SUBSET Nat
    BY <1>1
  <2> HIDE DEF T
  <2> QED BY <2>1, Least
<1>5. k # 0
  BY <1>3, <1>4
<1>6. k - 1 \in 0 .. size /\ k - 1 \notin T /\ k \in 1 .. size /\ r + (k - 1) \in Nat
  BY <1>1, <1>4, <1>5
<1>7. Describes(f[k - 1], r + (k - 1))
  BY <1>6
<1>8. r + (k - 1) + 1 = r + k /\ output[r + k] \in Character
  BY <1>1, <1>6
<1>9. Describes(Count(f[k - 1], output[r + k]), r + k)
  BY <1>6, <1>7, <1>8, CountIsRight
<1> QED BY <1>1, <1>3, <1>4, <1>6, <1>9

-----------------------------------------------------------------------------
(* The invariant *)

Seen == Len(output) - Len(wcPipe)
Told == counter \in {"wait", "done"}

WcTypeOK ==
  /\ counter \in {"off", "fork", "close", "count", "wait", "done"}
  /\ output \in Seq(Character) /\ wcPipe \in Seq(Character)

\* The pipe holds the end of what the command wrote.
PipeIsTheRest ==
  /\ Len(wcPipe) <= Len(output)
  /\ \A k \in 1 .. Len(wcPipe) : wcPipe[k] = output[Seen + k]

CountedSoFar ==
  /\ bits = 8 * Seen
  /\ ~Told => Describes([words |-> words, lines |-> lines, in_word |-> in_word], Seen)
  /\ Told  => lines = Cardinality(Ended(Seen)) /\ words = Cardinality(Begun(Seen))

\* Nothing is written any more when the count is told.
NobodyWrites ==
  /\ command = "run" => "command" \in wcWriteEnd
  /\ counter \in {"off", "fork"} => command = "unborn"
  /\ Told => wcPipe = <<>> /\ command # "run"

WcIInv == WcTypeOK /\ PipeIsTheRest /\ CountedSoFar /\ NobodyWrites

LEMMA SeenIsNat == WcIInv => Seen \in Nat /\ Len(output) \in Nat /\ Len(wcPipe) \in Nat
BY LenProperties DEF WcIInv, WcTypeOK, PipeIsTheRest, Seen

LEMMA WcInitIInv ==
  ASSUME WcInit PROVE WcIInv
<1>1. Len(<<>>) = 0 /\ <<>> \in Seq(Character) /\ Seen = 0
  BY EmptySeq DEF WcInit, Seen
<1>2. Cardinality(Begun(0)) = 0 /\ Cardinality(Ended(0)) = 0
  <2>1. Begun(0) = {} /\ Ended(0) = {}
    BY DEF Begun, Ended
  <2> QED BY <2>1, FS_EmptySet
<1>3. Describes([words |-> words, lines |-> lines, in_word |-> in_word], 0)
  <2>1. [words |-> 0, lines |-> 0, in_word |-> FALSE] \in Known
    BY DEF Known
  <2>2. ASSUME NEW n, n = [words |-> 0, lines |-> 0, in_word |-> FALSE]
        PROVE  n.words = 0 /\ n.lines = 0 /\ n.in_word = FALSE
    BY <2>2
  <2>3. ASSUME NEW n, n = [words |-> 0, lines |-> 0, in_word |-> FALSE] PROVE Describes(n, 0)
    BY <1>2, <2>1, <2>2, <2>3 DEF Describes
  <2>4. words = 0 /\ lines = 0 /\ in_word = FALSE
    BY DEF WcInit
  <2> QED BY <2>3, <2>4
<1> QED BY <1>1, <1>3 DEF WcInit, WcIInv, WcTypeOK, PipeIsTheRest, CountedSoFar, NobodyWrites, Told

\* What is written at the end does not change what was counted before it.
LEMMA WrittenIsWritten ==
  ASSUME NEW r \in Nat, r <= Len(output), \A k \in 1 .. Len(output) : output'[k] = output[k],
         output \in Seq(Character)
  PROVE  /\ Begun(r)' = Begun(r) /\ Ended(r)' = Ended(r)
         /\ \A n : Describes(n, r)' <=> Describes(n, r)
<1>1. \A k \in 1 .. r : output'[k] = output[k] /\ (k # 1 => output'[k - 1] = output[k - 1])
  <2>1. Len(output) \in Nat
    BY LenProperties
  <2> QED BY <2>1
<1>2. Begun(r)' = Begun(r) /\ Ended(r)' = Ended(r)
  BY <1>1 DEF Begun, Ended
<1>3. r > 0 => output'[r] = output[r]
  BY <1>1
<1> QED BY <1>2, <1>3 DEF Describes

LEMMA CommandWritesIInv ==
  ASSUME WcIInv, NEW c \in Character, CommandWrites(c) PROVE WcIInv'
<1>1. /\ command = "run" /\ wcPipe' = Append(wcPipe, c) /\ output' = Append(output, c)
      /\ UNCHANGED <<counter, command, wcWriteEnd, bits, words, lines, in_word>>
  BY DEF CommandWrites, counts
<1>2. /\ output \in Seq(Character) /\ wcPipe \in Seq(Character)
      /\ Len(output) \in Nat /\ Len(wcPipe) \in Nat /\ Len(wcPipe) <= Len(output)
      /\ \A k \in 1 .. Len(wcPipe) : wcPipe[k] = output[Seen + k]
      /\ ~Told /\ Seen \in Nat
  BY <1>1, SeenIsNat DEF WcIInv, WcTypeOK, PipeIsTheRest, NobodyWrites
<1>3. /\ output' \in Seq(Character) /\ Len(output') = Len(output) + 1
      /\ \A k \in 1 .. Len(output) : output'[k] = output[k]
      /\ output'[Len(output) + 1] = c
  BY <1>1, <1>2, AppendProperties
<1>4. /\ wcPipe' \in Seq(Character) /\ Len(wcPipe') = Len(wcPipe) + 1
      /\ \A k \in 1 .. Len(wcPipe) : wcPipe'[k] = wcPipe[k]
      /\ wcPipe'[Len(wcPipe) + 1] = c
  BY <1>1, <1>2, AppendProperties
<1>5. Seen' = Seen
  BY <1>2, <1>3, <1>4 DEF Seen
<1>6. PipeIsTheRest'
  <2>1. ASSUME NEW k \in 1 .. Len(wcPipe) + 1 PROVE wcPipe'[k] = output'[Seen + k]
    <3>1. CASE k = Len(wcPipe) + 1
      <4>1. Seen + k = Len(output) + 1
        BY <1>2, <3>1 DEF Seen
      <4> QED BY <1>3, <1>4, <3>1, <4>1
    <3>2. CASE k # Len(wcPipe) + 1
      <4>1. k \in 1 .. Len(wcPipe) /\ Seen + k \in 1 .. Len(output)
        BY <1>2, <3>2 DEF Seen
      <4> QED BY <1>2, <1>3, <1>4, <4>1
    <3> QED BY <3>1, <3>2
  <2>2. Len(wcPipe') <= Len(output')
    BY <1>2, <1>3, <1>4
  <2> QED BY <1>4, <1>5, <2>1, <2>2 DEF PipeIsTheRest
<1>7. CountedSoFar'
  <2>1. Seen <= Len(output)
    BY <1>2 DEF Seen
  <2>2. \A n : Describes(n, Seen)' <=> Describes(n, Seen)
    <3>1. ASSUME NEW r \in Nat, r <= Len(output) PROVE \A n : Describes(n, r)' <=> Describes(n, r)
      BY <1>2, <1>3, <3>1, WrittenIsWritten
    <3> QED BY <1>2, <1>5, <2>1, <3>1 DEF Describes, Begun, Ended
  <2> QED BY <1>1, <1>2, <1>5, <2>2 DEF WcIInv, CountedSoFar, Told
<1> QED BY <1>1, <1>2, <1>3, <1>4, <1>6, <1>7 DEF WcIInv, WcTypeOK, NobodyWrites, Told

LEMMA ReadPieceIInv ==
  ASSUME WcIInv, ReadPiece PROVE WcIInv'
<1> DEFINE now == [words |-> words, lines |-> lines, in_word |-> in_word]
<1>1. PICK n \in 1 .. WcChunk :
        /\ n <= Len(wcPipe) /\ wcPipe' = SubSeq(wcPipe, n + 1, Len(wcPipe))
        /\ words' = Counted(now, SubSeq(wcPipe, 1, n)).words
        /\ lines' = Counted(now, SubSeq(wcPipe, 1, n)).lines
        /\ in_word' = Counted(now, SubSeq(wcPipe, 1, n)).in_word
        /\ bits' = bits + n * 8
  BY DEF ReadPiece
<1>2. counter = "count" /\ UNCHANGED <<counter, command, wcWriteEnd, output>>
  BY DEF ReadPiece
<1> DEFINE piece == SubSeq(wcPipe, 1, n)
           after == Counted(now, piece)
<1>3. /\ output \in Seq(Character) /\ wcPipe \in Seq(Character)
      /\ Len(output) \in Nat /\ Len(wcPipe) \in Nat /\ Seen \in Nat
      /\ Len(wcPipe) <= Len(output)
      /\ \A k \in 1 .. Len(wcPipe) : wcPipe[k] = output[Seen + k] /\ wcPipe[k] \in Character
      /\ bits = 8 * Seen /\ Describes(now, Seen)
  BY <1>2, SeenIsNat, ElementOfSeq DEF WcIInv, WcTypeOK, PipeIsTheRest, CountedSoFar, Told
<1>4. n \in Nat /\ 1 <= n
  BY WordCountAssumption
<1>5. /\ piece \in Seq(Character) /\ Len(piece) = n
      /\ \A k \in 1 .. n : piece[k] = output[Seen + k]
  <2>1. \A k \in 1 .. n : k \in 1 .. Len(wcPipe)
    BY <1>1, <1>3, <1>4
  <2>2. \A k \in 1 .. n : wcPipe[k] \in Character
    BY <1>3, <2>1
  <2>3. /\ piece \in Seq(Character) /\ Len(piece) = (IF 1 <= n THEN n - 1 + 1 ELSE 0)
        /\ \A k \in 1 .. n - 1 + 1 : piece[k] = wcPipe[1 + k - 1]
    <3>1. 1 \in Int /\ n \in Int
      BY <1>4
    <3> QED BY <2>2, <3>1, SubSeqProperties
  <2> HIDE DEF piece
  <2>4. \A k \in 1 .. n : k \in 1 .. n - 1 + 1 /\ 1 + k - 1 = k
    BY <1>4
  <2>5. Len(piece) = n
    BY <1>4, <2>3
  <2>6. ASSUME NEW k \in 1 .. n PROVE piece[k] = output[Seen + k]
    <3>1. piece[k] = wcPipe[k]
      BY <2>3, <2>4
    <3> QED BY <1>3, <2>1, <3>1
  <2> QED BY <2>3, <2>5, <2>6
<1>6. /\ wcPipe' \in Seq(Character) /\ Len(wcPipe') = Len(wcPipe) - n
      /\ \A k \in 1 .. Len(wcPipe') : wcPipe'[k] = wcPipe[n + k] /\ n + k \in 1 .. Len(wcPipe)
  <2>1. \A k \in n + 1 .. Len(wcPipe) : k \in 1 .. Len(wcPipe)
    BY <1>3, <1>4
  <2>2. \A k \in n + 1 .. Len(wcPipe) : wcPipe[k] \in Character
    BY <1>3, <2>1
  <2>3. /\ wcPipe' \in Seq(Character)
        /\ Len(wcPipe') = (IF n + 1 <= Len(wcPipe) THEN Len(wcPipe) - (n + 1) + 1 ELSE 0)
        /\ \A k \in 1 .. Len(wcPipe) - (n + 1) + 1 : wcPipe'[k] = wcPipe[(n + 1) + k - 1]
    <3>1. n + 1 \in Int /\ Len(wcPipe) \in Int
      BY <1>3, <1>4
    <3> QED BY <1>1, <2>2, <3>1, SubSeqProperties
  <2>4. Len(wcPipe') = Len(wcPipe) - n
    BY <1>1, <1>3, <1>4, <2>3
  <2>5. \A k \in 1 .. Len(wcPipe') : /\ k \in 1 .. Len(wcPipe) - (n + 1) + 1
                                     /\ (n + 1) + k - 1 = n + k /\ n + k \in 1 .. Len(wcPipe)
    BY <1>1, <1>3, <1>4, <2>4
  <2> QED BY <2>3, <2>4, <2>5
<1> HIDE DEF piece, now
<1>7. Seen' = Seen + n /\ Seen' \in Nat
  BY <1>2, <1>3, <1>4, <1>6 DEF Seen
<1>8. Describes(after, Seen + n)
  BY <1>3, <1>5, PieceIsCounted
<1>9. CountedSoFar'
  <2>1. after = [words |-> words', lines |-> lines', in_word |-> in_word']
    BY <1>1, <1>8 DEF Describes, Known, piece
  <2>2. Describes([words |-> words, lines |-> lines, in_word |-> in_word], Seen)'
    BY <1>2, <1>7, <1>8, <2>1 DEF Describes, Begun, Ended
  <2>3. bits' = 8 * Seen'
    BY <1>1, <1>3, <1>4, <1>7
  <2> QED BY <1>2, <2>2, <2>3 DEF CountedSoFar, Told
<1>10. PipeIsTheRest'
  <2>1. \A k \in 1 .. Len(wcPipe') : wcPipe'[k] = output[Seen + (n + k)] /\ Seen + (n + k) = Seen' + k
    BY <1>3, <1>4, <1>6, <1>7
  <2>2. Len(wcPipe') <= Len(output')
    BY <1>2, <1>3, <1>4, <1>6
  <2> QED BY <1>2, <2>1, <2>2 DEF PipeIsTheRest
<1> QED BY <1>2, <1>6, <1>9, <1>10 DEF WcIInv, WcTypeOK, NobodyWrites, Told

LEMMA WcNextIInv ==
  ASSUME WcIInv, [WcNext]_wcVars PROVE WcIInv'
<1>1. ASSUME UNCHANGED <<wcPipe, output, counts>>, counter' \in {"off", "fork", "close", "count"},
             Told' <=> Told, NobodyWrites'
      PROVE  WcIInv'
  BY <1>1 DEF WcIInv, WcTypeOK, PipeIsTheRest, CountedSoFar, Seen, Describes, Begun, Ended, counts
<1>2. CASE WcStart \/ WcFork \/ WcForkFails \/ WcClose
  BY <1>1, <1>2 DEF WcStart, WcFork, WcForkFails, WcClose, Told, WcIInv, NobodyWrites
<1>3. CASE CommandEnds \/ WcWait \/ UNCHANGED wcVars
  <2>1. UNCHANGED <<wcPipe, output, counts>> /\ (Told' <=> Told) /\ NobodyWrites' /\ counter' \in {counter, "done"}
    BY <1>3 DEF CommandEnds, WcWait, wcVars, Told, WcIInv, NobodyWrites
  <2> QED BY <2>1 DEF WcIInv, WcTypeOK, PipeIsTheRest, CountedSoFar, Seen, Describes, Begun, Ended, counts
<1>4. CASE EndOfOutput
  <2>1. /\ counter = "count" /\ counter' = "wait" /\ wcPipe = <<>> /\ wcWriteEnd = {}
        /\ words' = (IF in_word THEN words + 1 ELSE words)
        /\ UNCHANGED <<command, wcWriteEnd, wcPipe, output, bits, lines, in_word>>
    BY <1>4 DEF EndOfOutput
  <2>2. Describes([words |-> words, lines |-> lines, in_word |-> in_word], Seen)
    BY <2>1 DEF WcIInv, CountedSoFar, Told
  <2>3. /\ words \in Nat /\ lines = Cardinality(Ended(Seen))
        /\ words + (IF in_word THEN 1 ELSE 0) = Cardinality(Begun(Seen))
    BY <2>2 DEF Describes, Known
  <2>4. words' = Cardinality(Begun(Seen))
    BY <2>1, <2>3
  <2>5. Seen' = Seen /\ Begun(Seen)' = Begun(Seen) /\ Ended(Seen)' = Ended(Seen)
    BY <2>1 DEF Seen, Begun, Ended
  <2> QED BY <2>1, <2>3, <2>4, <2>5 DEF WcIInv, WcTypeOK, PipeIsTheRest, CountedSoFar, NobodyWrites, Told
<1> QED BY <1>2, <1>3, <1>4, CommandWritesIInv, ReadPieceIInv DEF WcNext

\* However the output is cut into pieces, bits, words and lines are those of what
\* was read, and all of it was read when they are told.
THEOREM CountsStayRight == WcSpec => []CountsAreRight
<1>1. ASSUME WcIInv PROVE CountsAreRight
  <2> DEFINE text == SubSeq(output, 1, Seen)
  <2>1. /\ output \in Seq(Character) /\ Len(output) \in Nat /\ Len(wcPipe) \in Nat
        /\ Seen \in Nat /\ Seen <= Len(output)
    BY <1>1, SeenIsNat DEF WcIInv, WcTypeOK, Seen
  <2>2. Len(text) = Seen /\ \A k \in 1 .. Seen : text[k] = output[k]
    <3>1. \A k \in 1 .. Seen : output[k] \in Character
      BY <2>1, ElementOfSeq
    <3>2. /\ Len(text) = (IF 1 <= Seen THEN Seen - 1 + 1 ELSE 0)
          /\ \A k \in 1 .. Seen - 1 + 1 : text[k] = output[1 + k - 1]
      BY <2>1, <3>1, SubSeqProperties
    <3> HIDE DEF text
    <3>3. \A k \in 1 .. Seen : k \in 1 .. Seen - 1 + 1 /\ 1 + k - 1 = k
      BY <2>1
    <3>4. Len(text) = Seen
      BY <2>1, <3>2
    <3> QED BY <3>2, <3>3, <3>4
  <2> HIDE DEF text
  <2>3. LinesIn(text) = Cardinality(Ended(Seen))
    <3>1. {k \in 1 .. Len(text) : text[k] = "newline"} = Ended(Seen)
      BY <2>1, <2>2 DEF Ended
    <3> QED BY <3>1 DEF LinesIn
  <2>4. WordsIn(text) = Cardinality(Begun(Seen))
    <3>1. \A k \in 1 .. Seen : k # 1 => text[k - 1] = output[k - 1]
      BY <2>1, <2>2
    <3>2. {k \in 1 .. Len(text) : text[k] = "letter" /\ (k = 1 \/ text[k - 1] # "letter")} = Begun(Seen)
      BY <2>1, <2>2, <3>1 DEF Begun
    <3> QED BY <3>2 DEF WordsIn
  <2>5. bits = 8 * Len(text) /\ lines = LinesIn(text)
    BY <1>1, <2>2, <2>3 DEF WcIInv, CountedSoFar, Describes
  <2>6. words + (IF in_word /\ ~Told THEN 1 ELSE 0) = WordsIn(text)
    <3>1. CASE Told
      <4>1. words = Cardinality(Begun(Seen)) /\ Cardinality(Begun(Seen)) \in Nat
        BY <1>1, <2>1, <3>1, OneMore DEF WcIInv, CountedSoFar
      <4> QED BY <2>4, <3>1, <4>1
    <3>2. CASE ~Told
      <4>1. Describes([words |-> words, lines |-> lines, in_word |-> in_word], Seen)
        BY <1>1, <3>2 DEF WcIInv, CountedSoFar
      <4>2. words + (IF in_word THEN 1 ELSE 0) = Cardinality(Begun(Seen))
        BY <4>1 DEF Describes
      <4> QED BY <2>4, <3>2, <4>2
    <3> QED BY <3>1, <3>2
  <2>7. counter = "done" => text = output /\ command # "run"
    <3>1. ASSUME counter = "done" PROVE Seen = Len(output) /\ command # "run"
      <4>1. wcPipe = <<>> /\ command # "run"
        BY <1>1, <3>1 DEF WcIInv, NobodyWrites, Told
      <4>2. Len(wcPipe) = 0
        BY <4>1
      <4> QED BY <2>1, <4>1, <4>2 DEF Seen
    <3> QED BY <2>1, <3>1, SubSeqFull DEF text
  <2> QED BY <2>5, <2>6, <2>7 DEF CountsAreRight, Told, Seen, text
<1> QED BY <1>1, WcInitIInv, WcNextIInv, PTL DEF WcSpec

-----------------------------------------------------------------------------
(* cp and cp_mmap *)

Called == before \in Trees /\ order \in Orders

\* A directory at the start, and where a single source goes to.
WasDir(p) == before.link[p] # NoInode /\ before.data[before.link[p]] = Directory
Goal      == IF WasDir(To) THEN <<To[2], From[2]>> ELSE To

Untouched == link = before.link /\ data = before.data

\* What copy1 has checked.
Checked ==
  /\ before.link[From] # NoInode /\ ~WasDir(From) /\ ~WasDir(Goal)
  /\ before.link[From] # before.link[Goal]

\* The destination is open: what has changed is its link and what is behind it.
Opened ==
  /\ inode_in = before.link[From] /\ inode_in # NoInode
  /\ inode_out \in DOMAIN before.data
  /\ inode_out = before.link[Goal] \/ \A p \in Path : p # Goal => before.link[p] # inode_out
  /\ link = [before.link EXCEPT ![Goal] = inode_out]
  /\ DOMAIN data = DOMAIN before.data /\ data[inode_out] \in Seq(Nat)
  /\ \A n \in DOMAIN data : n # inode_out => data[n] = before.data[n]

Copied == Opened /\ inode_in # inode_out /\ data[inode_out] = before.data[inode_in]

\* What cp has copied so far.
Chunks ==
  LET all == data[inode_in]
  IN  /\ offset \in 0 .. Len(all)
      /\ copyAt = "read"  => rc = 0 /\ data[inode_out] = SubSeq(all, 1, offset)
      /\ copyAt = "write" => /\ rc = 0 /\ copyBuf \in Seq(Nat)
                             /\ data[inode_out] \o copyBuf = SubSeq(all, 1, offset)
      /\ copyAt = "close" /\ rc = 0 => data[inode_out] = all

CpAt   == {"check", "ask", "unlink", "open", "read", "write", "close"}
MmapAt == {"openTo", "resize", "map", "unmap"}

OneCopy ==
  /\ Target(From) = Goal
  /\ status \in {0, 1} /\ rc \in {0, -1}
  /\ copyAt # "done" => status = 0 /\ refused = {}
  /\ copyAt \in CpAt => order.tool = "cp" /\ sources = <<From>>
  /\ copyAt \in MmapAt => order.tool = "cp_mmap"
  /\ copyAt \in {"start", "check", "ask", "unlink", "openTo"} => Untouched
  /\ copyAt \in CpAt \ {"check"} => Checked
  /\ copyAt = "open" => data = before.data /\ link \in {before.link, [before.link EXCEPT ![Goal] = NoInode]}
  /\ copyAt \in {"read", "write", "close"} => Opened /\ inode_in # inode_out /\ Chunks
  /\ copyAt = "openTo" => inode_in = before.link[From] /\ inode_in # NoInode
  /\ copyAt \in {"resize", "map"} => Opened /\ (inode_in = inode_out => data[inode_out] = <<>>)
  /\ copyAt = "unmap" => Copied
  /\ copyAt = "done" /\ status = 0 => \/ Copied /\ refused = {} 
                                      \/ Untouched /\ refused = {Goal}
  /\ order.tool = "cp" => Now(From) = Before(From)

(* Several sources *)

Many == Called /\ Len(order.paths) > 2

\* What is being written, and what may be when the destination is opened.
Dirty ==
  IF copyAt \in {"read", "write", "close"} THEN {p \in Path : link[p] = inode_out}
  ELSE IF copyAt = "open" THEN {Dst} ELSE {}

\* The two parts of CopiedOrSaid, while the copies go on.
Whole(p) ==
  \/ Now(p) = Before(p)
  \/ /\ \E t \in Targets : SameFile(t, p)
     /\ \E s \in Sources : Now(p) = Before(s)

Settled(t) ==
  /\ link[t] # NoInode
  /\ \E s \in Sources : SameFile(Target(s), t) /\ (Now(t) = Before(s) \/ Overwritten(s))

Accounted ==
  \A s \in Sources :
    \/ s \in ToSet(sources)
    \/ s[1] = "" /\ (Target(s) \in refused \cup Dirty \/ Settled(Target(s)))

FilesOK ==
  /\ link \in [Path -> 0 .. Len(before.data)]
  /\ DOMAIN data = DOMAIN before.data
  /\ \A n \in DOMAIN data : data[n] \in Seq(Nat) \cup {Directory}

\* Outside of the directory no name changes, and no file that is not written to under
\* another name.
OldNames ==
  \A p \in Path : p[1] = "" => link[p] = before.link[p] /\ (Now(p) = Before(p) \/ Overwritten(p))

\* Two names of one file were so at the start.
OnlyOldLinks ==
  \A p, q \in Path : link[p] = link[q] /\ link[p] # NoInode => SameFile(p, q)

InDirectory ==
  /\ Destination = <<"", "d">> /\ link[Destination] # NoInode
  /\ data[link[Destination]] = Directory

\* What copy1 has checked, and what it has opened.
InHand ==
  /\ Src[1] = "" /\ link[Src] # NoInode /\ data[link[Src]] # Directory
  /\ ~IsDir(Dst) /\ link[Src] # link[Dst]

CopyOpen == inode_in = link[Src] /\ inode_out = link[Dst] /\ inode_out # NoInode /\ Chunks

Copies ==
  /\ rc \in {0, -1} /\ sources \in Seq(Path) /\ ToSet(sources) \subseteq Sources
  /\ FilesOK /\ OldNames /\ OnlyOldLinks
  /\ \A p \in Path \ Dirty : Whole(p)
  /\ copyAt = "start" => link = before.link /\ data = before.data
  /\ copyAt # "start" => InDirectory /\ Accounted
  /\ copyAt \in CpAt => sources # <<>>
  /\ copyAt = "done" => sources = <<>>
  /\ copyAt \in CpAt \ {"check"} => InHand
  /\ copyAt \in {"read", "write", "close"} => CopyOpen

CpIInv ==
  /\ copyAt \in {"off", "start", "done"} \cup CpAt \cup MmapAt
  /\ copyAt = "off"  => order.tool = "none" /\ status = 0 /\ refused = {} /\ rc = 0 /\ sources = <<>>
  /\ copyAt # "off" => /\ before \in Trees /\ order \in Orders
                       /\ Len(order.paths) = 2 => OneCopy
                       /\ Len(order.paths) > 2 /\ status = 0 => Copies
-----------------------------------------------------------------------------
(* What the arguments are *)

LEMMA DirectoryIsNoFile == \A s \in Seq(Nat) : s # Directory
<1> SUFFICES ASSUME NEW s \in Seq(Nat), s = Directory PROVE FALSE
  OBVIOUS
<1>1. Len(Directory) = 1 /\ Directory[1] = -1
  BY DEF Directory
<1>2. s[1] \in Nat
  BY <1>1, ElementOfSeq
<1> QED BY <1>1, <1>2

OneSource == before \in Trees /\ order \in Orders /\ Len(order.paths) = 2

LEMMA TwoPaths ==
  ASSUME OneSource
  PROVE  /\ From \in Path /\ To \in Path /\ Destination = To
         /\ Front(order.paths) = <<From>> /\ Sources = {From}
         /\ order.tool \in {"cp", "cp_mmap"}
<1>1. order.paths \in Seq(Path) /\ Len(order.paths) = 2 /\ order.tool \in {"cp", "cp_mmap"}
  BY CopyFileAssumption DEF OneSource
<1>2. From \in Path /\ To \in Path
  BY <1>1, ElementOfSeq DEF From, To
<1>3. Destination = To
  BY <1>1 DEF Destination, Last, To
<1>4. Front(order.paths) = <<From>>
  <2>1. /\ Front(order.paths) \in Seq(Path) /\ Len(Front(order.paths)) = 1
        /\ Front(order.paths)[1] = order.paths[1]
    <3>1. \A k \in 1 .. 1 : order.paths[k] \in Path
      BY <1>2 DEF From
    <3>2. /\ SubSeq(order.paths, 1, 1) \in Seq(Path) /\ Len(SubSeq(order.paths, 1, 1)) = 1
          /\ SubSeq(order.paths, 1, 1)[1] = order.paths[1]
      BY <3>1, SubSeqProperties
    <3> QED BY <1>1, <3>2 DEF Front
  <2>2. <<From>> \in Seq(Path) /\ Len(<<From>>) = 1 /\ <<From>>[1] = From
    BY <1>2
  <2>3. \A k \in 1 .. 1 : Front(order.paths)[k] = <<From>>[k]
    BY <2>1, <2>2 DEF From
  <2> QED BY <2>1, <2>2, <2>3, SeqEqual
<1>5. Sources = {From}
  <2>1. DOMAIN <<From>> = {1} /\ <<From>>[1] = From
    OBVIOUS
  <2> QED BY <1>4, <2>1 DEF Sources, ToSet
<1> QED BY <1>1, <1>2, <1>3, <1>4, <1>5

LEMMA Tree ==
  ASSUME Called
  PROVE  /\ Len(before.data) \in Nat /\ DOMAIN before.data = 1 .. Len(before.data)
         /\ before.data \in [DOMAIN before.data -> Seq(Nat) \cup {Directory}]
         /\ before.link \in [Path -> 0 .. Len(before.data)]
         /\ \A p \in Path : before.link[p] # NoInode => before.link[p] \in DOMAIN before.data
         /\ \A p \in Path : WasDir(p) => p = <<"", "d">>
<1>1. /\ before.data \in Seq(Seq(Nat) \cup {Directory})
      /\ before.link \in [Path -> 0 .. Len(before.data)]
      /\ \A p \in Path : WasDir(p) => p = <<"", "d">>
  BY CopyFileAssumption DEF Called, WasDir
<1>2. /\ Len(before.data) \in Nat /\ DOMAIN before.data = 1 .. Len(before.data)
      /\ before.data \in [1 .. Len(before.data) -> Seq(Nat) \cup {Directory}]
  BY <1>1, LenProperties
<1>3. \A p \in Path : before.link[p] # NoInode => before.link[p] \in DOMAIN before.data
  <2>1. ASSUME NEW l, NEW n \in Nat, l \in [Path -> 0 .. n], NEW p \in Path, l[p] # 0
        PROVE  l[p] \in 1 .. n
    BY <2>1
  <2> QED BY <1>1, <1>2, <2>1 DEF NoInode
<1> QED BY <1>1, <1>2, <1>3

LEMMA TreeAtStart ==
  ASSUME OneSource
  PROVE  /\ Len(before.data) \in Nat /\ DOMAIN before.data = 1 .. Len(before.data)
         /\ before.data \in [DOMAIN before.data -> Seq(Nat) \cup {Directory}]
         /\ before.link \in [Path -> 0 .. Len(before.data)]
         /\ \A p \in Path : before.link[p] # NoInode => before.link[p] \in DOMAIN before.data
         /\ Goal \in Path /\ (~WasDir(To) => Goal = To)
<1>0. Called
  BY DEF Called, OneSource
<1>1. WasDir(To) => Goal \in Path
  <2> HAVE WasDir(To)
  <2>1. To = <<"", "d">>
    BY <1>0, TwoPaths, Tree
  <2>2. To[2] = "d"
    BY <2>1
  <2>3. From[2] \in Name
    BY TwoPaths DEF Path
  <2>4. <<"d", From[2]>> \in Path
    BY <2>3 DEF Path
  <2> QED BY <2>2, <2>4 DEF Goal
<1>2. ~WasDir(To) => Goal \in Path
  BY TwoPaths DEF Goal
<1> QED BY <1>0, <1>1, <1>2, Tree DEF Goal

\* While a path leads nowhere there is an inode that no path leads to.
LEMMA AnInodeIsUnused ==
  ASSUME Called, link \in [Path -> 0 .. Len(before.data)], DOMAIN data = DOMAIN before.data,
         NEW p \in Path, link[p] = NoInode
  PROVE  Unused \in DOMAIN data /\ \A q \in Path : link[q] # Unused
<1> DEFINE Others == Path \ {p}
           inodes == 1 .. Len(before.data)
<1>1. IsFiniteSet(Path) /\ Cardinality(Path) \in Nat
  <2>1. IsFiniteSet({"", "d"})
    <3>1. IsFiniteSet({""}) /\ {"", "d"} = {""} \cup {"d"}
      BY FS_Singleton
    <3> QED BY <3>1, FS_AddElement
  <2> QED BY <2>1, CopyFileAssumption, FS_Product, FS_CardinalityType DEF Path
<1>2. Cardinality(Path) <= Len(before.data) /\ Len(before.data) \in Nat
  BY CopyFileAssumption, Tree DEF Called
<1>3. IsFiniteSet(Others) /\ Cardinality(Others) = Cardinality(Path) - 1
  BY <1>1, FS_RemoveElement
<1>4. IsFiniteSet(inodes) /\ Cardinality(inodes) = Len(before.data)
  <2>1. ASSUME NEW n \in Nat PROVE IsFiniteSet(1 .. n) /\ Cardinality(1 .. n) = n
    <3>1. IsFiniteSet(1 .. n) /\ Cardinality(1 .. n) = IF 1 > n THEN 0 ELSE n - 1 + 1
      BY 1 \in Int, n \in Int, FS_Interval
    <3> QED BY <3>1
  <2> QED BY <1>2, <2>1
<1>5. DOMAIN data = inodes
  BY Tree
<1>6. \E n \in inodes : \A q \in Path : link[q] # n
  <2> SUFFICES ASSUME \A n \in inodes : \E q \in Path : link[q] = n PROVE FALSE
    OBVIOUS
  <2>1. \A n \in inodes : \E q \in Others : link[q] = n
    BY DEF NoInode
  <2> DEFINE f == [n \in inodes |-> CHOOSE q \in Others : link[q] = n]
  <2>2. f \in [inodes -> Others] /\ \A n \in inodes : link[f[n]] = n
    BY <2>1
  <2> HIDE DEF f
  <2>3. Cardinality(Others) < Cardinality(inodes)
    BY <1>1, <1>2, <1>3, <1>4
  <2>4. \E m, n \in inodes : m # n /\ f[m] = f[n]
    BY <1>3, <1>4, <2>2, <2>3, FS_PigeonHole
  <2> QED BY <2>2, <2>4
<1> QED BY <1>5, <1>6 DEF Unused

-----------------------------------------------------------------------------
(* What a step keeps *)

LEMMA SameCall ==
  ASSUME OneSource, UNCHANGED called
  PROVE  /\ OneSource' /\ From' = From /\ To' = To /\ Goal' = Goal
         /\ (\A p : WasDir(p)' <=> WasDir(p)) /\ (Checked' <=> Checked)
         /\ Before(From)' = Before(From)
BY DEF called, OneSource, From, To, Goal, WasDir, Checked, Before, Content

LEMMA SameFiles ==
  ASSUME OneSource, UNCHANGED <<fs, called>>
  PROVE  /\ OneSource' /\ From' = From /\ To' = To /\ Goal' = Goal
         /\ (Checked' <=> Checked) /\ (Untouched' <=> Untouched)
         /\ Target(From)' = Target(From)
         /\ Now(From)' = Now(From) /\ Before(From)' = Before(From)
         /\ UNCHANGED <<inode_in, inode_out>> => (Opened' <=> Opened) /\ (Copied' <=> Copied)
<1>1. /\ link' = link /\ data' = data /\ before' = before /\ order' = order
  BY DEF fs, called
<1>2. /\ OneSource' /\ From' = From /\ To' = To /\ Goal' = Goal /\ (Checked' <=> Checked)
      /\ Before(From)' = Before(From)
  BY SameCall
<1>3. Target(From)' = Target(From)
  BY <1>1 DEF Target, IsDir, Destination, From
<1>4. (Untouched' <=> Untouched) /\ Now(From)' = Now(From)
  BY <1>1 DEF Untouched, Now, Content, From
<1>5. UNCHANGED <<inode_in, inode_out>> => (Opened' <=> Opened) /\ (Copied' <=> Copied)
  BY <1>1 DEF Opened, Copied, Goal, WasDir, From, To
<1> QED BY <1>2, <1>3, <1>4, <1>5

\* The destination's own name is not that of a directory, whatever happens behind it.
LEMMA GoalIsKept ==
  ASSUME OneSource, UNCHANGED called, Target(From) = Goal,
         IsDir(To)' <=> IsDir(To)
  PROVE  Target(From)' = Goal'
<1>1. Destination' = Destination /\ Destination = To /\ To' = To /\ From' = From /\ Goal' = Goal
  BY SameCall, TwoPaths DEF called, Destination
<1>2. IsDir(Destination)' <=> IsDir(Destination)
  BY <1>1 DEF IsDir
<1> QED BY <1>1, <1>2 DEF Target

LEMMA SourceIsAFile ==
  ASSUME OneSource, before.link[From] # NoInode
  PROVE  /\ before.link[From] \in DOMAIN before.data
         /\ (~WasDir(From) => before.data[before.link[From]] \in Seq(Nat))
BY TwoPaths, TreeAtStart DEF WasDir

\* open on the destination: it is empty, and nothing else has changed.
LEMMA TruncateOpens ==
  ASSUME OneSource, UNCHANGED called, Target(From) = Goal, data = before.data,
         link \in {before.link, [before.link EXCEPT ![Goal] = NoInode]},
         before.link[From] # NoInode, ~WasDir(Goal),
         inode_in' = before.link[From], Truncate(Goal)
  PROVE  /\ Opened' /\ data'[inode_out'] = <<>> /\ Target(From)' = Goal'
         /\ before.link[From] # before.link[Goal]
              => inode_in' # inode_out' /\ Now(From)' = Before(From)'
<1> DEFINE nodes == DOMAIN before.data
<1>1. /\ Goal \in Path /\ From \in Path /\ To \in Path /\ NoInode \notin nodes
      /\ before.link \in [Path -> 0 .. Len(before.data)]
      /\ before.data \in [nodes -> Seq(Nat) \cup {Directory}]
      /\ \A p \in Path : before.link[p] # NoInode => before.link[p] \in nodes
  BY TwoPaths, TreeAtStart DEF NoInode
<1>2. /\ link \in [Path -> 0 .. Len(before.data)]
      /\ \A p \in Path : p # Goal => link[p] = before.link[p]
      /\ link[Goal] \in {before.link[Goal], NoInode}
  BY <1>1, TreeAtStart DEF NoInode
<1>3. /\ inode_out' \in nodes
      /\ \/ inode_out' = before.link[Goal]
         \/ \A p \in Path : p # Goal => before.link[p] # inode_out'
  <2>1. CASE link[Goal] = NoInode
    <3>1. Unused \in nodes /\ \A q \in Path : link[q] # Unused
      BY <1>1, <1>2, <2>1, AnInodeIsUnused DEF OneSource, Called
    <3>2. inode_out' = Unused
      BY <2>1 DEF Truncate
    <3> QED BY <1>2, <3>1, <3>2
  <2>2. CASE link[Goal] # NoInode
    <3>1. inode_out' = before.link[Goal] /\ before.link[Goal] # NoInode
      BY <1>2, <2>2 DEF Truncate
    <3> QED BY <1>1, <3>1
  <2> QED BY <2>1, <2>2
<1>4. /\ link' = [before.link EXCEPT ![Goal] = inode_out']
      /\ link'[Goal] = inode_out' /\ \A p \in Path : p # Goal => link'[p] = before.link[p]
  <2>1. link' = [link EXCEPT ![Goal] = inode_out']
    BY DEF Truncate
  <2> QED BY <1>1, <1>2, <2>1
<1>5. /\ DOMAIN data' = nodes /\ data'[inode_out'] = <<>>
      /\ \A n \in nodes : n # inode_out' => data'[n] = before.data[n]
  <2>1. data' = [data EXCEPT ![inode_out'] = <<>>]
    BY DEF Truncate
  <2> QED BY <1>3, <2>1
<1>6. <<>> \in Seq(Nat) /\ <<>> # Directory
  BY EmptySeq, DirectoryIsNoFile
<1>7. before' = before /\ Goal' = Goal /\ From' = From /\ To' = To
  BY SameCall DEF called
<1>8. Opened'
  BY <1>3, <1>4, <1>5, <1>6, <1>7 DEF Opened
<1>9. Target(From)' = Goal'
  <2>1. To \in Path /\ (To = Goal \/ (To # Goal /\ link[To] = before.link[To] /\ link'[To] = before.link[To]))
    BY <1>1, <1>2, <1>4
  <2>2. CASE To = Goal
    <3>1. ~IsDir(To)'
      BY <1>4, <1>5, <1>6, <1>7, <2>2 DEF IsDir
    <3>2. ~IsDir(To)
      BY <1>2, <2>2 DEF IsDir, WasDir
    <3> QED BY <3>1, <3>2, GoalIsKept
  <2>3. CASE To # Goal
    <3>1. IsDir(To) <=> WasDir(To)
      BY <2>1, <2>3 DEF IsDir, WasDir
    <3>2. IsDir(To)' <=> link'[To] # NoInode /\ data'[link'[To]] = Directory
      BY <1>7 DEF IsDir
    <3>3. IsDir(To)' <=> WasDir(To)
      <4>1. CASE before.link[To] = inode_out'
        <5>1. inode_out' = before.link[Goal]
          BY <1>1, <1>3, <2>3, <4>1
        <5>2. ~WasDir(To)
          BY <4>1, <5>1 DEF WasDir
        <5> QED BY <1>5, <1>6, <2>1, <2>3, <3>2, <4>1, <5>2
      <4>2. CASE before.link[To] # inode_out'
        BY <1>1, <1>5, <2>1, <2>3, <3>2, <4>2 DEF WasDir
      <4> QED BY <4>1, <4>2
    <3> QED BY <3>1, <3>3, GoalIsKept
  <2> QED BY <2>2, <2>3
<1>10. ASSUME before.link[From] # before.link[Goal]
       PROVE  inode_in' # inode_out' /\ Now(From)' = Before(From)'
  <2>1. From # Goal /\ inode_in' # inode_out'
    BY <1>1, <1>3, <1>10
  <2>2. link'[From] = before.link[From] /\ data'[before.link[From]] = before.data[before.link[From]]
    BY <1>1, <1>4, <1>5, <2>1
  <2> QED BY <1>7, <2>1, <2>2 DEF Now, Before, Content
<1> QED BY <1>5, <1>8, <1>9, <1>10

\* Bytes written to the destination change nothing else.
LEMMA WriteKeeps ==
  ASSUME OneSource, UNCHANGED <<called, link, inode_in, inode_out>>, Target(From) = Goal, Opened,
         NEW bytes \in Seq(Nat), data' = [data EXCEPT ![inode_out] = bytes]
  PROVE  /\ Opened' /\ data'[inode_out'] = bytes /\ Target(From)' = Goal'
         /\ \A n \in DOMAIN data : n # inode_out => data'[n] = data[n]
         /\ From # Goal /\ inode_in # inode_out /\ Now(From) = Before(From)
              => Now(From)' = Before(From)'
<1>1. /\ before' = before /\ Goal' = Goal /\ From' = From /\ To' = To
      /\ Before(From)' = Before(From) /\ To \in Path /\ From \in Path /\ Goal \in Path
  BY SameCall, TwoPaths, TreeAtStart DEF called
<1>2. inode_out \in DOMAIN data /\ data[inode_out] # Directory /\ bytes # Directory
  BY DirectoryIsNoFile DEF Opened
<1>3. /\ DOMAIN data' = DOMAIN data /\ data'[inode_out] = bytes
      /\ \A n \in DOMAIN data : n # inode_out => data'[n] = data[n]
  BY <1>2
<1>4. Opened'
  BY <1>1, <1>3 DEF Opened
<1>5. \A p \in Path : link[p] # NoInode => link[p] \in DOMAIN data
  BY <1>1, TreeAtStart DEF Opened
<1>6. Target(From)' = Goal'
  <2>1. IsDir(To)' <=> IsDir(To)
    BY <1>1, <1>2, <1>3, <1>5 DEF IsDir
  <2> QED BY <2>1, GoalIsKept
<1>7. ASSUME From # Goal, inode_in # inode_out, Now(From) = Before(From)
      PROVE  Now(From)' = Before(From)'
  <2>1. link[From] = inode_in
    BY <1>1, <1>7, TreeAtStart DEF Opened
  <2>2. link[From] # NoInode => data'[link[From]] = data[link[From]]
    BY <1>1, <1>3, <1>5, <1>7, <2>1
  <2> QED BY <1>1, <1>7, <2>2 DEF Now, Content
<1> QED BY <1>3, <1>4, <1>6, <1>7

-----------------------------------------------------------------------------
(* What the loop of copy1 does to the copy *)

LEMMA OpenChunks ==
  ASSUME copyAt' = "read", offset' = 0, rc' = 0, data'[inode_out'] = <<>>,
         data'[inode_in'] \in Seq(Nat)
  PROVE  Chunks'
<1>1. SubSeq(data'[inode_in'], 1, 0) = <<>> /\ Len(data'[inode_in']) \in Nat
  BY SubSeqEmpty, LenProperties
<1> QED BY <1>1 DEF Chunks

LEMMA ReadChunks ==
  ASSUME CpRead, Chunks, data[inode_in] \in Seq(Nat)
  PROVE  Chunks'
<1> DEFINE all == data[inode_in]
<1>1. /\ copyAt = "read" /\ copyAt' = "write" /\ UNCHANGED <<inode_in, inode_out, rc>>
      /\ data' = data
  BY DEF CpRead, fs
<1>2. PICK n \in 1 .. CpChunk : /\ offset + n <= Len(all) /\ offset' = offset + n
                                /\ copyBuf' = SubSeq(all, offset + 1, offset + n)
  BY DEF CpRead
<1>3. offset \in 0 .. Len(all) /\ data[inode_out] = SubSeq(all, 1, offset) /\ rc = 0
  BY <1>1 DEF Chunks
<1>4. all \in Seq(Nat)
  OBVIOUS
<1> HIDE DEF all
<1>5. offset \in Nat /\ offset' \in offset .. Len(all) /\ n \in Nat /\ Len(all) \in Nat
  <2>1. Len(all) \in Nat /\ CpChunk \in Nat
    BY <1>4, CopyFileAssumption, LenProperties
  <2> QED BY <1>2, <1>3, <2>1
<1>6. data[inode_out] \o copyBuf' = SubSeq(all, 1, offset')
  <2>1. 1 \in 1 .. Len(all) + 1 /\ offset \in 1 - 1 .. Len(all)
    BY <1>5
  <2>2. SubSeq(all, 1, offset) \o SubSeq(all, offset + 1, offset') = SubSeq(all, 1, offset')
    BY <1>4, <1>5, <2>1, ConcatAdjacentSubSeq
  <2> QED BY <1>2, <1>3, <2>2
<1>7. copyBuf' \in Seq(Nat)
  <2>1. ASSUME NEW k \in offset + 1 .. offset + n PROVE all[k] \in Nat
    <3>1. k \in 1 .. Len(all)
      BY <1>2, <1>5
    <3> QED BY <1>4, <3>1, ElementOfSeq
  <2> QED BY <1>2, <1>5, <2>1, SubSeqProperties
<1>8. offset' \in 0 .. Len(all) /\ data'[inode_in'] = all /\ data'[inode_out'] = data[inode_out]
  BY <1>1, <1>5 DEF all
<1>9. rc' = 0
  BY <1>1, <1>3
<1> QED BY <1>1, <1>6, <1>7, <1>8, <1>9 DEF Chunks

LEMMA WriteChunks ==
  ASSUME CpWrite, Chunks, inode_in # inode_out,
         data[inode_in] \in Seq(Nat), inode_in \in DOMAIN data,
         data[inode_out] \in Seq(Nat), inode_out \in DOMAIN data
  PROVE  Chunks' /\ \E bytes \in Seq(Nat) : data' = [data EXCEPT ![inode_out] = bytes]
<1> DEFINE done == data[inode_out]
           all  == data[inode_in]
<1>1. /\ copyAt = "write" /\ copyAt' \in {"read", "write"} /\ (copyAt' = "read" => copyBuf' = <<>>)
      /\ UNCHANGED <<inode_in, inode_out, offset, rc>>
  BY DEF CpWrite
<1>2. /\ done \in Seq(Nat) /\ copyBuf \in Seq(Nat) /\ done \o copyBuf = SubSeq(all, 1, offset)
      /\ rc = 0 /\ offset \in 0 .. Len(all)
  BY <1>1 DEF Chunks
<1>3. PICK m \in 1 .. Len(copyBuf) :
        /\ data' = [data EXCEPT ![inode_out] = done \o SubSeq(copyBuf, 1, m)]
        /\ copyBuf' = SubSeq(copyBuf, m + 1, Len(copyBuf))
  BY DEF CpWrite
<1>4. data'[inode_in'] = all /\ data'[inode_out'] = done \o SubSeq(copyBuf, 1, m)
  BY <1>1, <1>3
<1> HIDE DEF done, all
<1>5. /\ SubSeq(copyBuf, 1, m) \in Seq(Nat) /\ copyBuf' \in Seq(Nat)
      /\ SubSeq(copyBuf, 1, m) \o copyBuf' = copyBuf
  <2>1. Len(copyBuf) \in Nat /\ m \in Nat /\ m <= Len(copyBuf) /\ 1 <= m
    BY <1>2, LenProperties
  <2>2. \A k \in 1 .. Len(copyBuf) : copyBuf[k] \in Nat
    BY <1>2, ElementOfSeq
  <2>3. SubSeq(copyBuf, 1, m) \in Seq(Nat)
    <3>1. \A k \in 1 .. m : copyBuf[k] \in Nat
      BY <2>1, <2>2
    <3> QED BY <2>1, <3>1, SubSeqProperties
  <2>4. copyBuf' \in Seq(Nat)
    <3>1. \A k \in m + 1 .. Len(copyBuf) : copyBuf[k] \in Nat
      BY <2>1, <2>2
    <3> QED BY <1>3, <2>1, <3>1, SubSeqProperties
  <2>5. SubSeq(copyBuf, 1, m) \o SubSeq(copyBuf, m + 1, Len(copyBuf)) = SubSeq(copyBuf, 1, Len(copyBuf))
    <3>1. 1 \in 1 .. Len(copyBuf) + 1 /\ m \in 1 - 1 .. Len(copyBuf) /\ Len(copyBuf) \in m .. Len(copyBuf)
      BY <2>1
    <3> QED BY <1>2, <3>1, ConcatAdjacentSubSeq
  <2> QED BY <1>2, <1>3, <2>3, <2>4, <2>5, SubSeqFull
<1>6. done \o SubSeq(copyBuf, 1, m) \in Seq(Nat)
  BY <1>2, <1>5, ConcatProperties
<1>7. (done \o SubSeq(copyBuf, 1, m)) \o copyBuf' = SubSeq(all, 1, offset)
  <2>1. (done \o SubSeq(copyBuf, 1, m)) \o copyBuf' = done \o (SubSeq(copyBuf, 1, m) \o copyBuf')
    <3>1. done \in Seq(Nat) /\ SubSeq(copyBuf, 1, m) \in Seq(Nat) /\ copyBuf' \in Seq(Nat)
      BY <1>2, <1>5
    <3> QED BY <3>1, ConcatAssociative
  <2>2. done \o (SubSeq(copyBuf, 1, m) \o copyBuf') = done \o copyBuf
    BY <1>5
  <2>3. done \o copyBuf = SubSeq(all, 1, offset)
    BY <1>2
  <2> QED BY <2>1, <2>2, <2>3, Zenon
<1>8. copyAt' = "read" => done \o SubSeq(copyBuf, 1, m) = SubSeq(all, 1, offset)
  <2>1. ASSUME copyBuf' = <<>>
        PROVE  (done \o SubSeq(copyBuf, 1, m)) \o copyBuf' = done \o SubSeq(copyBuf, 1, m)
    BY <1>6, <2>1, ConcatEmptySeq
  <2> QED BY <1>1, <1>7, <2>1
<1>9. offset' = offset /\ rc' = 0
  BY <1>1, <1>2
<1>10. Chunks'
  BY <1>1, <1>2, <1>4, <1>5, <1>7, <1>8, <1>9 DEF Chunks
<1> QED BY <1>3, <1>6, <1>10

LEMMA EndChunks ==
  ASSUME CpEndOfFile, Chunks, data[inode_in] \in Seq(Nat)
  PROVE  Chunks'
<1>1. /\ copyAt = "read" /\ copyAt' = "close" /\ UNCHANGED <<rc, offset, copyBuf, inode_in, inode_out>>
      /\ data' = data /\ offset = Len(data[inode_in])
  BY DEF CpEndOfFile, CpGoes, copying, fs
<1>2. data[inode_out] = SubSeq(data[inode_in], 1, Len(data[inode_in]))
  BY <1>1 DEF Chunks
<1>3. data[inode_out] = data[inode_in]
  BY <1>2, SubSeqFull
<1> QED BY <1>1, <1>3 DEF Chunks

-----------------------------------------------------------------------------
(* What a step does to a copy of one source *)

LEMMA CpIsCalled ==
  ASSUME NEW tree \in Trees, NEW line \in Orders, CpIInv, CpCalled(tree, line),
         Len(order'.paths) = 2
  PROVE  OneCopy'
<1>1. /\ copyAt' = "start" /\ status' = 0 /\ refused' = {} /\ rc' = 0
      /\ link' = before'.link /\ data' = before'.data
      /\ before' \in Trees /\ order' \in Orders
  BY DEF CpCalled, CpIInv, copying
<1>2. Destination' = To'
  BY <1>1, CopyFileAssumption DEF Destination, Last, To
<1>3. Target(From)' = Goal'
  BY <1>1, <1>2 DEF Target, Goal, IsDir, WasDir
<1>4. Untouched' /\ Now(From)' = Before(From)'
  BY <1>1 DEF Untouched, Now, Before, Content
<1> QED BY <1>1, <1>3, <1>4 DEF OneCopy, CpAt, MmapAt

\* The steps before a destination is open, those that fail, and the last ones.
LEMMA CpKeepsFiles ==
  ASSUME OneSource, OneCopy,
         \/ CpStart \/ CpRefuses \/ CpChecked \/ CpOverwrite \/ CpKeep \/ CpOpenFails
         \/ CpEndOfFile \/ CpFails \/ CpClose
  PROVE  OneCopy'
<1>0. UNCHANGED <<fs, called, inode_in, inode_out>>
  BY DEF CpStart, CpRefuses, CpChecked, CpOverwrite, CpKeep, CpOpenFails, CpEndOfFile, CpFails,
         CpClose, CpGoes, Return, copying
<1>1. /\ From' = From /\ Goal' = Goal /\ (Checked' <=> Checked) /\ (Untouched' <=> Untouched)
      /\ Target(From)' = Goal' /\ (order'.tool = "cp" => Now(From)' = Before(From)')
      /\ (Opened' <=> Opened) /\ (Copied' <=> Copied)
      /\ before' = before /\ data' = data /\ order' = order /\ link' = link
  BY <1>0, SameFiles DEF OneCopy, called, fs
<1>2. Front(order.paths) = <<From>> /\ Head(<<From>>) = From /\ Tail(<<From>>) = <<>>
  BY TwoPaths
<1>3. CASE CpStart
  <2>1. copyAt' = "check" /\ sources' = <<From>> /\ UNCHANGED <<status, rc, refused>>
    BY <1>2, <1>3 DEF CpStart, OneSource
  <2> QED BY <1>1, <1>3, <2>1 DEF OneCopy, CpStart, CpAt, MmapAt
<1>4. CASE CpRefuses \/ CpOpenFails
  <2>1. sources = <<From>> /\ Return(-1) /\ UNCHANGED <<refused, rc>>
    BY <1>4 DEF OneCopy, CpRefuses, CpOpenFails, CpAt
  <2>2. copyAt' = "done" /\ status' = 1 /\ UNCHANGED <<refused, rc>>
    BY <1>2, <2>1 DEF Return
  <2> QED BY <1>1, <2>2 DEF OneCopy, CpAt, MmapAt
<1>5. CASE CpChecked
  <2>1. copyAt = "check" /\ sources = <<From>> /\ Src = From /\ Dst = Goal /\ Untouched
    BY <1>2, <1>5 DEF OneCopy, CpChecked, CpAt, Src, Dst
  <2>2. Checked
    BY <1>5, <2>1 DEF CpChecked, CannotCopy, Checked, IsDir, WasDir, Untouched
  <2>3. copyAt' \in {"ask", "unlink", "open"} /\ UNCHANGED <<sources, rc, status, refused>>
    BY <1>5 DEF CpChecked, CpGoes
  <2>4. link = before.link /\ data = before.data
    BY <2>1 DEF Untouched
  <2> QED BY <1>1, <2>1, <2>2, <2>3, <2>4 DEF OneCopy, CpAt, MmapAt
<1>6. CASE CpOverwrite
  <2>1. copyAt = "ask" /\ copyAt' = "open" /\ UNCHANGED <<sources, rc, status, refused>>
    BY <1>6 DEF CpOverwrite, CpGoes
  <2>2. link = before.link /\ data = before.data
    BY <2>1 DEF OneCopy, Untouched
  <2> QED BY <1>1, <2>1, <2>2 DEF OneCopy, CpAt, MmapAt
<1>7. CASE CpKeep
  <2>1. /\ copyAt = "ask" /\ copyAt' = "done" /\ status' = status /\ rc' = rc
        /\ refused' = {Goal}
    BY <1>2, <1>7 DEF OneCopy, CpKeep, Return, CpAt, Src, Dst
  <2> QED BY <1>1, <2>1 DEF OneCopy, CpAt, MmapAt
<1>8. CASE CpEndOfFile
  <2>1. /\ copyAt = "read" /\ copyAt' = "close" /\ UNCHANGED <<sources, rc, status, refused>>
        /\ UNCHANGED <<offset, copyBuf>> /\ offset = Len(data[inode_in])
    BY <1>8 DEF CpEndOfFile, CpGoes, copying
  <2>2. data[inode_in] \in Seq(Nat) /\ Chunks
    BY <2>1, SourceIsAFile DEF OneCopy, CpAt, Opened, Checked
  <2>3. Chunks'
    BY <1>8, <2>2, EndChunks
  <2> QED BY <1>0, <1>1, <2>1, <2>3 DEF OneCopy, CpAt, MmapAt
<1>9. CASE CpFails
  <2>1. /\ copyAt \in {"read", "write"} /\ copyAt' = "close" /\ rc' = -1
        /\ UNCHANGED <<sources, status, refused, offset, copyBuf>>
    BY <1>9 DEF CpFails, copying
  <2>2. Chunks'
    BY <1>0, <1>1, <2>1 DEF OneCopy, Chunks
  <2> QED BY <1>0, <1>1, <2>1, <2>2 DEF OneCopy, CpAt, MmapAt
<1>10. CASE CpClose
  <2>1. /\ copyAt = "close" /\ copyAt' = "done" /\ rc' \in {rc, -1} /\ refused' = refused
        /\ status' = IF rc' = 0 THEN status ELSE 1
    BY <1>2, <1>10 DEF OneCopy, CpClose, Return, CpAt
  <2>2. rc = 0 => Copied
    BY <2>1, SourceIsAFile DEF OneCopy, Chunks, Copied, Opened, Checked, CpAt
  <2> QED BY <1>0, <1>1, <2>1, <2>2 DEF OneCopy, CpAt, MmapAt
<1> QED BY <1>3, <1>4, <1>5, <1>6, <1>7, <1>8, <1>9, <1>10

LEMMA CpUnlinks ==
  ASSUME OneSource, OneCopy, CpUnlink
  PROVE  OneCopy'
<1>1. /\ copyAt = "unlink" /\ copyAt' = "open" /\ UNCHANGED <<called, sources, rc, status, refused>>
      /\ Untouched /\ Checked /\ sources = <<From>> /\ data' = data /\ Target(From) = Goal
  BY DEF CpUnlink, OneCopy, CpAt
<1>2. /\ From' = From /\ Goal' = Goal /\ (Checked' <=> Checked) /\ To' = To
      /\ Before(From)' = Before(From) /\ before' = before /\ order' = order
      /\ Goal \in Path /\ From \in Path /\ To \in Path
  BY <1>1, SameCall, TwoPaths, TreeAtStart DEF called
<1>3. link' \in {before.link, [before.link EXCEPT ![Goal] = NoInode]} /\ data' = before.data
  <2>1. Dst = Goal
    BY <1>1 DEF Dst, Src
  <2> QED BY <1>1, <2>1 DEF CpUnlink, Untouched
<1>4. /\ From # Goal /\ link'[From] = before.link[From]
      /\ \A p \in Path : p # Goal => link'[p] = before.link[p]
      /\ link'[Goal] \in {before.link[Goal], NoInode}
  BY <1>1, <1>2, <1>3, TreeAtStart DEF Checked
<1>5. Now(From)' = Before(From)'
  BY <1>1, <1>2, <1>3, <1>4 DEF Now, Before, Content
<1>6. IsDir(To)' <=> IsDir(To)
  <2>1. IsDir(To) <=> WasDir(To)
    BY <1>1 DEF IsDir, WasDir, Untouched
  <2>2. CASE To = Goal
    BY <1>1, <1>2, <1>3, <1>4, <2>1, <2>2 DEF IsDir, WasDir, Checked
  <2>3. CASE To # Goal
    BY <1>1, <1>2, <1>3, <1>4, <2>1, <2>3 DEF IsDir, WasDir
  <2> QED BY <2>2, <2>3
<1>7. Target(From)' = Goal'
  BY <1>1, <1>6, GoalIsKept
<1> QED BY <1>1, <1>2, <1>3, <1>5, <1>7 DEF OneCopy, CpAt, MmapAt

LEMMA CpOpens ==
  ASSUME OneSource, OneCopy, CpOpen
  PROVE  OneCopy'
<1>1. /\ copyAt = "open" /\ copyAt' = "read" /\ UNCHANGED <<called, sources, status, refused>>
      /\ Checked /\ sources = <<From>> /\ Target(From) = Goal /\ offset' = 0 /\ rc' = 0
      /\ data = before.data /\ link \in {before.link, [before.link EXCEPT ![Goal] = NoInode]}
      /\ status = 0 /\ refused = {} /\ order.tool = "cp"
  BY DEF CpOpen, OneCopy, CpAt
<1>2. Src = From /\ Dst = Goal
  BY <1>1 DEF Dst, Src
<1>3. inode_in' = before.link[From]
  <2>1. From # Goal /\ From \in Path /\ Goal \in Path
    BY <1>1, TwoPaths, TreeAtStart DEF Checked
  <2> QED BY <1>1, <1>2, <2>1, TreeAtStart DEF CpOpen
<1>4. /\ Opened' /\ data'[inode_out'] = <<>> /\ Target(From)' = Goal'
      /\ inode_in' # inode_out' /\ Now(From)' = Before(From)'
  BY <1>1, <1>2, <1>3, TruncateOpens DEF CpOpen, Checked
<1>5. /\ From' = From /\ (Checked' <=> Checked) /\ before' = before /\ order' = order
  BY <1>1, SameCall DEF called
<1>6. Chunks'
  <2>1. data'[inode_in'] \in Seq(Nat)
    BY <1>1, <1>3, <1>4, <1>5, SourceIsAFile DEF Checked, Opened
  <2> QED BY <1>1, <1>4, <2>1, OpenChunks
<1> QED BY <1>1, <1>4, <1>5, <1>6 DEF OneCopy, CpAt, MmapAt

LEMMA CpReads ==
  ASSUME OneSource, OneCopy, CpRead
  PROVE  OneCopy'
<1>1. /\ copyAt = "read" /\ copyAt' = "write"
      /\ UNCHANGED <<fs, called, sources, inode_in, inode_out, rc, status, refused>>
  BY DEF CpRead
<1>2. /\ Opened /\ Checked /\ Chunks /\ inode_in # inode_out /\ status = 0 /\ refused = {}
      /\ status' = 0 /\ refused' = {} /\ sources' = sources /\ rc' = rc
  BY <1>1 DEF OneCopy, CpAt
<1>3. data[inode_in] \in Seq(Nat)
  BY <1>2, SourceIsAFile DEF Opened, Checked
<1>4. /\ Target(From)' = Goal' /\ (order'.tool = "cp" => Now(From)' = Before(From)')
      /\ Checked' /\ Opened' /\ From' = From /\ order' = order
  BY <1>1, <1>2, SameFiles DEF OneCopy, called
<1>5. Chunks'
  BY <1>2, <1>3, ReadChunks
<1> QED BY <1>1, <1>2, <1>4, <1>5 DEF OneCopy, CpAt, MmapAt

LEMMA CpWrites ==
  ASSUME OneSource, OneCopy, CpWrite
  PROVE  OneCopy'
<1>1. /\ copyAt = "write" /\ copyAt' \in {"read", "write"}
      /\ UNCHANGED <<link, called, sources, inode_in, inode_out, offset, rc, status, refused>>
  BY DEF CpWrite
<1>2. /\ Opened /\ Checked /\ Chunks /\ inode_in # inode_out /\ Target(From) = Goal
      /\ Now(From) = Before(From) /\ order.tool = "cp"
  BY <1>1 DEF OneCopy, CpAt
<1>3. /\ data[inode_in] \in Seq(Nat) /\ inode_in \in DOMAIN data
      /\ data[inode_out] \in Seq(Nat) /\ inode_out \in DOMAIN data
  BY <1>2, SourceIsAFile DEF Opened, Checked
<1>4. PICK bytes \in Seq(Nat) : data' = [data EXCEPT ![inode_out] = bytes]
  BY <1>2, <1>3, WriteChunks
<1>5. Chunks'
  BY <1>2, <1>3, WriteChunks
<1>6. Opened' /\ Target(From)' = Goal' /\ Now(From)' = Before(From)'
  <2>1. From # Goal
    BY <1>2 DEF Checked
  <2> QED BY <1>1, <1>2, <1>4, <2>1, WriteKeeps
<1>7. /\ From' = From /\ (Checked' <=> Checked) /\ order' = order
  BY <1>1, SameCall DEF called
<1> QED BY <1>1, <1>2, <1>5, <1>6, <1>7 DEF OneCopy, CpAt, MmapAt

LEMMA MmapKeepsFiles ==
  ASSUME OneSource, OneCopy, MmapOpenFrom \/ MmapDone \/ MmapDies
  PROVE  OneCopy'
<1>0. UNCHANGED <<fs, called, rc, refused>>
  BY DEF MmapOpenFrom, MmapDone, MmapDies, MmapStep
<1>1. /\ From' = From /\ Goal' = Goal /\ (Untouched' <=> Untouched) /\ Target(From)' = Goal'
      /\ (order'.tool = "cp" => Now(From)' = Before(From)')
      /\ (inode_in' = inode_in /\ inode_out' = inode_out => (Copied' <=> Copied))
      /\ before' = before /\ order' = order
  BY <1>0, SameFiles DEF OneCopy, called
<1>2. CASE MmapOpenFrom
  <2>1. /\ copyAt = "start" /\ copyAt' = "openTo" /\ order.tool = "cp_mmap" /\ status' = status
        /\ inode_in' = link[From] /\ link[From] # NoInode
    BY <1>2 DEF MmapOpenFrom, MmapStep
  <2>2. link = before.link
    BY <2>1 DEF OneCopy, Untouched
  <2> QED BY <1>0, <1>1, <2>1, <2>2 DEF OneCopy, CpAt, MmapAt
<1>3. CASE MmapDone
  <2>1. /\ copyAt = "unmap" /\ copyAt' = "done" /\ UNCHANGED <<status, inode_in, inode_out>>
    BY <1>3 DEF MmapDone, MmapStep
  <2> QED BY <1>0, <1>1, <2>1 DEF OneCopy, CpAt, MmapAt
<1>4. CASE MmapDies
  <2>1. copyAt' = "done" /\ status' = 1
    BY <1>4 DEF MmapDies, MmapStep
  <2> QED BY <1>0, <1>1, <2>1 DEF OneCopy, CpAt, MmapAt
<1> QED BY <1>2, <1>3, <1>4

LEMMA MmapOpensTo ==
  ASSUME OneSource, OneCopy, MmapOpenTo
  PROVE  OneCopy'
<1>1. /\ copyAt = "openTo" /\ copyAt' = "resize" /\ order.tool = "cp_mmap"
      /\ UNCHANGED <<called, rc, refused, inode_in, status>> /\ ~IsDir(To) /\ Truncate(To)
      /\ Untouched /\ inode_in = before.link[From] /\ inode_in # NoInode /\ Target(From) = Goal
  BY DEF MmapOpenTo, MmapStep, OneCopy
<1>2. ~WasDir(To) /\ Goal = To /\ ~WasDir(Goal) /\ data = before.data /\ link = before.link
  BY <1>1 DEF IsDir, WasDir, Untouched, Goal
<1>3. /\ Opened' /\ data'[inode_out'] = <<>> /\ Target(From)' = Goal'
  BY <1>1, <1>2, TruncateOpens
<1>4. order' = order
  BY <1>1 DEF called
<1> QED BY <1>1, <1>3, <1>4 DEF OneCopy, CpAt, MmapAt

LEMMA MmapWrites ==
  ASSUME OneSource, OneCopy, MmapResize \/ MmapCopy
  PROVE  OneCopy'
<1>1. /\ copyAt \in {"resize", "map"} /\ order.tool = "cp_mmap"
      /\ UNCHANGED <<called, link, rc, refused, inode_in, inode_out, status>>
      /\ Opened /\ (inode_in = inode_out => data[inode_out] = <<>>) /\ Target(From) = Goal
  BY DEF MmapResize, MmapCopy, MmapStep, OneCopy
<1>2. before' = before /\ order' = order
  BY <1>1 DEF called
<1>3. /\ inode_in \in DOMAIN data
      /\ data[inode_in] \in Seq(Nat) \cup {Directory}
      /\ (inode_in # inode_out => data[inode_in] = before.data[inode_in])
  BY <1>1, TwoPaths, TreeAtStart DEF Opened
<1>4. CASE MmapResize
  <2> DEFINE zeros == [k \in 1 .. Size(inode_in) |-> 0]
  <2>1. Size(inode_in) \in Nat
    <3>1. Len(Directory) \in Nat
      BY DEF Directory
    <3> QED BY <1>3, <3>1, LenProperties DEF Size
  <2>2. zeros \in Seq(Nat) /\ Len(zeros) = Size(inode_in)
    <3> HIDE DEF Size
    <3> QED BY <2>1
  <2>3. data' = [data EXCEPT ![inode_out] = zeros] /\ copyAt' = "map"
    BY <1>4 DEF MmapResize, MmapStep
  <2>4. Opened' /\ data'[inode_out'] = zeros /\ Target(From)' = Goal'
    <3> HIDE DEF zeros
    <3> QED BY <1>1, <2>2, <2>3, WriteKeeps
  <2>5. inode_in = inode_out => zeros = <<>>
    <3>1. Len(<<>>) = 0 /\ \A s \in Seq(Nat) : s # <<>> => Len(s) # 0
      BY EmptySeq
    <3> HIDE DEF zeros
    <3> QED BY <1>1, <2>2, <3>1 DEF Size
  <2> HIDE DEF zeros
  <2> QED BY <1>1, <1>2, <2>3, <2>4, <2>5 DEF OneCopy, CpAt, MmapAt
<1>5. CASE MmapCopy
  <2>1. /\ data[inode_in] # <<>> /\ data[inode_in] # Directory /\ copyAt' = "unmap"
        /\ data' = [data EXCEPT ![inode_out] = data[inode_in]]
    BY <1>5 DEF MmapCopy, MmapStep
  <2>2. inode_in # inode_out /\ data[inode_in] \in Seq(Nat)
    BY <1>1, <1>3, <2>1
  <2>3. /\ Opened' /\ data'[inode_out'] = data[inode_in] /\ Target(From)' = Goal'
    BY <1>1, <2>1, <2>2, WriteKeeps
  <2>4. Copied'
    BY <1>1, <1>2, <1>3, <2>2, <2>3 DEF Copied
  <2> QED BY <1>1, <1>2, <2>1, <2>3, <2>4 DEF OneCopy, CpAt, MmapAt
<1> QED BY <1>4, <1>5

-----------------------------------------------------------------------------
(* What a step does to the copies of several sources *)

LEMMA ManyPaths ==
  ASSUME Many
  PROVE  /\ order.tool = "cp" /\ Destination \in Path
         /\ Front(order.paths) \in Seq(Path) /\ Sources \subseteq Path
<1>1. order.paths \in Seq(Path) /\ Len(order.paths) > 2 /\ order.tool = "cp"
  <2>1. /\ order.paths \in Seq(Path) /\ order.tool \in {"cp", "cp_mmap"} /\ Len(order.paths) > 2
        /\ order.tool = "cp_mmap" => Len(order.paths) = 2
    BY CopyFileAssumption DEF Many, Called
  <2>2. Len(order.paths) # 2
    <3>1. Len(order.paths) \in Nat /\ Len(order.paths) > 2
      BY <2>1, LenProperties
    <3>2. ASSUME NEW m \in Nat, m > 2 PROVE m # 2
      BY <3>2
    <3> QED BY <3>1, <3>2
  <2>3. order.tool = "cp"
    BY <2>1, <2>2, Zenon
  <2> QED BY <2>1, <2>3
<1> DEFINE n == Len(order.paths)
<1>2. n \in Nat /\ \A k \in 1 .. n : order.paths[k] \in Path
  BY <1>1, LenProperties, ElementOfSeq
<1> HIDE DEF n
<1>3. Destination \in Path
  <2>1. n \in 1 .. n
    BY <1>1, <1>2 DEF n
  <2> QED BY <1>2, <2>1 DEF Destination, Last, n
<1>4. Front(order.paths) \in Seq(Path)
  <2>1. \A k \in 1 .. n - 1 : order.paths[k] \in Path
    BY <1>2
  <2>2. 1 \in Int /\ n - 1 \in Int
    BY <1>2
  <2>3. SubSeq(order.paths, 1, n - 1) \in Seq(Path)
    BY <2>1, <2>2, SubSeqProperties
  <2> QED BY <2>3 DEF Front, n
<1>5. Sources \subseteq Path
  BY <1>4, ElementOfSeq, LenProperties DEF Sources, ToSet
<1> QED BY <1>1, <1>3, <1>4, <1>5

LEMMA IntoDirectory ==
  ASSUME InDirectory
  PROVE  /\ IsDir(Destination)
         /\ \A p \in Path : Target(p) = <<"d", p[2]>> /\ Target(p) \in Path /\ Target(p)[1] = "d"
         /\ \A p \in Path : p[1] # "" => Target(p) = p
<1>1. IsDir(Destination) /\ Destination[2] = "d"
  BY DEF InDirectory, IsDir
<1>2. ASSUME NEW p \in Path
      PROVE  /\ Target(p) = <<"d", p[2]>> /\ Target(p) \in Path /\ Target(p)[1] = "d"
             /\ p[1] # "" => Target(p) = p
  <2>1. Target(p) = <<"d", p[2]>>
    BY <1>1 DEF Target
  <2>2. p = <<p[1], p[2]>> /\ p[1] \in {"", "d"} /\ p[2] \in Name
    <3>1. ASSUME NEW A, NEW B, NEW x \in A \X B PROVE x = <<x[1], x[2]>> /\ x[1] \in A /\ x[2] \in B
      OBVIOUS
    <3> QED BY <3>1 DEF Path
  <2>3. <<"d", p[2]>> \in Path
    BY <2>2 DEF Path
  <2>4. <<"d", p[2]>>[1] = "d"
    OBVIOUS
  <2>5. p[1] # "" => <<"d", p[2]>> = p
    BY <2>2
  <2> QED BY <2>1, <2>3, <2>4, <2>5
<1> QED BY <1>1, <1>2

LEMMA SourcesLeft ==
  ASSUME NEW S, NEW s \in Seq(S), s # <<>>
  PROVE  /\ Head(s) \in ToSet(s) /\ Tail(s) \in Seq(S) /\ ToSet(Tail(s)) \subseteq ToSet(s)
         /\ \A x \in ToSet(s) : x = Head(s) \/ x \in ToSet(Tail(s))
<1>1. /\ Len(s) \in Nat /\ Len(s) # 0 /\ Head(s) = s[1] /\ DOMAIN s = 1 .. Len(s)
  BY EmptySeq, LenProperties, HeadTailProperties
<1>2. /\ Tail(s) \in Seq(S) /\ Len(Tail(s)) = Len(s) - 1
      /\ \A k \in 1 .. Len(Tail(s)) : Tail(s)[k] = s[k + 1]
  BY HeadTailProperties
<1>3. DOMAIN Tail(s) = 1 .. Len(s) - 1
  BY <1>2, LenProperties
<1>4. ToSet(Tail(s)) \subseteq ToSet(s)
  <2>1. \A k \in 1 .. Len(s) - 1 : k + 1 \in 1 .. Len(s)
    BY <1>1
  <2> QED BY <1>1, <1>2, <1>3, <2>1 DEF ToSet
<1>5. ASSUME NEW k \in 1 .. Len(s), k # 1 PROVE s[k] \in ToSet(Tail(s))
  <2>1. k - 1 \in 1 .. Len(s) - 1 /\ (k - 1) + 1 = k
    BY <1>1, <1>5
  <2>2. Tail(s)[k - 1] = s[k]
    BY <1>2, <2>1
  <2> QED BY <1>3, <2>1, <2>2 DEF ToSet
<1>6. 1 \in 1 .. Len(s)
  BY <1>1
<1> QED BY <1>1, <1>2, <1>4, <1>5, <1>6 DEF ToSet

\* Where the files are as they were.
LEMMA SameManyFiles ==
  ASSUME UNCHANGED <<fs, called>>
  PROVE  /\ Many' <=> Many
         /\ link' = link /\ data' = data /\ before' = before /\ order' = order
         /\ Sources' = Sources /\ Targets' = Targets /\ (\A p : Target(p)' = Target(p))
         /\ \A p : (Whole(p)' <=> Whole(p)) /\ (Settled(p)' <=> Settled(p))
         /\ \A p : IsDir(p)' <=> IsDir(p)
         /\ (FilesOK' <=> FilesOK) /\ (OldNames' <=> OldNames) /\ (OnlyOldLinks' <=> OnlyOldLinks)
         /\ (InDirectory' <=> InDirectory)
<1>1. link' = link /\ data' = data /\ before' = before /\ order' = order
  BY DEF fs, called
<1>2. /\ Sources' = Sources /\ (\A p : Target(p)' = Target(p)) /\ (\A p : IsDir(p)' <=> IsDir(p))
      /\ (Many' <=> Many)
  BY <1>1 DEF Sources, Target, IsDir, Destination, Many, Called
<1>3. Targets' = Targets
  BY <1>2 DEF Targets
<1>4. /\ \A p : Now(p)' = Now(p) /\ Before(p)' = Before(p)
      /\ \A p, q : SameFile(p, q)' <=> SameFile(p, q)
  BY <1>1 DEF Now, Before, Content, SameFile
<1>5. \A p : Overwritten(p)' <=> Overwritten(p)
  BY <1>3, <1>4 DEF Overwritten
<1>6. \A p : (Whole(p)' <=> Whole(p)) /\ (Settled(p)' <=> Settled(p))
  BY <1>1, <1>2, <1>3, <1>4, <1>5 DEF Whole, Settled
<1>7. (FilesOK' <=> FilesOK) /\ (OldNames' <=> OldNames) /\ (OnlyOldLinks' <=> OnlyOldLinks)
  BY <1>1, <1>4, <1>5 DEF FilesOK, OldNames, OnlyOldLinks
<1>8. InDirectory' <=> InDirectory
  BY <1>1 DEF InDirectory, Destination
<1> QED BY <1>1, <1>2, <1>3, <1>6, <1>7, <1>8

\* Where only files change that the sources go to.
LEMMA SameDestination ==
  ASSUME Many, UNCHANGED called, InDirectory, InDirectory'
  PROVE  /\ Many' /\ before' = before /\ order' = order
         /\ Sources' = Sources /\ Targets' = Targets /\ (\A p \in Path : Target(p)' = Target(p))
         /\ \A p, q : SameFile(p, q)' <=> SameFile(p, q)
         /\ \A p : (Overwritten(p)' <=> Overwritten(p)) /\ Before(p)' = Before(p)
<1>1. before' = before /\ order' = order
  BY DEF called
<1>2. Sources' = Sources /\ Many' /\ (\A p : Before(p)' = Before(p))
      /\ (\A p, q : SameFile(p, q)' <=> SameFile(p, q))
  BY <1>1 DEF Sources, Many, Called, Before, Content, SameFile
<1>3. \A p \in Path : Target(p)' = Target(p)
  BY <1>1 DEF InDirectory, Target, IsDir, Destination
<1>4. Targets' = Targets
  BY <1>2, <1>3, ManyPaths DEF Targets
<1> QED BY <1>1, <1>2, <1>3, <1>4 DEF Overwritten

LEMMA ManyAreCalled ==
  ASSUME NEW tree \in Trees, NEW line \in Orders, CpIInv, CpCalled(tree, line),
         Len(order'.paths) > 2
  PROVE  Copies'
<1>1. /\ copyAt' = "start" /\ rc' = 0 /\ sources' = <<>> /\ link' = tree.link /\ data' = tree.data
      /\ before' = tree /\ order' = line
  BY DEF CpCalled, CpIInv
<1>2. FilesOK'
  <2>1. tree.data \in Seq(Seq(Nat) \cup {Directory}) /\ tree.link \in [Path -> 0 .. Len(tree.data)]
    BY CopyFileAssumption
  <2>2. \A n \in DOMAIN tree.data : tree.data[n] \in Seq(Nat) \cup {Directory}
    BY <2>1, ElementOfSeq, LenProperties
  <2> QED BY <1>1, <2>1, <2>2 DEF FilesOK
<1>3. OldNames' /\ OnlyOldLinks' /\ \A p \in Path : Whole(p)'
  BY <1>1 DEF OldNames, OnlyOldLinks, Whole, Now, Before, Content, SameFile
<1>4. sources' \in Seq(Path) /\ ToSet(sources') = {}
  <2>1. <<>> \in Seq(Path) /\ DOMAIN <<>> = {}
    BY EmptySeq
  <2> QED BY <1>1, <2>1 DEF ToSet
<1> QED BY <1>1, <1>2, <1>3, <1>4 DEF Copies, CpAt

LEMMA ManyStart ==
  ASSUME Many, Copies, status = 0, status' = 0, CpStart
  PROVE  Copies'
<1>1. /\ copyAt = "start" /\ UNCHANGED <<fs, called, rc, refused>> /\ rc' = rc
  BY DEF CpStart
<1>2. copyAt' = "check" /\ sources' = Front(order.paths) /\ IsDir(Destination)
  BY DEF CpStart, Many
<1>3. link = before.link /\ data = before.data
  BY <1>1 DEF Copies
<1>4. InDirectory
  <2>1. WasDir(Destination) /\ Destination \in Path /\ Called
    BY <1>2, <1>3, ManyPaths DEF IsDir, WasDir, Many
  <2>2. Destination = <<"", "d">>
    BY <2>1, Tree
  <2> QED BY <1>2, <2>2 DEF IsDir, InDirectory
<1>5. /\ Sources' = Sources /\ FilesOK' /\ OldNames' /\ OnlyOldLinks' /\ InDirectory'
      /\ \A p \in Path : Whole(p)' <=> Whole(p)
  BY <1>1, <1>4, SameManyFiles DEF Copies
<1>6. ToSet(sources') = Sources' /\ sources' \in Seq(Path) /\ sources' # <<>>
  <2>1. Front(order.paths) # <<>>
    <3>1. Len(order.paths) > 2 /\ order.paths \in Seq(Path)
      BY CopyFileAssumption DEF Many, Called
    <3>2. Len(order.paths) \in Nat
      BY <3>1, LenProperties
    <3>3. Len(Front(order.paths)) = Len(order.paths) - 1
      <4> DEFINE n == Len(order.paths)
      <4>1. n - 1 \in Int /\ 1 \in Int /\ \A k \in 1 .. n - 1 : order.paths[k] \in Path
        BY <3>1, <3>2, ElementOfSeq
      <4>2. 1 <= n - 1 /\ n - 1 - 1 + 1 = n - 1
        BY <3>1, <3>2
      <4> HIDE DEF n
      <4>3. Len(SubSeq(order.paths, 1, n - 1)) = n - 1
        <5>1. Len(SubSeq(order.paths, 1, n - 1)) = IF 1 <= n - 1 THEN n - 1 - 1 + 1 ELSE 0
          BY <4>1, SubSeqProperties
        <5> QED BY <4>2, <5>1
      <4> QED BY <4>3 DEF Front, n
    <3>4. Len(Front(order.paths)) # 0
      <4>1. ASSUME NEW m \in Nat, m > 2 PROVE m - 1 # 0
        BY <4>1
      <4> QED BY <3>1, <3>2, <3>3, <4>1
    <3> QED BY <3>4, EmptySeq
  <2> QED BY <1>2, <1>5, <2>1, ManyPaths DEF Sources
<1>7. Accounted'
  BY <1>6 DEF Accounted
<1>8. \A p \in Path : Whole(p)
  BY <1>1 DEF Copies, Dirty
<1> QED BY <1>1, <1>2, <1>5, <1>6, <1>7, <1>8 DEF Copies, CpAt

LEMMA LinksLead ==
  ASSUME Many, FilesOK
  PROVE  \A p \in Path : link[p] # NoInode => link[p] \in DOMAIN data
<1>1. DOMAIN data = 1 .. Len(before.data) /\ link \in [Path -> 0 .. Len(before.data)]
  BY Tree DEF Many, FilesOK
<1>2. Len(before.data) \in Nat
  BY Tree DEF Many
<1>3. ASSUME NEW n \in Nat, NEW k \in 0 .. n, k # 0 PROVE k \in 1 .. n
  BY <1>3
<1> QED BY <1>1, <1>2, <1>3 DEF NoInode

LEMMA InHandIsAFile ==
  ASSUME Many, InDirectory, FilesOK, sources \in Seq(Path), sources # <<>>, InHand
  PROVE  /\ Src \in Path /\ Dst \in Path /\ Dst[1] = "d" /\ Src \in ToSet(sources)
         /\ link[Src] \in DOMAIN data /\ data[link[Src]] \in Seq(Nat)
         /\ link[Dst] # NoInode => link[Dst] \in DOMAIN data /\ data[link[Dst]] \in Seq(Nat)
<1>1. Src \in Path /\ Src \in ToSet(sources)
  BY HeadTailProperties, SourcesLeft DEF Src
<1>2. Dst \in Path /\ Dst[1] = "d"
  BY <1>1, IntoDirectory DEF Dst
<1>3. \A p \in Path : link[p] # NoInode => link[p] \in DOMAIN data
  BY LinksLead
<1> QED BY <1>1, <1>2, <1>3 DEF InHand, IsDir, FilesOK

\* What copy1 has checked is still so while no file changes.
LEMMA ManyGoOn ==
  ASSUME Many, Copies, UNCHANGED <<fs, called, sources, inode_out>>, refused \subseteq refused',
         copyAt \in CpAt, copyAt' \in CpAt, Dirty \subseteq Dirty', rc' \in {0, -1},
         copyAt' # "check" => InHand,
         copyAt' \in {"read", "write", "close"} => CopyOpen'
  PROVE  Copies'
<1>1. /\ link' = link /\ data' = data /\ before' = before /\ order' = order
      /\ Sources' = Sources /\ Targets' = Targets /\ (\A p : Target(p)' = Target(p))
      /\ \A p : (Whole(p)' <=> Whole(p)) /\ (Settled(p)' <=> Settled(p))
      /\ \A p : IsDir(p)' <=> IsDir(p)
      /\ (FilesOK' <=> FilesOK) /\ (OldNames' <=> OldNames) /\ (OnlyOldLinks' <=> OnlyOldLinks)
      /\ (InDirectory' <=> InDirectory)
  BY SameManyFiles
<1>2. sources' = sources
  OBVIOUS
<1>3. copyAt # "start" /\ copyAt' # "start" /\ copyAt' # "done"
  BY DEF CpAt
<1>4. Accounted'
  BY <1>1, <1>2, <1>3 DEF Copies, Accounted
<1>5. InHand' <=> InHand
  BY <1>1, <1>2 DEF InHand, Src, Dst
<1> QED BY <1>1, <1>2, <1>3, <1>4, <1>5 DEF Copies

LEMMA ManyKeepFiles ==
  ASSUME Many, Copies, status = 0, status' = 0,
         CpChecked \/ CpOverwrite \/ CpRead \/ CpEndOfFile \/ CpFails
  PROVE  Copies'
<1>1. CASE CpChecked
  <2>1. /\ copyAt = "check" /\ copyAt' \in {"ask", "unlink", "open"} /\ ~CannotCopy
        /\ UNCHANGED <<fs, called, sources, inode_out, refused>> /\ rc' = rc
    BY <1>1 DEF CpChecked, CpGoes, copying
  <2>2. InHand
    <3>1. sources \in Seq(Path) /\ sources # <<>> /\ InDirectory
      BY <2>1 DEF Copies, CpAt
    <3>2. Src \in Path
      BY <3>1, HeadTailProperties DEF Src
    <3>3. link[Src] # NoInode /\ ~IsDir(Src) /\ ~IsDir(Dst) /\ link[Src] # link[Dst]
      BY <2>1 DEF CannotCopy
    <3>4. Src[1] = ""
      BY <3>1, <3>2, <3>3, IntoDirectory DEF Dst
    <3> QED BY <3>3, <3>4 DEF InHand, IsDir
  <2>3. Dirty \subseteq Dirty'
    BY <2>1 DEF Dirty
  <2> QED BY <2>1, <2>2, <2>3, ManyGoOn DEF CpAt, Copies
<1>2. CASE CpOverwrite
  <2>1. /\ copyAt = "ask" /\ copyAt' = "open"
        /\ UNCHANGED <<fs, called, sources, inode_out, refused>> /\ rc' = rc
    BY <1>2 DEF CpOverwrite, CpGoes, copying
  <2>2. Dirty \subseteq Dirty' /\ InHand
    BY <2>1 DEF Dirty, Copies, CpAt
  <2> QED BY <2>1, <2>2, ManyGoOn DEF CpAt, Copies
<1>3. CASE CpRead \/ CpEndOfFile \/ CpFails
  <2>1. /\ copyAt \in {"read", "write"} /\ copyAt' \in {"write", "close"}
        /\ UNCHANGED <<fs, called, sources, inode_in, inode_out, refused>> /\ rc' \in {rc, -1}
    BY <1>3 DEF CpRead, CpEndOfFile, CpFails, CpGoes, copying
  <2>2. link' = link /\ data' = data /\ CopyOpen /\ InHand
    BY <2>1 DEF fs, Copies, CpAt
  <2>3. Dirty \subseteq Dirty'
    BY <2>1, <2>2 DEF Dirty
  <2>4. Chunks'
    <3>1. data[inode_in] \in Seq(Nat) /\ Chunks
      BY <2>1, <2>2, InHandIsAFile DEF CopyOpen, Copies, CpAt
    <3>2. CASE CpFails
      BY <2>1, <2>2, <3>1, <3>2 DEF CpFails, Chunks, copying
    <3> QED BY <1>3, <3>1, <3>2, ReadChunks, EndChunks
  <2>5. CopyOpen'
    <3>1. Target(Src)' = Target(Src) /\ Src' = Src
      BY <2>1, SameManyFiles DEF Src
    <3>2. Dst' = Dst
      BY <2>1, <3>1, SameManyFiles DEF Dst
    <3> QED BY <2>1, <2>2, <2>4, <3>1, <3>2 DEF CopyOpen
  <2> QED BY <2>1, <2>2, <2>3, <2>5, ManyGoOn DEF CpAt, Copies
<1> QED BY <1>1, <1>2, <1>3

\* What is written, or removed, changes nothing but the destination.
LEMMA ManyElsewhere ==
  ASSUME Many, Copies, UNCHANGED <<called, sources, refused>>, rc' \in {0, -1},
         copyAt \in CpAt \ {"check"}, copyAt' \in CpAt \ {"check"},
         InDirectory', FilesOK', OnlyOldLinks', InHand', Dirty \subseteq Dirty',
         copyAt' \in {"read", "write", "close"} => CopyOpen',
         \A p \in Path : p[1] = "" => link'[p] = link[p],
         \A p \in Path \ Dirty' :
           link'[p] = link[p] /\ (link[p] # NoInode => data'[link[p]] = data[link[p]]),
         \A p \in Path : p \in Dirty' /\ p[1] = "" => SameFile(Dst, p)
  PROVE  Copies'
<1>1. InDirectory /\ Accounted /\ FilesOK /\ InHand /\ OldNames /\ sources \in Seq(Path) /\ sources # <<>>
      /\ ToSet(sources) \subseteq Sources /\ sources' = sources /\ refused' = refused
  BY DEF Copies, CpAt
<1>2. /\ before' = before /\ order' = order
      /\ Sources' = Sources /\ Targets' = Targets /\ (\A p \in Path : Target(p)' = Target(p))
      /\ \A p, q : SameFile(p, q)' <=> SameFile(p, q)
      /\ \A p : (Overwritten(p)' <=> Overwritten(p)) /\ Before(p)' = Before(p)
  BY <1>1, SameDestination
<1>3. Dst \in Targets
  <2>1. Src \in Sources
    BY <1>1, InHandIsAFile
  <2> QED BY <2>1 DEF Dst, Targets
<1>4. \A p \in Path \ Dirty' : Now(p)' = Now(p) /\ link'[p] = link[p]
  BY DEF Now, Content
<1>5. \A p \in Path \ Dirty' : Whole(p)'
  <2> SUFFICES ASSUME NEW p \in Path \ Dirty' PROVE Whole(p)'
    OBVIOUS
  <2>1. Whole(p)
    BY DEF Copies
  <2> QED BY <1>2, <1>4, <2>1 DEF Whole
<1>6. OldNames'
  <2> SUFFICES ASSUME NEW p \in Path, p[1] = ""
               PROVE  link'[p] = before'.link[p] /\ (Now(p)' = Before(p)' \/ Overwritten(p)')
    BY DEF OldNames
  <2>1. link[p] = before.link[p] /\ (Now(p) = Before(p) \/ Overwritten(p))
    BY <1>1 DEF OldNames
  <2>2. CASE p \in Dirty'
    <3>1. Overwritten(p)
      BY <1>3, <2>2 DEF Overwritten
    <3> QED BY <1>2, <2>1, <3>1
  <2>3. CASE p \notin Dirty'
    BY <1>2, <1>4, <2>1, <2>3
  <2> QED BY <2>2, <2>3
<1>7. Accounted'
  <2> SUFFICES ASSUME NEW s \in Sources, s \notin ToSet(sources)
               PROVE  s[1] = "" /\ (Target(s)' \in (refused \cup Dirty)' \/ Settled(Target(s))')
    BY <1>1, <1>2 DEF Accounted
  <2>1. /\ s \in Path /\ Target(s) \in Path /\ Target(s)' = Target(s)
        /\ s[1] = "" /\ (Target(s) \in refused \cup Dirty \/ Settled(Target(s)))
    BY <1>1, <1>2, ManyPaths, IntoDirectory DEF Accounted
  <2>2. CASE Target(s) \in refused \cup Dirty'
    BY <1>1, <2>1, <2>2
  <2>3. CASE Target(s) \notin Dirty' /\ Settled(Target(s))
    <3>1. Now(Target(s))' = Now(Target(s)) /\ link'[Target(s)] = link[Target(s)]
      <4>1. Now(Target(s))' = Content(link', data', Target(s)')
        BY DEF Now
      <4> QED BY <2>1, <2>3, <4>1 DEF Now, Content
    <3>2. PICK x \in Sources : SameFile(Target(x), Target(s)) /\ (Now(Target(s)) = Before(x) \/ Overwritten(x))
      BY <2>3 DEF Settled
    <3>3. Target(x)' = Target(x)
      BY <1>2, ManyPaths
    <3>4. SameFile(Target(x), Target(s))'
      BY <1>2, <2>1, <3>2, <3>3 DEF SameFile
    <3>5. link'[Target(s)'] # NoInode
      BY <2>1, <2>3, <3>1 DEF Settled
    <3> QED BY <1>2, <2>1, <3>1, <3>2, <3>4, <3>5 DEF Settled
  <2> QED BY <2>1, <2>2, <2>3
<1>8. ToSet(sources') \subseteq Sources' /\ copyAt' \in CpAt /\ copyAt' # "start" /\ copyAt' # "done"
  BY <1>1, <1>2 DEF CpAt
<1> QED BY <1>1, <1>5, <1>6, <1>7, <1>8 DEF Copies

LEMMA ManyUnlink ==
  ASSUME Many, Copies, CpUnlink
  PROVE  Copies'
<1>1. /\ copyAt = "unlink" /\ copyAt' = "open" /\ UNCHANGED <<called, sources, rc, refused>>
      /\ data' = data /\ before' = before /\ order' = order /\ rc' = rc
      /\ link' \in {link, [link EXCEPT ![Dst] = NoInode]}
  BY DEF CpUnlink, called
<1>2. InDirectory /\ FilesOK /\ InHand /\ OnlyOldLinks /\ sources \in Seq(Path) /\ sources # <<>>
  BY <1>1 DEF Copies, CpAt
<1>3. /\ Src \in Path /\ Dst \in Path /\ Dst[1] = "d" /\ link[Src] \in DOMAIN data
  BY <1>2, InHandIsAFile
<1>4. /\ link' \in [Path -> 0 .. Len(before.data)]
      /\ \A p \in Path : p # Dst => link'[p] = link[p]
      /\ link'[Dst] \in {link[Dst], NoInode}
  <2>1. link \in [Path -> 0 .. Len(before.data)]
    BY <1>2 DEF FilesOK
  <2>2. NoInode \in 0 .. Len(before.data)
    <3>1. Len(before.data) \in Nat
      BY Tree DEF Many
    <3> QED BY <3>1 DEF NoInode
  <2> QED BY <1>1, <1>3, <2>1, <2>2
<1>5. Destination' = Destination /\ Destination \in Path /\ Destination[1] = "" /\ Dst # Destination
  <2>1. Destination' = Destination /\ Destination \in Path
    BY <1>1, ManyPaths DEF Destination
  <2>2. <<"", "d">>[1] = ""
    OBVIOUS
  <2>3. Destination[1] = ""
    BY <1>2, <2>2 DEF InDirectory
  <2> QED BY <1>3, <2>1, <2>3
<1>6. InDirectory'
  BY <1>1, <1>2, <1>4, <1>5 DEF InDirectory
<1>7. FilesOK' /\ OnlyOldLinks'
  BY <1>1, <1>2, <1>4 DEF FilesOK, OnlyOldLinks, SameFile
<1>8. Src' = Src /\ Dst' = Dst
  <2>1. Src' = Src
    BY <1>1 DEF Src
  <2>2. Target(Src)' = Target(Src)
    BY <1>1, <1>2, <1>3, <1>6, <2>1, SameDestination
  <2> QED BY <2>1, <2>2 DEF Dst
<1>9. InHand'
  BY <1>1, <1>2, <1>3, <1>4, <1>8 DEF InHand, IsDir
<1>10. Dirty = {} /\ Dirty' = {Dst}
  BY <1>1, <1>8 DEF Dirty
<1> QED BY <1>1, <1>2, <1>3, <1>4, <1>6, <1>7, <1>9, <1>10, ManyElsewhere DEF CpAt, Copies

LEMMA ManyOpen ==
  ASSUME Many, Copies, CpOpen
  PROVE  Copies'
<1>1. /\ copyAt = "open" /\ copyAt' = "read" /\ UNCHANGED <<called, sources, refused>>
      /\ before' = before /\ order' = order /\ rc' = 0 /\ offset' = 0
      /\ inode_in' = link[Src] /\ Truncate(Dst)
  BY DEF CpOpen, called
<1>2. InDirectory /\ FilesOK /\ InHand /\ OnlyOldLinks /\ sources \in Seq(Path) /\ sources # <<>>
  BY <1>1 DEF Copies, CpAt
<1>3. /\ Src \in Path /\ Dst \in Path /\ Dst[1] = "d"
      /\ link[Src] \in DOMAIN data /\ data[link[Src]] \in Seq(Nat)
      /\ link[Dst] # NoInode => link[Dst] \in DOMAIN data /\ data[link[Dst]] \in Seq(Nat)
  BY <1>2, InHandIsAFile
<1>4. /\ inode_out' \in DOMAIN data
      /\ \/ inode_out' = link[Dst] /\ link[Dst] # NoInode
         \/ \A p \in Path : link[p] # inode_out'
  <2>1. CASE link[Dst] = NoInode
    <3>1. Unused \in DOMAIN data /\ \A q \in Path : link[q] # Unused
      BY <1>2, <1>3, <2>1, AnInodeIsUnused DEF Many, FilesOK
    <3>2. inode_out' = Unused
      BY <1>1, <2>1 DEF Truncate
    <3> QED BY <3>1, <3>2
  <2>2. CASE link[Dst] # NoInode
    BY <1>1, <1>3, <2>2 DEF Truncate
  <2> QED BY <2>1, <2>2
<1>5. inode_out' \in 1 .. Len(before.data) /\ inode_out' # NoInode /\ Len(before.data) \in Nat
  <2>1. DOMAIN data = 1 .. Len(before.data) /\ Len(before.data) \in Nat
    BY <1>2, Tree DEF Many, FilesOK
  <2> QED BY <1>4, <2>1 DEF NoInode
<1>6. /\ link' \in [Path -> 0 .. Len(before.data)]
      /\ link'[Dst] = inode_out' /\ \A p \in Path : p # Dst => link'[p] = link[p]
  <2>1. link' = [link EXCEPT ![Dst] = inode_out']
    BY <1>1 DEF Truncate
  <2>2. link \in [Path -> 0 .. Len(before.data)] /\ inode_out' \in 0 .. Len(before.data)
    BY <1>2, <1>5 DEF FilesOK
  <2> QED BY <1>3, <2>1, <2>2
<1>7. /\ DOMAIN data' = DOMAIN data /\ data'[inode_out'] = <<>>
      /\ \A n \in DOMAIN data : n # inode_out' => data'[n] = data[n]
  <2>1. data' = [data EXCEPT ![inode_out'] = <<>>]
    BY <1>1 DEF Truncate
  <2> QED BY <1>4, <2>1
<1>8. <<>> \in Seq(Nat) /\ <<>> # Directory
  BY EmptySeq, DirectoryIsNoFile
<1>9. FilesOK'
  BY <1>1, <1>2, <1>6, <1>7, <1>8 DEF FilesOK
<1>10. OnlyOldLinks'
  <2> SUFFICES ASSUME NEW p \in Path, NEW q \in Path, link'[p] = link'[q], link'[p] # NoInode
               PROVE  SameFile(p, q)
    BY <1>1 DEF OnlyOldLinks, SameFile
  <2>1. CASE inode_out' = link[Dst] /\ link[Dst] # NoInode
    <3>1. link'[p] = link[p] /\ link'[q] = link[q]
      BY <1>6, <2>1
    <3> QED BY <1>2, <3>1 DEF OnlyOldLinks
  <2>2. CASE \A x \in Path : link[x] # inode_out'
    <3>1. p = q \/ (p # Dst /\ q # Dst)
      BY <1>6, <2>2
    <3>2. p # q => link'[p] = link[p] /\ link'[q] = link[q]
      BY <1>6, <3>1
    <3> QED BY <1>2, <3>2 DEF OnlyOldLinks, SameFile
  <2> QED BY <1>4, <2>1, <2>2
<1>11. \A p \in Path : link[p] # NoInode => link[p] \in DOMAIN data
  BY <1>2, LinksLead
<1>12. Destination' = Destination /\ Destination \in Path /\ Destination[1] = "" /\ Dst # Destination
  <2>1. Destination' = Destination /\ Destination \in Path
    BY <1>1, ManyPaths DEF Destination
  <2>2. <<"", "d">>[1] = ""
    OBVIOUS
  <2>3. Destination[1] = ""
    BY <1>2, <2>2 DEF InDirectory
  <2> QED BY <1>3, <2>1, <2>3
<1>13. InDirectory'
  <2>1. link'[Destination] = link[Destination]
    BY <1>6, <1>12
  <2>2. link[Destination] # inode_out'
    BY <1>2, <1>3, <1>4, <1>12, DirectoryIsNoFile DEF InDirectory
  <2> QED BY <1>2, <1>7, <1>11, <1>12, <2>1, <2>2 DEF InDirectory
<1>14. Src' = Src /\ Dst' = Dst
  <2>1. Src' = Src
    BY <1>1 DEF Src
  <2>2. Target(Src)' = Target(Src)
    BY <1>1, <1>2, <1>3, <1>13, <2>1, SameDestination
  <2> QED BY <2>1, <2>2 DEF Dst
<1>15. /\ link'[Src] = link[Src] /\ inode_in' # inode_out' /\ data'[link[Src]] = data[link[Src]]
  <2>1. Src # Dst
    BY <1>2, <1>3 DEF InHand
  <2>2. link[Src] # inode_out'
    BY <1>2, <1>3, <1>4 DEF InHand
  <2> QED BY <1>1, <1>3, <1>6, <1>7, <2>1, <2>2
<1>16. InHand'
  BY <1>1, <1>2, <1>3, <1>6, <1>7, <1>8, <1>14, <1>15 DEF InHand, IsDir
<1>17. CopyOpen'
  <2>1. Chunks'
    BY <1>1, <1>3, <1>7, <1>15, OpenChunks
  <2> QED BY <1>1, <1>5, <1>6, <1>14, <1>15, <2>1 DEF CopyOpen
<1>18. Dirty = {Dst} /\ Dirty' = {p \in Path : link'[p] = inode_out'}
  BY <1>1 DEF Dirty
<1>19. \A p \in Path : p \in Dirty' /\ p[1] = "" => SameFile(Dst, p)
  BY <1>2, <1>3, <1>4, <1>6, <1>18 DEF OnlyOldLinks
<1>20. \A p \in Path \ Dirty' :
         link'[p] = link[p] /\ (link[p] # NoInode => data'[link[p]] = data[link[p]])
  BY <1>6, <1>7, <1>11, <1>18
<1>21. Dirty \subseteq Dirty' /\ \A p \in Path : p[1] = "" => link'[p] = link[p]
  BY <1>3, <1>6, <1>18
<1> QED BY <1>1, <1>9, <1>10, <1>13, <1>16, <1>17, <1>19, <1>20, <1>21, ManyElsewhere DEF CpAt

LEMMA ManyWrite ==
  ASSUME Many, Copies, CpWrite
  PROVE  Copies'
<1>1. /\ copyAt = "write" /\ copyAt' \in {"read", "write"}
      /\ UNCHANGED <<link, called, sources, inode_in, inode_out, rc, refused>>
      /\ before' = before /\ order' = order
  BY DEF CpWrite, called
<1>2. /\ InDirectory /\ FilesOK /\ InHand /\ OnlyOldLinks /\ CopyOpen
      /\ sources \in Seq(Path) /\ sources # <<>> /\ rc \in {0, -1}
  BY <1>1 DEF Copies, CpAt
<1>3. /\ Src \in Path /\ Dst \in Path /\ Dst[1] = "d"
      /\ inode_in \in DOMAIN data /\ data[inode_in] \in Seq(Nat)
      /\ inode_out \in DOMAIN data /\ data[inode_out] \in Seq(Nat)
      /\ inode_in # inode_out /\ Chunks /\ link[Dst] = inode_out /\ inode_out # NoInode
      /\ inode_in = link[Src]
  BY <1>2, InHandIsAFile DEF CopyOpen, InHand
<1>4. PICK bytes \in Seq(Nat) : data' = [data EXCEPT ![inode_out] = bytes]
  BY <1>3, WriteChunks
<1>5. Chunks'
  BY <1>3, WriteChunks
<1>6. /\ DOMAIN data' = DOMAIN data /\ data'[inode_out] = bytes
      /\ \A n \in DOMAIN data : n # inode_out => data'[n] = data[n]
  BY <1>3, <1>4
<1>7. bytes # Directory
  BY DirectoryIsNoFile
<1>8. FilesOK' /\ OnlyOldLinks'
  BY <1>1, <1>2, <1>6 DEF FilesOK, OnlyOldLinks, SameFile
<1>9. \A p \in Path : link[p] # NoInode => link[p] \in DOMAIN data
  BY <1>2, LinksLead
<1>10. InDirectory'
  <2>1. Destination' = Destination /\ Destination \in Path
    BY <1>1, ManyPaths DEF Destination
  <2>2. link[Destination] # inode_out
    BY <1>2, <1>3, DirectoryIsNoFile DEF InDirectory
  <2> QED BY <1>1, <1>2, <1>6, <1>9, <2>1, <2>2 DEF InDirectory
<1>11. Src' = Src /\ Dst' = Dst
  <2>1. Src' = Src
    BY <1>1 DEF Src
  <2>2. Target(Src)' = Target(Src)
    BY <1>1, <1>2, <1>3, <1>10, <2>1, SameDestination
  <2> QED BY <2>1, <2>2 DEF Dst
<1>12. InHand'
  BY <1>1, <1>2, <1>3, <1>6, <1>7, <1>11 DEF InHand, IsDir
<1>13. CopyOpen'
  BY <1>1, <1>2, <1>5, <1>11 DEF CopyOpen
<1>14. Dirty = {p \in Path : link[p] = inode_out} /\ Dirty' = Dirty
  BY <1>1 DEF Dirty
<1>15. \A p \in Path : p \in Dirty' /\ p[1] = "" => SameFile(Dst, p)
  BY <1>2, <1>3, <1>14 DEF OnlyOldLinks
<1>16. \A p \in Path \ Dirty' :
         link'[p] = link[p] /\ (link[p] # NoInode => data'[link[p]] = data[link[p]])
  BY <1>1, <1>6, <1>9, <1>14
<1> QED BY <1>1, <1>2, <1>8, <1>10, <1>12, <1>13, <1>14, <1>15, <1>16, ManyElsewhere DEF CpAt

\* copy1 returns 0: what it wrote is a whole source, or the user keeps what is there.
LEMMA ManyReturn ==
  ASSUME Many, Copies, copyAt \in {"ask", "close"}, UNCHANGED <<fs, called>>, Return(0),
         rc' \in {0, -1}, refused \subseteq refused', Dst \in refused' \/ Settled(Dst),
         \A p \in Dirty : Whole(p) /\ Settled(p)
  PROVE  Copies'
<1>1. /\ InDirectory /\ Accounted /\ FilesOK /\ InHand /\ sources \in Seq(Path) /\ sources # <<>>
      /\ ToSet(sources) \subseteq Sources /\ OldNames /\ OnlyOldLinks
      /\ \A p \in Path \ Dirty : Whole(p)
  BY DEF Copies, CpAt
<1>2. /\ link' = link /\ data' = data /\ before' = before /\ order' = order
      /\ Sources' = Sources /\ (\A p : Target(p)' = Target(p))
      /\ \A p : (Whole(p)' <=> Whole(p)) /\ (Settled(p)' <=> Settled(p))
      /\ (FilesOK' <=> FilesOK) /\ (OldNames' <=> OldNames) /\ (OnlyOldLinks' <=> OnlyOldLinks)
      /\ (InDirectory' <=> InDirectory)
  BY SameManyFiles
<1>3. /\ sources' = Tail(sources)
      /\ \/ copyAt' = "done" /\ sources' = <<>>
         \/ copyAt' = "check" /\ sources' # <<>>
  BY DEF Return
<1>4. /\ sources' \in Seq(Path) /\ ToSet(sources') \subseteq ToSet(sources)
      /\ \A x \in ToSet(sources) : x = Src \/ x \in ToSet(sources')
      /\ Src \in Path /\ Src[1] = ""
  BY <1>1, <1>3, SourcesLeft, InHandIsAFile DEF Src, InHand
<1>5. Dirty' = {}
  BY <1>3 DEF Dirty
<1>6. Accounted'
  <2> SUFFICES ASSUME NEW s \in Sources, s \notin ToSet(sources')
               PROVE  s[1] = "" /\ (Target(s) \in refused' \/ Settled(Target(s)))
    BY <1>2 DEF Accounted
  <2>1. CASE s \in ToSet(sources)
    <3>1. s = Src /\ Target(s) = Dst
      BY <1>4, <2>1 DEF Dst
    <3> QED BY <1>4, <3>1
  <2>2. CASE s \notin ToSet(sources)
    BY <1>1, <2>2 DEF Accounted
  <2> QED BY <2>1, <2>2
<1>7. \A p \in Path : Whole(p)'
  BY <1>1, <1>2
<1> QED BY <1>1, <1>2, <1>3, <1>4, <1>5, <1>6, <1>7 DEF Copies, CpAt

LEMMA ManyClose ==
  ASSUME Many, Copies, status = 0, status' = 0, CpKeep \/ CpClose
  PROVE  Copies'
<1>1. CASE CpKeep
  <2>1. /\ copyAt = "ask" /\ UNCHANGED <<fs, called>> /\ Return(0) /\ rc' = rc
        /\ refused' = refused \cup {Dst}
    BY <1>1 DEF CpKeep, Return
  <2>2. Dirty = {} /\ rc \in {0, -1}
    BY <2>1 DEF Dirty, Copies
  <2> QED BY <2>1, <2>2, ManyReturn
<1>2. CASE CpClose
  <2>1. /\ copyAt = "close" /\ UNCHANGED <<fs, called, refused>> /\ rc' \in {rc, -1} /\ Return(rc')
    BY <1>2 DEF CpClose, Return
  <2>2. rc' = 0 /\ rc = 0
    BY <2>1 DEF Return, Copies
  <2>3. /\ InDirectory /\ FilesOK /\ InHand /\ OnlyOldLinks /\ CopyOpen /\ OldNames
        /\ sources \in Seq(Path) /\ sources # <<>> /\ ToSet(sources) \subseteq Sources
        /\ \A p \in Path \ Dirty : Whole(p)
    BY <2>1 DEF Copies, CpAt
  <2>4. /\ Src \in Path /\ Dst \in Path /\ Src \in Sources /\ Dst \in Targets
        /\ inode_in = link[Src] /\ inode_out = link[Dst] /\ inode_out # NoInode
        /\ inode_in # inode_out /\ Src[1] = "" /\ link[Src] # NoInode
    <3>1. Src \in Path /\ Dst \in Path /\ Src \in Sources
      BY <2>3, InHandIsAFile
    <3> QED BY <2>3, <3>1 DEF CopyOpen, InHand, Targets, Dst
  <2>5. data[inode_out] = data[inode_in]
    BY <2>1, <2>2, <2>3 DEF CopyOpen, Chunks
  <2>6. Dirty = {p \in Path : link[p] = inode_out}
    BY <2>1 DEF Dirty
  <2>7. /\ Now(Src) = Before(Src) \/ Overwritten(Src)
        /\ \E s \in Sources : Now(Src) = Before(s)
    <3>1. Whole(Src)
      BY <2>3, <2>4, <2>6
    <3> QED BY <2>3, <2>4, <3>1 DEF Whole, OldNames
  <2>8. ASSUME NEW p \in Dirty PROVE Whole(p) /\ Settled(p)
    <3>1. p \in Path /\ link[p] = inode_out
      BY <2>6
    <3>2. SameFile(Dst, p)
      BY <2>3, <2>4, <3>1 DEF OnlyOldLinks
    <3>3. Now(p) = Now(Src)
      BY <2>4, <2>5, <3>1 DEF Now, Content
    <3>4. Whole(p)
      BY <2>4, <2>7, <3>2, <3>3 DEF Whole
    <3>5. Target(Src) = Dst
      BY DEF Dst
    <3>6. Settled(p)
      BY <2>4, <2>7, <3>1, <3>2, <3>3, <3>5 DEF Settled
    <3> QED BY <3>4, <3>6
  <2>9. Dst \in Dirty
    BY <2>4, <2>6
  <2>10. refused' = refused /\ Return(0)
    BY <2>1, <2>2
  <2> QED BY <2>1, <2>2, <2>8, <2>9, <2>10, ManyReturn
<1> QED BY <1>1, <1>2

LEMMA ManyStepKeeps ==
  ASSUME Many, Copies, status = 0, status' = 0, CpStep \/ MmapNext
  PROVE  Copies'
<1>1. CASE CpStep
  <2>1. ~CpRefuses /\ ~CpOpenFails
    BY DEF CpRefuses, CpOpenFails, Return
  <2> QED BY <1>1, <2>1, ManyStart, ManyKeepFiles, ManyUnlink, ManyOpen, ManyWrite, ManyClose
          DEF CpStep
<1>2. CASE MmapNext
  <2>1. order.tool = "cp_mmap"
    BY <1>2 DEF MmapNext, MmapOpenFrom, MmapOpenTo, MmapResize, MmapCopy, MmapDone, MmapDies,
                MmapStep
  <2> QED BY <2>1, ManyPaths
<1> QED BY <1>1, <1>2

-----------------------------------------------------------------------------

LEMMA StatusStays ==
  ASSUME CpStep \/ MmapNext, status' = 0
  PROVE  status = 0
BY DEF CpStep, CpStart, CpRefuses, CpChecked, CpOverwrite, CpKeep, CpUnlink, CpOpenFails, CpOpen,
       CpRead, CpEndOfFile, CpWrite, CpFails, CpClose, CpGoes, Return, MmapNext, MmapOpenFrom,
       MmapOpenTo, MmapResize, MmapCopy, MmapDone, MmapDies, MmapStep

LEMMA CpStepKeeps ==
  ASSUME CpIInv, CpStep \/ MmapNext
  PROVE  CpIInv'
<1>1. /\ copyAt # "off" /\ UNCHANGED called
      /\ copyAt' \in {"start", "done"} \cup CpAt \cup MmapAt
  <2>1. CASE CpStep
    BY <2>1 DEF CpIInv, CpStep, CpStart, CpRefuses, CpChecked, CpOverwrite, CpKeep, CpUnlink,
      CpOpenFails, CpOpen, CpRead, CpEndOfFile, CpWrite, CpFails, CpClose, CpGoes, Return, CpAt
  <2>2. CASE MmapNext
    BY <2>2 DEF CpIInv, MmapNext, MmapOpenFrom, MmapOpenTo, MmapResize, MmapCopy, MmapDone,
      MmapDies, MmapStep, MmapAt
  <2> QED BY <2>1, <2>2
<1>2. before' = before /\ order' = order
  BY <1>1 DEF called
<1>3. ASSUME Len(order.paths) = 2 PROVE OneCopy'
  <2>1. OneSource /\ OneCopy
    BY <1>1, <1>3 DEF CpIInv, OneSource
  <2>2. CASE CpStep
    BY <2>1, <2>2, CpKeepsFiles, CpUnlinks, CpOpens, CpReads, CpWrites DEF CpStep
  <2>3. CASE MmapNext
    BY <2>1, <2>3, MmapKeepsFiles, MmapOpensTo, MmapWrites DEF MmapNext
  <2> QED BY <2>2, <2>3
<1>4. ASSUME Len(order.paths) > 2, status' = 0 PROVE Copies'
  <2>1. status = 0
    BY <1>4, StatusStays
  <2> QED BY <1>1, <1>4, <2>1, ManyStepKeeps DEF CpIInv, Many, Called
<1> QED BY <1>1, <1>2, <1>3, <1>4 DEF CpIInv, CpAt, MmapAt

LEMMA CpIInvHolds == CpSpec => []CpIInv
<1>1. CpInit => CpIInv
  BY DEF CpInit, CpIInv
<1>2. CpIInv /\ [CpNext]_cpVars => CpIInv'
  <2> SUFFICES ASSUME CpIInv, [CpNext]_cpVars PROVE CpIInv'
    OBVIOUS
  <2>1. ASSUME NEW tree \in Trees, NEW line \in Orders, CpCalled(tree, line) PROVE CpIInv'
    <3>1. Len(order'.paths) = 2 => OneCopy'
      BY <2>1, CpIsCalled
    <3>2. copyAt' = "start" /\ before' \in Trees /\ order' \in Orders
      BY <2>1 DEF CpCalled
    <3>3. Len(order'.paths) > 2 => Copies'
      BY <2>1, ManyAreCalled
    <3> QED BY <3>1, <3>2, <3>3 DEF CpIInv
  <2>2. CASE UNCHANGED cpVars
    <3>1. /\ UNCHANGED <<fs, called, copyAt, sources, inode_in, inode_out, offset, copyBuf>>
          /\ UNCHANGED <<rc, status, refused>> /\ before' = before /\ order' = order /\ data' = data
          /\ link' = link
      BY <2>2 DEF cpVars, copying, called, fs
    <3>2. ASSUME OneSource, OneCopy PROVE OneCopy'
      <4>1. /\ From' = From /\ Goal' = Goal /\ (Checked' <=> Checked) /\ (Untouched' <=> Untouched)
            /\ Target(From)' = Target(From) /\ Now(From)' = Now(From)
            /\ Before(From)' = Before(From) /\ (Opened' <=> Opened) /\ (Copied' <=> Copied)
        BY <3>1, <3>2, SameFiles
      <4>2. Chunks' <=> Chunks
        BY <3>1 DEF Chunks
      <4> QED BY <3>1, <3>2, <4>1, <4>2 DEF OneCopy
    <3>3. Copies => Copies'
      <4>1. Dirty' = Dirty /\ (InHand' <=> InHand)
        BY <3>1 DEF Dirty, InHand, Src, Dst, Target, Destination, IsDir
      <4>2. (CopyOpen' <=> CopyOpen) /\ sources' = sources /\ refused' = refused
        BY <3>1 DEF CopyOpen, Chunks, Src, Dst, Target, Destination, IsDir
      <4>3. Accounted' <=> Accounted
        BY <3>1, <4>1, <4>2, SameManyFiles DEF Accounted
      <4> QED BY <3>1, <4>1, <4>2, <4>3, SameManyFiles DEF Copies
    <3> QED BY <3>1, <3>2, <3>3 DEF CpIInv, OneSource
  <2> QED BY <2>1, <2>2, CpStepKeeps DEF CpNext
<1> QED BY <1>1, <1>2, PTL DEF CpSpec

\* A single source is as it was after every step of cp.
THEOREM SourceStaysSafe == CpSpec => []SourceIsSafe
<1>1. CpIInv => SourceIsSafe
  BY DEF CpIInv, OneCopy, SourceIsSafe, From
<1> QED BY <1>1, CpIInvHolds, PTL

LEMMA OneCopyIsTold ==
  ASSUME CpIInv, Len(order.paths) = 2, copyAt = "done", status = 0
  PROVE  CopiedOrSaid
<1>1. OneSource /\ OneCopy
  BY DEF CpIInv, OneSource
<1>2. /\ Sources = {From} /\ From \in Path /\ Goal \in Path
  BY <1>1, TwoPaths, TreeAtStart
<1>3. Targets = {Goal}
  BY <1>1, <1>2 DEF Targets, OneCopy
<1>4. CASE Copied /\ refused = {}
  <2>1. /\ link \in [Path -> 0 .. Len(before.data)] /\ inode_out \in DOMAIN before.data
        /\ \A p \in Path : before.link[p] # NoInode => before.link[p] \in DOMAIN before.data
        /\ inode_out # NoInode /\ link[Goal] = inode_out
        /\ \A p \in Path : p # Goal => link[p] = before.link[p]
    BY <1>1, <1>2, <1>4, TreeAtStart DEF Copied, Opened, NoInode
  <2>2. \A p \in Path : link[p] = inode_out => Now(p) = Before(From)
    BY <1>4, <2>1 DEF Copied, Opened, Now, Before, Content
  <2>3. \A p \in Path : link[p] # inode_out => Now(p) = Before(p)
    <3> SUFFICES ASSUME NEW p \in Path, link[p] # inode_out PROVE Now(p) = Before(p)
      OBVIOUS
    <3>1. link[p] = before.link[p]
      BY <2>1
    <3>2. link[p] # NoInode => data[link[p]] = before.data[link[p]]
      BY <1>4, <2>1, <3>1 DEF Copied, Opened
    <3> QED BY <3>1, <3>2 DEF Now, Before, Content
  <2>4. Now(Goal) = Now(From)
    <3>1. CASE From # Goal
      <4>1. link[From] # inode_out
        BY <1>2, <1>4, <2>1, <3>1 DEF Copied, Opened
      <4> QED BY <1>2, <2>1, <2>2, <2>3, <4>1
    <3> QED BY <3>1
  <2>5. \A p \in Path : link[p] = inode_out => SameFile(Goal, p)
    BY <1>4, <2>1 DEF Copied, Opened, SameFile
  <2>6. \A p \in Path : \/ Now(p) = Before(p)
                        \/ /\ \E t \in Targets : SameFile(t, p)
                           /\ \E s \in Sources : Now(p) = Before(s)
    BY <1>2, <1>3, <2>2, <2>3, <2>5
  <2>7. \A t \in Targets \ refused :
          /\ link[t] # NoInode
          /\ \E s \in Sources : SameFile(Target(s), t) /\ (Now(t) = Now(s) \/ Overwritten(s))
    BY <1>1, <1>2, <1>3, <2>1, <2>4 DEF OneCopy, SameFile
  <2> QED BY <2>6, <2>7 DEF CopiedOrSaid
<1>5. CASE Untouched /\ refused = {Goal}
  BY <1>3, <1>5 DEF CopiedOrSaid, Untouched, Now, Before, Content
<1> QED BY <1>1, <1>4, <1>5 DEF OneCopy

LEMMA CopiesAreTold ==
  ASSUME CpIInv, Len(order.paths) > 2, copyAt = "done", status = 0
  PROVE  CopiedOrSaid
<1>1. Many /\ InDirectory /\ Accounted /\ OldNames /\ sources = <<>>
  BY DEF CpIInv, Many, Called, Copies
<1>2. Dirty = {} /\ \A p \in Path : Whole(p)
  BY DEF CpIInv, Copies, Dirty
<1>3. ToSet(sources) = {}
  <2>1. DOMAIN <<>> = {}
    BY EmptySeq
  <2> QED BY <1>1, <2>1 DEF ToSet
<1>4. ASSUME NEW s \in Sources
      PROVE  /\ s[1] = "" /\ (Target(s) \in refused \/ Settled(Target(s)))
             /\ Now(s) = Before(s) \/ Overwritten(s)
  <2>1. s[1] = "" /\ (Target(s) \in refused \/ Settled(Target(s)))
    BY <1>1, <1>2, <1>3 DEF Accounted
  <2> QED BY <1>1, <2>1, ManyPaths DEF OldNames
<1>5. ASSUME NEW t \in Targets \ refused
      PROVE  /\ link[t] # NoInode
             /\ \E s \in Sources : SameFile(Target(s), t) /\ (Now(t) = Now(s) \/ Overwritten(s))
  <2>1. Settled(t)
    BY <1>4 DEF Targets
  <2> QED BY <1>4, <2>1 DEF Settled
<1> QED BY <1>2, <1>5 DEF CopiedOrSaid, Whole

\* Exit status 0 is the truth, for one source and for many, whatever links there are
\* between sources and destinations and whatever fails: what has changed holds all of a
\* source, and what was to be copied is there, or the user kept what was.
THEOREM ExitStatusIsTrue == CpSpec => []CopiedOrSaid
<1>1. ASSUME CpIInv, copyAt = "done", status = 0 PROVE CopiedOrSaid
  <2>1. before \in Trees /\ order \in Orders
    BY <1>1 DEF CpIInv
  <2>2. Len(order.paths) = 2 \/ Len(order.paths) > 2
    <3>1. order.paths \in Seq(Path) /\ Len(order.paths) >= 2
      BY <2>1, CopyFileAssumption
    <3>2. Len(order.paths) \in Nat
      BY <3>1, LenProperties
    <3>3. ASSUME NEW m \in Nat, m >= 2 PROVE m = 2 \/ m > 2
      BY <3>3
    <3> QED BY <3>1, <3>2, <3>3
  <2> QED BY <1>1, <2>2, OneCopyIsTold, CopiesAreTold
<1>2. CpIInv => CopiedOrSaid
  BY <1>1 DEF CopiedOrSaid
<1> QED BY <1>2, CpIInvHolds, PTL

-----------------------------------------------------------------------------
(* myshell *)

\* The length of a sequence that is given place by place.
LEMMA LengthOfList ==
  ASSUME NEW n \in Nat, NEW s, DOMAIN s = 1 .. n, s = [k \in 1 .. n |-> s[k]]
  PROVE  s \in Seq({s[k] : k \in 1 .. n}) /\ Len(s) = n
<1> DEFINE T == {s[k] : k \in 1 .. n}
<1>1. s \in [1 .. n -> T]
  OBVIOUS
<1> HIDE DEF T
<1>2. s \in Seq(T)
  BY <1>1, SeqDef
<1> QED BY <1>1, <1>2, LenProperties DEF T

-----------------------------------------------------------------------------
(* Places in their order *)

\* Places that are given from left to right.
Increasing(f, n) == \A j, k \in 1 .. n : j < k => f[j] < f[k]

\* As many places as there are numbers.
LEMMA CountOfPlaces ==
  ASSUME NEW n \in Nat, NEW f \in [1 .. n -> Nat], Increasing(f, n), NEW m \in 0 .. n
  PROVE  Cardinality({f[k] : k \in 1 .. m}) = m
<1> DEFINE S == {f[k] : k \in 1 .. m}
           g == [k \in 1 .. m |-> f[k]]
<1>1. IsFiniteSet(1 .. m) /\ Cardinality(1 .. m) = m
  BY FS_Interval
<1>2. g \in [1 .. m -> S]
  OBVIOUS
<1>3. \A j, k \in 1 .. m : g[j] = g[k] => j = k
  <2> SUFFICES ASSUME NEW j \in 1 .. m, NEW k \in 1 .. m, f[j] = f[k], j # k PROVE FALSE
    OBVIOUS
  <2>1. f[j] \in Nat /\ f[k] \in Nat
    OBVIOUS
  <2>2. f[j] < f[k] \/ f[k] < f[j]
    BY DEF Increasing
  <2> QED BY <2>1, <2>2
<1>4. \A x \in S : \E k \in 1 .. m : g[k] = x
  OBVIOUS
<1>5. g \in Bijection(1 .. m, S)
  <2> HIDE DEF S, g
  <2> QED BY <1>2, <1>3, <1>4 DEF Bijection, Injection, Surjection, IsInjective
<1> HIDE DEF S, g
<1>6. Cardinality(S) = Cardinality(1 .. m)
  BY <1>1, <1>5, FS_Bijection DEF ExistsBijection
<1> QED BY <1>1, <1>6 DEF S

\* InOrder undoes the taking of a set: increasing places come out as they were.
LEMMA InOrderIs ==
  ASSUME NEW n \in Nat, NEW f \in [1 .. n -> Nat], Increasing(f, n)
  PROVE  /\ Cardinality({f[k] : k \in 1 .. n}) = n
         /\ InOrder({f[k] : k \in 1 .. n}) = f
<1> DEFINE S == {f[k] : k \in 1 .. n}
<1>1. Cardinality(S) = n
  BY CountOfPlaces
<1>2. ASSUME NEW k \in 1 .. n
      PROVE  Cardinality({q \in S : q < f[k]}) = k - 1
  <2>1. {q \in S : q < f[k]} = {f[j] : j \in 1 .. k - 1}
    <3>1. ASSUME NEW j \in 1 .. n PROVE f[j] < f[k] <=> j < k
      <4>1. f[j] \in Nat /\ f[k] \in Nat
        OBVIOUS
      <4>2. j < k => f[j] < f[k]
        BY DEF Increasing
      <4>3. k < j => f[k] < f[j]
        BY DEF Increasing
      <4> QED BY <4>1, <4>2, <4>3
    <3>2. 1 .. k - 1 = {j \in 1 .. n : j < k}
      OBVIOUS
    <3> QED BY <3>1, <3>2
  <2>2. k - 1 \in 0 .. n
    OBVIOUS
  <2> QED BY <2>1, <2>2, CountOfPlaces
<1>3. ASSUME NEW k \in 1 .. n
      PROVE  (CHOOSE p \in S : Cardinality({q \in S : q < p}) = k - 1) = f[k]
  <2>1. f[k] \in S
    OBVIOUS
  <2>2. ASSUME NEW p \in S, Cardinality({q \in S : q < p}) = k - 1 PROVE p = f[k]
    <3>1. PICK j \in 1 .. n : p = f[j]
      BY <2>2
    <3>2. j - 1 = k - 1
      BY <1>2, <2>2, <3>1
    <3> QED BY <3>1, <3>2
  <2> HIDE DEF S
  <2> QED BY <1>2, <2>1, <2>2
<1> HIDE DEF S
<1>4. InOrder(S) = [k \in 1 .. n |-> f[k]]
  BY <1>1, <1>3 DEF InOrder
<1> QED BY <1>1, <1>4 DEF S

-----------------------------------------------------------------------------
(* One redirection *)

\* A line as the parser holds it: an array of m characters.
IsLine(line, m) ==
  m \in Nat /\ Len(line) = m /\ line = [k \in 1 .. m |-> line[k]]

\* An array that is given place by place is a line.
LEMMA ListIsLine ==
  ASSUME NEW m \in Nat, NEW s, s = [k \in 1 .. m |-> s[k]]
  PROVE  IsLine(s, m)
BY LengthOfList DEF IsLine

\* The first of some characters is where there is none of them before it.
LEMMA FindIs ==
  ASSUME NEW line, NEW m, IsLine(line, m), NEW chars, NEW at \in Nat, NEW k \in at .. m,
         line[k] \in chars, \A j \in at .. k - 1 : line[j] \notin chars
  PROVE  Find(line, at, chars) = k
<1> DEFINE F(x) == line[x] \in chars /\ \A j \in at .. x - 1 : line[j] \notin chars
<1>1. Len(line) = m /\ m \in Nat
  BY DEF IsLine
<1>2. ASSUME NEW x \in at .. m, F(x) PROVE x = k
  <2>1. ~ (k \in at .. x - 1) /\ ~ (x \in at .. k - 1)
    BY <1>2
  <2> QED BY <1>1, <2>1
<1>3. F(k)
  OBVIOUS
<1> HIDE DEF F
<1>4. (CHOOSE x \in at .. m : F(x)) = k
  BY <1>2, <1>3
<1> QED BY <1>1, <1>4 DEF Find, F

-----------------------------------------------------------------------------
(* Names *)

\* A line that was typed: NULs in its last two places and nowhere else.
IsText(B, m) ==
  /\ IsLine(B, m) /\ m >= 2
  /\ B[m - 1] = NUL /\ B[m] = NUL
  /\ \A k \in 1 .. m - 2 : B[k] # NUL

\* Its places, and where the NULs are.
LEMMA TextFacts ==
  ASSUME NEW B, NEW m, IsText(B, m)
  PROVE  /\ m \in Nat /\ m >= 2 /\ Len(B) = m /\ DOMAIN B = 1 .. m
         /\ \A k \in 1 .. m : B[k] = NUL <=> k >= m - 1
<1>1. m \in Nat /\ Len(B) = m /\ DOMAIN B = 1 .. m
  BY DEF IsText, IsLine
<1>2. ASSUME NEW k \in 1 .. m, k >= m - 1 PROVE B[k] = NUL
  <2>1. k = m - 1 \/ k = m
    BY <1>1, <1>2
  <2> QED BY <2>1 DEF IsText
<1>3. ASSUME NEW k \in 1 .. m, ~ (k >= m - 1) PROVE B[k] # NUL
  <2>1. k \in 1 .. m - 2
    BY <1>1, <1>3
  <2> QED BY <2>1 DEF IsText
<1> QED BY <1>1, <1>2, <1>3 DEF IsText

\* Where the name begins is the first place that is no blank.
LEMMA BeginIs ==
  ASSUME NEW line, NEW m, IsLine(line, m), NEW at \in Nat, NEW k \in at + 1 .. m,
         line[k] # Blank, \A j \in at + 1 .. k - 1 : line[j] = Blank
  PROVE  (CHOOSE x \in at + 1 .. Len(line) :
            line[x] # Blank /\ \A j \in at + 1 .. x - 1 : line[j] = Blank) = k
<1> DEFINE F(x) == line[x] # Blank /\ \A j \in at + 1 .. x - 1 : line[j] = Blank
<1>1. Len(line) = m /\ m \in Nat
  BY DEF IsLine
<1>2. ASSUME NEW x \in at + 1 .. m, F(x) PROVE x = k
  <2>1. ~ (k \in at + 1 .. x - 1) /\ ~ (x \in at + 1 .. k - 1)
    BY <1>2
  <2> QED BY <1>1, <2>1
<1>3. F(k)
  OBVIOUS
<1> HIDE DEF F
<1>4. (CHOOSE x \in at + 1 .. m : F(x)) = k
  BY <1>2, <1>3
<1> QED BY <1>1, <1>4 DEF F

NameEnds(c) == {NUL, Blank, "|"} \cup ({"<", ">"} \ {c})

\* Where a name begins and ends.
LEMMA NameIs ==
  ASSUME NEW B, NEW m, IsText(B, m), NEW p \in 1 .. m, B[p] \in {"<", ">"}
  PROVE  LET b == NameBegin(B, p)
             e == NameEnd(B, p)
         IN  /\ p \in 1 .. m - 2 /\ b \in p + 1 .. m - 1 /\ e \in b .. m - 1
             /\ B[b] # Blank /\ \A j \in p + 1 .. b - 1 : B[j] = Blank
             /\ B[e] \in NameEnds(B[p]) /\ \A j \in b .. e - 1 : B[j] \notin NameEnds(B[p])
<1>1. m \in Nat /\ m >= 2 /\ Len(B) = m /\ IsLine(B, m) /\ B[m - 1] = NUL
  BY TextFacts DEF IsText
<1>2. p \in 1 .. m - 2
  <2>1. B[p] # NUL
    BY DEF NUL
  <2> QED BY <1>1, <2>1, TextFacts
<1> DEFINE K == {k \in p + 1 .. m - 1 : B[k] # Blank}
<1>3. PICK b \in K : \A j \in K : b <= j
  <2>1. m - 1 \in K
    <3>1. m - 1 \in p + 1 .. m - 1
      BY <1>1, <1>2
    <3>2. B[m - 1] # Blank
      BY <1>1 DEF NUL, Blank
    <3> QED BY <3>1, <3>2
  <2>2. K \in SUBSET Nat
    BY <1>1, <1>2
  <2> HIDE DEF K
  <2> QED BY <2>1, <2>2, Least
<1>4. b \in p + 1 .. m - 1 /\ B[b] # Blank /\ \A j \in p + 1 .. b - 1 : B[j] = Blank
  <2>1. b \in p + 1 .. m - 1 /\ B[b] # Blank
    BY <1>3
  <2>2. ASSUME NEW j \in p + 1 .. b - 1, B[j] # Blank PROVE FALSE
    <3>1. j \in p + 1 .. m - 1
      BY <1>1, <1>2, <2>1
    <3>2. b <= j
      BY <1>3, <2>2, <3>1
    <3> QED BY <1>2, <2>1, <2>2, <3>2
  <2> QED BY <2>1, <2>2
<1> HIDE DEF K
<1>5. NameBegin(B, p) = b
  <2>1. p \in Nat /\ b \in p + 1 .. m
    BY <1>1, <1>2, <1>4
  <2>2. (CHOOSE x \in p + 1 .. Len(B) : B[x] # Blank /\ \A j \in p + 1 .. x - 1 : B[j] = Blank) = b
    BY <1>1, <1>4, <2>1, BeginIs
  <2> QED BY <2>2 DEF NameBegin
<1> DEFINE marks == NameEnds(B[p])
           L == {k \in b .. m - 1 : B[k] \in marks}
<1>6. PICK e \in L : \A j \in L : e <= j
  <2>1. m - 1 \in L
    BY <1>1, <1>4 DEF NameEnds
  <2>2. L \in SUBSET Nat
    BY <1>1, <1>2, <1>4
  <2> HIDE DEF L
  <2> QED BY <2>1, <2>2, Least
<1>7. e \in b .. m - 1 /\ B[e] \in marks /\ \A j \in b .. e - 1 : B[j] \notin marks
  <2>1. e \in b .. m - 1 /\ B[e] \in marks
    BY <1>6
  <2>2. ASSUME NEW j \in b .. e - 1, B[j] \in marks PROVE FALSE
    <3>1. j \in b .. m - 1
      BY <1>1, <1>4, <2>1
    <3>2. e <= j
      BY <1>6, <2>2, <3>1
    <3> QED BY <1>4, <2>1, <2>2, <3>2
  <2> QED BY <2>1, <2>2
<1> HIDE DEF L
<1>8. NameEnd(B, p) = e
  <2>1. b \in Nat /\ e \in b .. m
    BY <1>1, <1>2, <1>4, <1>7
  <2>2. Find(B, b, marks) = e
    <3> HIDE DEF marks
    <3> QED BY <1>1, <1>7, <2>1, FindIs
  <2> QED BY <1>5, <2>2 DEF NameEnd, NameEnds
<1> QED BY <1>2, <1>4, <1>5, <1>7, <1>8

-----------------------------------------------------------------------------
(* Redirections *)

Begins(B, found, k) ==
  B[k] \in {"<", ">"} /\ \A p \in found : B[p] = B[k] => NameEnd(B, p) <= k

RedirectionsUpTo(f, B, m) ==
  f = [k \in 0 .. m |-> IF k = 0 THEN {}
                        ELSE IF Begins(B, f[k - 1], k) THEN f[k - 1] \cup {k} ELSE f[k - 1]]

\* The recursion of Redirections defines a function.
LEMMA RedirectionsExist ==
  ASSUME NEW B, NEW m \in Nat PROVE \E f : RedirectionsUpTo(f, B, m)
<1> DEFINE T == {k \in Nat : ~ \E f : RedirectionsUpTo(f, B, k)}
           Step(g, j) == IF Begins(B, g[j - 1], j) THEN g[j - 1] \cup {j} ELSE g[j - 1]
<1> SUFFICES ASSUME T # {} PROVE FALSE
  OBVIOUS
<1>1. PICK k \in T : \A j \in T : k <= j
  BY Least
<1>2. CASE k = 0
  <2> DEFINE f == [j \in 0 .. 0 |-> {}]
  <2>1. RedirectionsUpTo(f, B, 0)
    BY DEF RedirectionsUpTo
  <2> HIDE DEF f
  <2> QED BY <1>1, <1>2, <2>1
<1>3. CASE k # 0
  <2>1. k - 1 \in Nat /\ k - 1 \notin T
    BY <1>1, <1>3
  <2>2. PICK g : RedirectionsUpTo(g, B, k - 1)
    BY <2>1
  <2> DEFINE f == [j \in 0 .. k |-> IF j # k THEN g[j] ELSE Step(g, k)]
  <2>3. \A j \in 0 .. k - 1 : g[j] = IF j = 0 THEN {} ELSE Step(g, j)
    BY <2>1, <2>2 DEF RedirectionsUpTo
  <2>4. ASSUME NEW j \in 0 .. k PROVE f[j] = IF j = 0 THEN {} ELSE Step(f, j)
    <3>1. CASE j = k
      <4>1. f[k - 1] = g[k - 1]
        BY <2>1
      <4> QED BY <1>3, <3>1, <4>1
    <3>2. CASE j # k
      <4>1. j \in 0 .. k - 1 /\ f[j] = g[j] /\ (j # 0 => f[j - 1] = g[j - 1])
        BY <1>1, <3>2
      <4> QED BY <2>3, <4>1
    <3> QED BY <3>1, <3>2
  <2>5. f = [j \in 0 .. k |-> f[j]]
    OBVIOUS
  <2> HIDE DEF f
  <2>6. RedirectionsUpTo(f, B, k)
    BY <2>4, <2>5 DEF RedirectionsUpTo
  <2> QED BY <1>1, <2>6
<1> QED BY <1>2, <1>3

\* A redirection is a < or a > in no name of the same one before it.
LEMMA RedirectionsAre ==
  ASSUME NEW B, NEW m, IsText(B, m)
  PROVE  LET S == Redirections(B)
         IN  \A k : k \in S <=> k \in 1 .. m /\ Begins(B, {p \in S : p < k}, k)
<1>1. m \in Nat /\ Len(B) = m
  BY TextFacts
<1>2. PICK f : RedirectionsUpTo(f, B, m) /\ Redirections(B) = f[m]
  <2> DEFINE f == CHOOSE f : RedirectionsUpTo(f, B, m)
  <2>1. RedirectionsUpTo(f, B, m)
    BY <1>1, RedirectionsExist
  <2>2. Redirections(B) = f[m]
    BY <1>1 DEF Redirections, RedirectionsUpTo, Begins
  <2> QED BY <2>1, <2>2
<1>3. /\ f[0] = {}
      /\ \A k \in 1 .. m : f[k] = IF Begins(B, f[k - 1], k) THEN f[k - 1] \cup {k} ELSE f[k - 1]
  <2>1. \A k \in 0 .. m : f[k] = IF k = 0 THEN {} ELSE IF Begins(B, f[k - 1], k)
                                                     THEN f[k - 1] \cup {k} ELSE f[k - 1]
    BY <1>2 DEF RedirectionsUpTo
  <2>2. 0 \in 0 .. m /\ \A k \in 1 .. m : k \in 0 .. m /\ k # 0
    BY <1>1
  <2> QED BY <2>1, <2>2
<1> DEFINE Good(k) == /\ f[k] \subseteq 1 .. k
                      /\ \A j \in 0 .. k : f[j] = {p \in f[k] : p <= j}
           T == {k \in 0 .. m : ~ Good(k)}
<1>4. Good(0)
  BY <1>3
<1>5. ASSUME NEW k \in 1 .. m, Good(k - 1) PROVE Good(k)
  <2>1. f[k] = f[k - 1] \cup {k} \/ f[k] = f[k - 1]
    BY <1>3
  <2>2. f[k] \subseteq 1 .. k
    BY <1>5, <2>1
  <2>3. ASSUME NEW j \in 0 .. k PROVE f[j] = {p \in f[k] : p <= j}
    <3>1. CASE j = k
      BY <2>2, <3>1
    <3>2. CASE j # k
      <4>1. j \in 0 .. k - 1 /\ j < k
        BY <3>2
      <4>2. f[j] = {p \in f[k - 1] : p <= j}
        BY <1>5, <4>1
      <4>3. \A p \in f[k] : p <= j => p \in f[k - 1]
        BY <2>1, <4>1
      <4> QED BY <2>1, <4>2, <4>3
    <3> QED BY <3>1, <3>2
  <2> QED BY <2>2, <2>3
<1> HIDE DEF Good
<1>6. \A k \in 0 .. m : Good(k)
  <2> SUFFICES ASSUME T # {} PROVE FALSE
    OBVIOUS
  <2>1. PICK k \in T : \A j \in T : k <= j
    <3>1. T \in SUBSET Nat
      BY <1>1
    <3> HIDE DEF T
    <3> QED BY <3>1, Least
  <2>2. k # 0
    BY <1>4, <2>1
  <2>3. k \in 1 .. m /\ k - 1 \in 0 .. m /\ k - 1 \notin T
    BY <1>1, <2>1, <2>2
  <2> QED BY <1>5, <2>1, <2>3
<1>7. f[m] \subseteq 1 .. m /\ \A j \in 0 .. m : f[j] = {p \in f[m] : p <= j}
  BY <1>1, <1>6 DEF Good
<1>8. ASSUME NEW k \in 1 .. m PROVE k \in f[m] <=> Begins(B, {p \in f[m] : p < k}, k)
  <2>1. f[k - 1] = {p \in f[m] : p < k}
    <3>1. k - 1 \in 0 .. m /\ f[k - 1] = {p \in f[m] : p <= k - 1}
      BY <1>1, <1>7
    <3>2. \A p \in 1 .. m : p <= k - 1 <=> p < k
      BY <1>1
    <3>3. f[m] \subseteq 1 .. m
      BY <1>7
    <3> QED BY <3>1, <3>2, <3>3
  <2>2. k \in f[m] <=> k \in f[k]
    BY <1>7
  <2>3. k \notin f[k - 1]
    BY <2>1
  <2>4. f[k] = IF Begins(B, f[k - 1], k) THEN f[k - 1] \cup {k} ELSE f[k - 1]
    BY <1>3
  <2>5. k \in f[k] <=> Begins(B, f[k - 1], k)
    BY <2>3, <2>4
  <2> QED BY <2>1, <2>2, <2>5
<1> QED BY <1>2, <1>7, <1>8

\* The redirections follow one another, each with its name; a < or > that is none is
\* in the name of one; and no name reaches beyond a bar.
LEMMA RedirectionFacts ==
  ASSUME NEW B, NEW m, IsText(B, m)
  PROVE  LET S == Redirections(B)
         IN  /\ \A p \in S : /\ p \in 1 .. m - 2 /\ B[p] \in {"<", ">"}
                             /\ NameBegin(B, p) \in p + 1 .. m - 1
                             /\ NameEnd(B, p) \in NameBegin(B, p) .. m - 1
             /\ \A p, q \in S : p < q => NameEnd(B, p) <= q
             /\ \A k \in 1 .. m : B[k] \in {"<", ">"} /\ k \notin S =>
                  \E p \in S : p < k /\ NameBegin(B, p) <= k /\ k < NameEnd(B, p)
             /\ \A p \in S, x \in 1 .. m : B[x] = "|" /\ p < x => NameEnd(B, p) <= x
<1> DEFINE S == Redirections(B)
<1>1. /\ m \in Nat
      /\ \A k : k \in S <=> k \in 1 .. m /\ Begins(B, {p \in S : p < k}, k)
  BY TextFacts, RedirectionsAre
<1> HIDE DEF S
<1>2. ASSUME NEW p \in S
      PROVE  /\ p \in 1 .. m - 2 /\ B[p] \in {"<", ">"}
             /\ NameBegin(B, p) \in p + 1 .. m - 1
             /\ NameEnd(B, p) \in NameBegin(B, p) .. m - 1
             /\ \A j \in p + 1 .. NameBegin(B, p) - 1 : B[j] = Blank
             /\ \A j \in NameBegin(B, p) .. NameEnd(B, p) - 1 : B[j] \notin NameEnds(B[p])
  <2>1. p \in 1 .. m /\ B[p] \in {"<", ">"}
    BY <1>1 DEF Begins
  <2> QED BY <2>1, NameIs
<1>3. ASSUME NEW p \in S, NEW k \in 1 .. m, p < k, k < NameEnd(B, p),
             B[k] \notin {Blank, B[p]}
      PROVE  B[k] \notin {"<", ">", "|"}
  <2>1. /\ p \in Nat /\ NameBegin(B, p) \in Nat /\ NameEnd(B, p) \in Nat
        /\ k \in p + 1 .. NameBegin(B, p) - 1 \/ k \in NameBegin(B, p) .. NameEnd(B, p) - 1
    BY <1>1, <1>2, <1>3
  <2>2. B[k] \notin NameEnds(B[p])
    BY <1>2, <1>3, <2>1
  <2> QED BY <1>3, <2>2 DEF NameEnds
<1>4. ASSUME NEW p \in S, NEW q \in S, p < q PROVE NameEnd(B, p) <= q
  <2>1. /\ p \in Nat /\ q \in 1 .. m /\ NameEnd(B, p) \in Nat /\ B[q] \in {"<", ">"}
    BY <1>1, <1>2
  <2>2. CASE B[p] = B[q]
    BY <1>1, <1>4, <2>2 DEF Begins
  <2>3. CASE B[p] # B[q]
    <3>1. B[q] \notin {Blank, B[p]}
      BY <2>1, <2>3 DEF Blank
    <3> QED BY <1>3, <1>4, <2>1, <3>1
  <2> QED BY <2>2, <2>3
<1>5. ASSUME NEW k \in 1 .. m, B[k] \in {"<", ">"}, k \notin S
      PROVE  \E p \in S : p < k /\ NameBegin(B, p) <= k /\ k < NameEnd(B, p)
  <2>1. PICK p \in S : p < k /\ B[p] = B[k] /\ ~ (NameEnd(B, p) <= k)
    BY <1>1, <1>5 DEF Begins
  <2>2. /\ p \in Nat /\ NameBegin(B, p) \in Nat /\ NameEnd(B, p) \in Nat
    BY <1>1, <1>2
  <2>3. B[k] # Blank
    BY <1>5 DEF Blank
  <2>4. ~ (k \in p + 1 .. NameBegin(B, p) - 1)
    BY <1>2, <2>3
  <2> QED BY <2>1, <2>2, <2>4
<1>6. ASSUME NEW p \in S, NEW x \in 1 .. m, B[x] = "|", p < x PROVE NameEnd(B, p) <= x
  <2>1. /\ p \in Nat /\ NameEnd(B, p) \in Nat /\ B[p] \in {"<", ">"}
    BY <1>1, <1>2
  <2>2. B[x] \notin {Blank, B[p]}
    BY <1>6, <2>1 DEF Blank
  <2> QED BY <1>3, <1>6, <2>1, <2>2
<1> QED BY <1>2, <1>4, <1>5, <1>6 DEF S

-----------------------------------------------------------------------------
(* One redirection *)

\* The places that the redirection at p overwrites.
Lost(B, p, k) ==
  k \in p .. NameBegin(B, p) - 1 \/ (k = NameEnd(B, p) /\ B[k] \notin {"<", ">"})

\* Where the search goes on behind it.
Behind(B, p) == IF B[NameEnd(B, p)] \in {"<", ">"} THEN NameEnd(B, p) ELSE NameEnd(B, p) + 1

\* The line when all bars are gone and the redirections before x are taken out.
CutUpTo(B, m, x) ==
  [k \in 1 .. m |-> IF B[k] = "|" \/ \E p \in Redirections(B) : p < x /\ Lost(B, p, k)
                    THEN NUL ELSE B[k]]

\* Nothing of the redirections before x is at x or behind it.
Boundary(B, x) == \A p \in Redirections(B) : p < x => Behind(B, p) <= x

\* It is as long as it was.
LEMMA CutUpToIsLine ==
  ASSUME NEW B, NEW m \in Nat, NEW x PROVE IsLine(CutUpTo(B, m, x), m)
<1>1. CutUpTo(B, m, x) = [k \in 1 .. m |-> CutUpTo(B, m, x)[k]]
  BY DEF CutUpTo
<1> QED BY <1>1, ListIsLine

\* At a boundary and behind it only the bars are gone.
LEMMA Ahead ==
  ASSUME NEW B, NEW m, IsText(B, m), NEW x \in Nat, Boundary(B, x), NEW k \in 1 .. m, x <= k
  PROVE  CutUpTo(B, m, x)[k] = IF B[k] = "|" THEN NUL ELSE B[k]
<1>1. ASSUME NEW p \in Redirections(B), p < x PROVE ~ Lost(B, p, k)
  <2>1. /\ p \in Nat /\ NameBegin(B, p) \in Nat /\ NameEnd(B, p) \in Nat
        /\ NameBegin(B, p) <= NameEnd(B, p)
    BY RedirectionFacts, TextFacts
  <2>2. Behind(B, p) <= x
    BY <1>1 DEF Boundary
  <2>3. NameEnd(B, p) <= x
    BY <2>1, <2>2 DEF Behind
  <2>4. ~ (k \in p .. NameBegin(B, p) - 1)
    BY <2>1, <2>3
  <2>5. k = NameEnd(B, p) => B[k] \in {"<", ">"}
    BY <2>1, <2>2 DEF Behind
  <2> QED BY <2>4, <2>5 DEF Lost
<1> QED BY <1>1 DEF CutUpTo

\* At a boundary a < or a > is a redirection.
LEMMA BeginsThere ==
  ASSUME NEW B, NEW m, IsText(B, m), NEW x \in 1 .. m, Boundary(B, x), B[x] \in {"<", ">"}
  PROVE  x \in Redirections(B)
<1> SUFFICES ASSUME x \notin Redirections(B) PROVE FALSE
  OBVIOUS
<1>1. PICK p \in Redirections(B) : p < x /\ x < NameEnd(B, p)
  BY RedirectionFacts
<1>2. NameEnd(B, p) \in Nat /\ Behind(B, p) <= x
  BY <1>1, RedirectionFacts, TextFacts DEF Boundary
<1> QED BY <1>1, <1>2 DEF Behind

\* What comes behind a redirection.
LEMMA BehindIs ==
  ASSUME NEW B, NEW m, IsText(B, m), NEW x \in Redirections(B), Boundary(B, x)
  PROVE  /\ x \in 1 .. m /\ Behind(B, x) \in x + 1 .. m
         /\ \A q \in Redirections(B) : q < Behind(B, x) <=> q < x \/ q = x
         /\ Boundary(B, Behind(B, x))
         /\ \A k \in x .. Behind(B, x) - 1 : k \notin Stops(B)
<1>1. /\ m \in Nat /\ x \in 1 .. m - 2 /\ NameBegin(B, x) \in x + 1 .. m - 1
      /\ NameEnd(B, x) \in NameBegin(B, x) .. m - 1 /\ DOMAIN B = 1 .. m
  BY RedirectionFacts, TextFacts
<1>2. Behind(B, x) \in x + 1 .. m /\ NameEnd(B, x) <= Behind(B, x)
      /\ Behind(B, x) <= NameEnd(B, x) + 1
  BY <1>1 DEF Behind
<1>3. ASSUME NEW q \in Redirections(B) PROVE q < Behind(B, x) <=> q < x \/ q = x
  <2>1. q \in Nat /\ B[q] \in {"<", ">"}
    BY RedirectionFacts, TextFacts
  <2>2. ASSUME x < q PROVE Behind(B, x) <= q
    <3>1. NameEnd(B, x) <= q
      BY <2>2, RedirectionFacts
    <3>2. q = NameEnd(B, x) => Behind(B, x) = q
      BY <2>1 DEF Behind
    <3> QED BY <1>1, <1>2, <2>1, <3>1, <3>2
  <2> QED BY <1>1, <1>2, <2>1, <2>2
<1>4. Boundary(B, Behind(B, x))
  <2> SUFFICES ASSUME NEW q \in Redirections(B), q < Behind(B, x)
               PROVE  Behind(B, q) <= Behind(B, x)
    BY DEF Boundary
  <2>1. CASE q = x
    BY <1>1, <1>2, <2>1
  <2>2. CASE q < x
    <3>1. Behind(B, q) <= x /\ Behind(B, q) \in Nat
      BY <2>2, RedirectionFacts, TextFacts DEF Boundary, Behind
    <3> QED BY <1>1, <1>2, <3>1
  <2> QED BY <1>3, <2>1, <2>2
<1>5. ASSUME NEW k \in x .. Behind(B, x) - 1 PROVE k \notin Stops(B)
  <2>1. CASE k = NameEnd(B, x)
    BY <2>1 DEF Stops
  <2>2. CASE k # NameEnd(B, x)
    <3>1. k < NameEnd(B, x) /\ k \in 1 .. m /\ k \in Nat
      BY <1>1, <1>2, <2>2
    <3>2. B[k] # "|"
      <4>1. CASE k = x
        BY <4>1, RedirectionFacts
      <4>2. CASE k # x
        <5>1. x < k
          BY <1>1, <4>2
        <5>2. B[k] = "|" => NameEnd(B, x) <= k
          BY <3>1, <5>1, RedirectionFacts
        <5> QED BY <1>1, <3>1, <5>2
      <4> QED BY <4>1, <4>2
    <3> QED BY <3>2 DEF Stops, Bars
  <2> QED BY <2>1, <2>2
<1> QED BY <1>1, <1>2, <1>3, <1>4, <1>5

\* Redirection takes it out, and nothing else.
LEMMA RedirectionIs ==
  ASSUME NEW B, NEW m, IsText(B, m), NEW x \in Redirections(B), Boundary(B, x),
         NEW other, other \in {"<", ">"} \ {B[x]}
  PROVE  Redirection(CutUpTo(B, m, x), x, other) =
           [begin |-> NameBegin(B, x), line |-> CutUpTo(B, m, Behind(B, x)), next |-> Behind(B, x)]
<1> DEFINE line == CutUpTo(B, m, x)
           b == NameBegin(B, x)
           e == NameEnd(B, x)
<1>1. /\ m \in Nat /\ x \in 1 .. m - 2 /\ b \in x + 1 .. m - 1 /\ e \in b .. m - 1
      /\ B[x] \in {"<", ">"} /\ {"<", ">"} \ {B[x]} = {other} /\ other \in {"<", ">"}
  BY RedirectionFacts, TextFacts
<1>2. /\ B[b] # Blank /\ \A j \in x + 1 .. b - 1 : B[j] = Blank
      /\ B[e] \in NameEnds(B[x]) /\ \A j \in b .. e - 1 : B[j] \notin NameEnds(B[x])
  BY <1>1, NameIs
<1>3. IsLine(line, m) /\ DOMAIN line = 1 .. m
  <2>1. IsLine(line, m)
    BY <1>1, CutUpToIsLine
  <2>2. DOMAIN line = 1 .. m
    BY DEF CutUpTo
  <2> QED BY <2>1, <2>2
<1>4. \A k \in x .. m : line[k] = IF B[k] = "|" THEN NUL ELSE B[k]
  BY <1>1, Ahead
<1>5. line = [k \in 1 .. m |-> IF B[k] = "|" \/ \E p \in Redirections(B) : p < x /\ Lost(B, p, k)
                                THEN NUL ELSE B[k]]
  BY DEF CutUpTo
<1>6. Behind(B, x) = IF B[e] \in {"<", ">"} THEN e ELSE e + 1
  BY DEF Behind
<1>7. \A q \in Redirections(B) : q < Behind(B, x) <=> q < x \/ q = x
  BY BehindIs
<1>8. \A k : Lost(B, x, k) <=> k \in x .. b - 1 \/ (k = e /\ B[k] \notin {"<", ">"})
  BY DEF Lost
<1> DEFINE begin == CHOOSE k \in x + 1 .. Len(line) :
                      line[k] # Blank /\ \A j \in x + 1 .. k - 1 : line[j] = Blank
           end   == Find(line, begin, {NUL, Blank, other})
           blank == [k \in DOMAIN line |-> IF k \in x .. begin - 1 THEN NUL ELSE line[k]]
<1>9. Redirection(line, x, other) =
        IF line[end] = other THEN [begin |-> begin, line |-> blank, next |-> end]
        ELSE [begin |-> begin, line |-> Put(blank, end), next |-> end + 1]
  BY DEF Redirection
<1> HIDE DEF line, b, e
<1>10. begin = b
  <2>1. line[b] # Blank
    <3>1. b \in x .. m
      BY <1>1
    <3>2. line[b] = NUL \/ line[b] = B[b]
      BY <1>4, <3>1
    <3> QED BY <1>2, <3>2 DEF NUL, Blank
  <2>2. ASSUME NEW j \in x + 1 .. b - 1 PROVE line[j] = Blank
    <3>1. j \in x .. m
      BY <1>1
    <3>2. B[j] = Blank
      BY <1>2
    <3> QED BY <1>4, <3>1, <3>2 DEF Blank
  <2>3. x \in Nat /\ b \in x + 1 .. m
    BY <1>1
  <2> QED BY <1>3, <2>1, <2>2, <2>3, BeginIs
<1> HIDE DEF begin
<1>11. end = e
  <2>1. ASSUME NEW k \in x .. m
        PROVE  line[k] \in {NUL, Blank, other} <=> B[k] \in NameEnds(B[x])
    <3>1. NameEnds(B[x]) = {NUL, Blank, "|", other}
      BY <1>1 DEF NameEnds
    <3>2. CASE B[k] = "|"
      BY <1>4, <3>1, <3>2
    <3>3. CASE B[k] # "|"
      BY <1>4, <3>1, <3>3
    <3> QED BY <3>2, <3>3
  <2>2. line[e] \in {NUL, Blank, other}
    BY <1>1, <1>2, <2>1
  <2>3. ASSUME NEW j \in b .. e - 1 PROVE line[j] \notin {NUL, Blank, other}
    <3>1. j \in x .. m
      BY <1>1
    <3> QED BY <1>2, <2>1, <3>1
  <2>4. b \in Nat /\ e \in b .. m
    BY <1>1
  <2> QED BY <1>3, <1>10, <2>2, <2>3, <2>4, FindIs
<1> HIDE DEF end
<1>12. line[e] = other <=> B[e] \in {"<", ">"}
  <2>1. line[e] = IF B[e] = "|" THEN NUL ELSE B[e]
    BY <1>1, <1>4
  <2>2. B[e] # B[x]
    BY <1>1, <1>2 DEF NameEnds, NUL, Blank
  <2> QED BY <1>1, <2>1, <2>2 DEF NUL
<1>13. blank = [k \in 1 .. m |-> IF k \in x .. b - 1 THEN NUL ELSE line[k]]
  BY <1>3, <1>10
<1> HIDE DEF blank
<1>14. \A k \in 1 .. m :
         (\E p \in Redirections(B) : p < Behind(B, x) /\ Lost(B, p, k))
         <=> (\E p \in Redirections(B) : p < x /\ Lost(B, p, k)) \/ Lost(B, x, k)
  BY <1>7
<1>15. CutUpTo(B, m, Behind(B, x)) = [k \in 1 .. m |-> IF Lost(B, x, k) THEN NUL ELSE line[k]]
  <2>1. ASSUME NEW k \in 1 .. m
        PROVE  (IF B[k] = "|" \/ \E p \in Redirections(B) : p < Behind(B, x) /\ Lost(B, p, k)
                THEN NUL ELSE B[k])
               = IF Lost(B, x, k) THEN NUL ELSE line[k]
    BY <1>5, <1>14
  <2> QED BY <2>1 DEF CutUpTo
<1>16. CASE B[e] \in {"<", ">"}
  <2>1. blank = CutUpTo(B, m, Behind(B, x))
    BY <1>8, <1>13, <1>15, <1>16
  <2> QED BY <1>6, <1>9, <1>10, <1>11, <1>12, <1>16, <2>1 DEF line, b
<1>17. CASE B[e] \notin {"<", ">"}
  <2>1. Put(blank, e) = [k \in 1 .. m |-> IF k = e THEN NUL ELSE blank[k]]
    BY <1>13 DEF Put
  <2>2. Put(blank, e) = CutUpTo(B, m, Behind(B, x))
    BY <1>8, <1>13, <1>15, <1>17, <2>1
  <2> QED BY <1>6, <1>9, <1>10, <1>11, <1>12, <1>17, <2>2 DEF line, b
<1> QED BY <1>16, <1>17

-----------------------------------------------------------------------------
(* The search of one segment *)

\* The search, place by place.
SearchUpTo(f, line, start, m) ==
  f = [k \in 0 .. m |-> IF k = 0 THEN [line |-> line, at |-> start, in |-> 0, out |-> 0]
                        ELSE ExtractAt(f[k - 1])]

\* The recursion of Extract defines a function.
LEMMA SearchExists ==
  ASSUME NEW line, NEW start, NEW m \in Nat PROVE \E f : SearchUpTo(f, line, start, m)
<1> DEFINE T == {k \in Nat : ~ \E f : SearchUpTo(f, line, start, k)}
<1> SUFFICES ASSUME T # {} PROVE FALSE
  OBVIOUS
<1>1. PICK k \in T : \A j \in T : k <= j
  BY Least
<1>2. CASE k = 0
  <2> DEFINE f == [j \in 0 .. 0 |-> [line |-> line, at |-> start, in |-> 0, out |-> 0]]
  <2>1. SearchUpTo(f, line, start, 0)
    BY DEF SearchUpTo
  <2> HIDE DEF f
  <2> QED BY <1>1, <1>2, <2>1
<1>3. CASE k # 0
  <2>1. k - 1 \in Nat /\ k - 1 \notin T
    BY <1>1, <1>3
  <2>2. PICK g : SearchUpTo(g, line, start, k - 1)
    BY <2>1
  <2> DEFINE f == [j \in 0 .. k |-> IF j # k THEN g[j]
                                  ELSE ExtractAt(g[k - 1])]
  <2>3. \A j \in 0 .. k - 1 : g[j] = IF j = 0 THEN [line |-> line, at |-> start, in |-> 0, out |-> 0]
                                   ELSE ExtractAt(g[j - 1])
    BY <2>1, <2>2 DEF SearchUpTo
  <2>4. ASSUME NEW j \in 0 .. k
        PROVE  f[j] = IF j = 0 THEN [line |-> line, at |-> start, in |-> 0, out |-> 0]
                      ELSE ExtractAt(f[j - 1])
    <3>1. CASE j = k
      <4>1. f[k - 1] = g[k - 1]
        BY <2>1
      <4> QED BY <1>3, <3>1, <4>1
    <3>2. CASE j # k
      <4>1. j \in 0 .. k - 1 /\ f[j] = g[j] /\ (j # 0 => f[j - 1] = g[j - 1])
        BY <1>1, <3>2
      <4> QED BY <2>3, <4>1
    <3> QED BY <3>1, <3>2
  <2>5. f = [j \in 0 .. k |-> f[j]]
    OBVIOUS
  <2> HIDE DEF f
  <2>6. SearchUpTo(f, line, start, k)
    BY <2>4, <2>5 DEF SearchUpTo
  <2> QED BY <1>1, <2>6
<1> QED BY <1>2, <1>3

\* The four cases of a place.
LEMMA ExtractAtIs ==
  ASSUME NEW t
  PROVE  /\ t.line[t.at] = NUL => ExtractAt(t) = t
         /\ t.line[t.at] = "<" =>
              ExtractAt(t) = [line |-> Redirection(t.line, t.at, ">").line,
                              at   |-> Redirection(t.line, t.at, ">").next,
                              in   |-> Redirection(t.line, t.at, ">").begin, out |-> t.out]
         /\ t.line[t.at] = ">" =>
              ExtractAt(t) = [line |-> Redirection(t.line, t.at, "<").line,
                              at   |-> Redirection(t.line, t.at, "<").next,
                              in   |-> t.in, out |-> Redirection(t.line, t.at, "<").begin]
         /\ t.line[t.at] \notin {NUL, "<", ">"} => ExtractAt(t) = [t EXCEPT !.at = @ + 1]
<1>1. CASE t.line[t.at] = NUL
  BY <1>1 DEF ExtractAt, NUL
<1>2. CASE t.line[t.at] = "<"
  BY <1>2 DEF ExtractAt, NUL
<1>3. CASE t.line[t.at] = ">"
  BY <1>3 DEF ExtractAt, NUL
<1>4. CASE t.line[t.at] \notin {NUL, "<", ">"}
  BY <1>4 DEF ExtractAt, NUL
<1> QED BY <1>1, <1>2, <1>3, <1>4 DEF NUL

\* A search whose states are of a kind, and that moves on as long as it is at no NUL,
\* ends at a NUL in a state of that kind.
LEMMA SearchEnds ==
  ASSUME NEW line, NEW m \in Nat, Len(line) = m, NEW start \in 1 .. m, NEW G,
         [line |-> line, at |-> start, in |-> 0, out |-> 0] \in G,
         \A t \in G : t.at \in 1 .. m,
         \A t \in G : t.line[t.at] # NUL => ExtractAt(t) \in G /\ ExtractAt(t).at > t.at
  PROVE  Extract(line, start) \in G /\ Extract(line, start).line[Extract(line, start).at] = NUL
<1>1. PICK f : SearchUpTo(f, line, start, m) /\ Extract(line, start) = f[m]
  <2> DEFINE f == CHOOSE f : SearchUpTo(f, line, start, m)
  <2>1. SearchUpTo(f, line, start, m)
    BY SearchExists
  <2>2. Extract(line, start) = f[m]
    BY DEF Extract, SearchUpTo
  <2> QED BY <2>1, <2>2
<1>2. /\ f[0] = [line |-> line, at |-> start, in |-> 0, out |-> 0]
      /\ \A k \in 1 .. m : f[k] = ExtractAt(f[k - 1])
  BY <1>1 DEF SearchUpTo
<1> DEFINE AtEnd(t) == t.line[t.at] = NUL
           Good(k) == f[k] \in G /\ (AtEnd(f[k]) \/ f[k].at >= start + k)
           T == {k \in 0 .. m : ~ Good(k)}
<1>3. Good(0)
  BY <1>2
<1>4. ASSUME NEW k \in 1 .. m, Good(k - 1) PROVE Good(k)
  <2> DEFINE t == f[k - 1]
  <2>1. f[k] = ExtractAt(t) /\ t \in G
    BY <1>2, <1>4
  <2>2. CASE AtEnd(t)
    <3>1. ExtractAt(t) = t
      BY <2>2, ExtractAtIs
    <3> QED BY <2>1, <2>2, <3>1
  <2>3. CASE ~ AtEnd(t)
    <3>1. f[k] \in G /\ f[k].at > t.at /\ f[k].at \in Nat /\ t.at \in Nat
      BY <2>1, <2>3
    <3>2. t.at >= start + (k - 1)
      BY <1>4, <2>3
    <3> HIDE DEF t
    <3> QED BY <3>1, <3>2
  <2> QED BY <2>2, <2>3
<1> HIDE DEF Good
<1>5. \A k \in 0 .. m : Good(k)
  <2> SUFFICES ASSUME T # {} PROVE FALSE
    OBVIOUS
  <2>1. PICK k \in T : \A j \in T : k <= j
    <3>1. T \in SUBSET Nat
      OBVIOUS
    <3> HIDE DEF T
    <3> QED BY <3>1, Least
  <2>2. k # 0
    BY <1>3, <2>1
  <2>3. k \in 1 .. m /\ k - 1 \in 0 .. m /\ k - 1 \notin T
    BY <2>1, <2>2
  <2> QED BY <1>4, <2>1, <2>3
<1>6. f[m] \in G /\ (AtEnd(f[m]) \/ f[m].at >= start + m)
  BY <1>5 DEF Good
<1>7. ~ (f[m].at >= start + m)
  BY <1>6
<1> QED BY <1>1, <1>6, <1>7

\* v is where the name of the last redirection by op between s and x begins, or 0.
LastIn(B, op, s, x, v) ==
  \/ v = 0 /\ \A p \in Redirections(B) : B[p] = op /\ p < x => p < s
  \/ \E p \in Redirections(B) : /\ B[p] = op /\ s <= p /\ p < x /\ v = NameBegin(B, p)
                                /\ \A q \in Redirections(B) : B[q] = op /\ q < x => q <= p

\* The search from s at a boundary: the redirections behind s are taken out, and no
\* stop has been passed.
Stages(B, m, s) ==
  {t \in [line : {CutUpTo(B, m, x) : x \in 1 .. m}, at : 1 .. m, in : 0 .. m, out : 0 .. m] :
     /\ t.line = CutUpTo(B, m, t.at) /\ s <= t.at /\ Boundary(B, t.at)
     /\ LastIn(B, "<", s, t.at, t.in) /\ LastIn(B, ">", s, t.at, t.out)
     /\ \A k \in s .. t.at - 1 : k \notin Stops(B)}

\* A redirection by op is the last one by op, and changes nothing for the other.
LEMMA LastInIs ==
  ASSUME NEW B, NEW m, IsText(B, m), NEW x \in Redirections(B), Boundary(B, x),
         NEW s \in Nat, s <= x, NEW op, NEW v, LastIn(B, op, s, x, v)
  PROVE  /\ B[x] = op => LastIn(B, op, s, Behind(B, x), NameBegin(B, x))
         /\ B[x] # op => LastIn(B, op, s, Behind(B, x), v)
<1>1. /\ \A q \in Redirections(B) : q \in Nat
      /\ \A q \in Redirections(B) : q < Behind(B, x) <=> q < x \/ q = x
      /\ Behind(B, x) \in Nat /\ x < Behind(B, x) /\ x \in Nat
  BY BehindIs, RedirectionFacts, TextFacts
<1>2. ASSUME B[x] = op PROVE LastIn(B, op, s, Behind(B, x), NameBegin(B, x))
  <2>1. \A q \in Redirections(B) : B[q] = op /\ q < Behind(B, x) => q <= x
    BY <1>1
  <2> QED BY <1>1, <1>2, <2>1 DEF LastIn
<1>3. ASSUME B[x] # op PROVE LastIn(B, op, s, Behind(B, x), v)
  <2>1. \A q \in Redirections(B) : B[q] = op => (q < Behind(B, x) <=> q < x)
    BY <1>1, <1>3
  <2> QED BY <2>1 DEF LastIn
<1> QED BY <1>2, <1>3

\* The next place of the search.
LEMMA StageGoesOn ==
  ASSUME NEW B, NEW m, IsText(B, m), NEW s \in 1 .. m, NEW t \in Stages(B, m, s),
         t.line[t.at] # NUL
  PROVE  ExtractAt(t) \in Stages(B, m, s) /\ ExtractAt(t).at > t.at
<1> DEFINE x == t.at
<1>1. /\ m \in Nat /\ x \in 1 .. m /\ s <= x /\ Boundary(B, x) /\ t.line = CutUpTo(B, m, x)
      /\ t.in \in 0 .. m /\ t.out \in 0 .. m
      /\ LastIn(B, "<", s, x, t.in) /\ LastIn(B, ">", s, x, t.out)
      /\ \A k \in s .. x - 1 : k \notin Stops(B)
      /\ t = [line |-> CutUpTo(B, m, x), at |-> x, in |-> t.in, out |-> t.out]
  BY TextFacts DEF Stages
<1>2. t.line[x] = (IF B[x] = "|" THEN NUL ELSE B[x])
  BY <1>1, Ahead
<1>3. B[x] \notin {"|", NUL} /\ t.line[x] = B[x]
  BY <1>2
<1>4. x + 1 \in 1 .. m
  <2>1. x # m
    BY <1>1, <1>3, TextFacts
  <2> QED BY <1>1, <2>1
<1>7. t \in [line : {CutUpTo(B, m, y) : y \in 1 .. m}, at : 1 .. m, in : 0 .. m, out : 0 .. m]
  BY DEF Stages
<1> HIDE DEF x
<1>5. CASE B[x] \in {"<", ">"}
  <2> DEFINE y == Behind(B, x)
             b == NameBegin(B, x)
  <2>1. x \in Redirections(B)
    BY <1>1, <1>5, BeginsThere
  <2>2. y \in x + 1 .. m /\ Boundary(B, y) /\ \A k \in x .. y - 1 : k \notin Stops(B)
    BY <1>1, <2>1, BehindIs
  <2>3. b \in 0 .. m
    BY <1>1, <2>1, RedirectionFacts
  <2>4. \A other \in {"<", ">"} \ {B[x]} :
          Redirection(t.line, x, other) = [begin |-> b, line |-> CutUpTo(B, m, y), next |-> y]
    BY <1>1, <2>1, RedirectionIs
  <2>5. s <= y /\ \A k \in s .. y - 1 : k \notin Stops(B)
    BY <1>1, <2>2
  <2>6. /\ B[x] = "<" => LastIn(B, "<", s, y, b) /\ LastIn(B, ">", s, y, t.out)
        /\ B[x] = ">" => LastIn(B, "<", s, y, t.in) /\ LastIn(B, ">", s, y, b)
    <3>1. s \in Nat
      OBVIOUS
    <3> QED BY <1>1, <2>1, <3>1, LastInIs
  <2> HIDE DEF y, b
  <2>7. CASE B[x] = "<"
    <3>1. Redirection(t.line, x, ">") = [begin |-> b, line |-> CutUpTo(B, m, y), next |-> y]
      BY <2>4, <2>7
    <3>2. /\ Redirection(t.line, t.at, ">").line = CutUpTo(B, m, y)
          /\ Redirection(t.line, t.at, ">").next = y
          /\ Redirection(t.line, t.at, ">").begin = b
      BY <3>1 DEF x
    <3>3. t.line[t.at] = "<"
      BY <1>3, <2>7 DEF x
    <3>4. ExtractAt(t) = [line |-> CutUpTo(B, m, y), at |-> y, in |-> b, out |-> t.out]
      BY <3>2, <3>3, ExtractAtIs
    <3> QED BY <1>1, <2>2, <2>3, <2>5, <2>6, <2>7, <3>4 DEF Stages, x
  <2>8. CASE B[x] = ">"
    <3>1. Redirection(t.line, x, "<") = [begin |-> b, line |-> CutUpTo(B, m, y), next |-> y]
      BY <2>4, <2>8
    <3>2. /\ Redirection(t.line, t.at, "<").line = CutUpTo(B, m, y)
          /\ Redirection(t.line, t.at, "<").next = y
          /\ Redirection(t.line, t.at, "<").begin = b
      BY <3>1 DEF x
    <3>3. t.line[t.at] = ">"
      BY <1>3, <2>8 DEF x
    <3>4. ExtractAt(t) = [line |-> CutUpTo(B, m, y), at |-> y, in |-> t.in, out |-> b]
      BY <3>2, <3>3, ExtractAtIs
    <3> QED BY <1>1, <2>2, <2>3, <2>5, <2>6, <2>8, <3>4 DEF Stages, x
  <2> QED BY <1>5, <2>7, <2>8
<1>6. CASE B[x] \notin {"<", ">"}
  <2>1. ExtractAt(t) = [line |-> CutUpTo(B, m, x), at |-> x + 1, in |-> t.in, out |-> t.out]
    <3>1. t.line[t.at] \notin {NUL, "<", ">"}
      BY <1>3, <1>6 DEF x
    <3>2. ExtractAt(t) = [t EXCEPT !.at = @ + 1]
      BY <3>1, ExtractAtIs
    <3>3. t.line = CutUpTo(B, m, x) /\ t.at = x
      BY <1>1 DEF x
    <3> QED BY <1>7, <3>2, <3>3
  <2>2. \A p \in Redirections(B) : p \in Nat /\ (p < x + 1 <=> p < x)
    BY <1>1, <1>6, RedirectionFacts, TextFacts
  <2>3. CutUpTo(B, m, x + 1) = CutUpTo(B, m, x)
    BY <2>2 DEF CutUpTo
  <2>4. Boundary(B, x + 1)
    <3>1. \A p \in Redirections(B) : Behind(B, p) \in Nat
      BY RedirectionFacts, TextFacts DEF Behind
    <3> QED BY <1>1, <2>2, <3>1 DEF Boundary
  <2>5. LastIn(B, "<", s, x + 1, t.in) /\ LastIn(B, ">", s, x + 1, t.out)
    BY <1>1, <2>2 DEF LastIn
  <2>6. \A k \in s .. (x + 1) - 1 : k \notin Stops(B)
    <3>1. x \notin Stops(B)
      BY <1>3 DEF Stops, Bars
    <3> QED BY <1>1, <3>1
  <2>7. CutUpTo(B, m, x) \in {CutUpTo(B, m, y) : y \in 1 .. m}
    BY <1>1
  <2> QED BY <1>1, <1>4, <2>1, <2>3, <2>4, <2>5, <2>6, <2>7 DEF Stages, x
<1> QED BY <1>5, <1>6

\* The search from s has ended at x.
SearchedTo(B, m, s, r, x) ==
  /\ r.line = CutUpTo(B, m, x) /\ Boundary(B, x)
  /\ LastIn(B, "<", s, x, r.in) /\ LastIn(B, ">", s, x, r.out)
  /\ \A k \in s .. x - 1 : k \notin Stops(B)
  /\ x \in Stops(B) \/ B[x] = NUL

\* The search from a boundary takes out what it meets and ends at a stop, or at the
\* end of the line.
LEMMA SearchFromBoundary ==
  ASSUME NEW B, NEW m, IsText(B, m), NEW s \in 1 .. m, Boundary(B, s)
  PROVE  /\ \E x \in s .. m : SearchedTo(B, m, s, Extract(CutUpTo(B, m, s), s), x)
         /\ Extract(CutUpTo(B, m, s), s).in \in Nat /\ Extract(CutUpTo(B, m, s), s).out \in Nat
<1> DEFINE r == Extract(CutUpTo(B, m, s), s)
           G == Stages(B, m, s)
<1>1. m \in Nat /\ Len(CutUpTo(B, m, s)) = m /\ DOMAIN B = 1 .. m
  BY TextFacts, CutUpToIsLine DEF IsLine
<1>2. [line |-> CutUpTo(B, m, s), at |-> s, in |-> 0, out |-> 0] \in G
  BY <1>1, RedirectionFacts DEF Stages, LastIn
<1>3. r \in G /\ r.line[r.at] = NUL
  <2>1. \A t \in G : t.at \in 1 .. m
    BY DEF Stages
  <2>2. \A t \in G : t.line[t.at] # NUL => ExtractAt(t) \in G /\ ExtractAt(t).at > t.at
    BY StageGoesOn
  <2> HIDE DEF G
  <2> QED BY <1>1, <1>2, <2>1, <2>2, SearchEnds
<1> DEFINE R == r.at
<1>4. /\ R \in 1 .. m /\ s <= R /\ r.line = CutUpTo(B, m, R) /\ Boundary(B, R)
      /\ LastIn(B, "<", s, R, r.in) /\ LastIn(B, ">", s, R, r.out)
      /\ \A k \in s .. R - 1 : k \notin Stops(B)
  BY <1>3 DEF Stages
<1>5. R \in Stops(B) \/ B[R] = NUL
  <2> SUFFICES ASSUME B[R] # NUL PROVE R \in Stops(B)
    OBVIOUS
  <2> HIDE DEF r
  <2>1. B[R] = "|"
    <3>1. CutUpTo(B, m, R)[R] = IF B[R] = "|" THEN NUL ELSE B[R]
      BY <1>1, <1>4, Ahead
    <3> QED BY <1>3, <1>4, <3>1
  <2>2. ASSUME NEW p \in Redirections(B), NameEnd(B, p) = R PROVE FALSE
    <3>1. p \in Nat /\ NameBegin(B, p) \in Nat /\ p < NameBegin(B, p) /\ NameBegin(B, p) <= NameEnd(B, p)
      BY RedirectionFacts, TextFacts
    <3>2. Behind(B, p) = R + 1
      BY <2>1, <2>2 DEF Behind
    <3>3. Behind(B, p) <= R
      BY <1>4, <2>2, <3>1 DEF Boundary
    <3> QED BY <1>4, <3>2, <3>3
  <2> QED BY <1>1, <1>4, <2>1, <2>2 DEF Stops, Bars
<1>6. R \in s .. m
  BY <1>1, <1>4
<1>7. r.in \in Nat /\ r.out \in Nat
  <2> HIDE DEF r
  <2> QED BY <1>3 DEF Stages
<1> HIDE DEF R
<1>8. SearchedTo(B, m, s, r, R)
  BY <1>4, <1>5 DEF SearchedTo
<1> HIDE DEF r
<1>9. \E x \in s .. m : SearchedTo(B, m, s, r, x)
  BY <1>6, <1>8
<1> QED BY <1>7, <1>9 DEF r

-----------------------------------------------------------------------------
(* The search of a segment that a name before it has run into *)

\* Where a segment begins.
BeginsSegment(B, s) == s = 1 \/ B[s - 1] = "|"

\* Where the words of the segment at s end.
WordsEnd(B, s) == Find(B, s, {NUL, "|", "<", ">"})

\* The first bar, redirection or NUL of the segment ends its words.
LEMMA WordsEndIs ==
  ASSUME NEW B, NEW m, IsText(B, m), NEW s \in 1 .. m, BeginsSegment(B, s)
  PROVE  LET e == WordsEnd(B, s)
         IN  /\ e \in s .. m - 1 /\ B[e] \in {NUL, "|", "<", ">"}
             /\ \A k \in s .. e - 1 : B[k] \notin {NUL, "|", "<", ">"}
<1> DEFINE marks == {NUL, "|", "<", ">"}
           L == {k \in s .. m - 1 : B[k] \in marks}
<1>1. m \in Nat /\ m >= 2 /\ IsLine(B, m) /\ B[m - 1] = NUL
  BY TextFacts DEF IsText
<1>2. s <= m - 1
  <2>1. CASE s = 1
    BY <1>1, <2>1
  <2>2. CASE s # 1
    <3>1. s - 1 \in 1 .. m /\ B[s - 1] # NUL
      BY <1>1, <2>2 DEF BeginsSegment, NUL
    <3>2. ~ (s - 1 >= m - 1)
      BY <3>1, TextFacts
    <3> QED BY <1>1, <3>1, <3>2
  <2> QED BY <2>1, <2>2
<1>3. PICK e \in L : \A j \in L : e <= j
  <2>1. m - 1 \in s .. m - 1
    BY <1>1, <1>2
  <2>2. m - 1 \in L
    BY <1>1, <2>1
  <2>3. L \in SUBSET Nat
    OBVIOUS
  <2> HIDE DEF L
  <2> QED BY <2>2, <2>3, Least
<1>4. e \in s .. m - 1 /\ B[e] \in marks
  BY <1>3
<1>5. ASSUME NEW k \in s .. e - 1, B[k] \in marks PROVE FALSE
  <2>1. k \in s .. m - 1
    BY <1>1, <1>4
  <2>2. e <= k
    BY <1>3, <1>5, <2>1
  <2> QED BY <1>4, <1>5, <2>2
<1>6. Find(B, s, marks) = e
  <2>1. s \in Nat /\ e \in s .. m
    BY <1>1, <1>4
  <2> HIDE DEF marks, L
  <2> QED BY <1>1, <1>4, <1>5, <2>1, FindIs
<1>7. WordsEnd(B, s) = e
  BY <1>6 DEF WordsEnd
<1> QED BY <1>4, <1>5, <1>7

\* No redirection touches the words of a segment, and a redirection or a bar ends them.
LEMMA WordsStay ==
  ASSUME NEW B, NEW m, IsText(B, m), NEW s \in 1 .. m, BeginsSegment(B, s), NEW x
  PROVE  LET e == WordsEnd(B, s)
         IN  /\ \A k \in s .. e - 1 : CutUpTo(B, m, x)[k] = B[k]
             /\ e < x \/ B[e] \notin {"<", ">"} => CutUpTo(B, m, x)[e] = NUL
<1> DEFINE e == WordsEnd(B, s)
<1>1. /\ m \in Nat /\ e \in s .. m - 1 /\ B[e] \in {NUL, "|", "<", ">"}
      /\ \A k \in s .. e - 1 : B[k] \notin {NUL, "|", "<", ">"}
  BY WordsEndIs, TextFacts
<1> HIDE DEF e
<1>2. \A p \in Redirections(B) :
        /\ p \in Nat /\ B[p] \in {"<", ">"} /\ p \in 1 .. m
        /\ NameBegin(B, p) \in Nat /\ NameEnd(B, p) \in Nat
        /\ p < NameBegin(B, p) /\ NameBegin(B, p) <= NameEnd(B, p)
  BY RedirectionFacts, TextFacts
<1>3. ASSUME NEW p \in Redirections(B), p < e PROVE NameEnd(B, p) <= s - 1
  <2>1. ~ (p \in s .. e - 1)
    BY <1>1, <1>2
  <2>2. p < s
    BY <1>1, <1>2, <1>3, <2>1
  <2>3. s # 1 /\ s - 1 \in 1 .. m
    BY <1>1, <1>2, <2>2
  <2>4. B[s - 1] = "|"
    BY <2>3 DEF BeginsSegment
  <2>5. p # s - 1
    BY <1>2, <2>4
  <2>6. p < s - 1
    BY <1>2, <2>2, <2>5
  <2> QED BY <2>3, <2>4, <2>6, RedirectionFacts
<1>4. ASSUME NEW k \in s .. e - 1 PROVE CutUpTo(B, m, x)[k] = B[k]
  <2>1. k \in 1 .. m /\ B[k] # "|" /\ k < e
    BY <1>1
  <2>2. ASSUME NEW p \in Redirections(B) PROVE ~ Lost(B, p, k)
    <3>1. CASE p < e
      <4>1. NameEnd(B, p) <= s - 1
        BY <1>3, <3>1
      <4>2. ~ (k \in p .. NameBegin(B, p) - 1) /\ k # NameEnd(B, p)
        BY <1>2, <4>1
      <4> QED BY <4>2 DEF Lost
    <3>2. CASE ~ (p < e)
      <4>1. ~ (k \in p .. NameBegin(B, p) - 1) /\ k # NameEnd(B, p)
        BY <1>1, <1>2, <2>1, <3>2
      <4> QED BY <4>1 DEF Lost
    <3> QED BY <3>1, <3>2
  <2> QED BY <2>1, <2>2 DEF CutUpTo
<1>5. ASSUME e < x \/ B[e] \notin {"<", ">"} PROVE CutUpTo(B, m, x)[e] = NUL
  <2>1. e \in 1 .. m
    BY <1>1
  <2>2. CASE B[e] = "|"
    BY <2>1, <2>2 DEF CutUpTo
  <2>3. CASE B[e] = NUL
    BY <2>1, <2>3 DEF CutUpTo
  <2>4. CASE B[e] \in {"<", ">"}
    <3>1. e \in Redirections(B)
      <4> SUFFICES ASSUME e \notin Redirections(B) PROVE FALSE
        OBVIOUS
      <4>1. PICK p \in Redirections(B) : p < e /\ e < NameEnd(B, p)
        BY <2>1, <2>4, RedirectionFacts
      <4> QED BY <1>1, <1>2, <1>3, <4>1
    <3>2. e \in e .. NameBegin(B, e) - 1
      BY <1>2, <3>1
    <3> QED BY <1>5, <2>1, <2>4, <3>1, <3>2 DEF CutUpTo, Lost
  <2> QED BY <1>1, <2>2, <2>3, <2>4
<1> QED BY <1>4, <1>5 DEF e

\* A segment whose end the search before it has passed has no redirections left.
LEMMA NothingLeft ==
  ASSUME NEW B, NEW m, IsText(B, m), NEW s \in 1 .. m, BeginsSegment(B, s),
         NEW x \in s .. m, x \in Stops(B) \/ B[x] = NUL
  PROVE  LET r == Extract(CutUpTo(B, m, x), s)
         IN  r.line = CutUpTo(B, m, x) /\ r.in = 0 /\ r.out = 0
<1> DEFINE L == CutUpTo(B, m, x)
           e == WordsEnd(B, s)
           State(k) == [line |-> L, at |-> k, in |-> 0, out |-> 0]
           G == {State(k) : k \in s .. e}
<1>1. /\ m \in Nat /\ e \in s .. m - 1 /\ B[e] \in {NUL, "|", "<", ">"}
      /\ \A k \in s .. e - 1 : B[k] \notin {NUL, "|", "<", ">"}
  BY WordsEndIs, TextFacts
<1>2. B[x] \in {"|", NUL}
  BY DEF Stops, Bars
<1>3. L[e] = NUL /\ \A k \in s .. e - 1 : L[k] \notin {NUL, "<", ">"}
  <2>1. ~ (x \in s .. e - 1)
    BY <1>1, <1>2
  <2>2. e <= x
    BY <1>1, <2>1
  <2>3. e < x \/ B[e] \notin {"<", ">"}
    <3>1. CASE e = x
      BY <1>2, <3>1 DEF NUL
    <3>2. CASE e # x
      BY <1>1, <2>2, <3>2
    <3> QED BY <3>1, <3>2
  <2> QED BY <1>1, <2>3, WordsStay
<1>4. Len(L) = m
  BY <1>1, CutUpToIsLine DEF IsLine
<1> HIDE DEF L, e
<1>5. State(s) \in G
  BY <1>1
<1>6. \A t \in G : t.at \in 1 .. m
  <2>1. \A k \in s .. e : k \in 1 .. m
    BY <1>1
  <2> QED BY <2>1
<1>7. ASSUME NEW t \in G, t.line[t.at] # NUL PROVE ExtractAt(t) \in G /\ ExtractAt(t).at > t.at
  <2>1. PICK k \in s .. e : t = State(k)
    OBVIOUS
  <2>2. t.line = L /\ t.at = k /\ t.in = 0 /\ t.out = 0
    BY <2>1
  <2>3. k # e
    BY <1>3, <1>7, <2>2
  <2>4. k \in s .. e - 1 /\ k + 1 \in s .. e /\ k + 1 > k
    BY <1>1, <2>3
  <2>5. t.line[t.at] \notin {NUL, "<", ">"}
    BY <1>3, <2>2, <2>4
  <2>6. ExtractAt(t) = [t EXCEPT !.at = @ + 1]
    BY <2>5, ExtractAtIs
  <2>7. ExtractAt(t) = State(k + 1)
    BY <2>1, <2>6
  <2> QED BY <2>2, <2>4, <2>7
<1>8. Extract(L, s) \in G
  <2> HIDE DEF G
  <2> QED BY <1>1, <1>4, <1>5, <1>6, <1>7, SearchEnds
<1>9. Extract(L, s).line = L /\ Extract(L, s).in = 0 /\ Extract(L, s).out = 0
  BY <1>8
<1> QED BY <1>9 DEF L

-----------------------------------------------------------------------------
(* The words and the names, when all is cut *)

\* Two lines that agree on a stretch.
LEMMA SameStretch ==
  ASSUME NEW s, NEW t, NEW a \in Int, NEW b \in Int, \A k \in a .. b : s[k] = t[k]
  PROVE  SubSeq(s, a, b) = SubSeq(t, a, b)
<1> DEFINE S == {s[k] : k \in a .. b}
<1>1. (\A k \in a .. b : s[k] \in S) /\ (\A k \in a .. b : t[k] \in S)
  OBVIOUS
<1> HIDE DEF S
<1>2. /\ SubSeq(s, a, b) \in Seq(S)
      /\ Len(SubSeq(s, a, b)) = IF a <= b THEN b - a + 1 ELSE 0
      /\ \A k \in 1 .. b - a + 1 : SubSeq(s, a, b)[k] = s[a + k - 1]
  BY <1>1, SubSeqProperties
<1>3. /\ SubSeq(t, a, b) \in Seq(S)
      /\ Len(SubSeq(t, a, b)) = IF a <= b THEN b - a + 1 ELSE 0
      /\ \A k \in 1 .. b - a + 1 : SubSeq(t, a, b)[k] = t[a + k - 1]
  BY <1>1, SubSeqProperties
<1>4. ASSUME NEW k \in 1 .. Len(SubSeq(s, a, b)) PROVE SubSeq(s, a, b)[k] = SubSeq(t, a, b)[k]
  <2>1. k \in 1 .. b - a + 1 /\ a + k - 1 \in a .. b
    BY <1>2
  <2> QED BY <1>2, <1>3, <2>1
<1> QED BY <1>2, <1>3, <1>4, SeqEqual

\* The words that are left are those before the first redirection.
LEMMA WordsAre ==
  ASSUME NEW B, NEW m, IsText(B, m), NEW s \in 1 .. m, BeginsSegment(B, s)
  PROVE  Words(CutUpTo(B, m, m), s) = CommandAt(B, s)
<1> DEFINE L == CutUpTo(B, m, m)
           e == WordsEnd(B, s)
<1>1. /\ m \in Nat /\ e \in s .. m - 1
      /\ \A k \in s .. e - 1 : B[k] \notin {NUL, "|", "<", ">"}
  BY WordsEndIs, TextFacts
<1>2. L[e] = NUL /\ \A k \in s .. e - 1 : L[k] = B[k]
  <2>1. e < m
    BY <1>1
  <2> QED BY <2>1, WordsStay
<1>3. IsLine(L, m)
  BY <1>1, CutUpToIsLine
<1> HIDE DEF L, e
<1>4. Find(L, s, {NUL}) = e
  <2>1. s \in Nat /\ e \in s .. m /\ L[e] \in {NUL} /\ \A k \in s .. e - 1 : L[k] \notin {NUL}
    BY <1>1, <1>2
  <2> QED BY <1>3, <2>1, FindIs
<1>5. SubSeq(L, s, e - 1) = SubSeq(B, s, e - 1)
  BY <1>1, <1>2, SameStretch
<1> QED BY <1>4, <1>5 DEF Words, CommandAt, WordsEnd, L, e

\* The names that are left are those in the line.
LEMMA NamesAre ==
  ASSUME NEW B, NEW m, IsText(B, m), NEW p \in Redirections(B)
  PROVE  NameAt(CutUpTo(B, m, m), NameBegin(B, p)) = SubSeq(B, NameBegin(B, p), NameEnd(B, p) - 1)
<1> DEFINE L == CutUpTo(B, m, m)
           b == NameBegin(B, p)
           e == NameEnd(B, p)
<1>1. /\ m \in Nat /\ p \in 1 .. m - 2 /\ b \in p + 1 .. m - 1 /\ e \in b .. m - 1
      /\ B[p] \in {"<", ">"}
  BY RedirectionFacts, TextFacts
<1>2. \A k \in b .. e - 1 : B[k] \notin NameEnds(B[p])
  <2>1. p \in 1 .. m
    BY <1>1
  <2> QED BY <1>1, <2>1, NameIs
<1> HIDE DEF b, e
<1>3. ASSUME NEW q \in Redirections(B)
      PROVE  /\ q \in Nat /\ NameBegin(B, q) \in Nat /\ NameEnd(B, q) \in Nat
             /\ q < NameBegin(B, q) /\ NameBegin(B, q) <= NameEnd(B, q)
             /\ q < p => NameEnd(B, q) <= p
             /\ p < q => e <= q
  BY RedirectionFacts, TextFacts DEF e
<1>4. IsLine(L, m)
  BY <1>1, CutUpToIsLine
<1>5. ASSUME NEW k \in b .. e - 1 PROVE L[k] = B[k] /\ L[k] # NUL
  <2>1. k \in 1 .. m /\ k < e /\ b <= k /\ k \in Nat
    BY <1>1
  <2>2. ASSUME NEW q \in Redirections(B) PROVE ~ Lost(B, q, k)
    <3>1. CASE q < p
      <4>1. NameEnd(B, q) < k
        BY <1>1, <1>3, <2>1, <3>1
      <4>2. ~ (k \in q .. NameBegin(B, q) - 1) /\ k # NameEnd(B, q)
        BY <1>3, <2>1, <4>1
      <4> QED BY <4>2 DEF Lost
    <3>2. CASE q = p
      <4>1. ~ (k \in q .. b - 1) /\ k # e
        BY <1>1, <2>1
      <4> QED BY <3>2, <4>1 DEF Lost, b, e
    <3>3. CASE p < q
      <4>1. k < q
        BY <1>1, <1>3, <2>1, <3>3
      <4>2. ~ (k \in q .. NameBegin(B, q) - 1) /\ k # NameEnd(B, q)
        BY <1>3, <2>1, <4>1
      <4> QED BY <4>2 DEF Lost
    <3> QED BY <1>1, <1>3, <3>1, <3>2, <3>3
  <2>3. B[k] # "|" /\ B[k] # NUL
    BY <1>2 DEF NameEnds
  <2> QED BY <2>1, <2>2, <2>3 DEF CutUpTo
<1>6. L[e] = NUL
  <2>1. e \in 1 .. m
    BY <1>1
  <2>2. CASE B[e] = "|"
    BY <2>1, <2>2 DEF CutUpTo
  <2>3. CASE B[e] \in {"<", ">"}
    <3>1. e \in Redirections(B)
      <4> SUFFICES ASSUME e \notin Redirections(B) PROVE FALSE
        OBVIOUS
      <4>1. PICK q \in Redirections(B) : q < e /\ e < NameEnd(B, q)
        BY <2>1, <2>3, RedirectionFacts
      <4>2. q < p => FALSE
        BY <1>1, <1>3, <4>1
      <4>3. q = p => FALSE
        BY <1>1, <4>1 DEF e
      <4>4. p < q => FALSE
        BY <1>1, <1>3, <4>1
      <4> QED BY <1>1, <1>3, <4>2, <4>3, <4>4
    <3>2. e \in e .. NameBegin(B, e) - 1 /\ e < m
      BY <1>1, <1>3, <3>1
    <3> QED BY <2>1, <3>1, <3>2 DEF CutUpTo, Lost
  <2>4. CASE B[e] \notin {"<", ">", "|"}
    <3>1. p < m /\ Lost(B, p, e)
      BY <1>1, <2>4 DEF Lost, e
    <3> QED BY <2>1, <3>1 DEF CutUpTo
  <2> QED BY <2>2, <2>3, <2>4
<1> HIDE DEF L
<1>7. Find(L, b, {NUL}) = e
  <2>1. b \in Nat /\ e \in b .. m /\ L[e] \in {NUL} /\ \A k \in b .. e - 1 : L[k] \notin {NUL}
    BY <1>1, <1>5, <1>6
  <2> QED BY <1>4, <2>1, FindIs
<1>8. SubSeq(L, b, e - 1) = SubSeq(B, b, e - 1)
  <2>1. b \in Int /\ e - 1 \in Int
    BY <1>1
  <2>2. \A k \in b .. e - 1 : L[k] = B[k]
    BY <1>5
  <2> QED BY <2>1, <2>2, SameStretch
<1>9. b # 0
  BY <1>1
<1>10. NameAt(L, b) = SubSeq(B, b, e - 1)
  BY <1>7, <1>8, <1>9 DEF NameAt
<1> QED BY <1>10 DEF L, b, e

\* The pointer to the last name of its kind leads to that name.
LEMMA LastNameIs ==
  ASSUME NEW B, NEW m, IsText(B, m), NEW op, NEW v, LastIn(B, op, 1, m, v)
  PROVE  NameAt(CutUpTo(B, m, m), v) = LastName(B, {p \in Redirections(B) : B[p] = op})
<1> DEFINE S == {p \in Redirections(B) : B[p] = op}
<1>1. \A p \in Redirections(B) : p \in Nat /\ 1 <= p /\ p < m
  BY RedirectionFacts, TextFacts
<1>2. CASE v = 0 /\ \A p \in Redirections(B) : B[p] = op /\ p < m => p < 1
  <2>1. S = {}
    BY <1>1, <1>2
  <2> HIDE DEF S
  <2>2. LastName(B, S) = None
    BY <2>1 DEF LastName
  <2> QED BY <1>2, <2>2 DEF NameAt, S
<1>3. ASSUME NEW p \in Redirections(B), B[p] = op, v = NameBegin(B, p),
             \A q \in Redirections(B) : B[q] = op /\ q < m => q <= p
      PROVE  NameAt(CutUpTo(B, m, m), v) = LastName(B, S)
  <2>1. p \in S /\ p \in Nat /\ \A q \in S : q \in Nat /\ q <= p
    BY <1>1, <1>3
  <2> HIDE DEF S
  <2>2. Max(S) = p
    <3>1. \A x \in S : (\A y \in S : x >= y) => x = p
      BY <2>1
    <3>2. \A y \in S : p >= y
      BY <2>1
    <3> QED BY <2>1, <3>1, <3>2 DEF Max
  <2>3. LastName(B, S) = SubSeq(B, NameBegin(B, p), NameEnd(B, p) - 1)
    BY <2>1, <2>2 DEF LastName
  <2> QED BY <1>3, <2>3, NamesAre
<1> QED BY <1>2, <1>3 DEF LastIn

-----------------------------------------------------------------------------
(* Where the segments begin *)

Ordered(S) ==
  \E n \in Nat : \E f \in [1 .. n -> Nat] : Increasing(f, n) /\ S = {f[k] : k \in 1 .. n}

\* Numbers up to a bound can be put in order.
LEMMA PlacesHaveAnOrder == \A top \in Nat : \A S \in SUBSET (1 .. top) : Ordered(S)
<1> DEFINE T == {k \in Nat : \E S \in SUBSET (1 .. k) : ~ Ordered(S)}
<1> SUFFICES ASSUME T # {} PROVE FALSE
  OBVIOUS
<1>1. PICK k \in T : \A j \in T : k <= j
  BY Least
<1>2. PICK S \in SUBSET (1 .. k) : ~ Ordered(S)
  BY <1>1
<1>3. CASE k = 0
  <2> DEFINE f == [j \in 1 .. 0 |-> 0]
  <2>1. S = {}
    BY <1>2, <1>3
  <2>2. f \in [1 .. 0 -> Nat] /\ Increasing(f, 0) /\ {} = {f[j] : j \in 1 .. 0}
    BY DEF Increasing
  <2> HIDE DEF f
  <2> QED BY <1>2, <2>1, <2>2 DEF Ordered
<1>4. CASE k # 0
  <2>1. k - 1 \in Nat /\ k - 1 \notin T /\ k \in Nat
    <3>1. k \in Nat /\ \A j \in T : k <= j
      BY <1>1
    <3> HIDE DEF T
    <3> QED BY <1>4, <3>1
  <2>2. S \ {k} \in SUBSET (1 .. k - 1)
    BY <1>2, <2>1
  <2>3. Ordered(S \ {k})
    BY <2>1, <2>2
  <2>4. k \in S
    <3> SUFFICES ASSUME k \notin S PROVE FALSE
      OBVIOUS
    <3>1. S \ {k} = S
      OBVIOUS
    <3> QED BY <1>2, <2>3, <3>1
  <2>5. PICK n \in Nat : \E f \in [1 .. n -> Nat] :
                Increasing(f, n) /\ S \ {k} = {f[j] : j \in 1 .. n}
    BY <2>3 DEF Ordered
  <2>6. PICK f \in [1 .. n -> Nat] : Increasing(f, n) /\ S \ {k} = {f[j] : j \in 1 .. n}
    BY <2>5
  <2> DEFINE g == [j \in 1 .. n + 1 |-> IF j = n + 1 THEN k ELSE f[j]]
  <2>7. \A j \in 1 .. n : g[j] = f[j] /\ f[j] \in S \ {k}
    BY <2>6
  <2>8. g[n + 1] = k
    OBVIOUS
  <2>9. g \in [1 .. n + 1 -> Nat]
    <3>1. \A j \in 1 .. n + 1 : j = n + 1 \/ j \in 1 .. n
      OBVIOUS
    <3> QED BY <2>1, <2>6, <3>1
  <2> HIDE DEF g
  <2>10. Increasing(g, n + 1)
    <3> SUFFICES ASSUME NEW i1 \in 1 .. n + 1, NEW i2 \in 1 .. n + 1, i1 < i2
                 PROVE  g[i1] < g[i2]
      BY DEF Increasing
    <3>1. i1 \in 1 .. n
      OBVIOUS
    <3>2. CASE i2 = n + 1
      <4>1. f[i1] \in 1 .. k - 1
        BY <2>2, <2>7, <3>1
      <4> QED BY <2>1, <2>7, <2>8, <3>1, <3>2, <4>1
    <3>3. CASE i2 # n + 1
      <4>1. i2 \in 1 .. n
        BY <3>3
      <4> QED BY <2>6, <2>7, <3>1, <4>1 DEF Increasing
    <3> QED BY <3>2, <3>3
  <2>11. S = {g[j] : j \in 1 .. n + 1}
    <3>1. \A j \in 1 .. n + 1 : j = n + 1 \/ j \in 1 .. n
      OBVIOUS
    <3>2. \A j \in 1 .. n + 1 : g[j] \in S
      BY <2>4, <2>7, <2>8, <3>1
    <3>3. \A x \in S : \E j \in 1 .. n + 1 : g[j] = x
      <4> SUFFICES ASSUME NEW x \in S PROVE \E j \in 1 .. n + 1 : g[j] = x
        OBVIOUS
      <4>1. CASE x = k
        <5>1. n + 1 \in 1 .. n + 1
          OBVIOUS
        <5> QED BY <2>8, <4>1, <5>1
      <4>2. CASE x # k
        <5>1. PICK j \in 1 .. n : f[j] = x
          BY <2>6, <4>2
        <5>2. j \in 1 .. n + 1 /\ g[j] = x
          BY <2>7, <5>1
        <5> QED BY <5>2
      <4> QED BY <4>1, <4>2
    <3> QED BY <3>2, <3>3
  <2>12. n + 1 \in Nat
    OBVIOUS
  <2> QED BY <1>2, <2>9, <2>10, <2>11, <2>12 DEF Ordered
<1> QED BY <1>3, <1>4

\* The segments from left to right: the first begins with the line, each other behind a
\* bar, and behind each bar begins one.
LEMMA StartsAre ==
  ASSUME NEW B, NEW m, IsText(B, m)
  PROVE  LET starts == Starts(B)
             n      == Len(starts)
         IN  /\ n \in Nat \ {0} /\ DOMAIN starts = 1 .. n /\ Increasing(starts, n)
             /\ \A k \in 1 .. n : starts[k] \in 1 .. m - 1 /\ BeginsSegment(B, starts[k])
             /\ starts[1] = 1
             /\ \A k \in 2 .. n : starts[k] - 1 \in Bars(B)
             /\ \A x \in Bars(B) : \E k \in 2 .. n : starts[k] = x + 1
<1> DEFINE P == {1} \cup {k + 1 : k \in {j \in DOMAIN B : B[j] = "|"}}
<1>1. m \in Nat /\ m >= 2 /\ DOMAIN B = 1 .. m
  BY TextFacts
<1>2. Bars(B) \in SUBSET (1 .. m - 2)
  <2> SUFFICES ASSUME NEW x \in Bars(B) PROVE x \in 1 .. m - 2
    OBVIOUS
  <2>1. x \in 1 .. m /\ B[x] # NUL
    BY <1>1 DEF Bars, NUL
  <2>2. ~ (x >= m - 1)
    BY <2>1, TextFacts
  <2> QED BY <1>1, <2>1, <2>2
<1>3. P = {1} \cup {k + 1 : k \in Bars(B)}
  BY DEF Bars
<1> HIDE DEF P
<1>4. P \in SUBSET (1 .. m - 1)
  <2>1. 1 \in 1 .. m - 1
    BY <1>1
  <2>2. \A k \in Bars(B) : k + 1 \in 1 .. m - 1
    BY <1>1, <1>2
  <2> QED BY <1>3, <2>1, <2>2
<1>5. Ordered(P)
  <2>1. m - 1 \in Nat
    BY <1>1
  <2> QED BY <1>4, <2>1, PlacesHaveAnOrder
<1>6. PICK n \in Nat : \E f \in [1 .. n -> Nat] : Increasing(f, n) /\ P = {f[k] : k \in 1 .. n}
  BY <1>5 DEF Ordered
<1>7. PICK f \in [1 .. n -> Nat] : Increasing(f, n) /\ P = {f[k] : k \in 1 .. n}
  BY <1>6
<1>8. Starts(B) = f
  <2>1. InOrder({f[k] : k \in 1 .. n}) = f
    BY <1>7, InOrderIs
  <2>2. InOrder(P) = f
    BY <1>7, <2>1
  <2> QED BY <2>2 DEF Starts, P
<1>9. Len(f) = n /\ DOMAIN f = 1 .. n
  <2>1. DOMAIN f = 1 .. n /\ f = [k \in 1 .. n |-> f[k]]
    OBVIOUS
  <2> QED BY <2>1, LengthOfList
<1>10. \A k \in 1 .. n : f[k] \in P
  BY <1>7
<1>11. PICK k0 \in 1 .. n : f[k0] = 1
  BY <1>3, <1>7
<1>12. n # 0 /\ 1 \in 1 .. n
  BY <1>11
<1>13. f[1] = 1
  <2>1. f[1] \in 1 .. m - 1
    BY <1>4, <1>10, <1>12
  <2>2. CASE k0 = 1
    BY <1>11, <2>2
  <2>3. CASE k0 # 1
    <3>1. 1 < k0
      BY <2>3
    <3>2. f[1] < f[k0]
      BY <1>7, <1>12, <3>1 DEF Increasing
    <3> QED BY <1>11, <2>1, <3>2
  <2> QED BY <2>2, <2>3
<1>14. ASSUME NEW k \in 2 .. n PROVE f[k] - 1 \in Bars(B)
  <2>1. k \in 1 .. n /\ 1 < k
    BY <1>12
  <2>2. f[1] < f[k]
    BY <1>7, <1>12, <2>1 DEF Increasing
  <2>3. f[k] # 1
    BY <1>13, <2>2
  <2>4. PICK x \in Bars(B) : f[k] = x + 1
    BY <1>3, <1>10, <2>1, <2>3
  <2>5. x \in 1 .. m - 2
    BY <1>2
  <2>6. f[k] - 1 = x
    BY <2>4, <2>5
  <2> QED BY <2>6
<1>15. ASSUME NEW x \in Bars(B) PROVE \E k \in 2 .. n : f[k] = x + 1
  <2>1. PICK k \in 1 .. n : f[k] = x + 1
    BY <1>3, <1>7
  <2>2. k # 1
    BY <1>2, <1>13, <2>1
  <2> QED BY <2>1, <2>2
<1>16. ASSUME NEW k \in 1 .. n PROVE f[k] \in 1 .. m - 1 /\ BeginsSegment(B, f[k])
  <2>1. f[k] \in 1 .. m - 1
    BY <1>4, <1>10
  <2>2. CASE k = 1
    BY <1>13, <2>1, <2>2 DEF BeginsSegment
  <2>3. CASE k # 1
    <3>1. k \in 2 .. n
      BY <2>3
    <3> QED BY <1>14, <2>1, <3>1 DEF BeginsSegment, Bars
  <2> QED BY <2>2, <2>3
<1> QED BY <1>7, <1>8, <1>9, <1>12, <1>13, <1>14, <1>15, <1>16

-----------------------------------------------------------------------------
(* The segments of a line *)

\* The rules, as far as the redirections before x go.
InLegal(B, x) ==
  \A p \in InputsOf(B) : p < x => \A r \in Stops(B) : ~ (r < p)
OutLegal(B, x) ==
  \A p \in OutputsOf(B) : p < x => \A q \in Bars(B) : \E r \in Stops(B) : ~ (r < q) /\ ~ (p <= r)

\* The line has been read up to x, and no rule is broken so far.
ReadUpTo(B, m, made, x) ==
  /\ made.line = CutUpTo(B, m, x) /\ Boundary(B, x)
  /\ LastIn(B, "<", 1, x, made.in) /\ LastIn(B, ">", 1, x, made.out)
  /\ InLegal(B, x) /\ OutLegal(B, x)

\* Two searches that follow one another.
LEMMA LastOfTwo ==
  ASSUME NEW B, NEW m, IsText(B, m), NEW s \in 1 .. m, NEW x \in s .. m,
         NEW op, NEW v, NEW w, LastIn(B, op, 1, s, v), LastIn(B, op, s, x, w)
  PROVE  /\ LastIn(B, op, 1, x, IF w = 0 THEN v ELSE w)
         /\ w = 0 <=> \A p \in Redirections(B) : B[p] = op /\ p < x => p < s
<1>1. \A p \in Redirections(B) : p \in Nat /\ 1 <= p /\ NameBegin(B, p) # 0
  BY RedirectionFacts, TextFacts
<1>2. CASE w = 0
  <2>1. \A p \in Redirections(B) : B[p] = op /\ p < x => p < s
    BY <1>1, <1>2 DEF LastIn
  <2>2. \A p \in Redirections(B) : B[p] = op => (p < x <=> p < s)
    BY <1>1, <2>1
  <2>3. LastIn(B, op, 1, x, v)
    BY <2>2 DEF LastIn
  <2> QED BY <1>2, <2>1, <2>3
<1>3. CASE w # 0
  <2>1. PICK p \in Redirections(B) : /\ B[p] = op /\ s <= p /\ p < x /\ w = NameBegin(B, p)
                                     /\ \A q \in Redirections(B) : B[q] = op /\ q < x => q <= p
    BY <1>3 DEF LastIn
  <2>2. LastIn(B, op, 1, x, w)
    BY <1>1, <2>1 DEF LastIn
  <2>3. ~ (p < s)
    BY <1>1, <2>1
  <2> QED BY <1>3, <2>1, <2>2, <2>3
<1> QED BY <1>2, <1>3

\* A segment whose start the search has not passed yet.
LEMMA OneMoreSegment ==
  ASSUME NEW B, NEW m, IsText(B, m), NEW starts, starts = Starts(B),
         NEW k \in 1 .. Len(starts), NEW made, NEW x, x = starts[k] - 1,
         k = 1 \/ x \in Stops(B), ReadUpTo(B, m, made, x)
  PROVE  LET next == ParseSegment(made, starts, k)
         IN  /\ next.ok => \E y \in starts[k] .. m : /\ ReadUpTo(B, m, next, y)
                                                     /\ y \in Stops(B) \/ B[y] = NUL
             /\ ~ next.ok => ~ InLegal(B, m) \/ ~ OutLegal(B, m)
<1> DEFINE s == starts[k]
           n == Len(starts)
           r == Extract(CutUpTo(B, m, s), s)
           next == ParseSegment(made, starts, k)
<1>1. /\ m \in Nat /\ n \in Nat /\ s \in 1 .. m /\ x + 1 = s /\ x \in Nat /\ BeginsSegment(B, s)
      /\ \A j \in 2 .. n : starts[j] - 1 \in Bars(B)
      /\ \A q \in Bars(B) : \E j \in 2 .. n : starts[j] = q + 1
      /\ Increasing(starts, n) /\ \A j \in 1 .. n : starts[j] \in Nat
      /\ \A q \in Bars(B) : q \in Nat /\ B[q] = "|"
  <2>1. starts[k] \in 1 .. m - 1 /\ BeginsSegment(B, s) /\ \A j \in 1 .. n : starts[j] \in 1 .. m - 1
    BY StartsAre
  <2>2. m \in Nat /\ DOMAIN B = 1 .. m
    BY TextFacts
  <2>3. /\ n \in Nat /\ Increasing(starts, n)
        /\ \A j \in 2 .. n : starts[j] - 1 \in Bars(B)
        /\ \A q \in Bars(B) : \E j \in 2 .. n : starts[j] = q + 1
    BY StartsAre
  <2>4. \A q \in Bars(B) : q \in Nat /\ B[q] = "|"
    BY <2>2 DEF Bars
  <2>5. s \in 1 .. m /\ x + 1 = s /\ x \in Nat
    <3>1. s \in 1 .. m - 1
      BY <2>1
    <3> HIDE DEF s
    <3> QED BY <2>2, <3>1 DEF s
  <2>6. \A j \in 1 .. n : starts[j] \in Nat
    BY <2>1, <2>2
  <2> QED BY <2>1, <2>2, <2>3, <2>4, <2>5, <2>6
<1>2. \A p \in Redirections(B) : /\ p \in Nat /\ 1 <= p /\ p < m /\ B[p] \in {"<", ">"}
                                 /\ NameBegin(B, p) \in Nat /\ NameEnd(B, p) \in Nat
  BY RedirectionFacts, TextFacts
<1>3. \A p \in Redirections(B) : p < s <=> p < x
  <2> SUFFICES ASSUME NEW p \in Redirections(B) PROVE p # x
    BY <1>1, <1>2
  <2>1. k = 1 => x = 0
    BY <1>1, StartsAre
  <2>2. x \in Stops(B) => B[x] = "|"
    BY DEF Stops, Bars
  <2> QED BY <1>2, <2>1, <2>2
<1>4. CutUpTo(B, m, x) = CutUpTo(B, m, s)
  BY <1>3 DEF CutUpTo
<1>5. Boundary(B, s)
  <2> SUFFICES ASSUME NEW p \in Redirections(B), p < s PROVE Behind(B, p) <= s
    BY DEF Boundary
  <2>1. Behind(B, p) <= x /\ Behind(B, p) \in Nat
    BY <1>2, <1>3 DEF ReadUpTo, Boundary, Behind
  <2> QED BY <1>1, <2>1
<1>6. LastIn(B, "<", 1, s, made.in) /\ LastIn(B, ">", 1, s, made.out)
  <2>1. LastIn(B, "<", 1, x, made.in) /\ LastIn(B, ">", 1, x, made.out)
    BY DEF ReadUpTo
  <2> HIDE DEF s
  <2> QED BY <1>3, <2>1 DEF LastIn
<1>7. PICK y \in s .. m : SearchedTo(B, m, s, r, y)
  <2> HIDE DEF s
  <2> QED BY <1>1, <1>5, SearchFromBoundary
<1>8. made.line = CutUpTo(B, m, s)
  BY <1>4 DEF ReadUpTo
<1>9. /\ next.line = r.line
      /\ next.ok <=> (r.in # 0 => k = 1) /\ (r.out # 0 => k = n)
      /\ next.in = IF r.in = 0 THEN made.in ELSE r.in
      /\ next.out = IF r.out = 0 THEN made.out ELSE r.out
  <2>1. Extract(made.line, starts[k]) = r
    BY <1>8
  <2> HIDE DEF r
  <2> QED BY <2>1 DEF ParseSegment
<1>10. /\ LastIn(B, "<", s, y, r.in) /\ LastIn(B, ">", s, y, r.out)
       /\ next.line = CutUpTo(B, m, y) /\ Boundary(B, y)
       /\ \A j \in s .. y - 1 : j \notin Stops(B)
       /\ y \in Stops(B) \/ B[y] = NUL
  BY <1>7, <1>9 DEF SearchedTo
<1> HIDE DEF s, n, r, next
<1>11. /\ LastIn(B, "<", 1, y, next.in) /\ LastIn(B, ">", 1, y, next.out)
       /\ r.in = 0 <=> \A p \in Redirections(B) : B[p] = "<" /\ p < y => p < s
       /\ r.out = 0 <=> \A p \in Redirections(B) : B[p] = ">" /\ p < y => p < s
  <2>1. s \in 1 .. m /\ y \in s .. m
    BY <1>1, <1>7
  <2>2. \A op, v, w : LastIn(B, op, 1, s, v) /\ LastIn(B, op, s, y, w) =>
          /\ LastIn(B, op, 1, y, IF w = 0 THEN v ELSE w)
          /\ w = 0 <=> \A p \in Redirections(B) : B[p] = op /\ p < y => p < s
    BY <2>1, LastOfTwo
  <2> QED BY <1>6, <1>9, <1>10, <2>2
<1>12. ASSUME r.in # 0 => k = 1 PROVE InLegal(B, y)
  <2> SUFFICES ASSUME NEW p \in InputsOf(B), p < y, NEW q \in Stops(B), q < p PROVE FALSE
    BY DEF InLegal
  <2>1. p \in Redirections(B) /\ B[p] = "<"
    BY DEF InputsOf
  <2>2. CASE p < s
    <3>1. InLegal(B, x)
      BY DEF ReadUpTo
    <3> QED BY <1>3, <2>1, <2>2, <3>1 DEF InLegal
  <2>3. CASE ~ (p < s)
    <3>1. r.in # 0
      BY <1>11, <2>1, <2>3
    <3>2. s = 1
      BY <1>12, <3>1, StartsAre DEF s
    <3>3. q \in Nat /\ B[q] = "|"
      BY <1>1 DEF Stops
    <3>4. q # 0
      <4>1. q \in 1 .. m
        BY TextFacts DEF Stops, Bars
      <4> QED BY <4>1
    <3>5. q \in s .. y - 1
      BY <1>1, <1>2, <1>7, <2>1, <3>2, <3>3, <3>4
    <3> QED BY <1>10, <3>5
  <2> QED BY <2>2, <2>3
<1>13. ASSUME r.out # 0 => k = n PROVE OutLegal(B, y)
  <2> SUFFICES ASSUME NEW p \in OutputsOf(B), p < y, NEW q \in Bars(B)
               PROVE  \E e \in Stops(B) : ~ (e < q) /\ ~ (p <= e)
    BY DEF OutLegal
  <2>1. p \in Redirections(B) /\ B[p] = ">"
    BY DEF OutputsOf
  <2>2. CASE p < s
    <3>1. OutLegal(B, x)
      BY DEF ReadUpTo
    <3> QED BY <1>3, <2>1, <2>2, <3>1 DEF OutLegal
  <2>3. CASE ~ (p < s)
    <3>1. r.out # 0
      BY <1>11, <2>1, <2>3
    <3>2. k = n
      BY <1>13, <3>1
    <3>3. PICK j \in 2 .. n : starts[j] = q + 1
      BY <1>1
    <3>4. j = n \/ starts[j] < starts[n]
      <4>1. j \in 1 .. n /\ n \in 1 .. n /\ (j = n \/ j < n)
        BY <1>1, <3>3
      <4> QED BY <1>1, <4>1 DEF Increasing
    <3>5. k # 1
      BY <1>1, <3>2, <3>3
    <3>6. x \in Stops(B)
      BY <3>5
    <3>7. starts[j] <= s
      <4>1. s \in Nat /\ starts[n] = s
        BY <1>1, <3>2 DEF s
      <4> HIDE DEF s
      <4>2. starts[j] \in Nat
        BY <1>1, <3>3
      <4> QED BY <3>4, <4>1, <4>2
    <3>8. q \in Nat /\ p \in Nat /\ x \in Nat /\ s = x + 1
      BY <1>1, <1>2, <2>1
    <3>9. ~ (x < q) /\ ~ (p <= x)
      BY <2>3, <3>3, <3>7, <3>8
    <3> QED BY <3>6, <3>9
  <2> QED BY <2>2, <2>3
<1>14. CASE next.ok
  <2>1. ReadUpTo(B, m, next, y)
    BY <1>9, <1>10, <1>11, <1>12, <1>13, <1>14 DEF ReadUpTo
  <2> QED BY <1>10, <1>14, <2>1 DEF s, next
<1>15. ASSUME r.in # 0, k # 1 PROVE ~ InLegal(B, m)
  <2>1. PICK p \in Redirections(B) : B[p] = "<" /\ p < y /\ ~ (p < s)
    BY <1>11, <1>15
  <2>2. x \in Stops(B) /\ p \in InputsOf(B)
    BY <1>15, <2>1 DEF InputsOf
  <2>3. p < m /\ x < p
    BY <1>1, <1>2, <2>1
  <2> QED BY <2>2, <2>3 DEF InLegal
<1>16. ASSUME r.out # 0, k # n PROVE ~ OutLegal(B, m)
  <2> SUFFICES ASSUME OutLegal(B, m) PROVE FALSE
    OBVIOUS
  <2>1. PICK p \in Redirections(B) : B[p] = ">" /\ p < y /\ ~ (p < s)
    BY <1>11, <1>16
  <2>2. p \in OutputsOf(B) /\ p < m
    BY <1>2, <2>1 DEF OutputsOf
  <2>3. k \in 1 .. n /\ n \in 2 .. n /\ k < n
    BY <1>1, <1>16 DEF n
  <2>4. starts[n] - 1 \in Bars(B) /\ s < starts[n] /\ starts[n] \in Nat
    <3>1. starts[k] < starts[n]
      BY <1>1, <2>3 DEF Increasing
    <3> QED BY <1>1, <2>3, <3>1 DEF s
  <2>5. PICK e \in Stops(B) : ~ (e < starts[n] - 1) /\ ~ (p <= e)
    BY <2>2, <2>4 DEF OutLegal
  <2>6. e \in Nat
    BY <1>1 DEF Stops
  <2>7. e \in s .. y - 1
    BY <1>1, <1>2, <1>7, <2>1, <2>4, <2>5, <2>6
  <2> QED BY <1>10, <2>7
<1>17. CASE ~ next.ok
  <2>1. ~ InLegal(B, m) \/ ~ OutLegal(B, m)
    BY <1>9, <1>15, <1>16, <1>17
  <2> QED BY <1>17, <2>1 DEF next
<1> QED BY <1>14, <1>17

\* A segment whose start the search has passed.
LEMMA SegmentPassed ==
  ASSUME NEW B, NEW m, IsText(B, m), NEW starts, starts = Starts(B),
         NEW k \in 1 .. Len(starts), NEW made, NEW x \in starts[k] .. m,
         x \in Stops(B) \/ B[x] = NUL, ReadUpTo(B, m, made, x)
  PROVE  ParseSegment(made, starts, k).ok /\ ReadUpTo(B, m, ParseSegment(made, starts, k), x)
<1> DEFINE s == starts[k]
           r == Extract(CutUpTo(B, m, x), s)
           next == ParseSegment(made, starts, k)
<1>1. s \in 1 .. m /\ BeginsSegment(B, s)
  <2>1. starts[k] \in 1 .. m - 1 /\ BeginsSegment(B, s) /\ m \in Nat
    BY StartsAre, TextFacts
  <2> QED BY <2>1
<1>2. r.line = CutUpTo(B, m, x) /\ r.in = 0 /\ r.out = 0
  BY <1>1, NothingLeft
<1>3. made.line = CutUpTo(B, m, x)
  BY DEF ReadUpTo
<1>4. next.line = CutUpTo(B, m, x) /\ next.ok /\ next.in = made.in /\ next.out = made.out
  <2>1. Extract(made.line, starts[k]) = r
    BY <1>3
  <2> HIDE DEF r
  <2> QED BY <1>2, <2>1 DEF ParseSegment
<1> HIDE DEF next
<1>5. ReadUpTo(B, m, next, x)
  BY <1>4 DEF ReadUpTo
<1> QED BY <1>4, <1>5 DEF next

\* The first k segments have been read.
SegmentsRead(B, m, made, k) ==
  IF made.ok
  THEN \E x \in 0 .. m :
         /\ ReadUpTo(B, m, made, x)
         /\ IF k = 0 THEN x = 0 ELSE Starts(B)[k] <= x /\ (x \in Stops(B) \/ B[x] = NUL)
  ELSE ~ InLegal(B, m) \/ ~ OutLegal(B, m)

\* One more segment, whether or not the search has passed its start.
LEMMA NextSegment ==
  ASSUME NEW B, NEW m, IsText(B, m), NEW k \in 1 .. Len(Starts(B)), NEW made,
         made.ok, SegmentsRead(B, m, made, k - 1)
  PROVE  SegmentsRead(B, m, ParseSegment(made, Starts(B), k), k)
<1> DEFINE starts == Starts(B)
           n == Len(starts)
           next == ParseSegment(made, starts, k)
<1>1. /\ m \in Nat /\ n \in Nat /\ \A j \in 1 .. n : starts[j] \in 1 .. m - 1
      /\ starts[1] = 1 /\ Increasing(starts, n)
      /\ \A q \in Bars(B) : \E j \in 2 .. n : starts[j] = q + 1
  BY StartsAre, TextFacts
<1>2. PICK x \in 0 .. m :
        /\ ReadUpTo(B, m, made, x)
        /\ IF k - 1 = 0 THEN x = 0 ELSE starts[k - 1] <= x /\ (x \in Stops(B) \/ B[x] = NUL)
  BY DEF SegmentsRead
<1> HIDE DEF n, starts, next
<1>3. starts[k] \in 1 .. m - 1 /\ starts[k] \in Nat
  BY <1>1 DEF n, starts
<1>4. ASSUME x < starts[k] PROVE x = starts[k] - 1 /\ (k = 1 \/ x \in Stops(B))
  <2>1. CASE k = 1
    BY <1>1, <1>2, <2>1
  <2>2. CASE k # 1
    <3>1. k - 1 # 0 /\ k - 1 \in 1 .. n /\ k \in 1 .. n
      BY <2>2 DEF n, starts
    <3>2. starts[k - 1] <= x /\ (x \in Stops(B) \/ B[x] = NUL)
      BY <1>2, <3>1
    <3>3. x \in 1 .. m
      <4>1. starts[k - 1] \in 1 .. m - 1
        BY <1>1, <3>1
      <4> QED BY <1>1, <3>2, <4>1
    <3>4. B[x] # NUL
      <4>1. ~ (x >= m - 1)
        BY <1>1, <1>3, <1>4, <3>3
      <4> QED BY <3>3, <4>1, TextFacts
    <3>5. x \in Bars(B) /\ x \in Stops(B)
      BY <3>2, <3>4 DEF Stops
    <3>6. PICK j \in 2 .. n : starts[j] = x + 1
      BY <1>1, <3>5
    <3>7. j \in 1 .. n /\ starts[j] \in Nat /\ starts[k - 1] \in Nat
      BY <1>1, <3>1, <3>6
    <3>8. ~ (j < k - 1) /\ j # k - 1
      <4>1. starts[k - 1] < starts[j]
        BY <3>2, <3>3, <3>6, <3>7
      <4>2. j < k - 1 => starts[j] < starts[k - 1]
        BY <1>1, <3>1, <3>7 DEF Increasing
      <4> QED BY <3>7, <4>1, <4>2
    <3>9. j = k \/ k < j
      BY <3>1, <3>7, <3>8
    <3>10. starts[k] <= starts[j]
      <4>1. k < j => starts[k] < starts[j]
        BY <1>1, <3>1, <3>7 DEF Increasing
      <4> QED BY <1>3, <3>7, <3>9, <4>1
    <3> QED BY <1>3, <1>4, <3>3, <3>5, <3>6, <3>10
  <2> QED BY <2>1, <2>2
<1>5. k # 0 /\ \A y \in starts[k] .. m : y \in 0 .. m /\ starts[k] <= y
  BY <1>1, <1>3
<1>6. CASE x < starts[k]
  <2>1. /\ next.ok => \E y \in starts[k] .. m : /\ ReadUpTo(B, m, next, y)
                                                /\ y \in Stops(B) \/ B[y] = NUL
        /\ ~ next.ok => ~ InLegal(B, m) \/ ~ OutLegal(B, m)
    <3>1. x = starts[k] - 1 /\ (k = 1 \/ x \in Stops(B)) /\ k \in 1 .. Len(starts)
      BY <1>4, <1>6 DEF starts
    <3> QED BY <1>2, <3>1, OneMoreSegment DEF next, starts
  <2>2. CASE next.ok
    <3>1. PICK y \in starts[k] .. m : ReadUpTo(B, m, next, y) /\ (y \in Stops(B) \/ B[y] = NUL)
      BY <2>1, <2>2
    <3>2. y \in 0 .. m /\ starts[k] <= y
      BY <1>5, <3>1
    <3>3. SegmentsRead(B, m, next, k)
      BY <1>5, <2>2, <3>1, <3>2 DEF SegmentsRead, starts
    <3> QED BY <3>3 DEF next, starts
  <2>3. CASE ~ next.ok
    <3>1. SegmentsRead(B, m, next, k)
      BY <2>1, <2>3 DEF SegmentsRead
    <3> QED BY <3>1 DEF next, starts
  <2> QED BY <2>2, <2>3
<1>7. CASE ~ (x < starts[k])
  <2>1. x \in starts[k] .. m /\ starts[k] <= x
    BY <1>2, <1>3, <1>7
  <2>2. x \in Stops(B) \/ B[x] = NUL
    <3>1. CASE k = 1
      BY <1>1, <1>2, <2>1, <3>1
    <3>2. CASE k # 1
      <4>1. k - 1 # 0
        BY <3>2
      <4> QED BY <1>2, <4>1
    <3> QED BY <3>1, <3>2
  <2>3. next.ok /\ ReadUpTo(B, m, next, x)
    BY <1>2, <2>1, <2>2, SegmentPassed DEF next, starts
  <2>4. SegmentsRead(B, m, next, k)
    BY <1>5, <2>1, <2>2, <2>3 DEF SegmentsRead, starts
  <2> QED BY <2>4 DEF next, starts
<1> QED BY <1>2, <1>3, <1>6, <1>7

\* The loop over the segments.
SegmentsUpTo(f, line, starts, m) ==
  f = [k \in 0 .. m |-> IF k = 0 THEN [line |-> line, ok |-> TRUE, in |-> 0, out |-> 0]
                        ELSE IF f[k - 1].ok THEN ParseSegment(f[k - 1], starts, k)
                             ELSE f[k - 1]]

\* The recursion of ParseSegments defines a function.
LEMMA SegmentsExist ==
  ASSUME NEW line, NEW starts, NEW m \in Nat PROVE \E f : SegmentsUpTo(f, line, starts, m)
<1> DEFINE T == {k \in Nat : ~ \E f : SegmentsUpTo(f, line, starts, k)}
<1> SUFFICES ASSUME T # {} PROVE FALSE
  OBVIOUS
<1>1. PICK k \in T : \A j \in T : k <= j
  BY Least
<1>2. CASE k = 0
  <2> DEFINE f == [j \in 0 .. 0 |-> [line |-> line, ok |-> TRUE, in |-> 0, out |-> 0]]
  <2>1. SegmentsUpTo(f, line, starts, 0)
    BY DEF SegmentsUpTo
  <2> HIDE DEF f
  <2> QED BY <1>1, <1>2, <2>1
<1>3. CASE k # 0
  <2>1. k - 1 \in Nat /\ k - 1 \notin T
    BY <1>1, <1>3
  <2>2. PICK g : SegmentsUpTo(g, line, starts, k - 1)
    BY <2>1
  <2> DEFINE f == [j \in 0 .. k |-> IF j # k THEN g[j]
                                  ELSE IF g[k - 1].ok THEN ParseSegment(g[k - 1], starts, k)
                             ELSE g[k - 1]]
  <2>3. \A j \in 0 .. k - 1 : g[j] = IF j = 0 THEN [line |-> line, ok |-> TRUE, in |-> 0, out |-> 0]
                                   ELSE IF g[j - 1].ok THEN ParseSegment(g[j - 1], starts, j)
                             ELSE g[j - 1]
    BY <2>1, <2>2 DEF SegmentsUpTo
  <2>4. ASSUME NEW j \in 0 .. k
        PROVE  f[j] = IF j = 0 THEN [line |-> line, ok |-> TRUE, in |-> 0, out |-> 0]
                      ELSE IF f[j - 1].ok THEN ParseSegment(f[j - 1], starts, j)
                             ELSE f[j - 1]
    <3>1. CASE j = k
      <4>1. f[k - 1] = g[k - 1]
        BY <2>1
      <4> QED BY <1>3, <3>1, <4>1
    <3>2. CASE j # k
      <4>1. j \in 0 .. k - 1 /\ f[j] = g[j] /\ (j # 0 => f[j - 1] = g[j - 1])
        BY <1>1, <3>2
      <4> QED BY <2>3, <4>1
    <3> QED BY <3>1, <3>2
  <2>5. f = [j \in 0 .. k |-> f[j]]
    OBVIOUS
  <2> HIDE DEF f
  <2>6. SegmentsUpTo(f, line, starts, k)
    BY <2>4, <2>5 DEF SegmentsUpTo
  <2> QED BY <1>1, <2>6
<1> QED BY <1>2, <1>3

\* The segments are read to the end of the line, unless one of them breaks a rule.
LEMMA ParseSegmentsIs ==
  ASSUME NEW B, NEW m, IsText(B, m)
  PROVE  LET made == ParseSegments(Cut(B), Starts(B))
         IN  IF made.ok THEN ReadUpTo(B, m, made, m)
             ELSE ~ InLegal(B, m) \/ ~ OutLegal(B, m)
<1> DEFINE starts == Starts(B)
           n == Len(starts)
           made == ParseSegments(Cut(B), starts)
<1>1. /\ m \in Nat /\ n \in Nat \ {0} /\ \A j \in 1 .. n : starts[j] \in 1 .. m - 1
      /\ Increasing(starts, n)
      /\ \A q \in Bars(B) : \E j \in 2 .. n : starts[j] = q + 1
  BY StartsAre, TextFacts
<1>2. PICK f : SegmentsUpTo(f, Cut(B), starts, n) /\ made = f[n]
  <2> DEFINE f == CHOOSE f : SegmentsUpTo(f, Cut(B), starts, n)
  <2>1. SegmentsUpTo(f, Cut(B), starts, n)
    BY <1>1, SegmentsExist
  <2>2. made = f[n]
    BY <1>1 DEF ParseSegments, SegmentsUpTo
  <2> QED BY <2>1, <2>2
<1>3. /\ f[0] = [line |-> Cut(B), ok |-> TRUE, in |-> 0, out |-> 0]
      /\ \A k \in 1 .. n : f[k] = IF f[k - 1].ok THEN ParseSegment(f[k - 1], starts, k) ELSE f[k - 1]
  <2>1. \A k \in 0 .. n : f[k] = IF k = 0 THEN [line |-> Cut(B), ok |-> TRUE, in |-> 0, out |-> 0]
                                ELSE IF f[k - 1].ok THEN ParseSegment(f[k - 1], starts, k)
                                ELSE f[k - 1]
    BY <1>2 DEF SegmentsUpTo
  <2>2. 0 \in 0 .. n /\ \A k \in 1 .. n : k \in 0 .. n /\ k # 0
    BY <1>1
  <2> HIDE DEF n
  <2> QED BY <2>1, <2>2
<1> HIDE DEF made
<1>4. SegmentsRead(B, m, f[0], 0)
  <2>1. \A p \in Redirections(B) : p \in Nat /\ ~ (p < 0)
    BY RedirectionFacts, TextFacts
  <2>2. Cut(B) = CutUpTo(B, m, 0)
    <3>1. DOMAIN B = 1 .. m
      BY TextFacts
    <3> QED BY <2>1, <3>1 DEF Cut, CutUpTo
  <2>3. Boundary(B, 0) /\ InLegal(B, 0) /\ OutLegal(B, 0)
        /\ LastIn(B, "<", 1, 0, 0) /\ LastIn(B, ">", 1, 0, 0)
    BY <2>1 DEF Boundary, InLegal, OutLegal, InputsOf, OutputsOf, LastIn
  <2>4. f[0].ok /\ f[0].line = Cut(B) /\ f[0].in = 0 /\ f[0].out = 0
    BY <1>3
  <2>5. ReadUpTo(B, m, f[0], 0) /\ 0 \in 0 .. m
    BY <1>1, <2>2, <2>3, <2>4 DEF ReadUpTo
  <2> QED BY <2>4, <2>5 DEF SegmentsRead
<1>5. ASSUME NEW k \in 1 .. n, SegmentsRead(B, m, f[k - 1], k - 1) PROVE SegmentsRead(B, m, f[k], k)
  <2>1. CASE f[k - 1].ok
    BY <1>3, <1>5, <2>1, NextSegment
  <2>2. CASE ~ f[k - 1].ok
    <3>1. f[k] = f[k - 1]
      BY <1>3, <2>2
    <3> QED BY <1>5, <2>2, <3>1 DEF SegmentsRead
  <2> QED BY <2>1, <2>2
<1>6. \A k \in 0 .. n : SegmentsRead(B, m, f[k], k)
  <2> DEFINE T == {k \in 0 .. n : ~ SegmentsRead(B, m, f[k], k)}
  <2> SUFFICES ASSUME T # {} PROVE FALSE
    OBVIOUS
  <2>1. PICK k \in T : \A j \in T : k <= j
    <3>1. T \in SUBSET Nat
      BY <1>1
    <3> HIDE DEF T
    <3> QED BY <3>1, Least
  <2>2. k # 0
    BY <1>4, <2>1
  <2>3. k \in 1 .. n /\ k - 1 \in 0 .. n /\ k - 1 \notin T
    BY <1>1, <2>1, <2>2
  <2> QED BY <1>5, <2>1, <2>3
<1>7. SegmentsRead(B, m, made, n)
  BY <1>1, <1>2, <1>6
<1>8. CASE ~ made.ok
  BY <1>7, <1>8 DEF SegmentsRead, made
<1>9. CASE made.ok
  <2>1. PICK x \in 0 .. m : /\ ReadUpTo(B, m, made, x)
                            /\ starts[n] <= x /\ (x \in Stops(B) \/ B[x] = NUL)
    BY <1>1, <1>7, <1>9 DEF SegmentsRead
  <2> HIDE DEF starts, n
  <2>2. starts[n] \in 1 .. m - 1 /\ n \in 1 .. n
    BY <1>1
  <2>3. x \in 1 .. m
    BY <1>1, <2>1, <2>2
  <2>4. x \notin Stops(B)
    <3> SUFFICES ASSUME x \in Bars(B) PROVE FALSE
      BY DEF Stops
    <3>1. PICK j \in 2 .. n : starts[j] = x + 1
      BY <1>1
    <3>2. j \in 1 .. n /\ (j = n \/ j < n)
      BY <1>1, <3>1
    <3>3. j = n \/ starts[j] < starts[n]
      BY <1>1, <2>2, <3>2 DEF Increasing
    <3> QED BY <2>1, <2>2, <2>3, <3>1, <3>3
  <2>5. x >= m - 1
    BY <2>1, <2>3, <2>4, TextFacts
  <2>6. \A p \in Redirections(B) : p < x /\ p < m
    <3>1. \A p \in Redirections(B) : p \in 1 .. m - 2
      BY RedirectionFacts
    <3> QED BY <1>1, <2>3, <2>5, <3>1
  <2>7. CutUpTo(B, m, x) = CutUpTo(B, m, m)
    BY <2>6 DEF CutUpTo
  <2>8. Boundary(B, m)
    <3> SUFFICES ASSUME NEW p \in Redirections(B) PROVE Behind(B, p) <= m
      BY DEF Boundary
    <3>1. Behind(B, p) <= x /\ Behind(B, p) \in Nat
      BY <2>1, <2>6, RedirectionFacts, TextFacts DEF ReadUpTo, Boundary, Behind
    <3> QED BY <1>1, <2>3, <3>1
  <2>9. LastIn(B, "<", 1, m, made.in) /\ LastIn(B, ">", 1, m, made.out)
    BY <2>1, <2>6 DEF ReadUpTo, LastIn
  <2>10. InLegal(B, m) /\ OutLegal(B, m)
    BY <2>1, <2>6 DEF ReadUpTo, InLegal, OutLegal, InputsOf, OutputsOf
  <2>11. ReadUpTo(B, m, made, m)
    BY <2>1, <2>7, <2>8, <2>9, <2>10 DEF ReadUpTo
  <2> QED BY <1>9, <2>11 DEF made, starts
<1> QED BY <1>8, <1>9

-----------------------------------------------------------------------------
(* What main makes of the line *)

\* What fgets leaves in the buffer.
LEMMA BufferIs ==
  ASSUME NEW text \in Seq(STRING \ {NUL})
  PROVE  IsText(Buffer(text), Len(text) + 2)
<1> DEFINE B == Buffer(text)
           m == Len(text) + 2
           T == (STRING \ {NUL}) \cup {NUL}
<1>1. text \in Seq(T) /\ Len(text) \in Nat /\ \A k \in 1 .. Len(text) : text[k] # NUL
  <2>1. \A k \in 1 .. Len(text) : text[k] \in STRING \ {NUL}
    BY ElementOfSeq
  <2> HIDE DEF T
  <2>2. STRING \ {NUL} \subseteq T
    BY DEF T
  <2> QED BY <2>1, <2>2, SeqMonotonic, LenProperties
<1>2. <<NUL, NUL>> \in Seq(T) /\ Len(<<NUL, NUL>>) = 2
  OBVIOUS
<1> HIDE DEF T
<1>3. /\ B \in Seq(T) /\ Len(B) = m
      /\ \A k \in 1 .. m : B[k] = IF k <= Len(text) THEN text[k] ELSE <<NUL, NUL>>[k - Len(text)]
  BY <1>1, <1>2, ConcatProperties DEF Buffer
<1> HIDE DEF B
<1>4. B = [k \in 1 .. m |-> B[k]] /\ m \in Nat
  BY <1>1, <1>3, LenProperties
<1>5. m >= 2 /\ B[m - 1] = NUL /\ B[m] = NUL
  <2>1. \A k \in 1 .. m : ~ (k <= Len(text)) => k - Len(text) \in {1, 2}
    BY <1>1
  <2>2. \A k \in 1 .. m : ~ (k <= Len(text)) => B[k] = NUL
    BY <1>3, <2>1
  <2>3. m >= 2 /\ m - 1 \in 1 .. m /\ m \in 1 .. m /\ ~ (m - 1 <= Len(text)) /\ ~ (m <= Len(text))
    BY <1>1
  <2> QED BY <2>2, <2>3
<1>6. ASSUME NEW k \in 1 .. m - 2 PROVE B[k] # NUL
  <2>1. k \in 1 .. Len(text) /\ k \in 1 .. m
    BY <1>1
  <2> QED BY <1>1, <1>3, <2>1
<1> QED BY <1>3, <1>4, <1>5, <1>6 DEF IsText, IsLine, B

\* Of a line that breaks a rule main makes nothing, and of any other what it says.
LEMMA ParseUnderstands ==
  ASSUME NEW text \in Seq(STRING \ {NUL})
  PROVE  IF Refused(Buffer(text)) THEN ~ Parse(text).ok ELSE Parse(text) = Meaning(Buffer(text))
<1> DEFINE B == Buffer(text)
           m == Len(text) + 2
           starts == Starts(B)
           n == Len(starts)
           made == ParseSegments(Cut(B), starts)
           argvs == [k \in 1 .. n |-> Words(made.line, starts[k])]
<1>1. IsText(B, m)
  BY BufferIs
<1> HIDE DEF m
<1>2. Parse(text) = IF n > SHELL_PIPE_MAX \/ ~ made.ok
                    THEN [ok |-> FALSE, argvs |-> <<>>, in |-> None, out |-> None]
                    ELSE [ok |-> TRUE, argvs |-> argvs,
                          in |-> NameAt(made.line, made.in), out |-> NameAt(made.line, made.out)]
  BY DEF Parse
<1> HIDE DEF B
<1>3. IF made.ok THEN ReadUpTo(B, m, made, m) ELSE ~ InLegal(B, m) \/ ~ OutLegal(B, m)
  BY <1>1, ParseSegmentsIs
<1> HIDE DEF made
<1>4. \A p \in Redirections(B) : p < m /\ p \in Nat
  BY <1>1, RedirectionFacts, TextFacts
<1>5. Refused(B) <=> n > SHELL_PIPE_MAX \/ ~ InLegal(B, m) \/ ~ OutLegal(B, m)
  <2>1. ~ InLegal(B, m) <=> \E p \in InputsOf(B), r \in Stops(B) : r < p
    BY <1>4 DEF InLegal, InputsOf
  <2>2. ~ OutLegal(B, m) <=> \E p \in OutputsOf(B), q \in Bars(B) :
                               \A r \in Stops(B) : r < q \/ p <= r
    BY <1>4 DEF OutLegal, OutputsOf
  <2> QED BY <2>1, <2>2 DEF Refused
<1>6. made.ok <=> InLegal(B, m) /\ OutLegal(B, m)
  BY <1>3 DEF ReadUpTo
<1>7. CASE Refused(B)
  <2>1. ~ Parse(text).ok
    BY <1>2, <1>5, <1>6, <1>7
  <2> QED BY <1>7, <2>1 DEF B
<1>8. CASE ~ Refused(B)
  <2>1. ReadUpTo(B, m, made, m) /\ made.ok /\ ~ (n > SHELL_PIPE_MAX)
    BY <1>3, <1>5, <1>6, <1>8
  <2>2. made.line = CutUpTo(B, m, m)
    BY <2>1 DEF ReadUpTo
  <2>3. NameAt(made.line, made.in) = LastName(B, InputsOf(B))
    BY <1>1, <2>1, <2>2, LastNameIs DEF ReadUpTo, InputsOf
  <2>4. NameAt(made.line, made.out) = LastName(B, OutputsOf(B))
    BY <1>1, <2>1, <2>2, LastNameIs DEF ReadUpTo, OutputsOf
  <2>5. argvs = [k \in DOMAIN starts |-> CommandAt(B, starts[k])]
    <3>1. DOMAIN starts = 1 .. n
      BY <1>1, StartsAre
    <3>2. ASSUME NEW k \in 1 .. n PROVE Words(made.line, starts[k]) = CommandAt(B, starts[k])
      <4>1. starts[k] \in 1 .. m /\ BeginsSegment(B, starts[k])
        <5>1. starts[k] \in 1 .. m - 1 /\ BeginsSegment(B, starts[k]) /\ m \in Nat
          BY <1>1, StartsAre, TextFacts
        <5> QED BY <5>1
      <4> QED BY <1>1, <2>2, <4>1, WordsAre
    <3> QED BY <3>1, <3>2
  <2> HIDE DEF argvs, n
  <2>6. Parse(text) = [ok |-> TRUE, argvs |-> argvs,
                       in |-> LastName(B, InputsOf(B)), out |-> LastName(B, OutputsOf(B))]
    BY <1>2, <2>1, <2>3, <2>4
  <2>7. Parse(text) = Meaning(B)
    BY <2>5, <2>6 DEF Meaning
  <2> QED BY <1>8, <2>7 DEF B
<1> QED BY <1>7, <1>8

\* A line of text has a first segment, and one more for each bar.
LEMMA SegmentsOfALine ==
  ASSUME NEW T, NEW line \in Seq(T)
  PROVE  Len(Starts(line)) \in Nat \ {0} /\ DOMAIN Starts(line) = 1 .. Len(Starts(line))
<1> DEFINE begins == {1} \cup {k + 1 : k \in {j \in DOMAIN line : line[j] = "|"}}
<1>1. IsFiniteSet(begins) /\ 1 \in begins
  <2>1. DOMAIN line = 1 .. Len(line) /\ Len(line) \in Nat
    BY LenProperties
  <2>2. begins \subseteq 1 .. Len(line) + 1
    BY <2>1
  <2>3. IsFiniteSet(1 .. Len(line) + 1) /\ 1 \in begins
    BY <2>1, FS_Interval
  <2> HIDE DEF begins
  <2> QED BY <2>2, <2>3, FS_Subset
<1> HIDE DEF begins
<1>2. Cardinality(begins) \in Nat \ {0}
  BY <1>1, FS_EmptySet, FS_CardinalityType
<1>3. Starts(line) = [n \in 1 .. Cardinality(begins) |->
                        CHOOSE p \in begins : Cardinality({q \in begins : q < p}) = n - 1]
  BY DEF Starts, InOrder, begins
<1>4. /\ DOMAIN Starts(line) = 1 .. Cardinality(begins)
      /\ Starts(line) = [k \in 1 .. Cardinality(begins) |-> Starts(line)[k]]
  BY <1>3
<1>5. Len(Starts(line)) = Cardinality(begins)
  BY <1>2, <1>4, LengthOfList
<1> QED BY <1>2, <1>4, <1>5

LEMMA BufferIsText ==
  ASSUME NEW T, NEW text \in Seq(T)
  PROVE  Buffer(text) \in Seq(T \cup {NUL})
<1>1. <<NUL, NUL>> \in Seq(T \cup {NUL})
  OBVIOUS
<1>2. text \in Seq(T \cup {NUL})
  BY SeqMonotonic
<1> QED BY <1>1, <1>2, ConcatProperties DEF Buffer

\* What main takes for a pipeline has a command, and no more than SHELL_PIPE_MAX.
LEMMA CommandsOfALine ==
  ASSUME NEW T, NEW text \in Seq(T), Parse(text).ok
  PROVE  Len(Parse(text).argvs) \in Commands
<1> DEFINE starts == Starts(Buffer(text))
           result == ParseSegments(Cut(Buffer(text)), starts)
           argvs  == [k \in 1 .. Len(starts) |-> Words(result.line, starts[k])]
<1>1. Len(starts) \in Nat \ {0}
  <2>1. Buffer(text) \in Seq(T \cup {NUL})
    BY BufferIsText
  <2> QED BY <2>1, SegmentsOfALine
<1> HIDE DEF result
<1>2. Parse(text) = IF Len(starts) > SHELL_PIPE_MAX \/ ~result.ok
                    THEN [ok |-> FALSE, argvs |-> <<>>, in |-> None, out |-> None]
                    ELSE [ok |-> TRUE, argvs |-> argvs,
                          in |-> NameAt(result.line, result.in),
                          out |-> NameAt(result.line, result.out)]
  BY DEF Parse, result
<1> HIDE DEF starts
<1>3. Parse(text).argvs = argvs /\ ~ (Len(starts) > SHELL_PIPE_MAX)
  BY <1>2
<1>4. DOMAIN argvs = 1 .. Len(starts) /\ argvs = [k \in 1 .. Len(starts) |-> argvs[k]]
  OBVIOUS
<1> HIDE DEF argvs
<1>5. Len(argvs) = Len(starts)
  BY <1>1, <1>4, LengthOfList
<1> QED BY <1>1, <1>3, <1>5, ShellAssumption DEF Commands

-----------------------------------------------------------------------------
(* The invariant of run_pipeline *)

ShTypeOK ==
  /\ shell \in {"off", "prompt", "launch", "handover", "wait", "exited"}
  /\ process \in [Commands -> {"none", "forked", "read", "write", "ended"}]
  /\ readers \in [Pipes -> SUBSET (0 .. SHELL_PIPE_MAX)]
  /\ writers \in [Pipes -> SUBSET (0 .. SHELL_PIPE_MAX)]
  /\ spawned \in Nat /\ waited \in Nat

Children == {k \in Commands : process[k] # "none"}
Alive    == {k \in Commands : process[k] \in {"forked", "read", "write"}}

\* The children are those that were spawned and not waited for, those before i.
ChildrenCounted ==
  /\ shell \in {"off", "prompt"} => Children = {} /\ spawned = 0 /\ waited = 0
  /\ shell \in {"launch", "handover", "wait"} =>
       Length \in Commands /\ Cardinality(Children) + waited = spawned
  /\ shell = "launch"   => i \in 1 .. Length /\ \A k \in Children : k < i
  /\ shell = "handover" => i \in 1 .. Length /\ \A k \in Children : k <= i

\* Only the shell and commands that run hold the pipes; the shell holds the reading end
\* of the pipe that leads to the next command, and a new pipe until it is handed over.
HoldersLive ==
  /\ \A q \in Pipes : readers[q] \cup writers[q] \subseteq {0} \cup Alive
  /\ \A q \in Pipes : 0 \in readers[q] =>
       \/ shell = "launch" /\ q = i - 1
       \/ shell = "handover" /\ q \in {i - 1, i} \ {Length}
  /\ \A q \in Pipes : 0 \in writers[q] => shell = "handover"

\* Who reads or writes is one of the programs.
ProgramsRun == \A k \in Commands : process[k] \in {"read", "write"} => Program(k) \in Programs

ShIInv == ShTypeOK /\ ChildrenCounted /\ HoldersLive /\ ProgramsRun

LEMMA ChildrenAreFinite ==
  IsFiniteSet(Children) /\ Cardinality(Children) \in Nat
<1>1. IsFiniteSet(Commands)
  <2>1. SHELL_PIPE_MAX \in Nat
    BY ShellAssumption
  <2> QED BY <2>1, FS_Interval DEF Commands
<1> QED BY <1>1, FS_Subset, FS_CardinalityType DEF Children

LEMMA ShInitInv ==
  ASSUME ShInit PROVE ShIInv
BY ShellAssumption DEF ShInit, ShIInv, ShTypeOK, ChildrenCounted, HoldersLive, ProgramsRun,
                       Children, Alive

\* A child that goes on, or ends and lets go of what it held.
LEMMA ChildGoesOn ==
  ASSUME ShIInv, NEW k \in Commands, process[k] # "none",
         NEW next \in {"forked", "read", "write", "ended"}, ShGoesOn(k, next),
         next \in {"read", "write"} => Program(k) \in Programs,
         \A q \in Pipes : /\ readers'[q] \subseteq readers[q] /\ writers'[q] \subseteq writers[q]
                          /\ next = "ended" => k \notin readers'[q] \cup writers'[q],
         readers' \in [Pipes -> SUBSET (0 .. SHELL_PIPE_MAX)],
         writers' \in [Pipes -> SUBSET (0 .. SHELL_PIPE_MAX)]
  PROVE  ShIInv'
<1>1. /\ process' = [process EXCEPT ![k] = next]
      /\ UNCHANGED <<shell, job, i, spawned, waited>>
  BY DEF ShGoesOn
<1>2. ShTypeOK'
  BY <1>1 DEF ShIInv, ShTypeOK
<1>3. Children' = Children
  BY <1>1 DEF ShIInv, ShTypeOK, Children
<1>4. ChildrenCounted'
  BY <1>1, <1>3 DEF ShIInv, ChildrenCounted, Length
<1>5. HoldersLive'
  <2>1. \A p \in Commands : p # k /\ p \in Alive => p \in Alive'
    BY <1>1 DEF ShIInv, ShTypeOK, Alive
  <2>2. next # "ended" => k \in Alive'
    BY <1>1 DEF ShIInv, ShTypeOK, Alive
  <2>3. ASSUME NEW q \in Pipes PROVE readers'[q] \cup writers'[q] \subseteq {0} \cup Alive'
    BY <2>1, <2>2 DEF ShIInv, HoldersLive, Alive
  <2>4. ASSUME NEW q \in Pipes
        PROVE  /\ 0 \in readers'[q] => 0 \in readers[q]
               /\ 0 \in writers'[q] => 0 \in writers[q]
    OBVIOUS
  <2> QED BY <1>1, <2>3, <2>4 DEF ShIInv, HoldersLive, Length
<1>6. ProgramsRun'
  BY <1>1 DEF ShIInv, ShTypeOK, ProgramsRun, Program
<1> QED BY <1>2, <1>4, <1>5, <1>6 DEF ShIInv

LEMMA ChildEnds ==
  ASSUME ShIInv, NEW k \in Commands, process[k] # "none", ShGoesOn(k, "ended"), Drop(k)
  PROVE  ShIInv'
<1>1. /\ readers' = [q \in Pipes |-> readers[q] \ {k}]
      /\ writers' = [q \in Pipes |-> writers[q] \ {k}]
  BY DEF Drop, Without
<1>2. /\ readers' \in [Pipes -> SUBSET (0 .. SHELL_PIPE_MAX)]
      /\ writers' \in [Pipes -> SUBSET (0 .. SHELL_PIPE_MAX)]
  BY <1>1 DEF ShIInv, ShTypeOK
<1> QED BY <1>1, <1>2, ChildGoesOn

LEMMA ShChildInv ==
  ASSUME ShIInv, NEW k \in Commands, ShChild(k) PROVE ShIInv'
<1>1. CASE ShExec(k)
  <2>1. /\ process[k] # "none" /\ Program(k) \in Programs /\ writers' = writers
        /\ readers' = [q \in Pipes |-> IF q = k THEN readers[q] \ {k} ELSE readers[q]]
        /\ ShGoesOn(k, IF Program(k) = "y" THEN "write" ELSE "read")
    BY <1>1 DEF ShExec
  <2>2. readers' \in [Pipes -> SUBSET (0 .. SHELL_PIPE_MAX)] /\ writers' \in [Pipes -> SUBSET (0 .. SHELL_PIPE_MAX)]
    BY <2>1 DEF ShIInv, ShTypeOK
  <2>3. \A q \in Pipes : readers'[q] \subseteq readers[q] /\ writers'[q] \subseteq writers[q]
    BY <2>1
  <2>4. CASE Program(k) = "y"
    BY <2>1, <2>2, <2>3, <2>4, ChildGoesOn
  <2>5. CASE Program(k) # "y"
    BY <2>1, <2>2, <2>3, <2>5, ChildGoesOn
  <2> QED BY <2>4, <2>5
<1>2. CASE ShExecFails(k) \/ ShEndOfInput(k) \/ ShBrokenPipe(k)
  BY <1>2, ChildEnds DEF ShExecFails, ShEndOfInput, ShBrokenPipe, ShEnds
<1>3. CASE ShRead(k)
  <2>1. process[k] = "read" /\ ShGoesOn(k, "write") /\ UNCHANGED <<readers, writers>>
    BY <1>3 DEF ShRead, ends
  <2> QED BY <2>1, ChildGoesOn DEF ShIInv, ShTypeOK, ProgramsRun
<1>4. CASE ShWrite(k)
  <2>1. process[k] = "write" /\ Program(k) \in {"c", "h", "y"}
    BY <1>4 DEF ShWrite, ShIInv, ProgramsRun, Programs
  <2>2. CASE Program(k) = "h"
    BY <1>4, <2>1, <2>2, ChildEnds DEF ShWrite
  <2>3. CASE Program(k) # "h"
    <3>1. UNCHANGED <<readers, writers>> /\ (ShGoesOn(k, "read") \/ ShGoesOn(k, "write"))
      BY <1>4, <2>1, <2>3 DEF ShWrite, ends
    <3> QED BY <2>1, <3>1, ChildGoesOn DEF ShIInv, ShTypeOK, Programs
  <2> QED BY <2>2, <2>3
<1> QED BY <1>1, <1>2, <1>3, <1>4 DEF ShChild

LEMMA ShReadLineInv ==
  ASSUME ShIInv, NEW l \in ShLines, ShReadLine(l) PROVE ShIInv'
<1> DEFINE made == Parse(l)
<1>1. made.ok => Len(made.argvs) \in Commands
  BY ShellAssumption, CommandsOfALine
<1>2. /\ shell = "prompt" /\ UNCHANGED <<spawned, waited, process, readers, writers>>
      /\ IF made.ok THEN job' = made /\ i' = 1 /\ shell' = "launch" ELSE shell' = "exited"
  BY DEF ShReadLine, ends
<1> HIDE DEF made
<1>3. Children = {} /\ Children' = {} /\ spawned' = 0 /\ waited' = 0 /\ Cardinality({}) = 0
  BY <1>2, FS_EmptySet DEF ShIInv, ChildrenCounted, Children
<1>4. Alive = {} /\ Alive' = {}
  BY <1>2, <1>3 DEF Alive, Children
<1>5. \A q \in Pipes : readers[q] = {} /\ writers[q] = {}
  BY <1>2, <1>4 DEF ShIInv, HoldersLive
<1>6. ShTypeOK'
  BY <1>2 DEF ShIInv, ShTypeOK
<1>7. ChildrenCounted'
  BY <1>1, <1>2, <1>3 DEF ChildrenCounted, Length, Commands
<1>8. HoldersLive' /\ ProgramsRun'
  BY <1>2, <1>3, <1>5 DEF HoldersLive, ProgramsRun, Children
<1> QED BY <1>6, <1>7, <1>8 DEF ShIInv

LEMMA ShLaunchInv ==
  ASSUME ShIInv, ShLaunch PROVE ShIInv'
<1> DEFINE new(q) == q = i /\ q # Length
<1>1. /\ shell = "launch" /\ shell' = "handover" /\ process' = [process EXCEPT ![i] = "forked"]
      /\ spawned' = spawned + 1 /\ UNCHANGED <<job, i, waited>>
      /\ readers' = [q \in Pipes |-> IF new(q) \/ 0 \in readers[q]
                                     THEN readers[q] \cup {0, i} ELSE readers[q]]
      /\ writers' = [q \in Pipes |-> IF new(q) \/ 0 \in writers[q]
                                     THEN writers[q] \cup {0, i} ELSE writers[q]]
  BY DEF ShLaunch
<1>2. i \in 1 .. Length /\ Length \in Commands /\ i \in Commands /\ i \notin Children
  BY <1>1, ShellAssumption DEF ShIInv, ChildrenCounted, Commands
<1>3. ShTypeOK'
  <2>1. {0, i} \subseteq 0 .. SHELL_PIPE_MAX
    BY <1>2, ShellAssumption DEF Commands
  <2> HIDE DEF new
  <2>2. readers' \in [Pipes -> SUBSET (0 .. SHELL_PIPE_MAX)]
    BY <1>1, <2>1 DEF ShIInv, ShTypeOK
  <2>3. writers' \in [Pipes -> SUBSET (0 .. SHELL_PIPE_MAX)]
    BY <1>1, <2>1 DEF ShIInv, ShTypeOK
  <2> QED BY <1>1, <1>2, <2>2, <2>3 DEF ShIInv, ShTypeOK
<1>4. ChildrenCounted'
  <2>1. Children' = Children \cup {i}
    BY <1>1, <1>2 DEF ShIInv, ShTypeOK, Children
  <2>2. Cardinality(Children') = Cardinality(Children) + 1
    BY <1>2, <2>1, ChildrenAreFinite, FS_AddElement
  <2>3. Cardinality(Children') + waited' = spawned'
    BY <1>1, <2>2, ChildrenAreFinite DEF ShIInv, ShTypeOK, ChildrenCounted
  <2>4. \A k \in Children' : k <= i
    BY <1>1, <1>2, <2>1 DEF ShIInv, ChildrenCounted, Children, Commands
  <2> QED BY <1>1, <1>2, <2>3, <2>4 DEF ChildrenCounted, Length
<1>5. HoldersLive'
  <2>1. Alive' = Alive \cup {i}
    BY <1>1, <1>2 DEF ShIInv, ShTypeOK, Alive, Children
  <2>2. ASSUME NEW q \in Pipes PROVE readers'[q] \cup writers'[q] \subseteq {0} \cup Alive'
    <3>1. readers[q] \cup writers[q] \subseteq {0} \cup Alive
      BY DEF ShIInv, HoldersLive
    <3>2. readers'[q] \subseteq readers[q] \cup {0, i} /\ writers'[q] \subseteq writers[q] \cup {0, i}
      BY <1>1
    <3> QED BY <2>1, <3>1, <3>2
  <2>3. ASSUME NEW q \in Pipes, 0 \in readers'[q] PROVE q \in {i - 1, i} \ {Length}
    <3>1. new(q) \/ 0 \in readers[q]
      BY <1>1, <2>3
    <3>2. 0 \in readers[q] => q = i - 1
      BY <1>1 DEF ShIInv, HoldersLive
    <3> QED BY <1>2, <3>1, <3>2, ShellAssumption DEF Commands
  <2> QED BY <1>1, <2>2, <2>3 DEF HoldersLive, Length
<1>6. ProgramsRun'
  BY <1>1 DEF ShIInv, ShTypeOK, ProgramsRun, Program
<1> QED BY <1>3, <1>4, <1>5, <1>6 DEF ShIInv

LEMMA ShHandoverInv ==
  ASSUME ShIInv, ShHandover PROVE ShIInv'
<1>1. /\ shell = "handover" /\ UNCHANGED <<job, spawned, waited, process>>
      /\ readers' = [q \in Pipes |-> IF q = i - 1 THEN readers[q] \ {0} ELSE readers[q]]
      /\ writers' = [q \in Pipes |-> writers[q] \ {0}]
      /\ IF i = Length THEN shell' = "wait" ELSE shell' = "launch" /\ i' = i + 1
  BY DEF ShHandover, Without
<1>2. i \in 1 .. Length /\ Length \in Commands /\ Length \in Nat /\ i \in Int
  BY <1>1, ShellAssumption DEF ShIInv, ChildrenCounted, Commands
<1>3. ShTypeOK'
  BY <1>1 DEF ShIInv, ShTypeOK
<1>4. Children' = Children /\ Alive' = Alive /\ Length' = Length
  BY <1>1 DEF Children, Alive, Length
<1>5. ChildrenCounted'
  <2>1. \A k \in Children : k <= i /\ k \in Int
    BY <1>1, ShellAssumption DEF ShIInv, ChildrenCounted, Children, Commands
  <2>2. i # Length => i + 1 \in 1 .. Length /\ \A k \in Children : k < i + 1
    BY <1>2, <2>1
  <2> QED BY <1>1, <1>2, <1>4, <2>2 DEF ShIInv, ChildrenCounted
<1>6. HoldersLive'
  <2>1. ASSUME NEW q \in Pipes PROVE readers'[q] \cup writers'[q] \subseteq {0} \cup Alive'
    BY <1>1, <1>4 DEF ShIInv, HoldersLive
  <2>2. ASSUME NEW q \in Pipes PROVE 0 \notin writers'[q]
    BY <1>1
  <2>3. ASSUME NEW q \in Pipes, 0 \in readers'[q] PROVE q = i /\ i # Length
    BY <1>1, <2>3 DEF ShIInv, HoldersLive
  <2>4. i # Length => shell' = "launch" /\ i = i' - 1
    BY <1>1, <1>2
  <2> QED BY <2>1, <2>2, <2>3, <2>4 DEF HoldersLive
<1>7. ProgramsRun'
  BY <1>1 DEF ShIInv, ProgramsRun, Program
<1> QED BY <1>3, <1>5, <1>6, <1>7 DEF ShIInv

LEMMA ShWaitInv ==
  ASSUME ShIInv, NEW k \in Commands, ShWait(k) PROVE ShIInv'
<1>1. /\ shell = "wait" /\ process[k] = "ended" /\ process' = [process EXCEPT ![k] = "none"]
      /\ waited' = waited + 1 /\ UNCHANGED <<shell, job, i, spawned, readers, writers>>
  BY DEF ShWait, ends
<1>2. Children' = Children \ {k} /\ k \in Children /\ Alive' = Alive
  BY <1>1 DEF ShIInv, ShTypeOK, Children, Alive
<1>3. ShTypeOK'
  BY <1>1 DEF ShIInv, ShTypeOK
<1>4. ChildrenCounted'
  <2>1. Cardinality(Children') = Cardinality(Children) - 1
    BY <1>2, ChildrenAreFinite, FS_RemoveElement
  <2>2. Cardinality(Children') + waited' = spawned'
    BY <1>1, <2>1, ChildrenAreFinite DEF ShIInv, ShTypeOK, ChildrenCounted
  <2> QED BY <1>1, <2>2 DEF ShIInv, ChildrenCounted, Length
<1>5. HoldersLive' /\ ProgramsRun'
  BY <1>1, <1>2 DEF ShIInv, ShTypeOK, HoldersLive, ProgramsRun, Program, Length
<1> QED BY <1>3, <1>4, <1>5 DEF ShIInv

LEMMA ShReturnInv ==
  ASSUME ShIInv, ShReturn PROVE ShIInv'
<1>1. /\ shell = "wait" /\ waited = spawned /\ shell' = "prompt" /\ spawned' = 0 /\ waited' = 0
      /\ UNCHANGED <<i, process, readers, writers>>
  BY DEF ShReturn, ends
<1>2. Children = {}
  <2>1. Cardinality(Children) = 0
    BY <1>1, ChildrenAreFinite DEF ShIInv, ShTypeOK, ChildrenCounted
  <2> QED BY <2>1, ChildrenAreFinite, FS_EmptySet
<1>3. Children' = {} /\ Alive' = {} /\ Alive = {}
  BY <1>1, <1>2 DEF Children, Alive
<1>4. \A q \in Pipes : readers[q] = {} /\ writers[q] = {}
  BY <1>1, <1>3 DEF ShIInv, HoldersLive
<1>5. ShTypeOK' /\ ChildrenCounted'
  BY <1>1, <1>3 DEF ShIInv, ShTypeOK, ChildrenCounted
<1>6. HoldersLive' /\ ProgramsRun'
  BY <1>1, <1>3, <1>4 DEF HoldersLive, ProgramsRun, Children
<1> QED BY <1>5, <1>6 DEF ShIInv

LEMMA ShLeavesInv ==
  ASSUME ShIInv, ShLaunchFails \/ ShQuit \/ ShStart PROVE ShIInv'
<1>1. CASE ShLaunchFails
  <2>1. /\ shell' = "exited" /\ UNCHANGED <<job, i, spawned, waited, process>>
        /\ readers' = [q \in Pipes |-> readers[q] \ {0}]
        /\ writers' = [q \in Pipes |-> writers[q] \ {0}]
    BY <1>1 DEF ShLaunchFails, ShGivesUp, Drop, Without
  <2>2. Alive' = Alive
    BY <2>1 DEF Alive
  <2>3. ShTypeOK' /\ ChildrenCounted'
    BY <2>1 DEF ShIInv, ShTypeOK, ChildrenCounted
  <2>4. HoldersLive' /\ ProgramsRun'
    BY <2>1, <2>2 DEF ShIInv, HoldersLive, ProgramsRun, Program
  <2> QED BY <2>3, <2>4 DEF ShIInv
<1>2. CASE ShQuit \/ ShStart
  <2>1. /\ shell \in {"off", "prompt"} /\ shell' \in {"prompt", "exited"}
        /\ UNCHANGED <<job, i, spawned, waited, process, readers, writers>>
    BY <1>2 DEF ShQuit, ShStart, ends
  <2>2. Alive' = Alive /\ Children' = Children
    BY <2>1 DEF Alive, Children
  <2> QED BY <2>1, <2>2 DEF ShIInv, ShTypeOK, ChildrenCounted, HoldersLive, ProgramsRun, Program
<1> QED BY <1>1, <1>2

LEMMA ShNextInv ==
  ASSUME ShIInv, [ShNext]_shVars PROVE ShIInv'
<1>1. ASSUME UNCHANGED shVars PROVE ShIInv'
  <2>1. UNCHANGED <<shell, job, i, spawned, waited, process, readers, writers>>
    BY <1>1 DEF shVars, ends
  <2>2. Alive' = Alive /\ Children' = Children
    BY <2>1 DEF Alive, Children
  <2> QED BY <2>1, <2>2
          DEF ShIInv, ShTypeOK, ChildrenCounted, HoldersLive, ProgramsRun, Program, Length
<1> QED BY <1>1, ShChildInv, ShReadLineInv, ShLaunchInv, ShHandoverInv, ShWaitInv, ShReturnInv,
           ShLeavesInv
        DEF ShNext, ShStep

LEMMA ShInvariance == ShSpec => []ShIInv
BY ShInitInv, ShNextInv, PTL DEF ShSpec

\* Back at the prompt the shell has no child and no end of a pipe is open, and it holds
\* none while it waits, for any number of commands, any lines and whatever fails.
THEOREM ShellLeavesNothing == ShSpec => []ShLeavesNothing
<1>1. ShIInv => ShLeavesNothing
  <2> SUFFICES ASSUME ShIInv PROVE ShLeavesNothing
    OBVIOUS
  <2>1. shell = "prompt" => Children = {} /\ Alive = {}
    BY DEF ShIInv, ChildrenCounted, Children, Alive
  <2>2. shell = "prompt" => \A q \in Pipes : readers[q] = {} /\ writers[q] = {}
    BY <2>1 DEF ShIInv, HoldersLive
  <2>3. shell = "wait" => \A q \in Pipes : 0 \notin readers[q] \cup writers[q]
    BY DEF ShIInv, HoldersLive
  <2> QED BY <2>1, <2>2, <2>3 DEF ShLeavesNothing, Children
<1> QED BY <1>1, ShInvariance, PTL

-----------------------------------------------------------------------------
(* The line that is run *)

\* Until its first command is launched, the job is what main made of the line; a line
\* that was refused has ended the shell.
LineParsed ==
  typed # NoLine =>
    /\ typed \in ShLines
    /\ \/ shell = "launch" /\ Parse(typed).ok /\ job = Parse(typed)
       \/ shell = "exited" /\ ~ Parse(typed).ok

LEMMA LineParsedHolds == ShSpec => []LineParsed
<1>1. ShInit => LineParsed
  BY DEF ShInit, LineParsed
<1>2. ASSUME ShIInv, LineParsed, [ShNext]_shVars PROVE LineParsed'
  <2>1. CASE UNCHANGED <<shell, typed, job>>
    BY <1>2, <2>1 DEF LineParsed
  <2>2. ASSUME NEW l \in ShLines, ShReadLine(l) PROVE LineParsed'
    <3>1. /\ typed' = l
          /\ IF Parse(l).ok THEN job' = Parse(l) /\ shell' = "launch"
                                   ELSE shell' = "exited"
      BY <2>2 DEF ShReadLine
    <3> QED BY <3>1 DEF LineParsed
  <2>3. CASE typed' = NoLine
    BY <2>3 DEF LineParsed, NoLine
  <2>4. CASE shell \notin {"launch", "exited"} /\ UNCHANGED typed
    BY <1>2, <2>4 DEF LineParsed, NoLine
  <2>5. ASSUME ShStart \/ ShQuit \/ ShHandover \/ ShReturn PROVE LineParsed'
    BY <2>4, <2>5 DEF ShStart, ShQuit, ShHandover, ShReturn
  <2>6. ASSUME ShLaunchFails \/ ShLaunch PROVE LineParsed'
    BY <2>3, <2>6 DEF ShLaunchFails, ShGivesUp, ShLaunch
  <2>7. ASSUME NEW k \in Commands, ShWait(k) \/ ShChild(k) PROVE LineParsed'
    <3>1. CASE ShWait(k)
      BY <2>1, <3>1 DEF ShWait
    <3>2. CASE ShChild(k)
      <4>1. CASE ShWrite(k)
        <5>1. Program(k) \in {"c", "h", "y"}
          BY <1>2, <4>1 DEF ShWrite, ShIInv, ProgramsRun, Programs
        <5>2. \E next : ShGoesOn(k, next)
          BY <4>1, <5>1 DEF ShWrite
        <5> QED BY <2>1, <5>2 DEF ShGoesOn
      <4>2. CASE ~ ShWrite(k)
        <5>1. \E next : ShGoesOn(k, next)
          BY <3>2, <4>2 DEF ShChild, ShExec, ShExecFails, ShRead, ShEndOfInput, ShBrokenPipe, ShEnds
        <5> QED BY <2>1, <5>1 DEF ShGoesOn
      <4> QED BY <4>1, <4>2
    <3> QED BY <2>7, <3>1, <3>2
  <2>8. CASE UNCHANGED shVars
    BY <2>1, <2>8 DEF shVars
  <2> QED BY <1>2, <2>2, <2>5, <2>6, <2>7, <2>8 DEF ShNext, ShStep
<1> QED BY <1>1, <1>2, ShInvariance, PTL DEF ShSpec

\* Of any line, with words, blanks, bars and redirections wherever they may be, the shell
\* makes what the line says, however the passes write into it, and it refuses the lines
\* that Refused names and no others.
THEOREM ShellUnderstandsLines == ShSpec => []ShUnderstands
<1>1. LineParsed => ShUnderstands
  <2> SUFFICES ASSUME LineParsed, typed # NoLine
               PROVE  IF Refused(Buffer(typed)) THEN shell = "exited" ELSE job = Meaning(Buffer(typed))
    BY DEF ShUnderstands
  <2>1. \/ shell = "launch" /\ Parse(typed).ok /\ job = Parse(typed)
        \/ shell = "exited" /\ ~ Parse(typed).ok
    BY DEF LineParsed
  <2>2. typed \in Seq(STRING \ {NUL})
    BY ShellAssumption DEF LineParsed
  <2>3. IF Refused(Buffer(typed)) THEN ~ Parse(typed).ok ELSE Parse(typed) = Meaning(Buffer(typed))
    BY <2>2, ParseUnderstands
  <2>4. Meaning(Buffer(typed)).ok
    BY DEF Meaning
  <2> QED BY <2>1, <2>3, <2>4
<1> QED BY <1>1, LineParsedHolds, PTL

-----------------------------------------------------------------------------
(* The session *)

LEMMA SessionStepIsAStepOfEach ==
  ASSUME [SessionNext \/ Over]_sessionVars
  PROVE  [Next]_vars /\ [CatNext]_catVars /\ [WcNext]_wcVars /\ [FillNext]_fillVars
         /\ [CpNext]_cpVars /\ [ShNext]_shVars
BY DEF SessionNext, Over, sessionVars, pcatVars

\* What a user does at the terminal is, seen from each of the programs, a behaviour of
\* that program: whatever is proved of one of them holds of the session.
THEOREM SessionRunsEachProgram ==
  SessionSpec => Spec /\ CatSpec /\ WcSpec /\ FillSpec /\ CpSpec /\ ShSpec
<1>1. SessionInit => Init /\ CatInit /\ WcInit /\ FillInit /\ CpInit /\ ShInit
  BY DEF SessionInit
<1>2. [SessionNext \/ Over]_sessionVars =>
        [Next]_vars /\ [CatNext]_catVars /\ [WcNext]_wcVars /\ [FillNext]_fillVars
        /\ [CpNext]_cpVars /\ [ShNext]_shVars
  BY SessionStepIsAStepOfEach
<1> QED BY <1>1, <1>2, PTL DEF SessionSpec, Spec, CatSpec, WcSpec, FillSpec, CpSpec, ShSpec

\* A session, the specification that TLC runs, has the proved invariants of all its
\* programs, and pcat in it is still a cat.
THEOREM SessionIsSafe ==
  SessionSpec =>
    /\ [](NothingLostInThePipe /\ ShortWritesOnlyAdd /\ CountsAreRight)
    /\ [](CopiedOrSaid /\ SourceIsSafe /\ ShLeavesNothing /\ ShUnderstands)
    /\ RefinesCat
BY SessionRunsEachProgram, PipeLosesNothing, PcatImplementsCat, ShortWritesAddOnly,
   CountsStayRight, SourceStaysSafe, ExitStatusIsTrue, ShellLeavesNothing, ShellUnderstandsLines,
   PTL

=============================================================================
