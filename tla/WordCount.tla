------------------------------ MODULE WordCount ----------------------------
(***************************************************************************)
(* seminar_4/mywc.c: the parent runs a command with its output in a pipe   *)
(* and counts the bits, words and lines that come out of it.  A read gives *)
(* any piece of the output, so a word or a line may lie across two reads.  *)
(***************************************************************************)
EXTENDS Integers, Sequences, FiniteSets

CONSTANTS
  WcChunk,    \* sizeof(buffer), 4096 in the code
  WcRoom,     \* characters the pipe holds
  WcLimit     \* the longest output the command writes

ASSUME WordCountAssumption == WcChunk \in Nat \ {0} /\ WcRoom \in Nat \ {0} /\ WcLimit \in Nat

\* What the loop tells apart: newlines, the other separators (blank, tab, carriage
\* return), and all the rest.
Character == {"newline", "blank", "letter"}
Separator == {"newline", "blank"}

VARIABLES
  counter, command,               \* where main and the command are
  wcWriteEnd,                     \* the processes that hold the writing end
  wcPipe, output,                 \* the characters in the pipe; all that the command wrote
  bits, words, lines, in_word     \* main's own

counts == <<bits, words, lines, in_word>>
wcVars == <<counter, command, wcWriteEnd, wcPipe, output, counts>>

WcInit ==
  /\ counter = "off" /\ command = "unborn"
  /\ wcWriteEnd = {} /\ wcPipe = <<>> /\ output = <<>>
  /\ bits = 0 /\ words = 0 /\ lines = 0 /\ in_word = FALSE

WcStart ==
  /\ counter = "off"
  /\ wcWriteEnd' = {"counter"}
  /\ counter' = "fork"
  /\ UNCHANGED <<command, wcPipe, output, counts>>

WcFork ==
  /\ counter = "fork"
  /\ command' = "run" /\ wcWriteEnd' = {"counter", "command"}
  /\ counter' = "close"
  /\ UNCHANGED <<wcPipe, output, counts>>

\* fork's -1 passes for the pid of a child: main goes on and counts nothing.
WcForkFails ==
  /\ counter = "fork"
  /\ counter' = "close"
  /\ UNCHANGED <<command, wcWriteEnd, wcPipe, output, counts>>

WcClose ==
  /\ counter = "close"
  /\ wcWriteEnd' = wcWriteEnd \ {"counter"}
  /\ counter' = "count"
  /\ UNCHANGED <<command, wcPipe, output, counts>>

\* The command, whatever it is: it writes, and it ends, also when it cannot be
\* executed.
CommandWrites(c) ==
  /\ command = "run"
  /\ Len(output) < WcLimit /\ Len(wcPipe) < WcRoom
  /\ wcPipe' = Append(wcPipe, c) /\ output' = Append(output, c)
  /\ UNCHANGED <<counter, command, wcWriteEnd, counts>>

CommandEnds ==
  /\ command = "run"
  /\ command' = "exited"
  /\ wcWriteEnd' = wcWriteEnd \ {"command"}
  /\ UNCHANGED <<counter, wcPipe, output, counts>>

\* One character.  Mutant: the word that ends is not marked as ended.
CountOnAndOn(n, c) ==
  [words   |-> IF c \in Separator /\ n.in_word THEN n.words + 1 ELSE n.words,
   lines   |-> IF c = "newline" THEN n.lines + 1 ELSE n.lines,
   in_word |-> n.in_word \/ c \notin Separator]
Count(n, c) ==
  [words   |-> IF c \in Separator /\ n.in_word THEN n.words + 1 ELSE n.words,
   lines   |-> IF c = "newline" THEN n.lines + 1 ELSE n.lines,
   in_word |-> c \notin Separator]

\* The loop over what one read gave.
Counted(n, piece) ==
  LET upTo[k \in 0 .. Len(piece)] == IF k = 0 THEN n ELSE Count(upTo[k - 1], piece[k])
  IN  upTo[Len(piece)]

ReadPiece ==
  /\ counter = "count"
  /\ \E n \in 1 .. WcChunk :
       /\ n <= Len(wcPipe)
       /\ wcPipe' = SubSeq(wcPipe, n + 1, Len(wcPipe))
       /\ LET now   == [words |-> words, lines |-> lines, in_word |-> in_word]
              after == Counted(now, SubSeq(wcPipe, 1, n))
          IN  words' = after.words /\ lines' = after.lines /\ in_word' = after.in_word
       /\ bits' = bits + n * 8
  /\ UNCHANGED <<counter, command, wcWriteEnd, output>>

\* The last word may have no separator after it.
EndOfOutput ==
  /\ counter = "count" /\ wcPipe = <<>> /\ wcWriteEnd = {}
  /\ words' = IF in_word THEN words + 1 ELSE words
  /\ counter' = "wait"
  /\ UNCHANGED <<command, wcWriteEnd, wcPipe, output, bits, lines, in_word>>

\* wait returns at once when there is no child.
WcWait ==
  /\ counter = "wait" /\ command \in {"unborn", "exited"}
  /\ counter' = "done"
  /\ UNCHANGED <<command, wcWriteEnd, wcPipe, output, counts>>

WcNext ==
  \/ WcStart \/ WcFork \/ WcForkFails \/ WcClose
  \/ (\E c \in Character : CommandWrites(c)) \/ CommandEnds
  \/ ReadPiece \/ EndOfOutput \/ WcWait

WcSpec == WcInit /\ [][WcNext]_wcVars

WcIdle == counter \in {"off", "done"}

-----------------------------------------------------------------------------
(* Properties *)

WordsIn(text) ==
  Cardinality({i \in 1 .. Len(text) :
                 text[i] = "letter" /\ (i = 1 \/ text[i - 1] # "letter")})
LinesIn(text) == Cardinality({i \in 1 .. Len(text) : text[i] = "newline"})

\* However the output is cut into pieces, main has counted what it has read: each
\* word once, the one it is in the middle of included when it prints; and it does
\* not print before it has read all that the command wrote.
CountsAreRight ==
  LET read == SubSeq(output, 1, Len(output) - Len(wcPipe))
      open == in_word /\ counter \notin {"wait", "done"}
  IN  /\ bits = 8 * Len(read)
      /\ lines = LinesIn(read)
      /\ words + (IF open THEN 1 ELSE 0) = WordsIn(read)
      /\ counter = "done" => read = output /\ command # "run"
=============================================================================
