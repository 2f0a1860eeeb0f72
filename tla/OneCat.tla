------------------------------- MODULE OneCat ------------------------------
(***************************************************************************)
(* seminar_3/cat.c: one process copies its files to the output, and puts a *)
(* newline after each.  Every write asks for the n bytes that were read,   *)
(* also when some of them have been written: after a short write it goes   *)
(* past what was read, to bytes that an earlier read left in buf or that   *)
(* lie behind it.                                                          *)
(***************************************************************************)
EXTENDS Integers, Sequences, SequencesExt

CONSTANTS
  CatChunk,       \* sizeof(buf), 4096 in the code
  CatInputs,      \* the argument lists: sequences of files, each its bytes or NoFile
  NoFile          \* a file that open cannot open

ASSUME OneCatAssumption ==
  CatChunk \in Nat \ {0} /\ CatInputs \subseteq Seq(Seq(Nat) \cup {NoFile})

\* Bytes are natural numbers; these two stand for a byte that was never read and
\* for the newline after a file.
Stale   == -1
Newline == -2

VARIABLES
  cat,                  \* where the program is
  catFiles, catLeft,    \* the arguments after the current one; bytes of it unread
  fromStdin,            \* fd = 0
  buf, written,         \* the n bytes of the last read; how many were written of them, and more
  cutShort,             \* some write took less than it was asked for
  expected, printed     \* what was read, and the newlines; what was printed

catVars == <<cat, catFiles, catLeft, fromStdin, buf, written, cutShort, expected, printed>>

CatInit ==
  /\ cat = "off" /\ catFiles = <<>> /\ catLeft = <<>> /\ fromStdin = FALSE
  /\ buf = <<>> /\ written = 0 /\ cutShort = FALSE
  /\ expected = <<>> /\ printed = <<>>

\* With arguments, and without: then stdin is read.
CatStart(arguments) ==
  /\ cat = "off"
  /\ \/ cat' = "next" /\ catFiles' = arguments /\ UNCHANGED <<catLeft, fromStdin>>
     \/ /\ Len(arguments) = 1 /\ arguments[1] # NoFile
        /\ cat' = "read" /\ catLeft' = arguments[1] /\ fromStdin' = TRUE
        /\ UNCHANGED catFiles
  /\ UNCHANGED <<buf, written, cutShort, expected, printed>>

CatOpen ==
  /\ cat = "next" /\ catFiles # <<>>
  /\ catFiles' = Tail(catFiles)
  /\ IF Head(catFiles) = NoFile
     THEN cat' = "failed" /\ UNCHANGED catLeft
     ELSE cat' = "read" /\ catLeft' = Head(catFiles)
  /\ UNCHANGED <<fromStdin, buf, written, cutShort, expected, printed>>

CatRead ==
  /\ cat = "read"
  /\ \E n \in 1 .. CatChunk :
       /\ n <= Len(catLeft)
       /\ buf' = SubSeq(catLeft, 1, n)
       /\ catLeft' = SubSeq(catLeft, n + 1, Len(catLeft))
  /\ expected' = expected \o buf'
  /\ written' = 0
  /\ cat' = "write"
  /\ UNCHANGED <<catFiles, fromStdin, cutShort, printed>>

\* The n bytes from buf + offset.
InBuf(offset, n) ==
  [k \in 1 .. n |-> IF offset + k <= Len(buf) THEN buf[offset + k] ELSE Stale]

\* Mutant: every write begins at buf.
CatWriteAgain ==
  /\ cat = "write"
  /\ \E m \in 1 .. Len(buf) :
       /\ printed' = printed \o InBuf(0, m)
       /\ written' = written + m
       /\ cutShort' = (cutShort \/ m < Len(buf))
  /\ cat' = IF written' < Len(buf) THEN "write" ELSE "read"
  /\ UNCHANGED <<catFiles, catLeft, fromStdin, buf, expected>>

CatWrite ==
  /\ cat = "write"
  /\ \E m \in 1 .. Len(buf) :
       /\ printed' = printed \o InBuf(written, m)
       /\ written' = written + m
       /\ cutShort' = (cutShort \/ m < Len(buf))
  /\ cat' = IF written' < Len(buf) THEN "write" ELSE "read"
  /\ UNCHANGED <<catFiles, catLeft, fromStdin, buf, expected>>

\* Whether the newline could be written is not looked at.
CatEndOfFile ==
  /\ cat = "read" /\ catLeft = <<>>
  /\ \E end \in {<<>>, IF fromStdin THEN <<>> ELSE <<Newline>>} :
       expected' = expected \o end /\ printed' = printed \o end
  /\ cat' = "next"
  /\ UNCHANGED <<catFiles, catLeft, fromStdin, buf, written, cutShort>>

\* A read, a write or a close fails: _exit(1).
CatFails ==
  /\ cat \in {"read", "write"}
  /\ cat' = "failed"
  /\ UNCHANGED <<catFiles, catLeft, fromStdin, buf, written, cutShort, expected, printed>>

CatDone ==
  /\ cat = "next" /\ catFiles = <<>>
  /\ cat' = "done"
  /\ UNCHANGED <<catFiles, catLeft, fromStdin, buf, written, cutShort, expected, printed>>

CatNext ==
  \/ \E arguments \in CatInputs : CatStart(arguments)
  \/ CatOpen \/ CatRead \/ CatWrite \/ CatEndOfFile \/ CatFails \/ CatDone

CatSpec == CatInit /\ [][CatNext]_catVars

CatIdle == cat \in {"off", "failed", "done"}

-----------------------------------------------------------------------------
(* Properties *)

\* A text without the bytes that were never read.
Own(text) ==
  LET own[k \in 0 .. Len(text)] == IF k = 0 THEN <<>>
                                   ELSE IF text[k] = Stale THEN own[k - 1]
                                   ELSE Append(own[k - 1], text[k])
  IN  own[Len(text)]

\* Short writes lose nothing and change no order, they only add: without the bytes
\* that were never read, what is printed is what was read, all of it when the
\* program ends; and after a chunk come fewer such bytes than it has, none when no
\* write was cut short.
ShortWritesOnlyAdd ==
  LET own == Own(printed)
  IN  /\ IsPrefix(own, expected)
      /\ cat \in {"read", "next", "done"} => own = expected
      /\ ~cutShort => own = printed
      /\ written < 2 * Len(buf) \/ buf = <<>>
=============================================================================
