---------------------------- MODULE Pcat2Proofs ----------------------------
(***************************************************************************)
(* Proofs about Pcat2, for every chunk size and every list of files: what  *)
(* was read is printed or on its way, none of it is left when main         *)
(* returns, and the two threads implement Cat.                             *)
(***************************************************************************)
EXTENDS Pcat2, SequenceTheorems, TLAPS

Bytes == Seq(Nat)

TypeOK ==
  /\ args \in Seq(Bytes \cup {Missing}) /\ rest \in Bytes
  /\ writer \in {"next", "read", "put", "waiting", "exited"} /\ chunk \in Bytes
  /\ buffer_ready \in BOOLEAN /\ writer_done \in BOOLEAN /\ data \in Bytes
  /\ reader \in {"get", "waiting", "exited"} /\ main \in {"join", "done", "killed"}
  /\ taken \in Bytes /\ out \in Bytes

\* The slot holds something only while it is marked full, and no more than a read
\* gives; so does the writer's chunk.
SlotOK ==
  /\ ~buffer_ready => data = <<>>
  /\ Len(data) <= Chunk /\ Len(chunk) <= Chunk

\* The reader leaves when the writer is done and the slot is empty, main when both
\* have left.
EndOK ==
  /\ writer_done <=> writer = "exited"
  /\ reader = "exited" => writer_done /\ ~buffer_ready
  /\ main = "killed" => writer = "next"
  /\ main = "done" => writer = "exited" /\ reader = "exited"

Hold == IF writer \in {"put", "waiting"} THEN chunk ELSE <<>>

IInv == TypeOK /\ SlotOK /\ EndOK /\ taken = out \o InTransit

-----------------------------------------------------------------------------
(* Sequences *)

\* The first bytes of a sequence and the others.
LEMMA Split ==
  ASSUME NEW s \in Bytes, NEW n \in Nat, n <= Len(s)
  PROVE  /\ SubSeq(s, 1, n) \in Bytes /\ Len(SubSeq(s, 1, n)) = n
         /\ SubSeq(s, n + 1, Len(s)) \in Bytes
BY SubSeqProperties, ElementOfSeq, LenProperties DEF Bytes

LEMMA Associate ==
  \A s, t, u \in Bytes : (s \o t) \o u = s \o (t \o u)
<1> TAKE s, t, u \in Bytes
<1>1. s \in Seq(Nat) /\ t \in Seq(Nat) /\ u \in Seq(Nat)
  BY DEF Bytes
<1> QED BY <1>1, ConcatAssociative, SMTT(30)

\* s is a prefix of s \o t, and a strict one unless t is empty.
LEMMA PrefixOfConcat ==
  ASSUME NEW s \in Bytes, NEW t \in Bytes
  PROVE  /\ IsPrefix(s, s \o t)
         /\ s \o t # s => IsStrictPrefix(s, s \o t)
         /\ s \in Prefixes(s \o t)
<1>1. /\ Len(s) \in Nat /\ Len(t) \in Nat
      /\ s \o t \in Bytes /\ Len(s \o t) = Len(s) + Len(t)
  BY ConcatProperties, LenProperties DEF Bytes
<1>2. SubSeq(s \o t, 1, Len(s)) = SubSeq(s, 1, Len(s))
  <2>1. CASE s = <<>>
    BY <2>1, <1>1, SubSeqEmpty
  <2>2. CASE s # <<>>
    <3>1. 1 \in 1 .. Len(s) /\ Len(s) \in 1 .. Len(s)
      BY <1>1, <2>2, EmptySeq DEF Bytes
    <3> QED BY <3>1, SubSeqOfConcat1 DEF Bytes
  <2> QED BY <2>1, <2>2
<1>3. SubSeq(s, 1, Len(s)) = s
  BY SubSeqFull DEF Bytes
<1>4. IsPrefix(s, s \o t)
  BY <1>1, <1>2 DEF IsPrefix
<1>5. \E l \in 0 .. Len(s \o t) : s = SubSeq(s \o t, 1, l)
  <2>1. Len(s) \in 0 .. Len(s \o t)
    BY <1>1
  <2>2. s = SubSeq(s \o t, 1, Len(s))
    BY <1>2, <1>3
  <2> QED BY <2>1, <2>2
<1> QED BY <1>4, <1>5 DEF IsStrictPrefix, Prefixes

-----------------------------------------------------------------------------
(* The invariant *)

LEMMA InitIInv ==
  ASSUME Init PROVE IInv
<1>1. <<>> \in Bytes /\ Len(<<>>) = 0 /\ <<>> \o <<>> = <<>>
  BY EmptySeq, ConcatEmptySeq DEF Bytes
<1>2. args \in Seq(Bytes \cup {Missing})
  BY Pcat2Assumption DEF Init, Bytes
<1>3. TypeOK
  BY <1>1, <1>2 DEF Init, TypeOK
<1>4. SlotOK /\ EndOK
  BY <1>1, Pcat2Assumption DEF Init, SlotOK, EndOK
<1> QED BY <1>1, <1>3, <1>4 DEF Init, IInv, InTransit

LEMMA OpenIInv ==
  ASSUME IInv, Open PROVE IInv'
<1>1. args # <<>> /\ args \in Seq(Bytes \cup {Missing})
  BY DEF Open, IInv, TypeOK
<1>2. Head(args) \in Bytes \cup {Missing} /\ args' \in Seq(Bytes \cup {Missing})
  BY <1>1, HeadTailProperties DEF Open
<1>3. TypeOK'
  BY <1>2 DEF Open, IInv, TypeOK, monitor
<1> QED BY <1>3 DEF Open, IInv, TypeOK, SlotOK, EndOK, InTransit, Alive, monitor

LEMMA ReadIInv ==
  ASSUME IInv, Read PROVE IInv'
<1>1. PICK n \in 1 .. Chunk : /\ n <= Len(rest)
                             /\ chunk' = SubSeq(rest, 1, n)
                             /\ rest' = SubSeq(rest, n + 1, Len(rest))
                             /\ taken' = taken \o chunk'
  BY DEF Read
<1>2. n \in Nat /\ n <= Chunk
  BY Pcat2Assumption
<1>3. chunk' \in Bytes /\ Len(chunk') = n /\ rest' \in Bytes
  BY <1>1, <1>2, Split DEF IInv, TypeOK
<1>4. taken' \in Bytes
  BY <1>1, <1>3, ConcatProperties DEF IInv, TypeOK, Bytes
<1>5. taken' = out' \o InTransit'
  <2>1. taken = out \o data
    BY ConcatEmptySeq DEF Read, IInv, TypeOK, InTransit, Bytes
  <2>2. (out \o data) \o chunk' = out \o (data \o chunk')
    <3>1. out \in Bytes /\ data \in Bytes /\ chunk' \in Bytes
      BY <1>3 DEF IInv, TypeOK
    <3> QED BY <3>1, Associate
  <2> QED BY <1>1, <2>1, <2>2 DEF Read, InTransit, monitor
<1>6. TypeOK'
  BY <1>3, <1>4 DEF Read, IInv, TypeOK, monitor
<1>7. SlotOK' /\ EndOK'
  BY <1>2, <1>3 DEF Read, IInv, TypeOK, SlotOK, EndOK, Alive, monitor
<1> QED BY <1>5, <1>6, <1>7 DEF IInv

LEMMA EndOfFileIInv ==
  ASSUME IInv, EndOfFile PROVE IInv'
BY EmptySeq DEF EndOfFile, IInv, TypeOK, SlotOK, EndOK, InTransit, Alive, monitor, Bytes

\* The chunk moves from the writer's hands to the empty slot.
LEMMA PutIInv ==
  ASSUME IInv, Put PROVE IInv'
<1>1. CASE buffer_ready
  BY <1>1 DEF Put, IInv, TypeOK, SlotOK, EndOK, InTransit, Alive, monitor
<1>2. CASE ~buffer_ready
  <2>1. taken = out \o chunk
    BY <1>2, ConcatEmptySeq DEF Put, IInv, TypeOK, SlotOK, InTransit, Bytes
  <2>2. data' \o <<>> = data'
    BY <1>2, ConcatEmptySeq DEF Put, IInv, TypeOK, Bytes
  <2>3. taken' = out' \o InTransit'
    BY <1>2, <2>1, <2>2 DEF Put, InTransit
  <2>4. TypeOK'
    BY <1>2 DEF Put, IInv, TypeOK, Signal
  <2>5. SlotOK' /\ EndOK'
    BY <1>2 DEF Put, IInv, TypeOK, SlotOK, EndOK, Signal, Alive
  <2> QED BY <2>3, <2>4, <2>5 DEF IInv
<1> QED BY <1>1, <1>2

LEMMA DoneIInv ==
  ASSUME IInv, Done PROVE IInv'
BY DEF Done, IInv, TypeOK, SlotOK, EndOK, InTransit, Signal, Alive

LEMMA NothingToPrintIInv ==
  ASSUME IInv, NothingToPrint PROVE IInv'
BY DEF NothingToPrint, IInv, TypeOK, SlotOK, EndOK, InTransit, Alive, monitor

\* The slot goes to the output.
LEMMA WriteOutIInv ==
  ASSUME IInv, WriteOut PROVE IInv'
<1>1. out' \in Bytes /\ <<>> \in Bytes /\ Len(<<>>) = 0
  BY ConcatProperties, EmptySeq DEF WriteOut, IInv, TypeOK, Bytes
<1>2. TypeOK'
  BY <1>1 DEF WriteOut, IInv, TypeOK, Signal
<1>3. SlotOK' /\ EndOK'
  BY <1>1, Pcat2Assumption DEF WriteOut, IInv, TypeOK, SlotOK, EndOK, Signal, Alive
<1>4. Hold \in Bytes /\ Hold' = Hold
  BY <1>1 DEF WriteOut, IInv, TypeOK, Hold, Signal
<1>5. taken = (out \o data) \o Hold
  <2>1. out \in Bytes /\ data \in Bytes /\ Hold \in Bytes
    BY <1>4 DEF IInv, TypeOK
  <2>2. (out \o data) \o Hold = out \o (data \o Hold)
    BY <2>1, Associate
  <2> QED BY <2>2 DEF IInv, InTransit, Hold
<1>6. <<>> \o Hold = Hold
  BY <1>4, ConcatEmptySeq DEF Bytes
<1>7. taken' = out' \o InTransit'
  BY <1>4, <1>5, <1>6 DEF WriteOut, InTransit, Hold
<1> QED BY <1>2, <1>3, <1>7 DEF IInv

LEMMA SpuriousWakeupIInv ==
  ASSUME IInv, SpuriousWakeup PROVE IInv'
BY DEF SpuriousWakeup, IInv, TypeOK, SlotOK, EndOK, InTransit, Alive, monitor

LEMMA JoinIInv ==
  ASSUME IInv, Join PROVE IInv'
BY DEF Join, IInv, TypeOK, SlotOK, EndOK, InTransit, monitor

LEMMA NextIInv ==
  ASSUME IInv, [Next]_vars PROVE IInv'
<1>1. CASE UNCHANGED vars
  BY <1>1 DEF IInv, TypeOK, SlotOK, EndOK, InTransit, vars, monitor
<1> QED
  BY <1>1, OpenIInv, ReadIInv, EndOfFileIInv, PutIInv, DoneIInv, NothingToPrintIInv,
     WriteOutIInv, SpuriousWakeupIInv, JoinIInv
     DEF Next, WriterStep, ReaderStep, Stopped

LEMMA Invariance == Spec => []IInv
BY InitIInv, NextIInv, PTL DEF Spec

-----------------------------------------------------------------------------
(* Theorems *)

\* At every moment what was read is printed, in the slot or in the writer's hands;
\* nothing is left there when main returns.
THEOREM EverythingIsPrinted == Spec => []NothingLostOnTheWay
<1>1. ASSUME IInv PROVE NothingLostOnTheWay
  <2>1. main = "done" => InTransit = <<>>
    BY <1>1, ConcatEmptySeq, EmptySeq DEF IInv, TypeOK, SlotOK, EndOK, InTransit, Bytes
  <2>2. main = "killed" => Len(InTransit) <= Chunk
    BY <1>1, ConcatEmptySeq DEF IInv, TypeOK, SlotOK, EndOK, InTransit, Bytes
  <2> QED BY <1>1, <2>1, <2>2 DEF IInv, NothingLostOnTheWay
<1> QED BY <1>1, Invariance, PTL

\* A step that reads is Take, one that prints is Give, all others change nothing
\* that Cat sees.
LEMMA StepRefinesCat ==
  ASSUME IInv, [Next]_vars PROVE C!Next \/ UNCHANGED C!catVars
<1>1. CASE Read
  <2>1. chunk' \in Bytes /\ taken' = taken \o chunk' /\ taken' \in Bytes
    BY <1>1, ReadIInv DEF IInv, TypeOK, Read
  <2>2. taken' # taken => C!Take
    BY <1>1, <2>1, PrefixOfConcat DEF IInv, TypeOK, Read, C!Take, C!IsStrictPrefix, C!IsPrefix, IsStrictPrefix, IsPrefix, Bytes
  <2> QED BY <1>1, <2>2 DEF Read, C!Next, C!catVars
<1>2. CASE WriteOut
  <2>1. out' = out \o data /\ taken' = taken /\ out \in Bytes /\ data \in Bytes
    BY <1>2 DEF WriteOut, IInv, TypeOK
  <2>2. out' \in Bytes /\ InTransit' \in Bytes /\ taken = out' \o InTransit'
    <3>1. IInv'
      BY <1>2, WriteOutIInv
    <3>2. InTransit' \in Bytes
      BY <3>1, ConcatProperties, EmptySeq DEF IInv, TypeOK, InTransit, Bytes
    <3> QED BY <2>1, <3>1, <3>2 DEF IInv, TypeOK
  <2>3. out' \in Prefixes(taken)
    BY <2>2, PrefixOfConcat
  <2>4. out' # out => C!Give
    BY <2>1, <2>3, PrefixOfConcat
       DEF C!Give, C!Prefixes, C!IsStrictPrefix, C!IsPrefix, Prefixes, IsStrictPrefix, IsPrefix
  <2> QED BY <2>1, <2>4 DEF C!Next, C!catVars
<1>3. CASE ~Read /\ ~WriteOut
  BY <1>3 DEF Next, vars, WriterStep, ReaderStep, Open, EndOfFile, Put, Done, NothingToPrint,
              SpuriousWakeup, Join, Stopped, C!catVars
<1> QED BY <1>1, <1>2, <1>3

\* The two threads and their monitor implement a cat that prints what it reads.
THEOREM Pcat2ImplementsCat == Spec => RefinesCat
<1>1. Init => C!Init
  BY DEF Init, C!Init
<1> QED BY <1>1, StepRefinesCat, Invariance, PTL DEF Spec, RefinesCat, C!Spec
=============================================================================
