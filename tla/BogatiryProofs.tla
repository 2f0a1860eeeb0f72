--------------------------- MODULE BogatiryProofs --------------------------
(***************************************************************************)
(* Proofs about Bogatiry, for every number of singers, every buffer and    *)
(* every set of files, and about Bogatiry2, for every number of singers    *)
(* and every text: nobody sleeps through their turn, and the threads       *)
(* implement Chorus.                                                       *)
(***************************************************************************)
EXTENDS Bogatiry, Bogatiry2, SequenceTheorems, WellFoundedInduction, TLAPS

Label == {"unborn", "register", "loop", "waiting", "exited"}

TypeOK ==
  /\ main \in {"read", "create", "join", "abort", "done", "failed"}
  /\ created \in 0 .. ASCII_SINGER_COUNT
  /\ pc \in [Thread -> Label]
  /\ voice \in [Thread -> Int] /\ next_singer_id \in Nat
  /\ song \in Seq(Nat) /\ sung \in Seq(Int)
  /\ next_char_index \in Nat /\ current_character \in Nat

\* Before the song is read there is neither a song nor a singer.
StartOK ==
  main = "read" =>
    /\ song = <<>> /\ sung = <<>> /\ current_character = NUL
    /\ \A t \in Thread : pc[t] = "unborn"

\* What is sung is the song up to the current character; without a current
\* character it is the whole song, unless a thread could not be created.
TurnOK ==
  /\ \A k \in 1 .. Len(song) : song[k] # NUL
  /\ Len(sung) <= Len(song) /\ \A k \in 1 .. Len(sung) : sung[k] = song[k]
  /\ current_character # NUL =>
       /\ next_char_index = Len(sung) + 1 /\ Len(sung) < Len(song)
       /\ current_character = song[Len(sung) + 1]
  /\ current_character = NUL /\ main \in {"create", "join", "done"} => Len(sung) = Len(song)

\* Singers leave, and main returns, only when there is no character any more.
EndOK ==
  /\ \A t \in Thread : pc[t] = "exited" => current_character = NUL
  /\ main = "join" => created = ASCII_SINGER_COUNT
  /\ main \in {"abort", "done"} => current_character = NUL

IInv == TypeOK /\ StartOK /\ TurnOK /\ EndOK /\ NobodySleepsThroughTheirTurn

-----------------------------------------------------------------------------
(* The file *)

LEMMA LeastNumber ==
  ASSUME NEW S, S \subseteq Nat, S # {}
  PROVE  \E n \in S : \A m \in S : n <= m
<1> DEFINE less == OpToRel(<, Nat)
<1>1. PICK n \in S : \A m \in S : <<m, n>> \notin less
  <2>1. IsWellFoundedOn(less, Nat)
    BY NatLessThanWellFounded
  <2> HIDE DEF less
  <2> QED BY <2>1, WFMin
<1>2. \A m \in S : ~ (m < n)
  BY <1>1 DEF OpToRel
<1> QED BY <1>2

\* What is read from a file are bytes without a NUL among them.
LEMMA SongOfFile ==
  ASSUME NEW file \in Files
  PROVE  /\ SongOf(file) \in Seq(Nat)
         /\ \A k \in 1 .. Len(SongOf(file)) : SongOf(file)[k] # NUL
<1> DEFINE ends == {n \in 0 .. Len(file) :
                      n = Len(file) \/ n = MAX_SONG_BUFFER_SIZE - 1 \/ file[n + 1] = NUL}
           end  == CHOOSE n \in ends : \A m \in ends : n <= m
<1>1. file \in Seq(Nat) /\ Len(file) \in Nat
  BY BogatiryAssumption, LenProperties
<1>2. Len(file) \in ends /\ ends \subseteq Nat
  BY <1>1
<1>3. \E n \in ends : \A m \in ends : n <= m
  <2> HIDE DEF ends
  <2> QED BY <1>2, LeastNumber
<1>4. end \in ends /\ \A m \in ends : end <= m
  <2> HIDE DEF ends
  <2> QED BY <1>3
<1> HIDE DEF end
<1>5. end \in Nat /\ end <= Len(file)
  BY <1>1, <1>4
<1>6. \A k \in 1 .. end : file[k] \in Nat /\ file[k] # NUL
  <2> TAKE k \in 1 .. end
  <2>1. k \in 1 .. Len(file) /\ k - 1 \in 0 .. Len(file) /\ k - 1 < end
    BY <1>1, <1>5
  <2>2. k - 1 \notin ends
    <3> HIDE DEF ends
    <3> QED BY <1>4, <1>5, <2>1
  <2>3. file[(k - 1) + 1] # NUL
    BY <2>1, <2>2
  <2> QED BY <1>1, <2>1, <2>3, ElementOfSeq
<1>7. SongOf(file) = SubSeq(file, 1, end)
  BY DEF SongOf, end
<1>8. /\ SubSeq(file, 1, end) \in Seq(Nat)
      /\ Len(SubSeq(file, 1, end)) = end
      /\ \A k \in 1 .. end : SubSeq(file, 1, end)[k] = file[k]
  BY <1>5, <1>6, SubSeqProperties
<1> QED BY <1>6, <1>7, <1>8

-----------------------------------------------------------------------------
(* The invariant *)

LEMMA InitIInv ==
  ASSUME Init PROVE IInv
<1>1. <<>> \in Seq(Nat) /\ <<>> \in Seq(Int) /\ Len(<<>>) = 0
  BY EmptySeq
<1>2. TypeOK
  BY <1>1, BogatiryAssumption DEF Init, TypeOK, Label, Unnamed, NUL
<1> QED BY <1>1, <1>2 DEF Init, IInv, StartOK, TurnOK, EndOK, NobodySleepsThroughTheirTurn, NUL

LEMMA ReadSongIInv ==
  ASSUME IInv, NEW file \in Files, ReadSong(file) PROVE IInv'
<1>1. /\ song' \in Seq(Nat) /\ song' # <<>> /\ Len(song') \in Nat \ {0}
      /\ \A k \in 1 .. Len(song') : song'[k] # NUL
  BY SongOfFile, EmptySeq DEF ReadSong
<1>2. song'[1] \in Nat /\ current_character' = song'[1] /\ next_char_index' = 1
  BY <1>1, ElementOfSeq DEF ReadSong, Text
<1>3. TypeOK'
  BY <1>1, <1>2 DEF ReadSong, IInv, TypeOK
<1>4. sung' = <<>> /\ Len(sung') = 0 /\ \A t \in Thread : pc'[t] = "unborn"
  BY EmptySeq DEF ReadSong, IInv, StartOK
<1>5. TurnOK'
  BY <1>1, <1>2, <1>4 DEF ReadSong, TurnOK, NUL
<1> QED BY <1>3, <1>4, <1>5 DEF ReadSong, IInv, StartOK, EndOK, NobodySleepsThroughTheirTurn

LEMMA ReadFailsIInv ==
  ASSUME IInv, ReadFails PROVE IInv'
BY DEF ReadFails, IInv, TypeOK, StartOK, TurnOK, EndOK, NobodySleepsThroughTheirTurn, monitor

LEMMA CreateIInv ==
  ASSUME IInv, Create PROVE IInv'
<1>1. created' \in Thread /\ created' \in 0 .. ASCII_SINGER_COUNT
  BY BogatiryAssumption DEF Create, IInv, TypeOK, Thread
<1> QED BY <1>1 DEF Create, IInv, TypeOK, StartOK, TurnOK, EndOK, NobodySleepsThroughTheirTurn,
                    monitor, Label

LEMMA AllCreatedIInv ==
  ASSUME IInv, AllCreated PROVE IInv'
BY DEF AllCreated, IInv, TypeOK, StartOK, TurnOK, EndOK, NobodySleepsThroughTheirTurn, monitor

\* After a broadcast nobody waits, and nobody has left who had not before.
LEMMA BroadcastWakes ==
  ASSUME pc \in [Thread -> Label]
  PROVE  /\ Broadcast(pc) \in [Thread -> Label]
         /\ \A t \in Thread : /\ Broadcast(pc)[t] # "waiting"
                              /\ Broadcast(pc)[t] = "exited" => pc[t] = "exited"
                              /\ pc[t] = "unborn" => Broadcast(pc)[t] = "unborn"
BY DEF Broadcast, Label

LEMMA CreateFailsIInv ==
  ASSUME IInv, CreateFails PROVE IInv'
<1>1. TypeOK'
  BY BroadcastWakes DEF CreateFails, IInv, TypeOK, NUL
<1> QED BY <1>1, BroadcastWakes DEF CreateFails, IInv, TypeOK, StartOK, TurnOK, EndOK,
                                    NobodySleepsThroughTheirTurn

\* All threads are joined, and there is at least one: the song is over.
LEMMA JoinIInv ==
  ASSUME IInv, Join PROVE IInv'
<1>1. current_character = NUL
  <2>1. CASE main = "join"
    <3>1. 1 \in Thread /\ 1 \in 1 .. created
      BY <2>1, BogatiryAssumption DEF IInv, EndOK, Thread
    <3> QED BY <3>1 DEF Join, IInv, EndOK
  <2>2. CASE main = "abort"
    BY <2>2 DEF IInv, EndOK
  <2> QED BY <2>1, <2>2 DEF Join
<1> QED BY <1>1 DEF Join, IInv, TypeOK, StartOK, TurnOK, EndOK, NobodySleepsThroughTheirTurn, monitor

LEMMA RegisterIInv ==
  ASSUME IInv, NEW t \in Thread, Register(t) PROVE IInv'
BY DEF Register, IInv, TypeOK, StartOK, TurnOK, EndOK, NobodySleepsThroughTheirTurn, monitor, Label

LEMMA WaitForTurnIInv ==
  ASSUME IInv, NEW t \in Thread, WaitForTurn(t) PROVE IInv'
BY DEF WaitForTurn, IInv, TypeOK, StartOK, TurnOK, EndOK, NobodySleepsThroughTheirTurn, monitor, Label

LEMMA SongOverIInv ==
  ASSUME IInv, NEW t \in Thread, SongOver(t) PROVE IInv'
BY DEF SongOver, IInv, TypeOK, StartOK, TurnOK, EndOK, NobodySleepsThroughTheirTurn, monitor, Label

\* The character sung is the song's next, and the turn passes to the one after it.
LEMMA SingCharacterIInv ==
  ASSUME IInv, NEW t \in Thread, SingCharacter(t) PROVE IInv'
<1>1. /\ Len(song) \in Nat /\ Len(sung) \in Nat /\ Len(sung) < Len(song)
      /\ next_char_index = Len(sung) + 1 /\ voice[t] = song[Len(sung) + 1]
      /\ voice[t] \in Int /\ main # "read"
  BY LenProperties DEF SingCharacter, IInv, TypeOK, StartOK, TurnOK
<1>2. /\ sung' \in Seq(Int) /\ Len(sung') = Len(sung) + 1
      /\ \A k \in 1 .. Len(sung) : sung'[k] = sung[k]
      /\ sung'[Len(sung) + 1] = voice[t]
  BY <1>1, AppendProperties DEF SingCharacter, IInv, TypeOK
<1>3. /\ current_character' = Text(song, Len(sung) + 1)
      /\ next_char_index' = Len(sung) + 2 /\ song' = song /\ main' = main
  BY <1>1 DEF SingCharacter, MoveToNext
<1>4. /\ Len(sung) + 1 < Len(song) => /\ current_character' = song[Len(sung) + 2]
                                      /\ current_character' \in Nat
                                      /\ current_character' # NUL
      /\ Len(sung) + 1 = Len(song) => current_character' = NUL
  BY <1>1, <1>3, ElementOfSeq DEF Text, IInv, TypeOK, TurnOK
<1>5. TypeOK'
  BY <1>1, <1>2, <1>3, <1>4, BroadcastWakes DEF SingCharacter, IInv, TypeOK, NUL
<1>6. TurnOK'
  <2>1. \A k \in 1 .. Len(sung') : sung'[k] = song'[k]
    BY <1>1, <1>2, <1>3 DEF IInv, TurnOK
  <2> QED BY <1>1, <1>2, <1>3, <1>4, <2>1 DEF IInv, TurnOK
<1>7. EndOK' /\ NobodySleepsThroughTheirTurn'
  BY <1>3, BroadcastWakes DEF SingCharacter, IInv, TypeOK, EndOK, NobodySleepsThroughTheirTurn
<1> QED BY <1>1, <1>3, <1>5, <1>6, <1>7 DEF IInv, StartOK

LEMMA SpuriousWakeupIInv ==
  ASSUME IInv, NEW t \in Thread, SpuriousWakeup(t) PROVE IInv'
BY DEF SpuriousWakeup, IInv, TypeOK, StartOK, TurnOK, EndOK, NobodySleepsThroughTheirTurn, monitor, Label

LEMMA NextIInv ==
  ASSUME IInv, [Next]_vars PROVE IInv'
<1>1. CASE UNCHANGED vars
  BY <1>1 DEF IInv, TypeOK, StartOK, TurnOK, EndOK, NobodySleepsThroughTheirTurn, vars, monitor
<1> QED
  BY <1>1, ReadSongIInv, ReadFailsIInv, CreateIInv, AllCreatedIInv, CreateFailsIInv, JoinIInv,
     RegisterIInv, WaitForTurnIInv, SongOverIInv, SingCharacterIInv, SpuriousWakeupIInv
     DEF Next, MainStep, SingerStep, Stopped

LEMMA Invariance == Spec => []IInv
BY InitIInv, NextIInv, PTL DEF Spec

-----------------------------------------------------------------------------
(* Theorems *)

\* Every change of the character reaches the thread whose turn it is: no wake-up
\* is lost, for any number of threads.
THEOREM NobodySleeps == Spec => []NobodySleepsThroughTheirTurn
BY Invariance, PTL DEF IInv

LEMMA StepRefinesChorus ==
  ASSUME IInv, [Next]_vars PROVE C!Next \/ UNCHANGED C!chorusVars
<1>1. ASSUME NEW file \in Files, ReadSong(file) PROVE C!Learn
  <2>1. song' \in Seq(Int)
    BY <1>1, SongOfFile, SeqMonotonic DEF ReadSong
  <2> QED BY <1>1, <2>1 DEF ReadSong, IInv, StartOK, C!Learn
<1>2. ASSUME NEW t \in Thread, SingCharacter(t) PROVE C!Sing
  BY <1>2 DEF SingCharacter, IInv, TurnOK, EndOK, C!Sing
<1>3. ASSUME Join PROVE C!End \/ UNCHANGED C!chorusVars
  <2>1. CASE main = "join"
    <3>1. IInv' /\ main' = "done" /\ song' = song /\ sung' = sung
      BY <1>3, <2>1, JoinIInv DEF Join, monitor
    <3>2. Len(sung) = Len(song)
      BY <3>1 DEF IInv, TurnOK, EndOK
    <3>3. song \in Seq(Int) /\ sung \in Seq(Int)
      BY SeqMonotonic DEF IInv, TypeOK
    <3>4. sung = song
      BY <3>2, <3>3, SeqEqual DEF IInv, TurnOK
    <3> QED BY <3>1, <3>4 DEF C!End
  <2>2. CASE main = "abort"
    BY <1>3, <2>2 DEF Join, monitor, C!chorusVars
  <2> QED BY <1>3, <2>1, <2>2 DEF Join
<1>4. ASSUME ReadFails \/ Create \/ AllCreated \/ CreateFails \/ Stopped \/ UNCHANGED vars
      PROVE  UNCHANGED C!chorusVars
  BY <1>4 DEF ReadFails, Create, AllCreated, CreateFails, Stopped, vars, monitor, C!chorusVars
<1>5. ASSUME NEW t \in Thread,
             Register(t) \/ WaitForTurn(t) \/ SongOver(t) \/ SpuriousWakeup(t)
      PROVE  UNCHANGED C!chorusVars
  BY <1>5 DEF Register, WaitForTurn, SongOver, SpuriousWakeup, monitor, C!chorusVars
<1> QED BY <1>1, <1>2, <1>3, <1>4, <1>5 DEF Next, MainStep, SingerStep, C!Next

\* The threads sing the song one character at a time, in order, and main says that
\* all of it is sung only when it is.
THEOREM BogatiryImplementsChorus == Spec => RefinesChorus
<1>1. Init => C!Init
  BY DEF Init, C!Init
<1> QED BY <1>1, StepRefinesChorus, Invariance, PTL DEF Spec, RefinesChorus, C!Spec

-----------------------------------------------------------------------------
(* bogatiry2.c: the same things, for any number of singers and any texts. *)

TypeOK2 ==
  /\ main2 \in {"start", "refused", "create", "join", "left", "failed", "done"}
  /\ created2 \in 0 .. MAX_SINGERS
  /\ pc2 \in [Thread2 -> Label]
  /\ my_slot \in [Thread2 -> Nat] /\ slot_id \in Nat
  /\ text \in Seq(Int) /\ sung2 \in Seq(Int)

\* Before the text is taken nobody is there.
StartOK2 ==
  main2 = "start" => text = <<>> /\ sung2 = <<>> /\ \A t \in Thread2 : pc2[t] = "unborn"

\* What is sung is the text up to the cursor; it has no NUL but at its end.
TurnOK2 ==
  /\ \A k \in 1 .. Len(text) : text[k] # NUL2
  /\ cursor = Len(sung2) /\ Len(sung2) <= Len(text)
  /\ \A k \in 1 .. Len(sung2) : sung2[k] = text[k]

\* Singers leave, and main returns well, only at the end of the text.
EndOK2 ==
  /\ \A t \in Thread2 : pc2[t] = "exited" => Under = NUL2
  /\ main2 = "done" => Len(sung2) = Len(text)

\* Whoever waits has neither its turn missed nor the end of the song.
WaitsOK2 == \A t \in Thread2 : pc2[t] = "waiting" => Under \notin {NUL2, my_slot[t]}

\* All this is so while there is a main, or when it has waited for its singers; when
\* it has deserted them, what they do is anything.
Deserted == main2 \in {"left", "failed"}
Whole2   == TypeOK2 /\ StartOK2 /\ TurnOK2 /\ EndOK2 /\ WaitsOK2
IInv2    == TypeOK2 /\ StartOK2 /\ (~Deserted => Whole2)

\* The character under the cursor is the next of the text, or the NUL behind it.
LEMMA Cursor ==
  ASSUME TypeOK2, TurnOK2
  PROVE  /\ Len(sung2) \in Nat /\ Len(text) \in Nat
         /\ Len(sung2) < Len(text) => Under = text[Len(sung2) + 1] /\ Under # NUL2
         /\ Len(sung2) = Len(text) <=> Under = NUL2
<1>1. Len(sung2) \in Nat /\ Len(text) \in Nat
  BY LenProperties DEF TypeOK2
<1>2. Under = IF Len(sung2) < Len(text) THEN text[Len(sung2) + 1] ELSE NUL2
  BY DEF TurnOK2, Under, NUL2
<1> QED BY <1>1, <1>2 DEF TurnOK2

LEMMA InitWhole2 ==
  ASSUME Init2 PROVE Whole2
<1>1. <<>> \in Seq(Int) /\ Len(<<>>) = 0
  BY EmptySeq
<1>2. TypeOK2
  BY <1>1, Bogatiry2Assumption DEF Init2, TypeOK2, Label, NoSlot
<1> QED BY <1>1, <1>2
        DEF Init2, Whole2, StartOK2, TurnOK2, EndOK2, WaitsOK2

LEMMA TextsAreInt ==
  ASSUME NEW s \in Songs
  PROVE  s \in Seq(Int) /\ \A k \in 1 .. Len(s) : s[k] # NUL2
<1>1. s \in Seq(Char)
  BY Bogatiry2Assumption
<1>2. \A k \in 1 .. Len(s) : s[k] \in Char
  BY <1>1, ElementOfSeq
<1>3. Char \subseteq Int /\ NUL2 \notin Char
  BY Bogatiry2Assumption DEF Char, NUL2
<1> QED BY <1>1, <1>2, <1>3, SeqMonotonic

LEMMA TakeTextWhole2 ==
  ASSUME Whole2, NEW s \in Songs, TakeText(s) PROVE Whole2'
<1>1. s \in Seq(Int) /\ \A k \in 1 .. Len(s) : s[k] # NUL2
  BY TextsAreInt
<1>2. Len(sung2') = 0 /\ Len(text') \in Nat /\ cursor' = 0
  BY <1>1, EmptySeq, LenProperties DEF TakeText, Whole2, StartOK2, TurnOK2
<1> QED BY <1>1, <1>2
        DEF TakeText, Whole2, TypeOK2, StartOK2, TurnOK2, EndOK2, WaitsOK2

\* What a step that moves neither the cursor nor the text does to its threads.
LEMMA ThreadsMove ==
  ASSUME Whole2, UNCHANGED <<text, cursor, sung2>>, TypeOK2', StartOK2',
         \A t \in Thread2 : /\ pc2'[t] = "exited" => pc2[t] = "exited" \/ Under = NUL2
                            /\ pc2'[t] = "waiting" => /\ Under \notin {NUL2, my_slot'[t]},
         main2' = "done" => Under = NUL2
  PROVE  Whole2'
<1>1. Under' = Under
  BY DEF Under
<1> QED BY <1>1, Cursor
        DEF Whole2, TurnOK2, EndOK2, WaitsOK2, NUL2

\* After a broadcast nobody waits, and nobody has left who had not before.
LEMMA BroadcastWakes2 ==
  ASSUME NEW pcs \in [Thread2 -> Label]
  PROVE  /\ Broadcast2(pcs) \in [Thread2 -> Label]
         /\ \A t \in Thread2 : /\ Broadcast2(pcs)[t] # "waiting"
                               /\ Broadcast2(pcs)[t] = "exited" => pcs[t] = "exited"
BY DEF Broadcast2, Label

LEMMA MainWhole2 ==
  ASSUME Whole2, NoText \/ Create2 \/ AllCreated2 \/ Join2 PROVE Whole2'
<1> USE DEF ctx
<1>1. CASE Create2
  <2>1. created2' \in Thread2 /\ created2' \in 0 .. MAX_SINGERS
    BY <1>1, Bogatiry2Assumption DEF Create2, Whole2, TypeOK2, Thread2
  <2>2. TypeOK2' /\ StartOK2'
    BY <1>1, <2>1 DEF Create2, Whole2, TypeOK2, StartOK2, Label
  <2>3. \A t \in Thread2 : pc2'[t] = pc2[t] \/ pc2'[t] = "register"
    BY <1>1, <2>1 DEF Create2, Whole2, TypeOK2
  <2> QED BY <1>1, <2>2, <2>3, ThreadsMove
          DEF Create2, Whole2, WaitsOK2, NUL2
<1>2. CASE AllCreated2 \/ NoText
  <2>1. TypeOK2' /\ StartOK2' /\ main2' # "done" /\ pc2' = pc2 /\ my_slot' = my_slot
        /\ UNCHANGED <<text, cursor, sung2>>
    BY <1>2 DEF AllCreated2, NoText, Whole2, TypeOK2, StartOK2
  <2> QED BY <2>1, ThreadsMove
          DEF Whole2, WaitsOK2, NUL2
<1>3. CASE Join2
  <2>1. TypeOK2' /\ StartOK2' /\ pc2' = pc2 /\ my_slot' = my_slot
        /\ UNCHANGED <<text, cursor, sung2>>
    BY <1>3 DEF Join2, Whole2, TypeOK2, StartOK2
  <2>2. 1 \in Thread2 /\ pc2[1] = "exited"
    BY <1>3, Bogatiry2Assumption DEF Join2, Thread2
  <2>3. Under = NUL2
    BY <2>2 DEF Whole2, EndOK2
  <2> QED BY <2>1, <2>3, ThreadsMove
          DEF Whole2, WaitsOK2, NUL2
<1> QED BY <1>1, <1>2, <1>3

LEMMA SingWhole2 ==
  ASSUME Whole2, NEW t \in Thread2, Sing(t) PROVE Whole2'
<1>1. /\ Len(sung2) \in Nat /\ Len(text) \in Nat /\ Len(sung2) < Len(text)
      /\ my_slot[t] = text[Len(sung2) + 1] /\ my_slot[t] \in Int /\ main2 # "start"
      /\ main2' = main2 /\ text' = text /\ my_slot' = my_slot /\ created2' = created2
      /\ slot_id' = slot_id
  BY Cursor DEF Sing, Whole2, TypeOK2, TurnOK2, StartOK2, NUL2
<1>2. /\ sung2' \in Seq(Int) /\ Len(sung2') = Len(sung2) + 1
      /\ \A k \in 1 .. Len(sung2) : sung2'[k] = sung2[k]
      /\ sung2'[Len(sung2) + 1] = my_slot[t]
  BY <1>1, AppendProperties DEF Sing, Whole2, TypeOK2
<1>3. /\ pc2' \in [Thread2 -> Label]
      /\ \A u \in Thread2 : pc2'[u] # "waiting" /\ (pc2'[u] = "exited" => pc2[u] = "exited")
  BY BroadcastWakes2 DEF Sing, Whole2, TypeOK2
<1>4. TypeOK2'
  BY <1>1, <1>2, <1>3 DEF Whole2, TypeOK2
<1>5. TurnOK2'
  <2>1. \A k \in 1 .. Len(sung2') : sung2'[k] = text'[k]
    BY <1>1, <1>2 DEF Whole2, TurnOK2
  <2> QED BY <1>1, <1>2, <2>1 DEF Sing, Whole2, TurnOK2
<1>6. \A u \in Thread2 : pc2[u] # "exited"
  BY <1>1, Cursor DEF Whole2, EndOK2
<1>7. EndOK2' /\ WaitsOK2'
  <2>1. main2 # "done"
    BY <1>1 DEF Whole2, EndOK2
  <2> QED BY <1>1, <1>3, <1>6, <2>1 DEF EndOK2, WaitsOK2
<1> QED BY <1>1, <1>4, <1>5, <1>7 DEF Whole2, StartOK2

LEMMA SingerWhole2 ==
  ASSUME Whole2, NEW t \in Thread2, SingerStep2(t) \/ SpuriousWakeup2(t) PROVE Whole2'
<1> USE DEF ctx
<1>1. CASE Register2(t)
  <2>1. /\ my_slot' = [my_slot EXCEPT ![t] = slot_id]
        /\ UNCHANGED <<main2, created2, text, cursor, sung2>>
        /\ slot_id' \in Nat /\ pc2[t] = "register"
    BY <1>1 DEF Register2, Whole2, TypeOK2
  <2> DEFINE pcs == [pc2 EXCEPT ![t] = "loop"]
  <2>2. pcs \in [Thread2 -> Label] /\ pcs[t] = "loop" /\ \A u \in Thread2 \ {t} : pcs[u] = pc2[u]
    BY DEF Whole2, TypeOK2, Label
  <2>3. pc2' = pcs \/ pc2' = Broadcast2(pcs)
    BY <1>1 DEF Register2
  <2>4. /\ pc2' \in [Thread2 -> Label]
        /\ \A u \in Thread2 : pc2'[u] \in {"exited", "waiting"} => u # t /\ pc2[u] = pc2'[u]
    <3> HIDE DEF pcs
    <3> QED BY <2>2, <2>3, BroadcastWakes2
  <2>5. TypeOK2' /\ StartOK2'
    BY <2>1, <2>4 DEF Whole2, TypeOK2, StartOK2
  <2>6. \A u \in Thread2 \ {t} : my_slot'[u] = my_slot[u]
    BY <2>1 DEF Whole2, TypeOK2
  <2>7. main2' = "done" => Under = NUL2
    BY <2>1, Cursor DEF Whole2, EndOK2
  <2> QED BY <2>1, <2>4, <2>5, <2>6, <2>7, ThreadsMove
          DEF Whole2, WaitsOK2, NUL2
<1>2. CASE WaitForChange(t) \/ SpuriousWakeup2(t)
  <2>1. /\ UNCHANGED <<main2, created2, my_slot, slot_id, text, cursor, sung2>>
        /\ \/ pc2' = [pc2 EXCEPT ![t] = "waiting"] /\ Under \notin {NUL2, my_slot[t]} /\ pc2[t] = "loop"
           \/ pc2' = [pc2 EXCEPT ![t] = "loop"] /\ pc2[t] = "waiting"
    BY <1>2 DEF WaitForChange, SpuriousWakeup2, NUL2
  <2>2. TypeOK2' /\ StartOK2'
    BY <2>1 DEF Whole2, TypeOK2, StartOK2, Label
  <2>3. main2' = "done" => Under = NUL2
    BY <2>1, Cursor DEF Whole2, EndOK2
  <2>4. \A u \in Thread2 : /\ pc2'[u] = "exited" => pc2[u] = "exited"
                           /\ pc2'[u] = "waiting" => Under \notin {NUL2, my_slot'[u]}
    BY <2>1 DEF Whole2, TypeOK2, WaitsOK2, NUL2
  <2> QED BY <2>1, <2>2, <2>3, <2>4, ThreadsMove
<1>3. CASE Sing(t)
  BY <1>3, SingWhole2
<1>4. CASE Leave(t)
  <2>1. /\ UNCHANGED <<main2, created2, my_slot, slot_id, text, cursor, sung2>>
        /\ Under = NUL2 /\ pc2' = [Broadcast2(pc2) EXCEPT ![t] = "exited"] /\ pc2[t] = "loop"
    BY <1>4 DEF Leave, NUL2
  <2>2. pc2' \in [Thread2 -> Label] /\ \A u \in Thread2 : pc2'[u] # "waiting"
    <3>1. Broadcast2(pc2) \in [Thread2 -> Label] /\ \A u \in Thread2 : Broadcast2(pc2)[u] # "waiting"
      BY BroadcastWakes2 DEF Whole2, TypeOK2
    <3> QED BY <2>1, <3>1 DEF Label
  <2>3. TypeOK2' /\ StartOK2'
    BY <2>1, <2>2 DEF Whole2, TypeOK2, StartOK2
  <2> QED BY <2>1, <2>2, <2>3, ThreadsMove
<1> QED BY <1>1, <1>2, <1>3, <1>4 DEF SingerStep2

\* A thread that is left without ctx adds one number to what is sung.
LEMMA AstrayAppends ==
  ASSUME IInv2, NEW t \in Thread2, Astray(t)
  PROVE  \E s \in Int : sung2' = Append(sung2, s)
<1>1. PICK s \in (IF pc2[t] = "register" THEN Char ELSE {my_slot[t]}) :
        sung2' = Append(sung2, s)
  BY DEF Astray
<1>2. my_slot[t] \in Int
  BY DEF IInv2, TypeOK2
<1>3. \A c \in Char : c \in Int
  BY Bogatiry2Assumption DEF Char
<1> QED BY <1>1, <1>2, <1>3

\* Without main only what is sung may change, and that to anything.
LEMMA DesertedIInv2 ==
  ASSUME IInv2, CreateFails2 \/ ProcessEnds \/ \E t \in Thread2 : Astray(t)
  PROVE  IInv2' /\ Deserted'
<1> USE DEF ctx
<1>1. CASE CreateFails2 \/ ProcessEnds
  BY <1>1 DEF CreateFails2, ProcessEnds, IInv2, TypeOK2, StartOK2, Deserted
<1>2. ASSUME NEW t \in Thread2, Astray(t) PROVE IInv2' /\ Deserted'
  <2>1. PICK s \in Int : sung2' = Append(sung2, s)
    BY <1>2, AstrayAppends
  <2>2. sung2' \in Seq(Int)
    BY <2>1, AppendProperties DEF IInv2, TypeOK2
  <2> QED BY <1>2, <2>2 DEF Astray, IInv2, TypeOK2, StartOK2, Deserted
<1> QED BY <1>1, <1>2

LEMMA NextIInv2 ==
  ASSUME IInv2, [Next2]_vars2 PROVE IInv2'
<1>1. CASE UNCHANGED vars2
  BY <1>1 DEF vars2, ctx, IInv2, Whole2, TypeOK2, StartOK2, TurnOK2, EndOK2, WaitsOK2,
              Under, Deserted
<1>2. ASSUME Whole2' PROVE IInv2'
  BY <1>2 DEF IInv2, Whole2
<1>3. ASSUME NEW s \in Songs, TakeText(s) PROVE IInv2'
  BY <1>2, <1>3, TakeTextWhole2 DEF TakeText, IInv2, Deserted
<1>4. CASE NoText \/ Create2 \/ AllCreated2 \/ Join2
  BY <1>2, <1>4, MainWhole2 DEF NoText, Create2, AllCreated2, Join2, IInv2, Deserted
<1>5. ASSUME NEW t \in Thread2, SingerStep2(t) \/ SpuriousWakeup2(t) PROVE IInv2'
  <2>1. CtxLives
    BY <1>5 DEF SingerStep2, Register2, WaitForChange, Sing, Leave, SpuriousWakeup2
  <2> QED BY <1>2, <1>5, <2>1, SingerWhole2 DEF CtxLives, IInv2, Deserted
<1> QED BY <1>1, <1>3, <1>4, <1>5, DesertedIInv2 DEF Next2, MainStep2, Stopped2

LEMMA Invariance2 == Spec2 => []IInv2
<1>1. Init2 => IInv2
  BY InitWhole2 DEF IInv2, Whole2
<1> QED BY <1>1, NextIInv2, PTL DEF Spec2

\* In bogatiry2.c no wake-up is lost either, although the wait is not in a loop of
\* its own and a thread may register late.
THEOREM NobodySleeps2 == Spec2 => []NobodySleepsThroughTheirTurn2
<1>1. IInv2 => NobodySleepsThroughTheirTurn2
  BY DEF IInv2, Whole2, WaitsOK2, NobodySleepsThroughTheirTurn2, Deserted, CtxLives
<1> QED BY <1>1, Invariance2, PTL

LEMMA StepRefinesChorus2 ==
  ASSUME IInv2, [Next2]_vars2 PROVE C2!Next \/ UNCHANGED C2!chorusVars
<1>1. ASSUME NEW s \in Songs, TakeText(s) PROVE C2!Learn
  <2>1. s \in Seq(Int)
    BY TextsAreInt
  <2> QED BY <1>1, <2>1 DEF TakeText, IInv2, StartOK2, C2!Learn
<1>2. ASSUME NEW t \in Thread2, Sing(t) PROVE C2!Sing
  <2>1. Whole2 /\ main2 \in {"create", "join"}
    BY <1>2 DEF Sing, CtxLives, IInv2, Deserted
  <2>2. Len(sung2) < Len(text) /\ my_slot[t] = text[Len(sung2) + 1]
    BY <1>2, <2>1, Cursor DEF Sing, Whole2, TurnOK2, NUL2
  <2> QED BY <1>2, <2>1, <2>2 DEF Sing, C2!Sing
<1>3. ASSUME Join2 PROVE C2!End
  <2>1. Whole2 /\ main2 = "join" /\ main2' = "done" /\ text' = text /\ sung2' = sung2
    BY <1>3 DEF Join2, ctx, IInv2, Deserted
  <2>2. Whole2'
    BY <1>3, <2>1, MainWhole2
  <2>3. Len(sung2) = Len(text)
    BY <2>1, <2>2 DEF Whole2, EndOK2
  <2>4. sung2 = text
    BY <2>1, <2>3, SeqEqual DEF Whole2, TypeOK2, TurnOK2
  <2> QED BY <2>1, <2>4 DEF C2!End
<1>4. ASSUME CreateFails2 PROVE C2!Desert
  BY <1>4 DEF CreateFails2, ctx, C2!Desert
<1>5. ASSUME NEW t \in Thread2, Astray(t) PROVE C2!SingAnything
  <2>1. /\ main2 = "left" /\ main2' = main2 /\ text' = text
        /\ sung2 \in Seq(Int) /\ sung2' \in Seq(Int)
        /\ \E s \in Int : sung2' = Append(sung2, s)
    BY <1>5, DesertedIInv2, AstrayAppends DEF Astray, ctx, IInv2, TypeOK2
  <2>2. Len(sung2') = Len(sung2) + 1 /\ SubSeq(sung2', 1, Len(sung2)) = sung2
    <3>1. PICK s \in Int : sung2' = Append(sung2, s)
      BY <2>1
    <3>2. s \in Int
      BY <3>1
    <3> DEFINE kept == SubSeq(sung2', 1, Len(sung2))
    <3>3. /\ Len(sung2) \in Nat /\ Len(sung2') = Len(sung2) + 1
          /\ \A k \in 1 .. Len(sung2) : sung2'[k] = sung2[k]
      BY <2>1, <3>1, <3>2, AppendProperties, LenProperties
    <3>4. /\ kept \in Seq(Int) /\ Len(kept) = Len(sung2)
          /\ \A k \in 1 .. Len(sung2) : kept[k] = sung2'[k]
      BY <2>1, <3>3, SubSeqProperties, ElementOfSeq
    <3>5. kept = sung2
      <4> HIDE DEF kept
      <4> QED BY <2>1, <3>3, <3>4, SeqEqual
    <3> QED BY <3>3, <3>5
  <2> QED BY <2>1, <2>2 DEF C2!SingAnything
<1>6. ASSUME NoText \/ Create2 \/ AllCreated2 \/ ProcessEnds \/ Stopped2 \/ UNCHANGED vars2
      PROVE  UNCHANGED C2!chorusVars
  BY <1>6 DEF NoText, Create2, AllCreated2, ProcessEnds, Stopped2, vars2, ctx, C2!chorusVars
<1>7. ASSUME NEW t \in Thread2,
             Register2(t) \/ WaitForChange(t) \/ Leave(t) \/ SpuriousWakeup2(t)
      PROVE  UNCHANGED C2!chorusVars
  BY <1>7 DEF Register2, WaitForChange, Leave, SpuriousWakeup2, ctx, C2!chorusVars
<1> QED BY <1>1, <1>2, <1>3, <1>4, <1>5, <1>6, <1>7
        DEF Next2, MainStep2, SingerStep2, C2!Next

\* bogatiry2.c too sings its text one character at a time, in order, and returns well
\* only when all of it has been sung; up to the moment when main deserts its singers,
\* if it does, they have sung the beginning of the text and nothing else.
THEOREM Bogatiry2ImplementsChorus == Spec2 => RefinesChorus2
<1>1. Init2 => C2!Init
  BY DEF Init2, C2!Init
<1> QED BY <1>1, StepRefinesChorus2, Invariance2, PTL DEF Spec2, RefinesChorus2, C2!Spec
=============================================================================
