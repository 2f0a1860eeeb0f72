------------------------------ MODULE Bogatiry -----------------------------
(***************************************************************************)
(* bogatiry/bogatiry.c: one thread per ASCII character sings a song from a *)
(* file.  A monitor holds the character whose turn it is; its singer       *)
(* prints it, moves on to the next and wakes everybody.                    *)
(*                                                                         *)
(* All shared state is behind one mutex, so a critical section, from       *)
(* pthread_mutex_lock or the return of pthread_cond_wait to the unlock or  *)
(* the next wait, is one step.                                             *)
(***************************************************************************)
EXTENDS Integers, Sequences, FiniteSets, SequencesExt, FiniteSetsExt

CONSTANTS ASCII_SINGER_COUNT,     \* 128 in the code
          MAX_SONG_BUFFER_SIZE,   \* 1024 in the code, the final NUL included
          Files                   \* the contents slova.txt may have: sequences of bytes

ASSUME BogatiryAssumption ==
  /\ ASCII_SINGER_COUNT \in Nat \ {0}
  /\ MAX_SONG_BUFFER_SIZE \in Nat \ {0}
  /\ Files \subseteq Seq(Nat)

NUL    == 0
Thread == 1 .. ASCII_SINGER_COUNT

VARIABLES
  main,                \* where main is
  created,             \* threads created so far
  pc,                  \* where each singer is
  voice,               \* my_character_to_sing of each singer
  next_singer_id,
  song,                \* song_text up to song_length
  next_char_index,
  current_character,
  sung                 \* what putchar was given

monitor == <<song, next_char_index, current_character>>
vars    == <<main, created, pc, voice, next_singer_id, monitor, sung>>

Unnamed  == -1

Init ==
  /\ main = "read" /\ created = 0
  /\ pc = [t \in Thread |-> "unborn"]
  /\ voice = [t \in Thread |-> Unnamed]
  /\ next_singer_id = 0
  /\ song = <<>> /\ next_char_index = 0 /\ current_character = NUL
  /\ sung = <<>>

\* strlen of what fread left in the buffer: it ends at the first NUL, which is the
\* file's own, or the one that is put after its last byte or at the buffer's end.
SongOf(file) ==
  LET ends == {n \in 0 .. Len(file) :
                 n = Len(file) \/ n = MAX_SONG_BUFFER_SIZE - 1 \/ file[n + 1] = NUL}
  IN  SubSeq(file, 1, CHOOSE n \in ends : \A m \in ends : n <= m)

Text(text, index) == IF index < Len(text) THEN text[index + 1] ELSE NUL

\* move_to_next_character_locked: the first branch as long as the index has not
\* passed the final NUL.
MoveToNext(index) ==
  IF index <= Len(song)
  THEN current_character' = Text(song, index) /\ next_char_index' = index + 1
  ELSE current_character' = NUL /\ next_char_index' = index

\* pthread_cond_broadcast.  Mutant: the broadcast is forgotten.
BroadcastToNobody(pcs) == pcs
Broadcast(pcs) == [t \in Thread |-> IF pcs[t] = "waiting" THEN "loop" ELSE pcs[t]]

-----------------------------------------------------------------------------
(* main *)

\* The first character is prepared before any thread exists.
ReadSong(file) ==
  /\ main = "read"
  /\ SongOf(file) # <<>>
  /\ song' = SongOf(file)
  /\ current_character' = Text(song', 0)
  /\ next_char_index' = 1
  /\ main' = "create"
  /\ UNCHANGED <<created, pc, voice, next_singer_id, sung>>

\* The file cannot be read, or it is empty up to the first NUL.
ReadFails ==
  /\ main = "read"
  /\ main' = "failed"
  /\ UNCHANGED <<created, pc, voice, next_singer_id, monitor, sung>>

Create ==
  /\ main = "create" /\ created < ASCII_SINGER_COUNT
  /\ created' = created + 1
  /\ pc' = [pc EXCEPT ![created'] = "register"]
  /\ UNCHANGED <<main, voice, next_singer_id, monitor, sung>>

AllCreated ==
  /\ main = "create" /\ created = ASCII_SINGER_COUNT
  /\ main' = "join"
  /\ UNCHANGED <<created, pc, voice, next_singer_id, monitor, sung>>

\* Mutants: a failure that goes on as if all had been created; one that wakes
\* nobody.
CreateFailsUnnoticed ==
  /\ main = "create" /\ created < ASCII_SINGER_COUNT
  /\ current_character' = NUL
  /\ pc' = Broadcast(pc)
  /\ main' = "join"
  /\ UNCHANGED <<created, voice, next_singer_id, song, next_char_index, sung>>

CreateFailsSilently ==
  /\ main = "create" /\ created < ASCII_SINGER_COUNT
  /\ current_character' = NUL
  /\ main' = "abort"
  /\ UNCHANGED <<created, pc, voice, next_singer_id, song, next_char_index, sung>>

\* pthread_create fails: the song is declared over and the threads are awaited.
CreateFails ==
  /\ main = "create" /\ created < ASCII_SINGER_COUNT
  /\ current_character' = NUL
  /\ pc' = Broadcast(pc)
  /\ main' = "abort"
  /\ UNCHANGED <<created, voice, next_singer_id, song, next_char_index, sung>>

Join ==
  /\ main \in {"join", "abort"}
  /\ \A t \in 1 .. created : pc[t] = "exited"
  /\ main' = IF main = "join" THEN "done" ELSE "failed"
  /\ UNCHANGED <<created, pc, voice, next_singer_id, monitor, sung>>

MainStep ==
  \/ \E file \in Files : ReadSong(file)
  \/ ReadFails \/ Create \/ AllCreated \/ CreateFails \/ Join

-----------------------------------------------------------------------------
(* singer_thread_routine *)

Register(t) ==
  /\ pc[t] = "register"
  /\ voice' = [voice EXCEPT ![t] = next_singer_id]
  /\ next_singer_id' = next_singer_id + 1
  /\ pc' = [pc EXCEPT ![t] = "loop"]
  /\ UNCHANGED <<main, created, monitor, sung>>

WaitForTurn(t) ==
  /\ pc[t] = "loop"
  /\ current_character \notin {NUL, voice[t]}
  /\ pc' = [pc EXCEPT ![t] = "waiting"]
  /\ UNCHANGED <<main, created, voice, next_singer_id, monitor, sung>>

SongOver(t) ==
  /\ pc[t] = "loop"
  /\ current_character = NUL
  /\ pc' = [pc EXCEPT ![t] = "exited"]
  /\ UNCHANGED <<main, created, voice, next_singer_id, monitor, sung>>

SingCharacter(t) ==
  /\ pc[t] = "loop"
  /\ current_character # NUL /\ current_character = voice[t]
  /\ sung' = Append(sung, voice[t])
  /\ MoveToNext(next_char_index)
  /\ pc' = Broadcast(pc)
  /\ UNCHANGED <<main, created, voice, next_singer_id, song>>

SingerStep(t) == Register(t) \/ WaitForTurn(t) \/ SongOver(t) \/ SingCharacter(t)

\* pthread_cond_wait may return without a broadcast.
SpuriousWakeup(t) ==
  /\ pc[t] = "waiting"
  /\ pc' = [pc EXCEPT ![t] = "loop"]
  /\ UNCHANGED <<main, created, voice, next_singer_id, monitor, sung>>

\* main has returned.
Stopped == main \in {"done", "failed"} /\ UNCHANGED vars

Next ==
  \/ MainStep
  \/ \E t \in Thread : SingerStep(t) \/ SpuriousWakeup(t)
  \/ Stopped

\* Every thread is scheduled, and gets the mutex at last; no wake-up is owed to
\* luck.
Fairness == WF_vars(MainStep) /\ \A t \in Thread : WF_vars(SingerStep(t))

Spec == Init /\ [][Next]_vars /\ Fairness

-----------------------------------------------------------------------------
(* Properties *)

\* No wake-up is lost: whoever waits on character_changed has neither its turn
\* missed nor the end of the song (bogatiry.c:120-122).
NobodySleepsThroughTheirTurn ==
  \A t \in Thread : pc[t] = "waiting" => current_character \notin {NUL, voice[t]}

\* Whatever the interleaving, the song is sung as Chorus says, and no singer is
\* deserted; when main returns with "all the characters of the song have been sung"
\* (bogatiry.c:199), they have.
C == INSTANCE Chorus WITH over <- main = "done", deserted <- FALSE
RefinesChorus == C!Spec

\* A song of which every character has a singer comes to its end and main returns,
\* also when a thread could not be created.  The only thing that can hold up the
\* program is a character that no singer has (a byte above 127 is a negative
\* char): then it waits at that character for ever.
EndsOrMissesAVoice ==
  main = "create" ~>
    main \in {"done", "failed"} \/ [](current_character >= ASCII_SINGER_COUNT)
=============================================================================
