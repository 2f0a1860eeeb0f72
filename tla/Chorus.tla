------------------------------- MODULE Chorus ------------------------------
(***************************************************************************)
(* What both versions of bogatiry promise: a song is sung one character at *)
(* a time, in order, by many singers, and the program says that it is over *)
(* when all of it has been sung.  A program may desert its singers: then   *)
(* nothing is promised of what they sing.                                  *)
(***************************************************************************)
EXTENDS Integers, Sequences

VARIABLES song,     \* the characters to sing
          sung,     \* what has been sung
          over,     \* main has returned and said that all is sung
          deserted  \* main has returned although there are singers

chorusVars == <<song, sung, over, deserted>>

Init == song = <<>> /\ sung = <<>> /\ over = FALSE /\ deserted = FALSE

\* The song is given once, before anybody sings.
Learn ==
  /\ song = <<>> /\ ~over /\ ~deserted
  /\ song' \in Seq(Int)
  /\ UNCHANGED <<sung, over, deserted>>

Sing ==
  /\ Len(sung) < Len(song) /\ ~over /\ ~deserted
  /\ sung' = Append(sung, song[Len(sung) + 1])
  /\ UNCHANGED <<song, over, deserted>>

End ==
  /\ sung = song /\ ~deserted
  /\ over' = TRUE
  /\ UNCHANGED <<song, sung, deserted>>

Desert ==
  /\ ~over
  /\ deserted' = TRUE
  /\ UNCHANGED <<song, sung, over>>

\* A deserted singer may sing whatever it likes.
SingAnything ==
  /\ deserted
  /\ sung' \in Seq(Int)
  /\ Len(sung') = Len(sung) + 1 /\ SubSeq(sung', 1, Len(sung)) = sung
  /\ UNCHANGED <<song, over, deserted>>

Next == Learn \/ Sing \/ End \/ Desert \/ SingAnything

Spec == Init /\ [][Next]_chorusVars
=============================================================================
