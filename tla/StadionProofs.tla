---------------------------- MODULE StadionProofs --------------------------
(***************************************************************************)
(* Proofs about Stadion, for any number of runners and any queue of two    *)
(* messages or more: the mail is its reader's, and the processes implement *)
(* Relay.  Then the same race over POSIX queues, for any number of runners *)
(* and queues of any room: one baton, nothing left behind, and Relay again.*)
(***************************************************************************)
EXTENDS Stadion, StadionPosix, FiniteSetTheorems, SequenceTheorems, TLAPS

Message == [mtype : Nat, status : Status]
READY   == [mtype |-> ReadyType, status |-> "READY"]
Baton(i) == [mtype |-> BatonType(i), status |-> "ADVANCE"]
Waiting == {i \in Runner : pc[i] = "wait"}

TypeOK ==
  /\ main \in {"fork", "wait", "failed", "done"}
  /\ forked \in 0 .. N + 1
  /\ judge \in {"unborn", "checkin", "ready", "start", "finish", "exited"}
  /\ arrive_cnt \in 0 .. N
  /\ pc \in [Runner -> {"unborn", "hello", "wait", "pass", "exited", "failed"}]
  /\ queue \in Seq(Message) /\ track \in Seq(Int)

\* Who is not forked yet.
Forks ==
  /\ judge = "unborn" <=> forked = 0
  /\ \A i \in Runner : forked <= i => pc[i] = "unborn"

\* Until all are in, there are only hellos in the queue, and each runner who waits
\* has one there or is counted.
CheckingIn ==
  judge \in {"unborn", "checkin"} =>
    /\ track = <<>>
    /\ \A i \in Runner : pc[i] \in {"unborn", "hello", "wait"}
    /\ \A k \in 1 .. Len(queue) : queue[k].status = "SPAWNED" /\ queue[k].mtype <= N + 1
    /\ arrive_cnt + Len(queue) = Cardinality(Waiting)

\* Between the last hello and the start the queue holds at most the READY.
AllWait ==
  judge \in {"ready", "start"} =>
    /\ track = <<>> /\ \A i \in Runner : pc[i] = "wait"
    /\ queue = IF judge = "ready" THEN <<>> ELSE <<READY>>

\* During the race one process has the baton, or it is on its way to one.
BatonSent(k) ==
  /\ queue = <<READY, Baton(k + 1)>>
  /\ \A i \in Runner : pc[i] = IF i <= k THEN "exited" ELSE "wait"
BatonHeld(k) ==
  /\ queue = <<READY>>
  /\ \A i \in Runner : pc[i] = CASE i < k -> "exited" [] i = k -> "pass" [] OTHER -> "wait"
Racing ==
  judge = "finish" =>
    /\ Len(track) <= N
    /\ BatonSent(Len(track)) \/ (Len(track) # 0 /\ BatonHeld(Len(track)))

RaceOver ==
  judge = "exited" =>
    /\ Len(track) = N /\ queue = <<READY>> /\ \A i \in Runner : pc[i] = "exited"

IInv == TypeOK /\ Forks /\ CheckingIn /\ AllWait /\ Racing /\ RaceOver

-----------------------------------------------------------------------------
(* The queue *)

LEMMA MessageTypes ==
  /\ \A i \in Nat : HelloType(i) \in Nat /\ BatonType(i) \in Nat
  /\ ReadyType \in Nat /\ READY \in Message /\ \A i \in Nat : Baton(i) \in Message
BY StadionAssumption DEF HelloType, BatonType, ReadyType, READY, Baton, Message, Status

\* What msgsnd leaves in the queue.
LEMMA Sent ==
  ASSUME queue \in Seq(Message), NEW type \in Nat, NEW status \in Status, msgsnd(type, status)
  PROVE  /\ queue' \in Seq(Message) /\ Len(queue') = Len(queue) + 1
         /\ \A k \in 1 .. Len(queue) : queue'[k] = queue[k]
         /\ queue'[Len(queue) + 1] = [mtype |-> type, status |-> status]
<1> DEFINE message == [mtype |-> type, status |-> status]
<1>1. message \in Message
  BY DEF Message
<1>2. queue' = Append(queue, message)
  BY DEF msgsnd
<1> HIDE DEF message
<1>3. /\ Append(queue, message) \in Seq(Message)
      /\ Len(Append(queue, message)) = Len(queue) + 1
      /\ \A k \in 1 .. Len(queue) : Append(queue, message)[k] = queue[k]
      /\ Append(queue, message)[Len(queue) + 1] = message
  BY <1>1, AppendProperties
<1> QED BY <1>2, <1>3 DEF message

\* What taking the message at k leaves in the queue.
LEMMA Taken ==
  ASSUME queue \in Seq(Message), NEW k \in 1 .. Len(queue), queue' = RemoveAt(queue, k)
  PROVE  /\ queue' \in Seq(Message) /\ Len(queue') = Len(queue) - 1
         /\ \A j \in 1 .. Len(queue') : queue'[j] = IF j < k THEN queue[j] ELSE queue[j + 1]
<1> DEFINE before == SubSeq(queue, 1, k - 1)
           after  == SubSeq(queue, k + 1, Len(queue))
<1>1. Len(queue) \in Nat /\ k \in Int /\ \A j \in 1 .. Len(queue) : queue[j] \in Message
  BY ElementOfSeq, LenProperties
<1>2. /\ before \in Seq(Message) /\ Len(before) = k - 1
      /\ \A j \in 1 .. k - 1 : before[j] = queue[j]
  BY <1>1, SubSeqProperties
<1>3. /\ after \in Seq(Message) /\ Len(after) = Len(queue) - k
      /\ \A j \in 1 .. Len(queue) - k : after[j] = queue[k + j]
  <2>1. \A j \in k + 1 .. Len(queue) : queue[j] \in Message
    BY <1>1
  <2>2. /\ after \in Seq(Message)
        /\ Len(after) = IF k + 1 <= Len(queue) THEN Len(queue) - (k + 1) + 1 ELSE 0
        /\ \A j \in 1 .. Len(queue) - (k + 1) + 1 : after[j] = queue[k + 1 + j - 1]
    BY <1>1, <2>1, SubSeqProperties
  <2> QED BY <1>1, <2>2
<1> HIDE DEF before, after
<1>4. /\ before \o after \in Seq(Message)
      /\ Len(before \o after) = Len(before) + Len(after)
      /\ \A j \in 1 .. Len(before) + Len(after) :
           (before \o after)[j] = IF j <= Len(before) THEN before[j] ELSE after[j - Len(before)]
  BY <1>2, <1>3, ConcatProperties
<1>5. queue' = before \o after
  BY DEF RemoveAt, before, after
<1>6. Len(queue') = Len(queue) - 1
  <2>1. Len(before) + Len(after) = Len(queue) - 1
    BY <1>1, <1>2, <1>3
  <2> QED BY <1>4, <1>5, <2>1
<1>7. ASSUME NEW j \in 1 .. Len(queue')
      PROVE  queue'[j] = IF j < k THEN queue[j] ELSE queue[j + 1]
  <2>1. /\ j \in 1 .. Len(before) + Len(after) /\ j \in Int
        /\ queue'[j] = IF j <= k - 1 THEN before[j] ELSE after[j - (k - 1)]
    BY <1>1, <1>2, <1>3, <1>4, <1>5, <1>6
  <2>2. CASE j < k
    <3>1. j \in 1 .. k - 1
      BY <1>1, <2>1, <2>2
    <3> QED BY <1>1, <1>2, <2>1, <2>2, <3>1
  <2>3. CASE ~ (j < k)
    <3>1. j - (k - 1) \in 1 .. Len(queue) - k /\ k + (j - (k - 1)) = j + 1
      BY <1>1, <1>6, <2>1, <2>3
    <3>2. after[j - (k - 1)] = queue[k + (j - (k - 1))]
      BY <1>3, <3>1
    <3> QED BY <1>1, <2>1, <2>3, <3>1, <3>2
  <2> QED BY <2>2, <2>3
<1> QED BY <1>4, <1>5, <1>6, <1>7

\* Short queues.
LEMMA ShortQueues ==
  ASSUME NEW a \in Message, NEW b \in Message
  PROVE  /\ <<a>> \in Seq(Message) /\ <<a, b>> \in Seq(Message)
         /\ Append(<<>>, a) = <<a>> /\ Append(<<a>>, b) = <<a, b>>
         /\ RemoveAt(<<a, b>>, 2) = <<a>>
<1>1. <<>> \in Seq(Message) /\ <<a>> \in Seq(Message) /\ <<a, b>> \in Seq(Message)
  BY EmptySeq
<1>2. Append(<<>>, a) = <<a>>
  <2>1. /\ Append(<<>>, a) \in Seq(Message) /\ Len(Append(<<>>, a)) = Len(<<>>) + 1
        /\ Append(<<>>, a)[Len(<<>>) + 1] = a
    BY <1>1, AppendProperties
  <2>2. Len(<<>>) + 1 = 1 /\ Len(<<a>>) = 1 /\ <<a>>[1] = a
    OBVIOUS
  <2>3. \A i \in 1 .. 1 : Append(<<>>, a)[i] = <<a>>[i]
    BY <2>1, <2>2
  <2> QED BY <1>1, <2>1, <2>2, <2>3, SeqEqual
<1>3. SubSeq(<<a, b>>, 1, 1) = <<a>>
  <2>1. \A i \in 1 .. 1 : <<a, b>>[i] \in Message
    OBVIOUS
  <2>2. /\ SubSeq(<<a, b>>, 1, 1) \in Seq(Message)
        /\ Len(SubSeq(<<a, b>>, 1, 1)) = 1
        /\ SubSeq(<<a, b>>, 1, 1)[1] = a
    BY <2>1, SubSeqProperties
  <2>3. Len(<<a>>) = 1 /\ <<a>>[1] = a
    OBVIOUS
  <2>4. \A i \in 1 .. 1 : SubSeq(<<a, b>>, 1, 1)[i] = <<a>>[i]
    BY <2>2, <2>3
  <2> QED BY <1>1, <2>2, <2>3, <2>4, SeqEqual
<1>4. SubSeq(<<a, b>>, 3, 2) = <<>>
  BY SubSeqEmpty
<1>5. RemoveAt(<<a, b>>, 2) = <<a>> \o <<>>
  <2>1. 2 - 1 = 1 /\ 2 + 1 = 3 /\ Len(<<a, b>>) = 2
    OBVIOUS
  <2>2. RemoveAt(<<a, b>>, 2) = SubSeq(<<a, b>>, 1, 2 - 1) \o SubSeq(<<a, b>>, 2 + 1, Len(<<a, b>>))
    BY DEF RemoveAt
  <2> QED BY <1>3, <1>4, <2>1, <2>2
<1>6. Append(<<a>>, b) = <<a, b>>
  <2>1. Len(<<a>>) = 1 /\ <<a>>[1] = a /\ Len(<<a, b>>) = 2 /\ <<a, b>>[1] = a /\ <<a, b>>[2] = b
    OBVIOUS
  <2>2. /\ Append(<<a>>, b) \in Seq(Message) /\ Len(Append(<<a>>, b)) = 2
        /\ Append(<<a>>, b)[1] = a /\ Append(<<a>>, b)[2] = b
    BY <1>1, <2>1, AppendProperties
  <2>3. \A i \in 1 .. 2 : Append(<<a>>, b)[i] = <<a, b>>[i]
    BY <2>1, <2>2
  <2> QED BY <1>1, <2>1, <2>2, <2>3, SeqEqual
<1> QED BY <1>1, <1>2, <1>5, <1>6, ConcatEmptySeq

-----------------------------------------------------------------------------
(* The runners who wait *)

LEMMA WaitingIsFinite ==
  /\ IsFiniteSet(Waiting) /\ Cardinality(Waiting) \in Nat /\ Cardinality(Waiting) <= N
  /\ Cardinality(Waiting) = N => Waiting = Runner
<1>1. IsFiniteSet(1 .. N) /\ Cardinality(1 .. N) = N
  BY StadionAssumption, FS_Interval
<1> QED BY <1>1, FS_Subset, FS_CardinalityType DEF Waiting, Runner

LEMMA OneMoreWaits ==
  ASSUME NEW i \in Runner, TypeOK, pc[i] # "wait",
         pc' = [pc EXCEPT ![i] = "wait"]
  PROVE  Cardinality(Waiting') = Cardinality(Waiting) + 1
<1>1. Waiting' = Waiting \cup {i} /\ i \notin Waiting
  BY DEF TypeOK, Waiting
<1> QED BY <1>1, WaitingIsFinite, FS_AddElement

-----------------------------------------------------------------------------
(* The invariant *)

LEMMA InitIInv ==
  ASSUME Init PROVE IInv
<1>1. <<>> \in Seq(Message) /\ <<>> \in Seq(Int) /\ Len(<<>>) = 0
  BY EmptySeq
<1>2. Waiting = {} /\ Cardinality({}) = 0
  BY FS_EmptySet DEF Init, Waiting
<1> QED BY <1>1, <1>2, StadionAssumption
        DEF Init, IInv, TypeOK, Forks, CheckingIn, AllWait, Racing, RaceOver

LEMMA CheckInIInv ==
  ASSUME IInv, CheckIn PROVE IInv'
<1>1. PICK k \in 1 .. Len(queue) : k = 1 /\ queue' = RemoveAt(queue, k)
  BY DEF CheckIn, msgrcv, Found
<1>2. /\ queue' \in Seq(Message) /\ Len(queue') = Len(queue) - 1 /\ Len(queue) \in Nat
      /\ \A j \in 1 .. Len(queue') : queue'[j] = queue[j + 1]
  BY <1>1, Taken, LenProperties DEF IInv, TypeOK
<1>3. Waiting' = Waiting
  BY DEF CheckIn, Waiting
<1>4. arrive_cnt' + Len(queue') = arrive_cnt + Len(queue)
  BY <1>2 DEF CheckIn, IInv, TypeOK
<1>5. CheckingIn'
  BY <1>2, <1>3, <1>4 DEF CheckIn, IInv, CheckingIn
<1> QED BY <1>2, <1>5, StadionAssumption DEF CheckIn, IInv, TypeOK, Forks, AllWait, Racing, RaceOver

\* Everybody is counted, so nobody's hello is in the queue any more.
LEMMA AllInIInv ==
  ASSUME IInv, AllIn PROVE IInv'
<1>1. Len(queue) \in Nat /\ (Len(queue) = 0 => queue = <<>>)
  BY EmptySeq, LenProperties DEF IInv, TypeOK
<1>2. Len(queue) = 0 /\ Waiting = Runner
  BY <1>1, WaitingIsFinite, StadionAssumption DEF AllIn, IInv, CheckingIn
<1> QED BY <1>1, <1>2 DEF AllIn, IInv, TypeOK, Forks, CheckingIn, AllWait, Racing, RaceOver, Waiting

LEMMA ReadyIInv ==
  ASSUME IInv, Ready PROVE IInv'
<1>1. queue = <<>> /\ queue' = Append(queue, READY)
  BY DEF Ready, msgsnd, IInv, AllWait, READY
<1>2. queue' = <<READY>>
  BY <1>1, MessageTypes, ShortQueues
<1>3. queue' \in Seq(Message)
  BY <1>2, MessageTypes
<1> QED BY <1>2, <1>3 DEF Ready, IInv, TypeOK, Forks, CheckingIn, AllWait, Racing, RaceOver

LEMMA StartIInv ==
  ASSUME IInv, Start PROVE IInv'
<1>1. queue = <<READY>> /\ queue' = Append(queue, Baton(1))
  BY DEF Start, msgsnd, IInv, AllWait, Baton
<1>2. queue' = <<READY, Baton(1)>>
  BY <1>1, MessageTypes, ShortQueues
<1>3. queue' \in Seq(Message)
  BY <1>2, MessageTypes
<1>4. track' = <<>> /\ Len(track') = 0
  BY DEF Start, IInv, AllWait
<1>5. BatonSent(0)'
  BY <1>2 DEF Start, IInv, AllWait, BatonSent, Runner
<1>6. Racing'
  BY <1>4, <1>5, StadionAssumption DEF Racing
<1> QED BY <1>3, <1>6 DEF Start, IInv, TypeOK, Forks, CheckingIn, AllWait, RaceOver

\* During the race only whom the baton is for finds anything of its type, and
\* finds the baton.
LEMMA OnlyTheNextFinds ==
  ASSUME IInv, judge = "finish", NEW i \in 1 .. N + 1, NEW k \in Found(BatonType(i))
  PROVE  /\ BatonSent(Len(track)) /\ i = Len(track) + 1 /\ queue[k].status = "ADVANCE"
         /\ RemoveAt(queue, k) = <<READY>>
<1>1. Len(track) \in Nat /\ i \in Nat
  BY LenProperties, StadionAssumption DEF IInv, TypeOK
<1>2. k \in 1 .. Len(queue) /\ queue[k].mtype = BatonType(i)
  BY <1>1, StadionAssumption DEF Found, BatonType
<1>3. BatonType(i) # ReadyType
  BY <1>1, StadionAssumption DEF BatonType, ReadyType
<1>4. BatonSent(Len(track))
  <2> SUFFICES ASSUME BatonHeld(Len(track)) PROVE FALSE
    BY DEF IInv, Racing
  <2>1. queue = <<READY>> /\ k = 1
    BY <1>2 DEF BatonHeld
  <2> QED BY <1>2, <1>3, <2>1 DEF READY
<1>5. k = 2 /\ queue[2] = Baton(Len(track) + 1)
  <2>1. queue = <<READY, Baton(Len(track) + 1)>> /\ (k = 1 \/ k = 2)
    BY <1>2, <1>4 DEF BatonSent
  <2> QED BY <1>2, <1>3, <2>1 DEF READY
<1>6. i = Len(track) + 1 /\ queue[k].status = "ADVANCE"
  BY <1>1, <1>2, <1>5, StadionAssumption DEF Baton, BatonType
<1>7. RemoveAt(queue, k) = <<READY>>
  <2>1. queue = <<READY, Baton(Len(track) + 1)>>
    BY <1>4 DEF BatonSent
  <2>2. READY \in Message /\ Baton(Len(track) + 1) \in Message
    BY <1>1, MessageTypes
  <2> QED BY <1>5, <2>1, <2>2, ShortQueues
<1> QED BY <1>4, <1>6, <1>7

LEMMA FinishIInv ==
  ASSUME IInv, Finish PROVE IInv'
<1>1. PICK k \in Found(BatonType(N + 1)) : queue' = RemoveAt(queue, k)
  BY DEF Finish, msgrcv
<1>2. BatonSent(Len(track)) /\ N + 1 = Len(track) + 1 /\ queue' = <<READY>>
  BY <1>1, OnlyTheNextFinds, StadionAssumption DEF Finish
<1>3. Len(track) = N /\ Len(track) \in Nat
  BY <1>2, LenProperties, StadionAssumption DEF IInv, TypeOK
<1>4. queue' \in Seq(Message)
  BY <1>2, MessageTypes
<1> QED BY <1>2, <1>3, <1>4 DEF Finish, IInv, TypeOK, Forks, CheckingIn, AllWait, Racing, RaceOver,
                                BatonSent, Runner

LEMMA HelloIInv ==
  ASSUME IInv, NEW i \in Runner, Hello(i) PROVE IInv'
<1>1. judge \in {"unborn", "checkin"}
  <2>1. judge \in {"ready", "start"} => FALSE
    BY DEF Hello, IInv, AllWait
  <2>2. judge = "finish" => FALSE
    BY DEF Hello, IInv, Racing, BatonSent, BatonHeld
  <2>3. judge = "exited" => FALSE
    BY DEF Hello, IInv, RaceOver
  <2> QED BY <2>1, <2>2, <2>3 DEF IInv, TypeOK
<1>2. /\ queue' \in Seq(Message) /\ Len(queue') = Len(queue) + 1
      /\ \A k \in 1 .. Len(queue) : queue'[k] = queue[k]
      /\ queue'[Len(queue) + 1] = [mtype |-> HelloType(i), status |-> "SPAWNED"]
  <2>1. i \in Nat /\ HelloType(i) \in Nat /\ "SPAWNED" \in Status
    BY MessageTypes, StadionAssumption DEF Runner, Status
  <2>2. queue \in Seq(Message) /\ msgsnd(HelloType(i), "SPAWNED")
    BY DEF Hello, IInv, TypeOK
  <2> QED BY <2>1, <2>2, Sent
<1>3. /\ pc' = [pc EXCEPT ![i] = "wait"] /\ pc[i] = "hello"
      /\ UNCHANGED <<main, forked, judge, arrive_cnt, track>>
  BY DEF Hello
<1>4. Cardinality(Waiting') = Cardinality(Waiting) + 1
  BY <1>3, OneMoreWaits DEF IInv
<1>5. Len(queue) \in Nat /\ HelloType(i) <= N + 1
  BY LenProperties, StadionAssumption DEF IInv, TypeOK, HelloType, Runner
<1>6. \A k \in 1 .. Len(queue') : queue'[k].status = "SPAWNED" /\ queue'[k].mtype <= N + 1
  <2> TAKE k \in 1 .. Len(queue')
  <2>1. CASE k \in 1 .. Len(queue)
    BY <1>1, <1>2, <2>1 DEF IInv, CheckingIn
  <2>2. CASE k = Len(queue) + 1
    BY <1>2, <1>5, <2>2
  <2> QED BY <1>2, <1>5, <2>1, <2>2
<1>7. arrive_cnt' + Len(queue') = Cardinality(Waiting')
  BY <1>1, <1>2, <1>3, <1>4, <1>5, WaitingIsFinite DEF IInv, TypeOK, CheckingIn
<1>8. TypeOK' /\ Forks'
  BY <1>2, <1>3 DEF IInv, TypeOK, Forks
<1>9. CheckingIn'
  BY <1>1, <1>3, <1>6, <1>7 DEF IInv, TypeOK, CheckingIn
<1> QED BY <1>1, <1>3, <1>8, <1>9 DEF IInv, AllWait, Racing, RaceOver

\* A runner is given nothing before the race, and the baton in it.
LEMMA GoIsGiven ==
  ASSUME IInv, NEW i \in Runner, Go(i)
  PROVE  /\ judge = "finish" /\ BatonSent(Len(track)) /\ i = Len(track) + 1
         /\ queue' = <<READY>> /\ pc' = [pc EXCEPT ![i] = "pass"]
         /\ track' = Append(track, i)
<1>1. PICK status \in Status : 
        /\ \E k \in Found(BatonType(i)) : queue[k].status = status /\ queue' = RemoveAt(queue, k)
        /\ pc' = [pc EXCEPT ![i] = IF status = "ADVANCE" THEN "pass" ELSE "failed"]
        /\ track' = IF status = "ADVANCE" THEN Append(track, i) ELSE track
  BY DEF Go, msgrcv
<1>2. PICK k \in Found(BatonType(i)) : queue[k].status = status /\ queue' = RemoveAt(queue, k)
  BY <1>1
<1>3. i \in Nat /\ i \in 1 .. N + 1
  BY StadionAssumption DEF Runner
<1>4. k \in 1 .. Len(queue) /\ queue[k].mtype = BatonType(i) /\ BatonType(i) > N + 1
  BY <1>3, StadionAssumption DEF Found, BatonType
<1>5. judge = "finish"
  <2>1. judge \in {"unborn", "checkin"} => FALSE
    <3>1. queue[k].mtype \in Nat
      BY <1>3, <1>4, MessageTypes
    <3> QED BY <1>4, <3>1, StadionAssumption DEF IInv, CheckingIn
  <2>2. judge \in {"ready", "start", "exited"} => FALSE
    <3>1. queue = <<>> \/ queue = <<READY>> => FALSE
      BY <1>4, StadionAssumption DEF READY, ReadyType
    <3> QED BY <3>1 DEF IInv, AllWait, RaceOver
  <2> QED BY <2>1, <2>2 DEF IInv, TypeOK
<1>6. /\ BatonSent(Len(track)) /\ i = Len(track) + 1 /\ queue[k].status = "ADVANCE"
      /\ RemoveAt(queue, k) = <<READY>>
  BY <1>3, <1>5, OnlyTheNextFinds
<1> QED BY <1>1, <1>2, <1>5, <1>6

LEMMA GoIInv ==
  ASSUME IInv, NEW i \in Runner, Go(i) PROVE IInv'
<1>1. /\ judge = "finish" /\ BatonSent(Len(track)) /\ i = Len(track) + 1
      /\ queue' = <<READY>> /\ pc' = [pc EXCEPT ![i] = "pass"] /\ track' = Append(track, i)
      /\ UNCHANGED <<main, forked, judge, arrive_cnt>>
  BY GoIsGiven DEF Go
<1>2. track' \in Seq(Int) /\ Len(track') = Len(track) + 1 /\ Len(track) \in Nat
  BY <1>1, AppendProperties, LenProperties DEF IInv, TypeOK, Runner
<1>3. BatonHeld(Len(track))'
  BY <1>1, <1>2 DEF BatonSent, BatonHeld, IInv, TypeOK, Runner
<1>4. queue' \in Seq(Message)
  BY <1>1, MessageTypes
<1>5. TypeOK'
  BY <1>1, <1>2, <1>4 DEF IInv, TypeOK
<1>6. Forks'
  BY <1>1 DEF IInv, TypeOK, Forks, BatonSent, Runner
<1>7. Racing'
  BY <1>1, <1>2, <1>3, StadionAssumption DEF Racing, Runner
<1> QED BY <1>1, <1>5, <1>6, <1>7 DEF IInv, CheckingIn, AllWait, RaceOver

LEMMA PassIInv ==
  ASSUME IInv, NEW i \in Runner, Pass(i) PROVE IInv'
<1>1. judge = "finish" /\ BatonHeld(Len(track)) /\ i = Len(track) /\ Len(track) \in Nat \ {0}
  <2>1. judge \in {"unborn", "checkin", "ready", "start", "exited"} => FALSE
    BY DEF Pass, IInv, CheckingIn, AllWait, RaceOver
  <2>2. judge = "finish"
    BY <2>1 DEF IInv, TypeOK
  <2>3. Len(track) \in Nat
    BY LenProperties DEF IInv, TypeOK
  <2>4. ~ BatonSent(Len(track))
    BY DEF Pass, BatonSent
  <2>5. Len(track) # 0 /\ BatonHeld(Len(track))
    BY <2>2, <2>4 DEF IInv, Racing
  <2>6. i = Len(track)
    BY <2>5 DEF Pass, BatonHeld
  <2> QED BY <2>2, <2>3, <2>5, <2>6
<1>2. queue = <<READY>> /\ queue' = Append(queue, Baton(i + 1))
  BY <1>1 DEF Pass, msgsnd, Baton, BatonHeld
<1>3. queue' = <<READY, Baton(Len(track) + 1)>>
  <2>1. READY \in Message /\ Baton(Len(track) + 1) \in Message
    BY <1>1, MessageTypes
  <2> QED BY <1>1, <1>2, <2>1, ShortQueues
<1>4. queue' \in Seq(Message)
  BY <1>1, <1>3, MessageTypes
<1>5. pc' = [pc EXCEPT ![i] = "exited"] /\ UNCHANGED <<main, forked, judge, arrive_cnt, track>>
  BY DEF Pass
<1>6. BatonSent(Len(track))'
  BY <1>1, <1>3, <1>5 DEF BatonSent, BatonHeld, IInv, TypeOK, Runner
<1>7. TypeOK' /\ Forks'
  BY <1>1, <1>4, <1>5 DEF IInv, TypeOK, Forks, Pass
<1> QED BY <1>1, <1>5, <1>6, <1>7 DEF IInv, CheckingIn, AllWait, Racing, RaceOver

\* Once all wait, all have been forked.
LEMMA ForkIInv ==
  ASSUME IInv, Fork PROVE IInv'
<1>1. CASE forked = 0
  <2>1. judge = "unborn" /\ Waiting' = Waiting
    BY <1>1 DEF Fork, IInv, Forks, Waiting
  <2> QED BY <1>1, <2>1, StadionAssumption
          DEF Fork, IInv, TypeOK, Forks, CheckingIn, AllWait, Racing, RaceOver, Runner
<1>2. CASE forked # 0
  <2>1. forked \in Runner /\ pc[forked] = "unborn" /\ pc' = [pc EXCEPT ![forked] = "hello"]
        /\ UNCHANGED <<main, judge, arrive_cnt, queue, track>> /\ forked' = forked + 1
    BY <1>2, StadionAssumption DEF Fork, IInv, TypeOK, Forks, Runner
  <2>2. judge \in {"unborn", "checkin"}
    <3>1. judge \in {"ready", "start", "exited"} => FALSE
      BY <2>1 DEF IInv, AllWait, RaceOver
    <3>2. judge = "finish" => FALSE
      BY <2>1 DEF IInv, Racing, BatonSent, BatonHeld
    <3> QED BY <3>1, <3>2 DEF IInv, TypeOK
  <2>3. Waiting' = Waiting
    BY <2>1 DEF IInv, TypeOK, Waiting
  <2>4. TypeOK' /\ Forks'
    BY <1>2, <2>1, StadionAssumption DEF IInv, TypeOK, Forks, Runner
  <2>5. CheckingIn'
    BY <2>1, <2>2, <2>3 DEF IInv, TypeOK, CheckingIn
  <2> QED BY <2>1, <2>2, <2>4, <2>5 DEF IInv, AllWait, Racing, RaceOver
<1> QED BY <1>1, <1>2

LEMMA NextIInv ==
  ASSUME IInv, [Next]_vars PROVE IInv'
<1>1. ASSUME ForkFails \/ AllForked \/ RemoveQueue \/ Stopped \/ UNCHANGED vars PROVE IInv'
  <2>1. UNCHANGED <<forked, judge, arrive_cnt, pc, queue, track>>
        /\ main' \in {"fork", "wait", "failed", "done"}
    BY <1>1 DEF ForkFails, AllForked, RemoveQueue, Stopped, vars, IInv, TypeOK
  <2>2. Waiting' = Waiting
    BY <2>1 DEF Waiting
  <2> QED BY <2>1, <2>2 DEF IInv, TypeOK, Forks, CheckingIn, AllWait, Racing, RaceOver,
                            BatonSent, BatonHeld
<1> QED BY <1>1, CheckInIInv, AllInIInv, ReadyIInv, StartIInv, FinishIInv, HelloIInv, GoIInv,
           PassIInv, ForkIInv
           DEF Next, MainStep, JudgeStep, RunnerStep

LEMMA Invariance == Spec => []IInv
BY InitIInv, NextIInv, PTL DEF Spec

-----------------------------------------------------------------------------
(* Theorems *)

\* While the judge counts, only hellos are in the queue, and no runner is ever given
\* anything but the baton, for any number of runners.
THEOREM MailReachesItsReader == Spec => []MailIsForItsReader
<1>1. IInv => MailIsForItsReader
  <2> SUFFICES ASSUME IInv, NEW i \in Runner, pc[i] = "failed" PROVE FALSE
    BY DEF IInv, CheckingIn, MailIsForItsReader
  <2>1. judge \in {"unborn", "checkin", "ready", "start", "exited"} => FALSE
    BY DEF IInv, CheckingIn, AllWait, RaceOver
  <2>2. judge = "finish" => FALSE
    BY DEF IInv, Racing, BatonSent, BatonHeld
  <2> QED BY <2>1, <2>2 DEF IInv, TypeOK
<1> QED BY <1>1, Invariance, PTL

Here  == {i \in Runner : pc[i] \notin {"unborn", "hello"}}
Clock == CASE judge = "finish" -> "running" [] judge = "exited" -> "stopped" [] OTHER -> "reset"

LEMMA StepRefinesRelay ==
  ASSUME IInv, [Next]_vars PROVE R!Next \/ UNCHANGED R!relayVars
<1> USE DEF Here, Clock
<1>1. ASSUME NEW i \in Runner, Hello(i) PROVE R!Arrive(i)
  <2>1. /\ pc' = [pc EXCEPT ![i] = "wait"] /\ pc[i] = "hello"
        /\ UNCHANGED <<judge, track>>
    BY <1>1 DEF Hello
  <2>2. Here' = Here \cup {i} /\ i \notin Here
    BY <2>1 DEF IInv, TypeOK
  <2> QED BY <2>1, <2>2 DEF R!Arrive
<1>2. ASSUME NEW i \in Runner, Go(i) PROVE R!Run
  <2>1. /\ judge = "finish" /\ BatonSent(Len(track)) /\ i = Len(track) + 1
        /\ pc' = [pc EXCEPT ![i] = "pass"] /\ track' = Append(track, i) /\ judge' = judge
        /\ pc[i] = "wait"
    BY <1>2, GoIsGiven DEF Go
  <2>2. Here' = Here
    BY <2>1 DEF IInv, TypeOK
  <2>3. Len(track) \in Nat /\ Len(track) < N
    BY <2>1, LenProperties, StadionAssumption DEF IInv, TypeOK, Runner
  <2> QED BY <2>1, <2>2, <2>3 DEF R!Run
<1>3. ASSUME NEW i \in Runner, Pass(i) PROVE UNCHANGED R!relayVars
  <2>1. /\ pc' = [pc EXCEPT ![i] = "exited"] /\ pc[i] = "pass" /\ UNCHANGED <<judge, track>>
    BY <1>3 DEF Pass
  <2>2. Here' = Here
    BY <2>1 DEF IInv, TypeOK
  <2> QED BY <2>1, <2>2 DEF R!relayVars
<1>4. ASSUME Start PROVE R!StartClock
  <2>1. Here = 1 .. N /\ Here' = Here
    BY <1>4 DEF Start, IInv, AllWait, Runner
  <2> QED BY <1>4, <2>1 DEF Start, R!StartClock
<1>5. ASSUME Finish PROVE R!StopClock
  <2>1. Len(track) = N
    BY <1>5, FinishIInv DEF Finish, IInv, RaceOver
  <2> QED BY <1>5, <2>1 DEF Finish, R!StopClock
<1>6. ASSUME Fork PROVE UNCHANGED R!relayVars
  <2>1. Here' = Here
    BY <1>6, StadionAssumption DEF Fork, IInv, TypeOK, Forks, Runner
  <2>2. UNCHANGED <<Clock, track>>
    BY <1>6 DEF Fork, IInv, Forks
  <2> QED BY <2>1, <2>2 DEF R!relayVars
<1>7. ASSUME CheckIn \/ AllIn \/ Ready \/ ForkFails \/ AllForked \/ RemoveQueue \/ Stopped
             \/ UNCHANGED vars
      PROVE  UNCHANGED R!relayVars
  <2>1. UNCHANGED <<pc, track, Clock>>
    BY <1>7 DEF CheckIn, AllIn, Ready, ForkFails, AllForked, RemoveQueue, Stopped, vars
  <2> QED BY <2>1 DEF R!relayVars
<1> QED BY <1>1, <1>2, <1>3, <1>4, <1>5, <1>6, <1>7
        DEF Next, MainStep, JudgeStep, RunnerStep, R!Next, Runner

\* All runners are there before the clock starts, they run in order with one baton,
\* and the clock stops when the last has run, for any number of them.
THEOREM StadionImplementsRelay == Spec => RefinesRelay
<1>1. Init => R!Init
  BY DEF Init, R!Init
<1> QED BY <1>1, StepRefinesRelay, Invariance, PTL DEF Spec, RefinesRelay, R!Spec

-----------------------------------------------------------------------------
(* The race over POSIX queues                                               *)

WaitingP     == {i \in RunnerP : pcP[i] = "wait"}
MessageP     == [runner_idx : Nat, status : {"SPAWNED", "ADVANCE"}]
HelloMail(i) == [runner_idx |-> i, status |-> "SPAWNED"]
BatonMail(i) == [runner_idx |-> i, status |-> "ADVANCE"]
NoMail       == [q \in Queue |-> <<>>]

TypeOKP ==
  /\ mainP \in {"open", "fork", "wait", "close", "failed", "done"}
  /\ forkedP \in 0 .. total_runners + 1
  /\ judgeP \in {"unborn", "checkin", "start", "finish", "exited"}
  /\ heard \in 0 .. total_runners
  /\ pcP \in [RunnerP -> {"unborn", "hello", "wait", "pass", "exited", "failed"}]
  /\ queues \in [Queue -> Seq(MessageP)] /\ trackP \in Seq(Int)

\* Who is not forked yet: nobody before the queues are made, then one after the other.
ForksP ==
  /\ judgeP = "unborn" <=> forkedP = 0
  /\ mainP = "open" => forkedP = 0
  /\ mainP = "fork" => forkedP <= total_runners
  /\ \A i \in RunnerP : forkedP <= i => pcP[i] = "unborn"

\* Until all are in, each runner who waits has a hello in q_checkin or is counted.
CheckingInP ==
  judgeP \in {"unborn", "checkin"} =>
    /\ trackP = <<>>
    /\ \A i \in RunnerP : pcP[i] \in {"unborn", "hello", "wait"}
    /\ \A q \in Queue \ {0} : queues[q] = <<>>
    /\ heard + Len(queues[0]) = Cardinality(WaitingP)

AllWaitP ==
  judgeP = "start" =>
    trackP = <<>> /\ queues = NoMail /\ \A i \in RunnerP : pcP[i] = "wait"

\* During the race one process has the baton, or it is alone in the next one's queue.
BatonSentP(k) ==
  /\ queues = [NoMail EXCEPT ![k + 1] = <<BatonMail(k)>>]
  /\ \A i \in RunnerP : pcP[i] = IF i <= k THEN "exited" ELSE "wait"
BatonHeldP(k) ==
  /\ queues = NoMail
  /\ \A i \in RunnerP : pcP[i] = CASE i < k -> "exited" [] i = k -> "pass" [] OTHER -> "wait"
RacingP ==
  judgeP = "finish" =>
    /\ Len(trackP) <= total_runners
    /\ BatonSentP(Len(trackP)) \/ (Len(trackP) # 0 /\ BatonHeldP(Len(trackP)))

RaceOverP ==
  judgeP = "exited" =>
    Len(trackP) = total_runners /\ queues = NoMail /\ \A i \in RunnerP : pcP[i] = "exited"

\* main closes after the judge has returned.
ClosingP ==
  /\ mainP \in {"close", "done"} => judgeP = "exited"
  /\ mainP = "done" => opened = {}

IInvP == TypeOKP /\ ForksP /\ CheckingInP /\ AllWaitP /\ RacingP /\ RaceOverP /\ ClosingP

-----------------------------------------------------------------------------
(* What the queues do *)

LEMMA WaitingIsFiniteP ==
  /\ IsFiniteSet(WaitingP) /\ Cardinality(WaitingP) \in Nat
  /\ Cardinality(WaitingP) <= total_runners
  /\ Cardinality(WaitingP) = total_runners => WaitingP = RunnerP
<1>1. IsFiniteSet(1 .. total_runners) /\ Cardinality(1 .. total_runners) = total_runners
  BY StadionPosixAssumption, FS_Interval
<1> QED BY <1>1, FS_Subset, FS_CardinalityType DEF WaitingP, RunnerP

LEMMA NoMailType ==
  /\ NoMail \in [Queue -> Seq(MessageP)]
  /\ RunnerP \subseteq Queue /\ 0 \in Queue /\ total_runners + 1 \in Queue
  /\ \A i \in RunnerP : i + 1 \in Queue /\ i # 0 /\ i + 1 # 0
BY StadionPosixAssumption, EmptySeq DEF NoMail, Queue, RunnerP

LEMMA MessagesP ==
  \A i \in Nat : HelloMail(i) \in MessageP /\ BatonMail(i) \in MessageP
BY DEF HelloMail, BatonMail, MessageP

\* The first message of an empty queue.
LEMMA FirstMessage ==
  ASSUME NEW m \in MessageP
  PROVE  /\ Append(<<>>, m) = <<m>> /\ <<m>> \in Seq(MessageP)
         /\ Head(<<m>>) = m /\ Tail(<<m>>) = <<>> /\ <<m>> # <<>>
<1>1. <<>> \in Seq(MessageP) /\ <<m>> \in Seq(MessageP) /\ Len(<<m>>) = 1 /\ <<m>>[1] = m
  BY EmptySeq
<1>2. /\ Append(<<>>, m) \in Seq(MessageP) /\ Len(Append(<<>>, m)) = 1
      /\ Append(<<>>, m)[1] = m
  <2>1. /\ Len(Append(<<>>, m)) = Len(<<>>) + 1 /\ Append(<<>>, m)[Len(<<>>) + 1] = m
        /\ Append(<<>>, m) \in Seq(MessageP)
    BY <1>1, AppendProperties
  <2> QED BY <2>1
<1>3. Append(<<>>, m) = <<m>>
  <2>1. \A i \in 1 .. 1 : Append(<<>>, m)[i] = <<m>>[i]
    BY <1>1, <1>2
  <2> QED BY <1>1, <1>2, <2>1, SeqEqual
<1>4. <<m>> # <<>> /\ Head(<<m>>) = m /\ Tail(<<m>>) = <<>>
  <2>1. <<m>> # <<>>
    BY <1>1
  <2>2. Tail(<<m>>) \in Seq(MessageP) /\ Len(Tail(<<m>>)) = Len(<<m>>) - 1 /\ Head(<<m>>) = <<m>>[1]
    BY <1>1, <2>1, HeadTailProperties
  <2> QED BY <1>1, <2>1, <2>2, EmptySeq
<1> QED BY <1>1, <1>3, <1>4

\* Taking the only message leaves no mail.
LEMMA OnlyMessageTaken ==
  ASSUME NEW q \in Queue, NEW m \in MessageP,
         queues = [NoMail EXCEPT ![q] = <<m>>], NEW r \in Queue, mq_receive(r)
  PROVE  r = q /\ Head(queues[r]) = m /\ queues' = NoMail
<1>1. queues[r] # <<>> /\ queues' = [queues EXCEPT ![r] = Tail(queues[r])]
  BY DEF mq_receive
<1>2. r = q
  BY <1>1 DEF NoMail
<1>3. queues[q] = <<m>> /\ Head(<<m>>) = m /\ Tail(<<m>>) = <<>>
  BY FirstMessage DEF NoMail
<1>4. queues' = [queues EXCEPT ![q] = <<>>]
  BY <1>1, <1>2, <1>3
<1>5. [[NoMail EXCEPT ![q] = <<m>>] EXCEPT ![q] = <<>>] = NoMail
  BY DEF NoMail
<1> QED BY <1>2, <1>3, <1>4, <1>5

-----------------------------------------------------------------------------
(* The invariant *)

LEMMA InitIInvP ==
  ASSUME InitP PROVE IInvP
<1>1. <<>> \in Seq(Int) /\ Len(<<>>) = 0 /\ queues = NoMail /\ queues \in [Queue -> Seq(MessageP)]
  BY EmptySeq, NoMailType DEF InitP, NoMail
<1>2. WaitingP = {} /\ Cardinality({}) = 0
  BY FS_EmptySet, NoMailType DEF InitP, WaitingP
<1>3. CheckingInP
  BY <1>1, <1>2, NoMailType DEF InitP, CheckingInP, NoMail
<1> QED BY <1>1, <1>3, StadionPosixAssumption, NoMailType
        DEF InitP, IInvP, TypeOKP, ForksP, AllWaitP, RacingP, RaceOverP, ClosingP

LEMMA CheckInIInvP ==
  ASSUME IInvP, CheckInP PROVE IInvP'
<1>1. /\ queues[0] \in Seq(MessageP) /\ queues[0] # <<>> /\ 0 \in Queue
      /\ queues' = [queues EXCEPT ![0] = Tail(queues[0])]
  BY NoMailType DEF CheckInP, mq_receive, IInvP, TypeOKP
<1>2. /\ Tail(queues[0]) \in Seq(MessageP) /\ Len(Tail(queues[0])) = Len(queues[0]) - 1
      /\ Len(queues[0]) \in Nat
  BY <1>1, HeadTailProperties, LenProperties
<1>3. queues'[0] = Tail(queues[0]) /\ \A q \in Queue \ {0} : queues'[q] = queues[q]
  BY <1>1 DEF IInvP, TypeOKP
<1>4. queues' \in [Queue -> Seq(MessageP)]
  BY <1>1, <1>2 DEF IInvP, TypeOKP
<1>5. WaitingP' = WaitingP /\ Cardinality(WaitingP) \in Nat
  BY WaitingIsFiniteP DEF CheckInP, WaitingP
<1>6. heard' + Len(queues'[0]) = heard + Len(queues[0])
  <2>1. heard' = heard + 1 /\ heard \in Nat
    BY DEF CheckInP, IInvP, TypeOKP
  <2>2. Len(queues'[0]) = Len(queues[0]) - 1 /\ Len(queues[0]) \in Nat
    BY <1>2, <1>3
  <2>3. ASSUME NEW a \in Nat, NEW l \in Nat PROVE (a + 1) + (l - 1) = a + l
    OBVIOUS
  <2> QED BY <2>1, <2>2, <2>3
<1>7. CheckingInP'
  BY <1>3, <1>5, <1>6 DEF CheckInP, IInvP, CheckingInP
<1> QED BY <1>4, <1>7, StadionPosixAssumption
        DEF CheckInP, IInvP, TypeOKP, ForksP, AllWaitP, RacingP, RaceOverP, ClosingP

\* Everybody is counted, so nobody's hello is in q_checkin any more.
LEMMA AllInIInvP ==
  ASSUME IInvP, AllInP PROVE IInvP'
<1>1. queues[0] \in Seq(MessageP) /\ Len(queues[0]) \in Nat
  BY LenProperties, NoMailType DEF IInvP, TypeOKP
<1>2. Len(queues[0]) = 0 /\ WaitingP = RunnerP
  BY <1>1, WaitingIsFiniteP, StadionPosixAssumption DEF AllInP, IInvP, CheckingInP
<1>3. queues = NoMail
  <2>1. queues[0] = <<>>
    BY <1>1, <1>2, EmptySeq
  <2>2. \A q \in Queue : queues[q] = <<>>
    BY <2>1 DEF AllInP, IInvP, CheckingInP
  <2> QED BY <2>2 DEF IInvP, TypeOKP, NoMail
<1> QED BY <1>2, <1>3
        DEF AllInP, IInvP, TypeOKP, ForksP, CheckingInP, AllWaitP, RacingP, RaceOverP, ClosingP,
            WaitingP

\* The judge sends the baton, or a runner passes it on, when there is no mail.
LEMMA BatonGoesOut ==
  ASSUME queues = NoMail, NEW k \in Nat, k + 1 \in Queue, mq_send(k + 1, k, "ADVANCE")
  PROVE  /\ queues' = [NoMail EXCEPT ![k + 1] = <<BatonMail(k)>>]
         /\ queues' \in [Queue -> Seq(MessageP)]
<1>1. queues' = [queues EXCEPT ![k + 1] = Append(queues[k + 1], BatonMail(k))]
  BY DEF mq_send, BatonMail
<1>2. queues[k + 1] = <<>>
  BY DEF NoMail
<1>3. BatonMail(k) \in MessageP
  BY MessagesP
<1>4. Append(<<>>, BatonMail(k)) = <<BatonMail(k)>> /\ <<BatonMail(k)>> \in Seq(MessageP)
  BY <1>3, FirstMessage
<1>5. queues' = [NoMail EXCEPT ![k + 1] = <<BatonMail(k)>>]
  BY <1>1, <1>2, <1>4
<1> QED BY <1>4, <1>5, NoMailType

LEMMA StartIInvP ==
  ASSUME IInvP, StartP PROVE IInvP'
<1>1. /\ queues' = [NoMail EXCEPT ![0 + 1] = <<BatonMail(0)>>]
      /\ queues' \in [Queue -> Seq(MessageP)]
  <2>1. queues = NoMail /\ mq_send(0 + 1, 0, "ADVANCE")
    BY DEF StartP, IInvP, AllWaitP
  <2>2. 0 + 1 \in Queue
    BY StadionPosixAssumption DEF Queue
  <2> QED BY <2>1, <2>2, BatonGoesOut
<1>2. trackP' = <<>> /\ Len(trackP') = 0
  BY DEF StartP, IInvP, AllWaitP
<1>3. BatonSentP(0)'
  BY <1>1 DEF StartP, IInvP, AllWaitP, BatonSentP, RunnerP
<1>4. RacingP'
  BY <1>2, <1>3, StadionPosixAssumption DEF RacingP
<1> QED BY <1>1, <1>4
        DEF StartP, IInvP, TypeOKP, ForksP, CheckingInP, AllWaitP, RaceOverP, ClosingP

\* During the race only whom the baton is for has mail, and it is the baton.
LEMMA OnlyTheNextHasMail ==
  ASSUME IInvP, judgeP = "finish", NEW i \in RunnerP \cup {total_runners + 1}, mq_receive(i)
  PROVE  /\ BatonSentP(Len(trackP)) /\ i = Len(trackP) + 1 /\ Len(trackP) \in 0 .. total_runners
         /\ Head(queues[i]).status = "ADVANCE" /\ queues' = NoMail
<1>1. Len(trackP) \in 0 .. total_runners /\ i \in Queue
  BY LenProperties, StadionPosixAssumption, NoMailType DEF IInvP, TypeOKP, RacingP
<1>2. BatonSentP(Len(trackP))
  BY <1>1 DEF IInvP, RacingP, BatonHeldP, mq_receive, NoMail
<1>3. /\ Len(trackP) + 1 \in Queue /\ BatonMail(Len(trackP)) \in MessageP
      /\ queues = [NoMail EXCEPT ![Len(trackP) + 1] = <<BatonMail(Len(trackP))>>]
  BY <1>1, <1>2, MessagesP, StadionPosixAssumption DEF BatonSentP, Queue
<1>4. i = Len(trackP) + 1 /\ Head(queues[i]) = BatonMail(Len(trackP)) /\ queues' = NoMail
  BY <1>1, <1>3, OnlyMessageTaken
<1> QED BY <1>1, <1>2, <1>4 DEF BatonMail

LEMMA FinishIInvP ==
  ASSUME IInvP, FinishP PROVE IInvP'
<1>1. BatonSentP(Len(trackP)) /\ Len(trackP) = total_runners /\ queues' = NoMail
  BY OnlyTheNextHasMail, StadionPosixAssumption DEF FinishP
<1>2. queues' \in [Queue -> Seq(MessageP)]
  BY <1>1, NoMailType
<1> QED BY <1>1, <1>2
        DEF FinishP, IInvP, TypeOKP, ForksP, CheckingInP, AllWaitP, RacingP, RaceOverP, ClosingP,
            BatonSentP, RunnerP

LEMMA HelloIInvP ==
  ASSUME IInvP, NEW i \in RunnerP, HelloP(i) PROVE IInvP'
<1>1. judgeP \in {"unborn", "checkin"}
  <2>1. judgeP \in {"start", "exited"} => FALSE
    BY DEF HelloP, IInvP, AllWaitP, RaceOverP
  <2>2. judgeP = "finish" => FALSE
    BY DEF HelloP, IInvP, RacingP, BatonSentP, BatonHeldP
  <2> QED BY <2>1, <2>2 DEF IInvP, TypeOKP
<1>2. /\ pcP' = [pcP EXCEPT ![i] = "wait"] /\ pcP[i] = "hello"
      /\ queues' = [queues EXCEPT ![0] = Append(queues[0], HelloMail(i))]
      /\ UNCHANGED <<mainP, opened, forkedP, judgeP, heard, trackP>>
  BY DEF HelloP, mq_send, HelloMail
<1>3. queues[0] \in Seq(MessageP) /\ Len(queues[0]) \in Nat /\ HelloMail(i) \in MessageP
  BY LenProperties, NoMailType, MessagesP DEF IInvP, TypeOKP, RunnerP
<1>4. /\ Append(queues[0], HelloMail(i)) \in Seq(MessageP)
      /\ Len(Append(queues[0], HelloMail(i))) = Len(queues[0]) + 1
  BY <1>3, AppendProperties
<1>5. /\ queues' \in [Queue -> Seq(MessageP)]
      /\ queues'[0] = Append(queues[0], HelloMail(i))
      /\ \A q \in Queue \ {0} : queues'[q] = queues[q]
  BY <1>2, <1>4, NoMailType DEF IInvP, TypeOKP
<1>6. Cardinality(WaitingP') = Cardinality(WaitingP) + 1
  <2>1. WaitingP' = WaitingP \cup {i} /\ i \notin WaitingP
    BY <1>2 DEF IInvP, TypeOKP, WaitingP
  <2> QED BY <2>1, WaitingIsFiniteP, FS_AddElement
<1>7. heard' + Len(queues'[0]) = Cardinality(WaitingP')
  <2>1. heard + Len(queues[0]) = Cardinality(WaitingP)
    BY <1>1 DEF IInvP, CheckingInP
  <2>2. heard \in Nat
    BY DEF IInvP, TypeOKP
  <2> QED BY <1>2, <1>3, <1>4, <1>5, <1>6, <2>1, <2>2
<1>8. TypeOKP' /\ ForksP'
  BY <1>2, <1>5 DEF IInvP, TypeOKP, ForksP
<1>9. CheckingInP'
  BY <1>1, <1>2, <1>5, <1>7 DEF IInvP, TypeOKP, CheckingInP
<1> QED BY <1>1, <1>2, <1>8, <1>9 DEF IInvP, AllWaitP, RacingP, RaceOverP, ClosingP

\* A runner is given nothing before the race, and the baton in it.
LEMMA GoIsGivenP ==
  ASSUME IInvP, NEW i \in RunnerP, GoP(i)
  PROVE  /\ judgeP = "finish" /\ BatonSentP(Len(trackP)) /\ i = Len(trackP) + 1
         /\ Len(trackP) \in 0 .. total_runners /\ queues' = NoMail
         /\ pcP' = [pcP EXCEPT ![i] = "pass"] /\ trackP' = Append(trackP, i)
<1>1. judgeP = "finish"
  <2>1. i \in Queue \ {0} /\ queues[i] # <<>>
    BY NoMailType DEF GoP, mq_receive
  <2>2. judgeP \in {"unborn", "checkin"} => FALSE
    BY <2>1 DEF IInvP, CheckingInP
  <2>3. judgeP \in {"start", "exited"} => FALSE
    BY <2>1 DEF IInvP, AllWaitP, RaceOverP, NoMail
  <2> QED BY <2>2, <2>3 DEF IInvP, TypeOKP
<1>2. mq_receive(i)
  BY DEF GoP
<1>3. /\ BatonSentP(Len(trackP)) /\ i = Len(trackP) + 1 /\ Len(trackP) \in 0 .. total_runners
      /\ Head(queues[i]).status = "ADVANCE" /\ queues' = NoMail
  BY <1>1, <1>2, OnlyTheNextHasMail
<1> QED BY <1>1, <1>3 DEF GoP

LEMMA GoIInvP ==
  ASSUME IInvP, NEW i \in RunnerP, GoP(i) PROVE IInvP'
<1>1. /\ judgeP = "finish" /\ BatonSentP(Len(trackP)) /\ i = Len(trackP) + 1
      /\ Len(trackP) \in 0 .. total_runners /\ queues' = NoMail
      /\ pcP' = [pcP EXCEPT ![i] = "pass"] /\ trackP' = Append(trackP, i)
      /\ UNCHANGED <<mainP, opened, forkedP, judgeP, heard>>
  BY GoIsGivenP DEF GoP
<1>2. trackP' \in Seq(Int) /\ Len(trackP') = Len(trackP) + 1
  BY <1>1, AppendProperties DEF IInvP, TypeOKP, RunnerP
<1>3. BatonHeldP(Len(trackP))'
  BY <1>1, <1>2 DEF BatonSentP, BatonHeldP, IInvP, TypeOKP, RunnerP
<1>4. TypeOKP'
  BY <1>1, <1>2, NoMailType DEF IInvP, TypeOKP
<1>5. ForksP'
  BY <1>1 DEF IInvP, TypeOKP, ForksP, BatonSentP, RunnerP
<1>6. RacingP'
  BY <1>1, <1>2, <1>3, StadionPosixAssumption DEF RacingP, RunnerP
<1> QED BY <1>1, <1>4, <1>5, <1>6 DEF IInvP, CheckingInP, AllWaitP, RaceOverP, ClosingP

LEMMA PassIInvP ==
  ASSUME IInvP, NEW i \in RunnerP, PassP(i) PROVE IInvP'
<1>1. judgeP = "finish" /\ BatonHeldP(Len(trackP)) /\ i = Len(trackP) /\ Len(trackP) \in Nat \ {0}
  <2>1. judgeP \in {"unborn", "checkin", "start", "exited"} => FALSE
    BY DEF PassP, IInvP, CheckingInP, AllWaitP, RaceOverP
  <2>2. judgeP = "finish"
    BY <2>1 DEF IInvP, TypeOKP
  <2>3. Len(trackP) \in Nat
    BY LenProperties DEF IInvP, TypeOKP
  <2>4. ~ BatonSentP(Len(trackP))
    BY DEF PassP, BatonSentP
  <2>5. Len(trackP) # 0 /\ BatonHeldP(Len(trackP))
    BY <2>2, <2>4 DEF IInvP, RacingP
  <2>6. i = Len(trackP)
    BY <2>5 DEF PassP, BatonHeldP
  <2> QED BY <2>2, <2>3, <2>5, <2>6
<1>2. /\ queues' = [NoMail EXCEPT ![i + 1] = <<BatonMail(i)>>]
      /\ queues' \in [Queue -> Seq(MessageP)]
  <2>1. queues = NoMail /\ i \in Nat /\ i + 1 \in Queue /\ mq_send(i + 1, i, "ADVANCE")
    BY <1>1, NoMailType DEF PassP, BatonHeldP
  <2> QED BY <2>1, BatonGoesOut
<1>3. pcP' = [pcP EXCEPT ![i] = "exited"] /\ UNCHANGED <<mainP, opened, forkedP, judgeP, heard, trackP>>
  BY DEF PassP
<1>4. BatonSentP(Len(trackP))'
  BY <1>1, <1>2, <1>3 DEF BatonSentP, BatonHeldP, IInvP, TypeOKP, RunnerP
<1>5. TypeOKP' /\ ForksP'
  BY <1>1, <1>2, <1>3 DEF IInvP, TypeOKP, ForksP, PassP
<1> QED BY <1>1, <1>3, <1>4, <1>5 DEF IInvP, CheckingInP, AllWaitP, RacingP, RaceOverP, ClosingP

\* Once all wait, all have been forked.
LEMMA ForkIInvP ==
  ASSUME IInvP, ForkP PROVE IInvP'
<1>1. /\ forkedP' = forkedP + 1 /\ mainP' \in {"fork", "wait"}
      /\ mainP' = "fork" => forkedP' <= total_runners
      /\ UNCHANGED <<opened, heard, queues, trackP>> /\ forkedP \in 0 .. total_runners
  BY StadionPosixAssumption DEF ForkP, IInvP, TypeOKP, ForksP
<1>2. CASE forkedP = 0
  <2>1. judgeP = "unborn" /\ WaitingP' = WaitingP /\ judgeP' = "checkin" /\ pcP' = pcP
    BY <1>2 DEF ForkP, IInvP, ForksP, WaitingP
  <2> QED BY <1>1, <1>2, <2>1, StadionPosixAssumption
          DEF IInvP, TypeOKP, ForksP, CheckingInP, AllWaitP, RacingP, RaceOverP, ClosingP, RunnerP
<1>3. CASE forkedP # 0
  <2>1. /\ forkedP \in RunnerP /\ pcP[forkedP] = "unborn" /\ pcP' = [pcP EXCEPT ![forkedP] = "hello"]
        /\ judgeP' = judgeP
    BY <1>1, <1>3, StadionPosixAssumption DEF ForkP, IInvP, TypeOKP, ForksP, RunnerP
  <2>2. judgeP \in {"unborn", "checkin"}
    <3>1. judgeP \in {"start", "exited"} => FALSE
      BY <2>1 DEF IInvP, AllWaitP, RaceOverP
    <3>2. judgeP = "finish" => FALSE
      BY <2>1 DEF IInvP, RacingP, BatonSentP, BatonHeldP
    <3> QED BY <3>1, <3>2 DEF IInvP, TypeOKP
  <2>3. WaitingP' = WaitingP
    BY <2>1 DEF IInvP, TypeOKP, WaitingP
  <2>4. TypeOKP' /\ ForksP'
    BY <1>1, <1>3, <2>1, StadionPosixAssumption DEF IInvP, TypeOKP, ForksP, RunnerP
  <2>5. CheckingInP'
    BY <1>1, <2>1, <2>2, <2>3 DEF IInvP, TypeOKP, CheckingInP
  <2> QED BY <1>1, <2>1, <2>2, <2>4, <2>5 DEF IInvP, AllWaitP, RacingP, RaceOverP, ClosingP
<1> QED BY <1>2, <1>3

LEMMA NextIInvP ==
  ASSUME IInvP, [NextP]_varsP PROVE IInvP'
<1>1. ASSUME Open \/ Fails \/ Wait \/ Unlink \/ StoppedP \/ UNCHANGED varsP PROVE IInvP'
  <2>1. /\ UNCHANGED <<forkedP, judgeP, heard, pcP, queues, trackP>>
        /\ mainP' \in {"open", "fork", "wait", "close", "failed", "done"}
    BY <1>1 DEF Open, Fails, Wait, Unlink, StoppedP, varsP, IInvP, TypeOKP
  <2>2. WaitingP' = WaitingP
    BY <2>1 DEF WaitingP
  <2>3. ForksP'
    BY <1>1, StadionPosixAssumption
       DEF Open, Fails, Wait, Unlink, StoppedP, varsP, IInvP, TypeOKP, ForksP
  <2>4. ClosingP'
    BY <1>1 DEF Open, Fails, Wait, Unlink, StoppedP, varsP, IInvP, ClosingP
  <2> QED BY <2>1, <2>2, <2>3, <2>4
          DEF IInvP, TypeOKP, CheckingInP, AllWaitP, RacingP, RaceOverP, BatonSentP, BatonHeldP
<1> QED BY <1>1, CheckInIInvP, AllInIInvP, StartIInvP, FinishIInvP, HelloIInvP, GoIInvP, PassIInvP,
           ForkIInvP
        DEF NextP, MainStepP, JudgeStepP, RunnerStepP, RunnerP

LEMMA InvarianceP == SpecP => []IInvP
BY InitIInvP, NextIInvP, PTL DEF SpecP

-----------------------------------------------------------------------------
(* Theorems about the race over POSIX queues *)

\* The queues that hold a baton, and the runners who run with it.
Mailed  == {q \in Queue \ {0} : queues[q] # <<>>}
Running == {i \in RunnerP : pcP[i] = "pass"}

LEMMA BatonsCounted ==
  ASSUME IInvP PROVE Cardinality(Mailed) + Cardinality(Running) = IF judgeP = "finish" THEN 1 ELSE 0
<1>1. Cardinality({}) = 0 /\ \A x : Cardinality({x}) = 1
  BY FS_EmptySet, FS_Singleton
<1>2. Len(trackP) \in Nat
  BY LenProperties DEF IInvP, TypeOKP
<1>3. CASE judgeP # "finish"
  <2>1. Mailed = {}
    BY <1>3 DEF IInvP, TypeOKP, CheckingInP, AllWaitP, RaceOverP, NoMail, Mailed
  <2>2. Running = {}
    BY <1>3 DEF IInvP, TypeOKP, CheckingInP, AllWaitP, RaceOverP, RunnerP, Running
  <2> QED BY <1>1, <1>3, <2>1, <2>2
<1>4. CASE judgeP = "finish" /\ BatonSentP(Len(trackP))
  <2>1. Len(trackP) + 1 \in Queue \ {0} /\ BatonMail(Len(trackP)) \in MessageP
    BY <1>2, <1>4, MessagesP, StadionPosixAssumption DEF IInvP, RacingP, Queue
  <2>2. <<BatonMail(Len(trackP))>> # <<>>
    BY <2>1, FirstMessage
  <2>3. Mailed = {Len(trackP) + 1}
    BY <1>4, <2>1, <2>2 DEF BatonSentP, NoMail, Mailed
  <2>4. Running = {}
    BY <1>4 DEF BatonSentP, RunnerP, Running
  <2>5. Cardinality(Mailed) = 1 /\ Cardinality(Running) = 0
    BY <1>1, <2>3, <2>4
  <2> QED BY <1>4, <2>5
<1>5. CASE judgeP = "finish" /\ Len(trackP) # 0 /\ BatonHeldP(Len(trackP))
  <2>1. Mailed = {}
    BY <1>5 DEF BatonHeldP, NoMail, Mailed
  <2>2. Running = {Len(trackP)}
    BY <1>2, <1>5 DEF IInvP, RacingP, BatonHeldP, RunnerP, Running
  <2>3. Cardinality(Mailed) = 0 /\ Cardinality(Running) = 1
    BY <1>1, <2>1, <2>2
  <2> QED BY <1>5, <2>3
<1> QED BY <1>3, <1>4, <1>5 DEF IInvP, RacingP

\* From the judge's start to its finish there is one baton, in a queue or with a runner,
\* and before and after there is none, for any number of runners.
THEOREM OneBatonPosix == SpecP => []OneBaton
<1>1. IInvP => OneBaton
  BY BatonsCounted DEF OneBaton, Mailed, Running
<1> QED BY <1>1, InvarianceP, PTL

\* main unlinks the queues only after everybody has returned and they are empty, and
\* leaves no name behind, for any number of runners.
THEOREM NothingLeftBehindPosix == SpecP => []NothingLeftBehind
<1>1. IInvP => NothingLeftBehind
  BY DEF IInvP, ClosingP, RaceOverP, NoMail, NothingLeftBehind
<1> QED BY <1>1, InvarianceP, PTL

LEMMA StepRefinesRelayP ==
  ASSUME IInvP, [NextP]_varsP PROVE RP!Next \/ UNCHANGED RP!relayVars
<1> DEFINE HereP  == {i \in RunnerP : pcP[i] \notin {"unborn", "hello"}}
           ClockP == CASE judgeP = "finish" -> "running" [] judgeP = "exited" -> "stopped"
                       [] OTHER -> "reset"
<1>1. ASSUME NEW i \in RunnerP, HelloP(i) PROVE RP!Arrive(i)
  <2>1. pcP' = [pcP EXCEPT ![i] = "wait"] /\ pcP[i] = "hello" /\ UNCHANGED <<judgeP, trackP>>
    BY <1>1 DEF HelloP
  <2>2. HereP' = HereP \cup {i} /\ i \notin HereP
    BY <2>1 DEF IInvP, TypeOKP, RunnerP
  <2> QED BY <2>1, <2>2 DEF RP!Arrive
<1>2. ASSUME NEW i \in RunnerP, GoP(i) PROVE RP!Run
  <2>1. /\ judgeP = "finish" /\ BatonSentP(Len(trackP)) /\ i = Len(trackP) + 1
        /\ pcP' = [pcP EXCEPT ![i] = "pass"] /\ trackP' = Append(trackP, i) /\ judgeP' = judgeP
        /\ pcP[i] = "wait"
    BY <1>2, GoIsGivenP DEF GoP
  <2>2. HereP' = HereP
    BY <2>1 DEF IInvP, TypeOKP, RunnerP
  <2>3. Len(trackP) \in Nat /\ Len(trackP) < total_runners
    BY <2>1, LenProperties, StadionPosixAssumption DEF IInvP, TypeOKP, RunnerP
  <2> QED BY <2>1, <2>2, <2>3 DEF RP!Run
<1>3. ASSUME NEW i \in RunnerP, PassP(i) PROVE UNCHANGED RP!relayVars
  <2>1. pcP' = [pcP EXCEPT ![i] = "exited"] /\ pcP[i] = "pass" /\ UNCHANGED <<judgeP, trackP>>
    BY <1>3 DEF PassP
  <2>2. HereP' = HereP
    BY <2>1 DEF IInvP, TypeOKP, RunnerP
  <2> QED BY <2>1, <2>2 DEF RP!relayVars
<1>4. ASSUME StartP PROVE RP!StartClock
  <2>1. HereP = 1 .. total_runners /\ HereP' = HereP
    BY <1>4 DEF StartP, IInvP, AllWaitP, RunnerP
  <2> QED BY <1>4, <2>1 DEF StartP, RP!StartClock
<1>5. ASSUME FinishP PROVE RP!StopClock
  <2>1. Len(trackP) = total_runners
    BY <1>5, FinishIInvP DEF FinishP, IInvP, RaceOverP
  <2> QED BY <1>5, <2>1 DEF FinishP, RP!StopClock
<1>6. ASSUME ForkP PROVE UNCHANGED RP!relayVars
  <2>1. HereP' = HereP
    BY <1>6, StadionPosixAssumption DEF ForkP, IInvP, TypeOKP, ForksP, RunnerP
  <2>2. UNCHANGED <<ClockP, trackP>>
    BY <1>6 DEF ForkP, IInvP, ForksP
  <2> QED BY <2>1, <2>2 DEF RP!relayVars
<1>7. ASSUME CheckInP \/ AllInP \/ Open \/ Fails \/ Wait \/ Unlink \/ StoppedP
             \/ UNCHANGED varsP
      PROVE  UNCHANGED RP!relayVars
  <2>1. UNCHANGED <<pcP, trackP, ClockP>>
    BY <1>7 DEF CheckInP, AllInP, Open, Fails, Wait, Unlink, StoppedP, varsP
  <2> QED BY <2>1 DEF RP!relayVars
<1> QED BY <1>1, <1>2, <1>3, <1>4, <1>5, <1>6, <1>7
        DEF NextP, MainStepP, JudgeStepP, RunnerStepP, RP!Next, RunnerP

\* Over POSIX queues too all runners are there before the clock starts, they run in
\* order, and the clock stops when the last has run, for any number of them.
THEOREM StadionPosixImplementsRelay == SpecP => RefinesRelayP
<1>1. InitP => RP!Init
  BY DEF InitP, RP!Init
<1> QED BY <1>1, StepRefinesRelayP, InvarianceP, PTL DEF SpecP, RefinesRelayP, RP!Spec
=============================================================================
