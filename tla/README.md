# Verification of the second-year computer technology programs

The repository (`src/`) is a collection of small, independent C and C++ programs:
processes, threads and files on POSIX. Each program is a component; they share no code
and never talk to one another. What makes them hard is inside each one: processes that meet
at semaphores, threads at a monitor, messages in queues, and all of it under failures of
`fork`, `open` and `pthread_create`. This directory holds TLA+ models of them, TLC
configurations that check the models on small instances, and TLAPS proofs for every size.

Paths below are relative to `src/`. Line numbers of every definition are in `PROJECT.json`
(`map`), and so are the hazards, each at the line where it bites.

## 1. Inventory

### Modelled

| component | processes and state | operations | how they interact | what is hard |
|---|---|---|---|---|
| `hanters/main.c` | N hunter processes, one cook; `SharedMemory` in an anonymous mapping | hunt, deposit, eat, die; begin the day, serve, butcher, curse, call to dinner, release | four POSIX semaphores (`mutex`, `start_hunt`, `all_hunters_back`, `dinner_done`); hunters also read the shared arrays without the mutex | tokens are anonymous: a hunter a day behind can take a token that was meant for another |
| `seminar_6/shower.cpp` | M men, W women, main; `men_in`, `women_in` in System V shared memory | arrive, wait for the start, enter, leave; gather, open, clean up | one System V set of six semaphores: a barrier, a room lock, N places, a mutex for each counter | the room is locked by one process and unlocked by another; counters under two mutexes |
| `bogatiry/bogatiry.c` | one thread per ASCII character, main; a monitor with the current character | register, sing, wait; read the file, create, join | one mutex and one condition variable, broadcast | lost wake-ups; a thread that cannot be created; characters nobody can sing |
| `bogatiry/bogatiry2.c` | as above; the monitor holds a text and a cursor | as above | one mutex and one condition variable; the wait is in an `if` | singing begins before all have registered; when a thread cannot be created, those that exist run on with the frame that main has left |
| `seminar_9/task.cpp` | one wrench and two screw processes | make a part, refill, remove the semaphores | one System V set: `SEM_A`, `SEM_B`, `SEM_TOTAL`, `SEM_MUTEX` | the refill is three steps; the set is removed while others use it, and then every `semop` fails |
| `seminar_5/stadion.cpp` | a judge, N runners, main | hello, baton, finish | one System V message queue for all, told apart by `mtype` | mail for the wrong reader; a queue that is full |
| `seminar_5/stadion_posix.cpp` | as above | as above, and making and unlinking the queues | N + 2 named POSIX queues | queues of bounded length; names that stay behind |
| `seminar_8/pcat2.c` | writer thread, reader thread, main | read a chunk, put it in the slot, print it | a monitor with one slot and two condition variables | lost signals; the end of input against the last chunk; `exit` in one thread; short reads and writes |
| `seminar_4/pcat.c` | parent, reader process, writer process; a pipe | open, read, write to the pipe; read from it, print; close, wait | one pipe whose ends all three hold after the forks | the end of the input is seen only when every copy of the writing end is closed; a process that fails while another waits |
| `seminar_5/myshell.c` | the shell and one process for each command | read a line, cut it, find redirections and words; launch, hand the pipe over, wait | pipes between neighbours, inherited by every later child | descriptors that stay open keep a pipeline alive; a launch that fails half-way; three passes over one line, each writing NULs into it |
| `seminar_4/mywc.c` | the parent and the command it runs | count, wait | a pipe | a word cut in two by a read; the last word |
| `seminar_3/cat.c` | one process, one buffer | open, read, write | the output | writes that take less than they are given |
| `seminar_3/cp.c`, `seminar_7/cp_mmap.c` | one process, the file system | check, ask, unlink, open, copy; map | the user's answer; names of one file | the destination is emptied or removed before the copy is known to succeed |
| `final_task/task.c`, `task2.c`, `task3.c` | one process, a pipe, an alarm | write a byte, handle the signal | `SIGALRM` against a blocked `write` | a system call that is restarted; a signal that comes too early |

What makes each correct, in a sentence:

- hunters: every evening the cook is woken by the last hunter back and by no other; as many
  dinners are called as hunters wait for one; the tribe shrinks and goes hungry exactly as
  the task's rules say; each day ends.
- shower: never both sexes, never more than N, nobody before all have arrived, nothing left
  taken at the end, everybody gets in.
- both songs: sung in order, each character by its own singer, to the end; nobody sleeps
  through its turn. (When main of `bogatiry2.c` deserts its singers: only up to then.)
- workshop: two wrenches and one screw to a product, whoever refills and whenever the
  semaphores go.
- both relays: one baton; all are there before the first runs; the clock covers the race;
  the queues are removed when nobody needs them.
- pcat2 and pcat: everything read is printed, once, in order, and nobody waits for ever.
- myshell: what is run is what the line says, although three passes write into it; every pipeline ends,
  and leaves no child and no open pipe behind.
- mywc: the counts are those of the whole output, however it is cut into reads.
- cat: short writes lose nothing.
- cp and cp_mmap: exit status 0 means that it was copied; `cp` never damages its source (`cp_mmap` of a file
  onto itself empties it).
- final_task: a program that ends has counted what the pipe holds. `task.c` always ends, `task3.c` when its alarm finds it
  blocked, `task2.c` never, against what it says (section 4).

### Not modelled

| component | why |
|---|---|
| `seminar_10/myls.c` | a sequential walk of one directory, most of it formatting; it changes nothing |
| `seminar_2/programTime.c` | one `fork`, one `wait`, two looks at the clock; nothing interleaves |
| `seminar_2/sleepsort.c` | its order is a property of real time |
| `seminar_1/helloWorld.c` | one `printf` |

Of the modelled programs, these cases are left out: calls that fail before a second process
or thread exists; wrong numbers of arguments and unknown options, which end a program at once;
paths longer than `PATH_MAX`; lines longer than `SHELL_LINE_CAP`, and a last line without a newline; an empty line of the
shell, which only brings the prompt again; the error exits of `msgsnd` and `msgrcv` in `stadion.cpp`, whose queue
exists as long as anybody uses it; a `read` that fails at the end of a pipe, in `pcat.c` and `mywc.c`; and a command of exactly
`SHELL_ARG_MAX` words, for which line 295 of `myshell.c` writes one past an array, with effects that no
source decides. What `write` in `pcat2.c` takes of a chunk is not modelled, since the program
never looks at it.

## 2. How the models correspond to the code

Conventions shared by all modules:

- One action per system call that can block or that others can see: every `sem_wait`,
  `sem_post`, `semop`, `msgsnd`, `msgrcv`, `mq_send` and `mq_receive` is a step of its own,
  with the private computation around it. A critical section of a mutex is one step when
  everything in it is private to that mutex. Where other processes read without the
  mutex, the section is split at what they can see.
- A label (`pc`, `cook`, `parent`, `main`, ...) says where a process is.
- Printed lines are left out, unless a property is about what they say (`ReportsHonestly`)
  or they are the work itself (the song, the output of pcat2, "GO").
- A failed `fork`, `open` or `pthread_create` is an action where the code goes on to do
  something about it, or fails to. Failures at start-up that end the program before a second
  process or thread exists are left out.
- `Stopped` is the stuttering of a program whose main process has ended, so that TLC reports
  every other state without a successor as a deadlock.
- Operators marked "Mutant" are wrong versions of the definition after them. No
  specification uses them; they document the mistakes the properties tell apart.

| module | models | notes |
|---|---|---|
| `Counting` | - | the number of processes at given labels, used in the ledgers |
| `Hunters` | `hanters/main.c` | The dinner is split into `Serve`, one `Butcher` for each victim, `ButcherDone` and `Curse`, since `hunter_alive` and `hunter_ate_today` are read outside the mutex (lines 52, 96, 97). `Serve` also takes the mutex: by `HuntIsOver` nobody else can want it then |
| `Tribe` | an evening of `Hunters`, abstractly | lines 150-219 in one step: who is fed, who is butchered, who is cursed |
| `Shower` | `seminar_6/shower.cpp` | men and women run the same code with other names, so each action is written once for the sex of its process |
| `Bathhouse` | the promise of `Shower` | a room that never mixes the sexes and has N places |
| `Bogatiry`, `Bogatiry2` | the two songs | a stretch with the lock held, up to the unlock or the wait, is one step. `SpuriousWakeup` is what POSIX allows `pthread_cond_wait` to do. In `Bogatiry` a byte above the singers stands for a negative `char`; in `Bogatiry2` it is a negative number, since slot 128 exists and is no character. When main of `bogatiry2.c` cannot create a thread it returns, and the others run on where `ctx` was: `Astray` lets them sing anything until `ProcessEnds`. In `bogatiry.c` main then declares the song over and joins them: nobody is deserted. Names the two share end in `2` in `Bogatiry2`, so that `BogatiryProofs` extends both |
| `Chorus` | the promise of both | one character at a time, in order, and the end only when all is sung; from the moment that main deserts its singers, nothing but that what is sung stays sung |
| `Assembly` | `seminar_9/task.cpp` | `Semop` on a removed set fails: nothing changes and the process goes on, as the code does where it ignores the result |
| `Workshop` | the promise of `Assembly` | two wrenches and one screw a product |
| `Stadion` | `seminar_5/stadion.cpp` | a message is its type and its status; `msgrcv` with type 0 takes the first, otherwise the first of its type |
| `StadionPosix` | `seminar_5/stadion_posix.cpp` | a sequence for each queue; `opened` is the set of names that exist. Names it shares with `Stadion` end in `P`, so that `StadionProofs` extends both |
| `Relay` | the promise of both relays | all arrive, the clock starts, each runs in turn, the clock stops |
| `Pcat2` | `seminar_8/pcat2.c` | a read takes 1 to `Chunk` bytes; a read error is an early end of file, as in the code. `out` is what `write(2)` is given: the code ignores how much of it is taken |
| `Cat` | the promise of `Pcat2` and `Pcat` | what was read is printed in order |
| `Pcat` | `seminar_4/pcat.c` | `readEnd` and `writeEnd` are the processes that hold each end of the pipe. Reads take 1 to `Chunk` bytes, writes what there is room for. A writer to a pipe without readers is ended by `SIGPIPE` |
| `OneCat` | `seminar_3/cat.c` | line 38 asks for `n` bytes from `buf + written`: bytes behind those that were read are `Stale` |
| `WordCount` | `seminar_4/mywc.c` | three kinds of characters; the command is external and writes anything |
| `FillPipe` | `final_task/*.c` | one module for three programs, which differ in what a full pipe and the alarm do. `signal()` of `task2.c` is the BSD one (the default feature macros, and the binary in the directory): it restarts the `write` |
| `CopyFile` | `seminar_3/cp.c`, `seminar_7/cp_mmap.c` | a file system of paths, links and inodes with one directory; every step that can fail does. `before` is the file system at the start |
| `ShellParser` | lines 64-182 and 275-297 of `seminar_5/myshell.c` | a line is any text, a sequence of characters, in which all white space is one `Blank`; words and names are stretches of it. The three passes work on the line with its NULs as the code does, since that is where they meet |
| `Shell` | the rest of `seminar_5/myshell.c` | `readers[k]` and `writers[k]` are the processes that hold the ends of pipe `k`; a fork copies what the shell holds, `exec` leaves what the child has not closed. Three programs: one copies, one reads a single unit, one writes without end. `exit` and the end of the input are `ShQuit`. `Refused` and `Meaning` say what a line means without writing into it: which `<` and `>` are redirections and which are part of a name, which bars the search for them passes, where the words end |
| `Session` | - | a user who starts one of the six programs above; they share nothing, so that one of them runs and the others are off |
| `MCSongs`, `MCRelays` | - | a user who starts one of the two songs, or one of the two relays, with the inputs for TLC |
| `MCPcat2` | - | the inputs for TLC |
| `CountingTheorems`, `HuntersProofs`, `ShowerProofs`, `AssemblyProofs`, `BogatiryProofs`, `StadionProofs`, `Pcat2Proofs`, `SessionProofs` | - | the proofs, section 6 |

## 3. What the runs check

| run | instance | shows |
|---|---|---|
| `hunters` | 3 hunters, 3 days | the ledgers of `start_hunt` and `dinner_done`, the moment of the wake-up, the curse, that the evenings refine `Tribe`, and that the program ends unless a hunt was starved of a token |
| `hunters_stuck` | 3 hunters, 3 days | **violation**: the cook may wait for ever for a hunt to end |
| `hunters_report` | 3 hunters, 3 days | **violation**: a hunter that ate may say that it stayed hungry |
| `shower` | 2 men, 3 women, 2 places | the room lock against the counters, the barrier, the clean end, refinement of `Bathhouse` (which says that the sexes do not mix and that there are N places), and that everybody gets in and main returns |
| `songs` | 4 singers, files of up to 4 bytes and a buffer of 4, texts of up to 3 | files with a NUL inside, as long as the buffer, or with a byte that no singer has, texts with a character that is not ASCII, and in both creation failing at any thread: no lost wake-up, refinement of `Chorus` (in order, and to the end when main says so), and the program ends or waits at a byte that nobody has |
| `assembly` | 2 wrench and 2 screw processes, n = 2 | one refill at a time, refinement of `Workshop`, termination unless forks failed |
| `relays` | 4 runners, a queue of 2; queues of 2 and of 1 | mail reaches its reader, one baton, no queue and no message left behind, refinement of `Relay` (everybody there first, one baton, the clock around the race), termination |
| `pcat2` | up to 3 files of up to 3 bytes, chunks of 2 | nothing lost on the way, what a missing file costs, refinement of `Cat`, termination |
| `session` | see the bounds below | pcat: nothing lost in the pipe, nobody stays. cat: short writes only add. mywc: the counts are right. final_task: a program that ends has the count, and which of them end. cp and cp_mmap: copied or said so, the source is safe. myshell: it makes of every short text what it says, every pipeline ends, nothing is left behind |
| `shell_redirect` | as `session`, lines with redirections | **violation**: an input redirection of the second command is accepted |
| `shell_inputs` | as `shell_redirect` | **violation**: a second input redirection is accepted |
| `fill_write` | as `session` | **violation**: `task2.c` stays blocked when its alarm has gone off |

A property that a refinement already implies is not checked again: `Segregation` and `Capacity` follow from
`Bathhouse`, `PartsMatchProducts` from `Workshop`. They are stated in the modules because the proofs go through them.
The type invariants (`TypeOK`) are proved and not run.

### Bounds, and why they are enough

- Hunters: three hunters and three days allow the trouble of section 4: one hunter that lags behind, one that is a
  token ahead of its death, and one that is robbed of its hunt. `EndsUnlessStarved` says that nothing else holds the
  program up.
- Shower: two places and three women give a full room, a third woman in front of it and the other sex
  waiting.
- Songs: four singers, so that there are three characters and NUL; the longest file and its NUL are
  longer than the buffer of four, so that the song is cut. A thread that is astray sings one
  character at most (`AstrayLimit`): it may be any, and nothing is promised of more.
- Workshop: the code has one wrench and two screw processes. Two of each make refills
  and removals overlap more than the code can.
- Relays: with `Slots = 2` the queue is as small as the program can bear, since the judge's
  `READY` takes a slot that is never freed; every `msgsnd` meets a full queue. Likewise
  `CheckinRoom = 2` and `BatonRoom = 1`.
- pcat2: three files of three bytes and chunks of two fill the slot and the writer's hands
  and leave an odd byte. Every byte is another one, so that no loss or exchange goes unseen.

- Session: pcat and cat take up to two files, missing, empty, shorter or longer than a read; the pipe of two bytes is
  full after one read of the longest. mywc sees every text of four characters over three kinds, in pieces of one
  or two: each word can begin, end or go on at a cut. cp and cp_mmap run in file systems of two files (perhaps one
  file under two names) and a directory that holds up to two names, with one to three sources, one perhaps twice, and with none or all
  of the ways to name the same file twice: a source may be a destination of the same command under another name.
  The shell, with room for three commands of four words, is given every text of up to five characters over a letter, the blank, `|`, `<` and `>` (so four segments and more, names
  that begin with an operator, operators without a name, several of one kind); lines of up to three commands with
  redirections before, behind and between their words; and every pipeline of up to three of the programs, an unknown
  program, no program and too many words. Pipes hold one unit, so that writers block.

The days, the song, the files and the runners bound every behaviour; no counter had to be capped but what is sung astray.
Deadlock is not looked for where the program really may stop: in `hunters` and its two
violations (the cook of section 4), and in `assembly` (a failed `fork` is not noticed, and without
wrenches the screws wait for ever).

### Fairness

Every specification assumes weak fairness of each process or thread and of nothing else: the
system's scheduler runs whoever can run. `FillFairness` adds that the second of `alarm(1)` passes. In `Shell` the user
is under no fairness and may stop typing. The actions of one process form one disjunction, so
fairness never picks a branch: the outcome of a hunt, of a `fork` or of a `read` is free.
`SpuriousWakeup` is under no fairness: no property leans on luck. Weak fairness for a
semaphore or a mutex does not say that a waiter gets it against endless competition; each process
here takes each lock a bounded number of times, so competition ends.

## 4. What the checks found

- `hunters_stuck` (`DayEnds`, `hanters/main.c:148`). The cook posts one `start_hunt` for each
  living hunter, but a semaphore does not know who is alive. The trace TLC finds: on day 1 hunter 1 is
  butchered, and lags behind at line 94 with its `dinner_done` still to be taken. On day 2 hunters 0 and 2 hunt. While
  the cook counts the meat, hunter 2 takes the token that was left for hunter 1, reads that it is alive and
  goes to line 49; only then it is butchered. On day 3 the cook sends the one hunter left, hunter 0, but
  hunter 2 takes the token, finds itself dead and exits. Nobody hunts, `back == alive_count` is never true
  and the cook waits for ever. The comments at lines 142 and 147 say that all the living are sent out and that
  the cook waits until all are back.
- `hunters_report` (`ReportsHonestly`, `hanters/main.c:96`). `hunter_ate_today` is read after
  `dinner_done` without the mutex, and the cook may have cleared it for the next day: a
  hunter that ate prints that it stayed hungry and will be unlucky tomorrow.

- `shell_redirect` (`OnlyFirstTakesInput`, `seminar_5/myshell.c:157`). The message at line 108 says "Only first command
  can have input redirection." At the end of a file name `extract_redirections` writes a NUL over the character it
  stopped at and steps behind it, also when that is the NUL that ends the segment; it then reads on in the next
  segment. So `c <f|<f c` is run with the second `<` as the first command's input, and the well-formed `c <f|c >g` is
  refused. With a blank before the bar all is well. `Stops` in `Shell` says which bars end the search.
- `shell_inputs` (`OnlyOneInput`, `seminar_5/myshell.c:151`). The message at line 112 says "Only one input redirection is
  allowed." It can never be printed: `extract_redirections` hands back one name however many there are, the last, and main
  looks at the first segment only once. So `c <f <g` is run with `g`. Two outputs (line 124) are accepted in the same way.
- `fill_write` (`WriteIsInterrupted`, `final_task/task2.c:22`). The message at line 37 says that `write` was interrupted and
  returned -1, and the loop ends nowhere else. The handler is installed with `signal()`, which restarts the call: the
  program is blocked for ever.

What the other runs show of the small programs, where nothing in the repository promises more: in `myshell.c` the words
behind a redirection are lost (`c <f a` runs `c`, and `<f c` runs no command, so that its child fails), since the NUL at the
redirection ends the words, and the last of several redirections counts (`Meaning`); `task3.c` blocks for ever when the alarm
comes before the pipe is full (`EndsWithTheCount`); `cat.c` prints bytes that are
not in the file when a `write` is short (`ShortWritesOnlyAdd` says that this is all it does); `cp -f` and
`cp_mmap` may have destroyed the destination when they fail, but they always say that they failed (`CopiedOrSaid`), and
`cp_mmap` of a file onto itself empties it (which is why `SourceIsSafe` is about `cp`). `cp` compares each source with its
own destination only: where `d/b` is a link to `a`, `cp a b d` copies `a` and then overwrites it with `b`, and its status is 0.
`CopiedOrSaid` therefore asks of a destination that it holds what was to go there, unless that source is a destination too
(`Overwritten`); that it then holds all of some source is still asked.

What holds in spite of this is as telling: even with misdirected tokens, each evening is an evening of
`Tribe`, the ledgers are exact and the cursed never bring meat.

In `bogatiry.c` and `bogatiry2.c` a byte above 127 stops the song for ever
(`EndsOrMissesAVoice`, `EndsOrMissesAVoice2`); no doc promises anything else, so it is stated as what the program does.

## 5. Hazards and the properties that cover them

`PROJECT.json` lists them all. In short: anonymous tokens (`StartLedger`, `DinnerLedger`, `HuntIsOver`),
reads without the mutex (`ReportsHonestly`, `HungryBringNothing`), a lock freed by another process
(`RoomTruth`), wake-ups (`NobodySleepsThroughTheirTurn` and its twin `...Turn2`, `Termination` of `Pcat2`), resources removed
under users (`CleanAtEnd`, `NothingLeftBehind`, `OneRefill`), queues that are full (`Termination` and
`TerminationP` of the relays), the end of input (`NothingLostOnTheWay`, `NothingLostInThePipe`), descriptors that keep a pipe open
(`NobodyStays`, `ShPipelinesEnd`, `ShLeavesNothing`), short reads and writes (`CountsAreRight`,
`ShortWritesOnlyAdd`), signals against blocked calls (`EndsWithTheCount`, `WriteIsInterrupted`), a line that is cut in three passes
(`ShUnderstands`, `OnlyFirstTakesInput`, `OnlyOneInput`), singers without a main (`RefinesChorus2`),
and failures half-way (`NothingLostOnTheWay`, `EndsUnlessUnmanned`,
`EndsOrMissesAVoice` of `Bogatiry`, `CopiedOrSaid`, `SourceIsSafe`). Three have no property: the result of `write` in
`pcat2.c` (line 103), which the program never sees; the write past `argv` in `myshell.c` (line 295), which is undefined; and
a hunter that brings meat, goes out again on another's token and comes back without (`hanters/main.c`, line 74): the second hunt
overwrites the first, and `Tribe`, like the code, calls lucky whose last hunt brought meat.

## 6. What is proved

The proofs hold for every value of the constants under the assumptions the modules name:

- `HuntersAssumption`: at least one hunter and one day, which main checks of its arguments.
- `ShowerAssumption`: finite, disjoint sets of men and women, N a natural number (0 included).
- `AssemblyAssumption`: finite, disjoint sets of wrench and screw processes, n a natural number.
- `BogatiryAssumption`: at least one singer, a buffer of at least one byte, files of natural numbers.
- `StadionAssumption`: any number of runners, a queue of at least two messages.
- `Pcat2Assumption`, `PcatAssumption`, `OneCatAssumption`: reads of at least one byte, a pipe of at least one, any
  set of argument lists.
- `Bogatiry2Assumption`, `StadionPosixAssumption`: what their siblings assume; the texts are any without NUL, the queues
  hold at least one message.
- `WordCountAssumption`: reads of at least one byte and a pipe of at least one; `WcLimit` is how much a command may write.
- `CopyFileAssumption`: chunks of at least one byte, finitely many names, at least as many inodes as paths, and no directory
  but `d` (the two files and the directory of `CopyFile`); orders name at least two paths.
- `ShellAssumption`: room for at least one command; the user types any texts without a NUL, of any length.

`CountingTheorems` has the lemmas on `Count`: what one process moving from one label to another does to
the number at a set of labels. The invariants below are ledgers of such numbers.

| module | theorem | property |
|---|---|---|
| `HuntersProofs` | `TypeCorrect`, `StartTokensAccounted`, `DinnersAccounted`, `CookWokenAfterTheHunt`, `AliveCountIsExact`, `CursedHuntersFail`, `EveningsImplementTribe` | `TypeOK`, `StartLedger`, `DinnerLedger`, `HuntIsOver`, `AliveCountExact`, `HungryBringNothing`, `RefinesTribe` |
| `ShowerProofs` | `TypeCorrect`, `RoomIsTrue`, `SexesApart`, `NeverOverN`, `AllArriveFirst`, `NothingTaken`, `ShowerImplementsBathhouse` | `TypeOK`, `RoomTruth`, `Segregation`, `Capacity`, `Barrier`, `CleanAtEnd`, `RefinesBathhouse` |
| `AssemblyProofs` | `TypeCorrect`, `OnlyOneRefills`, `PartsAndProductsAgree`, `AssemblyImplementsWorkshop` | `TypeOK`, `OneRefill`, `PartsMatchProducts`, `RefinesWorkshop` |
| `BogatiryProofs` | `NobodySleeps`, `BogatiryImplementsChorus` | `NobodySleepsThroughTheirTurn`, `RefinesChorus` of `Bogatiry` |
| | `NobodySleeps2`, `Bogatiry2ImplementsChorus` | `NobodySleepsThroughTheirTurn2`, `RefinesChorus2` of `Bogatiry2` |
| `StadionProofs` | `MailReachesItsReader`, `StadionImplementsRelay` | `MailIsForItsReader`, `RefinesRelay` of `Stadion` |
| | `OneBatonPosix`, `NothingLeftBehindPosix`, `StadionPosixImplementsRelay` | `OneBaton`, `NothingLeftBehind`, `RefinesRelayP` of `StadionPosix` |
| `Pcat2Proofs` | `EverythingIsPrinted`, `Pcat2ImplementsCat` | `NothingLostOnTheWay`, `RefinesCat` |
| `SessionProofs` | `PipeLosesNothing`, `PcatImplementsCat` | pcat: `NothingLostInThePipe`, `RefinesCat` (proved, not run) |
| | `ShortWritesAddOnly` | cat: `ShortWritesOnlyAdd` |
| | `CountsStayRight` | mywc: `CountsAreRight` |
| | `SourceStaysSafe`, `ExitStatusIsTrue` | cp and cp_mmap: `SourceIsSafe`, `CopiedOrSaid` |
| | `ShellUnderstandsLines`, `ShellLeavesNothing` | myshell: `ShUnderstands`, `ShLeavesNothing` |
| | `SessionRunsEachProgram`, `SessionIsSafe` | a session is a behaviour of each of its programs, and so has all of the above |

So every refinement is proved, and every safety invariant of the passing runs.

The arguments:

- Hunters (`HInv`). `StartLedger` is an inequality, since a butchered hunter may waste a token. It is not
  inductive alone: `Woken` adds that whoever posts `all_hunters_back` does so with `hunters_back = alive_count`, so the
  ledger is spent, nobody is out and nobody can go out; that gives `HuntIsOver`, and with `Quiet` it lasts until the
  next morning. `Loops` says how much the cook's posting loops still owe, `MutexTruth` when the cook holds the
  mutex, `Before` and `Closed` what holds before the first day and after the last. `CurseStands` says
  that a success about to be deposited was not cursed: the curse is written only when nobody is out.
  `RefinesTribe`: an evening of `Tribe` is many steps of the cook, so the refinement mapping `Survivors` looks ahead: from
  `Serve` on it takes out of the tribe whom the loop has still to butcher. `ServeIsEvening` shows that `Serve` is the
  whole evening under that mapping, `ButcherKeepsSurvivors` that each `Butcher` stutters, by a lemma on the k first members
  of a set (`FirstAndNext`). That the evening is one that `Tribe` allows needs `PotTruth`: during the hunt the lucky
  are no more than the pieces in the pot, these no more than the hunters that came back, and none of the lucky is cursed.
- Shower (`IInv`). A semaphore's value and the processes that hold a permit of it add up to its initial value
  (`Ledgers`: one for the slots and one for each mutex; `Barriers`: the arrivals and the start). `men_in` is the number
  of men between counting in and counting out. `RoomTruth` is inductive only with `Alone`: a process on its way
  to take `S_ROOM` is the only one of its sex that is counted, and one on its way to free it left none behind.
  `Segregation` and `Capacity` follow, and with them every step of the processes is a step of `Bathhouse` or leaves
  the room alone.
- Assembly (`IInv`). While the set exists (`Ledgers`), each part semaphore adds up with the parts printed and the
  refills begun, and `SEM_TOTAL` with the parts of those who have counted theirs. So `SEM_TOTAL = 0` under the mutex says
  that two wrenches and a screw are there and that all have counted. After `IPC_RMID` nobody takes a new
  part and `getval` is -1, so nobody starts a refill; whoever was refilling goes on alone.

- Bogatiry (`IInv`). `TurnOK`: what is sung is the song up to `next_char_index`, and the current character is the next
  of it, until it is NUL; `EndOK`: singers leave, and main is past its joins, only when it is. Main joins at least one singer, so
  it says that the song is over only then. A broadcast follows each change, hence nobody sleeps.
- Bogatiry2 (`IInv2`). While `ctx` lives the cursor is the length of what is sung, and what is sung is the text up to it; the text has no
  NUL, so the NUL at the cursor is the end. The wait without a loop of its own is harmless, since the loop around it reads
  the character again. When main leaves, `Chorus` is deserted in the same step, and from there on a character more is a step of it,
  whatever character it is; main never says that the song is over.
- Stadion (`IInv`). Until all are in, the hellos in the queue and those counted are the runners who wait
  (`CheckingIn`, a cardinality): when N are counted the queue is empty. From then on the queue is known exactly: the
  `READY` alone, or with one baton behind it (`Racing`), so whoever finds a message of its type finds the baton.
- StadionPosix (`IInvP`). As `Stadion`, with a queue for each hand-over: until all are in, hellos in `q_checkin` and those
  counted are the runners that wait; then one process has the baton or it is alone in the queue of the next. Hence
  `q_checkin` is empty when the judge starts, every queue when it returns, and main closes after that (`ClosingP`).
- Pcat2 (`IInv`). What was read is what was printed, then the slot, then what the writer still holds. `EndOK` says that the
  reader leaves only when the writer is done and the slot is empty, `SlotOK` that the slot never holds more than a read gives.
- Pcat (`IInv`). What was read is what was printed, then the writer's buffer, the pipe, the reader's buffer. `EndsOK` says
  who holds an end of the pipe: every process that still needs it. So a writer that sees the end of the pipe knows that the
  reader is gone, and `BuffersOK` that a reader that ended well had nothing left. Whether a reader that failed
  left bytes behind is the one case that needs care: it can fail with a full buffer only at a broken pipe, when no writer
  is left that could end well.
- cat (`CatIInv`). Of what was printed, the bytes that were read (`Own`), followed by the rest of the buffer, are what was to
  be printed; `written` stays below twice the length of the chunk, so a short write adds less than one chunk of stale bytes.
  `Own` is a recursive function; that it exists, and what it does to a concatenation (`OwnOfConcat`), is proved
  by the least place where it would be wrong.
- mywc (`WcIInv`). After what was read, `words` is the number of words that have ended, `lines` that of newlines, and `in_word`
  says whether the last character belongs to a word (`Describes`). One character keeps this (`CountIsRight`), the loop over a
  piece keeps it by the least character at which it would not (`PieceIsCounted`), and the pipe holds exactly the end
  of the output, so that nothing is counted twice or skipped between two reads.
- cp and cp_mmap (`CpIInv`). `OneCopy` says, for each place in copy1 and in cp_mmap, what has changed since the start: nothing;
  the link of the destination; or that and the inode behind it, which `Checked` keeps apart from that of the source. While cp copies, the
  destination and the buffer are the source up to the offset (`Chunks`). cp_mmap checks no such thing, and so `OneCopy` says of it
  that a file mapped onto itself is empty already. With several sources (`Copies`) one copy may overwrite what another has
  written, or has still to read, under another name. What holds then is that every file but the one being written (`Dirty`) is as it
  was or holds all of a source (`Whole`), that each source begun is settled, kept or dirty (`Accounted`), that only names in
  the directory change (`OldNames`), and that two names of one file were so at the start (`OnlyOldLinks`), so that whatever
  is hit by accident is a destination under another name.
- myshell (`ShIInv`). The children are those that were spawned and not waited for, a cardinality (`ChildrenCounted`), so that after the
  last `wait` there is none. The ends of the pipes are held by living commands and the shell alone (`HoldersLive`), and by the shell
  only while it launches, the end that leads to the next command. Both give `ShLeavesNothing`. Of the parser only
  this is needed: it yields between one and `SHELL_PIPE_MAX` commands (`CommandsOfALine`).
- myshell's parser. `Meaning` and `Refused` are read off the text; the code's line has NULs in it. `CutUpTo` says what it looks
  like when the search has come to a place: the bars up to some place are NULs, and so are, of each redirection behind which
  the search is, the operator, the blanks before its name and, unless it is an operator, the character that ends the name. A place
  is a `Boundary` when no redirection before it reaches beyond it, so that what the search finds there is what the text
  says (`RedirectionIs`). From a boundary each step of the search comes to the next, with the line cut up to there and the last `<`
  and `>` found (`Stages`, `StageGoesOn`), and so it ends at the first NUL that ends no name: at the next bar of `Stops`, or at the end
  of the text (`SearchFromBoundary`, `NothingLeft`). Where a name ended at the bar of its segment the next segment was searched
  already, and the search that begins there finds nothing and changes nothing (`SegmentPassed`); otherwise it is the next
  stage (`NextSegment`). So the loop over the segments keeps `SegmentsRead`, or breaks a rule, which is `Refused`. What the
  passes cut never touches the words before a command's first redirection (`WordsStay`, `WordsAre`), and the names end where the text says
  (`NamesAre`). `ParseUnderstands` is the result, for every text; `LineParsedHolds` carries it to the states of the shell.
- Session. A step of the session is, for each program, a step of it or none.

Induction. `Least`: a set of natural numbers that is not empty has a least element (`WFMin` of the library). Where a property
of a recursive function or of a loop is needed, the set is that of the places where it fails; its least element is not 0, and
the place before it is right, a contradiction. This takes the place of the library's induction theorems, which are about an operator.

Only model-checked:

- every liveness property, and everything with `ENABLED`: the prover handles neither.

## 7. Plan

Every program in which something interleaves or can fail half-way is modelled, and every safety property and every
refinement that a passing run checks is also proved. What would come next:

1. The lines that `fgets` cuts at `SHELL_LINE_CAP`, or that end without a newline: then what is left in the buffer of the line before
   lies behind the one NUL, and the search of the code can run into it.
2. The liveness properties: by hand, from the invariants, until the prover can reason about fairness.
