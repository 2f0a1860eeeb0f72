-------------------------------- MODULE Shell ------------------------------
(***************************************************************************)
(* seminar_5/myshell.c: main reads a line, ShellParser says what it makes  *)
(* of it, and run_pipeline starts one process for each command, with a     *)
(* pipe between two neighbours, and waits for all of them.                 *)
(*                                                                         *)
(* Pipe k leads from command k to command k + 1.  The shell (process 0)    *)
(* holds both ends of a new pipe, every fork copies all that it holds, and *)
(* a command sees the end of its input only when nobody can write to it.   *)
(***************************************************************************)
EXTENDS ShellParser

CONSTANTS
  ShLines,     \* the lines the user types
  ShFeed,      \* units of text in the first command's input
  ShRoom       \* units a pipe holds

\* Any characters but the NUL that fgets puts behind them; all white space is Blank.
ASSUME ShellAssumption ==
  /\ SHELL_PIPE_MAX \in Nat \ {0}
  /\ ShLines \subseteq Seq(STRING \ {NUL})

Commands == 1 .. SHELL_PIPE_MAX
Pipes    == 1 .. SHELL_PIPE_MAX - 1

VARIABLES
  shell,             \* where it is
  typed,             \* the line, until its first command is launched
  job,               \* what main made of it
  i,                 \* the command that is launched
  spawned, waited,   \* run_pipeline's counters
  process,           \* what command k's process does, "none" when there is none
  readers, writers,  \* the processes that hold the ends of pipe k
  flow, feed         \* units in pipe k; units left of the first command's input

ends    == <<readers, writers>>
streams == <<flow, feed>>
shVars  == <<shell, typed, job, i, spawned, waited, process, ends, streams>>

NoLine == <<>>
Exit   == <<"e", "x", "i", "t">>
NoJob  == [ok |-> TRUE, argvs |-> <<>>, in |-> None, out |-> None]

ShInit ==
  /\ shell = "off" /\ typed = NoLine /\ job = NoJob
  /\ i = 0 /\ spawned = 0 /\ waited = 0
  /\ process = [k \in Commands |-> "none"]
  /\ readers = [k \in Pipes |-> {}] /\ writers = [k \in Pipes |-> {}]
  /\ flow = [k \in Pipes |-> 0] /\ feed = 0

ShStart ==
  /\ shell = "off"
  /\ shell' = "prompt"
  /\ UNCHANGED <<typed, job, i, spawned, waited, process, ends, streams>>

-----------------------------------------------------------------------------
(* main *)

\* The end of a process closes what it holds.
Without(end, p) == [k \in Pipes |-> end[k] \ {p}]
Drop(p) == readers' = Without(readers, p) /\ writers' = Without(writers, p)

\* An empty line is read over.
ShReadLine(l) ==
  /\ shell = "prompt" /\ l \notin {NoLine, Exit}
  /\ typed' = l
  /\ LET made == Parse(l)
     IN  IF made.ok THEN job' = made /\ i' = 1 /\ feed' = ShFeed /\ shell' = "launch"
                    ELSE shell' = "exited" /\ UNCHANGED <<job, i, feed>>
  /\ UNCHANGED <<spawned, waited, process, ends, flow>>

\* "exit", or the end of the input.
ShQuit ==
  /\ shell = "prompt"
  /\ shell' = "exited"
  /\ UNCHANGED <<typed, job, i, spawned, waited, process, ends, streams>>

-----------------------------------------------------------------------------
(* run_pipeline *)

Length == Len(job.argvs)

\* Any failure ends the shell; the commands that run are left to themselves.
ShGivesUp ==
  /\ shell' = "exited"
  /\ Drop(0)
  /\ typed' = NoLine
  /\ UNCHANGED <<job, i, spawned, waited, process, streams>>

TooManyWords == Len(job.argvs[i]) > SHELL_ARG_MAX

\* tokenize_command, pipe or fork fails.
ShLaunchFails ==
  /\ shell = "launch"
  /\ ShGivesUp

\* A new pipe, unless the command is the last, and a child that holds what the
\* shell holds.
ShLaunch ==
  /\ shell = "launch" /\ ~TooManyWords
  /\ LET made     == {i} \ {Length}
         Held(end) == [k \in Pipes |-> IF k \in made \/ 0 \in end[k]
                                       THEN end[k] \cup {0, i} ELSE end[k]]
     IN  readers' = Held(readers) /\ writers' = Held(writers)
  /\ process' = [process EXCEPT ![i] = "forked"]
  /\ spawned' = spawned + 1
  /\ shell' = "handover"
  /\ typed' = NoLine
  /\ UNCHANGED <<job, i, waited, streams>>

\* prev_read_fd is closed, and the new pipe's reading end takes its place; the
\* writing end is closed.  Mutant: only when another command comes after the next.
HandoverEarly ==
  /\ shell = "handover"
  /\ readers' = [k \in Pipes |-> IF k = i - 1 THEN readers[k] \ {0} ELSE readers[k]]
  /\ writers' = IF i + 1 = Length THEN writers ELSE Without(writers, 0)
  /\ i' = IF i = Length THEN 0 ELSE i + 1
  /\ shell' = IF i = Length THEN "wait" ELSE "launch"
  /\ UNCHANGED <<typed, job, spawned, waited, process, streams>>
ShHandover ==
  /\ shell = "handover"
  /\ readers' = [k \in Pipes |-> IF k = i - 1 THEN readers[k] \ {0} ELSE readers[k]]
  /\ writers' = Without(writers, 0)
  /\ i' = IF i = Length THEN 0 ELSE i + 1
  /\ shell' = IF i = Length THEN "wait" ELSE "launch"
  /\ UNCHANGED <<typed, job, spawned, waited, process, streams>>

ShWait(k) ==
  /\ shell = "wait" /\ waited < spawned
  /\ process[k] = "ended"
  /\ process' = [process EXCEPT ![k] = "none"]
  /\ waited' = waited + 1
  /\ UNCHANGED <<shell, typed, job, i, spawned, ends, streams>>

\* Back to main.  Mutant: the last child is not waited for.
ReturnsEarly ==
  /\ shell = "wait" /\ waited + 1 >= spawned
  /\ shell' = "prompt"
  /\ job' = NoJob /\ spawned' = 0 /\ waited' = 0
  /\ flow' = [k \in Pipes |-> 0] /\ feed' = 0
  /\ UNCHANGED <<typed, i, process, ends>>
ShReturn ==
  /\ shell = "wait" /\ waited = spawned
  /\ shell' = "prompt"
  /\ job' = NoJob /\ spawned' = 0 /\ waited' = 0
  /\ flow' = [k \in Pipes |-> 0] /\ feed' = 0
  /\ UNCHANGED <<typed, i, process, ends>>

ShStep ==
  \/ ShLaunchFails \/ ShLaunch \/ ShHandover
  \/ (\E k \in Commands : ShWait(k)) \/ ShReturn

-----------------------------------------------------------------------------
(* The child, up to execvp *)

ShGoesOn(k, next) ==
  /\ process' = [process EXCEPT ![k] = next]
  /\ UNCHANGED <<shell, typed, job, i, spawned, waited>>

ShEnds(k) == ShGoesOn(k, "ended") /\ Drop(k) /\ UNCHANGED streams

\* c copies its input, h one unit of it, y writes without end; all other words, and
\* no word at all, name no program.
Program(k) ==
  IF job.argvs[k] = <<>> \/ Len(Head(job.argvs[k])) # 1 THEN "" ELSE Head(Head(job.argvs[k]))
Programs == {"c", "h", "y"}

\* Its end of the one pipe is its input and its end of the other its output; the
\* reading end of the pipe it writes to is closed.
ShExec(k) ==
  /\ process[k] = "forked" /\ Program(k) \in Programs
  /\ ShGoesOn(k, IF Program(k) = "y" THEN "write" ELSE "read")
  /\ readers' = [q \in Pipes |-> IF q = k THEN readers[q] \ {k} ELSE readers[q]]
  /\ UNCHANGED <<writers, streams>>

\* A redirection cannot be opened, or there is no such program.
ShExecFails(k) ==
  /\ process[k] = "forked"
  /\ \/ k = 1 /\ job.in # None
     \/ k = Length /\ job.out # None
     \/ Program(k) \notin Programs
  /\ ShEnds(k)

(* The programs *)

ShRead(k) ==
  /\ process[k] = "read"
  /\ IF k = 1 THEN feed > 0 /\ feed' = feed - 1 /\ UNCHANGED flow
              ELSE flow[k - 1] > 0 /\ flow' = [flow EXCEPT ![k - 1] = @ - 1] /\ UNCHANGED feed
  /\ ShGoesOn(k, "write")
  /\ UNCHANGED ends

ShEndOfInput(k) ==
  /\ process[k] = "read"
  /\ IF k = 1 THEN feed = 0 ELSE flow[k - 1] = 0 /\ writers[k - 1] = {}
  /\ ShEnds(k)

\* The last command's output takes everything.
ShWrite(k) ==
  /\ process[k] = "write"
  /\ IF k = Length THEN UNCHANGED flow
     ELSE readers[k] # {} /\ flow[k] < ShRoom /\ flow' = [flow EXCEPT ![k] = @ + 1]
  /\ CASE Program(k) = "c" -> ShGoesOn(k, "read") /\ UNCHANGED ends
       [] Program(k) = "y" -> ShGoesOn(k, "write") /\ UNCHANGED ends
       [] Program(k) = "h" -> ShGoesOn(k, "ended") /\ Drop(k)
  /\ UNCHANGED feed

\* SIGPIPE.
ShBrokenPipe(k) ==
  /\ process[k] = "write" /\ k < Length /\ readers[k] = {}
  /\ ShEnds(k)

ShChild(k) ==
  ShExec(k) \/ ShExecFails(k) \/ ShRead(k) \/ ShEndOfInput(k) \/ ShWrite(k) \/ ShBrokenPipe(k)

-----------------------------------------------------------------------------

ShNext ==
  \/ ShStart \/ (\E l \in ShLines : ShReadLine(l)) \/ ShQuit
  \/ ShStep \/ \E k \in Commands : ShChild(k)

\* The shell and its children are scheduled; the user may stop typing.
ShFairness == WF_shVars(ShStep) /\ \A k \in Commands : WF_shVars(ShChild(k))

ShSpec == ShInit /\ [][ShNext]_shVars /\ ShFairness

NobodyRuns == \A k \in Commands : process[k] \in {"none", "ended"}
ShIdle     == shell \in {"off", "prompt", "exited"} /\ NobodyRuns

-----------------------------------------------------------------------------
(* What a line says, read without writing into it *)

\* Where the name behind a redirection begins and ends.
NameBegin(line, p) ==
  CHOOSE k \in p + 1 .. Len(line) :
    line[k] # Blank /\ \A j \in p + 1 .. k - 1 : line[j] = Blank
NameEnd(line, p) ==
  Find(line, NameBegin(line, p), {NUL, Blank, "|"} \cup ({"<", ">"} \ {line[p]}))

\* The redirections: each < and > but those that are part of a name.
Redirections(line) ==
  LET upTo[k \in 0 .. Len(line)] ==
        IF k = 0 THEN {}
        ELSE IF /\ line[k] \in {"<", ">"}
                /\ \A p \in upTo[k - 1] : line[p] = line[k] => NameEnd(line, p) <= k
             THEN upTo[k - 1] \cup {k}
             ELSE upTo[k - 1]
  IN  upTo[Len(line)]

InputsOf(line)  == {p \in Redirections(line) : line[p] = "<"}
OutputsOf(line) == {p \in Redirections(line) : line[p] = ">"}
Bars(line)      == {k \in DOMAIN line : line[k] = "|"}

\* A bar ends the search for redirections, unless it ends a name.
Stops(line) == Bars(line) \ {NameEnd(line, p) : p \in Redirections(line)}

\* More commands than SHELL_PIPE_MAX; an input behind a stop; an output with a bar that
\* no stop parts from it.
Refused(line) ==
  \/ Len(Starts(line)) > SHELL_PIPE_MAX
  \/ \E p \in InputsOf(line), r \in Stops(line) : r < p
  \/ \E p \in OutputsOf(line), q \in Bars(line) : \A r \in Stops(line) : r < q \/ p <= r

\* The last of some redirections counts.
LastName(line, places) ==
  IF places = {} THEN None
  ELSE LET p == Max(places) IN SubSeq(line, NameBegin(line, p), NameEnd(line, p) - 1)

\* A command's words are those before its first redirection.
CommandAt(line, start) ==
  WordsOf(SubSeq(line, start, Find(line, start, {NUL, "|", "<", ">"}) - 1))

Meaning(line) ==
  [ok    |-> TRUE,
   argvs |-> [n \in DOMAIN Starts(line) |-> CommandAt(line, Starts(line)[n])],
   in    |-> LastName(line, InputsOf(line)),
   out   |-> LastName(line, OutputsOf(line))]

-----------------------------------------------------------------------------
(* Properties *)

\* What the three passes make of a line, each of which writes NULs into it for the
\* next, is what the line says, wherever its words, blanks, bars and redirections are.
\* (The words of a command behind a redirection are lost.)
ShUnderstands ==
  typed # NoLine =>
    LET line == Buffer(typed)
    IN  IF Refused(line) THEN shell = "exited" ELSE job = Meaning(line)

\* "Only first command can have input redirection" (seminar_5/myshell.c:108): a line
\* where another has one is not run.
OnlyFirstTakesInput ==
  shell = "launch" => LET line == Buffer(typed)
                      IN  \A p \in InputsOf(line), q \in Bars(line) : p < q

\* "Only one input redirection is allowed" (seminar_5/myshell.c:112): a line with two
\* is not run.
OnlyOneInput == shell = "launch" => Cardinality(InputsOf(Buffer(typed))) <= 1

\* Back at the prompt the shell has no child, running or ended, and no pipe of the
\* line before is open; and while it waits it holds none itself.
ShLeavesNothing ==
  /\ shell = "prompt" => \A k \in Commands : process[k] = "none"
  /\ shell = "prompt" => \A k \in Pipes : readers[k] = {} /\ writers[k] = {}
  /\ shell = "wait" => \A k \in Pipes : 0 \notin readers[k] \cup writers[k]

\* Every pipeline comes to its end, that of a program that writes without end too
\* when a later command stops reading: each sees the end of its input, or that
\* nobody reads its output, also when the shell gives up half-way.
ShFinite ==
  \A k \in 1 .. Length :
    Program(k) = "y" => \E j \in k + 1 .. Length : Program(j) \notin {"c", "y"}
ShPipelinesEnd == (shell = "launch" /\ ShFinite) ~> ShIdle
=============================================================================
