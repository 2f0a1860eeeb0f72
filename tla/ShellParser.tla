----------------------------- MODULE ShellParser ---------------------------
(***************************************************************************)
(* How seminar_5/myshell.c reads a line: main cuts it at the bars,         *)
(* extract_redirections takes the file names out of each segment,          *)
(* tokenize_command takes the words.  All three write NULs into the line,  *)
(* and a segment, a name or a word ends at the first of them.              *)
(*                                                                         *)
(* A line is a sequence of characters, and so are a word and a name.       *)
(***************************************************************************)
EXTENDS Integers, Sequences, SequencesExt, FiniteSets

CONSTANTS SHELL_PIPE_MAX,   \* 16 in the code
          SHELL_ARG_MAX     \* 64 in the code

NUL   == "NUL"
Blank == " "
None  == <<NUL>>   \* a path that was not given: NULL

\* fgets ends the line with a NUL; its newline becomes one too.
Buffer(text) == text \o <<NUL, NUL>>

Put(line, at) == [line EXCEPT ![at] = NUL]

-----------------------------------------------------------------------------
(* main: the segments *)

\* Places of the line, in their order.
InOrder(places) ==
  [n \in 1 .. Cardinality(places) |->
     CHOOSE p \in places : Cardinality({q \in places : q < p}) = n - 1]

\* Where the segments begin, and the line with its bars gone.
Starts(line) == InOrder({1} \cup {k + 1 : k \in {j \in DOMAIN line : line[j] = "|"}})
Cut(line) == [k \in DOMAIN line |-> IF line[k] = "|" THEN NUL ELSE line[k]]

-----------------------------------------------------------------------------
(* extract_redirections *)

\* From at on, the first place whose character is in a set.
Find(line, at, chars) ==
  CHOOSE k \in at .. Len(line) :
    /\ line[k] \in chars
    /\ \A j \in at .. k - 1 : line[j] \notin chars

\* A file name after < or >: where it begins, once the blanks are NULs, where it
\* ends, and where the search goes on: behind the character that ends the name,
\* also when that is the NUL of the segment, unless it is the other operator.
\* Mutant: the other operator ends no name.
RedirectionToTheBlank(line, at, other) ==
  LET begin == CHOOSE k \in at + 1 .. Len(line) :
                 line[k] # Blank /\ \A j \in at + 1 .. k - 1 : line[j] = Blank
      end   == Find(line, begin, {NUL, Blank})
      blank == [k \in DOMAIN line |-> IF k \in at .. begin - 1 THEN NUL ELSE line[k]]
  IN  [begin |-> begin, line |-> Put(blank, end), next |-> end + 1]

Redirection(line, at, other) ==
  LET begin == CHOOSE k \in at + 1 .. Len(line) :
                 line[k] # Blank /\ \A j \in at + 1 .. k - 1 : line[j] = Blank
      end   == Find(line, begin, {NUL, Blank, other})
      blank == [k \in DOMAIN line |-> IF k \in at .. begin - 1 THEN NUL ELSE line[k]]
  IN  IF line[end] = other
      THEN [begin |-> begin, line |-> blank, next |-> end]
      ELSE [begin |-> begin, line |-> Put(blank, end), next |-> end + 1]

\* One place of the search, which stays at a NUL.
ExtractAt(s) ==
  LET Found(other) == Redirection(s.line, s.at, other)
  IN  CASE s.line[s.at] = NUL -> s
        [] s.line[s.at] = "<" -> [line |-> Found(">").line, at |-> Found(">").next,
                                  in |-> Found(">").begin, out |-> s.out]
        [] s.line[s.at] = ">" -> [line |-> Found("<").line, at |-> Found("<").next,
                                  in |-> s.in, out |-> Found("<").begin]
        [] OTHER              -> [s EXCEPT !.at = @ + 1]

\* The pointers are 0 when nothing was found.  Each place takes the search further, so
\* it ends in as many as the line has.
Extract(line, start) ==
  LET search[k \in 0 .. Len(line)] ==
        IF k = 0 THEN [line |-> line, at |-> start, in |-> 0, out |-> 0]
                 ELSE ExtractAt(search[k - 1])
  IN  search[Len(line)]

\* The name a pointer leads to, when all is cut.
NameAt(line, at) ==
  IF at = 0 THEN None ELSE SubSeq(line, at, Find(line, at, {NUL}) - 1)

-----------------------------------------------------------------------------
(* main: the rules for redirections *)

\* Segment i of several, in the line as those before left it.
ParseSegment(made, starts, i) ==
  LET r == Extract(made.line, starts[i])
  IN  [line |-> r.line,
       ok   |-> (r.in # 0 => i = 1) /\ (r.out # 0 => i = Len(starts)),
       in   |-> IF r.in = 0 THEN made.in ELSE r.in,
       out  |-> IF r.out = 0 THEN made.out ELSE r.out]

\* The segments in their order; the first that breaks a rule is the last to be read.
ParseSegments(line, starts) ==
  LET made[k \in 0 .. Len(starts)] ==
        IF k = 0 THEN [line |-> line, ok |-> TRUE, in |-> 0, out |-> 0]
        ELSE IF made[k - 1].ok THEN ParseSegment(made[k - 1], starts, k)
        ELSE made[k - 1]
  IN  made[Len(starts)]

-----------------------------------------------------------------------------
(* tokenize_command *)

\* The longest runs without a blank.
WordsOf(s) ==
  LET begins == InOrder({k \in DOMAIN s : s[k] # Blank /\ (k > 1 => s[k - 1] = Blank)})
      End(k) == CHOOSE e \in k .. Len(s) : /\ \A j \in k .. e : s[j] # Blank
                                          /\ e < Len(s) => s[e + 1] = Blank
  IN  [n \in DOMAIN begins |-> SubSeq(s, begins[n], End(begins[n]))]

Words(line, start) == WordsOf(SubSeq(line, start, Find(line, start, {NUL}) - 1))

\* What main makes of a line: refused, or the commands and the two paths.
Parse(text) ==
  LET line   == Buffer(text)
      starts == Starts(line)
      result == ParseSegments(Cut(line), starts)
  IN  IF Len(starts) > SHELL_PIPE_MAX \/ ~result.ok
      THEN [ok |-> FALSE, argvs |-> <<>>, in |-> None, out |-> None]
      ELSE [ok    |-> TRUE,
            argvs |-> [i \in 1 .. Len(starts) |-> Words(result.line, starts[i])],
            in    |-> NameAt(result.line, result.in),
            out   |-> NameAt(result.line, result.out)]
=============================================================================
