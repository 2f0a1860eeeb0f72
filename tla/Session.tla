------------------------------- MODULE Session -----------------------------
(***************************************************************************)
(* A session at a terminal: the user runs one of the small programs, each  *)
(* with every input below.  The programs share nothing, so each state is   *)
(* the state of one of them, the others being off.                         *)
(***************************************************************************)
EXTENDS Pcat, OneCat, WordCount, FillPipe, CopyFile, Shell

pcatVars == vars

Started ==
  [pcat |-> parent # "off", cat |-> cat # "off", mywc |-> counter # "off",
   fill |-> filler # "off", cp |-> copyAt # "off", shell |-> shell # "off"]

Only(name) == \A other \in DOMAIN Started \ {name} : ~Started[other]

SessionInit == Init /\ CatInit /\ WcInit /\ FillInit /\ CpInit /\ ShInit

SessionNext ==
  \/ Only("pcat") /\ Next     /\ UNCHANGED <<catVars, wcVars, fillVars, cpVars, shVars>>
  \/ Only("cat") /\ CatNext   /\ UNCHANGED <<pcatVars, wcVars, fillVars, cpVars, shVars>>
  \/ Only("mywc") /\ WcNext   /\ UNCHANGED <<pcatVars, catVars, fillVars, cpVars, shVars>>
  \/ Only("fill") /\ FillNext /\ UNCHANGED <<pcatVars, catVars, wcVars, cpVars, shVars>>
  \/ Only("cp") /\ CpNext     /\ UNCHANGED <<pcatVars, catVars, wcVars, fillVars, shVars>>
  \/ Only("shell") /\ ShNext  /\ UNCHANGED <<pcatVars, catVars, wcVars, fillVars, cpVars>>

sessionVars == <<pcatVars, catVars, wcVars, fillVars, cpVars, shVars>>

\* Nothing runs any more, or one that fills a pipe is blocked for ever.
Over ==
  /\ Idle /\ CatIdle /\ WcIdle /\ (FillIdle \/ filler = "blocked") /\ CpIdle /\ ShIdle
  /\ UNCHANGED sessionVars

SessionSpec ==
  /\ SessionInit /\ [][SessionNext \/ Over]_sessionVars
  /\ Fairness /\ FillFairness /\ ShFairness

-----------------------------------------------------------------------------
(* Inputs *)

\* pcat and cat: up to two files, missing, empty, shorter or longer than a read.
AnyFiles == UNION {[1 .. n -> {Missing, <<>>, <<1>>, <<1, 2, 3>>}] : n \in 0 .. 2}

\* cp: files a and b, which may be one, a directory d, and what it may hold.
AnyTrees ==
  {[link |-> [p \in Path |-> CASE p = <<"", "a">>  -> 1
                               [] p = <<"", "b">>  -> b
                               [] p = <<"", "d">>  -> 4
                               [] p = <<"d", "a">> -> da
                               [] p = <<"d", "b">> -> db
                               [] OTHER            -> NoInode],
    data |-> <<a, <<21>>, <<31, 32>>, Directory, <<>>, <<>>>>] :
     b \in {0, 1, 2}, da \in 0 .. 3, db \in 0 .. 3, a \in {<<>>, <<11, 12, 13>>}}

Arguments ==
  LET a == <<"", "a">>  b == <<"", "b">>  d == <<"", "d">>
  IN  {<<a, b>>, <<a, a>>, <<a, d>>, <<d, b>>, <<b, <<"d", "a">>>>,
       <<a, b, d>>, <<b, a, b, d>>, <<a, <<"d", "a">>, d>>, <<a, <<"d", "a">>, b>>}
AnyOrders ==
  [tool : {"cp"}, flags : {<<>>, <<"f">>, <<"f", "i">>}, paths : Arguments]
    \cup [tool : {"cp_mmap"}, flags : {<<>>}, paths : {p \in Arguments : Len(p) = 2}]

\* myshell: all short lines, with blanks, bars and redirections in any place, and up to
\* three commands with or without redirections, among them a program that is not there,
\* no words and too many words.
ShortLines == BoundedSeq({"c", " ", "|", "<", ">"}, 5)
Plain == {<<"c">>, <<"h">>, <<"y">>, <<"x">>, <<>>, <<"c", " ", "c", " ", "c", " ", "c", " ", "c">>}
Redirected ==
  {<<"c", " ", "<", "f">>, <<"c", " ", "<", "f", " ">>, <<"c", " ", ">", " ", "g">>,
   <<"<", "f", " ", "c">>, <<"c", " ", "<", "f", " ", "a">>, <<"c", ">", "g", "<", "f">>,
   <<"c", " ", "<", "f", " ", "<", "g">>}
Pipelines(commands) ==
  {FlattenSeq([n \in 1 .. Len(line) |-> IF n = 1 THEN line[n] ELSE <<"|">> \o line[n]]) :
     line \in BoundedSeq(commands, 3)}
AnyLines == ShortLines \cup Pipelines(Plain) \cup Pipelines(Redirected \cup {<<"c">>})
RedirectedLines == Pipelines(Redirected)
=============================================================================
