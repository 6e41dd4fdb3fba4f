------------------------------ MODULE MCSieveCode ------------------------------
(***************************************************************************)
(* Compiled code, for TLC.  A behaviour is about one command or about one  *)
(* script:                                                                 *)
(*   SieveLanguage  every command with every sequence of at most MaxTags   *)
(*      of its tags, with parameters of the right and the wrong kind, and  *)
(*      every sequence of at most MaxWords positional arguments            *)
(*   SieveProgram   families of scripts: nested tests, if-chains, loops    *)
(*      over message parts, and included scripts                           *)
(***************************************************************************)
EXTENDS SieveProgram

CONSTANTS p, q,           \* atomic tests
          Names, MaxTags, MaxWords
VARIABLES cmd, tags, words, phase, pos, args, detached, code, at, todo, got, over

Library  == INSTANCE SieveExtensions
Commands == Library!BaseCommands @@ Library!ExtensionCommands
Command  == INSTANCE SieveLanguage

A1 == Act("a")
A2 == Act("b")
Leaf  == {Atom(p), Atom(q), Const("true"), Const("false")}
Pairs(S, T) == {<<x, y>> : x \in S, y \in T}
Lists == Pairs(Leaf, Leaf) \cup {<<x>> : x \in Leaf}
Depth1 == {Test("not", "", <<x>>) : x \in Leaf}
            \cup {Test(k, "", s) : k \in {"anyof", "allof"}, s \in Lists}
Depth2 == {Test("not", "", <<x>>) : x \in Depth1}
            \cup {Test(k, "", <<Atom(p), Atom(q), x>>) : k \in {"anyof", "allof"}, x \in Depth1}
            \cup {Test(k, "", <<x, Atom(q)>>) : k \in {"anyof", "allof"}, x \in Depth1}
            \cup {Test(k, "", <<x, Atom(q)>>) : k \in {"anyof", "allof"},
                        x \in {Test("not", "", <<y>>) : y \in Depth1}}
TestPrograms == {<<If(<<Branch(t, <<A1>>), Branch(Else, <<A2>>)>>), Act("c")>> : t \in Leaf \cup Depth1 \cup Depth2}

Blocks == {<<A1>>, <<Stop>>, <<A2, Stop>>}
ChainPrograms ==
  {<<If(<<Branch(t1, b1), Branch(t2, b2), Branch(t3, <<Act("d")>>)>> \o e), Act("c")>> :
     t1 \in Leaf, t2 \in Leaf, t3 \in Leaf, b1 \in Blocks, b2 \in Blocks,
     e \in {<<>>, <<Branch(Else, <<Act("e")>>)>>}}

Inner == {<<A1>>, <<A1, If(<<Branch(Atom(p), <<A2>>)>>)>>, <<A1, Break("")>>, <<If(<<Branch(Atom(p), <<Break("outer")>>)>>), A1>>,
          <<If(<<Branch(Atom(p), <<Stop>>), Branch(Atom(q), <<Break("")>>)>>), A1>>}
LoopPrograms ==
  {<<Loop("outer", pre \o <<Loop("", b)>>), Act("z")>> : pre \in {<<>>, <<A2>>, <<If(<<Branch(Atom(q), <<Break("")>>)>>)>>}, b \in Inner}
    \cup {<<Loop("outer", b), Loop("", <<A2>>), Act("z")>> : b \in Inner}
    \cup {<<Loop("", <<Break("outer")>>)>>, <<Break("")>>, <<Loop("", <<Loop("", <<Loop("", <<A1>>)>>)>>)>>}

Calls(s) == {Include(s), IncludeOnce(s)}
Lib1Programs == {<<A1, x, Act("f")>> : x \in Calls("lib2") \cup {Return, Stop, IncludeOnce("main")}}
                  \cup {<<Loop("", <<A1>>)>>}
Lib2Programs == {<<A2>>, <<If(<<Branch(Atom(p), <<Return>>), Branch(Atom(q), <<Stop>>)>>), A2>>, <<Include("lib1")>>}
IncludePrograms ==
  {<<x, y, Act("z")>> : x \in Calls("lib1"), y \in Calls("lib1") \cup Calls("lib2")}
    \cup {<<Loop("", <<x>>), Act("z")>> : x \in Calls("lib1")}
    \cup {<<If(<<Branch(Const("false"), <<Include("lib1")>>)>>), Include("lib2")>>}

\* The scripts of a run: single scripts, or a main script that includes others.
Single(S) == [main : S, lib1 : {<<A2>>}, lib2 : {<<A2>>}]
\* A loop inside a loop that is not the last command of its body.
NestedPrograms == Single({<<Loop("outer", <<Loop("", b), A2, Act("c")>>)>> : b \in Inner})
AllPrograms == Single(TestPrograms \cup ChainPrograms \cup LoopPrograms) \cup NestedPrograms
                 \cup [main : IncludePrograms, lib1 : Lib1Programs, lib2 : Lib2Programs]

Part(parent, next, children, epilogue) == [parent |-> parent, next |-> next, children |-> children, epilogue |-> epilogue]
\* multipart(1) { text(2), multipart(3) { text(4) }, epilogue(5) }
MimeMessage == <<Part(0, 0, TRUE, FALSE), Part(1, 3, FALSE, FALSE), Part(1, 5, TRUE, FALSE),
                 Part(3, 0, FALSE, FALSE), Part(1, 0, FALSE, TRUE)>>
AtomSet   == {p, q}
ScriptSet == {"main", "lib1", "lib2"}
AllNames  == DOMAIN Commands

\* While one of the two is looked at the other is at an end: a statement that was refused, a script that was.
Statement == <<cmd, tags, words, phase, pos, args, detached, code, at, todo, got, over>>
NoStatement == /\ cmd = "keep" /\ tags = <<>> /\ words = <<>> /\ phase = "refused" /\ pos = 0 /\ args = <<>> /\ detached = {}
               /\ code = <<>> /\ at = 1 /\ todo = <<>> /\ got = {} /\ over = {}
NoScript == /\ text = [s \in Scripts |-> <<A1>>] /\ binary = <<>> /\ truth = [a \in Atoms |-> FALSE]
            /\ interps = <<Interp("main")>> /\ marks = {} /\ acts = <<>> /\ status = "refused"
CodeInit == (Init /\ NoStatement) \/ (Command!Init /\ NoScript)
RunScript == Next /\ UNCHANGED Statement
RunCommand == Command!Next /\ UNCHANGED vars
CodeNext == RunScript \/ RunCommand
\* The interpreter runs until the script ends: it waits for nothing.
CodeSpec == CodeInit /\ [][CodeNext]_<<vars, Statement>> /\ WF_vars(RunScript)

\* Validator, generator, dumper and interpreter of each command agree (SieveLanguage).
StatementsReadBack == Command!StatementsReadBack
===============================================================================
