---------------------------- MODULE SieveProgram -----------------------------
(***************************************************************************)
(* Control flow.  A script is folded (constant tests), compiled to code    *)
(* that knows only tests, jumps and loop marks, and run by interpreters:   *)
(* one for the main script and one for each script that is being included. *)
(*                                                                         *)
(* Sources: cmd-if.c, cmd-stop.c, tst-anyof.c, tst-allof.c, tst-not.c,     *)
(* sieve-validator.c, sieve-generator.c, sieve-interpreter.c, the mime     *)
(* plugin's cmd-foreverypart.c and cmd-break.c, and the include plugin.    *)
(*                                                                         *)
(* The meaning of a script is given once more, by recursion over its text. *)
(* Addresses count instructions instead of bytes.                          *)
(***************************************************************************)
EXTENDS Integers, Sequences, FiniteSets, SequencesExt

CONSTANTS Scripts,        \* names of scripts, "main" among them
          Programs,       \* functions from Scripts to blocks: what the scripts may contain
          Atoms,          \* tests whose outcome only the message decides
          Message,        \* the parts of the message: [parent, next, children, epilogue]
          MaxLoopDepth,   \* SIEVE_MAX_LOOP_DEPTH
          MaxIncludes     \* sieve_include_max_includes

VARIABLES text,           \* the scripts
          binary,         \* their code, a block for each script; <<>> when refused
          truth,          \* outcome of the atomic tests
          interps,        \* the interpreters, innermost last
          marks,          \* scripts included so far, in any interpreter
          acts,           \* actions taken, with the message part of each
          status          \* "run", "ok", "refused", "failure" or "corrupt"

vars == <<text, binary, truth, interps, marks, acts, status>>

(***************************************************************************)
(* Text.  A test is [k, x, s]: an atom x, a constant, or not / anyof /     *)
(* allof over the tests s.  A command is [k, x, c, b]: k says which, x is  *)
(* its name, c the branches of an if-elsif-else, b the body of a loop.     *)
(***************************************************************************)
Test(k, x, s)    == [k |-> k, x |-> x, s |-> s]
Atom(x)          == Test("atom", x, <<>>)
Const(v)         == Test("const", v, <<>>)
Else             == Test("else", "", <<>>)
Cmd(k, x, c, b)  == [k |-> k, x |-> x, c |-> c, b |-> b]
Act(n)           == Cmd("act", n, <<>>, <<>>)
Stop             == Cmd("stop", "", <<>>, <<>>)
Return           == Cmd("return", "", <<>>, <<>>)
Break(n)         == Cmd("break", n, <<>>, <<>>)
Include(s)       == Cmd("include", s, <<>>, <<>>)
IncludeOnce(s)   == Cmd("include-once", s, <<>>, <<>>)
If(c)            == Cmd("if", "", c, <<>>)
Loop(n, b)       == Cmd("loop", n, <<>>, b)
Branch(t, b)     == [t |-> t, b |-> b]

(***************************************************************************)
(* Validation: constant folding.  -1 is "not constant", -2 "nothing seen". *)
(* A constant subtest is detached.                                         *)
(***************************************************************************)
\* Mutant: a subtest that is not constant is forgotten when a constant one follows.
AnyofForgets(current, next) ==
  IF next > 0 THEN [value |-> 1, more |-> FALSE] ELSE [value |-> next, more |-> TRUE]
tst_anyof_validate_const(current, next) ==
  IF next > 0 THEN [value |-> 1, more |-> FALSE]
  ELSE [value |-> IF current # -1 THEN next ELSE current, more |-> TRUE]
tst_allof_validate_const(current, next) ==
  IF next = 0 THEN [value |-> 0, more |-> FALSE]
  ELSE [value |-> IF current # -1 THEN next ELSE current, more |-> TRUE]
tst_not_validate_const(current, next) ==
  [value |-> CASE next < 0 -> -1 [] next > 0 -> 0 [] OTHER -> 1, more |-> TRUE]
validate_const(k, current, next) ==
  CASE k = "anyof" -> tst_anyof_validate_const(current, next)
    [] k = "allof" -> tst_allof_validate_const(current, next)
    [] k = "not"   -> tst_not_validate_const(current, next)

RECURSIVE sieve_validate_test(_), sieve_validate_test_list(_, _, _, _)
sieve_validate_test(t) ==         \* [const, test]
  CASE t.k = "const" -> [const |-> IF t.x = "true" THEN 1 ELSE 0, test |-> t]
    [] t.k = "atom"  -> [const |-> -1, test |-> t]
    [] OTHER -> sieve_validate_test_list(t.k, t.s, validate_const(t.k, -2, -2).value, <<>>)
sieve_validate_test_list(k, rest, const, kept) ==
  IF rest = <<>> THEN [const |-> const, test |-> Test(k, "", kept)]
  ELSE LET v == sieve_validate_test(Head(rest))
           c == validate_const(k, const, v.const)
       IN IF ~c.more THEN [const |-> c.value, test |-> Test(k, "", kept \o rest)]
          ELSE sieve_validate_test_list(k, Tail(rest), c.value,
                                        IF v.const >= 0 THEN kept ELSE Append(kept, v.test))

\* The conditions of a chain: a branch after one that is always taken is never taken.
RECURSIVE cmd_if_validate_const(_, _)
cmd_if_validate_const(c, taken) ==
  IF c = <<>> THEN <<>>
  ELSE LET v == IF taken THEN [const |-> 0, test |-> Else]
                ELSE IF Head(c).t.k = "else" THEN [const |-> -1, test |-> Else]
                ELSE sieve_validate_test(Head(c).t)
       IN <<[const |-> v.const, t |-> v.test, b |-> Head(c).b]>>
            \o cmd_if_validate_const(Tail(c), taken \/ v.const > 0)

(***************************************************************************)
(* Generation.  Code is a sequence of [op, arg, to]; a jump list is a set  *)
(* of instructions whose target is not known yet.                          *)
(***************************************************************************)
Emit(code, op, arg) == Append(code, [op |-> op, arg |-> arg, to |-> 0])
sieve_jumplist_resolve(code, jumps) ==
  [i \in 1..Len(code) |-> IF i \in jumps THEN [code[i] EXCEPT !.to = Len(code) + 1] ELSE code[i]]
Gen(code, jumps) == [code |-> code, jumps |-> jumps]

RECURSIVE sieve_generate_test(_, _, _), GenerateList(_, _, _)
sieve_generate_test(t, code, jump_true) ==
  CASE t.k = "atom" ->
         LET c == Emit(Emit(code, "test", t.x), IF jump_true THEN "jmptrue" ELSE "jmpfalse", "")
         IN Gen(c, {Len(c)})
    [] t.k = "not" -> sieve_generate_test(t.s[1], code, ~jump_true)
    [] Len(t.s) = 1 -> sieve_generate_test(t.s[1], code, jump_true)
    \* anyof that jumps on true and allof that jumps on false hand their jumps to the caller
    [] (t.k = "anyof") = jump_true -> GenerateList(t.s, Gen(code, {}), jump_true)
    [] OTHER -> LET g == GenerateList(t.s, Gen(code, {}), ~jump_true)
                    c == Emit(g.code, "jmp", "")
                IN Gen(sieve_jumplist_resolve(c, g.jumps), {Len(c)})
GenerateList(ts, g, jump_true) ==
  IF ts = <<>> THEN g
  ELSE LET h == sieve_generate_test(Head(ts), g.code, jump_true)
       IN GenerateList(Tail(ts), Gen(h.code, g.jumps \cup h.jumps), jump_true)

\* stop and break leave their block for good (sieve_command_exit_block_unconditionally).
BlockExits(b) == \E i \in 1..Len(b) : b[i].k \in {"stop", "break"}
\* The loop that a break leaves: the innermost one, or the innermost of that name.
LoopOf(loops, n) == LET m == {i \in 1..Len(loops) : n = "" \/ loops[i] = n}
                    IN IF m = {} THEN 0 ELSE CHOOSE i \in m : \A j \in m : j <= i
\* Open breaks are pairs of an instruction and the depth of its loop.
Brk(code, breaks) == [code |-> code, breaks |-> breaks]

RECURSIVE sieve_generate_block(_, _, _), sieve_generate_command(_, _, _), cmd_if_generate(_, _, _, _)
sieve_generate_block(b, g, loops) ==
  IF b = <<>> THEN g
  ELSE sieve_generate_block(Tail(b), sieve_generate_command(Head(b), g, loops), loops)

sieve_generate_command(c, g, loops) ==
  CASE c.k \in {"act", "stop", "return", "include", "include-once"} -> Brk(Emit(g.code, c.k, c.x), g.breaks)
    [] c.k = "if" -> cmd_if_generate(cmd_if_validate_const(c.c, FALSE), g, {}, loops)
    [] c.k = "break" -> LET code == Emit(g.code, "break", "")
                        IN Brk(code, g.breaks \cup {<<Len(code), LoopOf(loops, c.x)>>})
    [] c.k = "loop" ->
         LET begin == Emit(g.code, "loop_begin", "")
             body  == sieve_generate_block(c.b, Brk(begin, g.breaks), Append(loops, c.x))
             depth == Len(loops) + 1
             mine  == {p[1] : p \in {q \in body.breaks : q[2] = depth}} \cup {Len(begin)}
             code  == Append(body.code, [op |-> "loop_end", arg |-> "", to |-> Len(begin) + 1])
         IN Brk(sieve_jumplist_resolve(code, mine), {q \in body.breaks : q[2] # depth})

\* A branch: its test, its block, the jump to the end of the chain.
cmd_if_generate(c, g, exits, loops) ==
  IF c = <<>> THEN g
  ELSE LET br    == Head(c)
           test  == IF br.const < 0 /\ br.t.k # "else" THEN sieve_generate_test(br.t, g.code, FALSE)
                                                      ELSE Gen(g.code, {})
           block == IF br.const # 0 THEN sieve_generate_block(br.b, Brk(test.code, g.breaks), loops)
                                    ELSE Brk(test.code, g.breaks)
           last  == IF br.t.k = "else" THEN br.const # 0 ELSE Tail(c) = <<>> \/ br.const = 1
           leave == ~last /\ br.t.k # "else" /\ br.const < 0 /\ ~BlockExits(br.b)
           code1 == IF last THEN sieve_jumplist_resolve(block.code, exits)
                    ELSE IF leave THEN Emit(block.code, "jmp", "") ELSE block.code
           code2 == sieve_jumplist_resolve(code1, test.jumps)
       IN cmd_if_generate(Tail(c), Brk(code2, block.breaks),
                          IF leave THEN exits \cup {Len(code1)} ELSE exits, loops)

Code(s) == sieve_generate_block(text[s], Brk(<<>>, {}), <<>>).code

\* What the validator refuses: a break outside its loop, loops nested too deeply.  Blocks
\* that are never taken are not looked at.
RECURSIVE Valid(_, _)
Valid(b, loops) ==
  \A i \in 1..Len(b) :
    CASE b[i].k = "break" -> LoopOf(loops, b[i].x) # 0
      [] b[i].k = "loop"  -> Len(loops) < MaxLoopDepth /\ Valid(b[i].b, Append(loops, b[i].x))
      [] b[i].k = "if"    -> LET c == cmd_if_validate_const(b[i].c, FALSE)
                             IN \A j \in 1..Len(c) : c[j].const # 0 => Valid(c[j].b, loops)
      [] OTHER -> TRUE

\* Included scripts are compiled when the first include command for them is generated.
RECURSIVE Includes(_)
Includes(b) ==      \* include commands that are generated, in their order
  IF b = <<>> THEN <<>>
  ELSE (CASE Head(b).k \in {"include", "include-once"} -> <<Head(b)>>
          [] Head(b).k = "loop" -> Includes(Head(b).b)
          [] Head(b).k = "if" ->
               LET c == cmd_if_validate_const(Head(b).c, FALSE)
               IN FlattenSeq([j \in 1..Len(c) |-> IF c[j].const # 0 THEN Includes(c[j].b) ELSE <<>>])
          [] OTHER -> <<>>) \o Includes(Tail(b))

RECURSIVE ext_include_generate_include(_, _, _)
ext_include_generate_include(todo, chain, known) ==   \* the scripts compiled, {} on error
  IF todo = <<>> THEN known
  ELSE LET s == Head(todo).x
           rest(k) == ext_include_generate_include(Tail(todo), chain, k)
       IN CASE Head(todo).k = "include" /\ \E i \in 1..Len(chain) : chain[i] = s -> {}
            [] s \in known -> rest(known)
            [] Cardinality(known \ {""}) >= MaxIncludes -> {}
            [] OTHER -> LET sub == IF Valid(text[s], <<>>)
                                   THEN ext_include_generate_include(Includes(text[s]), Append(chain, s), known \cup {s})
                                   ELSE {}
                        IN IF sub = {} THEN {} ELSE rest(sub)
Compiles == /\ Valid(text["main"], <<>>)
            /\ ext_include_generate_include(Includes(text["main"]), <<"main">>, {""}) # {}

(***************************************************************************)
(* Message parts, in the order of the message, and their iterators.        *)
(***************************************************************************)
Iter(root, index) == [root |-> root, index |-> index]    \* root 0: nothing to iterate
sieve_message_part_iter_init == Iter(IF Message = <<>> THEN 0 ELSE 1, 1)
sieve_message_part_iter_children(it) ==
  IF it.index + 1 > Len(Message) \/ ~Message[it.index].children THEN Iter(0, it.index)
  ELSE Iter(it.index, it.index + 1)
\* The current part, epilogues skipped; 0 at the end.
sieve_message_part_iter_current(it) ==
  LET ends(i) == i > Len(Message) \/ i = Message[it.root].next \/ i = Message[it.root].parent
      hit(i)  == i >= it.index /\ (ends(i) \/ ~Message[i].epilogue)
      first   == CHOOSE i \in it.index..(Len(Message) + 1) : hit(i) /\ \A j \in it.index..(i - 1) : ~hit(j)
  IN IF it.root = 0 \/ ends(first) THEN 0 ELSE first

(***************************************************************************)
(* Interpreters                                                            *)
(***************************************************************************)
Interp(s) == [script |-> s, pc |-> 1, test |-> FALSE, loops |-> <<>>, limit |-> 0,
              include |-> "", returned |-> FALSE, interrupted |-> FALSE]

Init == /\ text \in Programs
        /\ binary = IF Compiles THEN [s \in Scripts |-> Code(s)] ELSE <<>>
        /\ truth \in [Atoms -> BOOLEAN]
        /\ interps = <<Interp("main")>> /\ marks = {} /\ acts = <<>>
        /\ status = IF binary # <<>> THEN "run" ELSE "refused"

Cur   == interps[Len(interps)]
Block == binary[Cur.script]
Instr == Block[Cur.pc]
InLimit == Cur.limit = 0 \/ Cur.pc <= Cur.limit
Running(op) == /\ status = "run" /\ ~Cur.interrupted /\ Cur.pc <= Len(Block)
               /\ InLimit /\ Instr.op \in op
SetCur(i)   == interps' = [interps EXCEPT ![Len(interps)] = i]
Go(i)       == SetCur(i) /\ UNCHANGED <<text, binary, truth, marks, acts, status>>
Corrupt     == status' = "corrupt" /\ UNCHANGED <<text, binary, truth, interps, marks, acts>>

\* The innermost loop anywhere: in this interpreter or in those that included it.
LoopAround == LET with == {i \in 1..Len(interps) : interps[i].loops # <<>>}
              IN IF with = {} THEN Iter(0, 0)
                 ELSE Last(interps[CHOOSE i \in with : \A j \in with : j <= i].loops).it
PartNow == IF LoopAround.index = 0 THEN 0 ELSE sieve_message_part_iter_current(LoopAround)

CrossesBoundary ==
  /\ status = "run" /\ ~Cur.interrupted /\ Cur.pc <= Len(Block) /\ ~InLimit
  /\ Corrupt

TakeAction ==
  /\ Running({"act"})
  /\ acts' = Append(acts, <<Instr.arg, PartNow>>)
  /\ SetCur([Cur EXCEPT !.pc = @ + 1])
  /\ UNCHANGED <<text, binary, truth, marks, status>>

EvaluateTest == Running({"test"}) /\ Go([Cur EXCEPT !.pc = @ + 1, !.test = truth[Instr.arg]])

\* The target is checked whether or not the jump is taken.
sieve_interpreter_program_jump ==
  /\ Running({"jmp", "jmptrue", "jmpfalse"})
  /\ IF Instr.to > Len(Block) + 1 \/ Instr.to = 0 \/ (Cur.limit > 0 /\ Instr.to >= Cur.limit)
     THEN Corrupt
     ELSE LET jump == Instr.op = "jmp" \/ (Instr.op = "jmptrue") = Cur.test
          IN Go([Cur EXCEPT !.pc = IF jump THEN Instr.to ELSE @ + 1])

opc_stop_execute == Running({"stop"}) /\ Go([Cur EXCEPT !.pc = @ + 1, !.interrupted = TRUE])
ext_include_execute_return ==
  Running({"return"}) /\ Go([Cur EXCEPT !.pc = @ + 1, !.interrupted = TRUE, !.returned = TRUE])

\* Leaving loop i of an interpreter and all deeper ones.
sieve_interpreter_loop_break(int, i) ==
  [int EXCEPT !.limit = IF i > 1 THEN int.loops[i].end ELSE 0,
              !.pc = int.loops[i].end,
              !.loops = SubSeq(@, 1, i - 1)]

sieve_interpreter_loop_start ==
  /\ Running({"loop_begin"})
  /\ LET depth == Len(FlattenSeq([i \in 1..Len(interps) |-> interps[i].loops]))
         it    == IF LoopAround.index = 0 THEN sieve_message_part_iter_init
                                          ELSE sieve_message_part_iter_children(LoopAround)
         int   == [Cur EXCEPT !.pc = @ + 1, !.limit = Instr.to,
                              !.loops = Append(@, [begin |-> Cur.pc + 1, end |-> Instr.to, it |-> it])]
     IN IF depth >= MaxLoopDepth
        THEN status' = "failure" /\ UNCHANGED <<text, binary, truth, interps, marks, acts>>
        ELSE Go(IF sieve_message_part_iter_current(it) # 0 THEN int
                ELSE sieve_interpreter_loop_break(int, Len(int.loops)))

sieve_interpreter_loop_get(end) ==
  LET m == {i \in 1..Len(Cur.loops) : Cur.loops[i].end = end}
  IN IF m = {} THEN 0 ELSE CHOOSE i \in m : \A j \in m : j <= i

\* Mutant: the iterator stays where it is.
LoopSticks ==
  /\ Running({"loop_end"})
  /\ LET loop == Cur.loops[sieve_interpreter_loop_get(Cur.pc + 1)]
     IN Go([Cur EXCEPT !.pc = loop.begin])
sieve_interpreter_loop_next ==
  /\ Running({"loop_end"})
  /\ LET i    == sieve_interpreter_loop_get(Cur.pc + 1)
         loop == Cur.loops[i]
         cur  == sieve_message_part_iter_current(loop.it)
         it   == [loop.it EXCEPT !.index = cur + 1]
     IN IF i = 0 \/ loop.begin # Instr.to THEN Corrupt
        ELSE IF sieve_message_part_iter_current(it) = 0
        THEN Go(sieve_interpreter_loop_break(Cur, i))
        ELSE Go([Cur EXCEPT !.loops[i].it = it, !.pc = loop.begin])

cmd_break_operation_execute ==
  /\ Running({"break"})
  /\ LET i == sieve_interpreter_loop_get(Instr.to)
     IN IF i = 0 THEN Corrupt ELSE Go(sieve_interpreter_loop_break(Cur, i))

\* include: the main script runs the included one, an included script asks the main one
\* to do it and is interrupted.
ext_include_execute_include ==
  /\ Running({"include", "include-once"})
  /\ LET s    == Instr.arg
         skip == Instr.op = "include-once" /\ s \in marks
         next == [Cur EXCEPT !.pc = @ + 1]
     IN /\ marks' = marks \cup {s}
        /\ CASE skip -> SetCur(next) /\ UNCHANGED status
             [] ~skip /\ \E i \in 1..Len(interps) : interps[i].script = s ->
                  status' = "corrupt" /\ UNCHANGED interps
             [] OTHER -> /\ interps' = IF Len(interps) = 1 THEN <<next, Interp(s)>>
                                       ELSE [interps EXCEPT ![Len(interps)] = [next EXCEPT !.include = s, !.interrupted = TRUE]]
                         /\ UNCHANGED status
  /\ UNCHANGED <<text, binary, truth, acts>>

\* The main interpreter's loop over included scripts: start what was asked for, ascend
\* from a script that ended or returned, stop altogether after a stop command.
IncludeAscend ==
  /\ status = "run" /\ Len(interps) > 1
  /\ Cur.returned \/ (~Cur.interrupted /\ Cur.pc > Len(Block))
  /\ LET up == Len(interps) - 1
     IN interps' = [SubSeq(interps, 1, up) EXCEPT
                      ![up] = IF up = 1 THEN @
                              ELSE [@ EXCEPT !.include = "", !.returned = FALSE, !.interrupted = FALSE]]
  /\ UNCHANGED <<text, binary, truth, marks, acts, status>>
IncludeDescend ==
  /\ status = "run" /\ Cur.interrupted /\ Cur.include # "" /\ ~Cur.returned
  /\ interps' = Append([interps EXCEPT ![Len(interps)].include = ""], Interp(Cur.include))
  /\ UNCHANGED <<text, binary, truth, marks, acts, status>>
IncludeStopped ==
  /\ status = "run" /\ Len(interps) > 1
  /\ Cur.interrupted /\ ~Cur.returned /\ Cur.include = ""
  /\ interps' = <<[interps[1] EXCEPT !.interrupted = TRUE]>>
  /\ UNCHANGED <<text, binary, truth, marks, acts, status>>

Finish ==
  /\ status = "run" /\ Len(interps) = 1 /\ (Cur.interrupted \/ Cur.pc > Len(Block))
  /\ status' = "ok" /\ UNCHANGED <<text, binary, truth, interps, marks, acts>>

Next == \/ CrossesBoundary \/ TakeAction \/ EvaluateTest \/ sieve_interpreter_program_jump
        \/ opc_stop_execute \/ ext_include_execute_return \/ sieve_interpreter_loop_start
        \/ sieve_interpreter_loop_next \/ cmd_break_operation_execute
        \/ ext_include_execute_include \/ IncludeAscend \/ IncludeDescend \/ IncludeStopped \/ Finish
Spec     == Init /\ [][Next]_vars
FairSpec == Spec /\ WF_vars(Next)

(***************************************************************************)
(* The meaning of a script, by recursion over its text.                    *)
(*   acts, marks  as above   sig  why the block was left: "" or a command  *)
(***************************************************************************)
RECURSIVE Holds(_)
Holds(t) ==
  CASE t.k = "atom"  -> truth[t.x]
    [] t.k = "const" -> t.x = "true"
    [] t.k = "else"  -> TRUE
    [] t.k = "not"   -> ~Holds(t.s[1])
    [] t.k = "anyof" -> \E i \in 1..Len(t.s) : Holds(t.s[i])
    [] t.k = "allof" -> \A i \in 1..Len(t.s) : Holds(t.s[i])

RECURSIVE Below(_, _)
Below(p, q) == Message[q].parent # 0 /\ (Message[q].parent = p \/ Below(p, Message[q].parent))
\* Parts a loop visits: all of them, or what is below the current part.
Visited(p) == SelectSeq([i \in 1..Len(Message) |-> i],
                        LAMBDA q : ~Message[q].epilogue /\ (p = 0 \/ Below(p, q)))

RECURSIVE Run(_, _, _, _), RunLoop(_, _, _, _)
Run(b, r, part, loops) ==
  IF b = <<>> \/ r.sig # "" THEN r
  ELSE LET c == Head(b)
           after ==
             CASE c.k = "act" -> [r EXCEPT !.acts = Append(@, <<c.x, part>>)]
               [] c.k \in {"stop", "return"} -> [r EXCEPT !.sig = c.k]
               [] c.k = "break" -> [r EXCEPT !.sig = "break", !.depth = LoopOf(loops, c.x)]
               [] c.k = "if" ->
                    LET m == {i \in 1..Len(c.c) : Holds(c.c[i].t)}
                    IN IF m = {} THEN r
                       ELSE Run(c.c[CHOOSE i \in m : \A j \in m : i <= j].b, r, part, loops)
               [] c.k = "loop" -> RunLoop(c, [r EXCEPT !.parts = Visited(part)], part, loops)
               [] OTHER ->
                    IF c.k = "include-once" /\ c.x \in r.marks THEN r
                    ELSE LET in == Run(text[c.x], [r EXCEPT !.marks = @ \cup {c.x}], part, <<>>)
                         IN [in EXCEPT !.sig = IF @ = "stop" THEN "stop" ELSE ""]
       IN Run(Tail(b), after, part, loops)
RunLoop(c, r, part, loops) ==
  IF r.parts = <<>> THEN r
  ELSE LET todo == Tail(r.parts)
           r1   == Run(c.b, r, Head(r.parts), Append(loops, c.x))
       IN CASE r1.sig = "" -> RunLoop(c, [r1 EXCEPT !.parts = todo], part, loops)
            [] r1.sig = "break" /\ r1.depth = Len(loops) + 1 -> [r1 EXCEPT !.sig = ""]
            [] OTHER -> r1
Meaning == Run(text["main"], [acts |-> <<>>, marks |-> {}, sig |-> "", depth |-> 0, parts |-> <<>>], 0, <<>>)

(***************************************************************************)
(* Properties                                                              *)
(***************************************************************************)
\* Types; interpreters below the innermost wait for it, interrupted by their own request
\* unless they are the main one (ext_include_execute_include).
ProgramTypeOK ==
  /\ status \in {"run", "ok", "refused", "failure", "corrupt"}
  /\ status # "refused" => \A i \in 1..Len(interps) :
       /\ interps[i].script \in Scripts /\ interps[i].pc \in 1..(Len(binary[interps[i].script]) + 1)
       /\ Len(interps[i].loops) <= MaxLoopDepth
       /\ 1 < i /\ i < Len(interps) => interps[i].interrupted /\ interps[i].include = ""
  /\ \A i, j \in 1..Len(interps) : i # j => interps[i].script # interps[j].script

\* Compiled code does what the script says: the same actions on the same message parts in
\* the same order, whatever was folded, jumped over, included or left early.
CodeMeansText == status = "ok" => acts = Meaning.acts

\* At no time has the interpreter done something that the script does not say.
PrefixOfMeaning == status = "run" => IsPrefix(acts, Meaning.acts)

\* Code that the generator wrote is not taken for corrupt, but in two cases: a script
\* includes the main one with :once, which is found to be circular only at run time, and
\* commands follow an inner loop, whose end stays the limit (sieve_interpreter_loop_break).
SelfInclude == \E s \in Scripts : \E i \in 1..Len(Includes(text[s])) : Includes(text[s])[i] = IncludeOnce("main")
RECURSIVE AfterInnerLoop(_, _)
AfterInnerLoop(b, inside) ==
  \E i \in 1..Len(b) : /\ b[i].k = "loop"
                       /\ (inside /\ i < Len(b)) \/ AfterInnerLoop(b[i].b, TRUE)
NeverCorrupt == status = "corrupt" => SelfInclude \/ \E s \in Scripts : AfterInnerLoop(text[s], FALSE)

\* Commands after an inner loop run like all others: the limit that is set when a loop is
\* left ("Set new loop limit") is that of the loop around it.
LimitIsEnclosing == status # "corrupt"

\* Every script ends: jumps lead forwards and loops are bounded by the message.
ProgramEnds == <>(status # "run")

\* Folding, jumps, loops and includes: the interpreter never does what the script does not say, at its end it
\* has done all of it, and it takes no code for corrupt that the generator wrote, with two exceptions: commands
\* behind an inner loop (the limit set at sieve-interpreter.c:655), and a script that includes itself with :once.
ProgramMeansText == ProgramTypeOK /\ PrefixOfMeaning /\ CodeMeansText /\ NeverCorrupt
=============================================================================
