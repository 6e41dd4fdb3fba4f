---------------------------- MODULE SieveValidator ----------------------------
(***************************************************************************)
(* Validation of the parser's tree: which command may stand where, with    *)
(* how many tests and with a block, and what require loads.                *)
(* Sources: sieve-validator.c, cmd-require.c, cmd-if.c.  The arguments of  *)
(* a command are SieveLanguage's matter; here they are counted.            *)
(*                                                                         *)
(* v: failed, errs, unknown (commands reported as such), finished          *)
(* (finished_require), loaded (extensions).                                *)
(***************************************************************************)
EXTENDS SieveParser, FiniteSets

\* subtests: none, one, or a list; needs: the extension that brings the command
Def(type, args, subtests, block, needs) == [type |-> type, args |-> args, subtests |-> subtests, block |-> block, needs |-> needs]
core_commands ==
  [if      |-> Def("command", 0, 1, TRUE, ""),  elsif |-> Def("command", 0, 1, TRUE, ""),
   else    |-> Def("command", 0, 0, TRUE, ""),  stop  |-> Def("command", 0, 0, FALSE, ""),
   require |-> Def("command", 1, 0, FALSE, ""), anyof |-> Def("test", 0, 2, FALSE, ""),
   exists  |-> Def("test", 1, 0, FALSE, ""),    false |-> Def("test", 0, 0, FALSE, ""),
   set     |-> Def("command", 1, 0, FALSE, "string")]
V0 == [failed |-> FALSE, errs |-> 0, unknown |-> {}, finished |-> FALSE, loaded |-> {}]
sieve_validator_find_command_registration(v, id) ==
  id \in DOMAIN core_commands /\ (core_commands[id].needs = "" \/ core_commands[id].needs \in v.loaded)
sieve_validator_error(v) == [v EXCEPT !.errs = @ + 1]
More(v) == MaxErrors = 0 \/ v.errs < MaxErrors

\* An unknown command is reported once.
sieve_validate_command_context(v, node, type) ==
  LET known == sieve_validator_find_command_registration(v, node.id)
  IN CASE ~known /\ node.id \in v.unknown -> [v |-> v, ok |-> FALSE]
       [] ~known /\ node.id \notin v.unknown ->
            [v |-> [sieve_validator_error(v) EXCEPT !.unknown = @ \cup {node.id}], ok |-> FALSE]
       [] known /\ core_commands[node.id].type # type -> [v |-> sieve_validator_error(v), ok |-> FALSE]
       [] OTHER -> [v |-> v, ok |-> TRUE]

sieve_validate_command_arguments(node)  == Len(node.args) = core_commands[node.id].args
sieve_validate_command_subtests(node) ==
  CASE core_commands[node.id].subtests = 0 -> node.tests = <<>>
    [] core_commands[node.id].subtests = 1 -> Len(node.tests) = 1 /\ ~node.list
    [] OTHER -> node.tests # <<>> /\ node.list
sieve_validate_command_block(node) == node.block = core_commands[node.id].block

(***************************************************************************)
(* What the commands check themselves.  Loading an extension registers its *)
(* commands at once.                                                       *)
(***************************************************************************)
sieve_validator_extension_load(v, ext) == [v EXCEPT !.loaded = @ \cup {ext}]
cmd_require_validate(v, node, prev, top) ==
  IF ~top \/ (prev # "" /\ prev # "require") THEN [v |-> sieve_validator_error(v), ok |-> FALSE]
  ELSE IF node.args[1] = "string" THEN [v |-> sieve_validator_extension_load(v, "string"), ok |-> TRUE]
  ELSE [v |-> sieve_validator_error(v), ok |-> FALSE]
cmd_elsif_validate(v, prev) ==
  IF prev \in {"if", "elsif"} THEN [v |-> v, ok |-> TRUE] ELSE [v |-> sieve_validator_error(v), ok |-> FALSE]
validate(v, node, prev, top) ==
  CASE node.id = "require" -> cmd_require_validate(v, node, prev, top)
    [] node.id \in {"elsif", "else"} -> cmd_elsif_validate(v, prev)
    [] OTHER -> [v |-> v, ok |-> TRUE]

(***************************************************************************)
(* Descending into the tree.  A command whose context is wrong has no      *)
(* definition, and its tests and block are not looked at.                  *)
(***************************************************************************)
RECURSIVE sieve_validate_command(_, _, _, _, _), sieve_validate_test_list(_, _, _), sieve_validate_block(_, _, _, _)
Checked(v, node, prev, top) ==
  LET subtests == sieve_validate_command_subtests(node)
  IN CASE ~sieve_validate_command_arguments(node) ->
            [v |-> IF subtests THEN sieve_validator_error(v) ELSE sieve_validator_error(sieve_validator_error(v)), ok |-> FALSE]
       [] sieve_validate_command_arguments(node)
            /\ (~subtests \/ (core_commands[node.id].type = "command" /\ ~sieve_validate_command_block(node))) ->
            [v |-> sieve_validator_error(v), ok |-> FALSE]
       [] OTHER -> validate(v, node, prev, top)
Fail(r) == IF r.ok THEN r ELSE [r EXCEPT !.v.failed = TRUE]
\* Never: the test is constant FALSE, and the block is left alone
sieve_validate_command(v, node, prev, top, ok) ==
  IF ~ok THEN [v |-> v, ok |-> TRUE]
  ELSE LET c == Fail(Checked(v, node, prev, top))
           d == core_commands[node.id]
           t == IF d.subtests > 0 /\ (c.ok \/ More(c.v)) THEN sieve_validate_test_list(c.v, node.tests, TRUE) ELSE [v |-> c.v, ok |-> TRUE]
           r == [v |-> t.v, ok |-> c.ok /\ t.ok]
           never == r.ok /\ Len(node.tests) = 1 /\ ~node.list /\ node.tests[1].id = "false"
           b == sieve_validate_block(r.v, node.body, FALSE, [ok |-> TRUE, prev |-> "", already |-> r.v.failed])
       IN IF never \/ ~d.block \/ d.type # "command" \/ ~(r.ok \/ More(r.v)) THEN r
          ELSE [v |-> b.v, ok |-> b.ok /\ r.ok]
sieve_validate_test_list(v, tests, ok) ==
  IF tests = <<>> \/ ~(ok \/ More(v)) THEN [v |-> v, ok |-> ok]
  ELSE LET c == sieve_validate_command_context(v, Head(tests), "test")
           t == IF c.ok THEN sieve_validate_command(c.v, Head(tests), "", FALSE, TRUE) ELSE c
           r == Fail([v |-> t.v, ok |-> t.ok /\ ok])
       IN sieve_validate_test_list(r.v, Tail(tests), r.ok)
sieve_validate_block(v, cmds, top, s) ==
  IF cmds = <<>> \/ ~(s.ok \/ More(v)) THEN [v |-> v, ok |-> s.ok]
  ELSE LET c == sieve_validate_command_context(v, Head(cmds), "command")
           f == Fail([v |-> c.v, ok |-> c.ok /\ s.ok])
           r == sieve_validate_command(f.v, Head(cmds), s.prev, top, c.ok)
       IN sieve_validate_block(r.v, Tail(cmds), top, [s EXCEPT !.ok = r.ok /\ f.ok, !.prev = IF c.ok THEN Head(cmds).id ELSE "none"])
sieve_validator_run(ast) == sieve_validate_block(V0, ast, TRUE, [ok |-> TRUE, prev |-> "", already |-> FALSE])

(***************************************************************************)
(* The rules, one by one, for a tree                                       *)
(***************************************************************************)
RECURSIVE TestRules(_, _), BlockRules(_, _, _)
Known(id, ext) == id \in DOMAIN core_commands /\ (core_commands[id].needs = "" \/ ext)
Shape(n, type, ext) ==
  /\ Known(n.id, ext) /\ core_commands[n.id].type = type /\ Len(n.args) = core_commands[n.id].args
  /\ core_commands[n.id].subtests = (IF n.list THEN 2 ELSE Len(n.tests))
TestRules(n, ext) == Shape(n, "test", ext) /\ \A i \in 1..Len(n.tests) : TestRules(n.tests[i], ext)
Dead(n) == n.id \in {"if", "elsif"} /\ n.tests[1].id = "false"
BlockRules(b, top, ext) ==
  \A i \in 1..Len(b) :
    LET requires == {j \in 1..i - 1 : b[j].id = "require"}
        e == ext \/ (top /\ requires # {})
    IN /\ Shape(b[i], "command", e) /\ b[i].block = core_commands[b[i].id].block
       /\ b[i].id = "require" => top /\ Cardinality(requires) = i - 1 /\ b[i].args = <<"string">>
       /\ b[i].id \in {"elsif", "else"} => i > 1 /\ b[i - 1].id \in {"if", "elsif"}
       /\ \A j \in 1..Len(b[i].tests) : TestRules(b[i].tests[j], e)
       /\ b[i].block /\ ~Dead(b[i]) => BlockRules(b[i].body, FALSE, e)
Obeys(ast) == BlockRules(ast, TRUE, FALSE)
===============================================================================
