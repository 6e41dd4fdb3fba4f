------------------------------ MODULE SieveParser -----------------------------
(***************************************************************************)
(* The parser: tokens to a tree, with recovery after errors.               *)
(* Sources: sieve-parser.c, sieve-ast.c.                                   *)
(*                                                                         *)
(* A parse is a record: toks (only their types), pos, valid, errs (errors  *)
(* reported), res (the result of the last operator: 1, or 0 where it gave  *)
(* up, -1 where parsing ends) and out (what it has built).                 *)
(***************************************************************************)
EXTENDS Integers, Sequences

CONSTANTS MaxBlockNesting, MaxTestNesting, MaxArguments,  \* SIEVE_MAX_*
          MaxErrors,                                      \* of the error handler; 0: no limit
          Identifiers                                     \* words; a token is its type, an identifier itself

STT(p)  == p.toks[p.pos]
sieve_lexer_skip(p) == [p EXCEPT !.pos = IF @ < Len(p.toks) THEN @ + 1 ELSE @]
\* An error token has been reported by the lexer.
sieve_parser_error(p) == [p EXCEPT !.valid = FALSE, !.errs = IF STT(p) = "error" THEN @ ELSE @ + 1]
sieve_errors_more_allowed(p) == MaxErrors = 0 \/ p.errs < MaxErrors
GivesUp(p) == ~p.valid /\ ~sieve_errors_more_allowed(p)
Ret(p, r) == [p EXCEPT !.res = r]

\* AST nodes: a string list is its length, a number, string or tag its type
sieve_ast_node_create == [id |-> "", args |-> <<>>, tests |-> <<>>, list |-> FALSE, block |-> FALSE, body |-> <<>>]
Named(p, id) == [p EXCEPT !.out.id = id]
Make(p, out) == [p EXCEPT !.out = out]

(***************************************************************************)
(* Recovery: skip to the end of what was being parsed, or to a token that  *)
(* ends something around it.                                               *)
(***************************************************************************)
get_token_priority(t) ==
  CASE t \in {"{", "}"} -> 3 [] t = ";" -> 2 [] t \in {"(", ")"} -> 1 [] t \in {"[", "]"} -> 0 [] OTHER -> -1
BeginOf(end) == CASE end = "}" -> "{" [] end = ")" -> "(" [] end = "]" -> "[" [] OTHER -> "none"
RECURSIVE Recover(_, _, _)
Recover(p, end, nesting) ==
  CASE STT(p) = "eof" \/ get_token_priority(STT(p)) > get_token_priority(end) ->
         Ret(p, IF end = ";" /\ STT(p) = "{" THEN 1 ELSE 0)
    [] STT(p) = BeginOf(end) -> Recover(sieve_lexer_skip(p), end, nesting + 1)
    [] STT(p) = end /\ nesting = 1 -> Ret(p, 1)
    [] STT(p) = end /\ nesting > 1 -> Recover(sieve_lexer_skip(p), end, nesting - 1)
    [] OTHER -> Recover(sieve_lexer_skip(p), end, nesting)
sieve_parser_recover(p, end) == Recover(p, end, 1)
RecoverAndSkip(p, end) == LET r == sieve_parser_recover(p, end) IN IF r.res > 0 THEN sieve_lexer_skip(r) ELSE r

(***************************************************************************)
(* String lists                                                            *)
(***************************************************************************)
RECURSIVE Items(_, _)
Items(p, n) ==
  IF STT(p) # "," THEN Make(Ret(p, 1), n)
  ELSE LET q == sieve_lexer_skip(p)
       IN CASE GivesUp(q) -> Make(sieve_parser_recover(q, "]"), n)
            [] ~GivesUp(q) /\ STT(q) = "string" -> Items(sieve_lexer_skip(q), n + 1)
            [] OTHER -> Make(sieve_parser_recover(sieve_parser_error(q), "]"), n)
sieve_ast_argument_stringlist_create(p) ==
  LET q == sieve_lexer_skip(p)
      r == IF STT(q) = "string" THEN Items(sieve_lexer_skip(q), 1)
           ELSE Make(sieve_parser_recover(sieve_parser_error(q), "]"), 0)
  IN IF STT(r) = "]" THEN sieve_lexer_skip(r)
     ELSE RecoverAndSkip(sieve_parser_error(r), "]")

(***************************************************************************)
(* Arguments and tests of a command or test                                *)
(***************************************************************************)
RECURSIVE Arguments(_, _), sieve_parse_arguments(_, _), TestList(_, _, _)
\* Mutant: the limit is checked before the argument is added.
ArgumentsLoose(p, args) ==
  CASE GivesUp(p) -> Make(Ret(p, 0), args)
    [] ~GivesUp(p) /\ Len(args) > MaxArguments + 1 -> Make(Ret(sieve_parser_error(p), 0), args)
    [] ~GivesUp(p) /\ Len(args) <= MaxArguments + 1 /\ STT(p) = "[" ->
         LET q == sieve_ast_argument_stringlist_create(p)
         IN IF q.res <= 0 THEN Make(q, Append(args, q.out)) ELSE Arguments(q, Append(args, q.out))
    [] ~GivesUp(p) /\ Len(args) <= MaxArguments + 1 /\ STT(p) \in {"string", "number", "tag"} ->
         Arguments(sieve_lexer_skip(p), Append(args, STT(p)))
    [] OTHER -> Make(Ret(p, 1), args)
Arguments(p, args) ==
  CASE Len(args) > MaxArguments -> Make(Ret(sieve_parser_error(p), 0), args)
    [] Len(args) <= MaxArguments /\ GivesUp(p) -> Make(Ret(p, 0), args)
    [] Len(args) <= MaxArguments /\ ~GivesUp(p) /\ STT(p) = "[" ->
         LET q == sieve_ast_argument_stringlist_create(p)
         IN IF q.res <= 0 /\ Len(args) < MaxArguments THEN Make(q, Append(args, q.out)) ELSE Arguments(q, Append(args, q.out))
    [] Len(args) <= MaxArguments /\ ~GivesUp(p) /\ STT(p) \in {"string", "number", "tag"} ->
         Arguments(sieve_lexer_skip(p), Append(args, STT(p)))
    [] OTHER -> Make(Ret(p, 1), args)

\* After a test of a list: the other ones, the end of the list.
TestList(p, tests, depth) ==
  IF STT(p) # "," THEN Make(Ret(p, 1), tests)
  ELSE LET q == sieve_lexer_skip(p)
           t == Named(sieve_parse_arguments(sieve_lexer_skip(q), depth + 1), STT(q))
       IN CASE GivesUp(q) -> Make(sieve_parser_recover(q, ")"), tests)
            [] ~GivesUp(q) /\ STT(q) \notin Identifiers -> Make(sieve_parser_recover(sieve_parser_error(q), ")"), tests)
            [] ~GivesUp(q) /\ STT(q) \in Identifiers /\ t.res <= 0 ->
                 Make(IF t.res < 0 THEN t ELSE sieve_parser_recover(t, ")"), tests)
            [] OTHER -> TestList(t, Append(tests, t.out), depth)
EndTestList(p) ==
  IF p.res < 0 THEN p ELSE IF STT(p) = ")" THEN sieve_lexer_skip(p) ELSE RecoverAndSkip(sieve_parser_error(p), ")")
Tests(p, depth) ==
  LET q == sieve_lexer_skip(p)
      t == Named(sieve_parse_arguments(sieve_lexer_skip(q), depth + 1), STT(q))
  IN CASE depth + 1 > MaxTestNesting -> Make(RecoverAndSkip(sieve_parser_error(q), ")"), <<>>)
       [] depth + 1 <= MaxTestNesting /\ STT(q) \notin Identifiers ->
            \* no test was made, which is taken for a failure to make one
            Ret(sieve_parser_error(EndTestList(Make(sieve_parser_recover(sieve_parser_error(q), ")"), <<>>))), -1)
       [] depth + 1 <= MaxTestNesting /\ STT(q) \in Identifiers /\ t.res <= 0 ->
            EndTestList(Make(IF t.res < 0 THEN t ELSE sieve_parser_recover(t, ")"), <<>>))
       [] OTHER -> EndTestList(TestList(t, <<t.out>>, depth))
sieve_parse_arguments(p, depth) ==
  LET a == Arguments(p, <<>>)
      n == [sieve_ast_node_create EXCEPT !.args = a.out]
      t == Named(sieve_parse_arguments(sieve_lexer_skip(a), depth + 1), STT(a))
      l == Tests(a, depth)
  IN CASE a.res <= 0 -> Make(a, n)
       [] a.res > 0 /\ STT(a) \in Identifiers ->
            IF depth + 1 > MaxTestNesting THEN Make(Ret(sieve_parser_error(a), 0), n)
            ELSE Make(Ret(t, IF t.res <= 0 THEN 0 ELSE 1), [n EXCEPT !.tests = <<t.out>>])
       [] a.res > 0 /\ STT(a) = "(" -> Make(l, [n EXCEPT !.tests = l.out, !.list = TRUE])
       [] OTHER -> Make(a, n)

(***************************************************************************)
(* Commands and blocks                                                     *)
(***************************************************************************)
RECURSIVE sieve_parse_commands(_, _, _)
Block(p, depth) ==
  LET q == sieve_lexer_skip(p)
      b == sieve_parse_commands(q, depth + 1, <<>>)
  IN CASE depth + 1 > MaxBlockNesting -> Make(RecoverAndSkip(sieve_parser_error(q), "}"), <<>>)
       [] depth + 1 <= MaxBlockNesting /\ b.res > 0 ->
            IF STT(b) # "}" THEN sieve_parser_recover(sieve_parser_error(b), "}") ELSE sieve_lexer_skip(b)
       [] OTHER -> IF b.res < 0 THEN b ELSE RecoverAndSkip(b, "}")
sieve_parse_commands(p, depth, done) ==
  IF p.res <= 0 \/ STT(p) \notin Identifiers THEN Make(p, done)
  ELSE IF GivesUp(p) THEN Make(sieve_parser_recover(p, ";"), done)
  ELSE LET a == Named(sieve_parse_arguments(sieve_lexer_skip(p), 1), STT(p))
           e == IF a.res > 0 /\ STT(a) \notin {";", "{"} THEN Ret(sieve_parser_error(a), 0) ELSE a
           r == IF e.res = 0 THEN sieve_parser_recover(e, ";") ELSE e
           n == a.out
           b == Block(r, depth)
       IN CASE r.res <= 0 -> Make(r, Append(done, n))
            [] r.res > 0 /\ STT(r) = ";" -> sieve_parse_commands(sieve_lexer_skip(r), depth, Append(done, n))
            [] r.res > 0 /\ STT(r) = "{" -> sieve_parse_commands(b, depth, Append(done, [n EXCEPT !.block = TRUE, !.body = b.out]))

\* valid, and errors reported; nothing of an invalid script is kept
sieve_parser_run(toks) ==
  LET p == sieve_parse_commands([toks |-> toks, pos |-> 1, valid |-> TRUE, errs |-> 0, res |-> 1, out |-> <<>>], 1, <<>>)
      q == IF p.res > 0 /\ p.valid /\ STT(p) # "eof" THEN sieve_parser_error(p) ELSE p
      ok == q.res > 0 /\ q.valid
  IN [valid |-> ok, errs |-> q.errs, ast |-> IF ok THEN q.out ELSE <<>>]

(***************************************************************************)
(* The grammar of RFC 5228, section 8.2, with the limits of the            *)
(* implementation.  Each operator says that the tokens from i up to, and   *)
(* without, j are of that kind.                                            *)
(***************************************************************************)
RECURSIVE IsCommands(_, _, _, _), IsArguments(_, _, _, _, _), IsTests(_, _, _, _), IsStrings(_, _, _)
IsStrings(t, i, j) == i < j /\ t[i] = "string" /\ (j = i + 1 \/ (j > i + 2 /\ t[i + 1] = "," /\ IsStrings(t, i + 2, j)))
IsList(t, i, j)    == j > i + 2 /\ t[i] = "[" /\ t[j - 1] = "]" /\ IsStrings(t, i + 1, j - 1)
IsTest(t, i, j, d) == i < j /\ t[i] \in Identifiers /\ d <= MaxTestNesting /\ IsArguments(t, i + 1, j, 0, d)
IsTests(t, i, j, d) ==
  IsTest(t, i, j, d) \/ \E k \in i + 1..j - 1 : t[k] = "," /\ IsTest(t, i, k, d) /\ IsTests(t, k + 1, j, d)
IsArguments(t, i, j, n, d) ==
  \/ i = j
  \/ i < j /\ n < MaxArguments /\ t[i] \in {"string", "number", "tag"} /\ IsArguments(t, i + 1, j, n + 1, d)
  \/ n < MaxArguments /\ \E k \in i + 1..j : IsList(t, i, k) /\ IsArguments(t, k, j, n + 1, d)
  \/ IsTest(t, i, j, d + 1)
  \/ i < j - 1 /\ t[i] = "(" /\ t[j - 1] = ")" /\ IsTests(t, i + 1, j - 1, d + 1)
IsCommand(t, i, j, d) ==
  /\ i < j - 1 /\ t[i] \in Identifiers
  /\ \E k \in i + 1..j - 1 :
       /\ IsArguments(t, i + 1, k, 0, 1)
       /\ \/ t[k] = ";" /\ j = k + 1
          \/ t[k] = "{" /\ k < j - 1 /\ t[j - 1] = "}" /\ d < MaxBlockNesting /\ IsCommands(t, k + 1, j - 1, d + 1)
IsCommands(t, i, j, d) == i = j \/ \E k \in i + 1..j : IsCommand(t, i, k, d) /\ IsCommands(t, k, j, d)
IsScript(t) == IsCommands(t, 1, Len(t), 1)          \* the last token is the end of the file
===============================================================================
