----------------------------- MODULE SieveStrings -----------------------------
(***************************************************************************)
(* Substitutions in string arguments, and the variables they refer to.     *)
(* Sources: ext-encoded-character.c, plugins/variables.                    *)
(*                                                                         *)
(* A string is a sequence of characters; "hex" and "unicode" are the words *)
(* with which an encoding starts, "24" and "7b" hexadecimal numbers (of    *)
(* "$" and "{"), "d800" a number that is no character, "1" and "99"        *)
(* decimal ones.  The numbers of an encoding stand only behind its colon.  *)
(***************************************************************************)
EXTENDS Integers, Sequences, FiniteSets

CONSTANTS MaxNameLen,       \* EXT_VARIABLES_MAX_VARIABLE_NAME_LEN
          MaxElements,      \* EXT_VARIABLES_MAX_NAMESPACE_ELEMENTS
          MaxIndex,         \* EXT_VARIABLES_MAX_MATCH_INDEX
          MaxScopeCount,    \* sieve_variables_max_scope_count
          MaxValueSize      \* sieve_variables_max_variable_size

Letter == {"a", "A", "b", "u"}
Words  == {"hex", "unicode"}
\* Any beginning of a word stands for it, the empty one for the first
Encoding(w) == CASE w = ":" -> "hex" [] w = "u" -> "unicode" [] OTHER -> w
Hex    == {"24", "7b", "d800"}
Decimal == [x \in {"1", "99"} |-> IF x = "1" THEN 1 ELSE 99]
At(s, p) == IF p > Len(s) THEN "end" ELSE s[p]

(***************************************************************************)
(* Encoded characters: ${hex:24 7b} and ${unicode:24 7b}.                  *)
(***************************************************************************)
RECURSIVE Skip(_, _), Digits(_, _), Decode(_, _, _), Encoded(_, _)
Skip(s, p)   == IF At(s, p) = " " THEN Skip(s, p + 1) ELSE p
Digits(s, p) == IF At(s, p) \in Hex THEN Digits(s, p + 1) ELSE p
\* The character of a run of digits, or none
Bad == "bad"
UCS4(run) == CASE run = <<"24">> -> "$" [] run = <<"7b">> -> "{" [] Len(run) = 2 /\ "d800" \notin {run[1], run[2]} -> "other" [] OTHER -> Bad
\* _decode_hex and _decode_unicode.  r: p (position), out (characters), n (how many), bad (error_hex)
Decode(s, r, type) ==
  LET p == Skip(s, r.p)
      q == Digits(s, p)
      c == UCS4(SubSeq(s, p, q - 1))
  IN IF r.p > Len(s) \/ q = p \/ (type = "hex" /\ (q > p + 1 \/ s[p] = "d800"))
     THEN [r EXCEPT !.p = p]                              \* two digits at most in hex
     ELSE Decode(s, [p |-> q, n |-> r.n + 1, bad |-> r.bad \/ c = Bad, out |-> IF c = Bad THEN r.out ELSE Append(r.out, c)], type)
\* e: p, str, bad, from (start of the text not yet copied), ok.  The error of a text that turns out to be
\* no substitution is kept.
Encoded(s, e) ==
  LET open  == At(s, e.p) = "$" /\ At(s, e.p + 1) = "{"
      colon == IF At(s, e.p + 2) \in Letter \cup Words THEN e.p + 3 ELSE e.p + 2
      type  == Encoding(At(s, e.p + 2))
      d     == Decode(s, [p |-> colon + 1, out |-> <<>>, n |-> 0, bad |-> FALSE], type)
      bad   == e.bad \/ d.bad
  IN IF e.p > Len(s) THEN [e EXCEPT !.str = @ \o SubSeq(s, e.from, Len(s))]
     ELSE IF ~open THEN Encoded(s, [e EXCEPT !.p = @ + 1])
     ELSE IF At(s, colon) # ":" THEN Encoded(s, [e EXCEPT !.p = colon])
     ELSE IF type \notin Words THEN Encoded(s, [e EXCEPT !.p = colon + 1])
     ELSE IF d.n = 0 \/ At(s, d.p) # "}" THEN Encoded(s, [e EXCEPT !.p = d.p, !.bad = bad])
     ELSE IF bad THEN [e EXCEPT !.ok = FALSE, !.bad = TRUE]
     ELSE Encoded(s, [e EXCEPT !.p = d.p + 1, !.str = @ \o SubSeq(s, e.from, e.p - 1) \o d.out, !.from = d.p + 1])
arg_encoded_string_validate(s) == Encoded(s, [p |-> 1, str |-> <<>>, bad |-> FALSE, from |-> 1, ok |-> TRUE])

(***************************************************************************)
(* Variable names.  n: -1, or the number of elements; p: where the scan    *)
(* goes on; id: identifier or number of the first element.                 *)
(***************************************************************************)
RECURSIVE Ident(_, _), Name(_, _, _)
Ident(s, p) == IF At(s, p) \in Letter \cup DOMAIN Decimal \cup Words THEN Ident(s, p + 1) ELSE p
Name(s, p, v) ==
  LET e == Ident(s, p)
      q == IF At(s, p) \in Letter \cup Words THEN e ELSE p + 1
      w == IF v.n = 0 THEN SubSeq(s, p, q - 1) ELSE v.id
  IN CASE v.n >= MaxElements \/ p > Len(s) \/ (At(s, p) \in Letter \cup Words /\ e - p > MaxNameLen) -> [v EXCEPT !.n = -1]
       [] v.n < MaxElements /\ p <= Len(s) /\ At(s, p) \notin Letter \cup Words \cup DOMAIN Decimal -> [v EXCEPT !.n = -1, !.p = p]
       [] v.n = 0 /\ MaxElements > 0 /\ At(s, p) \in DOMAIN Decimal -> [n |-> 1, p |-> q, id |-> w]
       [] OTHER -> IF At(s, q) = "." THEN Name(s, q + 1, [v EXCEPT !.n = @ + 1, !.id = w])
                   ELSE [n |-> v.n + 1, p |-> q, id |-> w]
ext_variable_name_parse(s, p) == Name(s, p, [n |-> 0, p |-> p, id |-> <<>>])

(***************************************************************************)
(* The scope: variables in the order of their declaration.  The one that   *)
(* exceeds the limit is reported; all further ones are the first variable. *)
(***************************************************************************)
Fold(id) == [i \in DOMAIN id |-> IF id[i] = "A" THEN "a" ELSE id[i]]      \* strcase_hash
Scope0 == [vars |-> <<>>, error_var |-> FALSE]
NoVariable == 0
IndexOf(vars, id) == CHOOSE i \in DOMAIN vars : vars[i] = Fold(id)
sieve_variable_scope_declare(scope, id) ==
  LET known == \E i \in DOMAIN scope.vars : scope.vars[i] = Fold(id)
      full  == Len(scope.vars) >= MaxScopeCount
  IN CASE known -> [scope |-> scope, index |-> IndexOf(scope.vars, id)]
       [] ~known /\ full /\ ~scope.error_var -> [scope |-> [scope EXCEPT !.error_var = TRUE], index |-> NoVariable]
       [] ~known /\ full /\ scope.error_var -> [scope |-> scope, index |-> 1]
       [] OTHER -> [scope |-> [scope EXCEPT !.vars = Append(@, Fold(id))], index |-> Len(scope.vars) + 1]

\* Elements of a catenated string: a literal, a variable by its index, a match value.
Literal(t) == IF t = <<>> THEN <<>> ELSE <<[kind |-> "literal", text |-> t, index |-> 0]>>
Element(kind, index) == <<[kind |-> kind, text |-> <<>>, index |-> index]>>
\* c: p, from, scope, errs, elems.  A reference that cannot be activated is reported and left out.
Substitution(c, v) ==
  LET d == sieve_variable_scope_declare(c.scope, v.id)
  IN CASE v.n = 1 /\ v.id[1] \in DOMAIN Decimal ->
            IF Decimal[v.id[1]] > MaxIndex THEN [c EXCEPT !.errs = @ + 1]
            ELSE [c EXCEPT !.elems = @ \o Element("match", Decimal[v.id[1]])]
       [] v.n = 1 /\ v.id[1] \notin DOMAIN Decimal ->
            IF d.index = NoVariable THEN [c EXCEPT !.scope = d.scope, !.errs = @ + 1]
            ELSE [c EXCEPT !.scope = d.scope, !.elems = @ \o Element("variable", d.index)]
       [] OTHER -> [c EXCEPT !.errs = @ + 1]                  \* an unknown namespace
RECURSIVE Catenated(_, _)
Catenated(s, c) ==
  LET open  == At(s, c.p) = "$" /\ At(s, c.p + 1) = "{"
      v     == ext_variable_name_parse(s, c.p + 2)
      lit   == [c EXCEPT !.elems = @ \o Literal(SubSeq(s, c.from, c.p - 1))]
  IN CASE c.p > Len(s) -> [c EXCEPT !.elems = @ \o Literal(SubSeq(s, c.from, Len(s)))]
       [] c.p <= Len(s) /\ ~open -> Catenated(s, [c EXCEPT !.p = @ + 1])
       [] open /\ v.n > 0 /\ At(s, v.p) = "}" -> Catenated(s, [Substitution(lit, v) EXCEPT !.p = v.p + 1, !.from = v.p + 1])
       [] OTHER -> Catenated(s, [c EXCEPT !.p = v.p])
arg_variable_string_validate(s, scope) ==
  Catenated(s, [p |-> 1, from |-> 1, scope |-> scope, errs |-> 0, elems |-> <<>>])

\* sieve_validator_argument_activate: encoded characters first, whatever was required first
\* Mutant: variables first, and encoded characters in what they leave.
VariablesFirst(s, scope) ==
  LET c == arg_variable_string_validate(s, scope)
  IN [ok |-> TRUE, errs |-> c.errs, scope |-> c.scope,
      elems |-> [i \in DOMAIN c.elems |-> IF c.elems[i].kind = "literal"
                                          THEN [c.elems[i] EXCEPT !.text = arg_encoded_string_validate(@).str] ELSE c.elems[i]]]
sieve_validator_argument_activate(s, scope) ==
  LET e == arg_encoded_string_validate(s)
      c == arg_variable_string_validate(e.str, scope)
  IN IF ~e.ok THEN [ok |-> FALSE, errs |-> 1, scope |-> scope, elems |-> <<>>]
     ELSE [ok |-> TRUE, errs |-> c.errs, scope |-> c.scope, elems |-> c.elems]

(***************************************************************************)
(* Modifiers, in the order of their precedence                             *)
(***************************************************************************)
precedence == [lower |-> 40, upper |-> 40, lowerfirst |-> 30, upperfirst |-> 30, quotewildcard |-> 20, length |-> 10]
Modifiers == DOMAIN precedence
Insert(mods, m) ==
  LET low == {i \in DOMAIN mods : precedence[mods[i]] < precedence[m]}
      at  == IF low = {} THEN Len(mods) + 1 ELSE CHOOSE i \in low : \A j \in low : i <= j
  IN SubSeq(mods, 1, at - 1) \o <<m>> \o SubSeq(mods, at, Len(mods))
RECURSIVE Inserted(_, _)
Conflict == <<"conflict">>
Inserted(tags, mods) ==
  IF tags = <<>> THEN mods
  ELSE IF \E i \in DOMAIN mods : precedence[mods[i]] = precedence[Head(tags)] THEN Conflict
  ELSE Inserted(Tail(tags), Insert(mods, Head(tags)))
sieve_variables_modifiers_validate(tags) == Inserted(tags, <<>>)

\* The interpreter refuses code in which they are not sorted.
sieve_variables_modifiers_code_read(mods) == \A i \in 1..Len(mods) - 1 : precedence[mods[i + 1]] < precedence[mods[i]]

Truncate(v) == IF Len(v) > MaxValueSize THEN SubSeq(v, 1, MaxValueSize) ELSE v
Upper(c) == IF c = "a" THEN "A" ELSE c
Lower(c) == IF c = "A" THEN "a" ELSE c
Wild(c)  == IF c = "*" THEN <<"\\", "*">> ELSE <<c>>
RECURSIVE Quote(_, _)
Quote(v, out) == IF v = <<>> \/ Len(out) + Len(Wild(Head(v))) > MaxValueSize THEN out ELSE Quote(Tail(v), out \o Wild(Head(v)))
modify(m, v) ==
  CASE m = "upper"         -> [i \in DOMAIN v |-> Upper(v[i])]
    [] m = "lower"         -> [i \in DOMAIN v |-> Lower(v[i])]
    [] m = "upperfirst"    -> [i \in DOMAIN v |-> IF i = 1 THEN Upper(v[i]) ELSE v[i]]
    [] m = "lowerfirst"    -> [i \in DOMAIN v |-> IF i = 1 THEN Lower(v[i]) ELSE v[i]]
    [] m = "quotewildcard" -> Quote(v, <<>>)
    [] m = "length"        -> <<(<<"0", "1", "2", "3", "4", "5", "6", "7", "8", "9">>)[Len(v) + 1]>>   \* one digit
RECURSIVE Apply(_, _)
Apply(mods, v) == IF mods = <<>> THEN v ELSE Apply(Tail(mods), Truncate(modify(Head(mods), v)))
sieve_variables_modifiers_apply(mods, v) == Apply(mods, Truncate(v))

(***************************************************************************)
(* A script of set commands: compiled, then executed.                      *)
(* A command: name, value (a string), both sequences of characters.        *)
(***************************************************************************)
RECURSIVE Compile(_, _), Execute(_, _), opr_catenated_string_read(_, _)
sieve_variable_argument_activate(name, scope) ==
  LET v == ext_variable_name_parse(name, 1)
      d == sieve_variable_scope_declare(scope, v.id)
  IN IF v.n # 1 \/ v.p <= Len(name) \/ v.id[1] \in DOMAIN Decimal \/ d.index = NoVariable
     THEN [ok |-> FALSE, scope |-> IF v.n = 1 /\ v.p > Len(name) /\ v.id[1] \notin DOMAIN Decimal THEN d.scope ELSE scope, index |-> 0]
     ELSE [ok |-> TRUE, scope |-> d.scope, index |-> d.index]
cmd_set_validate(c, cmd) ==
  LET n == sieve_variable_argument_activate(cmd.name, c.scope)
      s == sieve_validator_argument_activate(cmd.value, n.scope)
  IN IF ~n.ok THEN [c EXCEPT !.ok = FALSE, !.errs = @ + 1, !.scope = n.scope]
     ELSE [ok |-> c.ok /\ s.ok, errs |-> c.errs + s.errs, scope |-> s.scope,
           code |-> Append(c.code, [index |-> n.index, elems |-> s.elems])]
Compile(cmds, c) == IF cmds = <<>> THEN c ELSE Compile(Tail(cmds), cmd_set_validate(c, Head(cmds)))
sieve_compile_script(cmds) == Compile(cmds, [ok |-> TRUE, errs |-> 0, scope |-> Scope0, code |-> <<>>])

\* A variable that was never assigned is empty.
sieve_variable_get(storage, index) == storage[index]
sieve_variable_assign(storage, index, v) == [storage EXCEPT ![index] = Truncate(v)]
opr_catenated_string_read(elems, storage) ==
  IF elems = <<>> THEN <<>>
  ELSE LET e == Head(elems)
       IN (CASE e.kind = "literal" -> e.text [] e.kind = "variable" -> sieve_variable_get(storage, e.index) [] OTHER -> <<>>)
          \o opr_catenated_string_read(Tail(elems), storage)
cmd_set_operation_execute(storage, op) ==
  sieve_variable_assign(storage, op.index, sieve_variables_modifiers_apply(<<>>, opr_catenated_string_read(op.elems, storage)))
Execute(code, storage) == IF code = <<>> THEN storage ELSE Execute(Tail(code), cmd_set_operation_execute(storage, Head(code)))
sieve_variable_storage_create(n) == [i \in 1..n |-> <<>>]

(***************************************************************************)
(* What the strings mean.  Decoded: the string with its encoded characters *)
(* replaced, the leftmost first.  Value: the string in an environment.     *)
(***************************************************************************)
RECURSIVE Decoded(_), Value(_, _), Assigned(_, _)
\* A substitution of n characters at the start of s: numbers, apart, and blanks
IsEncoding(s, n) ==
  /\ n > 4 /\ n <= Len(s) /\ SubSeq(s, 1, 2) = <<"$", "{">> /\ s[n] = "}"
  /\ LET t == Encoding(s[3])
         c == IF s[3] = ":" THEN 3 ELSE 4
     IN /\ t \in Words /\ s[c] = ":"
        /\ \A i \in c + 1..n - 1 : s[i] \in Hex \cup {" "} /\ (t = "hex" /\ s[i] \in Hex => s[i + 1] \notin Hex /\ s[i] # "d800")
        /\ \E i \in c + 1..n - 1 : s[i] \in Hex
Starts(s) == {i \in 4..Len(s) : s[i] \in Hex /\ s[i - 1] \notin Hex}
Characters(s) ==
  LET run(i) == SubSeq(s, i, (CHOOSE j \in i..Len(s) : s[j + 1] \notin Hex /\ \A k \in i..j : s[k] \in Hex))
      nth(k) == CHOOSE i \in Starts(s) : Cardinality({j \in Starts(s) : j <= i}) = k
  IN [k \in 1..Cardinality(Starts(s)) |-> UCS4(run(nth(k)))]
\* Some substitution of the string has a number that is no character.
IsBad(s) == \E i \in DOMAIN s : \E n \in 1..Len(s) - i + 1 :
               LET t == SubSeq(s, i, i + n - 1) IN IsEncoding(t, n) /\ \E k \in DOMAIN Characters(t) : Characters(t)[k] = Bad
Decoded(s) ==
  LET ns == {n \in 1..Len(s) : IsEncoding(s, n)}
  IN CASE s = <<>> -> <<>>
       [] s # <<>> /\ ns # {} -> LET n == CHOOSE x \in ns : TRUE IN Characters(SubSeq(s, 1, n)) \o Decoded(SubSeq(s, n + 1, Len(s)))
       [] OTHER -> <<Head(s)>> \o Decoded(Tail(s))
\* A reference to a variable of n characters at the start of s
IsReference(s, n) ==
  /\ n > 3 /\ n <= Len(s) /\ SubSeq(s, 1, 2) = <<"$", "{">> /\ s[n] = "}" /\ s[3] \in Letter \cup Words /\ n - 3 <= MaxNameLen
  /\ \A i \in 3..n - 1 : s[i] \in Letter \cup Words \cup DOMAIN Decimal
\* A name in a namespace
IsNamespaced(s, n) ==
  \E d \in 4..n - 2 : n <= Len(s) /\ s[d] = "." /\ IsReference(SubSeq(s, 1, d - 1) \o <<"}">>, d)
                                     /\ IsReference(<<"$", "{">> \o SubSeq(s, d + 1, n), n - d + 2)
\* What is replaced by nothing: match values, as there are none here or none of that number, and names in
\* an unknown namespace
IsNothing(s, n) == (n = 4 /\ n <= Len(s) /\ s[3] \in DOMAIN Decimal /\ SubSeq(s, 1, 2) = <<"$", "{">> /\ s[4] = "}") \/ IsNamespaced(s, n)
Lookup(env, id) == IF \E i \in DOMAIN env : env[i][1] = Fold(id)
                   THEN LET i == CHOOSE j \in DOMAIN env : env[j][1] = Fold(id) /\ \A k \in j + 1..Len(env) : env[k][1] # Fold(id)
                        IN env[i][2] ELSE <<>>
Value(s, env) ==
  LET ns == {n \in 1..Len(s) : IsReference(s, n)}
      es == {n \in 1..Len(s) : IsNothing(s, n)}
  IN CASE s = <<>> -> <<>>
       [] s # <<>> /\ ns # {} -> LET n == CHOOSE x \in ns : TRUE IN Lookup(env, SubSeq(s, 3, n - 1)) \o Value(SubSeq(s, n + 1, Len(s)), env)
       [] s # <<>> /\ es # {} -> LET n == CHOOSE x \in es : TRUE IN Value(SubSeq(s, n + 1, Len(s)), env)
       [] OTHER -> <<Head(s)>> \o Value(Tail(s), env)
\* The variables after all commands, as assignments in their order
Assigned(cmds, env) ==
  IF cmds = <<>> THEN env
  ELSE Assigned(Tail(cmds), Append(env, <<Fold(Head(cmds).name), Truncate(Value(Decoded(Head(cmds).value), env))>>))
===============================================================================
