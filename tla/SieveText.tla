------------------------------- MODULE SieveText ------------------------------
(***************************************************************************)
(* What a script's text means: lexer, parser, validator, substitutions in  *)
(* strings and the :matches match type, each put to every input that can   *)
(* be built from a few pieces.                                             *)
(*                                                                         *)
(* These parts of the code are functions of their input: no state survives *)
(* a call.  A state is therefore an input, `kind' telling which part it is *)
(* for; the actions make the inputs longer until the code is called, and   *)
(* the properties compare what it computes then with what it should.       *)
(***************************************************************************)
EXTENDS SieveLexer, SieveValidator, SieveMatching, SieveStrings, SieveBinaryFile

CONSTANTS MaxInput,        \* characters of an input; one less in a value that is matched, two less in one that is modified
          MaxEncoded,      \* characters of a string with encoded characters
          MaxSentence,     \* phrases of a script
          MaxEdited,       \* tokens of a script in which one is wrong
          MaxSets,         \* set commands of a script
          MaxItems,        \* integers, strings, ... of a block of code
          MaxDeps          \* scripts included by a compiled one

VARIABLES kind, input, edited, called
vars == <<kind, input, edited, called>>

\* "value": contents of a string; "number"; "script": tokens; "match": value and key;
\* "encoded": a string with encoded characters; "set": commands; "modifiers": tags and a value;
\* "code": what a block contains; "stored": a compiled script
Kinds == {"value", "number", "script", "match", "encoded", "set", "modifiers", "code", "stored"}
Init == /\ kind \in Kinds /\ edited = FALSE /\ called = FALSE
        /\ input = CASE kind = "match" -> [val |-> <<>>, key |-> <<>>]
                     [] kind = "modifiers" -> [tags |-> <<>>, val |-> <<>>]
                     [] kind = "stored" -> [exts |-> <<>>, code |-> 0, pad |-> 0, deps |-> <<>>, vars |-> <<>>, missing |-> <<>>]
                     [] OTHER -> <<>>

\* The input may still become longer; Call hands it to the code.
Building == ~called /\ UNCHANGED called
Call     == ~called /\ called' = TRUE /\ UNCHANGED <<kind, input, edited>>

Pieces ==
  CASE kind = "value"   -> {<<"a">>, <<".">>, <<"\"">>, <<"\\">>, <<CR, LF>>, <<" ">>}
    [] kind = "number"  -> {<<"0">>, <<"1">>, <<"9">>, <<"k">>, <<"m">>, <<"g">>}
    [] kind = "encoded" -> {<<"$", "{">>, <<"hex", ":">>, <<"unicode", ":">>, <<"u", ":">>, <<":">>, <<"24">>, <<"d800">>, <<" ">>, <<"}">>}
    [] OTHER -> {}
Lengthen ==
  /\ Building /\ kind \in {"value", "number", "encoded"} /\ Len(input) < (IF kind = "encoded" THEN MaxEncoded ELSE MaxInput)
  /\ \E s \in Pieces : input' = input \o s
  /\ UNCHANGED <<kind, edited>>

\* Phrases of a script; the words "require", "if" ... are identifiers.
Phrases ==
  {<<"require", "string", ";">>, <<"set", "string", ";">>, <<"stop", ";">>, <<"}">>, <<"else", "{">>,
   <<"elsif", "false", "{">>, <<"if", "exists", "[", "string", ",", "string", "]", "{">>,
   <<"if", "anyof", "(", "false", ",", "exists", "string", ")", "{">>, <<"bogus", "number", "tag", ";">>}
AddPhrase ==
  /\ Building /\ kind = "script" /\ ~edited /\ Len(SelectSeq(input, LAMBDA t : t \in {";", "{", "}"})) < MaxSentence
  /\ \E ph \in Phrases : input' = input \o ph
  /\ UNCHANGED <<kind, edited>>
\* A token that is wrong, one that is missing, one too many
EditTokens == {"(", ")", "[", "]", "{", "}", ";", ",", "string", "error", "stop", "anyof"}
Edit ==
  /\ Building /\ kind = "script" /\ ~edited /\ edited' = TRUE /\ Len(input) <= MaxEdited
  /\ \E i \in DOMAIN input :
       \/ input' = SubSeq(input, 1, i - 1) \o SubSeq(input, i + 1, Len(input))
       \/ \E t \in EditTokens : input' = [input EXCEPT ![i] = t]
       \/ \E t \in EditTokens : input' = SubSeq(input, 1, i) \o <<t>> \o SubSeq(input, i + 1, Len(input))
  /\ UNCHANGED kind

LengthenMatch ==
  /\ Building /\ kind = "match"
  /\ \/ \E c \in {"a", "b", "*", "\\"} : Len(input.val) < MaxInput - 1 /\ input' = [input EXCEPT !.val = Append(@, c)]
     \/ \E c \in {"a", "b", "*", "?", "\\"} : Len(input.key) < MaxInput /\ input' = [input EXCEPT !.key = Append(@, c)]
  /\ UNCHANGED <<kind, edited>>

Names  == {<<"a">>, <<"A">>, <<"b">>, <<"hex">>, <<"b", ".", "a">>}
Values == {<<"b">>, <<"$", "{", "a", "}">>, <<"$", "{", "$", "{", "b", "}", "}">>, <<"$", "{", "hex", ":", "24", "}", "{", "A", "}">>,
           <<"b", "$", "{", "99", "}", "b">>, <<"$", "{", "b", ".", "a", "}", "a">>, <<"$", "{", "hex", "}", "a", "$", "{", "1", "}">>,
           <<"$", "{", "a", "a", "a", "}", "$", "{", "a">>}
AddSet ==
  /\ Building /\ kind = "set" /\ Len(input) < MaxSets
  /\ \E n \in Names : \E v \in Values : input' = Append(input, [name |-> n, value |-> v])
  /\ UNCHANGED <<kind, edited>>

AddModifier ==
  /\ Building /\ kind = "modifiers"
  /\ \/ \E m \in Modifiers : Len(input.tags) < 3 /\ input' = [input EXCEPT !.tags = Append(@, m)]
     \/ \E c \in {"a", "A", "*"} : Len(input.val) < MaxInput - 2 /\ input' = [input EXCEPT !.val = Append(@, c)]
  /\ UNCHANGED <<kind, edited>>

CodeItems == [t : {"integer"}, v : {0, GroupSize - 1, GroupSize, 2 ^ ByteBits, GroupSize ^ NumberSize, 2 ^ (NumberSize * ByteBits - 1) - 1,
                                  2 ^ (NumberSize * ByteBits) - 1}]
             \cup [t : {"byte"}, v : {0, 2 ^ ByteBits - 1}] \cup [t : {"offset"}, v : {0, 2 ^ (2 * ByteBits) - 1}]
             \cup [t : {"string"}, v : {<<>>, <<0>>, Filler(GroupSize), Filler(2 ^ ByteBits)}]
AddItem ==
  /\ Building /\ kind = "code" /\ Len(input) < MaxItems
  /\ \E it \in CodeItems : input' = Append(input, it)
  /\ UNCHANGED <<kind, edited>>

\* A compiled script links extensions in any order, includes scripts and has missed extensions.
Links(e) == \E i \in DOMAIN input.exts : input.exts[i] = e
AddStored ==
  /\ Building /\ kind = "stored"
  /\ \/ \E e \in {INCLUDE, IHAVE, OTHER_EXT} \ {input.exts[i] : i \in DOMAIN input.exts} : input' = [input EXCEPT !.exts = Append(@, e)]
     \/ input.code < 3 /\ input' = [input EXCEPT !.code = @ + 1, !.pad = @ + 2]
     \/ \E d \in [opt : BOOLEAN, was : BOOLEAN] :
          /\ Links(INCLUDE) /\ Len(input.deps) < MaxDeps /\ (d.opt \/ d.was)
          /\ input' = [input EXCEPT !.deps = Append(@, d)]
     \/ Links(INCLUDE) /\ Len(input.vars) < MaxGlobals /\ input' = [input EXCEPT !.vars = Append(@, Filler(Len(@) + 2))]
     \/ Links(IHAVE) /\ input.missing = <<>> /\ input' = [input EXCEPT !.missing = <<4>>]
  /\ UNCHANGED <<kind, edited>>

Next == Lengthen \/ AddPhrase \/ Edit \/ LengthenMatch \/ AddSet \/ AddModifier \/ AddItem \/ AddStored \/ Call
Spec == Init /\ [][Next]_vars

(***************************************************************************)
(* Lexer                                                                   *)
(***************************************************************************)
RECURSIVE QuotedText(_), Stuffed(_, _)
QuotedText(v) ==
  IF v = <<>> THEN <<>> ELSE (IF Head(v) \in {"\"", "\\"} THEN <<"\\", Head(v)>> ELSE <<Head(v)>>) \o QuotedText(Tail(v))
Stuffed(v, start) ==
  IF v = <<>> THEN <<>>
  ELSE (IF start /\ Head(v) = "." THEN <<".", ".">> ELSE <<Head(v)>>) \o Stuffed(Tail(v), Head(v) = LF)
UnixEnds(v) == SelectSeq(v, LAMBDA c : c # CR)
MultiLineText(v) == <<"T", ":", CR, LF>> \o Stuffed(v, TRUE) \o (IF v # <<>> /\ v[Len(v)] = LF THEN <<>> ELSE <<CR, LF>>) \o <<".", CR, LF>>
LexedAs(text, v) == LET t == sieve_lexer_skip_token(text)
                    IN Len(t) = 2 /\ t[2].type = "eof" /\ IF Len(v) > MaxStringLen THEN t[1].type = "error"
                                                          ELSE t[1].type = "string" /\ t[1].str = v
\* sieve_lexer_scan_raw_token: a quoted string and a multi-line string written by the rules of RFC 5228
\* (escapes, dots doubled at the start of a line, any kind of line end) are read back as the
\* text they were written for, or refused where that is too long.
StringsReadBack ==
  kind = "value" =>
    LET ended == IF input # <<>> /\ input[Len(input)] = LF THEN input ELSE input \o <<CR, LF>>
    IN /\ LexedAs(<<"\"">> \o QuotedText(input) \o <<"\"">>, input)
       /\ LexedAs(<<"\"">> \o UnixEnds(QuotedText(input)) \o <<"\"">>, input)
       /\ LexedAs(MultiLineText(input), ended)
       /\ LexedAs(UnixEnds(MultiLineText(input)), ended)

RECURSIVE ValueOf(_)
ValueOf(d) == IF d = <<>> THEN 0 ELSE ValueOf(SubSeq(d, 1, Len(d) - 1)) * 10 + DIGIT_VAL(d[Len(d)])
Plain(d) == d # <<>> /\ \A i \in DOMAIN d : d[i] \in Digit
\* sieve_lexer_scan_number: a number has the value its digits and its quantifier say, or is refused
\* because that does not fit; it never wraps around.
NumbersAreExact ==
  kind = "number" /\ input # <<>> =>
    LET q == Shift(input[Len(input)])
        d == IF q > 0 THEN SubSeq(input, 1, Len(input) - 1) ELSE input
        t == sieve_lexer_skip_token(input)
    IN Plain(d) => IF ValueOf(d) > SIEVE_MAX_NUMBER \div 2 ^ q THEN t[1].type = "error"
                   ELSE Len(t) = 2 /\ t[1].type = "number" /\ t[1].num = ValueOf(d) * 2 ^ q

(***************************************************************************)
(* Parser and validator                                                    *)
(***************************************************************************)
Script == Append(input, "eof")
\* sieve_parser_run: exactly the scripts of the grammar, within the limits, are accepted, whatever
\* the recovery after an error skips; a script is refused with an error and never without one.
AcceptedIsGrammatical ==
  kind = "script" =>
    LET p == sieve_parser_run(Script)
    IN /\ p.valid <=> IsScript(Script)
       /\ p.valid <=> p.errs = 0 /\ \A i \in DOMAIN input : input[i] # "error"

\* sieve_validator_run: a tree is accepted exactly when every command in it stands where it may, with
\* the tests, arguments and block it needs and the extension it comes from required before; a tree is
\* refused with an error and never without one.  The code of a branch that is never taken is not looked at.
ValidIsWellFormed ==
  kind = "script" /\ sieve_parser_run(Script).valid =>
    LET r == sieve_validator_run(sieve_parser_run(Script).ast)
    IN (r.ok <=> Obeys(sieve_parser_run(Script).ast)) /\ (r.ok <=> r.v.errs = 0) /\ (r.ok <=> ~r.v.failed)

(***************************************************************************)
(* Matching                                                                *)
(***************************************************************************)
RECURSIVE Trimmed(_)
Trimmed(s) == IF s # <<>> /\ s[Len(s)] = <<>> THEN Trimmed(SubSeq(s, 1, Len(s) - 1)) ELSE s
UpTo(s, n) == IF Len(s) <= n THEN s ELSE SubSeq(s, 1, n)
SameMatch(val, key) ==
  LET r == mcht_matches_match_key(val, key)
      m == Meaning(val, key)
  IN r.match = m.ok /\ (m.ok => Trimmed(r.vals) = Trimmed(UpTo(<<val>> \o m.vals, MaxMatchValues)))
\* Positions of a key without its escapes: wildcards, other characters, the section that follows a "*"
Is(p, i, w)   == p[i] = <<"wild", w>>
Other(p, i)   == p[i][1] = "char"
Behind(p, s)  == {i \in s + 1..Len(p) : \A j \in s + 1..i : ~Is(p, j, "*")}
Stars(p)      == {i \in DOMAIN p : Is(p, i, "*")}
\* A character and, after it, a "?": the character is looked for, what follows is at a fixed distance.
Fixes(p, sec) == \E i, j \in sec : i < j /\ Other(p, i) /\ Is(p, j, "?")
\* mcht-matches.c:461: characters between a "?" and the first "*" are not there and go unnoticed.
MayMatchTooMuch(p) ==
  \E s \in Stars(p) : Stars(p) \cap 1..s - 1 = {} /\ s > 1 /\ Other(p, s - 1) /\ \E i \in 1..s - 1 : Is(p, i, "?")
\* Lines 366, 382 and 428-448: a value that ends in the characters of "?" between two "*"; a last section
\* that is found before the end of the value and not looked for again; a section that starts with
\* "?", which going back skips once more.
MayMatchTooLittle(p) ==
  \E s \in Stars(p) :
    LET sec  == Behind(p, s)
        last == s + Cardinality(sec) = Len(p)
        mark == sec # {} /\ Is(p, s + 1, "?")
    IN \/ sec # {} /\ ~last /\ \A i \in s + 1..Len(p) : IF i \in sec THEN Is(p, i, "?") ELSE Is(p, i, "*")
       \/ last /\ Fixes(p, sec) /\ (mark \/ Other(p, Len(p)))
       \/ ~last /\ mark /\ \E k \in sec : Other(p, k) /\ Fixes(p, {i \in sec : i < k})
\* mcht_matches_match_key: for a key in which "*" and "?" are mixed in any other way than the four above the
\* answer is that of the wildcards' definition, and so are the match values, going back after a
\* failed "?" included; but for the first of the four a value that should not match does not, and but for
\* the others one that should does.
KeysMatch ==
  kind = "match" =>
    LET p == Unescape(input.key)
        r == mcht_matches_match_key(input.val, input.key)
        m == Meaning(input.val, input.key)
    IN /\ r.match /\ ~m.ok => MayMatchTooMuch(p)
       /\ m.ok /\ ~MayMatchTooLittle(p) => SameMatch(input.val, input.key)

\* The same for every key, as the comments of mcht-matches.c have it: "Match the pattern: <pattern> =
\* <section>*<section>*<section>", with "?" in any section.
AllKeysMatch == kind = "match" => SameMatch(input.val, input.key)

\* mod_quotewildcard_modify and mcht_matches_match_key: a value quoted with :quotewildcard matches
\* itself and nothing else.
QuotedMatchesItself ==
  kind = "match" => (mcht_matches_match_key(input.val, mod_quotewildcard_modify(input.key, 2 * MaxInput)).match <=> input.val = input.key)

(***************************************************************************)
(* Strings and variables                                                   *)
(***************************************************************************)
\* arg_encoded_string_validate: encoded characters are decoded from left to right and all other text is
\* kept; a string is refused only when it names a number that is no character, and always when a
\* substitution does.  The name of an encoding may be cut short, to nothing at all.
EncodedIsDecoded ==
  kind = "encoded" =>
    LET e == arg_encoded_string_validate(input)
    IN /\ e.ok => e.str = Decoded(input)
       /\ ~e.ok => \E i \in DOMAIN input : input[i] = "d800"
       /\ IsBad(input) => ~e.ok

\* The comment "Scan for 'hex' or 'unicode'" (ext-encoded-character.c): no other word is taken for one.
WholeWordsEncode ==
  kind = "encoded" /\ ~(\E i \in DOMAIN input : input[i] \in Words) => arg_encoded_string_validate(input).str = input

\* arg_variable_string_validate, cmd_set_validate: a script for which an error was reported is refused.
ReportedIsRefused == kind = "set" => LET c == sieve_compile_script(input) IN c.errs > 0 => ~c.ok

\* Text without a reference is all that a variable is assigned.
OnlyText(id) ==
  \A k \in DOMAIN input : Fold(input[k].name) = id =>
    LET v == Decoded(input[k].value)
    IN \A i \in DOMAIN v : \A n \in DOMAIN v : ~IsReference(SubSeq(v, i, Len(v)), n)
\* sieve_variable_scope_declare, arg_variable_string_validate, cmd_set_operation_execute: in a script
\* that was compiled no two variables share their storage, names differ in more than case, and
\* every variable has, at the end, the value that was assigned to it last, with all references in it
\* replaced by the values they had then and those for which an error was reported by nothing.
\* A script that names more variables than there may be is compiled too when the first of them is only
\* referred to; the others are then the first variable (ReportedIsRefused is what fails), and the
\* values of the variables but the first are kept as far as they do not come from other ones.
VariablesKeepTheirValues ==
  kind = "set" =>
    LET c == sieve_compile_script(input)
        s == Execute(c.code, sieve_variable_storage_create(Len(c.scope.vars)))
    IN c.ok => \A i \in DOMAIN c.scope.vars :
                 ~c.scope.error_var \/ (i > 1 /\ OnlyText(c.scope.vars[i]))
                   => s[i] = Lookup(Assigned(input, <<>>), c.scope.vars[i])

\* sieve_variables_modifiers_validate, _code_read and _apply: what modifiers do to a value does not depend
\* on the order in which they are written, the interpreter takes the code they are compiled to, and two
\* for which the order would matter (of the same precedence) are refused.
ModifiersCommute ==
  kind = "modifiers" =>
    LET mods == sieve_variables_modifiers_validate(input.tags)
        twice == \E i, j \in DOMAIN input.tags : i # j /\ precedence[input.tags[i]] = precedence[input.tags[j]]
    IN /\ mods = Conflict <=> twice
       /\ mods # Conflict =>
            /\ sieve_variables_modifiers_code_read(mods)
            /\ \A f \in [DOMAIN mods -> DOMAIN mods] :
              (\A i, j \in DOMAIN mods : f[i] = f[j] => i = j) =>
                LET other == sieve_variables_modifiers_validate([i \in DOMAIN mods |-> input.tags[f[i]]])
                IN sieve_variables_modifiers_apply(other, input.val) = sieve_variables_modifiers_apply(mods, input.val)

(***************************************************************************)
(* The stored form                                                         *)
(***************************************************************************)
Types(items) == [i \in DOMAIN items |-> items[i].t]
\* The end of a string, and of an integer of several bytes, is looked at before the code asks whether
\* it is there: what happens to be behind a block cut to n bytes may stand for it.
EndIsBehind(items, n) ==
  LET last == items[Len(items)]
      size == Len(EmitAll(<<>>, items))
  IN \/ last.t = "string" /\ n = size - 1
     \/ last.t = "integer" /\ n > size - Len(Emit(<<>>, last))
\* sieve_binary_emit_integer and so on, sieve_binary_read_integer and so on: what is written to a block is
\* read back, number for number and to the last byte; a block that ends too early is noticed, wherever
\* it ends and whatever is behind it in memory, but for the one byte looked at before it is missed.
\* A number that does not fit the buffer it is written through (FitsBuffer) is outside of this.
CodeReadsBack ==
  kind = "code" /\ input # <<>> /\ (\A i \in DOMAIN input : input[i].t = "integer" => FitsBuffer(input[i].v)) =>
    LET code == EmitAll(<<>>, input)
        all  == ReadAll([data |-> code, after |-> 0], 0, Types(input))
    IN /\ all = Got(Len(code), [i \in DOMAIN input |-> input[i].v])
       /\ \A n \in 0..Len(code) - 1 : \A after \in {0, GroupSize - 1, 2 ^ ByteBits - 1} :
            LET cut == ReadAll([data |-> SubSeq(code, 1, n), after |-> after], 0, Types(input))
            IN cut.ok => cut.at = n + 1 /\ EndIsBehind(input, n)

Extensions == [e \in {INCLUDE, IHAVE, OTHER_EXT} |-> 1]
Unchanged  == [i \in DOMAIN input.deps |-> IF input.deps[i].was THEN "same" ELSE "missing"]
RECURSIVE Fetched(_, _)
Fetched(b, ids) == IF ids = <<>> THEN b ELSE Fetched(sieve_binary_block_get(b, Head(ids)).b, Tail(ids))
Orders(n) == {[i \in 1..n |-> i - 1], [i \in 1..n |-> n - i], [i \in 1..n |-> (i + n \div 2) % n]}
SameBlocks(b, c) == \A i \in DOMAIN b.blocks : b.blocks[i].loaded /\ i # EXTENSIONS + 1 => b.blocks[i].data = c.blocks[i].data
\* sieve_binary_save_to_stream, sieve_binary_open, sieve_binary_block_get: a binary that was saved is the
\* same when it is opened: every block, in whatever order they are asked for, the extension each code
\* stands for, the included scripts, the global variables; and if nothing has changed it is up to date.
StoredReadsBack ==
  kind = "stored" =>
    LET c == Compiled(input)
        o == sieve_binary_open(sieve_binary_save_to_stream(c), Extensions, Unchanged)
    IN /\ o.res = "ok" /\ ~o.outdated /\ o.b.regs = c.regs
       /\ \A ids \in Orders(Len(c.blocks)) :
            LET f == Fetched(o.b, ids \o <<0>>)
            IN \A i \in DOMAIN f.blocks : f.blocks[i].loaded /\ SameBlocks(f, c)
       /\ CodesOf(Fetched(o.b, <<MAIN_PROGRAM>>)) = input.exts
       /\ o.deps = [i \in DOMAIN input.deps |-> [name |-> <<i>>, opt |-> input.deps[i].opt, was |-> input.deps[i].was]]
       /\ o.vars = input.vars /\ o.missing = [i \in DOMAIN input.missing |-> <<input.missing[i]>>]

\* sieve_binary_file_read, sieve_binary_load_block: a file that is cut off anywhere is refused, or the blocks
\* that are missing are; a block that is loaded, before or after one that could not be, is never other
\* data than was saved.
CutFileIsNoticed ==
  kind = "stored" /\ input.code = Len(input.exts) =>
    LET c == Compiled(input)
        file == sieve_binary_save_to_stream(c)
    IN \A n \in 0..Len(file) - 1 :
         LET o == sieve_binary_open(SubSeq(file, 1, n), Extensions, Unchanged)
         IN o.res = "ok" =>
              \A ids \in Orders(Len(c.blocks)) :
                LET f == Fetched(o.b, ids \o <<0>>)
                IN SameBlocks(f, c) /\ \E i \in DOMAIN f.blocks : ~f.blocks[i].loaded

Changes == {"same", "newer", "moved", "driver", "missing", "error"}
\* ext_include_binary_open, ext_ihave_binary_up_to_date, _read_extensions: a binary is used exactly when no
\* included script has changed, gone, come or moved, no extension that was missing is there, and those
\* it uses have the version they had; only an optional script that has gone is not told from a fault.
OutdatedIsNoticed ==
  kind = "stored" =>
    LET file == sieve_binary_save_to_stream(Compiled(input))
    IN /\ \A now \in [DOMAIN input.deps -> Changes] :
            LET o == sieve_binary_open(file, Extensions, now)
                gone == \E i \in DOMAIN input.deps : input.deps[i].opt /\ input.deps[i].was /\ now[i] = "missing"
            IN /\ o.res = "ok" /\ ~o.outdated <=> now = Unchanged
               /\ o.res = "crash" => gone
       /\ Links(OTHER_EXT) =>
            /\ sieve_binary_open(file, [e \in {INCLUDE, IHAVE} |-> 1], Unchanged).res = "refused"
            /\ sieve_binary_open(file, [Extensions EXCEPT ![OTHER_EXT] = 2], Unchanged).res = "refused"
       /\ input.missing # <<>> => sieve_binary_open(file, [e \in 1..4 |-> 1], Unchanged).outdated

\* Each of the following is about the input that the code is called with.
\* sieve-lexer.c: tokens are what was written.
TokensReadBack == [][Call => StringsReadBack /\ NumbersAreExact]_vars
\* sieve-parser.c, sieve-validator.c: what is accepted is a script of the language, what is refused is not, and
\* an error says so, in spite of recovery and folding.
AcceptedIsLanguage == [][Call => AcceptedIsGrammatical /\ ValidIsWellFormed]_vars
\* mcht-matches.c: wildcards, escapes and match values mean what their definition says, going back included,
\* but for four ways to mix "*" and "?" (MayMatchTooMuch, MayMatchTooLittle).
MatchesMeansWildcards == [][Call => KeysMatch /\ QuotedMatchesItself]_vars
\* ext-encoded-character.c, plugins/variables: a string that is substituted in several ways, and by several
\* extensions, has the value that its text says; where a script has more variables than there may be this
\* is said of those only that take no part in the mix-up that follows.
SubstitutionsMean == [][Call => EncodedIsDecoded /\ VariablesKeepTheirValues /\ ModifiersCommute]_vars
\* sieve-binary-code.c, sieve-binary-file.c and the extensions' parts of a binary: what was stored is read back
\* byte for byte, and a file that is cut off or out of date is not used.  For an optional script that was
\* included and has gone since, the process may crash instead (OutdatedIsNoticed, o.res = "crash").
StoredIsTrusted == [][Call => CodeReadsBack /\ StoredReadsBack /\ CutFileIsNoticed /\ OutdatedIsNoticed]_vars
===============================================================================
