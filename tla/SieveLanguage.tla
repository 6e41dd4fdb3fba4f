---------------------------- MODULE SieveLanguage ----------------------------
(***************************************************************************)
(* One statement on its way through the compiler and back: the validator   *)
(* (sieve-validator.c) takes its arguments one by one, the generator       *)
(* (sieve-generator.c) writes operands, and the dumper and the interpreter *)
(* read them, operand by operand, each with its own idea of what is there. *)
(* Nothing in the binary says which operand is which, so the four parts of *)
(* each command have to agree for every choice of arguments.               *)
(***************************************************************************)
EXTENDS SieveExtensions, SequencesExt

CONSTANTS Commands,   \* the commands: BaseCommands and ExtensionCommands
          Names,      \* those to look at
          MaxTags,    \* tagged arguments of a statement
          MaxWords    \* positional arguments of a statement

VARIABLES cmd,        \* the command
          tags,       \* its tagged arguments: a name and the kind of a parameter
          words,      \* its positional arguments: their kinds
          phase,      \* what is going on
          pos,        \* tagged arguments validated so far
          args,       \* the argument list the validator leaves
          detached,   \* tags taken out of it
          code,       \* the operands
          at, todo,   \* the reader: its place, and what it still expects
          got, over   \* what the interpreter has read, and as message overrides

vars == <<cmd, tags, words, phase, pos, args, detached, code, at, todo, got, over>>

Command_ == Commands[cmd]
sieve_validator_command_tag_get(name) == CHOOSE t \in Command_.tags : t.name = name
TagsOf(c) == {[name |-> t.name, param |-> k] : t \in {u \in Commands[c].tags : u.rule.takes = {}}, k \in {"none"}}
             \cup {[name |-> t.name, param |-> k] : t \in {u \in Commands[c].tags : u.rule.takes # {}}, k \in Kinds}
Given == {tags[i].name : i \in 1..Len(tags)} \cup {ToString(i) : i \in 1..Len(words)}
GroupsOf(n) == {sieve_validator_command_tag_get(tags[i].name).rule.group : i \in 1..n} \ {""}

Init == /\ cmd \in Names
        /\ tags \in UNION {[1..n -> TagsOf(cmd)] : n \in 0..MaxTags}
        /\ words = <<>> /\ phase = "tags" /\ pos = 0 /\ args = <<>> /\ detached = {}
        /\ code = <<>> /\ at = 1 /\ todo = <<>> /\ got = {} /\ over = {}

reader == <<code, at, todo, got, over>>

(***************************************************************************)
(* Validation                                                              *)
(***************************************************************************)
\* A tag of this definition, or an argument with this code, came before.
Duplicate(t) == /\ ~t.rule.multiple
                /\ \E i \in 1..Len(args) : \/ args[i].def = t.def
                                           \/ t.id > 0 /\ args[i].id = t.id
\* sieve_command_find_argument looks in front of and behind the tag.
Accompanied(t) == t.rule.needs = "" \/ \E i \in 1..Len(tags) : tags[i].name = t.rule.needs
Excluded(t)    == t.rule.group # "" /\ t.rule.group \in GroupsOf(pos)
sieve_validate_tag_parameter(t, k) == IF t.rule.takes = {} THEN k = "none" ELSE k \in t.rule.takes

\* What validation leaves of a tag in the argument list.
Retained(t, k) ==
  LET written == [i \in 1..Len(t.generate) |-> IF t.generate[i] = "?" THEN ClassOf(k) ELSE t.generate[i]]
      def == IF t.rule.keeps = "tag" THEN t.def ELSE ""
  IN CASE t.rule.keeps = "none" -> <<>>
       [] t.generate = <<>> -> <<Flag(def, t.id, {t.name})>>
       [] OTHER -> <<Argument(def, t.id, written, {t.name})>>

sieve_validate_command_arguments ==
  /\ phase = "tags" /\ pos < Len(tags)
  /\ \E t \in {sieve_validator_command_tag_get(tags[pos + 1].name)}, k \in {tags[pos + 1].param} :
        IF \/ Duplicate(t) \/ t.rule.refuses \/ Excluded(t) \/ ~Accompanied(t)
           \/ ~sieve_validate_tag_parameter(t, k)
        THEN phase' = "refused" /\ UNCHANGED <<pos, args, detached>>
        ELSE /\ pos' = pos + 1
             /\ args' = args \o Retained(t, k)
             /\ detached' = IF t.rule.keeps = "none" THEN detached \cup {t} ELSE detached
             /\ UNCHANGED phase
  /\ UNCHANGED <<cmd, tags, words, reader>>

\* The kinds a command looks at: those of the longest signature that fits.
sieve_validate_positional_argument(sig, ws) ==
  LET fits  == {s \in sig.shapes : Len(s) <= Len(ws)}
      shape == CHOOSE s \in fits : \A r \in fits : Len(r) <= Len(s)
  IN /\ sig.count >= 0 => Len(ws) = sig.count
     /\ fits # {}
     /\ \A i \in 1..Len(shape) : ws[i] \in shape[i]
     /\ sig.strict => Len(ws) = Len(shape)
     /\ sig.demands # "" => sig.demands \in GroupsOf(Len(tags))

\* Arguments that the command does not look at are activated by nobody.
ActivatePositional(sig, ws) ==
  LET max == CHOOSE n \in {Len(s) : s \in sig.shapes} : \A s \in sig.shapes : Len(s) <= n
      all == Len(ws) >= max
  IN [i \in 1..Len(ws) |->
        IF i > max THEN Unknown({ToString(i)})
        ELSE Argument("", IF all /\ i = 1 /\ max = 2 THEN sig.option ELSE 0,
                      <<IF all /\ i = sig.variable THEN "variable" ELSE ClassOf(ws[i])>>, {ToString(i)})]

\* What commands do to their arguments: "deleteheader" forgets about matching without a
\* pattern, "keep" and "fileinto" get their implicit flags.
sieve_match_type_arguments_remove(as) == SelectSeq(as, LAMBDA a : a.id \notin {1, 2})
ValidateHooks(as, ws) ==
  CASE cmd = "deleteheader" /\ Len(ws) = 1 -> sieve_match_type_arguments_remove(as)
    [] cmd \in {"keep", "fileinto"} /\ ~\E i \in 1..Len(as) : as[i].def = "flags" ->
         Append(as, tag_flags_validate_persistent)
    [] OTHER -> as

sieve_validate_command ==
  /\ phase = "tags" /\ pos = Len(tags)
  /\ \E sig \in {Command_.signature}, n \in 0..MaxWords : \E ws \in [1..n -> Kinds] :
       /\ words' = ws
       /\ IF sieve_validate_positional_argument(sig, ws)
          THEN phase' = "validated" /\ args' = ValidateHooks(args, ws) \o ActivatePositional(sig, ws)
          ELSE phase' = "refused" /\ UNCHANGED args
  /\ UNCHANGED <<cmd, tags, pos, detached, reader>>

(***************************************************************************)
(* Generation                                                              *)
(***************************************************************************)
\* A detached tag that belongs to another one is written with it.
Hosted(a) ==
  LET guests == {t \in detached : t.rule.needs # "" /\ t.rule.needs = a.def}
      tail   == {t.generate : t \in guests} \ {<<>>}
  IN [a EXCEPT !.from = @ \cup {t.name : t \in guests},
               !.emits = IF tail = {} THEN @ ELSE Front(@) \o CHOOSE g \in tail : TRUE]

\* sieve_generate_arguments: 0 opens the optional operands, a code announces each, and 0,
\* as the code of the first positional argument, closes them.
GenerateArgument(g, a) ==
  LET announce == [Code(a.id) EXCEPT !.from = a.from]
      written  == Tokens(a.emits, a.from)
  IN CASE ~g.ok \/ g.done -> g
       [] ~a.known -> [g EXCEPT !.ok = FALSE]
       [] g.state = "start" /\ a.id = 0 -> [g EXCEPT !.state = "positional", !.out = @ \o written]
       [] g.state = "start" -> [g EXCEPT !.state = "optional", !.out = @ \o <<Omitted, announce>> \o written]
       [] g.state = "optional" -> [g EXCEPT !.state = IF a.id = 0 THEN "positional" ELSE @,
                                            !.out = @ \o <<announce>> \o written]
       [] OTHER -> IF a.id # 0 THEN [g EXCEPT !.ok = FALSE]
                   ELSE [g EXCEPT !.out = @ \o written, !.done = ~a.gen]

sieve_generate_arguments(as) ==
  LET g == FoldLeft(GenerateArgument, [state |-> "start", out |-> <<>>, ok |-> TRUE, done |-> FALSE], as)
  IN [g EXCEPT !.out = IF g.state = "optional" THEN Append(@, Omitted) ELSE @]

Expand(classes) ==     \* the number of modifiers, and that many of them
  LET n == Cardinality({t \in detached : t.def = "modifier"})
  IN IF classes = <<"modifiers">> THEN <<"modifiers:" \o ToString(n)>> \o [i \in 1..n |-> "modifier"] ELSE classes

Free == {t.name : t \in {u \in detached : u.rule.needs = ""}}
Positionals == SelectSeq(args, LAMBDA a : a.from \subseteq {ToString(i) : i \in 1..MaxWords} /\ a.from # {})

sieve_generate_command ==
  /\ phase = "validated"
  /\ LET gen    == Command_.generation
         hosted == [i \in 1..Len(args) |-> Hosted(args[i])]
         padded == Len(words) < gen.full
         pad(side) == IF padded /\ gen.pad = side THEN <<Omitted>> ELSE <<>>
         body   == CASE gen.by = "all"  -> sieve_generate_arguments(hosted)
                     [] gen.by = "hand" -> [ok |-> TRUE, out |-> FlattenSeq(
                          [i \in 1..(IF padded THEN 1 ELSE 2) |-> Tokens(Positionals[i].emits, Positionals[i].from)])]
                     [] gen.by = "none" -> [ok |-> TRUE, out |-> <<>>]
         own    == Free \cup IF gen.by = "none" THEN {ToString(i) : i \in 1..Len(words)} ELSE {}
         head   == Tokens(<<"operation">>, IF Command_.signature.demands # "" THEN own ELSE {})
     IN IF body.ok
        THEN /\ phase' = "dump"
             /\ code' = head \o Tokens(gen.before, own) \o pad("first") \o body.out \o pad("last")
                          \o Tokens(Expand(gen.after), own)
             /\ todo' = <<raw("operation")>> \o Command_.dump.items
        ELSE phase' = "ungenerated" /\ UNCHANGED <<code, todo>>
  /\ UNCHANGED <<cmd, tags, words, pos, args, detached, at, got, over>>

(***************************************************************************)
(* Reading: the dumper, then the interpreter                               *)
(***************************************************************************)
Executing  == phase = "execute"
Here       == code[at]
AtCode     == at <= Len(code) /\ Here.t = "code"
Expected   == Head(todo)
Collect(tok) ==
  /\ over' = IF tok.t \in Overrides THEN over \cup tok.from ELSE over
  /\ got' = IF Executing /\ tok.t \notin Overrides THEN got \cup tok.from ELSE got
Corrupt == phase' = "corrupt" /\ UNCHANGED <<at, todo, got, over>>

\* sieve_operand_optional_present: a byte 0 opens the optional operands.
OpenOptions ==
  /\ IsOptions(Expected) /\ ~Expected.open
  /\ IF AtCode /\ Here.n = 0
     THEN at' = at + 1 /\ todo' = [todo EXCEPT ![1].open = TRUE]
     ELSE todo' = Tail(todo) /\ UNCHANGED at
  /\ UNCHANGED <<phase, got, over>>

\* sieve_opr_optional_next and the switch that every caller has on the code.
sieve_opr_optional_next ==
  /\ IsOptions(Expected) /\ Expected.open
  /\ CASE ~AtCode -> Corrupt
       [] AtCode /\ Here.n = 0 -> at' = at + 1 /\ todo' = Tail(todo) /\ UNCHANGED <<phase, got, over>>
       [] AtCode /\ Here.n # 0 /\ Here.n \notin DOMAIN Expected.codes -> Corrupt
       [] AtCode /\ Here.n # 0 /\ Here.n \in DOMAIN Expected.codes ->
            /\ at' = at + 1
            /\ todo' = Expected.codes[Here.n] \o todo
            /\ IF Executing /\ Here.n \in Command_.execute.forgets
               THEN over' = {} /\ got' = got \cup Here.from
               ELSE /\ UNCHANGED over
                    /\ got' = IF Executing /\ Expected.codes[Here.n] = <<>> THEN got \cup Here.from ELSE got
            /\ UNCHANGED phase

sieve_operand_read ==
  /\ ~IsOptions(Expected)
  /\ IF at > Len(code) THEN Corrupt
     ELSE IF Here.t \in Expected.accepts \/ (AtCode /\ Here.n = 0 /\ "omitted" \in Expected.accepts)
          THEN /\ at' = at + 1
               /\ todo' = Context(Here.t, Executing) \o Tail(todo)
               /\ Collect(Here)
               /\ UNCHANGED phase
          ELSE Corrupt

Read ==
  /\ phase \in {"dump", "execute"} /\ todo # <<>>
  /\ OpenOptions \/ sieve_opr_optional_next \/ sieve_operand_read
  /\ UNCHANGED <<cmd, tags, words, pos, args, detached, code>>

\* The operation has read what it wants; the next operation must begin here.
EndOfOperation ==
  /\ phase \in {"dump", "execute"} /\ todo = <<>>
  /\ IF at # Len(code) + 1 THEN Corrupt
     ELSE IF phase = "dump"
     THEN /\ phase' = "execute" /\ at' = 1 /\ got' = {} /\ over' = {}
          /\ todo' = <<raw("operation")>> \o Command_.execute.items
     ELSE phase' = "executed" /\ UNCHANGED <<at, todo, got, over>>
  /\ UNCHANGED <<cmd, tags, words, pos, args, detached, code>>

Next == \/ sieve_validate_command_arguments \/ sieve_validate_command \/ sieve_generate_command
        \/ Read \/ EndOfOperation
Spec == Init /\ [][Next]_vars

(***************************************************************************)
(* Properties                                                              *)
(***************************************************************************)
\* Types.  In the argument list the generator walks over, optional operands precede the
\* positional ones (sieve_generate_arguments gives up otherwise).
LanguageTypeOK ==
  /\ cmd \in Names /\ pos \in 0..MaxTags /\ at \in 1..(Len(code) + 1)
  /\ phase \in {"tags", "validated", "refused", "dump", "ungenerated", "execute", "corrupt", "executed"}
  /\ \A i, j \in 1..Len(args) : args[i].id # 0 /\ i > j => args[j].id # 0
  /\ got \cup over \subseteq Given

\* A statement the validator accepts is compiled: generation has no error messages of its
\* own, so a failure there leaves the user with none.  Commands that count their positional
\* arguments themselves forget to refuse a third one, which nothing activates.
Surplus == Command_.signature.count = -1 /\ Len(words) > 2
AcceptedIsGenerated == phase = "ungenerated" => Surplus /\ cmd \in {"deleteheader", "hasflag"}

\* The dumper and the interpreter read back exactly the operands that were written, for
\* every statement: no code is unknown, no operand has the wrong class, none is left over.
\* (deleteheader takes a list where both readers want the name of one field.)
ReadsBack == phase = "corrupt" => cmd = "deleteheader" /\ words[1] = "L"

\* Every argument that the validator accepted takes part in execution.  Exceptions: what
\* "deleteheader" has no use for, a surplus argument, and :index of "date" in front of the
\* zone, which the interpreter forgets.
Unused ==
  {ToString(i) : i \in 3..(IF Surplus THEN MaxWords ELSE 2)} \cup
  (IF cmd = "deleteheader" /\ Len(words) = 1 THEN {"comparator", "is", "value"} ELSE {}) \cup
  (IF cmd = "date" /\ \E i, j \in 1..Len(tags) : i < j /\ tags[i].name = "index" /\ tags[j].name \in {"zone", "originalzone"}
   THEN {"index", "last"} ELSE {})
NothingLost == phase = "executed" => Given \subseteq got \cup over \cup Unused

\* Validator, generator, dumper and interpreter of a command agree: what the first accepts the second writes,
\* the others read exactly that, and no argument is lost on the way.
StatementsReadBack == LanguageTypeOK /\ AcceptedIsGenerated /\ ReadsBack /\ NothingLost
=============================================================================
