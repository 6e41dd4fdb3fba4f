---------------------------- MODULE SieveOperands ----------------------------
(***************************************************************************)
(* The operand protocol of compiled Sieve code (sieve-code.c,              *)
(* sieve-generator.c, and the optional operands that sieve-actions.c,      *)
(* sieve-match.c, sieve-address-parts.c and sieve-message.c share).        *)
(*                                                                         *)
(* An operation is followed by its operands: optional ones, each announced *)
(* by its code, and then fixed ones.  An operand is a token:               *)
(*   t     its class, or "code" for a bare byte,                           *)
(*   n     the byte of a "code" token,                                     *)
(*   from  the arguments of the statement it stands for.                   *)
(* The byte 0 opens an optional block, closes it, and is an omitted        *)
(* operand: only the reader's position tells these apart.                  *)
(***************************************************************************)
EXTENDS Integers, Sequences, FiniteSets, TLC

Token(t, from) == [t |-> t, n |-> 0, from |-> from]
Code(n)        == [t |-> "code", n |-> n, from |-> {}]
Omitted        == Code(0)                       \* sieve_opr_omitted_emit
Tokens(ts, from) == [i \in 1..Len(ts) |->
                       IF ts[i] = "omitted" THEN [Omitted EXCEPT !.from = from] ELSE Token(ts[i], from)]

(***************************************************************************)
(* Readers.  What a dump or execute function reads is a sequence of items: *)
(* an operand of one of some classes, or a block of optional operands that *)
(* maps each known code to what is read after it.                          *)
(***************************************************************************)
Operand(ts)    == [accepts |-> ts, codes |-> <<>>, open |-> FALSE]
Options(codes) == [accepts |-> {}, codes |-> codes, open |-> FALSE]
IsOptions(i)   == i.accepts = {}

sieve_opr_number_read == Operand({"number"})
sieve_opr_string_read == Operand({"string", "variable"})
sieve_opr_string_read_ex == Operand({"string", "variable", "omitted"})
sieve_opr_stringlist_read == Operand({"string", "variable", "stringlist"})
sieve_opr_stringlist_read_ex == Operand({"string", "variable", "stringlist", "omitted"})
sieve_variable_operand_read == Operand({"variable"})
sieve_variable_operand_read_ex == Operand({"variable", "omitted"})
raw(t) == Operand({t})

\* Classes that carry more after their own byte: the context of a side effect
\* or a message override, the items of a body transform, the modifiers of "set".
\* `exec` tells the interpreter's readers from the dumper's.
SideEffects == {"se:copy", "se:create", "se:specialuse", "se:flags"}
Overrides   == {"mo:index", "mo:mime"}

seff_specialuse_read_context == <<sieve_opr_string_read>>
seff_specialuse_dump_context == <<sieve_opr_stringlist_read>>
seff_flags_do_read_context   == <<sieve_opr_stringlist_read_ex>>
seff_flags_dump_context      == <<sieve_opr_stringlist_read_ex>>
svmo_index_read_context      == <<raw("integer"), raw("byte")>>
svmo_index_dump_context      == <<raw("integer"), raw("byte")>>
svmo_mime_read_context       == <<raw("byte"), Operand({"mimeopt", "mimeopt:param"})>>
svmo_mime_dump_context       == <<raw("byte"), Operand({"mimeopt", "mimeopt:param"})>>
sieve_variables_modifiers_code_read == <<Operand({"modifiers:0", "modifiers:1", "modifiers:2"})>>
sieve_variables_modifiers_code_dump == <<Operand({"modifiers:0", "modifiers:1", "modifiers:2"})>>

Context(t, exec) ==
  CASE t = "se:specialuse" -> IF exec THEN seff_specialuse_read_context ELSE seff_specialuse_dump_context
    [] t = "se:flags"      -> IF exec THEN seff_flags_do_read_context ELSE seff_flags_dump_context
    [] t = "mo:index"      -> IF exec THEN svmo_index_read_context ELSE svmo_index_dump_context
    [] t = "mo:mime"       -> IF exec THEN svmo_mime_read_context ELSE svmo_mime_dump_context
    [] t \in {"mimeopt:param", "transform:content"} -> <<sieve_opr_stringlist_read>>
    [] t = "modifiers:1"   -> <<raw("modifier")>>
    [] t = "modifiers:2"   -> <<raw("modifier"), raw("modifier")>>
    [] OTHER -> <<>>

\* The optional blocks that operations share.
sieve_action_opr_optional_read    == (-1 :> <<Operand(SideEffects)>>)
sieve_action_opr_optional_dump    == (-1 :> <<Operand(SideEffects)>>)
sieve_match_opr_optional_read     == (1 :> <<raw("comparator")>>) @@ (2 :> <<raw("match-type")>>)
sieve_match_opr_optional_dump     == (1 :> <<raw("comparator")>>) @@ (2 :> <<raw("match-type")>>)
sieve_addrmatch_opr_optional_read == sieve_match_opr_optional_read @@ (3 :> <<raw("address-part")>>)
sieve_addrmatch_opr_optional_dump == sieve_match_opr_optional_dump @@ (3 :> <<raw("address-part")>>)
override_code == (-2 :> <<Operand(Overrides)>>)
\* sieve_message_opr_optional_read with the arguments a test passes it: a test that
\* passes no comparator does not know its code either.
sieve_message_opr_optional_read(known) == known @@ override_code
sieve_message_opr_optional_dump(known) == known @@ override_code

(***************************************************************************)
(* Arguments of a statement, as the validator leaves them.                 *)
(*   def    the definition that claims it, "" for a positional one,        *)
(*   id     the code the generator writes before it, 0 for none,           *)
(*   emits  the classes its generate function writes,                      *)
(*   gen    FALSE when it has no generate function,                        *)
(*   known  FALSE when nothing activated it,                               *)
(*   from   the words of the statement it stands for.                      *)
(***************************************************************************)
Kinds == {"S", "L", "N"}                  \* string, string list, number
AString == {"S"}
AStringList == {"S", "L"}                 \* a string goes where a list is required
ANumber == {"N"}
ClassOf(k) == CASE k = "S" -> "string" [] k = "L" -> "stringlist" [] k = "N" -> "number"

Argument(def, id, emits, from) ==
  [def |-> def, id |-> id, emits |-> emits, gen |-> TRUE, known |-> TRUE, from |-> from]
Flag(def, id, from) == [Argument(def, id, <<>>, from) EXCEPT !.gen = FALSE]
Unknown(from)       == [Argument("", 0, <<>>, from) EXCEPT !.known = FALSE]

(***************************************************************************)
(* Tags.  A rule is what a tag's validate function demands and leaves:     *)
(*   takes     the kinds its parameter may have, {} for none,              *)
(*   keeps     what stays in the argument list: the "tag" (its parameter   *)
(*             detached), the "param" in its place, or "none",             *)
(*   group     tags of one group exclude each other,                       *)
(*   needs     the tag it only goes with, anywhere in the statement,       *)
(*   multiple  it may be given more than once.                             *)
(* Its generate function writes classes; "?" stands for the parameter.     *)
(***************************************************************************)
Rule(takes, keeps) == [takes |-> takes, keeps |-> keeps, group |-> "", needs |-> "",
                       multiple |-> FALSE, refuses |-> FALSE]
Group(rule, g)     == [rule EXCEPT !.group = g]
Needs(rule, d)     == [rule EXCEPT !.needs = d]
Tag(name, def, rule, generate) == [name |-> name, def |-> def, rule |-> rule, generate |-> generate]
Plain(name, rule, generate)    == Tag(name, name, rule, generate)
Register(id, tags) == {[name |-> t.name, def |-> t.def, rule |-> t.rule, generate |-> t.generate, id |-> id] : t \in tags}

(***************************************************************************)
(* Commands.                                                               *)
(* A signature is what a command demands of its positional arguments:      *)
(* their number (-1: it counts them itself), the kinds they may have, the  *)
(* one that must name a variable, the code that the first of two gets, the *)
(* group of tags it demands, and whether it refuses surplus arguments.     *)
(* A generation is what a command writes around its arguments:             *)
(*   before, after  classes of its own operands,                           *)
(*   by       "all" for sieve_generate_arguments, "hand" when the command  *)
(*            walks over its positional arguments itself,                  *)
(*   pad      where an operand is omitted if the optional positional       *)
(*            argument is missing: "first", "last" or "no",                *)
(*   full     the number of positional arguments when none is missing.     *)
(***************************************************************************)
Signature(count, shapes) == [count |-> count, shapes |-> shapes, variable |-> 0, option |-> 0,
                             demands |-> "", strict |-> FALSE]
Exactly(shape)           == Signature(Len(shape), {shape})
Generation(before, after) == [before |-> before, after |-> after, by |-> "all", pad |-> "no", full |-> 0]
Padded(g, pad, full)      == [g EXCEPT !.pad = pad, !.full = full]
ByHand(g)                 == [g EXCEPT !.by = "hand"]
sieve_generate_arguments_only == Generation(<<>>, <<>>)

\* What an operation reads, and the option codes after which it forgets the message
\* overrides it has read so far.
Reads(items)        == [items |-> items, forgets |-> {}]
Forgets(r, codes)   == [r EXCEPT !.forgets = codes]

Command(registered, validate, generate, dump, execute) ==
  [tags |-> registered, signature |-> validate, generation |-> generate,
   dump |-> dump, execute |-> execute]
=============================================================================
