-------------------------- MODULE ManageSieveParser ---------------------------
(***************************************************************************)
(* The incremental argument parser of the ManageSieve protocol, and the    *)
(* streams it makes of string arguments.  Sources: managesieve-parser.c,   *)
(* managesieve-arg.c.                                                      *)
(*                                                                         *)
(* Input is a sequence of bytes, of which those that mean something to the *)
(* parser are told apart; a command name is one byte.  The parser is       *)
(* called with what has arrived and remembers how far it looked.           *)
(***************************************************************************)
EXTENDS Integers, Sequences, TLC

CONSTANTS MaxLine          \* max_line_size, also the size of the input buffer

Quote     == "\""
Backslash == "\\"
LineBreak == {"CR", "LF"}
Digits    == {"1", "2", "3"}
Value(d)  == CASE d = "1" -> 1 [] d = "2" -> 2 [] d = "3" -> 3
is_valid_atom_char(b) == b \notin {"(", ")", "{", " ", Quote, Backslash, "NUL", "8bit"} \cup LineBreak

\* cur_type, cur_pos, root_list, literal_size, literal_nonsync, literal_skip_crlf, eol,
\* error, line_size and str_stream of struct managesieve_parser
Parser == [type |-> "none", pos |-> 0, args |-> <<>>, lit |-> 0, nonsync |-> FALSE,
           crlf |-> FALSE, eol |-> FALSE, error |-> FALSE, fatal |-> FALSE, line |-> 0,
           stream |-> "none"]
managesieve_parser_reset(p) == [Parser EXCEPT !.fatal = p.fatal]

Drop(in, n)      == SubSeq(in, n + 1, Len(in))
R(p, in, done)   == [p |-> p, in |-> in, done |-> done]
Skipped(p, n)    == [p EXCEPT !.line = @ + n, !.pos = 0]
Failed(p, in)    == R([p EXCEPT !.error = TRUE], in, FALSE)
\* the first position from i on whose byte satisfies T; Len(in) + 1 if there is none
From(in, i, T(_)) == LET hits == {k \in i..Len(in) : T(in[k])}
                     IN IF hits = {} THEN Len(in) + 1 ELSE CHOOSE k \in hits : \A m \in hits : k <= m

managesieve_parser_save_arg(p, t) == [p EXCEPT !.args = Append(@, t), !.type = "none"]

managesieve_parser_read_atom(p, in) ==
  LET i == From(in, p.pos + 1, LAMBDA b : ~is_valid_atom_char(b))
  IN CASE i > Len(in) -> R([p EXCEPT !.pos = Len(in)], in, FALSE)
       [] i <= Len(in) /\ in[i] \in {" ", ")"} \cup LineBreak ->
            R([managesieve_parser_save_arg(p, "atom") EXCEPT !.pos = i - 1], in, TRUE)
       [] OTHER -> Failed(p, in)

\* A backslash that ends the input waits for what it escapes.
managesieve_parser_read_string(p, in) ==
  LET f[i \in 1..(Len(in) + 2)] ==
        CASE i > Len(in) -> R([p EXCEPT !.pos = Len(in)], in, FALSE)
          [] in[i] = Quote -> R([managesieve_parser_save_arg(p, "string") EXCEPT !.pos = i], in, TRUE)
          [] in[i] = Backslash ->
               IF i = Len(in) THEN R([p EXCEPT !.pos = i - 1], in, FALSE)
               ELSE IF in[i + 1] \in {Quote, Backslash} THEN f[i + 2] ELSE Failed(p, in)
          [] in[i] \in LineBreak \cup {"NUL"} -> Failed(p, in)
          [] OTHER -> f[i + 1]
  IN f[p.pos + 1]

managesieve_parser_literal_end(p, in, as_stream) ==
  IF ~as_stream /\ (p.line >= MaxLine \/ p.lit > MaxLine - p.line)
  THEN R([p EXCEPT !.error = TRUE, !.fatal = TRUE], in, FALSE)
  ELSE R([p EXCEPT !.type = "data", !.crlf = TRUE, !.pos = 0], in, TRUE)

managesieve_parser_read_literal(p, in, as_stream) ==
  LET RECURSIVE g(_, _)
      g(i, q) == CASE i > Len(in) -> R([q EXCEPT !.pos = Len(in)], in, FALSE)
                   [] in[i] = "}" -> managesieve_parser_literal_end(Skipped(q, i), Drop(in, i), as_stream)
                   [] q.nonsync   -> Failed(q, in)
                   [] in[i] = "+" -> g(i + 1, [q EXCEPT !.nonsync = TRUE])
                   [] in[i] \in Digits -> g(i + 1, [q EXCEPT !.lit = @ * 10 + Value(in[i])])
                   [] OTHER -> Failed(q, in)
  IN g(p.pos + 1, p)

managesieve_parser_read_literal_data(p, in, as_stream) ==
  LET cr  == p.crlf /\ in # <<>> /\ Head(in) = "CR"
      in1 == IF cr THEN Tail(in) ELSE in
      p1  == IF cr THEN [p EXCEPT !.line = @ + 1] ELSE p
      in2 == IF p.crlf THEN Drop(in1, 1) ELSE in1
      p2  == IF p.crlf THEN [p1 EXCEPT !.line = @ + 1, !.crlf = FALSE] ELSE p1
  IN CASE p.crlf /\ in1 = <<>> -> R(p1, in1, FALSE)
       [] p.crlf /\ in1 # <<>> /\ Head(in1) # "LF" -> Failed(p1, in1)
       [] as_stream -> R([managesieve_parser_save_arg(p2, "stream") EXCEPT !.eol = TRUE, !.stream = "literal"], in2, TRUE)
       [] ~as_stream /\ Len(in2) < p.lit -> R(p2, in2, FALSE)
       [] OTHER -> R([managesieve_parser_save_arg(p2, "string") EXCEPT !.pos = p.lit], in2, TRUE)

\* An argument of the type that was recognised, from its first byte or from where it waited.
ReadTyped(p, in, as_stream) ==
  LET Data(r) == IF r.done THEN managesieve_parser_read_literal_data(r.p, r.in, as_stream) ELSE r
  IN CASE p.type = "atom" -> managesieve_parser_read_atom(p, in)
       [] p.type = "string" /\ as_stream ->
            R([managesieve_parser_save_arg(Skipped(p, p.pos), "stream") EXCEPT !.eol = TRUE, !.stream = "quoted"],
              Drop(in, p.pos), TRUE)
       [] p.type = "string" /\ ~as_stream -> managesieve_parser_read_string(p, in)
       [] p.type = "literal" -> Data(managesieve_parser_read_literal(p, in, as_stream))
       [] p.type = "data" -> managesieve_parser_read_literal_data(p, in, as_stream)
\* The next argument, behind the spaces: its first byte tells the type.
ReadNew(p, in, as_stream) ==
  LET Typed(t) == ReadTyped([p EXCEPT !.type = t, !.pos = 1, !.lit = 0, !.nonsync = FALSE], in, as_stream)
  IN IF in = <<>> THEN R(p, in, FALSE)
     ELSE IF Head(in) \in LineBreak THEN R([p EXCEPT !.eol = TRUE], in, FALSE)
     ELSE IF Head(in) \in {Quote, "{"} THEN Typed(IF Head(in) = Quote THEN "string" ELSE "literal")
     ELSE IF is_valid_atom_char(Head(in)) THEN Typed("atom") ELSE Failed(p, in)
\* One argument.  done: fully read.
managesieve_parser_read_arg(p, in, as_stream) ==
  LET New(n) == ReadNew(Skipped(p, n), Drop(in, n), as_stream)
  IN IF p.type = "none" THEN New(From(in, p.pos + 1, LAMBDA b : b # " ") - 1)       \* skip_to_next
     ELSE IF in = <<>> THEN R(p, in, FALSE) ELSE ReadTyped(p, in, as_stream)

\* Arguments up to count, or all of the line when it is 0.  ret: "more", "error" or "args";
\* finish_line drops what was looked at.
IS_UNFINISHED(p) == p.type # "none"
finish_line(p, in, ret) == [ret |-> ret, p |-> Skipped(p, p.pos), in |-> Drop(in, p.pos)]
ArgsRead(p, in, count) ==
  IF p.error THEN finish_line(p, in, "error")
  ELSE IF p.eol \/ (~IS_UNFINISHED(p) /\ count > 0 /\ Len(p.args) >= count) THEN finish_line(p, in, "args")
  ELSE [ret |-> "more", p |-> p, in |-> in]
RECURSIVE managesieve_parser_read_args(_, _, _, _)
managesieve_parser_read_args(p, in, count, as_stream) ==
  LET Then(r) == IF ~r.done THEN ArgsRead(r.p, r.in, count)
                 ELSE IF r.p.line > MaxLine THEN ArgsRead([r.p EXCEPT !.error = TRUE], r.in, count)
                 ELSE managesieve_parser_read_args(r.p, r.in, count, as_stream)
  IN IF ~p.eol /\ (count = 0 \/ IS_UNFINISHED(p) \/ Len(p.args) < count)
     THEN Then(managesieve_parser_read_arg(p, in, as_stream)) ELSE ArgsRead(p, in, count)

\* A command name: read only when what follows it has arrived.
managesieve_parser_read_word(p, in) ==
  LET n == From(in, 1, LAMBDA b : b \in {" "} \cup LineBreak)
  IN IF n > Len(in) THEN [word |-> "none", p |-> p, in |-> in]
     ELSE LET used == IF in[n] = " " THEN n ELSE n - 1
          IN [word |-> IF n = 1 THEN "" ELSE in[1], p |-> [p EXCEPT !.line = @ + used], in |-> Drop(in, used)]

\* Reading a string argument as a stream.  state: "wait", "end" or "error"; in what is left.
quoted_string_istream_read(in) ==
  LET f[i \in 1..(Len(in) + 2)] ==
        CASE i > Len(in) -> [state |-> "wait", in |-> <<>>, got |-> Len(in)]
          [] in[i] = Quote -> [state |-> "end", in |-> Drop(in, i), got |-> i - 1]
          [] in[i] = Backslash ->
               IF i = Len(in) THEN [state |-> "wait", in |-> Drop(in, i - 1), got |-> i - 1]
               ELSE IF in[i + 1] \in {Quote, Backslash} THEN f[i + 2]
               ELSE [state |-> "error", in |-> in, got |-> 0]
          [] in[i] \in LineBreak \cup {"NUL"} -> [state |-> "error", in |-> in, got |-> 0]
          [] OTHER -> f[i + 1]
  IN f[1]
ReadStream(kind, left, in) ==
  IF kind = "quoted" THEN quoted_string_istream_read(in)
  ELSE IF Len(in) >= left THEN [state |-> "end", in |-> Drop(in, left), got |-> left]
       ELSE [state |-> "wait", in |-> <<>>, got |-> Len(in)]
===============================================================================
