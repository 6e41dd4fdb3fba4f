------------------------------ MODULE SieveLexer ------------------------------
(***************************************************************************)
(* The lexical scanner, as a function from characters to tokens.           *)
(* Source: sieve-lexer.c.                                                  *)
(*                                                                         *)
(* A character is a one-letter string, or CR, LF, NUL; the letter "T"      *)
(* stands for the word "text".  Reading is blocking, so that the end of    *)
(* the data is the end of the script.  A token has a type, a text, a       *)
(* number, the line where it starts and the position that follows it.      *)
(***************************************************************************)
EXTENDS Integers, Sequences

CONSTANTS MaxStringLen,      \* SIEVE_MAX_STRING_LEN
          MaxIdentifierLen,  \* SIEVE_MAX_IDENTIFIER_LEN
          NumberBits         \* width of sieve_number_t

EOF == "-1"
CR  == "CR"
LF  == "LF"
NUL == "NUL"
Digit == {"0", "1", "9"}
DIGIT_VAL(c) == CASE c = "0" -> 0 [] c = "1" -> 1 [] OTHER -> 9
Alpha == {"a", "k", "m", "g", "T"}
White == {" ", "TAB", CR, LF}

\* sieve_lexer_curchar and sieve_lexer_shift: the character at a position; the next one is at p + 1
sieve_lexer_curchar(in, p) == IF p > Len(in) THEN EOF ELSE in[p]
Token(type, str, num, p) == [type |-> type, str |-> str, num |-> num, next |-> p]
Error(p) == Token("error", <<>>, 0, p)
\* A value grows to one more than its limit, which marks it as too long.
str_append(str, chars, max) == IF Len(str) <= max THEN str \o chars ELSE str

RECURSIVE Number(_, _, _), Comment(_, _), Bracket(_, _), Quoted(_, _, _), Lines(_, _, _), RestOfLine(_, _, _),
          Word(_, _, _), Blank(_, _, _), Tokens(_, _)

(***************************************************************************)
(* Numbers; a value that does not fit is an error, before or after its     *)
(* quantifier.                                                             *)
(***************************************************************************)
SIEVE_MAX_NUMBER == 2 ^ NumberBits - 1
Number(in, p, v) ==
  IF sieve_lexer_curchar(in, p) \in Digit
  THEN Number(in, p + 1, IF v > SIEVE_MAX_NUMBER THEN v ELSE v * 10 + DIGIT_VAL(in[p])) ELSE <<p, v>>
Shift(c) == CASE c = "k" -> 10 [] c = "m" -> 20 [] c = "g" -> 30 [] OTHER -> 0
sieve_lexer_scan_number(in, p) ==
  LET n == Number(in, p, 0)
      s == Shift(sieve_lexer_curchar(in, n[1]))
      q == IF s > 0 THEN n[1] + 1 ELSE n[1]
  IN CASE n[2] > SIEVE_MAX_NUMBER -> Error(n[1])
       [] n[2] <= SIEVE_MAX_NUMBER /\ n[2] > SIEVE_MAX_NUMBER \div 2 ^ s -> Error(q)
       [] OTHER -> Token("number", <<>>, n[2] * 2 ^ s, q)

(***************************************************************************)
(* Comments                                                                *)
(***************************************************************************)
Comment(in, p) ==
  LET c == sieve_lexer_curchar(in, p)
  IN CASE c = LF  -> Token("white", <<>>, 0, p + 1)
       [] c = EOF -> Token("white", <<>>, 0, p)
       [] c = NUL -> Error(p)
       [] OTHER -> Comment(in, p + 1)
sieve_lexer_scan_hash_comment(in, p) == Comment(in, p)
Bracket(in, p) ==
  LET c == sieve_lexer_curchar(in, p)
      d == sieve_lexer_curchar(in, p + 1)
  IN CASE c \in {EOF, NUL} -> Error(p)
       [] c = "*" /\ d = "/" -> Token("white", <<>>, 0, p + 2)
       [] c = "*" /\ d = EOF -> Error(p + 1)
       [] OTHER -> Bracket(in, p + 1)

(***************************************************************************)
(* Quoted and multi-line strings.  Every line end becomes CRLF.            *)
(***************************************************************************)
String(str, p) == IF Len(str) > MaxStringLen THEN Error(p) ELSE Token("string", str, 0, p)
QuotedBody(in, p, str) ==
  LET c == sieve_lexer_curchar(in, p)
  IN CASE c \in {EOF, NUL} -> Error(p)
       [] c = CR /\ sieve_lexer_curchar(in, p + 1) # LF -> Error(p + 1)
       [] c = CR /\ sieve_lexer_curchar(in, p + 1) = LF -> Quoted(in, p + 2, str_append(str, <<CR, LF>>, MaxStringLen))
       [] c = LF -> Quoted(in, p + 1, str_append(str, <<CR, LF>>, MaxStringLen))
       [] OTHER  -> Quoted(in, p + 1, str_append(str, <<c>>, MaxStringLen))
Quoted(in, p, str) ==
  LET c == sieve_lexer_curchar(in, p)
  IN IF c = "\"" THEN String(str, p + 1) ELSE QuotedBody(in, IF c = "\\" THEN p + 1 ELSE p, str)

RestOfLine(in, p, str) ==
  LET c == sieve_lexer_curchar(in, p)
      q == IF c = CR THEN p + 1 ELSE p
  IN CASE c \in {EOF, NUL} -> Error(p)
       [] c \in {CR, LF} /\ sieve_lexer_curchar(in, q) = LF -> Lines(in, q + 1, str_append(str, <<CR, LF>>, MaxStringLen))
       [] c = CR /\ sieve_lexer_curchar(in, q) # LF -> Error(q)
       [] OTHER -> RestOfLine(in, p + 1, str_append(str, <<c>>, MaxStringLen))
\* A single dot ends the string, a double one at the start of a line is a dot.
\* Mutant: the second dot of a stuffed line is kept.
LinesKeepDots(in, p, str) ==
  IF sieve_lexer_curchar(in, p) # "." THEN RestOfLine(in, p, str)
  ELSE LET cr == sieve_lexer_curchar(in, p + 1) = CR
           q  == IF cr THEN p + 2 ELSE p + 1
       IN CASE sieve_lexer_curchar(in, q) = LF -> String(str, q + 1)
            [] sieve_lexer_curchar(in, q) # LF /\ cr -> Error(q)
            [] OTHER -> RestOfLine(in, q, str_append(str, <<".">>, MaxStringLen))
Lines(in, p, str) ==
  IF sieve_lexer_curchar(in, p) # "." THEN RestOfLine(in, p, str)
  ELSE LET cr == sieve_lexer_curchar(in, p + 1) = CR
           q  == IF cr THEN p + 2 ELSE p + 1
       IN CASE sieve_lexer_curchar(in, q) = LF -> String(str, q + 1)
            [] sieve_lexer_curchar(in, q) # LF /\ cr -> Error(q)
            [] OTHER -> RestOfLine(in, IF sieve_lexer_curchar(in, q) = "." THEN q + 1 ELSE q,
                                   str_append(str, <<".">>, MaxStringLen))
Blank(in, p, set) == IF sieve_lexer_curchar(in, p) \in set THEN Blank(in, p + 1, set) ELSE p
\* What may follow "text:": blanks, a comment, the line end.  A comment that ends the script
\* ends the string with it.
MultiLine(in, p) ==
  LET b == Blank(in, p, {" ", "TAB"})
      q == IF sieve_lexer_curchar(in, b) = CR THEN b + 1 ELSE b
      c == sieve_lexer_curchar(in, q)
      h == Comment(in, q)
  IN CASE c = "#" -> IF h.type = "error" THEN h
                     ELSE IF sieve_lexer_curchar(in, h.next) = EOF THEN Error(h.next) ELSE Lines(in, h.next, <<>>)
       [] c = LF -> Lines(in, q + 1, <<>>)
       [] OTHER  -> Error(q)

Word(in, p, str) ==
  LET c == sieve_lexer_curchar(in, p)
  IN IF c \in Alpha \cup Digit \cup {"_"} THEN Word(in, p + 1, str_append(str, <<c>>, MaxIdentifierLen)) ELSE <<p, str>>
Identifier(in, p, type) ==
  LET w == Word(in, p, <<>>)
  IN CASE type = "identifier" /\ w[2] = <<"T">> /\ sieve_lexer_curchar(in, w[1]) = ":" -> MultiLine(in, w[1] + 1)
       [] ~(type = "identifier" /\ w[2] = <<"T">> /\ sieve_lexer_curchar(in, w[1]) = ":") /\ Len(w[2]) > MaxIdentifierLen -> Error(w[1])
       [] OTHER -> Token(type, w[2], 0, w[1])

Punctuation == {"]", "[", "}", "{", ")", "(", ";", ","}
sieve_lexer_scan_raw_token(in, p) ==
  LET c == sieve_lexer_curchar(in, p)
      d == sieve_lexer_curchar(in, p + 1)
  IN CASE c = "#" -> sieve_lexer_scan_hash_comment(in, p + 1)
       [] c = "/" -> IF d = "*" THEN Bracket(in, p + 2) ELSE Token("slash", <<>>, 0, p + 1)
       [] c \in White -> Token("white", <<>>, 0, Blank(in, p, White))
       [] c = "\"" -> Quoted(in, p + 1, <<>>)
       [] c \in Punctuation -> Token(c, <<>>, 0, p + 1)
       [] c = EOF -> Token("eof", <<>>, 0, p)
       [] c \in Digit -> sieve_lexer_scan_number(in, p)
       [] c = ":" -> IF d \in Alpha \cup {"_"} THEN Identifier(in, p + 1, "tag") ELSE Token("colon", <<>>, 0, p + 1)
       [] c \in Alpha \cup {"_"} -> Identifier(in, p, "identifier")
       [] OTHER -> Token("garbage", <<>>, 0, p + 1)

\* sieve_lexer_skip_token until the end of the script
Line(in, p) == 1 + Len(SelectSeq(SubSeq(in, 1, p - 1), LAMBDA c : c = LF))
Tokens(in, p) ==
  LET t == sieve_lexer_scan_raw_token(in, p)
      l == [type |-> t.type, str |-> t.str, num |-> t.num, line |-> Line(in, p)]
  IN CASE t.type = "eof" -> <<l>>
       [] t.type = "white" -> Tokens(in, t.next)
       [] OTHER -> <<l>> \o Tokens(in, t.next)
sieve_lexer_skip_token(in) == Tokens(in, 1)
===============================================================================
