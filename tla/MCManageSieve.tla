---------------------------- MODULE MCManageSieve -----------------------------
(***************************************************************************)
(* What clients send: pieces of input, each with the answer it should get. *)
(*   kind  "cmd" answered with answer; "put" the same, and stores a        *)
(*         script; "bad" counts as an invalid command; "last" ends the     *)
(*         connection; "auth" an AUTHENTICATE exchange                     *)
(***************************************************************************)
EXTENDS ManageSieveSession

CONSTANTS LineEnd

Piece(kind, bytes, answer) == [kind |-> kind, bytes |-> bytes \o LineEnd, answer |-> answer, initial |-> FALSE]
S(x)      == <<" ", Quote>> \o x \o <<Quote>>
Lit(n, x) == <<" ", "{", n, "+", "}">> \o LineEnd \o x

NoopPiece   == Piece("cmd", <<"NOOP">>, <<"OK">>)
TagPiece    == Piece("cmd", <<"NOOP">> \o S(<<Backslash, Quote>>), <<"OK">>)
AtomPiece   == Piece("cmd", <<"NOOP", " ", "c">>, <<"NO">>)
EmptyPiece  == Piece("bad", <<>>, <<"NO">>)
UnknownPiece == Piece("bad", <<"FOO">> \o S(<<"c">>), <<"NO">>)
LogoutPiece == Piece("last", <<"LOGOUT">>, <<"OK">>)
LongPiece   == Piece("bad", <<"NOOP">> \o S([i \in 1..MaxLine |-> "c"]), <<"NO">>)

LoginPieces == {NoopPiece, TagPiece, AtomPiece, UnknownPiece, LogoutPiece,
                Piece("cmd", <<"CAPABILITY">>, <<"OK">>), Piece("cmd", <<"XCLIENT", " ", "c">>, <<"NO">>),
                Piece("bad", <<"STARTTLS", " ", "c">>, <<"NO">>), Piece("cmd", <<"NOOP", " ", "(">>, <<"NO">>)}
AuthPiece(bytes, initial) == [Piece("auth", <<"AUTHENTICATE">> \o S(<<"c">>) \o bytes, <<>>) EXCEPT !.initial = initial]
AuthPieces  == {AuthPiece(S(<<"c">>), TRUE), AuthPiece(Lit("1", <<"c">>), TRUE),
                AuthPiece(LineEnd \o <<Quote, "c", Quote>>, FALSE)}
InvalidPiece == Piece("bad", <<"CHECKSCRIPT">> \o S(<<Backslash, "c">>), <<"NO">>)
CheckPiece  == Piece("cmd", <<"CHECKSCRIPT">> \o Lit("1", <<"c">>), <<"OK">>)
ExtraPiece  == Piece("bad", <<"PUTSCRIPT">> \o S(<<"c">>) \o Lit("1", <<"c">>) \o <<" ", "c">>, <<"NO">>)
ScriptPieces ==
  {Piece("put", <<"PUTSCRIPT">> \o S(<<"c">>) \o Lit("2", <<"c", "LF">>), <<"OK">>),
   Piece("put", <<"PUTSCRIPT">> \o S(<<"c">>) \o S(<<Backslash, Quote>>), <<"OK">>),
   CheckPiece, ExtraPiece,
   Piece("cmd", <<"PUTSCRIPT">> \o S(<<"c">>) \o Lit("3", <<"c", "LF", Quote>>), <<"NO">>),
   Piece("cmd", <<"PUTSCRIPT">> \o S(<<"c">>) \o S(<<"c", "c", "c">>), <<"NO">>),
   Piece("bad", <<"PUTSCRIPT">> \o S(<<"c">>) \o <<" ", "c">>, <<"NO">>),
   InvalidPiece}
SessionPieces == ScriptPieces \cup {NoopPiece, TagPiece, AtomPiece, EmptyPiece, UnknownPiece, LogoutPiece, LongPiece,
   Piece("cmd", <<"GETSCRIPT">> \o Lit("1", <<"c">>), <<"OK">>),
   Piece("bad", <<"GETSCRIPT">>, <<"NO">>), Piece("bad", <<"GETSCRIPT">> \o S(<<>>) \o S(<<>>), <<"NO">>)}

\* What a failing call makes of an upload: refused, unless the upload is refused before the call
\* (a script that is too large or not a string) or does not make it (CHECKSCRIPT).
Refused(x) == [x EXCEPT !.kind = "cmd", !.answer = <<"NO">>]
WithFault(x, f) ==
  CASE x.kind = "put" -> Refused(x)
    [] x = CheckPiece -> IF f \in {"quota", "commit"} THEN x ELSE Refused(x)
    [] x = ExtraPiece -> IF f \in {"quota", "init", "continue", "finish"} THEN Refused(x) ELSE x
    [] x = InvalidPiece -> IF f = "init" THEN Refused(x) ELSE x
    [] OTHER -> x
D(auth, pieces) == [auth |-> auth, pieces |-> pieces, fault |-> "none"]
Upload(a, x, y, f) == [auth |-> "ok", pieces |-> <<a, WithFault(x, f), y>>, fault |-> f]
AllDialogues ==
  {D("ok", <<a, x, y>>) : a \in AuthPieces, x \in SessionPieces, y \in {NoopPiece, UnknownPiece}}
    \cup {Upload(AuthPiece(S(<<"c">>), TRUE), x, y, f) : x \in ScriptPieces, y \in {NoopPiece, UnknownPiece},
                                                       f \in Faults \ {"none"}}
    \cup {D(o, <<x, a, y>>) : o \in {"fail"}, x \in LoginPieces, a \in AuthPieces, y \in {NoopPiece, UnknownPiece}}
    \cup {D(o, <<a>>) : o \in {"nouser", "proxy", "proxy-tls"}, a \in AuthPieces}
ShortDialogues == {D("fail", <<x>>) : x \in {NoopPiece, Piece("cmd", <<"CAPABILITY">>, <<"OK">>)}}
Lf   == <<"LF">>
CrLf == <<"CR", "LF">>
===============================================================================
