-------------------------- MODULE ManageSieveSession --------------------------
(***************************************************************************)
(* A ManageSieve connection: first served by the login process, then,      *)
(* after authentication, by the managesieve process (or relayed to another *)
(* server, ManageSieveProxy).  Sources: managesieve-login/client.c,        *)
(* client-authenticate.c, managesieve/main.c, managesieve-client.c and the *)
(* input side of cmd-putscript.c.                                          *)
(*                                                                         *)
(* Input arrives in pieces of any size.  Between two arrivals the process  *)
(* works (busy) until it needs more; its steps are the calls of            *)
(* client_handle_input().                                                  *)
(***************************************************************************)
EXTENDS ManageSieveParser, ManageSieveProxy

CONSTANTS Dialogues,    \* what clients send: sequences of [bytes, ...], see MCManageSieve
          MaxBad,       \* CLIENT_MAX_BAD_COMMANDS
          MaxScript     \* managesieve_quota_max_script_size

VARIABLES dialogue,     \* chosen in the beginning, with the outcome of authentication (auth) and
                        \* which call of the storage or the compiler fails (fault), see Faults
          net,          \* bytes on their way
          in,           \* bytes in the input buffer
          parser,       \* client->parser, or save_parser inside PUTSCRIPT
          c,            \* the connection, see Client
          replies,      \* sent to the client
          stored        \* scripts committed

vars == <<dialogue, net, in, parser, c, replies, stored, proxy>>

\* phase: "login", "auth", "proxy", "session", "relay", "closed" or "panic"
\* cmd: name of the command being read, "" when none; func: what continues it
\* late: input goes to client_input_putscript, which does not reset bad_counter
\* skip: skip_line / input_skip_line   pending: command_pending   saving: an open save context
Client == [phase |-> "login", busy |-> FALSE, cmd |-> "", func |-> "", finished |-> FALSE,
           skip |-> FALSE, bad |-> 0, pending |-> FALSE, saving |-> FALSE, left |-> 0, kind |-> "",
           initial |-> FALSE, name |-> FALSE, late |-> FALSE]

Bytes(d) == LET f[i \in 0..Len(d)] == IF i = 0 THEN <<>> ELSE f[i - 1] \o d[i].bytes IN f[Len(d)]

Init == /\ dialogue \in Dialogues
        /\ net = Bytes(dialogue.pieces) /\ in = <<>>
        /\ parser = Parser /\ c = Client /\ replies = <<>> /\ stored = 0
        /\ ProxyInit

Idle(ph) == c.phase = ph /\ ~c.busy
Busy(ph) == c.phase = ph /\ c.busy
Reply(r) == replies' = replies \o r
Quiet    == replies' = replies
Wait(k)  == c' = [k EXCEPT !.busy = FALSE]
World    == UNCHANGED <<dialogue, net, stored, proxy>>
\* The line ends behind the first LF; waits when there is none yet.
LineAt   == From(in, 1, LAMBDA b : b = "LF")

(***************************************************************************)
(* Arrival of input, end of the connection                                 *)
(***************************************************************************)
Receive ==
  /\ c.phase \in {"login", "auth", "session"} /\ ~c.busy /\ net # <<>> /\ Len(in) < MaxLine
  /\ c.func # "server"         \* nothing is read while the authentication server decides
  /\ \E n \in 1..Len(net) :
       /\ Len(in) + n <= MaxLine
       /\ in' = in \o SubSeq(net, 1, n) /\ net' = Drop(net, n)
  /\ c' = [c EXCEPT !.busy = TRUE]
  /\ UNCHANGED <<dialogue, parser, replies, stored, proxy>>

\* client_destroy: the command that is pending is called once more, with its streams closed.
Destroyed(k) == [k EXCEPT !.phase = "closed", !.busy = FALSE, !.pending = FALSE, !.saving = FALSE,
                          !.cmd = "", !.func = ""]
client_destroy(k) == Destroyed(k)

Disconnect ==        \* by the client
  /\ c.phase \in {"login", "auth", "session"} /\ ~c.busy /\ c.func # "server"
  /\ c' = client_destroy(c) /\ Quiet /\ UNCHANGED <<dialogue, net, in, parser, stored, proxy>>
client_idle_timeout ==
  /\ Idle("session")
  /\ c' = client_destroy(c) /\ Reply(IF c.func # "" THEN <<>> ELSE <<"BYE">>)
  /\ UNCHANGED <<dialogue, net, in, parser, stored, proxy>>
client_kick ==
  /\ Idle("session")
  /\ c' = client_destroy(c) /\ Reply(IF c.pending THEN <<>> ELSE <<"BYE">>)
  /\ UNCHANGED <<dialogue, net, in, parser, stored, proxy>>

_client_reset_command(k) == [k EXCEPT !.cmd = "", !.func = "", !.pending = FALSE, !.saving = FALSE, !.kind = ""]
Cleared(k) == [_client_reset_command(k) EXCEPT !.bad = IF k.late THEN @ ELSE 0, !.late = FALSE]
SessionDone(k, r) == c' = Cleared(k) /\ Reply(r) /\ parser' = Parser
client_send_command_error(k) ==
  /\ Reply(<<"NO">> \o (IF c.bad + 1 >= MaxBad THEN <<"BYE">> ELSE <<>>))
  /\ c' = IF c.bad + 1 >= MaxBad THEN client_destroy(k) ELSE [_client_reset_command(k) EXCEPT !.bad = @ + 1, !.late = FALSE]
  /\ parser' = Parser

\* The buffer is full and nothing in it can be used.
InputFull ==
  /\ c.phase \in {"login", "session"} /\ ~c.busy /\ net # <<>> /\ Len(in) >= MaxLine
  /\ IF c.phase = "login" THEN c' = client_destroy(c) /\ Quiet /\ UNCHANGED parser
     ELSE client_send_command_error([c EXCEPT !.skip = TRUE, !.busy = TRUE])
  /\ UNCHANGED <<dialogue, net, in, stored, proxy>>

(***************************************************************************)
(* The login process                                                       *)
(***************************************************************************)
LoginCommands == {"AUTHENTICATE", "CAPABILITY", "NOOP", "LOGOUT", "XCLIENT", "STARTTLS"}

\* client_handle_input: the rest of the line of a finished command goes first
LoginFinish ==
  /\ Busy("login") /\ c.finished
  /\ parser' = managesieve_parser_reset(parser)
  /\ LET k == [c EXCEPT !.cmd = "", !.func = ""]
     IN IF c.skip /\ LineAt > Len(in) THEN Wait(k) /\ UNCHANGED in
        ELSE /\ in' = IF c.skip THEN Drop(in, LineAt) ELSE in
             /\ c' = [k EXCEPT !.skip = FALSE, !.finished = FALSE]
  /\ Quiet /\ World

LoginWord ==
  /\ Busy("login") /\ ~c.finished /\ c.cmd = ""
  /\ LET w == managesieve_parser_read_word(parser, in)
     IN IF w.word = "none" THEN Wait(c) /\ UNCHANGED <<in, parser>>
        ELSE /\ in' = w.in /\ parser' = w.p
             /\ c' = IF w.word \in LoginCommands THEN [c EXCEPT !.cmd = w.word]
                     ELSE [c EXCEPT !.cmd = "?", !.skip = TRUE]
  /\ Quiet /\ World

LoginDone(k, r)  == c' = [k EXCEPT !.finished = TRUE] /\ Reply(r)
LoginBad(k)  == IF c.bad + 1 >= MaxBad THEN c' = client_destroy(k) /\ Reply(<<"BYE">>)
                ELSE c' = [k EXCEPT !.bad = @ + 1, !.finished = TRUE] /\ Reply(<<"NO">>)

\* What the commands make of their arguments: a reply, "bad" (an invalid command) or "end"
cmd_capability(args) == IF args = <<>> THEN "OK" ELSE "bad"
cmd_starttls(args)   == IF args = <<>> THEN "OK" ELSE "bad"
cmd_noop(args)       == CASE args = <<>> \/ args = <<"string">> -> "OK" [] Len(args) = 1 /\ args # <<"string">> -> "NO"
                          [] OTHER -> "bad"
cmd_logout(args)     == IF args = <<>> THEN "end" ELSE "bad"
cmd_xclient(args)    == "NO"           \* the connection is not trusted
Outcome(cmd, args) ==
  CASE cmd = "CAPABILITY" -> cmd_capability(args) [] cmd = "STARTTLS" -> cmd_starttls(args) [] cmd = "NOOP" -> cmd_noop(args)
    [] cmd = "LOGOUT" -> cmd_logout(args) [] cmd = "XCLIENT" -> cmd_xclient(args) [] OTHER -> "bad"

\* The arguments of a line; AUTHENTICATE takes one and leaves the others.
LoginCommand ==
  /\ Busy("login") /\ ~c.finished /\ c.cmd # "" /\ c.func = ""
  /\ \E count \in {IF c.cmd = "AUTHENTICATE" THEN 1 ELSE 0} :
     \E r \in {managesieve_parser_read_args(parser, in, count, FALSE)} :
     LET eol   == From(r.in, 1, LAMBDA b : b = "LF")
         k     == IF count = 0 THEN c ELSE [c EXCEPT !.skip = TRUE]
         rest  == IF count = 0 THEN Drop(r.in, eol) ELSE r.in
     IN IF c.cmd = "?" THEN LoginBad(c) /\ UNCHANGED <<in, parser>>
        ELSE CASE r.ret = "more" -> Wait(c) /\ Quiet /\ in' = r.in /\ parser' = r.p
               [] r.ret = "error" ->
                    /\ in' = r.in /\ parser' = r.p
                    /\ IF r.p.fatal THEN c' = client_destroy(c) /\ Reply(<<"BYE">>)
                       ELSE LoginDone([c EXCEPT !.skip = TRUE], <<"NO">>)
               \* "We read the entire line - skip over the CRLF": i_unreached() if the LF is missing
               [] r.ret = "args" /\ count = 0 /\ eol > Len(r.in) ->
                    c' = [c EXCEPT !.phase = "panic", !.busy = FALSE] /\ Quiet /\ UNCHANGED <<in, parser>>
               [] OTHER ->
                    /\ in' = rest
                    /\ IF c.cmd = "AUTHENTICATE" /\ r.p.args # <<>> /\ r.p.args[1] = "string"
                       THEN parser' = managesieve_parser_reset(r.p) /\ Quiet
                            /\ c' = [c EXCEPT !.func = "response", !.initial = TRUE, !.skip = FALSE, !.kind = ""]
                       ELSE /\ parser' = r.p
                            /\ CASE Outcome(c.cmd, r.p.args) = "end" -> c' = client_destroy(k) /\ Reply(<<"OK">>)
                                 [] Outcome(c.cmd, r.p.args) = "bad" -> LoginBad(k)
                                 [] OTHER -> LoginDone(k, <<Outcome(c.cmd, r.p.args)>>)
  /\ World

\* managesieve_client_auth_read_response: the initial response, or one to a challenge
AuthSkipLine ==
  /\ c.phase \in {"login", "auth"} /\ c.busy /\ c.func = "response" /\ c.kind = "" /\ c.skip
  /\ IF LineAt > Len(in) THEN Wait(c) /\ UNCHANGED in
     ELSE in' = Drop(in, LineAt) /\ c' = [c EXCEPT !.skip = FALSE]
  /\ Quiet /\ World /\ UNCHANGED parser

AuthFailed(k, r) ==      \* back to commands; the rest of the line is skipped
  c' = [k EXCEPT !.phase = "login", !.finished = TRUE, !.skip = TRUE, !.func = "", !.kind = ""] /\ Reply(r)
\* a response is complete: the authentication server answers
AuthServer(k) == c' = [k EXCEPT !.phase = "auth", !.func = "server", !.busy = FALSE, !.finished = TRUE, !.kind = ""]

AuthArgument ==
  /\ c.phase \in {"login", "auth"} /\ c.busy /\ c.func = "response" /\ c.kind = "" /\ ~c.skip
  /\ \E r \in {managesieve_parser_read_args(parser, in, 0, TRUE)} :
        /\ in' = r.in /\ parser' = r.p
        /\ CASE r.ret = "more"  -> Wait(c) /\ Quiet
             [] r.ret = "error" -> AuthFailed(c, <<"NO">>)
             [] r.ret = "args" /\ r.p.args = <<>> ->
                  IF c.initial THEN AuthServer([c EXCEPT !.skip = TRUE]) /\ Quiet
                  ELSE AuthFailed(c, <<"NO">>)
             [] r.ret = "args" /\ r.p.args # <<>> /\ r.p.stream = "none" -> AuthFailed(c, <<"NO">>)
             [] OTHER -> c' = [c EXCEPT !.kind = r.p.stream, !.left = r.p.lit] /\ Quiet
  /\ World

\* ... and its data, followed by the end of the line
AuthData ==
  /\ c.phase \in {"login", "auth"} /\ c.busy /\ c.func = "response" /\ c.kind \notin {"", "eol"}
  /\ LET s == ReadStream(c.kind, c.left, in)
     IN /\ in' = s.in
        /\ CASE s.state = "wait"  -> Wait([c EXCEPT !.left = @ - (IF c.kind = "literal" THEN s.got ELSE 0)]) /\ Quiet
             [] s.state = "error" -> AuthFailed(c, <<"NO">>)
             [] s.state = "end"   -> c' = [c EXCEPT !.kind = "eol"] /\ Quiet
  /\ World /\ UNCHANGED parser
AuthLine ==
  /\ c.phase \in {"login", "auth"} /\ c.busy /\ c.func = "response" /\ c.kind = "eol"
  /\ IF LineAt > Len(in) THEN Wait(c) /\ UNCHANGED in
     ELSE AuthServer(c) /\ in' = Drop(in, LineAt)
  /\ Quiet /\ World /\ UNCHANGED parser

\* The authentication server: a challenge when there was no initial response, then the outcome.
managesieve_client_auth_send_challenge ==
  /\ Idle("auth") /\ c.func = "server" /\ c.skip
  /\ c' = [c EXCEPT !.func = "response", !.initial = FALSE, !.busy = TRUE]
  /\ parser' = managesieve_parser_reset(parser)
  /\ Reply(<<"CHALLENGE">>) /\ World /\ UNCHANGED in
managesieve_client_auth_result ==
  /\ Idle("auth") /\ c.func = "server" /\ ~c.skip
  /\ parser' = managesieve_parser_reset(parser)
  /\ LET k == [c EXCEPT !.func = "", !.cmd = ""]
     IN CASE dialogue.auth = "fail"  -> c' = [k EXCEPT !.phase = "login", !.busy = TRUE] /\ Reply(<<"NO">>) /\ UNCHANGED proxy
          \* main.c: input that the login process has read already comes first (client_add_istream_prefix)
          [] dialogue.auth = "ok"    -> c' = [Client EXCEPT !.phase = "session", !.busy = TRUE] /\ Reply(<<"OK">>) /\ UNCHANGED proxy
          [] dialogue.auth = "nouser" -> c' = client_destroy(k) /\ Reply(<<"BYE">>) /\ UNCHANGED proxy
          [] OTHER -> /\ c' = [k EXCEPT !.phase = "proxy"] /\ Quiet
                      /\ ProxyConnect(dialogue.auth = "proxy-tls")
  /\ UNCHANGED <<dialogue, net, in, stored>>

\* The proxy succeeded or failed.
ProxyEnds ==
  /\ Idle("proxy") /\ proxy.state \in {"relay", "failed"}
  /\ Reply(proxy.answer)
  /\ c' = IF proxy.state = "relay" THEN [c EXCEPT !.phase = "relay"]
          ELSE [c EXCEPT !.phase = "login", !.busy = TRUE]
  /\ UNCHANGED <<dialogue, net, in, parser, stored, proxy>>
ProxyStep == c.phase = "proxy" /\ ProxyNext /\ UNCHANGED <<dialogue, net, in, parser, c, replies, stored>>

(***************************************************************************)
(* The managesieve process                                                 *)
(***************************************************************************)
\* Mutant: the whole buffer is dropped with the line.
SkipBuffer ==
  /\ Busy("session") /\ c.func = "" /\ c.cmd = "" /\ c.skip
  /\ IF LineAt > Len(in) THEN Wait(c) /\ in' = <<>>
     ELSE c' = [c EXCEPT !.skip = FALSE] /\ in' = <<>>
  /\ parser' = Parser /\ Quiet /\ World
client_skip_line ==
  /\ Busy("session") /\ c.func = "" /\ c.cmd = "" /\ c.skip
  /\ IF LineAt > Len(in) THEN Wait(c) /\ in' = <<>>
     ELSE c' = [c EXCEPT !.skip = FALSE] /\ in' = Drop(in, LineAt)
  /\ parser' = Parser /\ Quiet /\ World

SessionCommands == {"NOOP", "GETSCRIPT", "PUTSCRIPT", "CHECKSCRIPT", "LOGOUT"}
client_handle_input ==
  /\ Busy("session") /\ c.func = "" /\ c.cmd = "" /\ ~c.skip
  /\ LET w == managesieve_parser_read_word(parser, in)
     IN CASE w.word = "none" -> Wait(c) /\ Quiet /\ UNCHANGED <<in, parser>>
          [] w.word \in SessionCommands ->
               /\ in' = w.in /\ parser' = w.p /\ Quiet
               /\ c' = [c EXCEPT !.cmd = w.word, !.skip = TRUE]
          [] OTHER -> in' = w.in /\ client_send_command_error([c EXCEPT !.skip = TRUE])
  /\ World

\* client_read_args / client_read_string_args for the command: how many strings, and are more refused
client_read_args ==
  /\ Busy("session") /\ c.func = "" /\ c.cmd \in {"NOOP", "GETSCRIPT", "PUTSCRIPT", "LOGOUT"}
  /\ \E r \in {managesieve_parser_read_args(parser, in, IF c.cmd = "PUTSCRIPT" THEN 1 ELSE 0, FALSE)} :
     LET a == r.p.args
     IN /\ in' = r.in
        /\ CASE r.ret = "more"  -> Wait(c) /\ Quiet /\ parser' = r.p
             [] r.ret = "error" -> IF r.p.fatal THEN c' = client_destroy(c) /\ Reply(<<"BYE">>) /\ parser' = r.p
                                   ELSE client_send_command_error(c)
             [] r.ret = "args" /\ c.cmd = "NOOP" /\ (a = <<>> \/ a = <<"string">>) -> SessionDone(c, <<"OK">>)
             [] r.ret = "args" /\ c.cmd = "NOOP" /\ a # <<>> /\ a[1] # "string"    -> SessionDone(c, <<"NO">>)
             [] r.ret = "args" /\ c.cmd = "LOGOUT" /\ a = <<>> -> c' = client_destroy(c) /\ Reply(<<"OK">>) /\ parser' = r.p
             [] r.ret = "args" /\ c.cmd = "GETSCRIPT" /\ a = <<"string">> -> SessionDone(c, <<"OK">>)
             [] r.ret = "args" /\ c.cmd = "PUTSCRIPT" /\ a = <<"string">> ->
                  c' = [c EXCEPT !.func = "parsing", !.name = TRUE] /\ Quiet /\ parser' = Parser
             [] OTHER -> client_send_command_error(c)
  /\ World
cmd_checkscript ==
  /\ Busy("session") /\ c.func = "" /\ c.cmd = "CHECKSCRIPT"
  /\ c' = [c EXCEPT !.func = "parsing", !.name = FALSE] /\ parser' = Parser /\ Quiet /\ World /\ UNCHANGED in

\* PUTSCRIPT and CHECKSCRIPT: the argument, its data, the end of the line.  The calls that may
\* fail: managesieve_quota_check_all, sieve_storage_save_init, _continue, _finish,
\* _get_tempscript (or the size of what it returns), sieve_compile_script, _commit.
Faults == {"none", "quota", "init", "continue", "finish", "temp", "compile", "commit"}
\* The quota of the user's scripts is not looked at for CHECKSCRIPT, which commits nothing.
Fails(call) == dialogue.fault = call /\ (call \in {"quota", "commit"} => c.name)
CannotSave(p) == \/ p.stream = "literal" /\ (p.lit > MaxScript \/ Fails("quota"))
                 \/ p.stream # "none" /\ Fails("init")
cmd_putscript_continue_parsing ==
  /\ Busy("session") /\ c.func = "parsing"
  /\ \E r \in {managesieve_parser_read_args(parser, in, 0, TRUE)} :
     LET k == [c EXCEPT !.skip = FALSE]
     IN /\ in' = r.in
        /\ CASE r.ret = "more"  -> Wait([k EXCEPT !.late = TRUE]) /\ Quiet /\ parser' = r.p
             [] r.ret = "error" \/ (r.ret = "args" /\ r.p.stream = "none") ->
                  client_send_command_error([k EXCEPT !.skip = TRUE])
             \* the size of a literal is known: too large means to skip its data, as does a save
             \* that cannot begin
             [] r.ret = "args" /\ CannotSave(r.p) ->
                  /\ c' = [k EXCEPT !.func = "cancel", !.pending = TRUE, !.skip = TRUE, !.kind = r.p.stream,
                                    !.left = IF r.p.stream = "literal" THEN r.p.lit ELSE 0]
                  /\ Reply(<<"NO">>) /\ parser' = r.p
             [] OTHER ->
                  /\ c' = [k EXCEPT !.func = "script", !.pending = TRUE, !.saving = TRUE, !.skip = TRUE,
                                    !.kind = r.p.stream, !.left = IF r.p.stream = "literal" THEN r.p.lit ELSE 0]
                  /\ Quiet /\ parser' = r.p
  /\ World

\* The size of a quoted string is not known and counts as 0: when nothing of it has arrived yet,
\* its data is left to be skipped with the line (it has no line break).
cmd_putscript_continue_cancel ==
  /\ Busy("session") /\ c.func = "cancel"
  /\ LET s   == ReadStream(c.kind, c.left, in)
         got == IF c.kind = "literal" THEN c.left - s.got ELSE c.left + s.got
     IN /\ in' = s.in
        /\ IF s.state = "wait" /\ (c.kind = "quoted" => got > 0)
           THEN Wait([c EXCEPT !.left = got, !.late = TRUE]) /\ UNCHANGED parser
           ELSE c' = Cleared(c) /\ parser' = Parser
  /\ Quiet /\ World

cmd_putscript_continue_script ==
  /\ Busy("session") /\ c.func = "script"
  /\ LET s   == ReadStream(c.kind, c.left, in)
         got == IF c.kind = "literal" THEN c.left - s.got ELSE c.left + s.got
     IN \E open \in CASE ~c.saving \/ (Fails("continue") /\ s.state = "end") -> {FALSE}
                      [] c.saving /\ Fails("continue") /\ s.state = "wait" -> BOOLEAN
                      [] OTHER -> {TRUE} :
        /\ in' = s.in
        /\ CASE c.kind = "quoted" /\ s.state # "error" /\ open /\ got > MaxScript -> SessionDone(c, <<"NO">>)
             [] s.state = "wait" /\ ~(c.kind = "quoted" /\ open /\ got > MaxScript) ->
                  Wait([c EXCEPT !.left = got, !.late = TRUE, !.saving = open]) /\ Quiet /\ UNCHANGED parser
             [] s.state = "error" -> client_send_command_error([c EXCEPT !.skip = TRUE])
             [] s.state = "end" /\ (~open \/ Fails("finish")) -> SessionDone(c, <<"NO">>)
             [] OTHER -> /\ c' = [c EXCEPT !.func = "finish", !.pending = FALSE]
                         /\ parser' = Parser /\ Quiet
  /\ World

\* cmd_putscript_handle_script: the script is stored if it compiles and the storage agrees.
Stores == ~\E call \in {"temp", "compile", "commit"} : Fails(call)
cmd_putscript_handle_script(k) ==
  IF Stores /\ ~(c.kind = "quoted" /\ Fails("quota"))
  THEN stored' = stored + (IF c.name THEN 1 ELSE 0) /\ SessionDone(k, <<"OK">>)
  ELSE UNCHANGED stored /\ SessionDone(k, <<"NO">>)
\* The line must end here.
cmd_putscript_finish_parsing ==
  /\ Busy("session") /\ c.func = "finish"
  /\ \E r \in {managesieve_parser_read_args(parser, in, 0, FALSE)} :
     LET k == [c EXCEPT !.skip = FALSE]
     IN /\ in' = r.in
        /\ CASE r.ret = "more" -> Wait([k EXCEPT !.late = TRUE]) /\ Quiet /\ parser' = r.p /\ UNCHANGED stored
             [] r.ret = "args" /\ r.p.args = <<>> ->
                  cmd_putscript_handle_script([k EXCEPT !.skip = TRUE])
             \* cmd_putscript_finish cancels the save and asks for the line to be skipped
             [] OTHER -> client_send_command_error([k EXCEPT !.skip = c.saving]) /\ UNCHANGED stored
  /\ UNCHANGED <<dialogue, net, proxy>>

\* What the connection does by itself; nobody has to disconnect, wait or stop.
Work == \/ Receive \/ InputFull
        \/ LoginFinish \/ LoginWord \/ LoginCommand \/ AuthSkipLine \/ AuthArgument \/ AuthData \/ AuthLine
        \/ managesieve_client_auth_send_challenge \/ managesieve_client_auth_result \/ ProxyEnds \/ ProxyStep
        \/ client_skip_line \/ client_handle_input \/ client_read_args \/ cmd_checkscript
        \/ cmd_putscript_continue_parsing \/ cmd_putscript_continue_cancel
        \/ cmd_putscript_continue_script \/ cmd_putscript_finish_parsing
Closed == c.phase \in {"closed", "relay", "panic"} /\ UNCHANGED vars
Next == Work \/ Disconnect \/ client_idle_timeout \/ client_kick \/ Closed

Spec     == Init /\ [][Next]_vars
\* Weak fairness of Work with ENABLED written out: the process has input to look at, or a
\* server will answer.  (That each such state has a step is what the deadlock check shows.)
HasWork  == \/ c.busy \/ c.phase = "proxy" \/ (c.phase = "auth" /\ c.func = "server")
            \/ (c.phase \in {"login", "auth", "session"} /\ net # <<>>)
FairSpec == Spec /\ ([]<>~HasWork \/ []<><<Work>>_vars)

(***************************************************************************)
(* The answers that a dialogue should get, piece by piece.                 *)
(***************************************************************************)
AuthAnswers(piece) ==
  (IF piece.initial THEN <<>> ELSE <<"CHALLENGE">>) \o
    CASE dialogue.auth = "ok" -> <<"OK">> [] dialogue.auth = "fail" -> <<"NO">> [] dialogue.auth = "nouser" -> <<"BYE">>
      [] OTHER -> proxy.answer

RECURSIVE Answers(_, _, _)
Answers(pieces, login, bad) ==
  IF pieces = <<>> THEN <<>>
  ELSE LET h == Head(pieces)
           t == Tail(pieces)
       IN CASE h.kind = "auth" -> AuthAnswers(h) \o (IF dialogue.auth = "ok" THEN Answers(t, FALSE, 0)
                                                     ELSE IF dialogue.auth = "fail" THEN Answers(t, TRUE, bad) ELSE <<>>)
            [] h.kind = "bad" /\ bad + 1 >= MaxBad -> IF login THEN <<"BYE">> ELSE <<"NO", "BYE">>
            [] h.kind = "bad" /\ bad + 1 < MaxBad  -> <<"NO">> \o Answers(t, login, bad + 1)
            [] h.kind = "last" -> h.answer
            [] OTHER -> h.answer \o Answers(t, login, IF login THEN bad ELSE 0)
Expected == Answers(dialogue.pieces, TRUE, 0)

(***************************************************************************)
(* Properties                                                              *)
(***************************************************************************)
IsPrefixOf(s, t) == Len(s) <= Len(t) /\ s = SubSeq(t, 1, Len(s))

\* Types; only a PUTSCRIPT or CHECKSCRIPT in progress has an open save context, and a closed
\* connection leaves none behind (client_destroy calls the pending command).
SessionTypeOK ==
  /\ c.phase \in {"login", "auth", "proxy", "session", "relay", "closed", "panic"}
  /\ c.bad \in 0..MaxBad /\ c.left \in 0..99 /\ Len(in) <= MaxLine
  /\ dialogue.fault \in Faults
  /\ c.saving => c.phase = "session" /\ c.func \in {"script", "finish"}
  /\ c.pending => c.func \in {"script", "cancel"}

\* Every command is answered once and in order, no matter how its bytes are cut into packets
\* and which process reads them: bytes that the login process has read ahead are not lost.
AnswersInOrder ==
  \/ IsPrefixOf(replies, Expected)
  \/ /\ c.phase = "closed" /\ replies[Len(replies)] = "BYE"
     /\ IsPrefixOf(SubSeq(replies, 1, Len(replies) - 1), Expected)

\* A script is stored by a PUTSCRIPT that should store one ("put", see MCManageSieve), and when all
\* of the dialogue is answered, each of them has: none by a script that is too large, an invalid
\* string, a failing call or a lost connection, however the upload is cut into packets.
StoredIsUploaded ==
  LET puts == Len(SelectSeq(dialogue.pieces, LAMBDA piece : piece.kind = "put"))
  IN stored <= puts /\ (dialogue.auth = "ok" /\ replies = Expected => stored = puts)

\* The login process does not stop at an assertion (client_handle_input).
NoPanic == c.phase # "panic"

\* Everything that was sent is answered in the end, unless the connection is lost.
AllAnswered == <>(c.phase \in {"closed", "relay", "panic"} \/ (net = <<>> /\ ~c.busy /\ replies = Expected))

===============================================================================
