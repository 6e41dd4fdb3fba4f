--------------------------- MODULE ManageSieveProxy ---------------------------
(***************************************************************************)
(* The login process as a client of the user's real server.                *)
(* Source: managesieve-proxy.c; login_proxy_failed() and the choice to     *)
(* connect again belong to Dovecot's login library.                        *)
(***************************************************************************)
EXTENDS Integers, Sequences

CONSTANTS MaxReconnects,   \* attempts of the login library to connect again
          MaxSent          \* commands sent on a connection (bounds the challenges)

VARIABLE proxy
(***************************************************************************)
(*   state     proxy_state, or "off", "relay" (logged in), "failed"        *)
(*   starttls, sasl, xclient   capabilities, as remembered                 *)
(*   seen      capabilities announced on this connection and TLS layer     *)
(*   ssl       the passdb asked for STARTTLS        tls     TLS is on      *)
(*   sent      commands sent on this connection, each with tls             *)
(*   answer    replies given to the client          tries   reconnects     *)
(*   type      of the last failure                                         *)
(***************************************************************************)
Disconnected == [state |-> "off", starttls |-> FALSE, sasl |-> FALSE, xclient |-> FALSE,
                 seen |-> {}, ssl |-> FALSE, tls |-> FALSE, sent |-> <<>>, answer |-> <<>>, tries |-> 0,
                 type |-> "none"]
RemoteLines == {"sasl", "starttls", "xclient", "other", "ok", "no", "bye", "garbage", "challenge",
                "trylater", "noretry", "limit", "referral"}

ProxyInit == proxy = Disconnected
managesieve_proxy_reset(p) ==
  [p EXCEPT !.state = "none", !.starttls = FALSE, !.sasl = FALSE, !.xclient = FALSE,
            !.seen = {}, !.tls = FALSE, !.sent = <<>>]

\* What a failure tells the client; AUTH_REPLIED and LIMIT_REACHED_REPLIED tell nothing.
managesieve_proxy_send_failure_reply(type) ==
  CASE type \in {"INTERNAL", "REMOTE", "PROTOCOL", "REDIRECT"} -> <<"NO TRYLATER">>
    [] type \in {"REMOTE_CONFIG"}                  -> <<"NO NORETRY">>
    [] type = "TEMPFAIL"                           -> <<"NO TRYLATER">>
    [] OTHER                                       -> <<>>

\* The library either connects again (never after the server refused the login) or gives up.
managesieve_proxy_failed(p, type) ==
  {[p EXCEPT !.state = "failed", !.type = type, !.answer = @ \o managesieve_proxy_send_failure_reply(type)]}
    \cup (IF type \in {"REPLIED", "LIMIT_REPLIED", "REMOTE_CONFIG"} \/ p.tries >= MaxReconnects THEN {}
          ELSE {[managesieve_proxy_reset(p) EXCEPT !.tries = @ + 1]})

Send(p, cmd) == [p EXCEPT !.sent = Append(@, [cmd |-> cmd, tls |-> p.tls, seen |-> p.seen])]
proxy_write_auth(p) ==
  IF ~p.sasl THEN managesieve_proxy_failed(p, "REMOTE_CONFIG")
  ELSE {[Send(p, "AUTHENTICATE") EXCEPT !.state = "auth"]} \cup
       managesieve_proxy_failed(p, "INTERNAL")      \* the SASL mechanism does not start
proxy_write_xclient(p) == {[Send(p, "XCLIENT") EXCEPT !.state = "xclient"]}

\* A line of a capability list: a capability, a final response, or neither.
proxy_input_capability(p, line) ==
  CASE line \in {"sasl", "starttls", "xclient"} -> [p EXCEPT ![line] = TRUE, !.seen = @ \cup {line}]
    [] OTHER -> p
proxy_read_response(line) ==
  CASE line = "ok" -> "OK" [] line \in {"no", "trylater", "noretry", "limit", "referral"} -> "NO"
    [] line = "bye" -> "BYE" [] OTHER -> "NONE"

ProxyGreeting(line, refused) ==     \* states NONE and TLS_READY
  LET resp == proxy_read_response(line)
      p    == proxy
  IN CASE line \in {"garbage"} -> managesieve_proxy_failed(p, "PROTOCOL")
       [] line # "garbage" /\ resp = "NONE" -> {proxy_input_capability(p, line)}
       [] resp \in {"NO", "BYE"} -> managesieve_proxy_failed(p, refused)
       [] resp = "OK" /\ p.state = "none" /\ p.ssl ->
            IF p.starttls THEN {[Send(p, "STARTTLS") EXCEPT !.state = "tls-start"]}
                          ELSE managesieve_proxy_failed(p, "REMOTE_CONFIG")
       [] OTHER -> IF p.xclient THEN proxy_write_xclient(p) ELSE proxy_write_auth(p)

\* Mutant: capabilities of the plain connection are kept.
TlsKeepsCapabilities(line) ==
  IF line = "ok" THEN {[proxy EXCEPT !.state = "tls-ready", !.tls = TRUE, !.seen = {}]}
  ELSE managesieve_proxy_failed(proxy, "REMOTE")
\* Answer of the server to STARTTLS: with TLS on, what it announced before counts no more.
ProxyTlsStart(line) ==
  IF line = "ok"
  THEN {[proxy EXCEPT !.state = "tls-ready", !.tls = TRUE, !.sasl = FALSE, !.xclient = FALSE, !.seen = {}]}
  ELSE managesieve_proxy_failed(proxy, "REMOTE")
ProxyXclient(line) == IF line = "ok" THEN proxy_write_auth(proxy) ELSE managesieve_proxy_failed(proxy, "REMOTE_CONFIG")

managesieve_proxy_parse_auth_reply(line) ==
  CASE line = "trylater" -> "TEMPFAIL" [] line = "noretry" -> "REMOTE" [] line = "limit" -> "LIMIT_REPLIED"
    [] line = "referral" -> "REDIRECT" [] OTHER -> "REPLIED"
\* Not a string, or not base64; or the mechanism has no answer (login_proxy_sasl_step).
BadChallenge == managesieve_proxy_failed(proxy, "PROTOCOL") \cup managesieve_proxy_failed(proxy, "INTERNAL")
ProxyAuth(line) ==
  CASE line = "challenge" -> {Send(proxy, "RESPONSE")} \cup BadChallenge
    [] line = "ok"        -> {[proxy EXCEPT !.state = "relay", !.answer = Append(@, "OK")]}
    [] OTHER -> LET type == managesieve_proxy_parse_auth_reply(line)
                    told == [proxy EXCEPT !.answer = IF type = "REPLIED" THEN Append(@, "NO") ELSE @]
                IN managesieve_proxy_failed(told, type)

managesieve_proxy_parse_line ==
  /\ proxy.state \in {"none", "tls-start", "tls-ready", "xclient", "auth"}
  /\ Len(proxy.sent) < MaxSent
  /\ \E line \in RemoteLines :
       proxy' \in CASE proxy.state = "none"      -> ProxyGreeting(line, "PROTOCOL")
                    [] proxy.state = "tls-start" -> ProxyTlsStart(line)
                    [] proxy.state = "tls-ready" -> ProxyGreeting(line, "REMOTE")
                    [] proxy.state = "xclient"   -> ProxyXclient(line)
                    [] proxy.state = "auth"      -> ProxyAuth(line)

\* The connection to the server fails or is closed.
ProxyDisconnected ==
  /\ proxy.state \in {"none", "tls-start", "tls-ready", "xclient", "auth"}
  /\ proxy' \in managesieve_proxy_failed(proxy, "REMOTE")

ProxyNext == managesieve_proxy_parse_line \/ ProxyDisconnected

\* The user's password was good and the passdb names another server: a new attempt to log in there.
ProxyConnect(ssl) == proxy' = [Disconnected EXCEPT !.state = "none", !.ssl = ssl]

\* The proxy on its own, with logins at any time.
ProxySpec == ProxyInit /\ [][ProxyNext \/ \E ssl \in BOOLEAN : ProxyConnect(ssl)]_proxy

(***************************************************************************)
(* Credentials go to the server only inside TLS when TLS was asked for,    *)
(* and only when the server offered SASL on that same layer; what it said  *)
(* before TLS, or on an earlier connection, does not count.                *)
(***************************************************************************)
CredentialsProtected ==
  \A i \in 1..Len(proxy.sent) :
    proxy.sent[i].cmd \in {"AUTHENTICATE", "RESPONSE"} =>
      (proxy.ssl => proxy.sent[i].tls) /\ "sasl" \in proxy.sent[i].seen

\* A login that is passed on is answered exactly once, whatever the server says and however
\* often the connection is tried again.  (Nobody answers after NO (LIMIT ...): the failure
\* type says "already replied", and no reply was sent.)
ProxyAnswersOnce ==
  proxy.state \in {"relay", "failed"} => Len(proxy.answer) = (IF proxy.type = "LIMIT_REPLIED" THEN 0 ELSE 1)

\* managesieve-proxy.c, over its states and reconnects: credentials follow the TLS layer they were promised,
\* and the client gets one answer.
ProxyFaithful == CredentialsProtected /\ ProxyAnswersOnce
===============================================================================
