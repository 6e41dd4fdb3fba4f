------------------------ MODULE ManageSieveProxyProofs ------------------------
(***************************************************************************)
(* Proofs about the proxy of the ManageSieve login process, for any number *)
(* of reconnects, challenges and logins, and whatever the server says.     *)
(***************************************************************************)
EXTENDS ManageSieveProxy, SequenceTheorems, TLAPS

Waiting  == {"none", "tls-start", "tls-ready", "xclient", "auth"}
Commands == {"STARTTLS", "XCLIENT", "AUTHENTICATE", "RESPONSE"}
Capabilities == {"sasl", "starttls", "xclient"}
Replies  == {"NO TRYLATER", "NO NORETRY", "NO", "OK"}
Failures == {"INTERNAL", "REMOTE", "PROTOCOL", "REDIRECT", "REMOTE_CONFIG", "TEMPFAIL", "REPLIED", "LIMIT_REPLIED"}
SentType == [cmd : Commands, tls : BOOLEAN, seen : SUBSET Capabilities]
ProxyType ==
  [state : Waiting \cup {"off", "relay", "failed"}, starttls : BOOLEAN, sasl : BOOLEAN, xclient : BOOLEAN,
   seen : SUBSET Capabilities, ssl : BOOLEAN, tls : BOOLEAN, sent : Seq(SentType), answer : Seq(Replies), tries : Nat,
   type : Failures \cup {"none"}]

(* Credentials that were sent, were sent as the passdb and the server      *)
(* asked.                                                                  *)
Protected(p) ==
  \A i \in 1 .. Len(p.sent) :
    p.sent[i].cmd \in {"AUTHENTICATE", "RESPONSE"} => (p.ssl => p.sent[i].tls) /\ "sasl" \in p.sent[i].seen

(* Nothing was said to the client yet.                                     *)
Untold(p) == p.answer = <<>> /\ p.type = "none"

(* What holds of the proxy in each of its states:                          *)
(*   - SASL is remembered only from the layer that is in use;              *)
(*   - with TLS asked for, it is on before anything but STARTTLS is sent;  *)
(*   - the client was told nothing as long as the login may go on.         *)
ProxyOK(p) ==
  /\ p \in ProxyType
  /\ Protected(p)
  /\ p.sasl => "sasl" \in p.seen
  /\ p.state = "tls-ready" => p.tls
  /\ p.state \in {"xclient", "auth"} => (p.ssl => p.tls)
  /\ p.state = "auth" => "sasl" \in p.seen
  /\ p.state \in Waiting => Untold(p)
  /\ p.state = "relay" => Len(p.answer) = 1 /\ p.type = "none"
  /\ p.state = "failed" => Len(p.answer) = (IF p.type = "LIMIT_REPLIED" THEN 0 ELSE 1)

ProxyInv == ProxyOK(proxy)

-----------------------------------------------------------------------------
(* Failures *)

(* Exactly the failures that were not told before are told now.            *)
LEMMA FailureReply ==
  ASSUME NEW type \in Failures
  PROVE  /\ managesieve_proxy_send_failure_reply(type) \in Seq(Replies)
         /\ Len(managesieve_proxy_send_failure_reply(type)) = (IF type \in {"REPLIED", "LIMIT_REPLIED"} THEN 0 ELSE 1)
<1> DEFINE r == managesieve_proxy_send_failure_reply(type)
<1>1. r \in {<<"NO TRYLATER">>, <<"NO NORETRY">>, <<>>} /\ (r = <<>> <=> type \in {"REPLIED", "LIMIT_REPLIED"})
  BY DEF managesieve_proxy_send_failure_reply, Failures
<1> HIDE DEF r
<1>2. r \in Seq(Replies) /\ Len(r) = (IF r = <<>> THEN 0 ELSE 1)
  <2>0. ASSUME NEW x \in Replies PROVE <<x>> \in Seq(Replies) /\ Len(<<x>>) = 1 /\ <<x>> # <<>>
    <3>1. <<x>> \in Seq(Replies) /\ Len(<<x>>) = 1
      OBVIOUS
    <3>2. QED BY <3>1, EmptySeq
  <2>1. CASE r = <<"NO TRYLATER">>
    BY <2>0, <2>1 DEF Replies
  <2>2. CASE r = <<"NO NORETRY">>
    BY <2>0, <2>2 DEF Replies
  <2>3. CASE r = <<>>
    BY <2>3, EmptySeq
  <2>4. QED BY <1>1, <2>1, <2>2, <2>3
<1>3. QED BY <1>1, <1>2 DEF r

(* A failure ends the login with one answer, or it is tried again from     *)
(* the beginning: with nothing said, nothing sent and nothing remembered.  *)
LEMMA FailedOK ==
  ASSUME NEW p \in ProxyType, NEW type \in Failures, Protected(p), p.sasl => "sasl" \in p.seen,
         p.type = "none", IF type = "REPLIED" THEN Len(p.answer) = 1 ELSE p.answer = <<>>,
         NEW q \in managesieve_proxy_failed(p, type)
  PROVE  ProxyOK(q)
<1> DEFINE a == p.answer \o managesieve_proxy_send_failure_reply(type)
           end == [p EXCEPT !.state = "failed", !.type = type, !.answer = a]
           re == managesieve_proxy_reset(p)
           again == [re EXCEPT !.tries = re.tries + 1]
<1>1. a \in Seq(Replies) /\ Len(a) = (IF type = "LIMIT_REPLIED" THEN 0 ELSE 1)
  <2>1. p.answer \in Seq(Replies)
    BY DEF ProxyType
  <2> DEFINE r == managesieve_proxy_send_failure_reply(type)
  <2>2. r \in Seq(Replies) /\ Len(r) = (IF type \in {"REPLIED", "LIMIT_REPLIED"} THEN 0 ELSE 1)
    BY FailureReply
  <2> HIDE DEF r
  <2>3. p.answer \o r \in Seq(Replies) /\ Len(p.answer \o r) = Len(p.answer) + Len(r)
    BY <2>1, <2>2, ConcatProperties
  <2>4. Len(p.answer) = (IF type = "REPLIED" THEN 1 ELSE 0)
    OBVIOUS
  <2>5. CASE type = "REPLIED"
    BY <2>2, <2>3, <2>4, <2>5 DEF r
  <2>6. CASE type = "LIMIT_REPLIED"
    BY <2>2, <2>3, <2>4, <2>6 DEF r
  <2>7. CASE type \notin {"REPLIED", "LIMIT_REPLIED"}
    BY <2>2, <2>3, <2>4, <2>7 DEF r
  <2>8. QED BY <2>5, <2>6, <2>7
<1>2. ProxyOK(end)
  <2> HIDE DEF a
  <2>1. end \in ProxyType
    BY <1>1 DEF ProxyType, Failures
  <2>2. /\ end.state = "failed" /\ end.type = type /\ end.answer = a /\ end.sent = p.sent /\ end.ssl = p.ssl
        /\ end.sasl = p.sasl /\ end.seen = p.seen
    BY DEF ProxyType
  <2> HIDE DEF end
  <2>3. QED BY <1>1, <2>1, <2>2 DEF ProxyOK, Protected, Waiting
<1>3. ASSUME type # "REPLIED" PROVE ProxyOK(again)
  <2>1. re \in ProxyType /\ re.state = "none" /\ re.sent = <<>> /\ ~re.sasl /\ re.type = "none" /\ re.answer = p.answer
    <3>1. FALSE \in BOOLEAN /\ {} \in SUBSET Capabilities /\ <<>> \in Seq(SentType) /\ "none" \in Waiting
      BY EmptySeq DEF Waiting
    <3>2. ASSUME NEW x \in ProxyType
          PROVE  [x EXCEPT !.state = "none", !.starttls = FALSE, !.sasl = FALSE, !.xclient = FALSE,
                           !.seen = {}, !.tls = FALSE, !.sent = <<>>] \in ProxyType
      BY <3>1 DEF ProxyType
    <3>3. re \in ProxyType
      BY <3>2 DEF managesieve_proxy_reset
    <3>4. QED BY <3>3 DEF managesieve_proxy_reset, ProxyType
  <2> HIDE DEF re
  <2>2. /\ again \in ProxyType /\ again.state = "none" /\ again.sent = <<>> /\ ~again.sasl
        /\ again.type = "none" /\ again.answer = p.answer
    <3>0. re.tries \in Nat
      BY <2>1 DEF ProxyType
    <3>1. re.tries + 1 \in Nat
      BY <3>0
    <3>2. again \in ProxyType
      BY <2>1, <3>1 DEF ProxyType
    <3>3. QED BY <2>1, <3>2 DEF ProxyType
  <2> HIDE DEF again
  <2>3. Protected(again)
    <3>1. Len(again.sent) = 0
      BY <2>2, EmptySeq
    <3>2. QED BY <3>1 DEF Protected
  <2>4. QED BY <1>3, <2>2, <2>3 DEF ProxyOK, Untold
<1>4. q = end \/ (type # "REPLIED" /\ q = again)
  BY DEF managesieve_proxy_failed
<1>5. QED BY <1>2, <1>3, <1>4

(* The failure of a login that goes on.                                    *)
LEMMA FailedFrom ==
  ASSUME NEW p, ProxyOK(p), p.state \in Waiting, NEW type \in Failures \ {"REPLIED"},
         NEW q \in managesieve_proxy_failed(p, type)
  PROVE  ProxyOK(q)
BY FailedOK DEF ProxyOK, Untold

-----------------------------------------------------------------------------
(* Commands *)

(* A command that is sent as it should be.                                 *)
LEMMA SendOK ==
  ASSUME NEW p, ProxyOK(p), NEW cmd \in Commands,
         cmd \in {"AUTHENTICATE", "RESPONSE"} => (p.ssl => p.tls) /\ "sasl" \in p.seen
  PROVE  ProxyOK(Send(p, cmd)) /\ \A x \in {"state", "ssl", "tls", "seen", "sasl", "answer", "type"} : Send(p, cmd)[x] = p[x]
<1> DEFINE e == [cmd |-> cmd, tls |-> p.tls, seen |-> p.seen]
           q == [p EXCEPT !.sent = Append(p.sent, e)]
<1>1. p \in ProxyType /\ p.sent \in Seq(SentType) /\ p.tls \in BOOLEAN /\ p.seen \in SUBSET Capabilities
  BY DEF ProxyOK, ProxyType
<1>2. e \in SentType /\ e.cmd = cmd /\ e.tls = p.tls /\ e.seen = p.seen
  BY <1>1 DEF SentType
<1> HIDE DEF e
<1>3. Append(p.sent, e) \in Seq(SentType)
  BY <1>1, <1>2
<1>4. q \in ProxyType
  BY <1>1, <1>3 DEF ProxyType
<1>5. /\ q.state = p.state /\ q.ssl = p.ssl /\ q.tls = p.tls /\ q.seen = p.seen /\ q.sasl = p.sasl
      /\ q.answer = p.answer /\ q.type = p.type /\ q.sent = Append(p.sent, e)
  BY <1>1 DEF ProxyType
<1>6. Send(p, cmd) = q
  BY DEF Send, e
<1> HIDE DEF q
<1>7. Protected(q)
  <2> SUFFICES ASSUME NEW i \in 1 .. Len(q.sent), q.sent[i].cmd \in {"AUTHENTICATE", "RESPONSE"}
               PROVE  (q.ssl => q.sent[i].tls) /\ "sasl" \in q.sent[i].seen
    BY DEF Protected
  <2>1. CASE i = Len(p.sent) + 1
    BY <1>1, <1>2, <1>5, <2>1
  <2>2. CASE i # Len(p.sent) + 1
    <3>1. i \in 1 .. Len(p.sent) /\ q.sent[i] = p.sent[i]
      BY <1>1, <1>2, <1>5, <2>2
    <3>2. QED BY <1>5, <3>1 DEF ProxyOK, Protected
  <2>3. QED BY <2>1, <2>2
<1>8. ProxyOK(q)
  BY <1>4, <1>5, <1>7 DEF ProxyOK, Untold
<1>9. QED BY <1>5, <1>6, <1>8

(* A proxy that goes on in another state.                                  *)
LEMMA MovesOK ==
  ASSUME NEW p, ProxyOK(p), p.state \in Waiting, NEW s \in {"tls-start", "xclient", "auth"},
         s \in {"xclient", "auth"} => (p.ssl => p.tls), s = "auth" => "sasl" \in p.seen
  PROVE  ProxyOK([p EXCEPT !.state = s])
<1> DEFINE q == [p EXCEPT !.state = s]
<1>1. q \in ProxyType
  BY DEF ProxyOK, ProxyType, Waiting
<1>2. /\ q.state = s /\ q.ssl = p.ssl /\ q.tls = p.tls /\ q.seen = p.seen /\ q.sasl = p.sasl
      /\ q.answer = p.answer /\ q.type = p.type /\ q.sent = p.sent
  BY DEF ProxyOK, ProxyType
<1> HIDE DEF q
<1>3. Protected(q)
  BY <1>2 DEF ProxyOK, Protected
<1>4. Untold(q)
  BY <1>2 DEF ProxyOK, Untold
<1>5. /\ q.sasl => "sasl" \in q.seen
      /\ q.state \in {"xclient", "auth"} => (q.ssl => q.tls)
      /\ q.state = "auth" => "sasl" \in q.seen
  BY <1>2 DEF ProxyOK
<1>6. q.state # "tls-ready" /\ q.state # "relay" /\ q.state # "failed"
  BY <1>2
<1>7. ProxyOK(q)
  BY <1>1, <1>3, <1>4, <1>5, <1>6 DEF ProxyOK
<1>8. QED BY <1>7 DEF q

(* proxy_write_auth: credentials need TLS if it was asked for, and SASL.   *)
LEMMA AuthOK ==
  ASSUME NEW p, ProxyOK(p), p.state \in Waiting, p.ssl => p.tls, NEW q \in proxy_write_auth(p)
  PROVE  ProxyOK(q)
<1>1. CASE ~p.sasl
  BY <1>1, FailedFrom DEF proxy_write_auth, Failures
<1>2. CASE p.sasl
  <2>1. "sasl" \in p.seen
    BY <1>2 DEF ProxyOK
  <2> DEFINE r == Send(p, "AUTHENTICATE")
  <2>2. ProxyOK(r) /\ \A x \in {"state", "ssl", "tls", "seen", "sasl", "answer", "type"} : r[x] = p[x]
    BY <2>1, SendOK DEF Commands
  <2>3. r.state \in Waiting /\ r.seen = p.seen /\ (r.ssl => r.tls)
    BY <2>2
  <2>4. q = [r EXCEPT !.state = "auth"] \/ q \in managesieve_proxy_failed(p, "INTERNAL")
    BY <1>2 DEF proxy_write_auth
  <2> HIDE DEF r
  <2>5. CASE q = [r EXCEPT !.state = "auth"]
    BY <2>1, <2>2, <2>3, <2>5, MovesOK
  <2>6. CASE q \in managesieve_proxy_failed(p, "INTERNAL")
    BY <2>6, FailedFrom DEF Failures
  <2>7. QED BY <2>4, <2>5, <2>6
<1>3. QED BY <1>1, <1>2

-----------------------------------------------------------------------------
(* What the server says *)

(* The kinds of responses.                                                 *)
LEMMA ResponseKinds ==
  ASSUME NEW line \in RemoteLines
  PROVE  /\ proxy_read_response(line) \in {"OK", "NO", "BYE", "NONE"}
         /\ proxy_read_response(line) = "OK" <=> line = "ok"
         /\ line = "garbage" => proxy_read_response(line) = "NONE"
BY DEF proxy_read_response, RemoteLines

(* A capability is remembered together with the layer it was announced on. *)
LEMMA CapabilityOK ==
  ASSUME NEW p, ProxyOK(p), p.state \in Waiting, NEW line \in RemoteLines
  PROVE  ProxyOK(proxy_input_capability(p, line))
<1>1. ASSUME NEW x \in Capabilities
      PROVE  ProxyOK([p EXCEPT ![x] = TRUE, !.seen = p.seen \cup {x}])
  <2> DEFINE q == [p EXCEPT ![x] = TRUE, !.seen = p.seen \cup {x}]
  <2>1. p \in ProxyType /\ p.seen \in SUBSET Capabilities
    BY DEF ProxyOK, ProxyType
  <2>2. p.seen \cup {x} \in SUBSET Capabilities
    BY <2>1
  <2>3. q \in ProxyType
    <3>1. CASE x = "sasl"
      BY <2>1, <2>2, <3>1 DEF ProxyType
    <3>2. CASE x = "starttls"
      BY <2>1, <2>2, <3>2 DEF ProxyType
    <3>3. CASE x = "xclient"
      BY <2>1, <2>2, <3>3 DEF ProxyType
    <3>4. QED BY <3>1, <3>2, <3>3 DEF Capabilities
  <2>4. /\ q.state = p.state /\ q.ssl = p.ssl /\ q.tls = p.tls /\ q.seen = p.seen \cup {x}
        /\ q.answer = p.answer /\ q.type = p.type /\ q.sent = p.sent /\ (x # "sasl" => q.sasl = p.sasl)
    BY <2>1 DEF ProxyType, Capabilities
  <2> HIDE DEF q
  <2>5. q.sasl => "sasl" \in q.seen
    BY <2>4 DEF ProxyOK
  <2>6. Protected(q) /\ Untold(q)
    BY <2>4 DEF ProxyOK, Protected, Untold
  <2>7. QED BY <2>3, <2>4, <2>5, <2>6 DEF ProxyOK, q
<1>2. CASE line \in Capabilities
  <2>1. proxy_input_capability(p, line) = [p EXCEPT ![line] = TRUE, !.seen = p.seen \cup {line}]
    <3>1. p \in ProxyType
      BY DEF ProxyOK
    <3>2. QED BY <1>2, <3>1 DEF proxy_input_capability, Capabilities, ProxyType
  <2>2. QED BY <1>1, <1>2, <2>1
<1>3. CASE line \notin Capabilities
  BY <1>3 DEF proxy_input_capability, Capabilities
<1>4. QED BY <1>2, <1>3

(* The greeting of the server, and the one that follows STARTTLS.          *)
LEMMA GreetingOK ==
  ASSUME ProxyInv, proxy.state \in {"none", "tls-ready"}, NEW line \in RemoteLines,
         NEW refused \in {"PROTOCOL", "REMOTE"}, NEW q \in ProxyGreeting(line, refused)
  PROVE  ProxyOK(q)
<1>1. ProxyOK(proxy) /\ proxy.state \in Waiting
  BY DEF ProxyInv, Waiting
<1>2. CASE line = "garbage"
  <2>1. q \in managesieve_proxy_failed(proxy, "PROTOCOL")
    BY <1>2, ResponseKinds DEF ProxyGreeting
  <2>2. QED BY <1>1, <2>1, FailedFrom DEF Failures
<1>3. CASE line # "garbage" /\ proxy_read_response(line) = "NONE"
  <2>1. q = proxy_input_capability(proxy, line)
    BY <1>3 DEF ProxyGreeting
  <2>2. QED BY <1>1, <2>1, CapabilityOK
<1>4. CASE line # "garbage" /\ proxy_read_response(line) \in {"NO", "BYE"}
  <2>1. q \in managesieve_proxy_failed(proxy, refused)
    BY <1>4 DEF ProxyGreeting
  <2>2. QED BY <1>1, <2>1, FailedFrom DEF Failures
<1>5. CASE line = "ok" /\ proxy.state = "none" /\ proxy.ssl
  <2>0. proxy_read_response(line) = "OK" /\ line # "garbage"
    BY <1>5, ResponseKinds
  <2>1. q \in IF proxy.starttls THEN {[Send(proxy, "STARTTLS") EXCEPT !.state = "tls-start"]}
                               ELSE managesieve_proxy_failed(proxy, "REMOTE_CONFIG")
    BY <1>5, <2>0 DEF ProxyGreeting
  <2>2. CASE ~proxy.starttls
    BY <1>1, <2>1, <2>2, FailedFrom DEF Failures
  <2>3. CASE proxy.starttls
    <3> DEFINE r == Send(proxy, "STARTTLS")
    <3>1. ProxyOK(r) /\ r.state = proxy.state
      BY <1>1, SendOK DEF Commands
    <3>2. q = [r EXCEPT !.state = "tls-start"]
      BY <2>1, <2>3
    <3> HIDE DEF r
    <3>3. QED BY <1>1, <3>1, <3>2, MovesOK
  <2>4. QED BY <2>2, <2>3
<1>6. CASE line = "ok" /\ ~(proxy.state = "none" /\ proxy.ssl)
  <2>0. proxy_read_response(line) = "OK" /\ line # "garbage"
    BY <1>6, ResponseKinds
  <2>1. q \in IF proxy.xclient THEN proxy_write_xclient(proxy) ELSE proxy_write_auth(proxy)
    BY <1>6, <2>0 DEF ProxyGreeting
  <2>2. proxy.ssl => proxy.tls
    BY <1>1, <1>6 DEF ProxyOK
  <2>3. CASE ~proxy.xclient
    BY <1>1, <2>1, <2>2, <2>3, AuthOK
  <2>4. CASE proxy.xclient
    <3> DEFINE r == Send(proxy, "XCLIENT")
    <3>1. ProxyOK(r) /\ \A x \in {"state", "ssl", "tls", "seen", "sasl", "answer", "type"} : r[x] = proxy[x]
      BY <1>1, SendOK DEF Commands
    <3>2. r.state \in Waiting /\ (r.ssl => r.tls)
      BY <1>1, <2>2, <3>1
    <3>3. q = [r EXCEPT !.state = "xclient"]
      BY <2>1, <2>4 DEF proxy_write_xclient
    <3> HIDE DEF r
    <3>4. QED BY <3>1, <3>2, <3>3, MovesOK
  <2>5. QED BY <2>3, <2>4
<1>7. QED BY <1>2, <1>3, <1>4, <1>5, <1>6, ResponseKinds

(* The answer to STARTTLS.                                                 *)
LEMMA TlsStartOK ==
  ASSUME ProxyInv, proxy.state = "tls-start", NEW line \in RemoteLines, NEW q \in ProxyTlsStart(line)
  PROVE  ProxyOK(q)
<1>1. ProxyOK(proxy) /\ proxy.state \in Waiting /\ proxy \in ProxyType
  BY DEF ProxyInv, ProxyOK, Waiting
<1>2. CASE line # "ok"
  BY <1>1, <1>2, FailedFrom DEF ProxyTlsStart, Failures
<1>3. CASE line = "ok"
  <2>1. q = [proxy EXCEPT !.state = "tls-ready", !.tls = TRUE, !.sasl = FALSE, !.xclient = FALSE, !.seen = {}]
    BY <1>3 DEF ProxyTlsStart
  <2>2. q \in ProxyType
    <3>1. {} \in SUBSET Capabilities /\ "tls-ready" \in Waiting
      BY DEF Waiting
    <3>2. ASSUME NEW x \in ProxyType
          PROVE  [x EXCEPT !.state = "tls-ready", !.tls = TRUE, !.sasl = FALSE, !.xclient = FALSE, !.seen = {}] \in ProxyType
      BY <3>1 DEF ProxyType
    <3>3. QED BY <1>1, <2>1, <3>2
  <2>3. /\ q.state = "tls-ready" /\ q.tls /\ ~q.sasl /\ q.ssl = proxy.ssl
        /\ q.answer = proxy.answer /\ q.type = proxy.type /\ q.sent = proxy.sent
    BY <1>1, <2>1 DEF ProxyType
  <2>4. Protected(q) /\ Untold(q)
    BY <1>1, <2>3 DEF ProxyOK, Protected, Untold
  <2>5. QED BY <2>2, <2>3, <2>4 DEF ProxyOK
<1>4. QED BY <1>2, <1>3

(* The answer to XCLIENT.                                                  *)
LEMMA XclientOK ==
  ASSUME ProxyInv, proxy.state = "xclient", NEW line \in RemoteLines, NEW q \in ProxyXclient(line)
  PROVE  ProxyOK(q)
<1>1. ProxyOK(proxy) /\ proxy.state \in Waiting /\ (proxy.ssl => proxy.tls)
  BY DEF ProxyInv, ProxyOK, Waiting
<1>2. CASE line # "ok"
  BY <1>1, <1>2, FailedFrom DEF ProxyXclient, Failures
<1>3. CASE line = "ok"
  BY <1>1, <1>3, AuthOK DEF ProxyXclient
<1>4. QED BY <1>2, <1>3

(* The answers to the credentials: a challenge, success, or a refusal that *)
(* is passed on to the client.                                             *)
LEMMA AuthReplyOK ==
  ASSUME ProxyInv, proxy.state = "auth", NEW line \in RemoteLines, NEW q \in ProxyAuth(line)
  PROVE  ProxyOK(q)
<1>1. /\ ProxyOK(proxy) /\ proxy.state \in Waiting /\ (proxy.ssl => proxy.tls) /\ "sasl" \in proxy.seen
      /\ proxy \in ProxyType /\ Untold(proxy) /\ Protected(proxy) /\ (proxy.sasl => "sasl" \in proxy.seen)
  BY DEF ProxyInv, ProxyOK, Waiting
<1>2. CASE line = "challenge"
  <2>1. \/ q = Send(proxy, "RESPONSE")
        \/ q \in managesieve_proxy_failed(proxy, "PROTOCOL") \/ q \in managesieve_proxy_failed(proxy, "INTERNAL")
    BY <1>2 DEF ProxyAuth, BadChallenge
  <2>2. CASE q = Send(proxy, "RESPONSE")
    BY <1>1, <2>2, SendOK DEF Commands
  <2>3. ASSUME NEW type \in {"PROTOCOL", "INTERNAL"}, q \in managesieve_proxy_failed(proxy, type)
        PROVE  ProxyOK(q)
    BY <1>1, <2>3, FailedFrom DEF Failures
  <2>4. QED BY <2>1, <2>2, <2>3
<1>3. ASSUME NEW a \in Replies
      PROVE  Append(proxy.answer, a) \in Seq(Replies) /\ Len(Append(proxy.answer, a)) = 1
  <2>1. proxy.answer \in Seq(Replies) /\ Len(proxy.answer) = 0
    BY <1>1, EmptySeq DEF ProxyType, Untold
  <2>2. QED BY <2>1
<1>4. CASE line = "ok"
  <2> DEFINE a == Append(proxy.answer, "OK")
  <2>1. q = [proxy EXCEPT !.state = "relay", !.answer = a]
    BY <1>4 DEF ProxyAuth
  <2>2. a \in Seq(Replies) /\ Len(a) = 1
    BY <1>3 DEF Replies
  <2> HIDE DEF a
  <2>3. q \in ProxyType
    BY <1>1, <2>1, <2>2 DEF ProxyType
  <2>4. /\ q.state = "relay" /\ q.answer = a /\ q.ssl = proxy.ssl
        /\ q.sasl = proxy.sasl /\ q.seen = proxy.seen /\ q.type = proxy.type /\ q.sent = proxy.sent
    BY <1>1, <2>1 DEF ProxyType
  <2>5. Protected(q)
    BY <1>1, <2>4 DEF Protected
  <2>6. QED BY <1>1, <2>2, <2>3, <2>4, <2>5 DEF ProxyOK, Untold, Waiting
<1>5. CASE line \notin {"challenge", "ok"}
  <2> DEFINE type == managesieve_proxy_parse_auth_reply(line)
             a == IF type = "REPLIED" THEN Append(proxy.answer, "NO") ELSE proxy.answer
             told == [proxy EXCEPT !.answer = a]
  <2>1. type \in Failures
    BY DEF managesieve_proxy_parse_auth_reply, Failures
  <2>2. q \in managesieve_proxy_failed(told, type)
    BY <1>5 DEF ProxyAuth
  <2> HIDE DEF type
  <2>3. a \in Seq(Replies) /\ (IF type = "REPLIED" THEN Len(a) = 1 ELSE a = <<>>)
    <3>1. CASE type = "REPLIED"
      BY <1>3, <3>1 DEF Replies
    <3>2. CASE type # "REPLIED"
      BY <1>1, <3>2 DEF Untold, ProxyType
    <3>3. QED BY <3>1, <3>2
  <2> HIDE DEF a
  <2>4. told \in ProxyType
    BY <1>1, <2>3 DEF ProxyType
  <2>5. /\ told.answer = a /\ told.ssl = proxy.ssl /\ told.sasl = proxy.sasl /\ told.seen = proxy.seen
        /\ told.type = proxy.type /\ told.sent = proxy.sent
    BY <1>1 DEF ProxyType
  <2> HIDE DEF told
  <2>6. Protected(told) /\ told.type = "none"
    BY <1>1, <2>5 DEF Protected, Untold
  <2>7. QED BY <1>1, <2>1, <2>2, <2>3, <2>4, <2>5, <2>6, FailedOK
<1>6. QED BY <1>2, <1>4, <1>5

-----------------------------------------------------------------------------
(* managesieve-proxy.c, over its states, its reconnects and logins one     *)
(* after another: credentials go to the server only on the layer that was  *)
(* asked for and that offers SASL, and every login that ends was answered  *)
(* once.                                                                   *)
THEOREM ProxyIsFaithful == ProxySpec => []ProxyFaithful
<1> DEFINE Step == ProxyNext \/ \E ssl \in BOOLEAN : ProxyConnect(ssl)
<1>0. Disconnected \in ProxyType
  <2>1. <<>> \in Seq(SentType) /\ <<>> \in Seq(Replies)
    BY EmptySeq
  <2>2. QED BY <2>1 DEF Disconnected, ProxyType
<1>1. ASSUME NEW s \in {"off", "none"}, NEW ssl \in BOOLEAN
      PROVE  ProxyOK([Disconnected EXCEPT !.state = s, !.ssl = ssl])
  <2> DEFINE q == [Disconnected EXCEPT !.state = s, !.ssl = ssl]
  <2>2. q \in ProxyType
    BY <1>0 DEF ProxyType, Waiting
  <2>3. q.state = s /\ ~q.sasl /\ q.sent = <<>> /\ q.answer = <<>> /\ q.type = "none"
    <3>1. /\ ~Disconnected.sasl /\ Disconnected.sent = <<>> /\ Disconnected.answer = <<>>
          /\ Disconnected.type = "none"
      <4>1. ~Disconnected.sasl /\ Disconnected.type = "none"
        BY DEF Disconnected
      <4>2. Disconnected.sent = <<>> /\ Disconnected.answer = <<>>
        BY Zenon DEF Disconnected
      <4>3. QED BY <4>1, <4>2
    <3>2. q.state = s /\ q.sasl = Disconnected.sasl /\ q.sent = Disconnected.sent
          /\ q.answer = Disconnected.answer /\ q.type = Disconnected.type
      BY <1>0 DEF ProxyType
    <3>3. QED BY <3>1, <3>2
  <2> HIDE DEF q
  <2>4. Protected(q)
    <3>1. Len(q.sent) = 0
      BY <2>3, EmptySeq
    <3>2. QED BY <3>1 DEF Protected
  <2>5. QED BY <2>2, <2>3, <2>4 DEF ProxyOK, Untold, q
<1>2. ProxyInit => ProxyInv
  <2>1. Disconnected = [Disconnected EXCEPT !.state = "off", !.ssl = FALSE]
    <3>1. Disconnected.state = "off" /\ Disconnected.ssl = FALSE
      BY DEF Disconnected
    <3>2. QED BY <1>0, <3>1 DEF ProxyType
  <2>2. QED BY <1>1, <2>1 DEF ProxyInit, ProxyInv
<1>3. ASSUME ProxyInv, [Step]_proxy PROVE ProxyInv'
  <2>1. CASE UNCHANGED proxy
    BY <1>3, <2>1 DEF ProxyInv
  <2>2. ASSUME NEW ssl \in BOOLEAN, ProxyConnect(ssl) PROVE ProxyInv'
    BY <1>1, <2>2 DEF ProxyConnect, ProxyInv
  <2>3. CASE ProxyDisconnected
    BY <1>3, <2>3, FailedFrom DEF ProxyDisconnected, ProxyInv, Waiting, Failures
  <2>4. CASE managesieve_proxy_parse_line
    <3>1. PICK line \in RemoteLines :
            proxy' \in CASE proxy.state = "none"      -> ProxyGreeting(line, "PROTOCOL")
                         [] proxy.state = "tls-start" -> ProxyTlsStart(line)
                         [] proxy.state = "tls-ready" -> ProxyGreeting(line, "REMOTE")
                         [] proxy.state = "xclient"   -> ProxyXclient(line)
                         [] proxy.state = "auth"      -> ProxyAuth(line)
      BY <2>4 DEF managesieve_proxy_parse_line
    <3>2. CASE proxy.state = "none"
      BY <1>3, <3>1, <3>2, GreetingOK DEF ProxyInv
    <3>3. CASE proxy.state = "tls-start"
      BY <1>3, <3>1, <3>3, TlsStartOK DEF ProxyInv
    <3>4. CASE proxy.state = "tls-ready"
      BY <1>3, <3>1, <3>4, GreetingOK DEF ProxyInv
    <3>5. CASE proxy.state = "xclient"
      BY <1>3, <3>1, <3>5, XclientOK DEF ProxyInv
    <3>6. CASE proxy.state = "auth"
      BY <1>3, <3>1, <3>6, AuthReplyOK DEF ProxyInv
    <3>7. QED BY <2>4, <3>2, <3>3, <3>4, <3>5, <3>6 DEF managesieve_proxy_parse_line
  <2>5. QED BY <1>3, <2>1, <2>2, <2>3, <2>4 DEF ProxyNext
<1>4. ProxyInv => ProxyFaithful
  BY DEF ProxyInv, ProxyOK, Protected, ProxyFaithful, CredentialsProtected, ProxyAnswersOnce
<1>5. QED BY <1>2, <1>3, <1>4, PTL DEF ProxySpec
===============================================================================
