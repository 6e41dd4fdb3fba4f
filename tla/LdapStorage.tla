------------------------------ MODULE LdapStorage ------------------------------
(***************************************************************************)
(* A script kept in an LDAP directory, opened again and again for          *)
(* deliveries: looked up, compared with the stored binary, read and        *)
(* compiled when that is stale, while the directory is updated, the server *)
(* comes and goes and the connection is lost.                              *)
(* Source: storage/ldap/sieve-ldap-script.c, -storage.c, -db.c; the LDAP   *)
(* client library and the server are external.                             *)
(***************************************************************************)
EXTENDS Integers, Sequences, FiniteSets

CONSTANTS AbortAge,      \* DB_LDAP_REQUEST_DISCONNECT_TIMEOUT_SECS in periods of the timer (2)
          DNs,           \* entries the filter of the lookup can match
          MaxVersion,    \* the last version of a script
          MaxCalls,      \* scripts opened
          MaxFaults,     \* losses, server failures, errors and timeouts
          MaxUpdates     \* changes of the directory

(***************************************************************************)
(* The connection of the storage and its request (sieve-ldap-db.c).        *)
(*                                                                         *)
(* A caller sends a request and runs an I/O loop of its own until the      *)
(* request is answered, so request_queue holds one request at most; the    *)
(* queue is kept as that one request and pending_count as a number.  Each  *)
(* handler is a function of a world w: the connection, the request, what   *)
(* the library holds for it (ld), and the assertion that failed, if any.   *)
(***************************************************************************)
NoEntry == [type |-> "null"]
(***************************************************************************)
(*   state     conn_state: "disconnected", "binding", "bound"              *)
(*   bind      default_bind_msgid, -1 for none                             *)
(*   pending   pending_count         io        the input handler is set    *)
(*   to        "none", "bind" (ldap_connection_timeout), "disconnect"      *)
(*   ld        the library's handle is open   next   its next message id   *)
(*   searches  ids of the searches the server has not answered in full     *)
(*   told      entries the server sent, each with the id of its search     *)
(*   inbox     messages that arrived          lost   the peer is gone      *)
(*   queued    req is in the queue                                         *)
(*   req       the caller's request: kind, key, msgid, age, broken (the    *)
(*             library refuses its filter), and what its callback          *)
(*             collected: result, the first entry, and surplus, the        *)
(*             searches that brought another one                           *)
(*   loop      conn->ioloop is set: the caller waits                       *)
(***************************************************************************)
NoRequest == [kind |-> "none", key |-> "", msgid |-> -1, age |-> 0, broken |-> FALSE,
              result |-> NoEntry, surplus |-> {}, round |-> 0]
sieve_ldap_db_init ==
  [state |-> "disconnected", bind |-> -1, pending |-> 0, io |-> FALSE, to |-> "none",
   ld |-> FALSE, next |-> 1, searches |-> {}, told |-> {}, inbox |-> <<>>, lost |-> FALSE,
   queued |-> FALSE, req |-> NoRequest, loop |-> FALSE, panic |-> "none"]
Assert(w, what, cond) == IF cond \/ w.panic # "none" THEN w ELSE [w EXCEPT !.panic = what]

Closed(w) == [w EXCEPT !.state = "disconnected", !.bind = -1, !.pending = 0, !.ld = FALSE, !.next = 1,
                       !.searches = {}, !.told = {}, !.inbox = <<>>, !.lost = FALSE, !.io = FALSE, !.to = "none"]
\* Mutant: a closed connection leaves the request marked as sent.
CloseKeepsId(w) == [Closed(w) EXCEPT !.to = IF w.queued THEN "disconnect" ELSE "none"]
\* Mutant: no timer is left to end the wait for a connection that is gone.
CloseWithoutTimer(w) == [Closed(w) EXCEPT !.req.msgid = -1]
\* A request that was sent counts as not sent; the handle goes with all that it holds.
db_ldap_conn_close(w) ==
  LET w1 == Assert(w, "close", w.pending = 0 \/ (w.queued /\ w.req.msgid # -1)) IN
  [Closed(w1) EXCEPT !.req.msgid = IF w.pending # 0 THEN -1 ELSE @,
                     !.to = IF w.queued THEN "disconnect" ELSE "none"]

(***************************************************************************)
(* The callbacks of lookup_script and read_script.  An entry is [dn,       *)
(* version, search, round]; version 0 is an entry without the script       *)
(* attribute.  NoEntry and the final result end the caller's loop.         *)
(***************************************************************************)
Stop(w) == Assert(w, "stop", w.loop)
sieve_ldap_lookup_script_callback(w, res) ==
  IF res.type # "entry" THEN Stop(w)
  ELSE [w EXCEPT !.req = IF @.result = NoEntry THEN [@ EXCEPT !.result = res]
                         ELSE [@ EXCEPT !.surplus = @ \cup {res.round}]]
sieve_ldap_db_get_script(res) == IF res.version > 0 THEN res ELSE NoEntry
sieve_ldap_read_script_callback(w, res) ==
  CASE res.type # "entry" -> Stop(w)
    [] res.type = "entry" /\ w.req.result = NoEntry ->
         [w EXCEPT !.req.result = sieve_ldap_db_get_script(res)]
    [] OTHER -> [w EXCEPT !.req.result = NoEntry, !.req.surplus = @ \cup {res.round}]
callback(w, res) ==
  IF w.req.kind = "lookup" THEN sieve_ldap_lookup_script_callback(w, res)
                           ELSE sieve_ldap_read_script_callback(w, res)

(***************************************************************************)
(* Connecting and sending.  server is what the library meets: "up";        *)
(* "refuse", where the bind is answered with an error; "tls", where        *)
(* STARTTLS fails; "down".  With SASL the bind is synchronous.  A          *)
(* connection just bound takes the request; an older one may be lost.      *)
(***************************************************************************)
Broken(w) == callback([w EXCEPT !.queued = FALSE], NoEntry)
Sent(w) == [w EXCEPT !.req.msgid = w.next, !.req.round = @ + 1, !.next = @ + 1,
                     !.searches = @ \cup {w.next}, !.pending = @ + 1]
SendQueued(w) ==
  IF ~w.queued \/ w.pending = 1 THEN w
  ELSE LET w1 == Assert(w, "search", w.state = "bound" /\ w.req.msgid = -1)
       IN  IF w.req.broken THEN Broken(w1) ELSE Sent(w1)
db_ldap_connect_finish(w, ok) ==
  IF ~ok THEN [ret |-> -1, w |-> w]
  ELSE [ret |-> 0, w |-> SendQueued([w EXCEPT !.to = "none", !.state = "bound"])]
db_ldap_bind(w, server) ==
  LET w1 == Assert(w, "bind", w.state # "binding" /\ w.bind = -1 /\ w.pending = 0) IN
  IF server = "down" THEN [ret |-> -1, w |-> db_ldap_conn_close(w1)]
  ELSE [ret |-> 0,
        w |-> [w1 EXCEPT !.state = "binding", !.bind = w.next, !.next = @ + 1, !.to = "bind"]]
sieve_ldap_db_connect(w, server, sasl) ==
  IF w.state # "disconnected" THEN [ret |-> 0, w |-> w]
  ELSE LET w1   == [Assert(w, "connect", w.pending = 0) EXCEPT !.ld = TRUE]
           done == IF server = "tls" THEN [ret |-> -1, w |-> w1]
                   ELSE IF sasl THEN db_ldap_connect_finish(w1, server = "up")
                   ELSE db_ldap_bind(w1, server)
       IN  IF done.ret < 0 THEN done ELSE [done EXCEPT !.w.io = TRUE]
ldap_conn_reconnect(w, server, sasl) ==
  LET c == sieve_ldap_db_connect(db_ldap_conn_close(w), server, sasl)
  IN  IF c.ret < 0 THEN db_ldap_conn_close(c.w) ELSE c.w

\* A search fails on a filter, which is the request's fault, or with the connection.
ldap_handle_error(w, server, sasl) == ldap_conn_reconnect(w, server, sasl)
db_ldap_request_search(w, server, sasl) ==
  IF w.queued /\ w.pending = 0 /\ ~w.req.broken /\ w.lost THEN ldap_handle_error(w, server, sasl)
  ELSE SendQueued(w)
\* The searches it can send: the request's, once, when bound.
db_ldap_request_queue_next(w, server, sasl) ==
  LET c == sieve_ldap_db_connect(w, server, sasl)
  IN  IF c.ret < 0 \/ c.w.state # "bound" THEN c.w ELSE db_ldap_request_search(c.w, server, sasl)
\* The queue was empty, so db_ldap_check_limits() finds no request that hangs.
db_ldap_request(w, req, server, sasl) ==
  db_ldap_request_queue_next([w EXCEPT !.req = req, !.queued = TRUE], server, sasl)

(***************************************************************************)
(* Input.  One message is handled after the other for as long as the       *)
(* handler stays set; then the queue goes on, or the loss is noticed.      *)
(***************************************************************************)
db_ldap_default_bind_finished(w, msg) ==
  LET c == db_ldap_connect_finish([Assert(w, "bindfinished", w.pending = 0) EXCEPT !.bind = -1], msg.ok)
  IN  IF c.ret < 0 THEN db_ldap_conn_close(c.w) ELSE c.w
db_ldap_handle_request_result(w, msg) ==
  LET w1 == Assert(w, "result", w.pending > 0) IN
  CASE msg.type = "reference" -> w1
    [] msg.type = "entry"     -> callback(w1, msg)
    [] OTHER -> callback([w1 EXCEPT !.pending = @ - 1, !.queued = FALSE],
                         IF msg.ok THEN msg ELSE NoEntry)
db_ldap_find_request(w, msgid) == w.queued /\ w.req.msgid # -1 /\ w.req.msgid = msgid
db_ldap_handle_result(w, msg) ==
  CASE msg.id = w.bind -> db_ldap_default_bind_finished(w, msg)
    [] msg.id # w.bind /\ db_ldap_find_request(w, msg.id) -> db_ldap_handle_request_result(w, msg)
    [] OTHER -> w                                         \* "Reply with unknown msgid"

\* f[w] handles what is in the inbox of w.
Drained(w, depth) ==
  LET f[n \in 0..depth] ==
        IF n = 0 THEN w
        ELSE LET v == f[n - 1]
             IN  IF ~v.io \/ v.inbox = <<>> THEN v
                 ELSE db_ldap_handle_result([v EXCEPT !.inbox = Tail(@)], Head(v.inbox))
  IN  f[depth]
\* idle: no reply for DB_LDAP_IDLE_RECONNECT_SECS.
ldap_input(w, server, sasl, idle) ==
  LET v == Drained(w, Len(w.inbox)) IN
  CASE ~v.io -> v
    [] v.io /\ ~v.lost -> db_ldap_request_queue_next(v, server, sasl)
    [] OTHER -> IF v.queued \/ ~idle THEN ldap_conn_reconnect(v, server, sasl)
                ELSE db_ldap_conn_close(v)

(***************************************************************************)
(* The timers, and the end of the storage.                                 *)
(***************************************************************************)
ldap_connection_timeout(w) == db_ldap_conn_close(Assert(w, "timeout", w.state = "binding"))
db_ldap_abort_requests(w, age) ==
  IF ~w.queued \/ w.req.age < age THEN w
  ELSE callback([w EXCEPT !.queued = FALSE, !.pending = IF w.req.msgid # -1 THEN @ - 1 ELSE @], NoEntry)
db_ldap_disconnect_timeout(w) ==
  LET w1 == db_ldap_abort_requests(w, AbortAge)
  IN  IF w1.queued THEN w1 ELSE [w1 EXCEPT !.to = "none"]
\* Something must be able to end the loop that is about to run.
db_ldap_wait(w) ==
  IF ~w.queued \/ w.panic # "none" THEN w ELSE [Assert(w, "wait", w.io) EXCEPT !.loop = TRUE]
sieve_ldap_db_unref(w) ==
  LET w1 == db_ldap_abort_requests(w, 0)
      w2 == db_ldap_conn_close(Assert(w1, "unref", w1.pending = 0))
  IN  Assert(w2, "timer", w2.to = "none")

(***************************************************************************)
(* The storage on its connection.                                          *)
(***************************************************************************)
VARIABLES w,             \* the connection
          server,        \* what connecting meets
          settings,      \* sasl: authentication; filter: the library takes the filter;
                         \* modified: entries have the modified attribute
          directory,     \* version of each entry; -1 absent, 0 without a script
          script,        \* sieve_ldap_script: dn, modattr
          binary,        \* the stored binary: dn and modattr of its metadata, the version compiled
          phase,         \* what the caller is doing
          outcome,       \* what the last operation told it
          ran,           \* the version it runs
          disturbed,     \* something went wrong or changed since the script was opened
          calls, faults, updates
vars == <<w, server, settings, directory, script, binary, phase, outcome, ran, disturbed, calls,
          faults, updates>>
storeVars == <<script, binary, phase, outcome, ran, calls>>
worldVars == <<server, settings, directory, faults, updates>>

None == "none"
NoScript == [dn |-> None, modattr |-> -1, version |-> -1]
Init ==
  /\ w = sieve_ldap_db_init
  /\ server = "up" /\ settings \in [sasl : BOOLEAN, filter : BOOLEAN, modified : BOOLEAN]
  /\ directory \in [DNs -> {-1, 1}]
  /\ script = NoScript /\ binary = NoScript
  /\ phase = "closed" /\ outcome = "none" /\ ran = NoScript /\ disturbed = FALSE
  /\ calls = 0 /\ faults = 0 /\ updates = 0

Alive == w.panic = "none"
Waiting == phase \in {"lookup", "reading"}
\* The loop of the caller has ended; nothing else runs before it goes on.
Answered == Waiting /\ ~w.queued
Request(kind, key) == [NoRequest EXCEPT !.kind = kind, !.key = key,
                                        !.broken = kind = "lookup" /\ ~settings.filter]

(***************************************************************************)
(* The script.                                                             *)
(***************************************************************************)
sieve_ldap_db_lookup_script(c) ==
  db_ldap_wait(db_ldap_request(c, Request("lookup", None), server, settings.sasl))
sieve_ldap_script_open ==
  /\ Alive /\ phase = "closed" /\ calls < MaxCalls /\ calls' = calls + 1
  /\ script' = NoScript /\ ran' = NoScript /\ disturbed' = FALSE
  /\ LET c == sieve_ldap_db_connect(w, server, settings.sasl) IN
       IF c.ret < 0 THEN w' = c.w /\ phase' = "closed" /\ outcome' = "critical"
       ELSE w' = sieve_ldap_db_lookup_script(c.w) /\ phase' = "lookup" /\ outcome' = "none"
  /\ UNCHANGED <<binary, worldVars>>
Returned == [w EXCEPT !.loop = FALSE, !.req = NoRequest]
\* The modified attribute is assumed to change whenever the script does.  modifyTimestamp, which
\* doc/locations/ldap.txt has for it, does so once a second.
sieve_ldap_db_get_script_modattr(entry) == IF settings.modified THEN entry.version ELSE -1
\* The first entry; an entry without the modified attribute leaves modattr unset.  A search that failed
\* has no entry either, and is reported as "not found".
LookedUp ==
  /\ Alive /\ phase = "lookup" /\ ~w.queued /\ w' = Returned
  /\ IF w.req.result = NoEntry THEN /\ phase' = "closed" /\ outcome' = "notfound" /\ UNCHANGED script
     ELSE /\ phase' = "open" /\ outcome' = "found"
          /\ script' = [dn |-> w.req.result.dn, version |-> w.req.result.version,
                        modattr |-> sieve_ldap_db_get_script_modattr(w.req.result)]
  /\ UNCHANGED <<binary, ran, disturbed, calls, worldVars>>

\* Mutant: the modified attribute is not compared.
MetadataOfDn(s, b) == IF b.dn # s.dn THEN 0 ELSE 1
sieve_ldap_script_binary_read_metadata(s, b) ==
  IF s.modattr = -1 \/ b.dn # s.dn \/ b.modattr # s.modattr THEN 0 ELSE 1
sieve_ldap_script_binary_load ==
  /\ Alive /\ phase = "open" /\ binary # NoScript
  /\ sieve_ldap_script_binary_read_metadata(script, binary) = 1
  /\ ran' = binary /\ phase' = "closed" /\ outcome' = "loaded"
  /\ UNCHANGED <<w, script, binary, disturbed, calls, worldVars>>
sieve_ldap_script_get_stream ==
  /\ Alive /\ phase = "open"
  /\ binary = NoScript \/ sieve_ldap_script_binary_read_metadata(script, binary) = 0
  /\ w' = db_ldap_wait(db_ldap_request(w, Request("read", script.dn), server, settings.sasl))
  /\ phase' = "reading" /\ outcome' = "none"
  /\ UNCHANGED <<script, binary, ran, disturbed, calls, worldVars>>
sieve_ldap_script_binary_write_metadata(s, version) ==
  [dn |-> s.dn, modattr |-> s.modattr, version |-> version]
\* The script is compiled and saved with what the lookup said of it.
Compiled ==
  /\ Alive /\ phase = "reading" /\ ~w.queued /\ w' = Returned /\ phase' = "closed"
  /\ IF w.req.result = NoEntry THEN outcome' = "noattribute" /\ UNCHANGED <<binary, ran>>
     ELSE LET b == sieve_ldap_script_binary_write_metadata(script, w.req.result.version)
          IN  outcome' = "compiled" /\ binary' = b /\ ran' = b
  /\ UNCHANGED <<script, disturbed, calls, worldVars>>
sieve_ldap_storage_destroy ==
  /\ Alive /\ phase = "closed" /\ calls = MaxCalls
  /\ w' = sieve_ldap_db_unref(w) /\ phase' = "destroyed"
  /\ UNCHANGED <<script, binary, outcome, ran, disturbed, calls, worldVars>>

(***************************************************************************)
(* Input and timers, in the caller's loop or, between its calls, in the    *)
(* program's.                                                              *)
(***************************************************************************)
Running == Alive /\ phase # "destroyed" /\ ~Answered
Input ==
  /\ Running /\ w.io /\ (w.inbox # <<>> \/ w.lost)
  /\ \E idle \in BOOLEAN : w' = ldap_input(w, server, settings.sasl, idle)
  /\ UNCHANGED <<storeVars, disturbed, worldVars>>
BindTimeout ==
  /\ Running /\ w.to = "bind"
  /\ w' = ldap_connection_timeout([w EXCEPT !.req.age = IF w.queued THEN AbortAge ELSE @])
  /\ disturbed' = TRUE /\ UNCHANGED <<storeVars, worldVars>>
Older == [w EXCEPT !.req.age = IF w.queued /\ @ < AbortAge THEN @ + 1 ELSE @]
DisconnectTimeout ==
  /\ Running /\ w.to = "disconnect"
  /\ w' = db_ldap_disconnect_timeout(Older)
  /\ disturbed' = TRUE /\ UNCHANGED <<storeVars, worldVars>>
TimePasses ==
  /\ Running /\ w.queued /\ w.to # "disconnect"
  /\ w' = Older /\ UNCHANGED <<storeVars, disturbed, worldVars>>

(***************************************************************************)
(* The server, the network and the directory.                              *)
(***************************************************************************)
Connected == Alive /\ phase # "destroyed" /\ w.ld /\ ~w.lost
Arrives(m) == w' = [w EXCEPT !.inbox = Append(@, m)]
AnswerBind ==
  /\ Connected /\ w.bind # -1 /\ \A i \in DOMAIN w.inbox : w.inbox[i].id # w.bind
  /\ Arrives([id |-> w.bind, type |-> "bind", ok |-> server # "refuse"])
  /\ UNCHANGED <<storeVars, disturbed, worldVars>>
Matching == {d \in DNs : directory[d] >= 0 /\ w.req.key \in {None, d}}
AnswerEntry ==
  /\ Connected /\ w.queued
  /\ \E id \in w.searches, d \in Matching :
       /\ <<id, d>> \notin w.told
       /\ w' = [w EXCEPT !.told = @ \cup {<<id, d>>},
                         !.inbox = Append(@, [id |-> id, type |-> "entry", dn |-> d, round |-> w.req.round,
                                              version |-> directory[d], ok |-> TRUE])]
  /\ UNCHANGED <<storeVars, disturbed, worldVars>>
AnswerResult ==
  /\ Connected
  /\ \E id \in w.searches :
       /\ w.queued => \A d \in Matching : <<id, d>> \in w.told
       /\ w' = [w EXCEPT !.searches = @ \ {id}, !.told = {},
                         !.inbox = Append(@, [id |-> id, type |-> "result", ok |-> TRUE])]
  /\ UNCHANGED <<storeVars, disturbed, worldVars>>
Fault == faults < MaxFaults /\ faults' = faults + 1 /\ disturbed' = TRUE
AnswerOther ==                            \* an error, a reference, a notice with no request
  /\ Connected /\ Fault
  /\ \/ \E id \in w.searches :
          \/ w' = [w EXCEPT !.searches = @ \ {id}, !.told = {},
                            !.inbox = Append(@, [id |-> id, type |-> "result", ok |-> FALSE])]
          \/ Arrives([id |-> id, type |-> "reference", ok |-> TRUE])
     \/ Arrives([id |-> 0, type |-> "result", ok |-> FALSE])
  /\ UNCHANGED <<storeVars, server, settings, directory, updates>>
Lose ==
  /\ Connected /\ Fault /\ w' = [w EXCEPT !.lost = TRUE]
  /\ server' \in {"up", "down", "refuse", "tls"}
  /\ UNCHANGED <<storeVars, settings, directory, updates>>
ServerBack ==
  /\ Alive /\ phase # "destroyed" /\ server # "up" /\ server' = "up" /\ disturbed' = TRUE
  /\ UNCHANGED <<w, storeVars, settings, directory, faults, updates>>
Update ==
  /\ Alive /\ phase # "destroyed" /\ updates < MaxUpdates /\ updates' = updates + 1 /\ disturbed' = TRUE
  /\ \E d \in DNs : \E v \in {-1, 0, directory[d] + 1} :
       v # directory[d] /\ v <= MaxVersion /\ directory' = [directory EXCEPT ![d] = v]
  /\ UNCHANGED <<w, storeVars, server, settings, faults>>

Caller == sieve_ldap_script_open \/ LookedUp \/ sieve_ldap_script_binary_load
            \/ sieve_ldap_script_get_stream \/ Compiled \/ sieve_ldap_storage_destroy
Loop == Input \/ BindTimeout \/ DisconnectTimeout
Answers == AnswerBind \/ AnswerEntry \/ AnswerResult
Ended == (~Alive \/ phase = "destroyed") /\ UNCHANGED vars
Next == Caller \/ Loop \/ TimePasses \/ Answers \/ AnswerOther \/ Lose \/ ServerBack \/ Update \/ Ended
Spec == Init /\ [][Next]_vars
\* The caller and the loops run, and a server that keeps the connection answers in the end: work
\* that waits is not left waiting.  (Everything that is not work is bounded.)
InputWaits  == Running /\ w.io /\ (w.inbox # <<>> \/ w.lost)
AnswerWaits == Connected /\ w.searches # {}
HasWork == (Alive /\ Answered) \/ InputWaits \/ (Running /\ w.to # "none") \/ AnswerWaits
Work == LookedUp \/ Compiled \/ Loop \/ AnswerEntry \/ AnswerResult
FairSpec == Spec /\ ([]<>~HasWork \/ []<><<Work>>_vars)

TypeOK ==
  /\ w.state \in {"disconnected", "binding", "bound"} /\ w.pending \in 0..1 /\ w.queued \in BOOLEAN
  /\ w.to \in {"none", "bind", "disconnect"} /\ w.req.age \in 0..AbortAge
  /\ directory \in [DNs -> -1..MaxVersion]
  /\ phase \in {"closed", "lookup", "open", "reading", "destroyed"}
  /\ outcome \in {"none", "critical", "found", "notfound", "loaded", "compiled", "noattribute"}

\* While a request is counted as pending it is in the queue with its id, on a connection that is
\* bound, and the library still waits for its answer or holds it: no reconnect, timeout or late
\* message leaves a request that is neither sent nor going to be sent.
PendingIsSent ==
  /\ w.pending = 1 <=> (w.queued /\ w.req.msgid # -1)
  /\ w.pending = 1 => /\ w.state = "bound" /\ w.ld
                      /\ \/ w.req.msgid \in w.searches \/ w.lost
                         \/ \E i \in DOMAIN w.inbox : w.inbox[i].id = w.req.msgid /\ w.inbox[i].type = "result"

\* A caller that waits can be woken: input is watched or a timer runs, and it is the timer that
\* fits the state of the connection (the assertions in ldap_connection_timeout() and unref()).
WaitIsWatched ==
  Alive => /\ (Waiting /\ w.queued => w.io \/ w.to # "none")
           /\ (w.to = "bind" <=> w.state = "binding") /\ (w.to = "disconnect" => ~w.io /\ w.queued)

\* The assertions of sieve-ldap-db.c hold, but for two: the caller's loop is entered without input
\* when the connection is found gone and cannot be made anew, and a filter the library refuses is
\* answered before there is a loop to stop.
NoPanic == w.panic = "none" \/ (w.panic = "wait" /\ server # "up") \/ (w.panic = "stop" /\ ~settings.filter)

\* An old version is not run: what is run was compiled from the entry that was looked up, and is
\* no older than that entry was.
RunsCurrent == ran # NoScript => ran.dn = script.dn /\ ran.version >= script.version

\* When nothing failed or changed since the script was opened, it is found if it is there: a late
\* answer to an earlier request, or a second search, is not taken for this one's.
FoundIfThere ==
  (~disturbed /\ settings.filter /\ outcome \in {"notfound", "noattribute"} /\ phase = "closed")
    => IF outcome = "notfound" THEN \A d \in DNs : directory[d] = -1 ELSE directory[script.dn] <= 0

\* An entry is refused as one too many only when the search had to be sent again.
SurplusByRetry == (w.req.kind = "read" /\ w.req.surplus # {}) => w.req.round > 1

\* Every lookup and every read comes to an end.
AllReturn == (Waiting /\ Alive) ~> (~Waiting \/ ~Alive)

\* sieve-ldap-db.c, whatever is lost, late or refused: a request is sent or will be, somebody can wake the one
\* who waits for it, and no assertion fails.
RequestsSound == TypeOK /\ PendingIsSent /\ WaitIsWatched /\ NoPanic

\* sieve-ldap-script.c: the script that is in the directory is the one that is found, unless a search failed
\* or the directory changed, and run, as far as its modified attribute tells.
FindsCurrent == RunsCurrent /\ FoundIfThere /\ SurplusByRetry
================================================================================
