------------------------------ MODULE ImapFilter ------------------------------
(***************************************************************************)
(* The FILTER command.  Its arguments are read asynchronously: script name *)
(* or text, then the search key; then the messages are filtered, a few at  *)
(* a time.  The client may disconnect whenever the command waits.          *)
(***************************************************************************)
EXTENDS ImapSession

Held == {"lock", "parser", "sieve"}
Tag(f)  == [f EXCEPT !.tagged = @ + 1]
Ended(f) == [f EXCEPT !.state = "ended"]
\* imap_filter_deinit: everything is released; a transaction is committed by the next step.
\* Mutant: the flush callback of the output is not set again.
DeinitForgets(f) == [Ended(f) EXCEPT !.held = {}]
imap_filter_deinit(f) == [Ended(f) EXCEPT !.callback = TRUE, !.held = {}]
imap_filter_context_free(f) == [Ended(f) EXCEPT !.held = @ \ {"sieve"}]
\* The client is disconnected, without a tagged reply.
Dropped(f) == [f EXCEPT !.gone = TRUE]
Set(f) == filter' = f /\ UNCHANGED <<box, copied, user, trans, job, log>>
In(s)  == Idle /\ filter.state = s

cmd_filter ==
  /\ Idle /\ user.cmd = "none" /\ filter.state = "off" /\ ~filter.gone /\ user.count < MaxCommands
  /\ user' = [user EXCEPT !.cmd = "filter", !.count = @ + 1] /\ log' = NoLog
  /\ filter' \in {Ended(Tag(NoFilter))} \cup       \* no mailbox, or not a SIEVE filter of a known type
                 {[NoFilter EXCEPT !.state = s, !.held = Held, !.callback = FALSE] : s \in {"delivery", "name", "value"}}
  /\ UNCHANGED <<box, copied, trans, job>>

\* Scripts as they are opened and compiled; none on failure.
imap_filter_sieve_open_personal == {<<>>, <<Script(TRUE)>>}
imap_sieve_filter_open_script(s) == {[s EXCEPT !.bin = TRUE, !.opens = 1], [s EXCEPT !.opens = 1]}
imap_filter_sieve_compile(scripts) ==
  IF scripts = <<>> THEN {<<>>}
  ELSE {IF s.bin THEN <<s>> ELSE <<>> : s \in imap_sieve_filter_open_script(scripts[1])}
\* cmd_filter_sieve_compile_script: errors are sent untagged, the tagged reply follows
cmd_filter_sieve_compile_script(f, scripts) ==
  {IF c = <<>> THEN imap_filter_deinit(Tag(f)) ELSE [f EXCEPT !.state = "search", !.scripts = c] : c \in imap_filter_sieve_compile(scripts)}
Compiled(f) == UNION {cmd_filter_sieve_compile_script(f, scripts) : scripts \in imap_filter_sieve_open_personal}
cmd_filter_sieve_delivery ==
  /\ In("delivery") /\ \E f \in Compiled(filter) : Set(f)
\* The argument is not a name (tagged BAD), or its literal is too big for the parser (no reply).
BadArgument(f) == {imap_filter_deinit(Tag(f)), Dropped(imap_filter_deinit(f))}
cmd_filter_sieve_script_parse_name ==
  /\ In("name") /\ \E f \in BadArgument(filter) \cup Compiled(filter) : Set(f)
\* A script that is too large is answered at once; a non-synchronising literal is read nevertheless.
cmd_filter_sieve_script_parse_value ==
  /\ In("value")
  /\ \E f \in {[filter EXCEPT !.state = "literal"],
               [Tag(filter) EXCEPT !.state = "literal", !.big = TRUE]} \cup BadArgument(filter) \cup Compiled(filter) : Set(f)
\* The client may disconnect before the literal has ended.
cmd_filter_sieve_script_read_stream ==
  /\ In("literal")
  /\ \E f \in {Dropped(imap_filter_deinit(filter))} \cup
             (IF filter.big THEN {imap_filter_deinit(filter)} ELSE Compiled(filter)) : Set(f)

\* The search key.  On an error the command ends without imap_filter_deinit.  A search program that
\* has to wait for another command (imap_search_args_build is 0) releases the sieve context, and
\* the command, when it is run again, uses it.
imap_filter_search ==
  /\ In("search")
  /\ \/ Set(Ended(Tag(filter)))                              \* syntax error
     \/ Set(Dropped(Ended(filter)))                          \* literal too big
     \/ Set(imap_filter_context_free(Tag(filter)))           \* bad charset or search argument
     \/ "sieve" \in filter.held /\ Set([filter EXCEPT !.held = @ \ {"sieve"}])
     \/ "sieve" \notin filter.held /\ Panic                  \* imap_sieve_filter_run_init
     \/ "sieve" \in filter.held /\ Set(imap_filter_deinit(Tag(filter)))     \* no script environment
     \/ \E todo \in SUBSET {u \in Uids : There(u)} :
          /\ "sieve" \in filter.held
          /\ filter' = [filter EXCEPT !.state = "more", !.todo = todo]
          /\ trans' = imap_sieve_mailbox_transaction_begin
          /\ UNCHANGED <<box, copied, user, job, log>>

\* One message; between two of them the command may wait.
imap_filter_mail ==
  /\ In("more") /\ filter.todo # {}
  /\ \E u \in filter.todo, r \in imap_sieve_filter_run_scripts(filter.scripts) :
       IF Panics(r) THEN Panic
       ELSE /\ filter' = [filter EXCEPT !.scripts = r.scripts, !.todo = IF r.fatal THEN {} ELSE @ \ {u}]
            /\ trans' = IF r.ret > 0 THEN [imap_sieve_mail_update_flags(trans, u) EXCEPT !.marked = @ \cup {u}] ELSE trans
            /\ Logged("filter", u, r)
            /\ UNCHANGED <<box, copied, user, job>>
imap_filter_more ==
  /\ In("more") /\ filter.todo = {}
  /\ filter' = [imap_filter_deinit(filter) EXCEPT !.reply = TRUE] /\ log' = NoLog /\ UNCHANGED <<box, copied, user, trans, job>>

\* The end of imap_filter_more, after the commit and the scripts of imapsieve: box error or OK.
\* What ended otherwise has nothing left to say.
FilterReply ==
  /\ Idle /\ filter.state = "ended" /\ ~trans.open
  /\ filter' = [filter EXCEPT !.state = "done", !.reply = FALSE, !.tagged = IF filter.reply THEN @ + 1 ELSE @]
  /\ UNCHANGED <<box, copied, user, trans, job, log>>
\* The next command finds the output as FILTER left it.
FilterDone ==
  /\ Idle /\ filter.state = "done"
  /\ filter' = [NoFilter EXCEPT !.callback = filter.callback, !.gone = filter.gone] /\ user' = [user EXCEPT !.cmd = "none"]
  /\ UNCHANGED <<box, copied, trans, job, log>>

\* The client disconnects: the command is called once more, with cmd->cancel, to cancel itself.
\* While the search key is read nothing looks at cmd->cancel, so that the command does not end; what
\* the IMAP server makes of that is not modelled.  (DELIVERY never waits before the search key.)
Cancel ==
  /\ Idle
  /\ \/ /\ filter.state \in {"name", "value", "literal", "more"}
        /\ filter' = Dropped(imap_filter_deinit(filter))
     \/ /\ filter.state = "search"
        /\ filter' = Dropped([filter EXCEPT !.state = "left"])
  /\ UNCHANGED <<box, copied, user, trans, job, log>>

SieveNext == imap_sieve_command_pre \/ imap_sieve_mailbox_save_finish \/ imap_sieve_mailbox_copy \/ imap_sieve_mail_close
             \/ imap_sieve_mailbox_transaction_commit \/ imap_sieve_mailbox_transaction_rollback
             \/ imap_sieve_command_post \/ TransactionRun \/ RunMain \/ RunFlag \/ imap_sieve_mailbox_run_copy_source
             \/ RunEnds
FilterNext == cmd_filter \/ cmd_filter_sieve_delivery \/ cmd_filter_sieve_script_parse_name
              \/ cmd_filter_sieve_script_parse_value \/ cmd_filter_sieve_script_read_stream \/ imap_filter_search
              \/ imap_filter_mail \/ imap_filter_more \/ FilterReply \/ FilterDone
Next == SieveNext \/ FilterNext \/ Cancel \/ Expunge
Spec     == Init /\ [][Next]_vars
\* A command in progress goes on: the server runs it until it waits and again when it can go on.
FairSpec == Spec /\ WF_vars((user.cmd # "none") /\ (SieveNext \/ FilterNext))

(***************************************************************************)
(* Properties                                                              *)
(***************************************************************************)
\* Types; scripts of imapsieve run only inside a commit, and never for their own changes.
ImapTypeOK ==
  /\ \A u \in Uids : box[u] \in {"none", "there", "deleted", "gone"}
  /\ user.active = (job.step # "off") /\ filter.tagged \in 0..1
  /\ job.step \in {"main", "iflag", "source", "commit"} => trans.open
  /\ job.step # "off" => filter.state \in {"off", "ended"}

\* A message is given up only when a sequence of scripts has ended well without keeping it:
\* never for a FLAG event, and never after an error.  (A sequence that was stopped by a script
\* that does not compile, and then failed to store, is reported as "discard"; see KeepIsKept.)
GivenUpOnPurpose ==
  [][\A u \in Uids : box[u] = "there" /\ box'[u] \in {"deleted", "gone"} /\ job.step \in {"main", "iflag"} /\ log' # log =>
       LET run == log'.last
       IN user.cmd \in {"append", "copy", "move"} /\ run.uid = u /\ run.why \in {"discarded", "aborted"}]_vars

\* "Aborted script execution sequence with successful implicit keep": the message stays.
KeepIsKept == log.last.why = "aborted" => log.last.ret <= 0

\* Each kind of script sees a message at most once in a transaction, however its flags and
\* content were changed in it.
OncePerMessage == ~log.twice

\* A script that could not be opened is not opened again for the other messages; opening again
\* is left for a binary that proves to be corrupt.
OpenedOnce ==
  \A s \in {job.main, job.iflag, job.source, filter.scripts} : \A i \in 1..Len(s) : s[i].opens <= IF s[i].again THEN 2 ELSE 1

\* Every FILTER is answered once, unless its client is gone, and leaves the session's output with
\* its flush callback and nothing held; only an error in the search key ends it without
\* imap_filter_deinit.
FilterCleansUp ==
  [][filter.state # "ended" /\ filter'.state = "ended" /\ filter.state \notin {"off", "search"} =>
       filter'.callback /\ filter'.held = {}]_vars
FilterAnswered == filter.state = "done" /\ ~filter.gone => filter.tagged = 1
\* A command that waits cancels itself when the client disconnects.  Refuted: not one that waits for
\* its search key.
FilterCancels == filter.state # "left"

\* Every command ends, and with it the scripts that it started; but for one that did not cancel
\* itself (FilterCancels).
CommandsEnd == [](user.cmd # "none" => <>(user.cmd = "none" \/ ~user.alive \/ filter.state = "left"))

\* imap_sieve_mailbox_transaction_run: scripts see each message once, inside the commit, and a message is given
\* up only because a script says so.
MessagesHandledOnce == [](ImapTypeOK /\ OncePerMessage /\ OpenedOnce) /\ GivenUpOnPurpose

\* cmd_filter, on each of the ways it can end: exactly one tagged answer if the client is still
\* there, and the session as it was before unless the search key was wrong.
FilterEnds == []FilterAnswered /\ FilterCleansUp
===============================================================================
