----------------------------- MODULE ImapSession ------------------------------
(***************************************************************************)
(* An IMAP session with the imapsieve and imap-filter-sieve plugins.       *)
(* Sources: imap-sieve-storage.c (hooks on commands, transactions and      *)
(* mails), cmd-filter.c, cmd-filter-sieve.c, imap-filter.c (the FILTER     *)
(* command).  The IMAP server and its mail storage are Dovecot's.          *)
(*                                                                         *)
(* A command changes messages in a transaction; when it is committed, the  *)
(* plugin runs scripts for the messages that were saved or changed, and    *)
(* may delete them.  FILTER runs a script on chosen messages; its own      *)
(* flag changes are a command like any other to imapsieve.                 *)
(***************************************************************************)
EXTENDS Integers, Sequences, FiniteSets

CONSTANTS Uids,        \* messages the mailbox may hold, 1..n
          MaxEvents,   \* events of a transaction
          MaxCommands  \* commands of a session

ASSUME ImapAssumption == IsFiniteSet(Uids) /\ Uids \subseteq Nat \ {0} /\ MaxEvents \in Nat /\ MaxCommands \in Nat

VARIABLES box,         \* uid -> "none", "there", "deleted" or "gone"
          copied,      \* uid -> its source message is "there" or "deleted"
          user,        \* imap_sieve_user: cur_cmd, sieve_active; number of commands
          trans,       \* the command's transaction
          job,         \* imap_sieve_mailbox_transaction_run in progress
          filter,      \* the FILTER command in progress
          log          \* script runs of this transaction: seen <<run, uid>>, twice, the last one

vars == <<box, copied, user, trans, job, filter, log>>

NoTrans  == [open |-> FALSE, hooked |-> FALSE, events |-> <<>>, changed |-> FALSE, saved |-> <<>>, touched |-> {}, marked |-> {}]
NoJob    == [step |-> "off", i |-> 0, main |-> <<>>, iflag |-> <<>>, source |-> <<>>, fatal |-> FALSE]
\* tagged: tagged replies sent; reply: one is to be sent once the transaction is committed;
\* callback: the output has its flush callback; held: what the command holds (input_lock, parser,
\* sieve context); gone: the client was disconnected, or did so itself
NoLog    == [seen |-> {}, twice |-> FALSE, last |-> [uid |-> 0, why |-> "kept", ret |-> 0]]
NoFilter == [state |-> "off", scripts |-> <<>>, todo |-> {}, tagged |-> 0, reply |-> FALSE, callback |-> TRUE, held |-> {},
             big |-> FALSE, gone |-> FALSE]
Init == /\ box \in {[u \in Uids |-> IF u <= n THEN "there" ELSE "none"] : n \in {0} \cup Uids} /\ copied = [u \in Uids |-> "there"]
        /\ user = [cmd |-> "none", active |-> FALSE, count |-> 0, alive |-> TRUE]
        /\ trans = NoTrans /\ job = NoJob /\ filter = NoFilter /\ log = NoLog

(***************************************************************************)
(* Running a sequence of scripts for one message.  Sources: imap-sieve.c   *)
(* (IMAPSIEVE events), imap-filter-sieve.c (FILTER).  Both keep, for the   *)
(* scripts of a run, the binary and what went wrong with it, from one      *)
(* message to the next.  What a script does is left open: every operator   *)
(* returns the set of outcomes.  How a multiscript sequence behaves is     *)
(* SieveExecution's matter; here it is its status and whether it is still  *)
(* active.                                                                 *)
(***************************************************************************)

\* imap_sieve_run_script: user_script, binary, compile_error, binary_corrupt, rusage_exceeded;
\* opens counts how often the script was opened, again: a corrupt binary was
Script(own) == [user |-> own, bin |-> FALSE, err |-> "none", corrupt |-> FALSE, exceeded |-> FALSE, opens |-> 0,
                 again |-> FALSE]

(***************************************************************************)
(* A sequence under way: scripts, its status, active, err (compile_error), *)
(* exceeded (rusage_exceeded), ran (last_script), stop (the loop ended).   *)
(***************************************************************************)
sieve_multiscript_start_execute(scripts) ==
  [scripts |-> scripts, status |-> "ok", keep |-> TRUE, err |-> "none", exceeded |-> FALSE, ran |-> FALSE, stop |-> FALSE]

imap_sieve_run_open_script(m, i) ==
  LET s == [m.scripts[i] EXCEPT !.opens = @ + 1]
  IN {[m EXCEPT !.scripts[i] = [s EXCEPT !.bin = TRUE]]} \cup
     {[m EXCEPT !.err = e, !.stop = TRUE, !.scripts[i] = [s EXCEPT !.err = e, !.bin = FALSE]] : e \in {"invalid", "temp"}}

sieve_multiscript_run(m, i) ==
  {[m EXCEPT !.status = "ok", !.keep = k, !.stop = ~k] : k \in BOOLEAN} \cup
  {[m EXCEPT !.status = s, !.stop = TRUE] : s \in {"failure", "temp", "corrupt", "limit"}}

\* The sequence has ended, so that executing again what was opened again does nothing.
Reopened(m, i) ==
  IF m.status # "corrupt" \/ m.scripts[i].corrupt THEN {m}
  ELSE {m} \cup {IF r.err # "none" THEN r ELSE [r EXCEPT !.scripts[i].corrupt = TRUE] :
                   r \in imap_sieve_run_open_script([m EXCEPT !.scripts[i] = [@ EXCEPT !.bin = FALSE, !.again = TRUE]], i)}
sieve_record_resource_usage(m, i) ==
  IF m.err # "none" \/ ~m.scripts[i].user THEN {m}
  ELSE {m, [m EXCEPT !.scripts[i].exceeded = TRUE, !.exceeded = (i < Len(m.scripts) /\ ~m.stop), !.stop = TRUE]}

Execute(m, i) == UNION {UNION {sieve_record_resource_usage(q, i) : q \in Reopened(r, i)} : r \in sieve_multiscript_run(m, i)}
RunScript(m0, i) ==
  LET m == [m0 EXCEPT !.ran = TRUE]
      s == m.scripts[i]
  IN CASE s.exceeded -> {[m EXCEPT !.exceeded = TRUE, !.stop = TRUE]}
       [] ~s.exceeded /\ ~s.bin /\ s.err # "none" -> {[m EXCEPT !.err = s.err, !.stop = TRUE]}
       [] ~s.exceeded /\ s.bin -> Execute(m, i)
       [] OTHER -> UNION {IF r.err # "none" THEN {r} ELSE Execute(r, i) : r \in imap_sieve_run_open_script(m, i)}

\* The scripts one after the other; FILTER leaves out scripts without a binary.
Sequence(scripts, filtering) ==
  LET f[i \in 0..Len(scripts)] ==
        IF i = 0 THEN {sieve_multiscript_start_execute(scripts)}
        ELSE UNION {IF m.stop \/ (filtering /\ ~m.scripts[i].bin) THEN {m} ELSE RunScript(m, i) : m \in f[i - 1]}
  IN f[Len(scripts)]

\* The transactions of the stores are committed here and may fail; implicit keep follows.
sieve_multiscript_finish(m) ==
  CASE m.err = "temp"       -> {"temp"}
    [] m.err # "temp" /\ m.exceeded -> {"limit"}
    [] m.status = "ok"      -> {"ok", "failure", "keep-failed", "temp"}
    [] m.status = "failure" -> {"failure", "keep-failed"}
    [] OTHER -> {m.status}

\* ret: 1 the message may be discarded, 0 it stays, -1 error.  "corrupt" never gets this far:
\* sieve_result_execute() is i_unreached() for it.
imap_sieve_handle_exec_status(status, keep) ==
  CASE status = "ok" -> IF keep THEN 0 ELSE 1
    [] status \in {"failure", "keep-failed"} -> 0
    [] OTHER -> -1
imap_sieve_filter_handle_exec_status(status, keep) ==
  IF status = "ok" THEN (IF keep THEN 0 ELSE 1) ELSE -1
Result(m, status, ret) ==
  [ret |-> ret, fatal |-> status \in {"temp", "limit", "corrupt"}, status |-> status, keep |-> m.keep,
   err |-> m.err, scripts |-> m.scripts]

imap_sieve_run_scripts(scripts) ==
  UNION {{Result(m, s, IF m.err # "none" /\ s = "failure" THEN 1 ELSE imap_sieve_handle_exec_status(s, m.keep))
            : s \in sieve_multiscript_finish(m)} : m \in Sequence(scripts, FALSE)}
imap_sieve_filter_run_scripts(scripts) ==
  UNION {{Result(m, s, IF m.err # "none" /\ s = "failure" THEN 0
                       ELSE IF ~m.ran /\ s = "ok" THEN 0
                       ELSE imap_sieve_filter_handle_exec_status(s, m.keep))
            : s \in sieve_multiscript_finish(m)} : m \in Sequence(scripts, TRUE)}

There(u)   == box[u] \in {"there", "deleted"}
Idle       == user.alive /\ job.step = "off"
At(step)   == user.alive /\ job.step = step
Other      == UNCHANGED <<job, filter, log>>

(***************************************************************************)
(* Commands and their transactions                                         *)
(***************************************************************************)
\* The transactions of scripts (sieve_active) get no hooks, and make no events.
imap_sieve_mailbox_transaction_begin == [NoTrans EXCEPT !.open = TRUE, !.hooked = ~user.active]
imap_sieve_command_pre ==
  /\ Idle /\ user.cmd = "none" /\ filter.state = "off" /\ ~filter.gone /\ user.count < MaxCommands
  /\ \E c \in {"append", "copy", "move", "store", "other"} : user' = [user EXCEPT !.cmd = c, !.count = @ + 1]
  /\ trans' = imap_sieve_mailbox_transaction_begin /\ log' = NoLog
  /\ UNCHANGED <<box, copied, job, filter>>

\* The event that the mail object made last (event_idx) is used again if it is of the same message.
\* One mail object makes the events of a transaction, the one that is saved to or the one of the
\* search, so that its last event is the last of all.
Event(save, uid, flags, src) == [save |-> save, uid |-> uid, flags |-> flags, src |-> src]
\* Mutant: every change of a message makes an event of its own.
AlwaysNewEvent(events, e) == Append(events, e)
imap_sieve_create_mailbox_event(events, e) ==
  IF events # <<>> /\ events[Len(events)].save = e.save /\ events[Len(events)].uid = e.uid
  THEN [events EXCEPT ![Len(events)].flags = @ \/ e.flags]
  ELSE Append(events, e)
imap_sieve_add_mailbox_event(tr, e) == IF ~tr.hooked THEN tr
              ELSE [tr EXCEPT !.events = imap_sieve_create_mailbox_event(@, e), !.changed = @ \/ e.flags]

\* The source message is remembered with the event.
imap_sieve_add_mailbox_copy_event(tr, e) == imap_sieve_add_mailbox_event(tr, e)

\* A message is saved (APPEND) or copied; its flags may be changed on the way.
Saves(cmd) ==
  /\ Idle /\ user.cmd = cmd /\ trans.open /\ Len(trans.events) < MaxEvents
  /\ \E u \in Uids, flags \in BOOLEAN :
       /\ u = Cardinality({v \in Uids : box[v] # "none"}) + Len(trans.saved) + 1
       /\ LET n  == Len(trans.saved)
              e1 == Event(n, 0, FALSE, IF cmd = "append" THEN 0 ELSE u)
              t1 == imap_sieve_add_mailbox_copy_event(trans, e1)
              t2 == IF flags THEN imap_sieve_add_mailbox_event(t1, [e1 EXCEPT !.flags = TRUE]) ELSE t1
          IN trans' = [t2 EXCEPT !.saved = Append(@, u)]
  /\ UNCHANGED <<box, copied, user>> /\ Other
imap_sieve_mailbox_save_finish == Saves("append")
imap_sieve_mailbox_copy        == Saves("copy") \/ Saves("move")

\* imap_sieve_mail_update_flags and _keywords remember the change, imap_sieve_mail_close adds the event.
imap_sieve_mail_update_flags(tr, u) == IF ~There(u) THEN tr ELSE [imap_sieve_add_mailbox_event(tr, Event(Len(tr.saved), u, TRUE, 0)) EXCEPT !.touched = @ \cup {u}]
imap_sieve_mail_close ==
  /\ Idle /\ user.cmd \in {"store", "other"} /\ trans.open /\ Len(trans.events) < MaxEvents
  /\ \E u \in Uids : box[u] # "none" /\ u \notin trans.touched /\ trans' = imap_sieve_mail_update_flags(trans, u)
  /\ UNCHANGED <<box, copied, user>> /\ Other

Committed == [u \in Uids |-> IF u \in {trans.saved[i] : i \in 1..Len(trans.saved)} THEN "there"
                               ELSE IF u \in trans.marked /\ There(u) THEN "deleted" ELSE box[u]]
\* Scripts run after a successful commit; what they save themselves makes no events.
imap_sieve_mailbox_transaction_commit ==
  /\ Idle /\ user.cmd # "none" /\ trans.open /\ filter.state \in {"off", "ended"}
  /\ box' = Committed
  /\ job' = [NoJob EXCEPT !.step = "init"] /\ user' = [user EXCEPT !.active = TRUE]
  /\ UNCHANGED <<copied, trans, filter, log>>
imap_sieve_mailbox_transaction_rollback ==
  /\ Idle /\ user.cmd # "none" /\ trans.open /\ filter.state = "off"
  /\ trans' = NoTrans /\ UNCHANGED <<box, copied, user, job, filter, log>>
imap_sieve_command_post ==
  /\ Idle /\ user.cmd # "none" /\ ~trans.open /\ filter.state = "off"
  /\ user' = [user EXCEPT !.cmd = "none"] /\ UNCHANGED <<box, copied, trans, job, filter, log>>
\* Another session expunges a message.
Expunge ==
  /\ user.alive /\ user.cmd # "none" /\ \E u \in Uids : There(u) /\ box' = [box EXCEPT ![u] = "gone"]
  /\ UNCHANGED <<copied, user, trans, job, filter, log>>

(***************************************************************************)
(* imap_sieve_mailbox_transaction_run                                      *)
(***************************************************************************)
ScriptLists == {<<Script(FALSE), Script(TRUE)>>}
EndJob == /\ job' = NoJob /\ user' = [user EXCEPT !.active = FALSE] /\ trans' = NoTrans

\* imap_sieve_run_init: "err", no scripts (<<>>), or scripts
imap_sieve_run_init == {<<>>} \cup ScriptLists
Single == {<<>>, <<Script(TRUE)>>}
TransactionRun ==
  /\ At("init")
  /\ LET implicit == user.cmd \in {"append", "copy", "move"} /\ trans.changed
     IN \/ EndJob            \* no events, no script attribute, an error, or no scripts at all
        \/ \E main \in imap_sieve_run_init, source \in Single, iflag \in Single :
             /\ trans.events # <<>>
             /\ source # <<>> => main # <<>> /\ user.cmd = "copy"
             /\ iflag # <<>> => implicit
             /\ main # <<>> \/ iflag # <<>>
             /\ job' = [NoJob EXCEPT !.step = "main", !.i = 1, !.main = main, !.source = source, !.iflag = iflag]
             /\ UNCHANGED <<user, trans>>
  /\ UNCHANGED <<box, copied, filter, log>>

Current == trans.events[job.i]
UidOf(e) == IF e.uid > 0 THEN e.uid ELSE trans.saved[e.save + 1]
\* Mutant: the loop over the events does not advance.
SameEvent(j) == [j EXCEPT !.step = "main"]
NextEvent(j) == [j EXCEPT !.step = "main", !.i = @ + 1]
can_discard == user.cmd \in {"append", "copy", "move"}
\* How the sequence ended, as far as the message is concerned
Why(r) == CASE r.err = "none" /\ r.status = "ok" /\ ~r.keep -> "discarded"
            [] r.err # "none" /\ r.status = "failure" -> "aborted"
            [] OTHER -> "kept"
Record(run, u, r) ==
  [seen |-> log.seen \cup {<<run, u>>}, twice |-> log.twice \/ <<run, u>> \in log.seen,
   last |-> [uid |-> u, why |-> Why(r), ret |-> r.ret]]
Logged(run, u, r) == log' = Record(run, u, r)

\* imap_sieve_expunge_discarded decides between the flag \Deleted and expunging.
Discard(u, r) ==
  IF r.ret <= 0 \/ ~can_discard \/ ~There(u) THEN {box}
  ELSE {[box EXCEPT ![u] = "deleted"], [box EXCEPT ![u] = "gone"]}

Panics(r) == r.status = "corrupt"
Panic == user' = [user EXCEPT !.alive = FALSE] /\ UNCHANGED <<box, copied, trans, job, filter, log>>

RunMain ==
  /\ At("main") /\ job.i <= Len(trans.events)
  /\ LET u == UidOf(Current)
     IN \/ /\ ~There(u)                      \* already gone
           /\ job' = NextEvent(job) /\ UNCHANGED <<box, copied, user, trans, filter, log>>
        \/ /\ There(u) /\ job.main = <<>>
           /\ job' = [job EXCEPT !.step = "iflag"] /\ UNCHANGED <<box, copied, user, trans, filter, log>>
        \/ /\ There(u) /\ job.main # <<>>
           /\ \E r \in imap_sieve_run_scripts(job.main) :
                IF Panics(r) THEN Panic
                ELSE /\ Logged("main", u, r)
                     /\ box' \in IF r.fatal THEN {box} ELSE Discard(u, r)
                     /\ LET j == [job EXCEPT !.main = r.scripts]
                        IN job' = CASE r.fatal -> [j EXCEPT !.step = "commit"]
                                    [] ~r.fatal /\ r.ret < 0 -> NextEvent(j)
                                    [] OTHER -> [j EXCEPT !.step = IF box'[u] = "gone" THEN "source" ELSE "iflag"]
                     /\ UNCHANGED <<copied, user, trans, filter>>

\* The FLAG scripts after APPEND or COPY with flags.  Whether the failure is fatal is not looked at.
RunFlag ==
  /\ At("iflag")
  /\ LET u == UidOf(Current)
     IN IF job.iflag = <<>>
        THEN job' = [job EXCEPT !.step = "source"] /\ UNCHANGED <<box, copied, user, trans, filter, log>>
        ELSE \E r \in imap_sieve_run_scripts(job.iflag) :
               IF Panics(r) THEN Panic
               ELSE /\ Logged("iflag", u, r)
                    /\ box' \in Discard(u, r)
                    /\ LET j == [job EXCEPT !.iflag = r.scripts]
                       IN job' = IF r.ret < 0 THEN NextEvent(j) ELSE [j EXCEPT !.step = "source"]
                    /\ UNCHANGED <<copied, user, trans, filter>>

imap_sieve_mailbox_run_copy_source ==
  /\ At("source")
  /\ LET u == Current.src
     IN \/ /\ job.source = <<>> \/ u # 0      \* no scripts, or the source message is gone
           /\ job' = NextEvent(job) /\ UNCHANGED <<box, copied, user, trans, filter, log>>
        \/ /\ job.source # <<>>
           /\ \E r \in imap_sieve_run_scripts(job.source) :
               IF u = 0 \/ Panics(r) THEN Panic      \* i_assert(mevent->src_mail_uid > 0)
               ELSE /\ Logged("source", u, r)
                    /\ copied' = IF r.ret > 0 THEN [copied EXCEPT ![u] = "deleted"] ELSE copied
                    /\ LET j == [job EXCEPT !.source = r.scripts]
                       IN job' = IF r.fatal THEN [j EXCEPT !.step = "commit"] ELSE NextEvent(j)
                    /\ UNCHANGED <<box, user, trans, filter>>

RunEnds ==
  /\ (At("main") /\ job.i > Len(trans.events)) \/ At("commit")
  /\ EndJob /\ log' = NoLog /\ UNCHANGED <<box, copied, filter>>
===============================================================================
