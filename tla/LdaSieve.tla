------------------------------- MODULE LdaSieve -------------------------------
(***************************************************************************)
(* Delivery of one message: the LDA plugin (plugins/lda-sieve) runs a      *)
(* sequence of scripts over it with the multiscript support of             *)
(* lib-sieve/sieve.c, each script continuing where the previous one left   *)
(* the message to be kept, and finishes the sequence with one final        *)
(* execution that commits. The caller of the plugin, Dovecot's             *)
(* mail_deliver, is external: it stores the message itself when the plugin *)
(* did not, and a delivery that failed may be tried again.                 *)
(***************************************************************************)
EXTENDS SieveExecution

CONSTANTS
  ScriptCount,     \* scripts in sequence: before, personal, after
  HasDiscard,      \* sieve_discard is configured
  Command,         \* what a script command may be: [def, tgt, copy]
  MaxCommands,     \* bound: commands run in the first delivery, one less in each later one
  MaxDeliveries,   \* bound: attempts to deliver the message
  MayCorrupt       \* a stored binary may turn out to be corrupt

ASSUME LdaAssumption ==
  /\ ScriptCount \in Nat \ {0}
  /\ HasDiscard \in BOOLEAN
  /\ MayCorrupt \in BOOLEAN
  /\ MaxCommands \in Nat
  /\ MaxDeliveries \in Nat \ {0}
  /\ SourceMailbox \notin Mailbox     \* a message that is delivered lies in none of them yet
  /\ \A c \in Command : /\ c.def \in {"keep", "store", "redirect", "discard", "reject", "vacation"}
                        /\ c.tgt \in Target
                        /\ c.def = "store" => c.tgt \in Mailbox
                        /\ c.def = "redirect" => c.tgt \in Address
                        /\ c.copy \in BOOLEAN

VARIABLES
  drv,      \* where lda_sieve_execute_scripts stands
  script,   \* the script at hand: 1 .. ScriptCount, or Discard
  ms,       \* struct sieve_multiscript
  err,      \* error_code of the last attempt to open a script
  loaded,   \* the binary at hand came from disk (sieve_is_loaded)
  cmds,     \* commands run in this delivery
  result,   \* what sieve_multiscript_finish returned
  verdict,  \* what became of the delivery
  tries     \* deliveries so far

ldaVars == <<drv, script, ms, err, loaded, cmds, result, verdict, tries>>
vars == <<resultVars, execVars, ldaVars>>

Discard == ScriptCount + 1

Driver == {"open", "run", "executing", "reopen", "next", "finish", "finishing", "deliver", "done"}
OpenError == {"NOT_FOUND", "TEMP_FAILURE", "NOT_VALID"}
Multiscript == [status : Status, keep : BOOLEAN, active : BOOLEAN, discardHandled : BOOLEAN]

(* sieve_multiscript_start_execute: keep is not bound to an action yet.    *)
NewMultiscript == [status |-> "OK", keep |-> TRUE, active |-> TRUE, discardHandled |-> FALSE]

Init ==
  /\ ResultInit("none")
  /\ ExecutionInit
  /\ drv = "open"
  /\ script = 1
  /\ ms = NewMultiscript
  /\ err = "NONE"
  /\ loaded = FALSE
  /\ cmds = 0
  /\ result = "OK"
  /\ verdict = "none"
  /\ tries = 1

-----------------------------------------------------------------------------
(* Opening a script: lda_sieve_open *)

(* sieve_multiscript_will_discard *)
WillDiscard == ~ms.active /\ ms.status = "OK" /\ ~rx.executedDelivery

(* sieve_multiscript_run and _run_discard return at once when the sequence *)
(* ended, or when there is nothing to discard.                             *)
WillRun == IF script = Discard THEN WillDiscard ELSE ms.active

OpenScript ==
  /\ drv = "open"
  /\ err' = "NONE"
  /\ loaded' \in BOOLEAN
  /\ drv' = IF WillRun THEN "run" ELSE "next"
  /\ keepDef' = IF script = Discard /\ WillRun THEN "store" ELSE keepDef
  /\ UNCHANGED <<acts, list, execSeq, execVars, script, ms, cmds, result, verdict, tries>>

OpenFailed ==
  /\ drv = "open"
  /\ err' \in OpenError
  /\ drv' = "next"
  /\ UNCHANGED <<resultVars, execVars, script, ms, loaded, cmds, result, verdict, tries>>

-----------------------------------------------------------------------------
(* Running a script: sieve_multiscript_run, sieve_multiscript_run_discard *)

(* The script ended with a status other than OK: its result is not         *)
(* executed, and the sequence is over. A failure of the discard script     *)
(* counts as a failed keep.                                                *)
Aborted(status) ==
  [ms EXCEPT !.status = IF script = Discard /\ status = "FAILURE" THEN "KEEP_FAILED" ELSE status,
             !.keep = IF status = "FAILURE" THEN FALSE ELSE @,
             !.active = FALSE,
             !.discardHandled = @ \/ script = Discard]

ActionOf(c) == IF c.def = "keep" THEN NewKeep ELSE NewAction(c.def, c.tgt, c.copy)

(* A command adds its action to the result; a conflict or an exceeded      *)
(* limit is a runtime error that ends the script.                          *)
RunCommand ==
  /\ drv = "run"
  /\ cmds + tries <= MaxCommands
  /\ \E c \in Command :
       LET added == AddAction(ActionOf(c))
       IN  /\ acts' = added.acts
           /\ list' = added.list
           /\ IF added.ok THEN UNCHANGED <<drv, ms>>
              ELSE ms' = Aborted("FAILURE") /\ drv' = "next"
  /\ cmds' = cmds + 1
  /\ UNCHANGED <<execSeq, keepDef, execVars, script, err, loaded, result, verdict, tries>>

(* The interpreter gives up: a runtime error, a temporary failure or an    *)
(* exceeded resource limit.                                                *)
RunFailed ==
  /\ drv = "run"
  /\ \E status \in {"FAILURE", "TEMP_FAILURE", "RESOURCE_LIMIT"} : ms' = Aborted(status)
  /\ drv' = "next"
  /\ UNCHANGED <<resultVars, execVars, script, err, loaded, cmds, result, verdict, tries>>

(* The interpreter meets corrupt code in a binary that was read from disk; *)
(* the binary is compiled again.                                           *)
RunCorrupt ==
  /\ drv = "run"
  /\ MayCorrupt /\ loaded
  /\ ms' = Aborted("BIN_CORRUPT")
  /\ drv' = "reopen"
  /\ UNCHANGED <<resultVars, execVars, script, err, loaded, cmds, result, verdict, tries>>

Reopen ==
  /\ drv = "reopen"
  /\ err' \in {"NONE"} \cup OpenError
  /\ loaded' = FALSE
  /\ drv' = IF err' = "NONE" /\ WillRun THEN "run" ELSE "next"
  /\ UNCHANGED <<resultVars, execVars, script, ms, cmds, result, verdict, tries>>

(* The script ran to its end: its result is executed, not committed.       *)
RunDone ==
  /\ drv = "run"
  /\ Execute("OK", FALSE)
  /\ ms' = [ms EXCEPT !.status = "OK", !.keep = FALSE]
  /\ drv' = "executing"
  /\ UNCHANGED <<keepDef, script, err, loaded, cmds, result, verdict, tries>>

Executed ==
  /\ drv = "executing"
  /\ phase = "return"
  /\ rx' = MergeKeep
  /\ ms' = IF ReturnStatus = "OK" /\ script # Discard
           THEN [ms EXCEPT !.keep = ReturnKeep, !.active = @ /\ ReturnKeep]
           ELSE [Aborted(ReturnStatus) EXCEPT !.keep = ReturnKeep]
  /\ phase' = "idle"
  /\ drv' = "next"
  /\ UNCHANGED <<resultVars, ax, kx, equiv, loc, es, worldVars, script, err, loaded, cmds,
                 result, verdict, tries>>

-----------------------------------------------------------------------------
(* The loop of lda_sieve_execute_scripts *)

(* The return value of lda_sieve_execute_script: negative to stop,         *)
(* positive to go on with the next script. A script that does not exist is *)
(* skipped.                                                                *)
ScriptStops == err = "NONE" /\ ~ms.active /\ ms.status = "RESOURCE_LIMIT"
ScriptGoesOn ==
  /\ ~ScriptStops
  /\ err = "NOT_FOUND" \/ (err = "NONE" /\ ms.active)

HasNext == ScriptGoesOn /\ script < ScriptCount
HasDiscardNext ==
  /\ script # Discard /\ ~ScriptStops /\ ~ScriptGoesOn
  /\ err = "NONE" /\ WillDiscard /\ HasDiscard

(* A variant of NextScript that stays at the same script.                  *)
NextScriptStuck ==
  /\ drv = "next"
  /\ HasNext
  /\ drv' = "open"
  /\ UNCHANGED <<resultVars, execVars, script, ms, err, loaded, cmds, result, verdict, tries>>

NextScript ==
  /\ drv = "next"
  /\ HasNext
  /\ script' = script + 1
  /\ drv' = "open"
  /\ UNCHANGED <<resultVars, execVars, ms, err, loaded, cmds, result, verdict, tries>>

StartDiscard ==
  /\ drv = "next"
  /\ HasDiscardNext
  /\ script' = Discard
  /\ drv' = "open"
  /\ UNCHANGED <<resultVars, execVars, ms, err, loaded, cmds, result, verdict, tries>>

EndScripts ==
  /\ drv = "next"
  /\ ~HasNext /\ ~HasDiscardNext
  /\ drv' = "finish"
  /\ UNCHANGED <<resultVars, execVars, script, ms, err, loaded, cmds, result, verdict, tries>>

-----------------------------------------------------------------------------
(* sieve_multiscript_finish, lda_sieve_handle_exec_status *)

MultiscriptFinish ==
  /\ drv = "finish"
  /\ keepDef' = "store"
  /\ Execute(IF err = "TEMP_FAILURE" THEN "TEMP_FAILURE" ELSE ms.status, TRUE)
  /\ drv' = "finishing"
  /\ UNCHANGED <<script, ms, err, loaded, cmds, result, verdict, tries>>

(* sieve_execute_finish settles the duplicate transaction.                 *)
Finished ==
  /\ drv = "finishing"
  /\ phase = "return"
  /\ rx' = MergeKeep
  /\ marks' = IF ReturnStatus = "OK"
              THEN [pending |-> {}, db |-> marks.db \cup marks.pending]
              ELSE [marks EXCEPT !.pending = {}]
  /\ result' = ReturnStatus
  /\ phase' = "idle"
  /\ drv' = "deliver"
  /\ UNCHANGED <<resultVars, ax, kx, equiv, loc, es, stored, sent, replies, script, ms, err,
                 loaded, cmds, verdict, tries>>

(* What the plugin reports: success also when an implicit keep made up for *)
(* a failure.                                                              *)
ReportsSuccess == result \in {"OK", "FAILURE"}

(* External: mail_deliver accepts a message that was saved or that the     *)
(* plugin took care of, and otherwise stores it in the default mailbox     *)
(* unless that was tried before.                                           *)
Deliver ==
  /\ drv = "deliver"
  /\ \/ /\ ReportsSuccess \/ es.saved
        /\ verdict' = "accepted"
        /\ UNCHANGED stored
     \/ /\ ~ReportsSuccess /\ ~es.saved /\ result = "TEMP_FAILURE"
        /\ verdict' = "tempfail"
        /\ UNCHANGED stored
     \/ /\ ~ReportsSuccess /\ ~es.saved /\ result # "TEMP_FAILURE"
        /\ verdict' = "failed"
        /\ UNCHANGED stored
     \/ /\ ~ReportsSuccess /\ ~es.saved /\ result # "TEMP_FAILURE"
        /\ ~es.triedDefault
        /\ verdict' = "accepted"
        /\ stored' = [stored EXCEPT ![DefaultMailbox] = @ + 1]
  /\ drv' = "done"
  /\ UNCHANGED <<resultVars, phase, ax, kx, rx, equiv, loc, es, sent, replies, marks,
                 script, ms, err, loaded, cmds, result, tries>>

(* External: a message that was not accepted is delivered anew.            *)
Redeliver ==
  /\ drv = "done"
  /\ verdict # "accepted"
  /\ tries < MaxDeliveries
  /\ tries' = tries + 1
  /\ acts' = <<>> /\ list' = <<>> /\ execSeq' = 0 /\ keepDef' = "none"
  /\ ax' = <<>> /\ kx' = NewKeepExec("none") /\ rx' = NewRExec /\ equiv' = 0
  /\ loc' = NewLoc /\ es' = NewExecStatus
  /\ drv' = "open" /\ script' = 1 /\ ms' = NewMultiscript /\ err' = "NONE"
  /\ loaded' = FALSE /\ cmds' = 0 /\ result' = "OK" /\ verdict' = "none"
  /\ UNCHANGED <<phase, worldVars>>

Next ==
  \/ OpenScript \/ OpenFailed
  \/ RunCommand \/ RunFailed \/ RunCorrupt \/ Reopen \/ RunDone
  \/ ExecutionStep /\ UNCHANGED ldaVars
  \/ Executed
  \/ NextScript \/ StartDiscard \/ EndScripts
  \/ MultiscriptFinish \/ Finished
  \/ Deliver \/ Redeliver

Spec == Init /\ [][Next]_vars /\ WF_vars(Next)

-----------------------------------------------------------------------------
(* Type correctness. *)
TypeOK ==
  /\ ResultTypeOK
  /\ ExecutionTypeOK
  /\ drv \in Driver
  /\ script \in 1 .. Discard
  /\ ms \in Multiscript
  /\ err \in {"NONE"} \cup OpenError
  /\ loaded \in BOOLEAN
  /\ cmds \in 0 .. MaxCommands
  /\ result \in Status
  /\ verdict \in {"none", "accepted", "tempfail", "failed"}
  /\ tries \in 1 .. MaxDeliveries

(* No assertion of sieve-result.c fails, and its i_unreached() is not      *)
(* reached: only a recycled keep changes its sequence number, the keep is  *)
(* executed before it is finalized, an equivalent action was finalized.    *)
(* The exception is a binary that turns out to be corrupt: the corruption  *)
(* has ended the sequence, so that "Execute again" in                      *)
(* lda_sieve_execute_script returns at once, also when the script was      *)
(* compiled anew, and the status BIN_CORRUPT comes to                      *)
(* sieve_result_execute_update_status, which has i_unreached() for it.     *)
NoPanic == phase = "panic" => ms.status = "BIN_CORRUPT"

(* A corrupt binary makes the plugin "bail out and revert to default       *)
(* delivery", as lda_sieve_handle_exec_status logs.  The code does not get *)
(* there; TLC refutes this one.                                            *)
CorruptReverts == phase # "panic"

StoredSomewhere == \E m \in Mailbox : stored[m] > 0
SentSomewhere == \E a \in Address : sent[a] > 0

(* When the process dies of that, the actions of earlier scripts were      *)
(* executed and none was committed: the message is in no mailbox, this try *)
(* has not forwarded it and the sender has no answer, so that another try  *)
(* doubles nothing.                                                        *)
CrashLeavesNothing ==
  phase = "panic" => /\ ~StoredSomewhere
                     /\ \A a \in Address : sent[a] < tries
                     /\ tries = 1 => replies = 0

(* A delivery that is reported as a temporary failure, to be tried again,  *)
(* left no trace: nothing was stored, forwarded or answered.               *)
TempFailureLeavesNothing ==
  result = "TEMP_FAILURE" /\ tries = 1 =>
    ~StoredSomewhere /\ ~SentSomewhere /\ replies = 0

(* A failed execution is reported as such, with a successful implicit      *)
(* keep, only if the message lies in the default mailbox, except where the *)
(* keep relied on an equivalent action (KeepReallySuccessful).             *)
FailureIsKept ==
  drv = "done" /\ result = "FAILURE" /\ equiv = 0 => stored[DefaultMailbox] > 0

(* As above, without the exception: what the log line "Execution of script *)
(* '%s' failed, but implicit keep was successful" says.                    *)
KeepReallySuccessful ==
  drv = "done" /\ result = "FAILURE" => stored[DefaultMailbox] > 0

(* A keep of the discard script that follows a store into the default      *)
(* mailbox takes up the keep of an earlier script first and then does not  *)
(* meet that store any more: the result has both.                          *)
KeptTwice ==
  \E i, j \in DOMAIN list :
    /\ acts[list[i]].keep /\ acts[list[i]].def = "store"
    /\ ~acts[list[j]].keep /\ acts[list[j]].def = "store" /\ acts[list[j]].tgt = DefaultMailbox

(* The message is stored at most once in any mailbox, whatever mixture of  *)
(* keep, fileinto, failure keep and default delivery it took, and however  *)
(* often its delivery was tried (outside the exception above).             *)
NoDoubleStore == \A m \in Mailbox : stored[m] <= 1 \/ (m = DefaultMailbox /\ KeptTwice)

(* Some action with one of these definitions, as it is now, was executed.  *)
ExecutedDef(defs) ==
  \E i \in DOMAIN ax : /\ acts[ax[i].obj].def \in defs
                       /\ ax[i].seq = acts[ax[i].obj].seq
                       /\ ax[i].state >= EXECUTED /\ ax[i].status = "OK"

(* A message is accepted only if it is stored or forwarded, or a script    *)
(* discarded or rejected it (outside the exception of FailureIsKept).      *)
AcceptedIsHandled ==
  verdict = "accepted" =>
    \/ StoredSomewhere \/ SentSomewhere
    \/ ExecutedDef({"discard", "reject"})
    \/ result = "FAILURE" /\ equiv # 0

(* The discard script runs for any message that is about to be discarded,  *)
(* as the documentation of sieve_discard says.                             *)
DiscardScriptRuns ==
  verdict = "accepted" /\ result = "OK" /\ HasDiscard /\ ms.status = "OK" /\ err = "NONE" =>
    StoredSomewhere \/ SentSomewhere \/ replies > 0 \/ ms.discardHandled

(* The discard script runs only if no earlier action delivers the message. *)
NoDiscardAfterDelivery ==
  script = Discard /\ drv = "run" => ~ExecutedDef(TriesDeliver)

(* A delivery answers the sender at most once: a reject that follows an    *)
(* executed vacation or reject of an earlier script stays silent.          *)
SingleResponse == tries = 1 => replies <= 1

(* A message that a script delivers elsewhere is not stored once more in   *)
(* the default mailbox because a forward failed: "a failed mail forward    *)
(* shouldn't cause duplicate local deliveries" (sieve-result.c).           *)
ForwardFailureNoDuplicate ==
  /\ drv = "done" /\ tries = 1 /\ ~es.storeFailed /\ ~rx.keepImplicit
  /\ \E m \in Mailbox \ {DefaultMailbox} : stored[m] > 0
  /\ KeepEquivalent = {}
  => stored[DefaultMailbox] = 0

(* A message is forwarded at most once to an address, also when a delivery *)
(* that failed is tried again.                                             *)
ForwardedOnce == \A a \in Address : sent[a] <= 1

(* Every delivery comes to an end: no sequence of missing, failing or      *)
(* recompiled scripts keeps the plugin busy for ever.                      *)
Terminates == <>[](drv = "done" \/ phase = "panic")

(* One delivery forwards the message to an address at most once: the mark  *)
(* of act_redirect_commit is seen by the scripts that follow.  A delivery  *)
(* that failed takes its marks back, and the next one forwards again.      *)
ForwardedOncePerTry == \A a \in Address : sent[a] <= tries

(* The properties as they are checked.  While scripts run, results grow    *)
(* and are executed piece by piece: the list of actions stays a list, all  *)
(* references lead to actions, and no assertion of sieve-result.c fails.   *)
ResultSound == TypeOK /\ ListConsistent /\ NoPanic

(* The message is neither lost nor doubled, whichever calls failed: what   *)
(* lda_sieve_execute_scripts reports accounts for it, and a crash over a   *)
(* corrupt binary comes before any commit.                                 *)
MessageAccounted ==
  /\ FailureIsKept /\ AcceptedIsHandled /\ NoDoubleStore /\ ForwardedOncePerTry
  /\ CrashLeavesNothing

(* What depends on the actions of earlier scripts: one answer to the       *)
(* sender (act_reject_check_conflict, act_vacation_check_conflict), and    *)
(* no discard script after a delivery (sieve_multiscript_will_discard).    *)
ResponsesInTurn == SingleResponse /\ NoDiscardAfterDelivery
=============================================================================
