---------------------------- MODULE SieveExecution ----------------------------
(***************************************************************************)
(* Transactional execution of a result (struct sieve_result_execution of   *)
(* lib-sieve/sieve-result.c): every action is started, executed, and       *)
(* finally committed or rolled back, and an implicit keep catches what no  *)
(* action delivered. The outside world (mail storage, SMTP, the duplicate  *)
(* database) answers each call as it likes.                                *)
(*                                                                         *)
(* One call of sieve_result_execute is a sequence of steps: Execute enters *)
(* it, phase names the part that is under way, and "return" hands its      *)
(* result (loc.ret, loc.keep) back to the caller, which is another module. *)
(***************************************************************************)
EXTENDS SieveResult

CONSTANT SourceMailbox   \* the mailbox the message lies in, if any

VARIABLES
  phase,    \* where sieve_result_execute stands; "idle": not called
  ax,       \* rexec->actions: the execution state of each action
  kx,       \* rexec->keep: the execution state of the implicit keep
  rx,       \* the other fields of struct sieve_result_execution
  equiv,    \* rexec->keep_equiv_action: an index of ax, or 0
  loc,      \* parameters, local variables and return value of the call
  es,       \* struct sieve_exec_status
  stored,   \* how often the message was stored in each mailbox
  sent,     \* how often it was forwarded to each address
  replies,  \* how many responses the sender got
  marks     \* forwards marked in the duplicate transaction, and in its database

worldVars == <<stored, sent, replies, marks>>
execVars == <<phase, ax, kx, rx, equiv, loc, es, worldVars>>

Status == {"OK", "FAILURE", "TEMP_FAILURE", "BIN_CORRUPT", "KEEP_FAILED", "RESOURCE_LIMIT"}
TempStatus == {"TEMP_FAILURE", "RESOURCE_LIMIT"}

(* enum sieve_action_execution_state *)
INIT == 0
STARTED == 1
EXECUTED == 2
FINALIZED == 3

Phase == {"idle", "execute", "keep", "commit", "finalize", "finish", "return", "panic"}

(* struct sieve_action_execution: tr says that the action has a            *)
(* transaction context, noop that it decided to do nothing at commit       *)
(* (redundant store, skip_redirect, ignore_reject).                        *)
AExec == [obj : Nat, seq : Nat, state : 0 .. 3, status : Status,
          commit : BOOLEAN, tr : BOOLEAN, noop : BOOLEAN]
KExec == [def : {"none", "store"}, state : 0 .. 3, status : Status,
          commit : BOOLEAN, noop : BOOLEAN]
RExec == [status : Status, keepStatus : Status, keepSuccess : BOOLEAN,
          keepExplicit : BOOLEAN, keepImplicit : BOOLEAN,
          keepFinalizing : BOOLEAN, seenDelivery : BOOLEAN,
          executed : BOOLEAN, executedDelivery : BOOLEAN, committed : BOOLEAN]
Loc == [commit : BOOLEAN, status : Status, commitStatus : Status,
        ret : Status, keep : BOOLEAN]
ExecStatus == [saved : BOOLEAN, storeFailed : BOOLEAN,
               triedDefault : BOOLEAN, forwarded : BOOLEAN]

NewKeepExec(def) == [def |-> def, state |-> INIT, status |-> "FAILURE",
                     commit |-> FALSE, noop |-> FALSE]

(* sieve_result_execution_create and the zeroed sieve_exec_status          *)
NewRExec == [status |-> "OK", keepStatus |-> "OK", keepSuccess |-> TRUE,
             keepExplicit |-> FALSE, keepImplicit |-> TRUE,
             keepFinalizing |-> FALSE, seenDelivery |-> FALSE,
             executed |-> FALSE, executedDelivery |-> FALSE, committed |-> FALSE]
NewLoc == [commit |-> FALSE, status |-> "OK", commitStatus |-> "OK", ret |-> "OK", keep |-> FALSE]
NewExecStatus == [saved |-> FALSE, storeFailed |-> FALSE, triedDefault |-> FALSE, forwarded |-> FALSE]

ExecutionInit ==
  /\ phase = "idle"
  /\ ax = <<>>
  /\ kx = NewKeepExec("none")
  /\ rx = NewRExec
  /\ equiv = 0
  /\ loc = NewLoc
  /\ es = NewExecStatus
  /\ stored = [m \in Mailbox |-> 0]
  /\ sent = [a \in Address |-> 0]
  /\ replies = 0
  /\ marks = [pending |-> {}, db |-> {}]

-----------------------------------------------------------------------------
(* Entering sieve_result_execute *)

Started(e) ==
  IF e.state >= STARTED THEN e
  ELSE [e EXCEPT !.state = STARTED, !.status = "OK",
                 !.tr = @ \/ acts[e.obj].def \in {"store", "redirect", "reject"},
                 !.noop = FALSE]

FreshExec(o) == [obj |-> o, seq |-> acts[o].seq, state |-> INIT, status |-> "FAILURE",
                 commit |-> FALSE, tr |-> FALSE, noop |-> FALSE]

(* sieve_action_execution_update: a keep that was recycled runs anew.      *)
Updated(e) ==
  IF e.seq = acts[e.obj].seq THEN e
  ELSE [e EXCEPT !.seq = acts[e.obj].seq, !.state = INIT]

(* The elements of s at the places of D, in their order: the i-th of them  *)
(* stands where D has i places up to there.                                *)
Picked(s, D) ==
  LET Rank(i) == Cardinality({j \in D : j <= i})
  IN  [n \in 1 .. Cardinality(D) |-> s[CHOOSE i \in D : Rank(i) = n]]

InList(o) == \E i \in DOMAIN list : list[i] = o

(* sieve_result_execution_update; an action that left the result is        *)
(* aborted, a new one joins at the tail.                                   *)
UpdatedExecution ==
  LET alive == Picked(ax, {i \in DOMAIN ax : InList(ax[i].obj)})
      fresh == Picked(list, {i \in DOMAIN list : \A j \in DOMAIN ax : ax[j].obj # list[i]})
  IN  [i \in DOMAIN alive |-> Updated(alive[i])] \o [i \in DOMAIN fresh |-> FreshExec(fresh[i])]

(* The assertion of sieve_action_execution_update.                         *)
OnlyKeepRecycled ==
  \A i \in DOMAIN ax : ax[i].seq # acts[ax[i].obj].seq => acts[ax[i].obj].keep

(* sieve_result_execute_update_status; BIN_CORRUPT is i_unreached().       *)
UpdateStatus(cur, new) ==
  CASE new = "OK" -> cur
    [] new = "TEMP_FAILURE" -> new
    [] new = "RESOURCE_LIMIT" -> IF cur = "TEMP_FAILURE" THEN cur ELSE new
    [] OTHER -> IF cur = "OK" THEN new ELSE cur

(* What follows the transaction's execution.                               *)
AfterExecute(r, commit) ==
  IF ~commit THEN "return"
  ELSE IF r.status # "OK" \/ r.keepImplicit THEN "keep" ELSE "commit"

(* sieve_result_execute up to sieve_result_transaction_execute; starting   *)
(* an action cannot fail, as mailbox names were validated before. The      *)
(* caller says what becomes of keepDef.                                    *)
Execute(status, commit) ==
  /\ phase = "idle"
  /\ execSeq' = execSeq + 1
  /\ loc' = [commit |-> commit, status |-> status, commitStatus |-> "OK",
             ret |-> "OK", keep |-> FALSE]
  /\ IF status = "BIN_CORRUPT" \/ ~OnlyKeepRecycled
     THEN phase' = "panic" /\ UNCHANGED <<ax, rx>>
     ELSE IF status = "OK" /\ rx.status = "OK"
     THEN /\ phase' = "execute"
          /\ ax' = [i \in DOMAIN UpdatedExecution |-> Started(UpdatedExecution[i])]
          /\ rx' = [rx EXCEPT !.seenDelivery = FALSE]
     ELSE /\ ax' = UpdatedExecution
          /\ rx' = [rx EXCEPT !.status = UpdateStatus(@, status)]
          /\ phase' = AfterExecute(rx', commit)
  /\ UNCHANGED <<acts, list, kx, equiv, es, worldVars>>

-----------------------------------------------------------------------------
(* The execute phase *)

Pending(state) == {i \in DOMAIN ax : ax[i].state < state}

Outcome(status, keep, noop, tried) ==
  [status |-> status, keep |-> keep, noop |-> noop, tried |-> tried]

(* act_store_execute: a failure may come before or after the attempt to    *)
(* save is recorded.                                                       *)
StoreOutcomes(tgt) ==
  LET default == tgt = DefaultMailbox
  IN  IF tgt = SourceMailbox
      THEN {Outcome("OK", TRUE, TRUE, FALSE)}
      ELSE {Outcome("OK", FALSE, FALSE, default)}
           \cup {Outcome(s, TRUE, FALSE, FALSE) : s \in {"FAILURE", "TEMP_FAILURE"}}
           \cup {Outcome(s, TRUE, FALSE, default) : s \in {"FAILURE", "TEMP_FAILURE"}}

(* act_redirect_execute: a duplicate or a mail loop leaves the implicit    *)
(* keep in force.                                                          *)
RedirectOutcomes(tgt) ==
  LET skip == Outcome("OK", TRUE, TRUE, FALSE)
  IN  IF tgt \in marks.db \cup marks.pending THEN {skip}
      ELSE {skip, Outcome("OK", FALSE, FALSE, FALSE)}
           \cup {Outcome(s, TRUE, FALSE, FALSE) : s \in {"FAILURE", "TEMP_FAILURE"}}

(* act_reject_execute: no response for an empty sender, nothing at all for *)
(* an empty recipient.                                                     *)
RejectOutcomes(silent) ==
  {Outcome("OK", FALSE, TRUE, FALSE), Outcome("OK", TRUE, TRUE, FALSE)}
  \cup (IF silent THEN {} ELSE {Outcome("OK", FALSE, FALSE, FALSE)})

ExecuteOutcomes(a) ==
  LET plain ==
        CASE a.def = "store"    -> StoreOutcomes(a.tgt)
          [] a.def = "redirect" -> RedirectOutcomes(a.tgt)
          [] a.def = "discard"  -> {Outcome("OK", FALSE, FALSE, FALSE)}
          [] a.def = "reject"   -> RejectOutcomes(a.silent)
          [] OTHER -> {Outcome("OK", TRUE, FALSE, FALSE)}   \* vacation, none
  IN  {[o EXCEPT !.keep = @ \/ (a.copy /\ o.status = "OK")] : o \in plain}

(* sieve_result_action_execute, for the next action that did not run yet.  *)
ExecuteAction ==
  /\ phase = "execute"
  /\ Pending(EXECUTED) # {}
  /\ LET k == Min(Pending(EXECUTED))
         a == acts[ax[k].obj]
     IN  \E o \in ExecuteOutcomes(a) :
           /\ ax' = [ax EXCEPT ![k].state = EXECUTED, ![k].status = o.status, ![k].noop = o.noop]
           /\ rx' = [rx EXCEPT
                       !.keepExplicit = @ \/ a.keep,
                       !.keepImplicit = @ /\ o.keep,
                       !.executed = @ \/ (o.status = "OK" /\ a.def \notin {"none", "vacation"}),
                       !.seenDelivery = @ \/ (o.status = "OK" /\ a.def \in TriesDeliver),
                       !.status = UpdateStatus(@, o.status)]
           /\ es' = [es EXCEPT !.triedDefault = @ \/ o.tried]
           /\ loc' = [loc EXCEPT !.status = o.status]
           /\ phase' = IF o.status = "OK" THEN "execute" ELSE AfterExecute(rx', loc.commit)
  /\ UNCHANGED <<resultVars, kx, equiv, worldVars>>

(* The end of sieve_result_transaction_execute: the whole series succeeded *)
ExecuteDone ==
  /\ phase = "execute"
  /\ Pending(EXECUTED) = {}
  /\ ax' = [i \in DOMAIN ax |-> [ax[i] EXCEPT !.commit = TRUE]]
  /\ rx' = [rx EXCEPT !.executedDelivery = @ \/ rx.seenDelivery]
  /\ phase' = AfterExecute(rx', loc.commit)
  /\ UNCHANGED <<resultVars, kx, equiv, loc, es, worldVars>>

-----------------------------------------------------------------------------
(* The implicit keep *)

(* A variant of KeepEquivalent that never finds one.                       *)
KeepEquivalentMissed == {}

(* Actions that already did what keep would do.                            *)
KeepEquivalent ==
  {i \in DOMAIN ax : /\ acts[ax[i].obj].def = "store"
                     /\ acts[ax[i].obj].tgt = DefaultMailbox
                     /\ ax[i].state >= EXECUTED}

(* The last keep without a definition, unless some action behind it did    *)
(* not run: its place is taken by the implicit keep.                       *)
DeferredKeep ==
  {i \in DOMAIN ax : /\ acts[ax[i].obj].keep /\ acts[ax[i].obj].def = "none"
                     /\ \A j \in DOMAIN ax : j >= i => ax[j].state >= EXECUTED}

(* sieve_result_implicit_keep_execute from the execution state r and the   *)
(* keep state k: the states it may leave behind.                           *)
ImplicitKeepExecute(r, k) ==
  LET success == r.status = "OK"
      r1  == [r EXCEPT !.keepSuccess = success, !.keepStatus = "OK"]
      def == IF success THEN keepDef ELSE "store"
      k1  == [k EXCEPT !.def = def]
      ax1 == IF DeferredKeep = {} THEN ax
             ELSE [ax EXCEPT ![Max(DeferredKeep)].state = FINALIZED]
  IN  IF \/ r.status \in TempStatus /\ ~r.committed /\ ~r.keepFinalizing
         \/ equiv # 0
      THEN {[ax |-> ax, kx |-> k, rx |-> r, equiv |-> equiv, tried |-> FALSE]}
      ELSE IF def = "none"
      THEN {[ax |-> ax, kx |-> k1, rx |-> r1, equiv |-> 0, tried |-> FALSE]}
      ELSE IF KeepEquivalent # {}
      THEN {[ax |-> ax, kx |-> k1, rx |-> r1, equiv |-> Min(KeepEquivalent), tried |-> FALSE]}
      ELSE {[ax |-> ax1,
             kx |-> [k1 EXCEPT !.state = EXECUTED, !.status = o.status,
                               !.commit = (o.status = "OK"), !.noop = o.noop],
             rx |-> [r1 EXCEPT !.executed = @ \/ (o.status = "OK"),
                               !.seenDelivery = @ \/ (o.status = "OK"),
                               !.executedDelivery = r.seenDelivery \/ (o.status = "OK"),
                               !.keepStatus = o.status],
             equiv |-> 0, tried |-> o.tried]
             : o \in StoreOutcomes(DefaultMailbox)}

KeepExecute ==
  /\ phase = "keep"
  /\ \E x \in ImplicitKeepExecute(rx, kx) :
       /\ ax' = x.ax
       /\ kx' = x.kx
       /\ rx' = x.rx
       /\ equiv' = x.equiv
       /\ es' = [es EXCEPT !.triedDefault = @ \/ x.tried]
  /\ phase' = "commit"
  /\ UNCHANGED <<resultVars, loc, worldVars>>

-----------------------------------------------------------------------------
(* The commit phase *)

(* The world after the commit of an action that ends with status st.       *)
Effect(st, e, s, f, n, m) ==
  [st |-> st, es |-> e, stored |-> s, sent |-> f, replies |-> n, marks |-> m]
NoEffect(st) == Effect(st, es, stored, sent, replies, marks)

Saved == [es EXCEPT !.saved = TRUE]
StoreFailed == [es EXCEPT !.storeFailed = TRUE]
Forwarded == [es EXCEPT !.forwarded = TRUE]

(* act_store_commit *)
StoreCommit(tgt, tr, noop) ==
  IF ~tr THEN {NoEffect("FAILURE")}
  ELSE IF noop THEN {Effect("OK", Saved, stored, sent, replies, marks)}
  ELSE {Effect("OK", Saved, [stored EXCEPT ![tgt] = @ + 1], sent, replies, marks),
        Effect("FAILURE", StoreFailed, stored, sent, replies, marks),
        Effect("TEMP_FAILURE", StoreFailed, stored, sent, replies, marks)}

(* act_redirect_commit *)
RedirectCommit(tgt, noop) ==
  IF noop THEN {NoEffect("OK")}
  ELSE {Effect("OK", Forwarded, stored, [sent EXCEPT ![tgt] = @ + 1], replies,
               [marks EXCEPT !.pending = @ \cup {tgt}]),
        NoEffect("FAILURE"), NoEffect("TEMP_FAILURE")}

(* act_reject_commit, act_vacation_commit: a reply may also be suppressed  *)
(* by vacation.                                                            *)
RejectCommit(noop) ==
  IF noop THEN {NoEffect("OK")}
  ELSE {Effect("OK", es, stored, sent, replies + 1, marks), NoEffect("FAILURE")}
VacationCommit ==
  {Effect("OK", es, stored, sent, replies + 1, marks), NoEffect("OK"),
   NoEffect("FAILURE"), NoEffect("TEMP_FAILURE")}

CommitEffects(a, e) ==
  CASE a.def = "store"    -> StoreCommit(a.tgt, e.tr, e.noop)
    [] a.def = "redirect" -> RedirectCommit(a.tgt, e.noop)
    [] a.def = "reject"   -> RejectCommit(e.noop)
    [] a.def = "vacation" -> VacationCommit
    [] OTHER -> {NoEffect("OK")}   \* discard

(* sieve_result_action_rollback; act_store_rollback has nothing to do      *)
(* without a transaction.                                                  *)
Rollback(def, tr, status) ==
  IF def = "store" /\ tr /\ status # "OK"
  THEN Effect("OK", StoreFailed, stored, sent, replies, marks) ELSE NoEffect("OK")

(* The condition under which sieve_result_action_commit_or_rollback        *)
(* commits, and the status variables it leaves behind.                     *)
MayCommit(e, l) ==
  e.status = "OK" /\ (l.status = "OK" \/ (e.commit /\ l.commitStatus = "OK"))

Finalized(l, keep, st, committed, storeFailed) ==
  LET bad == st # "OK" /\ l.commitStatus = "OK"
      c   == IF bad THEN st ELSE l.commitStatus
      s   == IF bad /\ (~committed \/ storeFailed) THEN st ELSE l.status
      Salvage(x) == IF keep /\ x = "FAILURE" THEN "KEEP_FAILED" ELSE x
  IN  [l EXCEPT !.status = Salvage(s), !.commitStatus = Salvage(c)]

(* Storage actions are finalized first, then the others, each in order.    *)
NextToFinalize ==
  LET storage == {i \in Pending(FINALIZED) : acts[ax[i].obj].def \in MailStorage}
  IN  IF storage # {} THEN Min(storage) ELSE Min(Pending(FINALIZED))

(* One action of sieve_result_transaction_commit_or_rollback, which starts *)
(* with commit_status set for a temporary failure.                         *)
CommitStatus == IF loc.status = "TEMP_FAILURE" THEN "TEMP_FAILURE" ELSE loc.commitStatus

FinalizeAction ==
  /\ phase = "commit"
  /\ Pending(FINALIZED) # {}
  /\ LET k == NextToFinalize
         e == ax[k]
         a == acts[e.obj]
         l == [loc EXCEPT !.commitStatus = CommitStatus]
         commit == a.def # "none" /\ MayCommit(e, l)
     IN  /\ \E x \in IF commit THEN CommitEffects(a, e)
                     ELSE {Rollback(a.def, e.tr, e.status)} :
              /\ es' = x.es
              /\ stored' = x.stored
              /\ sent' = x.sent
              /\ replies' = x.replies
              /\ marks' = x.marks
              /\ rx' = [rx EXCEPT !.committed = @ \/ (commit /\ x.st = "OK" /\ a.def # "discard")]
              /\ loc' = IF a.def = "none" THEN l
                        ELSE Finalized(l, a.keep, IF commit THEN x.st ELSE "OK",
                                       rx'.committed, x.es.storeFailed)
         /\ ax' = [ax EXCEPT ![k].state = FINALIZED]
  /\ UNCHANGED <<resultVars, phase, kx, equiv>>

(* The end of the commit phase: the status of the commits joins that of    *)
(* the execution, and decides whether a keep is to be finalized.           *)
CommitDone ==
  /\ phase = "commit"
  /\ Pending(FINALIZED) = {}
  /\ rx' = [rx EXCEPT !.status = UpdateStatus(@, CommitStatus)]
  /\ loc' = [loc EXCEPT !.ret = rx'.status]
  /\ phase' = IF rx'.status # "OK" \/ rx.keepImplicit THEN "finalize" ELSE "finish"
  /\ UNCHANGED <<resultVars, ax, kx, equiv, es, worldVars>>

-----------------------------------------------------------------------------
(* Finalizing the implicit keep *)

(* A variant of ResultStatus that asks for another try after a commit.     *)
ResultStatusRetry(result, ret, committed) ==
  CASE ret = "OK" -> IF result = "TEMP_FAILURE" THEN "FAILURE" ELSE result
    [] ret \in TempStatus -> ret
    [] OTHER -> "KEEP_FAILED"

(* The switch at the end of sieve_result_execute: the result status after  *)
(* the keep returned ret.                                                  *)
ResultStatus(result, ret, committed) ==
  CASE ret = "OK" -> IF result = "TEMP_FAILURE" THEN "FAILURE" ELSE result
    [] ret \in TempStatus /\ ~committed -> ret
    [] OTHER -> "KEEP_FAILED"

(* A temporary failure with nothing committed and no keep under way: the   *)
(* delivery is left to be tried again.                                     *)
SkipKeep ==
  rx.status \in TempStatus /\ ~rx.committed /\ kx.state # EXECUTED

KeepFinalizeSkip ==
  /\ phase = "finalize"
  /\ SkipKeep
  /\ loc' = [loc EXCEPT !.ret = ResultStatus(@, rx.status, rx.committed)]
  /\ phase' = "finish"
  /\ UNCHANGED <<resultVars, ax, kx, rx, equiv, es, worldVars>>

KeepRetry == rx.status \in TempStatus /\ ~rx.committed
KeepSwitch == rx.keepSuccess /\ rx.status # "OK"

(* sieve_result_implicit_keep_finalize up to the commit of the keep: the   *)
(* keep is executed if it was not yet, and a keep that was prepared for    *)
(* success is rolled back and replaced when the transaction failed.        *)
KeepPrepared ==
  LET r0 == [rx EXCEPT !.keepFinalizing = TRUE,
                       !.keepStatus = IF KeepRetry THEN rx.status ELSE @]
  IN  IF KeepRetry \/ (kx.def # "none" /\ kx.state = EXECUTED /\ ~KeepSwitch)
      THEN {[ax |-> ax, kx |-> kx, rx |-> r0, equiv |-> equiv, tried |-> FALSE]}
      ELSE ImplicitKeepExecute(r0, IF kx.def # "none" /\ kx.state = EXECUTED
                                   THEN NewKeepExec(kx.def) ELSE kx)

(* The keep that succeeded in vain is rolled back: a failure of its own    *)
(* counts as a failed store.                                               *)
SwitchFailed == ~KeepRetry /\ KeepSwitch /\ kx.state = EXECUTED /\ kx.status # "OK"

(* No keep to finalize: it is undefined, or another action was the keep    *)
(* and its status is what counts.                                          *)
KeepByOther ==
  /\ phase = "finalize"
  /\ ~SkipKeep
  /\ \E x \in KeepPrepared :
       /\ x.kx.def = "none" \/ x.equiv # 0
       /\ LET ret == IF x.kx.def = "none" THEN x.rx.keepStatus ELSE x.ax[x.equiv].status
          IN  loc' = [loc EXCEPT !.ret = ResultStatus(@, ret, rx.committed)]
       /\ phase' = IF x.kx.def # "none" /\ x.ax[x.equiv].state < FINALIZED
                   THEN "panic" ELSE "finish"
       /\ ax' = x.ax
       /\ kx' = x.kx
       /\ rx' = x.rx
       /\ equiv' = x.equiv
       /\ es' = [es EXCEPT !.triedDefault = @ \/ x.tried, !.storeFailed = @ \/ SwitchFailed]
  /\ UNCHANGED <<resultVars, worldVars>>

(* The implicit keep is committed, or rolled back if it failed or the      *)
(* delivery is to be tried again.                                          *)
KeepFinalize ==
  /\ phase = "finalize"
  /\ ~SkipKeep
  /\ \E x \in KeepPrepared :
       /\ x.kx.def # "none" /\ x.equiv = 0
       /\ LET l == [loc EXCEPT !.status = x.rx.keepStatus,
                               !.commitStatus = IF KeepRetry THEN rx.status ELSE "OK"]
              commit == MayCommit(x.kx, l)
          IN  \E c \in IF commit THEN StoreCommit(DefaultMailbox, TRUE, x.kx.noop)
                       ELSE {Rollback("store", TRUE, x.kx.status)} :
                LET committed == rx.committed \/ (commit /\ c.st = "OK")
                    failed    == c.es.storeFailed \/ SwitchFailed
                    f == Finalized(l, TRUE, IF commit THEN c.st ELSE "OK", committed, failed)
                IN  /\ rx' = [x.rx EXCEPT !.committed = committed, !.keepStatus = f.status]
                    /\ es' = [c.es EXCEPT !.triedDefault = @ \/ x.tried, !.storeFailed = failed]
                    /\ stored' = c.stored
                    /\ loc' = [loc EXCEPT !.ret = ResultStatus(@, f.status, committed)]
       /\ ax' = x.ax
       /\ kx' = [x.kx EXCEPT !.state = FINALIZED]
       /\ equiv' = 0
       /\ phase' = IF x.kx.state < EXECUTED THEN "panic" ELSE "finish"
  /\ UNCHANGED <<resultVars, sent, replies, marks>>

-----------------------------------------------------------------------------
(* Leaving sieve_result_execute *)

(* The final round: the actions are finished and the status recorded.      *)
Finish ==
  /\ phase = "finish"
  /\ rx' = [rx EXCEPT !.status = loc.ret]
  /\ phase' = "return"
  /\ UNCHANGED <<resultVars, ax, kx, equiv, loc, es, worldVars>>

(* The status and the keep that the caller sees when the call returns; an  *)
(* explicit keep is merged into the implicit one for the next round.       *)
ReturnStatus == rx.status
ReturnKeep == rx.keepExplicit \/ rx.keepImplicit
MergeKeep == [rx EXCEPT !.keepImplicit = ReturnKeep, !.keepExplicit = FALSE]

ExecutionStep ==
  \/ ExecuteAction
  \/ ExecuteDone
  \/ KeepExecute
  \/ FinalizeAction
  \/ CommitDone
  \/ KeepFinalizeSkip
  \/ KeepByOther
  \/ KeepFinalize
  \/ Finish

ExecutionTypeOK ==
  /\ phase \in Phase
  /\ ax \in Seq(AExec)
  /\ kx \in KExec
  /\ rx \in RExec
  /\ equiv \in 0 .. Len(ax)
  /\ loc \in Loc
  /\ es \in ExecStatus
  /\ stored \in [Mailbox -> Nat]
  /\ sent \in [Address -> Nat]
  /\ replies \in Nat
  /\ marks \in [pending : SUBSET Address, db : SUBSET Address]
=============================================================================
