---------------------------- MODULE LdaSieveProofs ----------------------------
(***************************************************************************)
(* Proofs about LdaSieve: the types of the execution state, and that a     *)
(* delivery reported as a temporary failure left no trace, for every set   *)
(* of mailboxes, addresses, commands and scripts, and every bound.         *)
(***************************************************************************)
EXTENDS LdaSieve, TLAPS

(* The part of the type invariant the argument needs: the state of the     *)
(* execution as a whole and the world.                                     *)
StateTypeOK ==
  /\ phase \in Phase
  /\ rx \in RExec
  /\ loc \in Loc
  /\ es \in ExecStatus
  /\ stored \in [Mailbox -> Nat]
  /\ sent \in [Address -> Nat]
  /\ replies \in Nat
  /\ drv \in Driver
  /\ ms \in Multiscript
  /\ err \in {"NONE"} \cup OpenError
  /\ result \in Status
  /\ tries \in Nat \ {0}

(* The call of sieve_result_execute belongs to the part of the driver that *)
(* made it; only the call that finishes the sequence commits.              *)
CallOK ==
  /\ phase \in {"execute", "keep", "commit", "finalize", "finish", "return"} =>
       \/ drv = "executing" /\ ~loc.commit /\ phase \in {"execute", "return"}
       \/ drv = "finishing" /\ loc.commit
  /\ result # "OK" => drv \in {"deliver", "done"}

Untouched ==
  /\ \A m \in Mailbox : stored[m] = 0
  /\ \A a \in Address : sent[a] = 0
  /\ replies = 0

(* The world is touched only by a commit that is recorded, and a recorded  *)
(* commit turns a temporary failure into another status.                   *)
CommitOK ==
  /\ tries = 1 /\ ~rx.committed /\ drv # "done" => Untouched
  /\ tries = 1 /\ result = "TEMP_FAILURE" => Untouched
  /\ phase = "finish" /\ loc.ret = "TEMP_FAILURE" => ~rx.committed
  /\ phase = "return" /\ drv = "finishing" /\ rx.status = "TEMP_FAILURE" => ~rx.committed

TempInv == StateTypeOK /\ CallOK /\ CommitOK

-----------------------------------------------------------------------------
(* Lemmas about the outcomes of single actions *)

(* A status update yields a status.                                        *)
LEMMA UpdateStatusType ==
  ASSUME NEW c \in Status, NEW n \in Status
  PROVE  UpdateStatus(c, n) \in Status
BY DEF UpdateStatus, Status

OutcomeSet == [status : Status, keep : BOOLEAN, noop : BOOLEAN, tried : BOOLEAN]

(* A record of these four fields is an outcome.                            *)
LEMMA OutcomeType ==
  ASSUME NEW s \in Status, NEW k \in BOOLEAN, NEW n \in BOOLEAN, NEW t \in BOOLEAN
  PROVE  Outcome(s, k, n, t) \in OutcomeSet
BY DEF Outcome, OutcomeSet

(* What the execution of a store may yield is an outcome.                  *)
LEMMA StoreOutcomesType ==
  ASSUME NEW t, NEW o \in StoreOutcomes(t)
  PROVE  o \in OutcomeSet
BY OutcomeType DEF StoreOutcomes, Status

(* So is what a redirect may yield ...                                     *)
LEMMA RedirectOutcomesType ==
  ASSUME NEW t, NEW o \in RedirectOutcomes(t)
  PROVE  o \in OutcomeSet
BY OutcomeType DEF RedirectOutcomes, Status

(* ... and a reject.                                                       *)
LEMMA RejectOutcomesType ==
  ASSUME NEW t, NEW o \in RejectOutcomes(t)
  PROVE  o \in OutcomeSet
BY OutcomeType DEF RejectOutcomes, Status

(* Whatever action is executed, its outcome is well formed.                *)
LEMMA ExecuteOutcomesType ==
  ASSUME NEW a, NEW o \in ExecuteOutcomes(a)
  PROVE  o \in OutcomeSet
<1> DEFINE plain ==
        CASE a.def = "store"    -> StoreOutcomes(a.tgt)
          [] a.def = "redirect" -> RedirectOutcomes(a.tgt)
          [] a.def = "discard"  -> {Outcome("OK", FALSE, FALSE, FALSE)}
          [] a.def = "reject"   -> RejectOutcomes(a.silent)
          [] OTHER -> {Outcome("OK", TRUE, FALSE, FALSE)}
<1>1. \A p \in plain : p \in OutcomeSet
  <2>1. Outcome("OK", FALSE, FALSE, FALSE) \in OutcomeSet /\ Outcome("OK", TRUE, FALSE, FALSE) \in OutcomeSet
    BY DEF Outcome, Status, OutcomeSet
  <2>2. QED BY <2>1, StoreOutcomesType, RedirectOutcomesType, RejectOutcomesType
<1>2. PICK p \in plain : o = [p EXCEPT !.keep = @ \/ (a.copy /\ p.status = "OK")]
  BY DEF ExecuteOutcomes
<1> HIDE DEF plain
<1>3. QED BY <1>1, <1>2 DEF OutcomeSet

(* The implicit keep leaves a well-formed execution state and records no   *)
(* commit.                                                                 *)
LEMMA ImplicitKeepType ==
  ASSUME NEW r \in RExec, NEW k, NEW x \in ImplicitKeepExecute(r, k)
  PROVE  /\ x.rx \in RExec
         /\ x.rx.committed = r.committed
         /\ x.tried \in BOOLEAN
<1> DEFINE r1 == [r EXCEPT !.keepSuccess = (r.status = "OK"), !.keepStatus = "OK"]
<1> DEFINE r2(o) == [r1 EXCEPT !.executed = @ \/ (o.status = "OK"),
                               !.seenDelivery = @ \/ (o.status = "OK"),
                               !.executedDelivery = r.seenDelivery \/ (o.status = "OK"),
                               !.keepStatus = o.status]
<1>1. r1 \in RExec /\ r1.committed = r.committed
  BY DEF RExec, Status
<1>2. ASSUME NEW o \in StoreOutcomes(DefaultMailbox)
      PROVE  r2(o) \in RExec /\ r2(o).committed = r.committed /\ o.tried \in BOOLEAN
  <2>1. o.status \in Status /\ o.tried \in BOOLEAN
    BY StoreOutcomesType DEF OutcomeSet
  <2>2. r2(o) \in RExec
    <3> DEFINE b == o.status = "OK"
    <3>1. ASSUME NEW q \in RExec, NEW u \in BOOLEAN, NEW v \in BOOLEAN, NEW w \in BOOLEAN,
                 NEW st \in Status
          PROVE  [q EXCEPT !.executed = u, !.seenDelivery = v, !.executedDelivery = w,
                           !.keepStatus = st] \in RExec
      BY DEF RExec
    <3>2. (r1.executed \/ b) \in BOOLEAN /\ (r1.seenDelivery \/ b) \in BOOLEAN
          /\ (r.seenDelivery \/ b) \in BOOLEAN
      OBVIOUS
    <3> HIDE DEF r1
    <3>3. QED BY <1>1, <2>1, <3>1, <3>2
  <2>3. r2(o).committed = r1.committed
    BY <1>1 DEF RExec
  <2>4. QED BY <1>1, <2>1, <2>2, <2>3
<1> DEFINE k1 == [k EXCEPT !.def = IF r.status = "OK" THEN keepDef ELSE "store"]
<1> DEFINE ax1 == IF DeferredKeep = {} THEN ax
                  ELSE [ax EXCEPT ![Max(DeferredKeep)].state = FINALIZED]
<1> DEFINE k2(o) == [k1 EXCEPT !.state = EXECUTED, !.status = o.status,
                               !.commit = (o.status = "OK"), !.noop = o.noop]
<1>3. \/ x \in {[ax |-> ax, kx |-> k, rx |-> r, equiv |-> equiv, tried |-> FALSE]}
      \/ x \in {[ax |-> ax, kx |-> k1, rx |-> r1, equiv |-> 0, tried |-> FALSE]}
      \/ x \in {[ax |-> ax, kx |-> k1, rx |-> r1, equiv |-> Min(KeepEquivalent), tried |-> FALSE]}
      \/ x \in {[ax |-> ax1, kx |-> k2(o), rx |-> r2(o), equiv |-> 0, tried |-> o.tried]
                 : o \in StoreOutcomes(DefaultMailbox)}
  BY Zenon DEF ImplicitKeepExecute
<1> HIDE DEF r1, r2, k1, k2, ax1
<1>4. \/ x.rx = r /\ x.tried = FALSE
      \/ x.rx = r1 /\ x.tried = FALSE
      \/ \E o \in StoreOutcomes(DefaultMailbox) : x.rx = r2(o) /\ x.tried = o.tried
  BY <1>3
<1>5. QED BY <1>1, <1>2, <1>4

(* The keep as it is prepared for its commit, likewise.                    *)
LEMMA KeepPreparedType ==
  ASSUME rx \in RExec, NEW x \in KeepPrepared
  PROVE  /\ x.rx \in RExec
         /\ x.rx.committed = rx.committed
         /\ x.tried \in BOOLEAN
<1> DEFINE r0 == [rx EXCEPT !.keepFinalizing = TRUE,
                            !.keepStatus = IF KeepRetry THEN rx.status ELSE @]
<1>1. r0 \in RExec /\ r0.committed = rx.committed
  BY DEF RExec
<1> HIDE DEF r0
<1>2. \/ x.rx = r0 /\ x.tried = FALSE
      \/ x \in ImplicitKeepExecute(r0, IF kx.def # "none" /\ kx.state = EXECUTED
                                       THEN NewKeepExec(kx.def) ELSE kx)
  BY DEF KeepPrepared, r0
<1>3. QED BY <1>1, <1>2, ImplicitKeepType

-----------------------------------------------------------------------------
(* Lemmas about the effects of a commit *)

(* The world after a commit is well formed, and is the world before it if  *)
(* the commit did not succeed.                                             *)
Faithful(x) ==
  /\ x.st \in Status
  /\ x.es \in ExecStatus
  /\ x.stored \in [Mailbox -> Nat]
  /\ x.sent \in [Address -> Nat]
  /\ x.replies \in Nat
  /\ x.st # "OK" => x.stored = stored /\ x.sent = sent /\ x.replies = replies

(* An effect with status OK, or one that leaves the world alone, is        *)
(* faithful to its status.                                                 *)
LEMMA EffectFaithful ==
  ASSUME NEW st \in Status, NEW e \in ExecStatus, NEW s \in [Mailbox -> Nat],
         NEW f \in [Address -> Nat], NEW n \in Nat, NEW m,
         st # "OK" => s = stored /\ f = sent /\ n = replies
  PROVE  Faithful(Effect(st, e, s, f, n, m))
BY DEF Faithful, Effect

(* Counting one up, wherever, leaves a table of counts.                    *)
LEMMA IncrementType ==
  ASSUME NEW D, NEW f \in [D -> Nat], NEW t
  PROVE  [f EXCEPT ![t] = @ + 1] \in [D -> Nat]
<1>1. CASE t \in D
  BY <1>1
<1>2. CASE t \notin D
  BY <1>2
<1>3. QED BY <1>1, <1>2

(* The world after one store or one forward is well formed.                *)
LEMMA EffectTypes ==
  ASSUME StateTypeOK
  PROVE  /\ {"OK", "FAILURE", "TEMP_FAILURE"} \subseteq Status
         /\ {es, Saved, StoreFailed, Forwarded} \subseteq ExecStatus
         /\ \A t : [stored EXCEPT ![t] = @ + 1] \in [Mailbox -> Nat]
         /\ \A t : [sent EXCEPT ![t] = @ + 1] \in [Address -> Nat]
<1>1. {"OK", "FAILURE", "TEMP_FAILURE"} \subseteq Status
  BY DEF Status
<1>2. {es, Saved, StoreFailed, Forwarded} \subseteq ExecStatus
  BY DEF StateTypeOK, ExecStatus, Saved, StoreFailed, Forwarded
<1>3. QED BY <1>1, <1>2, IncrementType DEF StateTypeOK

(* An action that does nothing is faithful to any status.                  *)
LEMMA NoEffectFaithful ==
  ASSUME StateTypeOK, NEW s \in Status
  PROVE  Faithful(NoEffect(s))
BY EffectFaithful, EffectTypes DEF NoEffect, StateTypeOK

(* act_store_commit changes a mailbox only when it returns OK.             *)
LEMMA StoreCommitFaithful ==
  ASSUME StateTypeOK, NEW t, NEW tr, NEW n, NEW x \in StoreCommit(t, tr, n)
  PROVE  Faithful(x)
<1>1. \/ x = NoEffect("FAILURE")
      \/ x = Effect("OK", Saved, stored, sent, replies, marks)
      \/ x = Effect("OK", Saved, [stored EXCEPT ![t] = @ + 1], sent, replies, marks)
      \/ x = Effect("FAILURE", StoreFailed, stored, sent, replies, marks)
      \/ x = Effect("TEMP_FAILURE", StoreFailed, stored, sent, replies, marks)
  BY Zenon DEF StoreCommit
<1>2. [stored EXCEPT ![t] = @ + 1] \in [Mailbox -> Nat]
  BY EffectTypes
<1>3. sent \in [Address -> Nat] /\ stored \in [Mailbox -> Nat] /\ replies \in Nat
  BY DEF StateTypeOK
<1>4. \A st \in Status : Faithful(NoEffect(st))
  BY NoEffectFaithful
<1>5. Faithful(Effect("OK", Saved, [stored EXCEPT ![t] = @ + 1], sent, replies, marks))
  BY <1>2, <1>3, EffectFaithful, EffectTypes
<1>6. /\ Faithful(Effect("OK", Saved, stored, sent, replies, marks))
      /\ Faithful(Effect("FAILURE", StoreFailed, stored, sent, replies, marks))
      /\ Faithful(Effect("TEMP_FAILURE", StoreFailed, stored, sent, replies, marks))
  BY <1>3, EffectFaithful, EffectTypes
<1>7. QED BY <1>1, <1>4, <1>5, <1>6, EffectTypes

(* act_redirect_commit forwards only when it returns OK.                   *)
LEMMA RedirectCommitFaithful ==
  ASSUME StateTypeOK, NEW t, NEW n, NEW x \in RedirectCommit(t, n)
  PROVE  Faithful(x)
<1> DEFINE m == [marks EXCEPT !.pending = @ \cup {t}]
<1> DEFINE f == [sent EXCEPT ![t] = @ + 1]
<1>1. \/ x \in {NoEffect("OK"), NoEffect("FAILURE"), NoEffect("TEMP_FAILURE")}
      \/ x = Effect("OK", Forwarded, stored, f, replies, m)
  BY Zenon DEF RedirectCommit
<1>2. f \in [Address -> Nat] /\ stored \in [Mailbox -> Nat] /\ replies \in Nat
  BY EffectTypes DEF StateTypeOK
<1>3. /\ Faithful(NoEffect("OK")) /\ Faithful(NoEffect("FAILURE"))
      /\ Faithful(NoEffect("TEMP_FAILURE"))
  BY NoEffectFaithful, EffectTypes
<1> HIDE DEF m, f
<1>4. Faithful(Effect("OK", Forwarded, stored, f, replies, m))
  BY <1>2, EffectFaithful, EffectTypes
<1>5. QED BY <1>1, <1>3, <1>4

(* So do the commits of reject and vacation with their replies.            *)
LEMMA ResponseCommitFaithful ==
  ASSUME StateTypeOK, NEW n, NEW x \in RejectCommit(n) \cup VacationCommit
  PROVE  Faithful(x)
<1>1. replies + 1 \in Nat
  BY DEF StateTypeOK
<1>2. QED BY <1>1, EffectFaithful, EffectTypes, NoEffectFaithful
             DEF RejectCommit, VacationCommit, StateTypeOK

(* The same for every action; an action that is neither stored, forwarded  *)
(* nor answered has no effect at all.                                      *)
LEMMA CommitEffectsFaithful ==
  ASSUME StateTypeOK, NEW a, NEW e, NEW x \in CommitEffects(a, e)
  PROVE  /\ Faithful(x)
         /\ a.def = "discard" => x.stored = stored /\ x.sent = sent /\ x.replies = replies
<1>1. NoEffect("OK").stored = stored /\ NoEffect("OK").sent = sent /\ NoEffect("OK").replies = replies
  BY DEF NoEffect, Effect
<1>2. "OK" \in Status
  BY DEF Status
<1>3. QED BY <1>1, <1>2, NoEffectFaithful, StoreCommitFaithful, RedirectCommitFaithful,
             ResponseCommitFaithful DEF CommitEffects

(* A rollback leaves the world alone.                                      *)
LEMMA RollbackFaithful ==
  ASSUME StateTypeOK, NEW d, NEW tr, NEW s
  PROVE  /\ Faithful(Rollback(d, tr, s))
         /\ Rollback(d, tr, s).stored = stored
         /\ Rollback(d, tr, s).sent = sent
         /\ Rollback(d, tr, s).replies = replies
<1>1. Faithful(Rollback(d, tr, s))
  BY EffectFaithful, EffectTypes, NoEffectFaithful DEF Rollback, StateTypeOK
<1>2. QED BY <1>1 DEF Rollback, NoEffect, Effect

-----------------------------------------------------------------------------
(* The invariant is inductive *)

(* The invariant holds before the first script is opened.                  *)
LEMMA TempInvInit == Init => TempInv
<1> SUFFICES ASSUME Init PROVE TempInv
  OBVIOUS
<1>1. StateTypeOK
  BY DEF Init, ResultInit, ExecutionInit, StateTypeOK, Phase, NewRExec, RExec, NewLoc, Loc,
         NewExecStatus, ExecStatus, Driver, NewMultiscript, Multiscript, Status
<1>2. CallOK
  BY DEF Init, ExecutionInit, CallOK
<1>3. CommitOK
  BY DEF Init, ExecutionInit, CommitOK, Untouched
<1>4. QED BY <1>1, <1>2, <1>3 DEF TempInv

(* A script that ends early leaves a well-formed struct.                   *)
LEMMA AbortedType ==
  ASSUME ms \in Multiscript, NEW s \in Status
  PROVE  Aborted(s) \in Multiscript
<1>1. (IF script = Discard /\ s = "FAILURE" THEN "KEEP_FAILED" ELSE s) \in Status
  BY DEF Status
<1>2. (ms.discardHandled \/ script = Discard) \in BOOLEAN
  OBVIOUS
<1>3. (IF s = "FAILURE" THEN FALSE ELSE ms.keep) \in BOOLEAN
  BY DEF Multiscript
<1>4. ASSUME NEW a \in Status, NEW b \in BOOLEAN, NEW c \in BOOLEAN
      PROVE  [ms EXCEPT !.status = a, !.keep = b, !.active = FALSE, !.discardHandled = c]
               \in Multiscript
  BY DEF Multiscript
<1>5. QED BY <1>1, <1>2, <1>3, <1>4 DEF Aborted

(* The steps of the driver outside sieve_result_execute do not touch what  *)
(* the invariant speaks of.                                                *)
Working == {"open", "run", "reopen", "next", "finish"}

(* A step of the plugin outside of sieve_result_execute.                   *)
LEMMA DriverStep ==
  ASSUME TempInv, UNCHANGED <<execVars, result, tries>>,
         drv \in Working, drv' \in Working, ms' \in Multiscript,
         err' \in {"NONE"} \cup OpenError
  PROVE  TempInv'
<1> USE DEF TempInv, execVars, worldVars
<1>1. StateTypeOK'
  BY DEF StateTypeOK, Working, Driver
<1>2. CallOK'
  BY DEF CallOK, Working, StateTypeOK
<1>3. CommitOK'
  BY DEF CommitOK, Untouched, CallOK, Working, StateTypeOK, Phase
<1>4. QED BY <1>1, <1>2, <1>3

(* Entering sieve_result_execute.                                          *)
LEMMA ExecuteStep ==
  ASSUME TempInv, NEW s \in Status, NEW c \in BOOLEAN, Execute(s, c),
         UNCHANGED <<err, result, tries>>, ms' \in Multiscript, drv \in Working,
         drv' = IF c THEN "finishing" ELSE "executing"
  PROVE  TempInv'
<1> USE DEF TempInv, worldVars
<1>1. loc' \in Loc /\ loc'.commit = c /\ loc'.ret = "OK"
  BY DEF Execute, Loc, Status
<1>2. rx' \in RExec /\ rx'.committed = rx.committed
  <2>1. \/ rx' = rx
        \/ rx' = [rx EXCEPT !.seenDelivery = FALSE]
        \/ rx' = [rx EXCEPT !.status = UpdateStatus(@, s)]
    BY DEF Execute
  <2>2. rx.status \in Status
    BY DEF StateTypeOK, RExec
  <2>3. UpdateStatus(rx.status, s) \in Status
    BY <2>2, UpdateStatusType
  <2>4. QED BY <2>1, <2>3 DEF StateTypeOK, RExec
<1>3. phase' \in {"panic", "execute", "return", "keep", "commit"}
      /\ (~c => phase' \in {"panic", "execute", "return"})
      /\ (c => phase' # "return")
  BY DEF Execute, AfterExecute
<1>4. StateTypeOK'
  BY <1>1, <1>2, <1>3 DEF StateTypeOK, Driver, Phase, Execute
<1>5. CallOK'
  BY <1>1, <1>3 DEF CallOK, Working, StateTypeOK
<1>6. CommitOK'
  BY <1>1, <1>2, <1>3 DEF CommitOK, Untouched, CallOK, Working, StateTypeOK, Execute
<1>7. QED BY <1>4, <1>5, <1>6

(* A step of sieve_result_execute that commits nothing.                    *)
LEMMA QuietStep ==
  ASSUME TempInv, UNCHANGED <<ldaVars, worldVars>>,
         phase \in {"execute", "keep", "commit", "finalize", "finish"},
         phase' \in Phase \ {"idle"}, rx' \in RExec, loc' \in Loc, es' \in ExecStatus,
         rx'.committed = rx.committed, loc'.commit = loc.commit,
         ~loc.commit => phase' \in {"execute", "return", "panic"},
         phase' = "finish" /\ loc'.ret = "TEMP_FAILURE" => ~rx'.committed,
         phase' = "return" /\ loc.commit /\ rx'.status = "TEMP_FAILURE" => ~rx'.committed
  PROVE  TempInv'
<1> USE DEF TempInv, ldaVars, worldVars
<1>1. StateTypeOK'
  BY DEF StateTypeOK
<1>2. CallOK'
  BY DEF CallOK, StateTypeOK
<1>3. CommitOK'
  BY DEF CommitOK, Untouched, CallOK, StateTypeOK
<1>4. QED BY <1>1, <1>2, <1>3

(* The status variables after the end of an action are well formed.        *)
LEMMA FinalizedType ==
  ASSUME NEW l \in Loc, NEW k, NEW st \in Status, NEW b, NEW f
  PROVE  /\ Finalized(l, k, st, b, f) \in Loc
         /\ Finalized(l, k, st, b, f).commit = l.commit
         /\ Finalized(l, k, st, b, f).status \in Status
<1> DEFINE bad == st # "OK" /\ l.commitStatus = "OK"
           c == IF bad THEN st ELSE l.commitStatus
           s == IF bad /\ (~b \/ f) THEN st ELSE l.status
           Salvage(x) == IF k /\ x = "FAILURE" THEN "KEEP_FAILED" ELSE x
<1>1. Salvage(s) \in Status /\ Salvage(c) \in Status
  BY DEF Loc, Status
<1>2. Finalized(l, k, st, b, f) = [l EXCEPT !.status = Salvage(s), !.commitStatus = Salvage(c)]
  BY Zenon DEF Finalized
<1> HIDE DEF Salvage, s, c
<1>3. QED BY <1>1, <1>2 DEF Loc

(* Each step of sieve_result_execute keeps the invariant: the execution of *)
(* an action,                                                              *)
LEMMA ExecuteActionStep ==
  ASSUME TempInv, ExecuteAction, UNCHANGED ldaVars
  PROVE  TempInv'
<1> USE DEF TempInv
<1> DEFINE k == Min(Pending(EXECUTED))
           a == acts[ax[k].obj]
<1>1. PICK o \in ExecuteOutcomes(a) :
           /\ rx' = [rx EXCEPT
                       !.keepExplicit = @ \/ a.keep,
                       !.keepImplicit = @ /\ o.keep,
                       !.executed = @ \/ (o.status = "OK" /\ a.def \notin {"none", "vacation"}),
                       !.seenDelivery = @ \/ (o.status = "OK" /\ a.def \in TriesDeliver),
                       !.status = UpdateStatus(@, o.status)]
           /\ es' = [es EXCEPT !.triedDefault = @ \/ o.tried]
           /\ loc' = [loc EXCEPT !.status = o.status]
           /\ phase' = IF o.status = "OK" THEN "execute" ELSE AfterExecute(rx', loc.commit)
  BY Zenon DEF ExecuteAction
<1> HIDE DEF k, a
<1>2. o.status \in Status
  BY ExecuteOutcomesType DEF OutcomeSet
<1>3. rx' \in RExec /\ rx'.committed = rx.committed
  <2> DEFINE c1 == rx.keepExplicit \/ a.keep
             c2 == rx.keepImplicit /\ o.keep
             c3 == rx.executed \/ (o.status = "OK" /\ a.def \notin {"none", "vacation"})
             c4 == rx.seenDelivery \/ (o.status = "OK" /\ a.def \in TriesDeliver)
             s1 == UpdateStatus(rx.status, o.status)
  <2>1. c1 \in BOOLEAN /\ c2 \in BOOLEAN /\ c3 \in BOOLEAN /\ c4 \in BOOLEAN
    OBVIOUS
  <2>2. s1 \in Status
    BY <1>2, UpdateStatusType DEF StateTypeOK, RExec
  <2>3. rx \in RExec
    BY DEF StateTypeOK
  <2>4. rx' = [rx EXCEPT !.keepExplicit = c1, !.keepImplicit = c2, !.executed = c3,
                         !.seenDelivery = c4, !.status = s1]
    BY Zenon, <1>1
  <2> HIDE DEF c1, c2, c3, c4, s1
  <2>5. rx' \in RExec
    BY <2>1, <2>2, <2>3, <2>4 DEF RExec
  <2>6. rx'.committed = rx.committed
    BY <2>3, <2>4 DEF RExec
  <2>7. QED BY <2>5, <2>6
<1>4. loc' \in Loc /\ loc'.commit = loc.commit
  BY <1>1, <1>2 DEF StateTypeOK, Loc
<1>5. es' \in ExecStatus
  <2>1. (es.triedDefault \/ o.tried) \in BOOLEAN
    OBVIOUS
  <2>2. QED BY <1>1, <2>1 DEF StateTypeOK, ExecStatus
<1>6. /\ phase' \in {"execute", "return", "keep", "commit"}
      /\ loc.commit => phase' # "return"
      /\ ~loc.commit => phase' \in {"execute", "return"}
  BY <1>1 DEF AfterExecute
<1>7. phase = "execute" /\ UNCHANGED worldVars
  BY DEF ExecuteAction
<1>8. QED BY <1>3, <1>4, <1>5, <1>6, <1>7, QuietStep DEF Phase

(* the end of the execution phase,                                         *)
LEMMA ExecuteDoneStep ==
  ASSUME TempInv, ExecuteDone, UNCHANGED ldaVars
  PROVE  TempInv'
<1> USE DEF TempInv
<1>1. rx' \in RExec /\ rx'.committed = rx.committed
  <2>1. (rx.executedDelivery \/ rx.seenDelivery) \in BOOLEAN
    OBVIOUS
  <2>2. QED BY <2>1 DEF ExecuteDone, StateTypeOK, RExec
<1>2. /\ phase' \in {"return", "keep", "commit"}
      /\ loc.commit => phase' # "return"
      /\ ~loc.commit => phase' = "return"
  BY DEF ExecuteDone, AfterExecute
<1>3. phase = "execute" /\ UNCHANGED <<worldVars, loc, es>>
  BY DEF ExecuteDone
<1>4. QED BY <1>1, <1>2, <1>3, QuietStep DEF Phase, StateTypeOK

(* the execution of the implicit keep,                                     *)
LEMMA KeepExecuteStep ==
  ASSUME TempInv, KeepExecute, UNCHANGED ldaVars
  PROVE  TempInv'
<1> USE DEF TempInv
<1>1. PICK x \in ImplicitKeepExecute(rx, kx) :
        rx' = x.rx /\ es' = [es EXCEPT !.triedDefault = @ \/ x.tried]
  BY DEF KeepExecute
<1>2. rx' \in RExec /\ rx'.committed = rx.committed
  BY <1>1, ImplicitKeepType DEF StateTypeOK
<1>3. es' \in ExecStatus
  <2>1. (es.triedDefault \/ x.tried) \in BOOLEAN
    OBVIOUS
  <2>2. QED BY <1>1, <2>1 DEF StateTypeOK, ExecStatus
<1>4. phase = "keep" /\ phase' = "commit" /\ UNCHANGED <<worldVars, loc>>
  BY DEF KeepExecute
<1>5. loc.commit
  BY <1>4 DEF CallOK
<1>6. QED BY <1>2, <1>3, <1>4, <1>5, QuietStep DEF Phase, StateTypeOK

(* The commit or rollback of one action: an effect on the world is         *)
(* recorded in rexec->committed.                                           *)
LEMMA FinalizeActionStep ==
  ASSUME TempInv, FinalizeAction, UNCHANGED ldaVars
  PROVE  TempInv'
<1> USE DEF TempInv
<1> DEFINE k == NextToFinalize
           e == ax[k]
           a == acts[e.obj]
           l == [loc EXCEPT !.commitStatus = CommitStatus]
           commit == a.def # "none" /\ MayCommit(e, l)
<1>1. PICK x \in IF commit THEN CommitEffects(a, e) ELSE {Rollback(a.def, e.tr, e.status)} :
              /\ es' = x.es
              /\ stored' = x.stored
              /\ sent' = x.sent
              /\ replies' = x.replies
              /\ rx' = [rx EXCEPT !.committed = @ \/ (commit /\ x.st = "OK" /\ a.def # "discard")]
              /\ loc' = IF a.def = "none" THEN l
                        ELSE Finalized(l, a.keep, IF commit THEN x.st ELSE "OK",
                                       rx'.committed, x.es.storeFailed)
  BY Zenon DEF FinalizeAction
<1>2. phase = "commit" /\ phase' = "commit" /\ loc.commit /\ drv = "finishing"
  BY DEF FinalizeAction, CallOK
<1>3. /\ Faithful(x)
      /\ ~(commit /\ x.st = "OK" /\ a.def # "discard") =>
           x.stored = stored /\ x.sent = sent /\ x.replies = replies
  <2>1. CASE commit
    <3>1. x \in CommitEffects(a, e)
      BY <1>1, <2>1
    <3>2. QED BY <2>1, <3>1, CommitEffectsFaithful DEF Faithful
  <2>2. CASE ~commit
    <3>1. x = Rollback(a.def, e.tr, e.status)
      BY <1>1, <2>2
    <3>2. QED BY <2>2, <3>1, RollbackFaithful
  <2>3. QED BY <2>1, <2>2
<1>4. l \in Loc /\ l.commit
  <2>1. CommitStatus \in Status
    BY DEF CommitStatus, StateTypeOK, Loc, Status
  <2>2. QED BY <1>2, <2>1 DEF StateTypeOK, Loc
<1> DEFINE c == commit /\ x.st = "OK" /\ a.def # "discard"
<1>5. rx' = [rx EXCEPT !.committed = @ \/ c] /\ c \in BOOLEAN
  BY Zenon, <1>1
<1>6. loc' \in Loc /\ loc'.commit
  <2>1. (IF commit THEN x.st ELSE "OK") \in Status
    BY <1>3 DEF Faithful, Status
  <2>2. loc' = l \/ \E st \in Status : \E b1, b2, b3 : loc' = Finalized(l, b1, st, b2, b3)
    BY <1>1, <2>1
  <2> HIDE DEF l
  <2>3. QED BY <1>4, <2>2, FinalizedType
<1> HIDE DEF c, commit, l, a, e, k
<1>7. rx' \in RExec /\ (rx'.committed <=> rx.committed \/ c)
  BY <1>5 DEF StateTypeOK, RExec
<1>8. /\ es' \in ExecStatus
      /\ stored' \in [Mailbox -> Nat] /\ sent' \in [Address -> Nat] /\ replies' \in Nat
      /\ ~rx'.committed => stored' = stored /\ sent' = sent /\ replies' = replies
  BY <1>1, <1>3, <1>7 DEF Faithful, c
<1>9. StateTypeOK'
  BY <1>2, <1>6, <1>7, <1>8 DEF StateTypeOK, ldaVars
<1>10. CallOK'
  BY <1>2, <1>6 DEF CallOK, ldaVars
<1>11. CommitOK'
  BY <1>2, <1>7, <1>8 DEF CommitOK, Untouched, CallOK, ldaVars
<1>12. QED BY <1>9, <1>10, <1>11

(* The end of the commit phase.                                            *)
LEMMA CommitDoneStep ==
  ASSUME TempInv, CommitDone, UNCHANGED ldaVars
  PROVE  TempInv'
<1> USE DEF TempInv
<1>1. UpdateStatus(rx.status, CommitStatus) \in Status
  <2>1. rx.status \in Status /\ CommitStatus \in Status
    BY DEF StateTypeOK, RExec, CommitStatus, Loc, Status
  <2>2. QED BY <2>1, UpdateStatusType
<1>2. rx' \in RExec /\ rx'.committed = rx.committed /\ rx'.status \in Status
  BY <1>1 DEF CommitDone, StateTypeOK, RExec
<1>3. loc' \in Loc /\ loc'.commit = loc.commit /\ loc'.ret = rx'.status
  BY <1>2 DEF CommitDone, StateTypeOK, Loc
<1>4. phase = "commit" /\ phase' \in {"finalize", "finish"} /\ UNCHANGED <<es, worldVars>>
      /\ (phase' = "finish" => rx'.status = "OK")
  BY DEF CommitDone
<1>5. loc.commit
  BY <1>4 DEF CallOK
<1>6. QED BY <1>2, <1>3, <1>4, <1>5, QuietStep DEF Phase, StateTypeOK

(* The final switch reports a temporary failure only if nothing was        *)
(* committed.                                                              *)
LEMMA ResultStatusFact ==
  ASSUME NEW r \in Status, NEW s, NEW c
  PROVE  /\ ResultStatus(r, s, c) \in Status
         /\ ResultStatus(r, s, c) = "TEMP_FAILURE" => ~c
BY DEF ResultStatus, Status, TempStatus

(* The implicit keep is skipped for a temporary failure,                   *)
LEMMA KeepFinalizeSkipStep ==
  ASSUME TempInv, KeepFinalizeSkip, UNCHANGED ldaVars
  PROVE  TempInv'
<1> USE DEF TempInv
<1>1. ResultStatus(loc.ret, rx.status, rx.committed) \in Status
  BY ResultStatusFact DEF StateTypeOK, Loc
<1>2. loc' \in Loc /\ loc'.commit = loc.commit
  BY <1>1 DEF KeepFinalizeSkip, StateTypeOK, Loc
<1>3. phase = "finalize" /\ phase' = "finish" /\ UNCHANGED <<rx, es, worldVars>> /\ ~rx.committed
  BY DEF KeepFinalizeSkip, SkipKeep
<1>4. loc.commit
  BY <1>3 DEF CallOK
<1>5. QED BY <1>2, <1>3, <1>4, QuietStep DEF Phase, StateTypeOK

(* or another action took its place.                                       *)
LEMMA KeepByOtherStep ==
  ASSUME TempInv, KeepByOther, UNCHANGED ldaVars
  PROVE  TempInv'
<1> USE DEF TempInv
<1>1. PICK x \in KeepPrepared :
        /\ LET ret == IF x.kx.def = "none" THEN x.rx.keepStatus ELSE x.ax[x.equiv].status
           IN  loc' = [loc EXCEPT !.ret = ResultStatus(@, ret, rx.committed)]
        /\ phase' \in {"panic", "finish"}
        /\ rx' = x.rx
        /\ es' = [es EXCEPT !.triedDefault = @ \/ x.tried, !.storeFailed = @ \/ SwitchFailed]
  BY DEF KeepByOther
<1> DEFINE ret == IF x.kx.def = "none" THEN x.rx.keepStatus ELSE x.ax[x.equiv].status
           st == ResultStatus(loc.ret, ret, rx.committed)
<1>2. st \in Status /\ (st = "TEMP_FAILURE" => ~rx.committed)
  BY ResultStatusFact DEF StateTypeOK, Loc
<1>3. loc' = [loc EXCEPT !.ret = st]
  BY Zenon, <1>1
<1> HIDE DEF st
<1>4. loc' \in Loc /\ loc'.commit = loc.commit /\ loc'.ret = st
  BY <1>2, <1>3 DEF StateTypeOK, Loc
<1>5. rx' \in RExec /\ rx'.committed = rx.committed
  BY <1>1, KeepPreparedType DEF StateTypeOK
<1>6. es' \in ExecStatus
  <2>1. (es.triedDefault \/ x.tried) \in BOOLEAN /\ (es.storeFailed \/ SwitchFailed) \in BOOLEAN
    OBVIOUS
  <2>2. QED BY <1>1, <2>1 DEF StateTypeOK, ExecStatus
<1>7. phase = "finalize" /\ UNCHANGED worldVars
  BY DEF KeepByOther
<1>8. loc.commit
  BY <1>7 DEF CallOK
<1>9. QED BY <1>1, <1>2, <1>4, <1>5, <1>6, <1>7, <1>8, QuietStep DEF Phase

(* The final round records the status that was decided.                    *)
LEMMA FinishStep ==
  ASSUME TempInv, Finish, UNCHANGED ldaVars
  PROVE  TempInv'
<1> USE DEF TempInv
<1>1. rx' \in RExec /\ rx'.committed = rx.committed /\ rx'.status = loc.ret
  BY DEF Finish, StateTypeOK, RExec, Loc
<1>2. phase = "finish" /\ phase' = "return" /\ UNCHANGED <<loc, es, worldVars>>
  BY DEF Finish
<1>3. loc.commit /\ (loc.ret = "TEMP_FAILURE" => ~rx.committed)
  BY <1>2 DEF CallOK, CommitOK
<1>4. QED BY <1>1, <1>2, <1>3, QuietStep DEF Phase, StateTypeOK

(* The commit of the implicit keep.                                        *)
LEMMA KeepFinalizeStep ==
  ASSUME TempInv, KeepFinalize, UNCHANGED ldaVars
  PROVE  TempInv'
<1> USE DEF TempInv
<1> DEFINE l(x) == [loc EXCEPT !.status = x.rx.keepStatus,
                               !.commitStatus = IF KeepRetry THEN rx.status ELSE "OK"]
           commit(x) == MayCommit(x.kx, l(x))
           committed(x, c) == rx.committed \/ (commit(x) /\ c.st = "OK")
           failed(c) == c.es.storeFailed \/ SwitchFailed
           f(x, c) == Finalized(l(x), TRUE, IF commit(x) THEN c.st ELSE "OK", committed(x, c), failed(c))
<1>1. PICK x \in KeepPrepared :
        /\ \E c \in IF commit(x) THEN StoreCommit(DefaultMailbox, TRUE, x.kx.noop)
                    ELSE {Rollback("store", TRUE, x.kx.status)} :
             /\ rx' = [x.rx EXCEPT !.committed = committed(x, c), !.keepStatus = f(x, c).status]
             /\ es' = [c.es EXCEPT !.triedDefault = @ \/ x.tried, !.storeFailed = failed(c)]
             /\ stored' = c.stored
             /\ loc' = [loc EXCEPT !.ret = ResultStatus(@, f(x, c).status, committed(x, c))]
        /\ phase' = IF x.kx.state < EXECUTED THEN "panic" ELSE "finish"
  BY Zenon DEF KeepFinalize
<1>2. PICK c \in IF commit(x) THEN StoreCommit(DefaultMailbox, TRUE, x.kx.noop)
                 ELSE {Rollback("store", TRUE, x.kx.status)} :
        /\ rx' = [x.rx EXCEPT !.committed = committed(x, c), !.keepStatus = f(x, c).status]
        /\ es' = [c.es EXCEPT !.triedDefault = @ \/ x.tried, !.storeFailed = failed(c)]
        /\ stored' = c.stored
        /\ loc' = [loc EXCEPT !.ret = ResultStatus(@, f(x, c).status, committed(x, c))]
  BY Zenon, <1>1
<1>3. Faithful(c) /\ (~(commit(x) /\ c.st = "OK") => c.stored = stored)
  <2>1. CASE commit(x)
    <3>1. c \in StoreCommit(DefaultMailbox, TRUE, x.kx.noop)
      BY Zenon, <1>2, <2>1
    <3> HIDE DEF commit
    <3>2. Faithful(c)
      BY <3>1, StoreCommitFaithful
    <3>3. QED BY <2>1, <3>2 DEF Faithful
  <2>2. CASE ~commit(x)
    <3>1. c = Rollback("store", TRUE, x.kx.status)
      BY Zenon, <1>2, <2>2
    <3> HIDE DEF commit
    <3>2. /\ Faithful(Rollback("store", TRUE, x.kx.status))
          /\ Rollback("store", TRUE, x.kx.status).stored = stored
      BY EffectFaithful, EffectTypes, NoEffectFaithful DEF Rollback, StateTypeOK, NoEffect, Effect
    <3>3. QED BY <3>1, <3>2
  <2>3. QED BY <2>1, <2>2
<1>4. x.rx \in RExec /\ x.rx.committed = rx.committed
  BY KeepPreparedType DEF StateTypeOK
<1>5. f(x, c).status \in Status
  <2>1. l(x) \in Loc
    BY <1>4 DEF StateTypeOK, Loc, RExec, Status
  <2>2. (IF commit(x) THEN c.st ELSE "OK") \in Status
    BY <1>3 DEF Faithful, Status
  <2> HIDE DEF l, commit, committed, failed
  <2>3. QED BY <2>1, <2>2, FinalizedType
<1>6. phase' \in {"panic", "finish"} /\ phase = "finalize" /\ UNCHANGED <<sent, replies>>
  BY <1>1 DEF KeepFinalize
<1>7. committed(x, c) \in BOOLEAN
      /\ (committed(x, c) <=> rx.committed \/ (commit(x) /\ c.st = "OK"))
  OBVIOUS
<1>8. /\ ResultStatus(loc.ret, f(x, c).status, committed(x, c)) \in Status
      /\ ResultStatus(loc.ret, f(x, c).status, committed(x, c)) = "TEMP_FAILURE" => ~committed(x, c)
  <2> HIDE DEF f, committed
  <2>1. QED BY ResultStatusFact DEF StateTypeOK, Loc
<1>9. es' \in ExecStatus
  <2>1. (c.es.triedDefault \/ x.tried) \in BOOLEAN /\ failed(c) \in BOOLEAN
    OBVIOUS
  <2> HIDE DEF failed
  <2>2. QED BY <1>2, <1>3, <2>1 DEF Faithful, ExecStatus
<1> HIDE DEF f, committed, failed
<1>10. rx' \in RExec /\ rx'.committed = committed(x, c)
  BY <1>2, <1>4, <1>5, <1>7 DEF RExec
<1>11. /\ loc' \in Loc /\ loc'.commit = loc.commit
       /\ loc'.ret = "TEMP_FAILURE" => ~rx'.committed
  BY <1>2, <1>8, <1>10 DEF StateTypeOK, Loc
<1>12. loc.commit /\ drv = "finishing"
  BY <1>6 DEF CallOK
<1>13. stored' \in [Mailbox -> Nat] /\ (~rx'.committed => stored' = stored /\ ~rx.committed)
  BY <1>2, <1>3, <1>7, <1>10 DEF Faithful
<1>14. StateTypeOK'
  BY <1>6, <1>9, <1>10, <1>11, <1>13 DEF StateTypeOK, ldaVars, Phase
<1>15. CallOK'
  BY <1>6, <1>11, <1>12 DEF CallOK, ldaVars
<1>16. CommitOK'
  BY <1>6, <1>11, <1>12, <1>13 DEF CommitOK, Untouched, CallOK, ldaVars
<1>17. QED BY <1>14, <1>15, <1>16

-----------------------------------------------------------------------------
(* The steps of the driver around a call *)

(* The keep that is handed to the next script is well formed.              *)
LEMMA MergeKeepType ==
  ASSUME rx \in RExec
  PROVE  MergeKeep \in RExec /\ MergeKeep.committed = rx.committed
<1>1. ReturnKeep \in BOOLEAN
  BY DEF ReturnKeep
<1>2. QED BY <1>1 DEF MergeKeep, RExec

(* The return of a call that did not commit.                               *)
LEMMA ExecutedStep ==
  ASSUME TempInv, Executed
  PROVE  TempInv'
<1> USE DEF TempInv, worldVars
<1>1. rx' \in RExec /\ rx'.committed = rx.committed
  BY MergeKeepType DEF Executed, StateTypeOK
<1>2. ms' \in Multiscript
  <2>1. Aborted(ReturnStatus) \in Multiscript
    BY AbortedType DEF StateTypeOK, ReturnStatus, RExec
  <2>2. ReturnKeep \in BOOLEAN /\ (ms.active /\ ReturnKeep) \in BOOLEAN
    BY DEF ReturnKeep
  <2>3. ms' = [ms EXCEPT !.keep = ReturnKeep, !.active = (ms.active /\ ReturnKeep)]
        \/ ms' = [Aborted(ReturnStatus) EXCEPT !.keep = ReturnKeep]
    BY DEF Executed
  <2>4. QED BY <2>1, <2>2, <2>3 DEF StateTypeOK, Multiscript
<1>3. StateTypeOK'
  BY <1>1, <1>2 DEF StateTypeOK, Executed, Driver, Phase
<1>4. CallOK'
  BY DEF CallOK, Executed
<1>5. CommitOK'
  BY <1>1 DEF CommitOK, Untouched, CallOK, Executed
<1>6. QED BY <1>3, <1>4, <1>5

(* The return of the final call.                                           *)
LEMMA FinishedStep ==
  ASSUME TempInv, Finished
  PROVE  TempInv'
<1> USE DEF TempInv
<1>1. rx' \in RExec /\ rx'.committed = rx.committed
  BY MergeKeepType DEF Finished, StateTypeOK
<1>2. StateTypeOK'
  BY <1>1 DEF StateTypeOK, Finished, Driver, Phase, ReturnStatus, RExec
<1>3. CallOK'
  BY DEF CallOK, Finished
<1>4. CommitOK'
  BY <1>1 DEF CommitOK, Untouched, CallOK, Finished, ReturnStatus
<1>5. QED BY <1>2, <1>3, <1>4

(* What mail_deliver does with the answer,                                 *)
LEMMA DeliverStep ==
  ASSUME TempInv, Deliver
  PROVE  TempInv'
<1> USE DEF TempInv
<1>1. stored' \in [Mailbox -> Nat] /\ (result = "TEMP_FAILURE" => stored' = stored)
  <2>1. [stored EXCEPT ![DefaultMailbox] = @ + 1] \in [Mailbox -> Nat]
    BY IncrementType DEF StateTypeOK
  <2>2. QED BY <2>1 DEF Deliver, StateTypeOK
<1>2. StateTypeOK'
  BY <1>1 DEF StateTypeOK, Deliver, Driver
<1>3. CallOK'
  BY DEF CallOK, Deliver
<1>4. CommitOK'
  BY <1>1 DEF CommitOK, Untouched, CallOK, Deliver
<1>5. QED BY <1>2, <1>3, <1>4

(* and a new try.                                                          *)
LEMMA RedeliverStep ==
  ASSUME TempInv, Redeliver
  PROVE  TempInv'
<1> USE DEF TempInv, worldVars
<1>1. tries' # 1 /\ tries' \in Nat \ {0}
  BY DEF Redeliver, StateTypeOK
<1>2. StateTypeOK'
  BY <1>1 DEF StateTypeOK, Redeliver, Driver, NewRExec, RExec, NewLoc, Loc, NewExecStatus,
         ExecStatus, NewMultiscript, Multiscript, Status
<1>3. CallOK'
  BY DEF CallOK, Redeliver
<1>4. CommitOK'
  BY <1>1 DEF CommitOK, CallOK, Redeliver, NewRExec, NewLoc
<1>5. QED BY <1>2, <1>3, <1>4

-----------------------------------------------------------------------------
(* The invariant is inductive.                                             *)
LEMMA TempInvNext == TempInv /\ [Next]_vars => TempInv'
<1> SUFFICES ASSUME TempInv, [Next]_vars PROVE TempInv'
  OBVIOUS
<1>1. CASE \/ OpenScript \/ OpenFailed \/ RunCommand \/ RunFailed \/ RunCorrupt \/ Reopen
           \/ NextScript \/ StartDiscard \/ EndScripts
  <2>1. \A s \in Status : Aborted(s) \in Multiscript
    BY AbortedType DEF TempInv, StateTypeOK
  <2>2. {"FAILURE", "TEMP_FAILURE", "RESOURCE_LIMIT", "BIN_CORRUPT"} \subseteq Status
    BY DEF Status
  <2>3. ms' \in Multiscript
    <3>1. \/ ms' = ms
          \/ \E s \in {"FAILURE", "TEMP_FAILURE", "RESOURCE_LIMIT", "BIN_CORRUPT"} : ms' = Aborted(s)
      BY <1>1 DEF OpenScript, OpenFailed, RunCommand, RunFailed, RunCorrupt, Reopen, NextScript,
                  StartDiscard, EndScripts
    <3>2. QED BY <2>1, <2>2, <3>1 DEF TempInv, StateTypeOK
  <2>4. err' \in {"NONE"} \cup OpenError
    BY <1>1 DEF OpenScript, OpenFailed, RunCommand, RunFailed, RunCorrupt, Reopen, NextScript,
                StartDiscard, EndScripts, TempInv, StateTypeOK
  <2>5. drv \in Working /\ drv' \in Working
    BY <1>1 DEF OpenScript, OpenFailed, RunCommand, RunFailed, RunCorrupt, Reopen, NextScript,
                StartDiscard, EndScripts, Working
  <2>6. UNCHANGED <<execVars, result, tries>>
    BY <1>1 DEF OpenScript, OpenFailed, RunCommand, RunFailed, RunCorrupt, Reopen, NextScript,
                StartDiscard, EndScripts, execVars
  <2>7. QED BY <2>3, <2>4, <2>5, <2>6, DriverStep
<1>2. CASE RunDone
  <2>1. ms' \in Multiscript
    BY <1>2 DEF RunDone, TempInv, StateTypeOK, Multiscript, Status
  <2>2. QED BY <1>2, <2>1, ExecuteStep DEF RunDone, Working, Status
<1>3. CASE MultiscriptFinish
  <2>1. (IF err = "TEMP_FAILURE" THEN "TEMP_FAILURE" ELSE ms.status) \in Status
    BY DEF TempInv, StateTypeOK, Multiscript, Status
  <2>2. ms' \in Multiscript
    BY <1>3 DEF MultiscriptFinish, TempInv, StateTypeOK
  <2>3. QED BY <1>3, <2>1, <2>2, ExecuteStep DEF MultiscriptFinish, Working
<1>4. CASE ExecutionStep /\ UNCHANGED ldaVars
  BY <1>4, ExecuteActionStep, ExecuteDoneStep, KeepExecuteStep, FinalizeActionStep, CommitDoneStep,
     KeepFinalizeSkipStep, KeepByOtherStep, KeepFinalizeStep, FinishStep DEF ExecutionStep
<1>5. CASE Executed
  BY <1>5, ExecutedStep
<1>6. CASE Finished
  BY <1>6, FinishedStep
<1>7. CASE Deliver
  BY <1>7, DeliverStep
<1>8. CASE Redeliver
  BY <1>8, RedeliverStep
<1>9. CASE UNCHANGED vars
  BY <1>9 DEF vars, execVars, worldVars, ldaVars, TempInv, StateTypeOK, CallOK, CommitOK, Untouched
<1>10. QED BY <1>1, <1>2, <1>3, <1>4, <1>5, <1>6, <1>7, <1>8, <1>9 DEF Next

(* The execution state and the world keep their types in every delivery.   *)
THEOREM StateTypeCorrect == Spec => []StateTypeOK
<1>1. TempInv => StateTypeOK
  BY DEF TempInv
<1>2. QED BY <1>1, TempInvInit, TempInvNext, PTL DEF Spec

(* A delivery that lda_sieve_deliver_mail reports as a temporary failure   *)
(* stored, forwarded and answered nothing, so trying it again is safe.     *)
THEOREM TempFailureSafe == Spec => []TempFailureLeavesNothing
<1>1. TempInv => TempFailureLeavesNothing
  BY DEF TempInv, CommitOK, Untouched, TempFailureLeavesNothing, StoredSomewhere, SentSomewhere,
         StateTypeOK
<1>2. QED BY <1>1, TempInvInit, TempInvNext, PTL DEF Spec
=============================================================================
