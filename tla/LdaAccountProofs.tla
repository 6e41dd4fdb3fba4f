--------------------------- MODULE LdaAccountProofs ---------------------------
(***************************************************************************)
(* Proofs about LdaSieve, concluded. The message is accounted for: what    *)
(* the plugin reports, the verdict of mail_deliver and the traces in the   *)
(* world agree, for every sequence of scripts and whichever calls fail.    *)
(***************************************************************************)
EXTENDS LdaResultProofs

-----------------------------------------------------------------------------
(* The inductive invariant *)

(* The plugin has entered the final execution.                             *)
Last == {"finishing", "deliver", "done"}

Listed(o) == \E k \in 1 .. Len(list) : list[k] = o

(* The action is as it was when it was last started; it stores in m, or    *)
(* forwards to a.                                                          *)
Current(i) == ax[i].seq = acts[ax[i].obj].seq
Stores(i, m) == acts[ax[i].obj].def = "store" /\ acts[ax[i].obj].tgt = m
Forwards(i, a) == acts[ax[i].obj].def = "redirect" /\ acts[ax[i].obj].tgt = a

(* A script runs only while the sequence goes well, and a corrupt one ends *)
(* it.                                                                     *)
ScriptOK ==
  /\ ms.active => ms.status = "OK"
  /\ drv = "run" => ms.status = "OK"
  /\ drv = "reopen" => ~ms.active /\ ms.status # "OK"
  /\ verdict = "none" <=> drv # "done"

(* A keep is bound to the default mailbox only by the discard script and   *)
(* in the final call, and no action but an unbound keep leaves the list.   *)
BindingOK ==
  /\ drv \notin Last /\ script # Discard => keepDef = "none"
  /\ drv \in Last => keepDef = "store"
  /\ drv = "run" /\ script = Discard => keepDef = "store"
KeepsOK ==
  \A o \in 1 .. Len(acts) :
    /\ acts[o].keep => acts[o].tgt = DefaultMailbox
    /\ acts[o].keep /\ (script # Discard \/ drv = "open") => acts[o].def = "none"
    /\ acts[o].keep /\ acts[o].def = "store" /\ drv = "run" => acts[o].seq = execSeq
    /\ acts[o].def = "store" => acts[o].tgt \in Mailbox
    /\ acts[o].def # "none" => Listed(o)

(* One action per mailbox and address, but for KeptTwice.                  *)
UniqueOK ==
  \A o, p \in 1 .. Len(acts) :
    /\ o # p /\ acts[o].def \in TriesDeliver
    /\ acts[o].def = acts[p].def /\ acts[o].tgt = acts[p].tgt
    => /\ acts[o].def = "store" /\ acts[o].tgt = DefaultMailbox
       /\ acts[o].keep \/ acts[p].keep

(* What is on the list was executed, up to what the script at hand added.  *)
WasRun(o) ==
  \E i \in 1 .. Len(ax) : /\ ax[i].obj = o /\ ax[i].seq = acts[o].seq
                          /\ ax[i].state = EXECUTED /\ ax[i].status = "OK"
RanOK ==
  drv \in Working /\ ms.status = "OK" =>
    \A k \in 1 .. Len(list) : WasRun(list[k]) \/ (drv = "run" /\ acts[list[k]].seq = execSeq)

(* During and after a call the execution states are those of the actions   *)
(* on the list, as they are.                                               *)
HereOK ==
  drv \in {"executing"} \cup Last /\ phase # "panic" =>
    /\ \A i \in 1 .. Len(ax) : Current(i) /\ Listed(ax[i].obj)
    /\ \A k \in 1 .. Len(list) : \E i \in 1 .. Len(ax) : ax[i].obj = list[k]

(* A failure of one action is a failure of the call, and a call without    *)
(* failure executed every action.                                          *)
RunStatusOK ==
  /\ rx.status = "OK" => \A i \in 1 .. Len(ax) : ax[i].state >= EXECUTED => ax[i].status = "OK"
  /\ rx.status = "OK" /\ phase \in {"keep", "commit", "finalize", "finish", "return"} =>
       \A i \in 1 .. Len(ax) : ax[i].state >= EXECUTED
  /\ drv \notin Last \/ phase \in {"execute", "keep"} =>
       \A i \in 1 .. Len(ax) : ax[i].state # FINALIZED

(* The status of the parts of a call, and what becomes of it.              *)
CallStatusOK ==
  /\ drv = "executing" => phase \in {"execute", "return"}
  /\ phase = "execute" => rx.status = "OK" /\ loc.status = "OK"
  /\ phase \in {"execute", "keep"} => loc.commitStatus = "OK"
  /\ phase \in {"keep", "commit"} /\ rx.status # "OK" => loc.status # "OK"
  /\ phase \in {"keep", "commit"} /\ rx.status = "OK" /\ loc.commitStatus = "OK" => loc.status = "OK"
  /\ phase = "finalize" => loc.ret = rx.status
  /\ phase = "finish" /\ loc.ret = "OK" => rx.status = "OK"
  /\ phase = "return" /\ drv = "finishing" => loc.ret = rx.status

(* The transactions of stores: an unbound keep has none, a store that was  *)
(* not executed is not committed.                                          *)
StoresOK ==
  \A i \in 1 .. Len(ax) :
    /\ acts[ax[i].obj].def = "none" \/ ~Current(i) => ~ax[i].tr
    /\ acts[ax[i].obj].def \in {"none", "store"} => ~ax[i].noop
    /\ acts[ax[i].obj].def = "store" /\ ax[i].state < EXECUTED /\ ax[i].commit /\ ax[i].tr =>
         phase = "execute" /\ \A j \in 1 .. Len(ax) : ax[j].state < EXECUTED => i <= j

(* The implicit keep: it was executed only if nothing else stored or is    *)
(* to store the message in the default mailbox.                            *)
KeepExecOK ==
  /\ drv \notin Last \/ phase \in {"execute", "keep"} => kx.state = INIT /\ equiv = 0
  /\ phase \in {"commit", "finalize"} => kx.state \in {INIT, EXECUTED}
  /\ phase \in {"commit", "finalize"} /\ kx.state = EXECUTED =>
       /\ kx.def = "store" /\ ~kx.noop /\ equiv = 0 /\ rx.keepStatus = kx.status
       /\ stored[DefaultMailbox] = 0
       /\ \A i \in 1 .. Len(ax) : Stores(i, DefaultMailbox) => ax[i].state # EXECUTED
  /\ equiv # 0 => kx.def = "store" /\ Stores(equiv, DefaultMailbox) /\ ax[equiv].state >= EXECUTED

(* What was stored, and by what.                                           *)
StoredBy(m) ==
  \/ \E i \in 1 .. Len(ax) : Stores(i, m) /\ ax[i].state = FINALIZED
  \/ m = DefaultMailbox /\ kx.state = FINALIZED
StoredOK ==
  /\ drv \notin Last => ~es.saved /\ \A m \in Mailbox : stored[m] = 0
  /\ drv \in {"finishing", "deliver"} =>
       /\ es.saved => StoredSomewhere
       /\ \A m \in Mailbox :
            stored[m] # 0 => /\ es.saved /\ StoredBy(m)
                             /\ stored[m] = 1 \/ (m = DefaultMailbox /\ KeptTwice)
  /\ drv = "done" => NoDoubleStore
  /\ drv = "done" /\ verdict # "accepted" => \A m \in Mailbox : stored[m] = 0

(* What was forwarded in this try, and by what.                            *)
SentOK ==
  \A a \in Address :
    \/ sent[a] < tries
    \/ /\ sent[a] = tries /\ drv \in Last
       /\ \E i \in 1 .. Len(ax) : Forwards(i, a) /\ ax[i].state = FINALIZED

(* An action that takes care of the message, and the message taken care    *)
(* of.                                                                     *)
Handles(i) ==
  /\ acts[ax[i].obj].def \in {"store", "redirect", "discard", "reject"}
  /\ acts[ax[i].obj].def = "redirect" => ~ax[i].noop
  /\ Current(i) /\ ax[i].state >= EXECUTED /\ ax[i].status = "OK"
Handled == StoredSomewhere \/ SentSomewhere \/ ExecutedDef({"discard", "reject"})

(* Without a failure the implicit keep is cancelled only by an action that *)
(* takes care of the message, and a commit without failure took effect.    *)
HandlesOK ==
  /\ rx.status = "OK" /\ ~rx.keepImplicit => \E i \in 1 .. Len(ax) : Handles(i)
  /\ rx.status = "OK" /\ (phase = "finalize" \/ (phase = "commit" /\ loc.commitStatus = "OK")) =>
       \A i \in 1 .. Len(ax) :
         ax[i].state = FINALIZED =>
           /\ acts[ax[i].obj].def = "store" => StoredSomewhere
           /\ acts[ax[i].obj].def = "redirect" /\ ~ax[i].noop => SentSomewhere
Settled(status) ==
  /\ status = "OK" => Handled
  /\ status = "FAILURE" /\ equiv = 0 => stored[DefaultMailbox] > 0
SettledOK ==
  /\ drv = "finishing" /\ phase \in {"finish", "return"} => Settled(loc.ret)
  /\ drv \in {"deliver", "done"} => Settled(result)
  /\ AcceptedIsHandled

ListInv == ScriptOK /\ BindingOK /\ KeepsOK /\ UniqueOK /\ RanOK /\ HereOK
RunInv == RunStatusOK /\ CallStatusOK /\ StoresOK
AccountInv == KeepExecOK /\ StoredOK /\ SentOK /\ HandlesOK /\ SettledOK

AccInv == ListInv /\ RunInv /\ AccountInv

(* What was proved of every reachable state before.                        *)
Base == TempInv /\ SoundInv /\ TurnInv

-----------------------------------------------------------------------------
(* What the steps of the plugin do *)

(* A script that is opened, runs or follows another one, apart from the    *)
(* commands it runs.                                                       *)
Opening ==
  \/ OpenScript \/ OpenFailed \/ RunFailed \/ RunCorrupt \/ Reopen
  \/ NextScript \/ StartDiscard \/ EndScripts

(* The types, in the form that the steps below need.                       *)
LEMMA Types ==
  ASSUME Base
  PROVE  /\ acts \in Seq(Action) /\ list \in Seq(1 .. Len(acts)) /\ ax \in Seq(AExec)
         /\ Len(acts) \in Nat /\ Len(list) \in Nat /\ Len(ax) \in Nat
         /\ execSeq \in Nat /\ keepDef \in {"none", "store"}
         /\ \A i \in 1 .. Len(ax) : /\ ax[i] \in AExec /\ ax[i].state \in 0 .. 3
                                    /\ ax[i].obj \in 1 .. Len(acts)
                                    /\ ax[i].tr \in BOOLEAN /\ ax[i].noop \in BOOLEAN
                                    /\ ax[i].commit \in BOOLEAN /\ ax[i].seq \in Nat
         /\ \A o \in 1 .. Len(acts) : /\ acts[o] \in Action /\ acts[o].keep \in BOOLEAN
                                      /\ acts[o].seq \in Nat /\ acts[o].def \in Def
         /\ \A k \in 1 .. Len(list) : list[k] \in 1 .. Len(acts)
         /\ rx \in RExec /\ loc \in Loc /\ kx \in KExec /\ es \in ExecStatus
         /\ equiv \in 0 .. Len(ax) /\ phase \in Phase
         /\ stored \in [Mailbox -> Nat] /\ sent \in [Address -> Nat] /\ tries \in Nat \ {0}
<1>1. /\ acts \in Seq(Action) /\ list \in Seq(1 .. Len(acts)) /\ ax \in Seq(AExec)
      /\ execSeq \in Nat /\ keepDef \in {"none", "store"} /\ RefsOK(ax, acts)
      /\ kx \in KExec /\ equiv \in 0 .. Len(ax)
  BY DEF Base, SoundInv, SoundTypes, ResultTypeOK
<1>2. /\ rx \in RExec /\ loc \in Loc /\ es \in ExecStatus /\ phase \in Phase
      /\ stored \in [Mailbox -> Nat] /\ sent \in [Address -> Nat] /\ tries \in Nat \ {0}
  BY DEF Base, TempInv, StateTypeOK
<1>3. Len(acts) \in Nat /\ Len(list) \in Nat /\ Len(ax) \in Nat
      /\ (\A k \in 1 .. Len(list) : list[k] \in 1 .. Len(acts))
  BY <1>1
<1>4. ASSUME NEW i \in 1 .. Len(ax)
      PROVE  /\ ax[i] \in AExec /\ ax[i].state \in 0 .. 3
             /\ ax[i].obj \in 1 .. Len(acts)
             /\ ax[i].tr \in BOOLEAN /\ ax[i].noop \in BOOLEAN
             /\ ax[i].commit \in BOOLEAN /\ ax[i].seq \in Nat
  <2>1. ax[i] \in AExec /\ ax[i].obj \in 1 .. Len(acts)
    BY <1>1 DEF RefsOK
  <2>2. QED BY <2>1 DEF AExec
<1>5. ASSUME NEW o \in 1 .. Len(acts)
      PROVE  /\ acts[o] \in Action /\ acts[o].keep \in BOOLEAN
             /\ acts[o].seq \in Nat /\ acts[o].def \in Def
  <2>1. acts[o] \in Action
    BY <1>1
  <2>2. QED BY <2>1 DEF Action
<1>6. QED BY <1>1, <1>2, <1>3, <1>4, <1>5

(* No call is under way while the plugin works.                            *)
LEMMA Idle ==
  ASSUME Base, drv \in Working \cup {"deliver", "done"}
  PROVE  phase = "idle"
<1>1. phase \in Phase
  BY Types
<1>2. phase \notin {"execute", "keep", "commit", "finalize", "finish", "return"}
  BY DEF Base, TempInv, CallOK, Working
<1>3. phase # "panic"
  BY DEF Base, SoundInv, PhaseOK, Working
<1>4. QED BY <1>1, <1>2, <1>3 DEF Phase

(* Opening a script leaves the result and its execution alone.             *)
LEMMA OpeningFacts ==
  ASSUME Base, Opening
  PROVE  /\ UNCHANGED <<acts, list, execSeq, phase, ax, kx, rx, equiv, loc, es>>
         /\ UNCHANGED <<stored, sent, replies, tries, result, verdict>>
         /\ drv \in Working /\ drv' \in Working
         /\ drv \notin Last /\ drv' \notin Last /\ drv' # "executing"
         /\ phase = "idle"
         /\ \/ ms' = ms
            \/ drv = "run" /\ drv' # "run" /\ ms'.status # "OK" /\ ~ms'.active
<1>1. /\ UNCHANGED <<acts, list, execSeq, execVars, tries, result, verdict>>
      /\ drv \in Working /\ drv' \in Working
  BY DEF Opening, OpenScript, OpenFailed, RunFailed, RunCorrupt, Reopen, NextScript, StartDiscard,
         EndScripts, resultVars, Working
<1>2. \/ ms' = ms
      \/ drv = "run" /\ drv' # "run" /\ ms'.status # "OK" /\ ~ms'.active
  <2>1. CASE RunFailed \/ RunCorrupt
    <3>1. PICK s \in {"FAILURE", "TEMP_FAILURE", "RESOURCE_LIMIT", "BIN_CORRUPT"} : ms' = Aborted(s)
      BY <2>1 DEF RunFailed, RunCorrupt
    <3>2. s \in Status /\ s # "OK"
      BY DEF Status
    <3>3. drv = "run" /\ drv' # "run"
      BY <2>1 DEF RunFailed, RunCorrupt
    <3>4. QED BY <3>1, <3>2, <3>3, AbortedStatus DEF Base
  <2>2. CASE ~(RunFailed \/ RunCorrupt)
    BY <2>2 DEF Opening, OpenScript, OpenFailed, Reopen, NextScript, StartDiscard, EndScripts
  <2>3. QED BY <2>1, <2>2
<1>3. phase = "idle"
  BY <1>1, Idle
<1>4. QED BY <1>1, <1>2, <1>3 DEF execVars, worldVars, Last, Working

-----------------------------------------------------------------------------
(* What a command does to the result, in full *)

(* An object that was on the list and is now the keep a: it was a keep     *)
(* without a definition, or a store that is not a keep.                    *)
BecameKeep(a, o, A) ==
  /\ a.keep /\ A[o].keep /\ A[o].seq = a.seq /\ A[o].def = a.def /\ A[o].tgt = a.tgt
  /\ Listed(o)
  /\ \/ acts[o].def = "none"
     \/ acts[o].def = "store" /\ a.def = "store" /\ ~acts[o].keep

(* A new object is the action a, it is on the list l, and nothing on the   *)
(* list before stores or forwards like it.                                 *)
Came(a, o, A, l) ==
  /\ A[o].seq = a.seq /\ A[o].keep = a.keep /\ A[o].def = a.def /\ A[o].tgt = a.tgt
  /\ \E k \in 1 .. Len(l) : l[k] = o
  /\ \A p \in 1 .. Len(acts) :
       Listed(p) /\ a.def \in TriesDeliver => ~(acts[p].def = a.def /\ acts[p].tgt = a.tgt)

Commanded(a, A, l) ==
  /\ \A o \in 1 .. Len(acts) : A[o] = acts[o] \/ BecameKeep(a, o, A)
  /\ \A o \in 1 .. Len(A) : o \in 1 .. Len(acts) \/ Came(a, o, A, l)
  /\ \A o, p \in 1 .. Len(A) : o \in 1 .. Len(acts) \/ p \in 1 .. Len(acts) \/ o = p
  /\ \A o \in 1 .. Len(acts) : Listed(o) => (\E k \in 1 .. Len(l) : l[k] = o) \/ A[o].def = "none"
  /\ \A k \in 1 .. Len(l) : \/ A[l[k]].seq = a.seq
                            \/ Listed(l[k]) /\ l[k] \in 1 .. Len(acts) /\ A[l[k]] = acts[l[k]]

(* A keep that is bound to the default mailbox is of the script at hand.   *)
BoundIsNew == \A o \in 1 .. Len(acts) :
                acts[o].keep => acts[o].def = "none" \/ (acts[o].def = "store" /\ IsNew(acts[o]))

(* What meets what: a bound keep of this script is not recycled, a store   *)
(* is taken over by a keep that stores in the same mailbox, and what       *)
(* stores or forwards alike does not join.                                 *)
LEMMA MeetFacts ==
  ASSUME NEW a, NEW o
  PROVE  /\ Meet(a, o) = "recycle" => o.def = "none" \/ ~IsNew(o)
         /\ Meet(a, o) = "takeover" => ~o.keep /\ a.keep /\ o.def = a.def /\ a.def # "none"
         /\ a.def \in TriesDeliver /\ o.def = a.def /\ o.tgt = a.tgt =>
              Meet(a, o) \in {"recycle", "merge", "takeover"}
<1>1. \A x, y, z : CheckConflict(x, y, z) \in {"no", "error", "silence", "skip"}
  BY DEF CheckConflict
<1>2. a.def \in TriesDeliver /\ o.tgt = a.tgt => CheckDuplicate(a, o) = "duplicate"
  BY DEF CheckDuplicate, TriesDeliver, SendsResponse
<1>3. a.def \in TriesDeliver => a.def # "none"
  BY DEF TriesDeliver
<1>4. QED BY <1>1, <1>2, <1>3 DEF Meet

(* A keep is recycled: *)
LEMMA RecycledCommand ==
  ASSUME ResultTypeOK, Consistent(list, acts), BoundIsNew, NEW a \in Action, NEW r, Recycled(a, r)
  PROVE  Commanded(a, r.acts, r.list)
<1>1. PICK p \in 1 .. Len(list) :
       /\ acts[list[p]].keep /\ Meet(a, acts[list[p]]) = "recycle"
       /\ r.list = Append(RemoveAt(list, p), list[p])
       /\ r.acts = Replaced(a, list[p])
  BY DEF Recycled
<1> DEFINE o == list[p]
           s == RemoveAt(list, p)
           A == r.acts
           l == r.list
<1>2. o \in 1 .. Len(acts) /\ Len(list) \in Nat /\ Len(acts) \in Nat /\ a.keep /\ Listed(o)
  BY <1>1 DEF ResultTypeOK, Recycled, Listed
<1>3. /\ Len(A) = Len(acts)
      /\ A[o].def = a.def /\ A[o].tgt = a.tgt /\ A[o].keep = a.keep /\ A[o].seq = a.seq
      /\ \A x \in 1 .. Len(acts) : x # o => A[x] = acts[x]
  <2>1. A = Replaced(a, o)
    BY <1>1
  <2> HIDE DEF o, A
  <2>2. QED BY <1>2, <2>1, ReplacedFacts
<1>4. acts[o].def = "none"
  BY <1>1, <1>2, MeetFacts DEF BoundIsNew
<1>5. /\ s \in Seq(1 .. Len(acts)) /\ Len(s) = Len(list) - 1
      /\ \A j \in 1 .. Len(list) - 1 : /\ s[j] \in 1 .. Len(acts) /\ s[j] # list[p]
                                       /\ \E k \in 1 .. Len(list) : k # p /\ s[j] = list[k]
  BY Unlinked
<1>6. \A k \in 1 .. Len(list) : k # p => \E j \in 1 .. Len(list) - 1 : s[j] = list[k]
  BY RemoveAtKeeps DEF ResultTypeOK
<1>7. l = Append(s, o)
  BY <1>1
<1> HIDE DEF s, o, A, l
<1>8. /\ Len(l) = Len(list) /\ l[Len(list)] = o
      /\ \A j \in 1 .. Len(list) - 1 : l[j] = s[j]
  BY <1>2, <1>5, <1>7
<1>9. \A x \in 1 .. Len(acts) : Listed(x) => \E k \in 1 .. Len(l) : l[k] = x
  <2> SUFFICES ASSUME NEW x \in 1 .. Len(acts), NEW k \in 1 .. Len(list), list[k] = x
               PROVE  \E j \in 1 .. Len(l) : l[j] = x
    BY DEF Listed
  <2>1. CASE k = p
    <3>1. Len(list) \in 1 .. Len(l) /\ l[Len(list)] = x
      BY <1>2, <1>8, <2>1 DEF o
    <3>2. QED BY <3>1
  <2>2. CASE k # p
    <3>1. PICK j \in 1 .. Len(list) - 1 : s[j] = list[k]
      BY <1>6, <2>2
    <3>2. j \in 1 .. Len(l) /\ l[j] = x
      BY <1>2, <1>8, <3>1
    <3>3. QED BY <3>2
  <2>3. QED BY <2>1, <2>2
<1>10. ASSUME NEW k \in 1 .. Len(l)
       PROVE  A[l[k]].seq = a.seq \/ (Listed(l[k]) /\ l[k] \in 1 .. Len(acts) /\ A[l[k]] = acts[l[k]])
  <2>1. CASE k = Len(list)
    BY <1>3, <1>8, <2>1
  <2>2. CASE k # Len(list)
    <3>1. k \in 1 .. Len(list) - 1 /\ l[k] = s[k]
      BY <1>2, <1>8, <2>2
    <3>2. l[k] \in 1 .. Len(acts) /\ l[k] # o /\ \E j \in 1 .. Len(list) : l[k] = list[j]
      BY <1>5, <3>1 DEF o
    <3>3. QED BY <1>3, <3>2 DEF Listed
  <2>3. QED BY <2>1, <2>2
<1>11. \A x \in 1 .. Len(acts) : A[x] = acts[x] \/ BecameKeep(a, x, A)
  BY <1>2, <1>3, <1>4 DEF BecameKeep
<1>12. Commanded(a, A, l)
  BY <1>3, <1>9, <1>10, <1>11 DEF Commanded
<1>13. QED BY <1>12 DEF A, l

(* a keep takes the place of a store before an older keep, which is *)
(* unlinked; *)
LEMMA MovedCommand ==
  ASSUME ResultTypeOK, Consistent(list, acts), BoundIsNew, NEW a \in Action,
         a.keep => a.def \in {"none", "store"}, NEW r, Moved(a, r)
  PROVE  Commanded(a, r.acts, r.list)
<1>1. PICK p, q \in 1 .. Len(list) :
       /\ q < p
       /\ acts[list[p]].keep /\ Meet(a, acts[list[p]]) = "recycle"
       /\ Meet(a, acts[list[q]]) = "takeover"
       /\ r.list = RemoveAt(list, p)
       /\ r.acts = Replaced(a, list[q])
  BY DEF Moved
<1> DEFINE o == list[q]
           l == r.list
           A == r.acts
<1>2. /\ o \in 1 .. Len(acts) /\ list[p] \in 1 .. Len(acts) /\ a.keep /\ Listed(o)
      /\ Len(list) \in Nat /\ Len(acts) \in Nat
  <2>1. list[q] \in 1 .. Len(acts) /\ list[p] \in 1 .. Len(acts)
    BY DEF ResultTypeOK
  <2>2. a.keep
    BY DEF Moved
  <2>3. QED BY <2>1, <2>2 DEF ResultTypeOK, Listed
<1>3. /\ Len(A) = Len(acts)
      /\ A[o].def = a.def /\ A[o].tgt = a.tgt /\ A[o].keep = a.keep /\ A[o].seq = a.seq
      /\ \A x \in 1 .. Len(acts) : x # o => A[x] = acts[x]
  <2>1. A = Replaced(a, o)
    BY <1>1
  <2> HIDE DEF o, A
  <2>2. QED BY <1>2, <2>1, ReplacedFacts
<1>4. ~acts[o].keep /\ acts[o].def = "store" /\ a.def = "store"
  BY <1>1, <1>2, MeetFacts
<1>5. acts[list[p]].def = "none" /\ list[p] # o
  BY <1>1, <1>2, <1>4, MeetFacts DEF BoundIsNew
<1>6. /\ Len(l) = Len(list) - 1
      /\ \A j \in 1 .. Len(list) - 1 : /\ l[j] \in 1 .. Len(acts) /\ l[j] # list[p]
                                       /\ \E k \in 1 .. Len(list) : k # p /\ l[j] = list[k]
  <2> DEFINE s == RemoveAt(list, p)
  <2>1. /\ Len(s) = Len(list) - 1
        /\ \A j \in 1 .. Len(list) - 1 : /\ s[j] \in 1 .. Len(acts) /\ s[j] # list[p]
                                         /\ \E k \in 1 .. Len(list) : k # p /\ s[j] = list[k]
    BY Unlinked
  <2>2. l = s
    BY <1>1
  <2> HIDE DEF s, l
  <2>3. QED BY <2>1, <2>2
<1>7. \A k \in 1 .. Len(list) : k # p => \E j \in 1 .. Len(list) - 1 : l[j] = list[k]
  BY <1>1, RemoveAtKeeps DEF ResultTypeOK
<1> HIDE DEF o, A, l
<1>8. \A x \in 1 .. Len(acts) : Listed(x) => (\E k \in 1 .. Len(l) : l[k] = x) \/ A[x].def = "none"
  <2> SUFFICES ASSUME NEW x \in 1 .. Len(acts), NEW k \in 1 .. Len(list), list[k] = x
               PROVE  (\E j \in 1 .. Len(l) : l[j] = x) \/ A[x].def = "none"
    BY DEF Listed
  <2>1. CASE k = p
    BY <1>3, <1>5, <2>1
  <2>2. CASE k # p
    BY <1>6, <1>7, <2>2
  <2>3. QED BY <2>1, <2>2
<1>9. ASSUME NEW k \in 1 .. Len(l)
      PROVE  A[l[k]].seq = a.seq \/ (Listed(l[k]) /\ l[k] \in 1 .. Len(acts) /\ A[l[k]] = acts[l[k]])
  <2>1. l[k] \in 1 .. Len(acts) /\ \E j \in 1 .. Len(list) : l[k] = list[j]
    BY <1>6
  <2>2. QED BY <1>3, <2>1 DEF Listed
<1>10. \A x \in 1 .. Len(acts) : A[x] = acts[x] \/ BecameKeep(a, x, A)
  BY <1>2, <1>3, <1>4 DEF BecameKeep
<1>11. Commanded(a, A, l)
  BY <1>3, <1>8, <1>9, <1>10 DEF Commanded
<1>12. QED BY <1>11 DEF A, l

(* or of a store while there is no keep; *)
LEMMA TakenCommand ==
  ASSUME ResultTypeOK, NEW a \in Action, a.keep => a.def \in {"none", "store"}, NEW r, Taken(a, r)
  PROVE  Commanded(a, r.acts, r.list)
<1>1. PICK q \in 1 .. Len(list) : /\ Meet(a, acts[list[q]]) = "takeover"
                                  /\ r.list = list /\ r.acts = Replaced(a, list[q])
  BY DEF Taken
<1> DEFINE o == list[q]
           A == r.acts
<1>2. o \in 1 .. Len(acts) /\ a.keep /\ Listed(o) /\ Len(list) \in Nat /\ Len(acts) \in Nat
  BY <1>1 DEF ResultTypeOK, Taken, Listed
<1>3. /\ Len(A) = Len(acts)
      /\ A[o].def = a.def /\ A[o].tgt = a.tgt /\ A[o].keep = a.keep /\ A[o].seq = a.seq
      /\ \A x \in 1 .. Len(acts) : x # o => A[x] = acts[x]
  <2>1. A = Replaced(a, o)
    BY <1>1
  <2> HIDE DEF o, A
  <2>2. QED BY <1>2, <2>1, ReplacedFacts
<1>4. ~acts[o].keep /\ acts[o].def = "store" /\ a.def = "store"
  BY <1>1, <1>2, MeetFacts
<1> HIDE DEF o, A
<1>5. \A x \in 1 .. Len(acts) : A[x] = acts[x] \/ BecameKeep(a, x, A)
  BY <1>2, <1>3, <1>4 DEF BecameKeep
<1>6. \A k \in 1 .. Len(list) : list[k] \in 1 .. Len(acts) /\ Listed(list[k])
  BY DEF ResultTypeOK, Listed
<1>7. \A k \in 1 .. Len(list) :
        A[list[k]].seq = a.seq
        \/ (Listed(list[k]) /\ list[k] \in 1 .. Len(acts) /\ A[list[k]] = acts[list[k]])
  BY <1>3, <1>6
<1>8. Commanded(a, A, list)
  BY <1>3, <1>5, <1>7 DEF Commanded, Listed
<1>9. QED BY <1>1, <1>8 DEF A

(* and an action that joins is unlike those on the list. *)
LEMMA JoinedCommand ==
  ASSUME ResultTypeOK, NEW a \in Action, NEW r, Joined(a, r)
  PROVE  Commanded(a, r.acts, r.list)
<1> DEFINE b == \E i \in 1 .. Len(list) : Meet(a, acts[list[i]]) = "silence"
           c == [a EXCEPT !.silent = b]
           A == r.acts
           l == r.list
           n == Len(acts) + 1
<1>1. l = Append(list, n) /\ A = Append(acts, c)
  BY Zenon DEF Joined
<1>2. b \in BOOLEAN
  OBVIOUS
<1> HIDE DEF b
<1>3. c \in Action /\ c.def = a.def /\ c.tgt = a.tgt /\ c.keep = a.keep /\ c.seq = a.seq
  BY <1>2 DEF Action
<1>4. /\ acts \in Seq(Action) /\ list \in Seq(1 .. Len(acts))
      /\ Len(list) \in Nat /\ Len(acts) \in Nat
  BY DEF ResultTypeOK
<1> HIDE DEF c, A, l
<1>5. /\ Len(A) = n /\ A[n] = c
      /\ \A o \in 1 .. Len(acts) : A[o] = acts[o]
  BY <1>1, <1>3, <1>4
<1>6. /\ Len(l) = Len(list) + 1 /\ l[Len(list) + 1] = n
      /\ \A i \in 1 .. Len(list) : l[i] = list[i] /\ list[i] \in 1 .. Len(acts)
  BY <1>1, <1>4
<1>7. ASSUME NEW p \in 1 .. Len(acts), Listed(p), a.def \in TriesDeliver,
             acts[p].def = a.def, acts[p].tgt = a.tgt
      PROVE  FALSE
  <2>1. PICK k \in 1 .. Len(list) : list[k] = p
    BY <1>7 DEF Listed
  <2>2. Meet(a, acts[p]) \in {"recycle", "merge", "takeover"}
    BY <1>7, MeetFacts
  <2>3. QED BY <2>1, <2>2 DEF Joined
<1>8. Came(a, n, A, l)
  <2>1. Len(list) + 1 \in 1 .. Len(l)
    BY <1>4, <1>6
  <2>2. \E k \in 1 .. Len(l) : l[k] = n
    BY <1>6, <2>1
  <2> HIDE DEF n
  <2>3. QED BY <1>3, <1>5, <1>7, <2>2 DEF Came
<1>9. \A o \in 1 .. Len(A) : o \in 1 .. Len(acts) \/ Came(a, o, A, l)
  <2>1. \A o \in 1 .. Len(A) : o \in 1 .. Len(acts) \/ o = n
    BY <1>4, <1>5
  <2>2. QED BY <1>8, <2>1
<1>10. \A x \in 1 .. Len(acts) : Listed(x) => \E k \in 1 .. Len(l) : l[k] = x
  <2> SUFFICES ASSUME NEW x \in 1 .. Len(acts), NEW k \in 1 .. Len(list), list[k] = x
               PROVE  \E j \in 1 .. Len(l) : l[j] = x
    BY DEF Listed
  <2>1. k \in 1 .. Len(l) /\ l[k] = x
    BY <1>4, <1>6
  <2>2. QED BY <2>1
<1>11. ASSUME NEW k \in 1 .. Len(l)
       PROVE  A[l[k]].seq = a.seq \/ (Listed(l[k]) /\ l[k] \in 1 .. Len(acts) /\ A[l[k]] = acts[l[k]])
  <2>1. CASE k = Len(list) + 1
    BY <1>3, <1>5, <1>6, <2>1
  <2>2. CASE k # Len(list) + 1
    <3>1. k \in 1 .. Len(list)
      BY <1>4, <1>6, <2>2
    <3>2. l[k] = list[k] /\ list[k] \in 1 .. Len(acts) /\ Listed(list[k])
      BY <1>6, <3>1 DEF Listed
    <3>3. QED BY <1>5, <3>2
  <2>3. QED BY <2>1, <2>2
<1>12. Commanded(a, A, l)
  <2>1. \A o, p \in 1 .. Len(A) : o \in 1 .. Len(acts) \/ p \in 1 .. Len(acts) \/ o = p
    BY <1>4, <1>5
  <2>2. QED BY <1>5, <1>9, <1>10, <1>11, <2>1 DEF Commanded
<1>13. QED BY <1>12 DEF A, l

(* Together.                                                               *)
LEMMA AddActionCommand ==
  ASSUME ResultTypeOK, Consistent(list, acts), BoundIsNew, NEW a \in Action,
         a.keep => a.def \in {"none", "store"}
  PROVE  Commanded(a, AddAction(a).acts, AddAction(a).list)
<1> DEFINE r == AddAction(a)
<1> SUFFICES Commanded(a, r.acts, r.list)
  OBVIOUS
<1>1. Unmoved(r) \/ Recycled(a, r) \/ Moved(a, r) \/ Taken(a, r) \/ Joined(a, r)
  BY AddActionCases
<1> HIDE DEF r
<1>2. CASE Unmoved(r)
  <2>1. \A k \in 1 .. Len(list) : list[k] \in 1 .. Len(acts) /\ Listed(list[k])
    BY DEF ResultTypeOK, Listed
  <2>2. Commanded(a, acts, list)
    BY <2>1 DEF Commanded, Listed
  <2>3. QED BY <1>2, <2>2 DEF Unmoved
<1>3. CASE Recycled(a, r)
  BY <1>3, RecycledCommand
<1>4. CASE Moved(a, r)
  BY <1>4, MovedCommand
<1>5. CASE Taken(a, r)
  BY <1>5, TakenCommand
<1>6. CASE Joined(a, r)
  BY <1>6, JoinedCommand
<1>7. QED BY <1>1, <1>2, <1>3, <1>4, <1>5, <1>6

(* The action of a command, as far as what follows needs it.               *)
CommandAction(a) ==
  /\ a \in Action /\ a.seq = execSeq
  /\ a.keep => a.def = keepDef /\ a.tgt = DefaultMailbox
  /\ a.def = "store" => a.tgt \in Mailbox

(* What a command does: it adds its action, and fails or lets the script   *)
(* go on.                                                                  *)
LEMMA CommandFacts ==
  ASSUME Base, AccInv, RunCommand
  PROVE  /\ UNCHANGED <<execSeq, keepDef, phase, ax, kx, rx, equiv, loc, es>>
         /\ UNCHANGED <<stored, sent, replies, script, tries, result, verdict>>
         /\ drv = "run" /\ phase = "idle" /\ ms.status = "OK" /\ drv' \in {"run", "next"}
         /\ \/ drv' = "run" /\ ms' = ms
            \/ drv' = "next" /\ ms'.status # "OK" /\ ~ms'.active
         /\ \E a : CommandAction(a) /\ Commanded(a, acts', list')
<1>1. PICK c \in Command : /\ acts' = AddAction(ActionOf(c)).acts /\ list' = AddAction(ActionOf(c)).list
                           /\ IF AddAction(ActionOf(c)).ok THEN UNCHANGED <<drv, ms>>
                              ELSE ms' = Aborted("FAILURE") /\ drv' = "next"
  BY Zenon DEF RunCommand
<1>2. /\ UNCHANGED <<execSeq, keepDef, execVars, script, result, verdict, tries>> /\ drv = "run"
  BY DEF RunCommand
<1>3. phase = "idle" /\ ms.status = "OK"
  BY <1>2, Idle DEF Working, AccInv, ListInv, ScriptOK
<1>4. \/ drv' = "run" /\ ms' = ms
      \/ drv' = "next" /\ ms'.status # "OK" /\ ~ms'.active
  <2>1. "FAILURE" \in Status
    BY DEF Status
  <2>2. QED BY <1>1, <1>2, <2>1, AbortedStatus DEF Base
<1> DEFINE a == ActionOf(c)
<1>5. ResultTypeOK /\ Consistent(list, acts) /\ SpeakersOK(acts, list)
  BY DEF Base, SoundInv, SoundTypes, TurnInv
<1>6. CommandAction(a) /\ (a.keep => a.def \in {"none", "store"})
  <2>1. /\ a \in Action /\ a.seq = execSeq /\ (a.keep => a.def = keepDef /\ a.tgt = DefaultMailbox)
        /\ a.def = "store" => a.tgt \in Mailbox
        /\ a.keep => a.def \in {"none", "store"}
    BY <1>5, ActionOfType
  <2> HIDE DEF a
  <2>2. QED BY <2>1 DEF CommandAction
<1>7. BoundIsNew
  BY <1>2, <1>5 DEF BoundIsNew, SpeakersOK, AccInv, ListInv, KeepsOK, IsNew
<1> HIDE DEF a
<1>8. Commanded(a, AddAction(a).acts, AddAction(a).list)
  BY <1>5, <1>6, <1>7, AddActionCommand DEF CommandAction
<1>9. Commanded(a, acts', list')
  BY <1>1, <1>8 DEF a
<1>10. QED BY <1>2, <1>3, <1>4, <1>6, <1>9 DEF execVars, worldVars

(* An action with an execution state was changed by a command only if it   *)
(* was a keep without a definition: a store that a keep takes over in the  *)
(* discard script was not executed yet.                                    *)
LEMMA CommandRun ==
  ASSUME Base, Base', AccInv, RunCommand, NEW i \in 1 .. Len(ax)
  PROVE  /\ ax[i].obj \in 1 .. Len(acts) /\ ax[i].obj \in 1 .. Len(acts')
         /\ \/ acts'[ax[i].obj] = acts[ax[i].obj]
            \/ /\ acts[ax[i].obj].def = "none" /\ acts'[ax[i].obj].keep
               /\ acts'[ax[i].obj].seq = execSeq
<1>1. ax' = ax /\ drv = "run" /\ phase = "idle" /\ ms.status = "OK"
  BY CommandFacts
<1>2. PICK a : CommandAction(a) /\ Commanded(a, acts', list')
  BY CommandFacts
<1> DEFINE o == ax[i].obj
<1>3. o \in 1 .. Len(acts) /\ ax[i] \in AExec /\ ax[i].seq \in Nat /\ execSeq \in Nat
  BY Types
<1>4. o \in 1 .. Len(acts')
  <2>1. RefsOK(ax', acts')
    BY DEF Base, SoundInv
  <2>2. QED BY <1>1, <2>1 DEF RefsOK
<1> HIDE DEF o
<1>5. CASE acts'[o] = acts[o]
  BY <1>3, <1>4, <1>5 DEF o
<1>6. CASE BecameKeep(a, o, acts') /\ acts[o].def = "none"
  BY <1>2, <1>3, <1>4, <1>6 DEF o, BecameKeep, CommandAction
<1>7. CASE BecameKeep(a, o, acts') /\ acts[o].def # "none"
  <2>1. /\ acts[o].def = "store" /\ a.def = "store" /\ a.keep /\ ~acts[o].keep
        /\ Listed(o)
    BY <1>7 DEF BecameKeep
  <2>2. ax[i].seq = acts[o].seq /\ ax[i].seq < execSeq
    BY <2>1 DEF o, Base, SoundInv, RefsOK, TurnInv, SeqsOK
  <2>3. WasRun(o)
    BY <1>1, <1>3, <2>1, <2>2 DEF AccInv, ListInv, RanOK, Working, Listed
  <2>4. PICK j \in 1 .. Len(ax) : /\ ax[j].obj = o /\ ax[j].seq = acts[o].seq
                                  /\ ax[j].state = EXECUTED /\ ax[j].status = "OK"
    BY <2>3 DEF WasRun
  <2>5. Delivers(j)
    BY <2>1, <2>4 DEF Delivers, TriesDeliver, EXECUTED
  <2>6. rx.executedDelivery
    BY <1>1, <2>5 DEF Base, TurnInv, DeliveryOK, StatusOK, Working
  <2>7. script # Discard
    BY <1>1, <2>6 DEF Base, TurnInv, StatusOK
  <2>8. keepDef = "none"
    BY <1>1, <2>7 DEF AccInv, ListInv, BindingOK, Last
  <2>9. QED BY <1>2, <2>1, <2>8 DEF CommandAction
<1>8. QED BY <1>2, <1>3, <1>5, <1>6, <1>7 DEF Commanded

-----------------------------------------------------------------------------
(* The invariant after a command *)

(* The keeps and the list; *)
LEMMA CommandKeeps ==
  ASSUME Base, Base', AccInv, RunCommand
  PROVE  KeepsOK' /\ UniqueOK' /\ RanOK'
<1>1. PICK a : CommandAction(a) /\ Commanded(a, acts', list')
  BY CommandFacts
<1>2. /\ UNCHANGED <<execSeq, ax, script>> /\ drv = "run" /\ ms.status = "OK"
      /\ drv' \in {"run", "next"} /\ (drv' # "run" => ms'.status # "OK") /\ drv' \notin Last
  <2>1. drv' \in {"run", "next"} /\ (drv' # "run" => ms'.status # "OK")
    BY CommandFacts
  <2>2. QED BY <2>1, CommandFacts DEF Last
<1>3. /\ a.seq = execSeq /\ (a.keep => a.def = keepDef /\ a.tgt = DefaultMailbox)
      /\ a.def = "store" => a.tgt \in Mailbox
  BY <1>1 DEF CommandAction
<1>4. a.keep /\ script # Discard => a.def = "none"
  BY <1>2, <1>3 DEF AccInv, ListInv, BindingOK, Last
<1>5. /\ \A o \in 1 .. Len(acts) : acts'[o] = acts[o] \/ BecameKeep(a, o, acts')
      /\ \A o \in 1 .. Len(acts') : o \in 1 .. Len(acts) \/ Came(a, o, acts', list')
      /\ \A o, p \in 1 .. Len(acts') : o \in 1 .. Len(acts) \/ p \in 1 .. Len(acts) \/ o = p
      /\ \A o \in 1 .. Len(acts) :
           Listed(o) => (\E k \in 1 .. Len(list') : list'[k] = o) \/ acts'[o].def = "none"
      /\ \A k \in 1 .. Len(list') :
           \/ acts'[list'[k]].seq = a.seq
           \/ Listed(list'[k]) /\ list'[k] \in 1 .. Len(acts) /\ acts'[list'[k]] = acts[list'[k]]
  BY <1>1 DEF Commanded
<1>6. KeepsOK /\ UniqueOK /\ RanOK
  BY DEF AccInv, ListInv
<1>7. KeepsOK'
  <2> SUFFICES ASSUME NEW o \in 1 .. Len(acts')
               PROVE  /\ acts'[o].keep => acts'[o].tgt = DefaultMailbox
                      /\ acts'[o].keep /\ script # Discard => acts'[o].def = "none"
                      /\ acts'[o].keep /\ acts'[o].def = "store" /\ drv' = "run" => acts'[o].seq = execSeq
                      /\ acts'[o].def = "store" => acts'[o].tgt \in Mailbox
                      /\ acts'[o].def # "none" => \E k \in 1 .. Len(list') : list'[k] = o
    BY <1>2 DEF KeepsOK, Listed
  <2>1. CASE o \in 1 .. Len(acts) /\ acts'[o] = acts[o]
    BY <1>2, <1>5, <1>6, <2>1 DEF KeepsOK
  <2>2. CASE o \in 1 .. Len(acts) /\ BecameKeep(a, o, acts')
    BY <1>3, <1>4, <1>5, <2>2 DEF BecameKeep
  <2>3. CASE Came(a, o, acts', list')
    BY <1>3, <1>4, <2>3 DEF Came
  <2>4. QED BY <1>5, <2>1, <2>2, <2>3
<1>8. UniqueOK'
  <2> SUFFICES ASSUME NEW o \in 1 .. Len(acts'), NEW p \in 1 .. Len(acts'), o # p,
                      acts'[o].def \in TriesDeliver,
                      acts'[o].def = acts'[p].def, acts'[o].tgt = acts'[p].tgt
               PROVE  /\ acts'[o].def = "store" /\ acts'[o].tgt = DefaultMailbox
                      /\ acts'[o].keep \/ acts'[p].keep
    BY DEF UniqueOK
  <2>1. \A x \in 1 .. Len(acts') : acts'[x].keep => acts'[x].def \in {"none", "store"}
                                                    /\ acts'[x].tgt = DefaultMailbox
    BY <1>7 DEF Base, TurnInv, SpeakersOK, KeepsOK
  <2>2. CASE acts'[o].keep \/ acts'[p].keep
    BY <2>1, <2>2 DEF TriesDeliver
  <2>3. CASE ~acts'[o].keep /\ ~acts'[p].keep
    <3>1. \A x \in 1 .. Len(acts) : ~acts'[x].keep => acts'[x] = acts[x]
      BY <1>5 DEF BecameKeep
    <3>2. \A x \in 1 .. Len(acts) : acts[x].def \in TriesDeliver => Listed(x)
      BY <1>6 DEF KeepsOK, TriesDeliver
    <3>3. ASSUME NEW x \in 1 .. Len(acts'), NEW y \in 1 .. Len(acts), x \notin 1 .. Len(acts),
                 ~acts'[y].keep, acts'[x].def \in TriesDeliver,
                 acts'[x].def = acts'[y].def, acts'[x].tgt = acts'[y].tgt
          PROVE  FALSE
      BY <1>5, <3>1, <3>2, <3>3 DEF Came
    <3>4. CASE o \in 1 .. Len(acts) /\ p \in 1 .. Len(acts)
      BY <1>6, <2>3, <3>1, <3>4 DEF UniqueOK
    <3>5. CASE o \notin 1 .. Len(acts) /\ p \notin 1 .. Len(acts)
      BY <1>5, <3>5
    <3>6. QED BY <2>3, <3>3, <3>4, <3>5
  <2>4. QED BY <2>2, <2>3
<1>9. RanOK'
  <2> SUFFICES ASSUME drv' = "run", NEW k \in 1 .. Len(list')
               PROVE  WasRun(list[k])' \/ acts'[list'[k]].seq = execSeq
    BY <1>2 DEF RanOK
  <2>1. CASE acts'[list'[k]].seq = a.seq
    BY <1>3, <2>1
  <2>2. CASE Listed(list'[k]) /\ list'[k] \in 1 .. Len(acts) /\ acts'[list'[k]] = acts[list'[k]]
    <3>1. WasRun(list'[k]) \/ acts[list'[k]].seq = execSeq
      BY <1>2, <1>6, <2>2 DEF RanOK, Working, Listed
    <3>2. WasRun(list'[k]) => WasRun(list[k])'
      BY <1>2, <2>2 DEF WasRun
    <3>3. QED BY <2>2, <3>1, <3>2
  <2>3. QED BY <1>5, <2>1, <2>2
<1>10. QED BY <1>7, <1>8, <1>9


-----------------------------------------------------------------------------
(* The invariant after the other steps of the plugin outside of a call *)

(* Nothing that the plugin does outside of a call changes what was         *)
(* executed or stored.                                                     *)
LEMMA OutsideFrame ==
  ASSUME AccInv, UNCHANGED <<acts, ax, kx, rx, equiv, loc, es, phase, stored, sent>>,
         UNCHANGED <<tries, result, verdict>>,
         drv \in Working, drv' \in Working, phase = "idle"
  PROVE  UniqueOK' /\ HereOK' /\ RunInv' /\ AccountInv'
<1>1. /\ drv \notin Last /\ drv' \notin Last /\ drv' # "executing" /\ drv' \notin {"deliver", "done"}
      /\ drv' # "finishing" /\ drv # "done"
  BY DEF Working, Last
<1>2. UniqueOK' /\ HereOK'
  BY <1>1 DEF AccInv, ListInv, UniqueOK, HereOK
<1>3. RunStatusOK'
  BY <1>1 DEF AccInv, RunInv, RunStatusOK
<1>4. CallStatusOK'
  BY <1>1 DEF CallStatusOK
<1>5. StoresOK'
  BY DEF AccInv, RunInv, StoresOK, Current
<1>6. KeepExecOK'
  BY <1>1 DEF AccInv, AccountInv, KeepExecOK, Stores
<1>7. StoredOK'
  BY <1>1 DEF AccInv, AccountInv, StoredOK
<1>8. SentOK'
  BY <1>1 DEF AccInv, AccountInv, SentOK, Forwards
<1>9. HandlesOK'
  BY DEF AccInv, AccountInv, HandlesOK, Handles, Current, StoredSomewhere, SentSomewhere
<1>10. SettledOK'
  <2>1. verdict' = "none"
    BY <1>1 DEF AccInv, ListInv, ScriptOK
  <2>2. QED BY <1>1, <2>1 DEF SettledOK, AcceptedIsHandled
<1>11. QED BY <1>2, <1>3, <1>4, <1>5, <1>6, <1>7, <1>8, <1>9, <1>10 DEF RunInv, AccountInv

(* A script that is opened, ends or is followed by another one.            *)
LEMMA OpeningAcc ==
  ASSUME Base, AccInv, Opening
  PROVE  AccInv'
<1>1. /\ UNCHANGED <<acts, list, execSeq, phase, ax, kx, rx, equiv, loc, es>>
      /\ UNCHANGED <<stored, sent, tries, result, verdict>>
      /\ drv \in Working /\ drv' \in Working /\ drv \notin Last /\ drv' \notin Last /\ phase = "idle"
      /\ ms' = ms \/ (drv = "run" /\ drv' # "run" /\ ms'.status # "OK" /\ ~ms'.active)
  BY OpeningFacts
<1>2. ScriptOK /\ BindingOK /\ KeepsOK /\ RanOK
  BY DEF AccInv, ListInv
<1>3. ScriptCount \in Nat /\ script \in 1 .. Discard
  BY LdaAssumption DEF Base, SoundInv, DriverTypes
<1>4. /\ drv = "run" => ms'.status # "OK" /\ ~ms'.active
      /\ drv' = "reopen" => drv = "run"
      /\ drv' = "run" => /\ drv = "open" /\ ms.status = "OK" /\ script' = script
                         /\ script = Discard => keepDef' = "store"
  <2>1. CASE OpenScript
    BY <1>2, <2>1 DEF OpenScript, WillRun, WillDiscard, ScriptOK
  <2>2. CASE Reopen
    BY <1>2, <2>2 DEF Reopen, WillRun, WillDiscard, ScriptOK
  <2>3. CASE RunFailed \/ RunCorrupt
    <3>1. PICK s \in {"FAILURE", "TEMP_FAILURE", "RESOURCE_LIMIT", "BIN_CORRUPT"} : ms' = Aborted(s)
      BY <2>3 DEF RunFailed, RunCorrupt
    <3>2. s \in Status /\ s # "OK"
      BY DEF Status
    <3>3. ms'.status # "OK" /\ ~ms'.active
      BY <3>1, <3>2, AbortedStatus DEF Base
    <3>4. QED BY <2>3, <3>3 DEF RunFailed, RunCorrupt
  <2>4. CASE OpenFailed \/ NextScript \/ StartDiscard \/ EndScripts
    BY <2>4 DEF OpenFailed, NextScript, StartDiscard, EndScripts
  <2>5. QED BY <2>1, <2>2, <2>3, <2>4 DEF Opening
<1>5. /\ script' # Discard => script # Discard /\ keepDef' = keepDef
      /\ drv' = "open" => script # Discard
  <2>1. CASE NextScript
    BY <1>3, <2>1 DEF NextScript, HasNext, Discard, resultVars
  <2>2. CASE StartDiscard
    BY <2>2 DEF StartDiscard, HasDiscardNext
  <2>3. CASE ~NextScript /\ ~StartDiscard
    BY <2>3 DEF Opening, OpenScript, OpenFailed, RunFailed, RunCorrupt, Reopen, EndScripts,
                resultVars, Discard
  <2>4. QED BY <2>1, <2>2, <2>3
<1>6. ScriptOK'
  <2>1. verdict' = "none" <=> drv' # "done"
    BY <1>1, <1>2 DEF ScriptOK, Working
  <2>2. QED BY <1>1, <1>2, <1>4, <2>1 DEF ScriptOK
<1>7. BindingOK'
  <2>1. Discard' = Discard
    BY DEF Discard
  <2>2. QED BY <1>1, <1>2, <1>4, <1>5, <2>1 DEF BindingOK
<1>8. KeepsOK'
  <2>1. Discard' = Discard
    BY DEF Discard
  <2>2. ASSUME NEW o \in 1 .. Len(acts)
        PROVE  /\ acts[o].keep => acts[o].tgt = DefaultMailbox
               /\ acts[o].keep /\ (script' # Discard \/ drv' = "open") => acts[o].def = "none"
               /\ acts[o].keep /\ acts[o].def = "store" /\ drv' = "run" => acts[o].seq = execSeq
               /\ acts[o].def = "store" => acts[o].tgt \in Mailbox
               /\ acts[o].def # "none" => Listed(o)
    BY <1>2, <1>4, <1>5 DEF KeepsOK
  <2>3. QED BY <1>1, <2>1, <2>2 DEF KeepsOK, Listed
<1>9. RanOK'
  <2> SUFFICES ASSUME ms'.status = "OK", NEW k \in 1 .. Len(list)
               PROVE  WasRun(list[k])
    BY <1>1 DEF RanOK, WasRun
  <2>1. ms' = ms /\ drv # "run"
    BY <1>1, <1>4
  <2>2. QED BY <1>1, <1>2, <2>1 DEF RanOK
<1>10. UniqueOK' /\ HereOK' /\ RunInv' /\ AccountInv'
  BY <1>1, OutsideFrame
<1>11. QED BY <1>6, <1>7, <1>8, <1>9, <1>10 DEF AccInv, ListInv

(* A command of a script.                                                  *)
LEMMA CommandAcc ==
  ASSUME Base, Base', AccInv, RunCommand
  PROVE  AccInv'
<1>1. /\ UNCHANGED <<execSeq, keepDef, phase, ax, kx, rx, equiv, loc, es>>
      /\ UNCHANGED <<stored, sent, script, tries, result, verdict>>
      /\ drv = "run" /\ phase = "idle" /\ ms.status = "OK" /\ drv' \in {"run", "next"}
      /\ (drv' = "run" /\ ms' = ms) \/ (drv' = "next" /\ ms'.status # "OK" /\ ~ms'.active)
  BY CommandFacts
<1>2. /\ drv \notin Last /\ drv' \notin Last /\ drv' # "executing" /\ drv' \notin {"deliver", "done"}
      /\ drv' # "finishing" /\ drv' # "reopen" /\ drv' # "done" /\ drv # "done"
  BY <1>1 DEF Last
<1>3. ASSUME NEW i \in 1 .. Len(ax)
      PROVE  \/ acts'[ax[i].obj] = acts[ax[i].obj]
             \/ acts[ax[i].obj].def = "none"
  BY <1>3, CommandRun
<1>4. Discard' = Discard
  BY DEF Discard
<1>5. ScriptOK' /\ BindingOK' /\ HereOK'
  BY <1>1, <1>2, <1>4 DEF AccInv, ListInv, ScriptOK, BindingOK, HereOK
<1>6. KeepsOK' /\ UniqueOK' /\ RanOK'
  BY CommandKeeps
<1>7. RunStatusOK' /\ CallStatusOK'
  BY <1>1, <1>2 DEF AccInv, RunInv, RunStatusOK, CallStatusOK
<1>8. StoresOK'
  <2> SUFFICES ASSUME NEW i \in 1 .. Len(ax)
               PROVE  /\ acts'[ax[i].obj].def = "none" \/ ax[i].seq # acts'[ax[i].obj].seq => ~ax[i].tr
                      /\ acts'[ax[i].obj].def \in {"none", "store"} => ~ax[i].noop
                      /\ ~(acts'[ax[i].obj].def = "store" /\ ax[i].state < EXECUTED /\ ax[i].commit /\ ax[i].tr)
    BY <1>1 DEF StoresOK, Current
  <2>1. /\ acts[ax[i].obj].def = "none" \/ ax[i].seq # acts[ax[i].obj].seq => ~ax[i].tr
        /\ acts[ax[i].obj].def \in {"none", "store"} => ~ax[i].noop
        /\ ~(acts[ax[i].obj].def = "store" /\ ax[i].state < EXECUTED /\ ax[i].commit /\ ax[i].tr)
    BY <1>1 DEF AccInv, RunInv, StoresOK, Current
  <2>2. QED BY <1>3, <2>1
<1>9. KeepExecOK' /\ StoredOK' /\ SentOK'
  BY <1>1, <1>2 DEF AccInv, AccountInv, KeepExecOK, StoredOK, SentOK
<1>10. HandlesOK'
  <2> SUFFICES ASSUME rx.status = "OK", ~rx.keepImplicit
               PROVE  \E i \in 1 .. Len(ax) : Handles(i)'
    BY <1>1 DEF HandlesOK
  <2>1. PICK i \in 1 .. Len(ax) : Handles(i)
    BY DEF AccInv, AccountInv, HandlesOK
  <2>2. acts'[ax[i].obj] = acts[ax[i].obj]
    BY <1>3, <2>1 DEF Handles
  <2>3. Handles(i)'
    BY <1>1, <2>1, <2>2 DEF Handles, Current
  <2>4. QED BY <2>3
<1>11. SettledOK'
  <2>1. verdict' = "none"
    BY <1>1, <1>2 DEF AccInv, ListInv, ScriptOK
  <2>2. QED BY <1>2, <2>1 DEF SettledOK, AcceptedIsHandled
<1>12. QED BY <1>5, <1>6, <1>7, <1>8, <1>9, <1>10, <1>11 DEF AccInv, ListInv, RunInv, AccountInv

(* A new try starts from scratch.                                          *)
LEMMA RedeliverAcc ==
  ASSUME Base, AccInv, Redeliver
  PROVE  AccInv'
<1>1. /\ acts' = <<>> /\ list' = <<>> /\ keepDef' = "none" /\ ax' = <<>> /\ rx' = NewRExec
      /\ kx' = NewKeepExec("none") /\ equiv' = 0 /\ es' = NewExecStatus /\ drv' = "open" /\ script' = 1
      /\ ms' = NewMultiscript /\ verdict' = "none" /\ phase' = phase /\ stored' = stored /\ sent' = sent
      /\ drv = "done" /\ verdict # "accepted" /\ tries' = tries + 1
  BY DEF Redeliver, worldVars
<1>2. phase' = "idle"
  BY <1>1, Idle
<1>3. /\ Len(acts') = 0 /\ Len(list') = 0 /\ Len(ax') = 0 /\ 1 .. 0 = {}
  BY <1>1
<1>4. /\ drv' \notin Last /\ rx'.keepImplicit /\ ms'.status = "OK" /\ kx'.state = INIT /\ ~es'.saved
  BY <1>1 DEF Last, NewRExec, NewMultiscript, NewKeepExec, NewExecStatus
<1>5. ScriptOK' /\ BindingOK'
  BY <1>1, <1>4 DEF ScriptOK, BindingOK
<1>6. KeepsOK' /\ UniqueOK' /\ RanOK' /\ HereOK'
  BY <1>1, <1>3, <1>4 DEF KeepsOK, UniqueOK, RanOK, HereOK
<1>7. RunStatusOK' /\ CallStatusOK' /\ StoresOK'
  BY <1>1, <1>2, <1>3 DEF RunStatusOK, CallStatusOK, StoresOK
<1>8. KeepExecOK'
  BY <1>1, <1>2, <1>4 DEF KeepExecOK
<1>9. StoredOK'
  BY <1>1, <1>4 DEF AccInv, AccountInv, StoredOK
<1>10. SentOK'
  <2>1. tries \in Nat /\ sent \in [Address -> Nat]
    BY Types
  <2>2. \A a \in Address : sent[a] <= tries
    BY <2>1 DEF AccInv, AccountInv, SentOK
  <2>3. QED BY <1>1, <2>1, <2>2 DEF SentOK
<1>11. HandlesOK' /\ SettledOK'
  BY <1>1, <1>2, <1>4 DEF HandlesOK, SettledOK, AcceptedIsHandled
<1>12. QED BY <1>5, <1>6, <1>7, <1>8, <1>9, <1>10, <1>11 DEF AccInv, ListInv, RunInv, AccountInv

(* At first.                                                               *)
LEMMA AccInit == Init => AccInv
<1> SUFFICES ASSUME Init PROVE AccInv
  OBVIOUS
<1>1. /\ acts = <<>> /\ list = <<>> /\ keepDef = "none" /\ ax = <<>> /\ rx = NewRExec
      /\ kx = NewKeepExec("none") /\ equiv = 0 /\ es = NewExecStatus /\ drv = "open" /\ script = 1
      /\ ms = NewMultiscript /\ verdict = "none" /\ phase = "idle" /\ tries = 1
      /\ stored = [m \in Mailbox |-> 0] /\ sent = [a \in Address |-> 0]
  BY DEF Init, ResultInit, ExecutionInit
<1>2. /\ Len(acts) = 0 /\ Len(list) = 0 /\ Len(ax) = 0 /\ 1 .. 0 = {}
  BY <1>1
<1>3. /\ drv \notin Last /\ rx.keepImplicit /\ ms.status = "OK" /\ kx.state = INIT /\ ~es.saved
  BY <1>1 DEF Last, NewRExec, NewMultiscript, NewKeepExec, NewExecStatus
<1>4. ScriptOK /\ BindingOK
  BY <1>1, <1>3 DEF ScriptOK, BindingOK
<1>5. KeepsOK /\ UniqueOK /\ RanOK /\ HereOK
  BY <1>1, <1>2, <1>3 DEF KeepsOK, UniqueOK, RanOK, HereOK
<1>6. RunStatusOK /\ CallStatusOK /\ StoresOK
  BY <1>1, <1>2 DEF RunStatusOK, CallStatusOK, StoresOK
<1>7. KeepExecOK
  BY <1>1, <1>3 DEF KeepExecOK
<1>8. StoredOK
  BY <1>1, <1>3 DEF StoredOK
<1>9. SentOK
  BY <1>1 DEF SentOK
<1>10. HandlesOK /\ SettledOK
  BY <1>1, <1>3 DEF HandlesOK, SettledOK, AcceptedIsHandled
<1>11. QED BY <1>4, <1>5, <1>6, <1>7, <1>8, <1>9, <1>10 DEF AccInv, ListInv, RunInv, AccountInv

-----------------------------------------------------------------------------
(* The invariant after the steps around a call *)

(* The return of a call that executed a script.                            *)
LEMMA ExecutedAcc ==
  ASSUME Base, AccInv, Executed
  PROVE  AccInv'
<1>1. /\ UNCHANGED <<acts, list, execSeq, keepDef, ax, kx, equiv, loc, es, stored, sent>>
      /\ UNCHANGED <<script, result, verdict, tries>>
      /\ drv = "executing" /\ phase = "return" /\ phase' = "idle" /\ drv' = "next" /\ rx' = MergeKeep
  BY DEF Executed, resultVars, worldVars
<1>2. /\ drv \notin Last /\ drv' \notin Last /\ Discard' = Discard
  BY <1>1 DEF Last, Discard
<1>3. rx \in RExec /\ rx.status \in Status /\ ms \in Multiscript
  BY DEF Base, TempInv, StateTypeOK, RExec
<1>4. rx'.status = rx.status /\ (~rx'.keepImplicit => ~rx.keepImplicit)
  BY <1>1, <1>3 DEF MergeKeep, ReturnKeep, RExec
<1>5. /\ ms'.active => ms'.status = "OK"
      /\ ms'.status = "OK" => rx.status = "OK"
  <2>1. CASE ReturnStatus = "OK" /\ script # Discard
    <3>1. ms' = [ms EXCEPT !.keep = ReturnKeep, !.active = @ /\ ReturnKeep]
      BY <2>1 DEF Executed
    <3>2. ms'.status = ms.status /\ (ms'.active => ms.active)
      BY <1>3, <3>1 DEF Multiscript
    <3>3. QED BY <2>1, <3>2 DEF AccInv, ListInv, ScriptOK, ReturnStatus
  <2>2. CASE ~(ReturnStatus = "OK" /\ script # Discard)
    <3>1. ms' = [Aborted(rx.status) EXCEPT !.keep = ReturnKeep]
      BY <2>2 DEF Executed, ReturnStatus
    <3>2. Aborted(rx.status) \in Multiscript
      BY <1>3, AbortedType
    <3>3. ms'.status = Aborted(rx.status).status /\ ms'.active = Aborted(rx.status).active
      BY <3>1, <3>2 DEF Multiscript
    <3>4. Aborted(rx.status).active = FALSE
      BY <1>3 DEF Aborted, Multiscript
    <3>5. rx.status # "OK" => Aborted(rx.status).status # "OK"
      BY <1>3, AbortedStatus DEF Base
    <3>6. QED BY <3>3, <3>4, <3>5
  <2>3. QED BY <2>1, <2>2
<1>6. ScriptOK' /\ BindingOK' /\ UniqueOK' /\ HereOK'
  BY <1>1, <1>2, <1>5 DEF AccInv, ListInv, ScriptOK, BindingOK, UniqueOK, HereOK
<1>7. KeepsOK'
  BY <1>1, <1>2 DEF AccInv, ListInv, KeepsOK, Listed
<1>8. RanOK'
  <2> SUFFICES ASSUME rx.status = "OK", NEW k \in 1 .. Len(list)
               PROVE  WasRun(list[k])
    BY <1>1, <1>5 DEF RanOK, WasRun
  <2>1. PICK i \in 1 .. Len(ax) : ax[i].obj = list[k] /\ Current(i)
    BY <1>1 DEF AccInv, ListInv, HereOK
  <2>2. ax[i].state >= EXECUTED /\ ax[i].state # FINALIZED /\ ax[i].status = "OK"
    BY <1>1, <1>2 DEF AccInv, RunInv, RunStatusOK
  <2>3. ax[i].state = EXECUTED
    <3>1. ax[i].state \in 0 .. 3
      BY Types
    <3>2. QED BY <2>2, <3>1 DEF EXECUTED, FINALIZED
  <2>4. QED BY <2>1, <2>2, <2>3 DEF WasRun, Current
<1>9. RunStatusOK' /\ CallStatusOK'
  BY <1>1, <1>2, <1>4 DEF AccInv, RunInv, RunStatusOK, CallStatusOK
<1>10. StoresOK'
  BY <1>1 DEF AccInv, RunInv, StoresOK, Current
<1>11. KeepExecOK' /\ StoredOK' /\ SentOK'
  BY <1>1, <1>2 DEF AccInv, AccountInv, KeepExecOK, StoredOK, SentOK
<1>12. HandlesOK'
  BY <1>1, <1>4 DEF AccInv, AccountInv, HandlesOK, Handles, Current
<1>13. SettledOK'
  <2>1. verdict' = "none"
    BY <1>1 DEF AccInv, ListInv, ScriptOK
  <2>2. QED BY <1>1, <2>1 DEF SettledOK, AcceptedIsHandled
<1>14. QED BY <1>6, <1>7, <1>8, <1>9, <1>10, <1>11, <1>12, <1>13
           DEF AccInv, ListInv, RunInv, AccountInv

(* The return of the final call.                                           *)
LEMMA FinishedAcc ==
  ASSUME Base, AccInv, Finished
  PROVE  AccInv'
<1>1. /\ UNCHANGED <<acts, list, execSeq, keepDef, ax, kx, equiv, loc, es, stored, sent>>
      /\ UNCHANGED <<script, ms, verdict, tries>>
      /\ drv = "finishing" /\ phase = "return" /\ phase' = "idle" /\ drv' = "deliver" /\ rx' = MergeKeep
      /\ result' = rx.status
  BY DEF Finished, resultVars, ReturnStatus
<1>2. /\ drv \in Last /\ drv' \in Last /\ Discard' = Discard
  BY <1>1 DEF Last, Discard
<1>3. rx'.status = rx.status /\ (~rx'.keepImplicit => ~rx.keepImplicit)
  <2>1. rx \in RExec
    BY Types
  <2>2. QED BY <1>1, <2>1 DEF MergeKeep, ReturnKeep, RExec
<1>4. ScriptOK' /\ BindingOK' /\ UniqueOK'
  BY <1>1, <1>2 DEF AccInv, ListInv, ScriptOK, BindingOK, UniqueOK
<1>5. KeepsOK' /\ HereOK'
  BY <1>1, <1>2 DEF AccInv, ListInv, KeepsOK, HereOK, Current, Listed
<1>6. RanOK'
  BY <1>1 DEF RanOK, Working
<1>7. RunStatusOK' /\ CallStatusOK'
  BY <1>1, <1>2, <1>3 DEF AccInv, RunInv, RunStatusOK, CallStatusOK
<1>8. StoresOK'
  BY <1>1 DEF AccInv, RunInv, StoresOK, Current
<1>9. KeepExecOK'
  BY <1>1, <1>2 DEF AccInv, AccountInv, KeepExecOK, Stores
<1>10. StoredOK'
  BY <1>1, <1>2 DEF AccInv, AccountInv, StoredOK, StoredBy, Stores, KeptTwice, StoredSomewhere
<1>11. SentOK'
  BY <1>1, <1>2 DEF AccInv, AccountInv, SentOK, Forwards
<1>12. HandlesOK'
  BY <1>1, <1>3 DEF AccInv, AccountInv, HandlesOK, Handles, Current
<1>13. SettledOK'
  <2>1. verdict' = "none"
    BY <1>1 DEF AccInv, ListInv, ScriptOK
  <2>2. Settled(rx.status)
    BY <1>1 DEF AccInv, AccountInv, SettledOK, RunInv, CallStatusOK
  <2>3. Settled(result)'
    BY <1>1, <2>2 DEF Settled, Handled, StoredSomewhere, SentSomewhere, ExecutedDef
  <2>4. QED BY <1>1, <2>1, <2>3 DEF SettledOK, AcceptedIsHandled
<1>14. QED BY <1>4, <1>5, <1>6, <1>7, <1>8, <1>9, <1>10, <1>11, <1>12, <1>13
           DEF AccInv, ListInv, RunInv, AccountInv

(* What mail_deliver does with the answer.                                 *)
LEMMA DeliverAcc ==
  ASSUME Base, AccInv, Deliver
  PROVE  AccInv'
<1>1. /\ UNCHANGED <<acts, list, execSeq, keepDef, phase, ax, kx, rx, equiv, loc, es, sent>>
      /\ UNCHANGED <<script, ms, result, tries>>
      /\ drv = "deliver" /\ drv' = "done" /\ verdict' # "none"
  BY DEF Deliver, resultVars
<1>2. /\ drv \in Last /\ drv' \in Last /\ Discard' = Discard
  BY <1>1 DEF Last, Discard
<1>3. phase = "idle"
  BY <1>1, Idle
<1>4. \/ /\ stored' = stored
         /\ verdict' = "accepted" => result \in {"OK", "FAILURE"} \/ es.saved
         /\ verdict' # "accepted" => ~es.saved
      \/ /\ ~es.saved /\ verdict' = "accepted"
         /\ stored' = [stored EXCEPT ![DefaultMailbox] = @ + 1]
  BY DEF Deliver, ReportsSuccess
<1>5. /\ stored \in [Mailbox -> Nat] /\ DefaultMailbox \in Mailbox
  BY Types, ResultAssumption
<1>6. /\ es.saved => StoredSomewhere
      /\ \A m \in Mailbox :
           stored[m] # 0 => /\ es.saved
                            /\ stored[m] = 1 \/ (m = DefaultMailbox /\ KeptTwice)
  BY <1>1 DEF AccInv, AccountInv, StoredOK
<1>7. KeptTwice' = KeptTwice
  BY <1>1 DEF KeptTwice
<1>8. ScriptOK' /\ BindingOK' /\ UniqueOK'
  BY <1>1, <1>2 DEF AccInv, ListInv, ScriptOK, BindingOK, UniqueOK
<1>9. KeepsOK' /\ HereOK'
  BY <1>1, <1>2 DEF AccInv, ListInv, KeepsOK, HereOK, Current, Listed
<1>10. RanOK'
  BY <1>1 DEF RanOK, Working
<1>11. RunStatusOK' /\ CallStatusOK'
  BY <1>1, <1>2, <1>3 DEF AccInv, RunInv, RunStatusOK, CallStatusOK
<1>12. StoresOK'
  BY <1>1 DEF AccInv, RunInv, StoresOK, Current
<1>13. KeepExecOK'
  BY <1>1, <1>2, <1>3 DEF AccInv, AccountInv, KeepExecOK, Stores
<1>14. StoredOK'
  <2>1. CASE stored' = stored
    <3>1. verdict' # "accepted" => \A m \in Mailbox : stored'[m] = 0
      BY <1>4, <1>6, <2>1
    <3>2. NoDoubleStore'
      BY <1>5, <1>6, <1>7, <2>1 DEF NoDoubleStore
    <3>3. QED BY <1>1, <1>2, <3>1, <3>2 DEF StoredOK
  <2>2. CASE ~es.saved /\ verdict' = "accepted" /\ stored' = [stored EXCEPT ![DefaultMailbox] = @ + 1]
    <3>1. \A m \in Mailbox : stored[m] = 0
      BY <1>6, <2>2
    <3>2. \A m \in Mailbox : stored'[m] <= 1
      BY <1>5, <2>2, <3>1
    <3>3. NoDoubleStore'
      BY <3>2 DEF NoDoubleStore
    <3>4. QED BY <1>1, <1>2, <2>2, <3>3 DEF StoredOK
  <2>3. QED BY <1>4, <2>1, <2>2
<1>15. SentOK'
  BY <1>1, <1>2 DEF AccInv, AccountInv, SentOK, Forwards
<1>16. HandlesOK'
  BY <1>1, <1>3 DEF AccInv, AccountInv, HandlesOK, Handles, Current
<1>17. SettledOK'
  <2>1. \A m \in Mailbox : stored[m] > 0 => stored'[m] > 0
    BY <1>4, <1>5
  <2>2. Settled(result)
    BY <1>1 DEF AccInv, AccountInv, SettledOK
  <2>3. StoredSomewhere => StoredSomewhere'
    BY <2>1 DEF StoredSomewhere
  <2>4. Settled(result)'
    BY <1>1, <1>5, <2>1, <2>2, <2>3 DEF Settled, Handled, SentSomewhere, ExecutedDef
  <2>5. ASSUME verdict' = "accepted"
        PROVE  AcceptedIsHandled'
    <3>1. CASE stored' = [stored EXCEPT ![DefaultMailbox] = @ + 1]
      <4>1. stored'[DefaultMailbox] > 0
        BY <1>5, <3>1
      <4>2. StoredSomewhere'
        BY <1>5, <4>1 DEF StoredSomewhere
      <4>3. QED BY <4>2 DEF AcceptedIsHandled
    <3>2. CASE es.saved
      BY <1>6, <2>3, <3>2 DEF AcceptedIsHandled
    <3>3. CASE result = "OK"
      BY <1>1, <2>4, <3>3 DEF AcceptedIsHandled, Settled, Handled
    <3>4. CASE result = "FAILURE" /\ equiv # 0
      BY <1>1, <3>4 DEF AcceptedIsHandled
    <3>5. CASE result = "FAILURE" /\ equiv = 0
      <4>1. stored'[DefaultMailbox] > 0
        BY <1>1, <2>4, <3>5 DEF Settled
      <4>2. StoredSomewhere'
        BY <1>5, <4>1 DEF StoredSomewhere
      <4>3. QED BY <4>2 DEF AcceptedIsHandled
    <3>6. QED BY <1>4, <2>5, <3>1, <3>2, <3>3, <3>4, <3>5
  <2>6. AcceptedIsHandled'
    BY <2>5 DEF AcceptedIsHandled
  <2>7. QED BY <1>1, <2>4, <2>6 DEF SettledOK
<1>18. QED BY <1>8, <1>9, <1>10, <1>11, <1>12, <1>13, <1>14, <1>15, <1>16, <1>17
           DEF AccInv, ListInv, RunInv, AccountInv

-----------------------------------------------------------------------------
(* The invariant when a call is entered *)

(* Where an execution state of the call comes from: it is carried over, is *)
(* that of a keep that was recycled, or is new.                            *)
Carried(e, k) == e = ax[k] /\ Current(k)
Restarted(e, k) ==
  /\ e.obj = ax[k].obj /\ ~Current(k) /\ acts[e.obj].keep /\ e.state = INIT
  /\ e.tr = ax[k].tr /\ e.noop = ax[k].noop /\ e.commit = ax[k].commit
Fresh(e) == e.state = INIT /\ ~e.commit /\ ~e.tr /\ ~e.noop

(* The updated execution U, whose states are those of the actions on the   *)
(* list as they are now; a recycled keep comes before what is new.         *)
UpdateOf(U) ==
  /\ U \in Seq(AExec) /\ Len(U) \in Nat
  /\ \A i, j \in 1 .. Len(U) : i # j => U[i].obj # U[j].obj
  /\ \A i \in 1 .. Len(U) :
       /\ U[i] \in AExec /\ U[i].obj \in 1 .. Len(acts) /\ U[i].seq = acts[U[i].obj].seq
       /\ Listed(U[i].obj)
       /\ Fresh(U[i]) \/ \E k \in 1 .. Len(ax) : Carried(U[i], k) \/ Restarted(U[i], k)
  /\ \A k \in 1 .. Len(list) : \E i \in 1 .. Len(U) : U[i].obj = list[k]
  /\ \A k \in 1 .. Len(ax) : Current(k) /\ Listed(ax[k].obj) => \E i \in 1 .. Len(U) : U[i] = ax[k]
  /\ \A i, j \in 1 .. Len(U) :
       (\E k \in 1 .. Len(ax) : Restarted(U[i], k)) =>
         \/ i <= j
         \/ \E k \in 1 .. Len(ax) : Carried(U[j], k) \/ Restarted(U[j], k)

(* What Updated makes of an old state.                                     *)
LEMMA UpdatedOf ==
  ASSUME Base, NEW k \in 1 .. Len(ax)
  PROVE  Carried(Updated(ax[k]), k) \/ Restarted(Updated(ax[k]), k)
<1> DEFINE e == Updated(ax[k])
           x == ax[k]
<1>1. /\ e.obj = x.obj /\ e.seq = acts[x.obj].seq
      /\ e.seq = x.seq => e = x
      /\ e.seq # x.seq => e.state = INIT
      /\ e.tr = x.tr /\ e.noop = x.noop /\ e.commit = x.commit
  <2>1. x \in AExec /\ x.obj \in 1 .. Len(acts)
    BY Types
  <2>2. e = Updated(x)
    OBVIOUS
  <2>3. ResultTypeOK
    BY DEF Base, SoundInv, SoundTypes
  <2> HIDE DEF x, e
  <2>4. QED BY <2>1, <2>2, <2>3, UpdatedType
<1>2. x.seq = acts[x.obj].seq \/ acts[x.obj].keep
  BY DEF Base, SoundInv, RefsOK
<1> SUFFICES Carried(e, k) \/ Restarted(e, k)
  OBVIOUS
<1> HIDE DEF e
<1>3. QED BY <1>1, <1>2 DEF Carried, Restarted, Current

(* The updated execution is such a one.                                    *)
LEMMA UpdateFacts ==
  ASSUME Base
  PROVE  UpdateOf(UpdatedExecution)
<1> DEFINE U == UpdatedExecution
<1>1. SoundInv /\ ResultTypeOK /\ Consistent(list, acts) /\ ax \in Seq(AExec)
      /\ RefsOK(ax, acts) /\ Distinct(ax)
  BY DEF Base, SoundInv, SoundTypes
<1>2. /\ U \in Seq(AExec) /\ Distinct(U) /\ RefsOK(U, acts)
      /\ \A i \in 1 .. Len(U) : U[i].seq = acts[U[i].obj].seq
  BY <1>1, UpdatedWell
<1>3. /\ \A i \in 1 .. Len(U) : \/ \E k \in 1 .. Len(ax) : U[i] = Updated(ax[k])
                                \/ \E k \in 1 .. Len(list) : U[i] = FreshExec(list[k])
      /\ \A i \in 1 .. Len(U) : InList(U[i].obj)
      /\ \A k \in 1 .. Len(ax) : InList(ax[k].obj) => \E i \in 1 .. Len(U) : U[i] = Updated(ax[k])
      /\ \A k \in 1 .. Len(list) : \E i \in 1 .. Len(U) : U[i].obj = list[k]
      /\ \A i, j \in 1 .. Len(U) :
           (\E k \in 1 .. Len(ax) : U[i] = Updated(ax[k])) =>
              i <= j \/ \E k \in 1 .. Len(ax) : U[j] = Updated(ax[k])
  BY <1>1, UpdatedExecutionFacts
<1> SUFFICES UpdateOf(U)
  OBVIOUS
<1> HIDE DEF U
<1>4. list \in Seq(1 .. Len(acts))
  BY <1>1 DEF ResultTypeOK
<1>5. \A o : InList(o) <=> Listed(o)
  BY <1>4 DEF InList, Listed
<1>6. \A k \in 1 .. Len(ax) : Carried(Updated(ax[k]), k) \/ Restarted(Updated(ax[k]), k)
  BY UpdatedOf
<1>7. \A k \in 1 .. Len(list) : Fresh(FreshExec(list[k]))
  <2> SUFFICES ASSUME NEW k \in 1 .. Len(list), NEW o, o = list[k]
               PROVE  Fresh(FreshExec(o))
    OBVIOUS
  <2>1. o \in 1 .. Len(acts)
    BY <1>4
  <2>2. QED BY <1>1, <2>1, FreshExecType DEF Fresh
<1>8. ASSUME NEW i \in 1 .. Len(U)
      PROVE  Fresh(U[i]) \/ \E k \in 1 .. Len(ax) : Carried(U[i], k) \/ Restarted(U[i], k)
  BY <1>3, <1>6, <1>7
<1>9. ASSUME NEW i \in 1 .. Len(U)
      PROVE  /\ U[i] \in AExec /\ U[i].obj \in 1 .. Len(acts) /\ U[i].seq = acts[U[i].obj].seq
             /\ Listed(U[i].obj)
  BY <1>2, <1>3, <1>5 DEF RefsOK
<1>10. ASSUME NEW k \in 1 .. Len(ax), Current(k), Listed(ax[k].obj)
       PROVE  \E i \in 1 .. Len(U) : U[i] = ax[k]
  <2>1. Updated(ax[k]) = ax[k]
    BY <1>6, <1>10 DEF Carried, Restarted
  <2>2. QED BY <1>3, <1>5, <1>10, <2>1
<1>11. ASSUME NEW i \in 1 .. Len(U), NEW j \in 1 .. Len(U),
              \E k \in 1 .. Len(ax) : Restarted(U[i], k)
       PROVE  i <= j \/ \E k \in 1 .. Len(ax) : Carried(U[j], k) \/ Restarted(U[j], k)
  <2>1. PICK k \in 1 .. Len(ax) : Restarted(U[i], k)
    BY <1>11
  <2>2. \E n \in 1 .. Len(ax) : U[i] = Updated(ax[n])
    <3>1. U[i].obj = ax[k].obj
      BY <2>1 DEF Restarted
    <3>2. InList(ax[k].obj)
      BY <1>3, <3>1
    <3>3. PICK n \in 1 .. Len(U) : U[n] = Updated(ax[k])
      BY <1>3, <3>2
    <3>4. U[n].obj = ax[k].obj
      BY <1>6, <3>3 DEF Carried, Restarted
    <3>5. n = i
      BY <1>2, <3>1, <3>4 DEF Distinct
    <3>6. QED BY <3>3, <3>5
  <2>3. i <= j \/ \E n \in 1 .. Len(ax) : U[j] = Updated(ax[n])
    BY <1>3, <2>2
  <2>4. QED BY <1>6, <2>3
<1>12. Len(U) \in Nat
  BY <1>2
<1>13. QED BY <1>2, <1>3, <1>8, <1>9, <1>10, <1>11, <1>12 DEF UpdateOf, Distinct

(* The three ways a call is entered: a binary stayed corrupt, the actions  *)
(* are started, or an earlier failure leaves only the implicit keep.       *)
Begun ==
  /\ phase' = "execute" /\ loc'.status = "OK" /\ ms.status = "OK"
  /\ rx.status = "OK" /\ rx'.status = "OK" /\ rx'.keepImplicit = rx.keepImplicit
  /\ \E U : /\ UpdateOf(U) /\ Len(ax') = Len(U)
            /\ \A i \in 1 .. Len(U) : ax'[i] = Started(U[i])
Failed ==
  /\ phase' = "keep" /\ loc'.status # "OK" /\ rx'.status # "OK" /\ drv' = "finishing"
  /\ UpdateOf(ax')
Panicked == phase' = "panic" /\ UNCHANGED <<ax, rx>> /\ drv' = "finishing"

LEMMA EnterFacts ==
  ASSUME Base, Base', AccInv, RunDone \/ MultiscriptFinish
  PROVE  /\ UNCHANGED <<acts, list, kx, equiv, es, stored, sent, script, result, verdict, tries>>
         /\ phase = "idle" /\ drv \in Working /\ drv \in {"run", "finish"}
         /\ \/ drv' = "executing" /\ keepDef' = keepDef
            \/ drv' = "finishing" /\ keepDef' = "store"
         /\ ms'.status = ms.status /\ ms'.active = ms.active
         /\ loc'.commitStatus = "OK"
         /\ Begun \/ Failed \/ Panicked
<1>1. PICK s \in Status, c \in BOOLEAN :
        /\ Execute(s, c)
        /\ s = "OK" => ms.status = "OK"
        /\ rx.status # "OK" => s # "OK"
        /\ c <=> drv' = "finishing"
        /\ ~c => s = "OK" /\ drv' = "executing" /\ keepDef' = keepDef
        /\ c => keepDef' = "store" /\ drv' = "finishing"
        /\ ms'.status = ms.status /\ ms'.active = ms.active
        /\ drv \in Working /\ drv \in {"run", "finish"}
        /\ UNCHANGED <<script, result, verdict, tries>>
  <2>1. ms \in Multiscript
    BY DEF Base, TempInv, StateTypeOK
  <2>2. CASE RunDone
    <3>1. ms' = [ms EXCEPT !.status = "OK", !.keep = FALSE] /\ Execute("OK", FALSE) /\ drv = "run"
          /\ drv' = "executing" /\ UNCHANGED <<keepDef, script, result, verdict, tries>>
      BY <2>2 DEF RunDone
    <3>2. ms.status = "OK" /\ rx.status = "OK"
      BY <3>1 DEF AccInv, ListInv, ScriptOK, Base, TurnInv, StatusOK
    <3>3. ms'.status = ms.status /\ ms'.active = ms.active
      BY <2>1, <3>1, <3>2 DEF Multiscript
    <3>4. "OK" \in Status
      BY DEF Status
    <3>5. QED BY <3>1, <3>2, <3>3, <3>4 DEF Working
  <2>3. CASE MultiscriptFinish
    <3> DEFINE s == IF err = "TEMP_FAILURE" THEN "TEMP_FAILURE" ELSE ms.status
    <3>1. Execute(s, TRUE) /\ drv = "finish" /\ keepDef' = "store" /\ drv' = "finishing"
          /\ UNCHANGED <<ms, script, result, verdict, tries>>
      BY <2>3 DEF MultiscriptFinish
    <3>2. s \in Status /\ (s = "OK" => ms.status = "OK")
      BY <2>1 DEF Multiscript, Status
    <3>3. rx.status # "OK" => s # "OK"
      BY <3>1 DEF Base, TurnInv, StatusOK, Working
    <3> HIDE DEF s
    <3>4. QED BY <3>1, <3>2, <3>3 DEF Working
  <2>4. QED BY <2>2, <2>3
<1>2. /\ UNCHANGED <<acts, list, kx, equiv, es, stored, sent>> /\ phase = "idle"
      /\ loc' = [commit |-> c, status |-> s, commitStatus |-> "OK", ret |-> "OK", keep |-> FALSE]
  BY <1>1 DEF Execute, worldVars
<1>3. loc'.status = s /\ loc'.commitStatus = "OK"
  BY <1>2
<1> DEFINE U == UpdatedExecution
           S == [i \in DOMAIN U |-> Started(U[i])]
<1>4. UpdateOf(U)
  BY UpdateFacts
<1>5. rx \in RExec
  BY Types
<1>6. CASE s = "BIN_CORRUPT" \/ ~OnlyKeepRecycled
  <2>1. phase' = "panic" /\ UNCHANGED <<ax, rx>>
    BY <1>1, <1>6 DEF Execute
  <2>2. drv' = "finishing"
    BY <2>1 DEF Base, SoundInv, PhaseOK
  <2>3. QED BY <1>1, <1>2, <1>3, <2>1, <2>2 DEF Panicked
<1>7. CASE ~(s = "BIN_CORRUPT" \/ ~OnlyKeepRecycled) /\ s = "OK" /\ rx.status = "OK"
  <2>1. phase' = "execute" /\ ax' = S /\ rx' = [rx EXCEPT !.seenDelivery = FALSE]
    BY <1>1, <1>7 DEF Execute
  <2>2. rx'.status = "OK" /\ rx'.keepImplicit = rx.keepImplicit
    BY <1>5, <1>7, <2>1 DEF RExec
  <2>3. U \in Seq(AExec) /\ Len(U) \in Nat
    BY <1>4 DEF UpdateOf
  <2> HIDE DEF U
  <2>4. Len(ax') = Len(U) /\ \A i \in 1 .. Len(U) : ax'[i] = Started(U[i])
    <3>1. DOMAIN U = 1 .. Len(U)
      BY <2>3
    <3>2. \A i \in 1 .. Len(U) : ax'[i] = Started(U[i])
      BY <2>1, <3>1
    <3>3. DOMAIN ax' = 1 .. Len(U)
      BY <2>1, <3>1
    <3>4. ax' \in Seq(AExec)
      BY DEF Base, SoundInv, SoundTypes
    <3>5. Len(ax') = Len(U)
      BY <2>3, <3>3, <3>4
    <3>6. QED BY <3>2, <3>5
  <2>5. Begun
    BY <1>1, <1>3, <1>4, <1>7, <2>1, <2>2, <2>4 DEF Begun
  <2>6. QED BY <1>1, <1>2, <1>3, <2>5
<1>8. CASE ~(s = "BIN_CORRUPT" \/ ~OnlyKeepRecycled) /\ ~(s = "OK" /\ rx.status = "OK")
  <2>1. ax' = U /\ rx' = [rx EXCEPT !.status = UpdateStatus(@, s)] /\ phase' = AfterExecute(rx', c)
    BY <1>1, <1>8 DEF Execute
  <2>2. s # "OK" /\ c /\ drv' = "finishing"
    BY <1>1, <1>8
  <2>3. rx'.status # "OK"
    BY <1>5, <2>1, <2>2, UpdateStatusFails DEF RExec
  <2>4. phase' = "keep"
    BY <2>1, <2>2, <2>3 DEF AfterExecute
  <2>5. Failed
    BY <1>3, <1>4, <2>1, <2>2, <2>3, <2>4 DEF Failed
  <2>6. QED BY <1>1, <1>2, <1>3, <2>5
<1>9. QED BY <1>6, <1>7, <1>8

(* Before a call whose actions are started, what is carried over was       *)
(* executed, and at most one keep was recycled.                            *)
LEMMA CarriedRan ==
  ASSUME Base, AccInv, drv \in {"run", "finish"}, ms.status = "OK", NEW k \in 1 .. Len(ax),
         Current(k), Listed(ax[k].obj)
  PROVE  ax[k].state = EXECUTED
<1>1. PICK n \in 1 .. Len(list) : list[n] = ax[k].obj
  BY DEF Listed
<1>2. ax[k].seq < execSeq /\ ax[k].seq \in Nat /\ execSeq \in Nat
  BY Types DEF Base, TurnInv, SeqsOK
<1>3. acts[ax[k].obj].seq # execSeq
  BY <1>2 DEF Current
<1>4. WasRun(ax[k].obj)
  BY <1>1, <1>3 DEF AccInv, ListInv, RanOK, Working
<1>5. QED BY <1>4 DEF WasRun, Base, SoundInv, Distinct

LEMMA OneKeepListed ==
  ASSUME Base, NEW o, NEW p, Listed(o), Listed(p), acts[o].keep, acts[p].keep
  PROVE  o = p
<1>1. PICK i \in 1 .. Len(list) : list[i] = o
  BY DEF Listed
<1>2. PICK j \in 1 .. Len(list) : list[j] = p
  BY DEF Listed
<1>3. QED BY <1>1, <1>2 DEF Base, SoundInv, Consistent

(* The states of an update, as far as stores are concerned.                *)
LEMMA UpdateStores ==
  ASSUME Base, AccInv, phase = "idle", NEW U, UpdateOf(U), NEW i \in 1 .. Len(U)
  PROVE  /\ acts[U[i].obj].def = "none" => ~U[i].tr
         /\ acts[U[i].obj].def \in {"none", "store"} => ~U[i].noop
         /\ ~(acts[U[i].obj].def = "store" /\ U[i].state < EXECUTED /\ U[i].commit /\ U[i].tr)
         /\ U[i].state >= EXECUTED => \E k \in 1 .. Len(ax) : U[i] = ax[k]
<1>1. Fresh(U[i]) \/ \E k \in 1 .. Len(ax) : Carried(U[i], k) \/ Restarted(U[i], k)
  BY DEF UpdateOf
<1>2. CASE Fresh(U[i])
  BY <1>2 DEF Fresh, INIT, EXECUTED
<1>3. CASE \E k \in 1 .. Len(ax) : Carried(U[i], k)
  BY <1>3 DEF Carried, AccInv, RunInv, StoresOK
<1>4. CASE \E k \in 1 .. Len(ax) : Restarted(U[i], k)
  <2>1. PICK k \in 1 .. Len(ax) : Restarted(U[i], k)
    BY <1>4
  <2>2. U[i].obj \in 1 .. Len(acts)
    BY DEF UpdateOf
  <2>3. acts[U[i].obj].def \in {"none", "store"}
    BY <2>1, <2>2 DEF Restarted, Base, TurnInv, SpeakersOK
  <2>4. ~ax[k].tr /\ ~ax[k].noop
    BY <2>1, <2>3 DEF Restarted, AccInv, RunInv, StoresOK
  <2>5. QED BY <2>1, <2>4 DEF Restarted, INIT, EXECUTED
<1>5. QED BY <1>1, <1>2, <1>3, <1>4

(* The actions are started.                                                *)
LEMMA BegunAcc ==
  ASSUME Base, Base', AccInv, phase = "idle", drv \in {"run", "finish"},
         UNCHANGED <<acts, list>>, drv' \in {"executing", "finishing"}, loc'.commitStatus = "OK", Begun
  PROVE  HereOK' /\ RunInv' /\ HandlesOK'
<1>1. PICK U : /\ UpdateOf(U) /\ Len(ax') = Len(U)
               /\ \A i \in 1 .. Len(U) : ax'[i] = Started(U[i])
  BY DEF Begun
<1>2. /\ phase' = "execute" /\ loc'.status = "OK" /\ ms.status = "OK"
      /\ rx.status = "OK" /\ rx'.status = "OK" /\ rx'.keepImplicit = rx.keepImplicit
  BY DEF Begun
<1>3. ASSUME NEW i \in 1 .. Len(U)
      PROVE  /\ ax'[i].obj = U[i].obj /\ ax'[i].seq = U[i].seq
             /\ U[i].state >= STARTED => ax'[i] = U[i]
             /\ U[i].state < STARTED => ax'[i].state = STARTED
             /\ ax'[i].commit = U[i].commit
             /\ acts[U[i].obj].def = "none" => ax'[i].tr = U[i].tr
             /\ ax'[i].noop => U[i].noop
             /\ U[i].state \in 0 .. 3 /\ U[i].obj \in 1 .. Len(acts)
  <2>1. U[i] \in AExec /\ U[i].obj \in 1 .. Len(acts)
    BY <1>1 DEF UpdateOf
  <2> DEFINE e == U[i]
  <2>2. ax'[i] = Started(e)
    BY <1>1
  <2>3. e \in AExec
    BY <2>1
  <2>4. U[i].state \in 0 .. 3
    BY <2>1 DEF AExec
  <2> HIDE DEF e
  <2>5. /\ ax'[i].obj = e.obj /\ ax'[i].seq = e.seq
        /\ e.state >= STARTED => ax'[i] = e
        /\ e.state < STARTED => ax'[i].state = STARTED
        /\ ax'[i].commit = e.commit
        /\ acts[e.obj].def = "none" => ax'[i].tr = e.tr
        /\ ax'[i].noop => e.noop
    BY <2>2, <2>3, StartedType
  <2>6. QED BY <2>1, <2>4, <2>5 DEF e
<1>4. ASSUME NEW i \in 1 .. Len(U)
      PROVE  /\ U[i].seq = acts[U[i].obj].seq /\ Listed(U[i].obj)
             /\ Fresh(U[i]) \/ \E k \in 1 .. Len(ax) : Carried(U[i], k) \/ Restarted(U[i], k)
  BY <1>1 DEF UpdateOf
<1>5. ASSUME NEW i \in 1 .. Len(U)
      PROVE  /\ acts[U[i].obj].def = "none" => ~U[i].tr
             /\ acts[U[i].obj].def \in {"none", "store"} => ~U[i].noop
             /\ U[i].state >= EXECUTED => \E k \in 1 .. Len(ax) : U[i] = ax[k]
  BY <1>1, UpdateStores
<1>6. ASSUME NEW i \in 1 .. Len(U), ax'[i].state >= EXECUTED
      PROVE  ax'[i] = U[i] /\ \E k \in 1 .. Len(ax) : U[i] = ax[k]
  <2>1. ax'[i] = U[i]
    BY <1>3, <1>6 DEF STARTED, EXECUTED
  <2>2. QED BY <1>5, <1>6, <2>1
<1>7. ASSUME NEW i \in 1 .. Len(U), ax'[i].state < EXECUTED
      PROVE  ~\E k \in 1 .. Len(ax) : Carried(U[i], k)
  <2> SUFFICES ASSUME NEW k \in 1 .. Len(ax), Carried(U[i], k)
               PROVE  FALSE
    OBVIOUS
  <2>1. U[i].state = EXECUTED
    BY <1>2, <1>4, CarriedRan DEF Carried
  <2>2. QED BY <1>3, <1>7, <2>1 DEF STARTED, EXECUTED
<1>8. HereOK'
  <2>1. \A i \in 1 .. Len(ax') : Current(i)' /\ Listed(ax[i].obj)'
    <3> SUFFICES ASSUME NEW i \in 1 .. Len(U)
                 PROVE  Current(i)' /\ Listed(ax[i].obj)'
      BY <1>1
    <3>1. /\ ax'[i].obj = U[i].obj /\ ax'[i].seq = U[i].seq
          /\ U[i].seq = acts[U[i].obj].seq /\ Listed(U[i].obj)
      BY <1>3, <1>4
    <3>2. QED BY <3>1 DEF Current, Listed
  <2>2. \A k \in 1 .. Len(list) : \E i \in 1 .. Len(U) : U[i].obj = list[k]
    BY <1>1 DEF UpdateOf
  <2>3. \A k \in 1 .. Len(list') : \E i \in 1 .. Len(ax') : ax'[i].obj = list'[k]
    BY <1>1, <1>3, <2>2
  <2>4. QED BY <2>1, <2>3 DEF HereOK
<1>9. RunStatusOK'
  <2>1. \A i \in 1 .. Len(ax') : ax'[i].state >= EXECUTED => ax'[i].status = "OK"
    BY <1>1, <1>2, <1>6 DEF AccInv, RunInv, RunStatusOK
  <2>2. \A i \in 1 .. Len(ax') : ax'[i].state # FINALIZED
    <3> SUFFICES ASSUME NEW i \in 1 .. Len(U), ax'[i].state = FINALIZED
                 PROVE  FALSE
      BY <1>1
    <3>1. \E k \in 1 .. Len(ax) : ax'[i] = ax[k]
      BY <1>6 DEF EXECUTED, FINALIZED
    <3>2. QED BY <3>1 DEF AccInv, RunInv, RunStatusOK, Last
  <2>3. QED BY <1>2, <2>1, <2>2 DEF RunStatusOK
<1>10. CallStatusOK'
  BY <1>2 DEF CallStatusOK
<1>11. StoresOK'
  <2> SUFFICES ASSUME NEW i \in 1 .. Len(U)
               PROVE  /\ acts[ax'[i].obj].def = "none" \/ ax'[i].seq # acts[ax'[i].obj].seq => ~ax'[i].tr
                      /\ acts[ax'[i].obj].def \in {"none", "store"} => ~ax'[i].noop
                      /\ acts[ax'[i].obj].def = "store" /\ ax'[i].state < EXECUTED /\ ax'[i].commit =>
                           \A j \in 1 .. Len(U) : ax'[j].state < EXECUTED => i <= j
    BY <1>1, <1>2 DEF StoresOK, Current
  <2>1. acts[ax'[i].obj].def = "none" \/ ax'[i].seq # acts[ax'[i].obj].seq => ~ax'[i].tr
    BY <1>3, <1>4, <1>5
  <2>2. acts[ax'[i].obj].def \in {"none", "store"} => ~ax'[i].noop
    BY <1>3, <1>5
  <2>3. ASSUME ax'[i].state < EXECUTED, ax'[i].commit,
               NEW j \in 1 .. Len(U), ax'[j].state < EXECUTED
        PROVE  i <= j
    <3>1. U[i].commit
      BY <1>3, <2>3
    <3>2. PICK k \in 1 .. Len(ax) : Restarted(U[i], k)
      BY <1>4, <1>7, <2>3, <3>1 DEF Fresh
    <3>3. i <= j \/ \E n \in 1 .. Len(ax) : Carried(U[j], n) \/ Restarted(U[j], n)
      BY <1>1, <3>2 DEF UpdateOf
    <3>4. ASSUME NEW n \in 1 .. Len(ax), Restarted(U[j], n)
          PROVE  i = j
      <4>1. U[i].obj = U[j].obj
        BY <1>4, <3>2, <3>4, OneKeepListed DEF Restarted
      <4>2. QED BY <1>1, <4>1 DEF UpdateOf
    <3>5. QED BY <1>7, <2>3, <3>3, <3>4
  <2>4. QED BY <2>1, <2>2, <2>3
<1>12. HandlesOK'
  <2> SUFFICES ASSUME ~rx.keepImplicit
               PROVE  \E i \in 1 .. Len(ax') : Handles(i)'
    BY <1>2 DEF HandlesOK
  <2>1. PICK k \in 1 .. Len(ax) : Handles(k)
    BY <1>2 DEF AccInv, AccountInv, HandlesOK
  <2>2. ax[k].obj \in 1 .. Len(acts) /\ ax[k].state \in 0 .. 3
    BY Types
  <2>3. Listed(ax[k].obj) /\ Current(k)
    BY <2>1, <2>2 DEF Handles, AccInv, ListInv, KeepsOK
  <2>4. PICK i \in 1 .. Len(U) : U[i] = ax[k]
    BY <1>1, <2>3 DEF UpdateOf
  <2>5. ax'[i] = ax[k]
    BY <1>3, <2>1, <2>2, <2>4 DEF Handles, STARTED, EXECUTED
  <2>6. Handles(i)'
    BY <2>1, <2>5 DEF Handles, Current
  <2>7. QED BY <1>1, <2>6
<1>13. QED BY <1>8, <1>9, <1>10, <1>11, <1>12 DEF RunInv

(* An earlier failure leaves only the implicit keep.                       *)
LEMMA FailedAcc ==
  ASSUME Base, Base', AccInv, phase = "idle", drv \in {"run", "finish"},
         UNCHANGED <<acts, list>>, loc'.commitStatus = "OK", Failed
  PROVE  HereOK' /\ RunInv' /\ HandlesOK'
<1> DEFINE U == ax'
<1>1. UpdateOf(U) /\ phase' = "keep" /\ loc'.status # "OK" /\ rx'.status # "OK" /\ drv' = "finishing"
  BY DEF Failed
<1>2. ASSUME NEW i \in 1 .. Len(U)
      PROVE  /\ U[i].seq = acts[U[i].obj].seq /\ Listed(U[i].obj)
  BY <1>1 DEF UpdateOf
<1>3. ASSUME NEW i \in 1 .. Len(U)
      PROVE  /\ acts[U[i].obj].def = "none" => ~U[i].tr
             /\ acts[U[i].obj].def \in {"none", "store"} => ~U[i].noop
             /\ ~(acts[U[i].obj].def = "store" /\ U[i].state < EXECUTED /\ U[i].commit /\ U[i].tr)
             /\ U[i].state >= EXECUTED => \E k \in 1 .. Len(ax) : U[i] = ax[k]
  <2> HIDE DEF U
  <2>1. QED BY <1>1, UpdateStores
<1>4. HereOK'
  <2>1. \A i \in 1 .. Len(ax') : Current(i)' /\ Listed(ax[i].obj)'
    BY <1>2 DEF Current, Listed
  <2>2. \A k \in 1 .. Len(list') : \E i \in 1 .. Len(ax') : ax'[i].obj = list'[k]
    BY <1>1 DEF UpdateOf
  <2>3. QED BY <2>1, <2>2 DEF HereOK
<1>5. RunStatusOK'
  <2>1. \A i \in 1 .. Len(ax') : ax'[i].state # FINALIZED
    <3> SUFFICES ASSUME NEW i \in 1 .. Len(ax'), ax'[i].state = FINALIZED
                 PROVE  FALSE
      OBVIOUS
    <3>1. \E k \in 1 .. Len(ax) : ax'[i] = ax[k]
      BY <1>3 DEF EXECUTED, FINALIZED
    <3>2. QED BY <3>1 DEF AccInv, RunInv, RunStatusOK, Last
  <2>2. QED BY <1>1, <2>1 DEF RunStatusOK
<1>6. CallStatusOK'
  BY <1>1 DEF CallStatusOK
<1>7. StoresOK'
  BY <1>2, <1>3 DEF StoresOK, Current
<1>8. HandlesOK'
  BY <1>1 DEF HandlesOK
<1>9. QED BY <1>4, <1>5, <1>6, <1>7, <1>8 DEF RunInv

(* A call is entered.                                                      *)
LEMMA EnterAcc ==
  ASSUME Base, Base', AccInv, RunDone \/ MultiscriptFinish
  PROVE  AccInv'
<1>1. /\ UNCHANGED <<acts, list, kx, equiv, es, stored, sent, script, result, verdict, tries>>
      /\ phase = "idle" /\ drv \in Working /\ drv \in {"run", "finish"}
      /\ \/ drv' = "executing" /\ keepDef' = keepDef
         \/ drv' = "finishing" /\ keepDef' = "store"
      /\ ms'.status = ms.status /\ ms'.active = ms.active
      /\ loc'.commitStatus = "OK"
      /\ Begun \/ Failed \/ Panicked
  BY EnterFacts
<1>2. /\ drv \notin Last /\ drv' \in {"executing", "finishing"} /\ Discard' = Discard
      /\ drv' \in Last <=> drv' = "finishing"
  BY <1>1 DEF Last, Discard
<1>3. phase' \in {"execute", "keep", "panic"}
  BY <1>1 DEF Begun, Failed, Panicked
<1>4. ScriptOK' /\ BindingOK' /\ UniqueOK'
  BY <1>1, <1>2 DEF AccInv, ListInv, ScriptOK, BindingOK, UniqueOK
<1>5. KeepsOK'
  BY <1>1, <1>2 DEF AccInv, ListInv, KeepsOK, Listed
<1>6. RanOK'
  BY <1>2 DEF RanOK, Working
<1>7. KeepExecOK'
  BY <1>1, <1>2 DEF AccInv, AccountInv, KeepExecOK, INIT, EXECUTED
<1>8. StoredOK' /\ SentOK'
  BY <1>1, <1>2 DEF AccInv, AccountInv, StoredOK, SentOK
<1>9. SettledOK'
  <2>1. verdict' = "none"
    BY <1>1 DEF AccInv, ListInv, ScriptOK
  <2>2. QED BY <1>2, <1>3, <2>1 DEF SettledOK, AcceptedIsHandled
<1>10. HereOK' /\ RunInv' /\ HandlesOK'
  <2>1. CASE Begun
    BY <1>1, <1>2, <2>1, BegunAcc
  <2>2. CASE Failed
    BY <1>1, <2>2, FailedAcc
  <2>3. CASE Panicked
    <3>1. phase' = "panic" /\ ax' = ax /\ rx' = rx /\ drv' = "finishing"
      BY <2>3 DEF Panicked
    <3>2. HereOK' /\ CallStatusOK'
      BY <3>1 DEF HereOK, CallStatusOK
    <3>3. RunStatusOK'
      BY <3>1 DEF AccInv, RunInv, RunStatusOK, Last
    <3>4. StoresOK'
      BY <1>1, <3>1 DEF AccInv, RunInv, StoresOK, Current
    <3>5. HandlesOK'
      BY <1>1, <3>1 DEF AccInv, AccountInv, HandlesOK, Handles, Current
    <3>6. QED BY <3>2, <3>3, <3>4, <3>5 DEF RunInv
  <2>4. QED BY <1>1, <2>1, <2>2, <2>3
<1>11. QED BY <1>4, <1>5, <1>6, <1>7, <1>8, <1>9, <1>10 DEF AccInv, ListInv, AccountInv

-----------------------------------------------------------------------------
(* The invariant after the steps of a call *)

(* A step of a call leaves the result alone.                               *)
LEMMA CallFrame ==
  ASSUME Base, AccInv, UNCHANGED <<resultVars, ldaVars>>, SameShape(ax'),
         drv \in {"executing", "finishing"}, phase # "panic"
  PROVE  /\ ListInv' /\ verdict' = "none" /\ AcceptedIsHandled'
         /\ UNCHANGED <<acts, list, execSeq, keepDef, drv, script, ms, result, verdict, tries>>
         /\ Len(ax') = Len(ax) /\ Len(ax) \in Nat
         /\ \A i \in 1 .. Len(ax) : /\ ax'[i].obj = ax[i].obj /\ ax'[i].seq = ax[i].seq
                                    /\ Current(i) /\ Listed(ax[i].obj) /\ ax[i].obj \in 1 .. Len(acts)
         /\ drv' \notin Working
<1>1. UNCHANGED <<acts, list, execSeq, keepDef, drv, script, ms, result, verdict, tries>>
  BY DEF resultVars, ldaVars
<1>2. /\ Len(ax') = Len(ax)
      /\ \A i \in 1 .. Len(ax) : ax'[i].obj = ax[i].obj /\ ax'[i].seq = ax[i].seq
  BY DEF SameShape
<1>3. /\ \A i \in 1 .. Len(ax) : Current(i) /\ Listed(ax[i].obj)
      /\ \A k \in 1 .. Len(list) : \E i \in 1 .. Len(ax) : ax[i].obj = list[k]
  BY DEF AccInv, ListInv, HereOK, Last
<1>4. drv' \notin Working /\ Discard' = Discard
  BY <1>1 DEF Working, Discard
<1>5. ScriptOK' /\ BindingOK' /\ UniqueOK'
  BY <1>1, <1>4 DEF AccInv, ListInv, ScriptOK, BindingOK, UniqueOK
<1>6. KeepsOK' /\ RanOK'
  BY <1>1, <1>4 DEF AccInv, ListInv, KeepsOK, RanOK, Listed
<1>7. HereOK'
  <2>1. \A i \in 1 .. Len(ax') : Current(i)' /\ Listed(ax[i].obj)'
    BY <1>1, <1>2, <1>3 DEF Current, Listed
  <2>2. \A k \in 1 .. Len(list') : \E i \in 1 .. Len(ax') : ax'[i].obj = list'[k]
    BY <1>1, <1>2, <1>3
  <2>3. QED BY <2>1, <2>2 DEF HereOK
<1>8. verdict' = "none"
  BY <1>1 DEF AccInv, ListInv, ScriptOK
<1>9. AcceptedIsHandled'
  BY <1>8 DEF AcceptedIsHandled
<1>10. Len(ax) \in Nat /\ \A i \in 1 .. Len(ax) : ax[i].obj \in 1 .. Len(acts)
  BY Types
<1>11. QED BY <1>1, <1>2, <1>3, <1>4, <1>5, <1>6, <1>7, <1>8, <1>9, <1>10 DEF ListInv

(* Nothing was stored or forwarded before the actions are committed.       *)
LEMMA UntouchedYet ==
  ASSUME AccInv, phase \in {"execute", "keep"}, drv \in {"executing", "finishing"}
  PROVE  /\ \A m \in Mailbox : stored[m] = 0
         /\ \A a \in Address : sent[a] < tries
         /\ es.saved => StoredSomewhere
         /\ \A i \in 1 .. Len(ax) : ax[i].state # FINALIZED
         /\ kx.state = INIT /\ equiv = 0
<1>1. /\ \A i \in 1 .. Len(ax) : ax[i].state # FINALIZED
      /\ kx.state = INIT /\ equiv = 0
  BY DEF AccInv, RunInv, RunStatusOK, AccountInv, KeepExecOK
<1>2. \A m \in Mailbox : ~StoredBy(m)
  BY <1>1 DEF StoredBy, INIT, FINALIZED
<1>3. \A m \in Mailbox : stored[m] = 0
  BY <1>2 DEF AccInv, AccountInv, StoredOK, Last
<1>4. es.saved => StoredSomewhere
  BY DEF AccInv, AccountInv, StoredOK, Last
<1>5. \A a \in Address : sent[a] < tries
  BY <1>1 DEF AccInv, AccountInv, SentOK
<1>6. QED BY <1>1, <1>3, <1>4, <1>5

(* A step before the commits: nothing is stored or forwarded.              *)
LEMMA UntouchedStill ==
  ASSUME AccInv, phase \in {"execute", "keep"}, drv \in {"executing", "finishing"},
         UNCHANGED <<drv, stored, sent, tries>>, es'.saved = es.saved
  PROVE  StoredOK' /\ SentOK'
<1>1. /\ \A m \in Mailbox : stored[m] = 0
      /\ \A a \in Address : sent[a] < tries
      /\ es.saved => StoredSomewhere
  BY UntouchedYet
<1>2. drv \notin Last => ~es.saved
  BY DEF AccInv, AccountInv, StoredOK
<1>3. StoredSomewhere' = StoredSomewhere
  BY DEF StoredSomewhere
<1>4. QED BY <1>1, <1>2, <1>3 DEF StoredOK, SentOK

(* The outcomes of an action: without a failure only an action that takes  *)
(* care of the message cancels the implicit keep.                          *)
LEMMA OutcomeFacts ==
  ASSUME NEW a, NEW o \in ExecuteOutcomes(a), a.def = "store" => a.tgt # SourceMailbox
  PROVE  /\ ~o.keep => a.def \in {"store", "redirect", "discard", "reject"}
         /\ ~o.keep /\ a.def = "redirect" => ~o.noop
         /\ a.def \in {"none", "store"} => ~o.noop
<1> DEFINE plain ==
        CASE a.def = "store"    -> StoreOutcomes(a.tgt)
          [] a.def = "redirect" -> RedirectOutcomes(a.tgt)
          [] a.def = "discard"  -> {Outcome("OK", FALSE, FALSE, FALSE)}
          [] a.def = "reject"   -> RejectOutcomes(a.silent)
          [] OTHER -> {Outcome("OK", TRUE, FALSE, FALSE)}
<1>1. PICK p \in plain : o = [p EXCEPT !.keep = @ \/ (a.copy /\ p.status = "OK")]
  BY Zenon DEF ExecuteOutcomes
<1>2. p \in OutcomeSet
  <2>1. CASE a.def = "store"
    BY <2>1, <1>1, StoreOutcomesType
  <2>2. CASE a.def = "redirect"
    BY <2>2, <1>1, RedirectOutcomesType
  <2>3. CASE a.def = "reject"
    BY <2>3, <1>1, RejectOutcomesType
  <2>4. CASE a.def \notin {"store", "redirect", "reject"}
    <3>1. p \in {Outcome("OK", FALSE, FALSE, FALSE), Outcome("OK", TRUE, FALSE, FALSE)}
      BY <1>1, <2>4
    <3>2. "OK" \in Status
      BY DEF Status
    <3>3. QED BY <3>1, <3>2, OutcomeType
  <2>5. QED BY <2>1, <2>2, <2>3, <2>4
<1>3. /\ ~p.keep => a.def \in {"store", "redirect", "discard", "reject"}
      /\ ~p.keep /\ a.def = "redirect" => ~p.noop
      /\ a.def \in {"none", "store"} => ~p.noop
  <2>1. CASE a.def = "store"
    <3>1. p \in StoreOutcomes(a.tgt)
      BY <1>1, <2>1
    <3> DEFINE d == a.tgt = DefaultMailbox
    <3>2. \/ p = Outcome("OK", FALSE, FALSE, d)
          \/ \E s \in {"FAILURE", "TEMP_FAILURE"} : p = Outcome(s, TRUE, FALSE, FALSE)
          \/ \E s \in {"FAILURE", "TEMP_FAILURE"} : p = Outcome(s, TRUE, FALSE, d)
      BY <2>1, <3>1, Zenon DEF StoreOutcomes
    <3> HIDE DEF d
    <3>3. QED BY <2>1, <3>2 DEF Outcome
  <2>2. CASE a.def = "redirect"
    <3>1. p \in RedirectOutcomes(a.tgt)
      BY <1>1, <2>2
    <3>2. p = Outcome("OK", TRUE, TRUE, FALSE) \/ \E s, t, n : p = Outcome(s, t, FALSE, n)
      BY <3>1 DEF RedirectOutcomes
    <3>3. QED BY <2>2, <3>2 DEF Outcome
  <2>3. CASE a.def \in {"discard", "reject"}
    BY <2>3
  <2>4. CASE a.def \notin {"store", "redirect", "discard", "reject"}
    BY <1>1, <2>4 DEF Outcome
  <2>5. QED BY <2>1, <2>2, <2>3, <2>4
<1> HIDE DEF plain
<1>4. o.noop = p.noop /\ (~o.keep => ~p.keep)
  BY <1>1, <1>2 DEF OutcomeSet
<1>5. QED BY <1>3, <1>4

(* What the execution of one action changes.                               *)
LEMMA ExecuteActionFacts ==
  ASSUME Base, AccInv, ExecuteAction, UNCHANGED ldaVars
  PROVE  /\ UNCHANGED <<resultVars, ldaVars, kx, equiv, stored, sent>> /\ SameShape(ax')
         /\ phase = "execute" /\ drv \in {"executing", "finishing"}
         /\ rx.status = "OK" /\ es'.saved = es.saved /\ loc'.commitStatus = "OK"
         /\ \E k \in 1 .. Len(ax), s \in Status :
              /\ ax[k].state < EXECUTED /\ \A j \in 1 .. Len(ax) : ax[j].state < EXECUTED => k <= j
              /\ \A i \in 1 .. Len(ax) : i # k => ax'[i] = ax[i]
              /\ ax'[k].state = EXECUTED /\ ax'[k].status = s /\ ax'[k].tr = ax[k].tr
              /\ acts[ax[k].obj].def \in {"none", "store"} => ~ax'[k].noop
              /\ ~rx'.keepImplicit /\ rx.keepImplicit =>
                   /\ acts[ax[k].obj].def \in {"store", "redirect", "discard", "reject"}
                   /\ acts[ax[k].obj].def = "redirect" => ~ax'[k].noop
              /\ s = "OK" <=> rx'.status = "OK"
              /\ loc'.status = s
              /\ phase' = IF s = "OK" THEN "execute"
                          ELSE IF drv = "executing" THEN "return" ELSE "keep"
<1> DEFINE k == Min(Pending(EXECUTED))
           a == acts[ax[k].obj]
<1>1. /\ k \in 1 .. Len(ax) /\ k \in Pending(EXECUTED)
      /\ \A j \in Pending(EXECUTED) : k <= j
  <2>1. SoundInv /\ Pending(EXECUTED) # {}
    BY DEF Base, ExecuteAction
  <2>2. k \in 1 .. Len(ax) /\ k \in Pending(EXECUTED) /\ Pending(EXECUTED) \in SUBSET (1 .. Len(ax))
    BY <2>1, PendingFacts
  <2>3. Pending(EXECUTED) \in SUBSET Nat
    BY <2>2
  <2>4. \A j \in Pending(EXECUTED) : k <= j
    BY <2>1, <2>3, MinIsLeast
  <2>5. QED BY <2>2, <2>4
<1>2. PICK o \in ExecuteOutcomes(a) :
           /\ ax' = [ax EXCEPT ![k].state = EXECUTED, ![k].status = o.status, ![k].noop = o.noop]
           /\ rx' = [rx EXCEPT
                       !.keepExplicit = @ \/ a.keep,
                       !.keepImplicit = @ /\ o.keep,
                       !.executed = @ \/ (o.status = "OK" /\ a.def \notin {"none", "vacation"}),
                       !.seenDelivery = @ \/ (o.status = "OK" /\ a.def \in TriesDeliver),
                       !.status = UpdateStatus(@, o.status)]
           /\ es' = [es EXCEPT !.triedDefault = @ \/ o.tried]
           /\ loc' = [loc EXCEPT !.status = o.status]
           /\ phase' = IF o.status = "OK" THEN "execute" ELSE AfterExecute(rx', loc.commit)
  BY Zenon DEF ExecuteAction
<1>3. /\ phase = "execute" /\ UNCHANGED <<resultVars, kx, equiv, stored, sent>>
  BY DEF ExecuteAction, worldVars
<1>4. /\ \/ drv = "executing" /\ ~loc.commit
         \/ drv = "finishing" /\ loc.commit
      /\ rx.status = "OK" /\ loc.commitStatus = "OK"
  BY <1>3 DEF Base, TempInv, CallOK, AccInv, RunInv, CallStatusOK
<1>5. o.status \in Status /\ o.noop \in BOOLEAN /\ o.keep \in BOOLEAN
  BY ExecuteOutcomesType DEF OutcomeSet
<1>6. ax \in Seq(AExec) /\ rx \in RExec /\ loc \in Loc /\ es \in ExecStatus
  BY Types
<1>7. /\ ~o.keep => a.def \in {"store", "redirect", "discard", "reject"}
      /\ ~o.keep /\ a.def = "redirect" => ~o.noop
      /\ a.def \in {"none", "store"} => ~o.noop
  <2>1. ax[k].obj \in 1 .. Len(acts)
    BY <1>1, Types
  <2>2. a.def = "store" => a.tgt # SourceMailbox
    BY <2>1, LdaAssumption DEF AccInv, ListInv, KeepsOK
  <2> HIDE DEF a
  <2>3. QED BY <2>2, OutcomeFacts
<1>8. \A j \in 1 .. Len(ax) : ax[j].state < EXECUTED => k <= j
  <2> HIDE DEF k
  <2>1. DOMAIN ax = 1 .. Len(ax)
    BY <1>6
  <2>2. QED BY <1>1, <2>1 DEF Pending
<1>9. ax[k].state < EXECUTED
  BY <1>1 DEF Pending
<1> HIDE DEF k
<1>10. /\ SameShape(ax')
       /\ ax'[k].state = EXECUTED /\ ax'[k].status = o.status /\ ax'[k].noop = o.noop
       /\ ax'[k].tr = ax[k].tr
       /\ \A i \in 1 .. Len(ax) : i # k => ax'[i] = ax[i]
  <2> DEFINE st == o.status
             n == o.noop
  <2>1. st \in Status /\ n \in BOOLEAN
    BY <1>5
  <2>2. Ran(ax', k, st, n)
    BY <1>2 DEF Ran
  <2> HIDE DEF st, n, a
  <2>3. /\ SameShape(ax')
        /\ ax'[k].state = EXECUTED /\ ax'[k].status = st /\ ax'[k].noop = n
        /\ ax'[k].tr = ax[k].tr
        /\ \A i \in 1 .. Len(ax) : i # k => ax'[i] = ax[i]
    BY <1>1, <1>6, <2>1, <2>2, OneExecuted
  <2>4. QED BY <2>3 DEF st, n
<1> HIDE DEF a
<1>11. /\ rx'.keepImplicit = (rx.keepImplicit /\ o.keep)
       /\ rx'.status = UpdateStatus(rx.status, o.status)
       /\ es'.saved = es.saved
       /\ loc'.status = o.status /\ loc'.commitStatus = loc.commitStatus
  BY <1>2, <1>6 DEF RExec, Loc, ExecStatus
<1>12. rx'.status = "OK" <=> o.status = "OK"
  <2>1. o.status = "OK" => rx'.status = "OK"
    BY <1>4, <1>11 DEF UpdateStatus
  <2>2. o.status # "OK" => rx'.status # "OK"
    BY <1>11, UpdateStatusFails
  <2>3. QED BY <2>1, <2>2
<1>13. phase' = IF o.status = "OK" THEN "execute"
                ELSE IF drv = "executing" THEN "return" ELSE "keep"
  BY <1>2, <1>4, <1>12 DEF AfterExecute
<1>14. /\ ~rx'.keepImplicit /\ rx.keepImplicit =>
                   /\ acts[ax[k].obj].def \in {"store", "redirect", "discard", "reject"}
                   /\ acts[ax[k].obj].def = "redirect" => ~ax'[k].noop
       /\ acts[ax[k].obj].def \in {"none", "store"} => ~ax'[k].noop
  BY <1>7, <1>10, <1>11 DEF a
<1>15. QED BY <1>1, <1>3, <1>4, <1>5, <1>8, <1>9, <1>10, <1>11, <1>12, <1>13, <1>14

(* The execution of one action.                                            *)
LEMMA ExecuteActionAcc ==
  ASSUME Base, AccInv, ExecuteAction, UNCHANGED ldaVars
  PROVE  AccInv'
<1>1. /\ UNCHANGED <<resultVars, ldaVars, kx, equiv, stored, sent>> /\ SameShape(ax')
      /\ phase = "execute" /\ drv \in {"executing", "finishing"}
      /\ rx.status = "OK" /\ es'.saved = es.saved /\ loc'.commitStatus = "OK"
  BY ExecuteActionFacts
<1>2. PICK k \in 1 .. Len(ax), s \in Status :
              /\ ax[k].state < EXECUTED /\ \A j \in 1 .. Len(ax) : ax[j].state < EXECUTED => k <= j
              /\ \A i \in 1 .. Len(ax) : i # k => ax'[i] = ax[i]
              /\ ax'[k].state = EXECUTED /\ ax'[k].status = s /\ ax'[k].tr = ax[k].tr
              /\ acts[ax[k].obj].def \in {"none", "store"} => ~ax'[k].noop
              /\ ~rx'.keepImplicit /\ rx.keepImplicit =>
                   /\ acts[ax[k].obj].def \in {"store", "redirect", "discard", "reject"}
                   /\ acts[ax[k].obj].def = "redirect" => ~ax'[k].noop
              /\ s = "OK" <=> rx'.status = "OK"
              /\ loc'.status = s
              /\ phase' = IF s = "OK" THEN "execute"
                          ELSE IF drv = "executing" THEN "return" ELSE "keep"
  BY ExecuteActionFacts
<1>3. /\ ListInv' /\ AcceptedIsHandled'
      /\ UNCHANGED <<acts, list, drv, result, verdict, tries>>
      /\ Len(ax') = Len(ax) /\ Len(ax) \in Nat
      /\ \A i \in 1 .. Len(ax) : ax'[i].obj = ax[i].obj /\ ax'[i].seq = ax[i].seq /\ Current(i)
  <2>1. phase # "panic"
    BY <1>1
  <2>2. QED BY <1>1, <2>1, CallFrame
<1>4. /\ kx.state = INIT /\ equiv = 0
      /\ \A i \in 1 .. Len(ax) : ax[i].state # FINALIZED
  BY <1>1, UntouchedYet
<1>5. RunStatusOK'
  <2>1. rx'.status = "OK" => \A i \in 1 .. Len(ax') : ax'[i].state >= EXECUTED => ax'[i].status = "OK"
    BY <1>1, <1>2, <1>3 DEF AccInv, RunInv, RunStatusOK
  <2>2. \A i \in 1 .. Len(ax') : ax'[i].state # FINALIZED
    BY <1>2, <1>3, <1>4 DEF EXECUTED, FINALIZED
  <2>3. QED BY <1>2, <2>1, <2>2 DEF RunStatusOK
<1>6. CallStatusOK'
  BY <1>1, <1>2, <1>3 DEF CallStatusOK
<1>7. StoresOK'
  <2> SUFFICES ASSUME NEW i \in 1 .. Len(ax)
               PROVE  /\ acts[ax[i].obj].def = "none" \/ ax[i].seq # acts[ax[i].obj].seq => ~ax'[i].tr
                      /\ acts[ax[i].obj].def \in {"none", "store"} => ~ax'[i].noop
                      /\ ~(/\ acts[ax[i].obj].def = "store" /\ ax'[i].state < EXECUTED
                           /\ ax'[i].commit /\ ax'[i].tr)
    BY <1>3 DEF StoresOK, Current
  <2>1. /\ acts[ax[i].obj].def = "none" \/ ax[i].seq # acts[ax[i].obj].seq => ~ax[i].tr
        /\ acts[ax[i].obj].def \in {"none", "store"} => ~ax[i].noop
        /\ acts[ax[i].obj].def = "store" /\ ax[i].state < EXECUTED /\ ax[i].commit /\ ax[i].tr => i <= k
    BY <1>2 DEF AccInv, RunInv, StoresOK, Current
  <2>2. CASE i = k
    BY <1>2, <2>1, <2>2 DEF EXECUTED
  <2>3. CASE i # k
    BY <1>2, <2>1, <2>3
  <2>4. QED BY <2>2, <2>3
<1>8. KeepExecOK'
  BY <1>1, <1>4 DEF KeepExecOK, INIT, EXECUTED
<1>9. StoredOK' /\ SentOK'
  BY <1>1, <1>3, UntouchedStill
<1>10. HandlesOK'
  <2> SUFFICES ASSUME rx'.status = "OK", ~rx'.keepImplicit
               PROVE  \E i \in 1 .. Len(ax) : Handles(i)'
    BY <1>2, <1>3 DEF HandlesOK
  <2>1. CASE ~rx.keepImplicit
    <3>1. PICK i \in 1 .. Len(ax) : Handles(i)
      BY <1>1, <2>1 DEF AccInv, AccountInv, HandlesOK
    <3>2. i # k
      <4>1. ax[i].state \in 0 .. 3
        BY Types
      <4>2. QED BY <1>2, <3>1, <4>1 DEF Handles, EXECUTED
    <3>3. ax'[i] = ax[i]
      BY <1>2, <3>2
    <3>4. Handles(i)'
      BY <1>3, <3>1, <3>3 DEF Handles, Current
    <3>5. QED BY <3>4
  <2>2. CASE rx.keepImplicit
    <3>1. /\ acts[ax[k].obj].def \in {"store", "redirect", "discard", "reject"}
          /\ acts[ax[k].obj].def = "redirect" => ~ax'[k].noop
      BY <1>2, <2>2
    <3>2. EXECUTED >= EXECUTED
      BY DEF EXECUTED
    <3>3. Current(k)'
      BY <1>3 DEF Current
    <3>4. Handles(k)'
      BY <1>2, <1>3, <3>1, <3>2, <3>3 DEF Handles
    <3>5. QED BY <3>4
  <2>3. QED BY <2>1, <2>2
<1>11. SettledOK'
  BY <1>1, <1>2, <1>3 DEF SettledOK
<1>12. QED BY <1>3, <1>5, <1>6, <1>7, <1>8, <1>9, <1>10, <1>11 DEF AccInv, RunInv, AccountInv

(* The end of the series.                                                  *)
LEMMA ExecuteDoneAcc ==
  ASSUME Base, AccInv, ExecuteDone, UNCHANGED ldaVars
  PROVE  AccInv'
<1>1. /\ phase = "execute" /\ UNCHANGED <<resultVars, ldaVars, kx, equiv, loc, es, stored, sent>>
      /\ rx' = [rx EXCEPT !.executedDelivery = @ \/ rx.seenDelivery]
      /\ phase' = AfterExecute(rx', loc.commit)
  BY DEF ExecuteDone, worldVars
<1>2. /\ SameShape(ax')
      /\ \A i \in 1 .. Len(ax) : /\ ax'[i].state = ax[i].state /\ ax'[i].status = ax[i].status
                                 /\ ax'[i].noop = ax[i].noop /\ ax'[i].tr = ax[i].tr
  <2>1. ax \in Seq(AExec) /\ ax' = [i \in DOMAIN ax |-> [ax[i] EXCEPT !.commit = TRUE]]
    BY Types DEF ExecuteDone
  <2>2. QED BY <2>1, AllCommitted
<1>3. \A i \in 1 .. Len(ax) : ax[i].state >= EXECUTED /\ ~(ax[i].state < EXECUTED)
  <2> SUFFICES ASSUME NEW i \in 1 .. Len(ax) PROVE ax[i].state >= EXECUTED /\ ~(ax[i].state < EXECUTED)
    OBVIOUS
  <2>1. ax \in Seq(AExec) /\ ax[i].state \in 0 .. 3
    BY Types
  <2>2. i \in DOMAIN ax
    BY <2>1
  <2>3. ~(ax[i].state < EXECUTED)
    BY <2>2 DEF ExecuteDone, Pending
  <2>4. QED BY <2>1, <2>3 DEF EXECUTED
<1>4. /\ \/ drv = "executing" /\ ~loc.commit
         \/ drv = "finishing" /\ loc.commit
      /\ rx.status = "OK" /\ loc.status = "OK" /\ loc.commitStatus = "OK"
  BY <1>1 DEF Base, TempInv, CallOK, AccInv, RunInv, CallStatusOK
<1>5. /\ rx'.status = "OK" /\ rx'.keepImplicit = rx.keepImplicit
  <2>1. rx \in RExec
    BY Types
  <2>2. QED BY <1>1, <1>4, <2>1 DEF RExec
<1>6. /\ drv = "executing" => phase' = "return"
      /\ drv = "finishing" => phase' \in {"keep", "commit"}
  BY <1>1, <1>4 DEF AfterExecute
<1>7. /\ ListInv' /\ AcceptedIsHandled'
      /\ UNCHANGED <<acts, list, drv, result, verdict, tries>>
      /\ Len(ax') = Len(ax) /\ Len(ax) \in Nat
      /\ \A i \in 1 .. Len(ax) : ax'[i].obj = ax[i].obj /\ ax'[i].seq = ax[i].seq /\ Current(i)
  <2>1. phase # "panic" /\ drv \in {"executing", "finishing"}
    BY <1>1, <1>4
  <2>2. QED BY <1>1, <1>2, <2>1, CallFrame
<1>8. /\ kx.state = INIT /\ equiv = 0
      /\ \A i \in 1 .. Len(ax) : ax[i].state # FINALIZED
  BY <1>1, <1>4, UntouchedYet
<1>9. RunStatusOK'
  BY <1>2, <1>3, <1>4, <1>7, <1>8 DEF AccInv, RunInv, RunStatusOK
<1>10. CallStatusOK'
  BY <1>1, <1>4, <1>5, <1>6, <1>7 DEF CallStatusOK
<1>11. StoresOK'
  <2>1. \A i \in 1 .. Len(ax) :
           /\ acts[ax[i].obj].def = "none" \/ ~Current(i) => ~ax[i].tr
           /\ acts[ax[i].obj].def \in {"none", "store"} => ~ax[i].noop
    BY DEF AccInv, RunInv, StoresOK
  <2>2. QED BY <1>2, <1>3, <1>7, <2>1 DEF StoresOK, Current
<1>12. KeepExecOK'
  BY <1>1, <1>8 DEF KeepExecOK, INIT, EXECUTED
<1>13. StoredOK' /\ SentOK'
  BY <1>1, <1>4, <1>7, UntouchedStill
<1>14. HandlesOK'
  <2>1. rx'.status = "OK" /\ ~rx'.keepImplicit => \E i \in 1 .. Len(ax) : Handles(i)
    BY <1>4, <1>5 DEF AccInv, AccountInv, HandlesOK
  <2>2. \A i \in 1 .. Len(ax) : Handles(i) => Handles(i)'
    BY <1>2, <1>7 DEF Handles, Current
  <2>3. \A i \in 1 .. Len(ax') : ax'[i].state # FINALIZED
    BY <1>2, <1>7, <1>8
  <2>4. QED BY <1>7, <2>1, <2>2, <2>3 DEF HandlesOK
<1>15. SettledOK'
  BY <1>4, <1>6, <1>7 DEF SettledOK
<1>16. QED BY <1>7, <1>9, <1>10, <1>11, <1>12, <1>13, <1>14, <1>15 DEF AccInv, RunInv, AccountInv

(* A step of the final call that leaves the world and the execution state  *)
(* of the actions alone.                                                   *)
LEMMA QuietAcc ==
  ASSUME Base, AccInv, UNCHANGED <<resultVars, ldaVars, ax, kx, equiv, es, stored, sent>>,
         drv = "finishing", phase \in {"commit", "finalize", "finish"},
         phase' \in {"finalize", "finish", "return"},
         rx'.status = "OK" => rx.status = "OK", rx'.keepImplicit = rx.keepImplicit,
         rx'.keepStatus = rx.keepStatus, CallStatusOK',
         phase' = "finalize" => phase = "commit" /\ (rx'.status = "OK" => loc.commitStatus = "OK"),
         phase \in {"commit", "finalize"} => \A i \in 1 .. Len(ax) : ax[i].state = FINALIZED,
         phase' # "finalize" => Settled(loc'.ret)
  PROVE  AccInv'
<1>1. /\ ListInv' /\ AcceptedIsHandled'
      /\ UNCHANGED <<acts, list, drv, result, verdict, tries>>
  <2>1. SameShape(ax') /\ phase # "panic"
    BY ShapeSame DEF Base
  <2>2. QED BY <2>1, CallFrame
<1>2. drv \in Last /\ drv' \in Last
  BY <1>1 DEF Last
<1>3. RunStatusOK'
  <2>1. rx'.status = "OK" => \A i \in 1 .. Len(ax) : ax[i].state >= EXECUTED
    BY DEF AccInv, RunInv, RunStatusOK
  <2>2. QED BY <1>2, <2>1 DEF AccInv, RunInv, RunStatusOK
<1>4. StoresOK'
  BY <1>1 DEF AccInv, RunInv, StoresOK, Current
<1>5. KeepExecOK'
  BY <1>1, <1>2 DEF AccInv, AccountInv, KeepExecOK, Stores
<1>6. StoredOK'
  BY <1>1, <1>2 DEF AccInv, AccountInv, StoredOK, StoredBy, Stores, KeptTwice, StoredSomewhere
<1>7. SentOK'
  BY <1>1, <1>2 DEF AccInv, AccountInv, SentOK, Forwards
<1>8. HandlesOK'
  <2>1. rx'.status = "OK" /\ ~rx'.keepImplicit => \E i \in 1 .. Len(ax) : Handles(i)'
    BY <1>1 DEF AccInv, AccountInv, HandlesOK, Handles, Current
  <2>2. rx'.status = "OK" /\ phase' = "finalize" =>
          \A i \in 1 .. Len(ax) :
            ax[i].state = FINALIZED =>
              /\ acts[ax[i].obj].def = "store" => StoredSomewhere
              /\ acts[ax[i].obj].def = "redirect" /\ ~ax[i].noop => SentSomewhere
    BY DEF AccInv, AccountInv, HandlesOK
  <2>3. QED BY <1>1, <2>1, <2>2 DEF HandlesOK, StoredSomewhere, SentSomewhere
<1>9. SettledOK'
  <2>1. phase' # "finalize" => Settled(loc.ret)'
    BY <1>1 DEF Settled, Handled, StoredSomewhere, SentSomewhere, ExecutedDef
  <2>2. QED BY <1>1, <2>1 DEF SettledOK
<1>10. QED BY <1>1, <1>3, <1>4, <1>5, <1>6, <1>7, <1>8, <1>9 DEF AccInv, RunInv, AccountInv

(* No status but a commit without failure leaves all well.                 *)
LEMMA CommitStatusOK ==
  ASSUME CommitStatus = "OK"
  PROVE  loc.commitStatus = "OK"
BY DEF CommitStatus

(* The end of the commit phase.                                            *)
LEMMA CommitDoneAcc ==
  ASSUME Base, Base', AccInv, CommitDone, UNCHANGED ldaVars
  PROVE  AccInv'
<1>1. /\ phase = "commit" /\ UNCHANGED <<resultVars, ldaVars, ax, kx, equiv, es, stored, sent>>
      /\ rx' = [rx EXCEPT !.status = UpdateStatus(@, CommitStatus)]
      /\ loc' = [loc EXCEPT !.ret = rx'.status]
      /\ phase' = IF rx'.status # "OK" \/ rx.keepImplicit THEN "finalize" ELSE "finish"
  BY DEF CommitDone, worldVars
<1>2. rx \in RExec /\ loc \in Loc
  BY Types
<1>3. /\ rx'.status = UpdateStatus(rx.status, CommitStatus) /\ rx'.keepImplicit = rx.keepImplicit
      /\ rx'.keepStatus = rx.keepStatus /\ loc'.ret = rx'.status
  <2>1. rx'.status \in Status
    BY DEF Base, TempInv, StateTypeOK, RExec
  <2>2. QED BY <1>1, <1>2, <2>1 DEF RExec, Loc
<1>4. rx'.status = "OK" => rx.status = "OK" /\ loc.commitStatus = "OK"
  <2>1. rx'.status = "OK" => rx.status = "OK" /\ CommitStatus = "OK"
    BY <1>3, UpdateStatusFails
  <2>2. QED BY <2>1, CommitStatusOK
<1>5. drv = "finishing"
  BY <1>1 DEF Base, TempInv, CallOK
<1>6. \A i \in 1 .. Len(ax) : ax[i].state = FINALIZED
  <2> SUFFICES ASSUME NEW i \in 1 .. Len(ax) PROVE ax[i].state = FINALIZED
    OBVIOUS
  <2>1. ax \in Seq(AExec) /\ ax[i].state \in 0 .. 3
    BY Types
  <2>2. i \in DOMAIN ax
    BY <2>1
  <2>3. ~(ax[i].state < FINALIZED)
    BY <2>2 DEF CommitDone, Pending
  <2>4. QED BY <2>1, <2>3 DEF FINALIZED
<1>7. CallStatusOK'
  BY <1>1, <1>3, <1>5 DEF CallStatusOK, ldaVars
<1>8. phase' # "finalize" => Settled(loc'.ret)
  <2> SUFFICES ASSUME rx'.status = "OK", ~rx.keepImplicit
               PROVE  Settled("OK")
    BY <1>1, <1>3
  <2>1. PICK i \in 1 .. Len(ax) : Handles(i)
    BY <1>4 DEF AccInv, AccountInv, HandlesOK
  <2>2. /\ acts[ax[i].obj].def = "store" => StoredSomewhere
        /\ acts[ax[i].obj].def = "redirect" /\ ~ax[i].noop => SentSomewhere
    BY <1>1, <1>4, <1>6 DEF AccInv, AccountInv, HandlesOK
  <2>3. acts[ax[i].obj].def \in {"discard", "reject"} => ExecutedDef({"discard", "reject"})
    <3>1. i \in DOMAIN ax
      BY Types
    <3>2. QED BY <2>1, <3>1 DEF ExecutedDef, Handles, Current
  <2>4. Handled
    BY <2>1, <2>2, <2>3 DEF Handles, Handled
  <2>5. QED BY <2>4 DEF Settled
<1>9. phase' \in {"finalize", "finish"}
  BY <1>1
<1>10. QED BY <1>1, <1>3, <1>4, <1>5, <1>6, <1>7, <1>8, <1>9, QuietAcc

(* The status after the keep: success and the failure that a keep made up  *)
(* for need a keep that succeeded.                                         *)
LEMMA ResultStatusKept ==
  ASSUME NEW r, NEW s, NEW c, ResultStatus(r, s, c) \in {"OK", "FAILURE"}
  PROVE  s = "OK" /\ (ResultStatus(r, s, c) = "OK" => r = "OK")
BY DEF ResultStatus, TempStatus

(* The implicit keep is skipped for a temporary failure.                   *)
LEMMA KeepFinalizeSkipAcc ==
  ASSUME Base, Base', AccInv, KeepFinalizeSkip, UNCHANGED ldaVars
  PROVE  AccInv'
<1>1. /\ phase = "finalize" /\ UNCHANGED <<resultVars, ldaVars, ax, kx, rx, equiv, es, stored, sent>>
      /\ loc' = [loc EXCEPT !.ret = ResultStatus(@, rx.status, rx.committed)]
      /\ phase' = "finish" /\ rx.status # "OK"
  BY DEF KeepFinalizeSkip, worldVars, SkipKeep, TempStatus
<1>2. drv = "finishing"
  BY <1>1 DEF Base, TempInv, CallOK
<1>3. loc'.ret \notin {"OK", "FAILURE"}
  <2>1. loc'.ret = ResultStatus(loc.ret, rx.status, rx.committed)
    BY <1>1, Types DEF Loc
  <2>2. QED BY <1>1, <2>1, ResultStatusKept
<1>4. CallStatusOK'
  BY <1>1, <1>2, <1>3 DEF CallStatusOK, ldaVars
<1>5. Settled(loc'.ret)
  BY <1>3 DEF Settled
<1>6. \A i \in 1 .. Len(ax) : ax[i].state = FINALIZED
  BY <1>1 DEF Base, SoundInv, PhaseOK
<1>7. QED BY <1>1, <1>2, <1>4, <1>5, <1>6, QuietAcc

(* The final round records the status.                                     *)
LEMMA FinishAcc ==
  ASSUME Base, AccInv, Finish, UNCHANGED ldaVars
  PROVE  AccInv'
<1>1. /\ phase = "finish" /\ UNCHANGED <<resultVars, ldaVars, ax, kx, equiv, loc, es, stored, sent>>
      /\ rx' = [rx EXCEPT !.status = loc.ret]
      /\ phase' = "return"
  BY DEF Finish, worldVars
<1>2. drv = "finishing"
  BY <1>1 DEF Base, TempInv, CallOK
<1>3. rx'.status = loc.ret /\ rx'.keepImplicit = rx.keepImplicit /\ rx'.keepStatus = rx.keepStatus
  <2>1. rx \in RExec
    BY Types
  <2>2. QED BY <1>1, <2>1 DEF RExec
<1>4. rx'.status = "OK" => rx.status = "OK"
  BY <1>1, <1>3 DEF AccInv, RunInv, CallStatusOK
<1>5. CallStatusOK'
  BY <1>1, <1>2, <1>3 DEF CallStatusOK, ldaVars
<1>6. Settled(loc'.ret)
  BY <1>1, <1>2 DEF AccInv, AccountInv, SettledOK
<1>7. QED BY <1>1, <1>2, <1>3, <1>4, <1>5, <1>6, QuietAcc

(* The implicit keep, as it may be executed while keep stores: there is    *)
(* nothing to do yet or no more, an action was equivalent, or it runs.     *)
Untried(r, k, x) == x.ax = ax /\ x.kx = k /\ x.rx = r /\ x.equiv = equiv
ByEquivalent(x) ==
  /\ x.equiv \in KeepEquivalent /\ x.equiv # 0 /\ x.ax = ax
  /\ x.kx.def = "store"
KeepRan(x) ==
  /\ KeepEquivalent = {} /\ x.equiv = 0
  /\ x.kx.def = "store" /\ x.kx.state = EXECUTED /\ ~x.kx.noop /\ x.rx.keepStatus = x.kx.status

LEMMA ImplicitKeepWays ==
  ASSUME Base, keepDef = "store", NEW r \in RExec, NEW k \in KExec,
         NEW x \in ImplicitKeepExecute(r, k)
  PROVE  /\ \/ Untried(r, k, x) /\ (~r.keepFinalizing \/ equiv # 0)
            \/ ByEquivalent(x) /\ x.kx.state = k.state
            \/ KeepRan(x)
         /\ x.rx.status = r.status /\ x.rx.keepImplicit = r.keepImplicit
<1> DEFINE r1 == [r EXCEPT !.keepSuccess = (r.status = "OK"), !.keepStatus = "OK"]
           r2(o) == [r1 EXCEPT !.executed = @ \/ (o.status = "OK"),
                               !.seenDelivery = @ \/ (o.status = "OK"),
                               !.executedDelivery = r.seenDelivery \/ (o.status = "OK"),
                               !.keepStatus = o.status]
           def == IF r.status = "OK" THEN keepDef ELSE "store"
           k1 == [k EXCEPT !.def = def]
           ax1 == IF DeferredKeep = {} THEN ax
                  ELSE [ax EXCEPT ![Max(DeferredKeep)].state = FINALIZED]
           k2(o) == [k1 EXCEPT !.state = EXECUTED, !.status = o.status,
                               !.commit = (o.status = "OK"), !.noop = o.noop]
<1>1. k1 \in KExec /\ k1.def = "store" /\ k1.state = k.state
  BY DEF KExec
<1>2. r1 \in RExec /\ r1.status = r.status /\ r1.keepImplicit = r.keepImplicit
  <2>1. (r.status = "OK") \in BOOLEAN /\ "OK" \in Status
    BY DEF Status
  <2>2. QED BY <2>1 DEF RExec
<1>3. def # "none"
  OBVIOUS
<1>4. KeepEquivalent # {} => Min(KeepEquivalent) \in KeepEquivalent /\ Min(KeepEquivalent) # 0
  <2>1. ax \in Seq(AExec)
    BY Types
  <2>2. KeepEquivalent \in SUBSET Nat /\ 0 \notin KeepEquivalent
    BY <2>1 DEF KeepEquivalent
  <2>3. QED BY <2>2, MinIsLeast
<1>5. ASSUME NEW o \in StoreOutcomes(DefaultMailbox)
      PROVE  o.status \in Status /\ o.noop = FALSE
  <2>1. o \in OutcomeSet
    BY StoreOutcomesType
  <2>2. DefaultMailbox # SourceMailbox
    BY LdaAssumption, ResultAssumption
  <2>3. \/ o = Outcome("OK", FALSE, FALSE, DefaultMailbox = DefaultMailbox)
        \/ \E s \in {"FAILURE", "TEMP_FAILURE"} : o = Outcome(s, TRUE, FALSE, FALSE)
        \/ \E s \in {"FAILURE", "TEMP_FAILURE"} : o = Outcome(s, TRUE, FALSE, DefaultMailbox = DefaultMailbox)
    BY <2>2, Zenon DEF StoreOutcomes
  <2>4. o.noop = FALSE
    BY <2>3 DEF Outcome
  <2>5. QED BY <2>1, <2>4 DEF OutcomeSet
<1>6. ASSUME NEW o \in StoreOutcomes(DefaultMailbox)
      PROVE  /\ k2(o).def = "store" /\ k2(o).state = EXECUTED /\ ~k2(o).noop
             /\ k2(o).status = o.status /\ r2(o).keepStatus = o.status
             /\ r2(o).status = r.status /\ r2(o).keepImplicit = r.keepImplicit
  <2>1. o.status \in Status /\ o.noop = FALSE /\ (o.status = "OK") \in BOOLEAN
    BY <1>5
  <2> HIDE DEF k1, r1
  <2>2. QED BY <1>1, <1>2, <2>1 DEF KExec, RExec
<1>7. \/ /\ (~r.keepFinalizing \/ equiv # 0)
         /\ x \in {[ax |-> ax, kx |-> k, rx |-> r, equiv |-> equiv, tried |-> FALSE]}
      \/ def = "none" /\ x \in {[ax |-> ax, kx |-> k1, rx |-> r1, equiv |-> 0, tried |-> FALSE]}
      \/ /\ KeepEquivalent # {}
         /\ x \in {[ax |-> ax, kx |-> k1, rx |-> r1, equiv |-> Min(KeepEquivalent), tried |-> FALSE]}
      \/ /\ KeepEquivalent = {}
         /\ x \in {[ax |-> ax1, kx |-> k2(o), rx |-> r2(o), equiv |-> 0, tried |-> o.tried]
                 : o \in StoreOutcomes(DefaultMailbox)}
  BY Zenon DEF ImplicitKeepExecute
<1> HIDE DEF r1, r2, k1, k2, ax1, def
<1>8. \/ (~r.keepFinalizing \/ equiv # 0) /\ x.ax = ax /\ x.kx = k /\ x.equiv = equiv /\ x.rx = r
      \/ KeepEquivalent # {} /\ x.ax = ax /\ x.kx = k1 /\ x.equiv = Min(KeepEquivalent) /\ x.rx = r1
      \/ /\ KeepEquivalent = {}
         /\ \E o \in StoreOutcomes(DefaultMailbox) : x.kx = k2(o) /\ x.equiv = 0 /\ x.rx = r2(o)
  BY <1>3, <1>7
<1>9. CASE (~r.keepFinalizing \/ equiv # 0) /\ x.ax = ax /\ x.kx = k /\ x.equiv = equiv /\ x.rx = r
  BY <1>9 DEF Untried
<1>10. CASE KeepEquivalent # {} /\ x.ax = ax /\ x.kx = k1 /\ x.equiv = Min(KeepEquivalent) /\ x.rx = r1
  BY <1>1, <1>2, <1>4, <1>10 DEF ByEquivalent
<1>11. CASE /\ KeepEquivalent = {}
            /\ \E o \in StoreOutcomes(DefaultMailbox) : x.kx = k2(o) /\ x.equiv = 0 /\ x.rx = r2(o)
  BY <1>6, <1>11 DEF KeepRan
<1>12. QED BY <1>8, <1>9, <1>10, <1>11

(* The actions that were equivalent to a keep.                             *)
LEMMA EquivalentFacts ==
  ASSUME Base, NEW i \in 1 .. Len(ax)
  PROVE  i \in KeepEquivalent <=> Stores(i, DefaultMailbox) /\ ax[i].state >= EXECUTED
<1>1. ax \in Seq(AExec)
  BY Types
<1>2. i \in DOMAIN ax
  BY <1>1
<1>3. QED BY <1>2 DEF KeepEquivalent, Stores

(* The execution of the implicit keep.                                     *)
LEMMA KeepExecuteAcc ==
  ASSUME Base, Base', AccInv, KeepExecute, UNCHANGED ldaVars
  PROVE  AccInv'
<1>1. PICK x \in ImplicitKeepExecute(rx, kx) :
        /\ ax' = x.ax /\ kx' = x.kx /\ rx' = x.rx /\ equiv' = x.equiv
        /\ es' = [es EXCEPT !.triedDefault = @ \/ x.tried]
  BY DEF KeepExecute
<1>2. phase = "keep" /\ phase' = "commit" /\ UNCHANGED <<resultVars, ldaVars, loc, stored, sent>>
  BY DEF KeepExecute, worldVars
<1>3. drv = "finishing" /\ drv \in Last /\ drv' = drv
  BY <1>2 DEF Base, TempInv, CallOK, Last, ldaVars
<1>4. keepDef = "store" /\ rx \in RExec /\ kx \in KExec /\ es \in ExecStatus /\ ax \in Seq(AExec)
  BY <1>3, Types DEF AccInv, ListInv, BindingOK
<1>5. /\ \A m \in Mailbox : stored[m] = 0
      /\ \A i \in 1 .. Len(ax) : ax[i].state # FINALIZED
      /\ kx.state = INIT /\ equiv = 0
  BY <1>2, <1>3, UntouchedYet
<1>6. /\ SameShape(ax')
      /\ \A i \in 1 .. Len(ax) :
              /\ ax'[i].status = ax[i].status /\ ax'[i].noop = ax[i].noop /\ ax'[i].commit = ax[i].commit
              /\ ax'[i].tr = ax[i].tr
              /\ \/ ax'[i].state = ax[i].state
                 \/ /\ ax[i].state >= EXECUTED /\ ax'[i].state = FINALIZED
                    /\ acts[ax[i].obj].def = "none"
  <2>1. KeepFinalizes(ax')
    <3>1. SoundTypes
      BY DEF Base, SoundInv
    <3>2. QED BY <1>1, <1>4, <3>1, ImplicitKeepShape
  <2>2. QED BY <1>4, <2>1, KeepFinalizesShape
<1>7. /\ \/ Untried(rx, kx, x)
         \/ ByEquivalent(x) /\ x.kx.state = kx.state
         \/ KeepRan(x)
      /\ rx'.status = rx.status /\ rx'.keepImplicit = rx.keepImplicit
  BY <1>1, <1>4, ImplicitKeepWays
<1>8. /\ ListInv' /\ AcceptedIsHandled'
      /\ UNCHANGED <<acts, list, drv, result, verdict, tries>>
      /\ Len(ax') = Len(ax) /\ Len(ax) \in Nat
      /\ \A i \in 1 .. Len(ax) : ax'[i].obj = ax[i].obj /\ ax'[i].seq = ax[i].seq /\ Current(i)
  BY <1>2, <1>3, <1>6, CallFrame
<1>9. FINALIZED >= EXECUTED /\ FINALIZED # EXECUTED /\ INIT # EXECUTED /\ INIT \in {INIT, EXECUTED}
  BY DEF FINALIZED, EXECUTED, INIT
<1>10. ASSUME NEW i \in 1 .. Len(ax) PROVE ax'[i].state >= EXECUTED <=> ax[i].state >= EXECUTED
  BY <1>6, <1>9
<1>11. RunStatusOK'
  <2>1. /\ rx.status = "OK" => \A i \in 1 .. Len(ax) : ax[i].state >= EXECUTED => ax[i].status = "OK"
        /\ rx.status = "OK" => \A i \in 1 .. Len(ax) : ax[i].state >= EXECUTED
    BY <1>2 DEF AccInv, RunInv, RunStatusOK
  <2>2. QED BY <1>2, <1>3, <1>6, <1>7, <1>8, <1>10, <2>1 DEF RunStatusOK
<1>12. CallStatusOK'
  BY <1>2, <1>3, <1>7, <1>8 DEF AccInv, RunInv, CallStatusOK
<1>13. StoresOK'
  <2> SUFFICES ASSUME NEW i \in 1 .. Len(ax)
               PROVE  /\ acts[ax[i].obj].def = "none" \/ ax[i].seq # acts[ax[i].obj].seq => ~ax'[i].tr
                      /\ acts[ax[i].obj].def \in {"none", "store"} => ~ax'[i].noop
                      /\ ~(/\ acts[ax[i].obj].def = "store" /\ ax'[i].state < EXECUTED
                           /\ ax'[i].commit /\ ax'[i].tr)
    BY <1>8 DEF StoresOK, Current
  <2>1. /\ acts[ax[i].obj].def = "none" \/ ax[i].seq # acts[ax[i].obj].seq => ~ax[i].tr
        /\ acts[ax[i].obj].def \in {"none", "store"} => ~ax[i].noop
        /\ ~(acts[ax[i].obj].def = "store" /\ ax[i].state < EXECUTED /\ ax[i].commit /\ ax[i].tr)
    BY <1>2 DEF AccInv, RunInv, StoresOK, Current
  <2>2. QED BY <1>6, <2>1
<1>14. KeepExecOK'
  <2>1. CASE Untried(rx, kx, x)
    <3>1. kx'.state = INIT /\ equiv' = 0
      BY <1>1, <1>5, <2>1 DEF Untried
    <3>2. QED BY <1>2, <1>3, <1>9, <3>1 DEF KeepExecOK
  <2>2. CASE ByEquivalent(x) /\ x.kx.state = kx.state
    <3>1. /\ kx'.state = INIT /\ kx'.def = "store" /\ equiv' # 0 /\ equiv' \in KeepEquivalent /\ ax' = ax
      BY <1>1, <1>5, <2>2 DEF ByEquivalent
    <3>2. equiv' \in 1 .. Len(ax)
      BY <1>4, <3>1 DEF KeepEquivalent
    <3>3. Stores(equiv', DefaultMailbox) /\ ax[equiv'].state >= EXECUTED
      BY <3>1, <3>2, EquivalentFacts
    <3>4. Stores(equiv, DefaultMailbox)' /\ ax'[equiv'].state >= EXECUTED
      BY <1>8, <3>1, <3>3 DEF Stores
    <3>5. QED BY <1>2, <1>3, <1>9, <3>1, <3>4 DEF KeepExecOK
  <2>3. CASE KeepRan(x)
    <3>1. /\ KeepEquivalent = {} /\ equiv' = 0
          /\ kx'.def = "store" /\ kx'.state = EXECUTED /\ ~kx'.noop /\ rx'.keepStatus = kx'.status
      BY <1>1, <2>3 DEF KeepRan
    <3>2. stored'[DefaultMailbox] = 0
      BY <1>2, <1>5, ResultAssumption
    <3>3. ASSUME NEW i \in 1 .. Len(ax'), Stores(i, DefaultMailbox)' PROVE ax'[i].state # EXECUTED
      <4>1. i \in 1 .. Len(ax) /\ Stores(i, DefaultMailbox)
        BY <1>8, <3>3 DEF Stores
      <4>2. ~(ax[i].state >= EXECUTED)
        BY <3>1, <4>1, EquivalentFacts
      <4>3. ax[i].state \in 0 .. 3
        BY <4>1, Types
      <4>4. QED BY <1>6, <4>1, <4>2, <4>3 DEF EXECUTED
    <3>4. QED BY <1>2, <1>3, <3>1, <3>2, <3>3 DEF KeepExecOK
  <2>4. QED BY <1>7, <2>1, <2>2, <2>3
<1>15. StoredOK' /\ SentOK'
  <2>1. es'.saved = es.saved
    BY <1>1, <1>4 DEF ExecStatus
  <2>2. QED BY <1>2, <1>3, <1>8, <2>1, UntouchedStill
<1>16. HandlesOK'
  <2>1. rx'.status = "OK" /\ ~rx'.keepImplicit => \E i \in 1 .. Len(ax) : Handles(i)
    BY <1>7 DEF AccInv, AccountInv, HandlesOK
  <2>2. \A i \in 1 .. Len(ax) : Handles(i) => Handles(i)'
    BY <1>6, <1>8, <1>10 DEF Handles, Current
  <2>3. \A i \in 1 .. Len(ax) : ax'[i].state = FINALIZED => acts[ax[i].obj].def = "none"
    BY <1>5, <1>6
  <2>4. \A i \in 1 .. Len(ax') :
          ax'[i].state = FINALIZED => acts'[ax'[i].obj].def \notin {"store", "redirect"}
    BY <1>8, <2>3
  <2>5. QED BY <1>8, <2>1, <2>2, <2>4 DEF HandlesOK
<1>17. SettledOK'
  BY <1>2, <1>3, <1>8 DEF SettledOK
<1>18. QED BY <1>8, <1>11, <1>12, <1>13, <1>14, <1>15, <1>16, <1>17 DEF AccInv, RunInv, AccountInv

-----------------------------------------------------------------------------
(* The commit of one action *)

(* What a commit writes: a store puts the message in its mailbox and a     *)
(* redirect forwards it, or the commit failed or had nothing to do.        *)
LEMMA CommitWrites ==
  ASSUME es \in ExecStatus, NEW a, NEW e, NEW x \in CommitEffects(a, e),
         a.def = "store" => ~e.noop
  PROVE  \/ /\ a.def = "store" /\ e.tr /\ x.st = "OK" /\ x.es.saved /\ x.sent = sent
            /\ x.stored = [stored EXCEPT ![a.tgt] = @ + 1]
         \/ /\ a.def = "redirect" /\ x.st = "OK" /\ x.es.saved = es.saved /\ x.stored = stored
            /\ x.sent = [sent EXCEPT ![a.tgt] = @ + 1]
         \/ /\ x.stored = stored /\ x.sent = sent /\ x.es.saved = es.saved
            /\ x.st = "OK" => a.def # "store" /\ (a.def = "redirect" => e.noop)
<1>1. \A st, s1, s2, s3, s4, s5 :
        /\ Effect(st, s1, s2, s3, s4, s5).st = st /\ Effect(st, s1, s2, s3, s4, s5).es = s1
        /\ Effect(st, s1, s2, s3, s4, s5).stored = s2 /\ Effect(st, s1, s2, s3, s4, s5).sent = s3
  BY DEF Effect
<1>2. \A st : /\ NoEffect(st).st = st /\ NoEffect(st).es = es
              /\ NoEffect(st).stored = stored /\ NoEffect(st).sent = sent
  BY <1>1 DEF NoEffect
<1>3. Saved.saved /\ StoreFailed.saved = es.saved /\ Forwarded.saved = es.saved
  BY DEF Saved, StoreFailed, Forwarded, ExecStatus
<1>4. CASE a.def = "store"
  <2>1. \/ x = NoEffect("FAILURE")
        \/ /\ e.tr
           /\ x = Effect("OK", Saved, [stored EXCEPT ![a.tgt] = @ + 1], sent, replies, marks)
        \/ \E st \in {"FAILURE", "TEMP_FAILURE"} :
             x = Effect(st, StoreFailed, stored, sent, replies, marks)
    BY <1>4, Zenon DEF CommitEffects, StoreCommit
  <2>2. CASE x = NoEffect("FAILURE")
    BY <1>2, <2>2
  <2>3. CASE /\ e.tr
             /\ x = Effect("OK", Saved, [stored EXCEPT ![a.tgt] = @ + 1], sent, replies, marks)
    <3> DEFINE w == [stored EXCEPT ![a.tgt] = @ + 1]
    <3>1. x = Effect("OK", Saved, w, sent, replies, marks)
      BY <2>3
    <3> HIDE DEF w
    <3>2. x.st = "OK" /\ x.es = Saved /\ x.stored = w /\ x.sent = sent
      BY <1>1, <3>1
    <3>3. QED BY <1>3, <1>4, <2>3, <3>2 DEF w
  <2>4. CASE \E st \in {"FAILURE", "TEMP_FAILURE"} :
               x = Effect(st, StoreFailed, stored, sent, replies, marks)
    BY <1>1, <1>3, <2>4
  <2>5. QED BY <2>1, <2>2, <2>3, <2>4
<1>5. CASE a.def = "redirect"
  <2>1. \/ e.noop /\ x = NoEffect("OK")
        \/ \E m : x = Effect("OK", Forwarded, stored, [sent EXCEPT ![a.tgt] = @ + 1], replies, m)
        \/ \E st \in {"FAILURE", "TEMP_FAILURE"} : x = NoEffect(st)
    BY <1>5, Zenon DEF CommitEffects, RedirectCommit
  <2>2. CASE e.noop /\ x = NoEffect("OK")
    BY <1>2, <1>5, <2>2
  <2>3. CASE \E m : x = Effect("OK", Forwarded, stored, [sent EXCEPT ![a.tgt] = @ + 1], replies, m)
    <3> DEFINE w == [sent EXCEPT ![a.tgt] = @ + 1]
    <3>1. \E m : x = Effect("OK", Forwarded, stored, w, replies, m)
      BY <2>3
    <3> HIDE DEF w
    <3>2. x.st = "OK" /\ x.es = Forwarded /\ x.stored = stored /\ x.sent = w
      BY <1>1, <3>1
    <3>3. QED BY <1>3, <1>5, <3>2 DEF w
  <2>4. CASE \E st \in {"FAILURE", "TEMP_FAILURE"} : x = NoEffect(st)
    BY <1>2, <2>4
  <2>5. QED BY <2>1, <2>2, <2>3, <2>4
<1>6. CASE a.def \notin {"store", "redirect"}
  <2>1. (\E st : x = NoEffect(st)) \/ \E n : x = Effect("OK", es, stored, sent, n, marks)
    BY <1>6, Zenon DEF CommitEffects, RejectCommit, VacationCommit
  <2>2. QED BY <1>1, <1>2, <1>6, <2>1
<1>7. QED BY <1>4, <1>5, <1>6

(* A commit without failure leaves the statuses as they are.               *)
LEMMA FinalizedOK ==
  ASSUME NEW l \in Loc, NEW keep, NEW st, NEW c, NEW f
  PROVE  /\ Finalized(l, keep, st, c, f).commitStatus = "OK" =>
              st = "OK" /\ l.commitStatus = "OK"
         /\ st = "OK" /\ l.status = "OK" => Finalized(l, keep, st, c, f).status = "OK"
<1> DEFINE bad == st # "OK" /\ l.commitStatus = "OK"
           s == IF bad /\ (~c \/ f) THEN st ELSE l.status
           cs == IF bad THEN st ELSE l.commitStatus
           Salvage(x) == IF keep /\ x = "FAILURE" THEN "KEEP_FAILED" ELSE x
<1>1. Salvage(cs) = "OK" => st = "OK" /\ l.commitStatus = "OK"
  OBVIOUS
<1>2. st = "OK" /\ l.status = "OK" => Salvage(s) = "OK"
  OBVIOUS
<1>3. Finalized(l, keep, st, c, f) = [l EXCEPT !.status = Salvage(s), !.commitStatus = Salvage(cs)]
  BY DEF Finalized
<1> DEFINE u == Salvage(s)
           v == Salvage(cs)
<1> HIDE DEF u, v, s, cs, Salvage
<1>4. Finalized(l, keep, st, c, f).status = u /\ Finalized(l, keep, st, c, f).commitStatus = v
  BY <1>3 DEF Loc, u, v
<1>5. QED BY <1>1, <1>2, <1>4 DEF u, v

(* The ways in which one action is committed or rolled back: it is stored, *)
(* it is forwarded, or the world stays as it is.                           *)
StoredNow(k) ==
  /\ acts[ax[k].obj].def = "store" /\ ax[k].tr /\ (loc.status = "OK" \/ ax[k].commit)
  /\ stored' = [stored EXCEPT ![acts[ax[k].obj].tgt] = @ + 1]
  /\ es'.saved /\ sent' = sent
SentNow(k) ==
  /\ acts[ax[k].obj].def = "redirect" /\ sent' = [sent EXCEPT ![acts[ax[k].obj].tgt] = @ + 1]
  /\ stored' = stored /\ es'.saved = es.saved
NothingNow(k) ==
  /\ stored' = stored /\ sent' = sent /\ es'.saved = es.saved
  /\ rx.status = "OK" /\ loc'.commitStatus = "OK" =>
       /\ acts[ax[k].obj].def # "store"
       /\ acts[ax[k].obj].def = "redirect" => ax[k].noop

LEMMA FinalizeActionFacts ==
  ASSUME Base, AccInv, FinalizeAction, UNCHANGED ldaVars
  PROVE  /\ phase = "commit" /\ phase' = "commit" /\ drv = "finishing"
         /\ UNCHANGED <<resultVars, ldaVars, kx, equiv>> /\ SameShape(ax')
         /\ rx'.status = rx.status /\ rx'.keepStatus = rx.keepStatus
         /\ rx'.keepImplicit = rx.keepImplicit
         /\ loc.status # "OK" => loc'.status # "OK"
         /\ loc'.commitStatus = "OK" => /\ loc.commitStatus = "OK"
                                        /\ loc.status = "OK" => loc'.status = "OK"
         /\ \E k \in 1 .. Len(ax) :
              /\ ax[k].state < FINALIZED /\ ax'[k].state = FINALIZED
              /\ ax'[k].status = ax[k].status /\ ax'[k].noop = ax[k].noop
              /\ ax'[k].commit = ax[k].commit /\ ax'[k].tr = ax[k].tr
              /\ \A i \in 1 .. Len(ax) : i # k => ax'[i] = ax[i]
              /\ StoredNow(k) \/ SentNow(k) \/ NothingNow(k)
<1> DEFINE k == NextToFinalize
           e == ax[k]
           a == acts[e.obj]
           l == [loc EXCEPT !.commitStatus = CommitStatus]
           commit == a.def # "none" /\ MayCommit(e, l)
<1>1. k \in 1 .. Len(ax) /\ k \in Pending(FINALIZED)
  BY NextToFinalizeFacts DEF FinalizeAction, Base
<1>2. PICK x \in IF commit THEN CommitEffects(a, e) ELSE {Rollback(a.def, e.tr, e.status)} :
        /\ es' = x.es /\ stored' = x.stored /\ sent' = x.sent
        /\ rx' = [rx EXCEPT !.committed = @ \/ (commit /\ x.st = "OK" /\ a.def # "discard")]
        /\ loc' = IF a.def = "none" THEN l
                  ELSE Finalized(l, a.keep, IF commit THEN x.st ELSE "OK",
                                 rx'.committed, x.es.storeFailed)
  BY Zenon DEF FinalizeAction
<1>3. ax' = [ax EXCEPT ![k].state = FINALIZED]
  BY Zenon DEF FinalizeAction
<1>4. phase = "commit" /\ phase' = "commit" /\ UNCHANGED <<resultVars, kx, equiv>>
  BY Zenon DEF FinalizeAction
<1>5. drv = "finishing"
  BY <1>4 DEF Base, TempInv, CallOK
<1>6. ax \in Seq(AExec) /\ loc \in Loc /\ es \in ExecStatus /\ rx \in RExec
  BY Types
<1>7. l \in Loc /\ l.status = loc.status /\ l.commitStatus = CommitStatus
  <2>1. CommitStatus \in Status
    BY <1>6 DEF CommitStatus, Loc, Status
  <2>2. QED BY <1>6, <2>1 DEF Loc
<1>8. rx'.status = rx.status /\ rx'.keepStatus = rx.keepStatus /\ rx'.keepImplicit = rx.keepImplicit
  <2> HIDE DEF commit, a
  <2>1. QED BY <1>2, <1>6 DEF RExec
<1> DEFINE st == IF commit THEN x.st ELSE "OK"
<1>9. /\ loc.status # "OK" => loc'.status # "OK"
      /\ loc'.commitStatus = "OK" => /\ CommitStatus = "OK"
                                     /\ a.def # "none" => st = "OK"
                                     /\ loc.status = "OK" => loc'.status = "OK"
  <2>1. CASE a.def = "none"
    BY <1>2, <1>7, <2>1
  <2>2. CASE a.def # "none"
    <3>1. loc' = Finalized(l, a.keep, st, rx'.committed, x.es.storeFailed)
      BY <1>2, <2>2
    <3> HIDE DEF l, st, a
    <3>2. loc.status # "OK" => loc'.status # "OK"
      BY <1>7, <3>1, FinalizedStatus
    <3>3. /\ loc'.commitStatus = "OK" => st = "OK" /\ CommitStatus = "OK"
          /\ st = "OK" /\ loc.status = "OK" => loc'.status = "OK"
      BY <1>7, <3>1, FinalizedOK
    <3>4. QED BY <3>2, <3>3
  <2>3. QED BY <2>1, <2>2
<1>10. loc'.commitStatus = "OK" => loc.commitStatus = "OK"
  BY <1>9, CommitStatusOK
<1>11. StoredNow(k) \/ SentNow(k) \/ NothingNow(k)
  <2>1. CASE commit
    <3>1. x \in CommitEffects(a, e)
      BY <1>2, <2>1
    <3>2. a.def = "store" => ~e.noop
      BY <1>1 DEF AccInv, RunInv, StoresOK
    <3>3. e.status = "OK" /\ (loc.status = "OK" \/ e.commit) /\ a.def # "none"
      BY <1>7, <2>1 DEF MayCommit
    <3>4. loc'.commitStatus = "OK" => x.st = "OK"
      BY <1>9, <2>1, <3>3
    <3> HIDE DEF a, e, l, commit
    <3>5. \/ /\ a.def = "store" /\ e.tr /\ x.st = "OK" /\ x.es.saved /\ x.sent = sent
             /\ x.stored = [stored EXCEPT ![a.tgt] = @ + 1]
          \/ /\ a.def = "redirect" /\ x.st = "OK" /\ x.es.saved = es.saved /\ x.stored = stored
             /\ x.sent = [sent EXCEPT ![a.tgt] = @ + 1]
          \/ /\ x.stored = stored /\ x.sent = sent /\ x.es.saved = es.saved
             /\ x.st = "OK" => a.def # "store" /\ (a.def = "redirect" => e.noop)
      BY <1>6, <3>1, <3>2, CommitWrites
    <3>6. CASE /\ a.def = "store" /\ e.tr /\ x.st = "OK" /\ x.es.saved /\ x.sent = sent
               /\ x.stored = [stored EXCEPT ![a.tgt] = @ + 1]
      <4>1. StoredNow(k)
        BY <1>2, <3>3, <3>6, Zenon DEF StoredNow, a, e
      <4>2. QED BY <4>1
    <3>7. CASE /\ a.def = "redirect" /\ x.st = "OK" /\ x.es.saved = es.saved /\ x.stored = stored
               /\ x.sent = [sent EXCEPT ![a.tgt] = @ + 1]
      <4>1. SentNow(k)
        BY <1>2, <3>7, Zenon DEF SentNow, a, e
      <4>2. QED BY <4>1
    <3>8. CASE /\ x.stored = stored /\ x.sent = sent /\ x.es.saved = es.saved
               /\ x.st = "OK" => a.def # "store" /\ (a.def = "redirect" => e.noop)
      <4>1. NothingNow(k)
        BY <1>2, <3>4, <3>8 DEF NothingNow, a, e
      <4>2. QED BY <4>1
    <3>9. QED BY <3>5, <3>6, <3>7, <3>8
  <2>2. CASE ~commit
    <3>1. x = Rollback(a.def, e.tr, e.status)
      BY <1>2, <2>2
    <3>2. x.stored = stored /\ x.sent = sent /\ x.es.saved = es.saved
      <4>1. x = Effect("OK", StoreFailed, stored, sent, replies, marks) \/ x = NoEffect("OK")
        BY <3>1 DEF Rollback
      <4>2. QED BY <1>6, <4>1 DEF NoEffect, Effect, StoreFailed, ExecStatus
    <3>3. rx.status = "OK" /\ loc'.commitStatus = "OK" => a.def = "none"
      <4> SUFFICES ASSUME rx.status = "OK", loc'.commitStatus = "OK", a.def # "none" PROVE FALSE
        OBVIOUS
      <4>1. loc.status = "OK"
        BY <1>4, <1>10 DEF AccInv, RunInv, CallStatusOK
      <4>2. e.status = "OK"
        BY <1>1, <1>4 DEF AccInv, RunInv, RunStatusOK
      <4>3. QED BY <1>7, <2>2, <4>1, <4>2 DEF MayCommit
    <3>4. NothingNow(k)
      BY <1>2, <3>2, <3>3 DEF NothingNow
    <3>5. QED BY <3>4
  <2>3. QED BY <2>1, <2>2
<1>12. ax[k].state < FINALIZED
  BY <1>1 DEF Pending
<1> HIDE DEF k, l, a, e, commit, st
<1>13. /\ SameShape(ax') /\ ax'[k].state = FINALIZED
       /\ ax'[k].status = ax[k].status /\ ax'[k].noop = ax[k].noop
       /\ ax'[k].commit = ax[k].commit /\ ax'[k].tr = ax[k].tr
       /\ \A i \in 1 .. Len(ax) : i # k => ax'[i] = ax[i]
  BY <1>1, <1>3, <1>6, OneFinalized
<1>14. QED BY <1>1, <1>4, <1>5, <1>8, <1>9, <1>10, <1>11, <1>12, <1>13

(* Two actions that store in one mailbox are a keep and a store in the     *)
(* default mailbox, and no two actions forward to one address.             *)
LEMMA StoresOfOne ==
  ASSUME Base, AccInv, NEW i \in 1 .. Len(ax), NEW k \in 1 .. Len(ax), i # k, NEW m,
         Stores(i, m), Stores(k, m), Listed(ax[i].obj), Listed(ax[k].obj)
  PROVE  m = DefaultMailbox /\ KeptTwice
<1>1. ax[i].obj \in 1 .. Len(acts) /\ ax[k].obj \in 1 .. Len(acts) /\ list \in Seq(1 .. Len(acts))
  BY Types
<1>2. ax[i].obj # ax[k].obj
  BY DEF Base, SoundInv, Distinct
<1>3. m = DefaultMailbox /\ (acts[ax[i].obj].keep \/ acts[ax[k].obj].keep)
  BY <1>1, <1>2 DEF AccInv, ListInv, UniqueOK, Stores, TriesDeliver
<1>4. ~(acts[ax[i].obj].keep /\ acts[ax[k].obj].keep)
  BY <1>2, OneKeepListed
<1>5. ASSUME NEW o, NEW p, Listed(o), Listed(p), acts[o].keep, ~acts[p].keep,
             acts[o].def = "store", acts[p].def = "store", acts[p].tgt = DefaultMailbox
      PROVE  KeptTwice
  <2>1. PICK b \in 1 .. Len(list) : list[b] = o
    BY <1>5 DEF Listed
  <2>2. PICK c \in 1 .. Len(list) : list[c] = p
    BY <1>5 DEF Listed
  <2>3. b \in DOMAIN list /\ c \in DOMAIN list
    BY <1>1
  <2>4. QED BY <1>5, <2>1, <2>2, <2>3 DEF KeptTwice
<1>6. QED BY <1>3, <1>4, <1>5 DEF Stores

LEMMA ForwardsOfOne ==
  ASSUME Base, AccInv, NEW i \in 1 .. Len(ax), NEW k \in 1 .. Len(ax), NEW a,
         Forwards(i, a), Forwards(k, a)
  PROVE  i = k
<1>1. ax[i].obj \in 1 .. Len(acts) /\ ax[k].obj \in 1 .. Len(acts)
  BY Types
<1>2. ax[i].obj = ax[k].obj
  BY <1>1 DEF AccInv, ListInv, UniqueOK, Forwards, TriesDeliver
<1>3. QED BY <1>2 DEF Base, SoundInv, Distinct

(* What the world counts grows by what is committed.                       *)
LEMMA StoredGrows ==
  ASSUME Base, AccInv, NEW k \in 1 .. Len(ax), StoredNow(k) \/ SentNow(k) \/ NothingNow(k)
  PROVE  /\ \A m \in Mailbox : \/ stored'[m] = stored[m]
                               \/ /\ StoredNow(k) /\ Stores(k, m) /\ stored'[m] = stored[m] + 1
         /\ \A a \in Address : \/ sent'[a] = sent[a]
                               \/ SentNow(k) /\ Forwards(k, a) /\ sent'[a] = sent[a] + 1
         /\ StoredNow(k) => StoredSomewhere'
         /\ SentNow(k) => SentSomewhere'
         /\ StoredSomewhere => StoredSomewhere'
         /\ SentSomewhere => SentSomewhere'
<1>1. /\ stored \in [Mailbox -> Nat] /\ sent \in [Address -> Nat] /\ ax[k].obj \in 1 .. Len(acts)
  BY Types
<1>2. acts[ax[k].obj].def = "store" => acts[ax[k].obj].tgt \in Mailbox
  BY <1>1 DEF AccInv, ListInv, KeepsOK
<1>3. acts[ax[k].obj].def = "redirect" => acts[ax[k].obj].tgt \in Address
  BY <1>1 DEF Base, SoundInv, TargetsOK
<1>4. CASE StoredNow(k)
  <2>1. PICK t \in Mailbox : Stores(k, t) /\ stored' = [stored EXCEPT ![t] = @ + 1] /\ sent' = sent
    BY <1>2, <1>4 DEF StoredNow, Stores
  <2>2. \A m \in Mailbox : IF m = t THEN stored'[m] = stored[m] + 1 ELSE stored'[m] = stored[m]
    BY <1>1, <2>1
  <2>3. \A m \in Mailbox : stored[m] \in Nat
    BY <1>1
  <2>4. ~SentNow(k)
    BY <1>4 DEF StoredNow, SentNow
  <2>5. QED BY <1>4, <2>1, <2>2, <2>3, <2>4 DEF StoredSomewhere, SentSomewhere
<1>5. CASE SentNow(k)
  <2>1. PICK t \in Address : Forwards(k, t) /\ sent' = [sent EXCEPT ![t] = @ + 1] /\ stored' = stored
    BY <1>3, <1>5 DEF SentNow, Forwards
  <2>2. \A a \in Address : IF a = t THEN sent'[a] = sent[a] + 1 ELSE sent'[a] = sent[a]
    BY <1>1, <2>1
  <2>3. \A a \in Address : sent[a] \in Nat
    BY <1>1
  <2>4. ~StoredNow(k)
    BY <1>5 DEF StoredNow, SentNow
  <2>5. QED BY <1>5, <2>1, <2>2, <2>3, <2>4 DEF StoredSomewhere, SentSomewhere
<1>6. CASE NothingNow(k) /\ ~StoredNow(k) /\ ~SentNow(k)
  BY <1>6 DEF NothingNow, StoredSomewhere, SentSomewhere
<1>7. QED BY <1>4, <1>5, <1>6

(* The commit or rollback of one action.                                   *)
LEMMA FinalizeActionAcc ==
  ASSUME Base, AccInv, FinalizeAction, UNCHANGED ldaVars
  PROVE  AccInv'
<1>1. /\ phase = "commit" /\ phase' = "commit" /\ drv = "finishing"
      /\ UNCHANGED <<resultVars, ldaVars, kx, equiv>> /\ SameShape(ax')
      /\ rx'.status = rx.status /\ rx'.keepStatus = rx.keepStatus
      /\ rx'.keepImplicit = rx.keepImplicit
      /\ loc.status # "OK" => loc'.status # "OK"
      /\ loc'.commitStatus = "OK" => /\ loc.commitStatus = "OK"
                                     /\ loc.status = "OK" => loc'.status = "OK"
  BY FinalizeActionFacts
<1>2. PICK k \in 1 .. Len(ax) :
              /\ ax[k].state < FINALIZED /\ ax'[k].state = FINALIZED
              /\ ax'[k].status = ax[k].status /\ ax'[k].noop = ax[k].noop
              /\ ax'[k].commit = ax[k].commit /\ ax'[k].tr = ax[k].tr
              /\ \A i \in 1 .. Len(ax) : i # k => ax'[i] = ax[i]
              /\ StoredNow(k) \/ SentNow(k) \/ NothingNow(k)
  BY FinalizeActionFacts
<1>3. /\ ListInv' /\ AcceptedIsHandled'
      /\ UNCHANGED <<acts, list, drv, result, verdict, tries>>
      /\ Len(ax') = Len(ax) /\ Len(ax) \in Nat
      /\ \A i \in 1 .. Len(ax) : /\ ax'[i].obj = ax[i].obj /\ ax'[i].seq = ax[i].seq
                                 /\ Current(i) /\ Listed(ax[i].obj) /\ ax[i].obj \in 1 .. Len(acts)
  BY <1>1, CallFrame
<1>4. drv \in Last /\ drv' = "finishing"
  BY <1>1, <1>3 DEF Last
<1>5. /\ \A i \in 1 .. Len(ax) : ax[i].state \in 0 .. 3
      /\ stored \in [Mailbox -> Nat] /\ sent \in [Address -> Nat] /\ tries \in Nat
      /\ DefaultMailbox \in Mailbox
  BY Types, ResultAssumption
<1>6. /\ \A m \in Mailbox : \/ stored'[m] = stored[m]
                            \/ /\ StoredNow(k) /\ Stores(k, m) /\ stored'[m] = stored[m] + 1
      /\ \A a \in Address : \/ sent'[a] = sent[a]
                            \/ SentNow(k) /\ Forwards(k, a) /\ sent'[a] = sent[a] + 1
      /\ StoredNow(k) => StoredSomewhere'
      /\ SentNow(k) => SentSomewhere'
      /\ StoredSomewhere => StoredSomewhere'
      /\ SentSomewhere => SentSomewhere'
  BY <1>2, StoredGrows
<1>7. \A i \in 1 .. Len(ax) :
        /\ ax'[i].status = ax[i].status /\ ax'[i].noop = ax[i].noop
        /\ ax'[i].commit = ax[i].commit /\ ax'[i].tr = ax[i].tr
  BY <1>2
<1>8. \A i \in 1 .. Len(ax) : /\ ax[i].state = FINALIZED => i # k /\ ax'[i].state = FINALIZED
                              /\ ax[i].state >= EXECUTED => ax'[i].state >= EXECUTED
                              /\ ax'[i].state = EXECUTED => ax[i].state = EXECUTED
                              /\ ax'[i].state < EXECUTED => ax[i].state < EXECUTED
  BY <1>2, <1>5 DEF FINALIZED, EXECUTED
<1>9. RunStatusOK'
  <2>1. rx.status = "OK" => \A i \in 1 .. Len(ax) : ax[i].state >= EXECUTED /\ ax[i].status = "OK"
    BY <1>1 DEF AccInv, RunInv, RunStatusOK
  <2>2. rx'.status = "OK" => \A i \in 1 .. Len(ax') : ax'[i].state >= EXECUTED /\ ax'[i].status = "OK"
    BY <1>1, <1>3, <1>7, <1>8, <2>1
  <2>3. QED BY <1>1, <1>4, <2>2, <1>3 DEF RunStatusOK
<1>10. CallStatusOK'
  <2>1. /\ rx.status # "OK" => loc.status # "OK"
        /\ rx.status = "OK" /\ loc.commitStatus = "OK" => loc.status = "OK"
    BY <1>1 DEF AccInv, RunInv, CallStatusOK
  <2>2. QED BY <1>1, <1>4, <2>1 DEF CallStatusOK
<1>11. StoresOK'
  <2> SUFFICES ASSUME NEW i \in 1 .. Len(ax)
               PROVE  /\ acts[ax[i].obj].def = "none" \/ ax[i].seq # acts[ax[i].obj].seq => ~ax'[i].tr
                      /\ acts[ax[i].obj].def \in {"none", "store"} => ~ax'[i].noop
                      /\ ~(/\ acts[ax[i].obj].def = "store" /\ ax'[i].state < EXECUTED
                           /\ ax'[i].commit /\ ax'[i].tr)
    BY <1>3 DEF StoresOK, Current
  <2>1. /\ acts[ax[i].obj].def = "none" \/ ax[i].seq # acts[ax[i].obj].seq => ~ax[i].tr
        /\ acts[ax[i].obj].def \in {"none", "store"} => ~ax[i].noop
        /\ ~(acts[ax[i].obj].def = "store" /\ ax[i].state < EXECUTED /\ ax[i].commit /\ ax[i].tr)
    BY <1>1 DEF AccInv, RunInv, StoresOK, Current
  <2>2. QED BY <1>7, <1>8, <2>1
<1>12. ASSUME StoredNow(k) PROVE ax[k].state = EXECUTED
  <2> SUFFICES ASSUME ax[k].state # EXECUTED PROVE FALSE
    OBVIOUS
  <2>1. ax[k].state < EXECUTED
    BY <1>2, <1>5 DEF FINALIZED, EXECUTED
  <2>2. acts[ax[k].obj].def = "store" /\ ax[k].tr /\ (loc.status = "OK" \/ ax[k].commit)
    BY <1>12 DEF StoredNow
  <2>3. loc.status # "OK"
    <3>1. loc.status = "OK" => ax[k].state >= EXECUTED
      BY <1>1 DEF Base, TurnInv, UnrunOK
    <3>2. ax[k].state \in 0 .. 3
      BY <1>5
    <3>3. QED BY <2>1, <3>1, <3>2 DEF EXECUTED
  <2>4. QED BY <1>1, <2>1, <2>2, <2>3 DEF AccInv, RunInv, StoresOK
<1>13. KeepExecOK'
  <2>1. kx.state \in {INIT, EXECUTED}
    BY <1>1 DEF AccInv, AccountInv, KeepExecOK
  <2>2. ASSUME kx.state = EXECUTED
        PROVE  /\ kx.def = "store" /\ ~kx.noop /\ equiv = 0 /\ rx.keepStatus = kx.status
               /\ stored'[DefaultMailbox] = 0
               /\ \A i \in 1 .. Len(ax) : Stores(i, DefaultMailbox) => ax'[i].state # EXECUTED
    <3>1. /\ kx.def = "store" /\ ~kx.noop /\ equiv = 0 /\ rx.keepStatus = kx.status
          /\ stored[DefaultMailbox] = 0
          /\ \A i \in 1 .. Len(ax) : Stores(i, DefaultMailbox) => ax[i].state # EXECUTED
      BY <1>1, <2>2 DEF AccInv, AccountInv, KeepExecOK
    <3>2. ~(StoredNow(k) /\ Stores(k, DefaultMailbox))
      BY <1>12, <3>1
    <3>3. QED BY <1>5, <1>6, <1>8, <3>1, <3>2
  <2>3. ASSUME equiv # 0
        PROVE  kx.def = "store" /\ Stores(equiv, DefaultMailbox) /\ ax'[equiv].state >= EXECUTED
    <3>1. equiv \in 1 .. Len(ax)
      BY <2>3, Types
    <3>2. kx.def = "store" /\ Stores(equiv, DefaultMailbox) /\ ax[equiv].state >= EXECUTED
      BY <2>3 DEF AccInv, AccountInv, KeepExecOK
    <3>3. QED BY <1>8, <3>1, <3>2
  <2>4. \A i \in 1 .. Len(ax) : Stores(i, DefaultMailbox)' <=> Stores(i, DefaultMailbox)
    BY <1>3 DEF Stores
  <2>5. UNCHANGED <<kx, equiv>> /\ rx'.keepStatus = rx.keepStatus
    BY <1>1
  <2>6. equiv # 0 => equiv \in 1 .. Len(ax)
    BY Types
  <2>7. equiv' # 0 => kx'.def = "store" /\ Stores(equiv, DefaultMailbox)' /\ ax'[equiv'].state >= EXECUTED
    BY <1>3, <2>3, <2>5, <2>6 DEF Stores
  <2>8. QED BY <1>1, <1>3, <1>4, <2>1, <2>2, <2>4, <2>5, <2>7 DEF KeepExecOK, Last
<1>14. \A m \in Mailbox : StoredBy(m) => StoredBy(m)'
  BY <1>1, <1>3, <1>8 DEF StoredBy, Stores
<1>15. StoredOK'
  <2>1. /\ es.saved => StoredSomewhere
        /\ \A m \in Mailbox :
            stored[m] # 0 => /\ es.saved /\ StoredBy(m)
                             /\ stored[m] = 1 \/ (m = DefaultMailbox /\ KeptTwice)
    BY <1>1 DEF AccInv, AccountInv, StoredOK
  <2>2. /\ es'.saved => StoredNow(k) \/ es.saved
        /\ es.saved \/ StoredNow(k) => es'.saved
    BY <1>2 DEF StoredNow, SentNow, NothingNow
  <2>3. KeptTwice' = KeptTwice
    BY <1>3 DEF KeptTwice
  <2>4. ASSUME NEW m \in Mailbox, stored'[m] # 0
        PROVE  /\ es'.saved /\ StoredBy(m)'
               /\ stored'[m] = 1 \/ (m = DefaultMailbox /\ KeptTwice)
    <3>1. CASE stored'[m] = stored[m]
      BY <1>14, <2>1, <2>2, <2>4, <3>1
    <3>2. CASE StoredNow(k) /\ Stores(k, m) /\ stored'[m] = stored[m] + 1
      <4>1. es'.saved
        BY <2>2, <3>2
      <4>2. StoredBy(m)'
        <5>1. k \in 1 .. Len(ax') /\ Stores(k, m)' /\ ax'[k].state = FINALIZED
          BY <1>2, <1>3, <3>2 DEF Stores
        <5>2. QED BY <5>1 DEF StoredBy
      <4>3. stored[m] # 0 => m = DefaultMailbox /\ KeptTwice
        <5> SUFFICES ASSUME stored[m] # 0 PROVE m = DefaultMailbox /\ KeptTwice
          OBVIOUS
        <5>1. StoredBy(m)
          BY <2>1
        <5>2. kx.state # FINALIZED
          BY <1>1 DEF AccInv, AccountInv, KeepExecOK, INIT, EXECUTED, FINALIZED
        <5>3. PICK i \in 1 .. Len(ax) : Stores(i, m) /\ ax[i].state = FINALIZED
          BY <5>1, <5>2 DEF StoredBy
        <5>4. i # k /\ Listed(ax[i].obj) /\ Listed(ax[k].obj)
          BY <1>3, <1>8, <5>3
        <5>5. QED BY <3>2, <5>3, <5>4, StoresOfOne
      <4>4. stored[m] = 0 => stored'[m] = 1
        BY <3>2
      <4>5. QED BY <4>1, <4>2, <4>3, <4>4
    <3>3. QED BY <1>6, <3>1, <3>2
  <2>5. es'.saved => StoredSomewhere'
    BY <1>6, <2>1, <2>2
  <2>6. QED BY <1>4, <2>3, <2>4, <2>5 DEF StoredOK, Last
<1>16. SentOK'
  <2> SUFFICES ASSUME NEW a \in Address
               PROVE  \/ sent'[a] < tries
                      \/ /\ sent'[a] = tries
                         /\ \E i \in 1 .. Len(ax) : Forwards(i, a) /\ ax'[i].state = FINALIZED
    BY <1>3, <1>4 DEF SentOK, Last, Forwards
  <2>1. \/ sent[a] < tries
        \/ /\ sent[a] = tries
           /\ \E i \in 1 .. Len(ax) : Forwards(i, a) /\ ax[i].state = FINALIZED
    BY DEF AccInv, AccountInv, SentOK
  <2>2. CASE sent'[a] = sent[a]
    BY <1>8, <2>1, <2>2
  <2>3. CASE SentNow(k) /\ Forwards(k, a) /\ sent'[a] = sent[a] + 1
    <3>1. ~\E i \in 1 .. Len(ax) : Forwards(i, a) /\ ax[i].state = FINALIZED
      <4> SUFFICES ASSUME NEW i \in 1 .. Len(ax), Forwards(i, a), ax[i].state = FINALIZED PROVE FALSE
        OBVIOUS
      <4>1. i = k
        BY <2>3, ForwardsOfOne
      <4>2. QED BY <1>8, <4>1
    <3>2. sent[a] < tries /\ sent[a] \in Nat
      BY <1>5, <2>1, <3>1
    <3>3. sent'[a] < tries \/ sent'[a] = tries
      BY <1>5, <2>3, <3>2
    <3>4. QED BY <1>2, <2>3, <3>3
  <2>4. QED BY <1>6, <2>2, <2>3
<1>17. HandlesOK'
  <2>1. rx'.status = "OK" /\ ~rx'.keepImplicit => \E i \in 1 .. Len(ax) : Handles(i)
    BY <1>1 DEF AccInv, AccountInv, HandlesOK
  <2>2. \A i \in 1 .. Len(ax) : Handles(i) => Handles(i)'
    BY <1>3, <1>7, <1>8 DEF Handles, Current
  <2>3. ASSUME rx.status = "OK", loc'.commitStatus = "OK", NEW i \in 1 .. Len(ax),
               ax'[i].state = FINALIZED
        PROVE  /\ acts[ax[i].obj].def = "store" => StoredSomewhere'
               /\ acts[ax[i].obj].def = "redirect" /\ ~ax[i].noop => SentSomewhere'
    <3>1. CASE i # k
      <4>1. ax[i].state = FINALIZED /\ loc.commitStatus = "OK"
        BY <1>1, <1>2, <2>3, <3>1
      <4>2. /\ acts[ax[i].obj].def = "store" => StoredSomewhere
            /\ acts[ax[i].obj].def = "redirect" /\ ~ax[i].noop => SentSomewhere
        BY <1>1, <2>3, <4>1 DEF AccInv, AccountInv, HandlesOK
      <4>3. QED BY <1>6, <4>2
    <3>2. CASE i = k
      BY <1>2, <1>6, <2>3, <3>2 DEF StoredNow, SentNow, NothingNow
    <3>3. QED BY <3>1, <3>2
  <2>4. rx'.status = "OK" /\ loc'.commitStatus = "OK" =>
          \A i \in 1 .. Len(ax') :
            ax'[i].state = FINALIZED =>
              /\ acts'[ax'[i].obj].def = "store" => StoredSomewhere'
              /\ acts'[ax'[i].obj].def = "redirect" /\ ~ax'[i].noop => SentSomewhere'
    BY <1>1, <1>3, <1>7, <2>3
  <2>5. QED BY <1>1, <1>3, <2>1, <2>2, <2>4 DEF HandlesOK
<1>18. SettledOK'
  BY <1>1, <1>3, <1>4 DEF SettledOK
<1>19. QED BY <1>3, <1>9, <1>10, <1>11, <1>13, <1>15, <1>16, <1>17, <1>18 DEF AccInv, RunInv, AccountInv

-----------------------------------------------------------------------------
(* The end of the implicit keep *)

(* The keep as it is prepared for its commit: another action was the keep, *)
(* or it was executed, and nothing was stored in the default mailbox.      *)
OtherKept(x) ==
  /\ x.equiv \in 1 .. Len(ax) /\ Stores(x.equiv, DefaultMailbox) /\ x.ax = ax
  /\ x.kx.def = "store" /\ x.kx.state \in {INIT, EXECUTED}
KeptNow(x) ==
  /\ x.equiv = 0 /\ x.kx.def = "store" /\ x.kx.state = EXECUTED /\ ~x.kx.noop
  /\ stored[DefaultMailbox] = 0
  /\ x.rx.keepStatus = "OK" => x.kx.status = "OK" /\ ~KeepRetry

LEMMA KeepPreparedWays ==
  ASSUME Base, AccInv, phase = "finalize", ~SkipKeep, NEW x \in KeepPrepared
  PROVE  /\ x.rx.status = rx.status /\ x.rx.keepImplicit = rx.keepImplicit
         /\ OtherKept(x) \/ KeptNow(x)
<1> DEFINE r0 == [rx EXCEPT !.keepFinalizing = TRUE,
                            !.keepStatus = IF KeepRetry THEN rx.status ELSE @]
           k0 == IF kx.def # "none" /\ kx.state = EXECUTED THEN NewKeepExec(kx.def) ELSE kx
<1>1. drv \in Last /\ keepDef = "store"
  <2>1. drv \in Last
    BY DEF Base, TempInv, CallOK, Last
  <2>2. QED BY <2>1 DEF AccInv, ListInv, BindingOK
<1>2. rx \in RExec /\ kx \in KExec /\ ax \in Seq(AExec) /\ equiv \in 0 .. Len(ax)
  BY Types
<1>3. /\ r0 \in RExec /\ r0.keepFinalizing = TRUE /\ r0.status = rx.status
      /\ r0.keepImplicit = rx.keepImplicit
      /\ r0.keepStatus = IF KeepRetry THEN rx.status ELSE rx.keepStatus
  BY <1>2 DEF RExec
<1>4. k0 \in KExec /\ k0.state \in {INIT, EXECUTED}
  <2>1. NewKeepExec(kx.def) \in KExec /\ NewKeepExec(kx.def).state = INIT
    BY <1>2 DEF NewKeepExec, KExec, Status, INIT
  <2>2. kx.state \in {INIT, EXECUTED}
    BY DEF AccInv, AccountInv, KeepExecOK
  <2>3. QED BY <1>2, <2>1, <2>2
<1>5. kx.state = EXECUTED =>
        /\ kx.def = "store" /\ ~kx.noop /\ equiv = 0 /\ rx.keepStatus = kx.status
        /\ stored[DefaultMailbox] = 0
  BY DEF AccInv, AccountInv, KeepExecOK
<1>6. equiv # 0 => k0 = kx /\ kx.def = "store" /\ Stores(equiv, DefaultMailbox)
  BY <1>5 DEF AccInv, AccountInv, KeepExecOK
<1>7. \/ /\ KeepRetry \/ (kx.def # "none" /\ kx.state = EXECUTED /\ ~KeepSwitch)
         /\ x \in {[ax |-> ax, kx |-> kx, rx |-> r0, equiv |-> equiv, tried |-> FALSE]}
      \/ ~KeepRetry /\ x \in ImplicitKeepExecute(r0, k0)
  BY Zenon DEF KeepPrepared
<1> HIDE DEF r0, k0
<1>8. CASE /\ KeepRetry \/ (kx.def # "none" /\ kx.state = EXECUTED /\ ~KeepSwitch)
           /\ x \in {[ax |-> ax, kx |-> kx, rx |-> r0, equiv |-> equiv, tried |-> FALSE]}
  <2>1. x.kx = kx /\ x.equiv = equiv /\ x.rx = r0
    BY <1>8
  <2>2. kx.state = EXECUTED
    BY <1>8 DEF KeepRetry, SkipKeep
  <2>3. KeepRetry => rx.status # "OK"
    BY DEF KeepRetry, TempStatus
  <2>4. KeptNow(x)
    BY <1>3, <1>5, <2>1, <2>2, <2>3 DEF KeptNow
  <2>5. QED BY <1>3, <2>1, <2>4
<1>9. CASE ~KeepRetry /\ x \in ImplicitKeepExecute(r0, k0)
  <2>1. /\ \/ Untried(r0, k0, x) /\ equiv # 0
           \/ ByEquivalent(x) /\ x.kx.state = k0.state
           \/ KeepRan(x)
        /\ x.rx.status = r0.status /\ x.rx.keepImplicit = r0.keepImplicit
    BY <1>1, <1>3, <1>4, <1>9, ImplicitKeepWays
  <2>2. CASE Untried(r0, k0, x) /\ equiv # 0
    <3>1. x.equiv = equiv /\ x.kx = k0 /\ x.ax = ax
      BY <2>2 DEF Untried
    <3>2. OtherKept(x)
      BY <1>2, <1>4, <1>6, <2>2, <3>1 DEF OtherKept
    <3>3. QED BY <1>3, <2>1, <3>2
  <2>3. CASE ByEquivalent(x) /\ x.kx.state = k0.state
    <3>1. x.equiv \in KeepEquivalent /\ x.ax = ax /\ x.kx.def = "store"
      BY <2>3 DEF ByEquivalent
    <3>2. x.equiv \in 1 .. Len(ax)
      BY <1>2, <3>1 DEF KeepEquivalent
    <3>3. Stores(x.equiv, DefaultMailbox)
      BY <3>1, <3>2, EquivalentFacts
    <3>4. OtherKept(x)
      BY <1>4, <2>3, <3>1, <3>2, <3>3 DEF OtherKept
    <3>5. QED BY <1>3, <2>1, <3>4
  <2>4. CASE KeepRan(x)
    <3>1. \A i \in 1 .. Len(ax) : ~Stores(i, DefaultMailbox)
      <4> SUFFICES ASSUME NEW i \in 1 .. Len(ax), Stores(i, DefaultMailbox) PROVE FALSE
        OBVIOUS
      <4>1. ax[i].state = FINALIZED
        BY DEF Base, SoundInv, PhaseOK
      <4>2. ax[i].state >= EXECUTED
        BY <4>1 DEF FINALIZED, EXECUTED
      <4>3. QED BY <2>4, <4>2, EquivalentFacts DEF KeepRan
    <3>2. kx.state # FINALIZED
      BY DEF AccInv, AccountInv, KeepExecOK, INIT, EXECUTED, FINALIZED
    <3>3. ~StoredBy(DefaultMailbox)
      BY <3>1, <3>2 DEF StoredBy
    <3>4. drv = "finishing"
      BY DEF Base, TempInv, CallOK
    <3>5. stored[DefaultMailbox] = 0
      BY <3>3, <3>4, ResultAssumption DEF AccInv, AccountInv, StoredOK
    <3>6. KeptNow(x)
      BY <1>9, <2>4, <3>5 DEF KeptNow, KeepRan
    <3>7. QED BY <1>3, <2>1, <3>6
  <2>5. QED BY <2>1, <2>2, <2>3, <2>4
<1>10. QED BY <1>7, <1>8, <1>9

(* The steps that end the implicit keep have this in common.               *)
LEMMA KeepEndsAcc ==
  ASSUME Base, AccInv, UNCHANGED <<resultVars, ldaVars, sent>>,
         phase = "finalize", phase' = "finish", KeepFinalizes(ax'),
         rx'.status = rx.status, rx'.keepImplicit = rx.keepImplicit,
         loc'.ret = "OK" => loc.ret = "OK",
         equiv' # 0 => kx'.def = "store" /\ equiv' \in 1 .. Len(ax) /\ Stores(equiv', DefaultMailbox),
         \/ stored' = stored /\ es'.saved = es.saved
         \/ /\ stored[DefaultMailbox] = 0 /\ stored' = [stored EXCEPT ![DefaultMailbox] = @ + 1]
            /\ es'.saved /\ kx'.state = FINALIZED,
         loc'.ret = "OK" => StoredSomewhere',
         loc'.ret = "FAILURE" /\ equiv' = 0 => stored'[DefaultMailbox] > 0
  PROVE  AccInv'
<1>1. drv = "finishing"
  BY DEF Base, TempInv, CallOK
<1>2. ax \in Seq(AExec) /\ stored \in [Mailbox -> Nat] /\ DefaultMailbox \in Mailbox
  BY Types, ResultAssumption
<1>3. \A i \in 1 .. Len(ax) : ax[i].state = FINALIZED
  BY DEF Base, SoundInv, PhaseOK
<1>4. /\ SameShape(ax')
      /\ \A i \in 1 .. Len(ax) :
           /\ ax'[i].status = ax[i].status /\ ax'[i].noop = ax[i].noop /\ ax'[i].tr = ax[i].tr
           /\ ax'[i].state = FINALIZED
  BY <1>2, <1>3, KeepFinalizesShape
<1>5. /\ ListInv' /\ AcceptedIsHandled'
      /\ UNCHANGED <<acts, list, drv, result, verdict, tries>>
      /\ Len(ax') = Len(ax)
      /\ \A i \in 1 .. Len(ax) : ax'[i].obj = ax[i].obj /\ ax'[i].seq = ax[i].seq /\ Current(i)
  BY <1>1, <1>4, CallFrame
<1>6. drv' = "finishing" /\ drv' \in Last
  BY <1>1, <1>5 DEF Last
<1>7. FINALIZED >= EXECUTED /\ ~(FINALIZED < EXECUTED)
  BY DEF FINALIZED, EXECUTED
<1>8. RunStatusOK'
  <2>1. rx.status = "OK" => \A i \in 1 .. Len(ax) : ax[i].status = "OK"
    BY <1>3, <1>7 DEF AccInv, RunInv, RunStatusOK
  <2>2. QED BY <1>4, <1>5, <1>6, <1>7, <2>1 DEF RunStatusOK
<1>9. CallStatusOK'
  BY <1>6 DEF AccInv, RunInv, CallStatusOK
<1>10. StoresOK'
  <2> SUFFICES ASSUME NEW i \in 1 .. Len(ax)
               PROVE  /\ acts[ax[i].obj].def = "none" \/ ax[i].seq # acts[ax[i].obj].seq => ~ax'[i].tr
                      /\ acts[ax[i].obj].def \in {"none", "store"} => ~ax'[i].noop
                      /\ ~(ax'[i].state < EXECUTED)
    BY <1>5 DEF StoresOK, Current
  <2>1. /\ acts[ax[i].obj].def = "none" \/ ax[i].seq # acts[ax[i].obj].seq => ~ax[i].tr
        /\ acts[ax[i].obj].def \in {"none", "store"} => ~ax[i].noop
    BY DEF AccInv, RunInv, StoresOK, Current
  <2>2. QED BY <1>4, <1>7, <2>1
<1>11. KeepExecOK'
  <2>1. equiv' # 0 => Stores(equiv, DefaultMailbox)' /\ ax'[equiv'].state >= EXECUTED
    BY <1>4, <1>5, <1>7 DEF Stores
  <2>2. QED BY <1>6, <2>1 DEF KeepExecOK
<1>12. \A m \in Mailbox : StoredBy(m) => StoredBy(m)'
  <2>1. kx.state # FINALIZED
    BY DEF AccInv, AccountInv, KeepExecOK, INIT, EXECUTED, FINALIZED
  <2>2. QED BY <1>4, <1>5, <2>1 DEF StoredBy, Stores
<1>13. StoredOK'
  <2>1. /\ es.saved => StoredSomewhere
        /\ \A m \in Mailbox :
            stored[m] # 0 => /\ es.saved /\ StoredBy(m)
                             /\ stored[m] = 1 \/ (m = DefaultMailbox /\ KeptTwice)
    BY <1>1 DEF AccInv, AccountInv, StoredOK
  <2>2. KeptTwice' = KeptTwice
    BY <1>5 DEF KeptTwice
  <2>3. CASE stored' = stored /\ es'.saved = es.saved
    BY <1>6, <1>12, <2>1, <2>2, <2>3 DEF StoredOK, StoredSomewhere, Last
  <2>4. CASE /\ stored[DefaultMailbox] = 0 /\ stored' = [stored EXCEPT ![DefaultMailbox] = @ + 1]
             /\ es'.saved /\ kx'.state = FINALIZED
    <3>1. stored'[DefaultMailbox] = 1 /\ \A m \in Mailbox : m # DefaultMailbox => stored'[m] = stored[m]
      BY <1>2, <2>4
    <3>2. StoredSomewhere'
      BY <1>2, <3>1 DEF StoredSomewhere
    <3>3. StoredBy(DefaultMailbox)'
      BY <2>4 DEF StoredBy
    <3>4. \A m \in Mailbox :
            stored'[m] # 0 => /\ es'.saved /\ StoredBy(m)'
                              /\ stored'[m] = 1 \/ (m = DefaultMailbox /\ KeptTwice)
      BY <1>12, <2>1, <2>4, <3>1, <3>3
    <3>5. QED BY <1>6, <2>2, <2>4, <3>2, <3>4 DEF StoredOK, Last
  <2>5. QED BY <2>3, <2>4
<1>14. SentOK'
  <2>1. \A i \in 1 .. Len(ax) : \A a : Forwards(i, a)' <=> Forwards(i, a)
    BY <1>5 DEF Forwards
  <2>2. QED BY <1>4, <1>5, <1>6, <2>1 DEF AccInv, AccountInv, SentOK
<1>15. HandlesOK'
  <2>1. rx'.status = "OK" /\ ~rx'.keepImplicit => \E i \in 1 .. Len(ax) : Handles(i)
    BY DEF AccInv, AccountInv, HandlesOK
  <2>2. \A i \in 1 .. Len(ax) : Handles(i) => Handles(i)'
    BY <1>4, <1>5, <1>7 DEF Handles, Current
  <2>3. QED BY <1>5, <2>1, <2>2 DEF HandlesOK
<1>16. SettledOK'
  BY <1>5, <1>6 DEF SettledOK, Settled, Handled
<1>17. QED BY <1>5, <1>8, <1>9, <1>10, <1>11, <1>13, <1>14, <1>15, <1>16 DEF AccInv, RunInv, AccountInv

(* Another action was the keep: its success is that of a store.            *)
LEMMA KeepByOtherAcc ==
  ASSUME Base, AccInv, KeepByOther, UNCHANGED ldaVars
  PROVE  AccInv'
<1>1. PICK x \in KeepPrepared :
        /\ x.kx.def = "none" \/ x.equiv # 0
        /\ LET ret == IF x.kx.def = "none" THEN x.rx.keepStatus ELSE x.ax[x.equiv].status
           IN  loc' = [loc EXCEPT !.ret = ResultStatus(@, ret, rx.committed)]
        /\ phase' = IF x.kx.def # "none" /\ x.ax[x.equiv].state < FINALIZED
                    THEN "panic" ELSE "finish"
        /\ ax' = x.ax /\ kx' = x.kx /\ rx' = x.rx /\ equiv' = x.equiv
        /\ es' = [es EXCEPT !.triedDefault = @ \/ x.tried, !.storeFailed = @ \/ SwitchFailed]
  BY Zenon DEF KeepByOther
<1>2. phase = "finalize" /\ ~SkipKeep /\ UNCHANGED <<resultVars, stored, sent>>
  BY DEF KeepByOther, worldVars
<1>3. x.rx.status = rx.status /\ x.rx.keepImplicit = rx.keepImplicit /\ OtherKept(x)
  <2>1. ~KeptNow(x)
    BY <1>1 DEF KeptNow
  <2>2. QED BY <1>2, <2>1, KeepPreparedWays
<1>4. /\ equiv' \in 1 .. Len(ax) /\ equiv' # 0 /\ Stores(equiv', DefaultMailbox) /\ ax' = ax
      /\ kx'.def = "store"
  BY <1>1, <1>3 DEF OtherKept
<1>5. ax[equiv'].state = FINALIZED
  BY <1>2, <1>4 DEF Base, SoundInv, PhaseOK
<1>6. phase' = "finish"
  BY <1>1, <1>4, <1>5 DEF FINALIZED
<1> DEFINE ret == IF x.kx.def = "none" THEN x.rx.keepStatus ELSE x.ax[x.equiv].status
           st == ResultStatus(loc.ret, ret, rx.committed)
<1>7. loc' = [loc EXCEPT !.ret = st]
  BY Zenon, <1>1
<1>8. st = "OK" => loc.ret = "OK"
  <2> HIDE DEF ret
  <2>1. QED BY ResultStatusKept
<1> HIDE DEF st
<1>9. loc'.ret = st /\ es'.saved = es.saved
  BY <1>1, <1>7, Types DEF Loc, ExecStatus
<1>10. loc'.ret = "OK" => StoredSomewhere
  <2> SUFFICES ASSUME loc.ret = "OK" PROVE StoredSomewhere
    BY <1>8, <1>9
  <2>1. rx.status = "OK"
    BY <1>2 DEF AccInv, RunInv, CallStatusOK
  <2>2. QED BY <1>2, <1>4, <1>5, <2>1 DEF AccInv, AccountInv, HandlesOK, Stores
<1>11. StoredSomewhere => StoredSomewhere'
  BY <1>2 DEF StoredSomewhere
<1>12. KeepFinalizes(ax')
  BY <1>4 DEF KeepFinalizes
<1>13. rx'.status = rx.status /\ rx'.keepImplicit = rx.keepImplicit
  BY <1>1, <1>3
<1>14. QED BY <1>2, <1>4, <1>6, <1>8, <1>9, <1>10, <1>11, <1>12, <1>13, KeepEndsAcc

(* A failed commit is a failure, if the store is known to have failed.     *)
LEMMA FinalizedFails ==
  ASSUME NEW l \in Loc, NEW keep, NEW st, NEW c, NEW f, st # "OK", l.commitStatus = "OK", f
  PROVE  Finalized(l, keep, st, c, f).status # "OK"
<1> DEFINE bad == st # "OK" /\ l.commitStatus = "OK"
           s == IF bad /\ (~c \/ f) THEN st ELSE l.status
           cs == IF bad THEN st ELSE l.commitStatus
           Salvage(x) == IF keep /\ x = "FAILURE" THEN "KEEP_FAILED" ELSE x
<1>1. Salvage(s) # "OK"
  OBVIOUS
<1>2. Finalized(l, keep, st, c, f) = [l EXCEPT !.status = Salvage(s), !.commitStatus = Salvage(cs)]
  BY DEF Finalized
<1> DEFINE u == Salvage(s)
           v == Salvage(cs)
<1> HIDE DEF u, v, s, cs, Salvage
<1>3. Finalized(l, keep, st, c, f).status = u
  BY <1>2 DEF Loc, u, v
<1>4. QED BY <1>1, <1>3 DEF u

(* The implicit keep is committed or rolled back.                          *)
LEMMA KeepFinalizeAcc ==
  ASSUME Base, AccInv, KeepFinalize, UNCHANGED ldaVars
  PROVE  AccInv'
<1> DEFINE l(x) == [loc EXCEPT !.status = x.rx.keepStatus,
                               !.commitStatus = IF KeepRetry THEN rx.status ELSE "OK"]
           commit(x) == MayCommit(x.kx, l(x))
           committed(x, c) == rx.committed \/ (commit(x) /\ c.st = "OK")
           failed(c) == c.es.storeFailed \/ SwitchFailed
           f(x, c) == Finalized(l(x), TRUE, IF commit(x) THEN c.st ELSE "OK", committed(x, c), failed(c))
<1>1. PICK x \in KeepPrepared :
        /\ x.kx.def # "none" /\ x.equiv = 0
        /\ \E c \in IF commit(x) THEN StoreCommit(DefaultMailbox, TRUE, x.kx.noop)
                    ELSE {Rollback("store", TRUE, x.kx.status)} :
             /\ rx' = [x.rx EXCEPT !.committed = committed(x, c), !.keepStatus = f(x, c).status]
             /\ es' = [c.es EXCEPT !.triedDefault = @ \/ x.tried, !.storeFailed = failed(c)]
             /\ stored' = c.stored
             /\ loc' = [loc EXCEPT !.ret = ResultStatus(@, f(x, c).status, committed(x, c))]
        /\ ax' = x.ax
        /\ kx' = [x.kx EXCEPT !.state = FINALIZED]
        /\ equiv' = 0
        /\ phase' = IF x.kx.state < EXECUTED THEN "panic" ELSE "finish"
  BY Zenon DEF KeepFinalize
<1>2. PICK c \in IF commit(x) THEN StoreCommit(DefaultMailbox, TRUE, x.kx.noop)
                 ELSE {Rollback("store", TRUE, x.kx.status)} :
        /\ rx' = [x.rx EXCEPT !.committed = committed(x, c), !.keepStatus = f(x, c).status]
        /\ es' = [c.es EXCEPT !.triedDefault = @ \/ x.tried, !.storeFailed = failed(c)]
        /\ stored' = c.stored
        /\ loc' = [loc EXCEPT !.ret = ResultStatus(@, f(x, c).status, committed(x, c))]
  BY Zenon, <1>1
<1>3. phase = "finalize" /\ ~SkipKeep /\ UNCHANGED <<resultVars, sent>>
  BY Zenon DEF KeepFinalize
<1>4. x.rx.status = rx.status /\ x.rx.keepImplicit = rx.keepImplicit /\ KeptNow(x)
  <2>1. ~OtherKept(x)
    BY <1>1 DEF OtherKept
  <2>2. QED BY <1>3, <2>1, KeepPreparedWays
<1>5. x.kx \in KExec /\ x.rx \in RExec /\ KeepFinalizes(ax')
  BY <1>1, <1>3, KeepPreparedShape, KeepPreparedType, Types DEF Base
<1>6. loc \in Loc /\ es \in ExecStatus /\ stored \in [Mailbox -> Nat] /\ DefaultMailbox \in Mailbox
      /\ rx \in RExec
  BY Types, ResultAssumption
<1>7. phase' = "finish" /\ kx'.state = FINALIZED /\ equiv' = 0
  BY <1>1, <1>4, <1>5 DEF KeptNow, KExec, EXECUTED
<1>8. /\ l(x) \in Loc /\ l(x).status = x.rx.keepStatus
      /\ l(x).commitStatus = IF KeepRetry THEN rx.status ELSE "OK"
  BY <1>5, <1>6 DEF Loc, RExec, Status
<1>9. \/ /\ commit(x) /\ c.st = "OK" /\ c.es = Saved
         /\ c.stored = [stored EXCEPT ![DefaultMailbox] = @ + 1]
      \/ commit(x) /\ c.st # "OK" /\ c.es = StoreFailed /\ c.stored = stored
      \/ ~commit(x) /\ c.es \in {es, StoreFailed} /\ c.stored = stored
  <2>1. CASE commit(x)
    <3>1. c \in StoreCommit(DefaultMailbox, TRUE, x.kx.noop)
      BY Zenon, <1>2, <2>1
    <3> HIDE DEF commit
    <3> DEFINE w == [stored EXCEPT ![DefaultMailbox] = @ + 1]
    <3>2. \/ c = Effect("OK", Saved, w, sent, replies, marks)
          \/ \E st \in {"FAILURE", "TEMP_FAILURE"} :
               c = Effect(st, StoreFailed, stored, sent, replies, marks)
      BY <1>4, <3>1, Zenon DEF StoreCommit, KeptNow
    <3> HIDE DEF w
    <3>3. \/ c.st = "OK" /\ c.es = Saved /\ c.stored = w
          \/ c.st # "OK" /\ c.es = StoreFailed /\ c.stored = stored
      BY <3>2 DEF Effect
    <3>4. QED BY <2>1, <3>3 DEF w
  <2>2. CASE ~commit(x)
    <3>1. c = Rollback("store", TRUE, x.kx.status)
      BY Zenon, <1>2, <2>2
    <3> HIDE DEF commit
    <3>2. QED BY <2>2, <3>1 DEF Rollback, NoEffect, Effect
  <2>3. QED BY <2>1, <2>2
<1> DEFINE st == ResultStatus(loc.ret, f(x, c).status, committed(x, c))
<1>10. st = "OK" => loc.ret = "OK"
  <2> HIDE DEF f, committed
  <2>1. QED BY ResultStatusKept
<1>11. st \in {"OK", "FAILURE"} => f(x, c).status = "OK"
  <2> HIDE DEF f, committed
  <2>1. QED BY ResultStatusKept
<1>12. f(x, c).status = "OK" => commit(x) /\ c.st = "OK"
  <2> SUFFICES ASSUME f(x, c).status = "OK" PROVE commit(x) /\ c.st = "OK"
    OBVIOUS
  <2> DEFINE lx == l(x)
             s1 == IF commit(x) THEN c.st ELSE "OK"
             c1 == committed(x, c)
             f1 == failed(c)
  <2>1. Finalized(lx, TRUE, s1, c1, f1).status = "OK" /\ lx \in Loc
    BY <1>8
  <2>2. lx.status = "OK"
    <3> HIDE DEF lx, s1, c1, f1
    <3>1. QED BY <2>1, FinalizedStatus
  <2>3. x.kx.status = "OK" /\ ~KeepRetry
    BY <1>4, <1>8, <2>2 DEF KeptNow
  <2>4. commit(x) /\ lx.commitStatus = "OK"
    BY <1>8, <2>2, <2>3 DEF MayCommit
  <2>5. c.st # "OK" => f1
    BY <1>6, <1>9, <2>4 DEF StoreFailed, ExecStatus
  <2>6. s1 = c.st
    BY <2>4
  <2>7. s1 # "OK" /\ f1 => FALSE
    <3> HIDE DEF lx, s1, c1, f1, commit
    <3>1. QED BY <2>1, <2>4, FinalizedFails
  <2> HIDE DEF lx, s1, c1, f1
  <2>8. QED BY <2>4, <2>5, <2>6, <2>7
<1> HIDE DEF st, f, committed, failed, commit, l
<1>13. /\ loc'.ret = st /\ rx'.status = rx.status /\ rx'.keepImplicit = rx.keepImplicit
  <2>1. loc' = [loc EXCEPT !.ret = st]
    BY <1>2 DEF st
  <2>2. QED BY <1>2, <1>4, <1>5, <1>6, <2>1 DEF Loc, RExec
<1>14. es'.saved = c.es.saved
  <2>1. c.es \in ExecStatus
    BY <1>6, <1>9 DEF Saved, StoreFailed, ExecStatus
  <2>2. QED BY <1>2, <2>1 DEF ExecStatus
<1>15. CASE /\ commit(x) /\ c.st = "OK" /\ c.es = Saved
            /\ c.stored = [stored EXCEPT ![DefaultMailbox] = @ + 1]
  <2>1. es'.saved
    BY <1>6, <1>14, <1>15 DEF Saved, ExecStatus
  <2>2. stored[DefaultMailbox] = 0 /\ stored' = [stored EXCEPT ![DefaultMailbox] = @ + 1]
    BY <1>2, <1>4, <1>15 DEF KeptNow
  <2>3. stored'[DefaultMailbox] > 0
    BY <1>6, <2>2
  <2>4. StoredSomewhere'
    BY <1>6, <2>3 DEF StoredSomewhere
  <2>5. QED BY <1>3, <1>5, <1>7, <1>10, <1>13, <2>1, <2>2, <2>3, <2>4, KeepEndsAcc
<1>16. CASE ~(commit(x) /\ c.st = "OK") /\ c.es \in {es, StoreFailed} /\ c.stored = stored
  <2>1. es'.saved = es.saved /\ stored' = stored
    BY <1>2, <1>6, <1>14, <1>16 DEF StoreFailed, ExecStatus
  <2>2. loc'.ret \notin {"OK", "FAILURE"}
    BY <1>11, <1>12, <1>13, <1>16
  <2>3. QED BY <1>3, <1>5, <1>7, <1>13, <2>1, <2>2, KeepEndsAcc
<1>17. QED BY <1>9, <1>15, <1>16

-----------------------------------------------------------------------------
(* Together *)

LEMMA AccInvNext == Base /\ Base' /\ AccInv /\ [Next]_vars => AccInv'
<1> SUFFICES ASSUME Base, Base', AccInv, [Next]_vars PROVE AccInv'
  OBVIOUS
<1>1. CASE Opening
  BY <1>1, OpeningAcc
<1>2. CASE RunCommand
  BY <1>2, CommandAcc
<1>3. CASE RunDone \/ MultiscriptFinish
  BY <1>3, EnterAcc
<1>4. CASE ExecutionStep /\ UNCHANGED ldaVars
  <2>1. CASE ExecuteAction \/ ExecuteDone \/ KeepExecute
    BY <1>4, <2>1, ExecuteActionAcc, ExecuteDoneAcc, KeepExecuteAcc
  <2>2. CASE FinalizeAction \/ CommitDone
    BY <1>4, <2>2, FinalizeActionAcc, CommitDoneAcc
  <2>3. CASE KeepFinalizeSkip \/ KeepByOther \/ KeepFinalize \/ Finish
    BY <1>4, <2>3, KeepFinalizeSkipAcc, KeepByOtherAcc, KeepFinalizeAcc, FinishAcc
  <2>4. QED BY <1>4, <2>1, <2>2, <2>3 DEF ExecutionStep
<1>5. CASE Executed \/ Finished \/ Deliver \/ Redeliver
  BY <1>5, ExecutedAcc, FinishedAcc, DeliverAcc, RedeliverAcc
<1>6. CASE UNCHANGED vars
  <2> USE <1>6 DEF vars, resultVars, execVars, worldVars, ldaVars
  <2>1. ListInv'
    BY DEF AccInv, ListInv, ScriptOK, BindingOK, KeepsOK, UniqueOK, RanOK, HereOK, WasRun, Listed,
           Current, Discard
  <2>2. RunInv'
    BY DEF AccInv, RunInv, RunStatusOK, CallStatusOK, StoresOK, Current
  <2>3. KeepExecOK' /\ StoredOK' /\ SentOK'
    BY DEF AccInv, AccountInv, KeepExecOK, StoredOK, SentOK, StoredBy, Stores, Forwards, KeptTwice,
           StoredSomewhere, NoDoubleStore
  <2>4. HandlesOK' /\ SettledOK'
    BY DEF AccInv, AccountInv, HandlesOK, SettledOK, Handles, Current, Settled, Handled,
           StoredSomewhere, SentSomewhere, ExecutedDef, AcceptedIsHandled
  <2>5. QED BY <2>1, <2>2, <2>3, <2>4 DEF AccInv, AccountInv
<1>7. QED BY <1>1, <1>2, <1>3, <1>4, <1>5, <1>6 DEF Next, Opening

(* Only the final call meets the status of a corrupt binary, and it does   *)
(* so before it does anything else.                                        *)
LEMMA CrashNext ==
  ASSUME Base, Base', AccInv, CrashLeavesNothing, [Next]_vars
  PROVE  CrashLeavesNothing'
<1> SUFFICES ASSUME phase' = "panic"
             PROVE  /\ ~StoredSomewhere' /\ \A a \in Address : sent'[a] < tries'
                    /\ tries' = 1 => replies' = 0
  BY DEF CrashLeavesNothing
<1>1. CASE RunDone \/ MultiscriptFinish
  <2>1. UNCHANGED <<stored, sent, replies, tries>> /\ drv \in Working
    BY <1>1 DEF RunDone, MultiscriptFinish, Execute, worldVars, Working
  <2>2. \A m \in Mailbox : stored[m] = 0
    BY <2>1 DEF AccInv, AccountInv, StoredOK, Working, Last
  <2>3. \A a \in Address : sent[a] < tries
    BY <2>1 DEF AccInv, AccountInv, SentOK, Working, Last
  <2>4. tries = 1 => replies = 0
    BY <2>1 DEF Base, TurnInv, RepliesOK, Working
  <2>5. QED BY <2>1, <2>2, <2>3, <2>4 DEF StoredSomewhere
<1>2. CASE UNCHANGED <<phase, stored, sent, replies, tries>>
  BY <1>2 DEF CrashLeavesNothing, StoredSomewhere
<1>3. CASE Opening \/ RunCommand
  BY <1>2, <1>3, OpeningFacts DEF RunCommand, execVars, worldVars
<1>4. CASE ExecutionStep /\ UNCHANGED ldaVars
  <2>1. phase' # "panic"
    <3>1. CASE KeepByOther \/ KeepFinalize
      BY <1>4, <3>1, KeepByOtherSound, KeepFinalizeSound DEF Base
    <3>2. CASE KeepFinalizeSkip \/ Finish \/ ExecuteAction \/ ExecuteDone \/ KeepExecute
               \/ FinalizeAction \/ CommitDone
      BY <3>2 DEF KeepFinalizeSkip, Finish, ExecuteAction, ExecuteDone, KeepExecute, FinalizeAction,
                  CommitDone, AfterExecute
    <3>3. QED BY <1>4, <3>1, <3>2 DEF ExecutionStep
  <2>2. QED BY <2>1
<1>5. CASE Executed \/ Finished \/ Deliver \/ Redeliver
  <2>1. phase' # "panic"
    BY <1>5, Idle DEF Executed, Finished, Deliver, Redeliver
  <2>2. QED BY <2>1
<1>6. CASE UNCHANGED vars
  BY <1>2, <1>6 DEF vars, execVars, worldVars, ldaVars
<1>7. QED BY <1>1, <1>3, <1>4, <1>5, <1>6 DEF Next, Opening

(* However many scripts run, whichever calls to the outside fail and       *)
(* however often the delivery is tried again: a failure that the implicit  *)
(* keep made up for leaves the message in the default mailbox, a message   *)
(* that mail_deliver accepted was stored, forwarded, discarded or          *)
(* rejected, no mailbox gets it twice (but for KeptTwice), one try         *)
(* forwards it at most once to each address, and a crash over a corrupt    *)
(* binary has delivered nothing                                            *)
(* (sieve_result_transaction_commit_or_rollback,                           *)
(* sieve_result_implicit_keep_finalize, lda_sieve_handle_exec_status).     *)
THEOREM MessageIsAccounted == Spec => []MessageAccounted
<1>1. Base /\ AccInv /\ CrashLeavesNothing => MessageAccounted
  <2> SUFFICES ASSUME Base, AccInv, CrashLeavesNothing PROVE MessageAccounted
    OBVIOUS
  <2>1. FailureIsKept
    BY DEF AccInv, AccountInv, SettledOK, Settled, FailureIsKept
  <2>2. AcceptedIsHandled
    BY DEF AccInv, AccountInv, SettledOK
  <2>3. NoDoubleStore
    <3>1. CASE drv = "done"
      BY <3>1 DEF AccInv, AccountInv, StoredOK
    <3>2. CASE drv \in {"finishing", "deliver"}
      <4> SUFFICES ASSUME NEW m \in Mailbox
                   PROVE  stored[m] <= 1 \/ (m = DefaultMailbox /\ KeptTwice)
        BY DEF NoDoubleStore
      <4>1. stored[m] \in {0, 1} \/ (m = DefaultMailbox /\ KeptTwice)
        BY <3>2 DEF AccInv, AccountInv, StoredOK
      <4>2. QED BY <4>1
    <3>3. CASE drv \notin Last
      BY <3>3 DEF AccInv, AccountInv, StoredOK, NoDoubleStore
    <3>4. QED BY <3>1, <3>2, <3>3 DEF Last
  <2>4. ForwardedOncePerTry
    <3> SUFFICES ASSUME NEW a \in Address PROVE sent[a] <= tries
      BY DEF ForwardedOncePerTry
    <3>1. sent[a] < tries \/ sent[a] = tries
      BY DEF AccInv, AccountInv, SentOK
    <3>2. sent[a] \in Nat /\ tries \in Nat
      BY Types
    <3>3. QED BY <3>1, <3>2
  <2>5. QED BY <2>1, <2>2, <2>3, <2>4 DEF MessageAccounted
<1>2. Init => Base /\ AccInv /\ CrashLeavesNothing
  <2>1. Init => phase = "idle"
    BY DEF Init, ExecutionInit
  <2>2. QED BY <2>1, TempInvInit, SoundInvInit, TurnInvInit, AccInit DEF Base, CrashLeavesNothing
<1>3. Base /\ AccInv /\ CrashLeavesNothing /\ [Next]_vars => Base' /\ AccInv' /\ CrashLeavesNothing'
  <2> SUFFICES ASSUME Base, AccInv, CrashLeavesNothing, [Next]_vars
               PROVE  Base' /\ AccInv' /\ CrashLeavesNothing'
    OBVIOUS
  <2>1. TempInv' /\ SoundInv' /\ TurnInv'
    BY TempInvNext, SoundInvNext, TurnInvNext DEF Base
  <2>2. Base'
    BY <2>1 DEF Base
  <2>3. QED BY <2>2, AccInvNext, CrashNext
<1>4. QED BY <1>1, <1>2, <1>3, PTL DEF Spec
=============================================================================
