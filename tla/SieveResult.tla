----------------------------- MODULE SieveResult -----------------------------
(***************************************************************************)
(* The result of Sieve scripts: the list of actions that the commands of   *)
(* one or more scripts add to it (lib-sieve/sieve-result.c, result         *)
(* composition; the action definitions of sieve-actions.c, cmd-redirect.c, *)
(* cmd-discard.c, ext-reject.c and cmd-vacation.c).                        *)
(*                                                                         *)
(* A struct sieve_result_action is an element of acts and is referred to   *)
(* by its index, as the code refers to it by its address; list holds these *)
(* references in the order of the linked list of the result.               *)
(***************************************************************************)
EXTENDS Naturals, Sequences, FiniteSets, FiniteSetsExt

CONSTANTS
  Mailbox,          \* mailboxes a store action may name
  DefaultMailbox,   \* the mailbox of keep (SIEVE_SCRIPT_DEFAULT_MAILBOX)
  Address,          \* targets of redirect
  NoTarget,         \* target of an action without one
  MaxActions,       \* sieve_max_actions (0: no limit)
  MaxRedirects      \* sieve_max_redirects, the instance limit of redirect

ASSUME ResultAssumption ==
  /\ DefaultMailbox \in Mailbox
  /\ NoTarget \notin Mailbox \cup Address
  /\ MaxActions \in Nat
  /\ MaxRedirects \in Nat \ {0}

VARIABLES
  acts,             \* every action object of the result
  list,             \* result->actions_head ...: references into acts
  execSeq,          \* result->exec_seq: the number of executions so far
  keepDef           \* result->keep_action.def

resultVars == <<acts, list, execSeq, keepDef>>

(* Action definitions; "none" is the NULL definition of a keep that is not *)
(* bound to a store action yet.                                            *)
Def == {"none", "store", "redirect", "discard", "reject", "vacation"}
TriesDeliver  == {"store", "redirect"}
SendsResponse == {"reject", "vacation"}
MailStorage   == {"store"}

Target == Mailbox \cup Address \cup {NoTarget}

(* struct sieve_action; copy is the :copy side effect, silent a reject     *)
(* action that lost its reason.                                            *)
Action == [def : Def, tgt : Target, keep : BOOLEAN, seq : Nat,
           copy : BOOLEAN, silent : BOOLEAN]

(* sieve_action_is_executed is the negation: an action of this script.     *)
IsNew(o) == o.seq = execSeq

(* check_duplicate of the definition that a and o share.                   *)
CheckDuplicate(a, o) ==
  CASE a.def \in TriesDeliver  -> IF a.tgt = o.tgt THEN "duplicate" ELSE "no"
    [] a.def = "discard"       -> "duplicate"
    [] a.def \in SendsResponse -> IF IsNew(o) THEN "error" ELSE "duplicate"

(* A variant of CheckConflict that lets a second response pass.            *)
CheckConflictTalkative(a, o, executed) ==
  IF a.def = "reject" /\ o.def \in SendsResponse /\ ~executed THEN "error" ELSE "no"

(* check_conflict of the definition of a, against another action o; other  *)
(* tells whether o counts as executed by a preceding script.               *)
CheckConflict(a, o, executed) ==
  CASE a.def = "reject" /\ o.def \in TriesDeliver  -> IF executed THEN "no" ELSE "error"
    [] a.def = "reject" /\ o.def \in SendsResponse -> IF executed THEN "silence" ELSE "error"
    [] a.def = "vacation" /\ o.def \in SendsResponse -> IF executed THEN "skip" ELSE "error"
    [] OTHER -> "no"

(* What adding a does when the scan meets o: one iteration of the loop.    *)
Meet(a, o) ==
  IF a.keep /\ o.keep
  THEN IF o.def = "none" \/ ~IsNew(o) THEN "recycle" ELSE "merge"
  ELSE IF a.def # "none" /\ o.def = a.def
  THEN LET d == CheckDuplicate(a, o)
       IN  IF d = "error" THEN "error"
           ELSE IF d = "no" THEN "pass"
           ELSE IF a.keep THEN "takeover" ELSE "merge"
  ELSE IF a.def = "none" \/ o.def = "none" THEN "pass"
  ELSE LET mine   == CheckConflict(a, o, ~IsNew(o))
           theirs == IF IsNew(o) THEN CheckConflict(o, a, FALSE) ELSE "no"
       IN  IF mine \in {"error", "skip"} THEN mine
           ELSE IF theirs = "error" THEN "error"
           ELSE IF mine = "silence" THEN "silence" ELSE "pass"

(* Unlinking the i-th action of the list (and a form that forgets to).     *)
RemoveAtNotUnlinked(s, i) == s
RemoveAt(s, i) == [j \in 1 .. Len(s) - 1 |-> s[IF j < i THEN j ELSE j + 1]]

InstanceLimit(def) == IF def = "redirect" THEN MaxRedirects ELSE 0

(* _sieve_result_add_action: ok is FALSE for a negative return value. The  *)
(* scan stops at the first action that settles the matter; it also stops   *)
(* after a recycled keep, whose next pointer is cleared by the detachment. *)
AddAction(a) ==
  LET met    == [i \in 1 .. Len(list) |-> Meet(a, acts[list[i]])]
      stops  == {i \in DOMAIN met : met[i] \in {"recycle", "merge", "error", "skip"}}
      stop   == IF stops = {} THEN Len(list) + 1 ELSE Min(stops)
      why    == IF stops = {} THEN "end" ELSE met[stop]
      taken  == {i \in DOMAIN met : i < stop /\ met[i] = "takeover"}
      same   == {i \in DOMAIN met : i < stop /\ acts[list[i]].def = a.def}
      silent == \E i \in DOMAIN met : i < stop /\ met[i] = "silence"
      reused == IF taken # {} THEN list[Min(taken)] ELSE list[stop]
      Reuse(l) == [ok |-> TRUE, list |-> l,
                   acts |-> [acts EXCEPT ![reused] = [a EXCEPT !.copy = acts[reused].copy]]]
      Refuse(ok) == [ok |-> ok, list |-> list, acts |-> acts]
  IN  CASE why = "error" -> Refuse(FALSE)
        [] why \in {"merge", "skip"} -> Refuse(TRUE)
        [] why = "recycle" ->
             Reuse(IF taken # {} THEN RemoveAt(list, stop)
                   ELSE Append(RemoveAt(list, stop), list[stop]))
        [] why = "end" /\ taken # {} -> Reuse(list)
        [] why = "end" /\ taken = {} ->
             IF \/ MaxActions > 0 /\ Len(list) >= MaxActions
                \/ InstanceLimit(a.def) > 0 /\ Cardinality(same) >= InstanceLimit(a.def)
             THEN Refuse(FALSE)
             ELSE [ok |-> TRUE, list |-> Append(list, Len(acts) + 1),
                   acts |-> Append(acts, [a EXCEPT !.silent = silent])]

(* A command of a script, as the action it adds.                           *)
NewAction(def, tgt, copy) ==
  [def |-> def, tgt |-> tgt, keep |-> FALSE, seq |-> execSeq, copy |-> copy, silent |-> FALSE]

NewKeep ==
  [def |-> keepDef, tgt |-> DefaultMailbox, keep |-> TRUE, seq |-> execSeq,
   copy |-> FALSE, silent |-> FALSE]

(* sieve_result_create, followed by sieve_result_set_keep_action(NULL).    *)
ResultInit(def) ==
  /\ acts = <<>>
  /\ list = <<>>
  /\ execSeq = 0
  /\ keepDef = def

ResultTypeOK ==
  /\ acts \in Seq(Action)
  /\ list \in Seq(1 .. Len(acts))
  /\ execSeq \in Nat
  /\ keepDef \in {"none", "store"}

(* The linked list of actions stays a list: recycling an executed keep, or *)
(* turning a store into a keep while an older keep is on the list, never   *)
(* links one object twice, and never leaves two keeps on the list.         *)
ListConsistent ==
  \A i, j \in DOMAIN list :
    i # j => /\ list[i] # list[j]
             /\ ~(acts[list[i]].keep /\ acts[list[j]].keep)
=============================================================================
