--------------------------- MODULE LdaResultProofs ---------------------------
(***************************************************************************)
(* Proofs about LdaSieve, continued. While the scripts run, the list of    *)
(* actions stays a list, all references lead to actions, and no assertion  *)
(* of sieve-result.c fails; a delivery answers the sender at most once,    *)
(* and no discard script runs once the message was delivered.              *)
(***************************************************************************)
EXTENDS LdaSieveProofs, FiniteSetTheorems, SequenceTheorems

-----------------------------------------------------------------------------
(* The inductive invariant *)

(* Types, beyond those of StateTypeOK.                                     *)
SoundTypes ==
  /\ ResultTypeOK
  /\ ax \in Seq(AExec)
  /\ kx \in KExec
  /\ equiv \in 0 .. Len(ax)
  /\ marks \in [pending : SUBSET Address, db : SUBSET Address]
DriverTypes ==
  /\ script \in 1 .. Discard
  /\ loaded \in BOOLEAN
  /\ cmds \in 0 .. MaxCommands
  /\ verdict \in {"none", "accepted", "tempfail", "failed"}
  /\ tries \in 1 .. MaxDeliveries

(* A list of references without repetitions and with one keep at most.     *)
Consistent(l, as) ==
  \A i, j \in 1 .. Len(l) :
    i # j => l[i] # l[j] /\ ~(as[l[i]].keep /\ as[l[j]].keep)

(* A forward goes to an address.                                           *)
TargetsOK(as) == \A o \in 1 .. Len(as) : as[o].def = "redirect" => as[o].tgt \in Address

(* Every execution state is that of an action, as the action is or, for a  *)
(* keep, as it was before it was recycled; no two are of one action.       *)
RefsOK(es1, as) ==
  \A i \in 1 .. Len(es1) : /\ es1[i].obj \in 1 .. Len(as)
                           /\ es1[i].seq = as[es1[i].obj].seq \/ as[es1[i].obj].keep
Distinct(es1) == \A i, j \in 1 .. Len(es1) : i # j => es1[i].obj # es1[j].obj

(* Only the final call relies on an equivalent action, all actions are     *)
(* finalized before the keep is, and only a corrupt binary makes an        *)
(* assertion fail.                                                         *)
PhaseOK ==
  /\ equiv # 0 => drv \in {"finishing", "deliver", "done"}
  /\ phase = "finalize" => \A i \in 1 .. Len(ax) : ax[i].state = FINALIZED
  /\ phase = "panic" => drv = "finishing" /\ ms.status = "BIN_CORRUPT"

SoundInv ==
  /\ SoundTypes
  /\ DriverTypes
  /\ Consistent(list, acts)
  /\ TargetsOK(acts)
  /\ RefsOK(ax, acts)
  /\ Distinct(ax)
  /\ PhaseOK

(* An action that answers the sender: a vacation reply, or a reject that   *)
(* was not silenced.                                                       *)
Speaker(a) == a.def = "vacation" \/ (a.def = "reject" /\ ~a.silent)

(* One action of the result answers at most; what left the list of the     *)
(* result was a keep, and a keep is never an answer.                       *)
SpeakersOK(as, l) ==
  /\ \A o \in 1 .. Len(as) : as[o].keep => as[o].def \in {"none", "store"}
  /\ \A o \in 1 .. Len(as) : as[o].keep \/ \E i \in 1 .. Len(l) : l[i] = o
  /\ \A o, p \in 1 .. Len(as) : Speaker(as[o]) /\ Speaker(as[p]) => o = p

(* What was executed is older than what the script at hand adds.           *)
SeqsOK ==
  /\ \A o \in 1 .. Len(acts) : acts[o].seq <= execSeq
  /\ \A i \in 1 .. Len(ax) : ax[i].seq < execSeq

(* A reject that was silenced says nothing: once executed it is to do      *)
(* nothing, and before that it was not part of a series that succeeded.    *)
Silenced(a) == a.def = "reject" /\ a.silent
Quiet(e) ==
  /\ e.state = EXECUTED /\ e.status = "OK" => e.noop
  /\ e.state < EXECUTED => ~e.commit
SilentOK == \A i \in 1 .. Len(ax) : Silenced(acts[ax[i].obj]) => Quiet(ax[i])

(* Actions are committed before they were executed only after a failure.   *)
UnrunOK ==
  phase \in {"keep", "commit"} /\ loc.status = "OK" =>
    \A i \in 1 .. Len(ax) : ax[i].state >= EXECUTED

(* No script runs after a failed execution, and the discard script runs    *)
(* only if nothing was delivered.                                          *)
StatusOK ==
  /\ drv \in Working /\ rx.status # "OK" => ~ms.active /\ ms.status # "OK"
  /\ drv = "run" => rx.status = "OK" /\ (script = Discard => ~rx.executedDelivery)

(* The sender was answered by an action that is finalized.                 *)
RepliesOK ==
  tries = 1 =>
    \/ replies = 0
    \/ /\ replies = 1
       /\ drv \in {"finishing", "deliver", "done"}
       /\ \E i \in 1 .. Len(ax) : Speaker(acts[ax[i].obj]) /\ ax[i].state = FINALIZED

(* A delivery that was executed is recorded.                               *)
Delivers(i) ==
  /\ acts[ax[i].obj].def \in TriesDeliver
  /\ ax[i].seq = acts[ax[i].obj].seq
  /\ ax[i].state >= EXECUTED /\ ax[i].status = "OK"
DeliveryOK ==
  drv \in Working \cup {"executing"} =>
    \A i \in 1 .. Len(ax) :
      Delivers(i) => rx.executedDelivery \/ (phase = "execute" /\ rx.seenDelivery) \/ rx.status # "OK"

TurnInv ==
  /\ SpeakersOK(acts, list)
  /\ SeqsOK
  /\ SilentOK
  /\ UnrunOK
  /\ StatusOK
  /\ RepliesOK
  /\ DeliveryOK

-----------------------------------------------------------------------------
(* Lemmas about least elements and about picking from a sequence *)

(* A set of numbers has a least one.                                       *)
LEMMA LeastExists ==
  ASSUME NEW S \in SUBSET Nat, S # {}
  PROVE  \E x \in S : \A y \in S : x <= y
<1> DEFINE R == OpToRel(<, Nat)
<1>1. IsWellFoundedOn(R, Nat)
  BY NatLessThanWellFounded
<1>2. \A a, b \in Nat : <<a, b>> \in R <=> a < b
  BY DEF OpToRel
<1> HIDE DEF R
<1>3. PICK x \in S : \A y \in S : ~(<<y, x>> \in R)
  BY <1>1, WFMin
<1>4. \A y \in S : ~(y < x)
  BY <1>2, <1>3
<1>5. \A y \in S : x <= y
  BY <1>4
<1>6. QED BY <1>5

(* Min finds it.                                                           *)
LEMMA MinIsLeast ==
  ASSUME NEW S \in SUBSET Nat, S # {}
  PROVE  Min(S) \in S /\ \A y \in S : Min(S) <= y
<1>1. PICK x \in S : \A y \in S : x <= y
  BY LeastExists
<1>2. QED BY <1>1, Zenon DEF Min

(* g tells where each of the picked elements came from.                    *)
PicksBy(g, s, D) ==
  /\ g \in [1 .. Cardinality(D) -> D]
  /\ \A n \in 1 .. Cardinality(D) : Picked(s, D)[n] = s[g[n]]
  /\ \A n, k \in 1 .. Cardinality(D) : n # k => g[n] # g[k]
  /\ \A i \in D : \E n \in 1 .. Cardinality(D) : g[n] = i

(* Every rank is taken: picking from a sequence picks elements of it, each *)
(* once.                                                                   *)
LEMMA PickedElements ==
  ASSUME NEW s, NEW N \in Nat, NEW D \in SUBSET (1 .. N)
  PROVE  /\ Cardinality(D) \in Nat
         /\ DOMAIN Picked(s, D) = 1 .. Cardinality(D)
         /\ \E g : PicksBy(g, s, D)
<1> DEFINE Below(i) == {j \in D : j <= i}
           Rank == [i \in D |-> Cardinality(Below(i))]
           m == Cardinality(D)
<1>0. D \in SUBSET Int
  OBVIOUS
<1>1. IsFiniteSet(D) /\ m \in Nat
  <2>1. IsFiniteSet(1 .. N)
    BY FS_Interval
  <2>2. IsFiniteSet(D)
    BY <2>1, FS_Subset
  <2>3. QED BY <2>2, FS_CardinalityType
<1>2. ASSUME NEW i \in D
      PROVE  IsFiniteSet(Below(i)) /\ Cardinality(Below(i)) \in 1 .. m
  <2>1. IsFiniteSet(Below(i)) /\ Cardinality(Below(i)) <= m /\ Cardinality(Below(i)) \in Nat
    BY <1>1, FS_Subset, FS_CardinalityType
  <2>2. Cardinality(Below(i)) # 0
    <3>1. i \in Below(i)
      OBVIOUS
    <3>2. QED BY <2>1, <3>1, FS_EmptySet
  <2>3. QED BY <1>1, <2>1, <2>2
<1>3. ASSUME NEW i \in D, NEW j \in D, i < j
      PROVE  Cardinality(Below(i)) # Cardinality(Below(j))
  <2>1. Below(i) \in SUBSET Below(j)
    <3>1. \A k \in D : k <= i => k <= j
      BY <1>0, <1>3
    <3>2. QED BY <3>1
  <2>2. j \in Below(j) /\ j \notin Below(i)
    BY <1>0, <1>3
  <2>3. IsFiniteSet(Below(j))
    BY <1>2
  <2> HIDE DEF Below
  <2>4. Cardinality(Below(j)) = Cardinality(Below(i)) => Below(j) = Below(i)
    BY <2>1, <2>3, FS_Subset
  <2>5. QED BY <2>2, <2>4
<1>4. Rank \in Injection(D, 1 .. m)
  <2>1. Rank \in [D -> 1 .. m]
    BY <1>2
  <2>2. \A i, j \in D : i # j => Rank[i] # Rank[j]
    <3> SUFFICES ASSUME NEW i \in D, NEW j \in D, i # j PROVE Rank[i] # Rank[j]
      OBVIOUS
    <3>1. i < j \/ j < i
      OBVIOUS
    <3>2. QED BY <1>3, <3>1
  <2>3. QED BY <2>1, <2>2 DEF Injection, IsInjective
<1>5. IsFiniteSet(1 .. m) /\ Cardinality(1 .. m) = m
  BY <1>1, FS_Interval
<1> HIDE DEF Rank
<1>6. Rank \in Surjection(D, 1 .. m)
  BY <1>4, <1>5, FS_Injection
<1>7. \A n \in 1 .. m : \E i \in D : Rank[i] = n
  BY <1>6 DEF Surjection
<1>8. Picked(s, D) = [n \in 1 .. m |-> s[CHOOSE i \in D : Cardinality(Below(i)) = n]]
  BY Zenon DEF Picked
<1>9. ASSUME NEW n \in 1 .. m
      PROVE  /\ (CHOOSE i \in D : Cardinality(Below(i)) = n) \in D
             /\ Cardinality(Below(CHOOSE i \in D : Cardinality(Below(i)) = n)) = n
  <2>1. \E i \in D : Cardinality(Below(i)) = n
    BY <1>7, Zenon DEF Rank
  <2>2. QED BY <2>1, Zenon
<1> DEFINE g == [n \in 1 .. m |-> CHOOSE i \in D : Cardinality(Below(i)) = n]
<1> HIDE DEF Below
<1>10. /\ g \in [1 .. m -> D]
       /\ \A n \in 1 .. m : Cardinality(Below(g[n])) = n
       /\ \A n \in 1 .. m : Picked(s, D)[n] = s[g[n]]
  BY <1>8, <1>9
<1> HIDE DEF g
<1>11. \A n, k \in 1 .. m : n # k => g[n] # g[k]
  BY <1>10
<1>12. \A i \in D : \E n \in 1 .. m : g[n] = i
  <2> SUFFICES ASSUME NEW i \in D PROVE \E n \in 1 .. m : g[n] = i
    OBVIOUS
  <2>1. Rank[i] \in 1 .. m /\ Rank[i] = Cardinality(Below(i))
    BY <1>2 DEF Rank
  <2>2. g[Rank[i]] \in D /\ Cardinality(Below(g[Rank[i]])) = Cardinality(Below(i))
    BY <1>10, <2>1
  <2>3. \A j \in D : j # i => Cardinality(Below(j)) # Cardinality(Below(i))
    <3> SUFFICES ASSUME NEW j \in D, j # i PROVE Cardinality(Below(j)) # Cardinality(Below(i))
      OBVIOUS
    <3>1. i < j \/ j < i
      BY <1>0
    <3>2. QED BY <1>3, <3>1
  <2>4. QED BY <2>1, <2>2, <2>3
<1>13. DOMAIN Picked(s, D) = 1 .. m
  BY <1>8
<1> HIDE DEF m
<1>14. PicksBy(g, s, D)
  BY <1>10, <1>11, <1>12 DEF PicksBy, m
<1>15. QED BY <1>1, <1>13, <1>14 DEF m

-----------------------------------------------------------------------------
(* What adding an action does to the result *)

(* No action on the list is a keep.                                        *)
NoKeepListed == \A i \in 1 .. Len(list) : ~acts[list[i]].keep

(* a takes the place of the object o, which keeps its side effects.        *)
Replaced(a, o) == [acts EXCEPT ![o] = [a EXCEPT !.copy = acts[o].copy]]

(* The five ways _sieve_result_add_action may end: nothing changes, a keep *)
(* is recycled at the tail or in the place of a store, a store becomes the *)
(* keep, or the action joins the list.                                     *)
Unmoved(r) == r.acts = acts /\ r.list = list
Recycled(a, r) ==
  /\ a.keep
  /\ \E p \in 1 .. Len(list) :
       /\ acts[list[p]].keep /\ Meet(a, acts[list[p]]) = "recycle"
       /\ r.list = Append(RemoveAt(list, p), list[p])
       /\ r.acts = Replaced(a, list[p])
Moved(a, r) ==
  /\ a.keep
  /\ \E p, q \in 1 .. Len(list) :
       /\ q < p
       /\ acts[list[p]].keep /\ Meet(a, acts[list[p]]) = "recycle"
       /\ Meet(a, acts[list[q]]) = "takeover"
       /\ r.list = RemoveAt(list, p)
       /\ r.acts = Replaced(a, list[q])
Taken(a, r) ==
  /\ a.keep /\ NoKeepListed
  /\ \E q \in 1 .. Len(list) : /\ Meet(a, acts[list[q]]) = "takeover"
                              /\ r.list = list /\ r.acts = Replaced(a, list[q])
Joined(a, r) ==
  /\ \A i \in 1 .. Len(list) :
       Meet(a, acts[list[i]]) \notin {"recycle", "merge", "error", "skip", "takeover"}
  /\ r.list = Append(list, Len(acts) + 1)
  /\ r.acts = Append(acts, [a EXCEPT !.silent =
                \E i \in 1 .. Len(list) : Meet(a, acts[list[i]]) = "silence"])

(* Two keeps meet in a recycling or a merge, and only a keep takes over or *)
(* recycles.                                                               *)
LEMMA MeetKeep ==
  ASSUME NEW a, NEW o
  PROVE  /\ a.keep /\ o.keep => Meet(a, o) \in {"recycle", "merge"}
         /\ Meet(a, o) = "recycle" => a.keep /\ o.keep
         /\ Meet(a, o) = "takeover" => a.keep
<1>1. \A x, y, z : CheckConflict(x, y, z) \in {"no", "error", "silence", "skip"}
  BY DEF CheckConflict
<1>2. QED BY <1>1 DEF Meet

(* There is no other way.                                                  *)
LEMMA AddActionCases ==
  ASSUME ResultTypeOK, NEW a
  PROVE  LET r == AddAction(a)
         IN  Unmoved(r) \/ Recycled(a, r) \/ Moved(a, r) \/ Taken(a, r) \/ Joined(a, r)
<1> DEFINE met == [i \in 1 .. Len(list) |-> Meet(a, acts[list[i]])]
           stops  == {i \in DOMAIN met : met[i] \in {"recycle", "merge", "error", "skip"}}
           stop   == IF stops = {} THEN Len(list) + 1 ELSE Min(stops)
           why    == IF stops = {} THEN "end" ELSE met[stop]
           taken  == {i \in DOMAIN met : i < stop /\ met[i] = "takeover"}
           same   == {i \in DOMAIN met : i < stop /\ acts[list[i]].def = a.def}
           silent == \E i \in DOMAIN met : i < stop /\ met[i] = "silence"
           reused == IF taken # {} THEN list[Min(taken)] ELSE list[stop]
           Reuse(l) == [ok |-> TRUE, list |-> l,
                        acts |-> [acts EXCEPT ![reused] = [a EXCEPT !.copy = acts[reused].copy]]]
           Refuse(ok) == [ok |-> ok, list |-> list, acts |-> acts]
           full == \/ MaxActions > 0 /\ Len(list) >= MaxActions
                   \/ InstanceLimit(a.def) > 0 /\ Cardinality(same) >= InstanceLimit(a.def)
           New == [ok |-> TRUE, list |-> Append(list, Len(acts) + 1),
                   acts |-> Append(acts, [a EXCEPT !.silent = silent])]
           r == AddAction(a)
<1>1. r = CASE why = "error" -> Refuse(FALSE)
            [] why \in {"merge", "skip"} -> Refuse(TRUE)
            [] why = "recycle" ->
                 Reuse(IF taken # {} THEN RemoveAt(list, stop)
                       ELSE Append(RemoveAt(list, stop), list[stop]))
            [] why = "end" /\ taken # {} -> Reuse(list)
            [] why = "end" /\ taken = {} -> IF full THEN Refuse(FALSE) ELSE New
  BY Zenon DEF AddAction
<1>2. Len(list) \in Nat
  BY DEF ResultTypeOK
<1>3. DOMAIN met = 1 .. Len(list) /\ \A i \in 1 .. Len(list) : met[i] = Meet(a, acts[list[i]])
  OBVIOUS
<1> HIDE DEF met
<1>4. stops # {} => stop \in 1 .. Len(list) /\ stop \in stops
  <2>1. stops \in SUBSET Nat
    BY <1>3
  <2> HIDE DEF stops
  <2>2. stops # {} => Min(stops) \in stops
    BY <2>1, MinIsLeast
  <2>3. QED BY <1>3, <2>2 DEF stops
<1>5. taken # {} => Min(taken) \in 1 .. Len(list) /\ Min(taken) < stop /\ met[Min(taken)] = "takeover"
  <2>1. taken \in SUBSET Nat
    BY <1>3
  <2> HIDE DEF taken
  <2>2. taken # {} => Min(taken) \in taken
    BY <2>1, MinIsLeast
  <2>3. QED BY <1>3, <2>2 DEF taken
<1>6. why \in {"error", "merge", "skip", "recycle", "end"}
  BY <1>4
<1>7. stops = {} <=> why = "end"
  BY <1>4
<1> HIDE DEF stops
<1>8. CASE why \in {"error", "merge", "skip"} \/ (why = "end" /\ taken = {} /\ full)
  <2>1. \E ok : r = Refuse(ok)
    BY <1>1, <1>8
  <2>2. QED BY <2>1 DEF Unmoved
<1>9. CASE why = "recycle" /\ taken = {}
  <2>1. r = Reuse(Append(RemoveAt(list, stop), list[stop])) /\ reused = list[stop]
    BY <1>1, <1>9
  <2>2. stop \in 1 .. Len(list) /\ met[stop] = "recycle"
    BY <1>4, <1>7, <1>9
  <2>3. a.keep /\ acts[list[stop]].keep /\ Meet(a, acts[list[stop]]) = "recycle"
    BY <1>3, <2>2, MeetKeep
  <2> HIDE DEF reused, taken, stop
  <2>4. r.list = Append(RemoveAt(list, stop), list[stop]) /\ r.acts = Replaced(a, list[stop])
    BY <2>1 DEF Replaced
  <2>5. QED BY <2>2, <2>3, <2>4 DEF Recycled
<1>10. CASE why = "recycle" /\ taken # {}
  <2> DEFINE q == Min(taken)
  <2>1. r = Reuse(RemoveAt(list, stop)) /\ reused = list[q]
    BY <1>1, <1>10
  <2>2. stop \in 1 .. Len(list) /\ met[stop] = "recycle"
    BY <1>4, <1>7, <1>10
  <2>3. a.keep /\ acts[list[stop]].keep /\ Meet(a, acts[list[stop]]) = "recycle"
    BY <1>3, <2>2, MeetKeep
  <2>4. q \in 1 .. Len(list) /\ q < stop /\ Meet(a, acts[list[q]]) = "takeover"
    BY <1>3, <1>5, <1>10
  <2> HIDE DEF reused, taken, stop, q
  <2>5. r.list = RemoveAt(list, stop) /\ r.acts = Replaced(a, list[q])
    BY <2>1 DEF Replaced
  <2>6. QED BY <2>2, <2>3, <2>4, <2>5 DEF Moved
<1>11. CASE why = "end" /\ taken # {}
  <2> DEFINE q == Min(taken)
  <2>1. r = Reuse(list) /\ reused = list[q]
    BY <1>1, <1>11
  <2>2. q \in 1 .. Len(list) /\ met[q] = "takeover" /\ Meet(a, acts[list[q]]) = "takeover"
    BY <1>3, <1>5, <1>11
  <2>3. a.keep
    BY <1>3, <2>2, MeetKeep
  <2>4. NoKeepListed
    BY <1>3, <1>7, <1>11, <2>3, MeetKeep DEF NoKeepListed, stops
  <2> HIDE DEF reused, taken, stop, q
  <2>5. r.list = list /\ r.acts = Replaced(a, list[q])
    BY <2>1 DEF Replaced
  <2>6. QED BY <2>2, <2>3, <2>4, <2>5 DEF Taken
<1>12. CASE why = "end" /\ taken = {} /\ ~full
  <2>1. r = New
    BY <1>1, <1>12
  <2>2. stop = Len(list) + 1 /\ stops = {}
    BY <1>7, <1>12
  <2>3. \A i \in 1 .. Len(list) : i < stop
    BY <1>2, <2>2
  <2>4. \A i \in 1 .. Len(list) :
          Meet(a, acts[list[i]]) \notin {"recycle", "merge", "error", "skip", "takeover"}
    BY <1>3, <1>12, <2>2, <2>3 DEF stops
  <2>5. silent = \E i \in 1 .. Len(list) : Meet(a, acts[list[i]]) = "silence"
    BY <1>3, <2>3, Zenon
  <2>6. /\ r.list = Append(list, Len(acts) + 1)
        /\ r.acts = Append(acts, [a EXCEPT !.silent = silent])
    BY <2>1
  <2> HIDE DEF silent
  <2>7. QED BY <2>4, <2>5, <2>6 DEF Joined
<1>13. QED BY <1>6, <1>8, <1>9, <1>10, <1>11, <1>12

(* Unlinking leaves the other elements, each once.                         *)
LEMMA RemoveAtFacts ==
  ASSUME NEW S, NEW s \in Seq(S), NEW p \in 1 .. Len(s)
  PROVE  /\ RemoveAt(s, p) \in Seq(S)
         /\ Len(RemoveAt(s, p)) = Len(s) - 1
         /\ \A j \in 1 .. Len(s) - 1 :
              /\ (IF j < p THEN j ELSE j + 1) \in 1 .. Len(s)
              /\ RemoveAt(s, p)[j] = s[IF j < p THEN j ELSE j + 1]
              /\ (IF j < p THEN j ELSE j + 1) # p
<1> DEFINE f == [j \in 1 .. Len(s) - 1 |-> s[IF j < p THEN j ELSE j + 1]]
<1>1. Len(s) \in Nat /\ Len(s) - 1 \in Nat
  OBVIOUS
<1>2. \A j \in 1 .. Len(s) - 1 : (IF j < p THEN j ELSE j + 1) \in 1 .. Len(s)
                                 /\ (IF j < p THEN j ELSE j + 1) # p
  BY <1>1
<1>3. f \in [1 .. Len(s) - 1 -> S]
  BY <1>2
<1>4. f \in Seq(S) /\ Len(f) = Len(s) - 1
  <2>1. \E n \in Nat : f \in [1 .. n -> S]
    BY <1>1, <1>3
  <2> HIDE DEF f
  <2>2. f \in Seq(S)
    BY <2>1, SeqDef
  <2>3. DOMAIN f = 1 .. Len(s) - 1
    BY <1>3
  <2>4. QED BY <1>1, <2>2, <2>3, LenProperties
<1>5. QED BY <1>2, <1>4 DEF RemoveAt

(* What a recycled object becomes.                                         *)
LEMMA ReplacedFacts ==
  ASSUME ResultTypeOK, NEW a \in Action, NEW o \in 1 .. Len(acts)
  PROVE  /\ Replaced(a, o) \in Seq(Action)
         /\ Len(Replaced(a, o)) = Len(acts)
         /\ Replaced(a, o)[o].def = a.def /\ Replaced(a, o)[o].tgt = a.tgt
         /\ Replaced(a, o)[o].keep = a.keep /\ Replaced(a, o)[o].seq = a.seq
         /\ \A x \in 1 .. Len(acts) : x # o => Replaced(a, o)[x] = acts[x]
<1>1. acts \in Seq(Action) /\ acts[o] \in Action
  BY DEF ResultTypeOK
<1>2. [a EXCEPT !.copy = acts[o].copy] \in Action
  BY <1>1 DEF Action
<1> DEFINE b == [a EXCEPT !.copy = acts[o].copy]
<1> HIDE DEF b
<1>3. [acts EXCEPT ![o] = b] \in Seq(Action)
  BY <1>1, <1>2, ExceptSeq DEF b
<1>4. /\ Replaced(a, o) \in Seq(Action) /\ Len(Replaced(a, o)) = Len(acts)
      /\ Replaced(a, o)[o] = b
      /\ \A x \in 1 .. Len(acts) : x # o => Replaced(a, o)[x] = acts[x]
  BY <1>1, <1>2, <1>3 DEF Replaced, b
<1>5. b.def = a.def /\ b.tgt = a.tgt /\ b.keep = a.keep /\ b.seq = a.seq
  BY DEF b, Action
<1>6. QED BY <1>4, <1>5

(* What is left of the list when one action is unlinked.                   *)
LEMMA Unlinked ==
  ASSUME ResultTypeOK, Consistent(list, acts), NEW p \in 1 .. Len(list)
  PROVE  LET s == RemoveAt(list, p)
         IN  /\ s \in Seq(1 .. Len(acts)) /\ Len(s) = Len(list) - 1
             /\ \A j \in 1 .. Len(list) - 1 : /\ s[j] \in 1 .. Len(acts) /\ s[j] # list[p]
                                              /\ \E k \in 1 .. Len(list) : k # p /\ s[j] = list[k]
             /\ \A i, j \in 1 .. Len(list) - 1 : i # j => s[i] # s[j]
<1> DEFINE s == RemoveAt(list, p)
           at(j) == IF j < p THEN j ELSE j + 1
           S == 1 .. Len(acts)
<1>1. list \in Seq(S) /\ Len(list) \in Nat
  BY DEF ResultTypeOK
<1> HIDE DEF S
<1>2. /\ s \in Seq(S) /\ Len(s) = Len(list) - 1
      /\ \A j \in 1 .. Len(list) - 1 : at(j) \in 1 .. Len(list) /\ s[j] = list[at(j)] /\ at(j) # p
  <2>1. s \in Seq(S) /\ Len(s) = Len(list) - 1
    BY <1>1, RemoveAtFacts
  <2>2. \A j \in 1 .. Len(list) - 1 :
          /\ (IF j < p THEN j ELSE j + 1) \in 1 .. Len(list)
          /\ s[j] = list[IF j < p THEN j ELSE j + 1]
          /\ (IF j < p THEN j ELSE j + 1) # p
    BY <1>1, RemoveAtFacts
  <2>3. QED BY <2>1, <2>2
<1> HIDE DEF s
<1>3. ASSUME NEW j \in 1 .. Len(list) - 1
      PROVE  /\ s[j] \in S /\ s[j] # list[p]
             /\ \E k \in 1 .. Len(list) : k # p /\ s[j] = list[k]
  <2>1. at(j) \in 1 .. Len(list) /\ s[j] = list[at(j)] /\ at(j) # p
    BY <1>2
  <2> HIDE DEF at
  <2>2. QED BY <1>1, <2>1 DEF Consistent
<1>4. ASSUME NEW i \in 1 .. Len(list) - 1, NEW j \in 1 .. Len(list) - 1, i # j
      PROVE  s[i] # s[j]
  <2>1. at(i) # at(j)
    BY <1>1, <1>4
  <2>2. /\ at(i) \in 1 .. Len(list) /\ s[i] = list[at(i)]
        /\ at(j) \in 1 .. Len(list) /\ s[j] = list[at(j)]
    BY <1>2
  <2> HIDE DEF at
  <2>3. QED BY <2>1, <2>2 DEF Consistent
<1>5. QED BY <1>2, <1>3, <1>4 DEF S, s

(* A command's action leaves a well-formed result: a list of references    *)
(* without repetitions, with one keep, on which no object but a keep       *)
(* changed.                                                                *)
AddedWell(r) ==
  /\ r.acts \in Seq(Action)
  /\ r.list \in Seq(1 .. Len(r.acts))
  /\ Len(acts) <= Len(r.acts)
  /\ \A o \in 1 .. Len(acts) : r.acts[o] = acts[o] \/ r.acts[o].keep
  /\ Consistent(r.list, r.acts)
  /\ TargetsOK(r.acts)

(* A recycled keep leaves the list in order.                               *)
LEMMA RecycledWell ==
  ASSUME ResultTypeOK, Consistent(list, acts), TargetsOK(acts), NEW a \in Action,
         a.def = "redirect" => a.tgt \in Address, NEW r, Recycled(a, r)
  PROVE  AddedWell(r)
<1>1. PICK p \in 1 .. Len(list) :
       /\ acts[list[p]].keep
       /\ r.list = Append(RemoveAt(list, p), list[p])
       /\ r.acts = Replaced(a, list[p])
  BY DEF Recycled
<1> DEFINE o == list[p]
           s == RemoveAt(list, p)
<1>2. o \in 1 .. Len(acts) /\ Len(list) \in Nat /\ Len(acts) \in Nat
  BY DEF ResultTypeOK
<1>3. /\ s \in Seq(1 .. Len(acts)) /\ Len(s) = Len(list) - 1
      /\ \A j \in 1 .. Len(list) - 1 : /\ s[j] \in 1 .. Len(acts) /\ s[j] # o
                                       /\ \E k \in 1 .. Len(list) : k # p /\ s[j] = list[k]
      /\ \A i, j \in 1 .. Len(list) - 1 : i # j => s[i] # s[j]
  BY Unlinked
<1> HIDE DEF o
<1>4. /\ r.acts \in Seq(Action) /\ Len(r.acts) = Len(acts)
      /\ r.acts[o].def = a.def /\ r.acts[o].tgt = a.tgt /\ r.acts[o].keep
      /\ \A x \in 1 .. Len(acts) : x # o => r.acts[x] = acts[x]
  <2>1. a.keep
    BY DEF Recycled
  <2>2. r.acts = Replaced(a, o)
    BY <1>1 DEF o
  <2>3. /\ Replaced(a, o) \in Seq(Action) /\ Len(Replaced(a, o)) = Len(acts)
        /\ Replaced(a, o)[o].def = a.def /\ Replaced(a, o)[o].tgt = a.tgt
        /\ Replaced(a, o)[o].keep = a.keep
        /\ \A x \in 1 .. Len(acts) : x # o => Replaced(a, o)[x] = acts[x]
    BY <1>2, ReplacedFacts
  <2>4. QED BY <2>1, <2>2, <2>3
<1> HIDE DEF s
<1>5. /\ r.list \in Seq(1 .. Len(acts)) /\ Len(r.list) = Len(list)
      /\ r.list[Len(list)] = o
      /\ \A j \in 1 .. Len(list) - 1 : r.list[j] = s[j]
  BY <1>1, <1>2, <1>3 DEF s, o
<1>6. Consistent(r.list, r.acts)
  <2>1. \A k \in 1 .. Len(list) : k # p => ~acts[list[k]].keep
    BY <1>1 DEF Consistent
  <2>2. ASSUME NEW j \in 1 .. Len(list) - 1
        PROVE  r.list[j] # o /\ ~r.acts[r.list[j]].keep
    <3>1. PICK k \in 1 .. Len(list) : k # p /\ s[j] = list[k]
      BY <1>3
    <3>2. s[j] # o /\ s[j] \in 1 .. Len(acts) /\ r.list[j] = s[j]
      BY <1>3, <1>5
    <3>3. QED BY <1>4, <2>1, <3>1, <3>2
  <2>3. \A i \in 1 .. Len(list) : i = Len(list) \/ i \in 1 .. Len(list) - 1
    BY <1>2
  <2>4. \A i, j \in 1 .. Len(list) - 1 : i # j => r.list[i] # r.list[j]
    BY <1>3, <1>5
  <2>5. QED BY <1>5, <2>2, <2>3, <2>4 DEF Consistent
<1>7. TargetsOK(r.acts)
  BY <1>4 DEF TargetsOK
<1>8. QED BY <1>2, <1>4, <1>5, <1>6, <1>7 DEF AddedWell

(* The same for a keep that takes the place of a store before it,          *)
LEMMA MovedWell ==
  ASSUME ResultTypeOK, Consistent(list, acts), TargetsOK(acts), NEW a \in Action,
         a.def = "redirect" => a.tgt \in Address, NEW r, Moved(a, r)
  PROVE  AddedWell(r)
<1>1. PICK p \in 1 .. Len(list), q \in 1 .. Len(list) :
       /\ q < p
       /\ acts[list[p]].keep
       /\ r.list = RemoveAt(list, p)
       /\ r.acts = Replaced(a, list[q])
  BY DEF Moved
<1> DEFINE o == list[q]
           s == RemoveAt(list, p)
<1>2. o \in 1 .. Len(acts) /\ Len(list) \in Nat /\ Len(acts) \in Nat
  BY DEF ResultTypeOK
<1>3. /\ s \in Seq(1 .. Len(acts)) /\ Len(s) = Len(list) - 1
      /\ \A j \in 1 .. Len(list) - 1 : /\ s[j] \in 1 .. Len(acts) /\ s[j] # list[p]
                                       /\ \E k \in 1 .. Len(list) : k # p /\ s[j] = list[k]
      /\ \A i, j \in 1 .. Len(list) - 1 : i # j => s[i] # s[j]
  BY Unlinked
<1> HIDE DEF o
<1>4. /\ r.acts \in Seq(Action) /\ Len(r.acts) = Len(acts)
      /\ r.acts[o].def = a.def /\ r.acts[o].tgt = a.tgt /\ r.acts[o].keep
      /\ \A x \in 1 .. Len(acts) : x # o => r.acts[x] = acts[x]
  <2>1. a.keep
    BY DEF Moved
  <2>2. r.acts = Replaced(a, o)
    BY <1>1 DEF o
  <2>3. /\ Replaced(a, o) \in Seq(Action) /\ Len(Replaced(a, o)) = Len(acts)
        /\ Replaced(a, o)[o].def = a.def /\ Replaced(a, o)[o].tgt = a.tgt
        /\ Replaced(a, o)[o].keep = a.keep
        /\ \A x \in 1 .. Len(acts) : x # o => Replaced(a, o)[x] = acts[x]
    BY <1>2, ReplacedFacts
  <2>4. QED BY <2>1, <2>2, <2>3
<1>5. Consistent(r.list, r.acts)
  <2>1. \A k \in 1 .. Len(list) : k # p => ~acts[list[k]].keep
    BY <1>1 DEF Consistent
  <2> HIDE DEF s
  <2>2. ASSUME NEW j \in 1 .. Len(list) - 1, s[j] # o
        PROVE  ~r.acts[s[j]].keep
    <3>1. PICK k \in 1 .. Len(list) : k # p /\ s[j] = list[k]
      BY <1>3
    <3>2. s[j] \in 1 .. Len(acts)
      BY <1>3
    <3>3. QED BY <1>4, <2>1, <2>2, <3>1, <3>2
  <2>3. r.list = s
    BY <1>1 DEF s
  <2>4. Len(s) = Len(list) - 1 /\ \A i, j \in 1 .. Len(list) - 1 : i # j => s[i] # s[j]
    BY <1>3
  <2>5. QED BY <2>2, <2>3, <2>4 DEF Consistent
<1>6. TargetsOK(r.acts)
  BY <1>4 DEF TargetsOK
<1> HIDE DEF s
<1>7. r.list \in Seq(1 .. Len(r.acts))
  BY <1>1, <1>3, <1>4 DEF s
<1>8. QED BY <1>2, <1>4, <1>5, <1>6, <1>7 DEF AddedWell

(* for a store that becomes the keep,                                      *)
LEMMA TakenWell ==
  ASSUME ResultTypeOK, Consistent(list, acts), TargetsOK(acts), NEW a \in Action,
         a.def = "redirect" => a.tgt \in Address, NEW r, Taken(a, r)
  PROVE  AddedWell(r)
<1>1. PICK q \in 1 .. Len(list) : r.list = list /\ r.acts = Replaced(a, list[q])
  BY DEF Taken
<1> DEFINE o == list[q]
<1>2. o \in 1 .. Len(acts) /\ Len(list) \in Nat /\ Len(acts) \in Nat
  BY DEF ResultTypeOK
<1> HIDE DEF o
<1>3. /\ r.acts \in Seq(Action) /\ Len(r.acts) = Len(acts)
      /\ r.acts[o].def = a.def /\ r.acts[o].tgt = a.tgt /\ r.acts[o].keep
      /\ \A x \in 1 .. Len(acts) : x # o => r.acts[x] = acts[x]
  <2>1. a.keep
    BY DEF Taken
  <2>2. r.acts = Replaced(a, o)
    BY <1>1 DEF o
  <2>3. /\ Replaced(a, o) \in Seq(Action) /\ Len(Replaced(a, o)) = Len(acts)
        /\ Replaced(a, o)[o].def = a.def /\ Replaced(a, o)[o].tgt = a.tgt
        /\ Replaced(a, o)[o].keep = a.keep
        /\ \A x \in 1 .. Len(acts) : x # o => Replaced(a, o)[x] = acts[x]
    BY <1>2, ReplacedFacts
  <2>4. QED BY <2>1, <2>2, <2>3
<1>4. Consistent(r.list, r.acts)
  <2>1. \A k \in 1 .. Len(list) : list[k] \in 1 .. Len(acts) /\ ~acts[list[k]].keep
    BY DEF Taken, NoKeepListed, ResultTypeOK
  <2>2. QED BY <1>1, <1>3, <2>1 DEF Consistent
<1>5. TargetsOK(r.acts)
  BY <1>3 DEF TargetsOK
<1>6. QED BY <1>1, <1>2, <1>3, <1>4, <1>5 DEF AddedWell, ResultTypeOK

(* and for an action that joins the list.                                  *)
LEMMA JoinedWell ==
  ASSUME ResultTypeOK, Consistent(list, acts), TargetsOK(acts), NEW a \in Action,
         a.def = "redirect" => a.tgt \in Address, NEW r, Joined(a, r)
  PROVE  AddedWell(r)
<1> DEFINE b == \E i \in 1 .. Len(list) : Meet(a, acts[list[i]]) = "silence"
           c == [a EXCEPT !.silent = b]
<1>1. r.list = Append(list, Len(acts) + 1) /\ r.acts = Append(acts, c)
  BY Zenon DEF Joined
<1>2. b \in BOOLEAN
  OBVIOUS
<1> HIDE DEF b
<1>3. c \in Action /\ c.def = a.def /\ c.tgt = a.tgt /\ c.keep = a.keep
  BY <1>2 DEF Action
<1>4. /\ acts \in Seq(Action) /\ list \in Seq(1 .. Len(acts))
      /\ Len(list) \in Nat /\ Len(acts) \in Nat
  BY DEF ResultTypeOK
<1> HIDE DEF c
<1>5. /\ r.acts \in Seq(Action) /\ Len(r.acts) = Len(acts) + 1 /\ r.acts[Len(acts) + 1] = c
      /\ \A o \in 1 .. Len(acts) : r.acts[o] = acts[o]
  BY <1>1, <1>3, <1>4
<1>6. /\ r.list \in Seq(1 .. Len(acts) + 1) /\ Len(r.list) = Len(list) + 1
      /\ r.list[Len(list) + 1] = Len(acts) + 1
      /\ \A i \in 1 .. Len(list) : r.list[i] = list[i] /\ list[i] \in 1 .. Len(acts)
  <2> DEFINE S == 1 .. Len(acts) + 1
  <2>1. list \in Seq(S)
    <3>1. \A i \in 1 .. Len(list) : list[i] \in S
      BY <1>4
    <3>2. QED BY <1>4, <3>1
  <2>2. Len(acts) + 1 \in S
    BY <1>4
  <2>3. \A i \in 1 .. Len(list) : list[i] \in 1 .. Len(acts)
    BY <1>4
  <2> HIDE DEF S
  <2>4. QED BY <1>1, <1>4, <2>1, <2>2, <2>3, AppendProperties DEF S
<1>7. Consistent(r.list, r.acts)
  <2>1. \A i \in 1 .. Len(list) : ~(c.keep /\ acts[list[i]].keep)
    BY <1>3, MeetKeep DEF Joined
  <2>2. \A i \in 1 .. Len(list) + 1 : i = Len(list) + 1 \/ i \in 1 .. Len(list)
    BY <1>4
  <2>3. \A i \in 1 .. Len(list) : /\ r.list[i] # Len(acts) + 1
                                  /\ r.acts[r.list[i]] = acts[list[i]]
    BY <1>4, <1>5, <1>6
  <2>4. r.acts[r.list[Len(list) + 1]] = c
    BY <1>5, <1>6
  <2>5. QED BY <1>6, <2>1, <2>2, <2>3, <2>4 DEF Consistent
<1>8. TargetsOK(r.acts)
  BY <1>3, <1>4, <1>5 DEF TargetsOK
<1>9. QED BY <1>4, <1>5, <1>6, <1>7, <1>8 DEF AddedWell

(* Whatever a command adds, the result stays sound.                        *)
LEMMA AddActionWell ==
  ASSUME ResultTypeOK, Consistent(list, acts), TargetsOK(acts), NEW a \in Action,
         a.def = "redirect" => a.tgt \in Address
  PROVE  AddedWell(AddAction(a))
<1> DEFINE r == AddAction(a)
<1>1. Unmoved(r) \/ Recycled(a, r) \/ Moved(a, r) \/ Taken(a, r) \/ Joined(a, r)
  BY AddActionCases
<1> HIDE DEF r
<1>2. CASE Unmoved(r)
  BY <1>2 DEF Unmoved, AddedWell, ResultTypeOK, r
<1>3. QED BY <1>1, <1>2, RecycledWell, MovedWell, TakenWell, JoinedWell DEF r

-----------------------------------------------------------------------------
(* What sieve_result_execution_update does to the execution state *)

(* An execution state follows its action.                                  *)
LEMMA UpdatedType ==
  ASSUME ResultTypeOK, NEW e \in AExec, e.obj \in 1 .. Len(acts)
  PROVE  /\ Updated(e) \in AExec
         /\ Updated(e).obj = e.obj
         /\ Updated(e).seq = acts[e.obj].seq
         /\ Updated(e).seq = e.seq => Updated(e) = e
         /\ Updated(e).seq # e.seq => Updated(e).state = INIT
         /\ Updated(e).tr = e.tr /\ Updated(e).noop = e.noop /\ Updated(e).commit = e.commit
<1>1. acts[e.obj].seq \in Nat
  <2>1. acts[e.obj] \in Action
    BY DEF ResultTypeOK
  <2>2. QED BY <2>1 DEF Action
<1>2. CASE e.seq = acts[e.obj].seq
  BY <1>2 DEF Updated
<1>3. CASE e.seq # acts[e.obj].seq
  <2>1. Updated(e) = [e EXCEPT !.seq = acts[e.obj].seq, !.state = INIT]
    BY <1>3 DEF Updated
  <2>2. INIT \in 0 .. 3
    BY DEF INIT
  <2>3. Updated(e) \in AExec
    BY <1>1, <2>1, <2>2 DEF AExec
  <2>4. /\ Updated(e).obj = e.obj /\ Updated(e).seq = acts[e.obj].seq /\ Updated(e).state = INIT
        /\ Updated(e).tr = e.tr /\ Updated(e).noop = e.noop /\ Updated(e).commit = e.commit
    BY <2>1 DEF AExec
  <2>5. QED BY <1>3, <2>3, <2>4
<1>4. QED BY <1>2, <1>3

(* A new execution state.                                                  *)
LEMMA FreshExecType ==
  ASSUME ResultTypeOK, NEW o \in 1 .. Len(acts)
  PROVE  /\ FreshExec(o) \in AExec
         /\ FreshExec(o).obj = o /\ FreshExec(o).seq = acts[o].seq
         /\ FreshExec(o).state = INIT /\ FreshExec(o).commit = FALSE
         /\ FreshExec(o).tr = FALSE /\ FreshExec(o).noop = FALSE
<1>1. acts[o].seq \in Nat /\ Len(acts) \in Nat
  <2>1. acts[o] \in Action /\ Len(acts) \in Nat
    BY DEF ResultTypeOK
  <2>2. QED BY <2>1 DEF Action
<1>2. QED BY <1>1 DEF FreshExec, AExec, INIT, Status

(* Old states that are still of use come first, new ones join.             *)
LEMMA UpdatedExecutionFacts ==
  ASSUME ResultTypeOK, Consistent(list, acts), ax \in Seq(AExec), RefsOK(ax, acts), Distinct(ax)
  PROVE  LET U == UpdatedExecution
         IN  /\ U \in Seq(AExec)
             /\ \A i \in 1 .. Len(U) : \/ \E k \in 1 .. Len(ax) : U[i] = Updated(ax[k])
                                       \/ \E k \in 1 .. Len(list) : U[i] = FreshExec(list[k])
             /\ Distinct(U)
             /\ \A i \in 1 .. Len(U) : InList(U[i].obj)
             /\ \A k \in 1 .. Len(ax) : InList(ax[k].obj) => \E i \in 1 .. Len(U) : U[i] = Updated(ax[k])
             /\ \A k \in 1 .. Len(list) : \E i \in 1 .. Len(U) : U[i].obj = list[k]
             /\ \A i, j \in 1 .. Len(U) :
                  (\E k \in 1 .. Len(ax) : U[i] = Updated(ax[k])) =>
                     i <= j \/ \E k \in 1 .. Len(ax) : U[j] = Updated(ax[k])
<1> DEFINE A == {i \in DOMAIN ax : InList(ax[i].obj)}
           F == {i \in DOMAIN list : \A j \in DOMAIN ax : ax[j].obj # list[i]}
           alive == Picked(ax, A)
           fresh == Picked(list, F)
           f1 == [i \in DOMAIN alive |-> Updated(alive[i])]
           f2 == [i \in DOMAIN fresh |-> FreshExec(fresh[i])]
           m == Cardinality(A)
           n == Cardinality(F)
           U == UpdatedExecution
<1>1. U = f1 \o f2
  BY Zenon DEF UpdatedExecution
<1>2. Len(ax) \in Nat /\ DOMAIN ax = 1 .. Len(ax) /\ Len(list) \in Nat /\ DOMAIN list = 1 .. Len(list)
  BY DEF ResultTypeOK
<1>3. A \in SUBSET (1 .. Len(ax)) /\ F \in SUBSET (1 .. Len(list))
  BY <1>2
<1>4. /\ \A i \in F : \A j \in 1 .. Len(ax) : ax[j].obj # list[i]
      /\ \A i \in A : InList(ax[i].obj)
      /\ \A i \in 1 .. Len(ax) : InList(ax[i].obj) => i \in A
      /\ \A i \in 1 .. Len(list) : i \in F \/ \E j \in 1 .. Len(ax) : ax[j].obj = list[i]
      /\ \A i \in 1 .. Len(list) : InList(list[i])
  BY <1>2 DEF InList
<1> HIDE DEF A, F
<1>5. m \in Nat /\ DOMAIN alive = 1 .. m
  BY <1>2, <1>3, PickedElements
<1>6. PICK g \in [1 .. m -> A] : /\ \A i \in 1 .. m : alive[i] = ax[g[i]]
                                 /\ \A i, k \in 1 .. m : i # k => g[i] # g[k]
                                 /\ \A a \in A : \E i \in 1 .. m : g[i] = a
  <2>1. PICK g : PicksBy(g, ax, A)
    BY <1>2, <1>3, PickedElements
  <2>2. QED BY <2>1 DEF PicksBy
<1>7. n \in Nat /\ DOMAIN fresh = 1 .. n
  BY <1>2, <1>3, PickedElements
<1>8. PICK h \in [1 .. n -> F] : /\ \A i \in 1 .. n : fresh[i] = list[h[i]]
                                 /\ \A i, k \in 1 .. n : i # k => h[i] # h[k]
                                 /\ \A a \in F : \E i \in 1 .. n : h[i] = a
  <2>1. PICK h : PicksBy(h, list, F)
    BY <1>2, <1>3, PickedElements
  <2>2. QED BY <2>1 DEF PicksBy
<1> HIDE DEF alive, fresh, m, n
<1>9. \A i \in 1 .. m : /\ f1[i] = Updated(ax[g[i]]) /\ g[i] \in 1 .. Len(ax)
                        /\ f1[i] \in AExec /\ f1[i].obj = ax[g[i]].obj
  <2> SUFFICES ASSUME NEW i \in 1 .. m
               PROVE  /\ f1[i] = Updated(ax[g[i]]) /\ g[i] \in 1 .. Len(ax)
                      /\ f1[i] \in AExec /\ f1[i].obj = ax[g[i]].obj
    OBVIOUS
  <2>1. g[i] \in 1 .. Len(ax)
    BY <1>3, <1>6
  <2>2. ax[g[i]] \in AExec /\ ax[g[i]].obj \in 1 .. Len(acts)
    BY <2>1 DEF RefsOK
  <2>3. f1[i] = Updated(ax[g[i]])
    BY <1>5, <1>6
  <2>4. QED BY <2>1, <2>2, <2>3, UpdatedType
<1>10. \A i \in 1 .. n : /\ f2[i] = FreshExec(list[h[i]]) /\ h[i] \in 1 .. Len(list) /\ h[i] \in F
                         /\ f2[i] \in AExec /\ f2[i].obj = list[h[i]]
  <2> SUFFICES ASSUME NEW i \in 1 .. n
               PROVE  /\ f2[i] = FreshExec(list[h[i]]) /\ h[i] \in 1 .. Len(list) /\ h[i] \in F
                      /\ f2[i] \in AExec /\ f2[i].obj = list[h[i]]
    OBVIOUS
  <2>1. h[i] \in 1 .. Len(list) /\ h[i] \in F
    BY <1>3, <1>8
  <2>2. list[h[i]] \in 1 .. Len(acts)
    BY <2>1 DEF ResultTypeOK
  <2>3. f2[i] = FreshExec(list[h[i]])
    BY <1>7, <1>8
  <2>4. QED BY <2>1, <2>2, <2>3, FreshExecType
<1>11. f1 \in Seq(AExec) /\ Len(f1) = m
  <2>1. DOMAIN f1 = 1 .. m
    BY <1>5
  <2>2. f1 \in [1 .. m -> AExec]
    BY <1>9, <2>1
  <2> HIDE DEF f1
  <2>3. QED BY <1>5, <2>1, <2>2, SeqDef, LenProperties
<1>12. f2 \in Seq(AExec) /\ Len(f2) = n
  <2>1. DOMAIN f2 = 1 .. n
    BY <1>7
  <2>2. f2 \in [1 .. n -> AExec]
    BY <1>10, <2>1
  <2> HIDE DEF f2
  <2>3. QED BY <1>7, <2>1, <2>2, SeqDef, LenProperties
<1> HIDE DEF f1, f2, U
<1>13. /\ U \in Seq(AExec) /\ Len(U) = m + n
       /\ \A i \in 1 .. m : U[i] = f1[i]
       /\ \A i \in m + 1 .. m + n : U[i] = f2[i - m]
  <2> HIDE DEF m, n
  <2>1. /\ f1 \o f2 \in Seq(AExec) /\ Len(f1 \o f2) = Len(f1) + Len(f2)
        /\ \A i \in 1 .. Len(f1) + Len(f2) :
             (f1 \o f2)[i] = IF i <= Len(f1) THEN f1[i] ELSE f2[i - Len(f1)]
    BY <1>11, <1>12, ConcatProperties
  <2>2. /\ \A i \in 1 .. m : i \in 1 .. m + n /\ i <= m
        /\ \A i \in m + 1 .. m + n : i \in 1 .. m + n /\ ~(i <= m)
    BY <1>5, <1>7
  <2>3. QED BY <1>1, <1>11, <1>12, <2>1, <2>2
<1>14. \A i \in 1 .. m + n : i \in 1 .. m \/ (i \in m + 1 .. m + n /\ i - m \in 1 .. n)
  BY <1>5, <1>7
<1>15. \A i \in 1 .. Len(U) : \/ \E k \in 1 .. Len(ax) : U[i] = Updated(ax[k])
                              \/ \E k \in 1 .. Len(list) : U[i] = FreshExec(list[k])
  <2> SUFFICES ASSUME NEW i \in 1 .. m + n
               PROVE  \/ \E k \in 1 .. Len(ax) : U[i] = Updated(ax[k])
                      \/ \E k \in 1 .. Len(list) : U[i] = FreshExec(list[k])
    BY <1>13
  <2>1. CASE i \in 1 .. m
    BY <1>9, <1>13, <2>1
  <2>2. CASE i \in m + 1 .. m + n /\ i - m \in 1 .. n
    BY <1>10, <1>13, <2>2
  <2>3. QED BY <1>14, <2>1, <2>2
<1>16. Distinct(U)
  <2> SUFFICES ASSUME NEW i \in 1 .. m + n, NEW j \in 1 .. m + n, i # j PROVE U[i].obj # U[j].obj
    BY <1>13 DEF Distinct
  <2>1. CASE i \in 1 .. m /\ j \in 1 .. m
    BY <1>6, <1>9, <1>13, <2>1 DEF Distinct
  <2>2. CASE i \in 1 .. m /\ j \in m + 1 .. m + n /\ j - m \in 1 .. n
    BY <1>4, <1>9, <1>10, <1>13, <2>2
  <2>3. CASE j \in 1 .. m /\ i \in m + 1 .. m + n /\ i - m \in 1 .. n
    BY <1>4, <1>9, <1>10, <1>13, <2>3
  <2>4. CASE i \in m + 1 .. m + n /\ j \in m + 1 .. m + n /\ i - m \in 1 .. n /\ j - m \in 1 .. n
    <3>1. i - m # j - m
      BY <1>5
    <3>2. list[h[i - m]] # list[h[j - m]]
      BY <1>8, <1>10, <2>4, <3>1 DEF Consistent
    <3>3. QED BY <1>10, <1>13, <2>4, <3>2
  <2>5. QED BY <1>14, <2>1, <2>2, <2>3, <2>4
<1>17. \A i \in 1 .. Len(U) : InList(U[i].obj)
  <2> SUFFICES ASSUME NEW i \in 1 .. m + n PROVE InList(U[i].obj)
    BY <1>13
  <2>1. CASE i \in 1 .. m
    BY <1>4, <1>6, <1>9, <1>13, <2>1
  <2>2. CASE i \in m + 1 .. m + n /\ i - m \in 1 .. n
    BY <1>4, <1>10, <1>13, <2>2
  <2>3. QED BY <1>14, <2>1, <2>2
<1>18. ASSUME NEW k \in 1 .. Len(ax), InList(ax[k].obj)
       PROVE  \E i \in 1 .. Len(U) : U[i] = Updated(ax[k]) /\ U[i].obj = ax[k].obj
  <2>1. PICK i \in 1 .. m : g[i] = k
    BY <1>4, <1>6, <1>18
  <2>2. i \in 1 .. Len(U)
    BY <1>5, <1>7, <1>13
  <2>3. QED BY <1>9, <1>13, <2>1, <2>2
<1>19. ASSUME NEW k \in 1 .. Len(list)
       PROVE  \E i \in 1 .. Len(U) : U[i].obj = list[k]
  <2>1. CASE \E j \in 1 .. Len(ax) : ax[j].obj = list[k]
    <3>1. PICK j \in 1 .. Len(ax) : ax[j].obj = list[k]
      BY <2>1
    <3>2. InList(ax[j].obj)
      BY <1>4, <3>1
    <3>3. QED BY <1>18, <3>1, <3>2
  <2>2. CASE k \in F
    <3>1. PICK i \in 1 .. n : h[i] = k
      BY <1>8, <2>2
    <3>2. m + i \in m + 1 .. m + n /\ m + i \in 1 .. Len(U) /\ (m + i) - m = i
      BY <1>5, <1>7, <1>13
    <3>3. U[m + i] = f2[i]
      BY <1>13, <3>2
    <3>4. QED BY <1>10, <3>1, <3>2, <3>3
  <2>3. QED BY <1>4, <2>1, <2>2
<1>20. ASSUME NEW i \in 1 .. Len(U), NEW j \in 1 .. Len(U),
              \E k \in 1 .. Len(ax) : U[i] = Updated(ax[k])
       PROVE  i <= j \/ \E k \in 1 .. Len(ax) : U[j] = Updated(ax[k])
  <2>1. i \in 1 .. m
    <3> SUFFICES ASSUME i \in m + 1 .. m + n, i - m \in 1 .. n PROVE FALSE
      BY <1>13, <1>14
    <3>1. PICK k \in 1 .. Len(ax) : U[i] = Updated(ax[k])
      BY <1>20
    <3>2. ax[k] \in AExec /\ ax[k].obj \in 1 .. Len(acts)
      BY DEF RefsOK
    <3>3. U[i].obj = ax[k].obj
      BY <3>1, <3>2, UpdatedType
    <3>4. QED BY <1>4, <1>10, <1>13, <3>3
  <2>2. CASE j \in 1 .. m
    BY <1>9, <1>13, <2>2
  <2>3. CASE j \in m + 1 .. m + n
    BY <1>5, <1>7, <2>1, <2>3
  <2>4. QED BY <1>13, <1>14, <2>2, <2>3
<1>21. QED BY <1>13, <1>15, <1>16, <1>17, <1>18, <1>19, <1>20 DEF U

-----------------------------------------------------------------------------
(* What a step of the execution does to the execution state *)

(* f is the execution state, with other progress and outcomes.             *)
SameShape(f) ==
  /\ f \in Seq(AExec)
  /\ Len(f) = Len(ax)
  /\ \A i \in 1 .. Len(ax) : f[i].obj = ax[i].obj /\ f[i].seq = ax[i].seq

(* A bounded set of numbers has a greatest one, which Max finds.           *)
LEMMA MaxIsGreatest ==
  ASSUME NEW N \in Nat, NEW S \in SUBSET (1 .. N), S # {}
  PROVE  Max(S) \in S
<1> DEFINE T == {n \in Nat : \E x \in S : n = N - x}
<1>1. T \in SUBSET Nat /\ T # {}
  <2>1. PICK x \in S : TRUE
    OBVIOUS
  <2>2. N - x \in Nat
    OBVIOUS
  <2>3. N - x \in T
    BY <2>2
  <2>4. QED BY <2>3
<1>2. PICK n \in T : \A y \in T : n <= y
  BY <1>1, LeastExists
<1>3. PICK x \in S : n = N - x
  OBVIOUS
<1>4. \A y \in S : N - y \in T
  OBVIOUS
<1>5. \A y \in S : x >= y
  <2> SUFFICES ASSUME NEW y \in S PROVE x >= y
    OBVIOUS
  <2>1. n <= N - y
    BY <1>2, <1>4
  <2>2. x \in 1 .. N /\ y \in 1 .. N
    OBVIOUS
  <2>3. QED BY <1>3, <2>1, <2>2
<1>6. QED BY <1>5, Zenon DEF Max

(* Another state for one action leaves the shape alone.                    *)
LEMMA OneChanged ==
  ASSUME ax \in Seq(AExec), NEW k \in 1 .. Len(ax), NEW e \in AExec,
         e.obj = ax[k].obj, e.seq = ax[k].seq
  PROVE  LET f == [ax EXCEPT ![k] = e]
         IN  SameShape(f) /\ f[k] = e /\ \A i \in 1 .. Len(ax) : i # k => f[i] = ax[i]
<1> DEFINE f == [ax EXCEPT ![k] = e]
<1>1. f \in Seq(AExec)
  BY ExceptSeq
<1>2. Len(f) = Len(ax) /\ f[k] = e /\ \A i \in 1 .. Len(ax) : i # k => f[i] = ax[i]
  OBVIOUS
<1> HIDE DEF f
<1>3. SameShape(f)
  BY <1>1, <1>2 DEF SameShape
<1>4. QED BY <1>2, <1>3 DEF f

(* In particular its end.                                                  *)
LEMMA OneFinalized ==
  ASSUME ax \in Seq(AExec), NEW k \in 1 .. Len(ax)
  PROVE  LET f == [ax EXCEPT ![k].state = FINALIZED]
         IN  /\ SameShape(f)
             /\ f[k].state = FINALIZED /\ f[k].status = ax[k].status /\ f[k].noop = ax[k].noop
             /\ f[k].commit = ax[k].commit /\ f[k].tr = ax[k].tr
             /\ \A i \in 1 .. Len(ax) : i # k => f[i] = ax[i]
<1> DEFINE e == [ax[k] EXCEPT !.state = FINALIZED]
<1>1. ax[k] \in AExec /\ FINALIZED \in 0 .. 3
  BY DEF FINALIZED
<1>2. e \in AExec
  BY <1>1 DEF AExec
<1>3. /\ e.obj = ax[k].obj /\ e.seq = ax[k].seq /\ e.state = FINALIZED
      /\ e.status = ax[k].status /\ e.noop = ax[k].noop /\ e.commit = ax[k].commit
      /\ e.tr = ax[k].tr
  BY <1>1 DEF AExec
<1>4. [ax EXCEPT ![k].state = FINALIZED] = [ax EXCEPT ![k] = e]
  OBVIOUS
<1> HIDE DEF e
<1>5. QED BY <1>2, <1>3, <1>4, OneChanged

(* The implicit keep finalizes at most one action: a keep without          *)
(* definition, which was executed.                                         *)
KeepFinalizes(f) ==
  \/ f = ax
  \/ \E k \in 1 .. Len(ax) : /\ ax[k].state >= EXECUTED /\ acts[ax[k].obj].def = "none"
                             /\ f = [ax EXCEPT ![k].state = FINALIZED]

(* What sieve_result_implicit_keep_execute leaves behind; in the final     *)
(* phase a keep with a definition was executed, unless another action took *)
(* its place.                                                              *)
LEMMA ImplicitKeepShape ==
  ASSUME SoundTypes, NEW r, NEW k \in KExec, NEW x \in ImplicitKeepExecute(r, k)
  PROVE  /\ x.kx \in KExec
         /\ KeepFinalizes(x.ax)
         /\ x.equiv \in 0 .. Len(ax)
         /\ r.keepFinalizing /\ x.kx.def # "none" /\ x.equiv = 0 => x.kx.state = EXECUTED
<1> DEFINE r1 == [r EXCEPT !.keepSuccess = (r.status = "OK"), !.keepStatus = "OK"]
           r2(o) == [r1 EXCEPT !.executed = @ \/ (o.status = "OK"),
                               !.seenDelivery = @ \/ (o.status = "OK"),
                               !.executedDelivery = r.seenDelivery \/ (o.status = "OK"),
                               !.keepStatus = o.status]
           def == IF r.status = "OK" THEN keepDef ELSE "store"
           k1 == [k EXCEPT !.def = def]
           ax1 == IF DeferredKeep = {} THEN ax
                  ELSE [ax EXCEPT ![Max(DeferredKeep)].state = FINALIZED]
           k2(o) == [k1 EXCEPT !.state = EXECUTED, !.status = o.status,
                               !.commit = (o.status = "OK"), !.noop = o.noop]
<1>1. k1 \in KExec
  BY DEF SoundTypes, ResultTypeOK, KExec
<1>2. k1.def = def
  BY DEF KExec
<1>3. ASSUME NEW o \in StoreOutcomes(DefaultMailbox)
      PROVE  k2(o) \in KExec /\ k2(o).state = EXECUTED
  <2>1. o.status \in Status /\ o.noop \in BOOLEAN
    BY StoreOutcomesType DEF OutcomeSet
  <2>2. (o.status = "OK") \in BOOLEAN /\ EXECUTED \in 0 .. 3
    BY DEF EXECUTED
  <2> HIDE DEF k1
  <2>3. QED BY <1>1, <2>1, <2>2 DEF KExec
<1>4. KeepFinalizes(ax1)
  <2>1. CASE DeferredKeep = {}
    BY <2>1 DEF KeepFinalizes
  <2>2. CASE DeferredKeep # {}
    <3>1. Len(ax) \in Nat /\ DeferredKeep \in SUBSET (1 .. Len(ax))
      BY DEF SoundTypes, DeferredKeep
    <3>2. Max(DeferredKeep) \in DeferredKeep
      BY <2>2, <3>1, MaxIsGreatest
    <3>3. /\ Max(DeferredKeep) \in 1 .. Len(ax) /\ ax[Max(DeferredKeep)].state >= EXECUTED
          /\ acts[ax[Max(DeferredKeep)].obj].def = "none"
      <4> DEFINE d == Max(DeferredKeep)
      <4>0. d \in DeferredKeep
        BY <3>2
      <4> HIDE DEF d
      <4>1. d \in DeferredKeep /\ d \in 1 .. Len(ax) /\ d >= d
        BY <3>1, <4>0
      <4>2. ax[d].state >= EXECUTED /\ acts[ax[d].obj].def = "none"
        BY <4>1 DEF DeferredKeep
      <4>3. QED BY <4>1, <4>2 DEF d
    <3>4. QED BY <2>2, <3>3 DEF KeepFinalizes
  <2>3. QED BY <2>1, <2>2
<1>5. KeepEquivalent # {} => Min(KeepEquivalent) \in 1 .. Len(ax)
  <2>1. KeepEquivalent \in SUBSET (1 .. Len(ax)) /\ KeepEquivalent \in SUBSET Nat
    BY DEF SoundTypes, KeepEquivalent
  <2>2. QED BY <2>1, MinIsLeast
<1>6. KeepFinalizes(ax)
  BY DEF KeepFinalizes
<1>7. Len(ax) \in Nat /\ equiv \in 0 .. Len(ax)
  BY DEF SoundTypes
<1>8. \/ /\ (~r.keepFinalizing \/ equiv # 0)
         /\ x \in {[ax |-> ax, kx |-> k, rx |-> r, equiv |-> equiv, tried |-> FALSE]}
      \/ def = "none" /\ x \in {[ax |-> ax, kx |-> k1, rx |-> r1, equiv |-> 0, tried |-> FALSE]}
      \/ /\ KeepEquivalent # {}
         /\ x \in {[ax |-> ax, kx |-> k1, rx |-> r1, equiv |-> Min(KeepEquivalent), tried |-> FALSE]}
      \/ x \in {[ax |-> ax1, kx |-> k2(o), rx |-> r2(o), equiv |-> 0, tried |-> o.tried]
                 : o \in StoreOutcomes(DefaultMailbox)}
  BY Zenon DEF ImplicitKeepExecute
<1> HIDE DEF r1, r2, k1, k2, ax1
<1>9. \/ (~r.keepFinalizing \/ equiv # 0) /\ x.ax = ax /\ x.kx = k /\ x.equiv = equiv
      \/ def = "none" /\ x.ax = ax /\ x.kx = k1 /\ x.equiv = 0
      \/ KeepEquivalent # {} /\ x.ax = ax /\ x.kx = k1 /\ x.equiv = Min(KeepEquivalent)
      \/ \E o \in StoreOutcomes(DefaultMailbox) : x.ax = ax1 /\ x.kx = k2(o) /\ x.equiv = 0
  BY <1>8
<1> HIDE DEF def
<1>10. QED BY <1>1, <1>2, <1>3, <1>4, <1>5, <1>6, <1>7, <1>9

-----------------------------------------------------------------------------
(* The invariant is inductive: Init and the steps of the driver *)

(* Before the first script is opened.                                      *)
LEMMA SoundInvInit == Init => SoundInv
<1> SUFFICES ASSUME Init PROVE SoundInv
  OBVIOUS
<1>1. acts = <<>> /\ list = <<>> /\ ax = <<>> /\ execSeq = 0 /\ keepDef = "none" /\ equiv = 0
  BY DEF Init, ResultInit, ExecutionInit
<1>2. kx \in KExec
  BY DEF Init, ExecutionInit, NewKeepExec, KExec, Status, INIT
<1>3. SoundTypes
  BY <1>1, <1>2 DEF SoundTypes, ResultTypeOK, Init, ExecutionInit
<1>4. DriverTypes
  <2>1. ScriptCount \in Nat \ {0} /\ MaxCommands \in Nat /\ MaxDeliveries \in Nat \ {0}
    BY LdaAssumption
  <2>2. script = 1 /\ loaded = FALSE /\ cmds = 0 /\ verdict = "none" /\ tries = 1
    BY DEF Init
  <2>3. 1 \in 1 .. ScriptCount + 1 /\ 0 \in 0 .. MaxCommands /\ 1 \in 1 .. MaxDeliveries
    BY <2>1
  <2>4. loaded \in BOOLEAN
    BY <2>2
  <2>5. QED BY <2>2, <2>3, <2>4 DEF DriverTypes, Discard
<1>5. Consistent(list, acts) /\ TargetsOK(acts) /\ RefsOK(ax, acts) /\ Distinct(ax)
  BY <1>1 DEF Consistent, TargetsOK, RefsOK, Distinct
<1>6. PhaseOK
  BY DEF PhaseOK, Init, ExecutionInit
<1>7. QED BY <1>3, <1>4, <1>5, <1>6 DEF SoundInv

(* A step of the plugin that leaves the result and its execution alone.    *)
LEMMA DriverSound ==
  ASSUME SoundInv, UNCHANGED <<acts, list, execSeq, execVars>>, keepDef' \in {"none", "store"},
         DriverTypes', drv \in Working, drv' \in Working
  PROVE  SoundInv'
<1> USE DEF execVars, worldVars
<1>1. SoundTypes'
  BY DEF SoundInv, SoundTypes, ResultTypeOK
<1>2. PhaseOK'
  BY DEF SoundInv, PhaseOK, Working
<1>3. (Consistent(list, acts) /\ TargetsOK(acts) /\ RefsOK(ax, acts) /\ Distinct(ax))'
  BY DEF SoundInv, Consistent, TargetsOK, RefsOK, Distinct
<1>4. QED BY <1>1, <1>2, <1>3 DEF SoundInv

(* A command adds its action to the result.                                *)
LEMMA ActionOfType ==
  ASSUME ResultTypeOK, NEW c \in Command
  PROVE  /\ ActionOf(c) \in Action
         /\ ActionOf(c).def = "redirect" => ActionOf(c).tgt \in Address
         /\ ActionOf(c).keep => ActionOf(c).def \in {"none", "store"}
         /\ ActionOf(c).seq = execSeq
         /\ ActionOf(c).silent = FALSE
         /\ ActionOf(c).keep => ActionOf(c).def = keepDef /\ ActionOf(c).tgt = DefaultMailbox
         /\ ActionOf(c).def = "store" => ActionOf(c).tgt \in Mailbox
<1>1. /\ c.def \in {"keep", "store", "redirect", "discard", "reject", "vacation"}
      /\ c.tgt \in Target /\ c.copy \in BOOLEAN
      /\ c.def = "redirect" => c.tgt \in Address
      /\ c.def = "store" => c.tgt \in Mailbox
  BY LdaAssumption
<1>2. /\ execSeq \in Nat /\ keepDef \in {"none", "store"} /\ DefaultMailbox \in Target
      /\ DefaultMailbox \in Mailbox
  BY ResultAssumption DEF ResultTypeOK, Target
<1>3. CASE c.def = "keep"
  BY <1>2, <1>3 DEF ActionOf, NewKeep, Action, Def
<1>4. CASE c.def # "keep"
  BY <1>1, <1>2, <1>4 DEF ActionOf, NewAction, Action, Def
<1>5. QED BY <1>3, <1>4

(* A command of a script.                                                  *)
LEMMA RunCommandSound ==
  ASSUME SoundInv, TempInv, RunCommand
  PROVE  SoundInv'
<1>1. PICK c \in Command : acts' = AddAction(ActionOf(c)).acts /\ list' = AddAction(ActionOf(c)).list
  BY DEF RunCommand
<1>2. AddedWell(AddAction(ActionOf(c)))
  BY ActionOfType, AddActionWell DEF SoundInv, SoundTypes
<1>3. /\ acts' \in Seq(Action) /\ list' \in Seq(1 .. Len(acts'))
      /\ Len(acts) <= Len(acts')
      /\ \A o \in 1 .. Len(acts) : acts'[o] = acts[o] \/ acts'[o].keep
      /\ Consistent(list', acts') /\ TargetsOK(acts')
  BY <1>1, <1>2 DEF AddedWell
<1>4. UNCHANGED <<execSeq, keepDef, execVars, script, err, loaded, result, verdict, tries>>
  BY DEF RunCommand
<1>5. SoundTypes'
  BY <1>3, <1>4 DEF SoundInv, SoundTypes, ResultTypeOK, execVars, worldVars
<1>6. DriverTypes'
  <2>1. cmds' = cmds + 1 /\ cmds + tries <= MaxCommands
    BY DEF RunCommand
  <2>2. cmds \in Nat /\ tries \in Nat \ {0} /\ MaxCommands \in Nat
    BY LdaAssumption DEF SoundInv, DriverTypes
  <2>3. cmds' \in 0 .. MaxCommands
    BY <2>1, <2>2
  <2>4. QED BY <1>4, <2>3 DEF SoundInv, DriverTypes
<1>7. RefsOK(ax', acts') /\ Distinct(ax')
  <2>1. ax' = ax /\ Len(acts) \in Nat /\ Len(acts') \in Nat
    BY <1>3, <1>4 DEF execVars, SoundInv, SoundTypes, ResultTypeOK
  <2>2. Distinct(ax')
    BY <2>1 DEF SoundInv
  <2>3. ASSUME NEW i \in 1 .. Len(ax)
        PROVE  /\ ax[i].obj \in 1 .. Len(acts')
               /\ ax[i].seq = acts'[ax[i].obj].seq \/ acts'[ax[i].obj].keep
    <3>1. ax[i].obj \in 1 .. Len(acts) /\ (ax[i].seq = acts[ax[i].obj].seq \/ acts[ax[i].obj].keep)
      BY DEF SoundInv, RefsOK
    <3>2. QED BY <1>3, <2>1, <3>1
  <2>4. QED BY <2>1, <2>2, <2>3 DEF RefsOK
<1>8. PhaseOK'
  <2>1. drv = "run" /\ drv' \in Working
    BY DEF RunCommand, Working
  <2>2. QED BY <1>4, <2>1 DEF SoundInv, PhaseOK, execVars, Working
<1>9. QED BY <1>3, <1>5, <1>6, <1>7, <1>8 DEF SoundInv

(* Entering sieve_result_execute.                                          *)
LEMMA StartedType ==
  ASSUME NEW e \in AExec
  PROVE  /\ Started(e) \in AExec
         /\ Started(e).obj = e.obj /\ Started(e).seq = e.seq
         /\ e.state >= STARTED => Started(e) = e
         /\ e.state < STARTED => Started(e).state = STARTED
         /\ Started(e).commit = e.commit
         /\ acts[e.obj].def = "none" => Started(e).tr = e.tr
         /\ Started(e).noop => e.noop
<1> DEFINE t == e.tr \/ acts[e.obj].def \in {"store", "redirect", "reject"}
<1>1. t \in BOOLEAN /\ STARTED \in 0 .. 3 /\ "OK" \in Status
  BY DEF STARTED, Status
<1>2. e.state \in 0 .. 3
  BY DEF AExec
<1>3. CASE e.state >= STARTED
  BY <1>2, <1>3 DEF Started, STARTED
<1>4. CASE ~(e.state >= STARTED)
  <2>1. Started(e) = [e EXCEPT !.state = STARTED, !.status = "OK", !.tr = t, !.noop = FALSE]
    BY <1>4 DEF Started
  <2> HIDE DEF t
  <2>2. Started(e) \in AExec
    BY <1>1, <2>1 DEF AExec
  <2>3. /\ Started(e).obj = e.obj /\ Started(e).seq = e.seq /\ Started(e).commit = e.commit
        /\ Started(e).state = STARTED /\ Started(e).tr = t /\ Started(e).noop = FALSE
    BY <1>1, <2>1 DEF AExec
  <2>4. acts[e.obj].def = "none" => t = e.tr
    BY DEF AExec, t
  <2>5. QED BY <1>4, <2>2, <2>3, <2>4
<1>5. QED BY <1>3, <1>4

(* The execution state after an update of it.                              *)
LEMMA UpdatedWell ==
  ASSUME SoundInv
  PROVE  LET U == UpdatedExecution
         IN  /\ U \in Seq(AExec) /\ Distinct(U) /\ RefsOK(U, acts)
             /\ \A i \in 1 .. Len(U) : U[i].seq = acts[U[i].obj].seq
<1> DEFINE U == UpdatedExecution
<1>1. ResultTypeOK /\ ax \in Seq(AExec) /\ RefsOK(ax, acts)
  BY DEF SoundInv, SoundTypes
<1>2. /\ U \in Seq(AExec)
      /\ \A i \in 1 .. Len(U) : \/ \E k \in 1 .. Len(ax) : U[i] = Updated(ax[k])
                                \/ \E k \in 1 .. Len(list) : U[i] = FreshExec(list[k])
      /\ Distinct(U)
  BY <1>1, UpdatedExecutionFacts DEF SoundInv
<1> HIDE DEF U
<1>3. ASSUME NEW i \in 1 .. Len(U)
      PROVE  U[i].obj \in 1 .. Len(acts) /\ U[i].seq = acts[U[i].obj].seq
  <2>1. CASE \E k \in 1 .. Len(ax) : U[i] = Updated(ax[k])
    <3>1. PICK k \in 1 .. Len(ax) : U[i] = Updated(ax[k])
      BY <2>1
    <3>2. ax[k] \in AExec /\ ax[k].obj \in 1 .. Len(acts)
      BY <1>1 DEF RefsOK
    <3>3. QED BY <1>1, <3>1, <3>2, UpdatedType
  <2>2. CASE \E k \in 1 .. Len(list) : U[i] = FreshExec(list[k])
    <3>1. PICK k \in 1 .. Len(list) : U[i] = FreshExec(list[k])
      BY <2>2
    <3> DEFINE o == list[k]
    <3>2. o \in 1 .. Len(acts)
      BY <1>1 DEF ResultTypeOK
    <3> HIDE DEF o
    <3>3. FreshExec(o).obj = o /\ FreshExec(o).seq = acts[o].seq
      BY <1>1, <3>2, FreshExecType
    <3>4. QED BY <3>1, <3>2, <3>3 DEF o
  <2>3. QED BY <1>2, <2>1, <2>2
<1>4. RefsOK(U, acts)
  BY <1>3 DEF RefsOK
<1>5. QED BY <1>2, <1>3, <1>4 DEF U

(* Entering sieve_result_execute, as the steps of the plugin do.           *)
LEMMA ExecuteSound ==
  ASSUME SoundInv, TempInv, NEW s \in Status, NEW c \in BOOLEAN, Execute(s, c),
         drv \in Working, drv' = IF c THEN "finishing" ELSE "executing",
         s = "BIN_CORRUPT" => c /\ ms'.status = "BIN_CORRUPT",
         keepDef' \in {"none", "store"}, DriverTypes'
  PROVE  SoundInv'
<1> DEFINE U == UpdatedExecution
           S == [i \in DOMAIN U |-> Started(U[i])]
<1>1. /\ U \in Seq(AExec) /\ Distinct(U) /\ RefsOK(U, acts)
  BY UpdatedWell
<1>2. OnlyKeepRecycled
  BY DEF SoundInv, SoundTypes, RefsOK, OnlyKeepRecycled
<1> HIDE DEF U
<1>3. /\ S \in Seq(AExec) /\ Len(S) = Len(U)
      /\ \A i \in 1 .. Len(U) : S[i].obj = U[i].obj /\ S[i].seq = U[i].seq
  <2>1. Len(U) \in Nat /\ DOMAIN U = 1 .. Len(U) /\ \A i \in 1 .. Len(U) : U[i] \in AExec
    BY <1>1
  <2>2. \A i \in 1 .. Len(U) : /\ S[i] \in AExec /\ S[i].obj = U[i].obj /\ S[i].seq = U[i].seq
    BY <2>1, StartedType
  <2>3. S \in [1 .. Len(U) -> AExec]
    BY <2>1, <2>2
  <2> HIDE DEF S
  <2>4. S \in Seq(AExec)
    BY <2>1, <2>3, SeqDef
  <2>5. DOMAIN S = 1 .. Len(U)
    BY <2>3
  <2>6. QED BY <2>1, <2>2, <2>4, <2>5, LenProperties
<1> HIDE DEF S
<1>4. Distinct(S) /\ RefsOK(S, acts)
  BY <1>1, <1>3 DEF Distinct, RefsOK
<1>5. /\ UNCHANGED <<acts, list, kx, equiv, marks>> /\ execSeq' = execSeq + 1
      /\ ax' \in {ax, U, S}
      /\ phase' \in {"panic", "execute", "return", "keep", "commit"}
      /\ phase' = "panic" => s = "BIN_CORRUPT"
  BY <1>2 DEF Execute, AfterExecute, worldVars, U, S
<1>6. equiv = 0
  BY DEF SoundInv, PhaseOK, Working
<1>7. ax' \in Seq(AExec) /\ Distinct(ax') /\ RefsOK(ax', acts)
  BY <1>1, <1>3, <1>4, <1>5 DEF SoundInv, SoundTypes
<1>8. SoundTypes'
  <2>1. equiv' \in 0 .. Len(ax')
    BY <1>5, <1>6, <1>7
  <2>2. QED BY <1>5, <1>7, <2>1 DEF SoundInv, SoundTypes, ResultTypeOK
<1>9. PhaseOK'
  BY <1>5, <1>6 DEF PhaseOK
<1>10. QED BY <1>5, <1>7, <1>8, <1>9 DEF SoundInv, TargetsOK, Consistent

-----------------------------------------------------------------------------
(* The invariant is inductive: the steps of sieve_result_execute *)

(* A step that leaves the result and the shape of its execution alone.     *)
LEMMA ShapeSound ==
  ASSUME SoundInv, UNCHANGED <<resultVars, ldaVars>>, SameShape(ax'), kx' \in KExec,
         equiv' \in 0 .. Len(ax), marks' \in [pending : SUBSET Address, db : SUBSET Address],
         equiv' = 0 \/ drv = "finishing", phase' # "panic",
         phase' = "finalize" => \A i \in 1 .. Len(ax) : ax'[i].state = FINALIZED
  PROVE  SoundInv'
<1> USE DEF resultVars, ldaVars
<1>1. ax' \in Seq(AExec) /\ Len(ax') = Len(ax)
      /\ \A i \in 1 .. Len(ax) : ax'[i].obj = ax[i].obj /\ ax'[i].seq = ax[i].seq
  BY DEF SameShape
<1>2. SoundTypes'
  BY <1>1 DEF SoundInv, SoundTypes, ResultTypeOK
<1>3. RefsOK(ax', acts') /\ Distinct(ax')
  BY <1>1 DEF SoundInv, RefsOK, Distinct
<1>4. PhaseOK'
  BY <1>1 DEF SoundInv, PhaseOK
<1>5. DriverTypes' /\ (Consistent(list, acts) /\ TargetsOK(acts))'
  BY DEF SoundInv, DriverTypes, Consistent, TargetsOK
<1>6. QED BY <1>2, <1>3, <1>4, <1>5 DEF SoundInv

(* Leaving it alone altogether leaves its shape alone.                     *)
LEMMA ShapeSame ==
  ASSUME SoundInv
  PROVE  SameShape(ax) /\ kx \in KExec /\ equiv \in 0 .. Len(ax)
         /\ marks \in [pending : SUBSET Address, db : SUBSET Address]
BY DEF SoundInv, SoundTypes, SameShape

(* An action that was not executed or not finalized is on the list.        *)
LEMMA PendingFacts ==
  ASSUME SoundInv, NEW s
  PROVE  /\ Pending(s) \in SUBSET (1 .. Len(ax))
         /\ Pending(s) # {} => /\ Min(Pending(s)) \in Pending(s)
                               /\ Min(Pending(s)) \in 1 .. Len(ax)
<1>1. ax \in Seq(AExec)
  BY DEF SoundInv, SoundTypes
<1>2. Pending(s) \in SUBSET (1 .. Len(ax)) /\ Pending(s) \in SUBSET Nat
  BY <1>1 DEF Pending
<1>3. QED BY <1>2, MinIsLeast

(* f is the execution state after the k-th action was executed.            *)
Ran(f, k, st, n) == f = [ax EXCEPT ![k].state = EXECUTED, ![k].status = st, ![k].noop = n]

(* What that changes.                                                      *)
LEMMA OneExecuted ==
  ASSUME ax \in Seq(AExec), NEW k \in 1 .. Len(ax), NEW st \in Status, NEW n \in BOOLEAN,
         NEW f, Ran(f, k, st, n)
  PROVE  /\ SameShape(f)
         /\ f[k].state = EXECUTED /\ f[k].status = st /\ f[k].noop = n
         /\ f[k].commit = ax[k].commit /\ f[k].tr = ax[k].tr
         /\ \A i \in 1 .. Len(ax) : i # k => f[i] = ax[i]
<1> DEFINE e == [ax[k] EXCEPT !.state = EXECUTED, !.status = st, !.noop = n]
<1>1. ax[k] \in AExec /\ EXECUTED \in 0 .. 3
  BY DEF EXECUTED
<1>2. e \in AExec
  BY <1>1 DEF AExec
<1>3. /\ e.obj = ax[k].obj /\ e.seq = ax[k].seq /\ e.state = EXECUTED
      /\ e.status = st /\ e.noop = n /\ e.commit = ax[k].commit /\ e.tr = ax[k].tr
  BY <1>1 DEF AExec
<1>4. f = [ax EXCEPT ![k] = e]
  BY DEF Ran
<1> DEFINE g == [ax EXCEPT ![k] = e]
<1> HIDE DEF e
<1>5. SameShape(g) /\ g[k] = e /\ \A i \in 1 .. Len(ax) : i # k => g[i] = ax[i]
  BY <1>2, <1>3, OneChanged
<1> HIDE DEF g
<1>6. f = g
  BY <1>4 DEF g
<1>7. QED BY <1>3, <1>5, <1>6

(* The execution of one action.                                            *)
LEMMA ExecuteActionSound ==
  ASSUME SoundInv, TempInv, ExecuteAction, UNCHANGED ldaVars
  PROVE  SoundInv'
<1> DEFINE k == Min(Pending(EXECUTED))
           a == acts[ax[k].obj]
<1>1. k \in 1 .. Len(ax)
  BY PendingFacts DEF ExecuteAction
<1>2. PICK o \in ExecuteOutcomes(a) :
           /\ ax' = [ax EXCEPT ![k].state = EXECUTED, ![k].status = o.status, ![k].noop = o.noop]
           /\ phase' = IF o.status = "OK" THEN "execute" ELSE AfterExecute(rx', loc.commit)
  BY Zenon DEF ExecuteAction
<1>3. o.status \in Status /\ o.noop \in BOOLEAN
  BY ExecuteOutcomesType DEF OutcomeSet
<1> HIDE DEF k, a
<1>4. SameShape(ax')
  <2>1. Ran(ax', k, o.status, o.noop)
    BY <1>2 DEF Ran
  <2>2. QED BY <1>1, <1>3, <2>1, OneExecuted DEF SoundInv, SoundTypes
<1>5. phase' \notin {"panic", "finalize"}
  BY <1>2 DEF AfterExecute
<1>6. phase = "execute" /\ UNCHANGED <<resultVars, kx, equiv, marks>>
  BY DEF ExecuteAction, worldVars
<1>7. equiv = 0 \/ drv = "finishing"
  BY <1>6 DEF SoundInv, PhaseOK, TempInv, CallOK
<1>8. QED BY <1>4, <1>5, <1>6, <1>7, ShapeSame, ShapeSound

(* The whole series is to be committed.                                    *)
LEMMA AllCommitted ==
  ASSUME ax \in Seq(AExec)
  PROVE  LET f == [i \in DOMAIN ax |-> [ax[i] EXCEPT !.commit = TRUE]]
         IN  /\ SameShape(f)
             /\ \A i \in 1 .. Len(ax) : /\ f[i].state = ax[i].state /\ f[i].status = ax[i].status
                                        /\ f[i].noop = ax[i].noop /\ f[i].tr = ax[i].tr
<1> DEFINE f == [i \in DOMAIN ax |-> [ax[i] EXCEPT !.commit = TRUE]]
<1>1. Len(ax) \in Nat /\ DOMAIN ax = 1 .. Len(ax) /\ \A i \in 1 .. Len(ax) : ax[i] \in AExec
  OBVIOUS
<1>2. ASSUME NEW i \in 1 .. Len(ax)
      PROVE  /\ f[i] \in AExec /\ f[i].obj = ax[i].obj /\ f[i].seq = ax[i].seq
             /\ f[i].state = ax[i].state /\ f[i].status = ax[i].status /\ f[i].noop = ax[i].noop
             /\ f[i].tr = ax[i].tr
  <2>1. f[i] = [ax[i] EXCEPT !.commit = TRUE] /\ ax[i] \in AExec
    BY <1>1
  <2> HIDE DEF f
  <2>2. QED BY <2>1 DEF AExec
<1>3. f \in [1 .. Len(ax) -> AExec]
  BY <1>1, <1>2
<1> HIDE DEF f
<1>4. f \in Seq(AExec) /\ DOMAIN f = 1 .. Len(ax)
  BY <1>1, <1>3, SeqDef
<1>5. Len(f) = Len(ax)
  BY <1>1, <1>4, LenProperties
<1>6. QED BY <1>2, <1>4, <1>5 DEF SameShape, f

(* The end of the series.                                                  *)
LEMMA ExecuteDoneSound ==
  ASSUME SoundInv, TempInv, ExecuteDone, UNCHANGED ldaVars
  PROVE  SoundInv'
<1>1. SameShape(ax')
  BY AllCommitted DEF ExecuteDone, SoundInv, SoundTypes
<1>2. phase' \notin {"panic", "finalize"}
  BY DEF ExecuteDone, AfterExecute
<1>3. phase = "execute" /\ UNCHANGED <<resultVars, kx, equiv, marks>>
  BY DEF ExecuteDone, worldVars
<1>4. equiv = 0 \/ drv = "finishing"
  BY <1>3 DEF SoundInv, PhaseOK, TempInv, CallOK
<1>5. QED BY <1>1, <1>2, <1>3, <1>4, ShapeSame, ShapeSound

(* What the implicit keep may do to the execution state.                   *)
LEMMA KeepFinalizesShape ==
  ASSUME ax \in Seq(AExec), NEW f, KeepFinalizes(f)
  PROVE  /\ SameShape(f)
         /\ \A i \in 1 .. Len(ax) :
              /\ f[i].status = ax[i].status /\ f[i].noop = ax[i].noop /\ f[i].commit = ax[i].commit
              /\ f[i].tr = ax[i].tr
              /\ \/ f[i].state = ax[i].state
                 \/ /\ ax[i].state >= EXECUTED /\ f[i].state = FINALIZED
                    /\ acts[ax[i].obj].def = "none"
<1>1. CASE f = ax
  BY <1>1 DEF SameShape
<1>2. CASE f # ax
  <2>1. PICK k \in 1 .. Len(ax) : /\ ax[k].state >= EXECUTED /\ acts[ax[k].obj].def = "none"
                                  /\ f = [ax EXCEPT ![k].state = FINALIZED]
    BY <1>2 DEF KeepFinalizes
  <2>2. /\ SameShape(f)
        /\ f[k].state = FINALIZED /\ f[k].status = ax[k].status /\ f[k].noop = ax[k].noop
        /\ f[k].commit = ax[k].commit /\ f[k].tr = ax[k].tr
        /\ \A i \in 1 .. Len(ax) : i # k => f[i] = ax[i]
    BY <2>1, OneFinalized
  <2>3. QED BY <2>1, <2>2
<1>3. QED BY <1>1, <1>2

(* The implicit keep is executed.                                          *)
LEMMA KeepExecuteSound ==
  ASSUME SoundInv, TempInv, KeepExecute, UNCHANGED ldaVars
  PROVE  SoundInv'
<1>1. PICK x \in ImplicitKeepExecute(rx, kx) : ax' = x.ax /\ kx' = x.kx /\ equiv' = x.equiv
  BY DEF KeepExecute
<1>2. kx' \in KExec /\ KeepFinalizes(ax') /\ equiv' \in 0 .. Len(ax)
  BY <1>1, ImplicitKeepShape DEF SoundInv, SoundTypes
<1>3. SameShape(ax')
  BY <1>2, KeepFinalizesShape DEF SoundInv, SoundTypes
<1>4. phase = "keep" /\ phase' = "commit" /\ UNCHANGED <<resultVars, marks>>
  BY DEF KeepExecute, worldVars
<1>5. drv = "finishing"
  BY <1>4 DEF TempInv, CallOK
<1>6. QED BY <1>2, <1>3, <1>4, <1>5, ShapeSame, ShapeSound

(* The next action to finalize exists.                                     *)
LEMMA NextToFinalizeFacts ==
  ASSUME SoundInv, Pending(FINALIZED) # {}
  PROVE  NextToFinalize \in 1 .. Len(ax) /\ NextToFinalize \in Pending(FINALIZED)
<1> DEFINE storage == {i \in Pending(FINALIZED) : acts[ax[i].obj].def \in MailStorage}
<1>1. Pending(FINALIZED) \in SUBSET (1 .. Len(ax)) /\ Len(ax) \in Nat
  BY PendingFacts DEF SoundInv, SoundTypes
<1>2. storage \in SUBSET Nat /\ Pending(FINALIZED) \in SUBSET Nat
  BY <1>1
<1>3. NextToFinalize = IF storage # {} THEN Min(storage) ELSE Min(Pending(FINALIZED))
  BY Zenon DEF NextToFinalize
<1>4. storage # {} => Min(storage) \in Pending(FINALIZED)
  <2> HIDE DEF storage
  <2>1. storage # {} => Min(storage) \in storage
    BY <1>2, MinIsLeast
  <2>2. QED BY <2>1 DEF storage
<1>5. Min(Pending(FINALIZED)) \in Pending(FINALIZED)
  BY <1>2, MinIsLeast
<1> HIDE DEF storage
<1>6. QED BY <1>1, <1>3, <1>4, <1>5

(* The duplicate marks name addresses.                                     *)
Marks == [pending : SUBSET Address, db : SUBSET Address]

(* Those that a commit adds, too.                                          *)
LEMMA CommitMarks ==
  ASSUME marks \in Marks, NEW a, a.def = "redirect" => a.tgt \in Address, NEW e,
         NEW x \in CommitEffects(a, e)
  PROVE  x.marks \in Marks
<1>1. \A st : NoEffect(st).marks = marks
  BY DEF NoEffect, Effect
<1>2. \A st, s1, s2, s3, s4, m : Effect(st, s1, s2, s3, s4, m).marks = m
  BY DEF Effect
<1>3. CASE a.def = "store"
  <2>1. \/ x = NoEffect("FAILURE")
        \/ \E st, s1, s2 : x = Effect(st, s1, s2, sent, replies, marks)
    BY <1>3, Zenon DEF CommitEffects, StoreCommit
  <2>2. QED BY <1>1, <1>2, <2>1
<1>4. CASE a.def = "redirect"
  <2> DEFINE m == [marks EXCEPT !.pending = @ \cup {a.tgt}]
  <2>1. \/ \E st : x = NoEffect(st)
        \/ \E s1, s2, s3, s4 : x = Effect("OK", s1, s2, s3, s4, m)
    BY <1>4 DEF CommitEffects, RedirectCommit
  <2>2. m \in Marks
    BY <1>4 DEF Marks
  <2> HIDE DEF m
  <2>3. QED BY <1>1, <1>2, <2>1, <2>2
<1>5. CASE a.def = "reject"
  <2>1. (\E st : x = NoEffect(st)) \/ \E s1, s2, s3, s4 : x = Effect("OK", s1, s2, s3, s4, marks)
    BY <1>5 DEF CommitEffects, RejectCommit
  <2>2. QED BY <1>1, <1>2, <2>1
<1>6. CASE a.def = "vacation"
  <2>1. (\E st : x = NoEffect(st)) \/ \E s1, s2, s3, s4 : x = Effect("OK", s1, s2, s3, s4, marks)
    BY <1>6 DEF CommitEffects, VacationCommit
  <2>2. QED BY <1>1, <1>2, <2>1
<1>7. CASE a.def \notin {"store", "redirect", "reject", "vacation"}
  BY <1>1, <1>7 DEF CommitEffects
<1>8. QED BY <1>3, <1>4, <1>5, <1>6, <1>7

(* The commit or rollback of one action.                                   *)
LEMMA FinalizeActionSound ==
  ASSUME SoundInv, TempInv, FinalizeAction, UNCHANGED ldaVars
  PROVE  SoundInv'
<1> DEFINE k == NextToFinalize
           e == ax[k]
           a == acts[e.obj]
           l == [loc EXCEPT !.commitStatus = CommitStatus]
           commit == a.def # "none" /\ MayCommit(e, l)
<1>1. k \in 1 .. Len(ax)
  BY NextToFinalizeFacts DEF FinalizeAction
<1>2. PICK x \in IF commit THEN CommitEffects(a, e) ELSE {Rollback(a.def, e.tr, e.status)} :
        marks' = x.marks
  BY Zenon DEF FinalizeAction
<1>3. ax' = [ax EXCEPT ![k].state = FINALIZED]
  BY Zenon DEF FinalizeAction
<1>4. marks \in Marks /\ ax \in Seq(AExec)
  BY DEF SoundInv, SoundTypes, Marks
<1>5. a.def = "redirect" => a.tgt \in Address
  <2>1. ax[k].obj \in 1 .. Len(acts)
    BY <1>1 DEF SoundInv, RefsOK
  <2>2. QED BY <2>1 DEF SoundInv, TargetsOK
<1> HIDE DEF k, a, l
<1>6. marks' \in Marks
  <2>1. CASE commit
    BY <1>2, <1>4, <1>5, <2>1, CommitMarks
  <2>2. CASE ~commit
    <3>1. x = Rollback(a.def, e.tr, e.status)
      BY <1>2, <2>2
    <3>2. x.marks = marks
      BY <3>1 DEF Rollback, NoEffect, Effect
    <3>3. QED BY <1>2, <1>4, <3>2
  <2>3. QED BY <2>1, <2>2
<1>7. SameShape(ax')
  BY <1>1, <1>3, <1>4, OneFinalized
<1>8. phase = "commit" /\ phase' = "commit" /\ UNCHANGED <<resultVars, kx, equiv>>
  BY DEF FinalizeAction
<1>9. drv = "finishing"
  BY <1>8 DEF TempInv, CallOK
<1>10. QED BY <1>6, <1>7, <1>8, <1>9, ShapeSame, ShapeSound DEF Marks

(* The end of the commit phase: every action is finalized.                 *)
LEMMA CommitDoneSound ==
  ASSUME SoundInv, TempInv, CommitDone, UNCHANGED ldaVars
  PROVE  SoundInv'
<1>1. phase = "commit" /\ phase' \in {"finalize", "finish"}
      /\ UNCHANGED <<resultVars, ax, kx, equiv, marks>>
  BY DEF CommitDone, worldVars
<1>2. drv = "finishing"
  BY <1>1 DEF TempInv, CallOK
<1>3. \A i \in 1 .. Len(ax) : ax[i].state = FINALIZED
  <2> SUFFICES ASSUME NEW i \in 1 .. Len(ax) PROVE ax[i].state = FINALIZED
    OBVIOUS
  <2>1. ax[i] \in AExec /\ i \in DOMAIN ax
    BY DEF SoundInv, SoundTypes
  <2>2. ax[i].state \in 0 .. 3
    BY <2>1 DEF AExec
  <2>3. ~(ax[i].state < FINALIZED)
    BY <2>1 DEF CommitDone, Pending
  <2>4. QED BY <2>2, <2>3 DEF FINALIZED
<1>4. SameShape(ax')
  BY <1>1, ShapeSame
<1>5. QED BY <1>1, <1>2, <1>3, <1>4, ShapeSame, ShapeSound

(* The implicit keep is skipped, and the status is recorded.               *)
LEMMA PlainStepSound ==
  ASSUME SoundInv, TempInv, UNCHANGED <<resultVars, ldaVars, ax, kx, equiv, marks>>,
         phase \in {"finalize", "finish"}, phase' \in {"finish", "return"}
  PROVE  SoundInv'
<1>1. drv = "finishing"
  BY DEF TempInv, CallOK
<1>2. SameShape(ax')
  BY ShapeSame
<1>3. QED BY <1>1, <1>2, ShapeSame, ShapeSound

(* The keep as it is prepared for its commit.                              *)
LEMMA KeepPreparedShape ==
  ASSUME SoundInv, TempInv, ~SkipKeep, NEW x \in KeepPrepared
  PROVE  /\ x.kx \in KExec
         /\ KeepFinalizes(x.ax)
         /\ x.equiv \in 0 .. Len(ax)
         /\ x.kx.def # "none" /\ x.equiv = 0 => x.kx.state = EXECUTED
<1> DEFINE r0 == [rx EXCEPT !.keepFinalizing = TRUE,
                            !.keepStatus = IF KeepRetry THEN rx.status ELSE @]
           k0 == IF kx.def # "none" /\ kx.state = EXECUTED THEN NewKeepExec(kx.def) ELSE kx
<1>1. SoundTypes /\ kx \in KExec /\ equiv \in 0 .. Len(ax) /\ rx \in RExec
  BY DEF SoundInv, SoundTypes, TempInv, StateTypeOK
<1>2. r0.keepFinalizing = TRUE
  BY <1>1 DEF RExec
<1>3. k0 \in KExec
  <2>1. NewKeepExec(kx.def) \in KExec
    BY <1>1 DEF NewKeepExec, KExec, Status, INIT
  <2>2. QED BY <1>1, <2>1
<1>4. \/ /\ KeepRetry \/ (kx.def # "none" /\ kx.state = EXECUTED /\ ~KeepSwitch)
         /\ x \in {[ax |-> ax, kx |-> kx, rx |-> r0, equiv |-> equiv, tried |-> FALSE]}
      \/ x \in ImplicitKeepExecute(r0, k0)
  BY Zenon DEF KeepPrepared
<1> HIDE DEF r0, k0
<1>5. CASE x \in ImplicitKeepExecute(r0, k0)
  BY <1>1, <1>2, <1>3, <1>5, ImplicitKeepShape
<1>6. CASE /\ KeepRetry \/ (kx.def # "none" /\ kx.state = EXECUTED /\ ~KeepSwitch)
           /\ x \in {[ax |-> ax, kx |-> kx, rx |-> r0, equiv |-> equiv, tried |-> FALSE]}
  <2>1. x.ax = ax /\ x.kx = kx /\ x.equiv = equiv
    BY <1>6
  <2>2. kx.state = EXECUTED
    BY <1>6 DEF KeepRetry, SkipKeep
  <2>3. QED BY <1>1, <2>1, <2>2 DEF KeepFinalizes
<1>7. QED BY <1>4, <1>5, <1>6

(* Another action was the keep: it was finalized.                          *)
LEMMA KeepByOtherSound ==
  ASSUME SoundInv, TempInv, KeepByOther, UNCHANGED ldaVars
  PROVE  SoundInv' /\ phase' # "panic"
<1>1. PICK x \in KeepPrepared :
        /\ x.kx.def = "none" \/ x.equiv # 0
        /\ phase' = IF x.kx.def # "none" /\ x.ax[x.equiv].state < FINALIZED THEN "panic" ELSE "finish"
        /\ ax' = x.ax /\ kx' = x.kx /\ equiv' = x.equiv
  BY DEF KeepByOther
<1>2. phase = "finalize" /\ ~SkipKeep /\ UNCHANGED <<resultVars, marks>>
  BY DEF KeepByOther, worldVars
<1>3. kx' \in KExec /\ KeepFinalizes(ax') /\ equiv' \in 0 .. Len(ax)
  BY <1>1, <1>2, KeepPreparedShape
<1>4. /\ SameShape(ax')
      /\ \A i \in 1 .. Len(ax) : ax'[i].state = ax[i].state \/ ax'[i].state = FINALIZED
  BY <1>3, KeepFinalizesShape DEF SoundInv, SoundTypes
<1>5. \A i \in 1 .. Len(ax) : ax'[i].state = FINALIZED
  BY <1>2, <1>4 DEF SoundInv, PhaseOK
<1>6. x.kx.def # "none" => ~(x.ax[x.equiv].state < FINALIZED)
  <2> SUFFICES ASSUME x.kx.def # "none" PROVE ~(x.ax[x.equiv].state < FINALIZED)
    OBVIOUS
  <2>1. equiv' \in 1 .. Len(ax)
    BY <1>1, <1>3
  <2>2. ax'[equiv'].state = FINALIZED
    BY <1>5, <2>1
  <2>3. QED BY <1>1, <2>2 DEF FINALIZED
<1>7. phase' = "finish"
  BY <1>1, <1>6
<1>8. drv = "finishing"
  BY <1>2 DEF TempInv, CallOK
<1>9. QED BY <1>2, <1>3, <1>4, <1>7, <1>8, ShapeSame, ShapeSound

(* The implicit keep was executed before it is finalized.                  *)
LEMMA KeepFinalizeSound ==
  ASSUME SoundInv, TempInv, KeepFinalize, UNCHANGED ldaVars
  PROVE  SoundInv' /\ phase' # "panic"
<1>1. PICK x \in KeepPrepared :
        /\ x.kx.def # "none" /\ x.equiv = 0
        /\ ax' = x.ax
        /\ kx' = [x.kx EXCEPT !.state = FINALIZED]
        /\ equiv' = 0
        /\ phase' = IF x.kx.state < EXECUTED THEN "panic" ELSE "finish"
  BY Zenon DEF KeepFinalize
<1>2. phase = "finalize" /\ ~SkipKeep /\ UNCHANGED <<resultVars, marks>>
  BY DEF KeepFinalize
<1>3. x.kx \in KExec /\ KeepFinalizes(ax') /\ x.kx.state = EXECUTED
  BY <1>1, <1>2, KeepPreparedShape
<1>4. kx' \in KExec
  <2>1. FINALIZED \in 0 .. 3
    BY DEF FINALIZED
  <2>2. QED BY <1>1, <1>3, <2>1 DEF KExec
<1>5. SameShape(ax')
  BY <1>3, KeepFinalizesShape DEF SoundInv, SoundTypes
<1>6. phase' = "finish"
  BY <1>1, <1>3 DEF EXECUTED
<1>7. equiv' \in 0 .. Len(ax)
  BY <1>1 DEF SoundInv, SoundTypes
<1>8. drv = "finishing"
  BY <1>2 DEF TempInv, CallOK
<1>9. QED BY <1>2, <1>4, <1>5, <1>6, <1>7, <1>8, ShapeSame, ShapeSound

-----------------------------------------------------------------------------
(* The invariant is inductive: the steps around a call *)

(* The return of a call, and what mail_deliver does with the answer.       *)
LEMMA AroundSound ==
  ASSUME SoundInv, TempInv, Executed \/ Finished \/ Deliver
  PROVE  SoundInv'
<1>1. UNCHANGED <<resultVars, ax, kx, equiv>> /\ phase' \in {"idle", phase} /\ phase # "panic"
  <2>1. CASE Executed
    BY <2>1 DEF Executed
  <2>2. CASE Finished
    BY <2>2 DEF Finished
  <2>3. CASE Deliver
    BY <2>3 DEF Deliver, SoundInv, PhaseOK
  <2>4. QED BY <2>1, <2>2, <2>3
<1>2. marks' \in Marks
  <2>1. marks \in Marks
    BY DEF SoundInv, SoundTypes, Marks
  <2>2. CASE Finished
    BY <2>1, <2>2 DEF Finished, Marks
  <2>3. CASE Executed \/ Deliver
    BY <2>1, <2>3 DEF Executed, Deliver, worldVars
  <2>4. QED BY <2>2, <2>3
<1>3. DriverTypes'
  BY DEF Executed, Finished, Deliver, SoundInv, DriverTypes
<1>4. SoundTypes'
  BY <1>1, <1>2 DEF SoundInv, SoundTypes, ResultTypeOK, resultVars, Marks
<1>5. PhaseOK'
  <2>1. phase' # "panic" /\ phase' # "finalize"
    BY <1>1 DEF Executed, Finished, Deliver, TempInv, CallOK
  <2>2. equiv # 0 => drv' \in {"finishing", "deliver", "done"}
    BY DEF Executed, Finished, Deliver, SoundInv, PhaseOK
  <2>3. QED BY <1>1, <2>1, <2>2 DEF PhaseOK
<1>6. (Consistent(list, acts) /\ TargetsOK(acts) /\ RefsOK(ax, acts) /\ Distinct(ax))'
  BY <1>1 DEF resultVars, SoundInv, Consistent, TargetsOK, RefsOK, Distinct
<1>7. QED BY <1>3, <1>4, <1>5, <1>6 DEF SoundInv

(* A new try starts from scratch.                                          *)
LEMMA RedeliverSound ==
  ASSUME SoundInv, TempInv, Redeliver
  PROVE  SoundInv'
<1>1. /\ acts' = <<>> /\ list' = <<>> /\ ax' = <<>> /\ execSeq' = 0 /\ keepDef' = "none"
      /\ equiv' = 0 /\ kx' = NewKeepExec("none") /\ UNCHANGED <<phase, marks>>
      /\ drv = "done" /\ drv' = "open"
  BY DEF Redeliver, worldVars
<1>2. kx' \in KExec
  BY <1>1 DEF NewKeepExec, KExec, Status, INIT
<1>3. SoundTypes'
  BY <1>1, <1>2 DEF SoundTypes, ResultTypeOK, SoundInv
<1>4. DriverTypes'
  <2>1. ScriptCount \in Nat \ {0} /\ MaxCommands \in Nat /\ MaxDeliveries \in Nat \ {0}
    BY LdaAssumption
  <2>2. /\ script' = 1 /\ loaded' = FALSE /\ cmds' = 0 /\ verdict' = "none"
        /\ tries' = tries + 1 /\ tries < MaxDeliveries
    BY DEF Redeliver
  <2>3. 1 \in 1 .. ScriptCount + 1 /\ 0 \in 0 .. MaxCommands
    BY <2>1
  <2>4. tries' \in 1 .. MaxDeliveries
    BY <2>1, <2>2 DEF SoundInv, DriverTypes
  <2>5. loaded' \in BOOLEAN
    BY <2>2
  <2>6. QED BY <2>2, <2>3, <2>4, <2>5 DEF DriverTypes, Discard
<1>5. (Consistent(list, acts) /\ TargetsOK(acts) /\ RefsOK(ax, acts) /\ Distinct(ax))'
  BY <1>1 DEF Consistent, TargetsOK, RefsOK, Distinct
<1>6. PhaseOK'
  BY <1>1 DEF PhaseOK, SoundInv, TempInv, CallOK
<1>7. QED BY <1>3, <1>4, <1>5, <1>6 DEF SoundInv

(* Together.                                                               *)
LEMMA SoundInvNext == SoundInv /\ TempInv /\ [Next]_vars => SoundInv'
<1> SUFFICES ASSUME SoundInv, TempInv, [Next]_vars PROVE SoundInv'
  OBVIOUS
<1>1. CASE OpenScript \/ OpenFailed \/ RunFailed \/ RunCorrupt \/ Reopen \/ NextScript
           \/ StartDiscard \/ EndScripts
  <2> USE DEF OpenScript, OpenFailed, RunFailed, RunCorrupt, Reopen, NextScript, StartDiscard, EndScripts
  <2>1. UNCHANGED <<acts, list, execSeq, execVars>> /\ drv \in Working /\ drv' \in Working
    BY <1>1 DEF resultVars, Working
  <2>2. keepDef' \in {"none", "store"}
    BY <1>1 DEF resultVars, SoundInv, SoundTypes, ResultTypeOK
  <2>3. script' \in 1 .. Discard
    <3>1. script' = script \/ (script' = script + 1 /\ script < ScriptCount) \/ script' = Discard
      BY <1>1 DEF HasNext
    <3>2. script \in 1 .. Discard /\ ScriptCount \in Nat \ {0}
      BY LdaAssumption DEF SoundInv, DriverTypes
    <3>3. QED BY <3>1, <3>2 DEF Discard
  <2>4. loaded' \in BOOLEAN
    BY <1>1 DEF SoundInv, DriverTypes
  <2>5. UNCHANGED <<cmds, verdict, tries>>
    BY <1>1
  <2>6. DriverTypes'
    BY <2>3, <2>4, <2>5 DEF SoundInv, DriverTypes
  <2>7. QED BY <2>1, <2>2, <2>6, DriverSound
<1>2. CASE RunCommand
  BY <1>2, RunCommandSound
<1>3. CASE RunDone
  <2>1. DriverTypes' /\ keepDef' \in {"none", "store"}
    BY <1>3 DEF RunDone, SoundInv, DriverTypes, SoundTypes, ResultTypeOK
  <2>2. Execute("OK", FALSE) /\ drv \in Working /\ drv' = "executing" /\ "OK" \in Status
    BY <1>3, Zenon DEF RunDone, Working, Status
  <2>3. QED BY <2>1, <2>2, ExecuteSound
<1>4. CASE MultiscriptFinish
  <2> DEFINE s == IF err = "TEMP_FAILURE" THEN "TEMP_FAILURE" ELSE ms.status
  <2>1. DriverTypes' /\ keepDef' \in {"none", "store"} /\ ms' = ms
    BY <1>4 DEF MultiscriptFinish, SoundInv, DriverTypes
  <2>2. Execute(s, TRUE) /\ drv \in Working /\ drv' = "finishing"
    BY <1>4 DEF MultiscriptFinish, Working
  <2>3. s \in Status /\ (s = "BIN_CORRUPT" => ms.status = "BIN_CORRUPT")
    BY DEF TempInv, StateTypeOK, Multiscript, Status
  <2> HIDE DEF s
  <2>4. QED BY <2>1, <2>2, <2>3, ExecuteSound
<1>5. CASE ExecutionStep /\ UNCHANGED ldaVars
  <2>1. CASE KeepFinalizeSkip \/ Finish
    <3>1. /\ UNCHANGED <<resultVars, ax, kx, equiv, marks>>
          /\ phase \in {"finalize", "finish"} /\ phase' \in {"finish", "return"}
      BY <2>1 DEF KeepFinalizeSkip, Finish, worldVars
    <3>2. QED BY <1>5, <3>1, PlainStepSound
  <2>2. QED BY <1>5, <2>1, ExecuteActionSound, ExecuteDoneSound, KeepExecuteSound, FinalizeActionSound,
               CommitDoneSound, KeepByOtherSound, KeepFinalizeSound DEF ExecutionStep
<1>6. CASE Executed \/ Finished \/ Deliver
  BY <1>6, AroundSound
<1>7. CASE Redeliver
  BY <1>7, RedeliverSound
<1>8. CASE UNCHANGED vars
  BY <1>8 DEF vars, resultVars, execVars, worldVars, ldaVars, SoundInv, SoundTypes, ResultTypeOK,
              DriverTypes, Consistent, TargetsOK, RefsOK, Distinct, PhaseOK
<1>9. QED BY <1>1, <1>2, <1>3, <1>4, <1>5, <1>6, <1>7, <1>8 DEF Next

(* While scripts run and their results are executed piece by piece, every  *)
(* variable keeps its type, the linked list of actions stays a list with   *)
(* one keep at most, every reference into it leads to an action, and no    *)
(* assertion of sieve-result.c fails, except for a binary that turned out  *)
(* to be corrupt.                                                          *)
THEOREM ResultIsSound == Spec => []ResultSound
<1>1. TempInv /\ SoundInv => ResultSound
  <2> SUFFICES ASSUME TempInv, SoundInv PROVE ResultSound
    OBVIOUS
  <2>1. TypeOK
    BY DEF TempInv, StateTypeOK, SoundInv, SoundTypes, DriverTypes, TypeOK, ExecutionTypeOK
  <2>2. ListConsistent
    BY DEF SoundInv, SoundTypes, ResultTypeOK, Consistent, ListConsistent
  <2>3. NoPanic
    BY DEF SoundInv, PhaseOK, NoPanic
  <2>4. QED BY <2>1, <2>2, <2>3 DEF ResultSound
<1>2. QED BY <1>1, TempInvInit, TempInvNext, SoundInvInit, SoundInvNext, PTL DEF Spec

-----------------------------------------------------------------------------
(* One answer in turn: what adding an action does *)

(* An action that would answer meets another one: it is refused, merged or *)
(* silenced, and only a reject can be silenced.                            *)
LEMMA MeetSpeaker ==
  ASSUME NEW a, NEW o, ~a.keep, a.def \in SendsResponse, o.def \in SendsResponse
  PROVE  \/ Meet(a, o) \in {"error", "merge", "skip"}
         \/ Meet(a, o) = "silence" /\ a.def = "reject"
<1>1. CASE o.def = a.def
  <2>1. CheckDuplicate(a, o) \in {"error", "duplicate"}
    BY DEF CheckDuplicate, SendsResponse, TriesDeliver
  <2>2. QED BY <1>1, <2>1 DEF Meet, SendsResponse
<1>2. CASE o.def # a.def
  <2>1. \A b : CheckConflict(a, o, b) \in {"silence", "error", "skip"}
               /\ (CheckConflict(a, o, b) = "silence" => a.def = "reject")
    BY <1>2 DEF CheckConflict, SendsResponse, TriesDeliver
  <2>2. QED BY <1>2, <2>1 DEF Meet, SendsResponse
<1>3. QED BY <1>1, <1>2

(* Unlinking loses no other element.                                       *)
LEMMA RemoveAtKeeps ==
  ASSUME NEW S, NEW s \in Seq(S), NEW p \in 1 .. Len(s), NEW k \in 1 .. Len(s), k # p
  PROVE  \E j \in 1 .. Len(s) - 1 : RemoveAt(s, p)[j] = s[k]
<1> DEFINE j == IF k < p THEN k ELSE k - 1
<1>1. Len(s) \in Nat
  OBVIOUS
<1>2. j \in 1 .. Len(s) - 1 /\ (IF j < p THEN j ELSE j + 1) = k
  BY <1>1
<1>3. \A i \in 1 .. Len(s) - 1 : RemoveAt(s, p)[i] = s[IF i < p THEN i ELSE i + 1]
  BY RemoveAtFacts
<1> HIDE DEF j
<1>4. QED BY <1>2, <1>3

(* The result after a command: only a keep of this script replaced another *)
(* action, and one action answers at most.                                 *)
AddedInTurn(a, r) ==
  /\ \A o \in 1 .. Len(acts) : r.acts[o] = acts[o] \/ (r.acts[o].keep /\ r.acts[o].seq = a.seq)
  /\ \A o \in 1 .. Len(r.acts) : o \in 1 .. Len(acts) \/ r.acts[o].seq = a.seq
  /\ SpeakersOK(r.acts, r.list)

(* The objects after one of them was replaced by a keep.                   *)
LEMMA ReplacedInTurn ==
  ASSUME ResultTypeOK, SpeakersOK(acts, list), NEW a \in Action, a.keep,
         a.def \in {"none", "store"}, NEW o \in 1 .. Len(acts), NEW l,
         \A x \in 1 .. Len(acts) :
           x = o \/ acts[x].keep \/ \E i \in 1 .. Len(l) : l[i] = x
  PROVE  AddedInTurn(a, [acts |-> Replaced(a, o), list |-> l])
<1> DEFINE A == Replaced(a, o)
<1>1. /\ Len(A) = Len(acts)
      /\ A[o].def = a.def /\ A[o].keep = a.keep /\ A[o].seq = a.seq
      /\ \A x \in 1 .. Len(acts) : x # o => A[x] = acts[x]
  BY ReplacedFacts
<1> HIDE DEF A
<1>2. \A x \in 1 .. Len(acts) : A[x].keep => A[x].def \in {"none", "store"}
  BY <1>1 DEF SpeakersOK
<1>3. \A x \in 1 .. Len(acts) : A[x].keep \/ \E i \in 1 .. Len(l) : l[i] = x
  BY <1>1
<1>4. ~Speaker(A[o])
  BY <1>1 DEF Speaker
<1>5. \A x, y \in 1 .. Len(acts) : Speaker(A[x]) /\ Speaker(A[y]) => x = y
  BY <1>1, <1>4 DEF SpeakersOK
<1>6. SpeakersOK(A, l)
  BY <1>1, <1>2, <1>3, <1>5 DEF SpeakersOK
<1>7. \A x \in 1 .. Len(acts) : A[x] = acts[x] \/ (A[x].keep /\ A[x].seq = a.seq)
  BY <1>1
<1>8. QED BY <1>1, <1>6, <1>7 DEF AddedInTurn, A

(* Each way of adding an action keeps to this.                             *)
LEMMA RecycledInTurn ==
  ASSUME ResultTypeOK, Consistent(list, acts), SpeakersOK(acts, list), NEW a \in Action,
         a.keep => a.def \in {"none", "store"}, NEW r, Recycled(a, r)
  PROVE  AddedInTurn(a, r)
<1>1. PICK p \in 1 .. Len(list) :
       /\ r.list = Append(RemoveAt(list, p), list[p])
       /\ r.acts = Replaced(a, list[p])
  BY DEF Recycled
<1>2. list \in Seq(1 .. Len(acts)) /\ list[p] \in 1 .. Len(acts) /\ Len(list) \in Nat
  BY DEF ResultTypeOK
<1> DEFINE s == RemoveAt(list, p)
           l == Append(s, list[p])
<1>3. s \in Seq(1 .. Len(acts)) /\ Len(s) = Len(list) - 1
  BY <1>2, Unlinked
<1> HIDE DEF s
<1>4. /\ Len(l) = Len(list) /\ l[Len(list)] = list[p]
      /\ \A j \in 1 .. Len(list) - 1 : l[j] = s[j] /\ j \in 1 .. Len(l)
  BY <1>2, <1>3
<1>5. ASSUME NEW x \in 1 .. Len(acts)
      PROVE  x = list[p] \/ acts[x].keep \/ \E i \in 1 .. Len(l) : l[i] = x
  <2>1. SUFFICES ASSUME x # list[p], ~acts[x].keep PROVE \E i \in 1 .. Len(l) : l[i] = x
    OBVIOUS
  <2>2. PICK k \in 1 .. Len(list) : list[k] = x
    BY <2>1 DEF SpeakersOK
  <2>3. PICK j \in 1 .. Len(list) - 1 : s[j] = x
    BY <1>2, <2>1, <2>2, RemoveAtKeeps DEF s
  <2>4. QED BY <1>4, <2>3
<1> HIDE DEF l
<1>6. a.keep /\ a.def \in {"none", "store"}
  BY DEF Recycled
<1>7. AddedInTurn(a, [acts |-> Replaced(a, list[p]), list |-> l])
  BY <1>2, <1>5, <1>6, ReplacedInTurn
<1>8. QED BY <1>1, <1>7 DEF AddedInTurn, l, s

(* A keep in the place of a store, or a store that becomes the keep,       *)
LEMMA MovedInTurn ==
  ASSUME ResultTypeOK, Consistent(list, acts), SpeakersOK(acts, list), NEW a \in Action,
         a.keep => a.def \in {"none", "store"}, NEW r, Moved(a, r) \/ Taken(a, r)
  PROVE  AddedInTurn(a, r)
<1>1. PICK q \in 1 .. Len(list) :
       /\ r.acts = Replaced(a, list[q])
       /\ \/ r.list = list
          \/ \E p \in 1 .. Len(list) : acts[list[p]].keep /\ r.list = RemoveAt(list, p)
  BY DEF Moved, Taken
<1>2. list \in Seq(1 .. Len(acts)) /\ list[q] \in 1 .. Len(acts) /\ Len(list) \in Nat
  BY DEF ResultTypeOK
<1>3. ASSUME NEW x \in 1 .. Len(acts)
      PROVE  acts[x].keep \/ \E i \in 1 .. Len(r.list) : r.list[i] = x
  <2>1. SUFFICES ASSUME ~acts[x].keep PROVE \E i \in 1 .. Len(r.list) : r.list[i] = x
    OBVIOUS
  <2>2. PICK k \in 1 .. Len(list) : list[k] = x
    BY <2>1 DEF SpeakersOK
  <2>3. CASE r.list = list
    BY <2>2, <2>3
  <2>4. CASE \E p \in 1 .. Len(list) : acts[list[p]].keep /\ r.list = RemoveAt(list, p)
    <3>1. PICK p \in 1 .. Len(list) : acts[list[p]].keep /\ r.list = RemoveAt(list, p)
      BY <2>4
    <3>2. k # p
      BY <2>1, <2>2, <3>1
    <3>3. \E j \in 1 .. Len(list) - 1 : RemoveAt(list, p)[j] = list[k]
      BY <1>2, <3>2, RemoveAtKeeps
    <3>4. PICK j \in 1 .. Len(list) - 1 : r.list[j] = x
      BY <2>2, <3>1, <3>3
    <3>5. Len(r.list) = Len(list) - 1
      BY <3>1, Unlinked
    <3>6. QED BY <3>4, <3>5
  <2>5. QED BY <1>1, <2>3, <2>4
<1>4. a.keep /\ a.def \in {"none", "store"}
  BY DEF Moved, Taken
<1> DEFINE l == r.list
<1> HIDE DEF l
<1>5. AddedInTurn(a, [acts |-> Replaced(a, list[q]), list |-> l])
  BY <1>2, <1>3, <1>4, ReplacedInTurn DEF l
<1>6. QED BY <1>1, <1>5 DEF AddedInTurn, l

(* and an action that joins the list.                                      *)
LEMMA JoinedInTurn ==
  ASSUME ResultTypeOK, SpeakersOK(acts, list), NEW a \in Action, a.silent = FALSE,
         a.keep => a.def \in {"none", "store"}, NEW r, Joined(a, r)
  PROVE  AddedInTurn(a, r)
<1> DEFINE b == \E i \in 1 .. Len(list) : Meet(a, acts[list[i]]) = "silence"
           c == [a EXCEPT !.silent = b]
           n == Len(acts) + 1
<1>1. r.list = Append(list, n) /\ r.acts = Append(acts, c)
  BY Zenon DEF Joined
<1>2. b \in BOOLEAN
  OBVIOUS
<1>3. \A i \in 1 .. Len(list) : Meet(a, acts[list[i]]) = "silence" => b
  BY Zenon
<1> HIDE DEF b
<1>4. c.def = a.def /\ c.keep = a.keep /\ c.seq = a.seq /\ c.silent = b
  BY <1>2 DEF Action
<1> HIDE DEF c
<1>5. /\ acts \in Seq(Action) /\ list \in Seq(1 .. Len(acts))
      /\ Len(list) \in Nat /\ Len(acts) \in Nat
  BY DEF ResultTypeOK
<1>6. /\ Len(r.acts) = n /\ r.acts[n] = c /\ \A o \in 1 .. Len(acts) : r.acts[o] = acts[o]
      /\ Len(r.list) = Len(list) + 1 /\ r.list[Len(list) + 1] = n
      /\ \A i \in 1 .. Len(list) : r.list[i] = list[i]
  BY <1>1, <1>5
<1>7. \A o \in 1 .. n : o = n \/ o \in 1 .. Len(acts)
  BY <1>5
<1>8. Speaker(c) => \A o \in 1 .. Len(acts) : ~Speaker(acts[o])
  <2> SUFFICES ASSUME Speaker(c), NEW o \in 1 .. Len(acts), Speaker(acts[o]) PROVE FALSE
    OBVIOUS
  <2>1. ~acts[o].keep /\ acts[o].def \in SendsResponse
    BY DEF SpeakersOK, Speaker, SendsResponse
  <2>2. ~a.keep /\ a.def \in SendsResponse
    BY <1>4 DEF Speaker, SendsResponse
  <2>3. PICK i \in 1 .. Len(list) : list[i] = o
    BY <2>1 DEF SpeakersOK
  <2>4. Meet(a, acts[list[i]]) = "silence" /\ a.def = "reject"
    BY <2>1, <2>2, <2>3, MeetSpeaker DEF Joined
  <2>5. QED BY <1>3, <1>4, <2>4 DEF Speaker
<1>9. SpeakersOK(r.acts, r.list)
  <2>1. \A o \in 1 .. n : r.acts[o].keep => r.acts[o].def \in {"none", "store"}
    BY <1>4, <1>6, <1>7 DEF SpeakersOK
  <2>2. \A o \in 1 .. n : r.acts[o].keep \/ \E i \in 1 .. Len(r.list) : r.list[i] = o
    <3>1. \E i \in 1 .. Len(list) + 1 : r.list[i] = n
      BY <1>5, <1>6
    <3>2. ASSUME NEW o \in 1 .. Len(acts), ~acts[o].keep
          PROVE  \E i \in 1 .. Len(list) + 1 : r.list[i] = o
      <4>1. PICK i \in 1 .. Len(list) : list[i] = o
        BY <3>2 DEF SpeakersOK
      <4>2. i \in 1 .. Len(list) + 1
        BY <1>5
      <4>3. QED BY <1>6, <4>1, <4>2
    <3>3. QED BY <1>6, <1>7, <3>1, <3>2
  <2>3. \A o, p \in 1 .. n : Speaker(r.acts[o]) /\ Speaker(r.acts[p]) => o = p
    BY <1>6, <1>7, <1>8 DEF SpeakersOK
  <2>4. QED BY <1>6, <2>1, <2>2, <2>3 DEF SpeakersOK
<1>10. \A o \in 1 .. n : o \in 1 .. Len(acts) \/ r.acts[o].seq = a.seq
  BY <1>4, <1>6, <1>7
<1>11. QED BY <1>6, <1>9, <1>10 DEF AddedInTurn

(* Whatever a command adds, one action answers at most.                    *)
LEMMA AddActionInTurn ==
  ASSUME ResultTypeOK, Consistent(list, acts), SpeakersOK(acts, list), NEW a \in Action,
         a.silent = FALSE, a.keep => a.def \in {"none", "store"}
  PROVE  AddedInTurn(a, AddAction(a))
<1> DEFINE r == AddAction(a)
<1>1. Unmoved(r) \/ Recycled(a, r) \/ Moved(a, r) \/ Taken(a, r) \/ Joined(a, r)
  BY AddActionCases
<1> HIDE DEF r
<1>2. CASE Unmoved(r)
  <2>1. r.acts = acts /\ r.list = list
    BY <1>2 DEF Unmoved
  <2>2. QED BY <2>1 DEF AddedInTurn, r
<1>3. QED BY <1>1, <1>2, RecycledInTurn, MovedInTurn, JoinedInTurn DEF r

-----------------------------------------------------------------------------
(* One answer in turn: initially, and the steps of the plugin *)

(* Initially there is nothing to say.                                      *)
LEMMA TurnInvInit == Init => TurnInv
<1> SUFFICES ASSUME Init PROVE TurnInv
  OBVIOUS
<1>1. /\ acts = <<>> /\ list = <<>> /\ ax = <<>> /\ phase = "idle" /\ replies = 0
      /\ drv = "open" /\ rx.status = "OK"
  BY DEF Init, ResultInit, ExecutionInit, NewRExec
<1>2. SpeakersOK(acts, list) /\ SeqsOK /\ SilentOK /\ UnrunOK /\ DeliveryOK
  BY <1>1 DEF SpeakersOK, SeqsOK, SilentOK, UnrunOK, DeliveryOK
<1>3. StatusOK /\ RepliesOK
  BY <1>1 DEF StatusOK, RepliesOK
<1>4. QED BY <1>2, <1>3 DEF TurnInv

(* A step of the plugin that leaves the result and its execution alone.    *)
LEMMA DriverTurn ==
  ASSUME TurnInv, UNCHANGED <<acts, list, execSeq, execVars, tries>>,
         drv \in Working, drv' \in Working, StatusOK'
  PROVE  TurnInv'
<1> USE DEF execVars, worldVars
<1>1. SpeakersOK(acts, list)'
  BY DEF TurnInv, SpeakersOK
<1>2. SeqsOK' /\ SilentOK' /\ UnrunOK'
  BY DEF TurnInv, SeqsOK, SilentOK, UnrunOK
<1>3. RepliesOK'
  BY DEF TurnInv, RepliesOK, Working
<1>4. DeliveryOK'
  BY DEF TurnInv, DeliveryOK, Delivers
<1>5. QED BY <1>1, <1>2, <1>3, <1>4 DEF TurnInv

(* A script that was aborted is reported, and ends the sequence.           *)
LEMMA AbortedStatus ==
  ASSUME TempInv, NEW s \in Status, s # "OK"
  PROVE  Aborted(s).status # "OK" /\ ~Aborted(s).active
BY DEF TempInv, StateTypeOK, Multiscript, Aborted

(* The steps that open, run and follow a script: one that runs follows a   *)
(* sequence without failure, and the discard script no delivery.           *)
LEMMA ScriptStatus ==
  ASSUME TurnInv, TempInv,
         \/ OpenScript \/ OpenFailed \/ RunFailed \/ RunCorrupt \/ Reopen
         \/ NextScript \/ StartDiscard \/ EndScripts
  PROVE  StatusOK'
<1> USE DEF execVars
<1>1. StatusOK
  BY DEF TurnInv
<1>2. CASE OpenScript \/ Reopen
  <2>1. UNCHANGED <<rx, ms, script>> /\ drv \in Working /\ drv' \in {"run", "next"}
        /\ (drv' = "run" => WillRun)
    BY <1>2 DEF OpenScript, Reopen, Working
  <2>2. drv' = "run" => rx.status = "OK" /\ (script = Discard => ~rx.executedDelivery)
    BY <1>1, <2>1 DEF StatusOK, WillRun, WillDiscard
  <2>3. QED BY <1>1, <2>1, <2>2 DEF StatusOK
<1>3. CASE RunFailed \/ RunCorrupt
  <2>1. drv = "run" /\ rx' = rx /\ drv' # "run"
    BY <1>3 DEF RunFailed, RunCorrupt
  <2>2. QED BY <1>1, <2>1 DEF StatusOK
<1>4. CASE OpenFailed \/ NextScript \/ StartDiscard \/ EndScripts
  <2>1. UNCHANGED <<rx, ms>> /\ drv \in Working /\ drv' # "run"
    BY <1>4 DEF OpenFailed, NextScript, StartDiscard, EndScripts, Working
  <2>2. QED BY <1>1, <2>1 DEF StatusOK
<1>5. QED BY <1>2, <1>3, <1>4

(* A command: what it replaces was not executed as it is now.              *)
LEMMA RunCommandTurn ==
  ASSUME SoundInv, TempInv, TurnInv, RunCommand
  PROVE  TurnInv'
<1>1. PICK c \in Command : acts' = AddAction(ActionOf(c)).acts /\ list' = AddAction(ActionOf(c)).list
  BY DEF RunCommand
<1>2. AddedInTurn(ActionOf(c), AddAction(ActionOf(c))) /\ ActionOf(c).seq = execSeq
  BY ActionOfType, AddActionInTurn DEF SoundInv, SoundTypes, TurnInv
<1>3. /\ \A o \in 1 .. Len(acts) : acts'[o] = acts[o] \/ (acts'[o].keep /\ acts'[o].seq = execSeq)
      /\ \A o \in 1 .. Len(acts') : o \in 1 .. Len(acts) \/ acts'[o].seq = execSeq
      /\ SpeakersOK(acts', list')
  BY <1>1, <1>2 DEF AddedInTurn
<1>4. UNCHANGED <<execSeq, execVars, script, tries>> /\ drv = "run" /\ drv' \in {"run", "next"}
  BY DEF RunCommand
<1>5. execSeq \in Nat /\ Len(acts) \in Nat /\ ax \in Seq(AExec)
  BY DEF SoundInv, SoundTypes, ResultTypeOK
<1>6. SeqsOK'
  <2>1. \A o \in 1 .. Len(acts') : acts'[o].seq <= execSeq
    BY <1>3, <1>5 DEF TurnInv, SeqsOK
  <2>2. QED BY <1>4, <2>1 DEF execVars, TurnInv, SeqsOK
<1>7. \A i \in 1 .. Len(ax) : ax[i].obj \in 1 .. Len(acts) /\ ax[i].obj \in 1 .. Len(acts')
  <2>1. RefsOK(ax, acts) /\ AddedWell(AddAction(ActionOf(c)))
    BY ActionOfType, AddActionWell DEF SoundInv, SoundTypes
  <2>2. acts' \in Seq(Action) /\ Len(acts) <= Len(acts')
    BY <1>1, <2>1 DEF AddedWell
  <2>3. Len(acts') \in Nat
    BY <2>2
  <2>4. QED BY <1>5, <2>1, <2>2, <2>3 DEF RefsOK
<1>8. SilentOK'
  <2> SUFFICES ASSUME NEW i \in 1 .. Len(ax), Silenced(acts'[ax[i].obj])
               PROVE  Quiet(ax[i])
    BY <1>4 DEF execVars, SilentOK
  <2>1. acts'[ax[i].obj] = acts[ax[i].obj]
    BY <1>3, <1>7 DEF SpeakersOK, Silenced
  <2>2. QED BY <2>1 DEF TurnInv, SilentOK
<1>9. DeliveryOK'
  <2> SUFFICES ASSUME NEW i \in 1 .. Len(ax), Delivers(i)'
               PROVE  rx.executedDelivery \/ (phase = "execute" /\ rx.seenDelivery) \/ rx.status # "OK"
    BY <1>4 DEF execVars, DeliveryOK
  <2>1. ax[i].seq = acts'[ax[i].obj].seq
    BY <1>4 DEF Delivers, execVars
  <2>2. ax[i].seq < execSeq /\ ax[i].seq \in Nat
    <3>1. ax[i] \in AExec
      BY <1>5
    <3>2. ax[i].seq \in Nat
      BY <3>1 DEF AExec
    <3>3. QED BY <3>2 DEF TurnInv, SeqsOK
  <2>3. ax[i].seq # execSeq
    BY <1>5, <2>2
  <2>4. acts'[ax[i].obj] = acts[ax[i].obj]
    BY <1>3, <1>7, <2>1, <2>3
  <2>5. Delivers(i)
    BY <1>4, <2>4 DEF Delivers, execVars
  <2>6. QED BY <1>4, <2>5 DEF TurnInv, DeliveryOK, Working
<1>10. UnrunOK' /\ RepliesOK' /\ StatusOK'
  BY <1>4 DEF execVars, worldVars, TurnInv, UnrunOK, RepliesOK, StatusOK, Working
<1>11. QED BY <1>3, <1>6, <1>8, <1>9, <1>10 DEF TurnInv

(* Where an execution state comes from when a call is entered: it is one   *)
(* of the last call, or that of an action which is yet to be executed and  *)
(* is not committed before, unless it was to be or it is a keep.           *)
Origin(e) ==
  \/ \E k \in 1 .. Len(ax) : e = ax[k]
  \/ /\ e.state < EXECUTED
     /\ \/ acts[e.obj].keep
        \/ ~e.commit
        \/ \E k \in 1 .. Len(ax) : /\ ax[k].obj = e.obj /\ ax[k].state < EXECUTED
                                   /\ ax[k].commit = e.commit

(* The origin of the states of the updated execution.                      *)
LEMMA UpdatedOrigin ==
  ASSUME SoundInv
  PROVE  \A i \in 1 .. Len(UpdatedExecution) : Origin(UpdatedExecution[i])
<1> DEFINE U == UpdatedExecution
<1>1. ResultTypeOK /\ ax \in Seq(AExec) /\ RefsOK(ax, acts)
  BY DEF SoundInv, SoundTypes
<1>2. \A i \in 1 .. Len(U) : \/ \E k \in 1 .. Len(ax) : U[i] = Updated(ax[k])
                             \/ \E k \in 1 .. Len(list) : U[i] = FreshExec(list[k])
  BY <1>1, UpdatedExecutionFacts DEF SoundInv
<1> HIDE DEF U
<1>3. SUFFICES ASSUME NEW i \in 1 .. Len(U) PROVE Origin(U[i])
  BY DEF U
<1>4. CASE \E k \in 1 .. Len(ax) : U[i] = Updated(ax[k])
  <2>1. PICK k \in 1 .. Len(ax) : U[i] = Updated(ax[k])
    BY <1>4
  <2> DEFINE e == ax[k]
  <2>2. e \in AExec /\ e.obj \in 1 .. Len(acts) /\ (e.seq = acts[e.obj].seq \/ acts[e.obj].keep)
    BY <1>1 DEF RefsOK
  <2> HIDE DEF e
  <2>3. /\ Updated(e).obj = e.obj
        /\ Updated(e).seq = acts[e.obj].seq
        /\ Updated(e).seq = e.seq => Updated(e) = e
        /\ Updated(e).seq # e.seq => Updated(e).state = INIT
    BY <1>1, <2>2, UpdatedType
  <2>4. Updated(e) = e \/ (Updated(e).state = INIT /\ acts[Updated(e).obj].keep)
    BY <2>2, <2>3
  <2>5. Updated(e) = e \/ (Updated(e).state < EXECUTED /\ acts[Updated(e).obj].keep)
    BY <2>4 DEF INIT, EXECUTED
  <2>6. QED BY <2>1, <2>5 DEF Origin, e
<1>5. CASE \E k \in 1 .. Len(list) : U[i] = FreshExec(list[k])
  <2>1. PICK k \in 1 .. Len(list) : U[i] = FreshExec(list[k])
    BY <1>5
  <2> DEFINE o == list[k]
  <2>2. o \in 1 .. Len(acts)
    BY <1>1 DEF ResultTypeOK
  <2> HIDE DEF o
  <2>3. FreshExec(o).state = INIT /\ FreshExec(o).commit = FALSE
    BY <1>1, <2>2, FreshExecType
  <2>4. QED BY <2>1, <2>3 DEF Origin, o, INIT, EXECUTED
<1>6. QED BY <1>2, <1>4, <1>5

(* Starting an action changes nothing about that.                          *)
LEMMA StartedOrigin ==
  ASSUME SoundInv, NEW e \in AExec, Origin(e)
  PROVE  Origin(Started(e))
<1>1. /\ Started(e).obj = e.obj /\ Started(e).commit = e.commit
      /\ e.state >= STARTED => Started(e) = e
      /\ e.state < STARTED => Started(e).state = STARTED
  BY StartedType
<1>2. e.state \in 0 .. 3
  BY DEF AExec
<1>3. CASE e.state >= STARTED
  BY <1>1, <1>3
<1>4. CASE e.state < STARTED
  <2>1. Started(e).state < EXECUTED /\ e.state < EXECUTED
    BY <1>1, <1>2, <1>4 DEF STARTED, EXECUTED
  <2>2. CASE \E k \in 1 .. Len(ax) : e = ax[k]
    BY <1>1, <2>1, <2>2 DEF Origin
  <2>3. CASE ~\E k \in 1 .. Len(ax) : e = ax[k]
    <3>1. \/ acts[e.obj].keep
          \/ ~e.commit
          \/ \E k \in 1 .. Len(ax) : /\ ax[k].obj = e.obj /\ ax[k].state < EXECUTED
                                     /\ ax[k].commit = e.commit
      BY <2>3 DEF Origin
    <3>2. QED BY <1>1, <2>1, <3>1 DEF Origin
  <2>4. QED BY <2>2, <2>3
<1>5. QED BY <1>2, <1>3, <1>4 DEF STARTED

(* A silenced reject of that origin stays quiet, and a delivery that was   *)
(* executed was executed before.                                           *)
LEMMA OriginQuiet ==
  ASSUME TurnInv, NEW e, Origin(e), e.obj \in 1 .. Len(acts), Silenced(acts[e.obj])
  PROVE  Quiet(e)
<1>1. ~acts[e.obj].keep
  BY DEF TurnInv, SpeakersOK, Silenced
<1>2. CASE \E k \in 1 .. Len(ax) : e = ax[k]
  BY <1>2 DEF TurnInv, SilentOK
<1>3. CASE e.state < EXECUTED
  <2>1. e.state # EXECUTED
    BY <1>3 DEF EXECUTED
  <2>2. ~e.commit
    <3>1. \/ ~e.commit
          \/ \E k \in 1 .. Len(ax) : e = ax[k]
          \/ \E k \in 1 .. Len(ax) : /\ ax[k].obj = e.obj /\ ax[k].state < EXECUTED
                                     /\ ax[k].commit = e.commit
      BY <1>1 DEF Origin
    <3>2. ASSUME NEW k \in 1 .. Len(ax), ax[k].obj = e.obj, ax[k].state < EXECUTED,
                 ax[k].commit = e.commit
          PROVE  ~e.commit
      BY <3>2 DEF TurnInv, SilentOK, Quiet
    <3>3. QED BY <1>3, <3>1, <3>2
  <2>3. QED BY <2>1, <2>2 DEF Quiet
<1>4. QED BY <1>2, <1>3 DEF Origin

(* A call is entered: a failure of the sequence keeps the scripts from     *)
(* being executed, and a script is executed only if there was none.        *)
LEMMA ExecuteTurn ==
  ASSUME SoundInv, TempInv, TurnInv, NEW s \in Status, NEW c \in BOOLEAN, Execute(s, c),
         drv \in Working, drv' = IF c THEN "finishing" ELSE "executing", tries' = tries,
         rx.status # "OK" => s # "OK", ~c => s = "OK"
  PROVE  TurnInv'
<1> DEFINE U == UpdatedExecution
           S == [i \in DOMAIN U |-> Started(U[i])]
<1>1. /\ U \in Seq(AExec) /\ RefsOK(U, acts)
      /\ \A i \in 1 .. Len(U) : U[i].seq = acts[U[i].obj].seq
  BY UpdatedWell
<1>2. OnlyKeepRecycled
  BY DEF SoundInv, SoundTypes, RefsOK, OnlyKeepRecycled
<1>3. \A i \in 1 .. Len(U) : Origin(U[i])
  BY UpdatedOrigin
<1> HIDE DEF U
<1>4. /\ S \in Seq(AExec) /\ Len(S) = Len(U)
      /\ \A i \in 1 .. Len(U) : S[i].obj = U[i].obj /\ S[i].seq = U[i].seq /\ Origin(S[i])
  <2>1. Len(U) \in Nat /\ DOMAIN U = 1 .. Len(U) /\ \A i \in 1 .. Len(U) : U[i] \in AExec
    BY <1>1
  <2>2. \A i \in 1 .. Len(U) : S[i] = Started(U[i])
    BY <2>1
  <2>3. \A i \in 1 .. Len(U) : Started(U[i]) \in AExec /\ Started(U[i]).obj = U[i].obj
                               /\ Started(U[i]).seq = U[i].seq /\ Origin(Started(U[i]))
    BY <1>3, <2>1, StartedType, StartedOrigin
  <2>4. S \in [1 .. Len(U) -> AExec]
    BY <2>1, <2>3
  <2> HIDE DEF S
  <2>5. S \in Seq(AExec) /\ DOMAIN S = 1 .. Len(U)
    BY <2>1, <2>4, SeqDef
  <2>6. QED BY <2>1, <2>2, <2>3, <2>5, LenProperties
<1> HIDE DEF S
<1>5. /\ UNCHANGED <<acts, list, replies>> /\ execSeq' = execSeq + 1 /\ phase = "idle"
      /\ loc'.status = s
      /\ \/ phase' = "panic" /\ ax' = ax /\ rx' = rx /\ s = "BIN_CORRUPT"
         \/ /\ phase' = "execute" /\ ax' = S /\ s = "OK" /\ rx.status = "OK"
            /\ rx' = [rx EXCEPT !.seenDelivery = FALSE]
         \/ /\ ax' = U /\ phase' \in {"return", "keep", "commit"} /\ (s # "OK" \/ rx.status # "OK")
  BY <1>2 DEF Execute, AfterExecute, worldVars, U, S
<1>6. \A i \in 1 .. Len(ax') :
        /\ Origin(ax'[i]) /\ ax'[i].obj \in 1 .. Len(acts)
        /\ \/ ax'[i].seq = ax[i].seq /\ ax' = ax
           \/ ax'[i].seq = acts[ax'[i].obj].seq
  <2>1. CASE ax' = ax
    BY <2>1 DEF Origin, SoundInv, RefsOK
  <2>2. CASE ax' = U
    BY <1>1, <1>3, <2>2 DEF RefsOK
  <2>3. CASE ax' = S
    BY <1>1, <1>4, <2>3 DEF RefsOK
  <2>4. QED BY <1>5, <2>1, <2>2, <2>3
<1>7. execSeq \in Nat /\ \A o \in 1 .. Len(acts) : acts[o].seq \in Nat
  <2>1. execSeq \in Nat /\ \A o \in 1 .. Len(acts) : acts[o] \in Action
    BY DEF SoundInv, SoundTypes, ResultTypeOK
  <2>2. QED BY <2>1 DEF Action
<1>8. SpeakersOK(acts, list)'
  BY <1>5 DEF TurnInv, SpeakersOK
<1>9. SeqsOK'
  <2>1. \A o \in 1 .. Len(acts) : acts[o].seq <= execSeq + 1
    BY <1>7 DEF TurnInv, SeqsOK
  <2>2. \A i \in 1 .. Len(ax') : ax'[i].seq < execSeq + 1
    <3> SUFFICES ASSUME NEW i \in 1 .. Len(ax') PROVE ax'[i].seq < execSeq + 1
      OBVIOUS
    <3>1. CASE ax'[i].seq = ax[i].seq /\ ax' = ax
      <4>1. ax[i] \in AExec /\ i \in 1 .. Len(ax)
        BY <3>1 DEF SoundInv, SoundTypes
      <4>2. ax[i].seq \in Nat /\ ax[i].seq < execSeq
        BY <4>1 DEF AExec, TurnInv, SeqsOK
      <4>3. QED BY <1>7, <3>1, <4>2
    <3>2. CASE ax'[i].seq = acts[ax'[i].obj].seq
      <4>1. acts[ax'[i].obj].seq \in Nat /\ acts[ax'[i].obj].seq <= execSeq
        BY <1>6, <1>7 DEF TurnInv, SeqsOK
      <4>2. QED BY <1>7, <3>2, <4>1
    <3>3. QED BY <1>6, <3>1, <3>2
  <2>3. QED BY <1>5, <2>1, <2>2 DEF SeqsOK
<1>10. SilentOK'
  <2>1. \A i \in 1 .. Len(ax') : Silenced(acts[ax'[i].obj]) => Quiet(ax'[i])
    BY <1>6, OriginQuiet
  <2>2. QED BY <1>5, <2>1 DEF SilentOK
<1>11. UnrunOK'
  BY <1>5 DEF UnrunOK
<1>12. StatusOK' /\ RepliesOK'
  BY <1>5 DEF StatusOK, TurnInv, RepliesOK, Working
<1>13. DeliveryOK'
  <2> SUFFICES ASSUME drv' \in Working \cup {"executing"}, NEW i \in 1 .. Len(ax'), Delivers(i)'
               PROVE  rx'.executedDelivery
    BY DEF DeliveryOK
  <2>1. ~c
    BY DEF Working
  <2>2. ax' = S /\ rx.status = "OK" /\ rx' = [rx EXCEPT !.seenDelivery = FALSE]
    BY <1>5, <2>1
  <2>3. rx'.executedDelivery = rx.executedDelivery
    BY <2>2 DEF TempInv, StateTypeOK, RExec
  <2>4. ~(ax'[i].state < EXECUTED)
    <3>1. ax'[i] \in AExec
      BY <1>4, <2>2
    <3>2. ax'[i].state \in 0 .. 3
      BY <3>1 DEF AExec
    <3>3. QED BY <3>2 DEF Delivers, EXECUTED
  <2>5. PICK k \in 1 .. Len(ax) : ax'[i] = ax[k]
    BY <1>6, <2>4 DEF Origin
  <2>6. Delivers(k)
    BY <1>5, <2>5 DEF Delivers
  <2>7. QED BY <1>5, <2>2, <2>3, <2>6 DEF TurnInv, DeliveryOK
<1>14. QED BY <1>8, <1>9, <1>10, <1>11, <1>12, <1>13 DEF TurnInv

-----------------------------------------------------------------------------
(* One answer in turn: the steps of sieve_result_execute *)

(* A step that leaves the result and the shape of its execution alone.     *)
LEMMA ShapeTurn ==
  ASSUME TurnInv, SoundInv, UNCHANGED <<resultVars, ldaVars>>, SameShape(ax'),
         drv \in {"executing", "finishing"},
         \A i \in 1 .. Len(ax) : Silenced(acts[ax[i].obj]) => Quiet(ax'[i]),
         UnrunOK', RepliesOK', DeliveryOK'
  PROVE  TurnInv'
<1> USE DEF resultVars, ldaVars
<1>1. Len(ax') = Len(ax) /\ \A i \in 1 .. Len(ax) : ax'[i].obj = ax[i].obj /\ ax'[i].seq = ax[i].seq
  BY DEF SameShape
<1>2. SpeakersOK(acts, list)'
  BY DEF TurnInv, SpeakersOK
<1>3. SeqsOK' /\ SilentOK'
  BY <1>1 DEF TurnInv, SeqsOK, SilentOK
<1>4. StatusOK'
  BY DEF StatusOK, Working
<1>5. QED BY <1>2, <1>3, <1>4 DEF TurnInv

(* Nothing is said, and what was finalized stays so.                       *)
LEMMA RepliesKept ==
  ASSUME TurnInv, UNCHANGED <<resultVars, ldaVars>>, replies' = replies, SameShape(ax'),
         \A i \in 1 .. Len(ax) : ax[i].state = FINALIZED => ax'[i].state = FINALIZED
  PROVE  RepliesOK'
<1> USE DEF resultVars, ldaVars
<1>1. Len(ax') = Len(ax) /\ \A i \in 1 .. Len(ax) : ax'[i].obj = ax[i].obj
  BY DEF SameShape
<1>2. RepliesOK
  BY DEF TurnInv
<1>3. CASE tries = 1 /\ replies # 0
  <2>1. PICK i \in 1 .. Len(ax) : Speaker(acts[ax[i].obj]) /\ ax[i].state = FINALIZED
    BY <1>2, <1>3 DEF RepliesOK
  <2>2. i \in 1 .. Len(ax') /\ Speaker(acts'[ax'[i].obj]) /\ ax'[i].state = FINALIZED
    BY <1>1, <2>1
  <2>3. replies' = 1 /\ drv' \in {"finishing", "deliver", "done"}
    BY <1>2, <1>3 DEF RepliesOK
  <2>4. QED BY <2>2, <2>3 DEF RepliesOK
<1>4. CASE ~(tries = 1 /\ replies # 0)
  BY <1>4 DEF RepliesOK
<1>5. QED BY <1>3, <1>4

(* A failure of a single action is one of the whole.                       *)
LEMMA UpdateStatusFails ==
  ASSUME NEW c, NEW n, n # "OK" \/ c # "OK"
  PROVE  UpdateStatus(c, n) # "OK"
BY DEF UpdateStatus

(* A reject that lost its reason does nothing.                             *)
LEMMA SilentOutcome ==
  ASSUME NEW a, Silenced(a), NEW o \in ExecuteOutcomes(a)
  PROVE  o.noop = TRUE
<1>1. PICK p \in RejectOutcomes(a.silent) : o = [p EXCEPT !.keep = @ \/ (a.copy /\ p.status = "OK")]
  BY DEF ExecuteOutcomes, Silenced
<1>2. p \in {Outcome("OK", FALSE, TRUE, FALSE), Outcome("OK", TRUE, TRUE, FALSE)}
  BY <1>1 DEF RejectOutcomes, Silenced
<1>3. QED BY <1>1, <1>2 DEF Outcome

(* The execution of one action.                                            *)
LEMMA ExecuteActionTurn ==
  ASSUME SoundInv, TempInv, TurnInv, ExecuteAction, UNCHANGED ldaVars
  PROVE  TurnInv'
<1> DEFINE k == Min(Pending(EXECUTED))
           a == acts[ax[k].obj]
<1>1. k \in 1 .. Len(ax) /\ k \in Pending(EXECUTED)
  BY PendingFacts DEF ExecuteAction
<1>2. PICK o \in ExecuteOutcomes(a) :
           /\ ax' = [ax EXCEPT ![k].state = EXECUTED, ![k].status = o.status, ![k].noop = o.noop]
           /\ rx' = [rx EXCEPT
                       !.keepExplicit = @ \/ a.keep,
                       !.keepImplicit = @ /\ o.keep,
                       !.executed = @ \/ (o.status = "OK" /\ a.def \notin {"none", "vacation"}),
                       !.seenDelivery = @ \/ (o.status = "OK" /\ a.def \in TriesDeliver),
                       !.status = UpdateStatus(@, o.status)]
           /\ loc' = [loc EXCEPT !.status = o.status]
           /\ phase' = IF o.status = "OK" THEN "execute" ELSE AfterExecute(rx', loc.commit)
  BY Zenon DEF ExecuteAction
<1>3. o.status \in Status /\ o.noop \in BOOLEAN
  BY ExecuteOutcomesType DEF OutcomeSet
<1>4. Silenced(a) => o.noop = TRUE
  BY SilentOutcome
<1>5. /\ rx'.executedDelivery = rx.executedDelivery
      /\ rx'.seenDelivery = (rx.seenDelivery \/ (o.status = "OK" /\ a.def \in TriesDeliver))
      /\ rx'.status = UpdateStatus(rx.status, o.status)
      /\ loc'.status = o.status
  <2> HIDE DEF a, k
  <2>1. rx \in RExec /\ loc \in Loc
    BY DEF TempInv, StateTypeOK
  <2>2. QED BY <1>2, <2>1 DEF RExec, Loc
<1>6. ax[k].state < EXECUTED
  BY <1>1 DEF Pending
<1> HIDE DEF k
<1>7. /\ SameShape(ax')
      /\ ax'[k].state = EXECUTED /\ ax'[k].status = o.status /\ ax'[k].noop = o.noop
      /\ \A i \in 1 .. Len(ax) : i # k => ax'[i] = ax[i]
  <2> DEFINE st == o.status
             n == o.noop
  <2>1. st \in Status /\ n \in BOOLEAN /\ ax \in Seq(AExec)
    BY <1>3 DEF SoundInv, SoundTypes
  <2>2. Ran(ax', k, st, n)
    BY <1>2 DEF Ran
  <2> HIDE DEF st, n, a
  <2>3. /\ SameShape(ax')
        /\ ax'[k].state = EXECUTED /\ ax'[k].status = st /\ ax'[k].noop = n
        /\ \A i \in 1 .. Len(ax) : i # k => ax'[i] = ax[i]
    BY <1>1, <2>1, <2>2, OneExecuted
  <2>4. QED BY <2>3 DEF st, n
<1>8. phase = "execute" /\ UNCHANGED <<resultVars, replies>>
  BY DEF ExecuteAction, worldVars
<1>9. drv \in {"executing", "finishing"}
  BY <1>8 DEF TempInv, CallOK
<1>10. \A i \in 1 .. Len(ax) : Silenced(acts[ax[i].obj]) => Quiet(ax'[i])
  <2>1. Silenced(acts[ax[k].obj]) => Quiet(ax'[k])
    BY <1>4, <1>7 DEF Quiet, EXECUTED
  <2>2. QED BY <1>7, <2>1 DEF TurnInv, SilentOK
<1>11. UnrunOK'
  BY <1>2, <1>5 DEF UnrunOK
<1>12. RepliesOK'
  <2>1. ax[k].state # FINALIZED
    BY <1>6 DEF EXECUTED, FINALIZED
  <2>2. QED BY <1>7, <1>8, <2>1, RepliesKept
<1>13. DeliveryOK'
  <2> SUFFICES ASSUME NEW i \in 1 .. Len(ax), Delivers(i)', drv = "executing"
               PROVE  rx'.executedDelivery \/ (phase' = "execute" /\ rx'.seenDelivery) \/ rx'.status # "OK"
    BY <1>7, <1>9 DEF DeliveryOK, ldaVars, SameShape, Working
  <2>1. CASE o.status # "OK"
    BY <1>5, <2>1, UpdateStatusFails
  <2>2. CASE o.status = "OK" /\ i = k
    <3>1. a.def \in TriesDeliver
      BY <1>7, <1>8, <2>2 DEF Delivers, resultVars, SameShape
    <3>2. QED BY <1>2, <1>5, <2>2, <3>1
  <2>3. CASE o.status = "OK" /\ i # k
    <3>1. Delivers(i)
      BY <1>7, <1>8, <2>3 DEF Delivers, resultVars
    <3>2. rx.executedDelivery \/ rx.seenDelivery \/ rx.status # "OK"
      BY <3>1 DEF TurnInv, DeliveryOK
    <3>3. rx'.status = rx.status
      BY <1>5, <2>3 DEF UpdateStatus
    <3>4. QED BY <1>2, <1>5, <2>3, <3>2, <3>3
  <2>4. QED BY <2>1, <2>2, <2>3
<1>14. QED BY <1>7, <1>8, <1>9, <1>10, <1>11, <1>12, <1>13, ShapeTurn

(* The end of the series: all of it was executed.                          *)
LEMMA ExecuteDoneTurn ==
  ASSUME SoundInv, TempInv, TurnInv, ExecuteDone, UNCHANGED ldaVars
  PROVE  TurnInv'
<1>1. /\ SameShape(ax')
      /\ \A i \in 1 .. Len(ax) : /\ ax'[i].state = ax[i].state /\ ax'[i].status = ax[i].status
                                 /\ ax'[i].noop = ax[i].noop
  BY AllCommitted DEF ExecuteDone, SoundInv, SoundTypes
<1>2. \A i \in 1 .. Len(ax) : ax[i].state >= EXECUTED /\ ~(ax[i].state < EXECUTED)
  <2> SUFFICES ASSUME NEW i \in 1 .. Len(ax) PROVE ax[i].state >= EXECUTED /\ ~(ax[i].state < EXECUTED)
    OBVIOUS
  <2>1. ax[i] \in AExec /\ i \in DOMAIN ax
    BY DEF SoundInv, SoundTypes
  <2>2. ax[i].state \in 0 .. 3
    BY <2>1 DEF AExec
  <2>3. ~(ax[i].state < EXECUTED)
    BY <2>1 DEF ExecuteDone, Pending
  <2>4. QED BY <2>2, <2>3 DEF EXECUTED
<1>3. phase = "execute" /\ UNCHANGED <<resultVars, replies>> /\ phase' # "execute"
  BY DEF ExecuteDone, worldVars, AfterExecute
<1>4. drv \in {"executing", "finishing"}
  BY <1>3 DEF TempInv, CallOK
<1>5. \A i \in 1 .. Len(ax) : Silenced(acts[ax[i].obj]) => Quiet(ax'[i])
  BY <1>1, <1>2 DEF TurnInv, SilentOK, Quiet
<1>6. UnrunOK'
  BY <1>1, <1>2 DEF UnrunOK, SameShape
<1>7. RepliesOK'
  BY <1>1, <1>3, RepliesKept
<1>8. DeliveryOK'
  <2>1. rx' = [rx EXCEPT !.executedDelivery = @ \/ rx.seenDelivery] /\ rx \in RExec
    BY DEF ExecuteDone, TempInv, StateTypeOK
  <2>2. rx'.executedDelivery = (rx.executedDelivery \/ rx.seenDelivery) /\ rx'.status = rx.status
    BY <2>1 DEF RExec
  <2> SUFFICES ASSUME NEW i \in 1 .. Len(ax), Delivers(i)', drv = "executing"
               PROVE  rx'.executedDelivery \/ rx'.status # "OK"
    BY <1>1, <1>4 DEF DeliveryOK, ldaVars, SameShape, Working
  <2>3. Delivers(i)
    BY <1>1, <1>3 DEF Delivers, resultVars, SameShape
  <2>4. QED BY <2>2, <2>3 DEF TurnInv, DeliveryOK
<1>9. QED BY <1>1, <1>3, <1>4, <1>5, <1>6, <1>7, <1>8, ShapeTurn

(* A step of the final call that says nothing and at most finalizes what   *)
(* was executed.                                                           *)
LEMMA FinalCallTurn ==
  ASSUME SoundInv, TempInv, TurnInv, UNCHANGED <<resultVars, ldaVars, replies>>,
         drv = "finishing", KeepFinalizes(ax'),
         phase' \in {"keep", "commit"} => phase \in {"keep", "commit"} /\ loc' = loc
  PROVE  TurnInv'
<1>1. ax \in Seq(AExec)
  BY DEF SoundInv, SoundTypes
<1>2. /\ SameShape(ax')
      /\ \A i \in 1 .. Len(ax) :
           /\ ax'[i].status = ax[i].status /\ ax'[i].noop = ax[i].noop /\ ax'[i].commit = ax[i].commit
           /\ ax'[i].state = ax[i].state \/ (ax[i].state >= EXECUTED /\ ax'[i].state = FINALIZED)
  BY <1>1, KeepFinalizesShape
<1>3. \A i \in 1 .. Len(ax) : Silenced(acts[ax[i].obj]) => Quiet(ax'[i])
  <2> SUFFICES ASSUME NEW i \in 1 .. Len(ax), Silenced(acts[ax[i].obj]) PROVE Quiet(ax'[i])
    OBVIOUS
  <2>1. Quiet(ax[i])
    BY DEF TurnInv, SilentOK
  <2>2. CASE ax'[i].state = ax[i].state
    BY <1>2, <2>1, <2>2 DEF Quiet
  <2>3. CASE ax'[i].state = FINALIZED
    BY <2>3 DEF Quiet, FINALIZED, EXECUTED
  <2>4. QED BY <1>2, <2>2, <2>3
<1>4. UnrunOK'
  <2> SUFFICES ASSUME phase' \in {"keep", "commit"}, loc'.status = "OK", NEW i \in 1 .. Len(ax)
               PROVE  ax'[i].state >= EXECUTED
    BY <1>2 DEF UnrunOK, SameShape
  <2>1. ax[i].state >= EXECUTED
    BY DEF TurnInv, UnrunOK
  <2>2. FINALIZED >= EXECUTED
    BY DEF FINALIZED, EXECUTED
  <2>3. QED BY <1>2, <2>1, <2>2
<1>5. RepliesOK'
  BY <1>2, RepliesKept
<1>6. DeliveryOK'
  BY DEF DeliveryOK, ldaVars, Working
<1>7. QED BY <1>2, <1>3, <1>4, <1>5, <1>6, ShapeTurn

(* The steps of the implicit keep, and those that only move on.            *)
LEMMA KeepTurn ==
  ASSUME SoundInv, TempInv, TurnInv, UNCHANGED ldaVars,
         KeepExecute \/ KeepByOther \/ KeepFinalize \/ CommitDone \/ KeepFinalizeSkip \/ Finish
  PROVE  TurnInv'
<1>1. /\ UNCHANGED <<resultVars, replies>>
      /\ phase \in {"keep", "commit", "finalize", "finish"}
      /\ phase' \in {"keep", "commit"} => phase \in {"keep", "commit"} /\ loc' = loc
      /\ KeepFinalizes(ax')
  <2>1. CASE KeepExecute
    <3>1. PICK x \in ImplicitKeepExecute(rx, kx) : ax' = x.ax
      BY <2>1 DEF KeepExecute
    <3>2. SoundTypes /\ kx \in KExec
      BY DEF SoundInv, SoundTypes
    <3>3. KeepFinalizes(ax')
      BY <3>1, <3>2, ImplicitKeepShape
    <3>4. phase = "keep" /\ loc' = loc /\ UNCHANGED <<resultVars, replies>>
      BY <2>1 DEF KeepExecute, worldVars
    <3>5. QED BY <3>3, <3>4
  <2>2. CASE KeepByOther \/ KeepFinalize
    <3>1. PICK x \in KeepPrepared : ax' = x.ax /\ phase' \in {"panic", "finish"}
      <4>1. CASE KeepByOther
        <5>1. \E x \in KeepPrepared :
                /\ ax' = x.ax
                /\ phase' = IF x.kx.def # "none" /\ x.ax[x.equiv].state < FINALIZED
                            THEN "panic" ELSE "finish"
          BY <4>1, Zenon DEF KeepByOther
        <5>2. QED BY <5>1
      <4>2. CASE KeepFinalize
        <5>1. \E x \in KeepPrepared : /\ ax' = x.ax
                                     /\ phase' = IF x.kx.state < EXECUTED THEN "panic" ELSE "finish"
          BY <4>2, Zenon DEF KeepFinalize
        <5>2. QED BY <5>1
      <4>3. QED BY <2>2, <4>1, <4>2
    <3>2. ~SkipKeep /\ phase = "finalize" /\ UNCHANGED <<resultVars, replies>>
      <4>1. CASE KeepByOther
        BY <4>1, Zenon DEF KeepByOther, worldVars
      <4>2. CASE KeepFinalize
        BY <4>2, Zenon DEF KeepFinalize
      <4>3. QED BY <2>2, <4>1, <4>2
    <3>3. KeepFinalizes(ax')
      BY <3>1, <3>2, KeepPreparedShape
    <3>4. QED BY <3>1, <3>2, <3>3
  <2>3. CASE CommitDone \/ KeepFinalizeSkip \/ Finish
    <3>1. /\ UNCHANGED <<resultVars, replies, ax>>
          /\ phase \in {"commit", "finalize", "finish"}
          /\ phase' \in {"finalize", "finish", "return"}
      BY <2>3 DEF CommitDone, KeepFinalizeSkip, Finish, worldVars
    <3>2. QED BY <3>1 DEF KeepFinalizes
  <2>4. QED BY <2>1, <2>2, <2>3
<1>2. drv = "finishing"
  BY <1>1 DEF TempInv, CallOK
<1>3. QED BY <1>1, <1>2, FinalCallTurn

(* What a commit may say to the sender: only a vacation reply, or a reject *)
(* that is to do something.                                                *)
LEMMA CommitReplies ==
  ASSUME NEW a, NEW e, NEW x \in CommitEffects(a, e)
  PROVE  \/ x.replies = replies
         \/ x.replies = replies + 1 /\ (a.def = "vacation" \/ (a.def = "reject" /\ ~e.noop))
<1>1. \A st, s1, s2, s3, s4, s5 : Effect(st, s1, s2, s3, s4, s5).replies = s4
  BY DEF Effect
<1>2. \A st : NoEffect(st).replies = replies
  BY <1>1 DEF NoEffect
<1>3. CASE a.def = "store"
  <2>1. (\E st : x = NoEffect(st))
        \/ \E st, s1, s2 : x = Effect(st, s1, s2, sent, replies, marks)
    BY <1>3, Zenon DEF CommitEffects, StoreCommit
  <2>2. QED BY <1>1, <1>2, <2>1
<1>4. CASE a.def = "redirect"
  <2>1. \/ \E st : x = NoEffect(st)
        \/ \E s1, s2, s3, s5 : x = Effect("OK", s1, s2, s3, replies, s5)
    BY <1>4 DEF CommitEffects, RedirectCommit
  <2>2. QED BY <1>1, <1>2, <2>1
<1>5. CASE a.def = "reject"
  <2>1. \/ \E st : x = NoEffect(st)
        \/ ~e.noop /\ \E s1, s2, s3, s5 : x = Effect("OK", s1, s2, s3, replies + 1, s5)
    BY <1>5 DEF CommitEffects, RejectCommit
  <2>2. QED BY <1>1, <1>2, <1>5, <2>1
<1>6. CASE a.def = "vacation"
  <2>1. (\E st : x = NoEffect(st))
        \/ \E s1, s2, s3, s5 : x = Effect("OK", s1, s2, s3, replies + 1, s5)
    BY <1>6 DEF CommitEffects, VacationCommit
  <2>2. QED BY <1>1, <1>2, <1>6, <2>1
<1>7. CASE a.def \notin {"store", "redirect", "reject", "vacation"}
  BY <1>2, <1>7 DEF CommitEffects
<1>8. QED BY <1>3, <1>4, <1>5, <1>6, <1>7

(* No commit makes good for an earlier failure.                            *)
LEMMA FinalizedStatus ==
  ASSUME NEW l \in Loc, NEW keep, NEW st, NEW c, NEW f, l.status # "OK"
  PROVE  Finalized(l, keep, st, c, f).status # "OK"
<1> DEFINE bad == st # "OK" /\ l.commitStatus = "OK"
           s == IF bad /\ (~c \/ f) THEN st ELSE l.status
           cs == IF bad THEN st ELSE l.commitStatus
           Salvage(x) == IF keep /\ x = "FAILURE" THEN "KEEP_FAILED" ELSE x
<1>1. s # "OK"
  OBVIOUS
<1>2. Salvage(s) # "OK"
  BY <1>1
<1>3. Finalized(l, keep, st, c, f) = [l EXCEPT !.status = Salvage(s), !.commitStatus = Salvage(cs)]
  BY DEF Finalized
<1> DEFINE u == Salvage(s)
           v == Salvage(cs)
<1> HIDE DEF u, v, s, cs, Salvage
<1>4. Finalized(l, keep, st, c, f).status = u
  BY <1>3 DEF Loc, u, v
<1>5. QED BY <1>2, <1>4 DEF u

(* The commit or rollback of one action: a silenced reject is not          *)
(* committed with anything to say, so the action that answers is the only  *)
(* one that does, and was not committed before.                            *)
LEMMA FinalizeActionTurn ==
  ASSUME SoundInv, TempInv, TurnInv, FinalizeAction, UNCHANGED ldaVars
  PROVE  TurnInv'
<1> DEFINE k == NextToFinalize
           e == ax[k]
           a == acts[e.obj]
           l == [loc EXCEPT !.commitStatus = CommitStatus]
           commit == a.def # "none" /\ MayCommit(e, l)
<1>1. k \in 1 .. Len(ax) /\ k \in Pending(FINALIZED)
  BY NextToFinalizeFacts DEF FinalizeAction
<1>2. PICK x \in IF commit THEN CommitEffects(a, e) ELSE {Rollback(a.def, e.tr, e.status)} :
        /\ replies' = x.replies
        /\ loc' = IF a.def = "none" THEN l
                  ELSE Finalized(l, a.keep, IF commit THEN x.st ELSE "OK",
                                 rx'.committed, x.es.storeFailed)
  BY Zenon DEF FinalizeAction
<1>3. ax' = [ax EXCEPT ![k].state = FINALIZED]
  BY Zenon DEF FinalizeAction
<1>4. phase = "commit" /\ phase' = "commit" /\ UNCHANGED resultVars
  BY Zenon DEF FinalizeAction
<1>5. drv = "finishing"
  BY <1>4 DEF TempInv, CallOK
<1>6. ax \in Seq(AExec) /\ e \in AExec /\ loc \in Loc /\ e.state \in 0 .. 3 /\ e.state < FINALIZED
  <2>1. ax \in Seq(AExec) /\ e \in AExec
    BY <1>1 DEF SoundInv, SoundTypes
  <2>2. QED BY <1>1, <2>1 DEF TempInv, StateTypeOK, AExec, Pending
<1>7. l \in Loc /\ l.status = loc.status
  <2>1. CommitStatus \in Status
    BY <1>6 DEF CommitStatus, Loc, Status
  <2>2. QED BY <1>6, <2>1 DEF Loc
<1>8. loc.status # "OK" => loc'.status # "OK"
  BY <1>2, <1>7, FinalizedStatus
<1> HIDE DEF k, l
<1>9. /\ SameShape(ax') /\ ax'[k].state = FINALIZED
      /\ \A i \in 1 .. Len(ax) : i # k => ax'[i] = ax[i]
  BY <1>1, <1>3, <1>6, OneFinalized
<1>10. \A i \in 1 .. Len(ax) : Silenced(acts[ax[i].obj]) => Quiet(ax'[i])
  <2>1. Quiet(ax'[k])
    BY <1>9 DEF Quiet, FINALIZED, EXECUTED
  <2>2. QED BY <1>9, <2>1 DEF TurnInv, SilentOK
<1>11. UnrunOK'
  <2> SUFFICES ASSUME loc'.status = "OK", NEW i \in 1 .. Len(ax) PROVE ax'[i].state >= EXECUTED
    BY <1>9 DEF UnrunOK, SameShape
  <2>1. ax[i].state >= EXECUTED
    BY <1>4, <1>8 DEF TurnInv, UnrunOK
  <2>2. FINALIZED >= EXECUTED
    BY DEF FINALIZED, EXECUTED
  <2>3. QED BY <1>9, <2>1, <2>2
<1>12. DeliveryOK'
  BY <1>5 DEF DeliveryOK, ldaVars, Working
<1>13. replies' = replies \/ (replies' = replies + 1 /\ Speaker(a))
  <2>1. CASE ~commit
    <3>1. x = Rollback(a.def, e.tr, e.status)
      BY <1>2, <2>1
    <3>2. x.replies = replies
      BY <3>1 DEF Rollback, NoEffect, Effect
    <3>3. QED BY <1>2, <3>2
  <2>2. CASE commit
    <3>1. x \in CommitEffects(a, e)
      BY <1>2, <2>2
    <3> HIDE DEF a, e
    <3>2. \/ x.replies = replies
          \/ x.replies = replies + 1 /\ (a.def = "vacation" \/ (a.def = "reject" /\ ~e.noop))
      BY <3>1, CommitReplies
    <3>3. ASSUME a.def = "reject", ~e.noop PROVE ~a.silent
      <4> SUFFICES ASSUME a.silent PROVE FALSE
        OBVIOUS
      <4>1. Quiet(e)
        BY <1>1, <3>3 DEF TurnInv, SilentOK, Silenced, a, e
      <4>2. e.status = "OK" /\ (loc.status = "OK" \/ e.commit)
        BY <1>7, <2>2 DEF MayCommit
      <4>3. e.state < EXECUTED
        BY <1>6, <3>3, <4>1, <4>2 DEF Quiet, EXECUTED, FINALIZED
      <4>4. ~e.commit
        BY <4>1, <4>3 DEF Quiet
      <4>5. e.state >= EXECUTED
        BY <1>1, <1>4, <4>2, <4>4 DEF TurnInv, UnrunOK, e
      <4>6. QED BY <1>6, <4>3, <4>5 DEF EXECUTED
    <3>4. QED BY <1>2, <3>2, <3>3 DEF Speaker
  <2>3. QED BY <2>1, <2>2
<1>14. \A i \in 1 .. Len(ax) : ax[i].state = FINALIZED => i # k /\ ax'[i].state = FINALIZED
  <2>1. ax[k].state # FINALIZED
    BY <1>6 DEF FINALIZED
  <2>2. QED BY <1>9, <2>1
<1>15. RepliesOK'
  <2>1. CASE replies' = replies
    BY <1>4, <1>9, <1>14, <2>1, RepliesKept
  <2>2. CASE replies' = replies + 1 /\ Speaker(a)
    <3>1. tries = 1 => replies = 0
      <4> SUFFICES ASSUME tries = 1, replies # 0 PROVE FALSE
        OBVIOUS
      <4>1. PICK i \in 1 .. Len(ax) : Speaker(acts[ax[i].obj]) /\ ax[i].state = FINALIZED
        BY DEF TurnInv, RepliesOK
      <4>2. ax[i].obj \in 1 .. Len(acts) /\ ax[k].obj \in 1 .. Len(acts)
        BY <1>1 DEF SoundInv, RefsOK
      <4>3. ax[i].obj = ax[k].obj
        BY <2>2, <4>1, <4>2 DEF TurnInv, SpeakersOK
      <4>4. i # k
        BY <1>14, <4>1
      <4>5. QED BY <1>1, <4>3, <4>4 DEF SoundInv, Distinct
    <3>2. k \in 1 .. Len(ax') /\ Speaker(acts'[ax'[k].obj]) /\ ax'[k].state = FINALIZED
      BY <1>1, <1>4, <1>9, <2>2 DEF SameShape, resultVars
    <3>3. tries' = tries /\ drv' = drv
      BY DEF ldaVars
    <3>4. tries' = 1 => replies' = 1
      BY <2>2, <3>1, <3>3
    <3>5. QED BY <1>5, <3>2, <3>3, <3>4 DEF RepliesOK
  <2>3. QED BY <1>13, <2>1, <2>2
<1>16. QED BY <1>4, <1>5, <1>9, <1>10, <1>11, <1>12, <1>15, ShapeTurn

-----------------------------------------------------------------------------
(* One answer in turn: the steps around a call, and the theorem *)

(* The return of a call that executed a script: its failure ends the       *)
(* sequence, and its deliveries are recorded.                              *)
LEMMA ExecutedTurn ==
  ASSUME SoundInv, TempInv, TurnInv, Executed
  PROVE  TurnInv'
<1>1. /\ drv = "executing" /\ phase = "return" /\ phase' = "idle" /\ drv' = "next"
      /\ UNCHANGED <<resultVars, ax, replies, tries>>
  BY DEF Executed, worldVars
<1>2. rx \in RExec /\ rx'.status = rx.status /\ rx'.executedDelivery = rx.executedDelivery
  BY DEF Executed, MergeKeep, TempInv, StateTypeOK, RExec
<1>3. rx.status # "OK" => ~ms'.active /\ ms'.status # "OK"
  <2> SUFFICES ASSUME rx.status # "OK" PROVE ~ms'.active /\ ms'.status # "OK"
    OBVIOUS
  <2>1. ms' = [Aborted(rx.status) EXCEPT !.keep = ReturnKeep]
    BY DEF Executed, ReturnStatus
  <2>2. rx.status \in Status /\ Aborted(rx.status) \in Multiscript
    BY <1>2, AbortedType DEF RExec, TempInv, StateTypeOK
  <2>3. ms'.status = Aborted(rx.status).status /\ ms'.active = Aborted(rx.status).active
    BY <2>1, <2>2 DEF Multiscript
  <2>4. QED BY <2>2, <2>3, AbortedStatus
<1>4. StatusOK'
  BY <1>1, <1>2, <1>3 DEF StatusOK
<1>5. SpeakersOK(acts, list)' /\ SeqsOK' /\ SilentOK' /\ UnrunOK'
  BY <1>1 DEF resultVars, TurnInv, SpeakersOK, SeqsOK, SilentOK, UnrunOK
<1>6. RepliesOK'
  BY <1>1 DEF TurnInv, RepliesOK
<1>7. DeliveryOK'
  BY <1>1, <1>2 DEF resultVars, TurnInv, DeliveryOK, Delivers
<1>8. QED BY <1>4, <1>5, <1>6, <1>7 DEF TurnInv

(* The return of the final call, and what mail_deliver does then.          *)
LEMMA FinishedTurn ==
  ASSUME SoundInv, TempInv, TurnInv, Finished \/ Deliver
  PROVE  TurnInv'
<1>1. /\ UNCHANGED <<resultVars, ax, loc, replies, tries>> /\ phase' \in {"idle", phase}
      /\ drv \in {"finishing", "deliver"} /\ drv' \in {"deliver", "done"}
  BY DEF Finished, Deliver
<1>2. SpeakersOK(acts, list)' /\ SeqsOK' /\ SilentOK' /\ UnrunOK'
  BY <1>1 DEF resultVars, TurnInv, SpeakersOK, SeqsOK, SilentOK, UnrunOK
<1>3. StatusOK' /\ DeliveryOK'
  BY <1>1 DEF StatusOK, DeliveryOK, Working
<1>4. RepliesOK'
  BY <1>1 DEF resultVars, TurnInv, RepliesOK
<1>5. QED BY <1>2, <1>3, <1>4 DEF TurnInv

(* A new try starts from scratch, and may answer once more.                *)
LEMMA RedeliverTurn ==
  ASSUME SoundInv, TempInv, TurnInv, Redeliver
  PROVE  TurnInv'
<1>1. /\ acts' = <<>> /\ list' = <<>> /\ ax' = <<>> /\ tries' = tries + 1
      /\ drv' = "open" /\ rx' = NewRExec
  BY DEF Redeliver
<1>2. tries' # 1 /\ rx'.status = "OK"
  BY <1>1 DEF SoundInv, DriverTypes, NewRExec
<1>3. SpeakersOK(acts, list)' /\ SeqsOK' /\ SilentOK' /\ UnrunOK' /\ DeliveryOK'
  BY <1>1 DEF SpeakersOK, SeqsOK, SilentOK, UnrunOK, DeliveryOK
<1>4. StatusOK' /\ RepliesOK'
  BY <1>1, <1>2 DEF StatusOK, RepliesOK
<1>5. QED BY <1>3, <1>4 DEF TurnInv

(* Together.                                                               *)
LEMMA TurnInvNext == TurnInv /\ SoundInv /\ TempInv /\ [Next]_vars => TurnInv'
<1> SUFFICES ASSUME TurnInv, SoundInv, TempInv, [Next]_vars PROVE TurnInv'
  OBVIOUS
<1>1. CASE OpenScript \/ OpenFailed \/ RunFailed \/ RunCorrupt \/ Reopen \/ NextScript
           \/ StartDiscard \/ EndScripts
  <2>1. UNCHANGED <<acts, list, execSeq, execVars, tries>> /\ drv \in Working /\ drv' \in Working
    BY <1>1 DEF OpenScript, OpenFailed, RunFailed, RunCorrupt, Reopen, NextScript, StartDiscard,
                EndScripts, resultVars, Working
  <2>2. StatusOK'
    BY <1>1, ScriptStatus
  <2>3. QED BY <2>1, <2>2, DriverTurn
<1>2. CASE RunCommand
  BY <1>2, RunCommandTurn
<1>3. CASE RunDone
  <2>1. /\ Execute("OK", FALSE) /\ drv = "run" /\ drv' = "executing" /\ tries' = tries
    BY <1>3, Zenon DEF RunDone
  <2>2. drv \in Working /\ "OK" \in Status /\ rx.status = "OK"
    BY <2>1 DEF Working, Status, TurnInv, StatusOK
  <2>3. QED BY <2>1, <2>2, ExecuteTurn
<1>4. CASE MultiscriptFinish
  <2> DEFINE s == IF err = "TEMP_FAILURE" THEN "TEMP_FAILURE" ELSE ms.status
  <2>1. Execute(s, TRUE) /\ drv = "finish" /\ drv' = "finishing" /\ tries' = tries
    BY <1>4, Zenon DEF MultiscriptFinish
  <2>2. drv \in Working /\ s \in Status /\ (rx.status # "OK" => s # "OK")
    BY <2>1 DEF TempInv, StateTypeOK, Multiscript, Status, Working, TurnInv, StatusOK
  <2> HIDE DEF s
  <2>3. QED BY <2>1, <2>2, ExecuteTurn
<1>5. CASE ExecutionStep /\ UNCHANGED ldaVars
  BY <1>5, ExecuteActionTurn, ExecuteDoneTurn, FinalizeActionTurn, KeepTurn DEF ExecutionStep
<1>6. CASE Executed \/ Finished \/ Deliver \/ Redeliver
  BY <1>6, ExecutedTurn, FinishedTurn, RedeliverTurn
<1>7. CASE UNCHANGED vars
  <2> USE <1>7 DEF vars, resultVars, execVars, worldVars, ldaVars
  <2>1. SpeakersOK(acts, list)' /\ SeqsOK' /\ SilentOK' /\ UnrunOK'
    BY DEF TurnInv, SpeakersOK, SeqsOK, SilentOK, UnrunOK
  <2>2. StatusOK' /\ RepliesOK' /\ DeliveryOK'
    BY DEF TurnInv, StatusOK, RepliesOK, DeliveryOK, Delivers
  <2>3. QED BY <2>1, <2>2 DEF TurnInv
<1>8. QED BY <1>1, <1>2, <1>3, <1>4, <1>5, <1>6, <1>7 DEF Next

(* However many scripts run and whichever calls fail, one delivery answers *)
(* the sender at most once (act_reject_check_conflict and                  *)
(* act_vacation_check_conflict look at the actions of earlier scripts),    *)
(* and the discard script never runs once an action delivered the message  *)
(* (sieve_multiscript_will_discard).                                       *)
THEOREM ResponsesTakeTurns == Spec => []ResponsesInTurn
<1>1. TurnInv /\ SoundInv /\ TempInv => ResponsesInTurn
  <2> SUFFICES ASSUME TurnInv, SoundInv, TempInv PROVE ResponsesInTurn
    OBVIOUS
  <2>1. SingleResponse
    BY DEF TurnInv, RepliesOK, SingleResponse
  <2>2. NoDiscardAfterDelivery
    <3> SUFFICES ASSUME script = Discard, drv = "run", ExecutedDef(TriesDeliver) PROVE FALSE
      BY DEF NoDiscardAfterDelivery
    <3>1. DOMAIN ax = 1 .. Len(ax)
      BY DEF SoundInv, SoundTypes
    <3>2. PICK i \in 1 .. Len(ax) : Delivers(i)
      BY <3>1 DEF ExecutedDef, Delivers
    <3>3. rx.executedDelivery \/ phase = "execute" \/ rx.status # "OK"
      BY <3>2 DEF TurnInv, DeliveryOK, Working
    <3>4. phase # "execute"
      BY DEF TempInv, CallOK
    <3>5. QED BY <3>3, <3>4 DEF TurnInv, StatusOK
  <2>3. QED BY <2>1, <2>2 DEF ResponsesInTurn
<1>2. QED BY <1>1, TempInvInit, TempInvNext, SoundInvInit, SoundInvNext, TurnInvInit, TurnInvNext, PTL
          DEF Spec
=============================================================================
