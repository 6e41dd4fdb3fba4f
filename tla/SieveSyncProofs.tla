--------------------------- MODULE SieveSyncProofs ---------------------------
(***************************************************************************)
(* Proofs about SieveSync, for any set of scripts and any number of edits, *)
(* syncs and failures: only a link that could not be read or removed leads *)
(* nowhere, and no file of the user's own is lost; a sync without failures *)
(* leaves two equal replicas.                                              *)
(***************************************************************************)
EXTENDS SieveSync, TLAPS

Kinds == {"none", "link", "own"}
Users == {"new", "open", "failed"}
Entry(n) == [ts : 0 .. n, set : BOOLEAN, new : BOOLEAN]

(* A replica whose times are not later than n.                             *)
Replica(n) ==
  [text : [Scripts -> 0 .. MaxText], mtime : [Scripts -> 0 .. n], kind : Kinds, link : Keys, own : 0 .. MaxText,
   ownMtime : 0 .. n, dirMtime : 0 .. n, log : [Keys -> Entry(n)],
   user : Users, prev : -1 .. n, stuck : BOOLEAN]

(* ... and whose directory looks no older than b.                          *)
Since0(r, b) == r.dirMtime >= b /\ (r.prev = -1 \/ r.prev >= b)
Rep(n, b) == {r \in Replica(n) : Since0(r, b)}

(* The active script is a link to a script that is there (or that could    *)
(* not be read or removed with its script), a file with a text of its own, *)
(* or none.                                                                *)
Good(r) ==
  /\ r.kind = "link" => r.link \in Scripts /\ (r.text[r.link] # 0 \/ r.stuck)
  /\ r.kind # "link" => r.link = Default
  /\ r.kind = "own" => r.own # 0

(* Two replicas that agree on a key.                                       *)
AgreeOn(k, q, r) ==
  IF k = Default
  THEN \/ q.kind = r.kind /\ q.link = r.link
       \/ q.kind = "own" /\ r.kind = "none"
       \/ q.kind = "none" /\ r.kind = "own"
  ELSE q.text[k] = r.text[k]

Differ(q, r) == q.kind # r.kind \/ q.link # r.link

(* No sync, nothing lost from the logs, and only side i was changed since  *)
(* the last sync: the other side's log has nothing new, and where the      *)
(* replicas differ, side i's log or directory tells.                       *)
ChangedBy(q, r) ==
  /\ \A k \in Keys : ~r.log[k].new
  /\ \A s \in Scripts \ {Orig} : q.text[s] # r.text[s] => q.log[s].new
  /\ q.kind # "own" /\ r.kind # "own" /\ Differ(q, r) =>
       q.log[Default].new \/ (q.kind = "link" /\ r.kind = "link" /\ q.dirMtime > r.dirMtime)

(* The same during a sync that found the replicas q0 and r0: side i is as  *)
(* it was, and so is the other one in what is still to be done.            *)
Winning(q0, r0, q, r, todo) ==
  /\ ChangedBy(q0, r0)
  /\ \A s \in Scripts \ {Orig} : q.text[s] = q0.text[s] /\ (s \in todo => r.text[s] = r0.text[s])
  /\ q0.kind # "own" /\ r0.kind # "own" =>
       /\ ~Differ(q, q0) /\ sieve_file_storage_get_last_change(q) = q0.dirMtime
       /\ Default \in todo => \/ ~Differ(r, r0) /\ sieve_file_storage_get_last_change(r) = r0.dirMtime
                              \/ r.kind = "none"

By == IF brain.state = "done" THEN {} ELSE brain.by

(* Types, counters and the steps of dsync.                                 *)
SyncTypes ==
  /\ edits \in 0 .. MaxEdits /\ syncs \in 0 .. MaxSyncs /\ slips \in 0 .. MaxSlips
  /\ brain \in [on : BOOLEAN, opened : [Side -> Replica(clock)], by : SUBSET Side, todo : SUBSET Keys,
                state : {"edited", "busy", "done", "failed"}]
  /\ clock = 1 + edits + (IF brain.on THEN syncs - 1 ELSE syncs) /\ (brain.on => syncs >= 1)
  /\ rep \in [Side -> Replica(clock)]
  /\ brain.on <=> brain.state = "busy" \/ (brain.on /\ brain.state = "failed")

(* Between syncs there is no storage object, and time has passed.  During  *)
(* a sync no replica looks older than when it was opened.                  *)
TimesOK ==
  /\ ~brain.on => \A i \in Side : rep[i].prev = -1 /\ rep[i].dirMtime < clock
  /\ brain.on => \A i \in Side : Since0(rep[i], brain.opened[i].dirMtime)

AllGood == \A i \in Side : Good(rep[i])

(* Keys that dsync is done with agree.                                     *)
Agreed ==
  slips = 0 /\ brain.state \in {"busy", "done"} =>
    \A k \in Keys \ {Orig} : brain.state = "done" \/ k \notin brain.todo => AgreeOn(k, rep[1], rep[2])

OneSided == slips = 0 /\ ~brain.on => \A i \in Side : By \subseteq {i} => ChangedBy(rep[i], rep[Other(i)])

OneSideWins ==
  slips = 0 /\ brain.state = "busy" => \A i \in Side : brain.by \subseteq {i} =>
    Winning(brain.opened[i], brain.opened[Other(i)], rep[i], rep[Other(i)], brain.todo)

(* Without a failure every storage can be opened and no link is stuck.     *)
Sane(r) == ~r.stuck /\ r.user # "failed"
SlipFree == slips = 0 => \A i \in Side : Sane(rep[i])

SyncInv == SyncTypes /\ TimesOK /\ AllGood /\ Agreed /\ OneSided /\ OneSideWins /\ EditsSurvive /\ SlipFree

(* Two replicas that hold the same scripts.                                *)
SameScripts(q, r) ==
  /\ q.text = r.text /\ q.kind = r.kind /\ q.link = r.link /\ q.own = r.own
  /\ q.stuck = r.stuck /\ q.user = r.user

(* The log of r with a new entry for k.                                    *)
LogAdds(q, r, k) == q.log[k].new /\ \A x \in Keys : x # k => q.log[x] = r.log[x]

(* The texts of a replica after its own active file was rescued.           *)
Rescued(r) == IF r.kind = "own" THEN [r.text EXCEPT ![Orig] = r.own] ELSE r.text

(* The replica with another active script, after a rescue.                 *)
WithActive(r, kind, link) ==
  [sieve_file_storage_active_rescue_regular(sieve_file_storage_pre_modify(r)) EXCEPT
     !.kind = kind, !.link = link, !.own = 0, !.ownMtime = 0, !.stuck = FALSE]

ActiveEffect(q, r, kind, link, ts, b) ==
  /\ q \in Rep(clock, b) /\ q.text = Rescued(r) /\ q.kind = kind /\ q.link = link /\ q.own = 0
  /\ q.log = r.log /\ (ts = -1 => q.dirMtime = clock) /\ ~q.stuck /\ q.user = r.user

(* Nothing but the log is touched, and there by an entry for k.            *)
LogEffect(q, r, k, b) ==
  /\ q \in Rep(clock, b) /\ SameScripts(q, r) /\ q.dirMtime = r.dirMtime
  /\ sieve_file_storage_get_last_change(q) = sieve_file_storage_get_last_change(r)
  /\ LogAdds(q, r, k)

-----------------------------------------------------------------------------
(* The operations of the storage: what they leave behind *)

(* Later bounds are weaker.                                                *)
LEMMA RepMono ==
  ASSUME NEW n \in Nat, NEW m \in Nat, n <= m, NEW r \in Replica(n)
  PROVE  r \in Replica(m)
<1>1. 0 .. n \subseteq 0 .. m /\ -1 .. n \subseteq -1 .. m
  OBVIOUS
<1>2. r.mtime \in [Scripts -> 0 .. m]
  BY <1>1 DEF Replica
<1>3. Entry(n) \subseteq Entry(m)
  BY <1>1 DEF Entry
<1>4. r.log \in [Keys -> Entry(m)]
  <2>1. r.log \in [Keys -> Entry(n)]
    BY DEF Replica
  <2>2. QED BY <1>3, <2>1
<1>5. QED BY <1>1, <1>2, <1>4 DEF Replica

LEMMA NewForm ==
  /\ NewReplica \in Replica(1) /\ NewReplica.prev = -1 /\ NewReplica.dirMtime = 0 /\ Good(NewReplica)
  /\ NewReplica.kind = "none" /\ NewReplica.link = Default /\ Sane(NewReplica)
  /\ (\A s \in Scripts : NewReplica.text[s] = 0) /\ \A k \in Keys : ~NewReplica.log[k].new
<1>1. NoEntry \in Entry(1) /\ ~NoEntry.new
  BY DEF NoEntry, Entry
<1>2. /\ [s \in Scripts |-> 0] \in [Scripts -> 0 .. MaxText] /\ [s \in Scripts |-> 0] \in [Scripts -> 0 .. 1]
      /\ 0 \in 0 .. MaxText /\ 0 \in 0 .. 1 /\ -1 \in -1 .. 1 /\ "none" \in Kinds /\ "new" \in Users /\ Default \in Keys
  BY SyncAssumption DEF Kinds, Users, Keys
<1>3. [k \in Keys |-> NoEntry] \in [Keys -> Entry(1)] /\ \A k \in Keys : ~[z \in Keys |-> NoEntry][k].new
  BY <1>1
<1>4. NewReplica \in Replica(1)
  BY <1>2, <1>3 DEF NewReplica, Replica
<1>5. QED BY <1>3, <1>4 DEF NewReplica, Good, Sane

(* The last change of the storage is a time, and not before b.             *)
LEMMA LastChange ==
  ASSUME NEW n \in Nat, NEW b \in Nat, NEW r \in Rep(n, b)
  PROVE  sieve_file_storage_get_last_change(r) \in b .. n /\ sieve_file_storage_get_last_change(r) \in 0 .. n
<1>1. r.dirMtime \in 0 .. n /\ r.prev \in -1 .. n
  BY DEF Rep, Replica
<1>2. QED BY <1>1 DEF Rep, Since0, sieve_file_storage_get_last_change

(* Remembering the last change.                                            *)
LEMMA PreModify ==
  ASSUME NEW n \in Nat, NEW b \in Nat, NEW r \in Rep(n, b)
  PROVE  /\ sieve_file_storage_pre_modify(r) \in Rep(n, b)
         /\ SameScripts(sieve_file_storage_pre_modify(r), r)
         /\ sieve_file_storage_pre_modify(r).log = r.log
         /\ sieve_file_storage_get_last_change(sieve_file_storage_pre_modify(r)) = sieve_file_storage_get_last_change(r)
<1> DEFINE p == sieve_file_storage_get_last_change(r)
           q == [r EXCEPT !.prev = p]
<1>1. p \in b .. n /\ p \in -1 .. n
  BY LastChange
<1> HIDE DEF p
<1>2. r \in Replica(n) /\ Since0(r, b)
  BY DEF Rep
<1>3. q \in Replica(n)
  BY <1>1, <1>2 DEF Replica
<1>4. /\ q.text = r.text /\ q.kind = r.kind /\ q.link = r.link /\ q.own = r.own /\ q.dirMtime = r.dirMtime /\ q.prev = p
      /\ q.log = r.log /\ q.stuck = r.stuck /\ q.user = r.user
  BY <1>2 DEF Replica
<1>5. sieve_file_storage_pre_modify(r) = q
  BY DEF sieve_file_storage_pre_modify, p
<1> HIDE DEF q
<1>6. q \in Rep(n, b)
  BY <1>1, <1>2, <1>3, <1>4 DEF Rep, Since0
<1>7. sieve_file_storage_get_last_change(q) = p
  BY <1>1, <1>4 DEF sieve_file_storage_get_last_change
<1>8. QED BY <1>4, <1>5, <1>6, <1>7 DEF SameScripts, p

(* An entry in the log.                                                    *)
LEMMA LoggedForm ==
  ASSUME clock \in Nat, NEW b \in Nat, NEW r \in Rep(clock, b), NEW k \in Keys, NEW ts \in 0 .. clock, NEW set \in BOOLEAN
  PROVE  LogEffect(Logged(r, k, ts, set), r, k, b)
<1> DEFINE q == Logged(r, k, ts, set)
           e == [ts |-> ts, set |-> set, new |-> TRUE]
           l == [r.log EXCEPT ![k] = e]
<1>1. r \in Replica(clock) /\ Since0(r, b) /\ r.log \in [Keys -> Entry(clock)]
  BY DEF Rep, Replica
<1>2. e \in Entry(clock)
  BY DEF Entry
<1> HIDE DEF e
<1>3. l \in [Keys -> Entry(clock)] /\ l[k].new /\ \A x \in Keys : x # k => l[x] = r.log[x]
  <2>1. e.new
    BY DEF e
  <2>2. QED BY <1>1, <1>2, <2>1
<1>4. q = [r EXCEPT !.log = l]
  BY DEF Logged, e
<1> HIDE DEF l, q
<1>5. q \in Replica(clock)
  BY <1>1, <1>3, <1>4 DEF Replica
<1>6. /\ q.text = r.text /\ q.kind = r.kind /\ q.link = r.link /\ q.own = r.own
      /\ q.dirMtime = r.dirMtime /\ q.prev = r.prev /\ q.log = l /\ q.stuck = r.stuck /\ q.user = r.user
  BY <1>1, <1>4 DEF Replica
<1>7. q \in Rep(clock, b)
  BY <1>1, <1>5, <1>6 DEF Rep, Since0
<1>8. QED BY <1>3, <1>6, <1>7 DEF LogAdds, LogEffect, SameScripts, q, sieve_file_storage_get_last_change

(* A script is written or removed.                                         *)
LEMMA StoredForm ==
  ASSUME clock \in Nat, NEW b \in Nat, b <= clock, NEW r \in Rep(clock, b), NEW s \in Scripts,
         NEW c \in 0 .. MaxText, NEW t \in 0 .. clock
  PROVE  /\ Stored(r, s, c, t) \in Rep(clock, b)
         /\ Stored(r, s, c, t).text = [r.text EXCEPT ![s] = c]
         /\ Stored(r, s, c, t).kind = r.kind /\ Stored(r, s, c, t).link = r.link /\ Stored(r, s, c, t).own = r.own
         /\ Stored(r, s, c, t).log = r.log /\ Stored(r, s, c, t).dirMtime = clock
         /\ Stored(r, s, c, t).stuck = r.stuck /\ Stored(r, s, c, t).user = r.user
         /\ sieve_file_storage_get_last_change(Stored(r, s, c, t)) = sieve_file_storage_get_last_change(r)
<1> DEFINE p == sieve_file_storage_pre_modify(r)
           x == [p.text EXCEPT ![s] = c]
           m == [p.mtime EXCEPT ![s] = t]
           q == [p EXCEPT !.text = x, !.mtime = m, !.dirMtime = clock]
<1>1. /\ p \in Rep(clock, b) /\ SameScripts(p, r) /\ p.log = r.log
      /\ sieve_file_storage_get_last_change(p) = sieve_file_storage_get_last_change(r)
  BY PreModify
<1>2. p \in Replica(clock) /\ Since0(p, b)
  BY <1>1 DEF Rep
<1>2a. p.prev # -1
  <2>1. p.prev = sieve_file_storage_get_last_change(r)
    BY DEF sieve_file_storage_pre_modify, Rep, Replica
  <2>2. QED BY <2>1, LastChange
<1> HIDE DEF p
<1>3. x \in [Scripts -> 0 .. MaxText] /\ m \in [Scripts -> 0 .. clock] /\ clock \in 0 .. clock
  BY <1>2 DEF Replica
<1>4. Stored(r, s, c, t) = q
  BY DEF Stored, p
<1>5. x = [r.text EXCEPT ![s] = c]
  BY <1>1 DEF SameScripts
<1> HIDE DEF x, m
<1>6. q \in Replica(clock)
  BY <1>2, <1>3 DEF Replica
<1>7. q.text = x /\ q.kind = p.kind /\ q.link = p.link /\ q.own = p.own /\ q.dirMtime = clock /\ q.prev = p.prev
      /\ q.log = p.log /\ q.stuck = p.stuck /\ q.user = p.user
  BY <1>2 DEF Replica
<1> HIDE DEF q
<1>8. q \in Rep(clock, b)
  BY <1>2, <1>6, <1>7 DEF Rep, Since0
<1>9. QED BY <1>1, <1>2a, <1>4, <1>5, <1>7, <1>8 DEF SameScripts, sieve_file_storage_get_last_change

(* The directory's time is set: never back.                                *)
LEMMA SetModified ==
  ASSUME clock \in Nat, NEW b \in Nat, b <= clock, NEW r \in Rep(clock, b), NEW ts \in -1 .. clock
  PROVE  /\ sieve_file_storage_set_modified(r, ts) \in Rep(clock, b)
         /\ SameScripts(sieve_file_storage_set_modified(r, ts), r)
         /\ sieve_file_storage_set_modified(r, ts).log = r.log
         /\ ts = -1 => sieve_file_storage_set_modified(r, ts).dirMtime = clock
<1> DEFINE m == IF ts = -1 THEN clock ELSE ts
           q == [r EXCEPT !.dirMtime = m, !.prev = m]
<1>1. CASE ts # -1 /\ sieve_file_storage_get_last_change(r) > ts
  BY <1>1, PreModify DEF sieve_file_storage_set_modified
<1>2. CASE ~(ts # -1 /\ sieve_file_storage_get_last_change(r) > ts)
  <2>1. sieve_file_storage_set_modified(r, ts) = q
    BY <1>2 DEF sieve_file_storage_set_modified
  <2>2. m \in b .. clock /\ m \in 0 .. clock /\ m \in -1 .. clock
    BY <1>2, LastChange
  <2> HIDE DEF m
  <2>3. r \in Replica(clock)
    BY DEF Rep
  <2>4. q \in Replica(clock)
    BY <2>2, <2>3 DEF Replica
  <2>5. q.text = r.text /\ q.kind = r.kind /\ q.link = r.link /\ q.own = r.own /\ q.dirMtime = m /\ q.prev = m
        /\ q.log = r.log /\ q.stuck = r.stuck /\ q.user = r.user
    BY <2>3 DEF Replica
  <2> HIDE DEF q
  <2>6. ts = -1 => m = clock
    BY DEF m
  <2>7. QED BY <2>1, <2>2, <2>4, <2>5, <2>6 DEF Rep, Since0, SameScripts
<1>3. QED BY <1>1, <1>2

(* A file of the user's own is kept as "dovecot.orig".                     *)
LEMMA RescueForm ==
  ASSUME clock \in Nat, NEW b \in Nat, b <= clock, NEW r \in Rep(clock, b)
  PROVE  /\ sieve_file_storage_active_rescue_regular(r) \in Rep(clock, b)
         /\ sieve_file_storage_active_rescue_regular(r).text = Rescued(r)
         /\ sieve_file_storage_active_rescue_regular(r).log = r.log
         /\ sieve_file_storage_active_rescue_regular(r).kind = r.kind
         /\ sieve_file_storage_active_rescue_regular(r).link = r.link
         /\ sieve_file_storage_active_rescue_regular(r).own = r.own
         /\ sieve_file_storage_active_rescue_regular(r).stuck = r.stuck
         /\ sieve_file_storage_active_rescue_regular(r).user = r.user
<1>1. CASE r.kind = "own"
  <2>1. r.own \in 0 .. MaxText /\ clock \in 0 .. clock
    BY DEF Rep, Replica
  <2>2. QED BY <1>1, <2>1, StoredForm, SyncAssumption DEF sieve_file_storage_active_rescue_regular, Rescued
<1>2. CASE r.kind # "own"
  BY <1>2 DEF sieve_file_storage_active_rescue_regular, Rescued
<1>3. QED BY <1>1, <1>2

(* The active script becomes what kind and link say.                       *)
LEMMA ActiveForm ==
  ASSUME clock \in Nat, NEW b \in Nat, b <= clock, NEW r \in Rep(clock, b), NEW kind \in {"link", "none"},
         NEW link \in Keys, NEW ts \in -1 .. clock
  PROVE  ActiveEffect(sieve_file_storage_set_modified(WithActive(r, kind, link), ts), r, kind, link, ts, b)
<1> DEFINE a == WithActive(r, kind, link)
           q == sieve_file_storage_set_modified(a, ts)
           p == sieve_file_storage_pre_modify(r)
           c == sieve_file_storage_active_rescue_regular(p)
<1>0. a = [c EXCEPT !.kind = kind, !.link = link, !.own = 0, !.ownMtime = 0, !.stuck = FALSE]
  BY DEF WithActive
<1> HIDE DEF a
<1>1. p \in Rep(clock, b) /\ SameScripts(p, r) /\ p.log = r.log
  BY PreModify
<1> HIDE DEF p
<1>2. c \in Rep(clock, b) /\ c.text = Rescued(p) /\ c.log = p.log /\ c.user = p.user
  BY <1>1, RescueForm
<1>3. Rescued(p) = Rescued(r)
  BY <1>1 DEF SameScripts, Rescued
<1> HIDE DEF c
<1>4. c \in Replica(clock) /\ Since0(c, b)
  BY <1>2 DEF Rep
<1>5. a \in Replica(clock)
  <2>1. 0 \in 0 .. MaxText /\ 0 \in 0 .. clock /\ kind \in Kinds
    BY SyncAssumption DEF Kinds
  <2>2. ASSUME NEW x \in Replica(clock)
        PROVE  [x EXCEPT !.kind = kind, !.link = link, !.own = 0, !.ownMtime = 0, !.stuck = FALSE] \in Replica(clock)
    BY <2>1 DEF Replica
  <2>3. QED BY <1>0, <1>4, <2>2
<1>6. /\ a.text = c.text /\ a.kind = kind /\ a.link = link /\ a.own = 0 /\ a.log = c.log /\ a.dirMtime = c.dirMtime
      /\ a.prev = c.prev /\ ~a.stuck /\ a.user = c.user
  BY <1>0, <1>4 DEF Replica
<1>7. a \in Rep(clock, b)
  BY <1>4, <1>5, <1>6 DEF Rep, Since0
<1>8. q \in Rep(clock, b) /\ SameScripts(q, a) /\ q.log = a.log /\ (ts = -1 => q.dirMtime = clock)
  BY <1>7, SetModified
<1>9. QED BY <1>1, <1>2, <1>3, <1>6, <1>8 DEF SameScripts, ActiveEffect, a

(* A script is activated.                                                  *)
LEMMA ActivateForm ==
  ASSUME clock \in Nat, NEW b \in Nat, b <= clock, NEW r \in Rep(clock, b), NEW s \in Scripts,
         NEW ts \in -1 .. clock, NEW slip \in BOOLEAN, NEW q, q = StorageActivate(r, s, ts, slip)
  PROVE  /\ q \in Rep(clock, b) /\ q.text = Rescued(r) /\ q.kind = "link" /\ q.link = s /\ q.own = 0
         /\ ~q.stuck /\ q.user = r.user
         /\ ts = -1 => q.dirMtime = clock
         /\ \A k \in Keys : k # Default => q.log[k] = r.log[k]
         /\ ~slip => q.log[Default].new
         /\ slip => q.log = r.log
<1> DEFINE a == WithActive(r, "link", s)
           m == sieve_file_storage_set_modified(a, ts)
<1>1. /\ m \in Rep(clock, b) /\ m.text = Rescued(r) /\ m.kind = "link" /\ m.link = s /\ m.own = 0
      /\ m.log = r.log /\ (ts = -1 => m.dirMtime = clock) /\ ~m.stuck /\ m.user = r.user
  <2>1. "link" \in {"link", "none"} /\ s \in Keys
    BY DEF Keys
  <2>2. ActiveEffect(m, r, "link", s, ts, b)
    BY <2>1, ActiveForm
  <2> HIDE DEF m
  <2>3. QED BY <2>2 DEF ActiveEffect
<1>2. q = IF slip THEN m ELSE Logged(m, Default, clock, TRUE)
  BY DEF StorageActivate, WithActive, sieve_storage_sync_script_activate
<1> HIDE DEF m
<1>3. Default \in Keys /\ clock \in 0 .. clock /\ TRUE \in BOOLEAN
  BY DEF Keys
<1>4. CASE slip
  BY <1>1, <1>2, <1>4
<1>5. CASE ~slip
  <2>1. q = Logged(m, Default, clock, TRUE)
    BY <1>2, <1>5
  <2>2. \A set \in BOOLEAN : LogEffect(Logged(m, Default, clock, set), m, Default, b)
    BY <1>1, <1>3, LoggedForm
  <2>3. LogEffect(q, m, Default, b)
    BY <2>1, <2>2
  <2>4. QED BY <1>1, <1>5, <2>3 DEF SameScripts, LogAdds, LogEffect
<1>6. QED BY <1>4, <1>5

(* The active script is deactivated.                                       *)
LEMMA DeactivateForm ==
  ASSUME clock \in Nat, NEW b \in Nat, b <= clock, NEW r \in Rep(clock, b),
         NEW ts \in -1 .. clock, NEW slip \in BOOLEAN, NEW q, q = StorageDeactivate(r, ts, slip)
  PROVE  /\ q \in Rep(clock, b) /\ q.text = Rescued(r) /\ q.kind = "none" /\ q.link = Default /\ q.own = 0
         /\ ~q.stuck /\ q.user = r.user
         /\ ts = -1 => q.dirMtime = clock
         /\ \A k \in Keys : k # Default => q.log[k] = r.log[k]
         /\ ~slip => q.log[Default].new
         /\ slip => q.log = r.log
<1> DEFINE a == WithActive(r, "none", Default)
           m == sieve_file_storage_set_modified(a, ts)
<1>1. /\ m \in Rep(clock, b) /\ m.text = Rescued(r) /\ m.kind = "none" /\ m.link = Default /\ m.own = 0
      /\ m.log = r.log /\ (ts = -1 => m.dirMtime = clock) /\ ~m.stuck /\ m.user = r.user
  <2>1. "none" \in {"link", "none"} /\ Default \in Keys
    BY DEF Keys
  <2>2. ActiveEffect(m, r, "none", Default, ts, b)
    BY <2>1, ActiveForm
  <2> HIDE DEF m
  <2>3. QED BY <2>2 DEF ActiveEffect
<1>2. q = IF slip THEN m ELSE Logged(m, Default, clock, FALSE)
  BY DEF StorageDeactivate, WithActive, sieve_storage_sync_deactivate
<1> HIDE DEF m
<1>3. Default \in Keys /\ clock \in 0 .. clock /\ FALSE \in BOOLEAN
  BY DEF Keys
<1>4. CASE slip
  BY <1>1, <1>2, <1>4
<1>5. CASE ~slip
  <2>1. q = Logged(m, Default, clock, FALSE)
    BY <1>2, <1>5
  <2>2. \A set \in BOOLEAN : LogEffect(Logged(m, Default, clock, set), m, Default, b)
    BY <1>1, <1>3, LoggedForm
  <2>3. LogEffect(q, m, Default, b)
    BY <2>1, <2>2
  <2>4. QED BY <1>1, <1>5, <2>3 DEF SameScripts, LogAdds, LogEffect
<1>6. QED BY <1>4, <1>5

(* A script is deleted; if it is active, it is deactivated first.          *)
LEMMA DeleteForm ==
  ASSUME clock \in Nat, NEW b \in Nat, b <= clock, NEW r \in Rep(clock, b), NEW s \in Scripts,
         NEW slip \in BOOLEAN, NEW q, q = StorageDelete(r, s, slip)
  PROVE  /\ q \in Rep(clock, b) /\ q.text = [r.text EXCEPT ![s] = 0] /\ q.dirMtime = clock
         /\ (q.stuck => r.stuck) /\ q.user = r.user
         /\ IF r.kind = "link" /\ r.link = s THEN q.kind = "none" /\ q.link = Default /\ q.own = 0
            ELSE /\ q.kind = r.kind /\ q.link = r.link /\ q.own = r.own /\ q.stuck = r.stuck
                 /\ sieve_file_storage_get_last_change(q) = sieve_file_storage_get_last_change(r)
         /\ \A k \in Keys : r.log[k].new => q.log[k].new
         /\ ~slip => q.log[s].new
<1> DEFINE d == IF r.kind = "link" /\ r.link = s THEN StorageDeactivate(r, -1, slip) ELSE r
           e == Stored(d, s, 0, 0)
<1>1. /\ d \in Rep(clock, b) /\ d.text = r.text
      /\ IF r.kind = "link" /\ r.link = s THEN d.kind = "none" /\ d.link = Default /\ d.own = 0
         ELSE d = r
      /\ (d.stuck => r.stuck) /\ d.user = r.user
      /\ \A k \in Keys : r.log[k].new => d.log[k].new
  <2>1. CASE r.kind = "link" /\ r.link = s
    <3>1. d = StorageDeactivate(r, -1, slip) /\ Rescued(r) = r.text /\ -1 \in -1 .. clock
      BY <2>1 DEF Rescued
    <3>2. /\ d \in Rep(clock, b) /\ d.text = Rescued(r) /\ d.kind = "none" /\ d.link = Default /\ d.own = 0
          /\ ~d.stuck /\ d.user = r.user
          /\ \A k \in Keys : k # Default => d.log[k] = r.log[k]
          /\ ~slip => d.log[Default].new
          /\ slip => d.log = r.log
      BY <3>1, DeactivateForm
    <3> HIDE DEF d
    <3>3. \A k \in Keys : r.log[k].new => d.log[k].new
      BY <3>2
    <3>4. QED BY <2>1, <3>1, <3>2, <3>3
  <2>2. CASE ~(r.kind = "link" /\ r.link = s)
    BY <2>2
  <2>3. QED BY <2>1, <2>2
<1> HIDE DEF d
<1>2. 0 \in 0 .. MaxText /\ 0 \in 0 .. clock /\ clock \in 0 .. clock /\ s \in Keys /\ FALSE \in BOOLEAN
  BY SyncAssumption DEF Keys
<1>3. /\ e \in Rep(clock, b) /\ e.text = [d.text EXCEPT ![s] = 0] /\ e.kind = d.kind /\ e.link = d.link /\ e.own = d.own
      /\ e.log = d.log /\ e.dirMtime = clock /\ e.stuck = d.stuck /\ e.user = d.user
      /\ sieve_file_storage_get_last_change(e) = sieve_file_storage_get_last_change(d)
  BY <1>1, <1>2, StoredForm
<1>4. q = IF slip THEN e ELSE Logged(e, s, clock, FALSE)
  BY DEF StorageDelete, sieve_storage_sync_script_delete, d
<1> HIDE DEF e
<1>5. /\ q \in Rep(clock, b) /\ SameScripts(q, e) /\ q.dirMtime = e.dirMtime
      /\ sieve_file_storage_get_last_change(q) = sieve_file_storage_get_last_change(e)
      /\ \A k \in Keys : e.log[k].new => q.log[k].new
      /\ ~slip => q.log[s].new
  <2>1. CASE slip
    BY <1>3, <1>4, <2>1 DEF SameScripts
  <2>2. CASE ~slip
    <3>1. q = Logged(e, s, clock, FALSE)
      BY <1>4, <2>2
    <3>2. \A set \in BOOLEAN : LogEffect(Logged(e, s, clock, set), e, s, b)
      BY <1>2, <1>3, LoggedForm
    <3>3. LogEffect(q, e, s, b)
      BY <3>1, <3>2
    <3>4. QED BY <3>3 DEF LogAdds, LogEffect
  <2>3. QED BY <2>1, <2>2
<1>6. QED BY <1>1, <1>3, <1>5 DEF SameScripts

-----------------------------------------------------------------------------
(* The edits of a user *)

(* What an edit may do to a replica: the result is a replica with a good   *)
(* active script, a file of the user's own is kept, and no entry of the    *)
(* log is lost.                                                            *)
EditEffect(q, r) ==
  /\ q \in Rep(clock, 0) /\ Good(q)
  /\ r.kind = "own" /\ q.kind # "own" => q.text[Orig] = r.own
  /\ \A k \in Keys : r.log[k].new => q.log[k].new
  /\ q.dirMtime = clock \/ q.dirMtime = r.dirMtime

(* What is changed is in the log; a renamed active script is not, but then *)
(* the directory has changed.                                              *)
EditLogged(q, r) ==
  /\ \A s \in Scripts \ {Orig} : q.text[s] # r.text[s] => q.log[s].new
  /\ q.kind # "own" /\ Differ(q, r) =>
       q.log[Default].new \/ (q.kind = "link" /\ r.kind = "link" /\ q.dirMtime = clock)
  /\ q.stuck => r.stuck

LEMMA EditSave ==
  ASSUME clock \in Nat, NEW r \in Rep(clock, 0), Good(r), NEW s \in Scripts, NEW c \in 1 .. MaxText, NEW slip \in BOOLEAN
  PROVE  /\ EditEffect(sieve_storage_sync_script_save(Stored(r, s, c, clock), s, slip), r)
         /\ ~slip => EditLogged(sieve_storage_sync_script_save(Stored(r, s, c, clock), s, slip), r)
<1> DEFINE e == Stored(r, s, c, clock)
           q == sieve_storage_sync_script_save(e, s, slip)
<1>1. c \in 0 .. MaxText /\ c # 0 /\ clock \in 0 .. clock /\ 0 \in Nat /\ 0 <= clock /\ s \in Keys
  BY SyncAssumption DEF Keys
<1>2. /\ e \in Rep(clock, 0) /\ e.text = [r.text EXCEPT ![s] = c] /\ e.kind = r.kind /\ e.link = r.link /\ e.own = r.own
      /\ e.log = r.log /\ e.dirMtime = clock /\ e.stuck = r.stuck
  BY <1>1, StoredForm
<1>3. r.text \in [Scripts -> 0 .. MaxText]
  BY DEF Rep, Replica
<1> HIDE DEF e
<1>4. Good(e)
  BY <1>1, <1>2, <1>3 DEF Good
<1>5. q = e \/ q = Logged(e, s, clock, TRUE)
  BY DEF sieve_storage_sync_script_save
<1>6. ~slip => q = Logged(e, s, clock, TRUE)
  BY DEF sieve_storage_sync_script_save
<1>7. \A set \in BOOLEAN : LogEffect(Logged(e, s, clock, set), e, s, 0)
  BY <1>1, <1>2, LoggedForm
<1>8. q = Logged(e, s, clock, TRUE) => LogEffect(q, e, s, 0)
  BY <1>7
<1> HIDE DEF q
<1>9. q = e \/ LogEffect(q, e, s, 0)
  BY <1>5, <1>8
<1>10. EditEffect(q, r)
  BY <1>2, <1>4, <1>9 DEF EditEffect, LogEffect, SameScripts, LogAdds, Good
<1>11. ~slip => EditLogged(q, r)
  BY <1>2, <1>3, <1>6, <1>8 DEF EditLogged, LogEffect, SameScripts, LogAdds, Differ
<1>12. QED BY <1>10, <1>11 DEF q, e

LEMMA EditDelete ==
  ASSUME clock \in Nat, NEW r \in Rep(clock, 0), Good(r), NEW s \in Scripts, NEW slip \in BOOLEAN,
         r.kind = "link" => r.link # s
  PROVE  /\ EditEffect(StorageDelete(r, s, slip), r)
         /\ ~slip => EditLogged(StorageDelete(r, s, slip), r)
<1> DEFINE q == StorageDelete(r, s, slip)
<1>1. 0 \in Nat /\ 0 <= clock
  OBVIOUS
<1>2. /\ q \in Rep(clock, 0) /\ q.text = [r.text EXCEPT ![s] = 0] /\ q.dirMtime = clock
      /\ q.kind = r.kind /\ q.link = r.link /\ q.own = r.own /\ q.stuck = r.stuck
      /\ \A k \in Keys : r.log[k].new => q.log[k].new
      /\ ~slip => q.log[s].new
  BY <1>1, DeleteForm
<1>3. r.text \in [Scripts -> 0 .. MaxText]
  BY DEF Rep, Replica
<1> HIDE DEF q
<1>4. EditEffect(q, r)
  BY <1>2, <1>3 DEF EditEffect, Good
<1>5. ~slip => EditLogged(q, r)
  BY <1>2, <1>3 DEF EditLogged, Differ
<1>6. QED BY <1>4, <1>5 DEF q

LEMMA EditActivate ==
  ASSUME clock \in Nat, NEW r \in Rep(clock, 0), Good(r), NEW s \in Scripts, r.text[s] # 0, NEW slip \in BOOLEAN
  PROVE  /\ EditEffect(StorageActivate(r, s, -1, slip), r)
         /\ ~slip => EditLogged(StorageActivate(r, s, -1, slip), r)
<1> DEFINE q == StorageActivate(r, s, -1, slip)
<1>1. 0 \in Nat /\ 0 <= clock /\ -1 \in -1 .. clock
  OBVIOUS
<1>2. /\ q \in Rep(clock, 0) /\ q.text = Rescued(r) /\ q.kind = "link" /\ q.link = s /\ q.own = 0 /\ q.dirMtime = clock
      /\ ~q.stuck
      /\ \A k \in Keys : k # Default => q.log[k] = r.log[k]
      /\ ~slip => q.log[Default].new
      /\ slip => q.log = r.log
  BY <1>1, ActivateForm
<1>3. r.text \in [Scripts -> 0 .. MaxText]
  BY DEF Rep, Replica
<1> HIDE DEF q
<1>4. /\ \A x \in Scripts \ {Orig} : q.text[x] = r.text[x]
      /\ r.kind = "own" => q.text[Orig] = r.own
      /\ q.text[s] # 0
  BY <1>2, <1>3, SyncAssumption DEF Rescued, Good
<1>5. EditEffect(q, r)
  BY <1>2, <1>4 DEF EditEffect, Good
<1>6. ~slip => EditLogged(q, r)
  BY <1>2, <1>4 DEF EditLogged
<1>7. QED BY <1>5, <1>6 DEF q

LEMMA EditDeactivate ==
  ASSUME clock \in Nat, NEW r \in Rep(clock, 0), Good(r), NEW slip \in BOOLEAN
  PROVE  /\ EditEffect(StorageDeactivate(r, -1, slip), r)
         /\ ~slip => EditLogged(StorageDeactivate(r, -1, slip), r)
<1> DEFINE q == StorageDeactivate(r, -1, slip)
<1>1. 0 \in Nat /\ 0 <= clock /\ -1 \in -1 .. clock
  OBVIOUS
<1>2. /\ q \in Rep(clock, 0) /\ q.text = Rescued(r) /\ q.kind = "none" /\ q.link = Default /\ q.own = 0 /\ q.dirMtime = clock
      /\ ~q.stuck
      /\ \A k \in Keys : k # Default => q.log[k] = r.log[k]
      /\ ~slip => q.log[Default].new
      /\ slip => q.log = r.log
  BY <1>1, DeactivateForm
<1>3. r.text \in [Scripts -> 0 .. MaxText]
  BY DEF Rep, Replica
<1> HIDE DEF q
<1>4. /\ \A x \in Scripts \ {Orig} : q.text[x] = r.text[x]
      /\ r.kind = "own" => q.text[Orig] = r.own
  BY <1>2, <1>3, SyncAssumption DEF Rescued
<1>5. EditEffect(q, r)
  BY <1>2, <1>4 DEF EditEffect, Good
<1>6. ~slip => EditLogged(q, r)
  BY <1>2, <1>4 DEF EditLogged
<1>7. QED BY <1>5, <1>6 DEF q

LEMMA EditOwn ==
  ASSUME clock \in Nat, NEW r \in Rep(clock, 0), NEW c \in 1 .. MaxText
  PROVE  /\ EditEffect([r EXCEPT !.kind = "own", !.link = Default, !.own = c, !.ownMtime = clock, !.stuck = FALSE], r)
         /\ EditLogged([r EXCEPT !.kind = "own", !.link = Default, !.own = c, !.ownMtime = clock, !.stuck = FALSE], r)
<1> DEFINE q == [r EXCEPT !.kind = "own", !.link = Default, !.own = c, !.ownMtime = clock, !.stuck = FALSE]
<1>1. r \in Replica(clock) /\ Since0(r, 0)
  BY DEF Rep
<1>2. q \in Replica(clock)
  <2>1. c \in 0 .. MaxText /\ clock \in 0 .. clock /\ "own" \in Kinds /\ Default \in Keys
    BY SyncAssumption DEF Kinds, Keys
  <2>2. ASSUME NEW x \in Replica(clock)
        PROVE  [x EXCEPT !.kind = "own", !.link = Default, !.own = c, !.ownMtime = clock, !.stuck = FALSE] \in Replica(clock)
    BY <2>1 DEF Replica
  <2>3. QED BY <1>1, <2>2
<1>3. /\ q.text = r.text /\ q.kind = "own" /\ q.link = Default /\ q.own = c
      /\ q.dirMtime = r.dirMtime /\ q.prev = r.prev /\ q.log = r.log /\ ~q.stuck
  BY <1>1 DEF Replica
<1> HIDE DEF q
<1>4. c # 0 /\ q \in Rep(clock, 0)
  BY <1>1, <1>2, <1>3, SyncAssumption DEF Rep, Since0
<1>5. EditEffect(q, r)
  BY <1>3, <1>4 DEF EditEffect, Good
<1>6. EditLogged(q, r)
  BY <1>3 DEF EditLogged
<1>7. QED BY <1>5, <1>6 DEF q

LEMMA EditRename ==
  ASSUME clock \in Nat, NEW r \in Rep(clock, 0), Good(r), NEW s \in Scripts, NEW t \in Scripts, NEW slip \in BOOLEAN,
         r.text[s] # 0, r.text[t] = 0, NEW e,
         e = [r EXCEPT !.text[t] = r.text[s], !.text[s] = 0, !.mtime[t] = r.mtime[s],
                       !.mtime[s] = 0, !.dirMtime = clock, !.link = IF @ = s THEN t ELSE @]
  PROVE  /\ EditEffect(sieve_storage_sync_script_rename(e, s, t, slip), r)
         /\ ~slip => EditLogged(sieve_storage_sync_script_rename(e, s, t, slip), r)
<1> DEFINE x == [[r.text EXCEPT ![t] = r.text[s]] EXCEPT ![s] = 0]
           m == [[r.mtime EXCEPT ![t] = r.mtime[s]] EXCEPT ![s] = 0]
           l == IF r.link = s THEN t ELSE r.link
           d == Logged(e, s, clock, FALSE)
           g == Logged(d, t, clock, TRUE)
           q == sieve_storage_sync_script_rename(e, s, t, slip)
<1>1. r \in Replica(clock) /\ Since0(r, 0)
  BY DEF Rep
<1>2. r.text \in [Scripts -> 0 .. MaxText] /\ r.mtime \in [Scripts -> 0 .. clock] /\ r.link \in Keys /\ clock \in 0 .. clock
  BY <1>1 DEF Replica
<1>3. x \in [Scripts -> 0 .. MaxText] /\ m \in [Scripts -> 0 .. clock] /\ l \in Keys
  BY <1>2, SyncAssumption DEF Keys
<1>4. /\ x[s] = 0 /\ x[t] = r.text[s]
      /\ \A z \in Scripts : z # s /\ z # t => x[z] = r.text[z]
  BY <1>2
<1>5. e = [r EXCEPT !.text = x, !.mtime = m, !.dirMtime = clock, !.link = l]
  BY <1>1 DEF Replica
<1> HIDE DEF x, m
<1>6. l = IF r.link = s THEN t ELSE r.link
  OBVIOUS
<1> HIDE DEF l
<1>7. e \in Replica(clock)
  <2>1. ASSUME NEW z \in Replica(clock)
        PROVE  [z EXCEPT !.text = x, !.mtime = m, !.dirMtime = clock, !.link = l] \in Replica(clock)
    BY <1>2, <1>3 DEF Replica
  <2>2. QED BY <1>1, <1>5, <2>1
<1>8. /\ e.text = x /\ e.kind = r.kind /\ e.link = l /\ e.own = r.own /\ e.dirMtime = clock /\ e.prev = r.prev /\ e.log = r.log
      /\ e.stuck = r.stuck
  BY <1>1, <1>5 DEF Replica
<1>9. e \in Rep(clock, 0)
  <2>1. Since0(e, 0)
    BY <1>1, <1>8 DEF Since0
  <2>2. QED BY <1>7, <2>1 DEF Rep
<1>10. Good(e)
  BY <1>2, <1>4, <1>6, <1>8, SyncAssumption DEF Good
<1>11. s \in Keys /\ t \in Keys /\ 0 \in Nat
  BY DEF Keys
<1>12. LogEffect(d, e, s, 0)
  <2>1. \A set \in BOOLEAN : LogEffect(Logged(e, s, clock, set), e, s, 0)
    BY <1>2, <1>9, <1>11, LoggedForm
  <2>2. QED BY <2>1
<1> HIDE DEF d
<1>13. LogEffect(g, d, t, 0)
  <2>1. d \in Rep(clock, 0)
    BY <1>12 DEF LogEffect
  <2>2. \A set \in BOOLEAN : LogEffect(Logged(d, t, clock, set), d, t, 0)
    BY <1>2, <1>11, <2>1, LoggedForm
  <2>3. QED BY <2>2
<1>14. /\ q = e \/ q = g
       /\ ~slip => q = g
  BY DEF sieve_storage_sync_script_rename, d
<1> HIDE DEF g, q
<1>15. EditEffect(e, r)
  BY <1>8, <1>9, <1>10 DEF EditEffect
<1>16. /\ g \in Rep(clock, 0) /\ SameScripts(g, e) /\ g.dirMtime = e.dirMtime /\ g.stuck = r.stuck
       /\ \A k \in Keys : r.log[k].new => g.log[k].new
       /\ g.log[s].new /\ g.log[t].new
  BY <1>8, <1>11, <1>12, <1>13 DEF LogEffect, SameScripts, LogAdds
<1>17. EditEffect(g, r)
  BY <1>8, <1>10, <1>16 DEF EditEffect, SameScripts, Good
<1>18. EditLogged(g, r)
  <2>1. \A z \in Scripts : g.text[z] # r.text[z] => g.log[z].new
    BY <1>4, <1>8, <1>16 DEF SameScripts
  <2>2. Differ(g, r) => g.kind = "link" /\ r.kind = "link" /\ g.dirMtime = clock
    BY <1>6, <1>8, <1>16, SyncAssumption DEF SameScripts, Differ, Good
  <2>3. QED BY <1>16, <2>1, <2>2 DEF EditLogged
<1>19. QED BY <1>14, <1>15, <1>17, <1>18 DEF q

(* The script goes and the link to it stays.                               *)
LEMMA StuckForm ==
  ASSUME clock \in Nat, NEW b \in Nat, b <= clock, NEW r \in Rep(clock, b), Good(r), NEW s \in Scripts
  PROVE  /\ DeleteStuck(r, s) \in Rep(clock, b) /\ Good(DeleteStuck(r, s))
         /\ DeleteStuck(r, s).kind = r.kind /\ DeleteStuck(r, s).dirMtime = clock
         /\ \A k \in Keys : r.log[k].new => DeleteStuck(r, s).log[k].new
<1> DEFINE e == Stored(r, s, 0, 0)
           d == Logged(e, s, clock, FALSE)
           q == [d EXCEPT !.stuck = TRUE]
<1>1. 0 \in 0 .. MaxText /\ 0 \in 0 .. clock /\ clock \in 0 .. clock /\ s \in Keys
  BY SyncAssumption DEF Keys
<1>2. /\ e \in Rep(clock, b) /\ e.text = [r.text EXCEPT ![s] = 0] /\ e.kind = r.kind /\ e.link = r.link /\ e.own = r.own
      /\ e.log = r.log /\ e.dirMtime = clock /\ e.stuck = r.stuck
  BY <1>1, StoredForm
<1> HIDE DEF e
<1>3. \A set \in BOOLEAN : LogEffect(Logged(e, s, clock, set), e, s, b)
  BY <1>1, <1>2, LoggedForm
<1>4. LogEffect(d, e, s, b)
  BY <1>3
<1>5. DeleteStuck(r, s) = q
  BY DEF DeleteStuck, DeleteOnly, sieve_storage_sync_script_delete, e
<1> HIDE DEF d
<1>6. /\ d \in Replica(clock) /\ Since0(d, b) /\ d.kind = r.kind /\ d.link = r.link /\ d.own = r.own /\ d.dirMtime = clock
      /\ \A k \in Keys : r.log[k].new => d.log[k].new
  BY <1>2, <1>4 DEF LogEffect, SameScripts, LogAdds, Rep
<1>7. q \in Replica(clock)
  BY <1>6 DEF Replica
<1>8. q.kind = d.kind /\ q.link = d.link /\ q.own = d.own /\ q.dirMtime = d.dirMtime /\ q.prev = d.prev /\ q.log = d.log /\ q.stuck
  BY <1>6 DEF Replica
<1> HIDE DEF q
<1>9. QED BY <1>5, <1>6, <1>7, <1>8 DEF Rep, Since0, Good

LEMMA EditUnread ==
  ASSUME clock \in Nat, NEW r \in Rep(clock, 0), Good(r), NEW s \in Scripts
  PROVE  EditEffect(DeleteStuck(r, s), r)
<1>1. 0 \in Nat /\ 0 <= clock
  OBVIOUS
<1>2. QED BY <1>1, StuckForm DEF EditEffect

(* An edit of side i keeps the invariant.                                  *)
LEMMA EditStep ==
  ASSUME SyncInv, NEW i \in Side, NEW q, NEW slip \in BOOLEAN, EditEffect(q, rep[i]), ~slip => EditLogged(q, rep[i]),
         Edit(i, q, slip)
  PROVE  SyncInv' /\ OwnIsRescued
<1> DEFINE c == [q EXCEPT !.user = "new", !.prev = -1]
<1>1. /\ ~brain.on /\ edits < MaxEdits /\ (slip => slips < MaxSlips)
      /\ rep' = [rep EXCEPT ![i] = c] /\ edits' = edits + 1 /\ slips' = slips + (IF slip THEN 1 ELSE 0)
      /\ clock' = clock + 1 /\ syncs' = syncs
      /\ brain' = [brain EXCEPT !.state = "edited", !.by = IF brain.state = "done" THEN {i} ELSE brain.by \cup {i}]
  BY DEF Edit, Closed, SyncInv, SyncTypes
<1>2. /\ edits \in 0 .. MaxEdits /\ syncs \in 0 .. MaxSyncs /\ slips \in 0 .. MaxSlips
      /\ clock = 1 + edits + syncs /\ clock \in Nat /\ clock' \in Nat /\ MaxEdits \in Nat /\ MaxSlips \in Nat
      /\ rep \in [Side -> Replica(clock)]
  BY <1>1, SyncAssumption DEF SyncInv, SyncTypes
<1>3. q \in Replica(clock)
  BY DEF EditEffect, Rep
<1>4. c \in Replica(clock) /\ c.prev = -1 /\ c.text = q.text /\ c.kind = q.kind /\ c.link = q.link /\ c.own = q.own
      /\ c.log = q.log /\ c.dirMtime = q.dirMtime /\ c.stuck = q.stuck /\ c.user = "new"
  <2>1. "new" \in Users /\ -1 \in -1 .. clock
    BY <1>2 DEF Users
  <2>2. ASSUME NEW x \in Replica(clock)
        PROVE  [x EXCEPT !.user = "new", !.prev = -1] \in Replica(clock)
    BY <2>1 DEF Replica
  <2>3. c \in Replica(clock)
    BY <1>3, <2>2
  <2>4. QED BY <1>3, <2>3 DEF Replica
<1> HIDE DEF c
<1>5. rep' \in [Side -> Replica(clock')] /\ rep'[i] = c /\ rep'[Other(i)] = rep[Other(i)] /\ Other(i) \in Side /\ Other(i) # i
      /\ Side = {i, Other(i)}
  <2>1. \A x \in Replica(clock) : x \in Replica(clock')
    BY <1>1, <1>2, RepMono
  <2>2. Other(i) \in Side /\ Other(i) # i /\ Side = {i, Other(i)}
    BY DEF Other, Side
  <2>3. rep' \in [Side -> Replica(clock)] /\ rep'[i] = c /\ rep'[Other(i)] = rep[Other(i)]
    BY <1>1, <1>2, <1>4, <2>2
  <2>4. QED BY <2>1, <2>2, <2>3
<1>6. brain \in [on : BOOLEAN, opened : [Side -> Replica(clock)], by : SUBSET Side, todo : SUBSET Keys,
                 state : {"edited", "busy", "done", "failed"}]
  BY DEF SyncInv, SyncTypes
<1>7. /\ brain'.opened = brain.opened /\ brain'.todo = brain.todo /\ brain'.state = "edited"
      /\ brain'.by = (IF brain.state = "done" THEN {i} ELSE brain.by \cup {i})
      /\ (brain'.on <=> brain.on)
  BY <1>1, <1>6
<1>8. brain' \in [on : BOOLEAN, opened : [Side -> Replica(clock')], by : SUBSET Side, todo : SUBSET Keys,
                  state : {"edited", "busy", "done", "failed"}]
  <2>1. \A x \in Replica(clock) : x \in Replica(clock')
    BY <1>1, <1>2, RepMono
  <2>2. brain.opened \in [Side -> Replica(clock')]
    BY <1>6, <2>1
  <2>3. (IF brain.state = "done" THEN {i} ELSE brain.by \cup {i}) \in SUBSET Side
    BY <1>6
  <2> DEFINE w == IF brain.state = "done" THEN {i} ELSE brain.by \cup {i}
             T == [on : BOOLEAN, opened : [Side -> Replica(clock')], by : SUBSET Side, todo : SUBSET Keys,
                   state : {"edited", "busy", "done", "failed"}]
  <2>4. brain \in T
    BY <1>6, <2>2
  <2>5. w \in SUBSET Side /\ brain' = [brain EXCEPT !.state = "edited", !.by = w]
    BY <1>1, <2>3
  <2> HIDE DEF w
  <2>6. QED BY <2>4, <2>5
<1>9. SyncTypes'
  <2>1. edits' \in 0 .. MaxEdits /\ syncs' \in 0 .. MaxSyncs /\ slips' \in 0 .. MaxSlips
    BY <1>1, <1>2
  <2>2. ~brain'.on /\ brain'.state = "edited"
    BY <1>1, <1>7
  <2>3. clock' = 1 + edits' + (IF brain'.on THEN syncs' - 1 ELSE syncs')
    BY <1>1, <1>2, <2>2
  <2>4. QED BY <1>5, <1>8, <2>1, <2>2, <2>3 DEF SyncTypes
<1>10. TimesOK'
  <2>1. \A j \in Side : rep[j].prev = -1 /\ rep[j].dirMtime < clock /\ rep[j].dirMtime \in 0 .. clock
    BY <1>1, <1>2 DEF SyncInv, TimesOK, Replica
  <2>2. c.prev = -1 /\ c.dirMtime < clock'
    BY <1>1, <1>2, <1>4, <2>1 DEF EditEffect
  <2>3. \A j \in Side : rep'[j].prev = -1 /\ rep'[j].dirMtime < clock'
    BY <1>1, <1>2, <1>5, <2>1, <2>2
  <2>4. QED BY <1>1, <1>7, <2>3 DEF TimesOK
<1>11. AllGood'
  <2>1. Good(c)
    BY <1>4 DEF EditEffect, Good
  <2>2. Good(rep[Other(i)])
    BY <1>5 DEF SyncInv, AllGood
  <2>3. QED BY <1>5, <2>1, <2>2 DEF AllGood
<1>12. OneSided'
  <2> SUFFICES ASSUME slips' = 0, NEW j \in Side, By' \subseteq {j}
               PROVE  ChangedBy(rep'[j], rep'[Other(j)])
    BY DEF OneSided
  <2>1. ~slip /\ slips = 0
    BY <1>1, <1>2
  <2>2. By' = (IF brain.state = "done" THEN {i} ELSE brain.by \cup {i})
    BY <1>7 DEF By
  <2>3. j = i /\ By \subseteq {i}
    BY <2>2 DEF By
  <2>4. ChangedBy(rep[i], rep[Other(i)])
    BY <1>1, <2>1, <2>3 DEF SyncInv, OneSided
  <2>5. ~rep[Other(i)].dirMtime > clock /\ rep[Other(i)].dirMtime < clock /\ rep[i].dirMtime < clock
        /\ rep[i].dirMtime \in Int /\ rep[Other(i)].dirMtime \in Int
    BY <1>1, <1>2, <1>5 DEF SyncInv, TimesOK, Replica
  <2>6. EditEffect(q, rep[i]) /\ EditLogged(q, rep[i])
    BY <2>1
  <2> DEFINE o == rep[Other(i)]
  <2>7. \A k \in Keys : ~o.log[k].new
    BY <2>4 DEF ChangedBy
  <2>8. \A s \in Scripts \ {Orig} : c.text[s] # o.text[s] => c.log[s].new
    BY <1>4, <2>4, <2>6 DEF ChangedBy, EditEffect, EditLogged, Keys
  <2>9. c.kind # "own" /\ o.kind # "own" /\ Differ(c, o) =>
          c.log[Default].new \/ (c.kind = "link" /\ o.kind = "link" /\ c.dirMtime > o.dirMtime)
    <3>0. Default \in Keys
      BY DEF Keys
    <3>1. SUFFICES ASSUME q.kind # "own", o.kind # "own", Differ(q, o), ~q.log[Default].new
                   PROVE  q.kind = "link" /\ o.kind = "link" /\ q.dirMtime > o.dirMtime
      BY <1>4 DEF Differ
    <3>2. ~rep[i].log[Default].new
      BY <3>0, <3>1, <2>6 DEF EditEffect
    <3>3. CASE ~Differ(q, rep[i])
      <4>1. Differ(rep[i], o) /\ rep[i].kind # "own" /\ rep[i].kind = q.kind
        BY <3>1, <3>3 DEF Differ
      <4>2. rep[i].kind = "link" /\ o.kind = "link" /\ rep[i].dirMtime > o.dirMtime
        BY <2>4, <3>1, <3>2, <4>1 DEF ChangedBy
      <4>3. QED BY <1>2, <2>5, <2>6, <4>1, <4>2 DEF EditEffect
    <3>4. CASE Differ(q, rep[i])
      <4>1. q.kind = "link" /\ rep[i].kind = "link" /\ q.dirMtime = clock
        BY <2>6, <3>1, <3>4 DEF EditLogged
      <4>2. o.kind = "link"
        BY <2>4, <3>1, <3>2, <4>1 DEF ChangedBy, Differ
      <4>3. QED BY <1>2, <2>5, <4>1, <4>2
    <3>5. QED BY <3>3, <3>4
  <2>10. QED BY <1>5, <2>3, <2>7, <2>8, <2>9 DEF ChangedBy
<1>13. Agreed' /\ OneSideWins' /\ EditsSurvive'
  BY <1>7 DEF Agreed, OneSideWins, EditsSurvive
<1>14. OwnIsRescued
  BY <1>4, <1>5 DEF OwnIsRescued, EditEffect
<1>15. SlipFree'
  <2> SUFFICES ASSUME slips' = 0
               PROVE  \A j \in Side : Sane(rep'[j])
    BY DEF SlipFree
  <2>1. ~slip /\ slips = 0
    BY <1>1, <1>2
  <2>2. Sane(c)
    BY <1>4, <2>1 DEF SyncInv, SlipFree, Sane, EditLogged
  <2>3. Sane(rep[Other(i)])
    BY <1>5, <2>1 DEF SyncInv, SlipFree
  <2>4. QED BY <1>5, <2>2, <2>3
<1>16. QED BY <1>9, <1>10, <1>11, <1>12, <1>13, <1>14, <1>15 DEF SyncInv

-----------------------------------------------------------------------------
(* The start and the end of a sync *)

(* Two replicas that differ at most in the storage object and the log.     *)
SameData(q, r) ==
  /\ q.text = r.text /\ q.kind = r.kind /\ q.link = r.link /\ q.own = r.own /\ q.dirMtime = r.dirMtime /\ q.stuck = r.stuck

(* The storage object is all that opening a storage changes.               *)
LEMMA UserInit ==
  ASSUME clock \in Nat, NEW r \in Replica(clock), NEW how
  PROVE  /\ mail_sieve_user_init(r, how).r \in Replica(clock)
         /\ SameData(mail_sieve_user_init(r, how).r, r)
         /\ mail_sieve_user_init(r, how).r.log = r.log
         /\ mail_sieve_user_init(r, how).r.prev = r.prev
         /\ how = "ok" /\ r.user # "failed" => mail_sieve_user_init(r, how).r.user # "failed"
<1> DEFINE o == [r EXCEPT !.user = "open"]
           f == [r EXCEPT !.user = "failed"]
           g == mail_sieve_user_init(r, how).r
<1>1. o \in Replica(clock) /\ SameData(o, r) /\ o.log = r.log /\ o.prev = r.prev /\ o.user = "open"
  <2>1. "open" \in Users
    BY DEF Users
  <2>2. o \in Replica(clock)
    BY <2>1 DEF Replica
  <2>3. QED BY <2>2 DEF Replica, SameData
<1>2. f \in Replica(clock) /\ SameData(f, r) /\ f.log = r.log /\ f.prev = r.prev
  <2>1. "failed" \in Users
    BY DEF Users
  <2>2. f \in Replica(clock)
    BY <2>1 DEF Replica
  <2>3. QED BY <2>2 DEF Replica, SameData
<1>3. (g = r \/ g = o \/ g = f) /\ (how = "ok" /\ r.user # "failed" => g = r \/ g = o)
  BY DEF mail_sieve_user_init
<1> HIDE DEF o, f, g
<1>4. SameData(r, r)
  BY DEF SameData
<1>5. /\ g \in Replica(clock) /\ SameData(g, r) /\ g.log = r.log /\ g.prev = r.prev
      /\ how = "ok" /\ r.user # "failed" => g.user # "failed"
  BY <1>1, <1>2, <1>3, <1>4
<1>6. QED BY <1>5 DEF g

LEMMA SyncStartStep ==
  ASSUME SyncInv, NEW how \in {"ok", "off", "error"}, SyncStart(how)
  PROVE  SyncInv' /\ OwnIsRescued
<1> DEFINE u == [i \in Side |-> mail_sieve_user_init(rep[i], IF i = 1 THEN "ok" ELSE how)]
           todo == UNION {sieve_attribute_iter(u[i].r) \cup {k \in Keys : u[i].r.log[k].new} : i \in Side}
           state == IF \E i \in Side : u[i].ret < 0 THEN "failed" ELSE "busy"
<1>1. /\ ~brain.on /\ syncs < MaxSyncs /\ (how # "ok" => slips < MaxSlips)
      /\ rep' = [i \in Side |-> u[i].r]
      /\ brain' = [on |-> TRUE, opened |-> rep, by |-> By, todo |-> todo, state |-> state]
      /\ syncs' = syncs + 1 /\ slips' = slips + (IF how = "ok" THEN 0 ELSE 1) /\ clock' = clock /\ edits' = edits
  BY DEF SyncStart, By
<1>2. /\ edits \in 0 .. MaxEdits /\ syncs \in 0 .. MaxSyncs /\ slips \in 0 .. MaxSlips
      /\ clock = 1 + edits + syncs /\ clock \in Nat /\ MaxSyncs \in Nat /\ MaxSlips \in Nat
      /\ rep \in [Side -> Replica(clock)] /\ By \in SUBSET Side
  BY <1>1, SyncAssumption DEF SyncInv, SyncTypes, By
<1>3. \A i \in Side : /\ u[i].r \in Replica(clock) /\ SameData(u[i].r, rep[i])
                      /\ u[i].r.log = rep[i].log /\ u[i].r.prev = rep[i].prev
                      /\ how = "ok" /\ rep[i].user # "failed" => u[i].r.user # "failed"
  BY <1>2, UserInit
<1>4. \A i \in Side : /\ rep'[i] \in Replica(clock) /\ SameData(rep'[i], rep[i])
                      /\ rep'[i].log = rep[i].log /\ rep'[i].prev = rep[i].prev /\ rep'[i] = u[i].r
  BY <1>1, <1>3
<1>5. rep' \in [Side -> Replica(clock)]
  BY <1>1, <1>3
<1>6. \A i \in Side : rep[i].prev = -1 /\ rep[i].dirMtime < clock /\ rep[i].dirMtime \in 0 .. clock
  BY <1>1, <1>2 DEF SyncInv, TimesOK, Replica
<1>7. todo \in SUBSET Keys /\ \A i \in Side : u[i].r.user # "failed" =>
                                 /\ \A s \in Scripts : rep[i].text[s] # 0 => s \in todo
                                 /\ rep[i].kind # "none" => Default \in todo
  <2>1. \A i \in Side : sieve_attribute_iter(u[i].r) \in SUBSET Keys
    BY DEF sieve_attribute_iter, Keys
  <2>2. \A i \in Side : u[i].r.user # "failed" =>
          /\ \A s \in Scripts : rep[i].text[s] # 0 => s \in sieve_attribute_iter(u[i].r)
          /\ rep[i].kind # "none" => Default \in sieve_attribute_iter(u[i].r)
    BY <1>3 DEF sieve_attribute_iter, SameData
  <2> DEFINE w(i) == sieve_attribute_iter(u[i].r) \cup {k \in Keys : u[i].r.log[k].new}
  <2>3. todo = UNION {w(i) : i \in Side}
    OBVIOUS
  <2>4. \A i \in Side : w(i) \in SUBSET Keys /\ sieve_attribute_iter(u[i].r) \subseteq w(i)
    BY <2>1
  <2> HIDE DEF w
  <2>5. \A i \in Side : w(i) \subseteq todo
    BY <2>3
  <2>6. todo \in SUBSET Keys
    BY <2>3, <2>4
  <2> HIDE DEF todo, u
  <2>7. QED BY <2>2, <2>4, <2>5, <2>6
<1>8. state \in {"busy", "failed"}
  OBVIOUS
<1>8a. SlipFree' /\ (slips' = 0 => \A i \in Side : u[i].r.user # "failed")
  <2> HIDE DEF u
  <2> SUFFICES ASSUME slips' = 0, NEW i \in Side
               PROVE  Sane(rep'[i]) /\ u[i].r.user # "failed"
    BY DEF SlipFree
  <2>1. slips = 0 /\ how = "ok"
    BY <1>1, <1>2
  <2>2. Sane(rep[i])
    BY <2>1 DEF SyncInv, SlipFree
  <2>3. QED BY <1>3, <1>4, <2>1, <2>2 DEF Sane, SameData
<1> HIDE DEF todo, state, u
<1>9. /\ brain'.on /\ brain'.opened = rep /\ brain'.by = By /\ brain'.todo = todo /\ brain'.state = state
      /\ brain' \in [on : BOOLEAN, opened : [Side -> Replica(clock)], by : SUBSET Side, todo : SUBSET Keys,
                     state : {"edited", "busy", "done", "failed"}]
  BY <1>1, <1>2, <1>7, <1>8
<1>10. SyncTypes'
  <2>1. edits' \in 0 .. MaxEdits /\ syncs' \in 0 .. MaxSyncs /\ slips' \in 0 .. MaxSlips
    BY <1>1, <1>2
  <2>2. clock' = 1 + edits' + (IF brain'.on THEN syncs' - 1 ELSE syncs') /\ syncs' >= 1
    BY <1>1, <1>2, <1>9
  <2>3. QED BY <1>1, <1>5, <1>8, <1>9, <2>1, <2>2 DEF SyncTypes
<1>11. TimesOK'
  <2>1. \A i \in Side : Since0(rep'[i], rep[i].dirMtime)
    BY <1>2, <1>4, <1>6 DEF Since0, SameData
  <2>2. QED BY <1>9, <2>1 DEF TimesOK
<1>12. AllGood'
  BY <1>4 DEF SyncInv, AllGood, Good, SameData
<1>13. Agreed'
  <2> SUFFICES ASSUME slips' = 0, NEW k \in Keys \ {Orig}, k \notin todo
               PROVE  AgreeOn(k, rep'[1], rep'[2])
    BY <1>8, <1>9 DEF Agreed
  <2>1. 1 \in Side /\ 2 \in Side
    BY DEF Side
  <2>2. CASE k = Default
    <3>1. rep[1].kind = "none" /\ rep[2].kind = "none"
      BY <1>7, <1>8a, <2>1, <2>2
    <3>2. rep[1].link = Default /\ rep[2].link = Default
      BY <2>1, <3>1 DEF SyncInv, AllGood, Good
    <3>3. QED BY <1>4, <2>1, <2>2, <3>1, <3>2 DEF AgreeOn, SameData
  <2>3. CASE k # Default
    <3>1. k \in Scripts
      BY <2>3 DEF Keys
    <3>2. rep[1].text[k] = 0 /\ rep[2].text[k] = 0
      BY <1>7, <1>8a, <2>1, <3>1
    <3>3. QED BY <1>4, <2>1, <2>3, <3>2 DEF AgreeOn, SameData
  <2>4. QED BY <2>2, <2>3
<1>14. OneSideWins'
  <2> SUFFICES ASSUME slips' = 0, NEW i \in Side, By \subseteq {i}
               PROVE  Winning(rep[i], rep[Other(i)], rep'[i], rep'[Other(i)], todo)
    BY <1>9 DEF OneSideWins
  <2>1. slips = 0 /\ Other(i) \in Side
    BY <1>1, <1>2 DEF Other, Side
  <2>2. ChangedBy(rep[i], rep[Other(i)])
    BY <1>1, <2>1 DEF SyncInv, OneSided
  <2>3. \A j \in Side : sieve_file_storage_get_last_change(rep'[j]) = rep[j].dirMtime
    BY <1>4, <1>6 DEF sieve_file_storage_get_last_change, SameData
  <2>4. QED BY <1>4, <2>1, <2>2, <2>3 DEF Winning, SameData, Differ
<1>15. OneSided' /\ EditsSurvive'
  BY <1>8, <1>9 DEF OneSided, EditsSurvive
<1>16. OwnIsRescued
  BY <1>4 DEF OwnIsRescued, SameData
<1>17. QED BY <1>8a, <1>10, <1>11, <1>12, <1>13, <1>14, <1>15, <1>16 DEF SyncInv

(* The replicas after a sync: the storage object is gone, and, if the sync *)
(* did not fail, nothing in the log is new.                                *)
LEMMA EndForm ==
  ASSUME clock \in Nat, NEW r \in Replica(clock)
  PROVE  /\ Closed(r) \in Replica(clock) /\ SameData(Closed(r), r) /\ Closed(r).prev = -1 /\ Closed(r).log = r.log
         /\ Closed(r).user = "new"
         /\ LET q == [Closed(r) EXCEPT !.log = [k \in Keys |-> [@[k] EXCEPT !.new = FALSE]]]
            IN  q \in Replica(clock) /\ SameData(q, r) /\ q.prev = -1 /\ q.user = "new" /\ \A k \in Keys : ~q.log[k].new
<1> DEFINE c == [r EXCEPT !.user = "new", !.prev = -1]
           l == [k \in Keys |-> [r.log[k] EXCEPT !.new = FALSE]]
           q == [c EXCEPT !.log = l]
<1>1. c \in Replica(clock) /\ SameData(c, r) /\ c.prev = -1 /\ c.log = r.log /\ c.user = "new"
  <2>1. "new" \in Users /\ -1 \in -1 .. clock
    BY DEF Users
  <2>2. ASSUME NEW x \in Replica(clock)
        PROVE  [x EXCEPT !.user = "new", !.prev = -1] \in Replica(clock)
    BY <2>1 DEF Replica
  <2>3. c \in Replica(clock)
    BY <2>2
  <2>4. QED BY <2>3 DEF Replica, SameData
<1>2. l \in [Keys -> Entry(clock)] /\ \A k \in Keys : ~l[k].new
  <2>1. r.log \in [Keys -> Entry(clock)]
    BY DEF Replica
  <2>2. \A e \in Entry(clock) : [e EXCEPT !.new = FALSE] \in Entry(clock) /\ ~[e EXCEPT !.new = FALSE].new
    BY DEF Entry
  <2>3. QED BY <2>1, <2>2
<1>3. Closed(r) = c
  BY DEF Closed
<1>4. [Closed(r) EXCEPT !.log = [k \in Keys |-> [@[k] EXCEPT !.new = FALSE]]] = q
  BY <1>1, <1>3
<1> HIDE DEF c, l
<1>5. q \in Replica(clock)
  BY <1>1, <1>2 DEF Replica
<1>6. q.log = l /\ q.prev = c.prev /\ q.user = c.user /\ SameData(q, c)
  BY <1>1 DEF Replica, SameData
<1> HIDE DEF q
<1>7. QED BY <1>1, <1>2, <1>3, <1>4, <1>5, <1>6 DEF SameData

LEMMA SyncEndStep ==
  ASSUME SyncInv, SyncEnd
  PROVE  SyncInv' /\ OwnIsRescued
<1> DEFINE state == IF brain.state = "failed" THEN "failed" ELSE "done"
           by == IF brain.state = "failed" THEN Side ELSE brain.by
           f(i) == IF brain.state = "failed" THEN Closed(rep[i])
                   ELSE [Closed(rep[i]) EXCEPT !.log = [k \in Keys |-> [@[k] EXCEPT !.new = FALSE]]]
<1>1. /\ brain.on /\ (brain.todo = {} \/ brain.state = "failed")
      /\ rep' = [i \in Side |-> f(i)]
      /\ brain' = [brain EXCEPT !.on = FALSE, !.todo = {}, !.state = state, !.by = by]
      /\ clock' = clock + 1 /\ edits' = edits /\ syncs' = syncs /\ slips' = slips
  BY DEF SyncEnd, SyncInv, SyncTypes
<1>2. /\ edits \in 0 .. MaxEdits /\ syncs \in 0 .. MaxSyncs /\ slips \in 0 .. MaxSlips /\ syncs >= 1
      /\ clock = edits + syncs /\ clock \in Nat /\ clock' \in Nat
      /\ rep \in [Side -> Replica(clock)]
      /\ brain \in [on : BOOLEAN, opened : [Side -> Replica(clock)], by : SUBSET Side, todo : SUBSET Keys,
                    state : {"edited", "busy", "done", "failed"}]
      /\ brain.state \in {"busy", "failed"}
  BY <1>1, SyncAssumption DEF SyncInv, SyncTypes
<1>3. /\ \A i \in Side : f(i) \in Replica(clock) /\ SameData(f(i), rep[i]) /\ f(i).prev = -1 /\ f(i).user = "new"
      /\ brain.state # "failed" => \A i \in Side, k \in Keys : ~f(i).log[k].new
  BY <1>2, EndForm
<1> HIDE DEF f
<1>4. /\ \A i \in Side : rep'[i] \in Replica(clock) /\ SameData(rep'[i], rep[i]) /\ rep'[i].prev = -1 /\ rep'[i].user = "new"
      /\ brain.state # "failed" => \A i \in Side, k \in Keys : ~rep'[i].log[k].new
  BY <1>1, <1>3
<1>5. \A x \in Replica(clock) : x \in Replica(clock')
  BY <1>1, <1>2, RepMono
<1>6. rep' \in [Side -> Replica(clock')]
  BY <1>1, <1>3, <1>5
<1>7. state \in {"done", "failed"} /\ by \in SUBSET Side
      /\ (state = "done" <=> brain.state = "busy") /\ (state = "done" => by = brain.by) /\ (state # "done" => by = Side)
  BY <1>2
<1> HIDE DEF state, by
<1>8. ~brain'.on /\ brain'.opened = brain.opened /\ brain'.by = by /\ brain'.todo = {} /\ brain'.state = state
  BY <1>1, <1>2
<1>9. brain' \in [on : BOOLEAN, opened : [Side -> Replica(clock')], by : SUBSET Side, todo : SUBSET Keys,
                  state : {"edited", "busy", "done", "failed"}]
  <2> DEFINE T == [on : BOOLEAN, opened : [Side -> Replica(clock')], by : SUBSET Side, todo : SUBSET Keys,
                   state : {"edited", "busy", "done", "failed"}]
  <2>1. brain.opened \in [Side -> Replica(clock')]
    BY <1>2, <1>5
  <2>2. brain \in T
    BY <1>2, <2>1
  <2>3. QED BY <1>1, <1>7, <2>2
<1>10. SyncTypes'
  <2>1. clock' = 1 + edits' + (IF brain'.on THEN syncs' - 1 ELSE syncs')
    BY <1>1, <1>2, <1>8
  <2>2. QED BY <1>1, <1>2, <1>6, <1>7, <1>8, <1>9, <2>1 DEF SyncTypes
<1>11. TimesOK'
  <2>1. \A i \in Side : rep'[i].dirMtime \in 0 .. clock
    BY <1>4 DEF Replica
  <2>2. QED BY <1>1, <1>2, <1>4, <1>8, <2>1 DEF TimesOK
<1>12. AllGood'
  BY <1>4 DEF SyncInv, AllGood, Good, SameData
<1>13. 1 \in Side /\ 2 \in Side /\ \A i \in Side : Other(i) \in Side
  BY DEF Side, Other
<1>14. Agreed'
  <2> SUFFICES ASSUME slips = 0, state = "done", NEW k \in Keys \ {Orig}
               PROVE  AgreeOn(k, rep'[1], rep'[2])
    BY <1>1, <1>7, <1>8 DEF Agreed
  <2>1. AgreeOn(k, rep[1], rep[2])
    BY <1>1, <1>7 DEF SyncInv, Agreed
  <2>2. QED BY <1>4, <1>13, <2>1 DEF AgreeOn, SameData
<1>15. OneSided'
  <2> SUFFICES ASSUME slips = 0, NEW i \in Side, By' \subseteq {i}
               PROVE  ChangedBy(rep'[i], rep'[Other(i)])
    BY <1>1 DEF OneSided
  <2>1. state = "done"
    <3>1. CASE state # "done"
      BY <1>7, <1>8, <3>1 DEF By, Side
    <3>2. QED BY <3>1
  <2>2. \A k \in Keys \ {Orig} : AgreeOn(k, rep'[1], rep'[2])
    BY <1>1, <1>8, <2>1, <1>14 DEF Agreed
  <2>3. (i = 1 /\ Other(i) = 2) \/ (i = 2 /\ Other(i) = 1)
    BY DEF Side, Other
  <2>4. \A k \in Keys : ~rep'[Other(i)].log[k].new
    BY <1>4, <1>7, <1>13, <2>1
  <2>5. \A s \in Scripts \ {Orig} : rep'[i].text[s] = rep'[Other(i)].text[s]
    BY <2>2, <2>3, SyncAssumption DEF AgreeOn, Keys
  <2>6. rep'[i].kind # "own" /\ rep'[Other(i)].kind # "own" => ~Differ(rep'[i], rep'[Other(i)])
    <3>1. AgreeOn(Default, rep'[1], rep'[2])
      BY <2>2, SyncAssumption DEF Keys
    <3>2. QED BY <2>3, <3>1 DEF AgreeOn, Differ
  <2>7. QED BY <2>4, <2>5, <2>6 DEF ChangedBy
<1>16. OneSideWins'
  BY <1>7, <1>8 DEF OneSideWins
<1>17. EditsSurvive'
  <2> SUFFICES ASSUME slips = 0, state = "done", NEW i \in Side, brain.by \subseteq {i}
               PROVE  /\ \A s \in Scripts \ {Orig} : rep'[i].text[s] = brain.opened[i].text[s]
                      /\ (\A j \in Side : brain.opened[j].kind # "own") =>
                            rep'[i].kind = brain.opened[i].kind /\ rep'[i].link = brain.opened[i].link
    BY <1>1, <1>7, <1>8 DEF EditsSurvive
  <2>1. Winning(brain.opened[i], brain.opened[Other(i)], rep[i], rep[Other(i)], brain.todo)
    BY <1>7 DEF SyncInv, OneSideWins
  <2>2. QED BY <1>4, <1>13, <2>1 DEF Winning, SameData, Differ
<1>18. OwnIsRescued
  BY <1>4 DEF OwnIsRescued, SameData
<1>19. SlipFree'
  BY <1>1, <1>4 DEF SyncInv, SlipFree, Sane, SameData
<1>20. QED BY <1>10, <1>11, <1>12, <1>14, <1>15, <1>16, <1>17, <1>18, <1>19 DEF SyncInv

-----------------------------------------------------------------------------
(* A key is compared and set *)

(* What a side shows of itself: nothing, when its storage cannot be had.   *)
Seen(f) == IF f.user = "failed" THEN NewReplica ELSE f

(* The value of k that f shows, set on r.                                  *)
SetTo(r, k, f, ts) ==
  SetLogged(sieve_attribute_set_sieve(r, k, sieve_attribute_get_sieve(f, k), ts), k, sieve_attribute_get_sieve(f, k), ts)

(* A script of r has become c; an active script that is gone is inactive.  *)
ScriptEffect(q, r, k, c, b) ==
  /\ q \in Rep(clock, b) /\ Good(q) /\ q.text = [r.text EXCEPT ![k] = c]
  /\ (q.stuck => r.stuck) /\ q.user = r.user
  /\ IF r.kind = "link" /\ r.link = k /\ c = 0 /\ r.text[k] # 0 THEN q.kind = "none"
     ELSE /\ q.kind = r.kind /\ q.link = r.link
          /\ sieve_file_storage_get_last_change(q) = sieve_file_storage_get_last_change(r)

LEMMA SetScript ==
  ASSUME clock \in Nat, NEW b \in Nat, b <= clock, NEW r \in Rep(clock, b), Good(r), NEW k \in Scripts,
         NEW f \in Replica(clock), NEW ts \in 0 .. clock
  PROVE  /\ SetTo(r, k, f, ts).ret = 0
         /\ ScriptEffect(SetTo(r, k, f, ts).r, r, k, f.text[k], b)
<1> DEFINE v == sieve_attribute_get_sieve(f, k)
           g == sieve_attribute_set_sieve(r, k, v, ts)
           w == SetTo(r, k, f, ts)
<1>1. k # Default /\ k \in Keys /\ f.text[k] \in 0 .. MaxText /\ r.text \in [Scripts -> 0 .. MaxText] /\ FALSE \in BOOLEAN
      /\ clock \in 0 .. clock
  BY SyncAssumption DEF Keys, Replica, Rep
<1>2. v = IF f.text[k] # 0 THEN Value(1, "S", f.text[k], f.mtime[k]) ELSE Value(0, "-", 0, 0)
  BY <1>1 DEF sieve_attribute_get_sieve
<1> HIDE DEF v
<1>3. /\ g.ret = 0 /\ ScriptEffect(g.r, r, k, f.text[k], b)
      /\ v.ret = 0 \/ v.ret = 1
  <2>1. CASE f.text[k] = 0
    <3>1. v.ret = 0
      BY <1>2, <2>1 DEF Value
    <3>2. g = [r |-> sieve_attribute_unset_script(r, k), ret |-> 0]
      BY <1>1, <3>1 DEF sieve_attribute_set_sieve
    <3>3. g.ret = 0 /\ g.r = IF r.text[k] = 0 THEN r ELSE StorageDelete(r, k, FALSE)
      BY <3>2 DEF sieve_attribute_unset_script
    <3> HIDE DEF g
    <3>4. CASE r.text[k] = 0
      <4>1. r.text = [r.text EXCEPT ![k] = 0]
        BY <1>1, <3>4
      <4>2. QED BY <2>1, <3>1, <3>3, <3>4, <4>1 DEF ScriptEffect
    <3>5. CASE r.text[k] # 0
      <4> DEFINE q == StorageDelete(r, k, FALSE)
      <4>1. /\ q \in Rep(clock, b) /\ q.text = [r.text EXCEPT ![k] = 0] /\ (q.stuck => r.stuck) /\ q.user = r.user
            /\ IF r.kind = "link" /\ r.link = k THEN q.kind = "none" /\ q.link = Default /\ q.own = 0
               ELSE /\ q.kind = r.kind /\ q.link = r.link /\ q.own = r.own /\ q.stuck = r.stuck
                    /\ sieve_file_storage_get_last_change(q) = sieve_file_storage_get_last_change(r)
        <5>1. \A slip \in BOOLEAN :
                 LET y == StorageDelete(r, k, slip)
                 IN  /\ y \in Rep(clock, b) /\ y.text = [r.text EXCEPT ![k] = 0] /\ (y.stuck => r.stuck) /\ y.user = r.user
                     /\ IF r.kind = "link" /\ r.link = k THEN y.kind = "none" /\ y.link = Default /\ y.own = 0
                        ELSE /\ y.kind = r.kind /\ y.link = r.link /\ y.own = r.own /\ y.stuck = r.stuck
                             /\ sieve_file_storage_get_last_change(y) = sieve_file_storage_get_last_change(r)
          BY DeleteForm
        <5>2. QED BY <1>1, <5>1
      <4>2. g.r = q
        BY <3>3, <3>5
      <4> HIDE DEF q
      <4>3. Good(q)
        BY <1>1, <4>1 DEF Good
      <4>4. QED BY <2>1, <3>1, <3>3, <3>5, <4>1, <4>2, <4>3 DEF ScriptEffect
    <3>6. QED BY <3>4, <3>5
  <2>2. CASE f.text[k] # 0
    <3>1. v.ret = 1 /\ v.val = f.text[k]
      BY <1>2, <2>2 DEF Value
    <3> DEFINE e == Stored(r, k, f.text[k], ts)
               q == Logged(e, k, clock, TRUE)
    <3>2. g = [r |-> sieve_storage_sync_script_save(Stored(r, k, v.val, ts), k, FALSE), ret |-> 0]
      BY <1>1, <3>1 DEF sieve_attribute_set_sieve
    <3>3. g.ret = 0 /\ g.r = q
      BY <3>1, <3>2 DEF sieve_storage_sync_script_save
    <3> HIDE DEF g
    <3>4. /\ e \in Rep(clock, b) /\ e.text = [r.text EXCEPT ![k] = f.text[k]] /\ e.kind = r.kind /\ e.link = r.link /\ e.own = r.own
          /\ e.stuck = r.stuck /\ e.user = r.user
          /\ sieve_file_storage_get_last_change(e) = sieve_file_storage_get_last_change(r)
      BY <1>1, StoredForm
    <3> HIDE DEF e
    <3>5. \A set \in BOOLEAN : LogEffect(Logged(e, k, clock, set), e, k, b)
      BY <1>1, <3>4, LoggedForm
    <3>6. LogEffect(q, e, k, b)
      BY <3>5
    <3> HIDE DEF q
    <3>7. Good(q)
      BY <1>1, <2>2, <3>4, <3>6 DEF Good, LogEffect, SameScripts
    <3>8. QED BY <2>2, <3>1, <3>3, <3>4, <3>6, <3>7 DEF ScriptEffect, LogEffect, SameScripts
  <2>3. QED BY <2>1, <2>2
<1> HIDE DEF g
<1>4. w = [r |-> Logged(g.r, k, ts, v.ret # 0), ret |-> 0]
  BY <1>3 DEF SetTo, SetLogged, g, v
<1>5. w.ret = 0 /\ w.r = Logged(g.r, k, ts, v.ret # 0)
  BY <1>4
<1> HIDE DEF w
<1>6. \A set \in BOOLEAN : LogEffect(Logged(g.r, k, ts, set), g.r, k, b)
  BY <1>1, <1>3, LoggedForm DEF ScriptEffect
<1>7. LogEffect(w.r, g.r, k, b)
  BY <1>5, <1>6
<1>8. ScriptEffect(w.r, r, k, f.text[k], b)
  BY <1>3, <1>7 DEF ScriptEffect, LogEffect, SameScripts, Good
<1>9. QED BY <1>5, <1>8 DEF w, v

(* The active script of r was set to the one of f.                         *)
ActiveResult(q, r, b) ==
  /\ q \in Rep(clock, b) /\ Good(q)
  /\ \A s \in Scripts \ {Orig} : q.text[s] = r.text[s]
  /\ r.kind = "own" /\ q.kind # "own" => q.text[Orig] = r.own
  /\ (q.stuck => r.stuck) /\ q.user = r.user

LEMMA RescuedTexts ==
  ASSUME clock \in Nat, NEW b \in Nat, NEW r \in Rep(clock, b), Good(r)
  PROVE  /\ Rescued(r) \in [Scripts -> 0 .. MaxText]
         /\ \A s \in Scripts : r.text[s] # 0 => Rescued(r)[s] # 0
         /\ \A s \in Scripts \ {Orig} : Rescued(r)[s] = r.text[s]
         /\ r.kind = "own" => Rescued(r)[Orig] = r.own
<1>1. r.text \in [Scripts -> 0 .. MaxText] /\ r.own \in 0 .. MaxText
  BY DEF Rep, Replica
<1>2. QED BY <1>1, SyncAssumption DEF Rescued, Good

LEMMA SetDefault ==
  ASSUME clock \in Nat, NEW b \in Nat, b <= clock, NEW r \in Rep(clock, b), Good(r),
         NEW f \in Replica(clock), Good(f), NEW ts \in 0 .. clock
  PROVE  /\ ActiveResult(SetTo(r, Default, f, ts).r, r, b)
         /\ SetTo(r, Default, f, ts).ret \in {-1, 0}
         /\ SetTo(r, Default, f, ts).ret = 0 =>
              AgreeOn(Default, SetTo(r, Default, f, ts).r, f)
<1> DEFINE v == sieve_attribute_get_sieve(f, Default)
           g == sieve_attribute_set_sieve(r, Default, v, ts)
           w == SetTo(r, Default, f, ts)
<1>1. Default \in Keys /\ FALSE \in BOOLEAN /\ ts \in -1 .. clock /\ f.kind \in Kinds /\ f.own \in 0 .. MaxText
      /\ r.text \in [Scripts -> 0 .. MaxText]
  BY DEF Keys, Replica, Rep
<1>2. g = sieve_attribute_set_default(r, v, ts)
  BY DEF sieve_attribute_set_sieve
<1>3. v = sieve_attribute_get_default(f)
  BY DEF sieve_attribute_get_sieve
<1> HIDE DEF v
<1>4. /\ ActiveResult(g.r, r, b) /\ g.ret \in {-1, 0}
      /\ g.ret = 0 => AgreeOn(Default, g.r, f)
  <2>1. CASE f.kind = "link"
    <3> DEFINE s == f.link
    <3>1. v.type = "L" /\ v.val = s /\ v.ret = 1 /\ s \in Scripts
      BY <1>3, <2>1 DEF sieve_attribute_get_default, Value, Good
    <3>2. g = sieve_attribute_set_active(r, s, ts)
      BY <1>2, <3>1 DEF sieve_attribute_set_default
    <3> DEFINE a == IF r.text[s] # 0 THEN StorageActivate(r, s, ts, FALSE) ELSE r
    <3>3. g.r = sieve_file_storage_set_modified(a, ts) /\ g.ret = IF r.text[s] # 0 THEN 0 ELSE -1
      BY <3>2 DEF sieve_attribute_set_active
    <3> HIDE DEF g
    <3>4. CASE r.text[s] # 0
      <4>1. /\ a \in Rep(clock, b) /\ a.text = Rescued(r) /\ a.kind = "link" /\ a.link = s /\ ~a.stuck /\ a.user = r.user
        <5>1. \A slip \in BOOLEAN : LET y == StorageActivate(r, s, ts, slip)
                                    IN  /\ y \in Rep(clock, b) /\ y.text = Rescued(r) /\ y.kind = "link" /\ y.link = s
                                        /\ ~y.stuck /\ y.user = r.user
          BY <1>1, <3>1, ActivateForm
        <5>2. QED BY <1>1, <3>4, <5>1
      <4> HIDE DEF a
      <4>2. g.r \in Rep(clock, b) /\ SameScripts(g.r, a)
        BY <1>1, <3>3, <4>1, SetModified
      <4>3. g.r.text = Rescued(r) /\ g.r.kind = "link" /\ g.r.link = s /\ ~g.r.stuck /\ g.r.user = r.user
        BY <4>1, <4>2 DEF SameScripts
      <4>4. Good(g.r)
        BY <3>1, <3>4, <4>3, RescuedTexts DEF Good
      <4>5. ActiveResult(g.r, r, b)
        BY <4>2, <4>3, <4>4, RescuedTexts DEF ActiveResult
      <4>6. QED BY <2>1, <3>3, <3>4, <4>3, <4>5 DEF AgreeOn
    <3>5. CASE r.text[s] = 0
      <4>1. g.r = sieve_file_storage_set_modified(r, ts) /\ g.ret = -1
        BY <3>3, <3>5
      <4>2. g.r \in Rep(clock, b) /\ SameScripts(g.r, r)
        BY <1>1, <4>1, SetModified
      <4>3. ActiveResult(g.r, r, b)
        BY <4>2 DEF ActiveResult, SameScripts, Good
      <4>4. QED BY <4>1, <4>3
    <3>6. QED BY <3>4, <3>5
  <2>2. CASE f.kind = "own"
    <3>1. v.type = "S" /\ v.val = f.own /\ v.ret = 1 /\ f.own # 0 /\ f.link = Default
      BY <1>3, <2>2 DEF sieve_attribute_get_default, sieve_attribute_get_active_script, sieve_storage_is_singular, Value, Good
    <3> DEFINE a == [r EXCEPT !.kind = "own", !.own = f.own, !.ownMtime = ts, !.link = Default, !.stuck = FALSE]
    <3>2. g = [r |-> sieve_file_storage_set_modified(a, ts), ret |-> 0]
      BY <1>2, <3>1 DEF sieve_attribute_set_default, sieve_attribute_set_active_script
    <3>3. g.r = sieve_file_storage_set_modified(a, ts) /\ g.ret = 0
      BY <3>2
    <3> HIDE DEF g
    <3>4. r \in Replica(clock) /\ Since0(r, b)
      BY DEF Rep
    <3>5. a \in Replica(clock)
      <4>1. "own" \in Kinds
        BY DEF Kinds
      <4>2. ASSUME NEW x \in Replica(clock)
            PROVE  [x EXCEPT !.kind = "own", !.own = f.own, !.ownMtime = ts, !.link = Default, !.stuck = FALSE] \in Replica(clock)
        BY <1>1, <4>1 DEF Replica
      <4>3. QED BY <3>4, <4>2
    <3>6. /\ a.text = r.text /\ a.kind = "own" /\ a.link = Default /\ a.own = f.own /\ a.dirMtime = r.dirMtime /\ a.prev = r.prev
          /\ ~a.stuck /\ a.user = r.user
      BY <3>4 DEF Replica
    <3> HIDE DEF a
    <3>7. a \in Rep(clock, b)
      BY <3>4, <3>5, <3>6 DEF Rep, Since0
    <3>8. g.r \in Rep(clock, b) /\ SameScripts(g.r, a)
      BY <1>1, <3>3, <3>7, SetModified
    <3>9. ActiveResult(g.r, r, b)
      BY <3>1, <3>6, <3>8 DEF ActiveResult, SameScripts, Good
    <3>10. QED BY <2>2, <3>1, <3>3, <3>6, <3>8, <3>9 DEF AgreeOn, SameScripts
  <2>3. CASE f.kind = "none"
    <3>1. v.type = "-" /\ v.ret = 0 /\ f.link = Default
      BY <1>3, <2>3 DEF sieve_attribute_get_default, sieve_attribute_get_active_script, sieve_storage_is_singular, Value, Good
    <3>2. g = [r |-> sieve_attribute_unset_active_script(r, ts), ret |-> 0]
      BY <1>2, <3>1 DEF sieve_attribute_set_default, sieve_attribute_set_active_script
    <3>3. g.ret = 0 /\ g.r = IF r.kind = "own" THEN r ELSE StorageDeactivate(r, ts, FALSE)
      BY <3>2 DEF sieve_attribute_unset_active_script, sieve_storage_is_singular
    <3> HIDE DEF g
    <3>4. CASE r.kind = "own"
      BY <2>3, <3>3, <3>4 DEF ActiveResult, AgreeOn
    <3>5. CASE r.kind # "own"
      <4>1. \A slip \in BOOLEAN : LET y == StorageDeactivate(r, ts, slip)
                                  IN  /\ y \in Rep(clock, b) /\ y.text = Rescued(r) /\ y.kind = "none" /\ y.link = Default
                                      /\ ~y.stuck /\ y.user = r.user
        BY <1>1, DeactivateForm
      <4>2. /\ g.r \in Rep(clock, b) /\ g.r.text = Rescued(r) /\ g.r.kind = "none" /\ g.r.link = Default
            /\ ~g.r.stuck /\ g.r.user = r.user
        BY <1>1, <3>3, <3>5, <4>1
      <4>3. ActiveResult(g.r, r, b)
        BY <3>5, <4>2, RescuedTexts DEF ActiveResult, Good
      <4>4. QED BY <2>3, <3>1, <3>3, <4>2, <4>3 DEF AgreeOn
    <3>6. QED BY <3>4, <3>5
  <2>4. QED BY <1>1, <2>1, <2>2, <2>3 DEF Kinds
<1> HIDE DEF g
<1>5. w = IF g.ret < 0 THEN g ELSE [r |-> Logged(g.r, Default, ts, v.ret # 0), ret |-> 0]
  BY DEF SetTo, SetLogged, g, v
<1> HIDE DEF w
<1>6. CASE g.ret = -1
  <2>1. w = g
    BY <1>5, <1>6
  <2>2. QED BY <1>4, <1>6, <2>1 DEF w, v
<1>7. CASE g.ret = 0
  <2>1. w.ret = 0 /\ w.r = Logged(g.r, Default, ts, v.ret # 0)
    BY <1>5, <1>7
  <2>2. \A set \in BOOLEAN : LogEffect(Logged(g.r, Default, ts, set), g.r, Default, b)
    BY <1>1, <1>4, LoggedForm DEF ActiveResult
  <2>3. LogEffect(w.r, g.r, Default, b)
    BY <2>1, <2>2
  <2>4. ActiveResult(w.r, r, b) /\ AgreeOn(Default, w.r, f)
    BY <1>4, <1>7, <2>3 DEF ActiveResult, LogEffect, SameScripts, Good, AgreeOn
  <2>5. QED BY <2>1, <2>4 DEF w, v
<1>8. QED BY <1>4, <1>6, <1>7

(* Which side a key is taken from: a side in Side; side i when only its    *)
(* log has the key, when only i has a value and the log of the other one   *)
(* says nothing, or when both have one and the one of i is newer.          *)
LEMMA NewerSide ==
  ASSUME NEW k, NEW v, NEW i \in Side,
         \A j \in Side : brain.opened[j].log[k].new \in BOOLEAN
  PROVE  /\ Newer(k, v) \in Side
         /\ LoggedNew(i, k) /\ ~LoggedNew(Other(i), k) => Newer(k, v) = i
         /\ v[i].ret # 0 /\ v[Other(i)].ret = 0 /\ ~LoggedNew(Other(i), k) => Newer(k, v) = i
         /\ /\ v[i].ret = 1 /\ v[Other(i)].ret = 1 /\ ~LoggedNew(Other(i), k)
            /\ v[i].last \in Int /\ v[Other(i)].last \in Int /\ v[i].last > v[Other(i)].last
            => Newer(k, v) = i
<1> DEFINE N1 == brain.opened[1].log[k].new
           N2 == brain.opened[2].log[k].new
           K1 == v[1].ret # 0 \/ N1
           K2 == v[2].ret # 0 \/ N2
           S1 == Since(rep[1], k, v[1])
           S2 == Since(rep[2], k, v[2])
<1>1. N1 \in BOOLEAN /\ N2 \in BOOLEAN
  BY DEF Side
<1>2. Newer(k, v) = IF ~(K1 <=> K2) THEN IF K1 THEN 1 ELSE 2
                    ELSE IF ~(N1 <=> N2) THEN IF N1 THEN 1 ELSE 2
                    ELSE IF S1 >= S2 THEN 1 ELSE 2
  BY <1>1 DEF Newer, LoggedNew
<1>3. \A j \in Side : v[j].ret = 1 => Since(rep[j], k, v[j]) = v[j].last
  BY DEF Since
<1>4. (i = 1 /\ Other(i) = 2) \/ (i = 2 /\ Other(i) = 1)
  BY DEF Side, Other
<1>5. Newer(k, v) \in Side
  BY <1>2 DEF Side
<1>6. CASE i = 1 /\ Other(i) = 2
  <2>1. /\ LoggedNew(i, k) <=> N1
        /\ LoggedNew(Other(i), k) <=> N2
    BY <1>6 DEF LoggedNew
  <2>2. v[1].ret = 1 => S1 = v[1].last
    BY <1>3 DEF Side
  <2>3. v[2].ret = 1 => S2 = v[2].last
    BY <1>3 DEF Side
  <2> HIDE DEF N1, N2, S1, S2
  <2>4. QED BY <1>2, <1>5, <1>6, <2>1, <2>2, <2>3
<1>7. CASE i = 2 /\ Other(i) = 1
  <2>1. /\ LoggedNew(i, k) <=> N2
        /\ LoggedNew(Other(i), k) <=> N1
    BY <1>7 DEF LoggedNew
  <2>2. v[1].ret = 1 => S1 = v[1].last
    BY <1>3 DEF Side
  <2>3. v[2].ret = 1 => S2 = v[2].last
    BY <1>3 DEF Side
  <2> HIDE DEF N1, N2, S1, S2
  <2>4. QED BY <1>2, <1>5, <1>7, <2>1, <2>2, <2>3
<1>8. QED BY <1>4, <1>6, <1>7

(* The value of a key: whether there is one, and since when.               *)
LEMMA ValueOf ==
  ASSUME clock \in Nat, NEW r \in Replica(clock), Good(r), NEW k \in Keys
  PROVE  /\ sieve_attribute_get_sieve(r, k).ret \in {0, 1} /\ sieve_attribute_get_sieve(r, k).last \in 0 .. clock
         /\ k # Default => (sieve_attribute_get_sieve(r, k).ret = 0 <=> r.text[k] = 0) /\ sieve_attribute_get_sieve(r, k).val = r.text[k]
         /\ k = Default => /\ sieve_attribute_get_sieve(r, k).ret = 0 <=> r.kind = "none"
                           /\ sieve_attribute_get_sieve(r, k).type =
                                (IF r.kind = "link" THEN "L" ELSE IF r.kind = "own" THEN "S" ELSE "-")
                           /\ r.kind = "link" => /\ sieve_attribute_get_sieve(r, k).val = r.link
                                                 /\ sieve_attribute_get_sieve(r, k).last = sieve_file_storage_get_last_change(r)
<1> DEFINE c == sieve_file_storage_get_last_change(r)
<1>1. /\ r.mtime \in [Scripts -> 0 .. clock] /\ r.ownMtime \in 0 .. clock /\ r.kind \in Kinds
      /\ r.dirMtime \in 0 .. clock /\ r.prev \in -1 .. clock
  BY DEF Replica
<1>2. c \in 0 .. clock
  BY <1>1 DEF sieve_file_storage_get_last_change
<1> HIDE DEF c
<1>3. CASE k = Default
  <2>1. sieve_attribute_get_sieve(r, k) = IF r.kind = "link" THEN Value(1, "L", r.link, c)
                                    ELSE IF r.kind = "own" THEN Value(1, "S", r.own, r.ownMtime) ELSE Value(0, "-", 0, c)
    BY <1>3 DEF c, sieve_attribute_get_sieve, sieve_attribute_get_default, sieve_attribute_get_active_script,
                sieve_storage_is_singular, sieve_file_storage_active_script_get_last_change
  <2>2. CASE r.kind = "link"
    BY <1>1, <1>2, <1>3, <2>1, <2>2 DEF Value, c
  <2>3. CASE r.kind = "own"
    BY <1>1, <1>2, <1>3, <2>1, <2>3 DEF Value
  <2>4. CASE r.kind = "none"
    BY <1>1, <1>2, <1>3, <2>1, <2>4 DEF Value
  <2>5. QED BY <1>1, <2>2, <2>3, <2>4 DEF Kinds
<1>4. CASE k # Default
  <2>1. k \in Scripts
    BY <1>4 DEF Keys
  <2>2. sieve_attribute_get_sieve(r, k) = IF r.text[k] # 0 THEN Value(1, "S", r.text[k], r.mtime[k]) ELSE Value(0, "-", 0, 0)
    BY <1>4 DEF sieve_attribute_get_sieve
  <2>3. QED BY <1>1, <1>4, <2>1, <2>2 DEF Value
<1>5. QED BY <1>3, <1>4

LEMMA AgreeSym ==
  ASSUME NEW k, NEW q, NEW r, AgreeOn(k, q, r)
  PROVE  AgreeOn(k, r, q)
BY DEF AgreeOn

(* A side that has its storage shows what it has.                          *)
LEMMA SeenForm ==
  ASSUME clock \in Nat, clock >= 1, NEW r \in Replica(clock), Good(r)
  PROVE  /\ Seen(r) \in Replica(clock) /\ Good(Seen(r))
         /\ \A k \in Keys : sieve_attribute_get(r, k) = sieve_attribute_get_sieve(Seen(r), k)
         /\ Sane(r) => Seen(r) = r
<1>1. NewReplica \in Replica(clock) /\ Good(NewReplica)
  <2>1. NewReplica \in Replica(1) /\ Good(NewReplica)
    BY NewForm
  <2>2. QED BY <2>1, RepMono
<1>2. ASSUME NEW k \in Keys
      PROVE  sieve_attribute_get_sieve(NewReplica, k) = Value(0, "-", 0, 0)
  <2>1. CASE k = Default
    BY <2>1 DEF NewReplica, sieve_attribute_get_sieve, sieve_attribute_get_default, sieve_attribute_get_active_script,
                sieve_storage_is_singular, sieve_file_storage_active_script_get_last_change, sieve_file_storage_get_last_change
  <2>2. CASE k # Default
    <3>1. k \in Scripts
      BY <2>2 DEF Keys
    <3>2. NewReplica.text[k] = 0
      BY <3>1 DEF NewReplica
    <3>3. QED BY <2>2, <3>2 DEF sieve_attribute_get_sieve
  <2>3. QED BY <2>1, <2>2
<1>3. CASE r.user = "failed"
  BY <1>1, <1>2, <1>3 DEF Seen, sieve_attribute_get, Sane
<1>4. CASE r.user # "failed"
  BY <1>4 DEF Seen, sieve_attribute_get
<1>5. QED BY <1>3, <1>4

(* Side to was given the value of key k that side from has, or has no      *)
(* storage to set it in.                                                   *)
KeyEffect(k, q, r, f, b, state) ==
  \/ q = r /\ r.user = "failed" /\ state = "failed"
  \/ /\ k # Default => ScriptEffect(q, r, k, f.text[k], b)
     /\ k = Default => ActiveResult(q, r, b) /\ (state = "busy" => AgreeOn(Default, q, f))

(* A step for a key k that the sides have different values of: what side   *)
(* from = Newer(...) has is set on the other side.                         *)
LEMMA KeyTaken ==
  ASSUME SyncInv, NEW k \in Keys, NEW v, v = [i \in Side |-> sieve_attribute_get(rep[i], k)], brain.on,
         NEW from \in Side
  PROVE  LET to  == Other(from)
             set == sieve_attribute_set(rep[to], k, v[from], Since(rep[from], k, v[from]))
         IN  KeyEffect(k, set.r, rep[to], Seen(rep[from]), brain.opened[to].dirMtime, IF set.ret < 0 THEN "failed" ELSE "busy")
<1> DEFINE to  == Other(from)
           ts  == Since(rep[from], k, v[from])
           set == sieve_attribute_set(rep[to], k, v[from], ts)
           b   == brain.opened[to].dirMtime
           f   == Seen(rep[from])
<1>1. /\ clock \in Nat /\ clock >= 1 /\ rep \in [Side -> Replica(clock)] /\ brain.opened \in [Side -> Replica(clock)]
  BY SyncAssumption DEF SyncInv, SyncTypes
<1>2. to \in Side /\ rep[to] \in Replica(clock) /\ rep[from] \in Replica(clock) /\ Good(rep[to]) /\ Good(rep[from])
  BY <1>1 DEF SyncInv, AllGood, Side, Other
<1>3. b \in Nat /\ b <= clock /\ b \in 0 .. clock
  BY <1>1, <1>2 DEF Replica
<1>4. rep[to] \in Rep(clock, b)
  BY <1>2 DEF SyncInv, TimesOK, Rep
<1>5. f \in Replica(clock) /\ Good(f) /\ v[from] = sieve_attribute_get_sieve(f, k)
  BY <1>1, <1>2, SeenForm
<1> HIDE DEF f
<1>6. ts \in 0 .. clock
  <2>1. v[from].last \in 0 .. clock
    BY <1>1, <1>5, ValueOf
  <2>2. rep[from].log[k].ts \in 0 .. clock
    BY <1>2 DEF Replica, Entry
  <2>3. QED BY <2>1, <2>2 DEF Since
<1> HIDE DEF ts
<1>7. set = IF rep[to].user = "failed" THEN [r |-> rep[to], ret |-> -1] ELSE SetTo(rep[to], k, f, ts)
  BY <1>5 DEF sieve_attribute_set, SetTo
<1> HIDE DEF to, b, set
<1>8. KeyEffect(k, set.r, rep[to], f, b, IF set.ret < 0 THEN "failed" ELSE "busy")
  <2>1. CASE rep[to].user = "failed"
    <3>1. set.r = rep[to] /\ set.ret = -1
      BY <1>7, <2>1
    <3>2. QED BY <2>1, <3>1 DEF KeyEffect
  <2>2. CASE rep[to].user # "failed" /\ k # Default
    <3>1. k \in Scripts
      BY <2>2 DEF Keys
    <3>2. ScriptEffect(set.r, rep[to], k, f.text[k], b)
      BY <1>1, <1>2, <1>3, <1>4, <1>5, <1>6, <1>7, <2>2, <3>1, SetScript
    <3>3. QED BY <2>2, <3>2 DEF KeyEffect
  <2>3. CASE rep[to].user # "failed" /\ k = Default
    <3>1. /\ ActiveResult(set.r, rep[to], b) /\ set.ret \in {-1, 0}
          /\ set.ret = 0 => AgreeOn(Default, set.r, f)
      BY <1>1, <1>2, <1>3, <1>4, <1>5, <1>6, <1>7, <2>3, SetDefault
    <3>2. QED BY <2>3, <3>1 DEF KeyEffect
  <2>4. QED BY <2>1, <2>2, <2>3
<1>9. QED BY <1>8 DEF set, to, b, ts, f

(* Values that are the same agree.                                         *)
LEMMA SameAgrees ==
  ASSUME clock \in Nat, NEW q \in Replica(clock), NEW r \in Replica(clock), Good(q), Good(r), Sane(q), Sane(r), NEW k \in Keys,
         sieve_attribute_get(q, k).ret = sieve_attribute_get(r, k).ret,
         sieve_attribute_get(q, k).type = sieve_attribute_get(r, k).type,
         sieve_attribute_get(q, k).val = sieve_attribute_get(r, k).val
  PROVE  AgreeOn(k, q, r)
<1> DEFINE x == sieve_attribute_get(q, k)
           y == sieve_attribute_get(r, k)
<1>0. x.ret = y.ret /\ x.type = y.type /\ x.val = y.val
  OBVIOUS
<1>0a. x = sieve_attribute_get_sieve(q, k) /\ y = sieve_attribute_get_sieve(r, k)
  BY DEF sieve_attribute_get, Sane
<1> HIDE DEF x, y
<1>1. CASE k # Default
  <2>1. x.val = q.text[k] /\ y.val = r.text[k]
    BY <1>0a, <1>1, ValueOf
  <2>2. QED BY <1>0, <1>1, <2>1 DEF AgreeOn
<1>2. CASE k = Default
  <2>1. /\ x.type = (IF q.kind = "link" THEN "L" ELSE IF q.kind = "own" THEN "S" ELSE "-")
        /\ q.kind = "link" => x.val = q.link
    BY <1>0a, <1>2, ValueOf
  <2>2. /\ y.type = (IF r.kind = "link" THEN "L" ELSE IF r.kind = "own" THEN "S" ELSE "-")
        /\ r.kind = "link" => y.val = r.link
    BY <1>0a, <1>2, ValueOf
  <2>3. q.kind \in Kinds /\ r.kind \in Kinds
    BY DEF Replica
  <2>4. QED BY <1>0, <1>2, <2>1, <2>2, <2>3 DEF AgreeOn, Good, Kinds
<1>3. QED BY <1>1, <1>2

(* When only side i was changed, a key on which the sides differ is taken  *)
(* from side i; "dovecot.orig" may be taken from the other side, but is    *)
(* never deleted on side i.                                                *)
LEMMA OneSideTaken ==
  ASSUME SyncInv, NEW k \in Keys, k \in brain.todo, NEW v, v = [j \in Side |-> sieve_attribute_get(rep[j], k)],
         NEW i \in Side, brain.state = "busy", slips = 0,
         Winning(brain.opened[i], brain.opened[Other(i)], rep[i], rep[Other(i)], brain.todo),
         ~(v[1].ret = v[2].ret /\ v[1].type = v[2].type /\ v[1].val = v[2].val)
  PROVE  /\ k \in Scripts \ {Orig} => Newer(k, v) = i
         /\ k = Orig => Newer(k, v) = i \/ rep[Other(i)].text[k] # 0
         /\ k = Default /\ brain.opened[i].kind # "own" /\ brain.opened[Other(i)].kind # "own" => Newer(k, v) = i
<1> DEFINE j  == Other(i)
           q  == rep[i]
           r  == rep[j]
           q0 == brain.opened[i]
           r0 == brain.opened[j]
<1>1. /\ clock \in Nat /\ rep \in [Side -> Replica(clock)] /\ brain.opened \in [Side -> Replica(clock)]
  BY SyncAssumption DEF SyncInv, SyncTypes
<1>2. j \in Side /\ ((i = 1 /\ j = 2) \/ (i = 2 /\ j = 1))
  BY DEF Side, Other
<1>3. /\ q \in Replica(clock) /\ r \in Replica(clock) /\ Good(q) /\ Good(r)
      /\ q0 \in Replica(clock) /\ r0 \in Replica(clock)
  BY <1>1, <1>2 DEF SyncInv, AllGood
<1>4. v[i] = sieve_attribute_get_sieve(q, k) /\ v[j] = sieve_attribute_get_sieve(r, k)
  <2>1. q.user # "failed" /\ r.user # "failed"
    BY <1>2 DEF SyncInv, SlipFree, Sane
  <2>2. QED BY <1>2, <2>1 DEF sieve_attribute_get
<1>5. ~(v[i].ret = v[j].ret /\ v[i].type = v[j].type /\ v[i].val = v[j].val)
  BY <1>2
<1>6. ~AgreeOn(k, q, r) \/ (k = Default /\ (q.kind = "own" \/ r.kind = "own")) \/ (k # Default /\ q.text[k] # r.text[k])
  <2>1. SUFFICES ASSUME k = Default => q.kind # "own" /\ r.kind # "own", AgreeOn(k, q, r),
                        k # Default => q.text[k] = r.text[k]
                 PROVE  FALSE
    OBVIOUS
  <2>2. CASE k # Default
    <3>1. sieve_attribute_get_sieve(q, k) = IF q.text[k] # 0 THEN Value(1, "S", q.text[k], q.mtime[k]) ELSE Value(0, "-", 0, 0)
      BY <2>2 DEF sieve_attribute_get_sieve
    <3>2. sieve_attribute_get_sieve(r, k) = IF r.text[k] # 0 THEN Value(1, "S", r.text[k], r.mtime[k]) ELSE Value(0, "-", 0, 0)
      BY <2>2 DEF sieve_attribute_get_sieve
    <3>3. QED BY <1>4, <1>5, <2>1, <2>2, <3>1, <3>2 DEF Value
  <2>3. CASE k = Default
    <3>1. q.kind = r.kind /\ q.link = r.link /\ q.kind # "own" /\ r.kind # "own"
      BY <2>1, <2>3 DEF AgreeOn
    <3>2. \A z \in Replica(clock) : z.kind # "own" =>
            sieve_attribute_get_sieve(z, k) =
              IF z.kind = "link" THEN Value(1, "L", z.link, sieve_file_storage_get_last_change(z))
              ELSE Value(0, "-", 0, sieve_file_storage_get_last_change(z))
      BY <2>3 DEF sieve_attribute_get_sieve, sieve_attribute_get_default, sieve_attribute_get_active_script,
                  sieve_storage_is_singular, sieve_file_storage_active_script_get_last_change
    <3>3. QED BY <1>3, <1>4, <1>5, <3>1, <3>2 DEF Value
  <2>4. QED BY <2>2, <2>3
<1>7. \A x \in Side : brain.opened[x].log[k].new \in BOOLEAN
  BY <1>1 DEF Replica, Entry
<1>8. ~LoggedNew(j, k) /\ ChangedBy(q0, r0)
  BY DEF Winning, ChangedBy, LoggedNew
<1>9. /\ LoggedNew(i, k) => Newer(k, v) = i
      /\ v[i].ret # 0 /\ v[j].ret = 0 => Newer(k, v) = i
      /\ /\ v[i].ret = 1 /\ v[j].ret = 1
         /\ v[i].last \in Int /\ v[j].last \in Int /\ v[i].last > v[j].last
         => Newer(k, v) = i
  <2> HIDE DEF j
  <2>1. j = Other(i)
    BY DEF j
  <2>2. QED BY <1>7, <1>8, <2>1, NewerSide
<1>10. ASSUME k \in Scripts
       PROVE  k # Default /\ q.text[k] # r.text[k]
  BY <1>6, <1>10, SyncAssumption DEF AgreeOn
<1>11. ASSUME k \in Scripts \ {Orig}
       PROVE  Newer(k, v) = i
  <2>1. q0.text[k] # r0.text[k]
    BY <1>10, <1>11 DEF Winning
  <2>2. LoggedNew(i, k)
    BY <1>8, <1>11, <2>1 DEF ChangedBy, LoggedNew
  <2>3. QED BY <1>9, <2>2
<1>12. ASSUME k = Orig, r.text[k] = 0
       PROVE  Newer(k, v) = i
  <2>1. k \in Scripts
    BY <1>12, SyncAssumption
  <2>2. q.text[k] # 0 /\ k # Default
    BY <1>10, <1>12, <2>1
  <2>3. sieve_attribute_get_sieve(q, k).ret # 0 /\ sieve_attribute_get_sieve(r, k).ret = 0
    BY <1>1, <1>3, <1>12, <2>2, ValueOf
  <2>4. QED BY <1>4, <1>9, <2>3
<1>13. ASSUME k = Default, q0.kind # "own", r0.kind # "own"
       PROVE  Newer(k, v) = i
  <2>1. ~Differ(q, q0) /\ sieve_file_storage_get_last_change(q) = q0.dirMtime
    BY <1>13 DEF Winning
  <2>2. \/ ~Differ(r, r0) /\ sieve_file_storage_get_last_change(r) = r0.dirMtime
        \/ r.kind = "none"
    BY <1>13 DEF Winning
  <2>3. q.kind # "own" /\ r.kind # "own" /\ Differ(q, r)
    BY <1>6, <1>13, <2>1, <2>2 DEF Differ, AgreeOn
  <2>4. /\ v[i].ret \in {0, 1} /\ v[i].last \in 0 .. clock /\ (v[i].ret = 0 <=> q.kind = "none")
        /\ q.kind = "link" => v[i].last = sieve_file_storage_get_last_change(q)
    BY <1>1, <1>3, <1>4, <1>13, ValueOf
  <2>5. /\ v[j].ret \in {0, 1} /\ v[j].last \in 0 .. clock /\ (v[j].ret = 0 <=> r.kind = "none")
        /\ r.kind = "link" => v[j].last = sieve_file_storage_get_last_change(r)
    BY <1>1, <1>3, <1>4, <1>13, ValueOf
  <2>6. CASE r.kind = "none"
    <3>1. q.kind # "none"
      BY <1>3, <2>3, <2>6 DEF Differ, Good
    <3>2. QED BY <1>9, <2>4, <2>5, <2>6, <3>1
  <2>7. CASE r.kind # "none"
    <3>1. ~Differ(r, r0) /\ sieve_file_storage_get_last_change(r) = r0.dirMtime
      BY <2>2, <2>7
    <3>2. Differ(q0, r0)
      BY <2>1, <2>3, <3>1 DEF Differ
    <3>3. q0.log[Default].new \/ (q0.kind = "link" /\ r0.kind = "link" /\ q0.dirMtime > r0.dirMtime)
      BY <1>8, <1>13, <3>2 DEF ChangedBy
    <3>4. CASE q0.log[Default].new
      BY <1>9, <1>13, <3>4 DEF LoggedNew
    <3>5. CASE q0.kind = "link" /\ r0.kind = "link" /\ q0.dirMtime > r0.dirMtime
      <4>1. q.kind = "link" /\ r.kind = "link"
        BY <2>1, <3>1, <3>5 DEF Differ
      <4>2. v[i].ret = 1 /\ v[j].ret = 1 /\ v[i].last = q0.dirMtime /\ v[j].last = r0.dirMtime
        BY <2>1, <2>4, <2>5, <3>1, <4>1
      <4>3. v[i].last \in Int /\ v[j].last \in Int
        BY <1>1, <2>4, <2>5
      <4>4. QED BY <1>9, <3>5, <4>2, <4>3
    <3>6. QED BY <3>3, <3>4, <3>5
  <2>8. QED BY <2>6, <2>7
<1>14. QED BY <1>11, <1>12, <1>13

LEMMA SyncKeyStep ==
  ASSUME SyncInv, NEW k \in Keys, SyncKey(k)
  PROVE  SyncInv' /\ OwnIsRescued
<1> DEFINE v == [i \in Side |-> sieve_attribute_get(rep[i], k)]
           from == Newer(k, v)
           to == Other(from)
           same == SameValue(v)
           set == sieve_attribute_set(rep[to], k, v[from], Since(rep[from], k, v[from]))
           state == IF ~same /\ set.ret < 0 THEN "failed" ELSE "busy"
           b == brain.opened[to].dirMtime
<1>1. /\ brain.on /\ brain.state = "busy" /\ k \in brain.todo
      /\ rep' = IF same THEN rep ELSE [rep EXCEPT ![to] = set.r]
      /\ brain' = [brain EXCEPT !.todo = brain.todo \ {k}, !.state = IF ~same /\ set.ret < 0 THEN "failed" ELSE brain.state]
      /\ clock' = clock /\ edits' = edits /\ syncs' = syncs /\ slips' = slips
  BY DEF SyncKey
<1>1a. slips = 0 => \A i \in Side : Sane(rep[i])
  BY DEF SyncInv, SlipFree
<1>2. /\ clock \in Nat /\ rep \in [Side -> Replica(clock)]
      /\ brain \in [on : BOOLEAN, opened : [Side -> Replica(clock)], by : SUBSET Side, todo : SUBSET Keys,
                    state : {"edited", "busy", "done", "failed"}]
  BY SyncAssumption DEF SyncInv, SyncTypes
<1>3. /\ v = [i \in Side |-> sieve_attribute_get(rep[i], k)]
      /\ same <=> v[1].ret = v[2].ret /\ v[1].type = v[2].type /\ v[1].val = v[2].val
      /\ state \in {"busy", "failed"} /\ (same => state = "busy")
      /\ state = (IF ~same /\ set.ret < 0 THEN "failed" ELSE brain.state)
  BY <1>1 DEF SameValue
<1>4. from \in Side
  <2>1. \A x \in Side : brain.opened[x].log[k].new \in BOOLEAN
    BY <1>2 DEF Replica, Entry
  <2>2. 1 \in Side
    BY DEF Side
  <2> HIDE DEF v
  <2>3. QED BY <2>1, <2>2, NewerSide
<1>5. to \in Side /\ ((from = 1 /\ to = 2) \/ (from = 2 /\ to = 1)) /\ Other(to) = from
  <2> HIDE DEF from
  <2>1. QED BY <1>4 DEF Side, Other
<1>6. KeyEffect(k, set.r, rep[to], Seen(rep[from]), b, IF set.ret < 0 THEN "failed" ELSE "busy")
  <2> HIDE DEF from, v
  <2>1. QED BY <1>1, <1>3, <1>4, KeyTaken
<1>7. /\ ~same => KeyEffect(k, set.r, rep[to], Seen(rep[from]), b, state)
      /\ ~same /\ slips = 0 =>
           /\ k # Default => ScriptEffect(set.r, rep[to], k, rep[from].text[k], b)
           /\ k = Default => ActiveResult(set.r, rep[to], b) /\ (state = "busy" => AgreeOn(Default, set.r, rep[from]))
  <2>1. ~same => KeyEffect(k, set.r, rep[to], Seen(rep[from]), b, state)
    BY <1>6
  <2>2. slips = 0 => Sane(rep[to]) /\ Seen(rep[from]) = rep[from]
    <3> HIDE DEF from, to
    <3>1. QED BY <1>1a, <1>4, <1>5 DEF Seen, Sane
  <2> HIDE DEF same, set, b, state, from, to
  <2>3. QED BY <2>1, <2>2 DEF KeyEffect, Sane
<1>8. /\ \A i \in Side : rep[i] \in Rep(clock, brain.opened[i].dirMtime) /\ Good(rep[i])
      /\ brain.todo \in SUBSET Keys
  BY <1>1, <1>2 DEF SyncInv, TimesOK, AllGood, Rep
<1>9. v[1] = sieve_attribute_get(rep[1], k) /\ v[2] = sieve_attribute_get(rep[2], k)
  BY DEF Side
<1>10. same /\ slips = 0 => AgreeOn(k, rep[1], rep[2])
  <2>1. 1 \in Side /\ 2 \in Side
    BY DEF Side
  <2>2. rep[1] \in Replica(clock) /\ rep[2] \in Replica(clock) /\ Good(rep[1]) /\ Good(rep[2])
    BY <1>2, <1>8, <2>1
  <2> HIDE DEF v
  <2>3. QED BY <1>1a, <1>2, <1>3, <1>9, <2>1, <2>2, SameAgrees
<1>11. ASSUME NEW i \in Side, slips = 0, brain.by \subseteq {i}, ~same
       PROVE  /\ Winning(brain.opened[i], brain.opened[Other(i)], rep[i], rep[Other(i)], brain.todo)
              /\ k \in Scripts \ {Orig} => from = i
              /\ k = Orig => from = i \/ rep[Other(i)].text[k] # 0
              /\ k = Default /\ brain.opened[i].kind # "own" /\ brain.opened[Other(i)].kind # "own" => from = i
  <2>1. Winning(brain.opened[i], brain.opened[Other(i)], rep[i], rep[Other(i)], brain.todo)
    BY <1>1, <1>11 DEF SyncInv, OneSideWins
  <2> HIDE DEF v
  <2>2. QED BY <1>1, <1>3, <1>11, <2>1, OneSideTaken
<1> HIDE DEF v, from, to, same, set, b, state
<1>12. brain' = [brain EXCEPT !.todo = brain.todo \ {k}, !.state = state]
  BY <1>1, <1>3
<1>13. /\ brain'.on /\ brain'.opened = brain.opened /\ brain'.by = brain.by /\ brain'.todo = brain.todo \ {k}
       /\ brain'.state = state
       /\ brain' \in [on : BOOLEAN, opened : [Side -> Replica(clock)], by : SUBSET Side, todo : SUBSET Keys,
                      state : {"edited", "busy", "done", "failed"}]
  BY <1>1, <1>2, <1>3, <1>12
<1>14. ~same => /\ set.r \in Rep(clock, b) /\ Good(set.r)
                /\ rep[to].kind = "own" /\ set.r.kind # "own" => set.r.text[Orig] = rep[to].own
                /\ (set.r.stuck => rep[to].stuck) /\ set.r.user = rep[to].user
  BY <1>5, <1>7, <1>8 DEF KeyEffect, ScriptEffect, ActiveResult, b
<1>15. /\ rep' \in [Side -> Replica(clock)]
       /\ same => rep' = rep
       /\ ~same => rep'[to] = set.r /\ \A i \in Side : i # to => rep'[i] = rep[i]
       /\ \A i \in Side : rep'[i] \in Rep(clock, brain.opened[i].dirMtime) /\ Good(rep'[i])
  <2>1. ~same => set.r \in Replica(clock)
    BY <1>14 DEF Rep
  <2>2. /\ rep' \in [Side -> Replica(clock)]
        /\ same => rep' = rep
        /\ ~same => rep'[to] = set.r /\ \A i \in Side : i # to => rep'[i] = rep[i]
    BY <1>1, <1>2, <1>5, <2>1
  <2>3. QED BY <1>8, <1>14, <2>2 DEF b
<1>16. SyncTypes'
  <2>1. /\ edits \in 0 .. MaxEdits /\ syncs \in 0 .. MaxSyncs /\ slips \in 0 .. MaxSlips
        /\ clock = 1 + edits + (syncs - 1) /\ syncs >= 1
    BY <1>1 DEF SyncInv, SyncTypes
  <2>2. QED BY <1>1, <1>3, <1>13, <1>15, <2>1 DEF SyncTypes
<1>17. TimesOK' /\ AllGood'
  BY <1>13, <1>15 DEF TimesOK, AllGood, Rep
<1>18. OwnIsRescued
  BY <1>14, <1>15 DEF OwnIsRescued
<1>19. Agreed'
  <2> SUFFICES ASSUME slips = 0, state = "busy", NEW x \in Keys \ {Orig}, x \notin brain.todo \/ x = k
               PROVE  AgreeOn(x, rep'[1], rep'[2])
    BY <1>1, <1>3, <1>13 DEF Agreed
  <2>1. x # k => AgreeOn(x, rep[1], rep[2])
    BY <1>1 DEF SyncInv, Agreed
  <2>2. CASE same
    BY <1>10, <1>15, <2>1, <2>2
  <2>3. CASE ~same
    <3>1. x # k => AgreeOn(x, rep[to], rep[from])
      BY <1>5, <2>1, AgreeSym
    <3>2. rep'[to] = set.r /\ rep'[from] = rep[from]
      BY <1>4, <1>5, <1>15, <2>3
    <3>3. AgreeOn(x, set.r, rep[from])
      <4>1. CASE x = k
        <5>1. CASE k = Default
          BY <1>7, <2>3, <4>1, <5>1
        <5>2. CASE k # Default
          <6>1. k \in Scripts /\ rep[to].text \in [Scripts -> 0 .. MaxText]
            BY <1>2, <1>5, <5>2 DEF Keys, Replica
          <6>2. set.r.text[k] = rep[from].text[k]
            BY <1>7, <2>3, <5>2, <6>1 DEF ScriptEffect
          <6>3. QED BY <4>1, <5>2, <6>2 DEF AgreeOn
        <5>3. QED BY <5>1, <5>2
      <4>2. CASE x # k /\ k = Default
        <5>1. x \in Scripts \ {Orig} /\ x # Default
          BY <4>2 DEF Keys
        <5>2. set.r.text[x] = rep[to].text[x]
          BY <1>7, <2>3, <4>2, <5>1 DEF ActiveResult
        <5>3. QED BY <3>1, <4>2, <5>1, <5>2 DEF AgreeOn
      <4>3. CASE x # k /\ k # Default
        <5>1. ScriptEffect(set.r, rep[to], k, rep[from].text[k], b)
          BY <1>7, <2>3, <4>3
        <5>2. CASE x = Default
          <6>1. ~(rep[to].kind = "link" /\ rep[to].link = k /\ rep[from].text[k] = 0)
            BY <1>1a, <1>4, <1>8, <3>1, <4>3, <5>2 DEF AgreeOn, Good, Sane
          <6>2. set.r.kind = rep[to].kind /\ set.r.link = rep[to].link
            BY <5>1, <6>1 DEF ScriptEffect
          <6>3. QED BY <3>1, <4>3, <5>2, <6>2 DEF AgreeOn
        <5>3. CASE x # Default
          <6>1. x \in Scripts /\ rep[to].text \in [Scripts -> 0 .. MaxText]
            BY <1>2, <1>5, <5>3 DEF Keys, Replica
          <6>2. set.r.text[x] = rep[to].text[x]
            BY <4>3, <5>1, <6>1 DEF ScriptEffect
          <6>3. QED BY <3>1, <4>3, <5>3, <6>2 DEF AgreeOn
        <5>4. QED BY <5>2, <5>3
      <4>4. QED BY <4>1, <4>2, <4>3
    <3>4. QED BY <1>5, <3>2, <3>3, AgreeSym
  <2>4. QED BY <2>2, <2>3
<1>20. OneSideWins'
  <2> SUFFICES ASSUME slips = 0, state = "busy", NEW i \in Side, brain.by \subseteq {i}
               PROVE  Winning(brain.opened[i], brain.opened[Other(i)], rep'[i], rep'[Other(i)], brain.todo \ {k})
    BY <1>1, <1>3, <1>13 DEF OneSideWins
  <2>1. Winning(brain.opened[i], brain.opened[Other(i)], rep[i], rep[Other(i)], brain.todo)
    BY <1>1 DEF SyncInv, OneSideWins
  <2>2. CASE same
    BY <1>15, <2>1, <2>2 DEF Winning
  <2>3. CASE ~same
    <3> DEFINE j == Other(i)
    <3>1. /\ k \in Scripts \ {Orig} => from = i
          /\ k = Orig => from = i \/ rep[j].text[k] # 0
          /\ k = Default /\ brain.opened[i].kind # "own" /\ brain.opened[j].kind # "own" => from = i
      BY <1>11, <2>3
    <3>2. j \in Side /\ j # i /\ (from = i => to = j) /\ (from # i => from = j /\ to = i)
      BY <1>4, <1>5 DEF Side, Other
    <3>3. /\ rep'[to] = set.r /\ rep'[from] = rep[from]
          /\ rep[to].text \in [Scripts -> 0 .. MaxText]
      BY <1>2, <1>4, <1>5, <1>15, <2>3 DEF Replica
    <3> HIDE DEF j
    <3>4. CASE k # Default
      <4>1. k \in Scripts
        BY <3>4 DEF Keys
      <4>2. ScriptEffect(set.r, rep[to], k, rep[from].text[k], b)
        BY <1>7, <2>3, <3>4
      <4>3. \A s \in Scripts : s # k => set.r.text[s] = rep[to].text[s]
        BY <3>3, <4>1, <4>2 DEF ScriptEffect
      <4>4. CASE from = i
        <5>1. rep'[i] = rep[i] /\ rep'[j] = set.r /\ to = j
          BY <3>2, <3>3, <4>4
        <5>2. \A s \in Scripts \ {Orig} : rep'[i].text[s] = brain.opened[i].text[s]
                /\ (s \in brain.todo \ {k} => rep'[j].text[s] = brain.opened[j].text[s])
          BY <2>1, <4>3, <5>1 DEF Winning, j
        <5>3. \/ ~Differ(set.r, rep[j]) /\ sieve_file_storage_get_last_change(set.r) = sieve_file_storage_get_last_change(rep[j])
              \/ set.r.kind = "none"
          BY <4>2, <5>1 DEF ScriptEffect, Differ
        <5>4. rep[j].kind = "none" => set.r.kind = "none"
          BY <4>2, <5>1 DEF ScriptEffect
        <5>5. QED BY <2>1, <5>1, <5>2, <5>3, <5>4 DEF Winning, j, Differ
      <4>5. CASE from # i
        <5>1. rep'[j] = rep[j] /\ rep'[i] = set.r /\ to = i /\ from = j
          BY <3>2, <3>3, <4>5
        <5>2. k = Orig /\ rep[from].text[k] # 0
          BY <3>1, <4>1, <4>5, <5>1
        <5>3. ~Differ(set.r, rep[i]) /\ sieve_file_storage_get_last_change(set.r) = sieve_file_storage_get_last_change(rep[i])
          BY <4>2, <5>1, <5>2 DEF ScriptEffect, Differ
        <5>4. \A s \in Scripts \ {Orig} : set.r.text[s] = rep[i].text[s]
          BY <4>3, <5>1, <5>2
        <5>5. QED BY <2>1, <5>1, <5>3, <5>4 DEF Winning, j, Differ
      <4>6. QED BY <4>4, <4>5
    <3>5. CASE k = Default
      <4>1. \A s \in Scripts \ {Orig} : set.r.text[s] = rep[to].text[s]
        BY <1>7, <2>3, <3>5 DEF ActiveResult
      <4>2. \A s \in Scripts \ {Orig} : rep'[i].text[s] = rep[i].text[s] /\ rep'[j].text[s] = rep[j].text[s]
        BY <3>2, <3>3, <4>1
      <4>3. brain.opened[i].kind # "own" /\ brain.opened[j].kind # "own" => rep'[i] = rep[i]
        BY <3>1, <3>2, <3>3, <3>5
      <4>4. QED BY <2>1, <3>5, <4>2, <4>3 DEF Winning, j
    <3>6. QED BY <3>4, <3>5
  <2>4. QED BY <2>2, <2>3
<1>21. OneSided' /\ EditsSurvive'
  BY <1>3, <1>13 DEF OneSided, EditsSurvive
<1>22. SlipFree'
  BY <1>1, <1>1a, <1>5, <1>14, <1>15 DEF SlipFree, Sane
<1>23. QED BY <1>16, <1>17, <1>18, <1>19, <1>20, <1>21, <1>22 DEF SyncInv

(* What a call that fails may leave: good types, a good link and the own   *)
(* file.                                                                   *)
FailEffect(q, r, b) ==
  q \in Rep(clock, b) /\ Good(q) /\ (r.kind = "own" /\ q.kind # "own" => q.text[Orig] = r.own)

LEMMA DeleteFails ==
  ASSUME clock \in Nat, NEW b \in Nat, b <= clock, NEW r \in Rep(clock, b), Good(r), NEW k \in Scripts,
         NEW o \in StorageDeleteFails(r, k)
  PROVE  FailEffect(o.r, r, b) /\ o.ret \in {-1, 0}
<1> DEFINE m == sieve_file_storage_pre_modify(r)
           d == StorageDeactivate(r, -1, FALSE)
           q == DeleteStuck(r, k)
<1>1. CASE o = [r |-> m, ret |-> -1]
  <2>1. m \in Rep(clock, b) /\ SameScripts(m, r)
    BY PreModify
  <2> HIDE DEF m
  <2>2. QED BY <1>1, <2>1 DEF FailEffect, SameScripts, Good
<1>2. CASE r.kind = "link" /\ r.link = k /\ o = [r |-> q, ret |-> 0]
  <2>1. q \in Rep(clock, b) /\ Good(q)
    BY StuckForm
  <2> HIDE DEF q
  <2>2. QED BY <1>2, <2>1 DEF FailEffect
<1>3. CASE r.kind = "link" /\ r.link = k /\ o = [r |-> d, ret |-> -1]
  <2>1. -1 \in -1 .. clock /\ FALSE \in BOOLEAN
    OBVIOUS
  <2>2. \A slip \in BOOLEAN : LET y == StorageDeactivate(r, -1, slip)
                              IN  y \in Rep(clock, b) /\ y.kind = "none" /\ y.link = Default
    BY <2>1, DeactivateForm
  <2>3. d \in Rep(clock, b) /\ d.kind = "none" /\ d.link = Default
    BY <2>1, <2>2
  <2> HIDE DEF d
  <2>4. QED BY <1>3, <2>3 DEF FailEffect, Good
<1>4. QED BY <1>1, <1>2, <1>3 DEF StorageDeleteFails

LEMMA SetFails ==
  ASSUME clock \in Nat, NEW b \in Nat, b <= clock, NEW r \in Rep(clock, b), Good(r), NEW k \in Keys, NEW v,
         NEW ts \in 0 .. clock, NEW o \in sieve_attribute_set_fails(r, k, v, ts)
  PROVE  FailEffect(o.r, r, b) /\ o.ret \in {-1, 0}
<1> DEFINE m == sieve_file_storage_pre_modify(r)
           a == sieve_file_storage_active_rescue_regular(m)
           M(q) == sieve_file_storage_set_modified(q, ts)
<1>1. m \in Rep(clock, b) /\ SameScripts(m, r) /\ ts \in -1 .. clock
  BY PreModify
<1>2. r.text \in [Scripts -> 0 .. MaxText] /\ r.own \in 0 .. MaxText
  BY DEF Rep, Replica
<1>3. /\ a \in Rep(clock, b) /\ a.text = Rescued(m) /\ a.kind = m.kind /\ a.link = m.link /\ a.own = m.own /\ a.stuck = m.stuck
  <2> HIDE DEF m
  <2>1. QED BY <1>1, RescueForm
<1>4. Good(m) /\ m.kind = r.kind
  <2> HIDE DEF m
  <2>1. QED BY <1>1 DEF SameScripts, Good
<1>5. Good(a) /\ a.kind = r.kind
  <2> HIDE DEF m, a
  <2>1. QED BY <1>1, <1>2, <1>3, <1>4, SyncAssumption DEF SameScripts, Good, Rescued
<1>6. \A q \in {r, m, a} : FailEffect(M(q), r, b)
  <2> SUFFICES ASSUME NEW q \in {r, m, a} PROVE FailEffect(M(q), r, b)
    OBVIOUS
  <2>1. q \in Rep(clock, b) /\ Good(q) /\ q.kind = r.kind
    BY <1>1, <1>3, <1>4, <1>5
  <2> HIDE DEF a, m
  <2>2. M(q) \in Rep(clock, b) /\ SameScripts(M(q), q)
    BY <1>1, <2>1, SetModified
  <2> HIDE DEF M
  <2>3. QED BY <2>1, <2>2 DEF FailEffect, SameScripts, Good
<1>7. FailEffect(r, r, b) /\ FailEffect(m, r, b)
  BY <1>1, <1>4 DEF FailEffect
<1> HIDE DEF a, M
<1>8. CASE r.user = "failed"
  BY <1>7, <1>8 DEF sieve_attribute_set_fails
<1>9. CASE r.user # "failed" /\ k = Default /\ v.type = "L"
  <2>1. o \in {[r |-> M(q), ret |-> -1] : q \in {m, a}}
    BY <1>9 DEF sieve_attribute_set_fails, M, a
  <2>2. QED BY <1>6, <2>1
<1>10. CASE r.user # "failed" /\ k = Default /\ v.type # "L" /\ v.ret # 0
  <2>1. o \in {[r |-> r, ret |-> -1], [r |-> M(r), ret |-> 0]}
    BY <1>10 DEF sieve_attribute_set_fails, M
  <2>2. QED BY <1>6, <1>7, <2>1
<1>11. CASE r.user # "failed" /\ k # Default /\ v.ret = 0 /\ r.text[k] # 0
  <2>1. o \in StorageDeleteFails(r, k) /\ k \in Scripts
    BY <1>11 DEF sieve_attribute_set_fails, Keys
  <2>2. QED BY <2>1, DeleteFails
<1>12. CASE /\ r.user # "failed" /\ ~(k = Default /\ v.type = "L") /\ ~(k = Default /\ v.type # "L" /\ v.ret # 0)
            /\ ~(k # Default /\ v.ret = 0 /\ r.text[k] # 0)
  <2>1. o = [r |-> m, ret |-> -1]
    BY <1>12 DEF sieve_attribute_set_fails
  <2>2. QED BY <1>7, <2>1
<1>13. QED BY <1>8, <1>9, <1>10, <1>11, <1>12

LEMMA SyncKeyFailsStep ==
  ASSUME SyncInv, NEW k \in Keys, SyncKeyFails(k)
  PROVE  SyncInv' /\ OwnIsRescued
<1> DEFINE v == [i \in Side |-> sieve_attribute_get(rep[i], k)]
           from == Newer(k, v)
           to == Other(from)
           ts == Since(rep[from], k, v[from])
           b == brain.opened[to].dirMtime
           F == {x \in sieve_attribute_set_fails(rep[to], k, v[from], ts) : ~SameValue(v)}
<1>1. /\ brain.on /\ brain.state = "busy" /\ k \in brain.todo /\ slips < MaxSlips
      /\ clock' = clock /\ edits' = edits /\ syncs' = syncs /\ slips' = slips + 1
      /\ \E o \in {[r |-> rep[to], ret |-> -1]} \cup F :
           /\ rep' = [rep EXCEPT ![to] = SetLogged(o, k, v[from], ts).r]
           /\ brain' = [brain EXCEPT !.todo = brain.todo \ {k}, !.state = IF o.ret < 0 THEN "failed" ELSE brain.state]
  BY DEF SyncKeyFails
<1>2. /\ clock \in Nat /\ clock >= 1 /\ rep \in [Side -> Replica(clock)]
      /\ brain \in [on : BOOLEAN, opened : [Side -> Replica(clock)], by : SUBSET Side, todo : SUBSET Keys,
                    state : {"edited", "busy", "done", "failed"}]
      /\ edits \in 0 .. MaxEdits /\ syncs \in 0 .. MaxSyncs /\ slips \in 0 .. MaxSlips
      /\ clock = 1 + edits + (syncs - 1) /\ syncs >= 1
  BY <1>1, SyncAssumption DEF SyncInv, SyncTypes
<1>3. from \in Side
  <2>1. \A x \in Side : brain.opened[x].log[k].new \in BOOLEAN
    BY <1>2 DEF Replica, Entry
  <2>2. 1 \in Side
    BY DEF Side
  <2> HIDE DEF v
  <2>3. QED BY <2>1, <2>2, NewerSide
<1>4. to \in Side
  <2> HIDE DEF from
  <2>1. QED BY <1>3 DEF Side, Other
<1>5. /\ \A i \in Side : rep[i] \in Rep(clock, brain.opened[i].dirMtime) /\ Good(rep[i])
      /\ brain.todo \in SUBSET Keys
  BY <1>1, <1>2 DEF SyncInv, TimesOK, AllGood, Rep
<1>6. b \in Nat /\ b <= clock
  <2> HIDE DEF to
  <2>1. QED BY <1>2, <1>4 DEF Replica
<1>7. ts \in 0 .. clock
  <2>1. v[from] = sieve_attribute_get(rep[from], k)
    BY <1>3
  <2> HIDE DEF v, from
  <2>2. rep[from] \in Replica(clock) /\ Good(rep[from])
    BY <1>2, <1>3, <1>5
  <2>3. Seen(rep[from]) \in Replica(clock) /\ Good(Seen(rep[from])) /\ v[from] = sieve_attribute_get_sieve(Seen(rep[from]), k)
    BY <1>2, <2>1, <2>2, SeenForm
  <2>4. v[from].last \in 0 .. clock
    BY <1>2, <2>3, ValueOf
  <2>5. rep[from].log[k].ts \in 0 .. clock
    BY <2>2 DEF Replica, Entry
  <2>6. QED BY <2>4, <2>5 DEF Since
<1> HIDE DEF from, to, ts, v
<1>8. PICK o \in {[r |-> rep[to], ret |-> -1]} \cup F :
           /\ rep' = [rep EXCEPT ![to] = SetLogged(o, k, v[from], ts).r]
           /\ brain' = [brain EXCEPT !.todo = brain.todo \ {k}, !.state = IF o.ret < 0 THEN "failed" ELSE brain.state]
  BY <1>1
<1>9. FailEffect(o.r, rep[to], b) /\ o.ret \in {-1, 0}
  <2>1. rep[to] \in Rep(clock, b) /\ Good(rep[to])
    BY <1>4, <1>5
  <2>2. CASE o = [r |-> rep[to], ret |-> -1]
    BY <2>1, <2>2 DEF FailEffect
  <2>3. CASE o \in F
    <3>1. o \in sieve_attribute_set_fails(rep[to], k, v[from], ts)
      BY <2>3
    <3> HIDE DEF b, F
    <3>2. QED BY <1>2, <1>6, <1>7, <2>1, <3>1, SetFails
  <2>4. QED BY <1>8, <2>2, <2>3
<1> HIDE DEF F
<1> DEFINE q == SetLogged(o, k, v[from], ts).r
<1>10. FailEffect(q, rep[to], b)
  <2>1. CASE o.ret = -1
    BY <1>9, <2>1 DEF SetLogged
  <2>2. CASE o.ret = 0
    <3>1. q = Logged(o.r, k, ts, v[from].ret # 0)
      BY <2>2 DEF SetLogged
    <3> HIDE DEF b
    <3>2. o.r \in Rep(clock, b) /\ (v[from].ret # 0) \in BOOLEAN
      BY <1>9 DEF FailEffect
    <3>3. \A set \in BOOLEAN : LogEffect(Logged(o.r, k, ts, set), o.r, k, b)
      BY <1>2, <1>6, <1>7, <3>2, LoggedForm
    <3>4. LogEffect(q, o.r, k, b)
      BY <3>1, <3>2, <3>3
    <3> HIDE DEF q
    <3>5. QED BY <1>9, <3>4 DEF FailEffect, LogEffect, SameScripts, Good
  <2>3. QED BY <1>9, <2>1, <2>2
<1>11. /\ rep' \in [Side -> Replica(clock)] /\ rep'[to] = q /\ \A i \in Side : i # to => rep'[i] = rep[i]
  <2>1. q \in Replica(clock)
    BY <1>10 DEF FailEffect, Rep
  <2> HIDE DEF q
  <2>2. rep' = [rep EXCEPT ![to] = q]
    BY <1>8 DEF q
  <2>3. QED BY <1>2, <1>4, <2>1, <2>2
<1> HIDE DEF q
<1>12. \A i \in Side : rep'[i] \in Rep(clock, brain.opened[i].dirMtime) /\ Good(rep'[i])
  BY <1>5, <1>10, <1>11 DEF FailEffect
<1>13. /\ brain'.on /\ brain'.opened = brain.opened /\ brain'.state \in {"busy", "failed"}
       /\ brain' \in [on : BOOLEAN, opened : [Side -> Replica(clock)], by : SUBSET Side, todo : SUBSET Keys,
                      state : {"edited", "busy", "done", "failed"}]
  <2> DEFINE state == IF o.ret < 0 THEN "failed" ELSE brain.state
  <2>1. state \in {"busy", "failed"} /\ brain' = [brain EXCEPT !.todo = brain.todo \ {k}, !.state = state]
    BY <1>1, <1>8
  <2> HIDE DEF state
  <2>2. QED BY <1>1, <1>2, <2>1
<1>14. SyncTypes'
  BY <1>1, <1>2, <1>11, <1>13, SyncAssumption DEF SyncTypes
<1>15. TimesOK' /\ AllGood'
  BY <1>1, <1>12, <1>13 DEF TimesOK, AllGood, Rep
<1>16. slips' # 0
  BY <1>1, <1>2
<1>17. Agreed' /\ OneSided' /\ OneSideWins' /\ EditsSurvive' /\ SlipFree'
  BY <1>16 DEF Agreed, OneSided, OneSideWins, EditsSurvive, SlipFree
<1>18. OwnIsRescued
  BY <1>10, <1>11 DEF OwnIsRescued, FailEffect
<1>19. QED BY <1>14, <1>15, <1>17, <1>18 DEF SyncInv

-----------------------------------------------------------------------------
(* The theorems *)

LEMMA SyncInitInv ==
  ASSUME SyncInit
  PROVE  SyncInv
<1> USE DEF SyncInit
<1>1. /\ NewReplica \in Replica(1) /\ NewReplica.prev = -1 /\ NewReplica.dirMtime = 0 /\ Good(NewReplica)
      /\ NewReplica.kind = "none" /\ NewReplica.link = Default /\ Sane(NewReplica)
      /\ (\A s \in Scripts : NewReplica.text[s] = 0) /\ \A k \in Keys : ~NewReplica.log[k].new
  BY NewForm
<1>2. 1 \in Side /\ 2 \in Side /\ \A i \in Side : Other(i) \in Side
  BY DEF Side, Other
<1>3. \A i \in Side : rep[i] = NewReplica
  OBVIOUS
<1>4. SyncTypes
  BY <1>1, SyncAssumption DEF SyncTypes
<1>5. TimesOK /\ AllGood /\ Agreed /\ OneSideWins /\ EditsSurvive /\ SlipFree
  BY <1>1, <1>3 DEF TimesOK, AllGood, Agreed, OneSideWins, EditsSurvive, SlipFree
<1>6. OneSided
  <2>1. \A i \in Side : ChangedBy(rep[i], rep[Other(i)])
    BY <1>1, <1>2, <1>3 DEF ChangedBy, Differ
  <2>2. QED BY <2>1 DEF OneSided
<1>7. QED BY <1>4, <1>5, <1>6 DEF SyncInv

(* Every step keeps the invariant, and no file of the user's own is lost.  *)
LEMMA SyncStep ==
  ASSUME SyncInv, [SyncNext]_syncVars
  PROVE  SyncInv' /\ OwnIsRescued
<1>1. clock \in Nat /\ rep \in [Side -> Replica(clock)]
  BY SyncAssumption DEF SyncInv, SyncTypes
<1>2. \A i \in Side : ~brain.on => rep[i] \in Rep(clock, 0) /\ Good(rep[i])
  <2>1. \A i \in Side : ~brain.on => Since0(rep[i], 0)
    BY <1>1 DEF SyncInv, TimesOK, Replica, Since0
  <2>2. QED BY <1>1, <2>1 DEF Rep, SyncInv, AllGood
<1>3. ASSUME NEW i \in Side, NEW s \in Scripts, NEW c \in 1 .. MaxText, NEW slip \in BOOLEAN, Save(i, s, c, slip)
      PROVE  SyncInv' /\ OwnIsRescued
  <2>1. rep[i] \in Rep(clock, 0) /\ Good(rep[i])
    BY <1>2, <1>3 DEF Save, Edit
  <2>2. QED BY <1>1, <1>3, <2>1, EditSave, EditStep DEF Save
<1>4. ASSUME NEW i \in Side, NEW s \in Scripts, NEW slip \in BOOLEAN, Delete(i, s, slip)
      PROVE  SyncInv' /\ OwnIsRescued
  <2>1. rep[i] \in Rep(clock, 0) /\ Good(rep[i]) /\ (rep[i].kind = "link" => rep[i].link # s)
    BY <1>2, <1>4 DEF Delete, Edit
  <2>2. QED BY <1>1, <1>4, <2>1, EditDelete, EditStep DEF Delete
<1>5. ASSUME NEW i \in Side, NEW s \in Scripts, NEW slip \in BOOLEAN, Activate(i, s, slip)
      PROVE  SyncInv' /\ OwnIsRescued
  <2>1. rep[i] \in Rep(clock, 0) /\ Good(rep[i]) /\ rep[i].text[s] # 0
    BY <1>2, <1>5 DEF Activate, Edit
  <2>2. QED BY <1>1, <1>5, <2>1, EditActivate, EditStep DEF Activate
<1>6. ASSUME NEW i \in Side, NEW s \in Scripts, NEW t \in Scripts, NEW slip \in BOOLEAN, Rename(i, s, t, slip)
      PROVE  SyncInv' /\ OwnIsRescued
  <2> DEFINE e == [rep[i] EXCEPT !.text[t] = rep[i].text[s], !.text[s] = 0, !.mtime[t] = rep[i].mtime[s],
                     !.mtime[s] = 0, !.dirMtime = clock, !.link = IF @ = s THEN t ELSE @]
             q == sieve_storage_sync_script_rename(e, s, t, slip)
  <2>1. rep[i] \in Rep(clock, 0) /\ Good(rep[i]) /\ rep[i].text[s] # 0 /\ rep[i].text[t] = 0
    BY <1>2, <1>6 DEF Rename, Edit
  <2>2. EditEffect(q, rep[i]) /\ (~slip => EditLogged(q, rep[i]))
    BY <1>1, <2>1, EditRename
  <2>3. Edit(i, q, slip)
    BY <1>6 DEF Rename
  <2> HIDE DEF q
  <2>4. QED BY <2>2, <2>3, EditStep
<1>7. ASSUME NEW i \in Side, NEW slip \in BOOLEAN, Deactivate(i, slip)
      PROVE  SyncInv' /\ OwnIsRescued
  <2>1. rep[i] \in Rep(clock, 0) /\ Good(rep[i])
    BY <1>2, <1>7 DEF Deactivate, Edit
  <2>2. QED BY <1>1, <1>7, <2>1, EditDeactivate, EditStep DEF Deactivate
<1>8. ASSUME NEW i \in Side, NEW c \in 1 .. MaxText, OwnScript(i, c)
      PROVE  SyncInv' /\ OwnIsRescued
  <2> DEFINE q == [rep[i] EXCEPT !.kind = "own", !.link = Default, !.own = c, !.ownMtime = clock, !.stuck = FALSE]
  <2>1. Edit(i, q, FALSE)
    BY <1>8 DEF OwnScript
  <2>2. rep[i] \in Rep(clock, 0)
    BY <1>2, <2>1 DEF Edit
  <2>3. EditEffect(q, rep[i]) /\ EditLogged(q, rep[i])
    BY <1>1, <2>2, EditOwn
  <2> HIDE DEF q
  <2>4. \A slip \in BOOLEAN : Edit(i, q, slip) => SyncInv' /\ OwnIsRescued
    BY <2>3, EditStep
  <2>5. QED BY <2>1, <2>4
<1>8a. ASSUME NEW i \in Side, NEW s \in Scripts, DeleteUnread(i, s)
       PROVE  SyncInv' /\ OwnIsRescued
  <2>1. Edit(i, DeleteStuck(rep[i], s), TRUE)
    BY <1>8a DEF DeleteUnread
  <2>2. rep[i] \in Rep(clock, 0) /\ Good(rep[i])
    BY <1>2, <2>1 DEF Edit
  <2>3. EditEffect(DeleteStuck(rep[i], s), rep[i])
    BY <1>1, <2>2, EditUnread
  <2>4. \A slip \in BOOLEAN : slip /\ Edit(i, DeleteStuck(rep[i], s), slip) => SyncInv' /\ OwnIsRescued
    BY <2>3, EditStep
  <2>5. QED BY <2>1, <2>4
<1>9. CASE UNCHANGED syncVars
  <2>1. SyncInv'
    BY <1>9 DEF syncVars, SyncInv, SyncTypes, TimesOK, AllGood, Agreed, OneSided, OneSideWins, EditsSurvive, By, LoggedNew, Winning,
                ChangedBy, SlipFree
  <2>2. OwnIsRescued
    BY <1>9 DEF syncVars, OwnIsRescued
  <2>3. QED BY <2>1, <2>2
<1>10. QED
  BY <1>3, <1>4, <1>5, <1>6, <1>7, <1>8, <1>8a, <1>9, SyncStartStep, SyncKeyStep, SyncKeyFailsStep, SyncEndStep DEF SyncNext

(* The invariant says what the sync promises.                              *)
LEMMA SyncInvPromise ==
  ASSUME SyncInv
  PROVE  ReplicasAgree /\ LinkIsGood
<1>1. /\ edits \in 0 .. MaxEdits /\ syncs \in 0 .. MaxSyncs /\ rep \in [Side -> Replica(clock)]
      /\ clock = 1 + edits + (IF brain.on THEN syncs - 1 ELSE syncs) /\ (brain.on => syncs >= 1)
      /\ brain.todo \subseteq Keys
  BY DEF SyncInv, SyncTypes
<1>2. clock \in 1 .. MaxClock /\ MaxClock \in Nat /\ clock \in Nat /\ clock <= MaxClock
  BY <1>1, SyncAssumption DEF MaxClock
<1>3. 1 \in Side /\ 2 \in Side /\ Other(1) = 2 /\ Other(2) = 1
  BY DEF Side, Other
<1>4. SyncTypeOK
  <2> SUFFICES ASSUME NEW i \in Side
               PROVE  /\ rep[i].text \in [Scripts -> 0..MaxText] /\ rep[i].kind \in {"none", "link", "own"} /\ rep[i].link \in Keys
                      /\ rep[i].dirMtime \in 0..MaxClock /\ rep[i].prev \in -1..MaxClock
                      /\ rep[i].user \in {"new", "open", "failed"}
                      /\ \A k \in Keys : rep[i].log[k].ts \in 0..MaxClock
    BY <1>1, <1>2 DEF SyncTypeOK
  <2>1. rep[i] \in Replica(MaxClock)
    BY <1>1, <1>2, RepMono
  <2>2. QED BY <2>1 DEF Replica, Entry, Kinds, Users
<1>5. ScriptsAgree
  <2> SUFFICES ASSUME brain.state = "done", slips = 0, NEW s \in Scripts \ {Orig}
               PROVE  rep[1].text[s] = rep[2].text[s]
    BY DEF ScriptsAgree
  <2>1. s \in Keys \ {Orig} /\ s # Default
    BY SyncAssumption DEF Keys
  <2>2. QED BY <2>1 DEF SyncInv, Agreed, AgreeOn
<1>6. ActiveAgrees
  <2> SUFFICES ASSUME brain.state = "done", slips = 0, ~OwnKept
               PROVE  rep[1].kind = rep[2].kind /\ rep[1].link = rep[2].link
    BY DEF ActiveAgrees
  <2>1. Default \in Keys \ {Orig}
    BY SyncAssumption DEF Keys
  <2>2. AgreeOn(Default, rep[1], rep[2])
    BY <2>1 DEF SyncInv, Agreed
  <2>3. QED BY <1>3, <2>2 DEF AgreeOn, OwnKept
<1>7. TimeAdvances
  BY DEF SyncInv, TimesOK, Since0, TimeAdvances
<1>8. LinkIsGood
  BY DEF SyncInv, AllGood, Good, LinkIsGood
<1>9. QED BY <1>4, <1>5, <1>6, <1>7, <1>8 DEF SyncInv, ReplicasAgree

(* For any scripts, edits, syncs and failures: a sync that succeeds leaves *)
(* the same scripts and the same active script on both sides, a change     *)
(* made on one side only survives it, and no directory looks older than    *)
(* before (doveadm-sieve-sync.c).                                          *)
THEOREM SyncAgrees == SyncSpec => []ReplicasAgree
<1>1. SyncInit => SyncInv
  BY SyncInitInv
<1>2. SyncInv /\ [SyncNext]_syncVars => SyncInv'
  BY SyncStep
<1>3. SyncInv => ReplicasAgree
  BY SyncInvPromise
<1>4. QED BY <1>1, <1>2, <1>3, PTL DEF SyncSpec

(* No edit and no step of dsync, whichever call of a storage fails in it,  *)
(* leaves an active link that leads nowhere, unless that link could not be *)
(* read or removed while its script was deleted (sieve-script.c ignores    *)
(* it); and none loses a file that the user put in place of the link: it   *)
(* is kept as "dovecot.orig".                                              *)
THEOREM SyncIsSafe == SyncSpec => ActiveIsSafe
<1>1. SyncInit => SyncInv
  BY SyncInitInv
<1>2. SyncInv /\ [SyncNext]_syncVars => SyncInv'
  BY SyncStep
<1>3. SyncInv /\ [SyncNext]_syncVars => [LinkIsGood' /\ OwnIsRescued]_syncVars
  <2>1. SyncInv' => LinkIsGood'
    BY SyncInvPromise, PTL
  <2>2. QED BY <2>1, SyncStep
<1>4. QED BY <1>1, <1>2, <1>3, PTL DEF SyncSpec, ActiveIsSafe
=============================================================================
