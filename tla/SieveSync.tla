------------------------------ MODULE SieveSync ------------------------------
(***************************************************************************)
(* Two replicas of a user's scripts, changed through ManageSieve and made  *)
(* alike by dsync through the attributes of INBOX.                         *)
(* Source: plugins/doveadm-sieve/doveadm-sieve-sync.c, sieve-storage-sync.c *)
(* and the change times of sieve-file-storage.c.  dsync itself is external:*)
(* a key that only one side knows, or that only one side logged since the   *)
(* last sync, is taken from that side, otherwise the newer value is taken.  *)
(***************************************************************************)
EXTENDS Integers

CONSTANTS Scripts, Orig, MaxText, MaxEdits, MaxSyncs, MaxSlips
MaxClock == 1 + MaxEdits + MaxSyncs

VARIABLES rep,     \* the replicas
          clock, edits, syncs, slips,
          brain    \* dsync: the keys it still has to compare and what became of it, and what it found (opened)
                   \* and who made changes since the last sync (by; a sync that failed may have changed both)
syncVars == <<rep, clock, edits, syncs, slips, brain>>

(***************************************************************************)
(* A replica:                                                              *)
(*   text, mtime   content of each script (0: none) and its change time    *)
(*   kind, link, own, ownMtime   the active script: a link to a script, a  *)
(*             file of its own, or none                                    *)
(*   dirMtime  change time of the storage directory                        *)
(*   log       the attribute log of INBOX: for each key the last entry and *)
(*             whether it is newer than the last sync                      *)
(*   user      dsync's storage object: "new", "open" or "failed"           *)
(*   prev      prev_mtime, the directory's time before dsync changed it    *)
(*   stuck     history: the link, as it is, could not be read or removed   *)
(*             when its script was deleted                                 *)
(* Orig is "dovecot.orig", the name a rescued active file gets.            *)
(***************************************************************************)
Default == "default"
\* The key of the active script ("sieve/default") is not one of a script ("sieve/files/...").
ASSUME SyncAssumption == Orig \in Scripts /\ Default \notin Scripts /\ {MaxText, MaxEdits, MaxSyncs, MaxSlips} \subseteq Nat
Keys    == Scripts \cup {Default}
Side    == {1, 2}
Other(i) == 3 - i
NoEntry == [ts |-> 0, set |-> FALSE, new |-> FALSE]
NewReplica == [text |-> [s \in Scripts |-> 0], mtime |-> [s \in Scripts |-> 0], kind |-> "none", link |-> Default, own |-> 0,
               ownMtime |-> 0, dirMtime |-> 0, log |-> [k \in Keys |-> NoEntry], user |-> "new", prev |-> -1, stuck |-> FALSE]
Logged(r, k, ts, set) == [r EXCEPT !.log[k] = [ts |-> ts, set |-> set, new |-> TRUE]]

(***************************************************************************)
(* The change times of the storage.  A storage object remembers the time   *)
(* the directory had before its first own change.                          *)
(***************************************************************************)
sieve_file_storage_get_last_change(r) == IF r.prev = -1 THEN r.dirMtime ELSE r.prev
sieve_file_storage_pre_modify(r) == [r EXCEPT !.prev = sieve_file_storage_get_last_change(r)]
sieve_file_storage_set_modified(r, ts) ==
  LET m == IF ts = -1 THEN clock ELSE ts
  IN  IF ts # -1 /\ sieve_file_storage_get_last_change(r) > ts THEN sieve_file_storage_pre_modify(r)
      ELSE [r EXCEPT !.dirMtime = m, !.prev = m]
sieve_storage_is_singular(r) == r.kind = "own"
sieve_file_storage_active_script_get_last_change(r) == IF r.kind = "own" THEN r.ownMtime ELSE sieve_file_storage_get_last_change(r)

(***************************************************************************)
(* Changes of a storage, by the user or by dsync.  Each is noted in the    *)
(* log of INBOX; a log that cannot be written (slip) is only warned of.    *)
(***************************************************************************)
sieve_storage_sync_script_save(r, s, slip)   == IF slip THEN r ELSE Logged(r, s, clock, TRUE)
sieve_storage_sync_script_delete(r, s, slip) == IF slip THEN r ELSE Logged(r, s, clock, FALSE)
\* Mutant: the old name is not logged as gone.
RenameLogsNew(r, s, t, slip) == IF slip THEN r ELSE Logged(r, t, clock, TRUE)
sieve_storage_sync_script_rename(r, s, t, slip) == IF slip THEN r ELSE Logged(Logged(r, s, clock, FALSE), t, clock, TRUE)
sieve_storage_sync_script_activate(r, slip)  == IF slip THEN r ELSE Logged(r, Default, clock, TRUE)
sieve_storage_sync_deactivate(r, slip)       == IF slip THEN r ELSE Logged(r, Default, clock, FALSE)

Stored(r, s, c, t) == [sieve_file_storage_pre_modify(r) EXCEPT !.text[s] = c, !.mtime[s] = t, !.dirMtime = clock]
sieve_file_storage_active_rescue_regular(r) == IF r.kind = "own" THEN Stored(r, Orig, r.own, clock) ELSE r
StorageActivate(r, s, ts, slip) ==
  LET a == [sieve_file_storage_active_rescue_regular(sieve_file_storage_pre_modify(r)) EXCEPT !.kind = "link", !.link = s,
             !.own = 0, !.ownMtime = 0, !.stuck = FALSE]
  IN  sieve_storage_sync_script_activate(sieve_file_storage_set_modified(a, ts), slip)
StorageDeactivate(r, ts, slip) ==
  LET d == [sieve_file_storage_active_rescue_regular(sieve_file_storage_pre_modify(r)) EXCEPT !.kind = "none", !.link = Default,
             !.own = 0, !.ownMtime = 0, !.stuck = FALSE]
  IN  sieve_storage_sync_deactivate(sieve_file_storage_set_modified(d, ts), slip)
\* sieve_file_script_delete alone; also the mutant that deletes a script though it is active.
DeleteOnly(r, s, slip) == sieve_storage_sync_script_delete(Stored(r, s, 0, 0), s, slip)
StorageDelete(r, s, slip) ==
  LET d == IF r.kind = "link" /\ r.link = s THEN StorageDeactivate(r, -1, slip) ELSE r
  IN  sieve_storage_sync_script_delete(Stored(d, s, 0, 0), s, slip)
\* The link to the script that is deleted cannot be read, so the script does not count as active, or it cannot be removed,
\* which is ignored: the script goes, the link stays.
DeleteStuck(r, s) == [DeleteOnly(r, s, FALSE) EXCEPT !.stuck = TRUE]
\* What sieve_script_delete may leave of a replica, and return, when a call fails.
StorageDeleteFails(r, s) ==
  {[r |-> sieve_file_storage_pre_modify(r), ret |-> -1]}
    \cup (IF r.kind = "link" /\ r.link = s
          THEN {[r |-> DeleteStuck(r, s), ret |-> 0], [r |-> StorageDeactivate(r, -1, FALSE), ret |-> -1]} ELSE {})

\* mail_sieve_user_deinit: the storage object goes with the user.
Closed(r) == [r EXCEPT !.user = "new", !.prev = -1]
Edit(i, r, slip) ==
  /\ edits < MaxEdits /\ ~brain.on /\ (slip => slips < MaxSlips)
  /\ rep' = [rep EXCEPT ![i] = Closed(r)] /\ edits' = edits + 1 /\ slips' = slips + (IF slip THEN 1 ELSE 0)
  /\ clock' = clock + 1 /\ UNCHANGED syncs
  /\ brain' = [brain EXCEPT !.state = "edited", !.by = IF brain.state = "done" THEN {i} ELSE @ \cup {i}]
Save(i, s, c, slip) == Edit(i, sieve_storage_sync_script_save(Stored(rep[i], s, c, clock), s, slip), slip)
Delete(i, s, slip) ==
  /\ rep[i].text[s] # 0 /\ (rep[i].kind = "link" => rep[i].link # s)
  /\ Edit(i, StorageDelete(rep[i], s, slip), slip)
\* DELETESCRIPT of the active script, whose link cannot be read.
DeleteUnread(i, s) ==
  /\ rep[i].text[s] # 0 /\ rep[i].kind = "link" /\ rep[i].link = s
  /\ Edit(i, DeleteStuck(rep[i], s), TRUE)
Rename(i, s, t, slip) ==
  /\ rep[i].text[s] # 0 /\ rep[i].text[t] = 0
  /\ Edit(i, sieve_storage_sync_script_rename([rep[i] EXCEPT !.text[t] = rep[i].text[s], !.text[s] = 0, !.mtime[t] = rep[i].mtime[s],
                !.mtime[s] = 0, !.dirMtime = clock, !.link = IF @ = s THEN t ELSE @], s, t, slip), slip)
Activate(i, s, slip) == rep[i].text[s] # 0 /\ Edit(i, StorageActivate(rep[i], s, -1, slip), slip)
Deactivate(i, slip)  == rep[i].kind # "none" /\ Edit(i, StorageDeactivate(rep[i], -1, slip), slip)
\* The user puts an active script of their own in place of the link.
OwnScript(i, c) == Edit(i, [rep[i] EXCEPT !.kind = "own", !.link = Default, !.own = c, !.ownMtime = clock,
                                     !.stuck = FALSE], FALSE)

(***************************************************************************)
(* dsync's storage object.  how: the storage can be made ("ok"), Sieve is   *)
(* disabled for the user ("off"), or it cannot be made.                    *)
(***************************************************************************)
mail_sieve_user_init(r, how) ==
  CASE r.user = "open"   -> [r |-> r, ret |-> 1]
    [] r.user = "failed" -> [r |-> r, ret |-> 0]
    [] OTHER -> IF how = "ok" THEN [r |-> [r EXCEPT !.user = "open"], ret |-> 1]
                ELSE [r |-> [r EXCEPT !.user = "failed"], ret |-> IF how = "off" THEN 0 ELSE -1]

(***************************************************************************)
(* Attributes: ret, type ("L" link, "S" script, "-" none), val, last.      *)
(***************************************************************************)
Value(ret, type, val, last) == [ret |-> ret, type |-> type, val |-> val, last |-> last]
sieve_attribute_get_active_script(r) ==
  IF sieve_storage_is_singular(r) THEN Value(1, "S", r.own, r.ownMtime)
  ELSE Value(0, "-", 0, sieve_file_storage_active_script_get_last_change(r))
sieve_attribute_get_default(r) ==
  IF r.kind = "link" THEN Value(1, "L", r.link, sieve_file_storage_active_script_get_last_change(r))
  ELSE sieve_attribute_get_active_script(r)
sieve_attribute_get_sieve(r, k) ==
  CASE k = Default -> sieve_attribute_get_default(r)
    [] k # Default /\ r.text[k] # 0 -> Value(1, "S", r.text[k], r.mtime[k])
    [] OTHER -> Value(0, "-", 0, 0)
sieve_attribute_get(r, k) == IF r.user = "failed" THEN Value(0, "-", 0, 0) ELSE sieve_attribute_get_sieve(r, k)
\* The keys an iteration gives: the scripts, and the active one when there is one.
sieve_attribute_iter(r) ==
  IF r.user = "failed" THEN {} ELSE {s \in Scripts : r.text[s] # 0} \cup (IF r.kind # "none" THEN {Default} ELSE {})

sieve_attribute_unset_script(r, s) == IF r.text[s] = 0 THEN r ELSE StorageDelete(r, s, FALSE)
sieve_attribute_set_active(r, s, ts) ==
  [r |-> sieve_file_storage_set_modified(IF r.text[s] # 0 THEN StorageActivate(r, s, ts, FALSE) ELSE r, ts),
   ret |-> IF r.text[s] # 0 THEN 0 ELSE -1]
sieve_attribute_unset_active_script(r, ts) == IF sieve_storage_is_singular(r) THEN r ELSE StorageDeactivate(r, ts, FALSE)
sieve_attribute_set_active_script(r, v, ts) ==
  IF v.ret = 0 THEN sieve_attribute_unset_active_script(r, ts)
  ELSE sieve_file_storage_set_modified([r EXCEPT !.kind = "own", !.own = v.val, !.ownMtime = ts, !.link = Default,
                                            !.stuck = FALSE], ts)
sieve_attribute_set_default(r, v, ts) ==
  IF v.type = "L" THEN sieve_attribute_set_active(r, v.val, ts) ELSE [r |-> sieve_attribute_set_active_script(r, v, ts), ret |-> 0]
sieve_attribute_set_sieve(r, k, v, ts) ==
  CASE k = Default -> sieve_attribute_set_default(r, v, ts)
    [] k # Default /\ v.ret = 0 -> [r |-> sieve_attribute_unset_script(r, k), ret |-> 0]
    [] OTHER -> [r |-> sieve_storage_sync_script_save(Stored(r, k, v.val, ts), k, FALSE), ret |-> 0]
SetLogged(s, k, v, ts) == IF s.ret < 0 THEN s ELSE [r |-> Logged(s.r, k, ts, v.ret # 0), ret |-> 0]
sieve_attribute_set(r, k, v, ts) ==
  IF r.user = "failed" THEN [r |-> r, ret |-> -1] ELSE SetLogged(sieve_attribute_set_sieve(r, k, v, ts), k, v, ts)

\* The same when a call of the storage fails: what it may leave, and return.  An own file that was rescued stays in its
\* place too; a rename(2) that fails in sieve_file_storage_save_to is not reported.
sieve_attribute_set_fails(r, k, v, ts) ==
  LET m == sieve_file_storage_pre_modify(r)
  IN  CASE r.user = "failed" -> {[r |-> r, ret |-> -1]}
        [] r.user # "failed" /\ k = Default /\ v.type = "L" ->
             {[r |-> sieve_file_storage_set_modified(q, ts), ret |-> -1] : q \in {m, sieve_file_storage_active_rescue_regular(m)}}
        [] r.user # "failed" /\ k = Default /\ v.type # "L" /\ v.ret # 0 ->
             {[r |-> r, ret |-> -1], [r |-> sieve_file_storage_set_modified(r, ts), ret |-> 0]}
        [] r.user # "failed" /\ k # Default /\ v.ret = 0 /\ r.text[k] # 0 -> StorageDeleteFails(r, k)
        [] OTHER -> {[r |-> m, ret |-> -1]}

(***************************************************************************)
(* dsync (external): it collects the keys, compares each on both sides and *)
(* sets the value of the one on the other; a failure ends it.              *)
(***************************************************************************)
SyncStart(how) ==
  /\ ~brain.on /\ syncs < MaxSyncs /\ (how # "ok" => slips < MaxSlips)
  /\ LET u == [i \in Side |-> mail_sieve_user_init(rep[i], IF i = 1 THEN "ok" ELSE how)]
     IN  /\ rep' = [i \in Side |-> u[i].r]
         /\ brain' = [on |-> TRUE, opened |-> rep, by |-> IF brain.state = "done" THEN {} ELSE brain.by,
                      todo |-> UNION {sieve_attribute_iter(u[i].r) \cup {k \in Keys : u[i].r.log[k].new} : i \in Side},
                      state |-> IF \E i \in Side : u[i].ret < 0 THEN "failed" ELSE "busy"]
  /\ syncs' = syncs + 1 /\ slips' = slips + (IF how = "ok" THEN 0 ELSE 1) /\ UNCHANGED <<clock, edits>>
\* When a value is missing its log entry says since when.
Since(r, k, v) == IF v.ret = 0 /\ r.log[k].ts > v.last /\ ~r.log[k].set THEN r.log[k].ts ELSE v.last
\* What dsync knows of a key, from the log as it was at the start, and which side it takes the key from.
LoggedNew(i, k) == brain.opened[i].log[k].new
Newer(k, v) ==
  LET new(i)  == LoggedNew(i, k)
      know(i) == v[i].ret # 0 \/ new(i)
  IN  CASE know(1) # know(2) -> IF know(1) THEN 1 ELSE 2
        [] know(1) = know(2) /\ new(1) # new(2) -> IF new(1) THEN 1 ELSE 2
        [] OTHER -> IF Since(rep[1], k, v[1]) >= Since(rep[2], k, v[2]) THEN 1 ELSE 2
SameValue(v) == v[1].ret = v[2].ret /\ v[1].type = v[2].type /\ v[1].val = v[2].val
SyncKey(k) ==
  /\ brain.on /\ brain.state = "busy" /\ k \in brain.todo
  /\ LET v == [i \in Side |-> sieve_attribute_get(rep[i], k)]
         from == Newer(k, v)
         same == SameValue(v)
         set == sieve_attribute_set(rep[Other(from)], k, v[from], Since(rep[from], k, v[from]))
     IN  /\ rep' = IF same THEN rep ELSE [rep EXCEPT ![Other(from)] = set.r]
         /\ brain' = [brain EXCEPT !.todo = @ \ {k}, !.state = IF ~same /\ set.ret < 0 THEN "failed" ELSE @]
  /\ UNCHANGED <<clock, edits, syncs, slips>>
\* A call of a storage fails: a value cannot be read, or not be set.
SyncKeyFails(k) ==
  /\ brain.on /\ brain.state = "busy" /\ k \in brain.todo /\ slips < MaxSlips
  /\ LET v == [i \in Side |-> sieve_attribute_get(rep[i], k)]
         from == Newer(k, v)
         ts == Since(rep[from], k, v[from])
         fails == {o \in sieve_attribute_set_fails(rep[Other(from)], k, v[from], ts) : ~SameValue(v)}
     IN  \E o \in {[r |-> rep[Other(from)], ret |-> -1]} \cup fails :
           /\ rep' = [rep EXCEPT ![Other(from)] = SetLogged(o, k, v[from], ts).r]
           /\ brain' = [brain EXCEPT !.todo = @ \ {k}, !.state = IF o.ret < 0 THEN "failed" ELSE @]
  /\ slips' = slips + 1 /\ UNCHANGED <<clock, edits, syncs>>
SyncEnd ==
  /\ brain.on /\ (brain.todo = {} \/ brain.state = "failed")
  /\ rep' = [i \in Side |-> IF brain.state = "failed" THEN Closed(rep[i])
                            ELSE [Closed(rep[i]) EXCEPT !.log = [k \in Keys |-> [@[k] EXCEPT !.new = FALSE]]]]
  /\ brain' = [brain EXCEPT !.on = FALSE, !.todo = {}, !.state = IF brain.state = "failed" THEN "failed" ELSE "done",
                            !.by = IF brain.state = "failed" THEN Side ELSE @]
  /\ clock' = clock + 1 /\ UNCHANGED <<edits, syncs, slips>>
SyncInit ==
  /\ rep = [i \in Side |-> NewReplica] /\ clock = 1 /\ edits = 0 /\ syncs = 0 /\ slips = 0
  /\ brain = [on |-> FALSE, opened |-> [i \in Side |-> NewReplica], by |-> {}, todo |-> {}, state |-> "edited"]
SyncOver == ~brain.on /\ edits = MaxEdits /\ syncs = MaxSyncs
SyncNext ==
  \/ \E i \in Side, slip \in BOOLEAN :
       \/ \E s \in Scripts : \/ \E c \in 1..MaxText : Save(i, s, c, slip)
                             \/ Delete(i, s, slip) \/ Activate(i, s, slip) \/ (slip /\ DeleteUnread(i, s))
                             \/ \E t \in Scripts : Rename(i, s, t, slip)
       \/ Deactivate(i, slip)
  \/ \E i \in Side, c \in 1..MaxText : OwnScript(i, c)
  \/ \E how \in {"ok", "off", "error"} : SyncStart(how)
  \/ \E k \in Keys : SyncKey(k) \/ SyncKeyFails(k)
  \/ SyncEnd
  \/ SyncOver /\ UNCHANGED syncVars
SyncSpec == SyncInit /\ [][SyncNext]_syncVars

(***************************************************************************)
(* Properties.                                                             *)
(***************************************************************************)
\* The types of the replicas and of dsync.
SyncTypeOK ==
  /\ clock \in 1..MaxClock /\ brain.todo \subseteq Keys
  /\ \A i \in Side :
       /\ rep[i].text \in [Scripts -> 0..MaxText] /\ rep[i].kind \in {"none", "link", "own"} /\ rep[i].link \in Keys
       /\ rep[i].dirMtime \in 0..MaxClock /\ rep[i].prev \in -1..MaxClock /\ rep[i].user \in {"new", "open", "failed"}
       /\ \A k \in Keys : rep[i].log[k].ts \in 0..MaxClock

\* A sync that ended without a failure leaves the same scripts on both sides, whatever each side stored, renamed and deleted
\* since the last one.  A rescued file ("dovecot.orig") is not logged and may have to wait for the next sync.
ScriptsAgree == brain.state = "done" /\ slips = 0 => \A s \in Scripts \ {Orig} : rep[1].text[s] = rep[2].text[s]
\* And the same active script, except that a file of the user's own is not taken away by a deactivation on the other side.
OwnKept == \E i \in Side : rep[i].kind = "own" /\ rep[Other(i)].kind = "none"
ActiveAgrees == brain.state = "done" /\ slips = 0 /\ ~OwnKept => rep[1].kind = rep[2].kind /\ rep[1].link = rep[2].link
\* When only one side was changed since the last sync, and that one did not fail, that side keeps what it had: nothing
\* deleted, renamed or deactivated there comes back from the other one (a file of the user's own, whose change is not
\* logged, aside).
EditsSurvive ==
  brain.state = "done" /\ slips = 0 =>
    \A i \in Side : brain.by \subseteq {i} =>
      LET o == brain.opened[i]
      IN  /\ \A s \in Scripts \ {Orig} : rep[i].text[s] = o.text[s]
          /\ (\A j \in Side : brain.opened[j].kind # "own") => rep[i].kind = o.kind /\ rep[i].link = o.link
\* The active link points to a script that is there, though dsync deletes scripts that are active, unless that link
\* could not be read or removed when its script was deleted.
LinkIsGood == \A i \in Side : rep[i].kind = "link" /\ ~rep[i].stuck => rep[i].text[rep[i].link] # 0
\* Refuted: sieve_script_delete takes a link it cannot read for one to another script, and ignores that it cannot
\* remove the link ("Deactivate it explicity"): the link to the deleted script stays.
LinkNeverDangles == \A i \in Side : rep[i].kind = "link" => rep[i].text[rep[i].link] # 0
\* What dsync sets never makes a replica look older than it was when dsync opened it.
TimeAdvances == brain.on => \A i \in Side : rep[i].dirMtime >= brain.opened[i].dirMtime
\* A script of the user's own that a link replaces is still there as "dovecot.orig".
OwnIsRescued == \A i \in Side : rep[i].kind = "own" /\ rep'[i].kind # "own" => rep'[i].text[Orig] = rep[i].own

\* doveadm-sieve-sync.c with dsync: as long as no call failed, the replicas are alike after a sync, and a change of one
\* side only has won.
ReplicasAgree == SyncTypeOK /\ ScriptsAgree /\ ActiveAgrees /\ EditsSurvive /\ TimeAdvances

\* No step of an edit or of a sync, whichever call of a storage fails in it, leaves an active link that leads nowhere,
\* unless that link could not be read or removed while its script was deleted; none loses a file of the user's own.
ActiveIsSafe == [][LinkIsGood' /\ OwnIsRescued]_syncVars
===============================================================================
