----------------------------- MODULE ScriptAccess -----------------------------
(***************************************************************************)
(* The script API on a personal storage and the default storage behind it: *)
(* the two storage objects, their reference counts, the errors they carry  *)
(* to the caller, and what a script handle may do to either.               *)
(* Source: sieve-storage.c, sieve-script.c; what the file driver does on   *)
(* disk is ScriptStorage's subject and is here one step that may fail.     *)
(***************************************************************************)
EXTENDS Integers, FiniteSets

CONSTANTS Names,         \* valid script names
          Bad,           \* a name that is not valid
          MaxFaults,     \* calls of the driver that fail
          MaxOps,        \* operations of a session
          MaxOthers      \* changes by other processes

VARIABLES g,             \* storage objects and disk, see below
          handle,        \* the script the session has open: on, name
          save,          \* the script it is storing: name, active (sctx->active_scriptname)
          list,          \* the list it is reading
          last,          \* its last operation: op, on, ret, code (of the object that failed)
          ops, faults, others
accVars == <<g, handle, save, list, last, ops, faults, others>>

None == "none"
(***************************************************************************)
(*   refs      refcount of the personal storage "main" and of "def", which *)
(*             exists while it is referenced and refers to "main"          *)
(*   err       error_code of each                                          *)
(*   files, active   the scripts on disk and the active one                *)
(*   defname   script_name of the default storage, None when no default    *)
(*             is configured;  defthere: its script exists                 *)
(*   sync      SIEVE_STORAGE_FLAG_SYNCHRONIZING                            *)
(*   fail      driver calls that fail in this operation                    *)
(*   lost      list contexts nobody frees       panic   an assertion fails *)
(*   dead      the process died in the middle of an operation              *)
(*   over      the session has ended                                       *)
(***************************************************************************)
Points == {"open.main", "open.def", "stream", "default", "readlink", "opendir", "save", "rename",
           "unlink", "link", "deactivate", "die"}
NoHandle == [on |-> None, name |-> None]
NoSave   == [name |-> None, active |-> None]
NoList   == [on |-> FALSE, left |-> {}, active |-> None, def |-> FALSE, told |-> {}, marked |-> {},
             seenActive |-> FALSE, seenDefault |-> FALSE, quiet |-> TRUE, end |-> FALSE]
OpenPoint(o) == IF o = "main" THEN "open.main" ELSE "open.def"
R(h, ret) == [g |-> h, ret |-> ret]
Require(h, what, cond) == IF cond \/ h.panic # None THEN h ELSE [h EXCEPT !.panic = what]
Linked(h) == h.refs["def"] > 0
sieve_storage_set_error(h, o, code)  == [h EXCEPT !.err[o] = code]
sieve_storage_clear_error(h, o)      == [h EXCEPT !.err[o] = None]
sieve_storage_copy_error(h, to, from) == [h EXCEPT !.err[to] = h.err[from]]
sieve_storage_ref(h, o) == [h EXCEPT !.refs[o] = @ + 1]
\* Mutant: the default storage keeps its reference to the personal one.
UnrefOne(h, o) == [Require(h, "unref", h.refs[o] > 0) EXCEPT !.refs[o] = @ - 1]
sieve_storage_unref(h, o) ==
  LET Free(k) == IF o = "def" /\ k.refs[o] = 0 THEN [k EXCEPT !.refs["main"] = @ - 1, !.err["def"] = None] ELSE k
  IN  Free([Require(h, "unref", h.refs[o] > 0) EXCEPT !.refs[o] = @ - 1])
sieve_storage_create_default_for(h) ==
  CASE Linked(h) -> R(sieve_storage_ref(h, "def"), 0)
    [] ~Linked(h) /\ "default" \in h.fail -> R(sieve_storage_set_error(h, "main", "temp"), -1)
    [] ~Linked(h) /\ "default" \notin h.fail /\ h.defname = None ->
         R(sieve_storage_set_error(h, "main", "notfound"), -1)
    [] OTHER -> R(sieve_storage_ref(sieve_storage_ref(h, "def"), "main"), 0)

(***************************************************************************)
(* Scripts.  A handle holds a reference to its storage.  error_code_r of a *)
(* call that failed is given as code.                                      *)
(***************************************************************************)
sieve_script_open(h, o, name) ==
  LET h1 == sieve_storage_clear_error(h, o) IN
  CASE OpenPoint(o) \in h.fail -> R(sieve_storage_set_error(h1, o, "temp"), -1)
    [] OpenPoint(o) \notin h.fail /\ (IF o = "main" THEN name \in h.files ELSE h.defthere) -> R(h1, 0)
    [] OTHER -> R(sieve_storage_set_error(h1, o, "notfound"), -1)
sieve_storage_get_script_direct(h, o, name) ==
  IF name = Bad THEN R(sieve_storage_set_error(h, o, "badparams"), -1)
  ELSE R(sieve_storage_ref(h, o), 0)
Failed(h, code) == [g |-> h, ret |-> -1, code |-> code, on |-> None]
Opened(h, o)    == [g |-> h, ret |-> 0, code |-> None, on |-> o]
\* The default script, when the one that was asked for has its name and is not there.
sieve_storage_get_default_script(h, name, code) ==
  IF code # "notfound" \/ h.sync THEN Failed(h, code)
  ELSE LET Get(d) == IF d.ret < 0 THEN Failed(d.g, d.g.err["main"])
                     ELSE IF h.defname # name
                     THEN Failed(sieve_storage_unref(sieve_storage_set_error(d.g, "main", "notfound"), "def"), "notfound")
                     ELSE Opened(sieve_storage_unref(sieve_storage_get_script_direct(d.g, "def", name).g, "def"), "def")
       IN  Get(sieve_storage_create_default_for(h))
sieve_storage_open_script(h, name) ==
  LET Default(p) == IF p.ret = 0 THEN Opened(p.g, "def") ELSE Failed(sieve_storage_unref(p.g, "def"), p.g.err["def"])
      Instead(d) == IF d.ret < 0 THEN d ELSE Default(sieve_script_open(d.g, "def", name))
      Personal(o) == IF o.ret = 0 THEN Opened(o.g, "main")
                     ELSE Instead(sieve_storage_get_default_script(sieve_storage_unref(o.g, "main"), name, o.g.err["main"]))
      Open(s) == IF s.ret < 0 THEN Failed(s.g, s.g.err["main"]) ELSE Personal(sieve_script_open(s.g, "main", name))
  IN  Open(sieve_storage_get_script_direct(sieve_storage_clear_error(h, "main"), "main", name))
\* 1, 0 (not found) or -1: a script of the default storage, of the personal one, of either.
Presence(s, o) == IF s.ret = 0 THEN 1 ELSE IF s.g.err[o] = "notfound" THEN 0 ELSE -1
sieve_storage_check_script_def(h) ==
  LET Check(s) == R(sieve_storage_unref(s.g, "def"), Presence(s, "def"))
  IN  Check(sieve_script_open(sieve_storage_ref(sieve_storage_clear_error(h, "def"), "def"), "def", h.defname))
sieve_storage_check_script_direct(h, name) ==
  LET Check(s) == R(s.g, Presence(s, "main"))
  IN  Check(sieve_script_open(h, "main", name))
sieve_storage_check_script(h, name) ==
  LET Check(s) == IF s.ret < 0 THEN R(s.g, IF s.code = "notfound" THEN 0 ELSE -1)
                  ELSE R(sieve_storage_unref(s.g, s.on), 1)
  IN  Check(sieve_storage_open_script(h, name))

(***************************************************************************)
(* The active script.                                                      *)
(***************************************************************************)
\* ret as the code's, name, and def: it is the default script's.
sieve_storage_active_script_do_get_name(h) ==
  LET Named(k, ret, name, def) == [g |-> k, ret |-> ret, name |-> name, def |-> def]
      Checked(c) == Named(sieve_storage_unref(
                            IF c.ret >= 0 THEN c.g
                            ELSE Require(sieve_storage_copy_error(c.g, "main", "def"), "getname", c.g.err["def"] # None), "def"),
                          c.ret, h.defname, c.ret = 1)
      Default(d) == IF d.ret < 0 THEN Named(d.g, -1, None, FALSE) ELSE Checked(sieve_storage_check_script_def(d.g))
  IN  IF "readlink" \in h.fail THEN Named(sieve_storage_set_error(h, "main", "temp"), -1, h.active, FALSE)
      ELSE IF h.active # None \/ h.sync THEN Named(h, IF h.active = None THEN 0 ELSE 1, h.active, FALSE)
      ELSE Default(sieve_storage_create_default_for(h))
sieve_storage_active_script_is_default(h) ==
  LET Is(n) == R(n.g, IF n.ret < 0 THEN -1 ELSE IF n.def THEN 1 ELSE 0)
  IN  Is(sieve_storage_active_script_do_get_name(h))
sieve_script_is_active(h, o, name) ==
  LET Default(d) == IF d.ret >= 0 THEN d
                    ELSE R(Require(sieve_storage_copy_error(d.g, "def", "main"), "isactive", d.g.err["main"] # None), -1)
      Is(k) == IF o = "def" THEN Default(sieve_storage_active_script_is_default(k))
               ELSE IF "readlink" \in h.fail THEN R(sieve_storage_set_error(k, "main", "temp"), -1)
               ELSE R(k, IF h.active = name THEN 1 ELSE 0)
  IN  Is(sieve_storage_clear_error(h, o))
sieve_storage_deactivate(h) ==
  LET h1 == sieve_storage_clear_error(h, "main") IN
  IF "deactivate" \in h.fail THEN R(sieve_storage_set_error(h1, "main", "temp"), -1)
  ELSE R([h1 EXCEPT !.active = None], 0)
sieve_script_activate(h, o, name) ==
  LET h1 == sieve_storage_clear_error(h, o)
      Default(d) == IF d.ret < 0 THEN R(sieve_storage_copy_error(d.g, "def", "main"), -1) ELSE d
  IN  IF o # "main" THEN Default(sieve_storage_deactivate(h1))
      ELSE IF "link" \in h.fail THEN R(sieve_storage_set_error(h1, "main", "temp"), -1)
      ELSE R([h1 EXCEPT !.active = name], 0)
\* The active script, or the default one when there is none.
sieve_storage_active_script_open(h) ==
  LET h1 == sieve_storage_clear_error(h, "main")
      Default(p) == IF p.ret = 0 THEN Opened(sieve_storage_unref(p.g, "def"), "def")
                    ELSE Failed(sieve_storage_unref(sieve_storage_unref(sieve_storage_copy_error(p.g, "main", "def"), "def"), "def"),
                                p.g.err["def"])
      Instead(d) == IF d.ret < 0 THEN Failed(d.g, d.g.err["main"])
                    ELSE Default(sieve_script_open(sieve_storage_ref(d.g, "def"), "def", h.defname))
      Open(a) == IF a.ret = 0 THEN Opened(sieve_storage_ref(a.g, "main"), "main")
                 ELSE IF a.g.err["main"] # "notfound" \/ h.sync THEN Failed(a.g, a.g.err["main"])
                 ELSE Instead(sieve_storage_create_default_for(a.g))
  IN  Open(IF "readlink" \in h.fail THEN R(sieve_storage_set_error(h1, "main", "temp"), -1)
           ELSE IF h.active = None THEN R(sieve_storage_set_error(h1, "main", "notfound"), -1)
           ELSE sieve_script_open(h1, "main", h.active))

(***************************************************************************)
(* Changing scripts.                                                       *)
(***************************************************************************)
sieve_script_delete(h, o, name, ignore) ==
  LET IsActive(k) == R(IF o = "def" THEN sieve_storage_copy_error(k, "main", "def") ELSE k, -1)
      Unlink(k) == IF "unlink" \in h.fail THEN R(sieve_storage_set_error(k, "main", "temp"), -1)
                   ELSE IF name \notin k.files THEN R(sieve_storage_set_error(k, "main", "notfound"), -1)
                   ELSE R([k EXCEPT !.files = @ \ {name}], 0)
      Delete(a) == IF a.ret > 0 /\ ~ignore THEN IsActive(sieve_storage_set_error(a.g, o, "active"))
                   ELSE IF o = "def" THEN R(a.g, 0)
                   ELSE Unlink(IF a.ret > 0 THEN sieve_storage_deactivate(a.g).g ELSE a.g)
  IN  Delete(sieve_script_is_active(sieve_storage_clear_error(h, o), o, name))
sieve_storage_save_as(h, name) ==
  LET h1 == sieve_storage_clear_error(h, "main") IN
  IF "save" \in h.fail THEN R(sieve_storage_set_error(h1, "main", "temp"), -1)
  ELSE R([h1 EXCEPT !.files = @ \cup {name}], 0)
\* Open and activate what was stored; without success it is removed again.
ActivateStored(h, name) ==
  LET Closed(k, o, ret) == R(sieve_storage_unref(k, o), ret)
      Activated(a, o) == IF a.ret < 0 THEN Closed(sieve_script_delete(a.g, o, name, TRUE).g, o, -1) ELSE Closed(a.g, o, 0)
      Put(s) == IF s.ret < 0 THEN R(s.g, IF s.code = "notfound" THEN 0 ELSE -1)
                      ELSE Activated(sieve_script_activate(s.g, s.on, name), s.on)
  IN  IF "die" \in h.fail THEN R([h EXCEPT !.dead = TRUE], -1) ELSE Put(sieve_storage_open_script(h, name))
\* The copy of the default script is in place: it is made the active one if that was.
ActivateCopy(a, new) ==
  LET Copied(b) == IF b.ret < 0 THEN R(sieve_storage_copy_error(b.g, "main", "def"), -1) ELSE b
  IN  IF a.ret <= 0 THEN R(a.g, 0) ELSE Copied(ActivateStored(a.g, new))
sieve_script_copy_from_default(h, name, new) ==
  LET Saved(s) == IF s.ret < 0 THEN R(sieve_storage_copy_error(s.g, "def", "main"), -1)
                  ELSE ActivateCopy(sieve_script_is_active(s.g, "def", name), new)
  IN  IF "stream" \in h.fail THEN R(sieve_storage_copy_error(sieve_storage_set_error(h, "def", "temp"), "main", "def"), -1)
      ELSE Saved(sieve_storage_save_as(h, new))
RenameDefault(c, name, new) ==
  IF c.ret > 0 THEN R(sieve_storage_copy_error(sieve_storage_set_error(c.g, "def", "exists"), "main", "def"), -1)
  ELSE sieve_script_copy_from_default(c.g, name, new)
RenamePersonal(h, name, new) ==
  IF "rename" \in h.fail THEN R(sieve_storage_set_error(h, "main", "temp"), -1)
  ELSE IF name \notin h.files THEN R(sieve_storage_set_error(h, "main", "notfound"), -1)
  ELSE IF new \in h.files THEN R(sieve_storage_set_error(h, "main", "exists"), -1)
  ELSE R([h EXCEPT !.files = (@ \ {name}) \cup {new}, !.active = IF @ = name THEN new ELSE @], 0)
sieve_script_rename(h, o, name, new) ==
  LET h1 == sieve_storage_clear_error(h, o)
      Renamed(r) == IF r.ret < 0 THEN R(Require(r.g, "rename", r.g.err[o] # None), -1) ELSE r
  IN  IF new = Bad THEN R(sieve_storage_set_error(h1, o, "badparams"), -1)
      ELSE Renamed(IF o = "main" THEN RenamePersonal(h1, name, new)
                   ELSE RenameDefault(sieve_storage_check_script(h1, new), name, new))

(***************************************************************************)
(* Storing a script.  The name of the active script is asked for once and  *)
(* kept in the save context.                                               *)
(***************************************************************************)
sieve_storage_save_will_activate(h, sc) ==
  LET Named(n) == [g |-> n.g, sc |-> IF n.ret > 0 THEN [sc EXCEPT !.active = n.name] ELSE sc]
      h1 == sieve_storage_clear_error(h, "main")
  IN  IF sc.active # None THEN [g |-> h1, sc |-> sc] ELSE Named(sieve_storage_active_script_do_get_name(h1))
sieve_storage_save_is_activating_default(h, sc) ==
  LET Absent(c) == R(sieve_storage_unref(c.g, "def"), IF c.ret = 0 THEN 1 ELSE IF c.ret > 0 THEN 0 ELSE -1)
      Default(d) == IF d.ret < 0 THEN R(d.g, IF d.g.err["main"] = "notfound" THEN 0 ELSE -1)
                    ELSE IF h.defname # sc.name THEN R(sieve_storage_unref(d.g, "def"), 0)
                    ELSE Absent(sieve_storage_check_script_direct(d.g, sc.name))
      Will(w) == IF w.sc.active # sc.name THEN R(w.g, 0) ELSE Default(sieve_storage_create_default_for(w.g))
  IN  IF h.sync THEN R(h, 0) ELSE Will(sieve_storage_save_will_activate(h, sc))
\* Mutant: the script that replaces the default one is not activated.
CommitOnly(h, sc) == sieve_storage_save_as(h, sc.name)
sieve_storage_save_commit(h, sc) ==
  LET Saved(s, replaces) == IF s.ret < 0 \/ ~replaces THEN s ELSE ActivateStored(s.g, sc.name)
      Save(d) == IF d.ret < 0 THEN d ELSE Saved(sieve_storage_save_as(d.g, sc.name), d.ret > 0)
  IN  Save(sieve_storage_save_is_activating_default(sieve_storage_clear_error(h, "main"), sc))

(***************************************************************************)
(* Listing.  The driver reads the active link when the list is begun; the  *)
(* default script comes last, unless a personal one has its name.          *)
(***************************************************************************)
sieve_storage_list_init(h) ==
  LET h1 == sieve_storage_clear_error(h, "main")
      l  == [NoList EXCEPT !.on = TRUE, !.left = h.files, !.active = h.active]
      Default(d) == IF d.ret < 0 /\ d.g.err["main"] # "notfound" THEN [g |-> [d.g EXCEPT !.lost = @ + 1], ret |-> -1, l |-> NoList]
                    ELSE [g |-> d.g, ret |-> 0, l |-> [l EXCEPT !.def = d.ret >= 0]]
  IN  IF {"opendir", "readlink"} \cap h.fail # {} THEN [g |-> sieve_storage_set_error(h1, "main", "temp"), ret |-> -1, l |-> NoList]
      ELSE IF h.sync THEN [g |-> sieve_storage_ref(h1, "main"), ret |-> 0, l |-> l]
      ELSE Default(sieve_storage_create_default_for(sieve_storage_ref(h1, "main")))
\* n: the entry readdir() gives, None at the end.
sieve_storage_list_next(h, l, n) ==
  LET h1     == sieve_storage_clear_error(h, "main")
      active == n # None /\ l.active = n
      h2     == Require(h1, "list", ~active \/ ~l.seenActive)
      Listed(name, asDef, mark) ==
        [l EXCEPT !.left = @ \ {n}, !.active = IF active THEN None ELSE @, !.end = n = None /\ ~asDef,
                  !.told = IF name = None THEN @ ELSE @ \cup {name}, !.marked = IF mark THEN @ \cup {name} ELSE @,
                  !.seenActive = @ \/ mark, !.seenDefault = @ \/ asDef \/ (l.def /\ n = h.defname)]
      Default(c) == [g |-> c.g, l |-> IF c.ret > 0 THEN Listed(h.defname, TRUE, ~l.seenActive) ELSE Listed(None, FALSE, FALSE)]
  IN  IF n = None /\ l.def /\ ~l.seenDefault THEN Default(sieve_storage_check_script_def(h2))
      ELSE [g |-> h2, l |-> Listed(n, FALSE, active)]
sieve_storage_list_deinit(h, l) ==
  sieve_storage_unref(IF l.def THEN sieve_storage_unref(h, "def") ELSE h, "main")

(***************************************************************************)
(* A session.  Each operation takes the failures of the driver it meets;   *)
(* a process that died or ended gives back its references.                 *)
(***************************************************************************)
AccessInit ==
  /\ \E f \in SUBSET Names, d \in Names \cup {None}, sy \in BOOLEAN, th \in BOOLEAN :
       \E a \in f \cup {None} :
         g = [refs |-> [main |-> 1, def |-> 0], err |-> [main |-> None, def |-> None], files |-> f, active |-> a,
              defname |-> d, defthere |-> th /\ d # None, sync |-> sy, fail |-> {}, lost |-> 0, panic |-> None,
              dead |-> FALSE, over |-> FALSE]
  /\ handle = NoHandle /\ save = NoSave /\ list = NoList
  /\ last = [op |-> None, on |-> None, ret |-> 0, code |-> None]
  /\ ops = 0 /\ faults = 0 /\ others = 0
Live == ~g.over /\ ~g.dead /\ g.panic = None
Reply(op, on, ret, code) == last' = [op |-> op, on |-> on, ret |-> ret, code |-> code]
\* The calls of the driver that an operation makes.
Lookup    == {"readlink", "open.def", "default"}
CallsOf(op) ==
  CASE op \in {"open", "check"} -> {"open.main", "open.def", "default"}
    [] op \in {"openactive", "getname"} -> Lookup \cup {"open.main"}
    [] op = "rename" -> Points \ {"opendir", "unlink", "deactivate"}
    [] op = "delete" -> Lookup \cup {"unlink"}
    [] op = "activate" -> {"link", "deactivate"}
    [] op = "deactivate" -> {"deactivate"}
    [] op = "will" -> Lookup
    [] op = "commit" -> Points \ {"opendir", "rename", "unlink", "deactivate", "stream"}
    [] OTHER -> {"opendir", "readlink", "default"}
\* One operation of the session, with at most one failure of the driver.
Call(op, f) == /\ Live /\ ~list.on /\ ops < MaxOps /\ f \subseteq CallsOf(op) /\ (f = {} \/ faults < MaxFaults)
               /\ ops' = ops + 1 /\ faults' = faults + Cardinality(f) /\ UNCHANGED others
With(f) == [g EXCEPT !.fail = f]
Open(f, op, name, s) ==
  /\ Call(op, f) /\ handle = NoHandle
  /\ g' = s.g /\ handle' = IF s.ret < 0 THEN NoHandle ELSE [on |-> s.on, name |-> name]
  /\ Reply(op, s.on, s.ret, s.code)
  /\ UNCHANGED <<save, list>>
OpenScript(f, name) == Open(f, "open", name, sieve_storage_open_script(With(f), name))
OpenActive(f) == \E s \in {sieve_storage_active_script_open(With(f))} :
                   Open(f, "openactive", IF s.on = "main" THEN g.active ELSE g.defname, s)
Query(f, op, r) ==
  /\ Call(op, f) /\ g' = r.g /\ Reply(op, None, r.ret, r.g.err["main"])
  /\ UNCHANGED <<handle, save, list>>
CheckScript(f, name) == Query(f, "check", sieve_storage_check_script(With(f), name))
GetName(f)           == Query(f, "getname", sieve_storage_active_script_do_get_name(With(f)))
Manage(f, op, r) ==
  /\ Call(op, f) /\ handle # NoHandle
  /\ g' = r.g /\ Reply(op, handle.on, r.ret, r.g.err[handle.on])
  /\ UNCHANGED <<save, list>>
Rename(f, new) ==
  /\ handle # NoHandle
  /\ \E r \in {sieve_script_rename(With(f), handle.on, handle.name, new)} :
       /\ Manage(f, "rename", r)
       /\ handle' = IF r.ret >= 0 /\ handle.on = "main" THEN [handle EXCEPT !.name = new] ELSE handle
Delete(f)   == Manage(f, "delete", sieve_script_delete(With(f), handle.on, handle.name, FALSE)) /\ UNCHANGED handle
Activate(f) == Manage(f, "activate", sieve_script_activate(With(f), handle.on, handle.name)) /\ UNCHANGED handle
Deactivate(f) == Query(f, "deactivate", sieve_storage_deactivate(With(f)))
SaveScript(name) ==
  /\ Call("save", {}) /\ save = NoSave
  /\ save' = [NoSave EXCEPT !.name = name] /\ g' = sieve_storage_clear_error(g, "main")
  /\ Reply("save", None, 0, None) /\ UNCHANGED <<handle, list>>
WillActivate(f) ==
  /\ Call("will", f) /\ save # NoSave
  /\ \E w \in {sieve_storage_save_will_activate(With(f), save)} : g' = w.g /\ save' = w.sc
  /\ Reply("will", None, 0, None) /\ UNCHANGED <<handle, list>>
Commit(f) ==
  /\ Call("commit", f) /\ save # NoSave /\ save' = NoSave
  /\ \E c \in {sieve_storage_save_commit(With(f), save)} : g' = c.g /\ Reply("commit", None, c.ret, c.g.err["main"])
  /\ UNCHANGED <<handle, list>>
ListInit(f) ==
  /\ Call("list", f) /\ list = NoList
  /\ \E l \in {sieve_storage_list_init(With(f))} : g' = l.g /\ list' = l.l /\ Reply("list", None, l.ret, l.g.err["main"])
  /\ UNCHANGED <<handle, save>>
ListNext ==
  /\ Live /\ list.on /\ ~list.end
  /\ \E n \in list.left \cup {None} :
       /\ (n = None) <=> (list.left = {})
       /\ \E l \in {sieve_storage_list_next([g EXCEPT !.fail = {}], list, n)} : g' = l.g /\ list' = l.l
  /\ UNCHANGED <<handle, save, last, ops, faults, others>>
ListDeinit ==
  /\ Live /\ list.on /\ g' = sieve_storage_list_deinit(g, list) /\ list' = NoList
  /\ UNCHANGED <<handle, save, last, ops, faults, others>>
CloseScript ==
  /\ Live /\ handle # NoHandle /\ g' = sieve_storage_unref(g, handle.on) /\ handle' = NoHandle
  /\ UNCHANGED <<save, list, last, ops, faults, others>>
EndSession ==
  /\ Live /\ handle = NoHandle /\ save = NoSave /\ ~list.on
  /\ g' = [sieve_storage_unref(g, "main") EXCEPT !.over = TRUE]
  /\ UNCHANGED <<handle, save, list, last, ops, faults, others>>
\* Another process stores, removes or activates a script; an administrator places or removes the default one.
OtherProcess ==
  /\ Live /\ others < MaxOthers /\ others' = others + 1
  /\ \E n \in Names : \/ g' = [g EXCEPT !.files = @ \cup {n}]
                      \/ n \in g.files /\ g.active # n /\ g' = [g EXCEPT !.files = @ \ {n}]
                      \/ n \in g.files /\ g' = [g EXCEPT !.active = n]
                      \/ g.defname = n /\ g' = [g EXCEPT !.defthere = ~@]
                      \/ g.active = n /\ g' = [g EXCEPT !.active = None]
  /\ list' = [list EXCEPT !.quiet = ~list.on]
  /\ UNCHANGED <<handle, save, last, ops, faults>>
Finished == ~Live \/ (ops = MaxOps /\ ~list.on /\ handle = NoHandle)
AccessNext ==
  \/ \E f \in {{}} \cup {{p} : p \in Points} :
       \/ \E n \in Names \cup {Bad} : OpenScript(f, n) \/ CheckScript(f, n) \/ Rename(f, n)
       \/ OpenActive(f) \/ GetName(f) \/ Delete(f) \/ Activate(f) \/ Deactivate(f)
       \/ WillActivate(f) \/ Commit(f) \/ ListInit(f)
  \/ \E n \in Names : SaveScript(n)
  \/ ListNext \/ ListDeinit \/ CloseScript \/ EndSession \/ OtherProcess
  \/ Finished /\ UNCHANGED accVars

(***************************************************************************)
(* Properties.                                                             *)
(***************************************************************************)
\* The types of the storage objects, the handle and the list.
AccessTypeOK ==
  /\ g.refs \in [{"main", "def"} -> 0..4 + MaxFaults] /\ g.files \subseteq Names /\ g.active \in Names \cup {None}
  /\ g.err \in [{"main", "def"} -> {None, "temp", "notfound", "badparams", "exists", "active"}]
  /\ handle.on \in {None, "main", "def"} /\ handle.name \in Names \cup {None}
  /\ list.told \subseteq Names /\ list.marked \subseteq list.told /\ last.ret \in -1..1

B(x) == IF x THEN 1 ELSE 0
\* Every reference of a storage object belongs to somebody who gives it back: the session, its script, its list and
\* the default storage that refers to the personal one.  A list that could not be begun because the default storage
\* cannot be made is the exception: nobody has it (sieve_storage_list_init).
RefsAreHeld ==
  g.dead \/ g.panic # None \/
    /\ g.refs["def"] = B(handle.on = "def") + B(list.def)
    /\ g.refs["main"] = B(~g.over) + B(handle.on = "main") + B(g.refs["def"] > 0) + B(list.on) + g.lost

\* No assertion of the API fails: an operation that fails has set an error on its storage, and a reference is never
\* given back twice.  The exception: an active default script is renamed and the copy cannot be activated; the error
\* is then copied the wrong way (sieve_script_copy_from_default) and the assertion of sieve_script_rename fails.
AccessNoPanic == g.panic = None \/ (g.panic = "rename" /\ last.op = "rename" /\ last.on = "def" /\ faults > 0)

\* What the caller is told went wrong: the error of the personal storage, where ManageSieve looks, is the error of
\* the operation that failed.  Three paths of the code fall short: opening a default script that fails leaves the
\* error on the default storage; a new name for a default script that is not valid does too; and a script that is
\* removed again because it could not be activated takes the error with it.
Told == g.err["main"] = last.code /\ last.code # None
TellsWhy ==
  last.ret < 0 /\ ~g.dead /\ g.panic = None /\ list = NoList /\ last.op # None =>
    \/ Told
    \/ last.op = "open" /\ g.defname # None /\ (~g.defthere \/ "open.def" \in g.fail)
    \/ last.op = "rename" /\ last.on = "def" /\ last.code = "badparams"
    \/ last.op = "commit" /\ "link" \in g.fail

\* The script that delivery runs: the active one, or the default one.
Effective == IF g.active \in g.files THEN <<"main", g.active>>
             ELSE IF ~g.sync /\ g.defthere THEN <<"def", g.defname>> ELSE <<None, None>>
\* An operation that fails, or a process that dies in it, leaves the script that delivery runs as it was (an active
\* link whose script another process removed aside: storing the script again brings it back).
FailureKeepsActive ==
  [][ops' # ops /\ (last'.ret < 0 \/ g'.dead) /\ g.active \in g.files \cup {None} => Effective' = Effective]_accVars

\* A personal script stored under the name of the default script that is in force comes into force itself, unless
\* which script is active cannot be found out, or was asked before another process changed it (the save context
\* keeps the name).
ReplacesDefault ==
  [][ops' # ops /\ last'.op = "commit" /\ last'.ret >= 0 /\ Effective = <<"def", save.name>> /\ g.active = None
        /\ save.active \in {None, save.name} /\ save.name \notin g.files /\ {"readlink", "default", "open.main", "open.def"} \cap g'.fail = {}
     => Effective' = <<"main", save.name>>]_accVars

\* The script in force is not deleted, unless the active link cannot be read at that moment.
DeleteSparesActive ==
  [][ops' # ops /\ last'.op = "delete" /\ "readlink" \notin g'.fail => Effective' = Effective]_accVars

\* A list that nothing disturbed names the script in force, and only that one, as active.  It does not when a
\* personal script hides the default one that is in force.
ListMarksActive ==
  list.end /\ list.quiet /\ g.panic = None =>
    /\ Cardinality(list.marked) <= 1
    /\ \/ list.marked = IF Effective[2] = None THEN {} ELSE {Effective[2]}
       \/ Effective[1] = "def" /\ g.defname \in g.files /\ list.marked = {}
       \/ g.active # None /\ g.active \notin g.files

\* sieve-storage.c, sieve-script.c: on every path, also those on which an operation fails half way, references are
\* given back once, the caller finds out why, and no assertion fails.
ApiSound == AccessTypeOK /\ RefsAreHeld /\ AccessNoPanic /\ TellsWhy

\* Which script delivery runs changes by an operation that succeeds and is meant to change it, and lists tell it.
ActiveScriptKept == FailureKeepsActive /\ ReplacesDefault /\ DeleteSparesActive /\ []ListMarksActive
===============================================================================
