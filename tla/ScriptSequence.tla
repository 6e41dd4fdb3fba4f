---------------------------- MODULE ScriptSequence ----------------------------
(***************************************************************************)
(* From the settings to a script: which of the configured storages is made *)
(* for a type and a cause, what the file driver finds at its paths, the    *)
(* search of a named script through the storages, and the sequence of the  *)
(* scripts that are run before or after the personal one.                  *)
(* Source: sieve-storage.c, sieve-storage-settings.c, sieve-script.c,      *)
(* storage/file/sieve-file-storage.c, sieve-file-script*.c, storage/dict.  *)
(***************************************************************************)
EXTENDS Integers, Sequences, FiniteSets, SequencesExt

CONSTANTS Confs,       \* configurations: sequences of storages, by precedence
          Autos,       \* the global settings that autodetection uses
          Files,       \* script files 1..n of a directory, in the order of their names
          MaxSteps,    \* operations of a behaviour
          MaxChanges   \* changes of the disk

VARIABLES conf, auto, home,   \* settings; is there a home directory
          dir,                \* the files in each storage's directory
          dict,               \* id of the dict script's data, 0 when there is none
          made,               \* the last storage or script that was made
          seq,                \* a script sequence
          text,               \* a script read from the dict
          steps, changes, halt
seqVars == <<conf, auto, home, dir, dict, made, seq, text, steps, changes, halt>>

None2 == "none"
(***************************************************************************)
(* A storage's settings: driver, type, cause (a set, empty when not set),  *)
(* path and active (what is found there, or "unset"), named (script_name   *)
(* is set), bin (the directory for binaries can be named).                 *)
(*   path    unset  absent  dir  file  denied  homeless                    *)
(*   active  unset  absent  file  link  denied  homeless  noname           *)
(* A storage: kind (of path), act (which file is the active script),       *)
(* idx (its place in the configuration, 0 when it was detected).           *)
(***************************************************************************)
NoStorage == [kind |-> None2, act |-> None2, idx |-> 0]
Got(ret, code, st) == [ret |-> ret, code |-> code, st |-> st, halt |-> FALSE]
Fails(code) == Got(-1, code, NoStorage)
Absent      == Got(0, None2, NoStorage)

sieve_storage_settings_match_script_type(c, type) == type \in {"any", c.type}
sieve_storage_settings_match_script_cause(c, cause) ==
  \/ cause = "any"
  \/ c.cause = {} /\ (c.type = "personal" \/ cause = "delivery")
  \/ cause \in c.cause
\* What a path that starts with ~ is without a home directory.
sieve_storage_get_full_path(kind, tilde) == IF tilde /\ ~home THEN "homeless" ELSE kind
sieve_storage_alloc_from_class(c, fl) == IF c.driver # "file" /\ fl # {} THEN Fails("temp") ELSE Got(0, None2, NoStorage)
sieve_storage_alloc_with_settings(c, fl) ==
  LET Alloc(a) == IF a.ret < 0 THEN a ELSE IF ~c.bin THEN Fails(None2) ELSE a
  IN  Alloc(sieve_storage_alloc_from_class(c, fl))

(***************************************************************************)
(* The file driver.                                                        *)
(***************************************************************************)
sieve_file_storage_stat(kind) ==
  CASE kind \in {"absent", "unset"} -> "notfound" [] kind = "denied" -> "noperm" [] OTHER -> None2
\* tmp/ below path: it is looked for, swept now and then, and made.
check_tmp(path) == CASE path = "dir" -> 1 [] path = "absent" -> 0 [] OTHER -> -1
mkdir_verify(path) == IF path \in {"dir", "absent"} THEN 0 ELSE -1
\* path: the storage path or "unset"; act, a: which active script and what is there.
sieve_file_storage_init_common(path, act, a, exists, rw) ==
  LET tmp == check_tmp(path) IN
  CASE a \in {"homeless", "noname"} -> Fails("temp")
    [] a \notin {"homeless", "noname"} /\ rw /\ (path = "unset" \/ tmp < 0 \/ (tmp = 0 /\ mkdir_verify(path) < 0)) -> Fails("temp")
    [] a \notin {"homeless", "noname"} /\ rw /\ path \in {"dir", "absent"} -> Got(1, None2, [kind |-> "dir", act |-> act, idx |-> 0])
    [] OTHER ->
         LET what == IF path = "unset" THEN a ELSE path
             code == IF exists THEN None2 ELSE sieve_file_storage_stat(what)
         IN  IF code # None2 THEN Fails(code)
             ELSE Got(1, None2, [kind |-> IF path = "dir" THEN "dir" ELSE "file", act |-> act, idx |-> 0])
\* The active script's path, the default one (~/.dovecot.sieve) when it is not set.
ActiveOf(c)  == IF c.active = "unset" THEN sieve_storage_get_full_path(c.dot, TRUE) ELSE sieve_storage_get_full_path(c.active, FALSE)
ActiveIs(c)  == IF c.active = "unset" THEN "default" ELSE "active"
sieve_file_storage_init_from_settings(c, rw) ==
  LET code     == sieve_file_storage_stat(c.path)
      personal == c.type = "personal"
      usual    == c.active = "unset" /\ (personal \/ rw)
      act      == IF c.active = "unset" /\ ~usual THEN None2 ELSE ActiveIs(c)
      a        == IF usual THEN ActiveOf(c) ELSE c.active
  IN
  CASE c.path = "homeless" -> Fails("temp")
    [] c.path = "unset" -> sieve_file_storage_init_common("unset", act, a, FALSE, rw)
    [] c.path \in {"absent", "denied"} /\ (~personal \/ code # "notfound") -> Fails(code)
    [] c.path = "absent" /\ personal /\ rw -> sieve_file_storage_init_common("absent", act, a, FALSE, rw)
    [] c.path = "absent" /\ personal /\ ~rw ->
         IF c.active = "unset" THEN Fails("notfound")
         ELSE IF c.active = "homeless" THEN Fails("temp")
         ELSE IF sieve_file_storage_stat(c.active) # None2 THEN Fails(sieve_file_storage_stat(c.active))
         ELSE IF c.active # "file" THEN Fails("notfound")
         ELSE sieve_file_storage_init_common("unset", act, a, FALSE, rw)
    [] c.path = "file" ->
         IF rw THEN Fails("temp") ELSE sieve_file_storage_init_common("unset", "path", "file", TRUE, rw)
    [] OTHER -> sieve_file_storage_init_common("dir", act, a, TRUE, rw)
\* ~/sieve, /sieve or the active script alone.  The error a missing directory left behind is still set when the
\* active script was found next, and the script is then taken for missing too.
AutodetectPath(c) == IF c.path # "unset" THEN c.path ELSE IF home THEN c.homesieve
                     ELSE IF c.chroot = "dir" THEN "dir" ELSE "unset"
\* There is no directory: a is what is found where the active script should be.
DetectActive(c, rw, p, a, dflt) ==
  IF a = "homeless" THEN Fails("temp")
  ELSE IF sieve_file_storage_stat(a) = "notfound" THEN Absent
  ELSE IF sieve_file_storage_stat(a) # None2 THEN Fails(sieve_file_storage_stat(a))
  ELSE IF p = "unset" THEN sieve_file_storage_init_common("unset", ActiveIs(c), a, TRUE, rw)
  ELSE sieve_file_storage_init_common("file", "default", dflt, FALSE, rw)
\* p: the path, a: the active script's, dflt: the default one's.
DetectAt(c, rw, p, a, dflt) ==
  IF p = "homeless" THEN Fails("temp")
  ELSE IF p # "unset" /\ sieve_file_storage_stat(p) \notin {None2, "notfound"} THEN Fails(sieve_file_storage_stat(p))
  ELSE IF p = "absent" /\ rw THEN sieve_file_storage_init_common(p, "default", dflt, FALSE, rw)
  ELSE IF p = "dir" THEN sieve_file_storage_init_common("dir", ActiveIs(c), a, TRUE, rw)
  ELSE IF p = "file" /\ rw THEN sieve_file_storage_init_common("file", "default", dflt, FALSE, rw)
  ELSE IF p = "file" THEN sieve_file_storage_init_common("unset", "path", "file", TRUE, rw)
  ELSE DetectActive(c, rw, p, a, dflt)
sieve_file_storage_do_autodetect(c, rw) ==
  LET Detect(p, m) == IF p = "unset" /\ rw THEN Fails("temp") ELSE IF m.ret < 0 THEN m
                      ELSE DetectAt(c, rw, p, ActiveOf(c), sieve_storage_get_full_path(c.dot, TRUE))
  IN  Detect(AutodetectPath(c), sieve_storage_alloc_with_settings(c, IF rw THEN {"rw"} ELSE {}))
sieve_file_storage_autodetect(c, rw) ==
  IF sieve_storage_settings_match_script_type(c, "personal") THEN sieve_file_storage_do_autodetect(c, rw) ELSE Absent
sieve_dict_storage_init(c) == IF c.path = "denied" THEN Fails("temp") ELSE Got(1, None2, [kind |-> "dict", act |-> None2, idx |-> 0])

(***************************************************************************)
(* Making a storage: 1, 0 (it is not meant, or not there) or -1.           *)
(***************************************************************************)
Halted(r) == [r EXCEPT !.halt = TRUE]
sieve_storage_autodetect(c, type, cause, fl) ==
  IF ~sieve_storage_settings_match_script_cause(c, cause) \/ ~sieve_storage_settings_match_script_type(c, type) THEN Absent
  ELSE IF c.driver \notin {"unset", "file"} THEN Absent
  ELSE LET Detected(r) == IF r.ret < 0 /\ r.code = None2 THEN Halted(r)
                          ELSE IF r.ret < 0 /\ r.code = "notfound" THEN Absent ELSE r
       IN  Detected(sieve_file_storage_autodetect([c EXCEPT !.driver = "file"], "rw" \in fl))
sieve_storage_alloc_from_settings(c, cause, fl) ==
  IF ~sieve_storage_settings_match_script_cause(c, cause) THEN Absent
  ELSE IF c.driver = "unknown" THEN Halted(Fails("notfound"))
  ELSE LET Alloc(a) == IF a.ret < 0 THEN a ELSE Got(1, None2, NoStorage) IN Alloc(sieve_storage_alloc_with_settings(c, fl))
FoundOr(d) == IF d.ret # 0 THEN d ELSE Fails("notfound")
sieve_storage_init(c, type, cause, fl) ==
  LET Start(a) == IF a.ret <= 0 THEN a
                  ELSE IF c.driver = "dict" THEN sieve_dict_storage_init(c)
                  ELSE sieve_file_storage_init_from_settings(c, "rw" \in fl)
  IN  IF ~sieve_storage_settings_match_script_type(c, type) THEN Absent
      ELSE IF c.driver = "unset" THEN FoundOr(sieve_storage_autodetect(c, type, cause, fl))
      ELSE Start(sieve_storage_alloc_from_settings(c, cause, fl))
At(r, i) == IF r.ret > 0 THEN [r EXCEPT !.st.idx = i] ELSE r
Inits(type, cause, fl) == [i \in DOMAIN conf |-> At(sieve_storage_init(conf[i], type, cause, fl), i)]
\* The places where the search through the storages stops: one was made, or one fails for a reason of its own.
Stops(rs) == {i \in DOMAIN rs : rs[i].halt \/ rs[i].ret > 0 \/ (rs[i].ret < 0 /\ rs[i].code # "notfound")}
First(S)  == CHOOSE i \in S : \A j \in S : i <= j
sieve_storage_create(i, cause, fl) ==
  LET Create(r) == IF r.halt \/ r.ret > 0 \/ (r.ret < 0 /\ r.code # "notfound") THEN r ELSE Fails("notfound")
  IN  Create(IF i = 0 THEN Absent ELSE At(sieve_storage_init(conf[i], "any", cause, fl), i))
\* Mutant: the last storage that can be made is taken.
CreateLast(type, cause, fl) ==
  LET rs == Inits(type, cause, fl) stop == Stops(rs)
  IN  IF stop # {} THEN rs[CHOOSE i \in stop : \A j \in stop : i >= j] ELSE Fails("notfound")
sieve_storage_create_auto(type, cause, fl) ==
  LET Create(rs) == IF Stops(rs) # {} THEN rs[First(Stops(rs))] ELSE FoundOr(sieve_storage_autodetect(auto, type, cause, fl))
  IN  Create(Inits(type, cause, fl))
sieve_storage_create_default(cause, fl) == sieve_storage_create_auto("default", cause, fl)
sieve_storage_create_personal(cause, fl) ==
  LET OrDefault(p) == IF p.halt \/ p.ret > 0 \/ p.code = "temp" \/ fl # {} THEN p ELSE sieve_storage_create_default(cause, fl)
  IN  IF ~auto.enabled THEN Fails("notpossible") ELSE OrDefault(sieve_storage_create_auto("personal", cause, fl))

(***************************************************************************)
(* A script of a storage, by name (0: none was given).                     *)
(***************************************************************************)
sieve_file_script_open(st, n) ==
  LET name == IF n = 0 THEN conf[st.idx].named ELSE n IN
  CASE st.kind = "file" -> None2
    [] st.kind = "dir" /\ name = 0 -> "temp"
    [] OTHER -> IF name \in dir[st.idx] THEN None2 ELSE "notfound"
sieve_dict_script_open == IF dict = 0 THEN "notfound" ELSE None2
OpenIn(st, n) == IF st.kind = "dict" THEN sieve_dict_script_open ELSE sieve_file_script_open(st, n)
\* The first storage that has the script.
FirstWith(rs, code) ==
  LET stop == Stops(rs) \ {i \in DOMAIN rs : rs[i].ret > 0 /\ code[i] = "notfound"}
      Create(i) == IF rs[i].ret > 0 /\ code[i] # None2 THEN Fails(code[i]) ELSE rs[i]
  IN  IF stop = {} THEN Fails("notfound") ELSE Create(First(stop))
sieve_script_create_common(type, cause, n, open) ==
  LET Search(rs) == FirstWith(rs, [i \in DOMAIN rs |-> IF rs[i].ret > 0 /\ open THEN OpenIn(rs[i].st, n) ELSE None2])
  IN  Search(Inits(type, cause, {}))
sieve_script_create_open_in(i, cause, n) ==
  LET Create(r) == IF r.ret <= 0 THEN r ELSE IF OpenIn(r.st, n) # None2 THEN Fails(OpenIn(r.st, n)) ELSE r
  IN  Create(sieve_storage_create(i, cause, {}))

(***************************************************************************)
(* The sequence of the scripts of a type.                                  *)
(***************************************************************************)
NoSeq == [on |-> FALSE, type |-> None2, cause |-> None2, next |-> 1, cur |-> NoStorage, files |-> <<>>, pos |-> 1,
          out |-> <<>>, ret |-> 1, code |-> None2, kept |-> <<>>]
sieve_storage_sequence_next(s) ==
  LET Turn(rs, stop) == IF stop = {} THEN [r |-> Absent, next |-> Len(conf) + 1]
                        ELSE [r |-> rs[First(stop)], next |-> First(stop) + 1]
      From(rs) == Turn(rs, {i \in Stops(rs) : i >= s.next})
  IN  From(Inits(s.type, s.cause, {}))
\* The files of a directory, read when the storage's turn comes.
sieve_file_script_sequence_read_dir(i) == SetToSortSeq(dir[i], <)
sieve_file_script_sequence_init(st) ==
  IF st.kind = "dir" THEN IF conf[st.idx].named # 0 THEN <<conf[st.idx].named>> ELSE sieve_file_script_sequence_read_dir(st.idx)
  ELSE <<0>>
sieve_script_sequence_init_storage(s) ==
  LET Begin(n) == [s |-> IF n.r.ret <= 0 THEN [s EXCEPT !.next = n.next]
                         ELSE [s EXCEPT !.next = n.next, !.cur = n.r.st, !.files = sieve_file_script_sequence_init(n.r.st), !.pos = 1],
                   r |-> n.r]
  IN  IF s.cur # NoStorage THEN [s |-> s, r |-> Got(1, None2, s.cur)] ELSE Begin(sieve_storage_sequence_next(s))
\* The position of the next file that is still there.
sieve_file_script_sequence_next(s) ==
  {p \in s.pos..Len(s.files) : /\ OpenIn(s.cur, s.files[p]) = None2
                               /\ \A q \in s.pos..(p - 1) : OpenIn(s.cur, s.files[q]) = "notfound"}
Broken(s) == \E p \in s.pos..Len(s.files) : /\ OpenIn(s.cur, s.files[p]) \notin {None2, "notfound"}
                                            /\ \A q \in s.pos..(p - 1) : OpenIn(s.cur, s.files[q]) = "notfound"
sieve_script_sequence_deinit_storage(s) == [s EXCEPT !.cur = NoStorage, !.files = <<>>]
RECURSIVE sieve_script_sequence_next(_)
sieve_script_sequence_next(s) ==
  LET Give(t, p) == [t EXCEPT !.pos = p + 1, !.out = Append(@, <<t.cur.idx, t.files[p]>>), !.ret = 1]
      Then(t, r) == IF r.ret <= 0 THEN [t EXCEPT !.ret = r.ret, !.code = r.code]
                    ELSE IF sieve_file_script_sequence_next(t) # {}
                    THEN Give(t, CHOOSE q \in sieve_file_script_sequence_next(t) : TRUE)
                    ELSE IF Broken(t) THEN [sieve_script_sequence_deinit_storage(t) EXCEPT !.ret = -1, !.code = "temp"]
                    ELSE sieve_script_sequence_next(sieve_script_sequence_deinit_storage(t))
      Turn(i) == Then(i.s, i.r)
  IN  Turn(sieve_script_sequence_init_storage(s))

(***************************************************************************)
(* Behaviours: one storage or script is asked for, or a sequence is read,  *)
(* while files and the dict change.                                        *)
(***************************************************************************)
Types  == {"personal", "default", "before"}
Causes == {"delivery", "other", "any"}
NoMade == [op |-> None2, type |-> None2, cause |-> None2, fl |-> {}, name |-> 0, r |-> Absent]
SeqInit ==
  /\ conf \in Confs /\ auto \in Autos /\ home \in BOOLEAN
  /\ dict \in IF \E i \in DOMAIN conf : conf[i].driver = "dict" THEN 0..1 ELSE {0}
  /\ dir \in [DOMAIN conf -> SUBSET Files]
  /\ \A i \in DOMAIN conf : conf[i].path # "dir" \/ conf[i].driver # "file" => dir[i] = {}
  /\ made = NoMade /\ seq = NoSeq /\ text = [id |-> 0, data |-> 0, meta |-> 0]
  /\ steps = 0 /\ changes = 0 /\ halt = FALSE
Ask(op, type, cause, fl, n, r) ==
  /\ steps = 0 /\ steps' = MaxSteps
  /\ made' = [op |-> op, type |-> type, cause |-> cause, fl |-> fl, name |-> n, r |-> r] /\ halt' = r.halt
  /\ UNCHANGED <<conf, auto, home, dir, dict, seq, text, changes>>
CreatePersonal(cause, fl) == Ask("personal", "personal", cause, fl, 0, sieve_storage_create_personal(cause, fl))
CreateDefault(cause)      == Ask("default", "default", cause, {}, 0, sieve_storage_create_default(cause, {}))
CreateNamed(i, cause)     == Ask("named", "any", cause, {}, i, sieve_storage_create(i, cause, {}))
FindScript(type, cause, n, open) ==
  Ask(IF open THEN "open" ELSE "find", type, cause, {}, n, sieve_script_create_common(type, cause, n, open))
OpenNamed(i, cause, n)    == Ask("openin", "any", cause, {}, n, sieve_script_create_open_in(i, cause, n))
StartSequence(type, cause) ==
  /\ steps = 0 /\ ~seq.on /\ steps' = 1
  /\ seq' = [NoSeq EXCEPT !.on = TRUE, !.type = type, !.cause = cause, !.kept = dir]
  /\ UNCHANGED <<conf, auto, home, dir, dict, made, text, changes, halt>>
NextScript ==
  /\ seq.on /\ seq.ret > 0 /\ steps < MaxSteps /\ steps' = steps + 1
  /\ seq' = sieve_script_sequence_next(seq)
  /\ halt' = (halt \/ sieve_script_sequence_init_storage(seq).r.halt)
  /\ UNCHANGED <<conf, auto, home, dir, dict, made, text, changes>>
FreeSequence ==
  /\ seq.on /\ (seq.ret <= 0 \/ steps = MaxSteps)
  /\ seq' = [sieve_script_sequence_deinit_storage(seq) EXCEPT !.on = FALSE] /\ steps' = MaxSteps
  /\ UNCHANGED <<conf, auto, home, dir, dict, made, text, changes, halt>>
\* The dict script: its id is read when it is opened, its text by that id, and the id is what the binary keeps.
DictOpen == /\ steps = 0 /\ dict # 0 /\ text.id = 0 /\ text' = [text EXCEPT !.id = dict] /\ steps' = MaxSteps
            /\ UNCHANGED <<conf, auto, home, dir, dict, made, seq, changes, halt>>
sieve_dict_script_get_stream(t) == [t EXCEPT !.data = t.id]
sieve_dict_script_binary_write_metadata(t) == [t EXCEPT !.meta = t.id]
DictRead == /\ text.id # 0 /\ text.data = 0 /\ text' = sieve_dict_script_get_stream(text)
            /\ UNCHANGED <<conf, auto, home, dir, dict, made, seq, steps, changes, halt>>
DictSave == /\ text.data # 0 /\ text.meta = 0 /\ text' = sieve_dict_script_binary_write_metadata(text)
            /\ UNCHANGED <<conf, auto, home, dir, dict, made, seq, steps, changes, halt>>
ChangeDisk ==
  /\ changes < MaxChanges /\ changes' = changes + 1 /\ (seq.on \/ text.id # 0)
  /\ \/ /\ text.id # 0 /\ dict' = dict + 1 /\ UNCHANGED <<dir, seq>>
     \/ /\ seq.on
        /\ \E i \in DOMAIN conf, f \in Files :
             /\ conf[i].path = "dir"
             /\ \/ f \in dir[i] /\ dir' = [dir EXCEPT ![i] = @ \ {f}] /\ seq' = [seq EXCEPT !.kept[i] = @ \ {f}]
                \/ f \notin dir[i] /\ dir' = [dir EXCEPT ![i] = @ \cup {f}] /\ UNCHANGED seq
        /\ UNCHANGED dict
  /\ UNCHANGED <<conf, auto, home, made, text, steps, halt>>
SeqDone == steps = MaxSteps /\ ~seq.on
SeqNext ==
  \/ \E cause \in Causes :
       \/ \E fl \in {{}, {"rw"}, {"sync"}} : CreatePersonal(cause, fl)
       \/ CreateDefault(cause)
       \/ \E i \in 0..Len(conf) : CreateNamed(i, cause) \/ \E n \in Files : OpenNamed(i, cause, n)
       \/ \E type \in Types : StartSequence(type, cause) \/ \E n \in Files, open \in BOOLEAN : FindScript(type, cause, n, open)
  \/ NextScript \/ FreeSequence \/ DictOpen \/ DictRead \/ DictSave \/ ChangeDisk
  \/ SeqDone /\ UNCHANGED seqVars

(***************************************************************************)
(* Properties.                                                             *)
(***************************************************************************)
\* The types of the sequence and of what was made.
SeqTypeOK ==
  /\ made.r.ret \in -1..1 /\ made.r.st.idx \in 0..Len(conf) /\ seq.ret \in -1..1 /\ seq.cur.idx \in 0..Len(conf)
  /\ seq.pos \in 1..Cardinality(Files) + 2 /\ seq.next \in 1..Len(conf) + 1

Meant(c, type, cause) == /\ type \in {"any", c.type}
                         /\ cause = "any" \/ cause \in IF c.cause = {} THEN IF c.type = "personal" THEN {cause} ELSE {"delivery"} ELSE c.cause
\* Something a reader can use is at the storage's path, or its active script alone is there.
There(c) == \/ c.path \in {"dir", "file"}
            \/ c.driver = "dict"
            \/ c.type = "personal" /\ c.path = "absent" /\ c.active = "file"
            \/ c.path = "unset" /\ (c.active \in {"file", "link"} \/ (c.active = "unset" /\ c.type = "personal" /\ home /\ c.dot = "file"))
\* It may not be read, and its driver says so.
NoPerm(c) == c.driver = "file" /\ (c.path = "denied" \/ (c.active = "denied" /\ (c.path = "unset" \/ (c.type = "personal" /\ c.path = "absent"))))
\* It is there, or nobody can tell.
Holds(c) == There(c) \/ NoPerm(c) \/ c.path = "homeless"
Earlier(i, type, cause) == {j \in 1..(i - 1) : conf[j].driver \in {"file", "dict"} /\ Meant(conf[j], type, cause)}
\* The search for a personal storage has stopped at j or before it, for want of permission.  Where a reader asked, the
\* default storage is tried then (sieve_storage_create_personal, which spares temporary failures only).
PassedOver(j) == \E k \in Earlier(j + 1, "personal", made.cause) : NoPerm(conf[k])
\* The storage that a reader is given is of the type and cause asked for, and none with precedence over it is meant and
\* there, or meant and of unknown state.  Only in the place of a personal storage without permission is a default
\* storage taken.
FirstIsTaken ==
  made.op \in {"personal", "default"} /\ made.fl = {} /\ ~halt /\ made.r.st.idx > 0 =>
    LET c == conf[made.r.st.idx] type == IF c.type = "default" THEN "default" ELSE made.type IN
    /\ Meant(c, type, made.cause)
    /\ \A j \in Earlier(made.r.st.idx, type, made.cause) : ~Holds(conf[j])
    /\ made.op = "personal" /\ type = "default" =>
         \A j \in Earlier(Len(conf) + 1, "personal", made.cause) : Holds(conf[j]) => PassedOver(j)
\* When no storage is found, none that is meant is there or of unknown state, and neither is a default one.  Only
\* where a personal storage is without permission does the absence of the default one answer for it.
NotFoundIsAbsent ==
  made.op \in {"personal", "default"} /\ made.fl = {} /\ ~halt /\ made.r.code = "notfound" =>
    \A type \in {made.type, "default"} : \A j \in Earlier(Len(conf) + 1, type, made.cause) :
      Holds(conf[j]) => type = "personal" /\ PassedOver(j)
\* Not so in the code, and in no run: a personal storage without permission is reported as such, and neither taken for
\* absent nor answered by the default script.
NoPermIsReported ==
  made.op = "personal" /\ made.fl = {} /\ ~halt =>
    \A j \in DOMAIN conf : PassedOver(j) /\ (\A k \in Earlier(j, "personal", made.cause) : ~Holds(conf[k])) => made.r.code = "noperm"
\* Write access is given to a directory only, and a detected storage keeps the active script that is configured.
\* It does not when the directory is missing (sieve_file_storage_do_autodetect).
ActiveIsConfigured ==
  made.r.ret > 0 /\ made.r.st.kind # "dict" =>
    LET c == IF made.r.st.idx = 0 THEN auto ELSE conf[made.r.st.idx] IN
    /\ "rw" \in made.fl => made.r.st.kind = "dir"
    /\ \/ made.r.st.act = "path" /\ made.r.st.kind = "file"
       \/ made.r.st.act = IF c.active = "unset" THEN IF c.type = "personal" \/ "rw" \in made.fl THEN "default" ELSE None2 ELSE "active"
       \/ /\ made.r.st.act = "default" /\ (c.driver = "unset" \/ made.r.st.idx = 0)
          /\ c.path = "absent" \/ (c.path = "unset" /\ home /\ c.homesieve = "absent")
\* A script that is found is in the first storage that is meant and has it.
ScriptIsFirst ==
  made.op = "open" /\ made.r.ret > 0 /\ ~halt =>
    LET i == made.r.st.idx IN
    /\ Meant(conf[i], made.type, made.cause) /\ OpenIn(made.r.st, made.name) = None2
    /\ \A j \in Earlier(i, made.type, made.cause) : conf[j].path = "dir" /\ conf[j].driver = "file" => made.name \notin dir[j]
\* The settings lead to no failed assertion, but for a driver that does not exist (its event is released twice) and
\* an autodetected storage whose directory for binaries needs a home directory that is not known.
NoHalt == halt => \/ \E i \in DOMAIN conf : conf[i].driver = "unknown"
                  \/ \E c \in {auto} \cup {conf[i] : i \in DOMAIN conf} : ~c.bin
\* A sequence gives its scripts once, storage after storage by precedence and by file name within one.
InSequence ==
  \A a, b \in DOMAIN seq.out : a < b =>
    \/ seq.out[a][1] < seq.out[b][1]
    \/ seq.out[a][1] = seq.out[b][1] /\ seq.out[a][2] < seq.out[b][2]
\* When it ends without an error it has given every script that was there all the time.
SequenceIsComplete ==
  seq.ret = 0 /\ ~halt =>
    \A i \in DOMAIN conf : conf[i].path = "dir" /\ conf[i].driver = "file" /\ conf[i].bin /\ Meant(conf[i], seq.type, seq.cause) =>
      \A f \in seq.kept[i] : conf[i].named \in {0, f} => <<i, f>> \in Range(seq.out)
\* A binary's metadata names the data its script was read from, whatever was put into the dict meanwhile.
DictIdIsRead == text.meta # 0 => text.meta = text.data

StorageFound  == FirstIsTaken /\ NotFoundIsAbsent /\ ActiveIsConfigured /\ ScriptIsFirst
SequenceGiven == InSequence /\ SequenceIsComplete /\ DictIdIsRead
\* From the settings to a script (sieve-storage.c, sieve-file-storage.c, the script sequences): the storage and the
\* script that have precedence are found; one that cannot be read is not taken for absent, but for a personal storage
\* without permission, in whose place the default one is; and a sequence gives every script once and in order, while
\* files and the dict change.
RightScriptFound == SeqTypeOK /\ NoHalt /\ StorageFound /\ SequenceGiven
===============================================================================
