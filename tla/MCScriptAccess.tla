---------------------------- MODULE MCScriptAccess ----------------------------
(***************************************************************************)
(* A session on a personal storage, or a search through the configured     *)
(* storages: one of the two in a behaviour.                                *)
(***************************************************************************)
EXTENDS ScriptAccess, ScriptSequence

C(driver, type, path, active) ==
  [driver |-> driver, type |-> type, cause |-> {}, path |-> path, active |-> active, named |-> 0, bin |-> TRUE,
   dot |-> "file", homesieve |-> "absent", chroot |-> "absent", enabled |-> TRUE]
Pool == {C("file", "personal", p, a) : p \in {"unset", "absent", "dir", "denied"}, a \in {"unset", "file", "link"}}
        \cup {C("file", "personal", "file", "noname"), C("unset", "personal", "absent", "file"), C("file", "personal", "unset", "denied"), C("dict", "personal", "dir", "unset"),
              C("unset", "default", "dir", "unset"), C("unknown", "default", "dir", "unset"),
              C("file", "default", "file", "unset"), C("file", "default", "absent", "unset"), C("file", "default", "unset", "file"),
              C("file", "default", "denied", "unset"), C("file", "personal", "homeless", "unset"),
              [C("file", "default", "dir", "unset") EXCEPT !.cause = {"other"}, !.named = 1],
              [C("file", "before", "dir", "unset") EXCEPT !.bin = FALSE]}
Seqs == {C("file", "before", "dir", "unset"), [C("file", "before", "dir", "unset") EXCEPT !.named = 2], C("file", "before", "file", "unset"),
         [C("dict", "before", "dir", "unset") EXCEPT !.cause = {"delivery", "other"}], C("file", "before", "denied", "unset"),
         C("file", "before", "homeless", "unset")}
MCConfs == {<<>>} \cup {<<c>> : c \in Pool} \cup {<<c, d>> : c \in Pool, d \in {e \in Pool : e.active = "unset" /\ (e.type = "personal" => e.path = "dir" /\ e.driver = "file")}}
           \cup {<<c, d>> : c \in Seqs, d \in Seqs}
MCAutos == {C("file", "personal", "unset", "unset"),
            [C("file", "personal", "unset", "file") EXCEPT !.bin = FALSE, !.homesieve = "dir"],
            [C("file", "personal", "unset", "link") EXCEPT !.dot = "absent"],
            [C("file", "personal", "unset", "unset") EXCEPT !.dot = "absent"],
            [C("file", "personal", "unset", "unset") EXCEPT !.homesieve = "file", !.chroot = "dir"],
            [C("file", "personal", "unset", "unset") EXCEPT !.enabled = FALSE]}

Sym == Permutations(Names)
AccessOff == /\ g = [refs |-> [main |-> 0, def |-> 0], err |-> [main |-> None, def |-> None], files |-> {}, active |-> None,
                     defname |-> None, defthere |-> FALSE, sync |-> FALSE, fail |-> {}, lost |-> 0, panic |-> None,
                     dead |-> FALSE, over |-> TRUE]
             /\ handle = NoHandle /\ save = NoSave /\ list = NoList
             /\ last = [op |-> None, on |-> None, ret |-> 0, code |-> None] /\ ops = 0 /\ faults = 0 /\ others = 0
SeqOff == /\ conf = <<>> /\ auto = C("file", "personal", "unset", "unset") /\ home = TRUE /\ dir = <<>> /\ dict = 0
          /\ made = NoMade /\ seq = NoSeq /\ text = [id |-> 0, data |-> 0, meta |-> 0]
          /\ steps = MaxSteps /\ changes = MaxChanges /\ halt = FALSE
Plain == C("file", "personal", "unset", "unset")
Init == \/ AccessInit /\ SeqOff
        \/ /\ SeqInit /\ AccessOff
           /\ auto # Plain => Len(conf) <= 1 /\ \A i \in DOMAIN conf : conf[i].type # "before" /\ dir[i] = {}
           /\ \A i \in DOMAIN conf : dir[i] \in {{}, {1}, {2}, {1, 2}, {1, 2, 3}}
           /\ \A i \in DOMAIN conf : Cardinality(dir[i]) > (IF conf[i].type = "before" THEN 2 ELSE 1) => i = 2
Next == \/ ~g.over /\ AccessNext /\ UNCHANGED seqVars
        \/ g.over /\ SeqNext /\ UNCHANGED accVars
Spec == Init /\ [][Next]_<<accVars, seqVars>>
===============================================================================
