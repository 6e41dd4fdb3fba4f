--------------------------- MODULE ImapFilterProofs ---------------------------
(***************************************************************************)
(* Theorems about the IMAP plugins (ImapSession, ImapFilter): imapsieve    *)
(* shows a message to each kind of script once, opens a script once, and   *)
(* gives a message up only because a script says so; FILTER is answered    *)
(* once and leaves the session as it was.                                  *)
(***************************************************************************)
EXTENDS ImapFilter, FiniteSetTheorems, TLAPS

-----------------------------------------------------------------------------
(* The scripts of a run *)

ScriptRec == [user : BOOLEAN, bin : BOOLEAN, err : {"none", "invalid", "temp"}, corrupt : BOOLEAN,
              exceeded : BOOLEAN, opens : 0 .. 2, again : BOOLEAN]

(* A script was not opened yet; it was opened, with success or not; or it  *)
(* was opened again, and then either marked as corrupt or without binary.  *)
Opening(s) ==
  \/ s.opens = 0 /\ ~s.again /\ ~s.bin
  \/ s.opens = 1 /\ ~s.again /\ (s.bin \/ s.err # "none")
  \/ s.again /\ ((s.bin /\ s.corrupt) \/ (~s.bin /\ s.err # "none"))

Good(q) == \A j \in 1 .. Len(q) : Opening(q[j])

MultiRec == [scripts : Seq(ScriptRec), status : {"ok", "failure", "temp", "corrupt", "limit"},
             keep : BOOLEAN, err : {"none", "invalid", "temp"}, exceeded : BOOLEAN, ran : BOOLEAN,
             stop : BOOLEAN]

(* A sequence of n scripts under way.  It goes on only after scripts that  *)
(* ended well and kept the message.                                        *)
Multi(m, n) ==
  /\ m \in MultiRec /\ Len(m.scripts) = n /\ Good(m.scripts)
  /\ ~m.stop => m.status = "ok" /\ m.keep /\ m.err = "none"
  /\ m.err # "none" /\ m.status = "ok" => m.keep

LEMMA ScriptAt ==
  ASSUME NEW m \in MultiRec, NEW i \in 1 .. Len(m.scripts)
  PROVE  m.scripts[i] \in ScriptRec
<1>1. m.scripts \in Seq(ScriptRec)
  BY DEF MultiRec
<1>2. QED BY <1>1

(* A script exchanged in a sequence of scripts.                            *)
LEMMA Put ==
  ASSUME NEW m \in MultiRec, NEW i \in 1 .. Len(m.scripts), NEW t \in ScriptRec
  PROVE  /\ [m.scripts EXCEPT ![i] = t] \in Seq(ScriptRec)
         /\ Len([m.scripts EXCEPT ![i] = t]) = Len(m.scripts)
         /\ [m.scripts EXCEPT ![i] = t][i] = t
         /\ \A j \in 1 .. Len(m.scripts) : j # i => [m.scripts EXCEPT ![i] = t][j] = m.scripts[j]
<1> DEFINE q == m.scripts
<1>1. q \in Seq(ScriptRec) /\ i \in 1 .. Len(q)
  BY DEF MultiRec
<1> HIDE DEF q
<1>2. /\ [q EXCEPT ![i] = t] \in Seq(ScriptRec)
      /\ Len([q EXCEPT ![i] = t]) = Len(q)
      /\ [q EXCEPT ![i] = t][i] = t
      /\ \A j \in 1 .. Len(q) : j # i => [q EXCEPT ![i] = t][j] = q[j]
  BY <1>1
<1>3. QED BY <1>2 DEF q

(* What opening the i-th script makes of a sequence.                       *)
LEMMA Opened ==
  ASSUME NEW m \in MultiRec, NEW i \in 1 .. Len(m.scripts), m.scripts[i].opens < 2,
         NEW r \in imap_sieve_run_open_script(m, i)
  PROVE  /\ r \in MultiRec /\ Len(r.scripts) = Len(m.scripts)
         /\ r.status = m.status /\ r.keep = m.keep /\ r.exceeded = m.exceeded
         /\ \A j \in 1 .. Len(m.scripts) : j # i => r.scripts[j] = m.scripts[j]
         /\ r.scripts[i].opens = m.scripts[i].opens + 1 /\ r.scripts[i].again = m.scripts[i].again
         /\ r.scripts[i].corrupt = m.scripts[i].corrupt
         /\ \/ r.err = m.err /\ r.stop = m.stop /\ r.scripts[i].bin
            \/ r.err # "none" /\ r.stop /\ ~r.scripts[i].bin /\ r.scripts[i].err # "none"
<1> DEFINE s == m.scripts[i]
<1>1. s \in ScriptRec
  BY ScriptAt
<1>2. s.opens \in 0 .. 1
  BY <1>1 DEF ScriptRec
<1> DEFINE o == [s EXCEPT !.opens = @ + 1]
<1>6. o = [m.scripts[i] EXCEPT !.opens = @ + 1]
  OBVIOUS
<1> HIDE DEF s
<1>7. o \in ScriptRec /\ o.opens = s.opens + 1 /\ o.again = s.again /\ o.corrupt = s.corrupt
  BY <1>1, <1>2 DEF ScriptRec
<1> HIDE DEF o
<1>3. CASE r = [m EXCEPT !.scripts[i] = [o EXCEPT !.bin = TRUE]]
  <2> DEFINE t == [o EXCEPT !.bin = TRUE]
  <2>1. t \in ScriptRec /\ t.opens = s.opens + 1 /\ t.again = s.again /\ t.corrupt = s.corrupt /\ t.bin
    BY <1>7 DEF ScriptRec
  <2>2. r = [m EXCEPT !.scripts[i] = t]
    BY <1>3
  <2> HIDE DEF t
  <2>3. /\ r.scripts = [m.scripts EXCEPT ![i] = t] /\ r.status = m.status /\ r.keep = m.keep
        /\ r.exceeded = m.exceeded /\ r.err = m.err /\ r.stop = m.stop
    BY <2>2 DEF MultiRec
  <2>4. /\ r.scripts \in Seq(ScriptRec) /\ Len(r.scripts) = Len(m.scripts) /\ r.scripts[i] = t
        /\ \A j \in 1 .. Len(m.scripts) : j # i => r.scripts[j] = m.scripts[j]
    BY <2>1, <2>3, Put
  <2>5. r \in MultiRec
    BY <2>2, <2>3, <2>4 DEF MultiRec
  <2>6. QED BY <2>1, <2>3, <2>4, <2>5 DEF s
<1>4. CASE \E e \in {"invalid", "temp"} :
             r = [m EXCEPT !.err = e, !.stop = TRUE, !.scripts[i] = [o EXCEPT !.err = e, !.bin = FALSE]]
  <2>0. PICK e \in {"invalid", "temp"} :
          r = [m EXCEPT !.err = e, !.stop = TRUE, !.scripts[i] = [o EXCEPT !.err = e, !.bin = FALSE]]
    BY <1>4
  <2> DEFINE t == [o EXCEPT !.err = e, !.bin = FALSE]
  <2>1. /\ t \in ScriptRec /\ t.opens = s.opens + 1 /\ t.again = s.again /\ t.corrupt = s.corrupt
        /\ ~t.bin /\ t.err # "none"
    BY <1>7 DEF ScriptRec
  <2>2. r = [m EXCEPT !.err = e, !.stop = TRUE, !.scripts[i] = t]
    BY <2>0
  <2> HIDE DEF t
  <2>3. /\ r.scripts = [m.scripts EXCEPT ![i] = t] /\ r.status = m.status /\ r.keep = m.keep
        /\ r.exceeded = m.exceeded /\ r.err = e /\ r.stop
    BY <2>2 DEF MultiRec
  <2>4. /\ r.scripts \in Seq(ScriptRec) /\ Len(r.scripts) = Len(m.scripts) /\ r.scripts[i] = t
        /\ \A j \in 1 .. Len(m.scripts) : j # i => r.scripts[j] = m.scripts[j]
    BY <2>1, <2>3, Put
  <2>5. r \in MultiRec
    BY <2>2, <2>3, <2>4 DEF MultiRec
  <2>6. QED BY <2>1, <2>3, <2>4, <2>5 DEF s
<1>5. QED BY <1>3, <1>4, <1>6 DEF imap_sieve_run_open_script

(* A change of the i-th script that leaves it in order.                    *)
LEMMA Exchanged ==
  ASSUME NEW m \in MultiRec, NEW i \in 1 .. Len(m.scripts), NEW t \in ScriptRec
  PROVE  LET r == [m EXCEPT !.scripts[i] = t] IN
         /\ r \in MultiRec /\ Len(r.scripts) = Len(m.scripts) /\ r.scripts[i] = t
         /\ r.status = m.status /\ r.keep = m.keep /\ r.exceeded = m.exceeded /\ r.err = m.err /\ r.stop = m.stop
         /\ \A j \in 1 .. Len(m.scripts) : j # i => r.scripts[j] = m.scripts[j]
<1> DEFINE q == [m.scripts EXCEPT ![i] = t]
<1>1. /\ q \in Seq(ScriptRec) /\ Len(q) = Len(m.scripts) /\ q[i] = t
      /\ \A j \in 1 .. Len(m.scripts) : j # i => q[j] = m.scripts[j]
  BY Put
<1> DEFINE r == [m EXCEPT !.scripts[i] = t]
<1>2. r = [m EXCEPT !.scripts = q]
  OBVIOUS
<1> HIDE DEF q, r
<1>3. r \in MultiRec /\ r.scripts = q
  BY <1>1, <1>2 DEF MultiRec
<1>4. r.status = m.status /\ r.keep = m.keep /\ r.exceeded = m.exceeded /\ r.err = m.err /\ r.stop = m.stop
  BY <1>2 DEF MultiRec
<1>5. QED BY <1>1, <1>3, <1>4 DEF r

LEMMA GoodKept ==
  ASSUME NEW m \in MultiRec, NEW r \in MultiRec, NEW i \in 1 .. Len(m.scripts), Good(m.scripts),
         Len(r.scripts) = Len(m.scripts), Opening(r.scripts[i]),
         \A j \in 1 .. Len(m.scripts) : j # i => r.scripts[j] = m.scripts[j]
  PROVE  Good(r.scripts)
BY DEF Good

LEMMA Ran ==
  ASSUME NEW m, NEW n \in Nat, Multi(m, n), m.err = "none", m.keep, NEW i \in 1 .. n,
         NEW r \in sieve_multiscript_run(m, i)
  PROVE  Multi(r, n) /\ r.scripts = m.scripts /\ r.err = "none" /\ (r.status = "corrupt" => r.stop)
<1>1. CASE \E k \in BOOLEAN : r = [m EXCEPT !.status = "ok", !.keep = k, !.stop = ~k]
  BY <1>1 DEF Multi, MultiRec
<1>2. CASE \E s \in {"failure", "temp", "corrupt", "limit"} : r = [m EXCEPT !.status = s, !.stop = TRUE]
  <2>1. PICK s \in {"failure", "temp", "corrupt", "limit"} : r = [m EXCEPT !.status = s, !.stop = TRUE]
    BY <1>2
  <2>2. r \in MultiRec /\ r.scripts = m.scripts /\ r.err = m.err /\ r.stop /\ r.status = s
    BY <2>1 DEF Multi, MultiRec
  <2>3. QED BY <2>2 DEF Multi
<1>3. QED BY <1>1, <1>2 DEF sieve_multiscript_run

(* A corrupt binary: the script is opened again, once.                     *)
LEMMA OpenedAgain ==
  ASSUME NEW m, NEW n \in Nat, Multi(m, n), m.err = "none", m.status = "corrupt" => m.stop,
         NEW i \in 1 .. n, m.scripts[i].bin, NEW q \in Reopened(m, i)
  PROVE  Multi(q, n) /\ (q.err # "none" => q.stop)
<1>1. m \in MultiRec /\ Len(m.scripts) = n /\ Good(m.scripts) /\ i \in 1 .. Len(m.scripts)
  BY DEF Multi
<1>2. CASE q = m
  BY <1>2
<1>3. CASE q # m
  <2> DEFINE s == m.scripts[i]
  <2> DEFINE t == [s EXCEPT !.bin = FALSE, !.again = TRUE]
  <2> DEFINE p == [m EXCEPT !.scripts[i] = t]
  <2>1. m.status = "corrupt" /\ ~s.corrupt
    BY <1>3 DEF Reopened
  <2>2. PICK r \in imap_sieve_run_open_script(p, i) :
          q = IF r.err # "none" THEN r ELSE [r EXCEPT !.scripts[i].corrupt = TRUE]
    BY <1>3 DEF Reopened
  <2>3. s \in ScriptRec /\ Opening(s) /\ s.bin
    BY <1>1, ScriptAt DEF Good
  <2> HIDE DEF s
  <2>4. s.opens = 1
    BY <2>1, <2>3 DEF Opening, ScriptRec
  <2>5. t \in ScriptRec /\ t.opens = 1 /\ t.again /\ ~t.bin /\ ~t.corrupt
    BY <2>1, <2>3, <2>4 DEF ScriptRec
  <2> HIDE DEF t
  <2>6. /\ p \in MultiRec /\ Len(p.scripts) = n /\ p.scripts[i] = t /\ p.status = m.status /\ p.stop = m.stop
        /\ p.err = m.err /\ p.keep = m.keep
        /\ \A j \in 1 .. Len(m.scripts) : j # i => p.scripts[j] = m.scripts[j]
    BY <1>1, <2>5, Exchanged
  <2> HIDE DEF p
  <2>7. /\ r \in MultiRec /\ Len(r.scripts) = n /\ r.status = "corrupt" /\ r.stop
        /\ \A j \in 1 .. Len(m.scripts) : j # i => r.scripts[j] = m.scripts[j]
        /\ r.scripts[i].again
        /\ \/ r.err = "none" /\ r.scripts[i].bin
           \/ r.err # "none" /\ ~r.scripts[i].bin /\ r.scripts[i].err # "none"
    <3>1. i \in 1 .. Len(p.scripts) /\ p.scripts[i].opens < 2
      BY <2>5, <2>6
    <3>2. /\ r \in MultiRec /\ Len(r.scripts) = Len(p.scripts) /\ r.status = p.status
          /\ \A j \in 1 .. Len(p.scripts) : j # i => r.scripts[j] = p.scripts[j]
          /\ r.scripts[i].again = p.scripts[i].again
          /\ \/ r.err = p.err /\ r.stop = p.stop /\ r.scripts[i].bin
             \/ r.err # "none" /\ r.stop /\ ~r.scripts[i].bin /\ r.scripts[i].err # "none"
      BY <2>2, <2>6, <3>1, Opened
    <3>3. QED BY <1>1, <2>1, <2>5, <2>6, <3>2
  <2>8. CASE r.err # "none"
    <3>1. Opening(r.scripts[i])
      BY <2>7, <2>8 DEF Opening
    <3>2. Good(r.scripts)
      BY <1>1, <2>7, <3>1, GoodKept
    <3>3. q = r
      BY <2>2, <2>8
    <3>4. QED BY <2>7, <3>2, <3>3 DEF Multi
  <2>9. CASE r.err = "none"
    <3> DEFINE v == [r.scripts[i] EXCEPT !.corrupt = TRUE]
    <3>1. r.scripts[i] \in ScriptRec
      BY <1>1, <2>7, ScriptAt
    <3>2. v \in ScriptRec /\ v.corrupt /\ v.bin = r.scripts[i].bin /\ v.again = r.scripts[i].again
      BY <3>1 DEF ScriptRec
    <3> DEFINE w == [r EXCEPT !.scripts[i] = v]
    <3>3. q = w
      BY <2>2, <2>9
    <3> HIDE DEF v
    <3>8. i \in 1 .. Len(r.scripts) /\ r \in MultiRec
      BY <2>7
    <3>9. v \in ScriptRec
      BY <3>2
    <3>4. /\ q \in MultiRec /\ Len(q.scripts) = Len(r.scripts) /\ q.scripts[i] = v /\ q.status = r.status
          /\ q.stop = r.stop /\ q.err = r.err /\ \A j \in 1 .. Len(r.scripts) : j # i => q.scripts[j] = r.scripts[j]
      <4>1. /\ w \in MultiRec /\ Len(w.scripts) = Len(r.scripts) /\ w.scripts[i] = v /\ w.status = r.status
            /\ w.stop = r.stop /\ w.err = r.err /\ \A j \in 1 .. Len(r.scripts) : j # i => w.scripts[j] = r.scripts[j]
        BY ONLY <3>8, <3>9, Exchanged
      <4> HIDE DEF w
      <4>2. QED BY <3>3, <4>1
    <3>5. Opening(q.scripts[i])
      BY <2>7, <2>9, <3>2, <3>4 DEF Opening
    <3>6. Good(q.scripts)
      BY <1>1, <2>7, <3>4, <3>5, GoodKept
    <3>7. QED BY <2>7, <3>4, <3>6 DEF Multi
  <2>10. QED BY <2>8, <2>9
<1>4. QED BY <1>2, <1>3

LEMMA UsageRecorded ==
  ASSUME NEW m, NEW n \in Nat, Multi(m, n), NEW i \in 1 .. n, NEW q \in sieve_record_resource_usage(m, i)
  PROVE  Multi(q, n)
<1>1. m \in MultiRec /\ Len(m.scripts) = n /\ Good(m.scripts) /\ i \in 1 .. Len(m.scripts)
  BY DEF Multi
<1>2. CASE q = m
  BY <1>2
<1>3. CASE q # m
  <2> DEFINE s == m.scripts[i]
  <2> DEFINE t == [s EXCEPT !.exceeded = TRUE]
  <2> DEFINE p == [m EXCEPT !.scripts[i] = t]
  <2> DEFINE x == i < Len(m.scripts) /\ ~m.stop
  <2>1. m.err = "none"
    BY <1>3 DEF sieve_record_resource_usage
  <2>2. q = [p EXCEPT !.exceeded = x, !.stop = TRUE]
    BY <1>3 DEF sieve_record_resource_usage, MultiRec
  <2>3. s \in ScriptRec /\ Opening(s) /\ x \in BOOLEAN
    BY <1>1, ScriptAt DEF Good
  <2> HIDE DEF s, x
  <2>4. t \in ScriptRec /\ Opening(t)
    BY <2>3 DEF ScriptRec, Opening
  <2> HIDE DEF t
  <2>5. /\ p \in MultiRec /\ Len(p.scripts) = n /\ p.scripts[i] = t /\ p.err = m.err
        /\ \A j \in 1 .. Len(m.scripts) : j # i => p.scripts[j] = m.scripts[j]
    BY <1>1, <2>4, Exchanged
  <2> HIDE DEF p
  <2>6. Good(p.scripts)
    BY <1>1, <2>4, <2>5, GoodKept
  <2>7. q \in MultiRec /\ q.scripts = p.scripts /\ q.err = p.err /\ q.stop
    BY <2>2, <2>3, <2>5 DEF MultiRec
  <2>8. QED BY <2>1, <2>5, <2>6, <2>7 DEF Multi
<1>4. QED BY <1>2, <1>3

LEMMA Executed ==
  ASSUME NEW m, NEW n \in Nat, Multi(m, n), m.err = "none", m.keep, NEW i \in 1 .. n, m.scripts[i].bin,
         NEW q \in Execute(m, i)
  PROVE  Multi(q, n)
<1>1. PICK r \in sieve_multiscript_run(m, i) : \E p \in Reopened(r, i) : q \in sieve_record_resource_usage(p, i)
  BY DEF Execute
<1>2. PICK p \in Reopened(r, i) : q \in sieve_record_resource_usage(p, i)
  BY <1>1
<1>3. Multi(r, n) /\ r.scripts = m.scripts /\ r.err = "none" /\ (r.status = "corrupt" => r.stop)
  BY Ran
<1>4. Multi(p, n)
  BY <1>3, OpenedAgain
<1>5. QED BY <1>2, <1>4, UsageRecorded

(* The script at its turn: a limit or an error of an earlier message is    *)
(* remembered; otherwise the script is opened, unless it was, and run.     *)
LEMMA ScriptRun ==
  ASSUME NEW m0, NEW n \in Nat, Multi(m0, n), ~m0.stop, NEW i \in 1 .. n, NEW q \in RunScript(m0, i)
  PROVE  Multi(q, n)
<1> DEFINE m == [m0 EXCEPT !.ran = TRUE]
<1> DEFINE s == m.scripts[i]
<1>1. /\ m \in MultiRec /\ m.scripts = m0.scripts /\ m.err = "none" /\ m.keep /\ m.status = "ok" /\ m.stop = m0.stop
      /\ m0.err = "none" /\ m0.keep /\ m0.status = "ok"
  BY DEF Multi, MultiRec
<1>2. Multi(m, n) /\ Len(m.scripts) = n /\ Good(m.scripts)
  BY <1>1 DEF Multi
<1>3. s \in ScriptRec /\ Opening(s)
  BY <1>1, <1>2, ScriptAt DEF Good
<1>4. CASE s.exceeded
  <2>1. q = [m EXCEPT !.exceeded = TRUE, !.stop = TRUE]
    BY <1>4 DEF RunScript
  <2> HIDE DEF m
  <2>2. q \in MultiRec /\ q.scripts = m.scripts /\ q.err = m.err /\ q.stop
    BY <1>1, <2>1 DEF MultiRec
  <2>3. QED BY <1>1, <1>2, <2>2 DEF Multi
<1>5. CASE ~s.exceeded /\ ~s.bin /\ s.err # "none"
  <2>1. q = [m EXCEPT !.err = s.err, !.stop = TRUE]
    BY <1>5 DEF RunScript
  <2>2. s.err \in {"none", "invalid", "temp"}
    BY <1>3 DEF ScriptRec
  <2> HIDE DEF m, s
  <2>3. q \in MultiRec /\ q.scripts = m.scripts /\ q.keep = m.keep /\ q.stop
    BY <1>1, <2>1, <2>2 DEF MultiRec
  <2>4. QED BY <1>1, <1>2, <2>3 DEF Multi
<1>6. CASE ~s.exceeded /\ s.bin
  <2>1. q \in Execute(m, i)
    BY <1>6 DEF RunScript
  <2> HIDE DEF m
  <2>2. QED BY <1>1, <1>2, <1>6, <2>1, Executed
<1>7. CASE ~s.exceeded /\ ~s.bin /\ s.err = "none"
  <2>1. PICK r \in imap_sieve_run_open_script(m, i) : q \in IF r.err # "none" THEN {r} ELSE Execute(r, i)
    BY <1>7 DEF RunScript
  <2>2. s.opens = 0 /\ ~s.again
    BY <1>3, <1>7 DEF Opening
  <2> HIDE DEF m
  <2>3. /\ r \in MultiRec /\ Len(r.scripts) = Len(m.scripts) /\ r.status = m.status /\ r.keep = m.keep
        /\ \A j \in 1 .. Len(m.scripts) : j # i => r.scripts[j] = m.scripts[j]
        /\ r.scripts[i].opens = s.opens + 1 /\ r.scripts[i].again = s.again
        /\ \/ r.err = m.err /\ r.stop = m.stop /\ r.scripts[i].bin
           \/ r.err # "none" /\ r.stop /\ ~r.scripts[i].bin /\ r.scripts[i].err # "none"
    <3>1. i \in 1 .. Len(m.scripts) /\ m.scripts[i].opens < 2
      BY <1>2, <2>2
    <3>2. m \in MultiRec
      BY <1>1
    <3>3. QED BY ONLY <2>1, <3>1, <3>2, Opened
  <2>4. Opening(r.scripts[i])
    BY <2>2, <2>3 DEF Opening
  <2>5. Good(r.scripts)
    BY <1>1, <1>2, <2>3, <2>4, GoodKept
  <2>6. Multi(r, n)
    BY <1>1, <1>2, <2>3, <2>5 DEF Multi
  <2>7. CASE r.err # "none"
    BY <2>1, <2>6, <2>7
  <2>8. CASE r.err = "none"
    BY <1>1, <2>1, <2>3, <2>6, <2>8, Executed
  <2>9. QED BY <2>7, <2>8
<1>8. QED BY <1>4, <1>5, <1>6, <1>7 DEF ScriptRec

(* The whole sequence: a run has one script, or a global one and the       *)
(* user's.                                                                 *)
LEMMA SequenceRun ==
  ASSUME NEW scripts \in Seq(ScriptRec), Len(scripts) \in 1 .. 2, Good(scripts), NEW filtering \in BOOLEAN,
         NEW r \in Sequence(scripts, filtering)
  PROVE  Multi(r, Len(scripts))
<1> DEFINE n == Len(scripts)
<1> DEFINE S(i, T) == UNION {IF m.stop \/ (filtering /\ ~m.scripts[i].bin) THEN {m} ELSE RunScript(m, i) : m \in T}
<1> DEFINE A == {sieve_multiscript_start_execute(scripts)}
<1> DEFINE f == CHOOSE h : h = [i \in 0 .. n |-> IF i = 0 THEN A ELSE S(i, h[i - 1])]
<1> DEFINE g == [i \in 0 .. n |-> IF i = 0 THEN A ELSE IF i = 1 THEN S(1, A) ELSE S(2, S(1, A))]
<1>1. r \in f[n]
  BY DEF Sequence
<1>2. \A m \in A : Multi(m, n)
  <2> DEFINE m == sieve_multiscript_start_execute(scripts)
  <2>1. m \in MultiRec /\ m.scripts = scripts /\ m.status = "ok" /\ m.keep /\ m.err = "none"
    BY DEF sieve_multiscript_start_execute, MultiRec
  <2> HIDE DEF m
  <2>2. Multi(m, n)
    BY <2>1 DEF Multi
  <2>3. QED BY <2>2 DEF m
<1>3. ASSUME NEW T, \A m \in T : Multi(m, n), NEW i \in 1 .. n, NEW q \in S(i, T)
      PROVE  Multi(q, n)
  <2>1. PICK m \in T : q \in IF m.stop \/ (filtering /\ ~m.scripts[i].bin) THEN {m} ELSE RunScript(m, i)
    BY <1>3
  <2>2. QED BY <1>3, <2>1, ScriptRun
<1>0. n \in 1 .. 2
  OBVIOUS
<1> HIDE DEF S, A, n
<1>4. g = [i \in 0 .. n |-> IF i = 0 THEN A ELSE S(i, g[i - 1])]
  <2>1. ASSUME NEW i \in 0 .. n
        PROVE  (IF i = 0 THEN A ELSE IF i = 1 THEN S(1, A) ELSE S(2, S(1, A)))
                 = IF i = 0 THEN A ELSE S(i, g[i - 1])
    <3>1. CASE i = 0
      BY <3>1
    <3>2. CASE i = 1
      <4>1. g[0] = A
        BY <1>0
      <4>2. QED BY <3>2, <4>1
    <3>3. CASE i = 2
      <4>1. g[1] = S(1, A)
        BY <1>0, <3>3
      <4>2. QED BY <3>3, <4>1
    <3>4. QED BY <1>0, <3>1, <3>2, <3>3
  <2>2. QED BY <2>1
<1> HIDE DEF g
<1>5. f = [i \in 0 .. n |-> IF i = 0 THEN A ELSE S(i, f[i - 1])]
  BY <1>4
<1> HIDE DEF f
<1>6. f[0] = A /\ f[1] = S(1, f[0]) /\ (n = 2 => f[2] = S(2, f[1]))
  BY <1>0, <1>5
<1>7. \A q \in f[1] : Multi(q, n)
  BY <1>0, <1>2, <1>3, <1>6
<1>8. n = 2 => \A q \in f[2] : Multi(q, n)
  BY <1>3, <1>6, <1>7
<1>9. CASE n = 1
  <2>1. r \in f[1]
    BY <1>1, <1>9
  <2>2. QED BY <1>7, <2>1 DEF n
<1>10. CASE n = 2
  <2>1. r \in f[2]
    BY <1>1, <1>10
  <2>2. QED BY <1>8, <1>10, <2>1 DEF n
<1>11. QED BY <1>0, <1>9, <1>10

(* What a run leaves: the scripts in order, and a reason when the message  *)
(* may be discarded.                                                       *)
LEMMA EventRun ==
  ASSUME NEW scripts \in Seq(ScriptRec), Len(scripts) \in 1 .. 2, Good(scripts),
         NEW r \in imap_sieve_run_scripts(scripts)
  PROVE  /\ r.scripts \in Seq(ScriptRec) /\ Len(r.scripts) = Len(scripts) /\ Good(r.scripts)
         /\ r.ret \in -1 .. 1
         /\ r.ret > 0 => Why(r) \in {"discarded", "aborted"}
<1>1. PICK m \in Sequence(scripts, FALSE) : \E s \in sieve_multiscript_finish(m) :
        r = Result(m, s, IF m.err # "none" /\ s = "failure" THEN 1 ELSE imap_sieve_handle_exec_status(s, m.keep))
  BY DEF imap_sieve_run_scripts
<1>2. PICK s \in sieve_multiscript_finish(m) :
        r = Result(m, s, IF m.err # "none" /\ s = "failure" THEN 1 ELSE imap_sieve_handle_exec_status(s, m.keep))
  BY <1>1
<1>3. Multi(m, Len(scripts))
  BY SequenceRun
<1>4. s = "ok" => m.status = "ok"
  BY <1>2 DEF sieve_multiscript_finish
<1>5. /\ r.scripts = m.scripts /\ r.err = m.err /\ r.status = s /\ r.keep = m.keep
      /\ r.ret = IF m.err # "none" /\ s = "failure" THEN 1 ELSE imap_sieve_handle_exec_status(s, m.keep)
  BY <1>2 DEF Result
<1>6. ASSUME r.ret > 0
      PROVE  Why(r) \in {"discarded", "aborted"}
  <2>1. CASE m.err # "none" /\ s = "failure"
    BY <1>5, <2>1 DEF Why
  <2>2. CASE ~(m.err # "none" /\ s = "failure")
    <3>1. s = "ok" /\ ~m.keep
      BY <1>5, <1>6, <2>2 DEF imap_sieve_handle_exec_status
    <3>2. m.err = "none"
      BY <1>3, <1>4, <3>1 DEF Multi
    <3>3. QED BY <1>5, <3>1, <3>2 DEF Why
  <2>3. QED BY <2>1, <2>2
<1>7. r.ret \in -1 .. 1
  BY <1>5 DEF imap_sieve_handle_exec_status
<1>8. QED BY <1>3, <1>5, <1>6, <1>7 DEF Multi, MultiRec

LEMMA FilterRun ==
  ASSUME NEW scripts \in Seq(ScriptRec), Len(scripts) \in 1 .. 2, Good(scripts),
         NEW r \in imap_sieve_filter_run_scripts(scripts)
  PROVE  r.scripts \in Seq(ScriptRec) /\ Len(r.scripts) = Len(scripts) /\ Good(r.scripts)
<1>1. PICK m \in Sequence(scripts, TRUE) : \E s \in sieve_multiscript_finish(m) :
        r = Result(m, s, IF m.err # "none" /\ s = "failure" THEN 0
                         ELSE IF ~m.ran /\ s = "ok" THEN 0
                         ELSE imap_sieve_filter_handle_exec_status(s, m.keep))
  BY DEF imap_sieve_filter_run_scripts
<1>2. Multi(m, Len(scripts))
  BY SequenceRun
<1>3. r.scripts = m.scripts
  BY <1>1 DEF Result
<1>4. QED BY <1>2, <1>3 DEF Multi, MultiRec

-----------------------------------------------------------------------------
(* The inductive invariant *)

Boxes   == {"none", "there", "deleted", "gone"}
Saving  == {"append", "copy", "move"}
Runs    == {"main", "iflag", "source", "filter"}
UserRec == [cmd : Saving \cup {"none", "store", "other", "filter"}, active : BOOLEAN, count : Nat, alive : BOOLEAN]
EventRec == [save : Nat, uid : {0} \cup Uids, flags : BOOLEAN, src : {0} \cup Uids]
TransRec == [open : BOOLEAN, hooked : BOOLEAN, events : Seq(EventRec), changed : BOOLEAN, saved : Seq(Uids),
             touched : SUBSET Uids, marked : SUBSET Uids]
JobRec  == [step : {"off", "init", "main", "iflag", "source", "commit"}, i : Nat, main : Seq(ScriptRec),
            iflag : Seq(ScriptRec), source : Seq(ScriptRec), fatal : BOOLEAN]
FilterRec == [state : {"off", "delivery", "name", "value", "literal", "search", "more", "ended", "done", "left"},
              scripts : Seq(ScriptRec), todo : SUBSET Uids, tagged : 0 .. 1, reply : BOOLEAN, callback : BOOLEAN,
              held : SUBSET Held, big : BOOLEAN, gone : BOOLEAN]

TypeInv ==
  /\ box \in [Uids -> Boxes] /\ copied \in [Uids -> Boxes] /\ user \in UserRec /\ trans \in TransRec
  /\ job \in JobRec /\ filter \in FilterRec

(* What FILTER has at each of its stages.  A command that ended was        *)
(* answered, or is about to be once its transaction is committed, or its   *)
(* client is gone.                                                         *)
FilterInv(f) ==
  /\ Len(f.scripts) <= 1 /\ Good(f.scripts)
  /\ f.reply => f.state = "ended" /\ f.tagged = 0
  /\ f.state \in {"off", "delivery", "name", "value"} => f.tagged = 0 /\ ~f.big
  /\ f.state = "literal" => f.tagged = IF f.big THEN 1 ELSE 0
  /\ f.state \in {"search", "more"} => f.tagged = 0 /\ f.scripts # <<>>
  /\ f.state = "ended" => f.tagged = 1 \/ f.reply \/ f.gone
  /\ f.state = "done" => f.tagged = 1 \/ f.gone

(* Scripts run inside a commit; a transaction belongs to a command.        *)
PhaseInv ==
  /\ user.active = (job.step # "off")
  /\ job.step # "off" => trans.open /\ filter.state \in {"off", "ended"}
  /\ (filter.state # "off") = (user.cmd = "filter")
  /\ trans.open => user.cmd # "none" /\ trans.hooked /\ filter.state \in {"off", "more", "ended"}
  /\ filter.state = "more" => trans.open

(* The events of a transaction that saves messages, and of one that        *)
(* changes them: each message has one.                                     *)
SaveEvents(t) ==
  /\ Len(t.events) = Len(t.saved)
  /\ \A k \in 1 .. Len(t.saved) : t.events[k].uid = 0 /\ t.events[k].save = k - 1 /\ t.events[k].src \in {0, t.saved[k]}
  /\ \A j, k \in 1 .. Len(t.saved) : t.saved[j] = t.saved[k] => j = k
TouchEvents(t) ==
  /\ t.saved = <<>>
  /\ \A k \in 1 .. Len(t.events) : t.events[k].uid \in t.touched /\ t.events[k].src = 0
  /\ \A j, k \in 1 .. Len(t.events) : t.events[j].uid = t.events[k].uid => j = k
Known == {v \in Uids : box[v] # "none"}
EventsInv ==
  trans.open =>
    /\ user.cmd \in Saving => SaveEvents(trans)
    /\ user.cmd \notin Saving => TouchEvents(trans)
    /\ user.cmd \in Saving /\ job.step = "off" =>
         \A k \in 1 .. Len(trans.saved) : trans.saved[k] = Cardinality(Known) + k

JobInv ==
  /\ Len(job.main) <= 2 /\ Len(job.iflag) <= 1 /\ Len(job.source) <= 1
  /\ Good(job.main) /\ Good(job.iflag) /\ Good(job.source)
  /\ job.step \in {"main", "iflag", "source"} => job.i > 0
  /\ job.step \in {"iflag", "source"} => job.i <= Len(trans.events)

(* What scripts have seen: messages of events before the current one.      *)
Before(n, u) == \E k \in 1 .. Len(trans.events) : k < n /\ u = UidOf(trans.events[k])
LogInv ==
  /\ log.twice = FALSE
  /\ job.step \in {"off", "init"} => \A x \in log.seen : x[1] = "filter"
  /\ filter.state \in {"delivery", "name", "value", "literal", "search"} => log.seen = {}
  /\ filter.state = "more" => \A u \in filter.todo : <<"filter", u>> \notin log.seen /\ u \notin trans.touched
  /\ job.step \in {"main", "iflag", "source"} =>
       \A u \in Uids :
         /\ <<"main", u>> \in log.seen => Before(IF job.step = "main" THEN job.i ELSE job.i + 1, u)
         /\ <<"iflag", u>> \in log.seen => Before(IF job.step = "source" THEN job.i + 1 ELSE job.i, u)
         /\ <<"source", u>> \in log.seen =>
              \E k \in 1 .. Len(trans.events) : k < job.i /\ u = trans.events[k].src

ImapInv == TypeInv /\ FilterInv(filter) /\ PhaseInv /\ EventsInv /\ JobInv /\ LogInv

-----------------------------------------------------------------------------
(* The steps of FILTER *)

LEMMA EventsKept ==
  ASSUME EventsInv, trans' = trans, user'.cmd = user.cmd, job'.step = "off" => job.step = "off" /\ Known' = Known
  PROVE  EventsInv'
BY DEF EventsInv, SaveEvents, TouchEvents

LEMMA JobKept ==
  ASSUME JobInv, job' = job, trans' = trans
  PROVE  JobInv'
BY DEF JobInv, Good, Opening

LEMMA KnownKept ==
  ASSUME box' = box
  PROVE  Known' = Known
BY DEF Known

(* A step of the command outside of a run of imapsieve.                    *)
LEMMA FilterStep ==
  ASSUME ImapInv, NEW g \in FilterRec, FilterInv(g), filter' = g, UNCHANGED <<box, copied, user, trans, job>>,
         job.step = "off", filter.state # "off", g.state \notin {"off", "more"}, g.state # "ended" => ~trans.open,
         log' = NoLog \/ (log' = log /\ (g.state \in {"delivery", "name", "value", "literal", "search"} => log.seen = {}))
  PROVE  ImapInv'
<1>1. TypeInv'
  BY DEF ImapInv, TypeInv
<1>2. FilterInv(filter)'
  BY DEF FilterInv, Good, Opening
<1>3. PhaseInv'
  BY DEF ImapInv, PhaseInv
<1>4. EventsInv'
  BY EventsKept, KnownKept DEF ImapInv
<1>5. JobInv'
  BY JobKept DEF ImapInv
<1>6. LogInv'
  BY DEF ImapInv, LogInv, NoLog
<1>7. QED BY <1>1, <1>2, <1>3, <1>4, <1>5, <1>6 DEF ImapInv

(* imap_filter_deinit for a command that was answered, that is to be       *)
(* answered, or whose client is gone.                                      *)
LEMMA Deinit ==
  ASSUME NEW f \in FilterRec, Len(f.scripts) <= 1, Good(f.scripts), ~f.reply, NEW g,
         \/ f.tagged = 1 /\ g = imap_filter_deinit(f)
         \/ f.tagged = 0 /\ g = [imap_filter_deinit(f) EXCEPT !.reply = TRUE]
         \/ g = Dropped(imap_filter_deinit(f))
  PROVE  g \in FilterRec /\ FilterInv(g) /\ g.state = "ended" /\ g.callback /\ g.held = {}
<1> DEFINE d == imap_filter_deinit(f)
<1>1. /\ d \in FilterRec /\ d.state = "ended" /\ d.callback /\ d.held = {} /\ d.tagged = f.tagged
      /\ d.scripts = f.scripts /\ ~d.reply
  BY DEF imap_filter_deinit, Ended, FilterRec
<1>2. \/ f.tagged = 1 /\ g = d
      \/ f.tagged = 0 /\ g = [d EXCEPT !.reply = TRUE]
      \/ g = [d EXCEPT !.gone = TRUE]
  BY DEF Dropped
<1> HIDE DEF d
<1>3. /\ g \in FilterRec /\ g.state = "ended" /\ g.callback /\ g.held = {} /\ g.tagged = f.tagged
      /\ g.scripts = f.scripts /\ (g.reply => f.tagged = 0) /\ (f.tagged = 1 \/ g.reply \/ g.gone)
  BY <1>1, <1>2 DEF FilterRec
<1>4. QED BY <1>3 DEF FilterInv

LEMMA Tagged ==
  ASSUME NEW f \in FilterRec, f.tagged = 0
  PROVE  /\ Tag(f) \in FilterRec /\ Tag(f).tagged = 1 /\ Tag(f).scripts = f.scripts /\ Tag(f).state = f.state
         /\ Tag(f).big = f.big /\ Tag(f).reply = f.reply
BY DEF Tag, FilterRec

(* A script that compiles; or the command is answered and ends.            *)
LEMMA CompiledScript ==
  ASSUME NEW f \in FilterRec, Len(f.scripts) <= 1, Good(f.scripts), f.tagged = 0, ~f.reply, NEW g \in Compiled(f)
  PROVE  /\ g \in FilterRec /\ FilterInv(g)
         /\ g.state = "search" \/ (g.state = "ended" /\ g.callback /\ g.held = {})
<1>1. PICK q \in imap_filter_sieve_open_personal : g \in cmd_filter_sieve_compile_script(f, q)
  BY DEF Compiled
<1>2. PICK c \in imap_filter_sieve_compile(q) :
        g = IF c = <<>> THEN imap_filter_deinit(Tag(f)) ELSE [f EXCEPT !.state = "search", !.scripts = c]
  BY <1>1 DEF cmd_filter_sieve_compile_script
<1>3. CASE c = <<>>
  <2>1. g = imap_filter_deinit(Tag(f))
    BY <1>2, <1>3
  <2>2. QED BY <2>1, Tagged, Deinit
<1>4. CASE c # <<>>
  <2>1. q = <<Script(TRUE)>>
    BY <1>2, <1>4 DEF imap_filter_sieve_compile, imap_filter_sieve_open_personal
  <2>2. PICK s \in imap_sieve_filter_open_script(q[1]) : c = IF s.bin THEN <<s>> ELSE <<>>
    BY <1>2, <2>1 DEF imap_filter_sieve_compile
  <2>3. s.bin /\ c = <<s>>
    BY <1>4, <2>2
  <2>4. Script(TRUE) \in ScriptRec /\ ~Script(TRUE).again
    BY DEF Script, ScriptRec
  <2>5. q[1] = Script(TRUE)
    BY <2>1
  <2>6. s \in {[Script(TRUE) EXCEPT !.bin = TRUE, !.opens = 1], [Script(TRUE) EXCEPT !.opens = 1]}
    BY <2>5 DEF imap_sieve_filter_open_script
  <2>7. s \in ScriptRec /\ s.opens = 1 /\ ~s.again
    <3> DEFINE o == Script(TRUE)
    <3> HIDE DEF o
    <3>1. o \in ScriptRec /\ ~o.again
      BY <2>4 DEF o
    <3>2. s = [o EXCEPT !.bin = TRUE, !.opens = 1] \/ s = [o EXCEPT !.opens = 1]
      BY <2>6 DEF o
    <3>3. CASE s = [o EXCEPT !.bin = TRUE, !.opens = 1]
      <4>1. [o EXCEPT !.bin = TRUE, !.opens = 1] \in ScriptRec
        <5> DEFINE b == [o EXCEPT !.bin = TRUE]
        <5>1. b \in ScriptRec
          BY <3>1 DEF ScriptRec
        <5>2. [b EXCEPT !.opens = 1] = [o EXCEPT !.bin = TRUE, !.opens = 1]
          OBVIOUS
        <5> HIDE DEF b
        <5>3. [b EXCEPT !.opens = 1] \in ScriptRec
          BY <5>1 DEF ScriptRec
        <5>4. QED BY <5>2, <5>3
      <4>2. s.opens = 1 /\ s.again = o.again
        BY <3>1, <3>3 DEF ScriptRec
      <4>3. QED BY <3>1, <3>3, <4>1, <4>2
    <3>4. CASE s = [o EXCEPT !.opens = 1]
      BY ONLY <3>1, <3>4 DEF ScriptRec
    <3>5. QED BY <3>2, <3>3, <3>4
  <2>8. c \in Seq(ScriptRec) /\ Len(c) = 1 /\ c[1] = s
    BY <2>3, <2>7
  <2>9. Good(c)
    BY <2>3, <2>7, <2>8 DEF Good, Opening
  <2>10. g = [f EXCEPT !.state = "search", !.scripts = c]
    BY <1>2, <1>4
  <2>11. g \in FilterRec /\ g.state = "search" /\ g.scripts = c /\ g.tagged = 0 /\ ~g.reply
    BY <2>8, <2>10 DEF FilterRec
  <2>12. g.scripts # <<>> /\ Len(g.scripts) <= 1 /\ Good(g.scripts)
    <3>1. g.scripts # <<>>
      BY <1>4, <2>11
    <3>2. Len(g.scripts) <= 1
      <4>1. g.scripts = c
        BY <2>11
      <4>2. Len(c) <= 1
        BY <2>8
      <4>3. QED BY <4>1, <4>2
    <3>3. Good(g.scripts)
      BY <2>9, <2>11
    <3>4. QED BY <3>1, <3>2, <3>3
  <2>13. FilterInv(g)
    BY <2>11, <2>12 DEF FilterInv
  <2>14. QED BY <2>11, <2>13
<1>5. QED BY <1>3, <1>4

(* The script's name or text is read and compiled.                         *)
LEMMA ScriptRead ==
  ASSUME ImapInv,
         cmd_filter_sieve_delivery \/ cmd_filter_sieve_script_parse_name \/ cmd_filter_sieve_script_parse_value
           \/ cmd_filter_sieve_script_read_stream
  PROVE  /\ ImapInv'
         /\ filter'.state = "ended" => filter'.callback /\ filter'.held = {}
<1>1. /\ filter \in FilterRec /\ Len(filter.scripts) <= 1 /\ Good(filter.scripts)
      /\ filter.state \in {"delivery", "name", "value"} => filter.tagged = 0 /\ ~filter.big
      /\ filter.state = "literal" => filter.tagged = IF filter.big THEN 1 ELSE 0
      /\ filter.state # "ended" => ~filter.reply
  BY DEF ImapInv, TypeInv, FilterInv
<1>2. /\ filter.state \in {"delivery", "name", "value", "literal"} /\ job.step = "off"
      /\ filter'.state \in {"literal", "search", "ended"} => UNCHANGED <<box, copied, user, trans, job, log>>
  BY DEF cmd_filter_sieve_delivery, cmd_filter_sieve_script_parse_name, cmd_filter_sieve_script_parse_value,
         cmd_filter_sieve_script_read_stream, In, Idle, Set
<1>3. log.seen = {} /\ ~trans.open
  BY <1>2 DEF ImapInv, LogInv, PhaseInv
<1>4. ASSUME NEW g \in FilterRec, FilterInv(g), g.state \in {"literal", "search", "ended"}, filter' = g
      PROVE  ImapInv'
  BY <1>2, <1>3, <1>4, FilterStep
<1>5. ASSUME filter.tagged = 0, NEW g \in Compiled(filter), filter' = g
      PROVE  /\ ImapInv'
             /\ filter'.state = "ended" => filter'.callback /\ filter'.held = {}
  <2>1. /\ g \in FilterRec /\ FilterInv(g)
        /\ g.state = "search" \/ (g.state = "ended" /\ g.callback /\ g.held = {})
    BY <1>1, <1>2, <1>5, CompiledScript
  <2>2. QED BY <1>4, <1>5, <2>1
<1>10. ASSUME filter.tagged = 0, filter' \in BadArgument(filter)
       PROVE  ImapInv' /\ filter'.callback /\ filter'.held = {}
  <2>1. ~filter.reply /\ Tag(filter) \in FilterRec /\ Tag(filter).tagged = 1 /\ ~Tag(filter).reply
        /\ Tag(filter).scripts = filter.scripts
    BY <1>1, <1>2, <1>10, Tagged
  <2>2. CASE filter' = imap_filter_deinit(Tag(filter))
    BY <1>1, <1>4, <2>1, <2>2, Deinit
  <2>3. CASE filter' = Dropped(imap_filter_deinit(filter))
    BY <1>1, <1>4, <2>1, <2>3, Deinit
  <2>4. QED BY <1>10, <2>2, <2>3 DEF BadArgument
<1>6. CASE cmd_filter_sieve_delivery \/ cmd_filter_sieve_script_parse_name
  BY <1>1, <1>5, <1>6, <1>10 DEF cmd_filter_sieve_delivery, cmd_filter_sieve_script_parse_name, In, Set
<1>7. CASE cmd_filter_sieve_script_parse_value
  <2>1. filter.state = "value" /\ filter.tagged = 0 /\ ~filter.big
    BY <1>1, <1>7 DEF cmd_filter_sieve_script_parse_value, In
  <2>2. CASE filter' \in BadArgument(filter)
    BY <1>10, <2>1, <2>2
  <2>3. CASE filter' = [filter EXCEPT !.state = "literal"]
    <3>1. /\ filter' \in FilterRec /\ filter'.state = "literal" /\ filter'.tagged = 0 /\ filter'.big = FALSE
          /\ ~filter'.reply /\ filter'.scripts = filter.scripts
      BY <1>1, <2>1, <2>3 DEF FilterRec
    <3>2. FilterInv(filter')
      BY <1>1, <3>1 DEF FilterInv
    <3>3. QED BY <1>4, <3>1, <3>2
  <2>4. CASE filter' = [Tag(filter) EXCEPT !.state = "literal", !.big = TRUE]
    <3>1. Tag(filter) \in FilterRec /\ Tag(filter).tagged = 1 /\ Tag(filter).scripts = filter.scripts /\ ~Tag(filter).reply
      BY <1>1, <2>1, Tagged
    <3>2. /\ filter' \in FilterRec /\ filter'.state = "literal" /\ filter'.tagged = 1 /\ filter'.big
          /\ ~filter'.reply /\ filter'.scripts = filter.scripts
      BY <2>4, <3>1 DEF FilterRec
    <3>3. FilterInv(filter')
      BY <1>1, <3>2 DEF FilterInv
    <3>4. QED BY <1>4, <3>2, <3>3
  <2>5. CASE filter' \in Compiled(filter)
    BY <1>5, <2>1, <2>5
  <2>6. QED BY <1>7, <2>2, <2>3, <2>4, <2>5 DEF cmd_filter_sieve_script_parse_value, Set
<1>8. CASE cmd_filter_sieve_script_read_stream
  <2>1. filter.state = "literal" /\ ~filter.reply
    BY <1>1, <1>8 DEF cmd_filter_sieve_script_read_stream, In
  <2>5. CASE filter' = Dropped(imap_filter_deinit(filter))
    BY <1>1, <1>4, <2>1, <2>5, Deinit
  <2>2. CASE filter.big /\ filter' # Dropped(imap_filter_deinit(filter))
    <3>1. filter' = imap_filter_deinit(filter)
      BY <1>8, <2>2 DEF cmd_filter_sieve_script_read_stream, Set
    <3>2. filter.tagged = 1
      BY <1>1, <2>1, <2>2
    <3>3. QED BY <1>1, <1>4, <2>1, <3>1, <3>2, Deinit
  <2>3. CASE ~filter.big /\ filter' # Dropped(imap_filter_deinit(filter))
    <3>1. filter' \in Compiled(filter)
      BY <1>8, <2>3 DEF cmd_filter_sieve_script_read_stream, Set
    <3>2. filter.tagged = 0
      BY <1>1, <2>1, <2>3
    <3>3. QED BY <1>5, <3>1, <3>2
  <2>4. QED BY <2>2, <2>3, <2>5
<1>9. QED BY <1>6, <1>7, <1>8

LEMMA PanicKeeps ==
  ASSUME ImapInv, Panic
  PROVE  ImapInv' /\ filter' = filter /\ box' = box
<1>1. user' = [user EXCEPT !.alive = FALSE] /\ UNCHANGED <<box, copied, trans, job, filter, log>>
  BY DEF Panic
<1>2. user' \in UserRec /\ user'.cmd = user.cmd /\ user'.active = user.active
  BY <1>1 DEF ImapInv, TypeInv, UserRec
<1>3. TypeInv' /\ PhaseInv'
  BY <1>1, <1>2 DEF ImapInv, TypeInv, PhaseInv
<1>4. EventsInv' /\ JobInv'
  BY <1>1, <1>2, EventsKept, KnownKept, JobKept DEF ImapInv
<1>5. LogInv'
  BY <1>1 DEF ImapInv, LogInv, Before, UidOf
<1>6. FilterInv(filter)'
  BY <1>1 DEF ImapInv, FilterInv, Good, Opening
<1>7. QED BY <1>1, <1>3, <1>4, <1>5, <1>6 DEF ImapInv

LEMMA FilterBegins ==
  ASSUME ImapInv, cmd_filter
  PROVE  ImapInv'
<1>1. /\ user.cmd = "none" /\ filter.state = "off" /\ job.step = "off" /\ log' = NoLog
      /\ user' = [user EXCEPT !.cmd = "filter", !.count = @ + 1] /\ UNCHANGED <<box, copied, trans, job>>
  BY DEF cmd_filter, Idle
<1>2. user' \in UserRec /\ user'.cmd = "filter" /\ user'.active = user.active
  <2>1. user \in UserRec
    BY DEF ImapInv, TypeInv
  <2>2. user.count + 1 \in Nat
    BY <2>1 DEF UserRec
  <2>3. QED BY ONLY <1>1, <2>1, <2>2 DEF UserRec
<1>3. filter' \in FilterRec /\ FilterInv(filter') /\ filter'.state \in {"ended", "delivery", "name", "value"}
  <2>1. NoFilter \in FilterRec /\ NoFilter.scripts = <<>> /\ NoFilter.tagged = 0 /\ ~NoFilter.big /\ ~NoFilter.reply
    BY DEF NoFilter, FilterRec
  <2>2. CASE filter' = Ended(Tag(NoFilter))
    <3>1. Tag(NoFilter) \in FilterRec /\ Tag(NoFilter).tagged = 1 /\ Tag(NoFilter).scripts = <<>> /\ ~Tag(NoFilter).reply
      BY <2>1, Tagged
    <3>2. filter' \in FilterRec /\ filter'.state = "ended" /\ filter'.tagged = 1 /\ filter'.scripts = <<>> /\ ~filter'.reply
      BY <2>2, <3>1 DEF Ended, FilterRec
    <3>3. QED BY <3>2 DEF FilterInv, Good
  <2>3. CASE \E st \in {"delivery", "name", "value"} : filter' = [NoFilter EXCEPT !.state = st, !.held = Held, !.callback = FALSE]
    <3>1. PICK st \in {"delivery", "name", "value"} : filter' = [NoFilter EXCEPT !.state = st, !.held = Held, !.callback = FALSE]
      BY <2>3
    <3>2. /\ filter' \in FilterRec /\ filter'.state = st /\ filter'.tagged = 0 /\ filter'.scripts = <<>> /\ ~filter'.big
          /\ ~filter'.reply
      BY ONLY <2>1, <3>1 DEF FilterRec
    <3>3. QED BY <3>2 DEF FilterInv, Good
  <2>4. QED BY <2>2, <2>3 DEF cmd_filter
<1>4. TypeInv'
  BY <1>1, <1>2, <1>3 DEF ImapInv, TypeInv
<1>5. ~trans.open
  BY <1>1 DEF ImapInv, PhaseInv
<1>6. PhaseInv' /\ EventsInv'
  BY <1>1, <1>2, <1>3, <1>5 DEF ImapInv, PhaseInv, EventsInv
<1>7. JobInv'
  BY <1>1, JobKept DEF ImapInv
<1>8. LogInv'
  BY <1>1, <1>3 DEF LogInv, NoLog
<1>9. FilterInv(filter)'
  BY <1>3 DEF FilterInv, Good, Opening
<1>10. QED BY <1>4, <1>6, <1>7, <1>8, <1>9 DEF ImapInv

LEMMA SearchKey ==
  ASSUME ImapInv, imap_filter_search
  PROVE  ImapInv'
<1>1. /\ filter \in FilterRec /\ Len(filter.scripts) <= 1 /\ Good(filter.scripts) /\ filter.state = "search"
      /\ filter.tagged = 0 /\ filter.scripts # <<>> /\ job.step = "off" /\ ~filter.reply
  BY DEF ImapInv, TypeInv, FilterInv, imap_filter_search, In, Idle
<1>2. log.seen = {} /\ ~trans.open /\ user.cmd = "filter" /\ ~user.active
  BY <1>1 DEF ImapInv, LogInv, PhaseInv
<1>3. Tag(filter) \in FilterRec /\ Tag(filter).tagged = 1 /\ Tag(filter).scripts = filter.scripts /\ ~Tag(filter).reply
  BY <1>1, Tagged
<1>4. ASSUME NEW g, g \in FilterRec, FilterInv(g), g.state \in {"search", "ended"}, Set(g)
      PROVE  ImapInv'
  BY <1>1, <1>2, <1>4, FilterStep DEF Set
<1>5. CASE Set(Ended(Tag(filter)))
  <2> DEFINE t == Tag(filter)
  <2> DEFINE g == Ended(t)
  <2> HIDE DEF t
  <2>1. g \in FilterRec /\ g.state = "ended" /\ g.tagged = 1 /\ g.scripts = filter.scripts
    BY <1>3 DEF Ended, FilterRec, t
  <2>5. ~g.reply
    BY <1>3 DEF Ended, FilterRec, t
  <2>2. Set(g)
    BY <1>5 DEF t
  <2> HIDE DEF g
  <2>3. FilterInv(g)
    BY <1>1, <2>1, <2>5 DEF FilterInv
  <2>4. QED BY <1>4, <2>1, <2>2, <2>3
<1>6. CASE Set(imap_filter_context_free(Tag(filter)))
  <2> DEFINE t == Tag(filter)
  <2> DEFINE g == imap_filter_context_free(t)
  <2> HIDE DEF t
  <2>1. g \in FilterRec /\ g.state = "ended" /\ g.tagged = 1 /\ g.scripts = filter.scripts /\ ~g.reply
    BY <1>3 DEF imap_filter_context_free, Ended, FilterRec, t
  <2>2. Set(g)
    BY <1>6 DEF t
  <2> HIDE DEF g
  <2>3. FilterInv(g)
    BY <1>1, <2>1 DEF FilterInv
  <2>4. QED BY <1>4, <2>1, <2>2, <2>3
<1>7. CASE Set(imap_filter_deinit(Tag(filter)))
  <2> DEFINE g == imap_filter_deinit(Tag(filter))
  <2>1. g \in FilterRec /\ FilterInv(g) /\ g.state = "ended"
    BY <1>1, <1>3, Deinit
  <2>2. Set(g)
    BY <1>7
  <2> HIDE DEF g
  <2>3. QED BY <1>4, <2>1, <2>2
<1>10. CASE Set(Dropped(Ended(filter)))
  <2> DEFINE e == Ended(filter)
  <2> DEFINE g == Dropped(e)
  <2>1. e \in FilterRec /\ e.state = "ended" /\ e.scripts = filter.scripts /\ e.tagged = 0 /\ ~e.reply
    BY <1>1 DEF Ended, FilterRec
  <2> HIDE DEF e
  <2>2. g \in FilterRec /\ g.state = "ended" /\ g.scripts = filter.scripts /\ g.tagged = 0 /\ ~g.reply /\ g.gone
    BY <2>1 DEF Dropped, FilterRec
  <2>3. Set(g)
    BY <1>10 DEF e
  <2> HIDE DEF g
  <2>4. FilterInv(g)
    BY <1>1, <2>2 DEF FilterInv
  <2>5. QED BY <1>4, <2>2, <2>3, <2>4
<1>11. CASE Set([filter EXCEPT !.held = @ \ {"sieve"}])
  <2> DEFINE g == [filter EXCEPT !.held = @ \ {"sieve"}]
  <2>1. g \in FilterRec /\ g.state = "search" /\ g.scripts = filter.scripts /\ g.tagged = 0 /\ ~g.reply
    BY <1>1 DEF FilterRec
  <2>2. Set(g)
    BY <1>11
  <2> HIDE DEF g
  <2>3. FilterInv(g)
    BY <1>1, <2>1 DEF FilterInv
  <2>4. QED BY <1>4, <2>1, <2>2, <2>3
<1>8. CASE \E todo \in SUBSET {u \in Uids : There(u)} :
             /\ "sieve" \in filter.held
             /\ filter' = [filter EXCEPT !.state = "more", !.todo = todo]
             /\ trans' = imap_sieve_mailbox_transaction_begin
             /\ UNCHANGED <<box, copied, user, job, log>>
  <2>1. PICK todo \in SUBSET Uids : filter' = [filter EXCEPT !.state = "more", !.todo = todo]
    BY <1>8
  <2>2. trans' = imap_sieve_mailbox_transaction_begin /\ UNCHANGED <<box, copied, user, job, log>>
    BY <1>8
  <2>3. /\ filter' \in FilterRec /\ filter'.state = "more" /\ filter'.tagged = 0 /\ filter'.scripts = filter.scripts
        /\ ~filter'.reply
    BY <1>1, <2>1 DEF FilterRec
  <2>4. /\ trans' \in TransRec /\ trans'.open /\ trans'.hooked /\ trans'.saved = <<>> /\ trans'.events = <<>>
        /\ trans'.touched = {}
    <3>1. trans' = [open |-> TRUE, hooked |-> TRUE, events |-> <<>>, changed |-> FALSE, saved |-> <<>>, touched |-> {}, marked |-> {}]
      BY <1>2, <2>2 DEF imap_sieve_mailbox_transaction_begin, NoTrans
    <3>2. QED BY ONLY <3>1 DEF TransRec
  <2>5. FilterInv(filter)'
    BY <1>1, <2>3 DEF FilterInv, Good, Opening
  <2>6. TypeInv'
    BY <2>2, <2>3, <2>4 DEF ImapInv, TypeInv
  <2>7. PhaseInv'
    BY <1>1, <1>2, <2>2, <2>3, <2>4 DEF ImapInv, PhaseInv
  <2>8. EventsInv'
    BY <1>2, <2>2, <2>4 DEF EventsInv, TouchEvents, Saving
  <2>9. JobInv'
    BY <1>1, <2>2 DEF ImapInv, JobInv, Good, Opening
  <2>10. LogInv'
    BY <1>1, <1>2, <2>2, <2>3, <2>4 DEF ImapInv, LogInv
  <2>11. QED BY <2>5, <2>6, <2>7, <2>8, <2>9, <2>10 DEF ImapInv
<1>12. CASE Panic
  BY <1>12, PanicKeeps
<1>9. QED BY <1>5, <1>6, <1>7, <1>8, <1>10, <1>11, <1>12 DEF imap_filter_search

LEMMA FilterEnding ==
  ASSUME ImapInv, imap_filter_more \/ Cancel
  PROVE  ImapInv' /\ (filter'.state = "ended" => filter'.callback /\ filter'.held = {})
<1>1. /\ filter \in FilterRec /\ Len(filter.scripts) <= 1 /\ Good(filter.scripts)
      /\ filter.state # "ended" => ~filter.reply
  BY DEF ImapInv, TypeInv, FilterInv
<1>2. CASE imap_filter_more
  <2>1. filter.tagged = 0 /\ filter' = [imap_filter_deinit(filter) EXCEPT !.reply = TRUE] /\ log' = NoLog
        /\ UNCHANGED <<box, copied, user, trans, job>> /\ job.step = "off" /\ filter.state = "more"
    BY <1>2 DEF ImapInv, FilterInv, imap_filter_more, In, Idle
  <2>2. filter' \in FilterRec /\ FilterInv(filter') /\ filter'.state = "ended" /\ filter'.callback /\ filter'.held = {}
    BY <1>1, <2>1, Deinit
  <2>3. QED BY <2>1, <2>2, FilterStep
<1>3. CASE Cancel
  <2>1. /\ UNCHANGED <<box, copied, user, trans, job, log>> /\ job.step = "off"
        /\ \/ filter.state \in {"name", "value", "literal", "more"} /\ filter' = Dropped(imap_filter_deinit(filter))
           \/ filter.state = "search" /\ filter' = Dropped([filter EXCEPT !.state = "left"])
    BY <1>3 DEF Cancel, Idle
  <2>2. CASE filter.state # "search"
    <3>1. filter' \in FilterRec /\ FilterInv(filter') /\ filter'.state = "ended" /\ filter'.callback /\ filter'.held = {}
      BY <1>1, <2>1, <2>2, Deinit
    <3>2. QED BY <2>1, <3>1, FilterStep
  <2>3. CASE filter.state = "search"
    <3> DEFINE e == [filter EXCEPT !.state = "left"]
    <3>1. e \in FilterRec /\ e.state = "left" /\ e.scripts = filter.scripts /\ ~e.reply
      BY <1>1, <2>3 DEF FilterRec
    <3>2. filter' = Dropped(e)
      BY <2>1, <2>3
    <3> HIDE DEF e
    <3>3. filter' \in FilterRec /\ filter'.state = "left" /\ filter'.scripts = filter.scripts /\ ~filter'.reply
      BY <3>1, <3>2 DEF Dropped, FilterRec
    <3>4. FilterInv(filter') /\ ~trans.open
      BY <1>1, <2>3, <3>3 DEF FilterInv, ImapInv, PhaseInv
    <3>5. QED BY <2>1, <2>3, <3>3, <3>4, FilterStep
  <2>4. QED BY <2>2, <2>3
<1>4. QED BY <1>2, <1>3

LEMMA FilterReplied ==
  ASSUME ImapInv, FilterReply
  PROVE  ImapInv' /\ filter'.state = "done"
<1>1. /\ filter \in FilterRec /\ Len(filter.scripts) <= 1 /\ Good(filter.scripts) /\ filter.state = "ended"
      /\ filter.tagged = 1 \/ filter.reply \/ filter.gone
      /\ filter.reply => filter.tagged = 0
      /\ job.step = "off" /\ ~trans.open /\ UNCHANGED <<box, copied, user, trans, job, log>>
  BY DEF ImapInv, TypeInv, FilterInv, FilterReply, Idle
<1> DEFINE x == IF filter.reply THEN filter.tagged + 1 ELSE filter.tagged
<1>2. filter' = [filter EXCEPT !.state = "done", !.reply = FALSE, !.tagged = x]
  BY DEF FilterReply
<1>3. x \in 0 .. 1 /\ (x = 1 \/ filter.gone)
  BY <1>1 DEF FilterRec
<1> HIDE DEF x
<1>4. /\ filter' \in FilterRec /\ filter'.state = "done" /\ filter'.tagged = x /\ filter'.scripts = filter.scripts
      /\ ~filter'.reply /\ filter'.gone = filter.gone
  <2>1. filter \in FilterRec
    BY <1>1
  <2> DEFINE d == [filter EXCEPT !.state = "done"]
  <2> DEFINE e == [d EXCEPT !.reply = FALSE]
  <2>2. d \in FilterRec /\ d.state = "done" /\ d.scripts = filter.scripts /\ d.gone = filter.gone
    BY <2>1 DEF FilterRec
  <2>4. filter' = [e EXCEPT !.tagged = x]
    BY <1>2
  <2> HIDE DEF d
  <2>3. e \in FilterRec /\ e.state = "done" /\ e.scripts = filter.scripts /\ e.gone = filter.gone /\ ~e.reply
    BY <2>2 DEF FilterRec
  <2> HIDE DEF e
  <2>5. QED BY ONLY <1>3, <2>3, <2>4 DEF FilterRec
<1>5. FilterInv(filter')
  BY <1>1, <1>3, <1>4 DEF FilterInv
<1>6. QED BY <1>1, <1>4, <1>5, FilterStep

LEMMA FilterOver ==
  ASSUME ImapInv, FilterDone
  PROVE  ImapInv' /\ filter'.state = "off"
<1>1. /\ filter \in FilterRec /\ filter.state = "done" /\ job.step = "off" /\ UNCHANGED <<box, copied, trans, job, log>>
      /\ filter' = [NoFilter EXCEPT !.callback = filter.callback, !.gone = filter.gone] /\ user' = [user EXCEPT !.cmd = "none"]
  BY DEF ImapInv, TypeInv, FilterDone, Idle
<1>2. /\ filter' \in FilterRec /\ filter'.state = "off" /\ filter'.tagged = 0 /\ filter'.scripts = <<>> /\ ~filter'.big
      /\ ~filter'.reply
  <2>1. /\ NoFilter \in FilterRec /\ NoFilter.state = "off" /\ NoFilter.scripts = <<>> /\ NoFilter.tagged = 0 /\ ~NoFilter.big
        /\ ~NoFilter.reply
    BY DEF NoFilter, FilterRec
  <2>2. filter.callback \in BOOLEAN /\ filter.gone \in BOOLEAN
    BY <1>1 DEF FilterRec
  <2>3. QED BY ONLY <1>1, <2>1, <2>2 DEF FilterRec
<1>3. user' \in UserRec /\ user'.cmd = "none" /\ user'.active = user.active
  BY <1>1 DEF ImapInv, TypeInv, UserRec
<1>4. ~trans.open
  BY <1>1 DEF ImapInv, PhaseInv
<1>5. TypeInv' /\ PhaseInv' /\ EventsInv'
  BY <1>1, <1>2, <1>3, <1>4 DEF ImapInv, TypeInv, PhaseInv, EventsInv
<1>6. JobInv'
  BY <1>1, JobKept DEF ImapInv
<1>7. LogInv'
  BY <1>1, <1>2 DEF ImapInv, LogInv
<1>8. FilterInv(filter)'
  BY <1>2 DEF FilterInv, Good
<1>9. QED BY <1>2, <1>5, <1>6, <1>7, <1>8 DEF ImapInv

-----------------------------------------------------------------------------
(* The events of a transaction *)

(* A message's flags are changed for the first time in the transaction.    *)
LEMMA Touched ==
  ASSUME NEW t \in TransRec, TouchEvents(t), t.hooked, NEW u \in Uids, u \notin t.touched,
         NEW r, r = imap_sieve_mail_update_flags(t, u)
  PROVE  /\ r \in TransRec /\ TouchEvents(r) /\ r.open = t.open /\ r.hooked /\ r.touched \subseteq t.touched \cup {u}
         /\ r.marked = t.marked
<1>1. CASE ~There(u)
  <2>1. r = t
    BY <1>1 DEF imap_sieve_mail_update_flags
  <2>2. QED BY <2>1
<1>2. CASE There(u)
  <2> DEFINE e == Event(Len(t.saved), u, TRUE, 0)
  <2> DEFINE q == t.events
  <2>1. q \in Seq(EventRec) /\ t.saved = <<>> /\ t.touched \in SUBSET Uids
    BY DEF TransRec, TouchEvents
  <2>2. \A k \in 1 .. Len(q) : q[k].uid \in t.touched /\ q[k].src = 0
    BY DEF TouchEvents
  <2>3. \A j, k \in 1 .. Len(q) : q[j].uid = q[k].uid => j = k
    BY DEF TouchEvents
  <2>4. e \in EventRec /\ e.uid = u /\ e.src = 0 /\ e.flags
    BY <2>1 DEF Event, EventRec
  <2>5. imap_sieve_create_mailbox_event(q, e) = Append(q, e)
    <3>1. CASE q = <<>>
      BY <3>1 DEF imap_sieve_create_mailbox_event
    <3>2. CASE q # <<>>
      <4>1. Len(q) \in 1 .. Len(q)
        BY <2>1, <3>2
      <4>2. q[Len(q)].uid # e.uid
        BY <2>2, <2>4, <4>1
      <4>3. QED BY <4>2 DEF imap_sieve_create_mailbox_event
    <3>3. QED BY <3>1, <3>2
  <2>6. r = [imap_sieve_add_mailbox_event(t, e) EXCEPT !.touched = @ \cup {u}]
    BY <1>2 DEF imap_sieve_mail_update_flags
  <2>7. imap_sieve_add_mailbox_event(t, e) = [t EXCEPT !.events = Append(q, e), !.changed = t.changed \/ e.flags]
    BY <2>5 DEF imap_sieve_add_mailbox_event
  <2> DEFINE p == Append(q, e)
  <2> HIDE DEF e, q
  <2>8. /\ p \in Seq(EventRec) /\ Len(p) = Len(q) + 1 /\ p[Len(q) + 1] = e
        /\ \A k \in 1 .. Len(q) : p[k] = q[k]
    BY <2>1, <2>4
  <2> HIDE DEF p
  <2>9. imap_sieve_add_mailbox_event(t, e) = [t EXCEPT !.events = p, !.changed = TRUE]
    BY <2>4, <2>7 DEF p
  <2>10. /\ r \in TransRec /\ r.events = p /\ r.touched = t.touched \cup {u} /\ r.open = t.open
         /\ r.hooked = t.hooked /\ r.saved = t.saved /\ r.marked = t.marked
    <3> DEFINE a == [t EXCEPT !.events = p, !.changed = TRUE]
    <3>1. /\ a \in TransRec /\ a.events = p /\ a.touched = t.touched /\ a.open = t.open /\ a.hooked = t.hooked
          /\ a.saved = t.saved /\ a.marked = t.marked
      BY <2>8 DEF TransRec
    <3>2. r = [a EXCEPT !.touched = @ \cup {u}]
      BY <2>6, <2>9
    <3> HIDE DEF a
    <3>3. QED BY ONLY <3>1, <3>2, u \in Uids DEF TransRec
  <2>11. \A k \in 1 .. Len(p) : p[k].uid \in t.touched \cup {u} /\ p[k].src = 0
    <3>1. Len(q) \in Nat
      BY <2>1
    <3>2. QED BY <2>2, <2>4, <2>8, <3>1
  <2>12. ASSUME NEW j \in 1 .. Len(p), NEW k \in 1 .. Len(p), p[j].uid = p[k].uid
         PROVE  j = k
    <3>1. Len(q) \in Nat
      BY <2>1
    <3>2. CASE j \in 1 .. Len(q) /\ k \in 1 .. Len(q)
      BY <2>3, <2>8, <2>12, <3>2
    <3>3. CASE j = Len(q) + 1 /\ k \in 1 .. Len(q)
      BY <2>2, <2>4, <2>8, <2>12, <3>3
    <3>4. CASE j \in 1 .. Len(q) /\ k = Len(q) + 1
      BY <2>2, <2>4, <2>8, <2>12, <3>4
    <3>5. QED BY <2>8, <3>1, <3>2, <3>3, <3>4
  <2>13. TouchEvents(r)
    BY <2>1, <2>10, <2>11, <2>12 DEF TouchEvents
  <2>14. QED BY <2>10, <2>13
<1>3. QED BY <1>1, <1>2

(* A message is saved, with one event, whatever happens to its flags.      *)
SaveMail(t, u, src, flags) ==
  LET e1 == Event(Len(t.saved), 0, FALSE, src)
      t1 == imap_sieve_add_mailbox_copy_event(t, e1)
      t2 == IF flags THEN imap_sieve_add_mailbox_event(t1, [e1 EXCEPT !.flags = TRUE]) ELSE t1
  IN [t2 EXCEPT !.saved = Append(@, u)]

LEMMA SavedOne ==
  ASSUME NEW t \in TransRec, SaveEvents(t), t.hooked, NEW u \in Uids, NEW src \in {0, u}, NEW flags \in BOOLEAN,
         \A k \in 1 .. Len(t.saved) : t.saved[k] # u, NEW r, r = SaveMail(t, u, src, flags)
  PROVE  r \in TransRec /\ SaveEvents(r) /\ r.open = t.open /\ r.hooked /\ r.saved = Append(t.saved, u)
<1> DEFINE e1 == Event(Len(t.saved), 0, FALSE, src)
<1> DEFINE t1 == imap_sieve_add_mailbox_copy_event(t, e1)
<1> DEFINE t2 == IF flags THEN imap_sieve_add_mailbox_event(t1, [e1 EXCEPT !.flags = TRUE]) ELSE t1
<1>0. /\ e1 = Event(Len(t.saved), 0, FALSE, src) /\ t1 = imap_sieve_add_mailbox_copy_event(t, e1)
      /\ t2 = IF flags THEN imap_sieve_add_mailbox_event(t1, [e1 EXCEPT !.flags = TRUE]) ELSE t1
      /\ r = [t2 EXCEPT !.saved = Append(@, u)]
  BY DEF SaveMail
<1> HIDE DEF e1, t1, t2
<1> DEFINE q == t.events
<1> DEFINE w == t.saved
<1> DEFINE n == Len(w)
<1>1. q \in Seq(EventRec) /\ w \in Seq(Uids) /\ n \in Nat /\ Len(q) = n
  BY DEF TransRec, SaveEvents
<1>2. \A k \in 1 .. n : q[k].uid = 0 /\ q[k].save = k - 1 /\ q[k].src \in {0, w[k]}
  BY DEF SaveEvents
<1>3. \A j, k \in 1 .. n : w[j] = w[k] => j = k
  BY DEF SaveEvents
<1>4. /\ e1 \in EventRec /\ e1.uid = 0 /\ e1.save = n /\ e1.src = src /\ ~e1.flags
  BY <1>0, <1>1 DEF Event, EventRec
<1>5. \A k \in 1 .. n : w[k] # u
  OBVIOUS
<1>6. imap_sieve_create_mailbox_event(q, e1) = Append(q, e1)
  <2>1. CASE q = <<>>
    BY <2>1 DEF imap_sieve_create_mailbox_event
  <2>2. CASE q # <<>>
    <3>1. Len(q) \in 1 .. n
      BY <1>1, <2>2
    <3>2. q[Len(q)].save # e1.save
      <4> HIDE DEF q, n
      <4>1. q[n].save = n - 1 /\ n \in Nat
        BY <1>1, <1>2, <3>1
      <4>2. Len(q) = n /\ e1.save = n
        BY <1>1, <1>4
      <4>3. QED BY ONLY <4>1, <4>2
    <3>3. QED BY <3>2 DEF imap_sieve_create_mailbox_event
  <2>3. QED BY <2>1, <2>2
<1> DEFINE p == Append(q, e1)
<1>7. t1 = [t EXCEPT !.events = p, !.changed = @ \/ e1.flags]
  BY <1>0, <1>6 DEF imap_sieve_add_mailbox_copy_event, imap_sieve_add_mailbox_event
<1> HIDE DEF q, w, n
<1>8. /\ p \in Seq(EventRec) /\ Len(p) = n + 1 /\ p[n + 1] = e1 /\ \A k \in 1 .. n : p[k] = q[k]
  <2>1. e1 \in EventRec
    BY <1>4
  <2>2. QED BY ONLY <1>1, <2>1
<1> HIDE DEF p
<1>9. t1 \in TransRec /\ t1.events = p /\ t1.saved = w /\ t1.open = t.open /\ t1.hooked = t.hooked /\ t1.changed = t.changed
  <2>1. t1 = [t EXCEPT !.events = p, !.changed = t.changed]
    BY <1>4, <1>7 DEF TransRec
  <2>2. t.changed \in BOOLEAN
    BY DEF TransRec
  <2>3. QED BY <1>8, <2>1, <2>2 DEF TransRec, w
<1> DEFINE e2 == [e1 EXCEPT !.flags = TRUE]
<1>10. e2 \in EventRec /\ e2.uid = 0 /\ e2.save = n /\ e2.src = src /\ e2.flags
  BY <1>4 DEF EventRec
<1> DEFINE o == [p EXCEPT ![Len(p)].flags = @ \/ e2.flags]
<1>11. /\ o \in Seq(EventRec) /\ Len(o) = n + 1 /\ o[n + 1].uid = 0 /\ o[n + 1].save = n /\ o[n + 1].src = src
       /\ \A k \in 1 .. n : o[k] = q[k]
  <2> DEFINE x == [e1 EXCEPT !.flags = TRUE]
  <2>1. o = [p EXCEPT ![n + 1] = x]
    BY <1>1, <1>4, <1>8, <1>10 DEF EventRec
  <2>2. x \in EventRec /\ x.uid = 0 /\ x.save = n /\ x.src = src
    BY <1>10
  <2> HIDE DEF x, o
  <2>3. QED BY <1>1, <1>8, <2>1, <2>2
<1>12. /\ t2 \in TransRec /\ t2.saved = w /\ t2.open = t.open /\ t2.hooked = t.hooked
       /\ t2.events = p \/ t2.events = o
  <2>1. CASE ~flags
    BY <1>0, <1>9, <2>1
  <2>2. CASE flags
    <3>1. imap_sieve_create_mailbox_event(p, e2) = o
      <4>1. p # <<>> /\ p[Len(p)].save = e2.save /\ p[Len(p)].uid = e2.uid
        <5>1. p # <<>>
          BY <1>1, <1>8
        <5>2. QED BY <1>4, <1>8, <1>10, <5>1
      <4>2. QED BY <4>1 DEF imap_sieve_create_mailbox_event
    <3>2. t2 = [t1 EXCEPT !.events = o, !.changed = @ \/ e2.flags]
      <4>1. t2 = imap_sieve_add_mailbox_event(t1, e2)
        BY <1>0, <2>2
      <4>2. t1.hooked
        BY <1>9
      <4>3. QED BY <1>9, <3>1, <4>1, <4>2 DEF imap_sieve_add_mailbox_event
    <3> HIDE DEF o, e2
    <3>3. t2 = [t1 EXCEPT !.events = o, !.changed = TRUE]
      BY <1>10, <3>2
    <3>4. t2 \in TransRec /\ t2.saved = t1.saved /\ t2.open = t1.open /\ t2.hooked = t1.hooked /\ t2.events = o
      BY ONLY <1>9, <1>11, <3>3 DEF TransRec
    <3>5. QED BY <1>9, <3>4
  <2>3. QED BY <2>1, <2>2
<1>13. PICK z \in {p, o} : t2.events = z
  BY <1>12
<1>14. /\ z \in Seq(EventRec) /\ Len(z) = n + 1 /\ z[n + 1].uid = 0 /\ z[n + 1].save = n /\ z[n + 1].src = src
       /\ \A k \in 1 .. n : z[k] = q[k]
  <2>1. CASE z = p
    BY <1>4, <1>8, <2>1
  <2>2. CASE z = o
    BY <1>11, <2>2
  <2>3. QED BY <2>1, <2>2
<1> HIDE DEF o, e2
<1> DEFINE v == Append(w, u)
<1>15. v \in Seq(Uids) /\ Len(v) = n + 1 /\ v[n + 1] = u /\ \A k \in 1 .. n : v[k] = w[k]
  BY <1>1 DEF n
<1>16. r = [t2 EXCEPT !.saved = v]
  BY <1>0, <1>12
<1> HIDE DEF v
<1>17. r \in TransRec /\ r.saved = v /\ r.events = z /\ r.open = t.open /\ r.hooked = t.hooked
  BY <1>12, <1>13, <1>15, <1>16 DEF TransRec
<1>18. \A k \in 1 .. n + 1 : z[k].uid = 0 /\ z[k].save = k - 1 /\ z[k].src \in {0, v[k]}
  <2>1. ASSUME NEW k \in 1 .. n
        PROVE  z[k].uid = 0 /\ z[k].save = k - 1 /\ z[k].src \in {0, v[k]}
    BY <1>2, <1>14, <1>15
  <2>2. z[n + 1].uid = 0 /\ z[n + 1].save = (n + 1) - 1 /\ z[n + 1].src \in {0, v[n + 1]}
    BY <1>1, <1>14, <1>15
  <2>3. \A k \in 1 .. n + 1 : k \in 1 .. n \/ k = n + 1
    BY ONLY <1>1
  <2>4. QED BY <2>1, <2>2, <2>3
<1>19. ASSUME NEW j \in 1 .. n + 1, NEW k \in 1 .. n + 1, v[j] = v[k]
       PROVE  j = k
  <2>1. CASE j \in 1 .. n /\ k \in 1 .. n
    BY <1>3, <1>15, <1>19, <2>1
  <2>2. CASE j = n + 1 /\ k \in 1 .. n
    BY <1>5, <1>15, <1>19, <2>2
  <2>3. CASE j \in 1 .. n /\ k = n + 1
    BY <1>5, <1>15, <1>19, <2>3
  <2>4. CASE j = n + 1 /\ k = n + 1
    BY <2>4
  <2>5. \A l \in 1 .. n + 1 : l \in 1 .. n \/ l = n + 1
    BY ONLY <1>1
  <2>6. QED BY <2>1, <2>2, <2>3, <2>4, <2>5
<1>20. SaveEvents(r)
  <2>1. Len(r.events) = Len(r.saved) /\ Len(r.saved) = n + 1
    BY <1>14, <1>15, <1>17
  <2>2. QED BY ONLY <1>17, <1>18, <1>19, <2>1 DEF SaveEvents
<1>21. QED BY <1>17, <1>20 DEF v, w

-----------------------------------------------------------------------------
(* The steps of commands *)

LEMMA NewTrans ==
  ASSUME ~user.active, NEW t, t = imap_sieve_mailbox_transaction_begin
  PROVE  /\ t \in TransRec /\ t.open /\ t.hooked /\ t.saved = <<>> /\ t.events = <<>> /\ t.touched = {}
         /\ SaveEvents(t) /\ TouchEvents(t)
<1>1. t = [open |-> TRUE, hooked |-> TRUE, events |-> <<>>, changed |-> FALSE, saved |-> <<>>, touched |-> {}, marked |-> {}]
  BY DEF imap_sieve_mailbox_transaction_begin, NoTrans
<1>2. t \in TransRec /\ t.open /\ t.hooked /\ t.saved = <<>> /\ t.events = <<>> /\ t.touched = {}
  BY ONLY <1>1 DEF TransRec
<1>3. QED BY ONLY <1>2 DEF SaveEvents, TouchEvents

LEMMA CommandBegins ==
  ASSUME ImapInv, imap_sieve_command_pre
  PROVE  ImapInv'
<1>1. /\ user.cmd = "none" /\ filter.state = "off" /\ job.step = "off" /\ log' = NoLog
      /\ trans' = imap_sieve_mailbox_transaction_begin /\ UNCHANGED <<box, copied, job, filter>>
  BY DEF imap_sieve_command_pre, Idle
<1>2. PICK c \in {"append", "copy", "move", "store", "other"} : user' = [user EXCEPT !.cmd = c, !.count = @ + 1]
  BY DEF imap_sieve_command_pre
<1>3. user' \in UserRec /\ user'.cmd = c /\ user'.active = user.active
  <2>1. user \in UserRec
    BY DEF ImapInv, TypeInv
  <2>2. user.count + 1 \in Nat
    BY <2>1 DEF UserRec
  <2>3. c \in Saving \cup {"none", "store", "other", "filter"}
    BY DEF Saving
  <2>4. QED BY ONLY <1>2, <2>1, <2>2, <2>3 DEF UserRec
<1>4. ~user.active
  BY <1>1 DEF ImapInv, PhaseInv
<1>5. /\ trans' \in TransRec /\ trans'.open /\ trans'.hooked /\ trans'.saved = <<>> /\ SaveEvents(trans')
      /\ TouchEvents(trans') /\ trans'.events = <<>>
  BY <1>1, <1>4, NewTrans
<1>6. TypeInv'
  BY <1>1, <1>3, <1>5 DEF ImapInv, TypeInv
<1>7. PhaseInv'
  BY <1>1, <1>3, <1>5 DEF ImapInv, PhaseInv
<1>8. EventsInv'
  BY <1>1, <1>3, <1>5 DEF EventsInv, SaveEvents, TouchEvents
<1>9. JobInv'
  BY <1>1 DEF ImapInv, JobInv, Good, Opening
<1>10. LogInv'
  BY <1>1 DEF ImapInv, LogInv, NoLog
<1>11. FilterInv(filter)'
  BY <1>1 DEF ImapInv, FilterInv, Good, Opening
<1>12. QED BY <1>6, <1>7, <1>8, <1>9, <1>10, <1>11 DEF ImapInv

(* A transaction under way gets one more message.                          *)
LEMMA TransStep ==
  ASSUME ImapInv, job.step = "off", trans.open, filter.state = "off", trans' \in TransRec, trans'.open, trans'.hooked,
         UNCHANGED <<box, copied, user, job, filter, log>>,
         user.cmd \in Saving => SaveEvents(trans') /\
           \A k \in 1 .. Len(trans'.saved) : trans'.saved[k] = Cardinality(Known) + k,
         user.cmd \notin Saving => TouchEvents(trans')
  PROVE  ImapInv'
<1>1. TypeInv'
  BY DEF ImapInv, TypeInv
<1>2. PhaseInv'
  BY DEF ImapInv, PhaseInv
<1>3. EventsInv'
  <2>1. Known' = Known
    BY KnownKept
  <2>2. QED BY <2>1 DEF EventsInv, SaveEvents, TouchEvents
<1>4. JobInv'
  BY DEF ImapInv, JobInv, Good, Opening
<1>5. LogInv'
  BY DEF ImapInv, LogInv
<1>6. FilterInv(filter)'
  BY DEF ImapInv, FilterInv, Good, Opening
<1>7. QED BY <1>1, <1>2, <1>3, <1>4, <1>5, <1>6 DEF ImapInv

LEMMA MessageSaved ==
  ASSUME ImapInv, NEW cmd \in Saving, Saves(cmd)
  PROVE  ImapInv'
<1>1. /\ job.step = "off" /\ user.cmd = cmd /\ trans.open /\ UNCHANGED <<box, copied, user, job, filter, log>>
  BY DEF Saves, Idle, Other
<1>2. PICK u \in Uids, flags \in BOOLEAN :
        /\ u = Cardinality({v \in Uids : box[v] # "none"}) + Len(trans.saved) + 1
        /\ LET n  == Len(trans.saved)
               e1 == Event(n, 0, FALSE, IF cmd = "append" THEN 0 ELSE u)
               t1 == imap_sieve_add_mailbox_copy_event(trans, e1)
               t2 == IF flags THEN imap_sieve_add_mailbox_event(t1, [e1 EXCEPT !.flags = TRUE]) ELSE t1
           IN trans' = [t2 EXCEPT !.saved = Append(@, u)]
  BY Zenon DEF Saves
<1> DEFINE C == Cardinality(Known)
<1>3. u = C + Len(trans.saved) + 1
  BY <1>2 DEF Known
<1>4. C \in Nat
  BY ImapAssumption, FS_Subset, FS_CardinalityType DEF Known
<1>5. /\ trans \in TransRec /\ trans.hooked /\ SaveEvents(trans)
      /\ \A k \in 1 .. Len(trans.saved) : trans.saved[k] = C + k
      /\ filter.state = "off"
  BY <1>1 DEF ImapInv, TypeInv, PhaseInv, EventsInv, Saving
<1> HIDE DEF C
<1>6. trans.saved \in Seq(Uids) /\ Len(trans.saved) \in Nat
  BY <1>5 DEF TransRec
<1>7. \A k \in 1 .. Len(trans.saved) : trans.saved[k] # u
  BY <1>3, <1>4, <1>5, <1>6
<1> DEFINE src == IF cmd = "append" THEN 0 ELSE u
<1>8. trans' = SaveMail(trans, u, src, flags)
  BY <1>2 DEF SaveMail
<1>9. src \in {0, u}
  OBVIOUS
<1> HIDE DEF src
<1>10. /\ trans' \in TransRec /\ SaveEvents(trans') /\ trans'.open = trans.open /\ trans'.hooked
       /\ trans'.saved = Append(trans.saved, u)
  BY <1>5, <1>7, <1>8, <1>9, SavedOne
<1>11. \A k \in 1 .. Len(trans'.saved) : trans'.saved[k] = C + k
  <2>1. Len(trans'.saved) = Len(trans.saved) + 1
    BY <1>6, <1>10
  <2>2. ASSUME NEW k \in 1 .. Len(trans.saved) + 1
        PROVE  trans'.saved[k] = IF k = Len(trans.saved) + 1 THEN u ELSE trans.saved[k]
    BY <1>6, <1>10
  <2>3. ASSUME NEW k \in 1 .. Len(trans.saved) + 1
        PROVE  trans'.saved[k] = C + k
    <3>1. CASE k = Len(trans.saved) + 1
      <4>1. trans'.saved[k] = u
        BY <2>2, <3>1
      <4>2. QED BY ONLY <1>3, <1>4, <1>6, <3>1, <4>1
    <3>2. CASE k # Len(trans.saved) + 1
      <4>1. k \in 1 .. Len(trans.saved)
        BY ONLY <1>6, <3>2, k \in 1 .. Len(trans.saved) + 1
      <4>2. trans'.saved[k] = trans.saved[k]
        BY <2>2, <3>2
      <4>3. QED BY <1>5, <4>1, <4>2
    <3>3. QED BY <3>1, <3>2
  <2>4. QED BY <2>1, <2>3
<1>12. QED BY <1>1, <1>5, <1>10, <1>11, TransStep DEF C

LEMMA FlagsChanged ==
  ASSUME ImapInv, imap_sieve_mail_close
  PROVE  ImapInv'
<1>1. /\ job.step = "off" /\ user.cmd \in {"store", "other"} /\ trans.open
      /\ UNCHANGED <<box, copied, user, job, filter, log>>
  BY DEF imap_sieve_mail_close, Idle, Other
<1>2. PICK u \in Uids : u \notin trans.touched /\ trans' = imap_sieve_mail_update_flags(trans, u)
  BY DEF imap_sieve_mail_close
<1>3. trans \in TransRec /\ trans.hooked /\ TouchEvents(trans) /\ filter.state = "off" /\ user.cmd \notin Saving
  BY <1>1 DEF ImapInv, TypeInv, PhaseInv, EventsInv, Saving
<1>4. trans' \in TransRec /\ TouchEvents(trans') /\ trans'.open = trans.open /\ trans'.hooked
  BY <1>2, <1>3, Touched
<1>5. QED BY <1>1, <1>3, <1>4, TransStep

(* A script that ends with a corrupt binary ends the process.              *)
LEMMA FilterMail ==
  ASSUME ImapInv, imap_filter_mail
  PROVE  ImapInv' /\ filter'.state = filter.state
<1>1. /\ job.step = "off" /\ filter.state = "more" /\ filter \in FilterRec /\ filter.tagged = 0
      /\ filter.scripts \in Seq(ScriptRec) /\ Len(filter.scripts) = 1 /\ Good(filter.scripts)
      /\ filter.todo \in SUBSET Uids
  <2>1. /\ job.step = "off" /\ filter.state = "more" /\ filter \in FilterRec /\ filter.tagged = 0
        /\ filter.scripts # <<>> /\ Len(filter.scripts) <= 1 /\ Good(filter.scripts)
    BY DEF imap_filter_mail, In, Idle, ImapInv, TypeInv, FilterInv
  <2>2. filter.scripts \in Seq(ScriptRec) /\ filter.todo \in SUBSET Uids
    BY <2>1 DEF FilterRec
  <2>3. Len(filter.scripts) = 1
    <3> DEFINE q == filter.scripts
    <3>1. q \in Seq(ScriptRec) /\ q # <<>> /\ Len(q) <= 1
      BY <2>1, <2>2
    <3> HIDE DEF q
    <3>2. Len(q) = 1
      <4>1. q \in Seq(ScriptRec) /\ q # <<>>
        BY <3>1
      <4>2. Len(q) \in 1 .. Len(q)
        BY ONLY <4>1
      <4>3. QED BY <3>1, <4>2
    <3>3. QED BY <3>2 DEF q
  <2>4. QED BY <2>1, <2>2, <2>3
<1>2. PICK u \in filter.todo, r \in imap_sieve_filter_run_scripts(filter.scripts) :
        IF Panics(r) THEN Panic
        ELSE /\ filter' = [filter EXCEPT !.scripts = r.scripts, !.todo = IF r.fatal THEN {} ELSE @ \ {u}]
             /\ trans' = IF r.ret > 0 THEN [imap_sieve_mail_update_flags(trans, u) EXCEPT !.marked = @ \cup {u}] ELSE trans
             /\ Logged("filter", u, r)
             /\ UNCHANGED <<box, copied, user, job>>
  BY Zenon DEF imap_filter_mail
<1>3. CASE Panics(r)
  BY <1>2, <1>3, PanicKeeps
<1>4. CASE ~Panics(r)
  <2> DEFINE todo == IF r.fatal THEN {} ELSE filter.todo \ {u}
  <2>1. /\ filter' = [filter EXCEPT !.scripts = r.scripts, !.todo = todo]
        /\ trans' = IF r.ret > 0 THEN [imap_sieve_mail_update_flags(trans, u) EXCEPT !.marked = @ \cup {u}] ELSE trans
        /\ log' = Record("filter", u, r)
        /\ UNCHANGED <<box, copied, user, job>>
    BY <1>2, <1>4 DEF Logged
  <2>2. r.scripts \in Seq(ScriptRec) /\ Len(r.scripts) = 1 /\ Good(r.scripts)
    BY <1>1, FilterRun
  <2>3. todo \in SUBSET Uids /\ todo \subseteq filter.todo \ {u}
    BY <1>1
  <2> HIDE DEF todo
  <2>4. /\ filter' \in FilterRec /\ filter'.state = "more" /\ filter'.tagged = 0 /\ filter'.todo = todo
        /\ filter'.scripts = r.scripts /\ filter'.reply = filter.reply
    BY <1>1, <2>1, <2>2, <2>3 DEF FilterRec
  <2>14. ~filter.reply
    BY <1>1 DEF ImapInv, FilterInv
  <2>5. FilterInv(filter)'
    <3>1. Good(filter'.scripts) /\ Len(filter'.scripts) <= 1 /\ filter'.scripts # <<>>
      <4> DEFINE q == r.scripts
      <4>1. q \in Seq(ScriptRec) /\ Len(q) = 1 /\ filter'.scripts = q /\ Good(q)
        BY <2>2, <2>4
      <4> HIDE DEF q
      <4>2. Len(q) = 1 /\ Len(<<>>) = 0
        BY <4>1
      <4>3. q # <<>> /\ Len(q) <= 1
        BY ONLY <4>2
      <4>4. QED BY <4>1, <4>3
    <3>2. QED BY <2>4, <2>14, <3>1 DEF FilterInv, Good, Opening
  <2>6. /\ trans \in TransRec /\ user.cmd = "filter" /\ u \in Uids /\ trans.open /\ trans.hooked /\ TouchEvents(trans)
        /\ u \notin trans.touched /\ \A v \in filter.todo : v \notin trans.touched
    BY <1>1 DEF ImapInv, TypeInv, PhaseInv, EventsInv, LogInv, Saving
  <2>7. /\ trans' \in TransRec /\ trans'.open = trans.open /\ trans'.touched \subseteq trans.touched \cup {u}
        /\ trans'.hooked /\ TouchEvents(trans')
    <3>1. CASE r.ret > 0
      <4> DEFINE t == imap_sieve_mail_update_flags(trans, u)
      <4>1. /\ t \in TransRec /\ TouchEvents(t) /\ t.open = trans.open /\ t.hooked
            /\ t.touched \subseteq trans.touched \cup {u}
        BY <2>6, Touched
      <4>2. trans' = [t EXCEPT !.marked = @ \cup {u}]
        BY <2>1, <3>1
      <4>3. u \in Uids
        BY <2>6
      <4> HIDE DEF t
      <4>4. /\ trans' \in TransRec /\ trans'.open = t.open /\ trans'.hooked = t.hooked /\ trans'.touched = t.touched
            /\ trans'.saved = t.saved /\ trans'.events = t.events
        BY ONLY <4>1, <4>2, <4>3 DEF TransRec
      <4>5. TouchEvents(trans')
        BY <4>1, <4>4 DEF TouchEvents
      <4>6. QED BY <4>1, <4>4, <4>5
    <3>2. CASE ~(r.ret > 0)
      BY <2>1, <2>6, <3>2
    <3>3. QED BY <3>1, <3>2
  <2>8. TypeInv'
    BY <2>1, <2>4, <2>7 DEF ImapInv, TypeInv
  <2>9. PhaseInv'
    BY <1>1, <2>1, <2>4, <2>7 DEF ImapInv, PhaseInv
  <2>10. EventsInv'
    <3>1. user'.cmd = "filter" /\ user'.cmd \notin Saving
      BY <2>1, <2>6 DEF Saving
    <3>2. TouchEvents(trans)'
      BY <2>7 DEF TouchEvents
    <3>3. QED BY <3>1, <3>2 DEF EventsInv
  <2>11. JobInv'
    BY <1>1, <2>1 DEF ImapInv, JobInv, Good, Opening
  <2>12. LogInv'
    <3>1. <<"filter", u>> \notin log.seen /\ \A v \in filter.todo : <<"filter", v>> \notin log.seen
      BY <1>1 DEF ImapInv, LogInv
    <3>2. log'.seen = log.seen \cup {<<"filter", u>>} /\ log'.twice = (log.twice \/ <<"filter", u>> \in log.seen)
      BY <2>1 DEF Record
    <3>3. log'.twice = FALSE
      BY <3>1, <3>2 DEF ImapInv, LogInv
    <3>4. \A x \in log'.seen : x[1] = "filter"
      BY <1>1, <3>2 DEF ImapInv, LogInv
    <3>5. \A v \in filter'.todo : <<"filter", v>> \notin log'.seen /\ v \notin trans'.touched
      BY <2>3, <2>4, <2>6, <2>7, <3>1, <3>2
    <3>6. QED BY <1>1, <2>1, <2>4, <3>3, <3>4, <3>5 DEF LogInv
  <2>13. QED BY <1>1, <2>4, <2>5, <2>8, <2>9, <2>10, <2>11, <2>12 DEF ImapInv
<1>5. QED BY <1>3, <1>4

LEMMA Commits ==
  ASSUME ImapInv, imap_sieve_mailbox_transaction_commit
  PROVE  ImapInv'
<1>1. /\ job.step = "off" /\ trans.open /\ filter.state \in {"off", "ended"} /\ box' = Committed
      /\ job' = [NoJob EXCEPT !.step = "init"] /\ user' = [user EXCEPT !.active = TRUE] /\ UNCHANGED <<copied, trans, filter, log>>
  BY DEF imap_sieve_mailbox_transaction_commit, Idle
<1>2. user' \in UserRec /\ user'.cmd = user.cmd /\ user'.active
  BY <1>1 DEF ImapInv, TypeInv, UserRec
<1>3. job' = [step |-> "init", i |-> 0, main |-> <<>>, iflag |-> <<>>, source |-> <<>>, fatal |-> FALSE]
  BY <1>1 DEF NoJob
<1>4. job' \in JobRec /\ job'.step = "init" /\ job'.main = <<>> /\ job'.iflag = <<>> /\ job'.source = <<>>
  BY ONLY <1>3 DEF JobRec
<1>5. box' \in [Uids -> Boxes]
  BY <1>1 DEF ImapInv, TypeInv, Committed, Boxes
<1>6. TypeInv' /\ PhaseInv'
  BY <1>1, <1>2, <1>4, <1>5 DEF ImapInv, TypeInv, PhaseInv
<1>7. EventsInv'
  BY <1>1, <1>2, <1>4, EventsKept DEF ImapInv
<1>8. JobInv'
  BY <1>4 DEF JobInv, Good
<1>9. LogInv'
  BY <1>1, <1>4 DEF ImapInv, LogInv
<1>10. FilterInv(filter)'
  BY <1>1 DEF ImapInv, FilterInv, Good, Opening
<1>11. QED BY <1>6, <1>7, <1>8, <1>9, <1>10 DEF ImapInv

LEMMA NoTransFacts == NoTrans \in TransRec /\ ~NoTrans.open /\ NoTrans.events = <<>>
<1>1. NoTrans = [open |-> FALSE, hooked |-> FALSE, events |-> <<>>, changed |-> FALSE, saved |-> <<>>, touched |-> {}, marked |-> {}]
  BY DEF NoTrans
<1>2. QED BY ONLY <1>1 DEF TransRec

LEMMA CommandEnds ==
  ASSUME ImapInv, imap_sieve_mailbox_transaction_rollback \/ imap_sieve_command_post
  PROVE  ImapInv'
<1>1. /\ job.step = "off" /\ filter.state = "off" /\ UNCHANGED <<box, copied, job, filter, log>>
  BY DEF imap_sieve_mailbox_transaction_rollback, imap_sieve_command_post, Idle
<1>2. trans' \in TransRec /\ ~trans'.open
  BY NoTransFacts DEF imap_sieve_mailbox_transaction_rollback, imap_sieve_command_post, ImapInv, TypeInv
<1>3. user' \in UserRec /\ user'.active = user.active /\ user'.cmd # "filter"
  BY <1>1 DEF imap_sieve_mailbox_transaction_rollback, imap_sieve_command_post, ImapInv, TypeInv, PhaseInv, UserRec
<1>4. TypeInv' /\ PhaseInv' /\ EventsInv'
  BY <1>1, <1>2, <1>3 DEF ImapInv, TypeInv, PhaseInv, EventsInv
<1>5. JobInv'
  BY <1>1 DEF ImapInv, JobInv, Good, Opening
<1>6. LogInv'
  BY <1>1 DEF ImapInv, LogInv
<1>7. FilterInv(filter)'
  BY <1>1 DEF ImapInv, FilterInv, Good, Opening
<1>8. QED BY <1>4, <1>5, <1>6, <1>7 DEF ImapInv

LEMMA Expunges ==
  ASSUME ImapInv, Expunge
  PROVE  ImapInv' /\ UNCHANGED <<log, filter>>
<1>1. PICK u \in Uids : There(u) /\ box' = [box EXCEPT ![u] = "gone"]
  BY DEF Expunge
<1>2. UNCHANGED <<copied, user, trans, job, filter, log>>
  BY DEF Expunge
<1>3. box \in [Uids -> Boxes]
  BY DEF ImapInv, TypeInv
<1>4. box' \in [Uids -> Boxes]
  BY <1>1, <1>3 DEF Boxes
<1>5. Known' = Known
  BY <1>1, <1>3 DEF Known, There
<1>6. TypeInv' /\ PhaseInv'
  BY <1>2, <1>4 DEF ImapInv, TypeInv, PhaseInv
<1>7. EventsInv' /\ JobInv'
  BY <1>2, <1>5, EventsKept, JobKept DEF ImapInv
<1>8. LogInv'
  BY <1>2 DEF ImapInv, LogInv, Before, UidOf
<1>9. FilterInv(filter)'
  BY <1>2 DEF ImapInv, FilterInv, Good, Opening
<1>10. QED BY <1>2, <1>6, <1>7, <1>8, <1>9 DEF ImapInv

-----------------------------------------------------------------------------
(* The run of imapsieve's scripts *)

LEMMA JobEnds ==
  ASSUME ImapInv, EndJob, UNCHANGED <<box, copied, filter>>, job.step # "off",
         log' = NoLog \/ (log' = log /\ job.step = "init")
  PROVE  ImapInv'
<1>1. job' = NoJob /\ user' = [user EXCEPT !.active = FALSE] /\ trans' = NoTrans
  BY DEF EndJob
<1>2. job' \in JobRec /\ job'.step = "off" /\ job'.main = <<>> /\ job'.iflag = <<>> /\ job'.source = <<>>
  BY ONLY <1>1 DEF JobRec, NoJob
<1>3. user' \in UserRec /\ user'.cmd = user.cmd /\ user'.active = FALSE
  BY <1>1 DEF ImapInv, TypeInv, UserRec
<1>9. trans' \in TransRec /\ ~trans'.open
  BY <1>1, NoTransFacts
<1>10. TypeInv'
  BY <1>2, <1>3, <1>9 DEF ImapInv, TypeInv
<1>4. PhaseInv' /\ EventsInv'
  <2>1. filter.state \in {"off", "ended"} /\ (filter.state # "off") = (user.cmd = "filter") /\ filter' = filter
    BY DEF ImapInv, PhaseInv
  <2>2. PhaseInv'
    BY <1>2, <1>3, <1>9, <2>1 DEF PhaseInv
  <2>3. QED BY <1>9, <2>2 DEF EventsInv
<1>5. JobInv'
  BY <1>2 DEF JobInv, Good
<1>6. LogInv'
  <2>1. filter.state \in {"off", "ended"}
    BY DEF ImapInv, PhaseInv
  <2>2. QED BY <1>2, <2>1 DEF ImapInv, LogInv, NoLog
<1>7. FilterInv(filter)'
  BY DEF ImapInv, FilterInv, Good, Opening
<1>8. QED BY <1>4, <1>5, <1>6, <1>7, <1>10 DEF ImapInv

LEMMA FreshScripts ==
  /\ \A q \in imap_sieve_run_init : q \in Seq(ScriptRec) /\ Len(q) <= 2 /\ Good(q)
  /\ \A q \in Single : q \in Seq(ScriptRec) /\ Len(q) <= 1 /\ Good(q)
<1>1. \A b \in BOOLEAN : Script(b) \in ScriptRec /\ Opening(Script(b))
  BY DEF Script, ScriptRec, Opening
<1> DEFINE x == Script(FALSE)
<1> DEFINE y == Script(TRUE)
<1>2. x \in ScriptRec /\ Opening(x) /\ y \in ScriptRec /\ Opening(y)
  BY <1>1
<1> HIDE DEF x, y
<1>3. <<x, y>> \in Seq(ScriptRec) /\ Len(<<x, y>>) = 2 /\ <<x, y>>[1] = x /\ <<x, y>>[2] = y
  BY <1>2
<1>4. <<y>> \in Seq(ScriptRec) /\ Len(<<y>>) = 1 /\ <<y>>[1] = y
  BY <1>2
<1>5. Good(<<x, y>>)
  BY <1>2, <1>3 DEF Good
<1>6. Good(<<y>>)
  BY <1>2, <1>4 DEF Good
<1>7. <<>> \in Seq(ScriptRec) /\ Len(<<>>) = 0 /\ Good(<<>>)
  BY DEF Good
<1>8. imap_sieve_run_init = {<<>>, <<x, y>>} /\ Single = {<<>>, <<y>>}
  BY DEF imap_sieve_run_init, ScriptLists, Single, x, y
<1>9. <<x, y>> \in Seq(ScriptRec) /\ Len(<<x, y>>) <= 2 /\ <<y>> \in Seq(ScriptRec) /\ Len(<<y>>) <= 1
  BY <1>3, <1>4
<1>10. <<>> \in Seq(ScriptRec) /\ Len(<<>>) <= 2 /\ Len(<<>>) <= 1
  BY <1>7
<1>11. QED BY <1>5, <1>6, <1>7, <1>8, <1>9, <1>10, Zenon

LEMMA JobBegins ==
  ASSUME ImapInv, TransactionRun
  PROVE  ImapInv' /\ log' = log
<1>1. job.step = "init" /\ UNCHANGED <<box, copied, filter, log>>
  BY DEF TransactionRun, At
<1>2. CASE EndJob
  BY <1>1, <1>2, JobEnds
<1>3. CASE \E main \in imap_sieve_run_init, source \in Single, iflag \in Single :
             /\ job' = [NoJob EXCEPT !.step = "main", !.i = 1, !.main = main, !.source = source, !.iflag = iflag]
             /\ UNCHANGED <<user, trans>>
  <2>1. PICK main \in imap_sieve_run_init, source \in Single, iflag \in Single :
             /\ job' = [NoJob EXCEPT !.step = "main", !.i = 1, !.main = main, !.source = source, !.iflag = iflag]
             /\ UNCHANGED <<user, trans>>
    BY <1>3
  <2>2. main \in Seq(ScriptRec) /\ Len(main) <= 2 /\ Good(main)
    BY FreshScripts
  <2>3. source \in Seq(ScriptRec) /\ Len(source) <= 1 /\ Good(source)
    BY FreshScripts
  <2>4. iflag \in Seq(ScriptRec) /\ Len(iflag) <= 1 /\ Good(iflag)
    BY FreshScripts
  <2>5. job' = [step |-> "main", i |-> 1, main |-> main, iflag |-> iflag, source |-> source, fatal |-> FALSE]
    BY <2>1 DEF NoJob
  <2>6. job' \in JobRec /\ job'.step = "main" /\ job'.i = 1 /\ job'.main = main /\ job'.iflag = iflag /\ job'.source = source
    BY ONLY <2>2, <2>3, <2>4, <2>5 DEF JobRec
  <2>7. TypeInv' /\ PhaseInv'
    BY <1>1, <2>1, <2>6 DEF ImapInv, TypeInv, PhaseInv
  <2>8. EventsInv'
    BY <1>1, <2>1, <2>6, EventsKept DEF ImapInv
  <2>9. JobInv'
    BY <2>2, <2>3, <2>4, <2>6 DEF JobInv, Good, Opening
  <2>10. LogInv'
    <3>1. \A x \in log.seen : x[1] = "filter"
      BY <1>1 DEF ImapInv, LogInv
    <3>2. \A u \in Uids : <<"main", u>> \notin log.seen /\ <<"iflag", u>> \notin log.seen /\ <<"source", u>> \notin log.seen
      BY <3>1
    <3>3. filter.state \in {"off", "ended"}
      BY <1>1 DEF ImapInv, PhaseInv
    <3>4. QED BY <1>1, <2>6, <3>2, <3>3 DEF ImapInv, LogInv
  <2>11. FilterInv(filter)'
    BY <1>1 DEF ImapInv, FilterInv, Good, Opening
  <2>12. QED BY <1>1, <2>7, <2>8, <2>9, <2>10, <2>11 DEF ImapInv
<1>4. QED BY <1>2, <1>3, Zenon DEF TransactionRun

(* Different events are about different messages.                          *)
LEMMA OneEventEach ==
  ASSUME ImapInv, trans.open
  PROVE  /\ \A k \in 1 .. Len(trans.events) : UidOf(trans.events[k]) \in Uids /\ trans.events[k].src \in {0} \cup Uids
         /\ \A j, k \in 1 .. Len(trans.events) : UidOf(trans.events[j]) = UidOf(trans.events[k]) => j = k
         /\ \A j, k \in 1 .. Len(trans.events) :
              trans.events[j].src = trans.events[k].src /\ trans.events[j].src # 0 => j = k
<1> DEFINE q == trans.events
<1> DEFINE w == trans.saved
<1>1. q \in Seq(EventRec) /\ w \in Seq(Uids) /\ trans.touched \in SUBSET Uids
  BY DEF ImapInv, TypeInv, TransRec
<1>2. \A u \in Uids : u \in Nat /\ u > 0
  BY ImapAssumption
<1>3. CASE user.cmd \in Saving
  <2>1. /\ Len(q) = Len(w) /\ \A k \in 1 .. Len(q) : q[k].uid = 0 /\ q[k].save = k - 1 /\ q[k].src \in {0, w[k]}
    BY <1>3 DEF ImapInv, EventsInv, SaveEvents
  <2>2. \A j, k \in 1 .. Len(q) : w[j] = w[k] => j = k
    BY <1>3 DEF ImapInv, EventsInv, SaveEvents
  <2>3. ASSUME NEW k \in 1 .. Len(q)
        PROVE  UidOf(q[k]) = w[k] /\ w[k] \in Uids
    <3>1. UidOf(q[k]) = w[(k - 1) + 1]
      BY <2>1 DEF UidOf
    <3> HIDE DEF q, w
    <3>2. QED BY <1>1, <2>1, <3>1
  <2> HIDE DEF q, w
  <2>4. \A k \in 1 .. Len(q) : UidOf(q[k]) \in Uids /\ q[k].src \in {0} \cup Uids
    BY <2>1, <2>3
  <2>5. \A j, k \in 1 .. Len(q) : UidOf(q[j]) = UidOf(q[k]) => j = k
    BY <2>2, <2>3
  <2>6. \A j, k \in 1 .. Len(q) : q[j].src = q[k].src /\ q[j].src # 0 => j = k
    BY <2>1, <2>2
  <2>7. QED BY <2>4, <2>5, <2>6 DEF q
<1>4. CASE user.cmd \notin Saving
  <2>1. \A k \in 1 .. Len(q) : q[k].uid \in trans.touched /\ q[k].src = 0
    BY <1>4 DEF ImapInv, EventsInv, TouchEvents
  <2>2. \A j, k \in 1 .. Len(q) : q[j].uid = q[k].uid => j = k
    BY <1>4 DEF ImapInv, EventsInv, TouchEvents
  <2>3. ASSUME NEW k \in 1 .. Len(q)
        PROVE  UidOf(q[k]) = q[k].uid /\ q[k].uid \in Uids
    BY <1>1, <1>2, <2>1 DEF UidOf
  <2> HIDE DEF q
  <2>4. QED BY <2>1, <2>2, <2>3 DEF q
<1>5. QED BY <1>3, <1>4

(* The message that the scripts of a step are run for.                     *)
Subject == IF job.step = "source" THEN Current.src ELSE UidOf(Current)

(* The order of the steps for one event, and from one event to the next.   *)
Advance ==
  \/ job'.step = "commit"
  \/ job'.step = "main" /\ job'.i = job.i + 1
  \/ job'.i = job.i /\ job.step \in {"main", "iflag"} /\ job'.step = "source"
  \/ job'.i = job.i /\ job.step = "main" /\ job'.step = "iflag"

LEMMA NotSeen ==
  ASSUME ImapInv, job.step \in {"main", "iflag", "source"}, job.i \in 1 .. Len(trans.events),
         job.step = "source" => Current.src # 0
  PROVE  Subject \in Uids /\ <<job.step, Subject>> \notin log.seen
<1> DEFINE q == trans.events
<1> DEFINE i == job.i
<1>1. trans.open
  BY DEF ImapInv, PhaseInv
<1>2. /\ \A k \in 1 .. Len(q) : UidOf(q[k]) \in Uids /\ q[k].src \in {0} \cup Uids
      /\ \A j, k \in 1 .. Len(q) : UidOf(q[j]) = UidOf(q[k]) => j = k
      /\ \A j, k \in 1 .. Len(q) : q[j].src = q[k].src /\ q[j].src # 0 => j = k
  BY <1>1, OneEventEach
<1>3. CASE job.step \in {"main", "iflag"}
  <2>1. Subject = UidOf(q[i]) /\ Subject \in Uids
    BY <1>2, <1>3 DEF Subject, Current
  <2>2. ASSUME <<job.step, Subject>> \in log.seen
        PROVE  FALSE
    <3>1. Before(i, Subject)
      BY <1>3, <2>1, <2>2 DEF ImapInv, LogInv
    <3>2. PICK k \in 1 .. Len(q) : k < i /\ Subject = UidOf(q[k])
      BY <3>1 DEF Before
    <3>3. k = i
      BY <1>2, <2>1, <3>2
    <3>4. QED BY <3>2, <3>3
  <2>3. QED BY <2>1, <2>2
<1>4. CASE job.step = "source"
  <2>1. Subject = q[i].src /\ Subject \in Uids /\ Subject # 0
    BY <1>2, <1>4 DEF Subject, Current
  <2>2. ASSUME <<job.step, Subject>> \in log.seen
        PROVE  FALSE
    <3>1. PICK k \in 1 .. Len(q) : k < i /\ Subject = q[k].src
      BY <1>4, <2>1, <2>2 DEF ImapInv, LogInv
    <3>2. k = i
      BY <1>2, <2>1, <3>1
    <3>3. QED BY <3>1, <3>2
  <2>3. QED BY <2>1, <2>2
<1>5. QED BY <1>3, <1>4

(* What scripts have seen stays behind the current event.                  *)
LEMMA LogAdvances ==
  ASSUME ImapInv, job.step \in {"main", "iflag", "source"}, job.i \in 1 .. Len(trans.events), Advance,
         trans' = trans, filter' = filter, log'.twice = FALSE, log'.seen \subseteq log.seen \cup {<<job.step, Subject>>}
  PROVE  LogInv'
<1> DEFINE n == Len(trans.events)
<1> DEFINE i == job.i
<1>1. filter.state \in {"off", "ended"}
  BY DEF ImapInv, PhaseInv
<1>2. i \in Nat /\ n \in Nat /\ i \in 1 .. n
  BY DEF ImapInv, TypeInv, TransRec, JobRec
<1>3. ASSUME NEW u \in Uids
      PROVE  /\ <<"main", u>> \in log.seen => Before(IF job.step = "main" THEN i ELSE i + 1, u)
             /\ <<"iflag", u>> \in log.seen => Before(IF job.step = "source" THEN i + 1 ELSE i, u)
             /\ <<"source", u>> \in log.seen => \E k \in 1 .. n : k < i /\ u = trans.events[k].src
  BY DEF ImapInv, LogInv
<1>4. ASSUME NEW u, NEW a \in Nat, NEW b \in Nat, a <= b, Before(a, u)
      PROVE  Before(b, u)
  BY <1>4 DEF Before
<1>5. job.step \in {"main", "iflag"} => Before(i + 1, Subject)
  BY <1>2 DEF Before, Subject, Current
<1>6. ASSUME NEW u \in Uids, <<"main", u>> \in log'.seen
      PROVE  Before(i + 1, u)
  <2>1. CASE <<"main", u>> \in log.seen
    <3>1. CASE job.step = "main"
      <4>1. Before(i, u)
        BY <1>3, <2>1, <3>1
      <4>2. QED BY <1>2, <1>4, <4>1
    <3>2. CASE job.step # "main"
      BY <1>3, <2>1, <3>2
    <3>3. QED BY <3>1, <3>2
  <2>2. CASE <<"main", u>> = <<job.step, Subject>>
    BY <1>5, <2>2
  <2>3. QED BY <1>6, <2>1, <2>2
<1>7. ASSUME NEW u \in Uids, <<"iflag", u>> \in log'.seen
      PROVE  /\ Before(i + 1, u)
             /\ job.step = "main" => Before(i, u)
  <2>1. CASE <<"iflag", u>> \in log.seen
    <3>1. CASE job.step # "source"
      <4>1. Before(i, u)
        BY <1>3, <2>1, <3>1
      <4>2. QED BY <1>2, <1>4, <4>1
    <3>2. CASE job.step = "source"
      BY <1>3, <2>1, <3>2
    <3>3. QED BY <3>1, <3>2
  <2>2. CASE <<"iflag", u>> = <<job.step, Subject>>
    BY <1>5, <2>2
  <2>3. QED BY <1>7, <2>1, <2>2
<1>8. ASSUME NEW u \in Uids, <<"source", u>> \in log'.seen
      PROVE  /\ \E k \in 1 .. n : k < i + 1 /\ u = trans.events[k].src
             /\ job.step # "source" => \E k \in 1 .. n : k < i /\ u = trans.events[k].src
  <2>1. CASE <<"source", u>> \in log.seen
    <3>1. PICK k \in 1 .. n : k < i /\ u = trans.events[k].src
      BY <1>3, <2>1
    <3>2. k < i + 1
      BY <1>2, <3>1
    <3>3. QED BY <3>1, <3>2
  <2>2. CASE <<"source", u>> = <<job.step, Subject>>
    <3>1. job.step = "source" /\ u = trans.events[i].src
      BY <2>2 DEF Subject, Current
    <3>2. i < i + 1
      BY <1>2
    <3>3. QED BY <1>2, <3>1, <3>2
  <2>3. QED BY <1>8, <2>1, <2>2
<1>9. \A m, u : Before(m, u)' = Before(m, u)
  BY DEF Before, UidOf
<1>10. CASE job'.step = "commit"
  BY <1>1, <1>10 DEF LogInv
<1>11. CASE job'.step = "main" /\ job'.i = i + 1
  <2>1. \A u \in Uids :
          /\ <<"main", u>> \in log'.seen => Before(i + 1, u)
          /\ <<"iflag", u>> \in log'.seen => Before(i + 1, u)
          /\ <<"source", u>> \in log'.seen => \E k \in 1 .. n : k < i + 1 /\ u = trans.events[k].src
    BY <1>6, <1>7, <1>8
  <2>2. QED BY <1>1, <1>11, <2>1 DEF LogInv, Before, UidOf
<1>12. CASE job'.i = i /\ job.step = "main" /\ job'.step = "iflag"
  <2>1. \A u \in Uids :
          /\ <<"main", u>> \in log'.seen => Before(i + 1, u)
          /\ <<"iflag", u>> \in log'.seen => Before(i, u)
          /\ <<"source", u>> \in log'.seen => \E k \in 1 .. n : k < i /\ u = trans.events[k].src
    BY <1>6, <1>7, <1>8, <1>12
  <2>2. QED BY <1>1, <1>12, <2>1 DEF LogInv, Before, UidOf
<1>13. CASE job'.i = i /\ job.step \in {"main", "iflag"} /\ job'.step = "source"
  <2>1. \A u \in Uids :
          /\ <<"main", u>> \in log'.seen => Before(i + 1, u)
          /\ <<"iflag", u>> \in log'.seen => Before(i + 1, u)
          /\ <<"source", u>> \in log'.seen => \E k \in 1 .. n : k < i /\ u = trans.events[k].src
    BY <1>6, <1>7, <1>8, <1>13
  <2>2. QED BY <1>1, <1>13, <2>1 DEF LogInv, Before, UidOf
<1>14. QED BY <1>10, <1>11, <1>12, <1>13 DEF Advance

(* A step of the run, after which the run goes on or is committed.         *)
LEMMA JobStep ==
  ASSUME ImapInv, job.step \in {"main", "iflag", "source"}, job.i \in 1 .. Len(trans.events), Advance,
         UNCHANGED <<user, trans, filter>>, box' \in [Uids -> Boxes], copied' \in [Uids -> Boxes], job' \in JobRec,
         Len(job'.main) <= 2 /\ Good(job'.main), Len(job'.iflag) <= 1 /\ Good(job'.iflag),
         Len(job'.source) <= 1 /\ Good(job'.source),
         log'.twice = FALSE, log'.seen \subseteq log.seen \cup {<<job.step, Subject>>}
  PROVE  ImapInv'
<1>1. job'.step \in {"main", "iflag", "source", "commit"}
  BY DEF Advance
<1>2. TypeInv' /\ PhaseInv'
  BY <1>1 DEF ImapInv, TypeInv, PhaseInv
<1>3. EventsInv'
  BY <1>1, EventsKept DEF ImapInv
<1>4. JobInv'
  <2>1. job.i \in Nat /\ job.i > 0 /\ job.i <= Len(trans.events)
    BY DEF ImapInv, TypeInv, JobRec
  <2>2. /\ job'.step \in {"main", "iflag", "source"} => job'.i > 0
        /\ job'.step \in {"iflag", "source"} => job'.i <= Len(trans'.events)
    BY <2>1 DEF Advance
  <2>3. QED BY <2>2 DEF JobInv, Good, Opening
<1>5. LogInv'
  BY LogAdvances
<1>6. FilterInv(filter)'
  BY DEF ImapInv, FilterInv, Good, Opening
<1>7. QED BY <1>2, <1>3, <1>4, <1>5, <1>6 DEF ImapInv

LEMMA SomeScripts ==
  ASSUME NEW q \in Seq(ScriptRec), q # <<>>, Len(q) <= 2
  PROVE  Len(q) \in 1 .. 2
<1> DEFINE n == Len(q)
<1>1. n \in Nat /\ n <= 2
  OBVIOUS
<1>2. n # 0
  OBVIOUS
<1> HIDE DEF n
<1>3. n \in 1 .. 2
  BY <1>1, <1>2
<1>4. QED BY <1>3 DEF n

LEMMA NextEventOf ==
  ASSUME NEW j \in JobRec
  PROVE  /\ NextEvent(j) \in JobRec /\ NextEvent(j).step = "main" /\ NextEvent(j).i = j.i + 1
         /\ NextEvent(j).main = j.main /\ NextEvent(j).iflag = j.iflag /\ NextEvent(j).source = j.source
<1> DEFINE k == [j EXCEPT !.step = "main"]
<1>1. k \in JobRec /\ k.step = "main" /\ k.i = j.i /\ k.main = j.main /\ k.iflag = j.iflag /\ k.source = j.source
  BY DEF JobRec
<1>2. NextEvent(j) = [k EXCEPT !.i = @ + 1]
  BY DEF NextEvent
<1> HIDE DEF k
<1>3. k.i + 1 \in Nat
  BY <1>1 DEF JobRec
<1>4. QED BY ONLY <1>1, <1>2, <1>3 DEF JobRec

LEMMA Recorded ==
  ASSUME ImapInv, job.step \in {"main", "iflag", "source"}, job.i \in 1 .. Len(trans.events),
         job.step = "source" => Current.src # 0, NEW r, Logged(job.step, Subject, r)
  PROVE  /\ log'.twice = FALSE /\ log'.seen \subseteq log.seen \cup {<<job.step, Subject>>}
         /\ log'.last.uid = Subject /\ log'.last.why = Why(r)
<1>1. <<job.step, Subject>> \notin log.seen /\ log.twice = FALSE
  BY NotSeen DEF ImapInv, LogInv
<1>2. /\ log'.seen = log.seen \cup {<<job.step, Subject>>}
      /\ log'.twice = (log.twice \/ <<job.step, Subject>> \in log.seen)
      /\ log'.last = [uid |-> Subject, why |-> Why(r), ret |-> r.ret]
  BY DEF Logged, Record
<1>3. log'.last.uid = Subject /\ log'.last.why = Why(r)
  BY <1>2
<1>4. log'.twice = FALSE
  BY <1>1, <1>2
<1>5. QED BY <1>2, <1>3, <1>4

LEMMA Discarded ==
  ASSUME box \in [Uids -> Boxes], NEW u \in Uids, NEW r, r.ret \in -1 .. 1, NEW b \in Discard(u, r)
  PROVE  /\ b \in [Uids -> Boxes]
         /\ \A v \in Uids : b[v] # box[v] => v = u /\ r.ret > 0 /\ user.cmd \in Saving
<1>1. CASE r.ret <= 0 \/ ~can_discard \/ ~There(u)
  BY <1>1 DEF Discard
<1>2. CASE ~(r.ret <= 0 \/ ~can_discard \/ ~There(u))
  <2>1. b = [box EXCEPT ![u] = "deleted"] \/ b = [box EXCEPT ![u] = "gone"]
    BY <1>2 DEF Discard
  <2>2. r.ret > 0 /\ user.cmd \in Saving
    BY <1>2 DEF can_discard, Saving
  <2>3. QED BY <2>1, <2>2 DEF Boxes
<1>3. QED BY <1>1, <1>2

GivenUpStep ==
  \A u \in Uids : box[u] = "there" /\ box'[u] \in {"deleted", "gone"} /\ job.step \in {"main", "iflag"} /\ log' # log =>
    LET run == log'.last
    IN user.cmd \in {"append", "copy", "move"} /\ run.uid = u /\ run.why \in {"discarded", "aborted"}

LEMMA MainRun ==
  ASSUME ImapInv, RunMain
  PROVE  ImapInv' /\ GivenUpStep /\ UNCHANGED filter
<1> DEFINE u == UidOf(Current)
<1>1. job.step = "main" /\ job.i <= Len(trans.events)
  BY DEF RunMain, At
<1>2. /\ job \in JobRec /\ job.i \in 1 .. Len(trans.events) /\ box \in [Uids -> Boxes] /\ copied \in [Uids -> Boxes]
  <2>1. trans.events \in Seq(EventRec) /\ job \in JobRec /\ job.i \in Nat /\ job.i > 0
    BY <1>1 DEF ImapInv, TypeInv, JobInv, TransRec, JobRec
  <2>2. Len(trans.events) \in Nat
    BY <2>1
  <2>3. QED BY <1>1, <2>1, <2>2 DEF ImapInv, TypeInv
<1>3. /\ Len(job.main) <= 2 /\ Good(job.main) /\ Len(job.iflag) <= 1 /\ Good(job.iflag)
      /\ Len(job.source) <= 1 /\ Good(job.source) /\ log.twice = FALSE
  BY DEF ImapInv, JobInv, LogInv
<1>4. u = Subject
  BY <1>1 DEF Subject
<1>5. CASE job' = NextEvent(job) /\ UNCHANGED <<box, copied, user, trans, filter, log>>
  <2>1. /\ job' \in JobRec /\ job'.step = "main" /\ job'.i = job.i + 1 /\ job'.main = job.main
        /\ job'.iflag = job.iflag /\ job'.source = job.source
    BY <1>2, <1>5, NextEventOf
  <2>2. Advance
    BY <2>1 DEF Advance
  <2>3. QED BY <1>1, <1>2, <1>3, <1>5, <2>1, <2>2, JobStep DEF GivenUpStep
<1>6. CASE job' = [job EXCEPT !.step = "iflag"] /\ UNCHANGED <<box, copied, user, trans, filter, log>>
  <2>1. /\ job' \in JobRec /\ job'.step = "iflag" /\ job'.i = job.i /\ job'.main = job.main
        /\ job'.iflag = job.iflag /\ job'.source = job.source
    BY <1>2, <1>6 DEF JobRec
  <2>2. Advance
    BY <1>1, <2>1 DEF Advance
  <2>3. QED BY <1>1, <1>2, <1>3, <1>6, <2>1, <2>2, JobStep DEF GivenUpStep
<1>7. ASSUME job.main # <<>>, NEW r \in imap_sieve_run_scripts(job.main), ~Panics(r), Logged("main", u, r),
             box' \in IF r.fatal THEN {box} ELSE Discard(u, r), UNCHANGED <<copied, user, trans, filter>>,
             LET j == [job EXCEPT !.main = r.scripts]
             IN job' = CASE r.fatal -> [j EXCEPT !.step = "commit"]
                         [] ~r.fatal /\ r.ret < 0 -> NextEvent(j)
                         [] OTHER -> [j EXCEPT !.step = IF box'[u] = "gone" THEN "source" ELSE "iflag"]
      PROVE  ImapInv' /\ GivenUpStep /\ UNCHANGED filter
  <2>1. job.main \in Seq(ScriptRec)
    BY <1>2 DEF JobRec
  <2>2. /\ r.scripts \in Seq(ScriptRec) /\ Len(r.scripts) = Len(job.main) /\ Good(r.scripts)
        /\ r.ret \in -1 .. 1
        /\ r.ret > 0 => Why(r) \in {"discarded", "aborted"}
    BY <1>3, <1>7, <2>1, SomeScripts, EventRun
  <2>3. u \in Uids
    BY <1>1, <1>2, <1>4, NotSeen
  <2>4. /\ log'.twice = FALSE /\ log'.seen \subseteq log.seen \cup {<<job.step, Subject>>}
        /\ log'.last.uid = u /\ log'.last.why = Why(r)
    BY <1>1, <1>2, <1>4, <1>7, Recorded
  <2>5. /\ box' \in [Uids -> Boxes]
        /\ \A v \in Uids : box'[v] # box[v] => v = u /\ r.ret > 0 /\ user.cmd \in Saving
    BY <1>2, <1>7, <2>2, <2>3, Discarded
  <2> DEFINE j == [job EXCEPT !.main = r.scripts]
  <2>6. /\ j \in JobRec /\ j.i = job.i /\ j.main = r.scripts /\ j.iflag = job.iflag /\ j.source = job.source
    BY <1>2, <2>2 DEF JobRec
  <2>7. \/ job' = [j EXCEPT !.step = "commit"]
        \/ job' = NextEvent(j)
        \/ job' = [j EXCEPT !.step = "source"]
        \/ job' = [j EXCEPT !.step = "iflag"]
    BY <1>7
  <2> HIDE DEF j
  <2>8. /\ job' \in JobRec /\ job'.main = j.main /\ job'.iflag = j.iflag /\ job'.source = j.source
        /\ \/ job'.step = "commit"
           \/ job'.step = "main" /\ job'.i = j.i + 1
           \/ job'.i = j.i /\ job'.step \in {"iflag", "source"}
    <3>1. CASE job' = [j EXCEPT !.step = "commit"]
      BY ONLY <2>6, <3>1 DEF JobRec
    <3>2. CASE job' = NextEvent(j)
      BY ONLY <2>6, <3>2, NextEventOf
    <3>3. CASE job' = [j EXCEPT !.step = "source"]
      BY ONLY <2>6, <3>3 DEF JobRec
    <3>4. CASE job' = [j EXCEPT !.step = "iflag"]
      BY ONLY <2>6, <3>4 DEF JobRec
    <3>5. QED BY <2>7, <3>1, <3>2, <3>3, <3>4
  <2>9. Advance
    BY <1>1, <2>6, <2>8 DEF Advance
  <2>10. /\ Len(job'.main) <= 2 /\ Good(job'.main) /\ Len(job'.iflag) <= 1 /\ Good(job'.iflag)
         /\ Len(job'.source) <= 1 /\ Good(job'.source)
    BY <1>3, <2>2, <2>6, <2>8
  <2>11. ImapInv'
    BY <1>1, <1>2, <1>7, <2>4, <2>5, <2>8, <2>9, <2>10, JobStep
  <2>12. GivenUpStep
    BY <2>2, <2>4, <2>5 DEF GivenUpStep, Saving
  <2>13. QED BY <1>7, <2>11, <2>12
<1>8. CASE Panic
  BY <1>8, PanicKeeps DEF GivenUpStep
<1>9. \/ job' = NextEvent(job) /\ UNCHANGED <<box, copied, user, trans, filter, log>>
      \/ job' = [job EXCEPT !.step = "iflag"] /\ UNCHANGED <<box, copied, user, trans, filter, log>>
      \/ /\ job.main # <<>>
         /\ \E r \in imap_sieve_run_scripts(job.main) :
              IF Panics(r) THEN Panic
              ELSE /\ Logged("main", u, r)
                   /\ box' \in IF r.fatal THEN {box} ELSE Discard(u, r)
                   /\ LET j == [job EXCEPT !.main = r.scripts]
                      IN job' = CASE r.fatal -> [j EXCEPT !.step = "commit"]
                                  [] ~r.fatal /\ r.ret < 0 -> NextEvent(j)
                                  [] OTHER -> [j EXCEPT !.step = IF box'[u] = "gone" THEN "source" ELSE "iflag"]
                   /\ UNCHANGED <<copied, user, trans, filter>>
  BY Zenon DEF RunMain
<1> HIDE DEF u
<1>10. QED BY <1>5, <1>6, <1>7, <1>8, <1>9, Zenon

(* The current event of the steps that follow the main scripts.            *)
LEMMA CurrentEvent ==
  ASSUME ImapInv, job.step \in {"iflag", "source"}
  PROVE  /\ job \in JobRec /\ job.i \in 1 .. Len(trans.events) /\ box \in [Uids -> Boxes] /\ copied \in [Uids -> Boxes]
         /\ Len(job.main) <= 2 /\ Good(job.main) /\ Len(job.iflag) <= 1 /\ Good(job.iflag)
         /\ Len(job.source) <= 1 /\ Good(job.source) /\ log.twice = FALSE
<1>1. /\ trans.events \in Seq(EventRec) /\ job \in JobRec /\ job.i \in Nat /\ job.i > 0 /\ job.i <= Len(trans.events)
  BY DEF ImapInv, TypeInv, JobInv, TransRec, JobRec
<1>2. Len(trans.events) \in Nat
  BY <1>1
<1>3. job.i \in 1 .. Len(trans.events)
  BY <1>1, <1>2
<1>4. QED BY <1>1, <1>3 DEF ImapInv, TypeInv, JobInv, LogInv

LEMMA OneScript ==
  ASSUME NEW q \in Seq(ScriptRec), q # <<>>, Len(q) <= 1
  PROVE  Len(q) \in 1 .. 2
<1> DEFINE n == Len(q)
<1>1. n \in Nat /\ n <= 1
  OBVIOUS
<1>2. n # 0
  OBVIOUS
<1> HIDE DEF n
<1>3. n \in 1 .. 2
  BY <1>1, <1>2
<1>4. QED BY <1>3 DEF n

LEMMA FlagRun ==
  ASSUME ImapInv, RunFlag
  PROVE  ImapInv' /\ GivenUpStep /\ UNCHANGED filter
<1> DEFINE u == UidOf(Current)
<1>1. job.step = "iflag"
  BY DEF RunFlag, At
<1>2. /\ job \in JobRec /\ job.i \in 1 .. Len(trans.events) /\ box \in [Uids -> Boxes] /\ copied \in [Uids -> Boxes]
  BY <1>1, CurrentEvent
<1>3. /\ Len(job.main) <= 2 /\ Good(job.main) /\ Len(job.iflag) <= 1 /\ Good(job.iflag)
      /\ Len(job.source) <= 1 /\ Good(job.source) /\ log.twice = FALSE
  BY <1>1, CurrentEvent
<1>4. u = Subject
  BY <1>1 DEF Subject
<1>5. CASE job' = [job EXCEPT !.step = "source"] /\ UNCHANGED <<box, copied, user, trans, filter, log>>
  <2>1. /\ job' \in JobRec /\ job'.step = "source" /\ job'.i = job.i /\ job'.main = job.main
        /\ job'.iflag = job.iflag /\ job'.source = job.source
    BY <1>2, <1>5 DEF JobRec
  <2>2. Advance
    BY <1>1, <2>1 DEF Advance
  <2>3. QED BY <1>1, <1>2, <1>3, <1>5, <2>1, <2>2, JobStep DEF GivenUpStep
<1>6. ASSUME job.iflag # <<>>, NEW r \in imap_sieve_run_scripts(job.iflag), ~Panics(r), Logged("iflag", u, r),
             box' \in Discard(u, r), UNCHANGED <<copied, user, trans, filter>>,
             LET j == [job EXCEPT !.iflag = r.scripts]
             IN job' = IF r.ret < 0 THEN NextEvent(j) ELSE [j EXCEPT !.step = "source"]
      PROVE  ImapInv' /\ GivenUpStep /\ UNCHANGED filter
  <2>1. job.iflag \in Seq(ScriptRec)
    BY <1>2 DEF JobRec
  <2>2. /\ r.scripts \in Seq(ScriptRec) /\ Len(r.scripts) = Len(job.iflag) /\ Good(r.scripts)
        /\ r.ret \in -1 .. 1
        /\ r.ret > 0 => Why(r) \in {"discarded", "aborted"}
    BY <1>3, <1>6, <2>1, OneScript, EventRun
  <2>3. u \in Uids
    BY <1>1, <1>2, <1>4, NotSeen
  <2>4. /\ log'.twice = FALSE /\ log'.seen \subseteq log.seen \cup {<<job.step, Subject>>}
        /\ log'.last.uid = u /\ log'.last.why = Why(r)
    BY <1>1, <1>2, <1>4, <1>6, Recorded
  <2>5. /\ box' \in [Uids -> Boxes]
        /\ \A v \in Uids : box'[v] # box[v] => v = u /\ r.ret > 0 /\ user.cmd \in Saving
    BY <1>2, <1>6, <2>2, <2>3, Discarded
  <2> DEFINE j == [job EXCEPT !.iflag = r.scripts]
  <2>6. /\ j \in JobRec /\ j.i = job.i /\ j.main = job.main /\ j.iflag = r.scripts /\ j.source = job.source
    BY <1>2, <2>2 DEF JobRec
  <2>7. job' = NextEvent(j) \/ job' = [j EXCEPT !.step = "source"]
    BY <1>6
  <2> HIDE DEF j
  <2>8. /\ job' \in JobRec /\ job'.main = j.main /\ job'.iflag = j.iflag /\ job'.source = j.source
        /\ \/ job'.step = "main" /\ job'.i = j.i + 1
           \/ job'.i = j.i /\ job'.step = "source"
    <3>1. CASE job' = NextEvent(j)
      BY ONLY <2>6, <3>1, NextEventOf
    <3>2. CASE job' = [j EXCEPT !.step = "source"]
      BY ONLY <2>6, <3>2 DEF JobRec
    <3>3. QED BY <2>7, <3>1, <3>2
  <2>9. Advance
    BY <1>1, <2>6, <2>8 DEF Advance
  <2>10. /\ Len(job'.main) <= 2 /\ Good(job'.main) /\ Len(job'.iflag) <= 1 /\ Good(job'.iflag)
         /\ Len(job'.source) <= 1 /\ Good(job'.source)
    BY <1>3, <2>2, <2>6, <2>8
  <2>11. ImapInv'
    BY <1>1, <1>2, <1>6, <2>4, <2>5, <2>8, <2>9, <2>10, JobStep
  <2>12. GivenUpStep
    BY <2>2, <2>4, <2>5 DEF GivenUpStep, Saving
  <2>13. QED BY <1>6, <2>11, <2>12
<1>7. CASE Panic
  BY <1>7, PanicKeeps DEF GivenUpStep
<1>8. IF job.iflag = <<>>
      THEN job' = [job EXCEPT !.step = "source"] /\ UNCHANGED <<box, copied, user, trans, filter, log>>
      ELSE \E r \in imap_sieve_run_scripts(job.iflag) :
             IF Panics(r) THEN Panic
             ELSE /\ Logged("iflag", u, r)
                  /\ box' \in Discard(u, r)
                  /\ LET j == [job EXCEPT !.iflag = r.scripts]
                     IN job' = IF r.ret < 0 THEN NextEvent(j) ELSE [j EXCEPT !.step = "source"]
                  /\ UNCHANGED <<copied, user, trans, filter>>
  BY Zenon DEF RunFlag
<1> HIDE DEF u
<1>9. QED BY <1>5, <1>6, <1>7, <1>8, Zenon

LEMMA SourceRun ==
  ASSUME ImapInv, imap_sieve_mailbox_run_copy_source
  PROVE  ImapInv' /\ GivenUpStep /\ UNCHANGED filter
<1> DEFINE u == Current.src
<1>1. job.step = "source"
  BY DEF imap_sieve_mailbox_run_copy_source, At
<1>2. /\ job \in JobRec /\ job.i \in 1 .. Len(trans.events) /\ box \in [Uids -> Boxes] /\ copied \in [Uids -> Boxes]
  BY <1>1, CurrentEvent
<1>3. /\ Len(job.main) <= 2 /\ Good(job.main) /\ Len(job.iflag) <= 1 /\ Good(job.iflag)
      /\ Len(job.source) <= 1 /\ Good(job.source) /\ log.twice = FALSE
  BY <1>1, CurrentEvent
<1>4. u = Subject
  BY <1>1 DEF Subject
<1>5. GivenUpStep
  BY <1>1 DEF GivenUpStep
<1>6. CASE job' = NextEvent(job) /\ UNCHANGED <<box, copied, user, trans, filter, log>>
  <2>1. /\ job' \in JobRec /\ job'.step = "main" /\ job'.i = job.i + 1 /\ job'.main = job.main
        /\ job'.iflag = job.iflag /\ job'.source = job.source
    BY <1>2, <1>6, NextEventOf
  <2>2. Advance
    BY <2>1 DEF Advance
  <2>3. QED BY <1>1, <1>2, <1>3, <1>5, <1>6, <2>1, <2>2, JobStep
<1>7. ASSUME job.source # <<>>, u # 0, NEW r \in imap_sieve_run_scripts(job.source), ~Panics(r), Logged("source", u, r),
             copied' = IF r.ret > 0 THEN [copied EXCEPT ![u] = "deleted"] ELSE copied,
             UNCHANGED <<box, user, trans, filter>>,
             LET j == [job EXCEPT !.source = r.scripts]
             IN job' = IF r.fatal THEN [j EXCEPT !.step = "commit"] ELSE NextEvent(j)
      PROVE  ImapInv' /\ UNCHANGED filter
  <2>1. job.source \in Seq(ScriptRec)
    BY <1>2 DEF JobRec
  <2>2. /\ r.scripts \in Seq(ScriptRec) /\ Len(r.scripts) = Len(job.source) /\ Good(r.scripts)
    BY <1>3, <1>7, <2>1, OneScript, EventRun
  <2>3. /\ log'.twice = FALSE /\ log'.seen \subseteq log.seen \cup {<<job.step, Subject>>}
    BY <1>1, <1>2, <1>4, <1>7, Recorded
  <2>4. copied' \in [Uids -> Boxes]
    BY <1>2, <1>7 DEF Boxes
  <2> DEFINE j == [job EXCEPT !.source = r.scripts]
  <2>5. /\ j \in JobRec /\ j.i = job.i /\ j.main = job.main /\ j.iflag = job.iflag /\ j.source = r.scripts
    BY <1>2, <2>2 DEF JobRec
  <2>6. job' = NextEvent(j) \/ job' = [j EXCEPT !.step = "commit"]
    BY <1>7
  <2> HIDE DEF j
  <2>7. /\ job' \in JobRec /\ job'.main = j.main /\ job'.iflag = j.iflag /\ job'.source = j.source
        /\ \/ job'.step = "main" /\ job'.i = j.i + 1
           \/ job'.step = "commit"
    <3>1. CASE job' = NextEvent(j)
      BY ONLY <2>5, <3>1, NextEventOf
    <3>2. CASE job' = [j EXCEPT !.step = "commit"]
      BY ONLY <2>5, <3>2 DEF JobRec
    <3>3. QED BY <2>6, <3>1, <3>2
  <2>8. Advance
    BY <2>5, <2>7 DEF Advance
  <2>9. /\ Len(job'.main) <= 2 /\ Good(job'.main) /\ Len(job'.iflag) <= 1 /\ Good(job'.iflag)
        /\ Len(job'.source) <= 1 /\ Good(job'.source)
    BY <1>3, <2>2, <2>5, <2>7
  <2>10. QED BY <1>1, <1>2, <1>7, <2>3, <2>4, <2>7, <2>8, <2>9, JobStep
<1>8. CASE Panic
  BY <1>5, <1>8, PanicKeeps
<1>9. \/ (job.source = <<>> \/ u # 0) /\ job' = NextEvent(job) /\ UNCHANGED <<box, copied, user, trans, filter, log>>
      \/ job.source # <<>> /\ \E r \in imap_sieve_run_scripts(job.source) :
             IF u = 0 \/ Panics(r) THEN Panic
             ELSE /\ Logged("source", u, r)
                  /\ copied' = IF r.ret > 0 THEN [copied EXCEPT ![u] = "deleted"] ELSE copied
                  /\ LET j == [job EXCEPT !.source = r.scripts]
                     IN job' = IF r.fatal THEN [j EXCEPT !.step = "commit"] ELSE NextEvent(j)
                  /\ UNCHANGED <<box, user, trans, filter>>
  BY Zenon DEF imap_sieve_mailbox_run_copy_source
<1> HIDE DEF u
<1>10. QED BY <1>5, <1>6, <1>7, <1>8, <1>9, Zenon

-----------------------------------------------------------------------------
(* Theorems *)

LEMMA ImapInvInit ==
  ASSUME Init
  PROVE  ImapInv
<1>1. box \in [Uids -> Boxes] /\ copied \in [Uids -> Boxes]
  BY DEF Init, Boxes
<1>2. user \in UserRec /\ user.cmd = "none" /\ user.active = FALSE
  BY DEF Init, UserRec, Saving
<1>3. trans \in TransRec /\ ~trans.open
  BY NoTransFacts DEF Init
<1>4. job \in JobRec /\ job.step = "off" /\ job.main = <<>> /\ job.iflag = <<>> /\ job.source = <<>>
  BY DEF Init, NoJob, JobRec
<1>5. /\ filter \in FilterRec /\ filter.state = "off" /\ filter.scripts = <<>> /\ filter.tagged = 0 /\ ~filter.big
      /\ ~filter.reply
  BY DEF Init, NoFilter, FilterRec
<1>6. log.seen = {} /\ log.twice = FALSE
  BY DEF Init, NoLog
<1>7. TypeInv /\ PhaseInv /\ EventsInv
  BY <1>1, <1>2, <1>3, <1>4, <1>5 DEF TypeInv, PhaseInv, EventsInv
<1>8. JobInv /\ FilterInv(filter)
  BY <1>4, <1>5 DEF JobInv, FilterInv, Good
<1>9. LogInv
  BY <1>4, <1>5, <1>6 DEF LogInv
<1>10. QED BY <1>7, <1>8, <1>9 DEF ImapInv

CleanStep ==
  filter.state # "ended" /\ filter'.state = "ended" /\ filter.state \notin {"off", "search"} =>
    filter'.callback /\ filter'.held = {}

LEMMA ImapStep ==
  ASSUME ImapInv, [Next]_vars
  PROVE  ImapInv' /\ GivenUpStep /\ CleanStep
<1>1. ASSUME UNCHANGED filter
      PROVE  CleanStep
  BY <1>1 DEF CleanStep
<1>2. ASSUME job.step = "off"
      PROVE  GivenUpStep
  BY <1>2 DEF GivenUpStep
<1>3. CASE imap_sieve_command_pre
  BY <1>1, <1>2, <1>3, CommandBegins DEF imap_sieve_command_pre, Idle
<1>4. CASE imap_sieve_mailbox_save_finish \/ imap_sieve_mailbox_copy
  <2>1. PICK c \in Saving : Saves(c)
    BY <1>4 DEF imap_sieve_mailbox_save_finish, imap_sieve_mailbox_copy, Saving
  <2>2. job.step = "off" /\ UNCHANGED filter
    BY <2>1 DEF Saves, Idle, Other
  <2>3. QED BY <1>1, <1>2, <2>1, <2>2, MessageSaved
<1>5. CASE imap_sieve_mail_close
  <2>1. job.step = "off" /\ UNCHANGED filter
    BY <1>5 DEF imap_sieve_mail_close, Idle, Other
  <2>2. QED BY <1>1, <1>2, <1>5, <2>1, FlagsChanged
<1>6. CASE imap_sieve_mailbox_transaction_commit
  BY <1>1, <1>2, <1>6, Commits DEF imap_sieve_mailbox_transaction_commit, Idle
<1>7. CASE imap_sieve_mailbox_transaction_rollback \/ imap_sieve_command_post
  <2>1. job.step = "off" /\ UNCHANGED filter
    BY <1>7 DEF imap_sieve_mailbox_transaction_rollback, imap_sieve_command_post, Idle
  <2>2. QED BY <1>1, <1>2, <1>7, <2>1, CommandEnds
<1>8. CASE TransactionRun
  <2>1. UNCHANGED <<box, filter>>
    BY <1>8 DEF TransactionRun
  <2>2. GivenUpStep
    BY <2>1 DEF GivenUpStep
  <2>3. QED BY <1>1, <1>8, <2>1, <2>2, JobBegins
<1>9. CASE RunMain
  BY <1>1, <1>9, MainRun
<1>10. CASE RunFlag
  BY <1>1, <1>10, FlagRun
<1>11. CASE imap_sieve_mailbox_run_copy_source
  BY <1>1, <1>11, SourceRun
<1>12. CASE RunEnds
  <2>1. EndJob /\ log' = NoLog /\ UNCHANGED <<box, copied, filter>> /\ job.step # "off"
    BY <1>12 DEF RunEnds, At
  <2>2. GivenUpStep
    BY <2>1 DEF GivenUpStep
  <2>3. QED BY <1>1, <2>1, <2>2, JobEnds
<1>13. CASE cmd_filter
  <2>1. job.step = "off" /\ filter.state = "off"
    BY <1>13 DEF cmd_filter, Idle
  <2>2. QED BY <1>2, <1>13, <2>1, FilterBegins DEF CleanStep
<1>14. CASE cmd_filter_sieve_delivery \/ cmd_filter_sieve_script_parse_name \/ cmd_filter_sieve_script_parse_value
             \/ cmd_filter_sieve_script_read_stream
  <2>1. job.step = "off"
    BY <1>14 DEF cmd_filter_sieve_delivery, cmd_filter_sieve_script_parse_name, cmd_filter_sieve_script_parse_value,
                 cmd_filter_sieve_script_read_stream, In, Idle
  <2>2. QED BY <1>2, <1>14, <2>1, ScriptRead DEF CleanStep
<1>15. CASE imap_filter_search
  <2>1. job.step = "off" /\ filter.state = "search"
    BY <1>15 DEF imap_filter_search, In, Idle
  <2>2. QED BY <1>2, <1>15, <2>1, SearchKey DEF CleanStep
<1>16. CASE imap_filter_mail
  <2>1. job.step = "off"
    BY <1>16 DEF imap_filter_mail, In, Idle
  <2>2. QED BY <1>2, <1>16, <2>1, FilterMail DEF CleanStep
<1>17. CASE imap_filter_more \/ Cancel
  <2>1. job.step = "off"
    BY <1>17 DEF imap_filter_more, Cancel, In, Idle
  <2>2. QED BY <1>2, <1>17, <2>1, FilterEnding DEF CleanStep
<1>18. CASE FilterReply
  <2>1. job.step = "off"
    BY <1>18 DEF FilterReply, Idle
  <2>2. QED BY <1>2, <1>18, <2>1, FilterReplied DEF CleanStep
<1>19. CASE FilterDone
  <2>1. job.step = "off"
    BY <1>19 DEF FilterDone, Idle
  <2>2. QED BY <1>2, <1>19, <2>1, FilterOver DEF CleanStep
<1>20. CASE Expunge
  BY <1>1, <1>20, Expunges DEF GivenUpStep
<1>21. CASE UNCHANGED vars
  <2>1. UNCHANGED <<box, copied, user, trans, job, filter, log>>
    BY <1>21 DEF vars
  <2>2. TypeInv' /\ PhaseInv'
    BY <2>1 DEF ImapInv, TypeInv, PhaseInv
  <2>3. EventsInv' /\ JobInv'
    BY <2>1, EventsKept, JobKept, KnownKept DEF ImapInv
  <2>4. LogInv' /\ FilterInv(filter)'
    BY <2>1 DEF ImapInv, LogInv, Before, UidOf, FilterInv, Good, Opening
  <2>5. GivenUpStep
    BY <2>1 DEF GivenUpStep
  <2>6. QED BY <1>1, <2>1, <2>2, <2>3, <2>4, <2>5 DEF ImapInv
<1>22. QED
  BY <1>3, <1>4, <1>5, <1>6, <1>7, <1>8, <1>9, <1>10, <1>11, <1>12, <1>13, <1>14, <1>15, <1>16, <1>17, <1>18,
     <1>19, <1>20, <1>21 DEF Next, SieveNext, FilterNext

LEMMA ImapInvHolds == Spec => []ImapInv
<1>1. Init => ImapInv
  BY ImapInvInit
<1>2. ImapInv /\ [Next]_vars => ImapInv'
  BY ImapStep
<1>3. QED BY <1>1, <1>2, PTL DEF Spec

(* cmd_filter, on every path: one tagged reply unless the client is gone,  *)
(* and on every path but an error of the search key everything released    *)
(* and the flush callback set.                                             *)
THEOREM FilterCommandEnds == Spec => FilterEnds
<1>1. ImapInv => FilterAnswered
  BY DEF ImapInv, FilterInv, FilterAnswered
<1>2. ImapInv /\ [Next]_vars => CleanStep
  BY ImapStep
<1>3. CleanStep => [filter.state # "ended" /\ filter'.state = "ended" /\ filter.state \notin {"off", "search"} =>
                      filter'.callback /\ filter'.held = {}]_vars
  BY DEF CleanStep
<1>4. QED BY <1>1, <1>2, <1>3, ImapInvHolds, PTL DEF Spec, FilterEnds, FilterCleansUp

(* imap_sieve_mailbox_transaction_run: each kind of script sees a message  *)
(* once in a transaction, a script is opened once (again only for a        *)
(* corrupt binary), and a message is given up only on a script's account.  *)
THEOREM ScriptsSeeMessagesOnce == Spec => MessagesHandledOnce
<1>1. ImapInv => ImapTypeOK /\ OncePerMessage /\ OpenedOnce
  <2> SUFFICES ASSUME ImapInv
               PROVE  ImapTypeOK /\ OncePerMessage /\ OpenedOnce
    OBVIOUS
  <2>1. ImapTypeOK
    BY DEF ImapInv, TypeInv, PhaseInv, FilterRec, Boxes, ImapTypeOK
  <2>2. OncePerMessage
    BY DEF ImapInv, LogInv, OncePerMessage
  <2>3. ASSUME NEW q \in Seq(ScriptRec), Good(q), NEW i \in 1 .. Len(q)
        PROVE  q[i].opens <= IF q[i].again THEN 2 ELSE 1
    <3>1. q[i] \in ScriptRec /\ Opening(q[i])
      BY <2>3 DEF Good
    <3>2. q[i].opens \in 0 .. 2
      BY <3>1 DEF ScriptRec
    <3>3. QED BY <3>1, <3>2 DEF Opening
  <2>4. \A q \in {job.main, job.iflag, job.source, filter.scripts} : q \in Seq(ScriptRec) /\ Good(q)
    <3>1. job \in JobRec /\ filter \in FilterRec
      BY DEF ImapInv, TypeInv
    <3>2. /\ job.main \in Seq(ScriptRec) /\ job.iflag \in Seq(ScriptRec) /\ job.source \in Seq(ScriptRec)
          /\ filter.scripts \in Seq(ScriptRec)
      BY <3>1 DEF JobRec, FilterRec
    <3>3. Good(job.main) /\ Good(job.iflag) /\ Good(job.source) /\ Good(filter.scripts)
      BY DEF ImapInv, JobInv, FilterInv
    <3>4. QED BY <3>2, <3>3
  <2>5. OpenedOnce
    BY <2>3, <2>4 DEF OpenedOnce
  <2>6. QED BY <2>1, <2>2, <2>5
<1>2. ImapInv /\ [Next]_vars => GivenUpStep
  BY ImapStep
<1>3. GivenUpStep =>
        [\A u \in Uids : box[u] = "there" /\ box'[u] \in {"deleted", "gone"} /\ job.step \in {"main", "iflag"} /\ log' # log =>
           LET run == log'.last
           IN user.cmd \in {"append", "copy", "move"} /\ run.uid = u /\ run.why \in {"discarded", "aborted"}]_vars
  BY DEF GivenUpStep
<1>4. QED BY <1>1, <1>2, <1>3, ImapInvHolds, PTL DEF Spec, MessagesHandledOnce, GivenUpOnPurpose
===============================================================================
