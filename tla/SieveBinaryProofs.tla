-------------------------- MODULE SieveBinaryProofs --------------------------
(***************************************************************************)
(* Proofs about SieveBinary, for any number of deliveries and any limits:  *)
(* a delivery runs a current binary, as far as time stamps can tell, and   *)
(* the headers of the binaries are accounts in which no entry is lost.     *)
(***************************************************************************)
EXTENDS SieveBinary, TLAPS

Usage == 0 .. UintMax
SbinType  == [ino : Nat, ver : Nat, usage : Usage, upd : Nat, flag : BOOLEAN, rusage : Usage, updated : BOOLEAN]
DelType   == [pc : Steps, st : Nat, begun : Nat, sbin : SbinType, carried : Usage, resave : BOOLEAN,
              cpu : Usage, fd : Nat, tmp : Nat]
InodeType == [ver : Nat, mtime : Nat, kind : Kinds, usage : Usage, upd : Nat,
              flag : BOOLEAN, late : BOOLEAN]

(* The types of the state, and the bounds of the files.                    *)
Types ==
  /\ clock \in 1 .. MaxClock
  /\ script \in [ver : Nat, mtime : Nat]
  /\ inodes \in Seq(InodeType) /\ Len(inodes) <= MaxInodes
  /\ bin \in 0 .. Len(inodes)
  /\ lock \in [1 .. MaxInodes -> Deliveries \cup {NoDelivery}]
  /\ del \in [Deliveries -> DelType]

(* No file is from the future; an excessive usage has disabled its script. *)
InodesOK ==
  \A i \in 1 .. Len(inodes) :
    /\ inodes[i].mtime <= clock
    /\ Account!IsExcessive(inodes[i].usage) => inodes[i].flag

(* A binary at the path that is outdated, and is not marked late, shows    *)
(* it by its time stamp when compared with that of version v.              *)
OldByTime(v, t) ==
  bin # 0 /\ inodes[bin].ver < v /\ ~inodes[bin].late => inodes[bin].mtime <= t

(* What holds of a delivery d with the record r at each of its steps:      *)
(*   - the binary it loads is judged by the time of the script it began    *)
(*     with, the binary it saves or runs is not older than that script;    *)
(*   - a binary that has a file owes nothing to its header until it was    *)
(*     run, and then a usage worth an entry;                               *)
(*   - who writes a header holds its lock and has read it under the lock.  *)
DeliveryOK(d, r) ==
  /\ r.begun <= script.ver
  /\ r.sbin.ino <= Len(inodes) /\ (r.sbin.ino # 0 => bin # 0)
  /\ r.pc = "load" => OldByTime(r.begun, r.st)
  /\ r.pc \in {"load", "compile"} => r.sbin = NoBinary
  /\ r.pc \in {"save", "rename"} => (r.sbin.ino = 0 \/ r.resave) /\ r.sbin.ver >= r.begun
  /\ r.pc \in {"close", "lock", "write"} => r.begun = 0
  /\ r.pc = "rename" => r.tmp \in 1 .. Len(inodes) /\ r.sbin.rusage = 0 /\ ~r.sbin.updated
  /\ r.pc = "run" /\ r.sbin.ino = 0 => r.sbin.ver >= r.begun
  /\ r.pc = "run" /\ r.sbin.ino # 0 =>
       /\ r.sbin.ver >= r.begun \/ inodes[r.sbin.ino].late
       /\ r.sbin.rusage = 0 /\ ~r.sbin.updated
  /\ r.pc \in {"close", "lock", "write"} => r.sbin.ino # 0 /\ Account!IsHigh(r.sbin.rusage)
  /\ r.pc \in {"lock", "write"} => r.fd \in 1 .. Len(inodes)
  /\ r.pc = "write" => /\ lock[r.fd] = d
                       /\ r.sbin.usage = inodes[r.fd].usage
                       /\ r.sbin.upd = inodes[r.fd].upd
                       /\ r.sbin.flag = inodes[r.fd].flag

BinaryInv ==
  /\ Types
  /\ InodesOK
  /\ OldByTime(script.ver, script.mtime)
  /\ \A d \in Deliveries : DeliveryOK(d, del[d])

USE DEF Usage

-----------------------------------------------------------------------------
(* Lemmas about usages *)

(* A sum of usages is a usage: it does not wrap around, and is not less    *)
(* than either part.                                                       *)
LEMMA UsageAddType ==
  ASSUME NEW a \in Usage, NEW b \in Usage
  PROVE  /\ Account!UsageAdd(a, b) \in Usage
         /\ Account!UsageAdd(a, b) >= a /\ Account!UsageAdd(a, b) >= b
         /\ Account!UsageAdd(a, 0) = a
BY BinaryAssumption DEF Account!UsageAdd

(* The usage that a header counts for at a time is a usage.                *)
LEMMA CurrentUsageType ==
  ASSUME NEW h, h.usage \in Usage, NEW t
  PROVE  Account!CurrentUsage(h, t) \in Usage
BY BinaryAssumption DEF Account!CurrentUsage

(* What a delivery's binary counts for is a usage.                         *)
LEMMA TotalType ==
  ASSUME NEW s \in SbinType
  PROVE  Total(s) \in Usage
<1>1. Account!CurrentUsage(s, clock) \in Usage
  BY CurrentUsageType DEF SbinType
<1>2. QED BY <1>1, UsageAddType DEF Total, SbinType

(* A header that is entered is well formed, and disabled when excessive.   *)
LEMMA EnteredType ==
  ASSUME NEW f \in BOOLEAN, NEW u \in Usage, clock \in Nat
  PROVE  /\ Account!Entered(f, u, clock) \in [usage : Usage, upd : Nat, flag : BOOLEAN]
         /\ Account!IsExcessive(Account!Entered(f, u, clock).usage) => Account!Entered(f, u, clock).flag
<1> DEFINE kept == f \/ Account!IsHigh(u)
<1>1. kept \in BOOLEAN
  BY DEF Account!IsHigh
<1>2. (IF kept THEN u ELSE 0) \in Usage /\ (IF kept THEN clock ELSE 0) \in Nat
  BY BinaryAssumption
<1>3. (f \/ Account!IsExcessive(IF kept THEN u ELSE 0)) \in BOOLEAN
  BY DEF Account!IsExcessive
<1>4. Account!Entered(f, u, clock) = [usage |-> IF kept THEN u ELSE 0, upd |-> IF kept THEN clock ELSE 0,
                                      flag |-> f \/ Account!IsExcessive(IF kept THEN u ELSE 0)]
  BY DEF Account!Entered
<1> HIDE DEF kept
<1>5. /\ Account!Entered(f, u, clock).usage = (IF kept THEN u ELSE 0)
      /\ Account!Entered(f, u, clock).flag = (f \/ Account!IsExcessive(IF kept THEN u ELSE 0))
  BY <1>4
<1>6. Account!Entered(f, u, clock) \in [usage : Usage, upd : Nat, flag : BOOLEAN]
  BY <1>2, <1>3, <1>4
<1>7. QED BY <1>5, <1>6, Zenon

(* Doing nothing and having nothing are well formed.                       *)
LEMMA IdleType ==
  /\ NoBinary \in SbinType /\ Idle \in DelType /\ Idle.pc = "idle"
  /\ NoBinary.ino = 0 /\ Idle.begun = 0 /\ Idle.sbin = NoBinary
BY BinaryAssumption DEF NoBinary, Idle, SbinType, DelType, Steps

(* A delivery that does nothing is always all right.                       *)
LEMMA IdleOK ==
  ASSUME Types, NEW d
  PROVE  DeliveryOK(d, Idle)
BY IdleType DEF DeliveryOK, Types

-----------------------------------------------------------------------------
(* Steps that change nothing but the delivery that takes them *)
LEMMA LocalStep ==
  ASSUME BinaryInv, NEW d \in Deliveries, NEW r \in DelType, DeliveryOK(d, r),
         Go(d, r), UNCHANGED <<clock, script, inodes, bin, lock>>
  PROVE  BinaryInv'
<1>1. del' \in [Deliveries -> DelType] /\ del'[d] = r
      /\ \A e \in Deliveries : e # d => del'[e] = del[e]
  BY DEF BinaryInv, Types, Go
<1>2. Types'
  BY <1>1 DEF BinaryInv, Types
<1>3. InodesOK' /\ OldByTime(script.ver, script.mtime)'
  BY DEF BinaryInv, InodesOK, OldByTime, Account!IsExcessive
<1>4. ASSUME NEW e \in Deliveries PROVE DeliveryOK(e, del[e])'
  <2>1. DeliveryOK(e, del'[e])
    BY <1>1 DEF BinaryInv
  <2>2. QED BY <2>1 DEF DeliveryOK, OldByTime, Account!IsHigh
<1>5. QED BY <1>2, <1>3, <1>4 DEF BinaryInv

-----------------------------------------------------------------------------
(* One lemma for each step of a delivery *)

(* A delivery starts with the script as it is.                             *)
LEMMA StartStep ==
  ASSUME BinaryInv, NEW d \in Deliveries, Start(d)
  PROVE  BinaryInv'
<1> DEFINE r == [Idle EXCEPT !.pc = "load", !.st = script.mtime, !.begun = script.ver]
<1>1. r \in DelType /\ r.pc = "load" /\ r.st = script.mtime /\ r.begun = script.ver /\ r.sbin = NoBinary
  BY IdleType DEF BinaryInv, Types, DelType, Steps
<1> HIDE DEF r
<1>2. DeliveryOK(d, r)
  BY <1>1, IdleType DEF BinaryInv, DeliveryOK, Types
<1>3. Go(d, r) /\ UNCHANGED <<clock, script, inodes, bin, lock>>
  BY DEF Start, r
<1>4. QED BY <1>1, <1>2, <1>3, LocalStep

(* The binary at the path is kept when it is current or disabled.          *)
LEMMA LoadStep ==
  ASSUME BinaryInv, NEW d \in Deliveries, NEW extOk \in BOOLEAN, BinaryLoad(d, extOk)
  PROVE  BinaryInv'
<1> DEFINE f == inodes[bin]
           s == [NoBinary EXCEPT !.ino = bin, !.ver = f.ver, !.upd = f.upd, !.flag = f.flag,
                                 !.usage = Account!CurrentUsage(f, clock)]
           keep == KeepLoaded(s, f.mtime, del[d].st, extOk)
           r1 == [del[d] EXCEPT !.pc = "compile"]
           r2 == [del[d] EXCEPT !.pc = "run", !.st = 0, !.sbin = s]
           r3 == [del[d] EXCEPT !.pc = "compile", !.carried = Total(s)]
           r == IF bin = 0 \/ f.kind = "unread" THEN r1 ELSE IF keep THEN CheckExecutable(r2) ELSE r3
<1>1. del[d] \in DelType /\ del[d].pc = "load" /\ DeliveryOK(d, del[d]) /\ del[d].sbin = NoBinary
  BY DEF BinaryInv, Types, BinaryLoad, DeliveryOK
<1>2. Go(d, r) /\ UNCHANGED <<clock, script, inodes, bin, lock>>
  BY DEF BinaryLoad
<1>3. r1 \in DelType /\ DeliveryOK(d, r1)
  <2>1. r1 \in DelType /\ r1.pc = "compile" /\ r1.sbin = del[d].sbin /\ r1.begun = del[d].begun
    BY <1>1 DEF DelType, Steps
  <2> HIDE DEF r1
  <2>2. QED BY <1>1, <2>1 DEF DeliveryOK
<1>4. ASSUME bin # 0
      PROVE  /\ s \in SbinType /\ s.ino = bin /\ s.ver = f.ver /\ s.flag = f.flag /\ s.rusage = 0 /\ ~s.updated
             /\ s.usage = Account!CurrentUsage(f, clock)
             /\ f \in InodeType /\ f.mtime <= clock /\ (Account!IsExcessive(f.usage) => f.flag)
  <2>1. f \in InodeType /\ f.mtime <= clock /\ (Account!IsExcessive(f.usage) => f.flag)
    BY <1>4 DEF BinaryInv, Types, InodesOK
  <2>2. Account!CurrentUsage(f, clock) \in Usage
    BY <2>1, CurrentUsageType DEF InodeType
  <2>3. s \in SbinType
    <3>1. bin \in Nat
      BY DEF BinaryInv, Types
    <3> HIDE DEF f
    <3>2. f.ver \in Nat /\ f.upd \in Nat /\ f.flag \in BOOLEAN
      BY <2>1 DEF InodeType
    <3>3. QED BY <2>2, <3>1, <3>2, IdleType DEF SbinType
  <2>4. QED BY <2>1, <2>3, IdleType DEF SbinType, NoBinary
<1> HIDE DEF s
<1>5. ASSUME bin # 0 PROVE r3 \in DelType /\ DeliveryOK(d, r3)
  <2>1. Total(s) \in Usage
    BY <1>4, <1>5, TotalType
  <2>2. r3 \in DelType /\ r3.pc = "compile" /\ r3.sbin = del[d].sbin /\ r3.begun = del[d].begun
    BY <1>1, <2>1 DEF DelType, Steps
  <2> HIDE DEF r3
  <2>3. QED BY <1>1, <2>2 DEF DeliveryOK
<1>6. ASSUME bin # 0, keep PROVE CheckExecutable(r2) \in DelType /\ DeliveryOK(d, CheckExecutable(r2))
  <2>1. r2 \in DelType /\ r2.pc = "run" /\ r2.sbin = s /\ r2.begun = del[d].begun
    BY <1>1, <1>4, <1>6, BinaryAssumption DEF DelType, Steps
  <2>2. CASE s.flag
    BY <2>1, <2>2, IdleType, IdleOK DEF BinaryInv, CheckExecutable
  <2>3. CASE ~s.flag
    <3>1. Account!CurrentUsage(s, clock) = 0 \/ Account!CurrentUsage(s, clock) = f.usage
      BY <1>4, <1>6 DEF Account!CurrentUsage
    <3>2. Total(s) = Account!CurrentUsage(s, clock)
      <4>1. Account!CurrentUsage(s, clock) \in Usage
        BY <1>4, <1>6, CurrentUsageType DEF SbinType
      <4>2. QED BY <1>4, <1>6, <4>1, UsageAddType DEF Total
    <3>3. ~Account!IsExcessive(0)
      BY BinaryAssumption DEF Account!IsExcessive
    <3>4. ~Account!IsExcessive(Total(s))
      BY <1>4, <1>6, <2>3, <3>1, <3>2, <3>3
    <3>5. f.mtime > del[d].st
      BY <1>6, <3>4 DEF KeepLoaded, IsNewer
    <3>6. s.ver >= del[d].begun \/ inodes[bin].late
      BY <1>1, <1>4, <1>6, <3>5 DEF DeliveryOK, OldByTime, InodeType, DelType
    <3>7. CheckExecutable(r2) = r2
      BY <2>1, <2>3 DEF CheckExecutable
    <3> HIDE DEF r2
    <3>8. DeliveryOK(d, r2)
      BY <1>1, <1>4, <1>6, <2>1, <3>6 DEF DeliveryOK, BinaryInv, Types
    <3>9. QED BY <2>1, <3>7, <3>8
  <2>4. QED BY <2>2, <2>3
<1> HIDE DEF r1, r2, r3, keep
<1>7. r \in DelType /\ DeliveryOK(d, r)
  BY <1>3, <1>5, <1>6
<1> HIDE DEF r
<1>8. QED BY <1>2, <1>7, LocalStep

(* The script is compiled as it is now.                                    *)
LEMMA CompileStep ==
  ASSUME BinaryInv, NEW d \in Deliveries, CompileScript(d)
  PROVE  BinaryInv'
<1> DEFINE s == [NoBinary EXCEPT !.ver = script.ver, !.rusage = del[d].carried, !.updated = TRUE,
                                 !.flag = Account!IsExcessive(del[d].carried)]
           q == [del[d] EXCEPT !.pc = "save", !.st = 0, !.carried = 0, !.sbin = s]
           r == CheckExecutable(q)
<1>1. del[d] \in DelType /\ DeliveryOK(d, del[d]) /\ script.ver \in Nat
  BY DEF BinaryInv, Types
<1>2. Go(d, r) /\ UNCHANGED <<clock, script, inodes, bin, lock>>
  BY DEF CompileScript
<1>3. s \in SbinType /\ s.ino = 0 /\ s.ver = script.ver
  <2>1. del[d].carried \in Usage
    BY <1>1 DEF DelType
  <2>2. Account!IsExcessive(del[d].carried) \in BOOLEAN
    BY DEF Account!IsExcessive
  <2>3. QED BY <1>1, <2>1, <2>2, IdleType DEF SbinType
<1> HIDE DEF s
<1>4. q \in DelType /\ q.pc = "save" /\ q.sbin = s /\ q.begun = del[d].begun
  <2>1. 0 \in Nat /\ 0 \in Usage /\ "save" \in Steps
    BY BinaryAssumption DEF Steps
  <2>2. ASSUME NEW p \in DelType
        PROVE  [p EXCEPT !.pc = "save", !.st = 0, !.carried = 0, !.sbin = s] \in DelType
    BY <1>3, <2>1 DEF DelType
  <2>3. QED BY <1>1, <2>2 DEF DelType
<1> HIDE DEF q
<1>5. del[d].begun <= script.ver
  BY <1>1 DEF DeliveryOK
<1>6. DeliveryOK(d, q)
  BY <1>3, <1>4, <1>5 DEF DeliveryOK, BinaryInv, Types
<1>7. r \in DelType /\ DeliveryOK(d, r)
  BY <1>4, <1>6, IdleType, IdleOK DEF BinaryInv, CheckExecutable
<1> HIDE DEF r
<1>8. QED BY <1>2, <1>7, LocalStep

(* Giving up leaves a delivery that does nothing.                          *)
LEMMA GiveUpStep ==
  ASSUME BinaryInv, NEW d \in Deliveries, CompileFailed(d) \/ CloseLockTimeout(d)
  PROVE  BinaryInv'
<1>1. Go(d, Idle) /\ UNCHANGED <<clock, script, inodes, bin, lock>>
  BY DEF CompileFailed, CloseLockTimeout
<1>2. QED BY <1>1, IdleType, IdleOK, LocalStep DEF BinaryInv

(* After an execution there is nothing to do, or a usage worth an entry.   *)
LEMMA RecordedForm ==
  ASSUME NEW r \in DelType, r.sbin.ino # 0 => ~r.sbin.updated
  PROVE  \/ Recorded(r) = Idle
         \/ /\ Recorded(r) \in DelType /\ Recorded(r).pc = "close" /\ Recorded(r).begun = r.begun
            /\ Recorded(r).sbin.ino = r.sbin.ino /\ r.sbin.ino # 0
            /\ Account!IsHigh(Recorded(r).sbin.rusage)
<1> DEFINE high == Account!IsHigh(r.cpu)
           u == IF high THEN Account!UsageAdd(r.sbin.rusage, r.cpu) ELSE r.sbin.rusage
           q == [r EXCEPT !.pc = "close", !.cpu = 0, !.sbin.rusage = u]
<1>1. r.sbin \in SbinType /\ r.sbin.rusage \in Usage /\ r.cpu \in Usage
  BY DEF DelType, SbinType
<1>2. u \in Usage /\ (high => Account!IsHigh(u))
  <2>1. Account!UsageAdd(r.sbin.rusage, r.cpu) \in Usage /\ Account!UsageAdd(r.sbin.rusage, r.cpu) >= r.cpu
    BY <1>1, UsageAddType
  <2>2. QED BY <1>1, <2>1, BinaryAssumption DEF Account!IsHigh
<1>3. Recorded(r) = IF r.sbin.ino = 0 \/ ~(high \/ r.sbin.updated) THEN Idle ELSE q
  BY DEF Recorded
<1>4. q \in DelType /\ q.pc = "close" /\ q.begun = r.begun /\ q.sbin.ino = r.sbin.ino /\ q.sbin.rusage = u
  <2> HIDE DEF u
  <2> DEFINE b == [r.sbin EXCEPT !.rusage = u]
  <2>1. b \in SbinType
    BY <1>1, <1>2 DEF SbinType
  <2>2. b.ino = r.sbin.ino /\ b.rusage = u
    BY <1>1 DEF SbinType
  <2>3. q = [r EXCEPT !.pc = "close", !.cpu = 0, !.sbin = b]
    BY DEF DelType
  <2> HIDE DEF b, q
  <2>4. 0 \in Usage /\ FALSE \in BOOLEAN /\ "close" \in Steps
    BY BinaryAssumption DEF Steps
  <2>5. q \in DelType
    BY <2>1, <2>3, <2>4 DEF DelType
  <2>6. q.pc = "close" /\ q.begun = r.begun /\ q.sbin = b
    BY <2>3 DEF DelType
  <2>7. QED BY <2>2, <2>5, <2>6
<1> HIDE DEF q, u, high
<1>5. QED BY <1>2, <1>3, <1>4

(* After saving the binary is run, if it was not run before.               *)
LEMMA AfterSaveForm ==
  ASSUME NEW r \in DelType
  PROVE  \/ AfterSave(r) = Idle
         \/ /\ AfterSave(r) \in DelType /\ AfterSave(r).begun = r.begun /\ ~r.resave
            /\ AfterSave(r).pc = "run" /\ AfterSave(r).sbin = r.sbin
<1>1. CASE r.resave
  BY <1>1 DEF AfterSave
<1>2. CASE ~r.resave
  <2> DEFINE q == [r EXCEPT !.pc = "run"]
  <2>1. q \in DelType
    BY DEF DelType, Steps
  <2>2. q.begun = r.begun /\ q.sbin = r.sbin /\ q.pc = "run"
    BY DEF DelType
  <2>3. AfterSave(r) = q
    BY <1>2 DEF AfterSave
  <2> HIDE DEF q
  <2>4. QED BY <1>2, <2>1, <2>2, <2>3
<1>3. QED BY <1>1, <1>2

(* A binary that could not be saved is run from memory.                    *)
LEMMA SaveFailedStep ==
  ASSUME BinaryInv, NEW d \in Deliveries, SaveFailed(d)
  PROVE  BinaryInv'
<1> DEFINE q == [del[d] EXCEPT !.tmp = 0]
           r == AfterSave(q)
<1>1. del[d] \in DelType /\ DeliveryOK(d, del[d]) /\ del[d].pc \in {"save", "rename"}
  BY DEF BinaryInv, Types, SaveFailed
<1>2. q \in DelType /\ q.begun = del[d].begun /\ q.sbin = del[d].sbin /\ q.resave = del[d].resave
  BY <1>1 DEF DelType
<1>3. (q.sbin.ino = 0 \/ q.resave) /\ q.sbin.ver >= q.begun /\ q.begun <= script.ver
  BY <1>1, <1>2 DEF DeliveryOK
<1>4. Go(d, r) /\ UNCHANGED <<clock, script, inodes, bin, lock>>
  BY DEF SaveFailed
<1> HIDE DEF q
<1>5. \/ r = Idle
      \/ r \in DelType /\ r.begun = q.begun /\ r.pc = "run" /\ r.sbin = q.sbin /\ q.sbin.ino = 0
  BY <1>2, <1>3, AfterSaveForm
<1> HIDE DEF r
<1>6. r \in DelType /\ DeliveryOK(d, r)
  <2>1. CASE r = Idle
    BY <2>1, IdleType, IdleOK DEF BinaryInv
  <2>2. CASE r \in DelType /\ r.begun = q.begun /\ r.pc = "run" /\ r.sbin = q.sbin /\ q.sbin.ino = 0
    BY <1>3, <2>2 DEF DeliveryOK, BinaryInv, Types
  <2>3. QED BY <1>5, <2>1, <2>2
<1>7. QED BY <1>4, <1>6, LocalStep

(* A binary is run, or found corrupt.                                      *)
LEMMA RunStep ==
  ASSUME BinaryInv, NEW d \in Deliveries, NEW cpu \in Usages, Run(d, cpu)
  PROVE  BinaryInv'
<1> DEFINE corrupt == del[d].sbin.ino # 0 /\ inodes[del[d].sbin.ino].kind = "corrupt"
           rec == [del[d] EXCEPT !.cpu = cpu, !.begun = 0]
           r == IF corrupt THEN Idle ELSE Recorded(rec)
<1>1. del[d] \in DelType /\ DeliveryOK(d, del[d]) /\ del[d].pc = "run"
  BY DEF BinaryInv, Types, Run
<1>2. Go(d, r) /\ UNCHANGED <<clock, script, inodes, bin, lock>>
  BY DEF Run
<1>3. rec \in DelType /\ rec.begun = 0 /\ rec.sbin = del[d].sbin
  <2>1. cpu \in Usage
    BY BinaryAssumption
  <2>2. ASSUME NEW q \in DelType PROVE [q EXCEPT !.cpu = cpu, !.begun = 0] \in DelType
    BY <2>1 DEF DelType
  <2>3. QED BY <1>1, <2>2 DEF DelType
<1>4. rec.sbin.ino # 0 => ~rec.sbin.updated
  BY <1>1, <1>3 DEF DeliveryOK
<1> HIDE DEF rec
<1>5. script.ver \in Nat /\ del[d].sbin.ver \in Nat
  BY <1>1 DEF BinaryInv, Types, DelType, SbinType
<1>6. Recorded(rec) \in DelType /\ DeliveryOK(d, Recorded(rec))
  <2>1. CASE Recorded(rec) = Idle
    BY <2>1, IdleType, IdleOK DEF BinaryInv
  <2>2. CASE Recorded(rec) # Idle
    BY <1>1, <1>3, <1>4, <1>5, <2>2, RecordedForm DEF DeliveryOK
  <2>3. QED BY <2>1, <2>2
<1>7. r \in DelType /\ DeliveryOK(d, r)
  BY <1>6, IdleType, IdleOK DEF BinaryInv
<1> HIDE DEF r
<1>8. QED BY <1>2, <1>7, LocalStep

(* The file at the path is opened: there is one.  A binary of the old      *)
(* format is saved instead.                                                *)
LEMMA CloseOpenStep ==
  ASSUME BinaryInv, NEW d \in Deliveries, CloseOpen(d)
  PROVE  BinaryInv'
<1> DEFINE old == inodes[del[d].sbin.ino].kind = "old"
           r1 == [del[d] EXCEPT !.pc = "save", !.resave = TRUE]
           r2 == [del[d] EXCEPT !.pc = "lock", !.fd = bin]
           r == IF old THEN r1 ELSE r2
<1>1. del[d] \in DelType /\ DeliveryOK(d, del[d]) /\ del[d].pc = "close" /\ bin \in 0 .. Len(inodes)
      /\ Len(inodes) \in Nat /\ del[d].sbin.ver \in Nat
  BY DEF BinaryInv, Types, CloseOpen, DelType, SbinType
<1>2. r1 \in DelType /\ r1.pc = "save" /\ r1.resave /\ r1.sbin = del[d].sbin /\ r1.begun = del[d].begun
  BY <1>1 DEF DelType, Steps
<1>3. r2 \in DelType /\ r2.pc = "lock" /\ r2.fd = bin /\ r2.sbin = del[d].sbin /\ r2.begun = del[d].begun
  <2>1. bin \in Nat
    BY <1>1
  <2>2. QED BY <1>1, <2>1 DEF DelType, Steps
<1>4. Go(d, r) /\ UNCHANGED <<clock, script, inodes, bin, lock>>
  BY DEF CloseOpen
<1> HIDE DEF r1, r2
<1>5. DeliveryOK(d, r1) /\ DeliveryOK(d, r2)
  BY <1>1, <1>2, <1>3 DEF DeliveryOK
<1>6. r \in DelType /\ DeliveryOK(d, r)
  BY <1>2, <1>3, <1>5
<1> HIDE DEF r
<1>7. QED BY <1>4, <1>6, LocalStep

-----------------------------------------------------------------------------
(* Steps that change files: what they do to the other deliveries *)

(* A delivery that takes no step stays all right when files only grow in   *)
(* number, late ones stay late, and the header it writes is left alone.    *)
LEMMA OtherDelivery ==
  ASSUME BinaryInv, NEW e \in Deliveries, del'[e] = del[e],
         script'.ver \in Nat, script.ver <= script'.ver,
         Len(inodes') \in Nat, Len(inodes) <= Len(inodes'), bin # 0 => bin' # 0,
         \A i \in 1 .. Len(inodes) : inodes[i].late => inodes'[i].late,
         del[e].pc = "load" /\ bin' # 0 /\ inodes'[bin'].ver < del[e].begun /\ ~inodes'[bin'].late
           => inodes'[bin'].mtime <= del[e].st,
         del[e].pc = "write" =>
           /\ lock'[del[e].fd] = e
           /\ inodes'[del[e].fd].usage = inodes[del[e].fd].usage
           /\ inodes'[del[e].fd].upd = inodes[del[e].fd].upd
           /\ inodes'[del[e].fd].flag = inodes[del[e].fd].flag
  PROVE  DeliveryOK(e, del[e])'
<1> DEFINE r == del[e]
<1>1. r \in DelType /\ DeliveryOK(e, r) /\ r.sbin \in SbinType
  BY DEF BinaryInv, Types, DelType
<1>2. script.ver \in Nat /\ Len(inodes) \in Nat /\ r.begun \in Nat /\ r.sbin.ino \in Nat /\ r.fd \in Nat
  BY <1>1 DEF BinaryInv, Types, DelType, SbinType
<1>3. /\ r.begun <= script'.ver
      /\ r.sbin.ino <= Len(inodes') /\ (r.sbin.ino # 0 => bin' # 0)
  BY <1>1, <1>2 DEF DeliveryOK
<1>4. /\ r.pc \in {"load", "compile"} => r.sbin = NoBinary
      /\ r.pc \in {"save", "rename"} => (r.sbin.ino = 0 \/ r.resave) /\ r.sbin.ver >= r.begun
      /\ r.pc \in {"close", "lock", "write"} => r.begun = 0
      /\ r.pc = "rename" => r.tmp \in 1 .. Len(inodes') /\ r.sbin.rusage = 0 /\ ~r.sbin.updated
      /\ r.pc = "run" /\ r.sbin.ino = 0 => r.sbin.ver >= r.begun
      /\ r.pc \in {"close", "lock", "write"} => r.sbin.ino # 0 /\ Account!IsHigh(r.sbin.rusage)
      /\ r.pc \in {"lock", "write"} => r.fd \in 1 .. Len(inodes')
  BY <1>1, <1>2 DEF DeliveryOK
<1>5. r.pc = "run" /\ r.sbin.ino # 0 =>
        /\ r.sbin.ver >= r.begun \/ inodes'[r.sbin.ino].late
        /\ r.sbin.rusage = 0 /\ ~r.sbin.updated
  BY <1>1, <1>2 DEF DeliveryOK
<1>6. r.pc = "write" => /\ lock'[r.fd] = e
                        /\ r.sbin.usage = inodes'[r.fd].usage
                        /\ r.sbin.upd = inodes'[r.fd].upd
                        /\ r.sbin.flag = inodes'[r.fd].flag
  BY <1>1 DEF DeliveryOK
<1>7. del'[e] = r
  OBVIOUS
<1> HIDE DEF r
<1>8. QED BY <1>3, <1>4, <1>5, <1>6, <1>7 DEF DeliveryOK, OldByTime, Account!IsHigh, r

(* Time passes.                                                            *)
LEMMA TickStep ==
  ASSUME BinaryInv, Tick
  PROVE  BinaryInv'
<1>1. clock' = clock + 1 /\ clock < MaxClock /\ UNCHANGED <<script, inodes, bin, lock, del>> /\ clock \in 1 .. MaxClock
  BY DEF Tick, BinaryInv, Types
<1>2. Types'
  BY <1>1, BinaryAssumption DEF BinaryInv, Types
<1>3. InodesOK'
  <2>1. \A i \in 1 .. Len(inodes) : inodes[i].mtime \in Nat
    <3>1. \A i \in 1 .. Len(inodes) : inodes[i] \in InodeType
      BY DEF BinaryInv, Types
    <3>2. QED BY <3>1 DEF InodeType
  <2>2. QED BY <1>1, <2>1, BinaryAssumption DEF BinaryInv, InodesOK, Account!IsExcessive
<1>4. OldByTime(script.ver, script.mtime)' /\ \A d \in Deliveries : DeliveryOK(d, del[d])'
  BY <1>1 DEF BinaryInv, OldByTime, DeliveryOK, Account!IsHigh
<1>5. QED BY <1>2, <1>3, <1>4 DEF BinaryInv

(* A new script: the binary at the path is older in its time stamp, or     *)
(* marked late.                                                            *)
LEMMA UploadStep ==
  ASSUME BinaryInv, Upload
  PROVE  BinaryInv'
<1>1. PICK t \in 0 .. MaxClock :
        /\ script' = [ver |-> script.ver + 1, mtime |-> t]
        /\ inodes' = [i \in DOMAIN inodes |->
             [inodes[i] EXCEPT !.late = inodes[i].late \/ (i = bin /\ inodes[i].mtime > t)]]
        /\ UNCHANGED <<clock, bin, lock, del>>
  BY DEF Upload
<1>2. /\ Types /\ script.ver \in Nat /\ clock \in Nat /\ Len(inodes) \in Nat /\ t \in Nat
      /\ bin \in 0 .. Len(inodes) /\ inodes \in Seq(InodeType) /\ DOMAIN inodes = 1 .. Len(inodes)
  BY BinaryAssumption DEF BinaryInv, Types
<1>3. script'.ver = script.ver + 1 /\ script'.mtime = t /\ script' \in [ver : Nat, mtime : Nat]
  BY <1>1, <1>2
<1>4. ASSUME NEW i \in 1 .. Len(inodes)
      PROVE  /\ inodes'[i] \in InodeType
             /\ inodes'[i].ver = inodes[i].ver /\ inodes'[i].mtime = inodes[i].mtime
             /\ inodes'[i].usage = inodes[i].usage /\ inodes'[i].upd = inodes[i].upd
             /\ inodes'[i].flag = inodes[i].flag
             /\ inodes'[i].late <=> inodes[i].late \/ (i = bin /\ inodes[i].mtime > t)
  <2> DEFINE late == inodes[i].late \/ (i = bin /\ inodes[i].mtime > t)
  <2>1. inodes[i] \in InodeType
    BY <1>2
  <2>2. inodes'[i] = [inodes[i] EXCEPT !.late = late]
    BY <1>1, <1>2
  <2>3. late \in BOOLEAN
    BY <2>1 DEF InodeType
  <2> HIDE DEF late
  <2>4. /\ inodes'[i] \in InodeType
        /\ inodes'[i].ver = inodes[i].ver /\ inodes'[i].mtime = inodes[i].mtime
        /\ inodes'[i].usage = inodes[i].usage /\ inodes'[i].upd = inodes[i].upd
        /\ inodes'[i].flag = inodes[i].flag /\ inodes'[i].late = late
    BY <2>1, <2>2, <2>3 DEF InodeType
  <2>5. QED BY <2>4 DEF late
<1>5. inodes' \in Seq(InodeType) /\ Len(inodes') = Len(inodes)
  <2>1. inodes' = [i \in 1 .. Len(inodes) |-> inodes'[i]]
    BY <1>1, <1>2
  <2>2. ASSUME NEW n \in Nat, NEW f, \A i \in 1 .. n : f[i] \in InodeType, f = [i \in 1 .. n |-> f[i]]
        PROVE  f \in Seq(InodeType) /\ Len(f) = n
    BY <2>2
  <2>3. QED BY <1>2, <1>4, <2>1, <2>2
<1>6. Types'
  BY <1>1, <1>2, <1>3, <1>5 DEF Types
<1>7. InodesOK'
  BY <1>1, <1>4, <1>5 DEF BinaryInv, InodesOK, Account!IsExcessive
<1>8. OldByTime(script.ver, script.mtime)'
  <2>1. CASE bin = 0
    BY <1>1, <2>1 DEF OldByTime
  <2>2. CASE bin # 0
    <3>1. bin \in 1 .. Len(inodes)
      BY <1>2, <2>2
    <3>2. inodes[bin] \in InodeType
      BY <1>2, <3>1
    <3>3. inodes[bin].mtime \in Nat
      BY <3>2 DEF InodeType
    <3>4. ~inodes'[bin].late => inodes'[bin].mtime <= t
      BY <1>2, <1>4, <3>1, <3>3
    <3>5. QED BY <1>1, <1>3, <3>4 DEF OldByTime
  <2>3. QED BY <2>1, <2>2
<1>9. ASSUME NEW e \in Deliveries PROVE DeliveryOK(e, del[e])'
  <2>1. DeliveryOK(e, del[e])
    BY DEF BinaryInv
  <2>2. ASSUME del[e].pc = "load", bin' # 0, inodes'[bin'].ver < del[e].begun, ~inodes'[bin'].late
        PROVE  inodes'[bin'].mtime <= del[e].st
    <3>1. bin \in 1 .. Len(inodes) /\ bin' = bin
      BY <1>1, <1>2, <2>2
    <3>2. inodes[bin].ver < del[e].begun /\ ~inodes[bin].late /\ inodes'[bin].mtime = inodes[bin].mtime
      BY <1>4, <2>2, <3>1
    <3>3. QED BY <2>1, <2>2, <3>1, <3>2 DEF DeliveryOK, OldByTime
  <2>3. del[e].pc = "write" => del[e].fd \in 1 .. Len(inodes) /\ lock[del[e].fd] = e
    BY <2>1 DEF DeliveryOK
  <2>4. \A i \in 1 .. Len(inodes) : inodes[i].late => inodes'[i].late
    BY <1>4
  <2>5. del[e].pc = "write" =>
           /\ lock'[del[e].fd] = e
           /\ inodes'[del[e].fd].usage = inodes[del[e].fd].usage
           /\ inodes'[del[e].fd].upd = inodes[del[e].fd].upd
           /\ inodes'[del[e].fd].flag = inodes[del[e].fd].flag
    BY <1>1, <1>4, <2>3
  <2>6. /\ script'.ver \in Nat /\ script.ver <= script'.ver /\ del'[e] = del[e]
        /\ Len(inodes') \in Nat /\ Len(inodes) <= Len(inodes') /\ (bin # 0 => bin' # 0)
    BY <1>1, <1>2, <1>3, <1>5
  <2>7. QED BY <2>2, <2>4, <2>5, <2>6, OtherDelivery
<1>10. QED BY <1>6, <1>7, <1>8, <1>9 DEF BinaryInv

(* A step that changes files keeps the invariant when it keeps every file  *)
(* well formed, late files late and the locked headers of others alone,    *)
(* and when an outdated binary comes to the path only as a late one.       *)
LEMMA FilesStep ==
  ASSUME BinaryInv, NEW d \in Deliveries, UNCHANGED <<clock, script>>,
         inodes' \in Seq(InodeType), Len(inodes') <= MaxInodes, Len(inodes) <= Len(inodes'),
         bin' \in 0 .. Len(inodes'), bin # 0 => bin' # 0,
         lock' \in [1 .. MaxInodes -> Deliveries \cup {NoDelivery}],
         del' \in [Deliveries -> DelType],
         \A e \in Deliveries : e # d => del'[e] = del[e],
         \A i \in 1 .. Len(inodes) : inodes[i].late => inodes'[i].late,
         \A i \in 1 .. Len(inodes') :
           /\ inodes'[i].mtime <= clock
           /\ Account!IsExcessive(inodes'[i].usage) => inodes'[i].flag,
         bin' # 0 /\ inodes'[bin'].ver < script.ver /\ ~inodes'[bin'].late =>
           /\ bin' = bin /\ inodes'[bin'].ver = inodes[bin].ver
           /\ inodes'[bin'].mtime = inodes[bin].mtime /\ ~inodes[bin].late,
         \A e \in Deliveries : e # d /\ del[e].pc = "write" =>
           /\ lock'[del[e].fd] = e
           /\ inodes'[del[e].fd].usage = inodes[del[e].fd].usage
           /\ inodes'[del[e].fd].upd = inodes[del[e].fd].upd
           /\ inodes'[del[e].fd].flag = inodes[del[e].fd].flag,
         DeliveryOK(d, del[d])'
  PROVE  BinaryInv'
<1>1. Len(inodes') \in Nat /\ Len(inodes) \in Nat /\ script.ver \in Nat
  BY DEF BinaryInv, Types
<1>2. Types'
  BY DEF BinaryInv, Types
<1>3. InodesOK'
  BY DEF InodesOK, Account!IsExcessive
<1>4. OldByTime(script.ver, script.mtime)'
  BY DEF BinaryInv, OldByTime
<1>5. ASSUME NEW e \in Deliveries, e # d PROVE DeliveryOK(e, del[e])'
  <2>1. DeliveryOK(e, del[e]) /\ del[e] \in DelType /\ del[e].begun \in Nat
    BY DEF BinaryInv, Types, DelType
  <2>2. ASSUME del[e].pc = "load", bin' # 0, inodes'[bin'].ver < del[e].begun, ~inodes'[bin'].late
        PROVE  inodes'[bin'].mtime <= del[e].st
    <3>1. OldByTime(del[e].begun, del[e].st) /\ del[e].begun <= script.ver
      BY <2>1, <2>2 DEF DeliveryOK
    <3>2. inodes'[bin'] \in InodeType
      BY <2>2
    <3>3. inodes'[bin'].ver \in Nat
      BY <3>2 DEF InodeType
    <3>4. inodes'[bin'].ver < script.ver
      BY <1>1, <2>1, <2>2, <3>1, <3>3
    <3>5. QED BY <2>2, <3>1, <3>4 DEF OldByTime
  <2>3. QED BY <1>1, <1>5, <2>2, OtherDelivery
<1>6. QED BY <1>2, <1>3, <1>4, <1>5 DEF BinaryInv

(* A process dies: others keep their locks.                                *)
LEMMA CrashStep ==
  ASSUME BinaryInv, NEW d \in Deliveries, Crash(d)
  PROVE  BinaryInv'
<1>1. /\ Go(d, Idle) /\ UNCHANGED <<clock, script, inodes, bin>>
      /\ lock' = [i \in DOMAIN lock |-> IF lock[i] = d THEN NoDelivery ELSE lock[i]]
  BY DEF Crash
<1>2. Types
  BY DEF BinaryInv
<1>3. lock' \in [1 .. MaxInodes -> Deliveries \cup {NoDelivery}]
  BY <1>1, <1>2 DEF Types
<1>4. del' \in [Deliveries -> DelType] /\ del'[d] = Idle /\ \A e \in Deliveries : e # d => del'[e] = del[e]
  BY <1>1, <1>2, IdleType DEF Go, Types
<1>5. \A e \in Deliveries : e # d /\ del[e].pc = "write" => lock'[del[e].fd] = e
  <2> SUFFICES ASSUME NEW e \in Deliveries, e # d, del[e].pc = "write" PROVE lock'[del[e].fd] = e
    OBVIOUS
  <2>1. del[e].fd \in 1 .. Len(inodes) /\ lock[del[e].fd] = e
    BY DEF BinaryInv, DeliveryOK
  <2>2. del[e].fd \in DOMAIN lock
    BY <1>2, <2>1, BinaryAssumption DEF Types
  <2>3. QED BY <1>1, <2>1, <2>2
<1>6. DeliveryOK(d, del[d])'
  BY <1>1, <1>2, <1>4, IdleType DEF DeliveryOK, Types
<1>7. /\ inodes' \in Seq(InodeType) /\ Len(inodes') <= MaxInodes /\ Len(inodes) <= Len(inodes')
      /\ bin' \in 0 .. Len(inodes')
  BY <1>1, <1>2 DEF Types
<1>8. \A i \in 1 .. Len(inodes') :
           /\ inodes'[i].mtime <= clock
           /\ Account!IsExcessive(inodes'[i].usage) => inodes'[i].flag
  BY <1>1 DEF BinaryInv, InodesOK
<1>9. QED BY <1>1, <1>3, <1>4, <1>5, <1>6, <1>7, <1>8, FilesStep

(* What the invariant says of one file.                                    *)
LEMMA InodeFacts ==
  ASSUME BinaryInv, NEW i \in 1 .. Len(inodes)
  PROVE  /\ inodes[i] \in InodeType
         /\ inodes[i].ver \in Nat /\ inodes[i].mtime \in Nat /\ inodes[i].upd \in Nat
         /\ inodes[i].usage \in Usage /\ inodes[i].flag \in BOOLEAN /\ inodes[i].late \in BOOLEAN
         /\ inodes[i].mtime <= clock
         /\ Account!IsExcessive(inodes[i].usage) => inodes[i].flag
<1>1. inodes[i] \in InodeType
  BY DEF BinaryInv, Types
<1>2. QED BY <1>1 DEF InodeType, BinaryInv, InodesOK

(* A header is read under its lock.                                        *)
LEMMA CloseLockStep ==
  ASSUME BinaryInv, NEW d \in Deliveries, CloseLock(d)
  PROVE  BinaryInv'
<1> DEFINE i == del[d].fd
           h == inodes[i]
           r == [del[d] EXCEPT !.pc = "write", !.sbin.usage = h.usage, !.sbin.upd = h.upd, !.sbin.flag = h.flag]
<1>1. Types /\ del[d] \in DelType /\ DeliveryOK(d, del[d]) /\ del[d].pc = "lock" /\ i \in 1 .. Len(inodes)
      /\ del[d].sbin \in SbinType
  BY DEF BinaryInv, Types, CloseLock, DeliveryOK, DelType
<1>2. CASE h.kind = "unread"
  <2>1. Go(d, Idle) /\ UNCHANGED <<clock, script, inodes, bin, lock>>
    BY <1>2 DEF CloseLock
  <2>2. QED BY <1>1, <2>1, IdleType, IdleOK, LocalStep
<1>3. CASE h.kind # "unread"
  <2>1. Go(d, r) /\ lock' = [lock EXCEPT ![i] = d] /\ lock[i] = NoDelivery /\ UNCHANGED <<clock, script, inodes, bin>>
    BY <1>3 DEF CloseLock
  <2>2. h.usage \in Usage /\ h.upd \in Nat /\ h.flag \in BOOLEAN
    BY <1>1, InodeFacts
  <2>3. /\ r \in DelType /\ r.pc = "write" /\ r.fd = i /\ r.begun = del[d].begun
        /\ r.sbin.ino = del[d].sbin.ino /\ r.sbin.rusage = del[d].sbin.rusage
        /\ r.sbin.usage = h.usage /\ r.sbin.upd = h.upd /\ r.sbin.flag = h.flag
    <3> HIDE DEF h
    <3> DEFINE b == [del[d].sbin EXCEPT !.usage = h.usage, !.upd = h.upd, !.flag = h.flag]
    <3>1. b \in SbinType
      <4>1. ASSUME NEW c \in SbinType
            PROVE  [c EXCEPT !.usage = h.usage, !.upd = h.upd, !.flag = h.flag] \in SbinType
        BY <2>2 DEF SbinType
      <4>2. QED BY <1>1, <4>1
    <3>2. /\ b.ino = del[d].sbin.ino /\ b.rusage = del[d].sbin.rusage
          /\ b.usage = h.usage /\ b.upd = h.upd /\ b.flag = h.flag
      BY <1>1 DEF SbinType
    <3>3. r = [del[d] EXCEPT !.pc = "write", !.sbin = b]
      BY <1>1 DEF DelType, SbinType
    <3> HIDE DEF b, r
    <3>4. r \in DelType
      BY <1>1, <3>1, <3>3 DEF DelType, Steps
    <3>5. r.pc = "write" /\ r.fd = i /\ r.begun = del[d].begun /\ r.sbin = b
      BY <1>1, <3>3 DEF DelType
    <3>6. QED BY <3>2, <3>4, <3>5
  <2> HIDE DEF r
  <2>4. del' \in [Deliveries -> DelType] /\ del'[d] = r /\ \A e \in Deliveries : e # d => del'[e] = del[e]
    BY <1>1, <2>1, <2>3 DEF Go, Types
  <2>5. i \in 1 .. MaxInodes /\ lock'[i] = d /\ lock' \in [1 .. MaxInodes -> Deliveries \cup {NoDelivery}]
    BY <1>1, <2>1, BinaryAssumption DEF Types
  <2>6. \A e \in Deliveries : e # d /\ del[e].pc = "write" => lock'[del[e].fd] = e
    <3> SUFFICES ASSUME NEW e \in Deliveries, e # d, del[e].pc = "write" PROVE lock'[del[e].fd] = e
      OBVIOUS
    <3>1. lock[del[e].fd] = e
      BY DEF BinaryInv, DeliveryOK
    <3>2. del[e].fd # i
      BY <2>1, <3>1, BinaryAssumption DEF NoDelivery
    <3>3. QED BY <1>1, <2>1, <3>1, <3>2 DEF Types
  <2>7. DeliveryOK(d, del[d])'
    <3>1. /\ del[d].sbin.ino <= Len(inodes) /\ del[d].sbin.ino # 0 /\ bin # 0
          /\ Account!IsHigh(del[d].sbin.rusage) /\ del[d].begun <= script.ver
      BY <1>1 DEF DeliveryOK
    <3>2. QED BY <1>1, <2>1, <2>3, <2>4, <2>5, <3>1 DEF DeliveryOK, OldByTime, Account!IsHigh
  <2>8. /\ inodes' \in Seq(InodeType) /\ Len(inodes') <= MaxInodes /\ Len(inodes) <= Len(inodes')
        /\ bin' \in 0 .. Len(inodes')
    BY <1>1, <2>1 DEF Types
  <2>9. \A j \in 1 .. Len(inodes') :
          /\ inodes'[j].mtime <= clock
          /\ Account!IsExcessive(inodes'[j].usage) => inodes'[j].flag
    BY <2>1 DEF BinaryInv, InodesOK
  <2>10. QED BY <2>1, <2>4, <2>5, <2>6, <2>7, <2>8, <2>9, FilesStep
<1>4. QED BY <1>2, <1>3

(* A header is written: only its owner does that, and the binary whose     *)
(* time stamp it renews is either current or marked late.                  *)
LEMMA CloseWriteStep ==
  ASSUME BinaryInv, NEW d \in Deliveries, CloseWrite(d)
  PROVE  BinaryInv'
<1> DEFINE s == del[d].sbin
           i == del[d].fd
           h == Account!Entered(s.flag, Total(s), clock)
           late == inodes[i].late \/ inodes[i].ver < script.ver
           f == [inodes[i] EXCEPT !.usage = h.usage, !.upd = h.upd, !.flag = h.flag, !.mtime = clock, !.late = late]
<1>1. Types /\ del[d] \in DelType /\ DeliveryOK(d, del[d]) /\ del[d].pc = "write" /\ i \in 1 .. Len(inodes)
      /\ lock[i] = d /\ clock \in Nat /\ script.ver \in Nat /\ s \in SbinType /\ Len(inodes) \in Nat
  BY DEF BinaryInv, Types, CloseWrite, DeliveryOK, DelType
<1>2. /\ inodes' = [inodes EXCEPT ![i] = f] /\ lock' = [lock EXCEPT ![i] = NoDelivery]
      /\ Go(d, Idle) /\ UNCHANGED <<clock, script, bin>>
  BY DEF CloseWrite
<1>3. h \in [usage : Usage, upd : Nat, flag : BOOLEAN] /\ (Account!IsExcessive(h.usage) => h.flag)
  <2>1. s.flag \in BOOLEAN /\ Total(s) \in Usage
    BY <1>1, TotalType DEF SbinType
  <2> HIDE DEF s
  <2>2. QED BY <1>1, <2>1, EnteredType
<1>4. inodes[i] \in InodeType /\ inodes[i].ver \in Nat
  BY <1>1, InodeFacts
<1> HIDE DEF h
<1>5. /\ f \in InodeType /\ f.usage = h.usage /\ f.flag = h.flag /\ f.mtime = clock
      /\ f.ver = inodes[i].ver /\ (f.late <=> late)
  <2>1. late \in BOOLEAN /\ h.usage \in Usage /\ h.upd \in Nat /\ h.flag \in BOOLEAN
    BY <1>3
  <2> HIDE DEF late
  <2>3. ASSUME NEW q \in InodeType
        PROVE  [q EXCEPT !.usage = h.usage, !.upd = h.upd, !.flag = h.flag, !.mtime = clock, !.late = late] \in InodeType
    BY <1>1, <2>1 DEF InodeType
  <2>4. f \in InodeType
    BY <1>4, <2>3
  <2>5. f.usage = h.usage /\ f.flag = h.flag /\ f.mtime = clock /\ f.late = late /\ f.ver = inodes[i].ver
    BY <1>4 DEF InodeType
  <2>6. QED BY <2>4, <2>5
<1> HIDE DEF f
<1>6. /\ inodes' \in Seq(InodeType) /\ Len(inodes') = Len(inodes) /\ inodes'[i] = f
      /\ \A j \in 1 .. Len(inodes) : j # i => inodes'[j] = inodes[j]
  BY <1>1, <1>2, <1>5 DEF Types
<1>7. \A j \in 1 .. Len(inodes) : inodes[j].late => inodes'[j].late
  BY <1>4, <1>5, <1>6
<1>8. \A j \in 1 .. Len(inodes') :
        /\ inodes'[j].mtime <= clock
        /\ Account!IsExcessive(inodes'[j].usage) => inodes'[j].flag
  <2> SUFFICES ASSUME NEW j \in 1 .. Len(inodes)
               PROVE  /\ inodes'[j].mtime <= clock
                      /\ Account!IsExcessive(inodes'[j].usage) => inodes'[j].flag
    BY <1>6
  <2>1. CASE j = i
    BY <1>1, <1>3, <1>5, <1>6, <2>1
  <2>2. CASE j # i
    BY <1>6, <2>2, InodeFacts
  <2>3. QED BY <2>1, <2>2
<1>9. bin' # 0 /\ inodes'[bin'].ver < script.ver /\ ~inodes'[bin'].late =>
           /\ bin' = bin /\ inodes'[bin'].ver = inodes[bin].ver
           /\ inodes'[bin'].mtime = inodes[bin].mtime /\ ~inodes[bin].late
  BY <1>1, <1>2, <1>5, <1>6 DEF Types
<1>10. del' \in [Deliveries -> DelType] /\ del'[d] = Idle /\ \A e \in Deliveries : e # d => del'[e] = del[e]
  BY <1>1, <1>2, IdleType DEF Go, Types
<1>11. lock' \in [1 .. MaxInodes -> Deliveries \cup {NoDelivery}]
  BY <1>1, <1>2 DEF Types
<1>12. ASSUME NEW e \in Deliveries, e # d, del[e].pc = "write"
       PROVE  /\ lock'[del[e].fd] = e
              /\ inodes'[del[e].fd].usage = inodes[del[e].fd].usage
              /\ inodes'[del[e].fd].upd = inodes[del[e].fd].upd
              /\ inodes'[del[e].fd].flag = inodes[del[e].fd].flag
  <2>1. lock[del[e].fd] = e /\ del[e].fd \in 1 .. Len(inodes)
    BY <1>12 DEF BinaryInv, DeliveryOK
  <2>2. del[e].fd # i
    BY <1>1, <1>12, <2>1
  <2>3. lock'[del[e].fd] = e
    BY <1>1, <1>2, <2>1, <2>2 DEF Types
  <2>4. QED BY <1>6, <2>1, <2>2, <2>3
<1>13. DeliveryOK(d, del[d])'
  BY <1>1, <1>6, <1>10, <1>2, IdleType DEF DeliveryOK, Types
<1>14. Len(inodes') <= MaxInodes /\ Len(inodes) <= Len(inodes') /\ bin' \in 0 .. Len(inodes') /\ (bin # 0 => bin' # 0)
  BY <1>1, <1>2, <1>6 DEF Types
<1>15. QED BY <1>2, <1>6, <1>7, <1>8, <1>9, <1>10, <1>11, <1>12, <1>13, <1>14, FilesStep

(* A temporary file is written: nobody sees it yet.                        *)
LEMMA SaveStep ==
  ASSUME BinaryInv, NEW d \in Deliveries, SaveToStream(d)
  PROVE  BinaryInv'
<1> DEFINE s == del[d].sbin
           h == Account!Entered(FALSE, Total(s), clock)
           f == [ver |-> s.ver, mtime |-> clock, kind |-> "sound",
                 usage |-> h.usage, upd |-> h.upd, flag |-> h.flag, late |-> FALSE]
           b == [s EXCEPT !.usage = h.usage, !.upd = h.upd, !.flag = h.flag, !.rusage = 0, !.updated = FALSE]
           r == [del[d] EXCEPT !.pc = "rename", !.tmp = Len(inodes) + 1, !.sbin = b]
<1>1. Types /\ del[d] \in DelType /\ DeliveryOK(d, del[d]) /\ del[d].pc = "save"
      /\ clock \in Nat /\ script.ver \in Nat /\ s \in SbinType /\ Len(inodes) \in Nat
  <2>1. Types /\ del[d] \in DelType /\ DeliveryOK(d, del[d]) /\ del[d].pc = "save"
    BY DEF BinaryInv, Types, SaveToStream
  <2>2. clock \in Nat /\ script.ver \in Nat /\ Len(inodes) \in Nat
    BY <2>1 DEF Types
  <2>3. QED BY <2>1, <2>2 DEF DelType
<1>2. /\ inodes' = Append(inodes, f) /\ Len(inodes) < MaxInodes
      /\ Go(d, r) /\ UNCHANGED <<clock, script, bin, lock>>
  BY DEF SaveToStream
<1>3. h \in [usage : Usage, upd : Nat, flag : BOOLEAN] /\ (Account!IsExcessive(h.usage) => h.flag)
  <2>1. FALSE \in BOOLEAN /\ Total(s) \in Usage
    BY <1>1, TotalType
  <2> HIDE DEF s
  <2>2. QED BY <1>1, <2>1, EnteredType
<1> HIDE DEF h
<1>4. /\ f \in InodeType /\ f.usage = h.usage /\ f.flag = h.flag /\ f.mtime = clock /\ ~f.late
  BY <1>1, <1>3 DEF InodeType, SbinType, Kinds
<1>5. /\ b \in SbinType /\ b.ino = s.ino /\ b.ver = s.ver /\ b.rusage = 0 /\ ~b.updated
  <2>1. 0 \in Usage /\ h.usage \in Usage /\ h.upd \in Nat /\ h.flag \in BOOLEAN
    BY <1>3, BinaryAssumption
  <2>2. ASSUME NEW q \in SbinType
        PROVE  [q EXCEPT !.usage = h.usage, !.upd = h.upd, !.flag = h.flag, !.rusage = 0, !.updated = FALSE] \in SbinType
    BY <2>1 DEF SbinType
  <2>3. b \in SbinType
    BY <1>1, <2>2
  <2>4. QED BY <1>1, <2>3 DEF SbinType
<1> HIDE DEF b, f
<1>6. r \in DelType /\ r.pc = "rename" /\ r.tmp = Len(inodes) + 1 /\ r.sbin = b /\ r.begun = del[d].begun
      /\ r.resave = del[d].resave
  <2>1. Len(inodes) + 1 \in Nat
    BY <1>1
  <2>2. QED BY <1>1, <1>5, <2>1 DEF DelType, Steps
<1> HIDE DEF r
<1>7. /\ inodes' \in Seq(InodeType) /\ Len(inodes') = Len(inodes) + 1 /\ inodes'[Len(inodes) + 1] = f
      /\ \A j \in 1 .. Len(inodes) : inodes'[j] = inodes[j]
  BY <1>1, <1>2, <1>4 DEF Types
<1>8. \A j \in 1 .. Len(inodes') :
        /\ inodes'[j].mtime <= clock
        /\ Account!IsExcessive(inodes'[j].usage) => inodes'[j].flag
  <2> SUFFICES ASSUME NEW j \in 1 .. Len(inodes) + 1
               PROVE  /\ inodes'[j].mtime <= clock
                      /\ Account!IsExcessive(inodes'[j].usage) => inodes'[j].flag
    BY <1>7
  <2>1. CASE j = Len(inodes) + 1
    BY <1>1, <1>3, <1>4, <1>7, <2>1
  <2>2. CASE j # Len(inodes) + 1
    <3>1. j \in 1 .. Len(inodes)
      BY <1>1, <2>2
    <3>2. QED BY <1>7, <3>1, InodeFacts
  <2>3. QED BY <2>1, <2>2
<1>9. bin' = bin /\ (bin # 0 => bin \in 1 .. Len(inodes) /\ inodes'[bin] = inodes[bin])
  BY <1>1, <1>2, <1>7 DEF Types
<1>10. del' \in [Deliveries -> DelType] /\ del'[d] = r /\ \A e \in Deliveries : e # d => del'[e] = del[e]
  BY <1>1, <1>2, <1>6 DEF Go, Types
<1>11. lock' \in [1 .. MaxInodes -> Deliveries \cup {NoDelivery}]
  BY <1>1, <1>2 DEF Types
<1>12. ASSUME NEW e \in Deliveries, e # d, del[e].pc = "write"
       PROVE  lock'[del[e].fd] = e /\ inodes'[del[e].fd] = inodes[del[e].fd]
  <2>1. lock[del[e].fd] = e /\ del[e].fd \in 1 .. Len(inodes)
    BY <1>12 DEF BinaryInv, DeliveryOK
  <2>2. QED BY <1>2, <1>7, <2>1
<1>13. DeliveryOK(d, del[d])'
  <2>1. /\ s.ino = 0 \/ del[d].resave
        /\ s.ver >= del[d].begun /\ del[d].begun <= script.ver
        /\ s.ino <= Len(inodes) /\ (s.ino # 0 => bin # 0) /\ s.ino \in Nat
    BY <1>1 DEF DeliveryOK, SbinType
  <2> HIDE DEF s
  <2>2. QED BY <1>1, <1>2, <1>5, <1>6, <1>7, <1>10, <2>1 DEF DeliveryOK
<1>14. Len(inodes') <= MaxInodes /\ Len(inodes) <= Len(inodes') /\ bin' \in 0 .. Len(inodes') /\ (bin # 0 => bin' # 0)
  BY <1>1, <1>2, <1>7, BinaryAssumption DEF Types
<1>15. \A j \in 1 .. Len(inodes) : inodes[j].late => inodes'[j].late
  BY <1>7
<1>16. \A e \in Deliveries : e # d /\ del[e].pc = "write" =>
         /\ lock'[del[e].fd] = e
         /\ inodes'[del[e].fd].usage = inodes[del[e].fd].usage
         /\ inodes'[del[e].fd].upd = inodes[del[e].fd].upd
         /\ inodes'[del[e].fd].flag = inodes[del[e].fd].flag
  BY <1>12
<1>17. bin' # 0 /\ inodes'[bin'].ver < script.ver /\ ~inodes'[bin'].late =>
         /\ bin' = bin /\ inodes'[bin'].ver = inodes[bin].ver
         /\ inodes'[bin'].mtime = inodes[bin].mtime /\ ~inodes[bin].late
  BY <1>9
<1>18. QED BY <1>2, <1>7, <1>8, <1>10, <1>11, <1>13, <1>14, <1>15, <1>16, <1>17, FilesStep

(* A saved binary comes to the path: current, or marked late.              *)
LEMMA RenameStep ==
  ASSUME BinaryInv, NEW d \in Deliveries, SaveRename(d)
  PROVE  BinaryInv'
<1> DEFINE i == del[d].tmp
           late == inodes[i].late \/ inodes[i].ver < script.ver
           f == [inodes[i] EXCEPT !.late = late]
           q == [del[d] EXCEPT !.sbin.ino = i, !.tmp = 0]
           r == AfterSave(q)
<1>1. Types /\ del[d] \in DelType /\ DeliveryOK(d, del[d]) /\ del[d].pc = "rename" /\ i \in 1 .. Len(inodes)
      /\ script.ver \in Nat /\ del[d].sbin \in SbinType /\ Len(inodes) \in Nat
  BY DEF BinaryInv, Types, SaveRename, DeliveryOK, DelType
<1>2. /\ inodes' = [inodes EXCEPT ![i] = f] /\ bin' = i
      /\ Go(d, r) /\ UNCHANGED <<clock, script, lock>>
  BY DEF SaveRename
<1>3. inodes[i] \in InodeType /\ inodes[i].ver \in Nat
      /\ inodes[i].mtime <= clock /\ (Account!IsExcessive(inodes[i].usage) => inodes[i].flag)
  BY <1>1, InodeFacts
<1>4. /\ f \in InodeType /\ f.usage = inodes[i].usage /\ f.upd = inodes[i].upd /\ f.flag = inodes[i].flag
      /\ f.mtime = inodes[i].mtime /\ f.ver = inodes[i].ver /\ (f.late <=> inodes[i].late \/ inodes[i].ver < script.ver)
  <2>1. late \in BOOLEAN
    BY <1>3 DEF InodeType
  <2>2. late <=> inodes[i].late \/ inodes[i].ver < script.ver
    OBVIOUS
  <2> HIDE DEF late
  <2>3. f \in InodeType /\ f.late = late
    BY <1>3, <2>1 DEF InodeType
  <2>4. f.usage = inodes[i].usage /\ f.upd = inodes[i].upd /\ f.flag = inodes[i].flag
        /\ f.mtime = inodes[i].mtime /\ f.ver = inodes[i].ver
    BY <1>3 DEF InodeType
  <2>5. QED BY <2>2, <2>3, <2>4
<1> HIDE DEF f, late
<1>5. /\ inodes' \in Seq(InodeType) /\ Len(inodes') = Len(inodes) /\ inodes'[i] = f
      /\ \A j \in 1 .. Len(inodes) : j # i => inodes'[j] = inodes[j]
  BY <1>1, <1>2, <1>4 DEF Types
<1>6. /\ q \in DelType /\ q.begun = del[d].begun /\ q.sbin.ino = i /\ q.sbin.ver = del[d].sbin.ver
      /\ q.sbin.rusage = del[d].sbin.rusage /\ q.sbin.updated = del[d].sbin.updated
  <2> DEFINE b == [del[d].sbin EXCEPT !.ino = i]
  <2>1. i \in Nat
    BY <1>1
  <2> HIDE DEF i
  <2>2. b \in SbinType
    BY <1>1, <2>1 DEF SbinType
  <2>3. /\ b.ino = i /\ b.ver = del[d].sbin.ver
        /\ b.rusage = del[d].sbin.rusage /\ b.updated = del[d].sbin.updated
    BY <1>1 DEF SbinType
  <2>4. q = [del[d] EXCEPT !.sbin = b, !.tmp = 0]
    BY <1>1 DEF DelType
  <2> HIDE DEF b, q
  <2>5. q \in DelType
    BY <1>1, <2>2, <2>4 DEF DelType
  <2>6. q.begun = del[d].begun /\ q.sbin = b
    BY <1>1, <2>4 DEF DelType
  <2>7. QED BY <2>3, <2>5, <2>6
<1> HIDE DEF q
<1>7. /\ del[d].begun <= script.ver /\ del[d].sbin.ver >= del[d].begun
      /\ del[d].sbin.rusage = 0 /\ ~del[d].sbin.updated
  BY <1>1 DEF DeliveryOK
<1>8. \/ r = Idle
      \/ r \in DelType /\ r.begun = q.begun /\ r.pc = "run" /\ r.sbin = q.sbin
  BY <1>6, <1>7, AfterSaveForm
<1> HIDE DEF r
<1>9. r \in DelType
  BY <1>8, IdleType
<1>10. del' \in [Deliveries -> DelType] /\ del'[d] = r /\ \A e \in Deliveries : e # d => del'[e] = del[e]
  BY <1>1, <1>2, <1>9 DEF Go, Types
<1>11. DeliveryOK(d, del[d])'
  <2>1. CASE r = Idle
    BY <1>1, <1>2, <1>5, <1>10, <2>1, IdleType DEF DeliveryOK, Types
  <2>2. CASE r.pc = "run" /\ r.begun = q.begun /\ r.sbin = q.sbin
    BY <1>1, <1>2, <1>5, <1>6, <1>7, <1>10, <2>2 DEF DeliveryOK
  <2>3. QED BY <1>8, <2>1, <2>2
<1>12. \A j \in 1 .. Len(inodes) : inodes[j].late => inodes'[j].late
  BY <1>3, <1>4, <1>5
<1>13. \A j \in 1 .. Len(inodes') :
        /\ inodes'[j].mtime <= clock
        /\ Account!IsExcessive(inodes'[j].usage) => inodes'[j].flag
  <2> SUFFICES ASSUME NEW j \in 1 .. Len(inodes)
               PROVE  /\ inodes'[j].mtime <= clock
                      /\ Account!IsExcessive(inodes'[j].usage) => inodes'[j].flag
    BY <1>5
  <2>1. CASE j = i
    BY <1>3, <1>4, <1>5, <2>1
  <2>2. CASE j # i
    BY <1>5, <2>2, InodeFacts
  <2>3. QED BY <2>1, <2>2
<1>14. ASSUME NEW e \in Deliveries, e # d, del[e].pc = "write"
       PROVE  /\ lock'[del[e].fd] = e
              /\ inodes'[del[e].fd].usage = inodes[del[e].fd].usage
              /\ inodes'[del[e].fd].upd = inodes[del[e].fd].upd
              /\ inodes'[del[e].fd].flag = inodes[del[e].fd].flag
  <2>1. lock[del[e].fd] = e /\ del[e].fd \in 1 .. Len(inodes)
    BY <1>14 DEF BinaryInv, DeliveryOK
  <2>2. CASE del[e].fd = i
    BY <1>2, <1>4, <1>5, <2>1, <2>2
  <2>3. CASE del[e].fd # i
    BY <1>2, <1>5, <2>1, <2>3
  <2>4. QED BY <2>2, <2>3
<1>15. /\ Len(inodes') <= MaxInodes /\ Len(inodes) <= Len(inodes') /\ bin' \in 0 .. Len(inodes') /\ bin' # 0
       /\ lock' \in [1 .. MaxInodes -> Deliveries \cup {NoDelivery}]
  BY <1>1, <1>2, <1>5 DEF Types
<1>16. inodes'[bin'].ver < script.ver => inodes'[bin'].late
  BY <1>2, <1>4, <1>5
<1>17. QED BY <1>2, <1>5, <1>10, <1>11, <1>12, <1>13, <1>14, <1>15, <1>16, FilesStep

-----------------------------------------------------------------------------
(* The invariant and what follows from it *)

(* At first there is no binary, or one that is newer than the script.      *)
LEMMA InitOK ==
  ASSUME Init
  PROVE  BinaryInv
<1>1. /\ clock = 1 /\ script = [ver |-> 1, mtime |-> 0]
      /\ lock = [i \in 1 .. MaxInodes |-> NoDelivery] /\ del = [d \in Deliveries |-> Idle]
  BY DEF Init
<1>2. /\ inodes \in Seq(InodeType) /\ Len(inodes) <= MaxInodes /\ bin \in 0 .. Len(inodes)
      /\ InodesOK /\ OldByTime(script.ver, script.mtime)
  <2>1. CASE inodes = <<>> /\ bin = 0
    BY <2>1, BinaryAssumption DEF InodesOK, OldByTime
  <2>2. ASSUME NEW kind \in Kinds, inodes = <<FirstBinary(kind)>>, bin = 1
        PROVE  /\ inodes \in Seq(InodeType) /\ Len(inodes) <= MaxInodes /\ bin \in 0 .. Len(inodes)
               /\ InodesOK /\ OldByTime(script.ver, script.mtime)
    <3> DEFINE f == FirstBinary(kind)
    <3>1. f \in InodeType /\ f.ver = 1 /\ f.mtime = 1 /\ f.usage = 0 /\ ~f.late
      BY BinaryAssumption DEF FirstBinary, InodeType
    <3> HIDE DEF f
    <3>2. inodes \in Seq(InodeType) /\ Len(inodes) = 1 /\ inodes[1] = f
      BY <2>2, <3>1 DEF f
    <3>3. ~Account!IsExcessive(0)
      BY BinaryAssumption DEF Account!IsExcessive
    <3>4. InodesOK
      BY <1>1, <3>1, <3>2, <3>3 DEF InodesOK
    <3>5. OldByTime(script.ver, script.mtime)
      BY <1>1, <2>2, <3>1, <3>2 DEF OldByTime
    <3>6. QED BY <2>2, <3>2, <3>4, <3>5, BinaryAssumption
  <2>3. QED BY <2>1, <2>2 DEF Init
<1>3. Types
  BY <1>1, <1>2, IdleType, BinaryAssumption DEF Types
<1>4. QED BY <1>1, <1>2, <1>3, IdleOK DEF BinaryInv

(* Every step keeps the invariant.                                         *)
LEMMA InvStep ==
  ASSUME BinaryInv, [Next]_binVars
  PROVE  BinaryInv'
<1>1. CASE UNCHANGED binVars
  BY <1>1 DEF BinaryInv, Types, InodesOK, OldByTime, DeliveryOK, binVars, Account!IsExcessive, Account!IsHigh
<1>2. CASE Tick
  BY <1>2, TickStep
<1>3. CASE Upload
  BY <1>3, UploadStep
<1>4. ASSUME NEW d \in Deliveries, Start(d) \/ Crash(d) \/ Deliver(d)
      PROVE  BinaryInv'
  <2>1. CASE Start(d)
    BY <2>1, StartStep
  <2>2. CASE Crash(d)
    BY <2>2, CrashStep
  <2>3. CASE \E extOk \in BOOLEAN : BinaryLoad(d, extOk)
    BY <2>3, LoadStep
  <2>4. CASE CompileScript(d)
    BY <2>4, CompileStep
  <2>5. CASE CompileFailed(d) \/ CloseLockTimeout(d)
    BY <2>5, GiveUpStep
  <2>6. CASE SaveToStream(d)
    BY <2>6, SaveStep
  <2>7. CASE SaveFailed(d)
    BY <2>7, SaveFailedStep
  <2>8. CASE SaveRename(d)
    BY <2>8, RenameStep
  <2>9. CASE \E cpu \in Usages : Run(d, cpu)
    BY <2>9, RunStep
  <2>10. CASE CloseOpen(d)
    BY <2>10, CloseOpenStep
  <2>11. CASE CloseLock(d)
    BY <2>11, CloseLockStep
  <2>12. CASE CloseWrite(d)
    BY <2>12, CloseWriteStep
  <2>13. QED BY <1>4, <2>1, <2>2, <2>3, <2>4, <2>5, <2>6, <2>7, <2>8, <2>9, <2>10, <2>11, <2>12 DEF Deliver
<1>5. QED BY <1>1, <1>2, <1>3, <1>4 DEF Next

(* In every state of sieve_open_script, of saving, running and closing,    *)
(* the files, the locks and what the deliveries hold fit together.         *)
THEOREM BinaryInvariant == Spec => []BinaryInv
<1>1. Init => BinaryInv
  BY InitOK
<1>2. BinaryInv /\ [Next]_binVars => BinaryInv'
  BY InvStep
<1>3. QED BY <1>1, <1>2, PTL DEF Spec

(* sieve_open_script runs a binary that is not older than the script was   *)
(* when the delivery began, or one that was written after the newer script *)
(* came into place, or one the newer script came with an older time stamp  *)
(* than; the usage in every header and in every process stays an unsigned int.             *)
THEOREM RunsCurrent == Spec => []RunsCurrentBinary
<1>1. BinaryInv => BinaryTypeOK
  <2> SUFFICES ASSUME BinaryInv PROVE BinaryTypeOK
    OBVIOUS
  <2>1. Types
    BY DEF BinaryInv
  <2>2. \A i \in DOMAIN inodes : inodes[i].usage \in 0 .. UintMax /\ inodes[i].flag \in BOOLEAN
    <3>1. DOMAIN inodes = 1 .. Len(inodes)
      BY <2>1 DEF Types
    <3>2. QED BY <3>1, InodeFacts
  <2>3. \A i \in DOMAIN lock : lock[i] \in Deliveries \cup {NoDelivery}
    BY <2>1 DEF Types
  <2>4. ASSUME NEW d \in Deliveries
        PROVE  del[d].pc \in Steps /\ del[d].sbin.ino \in 0 .. Len(inodes) /\ del[d].sbin.rusage \in 0 .. UintMax
    <3>1. del[d] \in DelType /\ DeliveryOK(d, del[d]) /\ Len(inodes) \in Nat
      BY <2>1 DEF BinaryInv, Types
    <3>2. del[d].pc \in Steps /\ del[d].sbin \in SbinType
      BY <3>1 DEF DelType
    <3>3. del[d].sbin.ino \in Nat /\ del[d].sbin.rusage \in 0 .. UintMax
      BY <3>2 DEF SbinType
    <3>4. QED BY <3>1, <3>2, <3>3 DEF DeliveryOK
  <2>5. QED BY <2>1, <2>2, <2>3, <2>4 DEF BinaryTypeOK, Types
<1>2. BinaryInv => StaleOnlyIfLate
  BY DEF BinaryInv, DeliveryOK, StaleOnlyIfLate
<1>3. QED BY <1>1, <1>2, BinaryInvariant, PTL DEF RunsCurrentBinary

-----------------------------------------------------------------------------
(* The headers of the binaries as accounts *)

Accounts == [i \in DOMAIN inodes |->
               [usage |-> inodes[i].usage, upd |-> inodes[i].upd, flag |-> inodes[i].flag]]

(* Files whose headers stay as they are, are accounts without an entry.    *)
LEMMA SameHeaders ==
  ASSUME Types, DOMAIN inodes' = DOMAIN inodes,
         \A i \in 1 .. Len(inodes) :
           /\ inodes'[i].usage = inodes[i].usage
           /\ inodes'[i].upd = inodes[i].upd
           /\ inodes'[i].flag = inodes[i].flag
  PROVE  Accounts' = Accounts
<1>1. DOMAIN inodes = 1 .. Len(inodes)
  BY DEF Types
<1>2. QED BY <1>1 DEF Accounts

(* Saving a binary opens an account, with what it took over from the one   *)
(* before.                                                                 *)
LEMMA SaveOpens ==
  ASSUME BinaryInv, NEW d \in Deliveries, SaveToStream(d)
  PROVE  /\ \E carried \in 0 .. UintMax : Accounts' = Append(Accounts, Account!Entered(FALSE, carried, clock))
         /\ clock' = clock
<1> DEFINE s == del[d].sbin
           h == Account!Entered(FALSE, Total(s), clock)
           f == [ver |-> s.ver, mtime |-> clock, kind |-> "sound",
                 usage |-> h.usage, upd |-> h.upd, flag |-> h.flag, late |-> FALSE]
<1>1. Types /\ del[d] \in DelType /\ Len(inodes) \in Nat /\ DOMAIN inodes = 1 .. Len(inodes) /\ clock \in Nat
  BY DEF BinaryInv, Types
<1>2. inodes' = Append(inodes, f) /\ clock' = clock
  BY DEF SaveToStream
<1>3. Total(s) \in Usage
  BY <1>1, TotalType DEF DelType
<1>4. h \in [usage : Usage, upd : Nat, flag : BOOLEAN]
  <2> HIDE DEF s
  <2>1. QED BY <1>1, <1>3, EnteredType
<1> HIDE DEF h
<1>5. f.usage = h.usage /\ f.upd = h.upd /\ f.flag = h.flag /\ h = [usage |-> h.usage, upd |-> h.upd, flag |-> h.flag]
  BY <1>4
<1> HIDE DEF f
<1>6. /\ DOMAIN inodes' = 1 .. Len(inodes) + 1 /\ inodes'[Len(inodes) + 1] = f
      /\ \A j \in 1 .. Len(inodes) : inodes'[j] = inodes[j]
  <2>1. inodes \in Seq(InodeType)
    BY <1>1 DEF Types
  <2>2. QED BY <1>1, <1>2, <2>1
<1>7. Accounts' = Append(Accounts, h)
  <2> DEFINE acct(q) == [usage |-> q.usage, upd |-> q.upd, flag |-> q.flag]
             A == [i \in 1 .. Len(inodes) |-> acct(inodes[i])]
  <2>1. Accounts = A
    BY <1>1 DEF Accounts
  <2>2. A \in Seq([usage : Usage, upd : Nat, flag : BOOLEAN]) /\ Len(A) = Len(inodes)
    <3>1. \A i \in 1 .. Len(inodes) : acct(inodes[i]) \in [usage : Usage, upd : Nat, flag : BOOLEAN]
      BY InodeFacts
    <3> HIDE DEF acct
    <3>2. QED BY <1>1, <3>1
  <2>3. Accounts' = [i \in 1 .. Len(inodes) + 1 |-> acct(inodes'[i])]
    BY <1>6 DEF Accounts
  <2>4. acct(f) = h
    BY <1>5
  <2> HIDE DEF acct
  <2>5. Append(A, h) = [i \in 1 .. Len(inodes) + 1 |-> IF i = Len(inodes) + 1 THEN h ELSE A[i]]
    BY <1>1, <1>4, <2>2
  <2>6. QED BY <1>1, <1>6, <2>1, <2>3, <2>4, <2>5
<1>8. QED BY <1>2, <1>3, <1>7 DEF h

(* Writing a header back makes one entry: what it held when it was read    *)
(* under the lock, it still holds.                                         *)
LEMMA WriteCharges ==
  ASSUME BinaryInv, NEW d \in Deliveries, CloseWrite(d)
  PROVE  \E i \in DOMAIN Accounts, u \in 1 .. UintMax :
           /\ Account!IsHigh(u)
           /\ Accounts' = [Accounts EXCEPT ![i] =
                Account!Entered(Accounts[i].flag,
                                Account!UsageAdd(Account!CurrentUsage(Accounts[i], clock), u), clock)]
           /\ clock' = clock
<1> DEFINE s == del[d].sbin
           i == del[d].fd
           h == Account!Entered(s.flag, Total(s), clock)
           late == inodes[i].late \/ inodes[i].ver < script.ver
           f == [inodes[i] EXCEPT !.usage = h.usage, !.upd = h.upd, !.flag = h.flag, !.mtime = clock, !.late = late]
<1>1. /\ Types /\ del[d] \in DelType /\ DeliveryOK(d, del[d]) /\ del[d].pc = "write" /\ i \in 1 .. Len(inodes)
      /\ clock \in Nat /\ s \in SbinType /\ DOMAIN inodes = 1 .. Len(inodes) /\ inodes \in Seq(InodeType)
  BY DEF BinaryInv, Types, CloseWrite, DeliveryOK, DelType
<1>2. inodes' = [inodes EXCEPT ![i] = f] /\ clock' = clock
  BY DEF CloseWrite
<1>3. /\ s.usage = inodes[i].usage /\ s.upd = inodes[i].upd /\ s.flag = inodes[i].flag
      /\ Account!IsHigh(s.rusage) /\ s.rusage \in 1 .. UintMax
  <2>1. /\ s.usage = inodes[i].usage /\ s.upd = inodes[i].upd /\ s.flag = inodes[i].flag
        /\ Account!IsHigh(s.rusage)
    BY <1>1 DEF DeliveryOK
  <2>2. s.rusage \in Usage
    BY <1>1 DEF SbinType
  <2>3. QED BY <2>1, <2>2, BinaryAssumption DEF Account!IsHigh
<1>4. h \in [usage : Usage, upd : Nat, flag : BOOLEAN]
  <2>1. s.flag \in BOOLEAN /\ Total(s) \in Usage
    BY <1>1, TotalType DEF SbinType
  <2> HIDE DEF s
  <2>2. QED BY <1>1, <2>1, EnteredType
<1>5. i \in DOMAIN Accounts /\ Accounts[i] = [usage |-> inodes[i].usage, upd |-> inodes[i].upd, flag |-> inodes[i].flag]
  BY <1>1 DEF Accounts
<1>6. h = Account!Entered(Accounts[i].flag, Account!UsageAdd(Account!CurrentUsage(Accounts[i], clock), s.rusage), clock)
  <2>1. Accounts[i].flag = s.flag /\ Accounts[i].usage = s.usage /\ Accounts[i].upd = s.upd
    BY <1>3, <1>5
  <2>2. Account!CurrentUsage(Accounts[i], clock) = Account!CurrentUsage(s, clock)
    BY <2>1 DEF Account!CurrentUsage
  <2>3. QED BY <2>1, <2>2 DEF Total
<1> HIDE DEF h, late
<1>7. f.usage = h.usage /\ f.upd = h.upd /\ f.flag = h.flag /\ h = [usage |-> h.usage, upd |-> h.upd, flag |-> h.flag]
  <2>1. inodes[i] \in InodeType
    BY <1>1, InodeFacts
  <2>2. QED BY <1>4, <2>1 DEF InodeType
<1> HIDE DEF f, i
<1>8. /\ DOMAIN inodes' = DOMAIN inodes /\ inodes'[i] = f
      /\ \A j \in DOMAIN inodes : j # i => inodes'[j] = inodes[j]
  BY <1>1, <1>2
<1>9. Accounts' = [Accounts EXCEPT ![i] = h]
  BY <1>1, <1>7, <1>8 DEF Accounts
<1>10. QED BY <1>2, <1>3, <1>5, <1>6, <1>9

(* Every step of a delivery is an entry, a new account or nothing to the   *)
(* accounts.                                                               *)
LEMMA AccountStep ==
  ASSUME BinaryInv, [Next]_binVars
  PROVE  [Account!AcctNext]_(Account!acctVars)
<1>1. Account!acctVars = <<clock, Accounts>>
  BY DEF Account!acctVars, Accounts
<1>2. Account!acctVars' = <<clock', Accounts'>>
  BY DEF Account!acctVars, Accounts
<1>3. Types
  BY DEF BinaryInv
<1>4. CASE UNCHANGED <<clock, inodes>>
  BY <1>1, <1>2, <1>4 DEF Accounts
<1>5. CASE Tick
  <2>1. Account!Tick
    BY <1>5 DEF Tick, Account!Tick
  <2>2. QED BY <2>1 DEF Account!AcctNext
<1>6. ASSUME NEW d \in Deliveries, SaveToStream(d) PROVE Account!AcctNext
  <2>1. Account!Open
    BY <1>6, SaveOpens DEF Account!Open, Accounts
  <2>2. QED BY <2>1 DEF Account!AcctNext
<1>7. ASSUME NEW d \in Deliveries, CloseWrite(d) PROVE Account!AcctNext
  BY <1>7, WriteCharges DEF Account!AcctNext, Account!Charge, Accounts
<1>8. ASSUME NEW d \in Deliveries, SaveRename(d) PROVE Account!acctVars' = Account!acctVars
  <2> DEFINE i == del[d].tmp
             f == [inodes[i] EXCEPT !.late = inodes[i].late \/ inodes[i].ver < script.ver]
  <2>1. i \in 1 .. Len(inodes)
    BY <1>8 DEF BinaryInv, DeliveryOK, SaveRename
  <2>2. inodes' = [inodes EXCEPT ![i] = f] /\ clock' = clock
    BY <1>8 DEF SaveRename
  <2>3. inodes[i] \in InodeType /\ inodes \in Seq(InodeType)
    BY <1>3, <2>1, InodeFacts DEF Types
  <2>4. f.usage = inodes[i].usage /\ f.upd = inodes[i].upd /\ f.flag = inodes[i].flag
    BY <2>3 DEF InodeType
  <2> HIDE DEF f, i
  <2>5. DOMAIN inodes' = DOMAIN inodes /\ inodes'[i] = f /\ \A j \in DOMAIN inodes : j # i => inodes'[j] = inodes[j]
    BY <2>1, <2>2, <2>3
  <2>6. DOMAIN inodes = 1 .. Len(inodes)
    BY <2>3
  <2>7. Accounts' = Accounts
    BY <1>3, <2>4, <2>5, <2>6, SameHeaders
  <2>8. QED BY <1>1, <1>2, <2>2, <2>7
<1>9. ASSUME NEW d \in Deliveries, Start(d) \/ Crash(d) \/ Deliver(d)
      PROVE  [Account!AcctNext]_(Account!acctVars)
  <2>1. CASE SaveToStream(d)
    BY <1>6, <2>1
  <2>2. CASE CloseWrite(d)
    BY <1>7, <2>2
  <2>3. CASE SaveRename(d)
    BY <1>8, <2>3
  <2>4. CASE ~SaveToStream(d) /\ ~CloseWrite(d) /\ ~SaveRename(d)
    <3>1. UNCHANGED <<clock, inodes>>
      BY <1>9, <2>4 DEF Start, Crash, Deliver, BinaryLoad, CompileScript, CompileFailed, SaveFailed, Run,
                        CloseOpen, CloseLock, CloseLockTimeout
    <3>2. QED BY <1>4, <3>1
  <2>5. QED BY <2>1, <2>2, <2>3, <2>4
<1>10. CASE Upload
  <2>1. PICK t \in 0 .. MaxClock :
          inodes' = [i \in DOMAIN inodes |->
             [inodes[i] EXCEPT !.late = inodes[i].late \/ (i = bin /\ inodes[i].mtime > t)]]
    BY <1>10 DEF Upload
  <2>2. DOMAIN inodes = 1 .. Len(inodes)
    BY <1>3 DEF Types
  <2>3. ASSUME NEW i \in 1 .. Len(inodes)
        PROVE  /\ inodes'[i].usage = inodes[i].usage
               /\ inodes'[i].upd = inodes[i].upd
               /\ inodes'[i].flag = inodes[i].flag
    <3> DEFINE late == inodes[i].late \/ (i = bin /\ inodes[i].mtime > t)
    <3>1. inodes'[i] = [inodes[i] EXCEPT !.late = late] /\ inodes[i] \in InodeType
      BY <2>1, <2>2, InodeFacts
    <3> HIDE DEF late
    <3>2. QED BY <3>1 DEF InodeType
  <2>4. DOMAIN inodes' = DOMAIN inodes
    BY <2>1
  <2>5. Accounts' = Accounts
    BY <1>3, <2>3, <2>4, SameHeaders
  <2>6. clock' = clock
    BY <1>10 DEF Upload
  <2>7. QED BY <1>1, <1>2, <2>5, <2>6
<1>11. QED BY <1>4, <1>5, <1>9, <1>10 DEF Next, binVars

(* Reading the header of a binary and writing it back under its lock, by   *)
(* processes that may die in between, implements an account in which       *)
(* entries are made one at a time and none is lost.                        *)
THEOREM AccountRefined == Spec => UsageIsAccounted
<1>1. Init => Account!AcctInit
  <2> SUFFICES ASSUME Init PROVE Account!AcctInit
    OBVIOUS
  <2>1. clock = 1
    BY DEF Init
  <2>2. Accounts \in {<<>>, <<[usage |-> 0, upd |-> 0, flag |-> FALSE]>>}
    <3>1. CASE inodes = <<>>
      BY <3>1 DEF Accounts
    <3>2. ASSUME NEW kind \in Kinds, inodes = <<FirstBinary(kind)>>
          PROVE  Accounts = <<[usage |-> 0, upd |-> 0, flag |-> FALSE]>>
      <4>1. DOMAIN inodes = 1 .. 1 /\ inodes[1].usage = 0 /\ inodes[1].upd = 0 /\ inodes[1].flag = FALSE
        BY <3>2 DEF FirstBinary
      <4>2. Accounts = [i \in 1 .. 1 |-> [usage |-> 0, upd |-> 0, flag |-> FALSE]]
        <5>1. \A i \in 1 .. 1 : i = 1
          OBVIOUS
        <5>2. QED BY <4>1, <5>1, Zenon DEF Accounts
      <4>3. ASSUME NEW r PROVE [i \in 1 .. 1 |-> r] = <<r>>
        OBVIOUS
      <4>4. QED BY <4>2, <4>3
    <3>3. QED BY <3>1, <3>2 DEF Init
  <2>3. QED BY <2>1, <2>2 DEF Account!AcctInit, Accounts
<1>2. BinaryInv /\ [Next]_binVars => [Account!AcctNext]_(Account!acctVars)
  BY AccountStep
<1>3. QED BY <1>1, <1>2, BinaryInvariant, PTL DEF Spec, UsageIsAccounted, Account!AcctSpec
=============================================================================
