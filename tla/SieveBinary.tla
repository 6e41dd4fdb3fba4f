----------------------------- MODULE SieveBinary -----------------------------
(* The binary cache of a user's script: sieve-binary.c, sieve-binary-file.c,
   the binary part of sieve-file-script.c and sieve-script.c, sieve_open_script
   of sieve.c and its use by lda_sieve_execute_script.

   Deliveries of one user are processes of their own.  They share the script
   file and the compiled binary beside it; a script is replaced by an upload at
   any moment, a delivery dies at any moment.  Files are inodes: a process that
   opened a binary keeps reading the one it opened after another was renamed
   over it.  The header of a binary is the only part that is written in place.

   Times are those of the file system's clock; steps within one tick carry the
   same time stamp.                                                          *)
EXTENDS Integers, Sequences

CONSTANTS Deliveries,   \* processes that deliver mail to the user
          Usages,       \* CPU times an execution may take
          UintMax, HighCpu, MaxCpu, Timeout,
          MaxClock,     \* bound on the clock
          MaxVersion,   \* bound on the versions of the script uploaded
          MaxInodes     \* bound on the binaries written

ASSUME BinaryAssumption ==
  /\ Usages \subseteq Nat /\ UintMax \in Nat /\ HighCpu \in Nat /\ MaxCpu \in Nat
  /\ Timeout \in Nat /\ MaxVersion \in Nat /\ MaxClock \in Nat \ {0} /\ MaxInodes \in Nat \ {0}
  /\ \A u \in Usages : u <= UintMax
  /\ "none" \notin Deliveries

VARIABLES clock,    \* the time
          script,   \* the script file: version of its text and mtime
          inodes,   \* every binary file ever written
          bin,      \* the inode the binary's path names, 0 for none
          lock,     \* who holds the fcntl lock of each inode
          del       \* what each delivery is doing

binVars == <<clock, script, inodes, bin, lock, del>>

NoDelivery == "none"

Account == INSTANCE UsageAccount WITH
  accounts <- [i \in DOMAIN inodes |->
                 [usage |-> inodes[i].usage, upd |-> inodes[i].upd, flag |-> inodes[i].flag]]

(* sbin of a delivery: ino is the file it was loaded from,
   0 for a binary that only exists in memory; rusage is what this process
   adds to the header's usage. *)
NoBinary == [ino |-> 0, ver |-> 0, usage |-> 0, upd |-> 0,
             flag |-> FALSE, rusage |-> 0, updated |-> FALSE]

Idle == [pc |-> "idle", st |-> 0, begun |-> 0, sbin |-> NoBinary,
         carried |-> 0, resave |-> FALSE, cpu |-> 0, fd |-> 0, tmp |-> 0]

Go(d, rec) == del' = [del EXCEPT ![d] = rec]

(* Init: no binary, or one compiled after the script came: as it is written today
   ("sound"), of the format that is read but no longer written ("old"), of one that
   is not read ("unread"), or one whose code turns out to be corrupt. *)
Kinds == {"sound", "old", "unread", "corrupt"}

FirstBinary(kind) ==
  [ver |-> 1, mtime |-> 1, kind |-> kind, usage |-> 0, upd |-> 0, flag |-> FALSE, late |-> FALSE]

Init ==
  /\ clock = 1
  /\ script = [ver |-> 1, mtime |-> 0]
  /\ \/ inodes = <<>> /\ bin = 0
     \/ \E kind \in Kinds : inodes = <<FirstBinary(kind)>> /\ bin = 1
  /\ lock = [i \in 1 .. MaxInodes |-> NoDelivery]
  /\ del = [d \in Deliveries |-> Idle]

-----------------------------------------------------------------------------
(* The world around the deliveries *)

Tick == /\ clock < MaxClock
        /\ clock' = clock + 1
        /\ UNCHANGED <<script, inodes, bin, lock, del>>

(* A new script is renamed over the old one; the binary stays.  The script keeps
   the time stamp of its temporary file: that of its last write, which may have
   been a while ago, or whichever one dsync gave it by utime(2).  A binary that is
   the newer of the two by its time stamp is marked (nothing in the file shows it). *)
Upload == /\ script.ver < MaxVersion
          /\ \E t \in 0 .. MaxClock :
               /\ script' = [ver |-> script.ver + 1, mtime |-> t]
               /\ inodes' = [i \in DOMAIN inodes |->
                    [inodes[i] EXCEPT !.late = inodes[i].late \/ (i = bin /\ inodes[i].mtime > t)]]
          /\ UNCHANGED <<clock, bin, lock, del>>

(* A delivery starts: the script is found and its time stamp is taken. *)
Start(d) == /\ del[d].pc = "idle"
            /\ Go(d, [Idle EXCEPT !.pc = "load", !.st = script.mtime, !.begun = script.ver])
            /\ UNCHANGED <<clock, script, inodes, bin, lock>>

(* The process dies: its lock goes, a temporary file of its stays unseen. *)
Crash(d) == /\ del[d].pc # "idle"
            /\ Go(d, Idle)
            /\ lock' = [i \in DOMAIN lock |-> IF lock[i] = d THEN NoDelivery ELSE lock[i]]
            /\ UNCHANGED <<clock, script, inodes, bin>>

-----------------------------------------------------------------------------
(* sieve_open_script *)

(* Mutant of the next definition. *)
IsNewerOrEqual(btime, st) == btime >= st

(* The script's metadata block: the binary must be strictly newer. *)
IsNewer(btime, st) == btime > st

Total(s) == Account!UsageAdd(Account!CurrentUsage(s, clock), s.rusage)

(* An excessive binary is kept as it is, whatever its age.  Otherwise it must be
   newer than the script, and no extension may find it outdated (extOk: an
   included script changed, an ihave test answers differently). *)
KeepLoaded(s, btime, st, extOk) ==
  Account!IsExcessive(Total(s)) \/ (IsNewer(btime, st) /\ extOk)

(* A disabled binary is not run. *)
CheckExecutable(rec) == IF rec.sbin.flag THEN Idle ELSE rec

(* The file at the path is opened, its header and its time stamp are read; an
   outdated binary is closed again and leaves its usage to the next one. *)
BinaryLoad(d, extOk) ==
  LET f == inodes[bin]
      s == [NoBinary EXCEPT !.ino = bin, !.ver = f.ver, !.upd = f.upd, !.flag = f.flag,
                            !.usage = Account!CurrentUsage(f, clock)]
  IN /\ del[d].pc = "load"
     /\ Go(d, IF bin = 0 \/ f.kind = "unread" THEN [del[d] EXCEPT !.pc = "compile"]
              ELSE IF KeepLoaded(s, f.mtime, del[d].st, extOk)
                   THEN CheckExecutable([del[d] EXCEPT !.pc = "run", !.st = 0, !.sbin = s])
                   ELSE [del[d] EXCEPT !.pc = "compile", !.carried = Total(s)])
     /\ UNCHANGED <<clock, script, inodes, bin, lock>>

(* The script is opened again and compiled as it is now (its time stamp is taken
   again, but nothing looks at it any more); the usage of the binary it replaces
   is carried over. *)
CompileScript(d) ==
  LET s == [NoBinary EXCEPT !.ver = script.ver, !.rusage = del[d].carried, !.updated = TRUE,
                            !.flag = Account!IsExcessive(del[d].carried)]
  IN /\ del[d].pc = "compile"
     /\ Go(d, CheckExecutable([del[d] EXCEPT !.pc = "save", !.st = 0, !.carried = 0, !.sbin = s]))
     /\ UNCHANGED <<clock, script, inodes, bin, lock>>

(* Mutant of the next definition. *)
CompileRetried(d) ==
  /\ del[d].pc = "compile"
  /\ Go(d, [del[d] EXCEPT !.pc = "load"])
  /\ UNCHANGED <<clock, script, inodes, bin, lock>>

CompileFailed(d) ==
  /\ del[d].pc = "compile"
  /\ Go(d, Idle)
  /\ UNCHANGED <<clock, script, inodes, bin, lock>>

-----------------------------------------------------------------------------
(* sieve_binary_save: a temporary file, then rename *)

(* sieve_binary_record_resource_usage, then sieve_close: a usage that is not
   high is not recorded, a binary without a path has nowhere to record it. *)
Recorded(rec) ==
  LET high == Account!IsHigh(rec.cpu)
  IN IF rec.sbin.ino = 0 \/ ~(high \/ rec.sbin.updated) THEN Idle
     ELSE [rec EXCEPT !.pc = "close", !.cpu = 0,
             !.sbin.rusage = IF high THEN Account!UsageAdd(@, rec.cpu) ELSE @]

(* A binary is saved before it is run, one of the old format once more when the
   delivery closes it. *)
AfterSave(rec) == IF rec.resave THEN Idle ELSE [rec EXCEPT !.pc = "run"]

(* sieve_binary_save_to_stream: the resource limit flag is cleared and usage
   this process holds moves into the header. *)
SaveToStream(d) ==
  LET s == del[d].sbin
      h == Account!Entered(FALSE, Total(s), clock)
  IN /\ del[d].pc = "save"
     /\ Len(inodes) < MaxInodes
     /\ inodes' = Append(inodes,
          [ver |-> s.ver, mtime |-> clock, kind |-> "sound",
           usage |-> h.usage, upd |-> h.upd, flag |-> h.flag, late |-> FALSE])
     /\ Go(d, [del[d] EXCEPT !.pc = "rename", !.tmp = Len(inodes) + 1,
                 !.sbin = [s EXCEPT !.usage = h.usage, !.upd = h.upd, !.flag = h.flag,
                             !.rusage = 0, !.updated = FALSE]])
     /\ UNCHANGED <<clock, script, bin, lock>>

(* A directory that cannot be written: the binary in memory is used. *)
SaveFailed(d) ==
  /\ del[d].pc \in {"save", "rename"}
  /\ Go(d, AfterSave([del[d] EXCEPT !.tmp = 0]))
  /\ UNCHANGED <<clock, script, inodes, bin, lock>>

SaveRename(d) ==
  /\ del[d].pc = "rename"
  /\ bin' = del[d].tmp
  /\ inodes' = [inodes EXCEPT ![del[d].tmp].late = @ \/ inodes[del[d].tmp].ver < script.ver]
  /\ Go(d, AfterSave([del[d] EXCEPT !.sbin.ino = del[d].tmp, !.tmp = 0]))
  /\ UNCHANGED <<clock, script, lock>>

-----------------------------------------------------------------------------
(* Execution and the accounting that follows it *)

(* A binary from disk that turns out to be corrupt is compiled anew, in memory; the
   second call of sieve_multiscript_run returns at once and the delivery is over
   without a save (how it ends: LdaSieve). *)
Run(d, cpu) ==
  LET corrupt == del[d].sbin.ino # 0 /\ inodes[del[d].sbin.ino].kind = "corrupt"
  IN /\ del[d].pc = "run"
     /\ Go(d, IF corrupt THEN Idle ELSE Recorded([del[d] EXCEPT !.cpu = cpu, !.begun = 0]))
     /\ UNCHANGED <<clock, script, inodes, bin, lock>>

(* sieve_binary_file_update_resource_usage opens whatever is at the path now; a
   binary whose header has no room for the usage is saved anew instead. *)
CloseOpen(d) ==
  /\ del[d].pc = "close"
  /\ Go(d, IF inodes[del[d].sbin.ino].kind = "old" THEN [del[d] EXCEPT !.pc = "save", !.resave = TRUE]
           ELSE [del[d] EXCEPT !.pc = "lock", !.fd = bin])
  /\ UNCHANGED <<clock, script, inodes, bin, lock>>

(* Mutant of the next definition. *)
CloseLockShared(d) ==
  /\ del[d].pc = "lock"
  /\ Go(d, [del[d] EXCEPT !.pc = "write",
               !.sbin.usage = inodes[del[d].fd].usage,
               !.sbin.upd = inodes[del[d].fd].upd,
               !.sbin.flag = inodes[del[d].fd].flag])
  /\ UNCHANGED <<clock, script, inodes, bin, lock>>

(* The lock is waited for; the header is read again under it. *)
CloseLock(d) ==
  /\ del[d].pc = "lock"
  /\ lock[del[d].fd] = NoDelivery
  /\ IF inodes[del[d].fd].kind # "unread"
     THEN /\ lock' = [lock EXCEPT ![del[d].fd] = d]
          /\ Go(d, [del[d] EXCEPT !.pc = "write",
                      !.sbin.usage = inodes[del[d].fd].usage,
                      !.sbin.upd = inodes[del[d].fd].upd,
                      !.sbin.flag = inodes[del[d].fd].flag])
     ELSE lock' = lock /\ Go(d, Idle)
  /\ UNCHANGED <<clock, script, inodes, bin>>

(* file_wait_lock gives up after SIEVE_BINARY_FILE_LOCK_TIMEOUT. *)
CloseLockTimeout(d) ==
  /\ del[d].pc = "lock"
  /\ lock[del[d].fd] # NoDelivery
  /\ Go(d, Idle)
  /\ UNCHANGED <<clock, script, inodes, bin, lock>>

(* The header is written back and the lock goes.  Writing sets the mtime. *)
CloseWrite(d) ==
  LET s == del[d].sbin
      i == del[d].fd
      h == Account!Entered(s.flag, Total(s), clock)
  IN /\ del[d].pc = "write"
     /\ inodes' = [inodes EXCEPT ![i] =
          [inodes[i] EXCEPT !.usage = h.usage, !.upd = h.upd, !.flag = h.flag, !.mtime = clock,
                            !.late = inodes[i].late \/ inodes[i].ver < script.ver]]
     /\ lock' = [lock EXCEPT ![i] = NoDelivery]
     /\ Go(d, Idle)
     /\ UNCHANGED <<clock, script, bin>>

Deliver(d) ==
  \/ \E extOk \in BOOLEAN : BinaryLoad(d, extOk)
  \/ CompileScript(d) \/ CompileFailed(d)
  \/ SaveToStream(d) \/ SaveFailed(d) \/ SaveRename(d)
  \/ \E cpu \in Usages : Run(d, cpu)
  \/ CloseOpen(d) \/ CloseLock(d) \/ CloseLockTimeout(d) \/ CloseWrite(d)

Next == \/ Tick \/ Upload
        \/ \E d \in Deliveries : Start(d) \/ Crash(d) \/ Deliver(d)

Spec == Init /\ [][Next]_binVars

(* A delivery that was begun takes its steps: it runs in a process of its own. *)
FairSpec == Spec /\ \A d \in Deliveries : WF_binVars(Deliver(d))

-----------------------------------------------------------------------------
(* Properties *)

Steps == {"idle", "load", "compile", "save", "rename", "run", "close", "lock", "write"}

(* Every delivery is at a step of sieve_open_script, of saving, running or
   closing; inodes, locks and the path stay within the files written. *)
BinaryTypeOK ==
  /\ clock \in 1 .. MaxClock
  /\ bin \in 0 .. Len(inodes)
  /\ \A i \in DOMAIN inodes : inodes[i].usage \in 0 .. UintMax /\ inodes[i].flag \in BOOLEAN
  /\ \A i \in DOMAIN lock : lock[i] \in Deliveries \cup {NoDelivery}
  /\ \A d \in Deliveries : /\ del[d].pc \in Steps
                           /\ del[d].sbin.ino \in 0 .. Len(inodes)
                           /\ del[d].sbin.rusage \in 0 .. UintMax

(* sieve_open_script never runs a binary that is older than the script was when
   the delivery began, with two exceptions: the file of the binary was written
   (renamed into place, or its header updated) after the newer script had come
   into place; or the newer script came with a time stamp before the binary's (a
   slow upload, dsync).  sieve_file_script_binary_read_metadata has nothing but
   time stamps to tell them apart; equal ones are taken as outdated. *)
StaleOnlyIfLate ==
  \A d \in Deliveries : del[d].pc = "run" =>
    \/ del[d].sbin.ver >= del[d].begun
    \/ del[d].sbin.ino # 0 /\ inodes[del[d].sbin.ino].late

(* sieve_binary_file_do_update_resource_usage makes one entry at a time in the
   account of a binary, and no entry is lost: two deliveries that close the
   same binary, or one that dies while it holds the lock, included. *)
UsageIsAccounted == Account!AcctSpec

(* A delivery that was begun comes to an end, every time (its process is idle
   again): no lock of another process (file_wait_lock gives up) and no binary that
   is outdated again and again holds it up. *)
DeliveryEnds ==
  \A d \in Deliveries : []<>(del[d].pc = "idle")

(* What sieve_open_script_real says of itself: "If the binary does not exist or
   is not up-to-date, we need to (re-)compile."  The code runs an outdated one
   in the two cases above. *)
NeverStale ==
  \A d \in Deliveries : del[d].pc = "run" => del[d].sbin.ver >= del[d].begun

(* sieve_open_script runs a binary that is current, except one that was    *)
(* written after the newer script came into place, or that the newer       *)
(* script came with an older time stamp than; locks and files stay with    *)
(* the deliveries that made them, and the sum of CPU times does not wrap   *)
(* around (sieve_resource_usage_add).                                      *)
RunsCurrentBinary == BinaryTypeOK /\ StaleOnlyIfLate
=============================================================================
