---------------------------- MODULE ScriptStorage ----------------------------
(***************************************************************************)
(* The personal script storage on a file system (lib-sieve/storage/file)   *)
(* under the ManageSieve commands that change it (managesieve/cmd-*.c by   *)
(* way of sieve-storage.c and sieve-script.c). Every ManageSieve session   *)
(* is a process of its own; there is no lock. A step here is at most one   *)
(* system call on what the sessions share: the files of the storage        *)
(* directory and the active link. What a session read earlier is in its    *)
(* record and may be stale.                                                *)
(***************************************************************************)
EXTENDS ScriptStore, Naturals, FiniteSets, FiniteSetsExt

CONSTANTS
  Session,      \* ManageSieve sessions of one user
  Partial,      \* content of a temporary file that is being written
  Size,         \* the size of each content
  MaxScripts,   \* quota_script_count
  MaxStorage,   \* quota_storage_size
  Faults        \* what may fail: a subset of Fault

Fault == {"crash", "readlink", "rename", "stat", "symlink", "unlink", "upload"}

ASSUME StorageAssumption ==
  /\ Partial \notin Content \cup {NoFile}
  /\ Size \in [Content -> Nat]
  /\ MaxScripts \in Nat \ {0}
  /\ MaxStorage \in Nat \ {0}
  /\ Faults \subseteq Fault

VARIABLES
  tmp,          \* the temporary file of each session's command
  sess          \* what each session is doing

vars == <<files, active, tmp, sess>>

PC == {"idle",
       \* PUTSCRIPT, CHECKSCRIPT
       "upload", "uploaded", "willactivate", "default", "statdefault", "move",
       \* SETACTIVE, and an activation within another command
       "open", "isactive", "compile", "lstat", "rescue", "symlink", "replace",
       \* deactivation
       "rescue2", "unlinkactive",
       \* DELETESCRIPT, and the rollback of a script that was just stored
       "delcheck", "delete", "rollback", "deactivate", "dropnew",
       \* RENAMESCRIPT of a stored script, and of the default script
       "link", "rencheck", "renactivate", "unlinkold", "unlinknew",
       "checknew", "copy", "copied"}

(* name: the argument; to: the new name of a rename; content: the uploaded *)
(* script; quoted: it came as a quoted string, of unknown size; open: the  *)
(* name refers to a stored script or to the default one; was: the name of  *)
(* the active script as sctx remembers it; implicit: the script replaces   *)
(* the default one and is to be activated; failed: the system call whose   *)
(* failure was logged while the command went on, or gave up half-way.      *)
SessionState ==
  [pc : PC,
   cmd : {"none", "put", "setactive", "deactivate", "delete", "rename"},
   name : Name \cup {NoName}, to : Name \cup {NoName},
   content : Content \cup {NoFile}, quoted : BOOLEAN,
   open : {"own", "default"}, was : Name \cup {NoName},
   implicit : BOOLEAN, failed : {"none", "rename", "stat", "unlink"},
   reply : {"none", "OK", "NO", "died"}]

NewCommand(cmd, name, to) ==
  [pc |-> "idle", cmd |-> cmd, name |-> name, to |-> to, content |-> NoFile,
   quoted |-> FALSE, open |-> "own", was |-> NoName, implicit |-> FALSE,
   failed |-> "none", reply |-> "none"]

Init ==
  /\ StoreInit
  /\ tmp = [s \in Session |-> NoFile]
  /\ sess = [s \in Session |-> NewCommand("none", NoName, NoName)]

At(s, pc) == sess[s].pc = pc
Goto(s, pc) == sess' = [sess EXCEPT ![s].pc = pc]

(* The end of a command; what only its handler knew is forgotten.          *)
Replied(r, reply) ==
  [r EXCEPT !.pc = "idle", !.quoted = FALSE, !.was = NoName, !.implicit = FALSE, !.reply = reply]
Reply(s, reply) == sess' = [sess EXCEPT ![s] = Replied(@, reply)]
ReplyAndLog(s, reply, call) ==
  sess' = [sess EXCEPT ![s] = [Replied(@, reply) EXCEPT !.failed = call]]

FaultMayOccur(f) == f \in Faults

(* A command that starts has no temporary file, whatever the one before it *)
(* left in the directory.                                                  *)
NoUpload(s) == tmp' = [tmp EXCEPT ![s] = NoFile] /\ UNCHANGED storeVars

(* sieve_storage_active_script_get_name: without a link, the name of the   *)
(* default script.                                                         *)
ActiveName == IF active \in Name THEN active ELSE Default

(* sieve_script_is_active                                                  *)
IsActive(s) == IF sess[s].open = "own" THEN active = sess[s].name ELSE active \notin Name

(* What a session may be told: the callers take a link that they cannot    *)
(* read for the absence of an active script.                               *)
ActiveNameAnswers == {ActiveName} \cup IF FaultMayOccur("readlink") THEN {NoName} ELSE {}
IsActiveAnswers(s) == {IsActive(s)} \cup IF FaultMayOccur("readlink") THEN {FALSE} ELSE {}

-----------------------------------------------------------------------------
(* Quota: sieve_file_storage_quota_havespace. The storage limit is only    *)
(* looked at when the scan meets a script that is not replaced.            *)

StorageUsed(ns) == MapThenSumSet(LAMBDA n : Size[files[n]], ns)

HaveSpace(n, c) ==
  LET others == Stored \ {n}
  IN  /\ Cardinality(others) + 1 <= MaxScripts
      /\ others # {} => StorageUsed(others) + Size[c] <= MaxStorage

-----------------------------------------------------------------------------
(* PUTSCRIPT and CHECKSCRIPT (name = NoName): cmd-putscript.c *)

(* The literal's size is known and checked before anything is stored; then *)
(* sieve_storage_save_init creates the temporary file, which may fail.     *)
PutScript(s) ==
  /\ At(s, "idle")
  /\ \E n \in Name \cup {NoName}, c \in Content, quoted \in BOOLEAN :
       LET r == [NewCommand("put", n, NoName) EXCEPT !.content = c, !.quoted = quoted]
           refused == ~quoted /\ n # NoName /\ ~HaveSpace(n, c)
       IN  \/ /\ refused \/ FaultMayOccur("upload")
              /\ sess' = [sess EXCEPT ![s] = Replied(r, "NO")]
              /\ tmp' = [tmp EXCEPT ![s] = NoFile]
           \/ /\ ~refused
              /\ sess' = [sess EXCEPT ![s] = [r EXCEPT !.pc = "upload"]]
              /\ tmp' = [tmp EXCEPT ![s] = Partial]
  /\ UNCHANGED storeVars

(* The whole script arrived: sieve_storage_save_finish.                    *)
UploadDone(s) ==
  /\ At(s, "upload")
  /\ tmp' = [tmp EXCEPT ![s] = sess[s].content]
  /\ Goto(s, "uploaded")
  /\ UNCHANGED storeVars

(* A variant of Cancel that forgets the temporary file.                    *)
CancelNotRemoved(s) == Reply(s, "NO") /\ UNCHANGED <<storeVars, tmp>>

(* The temporary file is removed; if unlink(2) fails, that is logged and   *)
(* the file stays.                                                         *)
DropTmp(s, reply) ==
  \/ tmp' = [tmp EXCEPT ![s] = NoFile] /\ Reply(s, reply)
  \/ FaultMayOccur("unlink") /\ ReplyAndLog(s, reply, "unlink") /\ UNCHANGED tmp

(* sieve_storage_save_cancel, and sieve_file_storage_script_move after a   *)
(* failure.                                                                *)
Cancel(s) == DropTmp(s, "NO") /\ UNCHANGED storeVars

(* Too large a script, a failed write, or a client that disconnected.      *)
UploadFailed(s) ==
  /\ At(s, "upload")
  /\ FaultMayOccur("upload")
  /\ Cancel(s)

(* cmd_putscript_handle_script: the size of a quoted string is known now.  *)
QuotaCheck(s) ==
  /\ At(s, "uploaded")
  /\ IF sess[s].quoted /\ sess[s].name # NoName /\ ~HaveSpace(sess[s].name, sess[s].content)
     THEN Cancel(s)
     ELSE Goto(s, "willactivate") /\ UNCHANGED <<storeVars, tmp>>

(* A variant of Compiles that ignores the errors of the compiler.          *)
CompilesAlways(r, was) == TRUE

(* The flags of the compilation depend on whether the active script is     *)
(* being replaced (sieve_storage_save_will_activate).                      *)
Compiles(r, was) ==
  r.content \in IF r.name # NoName /\ r.name = was THEN ReplaceValid ELSE UploadValid

(* cmd_putscript_finish_script up to the commit; a script that is only     *)
(* checked is not stored.                                                  *)
WillActivate(s) ==
  /\ At(s, "willactivate")
  /\ \E was \in IF sess[s].name = NoName THEN {NoName} ELSE ActiveNameAnswers :
       IF Compiles(sess[s], was) /\ sess[s].name # NoName
       THEN /\ sess' = [sess EXCEPT ![s].pc = "default", ![s].was = was]
            /\ UNCHANGED tmp
       ELSE DropTmp(s, IF Compiles(sess[s], was) THEN "OK" ELSE "NO")
  /\ UNCHANGED storeVars

(* sieve_storage_save_is_activating_default: a name that was found before  *)
(* is not read again.                                                      *)
IsActivatingDefault(s) ==
  /\ At(s, "default")
  /\ \E was \in IF sess[s].was = NoName THEN ActiveNameAnswers ELSE {sess[s].was} :
       Goto(s, IF was = sess[s].name /\ was = Default THEN "statdefault" ELSE "move")
  /\ UNCHANGED <<storeVars, tmp>>

StatDefault(s) ==
  /\ At(s, "statdefault")
  /\ sess' = [sess EXCEPT ![s].pc = "move", ![s].implicit = sess[s].name \notin Stored]
  /\ UNCHANGED <<storeVars, tmp>>

(* sieve_storage_save_commit returns at once: the context is forgotten,    *)
(* and nothing removes the temporary file.                                 *)
StatDefaultError(s) ==
  /\ At(s, "statdefault")
  /\ FaultMayOccur("stat")
  /\ ReplyAndLog(s, "NO", "stat")
  /\ UNCHANGED <<storeVars, tmp>>

(* sieve_file_storage_save_commit: rename(2) over whatever is there.       *)
Move(s) ==
  /\ At(s, "move")
  /\ files' = [files EXCEPT ![sess[s].name] = tmp[s]]
  /\ tmp' = [tmp EXCEPT ![s] = NoFile]
  /\ IF sess[s].implicit THEN Goto(s, "open") ELSE Reply(s, "OK")
  /\ UNCHANGED active

MoveFailed(s) ==
  /\ At(s, "move")
  /\ FaultMayOccur("rename")
  /\ Cancel(s)

-----------------------------------------------------------------------------
(* Activation: sieve_script_activate *)

(* The script to activate, and the one to remove if that fails.            *)
Target(s) == IF sess[s].cmd = "rename" THEN sess[s].to ELSE sess[s].name

(* sieve_storage_open_script: the default script stands in for a stored    *)
(* one of its name that does not exist.                                    *)
Opens(n) == n \in Stored \/ n = Default
OpenedAs(n) == IF n \in Stored THEN "own" ELSE "default"

(* An implicit activation opens the script that was just stored; if it is  *)
(* gone, the command is still reported as a success.                       *)
OpenNew(s) ==
  /\ At(s, "open")
  /\ IF Opens(Target(s))
     THEN sess' = [sess EXCEPT ![s].open = OpenedAs(Target(s)),
                     ![s].pc = IF OpenedAs(Target(s)) = "own" THEN "lstat" ELSE "rescue2"]
     ELSE Reply(s, "OK")
  /\ UNCHANGED <<storeVars, tmp>>

SetActive(s) ==
  /\ At(s, "idle")
  /\ \E n \in Name :
       sess' = [sess EXCEPT ![s] =
                  IF Opens(n)
                  THEN [NewCommand("setactive", n, NoName) EXCEPT !.pc = "isactive",
                                                                  !.open = OpenedAs(n)]
                  ELSE Replied(NewCommand("setactive", n, NoName), "NO")]
  /\ NoUpload(s)

AfterCompile(s) == IF sess[s].open = "own" THEN "lstat" ELSE "rescue2"

(* A script that is active already is not compiled again.                  *)
SetActiveCheck(s) ==
  /\ At(s, "isactive")
  /\ \E yes \in IsActiveAnswers(s) : Goto(s, IF yes THEN AfterCompile(s) ELSE "compile")
  /\ UNCHANGED <<storeVars, tmp>>

(* A variant of SetActiveCompile that tries again for ever.                *)
SetActiveCompileRetry(s) ==
  /\ At(s, "compile")
  /\ LET c == IF sess[s].open = "own" THEN files[sess[s].name] ELSE DefaultContent
     IN  Goto(s, IF c \in ActivateValid THEN AfterCompile(s) ELSE "isactive")
  /\ UNCHANGED <<storeVars, tmp>>

SetActiveCompile(s) ==
  /\ At(s, "compile")
  /\ LET c == IF sess[s].open = "own" THEN files[sess[s].name] ELSE DefaultContent
     IN  IF c \in ActivateValid THEN Goto(s, AfterCompile(s)) ELSE Reply(s, "NO")
  /\ UNCHANGED <<storeVars, tmp>>

(* A failed activation undoes what the command stored before.              *)
ActivateFailed(s) ==
  IF sess[s].cmd = "setactive" THEN Reply(s, "NO") ELSE Goto(s, "rollback")

ActivateStat(s) ==
  /\ At(s, "lstat")
  /\ IF Target(s) \in Stored THEN Goto(s, "rescue") ELSE ActivateFailed(s)
  /\ UNCHANGED <<storeVars, tmp>>

(* sieve_file_storage_active_rescue_regular                                *)
RescueRegular ==
  IF active = Regular THEN Rescue ELSE UNCHANGED storeVars

ActivateRescue(s) ==
  /\ At(s, "rescue")
  /\ RescueRegular
  /\ Goto(s, "symlink")
  /\ UNCHANGED tmp

(* A variant of ActivateLink that takes an existing link for its own.      *)
ActivateLinkAny(s) ==
  /\ At(s, "symlink")
  /\ active' = IF active = NoLink THEN Target(s) ELSE active
  /\ Reply(s, "OK")
  /\ UNCHANGED <<files, tmp>>

(* symlink(2) fails if anything is there, which is then replaced.          *)
ActivateLink(s) ==
  /\ At(s, "symlink")
  /\ IF active = NoLink
     THEN active' = Target(s) /\ Reply(s, "OK")
     ELSE Goto(s, "replace") /\ UNCHANGED active
  /\ UNCHANGED <<files, tmp>>

(* sieve_file_storage_active_replace_link                                  *)
ActivateReplace(s) ==
  /\ At(s, "replace")
  /\ active' = Target(s)
  /\ Reply(s, "OK")
  /\ UNCHANGED <<files, tmp>>

ActivateError(s) ==
  /\ sess[s].pc \in {"rescue", "symlink", "replace"}
  /\ FaultMayOccur("symlink")
  /\ ActivateFailed(s)
  /\ UNCHANGED <<storeVars, tmp>>

-----------------------------------------------------------------------------
(* Deactivation: SETACTIVE "", and an activation of the default script *)

DeactivateScript(s) ==
  /\ At(s, "idle")
  /\ sess' = [sess EXCEPT ![s] = [NewCommand("deactivate", NoName, NoName) EXCEPT !.pc = "rescue2"]]
  /\ NoUpload(s)

DeactivateRescue(s) ==
  /\ At(s, "rescue2")
  /\ RescueRegular
  /\ Goto(s, "unlinkactive")
  /\ UNCHANGED tmp

DeactivateUnlink(s) ==
  /\ At(s, "unlinkactive")
  /\ active' = NoLink
  /\ Reply(s, "OK")
  /\ UNCHANGED <<files, tmp>>

DeactivateError(s) ==
  /\ sess[s].pc \in {"rescue2", "unlinkactive"}
  /\ FaultMayOccur("unlink")
  /\ Reply(s, "NO")
  /\ UNCHANGED <<storeVars, tmp>>

-----------------------------------------------------------------------------
(* DELETESCRIPT: sieve_script_delete *)

DeleteScript(s) ==
  /\ At(s, "idle")
  /\ \E n \in Name :
       sess' = [sess EXCEPT ![s] =
                  IF Opens(n)
                  THEN [NewCommand("delete", n, NoName) EXCEPT !.pc = "delcheck",
                                                               !.open = OpenedAs(n)]
                  ELSE Replied(NewCommand("delete", n, NoName), "NO")]
  /\ NoUpload(s)

(* A variant of DeleteCheck that does not look at the active link.         *)
DeleteCheckMissing(s) ==
  /\ At(s, "delcheck")
  /\ IF sess[s].open = "default" THEN Reply(s, "OK") ELSE Goto(s, "delete")
  /\ UNCHANGED <<storeVars, tmp>>

(* The active script is not deleted; a request to delete the default       *)
(* script is ignored.                                                      *)
DeleteCheck(s) ==
  /\ At(s, "delcheck")
  /\ \E yes \in IsActiveAnswers(s) :
       IF yes THEN Reply(s, "NO")
       ELSE IF sess[s].open = "default" THEN Reply(s, "OK")
       ELSE Goto(s, "delete")
  /\ UNCHANGED <<storeVars, tmp>>

DeleteUnlink(s) ==
  /\ At(s, "delete")
  /\ \/ /\ files' = [files EXCEPT ![sess[s].name] = NoFile]
        /\ Reply(s, IF sess[s].name \in Stored THEN "OK" ELSE "NO")
     \/ FaultMayOccur("unlink") /\ Reply(s, "NO") /\ UNCHANGED files
  /\ UNCHANGED <<active, tmp>>

(* The rollback of an implicit activation deletes also an active script,   *)
(* after its deactivation.                                                 *)
Rollback(s) ==
  /\ At(s, "rollback")
  /\ \/ Goto(s, IF active = Target(s) THEN "deactivate" ELSE "dropnew")
     \/ FaultMayOccur("readlink") /\ Goto(s, "dropnew")
  /\ UNCHANGED <<storeVars, tmp>>

RollbackDeactivate(s) ==
  /\ At(s, "deactivate")
  /\ \/ active' = NoLink
     \/ FaultMayOccur("unlink") /\ UNCHANGED active
  /\ Goto(s, "dropnew")
  /\ UNCHANGED <<files, tmp>>

(* After a copy of the default script, the storage that is asked for the   *)
(* error has none, and an assertion of sieve_script_rename ends the        *)
(* process: the reply "died".                                              *)
RollbackUnlink(s) ==
  /\ At(s, "dropnew")
  /\ \/ files' = [files EXCEPT ![Target(s)] = NoFile]
     \/ FaultMayOccur("unlink") /\ UNCHANGED files
  /\ Reply(s, IF sess[s].cmd = "rename" THEN "died" ELSE "NO")
  /\ UNCHANGED <<active, tmp>>

-----------------------------------------------------------------------------
(* RENAMESCRIPT: sieve_script_rename, sieve_file_storage_script_rename *)

RenameScript(s) ==
  /\ At(s, "idle")
  /\ \E n, m \in Name :
       sess' = [sess EXCEPT ![s] =
                  IF Opens(n)
                  THEN [NewCommand("rename", n, m) EXCEPT
                          !.pc = IF OpenedAs(n) = "own" THEN "link" ELSE "checknew",
                          !.open = OpenedAs(n)]
                  ELSE Replied(NewCommand("rename", n, m), "NO")]
  /\ NoUpload(s)

(* A variant of RenameLink that replaces what is there, like rename(2).    *)
RenameLinkOver(s) ==
  /\ At(s, "link")
  /\ IF sess[s].name \in Stored
     THEN /\ files' = [files EXCEPT ![sess[s].to] = files[sess[s].name]]
          /\ Goto(s, "rencheck")
     ELSE Reply(s, "NO") /\ UNCHANGED files
  /\ UNCHANGED <<active, tmp>>

(* link(2) fails if the new name exists, or the old one does not, or for   *)
(* another reason.                                                         *)
RenameLink(s) ==
  /\ At(s, "link")
  /\ \/ /\ sess[s].name \in Stored /\ sess[s].to \notin Stored
        /\ files' = [files EXCEPT ![sess[s].to] = files[sess[s].name]]
        /\ Goto(s, "rencheck")
     \/ /\ sess[s].name \notin Stored \/ sess[s].to \in Stored \/ FaultMayOccur("rename")
        /\ Reply(s, "NO") /\ UNCHANGED files
  /\ UNCHANGED <<active, tmp>>

(* A variant of RenameCheck that forgets the active link.                  *)
RenameCheckMissing(s) ==
  /\ At(s, "rencheck")
  /\ Goto(s, "unlinkold")
  /\ UNCHANGED <<storeVars, tmp>>

RenameCheck(s) ==
  /\ At(s, "rencheck")
  /\ \E yes \in IsActiveAnswers(s) : Goto(s, IF yes THEN "renactivate" ELSE "unlinkold")
  /\ UNCHANGED <<storeVars, tmp>>

RenameActivate(s) ==
  /\ At(s, "renactivate")
  /\ active' = sess[s].to
  /\ Goto(s, "unlinkold")
  /\ UNCHANGED <<files, tmp>>

RenameActivateError(s) ==
  /\ At(s, "renactivate")
  /\ FaultMayOccur("symlink")
  /\ Goto(s, "unlinknew")
  /\ UNCHANGED <<storeVars, tmp>>

(* A failure to remove the old name is only logged.                        *)
RenameUnlinkOld(s) ==
  /\ At(s, "unlinkold")
  /\ \/ files' = [files EXCEPT ![sess[s].name] = NoFile] /\ Reply(s, "OK")
     \/ FaultMayOccur("unlink") /\ ReplyAndLog(s, "OK", "unlink") /\ UNCHANGED files
  /\ UNCHANGED <<active, tmp>>

RenameUnlinkNew(s) ==
  /\ At(s, "unlinknew")
  /\ \/ files' = [files EXCEPT ![sess[s].to] = NoFile]
     \/ FaultMayOccur("unlink") /\ UNCHANGED files
  /\ Reply(s, "NO")
  /\ UNCHANGED <<active, tmp>>

(* The default script cannot be renamed; it is copied to the new name,     *)
(* which is checked first (sieve_script_copy_from_default).                *)
RenameDefaultCheck(s) ==
  /\ At(s, "checknew")
  /\ IF Opens(sess[s].to) THEN Reply(s, "NO") ELSE Goto(s, "copy")
  /\ UNCHANGED <<storeVars, tmp>>

(* sieve_file_storage_save_to: a failed rename(2) is logged and not        *)
(* reported, unlike a failure to open and read the default script or to    *)
(* write its copy.                                                         *)
RenameDefaultCopy(s) ==
  /\ At(s, "copy")
  /\ \/ files' = [files EXCEPT ![sess[s].to] = DefaultContent] /\ Goto(s, "copied")
     \/ /\ FaultMayOccur("rename")
        /\ sess' = [sess EXCEPT ![s].pc = "copied", ![s].failed = "rename"]
        /\ UNCHANGED files
     \/ FaultMayOccur("upload") /\ Reply(s, "NO") /\ UNCHANGED files
  /\ UNCHANGED <<active, tmp>>

RenameDefaultActive(s) ==
  /\ At(s, "copied")
  /\ \E yes \in IsActiveAnswers(s) : IF yes THEN Goto(s, "open") ELSE Reply(s, "OK")
  /\ UNCHANGED <<storeVars, tmp>>

-----------------------------------------------------------------------------
(* A session that dies leaves its system calls behind; an orphaned         *)
(* temporary file is not read again (check_tmp removes it some day).       *)
Crash(s) ==
  /\ ~At(s, "idle")
  /\ FaultMayOccur("crash")
  /\ sess' = [sess EXCEPT ![s] = NewCommand("none", NoName, NoName)]
  /\ tmp' = [tmp EXCEPT ![s] = NoFile]
  /\ UNCHANGED storeVars

Begin(s) ==
  PutScript(s) \/ SetActive(s) \/ DeactivateScript(s) \/ DeleteScript(s) \/ RenameScript(s)

Step(s) ==
  \/ UploadDone(s) \/ UploadFailed(s) \/ QuotaCheck(s) \/ WillActivate(s)
  \/ IsActivatingDefault(s) \/ StatDefault(s) \/ StatDefaultError(s) \/ Move(s) \/ MoveFailed(s)
  \/ OpenNew(s) \/ SetActiveCheck(s) \/ SetActiveCompile(s) \/ ActivateStat(s)
  \/ ActivateRescue(s) \/ ActivateLink(s) \/ ActivateReplace(s) \/ ActivateError(s)
  \/ DeactivateRescue(s) \/ DeactivateUnlink(s) \/ DeactivateError(s)
  \/ DeleteCheck(s) \/ DeleteUnlink(s) \/ Rollback(s) \/ RollbackDeactivate(s) \/ RollbackUnlink(s)
  \/ RenameLink(s) \/ RenameCheck(s) \/ RenameActivate(s) \/ RenameActivateError(s)
  \/ RenameUnlinkOld(s) \/ RenameUnlinkNew(s)
  \/ RenameDefaultCheck(s) \/ RenameDefaultCopy(s) \/ RenameDefaultActive(s)

Next == \E s \in Session : Begin(s) \/ Step(s) \/ Crash(s)

Spec == Init /\ [][Next]_vars
FairSpec == Spec /\ \A s \in Session : WF_vars(Step(s))

-----------------------------------------------------------------------------
TypeOK ==
  /\ files \in [Name -> Content \cup {NoFile}]
  /\ active \in Name \cup {NoLink, Regular}
  /\ tmp \in [Session -> Content \cup {NoFile, Partial}]
  /\ sess \in [Session -> SessionState]

(* Whatever the sessions do, and wherever they die, what lies under a      *)
(* script name is a whole script that compiled; the exception is the file  *)
(* that was rescued from an old installation.                              *)
OnlyCompiledScripts ==
  \A n \in Name : files[n] \in UploadValid \cup {NoFile, OrigContent}

(* An upload that ended, in whichever way, leaves no temporary file (the   *)
(* comment of sieve_file_storage_script_move is "Always destroy temp       *)
(* file"), unless that unlink(2) failed, or stat(2) did when the commit    *)
(* looked for the default script: sieve_storage_save_commit then returns   *)
(* and forgets the file.                                                   *)
NoTmpLeft ==
  \A s \in Session : At(s, "idle") => tmp[s] = NoFile \/ sess[s].failed \in {"unlink", "stat"}

(* The same of the commit, as the code does not have it.                   *)
CommitLeavesNoTmp ==
  \A s \in Session : At(s, "idle") => tmp[s] = NoFile \/ sess[s].failed = "unlink"

(* An upload never leaves the user with more than quota_script_count       *)
(* scripts, however long ago the quota was checked.                        *)
UploadWithinCount ==
  [][\A s \in Session : At(s, "move") /\ ~At(s, "move")' /\ files' # files =>
       Cardinality(Stored') <= MaxScripts]_vars

(* The scripts of the user occupy at most quota_storage_size.              *)
StorageQuotaHeld == StorageUsed(Stored) <= MaxStorage

(* A copy of the default script that could not be moved to its place is    *)
(* reported as made (sieve_file_storage_save_to); only the log shows it.   *)
LostCopy(r) == r.open = "default" /\ r.failed = "rename"
(* An old name that cannot be removed stays, for the same script.          *)
KeptOld(r) == r.failed = "unlink" /\ files[r.name] = files[r.to]

(* What a command asks for; the default script cannot be deleted or        *)
(* renamed away, and a check stores nothing.                               *)
Done(r) ==
  CASE r.cmd = "put" /\ r.name # NoName -> files[r.name] = r.content
    [] r.cmd = "setactive"  -> IF r.open = "own" THEN active = r.name ELSE active = NoLink
    [] r.cmd = "deactivate" -> active = NoLink
    [] r.cmd = "delete"     -> r.name \notin Stored
    [] r.cmd = "rename"     -> (r.to \in Stored \/ LostCopy(r)) /\ (r.name \notin Stored \/ KeptOld(r))
    [] OTHER -> TRUE

(* A command that is answered with OK did what it was asked to do, but for *)
(* a rename with one of these two failures, each of which was logged.      *)
Acknowledged ==
  \A s \in Session : At(s, "idle") /\ sess[s].reply = "OK" => Done(sess[s])

(* Renaming a stored script takes nothing away from another one: no step   *)
(* of it changes the content of a script that exists, other than to remove *)
(* a name, whatever another session stored under the new name meanwhile.   *)
RenameOverwritesNothing ==
  [][\A s \in Session : sess[s].cmd = "rename" /\ sess[s].open = "own" /\ sess'[s] # sess[s] =>
       \A n \in Stored : files'[n] \in {files[n], NoFile}]_vars

(* The same of the default script, which is copied.                        *)
CopyOverwritesNothing ==
  [][\A s \in Session : sess[s].cmd = "rename" /\ sess[s].open = "default" /\ sess'[s] # sess[s] =>
       \A n \in Stored : files'[n] \in {files[n], NoFile}]_vars

(* Every command comes to an end: it is answered, or its session dies.     *)
Answered == \A s \in Session : ~At(s, "idle") ~> At(s, "idle")

(* OK is true: the command was carried out (but for LostCopy and KeptOld), *)
(* on a storage whose state has its types, and an upload that was let in   *)
(* is within the limit on the number of scripts (cmd-*.c,                  *)
(* sieve_file_storage_quota_havespace).                                    *)
OkIsTrue == [](TypeOK /\ Acknowledged) /\ UploadWithinCount
=============================================================================
