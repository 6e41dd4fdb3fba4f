------------------------- MODULE ScriptStorageProofs -------------------------
(***************************************************************************)
(* Theorems about ScriptStorage. For any number of sessions, only whole    *)
(* scripts that compiled are ever visible. For a single session that can   *)
(* read the active link, at every moment and whatever other system call    *)
(* fails or whenever the session dies, the active script exists and        *)
(* compiled, every change of the storage is a step of the abstract         *)
(* ScriptStore, and a command that is answered with OK was carried out.    *)
(* With several sessions, or a link that cannot be read, the second part   *)
(* is false.                                                               *)
(***************************************************************************)
EXTENDS ScriptStorage, FiniteSetTheorems, TLAPS

Uploading  == {"uploaded", "willactivate", "default", "statdefault", "move"}
Committing == {"default", "statdefault", "move"}
Activating == {"open", "lstat", "rescue", "symlink", "replace", "rollback", "deactivate", "dropnew"}
Deleting   == {"delcheck", "delete"}
Renaming   == {"link", "rencheck", "renactivate", "unlinkold", "unlinknew", "checknew", "copy",
               "copied"}

TargetOf(r) == IF r.cmd = "rename" THEN r.to ELSE r.name

(* What a session knows while it works on a command: the arguments it has, *)
(* and the temporary file t of an upload, which compiled if it is to be    *)
(* committed.                                                              *)
Sound(r, t) ==
  /\ r.pc \in {"upload"} \cup Uploading => r.cmd = "put" /\ r.content \in Content
  /\ r.pc \in Uploading => t = r.content
  /\ r.pc \in Committing => r.name \in Name /\ r.content \in UploadValid
  /\ r.pc \in {"isactive", "compile"} => r.cmd = "setactive" /\ r.name \in Name
  /\ r.pc \in Activating => TargetOf(r) \in Name
  /\ r.pc \in Deleting => r.name \in Name
  /\ r.pc \in Renaming => r.cmd = "rename" /\ r.name \in Name /\ r.to \in Name

SessionsSound == \A s \in Session : Sound(sess[s], tmp[s])

StorageInv == TypeOK /\ SessionsSound /\ OnlyCompiledScripts

TmpContent == Content \cup {NoFile, Partial}

(* A step of session s that leaves it with a sound record keeps the        *)
(* sessions sound, since it does not touch the others.                     *)
LEMMA OneSessionMoves ==
  ASSUME TypeOK, SessionsSound, NEW s \in Session, NEW r \in SessionState, NEW t \in TmpContent,
         sess' = [sess EXCEPT ![s] = r], tmp' = [tmp EXCEPT ![s] = t], Sound(r, t)
  PROVE  SessionsSound' /\ sess' \in [Session -> SessionState] /\ tmp' \in [Session -> TmpContent]
<1>1. sess' \in [Session -> SessionState] /\ tmp' \in [Session -> TmpContent]
  BY DEF TypeOK, TmpContent
<1>2. SUFFICES ASSUME NEW q \in Session PROVE Sound(sess'[q], tmp'[q])
  BY <1>1 DEF SessionsSound
<1>3. CASE q = s
  BY <1>3 DEF TypeOK
<1>4. CASE q # s
  <2>1. sess'[q] = sess[q] /\ tmp'[q] = tmp[q]
    BY <1>4 DEF TypeOK
  <2>2. QED BY <2>1 DEF SessionsSound
<1>5. QED BY <1>3, <1>4

(* The labels are labels.                                                  *)
LEMMA Labels ==
  /\ {"idle", "upload", "open", "isactive", "compile", "rescue2", "unlinkactive"} \subseteq PC
  /\ Uploading \subseteq PC /\ Activating \subseteq PC
  /\ Deleting \subseteq PC /\ Renaming \subseteq PC
BY DEF PC, Uploading, Activating, Deleting, Renaming

(* The record of a session that was answered is well formed and sound.     *)
LEMMA RepliedSound ==
  ASSUME NEW r \in SessionState, NEW reply \in {"OK", "NO", "died"}, NEW t
  PROVE  Replied(r, reply) \in SessionState /\ Sound(Replied(r, reply), t)
<1>1. Replied(r, reply) \in SessionState
  BY Labels DEF Replied, SessionState
<1>2. Replied(r, reply).pc = "idle"
  BY DEF Replied, SessionState
<1>3. QED BY <1>1, <1>2 DEF Sound, Uploading, Committing, Activating, Deleting, Renaming

Logged == {"rename", "stat", "unlink"}

(* So is the one of a session that logged a failure.                       *)
LEMMA LoggedSound ==
  ASSUME NEW r \in SessionState, NEW reply \in {"OK", "NO", "died"}, NEW call \in Logged, NEW t
  PROVE  /\ [Replied(r, reply) EXCEPT !.failed = call] \in SessionState
         /\ Sound([Replied(r, reply) EXCEPT !.failed = call], t)
<1>1. [Replied(r, reply) EXCEPT !.failed = call] \in SessionState
  BY Labels DEF Replied, SessionState, Logged
<1>2. [Replied(r, reply) EXCEPT !.failed = call].pc = "idle"
  BY DEF Replied, SessionState
<1>3. QED BY <1>1, <1>2 DEF Sound, Uploading, Committing, Activating, Deleting, Renaming

(* What is to be shown of every step, about the sessions and about the     *)
(* storage.                                                                *)
SessionsKept ==
  SessionsSound' /\ sess' \in [Session -> SessionState] /\ tmp' \in [Session -> TmpContent]
StorageKept ==
  /\ files' \in [Name -> Content \cup {NoFile}]
  /\ active' \in Name \cup {NoLink, Regular}
  /\ OnlyCompiledScripts'

(* Answering a command keeps the sessions sound, whatever becomes of the   *)
(* temporary file.                                                         *)
LEMMA ReplyKept ==
  ASSUME TypeOK, SessionsSound, NEW s \in Session, NEW reply \in {"OK", "NO", "died"}, Reply(s, reply),
         NEW t \in TmpContent, tmp' = tmp \/ tmp' = [tmp EXCEPT ![s] = t]
  PROVE  SessionsKept
<1>1. sess[s] \in SessionState /\ tmp[s] \in TmpContent
  BY DEF TypeOK, TmpContent
<1>2. Replied(sess[s], reply) \in SessionState
  BY <1>1, RepliedSound
<1>3. sess' = [sess EXCEPT ![s] = Replied(sess[s], reply)]
  BY DEF Reply
<1>4. CASE tmp' = tmp
  <2>1. tmp' = [tmp EXCEPT ![s] = tmp[s]]
    BY <1>4 DEF TypeOK
  <2>2. Sound(Replied(sess[s], reply), tmp[s])
    BY <1>1, RepliedSound
  <2>3. QED BY <1>1, <1>2, <1>3, <2>1, <2>2, OneSessionMoves DEF SessionsKept
<1>5. CASE tmp' = [tmp EXCEPT ![s] = t]
  <2>1. Sound(Replied(sess[s], reply), t)
    BY <1>1, RepliedSound
  <2>2. QED BY <1>2, <1>3, <1>5, <2>1, OneSessionMoves DEF SessionsKept
<1>6. QED BY <1>4, <1>5

(* Nor does it matter that a failure was logged, or whether the temporary  *)
(* file could be removed.                                                  *)
LEMMA LogKept ==
  ASSUME TypeOK, SessionsSound, NEW s \in Session, NEW reply \in {"OK", "NO", "died"},
         NEW call \in Logged, ReplyAndLog(s, reply, call), tmp' = tmp
  PROVE  SessionsKept
<1>1. sess[s] \in SessionState /\ tmp[s] \in TmpContent
  BY DEF TypeOK, TmpContent
<1> DEFINE q == [Replied(sess[s], reply) EXCEPT !.failed = call]
<1>2. q \in SessionState /\ Sound(q, tmp[s])
  BY <1>1, LoggedSound
<1>3. sess' = [sess EXCEPT ![s] = q] /\ tmp' = [tmp EXCEPT ![s] = tmp[s]]
  BY DEF ReplyAndLog, TypeOK
<1> HIDE DEF q
<1>4. QED BY <1>1, <1>2, <1>3, OneSessionMoves DEF SessionsKept

LEMMA DropKept ==
  ASSUME TypeOK, SessionsSound, NEW s \in Session, NEW reply \in {"OK", "NO", "died"}, DropTmp(s, reply)
  PROVE  SessionsKept
<1>1. NoFile \in TmpContent
  BY DEF TmpContent
<1>2. QED BY <1>1, ReplyKept, LogKept DEF DropTmp, Logged

(* A step to another label, where what is known suffices.                  *)
LEMMA GotoKept ==
  ASSUME TypeOK, SessionsSound, NEW s \in Session, NEW p \in PC, Goto(s, p), tmp' = tmp,
         Sound([sess[s] EXCEPT !.pc = p], tmp[s])
  PROVE  SessionsKept
<1>1. sess[s] \in SessionState /\ tmp[s] \in TmpContent
  BY DEF TypeOK, TmpContent
<1>2. [sess[s] EXCEPT !.pc = p] \in SessionState
  BY <1>1 DEF SessionState
<1>3. sess' = [sess EXCEPT ![s] = [sess[s] EXCEPT !.pc = p]]
  BY DEF Goto, TypeOK
<1>4. tmp' = [tmp EXCEPT ![s] = tmp[s]]
  BY DEF TypeOK
<1>5. QED BY <1>1, <1>2, <1>3, <1>4, OneSessionMoves DEF SessionsKept

(* The labels that follow one another without a new fact.                  *)
Follows(r, p) ==
  \/ r.pc = "uploaded" /\ p = "willactivate"
  \/ r.pc = "default" /\ p \in {"statdefault", "move"}
  \/ r.pc = "move" /\ p = "open"
  \/ r.pc = "isactive" /\ p \in {"compile", "lstat"}
  \/ r.pc = "compile" /\ p = "lstat"
  \/ p \in {"rescue2", "unlinkactive"}
  \/ r.pc \in Activating /\ p \in Activating
  \/ r.pc \in Deleting /\ p \in Deleting
  \/ r.pc \in Renaming /\ p \in Renaming \cup {"open"}

(* Moving on along Follows asks for no fact that is not known already.     *)
LEMMA QuietLabels ==
  ASSUME NEW r \in SessionState, NEW t, NEW p, Sound(r, t), Follows(r, p)
  PROVE  p \in PC /\ Sound([r EXCEPT !.pc = p], t)
<1>1. p \in PC
  BY Labels DEF Uploading, Activating, Follows
<1>2. /\ [r EXCEPT !.pc = p].pc = p /\ [r EXCEPT !.pc = p].cmd = r.cmd
      /\ [r EXCEPT !.pc = p].name = r.name /\ [r EXCEPT !.pc = p].to = r.to
      /\ [r EXCEPT !.pc = p].content = r.content
  BY DEF SessionState
<1>3. QED
  BY <1>1, <1>2 DEF Sound, TargetOf, Uploading, Committing, Activating, Deleting, Renaming, Follows

(* A step along Follows keeps the sessions sound.                          *)
LEMMA FollowsKept ==
  ASSUME TypeOK, SessionsSound, NEW s \in Session, NEW p, Goto(s, p), tmp' = tmp, Follows(sess[s], p)
  PROVE  SessionsKept
<1>1. sess[s] \in SessionState /\ Sound(sess[s], tmp[s])
  BY DEF TypeOK, SessionsSound
<1>2. p \in PC /\ Sound([sess[s] EXCEPT !.pc = p], tmp[s])
  BY <1>1, QuietLabels
<1>3. QED BY <1>2, GotoKept

(* A new command, with the arguments it names.                             *)
LEMMA CommandKept ==
  ASSUME TypeOK, SessionsSound, NEW s \in Session, NEW r \in SessionState,
         NEW t \in TmpContent, tmp' = tmp \/ tmp' = [tmp EXCEPT ![s] = t],
         sess' = [sess EXCEPT ![s] = r], Sound(r, t), Sound(r, tmp[s])
  PROVE  SessionsKept
<1>1. CASE tmp' = tmp
  <2>1. tmp' = [tmp EXCEPT ![s] = tmp[s]] /\ tmp[s] \in TmpContent
    BY <1>1 DEF TypeOK, TmpContent
  <2>2. QED BY <2>1, OneSessionMoves DEF SessionsKept
<1>2. CASE tmp' = [tmp EXCEPT ![s] = t]
  BY <1>2, OneSessionMoves DEF SessionsKept
<1>3. QED BY <1>1, <1>2

(* The record a command starts with is well formed.                        *)
LEMMA NewCommandType ==
  ASSUME NEW cmd \in {"none", "put", "setactive", "deactivate", "delete", "rename"},
         NEW n \in Name \cup {NoName}, NEW m \in Name \cup {NoName}
  PROVE  NewCommand(cmd, n, m) \in SessionState
BY Labels DEF NewCommand, SessionState

(* Beginning a command keeps the sessions sound.                           *)
LEMMA BeginKept ==
  ASSUME TypeOK, SessionsSound, NEW s \in Session, Begin(s)
  PROVE  SessionsKept
<1>1. tmp[s] \in TmpContent /\ NoFile \in TmpContent /\ Partial \in TmpContent
  BY DEF TypeOK, TmpContent
<1>2. CASE PutScript(s)
  <2>1. PICK n \in Name \cup {NoName}, c \in Content, quoted \in BOOLEAN :
          LET r == [NewCommand("put", n, NoName) EXCEPT !.content = c, !.quoted = quoted]
          IN  \/ /\ sess' = [sess EXCEPT ![s] = Replied(r, "NO")]
                 /\ tmp' = [tmp EXCEPT ![s] = NoFile]
              \/ /\ sess' = [sess EXCEPT ![s] = [r EXCEPT !.pc = "upload"]]
                 /\ tmp' = [tmp EXCEPT ![s] = Partial]
    BY <1>2, Zenon DEF PutScript
  <2> DEFINE r == [NewCommand("put", n, NoName) EXCEPT !.content = c, !.quoted = quoted]
  <2>2. NewCommand("put", n, NoName) \in SessionState
    BY NewCommandType
  <2>3. r \in SessionState
    BY <2>2 DEF SessionState
  <2>4. CASE sess' = [sess EXCEPT ![s] = Replied(r, "NO")] /\ tmp' = [tmp EXCEPT ![s] = NoFile]
    BY <1>1, <2>3, <2>4, RepliedSound, CommandKept
  <2>5. CASE /\ sess' = [sess EXCEPT ![s] = [r EXCEPT !.pc = "upload"]]
             /\ tmp' = [tmp EXCEPT ![s] = Partial]
    <3>1. [r EXCEPT !.pc = "upload"] \in SessionState
      BY <2>3, Labels DEF SessionState
    <3>2. /\ [r EXCEPT !.pc = "upload"].pc = "upload" /\ [r EXCEPT !.pc = "upload"].cmd = "put"
          /\ [r EXCEPT !.pc = "upload"].content = c
      BY DEF NewCommand
    <3>3. Sound([r EXCEPT !.pc = "upload"], Partial)
      BY <3>2 DEF Sound, Uploading, Committing, Activating, Deleting, Renaming
    <3>4. QED BY <1>1, <2>5, <3>1, <3>3, OneSessionMoves DEF SessionsKept
  <2>6. QED BY <2>1, <2>4, <2>5
<1>3. CASE SetActive(s)
  <2>1. PICK n \in Name :
          \/ sess' = [sess EXCEPT ![s] = Replied(NewCommand("setactive", n, NoName), "NO")]
          \/ sess' = [sess EXCEPT ![s] = [NewCommand("setactive", n, NoName) EXCEPT
                                            !.pc = "isactive", !.open = OpenedAs(n)]]
    BY <1>3, Zenon DEF SetActive
  <2>2. NewCommand("setactive", n, NoName) \in SessionState
    BY NewCommandType
  <2>3. CASE sess' = [sess EXCEPT ![s] = Replied(NewCommand("setactive", n, NoName), "NO")]
    BY <1>1, <1>3, <2>2, <2>3, RepliedSound, CommandKept DEF SetActive, NoUpload
  <2> DEFINE r == [NewCommand("setactive", n, NoName) EXCEPT !.pc = "isactive", !.open = OpenedAs(n)]
  <2>4. CASE sess' = [sess EXCEPT ![s] = r]
    <3>1. r \in SessionState
      BY <2>2, Labels DEF SessionState, OpenedAs
    <3>2. r.pc = "isactive" /\ r.cmd = "setactive" /\ r.name = n
      BY DEF NewCommand
    <3>3. \A t : Sound(r, t)
      BY <3>2 DEF Sound, Uploading, Committing, Activating, Deleting, Renaming
    <3>4. QED BY <1>1, <1>3, <2>4, <3>1, <3>3, CommandKept DEF SetActive, NoUpload
  <2>5. QED BY <2>1, <2>3, <2>4
<1>4. CASE DeactivateScript(s)
  <2> DEFINE r == [NewCommand("deactivate", NoName, NoName) EXCEPT !.pc = "rescue2"]
  <2>1. NewCommand("deactivate", NoName, NoName) \in SessionState
    BY NewCommandType
  <2>2. r \in SessionState
    BY <2>1, Labels DEF SessionState
  <2>3. r.pc = "rescue2"
    BY DEF NewCommand
  <2>4. \A t : Sound(r, t)
    BY <2>3 DEF Sound, Uploading, Committing, Activating, Deleting, Renaming
  <2>5. QED BY <1>1, <1>4, <2>2, <2>4, CommandKept DEF DeactivateScript, NoUpload
<1>5. CASE DeleteScript(s)
  <2>1. PICK n \in Name :
          \/ sess' = [sess EXCEPT ![s] = Replied(NewCommand("delete", n, NoName), "NO")]
          \/ sess' = [sess EXCEPT ![s] = [NewCommand("delete", n, NoName) EXCEPT
                                            !.pc = "delcheck", !.open = OpenedAs(n)]]
    BY <1>5, Zenon DEF DeleteScript
  <2>2. NewCommand("delete", n, NoName) \in SessionState
    BY NewCommandType
  <2>3. CASE sess' = [sess EXCEPT ![s] = Replied(NewCommand("delete", n, NoName), "NO")]
    BY <1>1, <1>5, <2>2, <2>3, RepliedSound, CommandKept DEF DeleteScript, NoUpload
  <2> DEFINE r == [NewCommand("delete", n, NoName) EXCEPT !.pc = "delcheck", !.open = OpenedAs(n)]
  <2>4. CASE sess' = [sess EXCEPT ![s] = r]
    <3>1. r \in SessionState
      BY <2>2, Labels DEF SessionState, OpenedAs, Deleting
    <3>2. r.pc = "delcheck" /\ r.name = n
      BY DEF NewCommand
    <3>3. \A t : Sound(r, t)
      BY <3>2 DEF Sound, Uploading, Committing, Activating, Deleting, Renaming
    <3>4. QED BY <1>1, <1>5, <2>4, <3>1, <3>3, CommandKept DEF DeleteScript, NoUpload
  <2>5. QED BY <2>1, <2>3, <2>4
<1>6. CASE RenameScript(s)
  <2>1. PICK n, m \in Name :
          \/ sess' = [sess EXCEPT ![s] = Replied(NewCommand("rename", n, m), "NO")]
          \/ sess' = [sess EXCEPT ![s] = [NewCommand("rename", n, m) EXCEPT
                        !.pc = IF OpenedAs(n) = "own" THEN "link" ELSE "checknew",
                        !.open = OpenedAs(n)]]
    BY <1>6, Zenon DEF RenameScript
  <2>2. NewCommand("rename", n, m) \in SessionState
    BY NewCommandType
  <2>3. CASE sess' = [sess EXCEPT ![s] = Replied(NewCommand("rename", n, m), "NO")]
    BY <1>1, <1>6, <2>2, <2>3, RepliedSound, CommandKept DEF RenameScript, NoUpload
  <2> DEFINE p == IF OpenedAs(n) = "own" THEN "link" ELSE "checknew"
             r == [NewCommand("rename", n, m) EXCEPT !.pc = p, !.open = OpenedAs(n)]
  <2>4. CASE sess' = [sess EXCEPT ![s] = r]
    <3>1. p \in PC /\ p \in {"link", "checknew"}
      BY Labels DEF Renaming
    <3>2. OpenedAs(n) \in {"own", "default"}
      BY DEF OpenedAs
    <3>3. r \in SessionState
      <4> HIDE DEF p
      <4>1. QED BY <2>2, <3>1, <3>2 DEF SessionState
    <3>4. r.pc = p /\ r.cmd = "rename" /\ r.name = n /\ r.to = m
      BY DEF NewCommand
    <3>5. \A t : Sound(r, t)
      <4> HIDE DEF p, r
      <4>1. QED BY <3>1, <3>4 DEF Sound, Uploading, Committing, Activating, Deleting, Renaming
    <3>6. QED BY <1>1, <1>6, <2>4, <3>3, <3>5, CommandKept DEF RenameScript, NoUpload
  <2>5. QED BY <2>1, <2>3, <2>4
<1>7. QED BY <1>2, <1>3, <1>4, <1>5, <1>6 DEF Begin

(* The steps of an upload, of which two record a fact: the file is         *)
(* complete, and it compiled.                                              *)
LEMMA UploadKept ==
  ASSUME TypeOK, SessionsSound, NEW s \in Session,
         \/ UploadDone(s) \/ UploadFailed(s) \/ QuotaCheck(s) \/ WillActivate(s)
         \/ IsActivatingDefault(s) \/ StatDefault(s) \/ StatDefaultError(s)
         \/ Move(s) \/ MoveFailed(s)
  PROVE  SessionsKept
<1> DEFINE r == sess[s]
<1>1. r \in SessionState /\ Sound(r, tmp[s])
  BY DEF TypeOK, SessionsSound
<1>2. tmp[s] \in TmpContent /\ NoFile \in TmpContent
  BY DEF TypeOK, TmpContent
<1>3. CASE UploadDone(s)
  <2>1. [r EXCEPT !.pc = "uploaded"] \in SessionState
    BY <1>1, Labels DEF SessionState, Uploading
  <2>2. sess' = [sess EXCEPT ![s] = [r EXCEPT !.pc = "uploaded"]]
    BY <1>3 DEF UploadDone, Goto, TypeOK
  <2>3. r.cmd = "put" /\ r.content \in Content
    BY <1>1, <1>3 DEF UploadDone, At, Sound
  <2>4. /\ [r EXCEPT !.pc = "uploaded"].pc = "uploaded" /\ [r EXCEPT !.pc = "uploaded"].cmd = "put"
        /\ [r EXCEPT !.pc = "uploaded"].content = r.content
    BY <1>1, <2>3 DEF SessionState
  <2>5. Sound([r EXCEPT !.pc = "uploaded"], r.content)
    BY <2>3, <2>4 DEF Sound, Uploading, Committing, Activating, Deleting, Renaming
  <2>6. r.content \in TmpContent /\ tmp' = [tmp EXCEPT ![s] = r.content]
    BY <1>3, <2>3 DEF UploadDone, TmpContent
  <2>7. QED BY <2>1, <2>2, <2>5, <2>6, OneSessionMoves DEF SessionsKept
<1>4. CASE UploadFailed(s) \/ MoveFailed(s)
  BY <1>4, DropKept DEF UploadFailed, MoveFailed, Cancel
<1>5. CASE QuotaCheck(s)
  <2>1. CASE Cancel(s)
    BY <2>1, DropKept DEF Cancel
  <2>2. CASE Goto(s, "willactivate") /\ tmp' = tmp
    BY <1>5, <2>2, FollowsKept DEF QuotaCheck, At, Follows
  <2>3. QED BY <1>5, <2>1, <2>2 DEF QuotaCheck
<1>6. CASE WillActivate(s)
  <2>0. PICK was \in IF r.name = NoName THEN {NoName} ELSE ActiveNameAnswers :
          IF Compiles(r, was) /\ r.name # NoName
          THEN sess' = [sess EXCEPT ![s].pc = "default", ![s].was = was] /\ tmp' = tmp
          ELSE DropTmp(s, IF Compiles(r, was) THEN "OK" ELSE "NO")
    BY <1>6 DEF WillActivate
  <2> DEFINE q == [r EXCEPT !.pc = "default", !.was = was]
  <2>1. was \in Name \cup {NoName}
    BY <2>0, StoreAssumption DEF ActiveNameAnswers, ActiveName
  <2>2. CASE Compiles(r, was) /\ r.name # NoName
    <3>1. sess' = [sess EXCEPT ![s] = q] /\ tmp' = tmp
      BY <2>0, <2>2 DEF TypeOK
    <3>2. q \in SessionState
      BY <1>1, <2>1, Labels DEF SessionState, Uploading
    <3>3. q.pc = "default" /\ q.name = r.name /\ q.cmd = r.cmd /\ q.content = r.content
      BY <1>1 DEF SessionState
    <3>4. r.name \in Name /\ r.content \in UploadValid
      BY <1>1, <2>2, StoreAssumption DEF Compiles, SessionState
    <3>5. r.cmd = "put" /\ tmp[s] = r.content /\ r.content \in Content
      BY <1>1, <1>6 DEF WillActivate, At, Sound, Uploading
    <3>6. Sound(q, tmp[s])
      <4> HIDE DEF q
      <4>1. QED BY <3>3, <3>4, <3>5
                DEF Sound, Uploading, Committing, Activating, Deleting, Renaming
    <3>7. QED BY <1>2, <3>1, <3>2, <3>6, CommandKept
  <2>3. CASE ~(Compiles(r, was) /\ r.name # NoName)
    BY <2>0, <2>3, DropKept
  <2>4. QED BY <2>2, <2>3
<1>7. CASE IsActivatingDefault(s)
  <2>1. PICK p \in {"statdefault", "move"} : Goto(s, p)
    BY <1>7, Zenon DEF IsActivatingDefault
  <2>2. QED BY <1>7, <2>1, FollowsKept DEF IsActivatingDefault, At, Follows
<1>8. CASE StatDefault(s)
  <2> DEFINE q == [r EXCEPT !.pc = "move", !.implicit = (r.name \notin Stored)]
  <2>1. sess' = [sess EXCEPT ![s] = q] /\ tmp' = tmp
    BY <1>8 DEF StatDefault, TypeOK
  <2>2. q \in SessionState
    BY <1>1, Labels DEF SessionState, Uploading
  <2>3. q.pc = "move" /\ q.name = r.name /\ q.cmd = r.cmd /\ q.content = r.content
    BY <1>1 DEF SessionState
  <2>4. r.pc = "statdefault"
    BY <1>8 DEF StatDefault, At
  <2>5. Sound(q, tmp[s])
    <3> HIDE DEF q
    <3>1. QED BY <1>1, <2>3, <2>4 DEF Sound, Uploading, Committing, Activating, Deleting, Renaming
  <2>6. QED BY <1>2, <2>1, <2>2, <2>5, CommandKept
<1>9. CASE StatDefaultError(s)
  BY <1>9, LogKept DEF StatDefaultError, Logged
<1>10. CASE Move(s)
  <2>1. CASE Reply(s, "OK")
    BY <1>2, <1>10, <2>1, ReplyKept DEF Move
  <2>2. CASE Goto(s, "open")
    <3> DEFINE q == [r EXCEPT !.pc = "open"]
    <3>1. q \in SessionState
      BY <1>1, Labels DEF SessionState
    <3>2. sess' = [sess EXCEPT ![s] = q] /\ tmp' = [tmp EXCEPT ![s] = NoFile]
      BY <1>10, <2>2 DEF Move, Goto, TypeOK
    <3>3. r.cmd = "put" /\ r.name \in Name
      BY <1>1, <1>10 DEF Move, At, Sound, Uploading, Committing
    <3>4. q.pc = "open" /\ q.cmd = r.cmd /\ q.name = r.name
      BY <1>1 DEF SessionState
    <3>5. Sound(q, NoFile)
      <4> HIDE DEF q
      <4>1. QED BY <3>3, <3>4
                DEF Sound, TargetOf, Uploading, Committing, Activating, Deleting, Renaming
    <3>6. QED BY <1>2, <3>1, <3>2, <3>5, OneSessionMoves DEF SessionsKept
  <2>3. QED BY <1>10, <2>1, <2>2 DEF Move
<1>11. QED BY <1>3, <1>4, <1>5, <1>6, <1>7, <1>8, <1>9, <1>10

(* Activation and deactivation.                                            *)
LEMMA ActivationKept ==
  ASSUME TypeOK, SessionsSound, NEW s \in Session,
         \/ OpenNew(s) \/ SetActiveCheck(s) \/ SetActiveCompile(s) \/ ActivateStat(s)
         \/ ActivateRescue(s) \/ ActivateLink(s) \/ ActivateReplace(s) \/ ActivateError(s)
         \/ DeactivateRescue(s) \/ DeactivateUnlink(s) \/ DeactivateError(s)
  PROVE  SessionsKept
<1>1. sess[s] \in SessionState /\ Sound(sess[s], tmp[s])
  BY DEF TypeOK, SessionsSound
<1>2. tmp[s] \in TmpContent
  BY DEF TypeOK, TmpContent
<1>3. CASE OpenNew(s)
  <2>1. CASE Reply(s, "OK")
    BY <1>2, <1>3, <2>1, ReplyKept DEF OpenNew
  <2>2. CASE ~Reply(s, "OK")
    <3> DEFINE o == OpenedAs(Target(s))
               p == IF o = "own" THEN "lstat" ELSE "rescue2"
               q == [sess[s] EXCEPT !.open = o, !.pc = p]
    <3>1. sess' = [sess EXCEPT ![s] = q] /\ tmp' = tmp
      BY <1>3, <2>2 DEF OpenNew, TypeOK
    <3>2. o \in {"own", "default"} /\ p \in {"lstat", "rescue2"} /\ p \in PC
      BY Labels DEF OpenedAs, Activating
    <3>3. q \in SessionState
      <4> HIDE DEF o, p
      <4>1. QED BY <1>1, <3>2 DEF SessionState
    <3>4. q.pc = p /\ TargetOf(q) = TargetOf(sess[s])
      BY <1>1 DEF SessionState, TargetOf
    <3>5. TargetOf(sess[s]) \in Name
      BY <1>1, <1>3 DEF OpenNew, At, Sound, Activating
    <3>6. Sound(q, tmp[s])
      <4> HIDE DEF q, p, o
      <4>1. QED BY <3>2, <3>4, <3>5
                DEF Sound, Uploading, Committing, Activating, Deleting, Renaming
    <3>7. QED BY <1>2, <3>1, <3>3, <3>6, CommandKept
  <2>3. QED BY <2>1, <2>2
<1>4. CASE SetActiveCheck(s)
  <2>1. PICK p \in {"lstat", "rescue2", "compile"} : Goto(s, p)
    BY <1>4 DEF SetActiveCheck, AfterCompile
  <2>2. QED BY <1>4, <2>1, FollowsKept DEF SetActiveCheck, At, Follows
<1>5. CASE SetActiveCompile(s)
  <2>1. CASE Reply(s, "NO")
    BY <1>2, <1>5, <2>1, ReplyKept DEF SetActiveCompile
  <2>2. CASE \E p \in {"lstat", "rescue2"} : Goto(s, p)
    BY <1>5, <2>2, FollowsKept DEF SetActiveCompile, At, Follows
  <2>3. QED BY <1>5, <2>1, <2>2 DEF SetActiveCompile, AfterCompile
<1>6. ASSUME sess[s].pc \in Activating, tmp' = tmp, ActivateFailed(s) PROVE SessionsKept
  <2>1. CASE Reply(s, "NO")
    BY <1>2, <1>6, <2>1, ReplyKept
  <2>2. CASE Goto(s, "rollback")
    BY <1>6, <2>2, FollowsKept DEF Follows, Activating
  <2>3. QED BY <1>6, <2>1, <2>2 DEF ActivateFailed
<1>7. CASE ActivateStat(s)
  <2>1. CASE Goto(s, "rescue")
    BY <1>7, <2>1, FollowsKept DEF ActivateStat, At, Follows, Activating
  <2>2. CASE ActivateFailed(s)
    BY <1>6, <1>7, <2>2 DEF ActivateStat, At, Activating
  <2>3. QED BY <1>7, <2>1, <2>2 DEF ActivateStat
<1>8. CASE ActivateRescue(s)
  BY <1>8, FollowsKept DEF ActivateRescue, At, Follows, Activating
<1>9. CASE ActivateLink(s)
  <2>1. CASE Reply(s, "OK")
    BY <1>2, <1>9, <2>1, ReplyKept DEF ActivateLink
  <2>2. CASE Goto(s, "replace")
    BY <1>9, <2>2, FollowsKept DEF ActivateLink, At, Follows, Activating
  <2>3. QED BY <1>9, <2>1, <2>2 DEF ActivateLink
<1>10. CASE ActivateReplace(s)
  BY <1>2, <1>10, ReplyKept DEF ActivateReplace
<1>11. CASE ActivateError(s)
  BY <1>6, <1>11 DEF ActivateError, Activating
<1>12. CASE DeactivateRescue(s)
  BY <1>12, FollowsKept DEF DeactivateRescue, Follows
<1>13. CASE DeactivateUnlink(s) \/ DeactivateError(s)
  BY <1>2, <1>13, ReplyKept DEF DeactivateUnlink, DeactivateError
<1>14. QED BY <1>3, <1>4, <1>5, <1>7, <1>8, <1>9, <1>10, <1>11, <1>12, <1>13

(* Deletion, rollback and renaming.                                        *)
LEMMA RemovalKept ==
  ASSUME TypeOK, SessionsSound, NEW s \in Session,
         \/ DeleteCheck(s) \/ DeleteUnlink(s)
         \/ Rollback(s) \/ RollbackDeactivate(s) \/ RollbackUnlink(s)
         \/ RenameLink(s) \/ RenameCheck(s) \/ RenameActivate(s) \/ RenameActivateError(s)
         \/ RenameUnlinkOld(s) \/ RenameUnlinkNew(s)
         \/ RenameDefaultCheck(s) \/ RenameDefaultCopy(s) \/ RenameDefaultActive(s)
  PROVE  SessionsKept
<1>1. tmp[s] \in TmpContent /\ tmp' = tmp
  BY DEF TypeOK, TmpContent, DeleteCheck, DeleteUnlink, Rollback, RollbackDeactivate,
         RollbackUnlink, RenameLink, RenameCheck, RenameActivate, RenameActivateError,
         RenameUnlinkOld, RenameUnlinkNew, RenameDefaultCheck, RenameDefaultCopy,
         RenameDefaultActive
<1>2. CASE \E reply \in {"OK", "NO", "died"} : Reply(s, reply) \/ ReplyAndLog(s, reply, "unlink")
  BY <1>1, <1>2, ReplyKept, LogKept DEF Logged
<1>3. CASE DeleteCheck(s)
  <2>1. CASE Goto(s, "delete")
    BY <1>1, <1>3, <2>1, FollowsKept DEF DeleteCheck, At, Follows, Deleting
  <2>2. QED BY <1>2, <1>3, <2>1 DEF DeleteCheck
<1>4. CASE DeleteUnlink(s) \/ RollbackUnlink(s) \/ RenameUnlinkOld(s) \/ RenameUnlinkNew(s)
  BY <1>2, <1>4 DEF DeleteUnlink, RollbackUnlink, RenameUnlinkOld, RenameUnlinkNew
<1>5. CASE Rollback(s)
  <2>1. PICK p \in {"deactivate", "dropnew"} : Goto(s, p)
    BY <1>5 DEF Rollback
  <2>2. QED BY <1>1, <1>5, <2>1, FollowsKept DEF Rollback, At, Follows, Activating
<1>6. CASE RollbackDeactivate(s)
  BY <1>1, <1>6, FollowsKept DEF RollbackDeactivate, At, Follows, Activating
<1>7. CASE \E p \in Renaming \cup {"open"} : sess[s].pc \in Renaming /\ Goto(s, p)
  BY <1>1, <1>7, FollowsKept DEF Follows
<1>8. CASE RenameLink(s)
  BY <1>2, <1>7, <1>8 DEF RenameLink, At, Renaming
<1>9. CASE RenameCheck(s)
  BY <1>7, <1>9 DEF RenameCheck, At, Renaming
<1>10. CASE RenameActivate(s) \/ RenameActivateError(s)
  BY <1>7, <1>10 DEF RenameActivate, RenameActivateError, At, Renaming
<1>11. CASE RenameDefaultCheck(s) \/ RenameDefaultCopy(s)
  <2>1. CASE RenameDefaultCheck(s)
    BY <1>2, <1>7, <2>1 DEF RenameDefaultCheck, At, Renaming
  <2>2. CASE RenameDefaultCopy(s) /\ sess' = [sess EXCEPT ![s].pc = "copied", ![s].failed = "rename"]
    <3> DEFINE q == [sess[s] EXCEPT !.pc = "copied", !.failed = "rename"]
    <3>1. sess' = [sess EXCEPT ![s] = q] /\ sess[s] \in SessionState /\ Sound(sess[s], tmp[s])
      BY <2>2 DEF TypeOK, SessionsSound
    <3>2. q \in SessionState
      BY <3>1, Labels DEF SessionState, Renaming
    <3>3. q.pc = "copied" /\ q.cmd = sess[s].cmd /\ q.name = sess[s].name /\ q.to = sess[s].to
      BY <3>1 DEF SessionState
    <3>4. sess[s].pc = "copy"
      BY <2>2 DEF RenameDefaultCopy, At
    <3> HIDE DEF q
    <3>5. Sound(q, tmp[s])
      BY <3>1, <3>3, <3>4 DEF Sound, Uploading, Committing, Activating, Deleting, Renaming
    <3>6. QED BY <1>1, <3>1, <3>2, <3>5, CommandKept
  <2>3. CASE RenameDefaultCopy(s) /\ Goto(s, "copied")
    BY <1>7, <2>3 DEF RenameDefaultCopy, At, Renaming
  <2>4. QED BY <1>2, <1>11, <2>1, <2>2, <2>3 DEF RenameDefaultCopy
<1>12. CASE RenameDefaultActive(s)
  BY <1>2, <1>7, <1>12 DEF RenameDefaultActive, At, Renaming
<1>13. QED BY <1>3, <1>4, <1>5, <1>6, <1>8, <1>9, <1>10, <1>11, <1>12

-----------------------------------------------------------------------------
(* Any number of sessions *)

(* Writing a compiled script, or removing one, leaves compiled scripts.    *)
LEMMA FilesKept ==
  ASSUME TypeOK, OnlyCompiledScripts, NEW n, NEW c \in UploadValid \cup {NoFile, OrigContent},
         files' = [files EXCEPT ![n] = c]
  PROVE  files' \in [Name -> Content \cup {NoFile}] /\ OnlyCompiledScripts'
<1>1. c \in Content \cup {NoFile}
  BY StoreAssumption
<1>2. files' \in [Name -> Content \cup {NoFile}]
  BY <1>1 DEF TypeOK
<1>3. ASSUME NEW m \in Name PROVE files'[m] \in {c, files[m]}
  BY DEF TypeOK
<1>4. QED BY <1>2, <1>3 DEF OnlyCompiledScripts

(* Every step leaves compiled scripts and a well-formed link.              *)
LEMMA StepStorageKept ==
  ASSUME StorageInv, NEW s \in Session, Begin(s) \/ Step(s) \/ Crash(s)
  PROVE  StorageKept
<1> USE DEF StorageKept
<1>1. TypeOK /\ OnlyCompiledScripts /\ Sound(sess[s], tmp[s])
  BY DEF StorageInv, SessionsSound
<1>2. files \in [Name -> Content \cup {NoFile}] /\ active \in Name \cup {NoLink, Regular}
  BY <1>1 DEF TypeOK
<1>3. CASE UNCHANGED storeVars
  BY <1>1, <1>2, <1>3 DEF storeVars, OnlyCompiledScripts
<1>4. ASSUME UNCHANGED files, active' \in Name \cup {NoLink} PROVE StorageKept
  BY <1>1, <1>2, <1>4 DEF OnlyCompiledScripts
<1>5. ASSUME UNCHANGED active,
             \E n, c : c \in UploadValid \cup {NoFile, OrigContent} /\ files' = [files EXCEPT ![n] = c]
      PROVE  StorageKept
  BY <1>1, <1>2, <1>5, FilesKept
<1>6. CASE Begin(s)
  BY <1>3, <1>6 DEF Begin, PutScript, SetActive, DeactivateScript, DeleteScript, RenameScript, NoUpload
<1>7. CASE Crash(s)
  BY <1>3, <1>7 DEF Crash
<1>8. ASSUME RescueRegular PROVE StorageKept
  <2>1. CASE Rescue
    BY <1>5, <2>1 DEF Rescue
  <2>2. QED BY <1>3, <1>8, <2>1 DEF RescueRegular
<1>9. CASE Step(s)
  <2>1. CASE \/ UploadDone(s) \/ UploadFailed(s) \/ QuotaCheck(s) \/ WillActivate(s)
             \/ IsActivatingDefault(s) \/ StatDefault(s) \/ StatDefaultError(s) \/ MoveFailed(s)
             \/ OpenNew(s) \/ SetActiveCheck(s) \/ SetActiveCompile(s) \/ ActivateStat(s)
             \/ ActivateError(s) \/ DeactivateError(s) \/ DeleteCheck(s) \/ Rollback(s)
             \/ RenameCheck(s) \/ RenameActivateError(s)
             \/ RenameDefaultCheck(s) \/ RenameDefaultActive(s)
    BY <1>3, <2>1 DEF UploadDone, UploadFailed, QuotaCheck, WillActivate, IsActivatingDefault,
         StatDefault, StatDefaultError, MoveFailed, Cancel, OpenNew, SetActiveCheck,
         SetActiveCompile, ActivateStat, ActivateError, DeactivateError, DeleteCheck, Rollback,
         RenameCheck, RenameActivateError, RenameDefaultCheck, RenameDefaultActive
  <2>2. CASE Move(s)
    <3>1. tmp[s] \in UploadValid
      BY <1>1, <2>2 DEF Move, At, Sound, Uploading, Committing
    <3>2. files' = [files EXCEPT ![sess[s].name] = tmp[s]] /\ UNCHANGED active
      BY <2>2 DEF Move
    <3>3. QED BY <1>5, <3>1, <3>2
  <2>3. CASE ActivateRescue(s) \/ DeactivateRescue(s)
    BY <1>8, <2>3 DEF ActivateRescue, DeactivateRescue
  <2>4. CASE ActivateLink(s) \/ ActivateReplace(s)
    <3>1. Target(s) \in Name
      BY <1>1, <2>4 DEF ActivateLink, ActivateReplace, At, Sound, Target, TargetOf, Activating
    <3>2. active' \in {active, Target(s)} /\ UNCHANGED files
      BY <2>4 DEF ActivateLink, ActivateReplace
    <3>3. QED BY <1>2, <1>3, <1>4, <3>1, <3>2 DEF storeVars
  <2>5. CASE DeactivateUnlink(s) \/ RollbackDeactivate(s)
    <3>1. active' \in {active, NoLink} /\ UNCHANGED files
      BY <2>5 DEF DeactivateUnlink, RollbackDeactivate
    <3>2. QED BY <1>2, <1>3, <1>4, <3>1 DEF storeVars
  <2>6. CASE DeleteUnlink(s) \/ RollbackUnlink(s) \/ RenameUnlinkOld(s) \/ RenameUnlinkNew(s)
    <3>1. UNCHANGED active /\ (UNCHANGED files \/ \E n : files' = [files EXCEPT ![n] = NoFile])
      BY <2>6 DEF DeleteUnlink, RollbackUnlink, RenameUnlinkOld, RenameUnlinkNew
    <3>2. QED BY <1>3, <1>5, <3>1 DEF storeVars
  <2>7. CASE RenameLink(s)
    <3>1. CASE UNCHANGED files
      BY <1>3, <2>7, <3>1 DEF RenameLink, storeVars
    <3>2. CASE ~UNCHANGED files
      <4>1. sess[s].name \in Name /\ files' = [files EXCEPT ![sess[s].to] = files[sess[s].name]]
        BY <1>1, <2>7, <3>2 DEF RenameLink, At, Sound, Renaming
      <4>2. files[sess[s].name] \in UploadValid \cup {NoFile, OrigContent}
        BY <1>1, <4>1 DEF OnlyCompiledScripts
      <4>3. QED BY <1>5, <2>7, <4>1, <4>2 DEF RenameLink
    <3>3. QED BY <3>1, <3>2
  <2>8. CASE RenameActivate(s)
    <3>1. sess[s].to \in Name
      BY <1>1, <2>8 DEF RenameActivate, At, Sound, Renaming
    <3>2. QED BY <1>4, <2>8, <3>1 DEF RenameActivate
  <2>9. CASE RenameDefaultCopy(s)
    <3>1. DefaultContent \in UploadValid
      BY StoreAssumption
    <3>2. QED BY <1>3, <1>5, <2>9, <3>1 DEF RenameDefaultCopy, storeVars
  <2>10. QED BY <1>9, <2>1, <2>2, <2>3, <2>4, <2>5, <2>6, <2>7, <2>8, <2>9 DEF Step
<1>10. QED BY <1>6, <1>7, <1>9

(* So the invariant is inductive.                                          *)
LEMMA StorageInvNext == StorageInv /\ [Next]_vars => StorageInv'
<1> SUFFICES ASSUME StorageInv, [Next]_vars PROVE StorageInv'
  OBVIOUS
<1>1. TypeOK /\ SessionsSound
  BY DEF StorageInv
<1>2. CASE UNCHANGED vars
  BY <1>2 DEF StorageInv, vars, TypeOK, SessionsSound, OnlyCompiledScripts
<1>3. ASSUME NEW s \in Session, Begin(s) \/ Step(s) \/ Crash(s) PROVE StorageInv'
  <2>1. ASSUME Crash(s) PROVE SessionsKept
    <3>1. NewCommand("none", NoName, NoName) \in SessionState
      BY NewCommandType
    <3>2. NewCommand("none", NoName, NoName).pc = "idle"
      BY DEF NewCommand
    <3>3. \A t : Sound(NewCommand("none", NoName, NoName), t)
      BY <3>2 DEF Sound, Uploading, Committing, Activating, Deleting, Renaming
    <3>4. NoFile \in TmpContent
      BY DEF TmpContent
    <3>5. QED BY <1>1, <2>1, <3>1, <3>3, <3>4, CommandKept DEF Crash
  <2>2. SessionsKept
    BY <1>1, <1>3, <2>1, BeginKept, UploadKept, ActivationKept, RemovalKept DEF Step
  <2>3. StorageKept
    BY <1>3, StepStorageKept
  <2>4. QED BY <2>2, <2>3 DEF SessionsKept, StorageKept, StorageInv, TypeOK, TmpContent
<1>4. QED BY <1>2, <1>3 DEF Next

(* It holds in an empty storage.                                           *)
LEMMA StorageInvInit == Init => StorageInv
<1> SUFFICES ASSUME Init PROVE StorageInv
  OBVIOUS
<1>1. NewCommand("none", NoName, NoName) \in SessionState
  BY NewCommandType
<1>2. TypeOK
  BY <1>1, StoreAssumption DEF Init, StoreInit, TypeOK
<1>3. \A s \in Session : sess[s].pc = "idle"
  BY DEF Init, NewCommand
<1>4. SessionsSound
  BY <1>3 DEF SessionsSound, Sound, Uploading, Committing, Activating, Deleting, Renaming
<1>5. OnlyCompiledScripts
  BY DEF Init, StoreInit, OnlyCompiledScripts
<1>6. QED BY <1>2, <1>4, <1>5 DEF StorageInv

(* The storage, the link, the temporary files and the sessions keep their  *)
(* types, for any number of sessions.                                      *)
THEOREM StorageTypeCorrect == Spec => []TypeOK
<1>1. StorageInv => TypeOK
  BY DEF StorageInv
<1>2. QED BY <1>1, StorageInvInit, StorageInvNext, PTL DEF Spec

(* However many sessions store, rename, delete and activate scripts at     *)
(* once, and wherever they die, sieve_file_storage_save_commit and the     *)
(* other steps leave only whole scripts that compiled under a name.        *)
THEOREM OnlyCompiledVisible == Spec => []OnlyCompiledScripts
<1>1. StorageInv => OnlyCompiledScripts
  BY DEF StorageInv
<1>2. QED BY <1>1, StorageInvInit, StorageInvNext, PTL DEF Spec

-----------------------------------------------------------------------------
(* The abstract storage *)

(* Whatever step of the abstract storage is taken, the active script       *)
(* exists and compiled as such.                                            *)
LEMMA StoreNextResolves ==
  ASSUME files \in [Name -> Content \cup {NoFile}], ActiveResolves, [StoreNext]_storeVars
  PROVE  ActiveResolves'
<1> USE StoreAssumption DEF ActiveResolves, ActiveExists, ActiveCompiles, Stored
<1>1. CASE UNCHANGED storeVars
  BY <1>1 DEF storeVars
<1>2. ASSUME NEW n \in Name, NEW c \in Content, Store(n, c) PROVE ActiveResolves'
  BY <1>2 DEF Store
<1>3. ASSUME NEW n \in Name, NEW m \in Name, Link(n, m) PROVE ActiveResolves'
  BY <1>3 DEF Link
<1>4. ASSUME NEW n \in Name, Remove(n) PROVE ActiveResolves'
  BY <1>4 DEF Remove
<1>5. ASSUME NEW n \in Name, Activate(n) PROVE ActiveResolves'
  BY <1>5 DEF Activate
<1>6. CASE Deactivate \/ Rescue
  BY <1>6 DEF Deactivate, Rescue
<1>7. QED BY <1>1, <1>2, <1>3, <1>4, <1>5, <1>6 DEF StoreNext

-----------------------------------------------------------------------------
(* A single session *)

OneSession == \A s, t \in Session : s = t

(* The active link can be read whenever it exists.                         *)
Readable == "readlink" \notin Faults

(* Then a session is told what is the case.                                *)
LEMMA TrueAnswers ==
  ASSUME Readable, NEW s
  PROVE  ActiveNameAnswers = {ActiveName} /\ IsActiveAnswers(s) = {IsActive(s)}
BY DEF Readable, ActiveNameAnswers, IsActiveAnswers, FaultMayOccur

NameOf(a) == IF a \in Name THEN a ELSE Default

(* What a session without competitors knows, in state r, of the files f    *)
(* and the active link a.                                                  *)
Alone(r, f, a) ==
  /\ r.pc \in {"upload", "uploaded", "willactivate", "default", "statdefault"} => ~r.implicit
  /\ r.pc \in Committing => r.was = NameOf(a) /\ (r.name = NameOf(a) => r.content \in ReplaceValid)
  /\ r.pc = "statdefault" => r.name = NameOf(a)
  /\ r.pc = "move" /\ r.implicit => r.name = NameOf(a) /\ a \notin Name
  /\ r.pc \in {"open", "lstat"} => f[TargetOf(r)] \in ReplaceValid \cup {NoFile}
  /\ r.pc \in {"rescue", "symlink", "replace"} => f[TargetOf(r)] \in ReplaceValid
  /\ r.pc = "open" => r.cmd # "setactive"
  /\ r.pc \in Activating /\ r.cmd # "setactive" => a \notin Name
  /\ r.pc \in {"rollback", "deactivate", "dropnew"} => r.cmd # "setactive"
  /\ r.pc = "delete" => a # r.name
  /\ r.pc \in {"link", "rencheck"} => r.open = "own"
  /\ r.pc \in {"rencheck", "renactivate"} =>
       f[r.to] = f[r.name] /\ f[r.name] # NoFile /\ r.to # r.name /\ r.to # a
  /\ r.pc = "renactivate" => a = r.name
  /\ r.pc = "unlinkold" => a # r.name
  /\ r.pc = "unlinknew" => a # r.to
  /\ r.pc \in {"checknew", "copy", "copied"} => r.open = "default"
  /\ r.pc = "copied" => f[r.to] \in {NoFile, DefaultContent}
  /\ r.pc = "copy" => f[r.to] = NoFile

SoleInv == ActiveResolves /\ \A s \in Session : Alone(sess[s], files, active)

(* The fields of a session after it moved on, and after it was answered.   *)
LEMMA GotoFields ==
  ASSUME TypeOK, NEW s \in Session, NEW p, Goto(s, p)
  PROVE  /\ sess'[s].pc = p /\ sess'[s].cmd = sess[s].cmd /\ sess'[s].name = sess[s].name
         /\ sess'[s].to = sess[s].to /\ sess'[s].content = sess[s].content
         /\ sess'[s].open = sess[s].open /\ sess'[s].was = sess[s].was
         /\ sess'[s].implicit = sess[s].implicit /\ TargetOf(sess'[s]) = TargetOf(sess[s])
<1>1. sess[s] \in SessionState
  BY DEF TypeOK
<1>2. sess'[s] = [sess[s] EXCEPT !.pc = p]
  BY DEF TypeOK, Goto
<1>3. QED BY <1>1, <1>2 DEF SessionState, TargetOf

(* Labels that promise nothing.                                            *)
LEMMA NothingKnown ==
  ASSUME NEW r, NEW f, NEW a,
         \/ r.pc \in {"idle", "isactive", "compile", "rescue2", "unlinkactive", "delcheck"}
         \/ r.pc \in {"upload", "uploaded", "willactivate"} /\ ~r.implicit
  PROVE  Alone(r, f, a)
BY DEF Alone, Committing, Activating

(* A session that was answered has to know nothing.                        *)
LEMMA ReplyAlone ==
  ASSUME TypeOK, NEW s \in Session, NEW reply, Reply(s, reply), NEW f, NEW a
  PROVE  Alone(sess'[s], f, a)
<1>1. sess[s] \in SessionState
  BY DEF TypeOK
<1>2. sess'[s] = Replied(sess[s], reply)
  BY DEF TypeOK, Reply
<1>3. sess'[s].pc = "idle"
  BY <1>1, <1>2 DEF Replied, SessionState
<1>4. QED BY <1>3, NothingKnown

LEMMA LogAlone ==
  ASSUME TypeOK, NEW s \in Session, NEW reply, NEW call, ReplyAndLog(s, reply, call), NEW f, NEW a
  PROVE  Alone(sess'[s], f, a)
<1>1. sess[s] \in SessionState
  BY DEF TypeOK
<1>2. sess'[s] = [Replied(sess[s], reply) EXCEPT !.failed = call]
  BY DEF TypeOK, ReplyAndLog
<1>3. sess'[s].pc = "idle"
  BY <1>1, <1>2 DEF Replied, SessionState
<1>4. QED BY <1>3, NothingKnown

(* A command that begins, or a session that dies, changes nothing.         *)
LEMMA BeginAlone ==
  ASSUME TypeOK, NEW s \in Session, Begin(s) \/ Crash(s)
  PROVE  UNCHANGED storeVars /\ Alone(sess'[s], files', active')
<1>1. UNCHANGED storeVars
  BY DEF Begin, Crash, PutScript, SetActive, DeactivateScript, DeleteScript, RenameScript, NoUpload
<1>2. ASSUME NEW r, sess' = [sess EXCEPT ![s] = r] PROVE sess'[s] = r
  BY <1>2 DEF TypeOK
<1>4. CASE PutScript(s)
  <2>1. PICK n \in Name \cup {NoName}, c \in Content, quoted \in BOOLEAN :
          LET r == [NewCommand("put", n, NoName) EXCEPT !.content = c, !.quoted = quoted]
          IN  \/ sess' = [sess EXCEPT ![s] = Replied(r, "NO")]
              \/ sess' = [sess EXCEPT ![s] = [r EXCEPT !.pc = "upload"]]
    BY <1>4, Zenon DEF PutScript
  <2>2. \/ sess'[s].pc = "idle"
        \/ sess'[s].pc = "upload" /\ ~sess'[s].implicit
    BY <1>2, <2>1 DEF NewCommand, Replied
  <2>3. QED BY <1>1, <2>2, NothingKnown
<1>5. CASE SetActive(s)
  <2>1. PICK n \in Name :
          \/ sess' = [sess EXCEPT ![s] = Replied(NewCommand("setactive", n, NoName), "NO")]
          \/ sess' = [sess EXCEPT ![s] = [NewCommand("setactive", n, NoName) EXCEPT
                                            !.pc = "isactive", !.open = OpenedAs(n)]]
    BY <1>5, Zenon DEF SetActive
  <2>2. sess'[s].pc \in {"idle", "isactive"}
    BY <1>2, <2>1 DEF NewCommand, Replied
  <2>3. QED BY <1>1, <2>2, NothingKnown
<1>6. CASE DeactivateScript(s)
  <2>1. sess'[s].pc = "rescue2"
    BY <1>2, <1>6 DEF DeactivateScript, NewCommand
  <2>2. QED BY <1>1, <2>1, NothingKnown
<1>7. CASE DeleteScript(s)
  <2>1. PICK n \in Name :
          \/ sess' = [sess EXCEPT ![s] = Replied(NewCommand("delete", n, NoName), "NO")]
          \/ sess' = [sess EXCEPT ![s] = [NewCommand("delete", n, NoName) EXCEPT
                                            !.pc = "delcheck", !.open = OpenedAs(n)]]
    BY <1>7, Zenon DEF DeleteScript
  <2>2. sess'[s].pc \in {"idle", "delcheck"}
    BY <1>2, <2>1 DEF NewCommand, Replied
  <2>3. QED BY <1>1, <2>2, NothingKnown
<1>8. CASE RenameScript(s)
  <2>1. PICK n, m \in Name :
          \/ sess' = [sess EXCEPT ![s] = Replied(NewCommand("rename", n, m), "NO")]
          \/ sess' = [sess EXCEPT ![s] = [NewCommand("rename", n, m) EXCEPT
                        !.pc = IF OpenedAs(n) = "own" THEN "link" ELSE "checknew",
                        !.open = OpenedAs(n)]]
    BY <1>8, Zenon DEF RenameScript
  <2>2. CASE sess' = [sess EXCEPT ![s] = Replied(NewCommand("rename", n, m), "NO")]
    <3>1. sess'[s].pc = "idle"
      BY <1>2, <2>2 DEF NewCommand, Replied
    <3>2. QED BY <1>1, <3>1, NothingKnown
  <2>3. CASE ~(sess' = [sess EXCEPT ![s] = Replied(NewCommand("rename", n, m), "NO")])
    <3>1. /\ sess'[s].pc = IF OpenedAs(n) = "own" THEN "link" ELSE "checknew"
          /\ sess'[s].open = OpenedAs(n)
      BY <1>2, <2>1, <2>3 DEF NewCommand
    <3>2. OpenedAs(n) \in {"own", "default"}
      BY DEF OpenedAs
    <3>3. QED BY <1>1, <3>1, <3>2 DEF Alone, Committing, Activating
  <2>4. QED BY <2>2, <2>3
<1>9. CASE Crash(s)
  <2>1. sess'[s].pc = "idle"
    BY <1>2, <1>9 DEF Crash, NewCommand
  <2>2. QED BY <1>1, <2>1, NothingKnown
<1>10. QED BY <1>4, <1>5, <1>6, <1>7, <1>8, <1>9 DEF Begin

(* What a step of a single session is to the abstract storage, and what    *)
(* the session knows after it.                                             *)
SoleStep(s) == [StoreNext]_storeVars /\ Alone(sess'[s], files', active')

(* An upload: the link that will_activate read is still the link when the  *)
(* script is put in place.                                                 *)
LEMMA UploadAlone ==
  ASSUME StorageInv, SoleInv, Readable, NEW s \in Session,
         \/ UploadDone(s) \/ UploadFailed(s) \/ QuotaCheck(s) \/ WillActivate(s)
         \/ IsActivatingDefault(s) \/ StatDefault(s) \/ StatDefaultError(s)
         \/ Move(s) \/ MoveFailed(s)
  PROVE  SoleStep(s)
<1> DEFINE r == sess[s]
<1>1. TypeOK /\ r \in SessionState /\ Sound(r, tmp[s]) /\ Alone(r, files, active)
  BY DEF StorageInv, SoleInv, TypeOK, SessionsSound
<1>2. ASSUME UNCHANGED storeVars, NEW reply, DropTmp(s, reply) \/ ReplyAndLog(s, reply, "stat")
      PROVE  SoleStep(s)
  BY <1>1, <1>2, ReplyAlone, LogAlone DEF SoleStep, DropTmp
<1>3. CASE UploadDone(s)
  <2>1. ~r.implicit /\ UNCHANGED storeVars /\ Goto(s, "uploaded")
    BY <1>1, <1>3 DEF UploadDone, At, Alone
  <2>2. sess'[s].pc = "uploaded" /\ ~sess'[s].implicit
    BY <1>1, <2>1, GotoFields
  <2>3. QED BY <2>1, <2>2, NothingKnown DEF SoleStep
<1>4. CASE UploadFailed(s) \/ MoveFailed(s)
  BY <1>2, <1>4 DEF UploadFailed, MoveFailed, Cancel
<1>5. CASE QuotaCheck(s)
  <2>1. CASE Cancel(s)
    BY <1>2, <2>1 DEF Cancel
  <2>2. CASE Goto(s, "willactivate") /\ UNCHANGED storeVars
    <3>1. ~r.implicit
      BY <1>1, <1>5 DEF QuotaCheck, At, Alone
    <3>2. sess'[s].pc = "willactivate" /\ ~sess'[s].implicit
      BY <1>1, <2>2, <3>1, GotoFields
    <3>3. QED BY <2>2, <3>2, NothingKnown DEF SoleStep
  <2>3. QED BY <1>5, <2>1, <2>2 DEF QuotaCheck
<1>6. CASE WillActivate(s)
  <2> DEFINE was == IF r.name = NoName THEN NoName ELSE ActiveName
  <2>0. IF Compiles(r, was) /\ r.name # NoName
        THEN sess' = [sess EXCEPT ![s].pc = "default", ![s].was = was]
        ELSE DropTmp(s, IF Compiles(r, was) THEN "OK" ELSE "NO")
    BY <1>6, TrueAnswers DEF WillActivate
  <2>1. CASE Compiles(r, was) /\ r.name # NoName
    <3>1. sess'[s] = [r EXCEPT !.pc = "default", !.was = was]
      BY <1>1, <2>0, <2>1 DEF TypeOK
    <3>2. /\ sess'[s].pc = "default" /\ sess'[s].was = was
          /\ sess'[s].name = r.name /\ sess'[s].content = r.content /\ sess'[s].implicit = r.implicit
      BY <1>1, <3>1 DEF SessionState
    <3>0. ~r.implicit
      BY <1>1, <1>6 DEF WillActivate, At, Alone
    <3>3. was = NameOf(active)
      BY <2>1 DEF ActiveName, NameOf
    <3>4. UNCHANGED storeVars
      BY <1>6 DEF WillActivate
    <3>5. r.name = NameOf(active) => r.content \in ReplaceValid
      BY <2>1, <3>3 DEF Compiles
    <3>6. QED BY <3>0, <3>2, <3>3, <3>4, <3>5 DEF SoleStep, storeVars, Alone, Committing, Activating
  <2>2. CASE ~(Compiles(r, was) /\ r.name # NoName)
    BY <1>2, <1>6, <2>0, <2>2 DEF WillActivate
  <2>3. QED BY <2>1, <2>2
<1>7. CASE IsActivatingDefault(s)
  <2>1. UNCHANGED storeVars /\ r.pc = "default"
    BY <1>7 DEF IsActivatingDefault, At
  <2>2. r.was = NameOf(active) /\ (r.name = NameOf(active) => r.content \in ReplaceValid)
    BY <1>1, <2>1 DEF Alone, Committing
  <2>3. (IF r.was = NoName THEN ActiveName ELSE r.was) = NameOf(active)
    BY <2>2 DEF ActiveName, NameOf
  <2>4. Goto(s, IF NameOf(active) = r.name /\ NameOf(active) = Default THEN "statdefault" ELSE "move")
    BY <1>7, <2>3, TrueAnswers DEF IsActivatingDefault
  <2>5. ~r.implicit
    BY <1>1, <2>1 DEF Alone
  <2>6. ASSUME NEW p \in {"statdefault", "move"}, Goto(s, p), p = "statdefault" => r.name = NameOf(active)
        PROVE  SoleStep(s)
    <3>1. /\ sess'[s].pc = p /\ sess'[s].was = r.was /\ sess'[s].name = r.name
          /\ sess'[s].content = r.content /\ sess'[s].implicit = r.implicit
      BY <1>1, <2>6, GotoFields
    <3>2. QED
      BY <2>1, <2>2, <2>5, <2>6, <3>1 DEF SoleStep, storeVars, Alone, Committing, Activating
  <2>7. QED BY <2>4, <2>6
<1>8. CASE StatDefault(s)
  <2>1. UNCHANGED storeVars /\ r.pc = "statdefault"
    BY <1>8 DEF StatDefault, At
  <2>2. sess'[s] = [r EXCEPT !.pc = "move", !.implicit = (r.name \notin Stored)]
    BY <1>1, <1>8 DEF StatDefault, TypeOK
  <2>3. /\ sess'[s].pc = "move" /\ sess'[s].was = r.was /\ sess'[s].name = r.name
        /\ sess'[s].content = r.content /\ (sess'[s].implicit <=> r.name \notin Stored)
    BY <1>1, <2>2 DEF SessionState
  <2>4. /\ r.was = NameOf(active) /\ r.name = NameOf(active) /\ r.content \in ReplaceValid
    BY <1>1, <2>1 DEF Alone, Committing
  <2>5. r.name \notin Stored => active \notin Name
    BY <2>4 DEF NameOf, SoleInv, ActiveResolves, ActiveExists
  <2>6. QED BY <2>1, <2>3, <2>4, <2>5 DEF SoleStep, storeVars, Alone, Committing, Activating
<1>9. CASE StatDefaultError(s)
  BY <1>2, <1>9 DEF StatDefaultError
<1>10. CASE Move(s)
  <2>1. /\ files' = [files EXCEPT ![r.name] = tmp[s]] /\ UNCHANGED active /\ r.pc = "move"
        /\ IF r.implicit THEN Goto(s, "open") ELSE Reply(s, "OK")
    BY <1>10 DEF Move, At
  <2>2. tmp[s] = r.content /\ r.name \in Name /\ r.content \in UploadValid /\ r.cmd = "put"
    BY <1>1, <2>1 DEF Sound, Uploading, Committing
  <2>3. r.name = NameOf(active) => r.content \in ReplaceValid
    BY <1>1, <2>1 DEF Alone, Committing
  <2>4. Store(r.name, r.content)
    BY <2>1, <2>2, <2>3 DEF Store, NameOf
  <2>5. r.content \in Content
    BY <2>2, StoreAssumption
  <2>6. StoreNext
    BY <2>2, <2>4, <2>5 DEF StoreNext
  <2>7. CASE Reply(s, "OK")
    BY <1>1, <2>6, <2>7, ReplyAlone DEF SoleStep
  <2>8. CASE r.implicit /\ Goto(s, "open")
    <3>1. r.name = NameOf(active) /\ active \notin Name
      BY <1>1, <2>1, <2>8 DEF Alone
    <3>2. files'[r.name] \in ReplaceValid
      BY <1>1, <2>1, <2>2, <2>3, <3>1 DEF TypeOK
    <3>3. /\ sess'[s].pc = "open" /\ sess'[s].cmd = "put" /\ sess'[s].name = r.name
      BY <1>1, <2>2, <2>8, GotoFields
    <3>4. QED
      BY <2>1, <2>6, <3>1, <3>2, <3>3 DEF SoleStep, Alone, TargetOf, Committing, Activating
  <2>9. QED BY <2>1, <2>7, <2>8
<1>11. QED BY <1>3, <1>4, <1>5, <1>6, <1>7, <1>8, <1>9, <1>10

(* What a session has to know in the middle of an activation.              *)
LEMMA ActivatingAlone ==
  ASSUME NEW r, NEW f, NEW a, r.pc \in Activating,
         r.cmd # "setactive" => a \notin Name,
         r.pc \in {"open", "rollback", "deactivate", "dropnew"} => r.cmd # "setactive",
         r.pc \in {"open", "lstat"} => f[TargetOf(r)] \in ReplaceValid \cup {NoFile},
         r.pc \in {"rescue", "symlink", "replace"} => f[TargetOf(r)] \in ReplaceValid
  PROVE  Alone(r, f, a)
BY DEF Alone, Committing, Activating

(* The same of a session that goes on to label p.                          *)
LEMMA GotoActivating ==
  ASSUME TypeOK, NEW s \in Session, NEW p \in Activating, Goto(s, p),
         sess[s].cmd # "setactive" => active' \notin Name,
         p \in {"open", "rollback", "deactivate", "dropnew"} => sess[s].cmd # "setactive",
         p \in {"open", "lstat"} => files'[TargetOf(sess[s])] \in ReplaceValid \cup {NoFile},
         p \in {"rescue", "symlink", "replace"} => files'[TargetOf(sess[s])] \in ReplaceValid
  PROVE  Alone(sess'[s], files', active')
<1>1. /\ sess'[s].pc = p /\ sess'[s].cmd = sess[s].cmd
      /\ TargetOf(sess'[s]) = TargetOf(sess[s])
  BY GotoFields
<1>2. QED BY <1>1, ActivatingAlone

(* Activation and deactivation: what was compiled is what becomes active.  *)
LEMMA ActivationAlone ==
  ASSUME StorageInv, SoleInv, Readable, OrigContent \in ReplaceValid, NEW s \in Session,
         \/ OpenNew(s) \/ SetActiveCheck(s) \/ SetActiveCompile(s) \/ ActivateStat(s)
         \/ ActivateRescue(s) \/ ActivateLink(s) \/ ActivateReplace(s) \/ ActivateError(s)
         \/ DeactivateRescue(s) \/ DeactivateUnlink(s) \/ DeactivateError(s)
  PROVE  SoleStep(s)
<1> DEFINE r == sess[s]
           n == TargetOf(r)
<1>1. TypeOK /\ r \in SessionState /\ Sound(r, tmp[s]) /\ Alone(r, files, active)
  BY DEF StorageInv, SoleInv, TypeOK, SessionsSound
<1>2. ASSUME [StoreNext]_storeVars, NEW reply, Reply(s, reply) PROVE SoleStep(s)
  BY <1>1, <1>2, ReplyAlone DEF SoleStep
<1>3. ASSUME [StoreNext]_storeVars, NEW p \in {"rescue2", "unlinkactive", "compile"}, Goto(s, p)
      PROVE  SoleStep(s)
  <2>1. sess'[s].pc = p
    BY <1>1, <1>3, GotoFields
  <2>2. Alone(sess'[s], files', active')
    BY <1>3, <2>1, NothingKnown
  <2>3. QED BY <1>3, <2>2 DEF SoleStep
<1>4. Target(s) = n
  BY DEF Target, TargetOf
<1>5. ASSUME UNCHANGED storeVars, r.pc \in {"lstat", "rescue", "symlink", "replace"}, ActivateFailed(s)
      PROVE  SoleStep(s)
  <2>1. CASE r.cmd = "setactive"
    BY <1>2, <1>5, <2>1 DEF ActivateFailed
  <2>2. CASE r.cmd # "setactive"
    <3>1. active \notin Name
      BY <1>1, <1>5, <2>2 DEF Alone, Activating
    <3>2. Goto(s, "rollback")
      BY <1>5, <2>2 DEF ActivateFailed
    <3>3. Alone(sess'[s], files', active')
      BY <1>1, <1>5, <2>2, <3>1, <3>2, GotoActivating DEF Activating, storeVars
    <3>4. QED BY <1>5, <3>3 DEF SoleStep
  <2>3. QED BY <2>1, <2>2
<1>6. CASE OpenNew(s)
  <2>1. CASE Reply(s, "OK")
    BY <1>2, <1>6, <2>1 DEF OpenNew
  <2>2. CASE ~Reply(s, "OK")
    <3> DEFINE o == OpenedAs(n)
               p == IF o = "own" THEN "lstat" ELSE "rescue2"
    <3>1. sess'[s] = [r EXCEPT !.open = o, !.pc = p] /\ UNCHANGED storeVars /\ r.pc = "open"
      BY <1>1, <1>4, <1>6, <2>2 DEF OpenNew, At, TypeOK
    <3>2. sess'[s].pc = p /\ sess'[s].cmd = r.cmd /\ TargetOf(sess'[s]) = n
      BY <1>1, <3>1 DEF SessionState, TargetOf
    <3>3. r.cmd # "setactive" /\ active \notin Name /\ files[n] \in ReplaceValid \cup {NoFile}
      BY <1>1, <3>1 DEF Alone, Activating
    <3>4. CASE p = "lstat"
      <4> HIDE DEF n, p
      <4>1. sess'[s].pc \in Activating
        BY <3>2, <3>4 DEF Activating
      <4>2. files' = files /\ active' = active
        BY <3>1 DEF storeVars
      <4>3. Alone(sess'[s], files', active')
        BY <3>2, <3>3, <3>4, <4>1, <4>2, ActivatingAlone
      <4>4. QED BY <3>1, <4>3 DEF SoleStep
    <3>5. CASE p = "rescue2"
      <4> HIDE DEF n, p
      <4>1. Alone(sess'[s], files', active')
        BY <3>2, <3>5, NothingKnown
      <4>2. QED BY <3>1, <4>1 DEF SoleStep
    <3>6. QED BY <3>4, <3>5
  <2>3. QED BY <2>1, <2>2
<1>7. ASSUME r.pc \in {"isactive", "compile"}, UNCHANGED storeVars, Goto(s, AfterCompile(s)),
             r.open = "own" => files[r.name] \in ReplaceValid \cup {NoFile}
      PROVE  SoleStep(s)
  <2>1. r.cmd = "setactive" /\ n = r.name
    BY <1>1, <1>7 DEF Sound, TargetOf
  <2>2. CASE r.open = "own"
    <3>1. Goto(s, "lstat") /\ files' = files
      BY <1>7, <2>2 DEF AfterCompile, storeVars
    <3>2. Alone(sess'[s], files', active')
      BY <1>1, <1>7, <2>1, <2>2, <3>1, GotoActivating DEF Activating
    <3>3. QED BY <1>7, <3>2 DEF SoleStep
  <2>3. CASE r.open # "own"
    BY <1>3, <1>7, <2>3 DEF AfterCompile
  <2>4. QED BY <2>2, <2>3
<1>8. CASE SetActiveCheck(s)
  <2>1. r.pc = "isactive" /\ UNCHANGED storeVars /\ r.name \in Name
    BY <1>1, <1>8 DEF SetActiveCheck, At, Sound
  <2>2. CASE IsActive(s)
    <3>1. r.open = "own" => files[r.name] \in ReplaceValid \cup {NoFile}
      BY <2>1, <2>2 DEF IsActive, SoleInv, ActiveResolves, ActiveCompiles, Stored
    <3>2. QED BY <1>7, <1>8, <2>1, <2>2, <3>1, TrueAnswers DEF SetActiveCheck
  <2>3. CASE ~IsActive(s)
    BY <1>3, <1>8, <2>1, <2>3, TrueAnswers DEF SetActiveCheck
  <2>4. QED BY <2>2, <2>3
<1>9. CASE SetActiveCompile(s)
  <2>1. r.pc = "compile" /\ UNCHANGED storeVars
    BY <1>9 DEF SetActiveCompile, At
  <2>2. CASE Reply(s, "NO")
    BY <1>2, <2>1, <2>2
  <2>3. CASE ~Reply(s, "NO")
    <3>1. /\ Goto(s, AfterCompile(s))
          /\ r.open = "own" => files[r.name] \in ActivateValid
      BY <1>9, <2>3 DEF SetActiveCompile
    <3>2. QED BY <1>7, <2>1, <3>1, StoreAssumption
  <2>4. QED BY <2>2, <2>3
<1>10. CASE ActivateStat(s)
  <2>1. r.pc = "lstat" /\ UNCHANGED storeVars
    BY <1>10 DEF ActivateStat, At
  <2>2. CASE n \in Stored
    <3>1. Goto(s, "rescue") /\ files' = files /\ active' = active
      BY <1>4, <1>10, <2>1, <2>2 DEF ActivateStat, storeVars
    <3>2. files[n] \in ReplaceValid /\ (r.cmd # "setactive" => active \notin Name)
      BY <1>1, <2>1, <2>2 DEF Alone, Activating, Stored
    <3>3. Alone(sess'[s], files', active')
      <4> HIDE DEF n
      <4>1. QED BY <1>1, <3>1, <3>2, GotoActivating DEF Activating, n
    <3>4. QED BY <2>1, <3>3 DEF SoleStep
  <2>3. CASE n \notin Stored
    BY <1>4, <1>5, <1>10, <2>1, <2>3 DEF ActivateStat
  <2>4. QED BY <2>2, <2>3
<1>11. CASE ActivateRescue(s)
  <2>1. r.pc = "rescue" /\ Goto(s, "symlink") /\ RescueRegular
    BY <1>11 DEF ActivateRescue, At
  <2>2. /\ files[n] \in ReplaceValid /\ (r.cmd # "setactive" => active \notin Name) /\ n \in Name
    BY <1>1, <2>1 DEF Alone, Activating, Sound
  <2>3. [StoreNext]_storeVars /\ active' = active
    BY <2>1 DEF RescueRegular, Rescue, StoreNext, storeVars
  <2>4. files'[n] \in ReplaceValid
    <3> HIDE DEF n
    <3>1. files' \in {files, [files EXCEPT ![OrigName] = OrigContent]}
      BY <2>1 DEF RescueRegular, Rescue, storeVars
    <3>2. QED BY <1>1, <2>2, <3>1 DEF TypeOK
  <2>5. Alone(sess'[s], files', active')
    BY <1>1, <2>1, <2>2, <2>3, <2>4, GotoActivating DEF Activating
  <2>6. QED BY <2>3, <2>5 DEF SoleStep
<1>12. ASSUME r.pc \in {"symlink", "replace"}, active' = n, files' = files
       PROVE  StoreNext
  <2>1. n \in Name /\ files[n] \in ReplaceValid
    BY <1>1, <1>12 DEF Sound, Alone, Activating
  <2>2. n \in Stored
    BY <2>1, StoreAssumption DEF Stored
  <2>3. Activate(n)
    BY <1>12, <2>1, <2>2 DEF Activate
  <2>4. QED BY <2>1, <2>3 DEF StoreNext
<1>13. CASE ActivateLink(s)
  <2>1. r.pc = "symlink" /\ files' = files
    BY <1>13 DEF ActivateLink, At
  <2>2. CASE active = NoLink
    BY <1>2, <1>4, <1>12, <1>13, <2>1, <2>2 DEF ActivateLink
  <2>3. CASE active # NoLink
    <3>1. Goto(s, "replace") /\ active' = active
      BY <1>13, <2>3 DEF ActivateLink
    <3>2. files[n] \in ReplaceValid /\ (r.cmd # "setactive" => active \notin Name)
      BY <1>1, <2>1 DEF Alone, Activating
    <3>3. Alone(sess'[s], files', active')
      BY <1>1, <2>1, <3>1, <3>2, GotoActivating DEF Activating
    <3>4. QED BY <2>1, <3>1, <3>3 DEF SoleStep, storeVars
  <2>4. QED BY <2>2, <2>3
<1>14. CASE ActivateReplace(s)
  BY <1>2, <1>4, <1>12, <1>14 DEF ActivateReplace, At
<1>15. CASE ActivateError(s)
  BY <1>5, <1>15 DEF ActivateError
<1>16. CASE DeactivateRescue(s)
  <2>1. [StoreNext]_storeVars
    BY <1>16 DEF DeactivateRescue, RescueRegular, StoreNext
  <2>2. QED BY <1>3, <1>16, <2>1 DEF DeactivateRescue
<1>17. CASE DeactivateUnlink(s)
  <2>1. StoreNext
    BY <1>17 DEF DeactivateUnlink, StoreNext, Deactivate
  <2>2. QED BY <1>2, <1>17, <2>1 DEF DeactivateUnlink
<1>18. CASE DeactivateError(s)
  BY <1>2, <1>18 DEF DeactivateError
<1>19. QED BY <1>6, <1>8, <1>9, <1>10, <1>11, <1>13, <1>14, <1>15, <1>16, <1>17, <1>18

(* Deletion, rollback and renaming: the active script is never removed.    *)
LEMMA RemovalAlone ==
  ASSUME StorageInv, SoleInv, Readable, NEW s \in Session,
         \/ DeleteCheck(s) \/ DeleteUnlink(s)
         \/ Rollback(s) \/ RollbackDeactivate(s) \/ RollbackUnlink(s)
         \/ RenameLink(s) \/ RenameCheck(s) \/ RenameActivate(s) \/ RenameActivateError(s)
         \/ RenameUnlinkOld(s) \/ RenameUnlinkNew(s)
         \/ RenameDefaultCheck(s) \/ RenameDefaultCopy(s) \/ RenameDefaultActive(s)
  PROVE  SoleStep(s)
<1> DEFINE r == sess[s]
           n == TargetOf(r)
<1>1. TypeOK /\ r \in SessionState /\ Sound(r, tmp[s]) /\ Alone(r, files, active)
  BY DEF StorageInv, SoleInv, TypeOK, SessionsSound
<1>2. ASSUME [StoreNext]_storeVars, NEW reply, Reply(s, reply) PROVE SoleStep(s)
  BY <1>1, <1>2, ReplyAlone DEF SoleStep
<1>3. Target(s) = n
  BY DEF Target, TargetOf
<1>4. ASSUME NEW m \in Name, m # active, active' = active,
             files' \in {files, [files EXCEPT ![m] = NoFile]}
      PROVE  [StoreNext]_storeVars
  <2>1. CASE files' = files
    BY <1>4, <2>1 DEF storeVars
  <2>2. CASE files' = [files EXCEPT ![m] = NoFile]
    BY <1>4, <2>2 DEF StoreNext, Remove
  <2>3. QED BY <1>4, <2>1, <2>2
<1>5. CASE DeleteCheck(s)
  <2>1. CASE \E reply \in {"OK", "NO", "died"} : Reply(s, reply)
    BY <1>2, <1>5, <2>1 DEF DeleteCheck
  <2>2. CASE Goto(s, "delete") /\ r.open # "default" /\ ~IsActive(s)
    <3>1. active # r.name
      BY <1>1, <2>2 DEF IsActive, SessionState
    <3>2. sess'[s].pc = "delete" /\ sess'[s].name = r.name
      BY <1>1, <2>2, GotoFields
    <3>3. UNCHANGED storeVars
      BY <1>5 DEF DeleteCheck
    <3>4. QED BY <3>1, <3>2, <3>3 DEF SoleStep, storeVars, Alone, Committing, Activating
  <2>3. QED BY <1>5, <2>1, <2>2, TrueAnswers DEF DeleteCheck
<1>6. CASE DeleteUnlink(s)
  <2>1. r.name \in Name /\ r.name # active
    BY <1>1, <1>6 DEF DeleteUnlink, At, Alone, Sound, Deleting
  <2>2. [StoreNext]_storeVars
    BY <1>4, <1>6, <2>1 DEF DeleteUnlink
  <2>3. QED BY <1>2, <1>6, <2>2 DEF DeleteUnlink
<1>7. ASSUME r.pc \in {"rollback", "deactivate", "dropnew"}
      PROVE  n \in Name /\ active \notin Name /\ r.cmd # "setactive"
  BY <1>1, <1>7 DEF Sound, Alone, Activating
<1>8. CASE Rollback(s)
  <2>1. PICK p \in {"deactivate", "dropnew"} : Goto(s, p)
    BY <1>8 DEF Rollback
  <2>2. active' = active /\ UNCHANGED storeVars /\ r.pc = "rollback"
    BY <1>8 DEF Rollback, storeVars, At
  <2>3. active \notin Name /\ r.cmd # "setactive"
    BY <1>7, <2>2
  <2>4. Alone(sess'[s], files', active')
    BY <1>1, <2>1, <2>2, <2>3, GotoActivating DEF Activating
  <2>5. QED BY <2>2, <2>4 DEF SoleStep
<1>9. CASE RollbackDeactivate(s)
  <2>1. /\ active' \in {active, NoLink} /\ files' = files /\ Goto(s, "dropnew")
        /\ r.pc = "deactivate"
    BY <1>9 DEF RollbackDeactivate, At
  <2>2. [StoreNext]_storeVars
    BY <2>1 DEF StoreNext, Deactivate, storeVars
  <2>3. active' \notin Name /\ r.cmd # "setactive"
    BY <1>7, <2>1, StoreAssumption
  <2>4. Alone(sess'[s], files', active')
    BY <1>1, <2>1, <2>3, GotoActivating DEF Activating
  <2>5. QED BY <2>2, <2>4 DEF SoleStep
<1>10. CASE RollbackUnlink(s)
  <2>1. n \in Name /\ n # active
    BY <1>7, <1>10 DEF RollbackUnlink, At
  <2>2. [StoreNext]_storeVars
    BY <1>3, <1>4, <1>10, <2>1 DEF RollbackUnlink
  <2>3. QED BY <1>2, <1>10, <2>2 DEF RollbackUnlink
<1>11. r.pc \in Renaming => r.cmd = "rename" /\ r.name \in Name /\ r.to \in Name /\ n = r.to
  BY <1>1 DEF Sound, TargetOf
<1>12. CASE RenameLink(s)
  <2>1. CASE Reply(s, "NO") /\ UNCHANGED storeVars
    BY <1>2, <2>1
  <2>2. CASE /\ r.name \in Stored /\ r.to \notin Stored /\ active' = active
             /\ files' = [files EXCEPT ![r.to] = files[r.name]] /\ Goto(s, "rencheck")
    <3>1. r.name \in Name /\ r.to \in Name /\ r.open = "own"
      BY <1>1, <1>11, <1>12 DEF RenameLink, At, Renaming, Alone
    <3>2. StoreNext
      BY <2>2, <3>1 DEF StoreNext, Link
    <3>3. r.to # active /\ r.to # r.name
      BY <2>2, <3>1 DEF SoleInv, ActiveResolves, ActiveExists
    <3>4. files'[r.to] = files'[r.name] /\ files'[r.name] # NoFile
      BY <1>1, <2>2, <3>1, <3>3 DEF TypeOK, Stored
    <3>5. /\ sess'[s].pc = "rencheck" /\ sess'[s].name = r.name /\ sess'[s].to = r.to
          /\ sess'[s].open = "own"
      BY <1>1, <2>2, <3>1, GotoFields
    <3>6. Alone(sess'[s], files', active')
      BY <2>2, <3>3, <3>4, <3>5 DEF Alone, Committing, Activating
    <3>7. QED BY <3>2, <3>6 DEF SoleStep
  <2>3. QED BY <1>12, <2>1, <2>2 DEF RenameLink, storeVars
<1>13. CASE RenameCheck(s)
  <2>1. r.pc = "rencheck" /\ UNCHANGED storeVars
    BY <1>13 DEF RenameCheck, At
  <2>2. /\ files[r.to] = files[r.name] /\ files[r.name] # NoFile /\ r.to # r.name /\ r.to # active
        /\ r.open = "own"
    BY <1>1, <2>1 DEF Alone
  <2>3. IsActive(s) <=> active = r.name
    BY <2>2 DEF IsActive
  <2>4. PICK p \in {"renactivate", "unlinkold"} :
          Goto(s, p) /\ (p = "renactivate" <=> active = r.name)
    BY <1>13, <2>3, TrueAnswers DEF RenameCheck
  <2>5. sess'[s].pc = p /\ sess'[s].name = r.name /\ sess'[s].to = r.to
    BY <1>1, <2>4, GotoFields
  <2>6. QED
    BY <2>1, <2>2, <2>4, <2>5 DEF SoleStep, storeVars, Alone, Committing, Activating
<1>14. ASSUME r.pc = "renactivate"
       PROVE  /\ files[r.to] = files[r.name] /\ files[r.name] # NoFile /\ r.to # r.name
              /\ active = r.name /\ r.name \in Name /\ r.to \in Name
  BY <1>1, <1>11, <1>14 DEF Alone, Renaming
<1>15. CASE RenameActivate(s)
  <2>1. /\ r.pc = "renactivate" /\ active' = r.to /\ files' = files /\ Goto(s, "unlinkold")
    BY <1>15 DEF RenameActivate, At
  <2>2. r.to \in Stored /\ files[r.to] \in ReplaceValid
    BY <1>14, <2>1 DEF Stored, SoleInv, ActiveResolves, ActiveCompiles
  <2>3. StoreNext
    BY <1>14, <2>1, <2>2 DEF StoreNext, Activate
  <2>4. sess'[s].pc = "unlinkold" /\ sess'[s].name = r.name
    BY <1>1, <2>1, GotoFields
  <2>5. Alone(sess'[s], files', active')
    BY <1>14, <2>1, <2>4 DEF Alone, Committing, Activating
  <2>6. QED BY <2>3, <2>5 DEF SoleStep
<1>16. CASE RenameActivateError(s)
  <2>1. r.pc = "renactivate" /\ UNCHANGED storeVars /\ Goto(s, "unlinknew")
    BY <1>16 DEF RenameActivateError, At
  <2>2. sess'[s].pc = "unlinknew" /\ sess'[s].to = r.to
    BY <1>1, <2>1, GotoFields
  <2>3. QED
    BY <1>14, <2>1, <2>2 DEF SoleStep, storeVars, Alone, Committing, Activating
<1>17. CASE RenameUnlinkOld(s)
  <2>1. r.name \in Name /\ r.name # active
    BY <1>1, <1>11, <1>17 DEF RenameUnlinkOld, At, Alone, Renaming
  <2>2. [StoreNext]_storeVars
    BY <1>4, <1>17, <2>1 DEF RenameUnlinkOld
  <2>3. QED BY <1>1, <1>2, <1>17, <2>2, LogAlone DEF RenameUnlinkOld, SoleStep
<1>18. CASE RenameUnlinkNew(s)
  <2>1. r.to \in Name /\ r.to # active
    BY <1>1, <1>11, <1>18 DEF RenameUnlinkNew, At, Alone, Renaming
  <2>2. [StoreNext]_storeVars
    BY <1>4, <1>18, <2>1 DEF RenameUnlinkNew
  <2>3. QED BY <1>2, <1>18, <2>2 DEF RenameUnlinkNew
<1>19. ASSUME r.pc \in {"checknew", "copy", "copied"}
       PROVE  r.open = "default" /\ r.cmd = "rename" /\ r.to \in Name
  BY <1>1, <1>11, <1>19 DEF Alone, Renaming
<1>20. CASE RenameDefaultCheck(s)
  <2>1. r.pc = "checknew" /\ UNCHANGED storeVars
    BY <1>20 DEF RenameDefaultCheck, At
  <2>2. CASE Opens(r.to)
    BY <1>2, <1>20, <2>1, <2>2 DEF RenameDefaultCheck
  <2>3. CASE ~Opens(r.to)
    <3>1. Goto(s, "copy")
      BY <1>20, <2>3 DEF RenameDefaultCheck
    <3>2. files[r.to] = NoFile
      BY <1>19, <2>1, <2>3 DEF Opens, Stored
    <3>3. sess'[s].pc = "copy" /\ sess'[s].open = r.open /\ sess'[s].to = r.to
      BY <1>1, <3>1, GotoFields
    <3>4. QED
      BY <1>19, <2>1, <3>2, <3>3 DEF SoleStep, storeVars, Alone, Committing, Activating
  <2>4. QED BY <2>2, <2>3
<1>21. CASE RenameDefaultCopy(s)
  <2>0. CASE Reply(s, "NO") /\ UNCHANGED files
    BY <1>2, <1>21, <2>0 DEF RenameDefaultCopy, storeVars
  <2>1. SUFFICES ASSUME /\ r.pc = "copy" /\ active' = active
                        /\ \/ Goto(s, "copied")
                           \/ sess' = [sess EXCEPT ![s].pc = "copied", ![s].failed = "rename"]
                        /\ files' = files \/ files' = [files EXCEPT ![r.to] = DefaultContent]
                 PROVE  SoleStep(s)
    BY <1>2, <1>21, <2>0 DEF RenameDefaultCopy, At, storeVars
  <2>2. files[r.to] = NoFile
    BY <1>1, <2>1 DEF Alone
  <2>3. r.to # active
    BY <1>19, <2>1, <2>2 DEF SoleInv, ActiveResolves, ActiveExists, Stored
  <2>4. DefaultContent \in UploadValid /\ DefaultContent \in Content
    BY StoreAssumption
  <2>5. [StoreNext]_storeVars
    <3>1. CASE files' = files
      BY <2>1, <3>1 DEF storeVars
    <3>2. CASE files' = [files EXCEPT ![r.to] = DefaultContent]
      <4>1. Store(r.to, DefaultContent)
        BY <2>1, <2>3, <2>4, <3>2 DEF Store
      <4>2. QED BY <1>19, <2>1, <2>4, <4>1 DEF StoreNext
    <3>3. QED BY <2>1, <3>1, <3>2
  <2>6. files'[r.to] \in {NoFile, DefaultContent}
    BY <1>1, <1>19, <2>1, <2>2 DEF TypeOK
  <2>7. sess'[s].pc = "copied" /\ sess'[s].open = r.open /\ sess'[s].to = r.to
    <3>1. CASE Goto(s, "copied")
      BY <1>1, <3>1, GotoFields
    <3>2. CASE sess' = [sess EXCEPT ![s].pc = "copied", ![s].failed = "rename"]
      <4>1. sess'[s] = [r EXCEPT !.pc = "copied", !.failed = "rename"]
        BY <1>1, <3>2 DEF TypeOK
      <4>2. QED BY <1>1, <4>1 DEF SessionState
    <3>3. QED BY <2>1, <3>1, <3>2
  <2>8. Alone(sess'[s], files', active')
    BY <1>19, <2>1, <2>6, <2>7 DEF Alone, Committing, Activating
  <2>9. QED BY <2>5, <2>8 DEF SoleStep
<1>22. CASE RenameDefaultActive(s)
  <2>1. r.pc = "copied" /\ UNCHANGED storeVars
    BY <1>22 DEF RenameDefaultActive, At
  <2>2. CASE IsActive(s)
    <3>1. Goto(s, "open") /\ active' = active /\ files' = files
      BY <1>22, <2>1, <2>2, TrueAnswers DEF RenameDefaultActive, storeVars
    <3>2. active \notin Name
      BY <1>19, <2>1, <2>2 DEF IsActive
    <3>3. files[n] \in ReplaceValid \cup {NoFile} /\ r.cmd # "setactive"
      <4>1. n = r.to /\ r.cmd = "rename"
        BY <1>11, <2>1 DEF Renaming
      <4>2. files[r.to] \in {NoFile, DefaultContent}
        BY <1>1, <2>1 DEF Alone
      <4> HIDE DEF n
      <4>3. QED BY <4>1, <4>2, StoreAssumption
    <3>4. Alone(sess'[s], files', active')
      BY <1>1, <3>1, <3>2, <3>3, GotoActivating DEF Activating
    <3>5. QED BY <2>1, <3>4 DEF SoleStep
  <2>3. CASE ~IsActive(s)
    BY <1>2, <1>22, <2>1, <2>3, TrueAnswers DEF RenameDefaultActive
  <2>4. QED BY <2>2, <2>3
<1>23. QED
  BY <1>5, <1>6, <1>8, <1>9, <1>10, <1>12, <1>13, <1>15, <1>16, <1>17, <1>18, <1>20, <1>21, <1>22

(* Every step of a single session is a step of the abstract storage, and   *)
(* the session knows what it has to know after it.                         *)
LEMMA SoleInvNext ==
  ASSUME OneSession, Readable, OrigContent \in ReplaceValid, StorageInv, SoleInv, [Next]_vars
  PROVE  [StoreNext]_storeVars /\ SoleInv'
<1>1. CASE UNCHANGED vars
  BY <1>1 DEF vars, storeVars, SoleInv, ActiveResolves, ActiveExists, ActiveCompiles, Stored
<1>2. ASSUME NEW s \in Session, Begin(s) \/ Step(s) \/ Crash(s)
      PROVE  [StoreNext]_storeVars /\ SoleInv'
  <2>1. TypeOK
    BY DEF StorageInv
  <2>2. SoleStep(s)
    <3>1. CASE Begin(s) \/ Crash(s)
      BY <2>1, <3>1, BeginAlone DEF SoleStep
    <3>2. CASE Step(s)
      BY <3>2, UploadAlone, ActivationAlone, RemovalAlone DEF Step
    <3>3. QED BY <1>2, <3>1, <3>2
  <2>3. [StoreNext]_storeVars
    BY <2>2 DEF SoleStep
  <2>4. ActiveResolves'
    BY <2>1, <2>3, StoreNextResolves DEF SoleInv, TypeOK
  <2>5. \A t \in Session : Alone(sess[t], files, active)'
    BY <2>2 DEF SoleStep, OneSession
  <2>6. QED BY <2>3, <2>4, <2>5 DEF SoleInv
<1>3. QED BY <1>1, <1>2 DEF Next

(* The storage starts without scripts, as the abstract one does.           *)
LEMMA SoleInvInit == Init => SoleInv
<1>1. SUFFICES ASSUME Init PROVE SoleInv
  OBVIOUS
<1>2. ActiveResolves
  BY <1>1, StoreAssumption
     DEF Init, StoreInit, ActiveResolves, ActiveExists, ActiveCompiles, Stored
<1>3. ASSUME NEW s \in Session PROVE Alone(sess[s], files, active)
  <2>1. sess[s].pc = "idle"
    BY <1>1 DEF Init, NewCommand
  <2>2. QED BY <2>1, NothingKnown
<1>4. QED BY <1>2, <1>3 DEF SoleInv

(* One session at a time works on the storage, its link can be read, and   *)
(* the regular file that an old installation left may become active.       *)
Exclusive == OneSession /\ Readable /\ OrigContent \in ReplaceValid

(* With one session at a time, whichever other system call fails and       *)
(* wherever the session dies, the active link names a script that exists and that   *)
(* compiled as the active one.                                             *)
THEOREM ActiveScriptRuns == Exclusive => (Spec => []ActiveResolves)
<1> SUFFICES ASSUME Exclusive PROVE Spec => []ActiveResolves
  OBVIOUS
<1>1. StorageInv /\ SoleInv /\ [Next]_vars => (StorageInv /\ SoleInv)'
  BY StorageInvNext, SoleInvNext DEF Exclusive
<1>2. SoleInv => ActiveResolves
  BY DEF SoleInv
<1>3. QED BY <1>1, <1>2, StorageInvInit, SoleInvInit, PTL DEF Spec

(* With one session at a time the file storage implements ScriptStore:     *)
(* each system call is invisible or is one whole change of the abstract    *)
(* storage, so that a session that dies in between leaves a state in which *)
(* the abstract storage could be (a script may have two names then).       *)
THEOREM ImplementsStore == Exclusive => (Spec => StoreSpec)
<1> SUFFICES ASSUME Exclusive PROVE Spec => StoreSpec
  OBVIOUS
<1>1. StorageInv /\ SoleInv /\ [Next]_vars =>
        (StorageInv /\ SoleInv)' /\ [StoreNext]_storeVars
  BY StorageInvNext, SoleInvNext DEF Exclusive
<1>2. Init => StoreInit
  BY DEF Init
<1>3. QED BY <1>1, <1>2, StorageInvInit, SoleInvInit, PTL DEF Spec, StoreSpec

-----------------------------------------------------------------------------
(* What OK means, with one session at a time *)

(* The scripts among the files f.                                          *)
StoredIn(f) == {n \in Name : f[n] # NoFile}

(* Done of a session with record r, for the files f and the link a.        *)
Carried(r, f, a) ==
  /\ r.cmd = "put" /\ r.name # NoName => f[r.name] = r.content
  /\ r.cmd = "setactive" => a = IF r.open = "own" THEN r.name ELSE NoLink
  /\ r.cmd = "deactivate" => a = NoLink
  /\ r.cmd = "delete" => r.name \notin StoredIn(f)
  /\ r.cmd = "rename" =>
       /\ r.to \in StoredIn(f) \/ LostCopy(r)
       /\ \/ r.name \notin StoredIn(f)
          \/ r.failed = "unlink" /\ f[r.name] = f[r.to]

(* There is room for one more script, or for another content of script n.  *)
HasPlace(n, f) == Cardinality(StoredIn(f) \ {n}) + 1 <= MaxScripts

Placing == {"open", "lstat", "rescue", "symlink", "replace"}

(* What a session keeps true so that its OK will be true: the room that    *)
(* the quota check found, the script that was put in place, the names that *)
(* a rename works with.                                                    *)
Promise(r, f, a) ==
  /\ r.pc = "idle" /\ r.reply = "OK" => Carried(r, f, a)
  /\ r.pc \in {"upload", "uploaded"} /\ ~r.quoted /\ r.name # NoName => HasPlace(r.name, f)
  /\ r.pc \in {"willactivate", "default", "statdefault", "move"} /\ r.name # NoName =>
       HasPlace(r.name, f)
  /\ r.pc = "statdefault" => r.name = Default
  /\ r.pc = "move" /\ r.implicit => r.name = Default
  /\ r.pc \in Placing => r.cmd \in {"put", "setactive", "rename"}
  /\ r.pc \in Placing /\ r.cmd = "put" =>
       r.name = Default /\ f[r.name] = r.content /\ r.content # NoFile
  /\ r.pc \in Placing /\ r.cmd = "setactive" => r.open = "own"
  /\ r.pc \in Placing /\ r.cmd = "rename" =>
       r.name = Default /\ r.name \notin StoredIn(f) /\ r.to # Default
  /\ r.pc = "open" /\ r.cmd = "rename" => r.open = "default"
  /\ r.pc \in {"open", "copied"} /\ r.cmd = "rename" =>
       r.to \in StoredIn(f) \/ r.failed = "rename"
  /\ r.pc \in {"rescue2", "unlinkactive"} =>
       r.cmd = "deactivate" \/ (r.cmd = "setactive" /\ r.open = "default")
  /\ r.pc \in Deleting => r.cmd = "delete"
  /\ r.pc = "delcheck" /\ r.open = "default" => r.name \notin StoredIn(f)
  /\ r.pc = "unlinkold" => f[r.to] = f[r.name] /\ f[r.name] # NoFile /\ r.to # r.name
  /\ r.pc \in {"checknew", "copy", "copied"} => r.name = Default /\ r.name \notin StoredIn(f)
  /\ r.pc \in {"copy", "copied"} => r.to # Default

OkInv == IsFiniteSet(Stored) /\ \A s \in Session : Promise(sess[s], files, active)

(* The rescued file does not bear the name of the default script.          *)
OrigApart == OrigName # Default

(* They are the same for the files and the link of the state.              *)
LEMMA CarriedIsDone ==
  ASSUME NEW r \in SessionState, Carried(r, files, active)
  PROVE  Done(r)
BY DEF Carried, Done, LostCopy, KeptOld, StoredIn, Stored, SessionState

(* Labels at which nothing is promised.                                    *)
LEMMA NothingPromised ==
  ASSUME NEW r, NEW f, NEW a,
         \/ r.pc \in {"isactive", "compile", "link", "rencheck", "renactivate", "unlinknew",
                      "rollback", "deactivate", "dropnew"}
         \/ r.pc = "idle" /\ r.reply # "OK"
  PROVE  Promise(r, f, a)
BY DEF Promise, Placing, Deleting

(* All the fields of a session that moved on.                              *)
LEMMA GotoRecord ==
  ASSUME TypeOK, NEW s \in Session, NEW p, Goto(s, p)
  PROVE  /\ sess'[s].pc = p /\ sess'[s].cmd = sess[s].cmd /\ sess'[s].name = sess[s].name
         /\ sess'[s].to = sess[s].to /\ sess'[s].content = sess[s].content
         /\ sess'[s].open = sess[s].open /\ sess'[s].quoted = sess[s].quoted
         /\ sess'[s].implicit = sess[s].implicit /\ sess'[s].reply = sess[s].reply
         /\ sess'[s].failed = sess[s].failed
<1>1. sess[s] \in SessionState
  BY DEF TypeOK
<1>2. sess'[s] = [sess[s] EXCEPT !.pc = p]
  BY DEF TypeOK, Goto
<1>3. QED BY <1>1, <1>2 DEF SessionState

(* The answer NO promises nothing, and OK what was carried out.            *)
LEMMA ReplyPromise ==
  ASSUME TypeOK, NEW s \in Session, NEW reply, Reply(s, reply), NEW f, NEW a,
         reply = "OK" => Carried(sess[s], f, a)
  PROVE  Promise(sess'[s], f, a)
<1> DEFINE r == sess[s]
           q == sess'[s]
<1>1. r \in SessionState
  BY DEF TypeOK
<1>2. q = Replied(r, reply)
  BY DEF TypeOK, Reply
<1>3. /\ q.pc = "idle" /\ q.reply = reply /\ q.cmd = r.cmd /\ q.name = r.name /\ q.to = r.to
      /\ q.content = r.content /\ q.open = r.open /\ q.failed = r.failed
  BY <1>1, <1>2 DEF Replied, SessionState
<1> HIDE DEF q, r
<1>4. Carried(r, f, a) => Carried(q, f, a)
  BY <1>3 DEF Carried, LostCopy
<1>5. reply = "OK" => Carried(q, f, a)
  BY <1>4 DEF r
<1>6. Promise(q, f, a)
  BY <1>3, <1>5 DEF Promise, Placing, Deleting
<1>7. QED BY <1>6 DEF q

(* The same when a failure was logged.                                     *)
LEMMA LogPromise ==
  ASSUME TypeOK, NEW s \in Session, NEW reply, NEW call, ReplyAndLog(s, reply, call), NEW f, NEW a,
         reply = "OK" => Carried([sess[s] EXCEPT !.failed = call], f, a)
  PROVE  Promise(sess'[s], f, a)
<1> DEFINE r == [sess[s] EXCEPT !.failed = call]
           q == sess'[s]
<1>1. sess[s] \in SessionState
  BY DEF TypeOK
<1>2. q = [Replied(sess[s], reply) EXCEPT !.failed = call]
  BY DEF TypeOK, ReplyAndLog
<1>3. /\ q.pc = "idle" /\ q.reply = reply /\ q.cmd = r.cmd /\ q.name = r.name /\ q.to = r.to
      /\ q.content = r.content /\ q.open = r.open /\ q.failed = r.failed
  BY <1>1, <1>2 DEF Replied, SessionState
<1> HIDE DEF q, r
<1>4. Carried(r, f, a) => Carried(q, f, a)
  BY <1>3 DEF Carried, LostCopy
<1>5. reply = "OK" => Carried(q, f, a)
  BY <1>4 DEF r
<1>6. Promise(q, f, a)
  BY <1>3, <1>5 DEF Promise, Placing, Deleting
<1>7. QED BY <1>6 DEF q

(* Before and after a step.                                                *)
LEMMA StoredNow == StoredIn(files) = Stored /\ StoredIn(files') = Stored'
BY DEF StoredIn, Stored

(* What a session promises after a step.                                   *)
PromiseKept(s) == Promise(sess'[s], files', active')

(* A command that begins promises what it just looked at.                  *)
LEMMA BeginPromise ==
  ASSUME TypeOK, NEW s \in Session, Begin(s) \/ Crash(s)
  PROVE  PromiseKept(s)
<1> DEFINE q == sess'[s]
<1>1. UNCHANGED storeVars
  BY BeginAlone
<1>2. ASSUME NEW r, sess' = [sess EXCEPT ![s] = r] PROVE q = r
  BY <1>2 DEF TypeOK
<1>3. files' = files /\ StoredIn(files) = Stored
  BY <1>1, StoredNow DEF storeVars
<1>4. CASE PutScript(s)
  <2>1. PICK n \in Name \cup {NoName}, c \in Content, quoted \in BOOLEAN :
          LET r == [NewCommand("put", n, NoName) EXCEPT !.content = c, !.quoted = quoted]
          IN  \/ sess' = [sess EXCEPT ![s] = Replied(r, "NO")]
              \/ /\ ~(~quoted /\ n # NoName /\ ~HaveSpace(n, c))
                 /\ sess' = [sess EXCEPT ![s] = [r EXCEPT !.pc = "upload"]]
    BY <1>4, Zenon DEF PutScript
  <2> DEFINE r0 == [NewCommand("put", n, NoName) EXCEPT !.content = c, !.quoted = quoted]
  <2>2. CASE sess' = [sess EXCEPT ![s] = Replied(r0, "NO")]
    <3>1. q = Replied(r0, "NO")
      BY <1>2, <2>2
    <3>2. q.pc = "idle" /\ q.reply # "OK"
      BY <3>1 DEF NewCommand, Replied
    <3>3. QED BY <3>2, NothingPromised DEF PromiseKept
  <2>3. CASE /\ ~(~quoted /\ n # NoName /\ ~HaveSpace(n, c))
             /\ sess' = [sess EXCEPT ![s] = [r0 EXCEPT !.pc = "upload"]]
    <3>1. q = [r0 EXCEPT !.pc = "upload"]
      BY <1>2, <2>3
    <3>2. q.pc = "upload" /\ q.quoted = quoted /\ q.name = n
      BY <3>1 DEF NewCommand
    <3>3. HaveSpace(n, c) => HasPlace(n, files')
      BY <1>3 DEF HaveSpace, HasPlace
    <3> HIDE DEF q
    <3>4. Promise(q, files', active')
      BY <2>3, <3>2, <3>3 DEF Promise, Placing, Deleting
    <3>5. QED BY <3>4 DEF PromiseKept, q
  <2>4. QED BY <2>1, <2>2, <2>3
<1>5. CASE SetActive(s)
  <2>1. PICK n \in Name :
          \/ sess' = [sess EXCEPT ![s] = Replied(NewCommand("setactive", n, NoName), "NO")]
          \/ sess' = [sess EXCEPT ![s] = [NewCommand("setactive", n, NoName) EXCEPT
                                            !.pc = "isactive", !.open = OpenedAs(n)]]
    BY <1>5, Zenon DEF SetActive
  <2>2. \/ q = Replied(NewCommand("setactive", n, NoName), "NO")
        \/ q = [NewCommand("setactive", n, NoName) EXCEPT !.pc = "isactive", !.open = OpenedAs(n)]
    BY <1>2, <2>1
  <2>3. q.pc = "isactive" \/ (q.pc = "idle" /\ q.reply # "OK")
    BY <2>2 DEF NewCommand, Replied
  <2>4. QED BY <2>3, NothingPromised DEF PromiseKept
<1>6. CASE DeactivateScript(s)
  <2>1. q.pc = "rescue2" /\ q.cmd = "deactivate"
    BY <1>2, <1>6 DEF DeactivateScript, NewCommand
  <2> HIDE DEF q
  <2>2. Promise(q, files', active')
    BY <2>1 DEF Promise, Placing, Deleting
  <2>3. QED BY <2>2 DEF PromiseKept, q
<1>7. CASE DeleteScript(s)
  <2>1. PICK n \in Name :
          \/ sess' = [sess EXCEPT ![s] = Replied(NewCommand("delete", n, NoName), "NO")]
          \/ sess' = [sess EXCEPT ![s] = [NewCommand("delete", n, NoName) EXCEPT
                                            !.pc = "delcheck", !.open = OpenedAs(n)]]
    BY <1>7, Zenon DEF DeleteScript
  <2>2. CASE sess' = [sess EXCEPT ![s] = Replied(NewCommand("delete", n, NoName), "NO")]
    <3>0. q = Replied(NewCommand("delete", n, NoName), "NO")
      BY <1>2, <2>2
    <3>1. q.pc = "idle" /\ q.reply # "OK"
      BY <3>0 DEF NewCommand, Replied
    <3>2. QED BY <3>1, NothingPromised DEF PromiseKept
  <2>3. CASE sess' = [sess EXCEPT ![s] = [NewCommand("delete", n, NoName) EXCEPT
                                            !.pc = "delcheck", !.open = OpenedAs(n)]]
    <3>1. q.pc = "delcheck" /\ q.open = OpenedAs(n) /\ q.name = n /\ q.cmd = "delete"
      BY <1>2, <2>3 DEF NewCommand
    <3>2. q.open = "default" => q.name \notin StoredIn(files')
      BY <1>3, <3>1 DEF OpenedAs
    <3> HIDE DEF q
    <3>3. Promise(q, files', active')
      BY <3>1, <3>2 DEF Promise, Placing, Deleting
    <3>4. QED BY <3>3 DEF PromiseKept, q
  <2>4. QED BY <2>1, <2>2, <2>3
<1>8. CASE RenameScript(s)
  <2>1. PICK n, m \in Name :
          \/ sess' = [sess EXCEPT ![s] = Replied(NewCommand("rename", n, m), "NO")]
          \/ /\ Opens(n)
             /\ sess' = [sess EXCEPT ![s] = [NewCommand("rename", n, m) EXCEPT
                           !.pc = IF OpenedAs(n) = "own" THEN "link" ELSE "checknew",
                           !.open = OpenedAs(n)]]
    BY <1>8, Zenon DEF RenameScript
  <2>2. CASE sess' = [sess EXCEPT ![s] = Replied(NewCommand("rename", n, m), "NO")]
    <3>0. q = Replied(NewCommand("rename", n, m), "NO")
      BY <1>2, <2>2
    <3>1. q.pc = "idle" /\ q.reply # "OK"
      BY <3>0 DEF NewCommand, Replied
    <3>2. QED BY <3>1, NothingPromised DEF PromiseKept
  <2>3. CASE ~(sess' = [sess EXCEPT ![s] = Replied(NewCommand("rename", n, m), "NO")])
    <3>1. /\ q.pc = IF OpenedAs(n) = "own" THEN "link" ELSE "checknew"
          /\ q.name = n /\ Opens(n)
      BY <1>2, <2>1, <2>3 DEF NewCommand
    <3>2. OpenedAs(n) # "own" => n = Default /\ n \notin StoredIn(files')
      BY <1>3, <3>1 DEF OpenedAs, Opens
    <3> HIDE DEF q
    <3>3. Promise(q, files', active')
      BY <3>1, <3>2 DEF Promise, Placing, Deleting
    <3>4. QED BY <3>3 DEF PromiseKept, q
  <2>4. QED BY <2>2, <2>3
<1>9. CASE Crash(s)
  <2>1. q = NewCommand("none", NoName, NoName)
    BY <1>2, <1>9 DEF Crash
  <2>2. q.pc = "idle" /\ q.reply # "OK"
    BY <2>1 DEF NewCommand
  <2>3. QED BY <2>2, NothingPromised DEF PromiseKept
<1>10. QED BY <1>4, <1>5, <1>6, <1>7, <1>8, <1>9 DEF Begin

(* An upload: the room that the quota check found is still there when the  *)
(* script is put in place, and then the script is what was uploaded.       *)
LEMMA UploadPromise ==
  ASSUME StorageInv, SoleInv, OkInv, Readable, NEW s \in Session,
         \/ UploadDone(s) \/ UploadFailed(s) \/ QuotaCheck(s) \/ WillActivate(s)
         \/ IsActivatingDefault(s) \/ StatDefault(s) \/ StatDefaultError(s)
         \/ Move(s) \/ MoveFailed(s)
  PROVE  PromiseKept(s)
<1> DEFINE r == sess[s]
           q == sess'[s]
<1>1. TypeOK /\ r \in SessionState /\ Sound(r, tmp[s]) /\ Alone(r, files, active)
      /\ Promise(r, files, active)
  BY DEF StorageInv, SoleInv, OkInv, TypeOK, SessionsSound
<1>2. ASSUME NEW reply, Reply(s, reply), reply = "OK" => Carried(r, files', active')
      PROVE  PromiseKept(s)
  BY <1>1, <1>2, ReplyPromise DEF PromiseKept
<1>0. ASSUME DropTmp(s, "NO") \/ ReplyAndLog(s, "NO", "stat") PROVE PromiseKept(s)
  <2>1. CASE Reply(s, "NO")
    BY <1>2, <2>1
  <2>2. ASSUME NEW call, ReplyAndLog(s, "NO", call) PROVE PromiseKept(s)
    <3>1. ASSUME NEW f, NEW a PROVE "NO" = "OK" => Carried([sess[s] EXCEPT !.failed = call], f, a)
      OBVIOUS
    <3>2. QED BY <1>1, <2>2, <3>1, LogPromise DEF PromiseKept
  <2>3. QED BY <1>0, <2>1, <2>2 DEF DropTmp
<1>3. CASE UploadDone(s)
  <2>1. r.pc = "upload" /\ files' = files /\ Goto(s, "uploaded")
    BY <1>3 DEF UploadDone, At, storeVars
  <2>2. q.pc = "uploaded" /\ q.name = r.name /\ q.quoted = r.quoted
    BY <1>1, <2>1, GotoRecord
  <2>3. ~r.quoted /\ r.name # NoName => HasPlace(r.name, files')
    BY <1>1, <2>1 DEF Promise
  <2> HIDE DEF q, r
  <2>4. Promise(q, files', active')
    BY <2>2, <2>3 DEF Promise, Placing, Deleting
  <2>5. QED BY <2>4 DEF PromiseKept, q
<1>4. CASE UploadFailed(s) \/ MoveFailed(s)
  BY <1>0, <1>4 DEF UploadFailed, MoveFailed, Cancel
<1>5. CASE QuotaCheck(s)
  <2>0. r.pc = "uploaded"
    BY <1>5 DEF QuotaCheck, At
  <2>1. CASE r.quoted /\ r.name # NoName /\ ~HaveSpace(r.name, r.content)
    BY <1>0, <1>5, <2>1 DEF QuotaCheck, Cancel
  <2>2. CASE ~(r.quoted /\ r.name # NoName /\ ~HaveSpace(r.name, r.content))
    <3>1. Goto(s, "willactivate") /\ files' = files
      BY <1>5, <2>2 DEF QuotaCheck, storeVars
    <3>2. q.pc = "willactivate" /\ q.name = r.name
      BY <1>1, <3>1, GotoRecord
    <3>3. r.name # NoName => HasPlace(r.name, files')
      <4>1. HaveSpace(r.name, r.content) => HasPlace(r.name, files)
        BY StoredNow DEF HaveSpace, HasPlace
      <4>2. ~r.quoted /\ r.name # NoName => HasPlace(r.name, files)
        BY <1>1, <2>0 DEF Promise
      <4>3. QED BY <2>2, <3>1, <4>1, <4>2
    <3> HIDE DEF q, r
    <3>4. Promise(q, files', active')
      BY <3>2, <3>3 DEF Promise, Placing, Deleting
    <3>5. QED BY <3>4 DEF PromiseKept, q
  <2>3. QED BY <2>1, <2>2
<1>6. CASE WillActivate(s)
  <2>0. r.pc = "willactivate" /\ files' = files
    BY <1>6 DEF WillActivate, At, storeVars
  <2>1. PICK was \in (IF r.name = NoName THEN {NoName} ELSE ActiveNameAnswers) :
          IF Compiles(r, was) /\ r.name # NoName
          THEN sess' = [sess EXCEPT ![s].pc = "default", ![s].was = was]
          ELSE DropTmp(s, IF Compiles(r, was) THEN "OK" ELSE "NO")
    BY <1>6, Zenon DEF WillActivate
  <2>2. CASE Compiles(r, was) /\ r.name # NoName
    <3>1. q = [r EXCEPT !.pc = "default", !.was = was]
      BY <1>1, <2>1, <2>2 DEF TypeOK
    <3>2. q.pc = "default" /\ q.name = r.name
      BY <1>1, <3>1 DEF SessionState
    <3>3. r.name # NoName => HasPlace(r.name, files')
      BY <1>1, <2>0 DEF Promise
    <3> HIDE DEF q, r
    <3>4. Promise(q, files', active')
      BY <3>2, <3>3 DEF Promise, Placing, Deleting
    <3>5. QED BY <3>4 DEF PromiseKept, q
  <2>3. CASE Compiles(r, was) /\ r.name = NoName
    <3>1. r.cmd = "put"
      BY <1>1, <2>0 DEF Sound, Uploading
    <3>2. [r EXCEPT !.failed = "unlink"].cmd = "put" /\ [r EXCEPT !.failed = "unlink"].name = NoName
      BY <1>1, <2>3, <3>1 DEF SessionState
    <3>3. Carried(r, files', active') /\ Carried([r EXCEPT !.failed = "unlink"], files', active')
      BY <2>3, <3>1, <3>2 DEF Carried
    <3>4. DropTmp(s, "OK")
      BY <2>1, <2>3
    <3>5. QED BY <1>1, <1>2, <3>3, <3>4, LogPromise DEF DropTmp, PromiseKept
  <2>4. CASE ~Compiles(r, was)
    BY <1>0, <2>1, <2>4
  <2>5. QED BY <2>2, <2>3, <2>4
<1>7. CASE IsActivatingDefault(s)
  <2>1. r.pc = "default" /\ files' = files
    BY <1>7 DEF IsActivatingDefault, At, storeVars
  <2>2. PICK p \in {"statdefault", "move"} : Goto(s, p) /\ (p = "statdefault" => r.name = Default)
    BY <1>7 DEF IsActivatingDefault
  <2>3. q.pc = p /\ q.name = r.name /\ q.implicit = r.implicit
    BY <1>1, <2>2, GotoRecord
  <2>4. ~r.implicit /\ (r.name # NoName => HasPlace(r.name, files'))
    BY <1>1, <2>1 DEF Promise, Alone
  <2> HIDE DEF q, r
  <2>5. Promise(q, files', active')
    BY <2>2, <2>3, <2>4 DEF Promise, Placing, Deleting
  <2>6. QED BY <2>5 DEF PromiseKept, q
<1>8. CASE StatDefault(s)
  <2>1. r.pc = "statdefault" /\ files' = files
    BY <1>8 DEF StatDefault, At, storeVars
  <2>2. q = [r EXCEPT !.pc = "move", !.implicit = (r.name \notin Stored)]
    BY <1>1, <1>8 DEF StatDefault, TypeOK
  <2>3. q.pc = "move" /\ q.name = r.name
    BY <1>1, <2>2 DEF SessionState
  <2>4. r.name = Default /\ (r.name # NoName => HasPlace(r.name, files'))
    BY <1>1, <2>1 DEF Promise
  <2> HIDE DEF q, r
  <2>5. Promise(q, files', active')
    BY <2>3, <2>4 DEF Promise, Placing, Deleting
  <2>6. QED BY <2>5 DEF PromiseKept, q
<1>9. CASE StatDefaultError(s)
  BY <1>0, <1>9 DEF StatDefaultError
<1>10. CASE Move(s)
  <2>1. /\ files' = [files EXCEPT ![r.name] = tmp[s]] /\ r.pc = "move"
        /\ IF r.implicit THEN Goto(s, "open") ELSE Reply(s, "OK")
    BY <1>10 DEF Move, At
  <2>2. tmp[s] = r.content /\ r.name \in Name /\ r.content \in UploadValid /\ r.cmd = "put"
    BY <1>1, <2>1 DEF Sound, Uploading, Committing
  <2>3. files'[r.name] = r.content /\ r.content # NoFile
    BY <1>1, <2>1, <2>2, StoreAssumption DEF TypeOK
  <2>4. CASE Reply(s, "OK")
    <3>1. Carried(r, files', active')
      BY <2>2, <2>3 DEF Carried
    <3>2. QED BY <1>2, <2>4, <3>1
  <2>5. CASE r.implicit /\ Goto(s, "open")
    <3>1. r.name = Default
      BY <1>1, <2>1, <2>5 DEF Promise
    <3>2. q.pc = "open" /\ q.cmd = "put" /\ q.name = r.name /\ q.content = r.content
      BY <1>1, <2>2, <2>5, GotoRecord
    <3> HIDE DEF q, r
    <3>3. Promise(q, files', active')
      BY <2>3, <3>1, <3>2 DEF Promise, Placing, Deleting
    <3>4. QED BY <3>3 DEF PromiseKept, q
  <2>6. QED BY <2>1, <2>4, <2>5
<1>11. QED BY <1>3, <1>4, <1>5, <1>6, <1>7, <1>8, <1>9, <1>10

(* Activation and deactivation: what the command stored before is still    *)
(* there when the link is made, also after the regular file was rescued.   *)
LEMMA ActivationPromise ==
  ASSUME StorageInv, SoleInv, OkInv, OrigApart, NEW s \in Session,
         \/ OpenNew(s) \/ SetActiveCheck(s) \/ SetActiveCompile(s) \/ ActivateStat(s)
         \/ ActivateRescue(s) \/ ActivateLink(s) \/ ActivateReplace(s) \/ ActivateError(s)
         \/ DeactivateRescue(s) \/ DeactivateUnlink(s) \/ DeactivateError(s)
  PROVE  PromiseKept(s)
<1> DEFINE r == sess[s]
           q == sess'[s]
           n == TargetOf(r)
<1>1. TypeOK /\ r \in SessionState /\ Sound(r, tmp[s]) /\ Alone(r, files, active)
      /\ Promise(r, files, active)
  BY DEF StorageInv, SoleInv, OkInv, TypeOK, SessionsSound
<1>2. ASSUME NEW reply, Reply(s, reply), reply = "OK" => Carried(r, files', active')
      PROVE  PromiseKept(s)
  BY <1>1, <1>2, ReplyPromise DEF PromiseKept
<1>3. ASSUME NEW p \in {"isactive", "compile", "rollback"}, Goto(s, p) PROVE PromiseKept(s)
  <2>1. q.pc = p
    BY <1>1, <1>3, GotoRecord
  <2>2. QED BY <1>3, <2>1, NothingPromised DEF PromiseKept
<1>4. ASSUME r.cmd = "setactive", Goto(s, AfterCompile(s)) PROVE PromiseKept(s)
  <2>1. q.pc = AfterCompile(s) /\ q.cmd = "setactive" /\ q.open = r.open
    BY <1>1, <1>4, GotoRecord
  <2>2. \/ q.pc = "lstat" /\ q.open = "own"
        \/ q.pc = "rescue2" /\ q.open = "default"
    BY <1>1, <2>1 DEF AfterCompile, SessionState
  <2> HIDE DEF q, r
  <2>3. Promise(q, files', active')
    BY <2>1, <2>2 DEF Promise, Placing, Deleting
  <2>4. QED BY <2>3 DEF PromiseKept, q
<1>5. ASSUME ActivateFailed(s) PROVE PromiseKept(s)
  BY <1>2, <1>3, <1>5 DEF ActivateFailed
<1>6. ASSUME NEW p \in {"rescue", "symlink", "replace"}, Goto(s, p),
             r.pc \in {"lstat", "rescue", "symlink"},
             files' = files \/ files' = [files EXCEPT ![OrigName] = OrigContent]
      PROVE  PromiseKept(s)
  <2>1. /\ q.pc = p /\ q.cmd = r.cmd /\ q.name = r.name /\ q.to = r.to /\ q.content = r.content
        /\ q.open = r.open
    BY <1>1, <1>6, GotoRecord
  <2>2. r.cmd \in {"put", "setactive", "rename"}
    BY <1>1, <1>6 DEF Promise, Placing
  <2>3. ASSUME NEW m \in Name, m = Default PROVE files'[m] = files[m]
    BY <1>1, <1>6, <2>3 DEF TypeOK, OrigApart
  <2>4. r.cmd = "put" => r.name = Default /\ files'[r.name] = r.content /\ r.content # NoFile
    <3>1. r.cmd = "put" => r.name \in Name
      BY <1>1, <1>6 DEF Sound, Activating, TargetOf
    <3>2. QED BY <1>1, <1>6, <2>3, <3>1 DEF Promise, Placing
  <2>5. r.cmd = "setactive" => r.open = "own"
    BY <1>1, <1>6 DEF Promise, Placing
  <2>6. r.cmd = "rename" => r.name = Default /\ r.name \notin StoredIn(files') /\ r.to # Default
    BY <1>1, <1>6, <2>3 DEF Promise, Placing, StoredIn
  <2> HIDE DEF q, r, n
  <2>7. Promise(q, files', active')
    BY <1>6, <2>1, <2>2, <2>4, <2>5, <2>6 DEF Promise, Placing, Deleting
  <2>8. QED BY <2>7 DEF PromiseKept, q
<1>7. Target(s) = n
  BY DEF Target, TargetOf
<1>8. CASE OpenNew(s)
  <2>1. r.pc = "open" /\ files' = files
    BY <1>8 DEF OpenNew, At, storeVars
  <2>2. n \in Name /\ r.cmd \in {"put", "rename"}
    BY <1>1, <2>1 DEF Sound, Activating, Alone, Promise, Placing
  <2>3. CASE n \in Stored
    <3>1. sess' = [sess EXCEPT ![s].open = "own", ![s].pc = "lstat"]
      BY <1>7, <1>8, <2>3 DEF OpenNew, Opens, OpenedAs
    <3>2. q = [r EXCEPT !.open = "own", !.pc = "lstat"]
      BY <1>1, <3>1 DEF TypeOK
    <3>3. /\ q.pc = "lstat" /\ q.cmd = r.cmd /\ q.name = r.name /\ q.to = r.to
          /\ q.content = r.content
      BY <1>1, <3>2 DEF SessionState
    <3>4. /\ r.cmd = "put" => r.name = Default /\ files'[r.name] = r.content /\ r.content # NoFile
          /\ r.cmd = "rename" => r.name = Default /\ r.name \notin StoredIn(files') /\ r.to # Default
      BY <1>1, <2>1 DEF Promise, Placing
    <3> HIDE DEF q, r, n
    <3>5. Promise(q, files', active')
      BY <2>2, <3>3, <3>4 DEF Promise, Placing, Deleting
    <3>6. QED BY <3>5 DEF PromiseKept, q
  <2>4. CASE n \notin Stored
    <3>1. r.cmd = "rename"
      <4>1. r.cmd = "put" => n = r.name /\ files[n] # NoFile
        BY <1>1, <2>1 DEF Promise, Placing, TargetOf
      <4>2. QED BY <2>2, <2>4, <4>1 DEF Stored
    <3>2. n = r.to /\ r.to # Default /\ r.name \notin StoredIn(files')
      BY <1>1, <2>1, <3>1 DEF Promise, Placing, TargetOf
    <3>3. LostCopy(r)
      BY <1>1, <2>1, <2>4, <3>1, <3>2, StoredNow DEF Promise, LostCopy
    <3>4. Carried(r, files', active')
      BY <3>1, <3>2, <3>3 DEF Carried
    <3>5. Reply(s, "OK")
      BY <1>7, <1>8, <2>4, <3>2 DEF OpenNew, Opens
    <3>6. QED BY <1>2, <3>4, <3>5
  <2>5. QED BY <2>3, <2>4
<1>9. CASE SetActiveCheck(s)
  <2>1. r.cmd = "setactive"
    BY <1>1, <1>9 DEF SetActiveCheck, At, Sound
  <2>2. Goto(s, AfterCompile(s)) \/ Goto(s, "compile")
    BY <1>9 DEF SetActiveCheck
  <2>3. QED BY <1>3, <1>4, <2>1, <2>2
<1>10. CASE SetActiveCompile(s)
  <2>1. r.cmd = "setactive"
    BY <1>1, <1>10 DEF SetActiveCompile, At, Sound
  <2>2. Goto(s, AfterCompile(s)) \/ Reply(s, "NO")
    BY <1>10 DEF SetActiveCompile
  <2>3. QED BY <1>2, <1>4, <2>1, <2>2
<1>11. CASE ActivateStat(s)
  <2>1. r.pc = "lstat" /\ files' = files /\ (Goto(s, "rescue") \/ ActivateFailed(s))
    BY <1>11 DEF ActivateStat, At, storeVars
  <2>2. QED BY <1>5, <1>6, <2>1
<1>12. CASE ActivateRescue(s)
  <2>1. /\ r.pc = "rescue" /\ Goto(s, "symlink")
        /\ files' = files \/ files' = [files EXCEPT ![OrigName] = OrigContent]
    BY <1>12 DEF ActivateRescue, At, RescueRegular, Rescue, storeVars
  <2>2. QED BY <1>6, <2>1
<1>13. ASSUME r.pc \in {"symlink", "replace"}, active' = n, files' = files, Reply(s, "OK")
       PROVE  PromiseKept(s)
  <2>1. r.cmd \in {"put", "setactive", "rename"}
    BY <1>1, <1>13 DEF Promise, Placing
  <2>2. CASE r.cmd = "put"
    <3>1. files'[r.name] = r.content
      BY <1>1, <1>13, <2>2 DEF Promise, Placing
    <3>2. Carried(r, files', active')
      BY <2>2, <3>1 DEF Carried
    <3>3. QED BY <1>2, <1>13, <3>2
  <2>3. CASE r.cmd = "setactive"
    <3>1. r.open = "own" /\ active' = r.name
      BY <1>1, <1>13, <2>3 DEF Promise, Placing, TargetOf
    <3>2. Carried(r, files', active')
      BY <2>3, <3>1 DEF Carried
    <3>3. QED BY <1>2, <1>13, <3>2
  <2>4. CASE r.cmd = "rename"
    <3>1. r.name \notin StoredIn(files') /\ n = r.to /\ r.to \in Name
      BY <1>1, <1>13, <2>4 DEF Promise, Placing, TargetOf, Sound, Activating
    <3>2. files[r.to] \in ReplaceValid
      BY <1>1, <1>13, <3>1 DEF Alone
    <3>3. r.to \in StoredIn(files')
      BY <1>13, <3>1, <3>2, StoreAssumption DEF StoredIn
    <3>4. Carried(r, files', active')
      BY <2>4, <3>1, <3>3 DEF Carried
    <3>5. QED BY <1>2, <1>13, <3>4
  <2>5. QED BY <2>1, <2>2, <2>3, <2>4
<1>14. CASE ActivateLink(s)
  <2>1. r.pc = "symlink" /\ files' = files
    BY <1>14 DEF ActivateLink, At
  <2>2. Goto(s, "replace") \/ (active' = n /\ Reply(s, "OK"))
    BY <1>7, <1>14 DEF ActivateLink
  <2>3. QED BY <1>6, <1>13, <2>1, <2>2
<1>15. CASE ActivateReplace(s)
  BY <1>7, <1>13, <1>15 DEF ActivateReplace, At
<1>16. CASE ActivateError(s)
  BY <1>5, <1>16 DEF ActivateError
<1>17. ASSUME r.pc \in {"rescue2", "unlinkactive"}
       PROVE  r.cmd = "deactivate" \/ (r.cmd = "setactive" /\ r.open = "default")
  BY <1>1, <1>17 DEF Promise
<1>18. CASE DeactivateRescue(s)
  <2>1. r.pc = "rescue2" /\ Goto(s, "unlinkactive")
    BY <1>18 DEF DeactivateRescue, At
  <2>2. q.pc = "unlinkactive" /\ q.cmd = r.cmd /\ q.open = r.open
    BY <1>1, <2>1, GotoRecord
  <2>3. r.cmd = "deactivate" \/ (r.cmd = "setactive" /\ r.open = "default")
    BY <1>17, <2>1
  <2> HIDE DEF q, r
  <2>4. Promise(q, files', active')
    BY <2>2, <2>3 DEF Promise, Placing, Deleting
  <2>5. QED BY <2>4 DEF PromiseKept, q
<1>19. CASE DeactivateUnlink(s)
  <2>1. r.pc = "unlinkactive" /\ active' = NoLink /\ Reply(s, "OK")
    BY <1>19 DEF DeactivateUnlink, At
  <2>2. r.cmd = "deactivate" \/ (r.cmd = "setactive" /\ r.open = "default")
    BY <1>17, <2>1
  <2>3. Carried(r, files', active')
    BY <2>1, <2>2 DEF Carried
  <2>4. QED BY <1>2, <2>1, <2>3
<1>20. CASE DeactivateError(s)
  BY <1>2, <1>20 DEF DeactivateError
<1>21. QED
  BY <1>8, <1>9, <1>10, <1>11, <1>12, <1>14, <1>15, <1>16, <1>18, <1>19, <1>20

(* Removals and renames: the new name holds the script before the old one  *)
(* is taken away.                                                          *)
LEMMA RemovalPromise ==
  ASSUME StorageInv, SoleInv, OkInv, Readable, NEW s \in Session,
         \/ DeleteCheck(s) \/ DeleteUnlink(s)
         \/ Rollback(s) \/ RollbackDeactivate(s) \/ RollbackUnlink(s)
         \/ RenameLink(s) \/ RenameCheck(s) \/ RenameActivate(s) \/ RenameActivateError(s)
         \/ RenameUnlinkOld(s) \/ RenameUnlinkNew(s)
         \/ RenameDefaultCheck(s) \/ RenameDefaultCopy(s) \/ RenameDefaultActive(s)
  PROVE  PromiseKept(s)
<1> DEFINE r == sess[s]
           q == sess'[s]
<1>1. TypeOK /\ r \in SessionState /\ Sound(r, tmp[s]) /\ Alone(r, files, active)
      /\ Promise(r, files, active)
  BY DEF StorageInv, SoleInv, OkInv, TypeOK, SessionsSound
<1>2. ASSUME NEW reply, Reply(s, reply), reply = "OK" => Carried(r, files', active')
      PROVE  PromiseKept(s)
  BY <1>1, <1>2, ReplyPromise DEF PromiseKept
<1>3. ASSUME NEW p \in {"deactivate", "dropnew", "rencheck", "renactivate", "unlinknew"}, Goto(s, p)
      PROVE  PromiseKept(s)
  <2>1. q.pc = p
    BY <1>1, <1>3, GotoRecord
  <2>2. QED BY <1>3, <2>1, NothingPromised DEF PromiseKept
<1>4. CASE DeleteCheck(s)
  <2>1. r.pc = "delcheck" /\ files' = files
    BY <1>4 DEF DeleteCheck, At, storeVars
  <2>2. r.cmd = "delete"
    BY <1>1, <2>1 DEF Promise, Deleting
  <2>3. CASE Reply(s, "NO")
    BY <1>2, <2>3
  <2>4. CASE r.open = "default" /\ Reply(s, "OK")
    <3>1. r.name \notin StoredIn(files')
      BY <1>1, <2>1, <2>4 DEF Promise
    <3>2. Carried(r, files', active')
      BY <2>2, <3>1 DEF Carried
    <3>3. QED BY <1>2, <2>4, <3>2
  <2>5. CASE Goto(s, "delete")
    <3>1. q.pc = "delete" /\ q.cmd = "delete"
      BY <1>1, <2>2, <2>5, GotoRecord
    <3> HIDE DEF q, r
    <3>2. Promise(q, files', active')
      BY <3>1 DEF Promise, Placing, Deleting
    <3>3. QED BY <3>2 DEF PromiseKept, q
  <2>6. QED BY <1>4, <2>3, <2>4, <2>5 DEF DeleteCheck
<1>5. CASE DeleteUnlink(s)
  <2>1. r.pc = "delete"
    BY <1>5 DEF DeleteUnlink, At
  <2>2. r.cmd = "delete" /\ r.name \in Name
    BY <1>1, <2>1 DEF Promise, Deleting, Sound
  <2>3. CASE Reply(s, "NO")
    BY <1>2, <2>3
  <2>4. CASE files' = [files EXCEPT ![r.name] = NoFile] /\ \E reply \in {"OK", "NO", "died"} : Reply(s, reply)
    <3>1. r.name \notin StoredIn(files')
      BY <1>1, <2>2, <2>4 DEF TypeOK, StoredIn
    <3>2. Carried(r, files', active')
      BY <2>2, <3>1 DEF Carried
    <3>3. QED BY <1>2, <2>4, <3>2
  <2>5. QED BY <1>5, <2>3, <2>4 DEF DeleteUnlink
<1>6. CASE Rollback(s) \/ RollbackDeactivate(s)
  BY <1>3, <1>6 DEF Rollback, RollbackDeactivate
<1>7. CASE RollbackUnlink(s) \/ RenameUnlinkNew(s)
  BY <1>2, <1>7 DEF RollbackUnlink, RenameUnlinkNew
<1>8. CASE RenameLink(s)
  BY <1>2, <1>3, <1>8 DEF RenameLink
<1>9. ASSUME r.pc \in {"rencheck", "renactivate"}, files' = files, Goto(s, "unlinkold")
      PROVE  PromiseKept(s)
  <2>1. q.pc = "unlinkold" /\ q.name = r.name /\ q.to = r.to
    BY <1>1, <1>9, GotoRecord
  <2>2. files'[r.to] = files'[r.name] /\ files'[r.name] # NoFile /\ r.to # r.name
    BY <1>1, <1>9 DEF Alone
  <2> HIDE DEF q, r
  <2>3. Promise(q, files', active')
    BY <2>1, <2>2 DEF Promise, Placing, Deleting
  <2>4. QED BY <2>3 DEF PromiseKept, q
<1>10. CASE RenameCheck(s)
  <2>1. r.pc = "rencheck" /\ files' = files /\ (Goto(s, "renactivate") \/ Goto(s, "unlinkold"))
    BY <1>10 DEF RenameCheck, At, storeVars
  <2>2. QED BY <1>3, <1>9, <2>1
<1>11. CASE RenameActivate(s)
  BY <1>9, <1>11 DEF RenameActivate, At
<1>12. CASE RenameActivateError(s)
  BY <1>3, <1>12 DEF RenameActivateError
<1>13. r.pc \in Renaming => r.cmd = "rename" /\ r.name \in Name /\ r.to \in Name
  BY <1>1 DEF Sound
<1>14. CASE RenameUnlinkOld(s)
  <2>1. /\ r.pc = "unlinkold"
        /\ \/ Reply(s, "OK") /\ files' = [files EXCEPT ![r.name] = NoFile]
           \/ ReplyAndLog(s, "OK", "unlink") /\ files' = files
    BY <1>14 DEF RenameUnlinkOld, At
  <2>2. /\ files[r.to] = files[r.name] /\ files[r.name] # NoFile /\ r.to # r.name
        /\ r.cmd = "rename" /\ r.name \in Name /\ r.to \in Name
    BY <1>1, <1>13, <2>1 DEF Promise, Renaming
  <2>3. r.to \in StoredIn(files')
    BY <1>1, <2>1, <2>2 DEF TypeOK, StoredIn
  <2>4. CASE Reply(s, "OK") /\ files' = [files EXCEPT ![r.name] = NoFile]
    <3>1. r.name \notin StoredIn(files')
      BY <1>1, <2>2, <2>4 DEF TypeOK, StoredIn
    <3>2. Carried(r, files', active')
      BY <2>2, <2>3, <3>1 DEF Carried
    <3>3. QED BY <1>2, <2>4, <3>2
  <2>5. CASE ReplyAndLog(s, "OK", "unlink") /\ files' = files
    <3> DEFINE k == [r EXCEPT !.failed = "unlink"]
    <3>1. k.cmd = "rename" /\ k.name = r.name /\ k.to = r.to /\ k.failed = "unlink"
      BY <1>1, <2>2 DEF SessionState
    <3> HIDE DEF k
    <3>2. Carried(k, files', active')
      BY <2>2, <2>3, <2>5, <3>1 DEF Carried
    <3>3. QED BY <1>1, <2>5, <3>2, LogPromise DEF PromiseKept, k
  <2>6. QED BY <2>1, <2>4, <2>5
<1>15. ASSUME r.pc \in {"checknew", "copy", "copied"}
       PROVE  /\ r.open = "default" /\ r.cmd = "rename" /\ r.to \in Name
              /\ r.name = Default /\ r.name \notin StoredIn(files) /\ r.name \in Name
  BY <1>1, <1>13, <1>15 DEF Alone, Promise, Renaming
<1>16. CASE RenameDefaultCheck(s)
  <2>1. r.pc = "checknew" /\ files' = files
    BY <1>16 DEF RenameDefaultCheck, At, storeVars
  <2>2. CASE Reply(s, "NO")
    BY <1>2, <2>2
  <2>3. CASE Goto(s, "copy") /\ ~Opens(r.to)
    <3>1. q.pc = "copy" /\ q.name = r.name /\ q.to = r.to
      BY <1>1, <2>3, GotoRecord
    <3>2. r.to # Default /\ r.name = Default /\ r.name \notin StoredIn(files')
      BY <1>15, <2>1, <2>3 DEF Opens
    <3> HIDE DEF q, r
    <3>3. Promise(q, files', active')
      BY <3>1, <3>2 DEF Promise, Placing, Deleting
    <3>4. QED BY <3>3 DEF PromiseKept, q
  <2>4. QED BY <1>16, <2>2, <2>3 DEF RenameDefaultCheck
<1>17. CASE RenameDefaultCopy(s)
  <2>0. CASE Reply(s, "NO")
    BY <1>2, <2>0
  <2>1. CASE /\ r.pc = "copy"
             /\ \/ Goto(s, "copied") /\ files' = [files EXCEPT ![r.to] = DefaultContent]
                \/ /\ sess' = [sess EXCEPT ![s].pc = "copied", ![s].failed = "rename"]
                   /\ files' = files
    <3>1. r.cmd = "rename"
      BY <1>15, <2>1
    <3>2. /\ q.pc = "copied" /\ q.name = r.name /\ q.to = r.to /\ q.cmd = "rename"
          /\ files' = files => q.failed = "rename" \/ r.to \in StoredIn(files')
      <4>1. CASE Goto(s, "copied") /\ files' = [files EXCEPT ![r.to] = DefaultContent]
        <5>1. r.to \in StoredIn(files')
          BY <1>1, <1>15, <2>1, <4>1, StoreAssumption DEF TypeOK, StoredIn
        <5>2. QED BY <1>1, <3>1, <4>1, <5>1, GotoRecord
      <4>2. CASE sess' = [sess EXCEPT ![s].pc = "copied", ![s].failed = "rename"]
        <5>1. q = [r EXCEPT !.pc = "copied", !.failed = "rename"]
          BY <1>1, <4>2 DEF TypeOK
        <5>2. QED BY <1>1, <3>1, <5>1 DEF SessionState
      <4>3. QED BY <2>1, <4>1, <4>2
    <3>3. /\ r.name = Default /\ r.name \notin StoredIn(files) /\ r.to # Default
          /\ r.to \in Name /\ r.name \in Name
      BY <1>1, <1>15, <2>1 DEF Promise
    <3>4. DefaultContent # NoFile
      BY StoreAssumption
    <3>5. r.to \in StoredIn(files') \/ q.failed = "rename"
      BY <1>1, <2>1, <3>2, <3>3, <3>4 DEF TypeOK, StoredIn
    <3>6. r.name \notin StoredIn(files')
      BY <1>1, <2>1, <3>3 DEF TypeOK, StoredIn
    <3> HIDE DEF q, r
    <3>7. Promise(q, files', active')
      BY <3>2, <3>3, <3>5, <3>6 DEF Promise, Placing, Deleting
    <3>8. QED BY <3>7 DEF PromiseKept, q
  <2>2. QED BY <1>17, <2>0, <2>1 DEF RenameDefaultCopy, At
<1>18. CASE RenameDefaultActive(s)
  <2>1. r.pc = "copied" /\ files' = files /\ (Goto(s, "open") \/ Reply(s, "OK"))
    BY <1>18 DEF RenameDefaultActive, At, storeVars
  <2>2. /\ r.open = "default" /\ r.cmd = "rename" /\ r.name = Default
        /\ r.name \notin StoredIn(files') /\ r.to # Default
        /\ r.to \in StoredIn(files') \/ r.failed = "rename"
    BY <1>1, <1>15, <2>1 DEF Promise
  <2>3. CASE Goto(s, "open")
    <3>1. /\ q.pc = "open" /\ q.name = r.name /\ q.to = r.to /\ q.cmd = r.cmd /\ q.open = r.open
          /\ q.failed = r.failed
      BY <1>1, <2>3, GotoRecord
    <3> HIDE DEF q, r
    <3>2. Promise(q, files', active')
      BY <2>2, <3>1 DEF Promise, Placing, Deleting
    <3>3. QED BY <3>2 DEF PromiseKept, q
  <2>4. CASE Reply(s, "OK")
    <3>1. Carried(r, files', active')
      BY <2>2 DEF Carried, LostCopy
    <3>2. QED BY <1>2, <2>4, <3>1
  <2>5. QED BY <2>1, <2>3, <2>4
<1>19. QED
  BY <1>4, <1>5, <1>6, <1>7, <1>8, <1>10, <1>11, <1>12, <1>14, <1>16, <1>17, <1>18

(* A change of the storage adds at most one script.                        *)
LEMMA StoredStaysFinite ==
  ASSUME TypeOK, IsFiniteSet(Stored), [StoreNext]_storeVars
  PROVE  IsFiniteSet(Stored')
<1>1. PICK n : Stored' \subseteq Stored \cup {n}
  <2>1. CASE files' = files
    BY <2>1 DEF Stored
  <2>2. ASSUME NEW m \in Name, NEW c, files' = [files EXCEPT ![m] = c]
        PROVE  Stored' \subseteq Stored \cup {m}
    BY <2>2 DEF Stored, TypeOK
  <2>3. CASE \E m \in Name : \E c : files' = [files EXCEPT ![m] = c]
    BY <2>2, <2>3
  <2>4. files' = files \/ \E m \in Name : \E c : files' = [files EXCEPT ![m] = c]
    BY StoreAssumption
       DEF StoreNext, Store, Link, Remove, Activate, Deactivate, Rescue, storeVars
  <2>5. QED BY <2>1, <2>3, <2>4
<1>2. IsFiniteSet(Stored \cup {n})
  BY FS_AddElement
<1>3. QED BY <1>1, <1>2, FS_Subset

(* Every step of a single session keeps its promises.                      *)
LEMMA OkInvNext ==
  ASSUME OneSession, Readable, OrigContent \in ReplaceValid, OrigApart,
         StorageInv, SoleInv, OkInv, [Next]_vars
  PROVE  OkInv'
<1>1. TypeOK /\ IsFiniteSet(Stored)
  BY DEF StorageInv, OkInv
<1>2. [StoreNext]_storeVars
  BY SoleInvNext
<1>3. IsFiniteSet(Stored')
  BY <1>1, <1>2, StoredStaysFinite
<1>4. CASE UNCHANGED vars
  <2>1. sess' = sess /\ files' = files /\ active' = active
    BY <1>4 DEF vars
  <2>2. \A s \in Session : Promise(sess'[s], files', active')
    BY <2>1 DEF OkInv
  <2>3. QED BY <1>3, <2>2 DEF OkInv
<1>5. ASSUME NEW s \in Session, Begin(s) \/ Step(s) \/ Crash(s) PROVE OkInv'
  <2>1. PromiseKept(s)
    <3>1. CASE Begin(s) \/ Crash(s)
      BY <1>1, <3>1, BeginPromise
    <3>2. CASE Step(s)
      BY <3>2, UploadPromise, ActivationPromise, RemovalPromise DEF Step
    <3>3. QED BY <1>5, <3>1, <3>2
  <2>2. \A t \in Session : Promise(sess'[t], files', active')
    BY <2>1 DEF PromiseKept, OneSession
  <2>3. QED BY <1>3, <2>2 DEF OkInv
<1>6. QED BY <1>4, <1>5 DEF Next

(* At first nothing is stored and nothing was promised.                    *)
LEMMA OkInvInit == Init => OkInv
<1>1. SUFFICES ASSUME Init PROVE OkInv
  OBVIOUS
<1>2. Stored = {}
  BY <1>1 DEF Init, StoreInit, Stored
<1>3. ASSUME NEW s \in Session PROVE Promise(sess[s], files, active)
  <2>1. sess[s] = NewCommand("none", NoName, NoName)
    BY <1>1 DEF Init
  <2>2. sess[s].pc = "idle" /\ sess[s].reply # "OK"
    BY <2>1 DEF NewCommand
  <2>3. QED BY <2>2, NothingPromised
<1>4. QED BY <1>2, <1>3, FS_EmptySet DEF OkInv

(* The step that puts an upload in place finds the room that was found.    *)
LEMMA PlacedWithinCount ==
  ASSUME OneSession, StorageInv, OkInv, [Next]_vars, NEW s \in Session, At(s, "move"), files' # files
  PROVE  Cardinality(Stored') <= MaxScripts
<1> DEFINE r == sess[s]
<1>1. r \in SessionState /\ Sound(r, tmp[s]) /\ Promise(r, files, active) /\ TypeOK
  BY DEF StorageInv, OkInv, TypeOK, SessionsSound
<1>2. Begin(s) \/ Step(s) \/ Crash(s)
  BY DEF Next, vars, OneSession
<1>3. files' = [files EXCEPT ![r.name] = tmp[s]]
  <2>1. CASE Begin(s) \/ Crash(s)
    BY <1>1, <2>1, BeginAlone DEF storeVars
  <2>2. CASE Step(s)
    <3>1. Move(s) \/ MoveFailed(s)
      BY <2>2 DEF Step, At, UploadDone, UploadFailed, QuotaCheck, WillActivate,
           IsActivatingDefault, StatDefault, StatDefaultError, OpenNew, SetActiveCheck,
           SetActiveCompile, ActivateStat, ActivateRescue, ActivateLink, ActivateReplace,
           ActivateError, DeactivateRescue, DeactivateUnlink, DeactivateError, DeleteCheck,
           DeleteUnlink, Rollback, RollbackDeactivate, RollbackUnlink, RenameLink, RenameCheck,
           RenameActivate, RenameActivateError, RenameUnlinkOld, RenameUnlinkNew,
           RenameDefaultCheck, RenameDefaultCopy, RenameDefaultActive
    <3>2. QED BY <3>1 DEF Move, MoveFailed, Cancel, storeVars
  <2>3. QED BY <1>2, <2>1, <2>2
<1>4. r.name \in Name /\ tmp[s] = r.content /\ r.content \in UploadValid
  BY <1>1 DEF At, Sound, Uploading, Committing
<1>5. tmp[s] # NoFile /\ r.name # NoName
  BY <1>4, StoreAssumption
<1>6. Cardinality(Stored \ {r.name}) + 1 <= MaxScripts
  BY <1>1, <1>5, StoredNow DEF At, Promise, HasPlace
<1> DEFINE others == Stored \ {r.name}
<1>7. Stored' = others \cup {r.name}
  BY <1>1, <1>3, <1>4, <1>5 DEF Stored, TypeOK
<1>8. IsFiniteSet(others) /\ r.name \notin others
  BY FS_RemoveElement DEF OkInv
<1>9. Cardinality(others \cup {r.name}) = Cardinality(others) + 1
  BY <1>8, FS_AddElement
<1>10. QED BY <1>6, <1>7, <1>9

(* With one session at a time, whichever system call but readlink(2) fails *)
(* and wherever the session dies, a command that was answered with OK did  *)
(* what it was asked to do (cmd-*.c), and an upload that was let in leaves *)
(* at most quota_script_count scripts (sieve_file_storage_quota_havespace).*)
THEOREM OkMeansDone == Exclusive /\ OrigApart => (Spec => OkIsTrue)
<1> SUFFICES ASSUME Exclusive, OrigApart PROVE Spec => OkIsTrue
  OBVIOUS
<1> DEFINE AllInv == StorageInv /\ SoleInv /\ OkInv
<1>1. Init => AllInv
  BY StorageInvInit, SoleInvInit, OkInvInit
<1>2. AllInv /\ [Next]_vars => AllInv'
  BY StorageInvNext, SoleInvNext, OkInvNext DEF Exclusive
<1>3. AllInv => TypeOK /\ Acknowledged
  <2>1. SUFFICES ASSUME AllInv, NEW s \in Session, At(s, "idle"), sess[s].reply = "OK"
                 PROVE  Done(sess[s])
    BY DEF StorageInv, Acknowledged
  <2>2. sess[s] \in SessionState /\ Promise(sess[s], files, active)
    BY <2>1 DEF StorageInv, OkInv, TypeOK
  <2>3. Carried(sess[s], files, active)
    BY <2>1, <2>2 DEF Promise, At
  <2>4. QED BY <2>2, <2>3, CarriedIsDone
<1>4. AllInv /\ [Next]_vars =>
        [\A s \in Session : At(s, "move") /\ ~At(s, "move")' /\ files' # files =>
           Cardinality(Stored') <= MaxScripts]_vars
  BY PlacedWithinCount DEF Exclusive
<1> HIDE DEF AllInv
<1>5. QED BY <1>1, <1>2, <1>3, <1>4, PTL DEF Spec, OkIsTrue, UploadWithinCount

-----------------------------------------------------------------------------
(* Temporary files and renames, for any number of sessions *)

HoldsTmp == {"upload"} \cup Uploading

(* A temporary file belongs to an upload that has not ended, or was left   *)
(* by the one that ended last.                                             *)
MayHoldTmp(r) == r.pc \in HoldsTmp \/ (r.pc = "idle" /\ r.failed \in {"unlink", "stat"})
TmpInv == \A s \in Session : tmp[s] # NoFile => MayHoldTmp(sess[s])

(* Only the default script is copied.                                      *)
CopyInv == \A s \in Session : sess[s].pc \in {"checknew", "copy"} => sess[s].open = "default"

(* The steps of a session in the middle of a command, other than those of  *)
(* an upload.                                                              *)
LaterStep(s) ==
  \/ OpenNew(s) \/ SetActiveCheck(s) \/ SetActiveCompile(s) \/ ActivateStat(s)
  \/ ActivateRescue(s) \/ ActivateLink(s) \/ ActivateReplace(s) \/ ActivateError(s)
  \/ DeactivateRescue(s) \/ DeactivateUnlink(s) \/ DeactivateError(s)
  \/ DeleteCheck(s) \/ DeleteUnlink(s) \/ Rollback(s) \/ RollbackDeactivate(s) \/ RollbackUnlink(s)
  \/ RenameLink(s) \/ RenameCheck(s) \/ RenameActivate(s) \/ RenameActivateError(s)
  \/ RenameUnlinkOld(s) \/ RenameUnlinkNew(s)
  \/ RenameDefaultCheck(s) \/ RenameDefaultCopy(s) \/ RenameDefaultActive(s)

(* They have no temporary file, and do not make one.                       *)
LEMMA LaterStepTmp ==
  ASSUME NEW s \in Session, LaterStep(s)
  PROVE  tmp' = tmp /\ ~MayHoldTmp(sess[s])
<1> USE DEF At, MayHoldTmp, HoldsTmp, Uploading
<1>1. CASE OpenNew(s) \/ SetActiveCheck(s) \/ SetActiveCompile(s) \/ ActivateStat(s)
  BY <1>1 DEF OpenNew, SetActiveCheck, SetActiveCompile, ActivateStat
<1>2. CASE ActivateRescue(s) \/ ActivateLink(s) \/ ActivateReplace(s) \/ ActivateError(s)
  BY <1>2 DEF ActivateRescue, ActivateLink, ActivateReplace, ActivateError
<1>3. CASE DeactivateRescue(s) \/ DeactivateUnlink(s) \/ DeactivateError(s)
  BY <1>3 DEF DeactivateRescue, DeactivateUnlink, DeactivateError
<1>4. CASE DeleteCheck(s) \/ DeleteUnlink(s) \/ Rollback(s) \/ RollbackDeactivate(s) \/ RollbackUnlink(s)
  BY <1>4 DEF DeleteCheck, DeleteUnlink, Rollback, RollbackDeactivate, RollbackUnlink
<1>5. CASE RenameLink(s) \/ RenameCheck(s) \/ RenameActivate(s) \/ RenameActivateError(s)
  BY <1>5 DEF RenameLink, RenameCheck, RenameActivate, RenameActivateError
<1>6. CASE RenameUnlinkOld(s) \/ RenameUnlinkNew(s)
  BY <1>6 DEF RenameUnlinkOld, RenameUnlinkNew
<1>7. CASE RenameDefaultCheck(s) \/ RenameDefaultCopy(s) \/ RenameDefaultActive(s)
  BY <1>7 DEF RenameDefaultCheck, RenameDefaultCopy, RenameDefaultActive
<1>8. QED BY <1>1, <1>2, <1>3, <1>4, <1>5, <1>6, <1>7 DEF LaterStep

(* A step of one session leaves the records and the temporary files of the *)
(* others alone.                                                           *)
LEMMA OthersUntouched ==
  ASSUME TypeOK, NEW s \in Session, Begin(s) \/ Step(s) \/ Crash(s), NEW q \in Session, q # s
  PROVE  sess'[q] = sess[q] /\ tmp'[q] = tmp[q]
<1>1. ASSUME NEW r, sess' = [sess EXCEPT ![s] = r] PROVE sess'[q] = sess[q]
  BY <1>1 DEF TypeOK
<1>2. ASSUME NEW t, tmp' = tmp \/ tmp' = [tmp EXCEPT ![s] = t] PROVE tmp'[q] = tmp[q]
  BY <1>2 DEF TypeOK
<1>3. ASSUME NEW p, Goto(s, p) PROVE sess'[q] = sess[q]
  BY <1>3 DEF TypeOK, Goto
<1>4. ASSUME NEW reply, \/ Reply(s, reply) \/ DropTmp(s, reply)
                        \/ \E call : ReplyAndLog(s, reply, call)
      PROVE  sess'[q] = sess[q]
  BY <1>4 DEF TypeOK, Reply, ReplyAndLog, DropTmp
<1>5. CASE Begin(s)
  <2>1. PICK r : sess' = [sess EXCEPT ![s] = r]
    BY <1>5, Zenon DEF Begin, PutScript, SetActive, DeactivateScript, DeleteScript, RenameScript
  <2>2. PICK t : tmp' = [tmp EXCEPT ![s] = t]
    BY <1>5, Zenon DEF Begin, PutScript, SetActive, DeactivateScript, DeleteScript, RenameScript, NoUpload
  <2>3. QED BY <1>1, <1>2, <2>1, <2>2
<1>6. CASE Crash(s)
  BY <1>1, <1>2, <1>6 DEF Crash
<1>7. CASE UploadDone(s) \/ UploadFailed(s) \/ QuotaCheck(s) \/ StatDefaultError(s) \/ Move(s) \/ MoveFailed(s)
  <2>1. CASE UploadDone(s) \/ Move(s) \/ StatDefaultError(s)
    BY <1>2, <1>3, <1>4, <2>1 DEF UploadDone, StatDefaultError, Move
  <2>2. CASE UploadFailed(s) \/ QuotaCheck(s) \/ MoveFailed(s)
    <3>1. tmp'[q] = tmp[q]
      BY <1>2, <2>2 DEF UploadFailed, QuotaCheck, MoveFailed, Cancel, DropTmp
    <3>2. QED BY <1>3, <1>4, <2>2, <3>1 DEF UploadFailed, QuotaCheck, MoveFailed, Cancel
  <2>3. QED BY <1>7, <2>1, <2>2
<1>8. CASE WillActivate(s) \/ IsActivatingDefault(s) \/ StatDefault(s)
  <2>1. tmp'[q] = tmp[q]
    BY <1>2, <1>8 DEF WillActivate, IsActivatingDefault, StatDefault, DropTmp
  <2>2. CASE WillActivate(s)
    <3>1. PICK was : \/ sess' = [sess EXCEPT ![s].pc = "default", ![s].was = was]
                     \/ \E reply : DropTmp(s, reply)
      BY <2>2 DEF WillActivate
    <3>2. QED BY <1>4, <2>1, <3>1 DEF TypeOK
  <2>3. CASE IsActivatingDefault(s)
    BY <1>3, <2>1, <2>3 DEF IsActivatingDefault
  <2>4. CASE StatDefault(s)
    BY <2>1, <2>4 DEF StatDefault, TypeOK
  <2>5. QED BY <1>8, <2>2, <2>3, <2>4
<1>9. CASE LaterStep(s)
  <2>1. tmp'[q] = tmp[q]
    BY <1>9, LaterStepTmp
  <2>2. CASE OpenNew(s)
    BY <1>4, <2>1, <2>2 DEF OpenNew, TypeOK
  <2>3. CASE SetActiveCheck(s) \/ SetActiveCompile(s) \/ ActivateStat(s)
    BY <1>3, <1>4, <2>1, <2>3 DEF SetActiveCheck, SetActiveCompile, ActivateStat, ActivateFailed
  <2>4. CASE ActivateRescue(s) \/ ActivateLink(s) \/ ActivateReplace(s) \/ ActivateError(s)
    BY <1>3, <1>4, <2>1, <2>4 DEF ActivateRescue, ActivateLink, ActivateReplace, ActivateError, ActivateFailed
  <2>5. CASE DeactivateRescue(s) \/ DeactivateUnlink(s) \/ DeactivateError(s)
    BY <1>3, <1>4, <2>1, <2>5 DEF DeactivateRescue, DeactivateUnlink, DeactivateError
  <2>6. CASE DeleteCheck(s) \/ DeleteUnlink(s) \/ Rollback(s) \/ RollbackDeactivate(s) \/ RollbackUnlink(s)
    BY <1>3, <1>4, <2>1, <2>6 DEF DeleteCheck, DeleteUnlink, Rollback, RollbackDeactivate, RollbackUnlink
  <2>7. CASE RenameLink(s) \/ RenameCheck(s) \/ RenameActivate(s) \/ RenameActivateError(s)
    BY <1>3, <1>4, <2>1, <2>7 DEF RenameLink, RenameCheck, RenameActivate, RenameActivateError
  <2>8. CASE RenameUnlinkOld(s) \/ RenameUnlinkNew(s)
    BY <1>4, <2>1, <2>8 DEF RenameUnlinkOld, RenameUnlinkNew
  <2>9. CASE RenameDefaultCheck(s) \/ RenameDefaultCopy(s) \/ RenameDefaultActive(s)
    BY <1>3, <1>4, <2>1, <2>9 DEF RenameDefaultCheck, RenameDefaultCopy, RenameDefaultActive, TypeOK
  <2>10. QED BY <1>9, <2>2, <2>3, <2>4, <2>5, <2>6, <2>7, <2>8, <2>9 DEF LaterStep
<1>10. QED BY <1>5, <1>6, <1>7, <1>8, <1>9 DEF Step, LaterStep

LEMMA TmpInvNext ==
  ASSUME TypeOK, TmpInv, [Next]_vars
  PROVE  TmpInv'
<1>1. CASE UNCHANGED vars
  BY <1>1 DEF vars, TmpInv
<1>2. ASSUME NEW s \in Session, Begin(s) \/ Step(s) \/ Crash(s) PROVE TmpInv'
  <2>1. SUFFICES tmp'[s] # NoFile => MayHoldTmp(sess'[s])
    BY <1>2, <2>1, OthersUntouched DEF TmpInv
  <2>2. ASSUME NEW t, tmp' = [tmp EXCEPT ![s] = t] PROVE tmp'[s] = t
    BY <2>2 DEF TypeOK
  <2>3. sess[s] \in SessionState /\ (tmp[s] # NoFile => MayHoldTmp(sess[s]))
    BY DEF TypeOK, TmpInv
  <2>4. ASSUME NEW p \in HoldsTmp, Goto(s, p) PROVE MayHoldTmp(sess'[s])
    BY <2>4, GotoFields DEF MayHoldTmp
  <2>0. ASSUME NEW reply, NEW call \in {"unlink", "stat"}, ReplyAndLog(s, reply, call)
        PROVE  MayHoldTmp(sess'[s])
    <3>1. sess'[s] = [Replied(sess[s], reply) EXCEPT !.failed = call]
      BY <2>0 DEF TypeOK, ReplyAndLog
    <3>2. sess'[s].pc = "idle" /\ sess'[s].failed = call
      BY <2>3, <3>1 DEF Replied, SessionState
    <3>3. QED BY <3>2 DEF MayHoldTmp
  <2>5. CASE PutScript(s)
    <3>1. PICK n \in Name \cup {NoName}, c \in Content, quoted \in BOOLEAN :
            LET r == [NewCommand("put", n, NoName) EXCEPT !.content = c, !.quoted = quoted]
            IN  \/ tmp' = [tmp EXCEPT ![s] = NoFile]
                \/ sess' = [sess EXCEPT ![s] = [r EXCEPT !.pc = "upload"]]
      BY <2>5, Zenon DEF PutScript
    <3> DEFINE r == [NewCommand("put", n, NoName) EXCEPT !.content = c, !.quoted = quoted]
    <3>2. CASE sess' = [sess EXCEPT ![s] = [r EXCEPT !.pc = "upload"]]
      <4>1. sess'[s] = [r EXCEPT !.pc = "upload"]
        BY <3>2 DEF TypeOK
      <4>2. sess'[s].pc = "upload"
        BY <4>1 DEF NewCommand
      <4>3. QED BY <4>2 DEF MayHoldTmp, HoldsTmp
    <3>3. QED BY <2>2, <3>1, <3>2
  <2>6. CASE SetActive(s) \/ DeactivateScript(s) \/ DeleteScript(s) \/ RenameScript(s)
    BY <2>2, <2>6 DEF SetActive, DeactivateScript, DeleteScript, RenameScript, NoUpload
  <2>7. CASE Crash(s) \/ UploadFailed(s) \/ MoveFailed(s) \/ Move(s)
    BY <2>0, <2>2, <2>7 DEF Crash, UploadFailed, MoveFailed, Move, Cancel, DropTmp
  <2>8. CASE UploadDone(s) \/ IsActivatingDefault(s)
    BY <2>4, <2>8 DEF UploadDone, IsActivatingDefault, HoldsTmp, Uploading
  <2>9. CASE QuotaCheck(s)
    BY <2>0, <2>2, <2>4, <2>9 DEF QuotaCheck, Cancel, DropTmp, HoldsTmp, Uploading
  <2>10. CASE WillActivate(s)
    <3>1. PICK was : \/ sess' = [sess EXCEPT ![s].pc = "default", ![s].was = was]
                     \/ \E reply : DropTmp(s, reply)
      BY <2>10 DEF WillActivate
    <3>2. CASE sess' = [sess EXCEPT ![s].pc = "default", ![s].was = was]
      <4>1. sess'[s] = [sess[s] EXCEPT !.pc = "default", !.was = was]
        BY <3>2 DEF TypeOK
      <4>2. sess'[s].pc = "default"
        BY <2>3, <4>1 DEF SessionState
      <4>3. QED BY <4>2 DEF MayHoldTmp, HoldsTmp, Uploading
    <3>3. QED BY <2>0, <2>2, <3>1, <3>2 DEF DropTmp
  <2>11. CASE StatDefault(s)
    <3>1. sess'[s] = [sess[s] EXCEPT !.pc = "move", !.implicit = sess[s].name \notin Stored]
      BY <2>11 DEF TypeOK, StatDefault
    <3>2. sess'[s].pc = "move"
      BY <2>3, <3>1 DEF SessionState
    <3>3. QED BY <3>2 DEF MayHoldTmp, HoldsTmp, Uploading
  <2>12. CASE StatDefaultError(s)
    BY <2>0, <2>12 DEF StatDefaultError
  <2>13. CASE LaterStep(s)
    BY <2>3, <2>13, LaterStepTmp
  <2>14. QED
    BY <1>2, <2>5, <2>6, <2>7, <2>8, <2>9, <2>10, <2>11, <2>12, <2>13 DEF Begin, Step, LaterStep
<1>3. QED BY <1>1, <1>2 DEF Next

(* However an upload ends, stored, refused, failed or cut off, no session  *)
(* leaves its temporary file in the storage (sieve_file_storage_save_cancel*)
(* and sieve_file_storage_script_move), whichever calls fail, unless it is *)
(* the unlink(2) of that file or the stat(2) of the commit.                *)
THEOREM NothingLeftBehind == Spec => []NoTmpLeft
<1>1. Init => TmpInv
  BY DEF Init, TmpInv
<1>2. StorageInv /\ TmpInv /\ [Next]_vars => (StorageInv /\ TmpInv)'
  BY StorageInvNext, TmpInvNext DEF StorageInv
<1>3. TmpInv => NoTmpLeft
  BY DEF TmpInv, NoTmpLeft, At, MayHoldTmp, HoldsTmp, Uploading
<1>4. QED BY <1>1, <1>2, <1>3, StorageInvInit, PTL DEF Spec

(* There is no regular file of an old installation, which is only copied   *)
(* over OrigName when a script is activated.                               *)
NoOldFile == Regular \notin StartActive
NoRegular == active # Regular

(* The steps that do not touch the scripts.                                *)
QuietStep(s) ==
  \/ UploadDone(s) \/ UploadFailed(s) \/ QuotaCheck(s) \/ WillActivate(s)
  \/ IsActivatingDefault(s) \/ StatDefault(s) \/ StatDefaultError(s) \/ MoveFailed(s)
  \/ OpenNew(s) \/ SetActiveCheck(s) \/ SetActiveCompile(s) \/ ActivateStat(s) \/ ActivateError(s)
  \/ DeactivateError(s) \/ DeleteCheck(s) \/ Rollback(s)
  \/ RenameCheck(s) \/ RenameActivateError(s) \/ RenameDefaultCheck(s) \/ RenameDefaultActive(s)

LEMMA QuietStepKeeps ==
  ASSUME NEW s \in Session, Begin(s) \/ QuietStep(s) \/ Crash(s)
  PROVE  UNCHANGED storeVars
<1>1. CASE Begin(s) \/ Crash(s)
  BY <1>1 DEF Begin, PutScript, SetActive, DeactivateScript, DeleteScript, RenameScript, NoUpload, Crash
<1>2. CASE UploadDone(s) \/ UploadFailed(s) \/ QuotaCheck(s) \/ WillActivate(s)
           \/ IsActivatingDefault(s) \/ StatDefault(s) \/ StatDefaultError(s) \/ MoveFailed(s)
  BY <1>2 DEF UploadDone, UploadFailed, QuotaCheck, WillActivate, IsActivatingDefault, StatDefault,
              StatDefaultError, MoveFailed, Cancel, storeVars
<1>3. CASE OpenNew(s) \/ SetActiveCheck(s) \/ SetActiveCompile(s) \/ ActivateStat(s) \/ ActivateError(s)
           \/ DeactivateError(s) \/ DeleteCheck(s) \/ Rollback(s)
  BY <1>3 DEF OpenNew, SetActiveCheck, SetActiveCompile, ActivateStat, ActivateError, DeactivateError,
              DeleteCheck, Rollback, storeVars
<1>4. CASE RenameCheck(s) \/ RenameActivateError(s) \/ RenameDefaultCheck(s) \/ RenameDefaultActive(s)
  BY <1>4 DEF RenameCheck, RenameActivateError, RenameDefaultCheck, RenameDefaultActive, storeVars
<1>5. QED BY <1>1, <1>2, <1>3, <1>4 DEF QuietStep

(* No step makes the active link a regular file.                           *)
LEMMA NoRegularNext ==
  ASSUME StorageInv, NoRegular, NEW s \in Session, Begin(s) \/ Step(s) \/ Crash(s)
  PROVE  NoRegular'
<1>1. Sound(sess[s], tmp[s]) /\ Target(s) = TargetOf(sess[s])
  BY DEF StorageInv, SessionsSound, Target, TargetOf
<1>2. Regular \notin Name /\ Regular # NoLink
  BY StoreAssumption
<1>3. CASE Begin(s) \/ QuietStep(s) \/ Crash(s)
  BY <1>3, QuietStepKeeps DEF NoRegular, storeVars
<1>4. CASE Move(s) \/ DeleteUnlink(s) \/ RollbackUnlink(s) \/ RenameLink(s) \/ RenameUnlinkOld(s)
           \/ RenameUnlinkNew(s) \/ RenameDefaultCopy(s)
  BY <1>4 DEF NoRegular, Move, DeleteUnlink, RollbackUnlink, RenameLink, RenameUnlinkOld,
              RenameUnlinkNew, RenameDefaultCopy
<1>5. CASE ActivateRescue(s) \/ DeactivateRescue(s)
  BY <1>5 DEF NoRegular, ActivateRescue, DeactivateRescue, RescueRegular, storeVars
<1>6. CASE ActivateLink(s) \/ ActivateReplace(s)
  BY <1>1, <1>2, <1>6 DEF NoRegular, ActivateLink, ActivateReplace, At, Sound, Activating
<1>7. CASE DeactivateUnlink(s) \/ RollbackDeactivate(s)
  BY <1>2, <1>7 DEF NoRegular, DeactivateUnlink, RollbackDeactivate
<1>8. CASE RenameActivate(s)
  BY <1>1, <1>2, <1>8 DEF NoRegular, RenameActivate, At, Sound, Renaming
<1>9. QED
  BY <1>3, <1>4, <1>5, <1>6, <1>7, <1>8 DEF Step, QuietStep

(* A script is opened as the default one before it is copied.              *)
LEMMA CopyInvNext ==
  ASSUME StorageInv, CopyInv, NEW s \in Session, Begin(s) \/ Step(s) \/ Crash(s)
  PROVE  CopyInv'
<1> DEFINE Copying(r) == r.pc \in {"checknew", "copy"}
<1>1. SUFFICES Copying(sess'[s]) => sess'[s].open = "default"
  BY <1>1, OthersUntouched DEF StorageInv, CopyInv
<1>2. sess[s] \in SessionState /\ (Copying(sess[s]) => sess[s].open = "default")
  BY DEF StorageInv, TypeOK, CopyInv
<1>3. ASSUME NEW r, sess' = [sess EXCEPT ![s] = r] PROVE sess'[s] = r
  BY <1>3 DEF StorageInv, TypeOK
<1>4. ASSUME NEW reply, \/ Reply(s, reply) \/ DropTmp(s, reply)
                        \/ \E call : ReplyAndLog(s, reply, call)
      PROVE  sess'[s].pc = "idle"
  <2>1. \/ sess'[s] = Replied(sess[s], reply)
        \/ \E call : sess'[s] = [Replied(sess[s], reply) EXCEPT !.failed = call]
    BY <1>4 DEF Reply, ReplyAndLog, DropTmp, StorageInv, TypeOK
  <2>2. QED BY <1>2, <2>1 DEF Replied, SessionState
<1>5. ASSUME NEW p, Goto(s, p) PROVE sess'[s].pc = p /\ sess'[s].open = sess[s].open
  BY <1>2, <1>5, GotoFields DEF StorageInv
<1>6. CASE PutScript(s)
  <2>1. PICK n \in Name \cup {NoName}, c \in Content, quoted \in BOOLEAN :
          LET r == [NewCommand("put", n, NoName) EXCEPT !.content = c, !.quoted = quoted]
          IN  \/ sess' = [sess EXCEPT ![s] = Replied(r, "NO")]
              \/ sess' = [sess EXCEPT ![s] = [r EXCEPT !.pc = "upload"]]
    BY <1>6, Zenon DEF PutScript
  <2>2. sess'[s].pc \in {"idle", "upload"}
    BY <1>3, <2>1 DEF Replied, NewCommand
  <2>3. QED BY <2>2
<1>7. CASE SetActive(s) \/ DeleteScript(s) \/ DeactivateScript(s)
  <2>1. CASE SetActive(s)
    <3>1. PICK n \in Name :
            \/ sess' = [sess EXCEPT ![s] = [NewCommand("setactive", n, NoName) EXCEPT !.pc = "isactive",
                                                                            !.open = OpenedAs(n)]]
            \/ sess' = [sess EXCEPT ![s] = Replied(NewCommand("setactive", n, NoName), "NO")]
      BY <2>1, Zenon DEF SetActive
    <3>2. sess'[s].pc \in {"idle", "isactive"}
      BY <1>3, <3>1 DEF Replied, NewCommand
    <3>3. QED BY <3>2
  <2>2. CASE DeleteScript(s)
    <3>1. PICK n \in Name :
            \/ sess' = [sess EXCEPT ![s] = [NewCommand("delete", n, NoName) EXCEPT !.pc = "delcheck",
                                                                         !.open = OpenedAs(n)]]
            \/ sess' = [sess EXCEPT ![s] = Replied(NewCommand("delete", n, NoName), "NO")]
      BY <2>2, Zenon DEF DeleteScript
    <3>2. sess'[s].pc \in {"idle", "delcheck"}
      BY <1>3, <3>1 DEF Replied, NewCommand
    <3>3. QED BY <3>2
  <2>3. CASE DeactivateScript(s)
    BY <1>3, <2>3 DEF DeactivateScript, NewCommand
  <2>4. QED BY <1>7, <2>1, <2>2, <2>3
<1>8. CASE RenameScript(s)
  <2>1. PICK n \in Name, m \in Name :
          \/ sess' = [sess EXCEPT ![s] = [NewCommand("rename", n, m) EXCEPT
                        !.pc = IF OpenedAs(n) = "own" THEN "link" ELSE "checknew",
                        !.open = OpenedAs(n)]]
          \/ sess' = [sess EXCEPT ![s] = Replied(NewCommand("rename", n, m), "NO")]
    BY <1>8, Zenon DEF RenameScript
  <2>2. CASE sess' = [sess EXCEPT ![s] = Replied(NewCommand("rename", n, m), "NO")]
    BY <1>3, <2>2 DEF Replied, NewCommand
  <2>3. CASE sess' = [sess EXCEPT ![s] = [NewCommand("rename", n, m) EXCEPT
                        !.pc = IF OpenedAs(n) = "own" THEN "link" ELSE "checknew",
                        !.open = OpenedAs(n)]]
    BY <1>3, <2>3 DEF NewCommand, OpenedAs
  <2>4. QED BY <2>1, <2>2, <2>3
<1>9. CASE Crash(s)
  BY <1>3, <1>9 DEF Crash, NewCommand
<1>10. CASE UploadDone(s) \/ UploadFailed(s) \/ QuotaCheck(s) \/ IsActivatingDefault(s)
            \/ StatDefaultError(s) \/ Move(s) \/ MoveFailed(s)
  BY <1>4, <1>5, <1>10 DEF UploadDone, UploadFailed, QuotaCheck, IsActivatingDefault, StatDefaultError,
                           Move, MoveFailed, Cancel
<1>11. CASE WillActivate(s) \/ StatDefault(s) \/ OpenNew(s)
  <2>1. CASE WillActivate(s)
    <3>1. PICK was : \/ sess' = [sess EXCEPT ![s].pc = "default", ![s].was = was]
                     \/ \E reply : DropTmp(s, reply)
      BY <2>1 DEF WillActivate
    <3>2. CASE sess' = [sess EXCEPT ![s].pc = "default", ![s].was = was]
      <4>1. sess'[s] = [sess[s] EXCEPT !.pc = "default", !.was = was]
        BY <3>2 DEF StorageInv, TypeOK
      <4>2. QED BY <1>2, <4>1 DEF SessionState
    <3>3. QED BY <1>4, <3>1, <3>2
  <2>2. CASE StatDefault(s)
    <3>1. sess'[s] = [sess[s] EXCEPT !.pc = "move", !.implicit = sess[s].name \notin Stored]
      BY <2>2 DEF StorageInv, TypeOK, StatDefault
    <3>2. QED BY <1>2, <3>1 DEF SessionState
  <2>3. CASE OpenNew(s)
    <3>1. CASE Opens(Target(s))
      <4>1. sess'[s] = [sess[s] EXCEPT !.open = OpenedAs(Target(s)),
                          !.pc = IF OpenedAs(Target(s)) = "own" THEN "lstat" ELSE "rescue2"]
        BY <2>3, <3>1 DEF StorageInv, TypeOK, OpenNew
      <4>2. QED BY <1>2, <4>1 DEF SessionState
    <3>2. QED BY <1>4, <2>3, <3>1 DEF OpenNew
  <2>4. QED BY <1>11, <2>1, <2>2, <2>3
<1>12. CASE SetActiveCheck(s) \/ SetActiveCompile(s) \/ ActivateStat(s)
            \/ ActivateRescue(s) \/ ActivateLink(s) \/ ActivateReplace(s) \/ ActivateError(s)
  BY <1>4, <1>5, <1>12 DEF SetActiveCheck, SetActiveCompile, ActivateStat, ActivateRescue, ActivateLink,
                           ActivateReplace, ActivateError, ActivateFailed, AfterCompile
<1>13. CASE DeactivateRescue(s) \/ DeactivateUnlink(s) \/ DeactivateError(s)
            \/ DeleteCheck(s) \/ DeleteUnlink(s) \/ Rollback(s) \/ RollbackDeactivate(s) \/ RollbackUnlink(s)
  BY <1>4, <1>5, <1>13 DEF DeactivateRescue, DeactivateUnlink, DeactivateError, DeleteCheck,
                           DeleteUnlink, Rollback, RollbackDeactivate, RollbackUnlink
<1>14. CASE RenameLink(s) \/ RenameCheck(s) \/ RenameActivate(s) \/ RenameActivateError(s)
            \/ RenameUnlinkOld(s) \/ RenameUnlinkNew(s)
  BY <1>4, <1>5, <1>14 DEF RenameLink, RenameCheck, RenameActivate, RenameActivateError,
                           RenameUnlinkOld, RenameUnlinkNew
<1>15. CASE RenameDefaultCheck(s) \/ RenameDefaultCopy(s) \/ RenameDefaultActive(s)
  <2>1. CASE sess' = [sess EXCEPT ![s].pc = "copied", ![s].failed = "rename"]
    <3>1. sess'[s] = [sess[s] EXCEPT !.pc = "copied", !.failed = "rename"]
      BY <2>1 DEF StorageInv, TypeOK
    <3>2. QED BY <1>2, <3>1 DEF SessionState
  <2>2. QED
    BY <1>2, <1>4, <1>5, <1>15, <2>1 DEF RenameDefaultCheck, RenameDefaultCopy, RenameDefaultActive, At
<1>16. QED
  BY <1>2, <1>6, <1>7, <1>8, <1>9, <1>10, <1>11, <1>12, <1>13, <1>14, <1>15 DEF Begin, Step

(* What a step of a session that renames a stored script does to the       *)
(* scripts: link(2) never replaces one, and the others remove a name.      *)
LEMMA RenameStep ==
  ASSUME StorageInv, NoRegular, CopyInv, NEW s \in Session, Begin(s) \/ Step(s) \/ Crash(s),
         sess[s].cmd = "rename", sess[s].open = "own"
  PROVE  \A n \in Stored : files'[n] \in {files[n], NoFile}
<1>1. /\ files \in [Name -> Content \cup {NoFile}]
      /\ Sound(sess[s], tmp[s]) /\ Target(s) = TargetOf(sess[s])
      /\ sess[s].pc \in {"checknew", "copy"} => sess[s].open = "default"
      /\ Stored \subseteq Name
  BY DEF StorageInv, TypeOK, SessionsSound, CopyInv, Target, TargetOf, Stored
<1>2. ASSUME UNCHANGED files PROVE \A n \in Stored : files'[n] \in {files[n], NoFile}
  BY <1>2
<1>3. ASSUME NEW m, files' = [files EXCEPT ![m] = NoFile]
      PROVE  \A n \in Stored : files'[n] \in {files[n], NoFile}
  BY <1>1, <1>3
<1>4. CASE Begin(s) \/ QuietStep(s) \/ Crash(s)
  BY <1>2, <1>4, QuietStepKeeps DEF storeVars
<1>5. CASE Move(s)
  BY <1>1, <1>5 DEF Move, At, Sound, Uploading
<1>6. CASE ActivateRescue(s) \/ DeactivateRescue(s)
  BY <1>2, <1>6 DEF NoRegular, ActivateRescue, DeactivateRescue, RescueRegular, storeVars
<1>7. CASE ActivateLink(s) \/ ActivateReplace(s) \/ DeactivateUnlink(s) \/ RollbackDeactivate(s)
           \/ RenameActivate(s)
  BY <1>2, <1>7 DEF ActivateLink, ActivateReplace, DeactivateUnlink, RollbackDeactivate, RenameActivate
<1>8. CASE DeleteUnlink(s) \/ RollbackUnlink(s) \/ RenameUnlinkOld(s) \/ RenameUnlinkNew(s)
  BY <1>2, <1>3, <1>8 DEF DeleteUnlink, RollbackUnlink, RenameUnlinkOld, RenameUnlinkNew
<1>9. CASE RenameLink(s)
  <2>1. CASE sess[s].to \notin Stored /\ files' = [files EXCEPT ![sess[s].to] = files[sess[s].name]]
    BY <1>1, <2>1
  <2>2. QED BY <1>2, <1>9, <2>1 DEF RenameLink
<1>10. CASE RenameDefaultCopy(s)
  BY <1>1, <1>10 DEF RenameDefaultCopy, At
<1>11. QED
  BY <1>4, <1>5, <1>6, <1>7, <1>8, <1>9, <1>10 DEF Step, QuietStep

(* Whatever another session stores under the new name between two of its   *)
(* system calls, the renaming of a stored script replaces no script        *)
(* (link(2) in sieve_file_storage_script_rename), for any number of        *)
(* sessions and whichever calls fail.                                      *)
THEOREM RenameTakesNothing == NoOldFile => (Spec => RenameOverwritesNothing)
<1> SUFFICES ASSUME NoOldFile PROVE Spec => RenameOverwritesNothing
  OBVIOUS
<1> DEFINE Inv == StorageInv /\ NoRegular /\ CopyInv
<1> DEFINE Keeps == \A s \in Session : sess[s].cmd = "rename" /\ sess[s].open = "own" /\ sess'[s] # sess[s] =>
                      \A n \in Stored : files'[n] \in {files[n], NoFile}
<1>1. Init => Inv
  BY StorageInvInit DEF Init, StoreInit, NewCommand, NoOldFile, NoRegular, CopyInv
<1>2. Inv /\ [Next]_vars => Inv'
  <2>1. SUFFICES ASSUME Inv, [Next]_vars PROVE NoRegular' /\ CopyInv'
    BY <2>1, StorageInvNext
  <2>2. CASE UNCHANGED vars
    BY <2>1, <2>2 DEF vars, NoRegular, CopyInv
  <2>3. CASE Next
    BY <2>1, <2>3, NoRegularNext, CopyInvNext DEF Next
  <2>4. QED BY <2>1, <2>2, <2>3
<1>3. Inv /\ [Next]_vars => [Keeps]_vars
  <2>1. SUFFICES ASSUME Inv, NEW q \in Session, Begin(q) \/ Step(q) \/ Crash(q) PROVE Keeps
    BY <2>1 DEF Next
  <2>2. SUFFICES ASSUME NEW s \in Session, sess[s].cmd = "rename", sess[s].open = "own", sess'[s] # sess[s]
                 PROVE  \A n \in Stored : files'[n] \in {files[n], NoFile}
    BY <2>2
  <2>3. s = q
    BY <2>1, <2>2, OthersUntouched DEF StorageInv
  <2>4. QED BY <2>1, <2>2, <2>3, RenameStep
<1>4. QED BY <1>1, <1>2, <1>3, PTL DEF Spec, RenameOverwritesNothing
=============================================================================
