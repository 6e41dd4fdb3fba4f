----------------------------- MODULE ScriptStore -----------------------------
(***************************************************************************)
(* What a personal script storage promises its user (the interface of      *)
(* lib-sieve/sieve-storage.c and sieve-script.c, with ManageSieve, RFC     *)
(* 5804, as its client): a set of named scripts, at most one of which is   *)
(* active. Every change that can be observed is one of the steps below.    *)
(***************************************************************************)
CONSTANTS
  Name,            \* script names
  Content,         \* contents of a script
  UploadValid,     \* contents that compile as an uploaded script
  ReplaceValid,    \* contents that compile as an upload of the active script
  ActivateValid,   \* contents that compile as a script to be activated
  Default,         \* name of the default script, or NoName
  NoName,
  NoFile,          \* the content of a script that does not exist
  NoLink,          \* no script is active
  Regular,         \* a regular file of an old installation is active
  OrigName,        \* the name under which that file is kept ("dovecot.orig")
  DefaultContent,  \* content of the default script
  OrigContent,     \* content of the regular file
  StartActive      \* what the active link may be at first

ASSUME StoreAssumption ==
  /\ ActivateValid \subseteq ReplaceValid
  /\ ReplaceValid \subseteq UploadValid
  /\ UploadValid \subseteq Content
  /\ DefaultContent \in ActivateValid
  /\ OrigContent \in Content
  /\ NoFile \notin Content
  /\ OrigName \in Name
  /\ Default \in Name \cup {NoName}
  /\ Name \cap {NoName, NoLink, Regular} = {}
  /\ NoLink # Regular
  /\ StartActive \subseteq {NoLink, Regular}

VARIABLES
  files,           \* the scripts of the storage directory
  active           \* the active link: a name, NoLink or Regular

storeVars == <<files, active>>

Stored == {n \in Name : files[n] # NoFile}

StoreInit ==
  /\ files = [n \in Name |-> NoFile]
  /\ active \in StartActive

(* A script is stored under a new or an existing name, as a whole, and     *)
(* only if it compiles.                                                    *)
Store(n, c) ==
  /\ c \in IF n = active THEN ReplaceValid ELSE UploadValid
  /\ files' = [files EXCEPT ![n] = c]
  /\ UNCHANGED active

(* A script gets a second name, which was free; renaming it consists of    *)
(* this, of Activate if the script is active, and of Remove.               *)
Link(n, m) ==
  /\ n \in Stored /\ m \notin Stored
  /\ files' = [files EXCEPT ![m] = files[n]]
  /\ UNCHANGED active

(* A script is removed, which is not the active one.                       *)
Remove(n) ==
  /\ n # active
  /\ files' = [files EXCEPT ![n] = NoFile]
  /\ UNCHANGED active

(* An existing script that compiles becomes the active one.                *)
Activate(n) ==
  /\ n \in Stored
  /\ files[n] \in ReplaceValid
  /\ active' = n
  /\ UNCHANGED files

Deactivate ==
  /\ active' = NoLink
  /\ UNCHANGED files

(* The regular file of an old installation is copied into the storage.     *)
Rescue ==
  /\ active = Regular
  /\ files' = [files EXCEPT ![OrigName] = OrigContent]
  /\ UNCHANGED active

StoreNext ==
  \/ \E n \in Name :
       \/ \E c \in Content : Store(n, c)
       \/ \E m \in Name : Link(n, m)
       \/ Remove(n)
       \/ Activate(n)
  \/ Deactivate
  \/ Rescue

StoreSpec == StoreInit /\ [][StoreNext]_storeVars

(* The active link names a script that exists; otherwise the messages of   *)
(* the user are delivered without the script the user chose.               *)
ActiveExists == active \in Name => active \in Stored

(* The active script compiled as an active script: a script whose flaws    *)
(* are forgiven on upload is not activated, nor put in the place of the    *)
(* active one.                                                             *)
ActiveCompiles == active \in Stored => files[active] \in ReplaceValid

(* Both: at all times the user's choice of a script is one that can run.   *)
ActiveResolves == ActiveExists /\ ActiveCompiles
=============================================================================
