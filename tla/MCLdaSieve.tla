----------------------------- MODULE MCLdaSieve -----------------------------
(* Instances of LdaSieve for TLC. *)
EXTENDS LdaSieve

CONSTANTS Inbox, Folder, Friend

Cmd(def, tgt, copy) == [def |-> def, tgt |-> tgt, copy |-> copy]

(* Everything a script can do to a message, with one target of each kind.  *)
AllCommands ==
  {Cmd("keep", NoTarget, FALSE), Cmd("discard", NoTarget, FALSE),
   Cmd("reject", NoTarget, FALSE), Cmd("vacation", NoTarget, FALSE),
   Cmd("store", Inbox, FALSE), Cmd("store", Folder, FALSE), Cmd("store", Folder, TRUE),
   Cmd("redirect", Friend, FALSE), Cmd("redirect", Friend, TRUE)}

(* The commands that deliver or withhold the message.                      *)
DeliveryCommands ==
  {Cmd("keep", NoTarget, FALSE), Cmd("discard", NoTarget, FALSE),
   Cmd("store", Inbox, FALSE), Cmd("store", Folder, FALSE), Cmd("redirect", Friend, FALSE)}
=============================================================================
