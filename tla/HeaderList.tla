----------------------------- MODULE HeaderList -----------------------------
(***************************************************************************)
(* What the editheader extension promises a script (RFC 5293): the message *)
(* is a list of header fields in front of a body.  "addheader" puts a      *)
(* field at either end, "deleteheader" removes the chosen fields of one    *)
(* name, "filter" exchanges the message, and an action of the result gets  *)
(* the message as it was when the action was taken, whatever the script    *)
(* does later.                                                             *)
(***************************************************************************)
EXTENDS Integers, Sequences, SequencesExt

CONSTANT Incoming   \* the list the message arrives with
CONSTANT Exchanged  \* the lists a filter program may return

VARIABLES list,     \* the fields of the message the script sees
          filed     \* for each action of the result, the fields it stores

listVars == <<list, filed>>

Rest(l, gone) == SelectSeq(l, LAMBDA f : f \notin gone)

\* The positions of the fields of one name, in the order they are counted.
Occurrences(l, n, reverse) ==
  LET ps == SetToSortSeq({p \in 1..Len(l) : l[p].name = n}, LAMBDA a, b : a < b)
  IN IF reverse THEN Reverse(ps) ELSE ps

\* The fields of name n that "deleteheader" means: all of them, or the one
\* with that index, provided the value matches; a failing match ends it early.
Meant(l, n, index, reverse, vals, upto) ==
  LET ps == Occurrences(l, n, reverse)
  IN {l[ps[k]] : k \in {k \in 1..Len(ps) : /\ k <= upto
                                           /\ index \in {0, k}
                                           /\ l[ps[k]].val \in vals}}

AddField(f, last) ==
  /\ list' = IF last THEN Append(list, f) ELSE <<f>> \o list
  /\ UNCHANGED filed

DeleteFields(n, index, reverse, vals, upto) ==
  /\ list' = Rest(list, Meant(list, n, index, reverse, vals, upto))
  /\ UNCHANGED filed

Take == filed' = Append(filed, list) /\ UNCHANGED list

Exchange == list' \in Exchanged /\ UNCHANGED filed

ListInit == list = Incoming /\ filed = <<>>
=============================================================================
