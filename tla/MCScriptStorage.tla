--------------------------- MODULE MCScriptStorage ---------------------------
(* Instances of ScriptStorage for TLC. *)
EXTENDS ScriptStorage, TLC

CONSTANTS
  good,       \* a script that compiles
  circular,   \* one with a circular include: it compiles unless activated
  broken,     \* one that does not compile
  big         \* one that compiles, larger than the quota

MCSize == [c \in Content |-> IF c = big THEN 3 ELSE 1]

Sessions == Permutations(Session)
=============================================================================
