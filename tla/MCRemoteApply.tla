---------------------------- MODULE MCRemoteApply ----------------------------
(***************************************************************************)
(* Small instances of RemoteApply for TLC.                                 *)
(***************************************************************************)
EXTENDS RemoteApply, FiniteSets, TLC

CONSTANTS c1, w1, a1, a2

\* Applies are interchangeable, and so are commands of one kind.
Symmetry == Permutations(Applies) \cup Permutations(Cmds \ Writes)

\* Bound: with two applies at once, two commands and no fault, or one command
\* and one fault.
Narrow ==
  LET n == refused + timeouts + losses + cuts + crashes
  IN  guarded \/ n = 0 \/ (n = 1 /\ Cardinality(accepted) <= 1)
=============================================================================
