------------------------- MODULE MCSnapshotHistory -------------------------
(***************************************************************************)
(* Small instances of SnapshotHistory for TLC: d0 is "{}" and d1 the text  *)
(* at the start; b1 is a text with a syntax error.                         *)
(***************************************************************************)
EXTENDS SnapshotHistory, TLC

CONSTANTS d0, d1, d2, d3, b1, main, apply1, i1, i2, i3

\* The documents not at the start are interchangeable, and so are the inodes.
Symmetry == Permutations({d2, d3}) \cup Permutations(Inodes)

\* The direct writes by themselves, and with each kind of disturbance.
AllMixes == {{"stop"}, {"rollback", "stop"}, {"rollback", "edit"},
             {"rollback", "twice"}, {"rollback", "apply"}}
=============================================================================
