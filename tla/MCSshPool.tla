----------------------------- MODULE MCSshPool -----------------------------
(***************************************************************************)
(* Small instances of SshPool for TLC.                                     *)
(***************************************************************************)
EXTENDS SshPool, TLC

CONSTANTS o1, o2, o3, e1, e2, s1, s2, s3, s4, s5

\* Calls, entries and sessions are interchangeable.
Symmetry == Permutations(Ops) \cup Permutations(Entries) \cup Permutations(Sessions)

\* Which session is opened next, and which entry is made, makes no difference.
InOrder == /\ opened \in {{}, {s1}, {s1, s2}, {s1, s2, s3}}
           /\ made \in {{}, {e1}, {e1, e2}}

\* Bound: one failure, silence or refusal.
OneFault == failures + refusals <= 1
=============================================================================
