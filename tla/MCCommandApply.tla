--------------------------- MODULE MCCommandApply ---------------------------
(***************************************************************************)
(* Small instances of CommandApply for TLC.  c1, c2 and c3 come from the   *)
(* pages, p1 from a recipe.                                                *)
(***************************************************************************)
EXTENDS CommandApply, TLC

CONSTANTS c1, c2, c3, p1, cook1

OnePlan == cook1 :> <<p1>>

\* The applies by themselves, and with each kind of disturbance.
AllMixes == {{}, {"restore", "crash"}, {"cut"}, {"read"}, {"write", "snapshot"},
             {"cook"}, {"remount"}}

\* Beside a recipe or a remounted bar, where nothing is said of the file, c1
\* and c2 are interchangeable: c1 is the one that is queued first.
InOrder ==
  \/ Guarded
  \/ \A i \in DOMAIN accepted :
       accepted[i] = c2 => \E j \in 1 .. (i - 1) : accepted[j] = c1
=============================================================================
