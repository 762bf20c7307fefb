------------------------------- MODULE MCDoctor -------------------------------
(***************************************************************************)
(* The doctor's repair for TLC: repairs one after the other, two at once,  *)
(* an agent that outlives its repair, a stop of the application, and a     *)
(* file that cannot be read.                                               *)
(***************************************************************************)
EXTENDS Doctor, TLC

\* Repairs are interchangeable.
Symmetry == Permutations(Repairs)

MCMixes == {{"ssh"}, {"ssh", "late"}, {"two"}, {"stop"}, {"ssh", "stop"},
            {"unread"}}
=============================================================================
