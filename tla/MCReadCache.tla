------------------------------ MODULE MCReadCache ------------------------------
(***************************************************************************)
(* The read cache for TLC: behaviours with and without invalidation,       *)
(* optimistic values and more keys than fit.                               *)
(***************************************************************************)
EXTENDS ReadCache

MCMixes == {{"pin"}, {"invalidate", "pin"}, {"crowd"}}
=============================================================================
