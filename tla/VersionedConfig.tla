-------------------------- MODULE VersionedConfig --------------------------
(***************************************************************************)
(* What the History page promises of openclaw.json: the configuration is   *)
(* replaced only when its present text is among the saved ones, and a      *)
(* saved text is forgotten only when the list is full.                     *)
(***************************************************************************)
EXTENDS Naturals, FiniteSets

CONSTANTS Names,   \* what the history knows a saved text by
          Texts,   \* the texts openclaw.json may hold
          First,   \* the one it holds at the start
          Cap      \* how many saved texts the history keeps

VARIABLES config,  \* the text of openclaw.json
          saved    \* the texts a rollback can bring back, with their names

vars == <<config, saved>>

Init == config = First /\ saved = {}

\* The present text enters the history; others leave only to make room.
Save == \E n \in Names :
  /\ saved' \in SUBSET (saved \cup {<<n, config>>})
  /\ <<n, config>> \in saved'
  /\ \/ saved \subseteq saved'
     \/ Cardinality(saved) >= Cap
  /\ UNCHANGED config

Replace == /\ \E n \in Names : <<n, config>> \in saved
           /\ config' \in Texts
           /\ UNCHANGED saved

Next == Save \/ Replace

Spec == Init /\ [][Next]_vars
=============================================================================
