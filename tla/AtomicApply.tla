----------------------------- MODULE AtomicApply -----------------------------
(***************************************************************************)
(* What applying the pending commands promises about openclaw.json: a      *)
(* batch is a transaction on the configuration.  The steps of a batch      *)
(* change a working copy, in their order; the configuration itself moves   *)
(* only when the whole batch has run, or not at all.                       *)
(*                                                                         *)
(* The program has no working copy: it edits the file in place and writes  *)
(* the old text back when a step fails.  CommandApply is shown to          *)
(* implement this specification under a refinement mapping.                *)
(***************************************************************************)
EXTENDS Sequences

CONSTANT Changes            \* the changes a command can make to the file

VARIABLES store,            \* the changes in the committed configuration
          work,             \* the changes in the working copy
          todo,             \* the edits of the open batch not made yet
          open              \* whether a batch is open

vars == <<store, work, todo, open>>

\* An edit adds changes to a text, or is a whole text that replaces it.
Edit == [whole : BOOLEAN, text : SUBSET Changes]
Edited(e, w) == IF e.whole THEN e.text ELSE w \cup e.text

Init == /\ store = {}
        /\ work = {}
        /\ todo = <<>>
        /\ open = FALSE

\* A batch starts from the committed configuration.
Begin == /\ ~open
         /\ open' = TRUE
         /\ todo' \in Seq(Edit)
         /\ UNCHANGED <<store, work>>

\* The next edit of the batch is made, in the working copy only.
Step == /\ open
        /\ todo # <<>>
        /\ work' = Edited(Head(todo), work)
        /\ todo' = Tail(todo)
        /\ UNCHANGED <<store, open>>

\* A step that fails may have made its edit all the same.
Fail == /\ open
        /\ todo # <<>>
        /\ work' = Edited(Head(todo), work)
        /\ UNCHANGED <<store, todo, open>>

\* Every edit was made: all of them are committed together.
Commit == /\ open
          /\ todo = <<>>
          /\ store' = work
          /\ open' = FALSE
          /\ UNCHANGED <<work, todo>>

\* The batch is abandoned: nothing of it stays.
Abort == /\ open
         /\ work' = store
         /\ todo' = <<>>
         /\ open' = FALSE
         /\ UNCHANGED store

Next == Begin \/ Step \/ Fail \/ Commit \/ Abort

Spec == Init /\ [][Next]_vars
=============================================================================
