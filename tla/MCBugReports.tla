------------------------------ MODULE MCBugReports ------------------------------
(***************************************************************************)
(* Bug reports for TLC: an application that stops between changes of its   *)
(* files only, anywhere, or anywhere and with files that fail.             *)
(***************************************************************************)
EXTENDS BugReports, TLC

CONSTANTS r1, r2

\* What stops between files adds nothing to what stops anywhere.
MCMixes == {{}, {"between", "within"}, {"between", "within", "errors"}}

\* Where files fail as well: two starts, one hour and no test report.
FewStarts == "errors" \in mix => boots <= 2 /\ hours = 0 /\ tests = 0

\* r1 and r2 are interchangeable, the report below the threshold is not.
Alike == Permutations({r1, r2})
=============================================================================
