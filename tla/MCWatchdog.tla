------------------------------ MODULE MCWatchdog ------------------------------
(***************************************************************************)
(* The watchdog for TLC: a local and a remote instance, with every         *)
(* disturbance of the commands and of the processes in one behaviour or    *)
(* another.                                                                *)
(***************************************************************************)
EXTENDS Watchdog

MCMixes == {{"due"}, {"crash"}, {"remote", "crash"}, {"remount", "slow"},
            {"remote", "lost", "pause"}}

CONSTANTS c1, c2, c3

\* The calls are interchangeable and none is used twice: c1 is the first.
\* Where trigger times pass, two of them are enough.
InOrder ==
  /\ call[c2].pc # "idle" => call[c1].pc # "idle"
  /\ call[c3].pc # "idle" => call[c2].pc # "idle" /\ "due" \notin mix
=============================================================================
