-------------------------------- MODULE Doctor --------------------------------
(***************************************************************************)
(* The doctor's repair of a primary gateway (commands/doctor_assistant.rs):*)
(* a temporary profile is set up beside the primary one, its agent edits   *)
(* the primary's openclaw.json in up to two rounds, the profile is taken   *)
(* away, and where that was not enough the first valid backup replaces     *)
(* openclaw.json.                                                          *)
(*                                                                         *)
(* A repair is named by its temporary profile.  The openclaw CLI, the      *)
(* agent and the host are external: they may fail at every call.           *)
(***************************************************************************)
EXTENDS Naturals, FiniteSets

CONSTANTS
  Repairs,     \* the repairs, by the names of their temporary profiles
  Configs,     \* the texts of openclaw.json
  Healthy,     \* those with which the primary can be healthy
  Torn,        \* what a write that was cut off leaves
  NoBackup,    \* no file beside openclaw.json parses
  Rounds,      \* DOCTOR_ASSISTANT_TEMP_REPAIR_ROUNDS
  Mixes        \* what may happen besides, in one behaviour or another

\* The instance is a host over SSH, and there an agent that was given up goes
\* on; two repairs overlap (the page forgets that it is busy when it is left);
\* the application stops; openclaw.json cannot be read when it is to be saved.
Disturbances == {"ssh", "late", "two", "stop", "unread"}

ASSUME HealthyAssumption == Healthy \subseteq Configs
ASSUME TornAssumption == Torn \notin Configs /\ NoBackup \notin Configs \cup {Torn}
ASSUME RoundsAssumption == Rounds \in Nat \ {0}
ASSUME MixesAssumption == Mixes \subseteq SUBSET Disturbances

VARIABLES
  mix,
  backup,      \* the first valid backup
  config,      \* openclaw.json of the primary
  profile,     \* the directory of each temporary profile, "marked" or "bare"
  late,        \* the repairs whose agent was given up and still runs
  at,          \* where each repair is, and its locals
  swept,       \* ghost: profiles were pruned since this one was set up
  older,       \* ghost: the repairs that had ended when this one began
  undone       \* ghost: what was said of the texts that fallbacks replaced

fixedVars == <<mix, backup>>
tempVars == <<profile, swept>>
ghostVars == <<older, undone>>
vars == <<fixedVars, config, tempVars, late, at, ghostVars>>

\* The locals: what it diagnoses for, how the part with the temporary profile
\* went (temp_flow), whether its latest diagnosis is healthy, the agent's
\* round, and its openclaw.json.damaged; and, as ghosts, what a diagnosis after
\* a round and the check after a timeout have found healthy.
Fresh == [pc |-> "idle", why |-> "before", flow |-> "ok", current |-> FALSE,
          round |-> 0, damaged |-> {}, confirmed |-> {}, rechecked |-> {}]

Init ==
  /\ mix \in Mixes
  /\ backup \in Configs \cup {NoBackup}
  /\ config \in Configs
  /\ profile = [r \in Repairs |-> "none"]
  /\ late = {}
  /\ at = [r \in Repairs |-> Fresh]
  /\ swept = [r \in Repairs |-> FALSE]
  /\ older = [r \in Repairs |-> {}]
  /\ undone = {}

remote == "ssh" \in mix

Ended == {r \in Repairs : at[r].pc \in {"done", "stopped"}}
Idle == {r \in Repairs : at[r].pc = "idle"}

Left(l, pc) == IF pc = "done" THEN [Fresh EXCEPT !.pc = "done"]
               ELSE [l EXCEPT !.pc = pc]

\* The repair goes on at pc with the locals l, which are gone at its end.
Go(r, l, pc) == at' = [at EXCEPT ![r] = Left(l, pc)]
Goto(r, pc) == Go(r, at[r], pc)
Diagnose(r, reason) == Go(r, [at[r] EXCEPT !.why = reason], "clean")

\* The flow's error; over SSH a call may also be given up after its timeout.
Fails(r, errors) ==
  \E e \in errors \cup (IF remote THEN {"timeout"} ELSE {}) :
    Go(r, [at[r] EXCEPT !.flow = e],
       IF e = "timeout" THEN "recheck" ELSE "unset")

-----------------------------------------------------------------------------
(* The diagnosis takes temporary profiles away before it looks.            *)

Marked == {r \in Repairs : profile[r] = "marked"}

\* Mutant: a repair only looks for its own profile.
PruneOwn(r, gone) ==
  /\ gone \subseteq Marked
  /\ profile' = [q \in Repairs |-> IF q \in gone \cap {r} THEN "none" ELSE profile[q]]
  /\ swept' = IF gone = Marked THEN [swept EXCEPT ![r] = TRUE] ELSE swept

\* prune_*_temp_gateway_profile_roots: every profile with a marker, one after
\* the other, up to the first that cannot be removed.  Over SSH a marker that
\* cannot be read counts as none.
Prune(r, gone) ==
  /\ gone \subseteq Marked
  /\ profile' = [q \in Repairs |-> IF q \in gone THEN "none" ELSE profile[q]]
  /\ swept' = IF gone = Marked THEN [swept EXCEPT ![r] = TRUE] ELSE swept

\* cleanup_*_stale_temp_gateways: the unset of each is tried, with no regard
\* to its result.
CleanStale(r) ==
  /\ at[r].pc = "clean"
  /\ \E gone \in SUBSET Marked : Prune(r, gone)
  /\ Goto(r, "look")
  /\ UNCHANGED <<fixedVars, config, late, ghostVars>>

\* Mutant: the last round is not the last.
AfterOneMore(l, ok) ==
  CASE l.why = "before" -> IF ok THEN "done" ELSE "record"
    [] l.why = "round" -> IF ok \/ l.round > Rounds THEN "unset" ELSE "round"
    [] l.why = "fallback" -> "settle"
    [] l.why = "after" -> "done"

\* Where a repair goes on with a diagnosis that is healthy, or is not.
After(l, ok) ==
  CASE l.why = "before" -> IF ok THEN "done" ELSE "record"
    [] l.why = "round" -> IF ok \/ l.round = Rounds THEN "unset" ELSE "round"
    [] l.why = "fallback" -> "settle"
    [] l.why = "after" -> "done"

\* A text that cannot work is found out; one that can may not be enough.
Look(r) ==
  /\ at[r].pc = "look"
  /\ \E ok \in IF config \in Healthy THEN BOOLEAN ELSE {FALSE} :
       LET pc == After(at[r], ok)
           good == IF ok /\ at[r].why = "round" THEN {config} ELSE {}
       IN  Go(r, [at[r] EXCEPT !.current = ok,
                               !.round = IF pc = "round" THEN @ + 1 ELSE @,
                               !.confirmed = @ \cup good], pc)
  /\ UNCHANGED <<fixedVars, config, tempVars, late, ghostVars>>

\* An error of the first or the last diagnosis is the answer of the repair.
LookFails(r) ==
  /\ at[r].pc = "look"
  /\ CASE at[r].why = "round" -> Fails(r, {"error"})
       [] at[r].why = "fallback" -> Goto(r, "settle")
       [] OTHER -> Goto(r, "done")
  /\ UNCHANGED <<fixedVars, config, tempVars, late, ghostVars>>

-----------------------------------------------------------------------------
(* The temporary profile.                                                  *)

\* The page gives the diagnosis it shows, whatever has changed since; without
\* one the repair makes its own.
Begin(r) ==
  /\ at[r].pc = "idle"
  /\ "two" \in mix \/ Repairs = Ended \cup Idle
  /\ \/ \E shown \in BOOLEAN : Goto(r, IF shown THEN "done" ELSE "record")
     \/ Diagnose(r, "before")
  /\ older' = [older EXCEPT ![r] = Ended]
  /\ UNCHANGED <<fixedVars, config, tempVars, late, undone>>

\* upsert into doctor-temp-gateways.json, which nothing reads but the next
\* upsert: what matters is that no profile is set up when it fails.
Record(r) ==
  /\ at[r].pc = "record"
  /\ Goto(r, "setup") \/ Goto(r, "done")
  /\ UNCHANGED <<fixedVars, config, tempVars, late, ghostVars>>

\* run_*_temp_gateway_action(Set): the first command makes the directory, and
\* a later one may fail.
Setup(r) ==
  /\ at[r].pc = "setup"
  /\ \/ profile' = [profile EXCEPT ![r] = "bare"] /\ Goto(r, "mark")
     \/ profile' \in {profile, [profile EXCEPT ![r] = "bare"]} /\ Fails(r, {"error"})
  /\ swept' = [swept EXCEPT ![r] = FALSE]
  /\ UNCHANGED <<fixedVars, config, late, ghostVars>>

\* write_*_temp_gateway_marker: only the local repair minds a failure.
Mark(r) ==
  /\ at[r].pc = "mark"
  /\ \/ profile' = [profile EXCEPT ![r] = "marked"] /\ Goto(r, "sync")
     \/ /\ UNCHANGED profile
        /\ IF remote THEN Goto(r, "sync") ELSE Fails(r, {"error"})
  /\ UNCHANGED <<fixedVars, config, swept, late, ghostVars>>

\* sync_*_temp_gateway_provider_context and the probes: a profile another
\* repair has taken away comes back without its marker.
Sync(r) ==
  /\ at[r].pc = "sync"
  /\ \E made \in {"none", "bare"} :
       profile' = IF profile[r] = "none" THEN [profile EXCEPT ![r] = made]
                  ELSE profile
  /\ \/ profile'[r] # "none" /\ Goto(r, "ready")
     \/ Fails(r, {"error", "setup"})
  /\ UNCHANGED <<fixedVars, config, swept, late, ghostVars>>

Ready(r) ==
  /\ at[r].pc = "ready"
  /\ \/ Go(r, [at[r] EXCEPT !.round = 1], "round")
     \/ Go(r, [at[r] EXCEPT !.flow = "error"], "unset")
  /\ UNCHANGED <<fixedVars, config, tempVars, late, ghostVars>>

\* run_*_temp_gateway_agent_repair_round: the agent edits openclaw.json, and
\* may fail after that.  Without its profile it has no provider.  An agent
\* that is given up may not have ended.
Round(r) ==
  /\ at[r].pc = "round"
  /\ config' \in IF profile[r] = "none" THEN {config} ELSE {config} \cup Configs
  /\ \/ profile[r] # "none" /\ Diagnose(r, "round") /\ UNCHANGED late
     \/ /\ Fails(r, {"error", "setup"})
        /\ \/ UNCHANGED late
           \/ /\ at'[r].flow = "timeout" /\ "late" \in mix
              /\ late' = late \cup {r}
  /\ UNCHANGED <<fixedVars, tempVars, ghostVars>>

LateEdit(r) ==
  /\ r \in late
  /\ config' \in {config} \cup Configs
  /\ late' = late \ {r}
  /\ UNCHANGED <<fixedVars, tempVars, at, ghostVars>>

\* remote_wait_for_primary_gateway_recovery_after_timeout.
Recheck(r) ==
  /\ at[r].pc = "recheck"
  /\ \/ /\ config \in Healthy
        /\ Go(r, [at[r] EXCEPT !.flow = "ok", !.rechecked = @ \cup {config}], "unset")
     \/ Go(r, [at[r] EXCEPT !.flow = "error"], "unset")
  /\ UNCHANGED <<fixedVars, config, tempVars, late, ghostVars>>

-----------------------------------------------------------------------------
(* The clean-up, and the fallback.                                         *)

\* Mutant: the diagnosis the repair began with decides.
DecideOnFirst(l) == "save"

\* Whether the fallback is needed.  A check that found the primary healthy after
\* a timeout has cleared the error of the flow, and left the diagnosis as it was.
Decide(l) == IF l.flow # "ok" \/ ~l.current THEN "save" ELSE "settle"

\* The unset and remove_record.  Where the unset fails, only the local repair
\* leaves the profiles where they are.
CleanUp(r) ==
  /\ at[r].pc = "unset"
  /\ Goto(r, "prune") \/ (~remote /\ Goto(r, Decide(at[r])))
  /\ UNCHANGED <<fixedVars, config, tempVars, late, ghostVars>>

PruneRoots(r) ==
  /\ at[r].pc = "prune"
  /\ \E gone \in SUBSET Marked : Prune(r, gone)
  /\ Goto(r, Decide(at[r]))
  /\ UNCHANGED <<fixedVars, config, late, ghostVars>>

\* Where the fallback goes on once the damaged text is saved.
Saved == IF backup = NoBackup THEN "settle" ELSE "restore"

\* Mutant: the fallback goes on without what it could not save.
SaveIgnored(r) ==
  /\ at[r].pc = "save"
  /\ \E copy \in {{}, {config}} : Go(r, [at[r] EXCEPT !.damaged = copy], Saved)
  /\ UNCHANGED <<fixedVars, config, tempVars, late, ghostVars>>

\* write_*_doctor_failure_artifacts, then the choice of a backup.  What cannot
\* be read is saved as the empty text.
Save(r) ==
  /\ at[r].pc = "save"
  /\ \/ Go(r, [at[r] EXCEPT !.damaged = {config}], Saved)
     \/ "unread" \in mix /\ Goto(r, Saved)
     \/ Goto(r, "settle")
  /\ UNCHANGED <<fixedVars, config, tempVars, late, ghostVars>>

\* openclaw.json is written in place by a fallback of r.
Replace(r, text) ==
  /\ config' = text
  /\ undone' = undone
       \cup (IF config \in at[r].confirmed THEN {"confirmed"} ELSE {})
       \cup (IF config \in at[r].rechecked THEN {"rechecked"} ELSE {})
       \cup (IF config \in at[r].damaged THEN {} ELSE {"unsaved"})

\* The gateway is restarted and looked at again, or does not start.
Restore(r) ==
  /\ at[r].pc = "restore"
  /\ \/ Replace(r, backup) /\ (Diagnose(r, "fallback") \/ Goto(r, "settle"))
     \/ Replace(r, Torn) /\ Goto(r, "settle")
     \/ UNCHANGED <<config, undone>> /\ Goto(r, "settle")
  /\ UNCHANGED <<fixedVars, tempVars, late, older>>

\* The repair asks for a provider, or diagnoses a last time and returns.
Settle(r) ==
  /\ at[r].pc = "settle"
  /\ IF at[r].flow = "setup" /\ ~at[r].current THEN Goto(r, "done")
     ELSE Diagnose(r, "after")
  /\ UNCHANGED <<fixedVars, config, tempVars, late, ghostVars>>

\* The application stops, perhaps in the middle of the write of a fallback.
Stop ==
  /\ "stop" \in mix
  /\ Repairs # Ended \cup Idle
  /\ at' = [r \in Repairs |-> IF r \in Ended \cup Idle THEN at[r]
                              ELSE [Fresh EXCEPT !.pc = "stopped"]]
  /\ \/ UNCHANGED <<config, undone>>
     \/ \E r \in Repairs : at[r].pc = "restore" /\ Replace(r, Torn)
  /\ UNCHANGED <<fixedVars, tempVars, late, older>>

Step(r) ==
  \/ CleanStale(r) \/ Look(r) \/ LookFails(r)
  \/ Begin(r) \/ Record(r) \/ Setup(r) \/ Mark(r) \/ Sync(r) \/ Ready(r)
  \/ Round(r) \/ LateEdit(r) \/ Recheck(r)
  \/ CleanUp(r) \/ PruneRoots(r) \/ Save(r) \/ Restore(r) \/ Settle(r)

Next == (\E r \in Repairs : Step(r)) \/ Stop

Spec == Init /\ [][Next]_vars

-----------------------------------------------------------------------------
Texts == Configs \cup {Torn}
Places == {"idle", "record", "setup", "mark", "sync", "ready", "round",
           "clean", "look", "recheck", "unset", "prune", "save", "restore",
           "settle", "done", "stopped"}
Locals == [pc : Places, why : {"before", "round", "fallback", "after"},
           flow : {"ok", "error", "setup", "timeout"}, current : BOOLEAN,
           round : 0..Rounds, damaged : SUBSET Texts,
           confirmed : SUBSET Configs, rechecked : SUBSET Configs]

\* The type invariant; a timeout is dealt with before the clean-up, and no
\* repair has more than its rounds (doctor_assistant.rs:4659, 4702).
TypeOK ==
  /\ mix \in Mixes
  /\ backup \in Configs \cup {NoBackup}
  /\ config \in Texts
  /\ profile \in [Repairs -> {"none", "bare", "marked"}]
  /\ late \in SUBSET Repairs
  /\ at \in [Repairs -> Locals]
  /\ \A r \in Repairs : at[r].flow = "timeout" => at[r].pc = "recheck"
  /\ swept \in [Repairs -> BOOLEAN]
  /\ older \in [Repairs -> SUBSET Repairs]
  /\ undone \in SUBSET {"confirmed", "rechecked", "unsaved"}

\* A repair that has returned after a prune that went through leaves no
\* temporary profile with a marker: neither its own, by whatever exit it came,
\* nor one of a repair that had ended or been stopped before it began
\* (doctor_assistant.rs:2295, 4289, 4755).
NothingLeft ==
  \A q \in Repairs :
    at[q].pc = "done" /\ swept[q] =>
      \A r \in older[q] \cup {q} : profile[r] # "marked"

\* A configuration with which a repair's own diagnosis has found the primary
\* healthy after a round is not replaced by the fallback of that repair
\* (doctor_assistant.rs:4336, 4780).
HealthyKept == "confirmed" \notin undone

\* "Saved damaged config to ..." (doctor_assistant.rs:795): what a fallback
\* replaces, also where its own write is cut off, has been saved in a
\* directory of failures, as long as it can be read and nobody else changes it
\* meanwhile.
DamagedSaved == mix \subseteq {"ssh", "stop"} => "unsaved" \notin undone

\* "the primary gateway recovered successfully." (doctor_assistant.rs:3713):
\* a configuration found healthy after a timeout is not replaced by the
\* fallback of the same repair.
RecoveredKept == "rechecked" \notin undone
=============================================================================
