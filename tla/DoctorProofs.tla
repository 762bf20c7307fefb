---------------------------- MODULE DoctorProofs ----------------------------
(***************************************************************************)
(* Proofs about Doctor, for any number of repairs, rounds and texts: the   *)
(* types, that no temporary profile outlasts a complete prune, and what a  *)
(* fallback may replace.                                                   *)
(***************************************************************************)
EXTENDS Doctor, TLAPS

\* The locals of the repairs, a part of TypeOK, ...
AtOK ==
  /\ at \in [Repairs -> Locals]
  /\ \A r \in Repairs : at[r].flow = "timeout" => at[r].pc = "recheck"

\* ... and the rest of it.
WorldOK ==
  /\ mix \in Mixes
  /\ backup \in Configs \cup {NoBackup}
  /\ config \in Texts
  /\ profile \in [Repairs -> {"none", "bare", "marked"}]
  /\ late \in SUBSET Repairs
  /\ swept \in [Repairs -> BOOLEAN]
  /\ older \in [Repairs -> SUBSET Repairs]
  /\ undone \in SUBSET {"confirmed", "rechecked", "unsaved"}

LEMMA TypeParts == TypeOK <=> AtOK /\ WorldOK
BY DEF TypeOK, AtOK, WorldOK

LEMMA FreshType == Fresh \in Locals
BY RoundsAssumption DEF Fresh, Locals, Places

\* A repair that goes on with well-typed locals.
LEMMA GoType ==
  ASSUME AtOK, NEW r \in Repairs, NEW l \in Locals, NEW pc \in Places,
         l.flow = "timeout" => pc = "recheck",
         Go(r, l, pc)
  PROVE  AtOK'
<1>1. Left(l, pc) \in Locals
  <2>1. CASE pc = "done"
    BY <2>1, FreshType DEF Left, Locals, Places
  <2>2. CASE pc # "done"
    BY <2>2 DEF Left, Locals
  <2> QED
    BY <2>1, <2>2
<1>2. Left(l, pc).flow = "timeout" => Left(l, pc).pc = "recheck"
  BY DEF Left, Fresh, Locals
<1>3. at' = [at EXCEPT ![r] = Left(l, pc)]
  BY DEF Go
<1> QED
  BY <1>1, <1>2, <1>3 DEF AtOK

LEMMA GotoType ==
  ASSUME AtOK, NEW r \in Repairs, NEW pc \in Places,
         at[r].pc # "recheck", Goto(r, pc)
  PROVE  AtOK'
<1>1. at[r] \in Locals /\ at[r].flow # "timeout"
  BY DEF AtOK
<1> QED
  BY <1>1, GoType DEF Goto

LEMMA DiagnoseType ==
  ASSUME AtOK, NEW r \in Repairs,
         NEW why \in {"before", "round", "fallback", "after"},
         at[r].pc # "recheck", Diagnose(r, why)
  PROVE  AtOK'
<1> DEFINE l == [at[r] EXCEPT !.why = why]
<1>1. l \in Locals /\ l.flow # "timeout" /\ "clean" \in Places
  BY DEF AtOK, Locals, Places
<1> QED
  BY <1>1, GoType DEF Diagnose

\* The error of a flow sends the repair to the check, or to the clean-up.
LEMMA FailsType ==
  ASSUME AtOK, NEW r \in Repairs, NEW errors \in SUBSET {"error", "setup"},
         Fails(r, errors)
  PROVE  AtOK'
<1>1. PICK e \in {"error", "setup", "timeout"} :
        Go(r, [at[r] EXCEPT !.flow = e],
           IF e = "timeout" THEN "recheck" ELSE "unset")
  BY DEF Fails
<1> DEFINE l == [at[r] EXCEPT !.flow = e]
           pc == IF e = "timeout" THEN "recheck" ELSE "unset"
<1>2. l \in Locals /\ l.flow = e /\ pc \in Places
  BY DEF AtOK, Locals, Places
<1>3. l.flow = "timeout" => pc = "recheck"
  BY <1>2
<1> QED
  BY <1>1, <1>2, <1>3, GoType

-----------------------------------------------------------------------------
(* Types *)

LEMMA InitType == Init => TypeOK
<1> SUFFICES ASSUME Init PROVE TypeOK
  OBVIOUS
<1>1. AtOK
  BY FreshType DEF Init, AtOK, Fresh
<1>2. WorldOK
  BY DEF Init, WorldOK, Texts
<1> QED
  BY <1>1, <1>2, TypeParts

\* Pruning takes profiles away, and takes note of having taken them all.
LEMMA PruneType ==
  ASSUME WorldOK, NEW r \in Repairs, NEW gone, Prune(r, gone)
  PROVE  /\ profile' \in [Repairs -> {"none", "bare", "marked"}]
         /\ swept' \in [Repairs -> BOOLEAN]
BY DEF WorldOK, Prune

LEMMA CleanStaleType ==
  ASSUME TypeOK, NEW r \in Repairs, CleanStale(r)
  PROVE  TypeOK'
<1>1. WorldOK'
  BY TypeParts, PruneType DEF CleanStale, WorldOK, fixedVars, ghostVars
<1>2. AtOK'
  BY TypeParts, GotoType DEF CleanStale, Places
<1> QED
  BY <1>1, <1>2, TypeParts DEF TypeOK, AtOK, WorldOK

\* A repair begins no round after its last.
LEMMA LookType ==
  ASSUME TypeOK, NEW r \in Repairs, Look(r)
  PROVE  TypeOK'
<1>1. PICK ok \in IF config \in Healthy THEN BOOLEAN ELSE {FALSE} :
        LET pc == After(at[r], ok)
            good == IF ok /\ at[r].why = "round" THEN {config} ELSE {}
        IN  Go(r, [at[r] EXCEPT !.current = ok,
                                !.round = IF pc = "round" THEN @ + 1 ELSE @,
                                !.confirmed = @ \cup good], pc)
  BY DEF Look
<1> DEFINE pc == After(at[r], ok)
           good == IF ok /\ at[r].why = "round" THEN {config} ELSE {}
           l == [at[r] EXCEPT !.current = ok,
                              !.round = IF pc = "round" THEN @ + 1 ELSE @,
                              !.confirmed = @ \cup good]
<1>2. at[r] \in Locals /\ at[r].flow # "timeout" /\ ok \in BOOLEAN
  BY TypeParts DEF AtOK, Look
<1>3. pc \in Places /\ (pc = "round" => at[r].round + 1 \in 0..Rounds)
  BY <1>2, RoundsAssumption DEF After, Locals, Places
<1>4. good \in SUBSET Configs
  BY HealthyAssumption
<1>5. l \in Locals /\ l.flow # "timeout"
  BY <1>2, <1>3, <1>4 DEF Locals
<1>6. Go(r, l, pc)
  BY <1>1
<1> HIDE DEF pc, l
<1>7. AtOK'
  BY <1>3, <1>5, <1>6, GoType, TypeParts
<1>8. WorldOK'
  BY TypeParts DEF Look, WorldOK, fixedVars, tempVars, ghostVars
<1> QED
  BY <1>7, <1>8 DEF TypeOK, AtOK, WorldOK

LEMMA LookFailsType ==
  ASSUME TypeOK, NEW r \in Repairs, LookFails(r)
  PROVE  TypeOK'
<1>1. WorldOK'
  BY TypeParts DEF LookFails, WorldOK, fixedVars, tempVars, ghostVars
<1>2. AtOK'
  BY TypeParts, GotoType, FailsType DEF LookFails, Places
<1> QED
  BY <1>1, <1>2 DEF TypeOK, AtOK, WorldOK

\* The steps before the rounds.
LEMMA SetUpType ==
  ASSUME TypeOK, NEW r \in Repairs,
         Begin(r) \/ Record(r) \/ Setup(r) \/ Mark(r) \/ Sync(r)
  PROVE  TypeOK'
<1>1. WorldOK'
  <2>1. CASE Begin(r)
    BY <2>1, TypeParts DEF Begin, WorldOK, Ended, fixedVars, tempVars
  <2>2. CASE Record(r)
    BY <2>2, TypeParts DEF Record, WorldOK, fixedVars, tempVars, ghostVars
  <2>3. CASE Setup(r)
    BY <2>3, TypeParts DEF Setup, WorldOK, fixedVars, ghostVars
  <2>4. CASE Mark(r)
    BY <2>4, TypeParts DEF Mark, WorldOK, fixedVars, ghostVars
  <2>5. CASE Sync(r)
    BY <2>5, TypeParts DEF Sync, WorldOK, fixedVars, ghostVars
  <2> QED
    BY <2>1, <2>2, <2>3, <2>4, <2>5
<1>2. AtOK'
  BY TypeParts, GotoType, FailsType, DiagnoseType
     DEF Begin, Record, Setup, Mark, Sync, Places
<1> QED
  BY <1>1, <1>2 DEF TypeOK, AtOK, WorldOK

LEMMA ReadyType ==
  ASSUME TypeOK, NEW r \in Repairs, Ready(r)
  PROVE  TypeOK'
<1>1. WorldOK'
  BY TypeParts DEF Ready, WorldOK, fixedVars, tempVars, ghostVars
<1> DEFINE first == [at[r] EXCEPT !.round = 1]
           failed == [at[r] EXCEPT !.flow = "error"]
<1>2. /\ at[r] \in Locals /\ at[r].flow # "timeout"
      /\ {"round", "unset"} \subseteq Places
  BY TypeParts DEF AtOK, Ready, Places
<1>3. first \in Locals /\ first.flow # "timeout"
  BY <1>2, RoundsAssumption DEF Locals
<1>4. failed \in Locals /\ failed.flow # "timeout"
  BY <1>2 DEF Locals
<1>5. Go(r, first, "round") \/ Go(r, failed, "unset")
  BY DEF Ready
<1> HIDE DEF first, failed
<1>6. AtOK'
  BY <1>2, <1>3, <1>4, <1>5, GoType, TypeParts
<1> QED
  BY <1>1, <1>6 DEF TypeOK, AtOK, WorldOK

LEMMA RoundType ==
  ASSUME TypeOK, NEW r \in Repairs, Round(r) \/ LateEdit(r)
  PROVE  TypeOK'
<1>1. WorldOK'
  BY TypeParts DEF Round, LateEdit, WorldOK, Texts, fixedVars, tempVars, ghostVars
<1>2. AtOK'
  <2>1. CASE Round(r)
    BY <2>1, TypeParts, DiagnoseType, FailsType DEF Round
  <2>2. CASE LateEdit(r)
    BY <2>2, TypeParts DEF LateEdit, AtOK
  <2> QED
    BY <2>1, <2>2
<1> QED
  BY <1>1, <1>2 DEF TypeOK, AtOK, WorldOK

LEMMA RecheckType ==
  ASSUME TypeOK, NEW r \in Repairs, Recheck(r)
  PROVE  TypeOK'
<1>1. WorldOK'
  BY TypeParts DEF Recheck, WorldOK, fixedVars, tempVars, ghostVars
<1> DEFINE well == [at[r] EXCEPT !.flow = "ok", !.rechecked = @ \cup {config}]
           failed == [at[r] EXCEPT !.flow = "error"]
<1>2. at[r] \in Locals /\ "unset" \in Places
  BY TypeParts DEF AtOK, Places
<1>3. config \in Healthy => well \in Locals /\ well.flow # "timeout"
  BY <1>2, HealthyAssumption DEF Locals
<1>4. failed \in Locals /\ failed.flow # "timeout"
  BY <1>2 DEF Locals
<1>5. (config \in Healthy /\ Go(r, well, "unset")) \/ Go(r, failed, "unset")
  BY DEF Recheck
<1> HIDE DEF well, failed
<1>6. AtOK'
  BY <1>2, <1>3, <1>4, <1>5, GoType, TypeParts
<1> QED
  BY <1>1, <1>6 DEF TypeOK, AtOK, WorldOK

\* The clean-up leads to the fallback or past it.
LEMMA CleanUpType ==
  ASSUME TypeOK, NEW r \in Repairs, CleanUp(r) \/ PruneRoots(r)
  PROVE  TypeOK'
<1>1. WorldOK'
  BY TypeParts, PruneType
     DEF CleanUp, PruneRoots, WorldOK, fixedVars, tempVars, ghostVars
<1>2. Decide(at[r]) \in Places /\ "prune" \in Places
  BY DEF Decide, Places
<1>3. AtOK'
  BY <1>2, TypeParts, GotoType DEF CleanUp, PruneRoots
<1> QED
  BY <1>1, <1>3 DEF TypeOK, AtOK, WorldOK

LEMMA SaveType ==
  ASSUME TypeOK, NEW r \in Repairs, Save(r)
  PROVE  TypeOK'
<1>1. WorldOK'
  BY TypeParts DEF Save, WorldOK, fixedVars, tempVars, ghostVars
<1> DEFINE l == [at[r] EXCEPT !.damaged = {config}]
<1>2. l \in Locals /\ l.flow # "timeout" /\ at[r].pc # "recheck"
  BY TypeParts DEF AtOK, WorldOK, Save, Locals
<1>3. Saved \in Places /\ "settle" \in Places
  BY DEF Saved, Places
<1>4. Go(r, l, Saved) \/ Goto(r, Saved) \/ Goto(r, "settle")
  BY DEF Save
<1> HIDE DEF l
<1>5. AtOK'
  BY <1>2, <1>3, <1>4, GoType, GotoType, TypeParts
<1> QED
  BY <1>1, <1>5 DEF TypeOK, AtOK, WorldOK

LEMMA ReplaceType ==
  ASSUME WorldOK, NEW r \in Repairs, NEW text \in Texts, Replace(r, text)
  PROVE  config' \in Texts /\ undone' \in SUBSET {"confirmed", "rechecked", "unsaved"}
BY DEF WorldOK, Replace

\* There is a backup when the fallback gets as far as restoring it.
LEMMA RestoreType ==
  ASSUME TypeOK, NEW r \in Repairs, Restore(r), backup # NoBackup
  PROVE  TypeOK'
<1>1. {backup, Torn} \subseteq Texts
  BY TypeParts DEF WorldOK, Texts
<1>2. config' \in Texts /\ undone' \in SUBSET {"confirmed", "rechecked", "unsaved"}
  BY <1>1, TypeParts, ReplaceType DEF Restore, WorldOK
<1>3. WorldOK'
  BY <1>2, TypeParts DEF Restore, WorldOK, fixedVars, tempVars
<1>4. AtOK'
  BY TypeParts, GotoType, DiagnoseType DEF Restore, Places
<1> QED
  BY <1>3, <1>4 DEF TypeOK, AtOK, WorldOK

LEMMA SettleType ==
  ASSUME TypeOK, NEW r \in Repairs, Settle(r)
  PROVE  TypeOK'
<1>1. WorldOK'
  BY TypeParts DEF Settle, WorldOK, fixedVars, tempVars, ghostVars
<1>2. AtOK'
  BY TypeParts, GotoType, DiagnoseType DEF Settle, Places
<1> QED
  BY <1>1, <1>2 DEF TypeOK, AtOK, WorldOK

LEMMA StopType ==
  ASSUME TypeOK, Stop
  PROVE  TypeOK'
<1>1. config' \in Texts /\ undone' \in SUBSET {"confirmed", "rechecked", "unsaved"}
  BY TypeParts, ReplaceType DEF Stop, WorldOK, Texts
<1>2. WorldOK'
  BY <1>1, TypeParts DEF Stop, WorldOK, fixedVars, tempVars
<1>3. AtOK'
  <2>1. [Fresh EXCEPT !.pc = "stopped"] \in Locals
    BY FreshType DEF Locals, Places
  <2>2. [Fresh EXCEPT !.pc = "stopped"].flow = "ok"
    BY DEF Fresh
  <2> QED
    BY <2>1, <2>2, TypeParts DEF Stop, AtOK
<1> QED
  BY <1>2, <1>3 DEF TypeOK, AtOK, WorldOK

-----------------------------------------------------------------------------
(* What is known of a repair at each place                                 *)

\* The flow has no error until it is over, the fallback has a backup to
\* restore, and a repair whose round ended healthy is on its way out.
RepairInv(r) ==
  /\ at[r].pc \in {"idle", "record", "setup", "mark", "sync", "ready", "round"}
       => at[r].flow = "ok" /\ at[r].confirmed = {}
  /\ at[r].pc \in {"clean", "look"} /\ at[r].why \in {"before", "round"}
       => at[r].flow = "ok" /\ at[r].confirmed = {}
  /\ at[r].pc = "restore" => backup # NoBackup
  /\ at[r].confirmed # {} =>
       /\ at[r].flow = "ok" /\ at[r].current
       /\ at[r].pc \in {"unset", "prune", "settle", "clean", "look"}
       /\ at[r].pc \in {"clean", "look"} => at[r].why = "after"

\* A step of one repair leaves the others where they are.
LEMMA OthersStay ==
  ASSUME TypeOK, NEW r \in Repairs, Step(r)
  PROVE  /\ UNCHANGED fixedVars
         /\ \A s \in Repairs \ {r} : at'[s] = at[s]
<1>1. at \in [Repairs -> Locals]
  BY DEF TypeOK
<1>2. UNCHANGED fixedVars
  BY DEF Step, CleanStale, Look, LookFails, Begin, Record, Setup, Mark, Sync,
     Ready, Round, LateEdit, Recheck, CleanUp, PruneRoots, Save, Restore, Settle
<1>3. UNCHANGED at \/ \E l : at' = [at EXCEPT ![r] = l]
  BY DEF Step, CleanStale, Look, LookFails, Begin, Record, Setup, Mark, Sync,
     Ready, Round, LateEdit, Recheck, CleanUp, PruneRoots, Save, Restore, Settle,
     Fails, Diagnose, Goto, Go
<1> QED
  BY <1>1, <1>2, <1>3

\* Where a repair gets with the locals l.
Lands(r, l, pc) ==
  /\ at'[r].pc = pc
  /\ pc = "done" => at'[r].flow = "ok" /\ at'[r].confirmed = {}
  /\ pc # "done" => /\ at'[r].why = l.why
                    /\ at'[r].flow = l.flow
                    /\ at'[r].current = l.current
                    /\ at'[r].damaged = l.damaged
                    /\ at'[r].confirmed = l.confirmed

LEMMA GoLands ==
  ASSUME AtOK, NEW r \in Repairs, NEW l \in Locals, NEW pc, Go(r, l, pc)
  PROVE  Lands(r, l, pc)
<1>1. at'[r] = Left(l, pc)
  BY DEF AtOK, Go
<1>2. CASE pc = "done"
  BY <1>1, <1>2 DEF Left, Fresh, Lands
<1>3. CASE pc # "done"
  <2>1. at'[r] = [l EXCEPT !.pc = pc]
    BY <1>1, <1>3 DEF Left
  <2> QED
    BY <1>3, <2>1 DEF Locals, Lands
<1> QED
  BY <1>2, <1>3

LEMMA GotoLands ==
  ASSUME AtOK, NEW r \in Repairs, NEW pc, Goto(r, pc)
  PROVE  Lands(r, at[r], pc)
BY GoLands DEF Goto, AtOK

LEMMA DiagnoseLands ==
  ASSUME AtOK, NEW r \in Repairs,
         NEW why \in {"before", "round", "fallback", "after"}, Diagnose(r, why)
  PROVE  /\ at'[r].pc = "clean"
         /\ at'[r].why = why
         /\ at'[r].flow = at[r].flow
         /\ at'[r].current = at[r].current
         /\ at'[r].damaged = at[r].damaged
         /\ at'[r].confirmed = at[r].confirmed
<1> DEFINE l == [at[r] EXCEPT !.why = why]
<1>1. at[r] \in Locals
  BY DEF AtOK
<1>2. /\ l \in Locals /\ l.why = why /\ l.flow = at[r].flow
      /\ l.current = at[r].current /\ l.damaged = at[r].damaged
      /\ l.confirmed = at[r].confirmed
  BY <1>1 DEF Locals
<1>3. Go(r, l, "clean")
  BY DEF Diagnose
<1> HIDE DEF l
<1> QED
  BY <1>2, <1>3, GoLands DEF Lands

LEMMA FailsLands ==
  ASSUME AtOK, NEW r \in Repairs, NEW errors \in SUBSET {"error", "setup"},
         Fails(r, errors)
  PROVE  /\ at'[r].pc \in {"recheck", "unset"}
         /\ at'[r].confirmed = at[r].confirmed
<1>1. PICK e \in {"error", "setup", "timeout"} :
        Go(r, [at[r] EXCEPT !.flow = e],
           IF e = "timeout" THEN "recheck" ELSE "unset")
  BY DEF Fails
<1> DEFINE l == [at[r] EXCEPT !.flow = e]
<1>2. at[r] \in Locals
  BY DEF AtOK
<1>3. l \in Locals /\ l.confirmed = at[r].confirmed
  BY <1>2 DEF Locals
<1>4. Go(r, l, IF e = "timeout" THEN "recheck" ELSE "unset")
  BY <1>1
<1> HIDE DEF l
<1> QED
  BY <1>3, <1>4, GoLands DEF Lands

LEMMA LookLands ==
  ASSUME TypeOK, NEW r \in Repairs, Look(r)
  PROVE  \E ok \in BOOLEAN :
           /\ at'[r].pc = After(at[r], ok)
           /\ at'[r].pc # "done" =>
                /\ at'[r].why = at[r].why
                /\ at'[r].flow = at[r].flow
                /\ at'[r].current = ok
                /\ at'[r].damaged = at[r].damaged
                /\ \/ at'[r].confirmed = at[r].confirmed
                   \/ ok /\ at[r].why = "round"
           /\ at'[r].pc = "done" => at'[r].flow = "ok" /\ at'[r].confirmed = {}
<1>0. AtOK /\ at[r] \in Locals
  BY TypeParts DEF AtOK
<1>1. PICK ok \in BOOLEAN :
        LET pc == After(at[r], ok)
            good == IF ok /\ at[r].why = "round" THEN {config} ELSE {}
        IN  /\ ok => config \in Healthy
            /\ Go(r, [at[r] EXCEPT !.current = ok,
                                   !.round = IF pc = "round" THEN @ + 1 ELSE @,
                                   !.confirmed = @ \cup good], pc)
  BY DEF Look
<1> DEFINE pc == After(at[r], ok)
           good == IF ok /\ at[r].why = "round" THEN {config} ELSE {}
           l == [at[r] EXCEPT !.current = ok,
                              !.round = IF pc = "round" THEN @ + 1 ELSE @,
                              !.confirmed = @ \cup good]
<1>2. pc = "round" => at[r].round + 1 \in 0..Rounds
  BY <1>0, RoundsAssumption DEF After, Locals
<1>3. good \in SUBSET Configs
  BY <1>1, HealthyAssumption
<1>4. /\ l \in Locals
      /\ l.current = ok /\ l.why = at[r].why /\ l.flow = at[r].flow
      /\ l.damaged = at[r].damaged
      /\ l.confirmed = at[r].confirmed \cup good
  BY <1>0, <1>2, <1>3 DEF Locals
<1>5. Go(r, l, pc)
  BY <1>1
<1> HIDE DEF l
<1>6. Lands(r, l, pc)
  BY <1>0, <1>4, <1>5, GoLands
<1> QED
  BY <1>4, <1>6 DEF Lands

LEMMA ReadyLands ==
  ASSUME TypeOK, NEW r \in Repairs, Ready(r)
  PROVE  /\ at'[r].pc \in {"round", "unset"}
         /\ at'[r].pc = "round" => at'[r].flow = at[r].flow
         /\ at'[r].confirmed = at[r].confirmed
<1> DEFINE first == [at[r] EXCEPT !.round = 1]
           failed == [at[r] EXCEPT !.flow = "error"]
<1>0. AtOK /\ at[r] \in Locals
  BY TypeParts DEF AtOK
<1>1. /\ first \in Locals
      /\ first.flow = at[r].flow /\ first.confirmed = at[r].confirmed
  BY <1>0, RoundsAssumption DEF Locals
<1>2. failed \in Locals /\ failed.confirmed = at[r].confirmed
  BY <1>0 DEF Locals
<1>3. Go(r, first, "round") \/ Go(r, failed, "unset")
  BY DEF Ready
<1> HIDE DEF first, failed
<1> QED
  BY <1>0, <1>1, <1>2, <1>3, GoLands DEF Lands

LEMMA RecheckLands ==
  ASSUME TypeOK, NEW r \in Repairs, Recheck(r)
  PROVE  at'[r].pc = "unset" /\ at'[r].confirmed = at[r].confirmed
<1> DEFINE well == [at[r] EXCEPT !.flow = "ok", !.rechecked = @ \cup {config}]
           failed == [at[r] EXCEPT !.flow = "error"]
<1>0. AtOK /\ at[r] \in Locals
  BY TypeParts DEF AtOK
<1>1. config \in Healthy => well \in Locals /\ well.confirmed = at[r].confirmed
  BY <1>0, HealthyAssumption DEF Locals
<1>2. failed \in Locals /\ failed.confirmed = at[r].confirmed
  BY <1>0 DEF Locals
<1>3. (config \in Healthy /\ Go(r, well, "unset")) \/ Go(r, failed, "unset")
  BY DEF Recheck
<1> HIDE DEF well, failed
<1> QED
  BY <1>0, <1>1, <1>2, <1>3, GoLands DEF Lands

LEMMA SaveLands ==
  ASSUME TypeOK, NEW r \in Repairs, Save(r)
  PROVE  /\ at'[r].pc \in {Saved, "settle"}
         /\ at'[r].confirmed = at[r].confirmed
         /\ at'[r].pc = "settle" \/ "unread" \in mix \/ at'[r].damaged = {config}
<1> DEFINE l == [at[r] EXCEPT !.damaged = {config}]
<1>0. AtOK /\ at[r] \in Locals
  BY TypeParts DEF AtOK
<1>1. l \in Locals /\ l.confirmed = at[r].confirmed /\ l.damaged = {config}
  BY <1>0, TypeParts DEF Locals, WorldOK
<1>2. Go(r, l, Saved) \/ ("unread" \in mix /\ Goto(r, Saved)) \/ Goto(r, "settle")
  BY DEF Save
<1> HIDE DEF l
<1>3. Saved \in {"settle", "restore"}
  BY DEF Saved
<1>4. CASE Go(r, l, Saved)
  BY <1>0, <1>1, <1>3, <1>4, GoLands DEF Lands
<1>5. CASE "unread" \in mix /\ Goto(r, Saved)
  BY <1>0, <1>3, <1>5, GotoLands DEF Lands
<1>6. CASE Goto(r, "settle")
  BY <1>0, <1>6, GotoLands DEF Lands
<1> QED
  BY <1>2, <1>4, <1>5, <1>6

LEMMA InitRepair == Init => \A r \in Repairs : RepairInv(r)
BY DEF Init, RepairInv, Fresh

LEMMA RepairStep ==
  ASSUME TypeOK, NEW r \in Repairs, RepairInv(r), Step(r)
  PROVE  RepairInv(r)'
<1>0. AtOK /\ at[r] \in Locals /\ backup' = backup
  BY TypeParts, OthersStay DEF AtOK, fixedVars
<1>1. CASE CleanStale(r)
  BY <1>0, <1>1, GotoLands DEF CleanStale, Lands, RepairInv
<1>2. CASE Look(r)
  <2>1. at[r].why \in {"before", "round", "fallback", "after"}
    BY <1>0 DEF Locals
  <2> QED
    BY <1>2, <2>1, LookLands DEF Look, After, RepairInv
<1>3. CASE LookFails(r)
  BY <1>0, <1>3, GotoLands, FailsLands DEF LookFails, Lands, RepairInv
<1>4. CASE Begin(r)
  BY <1>0, <1>4, GotoLands, DiagnoseLands DEF Begin, Lands, RepairInv
<1>5. CASE Record(r)
  BY <1>0, <1>5, GotoLands DEF Record, Lands, RepairInv
<1>6. CASE Setup(r)
  BY <1>0, <1>6, GotoLands, FailsLands DEF Setup, Lands, RepairInv
<1>7. CASE Mark(r)
  BY <1>0, <1>7, GotoLands, FailsLands DEF Mark, Lands, RepairInv
<1>8. CASE Sync(r)
  BY <1>0, <1>8, GotoLands, FailsLands DEF Sync, Lands, RepairInv
<1>9. CASE Ready(r)
  BY <1>9, ReadyLands DEF Ready, RepairInv
<1>10. CASE Round(r)
  BY <1>0, <1>10, DiagnoseLands, FailsLands DEF Round, RepairInv
<1>11. CASE LateEdit(r)
  BY <1>0, <1>11 DEF LateEdit, RepairInv
<1>12. CASE Recheck(r)
  BY <1>12, RecheckLands DEF Recheck, RepairInv
<1>13. CASE CleanUp(r) \/ PruneRoots(r)
  BY <1>0, <1>13, GotoLands DEF CleanUp, PruneRoots, Decide, Lands, RepairInv
<1>14. CASE Save(r)
  BY <1>0, <1>14, SaveLands DEF Save, Saved, RepairInv
<1>15. CASE Restore(r)
  BY <1>0, <1>15, GotoLands, DiagnoseLands DEF Restore, Lands, RepairInv
<1>16. CASE Settle(r)
  BY <1>0, <1>16, GotoLands, DiagnoseLands DEF Settle, Lands, RepairInv
<1> QED
  BY <1>1, <1>2, <1>3, <1>4, <1>5, <1>6, <1>7, <1>8, <1>9, <1>10, <1>11, <1>12,
     <1>13, <1>14, <1>15, <1>16 DEF Step

LEMMA StopRepair ==
  ASSUME TypeOK, \A r \in Repairs : RepairInv(r), Stop
  PROVE  \A r \in Repairs : RepairInv(r)'
<1> SUFFICES ASSUME NEW r \in Repairs PROVE RepairInv(r)'
  OBVIOUS
<1>1. backup' = backup
  BY DEF Stop, fixedVars
<1>2. at'[r] = at[r] \/ at'[r] = [Fresh EXCEPT !.pc = "stopped"]
  BY DEF Stop
<1>3. CASE at'[r] = at[r]
  BY <1>1, <1>3 DEF RepairInv
<1>4. CASE at'[r] = [Fresh EXCEPT !.pc = "stopped"]
  BY <1>4 DEF Fresh, RepairInv
<1> QED
  BY <1>2, <1>3, <1>4

-----------------------------------------------------------------------------
(* The profiles                                                            *)

\* What a complete prune of q found is gone for good: the repairs that had
\* ended set up nothing, and q itself sets up anew before it marks.
SweptInv ==
  /\ \A q \in Repairs : swept[q] =>
       \A r \in older[q] \cup {q} : profile[r] # "marked"
  /\ \A q \in Repairs : at[q].pc \in {"idle", "mark"} => ~swept[q]
  /\ \A q \in Repairs : older[q] \subseteq Ended

LEMMA InitSwept == Init => SweptInv
BY DEF Init, SweptInv

\* Who has ended begins nothing more.
LEMMA EndedStay ==
  ASSUME TypeOK, NEW r \in Repairs, Step(r), r \in Ended
  PROVE  Ended \subseteq Ended'
<1>1. \A s \in Repairs \ {r} : at'[s] = at[s]
  BY OthersStay
<1>2. UNCHANGED at
  BY DEF Ended, Step, CleanStale, Look, LookFails, Begin, Record, Setup, Mark,
     Sync, Ready, Round, LateEdit, Recheck, CleanUp, PruneRoots, Save, Restore,
     Settle
<1> QED
  BY <1>2 DEF Ended

LEMMA EndedGrow ==
  ASSUME TypeOK, NEW r \in Repairs, Step(r)
  PROVE  Ended \subseteq Ended'
<1>1. CASE r \in Ended
  BY <1>1, EndedStay
<1>2. CASE r \notin Ended
  BY <1>2, OthersStay DEF Ended
<1> QED
  BY <1>1, <1>2

\* A step that marks no profile and sweeps nothing but what it has taken away.
LEMMA NothingMarked ==
  ASSUME SweptInv, Ended \subseteq Ended', older' = older,
         \A q \in Repairs : profile'[q] = "marked" => profile[q] = "marked",
         \A q \in Repairs : swept'[q] /\ ~swept[q] =>
           \A r \in Repairs : profile'[r] # "marked",
         \A q \in Repairs : at'[q].pc \in {"idle", "mark"} => ~swept'[q]
  PROVE  SweptInv'
<1>1. \A q \in Repairs : older[q] \subseteq Repairs
  BY DEF SweptInv, Ended
<1> QED
  BY <1>1 DEF SweptInv

LEMMA PruneSweeps ==
  ASSUME TypeOK, NEW r \in Repairs, NEW gone, Prune(r, gone)
  PROVE  /\ \A q \in Repairs : profile'[q] = "marked" => profile[q] = "marked"
         /\ \A q \in Repairs : swept'[q] /\ ~swept[q] =>
              \A s \in Repairs : profile'[s] # "marked"
         /\ \A q \in Repairs \ {r} : swept'[q] = swept[q]
BY DEF TypeOK, Prune, Marked

\* Nobody gets to its marker but from its set-up.
LEMMA ToMark ==
  ASSUME TypeOK, NEW r \in Repairs, Step(r), ~Setup(r)
  PROVE  at'[r] = at[r] \/ at'[r].pc \notin {"idle", "mark"}
<1>0. AtOK /\ at[r] \in Locals
  BY TypeParts DEF AtOK
<1>1. CASE CleanStale(r) \/ LookFails(r) \/ Begin(r) \/ Record(r) \/ Mark(r)
             \/ Sync(r) \/ Settle(r)
  BY <1>0, <1>1, GotoLands, DiagnoseLands, FailsLands
     DEF CleanStale, LookFails, Begin, Record, Mark, Sync, Settle, Lands
<1>2. CASE Look(r)
  <2>1. \A ok \in BOOLEAN : After(at[r], ok) \notin {"idle", "mark"}
    BY <1>0 DEF After, Locals
  <2> QED
    BY <1>2, <2>1, LookLands
<1>3. CASE Ready(r) \/ Recheck(r)
  BY <1>3, ReadyLands, RecheckLands
<1>4. CASE Round(r)
  BY <1>0, <1>4, DiagnoseLands, FailsLands DEF Round
<1>5. CASE LateEdit(r)
  BY <1>5 DEF LateEdit
<1>6. CASE CleanUp(r) \/ PruneRoots(r)
  BY <1>0, <1>6, GotoLands DEF CleanUp, PruneRoots, Decide, Lands
<1>7. CASE Save(r)
  BY <1>7, SaveLands DEF Saved
<1>8. CASE Restore(r)
  BY <1>0, <1>8, GotoLands, DiagnoseLands DEF Restore, Lands
<1> QED
  BY <1>1, <1>2, <1>3, <1>4, <1>5, <1>6, <1>7, <1>8 DEF Step

LEMMA SweptStep ==
  ASSUME TypeOK, SweptInv, NEW r \in Repairs, Step(r)
  PROVE  SweptInv'
<1>1. Ended \subseteq Ended' /\ \A s \in Repairs \ {r} : at'[s] = at[s]
  BY EndedGrow, OthersStay
<1>2. ~Setup(r) => at'[r] = at[r] \/ at'[r].pc \notin {"idle", "mark"}
  BY ToMark
<1>3. CASE Setup(r)
  <2>1. /\ swept' = [swept EXCEPT ![r] = FALSE] /\ older' = older
        /\ profile' \in {profile, [profile EXCEPT ![r] = "bare"]}
    BY <1>3 DEF Setup, ghostVars
  <2> QED
    BY <1>1, <2>1, NothingMarked DEF TypeOK, SweptInv
<1>4. CASE Mark(r)
  <2>1. /\ swept' = swept /\ older' = older /\ ~swept[r]
        /\ profile' \in {profile, [profile EXCEPT ![r] = "marked"]}
        /\ r \notin Ended
    BY <1>4 DEF Mark, ghostVars, SweptInv, Ended
  <2>2. \A q \in Repairs : r \notin older[q]
    BY <2>1 DEF SweptInv
  <2>3. \A q \in Repairs : swept[q] => \A s \in older[q] \cup {q} : profile'[s] # "marked"
    BY <2>1, <2>2 DEF TypeOK, SweptInv
  <2> QED
    BY <1>1, <1>2, <1>4, <2>1, <2>3 DEF SweptInv, Mark, Setup
<1>5. CASE Sync(r)
  <2>1. swept' = swept /\ older' = older /\ ~Setup(r)
    BY <1>5 DEF Sync, Setup, ghostVars
  <2>2. \A q \in Repairs : profile'[q] = "marked" => profile[q] = "marked"
    BY <1>5 DEF Sync, TypeOK
  <2> QED
    BY <1>1, <1>2, <2>1, <2>2, NothingMarked DEF SweptInv
<1>6. CASE Begin(r)
  <2>1. /\ profile' = profile /\ swept' = swept /\ ~swept[r]
        /\ older' = [older EXCEPT ![r] = Ended] /\ ~Setup(r)
    BY <1>6 DEF Begin, Setup, tempVars, SweptInv
  <2> QED
    BY <1>1, <1>2, <2>1 DEF SweptInv, TypeOK
<1>7. CASE CleanStale(r) \/ PruneRoots(r)
  <2>1. PICK gone : Prune(r, gone)
    BY <1>7 DEF CleanStale, PruneRoots
  <2>2. older' = older /\ at'[r].pc \notin {"idle", "mark"}
    BY <1>7, TypeParts, GotoLands
       DEF CleanStale, PruneRoots, Decide, ghostVars, Lands
  <2> QED
    BY <1>1, <2>1, <2>2, PruneSweeps, NothingMarked DEF SweptInv
<1>8. CASE ~Setup(r) /\ UNCHANGED <<tempVars, older>>
  <2>1. profile' = profile /\ swept' = swept /\ older' = older
    BY <1>8 DEF tempVars
  <2> QED
    BY <1>1, <1>2, <1>8, <2>1, NothingMarked DEF SweptInv
<1>9. \/ Setup(r) \/ Mark(r) \/ Sync(r) \/ Begin(r) \/ CleanStale(r) \/ PruneRoots(r)
      \/ UNCHANGED <<tempVars, older>>
  BY DEF Step, Look, LookFails, Record, Ready, Round, LateEdit, Recheck, CleanUp,
     Save, Restore, Settle, ghostVars
<1> QED
  BY <1>3, <1>4, <1>5, <1>6, <1>7, <1>8, <1>9

LEMMA SweptStop == TypeOK /\ SweptInv /\ Stop => SweptInv'
<1> SUFFICES ASSUME TypeOK, SweptInv, Stop PROVE SweptInv'
  OBVIOUS
<1>1. profile' = profile /\ swept' = swept /\ older' = older
  BY DEF Stop, tempVars
<1>2. \A q \in Repairs : at'[q] = at[q] \/ at'[q].pc = "stopped"
  BY DEF Stop, Fresh
<1>3. Ended \subseteq Ended'
  BY <1>2 DEF Ended
<1> QED
  BY <1>1, <1>2, <1>3, NothingMarked DEF SweptInv

-----------------------------------------------------------------------------
(* What a fallback replaces                                                *)

Active == {r \in Repairs : at[r].pc \notin {"idle", "done", "stopped"}}

\* Alone, and with no agent left behind, a repair replaces what it has saved.
SavedInv == mix \subseteq {"ssh", "stop"} =>
  /\ late = {}
  /\ \A r, s \in Active : r = s
  /\ \A r \in Repairs : at[r].pc = "restore" => config \in at[r].damaged
  /\ "unsaved" \notin undone

LEMMA InitSaved == Init => SavedInv
BY DEF Init, Fresh, Active, SavedInv

\* Who is active was so before, or has just begun.
LEMMA ActiveStep ==
  ASSUME TypeOK, NEW r \in Repairs, Step(r)
  PROVE  Active' \subseteq Active \cup {r}
BY OthersStay DEF Active

LEMMA ActiveNot ==
  ASSUME NEW r \in Repairs, Step(r), ~Begin(r), ~LateEdit(r)
  PROVE  r \in Active
BY DEF Active, Step, CleanStale, Look, LookFails, Record, Setup, Mark, Sync,
   Ready, Round, Recheck, CleanUp, PruneRoots, Save, Restore, Settle

LEMMA OneActive ==
  ASSUME TypeOK, SavedInv, mix \subseteq {"ssh", "stop"}, NEW r \in Repairs,
         Step(r)
  PROVE  Active' \subseteq {r}
<1>1. ~LateEdit(r)
  BY DEF SavedInv, LateEdit
<1>2. CASE Begin(r)
  <2>1. "two" \notin mix
    OBVIOUS
  <2>2. Active = {}
    BY <1>2, <2>1 DEF Begin, Ended, Idle, Active
  <2> QED
    BY <2>2, ActiveStep
<1>3. CASE ~Begin(r)
  BY <1>1, <1>3, ActiveNot, ActiveStep DEF SavedInv
<1> QED
  BY <1>2, <1>3

\* Only from its Save does a repair get to the restore.
LEMMA ToRestore ==
  ASSUME TypeOK, NEW r \in Repairs, Step(r), ~Save(r), ~LateEdit(r)
  PROVE  at'[r].pc # "restore"
<1>0. AtOK /\ at[r] \in Locals
  BY TypeParts DEF AtOK
<1>1. CASE CleanStale(r) \/ LookFails(r) \/ Begin(r) \/ Record(r) \/ Setup(r)
             \/ Mark(r) \/ Sync(r) \/ Settle(r)
  BY <1>0, <1>1, GotoLands, DiagnoseLands, FailsLands
     DEF CleanStale, LookFails, Begin, Record, Setup, Mark, Sync, Settle, Lands
<1>2. CASE Look(r)
  <2>1. \A ok \in BOOLEAN : After(at[r], ok) # "restore"
    BY <1>0 DEF After, Locals
  <2> QED
    BY <1>2, <2>1, LookLands
<1>3. CASE Ready(r) \/ Recheck(r)
  BY <1>3, ReadyLands, RecheckLands
<1>4. CASE Round(r)
  BY <1>0, <1>4, DiagnoseLands, FailsLands DEF Round
<1>5. CASE CleanUp(r) \/ PruneRoots(r)
  BY <1>0, <1>5, GotoLands DEF CleanUp, PruneRoots, Decide, Lands
<1>6. CASE Restore(r)
  BY <1>0, <1>6, GotoLands, DiagnoseLands DEF Restore, Lands
<1> QED
  BY <1>1, <1>2, <1>3, <1>4, <1>5, <1>6 DEF Step

LEMMA SavedStep ==
  ASSUME TypeOK, SavedInv, NEW r \in Repairs, Step(r)
  PROVE  SavedInv'
<1>1. mix' = mix
  BY OthersStay DEF fixedVars
<1> SUFFICES ASSUME mix \subseteq {"ssh", "stop"}
             PROVE  /\ late' = {}
                    /\ \A q, s \in Active' : q = s
                    /\ \A q \in Repairs : at'[q].pc = "restore" => config' \in at'[q].damaged
                    /\ "unsaved" \notin undone'
  BY <1>1 DEF SavedInv
<1>2. late = {} /\ ~LateEdit(r)
  BY DEF SavedInv, LateEdit
<1>3. late' = {}
  BY <1>2 DEF Step, CleanStale, Look, LookFails, Begin, Record, Setup, Mark,
     Sync, Ready, Round, Recheck, CleanUp, PruneRoots, Save, Restore, Settle
<1>4. Active' \subseteq {r}
  BY OneActive
<1>5. \A q \in Repairs : at'[q].pc = "restore" => config' \in at'[q].damaged
  <2> SUFFICES ASSUME at'[r].pc = "restore" PROVE config' \in at'[r].damaged
    BY <1>4 DEF Active
  <2>1. Save(r)
    BY <1>2, ToRestore
  <2>2. at'[r].damaged = {config}
    BY <2>1, SaveLands
  <2> QED
    BY <2>1, <2>2 DEF Save
<1>6. "unsaved" \notin undone'
  <2>1. CASE Restore(r)
    <3>1. config \in at[r].damaged /\ "unsaved" \notin undone
      BY <2>1 DEF Restore, SavedInv
    <3> QED
      BY <2>1, <3>1 DEF Restore, Replace
  <2>2. CASE ~Restore(r)
    BY <1>2, <2>2 DEF SavedInv, Step, CleanStale, Look, LookFails, Begin, Record,
       Setup, Mark, Sync, Ready, Round, Recheck, CleanUp, PruneRoots, Save,
       Settle, ghostVars
  <2> QED
    BY <2>1, <2>2
<1> QED
  BY <1>3, <1>4, <1>5, <1>6

LEMMA SavedStop == TypeOK /\ SavedInv /\ Stop => SavedInv'
<1> SUFFICES ASSUME TypeOK, SavedInv, Stop PROVE SavedInv'
  OBVIOUS
<1>1. mix' = mix /\ late' = late
  BY DEF Stop, fixedVars
<1>2. \A q \in Repairs : (at'[q].pc = at[q].pc /\ at'[q].pc \in {"idle", "done", "stopped"})
                         \/ at'[q].pc = "stopped"
  BY DEF Stop, Fresh, Ended, Idle
<1>3. mix \subseteq {"ssh", "stop"} => "unsaved" \notin undone'
  BY DEF Stop, Replace, SavedInv
<1> QED
  BY <1>1, <1>2, <1>3 DEF SavedInv, Active

-----------------------------------------------------------------------------
(* All of it                                                               *)

IInv == /\ TypeOK
        /\ \A r \in Repairs : RepairInv(r)
        /\ HealthyKept
        /\ SweptInv
        /\ SavedInv

LEMMA HealthyStep ==
  ASSUME IInv, Next
  PROVE  HealthyKept'
<1>1. \A r \in Repairs : at[r].pc = "restore" => at[r].confirmed = {}
  BY DEF IInv, RepairInv
<1>2. "confirmed" \notin undone
  BY DEF IInv, HealthyKept
<1>3. CASE Stop
  BY <1>1, <1>2, <1>3 DEF Stop, Replace, HealthyKept
<1>4. ASSUME NEW r \in Repairs, Step(r) PROVE "confirmed" \notin undone'
  <2>1. CASE Restore(r)
    BY <1>1, <1>2, <2>1 DEF Restore, Replace
  <2>2. CASE ~Restore(r)
    BY <1>2, <1>4, <2>2 DEF Step, CleanStale, Look, LookFails, Begin, Record,
       Setup, Mark, Sync, Ready, Round, LateEdit, Recheck, CleanUp, PruneRoots,
       Save, Settle, ghostVars
  <2> QED
    BY <2>1, <2>2
<1> QED
  BY <1>3, <1>4 DEF Next, HealthyKept

LEMMA StepType ==
  ASSUME IInv, NEW r \in Repairs, Step(r)
  PROVE  TypeOK'
<1>1. at[r].pc = "restore" => backup # NoBackup
  BY DEF IInv, RepairInv
<1> QED
  BY <1>1, CleanStaleType, LookType, LookFailsType, SetUpType, ReadyType,
     RoundType, RecheckType, CleanUpType, SaveType, RestoreType, SettleType
     DEF IInv, Step, Restore

LEMMA StepRepairs ==
  ASSUME IInv, NEW r \in Repairs, Step(r)
  PROVE  \A s \in Repairs : RepairInv(s)'
<1>1. RepairInv(r)'
  BY RepairStep DEF IInv
<1>2. ASSUME NEW s \in Repairs \ {r} PROVE RepairInv(s)'
  <2>1. at'[s] = at[s] /\ backup' = backup
    BY OthersStay DEF IInv, fixedVars
  <2> QED
    BY <2>1 DEF IInv, RepairInv
<1> QED
  BY <1>1, <1>2

LEMMA AlwaysInv == Spec => []IInv
<1>1. Init => IInv
  <2>1. Init => HealthyKept
    BY DEF Init, HealthyKept
  <2> QED
    BY <2>1, InitType, InitRepair, InitSwept, InitSaved DEF IInv
<1>2. IInv /\ [Next]_vars => IInv'
  <2> SUFFICES ASSUME IInv, [Next]_vars PROVE IInv'
    OBVIOUS
  <2>1. ASSUME NEW r \in Repairs, Step(r) PROVE IInv'
    BY <2>1, StepType, StepRepairs, HealthyStep, SweptStep, SavedStep
       DEF IInv, Next
  <2>2. CASE Stop
    BY <2>2, StopType, StopRepair, HealthyStep, SweptStop, SavedStop
       DEF IInv, Next
  <2>3. CASE UNCHANGED vars
    <3>1. TypeOK'
      BY <2>3 DEF IInv, TypeOK, vars, fixedVars, tempVars, ghostVars
    <3>2. (\A r \in Repairs : RepairInv(r)') /\ HealthyKept'
      BY <2>3 DEF IInv, RepairInv, HealthyKept, vars, fixedVars, ghostVars
    <3>3. SweptInv'
      BY <2>3 DEF IInv, SweptInv, Ended, vars, tempVars, ghostVars
    <3>4. SavedInv'
      BY <2>3 DEF IInv, SavedInv, Active, vars, fixedVars, ghostVars
    <3> QED
      BY <3>1, <3>2, <3>3, <3>4 DEF IInv
  <2> QED
    BY <2>1, <2>2, <2>3 DEF Next
<1> QED
  BY <1>1, <1>2, PTL DEF Spec

\* Every reachable state is well typed: a repair has no more than its rounds,
\* and every timeout is looked into (doctor_assistant.rs:4659, 4702).
THEOREM TypeCorrect == Spec => []TypeOK
<1>1. IInv => TypeOK
  BY DEF IInv
<1> QED
  BY <1>1, AlwaysInv, PTL

\* However many repairs overlap, fail or are stopped, no marked profile of one
\* that has ended outlasts the complete prune of one that began after it
\* (doctor_assistant.rs:2295, 4289, 4755).
THEOREM ProfilesGo == Spec => []NothingLeft
<1>1. IInv => NothingLeft
  BY DEF IInv, SweptInv, NothingLeft
<1> QED
  BY <1>1, AlwaysInv, PTL

\* No fallback replaces what a diagnosis after a round of the same repair has
\* found healthy (doctor_assistant.rs:4780).
THEOREM HealthyStays == Spec => []HealthyKept
<1>1. IInv => HealthyKept
  BY DEF IInv
<1> QED
  BY <1>1, AlwaysInv, PTL

\* A fallback that could read the damaged text, and that nobody interferes
\* with, has saved what it replaces (doctor_assistant.rs:795, 961).
THEOREM DamagedIsSaved == Spec => []DamagedSaved
<1>1. IInv => DamagedSaved
  BY DEF IInv, SavedInv, DamagedSaved
<1> QED
  BY <1>1, AlwaysInv, PTL
=============================================================================
