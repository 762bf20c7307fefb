--------------------------- MODULE SshPoolProofs ---------------------------
(***************************************************************************)
(* Proofs about SshPool, for any number of calls, permits, connects and    *)
(* failures: the types, that no permit is ever lost, and that the retry    *)
(* never runs a command twice.                                             *)
(***************************************************************************)
EXTENDS SshPool, FiniteSetTheorems, TLAPS

\* A call has an entry while it needs one, has opened as many channels as its
\* place allows, and nothing of it runs on the host before a channel is open.
OpInv(o) == /\ pc[o] \in Working \cup {"waiting"} => host[o] \in Entries
            /\ pc[o] \in {"idle", "waiting"} => tries[o] = 0
            /\ pc[o] \in {"clone", "open", "refresh", "swap"} => tries[o] <= 1
            /\ pc[o] \notin {"running", "done"} => runs[o] = 0
            /\ runs[o] <= 1

IInv == TypeOK /\ PermitsConserved /\ \A o \in Ops : OpInv(o)

-----------------------------------------------------------------------------
(* The semaphores *)

\* A set of calls can be counted.
LEMMA HoldersFinite ==
  ASSUME NEW e
  PROVE  IsFiniteSet(Holders(e)) /\ Cardinality(Holders(e)) \in Nat
<1>1. Holders(e) \subseteq Ops
  BY DEF Holders
<1>2. IsFiniteSet(Holders(e))
  BY <1>1, OpsAssumption, FS_Subset
<1> QED
  BY <1>2, FS_CardinalityType

\* Nobody comes, nobody goes.
LEMMA NobodyMoves ==
  ASSUME PermitsConserved, free' = free,
         \A e \in Entries : Holders(e)' = Holders(e)
  PROVE  PermitsConserved'
BY DEF PermitsConserved

\* Whoever takes a permit is counted from then on (ssh.rs:346).
LEMMA TakesPermit ==
  ASSUME TypeOK, PermitsConserved, NEW o \in Ops, NEW h \in Entries,
         host[o] = h, host' = host, pc[o] \notin Working, free[h] > 0,
         free' = [free EXCEPT ![h] = @ - 1],
         NEW l \in Working, pc' = [pc EXCEPT ![o] = l]
  PROVE  PermitsConserved' /\ free' \in [Entries -> 0..Permits]
<1>1. Permits \in Nat /\ free \in [Entries -> 0..Permits] /\ pc \in [Ops -> Places]
  BY PermitsAssumption DEF TypeOK, PoolOK, OpsOK
<1>2. o \notin Holders(h) /\ Holders(h)' = Holders(h) \cup {o}
  BY <1>1 DEF Holders
<1>3. \A e \in Entries \ {h} : Holders(e)' = Holders(e)
  BY <1>1 DEF Holders
<1>4. Cardinality(Holders(h)') = Cardinality(Holders(h)) + 1
  BY <1>2, HoldersFinite, FS_AddElement
<1>5. /\ Cardinality(Holders(h)) \in Nat
      /\ free[h] + Cardinality(Holders(h)) = Permits
  BY HoldersFinite DEF PermitsConserved
<1>6. free'[h] = free[h] - 1 /\ \A e \in Entries \ {h} : free'[e] = free[e]
  BY <1>1
<1>7. free[h] - 1 \in 0..Permits
  BY <1>1
<1>8. free' \in [Entries -> 0..Permits]
  BY <1>1, <1>7
<1>9. free'[h] + Cardinality(Holders(h)') = Permits
  BY <1>1, <1>4, <1>5, <1>6
<1>10. \A e \in Entries \ {h} : free'[e] + Cardinality(Holders(e)') = Permits
  BY <1>3, <1>6 DEF PermitsConserved
<1>11. PermitsConserved'
  BY <1>9, <1>10 DEF PermitsConserved
<1> QED
  BY <1>8, <1>11

\* Whoever leaves gives it back, and there was room for it.
LEMMA GivesPermitBack ==
  ASSUME TypeOK, PermitsConserved, NEW o \in Ops, NEW h \in Entries,
         host[o] = h, host' = host, pc[o] \in Working, GiveBack(o),
         pc' = [pc EXCEPT ![o] = "done"]
  PROVE  PermitsConserved' /\ free' \in [Entries -> 0..Permits]
<1>1. Permits \in Nat /\ free \in [Entries -> 0..Permits] /\ pc \in [Ops -> Places]
  BY PermitsAssumption DEF TypeOK, PoolOK, OpsOK
<1>2. o \in Holders(h) /\ Holders(h)' = Holders(h) \ {o}
  BY <1>1 DEF Holders, Working
<1>3. \A e \in Entries \ {h} : Holders(e)' = Holders(e)
  BY <1>1 DEF Holders
<1>4. Cardinality(Holders(h)') = Cardinality(Holders(h)) - 1
  BY <1>2, HoldersFinite, FS_RemoveElement
<1>5. /\ Cardinality(Holders(h)) \in Nat
      /\ free[h] + Cardinality(Holders(h)) = Permits
  BY HoldersFinite DEF PermitsConserved
<1>6. Cardinality(Holders(h)) # 0
  BY <1>2, HoldersFinite, FS_EmptySet
<1>7. free' = [free EXCEPT ![h] = free[h] + 1]
  BY DEF GiveBack
<1>8. free'[h] = free[h] + 1 /\ \A e \in Entries \ {h} : free'[e] = free[e]
  BY <1>1, <1>7
<1>9. free[h] + 1 \in 0..Permits
  BY <1>1, <1>5, <1>6
<1>10. free' \in [Entries -> 0..Permits]
  BY <1>1, <1>7, <1>9
<1>11. free'[h] + Cardinality(Holders(h)') = Permits
  BY <1>1, <1>4, <1>5, <1>8
<1>12. \A e \in Entries \ {h} : free'[e] + Cardinality(Holders(e)') = Permits
  BY <1>3, <1>8 DEF PermitsConserved
<1>13. PermitsConserved'
  BY <1>11, <1>12 DEF PermitsConserved
<1> QED
  BY <1>10, <1>13
-----------------------------------------------------------------------------
(* The invariant *)

LEMMA InitInv == Init => IInv
<1> SUFFICES ASSUME Init PROVE IInv
  OBVIOUS
<1>1. /\ \A o \in Ops : /\ pc[o] = "idle" /\ tries[o] = 0 /\ runs[o] = 0
                        /\ host[o] = None
      /\ \A e \in Entries : free[e] = Permits
  BY DEF Init
<1>2. PoolOK
  BY PermitsAssumption DEF Init, PoolOK
<1>3. NetOK
  BY BoundAssumption DEF Init, NetOK
<1>4. OpsOK
  BY DEF Init, OpsOK, Places
<1>5. FarOK
  BY DEF Init, FarOK
<1>6. \A e \in Entries : Holders(e) = {}
  BY <1>1 DEF Holders, Working
<1>7. PermitsConserved
  BY <1>1, <1>6, FS_EmptySet, PermitsAssumption DEF PermitsConserved
<1>8. \A o \in Ops : OpInv(o)
  BY <1>1 DEF OpInv, Working
<1> QED
  BY <1>2, <1>3, <1>4, <1>5, <1>7, <1>8 DEF IInv, TypeOK

\* What happens to entries and sessions without a call.
Elsewhere == \/ Connect \/ Disconnect
             \/ \E s \in Sessions : NetworkFails(s) \/ FallsSilent(s) \/ SpeaksAgain(s)

\* Connects, disconnects and failures leave the calls and the permits alone.
LEMMA ElsewhereStep ==
  ASSUME IInv, Elsewhere
  PROVE  IInv'
<1>1. UNCHANGED <<free, ops, far>>
  BY DEF Elsewhere, Connect, Disconnect, NetworkFails, FallsSilent, SpeaksAgain, pool
<1>2. (PoolOK /\ NetOK)'
  BY BoundAssumption DEF Elsewhere, Connect, Disconnect, NetworkFails, FallsSilent,
     SpeaksAgain, pool, IInv, TypeOK, PoolOK, NetOK
<1>3. TypeOK'
  BY <1>1, <1>2 DEF IInv, TypeOK, OpsOK, FarOK, ops, far
<1>4. PermitsConserved'
  BY <1>1, NobodyMoves DEF IInv, Holders, ops
<1>5. \A o \in Ops : OpInv(o)'
  BY <1>1 DEF IInv, OpInv, ops, far
<1> QED
  BY <1>3, <1>4, <1>5 DEF IInv

\* The call finds an entry or ends with an error; it has no permit yet.
LEMMA LookUpStep ==
  ASSUME IInv, NEW o \in Ops, LookUp(o)
  PROVE  IInv'
<1> USE DEF IInv
<1>1. OpsOK' /\ FarOK' /\ NetOK' /\ (PoolOK /\ free' = free => PoolOK')
  BY BoundAssumption DEF LookUp, Goto, Answer, GiveBack, TypeOK, PoolOK,
     NetOK, OpsOK, FarOK, OpInv,
     Places, Working, pool, net, ops, far
<1>2. free' = free /\ \A e \in Entries : Holders(e)' = Holders(e)
  BY DEF LookUp, Goto, Answer, GiveBack, TypeOK, OpsOK, Holders, Working,
     pool, ops
<1>3. PermitsConserved' /\ PoolOK'
  BY <1>1, <1>2, NobodyMoves DEF TypeOK
<1>4. \A x \in Ops : OpInv(x)'
  BY DEF LookUp, Goto, Answer, GiveBack, TypeOK, PoolOK, OpsOK, FarOK,
     OpInv, Working, Places, pool, ops, far
<1> QED
  BY <1>1, <1>3, <1>4 DEF TypeOK

\* The call takes a permit.
LEMMA AcquireStep ==
  ASSUME IInv, NEW o \in Ops, Acquire(o)
  PROVE  IInv'
<1> USE DEF IInv
<1>1. OpsOK' /\ FarOK' /\ NetOK' /\ (PoolOK /\ free' = free => PoolOK')
  BY BoundAssumption DEF Acquire, Goto, Answer, GiveBack, TypeOK, PoolOK,
     NetOK, OpsOK, FarOK, OpInv,
     Places, Working, pool, net, ops, far
<1>2. PermitsConserved' /\ free' \in [Entries -> 0..Permits]
  BY TakesPermit DEF Acquire, Goto, Answer, GiveBack, OpInv, Working
<1>3. PermitsConserved' /\ PoolOK'
  BY <1>2 DEF Acquire, Goto, Answer, GiveBack, TypeOK, PoolOK
<1>4. \A x \in Ops : OpInv(x)'
  BY DEF Acquire, Goto, Answer, GiveBack, TypeOK, PoolOK, OpsOK, FarOK,
     OpInv, Working, Places, pool, ops, far
<1> QED
  BY <1>1, <1>3, <1>4 DEF TypeOK

\* The call clones the session.
LEMMA CloneSessionStep ==
  ASSUME IInv, NEW o \in Ops, CloneSession(o)
  PROVE  IInv'
<1> USE DEF IInv
<1>1. OpsOK' /\ FarOK' /\ NetOK' /\ (PoolOK /\ free' = free => PoolOK')
  BY BoundAssumption DEF CloneSession, Goto, Answer, GiveBack, TypeOK,
     PoolOK, NetOK, OpsOK, FarOK, OpInv,
     Places, Working, pool, net, ops, far
<1>2. free' = free /\ \A e \in Entries : Holders(e)' = Holders(e)
  BY DEF CloneSession, Goto, Answer, GiveBack, TypeOK, OpsOK, Holders,
     Working, pool, ops
<1>3. PermitsConserved' /\ PoolOK'
  BY <1>1, <1>2, NobodyMoves DEF TypeOK
<1>4. \A x \in Ops : OpInv(x)'
  BY DEF CloneSession, Goto, Answer, GiveBack, TypeOK, PoolOK, OpsOK,
     FarOK, OpInv, Working, Places, pool, ops, far
<1> QED
  BY <1>1, <1>3, <1>4 DEF TypeOK

\* The first and only start of the command.
LEMMA OpenChannelStep ==
  ASSUME IInv, NEW o \in Ops, OpenChannel(o)
  PROVE  IInv'
<1> USE DEF IInv
<1>1. OpsOK' /\ FarOK' /\ NetOK' /\ (PoolOK /\ free' = free => PoolOK')
  BY BoundAssumption DEF OpenChannel, Goto, Answer, GiveBack, TypeOK,
     PoolOK, NetOK, OpsOK, FarOK, OpInv,
     Places, Working, pool, net, ops, far
<1>2. free' = free /\ \A e \in Entries : Holders(e)' = Holders(e)
  BY DEF OpenChannel, Goto, Answer, GiveBack, TypeOK, OpsOK, Holders,
     Working, pool, ops
<1>3. PermitsConserved' /\ PoolOK'
  BY <1>1, <1>2, NobodyMoves DEF TypeOK
<1>4. \A x \in Ops : OpInv(x)'
  BY DEF OpenChannel, Goto, Answer, GiveBack, TypeOK, PoolOK, OpsOK,
     FarOK, OpInv, Working, Places, pool, ops, far
<1> QED
  BY <1>1, <1>3, <1>4 DEF TypeOK

\* A first failure refreshes, a second one ends the call.
LEMMA OpenFailsStep ==
  ASSUME IInv, NEW o \in Ops, OpenFails(o)
  PROVE  IInv'
<1> USE DEF IInv
<1>1. OpsOK' /\ FarOK' /\ NetOK' /\ (PoolOK /\ free' = free => PoolOK')
  BY BoundAssumption DEF OpenFails, Goto, Answer, GiveBack, TypeOK,
     PoolOK, NetOK, OpsOK, FarOK, OpInv,
     Places, Working, pool, net, ops, far
<1>2. ASSUME tries[o] = 0 PROVE PermitsConserved' /\ PoolOK'
  <2>1. free' = free /\ \A e \in Entries : Holders(e)' = Holders(e)
    BY <1>2 DEF OpenFails, Goto, TypeOK, OpsOK, Holders, Working
  <2> QED
    BY <1>1, <2>1, NobodyMoves DEF TypeOK
<1>3. ASSUME tries[o] # 0 PROVE PermitsConserved' /\ PoolOK'
  <2>1. PermitsConserved' /\ free' \in [Entries -> 0..Permits]
    BY <1>3, GivesPermitBack DEF OpenFails, Goto, Answer, OpInv, Working
  <2> QED
    BY <2>1 DEF OpenFails, TypeOK, PoolOK
<1>4. \A x \in Ops : OpInv(x)'
  BY DEF OpenFails, Goto, Answer, GiveBack, TypeOK, PoolOK, OpsOK, FarOK,
     OpInv, Working, Places, pool, ops, far
<1> QED
  BY <1>1, <1>2, <1>3, <1>4 DEF TypeOK

\* The call connects a session.
LEMMA RefreshConnectStep ==
  ASSUME IInv, NEW o \in Ops, RefreshConnect(o)
  PROVE  IInv'
<1> USE DEF IInv
<1>1. OpsOK' /\ FarOK' /\ NetOK' /\ (PoolOK /\ free' = free => PoolOK')
  BY BoundAssumption DEF RefreshConnect, Goto, Answer, GiveBack, TypeOK,
     PoolOK, NetOK, OpsOK, FarOK, OpInv,
     Places, Working, pool, net, ops, far
<1>2. free' = free /\ \A e \in Entries : Holders(e)' = Holders(e)
  BY DEF RefreshConnect, Goto, Answer, GiveBack, TypeOK, OpsOK, Holders,
     Working, pool, ops
<1>3. PermitsConserved' /\ PoolOK'
  BY <1>1, <1>2, NobodyMoves DEF TypeOK
<1>4. \A x \in Ops : OpInv(x)'
  BY DEF RefreshConnect, Goto, Answer, GiveBack, TypeOK, PoolOK, OpsOK,
     FarOK, OpInv, Working, Places, pool, ops, far
<1> QED
  BY <1>1, <1>3, <1>4 DEF TypeOK

\* The call ends and gives its permit back.
LEMMA RefreshFailsStep ==
  ASSUME IInv, NEW o \in Ops, RefreshFails(o)
  PROVE  IInv'
<1> USE DEF IInv
<1>1. OpsOK' /\ FarOK' /\ NetOK' /\ (PoolOK /\ free' = free => PoolOK')
  BY BoundAssumption DEF RefreshFails, Goto, Answer, GiveBack, TypeOK,
     PoolOK, NetOK, OpsOK, FarOK, OpInv,
     Places, Working, pool, net, ops, far
<1>2. PermitsConserved' /\ free' \in [Entries -> 0..Permits]
  BY GivesPermitBack DEF RefreshFails, Goto, Answer, OpInv, Working
<1>3. PermitsConserved' /\ PoolOK'
  BY <1>2 DEF RefreshFails, Goto, Answer, GiveBack, TypeOK, PoolOK
<1>4. \A x \in Ops : OpInv(x)'
  BY DEF RefreshFails, Goto, Answer, GiveBack, TypeOK, PoolOK, OpsOK,
     FarOK, OpInv, Working, Places, pool, ops, far
<1> QED
  BY <1>1, <1>3, <1>4 DEF TypeOK

\* The call puts its session into the cell.
LEMMA RefreshSwapStep ==
  ASSUME IInv, NEW o \in Ops, RefreshSwap(o)
  PROVE  IInv'
<1> USE DEF IInv
<1>1. OpsOK' /\ FarOK' /\ NetOK' /\ (PoolOK /\ free' = free => PoolOK')
  BY BoundAssumption DEF RefreshSwap, Goto, Answer, GiveBack, TypeOK,
     PoolOK, NetOK, OpsOK, FarOK, OpInv,
     Places, Working, pool, net, ops, far
<1>2. free' = free /\ \A e \in Entries : Holders(e)' = Holders(e)
  BY DEF RefreshSwap, Goto, Answer, GiveBack, TypeOK, OpsOK, Holders,
     Working, pool, ops
<1>3. PermitsConserved' /\ PoolOK'
  BY <1>1, <1>2, NobodyMoves DEF TypeOK
<1>4. \A x \in Ops : OpInv(x)'
  BY DEF RefreshSwap, Goto, Answer, GiveBack, TypeOK, PoolOK, OpsOK,
     FarOK, OpInv, Working, Places, pool, ops, far
<1> QED
  BY <1>1, <1>3, <1>4 DEF TypeOK

\* The call ends and gives its permit back.
LEMMA CommandEndsStep ==
  ASSUME IInv, NEW o \in Ops, CommandEnds(o)
  PROVE  IInv'
<1> USE DEF IInv
<1>1. OpsOK' /\ FarOK' /\ NetOK' /\ (PoolOK /\ free' = free => PoolOK')
  BY BoundAssumption DEF CommandEnds, Goto, Answer, GiveBack, TypeOK,
     PoolOK, NetOK, OpsOK, FarOK, OpInv,
     Places, Working, pool, net, ops, far
<1>2. PermitsConserved' /\ free' \in [Entries -> 0..Permits]
  BY GivesPermitBack DEF CommandEnds, Goto, Answer, OpInv, Working
<1>3. PermitsConserved' /\ PoolOK'
  BY <1>2 DEF CommandEnds, Goto, Answer, GiveBack, TypeOK, PoolOK
<1>4. \A x \in Ops : OpInv(x)'
  BY DEF CommandEnds, Goto, Answer, GiveBack, TypeOK, PoolOK, OpsOK,
     FarOK, OpInv, Working, Places, pool, ops, far
<1> QED
  BY <1>1, <1>3, <1>4 DEF TypeOK

\* The call ends and gives its permit back.
LEMMA ChannelLostStep ==
  ASSUME IInv, NEW o \in Ops, ChannelLost(o)
  PROVE  IInv'
<1> USE DEF IInv
<1>1. OpsOK' /\ FarOK' /\ NetOK' /\ (PoolOK /\ free' = free => PoolOK')
  BY BoundAssumption DEF ChannelLost, Goto, Answer, GiveBack, TypeOK,
     PoolOK, NetOK, OpsOK, FarOK, OpInv,
     Places, Working, pool, net, ops, far
<1>2. PermitsConserved' /\ free' \in [Entries -> 0..Permits]
  BY GivesPermitBack DEF ChannelLost, Goto, Answer, OpInv, Working
<1>3. PermitsConserved' /\ PoolOK'
  BY <1>2 DEF ChannelLost, Goto, Answer, GiveBack, TypeOK, PoolOK
<1>4. \A x \in Ops : OpInv(x)'
  BY DEF ChannelLost, Goto, Answer, GiveBack, TypeOK, PoolOK, OpsOK,
     FarOK, OpInv, Working, Places, pool, ops, far
<1> QED
  BY <1>1, <1>3, <1>4 DEF TypeOK

\* The call ends and gives its permit back.
LEMMA TimesOutStep ==
  ASSUME IInv, NEW o \in Ops, TimesOut(o)
  PROVE  IInv'
<1> USE DEF IInv
<1>1. OpsOK' /\ FarOK' /\ NetOK' /\ (PoolOK /\ free' = free => PoolOK')
  BY BoundAssumption DEF TimesOut, Goto, Answer, GiveBack, TypeOK, PoolOK,
     NetOK, OpsOK, FarOK, OpInv,
     Places, Working, pool, net, ops, far
<1>2. PermitsConserved' /\ free' \in [Entries -> 0..Permits]
  BY GivesPermitBack DEF TimesOut, Goto, Answer, OpInv, Working
<1>3. PermitsConserved' /\ PoolOK'
  BY <1>2 DEF TimesOut, Goto, Answer, GiveBack, TypeOK, PoolOK
<1>4. \A x \in Ops : OpInv(x)'
  BY DEF TimesOut, Goto, Answer, GiveBack, TypeOK, PoolOK, OpsOK, FarOK,
     OpInv, Working, Places, pool, ops, far
<1> QED
  BY <1>1, <1>3, <1>4 DEF TypeOK

\* The call ends wherever it is, and gives back the permit it has, if any.
LEMMA CancelStep ==
  ASSUME IInv, NEW o \in Ops, Cancel(o)
  PROVE  IInv'
<1> USE DEF IInv
<1>1. OpsOK' /\ FarOK' /\ NetOK' /\ (PoolOK /\ free' = free => PoolOK')
  BY BoundAssumption DEF Cancel, Goto, Answer, GiveBack, TypeOK, PoolOK,
     NetOK, OpsOK, FarOK, OpInv,
     Places, Working, pool, net, ops, far
<1>2. ASSUME pc[o] \notin Working PROVE PermitsConserved' /\ PoolOK'
  <2>1. free' = free /\ \A e \in Entries : Holders(e)' = Holders(e)
    BY <1>2 DEF Cancel, Goto, Answer, TypeOK, OpsOK, Holders, Working
  <2> QED
    BY <1>1, <2>1, NobodyMoves DEF TypeOK
<1>3. ASSUME pc[o] \in Working PROVE PermitsConserved' /\ PoolOK'
  <2>1. PermitsConserved' /\ free' \in [Entries -> 0..Permits]
    BY <1>3, GivesPermitBack DEF Cancel, Goto, Answer, OpInv
  <2> QED
    BY <2>1 DEF Cancel, TypeOK, PoolOK
<1>4. \A x \in Ops : OpInv(x)'
  BY DEF Cancel, Goto, Answer, GiveBack, TypeOK, PoolOK, OpsOK, FarOK,
     OpInv, Working, Places, pool, ops, far
<1> QED
  BY <1>1, <1>2, <1>3, <1>4 DEF TypeOK

\* The host's own step.
LEMMA RemoteEndsStep ==
  ASSUME IInv, NEW o \in Ops, RemoteEnds(o)
  PROVE  IInv'
<1> USE DEF IInv
<1>1. OpsOK' /\ FarOK' /\ NetOK' /\ (PoolOK /\ free' = free => PoolOK')
  BY BoundAssumption DEF RemoteEnds, Goto, Answer, GiveBack, TypeOK,
     PoolOK, NetOK, OpsOK, FarOK, OpInv,
     Places, Working, pool, net, ops, far
<1>2. free' = free /\ \A e \in Entries : Holders(e)' = Holders(e)
  BY DEF RemoteEnds, Goto, Answer, GiveBack, TypeOK, OpsOK, Holders,
     Working, pool, ops
<1>3. PermitsConserved' /\ PoolOK'
  BY <1>1, <1>2, NobodyMoves DEF TypeOK
<1>4. \A x \in Ops : OpInv(x)'
  BY DEF RemoteEnds, Goto, Answer, GiveBack, TypeOK, PoolOK, OpsOK, FarOK,
     OpInv, Working, Places, pool, ops, far
<1> QED
  BY <1>1, <1>3, <1>4 DEF TypeOK

LEMMA StepInv == IInv /\ [Next]_vars => IInv'
<1> SUFFICES ASSUME IInv, [Next]_vars PROVE IInv'
  OBVIOUS
<1>1. CASE Elsewhere
  BY <1>1, ElsewhereStep
<1>2. CASE \E o \in Ops : Exec(o) \/ Cancel(o) \/ RemoteEnds(o)
  BY <1>2, LookUpStep, AcquireStep, CloneSessionStep, OpenChannelStep,
     OpenFailsStep, RefreshConnectStep, RefreshFailsStep, RefreshSwapStep,
     CommandEndsStep, ChannelLostStep, TimesOutStep, CancelStep,
     RemoteEndsStep DEF Exec
<1>3. CASE UNCHANGED vars
  <2>1. TypeOK'
    BY <1>3 DEF vars, pool, net, ops, far, IInv, TypeOK, PoolOK, NetOK, OpsOK,
       FarOK
  <2>2. PermitsConserved'
    BY <1>3, NobodyMoves DEF vars, pool, ops, IInv, Holders
  <2>3. \A o \in Ops : OpInv(o)'
    BY <1>3 DEF vars, ops, far, IInv, OpInv
  <2> QED
    BY <2>1, <2>2, <2>3 DEF IInv
<1> QED
  BY <1>1, <1>2, <1>3 DEF Next, Elsewhere

LEMMA AlwaysInv == Spec => []IInv
BY InitInv, StepInv, PTL DEF Spec

\* Every reachable state is well typed; a call opens at most two channels.
THEOREM TypeCorrect == Spec => []TypeOK
<1>1. IInv => TypeOK
  BY DEF IInv
<1> QED
  BY <1>1, AlwaysInv, PTL

\* With any number of calls and permits, no permit is ever lost or made, by
\* whatever path a call leaves exec (ssh.rs:340-393).
THEOREM NoPermitIsLost == Spec => []PermitsConserved
<1>1. IInv => PermitsConserved
  BY DEF IInv
<1> QED
  BY <1>1, AlwaysInv, PTL

\* The retry of exec starts no command a second time, whatever sessions fail
\* and are refreshed (ssh.rs:364-368).
THEOREM RetriesAreSafe == Spec => []RunsAtMostOnce
<1>1. IInv => RunsAtMostOnce
  BY DEF IInv, OpInv, RunsAtMostOnce
<1> QED
  BY <1>1, AlwaysInv, PTL
=============================================================================
