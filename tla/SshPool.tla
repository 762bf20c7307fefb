------------------------------ MODULE SshPool ------------------------------
(***************************************************************************)
(* The connection pool of ssh.rs, for one remote host.                     *)
(*                                                                         *)
(* A connect inserts an entry: a semaphore of two permits and a cell with  *)
(* the session.  An operation looks the entry up and works on its own copy *)
(* of it, so it keeps the semaphore and the cell even when a reconnect has *)
(* put another entry in the map.  It takes a permit, clones the session    *)
(* out of the cell and runs its command on a channel.  When the channel    *)
(* cannot be opened it connects a new session, puts it into the cell,      *)
(* closes the old one and tries once more.                                 *)
(***************************************************************************)
EXTENDS Naturals, FiniteSets

CONSTANTS
  Ops,           \* calls of exec, each with a command of its own
  Entries,       \* ConnectedHost values that connects may make
  Sessions,      \* sessions that connects may open
  None,          \* no entry, no session
  Permits,       \* SSH_OP_MAX_CONCURRENCY_PER_HOST: 2 in the code
  MaxFailures,   \* bound: how often the network drops a session or falls silent
  MaxRefusals,   \* bound: how often the server refuses a channel (MaxSessions)
  Reconnects,    \* whether the user connects again or disconnects meanwhile
  Cancels        \* whether callers give up (run_openclaw_remote's timeout)

ASSUME OpsAssumption == IsFiniteSet(Ops)
ASSUME PermitsAssumption == Permits \in Nat \ {0}
ASSUME NoneAssumption == None \notin Entries /\ None \notin Sessions
ASSUME BoundAssumption == MaxFailures \in Nat /\ MaxRefusals \in Nat

VARIABLES
  current,   \* connections[id]: the entry new operations find, or None
  made,      \* entries made so far
  cell,      \* the session in each entry's cell
  free,      \* free permits of each entry
  alive,     \* sessions whose connection is up, as far as the pool knows
  silent,    \* sessions whose host does not answer any more
  opened,    \* sessions opened so far
  pc,        \* where each operation is
  host,      \* the entry it has looked up
  sess,      \* the session it has cloned, or the new one it has connected
  tries,     \* how often it has tried to open a channel
  remote,    \* its command on the host: not started, running or ended
  runs,      \* how often the host started its command
  answer,    \* what the caller got: exit status 0, an error, or nothing yet
  failures, refusals

pool == <<current, made, cell, free>>
net == <<alive, silent, opened, failures, refusals>>
ops == <<pc, host, sess, tries, answer>>
far == <<remote, runs>>
vars == <<pool, net, ops, far>>

Places == {"idle", "waiting", "clone", "open", "running", "refresh", "swap",
           "done"}
\* Where an operation holds a permit of its entry.
Working == {"clone", "open", "running", "refresh", "swap"}
Holders(e) == {o \in Ops : host[o] = e /\ pc[o] \in Working}
Answering == alive \ silent

Init == /\ current = None /\ made = {} /\ alive = {} /\ silent = {} /\ opened = {}
        /\ cell = [e \in Entries |-> None]
        /\ free = [e \in Entries |-> Permits]
        /\ pc = [o \in Ops |-> "idle"]
        /\ host = [o \in Ops |-> None]
        /\ sess = [o \in Ops |-> None]
        /\ tries = [o \in Ops |-> 0]
        /\ remote = [o \in Ops |-> "unstarted"]
        /\ runs = [o \in Ops |-> 0]
        /\ answer = [o \in Ops |-> "none"]
        /\ failures = 0 /\ refusals = 0

-----------------------------------------------------------------------------
(* Connecting and disconnecting *)

\* connect_with_passphrase: a new session and a new entry take the place of
\* whatever was there; the old entry lives on in the operations that hold it.
Connect ==
  /\ current # None => Reconnects
  /\ \E e \in Entries \ made, s \in Sessions \ opened :
       /\ current' = e
       /\ made' = made \cup {e}
       /\ cell' = [cell EXCEPT ![e] = s]
       /\ alive' = alive \cup {s}
       /\ opened' = opened \cup {s}
  /\ UNCHANGED <<free, silent, failures, refusals, ops, far>>

Disconnect ==
  /\ Reconnects
  /\ current # None
  /\ alive' = alive \ {cell[current]}
  /\ current' = None
  /\ UNCHANGED <<made, cell, free, silent, opened, failures, refusals, ops, far>>

NetworkFails(s) ==
  /\ s \in alive
  /\ failures < MaxFailures
  /\ failures' = failures + 1
  /\ alive' = alive \ {s}
  /\ UNCHANGED <<pool, silent, opened, refusals, ops, far>>

\* The host is cut off, and nothing tells the session: it has no keepalive.
FallsSilent(s) ==
  /\ s \in Answering
  /\ failures < MaxFailures
  /\ failures' = failures + 1
  /\ silent' = silent \cup {s}
  /\ UNCHANGED <<pool, alive, opened, refusals, ops, far>>

SpeaksAgain(s) ==
  /\ s \in silent
  /\ silent' = silent \ {s}
  /\ UNCHANGED <<pool, alive, opened, failures, refusals, ops, far>>

-----------------------------------------------------------------------------
(* exec *)

Goto(o, l) == pc' = [pc EXCEPT ![o] = l]
\* The call returns, and what it holds is gone.
Answer(o, a) == /\ Goto(o, "done")
                /\ answer' = [answer EXCEPT ![o] = a]
                /\ sess' = [sess EXCEPT ![o] = None]
                /\ tries' = [tries EXCEPT ![o] = 0]
\* The permit is dropped with the call's future.
GiveBack(o) == free' = [free EXCEPT ![host[o]] = @ + 1]

LookUp(o) ==
  /\ pc[o] = "idle"
  /\ IF current = None
     THEN Answer(o, "error") /\ UNCHANGED host
     ELSE /\ host' = [host EXCEPT ![o] = current]
          /\ Goto(o, "waiting")
          /\ UNCHANGED <<sess, tries, answer>>
  /\ UNCHANGED <<pool, net, far>>

Acquire(o) ==
  /\ pc[o] = "waiting"
  /\ free[host[o]] > 0
  /\ free' = [free EXCEPT ![host[o]] = @ - 1]
  /\ Goto(o, "clone")
  /\ UNCHANGED <<current, made, cell, net, host, sess, tries, answer, far>>

CloneSession(o) ==
  /\ pc[o] = "clone"
  /\ sess' = [sess EXCEPT ![o] = cell[host[o]]]
  /\ Goto(o, "open")
  /\ UNCHANGED <<pool, net, host, tries, answer, far>>

\* The channel opens and the host starts the command.  channel_open_session has
\* no timeout: on a silent session the call waits for the host's answer, and
\* keeps its permit.
OpenChannel(o) ==
  /\ pc[o] = "open"
  /\ sess[o] \in Answering
  /\ remote' = [remote EXCEPT ![o] = "running"]
  /\ runs' = [runs EXCEPT ![o] = @ + 1]
  /\ tries' = [tries EXCEPT ![o] = @ + 1]
  /\ Goto(o, "running")
  /\ UNCHANGED <<pool, net, host, sess, answer>>

\* A mutant: the retry may itself be retried.
OpenFailsTwice(o) ==
  /\ pc[o] = "open"
  /\ \/ sess[o] \notin alive /\ UNCHANGED refusals
     \/ /\ sess[o] \in Answering
        /\ refusals < MaxRefusals
        /\ refusals' = refusals + 1
  /\ IF tries[o] <= 1
     THEN /\ tries' = [tries EXCEPT ![o] = @ + 1]
          /\ Goto(o, "refresh")
          /\ UNCHANGED <<free, sess, answer>>
     ELSE Answer(o, "error") /\ GiveBack(o)
  /\ UNCHANGED <<current, made, cell, alive, silent, opened, failures, host, far>>

\* "ssh open channel failed": the session is dead, or the server allows no
\* more channels.  is_retryable_session_error, so the first time it refreshes.
OpenFails(o) ==
  /\ pc[o] = "open"
  /\ \/ sess[o] \notin alive /\ UNCHANGED refusals
     \/ /\ sess[o] \in Answering
        /\ refusals < MaxRefusals
        /\ refusals' = refusals + 1
  /\ IF tries[o] = 0
     THEN /\ tries' = [tries EXCEPT ![o] = @ + 1]
          /\ Goto(o, "refresh")
          /\ UNCHANGED <<free, sess, answer>>
     ELSE Answer(o, "error") /\ GiveBack(o)
  /\ UNCHANGED <<current, made, cell, alive, silent, opened, failures, host, far>>

\* refresh_session connects a session of its own ...
RefreshConnect(o) ==
  /\ pc[o] = "refresh"
  /\ \E s \in Sessions \ opened :
       /\ alive' = alive \cup {s}
       /\ opened' = opened \cup {s}
       /\ sess' = [sess EXCEPT ![o] = s]
  /\ Goto(o, "swap")
  /\ UNCHANGED <<pool, silent, failures, refusals, host, tries, answer, far>>

\* A mutant: the call that cannot refresh its session keeps its permit.
RefreshFailsLeaks(o) ==
  /\ pc[o] = "refresh"
  /\ Answer(o, "error")
  /\ UNCHANGED <<pool, net, host, far>>

RefreshFails(o) ==
  /\ pc[o] = "refresh"
  /\ Answer(o, "error")
  /\ GiveBack(o)
  /\ UNCHANGED <<current, made, cell, net, host, far>>

\* ... and under the cell's lock puts it there and closes the one it replaces,
\* which may by now be another than the one that failed.
RefreshSwap(o) ==
  /\ pc[o] = "swap"
  /\ alive' = alive \ {cell[host[o]]}
  /\ cell' = [cell EXCEPT ![host[o]] = sess[o]]
  /\ Goto(o, "clone")
  /\ UNCHANGED <<current, made, free, silent, opened, failures, refusals, host,
                 sess, tries, answer, far>>

\* The exit status arrives.
CommandEnds(o) ==
  /\ pc[o] = "running"
  /\ sess[o] \in Answering
  /\ remote' = [remote EXCEPT ![o] = "ended"]
  /\ Answer(o, "ok")
  /\ GiveBack(o)
  /\ UNCHANGED <<current, made, cell, net, host, runs>>

\* The connection is gone: the channel ends without an exit status, which the
\* session reports as -1 and exec turns into 0 (exit_code.max(0) as u32).
ChannelLost(o) ==
  /\ pc[o] = "running"
  /\ sess[o] \notin alive
  /\ Answer(o, "ok")
  /\ GiveBack(o)
  /\ UNCHANGED <<current, made, cell, net, host, far>>

\* A mutant: a timeout counts as an error of the session and is retried.
TimesOutRetried(o) ==
  /\ pc[o] = "running"
  /\ IF tries[o] = 1
     THEN Goto(o, "refresh") /\ UNCHANGED <<free, sess, tries, answer>>
     ELSE Answer(o, "error") /\ GiveBack(o)
  /\ UNCHANGED <<current, made, cell, net, host, far>>

\* "russh exec timed out": no retryable error.
TimesOut(o) ==
  /\ pc[o] = "running"
  /\ Answer(o, "error")
  /\ GiveBack(o)
  /\ UNCHANGED <<current, made, cell, net, host, far>>

\* A mutant: the permit is given back at the end of the call, not by its drop.
CancelLeaks(o) ==
  /\ Cancels
  /\ pc[o] \notin {"idle", "done"}
  /\ Answer(o, "error")
  /\ UNCHANGED <<pool, net, host, far>>

\* The caller's own timeout drops the call wherever it is.
Cancel(o) ==
  /\ Cancels
  /\ pc[o] \notin {"idle", "done"}
  /\ Answer(o, "error")
  /\ IF pc[o] \in Working THEN GiveBack(o) ELSE UNCHANGED free
  /\ UNCHANGED <<current, made, cell, net, host, far>>

\* On the host, the command of a caller that is gone ends when it ends.
RemoteEnds(o) ==
  /\ pc[o] = "done"
  /\ remote[o] = "running"
  /\ remote' = [remote EXCEPT ![o] = "ended"]
  /\ UNCHANGED <<pool, net, ops, runs>>

Exec(o) == \/ LookUp(o) \/ Acquire(o) \/ CloneSession(o) \/ OpenChannel(o)
           \/ OpenFails(o) \/ RefreshConnect(o) \/ RefreshFails(o)
           \/ RefreshSwap(o) \/ CommandEnds(o) \/ ChannelLost(o) \/ TimesOut(o)

Next == \/ Connect
        \/ Disconnect
        \/ \E s \in Sessions : NetworkFails(s) \/ FallsSilent(s) \/ SpeaksAgain(s)
        \/ \E o \in Ops : Exec(o) \/ Cancel(o) \/ RemoteEnds(o)

Spec == Init /\ [][Next]_vars

\* A call that has looked its entry up goes on by itself: the runtime polls
\* it, and connecting, closing a session and running a command have timeouts of
\* their own.  Opening a channel has none: it needs a host that answers.
Fairness == \A o \in Ops : WF_vars(pc[o] # "idle" /\ Exec(o))
FairSpec == Spec /\ Fairness

-----------------------------------------------------------------------------
(* Properties *)

PoolOK == /\ current \in Entries \cup {None}
          /\ made \in SUBSET Entries
          /\ cell \in [Entries -> Sessions \cup {None}]
          /\ free \in [Entries -> 0..Permits]
NetOK == /\ alive \in SUBSET Sessions /\ silent \in SUBSET Sessions
         /\ opened \in SUBSET Sessions
         /\ failures \in 0..MaxFailures /\ refusals \in 0..MaxRefusals
OpsOK == /\ pc \in [Ops -> Places]
         /\ host \in [Ops -> Entries \cup {None}]
         /\ sess \in [Ops -> Sessions \cup {None}]
         /\ tries \in [Ops -> 0..2]
         /\ answer \in [Ops -> {"none", "ok", "error"}]
FarOK == /\ remote \in [Ops -> {"unstarted", "running", "ended"}]
         /\ runs \in [Ops -> 0..2]

\* Every variable has its type; in particular a call opens a channel at most
\* twice (ssh.rs:49-66 and 355-369).
TypeOK == PoolOK /\ NetOK /\ OpsOK /\ FarOK

\* No permit is lost or made: whatever path a call leaves by, errors in the
\* middle of a refresh and dropped calls included, its permit goes back to the
\* semaphore it was taken from (ssh.rs:346).
PermitsConserved ==
  \A e \in Entries : free[e] + Cardinality(Holders(e)) = Permits

\* The retry never runs a command a second time (ssh.rs:364-368): the errors
\* it retries on arise before the host has started the command.
RunsAtMostOnce == \A o \in Ops : runs[o] <= 1

\* A call that reports exit status 0 ran a command that ended
\* (ssh.rs:388-392): remote errors must not pass for success.
OkMeansEnded == \A o \in Ops : answer[o] = "ok" => remote[o] = "ended"

\* A call that waits for a silent host to open its channel, and one that waits
\* for a permit while such calls hold all of them.
Hangs(o) == pc[o] = "open" /\ sess[o] \in alive \cap silent
Blocked(o) ==
  \/ Hangs(o)
  \/ /\ pc[o] = "waiting"
     /\ Cardinality({p \in Holders(host[o]) : Hangs(p)}) = Permits

\* Every call that found an entry is answered, however sessions fail and are
\* refreshed under it and whoever competes for the permits, but for one thing
\* only: channels that a silent host does not open, its own or those of calls
\* that hold every permit (ssh.rs:340-393, clawpal-core/src/ssh/mod.rs:151).
CallsReturn == \A o \in Ops : []<>(pc[o] \in {"idle", "done"} \/ Blocked(o))
=============================================================================
