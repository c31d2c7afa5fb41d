------------------------------- MODULE Reaper -------------------------------
(***************************************************************************)
(* The stale-claim reaper (firebase/reaper.ts) as the bridges run it       *)
(* (startReaper, startHeartbeat in cli/bridge.ts).                         *)
(*                                                                         *)
(* Every bridge ticks on a timer.  A tick that does not hold the lease     *)
(* tries to claim it; when somebody else has it, the tick reads that       *)
(* agent's presence, breaks the lease of one that looks gone, and tries    *)
(* once more.  A tick that holds the lease sweeps: one survey of claims,   *)
(* agents and cards, then one reapClaim after the other.  All of these are *)
(* separate awaits, so bridges, workers and time move in between.  The     *)
(* claims are the board's own; the lease is one more of them, on a task    *)
(* that has no card.                                                       *)
(*                                                                         *)
(* Time is counted in units longer than a heartbeat interval.  The age of  *)
(* a claim and the silence of an agent grow with it, up to Horizon, past   *)
(* which nothing tells them apart.                                         *)
(***************************************************************************)
EXTENDS Board, FiniteSets

CONSTANTS Lease,      \* REAPER_LEASE_ID
          Bridges,    \* agents whose bridge was given a reaper
          Steady,     \* agents whose bridge runs throughout and beats in every unit of time
          Fresh,      \* the steady ones whose last beat was recent when their bridge started
          Stale,      \* STALE_AFTER_MS
          Timeout,    \* CLAIM_TIMEOUT_MS
          Workers,    \* agents that claim tasks in this instance
          Revocable,  \* agents whose token may be revoked in this instance
          Reports,    \* the events that move cards in this instance
          MaxSweep,   \* bound: units of time a sweep may last
          MaxFaults   \* bound: store calls that fail, and tokens revoked

ASSUME ReaperAssumption ==
  /\ Lease \in Tasks
  /\ Bridges \subseteq Agents
  /\ Fresh \subseteq Steady /\ Steady \subseteq Agents
  /\ Stale \in Nat \ {0} /\ MaxSweep \in Nat /\ MaxFaults \in Nat
  /\ Timeout \in Nat /\ Timeout > MaxSweep
  /\ Workers \subseteq Agents /\ Revocable \subseteq Agents \ Steady
  /\ Reports \subseteq {"task_completed", "branch_pushed", "pr_opened", "merged"}

VARIABLES age,      \* how long ago each claim was taken
          silent,   \* how long ago each agent last beat, or Never, or Unknown
          revoked,  \* agents whose token has been revoked
          running,  \* agents whose bridge process runs and has not been told to stop
          bridge,   \* the reaper of each bridge: what it believes, and where its tick is
          faults    \* store calls that have failed, and tokens revoked

clock == <<age, silent>>
vars  == <<board, clock, revoked, running, bridge, faults>>

Horizon == Timeout + 1
Never   == -1     \* registered, no heartbeat yet
Unknown == -2     \* no presence document

Entry == [task : Tasks, agent : Agents, quiet : 0 .. Horizon]

Bridge == [pc      : {"idle", "lost", "breaking", "retrying", "sweeping"},
           holding : BOOLEAN,
           owner   : Agents \cup {NoAgent},   \* got.owner
           survey  : SUBSET Entry,            \* the claims this sweep may still release
           elapsed : 0 .. MaxSweep]           \* how long ago the survey was read

Asleep == [pc |-> "idle", holding |-> FALSE, owner |-> NoAgent, survey |-> {}, elapsed |-> 0]

\* The lease may still be held by an earlier process of somebody who is silent now.
Leftovers == {a \in Agents \ Fresh : silent[a] \notin 0 .. Stale} \cup {NoAgent}

Init ==
  /\ tasks   = [t \in Tasks |-> IF t = Lease THEN NoCard ELSE NewCard]
  /\ locks   = [a \in Agents |-> Unlocked]
  /\ silent \in [Agents -> {Unknown, Never, Horizon} \cup {0}]
  /\ \A a \in Steady : silent[a] # Unknown
  /\ \A a \in Fresh : silent[a] = 0
  /\ \E a \in Leftovers : claims = [t \in Tasks |-> IF t = Lease THEN a ELSE NoAgent]
  /\ \E n \in {0, Horizon} : age = [t \in Tasks |-> IF claims[t] = NoAgent THEN 0 ELSE n]
  /\ revoked = {}
  /\ running = Steady
  /\ bridge  = [a \in Agents |-> Asleep]
  /\ faults  = 0

Fault == faults < MaxFaults /\ faults' = faults + 1

-----------------------------------------------------------------------------
(* Time, presence and the work the claims are about.                       *)

Later(n) == IF n \in 0 .. Timeout THEN n + 1 ELSE n

\* A unit passes.  A steady agent has beaten in it, so its last beat lies at most one back.
Advance ==
  /\ \A b \in Steady : silent[b] \in {0, 1}
  /\ \A b \in Agents : bridge[b].pc = "sweeping" => bridge[b].elapsed < MaxSweep
  /\ age'    = [t \in Tasks |-> IF claims[t] = NoAgent THEN 0 ELSE Later(age[t])]
  /\ silent' = [a \in Agents |-> IF a \in Steady THEN 1 ELSE Later(silent[a])]
  /\ bridge' = [b \in Agents |->
                  IF bridge[b].pc = "sweeping" THEN [bridge[b] EXCEPT !.elapsed = @ + 1]
                                               ELSE bridge[b]]
  /\ UNCHANGED <<board, revoked, running, faults>>

\* heartbeat merges into the agent's document and creates it when there is none.
Beat(a) ==
  /\ a \in running
  /\ a \in Steady => silent[a] \notin {0, 1}
  /\ silent' = [silent EXCEPT ![a] = 0]
  /\ UNCHANGED <<board, age, revoked, running, bridge, faults>>

\* The claim document takes its claimed_at along.
Forget(t) == age' = [age EXCEPT ![t] = 0]

\* A worker claims through the CLI, with its bridge running or without one.
Claim(a, t) ==
  /\ t # Lease /\ a \in Workers \ revoked
  /\ TakeClaim(a, t)
  /\ UNCHANGED <<clock, revoked, running, bridge, faults>>

ReleaseOwn(a, t) ==
  /\ t # Lease /\ a \notin revoked
  /\ claims[t] = a
  /\ EndClaim(t)
  /\ Forget(t)
  /\ UNCHANGED <<silent, revoked, running, bridge, faults>>

\* The work leaves the machine, or comes back for another round.
MoveCard(kind, t) ==
  /\ t # Lease
  /\ Report(kind, t, FALSE)
  /\ UNCHANGED <<clock, revoked, running, bridge, faults>>

Revoke(a) ==
  /\ Fault
  /\ a \in Revocable /\ silent[a] # Unknown
  /\ revoked' = revoked \cup {a}
  /\ UNCHANGED <<board, clock, running, bridge>>

-----------------------------------------------------------------------------
(* tryAcquire.                                                             *)

Goto(b, pc) == bridge' = [bridge EXCEPT ![b].pc = pc, ![b].owner = NoAgent]

\* claimTask on the lease: free, already one's own, or somebody else's.
WinLease(b) ==
  /\ bridge' = [bridge EXCEPT ![b].pc = "idle", ![b].holding = TRUE]
  /\ TakeClaim(b, Lease) \/ (claims[Lease] = b /\ UNCHANGED board)

LoseLease(b, pc, owner) ==
  /\ claims[Lease] \notin {NoAgent, b}
  /\ bridge' = [bridge EXCEPT ![b].pc = pc, ![b].owner = owner]
  /\ UNCHANGED board

\* Mutant: the whole answer is passed on where its owner is meant.
TryAcquire_WholeAnswer(b) ==
  /\ b \in (running \cap Bridges) \ revoked
  /\ bridge[b].pc = "idle" /\ ~bridge[b].holding
  /\ WinLease(b) \/ LoseLease(b, "lost", [ok |-> FALSE, owner |-> claims[Lease]])
  /\ UNCHANGED <<clock, revoked, running, faults>>

TryAcquire(b) ==
  /\ b \in (running \cap Bridges) \ revoked
  /\ bridge[b].pc = "idle" /\ ~bridge[b].holding
  /\ WinLease(b) \/ LoseLease(b, "lost", claims[Lease])
  /\ UNCHANGED <<clock, revoked, running, faults>>

\* Mutant: holder?.stale, an agent without a heartbeat on record is taken for alive.
Dead_BeatenOnly(a) == silent[a] \in Stale + 1 .. Horizon

\* `stale`, derived from the last heartbeat; an agent with no row counts as dead too.
Dead(a) == silent[a] \notin 0 .. Stale

ReadPresence(b) ==
  /\ bridge[b].pc = "lost"
  /\ IF Dead(bridge[b].owner) THEN bridge' = [bridge EXCEPT ![b].pc = "breaking"]
                              ELSE Goto(b, "idle")
  /\ UNCHANGED <<board, clock, revoked, running, faults>>

\* Mutant: reapClaim deletes the claim without comparing its owner with the one it was given.
ReapClaim_AnyOwner(t, owner) ==
  \/ EndClaim(t) /\ Forget(t)
  \/ claims[t] = NoAgent /\ UNCHANGED <<board, age>>

\* reapClaim: nothing to do when the claim is gone or somebody else's by now.
ReapClaim(t, owner) ==
  \/ claims[t] = owner /\ EndClaim(t) /\ Forget(t)
  \/ claims[t] # owner /\ UNCHANGED <<board, age>>

BreakLease(b) ==
  /\ bridge[b].pc = "breaking"
  /\ ReapClaim(Lease, bridge[b].owner)
  /\ Goto(b, "retrying")
  /\ UNCHANGED <<silent, revoked, running, faults>>

\* One retry only.
RetryAcquire(b) ==
  /\ bridge[b].pc = "retrying"
  /\ b \notin revoked
  /\ WinLease(b) \/ LoseLease(b, "idle", NoAgent)
  /\ UNCHANGED <<clock, revoked, running, faults>>

-----------------------------------------------------------------------------
(* The sweep.                                                              *)

Shipped == {"needs_review", "pr_open", "merged", "done"}

Lesser(m, n) == IF m < n THEN m ELSE n

\* Mutant: silence is measured from the heartbeat alone, the claim is no sign of life.
Quiet_HeartbeatOnly(t) ==
  LET a == claims[t] IN
  IF a \in revoked \/ silent[a] = Never THEN Horizon ELSE silent[a]

\* How long the holder of t has given no sign of life: neither a heartbeat nor the
\* claim itself.  A revoked holder is given no time at all.
Quiet(t) ==
  LET a == claims[t] IN
  CASE a \in revoked      -> Horizon
    [] silent[a] = Never  -> age[t]
    [] OTHER              -> Lesser(age[t], silent[a])

\* The claims a sweep that starts now may release before it ends; it only reports the others.
Examined ==
  {t \in Tasks : /\ claims[t] # NoAgent
                 /\ tasks[t].status \notin Shipped
                 /\ claims[t] \in revoked \/ silent[claims[t]] # Unknown
                 /\ Quiet(t) + MaxSweep > Timeout}

\* A tick that holds the lease starts with its three reads.  A tick under way when
\* its bridge is stopped still gets here.
Survey(b) ==
  /\ bridge[b].pc = "idle" /\ bridge[b].holding
  /\ Examined # {}
  /\ bridge' = [bridge EXCEPT
                  ![b].pc = "sweeping",
                  ![b].survey = {[task |-> t, agent |-> claims[t], quiet |-> Quiet(t)] : t \in Examined}]
  /\ UNCHANGED <<board, clock, revoked, running, faults>>

\* now() is read when the claim's turn comes, the heartbeat was read by the survey.
Overdue(b, e) == e.quiet + bridge[b].elapsed > Timeout

\* The sweep is done with entry e, and with itself after the last one.
Decided(b, e) ==
  bridge' = [bridge EXCEPT ![b].survey = @ \ {e},
                           ![b].pc = IF bridge[b].survey = {e} THEN "idle" ELSE @,
                           ![b].elapsed = IF bridge[b].survey = {e} THEN 0 ELSE @]

Decide(b, e) ==
  /\ bridge[b].pc = "sweeping" /\ e \in bridge[b].survey
  /\ IF Overdue(b, e) THEN ReapClaim(e.task, e.agent) ELSE UNCHANGED <<board, age>>
  /\ Decided(b, e)
  /\ UNCHANGED <<silent, revoked, running, faults>>

-----------------------------------------------------------------------------
(* Faults.                                                                 *)

\* A call throws: the tick is over, and what the bridge believes stays.
TickFails(b) ==
  /\ Fault
  /\ bridge[b].pc \notin {"idle", "sweeping"}
  /\ Goto(b, "idle")
  /\ UNCHANGED <<board, clock, revoked, running>>

\* The lease is claimed and the answer is lost.
LeaseAnswerLost(b) ==
  /\ Fault
  /\ b \in (running \cap Bridges) \ revoked
  /\ bridge[b].pc = "idle" /\ ~bridge[b].holding
  /\ TakeClaim(b, Lease)
  /\ UNCHANGED <<clock, revoked, running, bridge>>

\* One failed release does not abandon the rest of the table.
ReleaseFails(b, e) ==
  /\ Fault
  /\ bridge[b].pc = "sweeping" /\ e \in bridge[b].survey
  /\ Decided(b, e)
  /\ UNCHANGED <<board, clock, revoked, running>>

\* A revoked bridge gets no lease: claimTask throws before its transaction.
RefusedRevoked(b) ==
  /\ b \in revoked
  /\ bridge[b].pc = "retrying"
  /\ Goto(b, "idle")
  /\ UNCHANGED <<board, clock, revoked, running, faults>>

\* The process dies: nothing it held is given back.
Crash(b) ==
  /\ b \in Agents \ Steady
  /\ running' = running \ {b}
  /\ bridge'  = [bridge EXCEPT ![b] = Asleep]
  /\ UNCHANGED <<board, clock, revoked, faults>>

\* A clean stop hands the lease back, best effort; a tick under way runs to its end.
Stop(b) ==
  /\ b \in running \ Steady
  /\ running' = running \ {b}
  /\ \/ bridge[b].holding /\ b \notin revoked /\ ReapClaim(Lease, b)
     \/ UNCHANGED <<board, age>>
  /\ UNCHANGED <<silent, revoked, bridge, faults>>

Start(b) ==
  /\ b \notin running
  /\ bridge[b].pc = "idle"
  /\ running' = running \cup {b}
  /\ bridge'  = [bridge EXCEPT ![b] = Asleep]
  /\ UNCHANGED <<board, clock, revoked, faults>>

-----------------------------------------------------------------------------
\* The steps of a tick, from one await to the next.
Step(b) ==
  \/ TryAcquire(b) \/ ReadPresence(b) \/ BreakLease(b) \/ RetryAcquire(b) \/ RefusedRevoked(b)
  \/ Survey(b)
  \/ \E e \in bridge[b].survey : Decide(b, e)

Next ==
  \/ Advance
  \/ \E a \in Agents : Beat(a) \/ Step(a) \/ Revoke(a) \/ Crash(a) \/ Stop(a) \/ Start(a)
  \/ \E a \in Agents, t \in Tasks : Claim(a, t) \/ ReleaseOwn(a, t)
  \/ \E kind \in Reports, t \in Tasks : MoveCard(kind, t)
  \/ \E b \in Agents : TickFails(b) \/ LeaseAnswerLost(b)
  \/ \E b \in Agents : \E e \in bridge[b].survey : ReleaseFails(b, e)

\* Time passes; a steady bridge beats and ticks; a tick under way gets on, or its process dies.
Fairness ==
  /\ WF_vars(Advance)
  /\ \A b \in Steady : WF_vars(Beat(b))
  /\ \A b \in Steady \cap Bridges : WF_vars(Step(b))
  /\ \A b \in Bridges \ Steady : WF_vars(bridge[b].pc # "idle" /\ Step(b))

Spec == Init /\ [][Next]_vars /\ Fairness

-----------------------------------------------------------------------------
(* Every variable has its type.                                            *)
TypeOK ==
  /\ tasks \in [Tasks -> Card]
  /\ claims \in [Tasks -> Agents \cup {NoAgent}]
  /\ locks = [a \in Agents |-> Unlocked]
  /\ age \in [Tasks -> 0 .. Horizon]
  /\ silent \in [Agents -> {Unknown, Never} \cup 0 .. Horizon]
  /\ revoked \subseteq Agents \ Steady
  /\ running \subseteq Agents
  /\ bridge \in [Agents -> Bridge]
  /\ faults \in 0 .. MaxFaults

(* An agent whose bridge keeps beating never loses a task to the reaper:   *)
(* whatever several bridges surveyed, however old its last heartbeat was   *)
(* when it claimed, and whoever held the task before it, its claim ends    *)
(* by its own release.                                                     *)
WorkingAgentKeepsClaim ==
  [][\A t \in Tasks \ {Lease} :
       claims[t] \in Steady /\ claims'[t] # claims[t] => ReleaseOwn(claims[t], t)]_vars

(* Of the bridges that were beating before they started, the one that      *)
(* believes it holds the lease does hold it: no other bridge breaks the    *)
(* lease of a live holder or takes it over, so no two of them sweep.       *)
LeaseKept == \A b \in Fresh : bridge[b].holding => claims[Lease] = b

(* A dead laptop does not hold a task forever: with one bridge running,    *)
(* the claim of an agent whose bridge stays down ends, although the dead   *)
(* agent may hold the reaper's lease as well.  One agent stands in the     *)
(* way: one that holds the lease from an earlier process and is back with  *)
(* a heartbeat and no reaper, for its presence is taken for the reaper's.  *)
AbandonedClaimFreed ==
  \A t \in Tasks \ {Lease}, a \in Agents \ Steady :
    claims[t] = a /\ a \notin running
      ~> \/ claims[t] # a \/ a \in running
         \/ tasks[t].status \in Shipped \/ silent[a] = Unknown
         \/ claims[Lease] \in running \ Bridges
=============================================================================
