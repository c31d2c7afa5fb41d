-------------------------- MODULE CoordinationStore --------------------------
(***************************************************************************)
(* The Firestore CoordinationStore of one project (firebase/store.ts): the *)
(* event documents and their seq counter, the folded task cards, the claim *)
(* documents, the scope locks and the project rollup, changed only by      *)
(* transactions that several agents, GitHub, the members and the reaper    *)
(* run concurrently.                                                       *)
(*                                                                         *)
(* An agent's call is two steps.  Begin is what the API does before the    *)
(* transaction: the revocation check, and for a handoff the read of the    *)
(* claim's holder.  The second step is the transaction, which commits as a *)
(* whole.  In between anything may happen, a revocation included.  A call  *)
(* may also fail without committing (contention that outlasts its retries, *)
(* an outage).  Answers are not kept: a caller is free to repeat any call  *)
(* whatever it was told, which covers the answer lost on the way.          *)
(*                                                                         *)
(* claimed_at and acquired_at are clock readings.  A reading is modelled   *)
(* by the seq its transaction allocates: readings of two committed appends *)
(* differ and grow, which is what the keys built from them rely on.        *)
(***************************************************************************)
EXTENDS TaskFold, FiniteSets

CONSTANTS Tasks, NoTask,
          Scopes, NoScope,  \* a scope stands for the list of globs of one request
          Overlap,          \* the pairs of scopes some of whose globs intersect
          Owners,           \* the agents whose role is owner: they may hand off any claim
          LockCap,          \* LIMITS.locks
          AgentOps,         \* the calls agents make in this instance
          AgentKinds,       \* the event kinds agents append through POST /events
          GithubKinds,      \* the event kinds the webhook appends
          MaxSeq,           \* bound: events on the ledger
          SystemOps,        \* the calls the members and the reaper make in this instance
          Revocable,        \* the agents whose token may be revoked in this instance
          MaxKeys,          \* bound: client keys per agent
          MaxDeliveries     \* bound: webhook delivery ids

Ops == {"claim", "release", "handoff", "append", "acquire", "unscope"}

ASSUME StoreAssumption ==
  /\ IsFiniteSet(Agents) /\ IsFiniteSet(Tasks)
  /\ NoTask \notin Tasks
  /\ NoScope \notin Scopes
  /\ Overlap \subseteq Scopes \X Scopes
  /\ \A x, y \in Scopes : <<x, y>> \in Overlap => <<y, x>> \in Overlap
  /\ Owners \subseteq Agents
  /\ LockCap \in Nat
  /\ AgentOps \subseteq Ops
  /\ SystemOps \subseteq {"create", "reap", "cancel", "handoff", "unlock"}
  /\ AgentKinds \subseteq {"task_progress", "agent_heartbeat", "task_blocked",
                           "task_completed", "scope_locked", "scope_released"}
  /\ GithubKinds \subseteq {"branch_pushed", "pr_opened", "merged", "ci_passed", "ci_failed"}
  /\ MaxSeq \in Nat
  /\ Revocable \subseteq Agents
  /\ MaxKeys \in Nat
  /\ MaxDeliveries \in Nat

VARIABLES events,   \* the event documents, each with its seq and idempotency key
          counter,  \* meta/ledger: the last seq allocated
          tasks,    \* the card of each task
          claims,   \* claims/{task}: holder and claimed_at
          locks,    \* locks/{agent}: the one scope an agent holds
          rollup,   \* the rollup on the project document
          revoked,  \* agents whose token has been revoked
          call      \* the call each agent has in flight, past its gate

ledgerVars == <<events, counter, tasks, locks, rollup>>
storeVars  == <<events, counter, tasks, claims, locks, rollup>>
vars       == <<events, counter, tasks, claims, locks, rollup, revoked, call>>

-----------------------------------------------------------------------------
(* Documents.                                                              *)

NoClaim == [agent |-> NoAgent, at |-> 0]
Claim   == [agent : Agents, at : Nat] \cup {NoClaim}

NoLock    == [task |-> NoTask, globs |-> NoScope, at |-> 0]
ScopeLock == [task : Tasks, globs : Scopes, at : Nat] \cup {NoLock}

KeyOps == {"create", "claim", "release", "reap", "handoff", "scope", "unscope",
           "cancel", "client", "gh"}

\* An idempotency key: its prefix and the fields the code concatenates after it.
IdempotencyKey ==
  [op : KeyOps, task : Tasks \cup {NoTask}, agent : Agents \cup {NoAgent},
   globs : Scopes \cup {NoScope}, at : Nat]

Key(op, t, a, g, n) == [op |-> op, task |-> t, agent |-> a, globs |-> g, at |-> n]

\* What every event body of a kind must name.
Names(e) ==
  /\ e.kind \in LockKinds \cup {"task_claimed"} => e.agent \in Agents
  /\ e.kind = "scope_locked" => e.globs \in Scopes

EventInput ==
  {e \in [kind : Kinds, task : Tasks, agent : Agents \cup {NoAgent},
          globs : Scopes \cup {NoScope}, blocker : BOOLEAN, key : IdempotencyKey] : Names(e)}

Event ==
  {e \in [kind : Kinds, task : Tasks, agent : Agents \cup {NoAgent},
          globs : Scopes \cup {NoScope}, blocker : BOOLEAN, key : IdempotencyKey,
          seq : Nat] : Names(e)}

\* An event body that names a task and, where the kind has one, an agent.
Body(kind, t, a, key) ==
  [kind |-> kind, task |-> t, agent |-> a, globs |-> NoScope, blocker |-> FALSE, key |-> key]

Stamped(e, n) ==
  [kind |-> e.kind, task |-> e.task, agent |-> e.agent, globs |-> e.globs,
   blocker |-> e.blocker, key |-> e.key, seq |-> n]

\* A call in flight, with the arguments its operation needs.
Request ==
  {r \in [op : Ops \cup {"none"}, task : Tasks \cup {NoTask}, globs : Scopes \cup {NoScope},
          holder : Agents \cup {NoAgent}, kind : Kinds \cup {"none"}, n : Nat] :
     /\ r.op \in {"claim", "release", "handoff", "append", "acquire"} => r.task \in Tasks
     /\ r.op = "handoff" => r.holder \in Agents
     /\ r.op = "append" => r.kind \in AgentKinds /\ (r.kind = "scope_locked" => r.globs \in Scopes)
     /\ r.op = "acquire" => r.globs \in Scopes}

NoRequest == [op |-> "none", task |-> NoTask, globs |-> NoScope,
              holder |-> NoAgent, kind |-> "none", n |-> 0]

-----------------------------------------------------------------------------
Init ==
  /\ events  = {}
  /\ counter = 0
  /\ tasks   = [t \in Tasks |-> NoCard]
  /\ claims  = [t \in Tasks |-> NoClaim]
  /\ locks   = [a \in Agents |-> NoLock]
  /\ rollup  = EmptyRollup
  /\ revoked = {}
  /\ call    = [a \in Agents |-> NoRequest]

-----------------------------------------------------------------------------
(* The append every transaction rides on: planAppend, commitAppend.        *)

Recorded(key) == \E e \in events : e.key = key

\* Mutant: the delete is driven off the folded lock map, which scope_released empties.
LocksAfter_NoDelete(e) ==
  CASE e.kind = "scope_locked" ->
         [locks EXCEPT ![e.agent] = [task |-> e.task, globs |-> e.globs, at |-> counter + 1]]
    [] OTHER -> locks

LocksAfter(e) ==
  CASE e.kind = "scope_locked" ->
         [locks EXCEPT ![e.agent] = [task |-> e.task, globs |-> e.globs, at |-> counter + 1]]
    [] e.kind = "scope_released" -> [locks EXCEPT ![e.agent] = NoLock]
    [] OTHER -> locks

\* Mutant: a duplicate still folds its event into the board.
AppendDuplicate_Folds(e) ==
  /\ Recorded(e.key)
  /\ tasks' = [tasks EXCEPT ![e.task] = Apply(@, e)]
  /\ UNCHANGED <<events, counter, locks, rollup>>

\* A key already on the ledger appends nothing and changes nothing the append owns.
AppendDuplicate(e) == Recorded(e.key) /\ UNCHANGED ledgerVars

\* Mutant: the idempotency key is not looked up.
AppendFresh_NoDedupe(e) ==
  /\ counter < MaxSeq
  /\ events'  = events \cup {Stamped(e, counter + 1)}
  /\ counter' = counter + 1
  /\ tasks'   = [tasks EXCEPT ![e.task] = Apply(@, e)]
  /\ rollup'  = CommitRollup(rollup, tasks[e.task], Apply(tasks[e.task], e), counter + 1)
  /\ locks'   = LocksAfter(e)

\* Mutant: a retried attempt takes a second seq and leaves the first one unused.
AppendFresh_Gap(e) ==
  /\ ~Recorded(e.key)
  /\ counter + 1 < MaxSeq
  /\ events'  = events \cup {Stamped(e, counter + 2)}
  /\ counter' = counter + 2
  /\ tasks'   = [tasks EXCEPT ![e.task] = Apply(@, e)]
  /\ rollup'  = CommitRollup(rollup, tasks[e.task], Apply(tasks[e.task], e), counter + 2)
  /\ locks'   = LocksAfter(e)

AppendFresh(e) ==
  /\ ~Recorded(e.key)
  /\ counter < MaxSeq
  /\ events'  = events \cup {Stamped(e, counter + 1)}
  /\ counter' = counter + 1
  /\ tasks'   = [tasks EXCEPT ![e.task] = Apply(@, e)]
  /\ rollup'  = CommitRollup(rollup, tasks[e.task], Apply(tasks[e.task], e), counter + 1)
  /\ locks'   = LocksAfter(e)

CommitAppend(e) == AppendDuplicate(e) \/ AppendFresh(e)

-----------------------------------------------------------------------------
(* The two halves of an agent's call.                                      *)

\* assertNotRevoked, read outside the transaction.
Begin(a, req) ==
  /\ a \notin revoked
  /\ call[a] = NoRequest
  /\ req.op \in AgentOps
  /\ call' = [call EXCEPT ![a] = req]
  /\ UNCHANGED <<storeVars, revoked>>

\* The call is over, whatever it answers and whether or not the answer arrives.
Return(a) == call' = [call EXCEPT ![a] = NoRequest] /\ UNCHANGED revoked

\* Six contended attempts, or an outage: nothing was written.
FailCall(a) == call[a] # NoRequest /\ Return(a) /\ UNCHANGED storeVars

BeginClaim(a, t)   == Begin(a, [NoRequest EXCEPT !.op = "claim", !.task = t])
BeginRelease(a, t) == Begin(a, [NoRequest EXCEPT !.op = "release", !.task = t])
BeginAcquire(a, t, g) ==
  Begin(a, [NoRequest EXCEPT !.op = "acquire", !.task = t, !.globs = g])
BeginReleaseScope(a) == Begin(a, [NoRequest EXCEPT !.op = "unscope"])
BeginAppend(a, kind, t, g, n) ==
  /\ g # NoScope <=> kind = "scope_locked"
  /\ Begin(a, [NoRequest EXCEPT !.op = "append", !.kind = kind, !.task = t,
                                !.globs = g, !.n = n])

\* Mutant: the claim document is passed on where its agent_id is meant.
BeginHandoff_WholeClaim(a, t) ==
  /\ claims[t] # NoClaim
  /\ claims[t].agent = a \/ a \in Owners
  /\ Begin(a, [NoRequest EXCEPT !.op = "handoff", !.task = t, !.holder = claims[t]])

\* POST /handoff reads the holder, and asks mayHandOff, before the store is called.
BeginHandoff(a, t) ==
  /\ claims[t] # NoClaim
  /\ claims[t].agent = a \/ a \in Owners
  /\ Begin(a, [NoRequest EXCEPT !.op = "handoff", !.task = t, !.holder = claims[t].agent])

-----------------------------------------------------------------------------
(* claimTask.                                                              *)

ClaimHeld(a) ==
  LET t == call[a].task IN
  /\ call[a].op = "claim"
  /\ claims[t] # NoClaim
  /\ Return(a)
  /\ UNCHANGED storeVars

ClaimFree(a) ==
  LET t == call[a].task IN
  /\ call[a].op = "claim"
  /\ claims[t] = NoClaim
  /\ CommitAppend(Body("task_claimed", t, a, Key("claim", t, a, NoScope, counter + 1)))
  /\ claims' = [claims EXCEPT ![t] = [agent |-> a, at |-> counter + 1]]
  /\ Return(a)

(* releaseTask: a task the caller does not hold is a no-op.                *)

ReleaseNotHeld(a) ==
  /\ call[a].op = "release"
  /\ claims[call[a].task].agent # a
  /\ Return(a)
  /\ UNCHANGED storeVars

\* Mutant: the key names no claim, so releasing a re-claimed task is a duplicate.
ReleaseHeld_TimelessKey(a) ==
  LET t == call[a].task IN
  /\ call[a].op = "release"
  /\ claims[t].agent = a
  /\ CommitAppend(Body("task_unblocked", t, NoAgent, Key("release", t, a, NoScope, 0)))
  /\ claims' = [claims EXCEPT ![t] = NoClaim]
  /\ Return(a)

ReleaseHeld(a) ==
  LET t == call[a].task IN
  /\ call[a].op = "release"
  /\ claims[t].agent = a
  /\ CommitAppend(Body("task_unblocked", t, NoAgent,
                       Key("release", t, a, NoScope, claims[t].at)))
  /\ claims' = [claims EXCEPT ![t] = NoClaim]
  /\ Return(a)

(* handoffTask: refused when the holder read at the gate no longer holds.  *)

HandoffRefused(a) ==
  /\ call[a].op = "handoff"
  /\ claims[call[a].task].agent # call[a].holder
  /\ Return(a)
  /\ UNCHANGED storeVars

\* Mutant: the handoff is recorded and the claim document survives it.
HandoffHeld_KeepsClaim(a) ==
  LET t == call[a].task IN
  /\ call[a].op = "handoff"
  /\ claims[t].agent = call[a].holder
  /\ CommitAppend(Body("task_handed_off", t, NoAgent,
                       Key("handoff", t, call[a].holder, NoScope, claims[t].at)))
  /\ UNCHANGED claims
  /\ Return(a)

HandoffHeld(a) ==
  LET t == call[a].task IN
  /\ call[a].op = "handoff"
  /\ claims[t].agent = call[a].holder
  /\ CommitAppend(Body("task_handed_off", t, NoAgent,
                       Key("handoff", t, call[a].holder, NoScope, claims[t].at)))
  /\ claims' = [claims EXCEPT ![t] = NoClaim]
  /\ Return(a)

(* appendEvent on POST /events, under the client's own key.  The lock kinds *)
(* are appendable as well, and their fold edits the lock table.            *)

AgentEvent(a, b) ==
  [Body(call[a].kind, call[a].task, a, Key("client", NoTask, a, NoScope, call[a].n))
   EXCEPT !.blocker = b, !.globs = call[a].globs]

AppendEvent(a) ==
  /\ call[a].op = "append"
  /\ \E b \in BOOLEAN :
       /\ b => call[a].kind = "task_blocked"
       /\ CommitAppend(AgentEvent(a, b))
  /\ UNCHANGED claims
  /\ Return(a)

-----------------------------------------------------------------------------
(* acquireScope.  The transaction reads the whole lock table.              *)

Held == {a \in Agents : locks[a] # NoLock}

\* Mutant: only an identical request conflicts.
Conflicts_SameGlobs(a, g) == {b \in Held \ {a} : locks[b].globs = g}

Conflicts(a, g) == {b \in Held \ {a} : <<locks[b].globs, g>> \in Overlap}

AcquireBusy(a) ==
  /\ call[a].op = "acquire"
  /\ Cardinality(Held) > LockCap
  /\ Return(a)
  /\ UNCHANGED storeVars

AcquireRefused(a) ==
  /\ call[a].op = "acquire"
  /\ Cardinality(Held) =< LockCap
  /\ Conflicts(a, call[a].globs) # {}
  /\ Return(a)
  /\ UNCHANGED storeVars

\* Mutant: the grant does not look at the size of the table.
AcquireGranted_NoCap(a) ==
  LET t == call[a].task
      g == call[a].globs
  IN
  /\ call[a].op = "acquire"
  /\ Conflicts(a, g) = {}
  /\ CommitAppend([Body("scope_locked", t, a, Key("scope", t, a, g, 0))
                   EXCEPT !.globs = g])
  /\ UNCHANGED claims
  /\ Return(a)

AcquireGranted(a) ==
  LET t == call[a].task
      g == call[a].globs
  IN
  /\ call[a].op = "acquire"
  /\ Cardinality(Held) =< LockCap
  /\ Conflicts(a, g) = {}
  /\ CommitAppend([Body("scope_locked", t, a, Key("scope", t, a, g, 0))
                   EXCEPT !.globs = g])
  /\ UNCHANGED claims
  /\ Return(a)

(* releaseScope drops the agent's one lock, whichever task it is for.      *)

ReleaseScopeNone(a) ==
  /\ call[a].op = "unscope"
  /\ locks[a] = NoLock
  /\ Return(a)
  /\ UNCHANGED storeVars

ReleaseScopeHeld(a) ==
  /\ call[a].op = "unscope"
  /\ locks[a] # NoLock
  /\ CommitAppend(Body("scope_released", locks[a].task, a,
                       Key("unscope", locks[a].task, a, NoScope, locks[a].at)))
  /\ UNCHANGED claims
  /\ Return(a)

-----------------------------------------------------------------------------
(* Calls nobody's token gates: the members, the reaper, the webhook.       *)

\* createTask by a member; an existing card makes it a no-op that says so.
CreateTask(t) ==
  /\ "create" \in SystemOps
  /\ tasks[t] = NoCard
  /\ CommitAppend(Body("task_created", t, NoAgent, Key("create", t, NoAgent, NoScope, 0)))
  /\ UNCHANGED <<claims, revoked, call>>

\* Mutant: the key names the holder and not the claim it reaps.
ReapClaim_TimelessKey(t) ==
  /\ "reap" \in SystemOps
  /\ claims[t] # NoClaim
  /\ CommitAppend(Body("task_unblocked", t, NoAgent,
                       Key("reap", t, claims[t].agent, NoScope, 0)))
  /\ claims' = [claims EXCEPT ![t] = NoClaim]
  /\ UNCHANGED <<revoked, call>>

\* reapClaim: the reaper, a lease break, or the first step of cancel_task.
ReapClaim(t) ==
  /\ "reap" \in SystemOps
  /\ claims[t] # NoClaim
  /\ CommitAppend(Body("task_unblocked", t, NoAgent,
                       Key("reap", t, claims[t].agent, NoScope, claims[t].at)))
  /\ claims' = [claims EXCEPT ![t] = NoClaim]
  /\ UNCHANGED <<revoked, call>>

\* handoff_task by a member on the board; handoffTask checks the holder again.
HandoffByMember(t) ==
  /\ "handoff" \in SystemOps
  /\ claims[t] # NoClaim
  /\ CommitAppend(Body("task_handed_off", t, NoAgent,
                       Key("handoff", t, claims[t].agent, NoScope, claims[t].at)))
  /\ claims' = [claims EXCEPT ![t] = NoClaim]
  /\ UNCHANGED <<revoked, call>>

\* releaseScope on behalf of the holder, after a merge or before a cancellation.
\* The lock was looked up by task; by now the agent may hold it for another one.
ReleaseScopeFor(a) ==
  /\ "unlock" \in SystemOps
  /\ a \notin revoked
  /\ locks[a] # NoLock
  /\ CommitAppend(Body("scope_released", locks[a].task, a,
                       Key("unscope", locks[a].task, a, NoScope, locks[a].at)))
  /\ UNCHANGED <<claims, revoked, call>>

\* The last step of cancel_task, which found the card on the board.
CancelTask(t) ==
  /\ "cancel" \in SystemOps
  /\ tasks[t] # NoCard
  /\ CommitAppend(Body("task_cancelled", t, NoAgent, Key("cancel", t, NoAgent, NoScope, 0)))
  /\ UNCHANGED <<claims, revoked, call>>

\* The delivery ids on the ledger, numbered in the order they were first recorded.
Delivered == {e \in events : e.key.op = "gh"}

\* One webhook delivery, keyed by its delivery id: a new one, or a redelivery.
Webhook(kind, t, n) ==
  /\ n =< Cardinality(Delivered) + 1
  /\ CommitAppend(Body(kind, t, NoAgent, Key("gh", NoTask, NoAgent, NoScope, n)))
  /\ UNCHANGED <<claims, revoked, call>>

SetRevoked(a, on) ==
  /\ revoked' = IF on THEN revoked \cup {a} ELSE revoked \ {a}
  /\ UNCHANGED <<storeVars, call>>

-----------------------------------------------------------------------------
Gate(a) ==
  \/ \E t \in Tasks : BeginClaim(a, t) \/ BeginRelease(a, t) \/ BeginHandoff(a, t)
  \/ \E t \in Tasks, g \in Scopes : BeginAcquire(a, t, g)
  \/ BeginReleaseScope(a)
  \/ \E kind \in AgentKinds, t \in Tasks, g \in Scopes \cup {NoScope}, n \in 1 .. MaxKeys :
       BeginAppend(a, kind, t, g, n)

Transact(a) ==
  \/ ClaimHeld(a) \/ ClaimFree(a)
  \/ ReleaseNotHeld(a) \/ ReleaseHeld(a)
  \/ HandoffRefused(a) \/ HandoffHeld(a)
  \/ AppendEvent(a)
  \/ AcquireBusy(a) \/ AcquireRefused(a) \/ AcquireGranted(a)
  \/ ReleaseScopeNone(a) \/ ReleaseScopeHeld(a)

System ==
  \/ \E t \in Tasks : CreateTask(t) \/ ReapClaim(t) \/ HandoffByMember(t) \/ CancelTask(t)
  \/ \E a \in Agents : ReleaseScopeFor(a)
  \/ \E kind \in GithubKinds, t \in Tasks, n \in 1 .. MaxDeliveries : Webhook(kind, t, n)
  \/ \E a \in Revocable, on \in BOOLEAN : SetRevoked(a, on)

Next ==
  \/ \E a \in Agents : Gate(a) \/ Transact(a) \/ FailCall(a)
  \/ System

Spec == Init /\ [][Next]_vars
=============================================================================
