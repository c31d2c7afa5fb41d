----------------------------- MODULE StoreProofs -----------------------------
(***************************************************************************)
(* Proofs about the Firestore store, for every project, every number of    *)
(* agents and tasks, and every bound.                                      *)
(***************************************************************************)
EXTENDS StoreProperties, Sequences, FiniteSetTheorems, TLAPS

-----------------------------------------------------------------------------
(* Typing of the operators the actions are built from.                     *)

LEMMA MoveTyped ==
  ASSUME NEW card \in Card, NEW patched \in Card, NEW to \in Columns
  PROVE  Move(card, to, patched) \in Card
BY DEF Move, Card

LEMMA ApplyTyped ==
  ASSUME NEW card \in Card, NEW e \in EventInput
  PROVE  Apply(card, e) \in Card
<1>1. NewCard \in Card
  BY DEF NewCard, NoCard, Card, Columns
<1>2. ApplyToCard(card, e) \in Card
  <2> e.agent \in Agents \cup {NoAgent} /\ e.blocker \in BOOLEAN
    BY DEF EventInput
  <2>1. CASE e.kind = "task_claimed"
    BY <2>1, MoveTyped DEF ApplyToCard, Card, Columns
  <2>2. CASE e.kind = "task_blocked"
    BY <2>2, MoveTyped DEF ApplyToCard, Card, Columns
  <2>3. CASE e.kind = "task_unblocked"
    <3>1. [card EXCEPT !.claimed_by = NoAgent, !.blocker = FALSE] \in Card
      BY DEF Card
    <3>2. "open" \in Columns
      BY DEF Columns
    <3>3. ApplyToCard(card, e)
            = Move(card, "open", [card EXCEPT !.claimed_by = NoAgent, !.blocker = FALSE])
      BY <2>3 DEF ApplyToCard
    <3> QED  BY <3>1, <3>2, <3>3, MoveTyped
  <2>4. CASE e.kind = "task_completed"
    BY <2>4, MoveTyped DEF ApplyToCard, Card, Columns
  <2>5. CASE e.kind = "task_cancelled"
    BY <2>5, MoveTyped DEF ApplyToCard, Card, Columns
  <2>6. CASE e.kind = "task_handed_off"
    BY <2>6 DEF ApplyToCard, StatusAfterHandoff, Card, Columns
  <2>7. CASE e.kind \in {"branch_pushed", "pr_opened", "merged"}
    BY <2>7, MoveTyped DEF ApplyToCard, Columns
  <2>8. CASE e.kind \in {"ci_passed", "ci_failed"}
    BY <2>8 DEF ApplyToCard, Card
  <2>9. CASE e.kind \notin {"task_claimed", "task_blocked", "task_unblocked",
                            "task_completed", "task_cancelled", "task_handed_off",
                            "branch_pushed", "pr_opened", "merged", "ci_passed", "ci_failed"}
    BY <2>9 DEF ApplyToCard
  <2> QED  BY <2>1, <2>2, <2>3, <2>4, <2>5, <2>6, <2>7, <2>8, <2>9
<1> QED  BY <1>1, <1>2 DEF Apply

LEMMA CommitRollupTyped ==
  ASSUME NEW r \in Rollup, NEW before, NEW after, NEW n \in Nat
  PROVE  CommitRollup(r, before, after, n) \in Rollup
BY DEF CommitRollup, Rollup, Bit

LEMMA KeyTyped ==
  ASSUME NEW op \in KeyOps, NEW t \in Tasks \cup {NoTask}, NEW a \in Agents \cup {NoAgent},
         NEW g \in Scopes \cup {NoScope}, NEW n \in Nat
  PROVE  Key(op, t, a, g, n) \in IdempotencyKey
BY DEF Key, IdempotencyKey

\* The events the transactions append are well formed.
LEMMA BodyTyped ==
  ASSUME NEW kind \in Kinds \ {"scope_locked"}, NEW t \in Tasks,
         NEW a \in Agents \cup {NoAgent}, NEW key \in IdempotencyKey,
         kind \in {"scope_released", "task_claimed"} => a \in Agents
  PROVE  Body(kind, t, a, key) \in EventInput
BY DEF Body, EventInput, Names, LockKinds

LEMMA LockBodyTyped ==
  ASSUME NEW t \in Tasks, NEW a \in Agents, NEW g \in Scopes, NEW key \in IdempotencyKey
  PROVE  [Body("scope_locked", t, a, key) EXCEPT !.globs = g] \in EventInput
BY DEF Body, EventInput, Names, Kinds, LockKinds

LEMMA StampedTyped ==
  ASSUME NEW e \in EventInput, NEW n \in Nat
  PROVE  /\ Stamped(e, n) \in Event
         /\ Stamped(e, n).seq = n
         /\ Stamped(e, n).key = e.key
         /\ Stamped(e, n).kind = e.kind
         /\ Stamped(e, n).task = e.task
         /\ Stamped(e, n).agent = e.agent
         /\ Stamped(e, n).globs = e.globs
BY DEF Stamped, EventInput, Event, Names

LEMMA AppendTyped ==
  ASSUME TypeOK, NEW e \in EventInput, AppendFresh(e)
  PROVE  /\ events' \subseteq Event
         /\ counter' \in Nat
         /\ tasks' \in [Tasks -> Card]
         /\ locks' \in [Agents -> ScopeLock]
         /\ rollup' \in Rollup
<1>1. counter \in Nat /\ counter + 1 \in Nat /\ counter' = counter + 1
  BY DEF AppendFresh, TypeOK
<1>2. events' \subseteq Event
  BY <1>1, StampedTyped DEF AppendFresh, TypeOK
<1>3. e.task \in Tasks /\ tasks[e.task] \in Card
  BY DEF EventInput, TypeOK
<1>4. tasks' \in [Tasks -> Card]
  BY <1>3, ApplyTyped DEF AppendFresh, TypeOK
<1>5. rollup' \in Rollup
  BY <1>1, CommitRollupTyped DEF AppendFresh, TypeOK
<1>6. locks' \in [Agents -> ScopeLock]
  <2>1. NoLock \in ScopeLock
    BY DEF ScopeLock
  <2>2. e.kind = "scope_locked" =>
          [task |-> e.task, globs |-> e.globs, at |-> counter + 1] \in ScopeLock
    BY <1>1, <1>3 DEF ScopeLock, EventInput, Names
  <2>3. e.kind = "scope_locked" \/ e.kind = "scope_released"
          \/ (e.kind # "scope_locked" /\ e.kind # "scope_released")
    OBVIOUS
  <2> QED  BY <2>1, <2>2, <2>3 DEF AppendFresh, LocksAfter, TypeOK
<1> QED  BY <1>1, <1>2, <1>4, <1>5, <1>6

-----------------------------------------------------------------------------
(* The shape of a step, for the invariants about the ledger and what is    *)
(* folded from it.                                                         *)

\* Every Begin records a well formed request and touches nothing else.
LEMMA BeginTyped ==
  ASSUME TypeOK, NEW a \in Agents, NEW req \in Request, Begin(a, req)
  PROVE  call' \in [Agents -> Request] /\ UNCHANGED <<storeVars, revoked>>
BY DEF Begin, TypeOK

LEMMA GateTyped ==
  ASSUME TypeOK, NEW a \in Agents, Gate(a)
  PROVE  call' \in [Agents -> Request] /\ UNCHANGED <<storeVars, revoked>>
<1>1. ASSUME NEW t \in Tasks, BeginClaim(a, t)
      PROVE  call' \in [Agents -> Request] /\ UNCHANGED <<storeVars, revoked>>
  <2>1. [NoRequest EXCEPT !.op = "claim", !.task = t] \in Request
    BY DEF Request, NoRequest, Ops
  <2> QED  BY <1>1, <2>1, BeginTyped DEF BeginClaim
<1>2. ASSUME NEW t \in Tasks, BeginRelease(a, t)
      PROVE  call' \in [Agents -> Request] /\ UNCHANGED <<storeVars, revoked>>
  <2>1. [NoRequest EXCEPT !.op = "release", !.task = t] \in Request
    BY DEF Request, NoRequest, Ops
  <2> QED  BY <1>2, <2>1, BeginTyped DEF BeginRelease
<1>3. ASSUME NEW t \in Tasks, BeginHandoff(a, t)
      PROVE  call' \in [Agents -> Request] /\ UNCHANGED <<storeVars, revoked>>
  <2>1. claims[t].agent \in Agents
    BY <1>3 DEF BeginHandoff, TypeOK, Claim
  <2>2. [NoRequest EXCEPT !.op = "handoff", !.task = t, !.holder = claims[t].agent] \in Request
    BY <2>1 DEF Request, NoRequest, Ops
  <2> QED  BY <1>3, <2>2, BeginTyped DEF BeginHandoff
<1>4. ASSUME NEW t \in Tasks, NEW g \in Scopes, BeginAcquire(a, t, g)
      PROVE  call' \in [Agents -> Request] /\ UNCHANGED <<storeVars, revoked>>
  <2>1. [NoRequest EXCEPT !.op = "acquire", !.task = t, !.globs = g] \in Request
    BY DEF Request, NoRequest, Ops
  <2> QED  BY <1>4, <2>1, BeginTyped DEF BeginAcquire
<1>5. ASSUME BeginReleaseScope(a)
      PROVE  call' \in [Agents -> Request] /\ UNCHANGED <<storeVars, revoked>>
  <2>1. [NoRequest EXCEPT !.op = "unscope"] \in Request
    BY DEF Request, NoRequest, Ops
  <2> QED  BY <1>5, <2>1, BeginTyped DEF BeginReleaseScope
<1>6. ASSUME NEW kind \in AgentKinds, NEW t \in Tasks, NEW g \in Scopes \cup {NoScope},
             NEW n \in 1 .. MaxKeys, BeginAppend(a, kind, t, g, n)
      PROVE  call' \in [Agents -> Request] /\ UNCHANGED <<storeVars, revoked>>
  <2>1. kind \in Kinds /\ n \in Nat /\ (kind = "scope_locked" => g \in Scopes)
    BY <1>6, StoreAssumption DEF Kinds, BoardKinds, LockKinds, HumanKinds, BeginAppend
  <2>2. [NoRequest EXCEPT !.op = "append", !.kind = kind, !.task = t, !.globs = g, !.n = n]
          \in Request
    BY <2>1 DEF Request, NoRequest, Ops
  <2> QED  BY <1>6, <2>2, BeginTyped DEF BeginAppend
<1> QED  BY <1>1, <1>2, <1>3, <1>4, <1>5, <1>6 DEF Gate

\* What each transaction appends.
LEMMA CallTyped ==
  ASSUME TypeOK, NEW a \in Agents
  PROVE  /\ call[a] \in Request
         /\ call[a].op \in {"claim", "release", "handoff", "append", "acquire"}
              => call[a].task \in Tasks
         /\ call[a].op = "handoff" => call[a].holder \in Agents
         /\ call[a].op = "append" =>
              /\ call[a].kind \in AgentKinds
              /\ call[a].kind = "scope_locked" => call[a].globs \in Scopes
         /\ call[a].op = "acquire" => call[a].globs \in Scopes
         /\ call[a].globs \in Scopes \cup {NoScope}
         /\ call[a].n \in Nat
BY DEF TypeOK, Request

LEMMA ClaimFreeAppends ==
  ASSUME TypeOK, NEW a \in Agents, ClaimFree(a)
  PROVE  Body("task_claimed", call[a].task, a,
              Key("claim", call[a].task, a, NoScope, counter + 1)) \in EventInput
<1>1. call[a].task \in Tasks /\ counter + 1 \in Nat
  BY CallTyped DEF ClaimFree, TypeOK
<1>2. Key("claim", call[a].task, a, NoScope, counter + 1) \in IdempotencyKey
  BY <1>1, KeyTyped DEF KeyOps
<1> QED  BY <1>1, <1>2, BodyTyped DEF Kinds, BoardKinds

LEMMA ReleaseHeldAppends ==
  ASSUME TypeOK, NEW a \in Agents, ReleaseHeld(a)
  PROVE  Body("task_unblocked", call[a].task, NoAgent,
              Key("release", call[a].task, a, NoScope, claims[call[a].task].at)) \in EventInput
<1>1. call[a].task \in Tasks /\ claims[call[a].task].at \in Nat
  BY CallTyped DEF ReleaseHeld, TypeOK, Claim, NoClaim
<1>2. Key("release", call[a].task, a, NoScope, claims[call[a].task].at) \in IdempotencyKey
  BY <1>1, KeyTyped DEF KeyOps
<1> QED  BY <1>1, <1>2, BodyTyped DEF Kinds, BoardKinds

LEMMA HandoffHeldAppends ==
  ASSUME TypeOK, NEW a \in Agents, HandoffHeld(a)
  PROVE  Body("task_handed_off", call[a].task, NoAgent,
              Key("handoff", call[a].task, call[a].holder, NoScope, claims[call[a].task].at))
           \in EventInput
<1>1. call[a].task \in Tasks /\ call[a].holder \in Agents /\ claims[call[a].task].at \in Nat
  BY CallTyped DEF HandoffHeld, TypeOK, Claim, NoClaim
<1>2. Key("handoff", call[a].task, call[a].holder, NoScope, claims[call[a].task].at)
        \in IdempotencyKey
  BY <1>1, KeyTyped DEF KeyOps
<1> QED  BY <1>1, <1>2, BodyTyped DEF Kinds, BoardKinds

LEMMA AppendEventAppends ==
  ASSUME TypeOK, NEW a \in Agents, AppendEvent(a), NEW b \in BOOLEAN
  PROVE  AgentEvent(a, b) \in EventInput
<1>1. /\ call[a].task \in Tasks /\ call[a].kind \in AgentKinds /\ call[a].n \in Nat
      /\ call[a].globs \in Scopes \cup {NoScope}
      /\ call[a].kind = "scope_locked" => call[a].globs \in Scopes
  BY CallTyped DEF AppendEvent
<1>2. call[a].kind \in Kinds
  BY <1>1, StoreAssumption DEF Kinds, BoardKinds, LockKinds, HumanKinds
<1>3. Key("client", NoTask, a, NoScope, call[a].n) \in IdempotencyKey
  BY <1>1, KeyTyped DEF KeyOps
<1> QED  BY <1>1, <1>2, <1>3 DEF AgentEvent, Body, EventInput, Names

LEMMA AcquireGrantedAppends ==
  ASSUME TypeOK, NEW a \in Agents, AcquireGranted(a)
  PROVE  [Body("scope_locked", call[a].task, a,
               Key("scope", call[a].task, a, call[a].globs, 0))
          EXCEPT !.globs = call[a].globs] \in EventInput
<1>1. call[a].task \in Tasks /\ call[a].globs \in Scopes
  BY CallTyped DEF AcquireGranted
<1>2. Key("scope", call[a].task, a, call[a].globs, 0) \in IdempotencyKey
  BY <1>1, KeyTyped DEF KeyOps
<1> QED  BY <1>1, <1>2, LockBodyTyped

LEMMA ScopeReleaseAppends ==
  ASSUME TypeOK, NEW a \in Agents, locks[a] # NoLock
  PROVE  Body("scope_released", locks[a].task, a,
              Key("unscope", locks[a].task, a, NoScope, locks[a].at)) \in EventInput
<1>1. locks[a].task \in Tasks /\ locks[a].at \in Nat
  BY DEF TypeOK, ScopeLock
<1>2. Key("unscope", locks[a].task, a, NoScope, locks[a].at) \in IdempotencyKey
  BY <1>1, KeyTyped DEF KeyOps
<1> QED  BY <1>1, <1>2, BodyTyped DEF Kinds, LockKinds

LEMMA SystemAppends ==
  ASSUME TypeOK, NEW t \in Tasks
  PROVE  /\ Body("task_created", t, NoAgent, Key("create", t, NoAgent, NoScope, 0)) \in EventInput
         /\ Body("task_cancelled", t, NoAgent, Key("cancel", t, NoAgent, NoScope, 0))
              \in EventInput
         /\ Body("task_unblocked", t, NoAgent,
                 Key("reap", t, claims[t].agent, NoScope, claims[t].at)) \in EventInput
         /\ Body("task_handed_off", t, NoAgent,
                 Key("handoff", t, claims[t].agent, NoScope, claims[t].at)) \in EventInput
         /\ \A kind \in GithubKinds, n \in 1 .. MaxDeliveries :
              Body(kind, t, NoAgent, Key("gh", NoTask, NoAgent, NoScope, n)) \in EventInput
<1>1. claims[t].agent \in Agents \cup {NoAgent} /\ claims[t].at \in Nat
  BY DEF TypeOK, Claim, NoClaim
<1>2. /\ Key("create", t, NoAgent, NoScope, 0) \in IdempotencyKey
      /\ Key("cancel", t, NoAgent, NoScope, 0) \in IdempotencyKey
      /\ Key("reap", t, claims[t].agent, NoScope, claims[t].at) \in IdempotencyKey
      /\ Key("handoff", t, claims[t].agent, NoScope, claims[t].at) \in IdempotencyKey
  BY <1>1, KeyTyped DEF KeyOps
<1>3. ASSUME NEW n \in 1 .. MaxDeliveries
      PROVE  Key("gh", NoTask, NoAgent, NoScope, n) \in IdempotencyKey
  BY KeyTyped DEF KeyOps
<1>4. \A kind \in GithubKinds : kind \in Kinds \ {"scope_locked"}
                                /\ kind \notin {"scope_released", "task_claimed"}
  BY StoreAssumption DEF Kinds, BoardKinds
<1>5. {"task_created", "task_cancelled", "task_unblocked", "task_handed_off"} \subseteq Kinds \ {"scope_locked"}
  BY DEF Kinds, BoardKinds
<1>6. Body("task_created", t, NoAgent, Key("create", t, NoAgent, NoScope, 0)) \in EventInput
  BY <1>2, <1>5, BodyTyped
<1>7. Body("task_cancelled", t, NoAgent, Key("cancel", t, NoAgent, NoScope, 0)) \in EventInput
  BY <1>2, <1>5, BodyTyped
<1>8. Body("task_unblocked", t, NoAgent, Key("reap", t, claims[t].agent, NoScope, claims[t].at))
        \in EventInput
  BY <1>2, <1>5, BodyTyped
<1>9. \A kind \in GithubKinds, n \in 1 .. MaxDeliveries :
        Body(kind, t, NoAgent, Key("gh", NoTask, NoAgent, NoScope, n)) \in EventInput
  BY <1>3, <1>4, BodyTyped
<1>10. Body("task_handed_off", t, NoAgent, Key("handoff", t, claims[t].agent, NoScope, claims[t].at))
         \in EventInput
  BY <1>2, <1>5, BodyTyped
<1> QED  BY <1>6, <1>7, <1>8, <1>9, <1>10

\* A step appends one well formed event, or leaves the ledger and its folds alone.
LEMMA LedgerStep ==
  ASSUME TypeOK, Next
  PROVE  UNCHANGED ledgerVars \/ \E e \in EventInput : AppendFresh(e)
<1> DEFINE Goal == UNCHANGED ledgerVars \/ \E e \in EventInput : AppendFresh(e)
<1>0. ASSUME NEW e \in EventInput, CommitAppend(e)
      PROVE  Goal
  BY <1>0 DEF CommitAppend, AppendDuplicate
<1>1. ASSUME NEW a \in Agents, Gate(a)
      PROVE  Goal
  BY <1>1, GateTyped DEF storeVars, ledgerVars
<1>2. ASSUME NEW a \in Agents, Transact(a)
      PROVE  Goal
  <2>1. CASE ClaimHeld(a) \/ ReleaseNotHeld(a) \/ HandoffRefused(a) \/ AcquireBusy(a)
             \/ AcquireRefused(a) \/ ReleaseScopeNone(a)
    BY <2>1 DEF ClaimHeld, ReleaseNotHeld, HandoffRefused, AcquireBusy, AcquireRefused,
                ReleaseScopeNone, storeVars, ledgerVars
  <2>2. CASE ClaimFree(a)
    BY <2>2, <1>0, ClaimFreeAppends DEF ClaimFree
  <2>3. CASE ReleaseHeld(a)
    BY <2>3, <1>0, ReleaseHeldAppends DEF ReleaseHeld
  <2>4. CASE HandoffHeld(a)
    BY <2>4, <1>0, HandoffHeldAppends DEF HandoffHeld
  <2>5. CASE AppendEvent(a)
    BY <2>5, <1>0, AppendEventAppends DEF AppendEvent
  <2>6. CASE AcquireGranted(a)
    BY <2>6, <1>0, AcquireGrantedAppends DEF AcquireGranted
  <2>7. CASE ReleaseScopeHeld(a)
    BY <2>7, <1>0, ScopeReleaseAppends DEF ReleaseScopeHeld
  <2> QED  BY <1>2, <2>1, <2>2, <2>3, <2>4, <2>5, <2>6, <2>7 DEF Transact
<1>3. ASSUME NEW a \in Agents, FailCall(a)
      PROVE  Goal
  BY <1>3 DEF FailCall, storeVars, ledgerVars
<1>4. ASSUME NEW t \in Tasks,
             CreateTask(t) \/ ReapClaim(t) \/ HandoffByMember(t) \/ CancelTask(t)
      PROVE  Goal
  BY <1>4, <1>0, SystemAppends DEF CreateTask, ReapClaim, HandoffByMember, CancelTask
<1>5. ASSUME NEW kind \in GithubKinds, NEW t \in Tasks, NEW n \in 1 .. MaxDeliveries,
             Webhook(kind, t, n)
      PROVE  Goal
  BY <1>5, <1>0, SystemAppends DEF Webhook
<1>6. ASSUME NEW a \in Revocable, NEW on \in BOOLEAN, SetRevoked(a, on)
      PROVE  Goal
  BY <1>6 DEF SetRevoked, storeVars, ledgerVars
<1>7. ASSUME NEW a \in Agents, ReleaseScopeFor(a)
      PROVE  Goal
  BY <1>7, <1>0, ScopeReleaseAppends DEF ReleaseScopeFor
<1> HIDE DEF Goal
<1>8. Goal
  BY <1>1, <1>2, <1>3, <1>4, <1>5, <1>6, <1>7 DEF Next, System
<1> QED  BY <1>8 DEF Goal

\* Outside the ledger a step changes the claims, the revocations and the calls.
LEMMA OthersTyped ==
  ASSUME TypeOK, Next
  PROVE  claims' \in [Tasks -> Claim] /\ revoked' \subseteq Agents /\ call' \in [Agents -> Request]
<1> DEFINE Goal == claims' \in [Tasks -> Claim] /\ revoked' \subseteq Agents
                   /\ call' \in [Agents -> Request]
<1>0. NoRequest \in Request /\ NoClaim \in Claim
  BY DEF Request, NoRequest, Claim
<1>1. ASSUME NEW a \in Agents, Gate(a)
      PROVE  Goal
  BY <1>1, GateTyped DEF storeVars, TypeOK
<1>2. ASSUME NEW a \in Agents, Return(a), UNCHANGED claims
      PROVE  Goal
  BY <1>0, <1>2 DEF Return, TypeOK
<1>3. ASSUME NEW a \in Agents, Return(a), NEW t \in Tasks, claims' = [claims EXCEPT ![t] = NoClaim]
      PROVE  Goal
  BY <1>0, <1>3 DEF Return, TypeOK
<1>4. ASSUME NEW a \in Agents, ClaimFree(a)
      PROVE  Goal
  <2>1. [agent |-> a, at |-> counter + 1] \in Claim
    BY DEF Claim, TypeOK
  <2> QED  BY <1>0, <1>4, <2>1 DEF ClaimFree, Return, TypeOK
<1>5. ASSUME NEW a \in Agents, Transact(a)
      PROVE  Goal
  <2>1. CASE ClaimHeld(a) \/ ReleaseNotHeld(a) \/ HandoffRefused(a) \/ AcquireBusy(a)
             \/ AcquireRefused(a) \/ ReleaseScopeNone(a)
    BY <2>1, <1>2 DEF ClaimHeld, ReleaseNotHeld, HandoffRefused, AcquireBusy, AcquireRefused,
                      ReleaseScopeNone, storeVars
  <2>2. CASE AppendEvent(a) \/ AcquireGranted(a) \/ ReleaseScopeHeld(a)
    BY <2>2, <1>2 DEF AppendEvent, AcquireGranted, ReleaseScopeHeld
  <2>3. CASE ReleaseHeld(a)
    <3>1. call[a].task \in Tasks
      BY <2>3, CallTyped DEF ReleaseHeld
    <3> QED  BY <2>3, <3>1, <1>3 DEF ReleaseHeld
  <2>4. CASE HandoffHeld(a)
    <3>1. call[a].task \in Tasks
      BY <2>4, CallTyped DEF HandoffHeld
    <3> QED  BY <2>4, <3>1, <1>3 DEF HandoffHeld
  <2> QED  BY <1>4, <1>5, <2>1, <2>2, <2>3, <2>4 DEF Transact
<1>6. ASSUME NEW a \in Agents, FailCall(a)
      PROVE  Goal
  BY <1>2, <1>6 DEF FailCall, storeVars
<1>7. CASE System
  <2>1. ASSUME NEW t \in Tasks, CreateTask(t) \/ CancelTask(t)
        PROVE  Goal
    BY <2>1 DEF CreateTask, CancelTask, TypeOK
  <2>2. ASSUME NEW t \in Tasks, ReapClaim(t) \/ HandoffByMember(t)
        PROVE  Goal
    BY <1>0, <2>2 DEF ReapClaim, HandoffByMember, TypeOK
  <2>3. ASSUME NEW kind \in GithubKinds, NEW t \in Tasks, NEW n \in 1 .. MaxDeliveries,
               Webhook(kind, t, n)
        PROVE  Goal
    BY <2>3 DEF Webhook, TypeOK
  <2>4. ASSUME NEW a \in Revocable, NEW on \in BOOLEAN, SetRevoked(a, on)
        PROVE  Goal
    BY <2>4, StoreAssumption DEF SetRevoked, storeVars, TypeOK
  <2>5. ASSUME NEW a \in Agents, ReleaseScopeFor(a)
        PROVE  Goal
    BY <2>5 DEF ReleaseScopeFor, TypeOK
  <2> QED  BY <1>7, <2>1, <2>2, <2>3, <2>4, <2>5 DEF System
<1> QED  BY <1>1, <1>5, <1>6, <1>7 DEF Next

-----------------------------------------------------------------------------
(* Type correctness: every document keeps its type whatever the callers    *)
(* do, in particular every claim and lock names a real agent and every     *)
(* call in flight carries the arguments its transaction reads.             *)
THEOREM TypeCorrect == Spec => []TypeOK
<1>1. Init => TypeOK
  BY DEF Init, TypeOK, NoCard, Card, Claim, ScopeLock, Rollup, EmptyRollup, Request, NoRequest
<1>2. TypeOK /\ [Next]_vars => TypeOK'
  <2> SUFFICES ASSUME TypeOK, [Next]_vars PROVE TypeOK'
    OBVIOUS
  <2>1. CASE UNCHANGED vars
    BY <2>1 DEF vars, TypeOK
  <2>2. CASE Next
    <3>1. CASE UNCHANGED ledgerVars
      BY <2>2, <3>1, OthersTyped DEF ledgerVars, TypeOK
    <3>2. CASE \E e \in EventInput : AppendFresh(e)
      BY <2>2, <3>2, OthersTyped, AppendTyped DEF TypeOK
    <3> QED  BY <2>2, <3>1, <3>2, LedgerStep
  <2> QED  BY <2>1, <2>2
<1> QED  BY <1>1, <1>2, PTL DEF Spec

-----------------------------------------------------------------------------
(* The ledger.                                                             *)

LEMMA LedgerIntactStep ==
  ASSUME TypeOK, LedgerIntact, [Next]_vars
  PROVE  LedgerIntact'
<1>1. CASE UNCHANGED ledgerVars
  BY <1>1 DEF ledgerVars, LedgerIntact, SeqInRange, SeqDense, SeqUnique, KeyUnique
<1>2. ASSUME NEW e \in EventInput, AppendFresh(e)
      PROVE  LedgerIntact'
  <2> DEFINE new == Stamped(e, counter + 1)
  <2>1. counter \in Nat /\ counter' = counter + 1 /\ events' = events \cup {new}
    BY <1>2 DEF AppendFresh, TypeOK
  <2>2. new.seq = counter + 1 /\ new.key = e.key
    BY <2>1, StampedTyped
  <2>3. \A d \in events : d.seq \in 1 .. counter /\ d.key # new.key
    BY <1>2, <2>2 DEF AppendFresh, Recorded, LedgerIntact, SeqInRange
  <2> HIDE DEF new
  <2>4. SeqInRange'
    BY <2>1, <2>2, <2>3 DEF SeqInRange
  <2>5. SeqDense'
    <3> SUFFICES ASSUME NEW n \in 1 .. counter' PROVE \E d \in events' : d.seq = n
      BY DEF SeqDense
    <3>1. CASE n = counter + 1
      BY <2>1, <2>2, <3>1
    <3>2. CASE n \in 1 .. counter
      BY <2>1, <3>2 DEF LedgerIntact, SeqDense
    <3> QED  BY <2>1, <3>1, <3>2
  <2>6. SeqUnique'
    BY <2>1, <2>2, <2>3 DEF SeqUnique, LedgerIntact
  <2>7. KeyUnique'
    BY <2>1, <2>2, <2>3 DEF KeyUnique, LedgerIntact
  <2> QED  BY <2>4, <2>5, <2>6, <2>7 DEF LedgerIntact
<1>3. CASE UNCHANGED vars
  BY <1>1, <1>3 DEF vars, ledgerVars
<1> QED  BY <1>1, <1>2, <1>3, LedgerStep

(* The ledger stays intact: concurrent and repeated appends leave each seq *)
(* up to the counter, and each idempotency key, on exactly one event.      *)
THEOREM LedgerCorrect == Spec => []LedgerIntact
<1>1. Init => LedgerIntact
  BY DEF Init, LedgerIntact, SeqInRange, SeqDense, SeqUnique, KeyUnique
<1>2. TypeOK /\ LedgerIntact /\ [Next]_vars => LedgerIntact'
  BY LedgerIntactStep
<1> QED  BY <1>1, <1>2, TypeCorrect, PTL DEF Spec

\* The documents read as a sequence.
LogReadsEvents ==
  /\ Log \in Seq(Event)
  /\ Len(Log) = counter
  /\ \A n \in 1 .. counter : Log[n] \in events /\ Log[n].seq = n
  /\ \A e \in events : Log[e.seq] = e

LEMMA LogOfEvents == TypeOK /\ LedgerIntact => LogReadsEvents
<1> SUFFICES ASSUME TypeOK, LedgerIntact PROVE LogReadsEvents
  OBVIOUS
<1>1. \A n \in 1 .. counter : \E e \in events : e.seq = n
  BY DEF LedgerIntact, SeqDense
<1>2. \A n \in 1 .. counter : Log[n] \in events /\ Log[n].seq = n
  BY <1>1 DEF Log
<1>3. Log \in [1 .. counter -> Event]
  BY <1>1 DEF Log, TypeOK
<1>4. counter \in Nat
  BY DEF TypeOK
<1>5. Log \in Seq(Event) /\ Len(Log) = counter
  BY <1>3, <1>4
<1>6. \A e \in events : Log[e.seq] = e
  BY <1>2 DEF LedgerIntact, SeqInRange, SeqUnique
<1> QED  BY <1>2, <1>5, <1>6 DEF LogReadsEvents

(* Refinement: what readers see is the abstract ledger, one event at a     *)
(* time at the end, nothing changed, no key twice.                         *)
THEOREM StoreImplementsLedger == Spec => LedgerSpec
<1>1. Init => L!Init
  BY DEF Init, L!Init, Log
<1>2. TypeOK /\ LedgerIntact /\ TypeOK' /\ LedgerIntact' /\ [Next]_vars => [L!Next]_Log
  <2> SUFFICES ASSUME TypeOK, LedgerIntact, TypeOK', LedgerIntact', [Next]_vars
               PROVE  [L!Next]_Log
    OBVIOUS
  <2>1. CASE UNCHANGED ledgerVars
    BY <2>1 DEF ledgerVars, Log
  <2>2. ASSUME NEW e \in EventInput, AppendFresh(e)
        PROVE  L!Next
    <3> DEFINE new == Stamped(e, counter + 1)
    <3>1. counter \in Nat /\ counter' = counter + 1 /\ events' = events \cup {new}
      BY <2>2 DEF AppendFresh, TypeOK
    <3>2. new.seq = counter + 1 /\ new.key = e.key
      BY <3>1, StampedTyped
    <3>3. Len(Log) = counter /\ \A n \in 1 .. counter : Log[n] \in events /\ Log[n].seq = n
      BY LogOfEvents DEF LogReadsEvents
    <3>4. LogReadsEvents'
      BY LogOfEvents, PTL
    <3>5. Len(Log') = counter' /\ \A d \in events' : Log'[d.seq] = d
      BY <3>4 DEF LogReadsEvents
    <3> HIDE DEF new
    <3>6. Len(Log') = Len(Log) + 1
      BY <3>1, <3>3, <3>5
    <3>7. \A i \in 1 .. Len(Log) : Log'[i] = Log[i]
      BY <3>1, <3>3, <3>5
    <3>8. Log'[Len(Log')] = new
      BY <3>1, <3>2, <3>5
    <3>9. ~L!Recorded(new.key)
      BY <2>2, <3>2, <3>3 DEF AppendFresh, Recorded, L!Recorded
    <3> QED  BY <3>6, <3>7, <3>8, <3>9 DEF L!Next
  <2>3. CASE UNCHANGED vars
    BY <2>1, <2>3 DEF vars, ledgerVars
  <2> QED  BY <2>1, <2>2, <2>3, LedgerStep
<1> QED  BY <1>1, <1>2, TypeCorrect, LedgerCorrect, PTL DEF Spec, LedgerSpec, L!Spec

-----------------------------------------------------------------------------
(* What the store folds from the ledger: the columns of the board, first.  *)

\* The two shipped columns and the moves out of them.
LEMMA ShippedMoves ==
  ASSUME NEW to \in Columns
  PROVE  /\ CanMove("merged", to) => to \in {"merged", "done"}
         /\ CanMove("done", to) => to = "done"
BY DEF CanMove, Transitions

LEMMA MoveKeepsShipped ==
  ASSUME NEW card \in Card, card.status \in {"merged", "done"},
         NEW patched \in Card, NEW to \in Columns
  PROVE  \/ Move(card, to, patched).status = card.status
         \/ card.status = "merged" /\ Move(card, to, patched).status = "done"
<1>1. CASE CanMove(card.status, to)
  <2>1. Move(card, to, patched).status = to
    BY <1>1 DEF Move, Card
  <2> QED  BY <1>1, <2>1, ShippedMoves
<1>2. CASE ~CanMove(card.status, to)
  BY <1>2 DEF Move
<1> QED  BY <1>1, <1>2

LEMMA ApplyKeepsShipped ==
  ASSUME NEW card \in Card, card.status \in {"merged", "done"}, NEW e \in EventInput
  PROVE  \/ Apply(card, e).status = card.status
         \/ card.status = "merged" /\ Apply(card, e).status = "done"
<1>1. Apply(card, e) = ApplyToCard(card, e)
  BY DEF Apply
<1>2. {"claimed", "blocked", "open", "needs_review", "done", "cancelled", "in_progress",
       "pr_open", "merged"} \subseteq Columns
  BY DEF Columns
<1>3. e.agent \in Agents \cup {NoAgent} /\ e.blocker \in BOOLEAN
  BY DEF EventInput
<1>4. CASE e.kind = "task_claimed"
  <2>1. [card EXCEPT !.claimed_by = e.agent] \in Card
    BY <1>3 DEF Card
  <2> QED  BY <1>1, <1>2, <1>4, <2>1, MoveKeepsShipped DEF ApplyToCard
<1>5. CASE e.kind = "task_blocked"
  <2>1. [card EXCEPT !.blocker = e.blocker] \in Card
    BY <1>3 DEF Card
  <2> QED  BY <1>1, <1>2, <1>5, <2>1, MoveKeepsShipped DEF ApplyToCard
<1>6. CASE e.kind = "task_unblocked"
  <2>1. [card EXCEPT !.claimed_by = NoAgent, !.blocker = FALSE] \in Card
    BY DEF Card
  <2>2. ApplyToCard(card, e)
          = Move(card, "open", [card EXCEPT !.claimed_by = NoAgent, !.blocker = FALSE])
    BY <1>6 DEF ApplyToCard
  <2> QED  BY <1>1, <1>2, <2>1, <2>2, MoveKeepsShipped
<1>7. CASE e.kind = "task_completed"
  BY <1>1, <1>2, <1>7, MoveKeepsShipped DEF ApplyToCard
<1>8. CASE e.kind = "task_cancelled"
  <2>1. [card EXCEPT !.claimed_by = NoAgent] \in Card
    BY DEF Card
  <2> QED  BY <1>1, <1>2, <1>8, <2>1, MoveKeepsShipped DEF ApplyToCard
<1>9. CASE e.kind = "task_handed_off"
  BY <1>1, <1>9 DEF ApplyToCard, StatusAfterHandoff, Card
<1>10. CASE e.kind \in {"branch_pushed", "pr_opened", "merged"}
  BY <1>1, <1>2, <1>10, MoveKeepsShipped DEF ApplyToCard
<1>11. CASE e.kind \in {"ci_passed", "ci_failed"}
  BY <1>1, <1>11 DEF ApplyToCard, Card
<1>12. CASE e.kind \notin {"task_claimed", "task_blocked", "task_unblocked", "task_completed",
                           "task_cancelled", "task_handed_off", "branch_pushed", "pr_opened",
                           "merged", "ci_passed", "ci_failed"}
  BY <1>1, <1>12 DEF ApplyToCard
<1> QED  BY <1>4, <1>5, <1>6, <1>7, <1>8, <1>9, <1>10, <1>11, <1>12

(* A merged card only ever closes: no late, repeated or reordered event    *)
(* of any caller takes it back to an earlier column.                       *)
THEOREM ShippedIsFinal == Spec => MergedStaysMerged
<1> DEFINE Forward ==
      \A t \in Tasks :
        tasks[t].status \in {"merged", "done"} =>
          \/ tasks'[t].status = tasks[t].status
          \/ tasks[t].status = "merged" /\ tasks'[t].status = "done"
<1>1. TypeOK /\ [Next]_vars => [Forward]_vars
  <2> SUFFICES ASSUME TypeOK, Next PROVE Forward
    OBVIOUS
  <2>1. CASE UNCHANGED ledgerVars
    BY <2>1 DEF ledgerVars
  <2>2. ASSUME NEW e \in EventInput, AppendFresh(e)
        PROVE  Forward
    BY <2>2, ApplyKeepsShipped DEF AppendFresh, TypeOK, EventInput
  <2> QED  BY <2>1, <2>2, LedgerStep
<1> QED  BY <1>1, TypeCorrect, PTL DEF Spec, MergedStaysMerged

\* Whatever an event does to a task with no card, it leaves no half-made card.
AbsentIsBlank == \A t \in Tasks : tasks[t].status = "absent" => tasks[t] = NoCard

LEMMA MoveHasColumn ==
  ASSUME NEW card \in Card, card.status # "absent", NEW patched \in Card, NEW to \in Columns
  PROVE  Move(card, to, patched).status # "absent"
BY DEF Move, Card, Columns

LEMMA ApplyKeepsColumn ==
  ASSUME NEW card \in Card, NEW e \in EventInput, Apply(card, e).status = "absent"
  PROVE  Apply(card, e) = card
<1> SUFFICES ASSUME card.status # "absent" PROVE FALSE
  BY DEF Apply, NewCard, NoCard
<1>1. Apply(card, e) = ApplyToCard(card, e)
  BY DEF Apply
<1>2. {"claimed", "blocked", "open", "needs_review", "done", "cancelled", "in_progress",
       "pr_open", "merged"} \subseteq Columns
  BY DEF Columns
<1>3. e.agent \in Agents \cup {NoAgent} /\ e.blocker \in BOOLEAN
  BY DEF EventInput
<1>4. CASE e.kind = "task_claimed"
  <2>1. [card EXCEPT !.claimed_by = e.agent] \in Card
    BY <1>3 DEF Card
  <2> QED  BY <1>1, <1>2, <1>4, <2>1, MoveHasColumn DEF ApplyToCard
<1>5. CASE e.kind = "task_blocked"
  <2>1. [card EXCEPT !.blocker = e.blocker] \in Card
    BY <1>3 DEF Card
  <2> QED  BY <1>1, <1>2, <1>5, <2>1, MoveHasColumn DEF ApplyToCard
<1>6. CASE e.kind = "task_unblocked"
  <2>1. [card EXCEPT !.claimed_by = NoAgent, !.blocker = FALSE] \in Card
    BY DEF Card
  <2>2. ApplyToCard(card, e)
          = Move(card, "open", [card EXCEPT !.claimed_by = NoAgent, !.blocker = FALSE])
    BY <1>6 DEF ApplyToCard
  <2> QED  BY <1>1, <1>2, <2>1, <2>2, MoveHasColumn
<1>7. CASE e.kind = "task_cancelled"
  <2>1. [card EXCEPT !.claimed_by = NoAgent] \in Card
    BY DEF Card
  <2> QED  BY <1>1, <1>2, <1>7, <2>1, MoveHasColumn DEF ApplyToCard
<1>8. CASE e.kind = "task_handed_off"
  BY <1>1, <1>8 DEF ApplyToCard, StatusAfterHandoff, Card
<1>9. CASE e.kind \in {"task_completed", "branch_pushed", "pr_opened", "merged"}
  BY <1>1, <1>2, <1>9, MoveHasColumn DEF ApplyToCard
<1>10. CASE e.kind \in {"ci_passed", "ci_failed"}
  BY <1>1, <1>10 DEF ApplyToCard, Card
<1>11. CASE e.kind \notin {"task_claimed", "task_blocked", "task_unblocked", "task_completed",
                           "task_cancelled", "task_handed_off", "branch_pushed", "pr_opened",
                           "merged", "ci_passed", "ci_failed"}
  BY <1>1, <1>11 DEF ApplyToCard
<1> QED  BY <1>4, <1>5, <1>6, <1>7, <1>8, <1>9, <1>10, <1>11

LEMMA AbsentBlank == Spec => []AbsentIsBlank
<1>1. Init => AbsentIsBlank
  BY DEF Init, AbsentIsBlank
<1>2. TypeOK /\ AbsentIsBlank /\ [Next]_vars => AbsentIsBlank'
  <2> SUFFICES ASSUME TypeOK, AbsentIsBlank, [Next]_vars PROVE AbsentIsBlank'
    OBVIOUS
  <2>1. CASE UNCHANGED ledgerVars
    BY <2>1 DEF ledgerVars, AbsentIsBlank
  <2>2. ASSUME NEW e \in EventInput, AppendFresh(e)
        PROVE  AbsentIsBlank'
    <3> SUFFICES ASSUME NEW t \in Tasks, tasks'[t].status = "absent"
                 PROVE  tasks'[t] = NoCard
      BY DEF AbsentIsBlank
    <3>1. tasks'[t] = IF t = e.task THEN Apply(tasks[t], e) ELSE tasks[t]
      BY <2>2 DEF AppendFresh, TypeOK
    <3>2. tasks[t] \in Card
      BY DEF TypeOK
    <3> QED  BY <3>1, <3>2, ApplyKeepsColumn DEF AbsentIsBlank
  <2>3. CASE UNCHANGED vars
    BY <2>1, <2>3 DEF vars, ledgerVars
  <2> QED  BY <2>1, <2>2, <2>3, LedgerStep
<1> QED  BY <1>1, <1>2, TypeCorrect, PTL DEF Spec

-----------------------------------------------------------------------------
(* The rollup.                                                             *)

\* Changing whether one element belongs to a set moves its size by the difference.
LEMMA CountMoves ==
  ASSUME NEW S, IsFiniteSet(S), NEW T, NEW x, \A y : y # x => (y \in T <=> y \in S)
  PROVE  IsFiniteSet(T) /\ Cardinality(T) = Cardinality(S) + Bit(x \in T) - Bit(x \in S)
<1>1. Cardinality(S) \in Nat
  BY FS_CardinalityType
<1>2. CASE x \in T /\ x \notin S
  <2>1. T = S \cup {x}
    BY <1>2
  <2> QED  BY <1>1, <1>2, <2>1, FS_AddElement DEF Bit
<1>3. CASE x \notin T /\ x \in S
  <2>1. T = S \ {x}
    BY <1>3
  <2> QED  BY <1>1, <1>3, <2>1, FS_RemoveElement DEF Bit
<1>4. CASE (x \in T) = (x \in S)
  <2>1. T = S
    BY <1>4
  <2> QED  BY <1>1, <2>1 DEF Bit
<1> QED  BY <1>2, <1>3, <1>4

\* The tally of a set of tasks, when one card changes.
LEMMA TallyFinite ==
  ASSUME NEW S, S \subseteq Tasks
  PROVE  IsFiniteSet(S)
BY StoreAssumption, FS_Subset

LEMMA RollupStep ==
  ASSUME TypeOK, RollupIsRecount, NEW e \in EventInput, AppendFresh(e)
  PROVE  RollupIsRecount'
<1> DEFINE t == e.task
           before == tasks[t]
           after  == Apply(tasks[t], e)
<1>1. t \in Tasks /\ before \in Card /\ after \in Card
  BY ApplyTyped DEF TypeOK, EventInput
<1>2. tasks' = [tasks EXCEPT ![t] = after]
  BY DEF AppendFresh
<1>3. rollup' = CommitRollup(rollup, before, after, counter + 1) /\ counter' = counter + 1
  BY DEF AppendFresh
<1> HIDE DEF after
<1>4. /\ tasks'[t] = after
      /\ \A u \in Tasks : u # t => tasks'[u] = tasks[u]
  BY <1>1, <1>2 DEF TypeOK
<1> HIDE DEF before, t
<1>5. before = tasks[t]
  BY DEF before
<1>6. ASSUME NEW c \in Columns
      PROVE  rollup'.counts[c] = Cardinality({u \in Tasks : tasks'[u].status = c})
  <2> DEFINE S == {u \in Tasks : tasks[u].status = c}
             T == {u \in Tasks : tasks'[u].status = c}
  <2>1. IsFiniteSet(S)
    BY TallyFinite
  <2>2. \A u : u # t => (u \in T <=> u \in S)
    BY <1>4
  <2>3. (t \in T <=> after.status = c) /\ (t \in S <=> before.status = c)
    BY <1>1, <1>4, <1>5
  <2>4. Cardinality(T) = Cardinality(S) + Bit(t \in T) - Bit(t \in S)
    BY <2>1, <2>2, CountMoves
  <2>5. rollup.counts[c] = Cardinality(S)
    BY DEF RollupIsRecount
  <2>6. rollup'.counts[c] = rollup.counts[c] + Bit(after.status = c) - Bit(before.status = c)
    BY <1>3 DEF CommitRollup
  <2> QED  BY <2>3, <2>4, <2>5, <2>6 DEF Bit
<1>7. rollup'.blocked = Cardinality({u \in Tasks : tasks'[u].blocker})
  <2> DEFINE S == {u \in Tasks : tasks[u].blocker}
             T == {u \in Tasks : tasks'[u].blocker}
  <2>1. IsFiniteSet(S)
    BY TallyFinite
  <2>2. \A u : u # t => (u \in T <=> u \in S)
    BY <1>4
  <2>3. (t \in T <=> after.blocker) /\ (t \in S <=> before.blocker)
    BY <1>1, <1>4, <1>5
  <2>4. Cardinality(T) = Cardinality(S) + Bit(t \in T) - Bit(t \in S)
    BY <2>1, <2>2, CountMoves
  <2>5. rollup'.blocked = Cardinality(S) + Bit(after.blocker) - Bit(before.blocker)
    BY <1>3 DEF CommitRollup, RollupIsRecount
  <2> QED  BY <2>3, <2>4, <2>5 DEF Bit
<1>8. rollup'.ci_failed = Cardinality({u \in Tasks : tasks'[u].ci = "failed"})
  <2> DEFINE S == {u \in Tasks : tasks[u].ci = "failed"}
             T == {u \in Tasks : tasks'[u].ci = "failed"}
  <2>1. IsFiniteSet(S)
    BY TallyFinite
  <2>2. \A u : u # t => (u \in T <=> u \in S)
    BY <1>4
  <2>3. (t \in T <=> after.ci = "failed") /\ (t \in S <=> before.ci = "failed")
    BY <1>1, <1>4, <1>5
  <2>4. Cardinality(T) = Cardinality(S) + Bit(t \in T) - Bit(t \in S)
    BY <2>1, <2>2, CountMoves
  <2>5. rollup'.ci_failed = Cardinality(S) + Bit(after.ci = "failed") - Bit(before.ci = "failed")
    BY <1>3 DEF CommitRollup, RollupIsRecount
  <2> QED  BY <2>3, <2>4, <2>5 DEF Bit
<1>9. rollup'.last_seq = counter'
  BY <1>3 DEF CommitRollup
<1> QED  BY <1>6, <1>7, <1>8, <1>9 DEF RollupIsRecount

(* No drift: the rollup kept by increments is a recount of the board,      *)
(* however many tasks the project has and whatever is appended.            *)
THEOREM RollupCorrect == Spec => []RollupIsRecount
<1>1. Init => RollupIsRecount
  <2> SUFFICES ASSUME Init PROVE RollupIsRecount
    OBVIOUS
  <2>1. \A t \in Tasks : tasks[t] = NoCard
    BY DEF Init
  <2>2. \A c \in Columns : {t \in Tasks : tasks[t].status = c} = {}
    BY <2>1 DEF NoCard, Columns
  <2>3. {t \in Tasks : tasks[t].blocker} = {} /\ {t \in Tasks : tasks[t].ci = "failed"} = {}
    BY <2>1 DEF NoCard
  <2> QED  BY <2>2, <2>3, FS_EmptySet DEF Init, RollupIsRecount, EmptyRollup
<1>2. TypeOK /\ RollupIsRecount /\ [Next]_vars => RollupIsRecount'
  <2> SUFFICES ASSUME TypeOK, RollupIsRecount, [Next]_vars PROVE RollupIsRecount'
    OBVIOUS
  <2>1. CASE UNCHANGED ledgerVars
    BY <2>1 DEF ledgerVars, RollupIsRecount
  <2>2. CASE UNCHANGED vars
    BY <2>1, <2>2 DEF vars, ledgerVars
  <2> QED  BY <2>1, <2>2, LedgerStep, RollupStep
<1> QED  BY <1>1, <1>2, TypeCorrect, PTL DEF Spec

-----------------------------------------------------------------------------
(* The board is the fold of the ledger.  What a recursive function gives   *)
(* would take an induction over the ledger; here the steps of the store    *)
(* are that induction, for each extends the ledger by at most one event.   *)

\* f is the sequence of cards a rebuild of t from the first c events goes through.
Rebuild(log, c, t, f) ==
  f = [n \in 0 .. c |->
         IF n = 0 THEN NoCard
         ELSE IF log[n].task = t THEN Apply(f[n - 1], log[n]) ELSE f[n - 1]]

\* There is a rebuild, and whichever it is, it ends in this card.
RebuildsTo(log, c, t, card) ==
  /\ \E f : Rebuild(log, c, t, f)
  /\ \A f : Rebuild(log, c, t, f) => f[c] = card

\* The equations of a rebuild, one by one.
Unfolded(log, c, t, f) ==
  /\ f = [n \in 0 .. c |-> f[n]]
  /\ f[0] = NoCard
  /\ \A n \in 1 .. c :
       f[n] = IF log[n].task = t THEN Apply(f[n - 1], log[n]) ELSE f[n - 1]

LEMMA RebuildUnfolds ==
  ASSUME NEW c \in Nat, NEW log, NEW t, NEW f
  PROVE  Rebuild(log, c, t, f) <=> Unfolded(log, c, t, f)
<1> DEFINE step(n) == IF n = 0 THEN NoCard
                      ELSE IF log[n].task = t THEN Apply(f[n - 1], log[n]) ELSE f[n - 1]
<1>1. Rebuild(log, c, t, f) <=> f = [n \in 0 .. c |-> step(n)]
  BY DEF Rebuild
<1>2. step(0) = NoCard
  OBVIOUS
<1>3. \A n \in 1 .. c : step(n) = IF log[n].task = t THEN Apply(f[n - 1], log[n]) ELSE f[n - 1]
  OBVIOUS
<1> HIDE DEF step
<1>4. f = [n \in 0 .. c |-> step(n)] <=>
        f = [n \in 0 .. c |-> f[n]] /\ \A n \in 0 .. c : f[n] = step(n)
  OBVIOUS
<1>5. (\A n \in 0 .. c : f[n] = step(n)) <=> f[0] = step(0) /\ \A n \in 1 .. c : f[n] = step(n)
  OBVIOUS
<1> QED  BY <1>1, <1>2, <1>3, <1>4, <1>5 DEF Unfolded

\* A ledger with no event rebuilds no card.
LEMMA RebuildOfNothing ==
  ASSUME NEW log, NEW t
  PROVE  RebuildsTo(log, 0, t, NoCard)
<1>1. Rebuild(log, 0, t, [n \in 0 .. 0 |-> NoCard])
  BY DEF Rebuild
<1>2. ASSUME NEW f, Rebuild(log, 0, t, f) PROVE f[0] = NoCard
  BY <1>2, RebuildUnfolds DEF Unfolded
<1> QED  BY <1>1, <1>2 DEF RebuildsTo

\* One more event moves what a rebuild ends in by that event.
LEMMA RebuildExtends ==
  ASSUME NEW c \in Nat, NEW log, NEW longer, NEW t, NEW card, NEW after,
         \A n \in 1 .. c : longer[n] = log[n],
         RebuildsTo(log, c, t, card),
         after = IF longer[c + 1].task = t THEN Apply(card, longer[c + 1]) ELSE card
  PROVE  RebuildsTo(longer, c + 1, t, after)
<1>0. c + 1 \in Nat
  OBVIOUS
<1>1. ASSUME NEW f, Rebuild(log, c, t, f)
      PROVE  Rebuild(longer, c + 1, t, [n \in 0 .. c + 1 |-> IF n = c + 1 THEN after ELSE f[n]])
  <2> DEFINE g == [n \in 0 .. c + 1 |-> IF n = c + 1 THEN after ELSE f[n]]
  <2>1. /\ f[0] = NoCard
        /\ \A n \in 1 .. c :
             f[n] = IF log[n].task = t THEN Apply(f[n - 1], log[n]) ELSE f[n - 1]
    BY <1>1, RebuildUnfolds DEF Unfolded
  <2>2. f[c] = card
    BY <1>1 DEF RebuildsTo
  <2>3. g = [n \in 0 .. c + 1 |-> g[n]]
    OBVIOUS
  <2>4. g[c + 1] = after /\ \A n \in 0 .. c : g[n] = f[n]
    OBVIOUS
  <2> HIDE DEF g
  <2>5. ASSUME NEW n \in 1 .. c + 1
        PROVE  g[n] = IF longer[n].task = t THEN Apply(g[n - 1], longer[n]) ELSE g[n - 1]
    <3>1. CASE n = c + 1
      <4>1. g[n - 1] = card /\ g[n] = after
        BY <2>2, <2>4, <3>1
      <4> QED  BY <3>1, <4>1
    <3>2. CASE n \in 1 .. c
      <4>1. g[n] = f[n] /\ g[n - 1] = f[n - 1]
        BY <2>4, <3>2
      <4> QED  BY <2>1, <3>2, <4>1
    <3> QED  BY <3>1, <3>2
  <2>6. g[0] = NoCard
    BY <2>1, <2>4
  <2>7. Unfolded(longer, c + 1, t, g)
    BY <2>3, <2>5, <2>6 DEF Unfolded
  <2>8. Rebuild(longer, c + 1, t, g)
    BY <1>0, <2>7, RebuildUnfolds
  <2> QED  BY <2>8 DEF g
<1>2. ASSUME NEW g, Rebuild(longer, c + 1, t, g)
      PROVE  g[c + 1] = after
  <2> DEFINE f == [n \in 0 .. c |-> g[n]]
  <2>1. /\ g[0] = NoCard
        /\ \A n \in 1 .. c + 1 :
             g[n] = IF longer[n].task = t THEN Apply(g[n - 1], longer[n]) ELSE g[n - 1]
    BY <1>0, <1>2, RebuildUnfolds DEF Unfolded
  <2>2. f = [n \in 0 .. c |-> f[n]] /\ \A n \in 0 .. c : f[n] = g[n]
    OBVIOUS
  <2> HIDE DEF f
  <2>3. ASSUME NEW n \in 1 .. c
        PROVE  f[n] = IF log[n].task = t THEN Apply(f[n - 1], log[n]) ELSE f[n - 1]
    <3>1. f[n] = g[n] /\ f[n - 1] = g[n - 1] /\ n \in 1 .. c + 1
      BY <2>2
    <3> QED  BY <2>1, <3>1
  <2>4. Unfolded(log, c, t, f)
    BY <2>1, <2>2, <2>3 DEF Unfolded
  <2>5. g[c] = card
    BY <2>2, <2>4, RebuildUnfolds DEF RebuildsTo
  <2>6. c + 1 \in 1 .. c + 1 /\ (c + 1) - 1 = c
    OBVIOUS
  <2> QED  BY <2>1, <2>5, <2>6
<1> QED  BY <1>1, <1>2 DEF RebuildsTo

\* The cards the transactions wrote are what a rebuild from the ledger ends in.
ReplayInv == \A t \in Tasks : RebuildsTo(Log, counter, t, tasks[t])

LEMMA ReplayStep ==
  ASSUME TypeOK, LedgerIntact, TypeOK', LedgerIntact', ReplayInv,
         NEW e \in EventInput, AppendFresh(e)
  PROVE  ReplayInv'
<1> DEFINE new == Stamped(e, counter + 1)
<1>1. counter \in Nat /\ counter' = counter + 1 /\ events' = events \cup {new}
  BY DEF AppendFresh, TypeOK
<1>2. new.seq = counter + 1 /\ new.task = e.task
  BY <1>1, StampedTyped
<1>3. \A card : Apply(card, new) = Apply(card, e)
  <2>1. new.kind = e.kind /\ new.agent = e.agent /\ new.blocker = e.blocker
    BY DEF Stamped
  <2> HIDE DEF new
  <2> QED  BY <2>1 DEF Apply, ApplyToCard
<1>4. e.task \in Tasks /\ tasks' = [tasks EXCEPT ![e.task] = Apply(@, e)]
  BY DEF AppendFresh, EventInput
<1>5. \A n \in 1 .. counter : Log[n] \in events /\ Log[n].seq = n
  BY LogOfEvents DEF LogReadsEvents
<1>6. LogReadsEvents'
  BY LogOfEvents, PTL
<1>7. \A d \in events' : Log'[d.seq] = d
  BY <1>6 DEF LogReadsEvents
<1> HIDE DEF new
<1>8. \A n \in 1 .. counter : Log'[n] = Log[n]
  BY <1>1, <1>5, <1>7
<1>9. Log'[counter + 1] = new
  BY <1>1, <1>2, <1>7
<1>10. ASSUME NEW t \in Tasks
       PROVE  RebuildsTo(Log', counter', t, tasks'[t])
  <2>1. tasks'[t] = IF new.task = t THEN Apply(tasks[t], new) ELSE tasks[t]
    BY <1>2, <1>3, <1>4 DEF TypeOK
  <2>2. RebuildsTo(Log, counter, t, tasks[t])
    BY DEF ReplayInv
  <2> QED  BY <1>1, <1>8, <1>9, <2>1, <2>2, RebuildExtends
<1> QED  BY <1>10 DEF ReplayInv

(* The board is derivable from the ledger: whatever is appended, in any    *)
(* order and by anybody, folding every event by seq gives the cards the    *)
(* transactions wrote one at a time.                                       *)
THEOREM BoardReplays == Spec => []BoardIsReplay
<1>1. Init => ReplayInv
  BY RebuildOfNothing DEF Init, ReplayInv
<1>2. TypeOK /\ LedgerIntact /\ TypeOK' /\ LedgerIntact' /\ ReplayInv /\ [Next]_vars => ReplayInv'
  <2> SUFFICES ASSUME TypeOK, LedgerIntact, TypeOK', LedgerIntact', ReplayInv, [Next]_vars
               PROVE  ReplayInv'
    OBVIOUS
  <2>1. CASE UNCHANGED ledgerVars
    BY <2>1 DEF ledgerVars, ReplayInv, Log
  <2>2. CASE UNCHANGED vars
    BY <2>1, <2>2 DEF vars, ledgerVars
  <2> QED  BY <2>1, <2>2, LedgerStep, ReplayStep
<1>3. TypeOK /\ ReplayInv => BoardIsReplay
  <2> SUFFICES ASSUME TypeOK, ReplayInv, NEW t \in Tasks PROVE tasks[t] = Replayed(t)
    BY DEF BoardIsReplay
  <2> DEFINE Rebuilt(f) ==
        f = [n \in 0 .. counter |->
               IF n = 0 THEN NoCard
               ELSE IF EventAt(n).task = t THEN Apply(f[n - 1], EventAt(n)) ELSE f[n - 1]]
  <2>1. \A n \in 0 .. counter : n # 0 => Log[n] = EventAt(n)
    BY DEF Log, EventAt, TypeOK
  <2>2. ASSUME NEW f PROVE Rebuilt(f) <=> Rebuild(Log, counter, t, f)
    BY <2>1 DEF Rebuild
  <2>3. (\E f : Rebuilt(f)) /\ \A f : Rebuilt(f) => f[counter] = tasks[t]
    BY <2>2 DEF ReplayInv, RebuildsTo
  <2> QED  BY <2>3 DEF Replayed
<1> QED  BY <1>1, <1>2, <1>3, TypeCorrect, LedgerCorrect, PTL DEF Spec
=============================================================================
