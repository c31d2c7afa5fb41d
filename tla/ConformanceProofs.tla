-------------------------- MODULE ConformanceProofs --------------------------
(***************************************************************************)
(* Proofs about the two stores side by side: a step of the pair is a step  *)
(* of the Firestore store, so what is proved of that one holds here, and   *)
(* the memory store tells of claims and cards what the Firestore one does. *)
(*                                                                         *)
(* That the two agree is not inductive alone.  The memory store appends    *)
(* under the same keys, so both must have seen the same ones; a card must  *)
(* exist in both or in neither, for each decides alone whether a create is *)
(* a first one; and the memory store must never store a claimed column,    *)
(* which it only ever shows.                                               *)
(***************************************************************************)
EXTENDS Conformance, StoreBoardProofs

-----------------------------------------------------------------------------
(* The pair behaves as the store.                                          *)

LEMMA PairStepIsStoreStep ==
  ASSUME [BothNext]_both
  PROVE  [Next]_vars
<1>1. CASE UNCHANGED both
  BY <1>1 DEF both
<1>2. ASSUME NEW a \in Agents, AgentCalls(a)
      PROVE  Next
  BY <1>2 DEF AgentCalls, Next, Transact
<1>3. CASE SystemCalls
  BY <1>3 DEF SystemCalls, Next, System
<1> QED  BY <1>1, <1>2, <1>3 DEF BothNext

(* Every behaviour of the pair is one of the store: the double watches.    *)
THEOREM PairIsStore == BothSpec => Spec
<1>1. BothInit => Init
  BY DEF BothInit
<1> QED  BY <1>1, PairStepIsStoreStep, PTL DEF BothSpec, Spec

(* What is proved of the store holds beside the double: the board stays a  *)
(* replay of the ledger, the rollup a recount of the board, and what was   *)
(* merged stays merged.                                                    *)
THEOREM PairKeepsBoard ==
  BothSpec => []BoardIsReplay /\ []RollupIsRecount /\ MergedStaysMerged
BY PairIsStore, BoardReplays, RollupCorrect, ShippedIsFinal

-----------------------------------------------------------------------------
(* The invariant.                                                          *)

\* The keys of the calls that are events in both stores.
SharedOps == {"create", "cancel", "client", "gh"}

\* A claim is laid over an open column, never stored in one.
MemoryColumns == (Columns \cup {"absent"}) \ {"claimed"}

MemoryTyped ==
  /\ columns \in [Tasks -> MemoryColumns]
  /\ holders \in [Tasks -> Agents \cup {NoAgent}]
  /\ together \subseteq Tasks

SameKeys  == keys = {e.key : e \in {d \in events : d.key.op \in SharedOps}}
SameCards == \A t \in Tasks : columns[t] = "absent" <=> tasks[t].status = "absent"

PairInv == MemoryTyped /\ SameKeys /\ SameCards /\ StoresAgree

\* What the two stores keep of one task, and agree on.
Alike(card, column, holder) ==
  /\ card.status = IF holder # NoAgent /\ column = "open" THEN "claimed" ELSE column
  /\ card.status # "absent" => card.claimed_by = holder

LEMMA AgreeIsAlike ==
  StoresAgree <=>
    /\ \A t \in Tasks : holders[t] = claims[t].agent
    /\ \A t \in together : Alike(tasks[t], columns[t], holders[t])
BY DEF StoresAgree, Alike, Memory!Shown

-----------------------------------------------------------------------------
(* The moves both folds make.                                              *)

LEMMA CreatedAlike ==
  ASSUME NEW card \in Card, NEW column \in MemoryColumns, NEW e \in EventInput,
         e.kind = "task_created", Alike(card, column, NoAgent)
  PROVE  Alike(Apply(card, e), Memory!Folded(column, e.kind), NoAgent)
BY DEF Alike, Apply, ApplyToCard, Memory!Folded, Memory!Fold, NewCard, NoCard

LEMMA TakenAlike ==
  ASSUME NEW card \in Card, NEW column \in MemoryColumns, NEW e \in EventInput, NEW a \in Agents,
         e.kind = "task_claimed", e.agent = a, card.status \in {"open", "absent"},
         Alike(card, column, NoAgent)
  PROVE  Alike(Apply(card, e), column, a)
BY NoAgentAssumption, ClaimedCanOpen DEF Alike, Apply, ApplyToCard, Move, Card

LEMMA ReleasedAlike ==
  ASSUME NEW card \in Card, NEW column \in MemoryColumns, NEW e \in EventInput, NEW a \in Agents,
         e.kind = "task_unblocked", card.status \in {"claimed", "absent"},
         Alike(card, column, a)
  PROVE  Alike(Apply(card, e), column, NoAgent)
BY NoAgentAssumption, ClaimedCanOpen DEF Alike, Apply, ApplyToCard, Move, Card, MemoryColumns

LEMMA HandedOffAlike ==
  ASSUME NEW card \in Card, NEW column \in MemoryColumns, NEW e \in EventInput, NEW a \in Agents,
         e.kind = "task_handed_off", Alike(card, column, a)
  PROVE  Alike(Apply(card, e), Memory!Folded(column, e.kind), NoAgent)
BY NoAgentAssumption
   DEF Alike, Apply, ApplyToCard, Card, MemoryColumns, StatusAfterHandoff,
       Memory!Folded, Memory!Fold, Memory!StatusAfterHandoff

LEMMA CancelledAlike ==
  ASSUME NEW card \in Card, NEW column \in MemoryColumns, NEW e \in EventInput,
         e.kind = "task_cancelled", Alike(card, column, NoAgent)
  PROVE  Alike(Apply(card, e), Memory!Folded(column, e.kind), NoAgent)
<1>1. /\ \A from \in {"open", "claimed", "in_progress", "blocked", "needs_review", "pr_open",
                      "cancelled"} : CanMove(from, "cancelled")
      /\ ~CanMove("merged", "cancelled") /\ ~CanMove("done", "cancelled")
  BY DEF CanMove, Transitions
<1> QED  BY <1>1 DEF Alike, Apply, ApplyToCard, Move, Card, Columns, MemoryColumns,
                     Memory!Folded, Memory!Fold

\* The moves of the other events that both folds make.
LEMMA ReportMoves ==
  /\ \A from \in {"claimed", "in_progress", "blocked", "needs_review", "pr_open"} :
       CanMove(from, "blocked")
  /\ \A from \in {"claimed", "in_progress", "needs_review"} : CanMove(from, "needs_review")
  /\ CanMove("claimed", "in_progress") /\ CanMove("in_progress", "in_progress")
  /\ \A from \in {"merged", "done", "cancelled"} : ~CanMove(from, "in_progress")
  /\ \A from \in {"in_progress", "needs_review", "pr_open"} : CanMove(from, "pr_open")
  /\ \A from \in {"pr_open", "merged"} : CanMove(from, "merged")
BY DEF CanMove, Transitions

LEMMA ReportedAlike ==
  ASSUME NEW card \in Card, NEW column \in MemoryColumns, NEW holder, NEW e \in EventInput,
         e.kind \in {"task_blocked", "task_completed", "branch_pushed", "pr_opened", "merged"},
         card.status \in SharedMoves[e.kind] \cup {"absent"},
         Alike(card, column, holder)
  PROVE  Alike(Apply(card, e), Memory!Folded(column, e.kind), holder)
<1>1. CASE card.status = "absent"
  BY <1>1 DEF Alike, Apply, Memory!Folded, MemoryColumns
<1>2. CASE card.status # "absent"
  <2>1. Apply(card, e) = ApplyToCard(card, e)
    BY <1>2 DEF Apply
  <2>2. column # "absent" /\ Memory!Folded(column, e.kind) = Memory!Fold(column, e.kind)
    BY <1>2 DEF Alike, Memory!Folded
  <2>3. /\ card.claimed_by = holder
        /\ card.status = IF holder # NoAgent /\ column = "open" THEN "claimed" ELSE column
    BY <1>2 DEF Alike
  <2>4. CASE e.kind = "task_blocked"
    <3>1. CanMove(card.status, "blocked")
      BY <1>2, <2>4, ReportMoves DEF SharedMoves
    <3>2. /\ ApplyToCard(card, e).status = "blocked"
          /\ ApplyToCard(card, e).claimed_by = card.claimed_by
      BY <2>4, <3>1 DEF ApplyToCard, Move, Card
    <3>3. Memory!Fold(column, e.kind) = "blocked"
      BY <2>4 DEF Memory!Fold
    <3> QED  BY <2>1, <2>2, <2>3, <3>2, <3>3 DEF Alike
  <2>5. CASE e.kind = "task_completed"
    <3>1. CanMove(card.status, "needs_review") /\ card.status # "merged"
      BY <1>2, <2>5, ReportMoves DEF SharedMoves
    <3>2. /\ ApplyToCard(card, e).status = "needs_review"
          /\ ApplyToCard(card, e).claimed_by = card.claimed_by
      BY <2>5, <3>1 DEF ApplyToCard, Move, Card
    <3>3. Memory!Fold(column, e.kind) = "needs_review"
      BY <2>5 DEF Memory!Fold
    <3> QED  BY <2>1, <2>2, <2>3, <3>2, <3>3 DEF Alike
  <2>6. CASE e.kind = "branch_pushed"
    <3>1. card.status \in {"claimed", "in_progress", "pr_open", "merged", "done", "cancelled"}
      BY <1>2, <2>6 DEF SharedMoves
    <3>2. /\ ApplyToCard(card, e).status
               = IF card.status = "claimed" THEN "in_progress" ELSE card.status
          /\ ApplyToCard(card, e).claimed_by = card.claimed_by
      BY <2>6, <3>1, ReportMoves DEF ApplyToCard, Move, Card
    <3>3. Memory!Fold(column, e.kind) = IF column = "open" THEN "in_progress" ELSE column
      BY <2>6 DEF Memory!Fold, MemoryColumns
    <3>4. card.status = "claimed" <=> column = "open"
      BY <2>3, <3>1 DEF MemoryColumns
    <3>5. card.status # "claimed" => card.status = column
      BY <2>3
    <3> QED  BY <2>1, <2>2, <2>3, <3>2, <3>3, <3>4, <3>5 DEF Alike
  <2>7. CASE e.kind = "pr_opened"
    <3>1. CanMove(card.status, "pr_open")
      BY <1>2, <2>7, ReportMoves DEF SharedMoves
    <3>2. /\ ApplyToCard(card, e).status = "pr_open"
          /\ ApplyToCard(card, e).claimed_by = card.claimed_by
      BY <2>7, <3>1 DEF ApplyToCard, Move, Card
    <3>3. Memory!Fold(column, e.kind) = "pr_open"
      BY <2>7 DEF Memory!Fold
    <3> QED  BY <2>1, <2>2, <2>3, <3>2, <3>3 DEF Alike
  <2>8. CASE e.kind = "merged"
    <3>1. CanMove(card.status, "merged")
      BY <1>2, <2>8, ReportMoves DEF SharedMoves
    <3>2. /\ ApplyToCard(card, e).status = "merged"
          /\ ApplyToCard(card, e).claimed_by = card.claimed_by
      BY <2>8, <3>1 DEF ApplyToCard, Move, Card
    <3>3. Memory!Fold(column, e.kind) = "merged"
      BY <2>8 DEF Memory!Fold
    <3> QED  BY <2>1, <2>2, <2>3, <3>2, <3>3 DEF Alike
  <2> QED  BY <2>4, <2>5, <2>6, <2>7, <2>8
<1> QED  BY <1>1, <1>2

\* CI badges, lock events and narration move no card in either store.
LEMMA QuietAlike ==
  ASSUME NEW card \in Card, NEW column \in MemoryColumns, NEW holder, NEW e \in EventInput,
         e.kind \in {"ci_passed", "ci_failed"} \cup LockKinds \cup HumanKinds,
         Alike(card, column, holder)
  PROVE  Alike(Apply(card, e), Memory!Folded(column, e.kind), holder)
<1>1. Memory!Folded(column, e.kind) = column
  BY DEF Memory!Folded, Memory!Fold, LockKinds, HumanKinds
<1>2. /\ Apply(card, e).status = card.status
      /\ Apply(card, e).claimed_by = card.claimed_by
  BY DEF Apply, ApplyToCard, Card, LockKinds, HumanKinds
<1> QED  BY <1>1, <1>2 DEF Alike

-----------------------------------------------------------------------------
(* The ways a step can look to the pair.                                   *)

Idle == UNCHANGED <<ledgerVars, claims, columns, holders, keys>>

AppendedOnBoth(e) ==
  /\ Elsewhere(e) /\ e.key.op \in SharedOps
  /\ columns' = [columns EXCEPT ![e.task] = Memory!Folded(@, e.kind)]
  /\ keys' = keys \cup {e.key}
  /\ UNCHANGED holders

TakenOnBoth(t, a, e) ==
  /\ Taken(t, a, e)
  /\ holders' = [holders EXCEPT ![t] = a]
  /\ UNCHANGED <<columns, keys>>

ReleasedOnBoth(t, e) ==
  /\ Ended(t, e) /\ e.kind = "task_unblocked"
  /\ holders' = [holders EXCEPT ![t] = NoAgent]
  /\ UNCHANGED <<columns, keys>>

HandedOffOnBoth(t, e) ==
  /\ Ended(t, e) /\ e.kind = "task_handed_off"
  /\ holders' = [holders EXCEPT ![t] = NoAgent]
  /\ columns' = [columns EXCEPT ![t] = Memory!Folded(@, e.kind)]
  /\ UNCHANGED keys

PairStepShape ==
  \/ Idle
  \/ \E e \in EventInput : AppendedOnBoth(e)
  \/ \E t \in Tasks, a \in Agents, e \in EventInput : TakenOnBoth(t, a, e)
  \/ \E t \in Tasks, e \in EventInput : ReleasedOnBoth(t, e) \/ HandedOffOnBoth(t, e)

\* A key the pair shares is fresh in both stores or in neither.
LEMMA FreshInBoth ==
  ASSUME SameKeys, NEW key, key.op \in SharedOps
  PROVE  key \in keys <=> Recorded(key)
BY DEF SameKeys, Recorded

LEMMA AppendPairs ==
  ASSUME SameKeys, NEW e \in EventInput, CommitAppend(e), UNCHANGED claims,
         e.kind \notin {"task_claimed", "task_unblocked", "task_handed_off"},
         e.key.op \in SharedOps,
         Memory!AppendEvent(e.kind, e.task, e.key)
  PROVE  Idle \/ AppendedOnBoth(e)
<1>1. CASE Recorded(e.key)
  <2>1. UNCHANGED ledgerVars
    BY <1>1 DEF CommitAppend, AppendDuplicate, AppendFresh
  <2>2. UNCHANGED Memory!memory
    BY <1>1, FreshInBoth DEF Memory!AppendEvent
  <2> QED  BY <2>1, <2>2 DEF Idle, Memory!memory
<1>2. CASE ~Recorded(e.key)
  <2>1. AppendFresh(e)
    BY <1>2 DEF CommitAppend, AppendDuplicate
  <2>2. /\ columns' = [columns EXCEPT ![e.task] = Memory!Folded(@, e.kind)]
        /\ keys' = keys \cup {e.key}
        /\ UNCHANGED holders
    BY <1>2, FreshInBoth DEF Memory!AppendEvent
  <2>3. Elsewhere(e)
    BY <2>1 DEF Elsewhere, ReleasesClaim, SharedOps, EndingOps
  <2> QED  BY <2>2, <2>3 DEF AppendedOnBoth
<1> QED  BY <1>1, <1>2

\* Who holds a claim, in either store.
LEMMA HolderFacts ==
  ASSUME TypeOK, PairInv, NEW t \in Tasks
  PROVE  /\ holders[t] = claims[t].agent
         /\ claims[t] = NoClaim <=> holders[t] = NoAgent
         /\ holders = [holders EXCEPT ![t] = holders[t]]
<1>1. holders[t] = claims[t].agent
  BY DEF PairInv, StoresAgree
<1>2. claims[t] = NoClaim <=> claims[t].agent = NoAgent
  BY NoAgentAssumption DEF TypeOK, Claim, NoClaim
<1>3. holders = [holders EXCEPT ![t] = holders[t]]
  BY DEF PairInv, MemoryTyped
<1> QED  BY <1>1, <1>2, <1>3

LEMMA ClaimPairs ==
  ASSUME TypeOK, LedgerIntact, ClaimInv, PairInv, NEW a \in Agents,
         ClaimHeld(a) \/ ClaimFree(a), Memory!ClaimTask(call[a].task, a)
  PROVE  PairStepShape
<1> DEFINE t == call[a].task
<1>1. t \in Tasks
  BY CallTyped DEF ClaimHeld, ClaimFree
<1>2. /\ holders' = [holders EXCEPT ![t] = IF holders[t] = NoAgent THEN a ELSE holders[t]]
      /\ UNCHANGED <<columns, keys>>
  BY DEF Memory!ClaimTask
<1>3. CASE ClaimHeld(a)
  <2>1. claims[t] # NoClaim /\ UNCHANGED <<ledgerVars, claims>>
    BY <1>3 DEF ClaimHeld, storeVars, ledgerVars
  <2> HIDE DEF t
  <2>2. UNCHANGED holders
    BY <1>1, <1>2, <2>1, HolderFacts
  <2> QED  BY <1>2, <2>1, <2>2 DEF Idle, PairStepShape
<1>4. CASE ClaimFree(a)
  <2>1. PICK e \in EventInput : Taken(t, a, e)
    BY <1>4, ClaimFreeTakes
  <2> HIDE DEF t
  <2>2. holders[t] = NoAgent
    BY <1>1, <2>1, HolderFacts DEF Taken
  <2>3. TakenOnBoth(t, a, e)
    BY <1>2, <2>1, <2>2 DEF TakenOnBoth
  <2> QED  BY <1>1, <2>3 DEF PairStepShape
<1> QED  BY <1>3, <1>4

LEMMA ReleasePairs ==
  ASSUME TypeOK, LedgerIntact, ClaimInv, PairInv, NEW a \in Agents,
         ReleaseNotHeld(a) \/ ReleaseHeld(a), Memory!ReleaseTask(call[a].task, a)
  PROVE  PairStepShape
<1> DEFINE t == call[a].task
<1>1. t \in Tasks
  BY CallTyped DEF ReleaseNotHeld, ReleaseHeld
<1>2. /\ holders' = [holders EXCEPT ![t] = IF holders[t] = a THEN NoAgent ELSE holders[t]]
      /\ UNCHANGED <<columns, keys>>
  BY DEF Memory!ReleaseTask
<1>3. CASE ReleaseNotHeld(a)
  <2>1. claims[t].agent # a /\ UNCHANGED <<ledgerVars, claims>>
    BY <1>3 DEF ReleaseNotHeld, storeVars, ledgerVars
  <2> HIDE DEF t
  <2>2. UNCHANGED holders
    BY <1>1, <1>2, <2>1, HolderFacts
  <2> QED  BY <1>2, <2>1, <2>2 DEF Idle, PairStepShape
<1>4. CASE ReleaseHeld(a)
  <2>1. PICK e \in EventInput : Ended(t, e) /\ e.kind = "task_unblocked"
    BY <1>4, ReleaseHeldEnds
  <2>2. claims[t].agent = a
    BY <1>4 DEF ReleaseHeld
  <2> HIDE DEF t
  <2>3. holders[t] = a
    BY <1>1, <2>2, HolderFacts
  <2>4. ReleasedOnBoth(t, e)
    BY <1>2, <2>1, <2>3 DEF ReleasedOnBoth
  <2> QED  BY <1>1, <2>4 DEF PairStepShape
<1> QED  BY <1>3, <1>4

LEMMA HandoffPairs ==
  ASSUME TypeOK, LedgerIntact, ClaimInv, PairInv, NEW a \in Agents,
         HandoffRefused(a) \/ HandoffHeld(a),
         Memory!HandoffTask(call[a].task, call[a].holder)
  PROVE  PairStepShape
<1> DEFINE t == call[a].task
<1>1. t \in Tasks /\ call[a].holder \in Agents
  BY CallTyped DEF HandoffRefused, HandoffHeld
<1>2. CASE HandoffRefused(a)
  <2>1. claims[t].agent # call[a].holder /\ UNCHANGED <<ledgerVars, claims>>
    BY <1>2 DEF HandoffRefused, storeVars, ledgerVars
  <2>2. holders[t] # call[a].holder
    BY <1>1, <2>1, HolderFacts
  <2>3. UNCHANGED <<columns, holders, keys>>
    BY <2>2 DEF Memory!HandoffTask, Memory!memory
  <2> QED  BY <2>1, <2>3 DEF Idle, PairStepShape
<1>3. CASE HandoffHeld(a)
  <2>1. PICK e \in EventInput : Ended(t, e) /\ e.kind = "task_handed_off"
    BY <1>3, HandoffHeldEnds
  <2>2. holders[t] = call[a].holder /\ holders[t] # NoAgent
    BY <1>1, <1>3, HolderFacts, NoAgentAssumption DEF HandoffHeld
  <2>3. /\ holders' = [holders EXCEPT ![t] = NoAgent]
        /\ columns' = [columns EXCEPT ![t] = Memory!Folded(@, "task_handed_off")]
        /\ UNCHANGED keys
    BY <2>2 DEF Memory!HandoffTask
  <2> HIDE DEF t
  <2>4. HandedOffOnBoth(t, e)
    BY <2>1, <2>3 DEF HandedOffOnBoth
  <2> QED  BY <1>1, <2>4 DEF PairStepShape
<1> QED  BY <1>2, <1>3

LEMMA AppendEventPairs ==
  ASSUME TypeOK, PairInv, NEW a \in Agents, AppendEvent(a), AppendOnBoth(AgentEvent(a, FALSE))
  PROVE  PairStepShape
<1>1. PICK b \in BOOLEAN : CommitAppend(AgentEvent(a, b))
  BY DEF AppendEvent
<1> DEFINE e == AgentEvent(a, b)
           m == AgentEvent(a, FALSE)
<1>2. e \in EventInput /\ CommitAppend(e) /\ UNCHANGED claims
  BY <1>1, AppendEventAppends DEF AppendEvent
<1>3. /\ e.kind = call[a].kind /\ e.key.op = "client"
      /\ m.kind = e.kind /\ m.task = e.task /\ m.key = e.key
  BY DEF AgentEvent, Body, Key
<1>4. call[a].kind \notin {"task_claimed", "task_unblocked", "task_handed_off"}
  BY CallTyped, StoreAssumption DEF AppendEvent
<1>5. Memory!AppendEvent(e.kind, e.task, e.key)
  BY <1>3 DEF AppendOnBoth
<1> HIDE DEF e, m
<1>6. Idle \/ AppendedOnBoth(e)
  BY <1>2, <1>3, <1>4, <1>5, AppendPairs DEF PairInv, SharedOps
<1> QED  BY <1>2, <1>6 DEF PairStepShape

LEMMA CreatePairs ==
  ASSUME TypeOK, PairInv, NEW t \in Tasks, CreateTask(t),
         Memory!CreateTask(t, Key("create", t, NoAgent, NoScope, 0))
  PROVE  PairStepShape
<1> DEFINE e == Body("task_created", t, NoAgent, Key("create", t, NoAgent, NoScope, 0))
<1>1. e \in EventInput /\ CommitAppend(e) /\ UNCHANGED claims
  BY SystemAppends DEF CreateTask
<1>2. e.kind = "task_created" /\ e.task = t /\ e.key.op = "create"
      /\ e.key = Key("create", t, NoAgent, NoScope, 0)
  BY DEF Body, Key
<1>3. columns[t] = "absent"
  BY DEF CreateTask, NoCard, PairInv, SameCards
<1> HIDE DEF e
<1>4. Memory!AppendEvent(e.kind, e.task, e.key)
  BY <1>2, <1>3 DEF Memory!CreateTask
<1>5. Idle \/ AppendedOnBoth(e)
  BY <1>1, <1>2, <1>4, AppendPairs DEF PairInv, SharedOps
<1> QED  BY <1>1, <1>5 DEF PairStepShape

LEMMA CancelPairs ==
  ASSUME TypeOK, PairInv, NEW t \in Tasks, CancelTask(t),
         AppendOnBoth(Body("task_cancelled", t, NoAgent, Key("cancel", t, NoAgent, NoScope, 0)))
  PROVE  PairStepShape
<1> DEFINE e == Body("task_cancelled", t, NoAgent, Key("cancel", t, NoAgent, NoScope, 0))
<1>1. e \in EventInput /\ CommitAppend(e) /\ UNCHANGED claims
  BY SystemAppends DEF CancelTask
<1>2. e.kind = "task_cancelled" /\ e.key.op = "cancel"
  BY DEF Body, Key
<1>3. Memory!AppendEvent(e.kind, e.task, e.key)
  BY DEF AppendOnBoth
<1> HIDE DEF e
<1>4. Idle \/ AppendedOnBoth(e)
  BY <1>1, <1>2, <1>3, AppendPairs DEF PairInv, SharedOps
<1> QED  BY <1>1, <1>4 DEF PairStepShape

LEMMA WebhookPairs ==
  ASSUME TypeOK, PairInv, NEW kind \in GithubKinds, NEW t \in Tasks, NEW n \in 1 .. MaxDeliveries,
         Webhook(kind, t, n),
         AppendOnBoth(Body(kind, t, NoAgent, Key("gh", NoTask, NoAgent, NoScope, n)))
  PROVE  PairStepShape
<1> DEFINE e == Body(kind, t, NoAgent, Key("gh", NoTask, NoAgent, NoScope, n))
<1>1. e \in EventInput /\ CommitAppend(e) /\ UNCHANGED claims
  BY SystemAppends DEF Webhook
<1>2. e.kind = kind /\ e.key.op = "gh"
  BY DEF Body, Key
<1>3. kind \notin {"task_claimed", "task_unblocked", "task_handed_off"}
  BY StoreAssumption
<1>4. Memory!AppendEvent(e.kind, e.task, e.key)
  BY DEF AppendOnBoth
<1> HIDE DEF e
<1>5. Idle \/ AppendedOnBoth(e)
  BY <1>1, <1>2, <1>3, <1>4, AppendPairs DEF PairInv, SharedOps
<1> QED  BY <1>1, <1>5 DEF PairStepShape

LEMMA ReapPairs ==
  ASSUME TypeOK, LedgerIntact, ClaimInv, PairInv, NEW t \in Tasks,
         ReapClaim(t), Memory!ReapClaim(t)
  PROVE  PairStepShape
<1>1. PICK e \in EventInput : Ended(t, e) /\ e.kind = "task_unblocked"
  BY ReapClaimEnds
<1>2. holders' = [holders EXCEPT ![t] = NoAgent] /\ UNCHANGED <<columns, keys>>
  BY DEF Memory!ReapClaim, Memory!ReleaseTask
<1>3. ReleasedOnBoth(t, e)
  BY <1>1, <1>2 DEF ReleasedOnBoth
<1> QED  BY <1>3 DEF PairStepShape

LEMMA HandoffByMemberPairs ==
  ASSUME TypeOK, LedgerIntact, ClaimInv, PairInv, NEW t \in Tasks,
         HandoffByMember(t), Memory!HandoffTask(t, claims[t].agent)
  PROVE  PairStepShape
<1>1. PICK e \in EventInput : Ended(t, e) /\ e.kind = "task_handed_off"
  BY HandoffByMemberEnds
<1>2. holders[t] = claims[t].agent /\ holders[t] # NoAgent
  BY HolderFacts DEF HandoffByMember
<1>3. /\ holders' = [holders EXCEPT ![t] = NoAgent]
      /\ columns' = [columns EXCEPT ![t] = Memory!Folded(@, "task_handed_off")]
      /\ UNCHANGED keys
  BY <1>2 DEF Memory!HandoffTask
<1>4. HandedOffOnBoth(t, e)
  BY <1>1, <1>3 DEF HandedOffOnBoth
<1> QED  BY <1>4 DEF PairStepShape

LEMMA PairStep ==
  ASSUME TypeOK, LedgerIntact, ClaimInv, PairInv, BothNext
  PROVE  PairStepShape
<1>1. ASSUME NEW a \in Agents, AgentCalls(a)
      PROVE  PairStepShape
  <2>1. CASE Gate(a) /\ UNCHANGED <<columns, holders, keys>>
    BY <2>1, GateTyped DEF storeVars, ledgerVars, Idle, PairStepShape
  <2>2. CASE FailCall(a) /\ UNCHANGED <<columns, holders, keys>>
    BY <2>2 DEF FailCall, storeVars, ledgerVars, Idle, PairStepShape
  <2> QED  BY <1>1, <2>1, <2>2, ClaimPairs, ReleasePairs, HandoffPairs, AppendEventPairs
           DEF AgentCalls
<1>2. ASSUME SystemCalls
      PROVE  PairStepShape
  BY <1>2, CreatePairs, ReapPairs, HandoffByMemberPairs, CancelPairs, WebhookPairs
     DEF SystemCalls
<1> QED  BY <1>1, <1>2 DEF BothNext

-----------------------------------------------------------------------------
(* What a step does to the invariant.                                      *)

LEMMA FoldedTyped ==
  ASSUME NEW column \in MemoryColumns, NEW kind
  PROVE  /\ Memory!Folded(column, kind) \in MemoryColumns
         /\ Memory!Folded(column, kind) = "absent" <=> column = "absent" /\ kind # "task_created"
BY DEF MemoryColumns, Columns, Memory!Folded, Memory!Fold, Memory!StatusAfterHandoff

LEMMA AbsentStays ==
  ASSUME NEW card \in Card, NEW e \in EventInput
  PROVE  Apply(card, e).status = "absent" <=> card.status = "absent" /\ e.kind # "task_created"
<1>1. card.status = "absent" /\ e.kind = "task_created" => Apply(card, e).status # "absent"
  BY DEF Apply, NewCard, NoCard
<1>2. card.status = "absent" /\ e.kind # "task_created" => Apply(card, e) = card
  BY DEF Apply
<1> QED  BY <1>1, <1>2, ApplyKeepsColumn

\* What a fresh append leaves: one new event and one card moved.
LEMMA FreshFacts ==
  ASSUME TypeOK, LedgerIntact, NEW e \in EventInput, AppendFresh(e)
  PROVE  /\ \E new \in events' \ events :
              /\ events' = events \cup {new}
              /\ new.key = e.key /\ new.kind = e.kind /\ new.task = e.task
         /\ e.task \in Tasks
         /\ \A t \in Tasks : tasks'[t] = IF t = e.task THEN Apply(tasks[t], e) ELSE tasks[t]
<1> DEFINE new == Stamped(e, counter + 1)
<1>1. counter \in Nat /\ events' = events \cup {new}
  BY DEF AppendFresh, TypeOK
<1>2. /\ new.seq = counter + 1 /\ new.key = e.key /\ new.kind = e.kind /\ new.task = e.task
  BY <1>1, StampedTyped
<1> HIDE DEF new
<1>3. new \notin events
  BY <1>1, <1>2 DEF LedgerIntact, SeqInRange
<1>4. e.task \in Tasks
  BY DEF EventInput
<1>5. \A t \in Tasks : tasks'[t] = IF t = e.task THEN Apply(tasks[t], e) ELSE tasks[t]
  BY <1>4 DEF AppendFresh, TypeOK
<1> QED  BY <1>1, <1>2, <1>3, <1>4, <1>5

\* A task that stays together has just made a shared move, or none.
LEMMA KeptTask ==
  ASSUME TypeOK, LedgerIntact, NEW e \in EventInput, AppendFresh(e), Keeps, NEW t \in together'
  PROVE  t \in together /\ (e.task = t => Shared(t, e.kind))
<1>1. PICK new \in events' \ events : new.kind = e.kind /\ new.task = e.task
  BY FreshFacts
<1>2. t \in together /\ \A d \in events' \ events : d.task = t => Shared(t, d.kind)
  BY DEF Keeps
<1> QED  BY <1>1, <1>2

LEMMA SharedMeans ==
  ASSUME NEW t, NEW kind, Shared(t, kind)
  PROVE  /\ kind \in {"task_claimed", "task_unblocked", "task_blocked", "task_completed",
                      "branch_pushed", "pr_opened", "merged"}
              => tasks[t].status \in SharedMoves[kind] \cup {"absent"}
         /\ kind \in {"task_created", "task_cancelled"} => claims[t] = NoClaim
<1>1. DOMAIN SharedMoves = {"task_claimed", "task_unblocked", "task_blocked", "task_completed",
                            "branch_pushed", "pr_opened", "merged"}
  BY DEF SharedMoves
<1>2. kind \in DOMAIN SharedMoves => tasks[t].status \in SharedMoves[kind] \cup {"absent"}
  BY <1>1 DEF Shared
<1>3. kind \in {"task_created", "task_cancelled"} => claims[t] = NoClaim
  BY <1>1 DEF Shared
<1> QED  BY <1>1, <1>2, <1>3

LEMMA PairTypedStep ==
  ASSUME MemoryTyped, PairStepShape, Keeps
  PROVE  MemoryTyped'
<1>1. together' \subseteq Tasks
  BY DEF Keeps, MemoryTyped
<1>2. CASE Idle
  BY <1>1, <1>2 DEF Idle, MemoryTyped
<1>3. ASSUME NEW e \in EventInput, AppendedOnBoth(e)
      PROVE  MemoryTyped'
  BY <1>1, <1>3, FoldedTyped DEF AppendedOnBoth, MemoryTyped
<1>4. ASSUME NEW t \in Tasks, NEW a \in Agents, NEW e \in EventInput, TakenOnBoth(t, a, e)
      PROVE  MemoryTyped'
  BY <1>1, <1>4 DEF TakenOnBoth, MemoryTyped
<1>5. ASSUME NEW t \in Tasks, NEW e \in EventInput, ReleasedOnBoth(t, e)
      PROVE  MemoryTyped'
  BY <1>1, <1>5 DEF ReleasedOnBoth, MemoryTyped
<1>6. ASSUME NEW t \in Tasks, NEW e \in EventInput, HandedOffOnBoth(t, e)
      PROVE  MemoryTyped'
  BY <1>1, <1>6, FoldedTyped DEF HandedOffOnBoth, MemoryTyped
<1> QED  BY <1>2, <1>3, <1>4, <1>5, <1>6 DEF PairStepShape

LEMMA SameKeysStep ==
  ASSUME TypeOK, LedgerIntact, SameKeys, PairStepShape
  PROVE  SameKeys'
<1>1. CASE Idle
  BY <1>1 DEF Idle, ledgerVars, SameKeys
<1>2. ASSUME NEW e \in EventInput, AppendFresh(e), UNCHANGED keys, e.key.op \notin SharedOps
      PROVE  SameKeys'
  <2>1. PICK new : events' = events \cup {new} /\ new.key = e.key
    BY <1>2, FreshFacts
  <2> QED  BY <1>2, <2>1 DEF SameKeys
<1>3. ASSUME NEW e \in EventInput, AppendedOnBoth(e)
      PROVE  SameKeys'
  <2>1. PICK new : events' = events \cup {new} /\ new.key = e.key
    BY <1>3, FreshFacts DEF AppendedOnBoth, Elsewhere
  <2>2. keys' = keys \cup {e.key} /\ e.key.op \in SharedOps
    BY <1>3 DEF AppendedOnBoth
  <2> QED  BY <2>1, <2>2 DEF SameKeys
<1>4. ASSUME NEW t \in Tasks, NEW a \in Agents, NEW e \in EventInput, TakenOnBoth(t, a, e)
      PROVE  SameKeys'
  BY <1>2, <1>4 DEF TakenOnBoth, Taken, SharedOps
<1>5. ASSUME NEW t \in Tasks, NEW e \in EventInput, ReleasedOnBoth(t, e) \/ HandedOffOnBoth(t, e)
      PROVE  SameKeys'
  BY <1>2, <1>5 DEF ReleasedOnBoth, HandedOffOnBoth, Ended, EndingOps, SharedOps
<1> QED  BY <1>1, <1>3, <1>4, <1>5 DEF PairStepShape

LEMMA SameCardsStep ==
  ASSUME TypeOK, LedgerIntact, MemoryTyped, SameCards, PairStepShape
  PROVE  SameCards'
<1> SUFFICES ASSUME NEW u \in Tasks
             PROVE  columns'[u] = "absent" <=> tasks'[u].status = "absent"
  BY DEF SameCards
<1>0. /\ columns[u] \in MemoryColumns /\ tasks[u] \in Card
      /\ columns[u] = "absent" <=> tasks[u].status = "absent"
  BY DEF MemoryTyped, TypeOK, SameCards
<1>1. CASE Idle
  BY <1>0, <1>1 DEF Idle, ledgerVars
<1>2. ASSUME NEW e \in EventInput, AppendFresh(e),
             \/ UNCHANGED columns /\ e.kind # "task_created"
             \/ columns' = [columns EXCEPT ![e.task] = Memory!Folded(@, e.kind)]
      PROVE  columns'[u] = "absent" <=> tasks'[u].status = "absent"
  <2>1. tasks'[u] = IF u = e.task THEN Apply(tasks[u], e) ELSE tasks[u]
    BY <1>2, FreshFacts
  <2>2. \/ UNCHANGED columns /\ e.kind # "task_created"
        \/ columns'[u] = IF u = e.task THEN Memory!Folded(columns[u], e.kind) ELSE columns[u]
    BY <1>2 DEF MemoryTyped
  <2>3. CASE u = e.task
    BY <1>0, <2>1, <2>2, <2>3, FoldedTyped, AbsentStays
  <2>4. CASE u # e.task
    BY <1>0, <2>1, <2>2, <2>4
  <2> QED  BY <2>3, <2>4
<1>3. ASSUME NEW e \in EventInput, AppendedOnBoth(e)
      PROVE  columns'[u] = "absent" <=> tasks'[u].status = "absent"
  BY <1>2, <1>3 DEF AppendedOnBoth, Elsewhere
<1>4. ASSUME NEW t \in Tasks, NEW a \in Agents, NEW e \in EventInput, TakenOnBoth(t, a, e)
      PROVE  columns'[u] = "absent" <=> tasks'[u].status = "absent"
  BY <1>2, <1>4 DEF TakenOnBoth, Taken
<1>5. ASSUME NEW t \in Tasks, NEW e \in EventInput, ReleasedOnBoth(t, e) \/ HandedOffOnBoth(t, e)
      PROVE  columns'[u] = "absent" <=> tasks'[u].status = "absent"
  BY <1>2, <1>5 DEF ReleasedOnBoth, HandedOffOnBoth, Ended
<1> QED  BY <1>1, <1>3, <1>4, <1>5 DEF PairStepShape

LEMMA HoldersStep ==
  ASSUME TypeOK, PairInv, PairStepShape, NEW u \in Tasks
  PROVE  holders'[u] = claims'[u].agent
<1>0. holders[u] = claims[u].agent
  BY DEF PairInv, StoresAgree
<1>1. CASE Idle
  BY <1>0, <1>1 DEF Idle
<1>2. ASSUME NEW e \in EventInput, AppendedOnBoth(e)
      PROVE  holders'[u] = claims'[u].agent
  BY <1>0, <1>2 DEF AppendedOnBoth, Elsewhere
<1>3. ASSUME NEW t \in Tasks, NEW a \in Agents, NEW e \in EventInput, TakenOnBoth(t, a, e)
      PROVE  holders'[u] = claims'[u].agent
  BY <1>0, <1>3 DEF TakenOnBoth, Taken, PairInv, MemoryTyped, TypeOK
<1>4. ASSUME NEW t \in Tasks, NEW e \in EventInput, ReleasedOnBoth(t, e) \/ HandedOffOnBoth(t, e)
      PROVE  holders'[u] = claims'[u].agent
  BY <1>0, <1>4 DEF ReleasedOnBoth, HandedOffOnBoth, Ended, PairInv, MemoryTyped, TypeOK, NoClaim
<1> QED  BY <1>1, <1>2, <1>3, <1>4 DEF PairStepShape

LEMMA AlikeStep ==
  ASSUME TypeOK, LedgerIntact, PairInv, PairStepShape, Keeps, NEW u \in together'
  PROVE  Alike(tasks'[u], columns'[u], holders'[u])
<1> DEFINE Goal == Alike(tasks'[u], columns'[u], holders'[u])
<1>0. u \in together
  BY DEF Keeps
<1>1. u \in Tasks /\ tasks[u] \in Card /\ columns[u] \in MemoryColumns
      /\ holders[u] \in Agents \cup {NoAgent}
  BY <1>0 DEF PairInv, MemoryTyped, TypeOK
<1>2. Alike(tasks[u], columns[u], holders[u])
  BY <1>0, AgreeIsAlike DEF PairInv
<1>3. claims[u] = NoClaim <=> holders[u] = NoAgent
  BY <1>1, HolderFacts
<1>4. CASE Idle
  BY <1>2, <1>4 DEF Idle, ledgerVars
<1>5. ASSUME NEW e \in EventInput, AppendedOnBoth(e)
      PROVE  Goal
  <2>1. AppendFresh(e) /\ UNCHANGED holders /\ e.kind # "task_claimed" /\ ~ReleasesClaim(e)
    BY <1>5 DEF AppendedOnBoth, Elsewhere
  <2>2. tasks'[u] = IF u = e.task THEN Apply(tasks[u], e) ELSE tasks[u]
    BY <1>1, <2>1, FreshFacts
  <2>3. columns'[u] = IF u = e.task THEN Memory!Folded(columns[u], e.kind) ELSE columns[u]
    BY <1>1, <1>5 DEF AppendedOnBoth, PairInv, MemoryTyped
  <2>4. CASE u # e.task
    BY <1>2, <2>1, <2>2, <2>3, <2>4
  <2>5. CASE u = e.task
    <3>1. Shared(u, e.kind)
      BY <2>1, <2>5, KeptTask
    <3>2. e.kind \in {"task_blocked", "task_completed", "branch_pushed", "pr_opened", "merged"}
            => tasks[u].status \in SharedMoves[e.kind] \cup {"absent"}
      BY <3>1, SharedMeans
    <3>3. e.kind \in {"task_created", "task_cancelled"} => holders[u] = NoAgent
      BY <1>3, <3>1, SharedMeans
    <3>4. Alike(Apply(tasks[u], e), Memory!Folded(columns[u], e.kind), holders[u])
      <4>1. CASE e.kind \in {"task_blocked", "task_completed", "branch_pushed", "pr_opened",
                             "merged"}
        BY <1>1, <1>2, <3>2, <4>1, ReportedAlike
      <4>2. CASE e.kind = "task_created"
        BY <1>1, <1>2, <3>3, <4>2, CreatedAlike
      <4>3. CASE e.kind = "task_cancelled"
        BY <1>1, <1>2, <3>3, <4>3, CancelledAlike
      <4>4. CASE e.kind \in {"ci_passed", "ci_failed"} \cup LockKinds \cup HumanKinds
        BY <1>1, <1>2, <4>4, QuietAlike
      <4>5. e.kind \in Kinds
        BY DEF EventInput
      <4> QED  BY <2>1, <4>1, <4>2, <4>3, <4>4, <4>5 DEF Kinds, BoardKinds, ReleasesClaim
    <3> QED  BY <2>1, <2>2, <2>3, <2>5, <3>4
  <2> QED  BY <2>4, <2>5
<1>6. ASSUME NEW t \in Tasks, NEW a \in Agents, NEW e \in EventInput, TakenOnBoth(t, a, e)
      PROVE  Goal
  <2>1. AppendFresh(e) /\ e.task = t /\ e.kind = "task_claimed" /\ e.agent = a
        /\ claims[t] = NoClaim /\ UNCHANGED columns
    BY <1>6 DEF TakenOnBoth, Taken
  <2>2. tasks'[u] = IF u = t THEN Apply(tasks[u], e) ELSE tasks[u]
    BY <1>1, <2>1, FreshFacts
  <2>3. holders'[u] = IF u = t THEN a ELSE holders[u]
    BY <1>1, <1>6 DEF TakenOnBoth, PairInv, MemoryTyped
  <2>4. CASE u # t
    BY <1>2, <2>1, <2>2, <2>3, <2>4
  <2>5. CASE u = t
    <3>1. tasks[u].status \in {"open", "absent"}
      BY <2>1, <2>5, KeptTask, SharedMeans DEF SharedMoves
    <3>2. Alike(tasks[u], columns[u], NoAgent)
      BY <1>2, <1>3, <2>1, <2>5
    <3>3. Alike(Apply(tasks[u], e), columns[u], a)
      BY <1>1, <2>1, <3>1, <3>2, TakenAlike
    <3> QED  BY <2>1, <2>2, <2>3, <2>5, <3>3
  <2> QED  BY <2>4, <2>5
<1>7. ASSUME NEW t \in Tasks, NEW e \in EventInput, ReleasedOnBoth(t, e) \/ HandedOffOnBoth(t, e)
      PROVE  Goal
  <2>1. AppendFresh(e) /\ e.task = t /\ claims[t] # NoClaim
    BY <1>7 DEF ReleasedOnBoth, HandedOffOnBoth, Ended
  <2>2. tasks'[u] = IF u = t THEN Apply(tasks[u], e) ELSE tasks[u]
    BY <1>1, <2>1, FreshFacts
  <2>3. holders'[u] = IF u = t THEN NoAgent ELSE holders[u]
    BY <1>1, <1>7 DEF ReleasedOnBoth, HandedOffOnBoth, PairInv, MemoryTyped
  <2>4. columns'[u] = IF u = t /\ e.kind = "task_handed_off"
                        THEN Memory!Folded(columns[u], e.kind) ELSE columns[u]
    BY <1>1, <1>7 DEF ReleasedOnBoth, HandedOffOnBoth, PairInv, MemoryTyped
  <2>5. CASE u # t
    BY <1>2, <2>2, <2>3, <2>4, <2>5
  <2>6. CASE u = t
    <3>1. holders[u] \in Agents
      BY <1>1, <1>3, <2>1, <2>6
    <3>2. CASE e.kind = "task_handed_off"
      <4>1. Alike(Apply(tasks[u], e), Memory!Folded(columns[u], e.kind), NoAgent)
        BY <1>1, <1>2, <3>1, <3>2, HandedOffAlike
      <4> QED  BY <2>2, <2>3, <2>4, <2>6, <3>2, <4>1
    <3>3. CASE e.kind = "task_unblocked"
      <4>1. tasks[u].status \in {"claimed", "absent"}
        BY <2>1, <2>6, <3>3, KeptTask, SharedMeans DEF SharedMoves
      <4>2. Alike(Apply(tasks[u], e), columns[u], NoAgent)
        BY <1>1, <1>2, <3>1, <3>3, <4>1, ReleasedAlike
      <4> QED  BY <2>2, <2>3, <2>4, <2>6, <3>3, <4>2
    <3> QED  BY <1>7, <3>2, <3>3 DEF ReleasedOnBoth, HandedOffOnBoth
  <2> QED  BY <2>5, <2>6
<1> QED  BY <1>4, <1>5, <1>6, <1>7 DEF PairStepShape

-----------------------------------------------------------------------------
LEMMA PairInvariant == BothSpec => []PairInv
<1>1. BothInit => PairInv
  <2> SUFFICES ASSUME BothInit PROVE PairInv
    OBVIOUS
  <2>1. /\ columns = [t \in Tasks |-> "absent"] /\ holders = [t \in Tasks |-> NoAgent]
        /\ keys = {} /\ together = Tasks /\ events = {}
        /\ \A t \in Tasks : tasks[t] = NoCard /\ claims[t] = NoClaim
    BY DEF BothInit, Init, Memory!Init
  <2>2. MemoryTyped
    BY <2>1 DEF MemoryTyped, MemoryColumns
  <2>3. SameKeys /\ SameCards
    BY <2>1 DEF SameKeys, SameCards, NoCard
  <2>4. StoresAgree
    BY <2>1, AgreeIsAlike DEF Alike, NoCard, NoClaim
  <2> QED  BY <2>2, <2>3, <2>4 DEF PairInv
<1>2. TypeOK /\ LedgerIntact /\ ClaimInv /\ PairInv /\ [BothNext]_both => PairInv'
  <2> SUFFICES ASSUME TypeOK, LedgerIntact, ClaimInv, PairInv, [BothNext]_both
               PROVE  PairInv'
    OBVIOUS
  <2>1. CASE UNCHANGED both
    BY <2>1 DEF both, vars, PairInv, MemoryTyped, SameKeys, SameCards, StoresAgree, Memory!Shown
  <2>2. CASE BothNext
    <3>1. PairStepShape /\ Keeps
      BY <2>2, PairStep DEF BothNext
    <3>2. MemoryTyped' /\ SameKeys' /\ SameCards'
      BY <3>1, PairTypedStep, SameKeysStep, SameCardsStep DEF PairInv
    <3>3. \A t \in Tasks : holders'[t] = claims'[t].agent
      BY <3>1, HoldersStep
    <3>4. \A t \in together' : Alike(tasks'[t], columns'[t], holders'[t])
      BY <3>1, AlikeStep
    <3>5. StoresAgree'
      BY <3>3, <3>4 DEF StoresAgree, Alike, Memory!Shown
    <3> QED  BY <3>2, <3>5 DEF PairInv
  <2> QED  BY <2>1, <2>2
<1> QED  BY <1>1, <1>2, PairIsStore, TypeCorrect, LedgerCorrect, ClaimInvariant, PTL DEF BothSpec

(* The double is a fair one: the two stores agree on who holds which       *)
(* claim whatever the calls, and on the column and owner of every task     *)
(* that has only made moves both folds make.                               *)
THEOREM StoresAlwaysAgree == BothSpec => []StoresAgree
BY PairInvariant, PTL DEF PairInv
=============================================================================
