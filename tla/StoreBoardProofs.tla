--------------------------- MODULE StoreBoardProofs ---------------------------
(***************************************************************************)
(* Proofs about what the store's users see: claims against the ledger and  *)
(* the cards; scope locks, their mutual exclusion down to the paths they   *)
(* cover, their cap and their agreement with the ledger; and that the      *)
(* whole store implements the board its users know.                        *)
(*                                                                         *)
(* None of the claim properties is inductive alone.  A release deletes the *)
(* claim document whether or not its append was a duplicate, so the card   *)
(* is opened only if the release event's key is fresh; the key is fresh    *)
(* because it names the claim's own time and every recorded release of     *)
(* that task comes before the claim in force.  The invariant is therefore  *)
(* the conjunction ClaimInv, on top of type correctness and an intact      *)
(* ledger.                                                                 *)
(***************************************************************************)
EXTENDS StoreProofs, GlobProofs

ClaimInv == ClaimKeysNameClaims /\ ClaimMatchesLedger /\ ClaimedCardIsHeld /\ OpenCardIsFree

\* The keys of the events that end a claim.
EndingOps == {"release", "reap", "handoff"}

-----------------------------------------------------------------------------
(* The four ways a step can look to the claims.                            *)

Taken(t, a, e) ==
  /\ AppendFresh(e)
  /\ claims[t] = NoClaim
  /\ claims' = [claims EXCEPT ![t] = [agent |-> a, at |-> counter + 1]]
  /\ e.kind = "task_claimed" /\ e.task = t /\ e.agent = a
  /\ e.key.op = "claim" /\ e.key.at = counter + 1

Ended(t, e) ==
  /\ AppendFresh(e)
  /\ claims[t] # NoClaim
  /\ claims' = [claims EXCEPT ![t] = NoClaim]
  /\ ReleasesClaim(e) /\ e.task = t
  /\ e.key.op \in EndingOps /\ e.key.task = t /\ e.key.at = claims[t].at

Elsewhere(e) ==
  /\ AppendFresh(e)
  /\ UNCHANGED claims
  /\ e.kind # "task_claimed" /\ ~ReleasesClaim(e)
  /\ e.key.op # "claim" /\ e.key.op \notin EndingOps

ClaimStepShape ==
  \/ UNCHANGED ledgerVars /\ UNCHANGED claims
  \/ \E e \in EventInput : Elsewhere(e)
  \/ \E t \in Tasks, a \in Agents, e \in EventInput : Taken(t, a, e)
  \/ \E t \in Tasks, e \in EventInput : Ended(t, e)

\* A fresh key for every claim: the time it names is not yet on the ledger.
LEMMA ClaimKeyFresh ==
  ASSUME TypeOK, LedgerIntact, ClaimInv, NEW key, key.op = "claim", key.at = counter + 1
  PROVE  ~Recorded(key)
<1>1. \A e \in events : e.seq \in 1 .. counter
  BY DEF LedgerIntact, SeqInRange
<1> QED  BY <1>1 DEF Recorded, ClaimInv, ClaimKeysNameClaims, TypeOK

\* A fresh key for every end of a claim: no recorded one names the claim in force.
LEMMA EndKeyFresh ==
  ASSUME TypeOK, LedgerIntact, ClaimInv, NEW t \in Tasks, claims[t] # NoClaim,
         NEW key, key.op \in EndingOps, key.task = t, key.at = claims[t].at
  PROVE  ~Recorded(key)
<1> SUFFICES ASSUME NEW d \in events, d.key = key PROVE FALSE
  BY DEF Recorded
<1>1. ReleasesClaim(d) /\ d.task = t /\ claims[t].at < d.seq
  BY DEF ClaimInv, ClaimKeysNameClaims, EndingOps
<1>2. PICK e \in events : ClaimInForce(t, e) /\ e.seq = claims[t].at
  BY DEF ClaimInv, ClaimMatchesLedger
<1>3. d.seq < e.seq
  BY <1>1, <1>2 DEF ClaimInForce
<1>4. d.seq \in Nat /\ e.seq \in Nat
  BY DEF TypeOK, Event
<1> QED  BY <1>1, <1>2, <1>3, <1>4

LEMMA KeyFields ==
  ASSUME NEW op, NEW t, NEW a, NEW g, NEW n
  PROVE  /\ Key(op, t, a, g, n).op = op
         /\ Key(op, t, a, g, n).task = t
         /\ Key(op, t, a, g, n).at = n
BY DEF Key

LEMMA BodyFields ==
  ASSUME NEW kind, NEW t, NEW a, NEW key
  PROVE  /\ Body(kind, t, a, key).kind = kind
         /\ Body(kind, t, a, key).task = t
         /\ Body(kind, t, a, key).agent = a
         /\ Body(kind, t, a, key).key = key
BY DEF Body

\* An append of any other kind, under any other key.
LEMMA ElsewhereStep ==
  ASSUME NEW e \in EventInput, CommitAppend(e), UNCHANGED claims,
         e.kind \notin {"task_claimed", "task_unblocked", "task_handed_off"},
         e.key.op \notin {"claim"} \cup EndingOps
  PROVE  ClaimStepShape
<1>1. CASE AppendDuplicate(e)
  BY <1>1 DEF AppendDuplicate, ClaimStepShape
<1>2. CASE AppendFresh(e)
  BY <1>2 DEF Elsewhere, ReleasesClaim, ClaimStepShape
<1> QED  BY <1>1, <1>2 DEF CommitAppend

LEMMA EndingAppends ==
  ASSUME TypeOK, LedgerIntact, ClaimInv, NEW t \in Tasks, NEW e \in EventInput,
         claims[t] # NoClaim, CommitAppend(e), claims' = [claims EXCEPT ![t] = NoClaim],
         ReleasesClaim(e), e.task = t,
         e.key.op \in EndingOps, e.key.task = t, e.key.at = claims[t].at
  PROVE  Ended(t, e)
<1>1. ~Recorded(e.key)
  BY EndKeyFresh
<1>2. AppendFresh(e)
  BY <1>1 DEF CommitAppend, AppendDuplicate
<1> QED  BY <1>2 DEF Ended

(* The transactions that take and end a claim, one by one.                 *)

LEMMA ClaimFreeTakes ==
  ASSUME TypeOK, LedgerIntact, ClaimInv, NEW a \in Agents, ClaimFree(a)
  PROVE  call[a].task \in Tasks /\ \E e \in EventInput : Taken(call[a].task, a, e)
<1> DEFINE key == Key("claim", call[a].task, a, NoScope, counter + 1)
           e   == Body("task_claimed", call[a].task, a, key)
<1>1. e \in EventInput /\ CommitAppend(e) /\ call[a].task \in Tasks
  BY ClaimFreeAppends, CallTyped DEF ClaimFree
<1>2. key.op = "claim" /\ key.at = counter + 1
  BY KeyFields
<1>3. e.kind = "task_claimed" /\ e.task = call[a].task /\ e.agent = a /\ e.key = key
  BY BodyFields
<1> HIDE DEF e, key
<1>4. ~Recorded(e.key)
  BY <1>2, <1>3, ClaimKeyFresh
<1>5. AppendFresh(e)
  BY <1>1, <1>4 DEF CommitAppend, AppendDuplicate
<1>6. Taken(call[a].task, a, e)
  BY <1>2, <1>3, <1>5 DEF ClaimFree, Taken
<1> QED  BY <1>1, <1>6

LEMMA ReleaseHeldEnds ==
  ASSUME TypeOK, LedgerIntact, ClaimInv, NEW a \in Agents, ReleaseHeld(a)
  PROVE  /\ call[a].task \in Tasks
         /\ \E e \in EventInput : Ended(call[a].task, e) /\ e.kind = "task_unblocked"
<1> DEFINE t == call[a].task
           e == Body("task_unblocked", t, NoAgent, Key("release", t, a, NoScope, claims[t].at))
<1>1. e \in EventInput /\ CommitAppend(e) /\ t \in Tasks /\ claims' = [claims EXCEPT ![t] = NoClaim]
  BY ReleaseHeldAppends, CallTyped DEF ReleaseHeld
<1>2. claims[t] # NoClaim
  BY NoAgentAssumption DEF ReleaseHeld, NoClaim
<1>3. e.kind = "task_unblocked" /\ ReleasesClaim(e) /\ e.task = t
  BY BodyFields DEF ReleasesClaim
<1>4. e.key.op \in EndingOps /\ e.key.task = t /\ e.key.at = claims[t].at
  BY BodyFields, KeyFields DEF EndingOps
<1> HIDE DEF e, t
<1>5. Ended(t, e)
  BY <1>1, <1>2, <1>3, <1>4, EndingAppends
<1> QED  BY <1>1, <1>3, <1>5 DEF t

LEMMA HandoffHeldEnds ==
  ASSUME TypeOK, LedgerIntact, ClaimInv, NEW a \in Agents, HandoffHeld(a)
  PROVE  /\ call[a].task \in Tasks
         /\ \E e \in EventInput : Ended(call[a].task, e) /\ e.kind = "task_handed_off"
<1> DEFINE t == call[a].task
           e == Body("task_handed_off", t, NoAgent,
                     Key("handoff", t, call[a].holder, NoScope, claims[t].at))
<1>1. e \in EventInput /\ CommitAppend(e) /\ t \in Tasks /\ claims' = [claims EXCEPT ![t] = NoClaim]
  BY HandoffHeldAppends, CallTyped DEF HandoffHeld
<1>2. claims[t] # NoClaim
  <2>1. call[a].holder \in Agents /\ claims[t].agent = call[a].holder
    BY CallTyped DEF HandoffHeld
  <2> QED  BY <2>1, NoAgentAssumption DEF NoClaim
<1>3. e.kind = "task_handed_off" /\ ReleasesClaim(e) /\ e.task = t
  BY BodyFields DEF ReleasesClaim
<1>4. e.key.op \in EndingOps /\ e.key.task = t /\ e.key.at = claims[t].at
  BY BodyFields, KeyFields DEF EndingOps
<1> HIDE DEF e, t
<1>5. Ended(t, e)
  BY <1>1, <1>2, <1>3, <1>4, EndingAppends
<1> QED  BY <1>1, <1>3, <1>5 DEF t

LEMMA ReapClaimEnds ==
  ASSUME TypeOK, LedgerIntact, ClaimInv, NEW t \in Tasks, ReapClaim(t)
  PROVE  \E e \in EventInput : Ended(t, e) /\ e.kind = "task_unblocked"
<1> DEFINE e == Body("task_unblocked", t, NoAgent,
                     Key("reap", t, claims[t].agent, NoScope, claims[t].at))
<1>1. e \in EventInput /\ CommitAppend(e) /\ claims' = [claims EXCEPT ![t] = NoClaim]
      /\ claims[t] # NoClaim
  BY SystemAppends DEF ReapClaim
<1>2. e.kind = "task_unblocked" /\ ReleasesClaim(e) /\ e.task = t
  BY BodyFields DEF ReleasesClaim
<1>3. e.key.op \in EndingOps /\ e.key.task = t /\ e.key.at = claims[t].at
  BY BodyFields, KeyFields DEF EndingOps
<1> HIDE DEF e
<1> QED  BY <1>1, <1>2, <1>3, EndingAppends

LEMMA HandoffByMemberEnds ==
  ASSUME TypeOK, LedgerIntact, ClaimInv, NEW t \in Tasks, HandoffByMember(t)
  PROVE  \E e \in EventInput : Ended(t, e) /\ e.kind = "task_handed_off"
<1> DEFINE e == Body("task_handed_off", t, NoAgent,
                     Key("handoff", t, claims[t].agent, NoScope, claims[t].at))
<1>1. e \in EventInput /\ CommitAppend(e) /\ claims' = [claims EXCEPT ![t] = NoClaim]
      /\ claims[t] # NoClaim
  BY SystemAppends DEF HandoffByMember
<1>2. e.kind = "task_handed_off" /\ ReleasesClaim(e) /\ e.task = t
  BY BodyFields DEF ReleasesClaim
<1>3. e.key.op \in EndingOps /\ e.key.task = t /\ e.key.at = claims[t].at
  BY BodyFields, KeyFields DEF EndingOps
<1> HIDE DEF e
<1> QED  BY <1>1, <1>2, <1>3, EndingAppends

LEMMA ClaimStep ==
  ASSUME TypeOK, LedgerIntact, ClaimInv, Next
  PROVE  ClaimStepShape
<1>0. UNCHANGED storeVars => ClaimStepShape
  BY DEF storeVars, ledgerVars, ClaimStepShape
<1>1. ASSUME NEW a \in Agents, Gate(a)
      PROVE  ClaimStepShape
  BY <1>0, <1>1, GateTyped
<1>2. ASSUME NEW a \in Agents, ClaimFree(a) \/ ReleaseHeld(a) \/ HandoffHeld(a)
      PROVE  ClaimStepShape
  BY <1>2, ClaimFreeTakes, ReleaseHeldEnds, HandoffHeldEnds DEF ClaimStepShape
<1>3. ASSUME NEW t \in Tasks, ReapClaim(t) \/ HandoffByMember(t)
      PROVE  ClaimStepShape
  BY <1>3, ReapClaimEnds, HandoffByMemberEnds DEF ClaimStepShape
<1>4. ASSUME NEW a \in Agents, AppendEvent(a)
      PROVE  ClaimStepShape
  <2>1. PICK b \in BOOLEAN : CommitAppend(AgentEvent(a, b))
    BY <1>4 DEF AppendEvent
  <2> DEFINE e == AgentEvent(a, b)
  <2>2. e \in EventInput
    BY <1>4, AppendEventAppends
  <2>3. e.kind = call[a].kind /\ e.key.op = "client"
    BY DEF AgentEvent, Body, Key
  <2>4. call[a].kind \notin {"task_claimed", "task_unblocked", "task_handed_off"}
    BY <1>4, CallTyped, StoreAssumption DEF AppendEvent
  <2>5. UNCHANGED claims /\ CommitAppend(e)
    BY <1>4, <2>1 DEF AppendEvent
  <2> HIDE DEF e
  <2> QED  BY <2>2, <2>3, <2>4, <2>5, ElsewhereStep DEF EndingOps
<1>5. ASSUME NEW a \in Agents, AcquireGranted(a)
      PROVE  ClaimStepShape
  <2> DEFINE e == [Body("scope_locked", call[a].task, a,
                        Key("scope", call[a].task, a, call[a].globs, 0))
                   EXCEPT !.globs = call[a].globs]
  <2>1. e \in EventInput /\ CommitAppend(e) /\ UNCHANGED claims
    BY <1>5, AcquireGrantedAppends DEF AcquireGranted
  <2>2. e.kind = "scope_locked" /\ e.key.op = "scope"
    BY DEF Body, Key
  <2> HIDE DEF e
  <2> QED  BY <2>1, <2>2, ElsewhereStep DEF EndingOps
<1>6. ASSUME NEW a \in Agents, ReleaseScopeHeld(a) \/ ReleaseScopeFor(a)
      PROVE  ClaimStepShape
  <2> DEFINE e == Body("scope_released", locks[a].task, a,
                       Key("unscope", locks[a].task, a, NoScope, locks[a].at))
  <2>1. e \in EventInput /\ CommitAppend(e) /\ UNCHANGED claims
    BY <1>6, ScopeReleaseAppends DEF ReleaseScopeHeld, ReleaseScopeFor
  <2>2. e.kind = "scope_released" /\ e.key.op = "unscope"
    BY DEF Body, Key
  <2> HIDE DEF e
  <2> QED  BY <2>1, <2>2, ElsewhereStep DEF EndingOps
<1>7. ASSUME NEW t \in Tasks, CreateTask(t)
      PROVE  ClaimStepShape
  <2> DEFINE e == Body("task_created", t, NoAgent, Key("create", t, NoAgent, NoScope, 0))
  <2>1. e \in EventInput /\ CommitAppend(e) /\ UNCHANGED claims
    BY <1>7, SystemAppends DEF CreateTask
  <2>2. e.kind = "task_created" /\ e.key.op = "create"
    BY DEF Body, Key
  <2> HIDE DEF e
  <2> QED  BY <2>1, <2>2, ElsewhereStep DEF EndingOps
<1>8. ASSUME NEW t \in Tasks, CancelTask(t)
       PROVE  ClaimStepShape
  <2> DEFINE e == Body("task_cancelled", t, NoAgent, Key("cancel", t, NoAgent, NoScope, 0))
  <2>1. e \in EventInput /\ CommitAppend(e) /\ UNCHANGED claims
    BY <1>8, SystemAppends DEF CancelTask
  <2>2. e.kind = "task_cancelled" /\ e.key.op = "cancel"
    BY DEF Body, Key
  <2> HIDE DEF e
  <2> QED  BY <2>1, <2>2, ElsewhereStep DEF EndingOps
<1>9. ASSUME NEW kind \in GithubKinds, NEW t \in Tasks, NEW n \in 1 .. MaxDeliveries,
              Webhook(kind, t, n)
       PROVE  ClaimStepShape
  <2> DEFINE e == Body(kind, t, NoAgent, Key("gh", NoTask, NoAgent, NoScope, n))
  <2>1. e \in EventInput /\ CommitAppend(e) /\ UNCHANGED claims
    BY <1>9, SystemAppends DEF Webhook
  <2>2. e.kind = kind /\ e.key.op = "gh"
    BY DEF Body, Key
  <2>3. kind \notin {"task_claimed", "task_unblocked", "task_handed_off"}
    BY StoreAssumption
  <2> HIDE DEF e
  <2> QED  BY <2>1, <2>2, <2>3, ElsewhereStep DEF EndingOps
<1>10. ASSUME NEW a \in Agents, Transact(a) \/ FailCall(a)
       PROVE  ClaimStepShape
  <2>1. CASE ClaimHeld(a) \/ ReleaseNotHeld(a) \/ HandoffRefused(a) \/ AcquireBusy(a)
             \/ AcquireRefused(a) \/ ReleaseScopeNone(a) \/ FailCall(a)
    BY <2>1, <1>0 DEF ClaimHeld, ReleaseNotHeld, HandoffRefused, AcquireBusy, AcquireRefused,
                      ReleaseScopeNone, FailCall
  <2> QED  BY <1>2, <1>4, <1>5, <1>6, <1>10, <2>1 DEF Transact
<1>11. ASSUME NEW a \in Revocable, NEW on \in BOOLEAN, SetRevoked(a, on)
       PROVE  ClaimStepShape
  BY <1>0, <1>11 DEF SetRevoked
<1> QED  BY <1>1, <1>3, <1>6, <1>7, <1>8, <1>9, <1>10, <1>11 DEF Next, System

-----------------------------------------------------------------------------
(* What the fold does to a card, as far as claims go.                      *)

LEMMA ClaimedCanOpen == CanMove("claimed", "open") /\ CanMove("open", "claimed")
BY DEF CanMove, Transitions

\* No other event moves a card to claimed, or to open except by creating it.
LEMMA ElsewhereCard ==
  ASSUME NEW card \in Card, NEW e \in EventInput,
         e.kind # "task_claimed", ~ReleasesClaim(e)
  PROVE  /\ Apply(card, e).status = "claimed" =>
              card.status = "claimed" /\ Apply(card, e).claimed_by = card.claimed_by
         /\ Apply(card, e).status = "open" => card.status = "open" \/ e.kind = "task_created"
<1>1. CASE card.status = "absent"
  BY <1>1 DEF Apply, NewCard, NoCard
<1>2. CASE card.status # "absent"
  <2>1. Apply(card, e) = ApplyToCard(card, e)
    BY <1>2 DEF Apply
  <2>2. ASSUME NEW to \in Columns \ {"claimed", "open"}, NEW patched \in Card
        PROVE  /\ Move(card, to, patched) = card
                  \/ Move(card, to, patched).status \notin {"claimed", "open"}
    BY DEF Move, Card
  <2>3. {"blocked", "needs_review", "done", "cancelled", "in_progress", "pr_open", "merged"}
          \subseteq Columns \ {"claimed", "open"}
    BY DEF Columns
  <2>4. e.blocker \in BOOLEAN
    BY DEF EventInput
  <2>5. CASE e.kind = "task_blocked"
    <3>1. [card EXCEPT !.blocker = e.blocker] \in Card
      BY <2>4 DEF Card
    <3> QED  BY <2>1, <2>2, <2>3, <2>5, <3>1 DEF ApplyToCard
  <2>6. CASE e.kind = "task_cancelled"
    <3>1. [card EXCEPT !.claimed_by = NoAgent] \in Card
      BY DEF Card
    <3> QED  BY <2>1, <2>2, <2>3, <2>6, <3>1 DEF ApplyToCard
  <2>7. CASE e.kind \in {"task_completed", "branch_pushed", "pr_opened", "merged"}
    BY <2>1, <2>2, <2>3, <2>7 DEF ApplyToCard
  <2>8. CASE e.kind \in {"ci_passed", "ci_failed"}
    BY <2>1, <2>8 DEF ApplyToCard, Card
  <2>9. CASE e.kind \notin {"task_blocked", "task_cancelled", "task_completed", "branch_pushed",
                            "pr_opened", "merged", "ci_passed", "ci_failed"}
    BY <2>1, <2>9 DEF ApplyToCard, ReleasesClaim
  <2> QED  BY <2>5, <2>6, <2>7, <2>8, <2>9
<1> QED  BY <1>1, <1>2

\* A task_claimed never leaves a card open, and its agent owns the card it claims.
LEMMA TakenCard ==
  ASSUME NEW card \in Card, NEW e \in EventInput, e.kind = "task_claimed",
         card.status # "claimed"
  PROVE  /\ Apply(card, e).status = "claimed" => Apply(card, e).claimed_by = e.agent
         /\ Apply(card, e).status # "open"
<1>1. CASE card.status = "absent"
  BY <1>1 DEF Apply
<1>2. CASE card.status # "absent"
  <2>1. Apply(card, e) = Move(card, "claimed", [card EXCEPT !.claimed_by = e.agent])
    BY <1>2 DEF Apply, ApplyToCard
  <2>2. CASE CanMove(card.status, "claimed")
    BY <2>1, <2>2 DEF Move, Card
  <2>3. CASE ~CanMove(card.status, "claimed")
    BY <2>1, <2>3, ClaimedCanOpen DEF Move
  <2> QED  BY <2>2, <2>3
<1> QED  BY <1>1, <1>2

\* The end of a claim never leaves a card claimed.
LEMMA EndedCard ==
  ASSUME NEW card \in Card, NEW e \in EventInput, ReleasesClaim(e)
  PROVE  Apply(card, e).status # "claimed"
<1>1. CASE card.status = "absent"
  BY <1>1 DEF Apply, ReleasesClaim
<1>2. CASE card.status # "absent" /\ e.kind = "task_unblocked"
  <2>1. Apply(card, e)
          = Move(card, "open", [card EXCEPT !.claimed_by = NoAgent, !.blocker = FALSE])
    BY <1>2 DEF Apply, ApplyToCard
  <2>2. CASE CanMove(card.status, "open")
    BY <2>1, <2>2 DEF Move, Card
  <2>3. CASE ~CanMove(card.status, "open")
    BY <2>1, <2>3, ClaimedCanOpen DEF Move
  <2> QED  BY <2>2, <2>3
<1>3. CASE card.status # "absent" /\ e.kind = "task_handed_off"
  BY <1>3 DEF Apply, ApplyToCard, StatusAfterHandoff, Card
<1> QED  BY <1>1, <1>2, <1>3 DEF ReleasesClaim

-----------------------------------------------------------------------------
(* The invariant is inductive.                                             *)

\* The ledger around an append: e becomes the event new, after all others.
Appended(e, new) ==
  /\ counter \in Nat /\ counter' = counter + 1
  /\ events' = events \cup {new}
  /\ new.seq = counter + 1 /\ new.key = e.key /\ new.kind = e.kind
  /\ new.task = e.task /\ new.agent = e.agent
  /\ \A d \in events : d.seq \in 1 .. counter

LEMMA AppendedFacts ==
  ASSUME TypeOK, LedgerIntact, NEW e \in EventInput, AppendFresh(e)
  PROVE  Appended(e, Stamped(e, counter + 1))
<1>1. counter \in Nat /\ counter + 1 \in Nat
  BY DEF TypeOK
<1> QED  BY <1>1, StampedTyped DEF AppendFresh, Appended, LedgerIntact, SeqInRange

LEMMA KeysStep ==
  ASSUME TypeOK, LedgerIntact, ClaimInv, ClaimStepShape
  PROVE  ClaimKeysNameClaims'
<1>1. CASE UNCHANGED ledgerVars
  BY <1>1 DEF ledgerVars, ClaimInv, ClaimKeysNameClaims, ReleasesClaim
<1>2. ASSUME NEW e \in EventInput, AppendFresh(e),
             e.key.op = "claim" => e.key.at = counter + 1,
             e.key.op \in EndingOps => /\ ReleasesClaim(e) /\ e.key.task = e.task
                                       /\ e.key.at < counter + 1
      PROVE  ClaimKeysNameClaims'
  <2>1. Appended(e, Stamped(e, counter + 1))
    BY <1>2, AppendedFacts
  <2> QED  BY <1>2, <2>1
           DEF Appended, ClaimInv, ClaimKeysNameClaims, EndingOps, ReleasesClaim
<1>3. ASSUME NEW t \in Tasks, claims[t] # NoClaim
      PROVE  claims[t].at < counter + 1
  BY <1>3 DEF ClaimInv, ClaimMatchesLedger, LedgerIntact, SeqInRange, TypeOK
<1>4. ASSUME NEW e \in EventInput, Elsewhere(e)
      PROVE  ClaimKeysNameClaims'
  BY <1>2, <1>4 DEF Elsewhere
<1>5. ASSUME NEW t \in Tasks, NEW a \in Agents, NEW e \in EventInput, Taken(t, a, e)
      PROVE  ClaimKeysNameClaims'
  BY <1>2, <1>5 DEF Taken, EndingOps
<1>6. ASSUME NEW t \in Tasks, NEW e \in EventInput, Ended(t, e)
      PROVE  ClaimKeysNameClaims'
  BY <1>2, <1>3, <1>6 DEF Ended, EndingOps
<1> QED  BY <1>1, <1>4, <1>5, <1>6 DEF ClaimStepShape

LEMMA MatchStep ==
  ASSUME TypeOK, LedgerIntact, ClaimInv, ClaimStepShape
  PROVE  ClaimMatchesLedger'
<1>1. CASE UNCHANGED ledgerVars /\ UNCHANGED claims
  BY <1>1 DEF ledgerVars, ClaimInv, ClaimMatchesLedger, ClaimInForce, ReleasesClaim
<1> SUFFICES ASSUME NEW e \in EventInput, AppendFresh(e), NEW u \in Tasks,
                    \/ Elsewhere(e)
                    \/ \E t \in Tasks, a \in Agents : Taken(t, a, e)
                    \/ \E t \in Tasks : Ended(t, e)
             PROVE  /\ claims'[u] # NoClaim =>
                         \E d \in events' : ClaimInForce(u, d)' /\ d.seq = claims'[u].at
                    /\ \A d \in events' :
                         ClaimInForce(u, d)' => claims'[u] = [agent |-> d.agent, at |-> d.seq]
  BY <1>1 DEF ClaimStepShape, ClaimMatchesLedger, Elsewhere, Taken, Ended
<1>2. PICK new : Appended(e, new)
  BY AppendedFacts
<1>3. ASSUME claims'[u] = claims[u],
             ~(e.task = u /\ (e.kind = "task_claimed" \/ ReleasesClaim(e)))
      PROVE  /\ claims'[u] # NoClaim =>
                  \E d \in events' : ClaimInForce(u, d)' /\ d.seq = claims'[u].at
             /\ \A d \in events' :
                  ClaimInForce(u, d)' => claims'[u] = [agent |-> d.agent, at |-> d.seq]
  <2>1. \A d \in events' : ClaimInForce(u, d)' <=> d \in events /\ ClaimInForce(u, d)
    BY <1>2, <1>3 DEF Appended, ClaimInForce, ReleasesClaim
  <2> QED  BY <1>2, <1>3, <2>1 DEF Appended, ClaimInv, ClaimMatchesLedger
<1>4. CASE Elsewhere(e)
  BY <1>3, <1>4 DEF Elsewhere
<1>5. ASSUME NEW t \in Tasks, NEW a \in Agents, Taken(t, a, e)
      PROVE  /\ claims'[u] # NoClaim =>
                  \E d \in events' : ClaimInForce(u, d)' /\ d.seq = claims'[u].at
             /\ \A d \in events' :
                  ClaimInForce(u, d)' => claims'[u] = [agent |-> d.agent, at |-> d.seq]
  <2>1. CASE u # t
    BY <1>3, <1>5, <2>1 DEF Taken, TypeOK
  <2>2. CASE u = t
    <3>1. claims'[u] = [agent |-> a, at |-> counter + 1] /\ e.agent = a /\ e.task = u
          /\ e.kind = "task_claimed" /\ claims[u] = NoClaim
      BY <1>5, <2>2 DEF Taken, TypeOK
    <3>2. \A d \in events : ~ClaimInForce(u, d)
      BY <3>1, NoAgentAssumption DEF ClaimInv, ClaimMatchesLedger, NoClaim, ClaimInForce, TypeOK,
                                     Event, Names
    <3>3. ClaimInForce(u, new)'
      BY <1>2, <3>1 DEF Appended, ClaimInForce, ReleasesClaim
    <3>4. \A d \in events' : ClaimInForce(u, d)' => d = new
      BY <1>2, <3>1, <3>2 DEF Appended, ClaimInForce, ReleasesClaim
    <3> QED  BY <1>2, <3>1, <3>3, <3>4 DEF Appended
  <2> QED  BY <2>1, <2>2
<1>6. ASSUME NEW t \in Tasks, Ended(t, e)
      PROVE  /\ claims'[u] # NoClaim =>
                  \E d \in events' : ClaimInForce(u, d)' /\ d.seq = claims'[u].at
             /\ \A d \in events' :
                  ClaimInForce(u, d)' => claims'[u] = [agent |-> d.agent, at |-> d.seq]
  <2>1. CASE u # t
    BY <1>3, <1>6, <2>1 DEF Ended, TypeOK
  <2>2. CASE u = t
    <3>1. claims'[u] = NoClaim /\ ReleasesClaim(e) /\ e.task = u
      BY <1>6, <2>2 DEF Ended, TypeOK
    <3>2. \A d \in events' : ~ClaimInForce(u, d)'
      BY <1>2, <3>1 DEF Appended, ClaimInForce, ReleasesClaim
    <3> QED  BY <3>1, <3>2
  <2> QED  BY <2>1, <2>2
<1> QED  BY <1>4, <1>5, <1>6

LEMMA CardStep ==
  ASSUME TypeOK, LedgerIntact, ClaimInv, ClaimStepShape
  PROVE  ClaimedCardIsHeld' /\ OpenCardIsFree'
<1>1. CASE UNCHANGED ledgerVars /\ UNCHANGED claims
  BY <1>1 DEF ledgerVars, ClaimInv, ClaimedCardIsHeld, OpenCardIsFree
<1> DEFINE Shown(u) ==
             tasks'[u].status = "claimed" =>
               claims'[u].agent = tasks'[u].claimed_by /\ tasks'[u].claimed_by # NoAgent
           Offered(u) ==
             tasks'[u].status = "open" /\ claims'[u] # NoClaim =>
               \E d \in events' : d.kind = "task_created" /\ d.task = u /\ claims'[u].at < d.seq
<1> SUFFICES ASSUME NEW e \in EventInput, AppendFresh(e), NEW u \in Tasks,
                    \/ Elsewhere(e)
                    \/ \E t \in Tasks, a \in Agents : Taken(t, a, e)
                    \/ \E t \in Tasks : Ended(t, e)
             PROVE  Shown(u) /\ Offered(u)
  BY <1>1 DEF ClaimStepShape, ClaimedCardIsHeld, OpenCardIsFree, Elsewhere, Taken, Ended
<1>2. PICK new : Appended(e, new)
  BY AppendedFacts
<1>3. tasks[u] \in Card /\ tasks' = [tasks EXCEPT ![e.task] = Apply(tasks[e.task], e)]
      /\ e.task \in Tasks
  BY DEF AppendFresh, TypeOK, EventInput
<1>4. /\ tasks[u].status = "claimed" =>
           claims[u].agent = tasks[u].claimed_by /\ tasks[u].claimed_by # NoAgent
      /\ tasks[u].status = "open" /\ claims[u] # NoClaim =>
           \E d \in events : d.kind = "task_created" /\ d.task = u /\ claims[u].at < d.seq
  BY DEF ClaimInv, ClaimedCardIsHeld, OpenCardIsFree
<1>5. CASE tasks'[u] = tasks[u] /\ claims'[u] = claims[u]
  BY <1>2, <1>4, <1>5 DEF Appended
<1>6. CASE u # e.task
  <2>1. tasks'[u] = tasks[u]
    BY <1>3, <1>6 DEF TypeOK
  <2>2. claims'[u] = claims[u]
    BY <1>6 DEF Elsewhere, Taken, Ended, TypeOK
  <2> QED  BY <1>5, <2>1, <2>2
<1>7. CASE u = e.task
  <2>1. tasks'[u] = Apply(tasks[u], e)
    BY <1>3, <1>7 DEF TypeOK
  <2>2. CASE Elsewhere(e)
    <3>1. claims'[u] = claims[u] /\ e.kind # "task_claimed" /\ ~ReleasesClaim(e)
      BY <2>2 DEF Elsewhere
    <3>2. Shown(u)
      BY <1>3, <1>4, <2>1, <3>1, ElsewhereCard
    <3>3. claims[u] # NoClaim => claims[u].at < counter + 1
      BY DEF ClaimInv, ClaimMatchesLedger, LedgerIntact, SeqInRange, TypeOK
    <3>4. Offered(u)
      <4> SUFFICES ASSUME tasks'[u].status = "open", claims'[u] # NoClaim
                   PROVE  \E d \in events' : d.kind = "task_created" /\ d.task = u
                                             /\ claims'[u].at < d.seq
        OBVIOUS
      <4>1. CASE e.kind = "task_created"
        BY <1>2, <1>7, <3>1, <3>3, <4>1 DEF Appended
      <4>2. CASE tasks[u].status = "open"
        BY <1>2, <1>4, <3>1, <4>2 DEF Appended
      <4> QED  BY <1>3, <2>1, <3>1, <4>1, <4>2, ElsewhereCard
    <3> QED  BY <3>2, <3>4
  <2>3. ASSUME NEW t \in Tasks, NEW a \in Agents, Taken(t, a, e)
        PROVE  Shown(u) /\ Offered(u)
    <3>1. claims[u] = NoClaim /\ claims'[u] = [agent |-> a, at |-> counter + 1]
          /\ e.kind = "task_claimed" /\ e.agent = a /\ a # NoAgent
      BY <1>7, <2>3, NoAgentAssumption DEF Taken, TypeOK
    <3>2. tasks[u].status # "claimed"
      BY <1>4, <3>1 DEF NoClaim
    <3> QED  BY <1>3, <2>1, <3>1, <3>2, TakenCard
  <2>4. ASSUME NEW t \in Tasks, Ended(t, e)
        PROVE  Shown(u) /\ Offered(u)
    <3>1. claims'[u] = NoClaim /\ ReleasesClaim(e)
      BY <1>7, <2>4 DEF Ended, TypeOK
    <3> QED  BY <1>3, <2>1, <3>1, EndedCard
  <2> QED  BY <2>2, <2>3, <2>4
<1> QED  BY <1>6, <1>7

-----------------------------------------------------------------------------
(* The conjunction that carries the three properties is an invariant.      *)
THEOREM ClaimInvariant == Spec => []ClaimInv
<1>1. Init => ClaimInv
  BY NoAgentAssumption DEF Init, ClaimInv, ClaimKeysNameClaims, ClaimMatchesLedger,
     ClaimedCardIsHeld, OpenCardIsFree, NoCard
<1>2. TypeOK /\ LedgerIntact /\ ClaimInv /\ [Next]_vars => ClaimInv'
  <2> SUFFICES ASSUME TypeOK, LedgerIntact, ClaimInv, [Next]_vars PROVE ClaimInv'
    OBVIOUS
  <2>1. ClaimStepShape
    BY ClaimStep DEF vars, ledgerVars, ClaimStepShape
  <2> QED  BY <2>1, KeysStep, MatchStep, CardStep DEF ClaimInv
<1> QED  BY <1>1, <1>2, TypeCorrect, LedgerCorrect, PTL DEF Spec

(* Claim documents and ledger agree: a claim is held exactly when its      *)
(* task_claimed event is not followed by a release, reap or handoff.       *)
THEOREM ClaimsFollowLedger == Spec => []ClaimMatchesLedger
BY ClaimInvariant, PTL DEF ClaimInv

(* No orphaned card: a card in the claimed column is held by the agent it  *)
(* shows.                                                                  *)
THEOREM ClaimedCardsHeld == Spec => []ClaimedCardIsHeld
BY ClaimInvariant, PTL DEF ClaimInv

(* A card on offer can be taken, unless it was claimed before it existed.  *)
THEOREM OpenCardsFree == Spec => []OpenCardIsFree
BY ClaimInvariant, PTL DEF ClaimInv

-----------------------------------------------------------------------------
(* How the lock table changes.                                             *)

Granted(a) ==
  /\ AcquireGranted(a)
  /\ locks' = [locks EXCEPT ![a] = [task |-> call[a].task, globs |-> call[a].globs,
                                    at |-> counter + 1]]

Dropped(a) == locks' = [locks EXCEPT ![a] = NoLock]

LEMMA OtherKindsKeepLocks ==
  ASSUME NEW e, e.kind \notin LockKinds, CommitAppend(e)
  PROVE  locks' = locks
BY DEF LockKinds, CommitAppend, AppendDuplicate, AppendFresh, LocksAfter, ledgerVars

LEMMA BodyKind ==
  ASSUME NEW kind, NEW t, NEW a, NEW key
  PROVE  Body(kind, t, a, key).kind = kind /\ Body(kind, t, a, key).agent = a
         /\ Body(kind, t, a, key).task = t /\ Body(kind, t, a, key).key = key
BY DEF Body

LEMMA AcquireGrantedStep ==
  ASSUME TypeOK, NEW a \in Agents, AcquireGranted(a)
  PROVE  UNCHANGED locks \/ Granted(a)
<1> DEFINE e == [Body("scope_locked", call[a].task, a,
                      Key("scope", call[a].task, a, call[a].globs, 0))
                 EXCEPT !.globs = call[a].globs]
<1>1. CommitAppend(e)
  BY DEF AcquireGranted
<1>2. /\ e.kind = "scope_locked" /\ e.agent = a
      /\ e.task = call[a].task /\ e.globs = call[a].globs
  BY DEF Body
<1> HIDE DEF e
<1>3. CASE AppendDuplicate(e)
  BY <1>3 DEF AppendDuplicate, ledgerVars
<1>4. CASE AppendFresh(e)
  BY <1>2, <1>4 DEF AppendFresh, LocksAfter, Granted
<1> QED  BY <1>1, <1>3, <1>4 DEF CommitAppend

LEMMA ScopeReleaseStep ==
  ASSUME TypeOK, NEW a \in Agents,
         CommitAppend(Body("scope_released", locks[a].task, a,
                           Key("unscope", locks[a].task, a, NoScope, locks[a].at)))
  PROVE  UNCHANGED locks \/ Dropped(a)
<1> DEFINE e == Body("scope_released", locks[a].task, a,
                     Key("unscope", locks[a].task, a, NoScope, locks[a].at))
<1>1. CommitAppend(e)
  OBVIOUS
<1>2. e.kind = "scope_released" /\ e.agent = a
  BY DEF Body
<1> HIDE DEF e
<1>3. CASE AppendDuplicate(e)
  BY <1>3 DEF AppendDuplicate, ledgerVars
<1>4. CASE AppendFresh(e)
  BY <1>2, <1>4 DEF AppendFresh, LocksAfter, Dropped
<1> QED  BY <1>1, <1>3, <1>4 DEF CommitAppend

\* No agent appends a lock event of its own: acquireScope is the way to a lock.
LocksOnlyGranted == "scope_locked" \notin AgentKinds

LEMMA AppendEventStep ==
  ASSUME TypeOK, LocksOnlyGranted, NEW a \in Agents, AppendEvent(a)
  PROVE  UNCHANGED locks \/ Dropped(a)
<1>1. PICK b \in BOOLEAN : CommitAppend(AgentEvent(a, b))
  BY DEF AppendEvent
<1> DEFINE e == AgentEvent(a, b)
<1>2. CommitAppend(e) /\ e.kind = call[a].kind /\ e.agent = a
  BY <1>1 DEF AgentEvent, Body
<1>3. e.kind # "scope_locked"
  BY <1>2, CallTyped DEF AppendEvent, LocksOnlyGranted
<1> HIDE DEF e
<1>4. CASE AppendDuplicate(e)
  BY <1>4 DEF AppendDuplicate, ledgerVars
<1>5. CASE AppendFresh(e) /\ e.kind = "scope_released"
  BY <1>2, <1>5 DEF AppendFresh, LocksAfter, Dropped
<1>6. CASE AppendFresh(e) /\ e.kind # "scope_released"
  BY <1>2, <1>3, <1>6, OtherKindsKeepLocks DEF LockKinds
<1> QED  BY <1>2, <1>4, <1>5, <1>6 DEF CommitAppend

\* A step grants one scope, drops one lock, or leaves the table alone.
LEMMA LockStep ==
  ASSUME TypeOK, LocksOnlyGranted, Next
  PROVE  UNCHANGED locks \/ \E a \in Agents : Granted(a) \/ Dropped(a)
<1> DEFINE Goal == UNCHANGED locks \/ \E a \in Agents : Granted(a) \/ Dropped(a)
<1>1. ASSUME NEW a \in Agents, Gate(a)
      PROVE  Goal
  BY <1>1, GateTyped DEF storeVars
<1>2. ASSUME NEW a \in Agents, Transact(a)
      PROVE  Goal
  <2>1. CASE ClaimHeld(a) \/ ReleaseNotHeld(a) \/ HandoffRefused(a) \/ AcquireBusy(a)
             \/ AcquireRefused(a) \/ ReleaseScopeNone(a)
    BY <2>1 DEF ClaimHeld, ReleaseNotHeld, HandoffRefused, AcquireBusy, AcquireRefused,
                ReleaseScopeNone, storeVars
  <2>2. CASE ClaimFree(a)
    BY <2>2, OtherKindsKeepLocks, BodyKind DEF ClaimFree, LockKinds
  <2>3. CASE ReleaseHeld(a)
    BY <2>3, OtherKindsKeepLocks, BodyKind DEF ReleaseHeld, LockKinds
  <2>4. CASE HandoffHeld(a)
    BY <2>4, OtherKindsKeepLocks, BodyKind DEF HandoffHeld, LockKinds
  <2>5. CASE AppendEvent(a)
    BY <2>5, AppendEventStep
  <2>6. CASE AcquireGranted(a)
    BY <2>6, AcquireGrantedStep
  <2>7. CASE ReleaseScopeHeld(a)
    BY <2>7, ScopeReleaseStep DEF ReleaseScopeHeld
  <2> QED  BY <1>2, <2>1, <2>2, <2>3, <2>4, <2>5, <2>6, <2>7 DEF Transact
<1>3. ASSUME NEW a \in Agents, FailCall(a)
      PROVE  Goal
  BY <1>3 DEF FailCall, storeVars
<1>4. CASE System
  <2>1. ASSUME NEW t \in Tasks, CreateTask(t)
        PROVE  Goal
    BY <2>1, OtherKindsKeepLocks, BodyKind DEF CreateTask, LockKinds
  <2>2. ASSUME NEW t \in Tasks, ReapClaim(t) \/ HandoffByMember(t)
        PROVE  Goal
    BY <2>2, OtherKindsKeepLocks, BodyKind DEF ReapClaim, HandoffByMember, LockKinds
  <2>3. ASSUME NEW t \in Tasks, CancelTask(t)
        PROVE  Goal
    BY <2>3, OtherKindsKeepLocks, BodyKind DEF CancelTask, LockKinds
  <2>4. ASSUME NEW kind \in GithubKinds, NEW t \in Tasks, NEW n \in 1 .. MaxDeliveries,
               Webhook(kind, t, n)
        PROVE  Goal
    <3>1. kind \notin LockKinds
      BY StoreAssumption DEF LockKinds
    <3> QED  BY <2>4, <3>1, OtherKindsKeepLocks, BodyKind DEF Webhook
  <2>5. ASSUME NEW a \in Revocable, NEW on \in BOOLEAN, SetRevoked(a, on)
        PROVE  Goal
    BY <2>5 DEF SetRevoked, storeVars
  <2>6. ASSUME NEW a \in Agents, ReleaseScopeFor(a)
        PROVE  Goal
    BY <2>6, ScopeReleaseStep DEF ReleaseScopeFor
  <2> QED  BY <1>4, <2>1, <2>2, <2>3, <2>4, <2>5, <2>6 DEF System
<1> QED  BY <1>1, <1>2, <1>3, <1>4 DEF Next

-----------------------------------------------------------------------------
(* Mutual exclusion: as long as locks come from acquireScope alone,        *)
(* however calls interleave, fail or repeat, no two agents hold scopes     *)
(* whose globs intersect.                                                  *)
THEOREM ScopesExclusive ==
  ASSUME LocksOnlyGranted
  PROVE  Spec => []LocksDisjoint
<1>1. Init => LocksDisjoint
  BY DEF Init, LocksDisjoint, Held
<1>2. TypeOK /\ LocksDisjoint /\ [Next]_vars => LocksDisjoint'
  <2> SUFFICES ASSUME TypeOK, LocksDisjoint, [Next]_vars,
                      NEW x \in Held', NEW y \in Held', x # y
               PROVE  <<locks'[x].globs, locks'[y].globs>> \notin Overlap
    BY DEF LocksDisjoint
  <2>1. CASE UNCHANGED locks
    BY <2>1 DEF LocksDisjoint, Held
  <2>2. ASSUME NEW a \in Agents, Granted(a)
        PROVE  <<locks'[x].globs, locks'[y].globs>> \notin Overlap
    <3>1. Conflicts(a, call[a].globs) = {} /\ call[a].globs \in Scopes
      BY <2>2, CallTyped DEF Granted, AcquireGranted
    <3>2. locks'[a].globs = call[a].globs
      BY <2>2 DEF Granted, TypeOK
    <3>3. \A z \in Held' \ {a} : z \in Held /\ locks'[z] = locks[z] /\ locks[z].globs \in Scopes
      BY <2>2 DEF Granted, Held, TypeOK, ScopeLock
    <3>4. \A z \in Held \ {a} : <<locks[z].globs, call[a].globs>> \notin Overlap
      BY <3>1 DEF Conflicts
    <3>5. CASE x = a
      <4>1. y \in Held' \ {a}
        BY <3>5
      <4> QED  BY <3>1, <3>2, <3>3, <3>4, <3>5, <4>1, StoreAssumption
    <3>6. CASE y = a
      <4>1. x \in Held' \ {a}
        BY <3>6
      <4> QED  BY <3>2, <3>3, <3>4, <3>6, <4>1
    <3>7. CASE x # a /\ y # a
      BY <3>3, <3>7 DEF LocksDisjoint
    <3> QED  BY <3>5, <3>6, <3>7
  <2>3. ASSUME NEW a \in Agents, Dropped(a)
        PROVE  <<locks'[x].globs, locks'[y].globs>> \notin Overlap
    <3>1. \A z \in Held' : z \in Held /\ locks'[z] = locks[z]
      BY <2>3 DEF Dropped, Held, TypeOK
    <3> QED  BY <3>1 DEF LocksDisjoint
  <2>4. CASE UNCHANGED vars
    BY <2>1, <2>4 DEF vars
  <2> QED  BY <2>1, <2>2, <2>3, <2>4, LockStep
<1> QED  BY <1>1, <1>2, TypeCorrect, PTL DEF Spec

(* No path is held twice.  Where the scopes are lists of globs and Overlap *)
(* holds whichever of them the lock check (findGlobConflicts) would call a *)
(* collision, two agents who hold locks at the same time share not one     *)
(* path: no path, of any length, over any alphabet, is matched by a glob   *)
(* of the one and a glob of the other.                                     *)
THEOREM NoPathHeldTwice ==
  ASSUME LocksOnlyGranted, NEW Letters, Letters # {},
         NEW GlobsOf,
         \A s \in Scopes : \A g \in GlobsOf[s] : NormalizeGlob(g) \in GlobsOver(Letters),
         \A s, t \in Scopes : FindGlobConflicts(GlobsOf[s], GlobsOf[t]) # {} => <<s, t>> \in Overlap
  PROVE  Spec => []( \A x, y \in Held : x # y =>
                       \A g \in GlobsOf[locks[x].globs], h \in GlobsOf[locks[y].globs] :
                         \A path \in PathsOver(Letters) :
                           ~( /\ GlobMatches(NormalizeGlob(g), path)
                              /\ GlobMatches(NormalizeGlob(h), path) ) )
<1> DEFINE Apart == \A x, y \in Held : x # y =>
                      \A g \in GlobsOf[locks[x].globs], h \in GlobsOf[locks[y].globs] :
                        \A path \in PathsOver(Letters) :
                          ~( /\ GlobMatches(NormalizeGlob(g), path)
                             /\ GlobMatches(NormalizeGlob(h), path) )
<1>1. TypeOK /\ LocksDisjoint => Apart
  <2> SUFFICES ASSUME TypeOK, LocksDisjoint,
                      NEW x \in Held, NEW y \in Held, x # y,
                      NEW g \in GlobsOf[locks[x].globs], NEW h \in GlobsOf[locks[y].globs],
                      NEW path \in PathsOver(Letters),
                      GlobMatches(NormalizeGlob(g), path), GlobMatches(NormalizeGlob(h), path)
               PROVE  FALSE
    OBVIOUS
  <2>1. locks[x].globs \in Scopes /\ locks[y].globs \in Scopes
    BY DEF TypeOK, Held, ScopeLock
  <2>2. <<locks[x].globs, locks[y].globs>> \notin Overlap
    BY DEF LocksDisjoint
  <2>3. NormalizeGlob(g) \in GlobsOver(Letters) /\ NormalizeGlob(h) \in GlobsOver(Letters)
    BY <2>1
  <2>4. GlobsIntersect(NormalizeGlob(g), NormalizeGlob(h))
    BY <2>3, IntersectionExact
  <2>5. <<g, h>> \in FindGlobConflicts(GlobsOf[locks[x].globs], GlobsOf[locks[y].globs])
    BY <2>4 DEF FindGlobConflicts
  <2> QED  BY <2>1, <2>2, <2>5
<1> HIDE DEF Apart
<1>2. Spec => []Apart
  BY <1>1, ScopesExclusive, TypeCorrect, PTL
<1> QED  BY <1>2 DEF Apart

(* The lock table never outgrows its cap by more than the one lock that    *)
(* acquireScope's test (more than LIMITS.locks held) still lets in, as     *)
(* long as locks come from acquireScope alone.                             *)
THEOREM LockTableCapped ==
  ASSUME LocksOnlyGranted
  PROVE  Spec => []LockTableBounded
<1> USE StoreAssumption
<1>1. Init => LockTableBounded
  <2> SUFFICES ASSUME Init PROVE LockTableBounded
    OBVIOUS
  <2>1. Held = {}
    BY DEF Init, Held
  <2> QED  BY <2>1, FS_EmptySet DEF LockTableBounded
<1>2. TypeOK /\ LockTableBounded /\ [Next]_vars => LockTableBounded'
  <2> SUFFICES ASSUME TypeOK, LockTableBounded, [Next]_vars PROVE LockTableBounded'
    OBVIOUS
  <2>0. IsFiniteSet(Held)
    BY FS_Subset DEF Held
  <2>1. CASE UNCHANGED locks
    BY <2>1 DEF LockTableBounded, Held
  <2>2. ASSUME NEW a \in Agents, Granted(a)
        PROVE  LockTableBounded'
    <3>1. Cardinality(Held) =< LockCap
      BY <2>2 DEF Granted, AcquireGranted
    <3>2. Held' \subseteq Held \cup {a}
      BY <2>2 DEF Granted, Held, TypeOK
    <3>3. /\ IsFiniteSet(Held \cup {a})
          /\ Cardinality(Held) \in Nat /\ Cardinality(Held \cup {a}) \in Nat
          /\ Cardinality(Held \cup {a}) =< Cardinality(Held) + 1
      <4>1. IsFiniteSet(Held \cup {a})
            /\ Cardinality(Held \cup {a})
                 = IF a \in Held THEN Cardinality(Held) ELSE Cardinality(Held) + 1
        BY <2>0, FS_AddElement
      <4>2. Cardinality(Held) \in Nat /\ Cardinality(Held \cup {a}) \in Nat
        BY <2>0, <4>1, FS_CardinalityType
      <4> QED  BY <4>1, <4>2
    <3>4. Cardinality(Held') =< Cardinality(Held \cup {a}) /\ Cardinality(Held') \in Nat
      BY <3>2, <3>3, FS_Subset, FS_CardinalityType
    <3> QED  BY <3>1, <3>3, <3>4 DEF LockTableBounded
  <2>3. ASSUME NEW a \in Agents, Dropped(a)
        PROVE  LockTableBounded'
    <3>1. Held' \subseteq Held
      BY <2>3 DEF Dropped, Held, TypeOK
    <3>2. Cardinality(Held') =< Cardinality(Held)
          /\ Cardinality(Held') \in Nat /\ Cardinality(Held) \in Nat
      BY <2>0, <3>1, FS_Subset, FS_CardinalityType
    <3> QED  BY <3>2 DEF LockTableBounded
  <2>4. CASE UNCHANGED vars
    BY <2>1, <2>4 DEF vars
  <2> QED  BY <2>1, <2>2, <2>3, <2>4, LockStep
<1> QED  BY <1>1, <1>2, TypeCorrect, PTL DEF Spec

(* Locks follow the ledger: every agent's lock is what its newest scope    *)
(* event says.                                                             *)
THEOREM LocksFollowLedger == Spec => []LocksMatchLedger
<1>1. Init => LocksMatchLedger
  BY DEF Init, LocksMatchLedger
<1>2. TypeOK /\ LedgerIntact /\ LocksMatchLedger /\ [Next]_vars => LocksMatchLedger'
  <2> SUFFICES ASSUME TypeOK, LedgerIntact, LocksMatchLedger, [Next]_vars
               PROVE  LocksMatchLedger'
    OBVIOUS
  <2>1. CASE UNCHANGED ledgerVars
    BY <2>1 DEF ledgerVars, LocksMatchLedger, NewestScopeEvent
  <2>2. ASSUME NEW e \in EventInput, AppendFresh(e)
        PROVE  LocksMatchLedger'
    <3> DEFINE new == Stamped(e, counter + 1)
    <3>1. counter \in Nat /\ counter' = counter + 1 /\ events' = events \cup {new}
      BY <2>2 DEF AppendFresh, TypeOK
    <3>2. /\ new.seq = counter + 1 /\ new.kind = e.kind /\ new.agent = e.agent
          /\ new.task = e.task /\ new.globs = e.globs
      BY <3>1, StampedTyped
    <3>3. \A d \in events : d.seq \in 1 .. counter
      BY DEF LedgerIntact, SeqInRange
    <3>4. locks' = LocksAfter(e)
      BY <2>2 DEF AppendFresh
    <3> HIDE DEF new
    <3> SUFFICES ASSUME NEW a \in Agents
                 PROVE  /\ locks'[a] # NoLock => \E d \in events' : NewestScopeEvent(a, d)'
                        /\ \A d \in events' :
                             NewestScopeEvent(a, d)' =>
                               locks'[a] = IF d.kind = "scope_locked"
                                             THEN [task |-> d.task, globs |-> d.globs,
                                                   at |-> d.seq]
                                             ELSE NoLock
      BY DEF LocksMatchLedger
    <3>5. CASE e.kind \in LockKinds /\ e.agent = a
      <4>1. \A d \in events' : NewestScopeEvent(a, d)' <=> d = new
        BY <3>1, <3>2, <3>3, <3>5 DEF NewestScopeEvent
      <4>2. locks'[a] = IF e.kind = "scope_locked"
                          THEN [task |-> e.task, globs |-> e.globs, at |-> counter + 1]
                          ELSE NoLock
        BY <3>4, <3>5 DEF LocksAfter, LockKinds, TypeOK
      <4> QED  BY <3>1, <3>2, <4>1, <4>2
    <3>6. CASE ~(e.kind \in LockKinds /\ e.agent = a)
      <4>1. \A d \in events' : NewestScopeEvent(a, d)' <=> d \in events /\ NewestScopeEvent(a, d)
        BY <3>1, <3>2, <3>6 DEF NewestScopeEvent
      <4>2. locks'[a] = locks[a]
        BY <3>4, <3>6 DEF LocksAfter, LockKinds, TypeOK
      <4> QED  BY <3>1, <4>1, <4>2 DEF LocksMatchLedger
    <3> QED  BY <3>5, <3>6
  <2>3. CASE UNCHANGED vars
    BY <2>1, <2>3 DEF vars, ledgerVars
  <2> QED  BY <2>1, <2>2, <2>3, LedgerStep
<1> QED  BY <1>1, <1>2, TypeCorrect, LedgerCorrect, PTL DEF Spec

-----------------------------------------------------------------------------
(* The store implements the board.                                         *)

\* An event's mark on a card depends on its kind, and, for a claim, on who
\* claims, and, for a block, on whether it names a blocker.
LEMMA ApplyReads ==
  ASSUME NEW card, NEW e, NEW a, NEW b,
         e.kind = "task_claimed" => e.agent = a,
         e.kind = "task_blocked" => e.blocker = b
  PROVE  Abstract!Apply(card, [kind |-> e.kind, agent |-> a, blocker |-> b]) = Apply(card, e)
<1> DEFINE d == [kind |-> e.kind, agent |-> a, blocker |-> b]
<1>1. d.kind = e.kind /\ d.agent = a /\ d.blocker = b
  OBVIOUS
<1> HIDE DEF d
<1>2. Abstract!ApplyToCard(card, d) = ApplyToCard(card, e)
  BY <1>1 DEF Abstract!ApplyToCard, ApplyToCard, Abstract!Move, Move, Abstract!CanMove, CanMove,
              Abstract!Transitions, Transitions, Abstract!StatusAfterHandoff, StatusAfterHandoff
<1>3. Abstract!NewCard = NewCard
  BY DEF Abstract!NewCard, NewCard, Abstract!NoCard, NoCard
<1>4. Abstract!Apply(card, d) = Apply(card, e)
  BY <1>1, <1>2, <1>3 DEF Abstract!Apply, Apply
<1> QED  BY <1>4 DEF d

\* An append is the record of its event on the board.
LEMMA AppendRecords ==
  ASSUME NEW e \in EventInput, AppendFresh(e), NEW a, NEW b,
         e.kind = "task_claimed" => e.agent = a,
         e.kind = "task_blocked" => e.blocker = b
  PROVE  Abstract!Record(e.kind, e.task, a, b)
BY ApplyReads DEF AppendFresh, Abstract!Record

\* What the board sees of the claim and lock documents.
Holders == [t \in Tasks |-> claims[t].agent]
Scoped  == [a \in Agents |-> [task |-> locks[a].task, globs |-> locks[a].globs]]

LEMMA BoardStutters ==
  ASSUME UNCHANGED <<tasks, claims, locks>>
  PROVE  UNCHANGED Abstract!board
BY DEF Abstract!board

LEMMA TakenIsTakeClaim ==
  ASSUME TypeOK, NEW t \in Tasks, NEW a \in Agents, NEW e \in EventInput, Taken(t, a, e)
  PROVE  Abstract!TakeClaim(a, t)
<1>1. Abstract!Record("task_claimed", t, a, FALSE)
  BY AppendRecords DEF Taken
<1>2. Holders[t] = NoAgent /\ Holders' = [Holders EXCEPT ![t] = a]
  <2>1. claims[t] = NoClaim /\ claims' = [claims EXCEPT ![t] = [agent |-> a, at |-> counter + 1]]
    BY DEF Taken
  <2>2. \A u \in Tasks : claims'[u].agent = IF u = t THEN a ELSE claims[u].agent
    BY <2>1 DEF TypeOK
  <2>3. [Holders EXCEPT ![t] = a]
          = [u \in Tasks |-> IF u = t THEN a ELSE claims[u].agent]
    BY DEF Holders
  <2>4. Holders[t] = NoAgent
    BY <2>1 DEF Holders, NoClaim
  <2> QED  BY <2>2, <2>3, <2>4 DEF Holders
<1>3. UNCHANGED locks
  BY DEF Taken, AppendFresh, LocksAfter
<1> QED  BY <1>1, <1>2, <1>3 DEF Abstract!TakeClaim, Holders

LEMMA EndedIsEndOfClaim ==
  ASSUME TypeOK, NEW t \in Tasks, NEW e \in EventInput, Ended(t, e)
  PROVE  Abstract!EndClaim(t) \/ Abstract!HandOff(t)
<1>1. Abstract!Record(e.kind, t, NoAgent, FALSE)
  BY AppendRecords DEF Ended, ReleasesClaim
<1>2. Holders[t] # NoAgent /\ Holders' = [Holders EXCEPT ![t] = NoAgent]
  BY NoAgentAssumption DEF Ended, TypeOK, Holders, Claim, NoClaim
<1>3. UNCHANGED locks
  BY DEF Ended, AppendFresh, LocksAfter, ReleasesClaim
<1>4. e.kind = "task_unblocked" \/ e.kind = "task_handed_off"
  BY DEF Ended, ReleasesClaim
<1> QED  BY <1>1, <1>2, <1>3, <1>4 DEF Abstract!EndClaim, Abstract!HandOff, Holders

\* A lock event moves no card.
LEMMA LockEventKeepsBoard ==
  ASSUME TypeOK, NEW e \in EventInput, e.kind \in LockKinds, AppendFresh(e)
  PROVE  UNCHANGED tasks
<1>1. \A card : Apply(card, e) = card
  BY DEF Apply, ApplyToCard, LockKinds
<1> QED  BY <1>1 DEF AppendFresh, TypeOK

LEMMA LockEventIsBoardStep ==
  ASSUME TypeOK, LocksOnlyGranted, Next, UNCHANGED <<tasks, claims>>
  PROVE  Abstract!BoardNext \/ UNCHANGED Abstract!board
<1>1. CASE UNCHANGED locks
  BY <1>1, BoardStutters
<1>2. ASSUME NEW a \in Agents, Granted(a)
      PROVE  Abstract!BoardNext
  <2>1. PICK t \in Tasks, g \in Scopes :
           t = call[a].task /\ g = call[a].globs /\ Conflicts(a, g) = {}
    BY <1>2, CallTyped DEF Granted, AcquireGranted
  <2>2. Scoped' = [Scoped EXCEPT ![a] = [task |-> t, globs |-> g]]
    BY <1>2, <2>1 DEF Granted, Scoped, TypeOK
  <2>3. \A b \in Agents \ {a} : <<Scoped[b].globs, g>> \notin Overlap
    <3> SUFFICES ASSUME NEW b \in Agents \ {a}, <<locks[b].globs, g>> \in Overlap PROVE FALSE
      BY DEF Scoped
    <3>1. locks[b] # NoLock
      BY StoreAssumption DEF NoLock
    <3> QED  BY <2>1, <3>1 DEF Conflicts, Held
  <2>4. Abstract!Rivals(a, g) = {}
    BY <2>3 DEF Abstract!Rivals, Scoped
  <2>5. Abstract!Lock(a, t, g)
    BY <2>2, <2>4 DEF Abstract!Lock, Scoped
  <2> QED  BY <2>5 DEF Abstract!BoardNext
<1>3. ASSUME NEW a \in Agents, Dropped(a)
      PROVE  Abstract!BoardNext
  <2>1. Scoped' = [Scoped EXCEPT ![a] = Abstract!Unlocked]
    BY <1>3 DEF Dropped, Scoped, TypeOK, NoLock, Abstract!Unlocked
  <2>2. Abstract!Unlock(a)
    BY <2>1 DEF Abstract!Unlock, Scoped
  <2> QED  BY <2>2 DEF Abstract!BoardNext
<1> QED  BY <1>1, <1>2, <1>3, LockStep

LEMMA ElsewhereIsBoardStep ==
  ASSUME TypeOK, AbsentIsBlank, LocksOnlyGranted, Next, NEW e \in EventInput, Elsewhere(e)
  PROVE  Abstract!BoardNext \/ UNCHANGED Abstract!board
<1>1. AppendFresh(e) /\ UNCHANGED claims /\ e.kind # "task_claimed" /\ ~ReleasesClaim(e)
  BY DEF Elsewhere
<1>2. e.kind \in Kinds /\ e.task \in Tasks /\ e.blocker \in BOOLEAN
  BY DEF EventInput
<1>3. CASE e.kind \in LockKinds
  BY <1>1, <1>3, LockEventKeepsBoard, LockEventIsBoardStep
<1>4. CASE e.kind \notin LockKinds
  <2>1. UNCHANGED locks
    BY <1>1, <1>4 DEF AppendFresh, LocksAfter, LockKinds
  <2>2. CASE e.kind = "task_created"
    <3>1. CASE tasks[e.task].status = "absent"
      <4>1. tasks[e.task] = Abstract!NoCard
        BY <1>2, <3>1 DEF AbsentIsBlank, NoCard, Abstract!NoCard
      <4>2. Abstract!Record("task_created", e.task, NoAgent, FALSE)
        BY <1>1, <2>2, AppendRecords
      <4>3. Abstract!Create(e.task)
        BY <1>1, <2>1, <4>1, <4>2 DEF Abstract!Create
      <4> QED  BY <1>2, <4>3 DEF Abstract!BoardNext
    <3>2. CASE tasks[e.task].status # "absent"
      <4>1. Apply(tasks[e.task], e) = tasks[e.task]
        BY <2>2, <3>2 DEF Apply, ApplyToCard
      <4>2. UNCHANGED tasks
        BY <1>1, <4>1 DEF AppendFresh, TypeOK
      <4> QED  BY <1>1, <2>1, <4>2, BoardStutters
    <3> QED  BY <3>1, <3>2
  <2>3. CASE e.kind # "task_created"
    <3>1. Abstract!Record(e.kind, e.task, NoAgent, e.blocker)
      BY <1>1, AppendRecords
    <3>2. Abstract!Report(e.kind, e.task, e.blocker)
      BY <1>1, <2>1, <2>3, <3>1 DEF Abstract!Report, ReleasesClaim
    <3>3. e.kind \in Abstract!Kinds
      BY <1>2 DEF Kinds, BoardKinds, LockKinds, HumanKinds,
                  Abstract!Kinds, Abstract!BoardKinds, Abstract!LockKinds, Abstract!HumanKinds
    <3> QED  BY <1>2, <3>2, <3>3 DEF Abstract!BoardNext
  <2> QED  BY <2>2, <2>3
<1> QED  BY <1>3, <1>4

(* The store implements the board: seen through cards, holders and scopes  *)
(* alone every transaction is one whole operation of the board or nothing, *)
(* as long as locks come from acquireScope alone.  Half an operation would *)
(* show when an append turns out to be a duplicate; the claim invariant    *)
(* says that the events that take and end a claim never are.               *)
THEOREM StoreImplementsBoard ==
  ASSUME LocksOnlyGranted
  PROVE  Spec => ImplementsBoard
<1>1. Init => Abstract!BoardInit
  BY DEF Init, NoClaim, NoLock, NoCard, Abstract!BoardInit, Abstract!Unlocked, Abstract!NoCard
<1>2. TypeOK /\ LedgerIntact /\ ClaimInv /\ AbsentIsBlank /\ [Next]_vars
        => [Abstract!BoardNext]_(Abstract!board)
  <2> SUFFICES ASSUME TypeOK, LedgerIntact, ClaimInv, AbsentIsBlank, [Next]_vars
               PROVE  Abstract!BoardNext \/ UNCHANGED Abstract!board
    OBVIOUS
  <2>1. CASE UNCHANGED vars
    BY <2>1, BoardStutters DEF vars
  <2>2. CASE Next
    <3>1. CASE UNCHANGED ledgerVars /\ UNCHANGED claims
      BY <3>1, BoardStutters DEF ledgerVars
    <3>2. ASSUME NEW e \in EventInput, Elsewhere(e)
          PROVE  Abstract!BoardNext \/ UNCHANGED Abstract!board
      BY <2>2, <3>2, ElsewhereIsBoardStep
    <3>3. ASSUME NEW t \in Tasks, NEW a \in Agents, NEW e \in EventInput, Taken(t, a, e)
          PROVE  Abstract!BoardNext
      BY <3>3, TakenIsTakeClaim DEF Abstract!BoardNext
    <3>4. ASSUME NEW t \in Tasks, NEW e \in EventInput, Ended(t, e)
          PROVE  Abstract!BoardNext
      BY <3>4, EndedIsEndOfClaim DEF Abstract!BoardNext
    <3> QED  BY <2>2, <3>1, <3>2, <3>3, <3>4, ClaimStep DEF ClaimStepShape
  <2> QED  BY <2>1, <2>2
<1> QED  BY <1>1, <1>2, TypeCorrect, LedgerCorrect, ClaimInvariant, AbsentBlank, PTL
         DEF Spec, ImplementsBoard, Abstract!BoardSpec
=============================================================================
