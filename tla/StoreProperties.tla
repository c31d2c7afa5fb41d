--------------------------- MODULE StoreProperties ---------------------------
(***************************************************************************)
(* What must be true of the Firestore store whatever its callers do.       *)
(***************************************************************************)
EXTENDS CoordinationStore

(* Every document has its type.                                            *)
TypeOK ==
  /\ events \subseteq Event
  /\ counter \in Nat
  /\ tasks \in [Tasks -> Card]
  /\ claims \in [Tasks -> Claim]
  /\ locks \in [Agents -> ScopeLock]
  /\ rollup \in Rollup
  /\ revoked \subseteq Agents
  /\ call \in [Agents -> Request]

-----------------------------------------------------------------------------
(* The ledger.                                                             *)

SeqInRange  == \A e \in events : e.seq \in 1 .. counter
SeqDense    == \A n \in 1 .. counter : \E e \in events : e.seq = n
SeqUnique   == \A d, e \in events : d.seq = e.seq => d = e
KeyUnique   == \A d, e \in events : d.key = e.key => d = e

(* Append-only ledger: concurrent transactions, retried calls and webhook  *)
(* redeliveries leave the seqs 1..counter each on exactly one event and    *)
(* each idempotency key on exactly one event.                              *)
LedgerIntact == SeqInRange /\ SeqDense /\ SeqUnique /\ KeyUnique

\* The ledger as readEvents pages through it: ascending by seq.
Log == [n \in 1 .. counter |-> CHOOSE e \in events : e.seq = n]

L == INSTANCE Ledger WITH log <- Log

(* Refinement: the documents implement the abstract append-only ledger.    *)
LedgerSpec == L!Spec

-----------------------------------------------------------------------------
(* The projections.                                                        *)

EventAt(n) == CHOOSE e \in events : e.seq = n

\* The card of t as a rebuild from the ledger would compute it.
Replayed(t) ==
  LET after[n \in 0 .. counter] ==
        IF n = 0 THEN NoCard
        ELSE IF EventAt(n).task = t THEN Apply(after[n - 1], EventAt(n)) ELSE after[n - 1]
  IN  after[counter]

(* The board is derivable from the ledger: folding every event in seq      *)
(* order gives exactly the cards the transactions wrote one at a time.     *)
BoardIsReplay == \A t \in Tasks : tasks[t] = Replayed(t)

(* No drift: the rollup kept by increments equals a recount of the board,  *)
(* and has seen the newest event.                                          *)
RollupIsRecount ==
  /\ \A c \in Columns : rollup.counts[c] = Cardinality({t \in Tasks : tasks[t].status = c})
  /\ rollup.blocked = Cardinality({t \in Tasks : tasks[t].blocker})
  /\ rollup.ci_failed = Cardinality({t \in Tasks : tasks[t].ci = "failed"})
  /\ rollup.last_seq = counter

-----------------------------------------------------------------------------
(* Claims.                                                                 *)

ReleasesClaim(e) == e.kind \in {"task_unblocked", "task_handed_off"}

\* The event that took the claim on t now in force, if any.
ClaimInForce(t, e) ==
  /\ e.task = t /\ e.kind = "task_claimed"
  /\ \A d \in events : d.task = t /\ ReleasesClaim(d) => d.seq < e.seq

(* The claim documents and the ledger tell one story: a claim is held by a *)
(* since n exactly when event n is a's task_claimed and no release, reap   *)
(* or handoff of that task follows it.                                     *)
ClaimMatchesLedger ==
  \A t \in Tasks :
    /\ claims[t] # NoClaim => \E e \in events : ClaimInForce(t, e) /\ e.seq = claims[t].at
    /\ \A e \in events :
         ClaimInForce(t, e) => claims[t] = [agent |-> e.agent, at |-> e.seq]

\* The keys of claim events name their own claim, and those of the events that
\* end a claim name an earlier one of the same task.
ClaimKeysNameClaims ==
  \A e \in events :
    /\ e.key.op = "claim" => e.key.at = e.seq
    /\ e.key.op \in {"release", "reap", "handoff"} =>
         ReleasesClaim(e) /\ e.key.task = e.task /\ e.key.at < e.seq

(* No orphaned card: a card in the claimed column is held, in the claim    *)
(* documents, by the very agent it shows, so somebody can release it.      *)
ClaimedCardIsHeld ==
  \A t \in Tasks :
    tasks[t].status = "claimed" =>
      claims[t].agent = tasks[t].claimed_by /\ tasks[t].claimed_by # NoAgent

(* A card on offer can be taken: nobody holds an open card, save by a      *)
(* claim made before the card was created (claimTask asks for no card).    *)
OpenCardIsFree ==
  \A t \in Tasks :
    tasks[t].status = "open" /\ claims[t] # NoClaim =>
      \E e \in events : e.kind = "task_created" /\ e.task = t /\ claims[t].at < e.seq

(* One holder: the card of a task that is being worked on shows the agent  *)
(* that holds its claim.                                                   *)
HolderOwnsCard ==
  \A t \in Tasks :
    /\ tasks[t].status \in {"claimed", "in_progress", "blocked"}
    /\ claims[t] # NoClaim
    => claims[t].agent = tasks[t].claimed_by

(* A shipped card never comes back: merged and done are left only forward, *)
(* whatever late, repeated or reordered events arrive.                     *)
MergedStaysMerged ==
  [][\A t \in Tasks :
       tasks[t].status \in {"merged", "done"} =>
         \/ tasks'[t].status = tasks[t].status
         \/ tasks[t].status = "merged" /\ tasks'[t].status = "done"]_vars

-----------------------------------------------------------------------------
(* The store as its users know it.                                         *)

Abstract == INSTANCE Board WITH
  claims <- [t \in Tasks |-> claims[t].agent],
  locks  <- [a \in Agents |-> [task |-> locks[a].task, globs |-> locks[a].globs]]

(* Refinement: seen through claim holders, cards and scopes alone, every   *)
(* transaction is one whole operation of the board.  No claim changes      *)
(* hands without its card, no idempotency key swallows half of an          *)
(* operation, and no grant crosses another one.                            *)
ImplementsBoard == Abstract!BoardSpec

-----------------------------------------------------------------------------
(* Scope locks.                                                            *)

(* No two agents ever hold intersecting scopes.                            *)
LocksDisjoint ==
  \A a, b \in Held : a # b => <<locks[a].globs, locks[b].globs>> \notin Overlap

\* The newest scope event of a, if any, tells what a holds.
NewestScopeEvent(a, e) ==
  /\ e.kind \in LockKinds /\ e.agent = a
  /\ \A d \in events : d.kind \in LockKinds /\ d.agent = a => d.seq =< e.seq

(* Locks follow the ledger: an agent holds a scope exactly when its newest *)
(* scope event is the scope_locked that granted that scope.                *)
LocksMatchLedger ==
  \A a \in Agents :
    /\ locks[a] # NoLock =>
         \E e \in events : NewestScopeEvent(a, e)
    /\ \A e \in events :
         NewestScopeEvent(a, e) =>
           locks[a] = IF e.kind = "scope_locked"
                        THEN [task |-> e.task, globs |-> e.globs, at |-> e.seq]
                        ELSE NoLock

(* The transactional read of the lock table is complete: the table is      *)
(* never more than one lock past its cap.                                  *)
LockTableBounded == Cardinality(Held) =< LockCap + 1

(* A grant is a lock: an agent whose acquireScope is answered with a lock  *)
(* holds that scope, for that task, in the lock table everyone reads.      *)
GrantHoldsLock ==
  [][\A a \in Agents :
       AcquireGranted(a) =>
         locks'[a].task = call[a].task /\ locks'[a].globs = call[a].globs]_vars
=============================================================================
