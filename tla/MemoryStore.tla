------------------------------ MODULE MemoryStore ------------------------------
(***************************************************************************)
(* The in-process CoordinationStore (shared/store/memory.ts), the double   *)
(* that the tests, the conformance suite and local development run         *)
(* against.  It keeps the same promises by other means: claims never reach *)
(* its ledger, its fold asks nothing of a card before moving it, and the   *)
(* owner and the claimed column are laid over the folded card when a       *)
(* snapshot is built.  Every operation is one critical section.            *)
(*                                                                         *)
(* A folded card is its column.  The module has no next-state relation of  *)
(* its own: Conformance makes every call on both stores.                   *)
(***************************************************************************)
EXTENDS TaskFold

CONSTANTS Tasks

VARIABLES columns,  \* the folded column of each task, "absent" if it has no card
          holders,  \* claims: who holds each task
          keys      \* dedupe: the idempotency keys appendEvent has seen

memory == <<columns, holders, keys>>

Init ==
  /\ columns = [t \in Tasks |-> "absent"]
  /\ holders = [t \in Tasks |-> NoAgent]
  /\ keys = {}

-----------------------------------------------------------------------------
\* Mutant: a push starts only a card in the claimed column, which this fold
\* never stores.
Fold_PushNeedsClaimed(column, kind) ==
  CASE kind = "task_blocked"    -> "blocked"
    [] kind = "task_unblocked"  -> "open"
    [] kind = "task_completed"  -> "needs_review"
    [] kind = "branch_pushed"   -> IF column = "claimed" THEN "in_progress" ELSE column
    [] kind = "pr_opened"       -> "pr_open"
    [] kind = "merged"          -> "merged"
    [] kind = "task_cancelled"  -> IF column \in {"merged", "done"} THEN column ELSE "cancelled"
    [] kind = "task_handed_off" -> StatusAfterHandoff(column)
    [] OTHER                    -> column

\* Where an event moves a card that exists, from wherever it is.
Fold(column, kind) ==
  CASE kind = "task_blocked"    -> "blocked"
    [] kind = "task_unblocked"  -> "open"
    [] kind = "task_completed"  -> "needs_review"
    [] kind = "branch_pushed"   -> IF column \in {"claimed", "open"} THEN "in_progress" ELSE column
    [] kind = "pr_opened"       -> "pr_open"
    [] kind = "merged"          -> "merged"
    [] kind = "task_cancelled"  -> IF column \in {"merged", "done"} THEN column ELSE "cancelled"
    [] kind = "task_handed_off" -> StatusAfterHandoff(column)
    [] OTHER                    -> column

Folded(column, kind) ==
  IF column = "absent"
    THEN IF kind = "task_created" THEN "open" ELSE column
    ELSE Fold(column, kind)

AppendEvent(kind, t, key) ==
  IF key \in keys
    THEN UNCHANGED memory
    ELSE /\ columns' = [columns EXCEPT ![t] = Folded(@, kind)]
         /\ keys' = keys \cup {key}
         /\ UNCHANGED holders

CreateTask(t, key) ==
  IF columns[t] = "absent" THEN AppendEvent("task_created", t, key) ELSE UNCHANGED memory

ClaimTask(t, a) ==
  /\ holders' = [holders EXCEPT ![t] = IF @ = NoAgent THEN a ELSE @]
  /\ UNCHANGED <<columns, keys>>

\* Neither a release nor a reap is an event: the folded column stays.
ReleaseTask(t, a) ==
  /\ holders' = [holders EXCEPT ![t] = IF @ = a THEN NoAgent ELSE @]
  /\ UNCHANGED <<columns, keys>>

ReapClaim(t) == ReleaseTask(t, holders[t])

\* The event and the end of the claim are one step.  Its key, which names the
\* claim, is recorded and never looked up; it is left out.
HandoffTask(t, holder) ==
  IF holders[t] # NoAgent /\ holders[t] = holder
    THEN /\ columns' = [columns EXCEPT ![t] = Folded(@, "task_handed_off")]
         /\ holders' = [holders EXCEPT ![t] = NoAgent]
         /\ UNCHANGED keys
    ELSE UNCHANGED memory

\* The card a snapshot shows.
Shown(t) ==
  [status     |-> IF holders[t] # NoAgent /\ columns[t] = "open" THEN "claimed" ELSE columns[t],
   claimed_by |-> holders[t]]
=============================================================================
