------------------------------ MODULE TaskFold ------------------------------
(***************************************************************************)
(* The board: what one ledger event does to one card (firebase/fold.ts,    *)
(* shared/store/tasks.ts, shared/store/handoff.ts), and by how much it     *)
(* moves the project rollup (shared/store/rollup.ts).  Pure operators, no  *)
(* state: the store applies them inside its append transaction.            *)
(*                                                                         *)
(* A card keeps the fields the coordination rules read: its column, its    *)
(* owner, whether it names a blocker (blocked_by), and its CI badge.       *)
(* Titles, branches, PR links, notes and timestamps are left out: no rule  *)
(* that moves a card reads them.  A task with no document is a card in the *)
(* pseudo-column "absent".                                                 *)
(***************************************************************************)
EXTENDS Integers

CONSTANTS Agents,    \* the agents of one project
          NoAgent    \* null

ASSUME NoAgentAssumption == NoAgent \notin Agents

-----------------------------------------------------------------------------
Columns == {"open", "claimed", "in_progress", "blocked", "needs_review",
            "pr_open", "merged", "done", "cancelled"}

BoardKinds == {"task_created", "task_claimed", "task_blocked", "task_unblocked",
               "task_completed", "task_cancelled", "task_handed_off",
               "branch_pushed", "pr_opened", "ci_passed", "ci_failed", "merged"}

LockKinds == {"scope_locked", "scope_released"}

\* Human-layer narration; it reaches the ledger and never the board.
HumanKinds == {"task_progress", "agent_heartbeat"}

Kinds == BoardKinds \cup LockKinds \cup HumanKinds

Card == [status     : Columns \cup {"absent"},
         claimed_by : Agents \cup {NoAgent},
         blocker    : BOOLEAN,
         ci         : {"none", "passed", "failed"}]

NoCard == [status |-> "absent", claimed_by |-> NoAgent, blocker |-> FALSE, ci |-> "none"]

\* newTaskView: a new card is always open and always unowned.
NewCard == [NoCard EXCEPT !.status = "open"]

-----------------------------------------------------------------------------
Transitions ==
  [open         |-> {"claimed", "cancelled"},
   claimed      |-> {"in_progress", "blocked", "open", "needs_review", "cancelled"},
   in_progress  |-> {"needs_review", "blocked", "open", "pr_open", "cancelled"},
   blocked      |-> {"in_progress", "claimed", "open", "cancelled"},
   needs_review |-> {"pr_open", "in_progress", "blocked", "cancelled"},
   pr_open      |-> {"merged", "in_progress", "blocked", "cancelled"},
   merged       |-> {"done"},
   done         |-> {},
   cancelled    |-> {}]

CanMove(from, to) == from = to \/ to \in Transitions[from]

\* Mutant: the fold trusts the event and skips canMove.
Move_Unguarded(card, to, patched) == [patched EXCEPT !.status = to]

\* Patch a card and move it, or leave it alone when the move is illegal.
Move(card, to, patched) ==
  IF CanMove(card.status, to) THEN [patched EXCEPT !.status = to] ELSE card

StatusAfterHandoff(status) ==
  IF status \in {"claimed", "in_progress", "blocked"} THEN "open" ELSE status

(***************************************************************************)
(* The card after event e.  An event about a task with no document is      *)
(* ignored, except the one that creates it; a move outside Transitions is  *)
(* ignored.                                                                *)
(***************************************************************************)
ApplyToCard(card, e) ==
  CASE e.kind = "task_claimed" ->
         Move(card, "claimed", [card EXCEPT !.claimed_by = e.agent])
    [] e.kind = "task_blocked" ->
         Move(card, "blocked", [card EXCEPT !.blocker = e.blocker])
    [] e.kind = "task_unblocked" ->
         Move(card, "open", [card EXCEPT !.claimed_by = NoAgent, !.blocker = FALSE])
    [] e.kind = "task_completed" ->
         Move(card, IF card.status = "merged" THEN "done" ELSE "needs_review", card)
    [] e.kind = "task_cancelled" ->
         Move(card, "cancelled", [card EXCEPT !.claimed_by = NoAgent])
    [] e.kind = "task_handed_off" ->
         [card EXCEPT !.claimed_by = NoAgent, !.status = StatusAfterHandoff(@)]
    [] e.kind = "branch_pushed" ->
         IF card.status = "pr_open" THEN card ELSE Move(card, "in_progress", card)
    [] e.kind = "pr_opened" -> Move(card, "pr_open", card)
    [] e.kind = "merged"    -> Move(card, "merged", card)
    [] e.kind = "ci_passed" -> [card EXCEPT !.ci = "passed"]
    [] e.kind = "ci_failed" -> [card EXCEPT !.ci = "failed"]
    [] OTHER                -> card

Apply(card, e) ==
  IF card.status = "absent"
    THEN IF e.kind = "task_created" THEN NewCard ELSE card
    ELSE ApplyToCard(card, e)

-----------------------------------------------------------------------------
(***************************************************************************)
(* The rollup the projects index reads, maintained by difference.          *)
(***************************************************************************)
Rollup == [counts : [Columns -> Int], blocked : Int, ci_failed : Int, last_seq : Nat]

EmptyRollup == [counts |-> [c \in Columns |-> 0], blocked |-> 0, ci_failed |-> 0, last_seq |-> 0]

Bit(b) == IF b THEN 1 ELSE 0

\* Mutant: the card leaves no column behind it when it moves.
CommitRollup_NoDecrement(r, before, after, seq) ==
  [counts    |-> [c \in Columns |->
                    r.counts[c] + Bit(after.status = c /\ before.status # c)],
   blocked   |-> r.blocked + Bit(after.blocker) - Bit(before.blocker),
   ci_failed |-> r.ci_failed + Bit(after.ci = "failed") - Bit(before.ci = "failed"),
   last_seq  |-> seq]

CommitRollup(r, before, after, seq) ==
  [counts    |-> [c \in Columns |->
                    r.counts[c] + Bit(after.status = c) - Bit(before.status = c)],
   blocked   |-> r.blocked + Bit(after.blocker) - Bit(before.blocker),
   ci_failed |-> r.ci_failed + Bit(after.ci = "failed") - Bit(before.ci = "failed"),
   last_seq  |-> seq]
=============================================================================
