------------------------------ MODULE Conformance ------------------------------
(***************************************************************************)
(* The Firestore store and the memory store side by side, as the           *)
(* conformance suite (shared/store/conformance.ts) runs them: every call   *)
(* that commits on the first is made on the second at the same moment.     *)
(* Scope locks are left to the first; the two tables are keyed             *)
(* differently (one lock per agent, one per agent and task).  No token is  *)
(* revoked: both stores refuse a revoked caller before anything else.      *)
(***************************************************************************)
EXTENDS StoreProperties

VARIABLES columns, holders, keys,  \* the memory store
          together                 \* the tasks whose history both stores tell alike

Memory == INSTANCE MemoryStore

both == <<vars, columns, holders, keys, together>>

BothInit == Init /\ Memory!Init /\ together = Tasks

-----------------------------------------------------------------------------
(* The moves both folds make.  They part ways on every other one: the      *)
(* Firestore fold ignores an illegal move and the memory fold makes it; a  *)
(* release reopens a started card in Firestore and leaves it where it is   *)
(* in memory; a push revives a blocked or reviewed card, and a completion  *)
(* closes a merged one, in Firestore only.                                 *)

SharedMoves ==
  [task_claimed    |-> {"open", "absent"},
   task_unblocked  |-> {"claimed", "absent"},
   task_blocked    |-> {"claimed", "in_progress", "blocked", "needs_review", "pr_open"},
   task_completed  |-> {"claimed", "in_progress", "needs_review"},
   branch_pushed   |-> {"claimed", "in_progress", "pr_open", "merged", "done", "cancelled"},
   pr_opened       |-> {"in_progress", "needs_review", "pr_open"},
   merged          |-> {"pr_open", "merged"}]

(* A card is cancelled, and created, alike only while nobody holds it: the *)
(* memory store lays the claim over whatever card there is.                *)
Shared(t, kind) ==
  CASE kind \in DOMAIN SharedMoves -> tasks[t].status \in SharedMoves[kind] \cup {"absent"}
    [] kind \in {"task_created", "task_cancelled"} -> claims[t] = NoClaim
    [] OTHER -> TRUE

Keeps == together' = {t \in together :
                        \A e \in events' \ events : e.task = t => Shared(t, e.kind)}

-----------------------------------------------------------------------------
\* An appendEvent call as the memory store gets it: the kind, task and key of
\* the event that was, or had already been, recorded.
AppendOnBoth(e) == Memory!AppendEvent(e.kind, e.task, e.key)

AgentCalls(a) ==
  \/ Gate(a) /\ UNCHANGED <<columns, holders, keys>>
  \/ FailCall(a) /\ UNCHANGED <<columns, holders, keys>>
  \/ (ClaimHeld(a) \/ ClaimFree(a)) /\ Memory!ClaimTask(call[a].task, a)
  \/ (ReleaseNotHeld(a) \/ ReleaseHeld(a)) /\ Memory!ReleaseTask(call[a].task, a)
  \/ (HandoffRefused(a) \/ HandoffHeld(a)) /\ Memory!HandoffTask(call[a].task, call[a].holder)
  \/ AppendEvent(a) /\ AppendOnBoth(AgentEvent(a, FALSE))

SystemCalls ==
  \/ \E t \in Tasks :
       \/ CreateTask(t) /\ Memory!CreateTask(t, Key("create", t, NoAgent, NoScope, 0))
       \/ ReapClaim(t) /\ Memory!ReapClaim(t)
       \/ HandoffByMember(t) /\ Memory!HandoffTask(t, claims[t].agent)
       \/ CancelTask(t) /\ AppendOnBoth(Body("task_cancelled", t, NoAgent,
                                             Key("cancel", t, NoAgent, NoScope, 0)))
  \/ \E kind \in GithubKinds, t \in Tasks, n \in 1 .. MaxDeliveries :
       Webhook(kind, t, n)
         /\ AppendOnBoth(Body(kind, t, NoAgent, Key("gh", NoTask, NoAgent, NoScope, n)))
BothNext == ((\E a \in Agents : AgentCalls(a)) \/ SystemCalls) /\ Keeps

BothSpec == BothInit /\ [][BothNext]_both

-----------------------------------------------------------------------------
(* The double is a fair one: the two stores always agree on who holds      *)
(* which claim, and they show the same column and owner for every task     *)
(* that has only made moves both folds make.                               *)
StoresAgree ==
  /\ \A t \in Tasks : holders[t] = claims[t].agent
  /\ \A t \in together :
       /\ tasks[t].status = Memory!Shown(t).status
       /\ tasks[t].status # "absent" => tasks[t].claimed_by = Memory!Shown(t).claimed_by
=============================================================================
