-------------------------------- MODULE Board --------------------------------
(***************************************************************************)
(* The board as its users know it (shared/store/types.ts, the              *)
(* CoordinationStore interface): cards, one claim per task, one scope per  *)
(* agent, and operations that either happen as a whole or not at all.      *)
(* There is no ledger here, no key, no clock reading and no transaction:   *)
(* that the Firestore store still behaves like this is checked             *)
(* (StoreProperties!ImplementsBoard), and the modules about what runs on   *)
(* top of the store (Reaper, Fleet) are written in these operations.       *)
(***************************************************************************)
EXTENDS TaskFold

CONSTANTS Tasks, NoTask,
          Scopes, NoScope,
          Overlap           \* the pairs of scopes some of whose globs intersect

VARIABLES tasks,    \* the card of each task
          claims,   \* the agent that holds each task, or NoAgent
          locks     \* the scope each agent holds

board == <<tasks, claims, locks>>

Unlocked == [task |-> NoTask, globs |-> NoScope]

BoardInit ==
  /\ tasks  = [t \in Tasks |-> NoCard]
  /\ claims = [t \in Tasks |-> NoAgent]
  /\ locks  = [a \in Agents |-> Unlocked]

\* Every operation leaves one event behind, and the event moves one card.
Record(kind, t, a, b) ==
  tasks' = [tasks EXCEPT ![t] = Apply(@, [kind |-> kind, agent |-> a, blocker |-> b])]

Create(t) ==
  /\ tasks[t] = NoCard
  /\ Record("task_created", t, NoAgent, FALSE)
  /\ UNCHANGED <<claims, locks>>

TakeClaim(a, t) ==
  /\ claims[t] = NoAgent
  /\ claims' = [claims EXCEPT ![t] = a]
  /\ Record("task_claimed", t, a, FALSE)
  /\ UNCHANGED locks

\* A release, by the holder or on its behalf: the claim and the card go together.
EndClaim(t) ==
  /\ claims[t] # NoAgent
  /\ claims' = [claims EXCEPT ![t] = NoAgent]
  /\ Record("task_unblocked", t, NoAgent, FALSE)
  /\ UNCHANGED locks

HandOff(t) ==
  /\ claims[t] # NoAgent
  /\ claims' = [claims EXCEPT ![t] = NoAgent]
  /\ Record("task_handed_off", t, NoAgent, FALSE)
  /\ UNCHANGED locks

\* Whatever else agents, members and GitHub report about a task.
Report(kind, t, b) ==
  /\ kind \notin {"task_created", "task_claimed", "task_unblocked", "task_handed_off"}
  /\ Record(kind, t, NoAgent, b)
  /\ UNCHANGED <<claims, locks>>

Rivals(a, g) == {b \in Agents \ {a} : <<locks[b].globs, g>> \in Overlap}

Lock(a, t, g) ==
  /\ Rivals(a, g) = {}
  /\ locks' = [locks EXCEPT ![a] = [task |-> t, globs |-> g]]
  /\ UNCHANGED <<tasks, claims>>

Unlock(a) ==
  /\ locks' = [locks EXCEPT ![a] = Unlocked]
  /\ UNCHANGED <<tasks, claims>>

BoardNext ==
  \/ \E t \in Tasks : Create(t) \/ EndClaim(t) \/ HandOff(t)
  \/ \E a \in Agents, t \in Tasks : TakeClaim(a, t)
  \/ \E kind \in Kinds, t \in Tasks, b \in BOOLEAN : Report(kind, t, b)
  \/ \E a \in Agents, t \in Tasks, g \in Scopes : Lock(a, t, g)
  \/ \E a \in Agents : Unlock(a)

BoardSpec == BoardInit /\ [][BoardNext]_board
=============================================================================
