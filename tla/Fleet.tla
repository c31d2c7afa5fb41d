-------------------------------- MODULE Fleet --------------------------------
(***************************************************************************)
(* The whole company around one board: the agents' commands (Workflow),    *)
(* the members' write path (functions/src/write-api.ts), the suggestion    *)
(* lane (firebase/store.ts) and a reaper that may take any claim away.     *)
(*                                                                         *)
(* Accepting a suggestion is two transactions and a compensation: it is    *)
(* marked, the ticket is created like any other, and if that fails the     *)
(* suggestion is opened again.  Two members may be at it at once.          *)
(***************************************************************************)
EXTENDS Workflow, FiniteSets

CONSTANTS Members, Suggestions

ASSUME FleetAssumption == IsFiniteSet(Tasks)

VARIABLES sugg,      \* the suggestion documents
          accepting, \* the acceptance each member's request is in
          ticketed,  \* the tickets created for each suggestion
          stranded   \* suggestions whose acceptance broke off, or heard nothing of its ticket

laneVars == <<sugg, accepting, ticketed, stranded>>
vars     == <<board, workflowVars, laneVars>>

\* What a member's request leaves alone of the agents' state.
othersVars == <<granted, cmd, gitVars, notes, unheard, faults>>

Suggestion == [status : {"absent", "open", "accepted", "declined"}, task : Tasks \cup {NoTask}]
Blank      == [status |-> "absent", task |-> NoTask]
Acceptance == [pc : {"idle", "marked", "reopen"}, on : Suggestions \cup {NoTask}, task : Tasks \cup {NoTask}]
Resting    == [pc |-> "idle", on |-> NoTask, task |-> NoTask]

Init ==
  /\ WorkflowInit
  /\ sugg      = [s \in Suggestions |-> Blank]
  /\ accepting = [m \in Members |-> Resting]
  /\ ticketed  = [s \in Suggestions |-> {}]
  /\ stranded  = {}

-----------------------------------------------------------------------------
(* The suggestion lane.                                                    *)

Reopened == [status |-> "open", task |-> NoTask]

RaiseSuggestion(s) ==
  /\ sugg[s].status = "absent"
  /\ Request
  /\ sugg' = [sugg EXCEPT ![s] = Reopened]
  /\ UNCHANGED <<board, othersVars, accepting, ticketed, stranded>>

\* Mutant: the status that was read before the transaction is trusted.
MarkAccepted_Unchecked(m, s, t) ==
  /\ accepting[m].pc = "idle"
  /\ sugg[s].status \in {"open", "accepted"}
  /\ Request
  /\ sugg' = [sugg EXCEPT ![s] = [status |-> "accepted", task |-> t]]
  /\ accepting' = [accepting EXCEPT ![m] = [pc |-> "marked", on |-> s, task |-> t]]
  /\ UNCHANGED <<board, othersVars, ticketed, stranded>>

\* The first transaction of acceptSuggestion; the loser of a race changes nothing.
MarkAccepted(m, s, t) ==
  /\ accepting[m].pc = "idle"
  /\ sugg[s].status = "open"
  /\ Request
  /\ sugg' = [sugg EXCEPT ![s] = [status |-> "accepted", task |-> t]]
  /\ accepting' = [accepting EXCEPT ![m] = [pc |-> "marked", on |-> s, task |-> t]]
  /\ UNCHANGED <<board, othersVars, ticketed, stranded>>

To(m, pc) == accepting' = [accepting EXCEPT ![m].pc = pc]
Done(m)   == accepting' = [accepting EXCEPT ![m] = Resting]

Ticket(m) ==
  /\ Create(accepting[m].task)
  /\ ticketed' = [ticketed EXCEPT ![accepting[m].on] = @ \cup {accepting[m].task}]

\* The ticket, by createTask; an id that is taken is a failure.
CreateTicket(m) ==
  /\ accepting[m].pc = "marked"
  /\ \/ Ticket(m) /\ Done(m)
     \/ On(accepting[m].task) /\ To(m, "reopen") /\ UNCHANGED <<board, ticketed>>
  /\ UNCHANGED <<workflowVars, sugg, stranded>>

\* createTask throws, before its commit or after it.
CreateThrows(m) ==
  /\ accepting[m].pc = "marked"
  /\ Fault
  /\ To(m, "reopen")
  /\ \/ UNCHANGED <<board, ticketed, stranded>>
     \/ Ticket(m) /\ stranded' = stranded \cup {accepting[m].on}
  /\ UNCHANGED <<granted, cmd, gitVars, notes, unheard, requests, sugg>>

Reopen(m) ==
  /\ accepting[m].pc = "reopen"
  /\ sugg' = [sugg EXCEPT ![accepting[m].on] = Reopened]
  /\ Done(m)
  /\ UNCHANGED <<board, workflowVars, ticketed, stranded>>

\* The request dies, or the reopen is lost: whatever it had not done stays undone.
AcceptDies(m) ==
  /\ accepting[m].pc # "idle"
  /\ Fault
  /\ stranded' = stranded \cup {accepting[m].on}
  /\ Done(m)
  /\ UNCHANGED <<board, granted, cmd, gitVars, notes, unheard, requests, sugg, ticketed>>

DeclineSuggestion(s) ==
  /\ sugg[s].status = "open"
  /\ Request
  /\ sugg' = [sugg EXCEPT ![s].status = "declined"]
  /\ UNCHANGED <<board, othersVars, accepting, ticketed, stranded>>

-----------------------------------------------------------------------------
(* Members and the reaper at the board.                                    *)

CreateTask(t) ==
  /\ Request
  /\ Create(t)
  /\ UNCHANGED <<othersVars, laneVars>>

\* Mutant: the holder is read once its claim is gone.
OwnerHandsOff_ReadsLate(t) ==
  /\ Request
  /\ HandOff(t)
  /\ \E b \in CardBranches(t) :
       notes' = [notes EXCEPT ![t] = Append(@, [from |-> claims'[t], note |-> 0, branch |-> b,
                                                head |-> 0, work |-> AsBefore])]
  /\ UNCHANGED <<granted, cmd, gitVars, unheard, faults, laneVars>>

\* The owner hands off a ticket of somebody who left; the board knows a branch of the
\* task at best, and no commit.
OwnerHandsOff(t) ==
  /\ Request
  /\ HandOff(t)
  /\ \E b \in CardBranches(t) :
       notes' = [notes EXCEPT ![t] = Append(@, [from |-> claims[t], note |-> 0, branch |-> b,
                                                head |-> 0, work |-> AsBefore])]
  /\ UNCHANGED <<granted, cmd, gitVars, unheard, faults, laneVars>>

\* The reaper, or a cancel_task, ends a claim over its holder's head.
Reap(t) ==
  /\ Fault
  /\ EndClaim(t)
  /\ UNCHANGED <<granted, cmd, gitVars, notes, unheard, requests, laneVars>>

-----------------------------------------------------------------------------
Next ==
  \/ WorkflowNext /\ UNCHANGED laneVars
  \/ \E s \in Suggestions : RaiseSuggestion(s) \/ DeclineSuggestion(s)
  \/ \E m \in Members, s \in Suggestions, t \in Tasks : MarkAccepted(m, s, t)
  \/ \E m \in Members : CreateTicket(m) \/ CreateThrows(m) \/ Reopen(m) \/ AcceptDies(m)
  \/ \E t \in Tasks : CreateTask(t) \/ OwnerHandsOff(t) \/ Reap(t)

Spec == Init /\ [][Next]_vars

-----------------------------------------------------------------------------
(* Every variable has its type.                                            *)
TypeOK ==
  /\ tasks  \in [Tasks -> Card]
  /\ claims \in [Tasks -> Agents \cup {NoAgent}]
  /\ locks  \in [Agents -> [task : Tasks \cup {NoTask}, globs : Scopes \cup {NoScope}]]
  /\ granted \subseteq Agents \X Tasks \X Scopes
  /\ cmd     \in [Agents -> Command]
  /\ tree    \in [Agents -> Content]
  /\ remote  \in [Branch -> Seq(Content)]
  /\ notes   \in [Tasks -> Seq(Note)]
  /\ unheard \subseteq Agents \X Tasks
  /\ requests \in 0 .. MaxRequests /\ edits \in 0 .. MaxEdits /\ faults \in 0 .. MaxFaults
  /\ sugg      \in [Suggestions -> Suggestion]
  /\ accepting \in [Members -> Acceptance]
  /\ ticketed  \in [Suggestions -> SUBSET Tasks]
  /\ stranded  \subseteq Suggestions

(* A handoff loses nothing that was pushed for it: the commit its note     *)
(* names is on the branch it names and holds the work its giver committed, *)
(* although pushes fail, others push to the same branch, and the work goes *)
(* on through several hands (handoff.ts: never point the next claimant at  *)
(* a branch that does not hold it).                                        *)
HandoffHoldsWork ==
  \A t \in Tasks : \A i \in 1 .. Len(notes[t]) :
    LET n == notes[t][i] IN
    n.work # AsBefore =>
      n.branch # NoBranch /\ n.head \in 1 .. Tip(n.branch) /\ CommitAt(n.branch, n.head) = n.work

(* A command touches its own ticket only.  It ends no claim but on the     *)
(* task it is about, and nobody else's unless an owner hands it off, and   *)
(* frees no lock but that task's, although it goes by a snapshot, is       *)
(* retried when its answer got lost, and others take, lose and hand off    *)
(* tickets meanwhile.  One thing defeats it: a second command of the same  *)
(* agent that moves the lock to another ticket after the snapshot.         *)
OwnTicketOnly ==
  [][\A a \in Agents :
       cmd[a] # NoCommand /\ cmd'[a] # cmd[a] =>
         /\ \A t \in Tasks : claims[t] # NoAgent /\ claims'[t] # claims[t] =>
              t = cmd[a].task /\ (claims[t] = a \/ (a \in Owners /\ cmd[a].op = "handoff"))
         /\ locks[a] # Unlocked /\ locks'[a] = Unlocked =>
              locks[a].task = cmd[a].task \/ cmd[a].beside]_vars

(* Nobody sits on a ticket whose files it was refused: an agent that is    *)
(* done with its commands and holds a claim was once granted the scope its *)
(* card declares, or its command ended before it heard (cmdClaim: holding  *)
(* a task you cannot legally edit is worse than not holding it).           *)
HeldTicketWasGranted ==
  \A a \in Agents, t \in Tasks :
    Idle(a) /\ claims[t] = a /\ Declared[t] # NoScope =>
      <<a, t, Declared[t]>> \in granted \/ <<a, t>> \in unheard

(* One complaint, one ticket: a suggestion that nobody is at work on has   *)
(* exactly the ticket it names if it is accepted, and none otherwise,      *)
(* whoever raced for it and however often it was opened again, unless an   *)
(* acceptance broke off half way.                                          *)
AcceptedHasItsTicket ==
  \A s \in Suggestions :
    s \notin stranded /\ (\A m \in Members : accepting[m].on # s) =>
      ticketed[s] = IF sugg[s].status = "accepted" THEN {sugg[s].task} ELSE {}
=============================================================================
