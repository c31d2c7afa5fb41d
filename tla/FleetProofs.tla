----------------------------- MODULE FleetProofs -----------------------------
(***************************************************************************)
(* Proofs about the fleet, for any agents, members, tasks, scopes, fences  *)
(* and bounds.                                                             *)
(***************************************************************************)
EXTENDS Fleet, TLAPS

-----------------------------------------------------------------------------
(* The suggestion lane.  A suggestion that nobody is at work on satisfies  *)
(* the property as it stands; one that somebody is at work on is marked    *)
(* accepted, is in one pair of hands only, and has no ticket yet.  This    *)
(* needs nothing of the board: a ticket is counted where it is created.    *)

HasHand(m, s) == accepting[m].pc # "idle" /\ accepting[m].on = s

Busy(s) == \E m \in Members : HasHand(m, s)

LaneTyped ==
  /\ sugg      \in [Suggestions -> Suggestion]
  /\ accepting \in [Members -> Acceptance]
  /\ ticketed  \in [Suggestions -> SUBSET Tasks]
  /\ stranded  \subseteq Suggestions
  /\ \A m \in Members :
       IF accepting[m].pc = "idle" THEN accepting[m] = Resting
       ELSE accepting[m].on \in Suggestions /\ accepting[m].task \in Tasks

AtWork(s) ==
  \A m \in Members : HasHand(m, s) =>
    /\ \A n \in Members : HasHand(n, s) => n = m
    /\ sugg[s].status = "accepted" /\ sugg[s].task = accepting[m].task
    /\ ticketed[s] = {}

AtRest(s) ==
  ~Busy(s) => ticketed[s] = IF sugg[s].status = "accepted" THEN {sugg[s].task} ELSE {}

LaneInv == LaneTyped /\ \A s \in Suggestions \ stranded : AtWork(s) /\ AtRest(s)

LEMMA LaneInit == Init => LaneInv
<1> SUFFICES ASSUME Init PROVE LaneInv
  OBVIOUS
<1>1. LaneTyped
  BY DEF Init, LaneTyped, Suggestion, Blank, Acceptance, Resting
<1>2. \A s \in Suggestions : AtWork(s) /\ AtRest(s)
  BY DEF Init, AtWork, AtRest, HasHand, Busy, Blank, Resting
<1> QED  BY <1>1, <1>2 DEF LaneInv

\* A step that moves one member, one suggestion's document, or one suggestion's tickets.
LEMMA LaneRaise ==
  ASSUME LaneInv, NEW s \in Suggestions, RaiseSuggestion(s) \/ DeclineSuggestion(s)
  PROVE  LaneInv'
<1>1. /\ UNCHANGED <<accepting, ticketed, stranded>>
      /\ sugg[s].status # "accepted"
      /\ sugg' \in [Suggestions -> Suggestion]
      /\ \A r \in Suggestions \ {s} : sugg'[r] = sugg[r]
      /\ sugg'[s].status # "accepted"
  BY DEF RaiseSuggestion, DeclineSuggestion, Reopened, LaneInv, LaneTyped, Suggestion
<1>2. LaneTyped'
  BY <1>1 DEF LaneInv, LaneTyped
<1>3. ASSUME NEW r \in Suggestions \ stranded
      PROVE  AtWork(r)' /\ AtRest(r)'
  <2>1. AtWork(r) /\ AtRest(r)
    BY DEF LaneInv
  <2> QED  BY <2>1, <1>1 DEF AtWork, AtRest, HasHand, Busy
<1> QED  BY <1>1, <1>2, <1>3 DEF LaneInv

LEMMA LaneMark ==
  ASSUME LaneInv, NEW m \in Members, NEW s \in Suggestions, NEW t \in Tasks, MarkAccepted(m, s, t)
  PROVE  LaneInv'
<1>1. /\ UNCHANGED <<ticketed, stranded>>
      /\ sugg[s].status = "open" /\ accepting[m].pc = "idle"
      /\ sugg' = [sugg EXCEPT ![s] = [status |-> "accepted", task |-> t]]
      /\ accepting' = [accepting EXCEPT ![m] = [pc |-> "marked", on |-> s, task |-> t]]
  BY DEF MarkAccepted
<1>2. /\ sugg'[s] = [status |-> "accepted", task |-> t]
      /\ \A r \in Suggestions \ {s} : sugg'[r] = sugg[r]
      /\ accepting'[m] = [pc |-> "marked", on |-> s, task |-> t]
      /\ \A n \in Members \ {m} : accepting'[n] = accepting[n]
  BY <1>1 DEF LaneInv, LaneTyped
<1>3. LaneTyped'
  <2>1. [status |-> "accepted", task |-> t] \in Suggestion
        /\ [pc |-> "marked", on |-> s, task |-> t] \in Acceptance
    BY DEF Suggestion, Acceptance
  <2> QED  BY <1>1, <1>2, <2>1 DEF LaneInv, LaneTyped
<1>4. ASSUME NEW r \in Suggestions \ stranded
      PROVE  AtWork(r)' /\ AtRest(r)'
  <2>1. AtWork(r) /\ AtRest(r)
    BY DEF LaneInv
  <2>2. CASE r = s
    <3>1. \A n \in Members : ~HasHand(n, s)
      BY <1>1, <2>1, <2>2 DEF AtWork
    <3>2. ticketed[s] = {}
      BY <1>1, <2>1, <2>2, <3>1 DEF AtRest, Busy
    <3>3. \A n \in Members : HasHand(n, s)' <=> n = m
      BY <1>2, <3>1 DEF HasHand
    <3> QED  BY <1>1, <1>2, <2>2, <3>2, <3>3 DEF AtWork, AtRest, Busy
  <2>3. CASE r # s
    <3>1. \A n \in Members : HasHand(n, r)' <=> HasHand(n, r)
      BY <1>1, <1>2, <2>3 DEF HasHand
    <3>2. \A n \in Members : HasHand(n, r) => accepting'[n] = accepting[n]
      BY <1>1, <1>2 DEF HasHand
    <3> QED  BY <1>1, <1>2, <2>1, <2>3, <3>1, <3>2 DEF AtWork, AtRest, Busy
  <2> QED  BY <2>2, <2>3
<1> QED  BY <1>1, <1>3, <1>4 DEF LaneInv

\* What one member does about the suggestion it is at work on.
LEMMA LaneMember ==
  ASSUME LaneInv, NEW m \in Members,
         CreateTicket(m) \/ CreateThrows(m) \/ Reopen(m) \/ AcceptDies(m)
  PROVE  LaneInv'
<1> DEFINE c == accepting[m]  s == accepting[m].on
<1>1. c.pc \in {"marked", "reopen"} /\ s \in Suggestions /\ c.task \in Tasks
  BY DEF CreateTicket, CreateThrows, Reopen, AcceptDies, LaneInv, LaneTyped, Acceptance
<1>2. /\ \A r \in Suggestions \ {s} : sugg'[r] = sugg[r] /\ ticketed'[r] = ticketed[r]
      /\ \A n \in Members \ {m} : accepting'[n] = accepting[n]
      /\ stranded \subseteq stranded'
      /\ stranded' \subseteq stranded \cup {s}
  BY <1>1 DEF CreateTicket, CreateThrows, Reopen, AcceptDies, Ticket, To, Done, LaneInv, LaneTyped
<1>3. \/ /\ accepting'[m] = [c EXCEPT !.pc = "reopen"] /\ s \notin stranded'
         /\ sugg'[s] = sugg[s] /\ ticketed'[s] = ticketed[s]
      \/ accepting'[m] = Resting /\ sugg'[s] = sugg[s] /\ ticketed'[s] = ticketed[s] \cup {c.task}
      \/ accepting'[m] = Resting /\ sugg'[s] = Reopened /\ ticketed'[s] = ticketed[s]
      \/ s \in stranded' /\ accepting'[m] \in {Resting, [c EXCEPT !.pc = "reopen"]}
  BY <1>1 DEF CreateTicket, CreateThrows, Reopen, AcceptDies, Ticket, To, Done, LaneInv, LaneTyped
<1>4. LaneTyped'
  <2>1. sugg' \in [Suggestions -> Suggestion]
    BY <1>1 DEF CreateTicket, CreateThrows, Reopen, AcceptDies, Reopened, Suggestion, LaneInv, LaneTyped
  <2>2. accepting' \in [Members -> Acceptance]
    BY <1>1 DEF CreateTicket, CreateThrows, Reopen, AcceptDies, To, Done, Acceptance, Resting,
                LaneInv, LaneTyped
  <2>3. ticketed' \in [Suggestions -> SUBSET Tasks]
    BY <1>1 DEF CreateTicket, CreateThrows, Reopen, AcceptDies, Ticket, LaneInv, LaneTyped
  <2>4. accepting'[m] \in {Resting, [c EXCEPT !.pc = "reopen"]}
    BY <1>3
  <2>5. [c EXCEPT !.pc = "reopen"].pc = "reopen" /\ [c EXCEPT !.pc = "reopen"].on = s
        /\ [c EXCEPT !.pc = "reopen"].task = c.task
    BY DEF LaneInv, LaneTyped, Acceptance
  <2>6. \A n \in Members : IF accepting'[n].pc = "idle" THEN accepting'[n] = Resting
                           ELSE accepting'[n].on \in Suggestions /\ accepting'[n].task \in Tasks
    <3>1. \A n \in Members \ {m} : accepting'[n] = accepting[n]
      BY <1>2
    <3>2. CASE accepting'[m] = Resting
      BY <3>1, <3>2 DEF LaneInv, LaneTyped, Resting
    <3>3. CASE accepting'[m] = [c EXCEPT !.pc = "reopen"]
      BY <1>1, <2>5, <3>1, <3>3 DEF LaneInv, LaneTyped
    <3> QED  BY <2>4, <3>2, <3>3
  <2>7. stranded' \subseteq Suggestions
    BY <1>1, <1>2 DEF LaneInv, LaneTyped
  <2> QED  BY <2>1, <2>2, <2>3, <2>6, <2>7 DEF LaneTyped
<1>5. ASSUME NEW r \in Suggestions \ stranded'
      PROVE  AtWork(r)' /\ AtRest(r)'
  <2>1. AtWork(r) /\ AtRest(r)
    BY <1>2 DEF LaneInv
  <2>2. CASE r # s
    <3>1. ~HasHand(m, r) /\ ~HasHand(m, r)'
      BY <1>3, <2>2 DEF HasHand, Resting, LaneInv, LaneTyped, Acceptance
    <3>2. \A n \in Members : HasHand(n, r)' <=> HasHand(n, r)
      BY <1>2, <3>1 DEF HasHand
    <3>3. \A n \in Members : HasHand(n, r) => accepting'[n] = accepting[n]
      BY <1>2, <3>1
    <3> QED  BY <1>2, <2>1, <2>2, <3>2, <3>3 DEF AtWork, AtRest, Busy
  <2>3. CASE r = s
    <3>1. /\ HasHand(m, s) /\ \A n \in Members : HasHand(n, s) => n = m
          /\ sugg[s].status = "accepted" /\ sugg[s].task = c.task /\ ticketed[s] = {}
      BY <1>1, <2>1, <2>3 DEF AtWork, HasHand
    <3>2. \A n \in Members \ {m} : ~HasHand(n, r)'
      BY <1>2, <2>3, <3>1 DEF HasHand
    <3>3. CASE /\ accepting'[m] = [c EXCEPT !.pc = "reopen"]
               /\ sugg'[s] = sugg[s] /\ ticketed'[s] = ticketed[s]
      <4>1. accepting'[m].pc = "reopen" /\ accepting'[m].on = s /\ accepting'[m].task = c.task
        BY <3>3 DEF LaneInv, LaneTyped, Acceptance
      <4> QED  BY <2>3, <3>1, <3>2, <3>3, <4>1 DEF AtWork, AtRest, Busy, HasHand
    <3>4. CASE accepting'[m] = Resting /\ sugg'[s] = sugg[s] /\ ticketed'[s] = ticketed[s] \cup {c.task}
      BY <2>3, <3>1, <3>2, <3>4 DEF AtWork, AtRest, Busy, HasHand, Resting
    <3>5. CASE accepting'[m] = Resting /\ sugg'[s] = Reopened /\ ticketed'[s] = ticketed[s]
      BY <2>3, <3>1, <3>2, <3>5 DEF AtWork, AtRest, Busy, HasHand, Resting, Reopened
    <3> QED  BY <1>3, <2>3, <3>3, <3>4, <3>5
  <2> QED  BY <2>2, <2>3
<1> QED  BY <1>4, <1>5 DEF LaneInv

LEMMA LaneFrame == LaneInv /\ UNCHANGED laneVars => LaneInv'
BY DEF LaneInv, LaneTyped, laneVars, AtWork, AtRest, HasHand, Busy

LEMMA LaneStep == LaneInv /\ [Next]_vars => LaneInv'
<1> SUFFICES ASSUME LaneInv, [Next]_vars PROVE LaneInv'
  OBVIOUS
<1>1. CASE UNCHANGED laneVars
  BY <1>1, LaneFrame
<1>2. CASE \E s \in Suggestions : RaiseSuggestion(s) \/ DeclineSuggestion(s)
  BY <1>2, LaneRaise
<1>3. CASE \E m \in Members, s \in Suggestions, t \in Tasks : MarkAccepted(m, s, t)
  BY <1>3, LaneMark
<1>4. CASE \E m \in Members : CreateTicket(m) \/ CreateThrows(m) \/ Reopen(m) \/ AcceptDies(m)
  BY <1>4, LaneMember
<1>5. CASE \E t \in Tasks : CreateTask(t) \/ OwnerHandsOff(t) \/ Reap(t)
  BY <1>5, LaneFrame DEF CreateTask, OwnerHandsOff, Reap, laneVars
<1>6. CASE UNCHANGED vars
  BY <1>6, LaneFrame DEF vars, laneVars
<1> QED  BY <1>1, <1>2, <1>3, <1>4, <1>5, <1>6 DEF Next

(* One complaint, one ticket.  An accepted suggestion that no request is   *)
(* at work on has exactly the ticket it names, and any other has none,     *)
(* for any number of members and suggestions, unless its acceptance broke  *)
(* off half way (acceptSuggestion, its createTask and its reopen).         *)
THEOREM OneTicketEach == Spec => []AcceptedHasItsTicket
<1>1. LaneInv => AcceptedHasItsTicket
  <2> SUFFICES ASSUME LaneInv, NEW s \in Suggestions, s \notin stranded,
                      \A m \in Members : accepting[m].on # s
               PROVE  ticketed[s] = IF sugg[s].status = "accepted" THEN {sugg[s].task} ELSE {}
    BY DEF AcceptedHasItsTicket
  <2>1. AtRest(s) /\ ~Busy(s)
    BY DEF LaneInv, Busy, HasHand
  <2> QED  BY <2>1 DEF AtRest
<1> QED  BY <1>1, LaneInit, LaneStep, PTL DEF Spec

-----------------------------------------------------------------------------
(* The board's operations keep its types, and end or take one claim each.  *)

LEMMA ApplyTyped ==
  ASSUME NEW card \in Card, NEW kind, NEW a \in Agents \cup {NoAgent}, NEW b \in BOOLEAN
  PROVE  Apply(card, [kind |-> kind, agent |-> a, blocker |-> b]) \in Card
<1> DEFINE e == [kind |-> kind, agent |-> a, blocker |-> b]
<1>1. e.kind = kind /\ e.agent = a
  OBVIOUS
<1>2. e.blocker \in BOOLEAN
  OBVIOUS
<1> HIDE DEF e
<1>3. NewCard \in Card
  BY DEF NewCard, NoCard, Card, Columns
<1>4. ASSUME NEW patched \in Card, NEW to \in Columns
      PROVE  Move(card, to, patched) \in Card
  BY <1>4 DEF Move, Card
<1>5. ASSUME NEW to \in Columns
      PROVE  Move(card, to, card) \in Card
  BY <1>4
<1>6. ApplyToCard(card, e) \in Card
  <2>1. CASE kind \in {"task_claimed", "task_cancelled"}
    <3>1. [card EXCEPT !.claimed_by = a] \in Card /\ [card EXCEPT !.claimed_by = NoAgent] \in Card
      BY DEF Card
    <3> QED  BY <1>1, <2>1, <3>1, <1>4 DEF ApplyToCard, Columns
  <2>2. CASE kind \in {"task_blocked", "task_unblocked"}
    <3>1. /\ [card EXCEPT !.blocker = e.blocker] \in Card
          /\ [card EXCEPT !.claimed_by = NoAgent, !.blocker = FALSE] \in Card
      BY <1>2 DEF Card
    <3> QED  BY <1>1, <2>2, <3>1, <1>4 DEF ApplyToCard, Columns
  <2>3. CASE kind \in {"task_completed", "branch_pushed", "pr_opened", "merged"}
    BY <1>1, <2>3, <1>5 DEF ApplyToCard, Columns
  <2>4. CASE kind \in {"task_handed_off", "ci_passed", "ci_failed"}
    BY <1>1, <2>4 DEF ApplyToCard, StatusAfterHandoff, Card, Columns
  <2>5. CASE kind \notin {"task_claimed", "task_blocked", "task_unblocked", "task_completed",
                          "task_cancelled", "task_handed_off", "branch_pushed", "pr_opened",
                          "merged", "ci_passed", "ci_failed"}
    BY <1>1, <2>5 DEF ApplyToCard
  <2> QED  BY <2>1, <2>2, <2>3, <2>4, <2>5
<1>7. Apply(card, e) \in Card
  BY <1>3, <1>6 DEF Apply
<1> QED  BY <1>7 DEF e

LockDoc == [task : Tasks \cup {NoTask}, globs : Scopes \cup {NoScope}]

BoardTyped ==
  /\ tasks  \in [Tasks -> Card]
  /\ claims \in [Tasks -> Agents \cup {NoAgent}]
  /\ locks  \in [Agents -> LockDoc]

LEMMA RecordTyped ==
  ASSUME BoardTyped, NEW t \in Tasks, NEW kind, NEW a \in Agents \cup {NoAgent}, NEW b \in BOOLEAN,
         Record(kind, t, a, b)
  PROVE  tasks' \in [Tasks -> Card]
BY ApplyTyped DEF Record, BoardTyped

LEMMA CreateTyped ==
  ASSUME BoardTyped, NEW t \in Tasks, Create(t)
  PROVE  BoardTyped' /\ UNCHANGED <<claims, locks>>
BY RecordTyped DEF BoardTyped, Create

LEMMA ReportTyped ==
  ASSUME BoardTyped, NEW t \in Tasks, NEW kind, Report(kind, t, FALSE)
  PROVE  BoardTyped' /\ UNCHANGED <<claims, locks>>
BY RecordTyped DEF BoardTyped, Report

LEMMA TakeClaimTyped ==
  ASSUME BoardTyped, NEW a \in Agents, NEW t \in Tasks, TakeClaim(a, t)
  PROVE  /\ BoardTyped' /\ UNCHANGED locks
         /\ claims[t] = NoAgent /\ claims'[t] = a
         /\ \A s \in Tasks \ {t} : claims'[s] = claims[s]
BY RecordTyped DEF BoardTyped, TakeClaim

LEMMA EndClaimTyped ==
  ASSUME BoardTyped, NEW t \in Tasks, EndClaim(t) \/ HandOff(t)
  PROVE  /\ BoardTyped' /\ UNCHANGED locks
         /\ claims[t] # NoAgent /\ claims'[t] = NoAgent
         /\ \A s \in Tasks \ {t} : claims'[s] = claims[s]
BY RecordTyped DEF BoardTyped, EndClaim, HandOff

LEMMA LockTyped ==
  ASSUME BoardTyped, NEW a \in Agents, NEW t \in Tasks, NEW g \in Scopes,
         Lock(a, t, g) \/ Unlock(a)
  PROVE  /\ BoardTyped' /\ UNCHANGED <<tasks, claims>>
         /\ \A b \in Agents \ {a} : locks'[b] = locks[b]
BY DEF BoardTyped, Lock, Unlock, Unlocked, LockDoc

LEMMA BoardFrame == BoardTyped /\ UNCHANGED board => BoardTyped'
BY DEF BoardTyped, board

\* A claimTask or a releaseTask, answered yes or answered no.
LEMMA ClaimTaskEffect ==
  ASSUME BoardTyped, NEW a \in Agents, NEW t \in Tasks, ClaimTask(a, t)
  PROVE  /\ BoardTyped' /\ UNCHANGED locks /\ claims'[t] = a
         /\ \A s \in Tasks : claims'[s] # claims[s] => s = t /\ claims[s] = NoAgent
BY TakeClaimTyped, BoardFrame DEF ClaimTask, board

LEMMA ReleaseTaskEffect ==
  ASSUME BoardTyped, NEW a \in Agents, NEW t \in Tasks, ReleaseTask(a, t)
  PROVE  /\ BoardTyped' /\ UNCHANGED locks /\ claims'[t] # a
         /\ \A s \in Tasks : claims'[s] # claims[s] => s = t /\ claims[s] = a /\ claims'[s] = NoAgent
<1>1. NoAgent # a
  BY NoAgentAssumption
<1>2. CASE claims[t] = a
  BY <1>1, <1>2, EndClaimTyped DEF ReleaseTask
<1>3. CASE claims[t] # a
  BY <1>1, <1>3, BoardFrame DEF ReleaseTask, board
<1> QED  BY <1>2, <1>3

-----------------------------------------------------------------------------
(* The invariant of the agents' commands.                                  *)

\* Work that was pushed: the branch holds it at that commit.
Pushed(b, h, w) == b # NoBranch /\ h \in 1 .. Tip(b) /\ CommitAt(b, h) = w

\* What a command knows is still so, whatever the others did since it read it.
Standing(a) ==
  LET c == cmd[a] IN
  /\ c.op = "none" => c = NoCommand
  /\ c.op = "claim" <=> c.pc \in {"picked", "won", "claimed", "refused"}
  /\ c.pc \in {"head", "handoff"} => c.op = "handoff"
  /\ c.pc = "won" => c.scope = Declared[c.task]
  /\ c.pc \notin {"idle", "picked"} => c.task \in Tasks
  /\ c.pc \in {"status", "fetch", "push", "head"} => c.branch \in Branch
  /\ c.pc \in {"status", "head"} => c.work = AsBefore
  /\ c.pc = "handoff" /\ c.work # AsBefore => Pushed(c.branch, c.head, c.work)
  /\ c.op \in {"release", "handoff", "ship"} /\ c.scope # NoScope =>
       locks[a].task = c.task \/ c.beside

\* A claim on a task with a scope got that scope, is after it, or is being given back.
Accounted(a, t) ==
  claims[t] = a /\ Declared[t] # NoScope =>
    \/ <<a, t, Declared[t]>> \in granted
    \/ <<a, t>> \in unheard
    \/ /\ cmd[a].task = t
       /\ \/ cmd[a].pc \in {"won", "claimed"} /\ cmd[a].scope = Declared[t]
          \/ cmd[a].pc = "refused"

CommandsStand == \A a \in Agents : Standing(a) /\ \A t \in Tasks : Accounted(a, t)

AgentsTyped ==
  /\ BoardTyped
  /\ granted \subseteq Agents \X Tasks \X Scopes
  /\ cmd     \in [Agents -> Command]
  /\ tree    \in [Agents -> Content]
  /\ remote  \in [Branch -> Seq(Content)]
  /\ notes   \in [Tasks -> Seq(Note)]
  /\ unheard \subseteq Agents \X Tasks
  /\ requests \in 0 .. MaxRequests
  /\ edits    \in 0 .. MaxEdits
  /\ faults   \in 0 .. MaxFaults

FleetInv == AgentsTyped /\ CommandsStand /\ HandoffHoldsWork

LEMMA BoundsAreNat ==
  MaxRequests \in Nat /\ MaxEdits \in Nat /\ MaxFaults \in Nat /\ MaxAttempts \in Nat
BY WorkflowAssumption

LEMMA NoBranchIsNone == NoBranch \notin Branch
BY WorkflowAssumption DEF NoBranch, Branch

LEMMA AsBeforeTyped == AsBefore \in Content
BY BoundsAreNat DEF AsBefore, Content

LEMMA NoCommandTyped == NoCommand \in Command
BY AsBeforeTyped DEF NoCommand, Command

LEMMA FleetInit == Init => FleetInv
<1> SUFFICES ASSUME Init PROVE FleetInv
  OBVIOUS
<1> USE DEF Init, WorkflowInit
<1>1. BoardTyped
  BY DEF BoardTyped, Card, NewCard, NoCard, Columns, LockDoc, Unlocked
<1>2. AgentsTyped
  <2>1. \A b \in Branch : <<>> \in Seq(Content)
    OBVIOUS
  <2>2. \A t \in Tasks : <<>> \in Seq(Note)
    OBVIOUS
  <2>3. cmd \in [Agents -> Command] /\ tree \in [Agents -> Content]
    BY NoCommandTyped, AsBeforeTyped
  <2> QED  BY <1>1, <2>1, <2>2, <2>3, BoundsAreNat DEF AgentsTyped
<1>3. CommandsStand
  <2> SUFFICES ASSUME NEW a \in Agents PROVE Standing(a) /\ \A t \in Tasks : Accounted(a, t)
    BY DEF CommandsStand
  <2>1. Standing(a)
    BY DEF Standing, NoCommand
  <2>2. \A t \in Tasks : Accounted(a, t)
    BY NoAgentAssumption DEF Accounted
  <2> QED  BY <2>1, <2>2
<1>4. HandoffHoldsWork
  BY DEF HandoffHoldsWork
<1> QED  BY <1>2, <1>3, <1>4 DEF FleetInv

-----------------------------------------------------------------------------
(* What one agent's step may do to everybody else: it writes its own       *)
(* command and its own lock, takes free claims and ends its own, and adds  *)
(* to branches, grants and unheard claims without taking any away.         *)

RemoteGrows ==
  \A b \in Branch : /\ Tip(b) <= Tip(b)'
                    /\ \A i \in 1 .. Tip(b) : remote'[b][i] = remote[b][i]

Step(a) ==
  /\ AgentsTyped'
  /\ HandoffHoldsWork'
  /\ \A b \in Agents \ {a} : cmd'[b] = cmd[b] /\ locks'[b] = locks[b]
  /\ \A t \in Tasks : claims'[t] # claims[t] => claims'[t] \in {a, NoAgent}
  /\ granted \subseteq granted' /\ unheard \subseteq unheard'
  /\ RemoteGrows

\* A command touches its own ticket only; OwnTicketOnly is this of every agent.
OwnOnly(a) ==
  cmd[a] # NoCommand /\ cmd'[a] # cmd[a] =>
    /\ \A t \in Tasks : claims[t] # NoAgent /\ claims'[t] # claims[t] =>
         t = cmd[a].task /\ (claims[t] = a \/ (a \in Owners /\ cmd[a].op = "handoff"))
    /\ locks[a] # Unlocked /\ locks'[a] = Unlocked =>
         locks[a].task = cmd[a].task \/ cmd[a].beside

Good(a) == Step(a) /\ Standing(a)' /\ (\A t \in Tasks : Accounted(a, t)') /\ OwnOnly(a)

LEMMA PushedLasts ==
  ASSUME AgentsTyped, AgentsTyped', RemoteGrows, NEW b \in Branch \cup {NoBranch}, NEW h \in Nat,
         NEW w, Pushed(b, h, w)
  PROVE  b # NoBranch /\ h \in 1 .. Tip(b)' /\ (CommitAt(b, h) = w)'
<1>1. b \in Branch /\ h \in 1 .. Tip(b)
  BY DEF Pushed
<1>2. Tip(b) \in Nat /\ Tip(b)' \in Nat /\ Tip(b) <= Tip(b)' /\ remote'[b][h] = remote[b][h]
  <2>1. remote[b] \in Seq(Content) /\ remote'[b] \in Seq(Content)
    BY <1>1 DEF AgentsTyped
  <2> QED  BY <1>1, <2>1 DEF Tip, RemoteGrows
<1>3. h # 0 /\ h \in 1 .. Tip(b)'
  BY <1>1, <1>2
<1> QED  BY <1>2, <1>3 DEF Pushed, CommitAt

\* The others' commands still stand after a step of a.
LEMMA OthersStand ==
  ASSUME FleetInv, NEW a \in Agents, Good(a)
  PROVE  FleetInv' /\ \A b \in Agents : OwnOnly(b)
<1> SUFFICES ASSUME NEW b \in Agents \ {a}
             PROVE  Standing(b)' /\ (\A t \in Tasks : Accounted(b, t)') /\ OwnOnly(b)
  BY DEF Good, Step, FleetInv, CommandsStand
<1>1. cmd'[b] = cmd[b] /\ locks'[b] = locks[b] /\ cmd[b] \in Command
  BY DEF Good, Step, FleetInv, AgentsTyped
<1>2. Standing(b)'
  <2>1. Standing(b)
    BY DEF FleetInv, CommandsStand
  <2>2. cmd[b].branch \in Branch \cup {NoBranch} /\ cmd[b].head \in Nat
    BY <1>1 DEF Command
  <2>3. cmd'[b].pc = "handoff" /\ cmd'[b].work # AsBefore =>
          Pushed(cmd[b].branch, cmd[b].head, cmd[b].work)'
    <3> SUFFICES ASSUME cmd[b].pc = "handoff", cmd[b].work # AsBefore
                 PROVE  Pushed(cmd[b].branch, cmd[b].head, cmd[b].work)'
      BY <1>1
    <3>1. Pushed(cmd[b].branch, cmd[b].head, cmd[b].work)
      BY <2>1 DEF Standing
    <3> QED  BY <1>1, <2>2, <3>1, PushedLasts DEF FleetInv, Good, Step, Pushed, Tip, CommitAt
  <2> QED  BY <1>1, <2>1, <2>3 DEF Standing
<1>3. ASSUME NEW t \in Tasks PROVE Accounted(b, t)'
  <2>1. Accounted(b, t)
    BY DEF FleetInv, CommandsStand
  <2>2. claims'[t] = b => claims[t] = b
    BY NoAgentAssumption DEF Good, Step
  <2> QED  BY <1>1, <2>1, <2>2 DEF Accounted, Good, Step
<1>4. OwnOnly(b)
  BY <1>1 DEF OwnOnly
<1> QED  BY <1>2, <1>3, <1>4

LEMMA NotesHold ==
  ASSUME FleetInv, AgentsTyped', RemoteGrows,
         \A t \in Tasks : \A i \in 1 .. Len(notes'[t]) :
           \/ i \in 1 .. Len(notes[t]) /\ notes'[t][i] = notes[t][i]
           \/ notes'[t][i].work = AsBefore
           \/ Pushed(notes'[t][i].branch, notes'[t][i].head, notes'[t][i].work)
  PROVE  HandoffHoldsWork'
<1> SUFFICES ASSUME NEW t \in Tasks, NEW i \in 1 .. Len(notes'[t]), notes'[t][i].work # AsBefore
             PROVE  /\ notes'[t][i].branch # NoBranch
                    /\ notes'[t][i].head \in 1 .. Len(remote'[notes'[t][i].branch])
                    /\ notes'[t][i].work = IF notes'[t][i].head = 0 THEN AsBefore
                                          ELSE remote'[notes'[t][i].branch][notes'[t][i].head]
  BY DEF HandoffHoldsWork, Tip, CommitAt
<1> DEFINE n == notes'[t][i]
<1>1. Pushed(n.branch, n.head, n.work)
  BY DEF FleetInv, HandoffHoldsWork, Pushed, Tip, CommitAt
<1>2. n \in Note
  BY DEF AgentsTyped
<1>3. n.branch \in Branch \cup {NoBranch} /\ n.head \in Nat
  BY <1>2 DEF Note
<1>4. n.branch \in Branch /\ n.head \in 1 .. Tip(n.branch) /\ CommitAt(n.branch, n.head) = n.work
  BY <1>1, <1>3 DEF Pushed
<1> HIDE DEF n
<1>5. remote[n.branch] \in Seq(Content) /\ remote'[n.branch] \in Seq(Content)
  BY <1>4 DEF FleetInv, AgentsTyped
<1>6. /\ Len(remote[n.branch]) \in Nat /\ Len(remote'[n.branch]) \in Nat
      /\ Len(remote[n.branch]) <= Len(remote'[n.branch])
      /\ remote'[n.branch][n.head] = remote[n.branch][n.head]
  BY <1>4, <1>5 DEF RemoteGrows, Tip
<1>7. n.head # 0 /\ n.head \in 1 .. Len(remote'[n.branch]) /\ remote'[n.branch][n.head] = n.work
  BY <1>4, <1>6 DEF Tip, CommitAt
<1>8. n.branch # NoBranch
  BY <1>4, NoBranchIsNone
<1> QED  BY <1>7, <1>8 DEF n

\* A step that pushes nothing and hands nothing off.
LEMMA Calm ==
  ASSUME FleetInv, NEW a \in Agents, NEW c \in Command,
         cmd' = [cmd EXCEPT ![a] = c],
         BoardTyped', \A b \in Agents \ {a} : locks'[b] = locks[b],
         \A t \in Tasks : claims'[t] # claims[t] => claims'[t] \in {a, NoAgent},
         granted \subseteq granted', granted' \subseteq Agents \X Tasks \X Scopes,
         unheard \subseteq unheard', unheard' \subseteq Agents \X Tasks,
         UNCHANGED <<gitVars, notes>>,
         requests' \in 0 .. MaxRequests, faults' \in 0 .. MaxFaults
  PROVE  Step(a) /\ cmd'[a] = c
<1>1. AgentsTyped'
  BY DEF FleetInv, AgentsTyped, gitVars
<1>2. RemoteGrows
  <2>1. \A b \in Branch : Len(remote[b]) \in Nat
    BY DEF FleetInv, AgentsTyped
  <2> QED  BY <2>1 DEF RemoteGrows, gitVars, Tip
<1>3. HandoffHoldsWork'
  BY <1>1, <1>2, NotesHold
<1>4. cmd'[a] = c /\ \A b \in Agents \ {a} : cmd'[b] = cmd[b]
  BY DEF FleetInv, AgentsTyped
<1> QED  BY <1>1, <1>2, <1>3, <1>4 DEF Step

LEMMA Known ==
  ASSUME FleetInv, NEW a \in Agents
  PROVE  /\ AgentsTyped /\ BoardTyped /\ Standing(a) /\ cmd[a] \in Command
         /\ \A t \in Tasks : Accounted(a, t)
         /\ requests \in 0 .. MaxRequests /\ faults \in 0 .. MaxFaults
         /\ granted \subseteq Agents \X Tasks \X Scopes /\ unheard \subseteq Agents \X Tasks
BY DEF FleetInv, CommandsStand, AgentsTyped

\* The ways a command moves on: it begins, goes on, ends, or dies.
LEMMA Begun ==
  ASSUME FleetInv, NEW a \in Agents, NEW c \in Command, Begin(a, c)
  PROVE  /\ cmd[a] = NoCommand
         /\ cmd' = [cmd EXCEPT ![a] = c]
         /\ requests' \in 0 .. MaxRequests /\ faults' \in 0 .. MaxFaults
<1>1. cmd[a] = NoCommand
  BY Known DEF Standing, Begin, Idle
<1>2. requests' \in 0 .. MaxRequests
  BY Known, BoundsAreNat DEF Begin, Request
<1> QED  BY <1>1, <1>2, Known DEF Begin

LEMMA Gone ==
  ASSUME FleetInv, NEW a \in Agents, NEW c, Go(a, c)
  PROVE  /\ cmd' = [cmd EXCEPT ![a] = c]
         /\ requests' \in 0 .. MaxRequests /\ faults' \in 0 .. MaxFaults
BY Known DEF Go

LEMMA Faulted ==
  ASSUME FleetInv, Fault
  PROVE  faults' \in 0 .. MaxFaults
BY BoundsAreNat DEF FleetInv, AgentsTyped, Fault

LEMMA EndedStands ==
  ASSUME NEW a \in Agents, cmd'[a] = NoCommand
  PROVE  Standing(a)'
BY DEF Standing, NoCommand

\* Nothing a command does away from its scope brings it a claim it must account for.
LEMMA StillAccounted ==
  ASSUME FleetInv, NEW a \in Agents, Step(a), NEW t \in Tasks,
         claims'[t] = a => claims[t] = a,
         cmd[a].pc \notin {"won", "claimed", "refused"}
  PROVE  Accounted(a, t)'
BY Known DEF Accounted, Step

\* A step that leaves the board alone ends no claim and frees no lock.
LEMMA BoardUntouched ==
  ASSUME FleetInv, NEW a \in Agents, UNCHANGED board
  PROVE  /\ BoardTyped' /\ \A b \in Agents \ {a} : locks'[b] = locks[b]
         /\ \A t \in Tasks : claims'[t] # claims[t] => claims'[t] \in {a, NoAgent}
         /\ \A t \in Tasks : claims'[t] = a => claims[t] = a
         /\ OwnOnly(a)
BY Known, BoardFrame DEF board, OwnOnly

-----------------------------------------------------------------------------
(* claim.                                                                  *)

LEMMA StartClaimGood ==
  ASSUME FleetInv, NEW a \in Agents, NEW t \in Tasks, NEW flag \in Scopes \cup {NoScope},
         StartClaim(a, t, flag)
  PROVE  Good(a)
<1> DEFINE d == [NoCommand EXCEPT !.op = "claim", !.pc = "claimed", !.task = t, !.scope = Want(t, flag)]
<1>1. Want(t, flag) \in Scopes \cup {NoScope}
  BY WorkflowAssumption DEF Want
<1>2. d \in Command
  BY <1>1, NoCommandTyped DEF Command
<1>3. Begin(a, d)
  BY DEF StartClaim
<1>4. d.op = "claim" /\ d.pc = "claimed" /\ d.task = t /\ d.scope = Want(t, flag)
  BY DEF NoCommand
<1>5. cmd[a] = NoCommand /\ d \in Command /\ cmd' = [cmd EXCEPT ![a] = d]
      /\ requests' \in 0 .. MaxRequests /\ faults' \in 0 .. MaxFaults
  BY <1>2, <1>3, Begun
<1>6. /\ BoardTyped' /\ UNCHANGED locks
      /\ \A s \in Tasks : claims'[s] # claims[s] => s = t /\ claims[s] = NoAgent /\ claims'[s] = a
  BY Known, ClaimTaskEffect DEF StartClaim
<1> HIDE DEF d
<1>7. Step(a) /\ cmd'[a] = d
  BY <1>5, <1>6, Known, Calm DEF StartClaim
<1>8. Standing(a)'
  BY <1>4, <1>7 DEF Standing
<1>9. ASSUME NEW s \in Tasks PROVE Accounted(a, s)'
  <2>1. CASE s = t /\ Declared[t] # NoScope
    BY <1>4, <1>7, <2>1 DEF Accounted, Want
  <2>2. CASE s # t
    <3>1. cmd[a].pc \notin {"won", "claimed", "refused"}
      BY <1>5 DEF NoCommand
    <3> QED  BY <1>6, <1>7, <2>2, <3>1, StillAccounted
  <2>3. CASE s = t /\ Declared[t] = NoScope
    BY <2>3 DEF Accounted
  <2> QED  BY <2>1, <2>2, <2>3
<1> QED  BY <1>5, <1>7, <1>8, <1>9 DEF Good, OwnOnly

LEMMA StartClaimNextGood ==
  ASSUME FleetInv, NEW a \in Agents, StartClaimNext(a)
  PROVE  Good(a)
<1> DEFINE d == [NoCommand EXCEPT !.op = "claim", !.pc = "picked", !.fits = Fits(a)]
<1>1. d \in Command
  <2>1. Fits(a) \in SUBSET Tasks
    BY DEF Fits
  <2> QED  BY <2>1, NoCommandTyped DEF Command
<1>2. Begin(a, d)
  BY DEF StartClaimNext
<1>3. d.op = "claim" /\ d.pc = "picked"
  BY DEF NoCommand
<1>4. cmd[a] = NoCommand /\ d \in Command /\ cmd' = [cmd EXCEPT ![a] = d]
      /\ requests' \in 0 .. MaxRequests /\ faults' \in 0 .. MaxFaults
  BY <1>1, <1>2, Begun
<1> HIDE DEF d
<1>5. Step(a) /\ cmd'[a] = d
  <2>1. UNCHANGED <<board, granted, gitVars, notes, unheard>>
    BY DEF StartClaimNext
  <2>2. /\ granted' \subseteq Agents \X Tasks \X Scopes /\ granted \subseteq granted'
        /\ unheard' \subseteq Agents \X Tasks /\ unheard \subseteq unheard'
    BY <2>1, Known
  <2>3. /\ BoardTyped' /\ \A b \in Agents \ {a} : locks'[b] = locks[b]
        /\ \A s \in Tasks : claims'[s] # claims[s] => claims'[s] \in {a, NoAgent}
    BY <2>1, Known, BoardUntouched
  <2> QED  BY <1>4, <2>1, <2>2, <2>3, Calm
<1>6. Standing(a)'
  BY <1>3, <1>5 DEF Standing
<1>7. cmd[a].pc \notin {"won", "claimed", "refused"}
  BY <1>4 DEF NoCommand
<1> QED  BY <1>5, <1>6, <1>7, StillAccounted, BoardUntouched DEF Good, StartClaimNext

LEMMA TryNextGood ==
  ASSUME FleetInv, NEW a \in Agents, TryNext(a)
  PROVE  Good(a)
<1> DEFINE k == cmd[a]
<1>1. k.pc = "picked" /\ k.op = "claim" /\ k \in Command /\ k # NoCommand
  BY Known DEF TryNext, At, Standing, NoCommand
<1>2. PICK t \in k.fits :
        \/ /\ ClaimTask(a, t)
           /\ Go(a, [k EXCEPT !.pc = "won", !.task = t, !.scope = Declared[t], !.fits = {}])
        \/ /\ claims[t] \notin {NoAgent, a}
           /\ Go(a, IF k.fits = {t} THEN NoCommand ELSE [k EXCEPT !.fits = @ \ {t}])
           /\ UNCHANGED board
  BY DEF TryNext
<1>3. t \in Tasks
  BY <1>1 DEF Command
<1>4. CASE /\ ClaimTask(a, t)
           /\ Go(a, [k EXCEPT !.pc = "won", !.task = t, !.scope = Declared[t], !.fits = {}])
  <2> DEFINE d == [k EXCEPT !.pc = "won", !.task = t, !.scope = Declared[t], !.fits = {}]
  <2>1. d \in Command /\ d.op = "claim" /\ d.pc = "won" /\ d.task = t /\ d.scope = Declared[t]
    <3>1. Declared[t] \in Scopes \cup {NoScope} /\ {} \in SUBSET Tasks
      BY <1>3, WorkflowAssumption
    <3> QED  BY <1>1, <1>3, <3>1 DEF Command
  <2>2. /\ cmd' = [cmd EXCEPT ![a] = d]
        /\ requests' \in 0 .. MaxRequests /\ faults' \in 0 .. MaxFaults
    BY <1>4, Gone
  <2>3. /\ BoardTyped' /\ UNCHANGED locks
        /\ \A s \in Tasks : claims'[s] # claims[s] => s = t /\ claims[s] = NoAgent /\ claims'[s] = a
    BY <1>3, <1>4, Known, ClaimTaskEffect
  <2> HIDE DEF d
  <2>4. Step(a) /\ cmd'[a] = d
    <3>1. UNCHANGED <<granted, gitVars, notes, unheard>>
      BY DEF TryNext
    <3>2. /\ granted' \subseteq Agents \X Tasks \X Scopes /\ granted \subseteq granted'
          /\ unheard' \subseteq Agents \X Tasks /\ unheard \subseteq unheard'
      BY <3>1, Known
    <3>3. /\ \A b \in Agents \ {a} : locks'[b] = locks[b]
          /\ \A s \in Tasks : claims'[s] # claims[s] => claims'[s] \in {a, NoAgent}
      BY <2>3
    <3> QED  BY <2>1, <2>2, <2>3, <3>1, <3>2, <3>3, Calm
  <2>5. Standing(a)'
    BY <1>3, <2>1, <2>4 DEF Standing
  <2>6. ASSUME NEW s \in Tasks PROVE Accounted(a, s)'
    <3>1. CASE s = t
      BY <2>1, <2>4, <3>1 DEF Accounted
    <3>2. CASE s # t
      BY <1>1, <2>3, <2>4, <3>2, StillAccounted
    <3> QED  BY <3>1, <3>2
  <2>7. OwnOnly(a)
    BY <2>3 DEF OwnOnly
  <2> QED  BY <2>4, <2>5, <2>6, <2>7 DEF Good
<1>5. CASE /\ claims[t] \notin {NoAgent, a}
           /\ Go(a, IF k.fits = {t} THEN NoCommand ELSE [k EXCEPT !.fits = @ \ {t}])
           /\ UNCHANGED board
  <2> DEFINE d == IF k.fits = {t} THEN NoCommand ELSE [k EXCEPT !.fits = @ \ {t}]
  <2>1. d \in Command /\ (d = NoCommand \/ (d.op = "claim" /\ d.pc = "picked"))
    <3>1. k.fits \ {t} \in SUBSET Tasks
      BY <1>1 DEF Command
    <3>2. [k EXCEPT !.fits = @ \ {t}] \in Command
      BY <1>1, <3>1 DEF Command
    <3>3. [k EXCEPT !.fits = @ \ {t}].op = "claim" /\ [k EXCEPT !.fits = @ \ {t}].pc = "picked"
      BY <1>1 DEF Command
    <3> QED  BY <3>2, <3>3, NoCommandTyped
  <2>2. /\ cmd' = [cmd EXCEPT ![a] = d]
        /\ requests' \in 0 .. MaxRequests /\ faults' \in 0 .. MaxFaults
    BY <1>5, Gone
  <2> HIDE DEF d
  <2>3. Step(a) /\ cmd'[a] = d
    BY <1>5, <2>1, <2>2, Known, BoardUntouched, Calm DEF TryNext
  <2>4. Standing(a)'
    BY <2>1, <2>3, EndedStands DEF Standing
  <2> QED  BY <1>1, <1>5, <2>3, <2>4, StillAccounted, BoardUntouched DEF Good
<1> QED  BY <1>2, <1>4, <1>5

LEMMA ClaimAgainGood ==
  ASSUME FleetInv, NEW a \in Agents, ClaimAgain(a)
  PROVE  Good(a)
<1> DEFINE k == cmd[a]  d == [k EXCEPT !.pc = "claimed"]
<1>1. /\ k.pc = "won" /\ k.op = "claim" /\ k \in Command /\ k.task \in Tasks
      /\ k.scope = Declared[k.task]
      /\ \A s \in Tasks : Accounted(a, s)
  BY Known DEF ClaimAgain, At, Standing
<1>2. UNCHANGED <<granted, gitVars, notes, unheard>>
  BY DEF ClaimAgain
<1>3. CASE ClaimTask(a, k.task) /\ GoTo(a, "claimed")
  <2>1. /\ d \in Command /\ d.op = "claim" /\ d.pc = "claimed" /\ d.task = k.task
        /\ d.scope = k.scope
    BY <1>1 DEF Command
  <2>2. /\ cmd' = [cmd EXCEPT ![a] = d]
        /\ requests' \in 0 .. MaxRequests /\ faults' \in 0 .. MaxFaults
    BY <1>3, Gone DEF GoTo
  <2>3. /\ BoardTyped' /\ UNCHANGED locks
        /\ \A s \in Tasks : claims'[s] # claims[s] => s = k.task /\ claims[s] = NoAgent /\ claims'[s] = a
    BY <1>1, <1>3, Known, ClaimTaskEffect
  <2> HIDE DEF d
  <2>4. Step(a) /\ cmd'[a] = d
    BY <1>2, <2>1, <2>2, <2>3, Known, Calm
  <2>5. Standing(a)'
    BY <1>1, <2>1, <2>4 DEF Standing
  <2>6. ASSUME NEW s \in Tasks PROVE Accounted(a, s)'
    <3>1. Accounted(a, s)
      BY <1>1
    <3>2. claims'[s] = a => claims[s] = a \/ s = k.task
      BY <2>3
    <3>3. /\ granted' = granted /\ unheard' = unheard
          /\ cmd'[a].task = k.task /\ cmd'[a].scope = k.scope /\ cmd'[a].pc = "claimed"
      BY <1>2, <2>1, <2>4
    <3> QED  BY <1>1, <3>1, <3>2, <3>3 DEF Accounted
  <2>7. OwnOnly(a)
    BY <2>3 DEF OwnOnly
  <2> QED  BY <2>4, <2>5, <2>6, <2>7 DEF Good
<1>4. CASE claims[k.task] \notin {NoAgent, a} /\ End(a) /\ UNCHANGED board
  <2>1. Step(a) /\ cmd'[a] = NoCommand
    BY <1>2, <1>4, Gone, NoCommandTyped, Known, BoardUntouched, Calm DEF End
  <2>2. \A s \in Tasks : Accounted(a, s)'
    BY <1>1, <1>2, <1>4 DEF Accounted, board
  <2> QED  BY <1>4, <2>1, <2>2, EndedStands, BoardUntouched DEF Good
<1> QED  BY <1>3, <1>4 DEF ClaimAgain

\* The lock goes over to another ticket, and the command on this one is told nothing.
LEMMA ClaimBesideGood ==
  ASSUME FleetInv, NEW a \in Agents, NEW t \in Tasks, NEW flag \in Scopes \cup {NoScope},
         ClaimBeside(a, t, flag)
  PROVE  Good(a)
<1> DEFINE k == cmd[a]  g == Want(t, flag)  d == [k EXCEPT !.beside = TRUE]
<1>1. k \in Command /\ Standing(a) /\ (\A s \in Tasks : Accounted(a, s)) /\ k.op # "none"
  BY Known DEF ClaimBeside, Standing, NoCommand
<1>2. g \in Scopes /\ g # NoScope
  BY WorkflowAssumption DEF ClaimBeside
<1>3. /\ d \in Command /\ d.op = k.op /\ d.pc = k.pc /\ d.task = k.task /\ d.scope = k.scope
      /\ d.branch = k.branch /\ d.head = k.head /\ d.work = k.work /\ d.beside = TRUE
  BY <1>1 DEF Command
<1>4. cmd' = [cmd EXCEPT ![a] = d]
  BY Known DEF ClaimBeside, AgentsTyped
<1>5. requests' \in 0 .. MaxRequests /\ faults' \in 0 .. MaxFaults
  BY Known, BoundsAreNat DEF ClaimBeside, Request
<1>6. /\ granted \subseteq granted' /\ granted' \subseteq Agents \X Tasks \X Scopes
      /\ UNCHANGED <<gitVars, notes, unheard>>
  BY <1>2, Known DEF ClaimBeside
<1>7. /\ BoardTyped' /\ UNCHANGED claims /\ \A b \in Agents \ {a} : locks'[b] = locks[b]
      /\ locks'[a] = [task |-> t, globs |-> g]
  BY <1>2, Known, LockTyped DEF ClaimBeside, Lock, BoardTyped
<1> HIDE DEF d, g
<1>8. Step(a) /\ cmd'[a] = d
  BY <1>3, <1>4, <1>5, <1>6, <1>7, Known, Calm
<1>9. Standing(a)'
  <2>1. Pushed(k.branch, k.head, k.work) => (Pushed(cmd[a].branch, cmd[a].head, cmd[a].work))'
    BY <1>3, <1>6, <1>8 DEF Pushed, gitVars, Tip, CommitAt
  <2> QED  BY <1>1, <1>3, <1>8, <2>1 DEF Standing
<1>10. \A s \in Tasks : Accounted(a, s)'
  BY <1>1, <1>3, <1>6, <1>7, <1>8 DEF Accounted
<1>11. OwnOnly(a)
  <2>1. locks'[a] # Unlocked
    BY <1>2, <1>7 DEF Unlocked
  <2> QED  BY <1>7, <2>1 DEF OwnOnly
<1> QED  BY <1>8, <1>9, <1>10, <1>11 DEF Good

LEMMA AcquireGood ==
  ASSUME FleetInv, NEW a \in Agents, Acquire(a)
  PROVE  Good(a)
<1> DEFINE k == cmd[a]  g == cmd[a].scope
<1>1. k.pc = "claimed" /\ k.op = "claim" /\ k \in Command /\ k.task \in Tasks
  BY Known DEF Acquire, At, Standing
<1>2. g \in Scopes \cup {NoScope}
  BY <1>1 DEF Command
<1>3. ASSUME NEW s \in Tasks PROVE Accounted(a, s)
  BY Known
<1>4. CASE g = NoScope /\ End(a) /\ UNCHANGED <<board, granted>>
  <2>1. Step(a) /\ cmd'[a] = NoCommand
    BY <1>4, Gone, NoCommandTyped, Known, BoardUntouched, Calm DEF Acquire, End
  <2>2. \A s \in Tasks : Accounted(a, s)'
    BY <1>1, <1>3, <1>4 DEF Accounted, board, Acquire
  <2> QED  BY <1>4, <2>1, <2>2, EndedStands, BoardUntouched DEF Good
<1>5. CASE g # NoScope /\ GoTo(a, "refused") /\ UNCHANGED <<board, granted>>
  <2> DEFINE d == [k EXCEPT !.pc = "refused"]
  <2>1. d \in Command /\ d.op = "claim" /\ d.pc = "refused" /\ d.task = k.task
    BY <1>1 DEF Command
  <2>2. Go(a, d)
    BY <1>5 DEF GoTo
  <2> HIDE DEF d
  <2>3. Step(a) /\ cmd'[a] = d
    BY <1>5, <2>1, <2>2, Gone, Known, BoardUntouched, Calm DEF Acquire
  <2>4. Standing(a)'
    BY <1>1, <2>1, <2>3 DEF Standing
  <2>5. \A s \in Tasks : Accounted(a, s)'
    BY <1>1, <1>3, <1>5, <2>1, <2>3 DEF Accounted, board, Acquire
  <2> QED  BY <1>5, <2>3, <2>4, <2>5, BoardUntouched DEF Good
<1>6. CASE /\ g \in Fence[a]
           /\ IF <<a, k.task, g>> \in granted THEN UNCHANGED board ELSE Lock(a, k.task, g)
           /\ granted' = granted \cup {<<a, k.task, g>>}
           /\ End(a)
  <2>1. g \in Scopes /\ g # NoScope
    BY <1>6, WorkflowAssumption
  <2>2. /\ BoardTyped' /\ UNCHANGED claims
        /\ \A b \in Agents \ {a} : locks'[b] = locks[b]
        /\ locks'[a] \in {locks[a], [task |-> k.task, globs |-> g]}
    <3>1. CASE UNCHANGED board
      BY <3>1, BoardUntouched DEF board
    <3>2. CASE Lock(a, k.task, g)
      BY <1>1, <2>1, <3>2, Known, LockTyped DEF Lock, BoardTyped
    <3> QED  BY <1>6, <3>1, <3>2
  <2>3. granted' \subseteq Agents \X Tasks \X Scopes
    BY <1>1, <1>6, <2>1, Known
  <2>4. Step(a) /\ cmd'[a] = NoCommand
    BY <1>6, <2>2, <2>3, Gone, NoCommandTyped, Known, Calm DEF Acquire, End
  <2>5. \A s \in Tasks : Accounted(a, s)'
    BY <1>1, <1>3, <1>6, <2>2 DEF Accounted, Acquire
  <2>6. OwnOnly(a)
    <3>1. [task |-> k.task, globs |-> g] # Unlocked
      BY <2>1 DEF Unlocked
    <3> QED  BY <2>2, <3>1 DEF OwnOnly
  <2> QED  BY <2>4, <2>5, <2>6, EndedStands DEF Good
<1> QED  BY <1>4, <1>5, <1>6 DEF Acquire

LEMMA GiveBackGood ==
  ASSUME FleetInv, NEW a \in Agents, GiveBack(a)
  PROVE  Good(a)
<1>1. cmd[a].pc = "refused" /\ cmd[a].task \in Tasks
  BY Known DEF GiveBack, At, Standing
<1>2. /\ BoardTyped' /\ UNCHANGED locks /\ claims'[cmd[a].task] # a
      /\ \A s \in Tasks : claims'[s] # claims[s] => s = cmd[a].task /\ claims[s] = a /\ claims'[s] = NoAgent
  BY <1>1, Known, ReleaseTaskEffect DEF GiveBack
<1>3. Step(a) /\ cmd'[a] = NoCommand
  BY <1>2, Gone, NoCommandTyped, Known, Calm DEF GiveBack, End
<1>4. ASSUME NEW s \in Tasks PROVE Accounted(a, s)'
  <2>1. Accounted(a, s)
    BY Known
  <2> QED  BY <1>1, <1>2, <2>1, NoAgentAssumption DEF Accounted, GiveBack
<1>5. OwnOnly(a)
  BY <1>2 DEF OwnOnly
<1> QED  BY <1>3, <1>4, <1>5, EndedStands DEF Good

-----------------------------------------------------------------------------
(* release.                                                                *)

\* A step of a command that changes nothing but the command.
LEMMA MovedOn ==
  ASSUME FleetInv, NEW a \in Agents, NEW d \in Command,
         cmd' = [cmd EXCEPT ![a] = d], UNCHANGED <<board, granted, gitVars, notes, unheard>>,
         requests' \in 0 .. MaxRequests, faults' \in 0 .. MaxFaults,
         cmd[a].pc \notin {"won", "claimed", "refused"}
  PROVE  /\ Step(a) /\ cmd'[a] = d /\ OwnOnly(a)
         /\ \A t \in Tasks : Accounted(a, t)'
<1>1. Step(a) /\ cmd'[a] = d
  BY Known, BoardUntouched, Calm
<1> QED  BY <1>1, BoardUntouched, StillAccounted

LEMMA LockForHeld ==
  ASSUME FleetInv, NEW a \in Agents, NEW t \in Tasks
  PROVE  /\ LockFor(a, t) \in Scopes \cup {NoScope}
         /\ LockFor(a, t) # NoScope => locks[a].task = t
<1>1. locks[a] \in LockDoc
  BY Known DEF BoardTyped
<1> QED  BY <1>1 DEF LockFor, LockDoc

LEMMA StartReleaseGood ==
  ASSUME FleetInv, NEW a \in Agents, NEW t \in Tasks, StartRelease(a, t)
  PROVE  Good(a)
<1> DEFINE d == [NoCommand EXCEPT !.op = "release", !.pc = "releasing", !.task = t,
                                  !.scope = LockFor(a, t)]
<1>1. d \in Command
  BY LockForHeld, NoCommandTyped DEF Command
<1>2. Begin(a, d)
  BY DEF StartRelease
<1>3. d.op = "release" /\ d.pc = "releasing" /\ d.task = t /\ d.scope = LockFor(a, t)
  BY DEF NoCommand
<1>4. cmd[a] = NoCommand /\ d \in Command /\ cmd' = [cmd EXCEPT ![a] = d]
      /\ requests' \in 0 .. MaxRequests /\ faults' \in 0 .. MaxFaults
  BY <1>1, <1>2, Begun
<1>5. cmd[a].pc \notin {"won", "claimed", "refused"}
  BY <1>4 DEF NoCommand
<1> HIDE DEF d
<1>6. Step(a) /\ cmd'[a] = d /\ OwnOnly(a) /\ \A s \in Tasks : Accounted(a, s)'
  BY <1>4, <1>5, MovedOn DEF StartRelease
<1>7. Standing(a)'
  BY <1>3, <1>6, LockForHeld DEF Standing, StartRelease, board
<1> QED  BY <1>6, <1>7 DEF Good

LEMMA ReleaseGood ==
  ASSUME FleetInv, NEW a \in Agents, Release(a)
  PROVE  Good(a)
<1> DEFINE k == cmd[a]  d == [k EXCEPT !.pc = "unlock"]
<1>1. k.pc = "releasing" /\ k \in Command /\ k.task \in Tasks /\ k.op \notin {"claim", "none"}
  BY Known DEF Release, At, Standing, NoCommand
<1>2. /\ d \in Command /\ d.op = k.op /\ d.pc = "unlock" /\ d.task = k.task
      /\ d.scope = k.scope /\ d.beside = k.beside
  BY <1>1 DEF Command
<1>3. /\ BoardTyped' /\ UNCHANGED locks
      /\ \A s \in Tasks : claims'[s] # claims[s] => s = k.task /\ claims[s] = a /\ claims'[s] = NoAgent
  BY <1>1, Known, ReleaseTaskEffect DEF Release
<1>4. Go(a, d)
  BY DEF Release, GoTo
<1> HIDE DEF d
<1>5. Step(a) /\ cmd'[a] = d
  BY <1>2, <1>3, <1>4, Gone, Known, Calm DEF Release
<1>6. Standing(a)'
  BY <1>1, <1>2, <1>3, <1>5, Known DEF Standing
<1>7. \A s \in Tasks : Accounted(a, s)'
  BY <1>1, <1>3, <1>5, StillAccounted, NoAgentAssumption
<1>8. OwnOnly(a)
  BY <1>3 DEF OwnOnly
<1> QED  BY <1>5, <1>6, <1>7, <1>8 DEF Good

LEMMA ReleaseLockGood ==
  ASSUME FleetInv, NEW a \in Agents, ReleaseLock(a)
  PROVE  Good(a)
<1> DEFINE k == cmd[a]
<1>1. k.pc = "unlock" /\ k \in Command /\ k.task \in Tasks /\ k.op \in {"release", "handoff", "ship"}
  BY Known DEF ReleaseLock, At, Standing, NoCommand, Command
<1>2. k.scope # NoScope => locks[a].task = k.task \/ k.beside
  BY <1>1, Known DEF Standing
<1>3. /\ BoardTyped' /\ UNCHANGED claims /\ \A b \in Agents \ {a} : locks'[b] = locks[b]
  <2>1. CASE UNCHANGED board
    BY <2>1, BoardUntouched DEF board
  <2>2. CASE Unlock(a)
    BY <2>2, Known DEF Unlock, BoardTyped, Unlocked, LockDoc
  <2> QED  BY <2>1, <2>2 DEF ReleaseLock
<1>4. Step(a) /\ cmd'[a] = NoCommand
  BY <1>3, Gone, NoCommandTyped, Known, Calm DEF ReleaseLock, End
<1>5. \A s \in Tasks : Accounted(a, s)'
  BY <1>1, <1>3, <1>4, StillAccounted
<1>6. OwnOnly(a)
  BY <1>2, <1>3 DEF OwnOnly, ReleaseLock, board
<1> QED  BY <1>4, <1>5, <1>6, EndedStands DEF Good

-----------------------------------------------------------------------------
(* Work in the tree, and ship.                                             *)

LEMMA BranchForTyped ==
  ASSUME FleetInv, NEW a \in Agents, NEW t \in Tasks
  PROVE  BranchFor(a, t) \in Branch
<1> DEFINE n == notes[t]
<1>1. <<Role[a], t>> \in Branch
  BY WorkflowAssumption DEF Branch
<1>2. n \in Seq(Note)
  BY Known DEF AgentsTyped
<1>3. n # <<>> => n[Len(n)].branch \in Branch \cup {NoBranch}
  <2>1. n # <<>> => n[Len(n)] \in Note
    BY <1>2
  <2> QED  BY <2>1 DEF Note
<1> QED  BY <1>1, <1>3 DEF BranchFor

LEMMA StartShipGood ==
  ASSUME FleetInv, NEW a \in Agents, NEW t \in Tasks, NEW wip \in BOOLEAN, StartShip(a, t, wip)
  PROVE  Good(a)
<1> DEFINE done == ~wip /\ tasks[t].status \in {"claimed", "in_progress"}
           d == [NoCommand EXCEPT !.op = "ship", !.pc = "status", !.task = t, !.scope = LockFor(a, t),
                   !.branch = BranchFor(a, t), !.mine = TRUE, !.complete = done]
<1>1. Begin(a, d)
  BY DEF StartShip
<1>2. done \in BOOLEAN
  OBVIOUS
<1> HIDE DEF done
<1>3. d \in Command
  BY <1>2, LockForHeld, BranchForTyped, NoCommandTyped DEF Command
<1>4. d.op = "ship" /\ d.pc = "status" /\ d.task = t /\ d.scope = LockFor(a, t)
      /\ d.branch = BranchFor(a, t) /\ d.work = AsBefore
  BY DEF NoCommand
<1>5. cmd[a] = NoCommand /\ d \in Command /\ cmd' = [cmd EXCEPT ![a] = d]
      /\ requests' \in 0 .. MaxRequests /\ faults' \in 0 .. MaxFaults
  BY <1>1, <1>3, Begun
<1>6. cmd[a].pc \notin {"won", "claimed", "refused"}
  BY <1>5 DEF NoCommand
<1> HIDE DEF d
<1>7. Step(a) /\ cmd'[a] = d /\ OwnOnly(a) /\ \A s \in Tasks : Accounted(a, s)'
  BY <1>5, <1>6, MovedOn DEF StartShip
<1>8. Standing(a)'
  BY <1>4, <1>7, LockForHeld, BranchForTyped DEF Standing, StartShip, board
<1> QED  BY <1>7, <1>8 DEF Good

\* A ship or a handoff goes on from where it was; only its own fields move.
LEMMA WentOn ==
  ASSUME FleetInv, NEW a \in Agents, NEW d \in Command, Go(a, d),
         UNCHANGED <<board, granted, gitVars, notes, unheard>>,
         cmd[a].pc \notin {"idle", "picked", "won", "claimed", "refused"},
         \/ d = NoCommand
         \/ /\ d.op = cmd[a].op /\ d.task = cmd[a].task /\ d.scope = cmd[a].scope
            /\ d.beside = cmd[a].beside
            /\ d.pc \in {"head", "handoff"} => d.op = "handoff"
            /\ d.pc \notin {"idle", "picked", "won", "claimed", "refused"}
            /\ d.pc \in {"status", "fetch", "push", "head"} => d.branch \in Branch
            /\ d.pc \in {"status", "head"} => d.work = AsBefore
            /\ d.pc = "handoff" /\ d.work # AsBefore => Pushed(d.branch, d.head, d.work)
  PROVE  Good(a)
<1> DEFINE k == cmd[a]
<1>1. Step(a) /\ cmd'[a] = d /\ OwnOnly(a) /\ \A s \in Tasks : Accounted(a, s)'
  BY Gone, MovedOn
<1>2. k \in Command /\ k.task \in Tasks /\ k.op \notin {"claim", "none"} /\ Standing(a)
  BY Known DEF Standing, NoCommand
<1>3. Standing(a)'
  <2>1. CASE d = NoCommand
    BY <1>1, <2>1, EndedStands
  <2>2. CASE d # NoCommand
    <3>1. d.pc = "handoff" /\ d.work # AsBefore => Pushed(d.branch, d.head, d.work)
      BY <2>2
    <3>2. Pushed(d.branch, d.head, d.work) => (Pushed(cmd[a].branch, cmd[a].head, cmd[a].work))'
      BY <1>1 DEF Pushed, gitVars, Tip, CommitAt
    <3>3. locks' = locks
      BY DEF board
    <3> QED  BY <1>1, <1>2, <2>2, <3>1, <3>2, <3>3 DEF Standing
  <2> QED  BY <2>1, <2>2
<1> QED  BY <1>1, <1>3 DEF Good

LEMMA OnwardGood ==
  ASSUME FleetInv, NEW a \in Agents, NEW c \in Command, Onward(a, c),
         UNCHANGED <<board, granted, gitVars, notes, unheard>>,
         cmd[a].pc \notin {"idle", "picked", "won", "claimed", "refused"},
         c.op = cmd[a].op, c.task = cmd[a].task, c.scope = cmd[a].scope, c.beside = cmd[a].beside,
         c.work # AsBefore => Pushed(c.branch, c.head, c.work)
  PROVE  Good(a)
<1> DEFINE d == [c EXCEPT !.pc = Shipped(c)]
<1>1. CASE Shipped(c) = "idle"
  BY <1>1, WentOn, NoCommandTyped DEF Onward, End
<1>2. CASE Shipped(c) # "idle"
  <2>1. Shipped(c) \in {"handoff", "complete"} /\ (Shipped(c) = "handoff" => c.op = "handoff")
    BY <1>2 DEF Shipped
  <2>2. /\ d \in Command /\ d.pc \in {"handoff", "complete"} /\ d.op = c.op /\ d.task = c.task
        /\ d.scope = c.scope /\ d.beside = c.beside /\ d.branch = c.branch /\ d.head = c.head
        /\ d.work = c.work /\ (d.pc = "handoff" => c.op = "handoff")
    <3>1. \/ d = [c EXCEPT !.pc = "handoff"] /\ c.op = "handoff"
          \/ d = [c EXCEPT !.pc = "complete"]
      BY <2>1
    <3> HIDE DEF d
    <3>2. CASE d = [c EXCEPT !.pc = "handoff"] /\ c.op = "handoff"
      BY <3>2 DEF Command
    <3>3. CASE d = [c EXCEPT !.pc = "complete"]
      BY <3>3 DEF Command
    <3> QED  BY <3>1, <3>2, <3>3
  <2>3. Go(a, d)
    BY <1>2 DEF Onward
  <2> HIDE DEF d
  <2> QED  BY <2>2, <2>3, WentOn
<1> QED  BY <1>1, <1>2

LEMMA StatusGood ==
  ASSUME FleetInv, NEW a \in Agents, Status(a)
  PROVE  Good(a)
<1> DEFINE k == cmd[a]
<1>1. /\ k.pc = "status" /\ k \in Command /\ k.work = AsBefore /\ k.branch \in Branch
  BY Known DEF Status, At, Standing
<1>2. UNCHANGED <<board, granted, gitVars, notes, unheard>>
  BY DEF Status
<1>3. CASE GoTo(a, "fetch") \/ (GoTo(a, "head") /\ k.op = "handoff")
  <2>1. PICK pc \in {"fetch", "head"} :
          Go(a, [k EXCEPT !.pc = pc]) /\ (pc = "head" => k.op = "handoff")
    BY <1>3 DEF GoTo
  <2> DEFINE d == [k EXCEPT !.pc = pc]
  <2>2. /\ d \in Command /\ d.pc \in {"fetch", "head"} /\ d.op = k.op /\ d.task = k.task
        /\ d.scope = k.scope /\ d.beside = k.beside /\ d.branch = k.branch /\ d.work = k.work
        /\ (d.pc = "head" => k.op = "handoff")
    <3>1. \/ d = [k EXCEPT !.pc = "fetch"]
          \/ d = [k EXCEPT !.pc = "head"] /\ k.op = "handoff"
      BY <2>1
    <3> HIDE DEF d
    <3>2. CASE d = [k EXCEPT !.pc = "fetch"]
      BY <1>1, <3>2 DEF Command
    <3>3. CASE d = [k EXCEPT !.pc = "head"] /\ k.op = "handoff"
      BY <1>1, <3>3 DEF Command
    <3> QED  BY <3>1, <3>2, <3>3
  <2>3. Go(a, d)
    BY <2>1
  <2> HIDE DEF d
  <2> QED  BY <1>1, <1>2, <2>2, <2>3, WentOn
<1>4. CASE Onward(a, k)
  BY <1>1, <1>2, <1>4, OnwardGood
<1> QED  BY <1>3, <1>4 DEF Status

LEMMA CommitTyped ==
  ASSUME FleetInv, NEW b \in Branch, NEW n \in 0 .. Tip(b)
  PROVE  CommitAt(b, n) \in Content /\ Tip(b) \in Nat
<1>1. remote[b] \in Seq(Content)
  BY DEF FleetInv, AgentsTyped
<1> QED  BY <1>1, AsBeforeTyped DEF CommitAt, Tip

LEMMA OverlayTyped ==
  ASSUME FleetInv, NEW a \in Agents, NEW c \in Command, c.branch \in Branch
  PROVE  Overlay(a, c, Tip(c.branch)) \in Content
<1>1. tree[a] \in Content
  BY DEF FleetInv, AgentsTyped
<1>2. Tip(c.branch) \in Nat
  BY DEF FleetInv, AgentsTyped, Tip
<1>3. CommitAt(c.branch, Tip(c.branch)) \in Content
  BY <1>2, CommitTyped
<1> QED  BY <1>1, <1>3 DEF Overlay, Content

LEMMA FetchGood ==
  ASSUME FleetInv, NEW a \in Agents, Fetch(a)
  PROVE  Good(a)
<1> DEFINE k == cmd[a]
           n == Tip(k.branch)
           o == Overlay(a, k, n)
           w == [k EXCEPT !.base = n, !.attempts = @ + 1, !.work = o]
<1>1. k.pc = "fetch" /\ k \in Command /\ k.branch \in Branch
  BY Known DEF Fetch, At, Standing
<1>2. n \in Nat /\ o \in Content
  BY <1>1, OverlayTyped, CommitTyped DEF FleetInv, AgentsTyped, Tip
<1>3. UNCHANGED <<board, granted, gitVars, notes, unheard>>
  BY DEF Fetch
<1>4. IF n > 0 /\ w.work = CommitAt(k.branch, n) THEN Onward(a, [w EXCEPT !.head = n])
      ELSE Go(a, [w EXCEPT !.pc = "push"])
  BY DEF Fetch
<1> HIDE DEF n, o
<1>5. /\ w \in Command /\ w.op = k.op /\ w.task = k.task /\ w.scope = k.scope
      /\ w.beside = k.beside /\ w.branch = k.branch /\ w.work = o
  <2>1. k.attempts + 1 \in Nat
    BY <1>1 DEF Command
  <2>2. [k EXCEPT !.base = n] \in Command
    BY <1>1, <1>2 DEF Command
  <2>3. [[k EXCEPT !.base = n] EXCEPT !.attempts = k.attempts + 1] \in Command
    BY <2>1, <2>2 DEF Command
  <2>4. w = [[[k EXCEPT !.base = n] EXCEPT !.attempts = k.attempts + 1] EXCEPT !.work = o]
    BY <1>1 DEF Command
  <2> QED  BY <1>1, <1>2, <2>3, <2>4 DEF Command
<1> HIDE DEF w
<1>6. CASE n > 0 /\ w.work = CommitAt(k.branch, n)
  <2> DEFINE d == [w EXCEPT !.head = n]
  <2>1. /\ d \in Command /\ d.op = k.op /\ d.task = k.task /\ d.scope = k.scope
        /\ d.beside = k.beside /\ d.branch = k.branch /\ d.work = o /\ d.head = n
    BY <1>2, <1>5 DEF Command
  <2>2. Onward(a, d)
    BY <1>4, <1>6
  <2> HIDE DEF d
  <2>3. Pushed(d.branch, d.head, d.work)
    <3>1. n \in 1 .. Tip(k.branch)
      BY <1>2, <1>6 DEF n
    <3>2. k.branch # NoBranch
      BY <1>1, NoBranchIsNone
    <3> QED  BY <1>5, <1>6, <2>1, <3>1, <3>2 DEF Pushed
  <2> QED  BY <1>1, <1>3, <2>1, <2>2, <2>3, OnwardGood
<1>7. CASE Go(a, [w EXCEPT !.pc = "push"])
  <2> DEFINE d == [w EXCEPT !.pc = "push"]
  <2>1. /\ d \in Command /\ d.pc = "push" /\ d.op = k.op /\ d.task = k.task
        /\ d.scope = k.scope /\ d.beside = k.beside /\ d.branch = k.branch
    BY <1>5 DEF Command
  <2>2. Go(a, d)
    BY <1>7
  <2> HIDE DEF d
  <2> QED  BY <1>1, <1>3, <2>1, <2>2, WentOn
<1> QED  BY <1>4, <1>6, <1>7

\* The push that wins: the branch has one commit more, the one this command made.
LEMMA PushWins ==
  ASSUME FleetInv, NEW a \in Agents, cmd[a].pc = "push", cmd[a].base = Tip(cmd[a].branch),
         remote' = [remote EXCEPT ![cmd[a].branch] = Append(@, cmd[a].work)],
         Onward(a, [cmd[a] EXCEPT !.head = cmd[a].base + 1]),
         UNCHANGED <<board, granted, tree, edits, notes, unheard>>
  PROVE  Good(a)
<1> DEFINE k == cmd[a]  h == k.base + 1  c == [k EXCEPT !.head = h]
<1>1. k \in Command /\ k.branch \in Branch /\ k.task \in Tasks /\ k.op \notin {"claim", "none"}
  BY Known DEF Standing, NoCommand
<1>2. k.work \in Content /\ k.base \in Nat /\ h \in Nat /\ h # 0
  BY <1>1 DEF Command
<1>3. remote \in [Branch -> Seq(Content)] /\ remote[k.branch] \in Seq(Content)
  BY <1>1 DEF FleetInv, AgentsTyped
<1>4. /\ remote' \in [Branch -> Seq(Content)]
      /\ remote'[k.branch] = Append(remote[k.branch], k.work)
      /\ \A b \in Branch \ {k.branch} : remote'[b] = remote[b]
  BY <1>1, <1>2, <1>3
<1>5. Len(remote'[k.branch]) = h /\ remote'[k.branch][h] = k.work
      /\ \A i \in 1 .. Len(remote[k.branch]) : remote'[k.branch][i] = remote[k.branch][i]
  BY <1>2, <1>3, <1>4 DEF Tip
<1>6. RemoteGrows
  <2>1. \A b \in Branch : Len(remote[b]) \in Nat
    BY <1>3
  <2>2. Len(remote[k.branch]) <= h
    BY <1>2 DEF Tip
  <2>3. ASSUME NEW b \in Branch
        PROVE  /\ Len(remote[b]) <= Len(remote'[b])
               /\ \A i \in 1 .. Len(remote[b]) : remote'[b][i] = remote[b][i]
    <3>1. CASE b = k.branch
      BY <1>5, <2>2, <3>1
    <3>2. CASE b # k.branch
      BY <1>4, <2>1, <3>2
    <3> QED  BY <3>1, <3>2
  <2> QED  BY <2>3 DEF RemoteGrows, Tip
<1>7. /\ c \in Command /\ c.op = k.op /\ c.task = k.task /\ c.scope = k.scope
      /\ c.beside = k.beside /\ c.branch = k.branch /\ c.work = k.work /\ c.head = h
  BY <1>1, <1>2 DEF Command
<1>8. PICK d \in Command :
        /\ Go(a, d)
        /\ \/ d = NoCommand
           \/ /\ d.pc \in {"handoff", "complete"} /\ d.op = k.op /\ d.task = k.task /\ d.scope = k.scope
              /\ d.beside = k.beside /\ d.branch = k.branch /\ d.work = k.work /\ d.head = h
              /\ (d.pc = "handoff" => k.op = "handoff")
  <2>1. CASE Shipped(c) = "idle"
    BY <2>1, NoCommandTyped DEF Onward, End
  <2>2. CASE Shipped(c) # "idle"
    <3> DEFINE d == [c EXCEPT !.pc = Shipped(c)]
    <3>1. \/ d = [c EXCEPT !.pc = "handoff"] /\ c.op = "handoff"
          \/ d = [c EXCEPT !.pc = "complete"]
      BY <2>2 DEF Shipped
    <3>2. Go(a, d)
      BY <2>2 DEF Onward
    <3> HIDE DEF c, d
    <3>3. /\ d \in Command /\ d.pc \in {"handoff", "complete"} /\ d.op = c.op /\ d.task = c.task
          /\ d.scope = c.scope /\ d.beside = c.beside /\ d.branch = c.branch /\ d.head = c.head
          /\ d.work = c.work /\ (d.pc = "handoff" => c.op = "handoff")
      <4>1. CASE d = [c EXCEPT !.pc = "handoff"] /\ c.op = "handoff"
        BY <1>7, <4>1 DEF Command
      <4>2. CASE d = [c EXCEPT !.pc = "complete"]
        BY <1>7, <4>2 DEF Command
      <4> QED  BY <3>1, <4>1, <4>2
    <3> QED  BY <1>7, <3>2, <3>3
  <2> QED  BY <2>1, <2>2
<1>9. cmd' = [cmd EXCEPT ![a] = d] /\ requests' \in 0 .. MaxRequests /\ faults' \in 0 .. MaxFaults
  BY <1>8, Gone
<1> HIDE DEF c, h
<1>10. AgentsTyped'
  BY <1>4, <1>9, Known, BoardUntouched DEF AgentsTyped
<1>11. Step(a) /\ cmd'[a] = d
  <2>1. HandoffHoldsWork'
    BY <1>6, <1>10, NotesHold
  <2>2. cmd'[a] = d /\ \A b \in Agents \ {a} : cmd'[b] = cmd[b]
    BY <1>9, Known DEF AgentsTyped
  <2> QED  BY <1>6, <1>10, <2>1, <2>2 DEF Step, board
<1>12. Standing(a)'
  <2>1. CASE d = NoCommand
    BY <1>11, <2>1, EndedStands
  <2>2. CASE /\ d.pc \in {"handoff", "complete"} /\ d.op = k.op /\ d.task = k.task /\ d.scope = k.scope
             /\ d.beside = k.beside /\ d.branch = k.branch /\ d.work = k.work /\ d.head = h
             /\ (d.pc = "handoff" => k.op = "handoff")
    <3>1. k.branch # NoBranch
      BY <1>1, NoBranchIsNone
    <3>2. h \in 1 .. Len(remote'[k.branch])
      BY <1>2, <1>5
    <3>3. (Pushed(cmd[a].branch, cmd[a].head, cmd[a].work))'
      BY <1>2, <1>5, <1>11, <2>2, <3>1, <3>2 DEF Pushed, Tip, CommitAt
    <3>4. locks' = locks /\ Standing(a)
      BY Known DEF board
    <3> QED  BY <1>1, <1>11, <2>2, <3>3, <3>4 DEF Standing
  <2> QED  BY <1>8, <2>1, <2>2
<1>13. \A t \in Tasks : Accounted(a, t)'
  BY <1>11, StillAccounted DEF board
<1> QED  BY <1>11, <1>12, <1>13, BoardUntouched DEF Good

LEMMA PushGood ==
  ASSUME FleetInv, NEW a \in Agents, Push(a)
  PROVE  Good(a)
<1> DEFINE k == cmd[a]
<1>1. /\ k.pc = "push" /\ k \in Command /\ k.branch \in Branch
      /\ UNCHANGED <<board, granted, tree, edits, notes, unheard>>
  BY Known DEF Push, At, Standing
<1>2. CASE k.base = Tip(k.branch)
  BY <1>1, <1>2, PushWins DEF Push
<1>3. CASE k.base # Tip(k.branch)
  <2>1. UNCHANGED <<board, granted, gitVars, notes, unheard>>
    BY <1>1, <1>3 DEF Push, gitVars
  <2>2. CASE GoTo(a, "fetch")
    <3> DEFINE d == [k EXCEPT !.pc = "fetch"]
    <3>1. /\ d \in Command /\ d.pc = "fetch" /\ d.op = k.op /\ d.task = k.task
          /\ d.scope = k.scope /\ d.beside = k.beside /\ d.branch = k.branch
      BY <1>1 DEF Command
    <3>2. Go(a, d)
      BY <2>2 DEF GoTo
    <3> HIDE DEF d
    <3> QED  BY <1>1, <2>1, <3>1, <3>2, WentOn
  <2>3. CASE End(a)
    BY <1>1, <2>1, <2>3, NoCommandTyped, WentOn DEF End
  <2> QED  BY <1>3, <2>2, <2>3 DEF Push
<1> QED  BY <1>2, <1>3

\* A command that is over, of its own accord or not, with nothing done in this step.
LEMMA Over ==
  ASSUME FleetInv, NEW a \in Agents, cmd[a].pc \notin {"won", "claimed", "refused"},
         cmd' = [cmd EXCEPT ![a] = NoCommand], Fault,
         UNCHANGED <<board, granted, gitVars, notes, unheard, requests>>
  PROVE  Good(a)
<1>1. requests' \in 0 .. MaxRequests /\ faults' \in 0 .. MaxFaults
  BY Known, Faulted
<1>2. Step(a) /\ cmd'[a] = NoCommand /\ OwnOnly(a) /\ \A t \in Tasks : Accounted(a, t)'
  BY <1>1, NoCommandTyped, MovedOn
<1> QED  BY <1>2, EndedStands DEF Good

LEMMA PushFailsGood ==
  ASSUME FleetInv, NEW a \in Agents, PushFails(a)
  PROVE  Good(a)
BY Over DEF PushFails, At

LEMMA CompleteGood ==
  ASSUME FleetInv, NEW a \in Agents, Complete(a)
  PROVE  Good(a)
<1>1. cmd[a].pc = "complete" /\ cmd[a].task \in Tasks
  BY Known DEF Complete, At, Standing
<1>2. BoardTyped' /\ UNCHANGED <<claims, locks>>
  BY <1>1, Known, ReportTyped DEF Complete
<1>3. Step(a) /\ cmd'[a] = NoCommand
  BY <1>2, Gone, NoCommandTyped, Known, Calm DEF Complete, End
<1>4. \A t \in Tasks : Accounted(a, t)'
  BY <1>1, <1>2, <1>3, StillAccounted
<1> QED  BY <1>2, <1>3, <1>4, EndedStands DEF Good, OwnOnly

-----------------------------------------------------------------------------
(* handoff.                                                                *)

LEMMA SurveyEffect ==
  ASSUME FleetInv, NEW a \in Agents, NEW t \in Tasks, NEW n \in Nat, NEW p \in CardBranches(t)
  PROVE  LET d == [Survey(a, t, p) EXCEPT !.note = n] IN
         /\ d \in Command
         /\ d.op = "handoff" /\ d.task = t /\ d.scope = LockFor(a, t) /\ d.work = AsBefore
         /\ d.pc \in {"handoff", "status", "head"}
         /\ d.pc \in {"status", "head"} => d.branch \in Branch
<1> DEFINE mine == tasks[t].claimed_by = a
           g  == LockFor(a, t)
           pc == IF ~mine THEN "handoff" ELSE IF g # NoScope THEN "status" ELSE "head"
           b  == IF mine THEN BranchFor(a, t) ELSE p
           s  == [NoCommand EXCEPT !.op = "handoff", !.task = t, !.mine = mine, !.scope = g,
                                   !.pc = pc, !.branch = b]
<1>1. Survey(a, t, p) = s
  BY DEF Survey
<1>2. /\ mine \in BOOLEAN /\ pc \in {"handoff", "status", "head"}
      /\ g \in Scopes \cup {NoScope} /\ b \in Branch \cup {NoBranch}
      /\ pc \in {"status", "head"} => b \in Branch
  BY LockForHeld, BranchForTyped DEF CardBranches
<1> HIDE DEF mine, pc, g, b
<1>3. s \in Command
  <2>1. [NoCommand EXCEPT !.op = "handoff", !.task = t] \in Command
    BY NoCommandTyped DEF Command
  <2>2. [[NoCommand EXCEPT !.op = "handoff", !.task = t] EXCEPT !.mine = mine, !.scope = g] \in Command
    BY <1>2, <2>1 DEF Command
  <2>3. [[[NoCommand EXCEPT !.op = "handoff", !.task = t] EXCEPT !.mine = mine, !.scope = g]
           EXCEPT !.pc = pc, !.branch = b] \in Command
    BY <1>2, <2>2 DEF Command
  <2>4. s = [[[NoCommand EXCEPT !.op = "handoff", !.task = t] EXCEPT !.mine = mine, !.scope = g]
               EXCEPT !.pc = pc, !.branch = b]
    BY DEF NoCommand
  <2> QED  BY <2>3, <2>4
<1>4. s.op = "handoff" /\ s.task = t /\ s.scope = g /\ s.work = AsBefore /\ s.pc = pc /\ s.branch = b
  BY DEF NoCommand
<1> DEFINE d == [s EXCEPT !.note = n]
<1> HIDE DEF s
<1>5. d \in Command /\ d.op = s.op /\ d.task = s.task /\ d.scope = s.scope /\ d.work = s.work
      /\ d.pc = s.pc /\ d.branch = s.branch
  BY <1>3 DEF Command
<1> QED  BY <1>1, <1>2, <1>3, <1>4, <1>5 DEF g

\* A handoff that begins, or begins again, with what it reads now.
LEMMA Surveyed ==
  ASSUME FleetInv, NEW a \in Agents, NEW t \in Tasks, NEW n \in Nat, NEW p \in CardBranches(t),
         cmd' = [cmd EXCEPT ![a] = [Survey(a, t, p) EXCEPT !.note = n]],
         UNCHANGED <<board, granted, gitVars, notes, unheard>>,
         requests' \in 0 .. MaxRequests, faults' \in 0 .. MaxFaults,
         cmd[a].pc \notin {"won", "claimed", "refused"}
  PROVE  Good(a)
<1> DEFINE d == [Survey(a, t, p) EXCEPT !.note = n]
<1>1. /\ d \in Command /\ d.op = "handoff" /\ d.task = t /\ d.scope = LockFor(a, t)
      /\ d.work = AsBefore /\ d.pc \in {"handoff", "status", "head"}
      /\ d.pc \in {"status", "head"} => d.branch \in Branch
  BY SurveyEffect
<1> HIDE DEF d
<1>2. Step(a) /\ cmd'[a] = d /\ OwnOnly(a) /\ \A s \in Tasks : Accounted(a, s)'
  BY <1>1, MovedOn DEF d
<1>3. locks' = locks
  BY DEF board
<1>4. Standing(a)'
  BY <1>1, <1>2, <1>3, LockForHeld DEF Standing
<1> QED  BY <1>2, <1>4 DEF Good

LEMMA StartHandoffGood ==
  ASSUME FleetInv, NEW a \in Agents, NEW t \in Tasks, StartHandoff(a, t)
  PROVE  Good(a)
<1>1. PICK p \in CardBranches(t) : Begin(a, [Survey(a, t, p) EXCEPT !.note = requests + 1])
  BY DEF StartHandoff
<1> DEFINE d == [Survey(a, t, p) EXCEPT !.note = requests + 1]
<1>2. UNCHANGED <<board, granted, gitVars, notes, unheard>>
  BY DEF StartHandoff
<1>3. requests + 1 \in Nat
  BY Known, BoundsAreNat
<1>4. d \in Command
  BY <1>3, SurveyEffect
<1>5. cmd[a] = NoCommand /\ cmd' = [cmd EXCEPT ![a] = d]
      /\ requests' \in 0 .. MaxRequests /\ faults' \in 0 .. MaxFaults
  BY <1>1, <1>4, Begun
<1>6. cmd[a].pc = "idle"
  BY <1>5 DEF NoCommand
<1> QED  BY <1>2, <1>3, <1>5, <1>6, Surveyed

LEMMA RetryGood ==
  ASSUME FleetInv, NEW a \in Agents, Retry(a)
  PROVE  Good(a)
<1>1. cmd[a].pc = "again" /\ cmd[a].task \in Tasks /\ cmd[a].note \in Nat
  BY Known DEF Retry, At, Standing, Command
<1>2. PICK p \in CardBranches(cmd[a].task) :
        Go(a, [Survey(a, cmd[a].task, p) EXCEPT !.note = cmd[a].note])
  BY DEF Retry
<1>3. UNCHANGED <<board, granted, gitVars, notes, unheard>>
  BY DEF Retry
<1>4. /\ cmd' = [cmd EXCEPT ![a] = [Survey(a, cmd[a].task, p) EXCEPT !.note = cmd[a].note]]
      /\ requests' \in 0 .. MaxRequests /\ faults' \in 0 .. MaxFaults
  BY <1>2, Gone
<1> QED  BY <1>1, <1>3, <1>4, Surveyed

LEMMA RemoteHeadGood ==
  ASSUME FleetInv, NEW a \in Agents, RemoteHead(a)
  PROVE  Good(a)
<1> DEFINE k == cmd[a]  n == Tip(k.branch)  b == IF n = 0 THEN NoBranch ELSE k.branch
<1>1. /\ k.pc = "head" /\ k \in Command /\ k.branch \in Branch /\ k.work = AsBefore
      /\ k.op = "handoff" /\ k.task \in Tasks /\ Standing(a)
  BY Known DEF RemoteHead, At, Standing
<1>2. UNCHANGED <<board, granted, gitVars, notes, unheard>>
  BY DEF RemoteHead
<1>3. CASE Go(a, [k EXCEPT !.pc = "handoff", !.head = n, !.branch = IF n = 0 THEN NoBranch ELSE @])
  <2> DEFINE d == [k EXCEPT !.pc = "handoff", !.head = n, !.branch = b]
  <2>1. n \in Nat /\ b \in Branch \cup {NoBranch}
    BY <1>1 DEF FleetInv, AgentsTyped, Tip
  <2>2. Go(a, d)
    <3>1. [k EXCEPT !.pc = "handoff", !.head = n, !.branch = IF n = 0 THEN NoBranch ELSE @] = d
      BY <1>1 DEF Command
    <3> QED  BY <1>3, <3>1
  <2> HIDE DEF n, b
  <2>3. /\ d \in Command /\ d.pc = "handoff" /\ d.op = k.op /\ d.task = k.task
        /\ d.scope = k.scope /\ d.beside = k.beside /\ d.work = AsBefore
    BY <1>1, <2>1 DEF Command
  <2> HIDE DEF d
  <2> QED  BY <1>1, <1>2, <2>2, <2>3, WentOn
<1>4. CASE /\ Fault
           /\ cmd' = [cmd EXCEPT ![a].pc = "handoff", ![a].branch = NoBranch]
           /\ UNCHANGED requests
  <2> DEFINE d == [k EXCEPT !.pc = "handoff", !.branch = NoBranch]
  <2>1. /\ d \in Command /\ d.pc = "handoff" /\ d.op = k.op /\ d.task = k.task
        /\ d.scope = k.scope /\ d.beside = k.beside /\ d.work = AsBefore
    BY <1>1 DEF Command
  <2>2. cmd' = [cmd EXCEPT ![a] = d]
    BY <1>4, Known DEF AgentsTyped
  <2>3. requests' \in 0 .. MaxRequests /\ faults' \in 0 .. MaxFaults
    BY <1>4, Known, Faulted
  <2> HIDE DEF d
  <2>4. Step(a) /\ cmd'[a] = d /\ OwnOnly(a) /\ \A s \in Tasks : Accounted(a, s)'
    BY <1>1, <1>2, <2>1, <2>2, <2>3, MovedOn
  <2>5. Standing(a)'
    BY <1>1, <1>2, <2>1, <2>4 DEF Standing, board
  <2> QED  BY <2>4, <2>5 DEF Good
<1> QED  BY <1>3, <1>4 DEF RemoteHead

LEMMA RereadGood ==
  ASSUME FleetInv, NEW a \in Agents, Reread(a)
  PROVE  Good(a)
<1> DEFINE k == cmd[a]  d == [k EXCEPT !.pc = "unlock"]
<1>1. k.pc = "reread" /\ k \in Command /\ UNCHANGED <<board, granted, gitVars, notes, unheard>>
  BY Known DEF Reread, At
<1>2. /\ d \in Command /\ d.pc = "unlock" /\ d.op = k.op /\ d.task = k.task
      /\ d.scope = k.scope /\ d.beside = k.beside
  BY <1>1 DEF Command
<1>3. Go(a, d) \/ Go(a, NoCommand)
  BY DEF Reread, AfterHandoff, GoTo, End
<1> HIDE DEF d
<1> QED  BY <1>1, <1>2, <1>3, NoCommandTyped, WentOn

\* The step in which the ticket changes hands and the note is written.
LEMMA HandedOffGood ==
  ASSUME FleetInv, NEW a \in Agents, cmd[a].pc = "handoff", MayHandOff(a, cmd[a].task),
         HandedOff(a, cmd[a].task), NEW d \in Command, cmd' = [cmd EXCEPT ![a] = d],
         \/ d = NoCommand
         \/ /\ d.pc \in {"unlock", "again"} /\ d.op = cmd[a].op
            /\ d.task = cmd[a].task /\ d.scope = cmd[a].scope /\ d.beside = cmd[a].beside,
         UNCHANGED <<granted, gitVars, unheard>>,
         requests' \in 0 .. MaxRequests, faults' \in 0 .. MaxFaults
  PROVE  Good(a)
<1> DEFINE k == cmd[a]  t == cmd[a].task
           n == [from |-> claims[t], note |-> k.note, branch |-> k.branch, head |-> k.head, work |-> k.work]
<1>1. k \in Command /\ t \in Tasks /\ Standing(a) /\ k.op = "handoff"
  BY Known DEF Standing
<1>2. n \in Note
  <2>1. claims[t] \in Agents
    BY <1>1, Known DEF BoardTyped, MayHandOff
  <2> QED  BY <1>1, <2>1 DEF Command, Note
<1>3. /\ BoardTyped' /\ UNCHANGED locks
      /\ \A s \in Tasks : claims'[s] # claims[s] => s = t /\ claims'[s] = NoAgent
  BY <1>1, Known, EndClaimTyped DEF HandedOff
<1>4. notes \in [Tasks -> Seq(Note)] /\ notes' = [notes EXCEPT ![t] = Append(@, n)]
  BY DEF HandedOff, FleetInv, AgentsTyped
<1> HIDE DEF n
<1>5. AgentsTyped'
  <2>1. notes' \in [Tasks -> Seq(Note)]
    BY <1>1, <1>2, <1>4
  <2>2. cmd' \in [Agents -> Command]
    BY Known DEF AgentsTyped
  <2> QED  BY <1>3, <2>1, <2>2, Known DEF AgentsTyped, gitVars
<1>6. RemoteGrows
  <2>1. \A b \in Branch : Len(remote[b]) \in Nat
    BY DEF FleetInv, AgentsTyped
  <2> QED  BY <2>1 DEF RemoteGrows, gitVars, Tip
<1>7. HandoffHoldsWork'
  <2>1. n.work # AsBefore => Pushed(n.branch, n.head, n.work)
    BY <1>1 DEF Standing, n
  <2> SUFFICES ASSUME NEW s \in Tasks, NEW i \in 1 .. Len(notes'[s])
               PROVE  \/ i \in 1 .. Len(notes[s]) /\ notes'[s][i] = notes[s][i]
                      \/ notes'[s][i].work = AsBefore
                      \/ Pushed(notes'[s][i].branch, notes'[s][i].head, notes'[s][i].work)
    BY <1>5, <1>6, NotesHold
  <2>2. CASE s = t
    <3>1. notes[t] \in Seq(Note) /\ notes'[t] = Append(notes[t], n)
      BY <1>1, <1>4
    <3>2. i \in 1 .. Len(notes[t]) \/ i = Len(notes[t]) + 1
      BY <1>2, <2>2, <3>1
    <3>3. CASE i \in 1 .. Len(notes[t])
      BY <1>2, <2>2, <3>1, <3>3
    <3>4. CASE i = Len(notes[t]) + 1
      <4>1. notes'[s][i] = n
        BY <1>2, <2>2, <3>1, <3>4
      <4> QED  BY <2>1, <4>1
    <3> QED  BY <3>2, <3>3, <3>4
  <2>3. CASE s # t
    BY <1>4, <2>3
  <2> QED  BY <2>2, <2>3
<1>8. Step(a) /\ cmd'[a] = d
  <2>1. cmd'[a] = d /\ \A b \in Agents \ {a} : cmd'[b] = cmd[b]
    BY Known DEF AgentsTyped
  <2> QED  BY <1>3, <1>5, <1>6, <1>7, <2>1 DEF Step
<1>9. Standing(a)'
  <2>1. CASE d = NoCommand
    BY <1>8, <2>1, EndedStands
  <2>2. CASE d # NoCommand
    BY <1>1, <1>3, <1>8, <2>2 DEF Standing
  <2> QED  BY <2>1, <2>2
<1>10. \A s \in Tasks : Accounted(a, s)'
  BY <1>3, <1>8, StillAccounted, NoAgentAssumption
<1>11. OwnOnly(a)
  BY <1>1, <1>3 DEF OwnOnly, MayHandOff
<1> QED  BY <1>8, <1>9, <1>10, <1>11 DEF Good

LEMMA HandoffTaskGood ==
  ASSUME FleetInv, NEW a \in Agents, HandoffTask(a)
  PROVE  Good(a)
<1> DEFINE k == cmd[a]  u == [k EXCEPT !.pc = "unlock"]  r == [k EXCEPT !.pc = "reread"]
<1>1. k.pc = "handoff" /\ k \in Command /\ UNCHANGED <<granted, gitVars, unheard>>
  BY Known DEF HandoffTask, At
<1>2. /\ u \in Command /\ u.pc = "unlock" /\ u.op = k.op /\ u.task = k.task /\ u.scope = k.scope
      /\ u.beside = k.beside
      /\ r \in Command /\ r.pc = "reread" /\ r.op = k.op /\ r.task = k.task /\ r.scope = k.scope
      /\ r.beside = k.beside
  BY <1>1 DEF Command
<1>3. CASE MayHandOff(a, k.task) /\ HandedOff(a, k.task) /\ AfterHandoff(a)
  <2>1. Go(a, u) \/ Go(a, NoCommand)
    BY <1>3 DEF AfterHandoff, GoTo, End
  <2> HIDE DEF u
  <2>2. CASE Go(a, u)
    BY <1>1, <1>2, <1>3, <2>2, Gone, HandedOffGood
  <2>3. CASE Go(a, NoCommand)
    BY <1>1, <1>3, <2>3, Gone, NoCommandTyped, HandedOffGood
  <2> QED  BY <2>1, <2>2, <2>3
<1>4. CASE GoTo(a, "reread") /\ UNCHANGED <<board, notes>>
  <2>1. Go(a, r)
    BY <1>4 DEF GoTo
  <2> HIDE DEF r
  <2> QED  BY <1>1, <1>2, <1>4, <2>1, WentOn
<1>5. CASE End(a) /\ UNCHANGED <<board, notes>>
  BY <1>1, <1>5, NoCommandTyped, WentOn DEF End
<1> QED  BY <1>3, <1>4, <1>5 DEF HandoffTask

LEMMA AnswerLostGood ==
  ASSUME FleetInv, NEW a \in Agents, AnswerLost(a)
  PROVE  Good(a)
<1> DEFINE d == [cmd[a] EXCEPT !.pc = "again"]
<1>1. cmd[a].pc = "handoff" /\ cmd[a] \in Command /\ cmd' = [cmd EXCEPT ![a] = d]
  BY Known DEF AnswerLost, At, AgentsTyped
<1>2. /\ d \in Command /\ d.pc = "again" /\ d.op = cmd[a].op /\ d.task = cmd[a].task
      /\ d.scope = cmd[a].scope /\ d.beside = cmd[a].beside
  BY <1>1 DEF Command
<1>3. requests' \in 0 .. MaxRequests /\ faults' \in 0 .. MaxFaults
  BY Known, Faulted DEF AnswerLost
<1> HIDE DEF d
<1> QED  BY <1>1, <1>2, <1>3, HandedOffGood DEF AnswerLost

LEMMA DiesGood ==
  ASSUME FleetInv, NEW a \in Agents, Dies(a)
  PROVE  Good(a)
<1> DEFINE k == cmd[a]
<1>1. k.task \in Tasks
  BY Known DEF Dies, Standing
<1>2. CASE k.pc \notin {"won", "claimed", "refused"}
  BY <1>2, Over DEF Dies
<1>3. CASE k.pc \in {"won", "claimed", "refused"}
  <2>1. unheard' = unheard \cup {<<a, k.task>>}
    BY <1>3 DEF Dies
  <2>2. unheard' \subseteq Agents \X Tasks
    BY <1>1, <2>1, Known
  <2>3. requests' \in 0 .. MaxRequests /\ faults' \in 0 .. MaxFaults
    BY Known, Faulted DEF Dies
  <2>4. Step(a) /\ cmd'[a] = NoCommand
    BY <2>1, <2>2, <2>3, NoCommandTyped, Known, BoardUntouched, Calm DEF Dies
  <2>5. ASSUME NEW s \in Tasks PROVE Accounted(a, s)'
    <3>1. Accounted(a, s)
      BY Known
    <3> QED  BY <2>1, <3>1 DEF Accounted, Dies, board
  <2> QED  BY <2>4, <2>5, EndedStands, BoardUntouched DEF Good, Dies
<1> QED  BY <1>2, <1>3

-----------------------------------------------------------------------------
(* The agents, the members and the reaper together.                        *)

\* A step that leaves commands, locks, branches and trees as they are.
LEMMA CommandsKept ==
  ASSUME FleetInv, AgentsTyped', UNCHANGED <<locks, granted, cmd, remote, unheard>>,
         \A t \in Tasks : claims'[t] \in {claims[t], NoAgent},
         \A t \in Tasks : \A i \in 1 .. Len(notes'[t]) :
           \/ i \in 1 .. Len(notes[t]) /\ notes'[t][i] = notes[t][i]
           \/ notes'[t][i].work = AsBefore
  PROVE  FleetInv' /\ \A a \in Agents : OwnOnly(a)
<1>1. RemoteGrows
  <2>1. \A b \in Branch : Len(remote[b]) \in Nat
    BY DEF FleetInv, AgentsTyped
  <2> QED  BY <2>1 DEF RemoteGrows, Tip
<1>2. HandoffHoldsWork'
  BY <1>1, NotesHold
<1>3. ASSUME NEW a \in Agents PROVE Standing(a)' /\ \A t \in Tasks : Accounted(a, t)'
  <2>1. Standing(a) /\ \A t \in Tasks : Accounted(a, t)
    BY Known
  <2>2. Standing(a)'
    BY <2>1 DEF Standing, Pushed, Tip, CommitAt
  <2>3. \A t \in Tasks : Accounted(a, t)'
    BY <2>1, NoAgentAssumption DEF Accounted
  <2> QED  BY <2>2, <2>3
<1> QED  BY <1>2, <1>3 DEF FleetInv, CommandsStand, OwnOnly

LEMMA EditKept ==
  ASSUME FleetInv, NEW a \in Agents, NEW f \in Files, Edit(a, f)
  PROVE  FleetInv' /\ \A b \in Agents : OwnOnly(b)
<1>1. edits + 1 \in 0 .. MaxEdits /\ edits' = edits + 1
  BY BoundsAreNat DEF FleetInv, AgentsTyped, Edit
<1>2. tree' \in [Agents -> Content]
  <2>1. tree[a] \in Content
    BY DEF FleetInv, AgentsTyped
  <2>2. [tree[a] EXCEPT ![f] = edits + 1] \in Content
    BY <1>1, <2>1 DEF Content
  <2>3. tree' = [tree EXCEPT ![a] = [tree[a] EXCEPT ![f] = edits + 1]]
    BY DEF Edit, FleetInv, AgentsTyped
  <2> QED  BY <2>2, <2>3 DEF FleetInv, AgentsTyped
<1>3. BoardTyped'
  BY Known, BoardFrame DEF Edit
<1>4. AgentsTyped'
  BY <1>1, <1>2, <1>3 DEF FleetInv, AgentsTyped, Edit
<1> QED  BY <1>4, CommandsKept DEF Edit, board

\* A member's request: at most one ticket made, or one claim ended.
LEMMA BoardMoved ==
  ASSUME FleetInv, BoardTyped', UNCHANGED <<locks, granted, cmd, gitVars, notes, unheard>>,
         \A t \in Tasks : claims'[t] \in {claims[t], NoAgent},
         requests' \in 0 .. MaxRequests, faults' \in 0 .. MaxFaults
  PROVE  FleetInv' /\ \A a \in Agents : OwnOnly(a)
<1>1. AgentsTyped'
  BY DEF FleetInv, AgentsTyped, gitVars
<1> QED  BY <1>1, CommandsKept DEF gitVars

LEMMA Counted ==
  ASSUME FleetInv
  PROVE  /\ Request => requests' \in 0 .. MaxRequests
         /\ Fault => faults' \in 0 .. MaxFaults
         /\ requests \in 0 .. MaxRequests /\ faults \in 0 .. MaxFaults /\ BoardTyped
BY BoundsAreNat DEF FleetInv, AgentsTyped, Request, Fault

LEMMA TicketKept ==
  ASSUME FleetInv, LaneInv, NEW m \in Members, CreateTicket(m) \/ CreateThrows(m)
  PROVE  FleetInv' /\ \A a \in Agents : OwnOnly(a)
<1> DEFINE t == accepting[m].task
<1>1. t \in Tasks
  BY DEF LaneInv, LaneTyped, CreateTicket, CreateThrows
<1>2. Create(t) \/ UNCHANGED board
  BY DEF CreateTicket, CreateThrows, Ticket
<1>3. BoardTyped' /\ UNCHANGED <<claims, locks>>
  <2>1. CASE Create(t)
    BY <1>1, <2>1, Counted, CreateTyped
  <2>2. CASE UNCHANGED board
    BY <2>2, Counted, BoardFrame DEF board
  <2> QED  BY <1>2, <2>1, <2>2
<1> QED  BY <1>3, Counted, BoardMoved DEF CreateTicket, CreateThrows, workflowVars

LEMMA LaneKept ==
  ASSUME FleetInv,
         \/ \E s \in Suggestions : RaiseSuggestion(s) \/ DeclineSuggestion(s)
         \/ \E m \in Members, s \in Suggestions, t \in Tasks : MarkAccepted(m, s, t)
         \/ \E m \in Members : Reopen(m) \/ AcceptDies(m)
  PROVE  FleetInv' /\ \A a \in Agents : OwnOnly(a)
<1>1. UNCHANGED <<board, granted, cmd, gitVars, notes, unheard>>
  BY DEF RaiseSuggestion, DeclineSuggestion, MarkAccepted, Reopen, AcceptDies, othersVars, workflowVars
<1>2. requests' \in 0 .. MaxRequests /\ faults' \in 0 .. MaxFaults
  BY Counted DEF RaiseSuggestion, DeclineSuggestion, MarkAccepted, Reopen, AcceptDies, othersVars,
                 workflowVars
<1>3. BoardTyped'
  BY <1>1, Counted, BoardFrame
<1> QED  BY <1>1, <1>2, <1>3, BoardMoved DEF board

LEMMA MembersKept ==
  ASSUME FleetInv, NEW t \in Tasks, CreateTask(t) \/ Reap(t)
  PROVE  FleetInv' /\ \A a \in Agents : OwnOnly(a)
<1>1. CASE CreateTask(t)
  <2>1. BoardTyped' /\ UNCHANGED <<claims, locks>>
    BY <1>1, Counted, CreateTyped DEF CreateTask
  <2> QED  BY <1>1, <2>1, Counted, BoardMoved DEF CreateTask, othersVars
<1>2. CASE Reap(t)
  <2>1. /\ BoardTyped' /\ UNCHANGED locks
        /\ \A s \in Tasks : claims'[s] \in {claims[s], NoAgent}
    BY <1>2, Counted, EndClaimTyped DEF Reap
  <2> QED  BY <1>2, <2>1, Counted, BoardMoved DEF Reap
<1> QED  BY <1>1, <1>2

LEMMA OwnerKept ==
  ASSUME FleetInv, NEW t \in Tasks, OwnerHandsOff(t)
  PROVE  FleetInv' /\ \A a \in Agents : OwnOnly(a)
<1>1. /\ BoardTyped' /\ UNCHANGED locks /\ claims[t] \in Agents
      /\ \A s \in Tasks : claims'[s] \in {claims[s], NoAgent}
  BY Counted, EndClaimTyped DEF OwnerHandsOff, BoardTyped
<1>2. PICK b \in {NoBranch} \cup Branch :
        notes' = [notes EXCEPT ![t] = Append(@, [from |-> claims[t], note |-> 0, branch |-> b,
                                                 head |-> 0, work |-> AsBefore])]
  BY DEF OwnerHandsOff, CardBranches
<1> DEFINE n == [from |-> claims[t], note |-> 0, branch |-> b, head |-> 0, work |-> AsBefore]
<1>3. n \in Note /\ n.work = AsBefore
  BY <1>1, AsBeforeTyped DEF Note
<1>4. notes \in [Tasks -> Seq(Note)] /\ notes' = [notes EXCEPT ![t] = Append(@, n)]
  BY <1>2 DEF FleetInv, AgentsTyped
<1> HIDE DEF n
<1>5. notes' \in [Tasks -> Seq(Note)]
  BY <1>3, <1>4
<1>6. AgentsTyped'
  BY <1>1, <1>5, Counted DEF FleetInv, AgentsTyped, OwnerHandsOff, gitVars
<1>7. ASSUME NEW s \in Tasks, NEW i \in 1 .. Len(notes'[s])
      PROVE  \/ i \in 1 .. Len(notes[s]) /\ notes'[s][i] = notes[s][i]
             \/ notes'[s][i].work = AsBefore
  <2>1. CASE s = t
    <3>1. notes[t] \in Seq(Note) /\ notes'[t] = Append(notes[t], n)
      BY <1>4
    <3>2. i \in 1 .. Len(notes[t]) \/ i = Len(notes[t]) + 1
      BY <1>3, <2>1, <3>1
    <3>3. CASE i \in 1 .. Len(notes[t])
      BY <1>3, <2>1, <3>1, <3>3
    <3>4. CASE i = Len(notes[t]) + 1
      BY <1>3, <2>1, <3>1, <3>4
    <3> QED  BY <3>2, <3>3, <3>4
  <2>2. CASE s # t
    BY <1>4, <2>2
  <2> QED  BY <2>1, <2>2
<1> QED  BY <1>1, <1>6, <1>7, CommandsKept DEF OwnerHandsOff, gitVars

LEMMA RunGood ==
  ASSUME FleetInv, NEW a \in Agents, RunCommand(a)
  PROVE  Good(a)
<1>1. ASSUME NEW t \in Tasks,
             \/ \E flag \in Scopes \cup {NoScope} : StartClaim(a, t, flag) \/ ClaimBeside(a, t, flag)
             \/ StartRelease(a, t) \/ StartHandoff(a, t)
             \/ \E wip \in BOOLEAN : StartShip(a, t, wip)
      PROVE  Good(a)
  BY <1>1, StartClaimGood, ClaimBesideGood, StartReleaseGood, StartHandoffGood, StartShipGood
<1>2. CASE StartClaimNext(a) \/ TryNext(a) \/ ClaimAgain(a) \/ Acquire(a) \/ GiveBack(a)
  BY <1>2, StartClaimNextGood, TryNextGood, ClaimAgainGood, AcquireGood, GiveBackGood
<1>3. CASE Release(a) \/ ReleaseLock(a)
  BY <1>3, ReleaseGood, ReleaseLockGood
<1>4. CASE Status(a) \/ Fetch(a) \/ Push(a) \/ PushFails(a) \/ Complete(a)
  BY <1>4, StatusGood, FetchGood, PushGood, PushFailsGood, CompleteGood
<1>5. CASE RemoteHead(a) \/ HandoffTask(a) \/ AnswerLost(a) \/ Retry(a) \/ Reread(a)
  BY <1>5, RemoteHeadGood, HandoffTaskGood, AnswerLostGood, RetryGood, RereadGood
<1> QED  BY <1>1, <1>2, <1>3, <1>4, <1>5, DiesGood DEF RunCommand

LEMMA FleetStep ==
  ASSUME FleetInv, LaneInv, [Next]_vars
  PROVE  FleetInv' /\ \A a \in Agents : OwnOnly(a)
<1>1. CASE WorkflowNext
  <2>1. ASSUME NEW a \in Agents, RunCommand(a)
        PROVE  FleetInv' /\ \A b \in Agents : OwnOnly(b)
    BY <2>1, RunGood, OthersStand
  <2> QED  BY <1>1, <2>1, EditKept DEF WorkflowNext
<1>2. CASE \/ \E s \in Suggestions : RaiseSuggestion(s) \/ DeclineSuggestion(s)
           \/ \E m \in Members, s \in Suggestions, t \in Tasks : MarkAccepted(m, s, t)
           \/ \E m \in Members : Reopen(m) \/ AcceptDies(m)
  BY <1>2, LaneKept
<1>3. CASE \E m \in Members : CreateTicket(m) \/ CreateThrows(m)
  BY <1>3, TicketKept
<1>4. CASE \E t \in Tasks : CreateTask(t) \/ OwnerHandsOff(t) \/ Reap(t)
  BY <1>4, MembersKept, OwnerKept
<1>5. CASE UNCHANGED vars
  <2>1. BoardTyped'
    BY <1>5, Counted, BoardFrame DEF vars
  <2> QED  BY <1>5, <2>1, Counted, BoardMoved DEF vars, board, workflowVars
<1> QED  BY <1>1, <1>2, <1>3, <1>4, <1>5 DEF Next

LEMMA FleetInvariant == Spec => [](FleetInv /\ LaneInv)
<1>1. FleetInv /\ LaneInv /\ [Next]_vars => (FleetInv /\ LaneInv)'
  BY FleetStep, LaneStep
<1> QED  BY <1>1, FleetInit, LaneInit, PTL DEF Spec

-----------------------------------------------------------------------------
(* Every variable of the fleet has its type.                               *)
THEOREM TypeCorrect == Spec => []TypeOK
<1>1. FleetInv /\ LaneInv => TypeOK
  BY DEF FleetInv, LaneInv, AgentsTyped, BoardTyped, LockDoc, LaneTyped, TypeOK
<1> QED  BY <1>1, FleetInvariant, PTL

(* A handoff loses nothing that was pushed for it.  However many agents    *)
(* push to a branch, whatever of it fails and however often a handoff is   *)
(* tried, a note that names a commit names one that is on that branch and  *)
(* holds the work its giver committed (performHandoff, shipScope).         *)
THEOREM HandoffKeepsWork == Spec => []HandoffHoldsWork
<1>1. FleetInv => HandoffHoldsWork
  BY DEF FleetInv
<1> QED  BY <1>1, FleetInvariant, PTL

(* Nobody sits on a ticket whose files it was refused: an idle agent with  *)
(* a claim on a task that declares a scope was granted that scope, or the  *)
(* command that claimed it ended before it heard (cmdClaim, acquireScope). *)
THEOREM NobodySitsOnATicket == Spec => []HeldTicketWasGranted
<1>1. FleetInv => HeldTicketWasGranted
  <2> SUFFICES ASSUME FleetInv, NEW a \in Agents, NEW t \in Tasks,
                      Idle(a), claims[t] = a, Declared[t] # NoScope
               PROVE  <<a, t, Declared[t]>> \in granted \/ <<a, t>> \in unheard
    BY DEF HeldTicketWasGranted
  <2>1. cmd[a].pc = "idle" /\ Accounted(a, t)
    BY Known DEF Standing, Idle, NoCommand
  <2> QED  BY <2>1 DEF Accounted
<1> QED  BY <1>1, FleetInvariant, PTL

(* A command touches its own ticket only.  It ends no claim but on the     *)
(* task it is about, another agent's only where an owner hands that off,   *)
(* and frees no lock but that task's, although the snapshot it goes by may *)
(* be as old as the command, unless a claim in a second terminal of the    *)
(* same agent moved its lock meanwhile (releaseLockFor, mayHandOff).       *)
THEOREM CommandsKeepToTheirTicket == Spec => OwnTicketOnly
<1>1. FleetInv /\ LaneInv /\ [Next]_vars =>
        [\A a \in Agents :
           cmd[a] # NoCommand /\ cmd'[a] # cmd[a] =>
             /\ \A t \in Tasks : claims[t] # NoAgent /\ claims'[t] # claims[t] =>
                  t = cmd[a].task /\ (claims[t] = a \/ (a \in Owners /\ cmd[a].op = "handoff"))
             /\ locks[a] # Unlocked /\ locks'[a] = Unlocked =>
                  locks[a].task = cmd[a].task \/ cmd[a].beside]_vars
  BY FleetStep DEF OwnOnly
<1> QED  BY <1>1, FleetInvariant, PTL DEF Spec, OwnTicketOnly

-----------------------------------------------------------------------------
(* The fleet at the board.                                                 *)

LEMMA ClaimMoves ==
  ASSUME NEW a \in Agents, NEW t \in Tasks, ClaimTask(a, t)
  PROVE  [BoardNext]_board
BY DEF ClaimTask, BoardNext

LEMMA ReleaseMoves ==
  ASSUME NEW a \in Agents, NEW t \in Tasks, ReleaseTask(a, t)
  PROVE  [BoardNext]_board
BY DEF ReleaseTask, BoardNext

LEMMA HandOffMoves ==
  ASSUME NEW t \in Tasks, HandOff(t)
  PROVE  BoardNext
BY DEF BoardNext

LEMMA AcquireMoves ==
  ASSUME FleetInv, NEW a \in Agents, Acquire(a)
  PROVE  [BoardNext]_board
<1>1. cmd[a].task \in Tasks
  BY Known DEF Standing, Acquire, At
<1>2. \/ UNCHANGED board
      \/ cmd[a].scope \in Fence[a] /\ Lock(a, cmd[a].task, cmd[a].scope)
  BY DEF Acquire
<1>3. Fence[a] \subseteq Scopes
  BY WorkflowAssumption
<1> QED  BY <1>1, <1>2, <1>3 DEF BoardNext

LEMMA CommandMoves ==
  ASSUME FleetInv, NEW a \in Agents, RunCommand(a)
  PROVE  [BoardNext]_board
<1>1. cmd[a].pc \notin {"idle", "picked"} => cmd[a].task \in Tasks
  BY Known DEF Standing
<1>2. cmd[a].fits \subseteq Tasks
  BY Known DEF Command
<1>3. ASSUME NEW t \in Tasks
      PROVE  /\ \A flag : StartClaim(a, t, flag) => [BoardNext]_board
             /\ \A flag : ClaimBeside(a, t, flag) => BoardNext
             /\ StartRelease(a, t) \/ StartHandoff(a, t) => UNCHANGED board
             /\ \A wip : StartShip(a, t, wip) => UNCHANGED board
  <2>1. ASSUME NEW flag, ClaimBeside(a, t, flag) PROVE BoardNext
    BY <2>1, WorkflowAssumption DEF ClaimBeside, BoardNext
  <2> QED  BY <2>1, ClaimMoves DEF StartClaim, StartRelease, StartHandoff, StartShip
<1>4. TryNext(a) \/ ClaimAgain(a) => [BoardNext]_board
  BY <1>1, <1>2, ClaimMoves DEF TryNext, ClaimAgain, At
<1>5. GiveBack(a) \/ Release(a) => [BoardNext]_board
  BY <1>1, ReleaseMoves DEF GiveBack, Release, At
<1>6. ReleaseLock(a) => [BoardNext]_board
  BY DEF ReleaseLock, BoardNext
<1>7. Complete(a) => BoardNext
  BY <1>1 DEF Complete, At, BoardNext, Kinds, BoardKinds
<1>8. HandoffTask(a) \/ AnswerLost(a) => [BoardNext]_board
  BY <1>1, HandOffMoves DEF HandoffTask, AnswerLost, HandedOff, At
<1>9. StartClaimNext(a) \/ Status(a) \/ Fetch(a) \/ Push(a) \/ PushFails(a)
        \/ RemoteHead(a) \/ Retry(a) \/ Reread(a) \/ Dies(a) => UNCHANGED board
  BY DEF StartClaimNext, Status, Fetch, Push, PushFails, RemoteHead, Retry, Reread, Dies
<1> QED  BY <1>3, <1>4, <1>5, <1>6, <1>7, <1>8, <1>9, AcquireMoves DEF RunCommand

LEMMA MembersMove ==
  ASSUME LaneInv, NEW m \in Members,
         CreateTicket(m) \/ CreateThrows(m) \/ Reopen(m) \/ AcceptDies(m)
  PROVE  [BoardNext]_board
<1>1. accepting[m].pc = "marked" => accepting[m].task \in Tasks
  BY DEF LaneInv, LaneTyped
<1>2. Ticket(m) /\ accepting[m].pc = "marked" => BoardNext
  BY <1>1 DEF Ticket, BoardNext
<1> QED  BY <1>2 DEF CreateTicket, CreateThrows, Reopen, AcceptDies

(* Whatever agents, members and the reaper do at once, the board sees one  *)
(* of its own operations at a time.  A chain of calls that ends half way,  *)
(* or is run again, needs no operation that the store does not have        *)
(* (StoreImplementsBoard).                                                 *)
THEOREM FleetKeepsToTheBoard == Spec => [][BoardNext]_board
<1>1. FleetInv /\ LaneInv /\ [Next]_vars => [BoardNext]_board
  <2> SUFFICES ASSUME FleetInv, LaneInv, [Next]_vars
               PROVE  [BoardNext]_board
    OBVIOUS
  <2>1. CASE WorkflowNext
    BY <2>1, CommandMoves DEF WorkflowNext, Edit
  <2>2. CASE \/ \E s \in Suggestions : RaiseSuggestion(s) \/ DeclineSuggestion(s)
             \/ \E m \in Members, s \in Suggestions, t \in Tasks : MarkAccepted(m, s, t)
    BY <2>2 DEF RaiseSuggestion, DeclineSuggestion, MarkAccepted
  <2>3. CASE \E t \in Tasks : CreateTask(t) \/ OwnerHandsOff(t) \/ Reap(t)
    BY <2>3 DEF CreateTask, OwnerHandsOff, Reap, BoardNext
  <2>4. CASE UNCHANGED vars
    BY <2>4 DEF vars
  <2> QED  BY <2>1, <2>2, <2>3, <2>4, MembersMove DEF Next
<1> QED  BY <1>1, FleetInvariant, PTL DEF Spec
=============================================================================
