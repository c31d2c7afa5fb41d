------------------------------ MODULE Workflow ------------------------------
(***************************************************************************)
(* What an agent's machine does with a ticket (cli/index.ts, pick.ts,      *)
(* ship.ts, handoff.ts): claim it and lock its files, push the work under  *)
(* the lock to the task's branch, hand it off with a note that points at   *)
(* that work, give it back.  Each command is a chain of calls to the board *)
(* and to git, decides by a snapshot it read at its start, and shares both *)
(* with everybody else's commands.                                         *)
(*                                                                         *)
(* An agent runs one command step by step.  Of the commands it may run     *)
(* beside it, in a second terminal, there is one here: a claim that moves  *)
(* the agent's lock to another of its tickets, from beginning to end in    *)
(* one step.  The board's calls are those of Board, with the one           *)
(* difference its users can see: a grant that was once made is answered ok *)
(* again without taking the lock (its key has no time in it, see           *)
(* CoordinationStore).                                                     *)
(***************************************************************************)
EXTENDS Board, Sequences

CONSTANTS Filed,         \* the tasks on the board at the start
          Files, FilesOf,     \* what each scope covers
          Declared,      \* file_scope of each task, NoScope where the card declares none
          Fence,         \* the scopes the role of each agent may lock
          Roles, Role,   \* role_slug: names the branch
          Owners,        \* the agents whose role_slug is owner
          MaxAttempts,   \* max_attempts of a ship
          MaxRequests,   \* bound: commands and members' requests started
          MaxEdits,      \* bound: edits made
          MaxFaults      \* bound: claims reaped, commands that die, pushes and answers lost

ASSUME WorkflowAssumption ==
  /\ Filed \subseteq Tasks /\ NoTask \notin Tasks
  /\ NoScope \notin Scopes
  /\ FilesOf  \in [Scopes -> SUBSET Files]
  /\ Declared \in [Tasks -> Scopes \cup {NoScope}]
  /\ Fence    \in [Agents -> SUBSET Scopes]
  /\ Role     \in [Agents -> Roles] /\ "none" \notin Roles
  /\ Owners \subseteq Agents
  /\ {MaxAttempts, MaxRequests, MaxEdits, MaxFaults} \subseteq Nat

VARIABLES granted,    \* the grants made so far: <<agent, task, scope>>
          cmd,        \* the command each agent runs
          tree,       \* the edits in each agent's working tree, 0 where a file is as checked out
          remote,     \* the commits of each task branch: the edit each file holds
          notes,      \* the handoffs on each card, oldest first
          unheard,    \* claims whose command ended before it heard about its scope
          requests, edits, faults

gitVars      == <<tree, remote, edits>>
workflowVars == <<granted, cmd, gitVars, notes, unheard, requests, faults>>

Content  == [Files -> 0 .. MaxEdits]
AsBefore == [f \in Files |-> 0]

Branch   == Roles \X Tasks
NoBranch == <<"none", "none">>

\* A handoff, from the holder of the ticket; work is what its giver committed for it,
\* AsBefore if nothing.
Note == [from : Agents, note : Nat, branch : Branch \cup {NoBranch}, head : Nat, work : Content]

Command ==
  [op       : {"none", "claim", "release", "handoff", "ship"},
   pc       : {"idle", "picked", "won", "claimed", "refused", "releasing", "status", "fetch", "push",
               "head", "handoff", "reread", "unlock", "again", "complete"},
   task     : Tasks \cup {NoTask},
   fits     : SUBSET Tasks,               \* pick.fits, what is left of it
   scope    : Scopes \cup {NoScope},      \* claim: the scope wanted; else the lock held for the task
   mine     : BOOLEAN,
   beside   : BOOLEAN,                    \* the lock moved in another terminal since the snapshot
   complete : BOOLEAN,                    \* shouldCompleteOnShip
   branch   : Branch \cup {NoBranch},
   base     : Nat, head : Nat,
   work     : Content,
   attempts : Nat,
   note     : Nat]

NoCommand ==
  [op |-> "none", pc |-> "idle", task |-> NoTask, fits |-> {}, scope |-> NoScope, mine |-> FALSE,
   beside |-> FALSE, complete |-> FALSE, branch |-> NoBranch, base |-> 0, head |-> 0, work |-> AsBefore,
   attempts |-> 0, note |-> 0]

WorkflowInit ==
  /\ tasks   = [t \in Tasks |-> IF t \in Filed THEN NewCard ELSE NoCard]
  /\ claims  = [t \in Tasks |-> NoAgent]
  /\ locks   = [a \in Agents |-> Unlocked]
  /\ granted = {}
  /\ cmd     = [a \in Agents |-> NoCommand]
  /\ tree    = [a \in Agents |-> AsBefore]
  /\ remote  = [b \in Branch |-> <<>>]
  /\ notes   = [t \in Tasks |-> <<>>]
  /\ unheard = {}
  /\ requests = 0 /\ edits = 0 /\ faults = 0

-----------------------------------------------------------------------------
Idle(a)   == cmd[a].op = "none"
At(a, pc) == cmd[a].pc = pc
On(t)     == tasks[t] # NoCard

Request == requests < MaxRequests /\ requests' = requests + 1

Begin(a, c) ==
  /\ Idle(a)
  /\ Request
  /\ cmd' = [cmd EXCEPT ![a] = c]
  /\ UNCHANGED faults

Go(a, c)  == cmd' = [cmd EXCEPT ![a] = c] /\ UNCHANGED <<requests, faults>>
GoTo(a, pc) == Go(a, [cmd[a] EXCEPT !.pc = pc])
End(a)    == Go(a, NoCommand)

Fault == faults < MaxFaults /\ faults' = faults + 1

\* lockHeldFor, scopeForTask: the lock of this agent, if it holds it for this task.
LockFor(a, t) == IF locks[a].task = t THEN locks[a].globs ELSE NoScope

\* branchForTask: a handed-off task goes on where it was handed off.
BranchFor(a, t) ==
  IF notes[t] # <<>> /\ notes[t][Len(notes[t])].branch # NoBranch
    THEN notes[t][Len(notes[t])].branch
    ELSE <<Role[a], t>>

-----------------------------------------------------------------------------
(* claim.                                                                  *)

\* scopeToAcquire: what the card declares, or else what --scope says.
Want(t, flag) == IF Declared[t] # NoScope THEN Declared[t] ELSE flag

\* claimTask: taken if it is free; claiming one's own again is no news.
ClaimTask(a, t) == TakeClaim(a, t) \/ (claims[t] = a /\ UNCHANGED board)

StartClaim(a, t, flag) ==
  /\ On(t)
  /\ ClaimTask(a, t)
  /\ Begin(a, [NoCommand EXCEPT !.op = "claim", !.pc = "claimed", !.task = t, !.scope = Want(t, flag)])
  /\ UNCHANGED <<granted, gitVars, notes, unheard>>

\* pickTasks: open, unclaimed, inside the fence, and nobody else's files.
Fits(a) ==
  {t \in Tasks : /\ tasks[t].status = "open" /\ tasks[t].claimed_by = NoAgent
                 /\ Declared[t] \in Fence[a]
                 /\ Rivals(a, Declared[t]) = {}}

StartClaimNext(a) ==
  /\ Fits(a) # {}
  /\ Begin(a, [NoCommand EXCEPT !.op = "claim", !.pc = "picked", !.fits = Fits(a)])
  /\ UNCHANGED <<board, granted, gitVars, notes, unheard>>

\* The tickets picked are tried until one is won.
TryNext(a) ==
  /\ At(a, "picked")
  /\ \E t \in cmd[a].fits :
       \/ /\ ClaimTask(a, t)
          /\ Go(a, [cmd[a] EXCEPT !.pc = "won", !.task = t, !.scope = Declared[t], !.fits = {}])
       \/ /\ claims[t] \notin {NoAgent, a}
          /\ Go(a, IF cmd[a].fits = {t} THEN NoCommand ELSE [cmd[a] EXCEPT !.fits = @ \ {t}])
          /\ UNCHANGED board
  /\ UNCHANGED <<granted, gitVars, notes, unheard>>

\* The rest is an ordinary claim of the ticket won, which somebody may have taken away.
ClaimAgain(a) ==
  /\ At(a, "won")
  /\ \/ ClaimTask(a, cmd[a].task) /\ GoTo(a, "claimed")
     \/ claims[cmd[a].task] \notin {NoAgent, a} /\ End(a) /\ UNCHANGED board
  /\ UNCHANGED <<granted, gitVars, notes, unheard>>

\* Mutant: a scope the role may not lock ends the command there and then.
Acquire_DeniedThrows(a) ==
  LET c == cmd[a]  g == cmd[a].scope  grant == <<a, c.task, c.scope>> IN
  /\ At(a, "claimed")
  /\ \/ /\ g = NoScope \/ g \notin Fence[a]
        /\ End(a)
        /\ UNCHANGED <<board, granted>>
     \/ /\ g \in Fence[a] /\ Rivals(a, g) # {}
        /\ GoTo(a, "refused")
        /\ UNCHANGED <<board, granted>>
     \/ /\ g \in Fence[a] /\ Rivals(a, g) = {}
        /\ IF grant \in granted THEN UNCHANGED board ELSE Lock(a, c.task, g)
        /\ granted' = granted \cup {grant}
        /\ End(a)
  /\ UNCHANGED <<gitVars, notes, unheard>>

\* acquireScope, after the claim.  With no scope to ask for nothing is locked.
Acquire(a) ==
  LET c == cmd[a]  g == cmd[a].scope  grant == <<a, c.task, c.scope>> IN
  /\ At(a, "claimed")
  /\ \/ /\ g = NoScope
        /\ End(a)
        /\ UNCHANGED <<board, granted>>
     \/ /\ g # NoScope /\ (g \notin Fence[a] \/ Rivals(a, g) # {})
        /\ GoTo(a, "refused")
        /\ UNCHANGED <<board, granted>>
     \/ /\ g \in Fence[a] /\ Rivals(a, g) = {}
        /\ IF grant \in granted THEN UNCHANGED board ELSE Lock(a, c.task, g)
        /\ granted' = granted \cup {grant}
        /\ End(a)
  /\ UNCHANGED <<gitVars, notes, unheard>>

\* A claim in a second terminal, of another ticket the agent holds: the lock goes over to that.
ClaimBeside(a, t, flag) ==
  LET g == Want(t, flag) IN
  /\ cmd[a].scope # NoScope /\ locks[a].task = cmd[a].task
  /\ claims[t] = a /\ t # cmd[a].task
  /\ g \in Fence[a] /\ <<a, t, g>> \notin granted
  /\ Request
  /\ Lock(a, t, g)
  /\ granted' = granted \cup {<<a, t, g>>}
  /\ cmd' = [cmd EXCEPT ![a].beside = TRUE]
  /\ UNCHANGED <<gitVars, notes, unheard, faults>>

\* releaseTask, by its holder or by nobody.
ReleaseTask(a, t) == IF claims[t] = a THEN EndClaim(t) ELSE UNCHANGED board

GiveBack(a) ==
  /\ At(a, "refused")
  /\ ReleaseTask(a, cmd[a].task)
  /\ End(a)
  /\ UNCHANGED <<granted, gitVars, notes, unheard>>

-----------------------------------------------------------------------------
(* release.                                                                *)

\* Giving back what one has no part in changes nothing, and is left out.
Involved(a, t) == a \in {claims[t], tasks[t].claimed_by} \/ locks[a].task = t

StartRelease(a, t) ==
  /\ Involved(a, t)
  /\ Begin(a, [NoCommand EXCEPT !.op = "release", !.pc = "releasing", !.task = t,
                                !.scope = LockFor(a, t)])
  /\ UNCHANGED <<board, granted, gitVars, notes, unheard>>

Release(a) ==
  /\ At(a, "releasing")
  /\ ReleaseTask(a, cmd[a].task)
  /\ GoTo(a, "unlock")
  /\ UNCHANGED <<granted, gitVars, notes, unheard>>

\* Mutant: releaseScope whatever the snapshot said.
ReleaseLock_Always(a) ==
  /\ At(a, "unlock")
  /\ Unlock(a)
  /\ End(a)
  /\ UNCHANGED <<granted, gitVars, notes, unheard>>

\* releaseLockFor, of release and of handoff: only if the snapshot had the lock for this task.
ReleaseLock(a) ==
  /\ At(a, "unlock")
  /\ IF cmd[a].scope # NoScope THEN Unlock(a) ELSE UNCHANGED board
  /\ End(a)
  /\ UNCHANGED <<granted, gitVars, notes, unheard>>

-----------------------------------------------------------------------------
(* Work in the tree, and shipScope, of ship and of handoff.                *)

\* An agent writes what its lock covers, whenever it likes.
Edit(a, f) ==
  /\ locks[a].globs # NoScope /\ f \in FilesOf[locks[a].globs]
  /\ edits < MaxEdits
  /\ edits' = edits + 1
  /\ tree' = [tree EXCEPT ![a][f] = edits + 1]
  /\ UNCHANGED <<board, granted, cmd, remote, notes, unheard, requests, faults>>

Changed(a, g) == {f \in FilesOf[g] : tree[a][f] # 0}

\* What the ship leads to once the branch holds the work, or there was none.
Shipped(c) == IF c.op = "handoff" THEN "handoff" ELSE IF c.complete THEN "complete" ELSE "idle"

Onward(a, c) == IF Shipped(c) = "idle" THEN End(a) ELSE Go(a, [c EXCEPT !.pc = Shipped(c)])

\* shipContext: one of the tasks the agent holds, if it holds its lock as well.
StartShip(a, t, wip) ==
  /\ tasks[t].claimed_by = a /\ tasks[t].status # "merged"
  /\ LockFor(a, t) # NoScope
  /\ Begin(a, [NoCommand EXCEPT !.op = "ship", !.pc = "status", !.task = t, !.scope = LockFor(a, t),
                 !.branch = BranchFor(a, t), !.mine = TRUE,
                 !.complete = ~wip /\ tasks[t].status \in {"claimed", "in_progress"}])
  /\ UNCHANGED <<board, granted, gitVars, notes, unheard>>

\* git status: with nothing changed in scope there is nothing to push.
Status(a) ==
  LET c == cmd[a] IN
  /\ At(a, "status")
  /\ IF Changed(a, c.scope) # {} THEN GoTo(a, "fetch")
     ELSE IF c.op = "handoff" THEN GoTo(a, "head") ELSE Onward(a, c)
  /\ UNCHANGED <<board, granted, gitVars, notes, unheard>>

Tip(b) == Len(remote[b])
CommitAt(b, n) == IF n = 0 THEN AsBefore ELSE remote[b][n]

\* The files under the scope laid over the tip that was fetched.
Overlay(a, c, n) ==
  [f \in Files |-> IF f \in Changed(a, c.scope) THEN tree[a][f] ELSE CommitAt(c.branch, n)[f]]

\* One attempt up to its push.  A tree that is on the branch already needs no commit.
Fetch(a) ==
  LET c == cmd[a]
      n == Tip(c.branch)
      w == [c EXCEPT !.base = n, !.attempts = @ + 1, !.work = Overlay(a, c, n)]
  IN  /\ At(a, "fetch")
      /\ IF n > 0 /\ w.work = CommitAt(c.branch, n)
           THEN Onward(a, [w EXCEPT !.head = n])
           ELSE Go(a, [w EXCEPT !.pc = "push"])
      /\ UNCHANGED <<board, granted, gitVars, notes, unheard>>

\* A fast-forward, or another attempt on the new tip, or the end: a handoff that could
\* not push has handed nothing off.
Push(a) ==
  LET c == cmd[a] IN
  /\ At(a, "push")
  /\ IF c.base = Tip(c.branch)
       THEN /\ remote' = [remote EXCEPT ![c.branch] = Append(@, c.work)]
            /\ Onward(a, [c EXCEPT !.head = c.base + 1])
       ELSE /\ IF c.attempts < MaxAttempts THEN GoTo(a, "fetch") ELSE End(a)
            /\ UNCHANGED remote
  /\ UNCHANGED <<board, granted, tree, edits, notes, unheard>>

\* Mutant: a handoff takes a push that failed for one that had nothing to do.
PushFails_Ignored(a) ==
  /\ At(a, "push")
  /\ Fault
  /\ cmd' = [cmd EXCEPT ![a] = IF @.op = "handoff" THEN [@ EXCEPT !.pc = "head"] ELSE NoCommand]
  /\ UNCHANGED <<board, granted, gitVars, notes, unheard, requests>>

\* git fails for another reason; shipScope tries no more, and the command is over.
PushFails(a) ==
  /\ At(a, "push")
  /\ Fault
  /\ cmd' = [cmd EXCEPT ![a] = NoCommand]
  /\ UNCHANGED <<board, granted, gitVars, notes, unheard, requests>>

\* A hand-run ship completes the task as well.
Complete(a) ==
  /\ At(a, "complete")
  /\ Report("task_completed", cmd[a].task, FALSE)
  /\ End(a)
  /\ UNCHANGED <<granted, gitVars, notes, unheard>>

-----------------------------------------------------------------------------
(* handoff.                                                                *)

\* performHandoff up to the push.  The checkpoint is pushed by its claimant, under its lock;
\* anybody else points at the branch b that is on the card.
Survey(a, t, b) ==
  LET mine == tasks[t].claimed_by = a  g == LockFor(a, t) IN
  [NoCommand EXCEPT !.op = "handoff", !.task = t, !.mine = mine, !.scope = g,
     !.pc     = IF ~mine THEN "handoff" ELSE IF g # NoScope THEN "status" ELSE "head",
     !.branch = IF mine THEN BranchFor(a, t) ELSE b]

\* What task.branch of the card may say: nothing, or a branch of the task somebody pushed.
CardBranches(t) == {NoBranch} \cup {b \in Branch : b[2] = t /\ remote[b] # <<>>}

\* An owner may hand off anybody's ticket; of others, who has no part in it is refused.
StartHandoff(a, t) ==
  /\ Involved(a, t) \/ (a \in Owners /\ claims[t] # NoAgent)
  /\ \E b \in CardBranches(t) : Begin(a, [Survey(a, t, b) EXCEPT !.note = requests + 1])
  /\ UNCHANGED <<board, granted, gitVars, notes, unheard>>

\* remoteHead: nothing was pushed now, but the branch may hold earlier work.  A remote
\* that does not answer is taken for one that has no such branch.
RemoteHead(a) ==
  /\ At(a, "head")
  /\ \/ LET n == Tip(cmd[a].branch) IN
        Go(a, [cmd[a] EXCEPT !.pc = "handoff", !.head = n, !.branch = IF n = 0 THEN NoBranch ELSE @])
     \/ /\ Fault
        /\ cmd' = [cmd EXCEPT ![a].pc = "handoff", ![a].branch = NoBranch]
        /\ UNCHANGED requests
  /\ UNCHANGED <<board, granted, gitVars, notes, unheard>>

\* mayHandOff: its claimant, or an owner.
MayHandOff(a, t) == claims[t] # NoAgent /\ (claims[t] = a \/ a \in Owners)

\* The note is the holder's, whoever hands the ticket off.
HandedOff(a, t) ==
  LET c == cmd[a] IN
  /\ HandOff(t)
  /\ notes' = [notes EXCEPT ![t] = Append(@, [from |-> claims[t], note |-> c.note, branch |-> c.branch,
                                              head |-> c.head, work |-> c.work])]

\* Only one's own lock, and only if the ticket was one's own.
AfterHandoff(a) == IF cmd[a].mine THEN GoTo(a, "unlock") ELSE End(a)

\* handoffTask.  Held by another it is refused, to an owner too if it changed hands just now;
\* held by nobody, the card may show that it was done already.
HandoffTask(a) ==
  LET c == cmd[a] IN
  /\ At(a, "handoff")
  /\ \/ MayHandOff(a, c.task) /\ HandedOff(a, c.task) /\ AfterHandoff(a)
     \/ claims[c.task] = NoAgent /\ GoTo(a, "reread") /\ UNCHANGED <<board, notes>>
     \/ claims[c.task] \notin {a, NoAgent} /\ End(a) /\ UNCHANGED <<board, notes>>
  /\ UNCHANGED <<granted, gitVars, unheard>>

\* The answer is lost after the commit.  The line stays in the outbox, and the handoff is
\* performed again from the start, with the same note.
AnswerLost(a) ==
  /\ At(a, "handoff")
  /\ MayHandOff(a, cmd[a].task)
  /\ HandedOff(a, cmd[a].task)
  /\ Fault
  /\ cmd' = [cmd EXCEPT ![a].pc = "again"]
  /\ UNCHANGED <<granted, gitVars, unheard, requests>>

Retry(a) ==
  /\ At(a, "again")
  /\ \E b \in CardBranches(cmd[a].task) : Go(a, [Survey(a, cmd[a].task, b) EXCEPT !.note = cmd[a].note])
  /\ UNCHANGED <<board, granted, gitVars, notes, unheard>>

\* A note from this agent in these words is the handoff it asked for.  An owner's note on
\* another's ticket is from that other, and passes for no handoff.
Reread(a) ==
  LET c == cmd[a]  n == notes[cmd[a].task] IN
  /\ At(a, "reread")
  /\ IF n # <<>> /\ n[Len(n)].from = a /\ n[Len(n)].note = c.note THEN AfterHandoff(a) ELSE End(a)
  /\ UNCHANGED <<board, granted, gitVars, notes, unheard>>

-----------------------------------------------------------------------------
\* Ctrl-C, a dead network, a 5xx: the command ends where it is.  Where it has not done
\* anything yet that is no different from a command that was never run.
Dies(a) ==
  LET c == cmd[a] IN
  /\ c.pc \in {"won", "claimed", "refused", "handoff", "unlock", "complete"}
  /\ Fault
  /\ cmd' = [cmd EXCEPT ![a] = NoCommand]
  /\ unheard' = IF c.pc \in {"won", "claimed", "refused"} THEN unheard \cup {<<a, c.task>>} ELSE unheard
  /\ UNCHANGED <<board, granted, gitVars, notes, requests>>

RunCommand(a) ==
  \/ \E t \in Tasks :
       \/ \E flag \in Scopes \cup {NoScope} : StartClaim(a, t, flag) \/ ClaimBeside(a, t, flag)
       \/ StartRelease(a, t) \/ StartHandoff(a, t)
       \/ \E wip \in BOOLEAN : StartShip(a, t, wip)
  \/ StartClaimNext(a) \/ TryNext(a) \/ ClaimAgain(a) \/ Acquire(a) \/ GiveBack(a)
  \/ Release(a) \/ ReleaseLock(a)
  \/ Status(a) \/ Fetch(a) \/ Push(a) \/ PushFails(a) \/ Complete(a)
  \/ RemoteHead(a) \/ HandoffTask(a) \/ AnswerLost(a) \/ Retry(a) \/ Reread(a)
  \/ Dies(a)

WorkflowNext ==
  \E a \in Agents : RunCommand(a) \/ \E f \in Files : Edit(a, f)
=============================================================================
