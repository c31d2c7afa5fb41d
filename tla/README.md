# Flotilla in TLA+

Flotilla (this repository) lets several coding agents work on one project. Agents never talk to
each other: they append facts to a shared ledger, claim tasks, take file-scope locks, and read
their inbox. The ledger and everything folded from it live in Firestore; each checkout has a CLI
that carries the agent's outbox to the ledger and the ledger to the agent's inbox.

This directory models the parts of that system where the order of steps matters, model-checks
them on small instances with TLC, and proves the main safety properties for every instance with
TLAPS. Every definition is a translation of code under `src/`; `PROJECT.json` gives, for each one,
the file and the lines.

- [Inventory](#inventory)
- [The modules](#the-modules)
- [How the models correspond to the code](#how-the-models-correspond-to-the-code)
- [The runs](#the-runs)
- [What the runs found](#what-the-runs-found)
- [The proofs](#the-proofs)
- [Not modelled](#not-modelled)
- [Plan](#plan)

## Inventory

| Component | State it keeps | Operations | Talks to |
|---|---|---|---|
| Coordination store (`firebase/store.ts`) | events with their seq, the ledger counter, task cards, claims, scope locks, the project rollup, agent documents (revoked, last heartbeat), suggestions | append, create, claim, release, reap, hand off, acquire and release a scope, raise, accept and decline a suggestion, heartbeat, read events and snapshots | every writer below |
| Fold (`firebase/fold.ts`, `shared/store/tasks.ts`, `handoff.ts`) | none, pure | one event applied to one card; what a handoff does to a card | called inside the store's append |
| Rollup (`shared/store/rollup.ts`) | counters on the project document | move by the difference of one card | called inside the store's append |
| Claim reaper (`firebase/reaper.ts`) | none | survey claims and heartbeats, reap stale claims | store |
| Reaper lease (`cli/bridge.ts` `startReaper`) | a claim on a reserved task id, a `holding` flag per bridge | acquire, break, sweep, release | store, presence, reaper |
| Blackboard (`cli/blackboard.ts`) | a git branch of published facts, a worktree per bridge, the files materialised under `.agentic` | publish, materialise | git remote, CDN, store |
| Presence (`firebase/presence-rtdb.ts`, heartbeat) | last heartbeat per agent | heartbeat, list | reaper, lease |
| Agent API (`functions/src/api.ts`, `authority.ts`) | none | events, claim, release, handoff, scope, reads | store |
| Member writes (`functions/src/write-api.ts`) | invites, roles | create, cancel and hand off a task, accept a suggestion, revoke | store |
| GitHub webhook (`functions/src/webhook.ts`, `index.ts`) | none | one delivery to one event; release the lock after a merge | store |
| Outbox (`cli/outbox.ts`, `cli/index.ts`) | `outbox.jsonl`, `outbox.cursor`, the `outbox.d/` spool | append, read pending, drain | agent API |
| Inbox feed (`cli/bridge.ts` `startInboxFeed`, `cli/index.ts`) | `inbox.jsonl`, last seen seq | deliver, materialise a contract | agent API |
| CLI workflow (`cli/index.ts`, `handoff.ts`, `ship.ts`, `pick.ts`, `sync.ts`) | the working tree | claim then lock, ship, hand off | agent API, git |
| Memory store (`shared/store/memory.ts`) | a double of the store | as the store | tests |
| Globs and roles (`shared/globs.ts`, `shared/store/roles.ts`) | none, pure | do two globs intersect; may a role lock a glob | store |
| Project directory, browser client, facts, MCP, chat, login | read models, files, terminals | | store reads |

What makes each of them hard, and what makes it correct:

- **Store.** Several agents, the webhook, the members and the reaper commit transactions against
  the same counter, cards, claims and locks; calls are retried after lost answers, and webhooks
  are redelivered in any order. Correct when: the ledger is one gap-free order with each key once;
  the cards are the replay of the ledger and the rollup a recount of the cards; a claim document
  exists exactly when the ledger says so and the card shows its holder; no two agents hold
  intersecting scopes; a shipped card stays shipped.
- **Outbox.** A drain may be cut at any point, its answers may be lost, and two processes may
  drain one file. Correct when: nothing the cursor has passed is missing from the ledger, one line
  makes one event, lines keep their order, a spooled file stays until it is recorded, and
  everything is published in the end.
- **Reaper, lease, presence.** Decisions are taken from a survey and carried out later, by a bridge
  chosen by a lease that is itself a claim. Correct when: an agent that keeps beating loses no claim,
  one bridge sweeps at a time, a dead agent's claim is freed in the end.
- **Blackboard and inbox.** Several bridges push to one branch; frames are dropped, pages are
  capped, files fail to arrive, processes die, and a `claim` or `connect` typed beside the process
  that delivers writes an old cursor back. Correct when: lines come in ledger order, each with
  the file it announces on disk, what comes out of turn is a repetition, the saved cursor covers
  nothing that was lost, and what concerns agents arrives in the end.
- **CLI workflow.** A command is a chain of store and git calls that goes by a snapshot, and an
  owner may hand off a ticket it does not hold. Correct when: a command touches its own ticket only,
  a refused scope is given back, and a handoff's note points at a commit that holds the work.
- **Member flows.** Accepting a suggestion is two transactions and a compensation. Correct when: one
  complaint makes one ticket. Cancelling a task is three transactions.
- **Memory store.** It re-implements the store by hand. Correct when: it shows what the store shows.
- **Globs.** Correct when: intersection answers whether some path matches both, and containment
  never grants what the role's globs do not cover.

`PROJECT.json` lists the hazards of each at the line where it bites, with the properties that
cover it, or the reason why none does yet.

## The modules

| Module | Models | Uses |
|---|---|---|
| `TaskFold` | the board fold, the task state machine, the rollup difference: pure operators | |
| `CoordinationStore` | the store: documents as variables, transactions as actions | `TaskFold` |
| `Ledger` | the abstract append-only ledger the store promises its readers | |
| `StoreProperties` | the store's properties, and the refinements of `Ledger` and `Board` | `CoordinationStore`, `Ledger`, `Board` |
| `Board` | the store as its callers know it: cards, claims, locks, atomic operations | `TaskFold` |
| `MCStore`, `MCLocks` | instances of the store for TLC; the second computes scope overlap from globs | `StoreProperties`, `GlobFacts` |
| `MemoryStore` | the in-process double of the store | `TaskFold` |
| `Conformance`, `MCConformance` | both stores side by side, call by call | `StoreProperties`, `MemoryStore` |
| `Globs` | normalisation, intersection, conflicts and role containment of globs: recursive functions | |
| `GlobLanguage` | what globs stand for: the words a segment matches, the paths a glob matches | `Globs` |
| `GlobFacts` | what holds of `Globs` on small globs, for TLC to evaluate | `GlobLanguage` |
| `GlobProofs` | the glob algorithms compute what they should, for all normalised globs | `GlobLanguage` |
| `StoreProofs` | types, the ledger and its refinement, the folds (shipped cards, rollup, replay), and the shape lemmas every other proof uses | `StoreProperties` |
| `StoreBoardProofs` | the claim invariant and what follows from it; scope exclusion, the cap, locks follow the ledger; the store implements the board | `StoreProofs`, `GlobProofs` |
| `ConformanceProofs` | the two stores agree; what holds of the store holds beside its double | `Conformance`, `StoreBoardProofs` |
| `Outbox` | the outbox of one checkout, its drains and its properties | |
| `OutboxProofs` | the outbox: types, cursor, order, spool, one event per line | `Outbox` |
| `MCOutbox` | instances of the outbox for TLC | `Outbox` |
| `Reaper` | the stale-claim reaper, its lease, heartbeats and time | `Board` |
| `ReaperProofs` | the reaper: types, lease, working agents, only operations of the board | `Reaper` |
| `MCReaper` | an instance of the reaper for TLC | `Reaper` |
| `Blackboard` | the git branch of published facts and the bridges that push to it | |
| `InboxFeed`, `MCInboxFeed` | delivery of the ledger to one machine's inbox, and its instance | `Blackboard` |
| `InboxProofs` | blackboard and inbox: types, saved cursor, pinned files, order | `InboxFeed` |
| `Workflow` | an agent's commands: claim, release, ship, handoff | `Board` |
| `Fleet`, `MCFleet` | commands, members, suggestions and a reaper around one board, and its instance | `Workflow` |
| `FleetProofs` | the fleet: types, handoffs, claims and scopes, own ticket, one ticket per suggestion, only operations of the board | `Fleet` |

`Board` is where the halves meet: `CoordinationStore`, with its ledger, keys, clocks and calls in
flight, implements it (`ImplementsBoard`, proved in `StoreBoardProofs`), and `Reaper` and `Workflow`
are written in its operations and, as is proved of both, use nothing else of it. One thing does not
come through the refinement as a caller would hope, an `acquireScope` that answers ok and takes no
lock (`store_grant`): `Workflow` therefore keeps the grants made so far and answers a repeated one
the way the store does.

## How the models correspond to the code

### The store

The variables are the documents. `events` are the event documents (each with `seq` and its
idempotency key), `counter` is `meta/ledger`, `tasks[t]` the card, `claims[t]` the claim document,
`locks[a]` the agent's one lock, `rollup` the counters on the project document, `revoked` the
agents whose document says so. `call[a]` is the call agent `a` has in flight.

A Firestore transaction commits as a whole or not at all, and a transaction that reads a document
another one writes is retried, so **one transaction is one action**. Its guards are the
transaction's early returns, and every transaction ends in `CommitAppend`, which is `planAppend`
followed by `commitAppend`: a key already on the ledger changes nothing the append owns
(`AppendDuplicate`); otherwise the counter moves, the event is written, the card is folded, the
lock table follows a scope event, and the rollup moves by the difference (`AppendFresh`). What a
transaction writes outside of the append, such as deleting the claim, it writes in both cases, as
the code does.

**A call of an agent is two steps.** `Begin...` is what runs before the transaction: the revocation
check, and for a handoff the read of the present holder. The transaction is the second step, or
`FailCall` if the call ends in failure (contention that outlasts its retries, an outage). Between
the two everything else may happen. Answers are not kept: a caller may repeat any call at any time,
whatever it was told, which covers every lost answer and every retry.

| Actions | Code |
|---|---|
| `ClaimHeld`, `ClaimFree` | `claimTask`: held already, by this agent or another; or taken, with `task_claimed` |
| `ReleaseNotHeld`, `ReleaseHeld` | `releaseTask` |
| `HandoffRefused`, `HandoffHeld`, `HandoffByMember` | `handoffTask` from `POST /handoff` and from the board |
| `AcquireBusy`, `AcquireRefused`, `AcquireGranted` | `acquireScope`: the table past its cap, a conflict, a grant |
| `ReleaseScopeNone`, `ReleaseScopeHeld`, `ReleaseScopeFor` | `releaseScope` by the agent, and on its behalf after a merge or a cancellation |
| `AppendEvent` | `POST /events` |
| `CreateTask`, `ReapClaim`, `CancelTask` | `createTask`, `reapClaim`, the last step of `cancel_task` |
| `Webhook` | one GitHub delivery, new or redelivered, in any order |
| `SetRevoked` | revoking a token, and giving it back |

What is abstracted, and why it is sound:

- `claimed_at` and `acquired_at` are clock readings in the code and the seq of the allocating
  append in the model. The keys built from them need distinct readings for distinct grants; two
  grants of one task (or one agent's scope) are separated by at least one other transaction. A
  clock that repeats or steps back between them is not modelled.
- An idempotency key is the record of the fields the code concatenates, prefix included.
- A scope is one value for a whole list of globs; `Overlap` is any symmetric relation between
  scopes. `MCLocks` computes it with `FindGlobConflicts` for four lists of globs, and
  `NoPathHeldTwice` says what exclusion of scopes means for paths when it is computed that way.
- A card keeps the fields that coordination rules read: column, owner, whether it names a
  blocker, CI badge. Contract and decision events, which no such rule reads, are left out.
- Webhook delivery ids are numbered in the order in which they are first recorded.
- `cancel_task` is three kinds of transaction one after the other. Each is an action that may
  happen on its own, so the model has every interleaving and every crash in between (and more
  behaviours than the code: a safety property that holds here holds there).
- The revocation check of a release on behalf of an agent is taken together with its transaction.
- A member's handoff key has the note in the code and not in the model, since the claim it names
  is deleted by the first handoff anyway.
- In a scope event appended through `POST /events` the agent names itself. The free-form
  `append_event` of members and malformed bodies are not modelled.

### The outbox

`file` is `outbox.jsonl` as a sequence of units: a text and its newline are one unit each, so the
byte offsets of the code are unit offsets here. `cursor` is `outbox.cursor`, `spool` the files in
`outbox.d/`, `ledger` the keys the store has recorded, in order. `drain[d]` is what a drain is
doing: idle, between reading the cursor and reading the files, about to publish its first record,
or about to save that it did.

A text is `Good` (the ledger takes it), `Refused` (a kind the API answers with 403), `Hopeless` (a
contract event that names no file, reported and passed) or `Malformed`. `LinesOf(raw, base)` is
`readPending`'s loop: the offset starts at `base`, which is the cursor **also when the whole file
is read** because the cursor lies past its end. `First` is the sort of `drain`. The key of a line
is its text and offset, the key of a spool file its uuid.

Two drains run at once: `flotilla start` drains every two seconds, and `flotilla ship` drains the
same outbox after a completion; nothing locks one against the other. `PublishFails` is an outage or
a refusal, `AnswerLost` an append whose answer did not come back, `Crash` the death of a process
(which is started again), `LoseCursor` a cursor file that is missing or corrupt and read as zero.

### The memory store beside the store

`Conformance` makes every call that commits in `CoordinationStore` on `MemoryStore` in the same
step, as the conformance suite does with the same test on each. The two are not the same machine.
`together` is the set of tasks whose history has only made moves that both folds make
(`SharedMoves`), and `StoresAgree` says that for those the column and the owner on the board are the
same, and that the claims are the same always. What is outside, found while writing the two folds
down: the memory fold makes illegal moves (a `merged` before `pr_opened` counts there); a release or
a reap of a started card leaves its column in memory and reopens it in Firestore; a push revives a
blocked or reviewed card in Firestore only; a claim on a card that is not open shows in memory only.
Locks are keyed by agent and task in memory and by agent in Firestore, and the caps differ by one;
the model leaves the locks to Firestore.

### The reaper

`claims[Lease]` is the claim on `__reaper_lease`; the other claims are the board's. `age[t]` is how
long ago a claim was taken and `silent[a]` how long ago an agent last beat, both counted in units
longer than a heartbeat interval up to a horizon past which nothing tells them apart. `Never` is a
row without a heartbeat, `Unknown` no row at all. `bridge[b]` is the reaper of one bridge: what it
believes (`holding`), and where its tick is between two awaits.

| Actions | Code |
|---|---|
| `TryAcquire`, `ReadPresence`, `BreakLease`, `RetryAcquire` | the four awaits of `tryAcquire` |
| `Survey`, `Decide`, `ReleaseFails` | `reapProject`: its reads, then one claim after the other by a clock that moves on |
| `TickFails`, `LeaseAnswerLost`, `RefusedRevoked` | a call that throws, with or without its effect |
| `Beat`, `Advance` | the heartbeat, and time |
| `Claim`, `ReleaseOwn`, `MoveCard`, `Revoke` | what the claims are about |
| `Crash`, `Stop`, `Start` | the bridge process |

Abstracted: the survey's three reads are one step; a sweep keeps only the claims it could still
release before it ends; ticks of one bridge do not overlap (they are a minute apart); all clocks
agree. A steady agent is one whose bridge beats in every unit of time. `MaxSweep` bounds how long a
sweep may last, for the code compares a clock it reads late with a heartbeat it read early: a
machine suspended in the middle of a sweep for longer than the timeout would release live claims,
and is outside the model.

### Blackboard and inbox

The remote branch only fast-forwards, so it is the sequence of files its commits added, and a
commit sha is a position in it. `work[p]` is where a publisher's `publishToBlackboard` is: each git
command is a step, and other bridges push in between. `log` is the ledger: facts with their pointer,
plain events, and events of the human layer.

`feed` is one delivery process in one of two modes: the bridge (`startInboxFeed`, a cursor in
memory, woken by frames of the live cache) or `flotilla start` (a cursor in `state.json`, a poll
every two seconds). Every await of the page loop is a step, and the process may die between any two
and be started in either mode over the same files. The API withholds the human layer from the start
loop, which moves its cursor by the events it was given only; the bridge reads the store itself and
moves past them. Abstracted: debouncing of frames, listeners that fail or are torn down, and the
inbox lines that stand for no event of the ledger.

`saved` is `last_seen_seq` in `state.json`, and delivery is not its only writer. `flotilla claim` reads
the file, asks the API about its role, and writes back what it read (`ReadCursor`, `WriteBack`; `held`
is what it has in hand); `connect` begins the file anew at zero (`Connect`). The file is not replaced
atomically, so a reader may find it half written, and a process that dies while writing leaves it cut
off; either reads as zero (`TornPoll`, `MaybeCutOff`). The start loop reads the file at every poll. So
`rewound` remembers whether the cursor fell back beside the start loop that runs: up to then its
lines are in order (`LinesInOrder`), and after it whatever comes out of turn is a repetition
(`OutOfTurnIsOld`). The bridge keeps its cursor in memory and is not touched by any of this.

### Workflow and fleet

`cmd[a]` is the command an agent runs: what it read in its snapshot and which call comes next.
`tree[a]` says which edit each file of the working tree holds, `remote[b]` the commits of a task
branch as the contents they hold, `notes[t]` the handoffs on a card. Commands die at any call
(`Dies`), pushes fail or lose their race, and a handoff's answer may be lost, after which the outbox
performs it again (`AnswerLost`, `Retry`, `Reread`). Completion is appended at once where the code goes
through the outbox, whose module is separate.

An agent in `Owners` has the role `owner`, and its handoff ends anybody's claim (`MayHandOff`). It
pushes nothing for a ticket that is not its own and names the branch the card shows (`CardBranches`:
any branch of the task that was pushed, or none). The API reads the holder and hands off in that
holder's name, and the store refuses if the ticket changed hands in between: an owner may be refused
where the ticket is held by another. When `ls-remote` fails the note names no branch (`RemoteHead`).
`claim-next` claims twice, once to win the ticket and once as an ordinary claim (`TryNext`,
`ClaimAgain`), and may lose it in between.

An agent's command runs step by step. One other command may come beside it, from a second terminal
with the same token: `ClaimBeside`, a claim of another ticket the agent holds, which moves the agent's
only lock there, from beginning to end in one step. `beside` marks the command whose snapshot of the
lock it made stale.

`Fleet` adds the members: tickets, handoffs by an owner, the suggestion lane with two members at one
suggestion, and `Reap`, which ends any claim over its holder's head. `unheard` and `stranded` record
which commands and acceptances broke off, as the properties make exceptions of them.

### Globs

The algorithm is written down as the code has it; a glob is a sequence of segments, a segment a
sequence of characters:
`normalizeGlob` as its four substitutions one after the other, `globsIntersect` as its memoised
recursion in the form of a recursive function of the two positions. `GlobLanguage` defines what a
glob matches, from the meaning of `*`, `?` and `**`: a path that can be cut into one piece for each
item of the pattern. `GlobProofs` proves of normalised globs of any length over any alphabet that
intersection is exact and that containment is sound where no wildcard is granted for a wider one
(point 14 of [The proofs](#the-proofs)). `GlobFacts` has TLC evaluate the same two on all
globs of up to two segments from a small alphabet (`IntersectionIsExact`, `ContainmentIsSound`),
where a definition of matching that meant nothing would show, and with them what the theorems leave
aside: `src/*` for `src/**` as an example of what a role is granted too much
(`WildcardGrantsTooMuch`), and that a lock on `/` or `./`, which no theorem is about since its one
segment is empty, meets no glob that names anything (`RootLocksNothing`), though the comment at
`store.ts:1200` expects `normalizeGlob` to throw on such input.

## The runs

| Run | Instance | Shows |
|---|---|---|
| `store_claims` | 2 agents (both owners), 1 task, 5 events; claim, release, hand off, append, create, reap, hand off by member, cancel, push | types, an intact ledger, claims that match the ledger, held `claimed` cards, free `open` cards, refinement of `Ledger` and of `Board` |
| `store_board` | both stores; 1 agent, 1 task, 6 events; push, PR, merge and CI with 3 deliveries, claim, completion, release, handoff by agent and member, reap, cancellation | cards are the replay of the ledger, the rollup is a recount, shipped cards stay shipped, the two stores agree |
| `store_locks` | 3 agents, one of them revocable, 4 lists of globs that overlap as computed, cap 1, 4 events | disjoint locks, locks that follow the ledger, a bounded table, refinement of `Board` |
| `outbox_drain` | 2 drains, 2 lines of any of 5 texts, 1 spooled file, 1 crash or lost cursor | cursor, order, uniqueness, spool, and liveness |
| `bridge_reaper` | 3 agents: `fresh`, a steady bridge with a reaper; `late`, a steady one whose heartbeat is old or missing at first, without a reaper; `flaky`, whose bridge has a reaper, comes and goes and may be revoked; 1 task and the lease; stale after 1 unit, timeout 2, sweeps of at most 1, one fault | the lease is kept, working agents keep their claims, abandoned claims are freed |
| `inbox_feed` | 2 publishers, 3 facts of which two want one path with different content, 1 other event, pages of 2, two attempts to push, 2 processes started in either mode, 1 claim or connect beside them, 1 fault; 709,107 states | nothing lost below the cursor, the right file behind each line, order until the cursor is turned back, repetitions only after that, delivery in the end |
| `fleet` | 2 agents with different fences, one of them an owner, a task with a declared scope, one without, and one not yet filed, 4 requests, 2 edits, 1 fault, 2 members, 1 suggestion; 822,849 states | handoffs hold their work, commands touch their own ticket, refused scopes are given back, one ticket per suggestion |
| `store_grant`, `store_holder`, `store_appended_lock`, `outbox_replaced`, `outbox_wedged` | as small as their finding allows | violations, below |

**Why the bounds are enough.** The claim hazards need a claim, its end, a second claim and its end
on one task (4 events), and a card (1 more): 5 events reach every order of them, with the reaper
and a handoff in the place of either end. A second task would add a card that no transaction about
the first one reads; the proofs cover it. The board hazards need a card at `merged` (claim, push,
pr_opened, merged is 5 events with the creation) and one late or repeated event. The lock hazards
need one lock more than the cap, two overlapping scopes, a release and a re-acquisition: 3 agents, 4
scopes of which 3 are disjoint, 4 events. The outbox hazards need one line behind another, one
spooled file, and one drain overtaking the other; a crash is one fault.

The reaper hazards need two bridges after one lease, a third agent that claims on an old heartbeat,
one claim that ages, a beat between survey and release, and one call that fails; a second task would
be surveyed and decided by itself. The inbox hazards need a fact behind an event of the other kinds,
a page that ends before the ledger, a race for one path and one for the branch, and one restart in
the other mode. A page full of human events takes `Page` posts more and is out of this instance's
reach; with no facts and four posts TLC reaches it in 74,150 states, and `PlainEventsDelivered` then
holds with its exception `Walled` and fails without it. One claim beside the feed is enough to have
the cursor turned back; a second turns it back again, and the proofs cover any number. The fleet
hazards need two agents, a handoff taken up by the other, two pushes that race on one branch, and a
refused scope. Four requests are a claim and a handoff or ship on each side, or a claim, its end,
and a claim and a command of the other agent, of the owner or in a second terminal; edits are
counted apart, and that a claim is reaped over its holder's head counts as the fault. In this
instance no ship loses two races, so that a ship gives up after its last attempt is covered by the
proofs only. Both exceptions of `OwnTicketOnly` are needed: without either TLC finds a violation.
Each bound is a named constant.

Symmetry is used over agents, tasks and scopes in safety runs of the store only, and never where a run
has a liveness property. Deadlock is checked where the system never stops: the
outbox loop does not, the reaper's timer does not, and in the store some agent can always begin or
fail a call. It is not checked in `inbox_feed` and `fleet`: people may stop, once their bounded posts
and requests are made.

**Fairness.** The store's properties are safety and its specification has no fairness: nothing
makes an agent call. `Outbox` assumes, for each drain, weak fairness of its own steps (the
two-second loop in `cmdStart` comes round again, and a process that died is started again) and
strong fairness of a successful publish: the backend is not offline every single time a record is
tried. Writing is bounded, crashes and lost cursors are bounded by `MaxFaults`; outages and lost
answers are not.

`Reaper` assumes that time passes, that a steady bridge beats and that its ticks come round
(`setInterval`), and that a tick under way in another bridge gets on or its process dies. Nothing
makes a dead agent come back. `InboxFeed` assumes that each listener goes on delivering, heartbeats
of other agents among them, which is what wakes a bridge that dropped a frame, and that a page is
worked off; nobody owes a restart, a post or a publish. `Fleet` has safety properties only.

Each property of a passing run has a mutant in `PROJECT.json`: a definition changed as a plausible
bug would change it, under which TLC finds the property violated.

## What the runs found

- `store_grant`. The key of a scope grant names the agent, the task and the globs but no time. An
  agent that acquires, releases and acquires the same scope again is a duplicate the second time:
  the call answers ok, no lock is written, and nobody else is kept out.
- `store_holder`. A claim released from `needs_review` leaves `claimed_by` on the card, since the
  move to `open` is illegal there; the next claimer is ignored by the fold, and after a push the
  card is in progress under an agent that no longer holds it.
- `store_appended_lock`. Any agent may append `scope_locked` through `POST /events`; the fold writes
  the lock with no look at the others. Scope exclusion holds only for `acquireScope`.
- `outbox_replaced`. Once the cursor lies past the end of the file (the outbox was replaced by a
  shorter one, or its last line lacks a newline), the lines are read again at every drain under
  offsets they do not have, so under new keys, and recorded again every two seconds.
- `outbox_wedged`. `flotilla start` does not translate `claim_requested`, though the protocol given
  to agents tells them to write it; the API answers 403, the CLI takes that for a revoked token and
  exits, and every later start stops at the same line.

`OpenCardIsFree` and `LockTableBounded` are stated as the code has it: a claim may be taken before
its card exists (`claimTask` looks for no card), and the table may hold one lock more than
`LIMITS.locks` (the test is `>`).

## The proofs

Every safety property of the passing runs is a theorem. The first seven points are about `Spec` of
`CoordinationStore`, for any finite sets of agents and tasks, any scopes with any symmetric overlap,
and any choice of calls, event kinds and bounds. They rest on `StoreAssumption` and
`NoAgentAssumption`, which say that and that the null values are not agents, tasks or scopes. The
eighth is about `BothSpec` of `Conformance` under the same assumptions, the others about the modules
they name.

1. **Types** (`TypeCorrect`). One lemma per family of actions, all by the two lemmas on
   `CommitAppend`.
2. **Ledger** (`LedgerCorrect`). `LedgerIntact` is inductive together with `TypeOK`. Everything that
   touches the ledger is `CommitAppend`, so one lemma, `LedgerStep`, says what any step does to the
   ledger: nothing, or one event with seq `counter + 1` under a new key. The other proofs go through
   `LedgerStep` and its like for claims and locks rather than through twenty actions each.
3. **Refinement** (`StoreImplementsLedger`). `Log` orders the event documents by seq; by
   `LedgerIntact` it is well defined, and by `LedgerStep` each step appends to it or leaves it be.
4. **Fold** (`ShippedIsFinal`, `RollupCorrect`, `BoardReplays`). From the transition table, by cases
   on the event kind; the rollup by the effect of changing one card on the cardinality of each
   column. `BoardIsReplay` is about a recursive function over the ledger, and no prover here does
   an induction over its length. The steps of the store are that induction. `RebuildsTo` says that a
   function satisfying the recursion equations for the first `c` events exists, and that every such
   function ends in the given card; it holds of the empty ledger, and one more event moves what it
   ends in by that event (`RebuildExtends`). `Log` is the ledger in order, and a step leaves its
   beginning alone, so the statement is an invariant (`ReplayInv`), and `Replayed` is such a function.
5. **Claims** (`ClaimInvariant`, then `ClaimsFollowLedger`, `ClaimedCardsHeld`, `OpenCardsFree`). The
   properties are not inductive by themselves. A release deletes the claim whether or not its
   append is a duplicate, so one must know that its key is new: `ClaimKeysNameClaims` says that the
   key of each event that ends a claim names an **earlier** seq of the same task, and
   `ClaimMatchesLedger` that the claim in force is the latest word on it. Together they exclude
   that a key naming the claim in force is on the ledger already. This is what fails when the key
   names no time (mutants `ReleaseHeld_TimelessKey`, `ReapClaim_TimelessKey`).
6. **Locks** (`LocksFollowLedger`, `ScopesExclusive`, `NoPathHeldTwice`, `LockTableCapped`). The first
   holds whatever is appended. The others are proved under `LocksOnlyGranted`, that is
   `"scope_locked" \notin AgentKinds`: by `store_appended_lock` they fail without it.
   `NoPathHeldTwice` puts `ScopesExclusive` together with point 14. Let scopes be lists of globs, in
   `Overlap` with each other at least when `FindGlobConflicts` reports a pair. Then no path matches
   a glob of one agent's lock and a glob of another's: what the lock is for, which the test of
   patterns against patterns only stands in for.
7. **Board** (`StoreImplementsBoard`). `ClaimStep` says what any step makes of claims and cards
   together: nothing, an event that is no business of a claim, a claim taken with its event, or one
   ended with its event. Each is one operation of `Board`, or none. What could fail is half an
   operation, a claim deleted while its event is swallowed as a duplicate; `ClaimInv` excludes it,
   for the keys of those events are new. A created card is blank before (`AbsentBlank`), and a grant
   sees every other lock. It is proved under `LocksOnlyGranted`, since a `scope_locked` that is
   appended like a report takes a lock without looking.
8. **Both stores** (`PairIsStore`, `StoresAlwaysAgree`, `PairKeepsBoard`). A step of the pair is a step
   of the store, so everything above holds beside the double. That the two agree is not inductive.
   `PairInv` adds that both have seen the same keys of the calls that are events in both
   (`SameKeys`), or one would record what the other takes for a repetition; that a card exists in
   both or in neither (`SameCards`), for each store decides for itself whether a create is the first
   one; and that memory never stores a `claimed` column, which it only shows (`MemoryTyped`). Every
   call is one of five shapes on the pair (`PairStep`), and for each move in `SharedMoves` a lemma
   compares the two folds on one card. TLC has checked `PairInv` to the end on the instance of
   `store_board`, and up to depth 11 with two agents and five events.
9. **Outbox** (`OutboxInvariant`, then `CursorTrails`, `LedgerInFileOrder`, `SpoolNotLost`,
   `NoLineTwice`). The types need no hypothesis. The rest is proved under `WholeLinesFromZero`: the
   cursor starts at zero and each write is a text and its newline. `OneEventPerLine` fails without
   either: `outbox_replaced` shows it for the first, and an unfinished last line, which is counted
   one unit too long, takes the cursor past the end as well. None of the properties is inductive.
   What carries them is `HandOK`: each line before a record in a drain's hand is settled, or is in
   its hand too. From it and the order in which a drain takes its records, the line being saved has
   every line before it settled, so the cursor may move behind it (`PassedLine`), and a new event
   comes after every earlier line. `HandOK` survives other drains because lines never change once
   written and what is settled stays settled (`LinesGrow`, `LedgerGrows`), and reading on from a
   cursor finds the same lines at the same offsets as reading the whole file (`UnreadLines`).
   `DrainStep` says what any step may make of a drain. `NoLineTwice` follows by an injection from
   the events into the lines.
10. **Reaper** (`ReaperTypeCorrect`, `LeaseAlwaysKept`, `WorkersKeepTheirClaims`), about `Spec` of
   `Reaper` for any agents, bridges, tasks, time limits and bounds that satisfy `ReaperAssumption`.
   Neither property is inductive, since a bridge acts on what it read earlier. The invariant
   `ReaperInv` says what each reading is still worth. `FreshHeard`: a fresh agent was heard from
   within the last unit, always. `SteadyHeard`: so was every steady one, unless no claim on a task
   has aged yet, for time does not pass before they have beaten. `BreaksNoFresh`: a bridge about to
   break a lease does not take it from a fresh agent. `SparesProtected`: in a survey under way, the
   holder of a steady agent's claim was quiet for one unit at most, for the claim itself counts as a
   sign of life; with `Timeout > MaxSweep` the entry is not overdue before the sweep ends. With
   silence measured from the heartbeat alone it fails (mutant `Quiet_HeartbeatOnly`).
11. **Fleet** (`TypeCorrect`, `HandoffKeepsWork`, `NobodySitsOnATicket`,
   `CommandsKeepToTheirTicket`, `OneTicketEach`), about `Spec` of `Fleet` for any agents, members,
   tasks, scopes, fences and bounds that satisfy `WorkflowAssumption`. It is rely and guarantee.
   `Step` says what one agent's step may do to everybody else: it writes its own command and lock,
   takes free claims, ends its own (or, as an owner's handoff, the one on its task), and only adds
   to branches, grants and unheard claims. `Standing` says what a command knows and relies on: at
   the handoff, work it committed is on the branch it names, at that commit; the lock it saw for its
   task is its lock for that task still, unless a claim beside it moved the lock; and only a handoff
   gets to where an owner's word counts. `Accounted` says of a claim on a task with a scope that the
   scope was granted, is being asked for, or that the claim is being given back. One lemma per
   command step gives `Good`, the guarantee with the invariant of the agent itself; `OthersStand`
   gives the invariant of everybody else from the guarantee alone. The suggestion lane has an
   invariant of its own (`LaneInv`): an acceptance under way has marked its suggestion, is the only
   one at it, and has no ticket yet.
12. **Inbox** (`TypeCorrect`, `CursorAccounted`, `AnnouncedFilesPinned`, `LinesKeepOrder`,
   `RepeatsAreOld`), about `Spec` of `InboxFeed` for any publishers, drafts, listeners, commands
   beside the feed, page sizes and bounds that satisfy the two assumptions. `BlackboardInv` is about
   the branch alone: no path is written twice, since a commit in hand adds a path that its base
   lacks (`Sound`) and is pushed onto that base only; and an event's pointer names a commit that
   holds the file it announces. From it follows that a file found on disk is the file any event at
   its path means, whoever fetched it and when (`SameFile`), which is why the feed may take it
   without looking. `FeedInv` says of the process what lies behind its cursors: everything below the
   saved one, the one in memory and the position in the page is settled (`CursorsSettled`,
   `PageInHand`), a cursor that a claim has in hand included; and the lines it wrote are in order
   and at or below its cursor, unless that was turned back (`Session`). `RepeatsAreOld` rests on
   `LinesSettled`: everything before a line of the inbox is settled, so an older event that comes
   after it has its line already, or had been passed over. Others only ever let branch and ledger
   grow (`Grows`), and what is settled stays so (`LedgerMoves`).
13. **Above the board** (`FleetKeepsToTheBoard`, `ReaperKeepsToTheBoard`). Every step of `Fleet` and
   of `Reaper` is one operation of `Board`, or leaves it alone. It needs the types and, in the fleet,
   that a command past its choice of ticket has one. With the seventh point this closes the circle:
   what commands and reapers ask of the board, the store does. (They start from a board with cards
   on it, and the theorems are about steps; `Board` gets there by `Create` and `TakeClaim`.)

14. **Globs** (`SegmentsExact`, `IntersectionExact`, `IntersectionSymmetric`, `ContainmentIsMatching`,
   `ContainmentSound`, `FilesWithinScope`), for normalised globs of every length over every alphabet.
   Characters in a segment and segments in a glob pose one question: two lists with a wildcard that
   stands for any number of items. It is answered once, for lists of any items (`FitsFrom`, a list
   against a text; `Meeting`, two lists against each other). No induction over data is needed. The
   recursion is over pairs of positions, of which there are finitely many: a function that satisfies
   its equation exists as the least set of pairs closed under its steps, and a statement about all
   pairs is proved by looking at a counterexample nearest the end. `MeetingSeesTexts` says that a
   text both lists fit leads the recursion to yes, `MeetingHasText` builds such a text, letter by
   letter, from a recursion that says yes. `IntersectionExact` uses `SegmentsExact` for the match of
   two segments. `ContainmentIsMatching` reads `globContains` as a glob that matches a request of
   segments; `ContainmentSound` composes that with a path that matches the request, which is
   where a wildcard in the role's scope has to be excluded; `FilesWithinScope` needs no such
   exclusion, because a request for one file is itself a path.

**Only model-checked.** Liveness (`EverythingPublished`, `AbandonedClaimFreed`,
`PlainEventsDelivered`): it rests on fairness, and the provers know neither fairness nor `ENABLED`.
Of the globs, `normalizeGlob`: it is written with `SelectSeq`, which is opaque to the provers, so
the theorems start from normalised globs, and TLC checks `GlobsAreProper` of the instance. The runs
that end in a violation are counterexamples, and need no proof.

## Not modelled

- **Authentication, invites, members' roles, signature checks**: they decide who may call, not what
  calls do to each other.
- **Cancelling a task as one request**: its three transactions are in the store model, in every
  order and with anything in between. What that leaves (a claim or a lock on a cancelled card, when
  an agent claims between them) contradicts nothing the code says.
- **Ship-on-complete** and opening pull requests: the ship itself is in `Workflow`, its trigger from
  the outbox drain is not. The drain ships the agent's *current* task, whatever task completed.
- **Two commands of one agent at once**, but for `ClaimBeside`. `release` and `handoff` free the lock by
  a snapshot, and `releaseScope` frees whatever lock the agent holds by then. `ClaimBeside` is the claim
  that makes this the lock of another ticket, and `OwnTicketOnly` names it as its exception; other
  pairs of commands on one token are left out. The webhook's release after a merge has the same window.
- **Inbox lines without a seq of the ledger** (`claim_denied`, `handoff_refused`, and
  `handoff_received`, which a claim writes): they move no cursor and no file.
- **Listener failures and teardown in `subscribe`**, debouncing, snapshots and ETags: reads. A
  listener that fails for good leaves its collection frozen.
- **A crash inside `prepareWorktree`**, between creating the worktree and clearing it.
- **Memory store**: its lock table, suggestions, frozen snapshots and offline switch.
- **Realtime-database presence, the 90 s cache of the revocation check.**
- **`withContentionRetry`**: decides when a call fails; in the models it may fail at any time.
- **Facts, ask, MCP, chat, login, directory, browser client, site**: files, terminals, prompts and
  rendering around single store calls. They are most of the repository's lines, keep no state that
  two parties write, and are the reason why the mapped share of all lines stays small.

### Behaviour the models show that no property forbids

- A bridge that claims the lease before its first heartbeat, after a restart or a suspension, looks
  dead: its lease can be broken while it lives, and then two bridges sweep. `LeaseKept` is about
  bridges that were beating before.
- `firebase/bridge-run.ts` gives its bridge no reaper, so there only the scheduled function sweeps.
- A bridge restarts at seq 0, delivers the ledger again and may lower the saved cursor.
- The bridge's cursor passes an event whose file could not be fetched once a later event is
  delivered, although `bridge.ts:338-340` says the next frame retries it (`missed`).
- A page of human events stops `flotilla start` for good (`Walled`).
- A retry of a handoff whose answer was lost finds the ticket gone, reports success, and keeps the
  lock. An agent has one lock: a second claim replaces the first one's.
- A `release` or `handoff` beside another claim of the same agent frees the other ticket's lock.
- A handoff by an owner names a branch at best and no commit. One that comes late, or is retried after
  a lost answer, ends the claim of whoever has the ticket by then. Where the ticket is free by then, its
  retry is answered as refused, because the note on the card is from the holder and not from the owner.
- A `flotilla claim` beside `flotilla start` writes back the cursor it read before its calls to the API,
  and the running loop delivers the same lines again; `connect` does so from the first event, and a
  torn or cut-off `state.json` as well. `readState` says re-delivery is harmless since `appendEvent` is
  idempotent; `appendInbox`, which writes the lines, is not.

## Plan

Done: the store with its two abstract specifications, the outbox, the reaper and its lease,
blackboard and inbox, the agents' commands with the suggestion lane, the memory store beside the
store, and the globs of locks and roles, each with its proofs.

Left, in this order:

1. Ship-on-complete as an extension of `Outbox`, and the outbox, the store and one agent that fails
   and comes back as one system.
2. The other pairs of commands of one agent at once in `Workflow`, with the properties that survive.
3. The memory store's lock table beside `locks`.
