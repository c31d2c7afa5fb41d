----------------------------- MODULE Blackboard -----------------------------
(***************************************************************************)
(* The blackboard (cli/blackboard.ts, and the git half of publishRecord in *)
(* cli/bridge.ts): the git branch that carries published facts, one file   *)
(* per fact, the bridges that commit and push to it, and the ledger events *)
(* that announce what was pushed.                                          *)
(*                                                                         *)
(* The remote branch only ever fast-forwards, so it is the sequence of the *)
(* files its commits added, and a commit_sha is a position in it.  A       *)
(* publisher's worktree is reset to the remote tip at the start of every   *)
(* attempt; base is the tip its local commit sits on, 0 when the branch    *)
(* did not exist and the commit is an orphan.  Every git command is a      *)
(* separate step, and another bridge may push between any two of them.     *)
(***************************************************************************)
EXTENDS Integers, Sequences, FiniteSets

CONSTANTS Publishers,
          Paths, Contents,
          Drafts,        \* the facts agents name: who publishes, where it belongs, what it says
          MaxAttempts,   \* max_attempts
          MaxPosts,      \* bound: events that publish no fact
          MaxFaults      \* bound: processes that die, and calls of theirs that fail

Draft   == [by : Publishers, path : Paths, content : Contents]
NoDraft == [by |-> "nobody", path |-> "nowhere", content |-> "nothing"]

ASSUME BlackboardAssumption ==
  /\ Drafts \subseteq Draft
  /\ IsFiniteSet(Drafts)
  /\ NoDraft \notin Drafts
  /\ MaxAttempts \in Nat /\ MaxPosts \in Nat /\ MaxFaults \in Nat

VARIABLES branch,   \* the files the commits of the remote branch added, oldest first
          log,      \* the ledger events, as readEvents returns them
          work,     \* what each publisher is at
          faults

blackboardVars == <<branch, log, work, faults>>

File  == [path : Paths, content : Contents]
Layer == {"human", "plain", "fact"}
Event == {e \in [layer : Layer, draft : Drafts \cup {NoDraft}, sha : Nat] :
            e.layer = "fact" <=> e.draft # NoDraft}

Work == [pc       : {"idle", "committed", "rejected", "rebased", "again", "published"},
         draft    : Drafts \cup {NoDraft},
         base     : Nat,       \* the commit the worktree sits on
         empty    : BOOLEAN,   \* the rebase dropped the commit: its file was there already
         sha      : Nat,       \* the pointer, once published
         attempts : Nat]

Free == [pc |-> "idle", draft |-> NoDraft, base |-> 0, empty |-> FALSE, sha |-> 0, attempts |-> 0]

BlackboardInit ==
  /\ branch = <<>>
  /\ log    = <<>>
  /\ work   = [p \in Publishers |-> Free]
  /\ faults = 0

-----------------------------------------------------------------------------
\* What the tree of commit n says about a path.
ContentsAt(n, path) == {branch[i].content : i \in {j \in 1 .. n : branch[j].path = path}}

Announced(d) == \E n \in 1 .. Len(log) : log[n].draft = d

Tip == Len(branch)

Fault == faults < MaxFaults /\ faults' = faults + 1

AtWork(p, w) == work' = [work EXCEPT ![p] = w]

\* Mutant: a path that exists with other content is overwritten instead of refused (C6).
Attempt_Overwrites(p, d, n) ==
  LET there == ContentsAt(Tip, d.path)
      w     == [Free EXCEPT !.draft = d, !.base = Tip, !.attempts = n]
  IN  \/ /\ there = {d.content}
         /\ AtWork(p, [w EXCEPT !.pc = "published", !.sha = Tip])
      \/ /\ there # {d.content}
         /\ AtWork(p, [w EXCEPT !.pc = "committed"])

\* One attempt up to its push: fetch, reset to the tip, look at the path, commit.  A
\* path that holds other content is refused, one that holds this content needs no commit.
Attempt(p, d, n) ==
  LET there == ContentsAt(Tip, d.path)
      w     == [Free EXCEPT !.draft = d, !.base = Tip, !.attempts = n]
  IN  \/ /\ there = {}
         /\ AtWork(p, [w EXCEPT !.pc = "committed"])
      \/ /\ there = {d.content}
         /\ AtWork(p, [w EXCEPT !.pc = "published", !.sha = Tip])

BeginPublish(p) ==
  /\ work[p].pc = "idle"
  /\ \E d \in Drafts : d.by = p /\ ~Announced(d) /\ Attempt(p, d, 1)
  /\ UNCHANGED <<branch, log, faults>>

NextAttempt(p) ==
  /\ work[p].pc = "again"
  /\ work[p].attempts < MaxAttempts
  /\ Attempt(p, work[p].draft, work[p].attempts + 1)
  /\ UNCHANGED <<branch, log, faults>>

\* A push that fast-forwards the remote, with or without a commit to add.
PushAccepted(p) ==
  /\ work[p].base = Tip
  /\ branch' = IF work[p].empty THEN branch
               ELSE Append(branch, [path |-> work[p].draft.path, content |-> work[p].draft.content])
  /\ AtWork(p, [work[p] EXCEPT !.pc = "published", !.sha = Len(branch')])

PushRefused(p, pc) ==
  /\ work[p].base # Tip
  /\ AtWork(p, [work[p] EXCEPT !.pc = pc])
  /\ UNCHANGED branch

\* The first push of an attempt.  An orphan commit cannot be rebased: the attempt starts over.
Push(p) ==
  /\ work[p].pc = "committed"
  /\ PushAccepted(p) \/ PushRefused(p, IF work[p].base = 0 THEN "again" ELSE "rejected")
  /\ UNCHANGED <<log, faults>>

\* pull --rebase.  Other content at the same path is a conflict, and aborts the publish;
\* the same content leaves nothing of the commit.
Rebase(p) ==
  LET there == ContentsAt(Tip, work[p].draft.path) IN
  /\ work[p].pc = "rejected"
  /\ there \subseteq {work[p].draft.content}
  /\ AtWork(p, [work[p] EXCEPT !.pc = "rebased", !.base = Tip, !.empty = (there # {})])
  /\ UNCHANGED <<branch, log, faults>>

PushAgain(p) ==
  /\ work[p].pc = "rebased"
  /\ PushAccepted(p) \/ PushRefused(p, "again")
  /\ UNCHANGED <<log, faults>>

\* The file is on the remote; only now does the ledger hear of it.
Announce(p) ==
  /\ work[p].pc = "published"
  /\ log' = Append(log, [layer |-> "fact", draft |-> work[p].draft, sha |-> work[p].sha])
  /\ AtWork(p, Free)
  /\ UNCHANGED <<branch, faults>>

\* A conflict, or a lost race in the last attempt.
Hopeless(p) ==
  \/ work[p].pc = "rejected" /\ ContentsAt(Tip, work[p].draft.path) \ {work[p].draft.content} # {}
  \/ work[p].pc = "again" /\ work[p].attempts = MaxAttempts

\* The publish throws where it is, of a git error or a failed append, or the bridge dies.
\* The record stays in the outbox.
Abandon(p) ==
  /\ work[p].pc # "idle"
  /\ IF Hopeless(p) THEN UNCHANGED faults ELSE Fault
  /\ AtWork(p, Free)
  /\ UNCHANGED <<branch, log>>

\* Everything else agents, members and GitHub append.
Post(layer) ==
  /\ layer # "fact"
  /\ Cardinality({n \in 1 .. Len(log) : log[n].layer # "fact"}) < MaxPosts
  /\ log' = Append(log, [layer |-> layer, draft |-> NoDraft, sha |-> 0])
  /\ UNCHANGED <<branch, work, faults>>

BlackboardNext ==
  \/ \E p \in Publishers :
       \/ BeginPublish(p) \/ NextAttempt(p) \/ Push(p) \/ Rebase(p) \/ PushAgain(p)
       \/ Announce(p) \/ Abandon(p)
  \/ \E layer \in Layer : Post(layer)
=============================================================================
