----------------------------- MODULE InboxProofs -----------------------------
(***************************************************************************)
(* Proofs about the blackboard and the inbox feed, for any publishers,     *)
(* drafts and listeners and any bounds.                                    *)
(***************************************************************************)
EXTENDS InboxFeed, TLAPS

-----------------------------------------------------------------------------
(* The blackboard: a path is written once, and a pointer points at a       *)
(* commit whose tree holds the file it announces.                          *)

\* Commit n of branch b holds this draft, or nothing at its path.
Holds(b, n, d)  == \E i \in 1 .. n : b[i].path = d.path /\ b[i].content = d.content
Absent(b, n, d) == \A i \in 1 .. n : b[i].path # d.path

WrittenOnce(b) == \A i, j \in 1 .. Len(b) : b[i].path = b[j].path => i = j

PointsRight(b, e) == e.layer = "fact" => e.sha \in 0 .. Len(b) /\ Holds(b, e.sha, e.draft)

\* A commit in hand adds a file the tree it sits on lacks; a rebase that left nothing of
\* it found the same file there.
Sound(b, w) ==
  /\ w.pc # "idle" => w.draft \in Drafts
  /\ w.pc \in {"committed", "rebased"} => w.base \in 0 .. Len(b)
  /\ w.pc = "committed" => ~w.empty /\ Absent(b, w.base, w.draft)
  /\ w.pc = "rebased" => IF w.empty THEN Holds(b, w.base, w.draft) ELSE Absent(b, w.base, w.draft)
  /\ w.pc = "published" => w.sha \in 0 .. Len(b) /\ Holds(b, w.sha, w.draft)

BlackboardInv ==
  /\ branch \in Seq(File)
  /\ log    \in Seq(Event)
  /\ work   \in [Publishers -> Work]
  /\ faults \in 0 .. MaxFaults
  /\ WrittenOnce(branch)
  /\ \A n \in 1 .. Len(log) : PointsRight(branch, log[n])
  /\ \A p \in Publishers : Sound(branch, work[p])

LEMMA FreeTyped == Free \in Work /\ Free.pc = "idle"
BY DEF Free, Work

LEMMA BlackboardStart == BlackboardInit => BlackboardInv
<1> SUFFICES ASSUME BlackboardInit PROVE BlackboardInv
  OBVIOUS
<1>1. branch \in Seq(File) /\ log \in Seq(Event) /\ Len(branch) = 0 /\ Len(log) = 0
  BY DEF BlackboardInit
<1>2. \A p \in Publishers : work[p] = Free
  BY DEF BlackboardInit
<1>3. \A p \in Publishers : Sound(branch, work[p])
  BY <1>2 DEF Sound, Free
<1>4. work \in [Publishers -> Work] /\ faults \in 0 .. MaxFaults
  BY FreeTyped, BlackboardAssumption DEF BlackboardInit
<1> QED  BY <1>1, <1>3, <1>4 DEF BlackboardInv, WrittenOnce

\* What ContentsAt says, in these terms.
LEMMA ContentsRead ==
  ASSUME BlackboardInv, NEW n \in 0 .. Len(branch), NEW d \in Drafts
  PROVE  /\ ContentsAt(n, d.path) = {} => Absent(branch, n, d)
         /\ d.content \in ContentsAt(n, d.path) <=> Holds(branch, n, d)
         /\ Holds(branch, n, d) => ContentsAt(n, d.path) = {d.content}
<1>1. \A c : c \in ContentsAt(n, d.path) <=>
               \E i \in 1 .. n : branch[i].path = d.path /\ branch[i].content = c
  BY DEF ContentsAt
<1>2. ContentsAt(n, d.path) = {} => Absent(branch, n, d)
  BY <1>1 DEF Absent
<1>3. ASSUME Holds(branch, n, d) PROVE ContentsAt(n, d.path) = {d.content}
  <2>1. PICK i \in 1 .. n : branch[i].path = d.path /\ branch[i].content = d.content
    BY <1>3 DEF Holds
  <2>2. \A j \in 1 .. n : branch[j].path = d.path => j = i
    BY <2>1 DEF BlackboardInv, WrittenOnce
  <2> QED  BY <1>1, <2>1, <2>2
<1> QED  BY <1>1, <1>2, <1>3 DEF Holds

\* What one publisher's step leaves of everything else.
LEMMA WorkMoved ==
  ASSUME BlackboardInv, NEW p \in Publishers, NEW w \in Work,
         AtWork(p, w), Sound(branch, w), UNCHANGED <<branch, log>>, faults' \in 0 .. MaxFaults
  PROVE  BlackboardInv'
BY DEF BlackboardInv, AtWork

LEMMA FaultCounted ==
  ASSUME BlackboardInv, Fault
  PROVE  faults' \in 0 .. MaxFaults
BY BlackboardAssumption DEF BlackboardInv, Fault

LEMMA AttemptSound ==
  ASSUME BlackboardInv, NEW p \in Publishers, NEW d \in Drafts, NEW n \in Nat,
         Attempt(p, d, n), UNCHANGED <<branch, log, faults>>
  PROVE  BlackboardInv'
<1> DEFINE w == [Free EXCEPT !.draft = d, !.base = Tip, !.attempts = n]
           c == [w EXCEPT !.pc = "committed"]
           f == [w EXCEPT !.pc = "published", !.sha = Tip]
<1>1. Tip \in Nat /\ Tip = Len(branch)
  BY DEF BlackboardInv, Tip
<1>2. w \in Work /\ c \in Work /\ f \in Work
  BY <1>1 DEF Free, Work
<1>3. /\ c.pc = "committed" /\ c.draft = d /\ c.base = Tip /\ c.empty = FALSE
      /\ f.pc = "published" /\ f.draft = d /\ f.sha = Tip
  BY DEF Free
<1>4. \/ ContentsAt(Tip, d.path) = {} /\ AtWork(p, c)
      \/ ContentsAt(Tip, d.path) = {d.content} /\ AtWork(p, f)
  BY DEF Attempt
<1> HIDE DEF c, f
<1>5. CASE ContentsAt(Tip, d.path) = {} /\ AtWork(p, c)
  <2>1. Sound(branch, c)
    BY <1>1, <1>3, <1>5, ContentsRead DEF Sound
  <2> QED  BY <1>2, <1>5, <2>1, WorkMoved DEF BlackboardInv
<1>6. CASE ContentsAt(Tip, d.path) = {d.content} /\ AtWork(p, f)
  <2>1. Sound(branch, f)
    BY <1>1, <1>3, <1>6, ContentsRead DEF Sound
  <2> QED  BY <1>2, <1>6, <2>1, WorkMoved DEF BlackboardInv
<1> QED  BY <1>4, <1>5, <1>6

\* The push that wins: the branch grows by a file at a path it did not have.
LEMMA PushSound ==
  ASSUME BlackboardInv, NEW p \in Publishers, work[p].pc \in {"committed", "rebased"},
         PushAccepted(p), UNCHANGED <<log, faults>>
  PROVE  /\ BlackboardInv'
         /\ Len(branch) <= Len(branch') /\ \A i \in 1 .. Len(branch) : branch'[i] = branch[i]
<1> DEFINE k == work[p]  d == work[p].draft  n == Len(branch')
           file == [path |-> d.path, content |-> d.content]
           w == [k EXCEPT !.pc = "published", !.sha = n]
<1>1. k \in Work /\ d \in Drafts /\ Sound(branch, k) /\ k.base = Len(branch)
  BY DEF BlackboardInv, Sound, PushAccepted, Tip
<1>2. file \in File
  BY <1>1, BlackboardAssumption DEF File, Draft
<1>3. branch \in Seq(File) /\ Len(branch) \in Nat
  BY DEF BlackboardInv
<1>4. /\ branch' \in Seq(File) /\ n \in Nat /\ Len(branch) <= n
      /\ \A i \in 1 .. Len(branch) : branch'[i] = branch[i]
      /\ WrittenOnce(branch') /\ Holds(branch', n, d)
  <2>1. CASE k.empty
    <3>1. branch' = branch
      BY <2>1 DEF PushAccepted
    <3>2. Holds(branch, Len(branch), d)
      BY <1>1, <2>1 DEF Sound
    <3> QED  BY <1>3, <3>1, <3>2 DEF BlackboardInv
  <2>2. CASE ~k.empty
    <3>1. branch' = Append(branch, file)
      BY <2>2 DEF PushAccepted
    <3>2. Absent(branch, Len(branch), d)
      BY <1>1, <2>2 DEF Sound
    <3> HIDE DEF file
    <3>3. /\ branch' \in Seq(File) /\ n = Len(branch) + 1 /\ branch'[n] = file
          /\ \A i \in 1 .. Len(branch) : branch'[i] = branch[i]
      BY <1>2, <1>3, <3>1
    <3>4. file.path = d.path /\ file.content = d.content
      BY DEF file
    <3>5. WrittenOnce(branch')
      <4> SUFFICES ASSUME NEW i \in 1 .. n, NEW j \in 1 .. n, branch'[i].path = branch'[j].path
                   PROVE  i = j
        BY DEF WrittenOnce
      <4>1. i \in 1 .. Len(branch) \/ i = n
        BY <1>3, <3>3
      <4>2. j \in 1 .. Len(branch) \/ j = n
        BY <1>3, <3>3
      <4> QED  BY <3>2, <3>3, <3>4, <4>1, <4>2 DEF Absent, BlackboardInv, WrittenOnce
    <3>6. Holds(branch', n, d)
      <4>1. n \in 1 .. n
        BY <1>3, <3>3
      <4> QED  BY <3>3, <3>4, <4>1 DEF Holds
    <3> QED  BY <1>3, <3>3, <3>5, <3>6
  <2> QED  BY <2>1, <2>2
<1>5. w \in Work /\ w.pc = "published" /\ w.draft = d /\ w.sha = n
  BY <1>1, <1>4 DEF Work
<1>6. work' = [work EXCEPT ![p] = w]
  BY DEF PushAccepted, AtWork
<1> HIDE DEF w, n
<1>7. ASSUME NEW m \in 0 .. Len(branch), NEW e
      PROVE  /\ Holds(branch, m, e) => Holds(branch', m, e)
             /\ Absent(branch, m, e) => Absent(branch', m, e)
             /\ m \in 0 .. Len(branch')
  <2>1. m \in 0 .. Len(branch')
    BY <1>3, <1>4 DEF n
  <2>2. \A i \in 1 .. m : branch'[i] = branch[i]
    BY <1>3, <1>4
  <2> QED  BY <2>1, <2>2 DEF Holds, Absent
<1>8. \A i \in 1 .. Len(log) : PointsRight(branch', log[i])
  BY <1>7 DEF PointsRight, BlackboardInv
<1>9. ASSUME NEW q \in Publishers PROVE Sound(branch', work'[q])
  <2>1. CASE q = p
    <3>1. work'[q] = w
      BY <1>6, <2>1 DEF BlackboardInv
    <3> QED  BY <1>1, <1>4, <1>5, <3>1 DEF Sound, n
  <2>2. CASE q # p
    <3>1. work'[q] = work[q] /\ Sound(branch, work[q])
      BY <1>6, <2>2 DEF BlackboardInv
    <3> QED  BY <1>7, <3>1 DEF Sound
  <2> QED  BY <2>1, <2>2
<1>10. work' \in [Publishers -> Work]
  BY <1>5, <1>6 DEF BlackboardInv
<1> QED  BY <1>4, <1>8, <1>9, <1>10 DEF BlackboardInv, n

LEMMA PcSound ==
  ASSUME BlackboardInv, NEW p \in Publishers,
         NEW pc \in {"rejected", "again"}, AtWork(p, [work[p] EXCEPT !.pc = pc]),
         work[p].pc # "idle", UNCHANGED <<branch, log, faults>>
  PROVE  BlackboardInv'
<1> DEFINE w == [work[p] EXCEPT !.pc = pc]
<1>1. work[p] \in Work /\ Sound(branch, work[p])
  BY DEF BlackboardInv
<1>2. w \in Work /\ w.pc = pc /\ w.draft = work[p].draft
  BY <1>1 DEF Work
<1> HIDE DEF w
<1>3. Sound(branch, w)
  BY <1>1, <1>2 DEF Sound
<1> QED  BY <1>2, <1>3, WorkMoved DEF w, BlackboardInv

LEMMA RebaseSound ==
  ASSUME BlackboardInv, NEW p \in Publishers, Rebase(p)
  PROVE  BlackboardInv'
<1> DEFINE k == work[p]  d == work[p].draft  there == ContentsAt(Tip, work[p].draft.path)
           w == [k EXCEPT !.pc = "rebased", !.base = Tip, !.empty = (there # {})]
<1>1. k \in Work /\ d \in Drafts /\ Sound(branch, k) /\ Tip \in Nat /\ Tip = Len(branch)
  BY DEF BlackboardInv, Sound, Rebase, Tip
<1>2. there = {} \/ there = {d.content}
  BY DEF Rebase
<1>3. there # {} => Holds(branch, Tip, d)
  BY <1>1, <1>2, ContentsRead
<1>4. there = {} => Absent(branch, Tip, d)
  BY <1>1, ContentsRead
<1>5. AtWork(p, w) /\ UNCHANGED <<branch, log, faults>>
  BY DEF Rebase
<1> DEFINE empty == (there # {})
<1>6. empty \in BOOLEAN
  OBVIOUS
<1> HIDE DEF there, empty
<1>7. [k EXCEPT !.pc = "rebased", !.base = Tip, !.empty = empty] \in Work
  BY <1>1, <1>6 DEF Work
<1>8. w \in Work
  BY <1>7 DEF empty
<1>9. w.pc = "rebased" /\ w.draft = d /\ w.base = Tip /\ w.empty = (there # {})
  BY <1>1 DEF Work
<1> HIDE DEF w
<1>10. Sound(branch, w)
  <2>1. CASE there = {}
    <3>1. w.empty = FALSE
      BY <1>9, <2>1
    <3> QED  BY <1>1, <1>4, <1>9, <2>1, <3>1 DEF Sound
  <2>2. CASE there # {}
    <3>1. w.empty = TRUE
      BY <1>9, <2>2
    <3> QED  BY <1>1, <1>3, <1>9, <2>2, <3>1 DEF Sound
  <2> QED  BY <2>1, <2>2
<1> QED  BY <1>5, <1>8, <1>10, WorkMoved DEF BlackboardInv

\* The branch and the ledger only grow, and what they hold stays as it is.
Grows(old, new) ==
  Len(old) <= Len(new) /\ \A i \in 1 .. Len(old) : new[i] = old[i]

LEMMA Same ==
  ASSUME BlackboardInv
  PROVE  /\ branch' = branch => Grows(branch, branch')
         /\ log' = log => Grows(log, log')
BY DEF BlackboardInv, Grows

LEMMA Logged ==
  ASSUME BlackboardInv, NEW e \in Event, log' = Append(log, e), PointsRight(branch, e),
         branch' = branch, faults' = faults,
         work' = work \/ (\E p \in Publishers : AtWork(p, Free))
  PROVE  BlackboardInv' /\ Grows(log, log')
<1>1. log' \in Seq(Event) /\ Len(log') = Len(log) + 1 /\ log'[Len(log')] = e
      /\ Len(log) \in Nat /\ \A i \in 1 .. Len(log) : log'[i] = log[i]
  BY DEF BlackboardInv
<1>2. \A n \in 1 .. Len(log') : PointsRight(branch, log'[n])
  <2> SUFFICES ASSUME NEW n \in 1 .. Len(log') PROVE PointsRight(branch, log'[n])
    OBVIOUS
  <2>1. n \in 1 .. Len(log) \/ n = Len(log')
    BY <1>1
  <2> QED  BY <1>1, <2>1 DEF BlackboardInv
<1>3. work' \in [Publishers -> Work] /\ \A p \in Publishers : Sound(branch, work'[p])
  <2>1. Sound(branch, Free)
    BY DEF Sound, Free
  <2> QED  BY <2>1, FreeTyped DEF BlackboardInv, AtWork
<1> QED  BY <1>1, <1>2, <1>3 DEF BlackboardInv, Grows

LEMMA BlackboardStep ==
  ASSUME BlackboardInv, BlackboardNext
  PROVE  BlackboardInv' /\ Grows(branch, branch') /\ Grows(log, log')
<1>1. ASSUME NEW p \in Publishers, BeginPublish(p)
      PROVE  BlackboardInv' /\ UNCHANGED <<branch, log>>
  BY <1>1, AttemptSound DEF BeginPublish
<1>2. ASSUME NEW p \in Publishers, NextAttempt(p)
      PROVE  BlackboardInv' /\ UNCHANGED <<branch, log>>
  <2>1. work[p] \in Work /\ work[p].draft \in Drafts
    BY <1>2 DEF BlackboardInv, Sound, NextAttempt
  <2>2. work[p].attempts + 1 \in Nat
    BY <2>1 DEF Work
  <2> QED  BY <1>2, <2>1, <2>2, AttemptSound DEF NextAttempt
<1>3. ASSUME NEW p \in Publishers, Push(p) \/ PushAgain(p)
      PROVE  BlackboardInv' /\ Grows(branch, branch') /\ log' = log
  <2>1. CASE PushAccepted(p)
    BY <1>3, <2>1, PushSound DEF Push, PushAgain, Grows
  <2>2. CASE PushRefused(p, "again") \/ PushRefused(p, "rejected")
    <3>1. PICK pc \in {"again", "rejected"} : PushRefused(p, pc)
      BY <2>2
    <3>2. work[p].pc # "idle" /\ UNCHANGED <<branch, log, faults>>
      BY <1>3, <3>1 DEF Push, PushAgain, PushRefused
    <3> QED  BY <3>1, <3>2, PcSound, Same DEF PushRefused
  <2> QED  BY <1>3, <2>1, <2>2 DEF Push, PushAgain
<1>4. ASSUME NEW p \in Publishers, Rebase(p)
      PROVE  BlackboardInv' /\ UNCHANGED <<branch, log>>
  BY <1>4, RebaseSound DEF Rebase
<1>5. ASSUME NEW p \in Publishers, Announce(p)
      PROVE  BlackboardInv' /\ Grows(log, log') /\ branch' = branch
  <2> DEFINE e == [layer |-> "fact", draft |-> work[p].draft, sha |-> work[p].sha]
  <2>1. work[p] \in Work /\ work[p].draft \in Drafts /\ Sound(branch, work[p]) /\ work[p].pc = "published"
    BY <1>5 DEF BlackboardInv, Sound, Announce
  <2>2. e \in Event
    BY <2>1, BlackboardAssumption DEF Event, Layer, Work
  <2>3. PointsRight(branch, e)
    BY <2>1 DEF PointsRight, Sound
  <2>4. log' = Append(log, e) /\ AtWork(p, Free) /\ UNCHANGED <<branch, faults>>
    BY <1>5 DEF Announce
  <2> HIDE DEF e
  <2> QED  BY <2>2, <2>3, <2>4, Logged
<1>6. ASSUME NEW p \in Publishers, Abandon(p)
      PROVE  BlackboardInv' /\ UNCHANGED <<branch, log>>
  <2>1. faults' \in 0 .. MaxFaults
    BY <1>6, FaultCounted DEF Abandon, BlackboardInv
  <2>2. Sound(branch, Free)
    BY DEF Sound, Free
  <2> QED  BY <1>6, <2>1, <2>2, FreeTyped, WorkMoved DEF Abandon
<1>7. ASSUME NEW layer \in Layer, Post(layer)
      PROVE  BlackboardInv' /\ Grows(log, log') /\ branch' = branch
  <2> DEFINE e == [layer |-> layer, draft |-> NoDraft, sha |-> 0]
  <2>1. e \in Event /\ e.layer # "fact"
    BY <1>7 DEF Event, Post, Layer
  <2>2. log' = Append(log, e) /\ UNCHANGED <<branch, work, faults>>
    BY <1>7 DEF Post
  <2> HIDE DEF e
  <2> QED  BY <2>1, <2>2, Logged DEF PointsRight
<1> QED  BY <1>1, <1>2, <1>3, <1>4, <1>5, <1>6, <1>7, Same DEF BlackboardNext

-----------------------------------------------------------------------------
(* The feed.  The bridge keeps its cursor in memory; the start loop has    *)
(* one only while it works off a page, and reads on from the saved one.    *)

\* Up to where this process has written lines.
Mark == IF feed.mode = "start" /\ feed.pc = "idle" THEN saved ELSE feed.seen

Settled(n) == n \in Lines \/ log[n].layer = "human" \/ n \in missed

FileThere(n) == log[n].layer = "fact" => files[log[n].draft.path] = log[n].draft.content

FeedTyped ==
  /\ cache  \in Cache
  /\ feed   \in Feed
  /\ inbox  \in Seq(Nat \ {0})
  /\ saved  \in Nat
  /\ files  \in [Paths -> Contents \cup {Missing}]
  /\ held   \in [Rewriters -> Held]
  /\ missed \subseteq Nat \ {0}
  /\ rewound \in BOOLEAN
  /\ starts \in 0 .. MaxStarts

\* No cursor is ahead of the ledger, and what lies behind one is settled: the saved one,
\* that of the process, and those that will be written back.
CursorsSettled ==
  /\ saved \in 0 .. Len(log) /\ feed.seen \in 0 .. Len(log)
  /\ \A n \in 1 .. saved : Settled(n)
  /\ \A n \in 1 .. feed.seen : Settled(n)
  /\ \A c \in Rewriters : held[c].seq \in 0 .. Len(log) /\ \A n \in 1 .. held[c].seq : Settled(n)

PageInHand ==
  feed.pc # "idle" =>
    /\ feed.mode # "off"
    /\ feed.upto <= Len(log)
    /\ feed.next \in feed.seen + 1 .. Len(log) + 1
    /\ \A n \in 1 .. feed.next - 1 : Settled(n)
    /\ feed.pc = "fetched" =>
         feed.next <= feed.upto /\ log[feed.next].layer = "fact" /\ FileThere(feed.next)
    /\ feed.mode = "start" => feed.base <= feed.seen /\ (rewound \/ feed.base <= saved)

FilesPublished ==
  /\ \A path \in Paths : files[path] # Missing =>
       \E i \in 1 .. Len(branch) : branch[i].path = path /\ branch[i].content = files[path]
  /\ \A n \in Lines : n <= Len(log) /\ FileThere(n)

Session ==
  feed.mode # "off" /\ ~rewound =>
    \A i \in feed.from + 1 .. Len(inbox) :
      inbox[i] <= Mark /\ \A j \in feed.from + 1 .. Len(inbox) : i < j => inbox[i] < inbox[j]

\* No line is ahead of an event that is not settled.
LinesSettled ==
  /\ \A m \in Lines : \A n \in 1 .. m : Settled(n)
  /\ OutOfTurnIsOld

FeedInv ==
  /\ FeedTyped /\ CursorsSettled /\ PageInHand
  /\ FilesPublished /\ Session /\ LinesSettled

LEMMA OffTyped ==
  /\ Off \in Feed /\ Cold \in Cache
  /\ Off.pc = "idle" /\ Off.mode = "off" /\ Off.seen = 0
BY DEF Off, Cold, Feed, Cache

LEMMA HeldTyped ==
  NotYet \in Held /\ NotYet.seq = 0
BY DEF NotYet, Held

LEMMA FeedStart == Init => FeedInv
<1> SUFFICES ASSUME Init PROVE FeedInv
  OBVIOUS
<1> USE DEF Init, BlackboardInit
<1>1. FeedTyped
  <2>1. inbox \in Seq(Nat \ {0})
    OBVIOUS
  <2>2. held \in [Rewriters -> Held] /\ rewound \in BOOLEAN
    BY HeldTyped
  <2> QED  BY <2>1, <2>2, OffTyped, InboxAssumption DEF FeedTyped
<1>2. CursorsSettled /\ PageInHand
  BY OffTyped, HeldTyped DEF CursorsSettled, PageInHand
<1>3. FilesPublished
  BY DEF FilesPublished, Lines
<1>4. Session
  BY OffTyped DEF Session
<1>5. LinesSettled
  BY DEF LinesSettled, Lines, OutOfTurnIsOld
<1> QED  BY <1>1, <1>2, <1>3, <1>4, <1>5 DEF FeedInv

LEMMA LinesTyped ==
  ASSUME FeedInv
  PROVE  Lines \subseteq Nat \ {0} /\ Len(inbox) \in Nat
BY DEF FeedInv, FeedTyped, Lines

\* A published file is the one its event names, whoever fetched it.
LEMMA OneContent ==
  ASSUME BlackboardInv, NEW n \in 1 .. Len(log), log[n].layer = "fact"
  PROVE  /\ log[n].draft \in Drafts /\ log[n].draft.path \in Paths
         /\ Pinned(log[n]) = log[n].draft.content /\ log[n].draft.content \in Contents
         /\ \E i \in 1 .. Len(branch) : /\ branch[i].path = log[n].draft.path
                                        /\ branch[i].content = log[n].draft.content
<1> DEFINE e == log[n]
<1>1. e \in Event /\ PointsRight(branch, e)
  BY DEF BlackboardInv
<1>2. e.draft \in Drafts
  BY <1>1 DEF Event
<1>3. e.draft.path \in Paths /\ e.draft.content \in Contents
  BY <1>2, BlackboardAssumption DEF Draft
<1>4. e.sha \in 0 .. Len(branch) /\ Holds(branch, e.sha, e.draft)
  BY <1>1 DEF PointsRight
<1> HIDE DEF e
<1>5. ContentsAt(e.sha, e.draft.path) = {e.draft.content}
  BY <1>2, <1>4, ContentsRead
<1>6. Pinned(e) = e.draft.content
  BY <1>5 DEF Pinned
<1>7. \E i \in 1 .. Len(branch) : branch[i].path = e.draft.path /\ branch[i].content = e.draft.content
  <2>1. PICK i \in 1 .. e.sha : branch[i].path = e.draft.path /\ branch[i].content = e.draft.content
    BY <1>4 DEF Holds
  <2>2. i \in 1 .. Len(branch)
    BY <1>4 DEF BlackboardInv
  <2> QED  BY <2>1, <2>2
<1> QED  BY <1>2, <1>3, <1>6, <1>7 DEF e

LEMMA SameFile ==
  ASSUME BlackboardInv, FilesPublished, NEW n \in 1 .. Len(log), log[n].layer = "fact",
         files[log[n].draft.path] # Missing
  PROVE  files[log[n].draft.path] = log[n].draft.content
<1>1. PICK i \in 1 .. Len(branch) : branch[i].path = log[n].draft.path
                                    /\ branch[i].content = log[n].draft.content
  BY OneContent
<1>2. PICK j \in 1 .. Len(branch) : branch[j].path = log[n].draft.path
                                    /\ branch[j].content = files[log[n].draft.path]
  BY OneContent DEF FilesPublished
<1>3. i = j
  BY <1>1, <1>2 DEF BlackboardInv, WrittenOnce
<1> QED  BY <1>1, <1>2, <1>3

-----------------------------------------------------------------------------
(* The steps of the feed.                                                  *)

\* Others publish, announce and post; the feed finds what it knew.
LEMMA LedgerMoves ==
  ASSUME BlackboardInv, FeedInv, UNCHANGED feedVars,
         branch' \in Seq(File), log' \in Seq(Event), Grows(branch, branch'), Grows(log, log')
  PROVE  FeedInv'
<1>1. Len(log) \in Nat /\ Len(log') \in Nat /\ Len(branch) \in Nat /\ Len(branch') \in Nat
  BY DEF BlackboardInv
<1>2. \A n \in 1 .. Len(log) : log'[n] = log[n] /\ n \in 1 .. Len(log')
  BY <1>1 DEF Grows
<1>3. UNCHANGED <<cache, feed, inbox, saved, files, held, missed, rewound, starts>>
  BY DEF feedVars, diskVars
<1>4. \A n \in 1 .. Len(log) : (Settled(n)' <=> Settled(n)) /\ (FileThere(n)' <=> FileThere(n))
  BY <1>2, <1>3 DEF Settled, FileThere, Lines
<1>5. FeedTyped'
  BY <1>3 DEF FeedInv, FeedTyped
<1>6. CursorsSettled'
  <2>1. saved \in 0 .. Len(log) /\ feed.seen \in 0 .. Len(log)
    BY DEF FeedInv, CursorsSettled
  <2>2. saved \in 0 .. Len(log') /\ feed.seen \in 0 .. Len(log')
    BY <1>1, <2>1 DEF Grows
  <2>3. \A n \in 1 .. saved : n \in 1 .. Len(log)
    BY <1>1, <2>1
  <2>4. \A n \in 1 .. feed.seen : n \in 1 .. Len(log)
    BY <1>1, <2>1
  <2>5. ASSUME NEW c \in Rewriters
        PROVE  held[c].seq \in 0 .. Len(log') /\ \A n \in 1 .. held[c].seq : Settled(n)'
    <3>1. held[c].seq \in 0 .. Len(log) /\ \A n \in 1 .. held[c].seq : Settled(n)
      BY DEF FeedInv, CursorsSettled
    <3>2. held[c].seq \in 0 .. Len(log') /\ \A n \in 1 .. held[c].seq : n \in 1 .. Len(log)
      BY <1>1, <3>1 DEF Grows
    <3> QED  BY <1>4, <3>1, <3>2
  <2> QED  BY <1>3, <1>4, <2>2, <2>3, <2>4, <2>5 DEF FeedInv, CursorsSettled
<1>7. PageInHand'
  <2> SUFFICES ASSUME feed.pc # "idle" PROVE PageInHand'
    BY <1>3 DEF PageInHand
  <2>1. /\ feed.mode # "off" /\ feed.upto <= Len(log)
        /\ feed.next \in feed.seen + 1 .. Len(log) + 1
        /\ \A n \in 1 .. feed.next - 1 : Settled(n)
        /\ feed.pc = "fetched" =>
             feed.next <= feed.upto /\ log[feed.next].layer = "fact" /\ FileThere(feed.next)
        /\ feed.mode = "start" => feed.base <= feed.seen /\ (rewound \/ feed.base <= saved)
    BY DEF FeedInv, PageInHand
  <2>2. feed.upto \in Nat /\ feed.seen \in Nat /\ feed.next \in Nat
    BY DEF FeedInv, FeedTyped, Feed
  <2>3. feed.upto <= Len(log') /\ feed.next \in feed.seen + 1 .. Len(log') + 1
    BY <1>1, <2>1, <2>2 DEF Grows
  <2>4. \A n \in 1 .. feed.next - 1 : n \in 1 .. Len(log)
    BY <1>1, <2>1, <2>2
  <2>5. feed.pc = "fetched" => feed.next \in 1 .. Len(log)
    BY <1>1, <2>1, <2>2
  <2> QED  BY <1>2, <1>3, <1>4, <2>1, <2>3, <2>4, <2>5 DEF PageInHand
<1>8. FilesPublished'
  <2>1. \A n \in Lines : n \in 1 .. Len(log)
    BY <1>1, LinesTyped DEF FeedInv, FilesPublished
  <2>2. Lines' = Lines
    BY <1>3 DEF Lines
  <2>3. \A n \in Lines : n <= Len(log') /\ FileThere(n)'
    BY <1>1, <1>4, <2>1 DEF FeedInv, FilesPublished, Grows
  <2>4. ASSUME NEW path \in Paths, files[path] # Missing
        PROVE  \E i \in 1 .. Len(branch') : branch'[i].path = path /\ branch'[i].content = files[path]
    <3>1. PICK i \in 1 .. Len(branch) : branch[i].path = path /\ branch[i].content = files[path]
      BY <2>4 DEF FeedInv, FilesPublished
    <3>2. i \in 1 .. Len(branch') /\ branch'[i] = branch[i]
      BY <1>1 DEF Grows
    <3> QED  BY <3>1, <3>2
  <2> QED  BY <1>3, <2>2, <2>3, <2>4 DEF FilesPublished
<1>9. Session'
  BY <1>3 DEF FeedInv, Session, Mark
<1>10. LinesSettled'
  <2>1. Lines' = Lines /\ (OutOfTurnIsOld' <=> OutOfTurnIsOld)
    BY <1>3 DEF Lines, OutOfTurnIsOld
  <2>2. ASSUME NEW m \in Lines, NEW n \in 1 .. m PROVE Settled(n)'
    <3>1. Settled(n)
      BY DEF FeedInv, LinesSettled
    <3>2. m \in Nat /\ m <= Len(log)
      BY LinesTyped DEF FeedInv, FilesPublished
    <3>3. n \in 1 .. Len(log)
      BY <1>1, <3>2
    <3> QED  BY <1>4, <3>1, <3>3
  <2> QED  BY <2>1, <2>2 DEF FeedInv, LinesSettled
<1> QED  BY <1>5, <1>6, <1>7, <1>8, <1>9, <1>10 DEF FeedInv

\* What the feed knows, spelled out for the steps below.
LEMMA FeedKnown ==
  ASSUME BlackboardInv, FeedInv
  PROVE  /\ Len(log) \in Nat /\ Len(inbox) \in Nat /\ saved \in 0 .. Len(log)
         /\ feed \in Feed /\ feed.seen \in 0 .. Len(log) /\ feed.next \in Nat /\ feed.upto \in Nat
         /\ feed.from \in Nat /\ feed.mode \in {"off", "bridge", "start"} /\ "off" \notin Modes
         /\ cache \in Cache /\ Mark \in 0 .. Len(log)
         /\ \A n \in 1 .. Mark : Settled(n)
<1>1. feed \in Feed /\ cache \in Cache /\ saved \in 0 .. Len(log) /\ feed.seen \in 0 .. Len(log)
  BY DEF FeedInv, FeedTyped, CursorsSettled
<1>2. feed.mode \in Modes \cup {"off"} /\ feed.next \in Nat /\ feed.upto \in Nat /\ feed.from \in Nat
  BY <1>1 DEF Feed
<1>3. Len(log) \in Nat /\ Len(inbox) \in Nat
  BY LinesTyped DEF BlackboardInv
<1>4. Mark \in 0 .. Len(log) /\ \A n \in 1 .. Mark : Settled(n)
  BY <1>1 DEF Mark, FeedInv, CursorsSettled
<1> QED  BY <1>1, <1>2, <1>3, <1>4, InboxAssumption

\* A step that moves the feed over the inbox and the ledger as they are; state.json may
\* get lost in it.
LEMMA FeedMoved ==
  ASSUME BlackboardInv, FeedInv, UNCHANGED <<branch, log, inbox, files, held>>,
         saved' \in {saved, 0}, rewound' \in BOOLEAN,
         cache' \in Cache, feed' \in Feed, starts' \in 0 .. MaxStarts,
         missed \subseteq missed', missed' \subseteq Nat \ {0},
         feed'.seen \in 0 .. Len(log), \A n \in 1 .. feed'.seen : Settled(n)',
         PageInHand', Session'
  PROVE  FeedInv'
<1>1. saved' \in 0 .. Len(log) /\ (saved' = saved \/ 1 .. saved' = {})
  BY DEF FeedInv, CursorsSettled, BlackboardInv
<1>2. \A n : Settled(n) => Settled(n)'
  BY DEF Settled, Lines
<1>3. FeedTyped'
  BY <1>1 DEF FeedInv, FeedTyped
<1>4. CursorsSettled'
  BY <1>1, <1>2 DEF FeedInv, CursorsSettled
<1>5. FilesPublished'
  BY DEF FeedInv, FilesPublished, Lines, FileThere
<1>6. LinesSettled'
  <2>1. Lines' = Lines
    BY DEF Lines
  <2>2. OutOfTurnIsOld'
    BY DEF FeedInv, LinesSettled, OutOfTurnIsOld
  <2> QED  BY <1>2, <2>1, <2>2 DEF FeedInv, LinesSettled
<1> QED  BY <1>3, <1>4, <1>5, <1>6 DEF FeedInv

\* A page read from the cursor, or from zero by a start loop that could not read it.
LEMMA PageRead ==
  ASSUME BlackboardInv, FeedInv, NEW m \in Nat,
         UNCHANGED <<branch, log, diskVars, held, missed, starts>>, rewound' \in BOOLEAN,
         cache' \in Cache, feed.mode # "off", feed.pc = "idle", ReadPage(m),
         m \in 0 .. Len(log), \A n \in 1 .. m : Settled(n),
         rewound' = TRUE \/ (rewound' = rewound /\ m = Mark)
  PROVE  FeedInv'
<1> DEFINE upto == Lesser(m + Page, Len(log))
           base == IF feed.mode = "start" THEN m ELSE 0
           f == [feed EXCEPT !.pc = "paging", !.seen = m, !.next = m + 1, !.upto = upto, !.base = base]
<1>1. feed \in Feed /\ Len(log) \in Nat
  BY FeedKnown
<1>2. upto \in Nat /\ upto <= Len(log) /\ base \in Nat /\ (feed.mode = "start" => base = m)
  BY <1>1, InboxAssumption DEF Lesser
<1>3. feed' = f
  BY DEF ReadPage
<1> HIDE DEF upto, base
<1>4. f \in Feed /\ f.mode = feed.mode /\ f.from = feed.from
      /\ f.pc = "paging" /\ f.seen = m /\ f.next = m + 1 /\ f.upto = upto /\ f.base = base
  <2>1. m + 1 \in Nat
    OBVIOUS
  <2>2. [feed EXCEPT !.pc = "paging", !.seen = m] \in Feed
    BY <1>1, <2>1 DEF Feed
  <2>3. [[feed EXCEPT !.pc = "paging", !.seen = m] EXCEPT !.next = m + 1, !.upto = upto, !.base = base] \in Feed
    BY <1>2, <2>1, <2>2 DEF Feed
  <2>4. f = [[feed EXCEPT !.pc = "paging", !.seen = m] EXCEPT !.next = m + 1, !.upto = upto, !.base = base]
    BY <1>1 DEF Feed
  <2> QED  BY <1>1, <2>3, <2>4 DEF Feed
<1> HIDE DEF f
<1>5. UNCHANGED <<inbox, saved, files, log, missed>>
  BY DEF diskVars
<1>6. \A n : Settled(n)' <=> Settled(n)
  BY <1>5 DEF Settled, Lines
<1>7. PageInHand'
  <2>1. m + 1 \in m + 1 .. Len(log) + 1 /\ (m + 1) - 1 = m
    BY <1>1
  <2>2. feed.mode = "start" => f.base <= f.seen /\ (rewound' \/ f.base <= saved)
    <3>1. feed.mode = "start" => Mark = saved
      BY DEF Mark
    <3> QED  BY <1>2, <1>4, <3>1
  <2> QED  BY <1>1, <1>2, <1>3, <1>4, <1>5, <1>6, <2>1, <2>2 DEF PageInHand
<1>8. Session'
  <2>1. Mark' = m
    BY <1>3, <1>4 DEF Mark
  <2> QED  BY <1>3, <1>4, <1>5, <2>1 DEF FeedInv, Session
<1>9. starts \in 0 .. MaxStarts /\ missed \subseteq Nat \ {0}
  BY DEF FeedInv, FeedTyped
<1> QED  BY <1>3, <1>4, <1>5, <1>6, <1>7, <1>8, <1>9, FeedMoved

LEMMA ListenKept ==
  ASSUME BlackboardInv, FeedInv, NEW l \in Listeners, Listen(l)
  PROVE  FeedInv'
<1> DEFINE c == [ready |-> cache.ready \cup {l}, seq |-> IF l = "counter" THEN Len(log) ELSE cache.seq]
<1>1. c \in Cache
  BY FeedKnown DEF Cache
<1>2. /\ feed.mode = "bridge" /\ cache' = c /\ Pump(c)
      /\ UNCHANGED <<branch, log, diskVars, held, missed, rewound, starts>>
  BY DEF Listen, blackboardVars
<1>3. rewound' \in BOOLEAN
  BY <1>2 DEF FeedInv, FeedTyped
<1> HIDE DEF c
<1>4. CASE feed.pc = "idle" /\ ReadPage(feed.seen)
  <2>1. Mark = feed.seen
    BY <1>2 DEF Mark
  <2>2. feed.seen \in Nat
    BY FeedKnown
  <2> QED  BY <1>1, <1>2, <1>3, <1>4, <2>1, <2>2, FeedKnown, PageRead
<1>5. CASE UNCHANGED feed
  <2>1. UNCHANGED <<inbox, saved, files, log, branch, rewound>>
    BY <1>2 DEF diskVars
  <2>2. PageInHand' /\ Session' /\ \A n \in 1 .. feed.seen : Settled(n)'
    BY <1>2, <1>5, <2>1 DEF FeedInv, PageInHand, Session, Settled, Lines, FileThere, Mark, CursorsSettled
  <2> QED  BY <1>1, <1>2, <1>3, <1>5, <2>1, <2>2, FeedMoved DEF FeedInv, FeedTyped, CursorsSettled
<1> QED  BY <1>2, <1>4, <1>5 DEF Pump

LEMMA PollKept ==
  ASSUME BlackboardInv, FeedInv, Poll
  PROVE  FeedInv'
<1>1. Mark = saved /\ saved \in Nat
  BY FeedKnown DEF Mark, Poll
<1>2. rewound' = rewound /\ rewound \in BOOLEAN
  BY DEF Poll, FeedInv, FeedTyped
<1> QED  BY <1>1, <1>2, FeedKnown, PageRead DEF Poll, blackboardVars

LEMMA TornPollKept ==
  ASSUME BlackboardInv, FeedInv, TornPoll
  PROVE  FeedInv'
<1>1. 0 \in Nat /\ 0 \in 0 .. Len(log) /\ \A n \in 1 .. 0 : Settled(n)
  BY FeedKnown
<1>2. rewound' = TRUE /\ rewound' \in BOOLEAN /\ cache' \in Cache /\ feed.mode # "off"
  BY FeedKnown DEF TornPoll
<1> QED  BY <1>1, <1>2, PageRead DEF TornPoll

\* The process is gone, or never was: what it knew of the ledger does not matter any more.
LEMMA StoppedKept ==
  ASSUME BlackboardInv, FeedInv, UNCHANGED <<branch, log, inbox, files, held, missed, starts>>,
         Gone, saved' \in {saved, 0}
  PROVE  FeedInv'
<1>1. /\ feed' = Off /\ cache' = Cold /\ rewound' = FALSE
      /\ starts' \in 0 .. MaxStarts /\ missed \subseteq Nat \ {0}
  BY DEF Gone, FeedInv, FeedTyped
<1>2. PageInHand' /\ Session'
  BY <1>1, OffTyped DEF PageInHand, Session
<1>3. feed'.seen = 0 /\ 0 \in 0 .. Len(log)
  BY <1>1, OffTyped, FeedKnown
<1>4. \A n \in 1 .. feed'.seen : Settled(n)'
  BY <1>3
<1> QED  BY <1>1, <1>2, <1>3, <1>4, OffTyped, FeedMoved

LEMMA StartKept ==
  ASSUME BlackboardInv, FeedInv, NEW mode \in Modes, Start(mode)
  PROVE  FeedInv'
<1> DEFINE f == [Off EXCEPT !.mode = mode, !.from = Len(inbox)]
<1>1. Len(inbox) \in Nat /\ cache \in Cache /\ feed' = f /\ cache' = cache
  BY FeedKnown DEF Start
<1>2. UNCHANGED <<branch, log, inbox, saved, files, held, missed, rewound>> /\ rewound \in BOOLEAN
  BY DEF Start, blackboardVars, diskVars, FeedInv, FeedTyped
<1>3. f \in Feed /\ f.pc = "idle" /\ f.seen = 0 /\ f.from = Len(inbox)
  BY <1>1, OffTyped DEF Off, Feed
<1> HIDE DEF f
<1>4. PageInHand'
  BY <1>1, <1>3 DEF PageInHand
<1>5. Session'
  <2>1. inbox' = inbox /\ \A i \in Len(inbox) + 1 .. Len(inbox) : FALSE
    BY <1>1, <1>2
  <2> QED  BY <1>1, <1>3, <2>1 DEF Session
<1>6. starts' \in 0 .. MaxStarts /\ missed \subseteq Nat \ {0}
  BY InboxAssumption DEF FeedInv, FeedTyped, Start
<1>7. \A n \in 1 .. feed'.seen : Settled(n)'
  BY <1>1, <1>3
<1>8. 0 \in 0 .. Len(log)
  BY FeedKnown
<1> QED  BY <1>1, <1>2, <1>3, <1>4, <1>5, <1>6, <1>7, <1>8, FeedMoved

\* Between pages again.
LEMMA IdleFields ==
  ASSUME BlackboardInv, FeedInv
  PROVE  /\ Idle \in Feed /\ Idle.mode = feed.mode /\ Idle.from = feed.from /\ Idle.pc = "idle"
         /\ Idle.seen = IF feed.mode = "bridge" THEN feed.seen ELSE 0
<1> DEFINE s == IF feed.mode = "bridge" THEN feed.seen ELSE 0
<1>1. s \in Nat /\ feed \in Feed
  BY FeedKnown
<1>2. Idle = [feed EXCEPT !.pc = "idle", !.next = 1, !.upto = 0, !.base = 0, !.seen = s]
  BY DEF Idle
<1> HIDE DEF s
<1>3. Idle \in Feed /\ Idle.mode = feed.mode /\ Idle.from = feed.from /\ Idle.pc = "idle" /\ Idle.seen = s
  BY <1>1, <1>2 DEF Feed
<1> QED  BY <1>3 DEF s

LEMMA WriteFailsKept ==
  ASSUME BlackboardInv, FeedInv, WriteFails
  PROVE  FeedInv'
<1>1. UNCHANGED <<branch, log, inbox, files, held, missed, starts>> /\ saved' \in {saved, 0}
  BY DEF WriteFails, MaybeCutOff
<1>2. CASE Gone
  BY <1>1, <1>2, StoppedKept
<1>3. CASE feed.mode = "bridge" /\ feed' = Idle /\ UNCHANGED <<cache, rewound>>
  <2>1. /\ feed' \in Feed /\ feed'.mode = "bridge" /\ feed'.from = feed.from /\ feed'.pc = "idle"
        /\ feed'.seen = feed.seen
    BY <1>3, IdleFields
  <2>2. UNCHANGED <<inbox, log>> /\ rewound \in BOOLEAN
    BY <1>1 DEF FeedInv, FeedTyped
  <2>3. PageInHand' /\ Mark' = Mark
    BY <1>3, <2>1 DEF PageInHand, Mark
  <2>4. Session' /\ \A n \in 1 .. feed'.seen : Settled(n)'
    BY <1>1, <1>3, <2>1, <2>2, <2>3 DEF FeedInv, Session, CursorsSettled, Settled, Lines
  <2>5. cache' \in Cache /\ starts' \in 0 .. MaxStarts /\ missed \subseteq Nat \ {0}
        /\ feed.seen \in 0 .. Len(log)
    BY <1>1, <1>3, FeedKnown DEF FeedInv, FeedTyped
  <2> QED  BY <1>1, <1>3, <2>1, <2>2, <2>3, <2>4, <2>5, FeedMoved
<1> QED  BY <1>2, <1>3 DEF WriteFails

LEMMA DieKept ==
  ASSUME BlackboardInv, FeedInv, Die
  PROVE  FeedInv'
BY StoppedKept DEF Die, MaybeCutOff

LEMMA SameLines ==
  ASSUME LinesSettled, inbox' = inbox, missed' = missed, \A n : Settled(n) => Settled(n)'
  PROVE  LinesSettled'
<1>1. Lines' = Lines
  BY DEF Lines
<1> QED  BY <1>1 DEF LinesSettled, OutOfTurnIsOld

\* Another command writes state.json, with a cursor whose events are all settled.
LEMMA RewriteKept ==
  ASSUME BlackboardInv, FeedInv, NEW n \in 0 .. Len(log), \A k \in 1 .. n : Settled(k), Rewrite(n),
         NEW c \in Rewriters, Holding(c, "done", 0),
         UNCHANGED <<branch, log, cache, feed, inbox, files, missed, starts>>
  PROVE  FeedInv'
<1>1. /\ saved' = n /\ saved \in Nat /\ n \in Nat /\ rewound' \in BOOLEAN
      /\ ~rewound' => ~rewound /\ (feed.mode = "start" => saved <= n)
  <2> DEFINE lower == n < saved
  <2>1. saved' = n /\ saved \in Nat /\ n \in Nat /\ (~lower => saved <= n)
    BY FeedKnown DEF Rewrite
  <2>2. rewound \in BOOLEAN /\ rewound' = (rewound \/ (feed.mode = "start" /\ lower))
    BY DEF Rewrite, FeedInv, FeedTyped
  <2> HIDE DEF lower
  <2>3. rewound' \in BOOLEAN /\ (~rewound' => ~rewound /\ (feed.mode = "start" => ~lower))
    BY <2>2
  <2> QED  BY <2>1, <2>3
<1>2. \A k : Settled(k)' <=> Settled(k)
  BY DEF Settled, Lines
<1>3. /\ held' \in [Rewriters -> Held]
      /\ \A d \in Rewriters : held'[d].seq = 0 \/ held'[d] = held[d]
  BY DEF Holding, Held, FeedInv, FeedTyped
<1>4. FeedTyped'
  BY <1>1, <1>3 DEF FeedInv, FeedTyped
<1>5. CursorsSettled'
  <2>1. ASSUME NEW d \in Rewriters
        PROVE  held'[d].seq \in 0 .. Len(log) /\ \A k \in 1 .. held'[d].seq : Settled(k)
    <3>1. 0 \in 0 .. Len(log) /\ 1 .. 0 = {}
      BY FeedKnown
    <3> QED  BY <1>3, <3>1 DEF FeedInv, CursorsSettled
  <2> QED  BY <1>1, <1>2, <2>1 DEF FeedInv, CursorsSettled
<1>6. PageInHand'
  <2> SUFFICES ASSUME feed.pc # "idle" PROVE PageInHand'
    BY DEF PageInHand
  <2>1. feed.mode = "start" => feed.base <= feed.seen /\ (rewound' \/ feed.base <= n)
    <3>1. feed.base \in Nat
      BY FeedKnown DEF Feed
    <3> QED  BY <1>1, <3>1 DEF FeedInv, PageInHand
  <2>2. FileThere(feed.next)' <=> FileThere(feed.next)
    BY DEF FileThere
  <2> QED  BY <1>1, <1>2, <2>1, <2>2 DEF FeedInv, PageInHand
<1>7. FilesPublished'
  BY DEF FeedInv, FilesPublished, Lines, FileThere
<1>8. Session'
  <2> SUFFICES ASSUME feed.mode # "off", ~rewound' PROVE Session'
    BY DEF Session
  <2>1. feed.mode \in {"bridge", "start"}
    BY FeedKnown
  <2>2. Mark \in Nat /\ Mark' \in Nat /\ Mark <= Mark'
    BY <1>1, <2>1, FeedKnown DEF Mark
  <2>3. ASSUME NEW i \in feed.from + 1 .. Len(inbox) PROVE inbox[i] <= Mark'
    <3>1. inbox[i] <= Mark /\ i \in 1 .. Len(inbox)
      BY <1>1, FeedKnown DEF FeedInv, Session
    <3>2. inbox[i] \in Nat
      BY <3>1 DEF FeedInv, FeedTyped
    <3> QED  BY <2>2, <3>1, <3>2
  <2> QED  BY <1>1, <2>3 DEF FeedInv, Session
<1>9. LinesSettled'
  BY <1>2, SameLines DEF FeedInv
<1> QED  BY <1>4, <1>5, <1>6, <1>7, <1>8, <1>9 DEF FeedInv

LEMMA RewritersKept ==
  ASSUME BlackboardInv, FeedInv, NEW c \in Rewriters, WriteBack(c) \/ Connect(c)
  PROVE  FeedInv'
<1>1. UNCHANGED <<branch, log, cache, feed, inbox, files, missed, starts>> /\ Holding(c, "done", 0)
  BY DEF WriteBack, Connect, blackboardVars
<1>2. CASE WriteBack(c)
  <2>1. held[c].seq \in 0 .. Len(log) /\ \A k \in 1 .. held[c].seq : Settled(k)
    BY DEF FeedInv, CursorsSettled
  <2> QED  BY <1>1, <1>2, <2>1, RewriteKept DEF WriteBack
<1>3. CASE Connect(c)
  <2>1. 0 \in 0 .. Len(log) /\ \A k \in 1 .. 0 : Settled(k)
    BY FeedKnown
  <2> QED  BY <1>1, <1>3, <2>1, RewriteKept DEF Connect
<1> QED  BY <1>2, <1>3

LEMMA ReadCursorKept ==
  ASSUME BlackboardInv, FeedInv, NEW c \in Rewriters, ReadCursor(c)
  PROVE  FeedInv'
<1>1. UNCHANGED <<branch, log, cache, feed, inbox, saved, files, missed, rewound, starts>>
  BY DEF ReadCursor, diskVars
<1>2. PICK n \in {saved, 0} : Holding(c, "read", n)
  BY DEF ReadCursor
<1>3. n \in Nat /\ n \in 0 .. Len(log) /\ \A k \in 1 .. n : Settled(k)
  BY <1>2, FeedKnown DEF FeedInv, CursorsSettled
<1>4. \A k : Settled(k)' <=> Settled(k)
  BY <1>1 DEF Settled, Lines
<1>5. /\ held' \in [Rewriters -> Held]
      /\ \A d \in Rewriters : held'[d].seq = n \/ held'[d] = held[d]
  BY <1>2, <1>3 DEF Holding, Held, FeedInv, FeedTyped
<1>6. FeedTyped'
  BY <1>1, <1>5 DEF FeedInv, FeedTyped
<1>7. CursorsSettled'
  <2>1. ASSUME NEW d \in Rewriters
        PROVE  held'[d].seq \in 0 .. Len(log) /\ \A k \in 1 .. held'[d].seq : Settled(k)
    BY <1>3, <1>5 DEF FeedInv, CursorsSettled
  <2> QED  BY <1>1, <1>4, <2>1 DEF FeedInv, CursorsSettled
<1>8. PageInHand' /\ FilesPublished' /\ Session'
  BY <1>1, <1>4 DEF FeedInv, PageInHand, FilesPublished, Session, Mark, Lines, FileThere
<1>9. LinesSettled'
  BY <1>1, <1>4, SameLines DEF FeedInv
<1> QED  BY <1>6, <1>7, <1>8, <1>9 DEF FeedInv

LEMMA SaveCursorKept ==
  ASSUME BlackboardInv, FeedInv, SaveCursor
  PROVE  FeedInv'
<1>1. /\ feed.pc = "paging" /\ feed' = Idle
      /\ \/ saved' = feed.seen
         \/ feed.mode = "start" /\ feed.seen = feed.base /\ saved' = saved
      /\ UNCHANGED <<branch, log, cache, inbox, files, held, missed, rewound, starts>>
  BY DEF SaveCursor, PageDone, blackboardVars
<1>2. /\ feed' \in Feed /\ feed'.mode = feed.mode /\ feed'.from = feed.from /\ feed'.pc = "idle"
      /\ feed'.seen = IF feed.mode = "bridge" THEN feed.seen ELSE 0
  BY <1>1, IdleFields
<1>3. feed.seen \in 0 .. Len(log) /\ 0 \in 0 .. Len(log) /\ feed.mode \in {"bridge", "start"}
      /\ saved \in 0 .. Len(log)
  BY <1>1, FeedKnown DEF FeedInv, PageInHand
<1>4. \A n : Settled(n)' <=> Settled(n)
  BY <1>1 DEF Settled, Lines
<1>5. FeedTyped'
  BY <1>1, <1>2, <1>3 DEF FeedInv, FeedTyped
<1>6. CursorsSettled'
  BY <1>1, <1>2, <1>3, <1>4 DEF FeedInv, CursorsSettled
<1>7. PageInHand'
  BY <1>2 DEF PageInHand
<1>8. FilesPublished'
  BY <1>1 DEF FeedInv, FilesPublished, Lines, FileThere
<1>9. Session'
  <2>1. Mark = feed.seen /\ Mark' = IF feed.mode = "bridge" THEN feed.seen ELSE saved'
    BY <1>1, <1>2, <1>3 DEF Mark
  <2>2. ~rewound => Mark <= Mark'
    BY <1>1, <1>3, <2>1 DEF FeedInv, PageInHand
  <2>3. ASSUME NEW i \in feed.from + 1 .. Len(inbox), inbox[i] <= Mark, ~rewound
        PROVE  inbox[i] <= Mark'
    <3>1. i \in 1 .. Len(inbox)
      BY FeedKnown
    <3>2. inbox[i] \in Nat /\ Mark \in Nat /\ Mark' \in Nat
      BY <1>1, <1>3, <2>1, <3>1 DEF FeedInv, FeedTyped
    <3> QED  BY <2>2, <2>3, <3>2
  <2> QED  BY <1>1, <1>2, <1>3, <2>3 DEF FeedInv, Session
<1>10. LinesSettled'
  BY <1>1, <1>4, SameLines DEF FeedInv
<1> QED  BY <1>5, <1>6, <1>7, <1>8, <1>9, <1>10 DEF FeedInv

\* The event at hand is behind us: the page goes on with the next one, and the cursor in
\* memory stays or moves up to it.
Advances ==
  /\ feed' \in Feed /\ feed'.mode = feed.mode /\ feed'.from = feed.from /\ feed'.upto = feed.upto
  /\ feed'.base = feed.base
  /\ feed'.pc = "paging" /\ feed'.next = feed.next + 1 /\ feed'.seen \in {feed.seen, feed.next}

LEMMA PageKnown ==
  ASSUME BlackboardInv, FeedInv, feed.pc # "idle", feed.next <= feed.upto
  PROVE  /\ feed.mode \in {"bridge", "start"} /\ Mark = feed.seen
         /\ feed.next \in 1 .. Len(log) /\ feed.seen < feed.next
         /\ \A n \in 1 .. feed.next - 1 : Settled(n)
BY FeedKnown DEF FeedInv, PageInHand, Mark

LEMMA PastAdvances ==
  ASSUME BlackboardInv, FeedInv, feed.pc # "idle", feed.next <= feed.upto,
         feed' = Past \/ (feed.pc = "paging" /\ feed' = [feed EXCEPT !.next = @ + 1])
  PROVE  Advances /\ (feed' = Past => feed'.seen = feed.next)
<1>1. feed.next + 1 \in Nat /\ feed.next \in Nat /\ feed.seen \in Nat /\ feed.seen < feed.next /\ feed \in Feed
  BY PageKnown, FeedKnown
<1>2. Larger(feed.seen, feed.next) = feed.next
  BY <1>1 DEF Larger
<1>3. CASE feed' = Past
  <2>1. Past = [[feed EXCEPT !.pc = "paging", !.next = feed.next + 1] EXCEPT !.seen = feed.next]
    BY <1>1, <1>2 DEF Past, Feed
  <2>2. [feed EXCEPT !.pc = "paging", !.next = feed.next + 1] \in Feed
    BY <1>1 DEF Feed
  <2>3. Past \in Feed
    BY <1>1, <2>1, <2>2 DEF Feed
  <2> QED  BY <1>1, <1>3, <2>1, <2>3 DEF Advances, Feed
<1>4. CASE feed.pc = "paging" /\ feed' = [feed EXCEPT !.next = @ + 1] /\ feed' # Past
  <2>1. [feed EXCEPT !.next = feed.next + 1] \in Feed
    BY <1>1 DEF Feed
  <2> QED  BY <1>1, <1>4, <2>1 DEF Advances, Feed
<1> QED  BY <1>3, <1>4

LEMMA AdvancesKeeps ==
  ASSUME BlackboardInv, FeedInv, feed.pc # "idle", feed.next <= feed.upto, Advances,
         UNCHANGED <<log, saved, rewound>>,
         \A n \in 1 .. Len(log) : Settled(n) \/ n = feed.next => Settled(n)'
  PROVE  /\ PageInHand' /\ feed'.seen \in 0 .. Len(log)
         /\ \A n \in 1 .. feed'.seen : Settled(n)'
<1>1. feed.next \in 1 .. Len(log) /\ feed.seen < feed.next /\ feed.seen \in 0 .. Len(log)
      /\ feed.mode \in {"bridge", "start"} /\ Len(log) \in Nat /\ feed.upto <= Len(log)
  BY PageKnown, FeedKnown DEF FeedInv, PageInHand
<1>2. \A n \in 1 .. feed.next : Settled(n)'
  <2> SUFFICES ASSUME NEW n \in 1 .. feed.next PROVE Settled(n)'
    OBVIOUS
  <2>1. n \in 1 .. feed.next - 1 \/ n = feed.next
    BY <1>1
  <2>2. n \in 1 .. Len(log)
    BY <1>1
  <2> QED  BY <2>1, <2>2, PageKnown
<1>3. feed'.seen \in 0 .. Len(log) /\ feed'.seen <= feed.next
  BY <1>1 DEF Advances
<1>4. \A n \in 1 .. feed'.seen : Settled(n)'
  BY <1>1, <1>2, <1>3
<1>5. feed'.next \in feed'.seen + 1 .. Len(log) + 1 /\ feed'.next - 1 = feed.next
  BY <1>1 DEF Advances
<1>6. feed.mode = "start" => feed.base <= feed'.seen /\ (rewound \/ feed.base <= saved)
  <2>1. feed.base \in Nat
    BY FeedKnown DEF Feed
  <2> QED  BY <1>1, <2>1 DEF Advances, FeedInv, PageInHand
<1>7. PageInHand'
  BY <1>1, <1>2, <1>5, <1>6 DEF PageInHand, Advances
<1> QED  BY <1>3, <1>4, <1>7

\* No line is written: what the process wrote stays below its cursor.
LEMMA SessionKept ==
  ASSUME BlackboardInv, FeedInv, feed.pc # "idle", feed.next <= feed.upto,
         feed'.mode = feed.mode, feed'.from = feed.from, feed'.pc # "idle",
         feed'.seen \in {feed.seen, feed.next}, inbox' = inbox, rewound' = rewound
  PROVE  Session'
<1>1. Mark' = feed'.seen /\ Mark = feed.seen /\ feed.seen \in Nat /\ feed.next \in Nat
      /\ feed.seen < feed.next
  BY PageKnown, FeedKnown DEF Mark
<1>2. ASSUME NEW i \in feed.from + 1 .. Len(inbox), inbox[i] <= Mark
      PROVE  inbox[i] <= Mark'
  <2>1. inbox[i] \in Nat
    BY FeedKnown DEF FeedInv, FeedTyped
  <2> QED  BY <1>1, <1>2, <2>1
<1> QED  BY <1>1, <1>2 DEF FeedInv, Session

LEMMA WithholdKept ==
  ASSUME BlackboardInv, FeedInv, Withhold
  PROVE  FeedInv'
<1>1. /\ feed.pc = "paging" /\ feed.next <= feed.upto /\ log[feed.next].layer = "human"
      /\ UNCHANGED <<branch, log, cache, inbox, saved, files, held, missed, rewound, starts>>
  BY FeedKnown DEF Withhold, Turn, blackboardVars, diskVars
<1>2. Advances
  BY <1>1, PastAdvances DEF Withhold
<1>3. UNCHANGED <<inbox, log, missed>> /\ rewound' \in BOOLEAN
  BY <1>1 DEF FeedInv, FeedTyped
<1>4. \A n \in 1 .. Len(log) : Settled(n) \/ n = feed.next => Settled(n)'
  <2> SUFFICES ASSUME NEW n \in 1 .. Len(log), Settled(n) \/ n = feed.next PROVE Settled(n)'
    OBVIOUS
  <2>1. n \in Lines \/ log[n].layer = "human" \/ n \in missed
    BY <1>1 DEF Settled
  <2> QED  BY <1>3, <2>1 DEF Settled, Lines
<1>5. PageInHand' /\ feed'.seen \in 0 .. Len(log) /\ \A n \in 1 .. feed'.seen : Settled(n)'
  BY <1>1, <1>2, <1>3, <1>4, AdvancesKeeps
<1>6. Session'
  BY <1>1, <1>2, <1>3, SessionKept DEF Advances
<1>7. cache' \in Cache /\ feed' \in Feed /\ starts' \in 0 .. MaxStarts /\ missed \subseteq Nat \ {0}
  BY <1>1, <1>2 DEF Advances, FeedInv, FeedTyped
<1> QED  BY <1>1, <1>3, <1>5, <1>6, <1>7, FeedMoved

\* Two announced facts at one path say the same.
LEMMA OnePathOneContent ==
  ASSUME BlackboardInv, NEW m \in 1 .. Len(log), NEW n \in 1 .. Len(log),
         log[m].layer = "fact", log[n].layer = "fact", log[m].draft.path = log[n].draft.path
  PROVE  log[m].draft.content = log[n].draft.content
<1>1. PICK i \in 1 .. Len(branch) : branch[i].path = log[m].draft.path
                                    /\ branch[i].content = log[m].draft.content
  BY OneContent
<1>2. PICK j \in 1 .. Len(branch) : branch[j].path = log[n].draft.path
                                    /\ branch[j].content = log[n].draft.content
  BY OneContent
<1>3. i = j
  BY <1>1, <1>2 DEF BlackboardInv, WrittenOnce
<1> QED  BY <1>1, <1>2, <1>3

LEMMA MaterialiseKept ==
  ASSUME BlackboardInv, FeedInv, Materialise
  PROVE  FeedInv'
<1> DEFINE k == feed.next  path == log[feed.next].draft.path  content == log[feed.next].draft.content
<1>1. /\ feed.pc = "paging" /\ k \in 1 .. Len(log) /\ k <= feed.upto /\ log[k].layer = "fact"
      /\ feed.mode \in {"bridge", "start"}
  BY FeedKnown, PageKnown DEF Materialise, Turn
<1>2. /\ files' = [files EXCEPT ![path] = IF @ = Missing THEN Pinned(log[k]) ELSE @]
      /\ feed' = [feed EXCEPT !.pc = "fetched"]
      /\ UNCHANGED <<branch, log, cache, inbox, saved, held, missed, rewound, starts>>
  BY DEF Materialise, blackboardVars
<1>3. path \in Paths /\ content \in Contents /\ Pinned(log[k]) = content
      /\ files \in [Paths -> Contents \cup {Missing}]
  BY <1>1, OneContent DEF FeedInv, FeedTyped
<1>4. /\ feed' \in Feed /\ feed'.pc = "fetched" /\ feed'.mode = feed.mode /\ feed'.from = feed.from
      /\ feed'.seen = feed.seen /\ feed'.next = k /\ feed'.upto = feed.upto /\ feed'.base = feed.base
  BY <1>2, FeedKnown DEF Feed
<1>5. files'[path] = content
  BY <1>1, <1>2, <1>3, SameFile DEF FeedInv
<1>6. ASSUME NEW p \in Paths, p # path PROVE files'[p] = files[p]
  BY <1>2, <1>3, <1>6
<1> HIDE DEF k, path, content
<1>7. \A n : Settled(n)' <=> Settled(n)
  BY <1>2 DEF Settled, Lines
<1>8. FeedTyped'
  <2>1. files' \in [Paths -> Contents \cup {Missing}]
    BY <1>2, <1>3
  <2> QED  BY <1>2, <1>4, <2>1 DEF FeedInv, FeedTyped
<1>9. CursorsSettled'
  BY <1>2, <1>4, <1>7 DEF FeedInv, CursorsSettled
<1>10. PageInHand'
  <2>1. FileThere(k)'
    BY <1>2, <1>5 DEF FileThere, path, content, k
  <2>2. feed'.next = feed.next /\ (FileThere(feed.next))'
    BY <1>4, <2>1 DEF k, FileThere
  <2> QED  BY <1>1, <1>2, <1>4, <1>7, <2>2 DEF FeedInv, PageInHand, k
<1>11. FilesPublished'
  <2>1. ASSUME NEW p \in Paths, files'[p] # Missing
        PROVE  \E i \in 1 .. Len(branch) : branch[i].path = p /\ branch[i].content = files'[p]
    <3>1. CASE p = path
      BY <1>1, <1>5, <3>1, OneContent DEF path, content, k
    <3>2. CASE p # path
      BY <1>6, <2>1, <3>2 DEF FeedInv, FilesPublished
    <3> QED  BY <3>1, <3>2
  <2>2. ASSUME NEW n \in Lines PROVE n <= Len(log) /\ FileThere(n)'
    <3>1. n \in 1 .. Len(log) /\ FileThere(n)
      BY FeedKnown, LinesTyped DEF FeedInv, FilesPublished
    <3>2. ASSUME log[n].layer = "fact" PROVE files'[log[n].draft.path] = log[n].draft.content
      <4>1. log[n].draft.path \in Paths
        BY <3>1, <3>2, OneContent
      <4>2. CASE log[n].draft.path = path
        BY <1>1, <1>5, <3>1, <3>2, <4>2, OnePathOneContent DEF path, content, k
      <4>3. CASE log[n].draft.path # path
        BY <1>6, <3>1, <3>2, <4>1, <4>3 DEF FileThere
      <4> QED  BY <4>2, <4>3
    <3> QED  BY <1>2, <3>1, <3>2 DEF FileThere
  <2>3. Lines' = Lines
    BY <1>2 DEF Lines
  <2> QED  BY <1>2, <2>1, <2>2, <2>3 DEF FilesPublished
<1>12. Session'
  <2>1. Mark' = Mark
    BY <1>1, <1>2, <1>4 DEF Mark
  <2> QED  BY <1>2, <1>4, <2>1 DEF FeedInv, Session
<1>13. LinesSettled'
  BY <1>2, <1>7, SameLines DEF FeedInv
<1> QED  BY <1>8, <1>9, <1>10, <1>11, <1>12, <1>13 DEF FeedInv

LEMMA WriteLineKept ==
  ASSUME BlackboardInv, FeedInv, WriteLine
  PROVE  FeedInv'
<1> DEFINE k == feed.next
<1>1. /\ feed.pc # "idle" /\ k <= feed.upto /\ k \in Nat \ {0}
      /\ inbox' = Append(inbox, k) /\ feed' = Past
      /\ UNCHANGED <<branch, log, cache, saved, files, held, missed, rewound, starts>>
  BY FeedKnown DEF WriteLine, Turn, blackboardVars
<1>2. k \in 1 .. Len(log) /\ feed.seen < k /\ Mark = feed.seen /\ feed.mode \in {"bridge", "start"}
  BY <1>1, PageKnown
<1>3. Advances /\ feed'.seen = k
  BY <1>1, PastAdvances
<1>4. FileThere(k) /\ log[k].layer # "human"
  BY FeedKnown DEF WriteLine, Turn, FeedInv, PageInHand, FileThere
<1> HIDE DEF k
<1>5. /\ inbox' \in Seq(Nat \ {0}) /\ Len(inbox') = Len(inbox) + 1 /\ inbox'[Len(inbox) + 1] = k
      /\ Len(inbox) \in Nat /\ \A i \in 1 .. Len(inbox) : inbox'[i] = inbox[i]
  BY <1>1 DEF FeedInv, FeedTyped
<1>6. Lines' = Lines \cup {k}
  <2>1. \A i : i \in 1 .. Len(inbox') <=> i \in 1 .. Len(inbox) \/ i = Len(inbox) + 1
    BY <1>5
  <2>2. \A n : n \in Lines' <=> \E i \in 1 .. Len(inbox') : inbox'[i] = n
    BY DEF Lines
  <2>3. \A n : n \in Lines <=> \E i \in 1 .. Len(inbox) : inbox[i] = n
    BY DEF Lines
  <2>4. \A n : n \in Lines' <=> n \in Lines \/ n = k
    BY <1>5, <2>1, <2>2, <2>3
  <2> QED  BY <2>4
<1>7. \A n : Settled(n) \/ n = k => Settled(n)'
  BY <1>1, <1>6 DEF Settled
<1>8. FeedTyped'
  BY <1>1, <1>3, <1>5 DEF FeedInv, FeedTyped, Advances
<1>9. PageInHand' /\ feed'.seen \in 0 .. Len(log) /\ \A n \in 1 .. feed'.seen : Settled(n)'
  BY <1>1, <1>3, <1>7, AdvancesKeeps DEF k
<1>10. CursorsSettled'
  BY <1>1, <1>7, <1>9 DEF FeedInv, CursorsSettled
<1>11. FilesPublished'
  <2>1. ASSUME NEW n \in Lines \cup {k} PROVE n <= Len(log) /\ FileThere(n)'
    <3>1. n <= Len(log) /\ FileThere(n)
      BY <1>2, <1>4, FeedKnown DEF FeedInv, FilesPublished
    <3> QED  BY <1>1, <3>1 DEF FileThere
  <2> QED  BY <1>1, <1>6, <2>1 DEF FeedInv, FilesPublished
<1>12. Session'
  <2>1. Mark' = k /\ feed'.from = feed.from /\ feed'.mode = feed.mode /\ feed.mode # "off"
    BY <1>2, <1>3 DEF Mark, Advances
  <2> SUFFICES ASSUME ~rewound PROVE Session'
    BY <1>1 DEF Session
  <2>2. ASSUME NEW i \in feed.from + 1 .. Len(inbox) PROVE inbox[i] < k
    <3>1. inbox[i] <= feed.seen
      BY <1>2 DEF FeedInv, Session
    <3>2. i \in 1 .. Len(inbox)
      BY <1>5, FeedKnown
    <3>3. inbox \in Seq(Nat \ {0})
      BY DEF FeedInv, FeedTyped
    <3>4. inbox[i] \in Nat
      BY <3>2, <3>3
    <3>5. feed.seen \in Nat /\ k \in Nat
      BY <1>1, FeedKnown
    <3> QED  BY <1>2, <3>1, <3>4, <3>5
  <2>3. ASSUME NEW i \in feed.from + 1 .. Len(inbox) + 1
        PROVE  /\ inbox'[i] <= k
               /\ \A j \in feed.from + 1 .. Len(inbox) + 1 : i < j => inbox'[i] < inbox'[j]
    <3>1. i \in feed.from + 1 .. Len(inbox) \/ i = Len(inbox) + 1
      BY <1>5, FeedKnown
    <3>2. CASE i = Len(inbox) + 1
      <4>1. k \in Nat /\ \A j \in feed.from + 1 .. Len(inbox) + 1 : ~(i < j)
        BY <1>1, <1>5, <3>2, FeedKnown
      <4> QED  BY <1>5, <3>2, <4>1
    <3>3. CASE i \in feed.from + 1 .. Len(inbox)
      <4>1. i \in 1 .. Len(inbox) /\ inbox[i] < k
        BY <1>5, <2>2, <3>3, FeedKnown
      <4>2. inbox'[i] = inbox[i] /\ inbox[i] < k /\ inbox[i] \in Nat
        BY <1>5, <4>1 DEF FeedInv, FeedTyped
      <4>3. ASSUME NEW j \in feed.from + 1 .. Len(inbox) + 1, i < j PROVE inbox'[i] < inbox'[j]
        <5>1. j = Len(inbox) + 1 \/ j \in feed.from + 1 .. Len(inbox)
          BY <1>5, FeedKnown
        <5>2. j \in feed.from + 1 .. Len(inbox) => j \in 1 .. Len(inbox)
          BY <1>5, FeedKnown
        <5> QED  BY <1>2, <1>5, <3>3, <4>1, <4>2, <4>3, <5>1, <5>2 DEF FeedInv, Session
      <4>4. k \in Nat
        BY <1>1
      <4> QED  BY <4>2, <4>3, <4>4
    <3> QED  BY <3>1, <3>2, <3>3
  <2> QED  BY <1>5, <2>1, <2>3 DEF Session
<1>13. LinesSettled'
  <2>1. ASSUME NEW m \in Lines', NEW n \in 1 .. m PROVE Settled(n)'
    <3>1. CASE m \in Lines
      BY <1>7, <3>1 DEF FeedInv, LinesSettled
    <3>2. CASE m = k
      <4>1. n \in 1 .. k - 1 \/ n = k
        BY <1>2, <3>2
      <4> QED  BY <1>1, <1>7, <4>1, PageKnown DEF k
    <3> QED  BY <1>6, <3>1, <3>2
  <2>2. ASSUME NEW i \in 1 .. Len(inbox'), NEW j \in 1 .. Len(inbox'), i < j, inbox'[j] < inbox'[i]
        PROVE  inbox'[j] \in missed \/ \E h \in 1 .. j - 1 : inbox'[h] = inbox'[j]
    <3>1. i \in 1 .. Len(inbox)
      BY <1>5, <2>2
    <3>2. CASE j \in 1 .. Len(inbox)
      <4>1. inbox'[i] = inbox[i] /\ inbox'[j] = inbox[j] /\ \A h \in 1 .. j - 1 : inbox'[h] = inbox[h]
        BY <1>5, <3>1, <3>2
      <4> QED  BY <2>2, <3>1, <3>2, <4>1 DEF FeedInv, LinesSettled, OutOfTurnIsOld
    <3>3. CASE j = Len(inbox) + 1
      <4>1. inbox'[j] = k /\ inbox'[i] = inbox[i] /\ inbox[i] \in Lines /\ inbox[i] \in Nat
        BY <1>5, <3>1, <3>3, LinesTyped DEF Lines
      <4>2. k \in 1 .. inbox[i]
        BY <1>1, <2>2, <4>1
      <4>3. Settled(k)
        BY <4>1, <4>2 DEF FeedInv, LinesSettled
      <4>4. CASE k \in Lines
        <5>1. PICK h \in 1 .. Len(inbox) : inbox[h] = k
          BY <4>4 DEF Lines
        <5>2. h \in 1 .. j - 1 /\ inbox'[h] = k
          BY <1>5, <3>3, <5>1
        <5> QED  BY <4>1, <5>2
      <4>5. CASE k \in missed
        BY <4>1, <4>5
      <4> QED  BY <1>4, <4>3, <4>4, <4>5 DEF Settled
    <3>4. j \in 1 .. Len(inbox) \/ j = Len(inbox) + 1
      BY <1>5
    <3> QED  BY <3>2, <3>3, <3>4
  <2>3. OutOfTurnIsOld'
    BY <1>1, <2>2 DEF OutOfTurnIsOld
  <2> QED  BY <2>1, <2>3 DEF LinesSettled
<1> QED  BY <1>8, <1>9, <1>10, <1>11, <1>12, <1>13 DEF FeedInv

LEMMA FetchFailsKept ==
  ASSUME BlackboardInv, FeedInv, FetchFails
  PROVE  FeedInv'
<1>1. /\ feed.pc = "paging" /\ feed.next <= feed.upto /\ log[feed.next].layer = "fact"
      /\ UNCHANGED <<branch, log, inbox, saved, files, held, starts>>
  BY FeedKnown DEF FetchFails, Turn, diskVars
<1>2. CASE Gone /\ UNCHANGED missed
  BY <1>1, <1>2, StoppedKept
<1>3. CASE /\ feed.mode = "bridge" /\ UNCHANGED <<cache, rewound>>
           /\ feed' = [feed EXCEPT !.next = @ + 1] /\ missed' = missed \cup {feed.next}
  <2>1. Advances
    BY <1>1, <1>3, PastAdvances
  <2>2. UNCHANGED <<inbox, log>> /\ rewound' \in BOOLEAN
    BY <1>1, <1>3 DEF FeedInv, FeedTyped
  <2>3. \A n \in 1 .. Len(log) : Settled(n) \/ n = feed.next => Settled(n)'
    BY <1>3, <2>2 DEF Settled, Lines
  <2>4. PageInHand' /\ feed'.seen \in 0 .. Len(log) /\ \A n \in 1 .. feed'.seen : Settled(n)'
    BY <1>1, <1>3, <2>1, <2>2, <2>3, AdvancesKeeps
  <2>5. Session'
    BY <1>1, <1>3, <2>1, <2>2, SessionKept DEF Advances
  <2>6. cache' \in Cache /\ feed' \in Feed /\ starts' \in 0 .. MaxStarts
        /\ missed \subseteq missed' /\ missed' \subseteq Nat \ {0}
    <3>1. feed.next \in Nat \ {0}
      BY <1>1, PageKnown, FeedKnown
    <3> QED  BY <1>1, <1>3, <2>1, <3>1 DEF Advances, FeedInv, FeedTyped
  <2> QED  BY <1>1, <2>2, <2>4, <2>5, <2>6, FeedMoved
<1> QED  BY <1>2, <1>3 DEF FetchFails

-----------------------------------------------------------------------------
(* The composition.                                                        *)

InboxInv == BlackboardInv /\ FeedInv

\* The feed only reads the blackboard.
LEMMA BlackboardStill ==
  ASSUME BlackboardInv, UNCHANGED <<branch, log, work>>, faults' = faults \/ Fault
  PROVE  BlackboardInv'
<1>1. faults' \in 0 .. MaxFaults
  BY FaultCounted DEF BlackboardInv
<1> QED  BY <1>1 DEF BlackboardInv

LEMMA InboxStep ==
  ASSUME InboxInv, [Next]_vars
  PROVE  InboxInv'
<1> USE DEF InboxInv
<1>1. CASE BlackboardNext /\ UNCHANGED feedVars
  <2>1. BlackboardInv' /\ Grows(branch, branch') /\ Grows(log, log')
    BY <1>1, BlackboardStep
  <2>2. branch' \in Seq(File) /\ log' \in Seq(Event)
    BY <2>1 DEF BlackboardInv
  <2> QED  BY <1>1, <2>1, <2>2, LedgerMoves
<1>2. ASSUME NEW l \in Listeners, Listen(l) PROVE InboxInv'
  BY <1>2, ListenKept, BlackboardStill DEF Listen, blackboardVars
<1>3. CASE Poll
  BY <1>3, PollKept, BlackboardStill DEF Poll, blackboardVars
<1>4. CASE Withhold
  BY <1>4, WithholdKept, BlackboardStill DEF Withhold, blackboardVars
<1>5. CASE Materialise
  BY <1>5, MaterialiseKept, BlackboardStill DEF Materialise, blackboardVars
<1>6. CASE WriteLine
  BY <1>6, WriteLineKept, BlackboardStill DEF WriteLine, blackboardVars
<1>7. CASE SaveCursor
  BY <1>7, SaveCursorKept, BlackboardStill DEF SaveCursor, blackboardVars
<1>8. CASE FetchFails
  BY <1>8, FetchFailsKept, BlackboardStill DEF FetchFails
<1>9. CASE WriteFails
  BY <1>9, WriteFailsKept, BlackboardStill DEF WriteFails
<1>10. CASE Die
  BY <1>10, DieKept, BlackboardStill DEF Die
<1>11. ASSUME NEW mode \in Modes, Start(mode) PROVE InboxInv'
  BY <1>11, StartKept, BlackboardStill DEF Start, blackboardVars
<1>12. CASE TornPoll
  BY <1>12, TornPollKept, BlackboardStill DEF TornPoll
<1>13. ASSUME NEW c \in Rewriters, ReadCursor(c) PROVE InboxInv'
  BY <1>13, ReadCursorKept, BlackboardStill DEF ReadCursor
<1>14. ASSUME NEW c \in Rewriters, WriteBack(c) \/ Connect(c) PROVE InboxInv'
  BY <1>14, RewritersKept, BlackboardStill DEF WriteBack, Connect, blackboardVars
<1>15. CASE UNCHANGED vars
  <2>1. UNCHANGED <<branch, log, work, faults>> /\ UNCHANGED feedVars
    BY <1>15 DEF vars, blackboardVars
  <2>2. BlackboardInv'
    BY <2>1, BlackboardStill
  <2>3. branch' \in Seq(File) /\ log' \in Seq(Event) /\ Grows(branch, branch') /\ Grows(log, log')
    BY <2>1, <2>2, Same DEF BlackboardInv
  <2> QED  BY <2>1, <2>2, <2>3, LedgerMoves
<1> QED
  BY <1>1, <1>2, <1>3, <1>4, <1>5, <1>6, <1>7, <1>8, <1>9, <1>10, <1>11, <1>12, <1>13,
     <1>14, <1>15 DEF Next, Deliver

THEOREM InboxInvariant == Spec => []InboxInv
<1>1. Init => InboxInv
  BY BlackboardStart, FeedStart DEF Init, InboxInv
<1>2. InboxInv /\ [Next]_vars => InboxInv'
  BY InboxStep
<1> QED  BY <1>1, <1>2, PTL DEF Spec

(* Every variable of the blackboard and of the feed keeps its type, and no *)
(* process fails more often than MaxFaults allows.                         *)
THEOREM TypeCorrect == Spec => []TypeOK
<1>1. InboxInv => TypeOK
  BY DEF InboxInv, BlackboardInv, FeedInv, FeedTyped, TypeOK
<1> QED  BY <1>1, InboxInvariant, PTL

(* Whatever died in between, nothing at or below the cursor of state.json  *)
(* is missing from the inbox but the human layer and the files the bridge  *)
(* could not fetch.                                                        *)
THEOREM CursorAccounted == Spec => []SavedCursorAccounted
<1>1. InboxInv => SavedCursorAccounted
  BY DEF InboxInv, FeedInv, CursorsSettled, Settled, SavedCursorAccounted
<1> QED  BY <1>1, InboxInvariant, PTL

(* A file an inbox line announces is on disk, and says what its publisher  *)
(* wrote: the branch holds one file per path, so the first that found its  *)
(* way to the disk is the only one there is.                               *)
THEOREM AnnouncedFilesPinned == Spec => []AnnouncedFileIsPinned
<1>1. InboxInv => AnnouncedFileIsPinned
  BY DEF InboxInv, FeedInv, FilesPublished, FileThere, AnnouncedFileIsPinned
<1> QED  BY <1>1, InboxInvariant, PTL

(* The bridge writes its lines in the order of the ledger, none twice, and *)
(* the start loop does while no claim and no connect turns its cursor back *)
(* and it can read it: it writes above its cursor, and what it wrote lies  *)
(* below.                                                                  *)
THEOREM LinesKeepOrder == Spec => []LinesInOrder
<1>1. InboxInv => LinesInOrder
  BY DEF InboxInv, FeedInv, Session, LinesInOrder
<1> QED  BY <1>1, InboxInvariant, PTL

(* Where lines come out of turn, whoever wrote state.json meanwhile, they  *)
(* say nothing new but what the bridge had passed over: behind every line  *)
(* and every cursor, written or about to be, each event is settled.        *)
THEOREM RepeatsAreOld == Spec => []OutOfTurnIsOld
<1>1. InboxInv => OutOfTurnIsOld
  BY DEF InboxInv, FeedInv, LinesSettled
<1> QED  BY <1>1, InboxInvariant, PTL
=============================================================================
