----------------------------- MODULE ReaperProofs -----------------------------
(***************************************************************************)
(* Proofs about the reaper, for any number of bridges, workers and tasks   *)
(* and any thresholds with Timeout > MaxSweep.                             *)
(***************************************************************************)
EXTENDS Reaper, TLAPS

-----------------------------------------------------------------------------
(* The board's operations keep its types.                                  *)

LEMMA ApplyTyped ==
  ASSUME NEW card \in Card, NEW kind, NEW a \in Agents \cup {NoAgent}, NEW b \in BOOLEAN
  PROVE  Apply(card, [kind |-> kind, agent |-> a, blocker |-> b]) \in Card
<1> DEFINE e == [kind |-> kind, agent |-> a, blocker |-> b]
<1>0. e.kind = kind /\ e.agent = a /\ e.blocker = b
  OBVIOUS
<1> HIDE DEF e
<1>1. NewCard \in Card
  BY DEF NewCard, NoCard, Card, Columns
<1>2. ASSUME NEW patched \in Card, NEW to \in Columns
      PROVE  Move(card, to, patched) \in Card
  BY <1>2 DEF Move, Card
<1>3. ApplyToCard(card, e) \in Card
  <2>1. CASE kind = "task_claimed"
    BY <1>0, <2>1, <1>2 DEF ApplyToCard, Card, Columns
  <2>2. CASE kind = "task_blocked"
    BY <1>0, <2>2, <1>2 DEF ApplyToCard, Card, Columns
  <2>3. CASE kind = "task_unblocked"
    <3>1. [card EXCEPT !.claimed_by = NoAgent, !.blocker = FALSE] \in Card
      BY DEF Card
    <3>2. "open" \in Columns
      BY DEF Columns
    <3>3. ApplyToCard(card, e)
            = Move(card, "open", [card EXCEPT !.claimed_by = NoAgent, !.blocker = FALSE])
      BY <1>0, <2>3 DEF ApplyToCard
    <3> QED  BY <3>1, <3>2, <3>3, <1>2
  <2>4. CASE kind \in {"task_completed", "task_cancelled"}
    BY <1>0, <2>4, <1>2 DEF ApplyToCard, Card, Columns
  <2>5. CASE kind = "task_handed_off"
    BY <1>0, <2>5 DEF ApplyToCard, StatusAfterHandoff, Card, Columns
  <2>6. CASE kind \in {"branch_pushed", "pr_opened", "merged"}
    BY <1>0, <2>6, <1>2 DEF ApplyToCard, Columns
  <2>7. CASE kind \in {"ci_passed", "ci_failed"}
    BY <1>0, <2>7 DEF ApplyToCard, Card
  <2>8. CASE kind \notin {"task_claimed", "task_blocked", "task_unblocked", "task_completed",
                          "task_cancelled", "task_handed_off", "branch_pushed", "pr_opened",
                          "merged", "ci_passed", "ci_failed"}
    BY <1>0, <2>8 DEF ApplyToCard
  <2> QED  BY <2>1, <2>2, <2>3, <2>4, <2>5, <2>6, <2>7, <2>8
<1>4. Apply(card, e) \in Card
  BY <1>0, <1>1, <1>3 DEF Apply
<1> QED  BY <1>4 DEF e

BoardTypeOK ==
  /\ tasks \in [Tasks -> Card]
  /\ claims \in [Tasks -> Agents \cup {NoAgent}]

LEMMA RecordTyped ==
  ASSUME tasks \in [Tasks -> Card], NEW t \in Tasks, NEW kind,
         NEW a \in Agents \cup {NoAgent}, NEW b \in BOOLEAN, Record(kind, t, a, b)
  PROVE  tasks' \in [Tasks -> Card]
BY ApplyTyped DEF Record

LEMMA TakeClaimTyped ==
  ASSUME BoardTypeOK, NEW a \in Agents, NEW t \in Tasks, TakeClaim(a, t)
  PROVE  BoardTypeOK'
BY RecordTyped DEF BoardTypeOK, TakeClaim

LEMMA EndClaimTyped ==
  ASSUME BoardTypeOK, NEW t \in Tasks, EndClaim(t)
  PROVE  BoardTypeOK'
BY RecordTyped DEF BoardTypeOK, EndClaim

LEMMA ReportTyped ==
  ASSUME BoardTypeOK, NEW t \in Tasks, NEW kind, Report(kind, t, FALSE)
  PROVE  BoardTypeOK'
BY RecordTyped DEF BoardTypeOK, Report

\* The claim a reapClaim meets is the one it was given, or nothing happens.
LEMMA ReapClaimEffect ==
  ASSUME TypeOK, NEW t \in Tasks, NEW owner, ReapClaim(t, owner)
  PROVE  /\ BoardTypeOK'
         /\ age' \in [Tasks -> 0 .. Horizon]
         /\ locks' = locks
         /\ \A s \in Tasks : claims'[s] # claims[s] => s = t /\ claims[t] = owner
         /\ \A s \in Tasks : age'[s] \in {0, age[s]}
<1> USE ReaperAssumption DEF Horizon
<1>1. BoardTypeOK
  BY DEF TypeOK, BoardTypeOK
<1>2. CASE claims[t] = owner /\ EndClaim(t) /\ Forget(t)
  <2>1. BoardTypeOK'
    BY <1>1, <1>2, EndClaimTyped
  <2>2. age' = [age EXCEPT ![t] = 0] /\ age \in [Tasks -> 0 .. Horizon] /\ 0 \in 0 .. Horizon
    BY <1>2 DEF Forget, TypeOK
  <2>3. claims' = [claims EXCEPT ![t] = NoAgent] /\ locks' = locks
        /\ claims \in [Tasks -> Agents \cup {NoAgent}]
    BY <1>2 DEF EndClaim, TypeOK
  <2> QED  BY <1>2, <2>1, <2>2, <2>3
<1>3. CASE claims[t] # owner /\ UNCHANGED <<board, age>>
  BY <1>1, <1>3 DEF board, TypeOK, BoardTypeOK
<1> QED  BY <1>2, <1>3 DEF ReapClaim

-----------------------------------------------------------------------------
(* Types.                                                                  *)

LEMMA QuietTyped ==
  ASSUME TypeOK, NEW t \in Examined
  PROVE  Quiet(t) \in 0 .. Horizon /\ claims[t] \in Agents /\ t \in Tasks
<1> USE ReaperAssumption, NoAgentAssumption DEF Horizon, Never, Unknown
<1>1. t \in Tasks /\ claims[t] \in Agents
  BY DEF Examined, TypeOK
<1>2. age[t] \in 0 .. Horizon /\ silent[claims[t]] \in {Unknown, Never} \cup 0 .. Horizon
  BY <1>1 DEF TypeOK
<1>3. claims[t] \in revoked \/ silent[claims[t]] # Unknown
  BY DEF Examined
<1> QED  BY <1>1, <1>2, <1>3 DEF Quiet, Lesser

LEMMA SurveyTyped ==
  ASSUME TypeOK
  PROVE  {[task |-> t, agent |-> claims[t], quiet |-> Quiet(t)] : t \in Examined} \subseteq Entry
BY QuietTyped DEF Entry

LEMMA TypeInit == Init => TypeOK
<1> USE ReaperAssumption DEF Horizon, Never, Unknown
<1> SUFFICES ASSUME Init PROVE TypeOK
  OBVIOUS
<1>1. tasks \in [Tasks -> Card]
  BY DEF Init, NewCard, NoCard, Card, Columns
<1>2. claims \in [Tasks -> Agents \cup {NoAgent}]
  BY DEF Init, Leftovers
<1>3. age \in [Tasks -> 0 .. Horizon]
  BY DEF Init
<1>4. silent \in [Agents -> {Unknown, Never} \cup 0 .. Horizon]
  <2>1. \A n \in {Unknown, Never, Horizon} \cup {0} : n \in {Unknown, Never} \cup 0 .. Horizon
    OBVIOUS
  <2> QED  BY <2>1 DEF Init
<1>5. bridge \in [Agents -> Bridge]
  BY DEF Init, Bridge, Asleep
<1> QED  BY <1>1, <1>2, <1>3, <1>4, <1>5 DEF Init, TypeOK

\* What a step of bridge b's own tick may do to its record.
LEMMA BridgeTyped ==
  ASSUME TypeOK, NEW b \in Agents, NEW rec \in Bridge, bridge' = [bridge EXCEPT ![b] = rec]
  PROVE  bridge' \in [Agents -> Bridge]
BY DEF TypeOK

LEMMA GotoTyped ==
  ASSUME TypeOK, NEW b \in Agents,
         NEW pc \in {"idle", "lost", "breaking", "retrying", "sweeping"},
         NEW owner \in Agents \cup {NoAgent},
         bridge' = [bridge EXCEPT ![b].pc = pc, ![b].owner = owner]
  PROVE  bridge' \in [Agents -> Bridge]
<1>1. bridge \in [Agents -> Bridge] /\ bridge[b] \in Bridge
  BY DEF TypeOK
<1>2. [bridge[b] EXCEPT !.pc = pc, !.owner = owner] \in Bridge
  BY <1>1 DEF Bridge
<1>3. bridge' = [bridge EXCEPT ![b] = [bridge[b] EXCEPT !.pc = pc, !.owner = owner]]
  BY <1>1
<1> QED  BY <1>1, <1>2, <1>3

LEMMA WinLeaseTyped ==
  ASSUME TypeOK, NEW b \in Agents, WinLease(b)
  PROVE  BoardTypeOK' /\ locks' = locks /\ bridge' \in [Agents -> Bridge]
<1> USE ReaperAssumption
<1>1. BoardTypeOK
  BY DEF TypeOK, BoardTypeOK
<1>2. bridge' \in [Agents -> Bridge]
  <2>1. bridge' = [bridge EXCEPT ![b] = [bridge[b] EXCEPT !.pc = "idle", !.holding = TRUE]]
    BY DEF WinLease, TypeOK
  <2>2. bridge[b] \in Bridge
    BY DEF TypeOK
  <2>3. [bridge[b] EXCEPT !.pc = "idle", !.holding = TRUE] \in Bridge
    BY <2>2, Zenon DEF Bridge
  <2> QED  BY <2>1, <2>3 DEF TypeOK
<1>3. BoardTypeOK' /\ locks' = locks
  <2>1. CASE TakeClaim(b, Lease)
    BY <1>1, <2>1, TakeClaimTyped DEF TakeClaim
  <2>2. CASE UNCHANGED board
    BY <1>1, <2>2 DEF board, BoardTypeOK
  <2> QED  BY <2>1, <2>2 DEF WinLease
<1> QED  BY <1>2, <1>3

LEMMA LoseLeaseTyped ==
  ASSUME TypeOK, NEW b \in Agents, NEW pc \in {"idle", "lost"},
         NEW owner \in Agents \cup {NoAgent}, LoseLease(b, pc, owner)
  PROVE  BoardTypeOK' /\ locks' = locks /\ bridge' \in [Agents -> Bridge]
<1>1. bridge' \in [Agents -> Bridge]
  BY GotoTyped DEF LoseLease
<1>2. BoardTypeOK' /\ locks' = locks
  BY DEF LoseLease, board, TypeOK, BoardTypeOK
<1> QED  BY <1>1, <1>2

LEMMA DecidedTyped ==
  ASSUME TypeOK, NEW b \in Agents, NEW e \in bridge[b].survey, Decided(b, e)
  PROVE  bridge' \in [Agents -> Bridge]
<1>1. bridge[b] \in Bridge /\ bridge \in [Agents -> Bridge]
  BY DEF TypeOK
<1> DEFINE pc == IF bridge[b].survey = {e} THEN "idle" ELSE bridge[b].pc
           n  == IF bridge[b].survey = {e} THEN 0 ELSE bridge[b].elapsed
           s  == bridge[b].survey \ {e}
<1>2. pc \in {"idle", "lost", "breaking", "retrying", "sweeping"} /\ n \in 0 .. MaxSweep /\ s \in SUBSET Entry
  BY <1>1, ReaperAssumption DEF Bridge
<1>3. bridge' = [bridge EXCEPT ![b] = [bridge[b] EXCEPT !.survey = s, !.pc = pc, !.elapsed = n]]
  BY <1>1 DEF Decided
<1> HIDE DEF pc, n, s
<1>4. [bridge[b] EXCEPT !.survey = s, !.pc = pc, !.elapsed = n] \in Bridge
  BY <1>1, <1>2 DEF Bridge
<1> QED  BY <1>1, <1>3, <1>4

LEMMA FaultTyped ==
  ASSUME TypeOK, Fault
  PROVE  faults' \in 0 .. MaxFaults
BY ReaperAssumption DEF TypeOK, Fault

LEMMA TypeStep ==
  ASSUME TypeOK, Next
  PROVE  TypeOK'
<1> USE ReaperAssumption DEF Horizon, Never, Unknown
<1>0. BoardTypeOK /\ Lease \in Tasks
  BY DEF TypeOK, BoardTypeOK
<1>1. CASE Advance
  <2>1. \A n \in {Unknown, Never} \cup 0 .. Horizon : Later(n) \in {Unknown, Never} \cup 0 .. Horizon
    BY DEF Later
  <2>2. \A n \in 0 .. Horizon : Later(n) \in 0 .. Horizon
    BY DEF Later
  <2>3. age' \in [Tasks -> 0 .. Horizon] /\ silent' \in [Agents -> {Unknown, Never} \cup 0 .. Horizon]
    BY <1>1, <2>1, <2>2 DEF Advance, TypeOK
  <2>4. bridge' \in [Agents -> Bridge]
    <3>1. ASSUME NEW b \in Agents
          PROVE  (IF bridge[b].pc = "sweeping" THEN [bridge[b] EXCEPT !.elapsed = @ + 1]
                                              ELSE bridge[b]) \in Bridge
      <4>1. bridge[b] \in Bridge
        BY DEF TypeOK
      <4>2. CASE bridge[b].pc = "sweeping"
        <5>1. bridge[b].elapsed < MaxSweep
          BY <1>1, <4>2 DEF Advance
        <5>2. bridge[b].elapsed + 1 \in 0 .. MaxSweep
          BY <4>1, <5>1 DEF Bridge
        <5> QED  BY <4>1, <4>2, <5>2 DEF Bridge
      <4> QED  BY <4>1, <4>2
    <3> QED  BY <1>1, <3>1 DEF Advance
  <2> QED  BY <1>1, <2>3, <2>4 DEF Advance, TypeOK, board
<1>2. ASSUME NEW a \in Agents, Beat(a)
      PROVE  TypeOK'
  BY <1>2 DEF Beat, TypeOK, board
<1>3. ASSUME NEW a \in Agents, Step(a)
      PROVE  TypeOK'
  <2>1. CASE TryAcquire(a)
    BY <1>0, <2>1, WinLeaseTyped, LoseLeaseTyped DEF TryAcquire, TypeOK, BoardTypeOK, clock
  <2>2. CASE ReadPresence(a)
    <3>1. CASE Dead(bridge[a].owner)
      <4>1. bridge' \in [Agents -> Bridge]
        BY <2>2, <3>1 DEF ReadPresence, TypeOK, Bridge
      <4> QED  BY <2>2, <4>1 DEF ReadPresence, TypeOK, board, clock
    <3>2. CASE ~Dead(bridge[a].owner)
      <4>1. bridge' \in [Agents -> Bridge]
        BY <2>2, <3>2, GotoTyped DEF ReadPresence, Goto
      <4> QED  BY <2>2, <4>1 DEF ReadPresence, TypeOK, board, clock
    <3> QED  BY <3>1, <3>2
  <2>3. CASE BreakLease(a)
    <3>1. bridge' \in [Agents -> Bridge]
      BY <2>3, GotoTyped DEF BreakLease, Goto
    <3> QED  BY <1>0, <2>3, <3>1, ReapClaimEffect DEF BreakLease, TypeOK, BoardTypeOK
  <2>4. CASE RetryAcquire(a)
    BY <1>0, <2>4, WinLeaseTyped, LoseLeaseTyped DEF RetryAcquire, TypeOK, BoardTypeOK, clock
  <2>5. CASE RefusedRevoked(a)
    <3>1. bridge' \in [Agents -> Bridge]
      BY <2>5, GotoTyped DEF RefusedRevoked, Goto
    <3> QED  BY <2>5, <3>1 DEF RefusedRevoked, TypeOK, board, clock
  <2>6. CASE Survey(a)
    <3>1. bridge' \in [Agents -> Bridge]
      <4> DEFINE seen == {[task |-> t, agent |-> claims[t], quiet |-> Quiet(t)] : t \in Examined}
      <4>1. seen \in SUBSET Entry
        BY SurveyTyped
      <4>2. bridge' = [bridge EXCEPT ![a].pc = "sweeping", ![a].survey = seen]
        BY <2>6 DEF Survey
      <4> HIDE DEF seen
      <4>3. \A r \in Bridge : [r EXCEPT !.pc = "sweeping", !.survey = seen] \in Bridge
        BY <4>1 DEF Bridge
      <4>4. bridge' = [bridge EXCEPT ![a] = [bridge[a] EXCEPT !.pc = "sweeping", !.survey = seen]]
        BY <4>2
      <4> QED  BY <4>3, <4>4 DEF TypeOK
    <3> QED  BY <2>6, <3>1 DEF Survey, TypeOK, board, clock
  <2>7. ASSUME NEW e \in bridge[a].survey, Decide(a, e)
        PROVE  TypeOK'
    <3>1. bridge' \in [Agents -> Bridge]
      BY <2>7, DecidedTyped DEF Decide
    <3>2. e.task \in Tasks
      BY DEF TypeOK, Bridge, Entry
    <3>3. CASE Overdue(a, e)
      BY <2>7, <3>1, <3>2, <3>3, ReapClaimEffect DEF Decide, TypeOK, BoardTypeOK
    <3>4. CASE ~Overdue(a, e)
      BY <2>7, <3>1, <3>4 DEF Decide, TypeOK, board
    <3> QED  BY <3>3, <3>4
  <2> QED  BY <1>3, <2>1, <2>2, <2>3, <2>4, <2>5, <2>6, <2>7 DEF Step
<1>4. ASSUME NEW a \in Agents, Revoke(a)
      PROVE  TypeOK'
  BY <1>4, FaultTyped DEF Revoke, TypeOK, board, clock
<1>5. ASSUME NEW a \in Agents, Crash(a) \/ Start(a)
      PROVE  TypeOK'
  <2>1. Asleep \in Bridge
    BY DEF Asleep, Bridge
  <2> QED  BY <1>5, <2>1, BridgeTyped DEF Crash, Start, TypeOK, board, clock
<1>6. ASSUME NEW a \in Agents, Stop(a)
      PROVE  TypeOK'
  <2>1. CASE ReapClaim(Lease, a)
    BY <1>0, <1>6, <2>1, ReapClaimEffect DEF Stop, TypeOK, BoardTypeOK
  <2>2. CASE UNCHANGED <<board, age>>
    BY <1>6, <2>2 DEF Stop, TypeOK, board
  <2> QED  BY <1>6, <2>1, <2>2 DEF Stop
<1>7. ASSUME NEW a \in Agents, NEW t \in Tasks, Claim(a, t)
      PROVE  TypeOK'
  BY <1>0, <1>7, TakeClaimTyped DEF Claim, TakeClaim, TypeOK, BoardTypeOK, clock
<1>8. ASSUME NEW a \in Agents, NEW t \in Tasks, ReleaseOwn(a, t)
      PROVE  TypeOK'
  <2>1. age' \in [Tasks -> 0 .. Horizon]
    BY <1>8 DEF ReleaseOwn, Forget, TypeOK
  <2> QED  BY <1>0, <1>8, <2>1, EndClaimTyped DEF ReleaseOwn, EndClaim, TypeOK, BoardTypeOK
<1>9. ASSUME NEW kind \in Reports, NEW t \in Tasks, MoveCard(kind, t)
      PROVE  TypeOK'
  BY <1>0, <1>9, ReportTyped DEF MoveCard, Report, TypeOK, BoardTypeOK, clock
<1>10. ASSUME NEW b \in Agents, TickFails(b)
       PROVE  TypeOK'
  <2>1. bridge' \in [Agents -> Bridge]
    BY <1>10, GotoTyped DEF TickFails, Goto
  <2> QED  BY <1>10, <2>1, FaultTyped DEF TickFails, TypeOK, board, clock
<1>11. ASSUME NEW b \in Agents, LeaseAnswerLost(b)
       PROVE  TypeOK'
  BY <1>0, <1>11, FaultTyped, TakeClaimTyped DEF LeaseAnswerLost, TakeClaim, TypeOK, BoardTypeOK, clock
<1>12. ASSUME NEW b \in Agents, NEW e \in bridge[b].survey, ReleaseFails(b, e)
       PROVE  TypeOK'
  BY <1>12, FaultTyped, DecidedTyped DEF ReleaseFails, TypeOK, board, clock
<1> QED
  BY <1>1, <1>2, <1>3, <1>4, <1>5, <1>6, <1>7, <1>8, <1>9, <1>10, <1>11, <1>12 DEF Next

(* Every variable of the reaper's model always has its type.               *)
THEOREM ReaperTypeCorrect == Spec => []TypeOK
<1>1. TypeOK /\ [Next]_vars => TypeOK'
  <2>1. TypeOK /\ UNCHANGED vars => TypeOK'
    BY DEF TypeOK, vars, board, clock
  <2> QED  BY <2>1, TypeStep
<1> QED  BY TypeInit, <1>1, PTL DEF Spec

-----------------------------------------------------------------------------
(* The invariant behind both safety properties.  A bridge of Fresh was     *)
(* heard from within the last unit at every moment; any other steady one   *)
(* was so from the first unit on, and until then nothing was claimed long  *)
(* ago.  So no bridge makes up its mind to break the lease of a Fresh one, *)
(* and no survey holds a steady agent's claim that could fall due before   *)
(* the sweep ends.                                                         *)

FreshHeard == \A b \in Fresh : silent[b] \in {0, 1}

SteadyHeard ==
  \/ \A b \in Steady : silent[b] \in {0, 1}
  \/ \A t \in Tasks \ {Lease} : age[t] = 0

BreaksNoFresh == \A x \in Agents : bridge[x].pc = "breaking" => bridge[x].owner \notin Fresh

Protected(t, a) == a \in Steady /\ (t # Lease \/ a \in Fresh)

SparesProtected ==
  \A x \in Agents : \A e \in bridge[x].survey : Protected(e.task, e.agent) => e.quiet =< 1

ReaperInv == FreshHeard /\ SteadyHeard /\ BreaksNoFresh /\ SparesProtected /\ LeaseKept

LEMMA ReaperInvInit == Init => ReaperInv
<1> SUFFICES ASSUME Init PROVE ReaperInv
  OBVIOUS
<1>1. FreshHeard /\ BreaksNoFresh /\ SparesProtected /\ LeaseKept
  BY ReaperAssumption DEF Init, Asleep, FreshHeard, BreaksNoFresh, SparesProtected, LeaseKept
<1>2. SteadyHeard
  BY DEF Init, SteadyHeard
<1> QED  BY <1>1, <1>2 DEF ReaperInv

\* A protected claim looks young to a survey.
LEMMA ProtectedIsQuick ==
  ASSUME TypeOK, ReaperInv, NEW t \in Examined, Protected(t, claims[t])
  PROVE  Quiet(t) =< 1
<1> USE ReaperAssumption DEF Horizon, Never, Unknown
<1> DEFINE a == claims[t]
<1>1. t \in Tasks /\ a \in Agents /\ a \in Steady /\ a \notin revoked
  BY QuietTyped DEF Protected, TypeOK
<1>2. age[t] \in 0 .. Horizon /\ silent[a] \in {Unknown, Never} \cup 0 .. Horizon
  BY <1>1 DEF TypeOK
<1>3. silent[a] \in {0, 1} \/ age[t] = 0
  BY <1>1 DEF Protected, ReaperInv, FreshHeard, SteadyHeard
<1> QED  BY <1>1, <1>2, <1>3 DEF Quiet, Lesser

\* Before the sweep is over it is not due.
LEMMA ProtectedNotOverdue ==
  ASSUME TypeOK, ReaperInv, NEW x \in Agents, NEW e \in bridge[x].survey,
         Protected(e.task, e.agent)
  PROVE  ~Overdue(x, e)
<1> USE ReaperAssumption DEF Horizon
<1>1. e.quiet =< 1
  BY DEF ReaperInv, SparesProtected
<1>2. e \in Entry /\ bridge[x].elapsed \in 0 .. MaxSweep
  BY DEF TypeOK, Bridge
<1>3. e.quiet \in 0 .. Horizon
  BY <1>2 DEF Entry
<1> QED  BY <1>1, <1>2, <1>3 DEF Overdue

-----------------------------------------------------------------------------
(* One conjunct of the invariant after the other.                          *)

LEMMA HeardStep ==
  ASSUME TypeOK, ReaperInv, Next
  PROVE  FreshHeard' /\ SteadyHeard'
<1> USE ReaperAssumption DEF FreshHeard, SteadyHeard, ReaperInv
<1> DEFINE Same == silent' = silent
           Younger == \A t \in Tasks : age'[t] \in {0, age[t]}
<1>1. Same /\ Younger => FreshHeard' /\ SteadyHeard'
  OBVIOUS
<1>2. CASE Advance
  <2>1. \A b \in Steady : silent'[b] = 1
    BY <1>2 DEF Advance, TypeOK
  <2> QED  BY <2>1
<1>3. ASSUME NEW a \in Agents, Beat(a)
      PROVE  FreshHeard' /\ SteadyHeard'
  <2>1. silent' = [silent EXCEPT ![a] = 0] /\ age' = age
    BY <1>3 DEF Beat
  <2> QED  BY <2>1 DEF TypeOK
<1>4. ASSUME NEW t \in Tasks, NEW owner, ReapClaim(t, owner)
      PROVE  Younger
  BY <1>4, ReapClaimEffect
<1>5. ASSUME NEW a \in Agents, Step(a)
      PROVE  FreshHeard' /\ SteadyHeard'
  <2>1. CASE TryAcquire(a) \/ ReadPresence(a) \/ RetryAcquire(a) \/ RefusedRevoked(a) \/ Survey(a)
    BY <1>1, <2>1 DEF TryAcquire, ReadPresence, RetryAcquire, RefusedRevoked, Survey, clock
  <2>2. CASE BreakLease(a)
    BY <1>1, <1>4, <2>2 DEF BreakLease
  <2>3. ASSUME NEW e \in bridge[a].survey, Decide(a, e)
        PROVE  FreshHeard' /\ SteadyHeard'
    <3>1. e.task \in Tasks
      BY DEF TypeOK, Bridge, Entry
    <3> QED  BY <1>1, <1>4, <2>3, <3>1 DEF Decide
  <2> QED  BY <1>5, <2>1, <2>2, <2>3 DEF Step
<1>6. ASSUME NEW a \in Agents, Revoke(a) \/ Crash(a) \/ Start(a) \/ TickFails(a) \/ LeaseAnswerLost(a)
      PROVE  FreshHeard' /\ SteadyHeard'
  BY <1>1, <1>6 DEF Revoke, Crash, Start, TickFails, LeaseAnswerLost, clock
<1>7. ASSUME NEW a \in Agents, Stop(a)
      PROVE  FreshHeard' /\ SteadyHeard'
  BY <1>1, <1>4, <1>7 DEF Stop
<1>8. ASSUME NEW a \in Agents, NEW t \in Tasks, Claim(a, t)
      PROVE  FreshHeard' /\ SteadyHeard'
  BY <1>1, <1>8 DEF Claim, clock
<1>9. ASSUME NEW a \in Agents, NEW t \in Tasks, ReleaseOwn(a, t)
      PROVE  FreshHeard' /\ SteadyHeard'
  <2>1. age' = [age EXCEPT ![t] = 0] /\ silent' = silent /\ age \in [Tasks -> 0 .. Horizon]
    BY <1>9 DEF ReleaseOwn, Forget, TypeOK
  <2> QED  BY <1>1, <2>1
<1>10. ASSUME NEW kind \in Reports, NEW t \in Tasks, MoveCard(kind, t)
       PROVE  FreshHeard' /\ SteadyHeard'
  BY <1>1, <1>10 DEF MoveCard, clock
<1>11. ASSUME NEW b \in Agents, NEW e \in bridge[b].survey, ReleaseFails(b, e)
       PROVE  FreshHeard' /\ SteadyHeard'
  BY <1>1, <1>11 DEF ReleaseFails, clock
<1> QED
  BY <1>2, <1>3, <1>5, <1>6, <1>7, <1>8, <1>9, <1>10, <1>11 DEF Next

\* Nobody's mind is made up anew, and no survey grows.
Calm ==
  \A x \in Agents :
    /\ bridge'[x].survey \subseteq bridge[x].survey
    /\ bridge'[x].pc = "breaking" => bridge[x].pc = "breaking" /\ bridge'[x].owner = bridge[x].owner

LEMMA CalmStep ==
  ASSUME ReaperInv, Calm
  PROVE  BreaksNoFresh' /\ SparesProtected'
BY DEF Calm, ReaperInv, BreaksNoFresh, SparesProtected

LEMMA MindStep ==
  ASSUME TypeOK, ReaperInv, Next
  PROVE  BreaksNoFresh' /\ SparesProtected'
<1> USE DEF Calm
<1>0. bridge \in [Agents -> Bridge]
  BY DEF TypeOK
<1>1. ASSUME NEW a \in Agents, NEW pc \in {"idle", "lost", "retrying"}, NEW owner,
             bridge' = [bridge EXCEPT ![a].pc = pc, ![a].owner = owner]
      PROVE  Calm
  BY <1>0, <1>1
<1>2. ASSUME NEW a \in Agents, Goto(a, "idle") \/ Goto(a, "retrying")
      PROVE  Calm
  BY <1>1, <1>2 DEF Goto
<1>3. ASSUME NEW a \in Agents, WinLease(a)
      PROVE  Calm
  BY <1>0, <1>3 DEF WinLease
<1>4. ASSUME NEW a \in Agents, NEW e \in bridge[a].survey, Decided(a, e)
      PROVE  Calm
  <2> DEFINE pc == IF bridge[a].survey = {e} THEN "idle" ELSE bridge[a].pc
             n  == IF bridge[a].survey = {e} THEN 0 ELSE bridge[a].elapsed
  <2>1. bridge' = [bridge EXCEPT ![a].survey = bridge[a].survey \ {e}, ![a].pc = pc, ![a].elapsed = n]
    BY <1>0, <1>4 DEF Decided
  <2>2. pc = "breaking" => bridge[a].pc = "breaking"
    OBVIOUS
  <2> HIDE DEF pc, n
  <2> QED  BY <1>0, <2>1, <2>2
<1>5. CASE bridge' = bridge
  BY <1>5, CalmStep
<1>6. CASE Advance
  <2>1. Calm
    BY <1>0, <1>6 DEF Advance
  <2> QED  BY <2>1, CalmStep
<1>7. ASSUME NEW a \in Agents, Step(a)
      PROVE  BreaksNoFresh' /\ SparesProtected'
  <2>1. CASE TryAcquire(a)
    BY <1>1, <1>3, <2>1, CalmStep DEF TryAcquire, LoseLease
  <2>2. CASE ReadPresence(a)
    <3>1. CASE Dead(bridge[a].owner)
      <4>1. bridge[a].owner \notin Fresh
        BY <3>1, ReaperAssumption DEF Dead, ReaperInv, FreshHeard
      <4>2. bridge' = [bridge EXCEPT ![a].pc = "breaking"]
        BY <2>2, <3>1 DEF ReadPresence
      <4>3. \A x \in Agents : bridge'[x].survey = bridge[x].survey
                             /\ bridge'[x].owner = bridge[x].owner
                             /\ (x # a => bridge'[x].pc = bridge[x].pc)
        BY <1>0, <4>2
      <4> QED  BY <4>1, <4>3 DEF ReaperInv, BreaksNoFresh, SparesProtected
    <3>2. CASE ~Dead(bridge[a].owner)
      BY <1>2, <2>2, <3>2, CalmStep DEF ReadPresence
    <3> QED  BY <3>1, <3>2
  <2>3. CASE BreakLease(a) \/ RefusedRevoked(a)
    BY <1>2, <2>3, CalmStep DEF BreakLease, RefusedRevoked
  <2>4. CASE RetryAcquire(a)
    BY <1>1, <1>3, <2>4, CalmStep DEF RetryAcquire, LoseLease
  <2>5. CASE Survey(a)
    <3> DEFINE seen == {[task |-> t, agent |-> claims[t], quiet |-> Quiet(t)] : t \in Examined}
    <3>1. \A e \in seen : Protected(e.task, e.agent) => e.quiet =< 1
      BY ProtectedIsQuick
    <3>2. bridge' = [bridge EXCEPT ![a].pc = "sweeping", ![a].survey = seen]
      BY <2>5 DEF Survey
    <3> HIDE DEF seen
    <3>3. /\ \A x \in Agents : bridge'[x].pc = "breaking" =>
               bridge[x].pc = "breaking" /\ bridge'[x].owner = bridge[x].owner
          /\ \A x \in Agents : bridge'[x].survey \in {bridge[x].survey, seen}
      BY <1>0, <3>2
    <3> QED  BY <3>1, <3>3 DEF ReaperInv, BreaksNoFresh, SparesProtected
  <2>6. ASSUME NEW e \in bridge[a].survey, Decide(a, e)
        PROVE  BreaksNoFresh' /\ SparesProtected'
    BY <1>4, <2>6, CalmStep DEF Decide
  <2> QED  BY <1>7, <2>1, <2>2, <2>3, <2>4, <2>5, <2>6 DEF Step
<1>8. ASSUME NEW a \in Agents, Crash(a) \/ Start(a)
      PROVE  BreaksNoFresh' /\ SparesProtected'
  <2>1. Calm
    BY <1>0, <1>8 DEF Crash, Start, Asleep
  <2> QED  BY <2>1, CalmStep
<1>9. ASSUME NEW a \in Agents, TickFails(a)
      PROVE  BreaksNoFresh' /\ SparesProtected'
  BY <1>2, <1>9, CalmStep DEF TickFails
<1>10. ASSUME NEW a \in Agents, NEW e \in bridge[a].survey, ReleaseFails(a, e)
       PROVE  BreaksNoFresh' /\ SparesProtected'
  BY <1>4, <1>10, CalmStep DEF ReleaseFails
<1>11. ASSUME NEW a \in Agents, Beat(a) \/ Revoke(a) \/ Stop(a) \/ LeaseAnswerLost(a)
       PROVE  bridge' = bridge
  BY <1>11 DEF Beat, Revoke, Stop, LeaseAnswerLost
<1>12. ASSUME NEW a \in Agents, NEW t \in Tasks, Claim(a, t) \/ ReleaseOwn(a, t)
       PROVE  bridge' = bridge
  BY <1>12 DEF Claim, ReleaseOwn
<1>13. ASSUME NEW kind \in Reports, NEW t \in Tasks, MoveCard(kind, t)
       PROVE  bridge' = bridge
  BY <1>13 DEF MoveCard
<1> QED
  BY <1>5, <1>6, <1>7, <1>8, <1>9, <1>10, <1>11, <1>12, <1>13 DEF Next

\* A protected claim ends by its holder's own release, or not at all.
ProtectedStays ==
  \A t \in Tasks :
    Protected(t, claims[t]) /\ claims'[t] # claims[t] => t # Lease /\ ReleaseOwn(claims[t], t)

LEMMA ProtectedStep ==
  ASSUME TypeOK, ReaperInv, Next
  PROVE  ProtectedStays
<1> USE ReaperAssumption, NoAgentAssumption DEF ProtectedStays
<1>0. claims \in [Tasks -> Agents \cup {NoAgent}]
  BY DEF TypeOK
<1>1. ASSUME UNCHANGED board
      PROVE  ProtectedStays
  BY <1>1 DEF board
<1>2. ASSUME NEW a \in Agents, NEW t \in Tasks, TakeClaim(a, t)
      PROVE  ProtectedStays
  BY <1>0, <1>2 DEF TakeClaim, Protected
<1>3. ASSUME NEW t \in Tasks, NEW owner, ~Protected(t, owner), ReapClaim(t, owner)
      PROVE  ProtectedStays
  BY <1>3, ReapClaimEffect
<1>4. ASSUME NEW a \in Agents, Step(a)
      PROVE  ProtectedStays
  <2>1. CASE TryAcquire(a) \/ RetryAcquire(a)
    BY <1>1, <1>2, <2>1 DEF TryAcquire, RetryAcquire, WinLease, LoseLease
  <2>2. CASE ReadPresence(a) \/ RefusedRevoked(a) \/ Survey(a)
    BY <1>1, <2>2 DEF ReadPresence, RefusedRevoked, Survey
  <2>3. CASE BreakLease(a)
    <3>1. ~Protected(Lease, bridge[a].owner)
      BY <2>3 DEF BreakLease, ReaperInv, BreaksNoFresh, Protected
    <3> QED  BY <1>3, <2>3, <3>1 DEF BreakLease
  <2>4. ASSUME NEW e \in bridge[a].survey, Decide(a, e)
        PROVE  ProtectedStays
    <3>1. e.task \in Tasks
      BY DEF TypeOK, Bridge, Entry
    <3>2. CASE Overdue(a, e)
      <4>1. ~Protected(e.task, e.agent)
        BY <3>2, ProtectedNotOverdue
      <4> QED  BY <1>3, <2>4, <3>1, <3>2, <4>1 DEF Decide
    <3>3. CASE ~Overdue(a, e)
      BY <1>1, <2>4, <3>3 DEF Decide
    <3> QED  BY <3>2, <3>3
  <2> QED  BY <1>4, <2>1, <2>2, <2>3, <2>4 DEF Step
<1>5. ASSUME NEW a \in Agents, Stop(a)
      PROVE  ProtectedStays
  <2>1. ~Protected(Lease, a)
    BY <1>5 DEF Stop, Protected
  <2> QED  BY <1>1, <1>3, <1>5, <2>1 DEF Stop
<1>6. ASSUME NEW a \in Agents, NEW t \in Tasks, ReleaseOwn(a, t)
      PROVE  ProtectedStays
  <2>1. claims[t] = a /\ t # Lease /\ claims' = [claims EXCEPT ![t] = NoAgent]
    BY <1>6 DEF ReleaseOwn, EndClaim
  <2>2. \A s \in Tasks : claims'[s] # claims[s] => s = t
    BY <1>0, <2>1
  <2> QED  BY <1>6, <2>1, <2>2
<1>7. ASSUME NEW a \in Agents, NEW t \in Tasks, Claim(a, t)
      PROVE  ProtectedStays
  BY <1>2, <1>7 DEF Claim
<1>8. ASSUME NEW a \in Agents, LeaseAnswerLost(a)
      PROVE  ProtectedStays
  BY <1>2, <1>8 DEF LeaseAnswerLost
<1>9. ASSUME NEW kind \in Reports, NEW t \in Tasks, MoveCard(kind, t)
      PROVE  ProtectedStays
  BY <1>9 DEF MoveCard, Report
<1>10. CASE Advance
  BY <1>1, <1>10 DEF Advance
<1>11. ASSUME NEW a \in Agents, Beat(a) \/ Revoke(a) \/ Crash(a) \/ Start(a) \/ TickFails(a)
       PROVE  ProtectedStays
  BY <1>1, <1>11 DEF Beat, Revoke, Crash, Start, TickFails
<1>12. ASSUME NEW a \in Agents, NEW e \in bridge[a].survey, ReleaseFails(a, e)
       PROVE  ProtectedStays
  BY <1>1, <1>12 DEF ReleaseFails
<1> QED
  BY <1>4, <1>5, <1>6, <1>7, <1>8, <1>9, <1>10, <1>11, <1>12 DEF Next

\* A bridge comes to believe it holds the lease only by winning it.
LEMMA BeliefStep ==
  ASSUME TypeOK, Next, NEW f \in Agents, bridge'[f].holding, ~bridge[f].holding
  PROVE  claims'[Lease] = f
<1> USE ReaperAssumption
<1>0. bridge \in [Agents -> Bridge] /\ claims \in [Tasks -> Agents \cup {NoAgent}]
  BY DEF TypeOK
<1>1. ASSUME NEW b \in Agents, WinLease(b)
      PROVE  claims'[Lease] = f
  <2>1. b = f
    BY <1>0, <1>1 DEF WinLease
  <2> QED  BY <1>0, <1>1, <2>1 DEF WinLease, TakeClaim, board
<1>2. ASSUME NEW b \in Agents, NEW pc, NEW owner, LoseLease(b, pc, owner)
      PROVE  FALSE
  BY <1>0, <1>2 DEF LoseLease
<1>3. ASSUME NEW b \in Agents, NEW pc, Goto(b, pc)
      PROVE  FALSE
  BY <1>0, <1>3 DEF Goto
<1>4. ASSUME NEW b \in Agents, NEW e \in bridge[b].survey, Decided(b, e)
      PROVE  FALSE
  <2> DEFINE pc == IF bridge[b].survey = {e} THEN "idle" ELSE bridge[b].pc
             n  == IF bridge[b].survey = {e} THEN 0 ELSE bridge[b].elapsed
  <2>1. bridge' = [bridge EXCEPT ![b].survey = bridge[b].survey \ {e}, ![b].pc = pc, ![b].elapsed = n]
    BY <1>0, <1>4 DEF Decided
  <2> HIDE DEF pc, n
  <2> QED  BY <1>0, <2>1
<1>5. ASSUME NEW a \in Agents, Step(a)
      PROVE  claims'[Lease] = f
  <2>1. CASE TryAcquire(a) \/ RetryAcquire(a)
    BY <1>1, <1>2, <2>1 DEF TryAcquire, RetryAcquire
  <2>2. CASE ReadPresence(a)
    <3>1. bridge' = [bridge EXCEPT ![a].pc = "breaking"] => FALSE
      BY <1>0
    <3> QED  BY <1>3, <2>2, <3>1 DEF ReadPresence
  <2>3. CASE BreakLease(a) \/ RefusedRevoked(a)
    BY <1>3, <2>3 DEF BreakLease, RefusedRevoked
  <2>4. CASE Survey(a)
    BY <1>0, <2>4 DEF Survey
  <2>5. ASSUME NEW e \in bridge[a].survey, Decide(a, e)
        PROVE  FALSE
    BY <1>4, <2>5 DEF Decide
  <2> QED  BY <1>5, <2>1, <2>2, <2>3, <2>4, <2>5 DEF Step
<1>6. CASE Advance
  BY <1>0, <1>6 DEF Advance
<1>7. ASSUME NEW a \in Agents, Crash(a) \/ Start(a)
      PROVE  FALSE
  BY <1>0, <1>7 DEF Crash, Start, Asleep
<1>8. ASSUME NEW a \in Agents, TickFails(a)
      PROVE  FALSE
  BY <1>3, <1>8 DEF TickFails
<1>9. ASSUME NEW a \in Agents, NEW e \in bridge[a].survey, ReleaseFails(a, e)
      PROVE  FALSE
  BY <1>4, <1>9 DEF ReleaseFails
<1>10. ASSUME NEW a \in Agents, Beat(a) \/ Revoke(a) \/ Stop(a) \/ LeaseAnswerLost(a)
       PROVE  FALSE
  BY <1>10 DEF Beat, Revoke, Stop, LeaseAnswerLost
<1>11. ASSUME NEW a \in Agents, NEW t \in Tasks, Claim(a, t) \/ ReleaseOwn(a, t)
       PROVE  FALSE
  BY <1>11 DEF Claim, ReleaseOwn
<1>12. ASSUME NEW kind \in Reports, NEW t \in Tasks, MoveCard(kind, t)
       PROVE  FALSE
  BY <1>12 DEF MoveCard
<1> QED
  BY <1>5, <1>6, <1>7, <1>8, <1>9, <1>10, <1>11, <1>12 DEF Next

LEMMA ReaperInvStep ==
  ASSUME TypeOK, ReaperInv, [Next]_vars
  PROVE  ReaperInv'
<1>1. CASE Next
  <2>1. FreshHeard' /\ SteadyHeard' /\ BreaksNoFresh' /\ SparesProtected'
    BY <1>1, HeardStep, MindStep
  <2>2. LeaseKept'
    <3> SUFFICES ASSUME NEW b \in Fresh, bridge'[b].holding
                 PROVE  claims'[Lease] = b
      BY DEF LeaseKept
    <3>1. b \in Agents /\ b \in Steady /\ Lease \in Tasks
      BY ReaperAssumption
    <3>2. CASE bridge[b].holding
      <4>1. claims[Lease] = b
        BY <3>2 DEF ReaperInv, LeaseKept
      <4>2. Protected(Lease, claims[Lease])
        BY <3>1, <4>1 DEF Protected
      <4>3. ProtectedStays
        BY <1>1, ProtectedStep
      <4> QED  BY <3>1, <4>1, <4>2, <4>3 DEF ProtectedStays
    <3>3. CASE ~bridge[b].holding
      BY <1>1, <3>1, <3>3, BeliefStep
    <3> QED  BY <3>2, <3>3
  <2> QED  BY <2>1, <2>2 DEF ReaperInv
<1>2. CASE UNCHANGED vars
  BY <1>2 DEF vars, board, clock, ReaperInv, FreshHeard, SteadyHeard, BreaksNoFresh,
              SparesProtected, LeaseKept
<1> QED  BY <1>1, <1>2

LEMMA ReaperInvHolds == Spec => []ReaperInv
<1>1. TypeOK /\ ReaperInv /\ [Next]_vars => ReaperInv'
  BY ReaperInvStep
<1> QED  BY ReaperInvInit, ReaperTypeCorrect, <1>1, PTL DEF Spec

-----------------------------------------------------------------------------
(* Of any number of bridges that were beating before they started, the one *)
(* that believes it holds the lease holds it: tryAcquire never breaks the  *)
(* lease of a live one, nor does a sweep reap it (cli/bridge.ts 491-578).  *)
THEOREM LeaseAlwaysKept == Spec => []LeaseKept
<1>1. ReaperInv => LeaseKept
  BY DEF ReaperInv
<1> QED  BY ReaperInvHolds, <1>1, PTL

(* An agent whose bridge keeps beating keeps its tasks, however many       *)
(* bridges sweep and whatever their surveys saw (firebase/reaper.ts        *)
(* 62-148).                                                                *)
THEOREM WorkersKeepTheirClaims == Spec => WorkingAgentKeepsClaim
<1>1. TypeOK /\ ReaperInv /\ [Next]_vars =>
        [\A t \in Tasks \ {Lease} :
           claims[t] \in Steady /\ claims'[t] # claims[t] => ReleaseOwn(claims[t], t)]_vars
  <2> SUFFICES ASSUME TypeOK, ReaperInv, Next
               PROVE  \A t \in Tasks \ {Lease} :
                        claims[t] \in Steady /\ claims'[t] # claims[t] => ReleaseOwn(claims[t], t)
    OBVIOUS
  <2>1. ProtectedStays
    BY ProtectedStep
  <2> QED  BY <2>1 DEF ProtectedStays, Protected
<1> QED  BY ReaperInvHolds, ReaperTypeCorrect, <1>1, PTL DEF Spec, WorkingAgentKeepsClaim

-----------------------------------------------------------------------------
LEMMA ReapMoves ==
  ASSUME NEW t \in Tasks, NEW owner, ReapClaim(t, owner)
  PROVE  [BoardNext]_board
BY DEF ReapClaim, BoardNext

LEMMA LeaseMoves ==
  ASSUME NEW b \in Agents, WinLease(b)
  PROVE  [BoardNext]_board
BY ReaperAssumption DEF WinLease, BoardNext

LEMMA TickMoves ==
  ASSUME TypeOK, NEW b \in Agents, Step(b)
  PROVE  [BoardNext]_board
<1>1. TryAcquire(b) \/ RetryAcquire(b) => [BoardNext]_board
  BY LeaseMoves DEF TryAcquire, RetryAcquire, LoseLease
<1>2. BreakLease(b) => [BoardNext]_board
  BY ReapMoves, ReaperAssumption DEF BreakLease
<1>3. ASSUME NEW e \in bridge[b].survey, Decide(b, e)
      PROVE  [BoardNext]_board
  <2>1. e.task \in Tasks
    BY DEF TypeOK, Bridge, Entry
  <2> QED  BY <1>3, <2>1, ReapMoves DEF Decide
<1>4. ReadPresence(b) \/ RefusedRevoked(b) \/ Survey(b) => UNCHANGED board
  BY DEF ReadPresence, RefusedRevoked, Survey
<1> QED  BY <1>1, <1>2, <1>3, <1>4 DEF Step

(* The reaper has no way around the board: taking and breaking its lease   *)
(* and every release are operations any agent or member may do, and every  *)
(* step does one of them at most (reapClaim, claimTask).                   *)
THEOREM ReaperKeepsToTheBoard == Spec => [][BoardNext]_board
<1>1. TypeOK /\ [Next]_vars => [BoardNext]_board
  <2> SUFFICES ASSUME TypeOK, [Next]_vars
               PROVE  [BoardNext]_board
    OBVIOUS
  <2>1. ASSUME NEW a \in Agents,
               Beat(a) \/ Step(a) \/ Revoke(a) \/ Crash(a) \/ Stop(a) \/ Start(a)
        PROVE  [BoardNext]_board
    BY <2>1, TickMoves, ReapMoves, ReaperAssumption DEF Beat, Revoke, Crash, Stop, Start
  <2>2. ASSUME NEW a \in Agents, NEW t \in Tasks, Claim(a, t) \/ ReleaseOwn(a, t)
        PROVE  BoardNext
    BY <2>2 DEF Claim, ReleaseOwn, BoardNext
  <2>3. ASSUME NEW kind \in Reports, NEW t \in Tasks, MoveCard(kind, t)
        PROVE  BoardNext
    <3>1. kind \in Kinds
      BY ReaperAssumption DEF Kinds, BoardKinds
    <3> QED  BY <2>3, <3>1 DEF MoveCard, BoardNext
  <2>4. ASSUME NEW b \in Agents,
               \/ TickFails(b) \/ LeaseAnswerLost(b)
               \/ \E e \in bridge[b].survey : ReleaseFails(b, e)
        PROVE  [BoardNext]_board
    BY <2>4, ReaperAssumption DEF TickFails, LeaseAnswerLost, ReleaseFails, BoardNext
  <2>5. CASE Advance \/ UNCHANGED vars
    BY <2>5 DEF Advance, vars
  <2> QED  BY <2>1, <2>2, <2>3, <2>4, <2>5 DEF Next
<1> QED  BY <1>1, ReaperTypeCorrect, PTL DEF Spec
=============================================================================
