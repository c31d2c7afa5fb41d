---------------------------- MODULE OutboxProofs ----------------------------
(***************************************************************************)
(* The safety of the outbox for any number of drains, lines and faults.    *)
(* Two facts are assumed: the cursor starts where the file does, and       *)
(* agents end the lines they write.  OneEventPerLine fails without either: *)
(* an unfinished last line is counted one unit too long, so the cursor     *)
(* ends past the file just as when the file was replaced by a shorter one. *)
(*                                                                         *)
(* The invariant: whatever a drain has in hand, every line before it is    *)
(* settled, or in hand as well.                                            *)
(***************************************************************************)
EXTENDS Outbox, FiniteSetTheorems, SequenceTheorems, WellFoundedInduction, TLAPS

WholeLinesFromZero ==
  /\ StartCursor = 0
  /\ \A w \in Writes : \E text \in Texts : w = <<text, NL>>

-----------------------------------------------------------------------------
(* The parts of the invariant.                                             *)

\* Texts and newlines alternate, and the last line has its newline.
Terminated(f) ==
  /\ Len(f) % 2 = 0
  /\ \A i \in 1 .. Len(f) : f[i] = NL <=> i % 2 = 0

LinesTerminated == Terminated(file)

\* A cursor that some drain read, or that is on disk.
AtLineStart(c) == c % 2 = 0 /\ c =< Len(file)

Covered(c) == \A line \in Lines : line.at < c => Settled(line)

CursorOK == AtLineStart(cursor) /\ CursorTrailsPublish

\* The spool files are the ones the agent wrote.
FromSpool(rec) ==
  \E n \in 1 .. Len(spooled) : rec = Spooled(n, spooled[n])

SpoolOK == \A rec \in spool : FromSpool(rec)

\* What a drain has in hand is in the file or was in the spool, and every line
\* before one in hand is settled or in hand as well.
HandOK(todo) ==
  /\ \A rec \in todo : rec \in Lines \/ (FromSpool(rec) /\ rec.text \notin Malformed)
  /\ \A rec \in todo : rec.from = "jsonl" =>
       \A line \in Lines : line.at < rec.at => Settled(line) \/ line \in todo

DrainOK(d) ==
  /\ drain[d].phase = "reading" => AtLineStart(drain[d].cursor) /\ Covered(drain[d].cursor)
  /\ HandOK(drain[d].todo)
  /\ drain[d].phase = "saving" => Settled(Rec(d))

\* The events of outbox.jsonl are lines of it.
LedgerOK ==
  \A i \in 1 .. Len(ledger) : ledger[i].from = "jsonl" =>
    \E line \in Lines : ledger[i] = Key(line)

OutboxInv ==
  /\ TypeOK /\ LinesTerminated /\ CursorOK /\ SpoolOK
  /\ \A d \in Drains : DrainOK(d)
  /\ LedgerOK /\ LinesInOrder /\ SpoolKept
-----------------------------------------------------------------------------
(* The lines of a file.                                                    *)

\* An even number changes no parity.
LEMMA EvenSum ==
  ASSUME NEW m \in Int, NEW n \in Int, m % 2 = 0
  PROVE  (m + n) % 2 = n % 2 /\ (n - m) % 2 = n % 2
OBVIOUS

\* In a file of whole lines, the lines are the texts at odd places.
LEMMA LinesIn ==
  ASSUME NEW f \in Seq(Texts \cup {NL}), Terminated(f), NEW line
  PROVE  line \in LinesOf(f, 0) <=>
           \E i \in 1 .. Len(f) :
             i % 2 = 1 /\ f[i] \notin Malformed /\ line = Line(i - 1, 2, f[i])
<1>1. ASSUME NEW i \in 1 .. Len(f)
      PROVE  f[i] # NL /\ AloneOnLine(f, i) <=> i % 2 = 1
  BY DEF Terminated, AloneOnLine
<1> QED
  BY <1>1 DEF LinesOf

LEMMA LinesAre ==
  ASSUME TypeOK, LinesTerminated, NEW line
  PROVE  line \in Lines <=>
           \E i \in 1 .. Len(file) :
             i % 2 = 1 /\ file[i] \notin Malformed /\ line = Line(i - 1, 2, file[i])
BY LinesIn DEF TypeOK, LinesTerminated, Lines

\* What every line is.
LEMMA LineFacts ==
  ASSUME TypeOK, LinesTerminated, NEW line \in Lines
  PROVE  /\ line \in Record /\ line.from = "jsonl" /\ line.length = 2
         /\ line.at % 2 = 0 /\ line.at < Len(file)
         /\ line.text \notin Malformed
         /\ \A other \in Lines : other.at = line.at => other = line
<1>1. Len(file) \in Nat
  BY DEF TypeOK
<1>2. PICK i \in 1 .. Len(file) :
        i % 2 = 1 /\ file[i] \notin Malformed /\ line = Line(i - 1, 2, file[i])
  BY LinesAre
<1>3. file[i] \in Texts
  BY <1>1, <1>2 DEF TypeOK, LinesTerminated, Terminated
<1>4. /\ line \in Record /\ line.from = "jsonl" /\ line.length = 2
      /\ line.at % 2 = 0 /\ line.at < Len(file) /\ line.text \notin Malformed
  BY <1>1, <1>2, <1>3 DEF Line, Record
<1>5. ASSUME NEW other \in Lines, other.at = line.at
      PROVE  other = line
  <2>1. PICK j \in 1 .. Len(file) :
          j % 2 = 1 /\ file[j] \notin Malformed /\ other = Line(j - 1, 2, file[j])
    BY LinesAre
  <2>2. j = i
    BY <1>1, <1>2, <1>5, <2>1 DEF Line
  <2> QED
    BY <1>2, <2>1, <2>2
<1> QED
  BY <1>4, <1>5

\* Reading on from the start of a line finds the lines from there, as they are.
LEMMA UnreadLines ==
  ASSUME TypeOK, LinesTerminated, NEW c \in Nat, AtLineStart(c)
  PROVE  LinesOf(Unread(c), c) = {line \in Lines : line.at >= c}
<1> DEFINE raw == SubSeq(file, c + 1, Len(file))
<1>1. Len(file) \in Nat /\ c =< Len(file)
  BY DEF TypeOK, AtLineStart
<1>2. Unread(c) = raw
  BY <1>1 DEF Unread
<1>3. \A i \in c + 1 .. Len(file) : file[i] \in Texts \cup {NL}
  BY <1>1 DEF TypeOK
<1>4. /\ Len(raw) = Len(file) - c
      /\ \A i \in 1 .. Len(file) - c : raw[i] = file[c + i]
  <2>1. /\ Len(raw) = IF c + 1 =< Len(file) THEN Len(file) - (c + 1) + 1 ELSE 0
        /\ \A i \in 1 .. Len(file) - (c + 1) + 1 : raw[i] = file[(c + 1) + i - 1]
    BY <1>1, <1>3, SubSeqProperties
  <2> QED
    BY <1>1, <2>1
<1> HIDE DEF raw
<1>5. ASSUME NEW i \in 1 .. Len(raw)
      PROVE  raw[i] # NL /\ AloneOnLine(raw, i) <=> i % 2 = 1
  <2>1. \A k \in 1 .. Len(raw) : raw[k] = NL <=> k % 2 = 0
    <3> SUFFICES ASSUME NEW k \in 1 .. Len(raw)
                 PROVE  raw[k] = NL <=> k % 2 = 0
      OBVIOUS
    <3>1. c + k \in 1 .. Len(file) /\ raw[k] = file[c + k]
      BY <1>1, <1>4
    <3>2. file[c + k] = NL <=> (c + k) % 2 = 0
      BY <3>1 DEF LinesTerminated, Terminated
    <3>3. c \in Int /\ k \in Int /\ c % 2 = 0
      BY <1>1, <1>4 DEF AtLineStart
    <3>4. (c + k) % 2 = k % 2
      BY <3>3, EvenSum
    <3> QED
      BY <3>1, <3>2, <3>4
  <2>2. Len(raw) % 2 = 0 /\ Len(raw) \in Nat
    BY <1>1, <1>4, EvenSum DEF AtLineStart, LinesTerminated, Terminated
  <2> QED
    BY <2>1, <2>2 DEF AloneOnLine
<1>6. ASSUME NEW line
      PROVE  line \in LinesOf(raw, c) <=>
               \E i \in 1 .. Len(raw) :
                 i % 2 = 1 /\ raw[i] \notin Malformed /\ line = Line(c + i - 1, 2, raw[i])
  BY <1>5 DEF LinesOf
<1>7. ASSUME NEW line \in LinesOf(raw, c)
      PROVE  line \in Lines /\ line.at >= c
  <2>1. PICK i \in 1 .. Len(raw) :
          i % 2 = 1 /\ raw[i] \notin Malformed /\ line = Line(c + i - 1, 2, raw[i])
    BY <1>6
  <2>2. /\ c + i \in 1 .. Len(file) /\ (c + i) % 2 = 1 /\ raw[i] = file[c + i]
        /\ c + i - 1 = (c + i) - 1
    <3>1. c \in Int /\ i \in Int /\ c % 2 = 0
      BY <1>1, <1>4 DEF AtLineStart
    <3>2. (c + i) % 2 = 1
      BY <2>1, <3>1, EvenSum
    <3>3. c + i \in 1 .. Len(file) /\ raw[i] = file[c + i] /\ c + i - 1 = (c + i) - 1
      BY <1>1, <1>4
    <3> QED
      BY <3>2, <3>3
  <2>3. line \in Lines
    BY <2>1, <2>2, LinesAre
  <2> QED
    BY <1>1, <1>4, <2>1, <2>3 DEF Line
<1>8. ASSUME NEW line \in Lines, line.at >= c
      PROVE  line \in LinesOf(raw, c)
  <2>1. PICK j \in 1 .. Len(file) :
          j % 2 = 1 /\ file[j] \notin Malformed /\ line = Line(j - 1, 2, file[j])
    BY LinesAre
  <2>2. j - 1 >= c
    BY <1>8, <2>1 DEF Line
  <2>3. /\ j - c \in 1 .. Len(file) - c /\ Len(raw) = Len(file) - c
        /\ c + (j - c) - 1 = j - 1 /\ c + (j - c) = j
    BY <1>1, <1>4, <2>1, <2>2
  <2>4. raw[j - c] = file[j]
    BY <1>4, <2>3
  <2>5. c \in Int /\ j \in Int /\ c % 2 = 0
    BY <1>1, <2>1 DEF AtLineStart
  <2>6. (j - c) % 2 = 1
    BY <2>1, <2>5, EvenSum
  <2> QED
    BY <1>6, <2>1, <2>3, <2>4, <2>6
<1> QED
  BY <1>2, <1>7, <1>8

-----------------------------------------------------------------------------
(* The record a drain takes next.                                          *)

\* A set of naturals that is not empty has a least element.
LEMMA LeastNatural ==
  ASSUME NEW S, S \subseteq Nat, S # {}
  PROVE  \E n \in S : \A m \in S : n =< m
<1>1. PICK n \in S : \A m \in S : ~ (<<m, n>> \in OpToRel(<, Nat))
  BY NatLessThanWellFounded, WFMin
<1>2. \A m \in S : ~ (m < n)
  BY <1>1 DEF OpToRel
<1> QED
  BY <1>2

LEMMA FirstIsLeast ==
  ASSUME NEW todo, todo \subseteq Record, todo # {}
  PROVE  First(todo) \in todo /\ \A rec \in todo : Before(First(todo), rec)
<1> DEFINE Of(from) == {rec \in todo : rec.from = from}
<1>1. ASSUME NEW from, Of(from) # {}
      PROVE  \E rec \in Of(from) : \A other \in Of(from) : rec.at =< other.at
  <2> DEFINE S == {rec.at : rec \in Of(from)}
  <2>1. S \subseteq Nat /\ S # {}
    BY <1>1 DEF Record
  <2> HIDE DEF S
  <2>2. PICK n \in S : \A m \in S : n =< m
    BY <2>1, LeastNatural
  <2>3. PICK rec \in Of(from) : rec.at = n
    BY <2>2 DEF S
  <2>4. \A other \in Of(from) : other.at \in S
    BY DEF S
  <2> QED
    BY <2>2, <2>3, <2>4
<1>2. \E rec \in todo : \A other \in todo : Before(rec, other)
  <2>1. \A rec \in todo : rec.from \in {"jsonl", "spool"}
    BY DEF Record
  <2>2. CASE Of("jsonl") # {}
    BY <1>1, <2>1, <2>2 DEF Before
  <2>3. CASE Of("jsonl") = {}
    <3>1. Of("spool") # {}
      BY <2>1, <2>3
    <3> QED
      BY <1>1, <2>1, <2>3, <3>1 DEF Before
  <2> QED
    BY <2>2, <2>3
<1> QED
  BY <1>2 DEF First

-----------------------------------------------------------------------------
(* Types.                                                                  *)

\* Everything found past a cursor is a record.
LEMMA PendingType ==
  ASSUME TypeOK, NEW c \in Nat
  PROVE  Pending(c) \subseteq Record
<1>1. Unread(c) \in Seq(Texts \cup {NL})
  <2>1. Len(file) \in Nat /\ \A i \in c + 1 .. Len(file) : file[i] \in Texts \cup {NL}
    BY DEF TypeOK
  <2>2. SubSeq(file, c + 1, Len(file)) \in Seq(Texts \cup {NL})
    BY <2>1, SubSeqProperties
  <2> QED
    BY <2>2 DEF Unread, TypeOK
<1>2. LinesOf(Unread(c), c) \subseteq Record
  <2> SUFFICES ASSUME NEW raw \in Seq(Texts \cup {NL}), NEW i \in 1 .. Len(raw),
                      raw[i] # NL
               PROVE  Line(c + i - 1, 2, raw[i]) \in Record
    BY <1>1 DEF LinesOf
  <2> QED
    BY DEF Line, Record
<1> QED
  BY <1>2 DEF Pending, TypeOK

\* The record in hand of a drain that has one.
LEMMA RecInHand ==
  ASSUME TypeOK, NEW d \in Drains, drain[d].phase \in {"publishing", "saving"}
  PROVE  /\ Rec(d) \in drain[d].todo /\ Rec(d) \in Record
         /\ \A rec \in drain[d].todo : Before(Rec(d), rec)
<1>1. drain[d].todo \subseteq Record /\ drain[d].todo # {}
  BY DEF TypeOK
<1> QED
  BY <1>1, FirstIsLeast DEF Rec

\* The types of what one step of d leaves behind.
LEMMA ResumeType ==
  ASSUME TypeOK, NEW d \in Drains, NEW todo \in SUBSET Record, Resume(d, todo)
  PROVE  /\ drain' \in [Drains -> [phase : {"idle", "reading", "publishing", "saving"},
                                   cursor : Nat, todo : SUBSET Record]]
         /\ \A e \in Drains : drain'[e].phase \in {"publishing", "saving"} <=> drain'[e].todo # {}
BY DEF TypeOK, Resume, Idle

LEMMA TypeInductive ==
  ASSUME TypeOK, [Next]_vars
  PROVE  TypeOK'
<1>1. CASE UNCHANGED vars
  BY <1>1 DEF vars, TypeOK
<1>2. ASSUME NEW w \in Writes, Write(w)
      PROVE  TypeOK'
  <2>1. w \in Seq(Texts \cup {NL})
    BY OutboxAssumption
  <2> QED
    BY <1>2, <2>1 DEF Write, TypeOK
<1>3. ASSUME NEW text \in SpoolWrites, WriteSpool(text)
      PROVE  TypeOK'
  <2>1. text \in Texts
    BY OutboxAssumption
  <2>2. spooled' \in Seq(Texts) /\ Len(spooled') \in Nat
    BY <1>3, <2>1 DEF WriteSpool, TypeOK
  <2>3. Spooled(Len(spooled'), text) \in Record
    BY <2>1, <2>2 DEF Spooled, Record
  <2> QED
    BY <1>3, <2>2, <2>3 DEF WriteSpool, TypeOK
<1>4. ASSUME NEW d \in Drains, ReadCursor(d)
      PROVE  TypeOK'
  BY <1>4 DEF ReadCursor, TypeOK
<1>5. ASSUME NEW d \in Drains, ReadPending(d)
      PROVE  TypeOK'
  <2>1. drain[d].cursor \in Nat
    BY DEF TypeOK
  <2>2. Pending(drain[d].cursor) \in SUBSET Record
    BY <2>1, PendingType
  <2> HIDE DEF Pending
  <2> QED
    BY <1>5, <2>2, ResumeType DEF ReadPending, TypeOK
<1>6. ASSUME NEW d \in Drains, Settle(d), drain[d].phase = "publishing",
             UNCHANGED <<file, cursor, spool, spooled, faults>>, ledger' \in Seq(IdempotencyKey)
      PROVE  TypeOK'
  <2> DEFINE State == [phase : {"idle", "reading", "publishing", "saving"},
                       cursor : Nat, todo : SUBSET Record]
             Saving == [drain[d] EXCEPT !.phase = "saving"]
  <2>1. drain \in [Drains -> State] /\ drain[d] \in State /\ drain[d].todo # {}
    BY <1>6 DEF TypeOK
  <2>2. Saving \in State /\ Saving.phase = "saving" /\ Saving.todo # {}
    BY <2>1
  <2>3. drain' = [drain EXCEPT ![d] = Saving]
    BY <1>6 DEF Settle
  <2> HIDE DEF Saving, State
  <2>4. drain' \in [Drains -> State]
    BY <2>1, <2>2, <2>3
  <2>5. \A e \in Drains : drain'[e].phase \in {"publishing", "saving"} <=> drain'[e].todo # {}
    <3>1. \A e \in Drains : drain'[e] = IF e = d THEN Saving ELSE drain[e]
      BY <2>1, <2>3
    <3> QED
      BY <2>2, <3>1 DEF TypeOK
  <2> QED
    BY <1>6, <2>4, <2>5 DEF State, TypeOK
<1>7. ASSUME NEW d \in Drains, drain' = [drain EXCEPT ![d] = Idle],
             UNCHANGED <<file, cursor, spool, spooled>>,
             ledger' \in Seq(IdempotencyKey), faults' \in Nat
      PROVE  TypeOK'
  BY <1>7 DEF Idle, TypeOK
<1>8. ASSUME NEW d \in Drains, drain[d].phase = "publishing",
             Rec(d).text \in Good, RecordOnce(Rec(d))
      PROVE  ledger' \in Seq(IdempotencyKey)
  <2>1. Key(Rec(d)) \in IdempotencyKey
    BY <1>8, RecInHand DEF Key, Record, IdempotencyKey
  <2> QED
    BY <1>8, <2>1 DEF RecordOnce, TypeOK
<1>9. ASSUME NEW d \in Drains, PublishOk(d)
      PROVE  TypeOK'
  BY <1>6, <1>8, <1>9 DEF PublishOk, Publishing
<1>10. ASSUME NEW d \in Drains, PassHopeless(d)
       PROVE  TypeOK'
  BY <1>6, <1>10 DEF PassHopeless, Publishing, TypeOK
<1>11. ASSUME NEW d \in Drains, PublishFails(d)
       PROVE  TypeOK'
  BY <1>7, <1>11 DEF PublishFails, TypeOK
<1>12. ASSUME NEW d \in Drains, AnswerLost(d)
       PROVE  TypeOK'
  BY <1>7, <1>8, <1>12 DEF AnswerLost, Publishing, TypeOK
<1>13. ASSUME NEW d \in Drains, drain[d].phase = "saving", Advance(d)
       PROVE  /\ drain' \in [Drains -> [phase : {"idle", "reading", "publishing", "saving"},
                                        cursor : Nat, todo : SUBSET Record]]
              /\ \A e \in Drains : drain'[e].phase \in {"publishing", "saving"} <=> drain'[e].todo # {}
  <2>1. Rest(d) \in SUBSET Record
    BY DEF Rest, TypeOK
  <2> QED
    BY <1>13, <2>1, ResumeType DEF Advance
<1>14. ASSUME NEW d \in Drains, SaveCursor(d)
       PROVE  TypeOK'
  <2>1. cursor' \in Nat
    BY <1>14, RecInHand DEF SaveCursor, Record
  <2> QED
    BY <1>13, <1>14, <2>1 DEF SaveCursor, Advance, TypeOK
<1>15. ASSUME NEW d \in Drains, RemoveSpooled(d)
       PROVE  TypeOK'
  BY <1>13, <1>15 DEF RemoveSpooled, Advance, TypeOK
<1>16. ASSUME NEW d \in Drains, Crash(d)
       PROVE  TypeOK'
  <2>1. ledger' \in Seq(IdempotencyKey) /\ faults' \in Nat
    BY <1>16 DEF Crash, TypeOK
  <2> QED
    BY <1>7, <1>16, <2>1 DEF Crash
<1>17. CASE LoseCursor
  BY <1>17 DEF LoseCursor, TypeOK
<1> QED
  BY <1>1, <1>2, <1>3, <1>4, <1>5, <1>9, <1>10, <1>11, <1>12, <1>14, <1>15, <1>16, <1>17
  DEF Next, Local

\* Every file and every drain has its type, in every state that can be reached:
\* Outbox's state as cli/outbox.ts keeps it.
THEOREM TypeCorrect == Spec => []TypeOK
<1>1. Init => TypeOK
  <2> SUFFICES ASSUME Init PROVE TypeOK
    OBVIOUS
  <2>1. StartCursor \in Nat
    BY OutboxAssumption
  <2>2. file \in Seq(Texts \cup {NL}) /\ spooled \in Seq(Texts) /\ ledger \in Seq(IdempotencyKey)
    BY DEF Init
  <2> QED
    BY <2>1, <2>2 DEF Init, Idle, TypeOK
<1>2. TypeOK /\ [Next]_vars => TypeOK'
  BY TypeInductive
<1> QED
  BY <1>1, <1>2, PTL DEF Spec

-----------------------------------------------------------------------------
(* What a step leaves as it was.                                           *)

\* The file grows by a whole line, or not at all.
LEMMA FileGrows ==
  ASSUME WholeLinesFromZero, Next
  PROVE  file' = file \/ \E text \in Texts : file' = file \o <<text, NL>>
<1>1. ASSUME NEW w \in Writes, Write(w)
      PROVE  \E text \in Texts : file' = file \o <<text, NL>>
  BY <1>1 DEF Write, WholeLinesFromZero
<1>2. ASSUME NEW d \in Drains, Local(d)
      PROVE  file' = file
  BY <1>2 DEF Local, ReadCursor, ReadPending, PassHopeless, SaveCursor, RemoveSpooled, Advance
<1>3. ASSUME NEW d \in Drains, PublishOk(d) \/ PublishFails(d) \/ AnswerLost(d) \/ Crash(d)
      PROVE  file' = file
  BY <1>3 DEF PublishOk, PublishFails, AnswerLost, Crash
<1>4. ASSUME NEW text \in SpoolWrites, WriteSpool(text)
      PROVE  file' = file
  BY <1>4 DEF WriteSpool
<1>5. CASE LoseCursor
  BY <1>5 DEF LoseCursor
<1> QED
  BY <1>1, <1>2, <1>3, <1>4, <1>5 DEF Next

\* A line added at the end changes no line before it.
LEMMA LineAdded ==
  ASSUME TypeOK, LinesTerminated, NEW text \in Texts, file' = file \o <<text, NL>>
  PROVE  /\ LinesTerminated' /\ Len(file) =< Len(file')
         /\ Lines \subseteq Lines'
         /\ \A line \in Lines' : line.at \in Nat /\ (line \in Lines \/ line.at >= Len(file))
<1> DEFINE n == Len(file)
<1>1. n \in Nat /\ n % 2 = 0 /\ file \in Seq(Texts \cup {NL}) /\ text # NL
  BY OutboxAssumption DEF TypeOK, LinesTerminated, Terminated
<1>2. /\ file' \in Seq(Texts \cup {NL}) /\ Len(file') = n + 2
      /\ \A i \in 1 .. n : file'[i] = file[i]
      /\ file'[n + 1] = text /\ file'[n + 2] = NL
  BY <1>1
<1> HIDE DEF n
<1>3. Terminated(file')
  <2>1. (n + 1) % 2 = 1 /\ (n + 2) % 2 = 0
    BY <1>1
  <2>2. \A i \in 1 .. n : file[i] = NL <=> i % 2 = 0
    BY DEF LinesTerminated, Terminated, n
  <2>3. \A i \in 1 .. n + 2 : i \in 1 .. n \/ i = n + 1 \/ i = n + 2
    BY <1>1
  <2> QED
    BY <1>1, <1>2, <2>1, <2>2, <2>3 DEF Terminated
<1>4. ASSUME NEW line
      PROVE  line \in Lines' <=>
               \E i \in 1 .. n + 2 :
                 i % 2 = 1 /\ file'[i] \notin Malformed /\ line = Line(i - 1, 2, file'[i])
  <2>1. Lines' = LinesOf(file', 0)
    BY DEF Lines, LinesOf, AloneOnLine
  <2>2. line \in LinesOf(file', 0) <=>
          \E i \in 1 .. Len(file') :
            i % 2 = 1 /\ file'[i] \notin Malformed /\ line = Line(i - 1, 2, file'[i])
    BY <1>2, <1>3, LinesIn
  <2> QED
    BY <1>2, <2>1, <2>2
<1>5. ASSUME NEW line \in Lines
      PROVE  line \in Lines'
  <2>1. PICK i \in 1 .. n :
          i % 2 = 1 /\ file[i] \notin Malformed /\ line = Line(i - 1, 2, file[i])
    BY LinesAre DEF n
  <2>2. i \in 1 .. n + 2 /\ file'[i] = file[i]
    BY <1>1, <1>2
  <2> QED
    BY <1>4, <2>1, <2>2
<1>6. ASSUME NEW line \in Lines'
      PROVE  line.at \in Nat /\ (line \in Lines \/ line.at >= n)
  <2>1. PICK i \in 1 .. n + 2 :
          i % 2 = 1 /\ file'[i] \notin Malformed /\ line = Line(i - 1, 2, file'[i])
    BY <1>4
  <2>0. line.at \in Nat
    BY <1>1, <2>1 DEF Line
  <2>2. CASE i \in 1 .. n
    <3>1. file'[i] = file[i]
      BY <1>2, <2>2
    <3> QED
      BY <2>0, <2>1, <2>2, <3>1, LinesAre DEF n
  <2>3. CASE i \notin 1 .. n
    BY <1>1, <2>0, <2>1, <2>3 DEF Line
  <2> QED
    BY <2>2, <2>3
<1>7. LinesTerminated'
  BY <1>3 DEF LinesTerminated, Terminated
<1>8. n =< Len(file')
  BY <1>1, <1>2
<1> QED
  BY <1>5, <1>6, <1>7, <1>8 DEF n

LEMMA LinesGrow ==
  ASSUME TypeOK, LinesTerminated, WholeLinesFromZero, Next
  PROVE  /\ LinesTerminated' /\ Len(file) =< Len(file')
         /\ Lines \subseteq Lines'
         /\ \A line \in Lines' : line.at \in Nat /\ (line \in Lines \/ line.at >= Len(file))
<1>1. CASE file' = file
  <2>1. Lines' = Lines /\ LinesTerminated'
    BY <1>1 DEF LinesTerminated, Terminated, Lines, LinesOf, AloneOnLine
  <2>2. \A line \in Lines : line.at \in Nat
    BY LineFacts DEF Record
  <2>3. Len(file) \in Nat /\ Len(file') = Len(file)
    BY <1>1 DEF TypeOK
  <2> QED
    BY <2>1, <2>2, <2>3
<1>2. CASE \E text \in Texts : file' = file \o <<text, NL>>
  BY <1>2, LineAdded
<1> QED
  BY <1>1, <1>2, FileGrows

\* The ledger grows by one event the ledger takes, of a record in some drain's
\* hand and not recorded before, or not at all.
LEMMA LedgerStep ==
  ASSUME TypeOK, Next
  PROVE  \/ ledger' = ledger
         \/ \E d \in Drains :
              /\ Publishing(d) /\ Rec(d).text \in Good /\ ~ Recorded(Key(Rec(d)))
              /\ ledger' = Append(ledger, Key(Rec(d))) /\ file' = file
<1>1. ASSUME NEW d \in Drains, PublishOk(d) \/ AnswerLost(d)
      PROVE  \/ ledger' = ledger
             \/ /\ Publishing(d) /\ Rec(d).text \in Good /\ ~ Recorded(Key(Rec(d)))
                /\ ledger' = Append(ledger, Key(Rec(d))) /\ file' = file
  BY <1>1 DEF PublishOk, AnswerLost, RecordOnce
<1>2. ASSUME NEW d \in Drains, Local(d) \/ PublishFails(d) \/ Crash(d)
      PROVE  ledger' = ledger
  BY <1>2 DEF Local, ReadCursor, ReadPending, PassHopeless, SaveCursor, RemoveSpooled, Advance,
              PublishFails, Crash
<1>3. ASSUME NEW w \in Writes, Write(w)
      PROVE  ledger' = ledger
  BY <1>3 DEF Write
<1>4. ASSUME NEW text \in SpoolWrites, WriteSpool(text)
      PROVE  ledger' = ledger
  BY <1>4 DEF WriteSpool
<1>5. CASE LoseCursor
  BY <1>5 DEF LoseCursor
<1> QED
  BY <1>1, <1>2, <1>3, <1>4, <1>5 DEF Next

\* What is recorded stays recorded, and what is settled stays settled.
LEMMA LedgerGrows ==
  ASSUME TypeOK, Next
  PROVE  /\ \A i \in 1 .. Len(ledger) : i \in 1 .. Len(ledger') /\ ledger'[i] = ledger[i]
         /\ \A rec : Settled(rec) => Settled(rec)'
<1>1. \A i \in 1 .. Len(ledger) : i \in 1 .. Len(ledger') /\ ledger'[i] = ledger[i]
  <2>1. ASSUME NEW key, ledger' = Append(ledger, key)
        PROVE  \A i \in 1 .. Len(ledger) : i \in 1 .. Len(ledger') /\ ledger'[i] = ledger[i]
    BY <2>1, AppendProperties DEF TypeOK
  <2> QED
    BY <2>1, LedgerStep
<1>2. ASSUME NEW rec, Settled(rec)
      PROVE  Settled(rec)'
  BY <1>1, <1>2 DEF Settled, Recorded
<1> QED
  BY <1>1, <1>2

\* The agent's spooled texts only grow.
LEMMA SpooledGrows ==
  ASSUME TypeOK, Next
  PROVE  /\ \A n \in 1 .. Len(spooled) : n \in 1 .. Len(spooled') /\ spooled'[n] = spooled[n]
         /\ \A rec : FromSpool(rec) => FromSpool(rec)'
<1>1. \A n \in 1 .. Len(spooled) : n \in 1 .. Len(spooled') /\ spooled'[n] = spooled[n]
  <2>1. ASSUME NEW text \in SpoolWrites, WriteSpool(text)
        PROVE  \A n \in 1 .. Len(spooled) : n \in 1 .. Len(spooled') /\ spooled'[n] = spooled[n]
    BY <2>1, AppendProperties DEF WriteSpool, TypeOK
  <2>2. ASSUME NEW d \in Drains, Local(d)
        PROVE  spooled' = spooled
    BY <2>2 DEF Local, ReadCursor, ReadPending, PassHopeless, SaveCursor, RemoveSpooled, Advance
  <2>3. ASSUME NEW d \in Drains, PublishOk(d) \/ PublishFails(d) \/ AnswerLost(d) \/ Crash(d)
        PROVE  spooled' = spooled
    BY <2>3 DEF PublishOk, PublishFails, AnswerLost, Crash
  <2>4. ASSUME NEW w \in Writes, Write(w)
        PROVE  spooled' = spooled
    BY <2>4 DEF Write
  <2>5. LoseCursor => spooled' = spooled
    BY DEF LoseCursor
  <2> QED
    BY <2>1, <2>2, <2>3, <2>4, <2>5 DEF Next
<1>2. ASSUME NEW rec, FromSpool(rec)
      PROVE  FromSpool(rec)'
  <2>1. PICK n \in 1 .. Len(spooled) : rec = Spooled(n, spooled[n])
    BY <1>2 DEF FromSpool
  <2>2. n \in 1 .. Len(spooled)' /\ rec = Spooled(n, spooled'[n])
    BY <1>1, <2>1
  <2> QED
    BY <2>2 DEF FromSpool
<1> QED
  BY <1>1, <1>2

-----------------------------------------------------------------------------
(* The drains.                                                             *)

\* A covered line start stays one, whatever is written behind it.
LEMMA CoveredKept ==
  ASSUME OutboxInv, WholeLinesFromZero, Next, NEW c \in Nat, AtLineStart(c), Covered(c)
  PROVE  AtLineStart(c)' /\ Covered(c)'
<1>1. Len(file) \in Nat /\ Len(file') \in Nat
  BY TypeInductive DEF OutboxInv, TypeOK
<1>2. AtLineStart(c)'
  BY <1>1, LinesGrow DEF OutboxInv, AtLineStart
<1>3. ASSUME NEW line \in Lines', line.at < c
      PROVE  Settled(line)'
  <2>1. line \in Lines
    BY <1>1, <1>3, LinesGrow DEF OutboxInv, AtLineStart
  <2> QED
    BY <1>3, <2>1, LedgerGrows DEF OutboxInv, Covered
<1> QED
  BY <1>2, <1>3 DEF Covered

\* What is good to have in hand stays so.
LEMMA HandKept ==
  ASSUME OutboxInv, WholeLinesFromZero, Next, NEW todo, HandOK(todo)
  PROVE  HandOK(todo)'
<1>1. ASSUME NEW rec \in todo
      PROVE  (rec \in Lines)' \/ (FromSpool(rec)' /\ rec.text \notin Malformed)
  BY <1>1, LinesGrow, SpooledGrows DEF OutboxInv, HandOK
<1>2. ASSUME NEW rec \in todo, rec.from = "jsonl", NEW line \in Lines', line.at < rec.at
      PROVE  Settled(line)' \/ line \in todo
  <2>1. rec \in Lines
    BY <1>2 DEF HandOK, FromSpool, Spooled
  <2>2. rec.at \in Nat /\ rec.at < Len(file) /\ Len(file) \in Nat
    BY <2>1, LineFacts DEF OutboxInv, Record, TypeOK
  <2>3. line \in Lines
    BY <1>2, <2>2, LinesGrow DEF OutboxInv
  <2>4. Settled(line) \/ line \in todo
    BY <1>2, <2>3 DEF HandOK
  <2> QED
    BY <2>4, LedgerGrows DEF OutboxInv
<1> QED
  BY <1>1, <1>2 DEF HandOK

\* What a drain reads past a covered cursor is good to have in hand.
LEMMA PendingOK ==
  ASSUME OutboxInv, NEW c \in Nat, AtLineStart(c), Covered(c)
  PROVE  HandOK(Pending(c))
<1>1. Pending(c) = {line \in Lines : line.at >= c} \cup {rec \in spool : rec.text \notin Malformed}
  BY UnreadLines DEF OutboxInv, Pending
<1>2. \A rec \in spool : FromSpool(rec) /\ rec.from = "spool"
  BY DEF OutboxInv, SpoolOK, FromSpool, Spooled
<1>3. \A line \in Lines : line.at \in Nat
  BY LineFacts DEF OutboxInv, Record
<1>4. ASSUME NEW rec \in Pending(c)
      PROVE  rec \in Lines \/ (FromSpool(rec) /\ rec.text \notin Malformed)
  BY <1>1, <1>2
<1>5. ASSUME NEW line \in Lines
      PROVE  Settled(line) \/ line \in Pending(c)
  BY <1>1, <1>3 DEF Covered
<1> HIDE DEF Pending
<1> QED
  BY <1>4, <1>5 DEF HandOK

\* So are the records left when the first one is settled.
LEMMA RestOK ==
  ASSUME NEW d \in Drains, HandOK(drain[d].todo), Settled(Rec(d))
  PROVE  HandOK(Rest(d))
<1>1. \A line \in drain[d].todo : line = Rec(d) \/ line \in Rest(d)
  BY DEF Rest
<1>2. \A rec \in Rest(d) : rec \in drain[d].todo
  BY DEF Rest
<1> QED
  BY <1>1, <1>2 DEF HandOK

\* Settling a record keeps it in hand.
LEMMA SameRec ==
  ASSUME TypeOK, NEW d \in Drains, Settle(d)
  PROVE  Rec(d)' = Rec(d)
<1>1. drain[d] = [phase |-> drain[d].phase, cursor |-> drain[d].cursor, todo |-> drain[d].todo]
  BY DEF TypeOK
<1>2. drain'[d].todo = drain[d].todo
  BY <1>1 DEF Settle, TypeOK
<1> QED
  BY <1>2 DEF Rec, First

\* What one step may make of a drain.
LEMMA DrainStep ==
  ASSUME TypeOK, Next, NEW d \in Drains
  PROVE  \/ drain'[d] = drain[d]
         \/ drain'[d] = Idle
         \/ drain'[d] = [phase |-> "reading", cursor |-> cursor, todo |-> {}]
         \/ /\ drain[d].phase = "reading"
            /\ drain'[d].phase = "publishing" /\ drain'[d].todo = Pending(drain[d].cursor)
         \/ /\ drain[d].phase = "publishing"
            /\ drain'[d].phase = "saving" /\ drain'[d].todo = drain[d].todo
            /\ Settled(Rec(d))'
         \/ /\ drain[d].phase = "saving"
            /\ drain'[d].phase = "publishing" /\ drain'[d].todo = Rest(d)
<1> DEFINE Goal == \/ drain'[d] = drain[d]
                   \/ drain'[d] = Idle
                   \/ drain'[d] = [phase |-> "reading", cursor |-> cursor, todo |-> {}]
                   \/ /\ drain[d].phase = "reading"
                      /\ drain'[d].phase = "publishing" /\ drain'[d].todo = Pending(drain[d].cursor)
                   \/ /\ drain[d].phase = "publishing"
                      /\ drain'[d].phase = "saving" /\ drain'[d].todo = drain[d].todo
                      /\ Settled(Rec(d))'
                   \/ /\ drain[d].phase = "saving"
                      /\ drain'[d].phase = "publishing" /\ drain'[d].todo = Rest(d)
<1>0. /\ drain = [e \in Drains |-> drain[e]]
      /\ drain[d] = [phase |-> drain[d].phase, cursor |-> drain[d].cursor, todo |-> drain[d].todo]
  BY DEF TypeOK
<1>1. ASSUME NEW e \in Drains, NEW state, drain' = [drain EXCEPT ![e] = state]
      PROVE  drain'[d] = IF d = e THEN state ELSE drain[d]
  BY <1>0, <1>1
<1>2. ASSUME NEW e \in Drains, NEW todo, Resume(e, todo)
      PROVE  \/ drain'[d] = drain[d]
             \/ drain'[d] = Idle
             \/ d = e /\ drain'[d].phase = "publishing" /\ drain'[d].todo = todo
  BY <1>0, <1>2 DEF Resume
<1>3. ASSUME NEW e \in Drains, Settle(e), drain[e].phase = "publishing", Settled(Rec(e))'
      PROVE  Goal
  BY <1>0, <1>3 DEF Settle
<1>4. ASSUME NEW e \in Drains, ReadCursor(e) \/ PublishFails(e) \/ AnswerLost(e) \/ Crash(e)
      PROVE  Goal
  BY <1>1, <1>4 DEF ReadCursor, PublishFails, AnswerLost, Crash
<1>5. ASSUME NEW e \in Drains, ReadPending(e)
      PROVE  Goal
  BY <1>2, <1>5 DEF ReadPending
<1>6. ASSUME NEW e \in Drains, PublishOk(e)
      PROVE  Goal
  <2>1. Settled(Rec(e))'
    <3>1. PICK rec : rec = Rec(e)
      OBVIOUS
    <3>2. rec.text \in Good /\ rec.text \notin Refused
      BY <1>6, <3>1, OutboxAssumption DEF PublishOk
    <3>3. Recorded(Key(rec))'
      <4>1. ledger \in Seq(IdempotencyKey)
        BY DEF TypeOK
      <4>2. ledger' = IF Recorded(Key(rec)) THEN ledger ELSE Append(ledger, Key(rec))
        BY <1>6, <3>1 DEF PublishOk, RecordOnce
      <4> QED
        BY <4>1, <4>2 DEF Recorded, Key
    <3>4. Rec(e)' = rec
      BY <1>0, <1>6, <3>1, SameRec DEF PublishOk
    <3> QED
      BY <3>2, <3>3, <3>4 DEF Settled
  <2> QED
    BY <1>3, <1>6, <2>1 DEF PublishOk, Publishing
<1>7. ASSUME NEW e \in Drains, PassHopeless(e)
      PROVE  Goal
  <2>1. Settled(Rec(e))'
    <3>1. Rec(e)' = Rec(e)
      BY <1>7, SameRec DEF PassHopeless
    <3> QED
      BY <1>7, <3>1, OutboxAssumption DEF PassHopeless, Settled
  <2> QED
    BY <1>3, <1>7, <2>1 DEF PassHopeless, Publishing
<1>8. ASSUME NEW e \in Drains, SaveCursor(e) \/ RemoveSpooled(e)
      PROVE  Goal
  BY <1>2, <1>8 DEF SaveCursor, RemoveSpooled, Advance
<1>9. ASSUME NEW w \in Writes, Write(w)
      PROVE  Goal
  BY <1>9 DEF Write
<1>10. ASSUME NEW text \in SpoolWrites, WriteSpool(text)
       PROVE  Goal
  BY <1>10 DEF WriteSpool
<1>11. ASSUME LoseCursor
       PROVE  Goal
  BY <1>11 DEF LoseCursor
<1> HIDE DEF Goal
<1>12. ASSUME NEW e \in Drains,
              Local(e) \/ PublishOk(e) \/ PublishFails(e) \/ AnswerLost(e) \/ Crash(e)
       PROVE  Goal
  BY <1>4, <1>5, <1>6, <1>7, <1>8, <1>12 DEF Local
<1>13. Goal
  BY <1>9, <1>10, <1>11, <1>12 DEF Next
<1> QED
  BY <1>13 DEF Goal

-----------------------------------------------------------------------------
(* The invariant.                                                          *)

LEMMA DrainsKept ==
  ASSUME OutboxInv, WholeLinesFromZero, Next, NEW d \in Drains
  PROVE  DrainOK(d)'
<1> USE DEF OutboxInv
<1>1. /\ drain[d].cursor \in Nat /\ cursor \in Nat
      /\ drain[d].phase = "reading" => drain[d].todo = {}
  BY DEF TypeOK
<1>2. HandOK({})'
  BY DEF HandOK
<1>3. CASE drain'[d] = drain[d]
  <2>1. PICK c, todo : c \in Nat /\ c = drain[d].cursor /\ todo = drain[d].todo
    BY <1>1
  <2>2. HandOK(todo)'
    BY <2>1, HandKept DEF DrainOK
  <2>3. drain[d].phase = "reading" => AtLineStart(c)' /\ Covered(c)'
    BY <2>1, CoveredKept DEF DrainOK
  <2>4. drain[d].phase = "saving" => Settled(Rec(d))'
    <3>1. PICK rec : rec = Rec(d)
      OBVIOUS
    <3>2. Rec(d)' = rec
      BY <1>3, <3>1 DEF Rec, First
    <3>3. drain[d].phase = "saving" => Settled(rec)'
      BY <3>1, LedgerGrows DEF DrainOK
    <3> QED
      BY <3>2, <3>3 DEF Settled, Key, Recorded
  <2>5. drain'[d].cursor = c /\ drain'[d].todo = todo /\ drain'[d].phase = drain[d].phase
    BY <1>3, <2>1
  <2>6. HandOK(drain[d].todo)'
    BY <2>2, <2>5 DEF HandOK
  <2>7. drain'[d].phase = "reading" =>
          AtLineStart(drain[d].cursor)' /\ Covered(drain[d].cursor)'
    BY <2>3, <2>5 DEF AtLineStart, Covered
  <2> QED
    BY <2>4, <2>5, <2>6, <2>7 DEF DrainOK
<1>4. CASE drain'[d] = Idle
  BY <1>2, <1>4 DEF DrainOK, Idle, HandOK
<1>5. CASE drain'[d] = [phase |-> "reading", cursor |-> cursor, todo |-> {}]
  <2>1. PICK c \in Nat : c = cursor
    BY <1>1
  <2>2. AtLineStart(c)' /\ Covered(c)'
    BY <2>1, CoveredKept DEF CursorOK, CursorTrailsPublish, Covered
  <2>3. AtLineStart(drain[d].cursor)' /\ Covered(drain[d].cursor)'
    BY <1>5, <2>1, <2>2 DEF AtLineStart, Covered
  <2> QED
    BY <1>2, <1>5, <2>3 DEF DrainOK, HandOK
<1>6. ASSUME NEW todo, HandOK(todo), drain'[d].todo = todo, drain'[d].phase = "publishing"
      PROVE  DrainOK(d)'
  <2>1. HandOK(todo)'
    BY <1>6, HandKept
  <2>2. HandOK(drain[d].todo)'
    BY <1>6, <2>1 DEF HandOK
  <2> QED
    BY <1>6, <2>2 DEF DrainOK
<1>7. CASE /\ drain[d].phase = "reading"
           /\ drain'[d].phase = "publishing" /\ drain'[d].todo = Pending(drain[d].cursor)
  <2>1. PICK todo : todo = Pending(drain[d].cursor)
    OBVIOUS
  <2>2. HandOK(todo)
    BY <1>1, <1>7, <2>1, PendingOK DEF DrainOK
  <2> QED
    BY <1>6, <1>7, <2>1, <2>2
<1>8. CASE /\ drain[d].phase = "publishing"
           /\ drain'[d].phase = "saving" /\ drain'[d].todo = drain[d].todo
           /\ Settled(Rec(d))'
  <2>1. PICK todo : todo = drain[d].todo
    OBVIOUS
  <2>2. HandOK(todo)'
    BY <2>1, HandKept DEF DrainOK
  <2>3. HandOK(drain[d].todo)'
    BY <1>8, <2>1, <2>2 DEF HandOK
  <2> QED
    BY <1>8, <2>3 DEF DrainOK
<1>9. CASE /\ drain[d].phase = "saving"
           /\ drain'[d].phase = "publishing" /\ drain'[d].todo = Rest(d)
  <2>1. PICK todo : todo = Rest(d)
    OBVIOUS
  <2>2. HandOK(todo)
    BY <1>9, <2>1, RestOK DEF DrainOK
  <2> QED
    BY <1>6, <1>9, <2>1, <2>2
<1> QED
  BY <1>3, <1>4, <1>5, <1>7, <1>8, <1>9, DrainStep

\* A settled record of the file may be passed: every line up to it is settled.
LEMMA PassedLine ==
  ASSUME OutboxInv, NEW d \in Drains, drain[d].phase = "saving", Rec(d).from = "jsonl"
  PROVE  /\ Rec(d).at + Rec(d).length \in Nat
         /\ AtLineStart(Rec(d).at + Rec(d).length) /\ Covered(Rec(d).at + Rec(d).length)
<1> USE DEF OutboxInv
<1>1. PICK rec : rec = Rec(d)
  OBVIOUS
<1>2. /\ rec \in drain[d].todo /\ rec \in Record
      /\ \A other \in drain[d].todo : Before(rec, other)
  BY <1>1, RecInHand
<1>3. rec \in Lines
  BY <1>1, <1>2 DEF DrainOK, HandOK, FromSpool, Spooled
<1>4. /\ rec.at \in Nat /\ rec.at % 2 = 0 /\ rec.length = 2 /\ rec.at < Len(file)
      /\ Len(file) \in Nat /\ Len(file) % 2 = 0
  <2>1. Len(file) \in Nat
    BY DEF TypeOK
  <2>2. Len(file) % 2 = 0
    BY DEF LinesTerminated, Terminated
  <2>3. rec \in Record /\ rec.at % 2 = 0 /\ rec.length = 2 /\ rec.at < Len(file)
    BY <1>3, LineFacts
  <2> QED
    BY <2>1, <2>2, <2>3 DEF Record
<1>5. (rec.at + 2) % 2 = 0 /\ rec.at + 2 =< Len(file)
  BY <1>4
<1>6. ASSUME NEW line \in Lines, line.at < rec.at + 2
      PROVE  Settled(line)
  <2>1. line.at \in Nat /\ line.at % 2 = 0 /\ line.from = "jsonl"
    BY LineFacts DEF Record
  <2>2. line.at < rec.at \/ line.at = rec.at
    BY <1>4, <1>6, <2>1
  <2>3. CASE line.at = rec.at
    <3>1. line = rec
      BY <1>3, <2>3, LineFacts
    <3> QED
      BY <1>1, <3>1 DEF DrainOK
  <2>4. CASE line.at < rec.at
    <3>1. line \notin drain[d].todo
      BY <1>1, <1>2, <1>4, <2>1, <2>4 DEF Before
    <3> QED
      BY <1>1, <1>2, <2>4, <3>1 DEF DrainOK, HandOK
  <2> QED
    BY <2>2, <2>3, <2>4
<1> QED
  BY <1>1, <1>4, <1>5, <1>6 DEF AtLineStart, Covered

LEMMA CursorKept ==
  ASSUME OutboxInv, WholeLinesFromZero, Next
  PROVE  CursorOK'
<1> USE DEF OutboxInv
<1>1. \E c \in Nat : cursor' = c /\ AtLineStart(c) /\ Covered(c)
  <2>1. ASSUME cursor' = cursor
        PROVE  \E c \in Nat : cursor' = c /\ AtLineStart(c) /\ Covered(c)
    BY <2>1 DEF CursorOK, CursorTrailsPublish, Covered, TypeOK
  <2>2. ASSUME NEW d \in Drains, SaveCursor(d)
        PROVE  \E c \in Nat : cursor' = c /\ AtLineStart(c) /\ Covered(c)
    BY <2>2, PassedLine DEF SaveCursor
  <2>3. ASSUME LoseCursor
        PROVE  \E c \in Nat : cursor' = c /\ AtLineStart(c) /\ Covered(c)
    <3>1. \A line \in Lines : line.at \in Nat
      BY LineFacts DEF Record
    <3> QED
      BY <2>3, <3>1 DEF LoseCursor, AtLineStart, Covered, TypeOK
  <2>4. ASSUME NEW d \in Drains,
               \/ Local(d) /\ ~ SaveCursor(d)
               \/ PublishOk(d) \/ PublishFails(d) \/ AnswerLost(d) \/ Crash(d)
        PROVE  cursor' = cursor
    BY <2>4 DEF Local, ReadCursor, ReadPending, PassHopeless, RemoveSpooled, Advance,
                PublishOk, PublishFails, AnswerLost, Crash
  <2>5. ASSUME NEW w \in Writes, Write(w)
        PROVE  cursor' = cursor
    BY <2>5 DEF Write
  <2>6. ASSUME NEW text \in SpoolWrites, WriteSpool(text)
        PROVE  cursor' = cursor
    BY <2>6 DEF WriteSpool
  <2> QED
    BY <2>1, <2>2, <2>3, <2>4, <2>5, <2>6 DEF Next
<1>2. PICK c \in Nat : cursor' = c /\ AtLineStart(c) /\ Covered(c)
  BY <1>1
<1>3. AtLineStart(c)' /\ Covered(c)'
  BY <1>2, CoveredKept
<1> QED
  BY <1>2, <1>3 DEF CursorOK, CursorTrailsPublish, AtLineStart, Covered

\* The spool between two steps.
LEMMA SpoolStep ==
  ASSUME TypeOK, Next
  PROVE  \/ spool' = spool /\ spooled' = spooled
         \/ \E text \in SpoolWrites : WriteSpool(text)
         \/ \E d \in Drains : RemoveSpooled(d)
<1>1. ASSUME NEW d \in Drains,
             \/ Local(d) /\ ~ RemoveSpooled(d)
             \/ PublishOk(d) \/ PublishFails(d) \/ AnswerLost(d) \/ Crash(d)
      PROVE  spool' = spool /\ spooled' = spooled
  BY <1>1 DEF Local, ReadCursor, ReadPending, PassHopeless, SaveCursor, Advance,
              PublishOk, PublishFails, AnswerLost, Crash
<1>2. ASSUME NEW w \in Writes, Write(w)
      PROVE  spool' = spool /\ spooled' = spooled
  BY <1>2 DEF Write
<1>3. ASSUME LoseCursor
      PROVE  spool' = spool /\ spooled' = spooled
  BY <1>3 DEF LoseCursor
<1> QED
  BY <1>1, <1>2, <1>3 DEF Next

LEMMA SpoolOKKept ==
  ASSUME OutboxInv, Next
  PROVE  SpoolOK'
<1> USE DEF OutboxInv
<1>1. ASSUME NEW rec \in spool
      PROVE  FromSpool(rec)'
  BY SpooledGrows DEF SpoolOK
<1>2. ASSUME NEW text \in SpoolWrites, WriteSpool(text)
      PROVE  SpoolOK'
  <2>1. spooled' = Append(spooled, text) /\ spooled \in Seq(Texts) /\ text \in Texts
    BY <1>2, OutboxAssumption DEF WriteSpool, TypeOK
  <2>2. PICK own : own = Spooled(Len(spooled'), text)
    OBVIOUS
  <2>3. Len(spooled') \in 1 .. Len(spooled') /\ spooled'[Len(spooled')] = text
    BY <2>1
  <2>4. FromSpool(own)'
    BY <2>2, <2>3 DEF FromSpool, Spooled
  <2>5. \A rec \in spool' : rec \in spool \/ rec = own
    BY <1>2, <2>2 DEF WriteSpool
  <2> QED
    BY <1>1, <2>4, <2>5 DEF SpoolOK
<1>3. ASSUME spool' \subseteq spool
      PROVE  SpoolOK'
  BY <1>1, <1>3 DEF SpoolOK
<1>4. \A d \in Drains : RemoveSpooled(d) => spool' \subseteq spool
  BY DEF RemoveSpooled
<1> QED
  BY <1>2, <1>3, <1>4, SpoolStep

\* A record in some drain's hand is a line, or a spool file with the text the
\* agent gave it.
LEMMA HandIs ==
  ASSUME OutboxInv, NEW d \in Drains, NEW rec \in drain[d].todo
  PROVE  /\ rec.from = "jsonl" => rec \in Lines
         /\ rec.from = "spool" =>
              rec.at \in 1 .. Len(spooled) /\ rec.text = spooled[rec.at] /\ rec.text \notin Malformed
BY LineFacts DEF OutboxInv, DrainOK, HandOK, FromSpool, Spooled

LEMMA SpoolKeptKept ==
  ASSUME OutboxInv, Next
  PROVE  SpoolKept'
<1> USE DEF OutboxInv
<1> DEFINE Kept(n) ==
      \/ \E rec \in spool : rec.at = n
      \/ \E i \in 1 .. Len(ledger) : ledger[i].from = "spool" /\ ledger[i].at = n
<1>1. ASSUME NEW n \in 1 .. Len(spooled), spooled[n] \notin Hopeless, spool \subseteq spool'
      PROVE  Kept(n)'
  <2>1. Kept(n)
    BY <1>1 DEF SpoolKept
  <2> QED
    BY <1>1, <2>1, LedgerGrows
<1>2. CASE spool' = spool /\ spooled' = spooled
  BY <1>1, <1>2 DEF SpoolKept
<1>3. ASSUME NEW text \in SpoolWrites, WriteSpool(text)
      PROVE  SpoolKept'
  <2>1. spooled' = Append(spooled, text) /\ spooled \in Seq(Texts)
    BY <1>3 DEF WriteSpool, TypeOK
  <2>2. /\ Len(spooled') = Len(spooled) + 1 /\ Len(spooled) \in Nat
        /\ \A n \in 1 .. Len(spooled) : spooled'[n] = spooled[n]
    BY <2>1
  <2>3. PICK last, own : last = Len(spooled') /\ own = Spooled(last, text)
    OBVIOUS
  <2>4. Kept(last)'
    <3>1. own \in spool' /\ own.at = last
      BY <1>3, <2>3 DEF WriteSpool, Spooled
    <3> QED
      BY <3>1
  <2>5. \A n \in 1 .. Len(spooled') : n \in 1 .. Len(spooled) \/ n = last
    BY <2>2, <2>3
  <2>6. spool \subseteq spool'
    BY <1>3 DEF WriteSpool
  <2> HIDE DEF Kept
  <2>7. ASSUME NEW n \in 1 .. Len(spooled'), spooled'[n] \notin Hopeless
        PROVE  Kept(n)'
    <3>1. CASE n \in 1 .. Len(spooled)
      BY <1>1, <2>2, <2>6, <2>7, <3>1
    <3>2. CASE n = last
      BY <2>4, <3>2
    <3> QED
      BY <2>5, <3>1, <3>2
  <2> QED
    BY <2>7 DEF SpoolKept, Kept
<1>4. ASSUME NEW d \in Drains, RemoveSpooled(d)
      PROVE  SpoolKept'
  <2>1. PICK gone : gone = Rec(d)
    OBVIOUS
  <2>2. /\ spool' = spool \ {gone} /\ spooled' = spooled /\ ledger' = ledger
        /\ gone \in drain[d].todo /\ gone.from = "spool" /\ Settled(gone)
    BY <1>4, <2>1, RecInHand DEF RemoveSpooled, Advance, DrainOK
  <2>3. /\ gone.at \in 1 .. Len(spooled) /\ gone.text = spooled[gone.at]
        /\ gone.text \notin Malformed /\ gone.text \in Texts
    BY <2>2, HandIs DEF TypeOK
  <2>4. gone.text \notin Hopeless =>
          \E i \in 1 .. Len(ledger) : ledger[i].from = "spool" /\ ledger[i].at = gone.at
    BY <2>2, <2>3 DEF Settled, Recorded, Key, Texts
  <2>5. ASSUME NEW n \in 1 .. Len(spooled), spooled[n] \notin Hopeless
        PROVE  Kept(n)'
    <3>1. Kept(n)
      BY <2>5 DEF SpoolKept
    <3>2. CASE n = gone.at
      BY <2>2, <2>3, <2>4, <2>5, <3>2
    <3>3. CASE n # gone.at
      BY <2>2, <3>1, <3>3
    <3> QED
      BY <3>2, <3>3
  <2> QED
    BY <2>2, <2>5 DEF SpoolKept
<1> QED
  BY <1>2, <1>3, <1>4, SpoolStep

\* The events of the ledger are the old ones and, it may be, a new one.
LEMMA LedgerKept ==
  ASSUME OutboxInv, WholeLinesFromZero, Next
  PROVE  LedgerOK' /\ LinesInOrder'
<1> USE DEF OutboxInv
<1>1. /\ ledger \in Seq(IdempotencyKey) /\ Len(ledger) \in Nat /\ Len(file) \in Nat
      /\ \A line \in Lines : line.at \in Nat /\ line.at < Len(file)
  BY LineFacts DEF TypeOK, Record
<1>2. ASSUME NEW i \in 1 .. Len(ledger), ledger[i].from = "jsonl"
      PROVE  /\ \E line \in Lines : ledger[i] = Key(line) /\ ledger[i].at = line.at
             /\ \A line \in Lines' : line.at < ledger[i].at => Settled(line)'
  <2>1. PICK own \in Lines : ledger[i] = Key(own)
    BY <1>2 DEF LedgerOK
  <2>2. ledger[i].at = own.at
    BY <2>1 DEF Key
  <2>3. ASSUME NEW line \in Lines', line.at < ledger[i].at
        PROVE  Settled(line)'
    <3>1. line \in Lines
      BY <1>1, <2>2, <2>3, LinesGrow
    <3> QED
      BY <1>2, <2>3, <3>1, LedgerGrows DEF LinesInOrder
  <2> QED
    BY <2>1, <2>2, <2>3
<1>3. CASE ledger' = ledger
  <2>1. LedgerOK'
    BY <1>2, <1>3, LinesGrow DEF LedgerOK, Key
  <2> QED
    BY <1>2, <1>3, <2>1 DEF LinesInOrder
<1>4. ASSUME NEW d \in Drains, Publishing(d), Rec(d).text \in Good, ~ Recorded(Key(Rec(d))),
             ledger' = Append(ledger, Key(Rec(d))), file' = file
      PROVE  LedgerOK' /\ LinesInOrder'
  <2>1. PICK rec : rec = Rec(d)
    OBVIOUS
  <2>2. PICK n \in Nat : n = Len(ledger)
    BY <1>1
  <2>3. /\ Len(ledger') = n + 1 /\ ledger'[n + 1] = Key(rec)
        /\ \A i \in 1 .. n : ledger'[i] = ledger[i]
    BY <1>1, <1>4, <2>1, <2>2
  <2>4. /\ rec \in drain[d].todo /\ rec \in Record
        /\ \A other \in drain[d].todo : Before(rec, other)
    BY <1>4, <2>1, RecInHand DEF Publishing
  <2>5. rec.text \in Good /\ rec.text \notin Refused /\ ~ Settled(rec)
    BY <1>4, <2>1, OutboxAssumption DEF Settled
  <2>6. rec.from = "jsonl" => rec \in Lines
    BY <2>4, HandIs
  <2>7. Key(rec).from = rec.from /\ Key(rec).at = rec.at
    BY DEF Key
  <2>8. Lines' = Lines
    BY <1>4 DEF Lines, LinesOf, AloneOnLine
  <2>9. LedgerOK'
    <3>1. ASSUME NEW i \in 1 .. n + 1, ledger'[i].from = "jsonl"
          PROVE  \E line \in Lines : ledger'[i] = Key(line)
      <4>1. CASE i \in 1 .. n
        BY <1>2, <2>2, <2>3, <3>1, <4>1
      <4>2. CASE i = n + 1
        BY <2>3, <2>6, <2>7, <3>1, <4>2
      <4> QED
        BY <4>1, <4>2
    <3> QED
      BY <2>3, <2>8, <3>1 DEF LedgerOK, Key
  <2>10. ASSUME rec.from = "jsonl"
         PROVE  /\ \A j \in 1 .. n : ledger[j].from = "jsonl" => ledger[j].at < rec.at
                /\ \A line \in Lines : line.at < rec.at => Settled(line)'
    <3>1. ASSUME NEW j \in 1 .. n, ledger[j].from = "jsonl"
          PROVE  ledger[j].at < rec.at
      <4>1. PICK own \in Lines : ledger[j] = Key(own) /\ ledger[j].at = own.at
        BY <1>2, <2>2, <3>1
      <4>2. ~ rec.at < own.at
        BY <2>2, <2>5, <2>6, <2>10, <3>1, <4>1 DEF LinesInOrder
      <4>3. own # rec
        BY <1>4, <2>1, <2>2, <4>1 DEF Recorded
      <4>4. own.at # rec.at
        BY <2>6, <2>10, <4>3, LineFacts
      <4> QED
        BY <1>1, <2>6, <2>10, <4>1, <4>2, <4>4
    <3>2. ASSUME NEW line \in Lines, line.at < rec.at
          PROVE  Settled(line)'
      <4>1. line \notin drain[d].todo
        BY <1>1, <2>4, <2>6, <2>10, <3>2, LineFacts DEF Before
      <4>2. Settled(line)
        BY <2>4, <2>10, <3>2, <4>1 DEF DrainOK, HandOK
      <4> QED
        BY <4>2, LedgerGrows
    <3> QED
      BY <3>1, <3>2
  <2>11. LinesInOrder'
    <3>1. ASSUME NEW i \in 1 .. n + 1, ledger'[i].from = "jsonl"
          PROVE  /\ \A j \in 1 .. i - 1 : ledger'[j].from = "jsonl" => ledger'[j].at < ledger'[i].at
                 /\ \A line \in Lines' : line.at < ledger'[i].at => Settled(line)'
      <4>1. CASE i \in 1 .. n
        <5>1. \A j \in 1 .. i - 1 : j \in 1 .. n
          BY <2>2, <4>1
        <5>2. i \in 1 .. Len(ledger) /\ ledger'[i] = ledger[i]
          BY <2>2, <2>3, <4>1
        <5>3. \A j \in 1 .. i - 1 : ledger[j].from = "jsonl" => ledger[j].at < ledger[i].at
          BY <3>1, <5>2 DEF LinesInOrder
        <5> QED
          BY <1>2, <2>3, <3>1, <5>1, <5>2, <5>3
      <4>2. CASE i = n + 1
        <5>1. 1 .. i - 1 = 1 .. n /\ ledger'[i] = Key(rec)
          BY <2>2, <2>3, <4>2
        <5> QED
          BY <2>3, <2>7, <2>8, <2>10, <3>1, <5>1
      <4> QED
        BY <4>1, <4>2
    <3> QED
      BY <2>3, <3>1 DEF LinesInOrder
  <2> QED
    BY <2>9, <2>11
<1> QED
  BY <1>3, <1>4, LedgerStep

LEMMA OutboxInductive ==
  ASSUME WholeLinesFromZero, OutboxInv, [Next]_vars
  PROVE  OutboxInv'
<1>1. CASE UNCHANGED vars
  <2>1. /\ file' = file /\ cursor' = cursor /\ spool' = spool /\ spooled' = spooled
        /\ ledger' = ledger /\ drain' = drain /\ faults' = faults
    BY <1>1 DEF vars
  <2>2. TypeOK'
    BY TypeInductive DEF OutboxInv
  <2>3. LinesTerminated' /\ CursorOK' /\ SpoolOK' /\ SpoolKept'
    BY <2>1 DEF OutboxInv, LinesTerminated, Terminated, CursorOK, AtLineStart, SpoolOK, FromSpool,
                SpoolKept, CursorTrailsPublish, Lines, LinesOf, AloneOnLine, Settled, Recorded, Key
  <2>4. LedgerOK' /\ LinesInOrder'
    BY <2>1 DEF OutboxInv, LedgerOK, LinesInOrder, Lines, LinesOf, AloneOnLine, Settled, Recorded,
                Key
  <2>5. ASSUME NEW d \in Drains
        PROVE  DrainOK(d)'
    <3>1. DrainOK(d)
      BY DEF OutboxInv
    <3> QED
      BY <2>1, <3>1 DEF DrainOK, AtLineStart, Covered, HandOK, FromSpool, Rec, First,
                        Lines, LinesOf, AloneOnLine, Settled, Recorded, Key
  <2> QED
    BY <2>2, <2>3, <2>4, <2>5 DEF OutboxInv
<1>2. CASE Next
  <2>1. TypeOK' /\ LinesTerminated'
    BY <1>2, TypeInductive, LinesGrow DEF OutboxInv
  <2>2. CursorOK' /\ SpoolOK' /\ SpoolKept' /\ LedgerOK' /\ LinesInOrder'
    BY <1>2, CursorKept, SpoolOKKept, SpoolKeptKept, LedgerKept
  <2>3. \A d \in Drains : DrainOK(d)'
    BY <1>2, DrainsKept
  <2> QED
    BY <2>1, <2>2, <2>3 DEF OutboxInv
<1> QED
  BY <1>1, <1>2

LEMMA OutboxInitial ==
  ASSUME WholeLinesFromZero, Init, TypeOK
  PROVE  OutboxInv
<1>1. Len(file) = 0 /\ Len(spooled) = 0 /\ Len(ledger) = 0 /\ cursor = 0 /\ spool = {}
  BY DEF Init, WholeLinesFromZero
<1>2. Lines = {}
  BY <1>1 DEF Lines, LinesOf
<1>3. \A d \in Drains : drain[d].phase = "idle" /\ drain[d].todo = {}
  BY DEF Init, Idle
<1>4. LinesTerminated /\ CursorOK /\ SpoolOK
  BY <1>1, <1>2 DEF LinesTerminated, Terminated, CursorOK, AtLineStart, CursorTrailsPublish, SpoolOK
<1>5. \A d \in Drains : DrainOK(d)
  BY <1>2, <1>3 DEF DrainOK, HandOK
<1>6. LedgerOK /\ LinesInOrder /\ SpoolKept
  BY <1>1 DEF LedgerOK, LinesInOrder, SpoolKept
<1> QED
  BY <1>4, <1>5, <1>6 DEF OutboxInv

\* The inductive invariant: what each drain has in hand, the cursor, the spool
\* and the ledger agree with the file, whatever the order of the drains' steps.
THEOREM OutboxInvariant ==
  ASSUME WholeLinesFromZero
  PROVE  Spec => []OutboxInv
<1>1. Init /\ TypeOK => OutboxInv
  BY OutboxInitial
<1>2. OutboxInv /\ [Next]_vars => OutboxInv'
  BY OutboxInductive
<1> QED
  BY <1>1, <1>2, TypeCorrect, PTL DEF Spec

\* Every line the cursor has passed is on the ledger, unless it can never be:
\* drainOutbox moves the cursor only after the publish (cli/outbox.ts).
THEOREM CursorTrails ==
  ASSUME WholeLinesFromZero
  PROVE  Spec => []CursorTrailsPublish
<1>1. OutboxInv => CursorTrailsPublish
  BY DEF OutboxInv, CursorOK
<1> QED
  BY <1>1, OutboxInvariant, PTL

\* The ledger has the lines of outbox.jsonl in the order the agent wrote them,
\* with none missing before any of them, however many drains publish at once.
THEOREM LedgerInFileOrder ==
  ASSUME WholeLinesFromZero
  PROVE  Spec => []LinesInOrder
<1>1. OutboxInv => LinesInOrder
  BY DEF OutboxInv
<1> QED
  BY <1>1, OutboxInvariant, PTL

\* A file leaves outbox.d/ only when its record is on the ledger.
THEOREM SpoolNotLost ==
  ASSUME WholeLinesFromZero
  PROVE  Spec => []SpoolKept
<1>1. OutboxInv => SpoolKept
  BY DEF OutboxInv
<1> QED
  BY <1>1, OutboxInvariant, PTL

\* Each event of a line is that line's only one.
LEMMA EventsAreLines ==
  ASSUME OutboxInv
  PROVE  OneEventPerLine
<1> USE DEF OutboxInv
<1> DEFINE E == {i \in 1 .. Len(ledger) : ledger[i].from = "jsonl"}
           G == {line \in Lines : line.text \in Good}
           LineOf == [i \in E |-> CHOOSE line \in G : ledger[i].at = line.at]
           Place == [line \in G |-> line.at]
<1>1. ASSUME NEW i \in E
      PROVE  \E line \in G : ledger[i].at = line.at
  <2>1. PICK line \in Lines : ledger[i] = Key(line)
    BY DEF LedgerOK
  <2>2. ledger[i] \in IdempotencyKey
    BY DEF TypeOK
  <2> QED
    BY <2>1, <2>2 DEF Key, IdempotencyKey
<1>2. LineOf \in [E -> G] /\ \A i \in E : ledger[i].at = LineOf[i].at
  BY <1>1
<1>3. ASSUME NEW i \in E, NEW j \in E, LineOf[i] = LineOf[j]
      PROVE  i = j
  <2>1. ledger[i].at = ledger[j].at
    BY <1>2, <1>3
  <2>2. ledger[i].at \in Nat /\ i \in Nat /\ j \in Nat
    <3>1. ledger \in Seq(IdempotencyKey)
      BY DEF TypeOK
    <3>2. i \in 1 .. Len(ledger) /\ j \in 1 .. Len(ledger)
      OBVIOUS
    <3>3. ledger[i] \in IdempotencyKey
      BY <3>1, <3>2
    <3> QED
      BY <3>1, <3>2, <3>3 DEF IdempotencyKey
  <2>3. ~ i < j /\ ~ j < i
    <3>1. /\ i < j => i \in 1 .. j - 1
          /\ j < i => j \in 1 .. i - 1
      BY <2>2
    <3> QED
      BY <2>1, <2>2, <3>1 DEF LinesInOrder
  <2> QED
    BY <2>2, <2>3
<1>4. LineOf \in Injection(E, G)
  BY <1>2, <1>3 DEF Injection, IsInjective
<1>5. Place \in Injection(G, 0 .. Len(file))
  <2>1. Len(file) \in Nat
    BY DEF TypeOK
  <2>2. \A line \in Lines : line.at \in 0 .. Len(file)
    BY <2>1, LineFacts DEF Record
  <2>3. \A line, other \in Lines : line.at = other.at => line = other
    BY LineFacts
  <2> QED
    BY <2>2, <2>3 DEF Injection, IsInjective
<1> HIDE DEF E, G, LineOf, Place
<1>6. IsFiniteSet(0 .. Len(file))
  BY FS_Interval DEF TypeOK
<1>7. IsFiniteSet(G)
  BY <1>5, <1>6, FS_Injection
<1>8. Cardinality(E) =< Cardinality(G)
  BY <1>4, <1>7, FS_Injection
<1> QED
  BY <1>8 DEF OneEventPerLine, E, G

\* However often a line is tried, by however many drains, after crashes and lost
\* answers, it is one event (keyFor, cli/outbox.ts).
THEOREM NoLineTwice ==
  ASSUME WholeLinesFromZero
  PROVE  Spec => []OneEventPerLine
<1>1. OutboxInv => OneEventPerLine
  BY EventsAreLines
<1> QED
  BY <1>1, OutboxInvariant, PTL
=============================================================================
