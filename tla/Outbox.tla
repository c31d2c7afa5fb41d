------------------------------- MODULE Outbox -------------------------------
(***************************************************************************)
(* The outbox of one checkout (cli/outbox.ts, drained by cli/index.ts).    *)
(* The agent appends lines to outbox.jsonl, or drops a file in the         *)
(* outbox.d/ spool when the record is large.  A drain reads the cursor,    *)
(* reads what lies past it, publishes record by record under keys made     *)
(* from the text and its byte offset, and moves the cursor after each.     *)
(*                                                                         *)
(* Several drains may run in one checkout: `flotilla start` drains every   *)
(* two seconds and `flotilla ship` drains once, with no lock between them. *)
(*                                                                         *)
(* A line's text is one value and its newline another, so a line is two    *)
(* units of the file and an offset counts units.  Two texts with no        *)
(* newline between them parse as no JSON at all.                           *)
(***************************************************************************)
EXTENDS Integers, Sequences, FiniteSets

CONSTANTS Drains,      \* the processes that may drain this outbox
          Good,        \* texts the ledger takes
          Refused,     \* texts of a known kind that the API answers with 403
          Hopeless,    \* texts that can never be published and are reported and passed
          Malformed,   \* texts that are no JSON or of no known kind
          NL,          \* the newline
          StartCursor, \* outbox.cursor at first: 0, or what an outbox since replaced left behind
          Writes,      \* what an agent appends to outbox.jsonl at a time
          SpoolWrites, \* the texts an agent spools in this instance
          MaxUnits,    \* bound: length of outbox.jsonl
          MaxSpool,    \* bound: files ever spooled
          MaxFaults    \* bound: crashes and lost cursors

Texts == Good \cup Refused \cup Hopeless \cup Malformed

ASSUME OutboxAssumption ==
  /\ NL \notin Texts
  /\ \A w \in Writes : w \in Seq(Texts \cup {NL})
  /\ SpoolWrites \subseteq Texts
  /\ StartCursor \in Nat /\ MaxUnits \in Nat /\ MaxSpool \in Nat /\ MaxFaults \in Nat
  /\ Good \cap (Refused \cup Hopeless \cup Malformed) = {}
  /\ Refused \cap (Hopeless \cup Malformed) = {}
  /\ Hopeless \cap Malformed = {}

VARIABLES file,     \* outbox.jsonl
          cursor,   \* outbox.cursor
          spool,    \* the files of outbox.d/, numbered by age
          spooled,  \* the texts the agent has spooled, oldest first
          ledger,   \* what the store recorded, by idempotency key, in order
          drain,    \* what each drain is doing
          faults

vars == <<file, cursor, spool, spooled, ledger, drain, faults>>

-----------------------------------------------------------------------------
Line(offset, length, text) ==
  [from |-> "jsonl", at |-> offset, length |-> length, text |-> text]

Spooled(id, text) == [from |-> "spool", at |-> id, length |-> 0, text |-> text]

Record == [from : {"jsonl", "spool"}, at : Nat, length : {0, 2}, text : Texts]

IdempotencyKey == [from : {"jsonl", "spool"}, at : Nat, text : Good]

\* keyFor, and the uuid a spool file is named by.
Key(rec) == [from |-> rec.from, at |-> rec.at, text |-> rec.text]

Idle == [phase |-> "idle", cursor |-> 0, todo |-> {}]

(***************************************************************************)
(* The records found in raw, whose first unit is taken to be at offset     *)
(* base: the texts alone on their line.  The last line counts its newline  *)
(* whether it is there or not.                                             *)
(***************************************************************************)
AloneOnLine(raw, i) ==
  /\ i = 1 \/ raw[i - 1] = NL
  /\ i = Len(raw) \/ raw[i + 1] = NL

LinesOf(raw, base) ==
  {Line(base + i - 1, 2, raw[i]) :
     i \in {n \in 1 .. Len(raw) : raw[n] \notin Malformed \cup {NL} /\ AloneOnLine(raw, n)}}

\* What a drain that read cursor c reads of the file.
Unread(c) == IF c > Len(file) THEN file ELSE SubSeq(file, c + 1, Len(file))

\* Mutant: offsets are counted from where this read began.
Pending_Relative(c) ==
  LinesOf(Unread(c), 0) \cup {rec \in spool : rec.text \notin Malformed}

\* readPending: the lines past the cursor, and the spool files that parse.
Pending(c) ==
  LinesOf(Unread(c), c) \cup {rec \in spool : rec.text \notin Malformed}

\* The order of a drain: byte offsets are small numbers and mtimes large ones, so
\* the lines come first, by offset, then the files, by age.
Before(x, y) ==
  \/ x.from = "jsonl" /\ y.from = "spool"
  \/ x.from = y.from /\ x.at =< y.at

First(todo) == CHOOSE rec \in todo : \A other \in todo : Before(rec, other)

-----------------------------------------------------------------------------
Init ==
  /\ file = << >> /\ cursor = StartCursor
  /\ spool = {} /\ spooled = << >>
  /\ ledger = << >>
  /\ drain = [d \in Drains |-> Idle]
  /\ faults = 0

\* The agent, or `flotilla report`, appends to outbox.jsonl.
Write(w) ==
  /\ Len(file) + Len(w) =< MaxUnits
  /\ file' = file \o w
  /\ UNCHANGED <<cursor, spool, spooled, ledger, drain, faults>>

\* A record over 4 KiB is renamed into the spool, whole.
WriteSpool(text) ==
  /\ Len(spooled) < MaxSpool
  /\ spooled' = Append(spooled, text)
  /\ spool' = spool \cup {Spooled(Len(spooled'), text)}
  /\ UNCHANGED <<file, cursor, ledger, drain, faults>>

-----------------------------------------------------------------------------
\* readPending, first half.
ReadCursor(d) ==
  /\ drain[d].phase = "idle"
  /\ drain' = [drain EXCEPT ![d] = [phase |-> "reading", cursor |-> cursor, todo |-> {}]]
  /\ UNCHANGED <<file, cursor, spool, spooled, ledger, faults>>

\* Mutant: a drain with nothing left does not end.
Resume_NoEnd(d, todo) ==
  drain' = [drain EXCEPT ![d] = [phase |-> "publishing", cursor |-> 0, todo |-> todo]]

\* Go on with the records left, or end the drain.
Resume(d, todo) ==
  drain' = [drain EXCEPT ![d] =
              IF todo = {} THEN Idle ELSE [phase |-> "publishing", cursor |-> 0, todo |-> todo]]

\* Mutant: a drain takes the files it read out of the spool.
ReadPending_Takes(d) ==
  /\ drain[d].phase = "reading"
  /\ Resume(d, Pending(drain[d].cursor))
  /\ spool' = {}
  /\ UNCHANGED <<file, cursor, spooled, ledger, faults>>

ReadPending(d) ==
  /\ drain[d].phase = "reading"
  /\ Resume(d, Pending(drain[d].cursor))
  /\ UNCHANGED <<file, cursor, spool, spooled, ledger, faults>>

Publishing(d) == drain[d].phase = "publishing"

Rec(d) == First(drain[d].todo)

\* The records behind the one in hand.
Rest(d) == drain[d].todo \ {Rec(d)}

\* The store's append: a key it knows is answered with the event it named.
Recorded(key) == \E i \in 1 .. Len(ledger) : ledger[i] = key

RecordOnce(rec) ==
  ledger' = IF Recorded(Key(rec)) THEN ledger ELSE Append(ledger, Key(rec))

\* Only now may the record be passed.
Settle(d) == drain' = [drain EXCEPT ![d].phase = "saving"]

PublishOk(d) ==
  /\ Publishing(d) /\ Rec(d).text \in Good
  /\ RecordOnce(Rec(d))
  /\ Settle(d)
  /\ UNCHANGED <<file, cursor, spool, spooled, faults>>

\* Mutant: a record that can never be published stops the drain like any other failure.
PassHopeless_Stops(d) ==
  /\ Publishing(d) /\ Rec(d).text \in Hopeless
  /\ drain' = [drain EXCEPT ![d] = Idle]
  /\ UNCHANGED <<file, cursor, spool, spooled, ledger, faults>>

\* A record that can never be published is reported and passed, not retried.
PassHopeless(d) ==
  /\ Publishing(d) /\ Rec(d).text \in Hopeless
  /\ Settle(d)
  /\ UNCHANGED <<file, cursor, spool, spooled, ledger, faults>>

\* Mutant: a failed publish skips to the next record.
PublishFails_Skips(d) ==
  /\ Publishing(d) /\ Rec(d).text \notin Hopeless
  /\ Resume(d, Rest(d))
  /\ UNCHANGED <<file, cursor, spool, spooled, ledger, faults>>

\* Offline, or refused with 403: the drain stops at this record.
PublishFails(d) ==
  /\ Publishing(d) /\ Rec(d).text \notin Hopeless
  /\ drain' = [drain EXCEPT ![d] = Idle]
  /\ UNCHANGED <<file, cursor, spool, spooled, ledger, faults>>

\* The store recorded the event; its answer did not arrive.
AnswerLost(d) ==
  /\ Publishing(d) /\ Rec(d).text \in Good
  /\ RecordOnce(Rec(d))
  /\ drain' = [drain EXCEPT ![d] = Idle]
  /\ UNCHANGED <<file, cursor, spool, spooled, faults>>

\* The next record, or the end of the drain.
Advance(d) ==
  /\ Resume(d, Rest(d))
  /\ UNCHANGED <<file, spooled, ledger, faults>>

\* Mutant: the cursor is moved on from where it is, not set.
SaveCursor_Increment(d) ==
  /\ drain[d].phase = "saving" /\ Rec(d).from = "jsonl"
  /\ cursor' = cursor + Rec(d).length
  /\ Advance(d)
  /\ UNCHANGED spool

\* writeCursor: a rename, so the cursor is the old one or the new one.
SaveCursor(d) ==
  /\ drain[d].phase = "saving" /\ Rec(d).from = "jsonl"
  /\ cursor' = Rec(d).at + Rec(d).length
  /\ Advance(d)
  /\ UNCHANGED spool

\* The file's existence is the queue; rm --force minds no file already gone.
RemoveSpooled(d) ==
  /\ drain[d].phase = "saving" /\ Rec(d).from = "spool"
  /\ spool' = spool \ {Rec(d)}
  /\ Advance(d)
  /\ UNCHANGED cursor

-----------------------------------------------------------------------------
\* The process dies and is started again; it keeps nothing in memory.
Crash(d) ==
  /\ faults < MaxFaults
  /\ drain[d].phase # "idle"
  /\ faults' = faults + 1
  /\ drain' = [drain EXCEPT ![d] = Idle]
  /\ UNCHANGED <<file, cursor, spool, spooled, ledger>>

\* readCursor takes a missing or corrupt cursor for zero.
LoseCursor ==
  /\ faults < MaxFaults
  /\ faults' = faults + 1
  /\ cursor' = 0
  /\ UNCHANGED <<file, spool, spooled, ledger, drain>>

-----------------------------------------------------------------------------
\* A drain's own steps: no answer from the backend is awaited.
Local(d) == ReadCursor(d) \/ ReadPending(d) \/ PassHopeless(d) \/ SaveCursor(d) \/ RemoveSpooled(d)

Next ==
  \/ \E w \in Writes : Write(w)
  \/ \E text \in SpoolWrites : WriteSpool(text)
  \/ \E d \in Drains :
       \/ Local(d)
       \/ PublishOk(d) \/ PublishFails(d) \/ AnswerLost(d)
       \/ Crash(d)
  \/ LoseCursor

\* The two-second loop comes round again, a drain's own steps end, and the
\* backend is not offline each and every time a record is tried.
Fairness == \A d \in Drains : WF_vars(Local(d)) /\ SF_vars(PublishOk(d))

Spec == Init /\ [][Next]_vars /\ Fairness

-----------------------------------------------------------------------------
(* Properties.                                                             *)

\* The publishable lines of the whole file, at their true offsets.
Lines == LinesOf(file, 0)

\* A drain stops at a refused record for good.
Wedged ==
  \/ \E line \in Lines : line.text \in Refused
  \/ \E rec \in spool : rec.text \in Refused

(* Every file and every drain has its type; a drain past readPending has a *)
(* record in hand.                                                         *)
TypeOK ==
  /\ file \in Seq(Texts \cup {NL})
  /\ cursor \in Nat
  /\ spooled \in Seq(Texts)
  /\ spool \subseteq Record
  /\ ledger \in Seq(IdempotencyKey)
  /\ drain \in [Drains -> [phase : {"idle", "reading", "publishing", "saving"},
                           cursor : Nat, todo : SUBSET Record]]
  /\ \A d \in Drains : drain[d].phase \in {"publishing", "saving"} <=> drain[d].todo # {}
  /\ faults \in Nat

\* Done with: recorded if the ledger takes it, and not one the API refuses.
Settled(rec) ==
  /\ rec.text \notin Refused
  /\ rec.text \in Good => Recorded(Key(rec))

(* The cursor trails the publish: every line the cursor has passed is on   *)
(* the ledger, though drains crash, overlap, and lose answers.             *)
CursorTrailsPublish ==
  \A line \in Lines : line.at < cursor => Settled(line)

(* No event out of nothing: the ledger never shows more events from        *)
(* outbox.jsonl than the agent wrote lines.                                *)
OneEventPerLine ==
  Cardinality({i \in 1 .. Len(ledger) : ledger[i].from = "jsonl"})
    =< Cardinality({line \in Lines : line.text \in Good})

(* In the agent's order: the ledger has the lines in file order, and none  *)
(* while an earlier one is missing or is one the API refuses.              *)
LinesInOrder ==
  \A i \in 1 .. Len(ledger) : ledger[i].from = "jsonl" =>
    /\ \A j \in 1 .. i - 1 : ledger[j].from = "jsonl" => ledger[j].at < ledger[i].at
    /\ \A line \in Lines : line.at < ledger[i].at => Settled(line)

(* A spooled record is in the spool until it is on the ledger.             *)
SpoolKept ==
  \A n \in 1 .. Len(spooled) : spooled[n] \notin Hopeless =>
    \/ \E rec \in spool : rec.at = n
    \/ \E i \in 1 .. Len(ledger) : ledger[i].from = "spool" /\ ledger[i].at = n

LineWritten(n) == \E line \in Lines : line.at = n /\ line.text \in Good
LineRecorded(n) == \E i \in 1 .. Len(ledger) : ledger[i].from = "jsonl" /\ ledger[i].at = n
FileSpooled(n) == n \in 1 .. Len(spooled) /\ spooled[n] \in Good
FileRecorded(n) == \E i \in 1 .. Len(ledger) : ledger[i].from = "spool" /\ ledger[i].at = n

(* Nothing is forgotten: every line and every spooled file reaches the     *)
(* ledger in the end, unless a record the API refuses wedges the drains.   *)
EverythingPublished ==
  /\ \A n \in 0 .. MaxUnits - 1 : LineWritten(n) ~> LineRecorded(n) \/ Wedged
  /\ \A n \in 1 .. MaxSpool : FileSpooled(n) ~> FileRecorded(n) \/ Wedged

(* No line wedges the queue: a line reaches the ledger whatever other      *)
(* lines there are.                                                        *)
NoLineWedges ==
  \A n \in 0 .. MaxUnits - 1 : LineWritten(n) ~> LineRecorded(n)
=============================================================================
