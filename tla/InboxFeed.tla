------------------------------ MODULE InboxFeed ------------------------------
(***************************************************************************)
(* How the ledger reaches an agent's inbox.jsonl: the live cache of the    *)
(* store (subscribe in firebase/store.ts), the bridge's feed on top of it  *)
(* (startInboxFeed in cli/bridge.ts), and the delivery loop of `flotilla   *)
(* start` (cli/index.ts), which takes turns with the bridge over the same  *)
(* inbox, the same state.json and the same directory of published files.   *)
(*                                                                         *)
(* A frame is a hint: it carries the seq of the counter document, and the  *)
(* feed reads the events itself.  A frame that comes while the feed is     *)
(* busy is dropped.  Every await is a step of its own, and the process may *)
(* die between any two.                                                    *)
(*                                                                         *)
(* state.json has other writers.  `flotilla claim` reads it, waits for the *)
(* API, and writes back what it read; `flotilla connect` begins it anew.   *)
(* Both run beside the process that delivers, whenever somebody types them.*)
(***************************************************************************)
EXTENDS Blackboard

CONSTANTS Listeners,   \* the listeners of one subscription, "counter" and "agents" among them
          Page,        \* LIMITS.events
          Modes,       \* the processes that deliver in this instance: "bridge", "start"
          Rewriters,   \* the claim and connect commands run in this checkout
          MaxStarts    \* bound: processes started

ASSUME InboxAssumption ==
  /\ {"counter", "agents"} \subseteq Listeners
  /\ Page \in Nat \ {0} /\ MaxStarts \in Nat
  /\ Modes \subseteq {"bridge", "start"}

VARIABLES cache,    \* the live cache of the running process
          feed,     \* the delivery under way
          inbox,    \* the seq of each line of inbox.jsonl
          saved,    \* last_seen_seq in state.json
          files,    \* what is materialised under .agentic
          held,     \* the cursor each claim or connect is about to write
          missed,   \* events passed over because their file could not be fetched
          rewound,  \* whether the saved cursor fell back beside the running start loop
          starts

diskVars == <<inbox, saved, files>>
feedVars == <<cache, feed, diskVars, held, missed, rewound, starts>>
vars     == <<blackboardVars, feedVars>>

Missing == "missing"   \* no such file on disk

Cache == [seq : Nat, ready : SUBSET Listeners]
Cold  == [seq |-> 0, ready |-> {}]

Feed == [mode : Modes \cup {"off"},
         pc   : {"idle", "paging", "fetched"},
         seen : Nat,    \* lastSeen of the bridge, `advanced` of the start loop
         next : Nat,    \* the first event of the page not yet delivered
         upto : Nat,    \* the last event of the page
         base : Nat,    \* start: state.last_seen_seq as it was read for the page
         from : Nat]    \* lines of the inbox when the process started

Off == [mode |-> "off", pc |-> "idle", seen |-> 0, next |-> 1, upto |-> 0, base |-> 0,
        from |-> 0]

Held   == [pc : {"ready", "read", "done"}, seq : Nat]
NotYet == [pc |-> "ready", seq |-> 0]

Init ==
  /\ BlackboardInit
  /\ cache = Cold
  /\ feed = Off
  /\ inbox = <<>>
  /\ saved = 0
  /\ files = [path \in Paths |-> Missing]
  /\ held = [c \in Rewriters |-> NotYet]
  /\ missed = {}
  /\ rewound = FALSE
  /\ starts = 0

Lesser(m, n) == IF m < n THEN m ELSE n
Larger(m, n) == IF m > n THEN m ELSE n

-----------------------------------------------------------------------------
(* The live cache.                                                         *)

\* readEvents, capped.
ReadPage(after) ==
  feed' = [feed EXCEPT !.pc = "paging", !.seen = after, !.next = after + 1,
                       !.upto = Lesser(after + Page, Len(log)),
                       !.base = IF feed.mode = "start" THEN after ELSE 0]

\* The head of pump: there is no frame before every listener has loaded, and one is
\* dropped while the feed is busy and when it carries nothing new.
Pump(c) ==
  IF c.ready = Listeners /\ feed.pc = "idle" /\ c.seq > feed.seen
    THEN ReadPage(feed.seen)
    ELSE UNCHANGED feed

\* Mutant: the feed follows the counter alone, and no heartbeat wakes it.
Listen_CounterOnly(l) ==
  LET c == [ready |-> cache.ready \cup {l},
            seq   |-> IF l = "counter" THEN Len(log) ELSE cache.seq]
  IN  /\ feed.mode = "bridge"
      /\ c # cache
      /\ cache' = c
      /\ Pump(c)
      /\ UNCHANGED <<blackboardVars, diskVars, held, missed, rewound, starts>>

\* A listener delivers its initial load, a moved counter, or one more heartbeat, and a
\* frame follows.  A debounced frame comes later, as the one of the next heartbeat does.
Listen(l) ==
  LET c == [ready |-> cache.ready \cup {l},
            seq   |-> IF l = "counter" THEN Len(log) ELSE cache.seq]
  IN  /\ feed.mode = "bridge"
      /\ l = "agents" \/ c # cache
      /\ cache' = c
      /\ Pump(c)
      /\ UNCHANGED <<blackboardVars, diskVars, held, missed, rewound, starts>>

\* The start loop reads from the saved cursor, every two seconds.
Poll ==
  /\ feed.mode = "start" /\ feed.pc = "idle"
  /\ Len(log) > saved
  /\ ReadPage(saved)
  /\ UNCHANGED <<blackboardVars, cache, diskVars, held, missed, rewound, starts>>

-----------------------------------------------------------------------------
(* One page, event by event.                                               *)

Turn(layer) ==
  /\ feed.pc = "paging" /\ feed.next \in 1 .. feed.upto
  /\ log[feed.next].layer = layer

\* Mutant: the cursor moves with the page, not with the event.
Past_WithThePage ==
  [feed EXCEPT !.pc = "paging", !.next = @ + 1,
               !.seen = IF feed.next = feed.upto THEN Larger(@, feed.next) ELSE @]

\* The event is done with, and the cursor in memory moves past it.
Past == [feed EXCEPT !.pc = "paging", !.next = @ + 1, !.seen = Larger(@, feed.next)]

\* The human layer leaves no line.  The bridge moves its cursor past it; the API never
\* shows it to the start loop, whose cursor only moves with the events it was given.
Withhold ==
  /\ Turn("human")
  /\ feed' = IF feed.mode = "bridge" THEN Past ELSE [feed EXCEPT !.next = @ + 1]
  /\ UNCHANGED <<blackboardVars, cache, diskVars, held, missed, rewound, starts>>

\* What the CDN serves for a pointer: the file at that path in that commit.
Pinned(e) == CHOOSE c \in ContentsAt(e.sha, e.draft.path) : TRUE

\* materialise: a file that is there already is taken as it is.
Materialise ==
  LET e == log[feed.next] IN
  /\ Turn("fact")
  /\ files' = [files EXCEPT ![e.draft.path] = IF @ = Missing THEN Pinned(e) ELSE @]
  /\ feed'  = [feed EXCEPT !.pc = "fetched"]
  /\ UNCHANGED <<blackboardVars, cache, inbox, saved, held, missed, rewound, starts>>

WriteLine ==
  /\ feed.next \in 1 .. feed.upto
  /\ feed.pc = "fetched" \/ Turn("plain")
  /\ inbox' = Append(inbox, feed.next)
  /\ feed'  = Past
  /\ UNCHANGED <<blackboardVars, cache, saved, files, held, missed, rewound, starts>>

\* Between pages; only the bridge keeps its cursor in memory.
Idle == [feed EXCEPT !.pc = "idle", !.next = 1, !.upto = 0, !.base = 0,
                     !.seen = IF feed.mode = "bridge" THEN @ ELSE 0]

\* Mutant: the start loop saves where the page ends, whatever was delivered of it.
SaveCursor_PageEnd ==
  /\ feed.pc = "paging"
  /\ saved' = feed.upto
  /\ feed'  = IF feed.next > feed.upto THEN Idle ELSE feed
  /\ UNCHANGED <<blackboardVars, cache, inbox, files, held, missed, rewound, starts>>

PageDone == feed.pc = "paging" /\ feed.next > feed.upto

\* The end of a page.  The start loop writes only what is ahead of the cursor it read.
SaveCursor ==
  /\ PageDone
  /\ saved' = IF feed.mode = "start" /\ feed.seen = feed.base THEN saved ELSE feed.seen
  /\ feed'  = Idle
  /\ UNCHANGED <<blackboardVars, cache, inbox, files, held, missed, rewound, starts>>

-----------------------------------------------------------------------------
(* The other writers of state.json.                                        *)

\* A cursor of n takes the place of the saved one, below it or not.
Rewrite(n) ==
  /\ saved' = n
  /\ rewound' = (rewound \/ (feed.mode = "start" /\ n < saved))

Holding(c, pc, n) == held' = [held EXCEPT ![c] = [pc |-> pc, seq |-> n]]

\* Mutant: the claim takes the cursor from the snapshot it has of the board.
ReadCursor_FromSnapshot(c) ==
  /\ held[c].pc = "ready"
  /\ Holding(c, "read", Len(log)) /\ UNCHANGED faults
  /\ UNCHANGED <<branch, log, work, cache, feed, diskVars, missed, rewound, starts>>

\* cmdClaim reads the cursor and asks the API about its role; a file somebody is just
\* writing reads as zero.
ReadCursor(c) ==
  /\ held[c].pc = "ready"
  /\ \/ Holding(c, "read", saved) /\ UNCHANGED faults
     \/ Holding(c, "read", 0) /\ Fault
  /\ UNCHANGED <<branch, log, work, cache, feed, diskVars, missed, rewound, starts>>

\* writeAgenticTree, with the cursor of then.
WriteBack(c) ==
  /\ held[c].pc = "read"
  /\ Rewrite(held[c].seq)
  /\ Holding(c, "done", 0)
  /\ UNCHANGED <<blackboardVars, cache, feed, inbox, files, missed, starts>>

\* cmdConnect, in a checkout that was connected before: the cursor begins at zero.
Connect(c) ==
  /\ held[c].pc = "ready"
  /\ Rewrite(0)
  /\ Holding(c, "done", 0)
  /\ UNCHANGED <<blackboardVars, cache, feed, inbox, files, missed, starts>>

\* The start loop finds state.json half written, and reads from the first event.
TornPoll ==
  /\ Fault
  /\ feed.mode = "start" /\ feed.pc = "idle"
  /\ Len(log) > 0
  /\ ReadPage(0)
  /\ rewound' = TRUE
  /\ UNCHANGED <<branch, log, work, cache, diskVars, held, missed, starts>>

-----------------------------------------------------------------------------
(* What goes wrong.                                                        *)

\* The process is gone, and its memory with it.
Gone == feed' = Off /\ cache' = Cold /\ rewound' = FALSE

\* It may be that it was writing state.json, and leaves it cut off: that reads as zero.
MaybeCutOff == saved' = saved \/ (PageDone /\ saved' = 0)

\* Mutant: what an error answer carries is taken for the file.
FetchFails_KeepsBody ==
  /\ Fault
  /\ Turn("fact") /\ files[log[feed.next].draft.path] = Missing
  /\ files' = [files EXCEPT ![log[feed.next].draft.path] = "error page"]
  /\ feed' = [feed EXCEPT !.pc = "fetched"]
  /\ UNCHANGED <<branch, log, work, cache, inbox, saved, held, missed, rewound, starts>>

\* A file that cannot be fetched: the bridge goes on with the next event, and the
\* cursor of that one passes this one; the start loop dies of it.
FetchFails ==
  /\ Fault
  /\ Turn("fact") /\ files[log[feed.next].draft.path] = Missing
  /\ \/ /\ feed.mode = "bridge"
        /\ feed' = [feed EXCEPT !.next = @ + 1]
        /\ missed' = missed \cup {feed.next}
        /\ UNCHANGED <<cache, rewound>>
     \/ feed.mode = "start" /\ Gone /\ UNCHANGED missed
  /\ UNCHANGED <<branch, log, work, diskVars, held, starts>>

\* A line or the cursor cannot be written: the rest of the page is left, to be read again.
WriteFails ==
  /\ Fault
  /\ feed.pc # "idle"
  /\ IF feed.mode = "bridge" THEN feed' = Idle /\ UNCHANGED <<cache, rewound>> ELSE Gone
  /\ MaybeCutOff
  /\ UNCHANGED <<branch, log, work, inbox, files, held, missed, starts>>

Die ==
  /\ Fault
  /\ feed.mode # "off"
  /\ Gone
  /\ MaybeCutOff
  /\ UNCHANGED <<branch, log, work, inbox, files, held, missed, starts>>

\* A bridge starts with an empty cache and from the first event, the start loop from
\* the saved cursor.
Start(mode) ==
  /\ feed.mode = "off" /\ starts < MaxStarts
  /\ starts' = starts + 1
  /\ feed'  = [Off EXCEPT !.mode = mode, !.from = Len(inbox)]
  /\ UNCHANGED <<blackboardVars, cache, diskVars, held, missed, rewound>>

-----------------------------------------------------------------------------
Deliver == Poll \/ Withhold \/ Materialise \/ WriteLine \/ SaveCursor

Next ==
  \/ BlackboardNext /\ UNCHANGED feedVars
  \/ \E l \in Listeners : Listen(l)
  \/ Deliver
  \/ \E c \in Rewriters : ReadCursor(c) \/ WriteBack(c) \/ Connect(c)
  \/ TornPoll \/ FetchFails \/ WriteFails \/ Die
  \/ \E mode \in Modes : Start(mode)

\* Listeners deliver, and the page is worked off.  Nobody owes anybody a
\* restart, a post or a publish.
Fairness ==
  /\ \A l \in Listeners : WF_vars(Listen(l))
  /\ WF_vars(Deliver)

Spec == Init /\ [][Next]_vars /\ Fairness

-----------------------------------------------------------------------------
(* Every variable has its type.                                            *)
TypeOK ==
  /\ branch \in Seq(File)
  /\ log \in Seq(Event)
  /\ work \in [Publishers -> Work]
  /\ cache \in Cache
  /\ feed \in Feed
  /\ inbox \in Seq(Nat \ {0})
  /\ saved \in Nat
  /\ files \in [Paths -> Contents \cup {Missing}]
  /\ held \in [Rewriters -> Held]
  /\ rewound \in BOOLEAN
  /\ missed \subseteq Nat \ {0}
  /\ starts \in 0 .. MaxStarts
  /\ faults \in 0 .. MaxFaults

Lines == {inbox[i] : i \in 1 .. Len(inbox)}

(* Nothing is lost across restarts: whatever process wrote it, the one     *)
(* that delivers or a claim with a cursor of long ago, and however it      *)
(* died, an event at or below the saved cursor has its line, or belongs to *)
(* the human layer, or was passed over when its file could not be fetched. *)
SavedCursorAccounted ==
  \A n \in 1 .. saved : n \in Lines \/ log[n].layer = "human" \/ n \in missed

(* Files before lines, and the right ones: the file a line announces is on *)
(* disk and says what its publisher wrote, although several bridges push   *)
(* to one branch, may be after the same path, and a file found on disk is  *)
(* never fetched again.                                                    *)
AnnouncedFileIsPinned ==
  \A n \in Lines :
    log[n].layer = "fact" => files[log[n].draft.path] = log[n].draft.content

(* One process writes the ledger's order: no line twice, none out of turn, *)
(* whatever frames came late, twice or while the feed was busy.  The       *)
(* bridge always does.  The start loop reads its cursor from state.json    *)
(* for every page, and does for as long as nobody turns that back: a claim *)
(* beside it is enough to make it repeat itself.                           *)
LinesInOrder ==
  \A i, j \in feed.from + 1 .. Len(inbox) :
    /\ feed.mode # "off" /\ ~rewound
    /\ i < j
    => inbox[i] < inbox[j]

(* What comes out of turn is nothing new: whichever processes wrote the    *)
(* inbox, in whatever turns, and however often its cursor fell back, a     *)
(* line with an event older than one before it repeats a line that was     *)
(* there, or brings what had been passed over.  An agent that drops the    *)
(* seqs it has read loses nothing.                                         *)
OutOfTurnIsOld ==
  \A i, j \in 1 .. Len(inbox) :
    i < j /\ inbox[j] < inbox[i] =>
      inbox[j] \in missed \/ \E k \in 1 .. j - 1 : inbox[k] = inbox[j]

\* The next page of the start loop is full of events the API keeps from it, and so is
\* every answer it gets from now on: it goes by the events it is given, not by next_cursor.
Walled ==
  /\ feed.mode = "start"
  /\ \A n \in saved + 1 .. saved + Page : n \in 1 .. Len(log) /\ log[n].layer = "human"

CaughtUp == \A n \in 1 .. Len(log) : log[n].layer = "plain" => n \in Lines

(* No lost wake-up: a process that stays up catches up, every plain event  *)
(* of the ledger in the inbox, although frames are dropped while the feed  *)
(* is busy, a page may end before the ledger does, and claims turn the     *)
(* cursor back.  One thing stops the start loop, and for good: a whole     *)
(* page of the human layer.                                                *)
PlainEventsDelivered ==
  (feed.mode # "off") ~> (CaughtUp \/ feed.mode = "off" \/ Walled)
=============================================================================
