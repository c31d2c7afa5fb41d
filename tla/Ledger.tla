------------------------------- MODULE Ledger -------------------------------
(***************************************************************************)
(* What the ledger promises every reader (docs/reference/store-interface): *)
(* one total order of events, appended at the end one at a time, never     *)
(* changed and never reordered, and no idempotency key recorded twice.     *)
(* The Firestore store is shown to implement it, with its event documents, *)
(* their seq fields and the counter document mapped to this sequence.      *)
(***************************************************************************)
EXTENDS Naturals, Sequences

VARIABLE log    \* the events a reader has seen or will see, in order

Recorded(key) == \E i \in 1 .. Len(log) : log[i].key = key

Init == log = << >>

\* One more event at the end, under a key the ledger has not seen.
Next ==
  /\ Len(log') = Len(log) + 1
  /\ \A i \in 1 .. Len(log) : log'[i] = log[i]
  /\ ~Recorded(log'[Len(log')].key)

Spec == Init /\ [][Next]_log
=============================================================================
