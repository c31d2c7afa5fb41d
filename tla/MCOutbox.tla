------------------------------ MODULE MCOutbox ------------------------------
(* Finite instances of the outbox for TLC.                                 *)
EXTENDS Outbox, TLC

CONSTANTS d1, d2, good1, good2, refused, hopeless, garbled

MCDrains1  == {d1}
MCDrains2  == {d1, d2}
MCGood1    == {good1}
MCGood2    == {good1, good2}
MCRefused  == {refused}
MCHopeless == {hopeless}
MCMalformed == {garbled}

WholeLines == {<<text, NL>> : text \in Texts}
=============================================================================
