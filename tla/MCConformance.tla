----------------------------- MODULE MCConformance -----------------------------
(* Finite instances of the two stores side by side for TLC.                *)
EXTENDS Conformance, TLC

CONSTANTS a1, a2, a3, t1, t2, wide, narrow, other, third

MCAgents1 == {a1}
MCTasks1  == {t1}
MCScopes  == {wide, narrow, other}
MCOverlap == {<<x, x>> : x \in MCScopes} \cup {<<wide, narrow>>, <<narrow, wide>>}
=============================================================================
