------------------------------- MODULE MCStore -------------------------------
(* Finite instances of the store for TLC.                                  *)
EXTENDS StoreProperties, TLC

CONSTANTS a1, a2, a3, t1, t2, wide, narrow, other, third

MCAgents1 == {a1}
MCAgents2 == {a1, a2}
MCAgents3 == {a1, a2, a3}
MCTasks1  == {t1}
MCTasks2  == {t1, t2}
MCScopes  == {wide, narrow, other}
MCScopes4 == {wide, narrow, other, third}

\* wide and narrow intersect; the others intersect only themselves.
MCOverlap  == {<<x, x>> : x \in MCScopes} \cup {<<wide, narrow>>, <<narrow, wide>>}
MCOverlap4 == MCOverlap \cup {<<third, third>>}

AgentSymmetry2 == Permutations(MCAgents2)
TaskSymmetry2  == Permutations(MCTasks2)
LockSymmetry   == Permutations({a2, a3}) \cup Permutations({wide, narrow}) \cup Permutations({other, third})
=============================================================================
