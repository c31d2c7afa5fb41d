-------------------------------- MODULE MCLocks --------------------------------
(* The store's scope locks for TLC, with scopes that are globs: which of   *)
(* them collide is computed by the lock check's own algorithm.             *)
EXTENDS MCStore, GlobFacts

\* The globs each scope of the instance asks for.
GlobsOf ==
     wide   :> {<<<<"a">>, Globstar>>}
  @@ narrow :> {<<<<"a">>, <<"a", "*">>>>, <<<<"b">>, <<"a">>>>}
  @@ other  :> {<<<<"b">>, <<"b">>>>}
  @@ third  :> {<<<<"?", "?">>, <<"b">>>>}

MCGlobOverlap ==
  {pair \in MCScopes4 \X MCScopes4 : FindGlobConflicts(GlobsOf[pair[1]], GlobsOf[pair[2]]) # {}}

\* The lock symmetry of MCStore permutes wide with narrow, and other with third.
ASSUME OverlapIsSymmetric == MCGlobOverlap = MCOverlap4

\* Every glob of the instance is a proper one once normalised, as
\* StoreBoardProofs!NoPathHeldTwice asks.
ASSUME GlobsAreProper ==
  \A s \in MCScopes4 : \A g \in GlobsOf[s] : NormalizeGlob(g) \in GlobsOver(Letters)
=============================================================================
