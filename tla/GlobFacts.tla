------------------------------- MODULE GlobFacts -------------------------------
(***************************************************************************)
(* The glob algorithms against their definition: a glob means the set of   *)
(* paths it matches, two globs intersect when those sets do, and one       *)
(* contains the other when its set does.  Checked for every pair of globs  *)
(* of at most two segments over a small alphabet, by enumeration.          *)
(***************************************************************************)
EXTENDS GlobLanguage

Letters  == {"a", "b"}
Words    == {<<x>> : x \in Letters} \cup (Letters \X Letters)
Paths    == {<<w>> : w \in Words} \cup (Words \X Words) \cup (Words \X Words \X {<<"a">>})
Segments == {<<"a">>, <<"b">>, <<"*">>, <<"?">>, <<"a", "*">>, <<"*", "b">>, <<"a", "?">>, Globstar}
Globs2   == {<<s>> : s \in Segments} \cup (Segments \X Segments)

Language == [g \in Globs2 |-> {p \in Paths : GlobMatches(g, p)}]

(* Intersection is exact: it sees every collision, and invents none.       *)
ASSUME IntersectionIsExact ==
  \A a, b \in Globs2 : GlobsIntersect(a, b) <=> Language[a] \cap Language[b] # {}

(* A role whose scopes are literal but for ** (every shipped role's are)   *)
(* is never granted a path outside them.  With * or ? in the role's scope  *)
(* this fails: src/* is said to contain src/**, and a? to contain a*.      *)
ASSUME ContainmentIsSound ==
  \A allowed, requested \in Globs2 :
    /\ \A i \in DOMAIN allowed : allowed[i] \in {<<"a">>, <<"b">>, Globstar}
    /\ GlobContains(allowed, requested)
    => Language[requested] \subseteq Language[allowed]

(* The two ways a wildcard grant is too wide.                              *)
ASSUME WildcardGrantsTooMuch ==
  /\ GlobContains(<<<<"a">>, <<"*">>>>, <<<<"a">>, Globstar>>)
  /\ GlobContains(<<<<"a", "?">>>>, <<<<"a", "*">>>>)

(* Asking for "/" or "./" asks for nothing: the lock meets no other one.   *)
ASSUME RootLocksNothing ==
  \A root \in {<< <<>>, <<>> >>, << <<".">>, <<>> >>} :
    \A g \in Globs2 :
      GlobsIntersect(NormalizeGlob(root), g) => \A i \in DOMAIN g : g[i] \in {<<"*">>, Globstar}
=============================================================================
