--------------------------------- MODULE Globs ---------------------------------
(***************************************************************************)
(* The two questions asked of file-scope globs: could two of them match    *)
(* the same path (shared/globs.ts, for lock conflicts), and does one allow *)
(* everything the other asks for (shared/store/roles.ts, for role gates).  *)
(* A pattern is the list of its segments, cut at the slashes; a segment is *)
(* a list of characters.  Trimming and backslashes are left out.           *)
(***************************************************************************)
EXTENDS Integers, Sequences

Globstar == <<"*", "*">>

From(s, i) == SubSeq(s, i, Len(s))
OnlyFrom(s, i, x) == \A k \in i .. Len(s) : s[k] = x

\* Where two of them are being compared: each somewhere, or past its end.
Places(a, b) == (1 .. Len(a) + 1) \X (1 .. Len(b) + 1)

-----------------------------------------------------------------------------
(* normalizeGlob.  An empty first segment is a leading slash, an empty     *)
(* last one a trailing slash, an empty inner one a doubled slash.          *)

SlashesCollapsed(p) ==
  IF Len(p) < 3 THEN p
  ELSE <<p[1]>> \o SelectSeq(SubSeq(p, 2, Len(p) - 1), LAMBDA s : s # <<>>) \o <<p[Len(p)]>>

\* Every leading ./ is dropped, and so is one leading slash after them.
DotsStripped(p) ==
  From(p, CHOOSE i \in DOMAIN p :
            /\ i = Len(p) \/ p[i] # <<".">>
            /\ \A k \in 1 .. i - 1 : p[k] = <<".">>)
SlashStripped(p) == IF Len(p) > 1 /\ p[1] = <<>> THEN Tail(p) ELSE p

\* A trailing slash means everything below.  A pattern of slashes and dots
\* alone has no slash left by now, and stays one empty segment.
TrailExpanded(p) ==
  IF Len(p) > 1 /\ p[Len(p)] = <<>> THEN [p EXCEPT ![Len(p)] = Globstar] ELSE p

NormalizeGlob(p) == TrailExpanded(SlashStripped(DotsStripped(SlashesCollapsed(p))))

-----------------------------------------------------------------------------
(* globsIntersect, on normalized globs.                                    *)

SegmentsIntersect(a, b) ==
  LET go[at \in Places(a, b)] ==
        LET i == at[1]  j == at[2] IN
        IF i > Len(a) THEN OnlyFrom(b, j, "*")
        ELSE IF j > Len(b) THEN OnlyFrom(a, i, "*")
        ELSE IF a[i] = "*" \/ b[j] = "*" THEN go[<<i + 1, j>>] \/ go[<<i, j + 1>>]
        ELSE (a[i] = "?" \/ b[j] = "?" \/ a[i] = b[j]) /\ go[<<i + 1, j + 1>>]
  IN  go[<<1, 1>>]

GlobsIntersect(a, b) ==
  LET go[at \in Places(a, b)] ==
        LET i == at[1]  j == at[2] IN
        IF i > Len(a) THEN OnlyFrom(b, j, Globstar)
        ELSE IF j > Len(b) THEN OnlyFrom(a, i, Globstar)
        ELSE IF a[i] = Globstar \/ b[j] = Globstar THEN go[<<i + 1, j>>] \/ go[<<i, j + 1>>]
        ELSE SegmentsIntersect(a[i], b[j]) /\ go[<<i + 1, j + 1>>]
  IN  go[<<1, 1>>]

\* Do two lists of globs collide?
FindGlobConflicts(mine, theirs) ==
  {pair \in mine \X theirs : GlobsIntersect(NormalizeGlob(pair[1]), NormalizeGlob(pair[2]))}

-----------------------------------------------------------------------------
(* globContains, on normalized globs.                                      *)

SegContains(allow, req) ==
  \/ allow \in {Globstar, <<"*">>}
  \/ /\ req \notin {Globstar, <<"*">>}
     /\ \/ allow = req
        \/ /\ "?" \in {allow[i] : i \in DOMAIN allow} \/ "*" \in {allow[i] : i \in DOMAIN allow}
           /\ Len(allow) = Len(req)
           /\ \A i \in DOMAIN allow : allow[i] = "?" \/ allow[i] = req[i]

GlobContains(allowed, requested) ==
  LET go[at \in Places(allowed, requested)] ==
        LET i == at[1]  j == at[2] IN
        IF i > Len(allowed) THEN j > Len(requested)
        ELSE IF allowed[i] = Globstar
          THEN go[<<i + 1, j>>] \/ (j =< Len(requested) /\ go[<<i, j + 1>>])
        ELSE /\ j =< Len(requested)
             /\ SegContains(allowed[i], requested[j])
             /\ go[<<i + 1, j + 1>>]
  IN  go[<<1, 1>>]

\* The globs a role may not have.
GlobsWithinRole(allowed, requested) ==
  {r \in requested : ~ \E a \in allowed : GlobContains(NormalizeGlob(a), NormalizeGlob(r))}
=============================================================================
