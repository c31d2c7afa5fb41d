----------------------------- MODULE GlobLanguage -----------------------------
(***************************************************************************)
(* What globs stand for: the words a segment matches and the paths a glob  *)
(* matches.  A path is the list of its segments, a word the list of its    *)
(* letters.  A pattern matches a text that can be cut into one piece for   *)
(* each of its items: any piece at all for a star, one fitting letter or   *)
(* segment for every other item.                                           *)
(***************************************************************************)
EXTENDS Globs

\* The paths and the normalised globs over an alphabet.
WordsOver(Letters)    == Seq(Letters) \ {<<>>}
PathsOver(Letters)    == Seq(WordsOver(Letters)) \ {<<>>}
SegmentsOver(Letters) == Seq(Letters \cup {"*", "?"}) \ {<<>>}
GlobsOver(Letters)    == Seq(SegmentsOver(Letters)) \ {<<>>}

\* Item i of the pattern gets the text from cut[i] up to cut[i + 1].
Cuts(pattern, text) ==
  {cut \in [1 .. Len(pattern) + 1 -> 1 .. Len(text) + 1] :
     cut[1] = 1 /\ cut[Len(pattern) + 1] = Len(text) + 1}

SegmentMatches(seg, word) ==
  \E cut \in Cuts(seg, word) :
    \A i \in 1 .. Len(seg) :
      IF seg[i] = "*" THEN cut[i] =< cut[i + 1]
      ELSE cut[i + 1] = cut[i] + 1 /\ seg[i] \in {"?", word[cut[i]]}

GlobMatches(glob, path) ==
  \E cut \in Cuts(glob, path) :
    \A i \in 1 .. Len(glob) :
      IF glob[i] = Globstar THEN cut[i] =< cut[i + 1]
      ELSE cut[i + 1] = cut[i] + 1 /\ SegmentMatches(glob[i], path[cut[i]])
=============================================================================
