------------------------------ MODULE GlobProofs ------------------------------
(***************************************************************************)
(* Proofs about the glob algorithms: what they compute, for globs of every *)
(* length over every alphabet.  Both levels, characters in a segment and   *)
(* segments in a glob, ask the same question of two lists with wildcards,  *)
(* so it is answered once, for lists of any items: "any" is the wildcard,  *)
(* Fit pairs an item with the letters it matches, and Meet pairs the items *)
(* that have a letter in common.  The recursion is over positions; every   *)
(* induction is a descent to the pair of positions nearest the end.        *)
(***************************************************************************)
EXTENDS GlobLanguage, SequenceTheorems, WellFoundedInduction, TLAPS

LEMMA LeastElement ==
  ASSUME NEW S, S \subseteq Nat, S # {}
  PROVE  \E n \in S : \A m \in S : n =< m
<1>1. IsWellFoundedOn(OpToRel(<, Nat), Nat)
  BY NatLessThanWellFounded
<1>2. \E n \in S : \A m \in S : <<m, n>> \notin OpToRel(<, Nat)
  BY <1>1, WFMin
<1>3. \A m, n \in S : <<m, n>> \notin OpToRel(<, Nat) => n =< m
  BY DEF OpToRel
<1> QED  BY <1>2, <1>3

LEMMA EqualBooleans ==
  ASSUME NEW x \in BOOLEAN, NEW y \in BOOLEAN, x <=> y PROVE x = y
OBVIOUS

-----------------------------------------------------------------------------
(* A pattern against a text.                                               *)

\* The items of a pattern from i on match the text from k on.
FitsFrom(a, i, p, k, any, Fit) ==
  \E cut \in [i .. Len(a) + 1 -> 1 .. Len(p) + 1] :
    /\ cut[i] = k /\ cut[Len(a) + 1] = Len(p) + 1
    /\ \A n \in i .. Len(a) :
         IF a[n] = any THEN cut[n] =< cut[n + 1]
         ELSE cut[n + 1] = cut[n] + 1 /\ <<a[n], p[cut[n]]>> \in Fit

\* Nothing is left of the pattern.
LEMMA FitsAtEnd ==
  ASSUME NEW a, Len(a) \in Nat, NEW p, Len(p) \in Nat, NEW k, NEW any, NEW Fit
  PROVE  FitsFrom(a, Len(a) + 1, p, k, any, Fit) <=> k = Len(p) + 1
<1>1. ASSUME k = Len(p) + 1 PROVE FitsFrom(a, Len(a) + 1, p, k, any, Fit)
  <2> DEFINE cut == [n \in Len(a) + 1 .. Len(a) + 1 |-> Len(p) + 1]
  <2>1. cut \in [Len(a) + 1 .. Len(a) + 1 -> 1 .. Len(p) + 1]
    OBVIOUS
  <2>2. cut[Len(a) + 1] = Len(p) + 1
    OBVIOUS
  <2>3. Len(a) + 1 .. Len(a) = {}
    OBVIOUS
  <2> QED  BY <1>1, <2>1, <2>2, <2>3 DEF FitsFrom
<1> QED  BY <1>1 DEF FitsFrom

\* The next item takes what it may, and the rest of the pattern the rest.
Takes(x, k, m, p, any, Fit) ==
  IF x = any THEN k =< m ELSE m = k + 1 /\ <<x, p[k]>> \in Fit

LEMMA FitsStep ==
  ASSUME NEW a, Len(a) \in Nat, NEW p, Len(p) \in Nat, NEW any, NEW Fit,
         NEW i \in 1 .. Len(a), NEW k \in 1 .. Len(p) + 1
  PROVE  FitsFrom(a, i, p, k, any, Fit) <=>
           \E m \in 1 .. Len(p) + 1 :
             Takes(a[i], k, m, p, any, Fit) /\ FitsFrom(a, i + 1, p, m, any, Fit)
<1>0. i \in i .. Len(a) /\ i + 1 \in i .. Len(a) + 1
  OBVIOUS
<1>1. ASSUME NEW m \in 1 .. Len(p) + 1,
             Takes(a[i], k, m, p, any, Fit), FitsFrom(a, i + 1, p, m, any, Fit)
      PROVE  FitsFrom(a, i, p, k, any, Fit)
  <2>1. PICK cut \in [i + 1 .. Len(a) + 1 -> 1 .. Len(p) + 1] :
          /\ cut[i + 1] = m /\ cut[Len(a) + 1] = Len(p) + 1
          /\ \A n \in i + 1 .. Len(a) : Takes(a[n], cut[n], cut[n + 1], p, any, Fit)
    BY <1>1 DEF FitsFrom, Takes
  <2> DEFINE longer == [n \in i .. Len(a) + 1 |-> IF n = i THEN k ELSE cut[n]]
  <2>2. longer \in [i .. Len(a) + 1 -> 1 .. Len(p) + 1]
    OBVIOUS
  <2>3. longer[i] = k /\ \A n \in i + 1 .. Len(a) + 1 : longer[n] = cut[n]
    BY <1>0
  <2> HIDE DEF longer
  <2>4. \A n \in i .. Len(a) : Takes(a[n], longer[n], longer[n + 1], p, any, Fit)
    <3> TAKE n \in i .. Len(a)
    <3>1. longer[n + 1] = cut[n + 1]
      BY <2>3
    <3>2. CASE n = i
      BY <1>1, <2>1, <2>3, <3>1, <3>2
    <3>3. CASE n \in i + 1 .. Len(a)
      <4>1. longer[n] = cut[n]
        BY <2>3, <3>3
      <4> QED  BY <2>1, <3>1, <3>3, <4>1
    <3> QED  BY <3>2, <3>3
  <2>5. longer[Len(a) + 1] = Len(p) + 1
    BY <2>1, <2>3
  <2> QED  BY <2>2, <2>3, <2>4, <2>5 DEF FitsFrom, Takes
<1>2. ASSUME FitsFrom(a, i, p, k, any, Fit)
      PROVE  \E m \in 1 .. Len(p) + 1 :
               Takes(a[i], k, m, p, any, Fit) /\ FitsFrom(a, i + 1, p, m, any, Fit)
  <2>1. PICK cut \in [i .. Len(a) + 1 -> 1 .. Len(p) + 1] :
          /\ cut[i] = k /\ cut[Len(a) + 1] = Len(p) + 1
          /\ \A n \in i .. Len(a) : Takes(a[n], cut[n], cut[n + 1], p, any, Fit)
    BY <1>2 DEF FitsFrom, Takes
  <2> DEFINE rest == [n \in i + 1 .. Len(a) + 1 |-> cut[n]]
  <2>2. rest \in [i + 1 .. Len(a) + 1 -> 1 .. Len(p) + 1]
    OBVIOUS
  <2>3. \A n \in i + 1 .. Len(a) + 1 : rest[n] = cut[n]
    OBVIOUS
  <2> HIDE DEF rest
  <2>4. ASSUME NEW n \in i + 1 .. Len(a) PROVE Takes(a[n], rest[n], rest[n + 1], p, any, Fit)
    <3>1. rest[n] = cut[n] /\ rest[n + 1] = cut[n + 1]
      BY <2>3
    <3> QED  BY <2>1, <3>1
  <2>5. rest[i + 1] = cut[i + 1] /\ rest[Len(a) + 1] = Len(p) + 1
    BY <2>1, <2>3
  <2>6. FitsFrom(a, i + 1, p, cut[i + 1], any, Fit)
    BY <2>2, <2>4, <2>5 DEF FitsFrom, Takes
  <2>7. cut[i + 1] \in 1 .. Len(p) + 1
    BY <1>0
  <2>8. Takes(a[i], k, cut[i + 1], p, any, Fit)
    BY <1>0, <2>1
  <2> QED  BY <2>6, <2>7, <2>8
<1> QED  BY <1>1, <1>2

\* The wildcard ends here, or takes one more letter.
LEMMA FitsAny ==
  ASSUME NEW a, Len(a) \in Nat, NEW p, Len(p) \in Nat, NEW any, NEW Fit,
         NEW i \in 1 .. Len(a), NEW k \in 1 .. Len(p) + 1, a[i] = any
  PROVE  FitsFrom(a, i, p, k, any, Fit) <=>
           \/ FitsFrom(a, i + 1, p, k, any, Fit)
           \/ k =< Len(p) /\ FitsFrom(a, i, p, k + 1, any, Fit)
<1>1. ASSUME NEW l \in 1 .. Len(p) + 1
      PROVE  FitsFrom(a, i, p, l, any, Fit) <=>
               \E m \in 1 .. Len(p) + 1 : l =< m /\ FitsFrom(a, i + 1, p, m, any, Fit)
  BY FitsStep DEF Takes
<1>2. \A m \in 1 .. Len(p) + 1 :
        k =< m <=> m = k \/ (k =< Len(p) /\ k + 1 =< m)
  OBVIOUS
<1>3. k =< Len(p) => k + 1 \in 1 .. Len(p) + 1
  OBVIOUS
<1> QED  BY <1>1, <1>2, <1>3

\* Any other item takes exactly one letter.
LEMMA FitsOne ==
  ASSUME NEW a, Len(a) \in Nat, NEW p, Len(p) \in Nat, NEW any, NEW Fit,
         NEW i \in 1 .. Len(a), NEW k \in 1 .. Len(p) + 1, a[i] # any
  PROVE  FitsFrom(a, i, p, k, any, Fit) <=>
           k =< Len(p) /\ <<a[i], p[k]>> \in Fit /\ FitsFrom(a, i + 1, p, k + 1, any, Fit)
<1>1. FitsFrom(a, i, p, k, any, Fit) <=>
        \E m \in 1 .. Len(p) + 1 :
          m = k + 1 /\ <<a[i], p[k]>> \in Fit /\ FitsFrom(a, i + 1, p, m, any, Fit)
  <2>1. FitsFrom(a, i, p, k, any, Fit) <=>
          \E m \in 1 .. Len(p) + 1 :
            Takes(a[i], k, m, p, any, Fit) /\ FitsFrom(a, i + 1, p, m, any, Fit)
    BY FitsStep
  <2> QED  BY <2>1 DEF Takes
<1>2. k + 1 \in 1 .. Len(p) + 1 <=> k =< Len(p)
  OBVIOUS
<1> QED  BY <1>1, <1>2

-----------------------------------------------------------------------------
(* Two patterns against each other.  Meeting(R, ...) says that R holds the *)
(* pairs of positions from which the walk of both algorithms succeeds.     *)

MeetStep(R, a, b, any, Meet, i, j) ==
  IF i > Len(a) THEN OnlyFrom(b, j, any)
  ELSE IF j > Len(b) THEN OnlyFrom(a, i, any)
  ELSE IF a[i] = any \/ b[j] = any THEN <<i + 1, j>> \in R \/ <<i, j + 1>> \in R
  ELSE <<a[i], b[j]>> \in Meet /\ <<i + 1, j + 1>> \in R

Meeting(R, a, b, any, Meet) ==
  \A i \in 1 .. Len(a) + 1, j \in 1 .. Len(b) + 1 :
    <<i, j>> \in R <=> MeetStep(R, a, b, any, Meet, i, j)

\* The recursion has a solution: the least set closed under its steps.
LEMMA MeetingExists ==
  ASSUME NEW a, NEW b, NEW any, NEW Meet
  PROVE  \E R \in SUBSET Places(a, b) : Meeting(R, a, b, any, Meet)
<1> DEFINE Closed(S) == \A i \in 1 .. Len(a) + 1, j \in 1 .. Len(b) + 1 :
                          MeetStep(S, a, b, any, Meet, i, j) => <<i, j>> \in S
           R == {at \in Places(a, b) :
                   \A S \in SUBSET Places(a, b) : Closed(S) => at \in S}
           Next == {at \in Places(a, b) : MeetStep(R, a, b, any, Meet, at[1], at[2])}
<1>1. ASSUME NEW S, NEW T, S \subseteq T, NEW i, NEW j, MeetStep(S, a, b, any, Meet, i, j)
      PROVE  MeetStep(T, a, b, any, Meet, i, j)
  BY <1>1 DEF MeetStep
<1>2. \A i \in 1 .. Len(a) + 1, j \in 1 .. Len(b) + 1 : <<i, j>> \in Places(a, b)
  BY DEF Places
<1>3. Closed(R)
  <2> SUFFICES ASSUME NEW i \in 1 .. Len(a) + 1, NEW j \in 1 .. Len(b) + 1,
                      MeetStep(R, a, b, any, Meet, i, j),
                      NEW S \in SUBSET Places(a, b), Closed(S)
               PROVE  <<i, j>> \in S
    BY <1>2
  <2>1. R \subseteq S
    OBVIOUS
  <2> HIDE DEF R
  <2>2. MeetStep(S, a, b, any, Meet, i, j)
    BY <1>1, <2>1
  <2> QED  BY <2>2
<1>4. Next \subseteq R
  <2> SUFFICES ASSUME NEW at \in Next PROVE at \in R
    OBVIOUS
  <2>1. PICK i \in 1 .. Len(a) + 1, j \in 1 .. Len(b) + 1 : at = <<i, j>>
    BY DEF Places
  <2>2. MeetStep(R, a, b, any, Meet, i, j)
    <3> HIDE DEF R
    <3>1. MeetStep(R, a, b, any, Meet, at[1], at[2])
      OBVIOUS
    <3> QED  BY <2>1, <3>1
  <2> HIDE DEF R
  <2> QED  BY <1>3, <2>1, <2>2
<1>5. Closed(Next)
  <2> SUFFICES ASSUME NEW i \in 1 .. Len(a) + 1, NEW j \in 1 .. Len(b) + 1,
                      MeetStep(Next, a, b, any, Meet, i, j)
               PROVE  <<i, j>> \in Next
    OBVIOUS
  <2>1. MeetStep(R, a, b, any, Meet, i, j)
    <3> HIDE DEF R, Next
    <3> QED  BY <1>1, <1>4
  <2>2. <<i, j>>[1] = i /\ <<i, j>>[2] = j
    OBVIOUS
  <2> HIDE DEF R
  <2> QED  BY <1>2, <2>1, <2>2
<1>6. R \subseteq Next
  <2>1. Next \in SUBSET Places(a, b)
    OBVIOUS
  <2> HIDE DEF Next
  <2> QED  BY <1>5, <2>1
<1>7. ASSUME NEW i \in 1 .. Len(a) + 1, NEW j \in 1 .. Len(b) + 1
      PROVE  <<i, j>> \in R <=> MeetStep(R, a, b, any, Meet, i, j)
  <2>1. <<i, j>> \in R => <<i, j>> \in Next
    <3> HIDE DEF R, Next
    <3> QED  BY <1>6
  <2>2. <<i, j>>[1] = i /\ <<i, j>>[2] = j
    OBVIOUS
  <2> HIDE DEF R
  <2>3. <<i, j>> \in Next => MeetStep(R, a, b, any, Meet, i, j)
    BY <2>2
  <2> QED  BY <1>3, <2>1, <2>3
<1>8. R \in SUBSET Places(a, b)
  OBVIOUS
<1> HIDE DEF R
<1> QED  BY <1>7, <1>8 DEF Meeting

\* What matches both patterns is seen by the walk.
LEMMA MeetingSeesTexts ==
  ASSUME NEW a, Len(a) \in Nat, NEW b, Len(b) \in Nat, NEW p, Len(p) \in Nat,
         NEW any, NEW Fit, NEW Meet, NEW R, Meeting(R, a, b, any, Meet),
         \A i \in 1 .. Len(a), j \in 1 .. Len(b), k \in 1 .. Len(p) :
           /\ a[i] # any /\ <<a[i], p[k]>> \in Fit
           /\ b[j] # any /\ <<b[j], p[k]>> \in Fit
           => <<a[i], b[j]>> \in Meet,
         FitsFrom(a, 1, p, 1, any, Fit), FitsFrom(b, 1, p, 1, any, Fit)
  PROVE  <<1, 1>> \in R
<1> DEFINE FitA(i, k) == FitsFrom(a, i, p, k, any, Fit)
           FitB(j, k) == FitsFrom(b, j, p, k, any, Fit)
           Left(i, j, k) == (Len(a) + 1 - i) + (Len(b) + 1 - j) + (Len(p) + 1 - k)
           Bad == {n \in Nat : \E i \in 1 .. Len(a) + 1, j \in 1 .. Len(b) + 1, k \in 1 .. Len(p) + 1 :
                     n = Left(i, j, k) /\ FitA(i, k) /\ FitB(j, k) /\ <<i, j>> \notin R}
<1> SUFFICES ASSUME <<1, 1>> \notin R PROVE FALSE
  OBVIOUS
<1>0. 1 \in 1 .. Len(a) + 1 /\ 1 \in 1 .. Len(b) + 1 /\ 1 \in 1 .. Len(p) + 1
  OBVIOUS
<1>1. Bad # {}
  <2>1. Left(1, 1, 1) \in Nat
    OBVIOUS
  <2>2. Left(1, 1, 1) \in Bad
    <3> HIDE DEF Left
    <3> QED  BY <1>0, <2>1
  <2> QED  BY <2>2
<1>2. PICK n \in Bad : \A m \in Bad : n =< m
  <2> HIDE DEF Bad
  <2>1. Bad \subseteq Nat
    BY DEF Bad
  <2> QED  BY <1>1, <2>1, LeastElement
<1>3. PICK i \in 1 .. Len(a) + 1, j \in 1 .. Len(b) + 1, k \in 1 .. Len(p) + 1 :
        n = Left(i, j, k) /\ FitA(i, k) /\ FitB(j, k) /\ <<i, j>> \notin R
  OBVIOUS
<1>4. ASSUME NEW x \in 1 .. Len(a) + 1, NEW y \in 1 .. Len(b) + 1, NEW z \in 1 .. Len(p) + 1,
             FitA(x, z), FitB(y, z), x + y + z > i + j + k
      PROVE  <<x, y>> \in R
  <2>1. Left(x, y, z) \in Nat /\ Left(x, y, z) < Left(i, j, k) /\ Left(i, j, k) \in Nat
    BY <1>4
  <2> SUFFICES ASSUME <<x, y>> \notin R PROVE FALSE
    OBVIOUS
  <2>2. Left(x, y, z) \in Bad
    <3> HIDE DEF Left, FitA, FitB
    <3> QED  BY <1>4, <2>1
  <2> HIDE DEF Bad, Left
  <2> QED  BY <1>2, <1>3, <2>1, <2>2
<1>a. \A x \in 1 .. Len(a), z \in 1 .. Len(p) + 1 :
        /\ a[x] = any => (FitA(x, z) <=> FitA(x + 1, z) \/ (z =< Len(p) /\ FitA(x, z + 1)))
        /\ a[x] # any => (FitA(x, z) <=> z =< Len(p) /\ <<a[x], p[z]>> \in Fit /\ FitA(x + 1, z + 1))
  BY FitsAny, FitsOne
<1>b. \A y \in 1 .. Len(b), z \in 1 .. Len(p) + 1 :
        /\ b[y] = any => (FitB(y, z) <=> FitB(y + 1, z) \/ (z =< Len(p) /\ FitB(y, z + 1)))
        /\ b[y] # any => (FitB(y, z) <=> z =< Len(p) /\ <<b[y], p[z]>> \in Fit /\ FitB(y + 1, z + 1))
  BY FitsAny, FitsOne
<1>c. /\ \A z : FitA(Len(a) + 1, z) <=> z = Len(p) + 1
      /\ \A z : FitB(Len(b) + 1, z) <=> z = Len(p) + 1
  BY FitsAtEnd
<1>d. /\ \A x \in 1 .. Len(a) + 1 : x = Len(a) + 1 \/ (x \in 1 .. Len(a) /\ x + 1 \in 1 .. Len(a) + 1)
      /\ \A y \in 1 .. Len(b) + 1 : y = Len(b) + 1 \/ (y \in 1 .. Len(b) /\ y + 1 \in 1 .. Len(b) + 1)
      /\ \A z \in 1 .. Len(p) + 1 : z =< Len(p) => z \in 1 .. Len(p) /\ z + 1 \in 1 .. Len(p) + 1
  OBVIOUS
<1>e. ~(Len(p) + 1 =< Len(p))
  OBVIOUS
<1> HIDE DEF Bad, Left, FitA, FitB
<1>5. ~MeetStep(R, a, b, any, Meet, i, j)
  BY <1>3 DEF Meeting
<1>6. CASE i = Len(a) + 1
  <2>1. k = Len(p) + 1
    BY <1>3, <1>6, <1>c
  <2>2. OnlyFrom(b, j, any)
    <3>1. CASE j = Len(b) + 1
      BY <3>1 DEF OnlyFrom
    <3>2. CASE j \in 1 .. Len(b)
      <4>1. b[j] = any
        BY <1>3, <2>1, <3>2, <1>a, <1>b, <1>d, <1>e
      <4>2. FitB(j + 1, k)
        BY <1>3, <2>1, <3>2, <4>1, <1>a, <1>b, <1>d, <1>e
      <4>3. <<i, j + 1>> \in R
        BY <1>3, <1>4, <3>2, <4>2
      <4>4. OnlyFrom(b, j + 1, any)
        <5>1. MeetStep(R, a, b, any, Meet, i, j + 1)
          BY <1>d, <3>2, <4>3 DEF Meeting
        <5> QED  BY <1>6, <5>1 DEF MeetStep
      <4>5. \A l \in j .. Len(b) : l = j \/ l \in j + 1 .. Len(b)
        OBVIOUS
      <4> QED  BY <4>1, <4>4, <4>5 DEF OnlyFrom
    <3>3. j = Len(b) + 1 \/ j \in 1 .. Len(b)
      OBVIOUS
    <3> QED  BY <3>1, <3>2, <3>3
  <2> QED  BY <1>5, <1>6, <2>2 DEF MeetStep
<1>7. CASE i \in 1 .. Len(a) /\ j = Len(b) + 1
  <2>1. k = Len(p) + 1
    BY <1>3, <1>7, <1>c
  <2>2. a[i] = any
    BY <1>3, <1>7, <2>1, <1>a, <1>b, <1>d, <1>e
  <2>3. FitA(i + 1, k)
    <3>1. FitA(i, k) /\ ~(k =< Len(p))
      BY <1>3, <2>1, <1>e
    <3> QED  BY <1>3, <1>7, <2>2, <3>1, <1>a
  <2>4. <<i + 1, j>> \in R
    BY <1>3, <1>4, <1>7, <2>3
  <2>5. OnlyFrom(a, i + 1, any)
    <3>1. CASE i + 1 = Len(a) + 1
      BY <3>1 DEF OnlyFrom
    <3>2. CASE i + 1 \in 1 .. Len(a)
      <4>1. MeetStep(R, a, b, any, Meet, i + 1, j)
        BY <2>4, <3>2 DEF Meeting
      <4> QED  BY <1>7, <3>2, <4>1 DEF MeetStep
    <3> QED  BY <1>7, <3>1, <3>2
  <2>6. OnlyFrom(a, i, any)
    BY <1>7, <2>2, <2>5 DEF OnlyFrom
  <2> QED  BY <1>5, <1>7, <2>6 DEF MeetStep
<1>8. CASE i \in 1 .. Len(a) /\ j \in 1 .. Len(b)
  <2>0. i + 1 \in 1 .. Len(a) + 1 /\ j + 1 \in 1 .. Len(b) + 1
    BY <1>8
  <2>a. k =< Len(p) => k \in 1 .. Len(p) /\ k + 1 \in 1 .. Len(p) + 1
    OBVIOUS
  <2>b. /\ FitA(i + 1, k) /\ FitB(j, k) => <<i + 1, j>> \in R
        /\ FitA(i, k) /\ FitB(j + 1, k) => <<i, j + 1>> \in R
    <3>1. (i + 1) + j + k > i + j + k /\ i + (j + 1) + k > i + j + k
      OBVIOUS
    <3> QED  BY <1>4, <2>0, <3>1
  <2>c. ASSUME k =< Len(p), NEW x \in {i, i + 1}, NEW y \in {j, j + 1},
               FitA(x, k + 1), FitB(y, k + 1)
        PROVE  <<x, y>> \in R
    <3>1. x + y + (k + 1) > i + j + k
      <4>1. (x = i \/ x = i + 1) /\ (y = j \/ y = j + 1)
        OBVIOUS
      <4>2. x \in Nat /\ y \in Nat /\ x >= i /\ y >= j
        BY <4>1
      <4> QED  BY <4>2
    <3>2. x \in 1 .. Len(a) + 1 /\ y \in 1 .. Len(b) + 1 /\ k + 1 \in 1 .. Len(p) + 1
      BY <2>0, <2>a, <2>c
    <3> QED  BY <1>4, <2>c, <3>1, <3>2
  <2>d. /\ a[i] = any => FitA(i + 1, k) \/ (k =< Len(p) /\ FitA(i, k + 1))
        /\ a[i] # any => k =< Len(p) /\ <<a[i], p[k]>> \in Fit /\ FitA(i + 1, k + 1)
        /\ b[j] = any => FitB(j + 1, k) \/ (k =< Len(p) /\ FitB(j, k + 1))
        /\ b[j] # any => k =< Len(p) /\ <<b[j], p[k]>> \in Fit /\ FitB(j + 1, k + 1)
    BY <1>3, <1>8, <1>a, <1>b
  <2>1. a[i] = any \/ b[j] = any => <<i + 1, j>> \notin R /\ <<i, j + 1>> \notin R
    BY <1>5, <1>8 DEF MeetStep
  <2>2. CASE a[i] = any \/ b[j] = any
    <3>1. ~FitA(i + 1, k) /\ ~FitB(j + 1, k)
      BY <1>3, <2>1, <2>2, <2>b
    <3>2. k =< Len(p)
      BY <2>2, <2>d, <3>1
    <3>3. CASE a[i] = any /\ b[j] = any
      <4>1. FitA(i, k + 1) /\ FitB(j, k + 1)
        BY <2>d, <3>1, <3>3
      <4> QED  BY <1>3, <2>c, <3>2, <4>1
    <3>4. CASE a[i] = any /\ b[j] # any
      <4>1. FitA(i, k + 1) /\ FitB(j + 1, k + 1)
        BY <2>d, <3>1, <3>4
      <4> QED  BY <2>1, <2>2, <2>c, <3>2, <4>1
    <3>5. CASE a[i] # any /\ b[j] = any
      <4>1. FitA(i + 1, k + 1) /\ FitB(j, k + 1)
        BY <2>d, <3>1, <3>5
      <4> QED  BY <2>1, <2>2, <2>c, <3>2, <4>1
    <3> QED  BY <2>2, <3>3, <3>4, <3>5
  <2>3. CASE a[i] # any /\ b[j] # any
    <3>1. /\ k =< Len(p) /\ <<a[i], p[k]>> \in Fit /\ <<b[j], p[k]>> \in Fit
          /\ FitA(i + 1, k + 1) /\ FitB(j + 1, k + 1)
      BY <2>3, <2>d
    <3>2. <<a[i], b[j]>> \in Meet
      BY <1>8, <2>3, <2>a, <3>1
    <3>3. <<i + 1, j + 1>> \in R
      BY <2>c, <3>1
    <3> QED  BY <1>5, <1>8, <2>3, <3>2, <3>3 DEF MeetStep
  <2> QED  BY <2>2, <2>3
<1>9. i = Len(a) + 1 \/ (i \in 1 .. Len(a) /\ (j = Len(b) + 1 \/ j \in 1 .. Len(b)))
  OBVIOUS
<1> QED  BY <1>6, <1>7, <1>8, <1>9

\* A pattern of wildcards alone matches whatever there is.
LEMMA OnlyAnyFits ==
  ASSUME NEW a, Len(a) \in Nat, NEW p, Len(p) \in Nat, NEW any, NEW Fit,
         NEW i \in 1 .. Len(a) + 1, OnlyFrom(a, i, any)
  PROVE  FitsFrom(a, i, p, Len(p) + 1, any, Fit)
<1> DEFINE cut == [n \in i .. Len(a) + 1 |-> Len(p) + 1]
<1>1. cut \in [i .. Len(a) + 1 -> 1 .. Len(p) + 1]
  OBVIOUS
<1>2. \A n \in i .. Len(a) + 1 : cut[n] = Len(p) + 1
  OBVIOUS
<1> HIDE DEF cut
<1>3. \A n \in i .. Len(a) : a[n] = any /\ cut[n] =< cut[n + 1]
  BY <1>2 DEF OnlyFrom
<1> QED  BY <1>1, <1>2, <1>3 DEF FitsFrom

\* One letter put between a text and what comes before it.
LEMMA OneLetterAhead ==
  ASSUME NEW L, NEW c \in L, NEW q \in Seq(L), NEW r \in Seq(L)
  PROVE  /\ <<c>> \o q \in Seq(L) /\ <<c>> \o q # <<>> /\ r \o <<c>> \in Seq(L)
         /\ r \o (<<c>> \o q) = (r \o <<c>>) \o q
         /\ Len(r \o <<c>>) + 1 = Len(r) + 2
         /\ (r \o (<<c>> \o q))[Len(r) + 1] = c
         /\ Len(r) + 1 \in 1 .. Len(r \o (<<c>> \o q))
         /\ Len(r \o (<<c>> \o q)) \in Nat
<1>r. \A s, t \in Seq(L) : /\ s \o t \in Seq(L) /\ Len(s) \in Nat /\ Len(t) \in Nat
                           /\ Len(s \o t) = Len(s) + Len(t)
  BY ConcatProperties, LenProperties
<1>1. <<c>> \in Seq(L) /\ Len(<<c>>) = 1
  OBVIOUS
<1>2. <<c>> \o q \in Seq(L) /\ r \o <<c>> \in Seq(L)
  BY <1>r, <1>1
<1>3. r \o (<<c>> \o q) = (r \o <<c>>) \o q
  BY <1>1, ConcatAssociative
<1>4. Len(r \o <<c>>) = Len(r) + 1 /\ Len(<<c>> \o q) = 1 + Len(q)
  BY <1>r, <1>1
<1>5. <<c>> \o q # <<>>
  BY <1>r, <1>2, <1>4, EmptySeq
<1>6. (<<c>> \o q)[1] = c
  BY <1>r, <1>1, ConcatProperties
<1>7. /\ Len(r \o (<<c>> \o q)) = Len(r) + (1 + Len(q))
      /\ Len(r) \in Nat /\ Len(q) \in Nat
  BY <1>r, <1>2, <1>4
<1>8. (r \o (<<c>> \o q))[Len(r) + 1] = (<<c>> \o q)[Len(r) + 1 - Len(r)]
  BY <1>2, <1>4, <1>7, ConcatProperties
<1>9. Len(r) + 1 - Len(r) = 1 /\ (Len(r) + 1) + 1 = Len(r) + 2
  BY <1>7
<1>10. Len(r) + 1 \in 1 .. Len(r) + (1 + Len(q)) /\ Len(r) + (1 + Len(q)) \in Nat
  BY <1>7
<1>11. (r \o (<<c>> \o q))[Len(r) + 1] = c
  BY <1>6, <1>8, <1>9
<1>12. Len(r \o <<c>>) + 1 = Len(r) + 2
  BY <1>4, <1>9
<1>13. Len(r) + 1 \in 1 .. Len(r \o (<<c>> \o q)) /\ Len(r \o (<<c>> \o q)) \in Nat
  BY <1>7, <1>10
<1> QED  BY <1>2, <1>3, <1>5, <1>11, <1>12, <1>13

\* Where the walk succeeds, some text matches both patterns.
LEMMA MeetingHasText ==
  ASSUME NEW a, Len(a) \in Nat, NEW b, Len(b) \in Nat, NEW L,
         NEW any, NEW Fit, NEW Meet, NEW R, Meeting(R, a, b, any, Meet),
         \A i \in 1 .. Len(a) : a[i] # any => \E x \in L : <<a[i], x>> \in Fit,
         \A j \in 1 .. Len(b) : b[j] # any => \E x \in L : <<b[j], x>> \in Fit,
         \A i \in 1 .. Len(a), j \in 1 .. Len(b) :
           a[i] # any /\ b[j] # any /\ <<a[i], b[j]>> \in Meet =>
             \E x \in L : <<a[i], x>> \in Fit /\ <<b[j], x>> \in Fit,
         <<1, 1>> \in R
  PROVE  \E p \in Seq(L) : FitsFrom(a, 1, p, 1, any, Fit) /\ FitsFrom(b, 1, p, 1, any, Fit)
<1> DEFINE FitA(i, p, k) == FitsFrom(a, i, p, k, any, Fit)
           FitB(j, p, k) == FitsFrom(b, j, p, k, any, Fit)
           \* q matches both from i and j on, whatever comes before it.
           Ends(i, j, q) == \A r \in Seq(L) : FitA(i, r \o q, Len(r) + 1) /\ FitB(j, r \o q, Len(r) + 1)
           Left(i, j) == (Len(a) + 1 - i) + (Len(b) + 1 - j)
           Bad == {n \in Nat : \E i \in 1 .. Len(a) + 1, j \in 1 .. Len(b) + 1 :
                     n = Left(i, j) /\ <<i, j>> \in R /\ ~\E q \in Seq(L) : Ends(i, j, q)}
<1>0. 1 \in 1 .. Len(a) + 1 /\ 1 \in 1 .. Len(b) + 1
  OBVIOUS
<1>r. \A r, q \in Seq(L) : /\ r \o q \in Seq(L) /\ Len(r) \in Nat /\ Len(q) \in Nat
                           /\ Len(r \o q) = Len(r) + Len(q)
  BY ConcatProperties, LenProperties
<1>1. ASSUME Bad = {} PROVE \E p \in Seq(L) : FitA(1, p, 1) /\ FitB(1, p, 1)
  <2>1. Left(1, 1) \in Nat
    OBVIOUS
  <2>2. \E q \in Seq(L) : Ends(1, 1, q)
    <3> HIDE DEF Left, Ends
    <3> QED  BY <1>0, <1>1, <2>1
  <2>3. PICK q \in Seq(L) : Ends(1, 1, q)
    BY <2>2
  <2>4. <<>> \in Seq(L) /\ Len(<<>>) = 0 /\ <<>> \o q = q
    BY EmptySeq, ConcatEmptySeq
  <2>5. FitA(1, <<>> \o q, Len(<<>>) + 1) /\ FitB(1, <<>> \o q, Len(<<>>) + 1)
    BY <2>3, <2>4
  <2> HIDE DEF FitA, FitB
  <2> QED  BY <2>4, <2>5
<1> SUFFICES ASSUME Bad # {} PROVE FALSE
  BY <1>1
<1>2. PICK n \in Bad : \A m \in Bad : n =< m
  <2> HIDE DEF Bad
  <2>1. Bad \subseteq Nat
    BY DEF Bad
  <2> QED  BY <2>1, LeastElement
<1>3. PICK i \in 1 .. Len(a) + 1, j \in 1 .. Len(b) + 1 :
        n = Left(i, j) /\ <<i, j>> \in R /\ ~\E q \in Seq(L) : Ends(i, j, q)
  OBVIOUS
<1>4. ASSUME NEW x \in 1 .. Len(a) + 1, NEW y \in 1 .. Len(b) + 1, <<x, y>> \in R, x + y > i + j
      PROVE  \E q \in Seq(L) : Ends(x, y, q)
  <2>1. Left(x, y) \in Nat /\ Left(x, y) < Left(i, j) /\ Left(i, j) \in Nat
    BY <1>4
  <2> SUFFICES ASSUME ~\E q \in Seq(L) : Ends(x, y, q) PROVE FALSE
    OBVIOUS
  <2>2. Left(x, y) \in Bad
    <3> HIDE DEF Left, Ends
    <3> QED  BY <1>4, <2>1
  <2> HIDE DEF Bad, Left
  <2> QED  BY <1>2, <1>3, <2>1, <2>2
<1>a. ASSUME NEW r \in Seq(L), NEW q \in Seq(L), NEW x \in 1 .. Len(a)
      PROVE  a[x] = any => /\ FitA(x + 1, r \o q, Len(r) + 1) => FitA(x, r \o q, Len(r) + 1)
                           /\ q # <<>> /\ FitA(x, r \o q, Len(r) + 2) => FitA(x, r \o q, Len(r) + 1)
  <2>1. Len(r) + 1 \in 1 .. Len(r \o q) + 1 /\ Len(r \o q) \in Nat
    BY <1>r
  <2>2. q # <<>> => Len(r) + 1 =< Len(r \o q)
    BY <1>r, EmptySeq
  <2>3. (Len(r) + 1) + 1 = Len(r) + 2
    BY <1>r
  <2> QED  BY <2>1, <2>2, <2>3, FitsAny
<1>b. ASSUME NEW r \in Seq(L), NEW q \in Seq(L), NEW y \in 1 .. Len(b)
      PROVE  b[y] = any => /\ FitB(y + 1, r \o q, Len(r) + 1) => FitB(y, r \o q, Len(r) + 1)
                           /\ q # <<>> /\ FitB(y, r \o q, Len(r) + 2) => FitB(y, r \o q, Len(r) + 1)
  <2>1. Len(r) + 1 \in 1 .. Len(r \o q) + 1 /\ Len(r \o q) \in Nat
    BY <1>r
  <2>2. q # <<>> => Len(r) + 1 =< Len(r \o q)
    BY <1>r, EmptySeq
  <2>3. (Len(r) + 1) + 1 = Len(r) + 2
    BY <1>r
  <2> QED  BY <2>1, <2>2, <2>3, FitsAny
<1>c. ASSUME NEW c \in L, NEW q \in Seq(L), NEW r \in Seq(L)
      PROVE  /\ <<c>> \o q \in Seq(L) /\ <<c>> \o q # <<>> /\ r \o <<c>> \in Seq(L)
             /\ r \o (<<c>> \o q) = (r \o <<c>>) \o q
             /\ Len(r \o <<c>>) + 1 = Len(r) + 2
             /\ (r \o (<<c>> \o q))[Len(r) + 1] = c
             /\ Len(r) + 1 \in 1 .. Len(r \o (<<c>> \o q))
             /\ Len(r \o (<<c>> \o q)) \in Nat
  BY OneLetterAhead
<1>d. ASSUME NEW c \in L, NEW q \in Seq(L), NEW r \in Seq(L), NEW x \in 1 .. Len(a),
             a[x] # any, <<a[x], c>> \in Fit, FitA(x + 1, r \o (<<c>> \o q), Len(r) + 2)
      PROVE  FitA(x, r \o (<<c>> \o q), Len(r) + 1)
  <2> DEFINE p == r \o (<<c>> \o q)
             k == Len(r) + 1
  <2>1. Len(p) \in Nat /\ k \in 1 .. Len(p) /\ p[k] = c
    BY <1>c
  <2>2. Len(r) + 2 = k + 1
    BY <1>r
  <2>3. FitsFrom(a, x + 1, p, k + 1, any, Fit)
    BY <1>d, <2>2
  <2> HIDE DEF p, k
  <2>4. k \in 1 .. Len(p) + 1 /\ k =< Len(p)
    BY <2>1
  <2>5. FitsFrom(a, x, p, k, any, Fit)
    BY <1>d, <2>1, <2>3, <2>4, FitsOne
  <2> QED  BY <2>5 DEF p, k
<1>e. ASSUME NEW c \in L, NEW q \in Seq(L), NEW r \in Seq(L), NEW y \in 1 .. Len(b),
             b[y] # any, <<b[y], c>> \in Fit, FitB(y + 1, r \o (<<c>> \o q), Len(r) + 2)
      PROVE  FitB(y, r \o (<<c>> \o q), Len(r) + 1)
  <2> DEFINE p == r \o (<<c>> \o q)
             k == Len(r) + 1
  <2>1. Len(p) \in Nat /\ k \in 1 .. Len(p) /\ p[k] = c
    BY <1>c
  <2>2. Len(r) + 2 = k + 1
    BY <1>r
  <2>3. FitsFrom(b, y + 1, p, k + 1, any, Fit)
    BY <1>e, <2>2
  <2> HIDE DEF p, k
  <2>4. k \in 1 .. Len(p) + 1 /\ k =< Len(p)
    BY <2>1
  <2>5. FitsFrom(b, y, p, k, any, Fit)
    BY <1>e, <2>1, <2>3, <2>4, FitsOne
  <2> QED  BY <2>5 DEF p, k
\* So an end for (x, y) gives one letter later an end for what precedes it.
<1>f. ASSUME NEW x, NEW y, NEW q \in Seq(L), Ends(x, y, q), NEW c \in L, NEW r \in Seq(L)
      PROVE  /\ FitA(x, r \o (<<c>> \o q), Len(r) + 2)
             /\ FitB(y, r \o (<<c>> \o q), Len(r) + 2)
  <2>1. FitA(x, (r \o <<c>>) \o q, Len(r \o <<c>>) + 1) /\ FitB(y, (r \o <<c>>) \o q, Len(r \o <<c>>) + 1)
    BY <1>c, <1>f
  <2>2. r \o (<<c>> \o q) = (r \o <<c>>) \o q
    BY <1>c, Zenon
  <2>3. Len(r \o <<c>>) + 1 = Len(r) + 2
    BY <1>c, Zenon
  <2> DEFINE p == (r \o <<c>>) \o q
             k == Len(r \o <<c>>) + 1
  <2>4. p = r \o (<<c>> \o q) /\ k = Len(r) + 2
    BY <2>2, <2>3
  <2>5. FitA(x, p, k) /\ FitB(y, p, k)
    BY <2>1
  <2> HIDE DEF FitA, FitB, p, k
  <2> QED  BY <2>4, <2>5
<1>g. ASSUME NEW r \in Seq(L)
      PROVE  /\ r \o <<>> = r
             /\ \A x \in 1 .. Len(a) + 1 : OnlyFrom(a, x, any) => FitA(x, r, Len(r) + 1)
             /\ \A y \in 1 .. Len(b) + 1 : OnlyFrom(b, y, any) => FitB(y, r, Len(r) + 1)
             /\ FitA(Len(a) + 1, r, Len(r) + 1) /\ FitB(Len(b) + 1, r, Len(r) + 1)
  BY <1>g, LenProperties, ConcatEmptySeq, OnlyAnyFits, FitsAtEnd
<1>5. MeetStep(R, a, b, any, Meet, i, j)
  BY <1>3 DEF Meeting
<1> HIDE DEF Bad, Left, FitA, FitB
<1>6. CASE i = Len(a) + 1 \/ j = Len(b) + 1
  <2>1. \/ i = Len(a) + 1 /\ OnlyFrom(b, j, any)
        \/ j = Len(b) + 1 /\ OnlyFrom(a, i, any)
    BY <1>5, <1>6 DEF MeetStep
  <2>2. Ends(i, j, <<>>) /\ <<>> \in Seq(L)
    BY <1>g, <2>1
  <2> QED  BY <1>3, <2>2
<1>7. CASE i \in 1 .. Len(a) /\ j \in 1 .. Len(b)
  <2>0. i + 1 \in 1 .. Len(a) + 1 /\ j + 1 \in 1 .. Len(b) + 1
    BY <1>7
  <2>1. CASE a[i] = any /\ <<i + 1, j>> \in R
    <3>1. PICK q \in Seq(L) : Ends(i + 1, j, q)
      <4>1. (i + 1) + j > i + j /\ <<i + 1, j>> \in R
        BY <2>1
      <4> HIDE DEF Ends
      <4> QED  BY <1>4, <2>0, <4>1
    <3>2. Ends(i, j, q)
      BY <1>7, <1>a, <2>1, <3>1
    <3> QED  BY <1>3, <3>2
  <2>2. CASE b[j] = any /\ <<i, j + 1>> \in R
    <3>1. PICK q \in Seq(L) : Ends(i, j + 1, q)
      <4>1. i + (j + 1) > i + j /\ <<i, j + 1>> \in R
        BY <2>2
      <4> HIDE DEF Ends
      <4> QED  BY <1>4, <2>0, <4>1
    <3>2. Ends(i, j, q)
      BY <1>7, <1>b, <2>2, <3>1
    <3> QED  BY <1>3, <3>2
  <2>3. CASE a[i] = any /\ b[j] # any /\ <<i, j + 1>> \in R
    <3>1. PICK q \in Seq(L) : Ends(i, j + 1, q)
      <4>1. i + (j + 1) > i + j /\ <<i, j + 1>> \in R
        BY <2>3
      <4> HIDE DEF Ends
      <4> QED  BY <1>4, <2>0, <4>1
    <3>2. PICK c \in L : <<b[j], c>> \in Fit
      BY <1>7, <2>3
    <3>3. <<c>> \o q \in Seq(L) /\ <<c>> \o q # <<>>
      BY <1>c, EmptySeq
    <3>4. ASSUME NEW r \in Seq(L)
          PROVE  FitA(i, r \o (<<c>> \o q), Len(r) + 1) /\ FitB(j, r \o (<<c>> \o q), Len(r) + 1)
      <4>1. FitA(i, r \o (<<c>> \o q), Len(r) + 2) /\ FitB(j + 1, r \o (<<c>> \o q), Len(r) + 2)
        BY <1>f, <3>1
      <4>2. FitA(i, r \o (<<c>> \o q), Len(r) + 1)
        BY <1>7, <1>a, <2>3, <3>3, <4>1
      <4>3. FitB(j, r \o (<<c>> \o q), Len(r) + 1)
        BY <1>7, <1>e, <2>3, <3>2, <4>1
      <4> QED  BY <4>2, <4>3
    <3> QED  BY <1>3, <3>3, <3>4
  <2>4. CASE a[i] # any /\ b[j] = any /\ <<i + 1, j>> \in R
    <3>1. PICK q \in Seq(L) : Ends(i + 1, j, q)
      <4>1. (i + 1) + j > i + j /\ <<i + 1, j>> \in R
        BY <2>4
      <4> HIDE DEF Ends
      <4> QED  BY <1>4, <2>0, <4>1
    <3>2. PICK c \in L : <<a[i], c>> \in Fit
      BY <1>7, <2>4
    <3>3. <<c>> \o q \in Seq(L) /\ <<c>> \o q # <<>>
      BY <1>c, EmptySeq
    <3>4. ASSUME NEW r \in Seq(L)
          PROVE  FitA(i, r \o (<<c>> \o q), Len(r) + 1) /\ FitB(j, r \o (<<c>> \o q), Len(r) + 1)
      <4>1. FitA(i + 1, r \o (<<c>> \o q), Len(r) + 2) /\ FitB(j, r \o (<<c>> \o q), Len(r) + 2)
        BY <1>f, <3>1
      <4>2. FitB(j, r \o (<<c>> \o q), Len(r) + 1)
        BY <1>7, <1>b, <2>4, <3>3, <4>1
      <4>3. FitA(i, r \o (<<c>> \o q), Len(r) + 1)
        BY <1>7, <1>d, <2>4, <3>2, <4>1
      <4> QED  BY <4>2, <4>3
    <3> QED  BY <1>3, <3>3, <3>4
  <2>5. CASE a[i] # any /\ b[j] # any
    <3>1. <<a[i], b[j]>> \in Meet /\ <<i + 1, j + 1>> \in R
      BY <1>5, <1>7, <2>5 DEF MeetStep
    <3>2. PICK q \in Seq(L) : Ends(i + 1, j + 1, q)
      <4>1. (i + 1) + (j + 1) > i + j
        OBVIOUS
      <4> HIDE DEF Ends
      <4> QED  BY <1>4, <2>0, <3>1, <4>1
    <3>3. PICK c \in L : <<a[i], c>> \in Fit /\ <<b[j], c>> \in Fit
      BY <1>7, <2>5, <3>1
    <3>4. Ends(i, j, <<c>> \o q) /\ <<c>> \o q \in Seq(L)
      BY <1>7, <1>c, <1>d, <1>e, <1>f, <2>5, <3>2, <3>3
    <3> QED  BY <1>3, <3>4
  <2> QED  BY <1>5, <1>7, <2>1, <2>2, <2>3, <2>4, <2>5 DEF MeetStep
<1> QED  BY <1>6, <1>7

\* Only wildcards match nothing, and they match everything else too.
LEMMA NonemptyText ==
  ASSUME NEW a, Len(a) \in Nat \ {0}, NEW b, Len(b) \in Nat \ {0},
         NEW any, NEW Fit, NEW L, L # {}, NEW p \in Seq(L),
         FitsFrom(a, 1, p, 1, any, Fit), FitsFrom(b, 1, p, 1, any, Fit)
  PROVE  \E q \in Seq(L) \ {<<>>} : FitsFrom(a, 1, q, 1, any, Fit) /\ FitsFrom(b, 1, q, 1, any, Fit)
<1>1. ASSUME NEW c, Len(c) \in Nat \ {0}, NEW e, Len(e) = 0, FitsFrom(c, 1, e, 1, any, Fit),
             NEW q, Len(q) \in Nat
      PROVE  FitsFrom(c, 1, q, 1, any, Fit)
  <2>1. PICK cut \in [1 .. Len(c) + 1 -> 1 .. Len(e) + 1] :
          /\ cut[1] = 1 /\ cut[Len(c) + 1] = Len(e) + 1
          /\ \A n \in 1 .. Len(c) : Takes(c[n], cut[n], cut[n + 1], e, any, Fit)
    BY <1>1 DEF FitsFrom, Takes
  <2>2. \A n \in 1 .. Len(c) : c[n] = any
    <3> TAKE n \in 1 .. Len(c)
    <3>1. cut[n] = 1 /\ cut[n + 1] = 1
      <4>1. 1 .. Len(e) + 1 = {1}
        BY <1>1
      <4>2. n \in 1 .. Len(c) + 1 /\ n + 1 \in 1 .. Len(c) + 1
        BY <1>1
      <4> QED  BY <4>1, <4>2
    <3>2. cut[n + 1] # cut[n] + 1
      BY <3>1
    <3> QED  BY <2>1, <3>2 DEF Takes
  <2> DEFINE whole == [n \in 1 .. Len(c) + 1 |-> IF n = 1 THEN 1 ELSE Len(q) + 1]
  <2>3. whole \in [1 .. Len(c) + 1 -> 1 .. Len(q) + 1]
    BY <1>1
  <2>4. /\ whole[1] = 1
        /\ \A n \in 2 .. Len(c) + 1 : whole[n] = Len(q) + 1
    BY <1>1
  <2> HIDE DEF whole
  <2>5. ASSUME NEW n \in 1 .. Len(c) PROVE whole[n] =< whole[n + 1]
    <3>1. whole[n] \in 1 .. Len(q) + 1
      <4>1. n \in 1 .. Len(c) + 1
        OBVIOUS
      <4> QED  BY <2>3, <4>1
    <3>2. whole[n + 1] = Len(q) + 1
      BY <1>1, <2>4
    <3> QED  BY <3>1, <3>2
  <2>6. whole[Len(c) + 1] = Len(q) + 1
    BY <1>1, <2>4
  <2> QED  BY <2>2, <2>3, <2>4, <2>5, <2>6 DEF FitsFrom
<1>2. CASE p = <<>>
  <2>1. PICK x \in L : TRUE
    OBVIOUS
  <2>2. <<x>> \in Seq(L) \ {<<>>} /\ Len(<<x>>) \in Nat
    OBVIOUS
  <2>3. FitsFrom(a, 1, <<x>>, 1, any, Fit) /\ FitsFrom(b, 1, <<x>>, 1, any, Fit)
    <3>1. Len(p) = 0
      BY <1>2
    <3> QED  BY <1>1, <2>2, <3>1
  <2> QED  BY <2>2, <2>3
<1> QED  BY <1>2

\* A pattern whose items all have a letter matches something.
LEMMA SomeText ==
  ASSUME NEW L, L # {}, NEW a, Len(a) \in Nat \ {0}, NEW any, NEW Fit,
         \A i \in 1 .. Len(a) : a[i] # any => \E x \in L : <<a[i], x>> \in Fit
  PROVE  \E p \in Seq(L) \ {<<>>} : FitsFrom(a, 1, p, 1, any, Fit)
<1> DEFINE Suits(n, x) == a[n] # any => <<a[n], x>> \in Fit
           p == [n \in 1 .. Len(a) |-> CHOOSE x \in L : Suits(n, x)]
           cut == [n \in 1 .. Len(a) + 1 |-> n]
<1>1. \A n \in 1 .. Len(a) : \E x \in L : Suits(n, x)
  OBVIOUS
<1>2. \A n \in 1 .. Len(a) : p[n] \in L /\ Suits(n, p[n])
  <2> HIDE DEF Suits
  <2> QED  BY <1>1
<1>3. p \in Seq(L) /\ Len(p) = Len(a)
  <2>1. p \in [1 .. Len(a) -> L]
    BY <1>2
  <2> HIDE DEF p
  <2>2. p \in Seq(L)
    BY <2>1, SeqDef
  <2>3. Len(p) \in Nat /\ 1 .. Len(p) = 1 .. Len(a)
    BY <2>1, <2>2, LenProperties
  <2> QED  BY <2>2, <2>3
<1>4. cut \in [1 .. Len(a) + 1 -> 1 .. Len(p) + 1] /\ \A n \in 1 .. Len(a) + 1 : cut[n] = n
  BY <1>3
<1>5. p # <<>>
  BY <1>3, EmptySeq
<1> HIDE DEF p, cut
<1>6. \A n \in 1 .. Len(a) : cut[n] = n /\ cut[n + 1] = n + 1
  BY <1>4
<1>7. cut[1] = 1 /\ cut[Len(a) + 1] = Len(p) + 1
  BY <1>3, <1>4
<1>8. FitsFrom(a, 1, p, 1, any, Fit)
  BY <1>2, <1>4, <1>6, <1>7 DEF FitsFrom
<1> QED  BY <1>3, <1>5, <1>8

\* Every item has a letter, and two items meet exactly when they share one.
LettersTell(a, b, L, any, Fit, Meet) ==
  /\ \A i \in 1 .. Len(a) : a[i] # any => \E x \in L : <<a[i], x>> \in Fit
  /\ \A j \in 1 .. Len(b) : b[j] # any => \E x \in L : <<b[j], x>> \in Fit
  /\ \A i \in 1 .. Len(a), j \in 1 .. Len(b) :
       a[i] # any /\ b[j] # any =>
         (<<a[i], b[j]>> \in Meet <=> \E x \in L : <<a[i], x>> \in Fit /\ <<b[j], x>> \in Fit)

\* Then the walk succeeds exactly when some text matches both patterns.
LEMMA MeetingIsExact ==
  ASSUME NEW a, Len(a) \in Nat \ {0}, NEW b, Len(b) \in Nat \ {0}, NEW L, L # {},
         NEW any, NEW Fit, NEW Meet, NEW R, Meeting(R, a, b, any, Meet),
         LettersTell(a, b, L, any, Fit, Meet)
  PROVE  <<1, 1>> \in R <=>
           \E p \in Seq(L) \ {<<>>} : FitsFrom(a, 1, p, 1, any, Fit) /\ FitsFrom(b, 1, p, 1, any, Fit)
<1>1. ASSUME <<1, 1>> \in R
      PROVE  \E p \in Seq(L) \ {<<>>} : FitsFrom(a, 1, p, 1, any, Fit) /\ FitsFrom(b, 1, p, 1, any, Fit)
  <2>1. \E p \in Seq(L) : FitsFrom(a, 1, p, 1, any, Fit) /\ FitsFrom(b, 1, p, 1, any, Fit)
    BY <1>1, MeetingHasText DEF LettersTell
  <2> QED  BY <2>1, NonemptyText
<1>2. ASSUME NEW p \in Seq(L) \ {<<>>},
             FitsFrom(a, 1, p, 1, any, Fit), FitsFrom(b, 1, p, 1, any, Fit)
      PROVE  <<1, 1>> \in R
  <2>1. Len(p) \in Nat /\ \A k \in 1 .. Len(p) : p[k] \in L
    OBVIOUS
  <2>2. \A i \in 1 .. Len(a), j \in 1 .. Len(b), k \in 1 .. Len(p) :
           /\ a[i] # any /\ <<a[i], p[k]>> \in Fit
           /\ b[j] # any /\ <<b[j], p[k]>> \in Fit
           => <<a[i], b[j]>> \in Meet
    BY <2>1 DEF LettersTell
  <2>3. Len(a) \in Nat /\ Len(b) \in Nat
    OBVIOUS
  <2> QED  BY <1>2, <2>1, <2>2, <2>3, MeetingSeesTexts
<1> QED  BY <1>1, <1>2

-----------------------------------------------------------------------------
(* The walks of the module Globs are such walks.  A recursive function is  *)
(* whatever solves its equation, so first there must be a solution, and    *)
(* then any solution will do.                                              *)

\* Two characters that can stand for one.
CharsMeet(Chars) == {pair \in Chars \X Chars : pair[1] = "?" \/ pair[2] = "?" \/ pair[1] = pair[2]}

SegmentsStep(f, a, b, at) ==
  LET i == at[1]  j == at[2] IN
  IF i > Len(a) THEN OnlyFrom(b, j, "*")
  ELSE IF j > Len(b) THEN OnlyFrom(a, i, "*")
  ELSE IF a[i] = "*" \/ b[j] = "*" THEN f[<<i + 1, j>>] \/ f[<<i, j + 1>>]
  ELSE (a[i] = "?" \/ b[j] = "?" \/ a[i] = b[j]) /\ f[<<i + 1, j + 1>>]

SegmentsWalk(f, a, b) == f = [at \in Places(a, b) |-> SegmentsStep(f, a, b, at)]

LEMMA SegmentsStepIsMeetStep ==
  ASSUME NEW Chars, NEW a \in Seq(Chars), NEW b \in Seq(Chars), NEW f, NEW R,
         \A at \in Places(a, b) : f[at] <=> at \in R,
         NEW i \in 1 .. Len(a) + 1, NEW j \in 1 .. Len(b) + 1
  PROVE  SegmentsStep(f, a, b, <<i, j>>) <=> MeetStep(R, a, b, "*", CharsMeet(Chars), i, j)
<1> DEFINE at == <<i, j>>
<1>1. at[1] = i /\ at[2] = j
  OBVIOUS
<1> HIDE DEF at
<1>2. CASE i > Len(a) \/ j > Len(b)
  <2>1. SegmentsStep(f, a, b, at) <=> MeetStep(R, a, b, "*", CharsMeet(Chars), i, j)
    BY <1>1, <1>2 DEF SegmentsStep, MeetStep
  <2> QED  BY <2>1 DEF at
<1>3. CASE i \in 1 .. Len(a) /\ j \in 1 .. Len(b)
  <2>1. /\ <<i + 1, j>> \in Places(a, b) /\ <<i, j + 1>> \in Places(a, b)
        /\ <<i + 1, j + 1>> \in Places(a, b)
    <3>1. i + 1 \in 1 .. Len(a) + 1 /\ j + 1 \in 1 .. Len(b) + 1
      BY <1>3
    <3> QED  BY <3>1 DEF Places
  <2>2. <<a[i], b[j]>> \in CharsMeet(Chars) <=> a[i] = "?" \/ b[j] = "?" \/ a[i] = b[j]
    <3>1. a[i] \in Chars /\ b[j] \in Chars
      BY <1>3
    <3> QED  BY <3>1 DEF CharsMeet
  <2>3. ~(i > Len(a)) /\ ~(j > Len(b))
    BY <1>3
  <2>4. SegmentsStep(f, a, b, at) <=> MeetStep(R, a, b, "*", CharsMeet(Chars), i, j)
    BY <1>1, <2>1, <2>2, <2>3 DEF SegmentsStep, MeetStep
  <2> QED  BY <2>4 DEF at
<1> QED  BY <1>2, <1>3

LEMMA SegmentsWalkExists ==
  ASSUME NEW Chars, NEW a \in Seq(Chars), NEW b \in Seq(Chars)
  PROVE  \E f : SegmentsWalk(f, a, b)
<1>1. PICK R \in SUBSET Places(a, b) : Meeting(R, a, b, "*", CharsMeet(Chars))
  BY MeetingExists
<1> DEFINE f == [at \in Places(a, b) |-> at \in R]
<1>2. f = [at \in Places(a, b) |-> f[at]]
  OBVIOUS
<1>3. \A at \in Places(a, b) : f[at] <=> at \in R
  OBVIOUS
<1>b. \A at \in Places(a, b) : f[at] \in BOOLEAN
  OBVIOUS
<1> HIDE DEF f
<1>4. ASSUME NEW at \in Places(a, b) PROVE f[at] = SegmentsStep(f, a, b, at)
  <2>1. PICK i \in 1 .. Len(a) + 1, j \in 1 .. Len(b) + 1 : at = <<i, j>>
    BY DEF Places
  <2>2. f[at] <=> SegmentsStep(f, a, b, at)
    BY <1>1, <1>3, <2>1, SegmentsStepIsMeetStep DEF Meeting
  <2>3. SegmentsStep(f, a, b, at) \in BOOLEAN
    BY DEF SegmentsStep, OnlyFrom
  <2> QED  BY <1>b, <2>2, <2>3, EqualBooleans
<1> QED  BY <1>2, <1>4 DEF SegmentsWalk

LEMMA SegmentsAreMeeting ==
  ASSUME NEW Chars, NEW a \in Seq(Chars), NEW b \in Seq(Chars)
  PROVE  \E R : Meeting(R, a, b, "*", CharsMeet(Chars)) /\ (SegmentsIntersect(a, b) <=> <<1, 1>> \in R)
<1> DEFINE f == CHOOSE g : SegmentsWalk(g, a, b)
           R == {at \in Places(a, b) : f[at]}
<1>1. SegmentsWalk(f, a, b)
  BY SegmentsWalkExists
<1>2. SegmentsIntersect(a, b) = f[<<1, 1>>]
  BY DEF SegmentsIntersect, SegmentsWalk, SegmentsStep
<1> HIDE DEF f
<1>3. \A at \in Places(a, b) : f[at] <=> at \in R
  OBVIOUS
<1>4. \A at \in Places(a, b) : f[at] = SegmentsStep(f, a, b, at)
  BY <1>1 DEF SegmentsWalk
<1> HIDE DEF R
<1>5. Meeting(R, a, b, "*", CharsMeet(Chars))
  <2> SUFFICES ASSUME NEW i \in 1 .. Len(a) + 1, NEW j \in 1 .. Len(b) + 1
               PROVE  <<i, j>> \in R <=> MeetStep(R, a, b, "*", CharsMeet(Chars), i, j)
    BY DEF Meeting
  <2>1. <<i, j>> \in Places(a, b)
    BY DEF Places
  <2> QED  BY <1>3, <1>4, <2>1, SegmentsStepIsMeetStep
<1>6. <<1, 1>> \in Places(a, b)
  BY DEF Places
<1> QED  BY <1>2, <1>3, <1>5, <1>6

\* Two segments that can stand for one.
SegsMeet(Segs) == {pair \in Segs \X Segs : SegmentsIntersect(pair[1], pair[2])}

GlobsStep(f, a, b, at) ==
  LET i == at[1]  j == at[2] IN
  IF i > Len(a) THEN OnlyFrom(b, j, Globstar)
  ELSE IF j > Len(b) THEN OnlyFrom(a, i, Globstar)
  ELSE IF a[i] = Globstar \/ b[j] = Globstar THEN f[<<i + 1, j>>] \/ f[<<i, j + 1>>]
  ELSE SegmentsIntersect(a[i], b[j]) /\ f[<<i + 1, j + 1>>]

GlobsWalk(f, a, b) == f = [at \in Places(a, b) |-> GlobsStep(f, a, b, at)]

LEMMA GlobsStepIsMeetStep ==
  ASSUME NEW Segs, NEW a \in Seq(Segs), NEW b \in Seq(Segs), NEW f, NEW R,
         \A at \in Places(a, b) : f[at] <=> at \in R,
         NEW i \in 1 .. Len(a) + 1, NEW j \in 1 .. Len(b) + 1
  PROVE  GlobsStep(f, a, b, <<i, j>>) <=> MeetStep(R, a, b, Globstar, SegsMeet(Segs), i, j)
<1> DEFINE at == <<i, j>>
<1>1. at[1] = i /\ at[2] = j
  OBVIOUS
<1> HIDE DEF at
<1>2. CASE i > Len(a) \/ j > Len(b)
  <2>1. GlobsStep(f, a, b, at) <=> MeetStep(R, a, b, Globstar, SegsMeet(Segs), i, j)
    BY <1>1, <1>2 DEF GlobsStep, MeetStep
  <2> QED  BY <2>1 DEF at
<1>3. CASE i \in 1 .. Len(a) /\ j \in 1 .. Len(b)
  <2>1. /\ <<i + 1, j>> \in Places(a, b) /\ <<i, j + 1>> \in Places(a, b)
        /\ <<i + 1, j + 1>> \in Places(a, b)
    <3>1. i + 1 \in 1 .. Len(a) + 1 /\ j + 1 \in 1 .. Len(b) + 1
      BY <1>3
    <3> QED  BY <3>1 DEF Places
  <2>2. <<a[i], b[j]>> \in SegsMeet(Segs) <=> SegmentsIntersect(a[i], b[j])
    <3>1. a[i] \in Segs /\ b[j] \in Segs
      BY <1>3
    <3> QED  BY <3>1 DEF SegsMeet
  <2>3. ~(i > Len(a)) /\ ~(j > Len(b))
    BY <1>3
  <2>4. GlobsStep(f, a, b, at) <=> MeetStep(R, a, b, Globstar, SegsMeet(Segs), i, j)
    BY <1>1, <2>1, <2>2, <2>3 DEF GlobsStep, MeetStep
  <2> QED  BY <2>4 DEF at
<1> QED  BY <1>2, <1>3

LEMMA GlobsWalkExists ==
  ASSUME NEW Segs, NEW a \in Seq(Segs), NEW b \in Seq(Segs)
  PROVE  \E f : GlobsWalk(f, a, b)
<1>1. PICK R \in SUBSET Places(a, b) : Meeting(R, a, b, Globstar, SegsMeet(Segs))
  BY MeetingExists
<1> DEFINE f == [at \in Places(a, b) |-> at \in R]
<1>2. f = [at \in Places(a, b) |-> f[at]]
  OBVIOUS
<1>3. \A at \in Places(a, b) : f[at] <=> at \in R
  OBVIOUS
<1>b. \A at \in Places(a, b) : f[at] \in BOOLEAN
  OBVIOUS
<1> HIDE DEF f
<1>4. ASSUME NEW at \in Places(a, b) PROVE f[at] = GlobsStep(f, a, b, at)
  <2>1. PICK i \in 1 .. Len(a) + 1, j \in 1 .. Len(b) + 1 : at = <<i, j>>
    BY DEF Places
  <2>2. f[at] <=> GlobsStep(f, a, b, at)
    BY <1>1, <1>3, <2>1, GlobsStepIsMeetStep DEF Meeting
  <2>3. GlobsStep(f, a, b, at) \in BOOLEAN
    BY DEF GlobsStep, OnlyFrom
  <2> QED  BY <1>b, <2>2, <2>3, EqualBooleans
<1> QED  BY <1>2, <1>4 DEF GlobsWalk

LEMMA GlobsAreMeeting ==
  ASSUME NEW Segs, NEW a \in Seq(Segs), NEW b \in Seq(Segs)
  PROVE  \E R : Meeting(R, a, b, Globstar, SegsMeet(Segs)) /\ (GlobsIntersect(a, b) <=> <<1, 1>> \in R)
<1> DEFINE f == CHOOSE g : GlobsWalk(g, a, b)
           R == {at \in Places(a, b) : f[at]}
<1>1. GlobsWalk(f, a, b)
  BY GlobsWalkExists
<1>2. GlobsIntersect(a, b) = f[<<1, 1>>]
  BY DEF GlobsIntersect, GlobsWalk, GlobsStep
<1> HIDE DEF f
<1>3. \A at \in Places(a, b) : f[at] <=> at \in R
  OBVIOUS
<1>4. \A at \in Places(a, b) : f[at] = GlobsStep(f, a, b, at)
  BY <1>1 DEF GlobsWalk
<1> HIDE DEF R
<1>5. Meeting(R, a, b, Globstar, SegsMeet(Segs))
  <2> SUFFICES ASSUME NEW i \in 1 .. Len(a) + 1, NEW j \in 1 .. Len(b) + 1
               PROVE  <<i, j>> \in R <=> MeetStep(R, a, b, Globstar, SegsMeet(Segs), i, j)
    BY DEF Meeting
  <2>1. <<i, j>> \in Places(a, b)
    BY DEF Places
  <2> QED  BY <1>3, <1>4, <2>1, GlobsStepIsMeetStep
<1>6. <<1, 1>> \in Places(a, b)
  BY DEF Places
<1> QED  BY <1>2, <1>3, <1>5, <1>6

-----------------------------------------------------------------------------
(* What the two levels compute.                                            *)

\* The letters a character stands for, and the words a segment does.
CharFits(Letters) ==
  {pair \in (Letters \cup {"*", "?"}) \X Letters : pair[1] \in {"?", pair[2]}}
SegFits(Letters) ==
  {pair \in SegmentsOver(Letters) \X WordsOver(Letters) : SegmentMatches(pair[1], pair[2])}

LEMMA MatchingWords ==
  ASSUME NEW Letters, NEW seg \in Seq(Letters \cup {"*", "?"}), NEW word \in Seq(Letters)
  PROVE  SegmentMatches(seg, word) <=> FitsFrom(seg, 1, word, 1, "*", CharFits(Letters))
<1>1. ASSUME NEW cut \in [1 .. Len(seg) + 1 -> 1 .. Len(word) + 1], NEW i \in 1 .. Len(seg),
             cut[i + 1] = cut[i] + 1
      PROVE  seg[i] \in {"?", word[cut[i]]} <=> <<seg[i], word[cut[i]]>> \in CharFits(Letters)
  <2>1. cut[i] \in 1 .. Len(word) + 1 /\ cut[i + 1] \in 1 .. Len(word) + 1
    <3>1. i \in 1 .. Len(seg) + 1 /\ i + 1 \in 1 .. Len(seg) + 1
      OBVIOUS
    <3> QED  BY <3>1
  <2>2. cut[i] \in 1 .. Len(word)
    BY <1>1, <2>1
  <2>3. word[cut[i]] \in Letters /\ seg[i] \in Letters \cup {"*", "?"}
    BY <2>2
  <2> QED  BY <2>3 DEF CharFits
<1>2. ASSUME NEW cut \in [1 .. Len(seg) + 1 -> 1 .. Len(word) + 1]
      PROVE  (\A i \in 1 .. Len(seg) :
                IF seg[i] = "*" THEN cut[i] =< cut[i + 1]
                ELSE cut[i + 1] = cut[i] + 1 /\ seg[i] \in {"?", word[cut[i]]})
             <=> (\A i \in 1 .. Len(seg) :
                    Takes(seg[i], cut[i], cut[i + 1], word, "*", CharFits(Letters)))
  BY <1>1 DEF Takes
<1>3. FitsFrom(seg, 1, word, 1, "*", CharFits(Letters)) <=>
        \E cut \in [1 .. Len(seg) + 1 -> 1 .. Len(word) + 1] :
          /\ cut[1] = 1 /\ cut[Len(seg) + 1] = Len(word) + 1
          /\ \A i \in 1 .. Len(seg) : Takes(seg[i], cut[i], cut[i + 1], word, "*", CharFits(Letters))
  BY DEF FitsFrom, Takes
<1> QED  BY <1>2, <1>3 DEF SegmentMatches, Cuts

LEMMA MatchingPaths ==
  ASSUME NEW Letters, NEW glob \in Seq(SegmentsOver(Letters)), NEW path \in Seq(WordsOver(Letters))
  PROVE  GlobMatches(glob, path) <=> FitsFrom(glob, 1, path, 1, Globstar, SegFits(Letters))
<1>1. ASSUME NEW cut \in [1 .. Len(glob) + 1 -> 1 .. Len(path) + 1], NEW i \in 1 .. Len(glob),
             cut[i + 1] = cut[i] + 1
      PROVE  SegmentMatches(glob[i], path[cut[i]]) <=> <<glob[i], path[cut[i]]>> \in SegFits(Letters)
  <2>1. cut[i] \in 1 .. Len(path) + 1 /\ cut[i + 1] \in 1 .. Len(path) + 1
    <3>1. i \in 1 .. Len(glob) + 1 /\ i + 1 \in 1 .. Len(glob) + 1
      OBVIOUS
    <3> QED  BY <3>1
  <2>2. cut[i] \in 1 .. Len(path)
    BY <1>1, <2>1
  <2>3. path[cut[i]] \in WordsOver(Letters) /\ glob[i] \in SegmentsOver(Letters)
    BY <2>2
  <2> QED  BY <2>3 DEF SegFits
<1> QED  BY <1>1 DEF GlobMatches, Cuts, FitsFrom

(* segmentsIntersect is exact: two segment patterns, whatever characters   *)
(* they are made of, are found to intersect exactly when some name matches *)
(* both of them.                                                           *)
THEOREM SegmentsExact ==
  ASSUME NEW Letters, Letters # {},
         NEW a \in SegmentsOver(Letters), NEW b \in SegmentsOver(Letters)
  PROVE  SegmentsIntersect(a, b) <=>
           \E word \in WordsOver(Letters) : SegmentMatches(a, word) /\ SegmentMatches(b, word)
<1> DEFINE Chars == Letters \cup {"*", "?"}
           Fit == CharFits(Letters)
           Meet == CharsMeet(Chars)
<1>1. a \in Seq(Chars) /\ b \in Seq(Chars) /\ Len(a) \in Nat \ {0} /\ Len(b) \in Nat \ {0}
  BY EmptySeq DEF SegmentsOver
<1>2. PICK R : Meeting(R, a, b, "*", Meet) /\ (SegmentsIntersect(a, b) <=> <<1, 1>> \in R)
  BY <1>1, SegmentsAreMeeting
<1>3. \A c, x : <<c, x>> \in Fit <=> c \in Chars /\ x \in Letters /\ (c = "?" \/ c = x)
  BY DEF CharFits
<1>4. \A c, d : <<c, d>> \in Meet <=> c \in Chars /\ d \in Chars /\ (c = "?" \/ d = "?" \/ c = d)
  BY DEF CharsMeet
<1>5. \A c \in Chars : c # "*" => \E x \in Letters : <<c, x>> \in Fit
  <2> HIDE DEF Fit
  <2> QED  BY <1>3
<1>6. \A c, d \in Chars : c # "*" /\ d # "*" =>
        (<<c, d>> \in Meet <=> \E x \in Letters : <<c, x>> \in Fit /\ <<d, x>> \in Fit)
  <2> HIDE DEF Fit, Meet
  <2> QED  BY <1>3, <1>4
<1>7. /\ \A i \in 1 .. Len(a) : a[i] \in Chars
      /\ \A j \in 1 .. Len(b) : b[j] \in Chars
  BY <1>1, ElementOfSeq
<1> HIDE DEF Chars, Fit, Meet
<1>8. <<1, 1>> \in R <=>
        \E p \in Seq(Letters) \ {<<>>} : FitsFrom(a, 1, p, 1, "*", Fit) /\ FitsFrom(b, 1, p, 1, "*", Fit)
  <2>1. LettersTell(a, b, Letters, "*", Fit, Meet)
    BY <1>5, <1>6, <1>7 DEF LettersTell
  <2> QED  BY <1>1, <1>2, <2>1, MeetingIsExact
<1>9. \A p \in Seq(Letters) : /\ SegmentMatches(a, p) <=> FitsFrom(a, 1, p, 1, "*", Fit)
                              /\ SegmentMatches(b, p) <=> FitsFrom(b, 1, p, 1, "*", Fit)
  BY <1>1, MatchingWords DEF Chars, Fit
<1> QED  BY <1>2, <1>8, <1>9 DEF WordsOver

LEMMA SegmentHasWord ==
  ASSUME NEW Letters, Letters # {}, NEW seg \in SegmentsOver(Letters)
  PROVE  \E word \in WordsOver(Letters) : SegmentMatches(seg, word)
<1>1. seg \in Seq(Letters \cup {"*", "?"}) /\ Len(seg) \in Nat \ {0}
  BY EmptySeq DEF SegmentsOver
<1>2. \A i \in 1 .. Len(seg) : seg[i] \in Letters \cup {"*", "?"}
  BY <1>1, ElementOfSeq
<1>3. \A c \in Letters \cup {"?"} : \E x \in Letters : <<c, x>> \in CharFits(Letters)
  BY DEF CharFits
<1>4. \A i \in 1 .. Len(seg) : seg[i] # "*" => \E x \in Letters : <<seg[i], x>> \in CharFits(Letters)
  BY <1>2, <1>3
<1>5. PICK p \in Seq(Letters) \ {<<>>} : FitsFrom(seg, 1, p, 1, "*", CharFits(Letters))
  BY <1>1, <1>4, SomeText
<1> QED  BY <1>1, <1>5, MatchingWords DEF WordsOver

(* globsIntersect is exact, for normalised globs of every length over      *)
(* every alphabet: it answers yes exactly when some path matches both, so  *)
(* the lock check misses no collision and invents none.                    *)
THEOREM IntersectionExact ==
  ASSUME NEW Letters, Letters # {},
         NEW a \in GlobsOver(Letters), NEW b \in GlobsOver(Letters)
  PROVE  GlobsIntersect(a, b) <=>
           \E path \in PathsOver(Letters) : GlobMatches(a, path) /\ GlobMatches(b, path)
<1> DEFINE Segs == SegmentsOver(Letters)
           Words == WordsOver(Letters)
           Fit == SegFits(Letters)
           Meet == SegsMeet(Segs)
<1>1. a \in Seq(Segs) /\ b \in Seq(Segs) /\ Len(a) \in Nat \ {0} /\ Len(b) \in Nat \ {0}
  <2> HIDE DEF Segs
  <2>1. a \in Seq(Segs) \ {<<>>} /\ b \in Seq(Segs) \ {<<>>}
    BY DEF GlobsOver, Segs
  <2> QED  BY <2>1, EmptySeq
<1>2. PICK R : Meeting(R, a, b, Globstar, Meet) /\ (GlobsIntersect(a, b) <=> <<1, 1>> \in R)
  BY <1>1, GlobsAreMeeting
<1>3. \A s, w : <<s, w>> \in Fit <=> s \in Segs /\ w \in Words /\ SegmentMatches(s, w)
  BY DEF SegFits
<1>4. \A s, t : <<s, t>> \in Meet <=> s \in Segs /\ t \in Segs /\ SegmentsIntersect(s, t)
  BY DEF SegsMeet
<1>5. \A s \in Segs : \E w \in Words : <<s, w>> \in Fit
  <2> HIDE DEF Fit
  <2> QED  BY <1>3, SegmentHasWord
<1>6. \A s, t \in Segs : <<s, t>> \in Meet <=> \E w \in Words : <<s, w>> \in Fit /\ <<t, w>> \in Fit
  <2> HIDE DEF Fit, Meet
  <2> QED  BY <1>3, <1>4, SegmentsExact
<1>7. /\ \A i \in 1 .. Len(a) : a[i] \in Segs
      /\ \A j \in 1 .. Len(b) : b[j] \in Segs
  <2> HIDE DEF Segs
  <2> QED  BY <1>1, ElementOfSeq
<1>8. Words # {}
  <2>1. PICK x \in Letters : TRUE
    OBVIOUS
  <2>2. <<x>> \in Words
    BY DEF WordsOver
  <2> QED  BY <2>2
<1> HIDE DEF Segs, Words, Fit, Meet
<1>9. <<1, 1>> \in R <=>
        \E p \in Seq(Words) \ {<<>>} : FitsFrom(a, 1, p, 1, Globstar, Fit) /\ FitsFrom(b, 1, p, 1, Globstar, Fit)
  <2>1. LettersTell(a, b, Words, Globstar, Fit, Meet)
    BY <1>5, <1>6, <1>7 DEF LettersTell
  <2> QED  BY <1>1, <1>2, <1>8, <2>1, MeetingIsExact
<1>10. \A p \in Seq(Words) : /\ GlobMatches(a, p) <=> FitsFrom(a, 1, p, 1, Globstar, Fit)
                             /\ GlobMatches(b, p) <=> FitsFrom(b, 1, p, 1, Globstar, Fit)
  BY <1>1, MatchingPaths DEF Segs, Words, Fit
<1> QED  BY <1>2, <1>9, <1>10 DEF PathsOver, Words

(* Whether a lock is refused does not depend on who asked first.           *)
THEOREM IntersectionSymmetric ==
  ASSUME NEW Letters, Letters # {},
         NEW a \in GlobsOver(Letters), NEW b \in GlobsOver(Letters)
  PROVE  GlobsIntersect(a, b) <=> GlobsIntersect(b, a)
BY IntersectionExact

-----------------------------------------------------------------------------
(* Containment.  globContains asks whether the request, read as a path of  *)
(* segments, matches what is allowed, with segContains for the match.      *)

SegsContain(Segs) == {pair \in Segs \X Segs : SegContains(pair[1], pair[2])}

ContainsStep(f, allowed, requested, at) ==
  LET i == at[1]  j == at[2] IN
  IF i > Len(allowed) THEN j > Len(requested)
  ELSE IF allowed[i] = Globstar
    THEN f[<<i + 1, j>>] \/ (j =< Len(requested) /\ f[<<i, j + 1>>])
  ELSE /\ j =< Len(requested)
       /\ SegContains(allowed[i], requested[j])
       /\ f[<<i + 1, j + 1>>]

ContainsWalk(f, allowed, requested) ==
  f = [at \in Places(allowed, requested) |-> ContainsStep(f, allowed, requested, at)]

\* A step of the walk answers for fitting, if what it looks ahead to does.
LEMMA FitsIsContainsStep ==
  ASSUME NEW Segs, NEW a \in Seq(Segs), NEW r \in Seq(Segs), NEW f,
         NEW i \in 1 .. Len(a) + 1, NEW j \in 1 .. Len(r) + 1,
         \A x \in 1 .. Len(a) + 1, y \in 1 .. Len(r) + 1 :
           x + y > i + j => (f[<<x, y>>] <=> FitsFrom(a, x, r, y, Globstar, SegsContain(Segs)))
  PROVE  ContainsStep(f, a, r, <<i, j>>) <=> FitsFrom(a, i, r, j, Globstar, SegsContain(Segs))
<1> DEFINE at == <<i, j>>
           Fit == SegsContain(Segs)
<1>0. Len(a) \in Nat /\ Len(r) \in Nat
  OBVIOUS
<1>1. at[1] = i /\ at[2] = j
  OBVIOUS
<1>a. \A x \in {i, i + 1}, y \in {j, j + 1} :
        x \in 1 .. Len(a) + 1 /\ y \in 1 .. Len(r) + 1 /\ (x = i + 1 \/ y = j + 1) =>
          (f[<<x, y>>] <=> FitsFrom(a, x, r, y, Globstar, Fit))
  <2>1. \A x \in {i, i + 1}, y \in {j, j + 1} : x = i + 1 \/ y = j + 1 => x + y > i + j
    OBVIOUS
  <2> HIDE DEF at
  <2> QED  BY <2>1
<1>2. i \in 1 .. Len(a) /\ j =< Len(r) => (<<a[i], r[j]>> \in Fit <=> SegContains(a[i], r[j]))
  <2>1. i \in 1 .. Len(a) /\ j =< Len(r) => a[i] \in Segs /\ r[j] \in Segs
    OBVIOUS
  <2> QED  BY <2>1 DEF SegsContain
<1> HIDE DEF at, Fit
<1>3. CASE i = Len(a) + 1
  <2>1. ContainsStep(f, a, r, at) <=> j > Len(r)
    BY <1>0, <1>1, <1>3 DEF ContainsStep
  <2>2. j > Len(r) <=> j = Len(r) + 1
    BY <1>0
  <2> QED  BY <1>0, <1>3, <2>1, <2>2, FitsAtEnd DEF at, Fit
<1>4. CASE i \in 1 .. Len(a) /\ a[i] = Globstar
  <2>1. ~(i > Len(a)) /\ i + 1 \in 1 .. Len(a) + 1 /\ (j =< Len(r) => j + 1 \in 1 .. Len(r) + 1)
    BY <1>0, <1>4
  <2>2. ContainsStep(f, a, r, at) <=> f[<<i + 1, j>>] \/ (j =< Len(r) /\ f[<<i, j + 1>>])
    BY <1>1, <1>4, <2>1 DEF ContainsStep
  <2>3. FitsFrom(a, i, r, j, Globstar, Fit) <=>
          \/ FitsFrom(a, i + 1, r, j, Globstar, Fit)
          \/ j =< Len(r) /\ FitsFrom(a, i, r, j + 1, Globstar, Fit)
    BY <1>0, <1>4, FitsAny
  <2> QED  BY <1>a, <2>1, <2>2, <2>3 DEF at, Fit
<1>5. CASE i \in 1 .. Len(a) /\ a[i] # Globstar
  <2>1. ~(i > Len(a)) /\ i + 1 \in 1 .. Len(a) + 1 /\ (j =< Len(r) => j + 1 \in 1 .. Len(r) + 1)
    BY <1>0, <1>5
  <2>2. ContainsStep(f, a, r, at) <=>
          j =< Len(r) /\ SegContains(a[i], r[j]) /\ f[<<i + 1, j + 1>>]
    BY <1>1, <1>5, <2>1 DEF ContainsStep
  <2>3. FitsFrom(a, i, r, j, Globstar, Fit) <=>
          j =< Len(r) /\ <<a[i], r[j]>> \in Fit /\ FitsFrom(a, i + 1, r, j + 1, Globstar, Fit)
    BY <1>0, <1>5, FitsOne
  <2> QED  BY <1>2, <1>5, <1>a, <2>1, <2>2, <2>3 DEF at, Fit
<1>6. i = Len(a) + 1 \/ i \in 1 .. Len(a)
  BY <1>0
<1> QED  BY <1>3, <1>4, <1>5, <1>6

LEMMA ContainsWalkExists ==
  ASSUME NEW Segs, NEW a \in Seq(Segs), NEW r \in Seq(Segs)
  PROVE  \E f : ContainsWalk(f, a, r)
<1> DEFINE R == {at \in Places(a, r) : FitsFrom(a, at[1], r, at[2], Globstar, SegsContain(Segs))}
           f == [at \in Places(a, r) |-> at \in R]
<1>1. f = [at \in Places(a, r) |-> f[at]]
  OBVIOUS
<1>2. \A at \in Places(a, r) : f[at] <=> at \in R
  OBVIOUS
<1>b. \A at \in Places(a, r) : f[at] \in BOOLEAN
  OBVIOUS
<1> HIDE DEF f
<1>3. ASSUME NEW i \in 1 .. Len(a) + 1, NEW j \in 1 .. Len(r) + 1
      PROVE  f[<<i, j>>] <=> FitsFrom(a, i, r, j, Globstar, SegsContain(Segs))
  <2> DEFINE at == <<i, j>>
  <2>1. at \in Places(a, r) /\ at[1] = i /\ at[2] = j
    BY DEF Places
  <2> HIDE DEF at
  <2>2. f[at] <=> FitsFrom(a, i, r, j, Globstar, SegsContain(Segs))
    BY <1>2, <2>1
  <2> QED  BY <2>2 DEF at
<1>4. ASSUME NEW at \in Places(a, r) PROVE f[at] = ContainsStep(f, a, r, at)
  <2>1. PICK i \in 1 .. Len(a) + 1, j \in 1 .. Len(r) + 1 : at = <<i, j>>
    BY DEF Places
  <2>2. f[at] <=> ContainsStep(f, a, r, at)
    BY <1>3, <2>1, FitsIsContainsStep
  <2>3. ContainsStep(f, a, r, at) \in BOOLEAN
    <3>1. at[2] = j /\ (j > Len(r)) \in BOOLEAN
      BY <2>1
    <3> QED  BY <3>1 DEF ContainsStep
  <2> QED  BY <1>b, <2>2, <2>3, EqualBooleans
<1> QED  BY <1>1, <1>4 DEF ContainsWalk

\* And the only one.
LEMMA ContainsWalkIsFits ==
  ASSUME NEW Segs, NEW a \in Seq(Segs), NEW r \in Seq(Segs), NEW f, ContainsWalk(f, a, r)
  PROVE  f[<<1, 1>>] <=> FitsFrom(a, 1, r, 1, Globstar, SegsContain(Segs))
<1> DEFINE Fits(i, j) == FitsFrom(a, i, r, j, Globstar, SegsContain(Segs))
           Left(i, j) == (Len(a) + 1 - i) + (Len(r) + 1 - j)
           Bad == {n \in Nat : \E i \in 1 .. Len(a) + 1, j \in 1 .. Len(r) + 1 :
                     n = Left(i, j) /\ ~(f[<<i, j>>] <=> Fits(i, j))}
<1>0. Len(a) \in Nat /\ Len(r) \in Nat /\ 1 \in 1 .. Len(a) + 1 /\ 1 \in 1 .. Len(r) + 1
  OBVIOUS
<1>1. ASSUME Bad = {} PROVE f[<<1, 1>>] <=> Fits(1, 1)
  <2>1. Left(1, 1) \in Nat
    BY <1>0
  <2> HIDE DEF Left, Fits
  <2> QED  BY <1>0, <1>1, <2>1
<1> SUFFICES ASSUME Bad # {} PROVE FALSE
  BY <1>1
<1>2. PICK n \in Bad : \A m \in Bad : n =< m
  <2> HIDE DEF Bad
  <2>1. Bad \subseteq Nat
    BY DEF Bad
  <2> QED  BY <2>1, LeastElement
<1>3. PICK i \in 1 .. Len(a) + 1, j \in 1 .. Len(r) + 1 :
        n = Left(i, j) /\ ~(f[<<i, j>>] <=> Fits(i, j))
  OBVIOUS
<1>4. ASSUME NEW x \in 1 .. Len(a) + 1, NEW y \in 1 .. Len(r) + 1, x + y > i + j
      PROVE  f[<<x, y>>] <=> Fits(x, y)
  <2>1. Left(x, y) \in Nat /\ Left(x, y) < Left(i, j) /\ Left(i, j) \in Nat
    BY <1>0, <1>4
  <2> SUFFICES ASSUME ~(f[<<x, y>>] <=> Fits(x, y)) PROVE FALSE
    OBVIOUS
  <2>2. Left(x, y) \in Bad
    <3> HIDE DEF Left, Fits
    <3> QED  BY <2>1
  <2> HIDE DEF Bad, Left
  <2> QED  BY <1>2, <1>3, <2>1, <2>2
<1>5. f[<<i, j>>] = ContainsStep(f, a, r, <<i, j>>)
  <2>1. <<i, j>> \in Places(a, r)
    BY DEF Places
  <2> QED  BY <2>1 DEF ContainsWalk
<1>6. ContainsStep(f, a, r, <<i, j>>) <=> Fits(i, j)
  <2> HIDE DEF Bad, Left
  <2> QED  BY <1>4, FitsIsContainsStep
<1> QED  BY <1>3, <1>5, <1>6

(* globContains read as matching: the request is contained exactly when it *)
(* can be cut into one piece for each allowed segment, any piece for **    *)
(* and one segment that segContains accepts for every other.               *)
THEOREM ContainmentIsMatching ==
  ASSUME NEW Letters, NEW a \in GlobsOver(Letters), NEW r \in GlobsOver(Letters)
  PROVE  GlobContains(a, r) <=>
           FitsFrom(a, 1, r, 1, Globstar, SegsContain(SegmentsOver(Letters)))
<1> DEFINE f == CHOOSE g : ContainsWalk(g, a, r)
           Segs == SegmentsOver(Letters)
<1>0. a \in Seq(Segs) /\ r \in Seq(Segs)
  BY DEF GlobsOver
<1>1. ContainsWalk(f, a, r)
  BY <1>0, ContainsWalkExists
<1>2. GlobContains(a, r) = f[<<1, 1>>]
  BY DEF GlobContains, ContainsWalk, ContainsStep
<1> HIDE DEF f
<1> QED  BY <1>0, <1>1, <1>2, ContainsWalkIsFits

\* Later items get later pieces.
LEMMA CutsAscend ==
  ASSUME NEW N \in Nat, NEW M \in Nat, NEW cut \in [1 .. N + 1 -> 1 .. M + 1],
         \A n \in 1 .. N : cut[n] =< cut[n + 1],
         NEW x \in 1 .. N + 1, NEW y \in x .. N + 1
  PROVE  cut[x] =< cut[y]
<1> DEFINE Bad == {z \in Nat : z \in x .. N + 1 /\ cut[z] < cut[x]}
<1>0. \A z \in x .. N + 1 : z \in Nat /\ z \in 1 .. N + 1
  OBVIOUS
<1>a. \A z \in 1 .. N + 1 : cut[z] \in Nat
  <2>1. 1 .. M + 1 \subseteq Nat
    OBVIOUS
  <2> QED  BY <2>1
<1>1. ASSUME Bad = {} PROVE cut[x] =< cut[y]
  <2>1. ~(cut[y] < cut[x])
    BY <1>0, <1>1
  <2>2. cut[x] \in Nat /\ cut[y] \in Nat
    BY <1>0, <1>a
  <2> QED  BY <2>1, <2>2
<1> SUFFICES ASSUME Bad # {} PROVE FALSE
  BY <1>1
<1>2. PICK z \in Bad : \A m \in Bad : z =< m
  <2>1. Bad \subseteq Nat
    OBVIOUS
  <2> HIDE DEF Bad
  <2> QED  BY <2>1, LeastElement
<1>3. z \in x .. N + 1 /\ cut[z] < cut[x] /\ z # x
  <2>1. cut[x] \in Nat
    OBVIOUS
  <2> QED  BY <2>1
<1>4. z - 1 \in Nat /\ z - 1 \in x .. N + 1 /\ z - 1 \in 1 .. N /\ (z - 1) + 1 = z
  BY <1>3
<1>5. cut[z - 1] =< cut[z]
  BY <1>4
<1>6. cut[z - 1] \in Nat /\ cut[z] \in Nat /\ cut[x] \in Nat
  <2>1. z - 1 \in 1 .. N + 1 /\ z \in 1 .. N + 1
    BY <1>3, <1>4
  <2> QED  BY <1>a, <2>1
<1>7. z - 1 \in Bad
  BY <1>3, <1>4, <1>5, <1>6
<1>8. ~(z =< z - 1)
  OBVIOUS
<1> HIDE DEF Bad
<1> QED  BY <1>2, <1>7, <1>8

\* Cuts compose: what fits a request fits whatever the request fits.
LEMMA FitsCompose ==
  ASSUME NEW a, Len(a) \in Nat, NEW r, Len(r) \in Nat, NEW p, Len(p) \in Nat,
         NEW any, NEW Inner, NEW Fit,
         \A i \in 1 .. Len(a), j \in 1 .. Len(r) :
           a[i] # any /\ <<a[i], r[j]>> \in Inner =>
             r[j] # any /\ \A x : <<r[j], x>> \in Fit => <<a[i], x>> \in Fit,
         FitsFrom(a, 1, r, 1, any, Inner), FitsFrom(r, 1, p, 1, any, Fit)
  PROVE  FitsFrom(a, 1, p, 1, any, Fit)
<1>1. PICK outer \in [1 .. Len(a) + 1 -> 1 .. Len(r) + 1] :
        /\ outer[1] = 1 /\ outer[Len(a) + 1] = Len(r) + 1
        /\ \A n \in 1 .. Len(a) : Takes(a[n], outer[n], outer[n + 1], r, any, Inner)
  BY DEF FitsFrom, Takes
<1>2. PICK inner \in [1 .. Len(r) + 1 -> 1 .. Len(p) + 1] :
        /\ inner[1] = 1 /\ inner[Len(r) + 1] = Len(p) + 1
        /\ \A n \in 1 .. Len(r) : Takes(r[n], inner[n], inner[n + 1], p, any, Fit)
  BY DEF FitsFrom, Takes
<1>3. \A n \in 1 .. Len(r) : inner[n] =< inner[n + 1]
  <2> TAKE n \in 1 .. Len(r)
  <2>1. inner[n] \in 1 .. Len(p) + 1
    <3>1. n \in 1 .. Len(r) + 1
      OBVIOUS
    <3> QED  BY <3>1
  <2>2. inner[n] \in Nat
    BY <2>1
  <2>3. Takes(r[n], inner[n], inner[n + 1], p, any, Fit)
    BY <1>2
  <2> QED  BY <2>2, <2>3 DEF Takes
<1> DEFINE cut == [n \in 1 .. Len(a) + 1 |-> inner[outer[n]]]
<1>4. cut \in [1 .. Len(a) + 1 -> 1 .. Len(p) + 1]
  OBVIOUS
<1>5. \A n \in 1 .. Len(a) + 1 : cut[n] = inner[outer[n]]
  OBVIOUS
<1> HIDE DEF cut
<1>6. cut[1] = 1 /\ cut[Len(a) + 1] = Len(p) + 1
  BY <1>1, <1>2, <1>5
<1>7. ASSUME NEW n \in 1 .. Len(a) PROVE Takes(a[n], cut[n], cut[n + 1], p, any, Fit)
  <2> DEFINE x == outer[n]
             y == outer[n + 1]
  <2>0. n \in 1 .. Len(a) + 1 /\ n + 1 \in 1 .. Len(a) + 1
    OBVIOUS
  <2>1. x \in 1 .. Len(r) + 1 /\ y \in 1 .. Len(r) + 1
    BY <2>0
  <2>2. cut[n] = inner[x] /\ cut[n + 1] = inner[y]
    BY <1>5, <2>0
  <2>3. Takes(a[n], x, y, r, any, Inner)
    BY <1>1
  <2> HIDE DEF x, y
  <2>4. CASE a[n] = any
    <3>1. y \in x .. Len(r) + 1
      BY <2>1, <2>3, <2>4 DEF Takes
    <3>2. inner[x] =< inner[y]
      BY <1>3, <2>1, <3>1, CutsAscend
    <3> QED  BY <2>2, <2>4, <3>2 DEF Takes
  <2>5. CASE a[n] # any
    <3>1. y = x + 1 /\ <<a[n], r[x]>> \in Inner
      BY <2>3, <2>5 DEF Takes
    <3>2. x \in 1 .. Len(r)
      BY <2>1, <3>1
    <3>3. r[x] # any /\ \A z : <<r[x], z>> \in Fit => <<a[n], z>> \in Fit
      BY <2>5, <3>1, <3>2
    <3>4. inner[y] = inner[x] + 1 /\ <<r[x], p[inner[x]]>> \in Fit
      BY <1>2, <3>1, <3>2, <3>3 DEF Takes
    <3> QED  BY <2>2, <2>5, <3>3, <3>4 DEF Takes
  <2> QED  BY <2>4, <2>5
<1> QED  BY <1>4, <1>6, <1>7 DEF FitsFrom, Takes

(* A role whose scopes are literal but for ** (as every shipped role's     *)
(* are) never grants a path outside them: whatever matches the request     *)
(* matches the scope that contains it.  With * or ? in the scope this is   *)
(* false: src/* is said to contain src/**, and a? to contain a*.           *)
THEOREM ContainmentSound ==
  ASSUME NEW Letters, "*" \notin Letters, "?" \notin Letters,
         NEW allowed \in GlobsOver(Letters), NEW requested \in GlobsOver(Letters),
         \A i \in 1 .. Len(allowed) : allowed[i] = Globstar \/ allowed[i] \in WordsOver(Letters),
         GlobContains(allowed, requested),
         NEW path \in PathsOver(Letters), GlobMatches(requested, path)
  PROVE  GlobMatches(allowed, path)
<1> DEFINE Segs == SegmentsOver(Letters)
<1>1. /\ allowed \in Seq(Segs) /\ requested \in Seq(Segs) /\ path \in Seq(WordsOver(Letters))
      /\ Len(allowed) \in Nat /\ Len(requested) \in Nat /\ Len(path) \in Nat
  <2>1. allowed \in Seq(Segs) /\ requested \in Seq(Segs) /\ path \in Seq(WordsOver(Letters))
    BY DEF GlobsOver, PathsOver
  <2> QED  BY <2>1, LenProperties
<1>2. ASSUME NEW word \in WordsOver(Letters), NEW seg \in Segs, SegContains(word, seg)
      PROVE  seg = word /\ word # Globstar
  <2>1. word \in Seq(Letters) /\ word # <<>>
    BY DEF WordsOver
  <2>2. \A k \in DOMAIN word : word[k] \in Letters
    BY <2>1
  <2>3. word # Globstar
    <3> SUFFICES ASSUME word = Globstar PROVE FALSE
      OBVIOUS
    <3>1. 1 \in DOMAIN word /\ word[1] = "*"
      BY DEF Globstar
    <3> QED  BY <2>2, <3>1
  <2>4. word # <<"*">>
    <3> SUFFICES ASSUME word = <<"*">> PROVE FALSE
      OBVIOUS
    <3>1. 1 \in DOMAIN word /\ word[1] = "*"
      OBVIOUS
    <3> QED  BY <2>2, <3>1
  <2>5. "?" \notin {word[k] : k \in DOMAIN word} /\ "*" \notin {word[k] : k \in DOMAIN word}
    BY <2>2
  <2> QED  BY <1>2, <2>3, <2>4, <2>5 DEF SegContains
<1>3. \A i \in 1 .. Len(allowed), j \in 1 .. Len(requested) :
        allowed[i] # Globstar /\ <<allowed[i], requested[j]>> \in SegsContain(Segs) =>
          /\ requested[j] # Globstar
          /\ \A x : <<requested[j], x>> \in SegFits(Letters) => <<allowed[i], x>> \in SegFits(Letters)
  <2> TAKE i \in 1 .. Len(allowed), j \in 1 .. Len(requested)
  <2> HAVE allowed[i] # Globstar /\ <<allowed[i], requested[j]>> \in SegsContain(Segs)
  <2>1. allowed[i] \in WordsOver(Letters)
    OBVIOUS
  <2>2. requested[j] \in Segs /\ SegContains(allowed[i], requested[j])
    BY DEF SegsContain
  <2>3. requested[j] = allowed[i] /\ allowed[i] # Globstar
    BY <1>2, <2>1, <2>2
  <2> QED  BY <2>3
<1>4. FitsFrom(allowed, 1, requested, 1, Globstar, SegsContain(Segs))
  BY ContainmentIsMatching
<1>5. FitsFrom(requested, 1, path, 1, Globstar, SegFits(Letters))
  BY <1>1, MatchingPaths
<1>6. FitsFrom(allowed, 1, path, 1, Globstar, SegFits(Letters))
  <2> HIDE DEF Segs
  <2> QED  BY <1>1, <1>3, <1>4, <1>5, FitsCompose
<1> QED  BY <1>1, <1>6, MatchingPaths

(* A role that asks for one file by its name, no wildcards, is refused     *)
(* unless its scope matches that file, whatever wildcards the scope has.   *)
THEOREM FilesWithinScope ==
  ASSUME NEW Letters, "*" \notin Letters, "?" \notin Letters,
         NEW allowed \in GlobsOver(Letters), NEW path \in PathsOver(Letters),
         GlobContains(allowed, path)
  PROVE  GlobMatches(allowed, path)
<1> DEFINE Segs == SegmentsOver(Letters)
           Words == WordsOver(Letters)
<1>1. Words \subseteq Segs
  <2>1. Seq(Letters) \subseteq Seq(Letters \cup {"*", "?"})
    BY SeqMonotonic
  <2> QED  BY <2>1 DEF WordsOver, SegmentsOver
<1>2. path \in Seq(Words) /\ path \in GlobsOver(Letters)
  <2> HIDE DEF Segs, Words
  <2>1. path \in Seq(Words) /\ path # <<>>
    BY DEF PathsOver, Words
  <2>2. path \in Seq(Segs)
    BY <1>1, <2>1, SeqMonotonic
  <2> QED  BY <2>1, <2>2 DEF GlobsOver, Segs
<1>3. allowed \in Seq(Segs)
  BY DEF GlobsOver
<1>4. ASSUME NEW seg \in Segs, NEW word \in Words, seg # Globstar, SegContains(seg, word)
      PROVE  SegmentMatches(seg, word)
  <2>1. seg \in Seq(Letters \cup {"*", "?"}) /\ word \in Seq(Letters) /\ Len(word) \in Nat \ {0}
    BY EmptySeq DEF SegmentsOver, WordsOver
  <2>2. \A k \in 1 .. Len(word) : word[k] \in Letters
    BY <2>1
  <2>3. CASE seg = <<"*">>
    <3> DEFINE cut == [n \in 1 .. 2 |-> IF n = 1 THEN 1 ELSE Len(word) + 1]
    <3>1. Len(seg) = 1 /\ seg[1] = "*"
      BY <2>3
    <3>2. cut \in [1 .. 2 -> 1 .. Len(word) + 1]
      BY <2>1
    <3>3. cut[1] = 1 /\ cut[2] = Len(word) + 1 /\ 1 =< Len(word) + 1
      BY <2>1
    <3> HIDE DEF cut
    <3>4. cut \in Cuts(seg, word)
      BY <3>1, <3>2, <3>3 DEF Cuts
    <3>5. \A i \in 1 .. Len(seg) : i = 1
      BY <3>1
    <3> QED  BY <3>1, <3>3, <3>4, <3>5 DEF SegmentMatches
  <2>4. CASE seg # <<"*">>
    <3>1. Len(seg) = Len(word) /\ \A k \in 1 .. Len(word) : seg[k] \in {"?", word[k]}
      <4>1. DOMAIN seg = 1 .. Len(seg)
        BY <2>1
      <4> QED  BY <1>4, <2>4, <4>1 DEF SegContains
    <3> DEFINE cut == [n \in 1 .. Len(word) + 1 |-> n]
    <3>2. cut \in [1 .. Len(word) + 1 -> 1 .. Len(word) + 1]
      OBVIOUS
    <3>3. cut[1] = 1 /\ cut[Len(word) + 1] = Len(word) + 1
      BY <2>1
    <3>4. \A k \in 1 .. Len(word) : cut[k] = k /\ cut[k + 1] = k + 1
      BY <2>1
    <3> HIDE DEF cut
    <3>5. cut \in Cuts(seg, word)
      BY <3>1, <3>2, <3>3 DEF Cuts
    <3>6. \A k \in 1 .. Len(seg) : seg[k] # "*"
      BY <2>2, <3>1
    <3> QED  BY <3>1, <3>4, <3>5, <3>6 DEF SegmentMatches
  <2> QED  BY <2>3, <2>4
<1>5. PICK cut \in [1 .. Len(allowed) + 1 -> 1 .. Len(path) + 1] :
        /\ cut[1] = 1 /\ cut[Len(allowed) + 1] = Len(path) + 1
        /\ \A i \in 1 .. Len(allowed) :
             Takes(allowed[i], cut[i], cut[i + 1], path, Globstar, SegsContain(Segs))
  <2>1. FitsFrom(allowed, 1, path, 1, Globstar, SegsContain(Segs))
    BY <1>2, ContainmentIsMatching
  <2> HIDE DEF Segs
  <2> QED  BY <2>1 DEF FitsFrom, Takes
<1>6. ASSUME NEW i \in 1 .. Len(allowed)
      PROVE  IF allowed[i] = Globstar THEN cut[i] =< cut[i + 1]
             ELSE cut[i + 1] = cut[i] + 1 /\ SegmentMatches(allowed[i], path[cut[i]])
  <2>1. Takes(allowed[i], cut[i], cut[i + 1], path, Globstar, SegsContain(Segs))
    BY <1>5
  <2>2. CASE allowed[i] = Globstar
    BY <2>1, <2>2 DEF Takes
  <2>3. CASE allowed[i] # Globstar
    <3>1. cut[i + 1] = cut[i] + 1 /\ <<allowed[i], path[cut[i]]>> \in SegsContain(Segs)
      BY <2>1, <2>3 DEF Takes
    <3>2. cut[i] \in 1 .. Len(path)
      <4>1. cut[i] \in 1 .. Len(path) + 1 /\ cut[i + 1] \in 1 .. Len(path) + 1
        BY <1>3
      <4> QED  BY <1>2, <3>1, <4>1
    <3>3. path[cut[i]] \in Words
      <4> HIDE DEF Words
      <4> QED  BY <1>2, <3>2
    <3>4. allowed[i] \in Segs /\ SegContains(allowed[i], path[cut[i]])
      BY <3>1 DEF SegsContain
    <3> QED  BY <1>4, <2>3, <3>1, <3>3, <3>4
  <2> QED  BY <2>2, <2>3
<1> QED  BY <1>5, <1>6 DEF GlobMatches, Cuts
=============================================================================
