------------------------- MODULE RestorePlanProofs --------------------------
(***************************************************************************)
(* What greedy_cover and the planners of RestorePlan compute, for every    *)
(* listing of files: a plan is a chain without holes from where it starts, *)
(* it goes as far as the files go, and no choice of fewer files covers as  *)
(* much.                                                                   *)
(*                                                                         *)
(* GreedyCover is recursive.  A recursive function is a CHOOSE: that a     *)
(* function with its equation exists is shown first, from the end of the   *)
(* range to its start.  Every induction here is a least counterexample:    *)
(* a non-empty set of naturals has a least element (LeastOf).              *)
(***************************************************************************)
EXTENDS RestorePlan, FiniteSetTheorems, WellFoundedInduction, TLAPS

(***************************************************************************)
(* Least and largest elements, recursive functions, and HeadOf.            *)
(***************************************************************************)
Less == {ss \in Nat \X Nat : ss[1] < ss[2]}

\* The order of the naturals is well-founded.
LEMMA LessWF == IsWellFoundedOn(Less, Nat)
BY NatLessThanWellFounded, Zenon DEF OpToRel, Less

\* A set of naturals has a least element.
LEMMA LeastOf ==
  ASSUME NEW T, T \subseteq Nat, T # {}
  PROVE  \E x \in T : \A y \in T : x <= y
<1>1. \E x \in T : \A y \in T : ~(<<y, x>> \in Less)
  BY LessWF, WFMin, Zenon
<1>2. PICK x \in T : \A y \in T : ~(<<y, x>> \in Less)
  BY <1>1, Zenon
<1>3. ASSUME NEW y \in T PROVE x <= y
  <2>1. x \in Nat /\ y \in Nat
    OBVIOUS
  <2>2. y < x => <<y, x>> \in Less
    BY <2>1 DEF Less
  <2>3. ~(y < x)
    BY <1>2, <2>2, Zenon
  <2> QED
    BY <2>1, <2>3
<1> QED
  BY <1>3

\* A bounded set of naturals has a largest element.
LEMMA GreatestOf ==
  ASSUME NEW T, T \subseteq Nat, T # {}, NEW b \in Nat, \A y \in T : y <= b
  PROVE  \E x \in T : \A y \in T : y <= x
<1> DEFINE D == {b - y : y \in T}
<1>1. \A y \in T : b - y \in Nat
  OBVIOUS
<1>2. D \subseteq Nat
  BY <1>1
<1>3. D # {}
  <2>1. PICK y \in T : TRUE
    OBVIOUS
  <2>2. b - y \in D
    OBVIOUS
  <2> QED
    BY <2>2
<1> HIDE DEF D
<1>4. PICK d \in D : \A e \in D : d <= e
  BY <1>2, <1>3, LeastOf
<1> USE DEF D
<1>5. PICK x \in T : d = b - x
  OBVIOUS
<1>6. ASSUME NEW y \in T PROVE y <= x
  <2>1. d <= b - y
    BY <1>4
  <2>2. x \in Nat /\ y \in Nat
    OBVIOUS
  <2> HIDE DEF D
  <2> QED
    BY <2>1, <2>2, <1>5
<1> QED
  BY <1>6

\* Recursion on the predecessor.
Recursive(f, N, S, base, step) ==
  /\ f \in [0 .. N -> S]
  /\ f[0] = base
  /\ \A n \in 1 .. N : f[n] = step[n][f[n - 1]]

\* There is a function so defined.
LEMMA RecursionExists ==
  ASSUME NEW N \in Nat, NEW S, NEW base \in S, NEW step \in [1 .. N -> [S -> S]]
  PROVE  \E f : Recursive(f, N, S, base, step)
<1> DEFINE Good(f, m) == /\ f \in [0 .. N -> S] /\ f[0] = base
                         /\ \A n \in 1 .. N : n <= m => f[n] = step[n][f[n - 1]]
           Bad == {m \in Nat : ~ \E f : Good(f, m)}
<1>1. \E f : Good(f, 0)
  <2>1. Good([n \in 0 .. N |-> base], 0)
    OBVIOUS
  <2> QED
    BY <2>1
<1>2. ASSUME NEW m \in Nat, NEW f, Good(f, m)
      PROVE  \E g : Good(g, m + 1)
  <2>1. CASE m + 1 \notin 1 .. N
    <3>1. Good(f, m + 1)
      BY <1>2, <2>1
    <3> QED
      BY <3>1
  <2>2. CASE m + 1 \in 1 .. N
    <3> DEFINE v == step[m + 1][f[m]]
               g == [n \in 0 .. N |-> IF n = m + 1 THEN v ELSE f[n]]
    <3>1. m \in 0 .. N /\ f[m] \in S
      BY <1>2, <2>2
    <3>2. v \in S
      BY <2>2, <3>1
    <3> HIDE DEF v
    <3>3. g \in [0 .. N -> S] /\ g[0] = base
      BY <1>2, <3>2
    <3>4. ASSUME NEW n \in 1 .. N, n <= m + 1 PROVE g[n] = step[n][g[n - 1]]
      <4>1. n - 1 \in 0 .. N /\ n - 1 # m + 1 /\ g[n - 1] = f[n - 1]
        BY <3>4
      <4>2. CASE n = m + 1
        BY <4>1, <4>2 DEF v
      <4>3. CASE n # m + 1
        BY <1>2, <3>4, <4>1, <4>3
      <4> QED
        BY <4>2, <4>3
    <3>5. Good(g, m + 1)
      BY <3>3, <3>4
    <3> QED
      BY <3>5
  <2> QED
    BY <2>1, <2>2
<1> HIDE DEF Good
<1>3. Bad = {}
  <2> SUFFICES ASSUME Bad # {} PROVE FALSE
    OBVIOUS
  <2>1. PICK m \in Bad : \A k \in Bad : m <= k
    BY LeastOf
  <2>2. m # 0 /\ m \in Nat
    BY <1>1
  <2>3. m - 1 \in Nat /\ m - 1 \notin Bad
    BY <2>1, <2>2
  <2>4. PICK f : Good(f, m - 1)
    BY <2>3
  <2>5. \E g : Good(g, (m - 1) + 1)
    BY <1>2, <2>3, <2>4
  <2> QED
    BY <2>2, <2>5
<1>4. PICK f : Good(f, N)
  BY <1>3
<1> QED
  BY <1>4 DEF Good, Recursive

\* HeadOf of bounded files is their largest TXID.
LEMMA HeadOfIs ==
  ASSUME NEW S, S \subseteq FileName, NEW p \in Nat, \A f \in S : f.max <= p
  PROVE  /\ HeadOf(S) \in 0 .. p
         /\ \A f \in S : f.max <= HeadOf(S)
         /\ S # {} => \E f \in S : f.max = HeadOf(S)
<1>1. CASE S = {}
  BY <1>1 DEF HeadOf
<1>2. CASE S # {}
  <2> DEFINE T == {f.max : f \in S}
  <2>1. T \subseteq Nat /\ T # {} /\ \A y \in T : y <= p
    BY <1>2 DEF FileName
  <2> HIDE DEF T
  <2>2. PICK x \in T : \A y \in T : y <= x
    BY <2>1, GreatestOf
  <2> USE DEF T
  <2>3. PICK f \in S : x = f.max
    OBVIOUS
  <2>4. \A g \in S : g.max <= f.max
    BY <2>2, <2>3
  <2> DEFINE c == CHOOSE h \in S : \A g \in S : g.max <= h.max
  <2>5. c \in S /\ \A g \in S : g.max <= c.max
    BY <2>4
  <2>6. HeadOf(S) = c.max
    BY <1>2 DEF HeadOf
  <2> HIDE DEF c, T
  <2>7. c.max \in Nat
    BY <2>5 DEF FileName
  <2> QED
    BY <2>5, <2>6, <2>7
<1> QED
  BY <1>1, <1>2

(***************************************************************************)
(* The listings planners are given: file names, bounded by some number.    *)
(***************************************************************************)
Listing(files, b) ==
  files \subseteq FileName /\ \A f \in files : f.max <= b /\ f.level <= b

\* Of the files that extend a position one is chosen, and none beats it.
LEMMA FurthestIs ==
  ASSUME NEW files, NEW b \in Nat, Listing(files, b), NEW pos \in Nat,
         \E f \in files : Extends(f, pos)
  PROVE  /\ Furthest(files, pos) \in files
         /\ Extends(Furthest(files, pos), pos)
         /\ \A g \in files : Extends(g, pos) => Beats(Furthest(files, pos), g)
<1> DEFINE X == {f \in files : Extends(f, pos)}
           M == {f.max : f \in X}
<1>0. \A f \in files : /\ f.level \in Nat /\ f.min \in Nat /\ f.max \in Nat
                        /\ f.max <= b /\ f.level <= b
  BY DEF Listing, FileName
<1>1. \E m \in M : \A n \in M : n <= m
  <2>1. M \subseteq Nat /\ M # {} /\ \A n \in M : n <= b
    BY <1>0
  <2> HIDE DEF M
  <2> QED
    BY <2>1, GreatestOf
<1>2. PICK f1 \in X : \A g \in X : g.max <= f1.max
  BY <1>1
<1> DEFINE Y == {f \in X : f.max = f1.max}
           L == {f.level : f \in Y}
<1>3. \E m \in L : \A n \in L : n <= m
  <2>1. L \subseteq Nat /\ L # {} /\ \A n \in L : n <= b
    BY <1>0
  <2> HIDE DEF L
  <2> QED
    BY <2>1, GreatestOf
<1>4. PICK f2 \in Y : \A g \in Y : g.level <= f2.level
  BY <1>3
<1> DEFINE Z == {f \in Y : f.level = f2.level}
           N == {f.min : f \in Z}
<1>5. \E m \in N : \A n \in N : n <= m
  <2>1. N \subseteq Nat /\ N # {} /\ \A n \in N : n <= pos + 1
    BY <1>0 DEF Extends
  <2>2. pos + 1 \in Nat
    OBVIOUS
  <2> HIDE DEF N
  <2> QED
    BY <2>1, <2>2, GreatestOf
<1>6. PICK f3 \in Z : \A g \in Z : g.min <= f3.min
  BY <1>5
<1>7. \A g \in files : Extends(g, pos) => Beats(f3, g)
  <2> SUFFICES ASSUME NEW g \in files, Extends(g, pos) PROVE Beats(f3, g)
    OBVIOUS
  <2>1. g \in X /\ f3 \in files /\ f3.max = f1.max /\ f3.level = f2.level
    OBVIOUS
  <2>2. CASE g.max # f3.max
    BY <1>0, <1>2, <2>1, <2>2 DEF Beats
  <2>3. CASE g.max = f3.max /\ g.level # f3.level
    <3>1. g \in Y
      BY <2>1, <2>3
    <3> QED
      BY <1>0, <1>4, <2>1, <2>3, <3>1 DEF Beats
  <2>4. CASE g.max = f3.max /\ g.level = f3.level
    <3>1. g \in Z
      BY <2>1, <2>4
    <3> QED
      BY <1>0, <1>6, <2>1, <2>4, <3>1 DEF Beats
  <2> QED
    BY <2>2, <2>3, <2>4
<1>8. \E f \in files : Extends(f, pos) /\ \A g \in files : Extends(g, pos) => Beats(f, g)
  BY <1>6, <1>7
<1> QED
  BY <1>8, Zenon DEF Furthest

\* The same in numbers.
LEMMA FurthestBounds ==
  ASSUME NEW files, NEW b \in Nat, Listing(files, b), NEW pos \in Nat,
         \E f \in files : Extends(f, pos)
  PROVE  /\ Furthest(files, pos) \in files
         /\ Furthest(files, pos).min \in Nat /\ Furthest(files, pos).min <= pos + 1
         /\ Furthest(files, pos).max \in pos + 1 .. HeadOf(files)
         /\ \A g \in files : Extends(g, pos) => g.max <= Furthest(files, pos).max
<1> DEFINE F == Furthest(files, pos)
<1>1. F \in files /\ Extends(F, pos) /\ \A g \in files : Extends(g, pos) => Beats(F, g)
  BY FurthestIs
<1>2. HeadOf(files) \in Nat /\ F.max <= HeadOf(files)
  BY <1>1, HeadOfIs DEF Listing
<1> HIDE DEF F
<1>3. \A g \in files : g.min \in Nat /\ g.max \in Nat /\ g.level \in Nat
  BY DEF Listing, FileName
<1>4. F.max \in pos + 1 .. HeadOf(files) /\ F.min \in Nat /\ F.min <= pos + 1
  BY <1>1, <1>2, <1>3 DEF Extends
<1>5. \A g \in files : Extends(g, pos) => g.max <= F.max
  BY <1>1, <1>3 DEF Beats
<1> QED
  BY <1>1, <1>4, <1>5 DEF F

(***************************************************************************)
(* greedy_cover from every position it passes.                             *)
(***************************************************************************)
Covers(files, from) ==
  LET cover[pos \in from .. from + HeadOf(files)] ==
        IF \E f \in files : Extends(f, pos)
          THEN << Furthest(files, pos) >> \o cover[Furthest(files, pos).max]
          ELSE << >>
  IN  cover

LEMMA GreedyCoverIs ==
  ASSUME NEW files, NEW from
  PROVE  GreedyCover(files, from) = Covers(files, from)[from]
BY Zenon DEF GreedyCover, Covers

\* What the plan from one position is, given those from later ones.
CoverStep(c, files, pos) ==
  IF \E f \in files : Extends(f, pos)
    THEN << Furthest(files, pos) >> \o c[Furthest(files, pos).max]
    ELSE << >>

\* There is a function that satisfies the recursive equation.
LEMMA CoverExists ==
  ASSUME NEW files, NEW b \in Nat, Listing(files, b), NEW from \in Nat
  PROVE  \E c : c = [pos \in from .. from + HeadOf(files) |-> CoverStep(c, files, pos)]
<1> DEFINE H == HeadOf(files)
           S == from .. from + H
           \* c satisfies the equation at the last n positions.
           Good(c, n) == /\ c = [pos \in S |-> c[pos]]
                         /\ \A pos \in S : pos > from + H - n =>
                              c[pos] = CoverStep(c, files, pos)
           Bad == {n \in Nat : ~ \E c : Good(c, n)}
<1>1. H \in Nat
  BY HeadOfIs DEF Listing
<1>2. ASSUME NEW pos \in S, \E f \in files : Extends(f, pos)
      PROVE  Furthest(files, pos).max \in S /\ Furthest(files, pos).max > pos
  <2>1. pos \in Nat
    BY <1>1
  <2> QED
    BY <1>1, <1>2, <2>1, FurthestBounds
<1> HIDE DEF H
<1>3. \E c : Good(c, 0)
  <2>1. Good([pos \in S |-> << >>], 0)
    BY <1>1
  <2> QED
    BY <2>1
<1>4. ASSUME NEW n \in Nat, NEW c, Good(c, n)
      PROVE  \E d : Good(d, n + 1)
  <2> DEFINE k == from + H - n
             d == [pos \in S |-> IF pos = k THEN CoverStep(c, files, pos) ELSE c[pos]]
  <2>1. ASSUME NEW pos \in S, pos > from + H - (n + 1)
        PROVE  d[pos] = CoverStep(d, files, pos)
    <3>1. pos >= k
      BY <1>1, <2>1
    <3>2. d[pos] = CoverStep(c, files, pos)
      <4>1. CASE pos = k
        BY <4>1
      <4>2. CASE pos # k
        BY <1>1, <1>4, <3>1, <4>2
      <4> QED
        BY <4>1, <4>2
    <3>3. CASE ~ \E f \in files : Extends(f, pos)
      <4>1. CoverStep(d, files, pos) = CoverStep(c, files, pos)
        BY <3>3 DEF CoverStep
      <4> QED
        BY <3>2, <4>1
    <3>4. CASE \E f \in files : Extends(f, pos)
      <4> DEFINE m == Furthest(files, pos).max
      <4>1. m \in S /\ m > pos
        BY <1>2, <3>4
      <4> HIDE DEF m
      <4>2. d[m] = c[m]
        BY <1>1, <3>1, <4>1
      <4>3. CoverStep(d, files, pos) = CoverStep(c, files, pos)
        BY <4>2 DEF CoverStep, m
      <4> QED
        BY <3>2, <4>3
    <3> QED
      BY <3>3, <3>4
  <2>2. d = [pos \in S |-> d[pos]]
    OBVIOUS
  <2>3. Good(d, n + 1)
    BY <2>1, <2>2
  <2> HIDE DEF d
  <2> QED
    BY <2>3
<1> HIDE DEF Good
<1>5. Bad = {}
  <2> SUFFICES ASSUME Bad # {} PROVE FALSE
    OBVIOUS
  <2>1. PICK n \in Bad : \A m \in Bad : n <= m
    BY LeastOf
  <2>2. n # 0 /\ n \in Nat
    BY <1>3
  <2>3. n - 1 \in Nat /\ n - 1 \notin Bad
    BY <2>1, <2>2
  <2>4. PICK c : Good(c, n - 1)
    BY <2>3
  <2>5. \E d : Good(d, (n - 1) + 1)
    BY <1>4, <2>3, <2>4
  <2> QED
    BY <2>2, <2>5
<1>6. PICK c : Good(c, H + 1)
  BY <1>1, <1>5
<1>7. c = [pos \in S |-> c[pos]] /\ \A pos \in S : c[pos] = CoverStep(c, files, pos)
  BY <1>1, <1>6 DEF Good
<1>8. c = [pos \in S |-> CoverStep(c, files, pos)]
  BY <1>7, Zenon
<1> QED
  BY <1>8, Zenon DEF H

\* So Covers satisfies it.
LEMMA CoversIs ==
  ASSUME NEW files, NEW b \in Nat, Listing(files, b), NEW from \in Nat,
         NEW pos \in from .. from + HeadOf(files)
  PROVE  Covers(files, from)[pos] = CoverStep(Covers(files, from), files, pos)
<1>1. \E c : c = [q \in from .. from + HeadOf(files) |->
                    IF \E f \in files : Extends(f, q)
                      THEN << Furthest(files, q) >> \o c[Furthest(files, q).max]
                      ELSE << >>]
  BY CoverExists, Zenon DEF CoverStep
<1> DEFINE c == Covers(files, from)
<1>2. c = [q \in from .. from + HeadOf(files) |->
             IF \E f \in files : Extends(f, q)
               THEN << Furthest(files, q) >> \o c[Furthest(files, q).max]
               ELSE << >>]
  BY <1>1, Zenon DEF Covers
<1> HIDE DEF c
<1>3. c[pos] = CoverStep(c, files, pos)
  BY <1>2, Zenon DEF CoverStep
<1> QED
  BY <1>3 DEF c

(***************************************************************************)
(* Greedy plans.                                                           *)
(***************************************************************************)

\* Where a plan stands before its file i.
At(c, from, i) == IF i = 1 THEN from ELSE c[i - 1].max

\* A plan as greedy_cover makes it: each file extends what is covered by then,
\* none reaches further, and at the end none reaches on.
Greedy(c, files, from) ==
  /\ c \in Seq(files)
  /\ \A i \in 1 .. Len(c) :
       /\ Extends(c[i], At(c, from, i))
       /\ \A g \in files : Extends(g, At(c, from, i)) => g.max <= c[i].max
  /\ \A g \in files : ~Extends(g, Reached(c, from))

\* A file put in front of a greedy plan.
LEMMA GreedyCons ==
  ASSUME NEW files, NEW f \in files, NEW d, NEW from \in Nat,
         Extends(f, from), \A g \in files : Extends(g, from) => g.max <= f.max,
         Greedy(d, files, f.max)
  PROVE  Greedy(<< f >> \o d, files, from)
<1> DEFINE c == << f >> \o d
<1>1. d \in Seq(files) /\ Len(d) \in Nat
  BY DEF Greedy
<1>2. /\ c \in Seq(files) /\ Len(c) = Len(d) + 1 /\ c[1] = f
      /\ \A i \in 1 .. Len(d) : c[i + 1] = d[i]
  BY <1>1
<1> HIDE DEF c
<1>3. At(c, from, 1) = from
  BY DEF At
<1>4. \A i \in 1 .. Len(d) : At(c, from, i + 1) = At(d, f.max, i)
  <2>1. TAKE i \in 1 .. Len(d)
  <2>2. i \in Nat /\ i >= 1 /\ i + 1 # 1 /\ (i + 1) - 1 = i
    BY <1>1
  <2>3. At(c, from, i + 1) = c[i].max
    BY <2>2, Zenon DEF At
  <2>4. CASE i = 1
    BY <1>2, <2>3, <2>4 DEF At
  <2>5. CASE i # 1
    <3>1. i - 1 \in 1 .. Len(d) /\ (i - 1) + 1 = i
      BY <1>1, <2>1, <2>5
    <3>2. c[i] = d[i - 1]
      BY <1>2, <3>1
    <3> QED
      BY <2>3, <2>5, <3>2 DEF At
  <2> QED
    BY <2>4, <2>5
<1>5. Reached(c, from) = Reached(d, f.max)
  <2>1. CASE d = << >>
    <3>1. Len(d) = 0 /\ c # << >>
      BY <1>2, <2>1
    <3> QED
      BY <1>2, <2>1, <3>1 DEF Reached
  <2>2. CASE d # << >>
    <3>1. Len(d) > 0 /\ c # << >>
      BY <1>1, <1>2, <2>2
    <3>2. c[Len(c)] = d[Len(d)]
      BY <1>1, <1>2, <3>1
    <3> QED
      BY <2>2, <3>1, <3>2 DEF Reached
  <2> QED
    BY <2>1, <2>2
<1>6. ASSUME NEW i \in 1 .. Len(c)
      PROVE  /\ Extends(c[i], At(c, from, i))
             /\ \A g \in files : Extends(g, At(c, from, i)) => g.max <= c[i].max
  <2>1. CASE i = 1
    BY <1>2, <1>3, <2>1
  <2>2. CASE i # 1
    <3>1. i - 1 \in 1 .. Len(d) /\ i = (i - 1) + 1
      BY <1>1, <1>2, <2>2
    <3>2. c[i] = d[i - 1] /\ At(c, from, i) = At(d, f.max, i - 1)
      BY <1>2, <1>4, <3>1
    <3> QED
      BY <3>1, <3>2 DEF Greedy
  <2> QED
    BY <2>1, <2>2
<1>7. \A g \in files : ~Extends(g, Reached(c, from))
  BY <1>5 DEF Greedy
<1> QED
  BY <1>2, <1>6, <1>7 DEF Greedy, c

\* greedy_cover makes greedy plans, from wherever it starts.
LEMMA CoversAreGreedy ==
  ASSUME NEW files, NEW b \in Nat, Listing(files, b), NEW from \in Nat
  PROVE  Greedy(GreedyCover(files, from), files, from)
<1> DEFINE H == HeadOf(files)
           c == Covers(files, from)
           Bad == {n \in Nat : n <= H /\ ~Greedy(c[from + H - n], files, from + H - n)}
<1>1. H \in Nat
  BY HeadOfIs DEF Listing
<1>2. \A pos \in from .. from + H : c[pos] = CoverStep(c, files, pos)
  BY CoversIs
<1> HIDE DEF H, c
<1>3. ASSUME NEW pos \in from .. from + H,
             \A q \in from .. from + H : q > pos => Greedy(c[q], files, q)
      PROVE  Greedy(c[pos], files, pos)
  <2>0. pos \in Nat
    BY <1>1
  <2>1. CASE \E f \in files : Extends(f, pos)
    <3> DEFINE f == Furthest(files, pos)
    <3>1. /\ f \in files /\ f.min <= pos + 1 /\ f.max \in pos + 1 .. H
          /\ \A g \in files : Extends(g, pos) => g.max <= f.max
      BY <2>0, <2>1, FurthestBounds DEF H
    <3>2. c[pos] = << f >> \o c[f.max]
      BY <1>2, <2>1 DEF CoverStep
    <3> HIDE DEF f
    <3>3. Extends(f, pos)
      BY <1>1, <2>0, <3>1 DEF Extends
    <3>4. Greedy(c[f.max], files, f.max)
      BY <1>1, <1>3, <2>0, <3>1
    <3> QED
      BY <2>0, <3>1, <3>2, <3>3, <3>4, GreedyCons
  <2>2. CASE ~ \E f \in files : Extends(f, pos)
    <3>1. c[pos] = << >>
      BY <1>2, <2>2 DEF CoverStep
    <3>2. Len(<< >>) = 0 /\ << >> \in Seq(files)
      OBVIOUS
    <3> QED
      BY <2>2, <3>1, <3>2 DEF Greedy, Reached
  <2> QED
    BY <2>1, <2>2
<1>4. Bad = {}
  <2> SUFFICES ASSUME Bad # {} PROVE FALSE
    OBVIOUS
  <2>1. PICK n \in Bad : \A m \in Bad : n <= m
    BY LeastOf
  <2>2. ASSUME NEW q \in from .. from + H, q > from + H - n
        PROVE  Greedy(c[q], files, q)
    <3>1. from + H - q \in Nat /\ from + H - q <= H /\ from + H - q < n
          /\ q = from + H - (from + H - q)
      BY <1>1, <2>2
    <3>2. from + H - q \notin Bad
      BY <2>1, <3>1
    <3> QED
      BY <3>1, <3>2
  <2>3. from + H - n \in from .. from + H
    BY <1>1
  <2> QED
    BY <1>3, <2>2, <2>3
<1>5. from + H - H = from
  BY <1>1
<1>6. Greedy(c[from + H - H], files, from + H - H)
  <2>1. H \in Nat /\ H <= H /\ H \notin Bad
    BY <1>1, <1>4
  <2> QED
    BY <2>1
<1> QED
  BY <1>5, <1>6, GreedyCoverIs DEF c

(***************************************************************************)
(* What a greedy plan covers.                                              *)
(***************************************************************************)

\* The files of a plan end later and later.
LEMMA GreedyAscends ==
  ASSUME NEW files, files \subseteq FileName, NEW from \in Nat, NEW c,
         Greedy(c, files, from)
  PROVE  /\ c \in Seq(files) /\ Len(c) \in Nat
         /\ \A i \in 1 .. Len(c) :
              /\ c[i] \in files /\ c[i].min \in Nat /\ c[i].max \in Nat
              /\ At(c, from, i) \in Nat /\ from <= At(c, from, i)
              /\ c[i].min <= At(c, from, i) + 1 /\ At(c, from, i) < c[i].max
         /\ \A j \in 1 .. Len(c) : \A i \in 1 .. j : c[i].max <= c[j].max
<1>1. c \in Seq(files) /\ Len(c) \in Nat /\ \A i \in 1 .. Len(c) : c[i] \in files
  BY DEF Greedy
<1>2. \A i \in 1 .. Len(c) : c[i].min \in Nat /\ c[i].max \in Nat
  BY <1>1 DEF FileName
<1>3. \A i \in 1 .. Len(c) : At(c, from, i) \in Nat
  BY <1>1, <1>2 DEF At
<1>4. \A i \in 1 .. Len(c) :
        c[i].min <= At(c, from, i) + 1 /\ At(c, from, i) < c[i].max
  BY <1>2, <1>3 DEF Greedy, Extends
<1> DEFINE Bad == {j \in Nat : /\ j \in 1 .. Len(c)
                               /\ ~(/\ from < c[j].max
                                    /\ \A i \in 1 .. j : c[i].max <= c[j].max)}
<1>5. Bad = {}
  <2> SUFFICES ASSUME Bad # {} PROVE FALSE
    OBVIOUS
  <2>1. PICK j \in Bad : \A m \in Bad : j <= m
    BY LeastOf
  <2>2. j \in 1 .. Len(c)
    OBVIOUS
  <2>3. CASE j = 1
    <3>1. from < c[j].max
      BY <1>2, <1>4, <2>2, <2>3 DEF At
    <3> QED
      BY <1>2, <2>2, <2>3, <3>1
  <2>4. CASE j # 1
    <3>1. j - 1 \in 1 .. Len(c) /\ j - 1 \in Nat /\ j - 1 < j
      BY <1>1, <2>2, <2>4
    <3>2. j - 1 \notin Bad
      BY <2>1, <3>1
    <3>3. from < c[j - 1].max /\ \A i \in 1 .. j - 1 : c[i].max <= c[j - 1].max
      BY <3>1, <3>2
    <3>4. At(c, from, j) = c[j - 1].max
      BY <2>4 DEF At
    <3>5. c[j - 1].max < c[j].max
      BY <1>4, <2>2, <3>4
    <3>6. from < c[j].max
      BY <1>2, <2>2, <3>1, <3>3, <3>5
    <3>7. ASSUME NEW i \in 1 .. j PROVE c[i].max <= c[j].max
      <4>1. CASE i = j
        BY <1>2, <2>2, <4>1
      <4>2. CASE i # j
        <5>1. i \in 1 .. j - 1 /\ i \in 1 .. Len(c)
          BY <1>1, <2>2, <4>2
        <5> QED
          BY <1>2, <2>2, <3>1, <3>3, <3>5, <5>1
      <4> QED
        BY <4>1, <4>2
    <3> QED
      BY <3>6, <3>7
  <2> QED
    BY <2>3, <2>4
<1>6. \A j \in 1 .. Len(c) :
        from < c[j].max /\ \A i \in 1 .. j : c[i].max <= c[j].max
  BY <1>1, <1>5
<1>7. \A i \in 1 .. Len(c) : from <= At(c, from, i)
  <2> SUFFICES ASSUME NEW i \in 1 .. Len(c) PROVE from <= At(c, from, i)
    OBVIOUS
  <2>1. CASE i = 1
    BY <2>1 DEF At
  <2>2. CASE i # 1
    <3>1. i - 1 \in 1 .. Len(c)
      BY <1>1, <2>2
    <3>2. from < c[i - 1].max
      BY <1>6, <3>1
    <3> QED
      BY <1>2, <2>2, <3>1, <3>2 DEF At
  <2> QED
    BY <2>1, <2>2
<1> QED
  BY <1>1, <1>2, <1>3, <1>4, <1>6, <1>7

\* Where it ends.
LEMMA GreedyReached ==
  ASSUME NEW files, files \subseteq FileName, NEW from \in Nat, NEW c,
         Greedy(c, files, from)
  PROVE  /\ Reached(c, from) \in Nat /\ from <= Reached(c, from)
         /\ c # << >> => from < Reached(c, from)
         /\ c # << >> => 1 \in 1 .. Len(c) /\ Len(c) \in 1 .. Len(c)
         /\ \A i \in 1 .. Len(c) : c[i].max <= Reached(c, from)
<1>1. c \in Seq(files) /\ Len(c) \in Nat
  BY GreedyAscends
<1>2. CASE c = << >>
  <2>1. Len(c) = 0
    BY <1>2
  <2> QED
    BY <1>2, <2>1 DEF Reached
<1>3. CASE c # << >>
  <2>1. Len(c) \in 1 .. Len(c) /\ 1 \in 1 .. Len(c)
    BY <1>1, <1>3
  <2>2. Reached(c, from) = c[Len(c)].max
    BY <1>3 DEF Reached
  <2>3. \A i \in 1 .. Len(c) : c[i].max <= c[Len(c)].max
    BY <2>1, GreedyAscends
  <2>4. c[Len(c)].max \in Nat /\ At(c, from, Len(c)) \in Nat
        /\ from <= At(c, from, Len(c)) /\ At(c, from, Len(c)) < c[Len(c)].max
    BY <2>1, GreedyAscends
  <2>5. from < c[Len(c)].max /\ from <= c[Len(c)].max
    BY <2>4
  <2> QED
    BY <1>3, <2>1, <2>2, <2>3, <2>4, <2>5
<1> QED
  BY <1>2, <1>3

\* Every TXID a plan goes past is in one of its files.
LEMMA GreedyCovers ==
  ASSUME NEW files, files \subseteq FileName, NEW from \in Nat, NEW c,
         Greedy(c, files, from), NEW t \in from + 1 .. Reached(c, from)
  PROVE  \E i \in 1 .. Len(c) :
           Holds(c[i], t) /\ \A j \in 1 .. Len(c) : t <= c[j].max => i <= j
<1> DEFINE T == {i \in Nat : i \in 1 .. Len(c) /\ t <= c[i].max}
<1>0. Reached(c, from) \in Nat
  BY GreedyReached
<1>1. t \in Nat /\ t <= Reached(c, from) /\ from < t
  BY <1>0
<1>2. Len(c) \in T
  <2>1. c # << >>
    BY <1>0, <1>1 DEF Reached
  <2> QED
    BY <1>1, <2>1, GreedyReached DEF Reached
<1>3. PICK i \in T : \A j \in T : i <= j
  BY <1>2, LeastOf
<1>4. /\ i \in 1 .. Len(c) /\ c[i].min \in Nat /\ c[i].max \in Nat
      /\ At(c, from, i) \in Nat /\ c[i].min <= At(c, from, i) + 1
  BY GreedyAscends
<1>5. At(c, from, i) < t
  <2>1. CASE i = 1
    BY <1>1, <2>1 DEF At
  <2>2. CASE i # 1
    <3>1. i - 1 \in 1 .. Len(c) /\ i - 1 \in Nat /\ i - 1 < i
      BY <1>4, <2>2
    <3>2. i - 1 \notin T
      BY <1>3, <3>1
    <3>3. c[i - 1].max \in Nat
      BY <3>1, GreedyAscends
    <3> QED
      BY <1>1, <2>2, <3>1, <3>2, <3>3 DEF At
  <2> QED
    BY <2>1, <2>2
<1>6. Holds(c[i], t)
  BY <1>1, <1>3, <1>4, <1>5 DEF Holds
<1>7. \A j \in 1 .. Len(c) : t <= c[j].max => i <= j
  BY <1>3
<1> QED
  BY <1>4, <1>6, <1>7

\* A plan goes as far as the files do.
LEMMA GreedyGoesOn ==
  ASSUME NEW files, files \subseteq FileName, NEW from \in Nat, NEW c,
         Greedy(c, files, from),
         NEW t \in Nat, \A u \in from + 1 .. t : \E f \in files : Holds(f, u)
  PROVE  t <= Reached(c, from)
<1> DEFINE r == Reached(c, from)
<1>1. r \in Nat /\ from <= r
  BY GreedyReached
<1> HIDE DEF r
<1> SUFFICES ASSUME r < t PROVE FALSE
  BY <1>1 DEF r
<1>2. r + 1 \in from + 1 .. t
  BY <1>1
<1>3. PICK f \in files : Holds(f, r + 1)
  BY <1>2
<1>4. f.min \in Nat /\ f.max \in Nat
  BY DEF FileName
<1>5. Extends(f, r)
  BY <1>1, <1>3, <1>4 DEF Holds, Extends
<1> QED
  BY <1>5 DEF Greedy, r

\* No choice of fewer files covers what a greedy plan covers ("this uses the
\* fewest files to cover the range"): the TXID after each position of the plan
\* needs a file of its own.
THEOREM GreedyIsMinimal ==
  ASSUME NEW files, files \subseteq FileName, NEW from \in Nat, NEW c,
         Greedy(c, files, from),
         NEW fs \in SUBSET files, IsFiniteSet(fs),
         \A t \in from + 1 .. Reached(c, from) : \E f \in fs : Holds(f, t)
  PROVE  Len(c) <= Cardinality(fs)
<1> DEFINE I == 1 .. Len(c)
           first(i) == At(c, from, i) + 1
           g == [i \in I |-> CHOOSE f \in fs : Holds(f, first(i))]
<1>1. ASSUME NEW i \in I
      PROVE  /\ c[i].max \in Nat /\ At(c, from, i) \in Nat
             /\ g[i] \in fs /\ g[i].max \in Nat
             /\ At(c, from, i) < g[i].max /\ g[i].max <= c[i].max
  <2>1. /\ c[i].max \in Nat /\ At(c, from, i) \in Nat
        /\ from <= At(c, from, i) /\ At(c, from, i) < c[i].max
    BY GreedyAscends
  <2>2. Reached(c, from) \in Nat /\ c[i].max <= Reached(c, from)
    BY GreedyReached
  <2>3. first(i) \in from + 1 .. Reached(c, from)
    BY <2>1, <2>2
  <2>4. \E f \in fs : Holds(f, first(i))
    BY <2>3
  <2>5. g[i] \in fs /\ Holds(g[i], first(i))
    BY <2>4, Zenon
  <2> HIDE DEF g
  <2>6. g[i].min \in Nat /\ g[i].max \in Nat
    BY <2>5 DEF FileName
  <2>7. Extends(g[i], At(c, from, i)) /\ At(c, from, i) < g[i].max
    BY <2>1, <2>5, <2>6 DEF Holds, Extends
  <2>8. g[i].max <= c[i].max
    BY <2>5, <2>7 DEF Greedy
  <2> QED
    BY <2>1, <2>5, <2>6, <2>7, <2>8
<1>2. ASSUME NEW i \in I, NEW j \in I, i < j
      PROVE  g[i].max < g[j].max
  <2>1. j - 1 \in I /\ i \in 1 .. j - 1 /\ j # 1
    BY <1>2
  <2>2. At(c, from, j) = c[j - 1].max
    BY <2>1 DEF At
  <2>3. c[i].max <= c[j - 1].max
    BY <2>1, GreedyAscends
  <2>4. g[i].max \in Nat /\ c[i].max \in Nat /\ g[i].max <= c[i].max
    BY <1>1
  <2>5. g[j].max \in Nat /\ At(c, from, j) \in Nat /\ At(c, from, j) < g[j].max
    BY <1>1
  <2> HIDE DEF g
  <2> QED
    BY <2>2, <2>3, <2>4, <2>5
<1>3. g \in [I -> fs]
  BY <1>1
<1> HIDE DEF g
<1>4. \A i, j \in I : g[i] = g[j] => i = j
  <2> SUFFICES ASSUME NEW i \in I, NEW j \in I, i # j PROVE g[i] # g[j]
    OBVIOUS
  <2>1. i < j \/ j < i
    OBVIOUS
  <2>2. g[i].max < g[j].max \/ g[j].max < g[i].max
    BY <1>2, <2>1
  <2>3. g[i].max \in Nat
    BY <1>1
  <2> QED
    BY <2>2, <2>3
<1>5. g \in Injection(I, fs)
  BY <1>3, <1>4 DEF Injection, IsInjective
<1>6. Cardinality(I) <= Cardinality(fs)
  BY <1>5, FS_Injection
<1>7. Len(c) \in Nat
  BY GreedyAscends
<1>8. Cardinality(I) = Len(c)
  <2>1. 1 \in Int /\ Len(c) \in Int
    BY <1>7
  <2>2. Cardinality(1 .. Len(c)) = IF 1 > Len(c) THEN 0 ELSE Len(c) - 1 + 1
    BY <2>1, FS_Interval
  <2> QED
    BY <1>7, <2>2
<1> QED
  BY <1>6, <1>8

(***************************************************************************)
(* The planners.                                                           *)
(***************************************************************************)

\* plan_restore finds a plan when there is a file with TXID 1, and the plan is
\* greedy.
LEMMA PlanRestoreIs ==
  ASSUME NEW files, NEW b \in Nat, Listing(files, b), \A f \in files : 1 <= f.min
  PROVE  LET r == PlanRestore(files) IN
         /\ r.ok = TRUE <=> \E f \in files : Holds(f, 1)
         /\ r.ok => Greedy(r.plan, files, 0) /\ r.plan # << >>
         /\ ~r.ok => r.plan = << >>
         /\ r.ok \in BOOLEAN
<1> DEFINE c == GreedyCover(files, 0)
<1>1. Greedy(c, files, 0)
  BY CoversAreGreedy
<1>2. PlanRestore(files) = IF c # << >> /\ c[1].min = 1 THEN Plan(c) ELSE NoPlanError
  BY Zenon DEF PlanRestore
<1> HIDE DEF c
<1>3. files \subseteq FileName
  BY DEF Listing
<1>4. ASSUME NEW f \in files, Holds(f, 1)
      PROVE  c # << >> /\ c[1].min = 1
  <2>1. 1 <= Reached(c, 0)
    <3>1. \A u \in 0 + 1 .. 1 : u = 1
      OBVIOUS
    <3>2. \A u \in 0 + 1 .. 1 : \E g \in files : Holds(g, u)
      BY <1>4, <3>1
    <3> QED
      BY <1>1, <1>3, <3>2, GreedyGoesOn
  <2>2. c # << >>
    BY <2>1 DEF Reached
  <2>3. 1 \in 1 .. Len(c)
    BY <1>1, <1>3, <2>2, GreedyReached
  <2>4. c[1] \in files /\ c[1].min \in Nat /\ c[1].min <= At(c, 0, 1) + 1
    BY <1>1, <1>3, <2>3, GreedyAscends
  <2>5. c[1].min <= 1
    BY <2>4 DEF At
  <2>6. 1 <= c[1].min
    BY <2>4
  <2> QED
    BY <2>2, <2>4, <2>5, <2>6
<1>5. ASSUME c # << >>, c[1].min = 1
      PROVE  \E f \in files : Holds(f, 1)
  <2>1. 1 \in 1 .. Len(c)
    BY <1>1, <1>3, <1>5, GreedyReached
  <2>2. c[1] \in files /\ c[1].max \in Nat /\ At(c, 0, 1) < c[1].max
    BY <1>1, <1>3, <2>1, GreedyAscends
  <2>3. 1 <= c[1].max
    BY <2>2 DEF At
  <2> QED
    BY <1>5, <2>2, <2>3 DEF Holds
<1>6. CASE \E f \in files : Holds(f, 1)
  <2>1. PlanRestore(files) = Plan(c) /\ c # << >>
    BY <1>2, <1>4, <1>6
  <2> QED
    BY <1>1, <1>6, <2>1 DEF Plan
<1>7. CASE ~ \E f \in files : Holds(f, 1)
  <2>1. PlanRestore(files) = NoPlanError
    BY <1>2, <1>5, <1>7
  <2> QED
    BY <1>7, <2>1 DEF NoPlanError
<1> QED
  BY <1>6, <1>7

\* plan_restore_from fails exactly when the files have a hole below the head.
LEMMA PlanRestoreFromIs ==
  ASSUME NEW files, NEW b \in Nat, Listing(files, b), NEW from \in Nat
  PROVE  LET r == PlanRestoreFrom(files, from)
             c == GreedyCover(files, from) IN
         /\ Greedy(c, files, from)
         /\ from >= HeadOf(files) => r = Plan(<< >>)
         /\ from < HeadOf(files) =>
              r = IF Reached(c, from) < HeadOf(files) THEN NoPlanError ELSE Plan(c)
<1> DEFINE c == GreedyCover(files, from)
<1>1. Greedy(c, files, from)
  BY CoversAreGreedy
<1>2. HeadOf(files) \in Nat
  BY HeadOfIs DEF Listing
<1> HIDE DEF c
<1>3. PlanRestoreFrom(files, from) =
        CASE from >= HeadOf(files) -> Plan(<< >>)
          [] from < HeadOf(files) /\ Reached(c, from) < HeadOf(files) -> NoPlanError
          [] OTHER -> Plan(c)
  BY Zenon DEF PlanRestoreFrom, c
<1>4. from >= HeadOf(files) => PlanRestoreFrom(files, from) = Plan(<< >>)
  BY <1>2, <1>3
<1>5. from < HeadOf(files) =>
        PlanRestoreFrom(files, from) =
          IF Reached(c, from) < HeadOf(files) THEN NoPlanError ELSE Plan(c)
  BY <1>2, <1>3
<1> QED
  BY <1>1, <1>4, <1>5 DEF c

\* Nor does a plan go past the last TXID of the files.
LEMMA GreedyEnds ==
  ASSUME NEW files, NEW b \in Nat, Listing(files, b), NEW from \in Nat, NEW c,
         Greedy(c, files, from), c # << >>
  PROVE  Reached(c, from) <= HeadOf(files) /\ c[Len(c)] \in files
<1>1. files \subseteq FileName
  BY DEF Listing
<1>2. Len(c) \in 1 .. Len(c)
  BY <1>1, GreedyReached
<1>3. c[Len(c)] \in files
  BY <1>1, <1>2, GreedyAscends
<1>4. c[Len(c)].max <= HeadOf(files)
  BY <1>3, HeadOfIs DEF Listing
<1> QED
  BY <1>3, <1>4 DEF Reached

=============================================================================
