-------------------------------- MODULE Sums --------------------------------
(***************************************************************************)
(* Sums and products over finite sets, as MapThenSumSet and MapThenFoldSet *)
(* define them: one element after the other, in an order CHOOSE decides.   *)
(* The lemmas say that the order does not matter, and what follows: a sum  *)
(* may be split, skip zeros, be taken along a renaming and be exchanged.   *)
(*                                                                         *)
(* SetInduction is induction on finite sets with a set of good subsets in  *)
(* place of a predicate.                                                   *)
(***************************************************************************)
EXTENDS Integers, FiniteSetsExt, FiniteSetTheorems, WellFoundedInduction, TLAPS

\* A nonempty set of numbers has a least one.
LEMMA LeastExists ==
  ASSUME NEW S \in SUBSET Nat, S # {}
  PROVE  \E m \in S : \A k \in S : m <= k
  <1> DEFINE Less == {p \in Nat \X Nat : p[1] < p[2]}
  <1>1. IsWellFoundedOn(Less, Nat) BY NatLessThanWellFounded DEF OpToRel
  <1>2. PICK m \in S : \A k \in S : ~ (<<k, m>> \in Less)
    <2> HIDE DEF Less
    <2> QED BY <1>1, WFMin
  <1>3. ASSUME NEW k \in S PROVE m <= k
    <2>1. k \in Nat /\ m \in Nat /\ <<k, m>> \notin Less BY <1>2
    <2>2. ~ (k < m) BY <2>1
    <2> QED BY <2>1, <2>2
  <1> QED BY <1>3

\* Taking an element away makes a finite set one smaller.
LEMMA OneFewer ==
  ASSUME NEW s, IsFiniteSet(s), NEW x \in s
  PROVE  /\ Cardinality(s) \in Nat /\ Cardinality(s \ {x}) \in Nat
         /\ IsFiniteSet(s \ {x}) /\ Cardinality(s \ {x}) = Cardinality(s) - 1
  <1>1. IsFiniteSet(s \ {x}) /\ Cardinality(s \ {x}) = Cardinality(s) - 1 BY FS_RemoveElement
  <1> QED BY <1>1, FS_CardinalityType

\* Induction on the subsets of a finite set: a set of subsets that has the
\* empty one, and every one whose parts it has, has the whole.
LEMMA SetInduction ==
  ASSUME NEW S, IsFiniteSet(S), NEW Good, {} \in Good,
         \A s \in SUBSET S : s # {} /\ (\A x \in s : s \ {x} \in Good) => s \in Good
  PROVE  S \in Good
  <1> DEFINE Bad == {k \in Nat : \E s \in SUBSET S : Cardinality(s) = k /\ s \notin Good}
  <1>1. SUFFICES ASSUME S \notin Good PROVE FALSE OBVIOUS
  <1>2. \A s \in SUBSET S : IsFiniteSet(s) /\ Cardinality(s) \in Nat BY FS_Subset, FS_CardinalityType
  <1>3. Cardinality(S) \in Bad BY <1>1, <1>2
  <1>4. PICK m \in Bad : \A k \in Bad : m <= k
    <2>1. Bad \in SUBSET Nat OBVIOUS
    <2> HIDE DEF Bad
    <2> QED BY <1>3, <2>1, LeastExists
  <1>5. PICK s \in SUBSET S : Cardinality(s) = m /\ s \notin Good BY <1>4
  <1>6. ASSUME NEW x \in s PROVE s \ {x} \in Good
    <2>1. Cardinality(s) \in Nat /\ Cardinality(s \ {x}) \in Nat /\ Cardinality(s \ {x}) = Cardinality(s) - 1
      BY <1>2, OneFewer
    <2>2. ~(m <= Cardinality(s \ {x})) BY <1>5, <2>1
    <2>3. Cardinality(s \ {x}) \notin Bad BY <1>4, <2>2
    <2> QED BY <2>1, <2>3
  <1>7. s # {} BY <1>5
  <1> QED BY <1>5, <1>6, <1>7

-----------------------------------------------------------------------------
(* Folding a finite set *)

AnElement(s) == CHOOSE x \in s : TRUE

\* g folds the subsets of S, and FoldedTo those of at most n elements.
Folded(c, b, S, g) ==
    g = [s \in SUBSET S |-> IF s = {} THEN b ELSE LET x == CHOOSE x \in s : TRUE IN c[x][g[s \ {x}]]]

Small(S, n) == {s \in SUBSET S : Cardinality(s) <= n}

FoldedTo(c, b, S, n, g) ==
    g = [s \in Small(S, n) |-> IF s = {} THEN b ELSE LET x == CHOOSE x \in s : TRUE IN c[x][g[s \ {x}]]]

\* What is left of a small set is smaller by one.
LEMMA SmallerSet ==
  ASSUME NEW S, IsFiniteSet(S), NEW n \in Nat, NEW s \in Small(S, n), s # {}, NEW x, x = CHOOSE y \in s : TRUE
  PROVE  x \in s /\ n - 1 \in Nat /\ s \ {x} \in Small(S, n - 1) /\ s \ {x} \in Small(S, n)
  <1>1. s \in SUBSET S /\ x \in s BY DEF Small
  <1>2. IsFiniteSet(s) BY <1>1, FS_Subset
  <1>3. Cardinality(s) <= n BY DEF Small
  <1>4. /\ Cardinality(s) \in Nat /\ Cardinality(s \ {x}) \in Nat
        /\ Cardinality(s \ {x}) = Cardinality(s) - 1
    BY <1>1, <1>2, OneFewer
  <1>5. Cardinality(s \ {x}) <= n - 1 /\ Cardinality(s \ {x}) <= n /\ n - 1 \in Nat BY <1>3, <1>4
  <1>6. s \ {x} \in SUBSET S BY <1>1
  <1> QED BY <1>1, <1>5, <1>6 DEF Small

\* A fold's running results over the sets of up to n elements exist.
LEMMA FoldedToExists ==
  ASSUME NEW S, IsFiniteSet(S), NEW c, NEW b, NEW n \in Nat
  PROVE  \E g : FoldedTo(c, b, S, n, g)
  <1> DEFINE Without == {k \in Nat : ~\E g : FoldedTo(c, b, S, k, g)}
  <1>1. SUFFICES ASSUME Without # {} PROVE FALSE BY DEF FoldedTo
  <1>2. PICK m \in Without : \A k \in Without : m <= k
    <2>1. Without \in SUBSET Nat OBVIOUS
    <2> HIDE DEF Without
    <2> QED BY <1>1, <2>1, LeastExists
  <1> DEFINE g0 == IF m = 0 THEN <<>> ELSE CHOOSE g : FoldedTo(c, b, S, m - 1, g)
  <1>3. m \in Nat /\ (m # 0 => m - 1 \in Nat /\ FoldedTo(c, b, S, m - 1, g0))
    <2>1. CASE m # 0
      <3>1. m \in Nat /\ m - 1 \in Nat /\ ~(m <= m - 1) BY <2>1
      <3>2. m - 1 \notin Without BY <1>2, <3>1
      <3>3. \E g : FoldedTo(c, b, S, m - 1, g) BY <3>1, <3>2
      <3>4. g0 = CHOOSE g : FoldedTo(c, b, S, m - 1, g) BY <2>1
      <3> QED BY <3>1, <3>3, <3>4
    <2> QED BY <2>1
  <1>4. PICK g : g = g0 OBVIOUS
  <1> DEFINE h == [s \in Small(S, m) |->
                      IF s = {} THEN b ELSE LET x == CHOOSE x \in s : TRUE IN c[x][g[s \ {x}]]]
  <1>5. ASSUME NEW s \in Small(S, m), s # {}, NEW x, x = CHOOSE y \in s : TRUE
        PROVE  g[s \ {x}] = h[s \ {x}]
    <2>1. m - 1 \in Nat /\ s \ {x} \in Small(S, m - 1) /\ s \ {x} \in Small(S, m) BY <1>3, <1>5, SmallerSet
    <2>2. m # 0 BY <2>1
    <2>3. g = [t \in Small(S, m - 1) |->
                  IF t = {} THEN b ELSE LET y == CHOOSE y \in t : TRUE IN c[y][g[t \ {y}]]]
      <3>1. FoldedTo(c, b, S, m - 1, g) BY <1>3, <1>4, <2>2
      <3> QED BY ONLY <3>1 DEF FoldedTo
    <2> QED BY <2>1, <2>3
  <1>6. h = [s \in Small(S, m) |->
                IF s = {} THEN b ELSE LET x == CHOOSE x \in s : TRUE IN c[x][h[s \ {x}]]]
    <2>1. ASSUME NEW s \in Small(S, m), s # {}
          PROVE  (LET x == CHOOSE x \in s : TRUE IN c[x][g[s \ {x}]])
                   = (LET x == CHOOSE x \in s : TRUE IN c[x][h[s \ {x}]])
      <3>1. PICK x : x = CHOOSE y \in s : TRUE OBVIOUS
      <3>2. g[s \ {x}] = h[s \ {x}]
        <4> HIDE DEF h
        <4> QED BY <1>5, <2>1, <3>1
      <3> HIDE DEF h
      <3> QED BY <3>1, <3>2
    <2> DEFINE A(s) == LET x == CHOOSE x \in s : TRUE IN c[x][g[s \ {x}]]
               B(s) == LET x == CHOOSE x \in s : TRUE IN c[x][h[s \ {x}]]
    <2>2. h = [s \in Small(S, m) |-> IF s = {} THEN b ELSE A(s)] OBVIOUS
    <2>3. \A s \in Small(S, m) : s # {} => A(s) = B(s) BY <2>1
    <2>4. h = [s \in Small(S, m) |-> IF s = {} THEN b ELSE B(s)]
      <3> HIDE DEF A, B, h
      <3> QED BY <2>2, <2>3
    <2> QED BY <2>4
  <1>7. \E k : FoldedTo(c, b, S, m, k)
    <2> HIDE DEF h
    <2> QED BY <1>6 DEF FoldedTo
  <1> QED BY <1>2, <1>7

\* A fold's running results over all subsets of a finite set exist.
LEMMA FoldedExists ==
  ASSUME NEW S, IsFiniteSet(S), NEW c, NEW b
  PROVE  \E g : Folded(c, b, S, g)
  <1>1. Cardinality(S) \in Nat BY FS_CardinalityType
  <1>2. Small(S, Cardinality(S)) = SUBSET S
    <2>1. ASSUME NEW s \in SUBSET S PROVE Cardinality(s) <= Cardinality(S) BY FS_Subset
    <2> QED BY <2>1 DEF Small
  <1>3. PICK g : FoldedTo(c, b, S, Cardinality(S), g) BY <1>1, FoldedToExists
  <1>4. Folded(c, b, S, g) BY <1>2, <1>3 DEF FoldedTo, Folded
  <1> QED BY <1>4

\* The fold of nothing is its base.
LEMMA FoldedNone ==
  ASSUME NEW S, NEW c, NEW b, NEW g, Folded(c, b, S, g)
  PROVE  g[{}] = b
  <1> DEFINE P(t) == LET y == CHOOSE y \in t : TRUE IN c[y][g[t \ {y}]]
  <1>1. g = [t \in SUBSET S |-> IF t = {} THEN b ELSE P(t)] BY DEF Folded
  <1>2. {} \in SUBSET S OBVIOUS
  <1> HIDE DEF P
  <1> QED BY <1>1, <1>2

\* A fold of a set adds the element CHOOSE picks to the fold of the rest.
LEMMA FoldedStep ==
  ASSUME NEW S, NEW c, NEW b, NEW g, Folded(c, b, S, g), NEW s \in SUBSET S, s # {}
  PROVE  g[s] = c[AnElement(s)][g[s \ {AnElement(s)}]]
  <1> DEFINE P(t) == LET y == CHOOSE y \in t : TRUE IN c[y][g[t \ {y}]]
  <1>1. g = [t \in SUBSET S |-> IF t = {} THEN b ELSE P(t)] BY DEF Folded
  <1>2. g[s] = P(s)
    <2> HIDE DEF P
    <2> QED BY <1>1
  <1> QED BY <1>2 DEF AnElement

\* Two folds of the same elements by the same steps agree.
LEMMA FoldedSame ==
  ASSUME NEW S, NEW T, NEW c, NEW d, NEW b, NEW g, NEW h, Folded(c, b, S, g), Folded(d, b, T, h),
         NEW s \in SUBSET (S \cap T), IsFiniteSet(s), \A x \in s : c[x] = d[x]
  PROVE  g[s] = h[s]
  <1> DEFINE Good == {t \in SUBSET s : g[t] = h[t]}
  <1>1. ASSUME NEW t \in SUBSET s PROVE t \in SUBSET S /\ t \in SUBSET T OBVIOUS
  <1>2. {} \in Good
    <2>1. g[{}] = b /\ h[{}] = b BY FoldedNone
    <2> QED BY <2>1
  <1>3. ASSUME NEW t \in SUBSET s, t # {}, \A x \in t : t \ {x} \in Good PROVE t \in Good
    <2>1. AnElement(t) \in t BY <1>3 DEF AnElement
    <2>2. g[t] = c[AnElement(t)][g[t \ {AnElement(t)}]] BY <1>1, <1>3, FoldedStep
    <2>3. h[t] = d[AnElement(t)][h[t \ {AnElement(t)}]] BY <1>1, <1>3, FoldedStep
    <2>4. g[t \ {AnElement(t)}] = h[t \ {AnElement(t)}] BY <1>3, <2>1
    <2> QED BY <2>1, <2>2, <2>3, <2>4
  <1>4. s \in Good
    <2> HIDE DEF Good
    <2> QED BY <1>2, <1>3, SetInduction
  <1> QED BY <1>4

\* Where steps commute, the order does not matter.
Commute(c, b, S, V) ==
    /\ b \in V
    /\ \A x \in S, v \in V : c[x][v] \in V
    /\ \A x, y \in S, v \in V : c[x][c[y][v]] = c[y][c[x][v]]

\* When the order does not matter, a fold adds any element to the fold of the
\* rest.
LEMMA FoldedWithout ==
  ASSUME NEW S, IsFiniteSet(S), NEW c, NEW b, NEW V, Commute(c, b, S, V), NEW g, Folded(c, b, S, g)
  PROVE  g[S] \in V /\ \A x \in S : g[S \ {x}] \in V /\ g[S] = c[x][g[S \ {x}]]
  <1> DEFINE Good == {s \in SUBSET S : g[s] \in V /\ \A x \in s : g[s \ {x}] \in V /\ g[s] = c[x][g[s \ {x}]]}
  <1>1. {} \in Good
    <2>1. g[{}] = b BY FoldedNone
    <2> QED BY <2>1 DEF Commute
  <1>2. ASSUME NEW s \in SUBSET S, s # {}, \A x \in s : s \ {x} \in Good PROVE s \in Good
    <2>1. PICK y \in s : y = AnElement(s) BY <1>2 DEF AnElement
    <2>2. g[s] = c[y][g[s \ {y}]] BY <1>2, <2>1, FoldedStep
    <2>3. g[s] \in V
      <3>1. g[s \ {y}] \in V BY <1>2
      <3> QED BY <2>2, <3>1 DEF Commute
    <2>4. ASSUME NEW x \in s PROVE g[s \ {x}] \in V /\ g[s] = c[x][g[s \ {x}]]
      <3>1. g[s \ {x}] \in V BY <1>2
      <3>2. CASE x = y BY <2>2, <3>1, <3>2
      <3>3. CASE x # y
        <4>1. x \in s \ {y} /\ y \in s \ {x} BY <3>3
        <4>2. s \ {x} \in Good /\ s \ {y} \in Good BY <1>2
        <4>3. (s \ {y}) \ {x} = (s \ {x}) \ {y} OBVIOUS
        <4>4. PICK v : v = g[(s \ {x}) \ {y}] OBVIOUS
        <4>5. v \in V /\ g[s \ {x}] = c[y][v] BY <4>1, <4>2, <4>4
        <4>6. g[s \ {y}] = c[x][v] BY <4>1, <4>2, <4>3, <4>4
        <4>7. c[x][c[y][v]] = c[y][c[x][v]] BY <4>5 DEF Commute
        <4> QED BY <2>2, <3>1, <4>5, <4>6, <4>7
      <3> QED BY <3>2, <3>3
    <2> QED BY <2>3, <2>4
  <1>3. S \in Good
    <2> HIDE DEF Good
    <2> QED BY <1>1, <1>2, SetInduction
  <1> QED BY <1>3

FoldOf(c, b, S) == (CHOOSE g : Folded(c, b, S, g))[S]

\* The fold of a set is the one found within any larger set, for contributions
\* that agree on it.
LEMMA FoldOfIs ==
  ASSUME NEW S, IsFiniteSet(S), NEW c, NEW b, NEW d, NEW T, S \subseteq T, NEW g, Folded(d, b, T, g),
         \A x \in S : c[x] = d[x]
  PROVE  FoldOf(c, b, S) = g[S]
  <1>1. PICK h : h = CHOOSE k : Folded(c, b, S, k) OBVIOUS
  <1>2. Folded(c, b, S, h) BY <1>1, FoldedExists
  <1>3. S \in SUBSET (S \cap T) OBVIOUS
  <1>4. h[S] = g[S] BY <1>2, <1>3, FoldedSame
  <1> QED BY <1>1, <1>4 DEF FoldOf

\* A fold of no element, and any element taken out of one.
LEMMA FoldOfNone == ASSUME NEW c, NEW b PROVE FoldOf(c, b, {}) = b
  <1>1. IsFiniteSet({}) BY FS_EmptySet
  <1>2. PICK g : Folded(c, b, {}, g) BY <1>1, FoldedExists
  <1>3. g[{}] = b BY <1>2, FoldedNone
  <1> QED BY <1>1, <1>2, <1>3, FoldOfIs

\* FoldedWithout for FoldOf: any element may be the last one added.
LEMMA FoldOfWithout ==
  ASSUME NEW S, IsFiniteSet(S), NEW c, NEW b, NEW V, Commute(c, b, S, V)
  PROVE  FoldOf(c, b, S) \in V /\ \A x \in S : /\ FoldOf(c, b, S \ {x}) \in V
                                               /\ FoldOf(c, b, S) = c[x][FoldOf(c, b, S \ {x})]
  <1>1. PICK g : Folded(c, b, S, g) BY FoldedExists
  <1>2. FoldOf(c, b, S) = g[S] BY <1>1, FoldOfIs
  <1>3. ASSUME NEW x \in S PROVE FoldOf(c, b, S \ {x}) = g[S \ {x}]
    <2>1. IsFiniteSet(S \ {x}) /\ S \ {x} \subseteq S BY OneFewer
    <2> QED BY <1>1, <2>1, FoldOfIs
  <1>4. g[S] \in V /\ \A x \in S : g[S \ {x}] \in V /\ g[S] = c[x][g[S \ {x}]] BY <1>1, FoldedWithout
  <1> QED BY <1>2, <1>3, <1>4

-----------------------------------------------------------------------------
(* Sums and products *)

SumOf(f, S) == MapThenSumSet(LAMBDA x : f[x], S)

StillAdded(f, S, g) ==
    g = [s \in SUBSET S |-> IF s = {} THEN 0 ELSE LET x == CHOOSE x \in s : TRUE IN f[x] + g[s \ {x}]]

Adder(f, S) == [x \in S |-> [v \in Int |-> f[x] + v]]

\* The sum, as the folds of the community modules define it.
LEMMA SumOfIs == ASSUME NEW f, NEW S PROVE SumOf(f, S) = (CHOOSE g : StillAdded(f, S, g))[S]
  BY DEF SumOf, MapThenSumSet, MapThenFoldSet, StillAdded

\* The sum of nothing is zero.
LEMMA AddedNone ==
  ASSUME NEW S, NEW f, NEW g, StillAdded(f, S, g)
  PROVE  g[{}] = 0
  <1> DEFINE P(t) == LET y == CHOOSE y \in t : TRUE IN f[y] + g[t \ {y}]
  <1>1. g = [t \in SUBSET S |-> IF t = {} THEN 0 ELSE P(t)] BY DEF StillAdded
  <1>2. {} \in SUBSET S OBVIOUS
  <1> HIDE DEF P
  <1> QED BY <1>1, <1>2

\* A sum adds the element CHOOSE picks to the sum of the rest.
LEMMA AddedStep ==
  ASSUME NEW S, NEW f, NEW g, StillAdded(f, S, g), NEW s \in SUBSET S, s # {}
  PROVE  g[s] = f[AnElement(s)] + g[s \ {AnElement(s)}]
  <1> DEFINE P(t) == LET y == CHOOSE y \in t : TRUE IN f[y] + g[t \ {y}]
  <1>1. g = [t \in SUBSET S |-> IF t = {} THEN 0 ELSE P(t)] BY DEF StillAdded
  <1>2. g[s] = P(s)
    <2> HIDE DEF P
    <2> QED BY <1>1
  <1> QED BY <1>2 DEF AnElement

\* The order of additions does not matter.
LEMMA AdderCommutes ==
  ASSUME NEW S, NEW f, \A x \in S : f[x] \in Int
  PROVE  Commute(Adder(f, S), 0, S, Int)
  <1>1. ASSUME NEW x \in S, NEW v \in Int PROVE Adder(f, S)[x][v] = f[x] + v BY DEF Adder
  <1>2. ASSUME NEW x \in S, NEW v \in Int PROVE f[x] + v \in Int OBVIOUS
  <1>3. ASSUME NEW x \in S, NEW y \in S, NEW v \in Int PROVE f[x] + (f[y] + v) = f[y] + (f[x] + v)
    <2>1. PICK a \in Int, b \in Int : a = f[x] /\ b = f[y] OBVIOUS
    <2>2. a + (b + v) = b + (a + v) OBVIOUS
    <2> QED BY <2>1, <2>2
  <1> QED BY <1>1, <1>2, <1>3 DEF Commute

\* A sum is a fold.
LEMMA SumOfIsFold ==
  ASSUME NEW S, IsFiniteSet(S), NEW f, \A x \in S : f[x] \in Int
  PROVE  SumOf(f, S) = FoldOf(Adder(f, S), 0, S)
  <1> DEFINE c == Adder(f, S)
  <1>1. PICK g : Folded(c, 0, S, g) BY FoldedExists
  <1>2. ASSUME NEW s \in SUBSET S PROVE IsFiniteSet(s) /\ g[s] \in Int
    <2>1. IsFiniteSet(s) BY FS_Subset
    <2>2. FoldOf(c, 0, s) = g[s] BY <1>1, <2>1, FoldOfIs
    <2>3. Commute(c, 0, s, Int) BY AdderCommutes DEF Commute
    <2>4. FoldOf(c, 0, s) \in Int BY <2>1, <2>3, FoldOfWithout
    <2> QED BY <2>1, <2>2, <2>4
  <1>3. ASSUME NEW s \in SUBSET S, s # {}
        PROVE  AnElement(s) \in s /\ g[s \ {AnElement(s)}] \in Int /\ g[s] = f[AnElement(s)] + g[s \ {AnElement(s)}]
    <2>1. AnElement(s) \in s BY <1>3 DEF AnElement
    <2>2. g[s] = c[AnElement(s)][g[s \ {AnElement(s)}]] BY <1>1, <1>3, FoldedStep
    <2>3. g[s \ {AnElement(s)}] \in Int BY <1>2
    <2>4. AnElement(s) \in S BY <2>1
    <2>5. c[AnElement(s)][g[s \ {AnElement(s)}]] = f[AnElement(s)] + g[s \ {AnElement(s)}] BY <2>3, <2>4 DEF Adder
    <2> QED BY <2>1, <2>2, <2>3, <2>5
  <1>4. StillAdded(f, S, g)
    <2> DEFINE Q(s) == LET x == CHOOSE x \in s : TRUE IN f[x] + g[s \ {x}]
    <2>1. \A s \in SUBSET S : s # {} => g[s] = Q(s) BY <1>3 DEF AnElement
    <2>2. g[{}] = 0
      <3> HIDE DEF c
      <3> QED BY <1>1, FoldedNone
    <2>3. g = [s \in SUBSET S |-> g[s]]
      <3> DEFINE R(s) == LET x == CHOOSE x \in s : TRUE IN c[x][g[s \ {x}]]
      <3>1. g = [s \in SUBSET S |-> IF s = {} THEN 0 ELSE R(s)] BY <1>1 DEF Folded
      <3> HIDE DEF R
      <3> QED BY <3>1
    <2>4. g = [s \in SUBSET S |-> IF s = {} THEN 0 ELSE Q(s)]
      <3> HIDE DEF Q
      <3> QED BY <2>1, <2>2, <2>3
    <2> QED BY <2>4 DEF StillAdded
  <1>5. PICK h : h = CHOOSE k : StillAdded(f, S, k) OBVIOUS
  <1>6. StillAdded(f, S, h) BY <1>4, <1>5
  <1> DEFINE Good == {s \in SUBSET S : h[s] = g[s]}
  <1>7. {} \in Good
    <2>1. h[{}] = 0 BY <1>6, AddedNone
    <2>2. g[{}] = 0
      <3> HIDE DEF c
      <3> QED BY <1>1, FoldedNone
    <2> QED BY <2>1, <2>2
  <1>8. ASSUME NEW s \in SUBSET S, s # {}, \A x \in s : s \ {x} \in Good PROVE s \in Good
    <2>1. AnElement(s) \in s /\ g[s] = f[AnElement(s)] + g[s \ {AnElement(s)}] BY <1>3, <1>8
    <2>2. h[s] = f[AnElement(s)] + h[s \ {AnElement(s)}]
      <3>1. s \in SUBSET S /\ s # {} BY <1>8
      <3> QED BY ONLY <1>6, <3>1, AddedStep
    <2>3. h[s \ {AnElement(s)}] = g[s \ {AnElement(s)}] BY <1>8, <2>1
    <2> QED BY <2>1, <2>2, <2>3
  <1>9. S \in Good
    <2> HIDE DEF Good
    <2> QED BY <1>7, <1>8, SetInduction
  <1>10. FoldOf(c, 0, S) = g[S] BY <1>1, FoldOfIs
  <1> QED BY <1>5, <1>9, <1>10, SumOfIs

\* A sum of no number, and any number taken out of a sum.
LEMMA SumOfNone == ASSUME NEW f PROVE SumOf(f, {}) = 0
  <1>1. IsFiniteSet({}) BY FS_EmptySet
  <1> QED BY <1>1, SumOfIsFold, FoldOfNone

\* A sum of numbers is a number, and any element may be taken out of it.
LEMMA SumOfWithout ==
  ASSUME NEW S, IsFiniteSet(S), NEW f, \A x \in S : f[x] \in Int
  PROVE  SumOf(f, S) \in Int /\ \A x \in S : SumOf(f, S \ {x}) \in Int /\ SumOf(f, S) = f[x] + SumOf(f, S \ {x})
  <1> DEFINE c == Adder(f, S)
  <1>1. Commute(c, 0, S, Int) BY AdderCommutes
  <1>2. SumOf(f, S) = FoldOf(c, 0, S) BY SumOfIsFold
  <1>3. ASSUME NEW x \in S PROVE SumOf(f, S \ {x}) = FoldOf(c, 0, S \ {x})
    <2>1. IsFiniteSet(S \ {x}) BY OneFewer
    <2>2. PICK T : T = S \ {x} OBVIOUS
    <2>3. SumOf(f, T) = FoldOf(Adder(f, T), 0, T) BY <2>1, <2>2, SumOfIsFold
    <2>4. PICK g : Folded(c, 0, S, g) BY FoldedExists
    <2>5. \A y \in T : Adder(f, T)[y] = c[y] /\ c[y] = c[y] BY <2>2 DEF Adder
    <2>6. T \subseteq S /\ IsFiniteSet(T) BY <2>1, <2>2
    <2>7. FoldOf(Adder(f, T), 0, T) = g[T] BY <2>4, <2>5, <2>6, FoldOfIs
    <2>8. FoldOf(c, 0, T) = g[T]
      <3> HIDE DEF c
      <3> QED BY <2>4, <2>6, FoldOfIs
    <2> QED BY <2>2, <2>3, <2>7, <2>8
  <1>4. FoldOf(c, 0, S) \in Int /\ \A x \in S : /\ FoldOf(c, 0, S \ {x}) \in Int
                                                   /\ FoldOf(c, 0, S) = c[x][FoldOf(c, 0, S \ {x})]
    <2> HIDE DEF c
    <2> QED BY <1>1, FoldOfWithout
  <1>5. ASSUME NEW x \in S PROVE c[x][FoldOf(c, 0, S \ {x})] = f[x] + FoldOf(c, 0, S \ {x})
    <2>1. PICK v \in Int : v = FoldOf(c, 0, S \ {x}) BY <1>4
    <2>2. c[x][v] = f[x] + v BY DEF Adder
    <2> QED BY <2>1, <2>2
  <1> QED BY <1>2, <1>3, <1>4, <1>5

ProductOf(f, S) == MapThenFoldSet(LAMBDA x, y : x * y, 1, LAMBDA x : f[x], LAMBDA s : CHOOSE x \in s : TRUE, S)

Multiplied(f, S, g) ==
    g = [s \in SUBSET S |-> IF s = {} THEN 1 ELSE LET x == CHOOSE x \in s : TRUE IN f[x] * g[s \ {x}]]

Multiplier(f, S) == [x \in S |-> [v \in Int |-> f[x] * v]]

\* The product, as the folds of the community modules define it.
LEMMA ProductOfIs == ASSUME NEW f, NEW S PROVE ProductOf(f, S) = (CHOOSE g : Multiplied(f, S, g))[S]
  BY DEF ProductOf, MapThenFoldSet, Multiplied

\* The product of nothing is one.
LEMMA MultipliedNone ==
  ASSUME NEW S, NEW f, NEW g, Multiplied(f, S, g)
  PROVE  g[{}] = 1
  <1> DEFINE P(t) == LET y == CHOOSE y \in t : TRUE IN f[y] * g[t \ {y}]
  <1>1. g = [t \in SUBSET S |-> IF t = {} THEN 1 ELSE P(t)] BY DEF Multiplied
  <1>2. {} \in SUBSET S OBVIOUS
  <1> HIDE DEF P
  <1> QED BY <1>1, <1>2

\* A product multiplies by the element CHOOSE picks.
LEMMA MultipliedStep ==
  ASSUME NEW S, NEW f, NEW g, Multiplied(f, S, g), NEW s \in SUBSET S, s # {}
  PROVE  g[s] = f[AnElement(s)] * g[s \ {AnElement(s)}]
  <1> DEFINE P(t) == LET y == CHOOSE y \in t : TRUE IN f[y] * g[t \ {y}]
  <1>1. g = [t \in SUBSET S |-> IF t = {} THEN 1 ELSE P(t)] BY DEF Multiplied
  <1>2. g[s] = P(s)
    <2> HIDE DEF P
    <2> QED BY <1>1
  <1> QED BY <1>2 DEF AnElement

\* The order of multiplications does not matter.
LEMMA MultiplierCommutes ==
  ASSUME NEW S, NEW f, \A x \in S : f[x] \in Int
  PROVE  Commute(Multiplier(f, S), 1, S, Int)
  <1>1. ASSUME NEW x \in S, NEW v \in Int PROVE Multiplier(f, S)[x][v] = f[x] * v BY DEF Multiplier
  <1>2. ASSUME NEW x \in S, NEW v \in Int PROVE f[x] * v \in Int OBVIOUS
  <1>3. ASSUME NEW x \in S, NEW y \in S, NEW v \in Int PROVE f[x] * (f[y] * v) = f[y] * (f[x] * v)
    <2>1. PICK a \in Int, b \in Int : a = f[x] /\ b = f[y] OBVIOUS
    <2>2. a * (b * v) = b * (a * v) OBVIOUS
    <2> QED BY <2>1, <2>2
  <1> QED BY <1>1, <1>2, <1>3 DEF Commute

\* A product is a fold.
LEMMA ProductOfIsFold ==
  ASSUME NEW S, IsFiniteSet(S), NEW f, \A x \in S : f[x] \in Int
  PROVE  ProductOf(f, S) = FoldOf(Multiplier(f, S), 1, S)
  <1> DEFINE c == Multiplier(f, S)
  <1>1. PICK g : Folded(c, 1, S, g) BY FoldedExists
  <1>2. ASSUME NEW s \in SUBSET S PROVE IsFiniteSet(s) /\ g[s] \in Int
    <2>1. IsFiniteSet(s) BY FS_Subset
    <2>2. FoldOf(c, 1, s) = g[s] BY <1>1, <2>1, FoldOfIs
    <2>3. Commute(c, 1, s, Int) BY MultiplierCommutes DEF Commute
    <2>4. FoldOf(c, 1, s) \in Int BY <2>1, <2>3, FoldOfWithout
    <2> QED BY <2>1, <2>2, <2>4
  <1>3. ASSUME NEW s \in SUBSET S, s # {}
        PROVE  AnElement(s) \in s /\ g[s \ {AnElement(s)}] \in Int /\ g[s] = f[AnElement(s)] * g[s \ {AnElement(s)}]
    <2>1. AnElement(s) \in s BY <1>3 DEF AnElement
    <2>2. g[s] = c[AnElement(s)][g[s \ {AnElement(s)}]] BY <1>1, <1>3, FoldedStep
    <2>3. g[s \ {AnElement(s)}] \in Int BY <1>2
    <2>4. AnElement(s) \in S BY <2>1
    <2>5. c[AnElement(s)][g[s \ {AnElement(s)}]] = f[AnElement(s)] * g[s \ {AnElement(s)}] BY <2>3, <2>4 DEF Multiplier
    <2> QED BY <2>1, <2>2, <2>3, <2>5
  <1>4. Multiplied(f, S, g)
    <2> DEFINE Q(s) == LET x == CHOOSE x \in s : TRUE IN f[x] * g[s \ {x}]
    <2>1. \A s \in SUBSET S : s # {} => g[s] = Q(s) BY <1>3 DEF AnElement
    <2>2. g[{}] = 1
      <3> HIDE DEF c
      <3> QED BY <1>1, FoldedNone
    <2>3. g = [s \in SUBSET S |-> g[s]]
      <3> DEFINE R(s) == LET x == CHOOSE x \in s : TRUE IN c[x][g[s \ {x}]]
      <3>1. g = [s \in SUBSET S |-> IF s = {} THEN 1 ELSE R(s)] BY <1>1 DEF Folded
      <3> HIDE DEF R
      <3> QED BY <3>1
    <2>4. g = [s \in SUBSET S |-> IF s = {} THEN 1 ELSE Q(s)]
      <3> HIDE DEF Q
      <3> QED BY <2>1, <2>2, <2>3
    <2> QED BY <2>4 DEF Multiplied
  <1>5. PICK h : h = CHOOSE k : Multiplied(f, S, k) OBVIOUS
  <1>6. Multiplied(f, S, h) BY <1>4, <1>5
  <1> DEFINE Good == {s \in SUBSET S : h[s] = g[s]}
  <1>7. {} \in Good
    <2>1. h[{}] = 1 BY <1>6, MultipliedNone
    <2>2. g[{}] = 1
      <3> HIDE DEF c
      <3> QED BY <1>1, FoldedNone
    <2> QED BY <2>1, <2>2
  <1>8. ASSUME NEW s \in SUBSET S, s # {}, \A x \in s : s \ {x} \in Good PROVE s \in Good
    <2>1. AnElement(s) \in s /\ g[s] = f[AnElement(s)] * g[s \ {AnElement(s)}] BY <1>3, <1>8
    <2>2. h[s] = f[AnElement(s)] * h[s \ {AnElement(s)}]
      <3>1. s \in SUBSET S /\ s # {} BY <1>8
      <3> QED BY ONLY <1>6, <3>1, MultipliedStep
    <2>3. h[s \ {AnElement(s)}] = g[s \ {AnElement(s)}] BY <1>8, <2>1
    <2> QED BY <2>1, <2>2, <2>3
  <1>9. S \in Good
    <2> HIDE DEF Good
    <2> QED BY <1>7, <1>8, SetInduction
  <1>10. FoldOf(c, 1, S) = g[S] BY <1>1, FoldOfIs
  <1> QED BY <1>5, <1>9, <1>10, ProductOfIs

\* A product of no number, and any number taken out of a product.
LEMMA ProductOfNone == ASSUME NEW f PROVE ProductOf(f, {}) = 1
  <1>1. IsFiniteSet({}) BY FS_EmptySet
  <1> QED BY <1>1, ProductOfIsFold, FoldOfNone

\* A product of numbers is a number, and any element may be taken out of it.
LEMMA ProductOfWithout ==
  ASSUME NEW S, IsFiniteSet(S), NEW f, \A x \in S : f[x] \in Int
  PROVE  /\ ProductOf(f, S) \in Int
         /\ \A x \in S : ProductOf(f, S \ {x}) \in Int /\ ProductOf(f, S) = f[x] * ProductOf(f, S \ {x})
  <1> DEFINE c == Multiplier(f, S)
  <1>1. Commute(c, 1, S, Int) BY MultiplierCommutes
  <1>2. ProductOf(f, S) = FoldOf(c, 1, S) BY ProductOfIsFold
  <1>3. ASSUME NEW x \in S PROVE ProductOf(f, S \ {x}) = FoldOf(c, 1, S \ {x})
    <2>1. IsFiniteSet(S \ {x}) BY OneFewer
    <2>2. PICK T : T = S \ {x} OBVIOUS
    <2>3. ProductOf(f, T) = FoldOf(Multiplier(f, T), 1, T) BY <2>1, <2>2, ProductOfIsFold
    <2>4. PICK g : Folded(c, 1, S, g) BY FoldedExists
    <2>5. \A y \in T : Multiplier(f, T)[y] = c[y] /\ c[y] = c[y] BY <2>2 DEF Multiplier
    <2>6. T \subseteq S /\ IsFiniteSet(T) BY <2>1, <2>2
    <2>7. FoldOf(Multiplier(f, T), 1, T) = g[T] BY <2>4, <2>5, <2>6, FoldOfIs
    <2>8. FoldOf(c, 1, T) = g[T]
      <3> HIDE DEF c
      <3> QED BY <2>4, <2>6, FoldOfIs
    <2> QED BY <2>2, <2>3, <2>7, <2>8
  <1>4. FoldOf(c, 1, S) \in Int /\ \A x \in S : /\ FoldOf(c, 1, S \ {x}) \in Int
                                                   /\ FoldOf(c, 1, S) = c[x][FoldOf(c, 1, S \ {x})]
    <2> HIDE DEF c
    <2> QED BY <1>1, FoldOfWithout
  <1>5. ASSUME NEW x \in S PROVE c[x][FoldOf(c, 1, S \ {x})] = f[x] * FoldOf(c, 1, S \ {x})
    <2>1. PICK v \in Int : v = FoldOf(c, 1, S \ {x}) BY <1>4
    <2>2. c[x][v] = f[x] * v BY DEF Multiplier
    <2> QED BY <2>1, <2>2
  <1> QED BY <1>2, <1>3, <1>4, <1>5

-----------------------------------------------------------------------------
(* What follows for sums *)

\* Sums of the same numbers are equal.
LEMMA SumSame ==
  ASSUME NEW S, IsFiniteSet(S), NEW f, NEW h, \A x \in S : f[x] \in Int /\ h[x] = f[x]
  PROVE  SumOf(h, S) = SumOf(f, S)
  <1> DEFINE Good == {s \in SUBSET S : SumOf(h, s) = SumOf(f, s)}
  <1>1. {} \in Good
    <2>1. SumOf(h, {}) = 0 /\ SumOf(f, {}) = 0 BY SumOfNone
    <2> QED BY <2>1
  <1>2. ASSUME NEW s \in SUBSET S, s # {}, \A x \in s : s \ {x} \in Good PROVE s \in Good
    <2>1. PICK x : x \in s BY <1>2
    <2>2. IsFiniteSet(s) /\ (\A y \in s : f[y] \in Int) /\ (\A y \in s : h[y] \in Int) BY FS_Subset
    <2>3. SumOf(f, s) = f[x] + SumOf(f, s \ {x}) BY <2>1, <2>2, SumOfWithout
    <2>4. SumOf(h, s) = h[x] + SumOf(h, s \ {x}) BY <2>1, <2>2, SumOfWithout
    <2>5. SumOf(h, s \ {x}) = SumOf(f, s \ {x}) BY <1>2, <2>1
    <2> QED BY <2>1, <2>3, <2>4, <2>5
  <1>3. S \in Good
    <2> HIDE DEF Good
    <2> QED BY <1>1, <1>2, SetInduction
  <1> QED BY <1>3

\* Adding the same to every number adds as many times that to the sum.
LEMMA SumShift ==
  ASSUME NEW S, IsFiniteSet(S), NEW f, NEW h, NEW d \in Int, \A x \in S : f[x] \in Int /\ h[x] = f[x] + d
  PROVE  SumOf(f, S) \in Int /\ SumOf(h, S) = SumOf(f, S) + Cardinality(S) * d
  <1> DEFINE Good == {s \in SUBSET S : SumOf(h, s) = SumOf(f, s) + Cardinality(s) * d}
  <1>1. {} \in Good
    <2>1. SumOf(h, {}) = 0 /\ SumOf(f, {}) = 0 BY SumOfNone
    <2>2. Cardinality({}) = 0 BY FS_EmptySet
    <2> QED BY <2>1, <2>2
  <1>2. ASSUME NEW s \in SUBSET S, s # {}, \A x \in s : s \ {x} \in Good PROVE s \in Good
    <2>1. PICK x : x \in s BY <1>2
    <2>2. IsFiniteSet(s) /\ (\A y \in s : f[y] \in Int) /\ (\A y \in s : h[y] \in Int) BY FS_Subset
    <2>3. SumOf(f, s \ {x}) \in Int /\ SumOf(f, s) = f[x] + SumOf(f, s \ {x}) BY <2>1, <2>2, SumOfWithout
    <2>4. SumOf(h, s) = h[x] + SumOf(h, s \ {x}) BY <2>1, <2>2, SumOfWithout
    <2>5. SumOf(h, s \ {x}) = SumOf(f, s \ {x}) + Cardinality(s \ {x}) * d BY <1>2, <2>1
    <2>6. PICK n \in Nat : n = Cardinality(s \ {x}) /\ Cardinality(s) = n + 1 BY <2>1, <2>2, OneFewer
    <2>7. PICK p \in Int : p = n * d /\ (n + 1) * d = p + d
      <3>1. n * d \in Int /\ (n + 1) * d = n * d + d OBVIOUS
      <3> QED BY <3>1
    <2>8. SumOf(h, s) = SumOf(f, s) + (n + 1) * d
      <3>1. f[x] \in Int /\ h[x] = f[x] + d BY <2>1
      <3>2. SumOf(h, s \ {x}) = SumOf(f, s \ {x}) + p BY <2>5, <2>6, <2>7
      <3> QED BY <2>3, <2>4, <2>7, <3>1, <3>2
    <2> QED BY <2>6, <2>8
  <1>3. S \in Good
    <2> HIDE DEF Good
    <2> QED BY <1>1, <1>2, SetInduction
  <1> QED BY <1>3, SumOfWithout

\* The sum of one number.
LEMMA SumOne == ASSUME NEW f, NEW x, f[x] \in Int PROVE SumOf(f, {x}) = f[x]
  <1>1. IsFiniteSet({x}) BY FS_Singleton
  <1>2. PICK U, V : U = {x} /\ V = U \ {x} /\ V = {} OBVIOUS
  <1>3. SumOf(f, U) = f[x] + SumOf(f, V) BY <1>1, <1>2, SumOfWithout
  <1>4. SumOf(f, V) = 0 BY <1>2, SumOfNone
  <1> QED BY <1>2, <1>3, <1>4

\* A sum split in two.
LEMMA SumUnion ==
  ASSUME NEW S, NEW T, IsFiniteSet(S), IsFiniteSet(T), S \cap T = {}, NEW f, \A x \in S \cup T : f[x] \in Int
  PROVE  SumOf(f, S \cup T) = SumOf(f, S) + SumOf(f, T)
  <1> DEFINE Good == {s \in SUBSET S : SumOf(f, s \cup T) = SumOf(f, s) + SumOf(f, T)}
  <1>0. SumOf(f, T) \in Int BY SumOfWithout
  <1>1. {} \in Good
    <2>1. SumOf(f, {}) = 0 BY SumOfNone
    <2>2. {} \cup T = T OBVIOUS
    <2>3. SumOf(f, T) = 0 + SumOf(f, T) BY <1>0
    <2> QED BY <2>1, <2>2, <2>3
  <1>2. ASSUME NEW s \in SUBSET S, s # {}, \A x \in s : s \ {x} \in Good PROVE s \in Good
    <2>1. PICK x : x \in s BY <1>2
    <2>2. IsFiniteSet(s) /\ (\A y \in s : f[y] \in Int) BY FS_Subset
    <2>3. IsFiniteSet(s \cup T) BY <2>2, FS_Union
    <2>4. SumOf(f, s \ {x}) \in Int /\ SumOf(f, s) = f[x] + SumOf(f, s \ {x}) BY <2>1, <2>2, SumOfWithout
    <2>5. SumOf(f, s \cup T) = f[x] + SumOf(f, (s \cup T) \ {x})
      <3>1. PICK U : U = s \cup T OBVIOUS
      <3>2. IsFiniteSet(U) /\ x \in U /\ \A y \in U : f[y] \in Int BY <2>1, <2>3, <3>1
      <3>3. SumOf(f, U) = f[x] + SumOf(f, U \ {x}) BY ONLY <3>2, SumOfWithout
      <3> QED BY <3>1, <3>3
    <2>6. PICK W : W = (s \cup T) \ {x} OBVIOUS
    <2>7. SumOf(f, W) = SumOf(f, s \ {x}) + SumOf(f, T)
      <3>1. W = (s \ {x}) \cup T BY <2>1, <2>6
      <3>2. SumOf(f, (s \ {x}) \cup T) = SumOf(f, s \ {x}) + SumOf(f, T) BY <1>2, <2>1
      <3> QED BY <3>1, <3>2
    <2>8. f[x] \in Int BY <2>1, <2>2
    <2>9. SumOf(f, s \cup T) = SumOf(f, s) + SumOf(f, T) BY <1>0, <2>4, <2>5, <2>6, <2>7, <2>8
    <2> QED BY <2>9
  <1>3. S \in Good
    <2> HIDE DEF Good
    <2> QED BY <1>1, <1>2, SetInduction
  <1> QED BY <1>3

\* A sum of zeros is zero, and zeros need not be added.
LEMMA SumZeros ==
  ASSUME NEW S, IsFiniteSet(S), NEW f, \A x \in S : f[x] = 0
  PROVE  SumOf(f, S) = 0
  <1> DEFINE Good == {s \in SUBSET S : SumOf(f, s) = 0}
  <1>1. {} \in Good
    <2>1. SumOf(f, {}) = 0 BY SumOfNone
    <2> QED BY <2>1
  <1>2. ASSUME NEW s \in SUBSET S, s # {}, \A x \in s : s \ {x} \in Good PROVE s \in Good
    <2>1. PICK x : x \in s BY <1>2
    <2>2. IsFiniteSet(s) /\ (\A y \in s : f[y] \in Int) BY FS_Subset
    <2>3. SumOf(f, s) = f[x] + SumOf(f, s \ {x}) BY <2>1, <2>2, SumOfWithout
    <2>4. f[x] = 0 /\ SumOf(f, s \ {x}) = 0 BY <1>2, <2>1
    <2>5. SumOf(f, s) = 0 BY <2>3, <2>4
    <2> QED BY <2>5
  <1>3. S \in Good
    <2> HIDE DEF Good
    <2> QED BY <1>1, <1>2, SetInduction
  <1> QED BY <1>3

\* A sum may leave out what is zero.
LEMMA SumSkip ==
  ASSUME NEW S, IsFiniteSet(S), NEW T \in SUBSET S, NEW f, \A x \in T : f[x] \in Int, \A x \in S \ T : f[x] = 0
  PROVE  SumOf(f, S) = SumOf(f, T)
  <1>1. IsFiniteSet(T) /\ IsFiniteSet(S \ T) BY FS_Subset
  <1>2. SumOf(f, S \ T) = 0 BY <1>1, SumZeros
  <1>3. T \cap (S \ T) = {} /\ T \cup (S \ T) = S OBVIOUS
  <1>4. PICK U : U = S \ T OBVIOUS
  <1>5. \A x \in T \cup U : f[x] \in Int BY <1>4
  <1>6. T \cap U = {} /\ T \cup U = S BY <1>3, <1>4
  <1>7. SumOf(f, S) = SumOf(f, T) + SumOf(f, U)
    <2>1. SumOf(f, T \cup U) = SumOf(f, T) + SumOf(f, U) BY <1>1, <1>4, <1>6, <1>5, SumUnion
    <2> QED BY <1>6, <2>1
  <1>8. SumOf(f, T) \in Int BY <1>1, SumOfWithout
  <1> QED BY <1>2, <1>4, <1>7, <1>8

\* A sum along a renaming of what is summed.
LEMMA SumAlong ==
  ASSUME NEW S, IsFiniteSet(S), NEW f, \A x \in S : f[x] \in Int,
         NEW m, \A x, y \in S : m[x] = m[y] => x = y, NEW h, \A x \in S : h[m[x]] = f[x]
  PROVE  SumOf(h, {m[x] : x \in S}) = SumOf(f, S)
  <1> DEFINE Image(s) == {m[x] : x \in s}
  <1> DEFINE Good == {s \in SUBSET S : IsFiniteSet(Image(s)) /\ SumOf(h, Image(s)) = SumOf(f, s)}
  <1>1. {} \in Good
    <2>1. Image({}) = {} OBVIOUS
    <2>2. SumOf(h, {}) = 0 /\ SumOf(f, {}) = 0 BY SumOfNone
    <2>3. IsFiniteSet({}) BY FS_EmptySet
    <2> QED BY <2>1, <2>2, <2>3
  <1>2. ASSUME NEW s \in SUBSET S, s # {}, \A x \in s : s \ {x} \in Good PROVE s \in Good
    <2>1. PICK x : x \in s BY <1>2
    <2>2. IsFiniteSet(s) /\ (\A y \in s : f[y] \in Int) BY FS_Subset
    <2>3. SumOf(f, s \ {x}) \in Int /\ SumOf(f, s) = f[x] + SumOf(f, s \ {x}) BY <2>1, <2>2, SumOfWithout
    <2>4. Image(s \ {x}) = Image(s) \ {m[x]} BY <2>1
    <2>5. IsFiniteSet(Image(s \ {x})) /\ SumOf(h, Image(s \ {x})) = SumOf(f, s \ {x}) BY <1>2, <2>1
    <2>6. Image(s) = Image(s \ {x}) \cup {m[x]} BY <2>1
    <2>7. IsFiniteSet(Image(s))
      <3>1. PICK U, e : U = Image(s \ {x}) /\ e = m[x] OBVIOUS
      <3>2. IsFiniteSet(U \cup {e}) BY <2>5, <3>1, FS_AddElement
      <3> QED BY <2>6, <3>1, <3>2
    <2>8. m[x] \in Image(s) /\ \A y \in Image(s) : h[y] \in Int BY <2>1, <2>2
    <2>9. SumOf(h, Image(s)) = h[m[x]] + SumOf(h, Image(s) \ {m[x]})
      <3>1. PICK U, e : U = Image(s) /\ e = m[x] OBVIOUS
      <3>2. IsFiniteSet(U) /\ e \in U /\ \A y \in U : h[y] \in Int BY <2>7, <2>8, <3>1
      <3>3. SumOf(h, U) = h[e] + SumOf(h, U \ {e}) BY ONLY <3>2, SumOfWithout
      <3> QED BY <3>1, <3>3
    <2>10. SumOf(h, Image(s)) = SumOf(f, s) BY <2>1, <2>3, <2>4, <2>5, <2>9
    <2> QED BY <2>7, <2>10
  <1>3. S \in Good
    <2> HIDE DEF Good
    <2> QED BY <1>1, <1>2, SetInduction
  <1> QED BY <1>3

\* R[x] is the sum of row x of F.
RowSums(R, F, S, T) == \A x \in S : R[x] = SumOf([y \in T |-> F[<<x, y>>]], T)

\* A sum of sums is the sum over the pairs.
LEMMA SumOfSums ==
  ASSUME NEW S, IsFiniteSet(S), NEW T, IsFiniteSet(T), NEW F, \A x \in S, y \in T : F[<<x, y>>] \in Int,
         NEW R, RowSums(R, F, S, T)
  PROVE  SumOf(F, S \X T) = SumOf(R, S)
  <1> USE DEF RowSums
  <1> DEFINE Good == {s \in SUBSET S : SumOf(F, s \X T) = SumOf(R, s)}
  <1>0. ASSUME NEW x \in S PROVE R[x] \in Int /\ IsFiniteSet({x} \X T) /\ SumOf(F, {x} \X T) = R[x]
    <2>1. PICK f : f = [y \in T |-> F[<<x, y>>]] OBVIOUS
    <2>2. PICK m : m = [y \in T |-> <<x, y>>] OBVIOUS
    <2>3. {m[y] : y \in T} = {x} \X T BY <2>2
    <2>4. \A y \in T : f[y] \in Int /\ F[m[y]] = f[y] BY <2>1, <2>2
    <2>5. \A y, z \in T : m[y] = m[z] => y = z BY <2>2
    <2>6. SumOf(F, {m[y] : y \in T}) = SumOf(f, T) BY <2>4, <2>5, SumAlong
    <2>7. R[x] = SumOf(f, T) /\ SumOf(f, T) \in Int BY <2>1, <2>4, SumOfWithout
    <2>8. IsFiniteSet({x} \X T) BY FS_Singleton, FS_Product
    <2> QED BY <2>3, <2>6, <2>7, <2>8
  <1>1. {} \in Good
    <2>1. SumOf(F, {}) = 0 /\ SumOf(R, {}) = 0 BY SumOfNone
    <2>2. {} \X T = {} OBVIOUS
    <2> QED BY <2>1, <2>2
  <1>2. ASSUME NEW s \in SUBSET S, s # {}, \A x \in s : s \ {x} \in Good PROVE s \in Good
    <2>1. PICK x : x \in s BY <1>2
    <2>2. IsFiniteSet(s) /\ IsFiniteSet(s \ {x}) /\ (\A y \in s : R[y] \in Int) BY <1>0, FS_Subset
    <2>3. SumOf(R, s \ {x}) \in Int /\ SumOf(R, s) = R[x] + SumOf(R, s \ {x}) BY <2>1, <2>2, SumOfWithout
    <2>4. PICK U, V : U = (s \ {x}) \X T /\ V = {x} \X T OBVIOUS
    <2>5. IsFiniteSet(U) /\ IsFiniteSet(V) BY <1>0, <2>1, <2>2, <2>4, FS_Product
    <2>6. U \cap V = {} /\ U \cup V = s \X T BY <2>1, <2>4
    <2>7. \A p \in U \cup V : F[p] \in Int BY <2>1, <2>6
    <2>8. SumOf(F, U \cup V) = SumOf(F, U) + SumOf(F, V) BY <2>5, <2>6, <2>7, SumUnion
    <2>9. SumOf(F, U) = SumOf(R, s \ {x}) BY <1>2, <2>1, <2>4
    <2>10. SumOf(F, V) = R[x] /\ R[x] \in Int BY <1>0, <2>1, <2>4
    <2>11. PICK W : W = s \X T OBVIOUS
    <2>12. W = U \cup V BY <2>6, <2>11
    <2>13. SumOf(F, W) = SumOf(R, s) BY <2>3, <2>8, <2>9, <2>10, <2>12
    <2> QED BY <2>11, <2>13
  <1>3. S \in Good
    <2> HIDE DEF Good
    <2> QED BY <1>1, <1>2, SetInduction
  <1> QED BY <1>3

\* P[t] is the sum of f over part t of S.
PartSums(P, f, S, part, T) == \A t \in T : P[t] = SumOf(f, {x \in S : part[x] = t})

\* What is summed by parts is summed once, when every element is in one part.
LEMMA SumByPart ==
  ASSUME NEW S, IsFiniteSet(S), NEW f, \A x \in S : f[x] \in Int,
         NEW T, IsFiniteSet(T), NEW part, \A x \in S : part[x] \in T,
         NEW P, PartSums(P, f, S, part, T)
  PROVE  SumOf(P, T) = SumOf(f, S)
  <1> USE DEF PartSums
  <1> DEFINE Parts(u) == {x \in S : part[x] \in u}
             Good == {u \in SUBSET T : SumOf(P, u) = SumOf(f, Parts(u))}
  <1>1. ASSUME NEW U \in SUBSET S PROVE IsFiniteSet(U) /\ SumOf(f, U) \in Int
    <2>1. IsFiniteSet(U) BY FS_Subset
    <2> QED BY <2>1, SumOfWithout
  <1>2. ASSUME NEW t \in T PROVE P[t] \in Int
    <2>1. {x \in S : part[x] = t} \in SUBSET S OBVIOUS
    <2> QED BY <1>1, <2>1
  <1>3. {} \in Good
    <2>1. SumOf(P, {}) = 0 /\ SumOf(f, {}) = 0 BY SumOfNone
    <2>2. Parts({}) = {} OBVIOUS
    <2> QED BY <2>1, <2>2
  <1>4. ASSUME NEW u \in SUBSET T, u # {}, \A t \in u : u \ {t} \in Good PROVE u \in Good
    <2>1. PICK t : t \in u BY <1>4
    <2>2. IsFiniteSet(u) /\ (\A y \in u : P[y] \in Int) BY <1>2, FS_Subset
    <2>3. SumOf(P, u) = P[t] + SumOf(P, u \ {t}) BY <2>1, <2>2, SumOfWithout
    <2>4. PICK U, V : U = Parts(u \ {t}) /\ V = {x \in S : part[x] = t} OBVIOUS
    <2>5. SumOf(P, u \ {t}) = SumOf(f, U) BY <1>4, <2>1, <2>4
    <2>6. P[t] = SumOf(f, V) BY <2>1, <2>4
    <2>7. U \in SUBSET S /\ V \in SUBSET S /\ U \cap V = {} BY <2>4
    <2>8. IsFiniteSet(U) /\ IsFiniteSet(V) /\ SumOf(f, U) \in Int /\ SumOf(f, V) \in Int BY <1>1, <2>7
    <2>9. SumOf(f, U \cup V) = SumOf(f, U) + SumOf(f, V) BY <2>7, <2>8, SumUnion
    <2>10. PICK W : W = Parts(u) OBVIOUS
    <2>11. W = U \cup V BY <2>1, <2>4, <2>10
    <2>12. SumOf(P, u) = SumOf(f, W) BY <2>3, <2>5, <2>6, <2>8, <2>9, <2>11
    <2> QED BY <2>10, <2>12
  <1>5. T \in Good
    <2> HIDE DEF Good
    <2> QED BY <1>3, <1>4, SetInduction
  <1>6. Parts(T) = S OBVIOUS
  <1> QED BY <1>5, <1>6

\* Ones are counted.
LEMMA SumOfOnes ==
  ASSUME NEW S, IsFiniteSet(S), NEW f, \A x \in S : f[x] \in {0, 1}
  PROVE  SumOf(f, S) = Cardinality({x \in S : f[x] = 1})
  <1>1. PICK T \in SUBSET S : T = {x \in S : f[x] = 1} OBVIOUS
  <1>2. IsFiniteSet(T) /\ Cardinality(T) \in Nat BY FS_Subset, FS_CardinalityType
  <1>3. SumOf(f, S) = SumOf(f, T)
    <2>1. (\A x \in T : f[x] \in Int) /\ (\A x \in S \ T : f[x] = 0) BY <1>1
    <2> QED BY <2>1, SumSkip
  <1>4. PICK z : z = [x \in T |-> 0] OBVIOUS
  <1>5. SumOf(z, T) = 0
    <2>1. \A x \in T : z[x] = 0 BY <1>4
    <2> QED BY <1>2, <2>1, SumZeros
  <1>6. SumOf(f, T) = SumOf(z, T) + Cardinality(T) * 1
    <2>1. \A x \in T : z[x] \in Int /\ f[x] = z[x] + 1 BY <1>1, <1>4
    <2> QED BY <1>2, <2>1, SumShift
  <1> QED BY <1>1, <1>2, <1>3, <1>5, <1>6

\* What is nowhere above zero does not add up to more.
LEMMA SumNotAbove ==
  ASSUME NEW S, IsFiniteSet(S), NEW f, \A x \in S : f[x] \in Int /\ f[x] <= 0
  PROVE  SumOf(f, S) \in Int /\ SumOf(f, S) <= 0
  <1> DEFINE Good == {s \in SUBSET S : SumOf(f, s) \in Int /\ SumOf(f, s) <= 0}
  <1>1. {} \in Good
    <2>1. SumOf(f, {}) = 0 BY SumOfNone
    <2> QED BY <2>1
  <1>2. ASSUME NEW s \in SUBSET S, s # {}, \A x \in s : s \ {x} \in Good PROVE s \in Good
    <2>1. PICK x : x \in s BY <1>2
    <2>2. IsFiniteSet(s) /\ (\A y \in s : f[y] \in Int) BY FS_Subset
    <2>3. SumOf(f, s) = f[x] + SumOf(f, s \ {x}) BY <2>1, <2>2, SumOfWithout
    <2>4. PICK a \in Int, b \in Int : a = f[x] /\ b = SumOf(f, s \ {x}) /\ a <= 0 /\ b <= 0 BY <1>2, <2>1
    <2>5. a + b \in Int /\ a + b <= 0 BY <2>4
    <2> QED BY <2>3, <2>4, <2>5
  <1>3. S \in Good
    <2> HIDE DEF Good
    <2> QED BY <1>1, <1>2, SetInduction
  <1> QED BY <1>3
=============================================================================
