--------------------------- MODULE DataInduction ---------------------------
(***************************************************************************)
(* Induction over finite sets and numbers, and what folds compute.  The    *)
(* induction theorems of the library quantify over predicates; here the    *)
(* predicate is the set of what satisfies it, and the proofs look for the  *)
(* smallest element outside that set.                                      *)
(***************************************************************************)
EXTENDS SequencesExt, FiniteSetTheorems, SequenceTheorems, TLAPS

-----------------------------------------------------------------------------
(* INDUCTION                                                               *)

(* A set of subsets of a finite set has a minimal element.                 *)
LEMMA SmallestSubset ==
    ASSUME NEW S, IsFiniteSet(S), NEW T, T \subseteq SUBSET S, T # {}
    PROVE  \E X \in T : \A Y \in T : Y \subseteq X => Y = X
  <1>1. IsWellFoundedOn(StrictSubsetOrdering(S), SUBSET S)
    BY FS_StrictSubsetOrderingWellFounded, FS_FiniteSubsetsOfFinite
  <1>2. PICK X \in T : \A Y \in T : <<Y, X>> \notin StrictSubsetOrdering(S)
    BY <1>1, WFMin
  <1> QED
    BY <1>2 DEF StrictSubsetOrdering

(* Induction over the subsets of a finite set.                             *)
LEMMA SubsetInduction ==
    ASSUME NEW S, IsFiniteSet(S), NEW Good, {} \in Good,
           \A s \in SUBSET S : s # {} /\ (\A x \in s : s \ {x} \in Good) => s \in Good
    PROVE  S \in Good
  <1> DEFINE Bad == (SUBSET S) \ Good
  <1> SUFFICES ASSUME Bad # {} PROVE FALSE
    OBVIOUS
  <1>1. PICK s \in Bad : \A t \in Bad : t \subseteq s => t = s
    <2>1. Bad \subseteq SUBSET S
      OBVIOUS
    <2> HIDE DEF Bad
    <2> QED
      BY <2>1, SmallestSubset
  <1>2. \A x \in s : s \ {x} \in Good
    BY <1>1
  <1> QED
    BY <1>2

(* Induction up to a number.                                               *)
LEMMA UpwardInduction ==
    ASSUME NEW n \in Nat, NEW Good, 0 \in Good,
           \A k \in 0 .. (n - 1) : k \in Good => k + 1 \in Good
    PROVE  \A k \in 0 .. n : k \in Good
  <1> DEFINE All == 0 .. n
             Bad == {s \in SUBSET All : \E k \in 0 .. n : k \notin Good /\ s = 0 .. k}
  <1> SUFFICES ASSUME NEW k \in 0 .. n, k \notin Good PROVE FALSE
    OBVIOUS
  <1>1. 0 .. k \in Bad /\ Bad # {} /\ Bad \subseteq SUBSET All
    OBVIOUS
  <1>2. IsFiniteSet(All)
    BY FS_Interval
  <1>3. PICK s \in Bad : \A t \in Bad : t \subseteq s => t = s
    <2> HIDE DEF Bad, All
    <2> QED
      BY <1>1, <1>2, SmallestSubset
  <1>4. PICK m \in 0 .. n : m \notin Good /\ s = 0 .. m
    BY <1>3
  <1>5. m # 0 /\ m - 1 \in 0 .. (n - 1)
    BY <1>4
  <1>6. m - 1 \notin Good
    BY <1>4, <1>5
  <1>7. 0 .. (m - 1) \in Bad
    BY <1>5, <1>6
  <1>8. 0 .. (m - 1) \subseteq s /\ m \in s /\ m \notin 0 .. (m - 1)
    BY <1>4, <1>5
  <1> QED
    BY <1>3, <1>7, <1>8

-----------------------------------------------------------------------------
(* FOLDS                                                                   *)

(* A fold takes one element after the other out of a set, as pick says, and*)
(* from the value of the rest makes that of the whole by a step.           *)
PicksFrom(pick, S) == \A s \in SUBSET S : s # {} => pick[s] \in s
StepsInto(step, S, V) == \A x \in S, v \in V : step[x][v] \in V
FoldedBy(g, S, V, base, pick, step) ==
    /\ g \in [SUBSET S -> V]
    /\ \A s \in SUBSET S :
          g[s] = IF s = {} THEN base ELSE step[pick[s]][g[s \ {pick[s]}]]

(* The recursion by which a fold is defined has a solution: the solutions  *)
(* for the subsets of up to n elements, by induction on n.                 *)
LEMMA FoldExists ==
    ASSUME NEW S, IsFiniteSet(S), NEW V, NEW base \in V,
           NEW pick, PicksFrom(pick, S), NEW step, StepsInto(step, S, V)
    PROVE  \E g : FoldedBy(g, S, V, base, pick, step)
  <1> USE DEF PicksFrom, StepsInto
  <1> DEFINE Upto(n) == {s \in SUBSET S : Cardinality(s) <= n}
             Val(s, g) == IF s = {} THEN base ELSE step[pick[s]][g[s \ {pick[s]}]]
             Solves(n) == \E g \in [Upto(n) -> V] : \A s \in Upto(n) : g[s] = Val(s, g)
             Good == {n \in Nat : Solves(n)}
  <1>1. \A s \in SUBSET S : /\ IsFiniteSet(s) /\ Cardinality(s) \in Nat
                            /\ Cardinality(s) <= Cardinality(S)
    BY FS_Subset, FS_CardinalityType
  <1>2. Solves(0)
    <2>1. \A s \in Upto(0) : s = {}
      BY ONLY <1>1, FS_EmptySet
    <2> DEFINE g == [s \in Upto(0) |-> base]
    <2>2. g \in [Upto(0) -> V] /\ \A s \in Upto(0) : g[s] = Val(s, g)
      BY <2>1
    <2> HIDE DEF g, Upto
    <2> QED
      BY <2>2
  <1>3. ASSUME NEW n \in Nat, Solves(n) PROVE Solves(n + 1)
    <2>1. PICK h \in [Upto(n) -> V] : \A s \in Upto(n) : h[s] = Val(s, h)
      BY <1>3
    <2>2. \A s \in Upto(n + 1) : s # {} =>
             s \ {pick[s]} \in Upto(n) /\ s \ {pick[s]} \in Upto(n + 1)
      <3> SUFFICES ASSUME NEW s \in Upto(n + 1), s # {}
                   PROVE  s \ {pick[s]} \in Upto(n) /\ s \ {pick[s]} \in Upto(n + 1)
        OBVIOUS
      <3>1. s \in SUBSET S /\ pick[s] \in s
        OBVIOUS
      <3>2. IsFiniteSet(s) /\ Cardinality(s) \in Nat /\ Cardinality(s) <= n + 1
        BY <1>1
      <3>3. Cardinality(s \ {pick[s]}) = Cardinality(s) - 1
        BY ONLY <3>1, <3>2, FS_RemoveElement
      <3> QED
        BY ONLY <3>1, <3>2, <3>3, n \in Nat
    <2> DEFINE g == [s \in Upto(n + 1) |-> Val(s, h)]
    <2>3. \A s \in Upto(n + 1) : Val(s, h) \in V
      <3>1. \A s \in Upto(n + 1) : s # {} => h[s \ {pick[s]}] \in V /\ pick[s] \in S
        <4> HIDE DEF Upto
        <4>1. \A s \in Upto(n + 1) : s \in SUBSET S
          BY DEF Upto
        <4> QED
          BY <2>2, <4>1
      <3> QED
        BY <3>1
    <2>4. \A s \in Upto(n) : s \in Upto(n + 1) => g[s] = h[s]
      BY <2>1
    <2>5. \A s \in Upto(n + 1) : Val(s, h) = Val(s, g)
      <3> HIDE DEF g, Upto
      <3> QED
        BY <2>2, <2>4
    <2>6. g \in [Upto(n + 1) -> V] /\ \A s \in Upto(n + 1) : g[s] = Val(s, g)
      BY <2>3, <2>5
    <2> HIDE DEF g
    <2> QED
      BY <2>6
  <1> HIDE DEF Solves
  <1>4. Cardinality(S) \in 0 .. Cardinality(S) /\ Cardinality(S) \in Nat
    BY <1>1
  <1>5. 0 \in Good /\ \A k \in 0 .. (Cardinality(S) - 1) : k \in Good => k + 1 \in Good
    BY <1>2, <1>3
  <1>6. Cardinality(S) \in Good
    <2> HIDE DEF Good
    <2> QED
      BY <1>4, <1>5, UpwardInduction
  <1>7. Upto(Cardinality(S)) = SUBSET S
    BY <1>1
  <1>8. Solves(Cardinality(S))
    BY <1>6
  <1> HIDE DEF Upto
  <1> QED
    BY <1>7, <1>8 DEF Solves, FoldedBy

-----------------------------------------------------------------------------
(* SUMS of natural numbers over a finite set: SumFunctionOnSet is a fold   *)
(* that takes the elements of the set in an order of its own.              *)

FirstOf(s) == CHOOSE x \in s : TRUE

(* What the recursion of a sum computes for one set.                       *)
SumOf(f, s, g) == IF s = {} THEN 0 ELSE f[FirstOf(s)] + g[s \ {FirstOf(s)}]

LEMMA SumIs ==
    ASSUME NEW S, IsFiniteSet(S), NEW f, \A x \in S : f[x] \in Nat
    PROVE  \E g : /\ g = [s \in SUBSET S |-> SumOf(f, s, g)]
                  /\ SumFunctionOnSet(f, S) = g[S]
  <1> DEFINE pick == [s \in SUBSET S |-> FirstOf(s)]
             step == [x \in S |-> [v \in Nat |-> f[x] + v]]
  <1>1. \A s \in SUBSET S : s # {} => FirstOf(s) \in s /\ FirstOf(s) \in S /\ pick[s] = FirstOf(s)
    BY DEF FirstOf
  <1>2. \A x \in S, v \in Nat : step[x][v] = f[x] + v /\ step[x][v] \in Nat
    OBVIOUS
  <1> HIDE DEF pick, step
  <1>3. PICK g \in [SUBSET S -> Nat] : \A s \in SUBSET S :
             g[s] = IF s = {} THEN 0 ELSE step[pick[s]][g[s \ {pick[s]}]]
    <2>1. PicksFrom(pick, S) /\ StepsInto(step, S, Nat) /\ 0 \in Nat
      BY <1>1, <1>2 DEF PicksFrom, StepsInto
    <2>2. \E g : FoldedBy(g, S, Nat, 0, pick, step)
      BY <2>1, FoldExists
    <2> QED
      BY <2>2 DEF FoldedBy
  <1>4. \A s \in SUBSET S : g[s] = SumOf(f, s, g)
    <2> SUFFICES ASSUME NEW s \in SUBSET S PROVE g[s] = SumOf(f, s, g)
      OBVIOUS
    <2>1. CASE s = {}
      BY <1>3, <2>1 DEF SumOf
    <2>2. CASE s # {}
      <3>1. g[s] = step[FirstOf(s)][g[s \ {FirstOf(s)}]]
        BY <1>1, <1>3, <2>2
      <3>2. FirstOf(s) \in S /\ g[s \ {FirstOf(s)}] \in Nat
        BY <1>1, <2>2
      <3> QED
        BY <1>2, <2>2, <3>1, <3>2 DEF SumOf
    <2> QED
      BY <2>1, <2>2
  <1>5. g = [s \in SUBSET S |-> SumOf(f, s, g)]
    BY <1>4
  <1> DEFINE iter == CHOOSE it : it = [s \in SUBSET S |-> SumOf(f, s, it)]
  <1>6. iter = [s \in SUBSET S |-> SumOf(f, s, iter)]
    BY <1>5
  <1>7. SumFunctionOnSet(f, S) = iter[S]
    BY DEF SumFunctionOnSet, FoldFunctionOnSet, MapThenFoldSet, SumOf, FirstOf
  <1> QED
    BY <1>6, <1>7

LEMMA SumEmpty == ASSUME NEW f PROVE SumFunctionOnSet(f, {}) = 0
  <1>1. IsFiniteSet({})
    BY FS_EmptySet
  <1> QED
    BY <1>1, SumIs DEF SumOf

LEMMA SumStep ==
    ASSUME NEW S, IsFiniteSet(S), S # {}, NEW f, \A x \in S : f[x] \in Nat
    PROVE  SumFunctionOnSet(f, S) = f[FirstOf(S)] + SumFunctionOnSet(f, S \ {FirstOf(S)})
  <1> DEFINE R == S \ {FirstOf(S)}
  <1>0. IsFiniteSet(R)
    BY FS_Subset
  <1>1. PICK g : g = [s \in SUBSET S |-> SumOf(f, s, g)] /\ SumFunctionOnSet(f, S) = g[S]
    BY SumIs
  <1>2. PICK h : h = [s \in SUBSET R |-> SumOf(f, s, h)] /\ SumFunctionOnSet(f, R) = h[R]
    BY <1>0, SumIs
  <1> DEFINE Same == {s \in SUBSET R : g[s] = h[s]}
  <1>3. {} \in Same
    BY <1>1, <1>2 DEF SumOf
  <1>4. ASSUME NEW s \in SUBSET R, s # {}, \A x \in s : s \ {x} \in Same PROVE s \in Same
    <2>1. FirstOf(s) \in s
      BY <1>4 DEF FirstOf
    <2>2. g[s] = SumOf(f, s, g) /\ h[s] = SumOf(f, s, h)
      BY <1>1, <1>2
    <2>3. g[s \ {FirstOf(s)}] = h[s \ {FirstOf(s)}]
      BY <1>4, <2>1
    <2> QED
      BY <2>2, <2>3 DEF SumOf
  <1>5. g[R] = h[R]
    <2> HIDE DEF Same
    <2>1. R \in Same
      BY <1>0, <1>3, <1>4, SubsetInduction
    <2> QED
      BY <2>1 DEF Same
  <1>6. g[S] = f[FirstOf(S)] + g[R]
    BY <1>1 DEF SumOf
  <1> QED
    BY <1>1, <1>2, <1>5, <1>6

LEMMA SumNat ==
    ASSUME NEW S, IsFiniteSet(S), NEW f, \A x \in S : f[x] \in Nat
    PROVE  SumFunctionOnSet(f, S) \in Nat
  <1> DEFINE Good == {s \in SUBSET S : SumFunctionOnSet(f, s) \in Nat}
  <1>1. {} \in Good
    BY SumEmpty
  <1>2. ASSUME NEW s \in SUBSET S, s # {}, \A x \in s : s \ {x} \in Good PROVE s \in Good
    <2>1. FirstOf(s) \in s
      BY <1>2 DEF FirstOf
    <2>2. SumFunctionOnSet(f, s) = f[FirstOf(s)] + SumFunctionOnSet(f, s \ {FirstOf(s)})
      BY <1>2, SumStep, FS_Subset
    <2> QED
      BY <1>2, <2>1, <2>2
  <1>3. S \in Good
    <2> HIDE DEF Good
    <2> QED
      BY <1>1, <1>2, SubsetInduction
  <1> QED
    BY <1>3

(* The order does not matter: any element can be taken out first.          *)
LEMMA SumRemove ==
    ASSUME NEW S, IsFiniteSet(S), NEW f, \A x \in S : f[x] \in Nat, NEW x \in S
    PROVE  SumFunctionOnSet(f, S) = f[x] + SumFunctionOnSet(f, S \ {x})
  <1> DEFINE Good == {s \in SUBSET S : \A y \in s :
                        SumFunctionOnSet(f, s) = f[y] + SumFunctionOnSet(f, s \ {y})}
  <1>1. {} \in Good
    OBVIOUS
  <1>2. ASSUME NEW s \in SUBSET S, s # {}, \A y \in s : s \ {y} \in Good PROVE s \in Good
    <2> SUFFICES ASSUME NEW y \in s
                 PROVE  SumFunctionOnSet(f, s) = f[y] + SumFunctionOnSet(f, s \ {y})
      OBVIOUS
    <2> DEFINE z == FirstOf(s)
    <2>1. z \in s
      BY DEF FirstOf
    <2>2. \A t \in SUBSET s : IsFiniteSet(t) /\ SumFunctionOnSet(f, t) \in Nat
      BY FS_Subset, SumNat
    <2>3. SumFunctionOnSet(f, s) = f[z] + SumFunctionOnSet(f, s \ {z})
      BY <2>2, SumStep
    <2>4. CASE z = y
      BY <2>3, <2>4
    <2>5. CASE z # y
      <3> HIDE DEF z
      <3>1. SumFunctionOnSet(f, s \ {z}) = f[y] + SumFunctionOnSet(f, (s \ {z}) \ {y})
        BY <1>2, <2>1, <2>5
      <3>2. SumFunctionOnSet(f, s \ {y}) = f[z] + SumFunctionOnSet(f, (s \ {y}) \ {z})
        BY <1>2, <2>1, <2>5
      <3>3. (s \ {z}) \ {y} = (s \ {y}) \ {z}
        OBVIOUS
      <3>4. f[y] \in Nat /\ f[z] \in Nat
        BY <2>1
      <3>5. SumFunctionOnSet(f, (s \ {y}) \ {z}) \in Nat
        BY <2>2
      <3> QED
        BY <2>3, <3>1, <3>2, <3>3, <3>4, <3>5
    <2> QED
      BY <2>4, <2>5
  <1>3. S \in Good
    <2> HIDE DEF Good
    <2> QED
      BY <1>1, <1>2, SubsetInduction
  <1> QED
    BY <1>3

LEMMA SumAdd ==
    ASSUME NEW S, IsFiniteSet(S), NEW f, NEW x, x \notin S,
           \A y \in S \cup {x} : f[y] \in Nat
    PROVE  SumFunctionOnSet(f, S \cup {x}) = SumFunctionOnSet(f, S) + f[x]
  <1>1. IsFiniteSet(S \cup {x})
    BY FS_AddElement
  <1>2. (S \cup {x}) \ {x} = S
    OBVIOUS
  <1>3. SumFunctionOnSet(f, S \cup {x}) = f[x] + SumFunctionOnSet(f, S)
    BY <1>1, <1>2, SumRemove
  <1>4. SumFunctionOnSet(f, S) \in Nat
    BY SumNat
  <1> QED
    BY <1>3, <1>4

LEMMA SumMonotone ==
    ASSUME NEW S, IsFiniteSet(S), NEW f, NEW g,
           \A x \in S : f[x] \in Nat /\ g[x] \in Nat /\ f[x] <= g[x]
    PROVE  SumFunctionOnSet(f, S) <= SumFunctionOnSet(g, S)
  <1> DEFINE Good == {s \in SUBSET S : SumFunctionOnSet(f, s) <= SumFunctionOnSet(g, s)}
  <1>1. {} \in Good
    BY SumEmpty
  <1>2. ASSUME NEW s \in SUBSET S, s # {}, \A x \in s : s \ {x} \in Good PROVE s \in Good
    <2> DEFINE R == s \ {FirstOf(s)}
    <2>1. FirstOf(s) \in s
      BY <1>2 DEF FirstOf
    <2>2. SumFunctionOnSet(f, R) <= SumFunctionOnSet(g, R)
      BY <1>2, <2>1
    <2>3. IsFiniteSet(s) /\ IsFiniteSet(R)
      BY FS_Subset
    <2>4. SumFunctionOnSet(f, R) \in Nat /\ SumFunctionOnSet(g, R) \in Nat
      BY <2>3, SumNat
    <2>5. /\ SumFunctionOnSet(f, s) = f[FirstOf(s)] + SumFunctionOnSet(f, R)
          /\ SumFunctionOnSet(g, s) = g[FirstOf(s)] + SumFunctionOnSet(g, R)
      BY <1>2, <2>3, SumStep
    <2>6. f[FirstOf(s)] \in Nat /\ g[FirstOf(s)] \in Nat /\ f[FirstOf(s)] <= g[FirstOf(s)]
      BY <2>1
    <2> HIDE DEF R
    <2> QED
      BY <2>2, <2>4, <2>5, <2>6
  <1>3. S \in Good
    <2> HIDE DEF Good
    <2> QED
      BY <1>1, <1>2, SubsetInduction
  <1> QED
    BY <1>3

(* A subset sums up to no more.                                            *)
LEMMA SumSubset ==
    ASSUME NEW S, IsFiniteSet(S), NEW f, \A x \in S : f[x] \in Nat, NEW T \in SUBSET S
    PROVE  SumFunctionOnSet(f, T) <= SumFunctionOnSet(f, S)
  <1> DEFINE Good == {s \in SUBSET S : \A t \in SUBSET s :
                         SumFunctionOnSet(f, t) <= SumFunctionOnSet(f, s)}
  <1>1. {} \in Good
    BY SumEmpty
  <1>2. ASSUME NEW s \in SUBSET S, s # {}, \A x \in s : s \ {x} \in Good PROVE s \in Good
    <2> SUFFICES ASSUME NEW t \in SUBSET s
                 PROVE  SumFunctionOnSet(f, t) <= SumFunctionOnSet(f, s)
      OBVIOUS
    <2>1. \A u \in SUBSET s : IsFiniteSet(u) /\ SumFunctionOnSet(f, u) \in Nat
      BY FS_Subset, SumNat
    <2>2. CASE t = s
      BY <2>1, <2>2
    <2>3. CASE t # s
      <3>1. PICK x \in s : x \notin t
        BY <2>3
      <3>2. SumFunctionOnSet(f, t) <= SumFunctionOnSet(f, s \ {x})
        BY <1>2, <3>1
      <3>3. SumFunctionOnSet(f, s) = f[x] + SumFunctionOnSet(f, s \ {x})
        BY <2>1, <3>1, SumRemove
      <3>4. f[x] \in Nat /\ SumFunctionOnSet(f, s \ {x}) \in Nat /\ SumFunctionOnSet(f, t) \in Nat
        BY <2>1
      <3> QED
        BY <3>2, <3>3, <3>4
    <2> QED
      BY <2>2, <2>3
  <1>3. S \in Good
    <2> HIDE DEF Good
    <2> QED
      BY <1>1, <1>2, SubsetInduction
  <1> QED
    BY <1>3

-----------------------------------------------------------------------------
(* LOOPS.  FoldLeft takes the last index first: the value for the first k  *)
(* indices is made from that for the first k - 1.                          *)

LastIndex(n) == [s \in SUBSET (1 .. n) |-> Max(s)]

LEMMA LastIndexIn == ASSUME NEW n \in Nat PROVE PicksFrom(LastIndex(n), 1 .. n)
  <1> DEFINE Good == {k \in 0 .. n : \A s \in SUBSET (1 .. k) :
                         s # {} => \E x \in s : \A y \in s : x >= y}
  <1>1. 0 \in Good
    <2>1. 0 \in 0 .. n
      OBVIOUS
    <2>2. ASSUME NEW s \in SUBSET (1 .. 0), s # {} PROVE FALSE
      <3>1. PICK x \in s : TRUE
        BY <2>2
      <3>2. x \in Int /\ 1 <= x /\ x <= 0
        BY <3>1
      <3> QED
        BY <3>2
    <2> QED
      BY ONLY <2>1, <2>2
  <1>2. ASSUME NEW k \in 0 .. (n - 1), k \in Good PROVE k + 1 \in Good
    <2> SUFFICES ASSUME NEW s \in SUBSET (1 .. (k + 1)), s # {}
                 PROVE  \E x \in s : \A y \in s : x >= y
      OBVIOUS
    <2>1. CASE k + 1 \in s
      BY <2>1
    <2>2. CASE k + 1 \notin s
      BY <1>2, <2>2
    <2> QED
      BY <2>1, <2>2
  <1>3. n \in Good
    <2> HIDE DEF Good
    <2> QED
      BY <1>1, <1>2, UpwardInduction
  <1>4. \A s \in SUBSET (1 .. n) : s # {} => Max(s) \in s
    BY <1>3 DEF Max
  <1> QED
    BY <1>4 DEF PicksFrom, LastIndex

LEMMA LastOfFirst ==
    ASSUME NEW k \in Nat, k # 0
    PROVE  /\ Max(1 .. k) = k
           /\ (1 .. k) \ {k} = 1 .. (k - 1)
  <1>1. k \in 1 .. k /\ \A y \in 1 .. k : k >= y
    OBVIOUS
  <1>2. \A x \in 1 .. k : (\A y \in 1 .. k : x >= y) => x = k
    BY <1>1
  <1> QED
    BY <1>1, <1>2 DEF Max

LoopsOver(g, n, V, base, step) ==
    /\ g \in [SUBSET (1 .. n) -> V]
    /\ g[{}] = base
    /\ \A s \in SUBSET (1 .. n) : s # {} =>
          /\ Max(s) \in 1 .. n /\ g[s \ {Max(s)}] \in V
          /\ g[s] = step[Max(s)][g[s \ {Max(s)}]]

(* The recursion of a FoldLeft over n elements has a solution.             *)
LEMMA FoldLastExists ==
    ASSUME NEW n \in Nat, NEW V, NEW base \in V, NEW step, StepsInto(step, 1 .. n, V)
    PROVE  \E g : LoopsOver(g, n, V, base, step)
  <1>1. PicksFrom(LastIndex(n), 1 .. n) /\ IsFiniteSet(1 .. n)
    BY LastIndexIn, FS_Interval
  <1>2. PICK g : FoldedBy(g, 1 .. n, V, base, LastIndex(n), step)
    BY <1>1, FoldExists
  <1>3. \A s \in SUBSET (1 .. n) : s # {} => LastIndex(n)[s] = Max(s) /\ Max(s) \in s
    BY <1>1 DEF PicksFrom, LastIndex
  <1>4. g \in [SUBSET (1 .. n) -> V] /\ g[{}] = base
    BY <1>2 DEF FoldedBy
  <1>5. ASSUME NEW s \in SUBSET (1 .. n), s # {}
        PROVE  /\ Max(s) \in 1 .. n /\ g[s \ {Max(s)}] \in V
               /\ g[s] = step[Max(s)][g[s \ {Max(s)}]]
    BY <1>2, <1>3, <1>4, <1>5 DEF FoldedBy
  <1> QED
    BY <1>4, <1>5 DEF LoopsOver

-----------------------------------------------------------------------------
(* THE ELEMENTS of a sequence.                                             *)

LEMMA AppendElements ==
    ASSUME NEW A, NEW s \in Seq(A), NEW a \in A
    PROVE  /\ Append(s, a) \in Seq(A)
           /\ ToSet(Append(s, a)) = ToSet(s) \cup {a}
           /\ Contains(s, a) <=> a \in ToSet(s)
           /\ IsInjective(s) /\ a \notin ToSet(s) => IsInjective(Append(s, a))
  <1>1. /\ Len(s) \in Nat /\ DOMAIN s = 1 .. Len(s)
        /\ DOMAIN Append(s, a) = 1 .. (Len(s) + 1)
        /\ Append(s, a)[Len(s) + 1] = a
        /\ \A i \in 1 .. Len(s) : Append(s, a)[i] = s[i]
    OBVIOUS
  <1>2. ToSet(Append(s, a)) = ToSet(s) \cup {a}
    BY ONLY <1>1 DEF ToSet
  <1>3. Contains(s, a) <=> a \in ToSet(s)
    BY ONLY <1>1 DEF ToSet, Contains
  <1>4. IsInjective(s) /\ a \notin ToSet(s) => IsInjective(Append(s, a))
    BY ONLY <1>1 DEF ToSet, IsInjective
  <1> QED
    BY <1>2, <1>3, <1>4

LEMMA ConcatElements ==
    ASSUME NEW A, NEW s \in Seq(A), NEW t \in Seq(A)
    PROVE  /\ s \o t \in Seq(A)
           /\ ToSet(s \o t) = ToSet(s) \cup ToSet(t)
           /\ IsInjective(s) /\ IsInjective(t) /\ ToSet(s) \cap ToSet(t) = {}
                 => IsInjective(s \o t)
  <1> DEFINE m == Len(s)
             n == Len(t)
             u == s \o t
  <1>1. /\ m \in Nat /\ n \in Nat /\ DOMAIN s = 1 .. m /\ DOMAIN t = 1 .. n
        /\ DOMAIN u = 1 .. (m + n)
        /\ \A i \in 1 .. m : u[i] = s[i]
        /\ \A i \in (m + 1) .. (m + n) : u[i] = t[i - m]
    OBVIOUS
  <1> HIDE DEF m, n, u
  <1>2. \A i \in 1 .. n : i + m \in 1 .. (m + n) /\ u[i + m] = t[i]
    BY <1>1
  <1>3. \A i \in 1 .. (m + n) :
           \/ i \in 1 .. m /\ u[i] = s[i]
           \/ i - m \in 1 .. n /\ u[i] = t[i - m]
    BY <1>1
  <1>4. ToSet(u) = ToSet(s) \cup ToSet(t)
    <2>1. ToSet(u) \subseteq ToSet(s) \cup ToSet(t)
      BY ONLY <1>1, <1>3 DEF ToSet
    <2>2. ToSet(s) \subseteq ToSet(u)
      BY ONLY <1>1 DEF ToSet
    <2>3. ToSet(t) \subseteq ToSet(u)
      BY ONLY <1>1, <1>2 DEF ToSet
    <2> QED
      BY <2>1, <2>2, <2>3
  <1>5. ASSUME IsInjective(s), IsInjective(t), ToSet(s) \cap ToSet(t) = {}
        PROVE  IsInjective(u)
    <2> SUFFICES ASSUME NEW i \in 1 .. (m + n), NEW j \in 1 .. (m + n), u[i] = u[j]
                 PROVE  i = j
      BY <1>1 DEF IsInjective
    <2>1. CASE i \in 1 .. m /\ j \in 1 .. m
      BY <1>1, <1>5, <2>1 DEF IsInjective
    <2>2. CASE i - m \in 1 .. n /\ j - m \in 1 .. n
      <3>1. t[i - m] = t[j - m]
        BY <1>2, <2>2, <1>1
      <3>2. i - m = j - m
        BY <1>1, <1>5, <2>2, <3>1 DEF IsInjective
      <3> QED
        BY <1>1, <3>2
    <2>3. CASE i \in 1 .. m /\ j - m \in 1 .. n
      <3>1. u[i] = s[i] /\ u[j] = t[j - m]
        BY ONLY <1>1, <1>2, <2>3
      <3>2. s[i] \in ToSet(s) /\ t[j - m] \in ToSet(t)
        BY ONLY <1>1, <2>3 DEF ToSet
      <3> QED
        BY <1>5, <3>1, <3>2
    <2>4. CASE j \in 1 .. m /\ i - m \in 1 .. n
      <3>1. u[j] = s[j] /\ u[i] = t[i - m]
        BY ONLY <1>1, <1>2, <2>4
      <3>2. s[j] \in ToSet(s) /\ t[i - m] \in ToSet(t)
        BY ONLY <1>1, <2>4 DEF ToSet
      <3> QED
        BY <1>5, <3>1, <3>2
    <2> QED
      BY <1>3, <2>1, <2>2, <2>3, <2>4
  <1>6. s \o t \in Seq(A)
    OBVIOUS
  <1> QED
    BY <1>4, <1>5, <1>6 DEF u

LEMMA NoElements ==
    ASSUME NEW A, NEW s \in Seq(A)
    PROVE  /\ s = <<>> <=> ToSet(s) = {}
           /\ ToSet(s) \subseteq A
  <1>1. DOMAIN s = 1 .. Len(s) /\ Len(s) \in Nat /\ \A i \in 1 .. Len(s) : s[i] \in A
    OBVIOUS
  <1>2. ToSet(s) = {} => Len(s) = 0
    <2>1. Len(s) # 0 => 1 \in DOMAIN s
      BY <1>1
    <2> QED
      BY <2>1 DEF ToSet
  <1>3. s = <<>> => ToSet(s) = {}
    BY DEF ToSet
  <1>4. Len(s) = 0 => s = <<>>
    BY EmptySeq
  <1>5. ToSet(s) \subseteq A
    BY <1>1 DEF ToSet
  <1> QED
    BY <1>2, <1>3, <1>4, <1>5
=============================================================================
