---------------------------- MODULE ListingsProofs ---------------------------
(***************************************************************************)
(* The pages of a listing, for any number of rows, any times and page      *)
(* sizes: nothing is skipped, and while nothing changes they are the       *)
(* listing.  The argument: a sort of a finite set is given by the ranks of *)
(* its rows, and the offset counts ranks.                                  *)
(***************************************************************************)
EXTENDS Listings, DataInduction

-----------------------------------------------------------------------------
(* SORTING a finite set by a strict total order, a set of pairs.           *)

StrictOrder(R, S) ==
    \A a, b, c \in S :
       /\ <<a, a>> \notin R
       /\ a # b => <<a, b>> \in R \/ <<b, a>> \in R
       /\ <<a, b>> \in R /\ <<b, c>> \in R => <<a, c>> \in R

Sorts(s, S, R) ==
    /\ s \in SetToSeqs(S)
    /\ \A i, j \in 1 .. Len(s) : i < j => <<s[i], s[j]>> \in R

(* How many rows of S come before r.                                       *)
Preceding(S, R, r) == {x \in S : <<x, r>> \in R}
Rank(S, R, r) == Cardinality(Preceding(S, R, r))

LEMMA HasLast ==
    ASSUME NEW S, IsFiniteSet(S), S # {}, NEW R, StrictOrder(R, S)
    PROVE  \E m \in S : \A x \in S \ {m} : <<x, m>> \in R
  <1> DEFINE Good == {t \in SUBSET S : t = {} \/ \E m \in t : \A x \in t \ {m} : <<x, m>> \in R}
  <1>1. {} \in Good
    OBVIOUS
  <1>2. ASSUME NEW t \in SUBSET S, t # {}, \A x \in t : t \ {x} \in Good PROVE t \in Good
    <2>1. PICK y \in t : TRUE
      BY <1>2
    <2>2. CASE t \ {y} = {}
      BY <2>1, <2>2
    <2>3. CASE t \ {y} # {}
      <3>1. PICK m \in t \ {y} : \A x \in (t \ {y}) \ {m} : <<x, m>> \in R
        BY <1>2, <2>1, <2>3
      <3>2. CASE <<y, m>> \in R
        BY <3>1, <3>2
      <3>3. CASE <<y, m>> \notin R
        <4>1. <<m, y>> \in R
          BY <3>1, <3>3 DEF StrictOrder
        <4>2. \A x \in t \ {y} : <<x, y>> \in R
          BY <3>1, <4>1 DEF StrictOrder
        <4> QED
          BY <4>2
      <3> QED
        BY <3>2, <3>3
    <2> QED
      BY <2>2, <2>3
  <1>3. S \in Good
    <2> HIDE DEF Good
    <2> QED
      BY <1>1, <1>2, SubsetInduction
  <1> QED
    BY <1>3

LEMMA SortExists ==
    ASSUME NEW S, IsFiniteSet(S), NEW R, StrictOrder(R, S)
    PROVE  \E s : Sorts(s, S, R)
  <1> DEFINE Good == {t \in SUBSET S : \E s : Sorts(s, t, R)}
  <1>1. {} \in Good
    <2>1. Cardinality({}) = 0 /\ <<>> \in [1 .. 0 -> {}] /\ Len(<<>>) = 0
      BY FS_EmptySet
    <2>2. Sorts(<<>>, {}, R)
      BY <2>1 DEF Sorts, SetToSeqs
    <2> QED
      BY <2>2
  <1>2. ASSUME NEW t \in SUBSET S, t # {}, \A x \in t : t \ {x} \in Good PROVE t \in Good
    <2>1. IsFiniteSet(t) /\ StrictOrder(R, t)
      BY FS_Subset DEF StrictOrder
    <2>2. PICK m \in t : \A x \in t \ {m} : <<x, m>> \in R
      BY <1>2, <2>1, HasLast
    <2> DEFINE n == Cardinality(t \ {m})
    <2>3. PICK s : Sorts(s, t \ {m}, R)
      BY <1>2
    <2>4. Cardinality(t) = n + 1 /\ n \in Nat
      <3>1. Cardinality(t) \in Nat /\ n \in Nat
        BY <2>1, FS_Subset, FS_CardinalityType
      <3>2. n = Cardinality(t) - 1
        BY ONLY <2>1, m \in t, FS_RemoveElement
      <3> QED
        BY <3>1, <3>2
    <2>5. /\ s \in [1 .. n -> t \ {m}] /\ Len(s) = n
          /\ \A i, j \in 1 .. n : i # j => s[i] # s[j]
          /\ \A i, j \in 1 .. n : i < j => <<s[i], s[j]>> \in R
      <3>1. /\ s \in [1 .. n -> t \ {m}]
            /\ \A i, j \in 1 .. n : i # j => s[i] # s[j]
        BY <2>3 DEF Sorts, SetToSeqs
      <3> HIDE DEF n
      <3>2. Len(s) = n
        BY <2>4, <3>1
      <3> QED
        BY <2>3, <3>1, <3>2 DEF Sorts
    <2> HIDE DEF n
    <2> DEFINE u == [i \in 1 .. (n + 1) |-> IF i = n + 1 THEN m ELSE s[i]]
    <2>6. u \in [1 .. (n + 1) -> t] /\ Len(u) = n + 1
      BY <2>4, <2>5
    <2>7. \A i \in 1 .. (n + 1) :
             \/ i = n + 1 /\ u[i] = m
             \/ i \in 1 .. n /\ u[i] = s[i] /\ s[i] \in t \ {m}
      BY <2>4, <2>5
    <2> HIDE DEF u
    <2>8. \A i, j \in 1 .. (n + 1) : i # j => u[i] # u[j]
      BY <2>5, <2>7
    <2>9. ASSUME NEW i \in 1 .. (n + 1), NEW j \in 1 .. (n + 1), i < j PROVE <<u[i], u[j]>> \in R
      <3>1. i \in 1 .. n /\ u[i] = s[i] /\ s[i] \in t \ {m}
        BY <2>4, <2>7, <2>9
      <3> QED
        BY <2>2, <2>5, <2>7, <2>9, <3>1
    <2>10. Sorts(u, t, R)
      BY <2>4, <2>6, <2>8, <2>9 DEF Sorts, SetToSeqs
    <2> QED
      BY <2>10
  <1>3. S \in Good
    <2> HIDE DEF Good
    <2> QED
      BY <1>1, <1>2, SubsetInduction
  <1> QED
    BY <1>3

(* Row i of a sorted sequence has i - 1 rows before it, those listed before*)
(* it.                                                                     *)
Ranked(s, S, R) ==
    /\ Len(s) = Cardinality(S) /\ Len(s) \in Nat /\ s \in Seq(S) /\ ToSet(s) = S
    /\ \A i \in 1 .. Len(s) :
          /\ s[i] \in S /\ Rank(S, R, s[i]) = i - 1
          /\ Preceding(S, R, s[i]) = {s[j] : j \in 1 .. (i - 1)}
    /\ \A r \in S : /\ Rank(S, R, r) + 1 \in 1 .. Len(s)
                    /\ s[Rank(S, R, r) + 1] = r

LEMMA SortedRanks ==
    ASSUME NEW S, IsFiniteSet(S), NEW R, StrictOrder(R, S), NEW s, Sorts(s, S, R)
    PROVE  Ranked(s, S, R)
  <1> DEFINE n == Cardinality(S)
  <1>1. /\ n \in Nat /\ s \in [1 .. n -> S] /\ Len(s) = n
        /\ \A i, j \in 1 .. n : i # j => s[i] # s[j]
        /\ \A i, j \in 1 .. n : i < j => <<s[i], s[j]>> \in R
    BY FS_CardinalityType DEF Sorts, SetToSeqs
  <1> HIDE DEF n
  <1>2. \A r \in S : \E i \in 1 .. n : s[i] = r
    <2>1. s \in Injection(1 .. n, S) /\ IsFiniteSet(1 .. n) /\ Cardinality(1 .. n) = n
      <3>1. s \in Injection(1 .. n, S)
        BY <1>1 DEF Injection, IsInjective
      <3>2. IsFiniteSet(1 .. n) /\ Cardinality(1 .. n) = n
        BY <1>1, FS_Interval
      <3> QED
        BY <3>1, <3>2
    <2>2. s \in Surjection(1 .. n, S)
      <3> DEFINE D == 1 .. n
      <3>1. s \in Injection(D, S) /\ IsFiniteSet(D) /\ Cardinality(D) = Cardinality(S)
        BY <2>1 DEF n
      <3> HIDE DEF D
      <3>2. s \in Surjection(D, S)
        BY <3>1, FS_Injection
      <3> QED
        BY <3>2 DEF D
    <2> QED
      BY <2>2 DEF Surjection
  <1>3. ASSUME NEW i \in 1 .. n PROVE Preceding(S, R, s[i]) = {s[j] : j \in 1 .. (i - 1)}
    <2>1. \A j \in 1 .. (i - 1) : j \in 1 .. n /\ s[j] \in S /\ <<s[j], s[i]>> \in R
      BY <1>1
    <2>2. ASSUME NEW x \in S, <<x, s[i]>> \in R PROVE \E j \in 1 .. (i - 1) : x = s[j]
      <3>1. PICK j \in 1 .. n : s[j] = x
        BY <1>2
      <3>2. ~(i < j)
        BY <1>1, <2>2, <3>1 DEF StrictOrder
      <3>3. i # j
        BY <1>1, <2>2, <3>1 DEF StrictOrder
      <3> QED
        BY <1>1, <3>1, <3>2, <3>3
    <2> QED
      BY <2>1, <2>2 DEF Preceding
  <1>4. ASSUME NEW i \in 1 .. n PROVE Rank(S, R, s[i]) = i - 1
    <2> DEFINE k == i - 1
               P == Preceding(S, R, s[i])
               f == [j \in 1 .. k |-> s[j]]
    <2>1. k \in Nat /\ \A j \in 1 .. k : j \in 1 .. n
      BY <1>1
    <2>2. P = {s[j] : j \in 1 .. k}
      BY <1>3
    <2> HIDE DEF P, k
    <2>3. f \in [1 .. k -> P] /\ (\A a, b \in 1 .. k : f[a] = f[b] => a = b)
          /\ \A x \in P : \E j \in 1 .. k : f[j] = x
      BY <1>1, <2>1, <2>2
    <2>4. f \in Bijection(1 .. k, P)
      <3> HIDE DEF f
      <3> QED
        BY <2>3 DEF Bijection, Injection, Surjection, IsInjective
    <2>5. ExistsBijection(1 .. k, P)
      BY <2>4 DEF ExistsBijection
    <2>6. Cardinality(P) = k
      BY <2>1, <2>5, FS_CountingElements
    <2> QED
      BY <2>6 DEF Rank, P, k
  <1>5. ASSUME NEW r \in S
        PROVE  Rank(S, R, r) + 1 \in 1 .. n /\ s[Rank(S, R, r) + 1] = r
    <2>1. PICK i \in 1 .. n : s[i] = r
      BY <1>2
    <2>2. Rank(S, R, r) = i - 1
      BY <1>4, <2>1
    <2> QED
      BY <1>1, <2>1, <2>2
  <1>6. s \in Seq(S) /\ ToSet(s) = S
    <2>1. s \in Seq(S)
      BY <1>1
    <2> QED
      BY <1>1, <1>2, <2>1 DEF ToSet
  <1> QED
    BY <1>1, <1>3, <1>4, <1>5, <1>6 DEF n, Ranked

LEMMA OrderOfPart ==
    ASSUME NEW S, IsFiniteSet(S), NEW R, StrictOrder(R, S), NEW T \in SUBSET S
    PROVE  IsFiniteSet(T) /\ StrictOrder(R, T)
  BY FS_Subset DEF StrictOrder

LEMMA RankGrows ==
    ASSUME NEW S, IsFiniteSet(S), NEW T \in SUBSET S, NEW R, NEW r
    PROVE  /\ Rank(T, R, r) \in Nat /\ Rank(S, R, r) \in Nat
           /\ Rank(T, R, r) <= Rank(S, R, r)
  <1> DEFINE P == Preceding(T, R, r)
             Q == Preceding(S, R, r)
  <1>1. P \subseteq Q /\ Q \subseteq S
    BY DEF Preceding
  <1> HIDE DEF P, Q
  <1>2. IsFiniteSet(Q) /\ IsFiniteSet(P)
    BY <1>1, FS_Subset
  <1>3. Cardinality(P) <= Cardinality(Q) /\ Cardinality(P) \in Nat /\ Cardinality(Q) \in Nat
    BY <1>1, <1>2, FS_Subset, FS_CardinalityType
  <1> QED
    BY <1>3 DEF Rank, P, Q

(* Two sorted sequences agree as far as the rows of the larger set are in  *)
(* the smaller.                                                            *)
LEMMA PrefixAgrees ==
    ASSUME NEW S, IsFiniteSet(S), NEW R, StrictOrder(R, S), NEW T \in SUBSET S,
           NEW s, Sorts(s, S, R), NEW u, Sorts(u, T, R),
           NEW m \in Nat, \A r \in S : Rank(S, R, r) < m => r \in T
    PROVE  \A i \in 1 .. Len(s) : i <= m => i \in 1 .. Len(u) /\ u[i] = s[i]
  <1>1. IsFiniteSet(T) /\ StrictOrder(R, T)
    BY OrderOfPart
  <1>2. /\ Len(s) \in Nat
        /\ \A i \in 1 .. Len(s) :
              /\ s[i] \in S /\ Rank(S, R, s[i]) = i - 1
              /\ Preceding(S, R, s[i]) = {s[j] : j \in 1 .. (i - 1)}
    <2>1. Ranked(s, S, R)
      BY SortedRanks
    <2> QED
      BY <2>1 DEF Ranked
  <1>3. \A r \in T : Rank(T, R, r) + 1 \in 1 .. Len(u) /\ u[Rank(T, R, r) + 1] = r
    BY <1>1, SortedRanks DEF Ranked
  <1> SUFFICES ASSUME NEW i \in 1 .. Len(s), i <= m
               PROVE  i \in 1 .. Len(u) /\ u[i] = s[i]
    OBVIOUS
  <1>4. s[i] \in T
    BY <1>2
  <1>5. \A j \in 1 .. (i - 1) : s[j] \in T
    <2> SUFFICES ASSUME NEW j \in 1 .. (i - 1) PROVE s[j] \in T
      OBVIOUS
    <2>1. j \in 1 .. Len(s) /\ j - 1 < m
      BY <1>2
    <2> QED
      BY <1>2, <2>1
  <1>6. Preceding(T, R, s[i]) = Preceding(S, R, s[i])
    BY <1>2, <1>5 DEF Preceding
  <1>7. Rank(T, R, s[i]) = i - 1
    BY <1>2, <1>6 DEF Rank
  <1>8. (i - 1) + 1 = i
    BY <1>2
  <1> QED
    BY <1>3, <1>4, <1>7, <1>8

LEMMA SortUnique ==
    ASSUME NEW S, IsFiniteSet(S), NEW R, StrictOrder(R, S),
           NEW s, Sorts(s, S, R), NEW u, Sorts(u, S, R)
    PROVE  s = u
  <1> DEFINE n == Cardinality(S)
  <1>1. /\ n \in Nat /\ Len(s) = n /\ Len(u) = n
        /\ s \in [1 .. n -> S] /\ u \in [1 .. n -> S]
    <2>1. Ranked(s, S, R) /\ Ranked(u, S, R)
      BY SortedRanks
    <2>2. s \in [1 .. n -> S] /\ u \in [1 .. n -> S]
      BY DEF Sorts, SetToSeqs
    <2> QED
      BY <2>1, <2>2 DEF Ranked
  <1>2. \A r \in S : Rank(S, R, r) < n => r \in S
    OBVIOUS
  <1> HIDE DEF n
  <1>3. \A i \in 1 .. Len(s) : i <= n => i \in 1 .. Len(u) /\ u[i] = s[i]
    BY <1>1, <1>2, PrefixAgrees
  <1> QED
    BY <1>1, <1>3

-----------------------------------------------------------------------------
(* SLICES.                                                                 *)

SliceIs(u, A, s, from, to) ==
    /\ u \in Seq(A)
    /\ Len(u) = IF from < to /\ from < Len(s)
                THEN (IF to < Len(s) THEN to ELSE Len(s)) - from ELSE 0
    /\ \A i \in 1 .. Len(u) :
          u[i] = s[from + i] /\ from + i \in 1 .. Len(s) /\ from + i <= to

LEMMA SliceElements ==
    ASSUME NEW A, NEW s \in Seq(A), NEW from \in Nat, NEW to \in Nat
    PROVE  SliceIs(Slice(s, from, to), A, s, from, to)
  <1> DEFINE end == IF to < Len(s) THEN to ELSE Len(s)
             u == Slice(s, from, to)
             m == from + 1
  <1>1. /\ Len(s) \in Nat /\ \A i \in 1 .. Len(s) : s[i] \in A
        /\ m \in Int /\ end \in Int /\ m \in Nat /\ m > 0
        /\ \A i \in m .. end : i \in 1 .. Len(s)
    OBVIOUS
  <1>2. u = SubSeq(s, m, end)
    BY DEF Slice
  <1> HIDE DEF u
  <1>3. end <= to /\ end <= Len(s) /\ m = from + 1
    OBVIOUS
  <1> HIDE DEF end, m
  <1>4. /\ u \in Seq(A) /\ Len(u) = (IF m <= end THEN end - m + 1 ELSE 0)
        /\ \A i \in 1 .. (end - m + 1) : u[i] = s[m + i - 1]
    BY <1>1, <1>2, SubSeqProperties
  <1>5. Len(u) = IF from < to /\ from < Len(s)
                 THEN (IF to < Len(s) THEN to ELSE Len(s)) - from ELSE 0
    BY <1>1, <1>3, <1>4 DEF end
  <1>6. ASSUME NEW i \in 1 .. Len(u)
        PROVE  u[i] = s[from + i] /\ from + i \in 1 .. Len(s) /\ from + i <= to
    <2>1. i \in 1 .. (end - m + 1)
      BY <1>1, <1>4
    <2>2. m + i - 1 = from + i /\ from + i \in m .. end
      BY <1>1, <1>3, <2>1
    <2>3. u[i] = s[from + i]
      BY <1>4, <2>1, <2>2
    <2>4. from + i \in 1 .. Len(s)
      BY <1>1, <2>2
    <2>5. from + i <= end /\ from + i \in Int
      BY <1>1, <2>2
    <2> QED
      BY <1>1, <1>3, <2>3, <2>4, <2>5
  <1> QED
    BY <1>4, <1>5, <1>6 DEF u, SliceIs

(* A page of the rows asked for is that page of the listing.               *)
LEMMA SliceOfSlice ==
    ASSUME NEW A, NEW s \in Seq(A), NEW from \in Nat, NEW w \in Nat, NEW k \in Nat,
           from + k <= w
    PROVE  Slice(Slice(s, from, w), 0, k) = Slice(s, from, from + k)
  <1> DEFINE t == Slice(s, from, w)
             u == Slice(t, 0, k)
             to == from + k
             v == Slice(s, from, to)
  <1>0. Len(s) \in Nat /\ to \in Nat /\ 0 \in Nat /\ to = from + k /\ to <= w
    OBVIOUS
  <1> HIDE DEF to
  <1>1. /\ t \in Seq(A)
        /\ Len(t) = IF from < w /\ from < Len(s)
                    THEN (IF w < Len(s) THEN w ELSE Len(s)) - from ELSE 0
        /\ \A i \in 1 .. Len(t) : t[i] = s[from + i]
    BY SliceElements DEF SliceIs
  <1> HIDE DEF t
  <1>2. /\ u \in Seq(A)
        /\ Len(u) = IF 0 < k /\ 0 < Len(t) THEN (IF k < Len(t) THEN k ELSE Len(t)) - 0 ELSE 0
        /\ \A i \in 1 .. Len(u) : u[i] = t[0 + i] /\ 0 + i \in 1 .. Len(t)
    <2>1. SliceIs(u, A, t, 0, k)
      BY <1>0, <1>1, SliceElements
    <2> HIDE DEF u
    <2> QED
      BY <2>1 DEF SliceIs
  <1> HIDE DEF u
  <1>3. /\ v \in Seq(A)
        /\ Len(v) = IF from < to /\ from < Len(s)
                    THEN (IF to < Len(s) THEN to ELSE Len(s)) - from ELSE 0
        /\ \A i \in 1 .. Len(v) : v[i] = s[from + i]
    <2>1. SliceIs(v, A, s, from, to)
      BY <1>0, SliceElements
    <2> HIDE DEF v
    <2> QED
      BY <2>1 DEF SliceIs
  <1> HIDE DEF v
  <1>4. Len(u) = Len(v)
    BY <1>0, <1>1, <1>2, <1>3
  <1>5. ASSUME NEW i \in 1 .. Len(u) PROVE u[i] = v[i]
    <2>1. 0 + i = i
      BY <1>2
    <2> QED
      BY <1>1, <1>2, <1>3, <1>4, <2>1
  <1>6. u = v
    BY <1>2, <1>3, <1>4, <1>5, SeqEqual
  <1> QED
    BY <1>6 DEF t, u, v, to

(* Page after page the listing is put together.                            *)
LEMMA PageAfterPage ==
    ASSUME NEW A, NEW s \in Seq(A), NEW from \in Nat, NEW k \in Nat
    PROVE  Slice(s, 0, from) \o Slice(s, from, from + k) = Slice(s, 0, from + k)
  <1> DEFINE t == Slice(s, 0, from)
             u == Slice(s, from, from + k)
             v == Slice(s, 0, from + k)
             n == Len(s)
  <1>0. n \in Nat /\ from + k \in Nat /\ 0 \in Nat
    OBVIOUS
  <1>1. /\ t \in Seq(A)
        /\ Len(t) = IF 0 < from /\ 0 < n THEN (IF from < n THEN from ELSE n) - 0 ELSE 0
        /\ \A i \in 1 .. Len(t) : t[i] = s[0 + i]
    BY <1>0, SliceElements DEF SliceIs
  <1>2. /\ u \in Seq(A)
        /\ Len(u) = IF from < from + k /\ from < n
                    THEN (IF from + k < n THEN from + k ELSE n) - from ELSE 0
        /\ \A i \in 1 .. Len(u) : u[i] = s[from + i]
    BY <1>0, SliceElements DEF SliceIs
  <1>3. /\ v \in Seq(A)
        /\ Len(v) = IF 0 < from + k /\ 0 < n
                    THEN (IF from + k < n THEN from + k ELSE n) - 0 ELSE 0
        /\ \A i \in 1 .. Len(v) : v[i] = s[0 + i]
    BY <1>0, SliceElements DEF SliceIs
  <1> HIDE DEF t, u, v, n
  <1>4. t \o u \in Seq(A) /\ Len(t \o u) = Len(t) + Len(u) /\ Len(t) \in Nat /\ Len(u) \in Nat
    <2>1. t \in Seq(A) /\ u \in Seq(A)
      BY <1>1, <1>2
    <2> QED
      BY ONLY <2>1
  <1>5. Len(t \o u) = Len(v)
    BY <1>0, <1>1, <1>2, <1>3, <1>4
  <1>6. ASSUME NEW i \in 1 .. Len(v) PROVE (t \o u)[i] = v[i]
    <2>1. (t \o u)[i] = IF i <= Len(t) THEN t[i] ELSE u[i - Len(t)]
      BY <1>1, <1>2, <1>4, <1>5
    <2>2. CASE i <= Len(t)
      <3>1. i \in 1 .. Len(t) /\ 0 + i = i
        BY <1>4, <1>5, <2>2
      <3> QED
        BY <1>1, <1>3, <2>1, <2>2, <3>1
    <2>3. CASE ~(i <= Len(t))
      <3>1. i - Len(t) \in 1 .. Len(u) /\ 0 + i = i
        BY <1>4, <1>5, <2>3
      <3>2. Len(t) = from
        BY <1>0, <1>1, <1>2, <1>4, <3>1
      <3>3. from + (i - Len(t)) = i
        BY <1>0, <1>4, <3>1, <3>2
      <3> QED
        BY <1>2, <1>3, <2>1, <2>3, <3>1, <3>3
    <2> QED
      BY <2>2, <2>3
  <1>7. t \o u = v
    BY <1>3, <1>4, <1>5, <1>6, SeqEqual
  <1> QED
    BY <1>7 DEF t, u, v

LEMMA WholeSlice ==
    ASSUME NEW A, NEW s \in Seq(A), NEW to \in Nat, Len(s) <= to
    PROVE  Slice(s, 0, to) = s
  <1>1. Len(s) \in Nat /\ 0 \in Nat
    OBVIOUS
  <1>2. /\ Slice(s, 0, to) \in Seq(A) /\ Len(Slice(s, 0, to)) = Len(s)
        /\ \A i \in 1 .. Len(Slice(s, 0, to)) : Slice(s, 0, to)[i] = s[0 + i]
    BY <1>1, SliceElements DEF SliceIs
  <1>3. \A i \in 1 .. Len(s) : 0 + i = i
    OBVIOUS
  <1> QED
    BY <1>2, <1>3, SeqEqual

-----------------------------------------------------------------------------
(* THE LISTING is the rows in the order that the tool promises.            *)

Listed == {p \in Rows \X Rows : ListedBefore(p[1], p[2])}
Written == {p \in Rows \X Rows : WrittenBefore(p[1], p[2])}
Promised == IF tool = "get_thread" THEN Written ELSE Listed

ListTypeOK ==
    /\ tool \in ListTools /\ time \in [Rows -> Times]
    /\ box \in [Folders -> SUBSET Rows]
    /\ tool # "get_thread" => box["sent"] = {}
    /\ position \in Placings
    /\ offset \in Nat /\ got \in Seq(Rows) /\ first \in SUBSET Rows

(* What the properties assume: no row left, the folders were covered, and  *)
(* rows of equal time raise no question.                                   *)
Quiet == ~shrunk /\ covered /\ TiesSettled

(* Whatever of the first page's rows comes before the offset is received,  *)
(* and while no row arrived the agent has the listing up to the offset.    *)
ListInv ==
    /\ ListTypeOK
    /\ offset = 0 /\ ~done => got = <<>>
    /\ Quiet =>
          /\ first \subseteq AllRows
          /\ \A r \in first :
                done \/ Rank(AllRows, Promised, r) < offset => r \in ToSet(got)
    /\ Quiet /\ ~grown =>
          \E s : /\ Sorts(s, AllRows, Promised)
                 /\ got = IF done THEN s ELSE Slice(s, 0, offset)

LEMMA Positions ==
    ListTypeOK => /\ \A a \in Rows : position[a] \in Int
                  /\ \A a, b \in Rows : position[a] = position[b] => a = b
                  /\ \A a, b \in Rows : time[a] < time[b] => position[a] < position[b]
  <1> SUFFICES ASSUME ListTypeOK
               PROVE  /\ \A a \in Rows : position[a] \in Int
                      /\ \A a, b \in Rows : position[a] = position[b] => a = b
                      /\ \A a, b \in Rows : time[a] < time[b] => position[a] < position[b]
    OBVIOUS
  <1>1. /\ position \in [Rows -> Rows] /\ IsInjective(position)
        /\ \A a, b \in Rows : time[a] < time[b] => position[a] < position[b]
    BY DEF ListTypeOK, Placings
  <1>2. ASSUME NEW a \in Rows PROVE position[a] \in Int
    <2>1. position[a] \in Rows
      BY <1>1
    <2>2. position[a] \in Nat
      BY <2>1, ListingAssumption
    <2> QED
      BY <2>2
  <1>3. \A a, b \in Rows : position[a] = position[b] => a = b
    BY <1>1 DEF IsInjective
  <1> QED
    BY <1>1, <1>2, <1>3

LEMMA IdsAndTimes == ListTypeOK => \A a \in Rows : a \in Int /\ time[a] \in Int
  <1> SUFFICES ASSUME ListTypeOK, NEW a \in Rows PROVE a \in Int /\ time[a] \in Int
    OBVIOUS
  <1>1. a \in Nat
    BY ListingAssumption
  <1>2. time[a] \in Times
    BY DEF ListTypeOK
  <1>3. time[a] \in Int
    BY <1>2, ListingAssumption
  <1> QED
    BY <1>1, <1>3

LEMMA Orders ==
    ASSUME ListTypeOK
    PROVE  /\ StrictOrder(Listed, Rows) /\ StrictOrder(Written, Rows)
           /\ StrictOrder(Promised, Rows)
  <1>1. \A a \in Rows : time[a] \in Int /\ a \in Int
    BY IdsAndTimes
  <1>2. \A a, b \in Rows : <<a, b>> \in Listed <=> ListedBefore(a, b)
    BY DEF Listed
  <1>3. \A a, b \in Rows : <<a, b>> \in Written <=> WrittenBefore(a, b)
    BY DEF Written
  <1>4. StrictOrder(Listed, Rows)
    <2> SUFFICES ASSUME NEW a \in Rows, NEW b \in Rows, NEW c \in Rows
                 PROVE  /\ <<a, a>> \notin Listed
                        /\ a # b => <<a, b>> \in Listed \/ <<b, a>> \in Listed
                        /\ <<a, b>> \in Listed /\ <<b, c>> \in Listed => <<a, c>> \in Listed
      BY DEF StrictOrder
    <2>1. ~ListedBefore(a, a)
      BY Positions DEF ListedBefore
    <2>2. a # b => ListedBefore(a, b) \/ ListedBefore(b, a)
      BY Positions DEF ListedBefore
    <2>3. ListedBefore(a, b) /\ ListedBefore(b, c) => ListedBefore(a, c)
      BY Positions DEF ListedBefore
    <2> QED
      BY <1>2, <2>1, <2>2, <2>3
  <1>5. StrictOrder(Written, Rows)
    <2> SUFFICES ASSUME NEW a \in Rows, NEW b \in Rows, NEW c \in Rows
                 PROVE  /\ <<a, a>> \notin Written
                        /\ a # b => <<a, b>> \in Written \/ <<b, a>> \in Written
                        /\ <<a, b>> \in Written /\ <<b, c>> \in Written => <<a, c>> \in Written
      BY DEF StrictOrder
    <2>1. ~WrittenBefore(a, a)
      BY <1>1 DEF WrittenBefore
    <2>2. a # b => WrittenBefore(a, b) \/ WrittenBefore(b, a)
      BY <1>1 DEF WrittenBefore
    <2>3. WrittenBefore(a, b) /\ WrittenBefore(b, c) => WrittenBefore(a, c)
      BY <1>1 DEF WrittenBefore
    <2> QED
      BY <1>3, <2>1, <2>2, <2>3
  <1> QED
    BY <1>4, <1>5 DEF Promised

LEMMA RowSets ==
    ASSUME ListTypeOK, NEW S \in SUBSET Rows
    PROVE  /\ IsFiniteSet(S) /\ StrictOrder(Listed, S) /\ StrictOrder(Written, S)
           /\ StrictOrder(Promised, S)
  BY Orders, OrderOfPart, ListingAssumption

LEMMA RowsAre ==
    ListTypeOK => /\ AllRows \in SUBSET Rows /\ \A f \in Folders : box[f] \in SUBSET AllRows
                  /\ tool # "get_thread" => AllRows = box["inbox"]
  BY DEF ListTypeOK, AllRows, Folders

LEMMA ExchangeSorts ==
    ASSUME ListTypeOK, NEW S \in SUBSET Rows
    PROVE  Sorts(ExchangeOrder(S), S, Listed)
  <1>1. PICK s : Sorts(s, S, Listed)
    BY RowSets, SortExists
  <1>2. \A i, j \in 1 .. Len(s) : i < j => ListedBefore(s[i], s[j])
    BY <1>1 DEF Sorts, Listed
  <1>3. s \in SetToSeqs(S) /\ IsSorted(s, ListedBefore)
    BY <1>1, <1>2 DEF Sorts, IsSorted
  <1> DEFINE e == ExchangeOrder(S)
  <1>4. e \in SetToSeqs(S) /\ IsSorted(e, ListedBefore)
    BY <1>3 DEF ExchangeOrder
  <1> HIDE DEF e
  <1>5. Len(e) = Cardinality(S) /\ e \in [1 .. Cardinality(S) -> S]
    <2>1. Cardinality(S) \in Nat
      BY RowSets, FS_CardinalityType
    <2> QED
      BY <1>4, <2>1 DEF SetToSeqs
  <1>6. \A i, j \in 1 .. Len(e) : i < j => <<e[i], e[j]>> \in Listed
    BY <1>4, <1>5 DEF IsSorted, Listed
  <1> QED
    BY <1>4, <1>6 DEF Sorts, e

LEMMA ThreadSorts ==
    ASSUME ListTypeOK, NEW S \in SUBSET Rows
    PROVE  Sorts(ByTimeAndId(S), S, Written)
  <1>1. PICK s : Sorts(s, S, Written)
    BY RowSets, SortExists
  <1>2. \A i, j \in 1 .. Len(s) : i < j => WrittenBefore(s[i], s[j])
    BY <1>1 DEF Sorts, Written
  <1>3. s \in SetToSeqs(S) /\ IsSorted(s, WrittenBefore)
    BY <1>1, <1>2 DEF Sorts, IsSorted
  <1> DEFINE e == ByTimeAndId(S)
  <1>4. e \in SetToSeqs(S) /\ IsSorted(e, WrittenBefore)
    BY <1>3 DEF ByTimeAndId
  <1> HIDE DEF e
  <1>5. Len(e) = Cardinality(S) /\ e \in [1 .. Cardinality(S) -> S]
    <2>1. Cardinality(S) \in Nat
      BY RowSets, FS_CardinalityType
    <2> QED
      BY <1>4, <2>1 DEF SetToSeqs
  <1>6. \A i, j \in 1 .. Len(e) : i < j => <<e[i], e[j]>> \in Written
    BY <1>4, <1>5 DEF IsSorted, Written
  <1> QED
    BY <1>4, <1>6 DEF Sorts, e

(* A page of the listing, and what the tool says of more.                  *)
PageOf(page, more, s) ==
    /\ page = Slice(s, offset, offset + Limit)
    /\ ~more => Len(s) <= offset + Limit

(* find_message, list_tasks, list_events return pages of the listing.      *)
LEMMA SinglePages ==
    ASSUME ListTypeOK, tool # "get_thread",
           NEW rows \in Answers(Slice(ExchangeOrder(box["inbox"]), offset, Window(tool))),
           ~Raises(rows)
    PROVE  /\ Sorts(ExchangeOrder(box["inbox"]), AllRows, Promised)
           /\ PageOf(Slice(rows, 0, Limit), HasMore(tool, rows), ExchangeOrder(box["inbox"]))
  <1> DEFINE S == box["inbox"]
             s == ExchangeOrder(S)
             w == Window(tool)
             t == Slice(s, offset, w)
  <1>1. S \in SUBSET Rows /\ S = AllRows
    BY RowsAre DEF ListTypeOK, Folders
  <1>2. Sorts(s, S, Listed) /\ IsFiniteSet(S) /\ StrictOrder(Listed, S)
    BY <1>1, ExchangeSorts, RowSets
  <1>3. /\ offset \in Nat /\ w \in Nat /\ offset + Limit <= w /\ Limit \in Nat /\ Limit > 0
        /\ w = IF tool = "list_events" THEN offset + Limit ELSE offset + Limit + 1
    BY ListingAssumption DEF ListTypeOK, Window
  <1> HIDE DEF S, s, w
  <1>4. s \in Seq(S)
    <2>1. Ranked(s, S, Listed)
      BY <1>2, SortedRanks
    <2> QED
      BY <2>1 DEF Ranked
  <1>5. SliceIs(t, S, s, offset, w)
    BY <1>3, <1>4, SliceElements
  <1>6. rows = t
    <2> SUFFICES ASSUME NEW k \in 0 .. (Len(t) - 1),
                        rows = Append(SubSeq(t, 1, k), Trouble)
                 PROVE  FALSE
      BY DEF Answers, t, s, S, w
    <2>1. t \in Seq(S) /\ k \in Nat /\ k <= Len(t)
      BY <1>5 DEF SliceIs
    <2> HIDE DEF t
    <2> DEFINE u == SubSeq(t, 1, k)
    <2>2. u \in Seq(S)
      <3>1. \A i \in 1 .. k : t[i] \in S
        BY <2>1
      <3> QED
        BY <2>1, <3>1, SubSeqProperties
    <2> HIDE DEF u
    <2>3. Len(u) + 1 \in DOMAIN Append(u, Trouble) /\ Append(u, Trouble)[Len(u) + 1] = Trouble
      BY <2>2
    <2> QED
      BY <2>3 DEF Raises, ToSet, u
  <1>7. Slice(rows, 0, Limit) = Slice(s, offset, offset + Limit)
    BY <1>3, <1>4, <1>6, SliceOfSlice
  <1>8. ~HasMore(tool, rows) => Len(s) <= offset + Limit
    <2>1. Len(t) = IF offset < w /\ offset < Len(s)
                   THEN (IF w < Len(s) THEN w ELSE Len(s)) - offset ELSE 0
      BY <1>5 DEF SliceIs
    <2>2. Len(s) \in Nat
      BY <1>4
    <2> HIDE DEF t
    <2> QED
      BY <1>3, <1>6, <2>1, <2>2 DEF HasMore
  <1> QED
    BY <1>1, <1>2, <1>7, <1>8 DEF PageOf, Promised, s, S

(* In a folder without ties Exchange's order is that of the thread.        *)
LEMMA UntiedRanks ==
    ASSUME ListTypeOK, tool = "get_thread", ~Tied, NEW f \in Folders, NEW r \in box[f]
    PROVE  Rank(box[f], Listed, r) = Rank(box[f], Written, r)
  <1>1. r \in Rows /\ box[f] \subseteq Rows
    BY DEF ListTypeOK
  <1>2. ASSUME NEW x \in box[f] PROVE <<x, r>> \in Listed <=> <<x, r>> \in Written
    <2>1. x \in Rows /\ x \in Int /\ time[x] \in Int /\ time[r] \in Int
      BY <1>1, IdsAndTimes
    <2>2. x # r => time[x] # time[r]
      BY DEF Tied
    <2>3. tool \notin Descending
      BY DEF Descending
    <2>4. position[x] < position[r] <=> time[x] < time[r]
      <3>1. /\ position[x] \in Int /\ position[r] \in Int
            /\ time[x] < time[r] => position[x] < position[r]
            /\ time[r] < time[x] => position[r] < position[x]
        BY <1>1, <2>1, Positions
      <3> QED
        BY <2>1, <2>2, <3>1
    <2>5. WrittenBefore(x, r) <=> time[x] < time[r]
      BY <1>1, <2>1, <2>2, IdsAndTimes DEF WrittenBefore
    <2>6. ListedBefore(x, r) <=> position[x] < position[r]
      BY <2>3 DEF ListedBefore
    <2> QED
      BY <1>1, <2>1, <2>4, <2>5, <2>6 DEF Listed, Written
  <1>3. Preceding(box[f], Listed, r) = Preceding(box[f], Written, r)
    BY <1>2 DEF Preceding
  <1> QED
    BY <1>3 DEF Rank

(* What both folders return for a page begins like the whole thread.       *)
LEMMA MergedPages ==
    ASSUME ListTypeOK, tool = "get_thread", ~Tied, NEW found,
           found = UNION {ToSet(Slice(ExchangeOrder(box[f]), 0, ThreadWindow)) : f \in Folders}
    PROVE  /\ Sorts(ByTimeAndId(AllRows), AllRows, Promised)
           /\ PageOf(Slice(ByTimeAndId(found), offset, offset + Limit),
                     Cardinality(found) > offset + Limit, ByTimeAndId(AllRows))
  <1> DEFINE S == AllRows
             s == ByTimeAndId(S)
             u == ByTimeAndId(found)
             w == offset + Limit
             m == w + 1
  <1>1. /\ offset \in Nat /\ Limit \in Nat /\ Limit > 0 /\ w \in Nat /\ m \in Nat /\ w < m
        /\ ThreadWindow = m /\ 0 \in Nat
    BY ListingAssumption DEF ListTypeOK, ThreadWindow
  <1>2. S \in SUBSET Rows /\ IsFiniteSet(S) /\ StrictOrder(Written, S)
    BY RowsAre, RowSets
  <1> HIDE DEF S, m
  <1>3. ASSUME NEW f \in Folders
        PROVE  ToSet(Slice(ExchangeOrder(box[f]), 0, m))
                 = {r \in box[f] : Rank(box[f], Listed, r) < m}
    <2> DEFINE B == box[f]
               e == ExchangeOrder(B)
               t == Slice(e, 0, m)
    <2>1. B \in SUBSET Rows
      BY DEF ListTypeOK
    <2>2. Sorts(e, B, Listed) /\ IsFiniteSet(B) /\ StrictOrder(Listed, B)
      BY <2>1, ExchangeSorts, RowSets
    <2> HIDE DEF B, e
    <2>3. Ranked(e, B, Listed)
      BY <2>2, SortedRanks
    <2>4. e \in Seq(B) /\ Len(e) \in Nat
      BY <2>3 DEF Ranked
    <2>5. SliceIs(t, B, e, 0, m)
      BY <1>1, <2>4, SliceElements
    <2> HIDE DEF t
    <2>6. t \in Seq(B) /\ DOMAIN t = 1 .. Len(t) /\ Len(t) = IF m < Len(e) THEN m ELSE Len(e)
      BY <1>1, <2>4, <2>5 DEF SliceIs
    <2>7. ASSUME NEW i \in 1 .. Len(t) PROVE t[i] \in B /\ Rank(B, Listed, t[i]) < m
      <3>1. t[i] = e[0 + i] /\ 0 + i \in 1 .. Len(e) /\ 0 + i <= m
        BY <2>5 DEF SliceIs
      <3>2. 0 + i = i /\ i \in Int
        BY <2>6
      <3>3. e[i] \in B /\ Rank(B, Listed, e[i]) = i - 1
        BY <2>3, <3>1, <3>2 DEF Ranked
      <3> QED
        BY <1>1, <3>1, <3>2, <3>3
    <2>8. ASSUME NEW r \in B, Rank(B, Listed, r) < m PROVE r \in ToSet(t)
      <3> DEFINE i == Rank(B, Listed, r) + 1
      <3>1. i \in 1 .. Len(e) /\ e[i] = r /\ Rank(B, Listed, r) \in Nat
        BY <2>2, <2>3, RankGrows DEF Ranked
      <3>2. i \in 1 .. Len(t) /\ 0 + i = i
        BY <1>1, <2>4, <2>6, <2>8, <3>1
      <3>3. t[i] = r
        BY <2>5, <3>1, <3>2 DEF SliceIs
      <3> QED
        BY <2>6, <3>2, <3>3 DEF ToSet
    <2>9. ToSet(t) = {r \in B : Rank(B, Listed, r) < m}
      BY <2>6, <2>7, <2>8 DEF ToSet
    <2> QED
      BY <2>9 DEF t, e, B
  <1>4. found \in SUBSET S
    BY <1>1, <1>3, RowsAre DEF S
  <1>5. ASSUME NEW r \in S, Rank(S, Written, r) < m PROVE r \in found
    <2>1. PICK f \in Folders : r \in box[f]
      BY DEF S, AllRows, Folders
    <2>2. box[f] \in SUBSET S
      BY RowsAre DEF S
    <2>3. Rank(box[f], Listed, r) = Rank(box[f], Written, r)
      BY <2>1, UntiedRanks
    <2>4. /\ Rank(box[f], Written, r) \in Nat /\ Rank(S, Written, r) \in Nat
          /\ Rank(box[f], Written, r) <= Rank(S, Written, r)
      BY <1>2, <2>2, RankGrows
    <2>5. Rank(box[f], Listed, r) < m
      BY <1>1, <1>5, <2>3, <2>4
    <2> QED
      BY <1>1, <1>3, <2>1, <2>5
  <1>6. Sorts(s, S, Written) /\ Sorts(u, found, Written) /\ IsFiniteSet(found)
        /\ StrictOrder(Written, found)
    <2>1. found \in SUBSET Rows
      BY <1>2, <1>4
    <2> QED
      BY <1>2, <2>1, ThreadSorts, RowSets
  <1> HIDE DEF s, u, w
  <1>7. Ranked(s, S, Written) /\ Ranked(u, found, Written)
    BY <1>2, <1>6, SortedRanks
  <1>8. \A i \in 1 .. Len(s) : i <= m => i \in 1 .. Len(u) /\ u[i] = s[i]
    BY <1>1, <1>2, <1>4, <1>5, <1>6, PrefixAgrees
  <1>9. /\ s \in Seq(S) /\ u \in Seq(S) /\ Len(s) \in Nat /\ Len(u) \in Nat
        /\ Len(s) = Cardinality(S) /\ Len(u) = Cardinality(found)
    <2>1. u \in Seq(found)
      BY <1>7 DEF Ranked
    <2>2. u \in Seq(S)
      BY <1>4, <2>1
    <2> QED
      BY <1>7, <2>2 DEF Ranked
  <1>10. Len(u) <= Len(s)
    BY <1>2, <1>4, <1>9, FS_Subset
  <1>11. Len(s) > w => Len(u) > w
    <2> SUFFICES ASSUME Len(s) > w PROVE Len(u) > w
      OBVIOUS
    <2>1. m \in 1 .. Len(s) /\ m <= m
      BY <1>1, <1>9 DEF m
    <2>2. m \in 1 .. Len(u)
      BY <1>8, <2>1
    <2> QED
      BY <1>1, <1>9, <2>2
  <1>12. Slice(u, offset, w) = Slice(s, offset, w)
    <2> DEFINE a == Slice(u, offset, w)
               b == Slice(s, offset, w)
    <2>1. SliceIs(a, S, u, offset, w) /\ SliceIs(b, S, s, offset, w)
      BY <1>1, <1>9, SliceElements
    <2> HIDE DEF a, b
    <2>2. (w < Len(s) /\ w < Len(u)) \/ Len(s) = Len(u)
      <3>1. CASE Len(s) > w
        BY <1>1, <1>9, <1>11, <3>1
      <3>2. CASE ~(Len(s) > w)
        <4>1. \A i \in 1 .. Len(s) : i <= m
          BY <1>1, <1>9, <3>2
        <4>2. Len(s) > 0 => Len(s) \in 1 .. Len(u)
          <5>1. Len(s) > 0 => Len(s) \in 1 .. Len(s)
            BY <1>9
          <5> QED
            BY <1>8, <4>1, <5>1
        <4> QED
          BY <1>9, <1>10, <4>2
      <3> QED
        BY <3>1, <3>2
    <2>3. a \in Seq(S) /\ b \in Seq(S) /\ Len(a) = Len(b)
      BY <1>1, <1>9, <2>1, <2>2 DEF SliceIs
    <2>4. ASSUME NEW i \in 1 .. Len(a) PROVE a[i] = b[i]
      <3>1. a[i] = u[offset + i] /\ b[i] = s[offset + i] /\ offset + i \in 1 .. Len(s)
            /\ offset + i <= w
        BY <2>1, <2>3 DEF SliceIs
      <3>2. offset + i <= m
        BY <1>1, <2>3, <3>1
      <3> QED
        BY <1>8, <3>1, <3>2
    <2>5. a = b
      BY <2>3, <2>4, SeqEqual
    <2> QED
      BY <2>5 DEF a, b
  <1>13. ~(Cardinality(found) > w) => Len(s) <= w
    BY <1>1, <1>9, <1>11
  <1> QED
    BY <1>6, <1>12, <1>13 DEF PageOf, Promised, s, u, w, S

-----------------------------------------------------------------------------
(* THE INVARIANT.                                                          *)

LEMMA SameOrder == UNCHANGED <<tool, time, position>> => Promised' = Promised
  BY DEF Promised, Listed, Written, ListedBefore, WrittenBefore

LEMMA InPage ==
    ASSUME NEW S, IsFiniteSet(S), NEW R, StrictOrder(R, S), NEW s, Sorts(s, S, R),
           NEW from \in Nat, NEW to \in Nat, NEW r \in S,
           from <= Rank(S, R, r), Rank(S, R, r) < to
    PROVE  r \in ToSet(Slice(s, from, to))
  <1> DEFINE i == Rank(S, R, r) + 1
             u == Slice(s, from, to)
  <1>1. Ranked(s, S, R)
    BY SortedRanks
  <1>2. s \in Seq(S) /\ Len(s) \in Nat /\ i \in 1 .. Len(s) /\ s[i] = r /\ Rank(S, R, r) \in Nat
    BY <1>1, RankGrows DEF Ranked
  <1>3. SliceIs(u, S, s, from, to)
    BY <1>2, SliceElements
  <1> HIDE DEF u
  <1>4. u \in Seq(S) /\ DOMAIN u = 1 .. Len(u) /\ i - from \in 1 .. Len(u)
    BY <1>2, <1>3 DEF SliceIs
  <1>5. from + (i - from) = i
    BY <1>2
  <1>6. u[i - from] = r
    BY <1>2, <1>3, <1>4, <1>5 DEF SliceIs
  <1> QED
    BY <1>4, <1>6 DEF ToSet, u

LEMMA DeliverKeeps ==
    ASSUME ListInv, ~done, NEW page \in Seq(Rows), NEW more \in BOOLEAN, Deliver(page, more),
           covered' => offset = 0 \/ covered,
           covered' /\ (tool = "get_thread" => ~Tied) =>
              \E s : Sorts(s, AllRows, Promised) /\ PageOf(page, more, s)
    PROVE  ListInv'
  <1> DEFINE w == offset + Limit
  <1>1. ListTypeOK /\ offset \in Nat /\ Limit \in Nat /\ Limit > 0 /\ w \in Nat /\ 0 \in Nat
    BY ListingAssumption DEF ListInv, ListTypeOK
  <1>2. /\ UNCHANGED <<tool, box, time, position>> /\ got' = got \o page /\ done' = ~more
        /\ offset' = (IF more THEN w ELSE offset)
        /\ first' = IF offset = 0 THEN AllRows ELSE first
        /\ grown' = (offset # 0 /\ grown) /\ shrunk' = (offset # 0 /\ shrunk)
        /\ reordered' = (offset # 0 /\ reordered)
    BY DEF Deliver
  <1>3. AllRows' = AllRows /\ Promised' = Promised /\ Tied' = Tied
    BY <1>2, SameOrder DEF AllRows, Tied
  <1>4. AllRows \in SUBSET Rows /\ IsFiniteSet(AllRows) /\ StrictOrder(Promised, AllRows)
    BY <1>1, RowsAre, RowSets
  <1>5. ListTypeOK'
    BY <1>1, <1>2, <1>4 DEF ListTypeOK, Placings
  <1>6. offset' = 0 /\ ~done' => got' = <<>>
    <2>1. w > 0
      BY <1>1
    <2> HIDE DEF w
    <2>2. CASE more
      BY <1>2, <2>1, <2>2
    <2>3. CASE ~more
      BY <1>2, <2>3
    <2> QED
      BY <2>2, <2>3
  <1>7. ASSUME Quiet' PROVE (offset # 0 => Quiet)
                            /\ \E s : Sorts(s, AllRows, Promised) /\ PageOf(page, more, s)
    BY <1>2, <1>3, <1>7 DEF Quiet, TiesSettled
  <1>8. ASSUME Quiet'
        PROVE  /\ first' \subseteq AllRows'
               /\ \A r \in first' : done' \/ Rank(AllRows', Promised', r) < offset'
                                      => r \in ToSet(got')
    <2>1. PICK s : Sorts(s, AllRows, Promised) /\ PageOf(page, more, s)
      BY <1>7, <1>8
    <2>2. first' \subseteq AllRows
      BY <1>2, <1>7, <1>8 DEF ListInv
    <2>3. ASSUME NEW r \in first', done' \/ Rank(AllRows, Promised, r) < offset'
          PROVE  r \in ToSet(got')
      <3> DEFINE k == Rank(AllRows, Promised, r)
      <3>1. ToSet(got') = ToSet(got) \cup ToSet(page)
        BY <1>1, <1>2, ConcatElements DEF ListTypeOK
      <3>2. Ranked(s, AllRows, Promised) /\ r \in AllRows
        BY <1>4, <2>1, <2>2, SortedRanks
      <3>3. k \in Nat /\ k + 1 \in 1 .. Len(s) /\ Len(s) \in Nat
        BY <1>4, <3>2, RankGrows DEF Ranked
      <3> HIDE DEF k
      <3>4. CASE k < offset
        <4>1. offset # 0 /\ r \in first
          BY <1>1, <1>2, <3>3, <3>4
        <4> QED
          BY <1>7, <1>8, <3>1, <3>4, <4>1 DEF ListInv, k
      <3>5. CASE ~(k < offset)
        <4>1. k < w
          <5>1. CASE more
            <6>1. offset' = w /\ ~done'
              BY <1>2, <5>1
            <6> QED
              BY <2>3, <6>1 DEF k
          <5>2. CASE ~more
            <6>1. Len(s) <= w
              BY <1>1, <2>1, <3>3, <5>2 DEF PageOf
            <6> HIDE DEF w
            <6> QED
              BY <1>1, <3>3, <6>1
          <5> QED
            BY <5>1, <5>2
        <4>2. offset <= k
          BY <1>1, <3>3, <3>5
        <4>3. r \in ToSet(Slice(s, offset, w))
          BY <1>1, <1>4, <2>1, <3>2, <4>1, <4>2, InPage DEF k
        <4> QED
          BY <2>1, <3>1, <4>3 DEF PageOf
      <3> QED
        BY <3>4, <3>5
    <2> QED
      BY <1>3, <2>2, <2>3
  <1>9. ASSUME Quiet', ~grown'
        PROVE  \E s : /\ Sorts(s, AllRows', Promised')
                      /\ got' = IF done' THEN s ELSE Slice(s, 0, offset')
    <2>1. PICK s : Sorts(s, AllRows, Promised) /\ PageOf(page, more, s)
      BY <1>7, <1>9
    <2>2. s \in Seq(AllRows)
      <3>1. Ranked(s, AllRows, Promised)
        BY <1>4, <2>1, SortedRanks
      <3> QED
        BY <3>1 DEF Ranked
    <2>3. got = Slice(s, 0, offset)
      <3>1. CASE offset = 0
        <4>1. SliceIs(Slice(s, 0, 0), AllRows, s, 0, 0)
          BY <1>1, <2>2, SliceElements
        <4>2. Slice(s, 0, 0) = <<>>
          BY <4>1, EmptySeq DEF SliceIs
        <4> QED
          BY <3>1, <4>2 DEF ListInv
      <3>2. CASE offset # 0
        <4>1. PICK u : Sorts(u, AllRows, Promised) /\ got = Slice(u, 0, offset)
          BY <1>2, <1>7, <1>9, <3>2 DEF ListInv
        <4>2. u = s
          BY <1>4, <2>1, <4>1, SortUnique
        <4> QED
          BY <4>1, <4>2
      <3> QED
        BY <3>1, <3>2
    <2>4. got' = Slice(s, 0, w)
      BY <1>1, <1>2, <2>1, <2>2, <2>3, PageAfterPage DEF PageOf
    <2>5. ~more => Slice(s, 0, w) = s
      BY <1>1, <2>1, <2>2, WholeSlice DEF PageOf
    <2>6. got' = IF done' THEN s ELSE Slice(s, 0, offset')
      BY <1>2, <2>4, <2>5
    <2> QED
      BY <1>3, <2>1, <2>6
  <1> QED
    BY <1>5, <1>6, <1>8, <1>9 DEF ListInv

(* The pages of an uncovered thread are rows all the same.                 *)
LEMMA ThreadRows ==
    ASSUME ListTypeOK, NEW open \in SUBSET Folders, NEW found,
           found = UNION {ToSet(Slice(ExchangeOrder(box[f]), 0, ThreadWindow)) : f \in open}
    PROVE  Slice(ByTimeAndId(found), offset, offset + Limit) \in Seq(Rows)
  <1>1. offset \in Nat /\ offset + Limit \in Nat /\ ThreadWindow \in Nat /\ 0 \in Nat
    BY ListingAssumption DEF ListTypeOK, ThreadWindow
  <1>2. ASSUME NEW f \in open PROVE ToSet(Slice(ExchangeOrder(box[f]), 0, ThreadWindow)) \subseteq Rows
    <2> DEFINE B == box[f]
               e == ExchangeOrder(B)
               t == Slice(e, 0, ThreadWindow)
    <2>1. B \in SUBSET Rows
      BY DEF ListTypeOK
    <2>2. Sorts(e, B, Listed) /\ IsFiniteSet(B) /\ StrictOrder(Listed, B)
      BY <2>1, ExchangeSorts, RowSets
    <2> HIDE DEF B, e
    <2>3. Ranked(e, B, Listed)
      BY <2>2, SortedRanks
    <2>4. e \in Seq(B)
      BY <2>3 DEF Ranked
    <2>5. SliceIs(t, B, e, 0, ThreadWindow)
      BY <1>1, <2>4, SliceElements
    <2> HIDE DEF t
    <2>6. ToSet(t) \subseteq B
      BY <2>5, NoElements DEF SliceIs
    <2> QED
      BY <2>1, <2>6 DEF t, e, B
  <1>3. found \in SUBSET Rows
    BY <1>2
  <1> DEFINE u == ByTimeAndId(found)
  <1>4. Sorts(u, found, Written) /\ IsFiniteSet(found) /\ StrictOrder(Written, found)
    BY <1>3, ThreadSorts, RowSets
  <1> HIDE DEF u
  <1>5. Ranked(u, found, Written)
    BY <1>4, SortedRanks
  <1>6. u \in Seq(Rows)
    <2>1. u \in Seq(found)
      BY <1>5 DEF Ranked
    <2> QED
      BY <1>3, <2>1
  <1> DEFINE to == offset + Limit
  <1>7. SliceIs(Slice(u, offset, to), Rows, u, offset, to)
    <2> HIDE DEF to
    <2> QED
      BY <1>1, <1>6, SliceElements DEF to
  <1> QED
    BY <1>7 DEF SliceIs, u

LEMMA ListStep == ListInv /\ [ListingNext]_listVars => ListInv'
  <1> SUFFICES ASSUME ListInv, [ListingNext]_listVars PROVE ListInv'
    OBVIOUS
  <1>0. ListTypeOK
    BY DEF ListInv
  <1>1. CASE Page
    <2> DEFINE s == ExchangeOrder(box["inbox"])
    <2>1. PICK rows \in Answers(Slice(s, offset, Window(tool))) :
             ~Raises(rows) /\ Deliver(Slice(rows, 0, Limit), HasMore(tool, rows))
      BY <1>1 DEF Page
    <2>2. tool # "get_thread" /\ ~done /\ covered' = covered
      BY <1>1 DEF Page
    <2> DEFINE page == Slice(rows, 0, Limit)
               more == HasMore(tool, rows)
    <2>3. Sorts(s, AllRows, Promised) /\ PageOf(page, more, s)
      BY <1>0, <2>1, <2>2, SinglePages
    <2>4. more \in BOOLEAN
      <3>1. CASE tool = "list_events"
        BY <3>1 DEF HasMore
      <3>2. CASE tool # "list_events"
        BY <3>2 DEF HasMore
      <3> QED
        BY <3>1, <3>2
    <2> HIDE DEF s, page, more
    <2>5. page \in Seq(Rows)
      <3>1. AllRows \in SUBSET Rows /\ IsFiniteSet(AllRows) /\ StrictOrder(Promised, AllRows)
        BY <1>0, RowsAre, RowSets
      <3>2. Ranked(s, AllRows, Promised)
        BY <2>3, <3>1, SortedRanks
      <3>3. s \in Seq(AllRows)
        BY <3>2 DEF Ranked
      <3>4. s \in Seq(Rows)
        BY <3>1, <3>3
      <3> DEFINE to == offset + Limit
      <3>5. offset \in Nat /\ to \in Nat
        BY <1>0, ListingAssumption DEF ListTypeOK
      <3>6. page = Slice(s, offset, to)
        BY <2>3 DEF PageOf
      <3> HIDE DEF to
      <3>7. SliceIs(page, Rows, s, offset, to)
        BY <3>4, <3>5, <3>6, SliceElements
      <3> QED
        BY <3>7 DEF SliceIs
    <2>6. Deliver(page, more)
      BY <2>1 DEF page, more
    <2> QED
      BY <2>2, <2>3, <2>4, <2>5, <2>6, DeliverKeeps
  <1>2. CASE ThreadPage
    <2>1. PICK open \in SUBSET Folders \ {{}} :
             LET found == UNION {ToSet(Slice(ExchangeOrder(box[f]), 0, ThreadWindow)) :
                                    f \in open}
             IN  /\ Deliver(Slice(ByTimeAndId(found), offset, offset + Limit),
                            Cardinality(found) > offset + Limit)
                 /\ covered' = (open = Folders /\ (offset = 0 \/ covered))
      BY <1>2 DEF ThreadPage
    <2> DEFINE found == UNION {ToSet(Slice(ExchangeOrder(box[f]), 0, ThreadWindow)) : f \in open}
               page == Slice(ByTimeAndId(found), offset, offset + Limit)
               more == Cardinality(found) > offset + Limit
    <2>2. Deliver(page, more) /\ covered' = (open = Folders /\ (offset = 0 \/ covered))
      BY <2>1
    <2>3. tool = "get_thread" /\ ~done
      BY <1>2 DEF ThreadPage
    <2>4. more \in BOOLEAN
      OBVIOUS
    <2>5. page \in Seq(Rows)
      BY <1>0, ThreadRows
    <2>6. ASSUME covered', ~Tied PROVE \E s : Sorts(s, AllRows, Promised) /\ PageOf(page, more, s)
      <3>1. found = UNION {ToSet(Slice(ExchangeOrder(box[f]), 0, ThreadWindow)) : f \in Folders}
        BY <2>2, <2>6
      <3> HIDE DEF found
      <3>2. /\ Sorts(ByTimeAndId(AllRows), AllRows, Promised)
            /\ PageOf(page, more, ByTimeAndId(AllRows))
        BY <1>0, <2>3, <2>6, <3>1, MergedPages
      <3> QED
        BY <3>2
    <2> HIDE DEF page, more, found
    <2> QED
      BY <2>2, <2>3, <2>4, <2>5, <2>6, DeliverKeeps
  <1>3. CASE Arrive
    <2>1. PICK r \in Rows \ AllRows, f \in Folders :
             /\ tool # "get_thread" => f = "inbox"
             /\ box' = [box EXCEPT ![f] = @ \cup {r}]
      BY <1>3 DEF Arrive
    <2>2. /\ ~done /\ grown' = TRUE
          /\ UNCHANGED <<tool, time, offset, got, done, covered, position, shrunk, reordered, first>>
      BY <1>3 DEF Arrive
    <2>3. Promised' = Promised
      BY <2>2, SameOrder
    <2>4. /\ \A g \in Folders : box'[g] \in SUBSET Rows /\ box[g] \subseteq box'[g]
          /\ box' \in [Folders -> SUBSET Rows]
          /\ tool # "get_thread" => box'["sent"] = {}
      BY <1>0, <2>1 DEF ListTypeOK, Folders
    <2>5. ListTypeOK'
      BY <1>0, <2>2, <2>4 DEF ListTypeOK, Placings
    <2>6. AllRows \subseteq AllRows' /\ AllRows' \in SUBSET Rows
      BY <2>4 DEF AllRows, Folders
    <2>7. Tied => Tied'
      BY <2>2, <2>4 DEF Tied
    <2>8. \A x : Rank(AllRows, Promised, x) \in Nat /\ Rank(AllRows', Promised, x) \in Nat
                 /\ Rank(AllRows, Promised, x) <= Rank(AllRows', Promised, x)
      <3> DEFINE S == AllRows'
                 T == AllRows
      <3>1. IsFiniteSet(S) /\ T \in SUBSET S
        BY <1>0, <2>6, RowSets
      <3> HIDE DEF S, T
      <3>2. \A x : /\ Rank(T, Promised, x) \in Nat /\ Rank(S, Promised, x) \in Nat
                   /\ Rank(T, Promised, x) <= Rank(S, Promised, x)
        BY <3>1, RankGrows
      <3> QED
        BY <3>2 DEF S, T
    <2>9. ASSUME Quiet'
          PROVE  /\ first' \subseteq AllRows'
                 /\ \A x \in first' : done' \/ Rank(AllRows', Promised', x) < offset'
                                        => x \in ToSet(got')
      <3>1. Quiet
        BY <2>2, <2>7, <2>9 DEF Quiet, TiesSettled
      <3>2. /\ first \subseteq AllRows
            /\ \A x \in first : Rank(AllRows, Promised, x) < offset => x \in ToSet(got)
        BY <3>1 DEF ListInv
      <3>3. offset \in Nat
        BY <1>0 DEF ListTypeOK
      <3> QED
        BY <2>2, <2>3, <2>6, <2>8, <3>2, <3>3
    <2> QED
      BY <2>2, <2>5, <2>9 DEF ListInv
  <1>4. CASE Leave
    <2>1. PICK f \in Folders : \E r \in box[f] : box' = [box EXCEPT ![f] = @ \ {r}]
      BY <1>4 DEF Leave
    <2>2. /\ ~done /\ offset # 0 /\ shrunk' = TRUE
          /\ UNCHANGED <<tool, time, offset, got, done, covered, position, grown, reordered, first>>
      BY <1>4 DEF Leave
    <2>3. box' \in [Folders -> SUBSET Rows] /\ (tool # "get_thread" => box'["sent"] = {})
      BY <1>0, <2>1 DEF ListTypeOK, Folders
    <2>4. ListTypeOK'
      BY <1>0, <2>2, <2>3 DEF ListTypeOK, Placings
    <2> QED
      BY <2>2, <2>4 DEF ListInv, Quiet
  <1>5. CASE Reorder
    <2>1. /\ ~done /\ reordered' = TRUE /\ position' \in Placings
          /\ UNCHANGED <<tool, box, time, offset, got, done, covered, grown, shrunk, first>>
      BY <1>5 DEF Reorder
    <2>2. ListTypeOK'
      BY <1>0, <2>1 DEF ListTypeOK, Placings
    <2>3. CASE tool = "get_thread"
      <3>1. Promised' = Promised
        BY <2>1, <2>3 DEF Promised, Written, WrittenBefore
      <3>2. AllRows' = AllRows /\ (Quiet' <=> Quiet)
        BY <2>1, <2>3 DEF AllRows, Quiet, TiesSettled, Tied
      <3> QED
        BY <2>1, <2>2, <3>1, <3>2 DEF ListInv
    <2>4. CASE tool # "get_thread"
      BY <2>1, <2>2, <2>4 DEF ListInv, Quiet, TiesSettled
    <2> QED
      BY <2>3, <2>4
  <1>6. CASE UNCHANGED listVars
    <2>1. UNCHANGED <<tool, box, time, offset, got, done, covered, position, grown, shrunk,
                      reordered, first>>
      BY <1>6 DEF listVars
    <2>2. Promised' = Promised /\ AllRows' = AllRows
      BY <2>1, SameOrder DEF AllRows
    <2>3. ListTypeOK'
      BY <1>0, <2>1 DEF ListTypeOK, Placings
    <2>4. Quiet' <=> Quiet
      BY <2>1 DEF Quiet, TiesSettled, Tied
    <2> QED
      BY <2>1, <2>2, <2>3, <2>4 DEF ListInv
  <1> QED
    BY <1>1, <1>2, <1>3, <1>4, <1>5, <1>6 DEF ListingNext

LEMMA InitList == ListingInit => ListInv
  <1> SUFFICES ASSUME ListingInit PROVE ListInv
    OBVIOUS
  <1>1. ListTypeOK
    BY DEF ListingInit, ListTypeOK, Folders
  <1>2. AllRows = {} /\ first = {} /\ got = <<>> /\ offset = 0 /\ ~done
    BY DEF ListingInit, AllRows, Folders
  <1>3. PICK s : Sorts(s, AllRows, Promised)
    BY <1>1, RowsAre, RowSets, SortExists
  <1>4. Slice(s, 0, 0) = <<>>
    <2>1. s \in Seq({})
      <3>1. IsFiniteSet(AllRows) /\ StrictOrder(Promised, AllRows)
        BY <1>1, RowsAre, RowSets
      <3>2. Ranked(s, AllRows, Promised)
        BY <1>3, <3>1, SortedRanks
      <3> QED
        BY <1>2, <3>2 DEF Ranked
    <2>2. SliceIs(Slice(s, 0, 0), {}, s, 0, 0)
      BY <2>1, SliceElements
    <2> QED
      BY <2>2, EmptySeq DEF SliceIs
  <1> QED
    BY <1>1, <1>2, <1>3, <1>4 DEF ListInv

(* Between two calls the agent has every row of the first page's listing  *)
(* that ranks below its offset now, and, if nothing changed, a prefix of   *)
(* the listing.                                                            *)
THEOREM ListInvariance == ListingSpec => []ListInv
  BY InitList, ListStep, PTL DEF ListingSpec

(* An agent that follows the offsets of find_message, list_tasks,          *)
(* list_events or get_thread to the end has every row of its first page's  *)
(* listing that did not leave, for any number of rows, page size and times.*)
THEOREM NothingIsSkipped == ListingSpec => []NothingSkipped
  <1>1. ListInv => NothingSkipped
    BY DEF ListInv, NothingSkipped, Quiet
  <1> QED
    BY <1>1, ListInvariance, PTL

(* While nothing changes its pages are the listing, each row once and in   *)
(* order.                                                                  *)
THEOREM PagesAreTheListing == ListingSpec => []StillListingExact
  <1>1. ListInv => StillListingExact
    <2> SUFFICES ASSUME ListInv, done, Quiet, ~grown
                 PROVE  got = IF tool = "get_thread" THEN ByTimeAndId(AllRows)
                                                     ELSE ExchangeOrder(box["inbox"])
      BY DEF StillListingExact, Quiet
    <2>1. PICK s : Sorts(s, AllRows, Promised) /\ got = s
      BY DEF ListInv
    <2>2. ListTypeOK
      BY DEF ListInv
    <2>3. AllRows \in SUBSET Rows /\ IsFiniteSet(AllRows) /\ StrictOrder(Promised, AllRows)
      BY <2>2, RowsAre, RowSets
    <2>4. CASE tool = "get_thread"
      <3>1. Sorts(ByTimeAndId(AllRows), AllRows, Promised)
        BY <2>2, <2>3, <2>4, ThreadSorts DEF Promised
      <3> QED
        BY <2>1, <2>3, <2>4, <3>1, SortUnique
    <2>5. CASE tool # "get_thread"
      <3>1. AllRows = box["inbox"]
        BY <2>2, <2>5, RowsAre
      <3>2. Sorts(ExchangeOrder(AllRows), AllRows, Promised)
        BY <2>2, <2>3, <2>5, ExchangeSorts DEF Promised
      <3>3. got = ExchangeOrder(AllRows)
        BY <2>1, <2>3, <3>2, SortUnique
      <3> QED
        BY <2>5, <3>1, <3>3
    <2> QED
      BY <2>4, <2>5
  <1> QED
    BY <1>1, ListInvariance, PTL
=============================================================================
