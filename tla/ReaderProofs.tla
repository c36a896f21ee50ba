---------------------------- MODULE ReaderProofs ----------------------------
(***************************************************************************)
(* Theorems about Briefing for any symbols, histories, answers, clocks,    *)
(* thresholds, budgets and requests: the types, and what the briefing, the *)
(* table and the announcements promise their reader.                       *)
(*                                                                         *)
(* The order of the lemmas is that of the code: what sorting and the       *)
(* budgets of scoring.ts do with any set of signals, what the statistics   *)
(* and the detectors return, what reconcile.ts and the clocks return, the  *)
(* weights and scores; then the invariant and the theorems.                *)
(***************************************************************************)
EXTENDS Briefing, FiniteSetTheorems, WellFoundedInduction, TLAPS

-----------------------------------------------------------------------------
(* Orders on finite sets. *)

Strict(S, before) ==
  /\ \A x \in S : <<x, x>> \notin before
  /\ \A x, y, z \in S : <<x, y>> \in before /\ <<y, z>> \in before => <<x, z>> \in before

(* A nonempty set of natural numbers has a least member. *)
LEMMA LeastMember ==
  ASSUME NEW S \in SUBSET Nat, S # {}
  PROVE  \E x \in S : \A y \in S : x <= y
<1> DEFINE R == OpToRel(<, Nat)
<1>1. \E x \in S : \A y \in S : ~(<<y, x>> \in R)
  <2> HIDE DEF R
  <2>1. IsWellFoundedOn(R, Nat)
    BY NatLessThanWellFounded DEF R
  <2>2. QED
    BY <2>1, WFMin
<1>2. PICK x \in S : \A y \in S : ~(<<y, x>> \in R)
  BY <1>1
<1>3. \A y \in S : ~(y < x)
  BY <1>2 DEF OpToRel
<1>4. QED
  BY <1>3

(* A finite set has a first member in any strict order. *)
LEMMA FirstExists ==
  ASSUME NEW S, IsFiniteSet(S), S # {}, NEW before, Strict(S, before)
  PROVE  \E x \in S : \A y \in S : <<y, x>> \notin before
<1> DEFINE Pred(x) == {y \in S : <<y, x>> \in before}
           Counts == {Cardinality(Pred(x)) : x \in S}
<1>1. \A x \in S : IsFiniteSet(Pred(x)) /\ Cardinality(Pred(x)) \in Nat
  <2>1. \A x \in S : Pred(x) \in SUBSET S
    OBVIOUS
  <2>2. QED
    BY <2>1, FS_Subset, FS_CardinalityType
<1>2. Counts \in SUBSET Nat /\ Counts # {}
  BY <1>1
<1>3. PICK n \in Counts : \A m \in Counts : n <= m
  <2> HIDE DEF Counts
  <2>1. QED
    BY <1>2, LeastMember
<1>4. PICK x \in S : \A y \in S : Cardinality(Pred(x)) <= Cardinality(Pred(y))
  BY <1>3
<1>5. ASSUME NEW y \in S, <<y, x>> \in before PROVE FALSE
  <2>1. Pred(y) \in SUBSET Pred(x) /\ y \in Pred(x) /\ y \notin Pred(y)
    BY <1>5 DEF Strict
  <2>2. Cardinality(Pred(y)) <= Cardinality(Pred(x)) /\
        (Cardinality(Pred(y)) = Cardinality(Pred(x)) => Pred(x) = Pred(y))
    <3> HIDE DEF Pred
    <3>1. QED
      BY <1>1, <2>1, FS_Subset
  <2>3. Cardinality(Pred(x)) <= Cardinality(Pred(y))
    BY <1>4
  <2>4. Cardinality(Pred(x)) \in Nat /\ Cardinality(Pred(y)) \in Nat
    BY <1>1
  <2>5. Cardinality(Pred(y)) = Cardinality(Pred(x))
    BY <2>2, <2>3, <2>4
  <2>6. QED
    BY <2>1, <2>2, <2>5
<1>6. QED
  BY <1>5

(* Numbers: the two ends of a finite set. *)
LEMMA Extremes ==
  ASSUME NEW S \in SUBSET Int, IsFiniteSet(S), S # {}
  PROVE  /\ Max(S) \in S /\ \A y \in S : y <= Max(S)
         /\ Min(S) \in S /\ \A y \in S : Min(S) <= y
<1> DEFINE Up == {p \in S \X S : p[1] > p[2]}
           Down == {p \in S \X S : p[1] < p[2]}
<1>1. Strict(S, Up) /\ Strict(S, Down)
  BY DEF Strict
<1>2. \E x \in S : \A y \in S : <<y, x>> \notin Up
  <2> HIDE DEF Up, Down
  <2>1. QED
    BY <1>1, FirstExists
<1>3. \E x \in S : \A y \in S : <<y, x>> \notin Down
  <2> HIDE DEF Up, Down
  <2>1. QED
    BY <1>1, FirstExists
<1>4. \E x \in S : \A y \in S : x >= y
  <2>1. PICK x \in S : \A y \in S : <<y, x>> \notin Up
    BY <1>2
  <2>2. \A y \in S : ~(y > x)
    BY <2>1
  <2>3. QED
    BY <2>2
<1>5. \E x \in S : \A y \in S : x <= y
  <2>1. PICK x \in S : \A y \in S : <<y, x>> \notin Down
    BY <1>3
  <2>2. \A y \in S : ~(y < x)
    BY <2>1
  <2>3. QED
    BY <2>2
<1>6. QED
  BY <1>4, <1>5 DEF Max, Min

-----------------------------------------------------------------------------
(* Sorted. *)

Enumerates(q, S) ==
  /\ q \in [1 .. Cardinality(S) -> S]
  /\ \A i, j \in DOMAIN q : q[i] = q[j] => i = j
  /\ ToSet(q) = S

(* Sorted is the last of a chain of prefixes. *)
LEMMA SortedFirst ==
  ASSUME NEW S, IsFiniteSet(S), NEW before
  PROVE  \E f : /\ f = [n \in 0 .. Cardinality(S) |->
                          IF n = 0 THEN <<>> ELSE Extended(f[n - 1], S, before)]
                /\ Sorted(S, before) = f[Cardinality(S)]
<1> DEFINE N == Cardinality(S)
           Good(m, f) == f = [n \in 0 .. m |->
                                IF n = 0 THEN <<>> ELSE Extended(f[n - 1], S, before)]
           Bad == {m \in 0 .. N : \A f : ~Good(m, f)}
<1>1. N \in Nat
  BY FS_CardinalityType
<1>2. Bad = {}
  <2> SUFFICES ASSUME Bad # {} PROVE FALSE
    OBVIOUS
  <2>1. Bad \in SUBSET Nat
    BY <1>1
  <2>2. PICK m \in Bad : \A k \in Bad : m <= k
    <3> HIDE DEF Bad
    <3>1. QED
      BY <2>1, LeastMember
  <2>3. m # 0
    <3>1. Good(0, [n \in 0 .. 0 |-> <<>>])
      OBVIOUS
    <3>2. QED
      BY <3>1
  <2>4. m - 1 \in 0 .. N /\ m - 1 \notin Bad
    BY <2>1, <2>2, <2>3, <1>1
  <2>5. PICK f : Good(m - 1, f)
    BY <2>4
  <2> DEFINE g == [n \in 0 .. m |-> IF n = m THEN Extended(f[m - 1], S, before) ELSE f[n]]
  <2>6. Good(m, g)
    BY <2>3, <2>4, <2>5
  <2>7. QED
    BY <2>6
<1>3. \E f : Good(N, f)
  BY <1>1, <1>2
<1>4. QED
  BY <1>3 DEF Sorted

(* A list has no more members than places. *)
LEMMA FewDistinct ==
  ASSUME NEW n \in Nat, NEW S, NEW q \in [1 .. n -> S]
  PROVE  IsFiniteSet(ToSet(q)) /\ Cardinality(ToSet(q)) <= n /\ Cardinality(ToSet(q)) \in Nat
<1>1. ExistsSurjection(1 .. n, ToSet(q))
  <2>1. q \in Surjection(1 .. n, ToSet(q))
    BY DEF Surjection, ToSet
  <2>2. QED
    BY <2>1 DEF ExistsSurjection
<1>2. QED
  BY <1>1, FS_SurjCardinalityBound, FS_NatSurjection, FS_CardinalityType

(* A list that repeats nothing has as many members as places. *)
LEMMA AllDistinct ==
  ASSUME NEW n \in Nat, NEW S, NEW q \in [1 .. n -> S],
         \A i, j \in 1 .. n : q[i] = q[j] => i = j
  PROVE  Cardinality(ToSet(q)) = n
<1>1. q \in Bijection(1 .. n, ToSet(q))
  BY DEF Surjection, Injection, Bijection, ToSet, IsInjective
<1>2. ExistsBijection(1 .. n, ToSet(q))
  BY <1>1 DEF ExistsBijection
<1>3. QED
  BY <1>2, FS_CountingElements

(* Sorting a finite set lists each of its members once. *)
LEMMA SortedEnumerates ==
  ASSUME NEW S, IsFiniteSet(S), NEW before, Strict(S, before)
  PROVE  Enumerates(Sorted(S, before), S) /\ Cardinality(S) \in Nat
<1> DEFINE N == Cardinality(S)
<1>1. N \in Nat
  BY FS_CardinalityType
<1>2. PICK f : /\ f = [n \in 0 .. N |->
                         IF n = 0 THEN <<>> ELSE Extended(f[n - 1], S, before)]
               /\ Sorted(S, before) = f[N]
  BY SortedFirst
<1>3. f[0] = <<>> /\ \A n \in 1 .. N : f[n] = Extended(f[n - 1], S, before)
  BY <1>1, <1>2
<1> DEFINE Good(n) == /\ f[n] \in Seq(S) /\ Len(f[n]) = n
                      /\ \A i, j \in 1 .. n : f[n][i] = f[n][j] => i = j
           Bad == {n \in 0 .. N : ~Good(n)}
<1>4. Bad = {}
  <2> SUFFICES ASSUME Bad # {} PROVE FALSE
    OBVIOUS
  <2>1. Bad \in SUBSET Nat
    BY <1>1
  <2>2. PICK n \in Bad : \A k \in Bad : n <= k
    <3> HIDE DEF Bad
    <3>1. QED
      BY <2>1, LeastMember
  <2>3. n # 0
    <3>1. Good(0)
      BY <1>3
    <3>2. QED
      BY <3>1
  <2>4. n - 1 \in 0 .. N /\ n \in 1 .. N /\ Good(n - 1)
    BY <2>1, <2>2, <2>3, <1>1
  <2> DEFINE q == f[n - 1]
             T == S \ ToSet(q)
  <2>5. q \in Seq(S) /\ Len(q) = n - 1 /\ n - 1 \in Nat
    BY <2>4
  <2>6. IsFiniteSet(ToSet(q)) /\ Cardinality(ToSet(q)) <= n - 1
    <3>1. q \in [1 .. n - 1 -> S]
      BY <2>5
    <3> HIDE DEF q
    <3>2. QED
      BY <3>1, <2>5, FewDistinct
  <2>7. T # {} /\ IsFiniteSet(T)
    <3>1. T = {} => ToSet(q) = S
      BY <2>5 DEF ToSet
    <3>2. ToSet(q) # S
      BY <2>4, <2>6, <1>1
    <3>3. QED
      BY <3>1, <3>2, FS_Difference
  <2>8. Foremost(T, before) \in T
    <3>1. Strict(T, before)
      BY DEF Strict
    <3>2. \E x \in T : \A y \in T : <<y, x>> \notin before
      <4> HIDE DEF T
      <4>1. QED
        BY <2>7, <3>1, FirstExists
    <3>3. QED
      BY <3>2 DEF Foremost
  <2>9. f[n] = Append(q, Foremost(T, before))
    BY <1>3, <2>4 DEF Extended
  <2> DEFINE x == Foremost(T, before)
  <2>10. x \in S /\ \A i \in 1 .. n - 1 : q[i] # x
    <3>1. DOMAIN q = 1 .. n - 1
      BY <2>5
    <3>2. x \in S /\ x \notin ToSet(q)
      BY <2>8
    <3> HIDE DEF x, q, T
    <3>3. QED
      BY <3>1, <3>2 DEF ToSet
  <2> HIDE DEF x, T
  <2>11. f[n] = Append(q, x)
    BY <2>9 DEF x
  <2>12. Good(n)
    <3>1. \A i, j \in 1 .. n - 1 : q[i] = q[j] => i = j
      BY <2>4
    <3> HIDE DEF q
    <3>2. f[n] \in Seq(S) /\ Len(f[n]) = n
      BY <2>11, <2>10, <2>5
    <3>3. \A i \in 1 .. n : f[n][i] = IF i = n THEN x ELSE q[i]
      BY <2>11, <2>10, <2>5
    <3>4. QED
      BY <3>1, <3>2, <3>3, <2>10, <2>5
  <2>13. QED
    BY <2>12
<1>5. Good(N)
  BY <1>1, <1>4
<1> DEFINE q == Sorted(S, before)
<1>6. q \in [1 .. N -> S] /\ DOMAIN q = 1 .. N /\ \A i, j \in 1 .. N : q[i] = q[j] => i = j
  <2>1. q \in Seq(S) /\ Len(q) = N /\ \A i, j \in 1 .. N : q[i] = q[j] => i = j
    BY <1>5, <1>2
  <2> HIDE DEF q
  <2>2. QED
    BY <2>1
<1>7. ToSet(q) = S
  <2>1. ToSet(q) \in SUBSET S
    BY <1>6 DEF ToSet
  <2> HIDE DEF q
  <2>2. Cardinality(ToSet(q)) = N
    BY <1>6, <1>1, AllDistinct
  <2>3. QED
    BY <2>1, <2>2, FS_Subset
<1>8. QED
  BY <1>1, <1>6, <1>7 DEF Enumerates

-----------------------------------------------------------------------------
(* The budgets. *)

UpTo(lists, n) == Places([i \in 1 .. n |-> lists[i]])

(* Each list adds its length to the number of places. *)
LEMMA PlacesGrow ==
  ASSUME NEW n \in Nat, NEW X, NEW lists, \A i \in 1 .. n : lists[i] \in Seq(X)
  PROVE  /\ UpTo(lists, 0) = {}
         /\ \A i \in 0 .. n : IsFiniteSet(UpTo(lists, i)) /\ Cardinality(UpTo(lists, i)) \in Nat
         /\ \A i \in 1 .. n : Cardinality(UpTo(lists, i))
                                = Cardinality(UpTo(lists, i - 1)) + Len(lists[i])
         /\ \A i, j \in 0 .. n :
              i <= j => Cardinality(UpTo(lists, i)) <= Cardinality(UpTo(lists, j))
<1>1. UpTo(lists, 0) = {}
  BY DEF UpTo, Places
<1>2. ASSUME NEW i \in 1 .. n
      PROVE  UpTo(lists, i) = UpTo(lists, i - 1) \cup ({i} \X (1 .. Len(lists[i])))
  <2>1. DOMAIN lists[i] = 1 .. Len(lists[i])
    OBVIOUS
  <2>2. 1 .. i = (1 .. i - 1) \cup {i}
    OBVIOUS
  <2>3. QED
    BY <2>1, <2>2 DEF UpTo, Places
<1>3. ASSUME NEW i \in 1 .. n
      PROVE  /\ IsFiniteSet({i} \X (1 .. Len(lists[i])))
             /\ Cardinality({i} \X (1 .. Len(lists[i]))) = Len(lists[i])
             /\ UpTo(lists, i - 1) \cap ({i} \X (1 .. Len(lists[i]))) = {}
  <2>1. Len(lists[i]) \in Nat
    OBVIOUS
  <2>2. IsFiniteSet(1 .. Len(lists[i])) /\ Cardinality(1 .. Len(lists[i])) = Len(lists[i])
    BY <2>1, FS_Interval
  <2>3. IsFiniteSet({i}) /\ Cardinality({i}) = 1
    BY FS_Singleton
  <2>4. Cardinality({i} \X (1 .. Len(lists[i]))) = 1 * Len(lists[i])
    BY <2>2, <2>3, FS_Product
  <2>5. \A p \in UpTo(lists, i - 1) : p[1] # i
    BY DEF UpTo, Places
  <2>6. \A p \in {i} \X (1 .. Len(lists[i])) : p[1] = i
    OBVIOUS
  <2>7. IsFiniteSet({i} \X (1 .. Len(lists[i])))
    BY <2>2, <2>3, FS_Product
  <2> DEFINE A == UpTo(lists, i - 1)
             B == {i} \X (1 .. Len(lists[i]))
  <2>8. A \cap B = {}
    <3>1. (\A p \in A : p[1] # i) /\ (\A p \in B : p[1] = i)
      BY <2>5, <2>6
    <3> HIDE DEF A, B
    <3>2. QED
      BY <3>1
  <2>9. QED
    BY <2>1, <2>4, <2>7, <2>8
<1> DEFINE Bad == {i \in 0 .. n : ~IsFiniteSet(UpTo(lists, i))}
<1>4. Bad = {}
  <2> SUFFICES ASSUME Bad # {} PROVE FALSE
    OBVIOUS
  <2>1. PICK i \in Bad : \A k \in Bad : i <= k
    <3>1. Bad \in SUBSET Nat
      OBVIOUS
    <3> HIDE DEF Bad
    <3>2. QED
      BY <3>1, LeastMember
  <2>2. i # 0
    BY <1>1, FS_EmptySet
  <2>3. i \in 1 .. n /\ i - 1 \in 0 .. n /\ IsFiniteSet(UpTo(lists, i - 1))
    BY <2>1, <2>2
  <2> DEFINE A == UpTo(lists, i - 1)
             B == {i} \X (1 .. Len(lists[i]))
  <2>4. IsFiniteSet(A) /\ IsFiniteSet(B) /\ UpTo(lists, i) = A \cup B
    BY <2>3, <1>2, <1>3
  <2> HIDE DEF A, B
  <2>5. IsFiniteSet(UpTo(lists, i))
    BY <2>4, FS_Union
  <2>6. QED
    BY <2>5
<1>5. \A i \in 0 .. n : IsFiniteSet(UpTo(lists, i)) /\ Cardinality(UpTo(lists, i)) \in Nat
  BY <1>4, FS_CardinalityType
<1>6. ASSUME NEW i \in 1 .. n
      PROVE  Cardinality(UpTo(lists, i)) = Cardinality(UpTo(lists, i - 1)) + Len(lists[i])
  <2>1. i - 1 \in 0 .. n
    OBVIOUS
  <2> DEFINE A == UpTo(lists, i - 1)
             B == {i} \X (1 .. Len(lists[i]))
  <2>2. IsFiniteSet(A) /\ Cardinality(A) \in Nat /\ IsFiniteSet(B)
    BY <2>1, <1>3, <1>5
  <2>3. Cardinality(A \cap B) = 0 /\ Cardinality(B) = Len(lists[i]) /\ Len(lists[i]) \in Nat
    <3>1. A \cap B = {}
      BY <1>3
    <3>2. Cardinality(B) = Len(lists[i])
      BY <1>3
    <3>3. Len(lists[i]) \in Nat
      OBVIOUS
    <3> HIDE DEF A, B
    <3>4. QED
      BY <3>1, <3>2, <3>3, FS_EmptySet
  <2>4. UpTo(lists, i) = A \cup B
    BY <1>2
  <2> HIDE DEF A, B
  <2>5. Cardinality(A \cup B) = Cardinality(A) + Cardinality(B) - Cardinality(A \cap B)
    BY <2>2, FS_Union
  <2>6. Cardinality(UpTo(lists, i)) = Cardinality(A) + Len(lists[i])
    BY <2>2, <2>3, <2>4, <2>5
  <2>7. QED
    BY <2>6 DEF A
<1>7. ASSUME NEW i \in 0 .. n, NEW j \in 0 .. n, i <= j
      PROVE  Cardinality(UpTo(lists, i)) <= Cardinality(UpTo(lists, j))
  <2>1. UpTo(lists, i) \in SUBSET UpTo(lists, j)
    BY <1>7 DEF UpTo, Places
  <2>2. QED
    BY <2>1, <1>5, FS_Subset
<1>8. QED
  BY <1>1, <1>5, <1>6, <1>7

(* A set of numbers that holds with each all smaller ones. *)
LEMMA InitialSegment ==
  ASSUME NEW n \in Nat, NEW J \in SUBSET (1 .. n),
         \A j \in J, i \in 1 .. n : i <= j => i \in J
  PROVE  Cardinality(J) \in 0 .. n /\ J = 1 .. Cardinality(J)
<1>1. CASE J = 1 .. n
  <2>1. Cardinality(1 .. n) = n
    BY FS_Interval
  <2>2. QED
    BY <1>1, <2>1
<1>2. CASE J # 1 .. n
  <2> DEFINE C == (1 .. n) \ J
  <2>1. C \in SUBSET Nat
    OBVIOUS
  <2>2. C # {}
    BY <1>2
  <2>3. PICK c \in C : \A d \in C : c <= d
    <3> HIDE DEF C
    <3>1. QED
      BY <2>1, <2>2, LeastMember
  <2>4. c \in 1 .. n /\ c \notin J /\ \A d \in 1 .. n : d < c => d \in J
    <3>1. \A d \in C : c <= d
      BY <2>3
    <3>2. QED
      BY <2>3, <3>1
  <2>5. \A d \in J : d \in 1 .. n /\ d < c
    <3> SUFFICES ASSUME NEW d \in J, ~(d < c) PROVE FALSE
      OBVIOUS
    <3>1. d \in 1 .. n /\ c <= d
      BY <2>4
    <3>2. QED
      BY <2>4, <3>1
  <2>6. J = 1 .. c - 1
    <3>1. \A d \in 1 .. c - 1 : d \in 1 .. n /\ d < c
      BY <2>4
    <3>2. \A d \in J : d \in 1 .. c - 1
      BY <2>4, <2>5
    <3>3. QED
      BY <2>4, <3>1, <3>2
  <2>7. Cardinality(1 .. c - 1) = c - 1
    <3>1. c - 1 \in Nat
      BY <2>4
    <3>2. QED
      BY <3>1, FS_Interval
  <2>8. QED
    BY <2>4, <2>6, <2>7
<1>3. QED
  BY <1>1, <1>2

(* What the overall budget shows of groups cut to the budget of a symbol. *)
Capped(groups, n, X) ==
  \A i \in 1 .. n : /\ groups[i].sorted \in Seq(X)
                    /\ groups[i].signals = First(groups[i].sorted, MaxPerSymbol)

Shows(groups, i) == First(groups[i].signals, Room(groups, i))
Reached(groups) == Cardinality({j \in DOMAIN groups : Room(groups, j) > 0})

LEMMA FirstOf ==
  ASSUME NEW X, NEW s \in Seq(X), NEW n \in Nat
  PROVE  /\ First(s, n) \in Seq(X) /\ Len(First(s, n)) = Least(n, Len(s))
         /\ Len(First(s, n)) <= n /\ Len(First(s, n)) <= Len(s)
         /\ \A k \in 1 .. Len(First(s, n)) : k \in 1 .. Len(s) /\ First(s, n)[k] = s[k]
         /\ n >= Len(s) => First(s, n) = s
         /\ DOMAIN First(s, n) = 1 .. Len(First(s, n))
<1>1. Least(n, Len(s)) \in 0 .. Len(s) /\ Least(n, Len(s)) <= n
      /\ (n >= Len(s) => Least(n, Len(s)) = Len(s))
  BY DEF Least
<1> DEFINE l == Least(n, Len(s))
<1> HIDE DEF l
<1>2. l \in 0 .. Len(s)
  BY <1>1 DEF l
<1>3. SubSeq(s, 1, l) \in Seq(X) /\ Len(SubSeq(s, 1, l)) = l
      /\ \A k \in 1 .. l : SubSeq(s, 1, l)[k] = s[k]
  BY <1>2
<1>4. l = Len(s) => SubSeq(s, 1, l) = s
  BY <1>3
<1>5. First(s, n) = SubSeq(s, 1, l)
  BY DEF First, l
<1>6. QED
  BY <1>1, <1>2, <1>3, <1>4, <1>5 DEF l

(* The lists the budgets leave, and that they leave no room unused. *)
Budgets(groups, n, X) ==
  LET lists == [i \in 1 .. n |-> Shows(groups, i)]
      m     == Reached(groups)
      shown == Cardinality(UpTo(lists, m))
  IN /\ m \in 0 .. n
     /\ \A i \in 1 .. n : /\ lists[i] \in Seq(X)
                          /\ Len(lists[i]) <= Len(groups[i].sorted)
                          /\ Len(lists[i]) <= MaxPerSymbol
                          /\ \A k \in 1 .. Len(lists[i]) : lists[i][k] = groups[i].sorted[k]
                          /\ i > m => lists[i] = <<>>
     /\ shown <= MaxItems
     /\ (\E i \in 1 .. n : Len(lists[i]) < Len(groups[i].sorted))
          => \/ shown = MaxItems
             \/ \E i \in 1 .. n : Len(lists[i]) = MaxPerSymbol
     /\ MaxPerSymbol > 0 =>
          \A i \in 1 .. n : i <= m /\ Len(groups[i].sorted) > 0 => Len(lists[i]) > 0

(* What the two budgets let through of any groups, and when they cut. *)
LEMMA BudgetKept ==
  ASSUME NEW n \in Nat, NEW X, NEW groups, DOMAIN groups = 1 .. n, Capped(groups, n, X)
  PROVE  Budgets(groups, n, X)
<1> DEFINE lists == [i \in 1 .. n |-> Shows(groups, i)]
           m     == Reached(groups)
           shown == Cardinality(UpTo(lists, m))
           cut   == [i \in 1 .. n |-> groups[i].signals]
           C(i)  == Cardinality(UpTo(cut, i))
           R(i)  == Room(groups, i)
<1>1. MaxItems \in Nat /\ MaxPerSymbol \in Nat
  BY BudgetAssumption
<1>2. \A i \in 1 .. n : /\ cut[i] \in Seq(X)
                        /\ Len(cut[i]) = Least(MaxPerSymbol, Len(groups[i].sorted))
                        /\ \A k \in 1 .. Len(cut[i]) :
                             k \in 1 .. Len(groups[i].sorted) /\ cut[i][k] = groups[i].sorted[k]
  <2> SUFFICES ASSUME NEW i \in 1 .. n
               PROVE  /\ cut[i] \in Seq(X)
                      /\ Len(cut[i]) = Least(MaxPerSymbol, Len(groups[i].sorted))
                      /\ \A k \in 1 .. Len(cut[i]) :
                           k \in 1 .. Len(groups[i].sorted) /\ cut[i][k] = groups[i].sorted[k]
    OBVIOUS
  <2> DEFINE s == groups[i].sorted
  <2>1. s \in Seq(X) /\ cut[i] = First(s, MaxPerSymbol)
    BY DEF Capped
  <2> HIDE DEF s, cut
  <2>2. QED
    BY <2>1, <1>1, FirstOf DEF s
<1>3. /\ \A i \in 0 .. n : C(i) \in Nat
      /\ C(0) = 0
      /\ \A i \in 1 .. n : C(i) = C(i - 1) + Len(cut[i])
      /\ \A i, j \in 0 .. n : i <= j => C(i) <= C(j)
  <2> HIDE DEF cut
  <2>1. \A i \in 1 .. n : cut[i] \in Seq(X)
    BY <1>2
  <2>2. UpTo(cut, 0) = {}
    BY <2>1, PlacesGrow
  <2>3. Cardinality({}) = 0
    BY FS_EmptySet
  <2>4. C(0) = 0
    BY <2>2, <2>3
  <2>5. /\ \A i \in 0 .. n : C(i) \in Nat
        /\ \A i \in 1 .. n : C(i) = C(i - 1) + Len(cut[i])
        /\ \A i, j \in 0 .. n : i <= j => C(i) <= C(j)
    BY <2>1, PlacesGrow
  <2>6. QED
    BY <2>4, <2>5
<1>4. \A i \in 1 .. n : R(i) = Most(0, MaxItems - C(i - 1))
  <2> SUFFICES ASSUME NEW i \in 1 .. n PROVE R(i) = Most(0, MaxItems - C(i - 1))
    OBVIOUS
  <2>1. [j \in 1 .. i - 1 |-> groups[j].signals] = [j \in 1 .. i - 1 |-> cut[j]]
    OBVIOUS
  <2>2. QED
    BY <2>1 DEF Room, UpTo
<1>5. \A i \in 1 .. n : /\ R(i) \in Nat
                        /\ R(i) > 0 => R(i) = MaxItems - C(i - 1)
                        /\ R(i) = 0 => C(i - 1) >= MaxItems
  <2> HIDE DEF C, R
  <2>1. QED
    BY <1>1, <1>3, <1>4 DEF Most
<1>6. m \in 0 .. n /\ \A i \in 1 .. n : R(i) > 0 <=> i <= m
  <2> DEFINE J == {j \in 1 .. n : R(j) > 0}
  <2>1. \A j \in J, i \in 1 .. n : i <= j => i \in J
    <3> SUFFICES ASSUME NEW j \in J, NEW i \in 1 .. n, i <= j PROVE R(i) > 0
      OBVIOUS
    <3> HIDE DEF C, R
    <3>1. C(i - 1) <= C(j - 1) /\ C(i - 1) \in Nat /\ C(j - 1) \in Nat
      BY <1>3
    <3>2. j \in 1 .. n /\ R(j) > 0
      OBVIOUS
    <3>3. QED
      BY <3>1, <3>2, <1>1, <1>5
  <2>2. J \in SUBSET (1 .. n) /\ m = Cardinality(J)
    BY DEF Reached
  <2> HIDE DEF J, m
  <2>3. Cardinality(J) \in 0 .. n /\ J = 1 .. Cardinality(J)
    BY <2>1, <2>2, InitialSegment
  <2>4. QED
    BY <2>2, <2>3 DEF J
<1>7. \A i \in 1 .. n : /\ lists[i] \in Seq(X) /\ Len(lists[i]) = Least(R(i), Len(cut[i]))
                        /\ Len(lists[i]) <= Len(cut[i])
                        /\ \A k \in 1 .. Len(lists[i]) :
                              k \in 1 .. Len(cut[i]) /\ lists[i][k] = cut[i][k]
                        /\ R(i) >= Len(cut[i]) => lists[i] = cut[i]
  <2> SUFFICES ASSUME NEW i \in 1 .. n
               PROVE  /\ lists[i] \in Seq(X) /\ Len(lists[i]) = Least(R(i), Len(cut[i]))
                      /\ Len(lists[i]) <= Len(cut[i])
                      /\ \A k \in 1 .. Len(lists[i]) :
                              k \in 1 .. Len(cut[i]) /\ lists[i][k] = cut[i][k]
                      /\ R(i) >= Len(cut[i]) => lists[i] = cut[i]
    OBVIOUS
  <2>1. lists[i] = First(cut[i], R(i))
    BY DEF Shows
  <2>2. cut[i] \in Seq(X) /\ R(i) \in Nat
    BY <1>2, <1>5
  <2> HIDE DEF lists, cut, R
  <2>3. QED
    BY <2>1, <2>2, FirstOf
<1>8. \A i \in 1 .. n : i < m => lists[i] = cut[i]
  <2> SUFFICES ASSUME NEW i \in 1 .. n, i < m PROVE lists[i] = cut[i]
    OBVIOUS
  <2> HIDE DEF C, R, m, lists
  <2>1. m \in 1 .. n /\ i + 1 <= m /\ i \in 0 .. n /\ m - 1 \in 0 .. n /\ i - 1 \in 0 .. n
    BY <1>6
  <2>2. C(i) <= C(m - 1) /\ C(i) = C(i - 1) + Len(cut[i]) /\ C(m - 1) \in Nat /\ C(i - 1) \in Nat
        /\ C(i) \in Nat
    BY <2>1, <1>3
  <2>3. R(m) > 0 /\ R(m) = MaxItems - C(m - 1)
    BY <2>1, <1>5, <1>6
  <2>4. R(i) > 0 /\ R(i) = MaxItems - C(i - 1)
    BY <2>1, <1>5, <1>6
  <2>5. Len(cut[i]) \in Nat
    BY <1>2
  <2>6. R(i) >= Len(cut[i])
    BY <2>2, <2>3, <2>4, <2>5, <1>1
  <2>7. QED
    BY <2>6, <1>7
<1>9. shown = IF m = 0 THEN 0 ELSE C(m - 1) + Len(lists[m])
  <2>1. \A i \in 1 .. n : lists[i] \in Seq(X)
    BY <1>7
  <2> HIDE DEF lists, m
  <2>2. CASE m = 0
    <3>1. UpTo(lists, 0) = {}
      BY <2>1, PlacesGrow
    <3>2. QED
      BY <2>2, <3>1, FS_EmptySet
  <2>3. CASE m # 0
    <3>1. m \in 1 .. n
      BY <2>3, <1>6
    <3>2. Cardinality(UpTo(lists, m)) = Cardinality(UpTo(lists, m - 1)) + Len(lists[m])
      BY <3>1, <2>1, PlacesGrow
    <3>3. [i \in 1 .. m - 1 |-> lists[i]] = [i \in 1 .. m - 1 |-> cut[i]]
      <4> HIDE DEF cut
      <4>1. \A i \in 1 .. m - 1 : lists[i] = cut[i]
        BY <3>1, <1>8
      <4>2. QED
        BY <4>1
    <3>4. UpTo(lists, m - 1) = UpTo(cut, m - 1)
      BY <3>3 DEF UpTo
    <3>5. QED
      BY <2>3, <3>2, <3>4
  <2>4. QED
    BY <2>2, <2>3
<1> HIDE DEF C, R, m, lists, cut, shown
<1>10. \A i \in 1 .. n : i > m => lists[i] = <<>>
  <2> SUFFICES ASSUME NEW i \in 1 .. n, i > m PROVE lists[i] = <<>>
    OBVIOUS
  <2>1. R(i) = 0 /\ Len(cut[i]) \in Nat
    BY <1>2, <1>5, <1>6
  <2>2. Len(lists[i]) = 0
    BY <2>1, <1>7 DEF Least
  <2>3. QED
    BY <2>2, <1>7
<1>11. shown <= MaxItems
  <2>1. CASE m = 0
    BY <2>1, <1>1, <1>9
  <2>2. CASE m # 0
    <3>1. m \in 1 .. n /\ m - 1 \in 0 .. n
      BY <2>2, <1>6
    <3>2. Len(lists[m]) <= R(m) /\ R(m) = MaxItems - C(m - 1) /\ C(m - 1) \in Nat
          /\ Len(lists[m]) \in Nat
      <4>1. R(m) = MaxItems - C(m - 1) /\ C(m - 1) \in Nat /\ R(m) \in Nat
        BY <3>1, <1>3, <1>5, <1>6
      <4>2. /\ lists[m] \in Seq(X) /\ cut[m] \in Seq(X)
            /\ Len(lists[m]) = Least(R(m), Len(cut[m]))
        BY <3>1, <1>2, <1>7
      <4>3. Len(lists[m]) \in Nat /\ Len(cut[m]) \in Nat
        BY <4>2
      <4>4. QED
        BY <4>1, <4>2, <4>3 DEF Least
    <3>3. QED
      BY <2>2, <3>2, <1>1, <1>9
  <2>3. QED
    BY <2>1, <2>2
<1>12. ASSUME NEW i \in 1 .. n, Len(lists[i]) < Len(groups[i].sorted)
       PROVE  shown = MaxItems \/ Len(lists[i]) = MaxPerSymbol
  <2>1. Len(groups[i].sorted) \in Nat /\ Len(cut[i]) \in Nat /\ Len(lists[i]) \in Nat
    BY <1>2, <1>7 DEF Capped
  <2>2. CASE R(i) >= Len(cut[i])
    <3>1. Len(cut[i]) < Len(groups[i].sorted)
      BY <1>12, <2>2, <1>7
    <3>2. Len(cut[i]) = MaxPerSymbol
      BY <3>1, <2>1, <1>1, <1>2 DEF Least
    <3>3. QED
      BY <2>2, <3>2, <1>7
  <2>3. CASE R(i) < Len(cut[i])
    <3>1. i >= m
      <4>1. i < m => lists[i] = cut[i] /\ Len(lists[i]) = Least(R(i), Len(cut[i]))
        BY <1>8, <1>7
      <4>2. m \in Int /\ R(i) \in Nat
        BY <1>5, <1>6
      <4>3. QED
        BY <4>1, <4>2, <2>1, <2>3 DEF Least
    <3>2. CASE m = 0
      <4>1. 1 \in 1 .. n /\ R(1) = 0 /\ C(0) >= MaxItems
        BY <3>2, <1>5, <1>6
      <4>2. QED
        BY <4>1, <3>2, <1>1, <1>3, <1>9
    <3>3. CASE m # 0
      <4>1. m \in 1 .. n /\ m - 1 \in 0 .. n
        BY <3>3, <1>6
      <4>2. /\ R(m) = MaxItems - C(m - 1) /\ C(m - 1) \in Nat /\ R(m) \in Nat
            /\ Len(cut[m]) \in Nat /\ C(m) = C(m - 1) + Len(cut[m]) /\ C(m) \in Nat
        BY <4>1, <1>2, <1>3, <1>5, <1>6
      <4>3. R(m) <= Len(cut[m])
        <5>1. CASE i = m
          BY <5>1, <2>3, <4>2
        <5>2. CASE i # m
          <6>1. m + 1 \in 1 .. n /\ R(m + 1) = 0
            BY <5>2, <3>1, <4>1, <1>5, <1>6
          <6>2. C(m) >= MaxItems
            BY <6>1, <4>1, <1>5
          <6>3. QED
            BY <6>2, <4>2, <1>1
        <5>3. QED
          BY <5>1, <5>2
      <4>4. Len(lists[m]) = R(m)
        BY <4>1, <4>2, <4>3, <1>7 DEF Least
      <4>5. QED
        BY <3>3, <4>2, <4>4, <1>1, <1>9
    <3>4. QED
      BY <3>2, <3>3
  <2>4. R(i) \in Nat
    BY <1>5
  <2>5. QED
    BY <2>1, <2>2, <2>3, <2>4
<1>13. \A i \in 1 .. n : /\ lists[i] \in Seq(X)
                         /\ Len(lists[i]) <= Len(groups[i].sorted)
                         /\ Len(lists[i]) <= MaxPerSymbol
                         /\ \A k \in 1 .. Len(lists[i]) : lists[i][k] = groups[i].sorted[k]
  <2> SUFFICES ASSUME NEW i \in 1 .. n
               PROVE  /\ lists[i] \in Seq(X)
                      /\ Len(lists[i]) <= Len(groups[i].sorted)
                      /\ Len(lists[i]) <= MaxPerSymbol
                      /\ \A k \in 1 .. Len(lists[i]) : lists[i][k] = groups[i].sorted[k]
    OBVIOUS
  <2>1. Len(groups[i].sorted) \in Nat /\ Len(cut[i]) \in Nat /\ Len(lists[i]) \in Nat
    BY <1>2, <1>7 DEF Capped
  <2>2. Len(lists[i]) <= Len(cut[i]) /\ Len(cut[i]) = Least(MaxPerSymbol, Len(groups[i].sorted))
    BY <1>2, <1>7
  <2>3. Len(lists[i]) <= MaxPerSymbol /\ Len(lists[i]) <= Len(groups[i].sorted)
    BY <2>1, <2>2, <1>1 DEF Least
  <2>4. QED
    BY <2>3, <1>2, <1>7
<1>14. ASSUME MaxPerSymbol > 0, NEW i \in 1 .. n, i <= m, Len(groups[i].sorted) > 0
       PROVE  Len(lists[i]) > 0
  <2>1. Len(groups[i].sorted) \in Nat /\ Len(cut[i]) \in Nat /\ R(i) \in Nat
    BY <1>2, <1>5 DEF Capped
  <2>2. Len(cut[i]) > 0
    BY <1>1, <1>2, <1>14, <2>1 DEF Least
  <2>3. R(i) > 0
    BY <1>6, <1>14
  <2>4. QED
    BY <1>7, <2>1, <2>2, <2>3 DEF Least
<1>15. QED
  BY <1>6, <1>10, <1>11, <1>12, <1>13, <1>14 DEF Budgets, lists, m, shown

(* What a list of lists without repetition lists. *)
Listed(lists, n) == UNION {ToSet(lists[i]) : i \in 1 .. n}

OncePlaced(lists, n) ==
  \A i, j \in 1 .. n : \A k \in 1 .. Len(lists[i]), l \in 1 .. Len(lists[j]) :
    lists[i][k] = lists[j][l] => i = j /\ k = l

(* Lists that share nothing have as many members as places. *)
LEMMA Flattened ==
  ASSUME NEW n \in Nat, NEW X, NEW lists, \A i \in 1 .. n : lists[i] \in Seq(X),
         OncePlaced(lists, n)
  PROVE  /\ IsFiniteSet(Listed(lists, n))
         /\ Cardinality(Listed(lists, n)) = Cardinality(UpTo(lists, n))
<1> DEFINE P == UpTo(lists, n)
           f == [p \in P |-> lists[p[1]][p[2]]]
<1>1. IsFiniteSet(P)
  <2>1. n \in 0 .. n
    OBVIOUS
  <2>2. \A i \in 0 .. n : IsFiniteSet(UpTo(lists, i))
    BY PlacesGrow
  <2>3. QED
    BY <2>1, <2>2
<1>2. \A p \in P : p[1] \in 1 .. n /\ p[2] \in 1 .. Len(lists[p[1]]) /\ p = <<p[1], p[2]>>
  BY DEF UpTo, Places
<1>3. \A i \in 1 .. n : \A k \in 1 .. Len(lists[i]) : <<i, k>> \in P
  BY DEF UpTo, Places
<1>4. \A i \in 1 .. n : ToSet(lists[i]) = {lists[i][k] : k \in 1 .. Len(lists[i])}
  BY DEF ToSet
<1> HIDE DEF P
<1>5. f \in [P -> Listed(lists, n)]
  <2> SUFFICES ASSUME NEW p \in P PROVE lists[p[1]][p[2]] \in Listed(lists, n)
    OBVIOUS
  <2>1. p[1] \in 1 .. n /\ lists[p[1]][p[2]] \in ToSet(lists[p[1]])
    BY <1>2, <1>4
  <2>2. QED
    BY <2>1 DEF Listed
<1>6. \A p, q \in P : f[p] = f[q] => p = q
  <2> SUFFICES ASSUME NEW p \in P, NEW q \in P, f[p] = f[q] PROVE p = q
    OBVIOUS
  <2>1. lists[p[1]][p[2]] = lists[q[1]][q[2]]
    OBVIOUS
  <2>2. p[1] = q[1] /\ p[2] = q[2]
    BY <2>1, <1>2 DEF OncePlaced
  <2>3. QED
    BY <2>2, <1>2
<1>7. \A x \in Listed(lists, n) : \E p \in P : f[p] = x
  <2> SUFFICES ASSUME NEW x \in Listed(lists, n) PROVE \E p \in P : f[p] = x
    OBVIOUS
  <2>1. PICK i \in 1 .. n : x \in ToSet(lists[i])
    BY DEF Listed
  <2>2. PICK k \in 1 .. Len(lists[i]) : x = lists[i][k]
    BY <2>1, <1>4
  <2>3. <<i, k>> \in P /\ f[<<i, k>>] = x
    BY <2>2, <1>3
  <2>4. QED
    BY <2>3
<1> HIDE DEF f
<1>8. f \in Bijection(P, Listed(lists, n))
  BY <1>5, <1>6, <1>7 DEF Bijection, Injection, Surjection, IsInjective
<1>9. ExistsBijection(P, Listed(lists, n))
  BY <1>8 DEF ExistsBijection
<1>10. QED
  BY <1>1, <1>9, FS_Bijection DEF P

(* The groups a set of signals falls into: every signal is in the list of  *)
(* one group, that of its symbol.                                          *)
Grouping(groups, n, ids) ==
  /\ DOMAIN groups = 1 .. n
  /\ Capped(groups, n, ids)
  /\ \A i \in 1 .. n : \A k \in 1 .. Len(groups[i].sorted) :
       SymbolOf(groups[i].sorted[k]) = groups[i].symbol
  /\ OncePlaced([i \in 1 .. n |-> groups[i].sorted], n)
  /\ Listed([i \in 1 .. n |-> groups[i].sorted], n) = ids
  /\ \A i, j \in 1 .. n : groups[i].symbol = groups[j].symbol => i = j
  /\ \A i \in 1 .. n : \E id \in ids : groups[i].symbol = SymbolOf(id)

Rankable(ids, rows, score) ==
  \A id \in ids : score[id] \in Int /\ rows[id].detectedAt \in Int

(* The orders of signals and of groups are strict. *)
LEMMA SignalOrder ==
  ASSUME NEW ids, NEW rows, NEW score, NEW seen, Rankable(ids, rows, score)
  PROVE  Strict(ids, {p \in ids \X ids : bySignalScore(rows, score, seen, p[1], p[2])})
<1> DEFINE B(a, b) == bySignalScore(rows, score, seen, a, b)
           R == {p \in ids \X ids : B(p[1], p[2])}
<1>1. \A a, b \in ids : <<a, b>> \in R <=> B(a, b)
  OBVIOUS
<1>2. \A a \in ids : ~B(a, a)
  BY DEF bySignalScore, Rankable
<1>3. ASSUME NEW a \in ids, NEW b \in ids, NEW c \in ids, B(a, b), B(b, c) PROVE B(a, c)
  <2>1. score[a] \in Int /\ score[b] \in Int /\ score[c] \in Int
        /\ rows[a].detectedAt \in Int /\ rows[b].detectedAt \in Int /\ rows[c].detectedAt \in Int
    BY DEF Rankable
  <2>2. QED
    BY <2>1, <1>3 DEF bySignalScore
<1> HIDE DEF B, R
<1>4. Strict(ids, R)
  BY <1>1, <1>2, <1>3 DEF Strict
<1>5. QED
  BY <1>4 DEF B, R

LEMMA GroupOrder ==
  ASSUME NEW groups, \A g \in groups : g.topScore \in Int /\ g.symbol \in Symbols
  PROVE  Strict(groups, {p \in groups \X groups : GroupBefore(p[1], p[2])})
<1> DEFINE R == {p \in groups \X groups : GroupBefore(p[1], p[2])}
<1>1. \A a, b \in groups : <<a, b>> \in R <=> GroupBefore(a, b)
  OBVIOUS
<1>2. \A a \in groups : a.topScore \in Int /\ NameOrder[a.symbol] \in Int
  BY OrderAssumption
<1>3. \A a \in groups : ~GroupBefore(a, a)
  BY <1>2 DEF GroupBefore
<1>4. \A a, b, c \in groups : GroupBefore(a, b) /\ GroupBefore(b, c) => GroupBefore(a, c)
  BY <1>2 DEF GroupBefore
<1> HIDE DEF R
<1>5. Strict(groups, R)
  BY <1>1, <1>3, <1>4 DEF Strict
<1>6. QED
  BY <1>5 DEF R

LEMMA GroupOf ==
  ASSUME NEW sym, NEW ids, IsFiniteSet(ids), NEW rows, NEW score, NEW seen,
         Rankable(ids, rows, score)
  PROVE  LET g == Group(sym, ids, rows, score, seen)
         IN /\ g.symbol = sym /\ g.topScore \in Int
            /\ Enumerates(g.sorted, ids) /\ Cardinality(ids) \in Nat
            /\ g.sorted \in Seq(ids) /\ Len(g.sorted) = Cardinality(ids)
            /\ g.signals = First(g.sorted, MaxPerSymbol)
<1> DEFINE R == {p \in ids \X ids : bySignalScore(rows, score, seen, p[1], p[2])}
           q == Sorted(ids, R)
           g == Group(sym, ids, rows, score, seen)
           kept == First(q, MaxPerSymbol)
<1>1. Strict(ids, R)
  BY SignalOrder
<1>2. g = [symbol |-> sym, sorted |-> q, signals |-> kept,
           topScore |-> IF kept = <<>> THEN 0 ELSE score[kept[1]]]
  BY DEF Group, Cut, Led
<1> HIDE DEF R
<1>3. Enumerates(q, ids) /\ Cardinality(ids) \in Nat
  BY <1>1, SortedEnumerates
<1> HIDE DEF q, g
<1>4. q \in Seq(ids) /\ Len(q) = Cardinality(ids)
  BY <1>3 DEF Enumerates
<1>5. kept \in Seq(ids)
  BY <1>4, BudgetAssumption, FirstOf
<1>6. kept # <<>> => kept[1] \in ids
  <2> HIDE DEF kept
  <2>1. QED
    BY <1>5
<1>7. (IF kept = <<>> THEN 0 ELSE score[kept[1]]) \in Int
  <2> HIDE DEF kept
  <2>1. QED
    BY <1>6 DEF Rankable
<1>8. QED
  BY <1>2, <1>3, <1>4, <1>7 DEF g

(* Grouping places every signal once, in the group of its symbol. *)
LEMMA GroupedGroups ==
  ASSUME NEW ids, IsFiniteSet(ids), NEW rows, NEW score, NEW seen,
         Rankable(ids, rows, score), \A id \in ids : SymbolOf(id) \in Symbols
  PROVE  \E n \in Nat : Grouping(Grouped(ids, rows, score, seen), n, ids)
<1> DEFINE Own(s) == {id \in ids : SymbolOf(id) = s}
           Syms == {SymbolOf(id) : id \in ids}
           G(s) == Group(s, Own(s), rows, score, seen)
           All == {G(s) : s \in Syms}
           q == Grouped(ids, rows, score, seen)
           n == Cardinality(All)
<1>1. \A s \in Syms : /\ G(s).symbol = s /\ G(s).topScore \in Int
                      /\ Enumerates(G(s).sorted, Own(s))
                      /\ G(s).sorted \in Seq(Own(s)) /\ Len(G(s).sorted) = Cardinality(Own(s))
                      /\ G(s).signals = First(G(s).sorted, MaxPerSymbol)
  <2> SUFFICES ASSUME NEW s \in Syms
               PROVE  /\ G(s).symbol = s /\ G(s).topScore \in Int
                      /\ Enumerates(G(s).sorted, Own(s))
                      /\ G(s).sorted \in Seq(Own(s)) /\ Len(G(s).sorted) = Cardinality(Own(s))
                      /\ G(s).signals = First(G(s).sorted, MaxPerSymbol)
    OBVIOUS
  <2>1. Own(s) \in SUBSET ids /\ Rankable(Own(s), rows, score)
    BY DEF Rankable
  <2>2. IsFiniteSet(Own(s))
    BY <2>1, FS_Subset
  <2> HIDE DEF Own, Syms
  <2>3. QED
    BY <2>1, <2>2, GroupOf
<1>2. Syms \in SUBSET Symbols
  OBVIOUS
<1> HIDE DEF G
<1>3. IsFiniteSet(All)
  <2>1. IsFiniteSet(Syms)
    BY <1>2, BriefingAssumption, FS_Subset
  <2> DEFINE f == [s \in Syms |-> G(s)]
  <2>2. f \in Surjection(Syms, All)
    BY DEF Surjection
  <2> HIDE DEF f, Syms, All
  <2>3. QED
    BY <2>1, <2>2, FS_Surjection
<1>4. \A g \in All : g.topScore \in Int /\ g.symbol \in Symbols
  BY <1>1, <1>2
<1>5. Enumerates(q, All) /\ n \in Nat
  <2>1. q = Sorted(All, {p \in All \X All : GroupBefore(p[1], p[2])})
    BY DEF Grouped, Ordered, G
  <2> HIDE DEF All, q
  <2>2. Strict(All, {p \in All \X All : GroupBefore(p[1], p[2])})
    BY <1>4, GroupOrder
  <2> DEFINE R == {p \in All \X All : GroupBefore(p[1], p[2])}
  <2>3. q = Sorted(All, R) /\ Strict(All, R)
    BY <2>1, <2>2
  <2> HIDE DEF R
  <2>4. QED
    BY <2>3, <1>3, SortedEnumerates
<1> HIDE DEF q, n
<1>6. /\ DOMAIN q = 1 .. n /\ ToSet(q) = All
      /\ \A i, j \in 1 .. n : q[i] = q[j] => i = j
      /\ \A i \in 1 .. n : q[i] \in All
  BY <1>5 DEF Enumerates, n
<1>7. \A i \in 1 .. n : q[i].symbol \in Syms /\ q[i] = G(q[i].symbol)
  <2> SUFFICES ASSUME NEW i \in 1 .. n PROVE q[i].symbol \in Syms /\ q[i] = G(q[i].symbol)
    OBVIOUS
  <2>1. PICK s \in Syms : q[i] = G(s)
    BY <1>6
  <2>2. G(s).symbol = s
    BY <1>1
  <2>3. QED
    BY <2>1, <2>2
<1>8. \A s \in Syms : \E i \in 1 .. n : q[i] = G(s)
  BY <1>6 DEF ToSet
<1>9. Capped(q, n, ids)
  <2> SUFFICES ASSUME NEW i \in 1 .. n
               PROVE  q[i].sorted \in Seq(ids) /\ q[i].signals = First(q[i].sorted, MaxPerSymbol)
    BY DEF Capped
  <2>1. PICK s \in Syms : q[i] = G(s)
    BY <1>7
  <2>2. G(s).sorted \in Seq(Own(s)) /\ G(s).signals = First(G(s).sorted, MaxPerSymbol)
    BY <1>1
  <2>3. Own(s) \subseteq ids
    OBVIOUS
  <2> HIDE DEF Own
  <2>4. QED
    BY <2>1, <2>2, <2>3
<1>10. \A i \in 1 .. n : /\ q[i].sorted \in Seq(Own(q[i].symbol))
                         /\ ToSet(q[i].sorted) = Own(q[i].symbol)
                         /\ \A k, l \in 1 .. Len(q[i].sorted) :
                              q[i].sorted[k] = q[i].sorted[l] => k = l
  <2> SUFFICES ASSUME NEW s \in Syms, NEW i \in 1 .. n, q[i] = G(s), q[i].symbol = s
               PROVE  /\ q[i].sorted \in Seq(Own(s)) /\ ToSet(q[i].sorted) = Own(s)
                      /\ \A k, l \in 1 .. Len(q[i].sorted) :
                              q[i].sorted[k] = q[i].sorted[l] => k = l
    BY <1>7
  <2> HIDE DEF Own
  <2>1. QED
    BY <1>1 DEF Enumerates
<1>11. \A i \in 1 .. n : \A k \in 1 .. Len(q[i].sorted) :
         q[i].sorted[k] \in ids /\ SymbolOf(q[i].sorted[k]) = q[i].symbol
  <2> SUFFICES ASSUME NEW i \in 1 .. n, NEW k \in 1 .. Len(q[i].sorted)
               PROVE  q[i].sorted[k] \in Own(q[i].symbol)
    OBVIOUS
  <2> HIDE DEF Own
  <2>1. q[i].sorted \in Seq(Own(q[i].symbol))
    BY <1>10
  <2>2. QED
    BY <2>1
<1>12. \A i, j \in 1 .. n : q[i].symbol = q[j].symbol => i = j
  BY <1>6, <1>7
<1> DEFINE lists == [i \in 1 .. n |-> q[i].sorted]
<1>13. OncePlaced(lists, n)
  <2> SUFFICES ASSUME NEW i \in 1 .. n, NEW j \in 1 .. n, NEW k \in 1 .. Len(q[i].sorted),
                      NEW l \in 1 .. Len(q[j].sorted), q[i].sorted[k] = q[j].sorted[l]
               PROVE  i = j /\ k = l
    BY DEF OncePlaced
  <2>1. i = j
    BY <1>11, <1>12
  <2>2. QED
    BY <2>1, <1>10
<1>14. Listed(lists, n) = ids
  <2>1. Listed(lists, n) = UNION {Own(q[i].symbol) : i \in 1 .. n}
    <3>1. \A i \in 1 .. n : ToSet(lists[i]) = Own(q[i].symbol)
      BY <1>10
    <3> HIDE DEF lists, Own
    <3>2. QED
      BY <3>1 DEF Listed
  <2>2. \A id \in ids : \E i \in 1 .. n : id \in Own(q[i].symbol)
    BY <1>1, <1>8
  <2>3. QED
    BY <2>1, <2>2
<1>15. \A i \in 1 .. n : \E id \in ids : q[i].symbol = SymbolOf(id)
  BY <1>7
<1>16. n \in Nat /\ Grouping(q, n, ids)
  BY <1>5, <1>6, <1>9, <1>11, <1>12, <1>13, <1>14, <1>15 DEF Grouping
<1>17. QED
  BY <1>16 DEF q

(* What a ranking shows of a set of signals, what it leaves out and why. *)
LEMMA RankingAccounts ==
  ASSUME NEW ids, IsFiniteSet(ids), NEW rows, NEW score, NEW seen,
         Rankable(ids, rows, score), \A id \in ids : SymbolOf(id) \in Symbols
  PROVE  LET r == rankSignals(ids, rows, score, seen)
             shown == ShownOf(r)
         IN /\ shown \subseteq {id \in ids : score[id] > 0}
            /\ Lengths(r.groups) = Cardinality(shown)
            /\ Cardinality(shown) + r.suppressed = Cardinality({id \in ids : score[id] > 0})
            /\ Cardinality(shown) <= MaxItems
            /\ \A s \in Symbols : Cardinality(Of(s, shown)) <= MaxPerSymbol
            /\ r.suppressed > 0 => \/ Cardinality(shown) = MaxItems
                                   \/ \E s \in Symbols : Cardinality(Of(s, shown)) = MaxPerSymbol
            /\ \A id \in shown : \E i \in DOMAIN r.groups : r.groups[i].symbol = SymbolOf(id)
            /\ MaxPerSymbol > 0 =>
                 \A i \in DOMAIN r.groups : Of(r.groups[i].symbol, shown) # {}
<1> DEFINE kept == {id \in ids : score[id] > 0}
           groups == Grouped(kept, rows, score, seen)
           r == rankSignals(ids, rows, score, seen)
           shown == ShownOf(r)
           m == Reached(groups)
<1>1. kept \in SUBSET ids /\ IsFiniteSet(kept) /\ IsFiniteSet(ids \ kept)
      /\ Cardinality(ids) = Cardinality(kept) + Cardinality(ids \ kept)
      /\ Cardinality(kept) \in Nat /\ Cardinality(ids \ kept) \in Nat
  <2>1. kept \in SUBSET ids
    OBVIOUS
  <2>2. ids \cap kept = kept
    OBVIOUS
  <2> HIDE DEF kept
  <2>3. IsFiniteSet(kept) /\ IsFiniteSet(ids \ kept)
        /\ Cardinality(ids \ kept) = Cardinality(ids) - Cardinality(ids \cap kept)
    BY <2>1, FS_Subset, FS_Difference
  <2>4. Cardinality(kept) \in Nat /\ Cardinality(ids \ kept) \in Nat /\ Cardinality(ids) \in Nat
    BY <2>3, FS_CardinalityType
  <2>5. Cardinality(ids \ kept) = Cardinality(ids) - Cardinality(kept)
    BY <2>2, <2>3
  <2>6. Cardinality(ids) = Cardinality(kept) + Cardinality(ids \ kept)
    BY <2>4, <2>5
  <2>7. QED
    BY <2>1, <2>3, <2>4, <2>6
<1>2. PICK n \in Nat : Grouping(groups, n, kept)
  <2>1. Rankable(kept, rows, score) /\ \A id \in kept : SymbolOf(id) \in Symbols
    BY DEF Rankable
  <2> HIDE DEF kept
  <2>2. QED
    BY <2>1, <1>1, GroupedGroups
<1> DEFINE lists == [i \in 1 .. n |-> Shows(groups, i)]
           sorts == [i \in 1 .. n |-> groups[i].sorted]
           A == {p \in UpTo(sorts, n) : p[2] > Len(lists[p[1]])}
           B == UpTo(lists, m)
<1>3. /\ r.groups = [i \in 1 .. m |-> [symbol |-> groups[i].symbol, signals |-> lists[i]]]
      /\ r.suppressed = Cardinality(A)
      /\ r.filtered = Cardinality(ids \ kept)
  <2> HIDE DEF kept, groups
  <2>1. DOMAIN groups = 1 .. n
    BY <1>2 DEF Grouping
  <2>2. r = Budgeted(groups, lists, Cardinality(ids \ kept))
    BY <2>1 DEF rankSignals, Shared, Shows, kept, groups
  <2> HIDE DEF lists, r
  <2>3. QED
    BY <2>1, <2>2 DEF Budgeted, Reached, UpTo
<1> HIDE DEF kept, groups, r
<1>4. /\ m \in 0 .. n
      /\ \A i \in 1 .. n : /\ lists[i] \in Seq(kept)
                           /\ Len(lists[i]) <= Len(groups[i].sorted)
                           /\ Len(lists[i]) <= MaxPerSymbol
                           /\ \A k \in 1 .. Len(lists[i]) : lists[i][k] = groups[i].sorted[k]
                           /\ i > m => lists[i] = <<>>
      /\ Cardinality(B) <= MaxItems
      /\ (\E i \in 1 .. n : Len(lists[i]) < Len(groups[i].sorted))
             => \/ Cardinality(B) = MaxItems
                \/ \E i \in 1 .. n : Len(lists[i]) = MaxPerSymbol
      /\ MaxPerSymbol > 0 =>
           \A i \in 1 .. n : i <= m /\ Len(groups[i].sorted) > 0 => Len(lists[i]) > 0
  <2>1. DOMAIN groups = 1 .. n /\ Capped(groups, n, kept)
    BY <1>2 DEF Grouping
  <2>2. Budgets(groups, n, kept)
    BY <2>1, BudgetKept
  <2>3. QED
    BY <2>2 DEF Budgets
<1>5. /\ \A i \in 1 .. n : sorts[i] \in Seq(kept) /\ sorts[i] = groups[i].sorted
      /\ OncePlaced(sorts, n) /\ Listed(sorts, n) = kept
      /\ \A i \in 1 .. n : \A k \in 1 .. Len(sorts[i]) :
           SymbolOf(sorts[i][k]) = groups[i].symbol
      /\ \A i, j \in 1 .. n : groups[i].symbol = groups[j].symbol => i = j
      /\ \A i \in 1 .. n : groups[i].symbol \in Symbols
  BY <1>1, <1>2 DEF Grouping, Capped
<1> HIDE DEF lists, sorts, m
<1>6. \A i \in 1 .. n : /\ Len(lists[i]) \in Nat /\ Len(sorts[i]) \in Nat
                        /\ Len(lists[i]) <= Len(sorts[i])
                        /\ \A k \in 1 .. Len(lists[i]) : k \in 1 .. Len(sorts[i])
                                                          /\ lists[i][k] = sorts[i][k]
  <2> SUFFICES ASSUME NEW i \in 1 .. n
               PROVE  /\ Len(lists[i]) \in Nat /\ Len(sorts[i]) \in Nat
                      /\ Len(lists[i]) <= Len(sorts[i])
                      /\ \A k \in 1 .. Len(lists[i]) : k \in 1 .. Len(sorts[i])
                                                          /\ lists[i][k] = sorts[i][k]
    OBVIOUS
  <2>1. lists[i] \in Seq(kept) /\ sorts[i] \in Seq(kept) /\ sorts[i] = groups[i].sorted
    BY <1>4, <1>5
  <2>2. Len(lists[i]) \in Nat /\ Len(sorts[i]) \in Nat
    BY <2>1
  <2>3. Len(lists[i]) <= Len(sorts[i])
        /\ \A k \in 1 .. Len(lists[i]) : lists[i][k] = sorts[i][k]
    BY <2>1, <1>4
  <2>4. QED
    BY <2>2, <2>3
<1>7. OncePlaced(lists, n)
  <2> SUFFICES ASSUME NEW i \in 1 .. n, NEW j \in 1 .. n, NEW k \in 1 .. Len(lists[i]),
                      NEW l \in 1 .. Len(lists[j]), lists[i][k] = lists[j][l]
               PROVE  i = j /\ k = l
    BY DEF OncePlaced
  <2>1. sorts[i][k] = sorts[j][l] /\ k \in 1 .. Len(sorts[i]) /\ l \in 1 .. Len(sorts[j])
    BY <1>6
  <2>2. QED
    BY <2>1, <1>5 DEF OncePlaced
<1>8. shown = Listed(lists, m)
  <2>1. DOMAIN r.groups = 1 .. m /\ \A i \in 1 .. m : r.groups[i].signals = lists[i]
    BY <1>3
  <2>2. QED
    BY <2>1 DEF ShownOf, Listed
<1>9. IsFiniteSet(shown) /\ Cardinality(shown) = Cardinality(B)
  <2>1. OncePlaced(lists, m) /\ (\A i \in 1 .. m : lists[i] \in Seq(kept)) /\ m \in Nat
    BY <1>4, <1>7 DEF OncePlaced
  <2>2. QED
    BY <2>1, <1>8, Flattened
<1>10. Lengths(r.groups) = Cardinality(shown)
  <2>1. [i \in DOMAIN r.groups |-> r.groups[i].signals] = [i \in 1 .. m |-> lists[i]]
    BY <1>3
  <2>2. QED
    BY <2>1, <1>9 DEF Lengths, UpTo
<1>11. shown \subseteq kept
  <2> SUFFICES ASSUME NEW i \in 1 .. m PROVE ToSet(lists[i]) \subseteq kept
    BY <1>8 DEF Listed
  <2>1. lists[i] \in Seq(kept)
    BY <1>4
  <2>2. QED
    BY <2>1 DEF ToSet
<1>12. Cardinality(kept) = Cardinality(UpTo(sorts, n)) /\ IsFiniteSet(UpTo(sorts, n))
  <2>1. Cardinality(Listed(sorts, n)) = Cardinality(UpTo(sorts, n))
    BY <1>5, Flattened
  <2>2. n \in 0 .. n
    OBVIOUS
  <2>3. QED
    BY <2>1, <2>2, <1>5, PlacesGrow
<1>13. A \cup B = UpTo(sorts, n) /\ A \cap B = {}
  <2>1. \A i \in 1 .. n : DOMAIN sorts[i] = 1 .. Len(sorts[i])
                          /\ DOMAIN lists[i] = 1 .. Len(lists[i])
    <3>1. \A i \in 1 .. n : sorts[i] \in Seq(kept) /\ lists[i] \in Seq(kept)
      BY <1>4, <1>5
    <3>2. QED
      BY <3>1
  <2>2. \A p : p \in UpTo(sorts, n) <=>
                 \E i \in 1 .. n : \E k \in 1 .. Len(sorts[i]) : p = <<i, k>>
    BY <2>1 DEF UpTo, Places
  <2>3. \A p : p \in B <=> \E i \in 1 .. m : \E k \in 1 .. Len(lists[i]) : p = <<i, k>>
    BY <2>1, <1>4 DEF UpTo, Places
  <2>4. \A p \in B : p \in UpTo(sorts, n) /\ p \notin A
    <3> HIDE DEF B
    <3> SUFFICES ASSUME NEW i \in 1 .. m, NEW k \in 1 .. Len(lists[i])
                 PROVE  <<i, k>> \in UpTo(sorts, n) /\ <<i, k>> \notin A
      BY <2>3
    <3>1. i \in 1 .. n
      BY <1>4
    <3>2. k \in 1 .. Len(sorts[i]) /\ ~(k > Len(lists[i]))
      BY <3>1, <1>6
    <3>3. QED
      BY <3>1, <3>2, <2>2
  <2>5. \A p \in UpTo(sorts, n) : p \in A \/ p \in B
    <3> HIDE DEF B
    <3> SUFFICES ASSUME NEW i \in 1 .. n, NEW k \in 1 .. Len(sorts[i]), ~(k > Len(lists[i])),
                        <<i, k>> \in UpTo(sorts, n)
                 PROVE  <<i, k>> \in B
      BY <2>2
    <3>1. k \in 1 .. Len(lists[i])
      BY <1>6
    <3>2. i <= m
      <4>1. Len(lists[i]) # 0
        BY <3>1
      <4>2. i > m => lists[i] = <<>>
        BY <1>4
      <4>3. QED
        BY <4>1, <4>2, <1>4
    <3>3. QED
      BY <3>1, <3>2, <2>3
  <2>6. A \subseteq UpTo(sorts, n)
    OBVIOUS
  <2> HIDE DEF A, B
  <2>7. QED
    BY <2>4, <2>5, <2>6
<1>14. Cardinality(kept) = Cardinality(A) + Cardinality(B) /\ IsFiniteSet(A)
       /\ Cardinality(A) \in Nat /\ Cardinality(B) \in Nat
  <2> HIDE DEF A, B
  <2> DEFINE P == UpTo(sorts, n)
  <2>1. IsFiniteSet(P) /\ A \in SUBSET P /\ B \in SUBSET P /\ P = A \cup B
    BY <1>12, <1>13
  <2> HIDE DEF P
  <2>2. IsFiniteSet(A) /\ IsFiniteSet(B)
    BY <2>1, FS_Subset
  <2>3. Cardinality(A \cup B) = Cardinality(A) + Cardinality(B) - Cardinality(A \cap B)
    BY <2>2, FS_Union
  <2>4. Cardinality(A \cap B) = 0
    BY <1>13, FS_EmptySet
  <2>5. Cardinality(A) \in Nat /\ Cardinality(B) \in Nat
    BY <2>2, FS_CardinalityType
  <2>6. QED
    BY <2>1, <2>2, <2>3, <2>4, <2>5, <1>12 DEF P
<1>15. Cardinality(shown) + r.suppressed = Cardinality(kept)
  <2> HIDE DEF A, B
  <2>1. QED
    BY <1>3, <1>9, <1>14
<1>16. \A i \in 1 .. n : Cardinality(Of(groups[i].symbol, shown)) = Len(lists[i])
  <2> SUFFICES ASSUME NEW i \in 1 .. n
               PROVE  Cardinality(Of(groups[i].symbol, shown)) = Len(lists[i])
    OBVIOUS
  <2>1. \A j \in 1 .. n : lists[j] \in Seq(kept) /\ DOMAIN lists[j] = 1 .. Len(lists[j])
    BY <1>4
  <2>2. \A j \in 1 .. n : \A id \in ToSet(lists[j]) : SymbolOf(id) = groups[j].symbol
    <3> SUFFICES ASSUME NEW j \in 1 .. n, NEW k \in 1 .. Len(lists[j])
                 PROVE  SymbolOf(lists[j][k]) = groups[j].symbol
      BY <2>1 DEF ToSet
    <3>1. QED
      BY <1>5, <1>6
  <2>3. Of(groups[i].symbol, shown) = ToSet(lists[i])
    <3>1. \A id \in shown : SymbolOf(id) = groups[i].symbol => id \in ToSet(lists[i])
      <4> SUFFICES ASSUME NEW j \in 1 .. m, NEW id \in ToSet(lists[j]),
                          SymbolOf(id) = groups[i].symbol
                   PROVE  id \in ToSet(lists[i])
        BY <1>8 DEF Listed
      <4>1. j \in 1 .. n
        BY <1>4
      <4>2. QED
        BY <4>1, <2>2, <1>5
    <3>2. \A id \in ToSet(lists[i]) : id \in shown
      <4>1. CASE i <= m
        BY <4>1, <1>4, <1>8 DEF Listed
      <4>2. CASE i > m
        <5>1. lists[i] = <<>>
          BY <4>2, <1>4
        <5>2. QED
          BY <5>1 DEF ToSet
      <4>3. QED
        BY <4>1, <4>2, <1>4
    <3> HIDE DEF shown
    <3>3. QED
      BY <3>1, <3>2, <2>2 DEF Of
  <2> DEFINE l == Len(lists[i])
             q == lists[i]
  <2>4. l \in Nat /\ q \in [1 .. l -> kept]
    BY <2>1
  <2>5. \A j, k \in 1 .. l : q[j] = q[k] => j = k
    BY <1>7 DEF OncePlaced
  <2> HIDE DEF l, q
  <2>6. Cardinality(ToSet(q)) = l
    BY <2>4, <2>5, AllDistinct
  <2>7. QED
    BY <2>3, <2>6 DEF q, l
<1>17. \A s \in Symbols : Cardinality(Of(s, shown)) <= MaxPerSymbol
  <2> SUFFICES ASSUME NEW s \in Symbols PROVE Cardinality(Of(s, shown)) <= MaxPerSymbol
    OBVIOUS
  <2>1. CASE \E i \in 1 .. n : groups[i].symbol = s
    <3>1. PICK i \in 1 .. n : groups[i].symbol = s
      BY <2>1
    <3>2. Cardinality(Of(s, shown)) = Len(lists[i])
      BY <3>1, <1>16
    <3>3. QED
      BY <3>2, <1>4
  <2>2. CASE \A i \in 1 .. n : groups[i].symbol # s
    <3>1. \A id \in kept : SymbolOf(id) # s
      <4> SUFFICES ASSUME NEW i \in 1 .. n, NEW id \in ToSet(sorts[i]) PROVE SymbolOf(id) # s
        BY <1>5 DEF Listed
      <4>1. PICK k \in 1 .. Len(sorts[i]) : id = sorts[i][k]
        <5>1. DOMAIN sorts[i] = 1 .. Len(sorts[i])
          BY <1>5
        <5>2. QED
          BY <5>1 DEF ToSet
      <4>2. QED
        BY <4>1, <2>2, <1>5
    <3>2. Of(s, shown) = {}
      <4> HIDE DEF shown
      <4>1. QED
        BY <3>1, <1>11 DEF Of
    <3>3. QED
      BY <3>2, FS_EmptySet, BudgetAssumption
  <2>3. QED
    BY <2>1, <2>2
<1>18. ASSUME r.suppressed > 0
       PROVE  \/ Cardinality(shown) = MaxItems
              \/ \E s \in Symbols : Cardinality(Of(s, shown)) = MaxPerSymbol
  <2>1. \E p : p \in A
    <3> HIDE DEF A
    <3>1. Cardinality(A) # 0
      BY <1>18, <1>3, <1>14
    <3>2. QED
      BY <3>1, FS_EmptySet
  <2>2. PICK p \in UpTo(sorts, n) : p[2] > Len(lists[p[1]])
    BY <2>1
  <2>3. p[1] \in 1 .. n /\ p[2] \in DOMAIN sorts[p[1]]
    BY DEF UpTo, Places
  <2>4. p[2] \in 1 .. Len(sorts[p[1]])
    <3>1. sorts[p[1]] \in Seq(kept)
      BY <2>3, <1>5
    <3>2. QED
      BY <2>3, <3>1
  <2>5. Len(lists[p[1]]) < Len(groups[p[1]].sorted)
    <3>1. Len(lists[p[1]]) \in Nat /\ Len(sorts[p[1]]) \in Nat
          /\ sorts[p[1]] = groups[p[1]].sorted
      BY <2>3, <1>5, <1>6
    <3>2. QED
      BY <3>1, <2>2, <2>4
  <2>6. Cardinality(B) = MaxItems \/ \E i \in 1 .. n : Len(lists[i]) = MaxPerSymbol
    BY <2>3, <2>5, <1>4
  <2>7. QED
    BY <2>6, <1>5, <1>9, <1>16
<1>19. Cardinality(shown) <= MaxItems
  BY <1>4, <1>9
<1>20. \A id \in shown : \E i \in DOMAIN r.groups : r.groups[i].symbol = SymbolOf(id)
  <2> SUFFICES ASSUME NEW i \in 1 .. m, NEW k \in 1 .. Len(lists[i])
               PROVE  r.groups[i].symbol = SymbolOf(lists[i][k])
    <3>1. \A i \in 1 .. m : DOMAIN lists[i] = 1 .. Len(lists[i])
      BY <1>4
    <3>2. DOMAIN r.groups = 1 .. m
      BY <1>3
    <3>3. QED
      BY <1>8, <3>1, <3>2 DEF Listed, ToSet
  <2>1. i \in 1 .. n /\ r.groups[i].symbol = groups[i].symbol
    BY <1>3, <1>4
  <2>2. QED
    BY <2>1, <1>5, <1>6
<1>21. ASSUME MaxPerSymbol > 0, NEW i \in 1 .. m
       PROVE  Of(groups[i].symbol, shown) # {}
  <2>1. i \in 1 .. n
    BY <1>4
  <2>2. PICK id \in kept : groups[i].symbol = SymbolOf(id)
    BY <1>2, <2>1 DEF Grouping
  <2>3. PICK j \in 1 .. n : id \in ToSet(sorts[j])
    BY <1>5 DEF Listed
  <2>4. PICK k \in 1 .. Len(sorts[j]) : id = sorts[j][k]
    <3>1. DOMAIN sorts[j] = 1 .. Len(sorts[j])
      BY <1>5
    <3>2. QED
      BY <2>3, <3>1 DEF ToSet
  <2>5. j = i
    BY <1>5, <2>1, <2>2, <2>4
  <2>6. Len(groups[i].sorted) > 0
    BY <1>5, <1>6, <2>4, <2>5
  <2>7. Len(lists[i]) > 0
    BY <1>4, <1>21, <2>1, <2>6
  <2>8. Cardinality(Of(groups[i].symbol, shown)) # 0
    BY <1>16, <2>1, <2>7
  <2>9. QED
    BY <2>8, FS_EmptySet
<1>22. MaxPerSymbol > 0 => \A i \in DOMAIN r.groups : Of(r.groups[i].symbol, shown) # {}
  <2>1. DOMAIN r.groups = 1 .. m /\ \A i \in 1 .. m : r.groups[i].symbol = groups[i].symbol
    BY <1>3
  <2> HIDE DEF shown
  <2>2. QED
    BY <1>21, <2>1
<1>23. QED
  BY <1>10, <1>11, <1>15, <1>17, <1>18, <1>19, <1>20, <1>22 DEF kept, r

-----------------------------------------------------------------------------
(* Numbers. *)

LEMMA Shares ==
  ASSUME NEW a \in Nat, NEW b \in Nat \ {0}, NEW c \in Nat, a <= c * b
  PROVE  a \div b \in 0 .. c
<1> DEFINE q == a \div b
<1>1. q \in Int /\ a = b * q + (a % b) /\ a % b \in 0 .. b - 1
  OBVIOUS
<1>2. c * b \in Int /\ b * q \in Int
  BY <1>1
<1>3. b * q <= c * b /\ b * q > 0 - b
  BY <1>1, <1>2
<1>4. \A n \in Int : b * n > 0 - b => n >= 0
  OBVIOUS
<1>5. \A n \in Int : b * n <= c * b => n <= c
  OBVIOUS
<1> HIDE DEF q
<1>6. q \in 0 .. c
  BY <1>1, <1>3, <1>4, <1>5
<1>7. QED
  BY <1>6 DEF q

LEMMA AbsType == \A x \in Int : Abs(x) \in Nat
  BY DEF Abs

LEMMA QuotType == \A a \in Int, b \in Nat \ {0} : Quot(a, b) \in Int
  BY DEF Quot

LEMMA ReturnType ==
  ASSUME NEW cur \in Int, NEW prev \in Nat \ {0}
  PROVE  Return(cur, prev) \in Int
<1>1. 10000 * (cur - prev) \in Int
  OBVIOUS
<1>2. QED
  BY <1>1, QuotType DEF Return

LEMMA SaturateType ==
  ASSUME NEW value \in Int, NEW scale \in Nat
  PROVE  saturate(value, scale) \in 0 .. 100
<1> DEFINE v == Abs(value)
<1>1. v \in Nat
  BY AbsType
<1> HIDE DEF v
<1>2. CASE scale > 0
  <2>1. 100 * v \in Nat /\ v + scale \in Nat \ {0} /\ 100 * v <= 100 * (v + scale)
    BY <1>1, <1>2
  <2>2. (100 * v) \div (v + scale) \in 0 .. 100
    BY <2>1, Shares
  <2>3. QED
    BY <1>2, <2>2 DEF saturate, v
<1>3. CASE ~(scale > 0)
  BY <1>3 DEF saturate
<1>4. QED
  BY <1>2, <1>3

LEMMA RootType ==
  ASSUME NEW n \in Nat
  PROVE  Root(n) \in Nat
<1> DEFINE S == {r \in 0 .. n : r * r <= n}
<1>1. S \in SUBSET Int /\ S # {} /\ IsFiniteSet(S)
  <2>1. 0 \in S /\ S \in SUBSET (0 .. n) /\ S \in SUBSET Int
    OBVIOUS
  <2>2. IsFiniteSet(0 .. n)
    BY FS_Interval
  <2> HIDE DEF S
  <2>3. IsFiniteSet(S)
    BY <2>1, <2>2, FS_Subset
  <2>4. QED
    BY <2>1, <2>3
<1>2. PICK r \in S : \A q \in S : q <= r
  <2> HIDE DEF S
  <2>1. QED
    BY <1>1, Extremes
<1>3. r \in 0 .. n /\ r * r <= n
  OBVIOUS
<1>4. n < (r + 1) * (r + 1)
  <2>1. CASE r = n
    <3>1. (n + 1) * (n + 1) = n * n + 2 * n + 1 /\ n * n \in Nat
      OBVIOUS
    <3>2. QED
      BY <2>1, <3>1
  <2>2. CASE r # n
    <3>1. r + 1 \in 0 .. n /\ r + 1 \notin S
      BY <1>2, <1>3, <2>2
    <3>2. (r + 1) * (r + 1) \in Int
      BY <1>3
    <3>3. QED
      BY <3>1, <3>2
  <2>3. QED
    BY <2>1, <2>2
<1>5. Root(n) \in 0 .. n
  BY <1>3, <1>4 DEF Root
<1>6. QED
  BY <1>5

LEMMA HorizonType ==
  ASSUME NEW sigma \in Int, NEW horizon \in Int
  PROVE  horizonSigma(sigma, horizon) \in Int
<1> DEFINE n == 100 * Most(horizon, MinHorizon)
<1>1. n \in Nat
  BY DEF Most, MinHorizon
<1> HIDE DEF n
<1>2. Root(n) \in Nat
  BY <1>1, RootType
<1> DEFINE r == Root(n)
<1> HIDE DEF r
<1>3. r \in Nat
  BY <1>2 DEF r
<1>4. sigma * r \in Int
  BY <1>3
<1>5. (sigma * r) \div 100 \in Int
  BY <1>4
<1>6. QED
  BY <1>5 DEF horizonSigma, n, r

-----------------------------------------------------------------------------
(* What the detectors are given and what they say. *)

ContextOK(ctx) ==
  /\ ctx.stats # None => ctx.stats \in StatRows
  /\ ctx.quote \in QuoteRows
  /\ ctx.now \in Int /\ ctx.progress \in Int
  /\ ctx.benchmark # None => ctx.benchmark \in References
  /\ ctx.sector # None => ctx.sector \in References

ReadingOK(o, kind) ==
  o # None => /\ DOMAIN o = {"kind", "value", "direction", "severity", "disc", "sigma"}
              /\ o.kind = kind /\ o.value \in Int /\ o.severity \in 0 .. 100

LEMMA ReadingType ==
  ASSUME NEW kind, NEW value \in Int, NEW severity \in 0 .. 100, NEW direction, NEW disc, NEW sigma
  PROVE  /\ ReadingOK(Reading(kind, value, direction, severity, disc), kind)
         /\ ReadingOK([Reading(kind, value, direction, severity, disc) EXCEPT !.sigma = sigma],
                      kind)
  BY DEF ReadingOK, Reading

LEMMA InactiveType == \A kind, disc : ReadingOK(inactive(kind, disc), kind)
  BY DEF ReadingOK, Reading, inactive

LEMMA SessionReturnType ==
  /\ \A q \in QuoteRows : sessionReturn(q) \in Int
  /\ \A q \in References : sessionReturn(q) \in Int
  BY ReturnType DEF QuoteRows, References, sessionReturn

(* Each detector returns nothing or a reading of its own kind. *)
LEMMA SigmaMoveOK ==
  ASSUME NEW ctx, ContextOK(ctx)
  PROVE  ReadingOK(sigmaMove(ctx), "sigma_move")
<1>1. CASE ~hasStats(ctx)
  BY <1>1 DEF sigmaMove, ReadingOK
<1>2. CASE hasStats(ctx)
  <2> DEFINE ret == sessionReturn(ctx.quote)
             expected == horizonSigma(ctx.stats.sigmaDaily, elapsedSessions(ctx))
             z == Quot(100 * ret, expected)
  <2>1. ctx.stats \in StatRows
    BY <1>2 DEF ContextOK, hasStats
  <2>2. ret \in Int
    BY SessionReturnType DEF ContextOK
  <2>3. expected \in Int
    <3>1. ctx.stats.sigmaDaily \in Int
      BY <2>1 DEF StatRows
    <3>2. elapsedSessions(ctx) \in Int
      BY DEF elapsedSessions, Most, ContextOK
    <3>3. QED
      BY <3>1, <3>2, HorizonType
  <2>4. CASE expected <= 0
    BY <1>2, <2>4 DEF sigmaMove, ReadingOK
  <2>5. CASE ~(expected <= 0)
    <3> HIDE DEF ret, expected
    <3>1. 100 * ret \in Int /\ expected \in Nat \ {0}
      BY <2>2, <2>3, <2>5
    <3>2. z \in Int
      BY <3>1, QuotType
    <3> HIDE DEF z
    <3>3. saturate(z, 400) \in 0 .. 100
      BY <3>2, SaturateType
    <3>4. sigmaMove(ctx) =
            [Reading("sigma_move", z, dirOf(z), saturate(z, 400), <<ctx.session, dirOf(z)>>)
               EXCEPT !.sigma = Abs(z)]
      BY <1>2, <2>5 DEF sigmaMove, ret, expected, z
    <3>5. QED
      BY <3>2, <3>3, <3>4 DEF Reading, ReadingOK
  <2>6. QED
    BY <2>4, <2>5
<1>3. QED
  BY <1>1, <1>2

LEMMA PartsType ==
  ASSUME NEW ctx, ContextOK(ctx), ctx.stats \in StatRows, ctx.benchmark # None
  PROVE  Parts(ctx).idiosyncratic \in Int
<1> DEFINE ret == sessionReturn(ctx.quote)
           index == sessionReturn(ctx.benchmark)
           sector == SectorMove(ctx)
           b == ctx.stats.beta
           c == ctx.stats.betaSector
           d == ctx.stats.sectorMarketBeta
           m == Quot(b * index, 100)
           e == Quot(d * index, 100)
           s == IF sector.known THEN Quot(c * (sector.ret - e), 100) ELSE 0
<1>1. ret \in Int /\ index \in Int
  BY SessionReturnType DEF ContextOK
<1>2. sector.ret \in Int
  BY SessionReturnType DEF ContextOK, SectorMove
<1>3. b \in Int /\ c \in Int /\ d \in Int
  BY DEF StatRows
<1>4. Parts(ctx).idiosyncratic = ret - m - s
  BY DEF Parts, attribute
<1> HIDE DEF ret, index, sector, b, c, d
<1>5. b * index \in Int /\ d * index \in Int
  BY <1>1, <1>3
<1>6. m \in Int /\ e \in Int
  BY <1>5, QuotType
<1> HIDE DEF m, e
<1>7. c * (sector.ret - e) \in Int
  BY <1>2, <1>3, <1>6
<1>8. s \in Int
  BY <1>7, QuotType
<1> HIDE DEF s
<1>9. QED
  BY <1>1, <1>4, <1>6, <1>8

LEMMA IdioMoveOK ==
  ASSUME NEW ctx, ContextOK(ctx)
  PROVE  ReadingOK(idioMove(ctx), "idio_move")
<1>1. CASE ~hasStats(ctx) \/ ctx.benchmark = None
  BY <1>1 DEF idioMove, ReadingOK
<1>2. CASE hasStats(ctx) /\ ctx.benchmark # None
  <2> DEFINE rest == Parts(ctx).idiosyncratic
             expected == horizonSigma(ctx.stats.residSigma, elapsedSessions(ctx))
             z == Quot(100 * rest, expected)
             along == marketExplains(Parts(ctx))
  <2>1. ctx.stats \in StatRows
    BY <1>2 DEF ContextOK, hasStats
  <2>2. rest \in Int
    BY <1>2, <2>1, PartsType
  <2>3. expected \in Int
    <3>1. ctx.stats.residSigma \in Int
      BY <2>1 DEF StatRows
    <3>2. elapsedSessions(ctx) \in Int
      BY DEF elapsedSessions, Most, ContextOK
    <3>3. QED
      BY <3>1, <3>2, HorizonType
  <2>4. CASE expected <= 0
    BY <1>2, <2>4 DEF idioMove, ReadingOK
  <2>5. CASE ~(expected <= 0)
    <3>1. 100 * rest \in Int /\ expected \in Nat \ {0}
      <4> HIDE DEF rest, expected
      <4>1. QED
        BY <2>2, <2>3, <2>5
    <3>2. z \in Int
      BY <3>1, QuotType
    <3>3. saturate(z, 350) \in 0 .. 100
      BY <3>2, SaturateType
    <3>4. idioMove(ctx) =
            [Reading("idio_move", IF along THEN 0 ELSE z, dirOf(z), saturate(z, 350),
                     <<ctx.session, dirOf(z)>>)
               EXCEPT !.sigma = Abs(z)]
      BY <1>2, <2>5 DEF idioMove
    <3>5. (IF along THEN 0 ELSE z) \in Int
      BY <3>2
    <3> DEFINE v == IF along THEN 0 ELSE z
    <3> HIDE DEF z, along, v
    <3>6. v \in Int
      BY <3>5 DEF v
    <3>7. idioMove(ctx) =
            [Reading("idio_move", v, dirOf(z), saturate(z, 350), <<ctx.session, dirOf(z)>>)
               EXCEPT !.sigma = Abs(z)]
      BY <3>4 DEF v
    <3>8. QED
      BY <3>3, <3>6, <3>7 DEF Reading, ReadingOK
  <2>6. QED
    BY <2>4, <2>5
<1>3. QED
  BY <1>1, <1>2

LEMMA GapOK ==
  ASSUME NEW ctx, ContextOK(ctx)
  PROVE  ReadingOK(gap(ctx), "gap")
<1> DEFINE q == ctx.quote
           change == Return(q.dayOpen, q.prevClose)
           multiple == Quot(100 * change, ctx.stats.atrPct)
<1>1. CASE ~hasStats(ctx) \/ q.dayOpen <= 0
  BY <1>1 DEF gap, ReadingOK
<1>2. CASE hasStats(ctx) /\ ~(q.dayOpen <= 0)
  <2>1. ctx.stats \in StatRows
    BY <1>2 DEF ContextOK, hasStats
  <2>2. ctx.stats.atrPct \in Int
    BY <2>1 DEF StatRows
  <2>3. CASE ctx.stats.atrPct <= 0
    BY <1>2, <2>3 DEF gap, ReadingOK
  <2>4. CASE ~(ctx.stats.atrPct <= 0)
    <3>1. change \in Int
      BY ReturnType DEF ContextOK, QuoteRows
    <3>2. 100 * change \in Int /\ ctx.stats.atrPct \in Nat \ {0}
      <4> HIDE DEF change
      <4>1. QED
        BY <2>2, <2>4, <3>1
    <3>3. multiple \in Int
      BY <3>2, QuotType
    <3>4. saturate(multiple, 300) \in 0 .. 100
      <4> HIDE DEF multiple
      <4>1. QED
        BY <3>3, SaturateType
    <3>5. gap(ctx) = Reading("gap", multiple, dirOf(change), saturate(multiple, 300),
                             <<ctx.session, dirOf(change)>>)
      BY <1>2, <2>4 DEF gap
    <3> HIDE DEF multiple, change
    <3>6. QED
      BY <3>3, <3>4, <3>5 DEF Reading, ReadingOK
  <2>5. QED
    BY <2>3, <2>4
<1>3. QED
  BY <1>1, <1>2

LEMMA BreakOK ==
  ASSUME NEW price \in Int, NEW level \in Nat \ {0}, NEW scope, NEW direction, NEW weight \in Nat
  PROVE  ReadingOK(Break(price, level, scope, direction, weight), "range_break")
<1> DEFINE overshoot == Abs(Return(price, level))
           value == 100 + (100 * overshoot) \div BreakBuffer
           part == saturate(overshoot, 500)
           severity == Least(100, (weight * (55 + (45 * part) \div 100)) \div 100)
<1>1. overshoot \in Nat /\ overshoot \in Int
  BY ReturnType, AbsType
<1> HIDE DEF overshoot
<1>2. part \in 0 .. 100
  <2>1. 500 \in Nat
    OBVIOUS
  <2>2. QED
    BY <1>1, <2>1, SaturateType
<1>3. value \in Int
  BY <1>1, ThresholdsAssumption
<1> HIDE DEF part
<1>4. severity \in 0 .. 100
  <2> DEFINE a == 55 + (45 * part) \div 100
  <2>1. a \in Nat
    BY <1>2
  <2> HIDE DEF a
  <2>2. weight * a \in Nat
    BY <2>1
  <2>3. (weight * a) \div 100 \in Nat
    BY <2>2
  <2>4. Least(100, (weight * a) \div 100) \in 0 .. 100
    BY <2>3 DEF Least
  <2>5. QED
    BY <2>4 DEF a
<1>5. Break(price, level, scope, direction, weight) =
        Reading("range_break", value, direction, severity, scope)
  BY DEF Break, overshoot, part
<1> HIDE DEF value, severity
<1>6. QED
  BY <1>3, <1>4, <1>5 DEF Reading, ReadingOK

LEMMA RangeBreakOK ==
  ASSUME NEW ctx, ContextOK(ctx)
  PROVE  ReadingOK(rangeBreak(ctx), "range_break")
<1> DEFINE p == ctx.quote.price
           s == ctx.stats
<1>1. CASE ~hasStats(ctx)
  BY <1>1 DEF rangeBreak, ReadingOK
<1>2. CASE hasStats(ctx)
  <2>1. s \in StatRows
    BY <1>2 DEF ContextOK, hasStats
  <2>2. s.hi52w \in Int /\ s.lo52w \in Int /\ s.hi30d \in Int /\ s.lo30d \in Int
    BY <2>1 DEF StatRows
  <2>3. p \in Int
    BY DEF ContextOK, QuoteRows
  <2>4. ASSUME NEW level \in Int, NEW scope, NEW direction, NEW weight \in Nat,
               Above(p, level) \/ Below(p, level)
        PROVE  ReadingOK(Break(p, level, scope, direction, weight), "range_break")
    <3>1. level \in Nat \ {0}
      BY <2>4 DEF Above, Below
    <3> HIDE DEF p
    <3>2. QED
      BY <3>1, <2>3, BreakOK
  <2>5. 100 \in Nat /\ 60 \in Nat
    OBVIOUS
  <2>6. \/ Above(p, s.hi52w) /\ rangeBreak(ctx) = Break(p, s.hi52w, "52-week high", "up", 100)
        \/ Below(p, s.lo52w) /\ rangeBreak(ctx) = Break(p, s.lo52w, "52-week low", "down", 100)
        \/ Above(p, s.hi30d) /\ rangeBreak(ctx) = Break(p, s.hi30d, "30-day high", "up", 60)
        \/ Below(p, s.lo30d) /\ rangeBreak(ctx) = Break(p, s.lo30d, "30-day low", "down", 60)
        \/ rangeBreak(ctx) = inactive("range_break", "none")
    BY <1>2 DEF rangeBreak
  <2>7. QED
    BY <2>2, <2>4, <2>5, <2>6, InactiveType
<1>3. QED
  BY <1>1, <1>2

LEMMA VolumeSpikeOK ==
  ASSUME NEW ctx, ContextOK(ctx)
  PROVE  ReadingOK(volumeSpike(ctx), "volume_spike")
<1> DEFINE expected == (ctx.stats.medVol20 * VolumePace(ctx)) \div 100
           rvol == (100 * ctx.quote.volume) \div expected
<1>1. CASE ~hasStats(ctx)
  BY <1>1 DEF volumeSpike, ReadingOK
<1>2. CASE hasStats(ctx) /\ expected <= 0
  BY <1>2 DEF volumeSpike, ReadingOK
<1>3. CASE hasStats(ctx) /\ ~(expected <= 0)
  <2>1. ctx.stats.medVol20 \in Int
    BY <1>3 DEF ContextOK, hasStats, StatRows
  <2>2. VolumePace(ctx) \in Int
    BY DEF VolumePace, Most, ContextOK
  <2>3. expected \in Int
    <3> DEFINE a == ctx.stats.medVol20
               b == VolumePace(ctx)
    <3>1. a \in Int /\ b \in Int
      BY <2>1, <2>2
    <3> HIDE DEF a, b
    <3>2. a * b \in Int
      BY <3>1
    <3>3. (a * b) \div 100 \in Int
      BY <3>2
    <3>4. QED
      BY <3>3 DEF a, b
  <2>4. 100 * ctx.quote.volume \in Int
    BY DEF ContextOK, QuoteRows
  <2>5. rvol \in Int
    <3> DEFINE a == 100 * ctx.quote.volume
    <3> HIDE DEF a, expected
    <3>1. a \in Int /\ expected \in Nat \ {0}
      BY <1>3, <2>3, <2>4 DEF a
    <3>2. a \div expected \in Int
      BY <3>1
    <3>3. QED
      BY <3>2 DEF a
  <2>6. volumeSpike(ctx) = Reading("volume_spike", rvol, dirOf(sessionReturn(ctx.quote)),
                                   saturate(rvol - 100, 400), ctx.session)
    BY <1>3 DEF volumeSpike
  <2> HIDE DEF rvol, expected
  <2>7. saturate(rvol - 100, 400) \in 0 .. 100
    BY <2>5, SaturateType
  <2>8. QED
    BY <2>5, <2>6, <2>7 DEF Reading, ReadingOK
<1>4. QED
  BY <1>1, <1>2, <1>3

LEMMA TrendFlipOK ==
  ASSUME NEW ctx, ContextOK(ctx)
  PROVE  ReadingOK(trendFlip(ctx), "trend_flip")
<1> DEFINE s == ctx.stats
           spread == Return(s.sma20, s.sma50)
           margin == Most(40, s.sigmaDaily \div 2)
           value == (100 * Abs(spread)) \div margin
           part == saturate(spread, 400)
           severity == Least(70, 30 + (40 * part) \div 100)
           direction == IF spread > 0 THEN "up" ELSE "down"
           disc == IF spread > 0 THEN "above" ELSE "below"
<1>1. CASE ~hasStats(ctx) \/ s.sma20 <= 0 \/ s.sma50 <= 0 \/ s.bars < TrendBars
  BY <1>1 DEF trendFlip, ReadingOK
<1>2. CASE hasStats(ctx) /\ ~(s.sma20 <= 0 \/ s.sma50 <= 0 \/ s.bars < TrendBars)
  <2>1. s.sma20 \in Int /\ s.sma50 \in Int /\ s.sigmaDaily \in Int
    BY <1>2 DEF ContextOK, hasStats, StatRows
  <2>2. spread \in Int
    <3> DEFINE a == s.sma20
               b == s.sma50
    <3>1. a \in Int /\ b \in Nat \ {0}
      BY <1>2, <2>1
    <3> HIDE DEF a, b
    <3>2. Return(a, b) \in Int
      BY <3>1, ReturnType
    <3>3. QED
      BY <3>2 DEF a, b
  <2>3. margin \in Nat \ {0}
    BY <2>1 DEF Most
  <2>4. trendFlip(ctx) = Reading("trend_flip", value, direction, severity, disc)
    BY <1>2 DEF trendFlip
  <2> HIDE DEF spread, margin
  <2>5. Abs(spread) \in Nat
    BY <2>2, AbsType
  <2>6. value \in Int
    BY <2>3, <2>5
  <2>7. part \in 0 .. 100
    BY <2>2, SaturateType
  <2> HIDE DEF part
  <2>8. severity \in 0 .. 100
    BY <2>7 DEF Least
  <2> HIDE DEF value, severity, direction, disc
  <2>9. QED
    BY <2>4, <2>6, <2>8 DEF Reading, ReadingOK
<1>3. QED
  BY <1>1, <1>2

LEMMA VolRegimeOK ==
  ASSUME NEW ctx, ContextOK(ctx)
  PROVE  ReadingOK(volRegime(ctx), "vol_regime")
<1> DEFINE s == ctx.stats
           ratio == (100 * s.sigmaShort) \div s.sigmaDaily
           part == saturate(ratio - 100, 150)
           severity == Least(85, part)
<1>1. CASE ~hasStats(ctx) \/ s.sigmaShort <= 0 \/ s.bars < RegimeBars
  BY <1>1 DEF volRegime, ReadingOK
<1>2. CASE hasStats(ctx) /\ ~(s.sigmaShort <= 0 \/ s.bars < RegimeBars)
  <2>1. s.sigmaShort \in Int /\ s.sigmaDaily \in Int /\ s.sigmaDaily > 0
    BY <1>2 DEF ContextOK, hasStats, StatRows
  <2>2. ratio \in Int
    <3> DEFINE a == s.sigmaShort
               b == s.sigmaDaily
    <3>1. 100 * a \in Int /\ b \in Nat \ {0}
      BY <2>1
    <3> DEFINE c == 100 * a
    <3> HIDE DEF c, b
    <3>2. c \div b \in Int
      BY <3>1 DEF c
    <3>3. QED
      BY <3>2 DEF c, b
  <2>3. volRegime(ctx) = Reading("vol_regime", ratio, "neutral", severity, "elevated")
    BY <1>2 DEF volRegime
  <2> HIDE DEF ratio
  <2>4. part \in 0 .. 100
    BY <2>2, SaturateType
  <2> HIDE DEF part
  <2>5. severity \in 0 .. 100
    BY <2>4 DEF Least
  <2> HIDE DEF severity
  <2>6. QED
    BY <2>2, <2>3, <2>5 DEF Reading, ReadingOK
<1>3. QED
  BY <1>1, <1>2

LEMMA BucketType == \A drop \in Int : BucketOf(drop) \in Nat
<1> SUFFICES ASSUME NEW drop \in Int PROVE BucketOf(drop) \in Nat
  OBVIOUS
<1> DEFINE S == {0} \cup {b \in Buckets : drop >= 100 * b}
<1>1. Buckets \subseteq Nat /\ IsFiniteSet(Buckets)
  BY ThresholdsAssumption, BriefingAssumption
<1>2. S \in SUBSET ({0} \cup Buckets) /\ S \in SUBSET Int /\ S \subseteq Nat /\ S # {}
  <2>1. S \in SUBSET ({0} \cup Buckets) /\ S # {}
    OBVIOUS
  <2> HIDE DEF S
  <2>2. QED
    BY <1>1, <2>1
<1>3. IsFiniteSet({0} \cup Buckets)
  BY <1>1, FS_Singleton, FS_Union
<1> HIDE DEF S
<1>4. IsFiniteSet(S)
  BY <1>2, <1>3, FS_Subset
<1>5. Max(S) \in S
  BY <1>2, <1>4, Extremes
<1>6. QED
  BY <1>2, <1>5 DEF BucketOf, S

LEMMA DrawdownOK ==
  ASSUME NEW ctx, ContextOK(ctx)
  PROVE  ReadingOK(drawdown(ctx), "drawdown")
<1> DEFINE price == ctx.quote.price
           peak == ctx.stats.peak52w
           drop == drawdownFromPeak(price, peak)
           reached == BucketOf(drop)
           severity == Least(100, 30 + reached)
<1>1. CASE ~hasStats(ctx) \/ peak <= 0
  BY <1>1 DEF drawdown, ReadingOK
<1>2. CASE hasStats(ctx) /\ ~(peak <= 0)
  <2>1. peak \in Int /\ price \in Int
    BY <1>2 DEF ContextOK, hasStats, StatRows, QuoteRows
  <2>2. drop \in Int
    <3> HIDE DEF peak, price
    <3>1. peak \in Nat \ {0} /\ 10000 * (peak - price) \in Int
      BY <1>2, <2>1
    <3>2. Quot(10000 * (peak - price), peak) \in Int
      BY <3>1, QuotType
    <3>3. QED
      BY <3>2 DEF drawdownFromPeak, Most
  <2>3. reached \in Nat
    BY <2>2, BucketType
  <2>4. \/ drawdown(ctx) = inactive("drawdown", 0)
        \/ drawdown(ctx) = Reading("drawdown", 100 + reached, "down", severity, reached)
    BY <1>2 DEF drawdown
  <2> HIDE DEF reached
  <2>5. severity \in 0 .. 100 /\ 100 + reached \in Int
    BY <2>3 DEF Least
  <2> HIDE DEF severity
  <2>6. QED
    BY <2>4, <2>5 DEF Reading, ReadingOK, inactive
<1>3. QED
  BY <1>1, <1>2

(* A closed market is not an outage. *)
LEMMA StaleDataOK ==
  ASSUME NEW ctx, ContextOK(ctx)
  PROVE  /\ ReadingOK(staleData(ctx), "stale_data")
         /\ ctx.freshness = "closed" => staleData(ctx).value = 0
<1> DEFINE ratio == (100 * (ctx.now - ctx.quote.asOf)) \div Staleness
           part == saturate(ratio - 100, 300)
           severity == Least(90, 40 + part \div 2)
<1>1. CASE ctx.freshness = "closed"
  BY <1>1 DEF staleData, inactive, Reading, ReadingOK
<1>2. CASE ctx.freshness # "closed"
  <2>1. ctx.now \in Int /\ ctx.quote.asOf \in Int
    BY DEF ContextOK, QuoteRows
  <2>2. ratio \in Int
    BY <2>1, ThresholdsAssumption
  <2>3. staleData(ctx) = Reading("stale_data", ratio, "neutral", severity, "stale")
    BY <1>2 DEF staleData
  <2> HIDE DEF ratio
  <2>4. part \in 0 .. 100
    BY <2>2, SaturateType
  <2> HIDE DEF part
  <2>5. severity \in 0 .. 100
    BY <2>4 DEF Least
  <2> HIDE DEF severity
  <2>6. QED
    BY <1>2, <2>2, <2>3, <2>5 DEF Reading, ReadingOK
<1>3. QED
  BY <1>1, <1>2

LEMMA DataConflictOK ==
  ASSUME NEW ctx, ContextOK(ctx)
  PROVE  ReadingOK(dataConflict(ctx), "data_conflict")
<1> DEFINE spread == ctx.quote.conflict
           part == saturate(spread, 200)
           severity == Least(80, 35 + (45 * part) \div 100)
<1>1. spread \in Int
  BY DEF ContextOK, QuoteRows
<1>2. \/ dataConflict(ctx) = inactive("data_conflict", "none")
      \/ dataConflict(ctx) = Reading("data_conflict", 100 + spread, "neutral", severity, "conflict")
  BY DEF dataConflict
<1> HIDE DEF spread
<1>3. part \in 0 .. 100 /\ 100 + spread \in Int
  <2>1. part \in 0 .. 100
    BY <1>1, SaturateType
  <2>2. 100 + spread \in Int
    BY <1>1
  <2>3. QED
    BY <2>1, <2>2
<1> HIDE DEF part
<1>4. severity \in 0 .. 100
  BY <1>3 DEF Least
<1> HIDE DEF severity
<1>5. QED
  BY <1>2, <1>3, <1>4 DEF Reading, ReadingOK, inactive

(* Whatever a detector says is a number, and its severity is a share.      *)
LEMMA ReadingsOK ==
  ASSUME NEW ctx, ContextOK(ctx), NEW k \in DetectorKinds
  PROVE  ReadingOK(DETECTORS(ctx)[k], k)
<1>1. k \in {"sigma_move", "idio_move", "gap", "range_break", "volume_spike",
             "trend_flip", "vol_regime", "drawdown", "stale_data", "data_conflict"}
  BY DEF DetectorKinds
<1>2. CASE k = "sigma_move"
  BY <1>2, SigmaMoveOK DEF DETECTORS
<1>3. CASE k = "idio_move"
  BY <1>3, IdioMoveOK DEF DETECTORS
<1>4. CASE k = "gap"
  BY <1>4, GapOK DEF DETECTORS
<1>5. CASE k = "range_break"
  BY <1>5, RangeBreakOK DEF DETECTORS
<1>6. CASE k = "volume_spike"
  BY <1>6, VolumeSpikeOK DEF DETECTORS
<1>7. CASE k = "trend_flip"
  BY <1>7, TrendFlipOK DEF DETECTORS
<1>8. CASE k = "vol_regime"
  BY <1>8, VolRegimeOK DEF DETECTORS
<1>9. CASE k = "drawdown"
  BY <1>9, DrawdownOK DEF DETECTORS
<1>10. CASE k = "stale_data"
  BY <1>10, StaleDataOK DEF DETECTORS
<1>11. CASE k = "data_conflict"
  BY <1>11, DataConflictOK DEF DETECTORS
<1>12. QED
  BY <1>1, <1>2, <1>3, <1>4, <1>5, <1>6, <1>7, <1>8, <1>9, <1>10, <1>11

-----------------------------------------------------------------------------
(* The quote that several answers are reconciled into. *)

LEMMA ImageFinite ==
  ASSUME NEW S, IsFiniteSet(S), NEW f, DOMAIN f = S
  PROVE  IsFiniteSet({f[x] : x \in S})
<1> DEFINE T == {f[x] : x \in S}
           g == [x \in S |-> f[x]]
<1>1. g \in Surjection(S, T)
  BY DEF Surjection
<1> HIDE DEF g, T
<1>2. IsFiniteSet(T)
  BY <1>1, FS_Surjection
<1>3. QED
  BY <1>2 DEF T

Respectable(raws) ==
  /\ raws # {} /\ IsFiniteSet(raws) /\ raws \subseteq Answers
  /\ \A r \in raws : r.price > 0 /\ r.prevClose > 0

LEMMA AnswerType ==
  ASSUME NEW raws, Respectable(raws), NEW r \in raws
  PROVE  /\ r.price \in Nat \ {0} /\ r.prevClose \in Nat \ {0} /\ r.dayOpen \in Int
         /\ r.dayHigh \in Int /\ r.dayLow \in Int /\ r.volume \in Int /\ r.asOf \in Int
         /\ Preference[r.source] \in Int
<1>1. r \in Answers /\ r.price > 0 /\ r.prevClose > 0
  BY DEF Respectable
<1>2. QED
  BY <1>1, ScenesAssumption DEF Answers

LEMMA PricesType ==
  ASSUME NEW raws, Respectable(raws)
  PROVE  /\ Prices(raws) \in SUBSET (Nat \ {0}) /\ IsFiniteSet(Prices(raws))
         /\ Min(Prices(raws)) \in Nat \ {0} /\ Max(Prices(raws)) \in Nat \ {0}
         /\ \A p \in Prices(raws) : Min(Prices(raws)) <= p /\ p <= Max(Prices(raws))
<1> DEFINE f == [r \in raws |-> r.price]
           P == Prices(raws)
<1>1. P \in SUBSET (Nat \ {0}) /\ P # {}
  BY AnswerType DEF Prices, Respectable
<1>2. P = {f[r] : r \in raws} /\ DOMAIN f = raws /\ IsFiniteSet(raws)
  BY DEF Prices, Respectable
<1> HIDE DEF f, P
<1>3. IsFiniteSet(P)
  BY <1>2, ImageFinite
<1>4. P \in SUBSET Int
  BY <1>1
<1>5. Max(P) \in P /\ Min(P) \in P /\ \A y \in P : Min(P) <= y /\ y <= Max(P)
  BY <1>1, <1>3, <1>4, Extremes
<1>6. QED
  BY <1>1, <1>3, <1>5 DEF P

LEMMA LeadIsOne ==
  ASSUME NEW raws, Respectable(raws)
  PROVE  Lead(raws) \in raws
<1> DEFINE R == {p \in raws \X raws : Before(p[1], p[2])}
<1>1. \A a, b \in raws : <<a, b>> \in R <=> Before(a, b)
  OBVIOUS
<1>2. \A a \in raws : ~Before(a, a)
  BY AnswerType DEF Before
<1>3. ASSUME NEW a \in raws, NEW b \in raws, NEW c \in raws, Before(a, b), Before(b, c)
      PROVE  Before(a, c)
  <2>1. /\ Preference[a.source] \in Int /\ Preference[b.source] \in Int
        /\ Preference[c.source] \in Int
        /\ a.asOf \in Int /\ b.asOf \in Int /\ c.asOf \in Int
    BY AnswerType
  <2>2. QED
    BY <2>1, <1>3 DEF Before
<1> HIDE DEF R
<1>4. Strict(raws, R)
  BY <1>1, <1>2, <1>3 DEF Strict
<1>5. \E x \in raws : \A y \in raws : <<y, x>> \notin R
  BY <1>4, FirstExists DEF Respectable
<1>6. \E x \in raws : \A y \in raws : ~Before(y, x)
  BY <1>1, <1>5
<1>7. QED
  BY <1>6 DEF Lead

(* The k-th price is one of the prices. *)
LEMMA RankedType ==
  ASSUME NEW raws, Respectable(raws), NEW k \in 1 .. Cardinality(raws)
  PROVE  Ranked(raws, k) \in Prices(raws)
<1> DEFINE NotOver(p) == {r \in raws : r.price <= p}
           Under(p) == {r \in raws : r.price < p}
           P == Prices(raws)
           E == {p \in P : Cardinality(NotOver(p)) >= k}
<1>1. P \in SUBSET (Nat \ {0}) /\ IsFiniteSet(P) /\ Max(P) \in Int
      /\ \A p \in P : p <= Max(P)
  BY PricesType
<1>2. Max(P) \in P
  <2>1. P # {}
    BY DEF Prices, Respectable
  <2>2. P \in SUBSET Int
    BY <1>1
  <2> HIDE DEF P
  <2>3. QED
    BY <1>1, <2>1, <2>2, Extremes
<1>3. \A r \in raws : r.price \in P
  BY DEF Prices
<1>4. \A p : IsFiniteSet(NotOver(p)) /\ IsFiniteSet(Under(p))
             /\ Cardinality(NotOver(p)) \in Nat /\ Cardinality(Under(p)) \in Nat
  <2> SUFFICES ASSUME NEW p
               PROVE  IsFiniteSet(NotOver(p)) /\ IsFiniteSet(Under(p))
                      /\ Cardinality(NotOver(p)) \in Nat /\ Cardinality(Under(p)) \in Nat
    OBVIOUS
  <2>1. NotOver(p) \in SUBSET raws /\ Under(p) \in SUBSET raws /\ IsFiniteSet(raws)
    BY DEF Respectable
  <2> HIDE DEF NotOver, Under
  <2>2. QED
    BY <2>1, FS_Subset, FS_CardinalityType
<1> HIDE DEF P
<1>5. NotOver(Max(P)) = raws
  BY <1>1, <1>3
<1>6. E \in SUBSET Nat /\ E # {}
  <2>1. E \in SUBSET Nat
    BY <1>1
  <2>2. Cardinality(NotOver(Max(P))) >= k
    <3>1. Cardinality(raws) >= k
      BY <1>1
    <3> HIDE DEF NotOver
    <3>2. QED
      BY <1>5, <3>1
  <2>3. Max(P) \in E
    BY <1>2, <2>2
  <2>4. QED
    BY <2>1, <2>3
<1>7. PICK p \in E : \A q \in E : p <= q
  <2> HIDE DEF E
  <2>1. QED
    BY <1>6, LeastMember
<1>8. Cardinality(Under(p)) < k
  <2> SUFFICES ASSUME ~(Cardinality(Under(p)) < k) PROVE FALSE
    OBVIOUS
  <2> DEFINE Q == {q \in P : q < p}
  <2>1. Under(p) # {}
    <3> HIDE DEF Under
    <3>1. Cardinality(Under(p)) # 0
      BY <1>4
    <3>2. QED
      BY <3>1, FS_EmptySet
  <2>2. Q # {} /\ Q \in SUBSET P /\ Q \in SUBSET Int
    <3>1. PICK r \in raws : r.price < p
      BY <2>1
    <3>2. r.price \in Q
      BY <3>1, <1>3
    <3>3. Q \in SUBSET P
      OBVIOUS
    <3> HIDE DEF Q
    <3>4. QED
      BY <1>1, <3>2, <3>3
  <2>3. PICK q \in Q : \A o \in Q : o <= q
    <3> HIDE DEF Q
    <3>1. IsFiniteSet(Q)
      BY <1>1, <2>2, FS_Subset
    <3>2. QED
      BY <2>2, <3>1, Extremes
  <2>4. NotOver(q) = Under(p)
    <3>1. \A r \in raws : r.price \in Int /\ p \in Int /\ q \in Int /\ q < p
      <4>1. q \in P /\ q < p /\ p \in P
        OBVIOUS
      <4> HIDE DEF Q, E, NotOver, Under
      <4>2. p \in Int /\ q \in Int
        BY <4>1, <1>1
      <4>3. \A r \in raws : r.price \in Int
        <5> SUFFICES ASSUME NEW r \in raws PROVE r.price \in Int
          OBVIOUS
        <5>1. r.price \in P /\ P \in SUBSET (Nat \ {0})
          BY <1>1, <1>3
        <5>2. \A x \in Nat \ {0} : x \in Int
          OBVIOUS
        <5>3. QED
          BY <5>1, <5>2, Zenon
      <4>4. QED
        BY <4>1, <4>2, <4>3
    <3>2. \A r \in raws : r.price < p => r.price <= q
      BY <1>3, <2>3
    <3>3. QED
      BY <3>1, <3>2
  <2>5. q \in E /\ q < p
    <3>1. q \in P /\ q < p
      BY <2>3
    <3>2. Cardinality(Under(p)) >= k
      <4>1. Cardinality(Under(p)) \in Nat
        BY <1>4
      <4> HIDE DEF Under
      <4>2. QED
        BY <4>1
    <3>3. Cardinality(NotOver(q)) >= k
      <4> HIDE DEF NotOver, Under
      <4>1. QED
        BY <2>4, <3>2
    <3>4. QED
      BY <3>1, <3>3
  <2>6. q \in Int /\ p \in Int
    BY <1>1
  <2>7. QED
    BY <2>5, <2>6, <1>7
<1>9. \E o \in P : Cardinality(Under(o)) < k /\ Cardinality(NotOver(o)) >= k
  BY <1>7, <1>8
<1>10. QED
  BY <1>9 DEF Ranked, P

LEMMA MedianType ==
  ASSUME NEW raws, Respectable(raws)
  PROVE  /\ MedianPrice(raws) \in Int
         /\ Min(Prices(raws)) <= MedianPrice(raws) /\ MedianPrice(raws) <= Max(Prices(raws))
<1> DEFINE n == Cardinality(raws)
           lo == Min(Prices(raws))
           hi == Max(Prices(raws))
<1>1. n \in Nat \ {0}
  BY FS_CardinalityType, FS_EmptySet DEF Respectable
<1>2. lo \in Int /\ hi \in Int
      /\ \A p \in Prices(raws) : p \in Int /\ lo <= p /\ p <= hi
  BY PricesType
<1>3. \A k \in 1 .. n : Ranked(raws, k) \in Prices(raws)
  BY RankedType
<1>4. CASE n % 2 = 1
  <2>1. (n + 1) \div 2 \in 1 .. n
    BY <1>1
  <2> HIDE DEF n, lo, hi
  <2>2. QED
    BY <1>2, <1>3, <1>4, <2>1 DEF MedianPrice, n, lo, hi
<1>5. CASE n % 2 # 1
  <2>1. n \div 2 \in 1 .. n /\ n \div 2 + 1 \in 1 .. n
    <3> HIDE DEF n
    <3>1. n >= 2
      BY <1>1, <1>5
    <3>2. QED
      BY <1>1, <3>1
  <2> DEFINE a == Ranked(raws, n \div 2)
             b == Ranked(raws, n \div 2 + 1)
  <2>2. a \in Prices(raws) /\ b \in Prices(raws)
    BY <1>3, <2>1
  <2>3. MedianPrice(raws) = (a + b) \div 2
    BY <1>5 DEF MedianPrice
  <2> HIDE DEF n, lo, hi, a, b
  <2>4. a \in Int /\ b \in Int /\ lo <= a /\ a <= hi /\ lo <= b /\ b <= hi
    BY <1>2, <2>2
  <2>5. (a + b) \div 2 \in Int /\ lo <= (a + b) \div 2 /\ (a + b) \div 2 <= hi
    BY <1>2, <2>4
  <2>6. QED
    BY <2>3, <2>5 DEF lo, hi
<1>6. QED
  BY <1>4, <1>5

LEMMA ShareType ==
  ASSUME NEW c \in 0 .. 100, NEW f \in 0 .. 100
  PROVE  Share(c, f) \in 0 .. 100 /\ Share(c, f) <= c /\ Share(c, f) <= f
<1>1. c * f \in Nat /\ c * f <= c * 100 /\ c * f <= f * 100
  <2>1. c * f \in Nat
    OBVIOUS
  <2>2. \A x \in Nat : c * x >= 0
    OBVIOUS
  <2>3. \A x \in Nat : f * x >= 0
    OBVIOUS
  <2>4. c * (100 - f) = c * 100 - c * f /\ f * (100 - c) = f * 100 - c * f
    OBVIOUS
  <2>5. c * (100 - f) >= 0 /\ f * (100 - c) >= 0
    BY <2>2, <2>3
  <2>6. QED
    BY <2>1, <2>4, <2>5
<1>2. (c * f) \div 100 \in 0 .. c /\ (c * f) \div 100 \in 0 .. f
  BY <1>1, Shares
<1>3. QED
  BY <1>2 DEF Share

LEMMA ConfidenceType ==
  ASSUME NEW freshness \in Freshnesses, NEW spread \in Nat, NEW halted, NEW bars \in Int
  PROVE  /\ computeConfidence(freshness, spread, halted, bars) \in 0 .. 100
         /\ spread > Tolerance => computeConfidence(freshness, spread, halted, bars) < 100
<1> DEFINE a == Doubt[freshness]
           b == ConflictFactor(spread)
           c == IF halted THEN 60 ELSE 100
           d == HistoryFactor(bars)
<1>1. a \in 0 .. 100
  BY DEF Doubt, Freshnesses
<1>2. b \in 0 .. 100 /\ (spread > Tolerance => b <= 50)
  <2>1. Tolerance \in Nat \ {0}
    BY FreshnessAssumption
  <2>2. CASE spread <= Tolerance
    BY <2>1, <2>2 DEF ConflictFactor
  <2>3. CASE spread > Tolerance
    <3>1. ~(spread <= Tolerance)
      BY <2>1, <2>3
    <3>2. b \in {50, 33, 25}
      <4>1. CASE spread \in Tolerance + 1 .. 2 * Tolerance
        <5>1. ~(spread \in 2 * Tolerance + 1 .. 4 * Tolerance)
          BY <2>1, <4>1
        <5>2. QED
          BY <3>1, <4>1, <5>1 DEF ConflictFactor
      <4>2. CASE ~(spread \in Tolerance + 1 .. 2 * Tolerance)
        BY <3>1, <4>2 DEF ConflictFactor
      <4>3. QED
        BY <4>1, <4>2
    <3>3. QED
      BY <3>2
  <2>4. QED
    BY <2>1, <2>2, <2>3
<1>3. c \in 0 .. 100
  OBVIOUS
<1>4. d \in 0 .. 100
  <2>1. MinBars \in Nat \ {0}
    BY FreshnessAssumption
  <2>2. CASE bars >= MinBars
    BY <2>2 DEF HistoryFactor
  <2>3. CASE ~(bars >= MinBars)
    <3> DEFINE f == (100 * bars) \div MinBars
    <3>1. f \in Int
      BY <2>1
    <3>2. bars >= 0 => f \in 0 .. 100
      <4>1. bars >= 0 => 100 * bars \in Nat /\ 100 * bars <= 100 * MinBars
        BY <2>1, <2>3
      <4>2. QED
        BY <2>1, <4>1, Shares
    <3>3. bars < 0 => f < 35
      <4> SUFFICES ASSUME bars < 0 PROVE f < 35
        OBVIOUS
      <4>1. 100 * bars \in Int /\ 100 * bars < 0
        OBVIOUS
      <4>2. \A x \in Int : x < 0 => x \div MinBars <= 0
        BY <2>1
      <4> DEFINE x == 100 * bars
      <4> HIDE DEF x
      <4>3. x \div MinBars <= 0
        BY <4>1, <4>2 DEF x
      <4>4. QED
        BY <3>1, <4>3 DEF x
    <3>4. d = IF f < 35 THEN 35 ELSE f
      BY <2>3 DEF HistoryFactor
    <3> HIDE DEF f, d
    <3>5. QED
      BY <3>1, <3>2, <3>3, <3>4
  <2>4. QED
    BY <2>2, <2>3
<1> HIDE DEF a, b, c, d
<1>5. Share(a, b) \in 0 .. 100 /\ Share(a, b) <= b
  BY <1>1, <1>2, ShareType
<1> DEFINE e == Share(a, b)
<1> HIDE DEF e
<1>6. Share(e, c) \in 0 .. 100 /\ Share(e, c) <= e
  BY <1>3, <1>5, ShareType DEF e
<1> DEFINE g == Share(e, c)
<1> HIDE DEF g
<1>7. Share(g, d) \in 0 .. 100 /\ Share(g, d) <= g
  BY <1>4, <1>6, ShareType DEF g
<1>8. computeConfidence(freshness, spread, halted, bars) = Share(g, d)
  BY DEF computeConfidence, a, b, c, d, e, g
<1>9. spread > Tolerance => Share(g, d) < 100
  <2> DEFINE h == Share(g, d)
  <2>1. h \in Int /\ h <= g /\ g <= e /\ e <= b /\ g \in Int /\ e \in Int /\ b \in Int
    BY <1>2, <1>5, <1>6, <1>7 DEF e, g
  <2> HIDE DEF h
  <2>2. spread > Tolerance => h < 100
    BY <2>1, <1>2
  <2>3. QED
    BY <2>2 DEF h
<1>10. QED
  BY <1>7, <1>8, <1>9

LEMMA FreshnessType ==
  ASSUME NEW asOf \in Int, NEW at \in Int, NEW open \in BOOLEAN, NEW close \in Int
  PROVE  classifyFreshness(asOf, at, open, close) \in Freshnesses
<1> DEFINE age == at - asOf
<1>1. age \in Int /\ Future \in Nat
  BY FreshnessAssumption
<1>2. CASE age < -Future
  <2>1. ~(age >= -Future)
    BY <1>1, <1>2
  <2>2. classifyFreshness(asOf, at, open, close) = "unknown"
    BY <1>2, <2>1 DEF classifyFreshness
  <2>3. QED
    BY <2>2 DEF Freshnesses
<1>3. CASE ~(age < -Future)
  <2>1. age >= -Future
    BY <1>1, <1>3
  <2>2. classifyFreshness(asOf, at, open, close) \in {"closed", "stale", "fresh", "delayed"}
    <3>1. CASE open
      BY <1>3, <2>1, <3>1 DEF classifyFreshness
    <3>2. CASE ~open
      BY <1>3, <2>1, <3>2 DEF classifyFreshness
    <3>3. QED
      BY <3>1, <3>2
  <2>3. QED
    BY <2>2 DEF Freshnesses
<1>4. QED
  BY <1>2, <1>3

LEMMA SpreadType ==
  ASSUME NEW raws, Respectable(raws)
  PROVE  Spread(raws) \in Int
<1> DEFINE lo == Min(Prices(raws))
           hi == Max(Prices(raws))
<1>1. lo \in Nat \ {0} /\ hi \in Nat \ {0}
  BY PricesType
<1>2. Spread(raws) = (20000 * (hi - lo)) \div (hi + lo)
  BY DEF Spread
<1> HIDE DEF lo, hi
<1>3. 20000 * (hi - lo) \in Int /\ hi + lo \in Nat \ {0}
  BY <1>1
<1>4. \A x \in Int, y \in Nat \ {0} : x \div y \in Int
  OBVIOUS
<1>5. QED
  BY <1>2, <1>3, <1>4

(* The quote stored lies in its own day range and between the prices given.*)
LEMMA ReconcileOK ==
  ASSUME NEW raws, IsFiniteSet(raws), raws \subseteq Answers, Usable(raws) # {},
         NEW at \in Int, NEW bars \in Int, NEW open \in BOOLEAN, NEW close \in Int
  PROVE  LET q == reconcileQuotes(raws, at, bars, open, close)
         IN q \in QuoteRows /\ QuoteOK(q)
<1> DEFINE usable == Usable(raws)
           lead == Lead(usable)
           price == IF Conflicted(usable) THEN MedianPrice(usable) ELSE lead.price
           asOf == Max({r.asOf : r \in usable})
           volume == Max({r.volume : r \in usable})
           spread == IF Conflicted(usable) THEN Spread(usable) ELSE 0
           halted == \E r \in usable : r.halted
           range == DayRange(lead, price)
           lo == Min(Prices(usable))
           hi == Max(Prices(usable))
           conf == computeConfidence(classifyFreshness(asOf, at, open, close), spread, halted, bars)
<1>1. Respectable(usable)
  <2>1. usable \in SUBSET raws
    BY DEF Usable
  <2>2. IsFiniteSet(usable)
    BY <2>1, FS_Subset
  <2>3. QED
    BY <2>1, <2>2 DEF Respectable, Usable
<1> HIDE DEF usable
<1>2. lead \in usable
  BY <1>1, LeadIsOne
<1>3. lo \in Nat \ {0} /\ hi \in Nat \ {0} /\ lo <= lead.price /\ lead.price <= hi
  <2>1. lead.price \in Prices(usable)
    BY <1>2 DEF Prices
  <2>2. QED
    BY <2>1, <1>1, PricesType
<1>4. /\ lead.price \in Nat \ {0} /\ lead.prevClose \in Nat \ {0} /\ lead.dayOpen \in Int
      /\ lead.dayHigh \in Int /\ lead.dayLow \in Int
  BY <1>1, <1>2, AnswerType
<1>5. MedianPrice(usable) \in Int /\ lo <= MedianPrice(usable) /\ MedianPrice(usable) <= hi
  BY <1>1, MedianType
<1>6. asOf \in Int
  <2> DEFINE f == [r \in usable |-> r.asOf]
             S == {f[r] : r \in usable}
  <2>1. S = {r.asOf : r \in usable} /\ S # {} /\ S \in SUBSET Int
    BY <1>1, AnswerType DEF Respectable
  <2>2. IsFiniteSet(S)
    <3>1. DOMAIN f = usable /\ IsFiniteSet(usable)
      BY <1>1 DEF Respectable
    <3> HIDE DEF f
    <3>2. QED
      BY <3>1, ImageFinite
  <2> HIDE DEF S
  <2>3. Max(S) \in S
    BY <2>1, <2>2, Extremes
  <2>4. QED
    BY <2>1, <2>3
<1>7. volume \in Int
  <2> DEFINE f == [r \in usable |-> r.volume]
             S == {f[r] : r \in usable}
  <2>1. S = {r.volume : r \in usable} /\ S # {} /\ S \in SUBSET Int
    BY <1>1, AnswerType DEF Respectable
  <2>2. IsFiniteSet(S)
    <3>1. DOMAIN f = usable /\ IsFiniteSet(usable)
      BY <1>1 DEF Respectable
    <3> HIDE DEF f
    <3>2. QED
      BY <3>1, ImageFinite
  <2> HIDE DEF S
  <2>3. Max(S) \in S
    BY <2>1, <2>2, Extremes
  <2>4. QED
    BY <2>1, <2>3
<1>8. spread \in Nat /\ (spread > 0 => spread > Tolerance)
  <2>1. Spread(usable) \in Int /\ Tolerance \in Nat
    BY <1>1, SpreadType, FreshnessAssumption
  <2>2. Conflicted(usable) => Spread(usable) > Tolerance
    BY DEF Conflicted
  <2>3. QED
    BY <2>1, <2>2
<1> HIDE DEF lead, lo, hi, asOf, volume
<1>9. price \in Nat \ {0} /\ lo <= price /\ price <= hi
  BY <1>3, <1>4, <1>5
<1> HIDE DEF price
<1>10. /\ range.high \in Int /\ range.low \in Int
       /\ range.low <= price /\ price <= range.high
  <2> DEFINE A == {lead.dayHigh, price}
             B == {lead.dayLow, price}
  <2>1. A \in SUBSET Int /\ B \in SUBSET Int /\ A # {} /\ B # {} /\ price \in A /\ price \in B
    BY <1>4, <1>9
  <2>2. IsFiniteSet(A) /\ IsFiniteSet(B)
    <3>1. A = {lead.dayHigh} \cup {price} /\ B = {lead.dayLow} \cup {price}
      OBVIOUS
    <3> HIDE DEF A, B
    <3>2. QED
      BY <3>1, FS_Singleton, FS_Union
  <2>3. range.high = Max(A) /\ range.low = Min(B)
    BY DEF DayRange
  <2> HIDE DEF A, B, range
  <2>4. Max(A) \in A /\ Min(B) \in B /\ price <= Max(A) /\ Min(B) <= price
    BY <2>1, <2>2, Extremes
  <2>5. QED
    BY <2>1, <2>3, <2>4
<1>11. conf \in 0 .. 100 /\ (spread > 0 => conf < 100)
  <2> DEFINE fresh == classifyFreshness(asOf, at, open, close)
  <2>1. fresh \in Freshnesses
    BY <1>6, FreshnessType
  <2> HIDE DEF fresh, spread, halted
  <2>2. QED
    BY <1>8, <2>1, ConfidenceType DEF fresh
<1>12. halted \in BOOLEAN
  OBVIOUS
<1> DEFINE q == reconcileQuotes(raws, at, bars, open, close)
<1>13. q = [price |-> price, prevClose |-> lead.prevClose, dayOpen |-> lead.dayOpen,
            dayHigh |-> range.high, dayLow |-> range.low, volume |-> volume, asOf |-> asOf,
            halted |-> halted, conflict |-> spread, low |-> lo, high |-> hi,
            confidence |-> conf]
  BY DEF reconcileQuotes, usable, lead, price, asOf, volume, lo, hi
<1> HIDE DEF range, spread, halted, conf, q
<1>14. q \in QuoteRows
  BY <1>3, <1>4, <1>6, <1>7, <1>8, <1>9, <1>10, <1>11, <1>12, <1>13 DEF QuoteRows
<1>15. QuoteOK(q)
  BY <1>9, <1>10, <1>11, <1>13 DEF QuoteOK
<1>16. QED
  BY <1>14, <1>15 DEF q

-----------------------------------------------------------------------------
(* The clock. *)

LEMMA IsOpenType == \A m, ts : isOpen(m, ts) \in BOOLEAN
  BY DEF isOpen

LEMMA OffsetType == \A ts : Offset(ts) \in Int
  BY ZoneAssumption DEF Offset

LEMMA LastCompletedType ==
  ASSUME NEW m \in Clocks, NEW ts \in Int
  PROVE  lastCompletedSessionAt(m, ts) \in Int
<1>1. CASE Simulated(m)
  <2>1. SimEpoch \in Int /\ SimSession \in Nat \ {0} /\ SimHistory \in Nat
    BY SimulatedAssumption
  <2>2. sessionIndexOf(ts) \in Int
    BY <2>1 DEF sessionIndexOf
  <2> DEFINE i == sessionIndexOf(ts) - 1 - SimHistory
  <2>3. i \in Int
    BY <2>1, <2>2
  <2>4. sessionStartAt(sessionIndexOf(ts) - 1) = SimEpoch + i * SimSession
    BY DEF sessionStartAt
  <2> HIDE DEF i
  <2>5. SimEpoch + i * SimSession \in Int
    BY <2>1, <2>3
  <2>6. QED
    BY <1>1, <2>4, <2>5 DEF lastCompletedSessionAt, SimulatedLastCompleted
<1>2. CASE ~Simulated(m)
  <2>1. DayLen \in Nat \ {0} /\ CloseAt \in Nat
    BY DayAssumption
  <2>2. \A t \in Int : sessionCloseTs(t) \in Int
    BY <2>1, OffsetType DEF sessionCloseTs, DayOf
  <2> DEFINE back == {d \in 1 .. 11 : isTradingDay(ts - d * DayLen) \/ d = 11}
             walk == CHOOSE d \in back : \A e \in back : d <= e
  <2>3. walk \in back
    <3>1. back \in SUBSET Nat /\ 11 \in back
      OBVIOUS
    <3> HIDE DEF back
    <3>2. \E d \in back : \A e \in back : d <= e
      BY <3>1, LeastMember
    <3>3. QED
      BY <3>2
  <2>4. walk \in Int
    BY <2>3
  <2> HIDE DEF walk
  <2>5. ts - walk * DayLen \in Int
    BY <2>1, <2>4
  <2>6. ExchangeLastCompleted(ts) \in Int
    BY <2>2, <2>5 DEF ExchangeLastCompleted, walk
  <2>7. QED
    BY <1>2, <2>6 DEF lastCompletedSessionAt
<1>3. QED
  BY <1>1, <1>2

LEMMA ProgressType ==
  ASSUME NEW m \in Clocks, NEW ts \in Int
  PROVE  sessionProgress(m, ts) \in Int
<1>1. CASE Simulated(m)
  <2>1. SimEpoch \in Int /\ SimSession \in Nat \ {0} /\ SimHistory \in Nat
    BY SimulatedAssumption
  <2>2. sessionIndexOf(ts) - SimHistory \in Int
    BY <2>1 DEF sessionIndexOf
  <2> DEFINE i == sessionIndexOf(ts) - SimHistory
  <2> HIDE DEF i
  <2>3. SimEpoch + i * SimSession \in Int
    BY <2>1, <2>2 DEF i
  <2> DEFINE start == SimEpoch + i * SimSession
  <2> HIDE DEF start
  <2>4. 100 * (ts - start) \in Int
    BY <2>3 DEF start
  <2>5. \A x \in Int : x \div SimSession \in Int
    BY <2>1
  <2>6. phaseOf(ts) = (100 * (ts - start)) \div SimSession
    BY DEF phaseOf, sessionStartAt, start, i
  <2>7. QED
    BY <1>1, <2>4, <2>5, <2>6 DEF sessionProgress
<1>2. CASE ~Simulated(m)
  <2>1. DayLen \in Nat \ {0} /\ SessionTicks \in Nat \ {0} /\ OpenAt \in Nat
    BY DayAssumption DEF SessionTicks
  <2> DEFINE elapsed == TimeOfDay(ts) - OpenAt
  <2>2. elapsed \in Int
    BY <2>1, OffsetType DEF TimeOfDay
  <2>3. (100 * elapsed) \div SessionTicks \in Int
    <3> HIDE DEF elapsed
    <3>1. 100 * elapsed \in Int
      BY <2>2
    <3> DEFINE x == 100 * elapsed
    <3> HIDE DEF x
    <3>2. x \div SessionTicks \in Int
      BY <2>1, <3>1 DEF x
    <3>3. QED
      BY <3>2 DEF x
  <2>4. sessionFractionElapsed(ts) \in Int
    <3>1. CASE elapsed <= 0
      BY <3>1 DEF sessionFractionElapsed
    <3>2. CASE ~(elapsed <= 0) /\ elapsed >= SessionTicks
      BY <3>2 DEF sessionFractionElapsed
    <3>3. CASE ~(elapsed <= 0) /\ ~(elapsed >= SessionTicks)
      BY <2>3, <3>3 DEF sessionFractionElapsed
    <3>4. QED
      BY <3>1, <3>2, <3>3
  <2>5. ExchangeProgress(ts) \in Int
    <3>1. CASE marketPhase(ts) = "pre"
      BY <3>1 DEF ExchangeProgress
    <3>2. CASE marketPhase(ts) = "open"
      BY <2>4, <3>2 DEF ExchangeProgress
    <3>3. CASE marketPhase(ts) # "pre" /\ marketPhase(ts) # "open"
      BY <3>3 DEF ExchangeProgress
    <3>4. QED
      BY <3>1, <3>2, <3>3
  <2>6. QED
    BY <1>2, <2>5 DEF sessionProgress
<1>3. QED
  BY <1>1, <1>2

LEMMA SessionsAgoType ==
  ASSUME NEW m \in Clocks, NEW ts \in Int, NEW n \in Nat
  PROVE  sessionsAgo(m, ts, n) \in Int
<1>1. CASE Simulated(m)
  BY <1>1, SimulatedAssumption DEF sessionsAgo
<1>2. CASE ~Simulated(m)
  <2> DEFINE wanted == IF n < MaxSessions THEN n ELSE MaxSessions
             enough == {d \in 0 .. Reach : TradingDaysBack(ts, d) >= wanted}
             days == IF enough = {} THEN Reach
                     ELSE CHOOSE d \in enough : \A e \in enough : d <= e
  <2>1. days \in Int
    <3>1. enough \in SUBSET Nat
      OBVIOUS
    <3>2. enough # {} => \E d \in enough : \A e \in enough : d <= e
      <4> HIDE DEF enough
      <4>1. QED
        BY <3>1, LeastMember
    <3> DEFINE least == CHOOSE d \in enough : \A e \in enough : d <= e
    <3> HIDE DEF enough
    <3>3. enough # {} => least \in enough
      BY <3>2
    <3> HIDE DEF least
    <3>4. Reach \in Int /\ (enough # {} => least \in Int)
      <4>1. Reach \in Int
        BY DayAssumption
      <4>2. enough # {} => least \in Nat
        BY <3>1, <3>3, Zenon
      <4>3. QED
        BY <4>1, <4>2
    <3>5. days = IF enough = {} THEN Reach ELSE least
      BY DEF least
    <3>6. QED
      BY <3>4, <3>5
  <2>2. ExchangeSessionsAgo(ts, n) = ts - days * DayLen
    BY DEF ExchangeSessionsAgo
  <2> HIDE DEF days
  <2>3. ts - days * DayLen \in Int
    BY <2>1, DayAssumption
  <2>4. QED
    BY <1>2, <2>2, <2>3 DEF sessionsAgo
<1>3. QED
  BY <1>1, <1>2

LEMMA SessionsBetweenType ==
  ASSUME NEW m \in Clocks, NEW from \in Int, NEW to \in Int
  PROVE  sessionsBetween(m, from, to) \in Int
<1> DEFINE span == to - from
<1>1. span \in Int
  OBVIOUS
<1>2. \A x \in Int, y \in Nat \ {0} : x \div y \in Int
  OBVIOUS
<1>3. CASE Simulated(m)
  <2>1. 100 * span \in Int /\ SimSession \in Nat \ {0}
    BY <1>1, SimulatedAssumption
  <2>2. (100 * span) \div SimSession \in Int
    BY <1>2, <2>1
  <2>3. QED
    BY <1>3, <2>2 DEF sessionsBetween, SimulatedBetween
<1>4. CASE ~Simulated(m)
  <2>1. DayLen \in Nat \ {0} /\ SessionTicks \in Nat \ {0}
    BY DayAssumption DEF SessionTicks
  <2>2. (span * 500) \div (DayLen * 7) \in Int
    <3>1. span * 500 \in Int /\ DayLen * 7 \in Nat \ {0}
      BY <1>1, <2>1
    <3>2. QED
      BY <1>2, <3>1
  <2> DEFINE S == {t \in from .. to - 1 : marketPhase(t) = "open"}
  <2>3. 100 * Cardinality(S) \in Int
    <3>1. S \in SUBSET (from .. to - 1) /\ IsFiniteSet(from .. to - 1)
      BY FS_Interval
    <3> HIDE DEF S
    <3>2. Cardinality(S) \in Nat
      BY <3>1, FS_Subset, FS_CardinalityType
    <3>3. QED
      BY <3>2
  <2>4. (100 * Cardinality(S)) \div SessionTicks \in Int
    BY <1>2, <2>1, <2>3
  <2>5. tradingDaysBetween(from, to) \in {0, (span * 500) \div (DayLen * 7),
                                          (100 * Cardinality(S)) \div SessionTicks}
    BY DEF tradingDaysBetween
  <2>6. QED
    BY <1>4, <2>2, <2>4, <2>5 DEF sessionsBetween
<1>5. QED
  BY <1>3, <1>4

-----------------------------------------------------------------------------
(* Scores. *)

LEMMA LearnedType ==
  ASSUME NEW kind, NEW f \in [dismissed : Nat, engaged : Nat]
  PROVE  learnedWeight(kind, f) \in 50 .. 115
<1> DEFINE lean == f.engaged - f.dismissed
           n == f.dismissed + f.engaged
<1>1. lean \in Int /\ n \in Nat /\ lean <= n /\ -lean <= n /\ Prior \in Nat \ {0}
  BY BudgetAssumption
<1>2. CASE kind \in NOT_LEARNABLE \/ n = 0
  BY <1>2 DEF learnedWeight
<1>3. CASE ~(kind \in NOT_LEARNABLE \/ n = 0)
  <2>1. learnedWeight(kind, f) = 100 + Quot((IF lean < 0 THEN 50 ELSE 15) * lean, n + Prior)
    BY <1>3 DEF learnedWeight
  <2> HIDE DEF lean, n
  <2>2. n + Prior \in Nat \ {0}
    BY <1>1
  <2>3. CASE lean < 0
    <3>1. 50 * (-lean) \in Nat /\ 50 * (-lean) <= 50 * (n + Prior) /\ 50 * lean < 0
          /\ -(50 * lean) = 50 * (-lean) /\ 50 * lean \in Int
      BY <1>1, <2>3
    <3>2. (50 * (-lean)) \div (n + Prior) \in 0 .. 50
      BY <2>2, <3>1, Shares
    <3>3. Quot(50 * lean, n + Prior) = -((50 * (-lean)) \div (n + Prior))
      BY <3>1 DEF Quot
    <3> DEFINE x == (50 * (-lean)) \div (n + Prior)
    <3> HIDE DEF x
    <3>4. learnedWeight(kind, f) = 100 + (-x)
      BY <2>1, <2>3, <3>3 DEF x
    <3>5. x \in 0 .. 50
      BY <3>2 DEF x
    <3>6. QED
      BY <3>4, <3>5
  <2>4. CASE ~(lean < 0)
    <3>1. 15 * lean \in Nat /\ 15 * lean <= 15 * (n + Prior) /\ 15 * lean >= 0
      BY <1>1, <2>4
    <3>2. (15 * lean) \div (n + Prior) \in 0 .. 15
      BY <2>2, <3>1, Shares
    <3>3. Quot(15 * lean, n + Prior) = (15 * lean) \div (n + Prior)
      BY <3>1 DEF Quot
    <3> DEFINE x == (15 * lean) \div (n + Prior)
    <3> HIDE DEF x
    <3>4. learnedWeight(kind, f) = 100 + x
      BY <2>1, <2>4, <3>3 DEF x
    <3>5. x \in 0 .. 15
      BY <3>2 DEF x
    <3>6. QED
      BY <3>4, <3>5
  <2>5. QED
    BY <2>3, <2>4
<1>4. QED
  BY <1>2, <1>3

(* A factor in hundredths, rounded up, keeps what is positive and what is  *)
(* at least half of another.                                               *)
LEMMA Per100Facts ==
  ASSUME NEW a \in Nat, NEW f \in Nat \ {0}
  PROVE  /\ Per100(a, f) \in Nat
         /\ Per100(a, f) > 0 <=> a > 0
         /\ 100 * Per100(a, f) >= a * f /\ 100 * Per100(a, f) <= a * f + 99
<1> DEFINE x == a * f
<1>1. x \in Nat /\ (a > 0 => x > 0) /\ (a = 0 => x = 0)
  OBVIOUS
<1>2. Per100(a, f) = (x + 99) \div 100
  BY DEF Per100
<1> HIDE DEF x
<1> DEFINE p == (x + 99) \div 100
<1>3. p \in Nat /\ 100 * p >= x /\ 100 * p <= x + 99
  BY <1>1
<1> HIDE DEF p
<1>4. p > 0 <=> x > 0
  BY <1>1, <1>3
<1>5. QED
  BY <1>1, <1>2, <1>3, <1>4 DEF x, p

LEMMA Halves ==
  ASSUME NEW a \in Nat, NEW b \in Nat, NEW f \in Nat \ {0}, 2 * a >= b
  PROVE  2 * Per100(a, f) >= Per100(b, f)
<1> DEFINE x == a * f
           y == b * f
           p == Per100(a, f)
           q == Per100(b, f)
<1>1. x \in Nat /\ y \in Nat
  OBVIOUS
<1>2. 2 * x >= y
  <2>1. \A z \in Nat : z * f >= 0
    OBVIOUS
  <2>2. (2 * a - b) * f = 2 * x - y
    OBVIOUS
  <2>3. (2 * a - b) * f >= 0
    BY <2>1
  <2> HIDE DEF x, y
  <2>4. QED
    BY <1>1, <2>2, <2>3
<1>3. p \in Nat /\ q \in Nat /\ 100 * p >= x /\ 100 * q <= y + 99
  BY Per100Facts
<1> HIDE DEF x, y, p, q
<1>4. 2 * p >= q
  BY <1>1, <1>2, <1>3
<1>5. QED
  BY <1>4 DEF p, q

LEMMA RecencyType ==
  ASSUME NEW kind, NEW age \in Int
  PROVE  recencyFactor(age, DecayMultiplier(kind)) \in 1 .. 100
<1>1. DecayMultiplier(kind) \in {1, 2, 3, 4, 6}
  <2>1. CASE kind \in {"trend_flip", "vol_regime", "drawdown", "range_break"}
    BY <2>1 DEF DecayMultiplier
  <2>2. CASE kind \notin {"trend_flip", "vol_regime", "drawdown", "range_break"}
    BY <2>2 DEF DecayMultiplier
  <2>3. QED
    BY <2>1, <2>2
<1> DEFINE d == HalfLife * DecayMultiplier(kind)
<1>2. d \in Nat \ {0}
  BY <1>1, BudgetAssumption
<1>3. CASE age <= 0
  BY <1>3 DEF recencyFactor
<1>4. CASE ~(age <= 0)
  <2> DEFINE i == 1 + Least(6, age \div d)
  <2>1. age \div d \in Nat
    <3> HIDE DEF d
    <3>1. QED
      BY <1>2, <1>4
  <2>2. i \in 1 .. 7
    <3> HIDE DEF d
    <3>1. QED
      BY <2>1 DEF Least
  <2>3. recencyFactor(age, DecayMultiplier(kind)) = Left[i]
    BY <1>4 DEF recencyFactor
  <2> HIDE DEF i
  <2>4. Left[i] \in 1 .. 100
    BY <2>2 DEF Left
  <2>5. QED
    BY <2>3, <2>4
<1>5. QED
  BY <1>3, <1>4

Weighable(row, at) ==
  row.severity \in 0 .. 100 /\ row.detectedAt \in Int /\ at \in Int

(* A score with and without what the reader has taught. *)
LEMMA ScoreType ==
  ASSUME NEW kind \in Kinds, NEW row, NEW prefs, NEW conf \in 0 .. 100, NEW w \in 50 .. 115,
         NEW at, Weighable(row, at)
  PROVE  LET taught == scoreSignal(kind, row, prefs, conf, w, at)
             plain  == scoreSignal(kind, row, prefs, conf, 100, at)
         IN /\ taught \in Nat /\ plain \in Nat
            /\ taught > 0 <=> plain > 0
            /\ 2 * taught >= plain
            /\ taught > 0 <=> ~Silenced(row, prefs) /\ row.severity > 0
<1> DEFINE taught == scoreSignal(kind, row, prefs, conf, w, at)
           plain  == scoreSignal(kind, row, prefs, conf, 100, at)
<1>1. CASE Silenced(row, prefs)
  <2>1. taught = 0 /\ plain = 0
    BY <1>1 DEF scoreSignal
  <2> HIDE DEF taught, plain
  <2>2. QED
    BY <1>1, <2>1 DEF taught, plain
<1>2. CASE ~Silenced(row, prefs)
  <2> DEFINE a == row.severity * KIND_WEIGHT[kind]
             r == recencyFactor(at - row.detectedAt, DecayMultiplier(kind))
             p == IF prefs.pinned THEN 140 ELSE 100
             c == confidenceFactor(kind, conf)
  <2>1. a \in Nat /\ (a > 0 <=> row.severity > 0)
    BY DEF Weighable, KIND_WEIGHT, Kinds, DetectorKinds
  <2>2. r \in Nat \ {0}
    BY RecencyType DEF Weighable
  <2>3. p \in Nat \ {0}
    OBVIOUS
  <2>4. c \in Nat \ {0}
    <3>1. (65 * conf) \div 100 \in Nat
      OBVIOUS
    <3>2. QED
      BY <3>1 DEF confidenceFactor
  <2> HIDE DEF a, r, p, c
  <2>5. /\ taught = Per100(Per100(Per100(Per100(a, w), r), p), c)
        /\ plain = Per100(Per100(Per100(Per100(a, 100), r), p), c)
    BY <1>2 DEF scoreSignal, a, r, p, c
  <2> DEFINE t1 == Per100(a, w)
             q1 == Per100(a, 100)
             t2 == Per100(t1, r)
             q2 == Per100(q1, r)
             t3 == Per100(t2, p)
             q3 == Per100(q2, p)
             t4 == Per100(t3, c)
             q4 == Per100(q3, c)
  <2>6. t1 \in Nat /\ q1 \in Nat /\ (t1 > 0 <=> q1 > 0) /\ 2 * t1 >= q1 /\ (t1 > 0 <=> a > 0)
    <3>1. t1 \in Nat /\ (t1 > 0 <=> a > 0) /\ 100 * t1 >= a * w
      <4>1. w \in Nat \ {0}
        OBVIOUS
      <4>2. QED
        BY ONLY <2>1, <4>1, Per100Facts DEF t1
    <3>2. q1 \in Nat /\ (q1 > 0 <=> a > 0) /\ 100 * q1 <= a * 100 + 99
      <4>1. 100 \in Nat \ {0}
        OBVIOUS
      <4>2. QED
        BY ONLY <2>1, <4>1, Per100Facts DEF q1
    <3>3. a * w >= 50 * a
      <4>1. (w - 50) * a = a * w - 50 * a /\ a * w \in Int /\ \A z \in Nat : z * a >= 0
        BY <2>1
      <4>2. (w - 50) * a >= 0
        BY <4>1
      <4>3. QED
        BY <2>1, <4>1, <4>2
    <3> DEFINE x == a * w
    <3>4. x \in Int
      BY <2>1
    <3> HIDE DEF t1, q1, x
    <3>5. QED
      BY <2>1, <3>1, <3>3, <3>4, <3>2 DEF x
  <2> HIDE DEF t1, q1
  <2>7. /\ t2 \in Nat /\ q2 \in Nat /\ (t2 > 0 <=> q2 > 0) /\ 2 * t2 >= q2
        /\ t2 > 0 <=> t1 > 0
    BY <2>2, <2>6, Per100Facts, Halves
  <2> HIDE DEF t2, q2
  <2>8. /\ t3 \in Nat /\ q3 \in Nat /\ (t3 > 0 <=> q3 > 0) /\ 2 * t3 >= q3
        /\ t3 > 0 <=> t2 > 0
    BY <2>3, <2>7, Per100Facts, Halves
  <2> HIDE DEF t3, q3
  <2>9. /\ t4 \in Nat /\ q4 \in Nat /\ (t4 > 0 <=> q4 > 0) /\ 2 * t4 >= q4
        /\ t4 > 0 <=> t3 > 0
    BY <2>4, <2>8, Per100Facts, Halves
  <2>10. taught = t4 /\ plain = q4
    BY <2>5 DEF t1, q1, t2, q2, t3, q3
  <2> HIDE DEF t4, q4, taught, plain
  <2>11. t4 > 0 <=> row.severity > 0
    BY <2>1, <2>6, <2>7, <2>8, <2>9
  <2>12. QED
    BY <1>2, <2>9, <2>10, <2>11 DEF taught, plain
<1>3. QED
  BY <1>1, <1>2

-----------------------------------------------------------------------------
(* The inductive invariant. *)

QuotesOK ==
  /\ DOMAIN quote = Symbols
  /\ \A s \in Symbols : quote[s] # None => quote[s] \in QuoteRows /\ QuoteOK(quote[s])

StateOK ==
  /\ DOMAIN state = Symbols
  /\ \A s \in Symbols, k \in DetectorKinds : state[s][k] # None => state[s][k].peak \in Nat

RowOK(row) ==
  /\ DOMAIN row = {"severity", "detectedAt", "asOf", "sigma", "supersededAt"}
  /\ row.severity \in 0 .. 100 /\ row.detectedAt \in Instants

SignalsOK ==
  /\ IsFiniteSet(DOMAIN signals)
  /\ \A id \in DOMAIN signals :
       SymbolOf(id) \in Symbols /\ KindOf(id) \in DetectorKinds /\ RowOK(signals[id])

StatsOK == \A s \in Symbols : stats[s] # None => stats[s] \in StatRows

MarksOK ==
  \A s \in Symbols :
    mark[s] # None => /\ mark[s].seenAt \in Instants
                      /\ mark[s].seenPrice # None => mark[s].seenPrice \in Nat \ {0}

IInv ==
  /\ market \in Clocks /\ now \in Instants
  /\ StatsOK /\ QuotesOK /\ StateOK /\ SignalsOK /\ MarksOK
  /\ tally \in [Kinds -> [dismissed : Nat, engaged : Nat]]
  /\ read \subseteq DOMAIN signals

LEMMA FinitelyManyKinds == IsFiniteSet(DetectorKinds)
<1> DEFINE f == <<"sigma_move", "idio_move", "gap", "range_break", "volume_spike",
                  "trend_flip", "vol_regime", "drawdown", "stale_data", "data_conflict">>
<1>1. DOMAIN f = 1 .. 10
  OBVIOUS
<1>2. IsFiniteSet(1 .. 10)
  <2>1. 1 \in Int /\ 10 \in Int
    OBVIOUS
  <2>2. QED
    BY <2>1, FS_Interval
<1>3. {f[x] : x \in 1 .. 10} = DetectorKinds
  <2>1. 1 .. 10 = {1, 2, 3, 4, 5, 6, 7, 8, 9, 10}
    OBVIOUS
  <2>2. QED
    BY <2>1 DEF DetectorKinds
<1> HIDE DEF f
<1>4. IsFiniteSet({f[x] : x \in 1 .. 10})
  BY <1>1, <1>2, ImageFinite
<1>5. QED
  BY <1>3, <1>4

LEMMA InstantType == \A t \in Instants : t \in Int
<1>1. Instants \subseteq Nat
  BY BriefingAssumption
<1>2. \A t \in Nat : t \in Int
  OBVIOUS
<1>3. QED
  BY ONLY <1>1, <1>2, Zenon

LEMMA NowType ==
  ASSUME IInv
  PROVE  now \in Int /\ now \in Instants /\ market \in Clocks
  BY BriefingAssumption DEF IInv

LEMMA StampedType ==
  ASSUME IInv, NEW raw \in Answers
  PROVE  Stamped(raw) \in Answers /\ Stamped(raw).price = raw.price
                                  /\ Stamped(raw).prevClose = raw.prevClose
<1> DEFINE traded == IF isOpen(market, now) THEN now ELSE lastCompletedSessionAt(market, now)
<1>1. traded \in Int
  BY NowType, LastCompletedType
<1> HIDE DEF traded
<1>2. Stamped(raw) = [raw EXCEPT !.asOf = traded - raw.asOf]
  BY DEF Stamped, traded
<1>3. QED
  BY <1>1, <1>2 DEF Answers

LEMMA FetchedOK ==
  ASSUME IInv, NEW s \in Symbols, NEW scene \in Scenes[market][s], Usable(scene.raws) # {}
  PROVE  Fetched(s, scene.raws) \in QuoteRows /\ QuoteOK(Fetched(s, scene.raws))
<1> DEFINE raws == {Stamped(r) : r \in scene.raws}
           bars == IF stats[s] = None THEN 0 ELSE stats[s].bars
           f    == [r \in scene.raws |-> Stamped(r)]
<1>1. IsFiniteSet(scene.raws) /\ scene.raws \subseteq Answers
  BY NowType, ScenesAssumption
<1>2. IsFiniteSet(raws)
  <2>1. DOMAIN f = scene.raws /\ raws = {f[r] : r \in scene.raws}
    OBVIOUS
  <2> HIDE DEF f, raws
  <2>2. QED
    BY <1>1, <2>1, ImageFinite
<1>3. raws \subseteq Answers
  BY <1>1, StampedType
<1>4. Usable(raws) # {}
  <2>1. PICK r \in scene.raws : r.price > 0 /\ r.prevClose > 0
    BY DEF Usable
  <2>2. Stamped(r) \in raws /\ Stamped(r).price > 0 /\ Stamped(r).prevClose > 0
    BY <1>1, <2>1, StampedType
  <2> HIDE DEF raws
  <2>3. QED
    BY <2>2 DEF Usable
<1>5. bars \in Int
  BY DEF IInv, StatsOK, StatRows
<1>6. isOpen(market, now) \in BOOLEAN /\ lastCompletedSessionAt(market, now) \in Int /\ now \in Int
  BY NowType, LastCompletedType, IsOpenType
<1>7. Fetched(s, scene.raws)
        = reconcileQuotes(raws, now, bars, isOpen(market, now), lastCompletedSessionAt(market, now))
  BY DEF Fetched
<1> HIDE DEF raws, bars
<1>8. QED
  BY <1>2, <1>3, <1>4, <1>5, <1>6, <1>7, ReconcileOK

LEMMA ContextIsOK ==
  ASSUME IInv, NEW s \in Symbols, NEW scene \in Scenes[market][s], NEW q \in QuoteRows
  PROVE  ContextOK(Context(s, q, scene)) /\ Context(s, q, scene).freshness = freshnessOf(q)
<1> DEFINE ctx == Context(s, q, scene)
<1>1. /\ ctx.now = now /\ ctx.quote = q /\ ctx.stats = stats[s]
      /\ ctx.progress = sessionProgress(market, now)
      /\ ctx.benchmark = scene.benchmark /\ ctx.sector = scene.sector
      /\ ctx.freshness = freshnessOf(q)
  BY DEF Context
<1>2. /\ scene.benchmark # None => scene.benchmark \in References
      /\ scene.sector # None => scene.sector \in References
  BY NowType, ScenesAssumption
<1>3. sessionProgress(market, now) \in Int /\ now \in Int
  BY NowType, ProgressType
<1>4. stats[s] # None => stats[s] \in StatRows
  BY DEF IInv, StatsOK
<1> HIDE DEF ctx
<1>5. QED
  BY <1>1, <1>2, <1>3, <1>4 DEF ContextOK, ctx

(* What a detector's reading is once distrusted. *)
ActsOn(o, k, freshness) ==
  o # None => /\ o.kind = k /\ o.value \in Int /\ o.severity \in 0 .. 100
              /\ k \notin INTEGRITY_KINDS /\ Untrusted(freshness) => o.value = 0
              /\ k = "stale_data" /\ freshness = "closed" => o.value = 0

LEMMA TrustedType ==
  ASSUME NEW k, NEW o, o # None, ReadingOK(o, k), NEW freshness,
         k = "stale_data" /\ freshness = "closed" => o.value = 0
  PROVE  ActsOn(Trusted(o, freshness), k, freshness)
<1> DEFINE zero == [o EXCEPT !.value = 0]
<1>1. /\ DOMAIN o = {"kind", "value", "direction", "severity", "disc", "sigma"}
      /\ o.kind = k /\ o.value \in Int /\ o.severity \in 0 .. 100
  BY DEF ReadingOK
<1>2. zero.kind = k /\ zero.value = 0 /\ zero.severity = o.severity
  BY <1>1
<1> HIDE DEF zero
<1>3. Trusted(o, freshness) =
        IF o.kind \notin INTEGRITY_KINDS /\ Untrusted(freshness) THEN zero ELSE o
  BY DEF Trusted, zero
<1>4. CASE o.kind \notin INTEGRITY_KINDS /\ Untrusted(freshness)
  BY <1>1, <1>2, <1>3, <1>4 DEF ActsOn
<1>5. CASE ~(o.kind \notin INTEGRITY_KINDS /\ Untrusted(freshness))
  BY <1>1, <1>3, <1>5 DEF ActsOn
<1>6. QED
  BY <1>4, <1>5

(* What the episode machine is given, once it is distrusted. *)
LEMMA ReadingsActed ==
  ASSUME NEW ctx, ContextOK(ctx), NEW k \in DetectorKinds
  PROVE  ActsOn(Readings(ctx)[k], k, ctx.freshness)
<1> DEFINE o == DETECTORS(ctx)[k]
<1>1. Readings(ctx)[k] = IF o = None THEN None ELSE Trusted(o, ctx.freshness)
  BY DEF Readings
<1>2. ReadingOK(o, k)
  BY ReadingsOK
<1>3. k = "stale_data" /\ ctx.freshness = "closed" => o.value = 0
  <2>1. ctx.freshness = "closed" => staleData(ctx).value = 0
    BY StaleDataOK
  <2>2. k = "stale_data" => o = staleData(ctx)
    BY DEF DETECTORS
  <2>3. QED
    BY <2>1, <2>2
<1> HIDE DEF o
<1>4. CASE o = None
  BY <1>1, <1>4 DEF ActsOn
<1>5. CASE o # None
  BY <1>1, <1>2, <1>3, <1>5, TrustedType
<1>6. QED
  BY <1>4, <1>5

(* The episode machine announces only what reaches the threshold. *)
LEMMA StepType ==
  ASSUME NEW o, NEW k \in DetectorKinds, o.kind = k, o.value \in Int, NEW prior, NEW at,
         prior # None => prior.peak \in Nat
  PROVE  LET r == step(Magnitude(o), prior, at)
         IN /\ r.state.peak \in Nat
            /\ r.action \in {"open", "reopen"} => Abs(o.value) >= Enter[k]
<1> DEFINE m == Magnitude(o)
<1>1. m.kind = k /\ m.value = Abs(o.value) /\ m.value \in Nat
  BY AbsType DEF Magnitude
<1> HIDE DEF m
<1> DEFINE r == step(m, prior, at)
<1>2. CASE ~inEpisode(prior)
  <2>1. r = StepOutside(m, at)
    BY <1>2 DEF step
  <2>2. r.state.peak \in Nat
    BY <1>1, <2>1 DEF StepOutside, Outcome, Quiet, Opened
  <2>3. r.action \in {"open", "reopen"} => ~(m.value < Enter[k])
    BY <1>1, <2>1 DEF StepOutside, Outcome
  <2> HIDE DEF r
  <2>4. QED
    BY <1>1, <2>2, <2>3, OrderAssumption DEF m, r
<1>3. CASE inEpisode(prior)
  <2>1. prior.peak \in Nat
    BY <1>3 DEF inEpisode
  <2>2. CASE discriminatorOf(prior.key) # m.disc
    <3>1. r = StepChanged(m, prior, at)
      BY <1>3, <2>2 DEF step
    <3>2. r.state.peak \in Nat
      BY <1>1, <3>1 DEF StepChanged, Outcome, Quiet, Opened
    <3>3. r.action \in {"open", "reopen"} => m.value >= Enter[k]
      BY <1>1, <3>1 DEF StepChanged, Outcome
    <3> HIDE DEF r
    <3>4. QED
      BY <1>1, <3>2, <3>3 DEF m, r
  <2>3. CASE ~(discriminatorOf(prior.key) # m.disc)
    <3>1. r = StepInside(m, prior)
      BY <1>3, <2>3 DEF step
    <3>2. r.state.peak \in Nat
      BY <1>1, <2>1, <3>1 DEF StepInside, Outcome, Quiet, Larger
    <3>3. r.action \notin {"open", "reopen"}
      BY <3>1 DEF StepInside, Outcome
    <3> HIDE DEF r
    <3>4. QED
      BY <3>2, <3>3 DEF m, r
  <2>4. QED
    BY <2>2, <2>3
<1>4. QED
  BY <1>2, <1>3

(* What a refresh of s does: the quote it keeps, what it reads from it and *)
(* what the episode machine makes of that.                                 *)
Cycle(s, q, readings, outcomes) ==
  /\ q \in QuoteRows /\ QuoteOK(q)
  /\ quote' = [quote EXCEPT ![s] = q]
  /\ \A k \in DetectorKinds : ActsOn(readings[k], k, freshnessOf(q))
  /\ outcomes = Outcomes(s, readings)
  /\ detect(s, readings, outcomes, q.asOf)
  /\ UNCHANGED <<market, now, stats, mark, item, tally, read>>

(* Every refresh is such a cycle. *)
LEMMA RefreshIsCycle ==
  ASSUME IInv, NEW s \in Symbols, NEW scene \in Scenes[market][s], Refresh(s, scene)
  PROVE  \E q, readings, outcomes : Cycle(s, q, readings, outcomes)
<1> DEFINE q == Effective(s, Fetched(s, scene.raws))
           readings == Readings(Context(s, q, scene))
           outcomes == Outcomes(s, readings)
<1>1. quote' = [quote EXCEPT ![s] = q] /\ quote'[s] = q
  BY DEF Refresh, IInv, QuotesOK
<1>2. q \in QuoteRows /\ QuoteOK(q)
  <2> DEFINE fetched == Fetched(s, scene.raws)
  <2>1. fetched \in QuoteRows /\ QuoteOK(fetched)
    BY FetchedOK DEF Refresh
  <2>2. quote[s] # None => quote[s] \in QuoteRows /\ QuoteOK(quote[s])
    BY DEF IInv, QuotesOK
  <2> HIDE DEF fetched
  <2>3. q = IF quote[s] = None THEN fetched
            ELSE IF fetched.asOf >= quote[s].asOf THEN fetched ELSE quote[s]
    BY DEF Effective, fetched
  <2> HIDE DEF q
  <2>4. QED
    BY <2>1, <2>2, <2>3
<1> HIDE DEF q
<1>3. ContextOK(Context(s, q, scene)) /\ Context(s, q, scene).freshness = freshnessOf(q)
  BY <1>2, ContextIsOK
<1>4. \A k \in DetectorKinds : ActsOn(readings[k], k, freshnessOf(q))
  BY <1>3, ReadingsActed
<1>5. detect(s, readings, outcomes, q.asOf)
  BY <1>1 DEF Refresh
<1>6. UNCHANGED <<market, now, stats, mark, item, tally, read>>
  BY DEF Refresh, reader
<1> HIDE DEF readings
<1>7. Cycle(s, q, readings, outcomes)
  BY <1>1, <1>2, <1>4, <1>5, <1>6 DEF Cycle
<1>8. QED
  BY <1>7

LEMMA CycleOutcomes ==
  ASSUME IInv, NEW s \in Symbols, NEW q, NEW readings, NEW outcomes,
         Cycle(s, q, readings, outcomes), NEW k \in DetectorKinds, outcomes[k] # None
  PROVE  /\ readings[k] # None
         /\ readings[k].value \in Int /\ readings[k].severity \in 0 .. 100
         /\ outcomes[k].state.peak \in Nat
         /\ Announced(state[s][k], k, outcomes[k]) => readings[k].value # 0
<1> DEFINE o == readings[k]
           r == step(Magnitude(o), state[s][k], now)
<1>1. outcomes[k] = IF o = None THEN None ELSE r
  BY DEF Cycle, Outcomes
<1>2. o # None /\ outcomes[k] = r
  BY <1>1
<1>3. o.kind = k /\ o.value \in Int /\ o.severity \in 0 .. 100
  BY <1>2 DEF Cycle, ActsOn
<1>4. state[s][k] # None => state[s][k].peak \in Nat
  BY DEF IInv, StateOK
<1> HIDE DEF o
<1>5. r.state.peak \in Nat /\ (r.action \in {"open", "reopen"} => Abs(o.value) >= Enter[k])
  BY <1>3, <1>4, StepType
<1> HIDE DEF r
<1>6. Announced(state[s][k], k, outcomes[k]) => o.value # 0
  <2>1. Announced(state[s][k], k, outcomes[k]) => r.action \in {"open", "reopen"}
    BY <1>2 DEF Announced
  <2>2. Enter[k] \in Nat \ {0}
    BY OrderAssumption
  <2>3. o.value = 0 => ~(Abs(o.value) >= Enter[k])
    BY <2>2 DEF Abs
  <2>4. QED
    BY <1>5, <2>1, <2>3
<1>7. QED
  BY <1>2, <1>3, <1>5, <1>6 DEF o

LEMMA InsertedIds ==
  ASSUME IInv, NEW s \in Symbols, NEW q, NEW readings, NEW outcomes,
         Cycle(s, q, readings, outcomes)
  PROVE  /\ IsFiniteSet(Inserted(s, outcomes))
         /\ \A id \in Inserted(s, outcomes) :
              /\ SymbolOf(id) = s /\ KindOf(id) \in DetectorKinds
              /\ outcomes[KindOf(id)] # None
              /\ Announced(state[s][KindOf(id)], KindOf(id), outcomes[KindOf(id)])
<1> DEFINE announced == {l \in DetectorKinds : IF outcomes[l] = None THEN FALSE
                                               ELSE Announced(state[s][l], l, outcomes[l])}
           f == [k \in announced |-> <<s, k, outcomes[k].key>>]
<1>1. IsFiniteSet(announced)
  BY FinitelyManyKinds, FS_Subset
<1>2. Inserted(s, outcomes) = {f[k] : k \in announced} /\ DOMAIN f = announced
  BY DEF Inserted
<1>3. IsFiniteSet(Inserted(s, outcomes))
  <2> HIDE DEF f, announced
  <2>1. QED
    BY <1>1, <1>2, ImageFinite
<1>4. ASSUME NEW id \in Inserted(s, outcomes)
      PROVE  /\ SymbolOf(id) = s /\ KindOf(id) \in DetectorKinds
             /\ outcomes[KindOf(id)] # None
             /\ Announced(state[s][KindOf(id)], KindOf(id), outcomes[KindOf(id)])
  <2>1. PICK k \in announced : id = <<s, k, outcomes[k].key>>
    BY <1>4 DEF Inserted
  <2>2. SymbolOf(id) = s /\ KindOf(id) = k
    BY <2>1 DEF SymbolOf, KindOf
  <2>3. k \in DetectorKinds /\ outcomes[k] # None /\ Announced(state[s][k], k, outcomes[k])
    OBVIOUS
  <2>4. QED
    BY <2>2, <2>3
<1>5. QED
  BY <1>3, <1>4

LEMMA RevisedOK ==
  ASSUME NEW row, RowOK(row), NEW key, NEW o, o.severity \in 0 .. 100, NEW r, NEW asOf
  PROVE  RowOK(Revised(row, key, o, r, asOf))
<1> DEFINE ended == [row EXCEPT !.supersededAt = IF row.supersededAt = None THEN now
                                                 ELSE row.supersededAt]
           grown == [row EXCEPT !.severity = o.severity, !.sigma = o.sigma, !.asOf = asOf]
<1>1. RowOK(ended)
  BY DEF RowOK
<1>2. RowOK(grown)
  BY DEF RowOK
<1> HIDE DEF ended, grown
<1>3. Revised(row, key, o, r, asOf)
        = IF key = r.closing THEN ended
          ELSE IF r.action = "intensify" /\ key = r.key THEN grown ELSE row
  BY DEF Revised, ended, grown
<1>4. QED
  BY <1>1, <1>2, <1>3

(* A cycle keeps the invariant: one step per part of it. *)
LEMMA CycleInv ==
  ASSUME IInv, NEW s \in Symbols, NEW q, NEW readings, NEW outcomes,
         Cycle(s, q, readings, outcomes)
  PROVE  IInv'
<1>1. UNCHANGED <<market, now, stats, mark, tally, read>>
  BY DEF Cycle
<1>2. QuotesOK'
  <2>1. DOMAIN quote' = Symbols
    BY DEF Cycle, IInv, QuotesOK
  <2>2. ASSUME NEW t \in Symbols, quote'[t] # None
        PROVE  quote'[t] \in QuoteRows /\ QuoteOK(quote'[t])
    BY <2>2 DEF Cycle, IInv, QuotesOK
  <2>3. QED
    BY <2>1, <2>2 DEF QuotesOK
<1>3. StateOK'
  <2>1. state' = [state EXCEPT ![s] = RowsAfter(s, outcomes)]
    BY DEF Cycle, detect
  <2>2. DOMAIN state' = Symbols
    BY <2>1 DEF IInv, StateOK
  <2>3. ASSUME NEW t \in Symbols, NEW k \in DetectorKinds, state'[t][k] # None
        PROVE  state'[t][k].peak \in Nat
    <3>1. CASE t # s
      BY <2>1, <2>3, <3>1 DEF IInv, StateOK
    <3>2. CASE t = s
      <4>1. state'[t][k] = IF outcomes[k] = None THEN state[s][k] ELSE outcomes[k].state
        BY <2>1, <3>2 DEF IInv, StateOK, RowsAfter
      <4>2. outcomes[k] # None => outcomes[k].state.peak \in Nat
        BY CycleOutcomes
      <4>3. state[s][k] # None => state[s][k].peak \in Nat
        BY DEF IInv, StateOK
      <4>4. QED
        BY <2>3, <4>1, <4>2, <4>3
    <3>3. QED
      BY <3>1, <3>2
  <2>4. QED
    BY <2>2, <2>3 DEF StateOK
<1>4. /\ DOMAIN signals' = DOMAIN signals \cup Inserted(s, outcomes)
      /\ \A id \in DOMAIN signals' : signals'[id] = RowAfter(s, id, readings, outcomes, q.asOf)
  BY DEF Cycle, detect
<1>5. SignalsOK'
  <2>1. IsFiniteSet(DOMAIN signals')
    <3>1. IsFiniteSet(DOMAIN signals) /\ IsFiniteSet(Inserted(s, outcomes))
      BY InsertedIds DEF IInv, SignalsOK
    <3>2. QED
      BY <1>4, <3>1, FS_Union
  <2>2. ASSUME NEW id \in DOMAIN signals'
        PROVE  SymbolOf(id) \in Symbols /\ KindOf(id) \in DetectorKinds /\ RowOK(signals'[id])
    <3> DEFINE k == KindOf(id)
    <3>1. CASE id \notin DOMAIN signals
      <4>1. id \in Inserted(s, outcomes)
        BY <1>4, <3>1
      <4>2. SymbolOf(id) = s /\ k \in DetectorKinds /\ outcomes[k] # None
        BY <4>1, InsertedIds
      <4> HIDE DEF k
      <4>3. readings[k].severity \in 0 .. 100
        BY <4>2, CycleOutcomes
      <4>4. signals'[id] = RowOf(readings[k].severity, now, q.asOf, readings[k].sigma, None)
        BY <1>4, <3>1 DEF RowAfter, k
      <4>5. RowOK(signals'[id])
        BY <4>3, <4>4, NowType DEF RowOK, RowOf
      <4>6. QED
        BY <4>2, <4>5 DEF k
    <3>2. CASE id \in DOMAIN signals
      <4>1. SymbolOf(id) \in Symbols /\ k \in DetectorKinds /\ RowOK(signals[id])
        BY <3>2 DEF IInv, SignalsOK
      <4> HIDE DEF k
      <4>2. signals'[id] = IF SymbolOf(id) # s \/ outcomes[k] = None THEN signals[id]
                           ELSE Revised(signals[id], id[3], readings[k], outcomes[k], q.asOf)
        BY <1>4, <3>2 DEF RowAfter, k
      <4>3. outcomes[k] # None => readings[k].severity \in 0 .. 100
        BY <4>1, CycleOutcomes
      <4>4. RowOK(signals'[id])
        BY <4>1, <4>2, <4>3, RevisedOK
      <4>5. QED
        BY <4>1, <4>4 DEF k
    <3>3. QED
      BY <3>1, <3>2
  <2>3. QED
    BY <2>1, <2>2 DEF SignalsOK, RowOK
<1>6. StatsOK' /\ MarksOK'
  BY <1>1 DEF IInv, StatsOK, MarksOK
<1>7. read' \subseteq DOMAIN signals'
  BY <1>1, <1>4 DEF IInv
<1>8. QED
  BY <1>1, <1>2, <1>3, <1>5, <1>6, <1>7 DEF IInv

LEMMA ReaderInit ==
  ASSUME Init
  PROVE  IInv
<1>1. market \in Clocks
  BY BriefingAssumption DEF Init
<1>2. now \in Instants
  <2>1. \E x \in Instants : \A y \in Instants : x <= y
    BY BriefingAssumption, LeastMember
  <2>2. QED
    BY <2>1 DEF Init, Min
<1>3. StatsOK
  <2>1. PICK setup \in Setups : stats = [s \in Symbols |-> StatsOf(setup.bars[s])]
    BY DEF Init
  <2>2. \A s \in Symbols : StatsOf(setup.bars[s]) # None => setup.bars[s] # None
    BY DEF StatsOf
  <2>3. QED
    BY <2>1, <2>2, StatsAssumption DEF StatsOK
<1>4. QuotesOK /\ StateOK /\ MarksOK
  BY DEF Init, QuotesOK, StateOK, MarksOK
<1>5. SignalsOK
  <2>1. DOMAIN signals = {}
    BY DEF Init
  <2>2. QED
    BY <2>1, FS_EmptySet DEF SignalsOK
<1>6. tally \in [Kinds -> [dismissed : Nat, engaged : Nat]] /\ read \subseteq DOMAIN signals
  BY DEF Init, NoTally
<1>7. QED
  BY <1>1, <1>2, <1>3, <1>4, <1>5, <1>6 DEF IInv

LEMMA ReaderStep ==
  ASSUME IInv, [Next]_vars
  PROVE  IInv'
<1>1. ASSUME NEW s \in Symbols, NEW scene \in Scenes[market][s], Refresh(s, scene)
      PROVE  IInv'
  BY <1>1, RefreshIsCycle, CycleInv
<1>2. ASSUME NEW s \in Symbols, NEW scene \in Scenes[market][s], RefreshFails(s, scene)
      PROVE  IInv'
  BY <1>2 DEF RefreshFails, reader, IInv, StatsOK, QuotesOK, StateOK, SignalsOK, MarksOK, RowOK
<1>3. CASE Tick
  BY <1>3 DEF Tick, reader, IInv, StatsOK, QuotesOK, StateOK, SignalsOK, MarksOK, RowOK
<1>4. CASE Acknowledge
  <2>1. UNCHANGED <<market, now, stats, quote, state, signals, tally, read>>
    BY <1>4 DEF Acknowledge, pipeline
  <2>2. MarksOK'
    <3>1. SUFFICES ASSUME NEW s \in Symbols
                   PROVE  /\ mark'[s].seenAt \in Instants
                          /\ mark'[s].seenPrice # None => mark'[s].seenPrice \in Nat \ {0}
      BY DEF MarksOK
    <3>2. mark'[s] = [seenAt |-> now,
                      seenPrice |-> IF quote[s] = None THEN None ELSE quote[s].price]
      BY <1>4 DEF Acknowledge
    <3>3. quote[s] # None => quote[s].price \in Nat \ {0}
      BY DEF IInv, QuotesOK, QuoteRows
    <3>4. QED
      BY <3>2, <3>3, NowType
  <2>3. QED
    BY <2>1, <2>2 DEF IInv, StatsOK, QuotesOK, StateOK, SignalsOK, RowOK
<1>5. ASSUME NEW id \in DOMAIN signals, Dismiss(id)
      PROVE  IInv'
  <2>1. UNCHANGED <<market, now, stats, quote, state, signals, mark>>
    BY <1>5 DEF Dismiss, pipeline
  <2>2. read' \subseteq DOMAIN signals'
    BY <1>5, <2>1 DEF Dismiss, IInv
  <2>3. tally' \in [Kinds -> [dismissed : Nat, engaged : Nat]]
    <3> DEFINE k == KindOf(id)
    <3>1. k \in Kinds
      BY DEF IInv, SignalsOK, Kinds
    <3> HIDE DEF k
    <3>2. tally' = [tally EXCEPT ![k] = [tally[k] EXCEPT !.dismissed = tally[k].dismissed + 1]]
      BY <1>5 DEF Dismiss, k
    <3>3. tally \in [Kinds -> [dismissed : Nat, engaged : Nat]]
      BY DEF IInv
    <3>4. [tally[k] EXCEPT !.dismissed = tally[k].dismissed + 1]
            \in [dismissed : Nat, engaged : Nat]
      BY <3>1, <3>3
    <3>5. QED
      BY <3>2, <3>3, <3>4
  <2>4. QED
    BY <2>1, <2>2, <2>3 DEF IInv, StatsOK, QuotesOK, StateOK, SignalsOK, MarksOK, RowOK
<1>6. ASSUME NEW s \in Symbols, Open(s)
      PROVE  IInv'
  <2>1. UNCHANGED <<market, now, stats, quote, state, signals, mark, read>>
    BY <1>6 DEF Open, pipeline
  <2>2. tally' \in [Kinds -> [dismissed : Nat, engaged : Nat]]
    BY <1>6 DEF Open, IInv
  <2>3. QED
    BY <2>1, <2>2 DEF IInv, StatsOK, QuotesOK, StateOK, SignalsOK, MarksOK, RowOK
<1>7. CASE Forget
  <2>1. UNCHANGED <<market, now, stats, quote, state, signals, mark, read>>
    BY <1>7 DEF Forget, pipeline
  <2>2. tally' \in [Kinds -> [dismissed : Nat, engaged : Nat]]
    BY <1>7 DEF Forget, NoTally
  <2>3. QED
    BY <2>1, <2>2 DEF IInv, StatsOK, QuotesOK, StateOK, SignalsOK, MarksOK, RowOK
<1>8. ASSUME NEW s \in Symbols, NEW p \in Prefs[s], SetItem(s, p)
      PROVE  IInv'
  BY <1>8 DEF SetItem, pipeline, IInv, StatsOK, QuotesOK, StateOK, SignalsOK, MarksOK, RowOK
<1>9. CASE UNCHANGED vars
  BY <1>9 DEF vars, pipeline, reader, IInv, StatsOK, QuotesOK, StateOK, SignalsOK, MarksOK, RowOK
<1>10. QED
  BY <1>1, <1>2, <1>3, <1>4, <1>5, <1>6, <1>7, <1>8, <1>9 DEF Next

LEMMA ReaderInvariant == Spec => []IInv
<1>1. Init => IInv
  BY ReaderInit
<1>2. IInv /\ [Next]_vars => IInv'
  BY ReaderStep
<1>3. QED
  BY <1>1, <1>2, PTL DEF Spec

(* What is stored is of its type, whatever the providers say and the user  *)
(* does: a price lies inside its own day range and between the answers it  *)
(* comes from, a disputed one is not fully trusted, and no weight leaves   *)
(* 50 .. 115 (reconcile.ts, detectors.ts, learning.ts).                    *)
THEOREM ReaderTypes == Spec => []TypeOK
<1>1. IInv => TypeOK
  <2> SUFFICES ASSUME IInv
               PROVE  TypeOK
    OBVIOUS
  <2>1. \A s \in Symbols : quote[s] # None => QuoteOK(quote[s])
    BY DEF IInv, QuotesOK
  <2>2. \A s \in Symbols, k \in DetectorKinds : state[s][k] # None => state[s][k].peak \in Nat
    BY DEF IInv, StateOK
  <2>3. \A id \in DOMAIN signals :
          /\ SymbolOf(id) \in Symbols /\ KindOf(id) \in Kinds
          /\ signals[id].severity \in 0 .. 100
          /\ signals[id].detectedAt \in Instants
    BY DEF IInv, SignalsOK, RowOK, Kinds
  <2>4. \A k \in Kinds : learnedWeight(k, tally[k]) \in 50 .. 115
    BY LearnedType DEF IInv
  <2>5. QED
    BY <2>1, <2>2, <2>3, <2>4 DEF TypeOK, IInv
<1>2. QED
  BY <1>1, ReaderInvariant, PTL

-----------------------------------------------------------------------------
(* What one reader is shown. *)

LEMMA CutoffType ==
  ASSUME IInv, NEW s \in Symbols
  PROVE  hardFloor \in Int /\ cutoffs[s] \in Int /\ cutoffs[s] >= hardFloor
<1>1. hardFloor \in Int /\ firstVisitCutoff \in Int
  BY NowType, BriefingAssumption, SessionsAgoType DEF hardFloor, firstVisitCutoff
<1>2. mark[s] # None => mark[s].seenAt \in Int
  BY InstantType DEF IInv, MarksOK
<1> DEFINE since == IF mark[s] = None THEN firstVisitCutoff ELSE mark[s].seenAt
<1>3. since \in Int
  BY <1>1, <1>2
<1> HIDE DEF since
<1>4. cutoffs[s] = Most(hardFloor, since)
  BY DEF cutoffs, since
<1>5. QED
  BY <1>1, <1>3, <1>4 DEF Most

(* The page a query may return: the newest, as many as it holds. *)
LEMMA PageType ==
  ASSUME IInv, NEW instant, NEW page \in getSignalsSince(instant)
  PROVE  /\ IsFiniteSet(Since(instant)) /\ page \subseteq Since(instant) /\ IsFiniteSet(page)
         /\ page # Since(instant) => Cardinality(page) = PageLimit
         /\ Cardinality(page) \in Nat /\ Cardinality(page) <= PageLimit
         /\ \A i \in Since(instant) \ page, j \in page : Older(i, j)
<1> DEFINE all == Since(instant)
<1>1. all \subseteq DOMAIN signals
  BY DEF Since
<1>2. IsFiniteSet(all)
  BY <1>1, FS_Subset DEF IInv, SignalsOK
<1>3. /\ page \subseteq all /\ Cardinality(page) = Least(PageLimit, Cardinality(all))
      /\ \A i \in all \ page, j \in page : Older(i, j)
  BY DEF getSignalsSince, kSubset
<1> HIDE DEF all
<1>4. /\ IsFiniteSet(page) /\ Cardinality(page) \in Nat /\ Cardinality(all) \in Nat
      /\ page # all => Cardinality(page) # Cardinality(all)
  BY <1>2, <1>3, FS_Subset, FS_CardinalityType
<1>5. PageLimit \in Nat
  BY BriefingAssumption
<1>6. Cardinality(page) <= PageLimit /\ (page # all => Cardinality(page) = PageLimit)
  BY <1>3, <1>4, <1>5 DEF Least
<1>7. QED
  BY <1>2, <1>3, <1>4, <1>6 DEF all

LEMMA EarliestType ==
  ASSUME IInv
  PROVE  earliest \in Int /\ \A s \in Symbols : cutoffs[s] >= earliest
<1> DEFINE starts == {now} \cup {cutoffs[s] : s \in Symbols}
           f == [s \in Symbols |-> cutoffs[s]]
<1>1. IsFiniteSet(starts)
  <2>1. {cutoffs[s] : s \in Symbols} = {f[s] : s \in Symbols} /\ DOMAIN f = Symbols
    OBVIOUS
  <2> HIDE DEF f
  <2>2. IsFiniteSet({cutoffs[s] : s \in Symbols})
    BY <2>1, BriefingAssumption, ImageFinite
  <2>3. QED
    BY <2>2, FS_Singleton, FS_Union
<1>2. \A s \in Symbols : cutoffs[s] \in Int
  BY CutoffType
<1>3. \A t \in starts : t \in Int
  BY <1>2, NowType
<1>4. starts \in SUBSET Int /\ starts # {}
  BY <1>3
<1>5. earliest = Min(starts)
  BY DEF earliest
<1> HIDE DEF starts
<1>6. Min(starts) \in starts /\ \A t \in starts : Min(starts) <= t
  BY <1>1, <1>4, Extremes
<1>7. earliest \in Int /\ \A t \in starts : earliest <= t
  BY <1>3, <1>5, <1>6
<1>8. \A s \in Symbols : cutoffs[s] \in starts
  BY DEF starts
<1>9. QED
  BY <1>2, <1>7, <1>8

LEMMA SinceType ==
  ASSUME IInv, NEW id \in DOMAIN signals
  PROVE  /\ SymbolOf(id) \in Symbols /\ KindOf(id) \in Kinds
         /\ Weighable(signals[id], now)
<1>1. SymbolOf(id) \in Symbols /\ KindOf(id) \in DetectorKinds /\ RowOK(signals[id])
  BY DEF IInv, SignalsOK
<1>2. QED
  BY <1>1, NowType, InstantType DEF Weighable, RowOK, Kinds

LEMMA RelevantType ==
  ASSUME IInv, NEW page \in candidatesForDigest
  PROVE  /\ IsFiniteSet(relevant(page)) /\ relevant(page) \subseteq page
         /\ page \subseteq Since(earliest) /\ page \subseteq DOMAIN signals
         /\ \A id \in relevant(page) : id \in Since(hardFloor)
<1>1. IsFiniteSet(page) /\ page \subseteq Since(earliest)
  BY PageType DEF candidatesForDigest
<1>2. relevant(page) \subseteq page
  BY DEF relevant
<1>3. ASSUME NEW id \in relevant(page)
      PROVE  id \in Since(hardFloor)
  <2>1. id \in DOMAIN signals /\ signals[id].detectedAt > cutoffs[SymbolOf(id)]
    BY <1>1, <1>2 DEF relevant, Since
  <2>2. signals[id].detectedAt \in Int /\ hardFloor \in Int
        /\ cutoffs[SymbolOf(id)] \in Int /\ cutoffs[SymbolOf(id)] >= hardFloor
    BY <2>1, SinceType, CutoffType DEF Weighable
  <2>3. QED
    BY <2>1, <2>2 DEF Since
<1>4. QED
  BY <1>1, <1>2, <1>3, FS_Subset DEF Since

LEMMA ScoresType ==
  ASSUME IInv, NEW ids \in SUBSET DOMAIN signals, NEW id \in ids
  PROVE  LET taught == scoresUnder(ids, learnedWeights(tally))[id]
             plain  == scoresUnder(ids, [k \in Kinds |-> 100])[id]
         IN /\ taught \in Nat
            /\ taught > 0 <=> plain > 0
            /\ 2 * taught >= plain
            /\ KindOf(id) \in INTEGRITY_KINDS => taught = plain
            /\ taught > 0 <=> ~Declined(id)
<1> DEFINE kind == KindOf(id)
           s    == SymbolOf(id)
           conf == confidence(s)
           w    == learnedWeight(kind, tally[kind])
           taught == scoreSignal(kind, signals[id], item[s], conf, w, now)
           plain  == scoreSignal(kind, signals[id], item[s], conf, 100, now)
<1>1. kind \in Kinds /\ s \in Symbols /\ Weighable(signals[id], now)
  BY SinceType
<1>2. tally \in [Kinds -> [dismissed : Nat, engaged : Nat]]
  BY DEF IInv
<1>3. learnedWeights(tally)[kind] = w /\ [k \in Kinds |-> 100][kind] = 100
  BY <1>1, <1>2 DEF learnedWeights
<1>4. /\ scoresUnder(ids, learnedWeights(tally))[id] = taught
      /\ scoresUnder(ids, [k \in Kinds |-> 100])[id] = plain
  BY <1>3 DEF scoresUnder
<1>5. conf \in 0 .. 100
  BY <1>1 DEF confidence, IInv, QuotesOK, QuoteRows
<1>6. w \in 50 .. 115
  BY <1>1, <1>2, LearnedType
<1>7. kind \in INTEGRITY_KINDS => w = 100
  BY DEF learnedWeight, NOT_LEARNABLE
<1>8. kind \in INTEGRITY_KINDS => taught = plain
  BY <1>7
<1> DEFINE row == signals[id]
           prefs == item[s]
<1> HIDE DEF kind, s, conf, w
<1>9. /\ taught \in Nat
      /\ taught > 0 <=> plain > 0
      /\ 2 * taught >= plain
      /\ taught > 0 <=> ~Silenced(row, prefs) /\ row.severity > 0
  <2>1. Weighable(row, now) /\ kind \in Kinds
    BY <1>1
  <2> HIDE DEF row, prefs
  <2>2. LET t == scoreSignal(kind, row, prefs, conf, w, now)
            p == scoreSignal(kind, row, prefs, conf, 100, now)
        IN /\ t \in Nat /\ p \in Nat
           /\ t > 0 <=> p > 0
           /\ 2 * t >= p
           /\ t > 0 <=> ~Silenced(row, prefs) /\ row.severity > 0
    BY ONLY <1>5, <1>6, <2>1, ScoreType, Zenon
  <2> USE DEF row, prefs
  <2>3. QED
    BY <2>2
<1>10. row.severity > 0 <=> row.severity # 0
  BY <1>1 DEF Weighable
<1>11. Declined(id) <=> Silenced(row, prefs) \/ row.severity = 0
  BY DEF Declined, s
<1> HIDE DEF taught, plain, row, prefs
<1>12. QED
  BY <1>4, <1>8, <1>9, <1>10, <1>11 DEF kind, s

(* The briefing of the invariant is the ranking of what is relevant. *)
LEMMA BriefingShows ==
  ASSUME IInv, NEW page \in candidatesForDigest
  PROVE  LET d == getDigest(page)
             all == relevant(page)
             shown == ShownOf(d)
         IN /\ shown \subseteq {id \in all : ~Declined(id)}
            /\ Lengths(d.groups) = Cardinality(shown)
            /\ Cardinality(shown) + d.suppressed = Cardinality({id \in all : ~Declined(id)})
            /\ Cardinality(shown) <= MaxItems
            /\ \A s \in Symbols : Cardinality(Of(s, shown)) <= MaxPerSymbol
            /\ d.suppressed > 0 => \/ Cardinality(shown) = MaxItems
                                   \/ \E s \in Symbols : Cardinality(Of(s, shown)) = MaxPerSymbol
            /\ \E silent \in SUBSET Symbols :
                 /\ d.quiet = QuietOf(silent)
                 /\ MaxPerSymbol > 0 => silent = {s \in Symbols : Of(s, shown) = {}}
<1> DEFINE all == relevant(page)
           score == scoresUnder(all, learnedWeights(tally))
           r == rankSignals(all, signals, score, read)
           d == Digest(r)
           shown == ShownOf(r)
           wanted == {id \in all : ~Declined(id)}
<1>1. getDigest(page) = d
  BY DEF getDigest, rankingOf
<1>2. /\ IsFiniteSet(all) /\ all \in SUBSET DOMAIN signals
      /\ \A id \in all : SymbolOf(id) \in Symbols /\ Weighable(signals[id], now)
  BY RelevantType, SinceType
<1> HIDE DEF all
<1>3. \A id \in all : score[id] \in Nat /\ (score[id] > 0 <=> ~Declined(id))
  BY <1>2, ScoresType
<1>4. Rankable(all, signals, score)
  <2>1. \A id \in all : signals[id].detectedAt \in Int
    BY <1>2 DEF Weighable
  <2> HIDE DEF score
  <2>2. QED
    BY <1>3, <2>1 DEF Rankable
<1> HIDE DEF score
<1>5. {id \in all : score[id] > 0} = wanted
  BY <1>3
<1>6. /\ shown \subseteq wanted
      /\ Lengths(r.groups) = Cardinality(shown)
      /\ Cardinality(shown) + r.suppressed = Cardinality(wanted)
      /\ Cardinality(shown) <= MaxItems
      /\ \A s \in Symbols : Cardinality(Of(s, shown)) <= MaxPerSymbol
      /\ r.suppressed > 0 => \/ Cardinality(shown) = MaxItems
                             \/ \E s \in Symbols : Cardinality(Of(s, shown)) = MaxPerSymbol
      /\ \A id \in shown : \E i \in DOMAIN r.groups : r.groups[i].symbol = SymbolOf(id)
      /\ MaxPerSymbol > 0 => \A i \in DOMAIN r.groups : Of(r.groups[i].symbol, shown) # {}
  <2> DEFINE positive == {id \in all : score[id] > 0}
  <2>1. /\ shown \subseteq positive
        /\ Lengths(r.groups) = Cardinality(shown)
        /\ Cardinality(shown) + r.suppressed = Cardinality(positive)
        /\ Cardinality(shown) <= MaxItems
        /\ \A s \in Symbols : Cardinality(Of(s, shown)) <= MaxPerSymbol
        /\ r.suppressed > 0 => \/ Cardinality(shown) = MaxItems
                               \/ \E s \in Symbols : Cardinality(Of(s, shown)) = MaxPerSymbol
        /\ \A id \in shown : \E i \in DOMAIN r.groups : r.groups[i].symbol = SymbolOf(id)
        /\ MaxPerSymbol > 0 => \A i \in DOMAIN r.groups : Of(r.groups[i].symbol, shown) # {}
    BY <1>2, <1>4, RankingAccounts
  <2>2. positive = wanted
    BY <1>5
  <2> HIDE DEF positive, wanted, shown, r
  <2>3. QED
    BY <2>1, <2>2
<1> HIDE DEF r
<1>7. /\ d.groups = r.groups /\ d.suppressed = r.suppressed
      /\ d.quiet = QuietOf(Silent(r))
  BY DEF Digest
<1>8. ShownOf(d) = shown
  BY <1>7 DEF ShownOf
<1> HIDE DEF shown, wanted
<1>9. MaxPerSymbol > 0 => Silent(r) = {s \in Symbols : Of(s, shown) = {}}
  <2>1. \A s \in Silent(r) : Of(s, shown) = {}
    BY <1>6 DEF Silent, Of
  <2>2. MaxPerSymbol > 0 => \A s \in Symbols \ Silent(r) : Of(s, shown) # {}
    BY <1>6 DEF Silent
  <2>3. Silent(r) \subseteq Symbols
    BY DEF Silent
  <2>4. QED
    BY <2>1, <2>2, <2>3
<1>10. Silent(r) \in SUBSET Symbols
  BY DEF Silent
<1> HIDE DEF d
<1>11. \E silent \in SUBSET Symbols :
         /\ d.quiet = QuietOf(silent)
         /\ MaxPerSymbol > 0 => silent = {s \in Symbols : Of(s, shown) = {}}
  BY <1>7, <1>9, <1>10
<1>12. QED
  BY <1>1, <1>6, <1>7, <1>8, <1>11 DEF all, wanted

LEMMA MoveType ==
  ASSUME IInv, NEW s \in Symbols
  PROVE  sinceSeen(s).value \in Int
<1> DEFINE base == IF mark[s] = None THEN None ELSE mark[s].seenPrice
           from == IF base = None THEN quote[s].prevClose ELSE base
           change == Return(quote[s].price, from)
           horizon == IF mark[s] = None THEN Most(15, sessionProgress(market, now))
                      ELSE sessionsBetween(market, mark[s].seenAt, now)
<1>1. CASE quote[s] = None \/ stats[s] = None
  <2>1. sinceSeen(s) = [known |-> FALSE, value |-> 0]
    BY <1>1 DEF sinceSeen
  <2>2. QED
    BY <2>1
<1>2. CASE ~(quote[s] = None \/ stats[s] = None) /\ stats[s].bars < EnoughBars
  <2>1. sinceSeen(s) = [known |-> FALSE, value |-> 0]
    BY <1>2 DEF sinceSeen
  <2>2. QED
    BY <2>1
<1>3. CASE ~(quote[s] = None \/ stats[s] = None) /\ ~(stats[s].bars < EnoughBars)
  <2>1. quote[s].price \in Int /\ quote[s].prevClose \in Nat \ {0}
    BY <1>3 DEF IInv, QuotesOK, QuoteRows
  <2>2. base # None => base \in Nat \ {0}
    BY DEF IInv, MarksOK
  <2> HIDE DEF base
  <2>3. from \in Nat \ {0}
    BY <2>1, <2>2
  <2> HIDE DEF from
  <2>4. change \in Int
    BY <2>1, <2>3, ReturnType
  <2>5. horizon \in Int
    <3>1. mark[s] # None => mark[s].seenAt \in Int
      BY InstantType DEF IInv, MarksOK
    <3>2. mark[s] # None => sessionsBetween(market, mark[s].seenAt, now) \in Int
      BY <3>1, NowType, SessionsBetweenType
    <3>3. Most(15, sessionProgress(market, now)) \in Int
      BY NowType, ProgressType DEF Most
    <3>4. QED
      BY <3>2, <3>3
  <2>6. stats[s].sigmaDaily \in Int
    BY <1>3 DEF IInv, StatsOK, StatRows
  <2>7. sinceSeen(s) = sigmaOfMove(change, stats[s].sigmaDaily, horizon)
    BY <1>3 DEF sinceSeen, from, base
  <2> HIDE DEF change, horizon
  <2> DEFINE expected == horizonSigma(stats[s].sigmaDaily, horizon)
  <2>8. expected \in Int
    BY <2>5, <2>6, HorizonType
  <2>9. expected > 0 => Quot(100 * change, expected) \in Int
    BY <2>4, <2>8, QuotType
  <2>10. sinceSeen(s) = IF stats[s].sigmaDaily <= 0 \/ expected <= 0
                        THEN [known |-> FALSE, value |-> 0]
                        ELSE [known |-> TRUE, value |-> Quot(100 * change, expected)]
    BY <2>7 DEF sigmaOfMove
  <2> HIDE DEF expected
  <2>11. QED
    BY <2>6, <2>8, <2>9, <2>10
<1>4. QED
  BY <1>1, <1>2, <1>3

LEMMA QuietList ==
  ASSUME IInv, NEW silent \in SUBSET Symbols
  PROVE  ToSet(QuietOf(silent)) = silent
<1> DEFINE moved == Distances(silent)
           before == {p \in silent \X silent : moved[p[1]] > moved[p[2]]}
<1>1. IsFiniteSet(silent)
  BY BriefingAssumption, FS_Subset
<1>2. \A s \in silent : moved[s] \in Int
  BY MoveType, AbsType DEF Distances
<1> HIDE DEF moved
<1>3. \A x, y \in silent : <<x, y>> \in before <=> moved[x] > moved[y]
  OBVIOUS
<1>4. QuietOf(silent) = Sorted(silent, before)
  BY DEF QuietOf, ByMove, moved
<1> HIDE DEF before
<1>5. Strict(silent, before)
  BY <1>2, <1>3 DEF Strict
<1>6. QED
  BY <1>1, <1>4, <1>5, SortedEnumerates DEF Enumerates

(* getDigest (view.ts, scoring.ts): whatever the limits, the preferences   *)
(* and the scores, the briefing shows, counts, or leaves out at its user's *)
(* word, all that is newer than the checkpoints, or the newest of it when  *)
(* a page does not hold it.                                                *)
THEOREM BriefingAccountsForAll == Spec => []WholeAccount
<1>1. IInv => WholeAccount
  <2> SUFFICES ASSUME IInv, NEW page \in candidatesForDigest
               PROVE  LET d == getDigest(page)
                          all == relevant(page)
                          shown == ShownOf(d)
                      IN /\ \A id \in DOMAIN signals \ all :
                              signals[id].detectedAt > cutoffs[SymbolOf(id)] =>
                                Cardinality(page) = PageLimit /\ \A j \in page : Older(id, j)
                         /\ shown \subseteq {id \in all : ~Declined(id)}
                         /\ Lengths(d.groups) = Cardinality(shown)
                         /\ Cardinality(shown) + d.suppressed
                              = Cardinality({id \in all : ~Declined(id)})
                         /\ Cardinality(shown) <= MaxItems
                         /\ \A s \in Symbols : Cardinality(Of(s, shown)) <= MaxPerSymbol
                         /\ d.suppressed > 0 =>
                              \/ Cardinality(shown) = MaxItems
                              \/ \E s \in Symbols : Cardinality(Of(s, shown)) = MaxPerSymbol
                         /\ MaxPerSymbol > 0 =>
                              ToSet(d.quiet) = {s \in Symbols : Of(s, shown) = {}}
    BY DEF WholeAccount
  <2> DEFINE d == getDigest(page)
             all == relevant(page)
             shown == ShownOf(d)
  <2>1. ASSUME NEW id \in DOMAIN signals \ all, signals[id].detectedAt > cutoffs[SymbolOf(id)]
        PROVE  Cardinality(page) = PageLimit /\ \A j \in page : Older(id, j)
    <3>1. id \notin page
      BY <2>1 DEF relevant
    <3>2. /\ SymbolOf(id) \in Symbols /\ signals[id].detectedAt \in Int
          /\ cutoffs[SymbolOf(id)] \in Int /\ earliest \in Int
          /\ cutoffs[SymbolOf(id)] >= earliest
      BY <2>1, SinceType, CutoffType, EarliestType DEF Weighable
    <3>3. id \in Since(earliest)
      BY <2>1, <3>2 DEF Since
    <3>4. QED
      BY <3>1, <3>3, PageType DEF candidatesForDigest
  <2>2. /\ shown \subseteq {id \in all : ~Declined(id)}
        /\ Lengths(d.groups) = Cardinality(shown)
        /\ Cardinality(shown) + d.suppressed = Cardinality({id \in all : ~Declined(id)})
        /\ Cardinality(shown) <= MaxItems
        /\ \A s \in Symbols : Cardinality(Of(s, shown)) <= MaxPerSymbol
        /\ d.suppressed > 0 => \/ Cardinality(shown) = MaxItems
                               \/ \E s \in Symbols : Cardinality(Of(s, shown)) = MaxPerSymbol
    BY BriefingShows
  <2>3. PICK silent \in SUBSET Symbols :
          /\ d.quiet = QuietOf(silent)
          /\ MaxPerSymbol > 0 => silent = {s \in Symbols : Of(s, shown) = {}}
    BY BriefingShows
  <2> HIDE DEF d, all, shown
  <2>4. ToSet(d.quiet) = silent
    BY <2>3, QuietList
  <2>5. QED
    BY <2>1, <2>2, <2>3, <2>4 DEF d, all, shown
<1>2. QED
  BY <1>1, ReaderInvariant, PTL

(* learning.ts: no history of dismissals and openings decides whether a    *)
(* signal is shown, more than halves a score, or touches a data warning.   *)
THEOREM TasteOnlyReorders == Spec => []TasteNeverHides
<1>1. IInv => TasteNeverHides
  <2>1. Since(earliest) \in SUBSET DOMAIN signals
    BY DEF Since
  <2>2. QED
    BY <2>1, ScoresType DEF TasteNeverHides
<1>2. QED
  BY <1>1, ReaderInvariant, PTL

(* view.ts: the badge of a row covers everything the briefing shows of it, *)
(* whatever the two lookbacks and wherever the two pages end.              *)
THEOREM BadgeCovers == Spec => []BadgeCoversBriefing
<1>1. IInv => BadgeCoversBriefing
  <2> SUFFICES ASSUME IInv, NEW page \in candidatesForDigest, NEW listed \in candidatesForTable,
                      NEW id \in ShownOf(getDigest(page))
               PROVE  \/ signals[id].severity <= topSignalPerSymbol(SymbolOf(id), listed)
                      \/ \E j \in listed \ page : signals[j].detectedAt = signals[id].detectedAt
    BY DEF BadgeCoversBriefing
  <2>1. /\ id \in page /\ id \in Since(earliest) /\ id \in DOMAIN signals
        /\ id \in Since(hardFloor)
    BY BriefingShows, RelevantType
  <2>2. /\ listed \subseteq Since(hardFloor) /\ IsFiniteSet(listed)
        /\ listed # Since(hardFloor) => Cardinality(listed) = PageLimit
        /\ \A i \in Since(hardFloor) \ listed, j \in listed : Older(i, j)
    BY PageType DEF candidatesForTable
  <2>3. /\ page \subseteq Since(earliest) /\ IsFiniteSet(page) /\ Cardinality(page) \in Nat
        /\ Cardinality(page) <= PageLimit
        /\ \A i \in Since(earliest) \ page, j \in page : Older(i, j)
    BY PageType DEF candidatesForDigest
  <2>4. \A i \in DOMAIN signals : signals[i].detectedAt \in Int
    BY SinceType DEF Weighable
  <2>5. earliest \in Int
    BY EarliestType
  <2>7. CASE id \in listed
    <3> DEFINE s == SymbolOf(id)
               recent == {i \in listed : SymbolOf(i) = s}
               f == [i \in recent |-> signals[i].severity]
               severities == {signals[i].severity : i \in recent}
               all == {0} \cup severities
    <3>1. IsFiniteSet(all)
      <4>1. IsFiniteSet(recent)
        BY <2>2, FS_Subset
      <4>2. severities = {f[i] : i \in recent} /\ DOMAIN f = recent
        OBVIOUS
      <4> HIDE DEF f, recent, severities
      <4>3. IsFiniteSet(severities)
        BY <4>1, <4>2, ImageFinite
      <4>4. QED
        BY <4>3, FS_Singleton, FS_Union
    <3>2. all \in SUBSET Int /\ all # {}
      BY <2>2 DEF Since, IInv, SignalsOK, RowOK
    <3>3. signals[id].severity \in all
      BY <2>7
    <3>4. topSignalPerSymbol(s, listed) = Max(all)
      BY DEF topSignalPerSymbol
    <3> HIDE DEF all, s
    <3>5. signals[id].severity <= Max(all)
      BY <3>1, <3>2, <3>3, Extremes
    <3>6. QED
      BY <3>4, <3>5 DEF s
  <2>8. CASE id \notin listed
    <3>1. ~(listed \subseteq page)
      <4> SUFFICES ASSUME listed \subseteq page PROVE FALSE
        OBVIOUS
      <4>1. Cardinality(listed) = PageLimit
        BY <2>1, <2>2, <2>8
      <4>2. Cardinality(listed) <= Cardinality(page) /\ Cardinality(listed) # Cardinality(page)
            /\ Cardinality(listed) \in Nat
        BY <2>1, <2>2, <2>3, <2>8, FS_Subset, FS_CardinalityType
      <4>3. QED
        BY <2>3, <4>1, <4>2
    <3>2. PICK j \in listed : j \notin page
      BY <3>1
    <3>3. Older(id, j)
      BY <2>1, <2>2, <2>8
    <3>4. j \in DOMAIN signals
      BY <2>2 DEF Since
    <3>5. j \in Since(earliest)
      BY <2>1, <2>4, <2>5, <3>3, <3>4 DEF Older, Since
    <3>6. Older(j, id)
      BY <2>1, <2>3, <3>2, <3>5
    <3>7. signals[j].detectedAt = signals[id].detectedAt
      BY <2>1, <2>4, <3>3, <3>4, <3>6 DEF Older
    <3>8. QED
      BY <3>2, <3>7
  <2>9. QED
    BY <2>7, <2>8
<1>2. QED
  BY <1>1, ReaderInvariant, PTL

(* detection.ts: whatever the providers' timestamps, nothing about the     *)
(* market is announced from a price that cannot be trusted at that         *)
(* instant, and no outage on a closed market.                              *)
THEOREM AnnouncesOnTrust == Spec => AnnouncedOnTrust
<1> DEFINE Trustworthy ==
      \A id \in NewIds :
        LET f == freshnessOf(quote'[SymbolOf(id)])
        IN /\ KindOf(id) \notin INTEGRITY_KINDS =>
                ~Untrusted(f) /\ SymbolOf(id) \notin health'.stale
           /\ KindOf(id) = "stale_data" => f # "closed"
<1>1. ASSUME IInv, Next
      PROVE  Trustworthy
  <2>1. CASE signals' = signals
    BY <2>1 DEF NewIds
  <2>2. ASSUME NEW s \in Symbols, NEW scene \in Scenes[market][s], Refresh(s, scene)
        PROVE  Trustworthy
    <3>1. PICK q, readings, outcomes : Cycle(s, q, readings, outcomes)
      BY <1>1, <2>2, RefreshIsCycle
    <3>2. SUFFICES ASSUME NEW id \in NewIds
                   PROVE  LET f == freshnessOf(quote'[SymbolOf(id)])
                          IN /\ KindOf(id) \notin INTEGRITY_KINDS =>
                                  ~Untrusted(f) /\ SymbolOf(id) \notin health'.stale
                             /\ KindOf(id) = "stale_data" => f # "closed"
      OBVIOUS
    <3>3. id \in Inserted(s, outcomes)
      BY <3>1 DEF NewIds, Cycle, detect
    <3>4. /\ SymbolOf(id) = s /\ KindOf(id) \in DetectorKinds /\ outcomes[KindOf(id)] # None
          /\ Announced(state[s][KindOf(id)], KindOf(id), outcomes[KindOf(id)])
      BY <1>1, <3>1, <3>3, InsertedIds
    <3> DEFINE k == KindOf(id)
               f == freshnessOf(q)
    <3>5. readings[k] # None /\ readings[k].value # 0
      BY <1>1, <3>1, <3>4, CycleOutcomes
    <3>6. ActsOn(readings[k], k, f)
      BY <3>1, <3>4 DEF Cycle
    <3>7. /\ k \notin INTEGRITY_KINDS => ~Untrusted(f)
          /\ k = "stale_data" => f # "closed"
      BY <3>5, <3>6 DEF ActsOn
    <3>8. quote'[s] = q /\ q \in QuoteRows /\ market' = market /\ now' = now
      BY <1>1, <3>1 DEF Cycle, IInv, QuotesOK
    <3>9. shownFreshness(s)' = f
      <4>1. quote'[s] # None
        BY <3>8, NoneAssumption
      <4>2. QED
        BY <3>8, <4>1 DEF shownFreshness, freshnessOf
    <3>10. ~Untrusted(f) => s \notin health'.stale
      BY <3>9 DEF health, Untrusted
    <3>11. QED
      BY <3>4, <3>7, <3>8, <3>10
  <2>3. QED
    BY <1>1, <2>1, <2>2 DEF Next, RefreshFails, Tick, Acknowledge, Dismiss, Open, Forget, SetItem,
                            pipeline
<1>2. ASSUME IInv, UNCHANGED vars
      PROVE  Trustworthy
  BY <1>2 DEF vars, pipeline, NewIds
<1>3. IInv /\ [Next]_vars => [Trustworthy]_vars
  BY <1>1, <1>2
<1>4. QED
  BY <1>3, ReaderInvariant, PTL DEF Spec, AnnouncedOnTrust
=============================================================================
