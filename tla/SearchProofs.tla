----------------------------- MODULE SearchProofs -----------------------------
(***************************************************************************)
(* What the two loops over rows compute, for any number of rows in any     *)
(* order: the search of the worker for the nearest hash, and the search of *)
(* get_group_by_id for the best photo.  A loop is a recursive function;    *)
(* that it exists, and what holds of it, is shown by induction on the      *)
(* number of rows, in the form of the least number of a set.  With it, what*)
(* the checks of any number of workers cannot miss.                        *)
(***************************************************************************)
EXTENDS PhotoViews, PhotoGroupsProofs, FiniteSetTheorems, SequenceTheorems

-------------------------------------------------------------------------------
\* Induction, as a fact about sets of numbers.

LEMMA LeastNatural ==
  ASSUME NEW T \in SUBSET Nat, T # {}
  PROVE  \E n \in T : \A m \in T : n <= m
<1> DEFINE R == OpToRel(<, Nat)
<1>1. IsWellFoundedOn(R, Nat)
  BY NatLessThanWellFounded, Zenon
<1>2. \A m, n \in Nat : m < n => <<m, n>> \in R
  BY SMT DEF OpToRel
<1> HIDE DEF R
<1>3. PICK n \in T : \A m \in T : ~(<<m, n>> \in R)
  BY <1>1, WFMin
<1>4. ASSUME NEW m \in T PROVE n <= m
  <2>1. m \in Nat /\ n \in Nat
    OBVIOUS
  <2>2. ~(m < n)
    BY <1>2, <1>3, <2>1
  <2>3. QED
    BY <2>1, <2>2
<1>5. QED
  BY <1>4

LEMMA SetInduction ==
  ASSUME NEW S \in SUBSET Nat, 0 \in S, \A n \in S : n + 1 \in S
  PROVE  S = Nat
<1> SUFFICES ASSUME Nat \ S # {} PROVE FALSE
  OBVIOUS
<1>1. PICK n \in Nat \ S : \A m \in Nat \ S : n <= m
  BY LeastNatural
<1>2. n # 0 /\ n - 1 \in Nat
  BY <1>1
<1>3. n - 1 \in S
  BY <1>1, <1>2
<1>4. QED
  BY <1>1, <1>3

-------------------------------------------------------------------------------
\* A loop over n rows is a function of the rows it has seen.

Runs(V, v, n, body) == {f \in [0..n -> V] :
                          f[0] = v /\ \A i \in 1..n : f[i] = body[<<i, f[i - 1]>>]}

LEMMA LoopExists ==
  ASSUME NEW V, NEW v \in V, NEW n \in Nat, NEW body \in [(1..n) \X V -> V]
  PROVE  Runs(V, v, n, body) # {}
<1> DEFINE Run(m, f) == /\ f \in [0..m -> V] /\ f[0] = v
                        /\ \A i \in 1..m : f[i] = body[<<i, f[i - 1]>>]
           S == {m \in Nat : m <= n => \E f \in [0..m -> V] : Run(m, f)}
<1>1. 0 \in S
  <2> DEFINE f == [i \in 0..0 |-> v]
  <2>1. Run(0, f)
    OBVIOUS
  <2>2. QED
    BY <2>1
<1>2. ASSUME NEW m \in S PROVE m + 1 \in S
  <2> SUFFICES ASSUME m + 1 <= n PROVE \E f \in [0..(m + 1) -> V] : Run(m + 1, f)
    OBVIOUS
  <2>1. PICK f \in [0..m -> V] : Run(m, f)
    OBVIOUS
  <2> DEFINE g == [i \in 0..(m + 1) |-> IF i = m + 1 THEN body[<<m + 1, f[m]>>] ELSE f[i]]
  <2>2. m \in 0..m /\ m + 1 \in 1..n /\ f[m] \in V
    OBVIOUS
  <2>3. body[<<m + 1, f[m]>>] \in V
    BY <2>2
  <2>4. g \in [0..(m + 1) -> V]
    BY <2>3
  <2>5. g[0] = v
    BY <2>1
  <2>6. ASSUME NEW i \in 1..(m + 1) PROVE g[i] = body[<<i, g[i - 1]>>]
    <3>1. CASE i = m + 1
      <4>1. g[m] = f[m] /\ g[m + 1] = body[<<m + 1, f[m]>>]
        BY <2>2
      <4>2. i - 1 = m
        BY <3>1
      <4>3. QED
        BY <3>1, <4>1, <4>2
    <3>2. CASE i # m + 1
      <4>1. i \in 1..m /\ g[i] = f[i] /\ g[i - 1] = f[i - 1]
        BY <3>2
      <4>2. QED
        BY <2>1, <4>1
    <3>3. QED
      BY <3>1, <3>2
  <2>7. Run(m + 1, g)
    BY <2>4, <2>5, <2>6
  <2>8. QED
    BY <2>4, <2>7
<1>3. S = Nat
  <2> HIDE DEF S
  <2>1. S \in SUBSET Nat
    BY DEF S
  <2>2. QED
    BY <1>1, <1>2, <2>1, SetInduction
<1>4. PICK f \in [0..n -> V] : Run(n, f)
  BY <1>3
<1>5. QED
  BY <1>4 DEF Runs

\* A loop that keeps a smaller distance with its row, from the distance b on.
KeepsLeast(n, d, rows, b, none, best) ==
  /\ best[0] = [dist |-> b, row |-> none]
  /\ \A i \in 1..n : best[i] = IF d[i] < best[i - 1].dist
                               THEN [dist |-> d[i], row |-> rows[i]] ELSE best[i - 1]

\* Row j is the first of those at the least distance.
FirstLeast(n, d, j) == /\ \A k \in 1..n : d[j] <= d[k]
                       /\ \A k \in 1..(j - 1) : d[j] < d[k]

\* Such a loop ends with the first of the least distances below b.
LEMMA LoopKeepsFirstLeast ==
  ASSUME NEW n \in Nat, NEW d \in [1..n -> Nat], NEW rows, NEW b \in Nat, NEW none, NEW best,
         KeepsLeast(n, d, rows, b, none, best)
  PROVE  \/ best[n].row = none /\ \A k \in 1..n : ~(d[k] < b)
         \/ \E j \in 1..n : best[n].row = rows[j] /\ d[j] < b /\ FirstLeast(n, d, j)
<1> DEFINE None(m) == /\ best[m] = [dist |-> b, row |-> none]
                      /\ \A k \in 1..m : d[k] >= b
           First(m, j) == /\ best[m] = [dist |-> d[j], row |-> rows[j]] /\ d[j] < b
                          /\ \A k \in 1..m : d[j] <= d[k]
                          /\ \A k \in 1..(j - 1) : d[j] < d[k]
           Kept(m) == None(m) \/ \E j \in 1..m : First(m, j)
           S == {m \in Nat : m <= n => Kept(m)}
<1> HIDE DEF None, First, Kept, S
<1>1. 0 \in S
  BY DEF S, Kept, None, KeepsLeast
<1>2. ASSUME NEW m \in S PROVE m + 1 \in S
  <2>1. CASE m + 1 <= n
    <3> DEFINE i == m + 1
    <3>1. /\ m \in Nat /\ i \in Nat /\ i \in 1..n /\ i - 1 = m
          /\ d[i] \in Nat /\ i \in 1..i
          /\ \A k \in 1..i : k \in 1..m \/ k = i
      BY <2>1 DEF S
    <3>2. \A k \in 1..m : k \in 1..i /\ k \in 1..n /\ d[k] \in Nat
      BY <3>1
    <3>3. best[i] = IF d[i] < best[m].dist THEN [dist |-> d[i], row |-> rows[i]] ELSE best[m]
      BY <3>1 DEF KeepsLeast
    <3>4. Kept(m)
      BY <2>1, <3>1 DEF S
    <3> HIDE DEF i
    <3>5. ASSUME None(m) PROVE Kept(i)
      <4>1. CASE d[i] < b
        <5>1. best[i] = [dist |-> d[i], row |-> rows[i]]
          BY <3>3, <3>5, <4>1 DEF None
        <5>2. \A k \in 1..m : d[i] < d[k]
          BY <3>1, <3>2, <3>5, <4>1 DEF None
        <5>3. \A k \in 1..i : d[i] <= d[k]
          BY <3>1, <3>2, <5>2
        <5>4. First(i, i)
          BY <3>1, <4>1, <5>1, <5>2, <5>3 DEF First
        <5>5. QED
          BY <3>1, <5>4 DEF Kept
      <4>2. CASE ~(d[i] < b)
        <5>1. best[i] = [dist |-> b, row |-> none]
          BY <3>3, <3>5, <4>2 DEF None
        <5>2. d[i] >= b
          BY <3>1, <4>2
        <5>3. None(i)
          BY <3>1, <3>5, <5>1, <5>2 DEF None
        <5>4. QED
          BY <5>3 DEF Kept
      <4>3. QED
        BY <4>1, <4>2
    <3>6. ASSUME NEW j \in 1..m, First(m, j) PROVE Kept(i)
      <4>1. j \in 1..i /\ j \in 1..n /\ d[j] \in Nat /\ \A k \in 1..(j - 1) : k \in 1..m
        BY <3>1, <3>2
      <4>2. CASE d[i] < d[j]
        <5>1. best[i] = [dist |-> d[i], row |-> rows[i]]
          BY <3>3, <3>6, <4>2 DEF First
        <5>2. \A k \in 1..m : d[i] < d[k]
          BY <3>1, <3>2, <3>6, <4>1, <4>2 DEF First
        <5>3. \A k \in 1..i : d[i] <= d[k]
          BY <3>1, <3>2, <5>2
        <5>4. d[i] < b
          BY <3>1, <3>6, <4>1, <4>2 DEF First
        <5>5. First(i, i)
          BY <3>1, <5>1, <5>2, <5>3, <5>4 DEF First
        <5>6. QED
          BY <3>1, <5>5 DEF Kept
      <4>3. CASE ~(d[i] < d[j])
        <5>1. best[i] = best[m]
          BY <3>3, <3>6, <4>3 DEF First
        <5>2. d[j] <= d[i]
          BY <3>1, <4>1, <4>3
        <5>3. First(i, j)
          BY <3>1, <3>6, <5>1, <5>2 DEF First
        <5>4. QED
          BY <4>1, <5>3 DEF Kept
      <4>4. QED
        BY <4>2, <4>3
    <3>7. Kept(i)
      BY <3>4, <3>5, <3>6 DEF Kept
    <3>8. QED
      BY <3>1, <3>7 DEF S, i
  <2>2. CASE ~(m + 1 <= n)
    BY <2>2 DEF S
  <2>3. QED
    BY <2>1, <2>2
<1>3. S \in SUBSET Nat
  BY DEF S
<1>4. S = Nat
  BY <1>1, <1>2, <1>3, SetInduction
<1>5. Kept(n)
  BY <1>4 DEF S
<1>6. CASE None(n)
  BY <1>6 DEF None
<1>7. ASSUME NEW j \in 1..n, First(n, j)
      PROVE  best[n].row = rows[j] /\ d[j] < b /\ FirstLeast(n, d, j)
  BY <1>7 DEF First, FirstLeast
<1>8. QED
  BY <1>5, <1>6, <1>7 DEF Kept

\* A loop that keeps a larger number.
KeepsGreatest(n, q, best) ==
  /\ best[0] = -1
  /\ \A i \in 1..n : best[i] = IF q[i] > best[i - 1] THEN q[i] ELSE best[i - 1]

\* Such a loop ends with the greatest.
LEMMA LoopKeepsGreatest ==
  ASSUME NEW n \in Nat, NEW q \in [1..n -> Nat], NEW best, KeepsGreatest(n, q, best)
  PROVE  /\ \A k \in 1..n : q[k] <= best[n]
         /\ n # 0 => \E j \in 1..n : best[n] = q[j]
<1> DEFINE Kept(m) == /\ best[m] \in Int
                      /\ \A k \in 1..m : q[k] <= best[m]
                      /\ IF m = 0 THEN best[m] = -1 ELSE \E j \in 1..m : best[m] = q[j]
           S == {m \in Nat : m <= n => Kept(m)}
<1> HIDE DEF Kept, S
<1>1. 0 \in S
  BY DEF S, Kept, KeepsGreatest
<1>2. ASSUME NEW m \in S PROVE m + 1 \in S
  <2>1. CASE m + 1 <= n
    <3> DEFINE i == m + 1
    <3>1. /\ m \in Nat /\ i \in Nat /\ i \in 1..n /\ i - 1 = m /\ i # 0
          /\ q[i] \in Nat /\ i \in 1..i
          /\ \A k \in 1..i : k \in 1..m \/ k = i
      BY <2>1 DEF S
    <3>2. \A k \in 1..m : k \in 1..i /\ k \in 1..n /\ q[k] \in Nat
      BY <3>1
    <3>3. best[i] = IF q[i] > best[m] THEN q[i] ELSE best[m]
      BY <3>1 DEF KeepsGreatest
    <3>4. Kept(m)
      BY <2>1, <3>1 DEF S
    <3> HIDE DEF i
    <3>5. best[m] \in Int /\ best[i] \in Int /\ best[m] <= best[i] /\ q[i] <= best[i]
      BY <3>1, <3>3, <3>4 DEF Kept
    <3>6. \A k \in 1..i : q[k] <= best[i]
      <4>1. \A k \in 1..m : q[k] <= best[m]
        BY <3>4 DEF Kept
      <4>2. \A k \in 1..m : q[k] <= best[i]
        BY <3>2, <3>5, <4>1
      <4>3. QED
        BY <3>1, <3>5, <4>2
    <3>7. \E j \in 1..i : best[i] = q[j]
      BY <3>1, <3>2, <3>3, <3>4 DEF Kept
    <3>8. Kept(i)
      BY <3>1, <3>5, <3>6, <3>7 DEF Kept
    <3>9. QED
      BY <3>1, <3>8 DEF S, i
  <2>2. CASE ~(m + 1 <= n)
    BY <2>2 DEF S
  <2>3. QED
    BY <2>1, <2>2
<1>3. S \in SUBSET Nat
  BY DEF S
<1>4. S = Nat
  BY <1>1, <1>2, <1>3, SetInduction
<1>5. Kept(n)
  BY <1>4 DEF S
<1>6. QED
  BY <1>5 DEF Kept

-------------------------------------------------------------------------------
\* The orders in which the rows of a query may come.

LEMMA OrdersAreOnto ==
  ASSUME NEW C, IsFiniteSet(C), NEW rows \in SetToSeqs(C)
  PROVE  /\ Cardinality(C) \in Nat
         /\ rows \in [1..Cardinality(C) -> C] /\ Len(rows) = Cardinality(C)
         /\ \A i, j \in 1..Cardinality(C) : i # j => rows[i] # rows[j]
         /\ \A c \in C : \E j \in 1..Cardinality(C) : rows[j] = c
<1> DEFINE n == Cardinality(C)
<1>1. n \in Nat
  BY FS_CardinalityType
<1>2. rows \in [1..n -> C] /\ \A i, j \in 1..n : i # j => rows[i] # rows[j]
  BY DEF SetToSeqs
<1>3. Cardinality(1..n) = n
  <2>1. n \in Int /\ 1 \in Int
    BY <1>1
  <2>2. Cardinality(1..n) = IF 1 > n THEN 0 ELSE n - 1 + 1
    BY <2>1, FS_Interval
  <2>3. QED
    BY <1>1, <2>2
<1>4. rows \in Injection(1..n, C)
  BY <1>2 DEF Injection, IsInjective
<1>5. rows \in Surjection(1..n, C)
  BY <1>3, <1>4, FS_Injection
<1>6. Len(rows) = n
  BY <1>1, <1>2
<1>7. QED
  BY <1>1, <1>2, <1>5, <1>6 DEF Surjection

\* Any row may come first.
LEMMA OrdersStartAnywhere ==
  ASSUME NEW C, IsFiniteSet(C)
  PROVE  /\ \E rows \in SetToSeqs(C) : TRUE
         /\ \A c \in C : \E rows \in SetToSeqs(C) : rows[1] = c
<1> DEFINE n == Cardinality(C)
<1>1. n \in Nat /\ ExistsBijection(1..n, C)
  BY FS_CardinalityType
<1>2. PICK f \in [1..n -> C] : /\ \A i, j \in 1..n : i # j => f[i] # f[j]
                               /\ \A c \in C : \E j \in 1..n : f[j] = c
  BY <1>1 DEF ExistsBijection, Bijection, Injection, Surjection, IsInjective
<1>3. f \in SetToSeqs(C)
  BY <1>2 DEF SetToSeqs
<1>4. ASSUME NEW c \in C PROVE \E rows \in SetToSeqs(C) : rows[1] = c
  <2>1. PICK j \in 1..n : f[j] = c
    BY <1>2
  <2>2. 1 \in 1..n
    BY <1>1
  <2> DEFINE g == [i \in 1..n |-> IF i = 1 THEN f[j] ELSE IF i = j THEN f[1] ELSE f[i]]
  <2>3. g \in [1..n -> C] /\ g[1] = c
    BY <2>1, <2>2
  <2>4. \A i, k \in 1..n : i # k => g[i] # g[k]
    BY <1>2, <2>2
  <2>5. g \in SetToSeqs(C)
    BY <2>3, <2>4 DEF SetToSeqs
  <2>6. QED
    BY <2>3, <2>5
<1>5. QED
  BY <1>3, <1>4

-------------------------------------------------------------------------------
\* However many photos there may be, finitely many have been analysed.

SavedPhotos == {p \in Photos : IsSaved(p)}

LEMMA SavedStep ==
  ASSUME TypeOK, [Next]_vars, IsFiniteSet(SavedPhotos) PROVE IsFiniteSet(SavedPhotos)'
<1>1. CASE \E w \in Workers : Save(w)
  <2>1. PICK p \in Photos, o \in Owners, i \in Images :
          saved' = [saved EXCEPT ![p] = [owner |-> o, image |-> i]]
    BY <1>1 DEF Save
  <2>2. SavedPhotos' = SavedPhotos \cup {p}
    BY <2>1, GroupsAssumption DEF TypeOK, SavedPhotos, IsSaved
  <2>3. QED
    BY <2>2, FS_AddElement
<1>2. CASE ~\E w \in Workers : Save(w)
  <2>1. saved' = saved
    BY <1>2 DEF Next, vars, rowVars, Find, Create, AssignOther, AssignSelf, Crash
  <2>2. QED
    BY <2>1 DEF SavedPhotos, IsSaved
<1>3. QED
  BY <1>1, <1>2

LEMMA SavedAreFinite == Spec => []IsFiniteSet(SavedPhotos)
<1>1. Init => IsFiniteSet(SavedPhotos)
  <2>1. Init => SavedPhotos = {}
    BY DEF Init, SavedPhotos, IsSaved
  <2>2. QED
    BY <2>1, FS_EmptySet
<1>2. TypeOK /\ [Next]_vars /\ IsFiniteSet(SavedPhotos) => IsFiniteSet(SavedPhotos)'
  BY SavedStep
<1>3. QED
  BY <1>1, <1>2, TypeCorrect, PTL DEF Spec

-------------------------------------------------------------------------------
\* The search for the nearest hash.

LEMMA ApartIsNatural ==
  ASSUME TypeOK, NEW p \in SavedPhotos, NEW r \in SavedPhotos PROVE Apart(p, r) \in Nat
<1> DEFINE g == Hash[saved[p].image]
           h == Hash[saved[r].image]
<1>1. saved[p].image \in Images /\ saved[r].image \in Images
  BY DEF TypeOK, SavedPhotos, IsSaved
<1>2. (g \ h) \cup (h \ g) \in SUBSET Bits
  BY <1>1, GroupsAssumption
<1>3. IsFiniteSet((g \ h) \cup (h \ g))
  BY <1>2, GroupsAssumption, FS_Subset
<1>4. QED
  BY <1>3, FS_CardinalityType DEF Apart, Distance

\* The loop as a function of the rows it has seen.
LEMMA FirstNearestRuns ==
  ASSUME TypeOK, NEW p \in SavedPhotos, NEW n \in Nat,
         NEW rows \in [1..n -> SavedPhotos], Len(rows) = n
  PROVE  \E best : /\ best[0] = [dist |-> Threshold + 1, row |-> NoPhoto]
                   /\ \A i \in 1..n :
                        best[i] = IF Apart(p, rows[i]) < best[i - 1].dist
                                  THEN [dist |-> Apart(p, rows[i]), row |-> rows[i]]
                                  ELSE best[i - 1]
                   /\ FirstNearest(p, rows) = best[n].row
<1> DEFINE V == [dist : Nat, row : Photos \cup {NoPhoto}]
           v == [dist |-> Threshold + 1, row |-> NoPhoto]
           Next1(i, b) == IF Apart(p, rows[i]) < b.dist
                          THEN [dist |-> Apart(p, rows[i]), row |-> rows[i]] ELSE b
           body == [x \in (1..n) \X V |-> Next1(x[1], x[2])]
           Loop(f) == f = [i \in 0..n |-> IF i = 0 THEN v ELSE Next1(i, f[i - 1])]
<1>1. v \in V
  BY GroupsAssumption
<1>2. body \in [(1..n) \X V -> V]
  <2>1. ASSUME NEW x \in (1..n) \X V PROVE Next1(x[1], x[2]) \in V
    <3>1. x[1] \in 1..n /\ x[2] \in V /\ rows[x[1]] \in SavedPhotos
      OBVIOUS
    <3>2. Apart(p, rows[x[1]]) \in Nat /\ rows[x[1]] \in Photos
      BY <3>1, ApartIsNatural DEF SavedPhotos
    <3>3. QED
      BY <3>1, <3>2
  <2>2. QED
    BY <2>1
<1> HIDE DEF V
<1>3. PICK f \in [0..n -> V] : f[0] = v /\ \A i \in 1..n : f[i] = body[<<i, f[i - 1]>>]
  <2> HIDE DEF v, body
  <2>1. Runs(V, v, n, body) # {}
    BY <1>1, <1>2, LoopExists
  <2>2. QED
    BY <2>1 DEF Runs
<1>4. Loop(f)
  <2>1. ASSUME NEW i \in 0..n, i # 0 PROVE f[i] = Next1(i, f[i - 1])
    <3>1. i \in 1..n /\ f[i - 1] \in V
      BY <2>1
    <3>2. <<i, f[i - 1]>> \in (1..n) \X V
      BY <3>1
    <3>3. QED
      BY <1>3, <3>1, <3>2
  <2> HIDE DEF body, Next1, v
  <2>2. QED
    BY <1>3, <2>1 DEF Loop
<1> DEFINE best == CHOOSE g : Loop(g)
<1>5. Loop(best)
  <2> HIDE DEF Loop
  <2>1. QED
    BY <1>4
<1>6. FirstNearest(p, rows) = best[n].row
  BY DEF FirstNearest
<1>7. best[0] = v /\ \A i \in 1..n : best[i] = Next1(i, best[i - 1])
  <2> HIDE DEF best, Next1, v
  <2>1. QED
    BY <1>5 DEF Loop
<1> HIDE DEF best
<1>8. QED
  BY <1>6, <1>7

\* The first of the nearest rows within the threshold, or no photo.
LEMMA FirstNearestFinds ==
  ASSUME TypeOK, NEW p \in SavedPhotos, NEW n \in Nat,
         NEW rows \in [1..n -> SavedPhotos], Len(rows) = n
  PROVE  \/ FirstNearest(p, rows) = NoPhoto /\ \A k \in 1..n : ~Near(p, rows[k])
         \/ \E j \in 1..n : /\ FirstNearest(p, rows) = rows[j] /\ Near(p, rows[j])
                            /\ \A k \in 1..n : Apart(p, rows[j]) <= Apart(p, rows[k])
                            /\ \A k \in 1..(j - 1) : Apart(p, rows[j]) < Apart(p, rows[k])
<1> DEFINE d == [i \in 1..n |-> Apart(p, rows[i])]
           b == Threshold + 1
<1>1. d \in [1..n -> Nat] /\ \A k \in 1..n : d[k] = Apart(p, rows[k]) /\ d[k] \in Nat
  BY ApartIsNatural
<1>2. b \in Nat /\ Threshold \in Nat /\ \A m \in Nat : (m < b <=> m <= Threshold)
  BY GroupsAssumption
<1>3. PICK best : /\ best[0] = [dist |-> Threshold + 1, row |-> NoPhoto]
                  /\ \A i \in 1..n :
                       best[i] = IF Apart(p, rows[i]) < best[i - 1].dist
                                 THEN [dist |-> Apart(p, rows[i]), row |-> rows[i]]
                                 ELSE best[i - 1]
                  /\ FirstNearest(p, rows) = best[n].row
  BY FirstNearestRuns
<1>4. KeepsLeast(n, d, rows, b, NoPhoto, best)
  BY <1>1, <1>3 DEF KeepsLeast
<1> HIDE DEF d, b
<1>5. \/ best[n].row = NoPhoto /\ \A k \in 1..n : ~(d[k] < b)
      \/ \E j \in 1..n : best[n].row = rows[j] /\ d[j] < b /\ FirstLeast(n, d, j)
  BY <1>1, <1>2, <1>4, LoopKeepsFirstLeast
<1>6. \A k \in 1..n : d[k] < b <=> Near(p, rows[k])
  BY <1>1, <1>2 DEF Near
<1>7. CASE best[n].row = NoPhoto /\ \A k \in 1..n : ~(d[k] < b)
  BY <1>3, <1>6, <1>7
<1>8. ASSUME NEW j \in 1..n, best[n].row = rows[j], d[j] < b, FirstLeast(n, d, j)
      PROVE  /\ FirstNearest(p, rows) = rows[j] /\ Near(p, rows[j])
             /\ \A k \in 1..n : Apart(p, rows[j]) <= Apart(p, rows[k])
             /\ \A k \in 1..(j - 1) : Apart(p, rows[j]) < Apart(p, rows[k])
  <2>1. \A k \in 1..(j - 1) : k \in 1..n
    OBVIOUS
  <2>2. QED
    BY <1>1, <1>3, <1>6, <1>8, <2>1 DEF FirstLeast
<1>9. QED
  BY <1>5, <1>7, <1>8

\* The rows of the query, in any order.
LEMMA NearestOfAnyOrder ==
  ASSUME TypeOK, IsFiniteSet(SavedPhotos), NEW p \in SavedPhotos
  PROVE  {FirstNearest(p, rows) : rows \in SetToSeqs(Candidates(p))}
           = IF Nearest(p) = {} THEN {NoPhoto} ELSE Nearest(p)
<1> DEFINE C == Candidates(p)
           n == Cardinality(C)
<1>1. C \in SUBSET SavedPhotos /\ C \in SUBSET Photos
  BY DEF Candidates, SavedPhotos
<1>2. IsFiniteSet(C) /\ n \in Nat
  BY <1>1, FS_Subset, FS_CardinalityType
<1>3. ASSUME NEW rows \in SetToSeqs(C)
      PROVE  /\ rows \in [1..n -> SavedPhotos] /\ rows \in [1..n -> C] /\ Len(rows) = n
             /\ \A c \in C : \E j \in 1..n : rows[j] = c
  BY <1>1, <1>2, OrdersAreOnto
<1> HIDE DEF C, n
<1>4. Nearest(p) = {q \in C : Near(p, q) /\ \A r \in C : Apart(p, q) <= Apart(p, r)}
  BY DEF Nearest, C
<1>5. \A q, r \in C : Apart(p, q) \in Nat /\ Apart(p, r) \in Nat
  BY <1>1, ApartIsNatural
<1>6. ASSUME NEW rows \in SetToSeqs(C)
      PROVE  IF Nearest(p) = {} THEN FirstNearest(p, rows) = NoPhoto
                                ELSE FirstNearest(p, rows) \in Nearest(p)
  <2>1. /\ rows \in [1..n -> SavedPhotos] /\ rows \in [1..n -> C] /\ Len(rows) = n
        /\ \A c \in C : \E j \in 1..n : rows[j] = c
    BY <1>3
  <2>2. \/ FirstNearest(p, rows) = NoPhoto /\ \A k \in 1..n : ~Near(p, rows[k])
        \/ \E j \in 1..n : /\ FirstNearest(p, rows) = rows[j] /\ Near(p, rows[j])
                           /\ \A k \in 1..n : Apart(p, rows[j]) <= Apart(p, rows[k])
                           /\ \A k \in 1..(j - 1) : Apart(p, rows[j]) < Apart(p, rows[k])
    BY <1>2, <2>1, FirstNearestFinds
  <2>3. CASE FirstNearest(p, rows) = NoPhoto /\ \A k \in 1..n : ~Near(p, rows[k])
    <3>1. Nearest(p) = {}
      BY <1>4, <2>1, <2>3
    <3>2. QED
      BY <2>3, <3>1
  <2>4. ASSUME NEW j \in 1..n, FirstNearest(p, rows) = rows[j], Near(p, rows[j]),
               \A k \in 1..n : Apart(p, rows[j]) <= Apart(p, rows[k])
        PROVE  FirstNearest(p, rows) \in Nearest(p)
    <3>1. rows[j] \in C /\ \A r \in C : Apart(p, rows[j]) <= Apart(p, r)
      BY <2>1, <2>4
    <3>2. QED
      BY <1>4, <2>4, <3>1
  <2>5. QED
    BY <2>2, <2>3, <2>4
<1>7. ASSUME NEW q \in Nearest(p)
      PROVE  \E rows \in SetToSeqs(C) : FirstNearest(p, rows) = q
  <2>1. q \in C /\ Near(p, q) /\ \A r \in C : Apart(p, q) <= Apart(p, r)
    BY <1>4
  <2>2. PICK rows \in SetToSeqs(C) : rows[1] = q
    BY <1>2, <2>1, OrdersStartAnywhere
  <2>3. /\ rows \in [1..n -> SavedPhotos] /\ rows \in [1..n -> C] /\ Len(rows) = n
        /\ \A c \in C : \E j \in 1..n : rows[j] = c
    BY <1>3
  <2>4. 1 \in 1..n
    <3>1. PICK j \in 1..n : rows[j] = q
      BY <2>1, <2>3
    <3>2. QED
      BY <1>2, <3>1
  <2>5. \/ FirstNearest(p, rows) = NoPhoto /\ \A k \in 1..n : ~Near(p, rows[k])
        \/ \E j \in 1..n : /\ FirstNearest(p, rows) = rows[j] /\ Near(p, rows[j])
                           /\ \A k \in 1..n : Apart(p, rows[j]) <= Apart(p, rows[k])
                           /\ \A k \in 1..(j - 1) : Apart(p, rows[j]) < Apart(p, rows[k])
    BY <1>2, <2>3, FirstNearestFinds
  <2>6. PICK j \in 1..n : /\ FirstNearest(p, rows) = rows[j]
                          /\ \A k \in 1..(j - 1) : Apart(p, rows[j]) < Apart(p, rows[k])
    BY <2>1, <2>2, <2>4, <2>5
  <2>7. j = 1
    <3>1. SUFFICES ASSUME j # 1 PROVE FALSE
      OBVIOUS
    <3>2. 1 \in 1..(j - 1) /\ rows[j] \in C
      BY <1>2, <2>3, <2>6, <3>1
    <3>3. Apart(p, rows[j]) < Apart(p, q) /\ Apart(p, q) <= Apart(p, rows[j])
      BY <2>1, <2>2, <2>6, <3>2
    <3>4. Apart(p, rows[j]) \in Nat /\ Apart(p, q) \in Nat
      BY <1>5, <2>1, <3>2
    <3>5. QED
      BY <3>3, <3>4
  <2>8. QED
    BY <2>2, <2>6, <2>7
<1>8. PICK rows \in SetToSeqs(C) : TRUE
  BY <1>2, OrdersStartAnywhere
<1>9. {FirstNearest(p, s) : s \in SetToSeqs(C)}
        = IF Nearest(p) = {} THEN {NoPhoto} ELSE Nearest(p)
  <2>1. CASE Nearest(p) = {}
    BY <1>6, <1>8, <2>1
  <2>2. CASE Nearest(p) # {}
    BY <1>6, <1>7, <2>2
  <2>3. QED
    BY <2>1, <2>2
<1>10. QED
  BY <1>9 DEF C

\* Over all orders of its rows, find_matching_duplicate_photo finds the nearest
\* photos within the threshold, each in some order and no other in any.
THEOREM SearchFindsNearest == Spec => []NearestIsFound
<1>1. IInv /\ IsFiniteSet(SavedPhotos) => NearestIsFound
  <2> SUFFICES ASSUME IInv, IsFiniteSet(SavedPhotos), NEW w \in Workers, pc[w] = "find"
               PROVE  {FirstNearest(photo[w], rows) : rows \in SetToSeqs(Candidates(photo[w]))}
                        = IF Nearest(photo[w]) = {} THEN {NoPhoto} ELSE Nearest(photo[w])
    BY DEF NearestIsFound, At
  <2>1. TypeOK /\ photo[w] \in SavedPhotos
    BY DEF IInv, ChecksSavedPhoto, SavedPhotos
  <2>2. QED
    BY <2>1, NearestOfAnyOrder
<1>2. QED
  BY <1>1, Invariance, SavedAreFinite, PTL

-------------------------------------------------------------------------------
\* The best photo of a group.

LEMMA BestQualityRuns ==
  ASSUME TypeOK, NEW n \in Nat, NEW s \in [1..n -> SavedPhotos], Len(s) = n,
         NEW q, q = [i \in 1..n |-> QualityOf(s[i])]
  PROVE  /\ q \in [1..n -> Nat]
         /\ \E best : KeepsGreatest(n, q, best) /\ BestQuality(s) = best[n]
<1>1. q \in [1..n -> Nat]
  <2>1. ASSUME NEW i \in 1..n PROVE QualityOf(s[i]) \in Nat
    <3>1. saved[s[i]].image \in Images
      BY DEF TypeOK, SavedPhotos, IsSaved
    <3>2. QED
      BY <3>1, ViewsAssumption DEF QualityOf
  <2>2. QED
    BY <2>1
<1> DEFINE Next1(i, b) == IF QualityOf(s[i]) > b THEN QualityOf(s[i]) ELSE b
           body == [x \in (1..n) \X Int |-> Next1(x[1], x[2])]
           Loop(f) == f = [i \in 0..n |-> IF i = 0 THEN -1 ELSE Next1(i, f[i - 1])]
<1>2. body \in [(1..n) \X Int -> Int]
  <2>1. ASSUME NEW x \in (1..n) \X Int PROVE Next1(x[1], x[2]) \in Int
    <3>1. x[1] \in 1..n /\ x[2] \in Int
      OBVIOUS
    <3>2. QualityOf(s[x[1]]) \in Int
      BY <1>1, <3>1
    <3>3. QED
      BY <3>1, <3>2
  <2>2. QED
    BY <2>1
<1>3. PICK f \in [0..n -> Int] : f[0] = -1 /\ \A i \in 1..n : f[i] = body[<<i, f[i - 1]>>]
  <2> HIDE DEF body
  <2>1. -1 \in Int
    OBVIOUS
  <2>2. Runs(Int, -1, n, body) # {}
    BY <1>2, <2>1, LoopExists
  <2>3. QED
    BY <2>2 DEF Runs
<1>4. Loop(f)
  <2>1. ASSUME NEW i \in 0..n, i # 0 PROVE f[i] = Next1(i, f[i - 1])
    <3>1. i \in 1..n /\ f[i - 1] \in Int
      BY <2>1
    <3>2. <<i, f[i - 1]>> \in (1..n) \X Int
      BY <3>1
    <3>3. QED
      BY <1>3, <3>1, <3>2
  <2> HIDE DEF body, Next1
  <2>2. QED
    BY <1>3, <2>1 DEF Loop
<1> DEFINE best == CHOOSE g : Loop(g)
<1>5. Loop(best)
  <2> HIDE DEF Loop
  <2>1. QED
    BY <1>4
<1>6. BestQuality(s) = best[n]
  BY DEF BestQuality
<1>7. best[0] = -1 /\ \A i \in 1..n : best[i] = Next1(i, best[i - 1])
  <2> HIDE DEF best, Next1
  <2>1. QED
    BY <1>5 DEF Loop
<1> HIDE DEF best
<1>8. KeepsGreatest(n, q, best)
  BY <1>7 DEF KeepsGreatest
<1>9. QED
  BY <1>1, <1>6, <1>8

\* Whatever the order, the first of the greatest is marked and no other.
LEMMA FirstBestIsMarked ==
  ASSUME TypeOK, NEW n \in Nat \ {0}, NEW s \in [1..n -> SavedPhotos], Len(s) = n
  PROVE  \E i \in 1..n : /\ BestPhotos(s) = {i}
                         /\ \A j \in 1..n : QualityOf(s[j]) <= QualityOf(s[i])
<1> DEFINE q == [i \in 1..n |-> QualityOf(s[i])]
<1>1. \A i \in 1..n : q[i] = QualityOf(s[i])
  OBVIOUS
<1>2. q \in [1..n -> Nat] /\ \E best : KeepsGreatest(n, q, best) /\ BestQuality(s) = best[n]
  BY BestQualityRuns
<1> HIDE DEF q
<1>3. /\ \A k \in 1..n : q[k] <= BestQuality(s)
      /\ \E j \in 1..n : BestQuality(s) = q[j]
  BY <1>2, LoopKeepsGreatest
<1> DEFINE T == {j \in 1..n : q[j] = BestQuality(s)}
<1>4. PICK i \in T : \A m \in T : i <= m
  <2>1. T # {} /\ T \in SUBSET Nat
    BY <1>3
  <2> HIDE DEF T
  <2>2. QED
    BY <2>1, LeastNatural
<1>5. DOMAIN s = 1..n
  OBVIOUS
<1>6. ASSUME NEW j \in 1..(i - 1) PROVE QualityOf(s[j]) # BestQuality(s)
  <2>1. j \in 1..n /\ ~(i <= j)
    OBVIOUS
  <2>2. QED
    BY <1>1, <1>4, <2>1
<1>7. i \in BestPhotos(s)
  BY <1>1, <1>5, <1>6 DEF BestPhotos
<1>8. ASSUME NEW m \in BestPhotos(s) PROVE m = i
  <2>1. m \in T /\ \A j \in 1..(m - 1) : QualityOf(s[j]) # BestQuality(s)
    BY <1>1, <1>5 DEF BestPhotos
  <2>2. i <= m /\ ~(i \in 1..(m - 1))
    BY <1>1, <1>4, <2>1
  <2>3. QED
    BY <2>1, <2>2
<1>9. BestPhotos(s) = {i}
  BY <1>7, <1>8
<1>10. \A j \in 1..n : QualityOf(s[j]) <= QualityOf(s[i])
  BY <1>1, <1>3
<1>11. QED
  BY <1>9, <1>10

\* In every state, and in whatever order its photos come, each group with
\* photos shows exactly one as the best, and none is better: for any quality
\* of any number of photos, and in the middle of the checks of any workers.
THEOREM GroupShowsOneBest == Spec => []OneBestPhoto
<1>1. IInv /\ IsFiniteSet(SavedPhotos) => OneBestPhoto
  <2> SUFFICES ASSUME IInv, IsFiniteSet(SavedPhotos),
                      NEW g \in 1..Len(groups), GroupPhotos(g) # {},
                      NEW s \in SetToSeqs(GroupPhotos(g))
               PROVE  \E i \in DOMAIN s :
                        /\ BestPhotos(s) = {i}
                        /\ \A j \in DOMAIN s : QualityOf(s[j]) <= QualityOf(s[i])
    BY DEF OneBestPhoto
  <2> DEFINE C == GroupPhotos(g)
             n == Cardinality(C)
  <2>1. TypeOK /\ groups[g].kind \in Kinds /\ g # 0
    <3>1. TypeOK
      BY DEF IInv
    <3>2. groups[g] \in [kind : Kinds, owner : Owners, image : Images]
      BY <3>1, ElementOfSeq DEF TypeOK
    <3>3. QED
      BY <3>1, <3>2
  <2>2. C \in SUBSET SavedPhotos
    BY <2>1 DEF IInv, GroupsAreHomogeneous, Fits, SavedPhotos, GroupPhotos, Members
  <2>3. IsFiniteSet(C)
    BY <2>2, FS_Subset
  <2> HIDE DEF C
  <2>4. /\ n \in Nat /\ s \in [1..n -> C] /\ Len(s) = n
        /\ \A c \in C : \E j \in 1..n : s[j] = c
    <3>1. s \in SetToSeqs(C)
      BY DEF C
    <3>2. QED
      BY <2>3, <3>1, OrdersAreOnto
  <2> HIDE DEF n
  <2>5. n # 0
    <3>1. C # {}
      BY DEF C
    <3>2. QED
      BY <2>4, <3>1
  <2>6. s \in [1..n -> SavedPhotos] /\ DOMAIN s = 1..n
    BY <2>2, <2>4
  <2>7. QED
    BY <2>1, <2>4, <2>5, <2>6, FirstBestIsMarked
<1>2. QED
  BY <1>1, Invariance, SavedAreFinite, PTL

-------------------------------------------------------------------------------
\* Two photos that may share a group.

\* Where there is a near row there is a nearest one.
LEMMA NearestExists ==
  ASSUME TypeOK, NEW p \in SavedPhotos, NEW q \in Candidates(p), Near(p, q)
  PROVE  Nearest(p) # {}
<1>1. \A r \in Candidates(p) : r \in SavedPhotos /\ Apart(p, r) \in Nat
  BY ApartIsNatural DEF Candidates, SavedPhotos
<1> DEFINE T == {Apart(p, r) : r \in Candidates(p)}
<1>2. PICK m \in T : \A t \in T : m <= t
  <2>1. T # {} /\ T \in SUBSET Nat
    BY <1>1
  <2> HIDE DEF T
  <2>2. QED
    BY <2>1, LeastNatural
<1>3. PICK r \in Candidates(p) : m = Apart(p, r)
  OBVIOUS
<1>4. \A t \in Candidates(p) : Apart(p, r) <= Apart(p, t)
  BY <1>2, <1>3
<1>5. Near(p, r)
  BY <1>1, <1>4, GroupsAssumption DEF Near
<1>6. QED
  BY <1>4, <1>5 DEF Nearest

\* Photos p and q may share a group of kind k.
MayShare(k, p, q) == /\ p # q /\ IsSaved(p) /\ Alike(k, p, q)
                     /\ k = "duplicate" => Hashed(p) /\ Hashed(q)

LEMMA MayShareSymmetric ==
  ASSUME NEW k \in Kinds, NEW p \in Photos, NEW q \in Photos, MayShare(k, p, q)
  PROVE  MayShare(k, q, p)
BY NearSymmetric DEF MayShare, Alike

\* The query for p, when it returns, returns q or a photo that is nearer.
LEMMA MatchIsFound ==
  ASSUME TypeOK, NEW k \in Kinds, NEW p \in Photos, NEW q \in Photos, MayShare(k, p, q)
  PROVE  Matches(k, p) # {}
<1>1. p \in SavedPhotos /\ q \in Candidates(p)
  BY DEF MayShare, Alike, Candidates, SavedPhotos
<1>2. CASE k = "identity"
  BY <1>1, <1>2 DEF Matches, Identical, MayShare, Alike
<1>3. CASE k # "identity"
  <2>1. Near(p, q)
    BY <1>3 DEF MayShare, Alike
  <2>2. Nearest(p) # {}
    BY <1>1, <2>1, NearestExists
  <2>3. QED
    BY <1>3, <2>2 DEF Matches
<1>4. QED
  BY <1>2, <1>3

\* Worker w is what makes BeingChecked(k, p) true.
Checks(w, k, p) == ~At(w, "idle") /\ photo[w] = p /\ kind[w] \in {k, "identity"}

\* Photo p is in a group of kind k, or somebody is at it, or its check failed.
Settled(k, p) == \/ group[k][p] # 0
                 \/ \E w \in Workers : Checks(w, k, p)
                 \/ p \in leftOut[k]

LEMMA NoticedMeaning ==
  SimilarAreNoticed <=>
    \A k \in Kinds, p, q \in Photos : MayShare(k, p, q) => Settled(k, p) \/ Settled(k, q)
BY DEF SimilarAreNoticed, MayShare, Settled, BeingChecked, Checks

\* A step of worker w leaves the checks of the others where they are, no photo
\* leaves its group for none, and only a group makes up for a failed check.
LEMMA OthersGoOn ==
  ASSUME IInv, NEW w \in Workers,
         Save(w) \/ Find(w) \/ Create(w) \/ AssignOther(w) \/ AssignSelf(w) \/ Crash(w)
  PROVE  /\ \A v \in Workers \ {w}, k \in Kinds, p \in Photos : Checks(v, k, p) => Checks(v, k, p)'
         /\ \A k \in Kinds, p \in Photos : group[k][p] # 0 => group'[k][p] # 0
         /\ \A k \in Kinds, p \in Photos :
              p \in leftOut[k] => p \in leftOut'[k] \/ group'[k][p] # 0
<1>1. TypeOK /\ Job(w)
  BY JobsMeaning
<1>2. \A v \in Workers \ {w} : pc'[v] = pc[v] /\ kind'[v] = kind[v] /\ photo'[v] = photo[v]
  <2>1. CASE EndCheck(w) \/ (Idle(w) /\ Forget(w))
    BY <1>1, <2>1, CheckEnds
  <2>2. CASE ~EndCheck(w) /\ ~(Idle(w) /\ Forget(w))
    <3>1. CASE Save(w)
      BY <1>1, <3>1 DEF Save, TypeOK
    <3>2. CASE ~Save(w)
      <4>1. \E to \in {"create", "other", "self"} : Goto(w, to)
        BY <2>2, <3>2 DEF Find, Create, AssignOther, AssignSelf, Crash, CallFails, CheckRaises
      <4>2. QED
        BY <1>1, <4>1 DEF Goto, TypeOK
    <3>3. QED
      BY <3>1, <3>2
  <2>3. QED
    BY <2>1, <2>2
<1>3. ASSUME NEW k \in Kinds, NEW p \in Photos, group[k][p] # 0 PROVE group'[k][p] # 0
  <2>1. CASE group' = group
    BY <1>3, <2>1
  <2>2. CASE group' # group
    <3>1. pc[w] \in {"other", "self"} /\ \E q \in {photo[w], other[w]} : SetGroup(w, q)
      BY <2>2 DEF Save, Find, Create, AssignOther, AssignSelf, Crash, At, rowVars
    <3>2. target[w] # 0 /\ photo[w] \in Photos /\ other[w] \in Photos /\ kind[w] \in Kinds
      BY <1>1, <3>1 DEF Job, TypeOK
    <3>3. QED
      BY <1>1, <1>3, <3>1, <3>2 DEF SetGroup, TypeOK
  <2>3. QED
    BY <2>1, <2>2
<1>4. ASSUME NEW k \in Kinds, NEW p \in Photos, p \in leftOut[k]
      PROVE  p \in leftOut'[k] \/ group'[k][p] # 0
  <2>1. UNCHANGED leftOut \/ \E q, ks : CutShort(q, ks)
    BY DEF Save, Find, Create, AssignOther, AssignSelf, Crash, CallFails, CheckRaises
  <2>2. QED
    BY <1>4, <2>1 DEF CutShort
<1>5. QED
  BY <1>2, <1>3, <1>4 DEF Checks, At

\* A worker that is at p, which may share a group with q, goes on with it, puts
\* it in a group or fails.
LEMMA CheckSettles ==
  ASSUME IInv, NEW k \in Kinds, NEW p \in Photos, NEW q \in Photos,
         MayShare(k, p, q), NEW w \in Workers, Checks(w, k, p),
         Save(w) \/ Find(w) \/ Create(w) \/ AssignOther(w) \/ AssignSelf(w) \/ Crash(w)
  PROVE  Checks(w, k, p)' \/ group'[k][p] # 0 \/ p \in leftOut'[k]
<1>1. TypeOK /\ Job(w) /\ kind[w] \in Kinds /\ photo[w] = p /\ pc[w] # "idle"
      /\ kind[w] \in {k, "identity"} /\ ~Save(w)
  BY JobsMeaning DEF TypeOK, Checks, At, Save
<1>2. ASSUME NEW ks, k \in ks, CutShort(p, ks) PROVE group'[k][p] # 0 \/ p \in leftOut'[k]
  BY <1>2 DEF CutShort
<1>3. ASSUME NEW to \in {"create", "other", "self"}, Goto(w, to) PROVE Checks(w, k, p)'
  BY <1>1, <1>3 DEF Goto, TypeOK, Checks, At
<1>4. ASSUME EndCheck(w), kind[w] = "identity", k = "duplicate" PROVE Checks(w, k, p)'
  <2>1. Hashed(p)
    BY <1>4 DEF MayShare
  <2>2. /\ pc' = [pc EXCEPT ![w] = "find"] /\ kind' = [kind EXCEPT ![w] = "duplicate"]
        /\ photo' = photo
    BY <1>1, <1>4, <2>1 DEF EndCheck
  <2>3. QED
    BY <1>1, <1>4, <2>2 DEF TypeOK, Checks, At
<1>5. CASE Crash(w)
  <2>1. CutShort(p, IF kind[w] = "identity" THEN Kinds ELSE {"duplicate"})
    BY <1>1, <1>5 DEF Crash
  <2>2. k \in (IF kind[w] = "identity" THEN Kinds ELSE {"duplicate"})
    BY <1>1 DEF Kinds
  <2>3. QED
    BY <1>2, <2>1, <2>2
<1>6. CASE kind[w] = k /\ ~Crash(w)
  <2>1. CASE CheckRaises(w)
    <3>1. CutShort(p, {k})
      BY <1>1, <1>6, <2>1 DEF CheckRaises
    <3>2. QED
      BY <1>2, <3>1
  <2>2. CASE Find(w) /\ ~CheckRaises(w)
    <3>1. Matches(kind[w], photo[w]) # {}
      BY <1>1, <1>6, MatchIsFound
    <3>2. \E to \in {"create", "other", "self"} : Goto(w, to)
      BY <2>2, <3>1 DEF Find, CallFails
    <3>3. QED
      BY <1>3, <3>2
  <2>3. CASE AssignSelf(w) /\ ~CheckRaises(w)
    <3>1. SetGroup(w, p) /\ target[w] # 0
      BY <1>1, <2>3 DEF AssignSelf, At, Job, CallFails
    <3>2. QED
      BY <1>1, <1>6, <3>1 DEF SetGroup, TypeOK
  <2>4. CASE (Create(w) \/ AssignOther(w)) /\ ~CheckRaises(w)
    BY <1>3, <2>4 DEF Create, AssignOther, CallFails
  <2>5. QED
    BY <1>1, <1>6, <2>1, <2>2, <2>3, <2>4
<1>7. CASE kind[w] # k /\ ~Crash(w)
  <2>1. kind[w] = "identity" /\ k = "duplicate"
    BY <1>1, <1>7 DEF Kinds
  <2>2. CASE EndCheck(w)
    BY <1>4, <2>1, <2>2
  <2>3. CASE ~EndCheck(w)
    <3>1. \E to \in {"create", "other", "self"} : Goto(w, to)
      BY <1>1, <1>7, <2>3 DEF Find, Create, AssignOther, AssignSelf, CallFails, CheckRaises
    <3>2. QED
      BY <1>3, <3>1
  <2>4. QED
    BY <2>2, <2>3
<1>8. QED
  BY <1>5, <1>6, <1>7

\* What is saved now and may share a group could before, unless one of the two
\* has just been saved and is about to be checked.
LEMMA MayShareBefore ==
  ASSUME IInv, NEW w \in Workers, NEW k \in Kinds, NEW p \in Photos, NEW q \in Photos,
         Save(w) \/ Find(w) \/ Create(w) \/ AssignOther(w) \/ AssignSelf(w) \/ Crash(w),
         MayShare(k, p, q)'
  PROVE  MayShare(k, p, q) \/ Checks(w, k, p)' \/ Checks(w, k, q)'
<1>1. TypeOK /\ Job(w)
  BY JobsMeaning
<1>2. CASE Save(w)
  <2>1. PICK r \in Photos, o \in Owners, i \in Images :
          /\ ~IsSaved(r)
          /\ saved' = [saved EXCEPT ![r] = [owner |-> o, image |-> i]]
          /\ photo' = [photo EXCEPT ![w] = r]
    BY <1>2 DEF Save
  <2>2. Checks(w, k, r)'
    BY <1>1, <1>2, <2>1 DEF Save, TypeOK, Checks, At, Job
  <2>3. CASE r \in {p, q}
    BY <2>2, <2>3
  <2>4. CASE r \notin {p, q}
    <3>1. saved'[p] = saved[p] /\ saved'[q] = saved[q]
      BY <2>1, <2>4 DEF TypeOK
    <3>2. MayShare(k, p, q)
      BY <3>1 DEF MayShare, IsSaved, Alike, Near, Apart, Hashed
    <3>3. QED
      BY <3>2
  <2>5. QED
    BY <2>3, <2>4
<1>3. CASE ~Save(w)
  <2>1. saved' = saved
    BY <1>3 DEF Find, Create, AssignOther, AssignSelf, Crash, rowVars
  <2>2. MayShare(k, p, q)
    BY <2>1 DEF MayShare, IsSaved, Alike, Near, Apart, Hashed
  <2>3. QED
    BY <2>2
<1>4. QED
  BY <1>2, <1>3

LEMMA SettledStays ==
  ASSUME IInv, NEW k \in Kinds, NEW p \in Photos, NEW q \in Photos,
         MayShare(k, p, q), Settled(k, p), NEW w \in Workers,
         Save(w) \/ Find(w) \/ Create(w) \/ AssignOther(w) \/ AssignSelf(w) \/ Crash(w)
  PROVE  Settled(k, p)'
<1>1. CASE group[k][p] # 0
  BY <1>1, OthersGoOn DEF Settled
<1>2. CASE Checks(w, k, p)
  BY <1>2, CheckSettles DEF Settled
<1>3. CASE \E v \in Workers \ {w} : Checks(v, k, p)
  BY <1>3, OthersGoOn DEF Settled
<1>4. CASE p \in leftOut[k]
  BY <1>4, OthersGoOn DEF Settled
<1>5. QED
  BY <1>1, <1>2, <1>3, <1>4 DEF Settled

LEMMA NoticedStep ==
  ASSUME IInv, SimilarAreNoticed, Next PROVE SimilarAreNoticed'
<1> SUFFICES ASSUME NEW k \in Kinds, NEW p \in Photos, NEW q \in Photos, MayShare(k, p, q)'
             PROVE  Settled(k, p)' \/ Settled(k, q)'
  <2>1. (SimilarAreNoticed <=>
           \A k \in Kinds, p, q \in Photos : MayShare(k, p, q) => Settled(k, p) \/ Settled(k, q))'
    BY DEF SimilarAreNoticed, MayShare, Settled, BeingChecked, Checks
  <2>2. QED
    BY <2>1
<1>1. PICK w \in Workers :
        Save(w) \/ Find(w) \/ Create(w) \/ AssignOther(w) \/ AssignSelf(w) \/ Crash(w)
  BY DEF Next
<1>2. CASE Checks(w, k, p)' \/ Checks(w, k, q)'
  BY <1>2 DEF Settled
<1>3. CASE ~(Checks(w, k, p)' \/ Checks(w, k, q)')
  <2>1. MayShare(k, p, q) /\ MayShare(k, q, p)
    BY <1>1, <1>3, MayShareBefore, MayShareSymmetric
  <2>2. Settled(k, p) \/ Settled(k, q)
    BY <2>1, NoticedMeaning
  <2>3. QED
    BY <1>1, <2>1, <2>2, SettledStays
<1>4. QED
  BY <1>2, <1>3

\* With any number of workers, between the transactions of _check_photo_identity
\* and _check_photo_duplicates of each other, whatever fails and whoever dies: of
\* two photos that may share a group one is in a group or is being checked,
\* unless an exception or a crash has ended a check of one of the two.
THEOREM SimilarNoticed == Spec => []SimilarAreNoticed
<1>1. Init => SimilarAreNoticed
  BY DEF Init, SimilarAreNoticed, IsSaved
<1>2. IInv /\ SimilarAreNoticed /\ [Next]_vars => SimilarAreNoticed'
  <2>1. SimilarAreNoticed /\ UNCHANGED vars => SimilarAreNoticed'
    BY DEF SimilarAreNoticed, BeingChecked, At, IsSaved, Alike, Near, Apart, Hashed,
           vars, rowVars, jobVars
  <2>2. QED
    BY <2>1, NoticedStep
<1>3. QED
  BY <1>1, <1>2, Invariance, PTL DEF Spec
===============================================================================
