------------------------------- MODULE Loops -------------------------------
(* Lemmas about loops, for the proofs about the components.  The loops of    *)
(* the models are folds, which SequencesExt defines by a recursive function  *)
(* on sets of indices, or recursive functions of a counter; what such a      *)
(* function computes is found by going to the least index where it would not.*)
EXTENDS Lists, SequencesExt, FiniteSetTheorems, WellFoundedInduction, TLAPS

(* A set of naturals that is not empty has a least element. *)
LEMMA Least ==
  ASSUME NEW B \in SUBSET Nat, B # {}
  PROVE  \E x \in B : \A y \in B : x <= y
<1>1. PICK x \in B : \A y \in B : ~ (<<y, x>> \in OpToRel(<, Nat))
  BY NatLessThanWellFounded, WFMin, Zenon
<1>2. \A y \in B : ~ (y < x)
  BY <1>1 DEF OpToRel
<1>3. QED
  BY <1>2

(* What holds before a loop and is kept by each round holds after each.     *)
LEMMA Steps ==
  ASSUME NEW T, NEW n \in Nat, NEW g, g[0] \in T,
         \A i \in 1 .. n : g[i - 1] \in T => g[i] \in T
  PROVE  \A i \in 0 .. n : g[i] \in T
<1> DEFINE B == {i \in 0 .. n : g[i] \notin T}
<1>1. SUFFICES ASSUME B # {} PROVE FALSE
  OBVIOUS
<1>2. B \in SUBSET Nat
  OBVIOUS
<1>3. PICK x \in B : \A y \in B : x <= y
  BY <1>1, <1>2, Least
<1>4. x \in 1 .. n /\ x - 1 \in 0 .. n
  OBVIOUS
<1>5. x - 1 \notin B
  BY <1>3, <1>4
<1>6. g[x - 1] \in T
  BY <1>4, <1>5
<1>7. QED
  BY <1>4, <1>6

(* The last index of a set of indices, as FoldLeft takes it. *)
LEMMA Greatest ==
  ASSUME NEW n \in Nat, NEW S \in SUBSET (1 .. n), S # {}
  PROVE  /\ Max(S) \in S
         /\ \A i \in S : i <= Max(S)
         /\ n \in S => Max(S) = n
<1> DEFINE B == {b \in 0 .. n : \A i \in S : i <= b}
<1>1. B \in SUBSET Nat /\ n \in B
  OBVIOUS
<1>2. PICK x \in B : \A y \in B : x <= y
  <2> HIDE DEF B
  <2> QED BY <1>1, Least
<1>3. x \in S
  <2>1. SUFFICES ASSUME x \notin S PROVE FALSE
    OBVIOUS
  <2>2. PICK i \in S : TRUE
    OBVIOUS
  <2>3. i < x /\ i \in 1 .. n
    BY <2>1, <2>2
  <2>4. x - 1 \in B
    BY <2>1, <2>3
  <2>5. ~ (x <= x - 1)
    OBVIOUS
  <2> HIDE DEF B
  <2>6. QED
    BY <1>2, <2>4, <2>5
<1>4. \A i \in S : x >= i
  OBVIOUS
<1>5. Max(S) \in S /\ \A i \in S : Max(S) >= i
  BY <1>3, <1>4 DEF Max
<1>6. Max(S) \in 1 .. n /\ \A i \in S : i \in 1 .. n
  BY <1>5
<1> HIDE DEF B
<1>7. QED
  BY <1>5, <1>6

(* The recursive function of a fold over the indices 1 .. n, where round i  *)
(* turns r into F[i][r].                                                    *)
IsFold(f, base, n, F) ==
  f = [S \in SUBSET (1 .. n) |->
         IF S = {} THEN base ELSE F[Max(S)][f[S \ {Max(S)}]]]

(* There is such a function whatever the rounds do, as long as they stay in *)
(* a set.                                                                   *)
LEMMA FoldExists ==
  ASSUME NEW T, NEW base \in T, NEW n \in Nat, NEW F \in [1 .. n -> [T -> T]]
  PROVE  \E f \in [SUBSET (1 .. n) -> T] : IsFold(f, base, n, F)
<1> DEFINE B == {m \in 0 .. n : \A f \in [SUBSET (1 .. m) -> T] : ~ IsFold(f, base, m, F)}
<1>1. SUFFICES ASSUME B # {} PROVE FALSE
  <2>1. n \notin B /\ n \in 0 .. n
    <3> HIDE DEF B
    <3>1. B = {}
      BY <1>1
    <3>2. QED
      BY <3>1
  <2>2. ~ \A f \in [SUBSET (1 .. n) -> T] : ~ IsFold(f, base, n, F)
    BY <2>1
  <2>3. QED
    BY <2>2
<1>2. B \in SUBSET Nat
  OBVIOUS
<1>3. PICK x \in B : \A y \in B : x <= y
  <2> HIDE DEF B
  <2> QED BY <1>1, <1>2, Least
<1>4. x # 0
  <2> DEFINE e == [S \in SUBSET (1 .. 0) |-> base]
  <2>1. e \in [SUBSET (1 .. 0) -> T]
    OBVIOUS
  <2>2. \A S \in SUBSET (1 .. 0) : S = {}
    OBVIOUS
  <2>3. IsFold(e, base, 0, F)
    BY <2>2 DEF IsFold
  <2>4. 0 \notin B
    BY <2>1, <2>3
  <2>5. QED
    BY <2>4
<1>5. x \in 1 .. n /\ x - 1 \in 0 .. n /\ ~ (x <= x - 1)
  BY <1>4
<1>6. x - 1 \notin B
  <2> HIDE DEF B
  <2> QED BY <1>3, <1>5
<1>7. PICK f \in [SUBSET (1 .. (x - 1)) -> T] : IsFold(f, base, x - 1, F)
  BY <1>5, <1>6
<1> DEFINE h == [S \in SUBSET (1 .. x) |->
                   IF x \in S THEN F[x][f[S \ {x}]] ELSE f[S]]
<1>8. ASSUME NEW S \in SUBSET (1 .. x)
      PROVE  /\ h[S] \in T
             /\ h[S] = IF S = {} THEN base ELSE F[Max(S)][h[S \ {Max(S)}]]
  <2>1. CASE x \in S
    <3>1. Max(S) = x
      BY <1>5, <2>1, Greatest
    <3>2. S \ {x} \in SUBSET (1 .. (x - 1))
      BY <1>5
    <3>3. h[S \ {x}] = f[S \ {x}]
      BY <3>2
    <3>4. F[x][f[S \ {x}]] \in T
      BY <1>5, <3>2
    <3>5. QED
      BY <2>1, <3>1, <3>3, <3>4
  <2>2. CASE x \notin S
    <3>1. S \in SUBSET (1 .. (x - 1))
      BY <1>5, <2>2
    <3>2. h[S] = f[S] /\ f[S] \in T
      BY <2>2, <3>1
    <3>3. f[S] = IF S = {} THEN base ELSE F[Max(S)][f[S \ {Max(S)}]]
      BY <1>7, <3>1 DEF IsFold
    <3>4. h[S \ {Max(S)}] = f[S \ {Max(S)}]
      BY <2>2, <3>1
    <3>5. QED
      BY <3>2, <3>3, <3>4
  <2>3. QED
    BY <2>1, <2>2
<1>9. h \in [SUBSET (1 .. x) -> T]
  <2>1. \A S \in SUBSET (1 .. x) : h[S] \in T
    BY <1>8
  <2>2. QED
    BY <2>1
<1>10. IsFold(h, base, x, F)
  <2>1. \A S \in SUBSET (1 .. x) :
          h[S] = IF S = {} THEN base ELSE F[Max(S)][h[S \ {Max(S)}]]
    BY <1>8
  <2>2. h = [S \in SUBSET (1 .. x) |-> h[S]]
    OBVIOUS
  <2> HIDE DEF h
  <2>3. QED
    BY <2>1, <2>2 DEF IsFold
<1>11. QED
  BY <1>9, <1>10

(* The indices up to j are those up to j - 1, and j.                        *)
LEMMA Segments ==
  ASSUME NEW n \in Nat, NEW j \in 1 .. n
  PROVE  /\ 1 .. j \in SUBSET (1 .. n) /\ 1 .. j # {}
         /\ Max(1 .. j) = j
         /\ (1 .. j) \ {j} = 1 .. (j - 1)
<1>1. 1 .. j \in SUBSET (1 .. n) /\ 1 .. j \in SUBSET (1 .. j) /\ j \in 1 .. j
  OBVIOUS
<1>2. Max(1 .. j) = j
  BY <1>1, Greatest
<1>3. QED
  BY <1>1, <1>2

(* Where g's values are in T, they are those of such a fold.                *)
FoldsIn(g, T, base, n, F) ==
  /\ g[{}] = base
  /\ \A S \in SUBSET (1 .. n) :
       S # {} /\ g[S \ {Max(S)}] \in T => g[S] = F[Max(S)][g[S \ {Max(S)}]]

(* h[j] is what n rounds have made of base after the j-th.                  *)
Rounds(h, base, n, F) ==
  h[0] = base /\ \A j \in 1 .. n : h[j] = F[j][h[j - 1]]

(* A fold over the indices 1 .. n goes through them in their order.         *)
LEMMA FoldRuns ==
  ASSUME NEW T, NEW base \in T, NEW n \in Nat, NEW F \in [1 .. n -> [T -> T]],
         NEW g, FoldsIn(g, T, base, n, F)
  PROVE  \E h \in [0 .. n -> T] : Rounds(h, base, n, F) /\ h[n] = g[1 .. n]
<1> DEFINE h == [j \in 0 .. n |-> g[1 .. j]]
<1>1. h[0] = base
  <2>1. 1 .. 0 = {}
    OBVIOUS
  <2>2. QED
    BY <2>1 DEF FoldsIn
<1>2. ASSUME NEW j \in 1 .. n, h[j - 1] \in T
      PROVE  h[j] = F[j][h[j - 1]] /\ h[j] \in T
  <2>1. /\ 1 .. j \in SUBSET (1 .. n) /\ 1 .. j # {}
        /\ Max(1 .. j) = j /\ (1 .. j) \ {j} = 1 .. (j - 1)
    BY Segments
  <2>2. h[j - 1] = g[1 .. (j - 1)] /\ h[j] = g[1 .. j]
    OBVIOUS
  <2>3. g[1 .. j] = F[j][g[1 .. (j - 1)]]
    BY <1>2, <2>1, <2>2 DEF FoldsIn
  <2> HIDE DEF h
  <2>4. QED
    BY <1>2, <2>2, <2>3
<1>3. h = [j \in 0 .. n |-> h[j]] /\ h[n] = g[1 .. n]
  OBVIOUS
<1> HIDE DEF h
<1>4. \A j \in 0 .. n : h[j] \in T
  BY <1>1, <1>2, Steps
<1>5. h \in [0 .. n -> T]
  BY <1>3, <1>4
<1>6. \A j \in 1 .. n : h[j] = F[j][h[j - 1]]
  <2>1. \A j \in 1 .. n : j - 1 \in 0 .. n
    OBVIOUS
  <2>2. QED
    BY <1>2, <1>4, <2>1
<1>7. QED
  BY <1>1, <1>3, <1>5, <1>6 DEF Rounds

(* There is a function that n rounds compute.                               *)
LEMMA RoundsExist ==
  ASSUME NEW T, NEW base \in T, NEW n \in Nat, NEW F \in [1 .. n -> [T -> T]]
  PROVE  \E h \in [0 .. n -> T] : Rounds(h, base, n, F)
<1>1. PICK f \in [SUBSET (1 .. n) -> T] : IsFold(f, base, n, F)
  BY FoldExists
<1>2. FoldsIn(f, T, base, n, F)
  <2>1. f[{}] = base
    BY <1>1 DEF IsFold
  <2>2. ASSUME NEW S \in SUBSET (1 .. n), S # {}
        PROVE  f[S] = F[Max(S)][f[S \ {Max(S)}]]
    BY <1>1, <2>2 DEF IsFold
  <2>3. QED
    BY <2>1, <2>2 DEF FoldsIn
<1>3. QED
  BY <1>2, FoldRuns

----------------------------------------------------------------------------
(* The filter of lists.                                                      *)

(* As many elements as an enumeration without repetition has indices.        *)
LEMMA Enumerated ==
  ASSUME NEW m \in Nat, NEW f, NEW A,
         \A k \in 1 .. m : f[k] \in A,
         \A x \in A : \E k \in 1 .. m : f[k] = x,
         \A j, k \in 1 .. m : f[j] = f[k] => j = k
  PROVE  IsFiniteSet(A) /\ Cardinality(A) = m
<1> DEFINE g == [k \in 1 .. m |-> f[k]]
<1>1. IsFiniteSet(1 .. m) /\ Cardinality(1 .. m) = m
  BY FS_Interval
<1>2. g \in Bijection(1 .. m, A)
  BY DEF Bijection, Injection, Surjection, IsInjective
<1>3. ExistsBijection(1 .. m, A)
  BY <1>2 DEF ExistsBijection
<1>4. QED
  BY <1>1, <1>3, FS_Bijection

(* What the loop computes, round by round.                                   *)
Keeps(h, S, l, keep) ==
  /\ h \in [0 .. Len(l) -> Seq(S)]
  /\ h[0] = <<>>
  /\ \A j \in 1 .. Len(l) :
       h[j] = IF l[j] \in keep THEN Append(h[j - 1], l[j]) ELSE h[j - 1]
  /\ Keeping(l, keep) = h[Len(l)]

LEMMA KeepingRuns ==
  ASSUME NEW S, NEW l \in Seq(S), NEW keep
  PROVE  \E h : Keeps(h, S, l, keep)
<1> DEFINE n == Len(l)
           T == Seq(S)
           Round(out, x) == IF x \in keep THEN Append(out, x) ELSE out
           F == [i \in 1 .. n |-> [out \in T |-> Round(out, l[i])]]
           Loop(g) == g = [i \in 0 .. n |-> IF i = 0 THEN <<>>
                                            ELSE IF l[i] \in keep THEN Append(g[i - 1], l[i])
                                            ELSE g[i - 1]]
           g0 == CHOOSE g : Loop(g)
<1>1. n \in Nat /\ \A i \in 1 .. n : l[i] \in S
  OBVIOUS
<1>2. Keeping(l, keep) = g0[n]
  BY DEF Keeping
<1>3. /\ F \in [1 .. n -> [T -> T]]
      /\ \A i \in 1 .. n : \A out \in T : F[i][out] = Round(out, l[i])
  BY <1>1
<1>4. <<>> \in T
  OBVIOUS
<1> HIDE DEF n, F
<1>5. PICK f \in [0 .. n -> T] : Rounds(f, <<>>, n, F)
  <2> HIDE DEF T
  <2> QED BY <1>1, <1>3, <1>4, RoundsExist
<1>6. \A j \in 1 .. n : j - 1 \in 0 .. n /\ f[j] = Round(f[j - 1], l[j])
  <2> TAKE j \in 1 .. n
  <2>1. j - 1 \in 0 .. n /\ f[j] = F[j][f[j - 1]]
    BY <1>1, <1>5 DEF Rounds
  <2> HIDE DEF T, Round
  <2>2. f[j - 1] \in T
    BY <2>1
  <2>3. QED
    BY <1>3, <2>1, <2>2
<1>7. f[0] = <<>>
  BY <1>5 DEF Rounds
<1>8. Loop(f)
  <2>1. \A i \in 0 .. n : f[i] = IF i = 0 THEN <<>> ELSE Round(f[i - 1], l[i])
    <3> TAKE i \in 0 .. n
    <3>1. i = 0 \/ i \in 1 .. n
      BY <1>1
    <3>2. QED
      BY <1>6, <1>7, <3>1
  <2>2. f = [i \in 0 .. n |-> f[i]]
    OBVIOUS
  <2>3. QED
    BY <2>1, <2>2
<1>9. Loop(g0)
  <2> HIDE DEF Loop
  <2> QED BY <1>8
<1> HIDE DEF g0
<1>10. /\ g0[0] = <<>>
       /\ \A j \in 1 .. n : g0[j] = Round(g0[j - 1], l[j])
       /\ g0 = [i \in 0 .. n |-> g0[i]]
  <2>1. 0 \in 0 .. n /\ \A j \in 1 .. n : j \in 0 .. n /\ j # 0
    BY <1>1
  <2>2. QED
    BY <1>9, <2>1
<1> HIDE DEF Loop
<1>11. \A i \in 0 .. n : g0[i] \in T
  <2>1. ASSUME NEW j \in 1 .. n, g0[j - 1] \in T PROVE g0[j] \in T
    <3>1. g0[j] = Round(g0[j - 1], l[j]) /\ l[j] \in S
      BY <1>1, <1>10
    <3>2. Append(g0[j - 1], l[j]) \in T
      BY <2>1, <3>1
    <3> HIDE DEF T
    <3>3. QED
      BY <2>1, <3>1, <3>2
  <2>2. g0[0] \in T
    BY <1>4, <1>10
  <2> HIDE DEF T, Round
  <2>3. QED
    BY <1>1, <2>1, <2>2, Steps
<1>12. g0 \in [0 .. n -> T]
  BY <1>10, <1>11
<1>13. QED
  BY <1>2, <1>10, <1>12 DEF n, Keeps

(* The indices it keeps, in their order.                                     *)
Picks(f, sel, l, keep, n) ==
  /\ f \in [1 .. Len(sel) -> 1 .. n]
  /\ \A j, k \in 1 .. Len(sel) : j < k => f[j] < f[k]
  /\ \A k \in 1 .. Len(sel) : sel[k] = l[f[k]] /\ l[f[k]] \in keep
  /\ \A i \in 1 .. n : l[i] \in keep => \E k \in 1 .. Len(sel) : f[k] = i

(* A further index.                                                          *)
LEMMA PicksOneMore ==
  ASSUME NEW S, NEW sel \in Seq(S), NEW l, NEW keep, NEW n \in Nat \ {0},
         NEW f, Picks(f, sel, l, keep, n - 1), l[n] \in S
  PROVE  \E g : Picks(g, IF l[n] \in keep THEN Append(sel, l[n]) ELSE sel, l, keep, n)
<1> DEFINE m == Len(sel)
<1>1. m \in Nat /\ f \in [1 .. m -> 1 .. (n - 1)]
  BY DEF Picks
<1>2. CASE l[n] \notin keep
  <2>1. f \in [1 .. m -> 1 .. n]
    BY <1>1
  <2>2. \A i \in 1 .. n : l[i] \in keep => i \in 1 .. (n - 1)
    BY <1>2
  <2>3. Picks(f, sel, l, keep, n)
    BY <2>1, <2>2 DEF Picks
  <2>4. QED
    BY <1>2, <2>3
<1>3. CASE l[n] \in keep
  <2> DEFINE new == Append(sel, l[n])
             g == [k \in 1 .. m + 1 |-> IF k = m + 1 THEN n ELSE f[k]]
  <2> HIDE DEF m
  <2>1. /\ Len(new) = m + 1 /\ new[m + 1] = l[n]
        /\ \A k \in 1 .. m : new[k] = sel[k]
    BY DEF m
  <2>2. /\ \A k \in 1 .. m : g[k] = f[k] /\ f[k] \in 1 .. (n - 1)
        /\ g[m + 1] = n
        /\ g \in [1 .. m + 1 -> 1 .. n]
    <3>1. /\ m + 1 \in 1 .. m + 1
          /\ \A k \in 1 .. m : k \in 1 .. m + 1 /\ k # m + 1
      BY <1>1
    <3>2. \A k \in 1 .. m : f[k] \in 1 .. (n - 1) /\ f[k] \in 1 .. n
      BY <1>1
    <3>3. \A k \in 1 .. m + 1 : k = m + 1 \/ k \in 1 .. m
      BY <1>1
    <3>4. \A k \in 1 .. m + 1 : g[k] \in 1 .. n
      BY <3>2, <3>3
    <3>5. QED
      BY <3>1, <3>2, <3>4
  <2> HIDE DEF new, g
  <2>3. ASSUME NEW j \in 1 .. m + 1, NEW k \in 1 .. m + 1, j < k
        PROVE  g[j] < g[k]
    <3>1. j \in 1 .. m
      BY <1>1, <2>3
    <3>2. CASE k = m + 1
      BY <2>2, <3>1, <3>2
    <3>3. CASE k \in 1 .. m
      <4>1. f[j] < f[k]
        BY <2>3, <3>1, <3>3 DEF Picks, m
      <4>2. QED
        BY <2>2, <3>1, <3>3, <4>1
    <3>4. QED
      BY <1>1, <3>2, <3>3
  <2>4. ASSUME NEW k \in 1 .. m + 1
        PROVE  new[k] = l[g[k]] /\ l[g[k]] \in keep
    <3>1. CASE k = m + 1
      BY <1>3, <2>1, <2>2, <3>1
    <3>2. CASE k \in 1 .. m
      <4>1. sel[k] = l[f[k]] /\ l[f[k]] \in keep
        BY <3>2 DEF Picks, m
      <4>2. QED
        BY <2>1, <2>2, <3>2, <4>1
    <3>3. QED
      BY <1>1, <3>1, <3>2
  <2>5. ASSUME NEW i \in 1 .. n, l[i] \in keep
        PROVE  \E k \in 1 .. m + 1 : g[k] = i
    <3>1. CASE i = n
      BY <1>1, <2>2, <3>1
    <3>2. CASE i \in 1 .. (n - 1)
      <4>1. PICK k \in 1 .. m : f[k] = i
        BY <2>5, <3>2 DEF Picks, m
      <4>2. k \in 1 .. m + 1
        BY <1>1
      <4>3. QED
        BY <2>2, <4>1, <4>2
    <3>3. QED
      BY <3>1, <3>2
  <2>6. Picks(g, new, l, keep, n)
    BY <2>1, <2>2, <2>3, <2>4, <2>5 DEF Picks
  <2>7. QED
    BY <1>3, <2>6 DEF new
<1>4. QED
  BY <1>2, <1>3

LEMMA KeepingPicks ==
  ASSUME NEW S, NEW l \in Seq(S), NEW keep
  PROVE  /\ Keeping(l, keep) \in Seq(S)
         /\ \E f : Picks(f, Keeping(l, keep), l, keep, Len(l))
<1> DEFINE n == Len(l)
<1>1. n \in Nat /\ \A i \in 1 .. n : l[i] \in S
  OBVIOUS
<1>2. PICK h : Keeps(h, S, l, keep)
  BY KeepingRuns
<1>3. /\ h \in [0 .. n -> Seq(S)] /\ h[0] = <<>>
      /\ \A j \in 1 .. n : h[j] = IF l[j] \in keep THEN Append(h[j - 1], l[j]) ELSE h[j - 1]
      /\ Keeping(l, keep) = h[n]
  BY <1>2 DEF Keeps
<1> DEFINE T == {j \in 0 .. n : \E f : Picks(f, h[j], l, keep, j)}
           g == [j \in 0 .. n |-> j]
<1>4. \A j \in 0 .. n : g[j] = j
  OBVIOUS
<1> HIDE DEF n, g
<1>5. g[0] \in T
  <2>1. 0 \in 0 .. n
    BY <1>1
  <2>2. Len(h[0]) = 0 /\ 1 .. 0 = {}
    BY <1>3
  <2>3. Picks([k \in {} |-> 0], h[0], l, keep, 0)
    BY <2>2 DEF Picks
  <2>4. QED
    BY <1>4, <2>1, <2>3
<1>6. ASSUME NEW j \in 1 .. n, g[j - 1] \in T
      PROVE  g[j] \in T
  <2>1. j - 1 \in 0 .. n /\ j \in 0 .. n /\ j \in Nat \ {0}
    BY <1>1
  <2>2. g[j - 1] = j - 1 /\ g[j] = j /\ h[j - 1] \in Seq(S) /\ l[j] \in S
    BY <1>1, <1>3, <1>4, <2>1
  <2>3. PICK f : Picks(f, h[j - 1], l, keep, j - 1)
    BY <1>6, <2>2
  <2>4. \E f1 : Picks(f1, IF l[j] \in keep THEN Append(h[j - 1], l[j]) ELSE h[j - 1],
                      l, keep, j)
    BY <2>1, <2>2, <2>3, PicksOneMore
  <2>5. \E f1 : Picks(f1, h[j], l, keep, j)
    BY <1>3, <2>4
  <2>6. QED
    BY <2>1, <2>2, <2>5
<1>7. n \in T
  <2> HIDE DEF T
  <2>1. \A i \in 0 .. n : g[i] \in T
    BY <1>1, <1>5, <1>6, Steps
  <2>2. QED
    BY <1>1, <1>4, <2>1
<1>8. Keeping(l, keep) \in Seq(S)
  BY <1>1, <1>3
<1>9. QED
  BY <1>3, <1>7, <1>8 DEF n

(* It keeps what it is to keep, each entry as often as it was there.         *)
LEMMA KeepingKeeps ==
  ASSUME NEW S, NEW l \in Seq(S), NEW keep
  PROVE  /\ Keeping(l, keep) \in Seq(S)
         /\ ToSet(Keeping(l, keep)) = ToSet(l) \cap keep
         /\ IsInjective(l) => IsInjective(Keeping(l, keep))
<1> DEFINE sel == Keeping(l, keep)
           n == Len(l)
           m == Len(sel)
<1>1. sel \in Seq(S)
  BY KeepingPicks
<1>2. PICK f : Picks(f, sel, l, keep, n)
  BY KeepingPicks
<1> HIDE DEF sel
<1>3. /\ DOMAIN sel = 1 .. m /\ DOMAIN l = 1 .. n
      /\ m \in Nat /\ n \in Nat
  BY <1>1
<1>4. /\ f \in [1 .. m -> 1 .. n]
      /\ \A j, k \in 1 .. m : j < k => f[j] < f[k]
      /\ \A k \in 1 .. m : sel[k] = l[f[k]] /\ l[f[k]] \in keep
      /\ \A i \in 1 .. n : l[i] \in keep => \E k \in 1 .. m : f[k] = i
  BY <1>2 DEF Picks
<1> HIDE DEF n, m
<1>5. ToSet(sel) = ToSet(l) \cap keep
  <2>1. ToSet(sel) = {sel[k] : k \in 1 .. m} /\ ToSet(l) = {l[i] : i \in 1 .. n}
    BY <1>3 DEF ToSet
  <2>2. ASSUME NEW x \in ToSet(sel) PROVE x \in ToSet(l) \cap keep
    BY <1>4, <2>1
  <2>3. ASSUME NEW x \in ToSet(l), x \in keep PROVE x \in ToSet(sel)
    <3>1. PICK i \in 1 .. n : x = l[i]
      BY <2>1
    <3>2. PICK k \in 1 .. m : f[k] = i
      BY <1>4, <2>3, <3>1
    <3>3. QED
      BY <1>4, <2>1, <3>1, <3>2
  <2>4. QED
    BY <2>2, <2>3
<1>6. ASSUME IsInjective(l), NEW j \in 1 .. m, NEW k \in 1 .. m, sel[j] = sel[k]
      PROVE  j = k
  <2>1. f[j] = f[k] /\ f[j] \in Nat
    BY <1>3, <1>4, <1>6 DEF IsInjective
  <2>2. ~ (f[j] < f[k]) /\ ~ (f[k] < f[j])
    BY <2>1
  <2>3. ~ (j < k) /\ ~ (k < j)
    BY <1>4, <2>2
  <2>4. QED
    BY <1>3, <2>3
<1>7. IsInjective(l) => IsInjective(sel)
  BY <1>3, <1>6 DEF IsInjective
<1>8. QED
  BY <1>1, <1>5, <1>7 DEF sel

(* It keeps it in its order.                                                 *)
LEMMA KeepingSelects ==
  ASSUME NEW S, NEW l \in Seq(S), NEW keep
  PROVE  Selects(Keeping(l, keep), l, keep)
<1> DEFINE sel == Keeping(l, keep)
           n == Len(l)
           m == Len(sel)
           at == {i \in 1 .. n : l[i] \in keep}
<1>1. sel \in Seq(S)
  BY KeepingPicks
<1>2. PICK f : Picks(f, sel, l, keep, n)
  BY KeepingPicks
<1> HIDE DEF sel
<1>3. /\ DOMAIN sel = 1 .. m /\ DOMAIN l = 1 .. n
      /\ m \in Nat /\ n \in Nat
  BY <1>1
<1>4. /\ f \in [1 .. m -> 1 .. n]
      /\ \A j, k \in 1 .. m : j < k => f[j] < f[k]
      /\ \A k \in 1 .. m : sel[k] = l[f[k]] /\ l[f[k]] \in keep
      /\ \A i \in 1 .. n : l[i] \in keep => \E k \in 1 .. m : f[k] = i
  BY <1>2 DEF Picks
<1> HIDE DEF n, m
<1>5. /\ \A k \in 1 .. m : f[k] \in at /\ f[k] \in Nat
      /\ \A i \in at : \E k \in 1 .. m : f[k] = i
  BY <1>3, <1>4
<1>6. \A j, k \in 1 .. m : f[j] = f[k] => j = k
  <2> SUFFICES ASSUME NEW j \in 1 .. m, NEW k \in 1 .. m, f[j] = f[k]
               PROVE  j = k
    OBVIOUS
  <2>1. ~ (f[j] < f[k]) /\ ~ (f[k] < f[j])
    BY <1>5
  <2>2. ~ (j < k) /\ ~ (k < j)
    BY <1>4, <2>1
  <2>3. QED
    BY <1>3, <2>2
<1> HIDE DEF at
<1>7. Cardinality(at) = m
  BY <1>3, <1>5, <1>6, Enumerated
<1>8. ASSUME NEW k \in 1 .. m
      PROVE  Cardinality({i \in at : i <= f[k]}) = k
  <2> DEFINE A == {i \in at : i <= f[k]}
  <2>1. k \in Nat /\ \A j \in 1 .. k : j \in 1 .. m
    BY <1>3
  <2>2. \A j \in 1 .. k : f[j] \in A
    <3> TAKE j \in 1 .. k
    <3>1. j = k \/ j < k
      BY <1>3
    <3>2. f[j] <= f[k]
      BY <1>4, <1>5, <2>1, <3>1
    <3>3. QED
      BY <1>5, <2>1, <3>2
  <2>3. \A i \in A : \E j \in 1 .. k : f[j] = i
    <3> TAKE i \in A
    <3>1. PICK j \in 1 .. m : f[j] = i
      BY <1>5
    <3>2. f[j] \in Nat /\ f[k] \in Nat /\ ~ (f[k] < f[j])
      BY <1>5, <3>1
    <3>3. ~ (k < j)
      BY <1>4, <3>2
    <3>4. j \in 1 .. k
      BY <1>3, <3>3
    <3>5. QED
      BY <3>1, <3>4
  <2>4. \A i, j \in 1 .. k : f[i] = f[j] => i = j
    BY <1>6, <2>1
  <2> HIDE DEF A
  <2>5. Cardinality(A) = k
    BY <2>1, <2>2, <2>3, <2>4, Enumerated
  <2>6. QED
    BY <2>5 DEF A
<1>9. ASSUME NEW i \in at
      PROVE  sel[Cardinality({j \in at : j <= i})] = l[i]
  <2>1. PICK k \in 1 .. m : f[k] = i
    BY <1>5
  <2>2. Cardinality({j \in at : j <= i}) = k
    BY <1>8, <2>1
  <2>3. QED
    BY <1>4, <2>1, <2>2
<1>10. QED
  BY <1>3, <1>7, <1>9 DEF Selects, at, sel

----------------------------------------------------------------------------
(* Lists joined.                                                             *)

LEMMA Joined ==
  ASSUME NEW S, NEW a \in Seq(S), NEW b \in Seq(S)
  PROVE  a \o b \in Seq(S) /\ ToSet(a \o b) = ToSet(a) \cup ToSet(b)
<1> DEFINE c == a \o b
<1>1. /\ c \in Seq(S) /\ Len(a) \in Nat /\ Len(b) \in Nat
      /\ DOMAIN c = 1 .. Len(a) + Len(b)
      /\ DOMAIN a = 1 .. Len(a) /\ DOMAIN b = 1 .. Len(b)
      /\ \A i \in 1 .. Len(a) : c[i] = a[i]
      /\ \A i \in 1 .. Len(b) : c[Len(a) + i] = b[i]
  OBVIOUS
<1> HIDE DEF c
<1>2. ASSUME NEW x \in ToSet(c) PROVE x \in ToSet(a) \cup ToSet(b)
  <2>1. PICK i \in 1 .. Len(a) + Len(b) : x = c[i]
    BY <1>1 DEF ToSet
  <2>2. CASE i \in 1 .. Len(a)
    BY <1>1, <2>1, <2>2 DEF ToSet
  <2>3. CASE i \notin 1 .. Len(a)
    <3>1. i - Len(a) \in 1 .. Len(b) /\ i = Len(a) + (i - Len(a))
      BY <1>1, <2>1, <2>3
    <3>2. x = b[i - Len(a)]
      BY <1>1, <2>1, <3>1
    <3>3. QED
      BY <1>1, <3>1, <3>2 DEF ToSet
  <2>4. QED
    BY <2>2, <2>3
<1>3. ASSUME NEW x \in ToSet(a) PROVE x \in ToSet(c)
  <2>1. PICK i \in 1 .. Len(a) : x = a[i]
    BY <1>1 DEF ToSet
  <2>2. i \in DOMAIN c /\ x = c[i]
    BY <1>1, <2>1
  <2>3. QED
    BY <2>2 DEF ToSet
<1>4. ASSUME NEW x \in ToSet(b) PROVE x \in ToSet(c)
  <2>1. PICK i \in 1 .. Len(b) : x = b[i]
    BY <1>1 DEF ToSet
  <2>2. Len(a) + i \in DOMAIN c /\ x = c[Len(a) + i]
    BY <1>1, <2>1
  <2>3. QED
    BY <2>2 DEF ToSet
<1>5. QED
  BY <1>1, <1>2, <1>3, <1>4 DEF c

Join(a, b) == a \o b

LEMMA JoinAssociates ==
  ASSUME NEW S, NEW a \in Seq(S), NEW b \in Seq(S), NEW c \in Seq(S)
  PROVE  Join(Join(a, b), c) = Join(a, Join(b, c))
<1>1. (a \o b) \o c = a \o (b \o c)
  OBVIOUS
<1>2. QED
  BY <1>1 DEF Join

(* What stands where in two lists joined.                                   *)
Follow(c, S, a, b) ==
  /\ c \in Seq(S) /\ Len(c) = Len(a) + Len(b)
  /\ \A k \in 1 .. Len(a) : c[k] = a[k]
  /\ \A k \in 1 .. Len(b) : c[Len(a) + k] = b[k]

LEMMA JoinedAt ==
  ASSUME NEW S, NEW a \in Seq(S), NEW b \in Seq(S)
  PROVE  Follow(Join(a, b), S, a, b)
BY DEF Join, Follow

(* What FlattenSeq joins, list by list.                                      *)
Joins(h, S, ss) ==
  /\ h \in [1 .. Len(ss) -> Seq(S)]
  /\ h[1] = ss[1]
  /\ \A j \in 2 .. Len(ss) : h[j] = h[j - 1] \o ss[j]
  /\ FlattenSeq(ss) = h[Len(ss)]

LEMMA FlattenRuns ==
  ASSUME NEW S, NEW ss \in Seq(Seq(S)), ss # <<>>
  PROVE  \E h : Joins(h, S, ss)
<1> DEFINE n == Len(ss)
           T == Seq(S)
           Round(r, i) == IF i = 1 THEN ss[1] ELSE r \o ss[i]
           F == [i \in 1 .. n |-> [r \in T |-> Round(r, i)]]
           Loop(g) == g = [i \in 1 .. n |-> IF i = 1 THEN ss[i] ELSE g[i - 1] \o ss[i]]
           g0 == CHOOSE g : Loop(g)
<1>1. n \in Nat \ {0} /\ \A i \in 1 .. n : ss[i] \in T
  OBVIOUS
<1>2. FlattenSeq(ss) = g0[n]
  BY <1>1 DEF FlattenSeq
<1>3. \A i \in 1 .. n : \A r \in T : Round(r, i) \in T
  <2> TAKE i \in 1 .. n
  <2> TAKE r \in T
  <2>1. ss[i] \in T /\ ss[1] \in T
    BY <1>1
  <2>2. r \o ss[i] \in T
    BY <2>1
  <2>3. QED
    BY <2>1, <2>2
<1>4. <<>> \in T
  OBVIOUS
<1> HIDE DEF n, T
<1>5. /\ F \in [1 .. n -> [T -> T]]
      /\ \A i \in 1 .. n : \A r \in T : F[i][r] = Round(r, i)
  <2> HIDE DEF Round
  <2> QED BY <1>3
<1> HIDE DEF F
<1>6. PICK f \in [0 .. n -> T] : Rounds(f, <<>>, n, F)
  BY <1>1, <1>4, <1>5, RoundsExist
<1>7. \A j \in 1 .. n : j - 1 \in 0 .. n /\ f[j] \in T /\ f[j] = Round(f[j - 1], j)
  <2> TAKE j \in 1 .. n
  <2>1. j - 1 \in 0 .. n /\ j \in 0 .. n /\ f[j] = F[j][f[j - 1]]
    BY <1>1, <1>6 DEF Rounds
  <2> HIDE DEF Round
  <2>2. QED
    BY <1>5, <2>1
<1>8. Loop([j \in 1 .. n |-> f[j]])
  <2> DEFINE f1 == [j \in 1 .. n |-> f[j]]
  <2>1. \A i \in 1 .. n : f1[i] = IF i = 1 THEN ss[i] ELSE f1[i - 1] \o ss[i]
    <3> TAKE i \in 1 .. n
    <3>1. CASE i = 1
      BY <1>7, <3>1
    <3>2. CASE i # 1
      <4>1. i - 1 \in 1 .. n
        BY <1>1, <3>2
      <4>2. QED
        BY <1>7, <3>2, <4>1
    <3>3. QED
      BY <3>1, <3>2
  <2>2. f1 = [i \in 1 .. n |-> f1[i]]
    OBVIOUS
  <2> HIDE DEF f1
  <2>3. f1 = [i \in 1 .. n |-> IF i = 1 THEN ss[i] ELSE f1[i - 1] \o ss[i]]
    BY <2>1, <2>2
  <2>4. QED
    BY <2>3 DEF f1
<1>9. Loop(g0)
  <2> HIDE DEF Loop
  <2> QED BY <1>8
<1> HIDE DEF g0
<1>10. /\ g0 = [i \in 1 .. n |-> g0[i]]
       /\ \A i \in 1 .. n : g0[i] = Round(g0[i - 1], i)
  BY <1>1, <1>9
<1> HIDE DEF Loop
<1>11. \A j \in 1 .. n : g0[j] = f[j]
  <2> DEFINE D == {j \in 0 .. n : j = 0 \/ g0[j] = f[j]}
             g == [j \in 0 .. n |-> j]
  <2>1. \A j \in 0 .. n : g[j] = j
    OBVIOUS
  <2> HIDE DEF g
  <2>2. 0 \in 0 .. n
    BY <1>1
  <2>3. g[0] \in D
    BY <2>1, <2>2
  <2>4. ASSUME NEW j \in 1 .. n, g[j - 1] \in D PROVE g[j] \in D
    <3>1. j - 1 \in 0 .. n /\ j \in 0 .. n /\ j - 1 \in D
      BY <1>1, <2>1, <2>4
    <3>2. g0[j] = Round(g0[j - 1], j) /\ f[j] = Round(f[j - 1], j)
      BY <1>7, <1>10
    <3>3. j = 1 \/ g0[j - 1] = f[j - 1]
      BY <3>1
    <3>4. g0[j] = f[j]
      BY <3>2, <3>3
    <3>5. QED
      BY <2>1, <3>1, <3>4
  <2> HIDE DEF D
  <2>5. \A j \in 0 .. n : g[j] \in D
    BY <1>1, <2>3, <2>4, Steps
  <2>6. ASSUME NEW j \in 1 .. n PROVE g0[j] = f[j]
    <3>1. j \in 0 .. n /\ j # 0
      BY <1>1
    <3>2. j \in D
      BY <2>1, <2>5, <3>1
    <3>3. QED
      BY <3>1, <3>2 DEF D
  <2>7. QED
    BY <2>6
<1>12. g0 \in [1 .. n -> T]
  BY <1>7, <1>10, <1>11
<1>13. g0[1] = ss[1] /\ \A j \in 2 .. n : g0[j] = g0[j - 1] \o ss[j]
  <2>1. 1 \in 1 .. n /\ \A j \in 2 .. n : j \in 1 .. n /\ j # 1
    BY <1>1
  <2>2. g0[1] = ss[1]
    BY <1>10, <2>1, Zenon
  <2>3. \A j \in 2 .. n : g0[j] = g0[j - 1] \o ss[j]
    BY <1>10, <2>1, Zenon
  <2>4. QED
    BY <2>2, <2>3
<1>14. QED
  BY <1>2, <1>12, <1>13 DEF n, T, Joins

Alike(s, t, n) == \A i \in 1 .. n : s[i] = t[i]

(* Lists that begin alike are joined alike so far.                           *)
LEMMA SameSoFar ==
  ASSUME NEW S, NEW ss \in Seq(Seq(S)), NEW tt \in Seq(Seq(S)), NEW h, NEW k,
         Joins(h, S, ss), Joins(k, S, tt), NEW n \in Nat, n <= Len(ss), n <= Len(tt),
         Alike(ss, tt, n)
  PROVE  Alike(h, k, n)
<1> DEFINE D == {j \in 0 .. n : j = 0 \/ h[j] = k[j]}
           g == [j \in 0 .. n |-> j]
<1>1. \A j \in 0 .. n : g[j] = j
  OBVIOUS
<1> HIDE DEF g
<1>2. g[0] \in D
  BY <1>1
<1>3. ASSUME NEW j \in 1 .. n, g[j - 1] \in D PROVE g[j] \in D
  <2>1. j - 1 \in 0 .. n /\ j \in 0 .. n /\ (j - 1 = 0 \/ h[j - 1] = k[j - 1])
    BY <1>1, <1>3
  <2>2. CASE j = 1
    BY <1>1, <2>1, <2>2 DEF Joins, Alike
  <2>3. CASE j # 1
    <3>1. j \in 2 .. Len(ss) /\ j \in 2 .. Len(tt)
      BY <2>3
    <3>2. h[j] = h[j - 1] \o ss[j] /\ k[j] = k[j - 1] \o tt[j]
      BY <3>1 DEF Joins
    <3>3. h[j - 1] = k[j - 1] /\ ss[j] = tt[j]
      BY <2>1, <2>3 DEF Alike
    <3> HIDE DEF D
    <3>4. h[j] = k[j]
      BY <3>2, <3>3, Zenon
    <3>5. QED
      BY <1>1, <2>1, <3>4 DEF D
  <2>4. QED
    BY <2>2, <2>3
<1> HIDE DEF D
<1>4. \A j \in 0 .. n : g[j] \in D
  BY <1>2, <1>3, Steps
<1>5. ASSUME NEW i \in 1 .. n PROVE h[i] = k[i]
  <2>1. i \in 0 .. n /\ i # 0 /\ g[i] = i
    BY <1>1
  <2>2. i \in D
    BY <1>4, <2>1
  <2>3. QED
    BY <2>1, <2>2 DEF D
<1>6. QED
  BY <1>5 DEF Alike

LEMMA FlattenOne ==
  ASSUME NEW S, NEW s \in Seq(S)
  PROVE  FlattenSeq(<<s>>) = s
<1>1. <<s>> \in Seq(Seq(S)) /\ <<s>> # <<>> /\ Len(<<s>>) = 1 /\ <<s>>[1] = s
  OBVIOUS
<1>2. PICK h : Joins(h, S, <<s>>)
  BY <1>1, FlattenRuns
<1>3. QED
  BY <1>1, <1>2 DEF Joins

LEMMA FlattenAppend ==
  ASSUME NEW S, NEW ss \in Seq(Seq(S)), ss # <<>>, NEW s \in Seq(S)
  PROVE  /\ FlattenSeq(ss) \in Seq(S)
         /\ FlattenSeq(Append(ss, s)) = FlattenSeq(ss) \o s
<1> DEFINE n == Len(ss)
           tt == Append(ss, s)
<1>1. /\ tt \in Seq(Seq(S)) /\ tt # <<>> /\ Len(tt) = n + 1 /\ tt[n + 1] = s
      /\ n \in Nat \ {0} /\ \A i \in 1 .. n : ss[i] = tt[i]
  OBVIOUS
<1> HIDE DEF tt
<1>2. PICK h : Joins(h, S, ss)
  BY FlattenRuns
<1>3. PICK k : Joins(k, S, tt)
  BY <1>1, FlattenRuns
<1>4. n \in Nat /\ n <= Len(ss) /\ n <= Len(tt) /\ n \in 1 .. n
  BY <1>1
<1>5. \A i \in 1 .. n : h[i] = k[i]
  <2> HIDE DEF n
  <2>1. /\ tt \in Seq(Seq(S)) /\ Joins(h, S, ss) /\ Joins(k, S, tt)
        /\ n \in Nat /\ n <= Len(ss) /\ n <= Len(tt)
        /\ Alike(ss, tt, n)
    BY <1>1, <1>2, <1>3, <1>4 DEF Alike
  <2>2. Alike(h, k, n)
    BY <2>1, SameSoFar
  <2>3. QED
    BY <2>2 DEF Alike
<1>6. k[n + 1] = k[n] \o s
  <2>1. n + 1 \in 2 .. Len(tt) /\ (n + 1) - 1 = n
    BY <1>1
  <2>2. \A j \in 2 .. Len(tt) : k[j] = k[j - 1] \o tt[j]
    BY <1>3 DEF Joins
  <2>3. k[n + 1] = k[(n + 1) - 1] \o tt[n + 1]
    BY <2>1, <2>2
  <2>4. QED
    BY <1>1, <2>1, <2>3, Zenon
<1>7. k[n] = h[n]
  BY <1>4, <1>5
<1>8. FlattenSeq(ss) = h[n] /\ h[n] \in Seq(S)
  BY <1>2, <1>4 DEF Joins
<1>9. FlattenSeq(tt) = k[n + 1]
  BY <1>1, <1>3 DEF Joins
<1>10. QED
  BY <1>6, <1>7, <1>8, <1>9, Zenon DEF tt

LEMMA FlattenPrepend ==
  ASSUME NEW S, NEW ss \in Seq(Seq(S)), ss # <<>>, NEW s \in Seq(S)
  PROVE  FlattenSeq(<<s>> \o ss) = s \o FlattenSeq(ss)
<1> DEFINE n == Len(ss)
           tt == <<s>> \o ss
<1>1. /\ tt \in Seq(Seq(S)) /\ tt # <<>> /\ Len(tt) = n + 1 /\ tt[1] = s
      /\ n \in Nat \ {0} /\ \A i \in 1 .. n : tt[i + 1] = ss[i] /\ ss[i] \in Seq(S)
  OBVIOUS
<1> HIDE DEF tt
<1>2. PICK h : Joins(h, S, ss)
  BY FlattenRuns
<1>3. PICK k : Joins(k, S, tt)
  BY <1>1, FlattenRuns
<1> HIDE DEF n
<1>4. \A j \in 1 .. n : h[j] \in Seq(S)
  BY <1>2 DEF Joins, n
<1> DEFINE D == {j \in 0 .. n : j = 0 \/ k[j + 1] = s \o h[j]}
           g == [j \in 0 .. n |-> j]
<1>5. \A j \in 0 .. n : g[j] = j
  OBVIOUS
<1> HIDE DEF g
<1>6. g[0] \in D
  BY <1>1, <1>5
<1>7. ASSUME NEW j \in 1 .. n, g[j - 1] \in D PROVE g[j] \in D
  <2>0. j - 1 \in 0 .. n /\ j \in 0 .. n /\ (j - 1) + 1 = j
    BY <1>1
  <2>1. j - 1 = 0 \/ k[j] = s \o h[j - 1]
    BY <1>5, <1>7, <2>0, Zenon
  <2>2. k[j + 1] = k[j] \o ss[j]
    <3>1. j + 1 \in 2 .. Len(tt) /\ (j + 1) - 1 = j
      BY <1>1
    <3>2. k[j + 1] = k[j] \o tt[j + 1]
      BY <1>3, <3>1 DEF Joins
    <3>3. QED
      BY <1>1, <3>2
  <2>3. CASE j = 1
    <3>1. k[1] = s /\ h[1] = ss[1]
      BY <1>1, <1>2, <1>3 DEF Joins
    <3>2. QED
      BY <1>5, <2>0, <2>2, <2>3, <3>1
  <2>4. CASE j # 1
    <3>1. j \in 2 .. n /\ j - 1 \in 1 .. n
      BY <1>1, <2>4
    <3>2. h[j] = h[j - 1] \o ss[j]
      BY <1>2, <3>1 DEF Joins, n
    <3>3. k[j] = s \o h[j - 1]
      BY <2>1, <2>4
    <3>4. h[j - 1] \in Seq(S) /\ ss[j] \in Seq(S)
      BY <1>1, <1>4, <3>1
    <3>5. (s \o h[j - 1]) \o ss[j] = s \o (h[j - 1] \o ss[j])
      <4> DEFINE b == h[j - 1]
                 c == ss[j]
      <4>1. b \in Seq(S) /\ c \in Seq(S)
        BY <3>4
      <4> HIDE DEF b, c
      <4>2. Join(Join(s, b), c) = Join(s, Join(b, c))
        BY <4>1, JoinAssociates
      <4>3. QED
        BY <4>2, Zenon DEF b, c, Join
    <3>6. k[j + 1] = s \o h[j]
      BY <2>2, <3>2, <3>3, <3>5
    <3>7. QED
      BY <1>5, <2>0, <3>6
  <2>5. QED
    BY <2>3, <2>4
<1> HIDE DEF D
<1>8. \A j \in 0 .. n : g[j] \in D
  BY <1>1, <1>6, <1>7, Steps
<1>9. k[n + 1] = s \o h[n]
  <2>1. n \in 0 .. n /\ n # 0
    BY <1>1
  <2>2. n \in D
    BY <1>5, <1>8, <2>1
  <2>3. QED
    BY <2>1, <2>2 DEF D
<1>10. FlattenSeq(ss) = h[n] /\ FlattenSeq(tt) = k[n + 1]
  BY <1>1, <1>2, <1>3 DEF Joins, n
<1>11. QED
  BY <1>9, <1>10 DEF tt

(* It has what the lists have.                                               *)
LEMMA FlattenElements ==
  ASSUME NEW S, NEW ss \in Seq(Seq(S)), ss # <<>>
  PROVE  ToSet(FlattenSeq(ss)) = UNION {ToSet(ss[i]) : i \in 1 .. Len(ss)}
<1> DEFINE n == Len(ss)
           Upto(j) == UNION {ToSet(ss[i]) : i \in 1 .. j}
<1>1. n \in Nat \ {0} /\ \A i \in 1 .. n : ss[i] \in Seq(S)
  OBVIOUS
<1>2. PICK h : Joins(h, S, ss)
  BY FlattenRuns
<1> HIDE DEF n
<1>3. \A j \in 1 .. n : h[j] \in Seq(S)
  BY <1>2 DEF Joins, n
<1> DEFINE D == {j \in 0 .. n : j = 0 \/ ToSet(h[j]) = Upto(j)}
           g == [j \in 0 .. n |-> j]
<1>4. \A j \in 0 .. n : g[j] = j
  OBVIOUS
<1> HIDE DEF g
<1>5. g[0] \in D
  <2> HIDE DEF Upto
  <2> QED BY <1>1, <1>4
<1>6. ASSUME NEW j \in 1 .. n, g[j - 1] \in D PROVE g[j] \in D
  <2>1. /\ j - 1 \in 0 .. n /\ j \in 0 .. n
        /\ j - 1 = 0 \/ ToSet(h[j - 1]) = Upto(j - 1)
    <3> HIDE DEF Upto
    <3> QED BY <1>1, <1>4, <1>6
  <2>2. 1 .. j = (1 .. (j - 1)) \cup {j}
    BY <1>1
  <2>3. Upto(j) = Upto(j - 1) \cup ToSet(ss[j])
    BY <2>2
  <2>4. CASE j = 1
    <3>1. h[1] = ss[1]
      BY <1>2 DEF Joins
    <3>2. 1 .. (j - 1) = {}
      BY <2>4
    <3>3. Upto(j - 1) = {}
      BY <3>2
    <3>4. ToSet(h[j]) = Upto(j)
      <4> HIDE DEF Upto
      <4> QED BY <2>3, <2>4, <3>1, <3>3
    <3> HIDE DEF Upto
    <3>5. QED
      BY <1>4, <2>1, <3>4
  <2>5. CASE j # 1
    <3>1. j \in 2 .. n /\ j - 1 \in 1 .. n
      BY <1>1, <2>5
    <3>2. h[j] = h[j - 1] \o ss[j]
      BY <1>2, <3>1 DEF Joins, n
    <3>3. h[j - 1] \in Seq(S) /\ ss[j] \in Seq(S)
      BY <1>1, <1>3, <3>1
    <3>4. ToSet(h[j]) = ToSet(h[j - 1]) \cup ToSet(ss[j])
      BY <3>2, <3>3, Joined
    <3>5. ToSet(h[j]) = Upto(j)
      <4> HIDE DEF Upto
      <4> QED BY <2>1, <2>3, <2>5, <3>4
    <3> HIDE DEF Upto
    <3>6. QED
      BY <1>4, <2>1, <3>5
  <2>6. QED
    BY <2>4, <2>5
<1> HIDE DEF D
<1>7. \A j \in 0 .. n : g[j] \in D
  BY <1>1, <1>5, <1>6, Steps
<1> HIDE DEF Upto
<1>8. ToSet(h[n]) = Upto(n)
  BY <1>1, <1>4, <1>7 DEF D
<1>9. FlattenSeq(ss) = h[n]
  BY <1>2 DEF Joins, n
<1>10. QED
  BY <1>8, <1>9 DEF n, Upto

----------------------------------------------------------------------------
(* Numbers in order, and lists without repetition.                           *)

(* A list of the elements of a finite set of numbers, in order.              *)
InOrder(s, D) ==
  /\ s \in [1 .. Cardinality(D) -> D]
  /\ \A i, j \in DOMAIN s : i < j => s[i] < s[j]

(* There is one.                                                             *)
LEMMA Sorted ==
  ASSUME NEW lo \in Int, NEW n \in Nat, NEW D \in SUBSET (lo + 1 .. lo + n)
  PROVE  IsFiniteSet(D) /\ \E s : InOrder(s, D)
<1> DEFINE l == [i \in 1 .. n |-> lo + i]
           sel == Keeping(l, D)
           m == Len(sel)
<1>1. l \in Seq(Int) /\ Len(l) = n /\ \A i \in 1 .. n : l[i] = lo + i
  OBVIOUS
<1> HIDE DEF l
<1>2. sel \in Seq(Int) /\ \E f : Picks(f, sel, l, D, n)
  BY <1>1, KeepingPicks
<1>3. PICK f : Picks(f, sel, l, D, n)
  BY <1>2
<1> HIDE DEF sel
<1>4. m \in Nat /\ DOMAIN sel = 1 .. m
  BY <1>2
<1> HIDE DEF m
<1>5. /\ f \in [1 .. m -> 1 .. n]
      /\ \A j, k \in 1 .. m : j < k => f[j] < f[k]
      /\ \A k \in 1 .. m : sel[k] = l[f[k]] /\ l[f[k]] \in D
      /\ \A i \in 1 .. n : l[i] \in D => \E k \in 1 .. m : f[k] = i
  BY <1>3 DEF Picks, m
<1>6. \A k \in 1 .. m : sel[k] = lo + f[k] /\ sel[k] \in D
  BY <1>1, <1>5
<1>7. \A x \in D : \E k \in 1 .. m : sel[k] = x
  <2> TAKE x \in D
  <2>1. x - lo \in 1 .. n /\ lo + (x - lo) = x
    OBVIOUS
  <2>2. l[x - lo] \in D
    BY <1>1, <2>1
  <2>3. PICK k \in 1 .. m : f[k] = x - lo
    BY <1>5, <2>1, <2>2
  <2>4. QED
    BY <1>6, <2>1, <2>3
<1>8. \A j, k \in 1 .. m : j < k => sel[j] < sel[k]
  <2> TAKE j, k \in 1 .. m
  <2>1. f[j] \in Int /\ f[k] \in Int
    BY <1>5
  <2>2. QED
    BY <1>5, <1>6, <2>1
<1>9. \A j, k \in 1 .. m : sel[j] = sel[k] => j = k
  <2> SUFFICES ASSUME NEW j \in 1 .. m, NEW k \in 1 .. m, sel[j] = sel[k], j # k
               PROVE  FALSE
    OBVIOUS
  <2>1. j < k \/ k < j
    BY <1>4
  <2>2. sel[j] < sel[k] \/ sel[k] < sel[j]
    BY <1>8, <2>1
  <2>3. f[j] \in Int /\ f[k] \in Int
    BY <1>5
  <2>4. sel[j] \in Int /\ sel[k] \in Int
    BY <1>6, <2>3
  <2>5. QED
    BY <2>2, <2>4
<1>10. IsFiniteSet(D) /\ Cardinality(D) = m
  BY <1>4, <1>6, <1>7, <1>9, Enumerated
<1>11. InOrder([k \in 1 .. m |-> sel[k]], D)
  BY <1>6, <1>8, <1>10 DEF InOrder
<1>12. QED
  BY <1>10, <1>11

(* It has them all.                                                          *)
LEMMA SortedHasAll ==
  ASSUME NEW D \in SUBSET Int, IsFiniteSet(D), NEW s, InOrder(s, D)
  PROVE  {s[i] : i \in DOMAIN s} = D
<1> DEFINE m == Cardinality(D)
           A == {s[i] : i \in 1 .. m}
<1>1. m \in Nat
  BY FS_CardinalityType
<1>2. s \in [1 .. m -> D] /\ \A i, j \in 1 .. m : i < j => s[i] < s[j]
  BY DEF InOrder
<1> HIDE DEF m
<1>3. \A j, k \in 1 .. m : s[j] = s[k] => j = k
  <2> SUFFICES ASSUME NEW j \in 1 .. m, NEW k \in 1 .. m, s[j] = s[k], j # k
               PROVE  FALSE
    OBVIOUS
  <2>1. j < k \/ k < j
    BY <1>1
  <2>2. s[j] < s[k] \/ s[k] < s[j]
    BY <1>2, <2>1
  <2>3. s[j] \in Int /\ s[k] \in Int
    BY <1>2
  <2>4. QED
    BY <2>2, <2>3
<1>4. (\A k \in 1 .. m : s[k] \in A) /\ \A x \in A : \E k \in 1 .. m : s[k] = x
  OBVIOUS
<1>5. A \in SUBSET D
  BY <1>2
<1> HIDE DEF A
<1>6. Cardinality(A) = m
  BY <1>1, <1>3, <1>4, Enumerated
<1>7. A = D
  BY <1>5, <1>6, FS_Subset DEF m
<1>8. QED
  BY <1>2, <1>7 DEF A

Disjoint(ss) ==
  \A i, j \in DOMAIN ss : i # j => ToSet(ss[i]) \cap ToSet(ss[j]) = {}

LEMMA InjectiveJoined ==
  ASSUME NEW S, NEW a \in Seq(S), NEW b \in Seq(S), IsInjective(a), IsInjective(b),
         ToSet(a) \cap ToSet(b) = {}
  PROVE  IsInjective(a \o b)
<1> DEFINE c == a \o b
<1>1. /\ Len(a) \in Nat /\ Len(b) \in Nat
      /\ DOMAIN c = 1 .. Len(a) + Len(b)
      /\ DOMAIN a = 1 .. Len(a) /\ DOMAIN b = 1 .. Len(b)
      /\ \A i \in 1 .. Len(a) : c[i] = a[i]
      /\ \A i \in 1 .. Len(b) : c[Len(a) + i] = b[i]
  OBVIOUS
<1>2. /\ \A i, j \in 1 .. Len(a) : a[i] = a[j] => i = j
      /\ \A i, j \in 1 .. Len(b) : b[i] = b[j] => i = j
      /\ \A i \in 1 .. Len(a) : \A j \in 1 .. Len(b) : a[i] # b[j]
  <2>1. \A i, j \in 1 .. Len(a) : a[i] = a[j] => i = j
    BY <1>1, Zenon DEF IsInjective
  <2>2. \A i, j \in 1 .. Len(b) : b[i] = b[j] => i = j
    BY <1>1, Zenon DEF IsInjective
  <2>3. \A i \in 1 .. Len(a) : a[i] \in ToSet(a)
    BY <1>1 DEF ToSet
  <2>4. \A j \in 1 .. Len(b) : b[j] \in ToSet(b)
    BY <1>1 DEF ToSet
  <2>5. QED
    BY <2>1, <2>2, <2>3, <2>4
<1> HIDE DEF c
<1>3. ASSUME NEW i \in 1 .. Len(a) + Len(b)
      PROVE  \/ i \in 1 .. Len(a) /\ c[i] = a[i]
             \/ /\ i \notin 1 .. Len(a)
                /\ i - Len(a) \in 1 .. Len(b) /\ c[i] = b[i - Len(a)]
  <2>1. CASE i \in 1 .. Len(a)
    BY <1>1, <2>1
  <2>2. CASE i \notin 1 .. Len(a)
    <3>1. i - Len(a) \in 1 .. Len(b) /\ Len(a) + (i - Len(a)) = i
      BY <1>1, <2>2
    <3>2. c[Len(a) + (i - Len(a))] = b[i - Len(a)]
      BY <1>1, <3>1
    <3>3. QED
      BY <2>2, <3>1, <3>2
  <2>3. QED
    BY <2>1, <2>2
<1>4. ASSUME NEW i \in 1 .. Len(a) + Len(b), NEW j \in 1 .. Len(a) + Len(b), c[i] = c[j]
      PROVE  i = j
  <2>1. CASE i \in 1 .. Len(a)
    <3>1. j \in 1 .. Len(a)
      BY <1>2, <1>3, <1>4, <2>1
    <3>2. QED
      BY <1>2, <1>3, <1>4, <2>1, <3>1
  <2>2. CASE i \notin 1 .. Len(a)
    <3>1. j \notin 1 .. Len(a)
      BY <1>2, <1>3, <1>4, <2>2
    <3>2. i - Len(a) = j - Len(a)
      BY <1>2, <1>3, <1>4, <2>2, <3>1
    <3>3. QED
      BY <1>1, <3>2
  <2>3. QED
    BY <2>1, <2>2
<1>5. QED
  BY <1>1, <1>4 DEF IsInjective, c

(* Lists without repetition that share nothing are joined to such a list.    *)
LEMMA FlattenDisjoint ==
  ASSUME NEW S, NEW ss \in Seq(Seq(S)), ss # <<>>, Disjoint(ss),
         \A i \in DOMAIN ss : IsInjective(ss[i])
  PROVE  IsInjective(FlattenSeq(ss))
<1> DEFINE n == Len(ss)
<1>1. n \in Nat \ {0} /\ DOMAIN ss = 1 .. n /\ \A i \in 1 .. n : ss[i] \in Seq(S)
  OBVIOUS
<1>2. PICK h : Joins(h, S, ss)
  BY FlattenRuns
<1>3. /\ \A j \in 1 .. n : h[j] \in Seq(S)
      /\ h[1] = ss[1]
      /\ \A j \in 2 .. n : h[j] = h[j - 1] \o ss[j]
      /\ FlattenSeq(ss) = h[n]
  BY <1>2 DEF Joins
<1> HIDE DEF n
<1> DEFINE Apart(j) == IsInjective(h[j]) /\ \A i \in j + 1 .. n : ToSet(h[j]) \cap ToSet(ss[i]) = {}
           D == {j \in 0 .. n : j = 0 \/ Apart(j)}
           g == [j \in 0 .. n |-> j]
<1>4. \A j \in 0 .. n : g[j] = j
  OBVIOUS
<1> HIDE DEF g, Apart
<1>5. g[0] \in D
  BY <1>1, <1>4
<1>6. ASSUME NEW j \in 1 .. n, g[j - 1] \in D PROVE g[j] \in D
  <2>1. j - 1 \in 0 .. n /\ j \in 0 .. n /\ (j - 1 = 0 \/ Apart(j - 1))
    BY <1>1, <1>4, <1>6
  <2>2. \A i \in j + 1 .. n : i \in 1 .. n /\ i # j
    BY <1>1
  <2>3. \A i \in j + 1 .. n : ToSet(ss[j]) \cap ToSet(ss[i]) = {}
    BY <1>1, <2>2 DEF Disjoint
  <2>4. CASE j = 1
    <3>1. Apart(1)
      BY <1>1, <1>3, <2>3, <2>4 DEF Apart
    <3>2. QED
      BY <1>4, <2>1, <2>4, <3>1
  <2>5. CASE j # 1
    <3>1. j \in 2 .. n /\ j - 1 \in 1 .. n
      BY <1>1, <2>5
    <3>2. h[j] = h[j - 1] \o ss[j] /\ h[j - 1] \in Seq(S) /\ ss[j] \in Seq(S)
      BY <1>1, <1>3, <3>1
    <3>3. Apart(j - 1)
      BY <1>1, <2>1, <2>5
    <3>4. /\ IsInjective(h[j - 1])
          /\ ToSet(h[j - 1]) \cap ToSet(ss[j]) = {}
          /\ \A i \in j + 1 .. n : ToSet(h[j - 1]) \cap ToSet(ss[i]) = {}
      <4>1. j \in (j - 1) + 1 .. n /\ \A i \in j + 1 .. n : i \in (j - 1) + 1 .. n
        BY <1>1
      <4>2. QED
        BY <3>3, <4>1 DEF Apart
    <3>5. IsInjective(h[j])
      BY <1>1, <3>2, <3>4, InjectiveJoined
    <3>6. ToSet(h[j]) = ToSet(h[j - 1]) \cup ToSet(ss[j])
      BY <3>2, Joined
    <3>7. Apart(j)
      BY <2>3, <3>4, <3>5, <3>6 DEF Apart
    <3>8. QED
      BY <1>4, <2>1, <3>7
  <2>6. QED
    BY <2>4, <2>5
<1> HIDE DEF D
<1>7. \A j \in 0 .. n : g[j] \in D
  BY <1>1, <1>5, <1>6, Steps
<1>8. n \in D
  BY <1>1, <1>4, <1>7
<1>9. QED
  BY <1>1, <1>3, <1>8 DEF D, Apart

(* The k-th of a list in order has k - 1 before it.                          *)
LEMMA RankInOrder ==
  ASSUME NEW D \in SUBSET Int, IsFiniteSet(D), NEW s, InOrder(s, D), NEW k \in 1 .. Cardinality(D)
  PROVE  Cardinality({d \in D : d <= s[k]}) = k
<1> DEFINE m == Cardinality(D)
           A == {d \in D : d <= s[k]}
<1>1. m \in Nat
  BY FS_CardinalityType
<1>2. /\ DOMAIN s = 1 .. m /\ \A i \in 1 .. m : s[i] \in D
      /\ \A i, j \in 1 .. m : i < j => s[i] < s[j]
  BY DEF InOrder
<1>3. {s[i] : i \in DOMAIN s} = D
  BY SortedHasAll
<1>4. k \in 1 .. m
  OBVIOUS
<1> HIDE DEF m
<1>5. k \in Nat /\ \A i \in 1 .. k : i \in 1 .. m /\ (i < k \/ i = k)
  BY <1>1, <1>4
<1>6. \A i \in 1 .. m : s[i] \in Int
  BY <1>2
<1>7. \A i \in 1 .. k : s[i] \in A
  <2> TAKE i \in 1 .. k
  <2>1. i \in 1 .. m /\ (i < k \/ i = k)
    BY <1>5
  <2>2. s[i] < s[k] \/ i = k
    BY <1>2, <1>4, <2>1
  <2>3. s[i] <= s[k] /\ s[i] \in D
    BY <1>2, <1>4, <1>6, <2>1, <2>2
  <2>4. QED
    BY <2>3
<1>8. \A d \in A : \E i \in 1 .. k : s[i] = d
  <2> TAKE d \in A
  <2>1. d \in D /\ d <= s[k]
    OBVIOUS
  <2>2. PICK i \in 1 .. m : s[i] = d
    BY <1>2, <1>3, <2>1
  <2>3. k < i => s[k] < s[i]
    BY <1>2, <1>4
  <2>4. s[i] \in Int /\ s[k] \in Int
    BY <1>4, <1>6
  <2>5. ~ (k < i)
    BY <2>1, <2>2, <2>3, <2>4
  <2>6. i \in 1 .. k
    BY <1>1, <1>4, <2>5
  <2>7. QED
    BY <2>2, <2>6
<1>9. \A i, j \in 1 .. k : s[i] = s[j] => i = j
  <2> SUFFICES ASSUME NEW i \in 1 .. k, NEW j \in 1 .. k, s[i] = s[j], i # j
               PROVE  FALSE
    OBVIOUS
  <2>1. i \in 1 .. m /\ j \in 1 .. m /\ (i < j \/ j < i)
    BY <1>5
  <2>2. s[i] < s[j] \/ s[j] < s[i]
    BY <1>2, <2>1
  <2>3. s[i] \in Int /\ s[j] \in Int
    BY <1>6, <2>1
  <2>4. QED
    BY <2>2, <2>3
<1> HIDE DEF A
<1>10. Cardinality(A) = k
  BY <1>5, <1>7, <1>8, <1>9, Enumerated
<1>11. QED
  BY <1>10 DEF A

(* What is selected is what is kept.                                         *)
LEMMA SelectedIsKept ==
  ASSUME NEW S, NEW l \in Seq(S), NEW sel, NEW keep, Selects(sel, l, keep), NEW k \in DOMAIN sel
  PROVE  sel[k] \in keep
<1> DEFINE n == Len(l)
           at == {i \in DOMAIN l : l[i] \in keep}
           Upto(i) == Cardinality({j \in at : j <= i})
<1>1. n \in Nat /\ DOMAIN l = 1 .. n
  OBVIOUS
<1>2. /\ DOMAIN sel = 1 .. Cardinality(at)
      /\ \A i \in at : sel[Upto(i)] = l[i]
  BY DEF Selects
<1>3. at \in SUBSET (0 + 1 .. 0 + n) /\ 0 \in Int
  BY <1>1
<1>4. \A i \in at : l[i] \in keep
  OBVIOUS
<1> HIDE DEF n, at
<1>5. IsFiniteSet(at) /\ \E s : InOrder(s, at)
  BY <1>1, <1>3, Sorted
<1>6. PICK s : InOrder(s, at)
  BY <1>5
<1>7. at \in SUBSET Int
  BY <1>1, <1>3
<1>8. k \in 1 .. Cardinality(at)
  BY <1>2
<1>9. Upto(s[k]) = k
  BY <1>5, <1>6, <1>7, <1>8, RankInOrder
<1>10. s[k] \in at
  BY <1>6, <1>8 DEF InOrder
<1> HIDE DEF Upto
<1>11. sel[k] = l[s[k]]
  BY <1>2, <1>9, <1>10
<1>12. QED
  BY <1>4, <1>10, <1>11

LEMMA FlattenNone == FlattenSeq(<<>>) = <<>>
BY DEF FlattenSeq

(* The elements of lists that are joined.                                    *)
LEMMA FlattenAll ==
  ASSUME NEW S, NEW ss \in Seq(Seq(S))
  PROVE  /\ FlattenSeq(ss) \in Seq(S)
         /\ ToSet(FlattenSeq(ss)) = UNION {ToSet(ss[i]) : i \in DOMAIN ss}
         /\ Disjoint(ss) /\ (\A i \in DOMAIN ss : IsInjective(ss[i])) => IsInjective(FlattenSeq(ss))
<1>1. CASE ss = <<>>
  <2>1. FlattenSeq(ss) = <<>> /\ DOMAIN ss = {} /\ <<>> \in Seq(S)
    BY <1>1, FlattenNone
  <2>2. ToSet(<<>>) = {} /\ IsInjective(<<>>)
    BY DEF ToSet, IsInjective
  <2>3. QED
    BY <2>1, <2>2
<1>2. CASE ss # <<>>
  <2>1. DOMAIN ss = 1 .. Len(ss)
    OBVIOUS
  <2>2. ToSet(FlattenSeq(ss)) = UNION {ToSet(ss[i]) : i \in 1 .. Len(ss)}
    BY <1>2, FlattenElements
  <2>3. FlattenSeq(ss) \in Seq(S)
    <3>1. PICK h : Joins(h, S, ss)
      BY <1>2, FlattenRuns
    <3>2. Len(ss) \in 1 .. Len(ss)
      <4>1. Len(ss) \in Nat /\ Len(ss) # 0
        BY <1>2
      <4>2. QED
        BY <4>1
    <3>3. QED
      BY <3>1, <3>2 DEF Joins
  <2>4. Disjoint(ss) /\ (\A i \in DOMAIN ss : IsInjective(ss[i])) => IsInjective(FlattenSeq(ss))
    BY <1>2, FlattenDisjoint
  <2>5. QED
    BY <2>1, <2>2, <2>3, <2>4
<1>3. QED
  BY <1>1, <1>2

----------------------------------------------------------------------------
(* Lists of positions, and of what stands there.                            *)

(* f lists the numbers of P in order. *)
Enumerates(f, m, P) ==
  /\ m \in Nat /\ f \in [1 .. m -> P]
  /\ \A j, k \in 1 .. m : j < k => f[j] < f[k]
  /\ \A p \in P : \E k \in 1 .. m : f[k] = p

(* As far as two such lists go, they agree.                                 *)
LEMMA EnumeratedSoFar ==
  ASSUME NEW P \in SUBSET Int, NEW f, NEW g, NEW m, NEW n, Enumerates(f, m, P), Enumerates(g, n, P)
  PROVE  \A j \in 0 .. m : j <= n /\ \A i \in 1 .. j : f[i] = g[i]
<1>1. m \in Nat /\ n \in Nat /\ f \in [1 .. m -> P] /\ g \in [1 .. n -> P]
  BY DEF Enumerates
<1>2. /\ \A j, k \in 1 .. m : j < k => f[j] < f[k]
      /\ \A j, k \in 1 .. n : j < k => g[j] < g[k]
      /\ \A p \in P : \E k \in 1 .. m : f[k] = p
      /\ \A p \in P : \E k \in 1 .. n : g[k] = p
  BY DEF Enumerates
<1>0. /\ \A k \in 1 .. m : f[k] \in P /\ f[k] \in Int
      /\ \A k \in 1 .. n : g[k] \in P /\ g[k] \in Int
  BY <1>1
<1> DEFINE D == {j \in 0 .. m : j <= n /\ \A i \in 1 .. j : f[i] = g[i]}
           h == [j \in 0 .. m |-> j]
<1>3. \A j \in 0 .. m : h[j] = j
  OBVIOUS
<1> HIDE DEF h
<1>4. h[0] \in D
  BY <1>1, <1>3
<1>5. ASSUME NEW j \in 1 .. m, h[j - 1] \in D PROVE h[j] \in D
  <2>1. j - 1 \in 0 .. m /\ j \in 0 .. m /\ j - 1 <= n /\ \A i \in 1 .. j - 1 : f[i] = g[i]
    BY <1>1, <1>3, <1>5
  <2>2. f[j] \in P /\ f[j] \in Int
    BY <1>0
  <2>3. PICK i \in 1 .. n : g[i] = f[j]
    BY <1>2, <2>2
  <2>4. i >= j
    <3>1. SUFFICES ASSUME i < j PROVE FALSE
      BY <2>3
    <3>2. i \in 1 .. m /\ i \in 1 .. j - 1
      BY <1>1, <3>1
    <3>3. f[i] = g[i] /\ f[i] < f[j]
      BY <1>2, <2>1, <3>1, <3>2
    <3>4. QED
      BY <2>2, <2>3, <3>3
  <2>5. j \in 1 .. n /\ g[j] \in P /\ g[j] \in Int
    <3>1. j \in 1 .. n
      BY <1>1, <2>4
    <3>2. QED
      BY <1>0, <3>1
  <2>6. PICK k \in 1 .. m : f[k] = g[j]
    BY <1>2, <2>5
  <2>7. k >= j
    <3>1. SUFFICES ASSUME k < j PROVE FALSE
      BY <2>6
    <3>2. k \in 1 .. n /\ k \in 1 .. j - 1
      BY <1>1, <2>5, <3>1
    <3>3. f[k] = g[k] /\ g[k] < g[j]
      BY <1>2, <2>1, <2>5, <3>1, <3>2
    <3>4. QED
      BY <2>5, <2>6, <3>3
  <2>8. g[j] <= g[i]
    BY <1>2, <2>2, <2>3, <2>4, <2>5
  <2>9. f[j] <= f[k]
    BY <1>2, <2>2, <2>5, <2>6, <2>7
  <2>10. f[j] = g[j]
    BY <2>2, <2>3, <2>5, <2>6, <2>8, <2>9
  <2>11. QED
    BY <1>3, <2>1, <2>5, <2>10
<1>6. \A j \in 0 .. m : h[j] \in D
  <2> HIDE DEF D
  <2> QED BY <1>1, <1>4, <1>5, Steps
<1>7. QED
  BY <1>3, <1>6

(* There is one such list.                                                  *)
LEMMA EnumeratedOnce ==
  ASSUME NEW P \in SUBSET Int, NEW f, NEW g, NEW m, NEW n, Enumerates(f, m, P), Enumerates(g, n, P)
  PROVE  m = n /\ \A i \in 1 .. m : f[i] = g[i]
<1>1. m \in Nat /\ n \in Nat
  BY DEF Enumerates
<1>2. m <= n /\ \A i \in 1 .. m : f[i] = g[i]
  <2>1. m \in 0 .. m
    BY <1>1
  <2>2. QED
    BY <2>1, EnumeratedSoFar
<1>3. n <= m
  <2>1. n \in 0 .. n
    BY <1>1
  <2>2. QED
    BY <2>1, EnumeratedSoFar
<1>4. QED
  BY <1>1, <1>2, <1>3

(* The loop makes it of the indices it keeps.                               *)
LEMMA EnumeratedList ==
  ASSUME NEW n \in Nat, NEW P
  PROVE  \E f : /\ Enumerates(f, Len(Keeping([i \in 1 .. n |-> i], P)), P \cap (1 .. n))
                /\ Keeping([i \in 1 .. n |-> i], P) = f
<1> DEFINE l == [i \in 1 .. n |-> i]
           f == Keeping(l, P)
           m == Len(f)
<1>1. l \in Seq(Int) /\ Len(l) = n /\ \A i \in 1 .. n : l[i] = i
  OBVIOUS
<1> HIDE DEF l
<1>2. f \in Seq(Int) /\ \E g : Picks(g, f, l, P, n)
  BY <1>1, KeepingPicks
<1>3. PICK g : Picks(g, f, l, P, n)
  BY <1>2
<1> HIDE DEF f
<1>4. m \in Nat /\ f \in [1 .. m -> Int]
  BY <1>2
<1>5. /\ g \in [1 .. m -> 1 .. n]
      /\ \A j, k \in 1 .. m : j < k => g[j] < g[k]
      /\ \A k \in 1 .. m : f[k] = l[g[k]] /\ l[g[k]] \in P
      /\ \A i \in 1 .. n : l[i] \in P => \E k \in 1 .. m : g[k] = i
  BY <1>3 DEF Picks
<1> HIDE DEF m
<1>6. \A k \in 1 .. m : g[k] \in 1 .. n /\ f[k] = g[k] /\ g[k] \in P
  BY <1>1, <1>5
<1>7. f \in [1 .. m -> P \cap (1 .. n)]
  BY <1>4, <1>6
<1>8. \A j, k \in 1 .. m : j < k => f[j] < f[k]
  BY <1>5, <1>6
<1>9. \A p \in P \cap (1 .. n) : \E k \in 1 .. m : f[k] = p
  BY <1>1, <1>5, <1>6
<1>10. Enumerates(f, m, P \cap (1 .. n))
  BY <1>4, <1>7, <1>8, <1>9 DEF Enumerates
<1>11. QED
  BY <1>10 DEF m, f, l

(* One more at the end of a list.                                           *)
More(l, x) == Append(l, x)

(* It is one more at the end of the list joined last.                       *)
LEMMA OneMoreJoined ==
  ASSUME NEW S, NEW p \in Seq(S), NEW q \in Seq(S), NEW x \in S
  PROVE  More(Join(p, q), x) = Join(p, More(q, x))
<1> DEFINE m == Len(p)
           n == Len(q)
           s == p \o q
           t == Append(q, x)
           a == Append(s, x)
           b == p \o t
<1>1. /\ m \in Nat /\ n \in Nat /\ s \in Seq(S) /\ Len(s) = m + n
      /\ \A i \in 1 .. m : s[i] = p[i]
      /\ \A i \in 1 .. n : s[m + i] = q[i]
  OBVIOUS
<1>2. t \in Seq(S) /\ Len(t) = n + 1 /\ t[n + 1] = x /\ \A i \in 1 .. n : t[i] = q[i]
  OBVIOUS
<1> HIDE DEF s, t
<1>3. /\ a \in Seq(S) /\ Len(a) = m + n + 1 /\ a[m + n + 1] = x
      /\ \A i \in 1 .. m + n : a[i] = s[i]
  BY <1>1
<1>4. /\ b \in Seq(S) /\ Len(b) = m + (n + 1)
      /\ \A i \in 1 .. m : b[i] = p[i]
      /\ \A i \in 1 .. n + 1 : b[m + i] = t[i]
  BY <1>1, <1>2
<1> HIDE DEF a, b, m, n
<1>5. ASSUME NEW i \in 1 .. m + n + 1 PROVE a[i] = b[i]
  <2>1. CASE i \in 1 .. m
    <3>1. i \in 1 .. m + n
      BY <1>1, <2>1
    <3>2. QED
      BY <1>1, <1>3, <1>4, <2>1, <3>1
  <2>2. CASE i \in m + 1 .. m + n
    <3>1. i \in 1 .. m + n /\ i - m \in 1 .. n /\ i - m \in 1 .. n + 1 /\ m + (i - m) = i
      BY <1>1, <2>2
    <3>2. s[m + (i - m)] = q[i - m] /\ b[m + (i - m)] = t[i - m] /\ t[i - m] = q[i - m]
      BY <1>1, <1>2, <1>4, <3>1
    <3>3. QED
      BY <1>3, <3>1, <3>2
  <2>3. CASE i = m + n + 1
    <3>1. n + 1 \in 1 .. n + 1 /\ m + (n + 1) = i
      BY <1>1, <2>3
    <3>2. b[m + (n + 1)] = x
      BY <1>2, <1>4, <3>1
    <3>3. QED
      BY <1>3, <2>3, <3>1, <3>2
  <2>4. QED
    BY <1>1, <2>1, <2>2, <2>3
<1>6. m + (n + 1) = m + n + 1
  BY <1>1
<1>7. a = b
  BY <1>3, <1>4, <1>5, <1>6
<1>8. QED
  BY <1>7 DEF a, b, s, t, Join, More

(* A loop over two lists is one over the first, then one over the second.   *)
LEMMA KeepingJoined ==
  ASSUME NEW S, NEW a \in Seq(S), NEW b \in Seq(S), NEW keep
  PROVE  Keeping(a \o b, keep) = Keeping(a, keep) \o Keeping(b, keep)
<1> DEFINE c == a \o b
           m == Len(a)
           n == Len(b)
<1>1. /\ c \in Seq(S) /\ Len(c) = m + n /\ m \in Nat /\ n \in Nat
      /\ \A i \in 1 .. m : c[i] = a[i]
      /\ \A i \in 1 .. n : c[m + i] = b[i]
  OBVIOUS
<1>0. /\ \A i \in 1 .. m : a[i] \in S
      /\ \A i \in 1 .. n : b[i] \in S
  OBVIOUS
<1> HIDE DEF c
<1>2. PICK f : Keeps(f, S, a, keep)
  BY KeepingRuns
<1>3. PICK g : Keeps(g, S, b, keep)
  BY KeepingRuns
<1>4. PICK h : Keeps(h, S, c, keep)
  BY <1>1, KeepingRuns
<1>5. /\ f \in [0 .. m -> Seq(S)] /\ f[0] = <<>> /\ Keeping(a, keep) = f[m]
      /\ \A j \in 1 .. m : f[j] = IF a[j] \in keep THEN Append(f[j - 1], a[j]) ELSE f[j - 1]
  BY <1>2 DEF Keeps
<1>6. /\ g \in [0 .. n -> Seq(S)] /\ g[0] = <<>> /\ Keeping(b, keep) = g[n]
      /\ \A j \in 1 .. n : g[j] = IF b[j] \in keep THEN Append(g[j - 1], b[j]) ELSE g[j - 1]
  BY <1>3 DEF Keeps
<1>7. /\ h[0] = <<>> /\ Keeping(c, keep) = h[m + n]
      /\ \A j \in 1 .. m + n : h[j] = IF c[j] \in keep THEN Append(h[j - 1], c[j]) ELSE h[j - 1]
  BY <1>1, <1>4 DEF Keeps
<1> HIDE DEF m, n
<1> DEFINE D == {j \in 0 .. m : h[j] = f[j]}
           k == [j \in 0 .. m |-> j]
<1>8. h[m] = f[m]
  <2>1. \A j \in 0 .. m : k[j] = j
    OBVIOUS
  <2> HIDE DEF k
  <2>2. k[0] \in D
    BY <1>1, <1>5, <1>7, <2>1
  <2>3. ASSUME NEW j \in 1 .. m, k[j - 1] \in D PROVE k[j] \in D
    <3>1. j \in 0 .. m /\ j - 1 \in 0 .. m /\ j \in 1 .. m + n
      BY <1>1
    <3>2. h[j - 1] = f[j - 1]
      BY <2>1, <2>3, <3>1
    <3>3. h[j] = f[j]
      BY <1>1, <1>5, <1>7, <3>1, <3>2
    <3>4. QED
      BY <2>1, <3>1, <3>3
  <2>4. \A j \in 0 .. m : k[j] \in D
    <3> HIDE DEF D
    <3> QED BY <1>1, <2>2, <2>3, Steps
  <2>5. m \in 0 .. m
    BY <1>1
  <2>6. QED
    BY <2>1, <2>4, <2>5
<1> HIDE DEF D, k
<1> DEFINE E == {j \in 0 .. n : h[m + j] = f[m] \o g[j]}
           l == [j \in 0 .. n |-> j]
<1>9. h[m + n] = f[m] \o g[n]
  <2>1. \A j \in 0 .. n : l[j] = j
    OBVIOUS
  <2> HIDE DEF l
  <2>2. f[m] \in Seq(S)
    BY <1>1, <1>5
  <2>3. l[0] \in E
    <3>1. 0 \in 0 .. n /\ m + 0 = m
      BY <1>1
    <3>2. f[m] \o <<>> = f[m]
      BY <2>2
    <3>3. QED
      BY <1>6, <1>8, <2>1, <3>1, <3>2
  <2>4. ASSUME NEW j \in 1 .. n, l[j - 1] \in E PROVE l[j] \in E
    <3>1. j \in 0 .. n /\ j - 1 \in 0 .. n /\ m + j \in 1 .. m + n /\ (m + j) - 1 = m + (j - 1)
      BY <1>1
    <3>2. h[m + (j - 1)] = f[m] \o g[j - 1]
      BY <2>1, <2>4, <3>1
    <3>3. g[j - 1] \in Seq(S) /\ b[j] \in S
      BY <1>0, <1>6, <3>1 DEF n
    <3>4. c[m + j] = b[j]
      BY <1>1
    <3>5. h[m + j] = IF b[j] \in keep THEN Append(f[m] \o g[j - 1], b[j]) ELSE f[m] \o g[j - 1]
      BY <1>7, <3>1, <3>2, <3>4
    <3>6. Append(f[m] \o g[j - 1], b[j]) = f[m] \o Append(g[j - 1], b[j])
      <4>1. More(Join(f[m], g[j - 1]), b[j]) = Join(f[m], More(g[j - 1], b[j]))
        BY <2>2, <3>3, OneMoreJoined
      <4>2. QED
        BY <4>1 DEF Join, More
    <3>7. h[m + j] = f[m] \o g[j]
      BY <1>6, <3>5, <3>6
    <3>8. QED
      BY <2>1, <3>1, <3>7
  <2>5. \A j \in 0 .. n : l[j] \in E
    <3> HIDE DEF E
    <3> QED BY <1>1, <2>3, <2>4, Steps
  <2>6. n \in 0 .. n
    BY <1>1
  <2>7. QED
    BY <2>1, <2>5, <2>6
<1>10. QED
  BY <1>5, <1>6, <1>7, <1>9 DEF c

(* A loop that keeps everything copies the list.                            *)
LEMMA KeepingAll ==
  ASSUME NEW S, NEW l \in Seq(S), NEW keep, \A i \in 1 .. Len(l) : l[i] \in keep
  PROVE  Keeping(l, keep) = l
<1> DEFINE n == Len(l)
<1>1. PICK h : Keeps(h, S, l, keep)
  BY KeepingRuns
<1>2. /\ h \in [0 .. n -> Seq(S)] /\ h[0] = <<>> /\ Keeping(l, keep) = h[n]
      /\ \A j \in 1 .. n : h[j] = IF l[j] \in keep THEN Append(h[j - 1], l[j]) ELSE h[j - 1]
  BY <1>1 DEF Keeps
<1>3. n \in Nat /\ \A j \in 1 .. n : l[j] \in S
  OBVIOUS
<1> HIDE DEF n
<1> DEFINE D == {j \in 0 .. n : Len(h[j]) = j /\ \A i \in 1 .. j : h[j][i] = l[i]}
           k == [j \in 0 .. n |-> j]
<1>4. \A j \in 0 .. n : k[j] = j
  OBVIOUS
<1> HIDE DEF k
<1>5. k[0] \in D
  BY <1>2, <1>3, <1>4
<1>6. ASSUME NEW j \in 1 .. n, k[j - 1] \in D PROVE k[j] \in D
  <2>1. j \in 0 .. n /\ j - 1 \in 0 .. n /\ j - 1 \in Nat
    BY <1>3
  <2>2. h[j - 1] \in Seq(S) /\ Len(h[j - 1]) = j - 1 /\ \A i \in 1 .. j - 1 : h[j - 1][i] = l[i]
    BY <1>2, <1>4, <1>6, <2>1
  <2>3. h[j] = Append(h[j - 1], l[j]) /\ l[j] \in S
    BY <1>2, <1>3 DEF n
  <2>4. Len(h[j]) = j /\ \A i \in 1 .. j : h[j][i] = l[i]
    BY <2>1, <2>2, <2>3
  <2>5. QED
    BY <1>4, <2>1, <2>4
<1>7. \A j \in 0 .. n : k[j] \in D
  <2> HIDE DEF D
  <2> QED BY <1>3, <1>5, <1>6, Steps
<1>8. n \in 0 .. n
  BY <1>3
<1>9. h[n] \in Seq(S) /\ Len(h[n]) = n /\ \A i \in 1 .. n : h[n][i] = l[i]
  BY <1>2, <1>4, <1>7, <1>8
<1>10. h[n] = l
  BY <1>9 DEF n
<1>11. QED
  BY <1>2, <1>10

(* What a list begins with.                                                 *)
Begins(a, b) == Len(a) <= Len(b) /\ \A i \in 1 .. Len(a) : b[i] = a[i]

(* Two lists that are joined, element by element.                           *)
LEMMA BeginsJoined ==
  ASSUME NEW S, NEW a \in Seq(S), NEW b \in Seq(S)
  PROVE  /\ a \o b \in Seq(S)
         /\ Len(a \o b) = Len(a) + Len(b)
         /\ \A i \in 1 .. Len(b) : (a \o b)[Len(a) + i] = b[i]
         /\ Begins(a, a \o b)
BY DEF Begins

(* What is joined first is at the front.                                     *)
LEMMA BeginsFlattened ==
  ASSUME NEW S, NEW ss \in Seq(Seq(S)), ss # <<>>, NEW h, Joins(h, S, ss)
  PROVE  \A j \in 1 .. Len(ss) : Begins(h[j], h[Len(ss)])
<1> DEFINE n == Len(ss)
<1>1. n \in Nat \ {0} /\ \A i \in 1 .. n : ss[i] \in Seq(S)
  OBVIOUS
<1>2. /\ \A j \in 1 .. n : h[j] \in Seq(S)
      /\ \A j \in 2 .. n : h[j] = h[j - 1] \o ss[j]
  BY DEF Joins
<1> HIDE DEF n
<1> DEFINE D == {j \in 0 .. n : \A k \in 1 .. j : Begins(h[k], h[j])}
           g == [j \in 0 .. n |-> j]
<1>3. \A j \in 0 .. n : g[j] = j
  OBVIOUS
<1> HIDE DEF g
<1>4. g[0] \in D
  BY <1>1, <1>3
<1>5. ASSUME NEW j \in 1 .. n, g[j - 1] \in D PROVE g[j] \in D
  <2>1. j - 1 \in 0 .. n /\ j \in 0 .. n /\ j \in Nat
    BY <1>1
  <2>2. \A k \in 1 .. j - 1 : Begins(h[k], h[j - 1])
    BY <1>3, <1>5, <2>1
  <2>3. Begins(h[j], h[j])
    <3>1. h[j] \in Seq(S)
      BY <1>2
    <3>2. QED
      BY <3>1 DEF Begins
  <2>4. CASE j = 1
    <3>1. \A k \in 1 .. j : k = j
      BY <2>4
    <3>2. QED
      BY <1>3, <2>1, <2>3, <3>1
  <2>5. CASE j # 1
    <3>1. j \in 2 .. n /\ j - 1 \in 1 .. n
      BY <1>1, <2>5
    <3>2. h[j] = h[j - 1] \o ss[j] /\ h[j - 1] \in Seq(S) /\ ss[j] \in Seq(S)
      BY <1>1, <1>2, <3>1
    <3>3. Len(h[j - 1]) \in Nat /\ Begins(h[j - 1], h[j])
      <4>1. Len(h[j - 1]) \in Nat
        BY <3>2
      <4>2. Begins(h[j - 1], h[j - 1] \o ss[j])
        BY <3>2, BeginsJoined
      <4>3. QED
        BY <3>2, <4>1, <4>2
    <3>4. ASSUME NEW k \in 1 .. j - 1 PROVE Begins(h[k], h[j])
      <4>1. k \in 1 .. n /\ Begins(h[k], h[j - 1])
        BY <1>1, <2>2
      <4>2. h[k] \in Seq(S) /\ h[j] \in Seq(S)
        BY <1>2, <4>1
      <4>3. Len(h[k]) \in Nat /\ Len(h[j]) \in Nat
        BY <4>2
      <4>4. \A i \in 1 .. Len(h[k]) : i \in 1 .. Len(h[j - 1])
        BY <3>3, <4>1, <4>3 DEF Begins
      <4>5. \A i \in 1 .. Len(h[k]) : h[j - 1][i] = h[k][i] /\ h[j][i] = h[j - 1][i]
        BY <3>3, <4>1, <4>4 DEF Begins
      <4>6. Len(h[k]) <= Len(h[j - 1]) /\ Len(h[j - 1]) <= Len(h[j])
        BY <3>3, <4>1 DEF Begins
      <4>7. Len(h[k]) <= Len(h[j])
        BY <3>3, <4>3, <4>6
      <4>8. QED
        BY <4>5, <4>7 DEF Begins
    <3>5. \A k \in 1 .. j : k = j \/ k \in 1 .. j - 1
      BY <2>1
    <3>6. QED
      BY <1>3, <2>1, <2>3, <3>4, <3>5
  <2>6. QED
    BY <2>4, <2>5
<1>6. \A j \in 0 .. n : g[j] \in D
  <2> HIDE DEF D
  <2> QED BY <1>1, <1>4, <1>5, Steps
<1>7. n \in 0 .. n
  BY <1>1
<1>8. n \in D
  <2> HIDE DEF D
  <2> QED BY <1>3, <1>6, <1>7
<1>9. QED
  BY <1>8 DEF n

(* The least index of x.                                                    *)
FirstAt(u, x) == SelectInSeq(u, LAMBDA c : c = x)

(* Where the first x is, when there is none before what begins with one.     *)
LEMMA FirstOne ==
  ASSUME NEW S, NEW b \in Seq(S), NEW o \in Seq(S), NEW a \in Seq(S), NEW x,
         \A i \in 1 .. Len(b) : b[i] # x, Len(o) # 0, o[1] = x
  PROVE  LET u == (b \o o) \o a
             rest == SubSeq(u, FirstAt(u, x), Len(u))
         IN  FirstAt(u, x) # 0 /\ rest \in Seq(S) /\ Begins(o, rest)
<1> DEFINE v == b \o o
           u == v \o a
           start == FirstAt(u, x)
           I == {i \in 1 .. Len(u) : u[i] = x}
           m == Len(b)
           n == Len(o)
<1>1. v \in Seq(S) /\ Len(v) = m + n /\ (\A i \in 1 .. n : v[m + i] = o[i]) /\ Begins(b, v)
  BY BeginsJoined
<1>2. m \in Nat /\ n \in Nat /\ n # 0 /\ Len(a) \in Nat
  OBVIOUS
<1>3. v \in Seq(S)
  BY <1>1
<1> HIDE DEF v
<1>4. u \in Seq(S) /\ Len(u) = Len(v) + Len(a) /\ Begins(v, u)
  BY <1>3, BeginsJoined
<1> HIDE DEF u
<1>5. \A i \in 1 .. m + n : u[i] = v[i] /\ i \in 1 .. Len(u)
  BY <1>1, <1>2, <1>4 DEF Begins
<1>6. \A i \in 1 .. m : u[i] = b[i]
  <2> TAKE i \in 1 .. m
  <2>1. i \in 1 .. m + n
    BY <1>2
  <2>2. v[i] = b[i]
    BY <1>1 DEF Begins
  <2>3. QED
    BY <1>5, <2>1, <2>2
<1>7. \A i \in 1 .. n : u[m + i] = o[i] /\ m + i \in 1 .. m + n
  <2> TAKE i \in 1 .. n
  <2>1. m + i \in 1 .. m + n
    BY <1>2
  <2>2. QED
    BY <1>1, <1>5, <2>1
<1>8. m + 1 \in I
  <2>1. 1 \in 1 .. n
    BY <1>2
  <2>2. u[m + 1] = o[1] /\ m + 1 \in 1 .. m + n
    BY <1>7, <2>1
  <2>3. m + 1 \in 1 .. Len(u)
    BY <1>5, <2>2
  <2>4. QED
    BY <2>2, <2>3
<1>9. \A i \in I : m + 1 <= i
  <2> TAKE i \in I
  <2>1. i \in Int /\ i >= 1 /\ u[i] = x
    OBVIOUS
  <2>2. i \notin 1 .. m
    BY <1>6, <2>1
  <2>3. QED
    BY <1>2, <2>1, <2>2
<1>10. I \subseteq Int
  OBVIOUS
<1>11. start = IF I # {} THEN Min(I) ELSE 0
  BY Zenon DEF FirstAt, SelectInSeq
<1> HIDE DEF I, start
<1>12. start = m + 1
  <2>1. Min(I) \in I /\ \A i \in I : Min(I) <= i
    BY <1>8, <1>9 DEF Min
  <2>2. Min(I) \in Int /\ Min(I) <= m + 1 /\ m + 1 <= Min(I)
    BY <1>8, <1>9, <1>10, <2>1
  <2>3. Min(I) = m + 1
    BY <1>2, <2>2
  <2>4. QED
    BY <1>8, <1>11, <2>3
<1> DEFINE rest == SubSeq(u, m + 1, Len(u))
           l == Len(u)
<1>13. l \in Nat /\ m + n <= l
  BY <1>1, <1>2, <1>4
<1>14. /\ rest \in Seq(S) /\ Len(rest) = l - m
       /\ \A i \in 1 .. l - m : rest[i] = u[m + i]
  <2>1. m + 1 \in 1 .. l + 1
    BY <1>2, <1>13
  <2>2. rest \in Seq(S)
    BY <1>2, <1>4, <1>13
  <2>3. Len(rest) = l - m
    BY <1>2, <1>4, <1>13
  <2>4. \A i \in 1 .. l - m : rest[i] = u[m + i]
    BY <1>2, <1>4, <1>13
  <2>5. QED
    BY <2>2, <2>3, <2>4
<1> HIDE DEF rest
<1>15. Begins(o, rest)
  <2> HIDE DEF m, n, l
  <2>1. n <= l - m /\ \A i \in 1 .. n : i \in 1 .. l - m
    BY <1>2, <1>13
  <2>2. \A i \in 1 .. n : rest[i] = o[i]
    BY <1>7, <1>14, <2>1
  <2>3. QED
    BY <1>14, <2>1, <2>2 DEF Begins, n
<1>16. start # 0
  BY <1>2, <1>12
<1>17. SubSeq(u, start, Len(u)) = rest
  BY <1>12 DEF rest
<1>18. start # 0 /\ SubSeq(u, start, Len(u)) \in Seq(S) /\ Begins(o, SubSeq(u, start, Len(u)))
  BY <1>14, <1>15, <1>16, <1>17
<1>19. QED
  BY <1>18 DEF start, u, v

=============================================================================
