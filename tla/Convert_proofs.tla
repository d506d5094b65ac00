--------------------------- MODULE Convert_proofs ---------------------------
(***************************************************************************)
(* The conversion, for every input: each track comes out whole and in      *)
(* order, the header, which is written first, says where, and a file that  *)
(* lacks a sample is refused.                                              *)
(***************************************************************************)
EXTENDS Convert, GopCut_proofs

-----------------------------------------------------------------------------
(* Recursion over the numbers from lo to hi.                               *)

\* What the first value is and a value leaves to the next, all values are.
LEMMA PrefixInduction ==
  ASSUME NEW lo \in Nat, NEW hi \in Nat, NEW nx, nx = lo + 1, NEW A, NEW f,
         f[lo] \in A,
         \A n \in nx..hi : f[n - 1] \in A => f[n] \in A
  PROVE  \A n \in lo..hi : f[n] \in A
<1> DEFINE Q == {k \in Nat : lo + k <= hi => f[lo + k] \in A}
<1>1. 0 \in Q
  OBVIOUS
<1>2. ASSUME NEW k \in Q PROVE k + 1 \in Q
  <2> SUFFICES ASSUME lo + (k + 1) <= hi PROVE f[lo + (k + 1)] \in A
    OBVIOUS
  <2> DEFINE m == lo + (k + 1)
  <2>1. k \in Nat /\ m \in nx..hi /\ m - 1 = lo + k
    OBVIOUS
  <2>2. f[m - 1] \in A
    BY <2>1
  <2> QED
    BY <2>1, <2>2
<1>3. Nat \subseteq Q
  <2>1. Q \in SUBSET Nat
    OBVIOUS
  <2> HIDE DEF Q
  <2> QED
    BY <1>1, <1>2, <2>1, SetInduction
<1>4. ASSUME NEW n \in lo..hi PROVE f[n] \in A
  <2>1. n - lo \in Nat /\ n = lo + (n - lo)
    OBVIOUS
  <2>2. n - lo \in Q
    BY <1>3, <2>1
  <2> QED
    BY <2>1, <2>2
<1> QED
  BY <1>4

\* The first value is given, another follows from the one before it.
Steps(lo, hi, A, base, st) ==
  /\ lo \in Nat /\ hi \in Nat /\ lo <= hi
  /\ base \in A
  /\ st \in [(lo + 1)..hi -> [A -> A]]

Follows(f, lo, hi, A, base, st) ==
  /\ f \in [lo..hi -> A]
  /\ f[lo] = base
  /\ \A n \in (lo + 1)..hi : f[n] = st[n][f[n - 1]]

LEMMA PrefixRecursion ==
  ASSUME NEW lo, NEW hi, NEW A, NEW base, NEW st, Steps(lo, hi, A, base, st)
  PROVE  \E f : Follows(f, lo, hi, A, base, st)
<1>0. /\ lo \in Nat /\ hi \in Nat /\ lo <= hi
      /\ base \in A
      /\ st \in [(lo + 1)..hi -> [A -> A]]
  BY DEF Steps
<1> DEFINE At(f, n) == f[n] = IF n = lo THEN base ELSE st[n][f[n - 1]]
           P == {k \in Nat : lo + k <= hi =>
                   \E f \in [lo..hi -> A] : \A n \in lo..(lo + k) : At(f, n)}
<1>1. 0 \in P
  <2> DEFINE g == [n \in lo..hi |-> base]
  <2>1. g \in [lo..hi -> A] /\ \A n \in lo..(lo + 0) : n = lo /\ g[n] = base
    BY <1>0
  <2> QED
    BY <2>1
<1>2. ASSUME NEW k \in P PROVE k + 1 \in P
  <2> SUFFICES ASSUME lo + (k + 1) <= hi
               PROVE  \E f \in [lo..hi -> A] : \A n \in lo..(lo + (k + 1)) : At(f, n)
    OBVIOUS
  <2>0. k \in Nat /\ lo + k <= hi /\ lo \in Nat /\ hi \in Nat
    BY <1>0
  <2>1. PICK f \in [lo..hi -> A] : \A n \in lo..(lo + k) : At(f, n)
    BY <2>0
  <2> DEFINE m == lo + (k + 1)
             g == [f EXCEPT ![m] = st[m][f[m - 1]]]
  <2>2. m \in lo..hi /\ m - 1 \in lo..hi /\ m \in (lo + 1)..hi
    BY <2>0
  <2>3. st[m][f[m - 1]] \in A
    BY <1>0, <2>2
  <2>4. g \in [lo..hi -> A]
    BY <2>3
  <2>5. ASSUME NEW n \in lo..m PROVE At(g, n)
    <3>1. CASE n = m
      <4>1. g[m] = st[m][f[m - 1]] /\ g[m - 1] = f[m - 1]
        BY <2>2
      <4> QED
        BY <2>2, <3>1, <4>1
    <3>2. CASE n # m
      <4>1. n \in lo..(lo + k) /\ n \in lo..hi /\ (n # lo => n - 1 \in lo..hi /\ n - 1 # m)
        BY <2>0, <3>2
      <4>2. g[n] = f[n] /\ (n # lo => g[n - 1] = f[n - 1])
        BY <2>2, <3>2, <4>1
      <4>3. At(f, n)
        BY <2>1, <4>1
      <4> QED
        BY <4>2, <4>3
    <3> QED
      BY <3>1, <3>2
  <2> HIDE DEF At, g
  <2> QED
    BY <2>4, <2>5
<1>3. hi - lo \in P
  <2>1. P \in SUBSET Nat /\ hi - lo \in Nat
    BY <1>0
  <2> HIDE DEF P
  <2> QED
    BY <1>1, <1>2, <2>1, SetInduction
<1>4. PICK f \in [lo..hi -> A] : \A n \in lo..(lo + (hi - lo)) : At(f, n)
  <2>1. lo + (hi - lo) <= hi
    BY <1>0
  <2> HIDE DEF At
  <2> QED
    BY <1>3, <2>1
<1>5. f[lo] = base
  BY <1>0, <1>4
<1>6. \A n \in (lo + 1)..hi : n # lo /\ n \in lo..(lo + (hi - lo))
  BY <1>0
<1>7. \A n \in (lo + 1)..hi : f[n] = st[n][f[n - 1]]
  BY <1>4, <1>6
<1> QED
  BY <1>5, <1>7 DEF Follows

-----------------------------------------------------------------------------
(* Ascending order.                                                        *)

Order(s, n, S, w) ==
  /\ s \in [1..n -> S]
  /\ \A i, j \in 1..n : i < j => w[s[i]] < w[s[j]]

Onto(s, n, S) == \A x \in S : \E i \in 1..n : s[i] = x

\* In order, and all of S.
LEMMA AscendingIsOrdered ==
  ASSUME NEW S, NEW w, Weighs(S, w), NEW s, s = AscendingBy(S, w)
  PROVE  /\ Cardinality(S) \in Nat
         /\ Order(s, Cardinality(S), S, w)
         /\ Onto(s, Cardinality(S), S)
<1> DEFINE n == Cardinality(S)
           r(x) == Cardinality(NoHeavier(S, w, x))
<1>1. /\ n \in Nat
      /\ \A x \in S : r(x) \in 1..n
      /\ \A x, y \in S : w[x] < w[y] => r(x) < r(y)
      /\ \A i \in 1..n : \E x \in S : r(x) = i
  BY Ranks
<1>2. /\ w \in [S -> Int]
      /\ \A x, y \in S : w[x] = w[y] => x = y
  BY DEF Weighs
<1>3. s = [i \in 1..n |-> CHOOSE x \in S : r(x) = i]
  BY DEF AscendingBy, NoHeavier
<1> HIDE DEF n, r
<1>4. \A i \in 1..n : s[i] \in S /\ r(s[i]) = i
  BY <1>1, <1>3
<1>5. s \in [1..n -> S]
  BY <1>3, <1>4
<1>6. ASSUME NEW i \in 1..n, NEW j \in 1..n, i < j
      PROVE  w[s[i]] < w[s[j]]
  <2>1. s[i] \in S /\ s[j] \in S /\ r(s[i]) = i /\ r(s[j]) = j
    BY <1>4
  <2>2. w[s[i]] \in Int /\ w[s[j]] \in Int
    BY <1>2, <2>1
  <2>3. ~ w[s[j]] < w[s[i]]
    <3>1. w[s[j]] < w[s[i]] => r(s[j]) < r(s[i])
      BY <1>1, <2>1
    <3> QED
      BY <1>6, <2>1, <3>1
  <2>4. w[s[i]] # w[s[j]]
    BY <1>2, <1>6, <2>1
  <2> QED
    BY <2>2, <2>3, <2>4
<1>7. ASSUME NEW x \in S
      PROVE  \E i \in 1..n : s[i] = x
  <2>1. r(x) \in 1..n
    BY <1>1
  <2>2. s[r(x)] \in S /\ r(s[r(x)]) = r(x)
    BY <1>4, <2>1
  <2>3. w[s[r(x)]] \in Int /\ w[x] \in Int
    BY <1>2, <2>2
  <2>4. ~ w[s[r(x)]] < w[x] /\ ~ w[x] < w[s[r(x)]]
    <3>1. w[s[r(x)]] < w[x] => r(s[r(x)]) < r(x)
      BY <1>1, <2>2
    <3>2. w[x] < w[s[r(x)]] => r(x) < r(s[r(x)])
      BY <1>1, <2>2
    <3>3. r(x) \in Int
      BY <1>1, <2>1
    <3> QED
      BY <2>2, <3>1, <3>2, <3>3
  <2>5. s[r(x)] = x
    BY <1>2, <2>2, <2>3, <2>4
  <2> QED
    BY <2>1, <2>5
<1> QED
  BY <1>1, <1>5, <1>6, <1>7 DEF n, Order, Onto

\* As many elements as places up to i are not heavier than the i-th.
LEMMA PlaceInOrder ==
  ASSUME NEW S, NEW w, w \in [S -> Int], NEW n \in Nat, NEW s, Order(s, n, S, w), Onto(s, n, S)
  PROVE  /\ \A i, j \in 1..n : s[i] = s[j] => i = j
         /\ IsFiniteSet(S) /\ Cardinality(S) = n
         /\ \A i \in 1..n : Cardinality(NoHeavier(S, w, s[i])) = i
<1>1. \A i, j \in 1..n : s[i] = s[j] => i = j
  <2> SUFFICES ASSUME NEW i \in 1..n, NEW j \in 1..n, s[i] = s[j] PROVE i = j
    OBVIOUS
  <2>1. w[s[i]] \in Int
    BY DEF Order
  <2>2. ~ i < j /\ ~ j < i
    BY <2>1 DEF Order
  <2> QED
    BY <2>2
<1>2. IsFiniteSet(S) /\ Cardinality(S) = n
  BY <1>1, Counted DEF Order, Onto
<1>3. ASSUME NEW i \in 1..n
      PROVE  Cardinality(NoHeavier(S, w, s[i])) = i
  <2>1. PICK B : B = NoHeavier(S, w, s[i])
    OBVIOUS
  <2>2. PICK f : f = [j \in 1..i |-> s[j]]
    OBVIOUS
  <2>3. \A j \in 1..i : j \in 1..n /\ s[j] \in S /\ w[s[j]] \in Int /\ f[j] = s[j]
    BY <2>2 DEF Order
  <2>4. \A j \in 1..i : s[j] \in B
    <3> SUFFICES ASSUME NEW j \in 1..i PROVE w[s[j]] <= w[s[i]]
      BY <2>1, <2>3 DEF NoHeavier
    <3>1. j = i \/ (j < i /\ j \in 1..n)
      OBVIOUS
    <3>2. w[s[j]] \in Int /\ w[s[i]] \in Int
      BY <2>3
    <3>3. j < i => w[s[j]] < w[s[i]]
      BY <3>1 DEF Order
    <3> QED
      BY <3>1, <3>2, <3>3
  <2>5. \A x \in B : \E j \in 1..i : f[j] = x
    <3> SUFFICES ASSUME NEW x \in B PROVE \E j \in 1..i : s[j] = x
      BY <2>3
    <3>1. x \in S /\ w[x] <= w[s[i]]
      BY <2>1 DEF NoHeavier
    <3>2. PICK j \in 1..n : s[j] = x
      BY <3>1 DEF Onto
    <3>3. w[s[i]] \in Int /\ w[s[j]] \in Int
      BY DEF Order
    <3>4. ~ i < j
      BY <3>1, <3>2, <3>3 DEF Order
    <3> QED
      BY <3>2, <3>4
  <2>6. f \in [1..i -> B]
    BY <2>2, <2>4
  <2>7. \A j, k \in 1..i : f[j] = f[k] => j = k
    BY <1>1, <2>3
  <2>8. i \in Nat
    OBVIOUS
  <2>9. Cardinality(B) = i
    BY <2>5, <2>6, <2>7, <2>8, Counted
  <2> QED
    BY <2>1, <2>9
<1> QED
  BY <1>1, <1>2, <1>3

\* There is one such order.
LEMMA OrderedIsAscending ==
  ASSUME NEW S, NEW w, w \in [S -> Int], NEW n \in Nat, NEW s, Order(s, n, S, w), Onto(s, n, S)
  PROVE  s = AscendingBy(S, w)
<1>1. /\ Cardinality(S) = n
      /\ \A i \in 1..n : s[i] \in S /\ Cardinality(NoHeavier(S, w, s[i])) = i
  BY PlaceInOrder DEF Order
<1>2. ASSUME NEW i \in 1..n
      PROVE  (CHOOSE x \in S : Cardinality(NoHeavier(S, w, x)) = i) = s[i]
  <2> DEFINE C(x) == Cardinality(NoHeavier(S, w, x)) = i
  <2>1. ASSUME NEW x \in S, C(x) PROVE x = s[i]
    <3>1. PICK j \in 1..n : s[j] = x
      BY DEF Onto
    <3> QED
      BY <1>1, <2>1, <3>1
  <2>2. s[i] \in S /\ C(s[i])
    BY <1>1
  <2> HIDE DEF C
  <2>3. (CHOOSE x \in S : C(x)) = s[i]
    BY <2>1, <2>2
  <2> QED
    BY <2>3 DEF C
<1>3. AscendingBy(S, w) = [i \in 1..n |-> CHOOSE x \in S : Cardinality(NoHeavier(S, w, x)) = i]
  BY <1>1 DEF AscendingBy, NoHeavier
<1>4. s = [i \in 1..n |-> s[i]]
  BY DEF Order
<1> QED
  BY <1>2, <1>3, <1>4

\* Numbers weigh themselves.
Sorts(s, n, S) ==
  /\ n \in Nat
  /\ s \in [1..n -> S]
  /\ \A i, j \in 1..n : i < j => s[i] < s[j]
  /\ \A x \in S : \E i \in 1..n : s[i] = x

LEMMA Sorted ==
  ASSUME NEW S \in SUBSET Int, IsFiniteSet(S)
  PROVE  Sorts(Ascending(S), Cardinality(S), S)
<1>1. PICK w : w = [x \in S |-> x]
  OBVIOUS
<1>2. Weighs(S, w)
  BY <1>1 DEF Weighs
<1>3. PICK s, n : s = AscendingBy(S, w) /\ n = Cardinality(S)
  OBVIOUS
<1>4. n \in Nat /\ Order(s, n, S, w) /\ Onto(s, n, S)
  BY <1>2, <1>3, AscendingIsOrdered
<1>5. \A i \in 1..n : s[i] \in S
  BY <1>4 DEF Order
<1>6. Sorts(s, n, S)
  BY <1>1, <1>4, <1>5 DEF Order, Onto, Sorts
<1> QED
  BY <1>1, <1>3, <1>6 DEF Ascending

LEMMA SortedIs ==
  ASSUME NEW S \in SUBSET Int, NEW n, NEW s, Sorts(s, n, S)
  PROVE  s = Ascending(S)
<1>1. PICK w : w = [x \in S |-> x]
  OBVIOUS
<1>2. w \in [S -> Int]
  BY <1>1
<1>3. n \in Nat /\ Order(s, n, S, w) /\ Onto(s, n, S)
  BY <1>1 DEF Sorts, Order, Onto
<1>4. s = AscendingBy(S, w)
  BY <1>2, <1>3, OrderedIsAscending
<1> QED
  BY <1>1, <1>4 DEF Ascending

\* What lies between two numbers can be sorted.
LEMMA SortedWithin ==
  ASSUME NEW m \in Int, NEW S \in SUBSET (1..m)
  PROVE  IsFiniteSet(S) /\ Sorts(Ascending(S), Cardinality(S), S)
<1>1. IsFiniteSet(1..m)
  BY FS_Interval
<1>2. IsFiniteSet(S)
  BY <1>1, FS_Subset
<1>3. S \in SUBSET Int
  OBVIOUS
<1> QED
  BY <1>2, <1>3, Sorted

-----------------------------------------------------------------------------
(* Times.                                                                  *)

TimesOf(plan) ==
  CHOOSE dt : dt = [i \in 1..(Len(plan.samples) + 1) |->
                      IF i = 1 THEN plan.start ELSE dt[i - 1] + plan.samples[i - 1].dur]

LEMMA DecodeTimesAre == \A plan : DecodeTimes(plan) = TimesOf(plan)
  BY Zenon DEF DecodeTimes, TimesOf

LEMMA PlanFields ==
  ASSUME NEW plan \in TrackPlan
  PROVE  /\ plan.track \in Track /\ plan.video \in BOOLEAN
         /\ plan.scale \in Nat /\ plan.start \in Nat
         /\ Len(plan.samples) \in Nat /\ DOMAIN plan.samples = 1..Len(plan.samples)
         /\ \A i \in 1..Len(plan.samples) :
              /\ plan.samples[i].dur \in Nat /\ plan.samples[i].size \in Nat
              /\ plan.samples[i].sync \in BOOLEAN /\ plan.samples[i].cts \in Int
              /\ plan.samples[i].at \in Nat
<1> DEFINE R == [dur : Nat, size : Nat, sync : BOOLEAN, cts : Int, at : Nat]
<1>1. /\ plan.track \in Track /\ plan.video \in BOOLEAN
      /\ plan.scale \in Nat /\ plan.start \in Nat
      /\ plan.samples \in Seq(R)
  BY DEF TrackPlan
<1>2. /\ Len(plan.samples) \in Nat /\ DOMAIN plan.samples = 1..Len(plan.samples)
      /\ \A i \in 1..Len(plan.samples) : plan.samples[i] \in R
  <2> HIDE DEF R
  <2> QED
    BY <1>1
<1> QED
  BY <1>1, <1>2

\* A track's clock starts at its start and never goes back.
LEMMA TimesAre ==
  ASSUME NEW plan \in TrackPlan, NEW dt, dt = DecodeTimes(plan), NEW n, n = Len(plan.samples)
  PROVE  /\ dt \in [1..(n + 1) -> Nat]
         /\ dt[1] = plan.start
         /\ \A i \in 1..n : dt[i + 1] = dt[i] + plan.samples[i].dur
         /\ \A i, j \in 1..(n + 1) : i <= j => dt[i] <= dt[j]
<1>0. /\ n \in Nat /\ plan.start \in Nat
      /\ \A i \in 1..n : plan.samples[i].dur \in Nat
  BY PlanFields
<1>1. PICK st : st = [i \in 2..(n + 1) |-> [x \in Nat |-> x + plan.samples[i - 1].dur]]
  OBVIOUS
<1>2. st \in [2..(n + 1) -> [Nat -> Nat]]
  <2>1. ASSUME NEW i \in 2..(n + 1)
        PROVE  [x \in Nat |-> x + plan.samples[i - 1].dur] \in [Nat -> Nat]
    <3>1. i - 1 \in 1..n
      BY <1>0
    <3>2. PICK d \in Nat : d = plan.samples[i - 1].dur
      BY <1>0, <3>1
    <3> QED
      BY <3>2
  <2> QED
    BY <1>1, <2>1
<1>3. \A i \in 1..(n + 1) : i # 1 => i \in 2..(n + 1)
  BY <1>0
<1> DEFINE Body(f) == [i \in 1..(n + 1) |->
                         IF i = 1 THEN plan.start ELSE f[i - 1] + plan.samples[i - 1].dur]
<1>4. PICK f : Follows(f, 1, n + 1, Nat, plan.start, st)
  <2> HIDE DEF Body
  <2>1. Steps(1, n + 1, Nat, plan.start, st)
    <3>1. 1 \in Nat /\ n + 1 \in Nat /\ 1 <= n + 1 /\ plan.start \in Nat
      BY <1>0
    <3>2. (1 + 1)..(n + 1) = 2..(n + 1)
      OBVIOUS
    <3>3. st \in [(1 + 1)..(n + 1) -> [Nat -> Nat]]
      BY Zenon, <1>2, <3>2
    <3> QED
      BY Zenon, <3>1, <3>3 DEF Steps
  <2> QED
    BY <2>1, PrefixRecursion
<1>5. f = Body(f)
  <2>0. /\ f \in [1..(n + 1) -> Nat] /\ f[1] = plan.start
        /\ \A i \in 2..(n + 1) : f[i] = st[i][f[i - 1]]
    BY <1>4 DEF Follows
  <2>1. \A i \in 2..(n + 1) : i - 1 \in 1..(n + 1)
    BY <1>0
  <2>2. \A i \in 2..(n + 1) : st[i][f[i - 1]] = f[i - 1] + plan.samples[i - 1].dur
    BY <1>1, <2>0, <2>1
  <2> QED
    BY <1>3, <2>0, <2>2
<1>6. dt = Body(dt)
  <2>1. dt = CHOOSE g : g = Body(g)
    BY DecodeTimesAre DEF TimesOf
  <2> HIDE DEF Body
  <2> QED
    BY <1>5, <2>1
<1>7. dt[1] = plan.start
  BY <1>0, <1>6
<1>8. \A i \in 2..(n + 1) : dt[i] = dt[i - 1] + plan.samples[i - 1].dur
  <2>1. \A i \in 2..(n + 1) : i \in 1..(n + 1) /\ i # 1
    BY <1>0
  <2>2. \A i \in 1..(n + 1) :
          dt[i] = IF i = 1 THEN plan.start ELSE dt[i - 1] + plan.samples[i - 1].dur
    BY Zenon, <1>6
  <2> QED
    BY <2>1, <2>2
<1>9. \A i \in 1..(n + 1) : dt[i] \in Nat
  <2>1. ASSUME NEW i \in 2..(n + 1), dt[i - 1] \in Nat PROVE dt[i] \in Nat
    <3>1. i \in 2..(n + 1) /\ i - 1 \in 1..n
      BY <1>0
    <3>2. dt[i] = dt[i - 1] + plan.samples[i - 1].dur
      BY <1>8, <3>1
    <3>3. plan.samples[i - 1].dur \in Nat
      BY <1>0, <3>1
    <3> QED
      BY <2>1, <3>2, <3>3
  <2>2. dt[1] \in Nat
    BY <1>0, <1>7
  <2>3. 1 \in Nat /\ n + 1 \in Nat /\ 2 = 1 + 1
    BY <1>0
  <2> QED
    BY <2>1, <2>2, <2>3, PrefixInduction
<1>10. dt \in [1..(n + 1) -> Nat]
  BY <1>6, <1>9
<1>11. ASSUME NEW i \in 1..n PROVE dt[i + 1] = dt[i] + plan.samples[i].dur
  <2>1. i + 1 \in 2..(n + 1) /\ (i + 1) - 1 = i
    BY <1>0
  <2> QED
    BY <1>8, <2>1
<1>12. ASSUME NEW i \in 1..(n + 1), NEW j \in 1..(n + 1), i <= j PROVE dt[i] <= dt[j]
  <2> DEFINE g == [x \in i..(n + 1) |-> dt[x]]
             A == {x \in Nat : dt[i] <= x}
  <2>1. g[i] \in A
    BY <1>9
  <2>2. ASSUME NEW x \in (i + 1)..(n + 1), g[x - 1] \in A PROVE g[x] \in A
    <3>1. /\ x \in i..(n + 1) /\ x - 1 \in i..(n + 1)
          /\ x \in 2..(n + 1) /\ x - 1 \in 1..n
          /\ x \in 1..(n + 1) /\ x - 1 \in 1..(n + 1)
      BY <1>0
    <3>2. dt[x] = dt[x - 1] + plan.samples[x - 1].dur /\ plan.samples[x - 1].dur \in Nat
      BY <1>0, <1>8, <3>1
    <3>3. dt[x] \in Nat /\ dt[x - 1] \in Nat /\ dt[i] \in Nat
      BY <1>9, <3>1
    <3>4. dt[i] <= dt[x - 1]
      BY <2>2, <3>1
    <3> QED
      BY <3>1, <3>2, <3>3, <3>4
  <2>3. i \in Nat /\ n + 1 \in Nat /\ i + 1 \in Nat
    BY <1>0
  <2> HIDE DEF g, A
  <2>4. \A x \in i..(n + 1) : g[x] \in A
    BY <2>1, <2>2, <2>3, PrefixInduction
  <2>5. j \in i..(n + 1)
    BY <1>0, <1>12
  <2> QED
    BY <2>4, <2>5 DEF g, A
<1> QED
  BY <1>7, <1>10, <1>11, <1>12

LEMMA MicrosAre ==
  ASSUME NEW a \in Nat, NEW b \in Nat, NEW scale \in Nat
  PROVE  /\ Micros(a, scale) \in Nat
         /\ a <= b => Micros(a, scale) <= Micros(b, scale)
<1> DEFINE s == IF scale = 0 THEN 1 ELSE scale
<1>1. s \in Nat /\ s > 0 /\ a * 1000000 \in Nat /\ b * 1000000 \in Nat
  OBVIOUS
<1>2. a <= b => a * 1000000 <= b * 1000000
  OBVIOUS
<1>3. ASSUME NEW x \in Nat, NEW y \in Nat, NEW d \in Nat, d > 0
      PROVE  x \div d \in Nat /\ (x <= y => x \div d <= y \div d)
  <2> DEFINE q == x \div d
             r == y \div d
  <2>1. /\ q \in Int /\ d * q <= x /\ x < d * q + d
        /\ r \in Int /\ d * r <= y /\ y < d * r + d
    BY <1>3
  <2>2. q >= 0
    BY <1>3, <2>1
  <2>3. ASSUME x <= y, r < q PROVE FALSE
    <3>1. r + 1 <= q
      BY <2>1, <2>3
    <3>2. d * (r + 1) <= d * q
      BY <1>3, <2>1, <3>1
    <3>3. d * (r + 1) = d * r + d
      BY <2>1
    <3> QED
      BY <2>1, <2>3, <3>2, <3>3
  <2> QED
    BY <2>1, <2>2, <2>3
<1> HIDE DEF s
<1>4. Micros(a, scale) = (a * 1000000) \div s /\ Micros(b, scale) = (b * 1000000) \div s
  BY DEF Micros, s
<1> QED
  BY <1>1, <1>2, <1>3, <1>4

-----------------------------------------------------------------------------
(* GoPs.                                                                   *)

\* Where a list of places is: at least one, each the place of a sample or
\* just behind the last.
IsStarts(s, plan) ==
  \E n \in Nat \ {0} : s \in [1..n -> 1..(Len(plan.samples) + 1)]

LEMMA StartsOfVideoAre ==
  ASSUME NEW plan \in TrackPlan
  PROVE  IsStarts(StartsOfVideo(plan), plan)
<1> DEFINE m == Len(plan.samples)
           S == {1} \cup {i \in DOMAIN plan.samples : plan.samples[i].sync}
<1>1. m \in Nat /\ DOMAIN plan.samples = 1..m
  BY PlanFields
<1>2. S \subseteq 1..(m + 1) /\ 1 \in S
  BY <1>1
<1>3. StartsOfVideo(plan) = Ascending(S)
  BY DEF StartsOfVideo
<1>4. m + 1 \in Int /\ S \in SUBSET (1..(m + 1))
  BY <1>1, <1>2
<1> HIDE DEF S, m
<1>5. PICK s, n : s = Ascending(S) /\ n = Cardinality(S)
  OBVIOUS
<1>6. Sorts(s, n, S)
  BY <1>4, <1>5, SortedWithin
<1>7. n \in Nat /\ s \in [1..n -> 1..(m + 1)]
  BY <1>4, <1>6 DEF Sorts
<1>8. n # 0
  BY <1>2, <1>6 DEF Sorts
<1> QED
  BY <1>3, <1>5, <1>7, <1>8 DEF IsStarts, m

AudioStarts(plan, dt, second) ==
  CHOOSE f : f = [i \in 0..Len(plan.samples) |->
                    LET before == f[i - 1]
                    IN  IF i = 0 THEN <<1>>
                        ELSE IF dt[i] >= plan.start + Len(before) * second THEN Append(before, i)
                        ELSE before]

LEMMA StartsOfAudioIs ==
  \A plan : StartsOfAudio(plan) =
    AudioStarts(plan, DecodeTimes(plan), IF plan.scale = 0 THEN 1 ELSE plan.scale)[Len(plan.samples)]
BY Zenon DEF StartsOfAudio, AudioStarts

\* Division rounds down.
LEMMA DivIs ==
  ASSUME NEW x \in Nat, NEW d \in Nat \ {0}, NEW q \in Nat
  PROVE  x \div d \in Nat /\ (q * d <= x <=> q <= x \div d)
<1> DEFINE r == x \div d
<1>1. r \in Int /\ d * r <= x /\ x < d * r + d
  OBVIOUS
<1> HIDE DEF r
<1>2. r >= 0
  BY <1>1
<1>3. ASSUME q <= r PROVE q * d <= x
  <2>1. d * q <= d * r
    BY <1>1, <1>3
  <2>2. q * d = d * q /\ d * q \in Int /\ d * r \in Int
    BY <1>1
  <2> QED
    BY <1>1, <2>1, <2>2
<1>4. ASSUME ~ q <= r PROVE ~ q * d <= x
  <2>1. r + 1 <= q
    BY <1>1, <1>4
  <2>2. d * (r + 1) <= d * q
    BY <1>1, <2>1
  <2>3. d * (r + 1) = d * r + d
    BY <1>1
  <2>4. q * d = d * q /\ d * q \in Int /\ d * r \in Int
    BY <1>1
  <2> QED
    BY <1>1, <2>2, <2>3, <2>4
<1> QED
  BY <1>1, <1>2, <1>3, <1>4 DEF r

\* The seconds begun by a sample.
Seconds(plan, dt, second, i) == (dt[i] - plan.start) \div second

\* The seconds begun count the boundaries passed, and do not go back.
LEMMA SecondsAre ==
  ASSUME NEW plan \in TrackPlan, NEW dt, dt = DecodeTimes(plan), NEW n, n = Len(plan.samples),
         NEW second \in Nat \ {0}, NEW i \in 1..n
  PROVE  /\ Seconds(plan, dt, second, i) \in Nat
         /\ i = 1 => Seconds(plan, dt, second, i) = 0
         /\ \A L \in Nat : dt[i] >= plan.start + L * second <=> L <= Seconds(plan, dt, second, i)
         /\ i > 1 => /\ Seconds(plan, dt, second, i - 1) \in Nat
                     /\ Seconds(plan, dt, second, i - 1) <= Seconds(plan, dt, second, i)
<1>1. n \in Nat /\ plan.start \in Nat
  BY PlanFields
<1>2. /\ dt \in [1..(n + 1) -> Nat] /\ dt[1] = plan.start
      /\ \A a, b \in 1..(n + 1) : a <= b => dt[a] <= dt[b]
  BY TimesAre
<1>3. i \in 1..(n + 1) /\ 1 \in 1..(n + 1) /\ 1 <= i
  BY <1>1
<1>4. dt[i] \in Nat /\ plan.start <= dt[i]
  BY <1>2, <1>3
<1>5. PICK x \in Nat : x = dt[i] - plan.start
  BY <1>1, <1>4
<1>6. x \div second \in Nat
  BY <1>5, DivIs
<1>7. ASSUME NEW L \in Nat PROVE dt[i] >= plan.start + L * second <=> L <= x \div second
  <2>1. L * second <= x <=> L <= x \div second
    BY <1>5, DivIs
  <2>2. L * second \in Nat
    OBVIOUS
  <2>3. dt[i] >= plan.start + L * second <=> L * second <= x
    BY <1>1, <1>4, <1>5, <2>2
  <2> QED
    BY <2>1, <2>3
<1>8. ASSUME i > 1
      PROVE  \E q \in Nat : q = Seconds(plan, dt, second, i - 1) /\ q <= x \div second
  <2>1. i - 1 \in 1..(n + 1) /\ i - 1 <= i /\ 1 <= i - 1
    BY <1>1, <1>8
  <2>2. dt[i - 1] \in Nat /\ plan.start <= dt[i - 1] /\ dt[i - 1] <= dt[i]
    BY <1>2, <1>3, <2>1
  <2>3. PICK y \in Nat : y = dt[i - 1] - plan.start
    BY <1>1, <2>2
  <2>4. y <= x
    BY <1>1, <1>4, <1>5, <2>2, <2>3
  <2>5. PICK q \in Nat : q = y \div second
    BY <2>3, DivIs
  <2>6. q * second <= y
    <3>1. q * second <= y <=> q <= y \div second
      BY <2>3, <2>5, DivIs
    <3> QED
      BY <2>5, <3>1
  <2>7. q * second \in Nat
    OBVIOUS
  <2>8. q * second <= x
    BY <1>5, <2>3, <2>4, <2>6, <2>7
  <2>9. q <= x \div second
    <3>1. q * second <= x <=> q <= x \div second
      BY <1>5, <2>5, DivIs
    <3> QED
      BY <2>8, <3>1
  <2> QED
    BY <2>3, <2>5, <2>9 DEF Seconds
<1>9. i = 1 => x \div second = 0
  <2> SUFFICES ASSUME i = 1 PROVE x \div second = 0
    OBVIOUS
  <2>1. x = 0
    BY <1>1, <1>2, <1>5
  <2> QED
    BY <2>1
<1>10. Seconds(plan, dt, second, i) = x \div second
  BY <1>5 DEF Seconds
<1> QED
  BY <1>6, <1>7, <1>8, <1>9, <1>10

\* How the list of an audio reference grows, sample by sample.
AudioListed(f, plan, dt, second, n) ==
  /\ \A i \in 0..n : f[i] \in Seq(1..(n + 1)) \ {<<>>}
  /\ f[0] = <<1>>
  /\ \A i \in 1..n : f[i] = IF dt[i] >= plan.start + Len(f[i - 1]) * second
                            THEN Append(f[i - 1], i) ELSE f[i - 1]

LEMMA AudioGrows ==
  ASSUME NEW plan \in TrackPlan, NEW dt, dt = DecodeTimes(plan), NEW n, n = Len(plan.samples),
         NEW second \in Nat \ {0}, NEW f, AudioListed(f, plan, dt, second, n), NEW i \in 1..n
  PROVE  /\ i - 1 \in 0..n /\ f[i - 1] \in Seq(1..(n + 1)) /\ Len(f[i - 1]) \in Nat \ {0}
         /\ f[i] = IF Len(f[i - 1]) <= Seconds(plan, dt, second, i)
                   THEN Append(f[i - 1], i) ELSE f[i - 1]
         /\ Len(Append(f[i - 1], i)) = Len(f[i - 1]) + 1
         /\ Append(f[i - 1], i)[Len(f[i - 1]) + 1] = i
         /\ \A g \in 1..Len(f[i - 1]) : Append(f[i - 1], i)[g] = f[i - 1][g]
<1>1. n \in Nat
  BY PlanFields
<1>2. i - 1 \in 0..n
  BY <1>1
<1>3. PICK W : W = 1..(n + 1)
  OBVIOUS
<1>4. PICK q : q = f[i - 1]
  OBVIOUS
<1>5. q \in Seq(W) /\ q # <<>>
  BY <1>2, <1>3, <1>4 DEF AudioListed
<1>6. Len(q) \in Nat \ {0}
  BY <1>5
<1>7. i \in W
  BY <1>1, <1>3
<1>8. /\ Len(Append(q, i)) = Len(q) + 1
      /\ Append(q, i)[Len(q) + 1] = i
      /\ \A g \in 1..Len(q) : Append(q, i)[g] = q[g]
  BY <1>5, <1>7
<1>9. f[i] = IF dt[i] >= plan.start + Len(q) * second THEN Append(q, i) ELSE q
  BY <1>4 DEF AudioListed
<1>10. dt[i] >= plan.start + Len(q) * second <=> Len(q) <= Seconds(plan, dt, second, i)
  BY <1>6, SecondsAre
<1> QED
  BY <1>2, <1>3, <1>4, <1>5, <1>6, <1>8, <1>9, <1>10

\* After a sample the list has at most one entry for each second begun.
LEMMA AudioPaced ==
  ASSUME NEW plan \in TrackPlan, NEW dt, dt = DecodeTimes(plan), NEW n, n = Len(plan.samples),
         NEW second \in Nat \ {0}, NEW f, AudioListed(f, plan, dt, second, n)
  PROVE  \A i \in 1..n : Len(f[i]) <= Seconds(plan, dt, second, i) + 1
<1>1. n \in Nat
  BY PlanFields
<1> DEFINE Sec(i) == Seconds(plan, dt, second, i)
           Q == {k \in Nat : k + 1 <= n => Len(f[k + 1]) <= Sec(k + 1) + 1}
<1>2. ASSUME NEW i \in 1..n
      PROVE  /\ Len(f[i - 1]) \in Nat /\ Sec(i) \in Nat
             /\ i = 1 => Sec(i) = 0
             /\ i > 1 => Sec(i - 1) \in Nat /\ Sec(i - 1) <= Sec(i)
             /\ Len(f[i]) = IF Len(f[i - 1]) <= Sec(i) THEN Len(f[i - 1]) + 1 ELSE Len(f[i - 1])
  <2>1. /\ Len(f[i - 1]) \in Nat \ {0}
        /\ f[i] = IF Len(f[i - 1]) <= Sec(i) THEN Append(f[i - 1], i) ELSE f[i - 1]
        /\ Len(Append(f[i - 1], i)) = Len(f[i - 1]) + 1
    BY AudioGrows
  <2>2. /\ Sec(i) \in Nat /\ (i = 1 => Sec(i) = 0)
        /\ i > 1 => Sec(i - 1) \in Nat /\ Sec(i - 1) <= Sec(i)
    BY SecondsAre
  <2> HIDE DEF Sec
  <2> QED
    BY <2>1, <2>2
<1> HIDE DEF Sec
<1>3. Len(f[0]) = 1
  BY DEF AudioListed
<1>4. 0 \in Q
  <2> SUFFICES ASSUME 1 <= n PROVE Len(f[1]) <= Sec(1) + 1
    OBVIOUS
  <2>1. 1 \in 1..n /\ 1 - 1 = 0
    BY <1>1
  <2>2. Sec(1) = 0 /\ Len(f[1]) = IF Len(f[0]) <= Sec(1) THEN Len(f[0]) + 1 ELSE Len(f[0])
    BY <1>2, <2>1
  <2> QED
    BY <1>3, <2>2
<1>5. ASSUME NEW k \in Q PROVE k + 1 \in Q
  <2> SUFFICES ASSUME (k + 1) + 1 <= n PROVE Len(f[(k + 1) + 1]) <= Sec((k + 1) + 1) + 1
    OBVIOUS
  <2>1. PICK i : i = (k + 1) + 1
    OBVIOUS
  <2>2. k \in Nat /\ i \in 1..n /\ i > 1 /\ i - 1 = k + 1
    BY <1>1, <2>1
  <2>3. Len(f[i - 1]) <= Sec(i - 1) + 1
    BY <1>1, <2>1, <2>2
  <2>4. /\ Sec(i) \in Nat /\ Sec(i - 1) \in Nat /\ Sec(i - 1) <= Sec(i) /\ Len(f[i - 1]) \in Nat
        /\ Len(f[i]) = IF Len(f[i - 1]) <= Sec(i) THEN Len(f[i - 1]) + 1 ELSE Len(f[i - 1])
    BY <1>2, <2>2
  <2>5. Len(f[i]) <= Sec(i) + 1
    BY <2>3, <2>4
  <2> QED
    BY <2>1, <2>5
<1>6. Nat \subseteq Q
  <2>1. Q \in SUBSET Nat
    OBVIOUS
  <2> HIDE DEF Q
  <2> QED
    BY <1>4, <1>5, <2>1, SetInduction
<1>7. ASSUME NEW i \in 1..n PROVE Len(f[i]) <= Sec(i) + 1
  <2>1. i - 1 \in Nat /\ (i - 1) + 1 = i /\ i <= n
    BY <1>1
  <2>2. i - 1 \in Q
    BY <1>6, <2>1
  <2> QED
    BY <2>1, <2>2
<1> QED
  BY <1>7 DEF Sec

\* What is in the list stays in its place.
LEMMA AudioKeeps ==
  ASSUME NEW plan \in TrackPlan, NEW dt, dt = DecodeTimes(plan), NEW n, n = Len(plan.samples),
         NEW second \in Nat \ {0}, NEW f, AudioListed(f, plan, dt, second, n),
         NEW j \in 1..n, NEW g \in 1..Len(f[j]), NEW v, v = f[j][g]
  PROVE  g \in 1..Len(f[n]) /\ f[n][g] = v
<1>1. n \in Nat
  BY PlanFields
<1>2. PICK A : A = {q \in Seq(1..(n + 1)) : g \in 1..Len(q) /\ q[g] = v}
  OBVIOUS
<1>3. f[j] \in A
  <2>1. f[j] \in Seq(1..(n + 1))
    BY <1>1 DEF AudioListed
  <2> QED
    BY <1>2, <2>1
<1>4. PICK nx : nx = j + 1
  OBVIOUS
<1>5. ASSUME NEW i \in nx..n, f[i - 1] \in A PROVE f[i] \in A
  <2>1. i \in 1..n /\ i \in 0..n
    BY <1>1, <1>4
  <2>2. f[i] \in Seq(1..(n + 1))
    BY <2>1 DEF AudioListed
  <2>3. g \in 1..Len(f[i - 1]) /\ f[i - 1][g] = v
    BY <1>2, <1>5
  <2>4. /\ Len(f[i - 1]) \in Nat \ {0}
        /\ f[i] = IF Len(f[i - 1]) <= Seconds(plan, dt, second, i)
                  THEN Append(f[i - 1], i) ELSE f[i - 1]
        /\ Len(Append(f[i - 1], i)) = Len(f[i - 1]) + 1
        /\ \A h \in 1..Len(f[i - 1]) : Append(f[i - 1], i)[h] = f[i - 1][h]
    BY <2>1, AudioGrows
  <2>5. g \in 1..Len(f[i]) /\ f[i][g] = v
    BY <2>3, <2>4
  <2> QED
    BY <1>2, <2>2, <2>5
<1>6. j \in Nat
  OBVIOUS
<1>7. \A i \in j..n : f[i] \in A
  BY <1>1, <1>3, <1>4, <1>5, <1>6, PrefixInduction
<1>8. f[n] \in A
  BY <1>1, <1>7
<1> QED
  BY <1>2, <1>8

\* The first sample in a second is put in the list.
LEMMA AudioOpener ==
  ASSUME NEW plan \in TrackPlan, NEW dt, dt = DecodeTimes(plan), NEW n, n = Len(plan.samples),
         NEW second \in Nat \ {0}, NEW f, AudioListed(f, plan, dt, second, n), NEW j \in 2..n,
         Seconds(plan, dt, second, j) > Seconds(plan, dt, second, j - 1)
  PROVE  \E g \in 2..Len(f[n]) : f[n][g] = j
<1>1. n \in Nat
  BY PlanFields
<1>2. j \in 1..n /\ j - 1 \in 1..n /\ j > 1
  BY <1>1
<1>3. PICK a, b, q : a = Seconds(plan, dt, second, j - 1) /\ b = Seconds(plan, dt, second, j) /\ q = f[j - 1]
  OBVIOUS
<1>4. a \in Nat /\ b \in Nat /\ a < b
  BY <1>2, <1>3, SecondsAre
<1>5. Len(q) <= a + 1
  BY <1>2, <1>3, AudioPaced
<1>6. /\ Len(q) \in Nat \ {0}
      /\ f[j] = IF Len(q) <= b THEN Append(q, j) ELSE q
      /\ Len(Append(q, j)) = Len(q) + 1
      /\ Append(q, j)[Len(q) + 1] = j
  BY <1>2, <1>3, AudioGrows
<1>7. f[j] = Append(q, j)
  BY <1>4, <1>5, <1>6
<1>8. PICK g : g = Len(q) + 1
  OBVIOUS
<1>9. g \in 1..Len(f[j]) /\ f[j][g] = j /\ g \in Nat /\ 2 <= g
  BY <1>6, <1>7, <1>8
<1>10. g \in 1..Len(f[n]) /\ f[n][g] = j
  BY <1>2, <1>9, AudioKeeps
<1> QED
  BY <1>9, <1>10

\* The list of an audio reference is one that grows in this way.
LEMMA AudioIs ==
  ASSUME NEW plan \in TrackPlan, NEW dt, dt = DecodeTimes(plan), NEW n, n = Len(plan.samples),
         NEW second, second = IF plan.scale = 0 THEN 1 ELSE plan.scale
  PROVE  /\ second \in Nat \ {0}
         /\ \E f : AudioListed(f, plan, dt, second, n) /\ f[n] = StartsOfAudio(plan)
<1> DEFINE A == Seq(1..(n + 1)) \ {<<>>}
<1>1. n \in Nat /\ plan.scale \in Nat
  BY PlanFields
<1>2. second \in Nat \ {0}
  BY <1>1
<1> DEFINE Next1(q, i) == IF dt[i] >= plan.start + Len(q) * second THEN Append(q, i) ELSE q
           Body(f) == [i \in 0..n |-> LET before == f[i - 1]
                                       IN  IF i = 0 THEN <<1>> ELSE Next1(before, i)]
           st == [i \in 1..n |-> [q \in A |-> Next1(q, i)]]
<1>3. ASSUME NEW q \in A, NEW i \in 1..n PROVE Next1(q, i) \in A
  <2>1. q \in Seq(1..(n + 1)) /\ i \in 1..(n + 1)
    BY <1>1
  <2>2. Append(q, i) \in A
    BY <2>1
  <2> HIDE DEF A
  <2> QED
    BY Zenon, <2>2
<1>4. <<1>> \in A
  BY <1>1
<1>5. st \in [1..n -> [A -> A]]
  BY <1>3
<1>6. PICK f : Follows(f, 0, n, A, <<1>>, st)
  <2> HIDE DEF A, st
  <2>1. Steps(0, n, A, <<1>>, st)
    <3>1. 0 \in Nat /\ n \in Nat /\ 0 <= n
      BY <1>1
    <3>2. (0 + 1)..n = 1..n
      OBVIOUS
    <3>3. st \in [(0 + 1)..n -> [A -> A]]
      BY Zenon, <1>5, <3>2
    <3> QED
      BY Zenon, <1>4, <3>1, <3>3 DEF Steps
  <2> QED
    BY <2>1, PrefixRecursion
<1>7. f = Body(f)
  <2> HIDE DEF A, Next1
  <2>1. /\ f \in [0..n -> A] /\ f[0] = <<1>>
        /\ \A i \in 1..n : f[i] = st[i][f[i - 1]]
    <3> HIDE DEF st
    <3>1. (0 + 1)..n = 1..n
      OBVIOUS
    <3> QED
      BY <1>6, <3>1 DEF Follows
  <2>2. \A i \in 1..n : i - 1 \in 0..n
    BY <1>1
  <2>3. \A i \in 1..n : f[i] = Next1(f[i - 1], i)
    BY <2>1, <2>2
  <2>4. \A i \in 0..n : i = 0 \/ i \in 1..n
    BY <1>1
  <2> QED
    BY <2>1, <2>3, <2>4
<1>8. PICK g : g = AudioStarts(plan, dt, second)
  OBVIOUS
<1>9. g = Body(g)
  <2>1. g = CHOOSE h : h = Body(h)
    BY <1>8 DEF AudioStarts
  <2> HIDE DEF Body
  <2> QED
    BY <1>7, <2>1
<1>10. g[0] = <<1>>
  BY <1>1, <1>9
<1>11. \A i \in 1..n : g[i] = Next1(g[i - 1], i)
  <2> HIDE DEF Next1
  <2>1. \A i \in 1..n : i \in 0..n /\ i # 0
    BY <1>1
  <2> QED
    BY <1>9, <2>1
<1>12. \A i \in 0..n : g[i] \in A
  <2> HIDE DEF A, Next1
  <2>1. ASSUME NEW i \in 1..n, g[i - 1] \in A PROVE g[i] \in A
    BY <1>3, <1>11, <2>1
  <2>2. 0 \in Nat /\ n \in Nat /\ 1 = 0 + 1
    BY <1>1
  <2>3. g[0] \in A
    BY <1>4, <1>10
  <2> HIDE DEF Body, st
  <2> QED
    BY <2>1, <2>2, <2>3, PrefixInduction
<1>13. AudioListed(g, plan, dt, second, n)
  BY <1>10, <1>11, <1>12 DEF AudioListed
<1>14. g[n] = StartsOfAudio(plan)
  BY <1>8, StartsOfAudioIs
<1> QED
  BY <1>2, <1>13, <1>14

LEMMA StartsOfAudioAre ==
  ASSUME NEW plan \in TrackPlan
  PROVE  IsStarts(StartsOfAudio(plan), plan)
<1>1. PICK n, W : n = Len(plan.samples) /\ W = 1..(n + 1)
  OBVIOUS
<1>2. PICK s : s = StartsOfAudio(plan)
  OBVIOUS
<1>3. PICK dt, second : dt = DecodeTimes(plan) /\ second = IF plan.scale = 0 THEN 1 ELSE plan.scale
  OBVIOUS
<1>4. \E f : AudioListed(f, plan, dt, second, n) /\ f[n] = s
  BY <1>1, <1>2, <1>3, AudioIs
<1>5. n \in Nat
  BY <1>1, PlanFields
<1>6. s \in Seq(W) /\ s # <<>>
  BY <1>1, <1>4, <1>5 DEF AudioListed
<1>7. Len(s) \in Nat \ {0} /\ s \in [1..Len(s) -> W]
  BY <1>6
<1> QED
  BY <1>1, <1>2, <1>7 DEF IsStarts

\* The track whose samples open the GoPs.
LEMMA ReferenceIs ==
  ASSUME NEW plans, Planned(plans), plans # <<>>
  PROVE  /\ Len(plans) \in Nat \ {0} /\ DOMAIN plans = 1..Len(plans)
         /\ \A k \in DOMAIN plans : plans[k] \in TrackPlan
         /\ \E r \in DOMAIN plans : Reference(plans) = plans[r]
<1>1. plans \in Seq(TrackPlan)
  BY DEF Planned
<1>2. Len(plans) \in Nat /\ Len(plans) # 0 /\ DOMAIN plans = 1..Len(plans)
  BY <1>1
<1>3. \A k \in DOMAIN plans : plans[k] \in TrackPlan
  BY <1>1
<1> DEFINE video == {i \in DOMAIN plans : plans[i].video}
           r == IF video = {} THEN 1 ELSE CHOOSE i \in video : \A j \in video : i <= j
<1>4. r \in DOMAIN plans
  <2>1. CASE video = {}
    BY <1>2, <2>1
  <2>2. CASE video # {}
    <3>1. video \in SUBSET Nat /\ video \subseteq DOMAIN plans
      BY <1>2
    <3> HIDE DEF video
    <3>2. \E i \in video : \A j \in video : i <= j
      BY <2>2, <3>1, Least
    <3>3. r \in video
      BY <2>2, <3>2
    <3> QED
      BY <3>1, <3>3
  <2> QED
    BY <2>1, <2>2
<1>5. Reference(plans) = plans[r]
  BY DEF Reference
<1> QED
  BY <1>2, <1>3, <1>4, <1>5

LEMMA GopStartsAre ==
  ASSUME NEW plans, Planned(plans), plans # <<>>
  PROVE  \E n \in Nat \ {0} : GopStarts(plans) \in [1..n -> Nat]
<1>1. PICK ref : ref = Reference(plans)
  OBVIOUS
<1>2. ref \in TrackPlan
  BY <1>1, ReferenceIs
<1>3. PICK starts : starts = IF ref.video THEN StartsOfVideo(ref) ELSE StartsOfAudio(ref)
  OBVIOUS
<1>4. IsStarts(starts, ref)
  BY <1>2, <1>3, StartsOfVideoAre, StartsOfAudioAre
<1>5. PICK n \in Nat \ {0} : starts \in [1..n -> 1..(Len(ref.samples) + 1)]
  BY <1>4 DEF IsStarts
<1>6. PICK dt : dt = DecodeTimes(ref)
  OBVIOUS
<1>7. dt \in [1..(Len(ref.samples) + 1) -> Nat]
  BY <1>2, <1>6, TimesAre
<1>8. ref.scale \in Nat
  BY <1>2, PlanFields
<1>9. GopStarts(plans) = [g \in DOMAIN starts |-> Micros(dt[starts[g]], ref.scale)]
  BY <1>1, <1>3, <1>6 DEF GopStarts
<1>10. \A g \in 1..n : Micros(dt[starts[g]], ref.scale) \in Nat
  BY <1>5, <1>7, <1>8, MicrosAre
<1>11. DOMAIN starts = 1..n
  BY <1>5
<1>12. GopStarts(plans) \in [1..n -> Nat]
  BY <1>9, <1>10, <1>11
<1> QED
  BY <1>12

LEMMA GopOfTimeIs ==
  ASSUME NEW n \in Nat \ {0}, NEW starts \in [1..n -> Nat], NEW a \in Nat, NEW b \in Nat
  PROVE  /\ GopOfTime(starts, a) \in 1..n
         /\ a <= b => GopOfTime(starts, a) <= GopOfTime(starts, b)
<1> DEFINE C(x) == {g \in 2..Len(starts) : starts[g] <= x}
<1>1. starts \in Seq(Nat) /\ Len(starts) = n
  OBVIOUS
<1>2. C(a) \in SUBSET (2..n) /\ C(b) \in SUBSET (2..n) /\ (a <= b => C(a) \in SUBSET C(b))
  BY <1>1
<1>3. IsFiniteSet(2..n) /\ Cardinality(2..n) = n - 1
  BY FS_Interval
<1> HIDE DEF C
<1>4. /\ IsFiniteSet(C(a)) /\ Cardinality(C(a)) <= n - 1
      /\ IsFiniteSet(C(b)) /\ Cardinality(C(b)) <= n - 1
  <2>1. IsFiniteSet(C(a)) /\ Cardinality(C(a)) <= Cardinality(2..n)
    BY <1>2, <1>3, FS_Subset
  <2>2. IsFiniteSet(C(b)) /\ Cardinality(C(b)) <= Cardinality(2..n)
    BY <1>2, <1>3, FS_Subset
  <2> QED
    BY <1>3, <2>1, <2>2
<1>5. Cardinality(C(a)) \in Nat /\ Cardinality(C(b)) \in Nat
  BY <1>4, FS_CardinalityType
<1>6. a <= b => Cardinality(C(a)) <= Cardinality(C(b))
  BY <1>2, <1>4, FS_Subset
<1>7. GopOfTime(starts, a) = 1 + Cardinality(C(a)) /\ GopOfTime(starts, b) = 1 + Cardinality(C(b))
  BY DEF GopOfTime, C
<1> QED
  BY <1>4, <1>5, <1>6, <1>7

\* The GoP that a sample is put in.
GopIn(plans, k, i) ==
  GopOfTime(GopStarts(plans), Micros(DecodeTimes(plans[k])[i], plans[k].scale))

\* Later samples are not put in an earlier GoP.
LEMMA GopsAre ==
  ASSUME NEW plans, Planned(plans), NEW k \in DOMAIN plans,
         NEW n \in Nat \ {0}, GopStarts(plans) \in [1..n -> Nat],
         NEW m, m = Len(plans[k].samples)
  PROVE  /\ m \in Nat
         /\ \A i \in 1..m : GopIn(plans, k, i) \in 1..n
         /\ \A i, j \in 1..m : i <= j => GopIn(plans, k, i) <= GopIn(plans, k, j)
<1>1. plans[k] \in TrackPlan
  BY DEF Planned
<1>2. PICK dt : dt = DecodeTimes(plans[k])
  OBVIOUS
<1>3. dt \in [1..(m + 1) -> Nat] /\ \A i, j \in 1..(m + 1) : i <= j => dt[i] <= dt[j]
  BY <1>1, <1>2, TimesAre
<1>4. m \in Nat /\ plans[k].scale \in Nat
  BY <1>1, PlanFields
<1>5. PICK starts, scale : starts = GopStarts(plans) /\ scale = plans[k].scale
  OBVIOUS
<1> DEFINE G(i) == GopOfTime(starts, Micros(dt[i], scale))
<1>6. ASSUME NEW i \in 1..m, NEW j \in 1..m PROVE G(i) \in 1..n /\ (i <= j => G(i) <= G(j))
  <2>1. i \in 1..(m + 1) /\ j \in 1..(m + 1)
    BY <1>4
  <2>2. dt[i] \in Nat /\ dt[j] \in Nat /\ (i <= j => dt[i] <= dt[j])
    BY <1>3, <2>1
  <2>3. /\ Micros(dt[i], scale) \in Nat /\ Micros(dt[j], scale) \in Nat
        /\ i <= j => Micros(dt[i], scale) <= Micros(dt[j], scale)
    BY <1>4, <1>5, <2>2, MicrosAre
  <2> QED
    BY <1>5, <2>3, GopOfTimeIs
<1>7. \A i : GopIn(plans, k, i) = G(i)
  BY <1>2, <1>5 DEF GopIn
<1> QED
  BY <1>4, <1>6, <1>7

-----------------------------------------------------------------------------
(* Segments.                                                               *)

\* The samples of a track in a GoP.
SamplesIn(plans, k, g) == {i \in DOMAIN plans[k].samples : GopIn(plans, k, i) = g}

LEMMA PartitionIs ==
  \A plans : Partition(plans) =
    [k \in DOMAIN plans |-> [g \in DOMAIN GopStarts(plans) |-> Ascending(SamplesIn(plans, k, g))]]
<1> SUFFICES ASSUME NEW plans
             PROVE  Partition(plans) =
    [k \in DOMAIN plans |-> [g \in DOMAIN GopStarts(plans) |-> Ascending(SamplesIn(plans, k, g))]]
  OBVIOUS
<1> DEFINE starts == GopStarts(plans)
           gop(k) == [i \in DOMAIN plans[k].samples |-> GopIn(plans, k, i)]
<1>1. Partition(plans) =
        [k \in DOMAIN plans |-> [g \in DOMAIN starts |->
           Ascending({i \in DOMAIN plans[k].samples : gop(k)[i] = g})]]
  BY Zenon DEF Partition, GopIn
<1>2. ASSUME NEW k \in DOMAIN plans, NEW g \in DOMAIN starts
      PROVE  {i \in DOMAIN plans[k].samples : gop(k)[i] = g} = SamplesIn(plans, k, g)
  BY DEF SamplesIn
<1> HIDE DEF gop, starts
<1>3. Partition(plans) = [k \in DOMAIN plans |-> [g \in DOMAIN starts |-> Ascending(SamplesIn(plans, k, g))]]
  BY <1>1, <1>2
<1> QED
  BY <1>3 DEF starts

\* A sorted set without an element is the empty list.
LEMMA SortedEmpty ==
  ASSUME NEW T, NEW s, NEW n, Sorts(s, n, T)
  PROVE  Len(s) = n /\ DOMAIN s = 1..n /\ (s # <<>> <=> T # {}) /\ (s # <<>> => n # 0)
<1>1. n \in Nat /\ s \in [1..n -> T] /\ \A x \in T : \E i \in 1..n : s[i] = x
  BY DEF Sorts
<1>2. s \in Seq(T) /\ Len(s) = n
  BY <1>1
<1>3. n = 0 <=> s = <<>>
  BY <1>2
<1>4. n = 0 => T = {}
  BY <1>1
<1>5. n # 0 => T # {}
  BY <1>1
<1> QED
  BY <1>1, <1>2, <1>3, <1>4, <1>5

\* GoP by GoP, and in a GoP track by track.
LEMMA TurnOrder ==
  ASSUME NEW n \in Nat, NEW g \in Nat, NEW h \in Nat, NEW k \in 1..n, NEW l \in 1..n
  PROVE  /\ g * n + k \in Int
         /\ g * n + k < h * n + l <=> g < h \/ (g = h /\ k < l)
         /\ g * n + k = h * n + l => g = h /\ k = l
<1>1. g * n \in Nat /\ h * n \in Nat
  OBVIOUS
<1>2. ASSUME NEW a \in Nat, NEW b \in Nat, a < b PROVE a * n + n <= b * n
  <2>1. (a + 1) * n <= b * n
    BY <1>2
  <2>2. (a + 1) * n = a * n + n
    OBVIOUS
  <2> QED
    BY <2>1, <2>2
<1>3. g < h => g * n + n <= h * n
  BY <1>2
<1>4. h < g => h * n + n <= g * n
  BY <1>2
<1> QED
  BY <1>1, <1>3, <1>4

\* What a list of segments to write is: each holds samples of a track in a
\* GoP, in order; the GoPs ascend, and in a GoP the tracks; every sample of
\* every track is in one of them.
Slotted(plans, sl, G) ==
  /\ Len(sl) \in Nat /\ DOMAIN sl = 1..Len(sl)
  /\ \A x \in 1..Len(sl) :
       /\ sl[x].k \in DOMAIN plans
       /\ Len(sl[x].samples) \in Nat \ {0} /\ DOMAIN sl[x].samples = 1..Len(sl[x].samples)
       /\ G[x] \in Nat
  /\ \A x, y \in 1..Len(sl) : x < y => G[x] < G[y] \/ (G[x] = G[y] /\ sl[x].k < sl[y].k)
  /\ \A x \in 1..Len(sl) : Sorts(sl[x].samples, Len(sl[x].samples), SamplesIn(plans, sl[x].k, G[x]))
  /\ \A k \in DOMAIN plans : \A i \in DOMAIN plans[k].samples :
       \E x \in 1..Len(sl) : sl[x].k = k /\ G[x] = GopIn(plans, k, i)

LEMMA SlotsAre ==
  ASSUME NEW plans, Planned(plans)
  PROVE  \E G : Slotted(plans, SlotsOf(plans), G)
<1>0. plans \in Seq(TrackPlan)
  BY DEF Planned
<1> DEFINE parts == Partition(plans)
           N == Len(plans)
           gops == IF plans = <<>> THEN 0 ELSE Len(parts[1])
           held == {x \in (1..gops) \X DOMAIN plans : parts[x[2]][x[1]] # <<>>}
           w == [x \in held |-> x[1] * N + x[2]]
           order == AscendingBy(held, w)
           sl == [i \in DOMAIN order |-> [k |-> order[i][2], samples |-> parts[order[i][2]][order[i][1]]]]
<1>1. SlotsOf(plans) = sl
  BY Zenon DEF SlotsOf
<1>2. N \in Nat /\ DOMAIN plans = 1..N /\ \A k \in DOMAIN plans : plans[k] \in TrackPlan
  BY <1>0
<1>3. /\ gops \in Nat
      /\ plans # <<>> => gops # 0 /\ GopStarts(plans) \in [1..gops -> Nat]
  <2>1. CASE plans = <<>>
    BY <2>1
  <2>2. CASE plans # <<>>
    <3>1. PICK n \in Nat \ {0} : GopStarts(plans) \in [1..n -> Nat]
      BY <2>2, GopStartsAre
    <3>2. 1 \in DOMAIN plans
      BY <1>2, <2>2, <1>0
    <3>3. parts[1] = [g \in 1..n |-> Ascending(SamplesIn(plans, 1, g))]
      BY <3>1, <3>2, PartitionIs
    <3> HIDE DEF parts
    <3>4. Len(parts[1]) = n
      BY <3>3
    <3> QED
      BY <2>2, <3>1, <3>4
  <2> QED
    BY <2>1, <2>2
<1>4. ASSUME NEW g \in 1..gops, NEW k \in DOMAIN plans
      PROVE  /\ parts[k][g] = Ascending(SamplesIn(plans, k, g))
             /\ Sorts(parts[k][g], Len(parts[k][g]), SamplesIn(plans, k, g))
             /\ Len(parts[k][g]) \in Nat /\ DOMAIN parts[k][g] = 1..Len(parts[k][g])
             /\ parts[k][g] # <<>> <=> SamplesIn(plans, k, g) # {}
             /\ parts[k][g] # <<>> => Len(parts[k][g]) # 0
  <2>1. plans # <<>>
    BY <1>0
  <2>2. g \in DOMAIN GopStarts(plans)
    BY <1>3, <2>1
  <2>3. parts[k][g] = Ascending(SamplesIn(plans, k, g))
    BY <2>2, PartitionIs
  <2>4. PICK s, T : s = parts[k][g] /\ T = SamplesIn(plans, k, g)
    OBVIOUS
  <2>5. Len(plans[k].samples) \in Int /\ T \in SUBSET (1..Len(plans[k].samples))
    BY <1>2, <2>4, PlanFields DEF SamplesIn
  <2>6. s = Ascending(T)
    BY <2>3, <2>4
  <2>7. Sorts(s, Cardinality(T), T)
    BY <2>5, <2>6, SortedWithin
  <2>8. /\ Len(s) = Cardinality(T) /\ DOMAIN s = 1..Cardinality(T) /\ (s # <<>> <=> T # {})
        /\ (s # <<>> => Len(s) # 0)
    BY <2>7, SortedEmpty
  <2>9. Cardinality(T) \in Nat
    BY <2>7 DEF Sorts
  <2> HIDE DEF parts
  <2> QED
    BY <2>3, <2>4, <2>7, <2>8, <2>9
<1> HIDE DEF parts, gops
<1>5. \A x \in held : x[1] \in 1..gops /\ x[1] \in Nat /\ x[2] \in 1..N /\ x = <<x[1], x[2]>>
  BY <1>2, <1>3
<1>6. \A x, y \in held : /\ w[x] \in Int
                         /\ w[x] < w[y] <=> x[1] < y[1] \/ (x[1] = y[1] /\ x[2] < y[2])
                         /\ w[x] = w[y] => x = y
  <2> SUFFICES ASSUME NEW x \in held, NEW y \in held
               PROVE  /\ w[x] \in Int
                      /\ w[x] < w[y] <=> x[1] < y[1] \/ (x[1] = y[1] /\ x[2] < y[2])
                      /\ w[x] = w[y] => x = y
    OBVIOUS
  <2>1. w[x] = x[1] * N + x[2] /\ w[y] = y[1] * N + y[2]
    OBVIOUS
  <2> HIDE DEF held, w
  <2>2. /\ x[1] \in Nat /\ x[2] \in 1..N /\ x = <<x[1], x[2]>>
        /\ y[1] \in Nat /\ y[2] \in 1..N /\ y = <<y[1], y[2]>>
    BY <1>5
  <2>3. /\ w[x] \in Int
        /\ w[x] < w[y] <=> x[1] < y[1] \/ (x[1] = y[1] /\ x[2] < y[2])
        /\ w[x] = w[y] => x[1] = y[1] /\ x[2] = y[2]
    <3>1. PICK g \in Nat, k \in 1..N, h \in Nat, l \in 1..N :
            g = x[1] /\ k = x[2] /\ h = y[1] /\ l = y[2]
      BY <2>2
    <3>2. w[x] = g * N + k /\ w[y] = h * N + l
      BY <2>1, <3>1
    <3>3. N \in Nat
      BY <1>2
    <3> HIDE DEF N
    <3>4. /\ g * N + k \in Int
          /\ g * N + k < h * N + l <=> g < h \/ (g = h /\ k < l)
          /\ g * N + k = h * N + l => g = h /\ k = l
      BY <3>3, TurnOrder
    <3> QED
      BY Zenon, <3>1, <3>2, <3>4
  <2> QED
    BY <2>2, <2>3
<1>7. IsFiniteSet(held)
  <2>1. IsFiniteSet(1..gops) /\ IsFiniteSet(DOMAIN plans)
    BY <1>2, <1>3, FS_Interval
  <2>2. IsFiniteSet((1..gops) \X DOMAIN plans)
    BY <2>1, FS_Product
  <2>3. held \in SUBSET ((1..gops) \X DOMAIN plans)
    OBVIOUS
  <2> HIDE DEF held
  <2> QED
    BY <2>2, <2>3, FS_Subset
<1>8. Weighs(held, w)
  <2>1. w = [x \in held |-> w[x]]
    OBVIOUS
  <2> HIDE DEF held, w
  <2>2. w \in [held -> Int]
    BY <1>6, <2>1
  <2> QED
    BY <1>6, <1>7, <2>2 DEF Weighs
<1>9. PICK n : n = Cardinality(held)
  OBVIOUS
<1>10. n \in Nat /\ Order(order, n, held, w) /\ Onto(order, n, held)
  <2> HIDE DEF held, w
  <2> QED
    BY <1>8, <1>9, AscendingIsOrdered
<1>11. /\ DOMAIN order = 1..n
       /\ \A x \in 1..n : order[x] \in held
       /\ \A x, y \in 1..n : x < y => w[order[x]] < w[order[y]]
       /\ \A z \in held : \E x \in 1..n : order[x] = z
  <2> HIDE DEF held, w, order
  <2> QED
    BY <1>10 DEF Order, Onto
<1> HIDE DEF order
<1>12. sl = [x \in 1..n |-> [k |-> order[x][2], samples |-> parts[order[x][2]][order[x][1]]]]
  BY <1>11
<1> HIDE DEF sl
<1>13. Len(sl) = n /\ DOMAIN sl = 1..n
  BY <1>10, <1>12
<1>14. PICK G : G = [x \in 1..n |-> order[x][1]]
  OBVIOUS
<1>15. ASSUME NEW x \in 1..n
       PROVE  /\ order[x] \in held
              /\ sl[x].k = order[x][2] /\ sl[x].k \in DOMAIN plans
              /\ G[x] = order[x][1] /\ G[x] \in 1..gops
              /\ sl[x].samples = parts[sl[x].k][G[x]] /\ sl[x].samples # <<>>
  <2>1. order[x] \in held
    BY <1>11
  <2>3. parts[order[x][2]][order[x][1]] # <<>>
    BY <2>1
  <2> HIDE DEF held
  <2>2. order[x][1] \in 1..gops /\ order[x][2] \in DOMAIN plans
    BY <1>2, <1>5, <2>1
  <2> QED
    BY <1>12, <1>14, <2>1, <2>2, <2>3
<1>16. ASSUME NEW x \in 1..n
       PROVE  /\ sl[x].k \in DOMAIN plans
              /\ Len(sl[x].samples) \in Nat \ {0} /\ DOMAIN sl[x].samples = 1..Len(sl[x].samples)
              /\ G[x] \in Nat
              /\ Sorts(sl[x].samples, Len(sl[x].samples), SamplesIn(plans, sl[x].k, G[x]))
  <2>1. /\ sl[x].k \in DOMAIN plans /\ G[x] \in 1..gops
        /\ sl[x].samples = parts[sl[x].k][G[x]] /\ sl[x].samples # <<>>
    BY <1>15
  <2>2. G[x] \in Nat
    BY <1>3, <2>1
  <2> QED
    BY <1>4, <2>1, <2>2
<1>17. ASSUME NEW x \in 1..n, NEW y \in 1..n, x < y
       PROVE  G[x] < G[y] \/ (G[x] = G[y] /\ sl[x].k < sl[y].k)
  <2>1. w[order[x]] < w[order[y]] /\ order[x] \in held /\ order[y] \in held
    BY <1>11, <1>17
  <2> HIDE DEF w, held
  <2>2. \/ order[x][1] < order[y][1]
        \/ order[x][1] = order[y][1] /\ order[x][2] < order[y][2]
    BY <1>6, <2>1
  <2> QED
    BY <1>15, <2>2
<1>18. ASSUME NEW k \in DOMAIN plans, NEW i \in DOMAIN plans[k].samples
       PROVE  \E x \in 1..n : sl[x].k = k /\ G[x] = GopIn(plans, k, i)
  <2>1. plans # <<>>
    BY <1>0
  <2>2. GopIn(plans, k, i) \in 1..gops
    <3>1. gops \in Nat \ {0} /\ GopStarts(plans) \in [1..gops -> Nat]
      BY <1>3, <2>1
    <3>2. i \in 1..Len(plans[k].samples)
      BY <1>2, PlanFields
    <3> QED
      BY <3>1, <3>2, GopsAre
  <2>3. PICK g : g = GopIn(plans, k, i)
    OBVIOUS
  <2>4. i \in SamplesIn(plans, k, g)
    BY <2>3 DEF SamplesIn
  <2>5. parts[k][g] # <<>>
    BY <1>4, <2>2, <2>3, <2>4
  <2>6. <<g, k>> \in held
    BY <2>2, <2>3, <2>5
  <2> HIDE DEF held
  <2>7. PICK x \in 1..n : order[x] = <<g, k>>
    BY <1>11, <2>6
  <2>8. sl[x].k = k /\ G[x] = g
    BY <1>15, <2>7
  <2> QED
    BY <2>3, <2>8
<1>19. Slotted(plans, sl, G)
  BY <1>10, <1>13, <1>16, <1>17, <1>18 DEF Slotted
<1> QED
  BY <1>1, <1>19

-----------------------------------------------------------------------------
(* Files.                                                                  *)

\* Every box of a file starts before its end.
Headed(file) ==
  /\ file.size \in Nat
  /\ \A p \in DOMAIN file.head : p \in Nat /\ p < file.size

\* One file is another with more boxes.
Grown(file, more) ==
  /\ DOMAIN file.head \subseteq DOMAIN more.head
  /\ \A p \in DOMAIN file.head : more.head[p] = file.head[p]

\* A file with one box more.
OneMore(file, more, a) ==
  /\ DOMAIN more.head = DOMAIN file.head \cup {file.size}
  /\ more.head[file.size] = a
  /\ \A p \in DOMAIN file.head : more.head[p] = file.head[p]

LEMMA HeadAdded ==
  ASSUME NEW file, NEW more, NEW a, Headed(file), more.head = WithBox(file, a)
  PROVE  OneMore(file, more, a)
<1>1. PICK q, h : q = file.size /\ h = file.head
  OBVIOUS
<1>2. q \notin DOMAIN h
  BY <1>1 DEF Headed
<1>3. more.head = [p \in DOMAIN h \cup {q} |-> IF p = q THEN a ELSE h[p]]
  BY Zenon, <1>1 DEF WithBox
<1>4. DOMAIN more.head = DOMAIN h \cup {q} /\ more.head[q] = a
  BY <1>3
<1>5. \A p \in DOMAIN h : more.head[p] = h[p]
  BY <1>2, <1>3
<1> QED
  BY <1>1, <1>4, <1>5 DEF OneMore

LEMMA AtomAdded ==
  ASSUME NEW file, NEW a, Headed(file), a.len \in Nat \ {0},
         NEW more, more = AddAtom(file, a)
  PROVE  /\ Headed(more)
         /\ more.size = file.size + a.len
         /\ OneMore(file, more, a)
         /\ Grown(file, more)
<1>1. more.head = WithBox(file, a) /\ more.size = file.size + a.len
  BY DEF AddAtom
<1>2. OneMore(file, more, a)
  BY <1>1, HeadAdded
<1>3. Headed(more)
  BY <1>1, <1>2 DEF Headed, OneMore
<1>4. Grown(file, more)
  BY <1>2 DEF Grown, OneMore
<1> QED
  BY <1>1, <1>2, <1>3, <1>4

LEMMA EnvelopeAdded ==
  ASSUME NEW file, NEW n, Headed(file), NEW more, more = AddEnvelope(file, n)
  PROVE  /\ Headed(more)
         /\ \E a : OneMore(file, more, a) /\ a.kind = "mdat" /\ a.hlen = 16 /\ a.len = 16 + n
<1>1. PICK a : a = Atom("mdat", 16, 16 + n, Nothing)
  OBVIOUS
<1>2. more.head = WithBox(file, a) /\ more.size = file.size + 16
  BY <1>1 DEF AddEnvelope
<1>3. a.kind = "mdat" /\ a.hlen = 16 /\ a.len = 16 + n
  BY <1>1 DEF Atom
<1>4. OneMore(file, more, a)
  BY <1>2, HeadAdded
<1>5. Headed(more)
  BY <1>2, <1>4 DEF Headed, OneMore
<1> QED
  BY <1>3, <1>4, <1>5

\* The moofs of a track, in a file.
Moofs(file, id) ==
  {p \in DOMAIN file.head : /\ file.head[p].kind = "moof"
                            /\ file.head[p].body.trafs[1].track = id}

LEMMA MoofsAdded ==
  ASSUME NEW file, NEW a, NEW more, OneMore(file, more, a), Headed(file), NEW id
  PROVE  Moofs(more, id) = Moofs(file, id) \cup
           (IF a.kind = "moof" /\ a.body.trafs[1].track = id THEN {file.size} ELSE {})
<1>1. file.size \notin DOMAIN file.head
  BY DEF Headed
<1>2. PICK h, m, q : h = file.head /\ m = more.head /\ q = file.size
  OBVIOUS
<1>3. /\ DOMAIN m = DOMAIN h \cup {q} /\ m[q] = a /\ \A p \in DOMAIN h : m[p] = h[p]
      /\ q \notin DOMAIN h
  BY <1>1, <1>2 DEF OneMore
<1> DEFINE Is(b) == b.kind = "moof" /\ b.body.trafs[1].track = id
<1>4. Moofs(more, id) = {p \in DOMAIN m : Is(m[p])} /\ Moofs(file, id) = {p \in DOMAIN h : Is(h[p])}
  BY <1>2 DEF Moofs
<1> HIDE DEF Is
<1>5. {p \in DOMAIN m : Is(m[p])} = {p \in DOMAIN h : Is(h[p])} \cup (IF Is(a) THEN {q} ELSE {})
  <2>1. CASE Is(a)
    BY <1>3, <2>1
  <2>2. CASE ~Is(a)
    BY <1>3, <2>2
  <2> QED
    BY <2>1, <2>2
<1> QED
  BY <1>2, <1>4, <1>5 DEF Is

-----------------------------------------------------------------------------
(* Lengths.                                                                *)

SumsOf(s) ==
  CHOOSE f : f = [i \in 0..Len(s) |-> IF i = 0 THEN 0 ELSE f[i - 1] + s[i]]

LEMMA SumSeqIs == \A s : SumSeq(s) = SumsOf(s)[Len(s)]
  BY Zenon DEF SumSeq, SumsOf

\* A list of numbers adds up to a number.
LEMMA SumSeqIsNat ==
  ASSUME NEW s, NEW n \in Nat, Len(s) = n, \A i \in 1..n : s[i] \in Nat
  PROVE  SumSeq(s) \in Nat
<1> DEFINE Body(f) == [i \in 0..n |-> IF i = 0 THEN 0 ELSE f[i - 1] + s[i]]
<1>1. PICK st : st = [i \in 1..n |-> [x \in Nat |-> x + s[i]]]
  OBVIOUS
<1>2. PICK f : Follows(f, 0, n, Nat, 0, st)
  <2>1. st \in [1..n -> [Nat -> Nat]]
    BY <1>1
  <2>2. (0 + 1)..n = 1..n
    OBVIOUS
  <2>3. st \in [(0 + 1)..n -> [Nat -> Nat]]
    BY Zenon, <2>1, <2>2
  <2>4. 0 \in Nat /\ n \in Nat /\ 0 <= n
    OBVIOUS
  <2>5. Steps(0, n, Nat, 0, st)
    BY Zenon, <2>3, <2>4 DEF Steps
  <2> QED
    BY <2>5, PrefixRecursion
<1>3. f = Body(f)
  <2>1. (0 + 1)..n = 1..n
    OBVIOUS
  <2>2. f \in [0..n -> Nat] /\ f[0] = 0 /\ \A i \in 1..n : f[i] = st[i][f[i - 1]]
    BY <1>2, <2>1 DEF Follows
  <2>3. \A i \in 0..n : i # 0 => i \in 1..n /\ i - 1 \in 0..n
    OBVIOUS
  <2>4. \A i \in 0..n : i # 0 => f[i] = f[i - 1] + s[i]
    BY <1>1, <2>2, <2>3
  <2> QED
    BY <2>2, <2>4
<1>4. PICK g : g = SumsOf(s)
  OBVIOUS
<1>5. g = Body(g)
  <2>1. g = CHOOSE h : h = Body(h)
    BY <1>4 DEF SumsOf
  <2> HIDE DEF Body
  <2> QED
    BY <1>3, <2>1
<1>6. \A i \in 0..n : g[i] \in Nat
  <2>1. g[0] \in Nat
    BY <1>5
  <2>2. ASSUME NEW i \in 1..n, g[i - 1] \in Nat PROVE g[i] \in Nat
    <3>1. i \in 0..n /\ i # 0
      OBVIOUS
    <3>2. g[i] = g[i - 1] + s[i]
      BY <1>5, <3>1
    <3> QED
      BY <2>2, <3>2
  <2>3. 0 \in Nat /\ n \in Nat /\ 1 = 0 + 1
    OBVIOUS
  <2> QED
    BY <2>1, <2>2, <2>3, PrefixInduction
<1>7. SumSeq(s) = g[n] /\ n \in 0..n
  BY <1>4, SumSeqIs
<1> QED
  BY <1>6, <1>7

RunsOf(v) ==
  CHOOSE f : f = [i \in 0..Len(v) |->
    LET before == f[i - 1]
    IN  IF i = 0 THEN <<>>
        ELSE IF i > 1 /\ v[i] = v[i - 1]
        THEN [before EXCEPT ![Len(before)].count = @ + 1]
        ELSE Append(before, [count |-> 1, value |-> v[i]])]

LEMMA RunsIs == \A v : Runs(v) = RunsOf(v)[Len(v)]
  BY Zenon DEF Runs, RunsOf

\* A run more, or one longer by one.
LEMMA RunTaken ==
  ASSUME NEW V, NEW q \in Seq([count : Nat, value : V]), NEW x \in V
  PROVE  /\ [q EXCEPT ![Len(q)].count = @ + 1] \in Seq([count : Nat, value : V])
         /\ Append(q, [count |-> 1, value |-> x]) \in Seq([count : Nat, value : V])
<1> DEFINE R == [count : Nat, value : V]
<1>1. [count |-> 1, value |-> x] \in R
  OBVIOUS
<1>2. Append(q, [count |-> 1, value |-> x]) \in Seq(R)
  <2>1. q \in Seq(R)
    OBVIOUS
  <2> HIDE DEF R
  <2> QED
    BY <1>1, <2>1
<1>3. PICK n : n = Len(q)
  OBVIOUS
<1>4. n \in Nat /\ DOMAIN q = 1..n /\ \A i \in 1..n : q[i] \in R
  <2>1. q \in Seq(R)
    OBVIOUS
  <2> HIDE DEF R
  <2> QED
    BY <1>3, <2>1
<1>5. PICK p : p = [q EXCEPT ![n].count = @ + 1]
  OBVIOUS
<1>6. DOMAIN p = 1..n
  BY <1>4, <1>5
<1>7. ASSUME NEW i \in 1..n PROVE p[i] \in R
  <2>1. CASE i = n
    <3>1. p[i] = [q[i] EXCEPT !.count = @ + 1]
      BY <1>4, <1>5, <2>1
    <3> QED
      BY <1>4, <3>1
  <2>2. CASE i # n
    BY <1>4, <1>5, <2>2
  <2> QED
    BY <2>1, <2>2
<1>8. p \in Seq(R)
  <2> HIDE DEF R
  <2>1. p = [i \in 1..n |-> p[i]]
    BY <1>5, <1>6
  <2> QED
    BY <1>4, <1>7, <2>1
<1> QED
  BY <1>2, <1>3, <1>5, <1>8

LEMMA RunsAre ==
  ASSUME NEW v, NEW n \in Nat, Len(v) = n
  PROVE  Len(Runs(v)) \in Nat
<1> DEFINE V == {v[i] : i \in 1..n}
           A == Seq([count : Nat, value : V])
           Longer(q) == [q EXCEPT ![Len(q)].count = @ + 1]
           More(q, i) == Append(q, [count |-> 1, value |-> v[i]])
           Next1(q, i) == IF i > 1 /\ v[i] = v[i - 1] THEN Longer(q) ELSE More(q, i)
           Body(f) == [i \in 0..n |-> IF i = 0 THEN <<>> ELSE Next1(f[i - 1], i)]
           st == [i \in 1..n |-> [q \in A |-> Next1(q, i)]]
<1>1. ASSUME NEW q \in A, NEW i \in 1..n PROVE Next1(q, i) \in A
  <2>1. v[i] \in V
    OBVIOUS
  <2>2. Longer(q) \in A /\ More(q, i) \in A
    <3> HIDE DEF V
    <3> QED
      BY <2>1, RunTaken
  <2> HIDE DEF A, Longer, More
  <2> QED
    BY Zenon, <2>2
<1>2. <<>> \in A
  OBVIOUS
<1> HIDE DEF A, Longer, More
<1>3. st \in [1..n -> [A -> A]]
  <2> HIDE DEF Next1
  <2> QED
    BY <1>1
<1>4. PICK f : Follows(f, 0, n, A, <<>>, st)
  <2> HIDE DEF st
  <2>1. (0 + 1)..n = 1..n
    OBVIOUS
  <2>2. st \in [(0 + 1)..n -> [A -> A]]
    BY Zenon, <1>3, <2>1
  <2>3. 0 \in Nat /\ n \in Nat /\ 0 <= n
    OBVIOUS
  <2>4. Steps(0, n, A, <<>>, st)
    BY Zenon, <1>2, <2>2, <2>3 DEF Steps
  <2> QED
    BY <2>4, PrefixRecursion
<1>5. f = Body(f)
  <2> HIDE DEF Next1
  <2>1. f \in [0..n -> A] /\ f[0] = <<>> /\ \A i \in 1..n : f[i] = st[i][f[i - 1]]
    <3> HIDE DEF st
    <3>1. (0 + 1)..n = 1..n
      OBVIOUS
    <3> QED
      BY <1>4, <3>1 DEF Follows
  <2>2. \A i \in 0..n : i # 0 => i \in 1..n /\ i - 1 \in 0..n
    OBVIOUS
  <2>3. \A i \in 0..n : i # 0 => f[i] = Next1(f[i - 1], i)
    BY <2>1, <2>2
  <2> QED
    BY <2>1, <2>3
<1>6. PICK g : g = RunsOf(v)
  OBVIOUS
<1>7. g = Body(g)
  <2>1. g = CHOOSE h : h = Body(h)
    BY <1>6 DEF RunsOf, Longer, More
  <2> HIDE DEF Body
  <2> QED
    BY <1>5, <2>1
<1>8. \A i \in 0..n : g[i] \in A
  <2> HIDE DEF Next1
  <2>1. g[0] = <<>>
    BY <1>7
  <2>2. ASSUME NEW i \in 1..n, g[i - 1] \in A PROVE g[i] \in A
    <3>1. i \in 0..n /\ i # 0
      OBVIOUS
    <3>2. g[i] = Next1(g[i - 1], i)
      BY <1>7, <3>1
    <3> QED
      BY <1>1, <2>2, <3>2
  <2>3. 0 \in Nat /\ n \in Nat /\ 1 = 0 + 1
    OBVIOUS
  <2> QED
    BY <1>2, <2>1, <2>2, <2>3, PrefixInduction
<1>9. Runs(v) \in A
  <2>1. Runs(v) = g[n] /\ n \in 0..n
    BY <1>6, RunsIs
  <2> QED
    BY <1>8, <2>1
<1> QED
  <2>1. PICK B : B = [count : Nat, value : V]
    OBVIOUS
  <2>2. Runs(v) \in Seq(B)
    BY <1>9, <2>1 DEF A
  <2> QED
    BY <2>2

-----------------------------------------------------------------------------
(* The plan of the body.                                                   *)

LEMMA PartsAre ==
  ASSUME NEW plans, Planned(plans), plans # <<>>
  PROVE  \E n \in Nat \ {0} : \A k \in DOMAIN plans :
           /\ Len(Partition(plans)[k]) = n /\ DOMAIN Partition(plans)[k] = 1..n
           /\ \A g \in 1..n :
                Sorts(Partition(plans)[k][g], Len(Partition(plans)[k][g]), SamplesIn(plans, k, g))
<1>1. PICK n \in Nat \ {0} : GopStarts(plans) \in [1..n -> Nat]
  BY GopStartsAre
<1>2. DOMAIN GopStarts(plans) = 1..n
  BY <1>1
<1>3. ASSUME NEW k \in DOMAIN plans
      PROVE  /\ Len(Partition(plans)[k]) = n /\ DOMAIN Partition(plans)[k] = 1..n
             /\ \A g \in 1..n :
                  Sorts(Partition(plans)[k][g], Len(Partition(plans)[k][g]), SamplesIn(plans, k, g))
  <2>1. PICK p : p = Partition(plans)[k]
    OBVIOUS
  <2>2. p = [g \in 1..n |-> Ascending(SamplesIn(plans, k, g))]
    BY <1>2, <2>1, PartitionIs
  <2>3. Len(p) = n /\ DOMAIN p = 1..n
    BY <2>2
  <2>4. ASSUME NEW g \in 1..n PROVE Sorts(p[g], Len(p[g]), SamplesIn(plans, k, g))
    <3>1. PICK s, T : s = p[g] /\ T = SamplesIn(plans, k, g)
      OBVIOUS
    <3>2. plans[k] \in TrackPlan
      BY DEF Planned
    <3>3. Len(plans[k].samples) \in Int /\ T \in SUBSET (1..Len(plans[k].samples))
      BY <3>1, <3>2, PlanFields DEF SamplesIn
    <3>4. s = Ascending(T)
      BY <2>2, <3>1
    <3>5. Sorts(s, Cardinality(T), T)
      BY <3>3, <3>4, SortedWithin
    <3>6. Len(s) = Cardinality(T)
      BY <3>5, SortedEmpty
    <3> QED
      BY <3>1, <3>5, <3>6
  <2> QED
    BY <2>1, <2>3, <2>4
<1> QED
  BY <1>1, <1>3

\* The metadata of GoPs: each describes segments of some of the tracks.
Described(metas, ids) ==
  /\ Len(metas) \in Nat /\ DOMAIN metas = 1..Len(metas)
  /\ \A g \in DOMAIN metas :
       /\ DOMAIN metas[g].index \subseteq ids
       /\ \A id \in DOMAIN metas[g].index : \E m \in Nat : DOMAIN metas[g].index[id].durs = 1..m

PlanIds(plans) == {plans[k].track : k \in DOMAIN plans}

LEMMA PlanBodyIs ==
  ASSUME NEW plans, Planned(plans)
  PROVE  Described(PlanBody(plans), PlanIds(plans))
<1>1. CASE plans = <<>>
  <2>1. PlanBody(plans) = <<>>
    BY <1>1 DEF PlanBody
  <2> QED
    BY <2>1 DEF Described
<1>2. CASE plans # <<>>
  <2>1. PICK n \in Nat \ {0} : \A k \in DOMAIN plans :
           /\ Len(Partition(plans)[k]) = n /\ DOMAIN Partition(plans)[k] = 1..n
           /\ \A g \in 1..n :
                Sorts(Partition(plans)[k][g], Len(Partition(plans)[k][g]), SamplesIn(plans, k, g))
    BY <1>2, PartsAre
  <2>2. PICK parts : parts = Partition(plans)
    OBVIOUS
  <2>3. \A k \in DOMAIN plans : /\ DOMAIN parts[k] = 1..n
                                /\ \A g \in 1..n : Sorts(parts[k][g], Len(parts[k][g]), SamplesIn(plans, k, g))
    BY <2>1, <2>2
  <2>4. 1 \in DOMAIN plans
    BY <1>2, ReferenceIs
  <2> DEFINE Slice(k, g) == [j \in DOMAIN parts[k][g] |-> plans[k].samples[parts[k][g][j]]]
             Ids(g)  == {plans[k].track : k \in {j \in DOMAIN plans : parts[j][g] # <<>>}}
             By(id)  == CHOOSE k \in DOMAIN plans : plans[k].track = id
             First   == [id \in {plans[k].track : k \in DOMAIN plans} |-> plans[By(id)].start]
             Meta(g) == MetaOf([id \in Ids(g) |-> IndexOf(Slice(By(id), g), PrefixLen[id])],
                               IF g > 1 THEN <<>> ELSE First)
  <2>5. PlanBody(plans) = [g \in DOMAIN parts[1] |-> Meta(g)]
    <3>1. PlanBody(plans) = MetasOf(plans, parts)
      BY <1>2, <2>2 DEF PlanBody
    <3>2. MetasOf(plans, parts) = [g \in DOMAIN parts[1] |-> Meta(g)]
      BY DEF MetasOf
    <3> QED
      BY <3>1, <3>2
  <2>6. \A g : Meta(g).index = [id \in Ids(g) |-> IndexOf(Slice(By(id), g), PrefixLen[id])]
    BY DEF MetaOf
  <2>7. ASSUME NEW g \in 1..n, NEW id \in Ids(g)
        PROVE  id \in PlanIds(plans) /\ \E m \in Nat : DOMAIN IndexOf(Slice(By(id), g), PrefixLen[id]).durs = 1..m
    <3>1. id \in PlanIds(plans)
      BY <2>7 DEF PlanIds
    <3>2. By(id) \in DOMAIN plans
      BY <3>1 DEF PlanIds
    <3>3. PICK k, s : k = By(id) /\ s = parts[k][g]
      OBVIOUS
    <3>4. Sorts(s, Len(s), SamplesIn(plans, k, g))
      BY <2>3, <3>2, <3>3
    <3>5. Len(s) \in Nat /\ DOMAIN s = 1..Len(s)
      BY <3>4, SortedEmpty DEF Sorts
    <3>6. PICK sl : sl = Slice(k, g)
      OBVIOUS
    <3>7. DOMAIN sl = 1..Len(s)
      BY <3>3, <3>5, <3>6
    <3>8. IndexOf(sl, PrefixLen[id]).durs = [i \in DOMAIN sl |-> sl[i].dur]
      BY DEF IndexOf, Field
    <3>9. IndexOf(Slice(By(id), g), PrefixLen[id]) = IndexOf(sl, PrefixLen[id])
      BY <3>3, <3>6
    <3> QED
      BY <3>1, <3>5, <3>7, <3>8, <3>9
  <2>8. DOMAIN parts[1] = 1..n
    BY <2>3, <2>4
  <2>9. PICK metas : metas = PlanBody(plans)
    OBVIOUS
  <2> HIDE DEF Meta
  <2>10. metas = [g \in 1..n |-> Meta(g)]
    BY <2>5, <2>8, <2>9
  <2>11. Len(metas) = n /\ DOMAIN metas = 1..n
    BY <2>10
  <2> HIDE DEF Slice, By, Ids
  <2>12. \A g \in 1..n : metas[g].index = [id \in Ids(g) |-> IndexOf(Slice(By(id), g), PrefixLen[id])]
    <3>1. ASSUME NEW g \in 1..n
          PROVE  metas[g].index = [id \in Ids(g) |-> IndexOf(Slice(By(id), g), PrefixLen[id])]
      <4>1. metas[g] = Meta(g)
        BY <2>10
      <4>2. Meta(g).index = [id \in Ids(g) |-> IndexOf(Slice(By(id), g), PrefixLen[id])]
        BY <2>6
      <4> QED
        BY <4>1, <4>2
    <3> QED
      BY <3>1
  <2>13. ASSUME NEW g \in 1..n
         PROVE  /\ DOMAIN metas[g].index \subseteq PlanIds(plans)
                /\ \A id \in DOMAIN metas[g].index : \E m \in Nat : DOMAIN metas[g].index[id].durs = 1..m
    <3>1. PICK index : index = metas[g].index
      OBVIOUS
    <3>2. index = [id \in Ids(g) |-> IndexOf(Slice(By(id), g), PrefixLen[id])]
      BY <2>12, <3>1
    <3>3. DOMAIN index = Ids(g)
      BY <3>2
    <3>4. ASSUME NEW id \in Ids(g) PROVE id \in PlanIds(plans) /\ \E m \in Nat : DOMAIN index[id].durs = 1..m
      <4>1. index[id] = IndexOf(Slice(By(id), g), PrefixLen[id])
        BY <3>2
      <4> QED
        BY <2>7, <4>1
    <3> QED
      BY <3>1, <3>3, <3>4
  <2> QED
    BY <2>9, <2>11, <2>13 DEF Described
<1> QED
  BY <1>1, <1>2

Listed(metas, id) ==
  CHOOSE f : f = [g \in 0..Len(metas) |->
    IF g = 0 THEN <<>>
    ELSE IF id \notin DOMAIN metas[g].index THEN f[g - 1]
    ELSE f[g - 1] \o
           [i \in DOMAIN metas[g].index[id].durs |->
              [dur |-> metas[g].index[id].durs[i], size |-> metas[g].index[id].sizes[i],
               sync |-> i \in metas[g].index[id].syncs, cts |-> metas[g].index[id].ctss[i], at |-> 0]]]

LEMMA SamplesOfMetasIs ==
  \A metas, id : SamplesOfMetas(metas, id) = Listed(metas, id)[Len(metas)]
BY Zenon DEF SamplesOfMetas, Listed

LEMMA SamplesOfMetasAre ==
  ASSUME NEW metas, NEW ids, Described(metas, ids), NEW id
  PROVE  /\ Len(SamplesOfMetas(metas, id)) \in Nat
         /\ DOMAIN SamplesOfMetas(metas, id) = 1..Len(SamplesOfMetas(metas, id))
<1>0. PICK n : n = Len(metas)
  OBVIOUS
<1> DEFINE Sam(g) == [i \in DOMAIN metas[g].index[id].durs |->
              [dur |-> metas[g].index[id].durs[i], size |-> metas[g].index[id].sizes[i],
               sync |-> i \in metas[g].index[id].syncs, cts |-> metas[g].index[id].ctss[i], at |-> 0]]
           Has == {g \in 1..n : id \in DOMAIN metas[g].index}
           V == UNION {{Sam(g)[i] : i \in DOMAIN Sam(g)} : g \in Has}
           A == Seq(V)
           Next1(q, g) == IF id \notin DOMAIN metas[g].index THEN q ELSE q \o Sam(g)
           Body(f) == [g \in 0..n |-> IF g = 0 THEN <<>> ELSE Next1(f[g - 1], g)]
           st == [g \in 1..n |-> [q \in A |-> Next1(q, g)]]
<1>1. /\ n \in Nat /\ DOMAIN metas = 1..n
      /\ \A g \in Has : \E m \in Nat : DOMAIN metas[g].index[id].durs = 1..m
  BY <1>0 DEF Described
<1>2. ASSUME NEW g \in Has PROVE Sam(g) \in A
  <2>1. PICK m \in Nat : DOMAIN metas[g].index[id].durs = 1..m
    BY <1>1
  <2>2. PICK s : s = Sam(g)
    OBVIOUS
  <2>3. DOMAIN s = 1..m /\ s = [i \in 1..m |-> s[i]]
    BY <2>1, <2>2
  <2>4. \A i \in 1..m : s[i] \in V
    <3> SUFFICES ASSUME NEW i \in 1..m PROVE s[i] \in V
      OBVIOUS
    <3> DEFINE E(h) == {Sam(h)[j] : j \in DOMAIN Sam(h)}
    <3>1. i \in DOMAIN Sam(g) /\ s[i] = Sam(g)[i]
      BY <2>2, <2>3
    <3>2. s[i] \in E(g)
      <4> HIDE DEF Sam
      <4> QED
        BY <3>1
    <3>3. V = UNION {E(h) : h \in Has}
      OBVIOUS
    <3> HIDE DEF E, V, Has, Sam
    <3> QED
      BY <3>2, <3>3
  <2> HIDE DEF V, Sam, Has
  <2>5. s \in Seq(V)
    BY <2>3, <2>4
  <2> QED
    BY <2>2, <2>5
<1>3. ASSUME NEW q \in A, NEW g \in 1..n PROVE Next1(q, g) \in A
  <2>1. CASE id \notin DOMAIN metas[g].index
    BY <2>1
  <2>2. CASE id \in DOMAIN metas[g].index
    <3>1. g \in Has
      BY <2>2
    <3>2. Sam(g) \in A
      BY <1>2, <3>1
    <3>3. q \o Sam(g) \in A
      <4> HIDE DEF V, Sam, Has
      <4> QED
        BY <3>2
    <3> HIDE DEF A, Sam
    <3> QED
      BY <2>2, <3>3
  <2> QED
    BY <2>1, <2>2
<1>4. <<>> \in A
  OBVIOUS
<1> HIDE DEF A, Sam
<1>5. st \in [1..n -> [A -> A]]
  <2> HIDE DEF Next1
  <2> QED
    BY <1>3
<1>6. PICK f : Follows(f, 0, n, A, <<>>, st)
  <2> HIDE DEF st
  <2>1. (0 + 1)..n = 1..n
    OBVIOUS
  <2>2. st \in [(0 + 1)..n -> [A -> A]]
    BY Zenon, <1>5, <2>1
  <2>3. 0 \in Nat /\ n \in Nat /\ 0 <= n
    BY <1>1
  <2>4. Steps(0, n, A, <<>>, st)
    BY Zenon, <1>4, <2>2, <2>3 DEF Steps
  <2> QED
    BY <2>4, PrefixRecursion
<1>7. f = Body(f)
  <2> HIDE DEF Next1
  <2>1. f \in [0..n -> A] /\ f[0] = <<>> /\ \A i \in 1..n : f[i] = st[i][f[i - 1]]
    <3> HIDE DEF st
    <3>1. (0 + 1)..n = 1..n
      OBVIOUS
    <3> QED
      BY <1>6, <3>1 DEF Follows
  <2>2. \A i \in 0..n : i # 0 => i \in 1..n /\ i - 1 \in 0..n
    BY <1>1
  <2>3. \A i \in 0..n : i # 0 => f[i] = Next1(f[i - 1], i)
    BY <2>1, <2>2
  <2> QED
    BY <2>1, <2>3
<1>8. PICK g : g = Listed(metas, id)
  OBVIOUS
<1>9. g = Body(g)
  <2>1. g = CHOOSE h : h = Body(h)
    BY Zenon, <1>0, <1>8 DEF Listed, Sam
  <2> HIDE DEF Body
  <2> QED
    BY <1>7, <2>1
<1>10. \A i \in 0..n : g[i] \in A
  <2> HIDE DEF Next1
  <2>1. g[0] = <<>>
    BY <1>1, <1>9
  <2>2. ASSUME NEW i \in 1..n, g[i - 1] \in A PROVE g[i] \in A
    <3>1. i \in 0..n /\ i # 0
      BY <1>1
    <3>2. g[i] = Next1(g[i - 1], i)
      BY <1>9, <3>1
    <3> QED
      BY <1>3, <2>2, <3>2
  <2>3. 0 \in Nat /\ n \in Nat /\ 1 = 0 + 1
    BY <1>1
  <2> QED
    BY <1>4, <2>1, <2>2, <2>3, PrefixInduction
<1>11. PICK s : s = SamplesOfMetas(metas, id)
  OBVIOUS
<1>12. s \in A
  <2>1. s = g[n] /\ n \in 0..n
    BY <1>0, <1>1, <1>8, <1>11, SamplesOfMetasIs
  <2> QED
    BY <1>10, <2>1
<1>13. Len(s) \in Nat /\ DOMAIN s = 1..Len(s)
  <2>1. PICK W : W = V
    OBVIOUS
  <2>2. s \in Seq(W)
    BY <1>12, <2>1 DEF A
  <2> QED
    BY <2>2
<1> QED
  BY <1>11, <1>13

\* A list of plans that a moov declares.
Listable(ps) ==
  /\ Len(ps) \in Nat /\ DOMAIN ps = 1..Len(ps)
  /\ \A i \in 1..Len(ps) : Len(ps[i].samples) \in Nat
                           /\ DOMAIN ps[i].samples = 1..Len(ps[i].samples)

Recorded(ps, n) ==
  /\ n \in Nat /\ Len(ps) = n /\ DOMAIN ps = 1..n
  /\ \A i \in 1..n : ps[i] = [track |-> ps[i].track, video |-> ps[i].video,
                              scale |-> ps[i].scale, start |-> ps[i].start,
                              samples |-> ps[i].samples]

LEMMA RebaseIs ==
  ASSUME NEW n, NEW ps, Recorded(ps, n)
  PROVE  /\ DOMAIN Rebase(ps) = 1..n /\ Len(Rebase(ps)) = n
         /\ \A i \in 1..n : Rebase(ps)[i].samples = ps[i].samples /\ Rebase(ps)[i].track = ps[i].track
<1>0. DOMAIN ps = 1..n /\ Len(ps) = n /\ n \in Nat
  BY DEF Recorded
<1> DEFINE timed == {i \in DOMAIN ps : ps[i].scale # 0}
           least == CHOOSE i \in timed : \A j \in timed :
                 ps[i].start * ps[j].scale <= ps[j].start * ps[i].scale
           Sub(p) == (ps[least].start * p.scale) \div ps[least].scale
           Other(i) == [ps[i] EXCEPT !.start = IF @ > Sub(ps[i]) THEN @ - Sub(ps[i]) ELSE 0]
<1>1. Rebase(ps) = IF timed = {} THEN ps ELSE [i \in DOMAIN ps |-> Other(i)]
  BY DEF Rebase
<1>2. ASSUME NEW i \in 1..n PROVE Other(i).samples = ps[i].samples /\ Other(i).track = ps[i].track
  <2>1. PICK p, x : p = ps[i] /\ x = Sub(p)
    OBVIOUS
  <2>2. p = [track |-> p.track, video |-> p.video, scale |-> p.scale, start |-> p.start,
             samples |-> p.samples]
    BY <2>1 DEF Recorded
  <2> HIDE DEF Sub
  <2>3. Other(i) = [p EXCEPT !.start = IF @ > x THEN @ - x ELSE 0]
    BY <2>1
  <2>4. /\ [p EXCEPT !.start = IF @ > x THEN @ - x ELSE 0].samples = p.samples
        /\ [p EXCEPT !.start = IF @ > x THEN @ - x ELSE 0].track = p.track
    BY <2>2
  <2> QED
    BY <2>1, <2>3, <2>4
<1> HIDE DEF timed, Other
<1>3. CASE timed = {}
  BY <1>0, <1>1, <1>3
<1>4. CASE timed # {}
  <2>1. Rebase(ps) = [i \in 1..n |-> Other(i)]
    BY <1>0, <1>1, <1>4
  <2> QED
    BY <1>0, <1>2, <2>1
<1> QED
  BY <1>3, <1>4

\* Each is of a track that the catalog describes.
Named(ps, catalog, ids) ==
  \A i \in DOMAIN ps : \E id \in ids : /\ IsKnown(TrackOf(catalog, id))
                                     /\ ps[i].track = TrackOf(catalog, id).track

LEMMA PlansOfMetasAre ==
  ASSUME NEW catalog, NEW metas, NEW ids, ids \in SUBSET Nat, IsFiniteSet(ids), Described(metas, ids)
  PROVE  Listable(PlansOfMetas(catalog, metas)) /\ Named(PlansOfMetas(catalog, metas), catalog, ids)
<1> DEFINE T == {id \in IdsOf(metas) : IsKnown(TrackOf(catalog, id))}
<1>1. T \in SUBSET ids
  BY DEF IdsOf, Described
<1>2. IsFiniteSet(T) /\ T \in SUBSET Int
  <2> HIDE DEF T
  <2>1. T \in SUBSET Int
    BY <1>1
  <2>2. IsFiniteSet(T)
    BY <1>1, FS_Subset
  <2> QED
    BY <2>1, <2>2
<1>3. PICK list, n : list = Ascending(T) /\ n = Cardinality(T)
  OBVIOUS
<1>4. n \in Nat /\ DOMAIN list = 1..n /\ \A i \in 1..n : list[i] \in T
  <2> HIDE DEF T
  <2>1. Sorts(list, n, T)
    BY <1>2, <1>3, Sorted
  <2> QED
    BY <2>1 DEF Sorts
<1>5. PICK ps : ps = [i \in 1..n |-> PlanOf(TrackOf(catalog, list[i]), metas)]
  OBVIOUS
<1>6. PlansOfMetas(catalog, metas) = Rebase(ps)
  BY <1>3, <1>4, <1>5 DEF PlansOfMetas
<1>7. ASSUME NEW i \in 1..n
      PROVE  /\ ps[i] = [track |-> ps[i].track, video |-> ps[i].video,
                         scale |-> ps[i].scale, start |-> ps[i].start,
                         samples |-> ps[i].samples]
             /\ Len(ps[i].samples) \in Nat /\ DOMAIN ps[i].samples = 1..Len(ps[i].samples)
  <2>1. PICK t : t = TrackOf(catalog, list[i])
    OBVIOUS
  <2>2. ps[i] = PlanOf(t, metas)
    BY <1>5, <2>1
  <2>3. PICK s : s = SamplesOfMetas(metas, t.track)
    OBVIOUS
  <2>4. Len(s) \in Nat /\ DOMAIN s = 1..Len(s)
    BY <2>3, SamplesOfMetasAre
  <2> QED
    BY <2>2, <2>3, <2>4 DEF PlanOf
<1>8. Len(ps) = n /\ DOMAIN ps = 1..n
  BY <1>4, <1>5
<1>9. PICK rs : rs = Rebase(ps)
  OBVIOUS
<1>11. Recorded(ps, n)
  BY <1>4, <1>7, <1>8 DEF Recorded
<1>10. /\ DOMAIN rs = 1..n /\ Len(rs) = n
       /\ \A i \in 1..n : rs[i].samples = ps[i].samples /\ rs[i].track = ps[i].track
  BY <1>9, <1>11, RebaseIs
<1>12. Listable(rs)
  BY <1>4, <1>7, <1>10 DEF Listable
<1>13. ASSUME NEW i \in 1..n
       PROVE  \E id \in ids : /\ IsKnown(TrackOf(catalog, id))
                              /\ rs[i].track = TrackOf(catalog, id).track
  <2>1. PICK id : id = list[i]
    OBVIOUS
  <2>2. id \in ids /\ IsKnown(TrackOf(catalog, id))
    BY <1>1, <1>4, <2>1
  <2>3. ps[i].track = TrackOf(catalog, id).track
    BY <1>5, <2>1 DEF PlanOf
  <2> QED
    BY <1>10, <2>2, <2>3
<1>14. Named(rs, catalog, ids)
  BY <1>10, <1>13 DEF Named
<1> QED
  BY <1>6, <1>9, <1>12, <1>14

\* The tables of a trak have so many entries.
Sized(trak) ==
  /\ Len(trak.edits) \in Nat /\ Len(trak.stbl.stts) \in Nat /\ Len(trak.stbl.ctts) \in Nat
  /\ Len(trak.stbl.stsz) \in Nat /\ Cardinality(trak.stbl.stss) \in Nat

SizedList(traks) ==
  /\ Len(traks) \in Nat /\ DOMAIN traks = 1..Len(traks)
  /\ \A i \in 1..Len(traks) : Sized(traks[i])

LEMMA MoovLenIs ==
  ASSUME NEW traks, SizedList(traks)
  PROVE  MoovLen(traks) \in Nat \ {0}
<1>1. PICK n : n = Len(traks)
  OBVIOUS
<1>2. n \in Nat /\ DOMAIN traks = 1..n /\ \A i \in 1..n : Sized(traks[i])
  BY <1>1 DEF SizedList
<1> DEFINE One(i) == 8 + Len(traks[i].edits) + Len(traks[i].stbl.stts) + Len(traks[i].stbl.ctts)
                       + Len(traks[i].stbl.stsz) + Cardinality(traks[i].stbl.stss)
<1>3. \A i \in 1..n : One(i) \in Nat
  <2> SUFFICES ASSUME NEW i \in 1..n PROVE One(i) \in Nat
    OBVIOUS
  <2>1. PICK a \in Nat, b \in Nat, c \in Nat, d \in Nat, e \in Nat :
          /\ a = Len(traks[i].edits) /\ b = Len(traks[i].stbl.stts) /\ c = Len(traks[i].stbl.ctts)
          /\ d = Len(traks[i].stbl.stsz) /\ e = Cardinality(traks[i].stbl.stss)
    BY <1>2 DEF Sized
  <2>2. One(i) = 8 + a + b + c + d + e
    BY <2>1
  <2> HIDE DEF One
  <2> QED
    BY <2>2
<1>4. PICK s : s = [i \in DOMAIN traks |-> One(i)]
  OBVIOUS
<1>5. MoovLen(traks) = 8 + SumSeq(s)
  BY Zenon, <1>4 DEF MoovLen
<1> HIDE DEF One
<1>6. s = [i \in 1..n |-> One(i)]
  BY <1>2, <1>4
<1>7. Len(s) = n /\ \A i \in 1..n : s[i] \in Nat
  BY <1>2, <1>3, <1>6
<1>8. SumSeq(s) \in Nat
  BY <1>2, <1>7, SumSeqIsNat
<1> QED
  BY <1>5, <1>8

LEMMA StblIs ==
  ASSUME NEW p, NEW n \in Nat, Len(p.samples) = n, DOMAIN p.samples = 1..n, NEW offsets,
         NEW stbl, stbl = PopulateStbl(p, offsets)
  PROVE  /\ Len(stbl.stts) \in Nat /\ Len(stbl.ctts) \in Nat /\ Len(stbl.stsz) \in Nat
         /\ Cardinality(stbl.stss) \in Nat
<1>1. PICK s : s = p.samples
  OBVIOUS
<1>2. DOMAIN s = 1..n
  BY <1>1
<1> DEFINE some == p.video /\ {i \in DOMAIN s : s[i].sync} # {} /\ {i \in DOMAIN s : s[i].sync} # DOMAIN s
           any == \E i \in DOMAIN s : s[i].cts # 0
           durs == [i \in DOMAIN s |-> s[i].dur]
           ctss == [i \in DOMAIN s |-> s[i].cts]
           sizes == [i \in DOMAIN s |-> s[i].size]
           syncs == {i \in DOMAIN s : s[i].sync}
<1>3. /\ stbl.stts = Runs(durs)
      /\ stbl.ctts = IF any THEN Runs(ctss) ELSE <<>>
      /\ stbl.stsz = sizes
      /\ stbl.stss = IF some THEN syncs ELSE {}
  BY <1>1 DEF PopulateStbl, Field
<1>4. Len(durs) = n /\ Len(ctss) = n /\ Len(sizes) = n
  BY <1>2
<1>5. IsFiniteSet(syncs)
  <2>1. syncs \in SUBSET (1..n) /\ IsFiniteSet(1..n)
    BY <1>2, FS_Interval
  <2> HIDE DEF syncs
  <2> QED
    BY <2>1, FS_Subset
<1> HIDE DEF some, any, durs, ctss, sizes, syncs
<1>6. Len(Runs(durs)) \in Nat /\ Len(Runs(ctss)) \in Nat
  BY <1>4, RunsAre
<1>7. Cardinality(syncs) \in Nat /\ Cardinality({}) \in Nat
  BY <1>5, FS_CardinalityType, FS_EmptySet
<1>8. Len(<<>>) \in Nat
  OBVIOUS
<1>9. Len(stbl.ctts) \in Nat
  BY <1>3, <1>6, <1>8
<1>10. Cardinality(stbl.stss) \in Nat
  BY Zenon, <1>3, <1>7
<1> QED
  BY <1>3, <1>4, <1>6, <1>9, <1>10

LEMMA FullTrakIs ==
  ASSUME NEW catalog, NEW p, NEW n \in Nat, Len(p.samples) = n, DOMAIN p.samples = 1..n, NEW offsets
  PROVE  Sized(FullTrak(catalog, p, offsets))
<1> DEFINE key   == CHOOSE k \in DOMAIN catalog.rend : catalog.rend[k].track = p.track
           media == SumSeq(Field(p.samples, LAMBDA x : x.dur))
<1>1. PICK stbl : stbl = PopulateStbl(p, offsets)
  OBVIOUS
<1>2. PICK edits : edits = CanonicalEdits(p.start, media, p.scale)
  OBVIOUS
<1>3. FullTrak(catalog, p, offsets) = [BaseTrak(catalog, key, stbl) EXCEPT !.edits = edits]
  BY Zenon, <1>1, <1>2 DEF FullTrak
<1>4. PICK t : t = FullTrak(catalog, p, offsets)
  OBVIOUS
<1> HIDE DEF key
<1>5. t.edits = edits /\ t.stbl = stbl
  BY <1>3, <1>4 DEF BaseTrak
<1>6. Len(edits) \in Nat
  <2>1. PICK a, b : edits = <<>> \/ edits = <<a, b>>
    BY <1>2 DEF CanonicalEdits
  <2> QED
    BY <2>1
<1>7. /\ Len(stbl.stts) \in Nat /\ Len(stbl.ctts) \in Nat /\ Len(stbl.stsz) \in Nat
      /\ Cardinality(stbl.stss) \in Nat
  BY <1>1, StblIs
<1> QED
  BY <1>4, <1>5, <1>6, <1>7 DEF Sized

\* A file of boxes without a moof.
Prelude(file) == Headed(file) /\ \A p \in DOMAIN file.head : file.head[p].kind # "moof"

LEMMA PreludeAdded ==
  ASSUME NEW file, Prelude(file), NEW a, a.kind # "moof", a.len \in Nat \ {0}
  PROVE  Prelude(AddAtom(file, a))
<1>1. PICK more : more = AddAtom(file, a)
  OBVIOUS
<1>2. Headed(file)
  BY DEF Prelude
<1>3. Headed(more) /\ OneMore(file, more, a)
  BY <1>1, <1>2, AtomAdded
<1> QED
  BY <1>1, <1>3 DEF Prelude, OneMore

\* ftyp and moov, of any length.
LEMMA MoovFileIs ==
  ASSUME NEW traks, SizedList(traks), NEW moov
  PROVE  Prelude(AddAtom(AddAtom(EmptyFile, Atom("ftyp", 8, FtypLen, Nothing)),
                         Atom("moov", 8, MoovLen(traks), moov)))
<1>1. PICK a, b, f : /\ a = Atom("ftyp", 8, FtypLen, Nothing)
                     /\ b = Atom("moov", 8, MoovLen(traks), moov)
                     /\ f = AddAtom(EmptyFile, a)
  OBVIOUS
<1>2. a.kind # "moof" /\ a.len \in Nat \ {0}
  BY <1>1 DEF Atom, FtypLen
<1>3. b.kind # "moof" /\ b.len \in Nat \ {0}
  BY <1>1, MoovLenIs DEF Atom
<1>4. Prelude(EmptyFile)
  BY DEF EmptyFile, Prelude, Headed
<1>5. Prelude(f)
  BY <1>1, <1>2, <1>4, PreludeAdded
<1>6. Prelude(AddAtom(f, b))
  BY <1>3, <1>5, PreludeAdded
<1> QED
  BY <1>1, <1>6

LEMMA InitFileIs ==
  ASSUME NEW catalog, IsFiniteSet(DOMAIN catalog.rend)
  PROVE  Prelude(InitFile(catalog))
<1> DEFINE known == {k \in DOMAIN catalog.rend : k[1] \in Known}
           T == {catalog.rend[k].track : k \in known}
<1>1. IsFiniteSet(T)
  <2>1. known \in SUBSET DOMAIN catalog.rend
    OBVIOUS
  <2> HIDE DEF known
  <2>2. IsFiniteSet(known)
    BY <2>1, FS_Subset
  <2>3. PICK f : f = [k \in known |-> catalog.rend[k].track]
    OBVIOUS
  <2>4. IsFiniteSet({f[k] : k \in known})
    BY <2>2, ImageFinite
  <2>5. {f[k] : k \in known} = T
    BY <2>3
  <2> QED
    BY <2>4, <2>5
<1>2. PICK list, n : list = Ascending(T) /\ n = Cardinality(T)
  OBVIOUS
<1>3. n \in Nat /\ DOMAIN list = 1..n
  <2> HIDE DEF T
  <2>1. n \in Nat
    BY <1>1, <1>2, FS_CardinalityType
  <2> QED
    BY <1>2, <2>1 DEF Ascending, AscendingBy
<1> DEFINE Key(id) == CHOOSE k \in known : catalog.rend[k].track = id
<1>4. PICK traks : traks = [i \in DOMAIN list |-> BaseTrak(catalog, Key(list[i]), NoTable)]
  OBVIOUS
<1>5. PICK moov : moov = InitMoov(catalog, NoTable)
  OBVIOUS
<1>6. moov.traks = traks
  BY <1>2, <1>4, <1>5 DEF InitMoov
<1> HIDE DEF Key
<1>7. ASSUME NEW i \in 1..n PROVE Sized(traks[i])
  <2>1. PICK key : traks[i] = BaseTrak(catalog, key, NoTable)
    BY <1>3, <1>4
  <2>2. traks[i].edits = <<>> /\ traks[i].stbl = NoTable
    BY <2>1 DEF BaseTrak
  <2>3. Len(<<>>) = 0 /\ Cardinality({}) = 0
    BY FS_EmptySet
  <2> QED
    BY <2>2, <2>3 DEF Sized, NoTable
<1>8. Len(traks) = n /\ DOMAIN traks = 1..n
  BY <1>3, <1>4
<1>9. SizedList(traks)
  BY <1>3, <1>7, <1>8 DEF SizedList
<1> QED
  BY <1>5, <1>6, <1>9, MoovFileIs DEF InitFile

LEMMA TraksAreSized ==
  ASSUME NEW catalog, NEW ps, Listable(ps), NEW entries,
         NEW traks, traks = [i \in DOMAIN ps |-> FullTrak(catalog, ps[i], entries[i])]
  PROVE  SizedList(traks)
<1>1. PICK n : n = Len(ps)
  OBVIOUS
<1>2. /\ n \in Nat /\ DOMAIN ps = 1..n
      /\ \A i \in 1..n : Len(ps[i].samples) \in Nat /\ DOMAIN ps[i].samples = 1..Len(ps[i].samples)
  BY <1>1 DEF Listable
<1>3. ASSUME NEW i \in 1..n PROVE Sized(traks[i])
  <2>1. PICK p, m : p = ps[i] /\ m = Len(p.samples)
    OBVIOUS
  <2>2. m \in Nat /\ DOMAIN p.samples = 1..m
    BY <1>2, <2>1
  <2>3. Sized(FullTrak(catalog, p, entries[i]))
    BY <2>1, <2>2, FullTrakIs
  <2> QED
    BY <1>2, <2>1, <2>3
<1>4. Len(traks) = n /\ DOMAIN traks = 1..n
  BY <1>2
<1> QED
  BY <1>2, <1>3, <1>4 DEF SizedList

\* The file a header is written to, flat or fragmented.
LEMMA HeaderFileIs ==
  ASSUME NEW catalog, NEW plans, Planned(plans),
         NEW header, header = SynthHeader(catalog, PlanBody(plans)), header.ok
  PROVE  Prelude(HeaderFile(header))
<1>1. PICK metas : metas = PlanBody(plans)
  OBVIOUS
<1>2. PICK ps : ps = PlansOfMetas(catalog, metas)
  OBVIOUS
<1>3. PlanIds(plans) \in SUBSET Nat /\ IsFiniteSet(PlanIds(plans))
  <2>1. \A k \in DOMAIN plans : plans[k].track \in Track
    BY PlanFields DEF Planned
  <2>2. PlanIds(plans) \in SUBSET Track
    BY <2>1 DEF PlanIds
  <2>3. IsFiniteSet(PlanIds(plans))
    BY <2>2, TracksFinite
  <2> QED
    BY <2>2, <2>3, TrackAssumption
<1>4. Described(metas, PlanIds(plans))
  BY <1>1, PlanBodyIs
<1>5. Listable(ps)
  BY <1>2, <1>3, <1>4, PlansOfMetasAre
<1>6. PICK entries : header = FilledHeader(catalog, metas, ps, entries)
  BY <1>1, <1>2 DEF SynthHeader, HeaderOfPlans
<1>7. PICK traks : traks = header.moov.traks
  OBVIOUS
<1>8. traks = [i \in DOMAIN ps |-> FullTrak(catalog, ps[i], entries[i])]
  BY <1>6, <1>7 DEF FilledHeader, NoHeader
<1>9. SizedList(traks)
  BY <1>5, <1>8, TraksAreSized
<1>10. PICK f : f = AddAtom(AddAtom(EmptyFile, Atom("ftyp", 8, FtypLen, Nothing)),
                            Atom("moov", 8, MoovLen(traks), header.moov))
  OBVIOUS
<1>11. Prelude(f)
  BY <1>9, <1>10, MoovFileIs
<1>12. PICK more : more = AddEnvelope(f, header.body)
  OBVIOUS
<1>13. HeaderFile(header) = more
  BY <1>7, <1>10, <1>12 DEF HeaderFile
<1>14. Prelude(more)
  <2>1. Headed(f)
    BY <1>11 DEF Prelude
  <2>2. PICK a : OneMore(f, more, a) /\ a.kind = "mdat"
    BY <1>12, <2>1, EnvelopeAdded
  <2>3. Headed(more)
    BY <1>12, <2>1, EnvelopeAdded
  <2> QED
    BY <1>11, <2>2, <2>3 DEF Prelude, OneMore
<1> QED
  BY <1>13, <1>14

-----------------------------------------------------------------------------
(* The order of writing.                                                   *)

\* One place in the order of writing is ahead of another.
Ahead(x, i, y, j) == x < y \/ (x = y /\ i < j)

\* A track's samples are written in order, and all of them.
Paced(plans, sl) ==
  /\ Len(sl) \in Nat
  /\ \A x \in 1..Len(sl) :
       /\ sl[x].k \in DOMAIN plans
       /\ Len(sl[x].samples) \in Nat \ {0}
       /\ \A i \in 1..Len(sl[x].samples) : sl[x].samples[i] \in 1..Len(plans[sl[x].k].samples)
  /\ \A x, y \in 1..Len(sl) :
       sl[x].k = sl[y].k =>
         \A i \in 1..Len(sl[x].samples) : \A j \in 1..Len(sl[y].samples) :
            Ahead(x, i, y, j) => sl[x].samples[i] < sl[y].samples[j]
  /\ \A k \in DOMAIN plans : \A m \in 1..Len(plans[k].samples) :
       \E x \in 1..Len(sl) : \E i \in 1..Len(sl[x].samples) :
          sl[x].k = k /\ sl[x].samples[i] = m

LEMMA SlottedIsPaced ==
  ASSUME NEW plans, Planned(plans), NEW sl, NEW G, Slotted(plans, sl, G)
  PROVE  Paced(plans, sl)
<1>1. /\ Len(sl) \in Nat
      /\ \A x \in 1..Len(sl) :
           /\ sl[x].k \in DOMAIN plans /\ Len(sl[x].samples) \in Nat \ {0} /\ G[x] \in Nat
           /\ Sorts(sl[x].samples, Len(sl[x].samples), SamplesIn(plans, sl[x].k, G[x]))
  BY DEF Slotted
<1>2. \A k \in DOMAIN plans : /\ plans[k] \in TrackPlan
                              /\ Len(plans[k].samples) \in Nat
                              /\ DOMAIN plans[k].samples = 1..Len(plans[k].samples)
  BY PlanFields DEF Planned
<1>3. ASSUME NEW x \in 1..Len(sl), NEW i \in 1..Len(sl[x].samples)
      PROVE  /\ sl[x].samples[i] \in 1..Len(plans[sl[x].k].samples)
             /\ GopIn(plans, sl[x].k, sl[x].samples[i]) = G[x]
  <2>1. PICK s, n, T : s = sl[x].samples /\ n = Len(s) /\ T = SamplesIn(plans, sl[x].k, G[x])
    OBVIOUS
  <2>2. Sorts(s, n, T)
    BY <1>1, <2>1
  <2>3. s[i] \in T
    BY <2>1, <2>2 DEF Sorts
  <2> QED
    BY <1>1, <1>2, <2>1, <2>3 DEF SamplesIn
<1>4. ASSUME NEW x \in 1..Len(sl), NEW y \in 1..Len(sl), sl[x].k = sl[y].k,
             NEW i \in 1..Len(sl[x].samples), NEW j \in 1..Len(sl[y].samples), Ahead(x, i, y, j)
      PROVE  sl[x].samples[i] < sl[y].samples[j]
  <2>1. CASE x = y /\ i < j
    <3>1. PICK s, n, T : s = sl[x].samples /\ n = Len(s) /\ T = SamplesIn(plans, sl[x].k, G[x])
      OBVIOUS
    <3>2. Sorts(s, n, T)
      BY <1>1, <3>1
    <3> QED
      BY <2>1, <3>1, <3>2 DEF Sorts
  <2>2. CASE x < y
    <3>1. PICK k, a, b : k = sl[x].k /\ a = sl[x].samples[i] /\ b = sl[y].samples[j]
      OBVIOUS
    <3>2. /\ k \in DOMAIN plans /\ a \in 1..Len(plans[k].samples) /\ b \in 1..Len(plans[k].samples)
          /\ GopIn(plans, k, a) = G[x] /\ GopIn(plans, k, b) = G[y]
      BY <1>1, <1>3, <1>4, <3>1
    <3>3. G[x] < G[y] \/ (G[x] = G[y] /\ sl[x].k < sl[y].k)
      BY <2>2 DEF Slotted
    <3>4. DOMAIN plans \subseteq Nat
      BY DEF Planned
    <3>5. G[x] < G[y] /\ G[x] \in Nat /\ G[y] \in Nat
      BY <1>1, <1>4, <3>1, <3>2, <3>3, <3>4
    <3>6. plans # <<>>
      BY <3>2
    <3>7. PICK n \in Nat \ {0} : GopStarts(plans) \in [1..n -> Nat]
      BY <3>6, GopStartsAre
    <3>8. b <= a => GopIn(plans, k, b) <= GopIn(plans, k, a)
      BY <3>2, <3>7, GopsAre
    <3>9. ~ b <= a
      BY <3>2, <3>5, <3>8
    <3>10. a < b
      BY <1>2, <3>2, <3>9
    <3> QED
      BY <3>1, <3>10
  <2> QED
    BY <1>4, <2>1, <2>2 DEF Ahead
<1>5. ASSUME NEW k \in DOMAIN plans, NEW m \in 1..Len(plans[k].samples)
      PROVE  \E x \in 1..Len(sl) : \E i \in 1..Len(sl[x].samples) : sl[x].k = k /\ sl[x].samples[i] = m
  <2>1. m \in DOMAIN plans[k].samples
    BY <1>2
  <2>2. PICK x \in 1..Len(sl) : sl[x].k = k /\ G[x] = GopIn(plans, k, m)
    BY <2>1 DEF Slotted
  <2>3. m \in SamplesIn(plans, sl[x].k, G[x])
    BY <2>1, <2>2 DEF SamplesIn
  <2>4. PICK s, n, T : s = sl[x].samples /\ n = Len(s) /\ T = SamplesIn(plans, sl[x].k, G[x])
    OBVIOUS
  <2>5. Sorts(s, n, T)
    BY <1>1, <2>4
  <2>6. \E i \in 1..n : s[i] = m
    BY <2>3, <2>4, <2>5 DEF Sorts
  <2> QED
    BY <2>2, <2>4, <2>6
<1> QED
  BY <1>1, <1>3, <1>4, <1>5 DEF Paced

LEMMA SlotsPaced ==
  ASSUME NEW plans, Planned(plans)
  PROVE  Paced(plans, SlotsOf(plans))
<1>1. PICK sl : sl = SlotsOf(plans)
  OBVIOUS
<1>2. PICK G : Slotted(plans, sl, G)
  BY <1>1, SlotsAre
<1> QED
  BY <1>1, <1>2, SlottedIsPaced

\* Of a track the first w samples are those ahead of a place.
Reached(plans, sl, x, i, k, w) ==
  /\ w \in 0..Len(plans[k].samples)
  /\ \A y \in 1..Len(sl) : sl[y].k = k =>
       \A j \in 1..Len(sl[y].samples) : sl[y].samples[j] <= w <=> Ahead(y, j, x, i)

LEMMA ReachedNone ==
  ASSUME NEW plans, NEW sl, Planned(plans), Paced(plans, sl), NEW k \in DOMAIN plans
  PROVE  Reached(plans, sl, 1, 0, k, 0)
<1>1. Len(plans[k].samples) \in Nat
  BY PlanFields DEF Planned
<1>2. ASSUME NEW y \in 1..Len(sl), sl[y].k = k, NEW j \in 1..Len(sl[y].samples)
      PROVE  ~ sl[y].samples[j] <= 0 /\ ~ Ahead(y, j, 1, 0)
  <2>1. sl[y].samples[j] \in 1..Len(plans[k].samples) /\ Len(sl) \in Nat /\ Len(sl[y].samples) \in Nat
    BY <1>2 DEF Paced
  <2> QED
    BY <1>1, <2>1 DEF Ahead
<1> QED
  BY <1>1, <1>2 DEF Reached

\* The prefix of a segment is no sample.
LEMMA ReachedPrefix ==
  ASSUME NEW plans, NEW sl, Paced(plans, sl), NEW x \in 1..Len(sl), NEW k, NEW w,
         Reached(plans, sl, x, 0, k, w)
  PROVE  Reached(plans, sl, x, 1, k, w)
<1>1. ASSUME NEW y \in 1..Len(sl), NEW j \in 1..Len(sl[y].samples)
      PROVE  Ahead(y, j, x, 1) <=> Ahead(y, j, x, 0)
  <2>1. Len(sl) \in Nat /\ Len(sl[y].samples) \in Nat
    BY DEF Paced
  <2> QED
    BY <2>1 DEF Ahead
<1> QED
  BY <1>1 DEF Reached

\* The sample whose turn it is is the next one of its track.
LEMMA ReachedNext ==
  ASSUME NEW plans, NEW sl, Planned(plans), Paced(plans, sl),
         NEW x \in 1..Len(sl), NEW i \in 1..Len(sl[x].samples),
         NEW k \in DOMAIN plans, k = sl[x].k, NEW w, Reached(plans, sl, x, i, k, w)
  PROVE  w < Len(plans[k].samples) /\ sl[x].samples[i] = w + 1
<1>1. /\ Len(sl) \in Nat /\ \A y \in 1..Len(sl) : Len(sl[y].samples) \in Nat
      /\ \A y \in 1..Len(sl) : \A j \in 1..Len(sl[y].samples) :
           sl[y].samples[j] \in 1..Len(plans[sl[y].k].samples)
  BY DEF Paced
<1>2. Len(plans[k].samples) \in Nat /\ w \in Nat /\ w <= Len(plans[k].samples)
  <2>1. Len(plans[k].samples) \in Nat
    BY PlanFields DEF Planned
  <2> QED
    BY <2>1 DEF Reached
<1>3. PICK a : a = sl[x].samples[i]
  OBVIOUS
<1>4. a \in 1..Len(plans[k].samples)
  BY <1>1, <1>3
<1>5. ~ a <= w
  <2>1. ~ Ahead(x, i, x, i)
    BY <1>1 DEF Ahead
  <2> QED
    BY <1>3, <2>1 DEF Reached
<1>6. w + 1 \in 1..Len(plans[k].samples) /\ w + 1 <= a
  BY <1>2, <1>4, <1>5
<1>7. PICK y \in 1..Len(sl) : \E j \in 1..Len(sl[y].samples) : sl[y].k = k /\ sl[y].samples[j] = w + 1
  BY <1>6 DEF Paced
<1>8. PICK j \in 1..Len(sl[y].samples) : sl[y].k = k /\ sl[y].samples[j] = w + 1
  BY <1>7
<1>9. ~ Ahead(y, j, x, i)
  BY <1>2, <1>8 DEF Reached
<1>10. Ahead(x, i, y, j) => a < w + 1
  BY <1>3, <1>8 DEF Paced
<1>11. y = x /\ j = i
  <2>1. ~ Ahead(x, i, y, j)
    BY <1>2, <1>4, <1>6, <1>10
  <2> QED
    BY <1>1, <1>9, <2>1 DEF Ahead
<1> QED
  BY <1>2, <1>6, <1>8, <1>11

\* Then it is reached, and the other tracks stay where they are.
LEMMA ReachedSample ==
  ASSUME NEW plans, NEW sl, Planned(plans), Paced(plans, sl),
         NEW x \in 1..Len(sl), NEW i \in 1..Len(sl[x].samples),
         NEW x2, NEW i2, IF i < Len(sl[x].samples) THEN x2 = x /\ i2 = i + 1 ELSE x2 = x + 1 /\ i2 = 0,
         NEW k \in DOMAIN plans, NEW w, Reached(plans, sl, x, i, k, w)
  PROVE  /\ k = sl[x].k => /\ w < Len(plans[k].samples)
                           /\ sl[x].samples[i] = w + 1
                           /\ Reached(plans, sl, x2, i2, k, w + 1)
         /\ k # sl[x].k => Reached(plans, sl, x2, i2, k, w)
<1>1. /\ Len(sl) \in Nat /\ \A y \in 1..Len(sl) : Len(sl[y].samples) \in Nat
      /\ \A y \in 1..Len(sl) : \A j \in 1..Len(sl[y].samples) :
           sl[y].samples[j] \in 1..Len(plans[sl[y].k].samples)
  BY DEF Paced
<1>2. Len(plans[k].samples) \in Nat /\ w \in Nat /\ w <= Len(plans[k].samples)
  <2>1. Len(plans[k].samples) \in Nat
    BY PlanFields DEF Planned
  <2> QED
    BY <2>1 DEF Reached
<1>3. ASSUME NEW y \in 1..Len(sl), NEW j \in 1..Len(sl[y].samples)
      PROVE  Ahead(y, j, x2, i2) <=> Ahead(y, j, x, i) \/ (y = x /\ j = i)
  <2>1. Len(sl[y].samples) \in Nat /\ Len(sl[x].samples) \in Nat
    BY <1>1
  <2>2. CASE i < Len(sl[x].samples)
    BY <1>1, <2>1, <2>2 DEF Ahead
  <2>3. CASE ~ i < Len(sl[x].samples)
    <3>1. i = Len(sl[x].samples) /\ x2 = x + 1 /\ i2 = 0
      BY <2>1, <2>3
    <3> QED
      BY <1>1, <2>1, <3>1 DEF Ahead
  <2> QED
    BY <2>2, <2>3
<1>4. CASE k # sl[x].k
  BY <1>3, <1>4 DEF Reached
<1>5. CASE k = sl[x].k
  <2>1. PICK a : a = sl[x].samples[i]
    OBVIOUS
  <2>2. a = w + 1 /\ w < Len(plans[k].samples)
    BY <1>5, <2>1, ReachedNext
  <2>3. w + 1 \in 0..Len(plans[k].samples) /\ w < Len(plans[k].samples)
    BY <1>2, <2>2
  <2>4. ASSUME NEW z \in 1..Len(sl), sl[z].k = k, NEW l \in 1..Len(sl[z].samples)
         PROVE  sl[z].samples[l] <= w + 1 <=> Ahead(z, l, x2, i2)
    <3>1. PICK b : b = sl[z].samples[l]
      OBVIOUS
    <3>2. b \in 1..Len(plans[k].samples)
      BY <1>1, <2>4, <3>1
    <3>3. b <= w <=> Ahead(z, l, x, i)
      BY <2>4, <3>1 DEF Reached
    <3>4. Ahead(x, i, z, l) => a < b
      BY <1>5, <2>1, <2>4, <3>1 DEF Paced
    <3>5. Ahead(z, l, x, i) \/ Ahead(x, i, z, l) \/ (z = x /\ l = i)
      BY <1>1 DEF Ahead
    <3>6. z = x /\ l = i => b = a
      BY <2>1, <3>1
    <3>7. b <= w + 1 <=> b <= w \/ b = w + 1
      BY <1>2, <3>2
    <3>8. b = a => z = x /\ l = i
      <4>1. Ahead(z, l, x, i) => b < a
        BY <1>5, <2>1, <2>4, <3>1 DEF Paced
      <4> QED
        BY <1>2, <2>2, <3>2, <3>4, <3>5, <4>1
    <3> QED
      BY <1>3, <2>2, <3>1, <3>3, <3>6, <3>7, <3>8
  <2> QED
    BY <1>5, <2>1, <2>2, <2>3, <2>4 DEF Reached
<1> QED
  BY <1>4, <1>5

\* Behind the last segment nothing is left.
LEMMA ReachedAll ==
  ASSUME NEW plans, NEW sl, Planned(plans), Paced(plans, sl), NEW x \in Int, x > Len(sl), NEW i,
         NEW k \in DOMAIN plans, NEW w, Reached(plans, sl, x, i, k, w)
  PROVE  w = Len(plans[k].samples)
<1>1. PICK n : n = Len(plans[k].samples)
  OBVIOUS
<1>2. n \in Nat
  BY <1>1, PlanFields DEF Planned
<1>3. w \in 0..n
  BY <1>1 DEF Reached
<1>4. ASSUME n > 0 PROVE n <= w
  <2>1. n \in 1..Len(plans[k].samples)
    BY <1>1, <1>2, <1>4
  <2>20. PICK y \in 1..Len(sl) : \E j \in 1..Len(sl[y].samples) : sl[y].k = k /\ sl[y].samples[j] = n
    BY <2>1 DEF Paced
  <2>2. PICK j \in 1..Len(sl[y].samples) : sl[y].k = k /\ sl[y].samples[j] = n
    BY <2>20
  <2>3. Ahead(y, j, x, i)
    <3>1. Len(sl) \in Nat
      BY DEF Paced
    <3>2. y < x
      BY <3>1
    <3> QED
      BY <3>2 DEF Ahead
  <2> QED
    BY <2>2, <2>3 DEF Reached
<1> QED
  BY <1>1, <1>2, <1>3, <1>4

-----------------------------------------------------------------------------
(* Fragments.                                                              *)

\* The moof at p is that of the i-th sample, and its data is behind it.
Fragment(plan, i, file, p) ==
  LET moof == file.head[p]
      s    == plan.samples[i]
  IN  /\ moof.body.seq = i
      /\ moof.body.trafs[1].tfdt = DecodeTimes(plan)[i]
      /\ moof.body.trafs[1].samples[1] = [dur |-> s.dur, size |-> s.size,
                                          sync |-> s.sync, cts |-> s.cts]
      /\ p + moof.len \in DOMAIN file.head
      /\ file.head[p + moof.len].body.data = s.at

\* The moofs of a track are those of its first w samples.
TrackWritten(plan, w, offs, file) ==
  /\ Sorts(offs, w, Moofs(file, plan.track))
  /\ \A i \in 1..w : Fragment(plan, i, file, offs[i])

\* Another track's boxes change nothing.
LEMMA TrackKept ==
  ASSUME NEW plan, NEW w, NEW offs, NEW file, TrackWritten(plan, w, offs, file),
         NEW more, Grown(file, more), Moofs(more, plan.track) = Moofs(file, plan.track)
  PROVE  TrackWritten(plan, w, offs, more)
<1>1. Sorts(offs, w, Moofs(more, plan.track))
  BY DEF TrackWritten
<1>2. ASSUME NEW i \in 1..w PROVE Fragment(plan, i, more, offs[i])
  <2>1. PICK p : p = offs[i]
    OBVIOUS
  <2>2. p \in DOMAIN file.head
    BY <2>1 DEF TrackWritten, Sorts, Moofs
  <2>3. Fragment(plan, i, file, p)
    BY <2>1 DEF TrackWritten
  <2>4. more.head[p] = file.head[p]
    BY <2>2 DEF Grown
  <2>5. PICK q : q = p + file.head[p].len
    OBVIOUS
  <2>6. q \in DOMAIN file.head /\ file.head[q].body.data = plan.samples[i].at
    BY <2>3, <2>5 DEF Fragment
  <2>7. q \in DOMAIN more.head /\ more.head[q] = file.head[q]
    BY <2>6 DEF Grown
  <2> QED
    BY <2>1, <2>3, <2>4, <2>5, <2>6, <2>7 DEF Fragment
<1> QED
  BY <1>1, <1>2 DEF TrackWritten

\* The moof and the mdat of a sample.
Pair(plan, i, a, b) ==
  LET s == plan.samples[i]
  IN  /\ a.kind = "moof" /\ a.len \in Nat \ {0} /\ b.kind # "moof" /\ b.len \in Nat \ {0}
      /\ a.body.seq = i
      /\ a.body.trafs[1].track = plan.track
      /\ a.body.trafs[1].tfdt = DecodeTimes(plan)[i]
      /\ a.body.trafs[1].samples[1] = [dur |-> s.dur, size |-> s.size,
                                       sync |-> s.sync, cts |-> s.cts]
      /\ b.body.data = s.at

LEMMA PairAdded ==
  ASSUME NEW file, Headed(file), NEW plan, NEW i, NEW a, NEW b, Pair(plan, i, a, b),
         NEW more, more = AddAtom(AddAtom(file, a), b)
  PROVE  /\ Headed(more) /\ Grown(file, more)
         /\ Moofs(more, plan.track) = Moofs(file, plan.track) \cup {file.size}
         /\ \A id : id # plan.track => Moofs(more, id) = Moofs(file, id)
         /\ Fragment(plan, i, more, file.size)
<1>1. PICK f : f = AddAtom(file, a)
  OBVIOUS
<1>2. a.len \in Nat \ {0} /\ b.len \in Nat \ {0} /\ a.kind = "moof" /\ b.kind # "moof"
      /\ a.body.trafs[1].track = plan.track
  BY DEF Pair
<1>3. Headed(f) /\ f.size = file.size + a.len /\ OneMore(file, f, a) /\ Grown(file, f)
  BY <1>1, <1>2, AtomAdded
<1>4. more = AddAtom(f, b)
  BY <1>1
<1>5. Headed(more) /\ OneMore(f, more, b) /\ Grown(f, more)
  BY <1>2, <1>3, <1>4, AtomAdded
<1>6. Grown(file, more)
  <2>1. DOMAIN file.head \subseteq DOMAIN f.head /\ DOMAIN f.head \subseteq DOMAIN more.head
    BY <1>3, <1>5 DEF Grown
  <2>2. \A p \in DOMAIN file.head : f.head[p] = file.head[p]
    BY <1>3 DEF Grown
  <2>3. \A p \in DOMAIN f.head : more.head[p] = f.head[p]
    BY <1>5 DEF Grown
  <2> QED
    BY <2>1, <2>2, <2>3 DEF Grown
<1>7. ASSUME NEW id
      PROVE  Moofs(more, id) = Moofs(file, id) \cup (IF id = plan.track THEN {file.size} ELSE {})
  <2>1. Moofs(f, id) = Moofs(file, id) \cup
          (IF a.kind = "moof" /\ a.body.trafs[1].track = id THEN {file.size} ELSE {})
    BY <1>3, MoofsAdded
  <2>2. Moofs(more, id) = Moofs(f, id) \cup
          (IF b.kind = "moof" /\ b.body.trafs[1].track = id THEN {f.size} ELSE {})
    BY <1>3, <1>5, MoofsAdded
  <2> QED
    BY <1>2, <2>1, <2>2
<1>8. PICK p, q : p = file.size /\ q = f.size
  OBVIOUS
<1>9. q = p + a.len
  BY <1>3, <1>8
<1>10. /\ p \in DOMAIN more.head /\ more.head[p] = a
       /\ q \in DOMAIN more.head /\ more.head[q] = b
  <2>1. p \in DOMAIN f.head /\ f.head[p] = a
    BY <1>3, <1>8 DEF OneMore
  <2>2. p \in DOMAIN more.head /\ more.head[p] = f.head[p]
    BY <1>5, <2>1 DEF Grown
  <2>3. q \in DOMAIN more.head /\ more.head[q] = b
    BY <1>5, <1>8 DEF OneMore
  <2> QED
    BY <2>1, <2>2, <2>3
<1>11. Fragment(plan, i, more, p)
  BY <1>9, <1>10 DEF Fragment, Pair
<1> QED
  BY <1>5, <1>6, <1>7, <1>8, <1>11

\* One more at the end of a sorted list.
LEMMA SortsAppend ==
  ASSUME NEW s, NEW n, NEW T, Sorts(s, n, T), NEW p \in Int, \A x \in T : x \in Int /\ x < p,
         NEW r, r = [i \in 1..(n + 1) |-> IF i = n + 1 THEN p ELSE s[i]]
  PROVE  Sorts(r, n + 1, T \cup {p})
<1>1. n \in Nat /\ \A i \in 1..n : s[i] \in T
  BY DEF Sorts
<1>2. \A i \in 1..(n + 1) : i = n + 1 \/ i \in 1..n
  BY <1>1
<1>3. \A i \in 1..n : i \in 1..(n + 1) /\ i # n + 1 /\ r[i] = s[i]
  BY <1>1
<1>4. n + 1 \in 1..(n + 1) /\ r[n + 1] = p
  BY <1>1
<1>5. r \in [1..(n + 1) -> T \cup {p}]
  BY <1>1, <1>2
<1>6. ASSUME NEW i \in 1..(n + 1), NEW j \in 1..(n + 1), i < j PROVE r[i] < r[j]
  <2>1. i \in 1..n
    BY <1>1, <1>6
  <2>2. CASE j = n + 1
    BY <1>1, <1>3, <1>4, <2>1, <2>2
  <2>3. CASE j \in 1..n
    <3>1. s[i] < s[j]
      BY <1>6, <2>1, <2>3 DEF Sorts
    <3> QED
      BY <1>3, <2>1, <2>3, <3>1
  <2> QED
    BY <1>2, <2>2, <2>3
<1>7. ASSUME NEW x \in T \cup {p} PROVE \E i \in 1..(n + 1) : r[i] = x
  <2>1. CASE x = p
    BY <1>4, <2>1
  <2>2. CASE x \in T
    <3>1. PICK i \in 1..n : s[i] = x
      BY <2>2 DEF Sorts
    <3> QED
      BY <1>3, <3>1
  <2> QED
    BY <2>1, <2>2
<1>8. n + 1 \in Nat
  BY <1>1
<1> QED
  BY <1>5, <1>6, <1>7, <1>8 DEF Sorts

\* The next sample of a track.
LEMMA TrackGoesOn ==
  ASSUME NEW plan, NEW w, NEW offs, NEW file, Headed(file), TrackWritten(plan, w, offs, file),
         NEW a, NEW b, Pair(plan, w + 1, a, b), NEW more, more = AddAtom(AddAtom(file, a), b)
  PROVE  \E r : TrackWritten(plan, w + 1, r, more)
<1>1. PICK p : p = file.size
  OBVIOUS
<1>2. PICK r : r = [i \in 1..(w + 1) |-> IF i = w + 1 THEN p ELSE offs[i]]
  OBVIOUS
<1>3. PICK T : T = Moofs(file, plan.track)
  OBVIOUS
<1>4. Sorts(offs, w, T) /\ w \in Nat
  BY <1>3 DEF TrackWritten, Sorts
<1>5. p \in Int /\ \A x \in T : x \in Int /\ x < p
  BY <1>1, <1>3 DEF Headed, Moofs
<1>6. Sorts(r, w + 1, T \cup {p})
  BY <1>2, <1>4, <1>5, SortsAppend
<1>7. /\ Headed(more) /\ Grown(file, more)
      /\ Moofs(more, plan.track) = T \cup {p}
      /\ Fragment(plan, w + 1, more, p)
  BY <1>1, <1>3, PairAdded
<1>8. ASSUME NEW i \in 1..w PROVE Fragment(plan, i, more, offs[i])
  <2>1. PICK x : x = offs[i]
    OBVIOUS
  <2>2. x \in DOMAIN file.head
    BY <1>3, <1>4, <2>1 DEF Sorts, Moofs
  <2>3. Fragment(plan, i, file, x)
    BY <2>1 DEF TrackWritten
  <2>4. more.head[x] = file.head[x]
    BY <1>7, <2>2 DEF Grown
  <2>5. PICK q : q = x + file.head[x].len
    OBVIOUS
  <2>6. q \in DOMAIN file.head /\ file.head[q].body.data = plan.samples[i].at
    BY <2>3, <2>5 DEF Fragment
  <2>7. q \in DOMAIN more.head /\ more.head[q] = file.head[q]
    BY <1>7, <2>6 DEF Grown
  <2> QED
    BY <2>1, <2>3, <2>4, <2>5, <2>6, <2>7 DEF Fragment
<1>9. ASSUME NEW i \in 1..(w + 1) PROVE Fragment(plan, i, more, r[i])
  <2>1. CASE i = w + 1
    <3>1. r[i] = p
      BY <1>2, <2>1
    <3> QED
      BY <1>7, <2>1, <3>1
  <2>2. CASE i # w + 1
    <3>1. i \in 1..w /\ r[i] = offs[i]
      BY <1>2, <1>4, <2>2
    <3> QED
      BY <1>8, <3>1
  <2> QED
    BY <2>1, <2>2
<1> QED
  BY <1>6, <1>7, <1>9 DEF TrackWritten

-----------------------------------------------------------------------------
(* The invariant.                                                          *)

\* Before the body.
Planning ==
  /\ pc \in {"read", "header", "error"}
  /\ Planned(source.plans)
  /\ pc = "header" => IsFiniteSet(DOMAIN source.catalog.rend)
  /\ slots = <<>> /\ frags = <<>>
  /\ at = [slot |-> 1, sample |-> 0]
  /\ out = EmptyFile
  /\ clock = StartClock

\* Of the k-th track the first w samples are written, those whose turn it was,
\* and its clock is where they end.
TrackSoFar(k, w) ==
  LET plan == source.plans[k]
  IN  /\ Reached(source.plans, slots, at.slot, at.sample, k, w)
      /\ clock[plan.track].count = w
      /\ clock[plan.track].time = DecodeTimes(plan)[w + 1]
      /\ \E offs : TrackWritten(plan, w, offs, out)

InBody ==
  /\ pc \in {"body", "done", "error"}
  /\ pc = "done" => at.slot > Len(slots)
  /\ Planned(source.plans) /\ Paced(source.plans, slots)
  /\ DOMAIN frags = DOMAIN source.plans
  /\ at = [slot |-> at.slot, sample |-> at.sample]
  /\ at.slot \in 1..(Len(slots) + 1)
  /\ at.slot <= Len(slots) => at.sample \in 0..Len(slots[at.slot].samples)
  /\ clock \in [Track -> Progress]
  /\ Headed(out)
  /\ \A k \in DOMAIN source.plans : \E w : TrackSoFar(k, w)

CInv == job \in Jobs /\ (Planning \/ InBody)

LEMMA CInvInit == Init => CInv
<1> SUFFICES ASSUME Init PROVE CInv
  OBVIOUS
<1>1. source.plans = <<>>
  BY DEF Init, NoPlans
<1>2. Planned(source.plans)
  BY <1>1 DEF Planned
<1> QED
  BY <1>2 DEF Init, CInv, Planning

LEMMA ReadStep == ASSUME CInv, Read PROVE CInv'
<1>1. PICK read : /\ read = ReadSource(job.file) /\ read.ok
                  /\ source' = RemapSource(read, job.map)
  BY DEF Read
<1>2. job \in Jobs /\ Planning
  BY DEF CInv, InBody, Read
<1>3. Planned(source'.plans) /\ IsFiniteSet(DOMAIN source'.catalog.rend)
  BY <1>1, <1>2, JobsAssumption
<1>4. Planning'
  BY <1>2, <1>3 DEF Read, Planning
<1> QED
  BY <1>2, <1>4 DEF CInv, Read

LEMMA ClockStarts ==
  ASSUME NEW plans, Planned(plans), NEW c, c = ClockOf(plans)
  PROVE  /\ c \in [Track -> Progress]
         /\ \A k \in DOMAIN plans : /\ plans[k].track \in Track
                                    /\ c[plans[k].track].count = 0
                                    /\ c[plans[k].track].time = plans[k].start
<1>1. \A k \in DOMAIN plans : plans[k].track \in Track /\ plans[k].start \in Nat
  BY PlanFields DEF Planned
<1>2. DOMAIN plans \subseteq Nat /\ \A i, j \in DOMAIN plans : i < j => plans[i].track < plans[j].track
  BY DEF Planned
<1>3. ASSUME NEW i \in DOMAIN plans, NEW j \in DOMAIN plans, plans[i].track = plans[j].track
      PROVE  i = j
  <2>1. plans[i].track \in Nat
    BY <1>1, TrackAssumption
  <2>2. ~ i < j /\ ~ j < i
    BY <1>2, <1>3, <2>1
  <2> QED
    BY <1>2, <2>2
<1> DEFINE First(t) == CHOOSE k \in DOMAIN plans : plans[k].track = t
           Time(t) == IF \E k \in DOMAIN plans : plans[k].track = t THEN plans[First(t)].start ELSE 0
<1>4. \A t \in Track : Time(t) \in Nat
  <2> SUFFICES ASSUME NEW t \in Track PROVE Time(t) \in Nat
    OBVIOUS
  <2>1. CASE \E k \in DOMAIN plans : plans[k].track = t
    <3>1. First(t) \in DOMAIN plans
      BY <2>1
    <3> QED
      BY <1>1, <2>1, <3>1
  <2>2. CASE ~ \E k \in DOMAIN plans : plans[k].track = t
    BY <2>2
  <2> QED
    BY <2>1, <2>2
<1>5. \A k \in DOMAIN plans : Time(plans[k].track) = plans[k].start
  <2> SUFFICES ASSUME NEW k \in DOMAIN plans PROVE Time(plans[k].track) = plans[k].start
    OBVIOUS
  <2>1. First(plans[k].track) \in DOMAIN plans /\ plans[First(plans[k].track)].track = plans[k].track
    OBVIOUS
  <2>2. First(plans[k].track) = k
    BY <1>3, <2>1
  <2> QED
    BY <2>2
<1>6. c = [t \in Track |-> [time |-> Time(t), count |-> 0]]
  BY DEF ClockOf
<1> HIDE DEF Time
<1>7. c \in [Track -> Progress]
  BY <1>4, <1>6 DEF Progress
<1> QED
  BY <1>1, <1>5, <1>6, <1>7

\* The header has no fragment in it.
LEMMA HeaderWritten == ASSUME CInv, WriteHeader PROVE Prelude(out')
<1>1. /\ pc = "header"
      /\ job.form = "flat" => HeaderOf.ok
      /\ out' = IF job.form = "flat" THEN HeaderFile(HeaderOf) ELSE InitFile(source.catalog)
  BY DEF WriteHeader, StartBody
<1>2. Planned(source.plans) /\ IsFiniteSet(DOMAIN source.catalog.rend)
  BY <1>1 DEF CInv, Planning, InBody
<1>3. CASE job.form = "flat"
  <2>1. PICK header : header = HeaderOf
    OBVIOUS
  <2>2. header = SynthHeader(source.catalog, PlanBody(source.plans)) /\ header.ok
    BY <1>1, <1>3, <2>1 DEF HeaderOf
  <2>3. Prelude(HeaderFile(header))
    BY <1>2, <2>2, HeaderFileIs
  <2> QED
    BY <1>1, <1>3, <2>1, <2>3
<1>4. CASE job.form # "flat"
  BY <1>1, <1>2, <1>4, InitFileIs
<1> QED
  BY <1>3, <1>4

LEMMA WriteHeaderStep == ASSUME CInv, WriteHeader PROVE CInv'
<1>1. /\ pc = "header" /\ pc' = "body" /\ job' = job /\ source' = source /\ at' = at
      /\ slots' = SlotsOf(source.plans)
      /\ clock' = ClockOf(source.plans)
      /\ frags' = [k \in DOMAIN source.plans |-> <<>>]
  BY DEF WriteHeader, StartBody
<1>2. job \in Jobs /\ Planned(source.plans) /\ at = [slot |-> 1, sample |-> 0]
  BY <1>1 DEF CInv, Planning, InBody
<1>3. Prelude(out')
  BY HeaderWritten
<1>4. Paced(source.plans, slots')
  BY <1>1, <1>2, SlotsPaced
<1>5. PICK c : c = clock'
  OBVIOUS
<1>6. /\ c \in [Track -> Progress]
      /\ \A k \in DOMAIN source.plans : /\ source.plans[k].track \in Track
                                        /\ c[source.plans[k].track].count = 0
                                        /\ c[source.plans[k].track].time = source.plans[k].start
  BY <1>1, <1>2, <1>5, ClockStarts
<1>7. ASSUME NEW k \in DOMAIN source.plans PROVE TrackSoFar(k, 0)'
  <2>1. PICK plan, sl, file : plan = source.plans[k] /\ sl = slots' /\ file = out'
    OBVIOUS
  <2>2. plan \in TrackPlan
    BY <1>2, <2>1 DEF Planned
  <2>3. Reached(source.plans, sl, 1, 0, k, 0)
    BY <1>2, <1>4, <2>1, ReachedNone
  <2>4. DecodeTimes(plan)[0 + 1] = plan.start
    <3>1. PICK dt : dt = DecodeTimes(plan)
      OBVIOUS
    <3>2. dt[1] = plan.start
      BY <2>2, <3>1, TimesAre
    <3> QED
      BY <3>1, <3>2
  <2>5. Moofs(file, plan.track) = {}
    BY <1>3, <2>1 DEF Prelude, Moofs
  <2>6. PICK offs : offs = <<>>
    OBVIOUS
  <2>7. Sorts(offs, 0, {})
    BY <2>6 DEF Sorts
  <2>8. TrackWritten(plan, 0, offs, file)
    BY <2>5, <2>7 DEF TrackWritten
  <2>9. c[plan.track].count = 0 /\ c[plan.track].time = plan.start
    BY <1>6, <2>1
  <2> QED
    BY <1>1, <1>2, <1>5, <2>1, <2>3, <2>4, <2>8, <2>9 DEF TrackSoFar
<1>8. Headed(out')
  BY <1>3 DEF Prelude
<1>9. /\ at' = [slot |-> at'.slot, sample |-> at'.sample]
      /\ at'.slot \in 1..(Len(slots') + 1)
      /\ at'.slot <= Len(slots') => at'.sample \in 0..Len(slots'[at'.slot].samples)
  <2>1. at'.slot = 1 /\ at'.sample = 0 /\ at' = [slot |-> 1, sample |-> 0]
    BY <1>1, <1>2
  <2>2. Len(slots') \in Nat /\ \A x \in 1..Len(slots') : Len(slots'[x].samples) \in Nat
    BY <1>4 DEF Paced
  <2>3. 1 <= Len(slots') => Len(slots'[1].samples) \in Nat
    BY <2>2
  <2> QED
    BY <2>1, <2>2, <2>3
<1>10. DOMAIN frags' = DOMAIN source.plans
  BY <1>1
<1>11. InBody'
  BY <1>1, <1>2, <1>4, <1>5, <1>6, <1>7, <1>8, <1>9, <1>10 DEF InBody
<1> QED
  BY <1>1, <1>2, <1>11 DEF CInv

\* A step that only changes pc.
LEMMA StopStep ==
  ASSUME CInv, NEW reason, Stop(reason), reason \in {"done", "error"},
         reason = "done" => pc = "body" /\ at.slot > Len(slots)
  PROVE  CInv'
<1>1. /\ pc' = reason /\ job' = job /\ source' = source /\ slots' = slots /\ at' = at
      /\ out' = out /\ clock' = clock /\ frags' = frags
  BY DEF Stop
<1>2. CASE Planning
  <2>1. reason = "error"
    BY <1>2 DEF Planning
  <2>2. Planning'
    BY <1>1, <1>2, <2>1 DEF Planning
  <2> QED
    BY <1>1, <2>2 DEF CInv
<1>3. CASE InBody
  <2>1. \A k, w : TrackSoFar(k, w)' <=> TrackSoFar(k, w)
    BY <1>1 DEF TrackSoFar
  <2>2. InBody'
    BY <1>1, <1>3, <2>1 DEF InBody
  <2> QED
    BY <1>1, <2>2 DEF CInv
<1> QED
  BY <1>2, <1>3 DEF CInv

\* The prefix of a segment is no fragment.
LEMMA PrefixAdded ==
  ASSUME CInv, StartSegment
  PROVE  Headed(out') /\ Grown(out, out') /\ \A id : Moofs(out', id) = Moofs(out, id)
<1>1. /\ pc = "body" /\ at.slot <= Len(slots) /\ at.sample = 0
      /\ out' = AddAtom(out, PrefixAtom(source.catalog, ThisPlan.track))
  BY DEF StartSegment, Writing
<1>2. InBody
  BY <1>1 DEF CInv, Planning
<1>3. PICK x, a, file, more :
        /\ x = at.slot /\ a = PrefixAtom(source.catalog, ThisPlan.track)
        /\ file = out /\ more = out'
  OBVIOUS
<1>4. /\ x \in 1..(Len(slots) + 1) /\ Len(slots) \in Nat
      /\ Planned(source.plans) /\ Paced(source.plans, slots) /\ Headed(file)
  BY <1>2, <1>3 DEF InBody, Paced
<1>5. x \in 1..Len(slots)
  BY <1>1, <1>3, <1>4
<1>6. a.kind # "moof" /\ a.len \in Nat \ {0}
  <2>1. slots[x].k \in DOMAIN source.plans
    BY <1>4, <1>5 DEF Paced
  <2>2. source.plans[slots[x].k] \in TrackPlan
    BY <1>4, <2>1 DEF Planned
  <2>3. ThisPlan.track \in Track
    BY <1>3, <2>2, PlanFields DEF ThisPlan, Slot
  <2>4. PrefixLen[ThisPlan.track] \in Nat \ {0}
    BY <2>3, LengthAssumption
  <2> QED
    BY <1>3, <2>4 DEF PrefixAtom, Atom
<1>7. Headed(more) /\ Grown(file, more) /\ OneMore(file, more, a)
  BY <1>1, <1>3, <1>4, <1>6, AtomAdded
<1>8. ASSUME NEW id PROVE Moofs(more, id) = Moofs(file, id)
  <2>1. Moofs(more, id) = Moofs(file, id) \cup
          (IF a.kind = "moof" /\ a.body.trafs[1].track = id THEN {file.size} ELSE {})
    BY <1>4, <1>7, MoofsAdded
  <2> QED
    BY <1>6, <2>1
<1> QED
  BY <1>3, <1>7, <1>8

LEMMA StartSegmentStep == ASSUME CInv, StartSegment PROVE CInv'
<1>1. /\ pc = "body" /\ at.slot <= Len(slots) /\ at.sample = 0
      /\ at' = [at EXCEPT !.sample = 1]
      /\ pc' = pc /\ job' = job /\ source' = source /\ slots' = slots
      /\ clock' = clock /\ frags' = frags
  BY DEF StartSegment, Writing
<1>2. job \in Jobs /\ InBody
  BY <1>1 DEF CInv, Planning
<1>3. PICK x : x = at.slot
  OBVIOUS
<1>4. /\ at = [slot |-> x, sample |-> 0]
      /\ x \in 1..(Len(slots) + 1) /\ Len(slots) \in Nat
      /\ Planned(source.plans) /\ Paced(source.plans, slots) /\ Headed(out)
  BY <1>1, <1>2, <1>3 DEF InBody, Paced
<1>5. at' = [slot |-> x, sample |-> 1] /\ x \in 1..Len(slots)
  BY <1>1, <1>3, <1>4
<1>6. PICK file, more : file = out /\ more = out'
  OBVIOUS
<1>7. Headed(more) /\ Grown(file, more) /\ \A id : Moofs(more, id) = Moofs(file, id)
  BY <1>6, PrefixAdded
<1>8. ASSUME NEW k \in DOMAIN source.plans, NEW w, TrackSoFar(k, w) PROVE TrackSoFar(k, w)'
  <2>1. PICK plan : plan = source.plans[k]
    OBVIOUS
  <2>2. PICK offs : TrackWritten(plan, w, offs, file)
    BY <1>6, <1>8, <2>1 DEF TrackSoFar
  <2>3. TrackWritten(plan, w, offs, more)
    BY <1>7, <2>2, TrackKept
  <2>4. Reached(source.plans, slots, x, 0, k, w)
    BY <1>4, <1>8 DEF TrackSoFar
  <2>5. Reached(source.plans, slots, x, 1, k, w)
    BY <1>4, <1>5, <2>4, ReachedPrefix
  <2> QED
    BY <1>1, <1>5, <1>6, <1>8, <2>1, <2>3, <2>5 DEF TrackSoFar
<1>9. /\ at' = [slot |-> at'.slot, sample |-> at'.sample]
      /\ at'.slot \in 1..(Len(slots') + 1)
      /\ at'.slot <= Len(slots') => at'.sample \in 0..Len(slots'[at'.slot].samples)
  <2>1. Len(slots[x].samples) \in Nat \ {0}
    BY <1>4, <1>5 DEF Paced
  <2> QED
    BY <1>1, <1>4, <1>5, <2>1
<1>10. \A k \in DOMAIN source'.plans : \E w : TrackSoFar(k, w)'
  <2> SUFFICES ASSUME NEW k \in DOMAIN source.plans PROVE \E w : TrackSoFar(k, w)'
    BY <1>1
  <2>1. PICK w : TrackSoFar(k, w)
    BY <1>2 DEF InBody
  <2> QED
    BY <1>8, <2>1
<1>11. InBody'
  BY <1>1, <1>2, <1>6, <1>7, <1>9, <1>10 DEF InBody
<1> QED
  BY <1>1, <1>2, <1>11 DEF CInv

\* What is written for a sample, at a count and a time of its track's clock.
LEMMA MintedPair ==
  ASSUME NEW plan \in TrackPlan, NEW i \in 1..Len(plan.samples), NEW s, s = plan.samples[i],
         NEW c \in [Track -> Progress], c[plan.track].count = i - 1,
         c[plan.track].time = DecodeTimes(plan)[i],
         NEW step, step = [track |-> plan.track, dur |-> s.dur, size |-> s.size,
                           sync |-> s.sync, cts |-> s.cts # 0],
         NEW f, f = MintFrame(c, step, <<0, s.at>>)
  PROVE  Pair(plan, i, FragmentAtoms(f, s)[1], FragmentAtoms(f, s)[2])
<1>1. /\ plan.track \in Track /\ s.dur \in Nat /\ s.size \in Nat /\ s.sync \in BOOLEAN
      /\ s.cts \in Int /\ s.at \in Nat
  BY PlanFields
<1>2. Remap[plan.track] = plan.track
  BY <1>1, RenamedAssumption
<1>3. MoofLen[s.cts # 0] \in Nat \ {0}
  BY LengthAssumption
<1>4. /\ f.track = plan.track /\ f.seq = i /\ f.tfdt = DecodeTimes(plan)[i]
      /\ f.moof \in Nat \ {0}
  BY <1>2, <1>3 DEF MintFrame
<1>5. PICK a, b : a = FragmentAtoms(f, s)[1] /\ b = FragmentAtoms(f, s)[2]
  OBVIOUS
<1> DEFINE traf == [track |-> f.track, tfdt |-> f.tfdt, offset |-> TRUE,
                        at |-> f.moof + MdatHeader,
                        samples |-> <<[dur |-> s.dur, size |-> s.size,
                                       sync |-> s.sync, cts |-> s.cts]>>]
<1>6. /\ a.kind = "moof" /\ a.len = f.moof /\ a.body.seq = f.seq /\ a.body.trafs = <<traf>>
      /\ b.kind = "mdat" /\ b.len = 8 + s.size /\ b.body.data = s.at
  BY <1>5 DEF FragmentAtoms, Atom, MdatHeader
<1>7. /\ a.body.trafs[1].track = f.track /\ a.body.trafs[1].tfdt = f.tfdt
      /\ a.body.trafs[1].samples[1] = [dur |-> s.dur, size |-> s.size,
                                       sync |-> s.sync, cts |-> s.cts]
  BY <1>6
<1>8. b.len \in Nat \ {0}
  BY <1>1, <1>6
<1> HIDE DEF traf
<1>9. Pair(plan, i, a, b)
  BY <1>4, <1>6, <1>7, <1>8 DEF Pair
<1> QED
  BY <1>5, <1>9

\* The sample that is written is the next one of its track.
LEMMA SampleNext ==
  ASSUME CInv, WriteSample, NEW x, x = at.slot, NEW i, i = at.sample,
         NEW h, h = Slot.k, NEW plan, plan = ThisPlan
  PROVE  /\ at = [slot |-> x, sample |-> i]
         /\ Len(slots) \in Nat /\ x \in 1..Len(slots)
         /\ Len(slots[x].samples) \in Nat \ {0} /\ i \in 1..Len(slots[x].samples)
         /\ Planned(source.plans) /\ Paced(source.plans, slots) /\ Headed(out)
         /\ clock \in [Track -> Progress]
         /\ h = slots[x].k /\ h \in DOMAIN source.plans /\ plan = source.plans[h] /\ plan \in TrackPlan
         /\ Sample = plan.samples[slots[x].samples[i]]
         /\ \E w : /\ TrackSoFar(h, w)
                   /\ w \in Nat /\ w < Len(plan.samples) /\ slots[x].samples[i] = w + 1
<1>1. pc = "body" /\ at.slot <= Len(slots) /\ at.sample > 0
  BY DEF WriteSample, Writing
<1>2. InBody
  BY <1>1 DEF CInv, Planning
<1>3. /\ at = [slot |-> x, sample |-> i]
      /\ Len(slots) \in Nat /\ x \in 1..Len(slots)
      /\ Len(slots[x].samples) \in Nat \ {0} /\ i \in 1..Len(slots[x].samples)
      /\ Planned(source.plans) /\ Paced(source.plans, slots) /\ Headed(out)
      /\ clock \in [Track -> Progress]
  <2>1. /\ at = [slot |-> x, sample |-> i] /\ x \in 1..(Len(slots) + 1)
        /\ Planned(source.plans) /\ Paced(source.plans, slots) /\ Headed(out)
        /\ clock \in [Track -> Progress]
        /\ i \in 0..Len(slots[x].samples) /\ i > 0 /\ x <= Len(slots)
    BY <1>1, <1>2 DEF InBody
  <2>2. Len(slots) \in Nat
    BY <2>1 DEF Paced
  <2>3. x \in 1..Len(slots)
    BY <2>1, <2>2
  <2>4. Len(slots[x].samples) \in Nat \ {0}
    BY <2>1, <2>3 DEF Paced
  <2> QED
    BY <2>1, <2>2, <2>3, <2>4
<1>4. /\ h = slots[x].k /\ h \in DOMAIN source.plans /\ plan = source.plans[h] /\ plan \in TrackPlan
      /\ Sample = plan.samples[slots[x].samples[i]]
  <2>1. h = slots[x].k /\ plan = source.plans[h] /\ Sample = plan.samples[slots[x].samples[i]]
    BY DEF Slot, ThisPlan, Sample
  <2>2. h \in DOMAIN source.plans
    BY <1>3, <2>1 DEF Paced
  <2>3. plan \in TrackPlan
    BY <1>3, <2>1, <2>2 DEF Planned
  <2> QED
    BY <2>1, <2>2, <2>3
<1>5. PICK w : TrackSoFar(h, w)
  BY <1>2, <1>4 DEF InBody
<1>6. Reached(source.plans, slots, x, i, h, w)
  BY <1>5 DEF TrackSoFar
<1>7. w < Len(plan.samples) /\ slots[x].samples[i] = w + 1
  <2>1. PICK plans, sl : plans = source.plans /\ sl = slots
    OBVIOUS
  <2>2. /\ Planned(plans) /\ Paced(plans, sl) /\ x \in 1..Len(sl) /\ i \in 1..Len(sl[x].samples)
        /\ h \in DOMAIN plans /\ h = sl[x].k /\ Reached(plans, sl, x, i, h, w)
    BY <1>3, <1>4, <1>6, <2>1
  <2>3. w < Len(plans[h].samples) /\ sl[x].samples[i] = w + 1
    BY <2>2, ReachedNext
  <2> QED
    BY <1>4, <2>1, <2>3
<1>8. w \in Nat
  BY <1>6 DEF Reached
<1> QED
  BY <1>3, <1>4, <1>5, <1>7, <1>8

LEMMA SamplePair ==
  ASSUME CInv, WriteSample, NEW m, m = Slot.samples[at.sample]
  PROVE  \E a, b : Pair(ThisPlan, m, a, b) /\ out' = AddAtom(AddAtom(out, a), b)
<1>1. PICK x, i, h, plan, s, step, f :
        /\ x = at.slot /\ i = at.sample /\ h = Slot.k /\ plan = ThisPlan /\ s = Sample
        /\ step = [track |-> plan.track, dur |-> s.dur, size |-> s.size,
                   sync |-> s.sync, cts |-> s.cts # 0]
        /\ f = MintFrame(clock, step, <<0, s.at>>)
  OBVIOUS
<1>2. out' = AddAtom(AddAtom(out, FragmentAtoms(f, s)[1]), FragmentAtoms(f, s)[2])
  BY <1>1 DEF WriteSample
<1>3. /\ clock \in [Track -> Progress]
      /\ plan = source.plans[h] /\ plan \in TrackPlan
      /\ s = plan.samples[slots[x].samples[i]]
      /\ \E w : /\ TrackSoFar(h, w)
                /\ w \in Nat /\ w < Len(plan.samples) /\ slots[x].samples[i] = w + 1
  BY <1>1, SampleNext
<1>4. PICK w : /\ TrackSoFar(h, w)
               /\ w \in Nat /\ w < Len(plan.samples) /\ slots[x].samples[i] = w + 1
  BY <1>3
<1>5. m = w + 1 /\ s = plan.samples[m]
  BY <1>1, <1>3, <1>4 DEF Slot
<1>6. m \in 1..Len(plan.samples) /\ m - 1 = w
  <2>1. Len(plan.samples) \in Nat
    BY <1>3, PlanFields
  <2> QED
    BY <1>4, <1>5, <2>1
<1>7. clock[plan.track].count = m - 1 /\ clock[plan.track].time = DecodeTimes(plan)[m]
  BY <1>3, <1>4, <1>5, <1>6 DEF TrackSoFar
<1>8. Pair(plan, m, FragmentAtoms(f, s)[1], FragmentAtoms(f, s)[2])
  BY <1>1, <1>3, <1>5, <1>6, <1>7, MintedPair
<1> QED
  BY <1>1, <1>2, <1>8

LEMMA WriteSampleStep == ASSUME CInv, WriteSample PROVE CInv'
<1>1. /\ pc = "body" /\ at.slot <= Len(slots) /\ at.sample > 0
      /\ at' = NextPlace(Slot.samples)
      /\ pc' = pc /\ job' = job /\ source' = source /\ slots' = slots
      /\ DOMAIN frags' = DOMAIN frags
  BY DEF WriteSample, Writing
<1>2. job \in Jobs /\ InBody
  BY <1>1 DEF CInv, Planning
<1>3. PICK x, i, h, plan, s, step :
        /\ x = at.slot /\ i = at.sample /\ h = Slot.k /\ plan = ThisPlan /\ s = Sample
        /\ step = [track |-> plan.track, dur |-> s.dur, size |-> s.size,
                   sync |-> s.sync, cts |-> s.cts # 0]
  OBVIOUS
<1>4. clock' = Advance(clock, step)
  BY <1>3 DEF WriteSample
<1>5. /\ at = [slot |-> x, sample |-> i]
      /\ Len(slots) \in Nat /\ x \in 1..Len(slots)
      /\ Len(slots[x].samples) \in Nat \ {0} /\ i \in 1..Len(slots[x].samples)
      /\ Planned(source.plans) /\ Paced(source.plans, slots) /\ Headed(out)
      /\ clock \in [Track -> Progress]
  BY <1>3, SampleNext
<1>6. /\ h = slots[x].k /\ h \in DOMAIN source.plans /\ plan = source.plans[h] /\ plan \in TrackPlan
      /\ s = plan.samples[slots[x].samples[i]]
  BY <1>3, SampleNext
<1>7. PICK x2, i2 : /\ at' = [slot |-> x2, sample |-> i2]
                    /\ IF i < Len(slots[x].samples) THEN x2 = x /\ i2 = i + 1 ELSE x2 = x + 1 /\ i2 = 0
  <2>1. at' = IF i < Len(slots[x].samples) THEN [at EXCEPT !.sample = @ + 1]
                                           ELSE [slot |-> x + 1, sample |-> 0]
    BY <1>1, <1>3 DEF NextPlace, Slot
  <2>2. [at EXCEPT !.sample = @ + 1] = [slot |-> x, sample |-> i + 1]
    BY <1>5
  <2>3. CASE i < Len(slots[x].samples)
    BY <2>1, <2>2, <2>3
  <2>4. CASE ~ i < Len(slots[x].samples)
    BY <2>1, <2>4
  <2> QED
    BY <2>3, <2>4
<1>8. PICK w : /\ TrackSoFar(h, w)
               /\ w \in Nat /\ w < Len(plan.samples) /\ slots[x].samples[i] = w + 1
  BY <1>3, SampleNext
<1>9. /\ w \in Nat /\ w < Len(plan.samples) /\ slots[x].samples[i] = w + 1
      /\ Reached(source.plans, slots, x2, i2, h, w + 1)
      /\ clock[plan.track].count = w /\ clock[plan.track].time = DecodeTimes(plan)[w + 1]
      /\ \E offs : TrackWritten(plan, w, offs, out)
  <2>1. /\ Reached(source.plans, slots, x, i, h, w)
        /\ clock[plan.track].count = w /\ clock[plan.track].time = DecodeTimes(plan)[w + 1]
        /\ \E offs : TrackWritten(plan, w, offs, out)
    BY <1>3, <1>6, <1>8 DEF TrackSoFar
  <2>2. Reached(source.plans, slots, x2, i2, h, w + 1)
    BY <1>5, <1>6, <1>7, <2>1, ReachedSample
  <2> QED
    BY <1>8, <2>1, <2>2
<1>10. PICK file, more : file = out /\ more = out'
  OBVIOUS
<1>11. PICK n \in Nat : n = Len(plan.samples)
  BY <1>6, PlanFields
<1>12. w + 1 \in 1..n /\ (w + 1) - 1 = w
  BY <1>9, <1>11
<1>13. PICK a, b : Pair(plan, w + 1, a, b) /\ more = AddAtom(AddAtom(file, a), b)
  <2>1. PICK m : m = Slot.samples[at.sample]
    OBVIOUS
  <2>2. m = w + 1
    BY <1>3, <1>9, <2>1 DEF Slot
  <2>3. \E a, b : Pair(ThisPlan, m, a, b) /\ out' = AddAtom(AddAtom(out, a), b)
    BY <2>1, SamplePair
  <2> QED
    BY <1>3, <1>10, <2>2, <2>3
<1>14. Headed(file)
  BY <1>5, <1>10
<1>15. /\ Headed(more) /\ Grown(file, more)
       /\ \A id : id # plan.track => Moofs(more, id) = Moofs(file, id)
  BY <1>13, <1>14, PairAdded
<1>16. /\ clock' \in [Track -> Progress]
       /\ clock'[plan.track].count = w + 1
       /\ clock'[plan.track].time = DecodeTimes(plan)[(w + 1) + 1]
       /\ \A t \in Track \ {plan.track} : clock'[t] = clock[t]
  <2>1. PICK t, c, e : t = plan.track /\ c = clock /\ e = s.dur
    OBVIOUS
  <2>2. t \in Track /\ e \in Nat /\ e = plan.samples[w + 1].dur
    <3>1. s = plan.samples[w + 1]
      BY <1>6, <1>9
    <3>2. PICK m : m = w + 1
      OBVIOUS
    <3>3. m \in 1..Len(plan.samples)
      BY <1>11, <1>12, <3>2
    <3>4. plan.track \in Track /\ plan.samples[m].dur \in Nat
      BY <1>6, <3>3, PlanFields
    <3> QED
      BY <2>1, <3>1, <3>2, <3>4
  <2>3. clock' = [c EXCEPT ![t] = [time |-> c[t].time + e, count |-> c[t].count + 1]]
    BY <1>3, <1>4, <2>1 DEF Advance
  <2>4. c[t].time \in Nat /\ c[t].count \in Nat /\ c \in [Track -> Progress]
    BY <1>5, <2>1, <2>2 DEF Progress
  <2>5. [time |-> c[t].time + e, count |-> c[t].count + 1] \in Progress
    BY <2>2, <2>4 DEF Progress
  <2>6. /\ clock' \in [Track -> Progress]
        /\ clock'[t] = [time |-> c[t].time + e, count |-> c[t].count + 1]
        /\ \A u \in Track \ {t} : clock'[u] = c[u]
    BY <2>2, <2>3, <2>4, <2>5
  <2>7. PICK dt, m : dt = DecodeTimes(plan) /\ m = w + 1
    OBVIOUS
  <2>8. dt[m + 1] = dt[m] + plan.samples[m].dur
    <3>1. m \in 1..n
      BY <1>12, <2>7
    <3>2. \A j \in 1..n : dt[j + 1] = dt[j] + plan.samples[j].dur
      <4>1. /\ plan \in TrackPlan /\ dt = DecodeTimes(plan)
            /\ n = Len(plan.samples)
        BY <1>6, <1>11, <2>7
      <4> QED
        BY <4>1, TimesAre
    <3> QED
      BY <3>1, <3>2
  <2> QED
    BY <1>9, <2>1, <2>2, <2>6, <2>7, <2>8
<1>17. ASSUME NEW k \in DOMAIN source.plans PROVE \E v : TrackSoFar(k, v)'
  <2>1. CASE k = h
    <3>1. PICK r : TrackWritten(plan, w + 1, r, more)
      <4>1. PICK offs : TrackWritten(plan, w, offs, file)
        BY <1>9, <1>10
      <4> QED
        BY <1>13, <1>14, <4>1, TrackGoesOn
    <3>2. /\ source'.plans[k] = plan /\ slots' = slots /\ out' = more
          /\ at'.slot = x2 /\ at'.sample = i2
      BY <1>1, <1>6, <1>7, <1>10, <2>1
    <3>3. Reached(source'.plans, slots', at'.slot, at'.sample, k, w + 1)
      BY <1>1, <1>9, <2>1, <3>2
    <3>4. TrackSoFar(k, w + 1)'
      BY <1>16, <3>1, <3>2, <3>3 DEF TrackSoFar
    <3> QED
      BY <3>4
  <2>2. CASE k # h
    <3>1. PICK v : TrackSoFar(k, v)
      BY <1>2 DEF InBody
    <3>2. PICK p : p = source.plans[k]
      OBVIOUS
    <3>3. p.track # plan.track /\ p.track \in Track
      <4>1. /\ \A i1, j1 \in DOMAIN source.plans :
                 i1 < j1 => source.plans[i1].track < source.plans[j1].track
            /\ DOMAIN source.plans \subseteq Nat
            /\ p \in TrackPlan
        BY <1>5, <3>2 DEF Planned
      <4>2. p.track \in Track /\ plan.track \in Track
        BY <1>6, <4>1, PlanFields
      <4>3. p.track \in Nat /\ plan.track \in Nat
        BY <4>2, TrackAssumption
      <4>4. k < h \/ h < k
        BY <1>6, <2>2, <4>1
      <4> QED
        BY <1>6, <3>2, <4>1, <4>2, <4>3, <4>4
    <3>4. PICK offs : TrackWritten(p, v, offs, file)
      BY <1>10, <3>1, <3>2 DEF TrackSoFar
    <3>5. TrackWritten(p, v, offs, more)
      BY <1>15, <3>3, <3>4, TrackKept
    <3>6. Reached(source.plans, slots, x, i, k, v)
      BY <1>3, <3>1 DEF TrackSoFar
    <3>7. Reached(source.plans, slots, x2, i2, k, v)
      BY <1>5, <1>6, <1>7, <2>2, <3>6, ReachedSample
    <3>8. clock'[p.track] = clock[p.track]
      BY <1>16, <3>3
    <3>9. TrackSoFar(k, v)'
      BY <1>1, <1>7, <1>10, <3>1, <3>2, <3>5, <3>7, <3>8 DEF TrackSoFar
    <3> QED
      BY <3>9
  <2> QED
    BY <2>1, <2>2
<1>18. /\ at' = [slot |-> at'.slot, sample |-> at'.sample]
       /\ at'.slot \in 1..(Len(slots) + 1)
       /\ at'.slot <= Len(slots) => at'.sample \in 0..Len(slots[at'.slot].samples)
  <2>1. at' = [slot |-> x2, sample |-> i2] /\ at'.slot = x2 /\ at'.sample = i2
    BY <1>7
  <2>2. CASE i < Len(slots[x].samples)
    <3>1. x2 = x /\ i2 = i + 1
      BY <1>7, <2>2
    <3> QED
      BY <1>5, <2>1, <2>2, <3>1
  <2>3. CASE ~ i < Len(slots[x].samples)
    <3>1. x2 = x + 1 /\ i2 = 0
      BY <1>7, <2>3
    <3>2. x2 <= Len(slots) => x2 \in 1..Len(slots)
      BY <1>5, <3>1
    <3>3. x2 <= Len(slots) => Len(slots[x2].samples) \in Nat
      BY <1>5, <3>2 DEF Paced
    <3> QED
      BY <1>5, <2>1, <3>1, <3>3
  <2> QED
    BY <2>2, <2>3
<1>19. \A k \in DOMAIN source'.plans : \E v : TrackSoFar(k, v)'
  BY <1>1, <1>17
<1>20. InBody'
  BY <1>1, <1>2, <1>5, <1>10, <1>15, <1>16, <1>18, <1>19 DEF InBody
<1> QED
  BY <1>1, <1>2, <1>20 DEF CInv

LEMMA CInvStep == CInv /\ [Next]_vars => CInv'
<1> SUFFICES ASSUME CInv, [Next]_vars PROVE CInv'
  OBVIOUS
<1>1. CASE Read
  BY <1>1, ReadStep
<1>2. CASE ReadFails
  BY <1>2, StopStep DEF ReadFails
<1>3. CASE WriteHeader
  BY <1>3, WriteHeaderStep
<1>4. CASE HeaderFails
  BY <1>4, StopStep DEF HeaderFails
<1>5. CASE StartSegment
  BY <1>5, StartSegmentStep
<1>6. CASE WriteSample
  BY <1>6, WriteSampleStep
<1>7. CASE SampleOutside
  BY <1>7, StopStep DEF SampleOutside
<1>8. CASE Finish
  BY <1>8, StopStep DEF Finish
<1>9. CASE FinishFails
  BY <1>9, StopStep DEF FinishFails
<1>10. CASE UNCHANGED vars
  <2>1. \A k, w : TrackSoFar(k, w)' <=> TrackSoFar(k, w)
    BY <1>10 DEF TrackSoFar, vars
  <2>2. Planning' <=> Planning
    BY <1>10 DEF Planning, vars
  <2>3. InBody' <=> InBody
    BY <1>10, <2>1 DEF InBody, vars
  <2> QED
    BY <1>10, <2>2, <2>3 DEF CInv, vars
<1> QED
  BY <1>1, <1>2, <1>3, <1>4, <1>5, <1>6, <1>7, <1>8, <1>9, <1>10 DEF Next

THEOREM CInvHolds == Spec => []CInv
<1>1. Init => CInv
  BY CInvInit
<1>2. CInv /\ [Next]_vars => CInv'
  BY CInvStep
<1> QED
  BY <1>1, <1>2, PTL DEF Spec

\* The state is of its type.
LEMMA CInvIsTyped == CInv => TypeOK
<1> SUFFICES ASSUME CInv PROVE TypeOK
  OBVIOUS
<1>1. \A k \in DOMAIN source.plans : source.plans[k].track \in Track /\ source.plans[k].start \in Nat
  <2>1. Planned(source.plans)
    BY DEF CInv, Planning, InBody
  <2> QED
    BY <2>1, PlanFields DEF Planned
<1>2. CASE Planning
  <2>1. clock \in [Track -> Progress]
    BY <1>2 DEF Planning, StartClock, Progress
  <2>2. out.size \in Nat /\ \A p \in DOMAIN out.head : p < out.size
    BY <1>2 DEF Planning, EmptyFile
  <2>3. at.slot \in 1..(Len(slots) + 1) /\ ~ at.slot <= Len(slots)
    <3>1. at.slot = 1 /\ Len(slots) = 0
      BY <1>2 DEF Planning
    <3> QED
      BY <3>1
  <2>4. pc \in {"read", "header", "body", "done", "error"}
    BY <1>2 DEF Planning
  <2> QED
    BY <1>1, <2>1, <2>2, <2>3, <2>4 DEF TypeOK
<1>3. CASE InBody
  BY <1>1, <1>3 DEF InBody, TypeOK, Headed
<1> QED
  BY <1>2, <1>3 DEF CInv

\* The fragments of a track in a file are those of its first samples.
LEMMA FragmentsAre ==
  ASSUME NEW plan, NEW w, NEW offs, NEW file, Headed(file), TrackWritten(plan, w, offs, file),
         NEW fs, fs = FragmentsOf(file, plan.track)
  PROVE  /\ Len(fs) = w /\ DOMAIN fs = 1..w
         /\ \A i \in 1..w : LET s == plan.samples[i]
                            IN  /\ fs[i].from = offs[i]
                                /\ fs[i].seq = i
                                /\ fs[i].tfdt = DecodeTimes(plan)[i]
                                /\ fs[i].data = s.at
                                /\ fs[i].sample = [dur |-> s.dur, size |-> s.size,
                                                   sync |-> s.sync, cts |-> s.cts]
<1>1. PICK T : T = Moofs(file, plan.track)
  OBVIOUS
<1>2. T \in SUBSET Int
  BY <1>1 DEF Moofs, Headed
<1>3. Sorts(offs, w, T)
  BY <1>1 DEF TrackWritten
<1>4. offs = Ascending(T)
  BY <1>2, <1>3, SortedIs
<1>5. DOMAIN offs = 1..w /\ w \in Nat
  BY <1>3 DEF Sorts
<1> DEFINE moofs == Ascending({p \in DOMAIN file.head : /\ file.head[p].kind = "moof"
                                                   /\ file.head[p].body.trafs[1].track = plan.track})
           Row(i) == LET moof == file.head[moofs[i]]
                     IN  [from |-> moofs[i], seq |-> moof.body.seq,
                          tfdt |-> moof.body.trafs[1].tfdt,
                          sample |-> moof.body.trafs[1].samples[1],
                          data |-> file.head[moofs[i] + moof.len].body.data]
<1>6. moofs = offs
  BY <1>1, <1>4 DEF Moofs
<1>7. fs = [i \in DOMAIN moofs |-> Row(i)]
  BY DEF FragmentsOf
<1> HIDE DEF moofs
<1>8. ASSUME NEW i \in 1..w
      PROVE  /\ Row(i).from = offs[i]
             /\ Row(i).seq = i
             /\ Row(i).tfdt = DecodeTimes(plan)[i]
             /\ Row(i).data = plan.samples[i].at
             /\ Row(i).sample = [dur |-> plan.samples[i].dur, size |-> plan.samples[i].size,
                                 sync |-> plan.samples[i].sync, cts |-> plan.samples[i].cts]
  <2>1. Fragment(plan, i, file, offs[i])
    BY DEF TrackWritten
  <2> QED
    BY <1>6, <2>1 DEF Fragment
<1> HIDE DEF Row
<1>9. fs = [i \in 1..w |-> Row(i)]
  BY <1>5, <1>6, <1>7
<1>10. Len(fs) = w /\ DOMAIN fs = 1..w
  BY <1>5, <1>9
<1>11. \A i \in 1..w : fs[i] = Row(i)
  BY <1>9
<1> QED
  BY <1>8, <1>10, <1>11

LEMMA CInvWritesOnce == CInv => SamplesWrittenOnce
<1> SUFFICES ASSUME CInv, NEW k \in DOMAIN frags
             PROVE  LET plan    == source.plans[k]
                        written == FragmentsOf(out, plan.track)
                    IN  /\ Len(written) <= Len(plan.samples)
                        /\ pc = "done" => Len(written) = Len(plan.samples)
                        /\ \A i \in DOMAIN written :
                             LET s == plan.samples[i]
                             IN  /\ written[i].seq = i
                                 /\ written[i].tfdt = DecodeTimes(plan)[i]
                                 /\ written[i].data = s.at
                                 /\ written[i].sample = [dur |-> s.dur, size |-> s.size,
                                                         sync |-> s.sync, cts |-> s.cts]
  BY DEF SamplesWrittenOnce
<1>1. InBody
  BY DEF CInv, Planning
<1>2. PICK plan, fs : plan = source.plans[k] /\ fs = FragmentsOf(out, plan.track)
  OBVIOUS
<1>3. k \in DOMAIN source.plans
  BY <1>1 DEF InBody
<1>4. PICK w : TrackSoFar(k, w)
  BY <1>1, <1>3 DEF InBody
<1>5. PICK offs : TrackWritten(plan, w, offs, out)
  BY <1>2, <1>4 DEF TrackSoFar
<1>6. /\ Len(fs) = w /\ DOMAIN fs = 1..w
      /\ \A i \in 1..w : LET s == plan.samples[i]
                         IN  /\ fs[i].from = offs[i]
                             /\ fs[i].seq = i
                             /\ fs[i].tfdt = DecodeTimes(plan)[i]
                             /\ fs[i].data = s.at
                             /\ fs[i].sample = [dur |-> s.dur, size |-> s.size,
                                                sync |-> s.sync, cts |-> s.cts]
  <2>1. Headed(out)
    BY <1>1 DEF InBody
  <2> QED
    BY <1>2, <1>5, <2>1, FragmentsAre
<1>7. w <= Len(plan.samples)
  <2>1. plan \in TrackPlan
    BY <1>1, <1>2, <1>3 DEF InBody, Planned
  <2>2. Len(plan.samples) \in Nat
    BY <2>1, PlanFields
  <2> QED
    BY <1>2, <1>4, <2>2 DEF TrackSoFar, Reached
<1>8. pc = "done" => w = Len(plan.samples)
  <2> SUFFICES ASSUME pc = "done" PROVE w = Len(plan.samples)
    OBVIOUS
  <2>1. /\ at.slot \in Int /\ at.slot > Len(slots)
        /\ Planned(source.plans) /\ Paced(source.plans, slots)
    BY <1>1 DEF InBody
  <2>2. Reached(source.plans, slots, at.slot, at.sample, k, w)
    BY <1>4 DEF TrackSoFar
  <2> QED
    BY <1>2, <1>3, <2>1, <2>2, ReachedAll
<1> QED
  BY <1>2, <1>6, <1>7, <1>8

\* The state of a conversion is of its type, for every input.
THEOREM ConvertTyped == Spec => []TypeOK
  BY CInvHolds, CInvIsTyped, PTL

\* flat.rs write_canonical_body: whatever the tables of the input and wherever the
\* cuts fall, the samples of each track are written from the first on, in order,
\* none twice, each with its own bytes, decode time and entry, and all of them when
\* the conversion is done.
THEOREM WrittenOnce == Spec => []SamplesWrittenOnce
  BY CInvHolds, CInvWritesOnce, PTL

-----------------------------------------------------------------------------
(* Sums.                                                                   *)

\* A recursion that begins at zero.
Stepped(n, A, base, st) == n \in Nat /\ base \in A /\ st \in [1..n -> [A -> A]]

LEMMA Recursion ==
  ASSUME NEW n, NEW A, NEW base, NEW st, Stepped(n, A, base, st)
  PROVE  \E f : /\ f \in [0..n -> A] /\ f[0] = base
                /\ \A i \in 1..n : f[i] = st[i][f[i - 1]]
<1>1. (0 + 1)..n = 1..n
  OBVIOUS
<1>2. st \in [(0 + 1)..n -> [A -> A]]
  BY Zenon, <1>1 DEF Stepped
<1>3. 0 \in Nat /\ n \in Nat /\ 0 <= n
  BY DEF Stepped
<1>4. Steps(0, n, A, base, st)
  BY Zenon, <1>2, <1>3 DEF Steps, Stepped
<1>5. PICK f : Follows(f, 0, n, A, base, st)
  BY <1>4, PrefixRecursion
<1> QED
  BY <1>1, <1>5 DEF Follows

\* The partial sums of a list of numbers.
Summed(f, s, n) ==
  /\ f \in [0..n -> Nat] /\ f[0] = 0
  /\ \A i \in 1..n : f[i] = f[i - 1] + s[i]

Numbers(s, n) == n \in Nat /\ Len(s) = n /\ \A i \in 1..n : s[i] \in Nat

LEMMA SumSeqAre ==
  ASSUME NEW s, NEW n, Numbers(s, n)
  PROVE  \E f : Summed(f, s, n) /\ SumSeq(s) = f[n]
<1>0. n \in Nat /\ Len(s) = n /\ \A i \in 1..n : s[i] \in Nat
  BY DEF Numbers
<1> DEFINE Body(f) == [i \in 0..n |-> IF i = 0 THEN 0 ELSE f[i - 1] + s[i]]
<1>1. PICK st : st = [i \in 1..n |-> [x \in Nat |-> x + s[i]]]
  OBVIOUS
<1>2. PICK f : /\ f \in [0..n -> Nat] /\ f[0] = 0
               /\ \A i \in 1..n : f[i] = st[i][f[i - 1]]
  <2>1. st \in [1..n -> [Nat -> Nat]]
    BY <1>0, <1>1
  <2>2. Stepped(n, Nat, 0, st)
    BY <1>0, <2>1 DEF Stepped
  <2> QED
    BY <2>2, Recursion
<1>3. f = Body(f)
  <2>1. \A i \in 0..n : i # 0 => i \in 1..n /\ i - 1 \in 0..n
    BY <1>0
  <2>2. \A i \in 0..n : i # 0 => f[i] = f[i - 1] + s[i]
    BY <1>1, <1>2, <2>1
  <2> QED
    BY <1>2, <2>2
<1>4. PICK g : g = SumsOf(s)
  OBVIOUS
<1>5. g = Body(g)
  <2>1. g = CHOOSE h : h = Body(h)
    BY <1>0, <1>4 DEF SumsOf
  <2> HIDE DEF Body
  <2> QED
    BY <1>3, <2>1
<1>6. \A i \in 1..n : g[i] = g[i - 1] + s[i]
  <2>1. \A i \in 1..n : i \in 0..n /\ i # 0
    BY <1>0
  <2> QED
    BY <1>5, <2>1
<1>7. DOMAIN g = 0..n /\ g[0] = 0
  BY <1>0, <1>5
<1>8. \A i \in 0..n : g[i] \in Nat
  <2>1. g[0] \in Nat
    BY <1>7
  <2>2. ASSUME NEW i \in 1..n, g[i - 1] \in Nat PROVE g[i] \in Nat
    BY <1>0, <1>6, <2>2
  <2>3. 0 \in Nat /\ n \in Nat /\ 1 = 0 + 1
    BY <1>0
  <2> QED
    BY <2>1, <2>2, <2>3, PrefixInduction
<1>9. g \in [0..n -> Nat]
  <2>1. g = [i \in 0..n |-> g[i]]
    BY <1>5
  <2> QED
    BY <1>8, <2>1
<1>10. SumSeq(s) = g[n]
  BY <1>0, <1>4, SumSeqIs
<1> QED
  BY <1>6, <1>7, <1>9, <1>10 DEF Summed

\* Two lists that begin alike have the same partial sums.
LEMMA SummedAlike ==
  ASSUME NEW f, NEW g, NEW s, NEW r, NEW n \in Nat, NEW m \in Nat, n <= m,
         Summed(f, s, n), Summed(g, r, m), \A i \in 1..n : s[i] = r[i]
  PROVE  f[n] = g[n]
<1>1. PICK apart, A : apart = [i \in 0..n |-> IF f[i] = g[i] THEN 0 ELSE 1] /\ A = {0}
  OBVIOUS
<1>2. apart[0] \in A
  BY <1>1 DEF Summed
<1>3. ASSUME NEW i \in 1..n, apart[i - 1] \in A PROVE apart[i] \in A
  <2>1. i - 1 \in 0..n /\ i \in 0..n /\ i \in 1..m
    OBVIOUS
  <2>2. f[i - 1] = g[i - 1]
    BY <1>1, <1>3, <2>1
  <2>3. f[i] = f[i - 1] + s[i] /\ g[i] = g[i - 1] + r[i] /\ s[i] = r[i]
    BY <2>1 DEF Summed
  <2> QED
    BY <1>1, <2>1, <2>2, <2>3
<1>4. 0 \in Nat /\ n \in Nat /\ 1 = 0 + 1
  OBVIOUS
<1>5. \A i \in 0..n : apart[i] \in A
  BY <1>2, <1>3, <1>4, PrefixInduction
<1>6. n \in 0..n
  OBVIOUS
<1> QED
  BY <1>1, <1>5, <1>6

LEMMA SumAppend ==
  ASSUME NEW s, NEW r, NEW n, Numbers(s, n), Numbers(r, n + 1), \A i \in 1..n : s[i] = r[i]
  PROVE  SumSeq(s) \in Nat /\ SumSeq(r) = SumSeq(s) + r[n + 1]
<1>1. PICK f : Summed(f, s, n) /\ SumSeq(s) = f[n]
  BY SumSeqAre
<1>2. PICK g : Summed(g, r, n + 1) /\ SumSeq(r) = g[n + 1]
  BY SumSeqAre
<1>3. n \in Nat /\ n + 1 \in Nat /\ n <= n + 1 /\ n \in 0..n
  BY DEF Numbers
<1>4. f[n] = g[n]
  BY <1>1, <1>2, <1>3, SummedAlike
<1>5. g[n + 1] = g[n] + r[n + 1]
  <2>1. PICK m : m = n + 1
    OBVIOUS
  <2>2. m \in 1..m /\ m - 1 = n
    BY <1>3, <2>1
  <2>3. Summed(g, r, m)
    BY <1>2, <2>1
  <2>4. g[m] = g[m - 1] + r[m]
    BY <2>2, <2>3 DEF Summed
  <2> QED
    BY <2>1, <2>2, <2>4
<1>6. f[n] \in Nat
  BY <1>1, <1>3 DEF Summed
<1> QED
  BY <1>1, <1>2, <1>4, <1>5, <1>6

\* Tracks with so many bytes each.
Weighted(meta, T) ==
  T \in SUBSET Int /\ IsFiniteSet(T) /\ \A id \in T : meta.bytes[id] \in Nat

LEMMA DisplacedIs ==
  ASSUME NEW meta, NEW S, NEW s, NEW n, Weighted(meta, S), Sorts(s, n, S)
  PROVE  /\ Displaced(meta, S) = SumSeq([i \in 1..n |-> meta.bytes[s[i]]])
         /\ Numbers([i \in 1..n |-> meta.bytes[s[i]]], n)
<1>1. S \in SUBSET Int /\ \A id \in S : meta.bytes[id] \in Nat
  BY DEF Weighted
<1>2. s = Ascending(S)
  BY <1>1, SortedIs
<1>3. n \in Nat /\ DOMAIN s = 1..n /\ \A i \in 1..n : s[i] \in S
  BY DEF Sorts
<1>4. PICK r : r = [i \in 1..n |-> meta.bytes[s[i]]]
  OBVIOUS
<1>5. Displaced(meta, S) = SumSeq(r)
  BY <1>2, <1>3, <1>4 DEF Displaced
<1>6. Numbers(r, n)
  BY <1>1, <1>3, <1>4 DEF Numbers
<1> QED
  BY <1>4, <1>5, <1>6

LEMMA DisplacedIsNat ==
  ASSUME NEW meta, NEW S, Weighted(meta, S)
  PROVE  Displaced(meta, S) \in Nat
<1>1. Sorts(Ascending(S), Cardinality(S), S)
  BY Sorted DEF Weighted
<1>2. PICK r, n : Displaced(meta, S) = SumSeq(r) /\ Numbers(r, n)
  BY <1>1, DisplacedIs
<1>3. PICK f : Summed(f, r, n) /\ SumSeq(r) = f[n]
  BY <1>2, SumSeqAre
<1>4. n \in 0..n
  BY <1>2 DEF Numbers
<1> QED
  BY <1>2, <1>3, <1>4 DEF Summed

LEMMA DisplacedNone == \A meta : Displaced(meta, {}) = 0
<1> SUFFICES ASSUME NEW meta PROVE Displaced(meta, {}) = 0
  OBVIOUS
<1>1. PICK S, s : S = {} /\ s = [i \in 1..0 |-> 0]
  OBVIOUS
<1>2. Sorts(s, 0, S)
  BY <1>1 DEF Sorts
<1>3. IsFiniteSet(S)
  BY <1>1, FS_EmptySet
<1>4. Weighted(meta, S)
  BY <1>1, <1>3 DEF Weighted
<1>5. PICK r : r = [i \in 1..0 |-> meta.bytes[s[i]]]
  OBVIOUS
<1>6. Displaced(meta, S) = SumSeq(r) /\ Numbers(r, 0)
  BY <1>2, <1>4, <1>5, DisplacedIs
<1>7. PICK f : Summed(f, r, 0) /\ SumSeq(r) = f[0]
  BY <1>6, SumSeqAre
<1> QED
  BY <1>1, <1>6, <1>7 DEF Summed

\* A track above the others counts last.
LEMMA DisplacedGrows ==
  ASSUME NEW meta, NEW S, NEW id \in Int, Weighted(meta, S), meta.bytes[id] \in Nat,
         \A t \in S : t < id
  PROVE  Displaced(meta, S \cup {id}) = Displaced(meta, S) + meta.bytes[id]
<1>1. S \in SUBSET Int /\ IsFiniteSet(S) /\ \A t \in S : meta.bytes[t] \in Nat
  BY DEF Weighted
<1>2. PICK s, n : Sorts(s, n, S)
  BY <1>1, Sorted
<1>3. PICK r, m : r = [i \in 1..(n + 1) |-> IF i = n + 1 THEN id ELSE s[i]] /\ m = n + 1
  OBVIOUS
<1>4. PICK T : T = S \cup {id}
  OBVIOUS
<1>5. Sorts(r, m, T)
  BY <1>1, <1>2, <1>3, <1>4, SortsAppend
<1>6. Weighted(meta, T)
  <2>1. IsFiniteSet(T)
    BY <1>1, <1>4, FS_AddElement
  <2> QED
    BY <1>1, <1>4, <2>1 DEF Weighted
<1>7. PICK a, b : a = [i \in 1..n |-> meta.bytes[s[i]]] /\ b = [i \in 1..m |-> meta.bytes[r[i]]]
  OBVIOUS
<1>8. Displaced(meta, S) = SumSeq(a) /\ Numbers(a, n)
  BY <1>2, <1>7, DisplacedIs
<1>9. Displaced(meta, T) = SumSeq(b) /\ Numbers(b, m)
  BY <1>5, <1>6, <1>7, DisplacedIs
<1>10. n \in Nat
  BY <1>2 DEF Sorts
<1>11. b[m] = meta.bytes[id] /\ \A i \in 1..n : a[i] = b[i]
  BY <1>3, <1>7, <1>10
<1>12. SumSeq(b) = SumSeq(a) + b[m]
  BY <1>3, <1>8, <1>9, <1>11, SumAppend
<1> QED
  BY <1>4, <1>8, <1>9, <1>11, <1>12

-----------------------------------------------------------------------------
(* The index of a segment.                                                 *)

\* What the samples need, one behind the other: a moof, the header of an mdat and
\* the bytes of the sample.
Stretch(x) == MoofLen[x.cts # 0] + MdatHeader + x.size

\* Where they begin, behind the prefix.
Begun(st, samples, n, prefix) ==
  /\ st \in [1..(n + 1) -> Nat] /\ st[1] = prefix
  /\ \A i \in 1..n : st[i + 1] = st[i] + Stretch(samples[i])

Indexable(samples, n, prefix) ==
  /\ n \in Nat /\ Len(samples) = n /\ DOMAIN samples = 1..n /\ prefix \in Nat
  /\ \A i \in 1..n : samples[i].size \in Nat

StartsIn(samples, prefix) ==
  LET Moof(i) == MoofLen[samples[i].cts # 0]
  IN  CHOOSE f : f = [i \in 1..(Len(samples) + 1) |->
        IF i = 1 THEN prefix
        ELSE f[i - 1] + Moof(i - 1) + MdatHeader + samples[i - 1].size]

LEMMA StartsInAre ==
  ASSUME NEW samples, NEW n, NEW prefix, Indexable(samples, n, prefix)
  PROVE  Begun(StartsIn(samples, prefix), samples, n, prefix)
<1>0. /\ n \in Nat /\ Len(samples) = n /\ prefix \in Nat
      /\ \A i \in 1..n : samples[i].size \in Nat
  BY DEF Indexable
<1> DEFINE Body(f) == [i \in 1..(n + 1) |->
              IF i = 1 THEN prefix
              ELSE f[i - 1] + MoofLen[samples[i - 1].cts # 0] + MdatHeader + samples[i - 1].size]
<1>1. \A i \in 1..n : /\ Stretch(samples[i]) \in Nat
                      /\ \A x \in Nat : x + MoofLen[samples[i].cts # 0] + MdatHeader + samples[i].size
                                          = x + Stretch(samples[i])
  <2> SUFFICES ASSUME NEW i \in 1..n
               PROVE  /\ Stretch(samples[i]) \in Nat
                      /\ \A x \in Nat : x + MoofLen[samples[i].cts # 0] + MdatHeader + samples[i].size
                                          = x + Stretch(samples[i])
    OBVIOUS
  <2>1. PICK a \in Nat, b \in Nat : a = MoofLen[samples[i].cts # 0] /\ b = samples[i].size
    <3>1. (samples[i].cts # 0) \in BOOLEAN
      OBVIOUS
    <3>2. MoofLen[samples[i].cts # 0] \in Nat
      BY <3>1, LengthAssumption
    <3> QED
      BY <1>0, <3>2
  <2> QED
    BY <2>1 DEF Stretch, MdatHeader
<1>2. PICK st : st = [i \in 1..n |-> [x \in Nat |-> x + Stretch(samples[i])]]
  OBVIOUS
<1>3. PICK h : /\ h \in [0..n -> Nat] /\ h[0] = prefix
               /\ \A i \in 1..n : h[i] = st[i][h[i - 1]]
  <2>1. st \in [1..n -> [Nat -> Nat]]
    BY <1>1, <1>2
  <2>2. Stepped(n, Nat, prefix, st)
    BY <1>0, <2>1 DEF Stepped
  <2> QED
    BY <2>2, Recursion
<1>4. PICK f : f = [i \in 1..(n + 1) |-> h[i - 1]]
  OBVIOUS
<1>5. Begun(f, samples, n, prefix)
  <2>1. f \in [1..(n + 1) -> Nat]
    <3>1. \A i \in 1..(n + 1) : i - 1 \in 0..n
      BY <1>0
    <3> QED
      BY <1>3, <1>4, <3>1
  <2>2. f[1] = prefix
    BY <1>0, <1>3, <1>4
  <2>3. ASSUME NEW i \in 1..n PROVE f[i + 1] = f[i] + Stretch(samples[i])
    <3>1. i + 1 \in 1..(n + 1) /\ i \in 1..(n + 1) /\ (i + 1) - 1 = i /\ i - 1 \in 0..n
      BY <1>0
    <3>2. f[i + 1] = h[i] /\ f[i] = h[i - 1]
      BY <1>4, <3>1
    <3>3. h[i] = h[i - 1] + Stretch(samples[i])
      BY <1>2, <1>3, <3>1
    <3> QED
      BY <3>2, <3>3
  <2> QED
    BY <2>1, <2>2, <2>3 DEF Begun
<1>6. \A i \in 1..(n + 1) : i # 1 => i - 1 \in 1..n /\ (i - 1) + 1 = i
  BY <1>0
<1>7. f = Body(f)
  <2>1. \A i \in 1..(n + 1) : i # 1 =>
          f[i] = f[i - 1] + MoofLen[samples[i - 1].cts # 0] + MdatHeader + samples[i - 1].size
    <3> SUFFICES ASSUME NEW i \in 1..(n + 1), i # 1
                 PROVE  f[i] = f[i - 1] + MoofLen[samples[i - 1].cts # 0] + MdatHeader + samples[i - 1].size
      OBVIOUS
    <3>1. PICK j : j = i - 1
      OBVIOUS
    <3>2. j \in 1..n /\ j + 1 = i /\ j \in 1..(n + 1)
      BY <1>0, <1>6, <3>1
    <3>3. f[j + 1] = f[j] + Stretch(samples[j]) /\ f[j] \in Nat
      BY <1>5, <3>2 DEF Begun
    <3>4. f[j] + MoofLen[samples[j].cts # 0] + MdatHeader + samples[j].size = f[j] + Stretch(samples[j])
      BY <1>1, <3>2, <3>3
    <3> QED
      BY <3>1, <3>2, <3>3, <3>4
  <2>2. f[1] = prefix /\ DOMAIN f = 1..(n + 1) /\ f = [i \in 1..(n + 1) |-> f[i]]
    BY <1>5 DEF Begun
  <2> QED
    BY <2>1, <2>2
<1>8. PICK g : g = StartsIn(samples, prefix)
  OBVIOUS
<1>9. g = Body(g)
  <2>1. g = CHOOSE e : e = Body(e)
    BY Zenon, <1>0, <1>8 DEF StartsIn
  <2> HIDE DEF Body
  <2> QED
    BY <1>7, <2>1
<1>10. \A i \in 1..(n + 1) : g[i] = f[i]
  <2>1. PICK apart, A : apart = [i \in 1..(n + 1) |-> IF f[i] = g[i] THEN 0 ELSE 1] /\ A = {0}
    OBVIOUS
  <2>2. apart[1] \in A
    <3>1. 1 \in 1..(n + 1)
      BY <1>0
    <3>2. f[1] = g[1]
      BY <1>7, <1>9, <3>1
    <3> QED
      BY <2>1, <3>1, <3>2
  <2>3. ASSUME NEW i \in 2..(n + 1), apart[i - 1] \in A PROVE apart[i] \in A
    <3>1. i \in 1..(n + 1) /\ i # 1 /\ i - 1 \in 1..(n + 1)
      BY <1>0
    <3>2. f[i - 1] = g[i - 1]
      BY <2>1, <2>3, <3>1
    <3>3. /\ f[i] = f[i - 1] + MoofLen[samples[i - 1].cts # 0] + MdatHeader + samples[i - 1].size
          /\ g[i] = g[i - 1] + MoofLen[samples[i - 1].cts # 0] + MdatHeader + samples[i - 1].size
      BY <1>7, <1>9, <3>1
    <3>4. f[i] = g[i]
      BY <3>2, <3>3
    <3> QED
      BY <2>1, <3>1, <3>4
  <2>4. 1 \in Nat /\ n + 1 \in Nat /\ 2 = 1 + 1
    BY <1>0
  <2>5. \A i \in 1..(n + 1) : apart[i] \in A
    BY <2>2, <2>3, <2>4, PrefixInduction
  <2> QED
    BY <2>1, <2>5
<1>11. g = f
  <2>1. DOMAIN g = 1..(n + 1) /\ g = [i \in 1..(n + 1) |-> g[i]]
    BY <1>9
  <2>2. f = [i \in 1..(n + 1) |-> f[i]]
    BY <1>5 DEF Begun
  <2> QED
    BY <1>10, <2>1, <2>2
<1> QED
  BY <1>5, <1>8, <1>11

LEMMA IndexOfIs ==
  ASSUME NEW samples, NEW n, NEW prefix, Indexable(samples, n, prefix),
         NEW x, x = IndexOf(samples, prefix), NEW st, st = StartsIn(samples, prefix)
  PROVE  /\ DOMAIN x.durs = 1..n /\ DOMAIN x.offs = 1..n
         /\ x.bytes = st[n + 1]
         /\ \A i \in 1..n : x.offs[i] = st[i] + MoofLen[samples[i].cts # 0] + MdatHeader
<1>0. n \in Nat /\ Len(samples) = n /\ DOMAIN samples = 1..n
  BY DEF Indexable
<1>1. /\ x.durs = [i \in DOMAIN samples |-> samples[i].dur]
      /\ x.bytes = StartsIn(samples, prefix)[Len(samples) + 1]
  BY Zenon DEF IndexOf, StartsIn, Field
<1>2. x.offs = [i \in DOMAIN samples |->
                  StartsIn(samples, prefix)[i] + MoofLen[samples[i].cts # 0] + MdatHeader]
  BY Zenon DEF IndexOf, StartsIn
<1> QED
  BY <1>0, <1>1, <1>2

-----------------------------------------------------------------------------
(* A table with a sample in each chunk.                                    *)

EachAlone == <<[first |-> 1, per |-> 1]>>

VisitsOf(stsc, count) ==
  LET Until(i) == IF i < Len(stsc) /\ stsc[i + 1].first <= count THEN stsc[i + 1].first
                                                                 ELSE count + 1
      Run(i)   == IF stsc[i].first < 1 THEN <<>>
                  ELSE [j \in 1..(Until(i) - stsc[i].first) |->
                          [chunk |-> stsc[i].first + j - 1, per |-> stsc[i].per]]
  IN  CHOOSE f : f = [i \in 0..Len(stsc) |-> IF i = 0 THEN <<>> ELSE f[i - 1] \o Run(i)]

LEMMA ChunkVisitsIs == \A stsc, count : ChunkVisits(stsc, count) = VisitsOf(stsc, count)[Len(stsc)]
BY Zenon DEF ChunkVisits, VisitsOf

LEMMA EachVisited ==
  ASSUME NEW n \in Nat
  PROVE  ChunkVisits(EachAlone, n) = [j \in 1..n |-> [chunk |-> j, per |-> 1]]
<1> DEFINE Until(i) == IF i < Len(EachAlone) /\ EachAlone[i + 1].first <= n
                       THEN EachAlone[i + 1].first ELSE n + 1
           Run(i)   == IF EachAlone[i].first < 1 THEN <<>>
                       ELSE [j \in 1..(Until(i) - EachAlone[i].first) |->
                               [chunk |-> EachAlone[i].first + j - 1, per |-> EachAlone[i].per]]
           Body(f) == [i \in 0..1 |-> IF i = 0 THEN <<>> ELSE f[i - 1] \o Run(i)]
<1>1. Len(EachAlone) = 1 /\ EachAlone[1].first = 1 /\ EachAlone[1].per = 1
  BY DEF EachAlone
<1>2. PICK all : all = [j \in 1..n |-> [chunk |-> j, per |-> 1]]
  OBVIOUS
<1>3. Run(1) = all
  <2>1. Until(1) - EachAlone[1].first = n
    BY <1>1
  <2>2. \A j \in 1..n : EachAlone[1].first + j - 1 = j
    BY <1>1
  <2> HIDE DEF Until
  <2> QED
    BY <1>1, <1>2, <2>1, <2>2
<1>4. <<>> \o all = all
  <2>1. PICK V : V = {all[j] : j \in 1..n}
    OBVIOUS
  <2>2. all \in Seq(V)
    BY <1>2, <2>1
  <2> QED
    BY <2>2
<1> HIDE DEF Run
<1>5. PICK f : f = [i \in 0..1 |-> IF i = 0 THEN <<>> ELSE all]
  OBVIOUS
<1>6. f = Body(f)
  <2>1. \A i \in 0..1 : i # 0 => i = 1 /\ i - 1 = 0
    OBVIOUS
  <2> QED
    BY <1>3, <1>4, <1>5, <2>1
<1>7. PICK g : g = VisitsOf(EachAlone, n)
  OBVIOUS
<1>8. g = Body(g)
  <2>1. g = CHOOSE h : h = Body(h)
    BY Zenon, <1>1, <1>7 DEF VisitsOf, Run, Until
  <2> HIDE DEF Body
  <2> QED
    BY <1>6, <2>1
<1>9. g[0] = <<>> /\ g[1] = g[0] \o Run(1)
  <2>1. 1 \in 0..1 /\ 0 \in 0..1 /\ 1 # 0 /\ 1 - 1 = 0
    OBVIOUS
  <2> QED
    BY <1>8, <2>1
<1>10. ChunkVisits(EachAlone, n) = g[1]
  BY <1>1, <1>7, ChunkVisitsIs
<1> QED
  BY <1>2, <1>3, <1>4, <1>9, <1>10

OffsetsIn(visits, chunks, sizes) ==
  LET Count(v, n) == IF v.per < Len(sizes) - n THEN v.per ELSE Len(sizes) - n
      InChunk(v, n) ==
        LET start[j \in 1..Count(v, n)] == IF j = 1 THEN chunks[v.chunk]
                                            ELSE start[j - 1] + sizes[n + j - 1]
        IN  start
  IN  CHOOSE f : f = [i \in 0..Len(visits) |->
        LET done == f[i - 1]
        IN  IF i = 0 THEN <<>> ELSE done \o InChunk(visits[i], Len(done))]

LEMMA ResolveIs ==
  \A stsc, chunks, sizes :
    ResolveSampleOffsets(stsc, chunks, sizes) =
      OffsetsIn(ChunkVisits(stsc, Len(chunks)), chunks, sizes)[Len(ChunkVisits(stsc, Len(chunks)))]
BY Zenon DEF ResolveSampleOffsets, OffsetsIn

LEMMA EachResolved ==
  ASSUME NEW n \in Nat, NEW chunks, Len(chunks) = n, NEW sizes, Len(sizes) = n
  PROVE  ResolveSampleOffsets(EachAlone, chunks, sizes) = [j \in 1..n |-> chunks[j]]
<1> DEFINE Count(v, k) == IF v.per < Len(sizes) - k THEN v.per ELSE Len(sizes) - k
           Start(v, k, s) == [j \in 1..Count(v, k) |->
                                IF j = 1 THEN chunks[v.chunk] ELSE s[j - 1] + sizes[k + j - 1]]
           InChunk(v, k) == CHOOSE s : s = Start(v, k, s)
           Body(f) == [i \in 0..n |-> LET done == f[i - 1]
                                       IN  IF i = 0 THEN <<>>
                                           ELSE done \o InChunk([chunk |-> i, per |-> 1], Len(done))]
           Upto(i) == [j \in 1..i |-> chunks[j]]
<1>1. PICK visits : visits = [j \in 1..n |-> [chunk |-> j, per |-> 1]]
  OBVIOUS
<1>2. ChunkVisits(EachAlone, Len(chunks)) = visits /\ Len(visits) = n
  BY <1>1, EachVisited
<1>3. ASSUME NEW i \in 1..n
      PROVE  InChunk([chunk |-> i, per |-> 1], i - 1) = [j \in 1..1 |-> chunks[i]]
  <2>1. PICK v : v = [chunk |-> i, per |-> 1]
    OBVIOUS
  <2>2. Count(v, i - 1) = 1
    BY <2>1
  <2>3. PICK one : one = [j \in 1..1 |-> chunks[i]]
    OBVIOUS
  <2>4. \A s : Start(v, i - 1, s) = one
    <3> HIDE DEF Count
    <3>1. \A j \in 1..1 : j = 1
      OBVIOUS
    <3> QED
      BY <2>1, <2>2, <2>3, <3>1
  <2> HIDE DEF Start
  <2>5. InChunk(v, i - 1) = one
    BY <2>4
  <2> QED
    BY <2>1, <2>3, <2>5
<1>4. ASSUME NEW i \in 1..n PROVE Upto(i - 1) \o [j \in 1..1 |-> chunks[i]] = Upto(i)
  <2>1. PICK a, b, V : a = Upto(i - 1) /\ b = [j \in 1..1 |-> chunks[i]] /\ V = {chunks[j] : j \in 1..i}
    OBVIOUS
  <2>2. a \in Seq(V) /\ b \in Seq(V) /\ Len(a) = i - 1 /\ Len(b) = 1
    BY <2>1
  <2>3. a \o b = [j \in 1..i |-> chunks[j]]
    BY <2>1, <2>2
  <2> QED
    BY <2>1, <2>3
<1> HIDE DEF InChunk
<1>5. PICK f : f = [i \in 0..n |-> Upto(i)]
  OBVIOUS
<1>6. \A i \in 0..n : Len(Upto(i)) = i
  OBVIOUS
<1>7. Upto(0) = <<>>
  OBVIOUS
<1> HIDE DEF Upto
<1>8. \A i \in 0..n : i # 0 => i \in 1..n /\ i - 1 \in 0..n
  OBVIOUS
<1>9. f = Body(f)
  <2>1. \A i \in 0..n : i # 0 => f[i] = f[i - 1] \o InChunk([chunk |-> i, per |-> 1], Len(f[i - 1]))
    BY <1>3, <1>4, <1>5, <1>6, <1>8
  <2> QED
    BY <1>5, <1>7, <2>1
<1>10. PICK g : g = OffsetsIn(visits, chunks, sizes)
  OBVIOUS
<1>11. g = Body(g)
  <2> DEFINE Other(h) == [i \in 0..Len(visits) |-> LET done == h[i - 1]
                                       IN  IF i = 0 THEN <<>>
                                           ELSE done \o InChunk(visits[i], Len(done))]
  <2>1. g = CHOOSE h : h = Other(h)
    BY Zenon, <1>10 DEF OffsetsIn, InChunk
  <2>2. \A h : Other(h) = Body(h)
    BY <1>1, <1>2
  <2> HIDE DEF Other, Body
  <2> QED
    BY <1>9, <2>1, <2>2
<1>12. \A i \in 0..n : g[i] = Upto(i)
  <2>1. PICK apart, A : apart = [i \in 0..n |-> IF g[i] = Upto(i) THEN 0 ELSE 1] /\ A = {0}
    OBVIOUS
  <2>2. apart[0] \in A
    BY <1>7, <1>11, <2>1
  <2>3. ASSUME NEW i \in 1..n, apart[i - 1] \in A PROVE apart[i] \in A
    <3>1. i \in 0..n /\ i # 0 /\ i - 1 \in 0..n
      OBVIOUS
    <3>2. g[i - 1] = Upto(i - 1)
      BY <2>1, <2>3, <3>1
    <3>3. g[i] = g[i - 1] \o InChunk([chunk |-> i, per |-> 1], Len(g[i - 1]))
      BY <1>11, <3>1
    <3>4. g[i] = Upto(i)
      BY <1>3, <1>4, <1>6, <3>1, <3>2, <3>3
    <3> QED
      BY <2>1, <3>1, <3>4
  <2>4. 0 \in Nat /\ n \in Nat /\ 1 = 0 + 1
    OBVIOUS
  <2>5. \A i \in 0..n : apart[i] \in A
    BY <2>2, <2>3, <2>4, PrefixInduction
  <2> QED
    BY <2>1, <2>5
<1>13. ResolveSampleOffsets(EachAlone, chunks, sizes) = g[n]
  BY <1>2, <1>10, ResolveIs
<1>14. n \in 0..n
  OBVIOUS
<1> QED
  BY <1>12, <1>13, <1>14 DEF Upto

\* A canonical table reads as it was filled.
LEMMA TableReads ==
  ASSUME NEW p, NEW n \in Nat, Len(p.samples) = n, DOMAIN p.samples = 1..n,
         NEW offsets, Len(offsets) = n, NEW read, read = ReadStbl(PopulateStbl(p, offsets))
  PROVE  Len(read) = n /\ DOMAIN read = 1..n /\ \A j \in 1..n : read[j].at = offsets[j]
<1>1. PICK stbl, sizes : stbl = PopulateStbl(p, offsets) /\ sizes = [i \in 1..n |-> p.samples[i].size]
  OBVIOUS
<1>2. stbl.chunks = offsets /\ stbl.stsz = sizes
  BY <1>1 DEF PopulateStbl, Field
<1>3. Len(sizes) = n
  BY <1>1
<1>4. DOMAIN read = 1..n /\ Len(read) = n
  BY <1>1, <1>2, <1>3 DEF ReadStbl
<1>5. \A j \in 1..n : read[j].at = ResolveSampleOffsets(stbl.stsc, offsets, sizes)[j]
  BY <1>1, <1>2, <1>3 DEF ReadStbl
<1>6. ASSUME NEW j \in 1..n PROVE stbl.stsc = EachAlone
  <2>1. p.samples # <<>>
    OBVIOUS
  <2> QED
    BY <1>1, <2>1 DEF PopulateStbl, EachAlone
<1> QED
  BY <1>3, <1>4, <1>5, <1>6, EachResolved

-----------------------------------------------------------------------------
(* The segment of a track in a GoP.                                        *)

PartOf(plans, k, g) == Ascending(SamplesIn(plans, k, g))

PartSamples(plans, k, g) ==
  [j \in DOMAIN PartOf(plans, k, g) |-> plans[k].samples[PartOf(plans, k, g)[j]]]

SegmentIndexOf(plans, k, g) == IndexOf(PartSamples(plans, k, g), PrefixLen[plans[k].track])

\* Where its samples begin, from the first byte of the segment.
SegmentStarts(plans, k, g) == StartsIn(PartSamples(plans, k, g), PrefixLen[plans[k].track])

LEMMA PartIs ==
  ASSUME NEW plans, Planned(plans), NEW k \in DOMAIN plans, NEW g, NEW s, s = PartOf(plans, k, g)
  PROVE  /\ Sorts(s, Len(s), SamplesIn(plans, k, g)) /\ DOMAIN s = 1..Len(s) /\ Len(s) \in Nat
         /\ SamplesIn(plans, k, g) # {} <=> s # <<>>
         /\ SamplesIn(plans, k, g) \in SUBSET (1..Len(plans[k].samples))
<1>1. PICK T : T = SamplesIn(plans, k, g)
  OBVIOUS
<1>2. plans[k] \in TrackPlan
  BY DEF Planned
<1>3. Len(plans[k].samples) \in Int /\ T \in SUBSET (1..Len(plans[k].samples))
  BY <1>1, <1>2, PlanFields DEF SamplesIn
<1>4. s = Ascending(T)
  BY <1>1 DEF PartOf
<1>5. Sorts(s, Cardinality(T), T)
  BY <1>3, <1>4, SortedWithin
<1>6. Len(s) = Cardinality(T)
  BY <1>5, SortedEmpty
<1>7. Sorts(s, Len(s), T)
  BY <1>5, <1>6
<1>8. Len(s) \in Nat /\ DOMAIN s = 1..Len(s)
  BY <1>7 DEF Sorts
<1>9. T # {} <=> s # <<>>
  BY <1>7, SortedEmpty
<1> QED
  BY <1>1, <1>3, <1>7, <1>8, <1>9

LEMMA PartSamplesAre ==
  ASSUME NEW plans, Planned(plans), NEW k \in DOMAIN plans, NEW g, NEW s, s = PartOf(plans, k, g)
  PROVE  Indexable(PartSamples(plans, k, g), Len(s), PrefixLen[plans[k].track])
<1>1. /\ Sorts(s, Len(s), SamplesIn(plans, k, g)) /\ DOMAIN s = 1..Len(s) /\ Len(s) \in Nat
      /\ SamplesIn(plans, k, g) \in SUBSET (1..Len(plans[k].samples))
  BY PartIs
<1>2. plans[k] \in TrackPlan
  BY DEF Planned
<1>3. plans[k].track \in Track /\ \A i \in 1..Len(plans[k].samples) : plans[k].samples[i].size \in Nat
  BY <1>2, PlanFields
<1>4. PICK r : r = PartSamples(plans, k, g)
  OBVIOUS
<1>5. r = [j \in 1..Len(s) |-> plans[k].samples[s[j]]]
  BY <1>1, <1>4 DEF PartSamples
<1>6. \A j \in 1..Len(s) : s[j] \in 1..Len(plans[k].samples)
  BY <1>1 DEF Sorts
<1>7. Len(r) = Len(s) /\ DOMAIN r = 1..Len(s)
  BY <1>1, <1>5
<1>8. PrefixLen[plans[k].track] \in Nat
  BY <1>3, LengthAssumption
<1> QED
  BY <1>1, <1>3, <1>4, <1>5, <1>6, <1>7, <1>8 DEF Indexable

LEMMA SegmentIs ==
  ASSUME NEW plans, Planned(plans), NEW k \in DOMAIN plans, NEW g, NEW s, s = PartOf(plans, k, g),
         NEW x, x = SegmentIndexOf(plans, k, g), NEW st, st = SegmentStarts(plans, k, g)
  PROVE  /\ Begun(st, PartSamples(plans, k, g), Len(s), PrefixLen[plans[k].track])
         /\ DOMAIN x.durs = 1..Len(s) /\ DOMAIN x.offs = 1..Len(s)
         /\ x.bytes = st[Len(s) + 1] /\ x.bytes \in Nat
         /\ \A i \in 1..Len(s) :
              /\ x.offs[i] = st[i] + MoofLen[plans[k].samples[s[i]].cts # 0] + MdatHeader
              /\ x.offs[i] \in Nat
<1>1. PICK r, n, prefix : /\ r = PartSamples(plans, k, g) /\ n = Len(s)
                          /\ prefix = PrefixLen[plans[k].track]
  OBVIOUS
<1>2. Indexable(r, n, prefix)
  BY <1>1, PartSamplesAre
<1>3. x = IndexOf(r, prefix) /\ st = StartsIn(r, prefix)
  BY <1>1 DEF SegmentIndexOf, SegmentStarts
<1>4. Begun(st, r, n, prefix)
  BY <1>2, <1>3, StartsInAre
<1>5. /\ DOMAIN x.durs = 1..n /\ DOMAIN x.offs = 1..n
      /\ x.bytes = st[n + 1]
      /\ \A i \in 1..n : x.offs[i] = st[i] + MoofLen[r[i].cts # 0] + MdatHeader
  BY <1>2, <1>3, IndexOfIs
<1>6. n \in Nat /\ DOMAIN s = 1..n
  BY <1>1, PartIs
<1>7. \A i \in 1..n : r[i] = plans[k].samples[s[i]]
  BY <1>1, <1>6 DEF PartSamples
<1>8. x.bytes \in Nat
  <2>1. n + 1 \in 1..(n + 1)
    BY <1>6
  <2> QED
    BY <1>4, <1>5, <2>1 DEF Begun
<1>9. ASSUME NEW i \in 1..n PROVE x.offs[i] \in Nat
  <2>1. i \in 1..(n + 1)
    BY <1>6
  <2>2. st[i] \in Nat
    BY <1>4, <2>1 DEF Begun
  <2>3. PICK b \in BOOLEAN : b = (r[i].cts # 0)
    OBVIOUS
  <2>4. MoofLen[b] \in Nat
    BY LengthAssumption
  <2>5. x.offs[i] = st[i] + MoofLen[b] + MdatHeader
    BY <1>5, <2>3
  <2>6. PICK m \in Nat : m = MoofLen[b]
    BY <2>4
  <2> QED
    BY <2>2, <2>5, <2>6 DEF MdatHeader
<1> QED
  BY <1>1, <1>4, <1>5, <1>7, <1>8, <1>9

-----------------------------------------------------------------------------
(* The metadata of the GoPs.                                               *)

\* The tracks that have a segment in a GoP.
Held(plans, g) == {plans[k].track : k \in {j \in DOMAIN plans : SamplesIn(plans, j, g) # {}}}

Measured(plans, metas, n) ==
  /\ n \in Nat /\ Len(metas) = n /\ DOMAIN metas = 1..n
  /\ \A g \in 1..n :
       /\ DOMAIN metas[g].bytes = Held(plans, g) /\ DOMAIN metas[g].index = Held(plans, g)
       /\ \A k \in DOMAIN plans : SamplesIn(plans, k, g) # {} =>
            /\ metas[g].index[plans[k].track] = SegmentIndexOf(plans, k, g)
            /\ metas[g].bytes[plans[k].track] = SegmentIndexOf(plans, k, g).bytes

LEMMA OneOfTrack ==
  ASSUME NEW plans, Planned(plans), NEW k \in DOMAIN plans, NEW l \in DOMAIN plans,
         plans[k].track = plans[l].track
  PROVE  k = l
<1>1. /\ \A i, j \in DOMAIN plans : i < j => plans[i].track < plans[j].track
      /\ plans \in Seq(TrackPlan)
  BY DEF Planned
<1>2. k \in Int /\ l \in Int
  BY <1>1
<1>3. plans[k] \in TrackPlan /\ plans[l] \in TrackPlan
  BY <1>1
<1>4. plans[k].track \in Int /\ plans[l].track \in Int
  <2>1. plans[k].track \in Track /\ plans[l].track \in Track
    BY <1>3, PlanFields
  <2>2. \A t \in Track : t \in Int
    BY TrackAssumption
  <2> QED
    BY <2>1, <2>2
<1>5. ~(k < l) /\ ~(l < k)
  BY <1>1, <1>4
<1> QED
  BY <1>2, <1>5

LEMMA MetasAre ==
  ASSUME NEW plans, Planned(plans), plans # <<>>, NEW n \in Nat \ {0},
         GopStarts(plans) \in [1..n -> Nat], NEW metas, metas = PlanBody(plans)
  PROVE  Measured(plans, metas, n)
<1>1. PICK parts : parts = Partition(plans)
  OBVIOUS
<1>2. DOMAIN GopStarts(plans) = 1..n
  OBVIOUS
<1>3. \A k \in DOMAIN plans : parts[k] = [g \in 1..n |-> PartOf(plans, k, g)]
  BY <1>1, <1>2, PartitionIs DEF PartOf
<1>4. 1 \in DOMAIN plans
  BY ReferenceIs
<1> DEFINE Slice(k, g) == [j \in DOMAIN parts[k][g] |-> plans[k].samples[parts[k][g][j]]]
           Ids(g)  == {plans[k].track : k \in {j \in DOMAIN plans : parts[j][g] # <<>>}}
           By(id)  == CHOOSE k \in DOMAIN plans : plans[k].track = id
           First   == [id \in {plans[k].track : k \in DOMAIN plans} |-> plans[By(id)].start]
           Index(g) == [id \in Ids(g) |-> IndexOf(Slice(By(id), g), PrefixLen[id])]
           Meta(g) == MetaOf(Index(g), IF g > 1 THEN <<>> ELSE First)
<1>5. metas = [g \in DOMAIN parts[1] |-> Meta(g)]
  <2>1. metas = MetasOf(plans, parts)
    BY <1>1 DEF PlanBody
  <2>2. MetasOf(plans, parts) = [g \in DOMAIN parts[1] |-> Meta(g)]
    BY DEF MetasOf
  <2> QED
    BY <2>1, <2>2
<1>6. DOMAIN parts[1] = 1..n
  BY <1>3, <1>4
<1>7. \A g : /\ Meta(g).index = Index(g)
             /\ Meta(g).bytes = [id \in DOMAIN Index(g) |-> Index(g)[id].bytes]
  <2> HIDE DEF Index, First
  <2> QED
    BY DEF MetaOf
<1> HIDE DEF Meta
<1>8. Len(metas) = n /\ DOMAIN metas = 1..n
  BY <1>5, <1>6
<1>9. ASSUME NEW g \in 1..n
      PROVE  /\ metas[g].index = Index(g)
             /\ metas[g].bytes = [id \in DOMAIN Index(g) |-> Index(g)[id].bytes]
  <2>1. metas[g] = Meta(g)
    BY <1>5, <1>6
  <2> HIDE DEF Index
  <2> QED
    BY <1>7, <2>1
<1>10. ASSUME NEW g \in 1..n PROVE Ids(g) = Held(plans, g)
  <2>1. ASSUME NEW k \in DOMAIN plans PROVE parts[k][g] # <<>> <=> SamplesIn(plans, k, g) # {}
    <3>1. parts[k][g] = PartOf(plans, k, g)
      BY <1>3
    <3> QED
      BY <3>1, PartIs
  <2>2. {j \in DOMAIN plans : parts[j][g] # <<>>} = {j \in DOMAIN plans : SamplesIn(plans, j, g) # {}}
    BY <2>1
  <2> QED
    BY <2>2 DEF Held
<1>11. ASSUME NEW g \in 1..n, NEW k \in DOMAIN plans, SamplesIn(plans, k, g) # {}
       PROVE  plans[k].track \in Held(plans, g) /\ Index(g)[plans[k].track] = SegmentIndexOf(plans, k, g)
  <2>1. PICK id : id = plans[k].track
    OBVIOUS
  <2>2. id \in Held(plans, g)
    BY <1>11, <2>1 DEF Held
  <2>3. By(id) = k
    BY <2>1, OneOfTrack
  <2>4. Slice(k, g) = PartSamples(plans, k, g)
    <3>1. parts[k][g] = PartOf(plans, k, g)
      BY <1>3
    <3> QED
      BY <3>1 DEF PartSamples
  <2> HIDE DEF By, Slice, Ids
  <2>5. Index(g)[id] = IndexOf(Slice(k, g), PrefixLen[id])
    BY <1>10, <2>2, <2>3
  <2> QED
    BY <2>1, <2>2, <2>4, <2>5 DEF SegmentIndexOf
<1>12. \A g \in 1..n : DOMAIN Index(g) = Held(plans, g)
  BY <1>10
<1> HIDE DEF Index
<1>13. ASSUME NEW g \in 1..n
       PROVE  /\ DOMAIN metas[g].bytes = Held(plans, g) /\ DOMAIN metas[g].index = Held(plans, g)
              /\ \A k \in DOMAIN plans : SamplesIn(plans, k, g) # {} =>
                   /\ metas[g].index[plans[k].track] = SegmentIndexOf(plans, k, g)
                   /\ metas[g].bytes[plans[k].track] = SegmentIndexOf(plans, k, g).bytes
  <2>1. PICK x : x = Index(g)
    OBVIOUS
  <2>2. DOMAIN x = Held(plans, g)
    BY <1>12, <2>1
  <2>3. metas[g].index = x /\ metas[g].bytes = [id \in Held(plans, g) |-> x[id].bytes]
    BY <1>9, <2>1, <2>2
  <2>4. ASSUME NEW k \in DOMAIN plans, SamplesIn(plans, k, g) # {}
        PROVE  /\ metas[g].index[plans[k].track] = SegmentIndexOf(plans, k, g)
               /\ metas[g].bytes[plans[k].track] = SegmentIndexOf(plans, k, g).bytes
    <3>1. plans[k].track \in Held(plans, g) /\ x[plans[k].track] = SegmentIndexOf(plans, k, g)
      BY <1>11, <2>1, <2>4
    <3> QED
      BY <2>3, <3>1
  <2> QED
    BY <2>2, <2>3, <2>4
<1> QED
  BY <1>8, <1>13 DEF Measured

\* All the tracks of a GoP, or some of them, can be added up.
LEMMA HeldIsWeighted ==
  ASSUME NEW plans, Planned(plans), NEW metas, NEW n, Measured(plans, metas, n),
         NEW g \in 1..n, NEW T \in SUBSET Held(plans, g)
  PROVE  Weighted(metas[g], T)
<1>1. \A k \in DOMAIN plans : plans[k].track \in Track
  BY PlanFields DEF Planned
<1>2. Held(plans, g) \in SUBSET Track
  BY <1>1 DEF Held
<1>3. T \in SUBSET Track
  BY <1>2
<1>4. IsFiniteSet(T)
  BY <1>3, TracksFinite
<1>5. T \in SUBSET Int
  BY <1>3, TrackAssumption
<1>6. ASSUME NEW id \in T PROVE metas[g].bytes[id] \in Nat
  <2>1. PICK k \in DOMAIN plans : SamplesIn(plans, k, g) # {} /\ plans[k].track = id
    BY DEF Held
  <2>2. metas[g].bytes[id] = SegmentIndexOf(plans, k, g).bytes
    BY <2>1 DEF Measured
  <2>3. SegmentIndexOf(plans, k, g).bytes \in Nat
    BY SegmentIs
  <2> QED
    BY <2>2, <2>3
<1> QED
  BY <1>4, <1>5, <1>6 DEF Weighted

-----------------------------------------------------------------------------
(* Where the segments are.                                                 *)

BehindGops(metas, payload) ==
  CHOOSE f : f = [g \in 0..Len(metas) |->
    IF g = 0 THEN payload ELSE f[g - 1] + Displaced(metas[g], DOMAIN metas[g].bytes)]

LEMMA BehindGopsAre ==
  ASSUME NEW plans, Planned(plans), NEW metas, NEW n, Measured(plans, metas, n),
         NEW payload \in Nat, NEW b, b = BehindGops(metas, payload)
  PROVE  /\ b \in [0..n -> Nat] /\ b[0] = payload
         /\ \A g \in 1..n : b[g] = b[g - 1] + Displaced(metas[g], Held(plans, g))
<1>1. n \in Nat /\ Len(metas) = n /\ \A g \in 1..n : DOMAIN metas[g].bytes = Held(plans, g)
  BY DEF Measured
<1>2. ASSUME NEW g \in 1..n PROVE Displaced(metas[g], Held(plans, g)) \in Nat
  <2>1. Weighted(metas[g], Held(plans, g))
    BY HeldIsWeighted
  <2> QED
    BY <2>1, DisplacedIsNat
<1>3. PICK s : s = [g \in 1..n |-> Displaced(metas[g], Held(plans, g))]
  OBVIOUS
<1>4. PICK st : st = [g \in 1..n |-> [x \in Nat |-> x + s[g]]]
  OBVIOUS
<1>5. PICK f : /\ f \in [0..n -> Nat] /\ f[0] = payload
               /\ \A g \in 1..n : f[g] = st[g][f[g - 1]]
  <2>1. st \in [1..n -> [Nat -> Nat]]
    BY <1>2, <1>3, <1>4
  <2>2. Stepped(n, Nat, payload, st)
    BY <1>1, <2>1 DEF Stepped
  <2> QED
    BY <2>2, Recursion
<1> DEFINE Body(h) == [g \in 0..n |-> IF g = 0 THEN payload ELSE h[g - 1] + s[g]]
<1>6. \A g \in 0..n : g # 0 => g \in 1..n /\ g - 1 \in 0..n
  BY <1>1
<1>7. f = Body(f)
  <2>1. \A g \in 0..n : g # 0 => f[g] = f[g - 1] + s[g]
    BY <1>4, <1>5, <1>6
  <2> QED
    BY <1>5, <2>1
<1>8. b = Body(b)
  <2> DEFINE Other(h) == [g \in 0..Len(metas) |->
               IF g = 0 THEN payload ELSE h[g - 1] + Displaced(metas[g], DOMAIN metas[g].bytes)]
  <2>1. b = CHOOSE h : h = Other(h)
    BY Zenon DEF BehindGops
  <2>2. \A h : Other(h) = Body(h)
    BY <1>1, <1>3, <1>6
  <2> HIDE DEF Other, Body
  <2> QED
    BY <1>7, <2>1, <2>2
<1>9. b[0] = payload /\ DOMAIN b = 0..n /\ b = [g \in 0..n |-> b[g]]
  BY <1>1, <1>8
<1>10. \A g \in 1..n : b[g] = b[g - 1] + s[g]
  <2>1. \A g \in 1..n : g \in 0..n /\ g # 0
    BY <1>1
  <2> QED
    BY <1>8, <2>1
<1>11. \A g \in 0..n : b[g] \in Nat
  <2>1. b[0] \in Nat
    BY <1>9
  <2>2. ASSUME NEW g \in 1..n, b[g - 1] \in Nat PROVE b[g] \in Nat
    BY <1>2, <1>3, <1>10, <2>2
  <2>3. 0 \in Nat /\ n \in Nat /\ 1 = 0 + 1
    BY <1>1
  <2> QED
    BY <2>1, <2>2, <2>3, PrefixInduction
<1> QED
  BY <1>3, <1>9, <1>10, <1>11

\* The first byte of the segment of a track in a GoP.
PlaceOf(metas, payload, g, id) ==
  BehindGops(metas, payload)[g - 1] + Displaced(metas[g], {t \in DOMAIN metas[g].bytes : t < id})

LEMMA PlaceIsNat ==
  ASSUME NEW plans, Planned(plans), NEW metas, NEW n, Measured(plans, metas, n),
         NEW payload \in Nat, NEW g \in 1..n, NEW id
  PROVE  PlaceOf(metas, payload, g, id) \in Nat
<1>1. PICK b, T : b = BehindGops(metas, payload) /\ T = {t \in DOMAIN metas[g].bytes : t < id}
  OBVIOUS
<1>2. b \in [0..n -> Nat]
  BY <1>1, BehindGopsAre
<1>3. n \in Nat /\ DOMAIN metas[g].bytes = Held(plans, g)
  BY DEF Measured
<1>4. Weighted(metas[g], T)
  BY <1>1, <1>3, HeldIsWeighted
<1>5. Displaced(metas[g], T) \in Nat
  BY <1>4, DisplacedIsNat
<1>6. b[g - 1] \in Nat
  BY <1>2, <1>3
<1> QED
  BY <1>1, <1>5, <1>6 DEF PlaceOf

-----------------------------------------------------------------------------
(* The co64 of a track.                                                    *)

\* The number of GoPs.
GopsCut(plans, n) == n \in Nat \ {0} /\ GopStarts(plans) \in [1..n -> Nat]

\* The samples of a track that are in the first GoPs.
Filled(plans, k, g, m) ==
  /\ m \in 0..Len(plans[k].samples)
  /\ \A i \in 1..Len(plans[k].samples) : i <= m <=> GopIn(plans, k, i) <= g

Continues(s, m) == Len(s) \in Nat /\ \A j \in 1..Len(s) : s[j] = m + j

\* The samples of a GoP are the next ones of the track.
LEMMA PartIsNext ==
  ASSUME NEW plans, Planned(plans), NEW k \in DOMAIN plans,
         NEW n \in Nat \ {0}, GopsCut(plans, n), NEW g \in 1..n,
         NEW m, NEW h, h = g - 1, Filled(plans, k, h, m),
         NEW s, s = PartOf(plans, k, g), SamplesIn(plans, k, g) # {}
  PROVE  Continues(s, m) /\ \A M : M = m + Len(s) => Filled(plans, k, g, M)
<1>1. PICK N : N = Len(plans[k].samples)
  OBVIOUS
<1>2. m \in 0..N /\ \A i \in 1..N : i <= m <=> GopIn(plans, k, i) <= g - 1
  BY <1>1 DEF Filled
<1>3. PICK T, c : T = SamplesIn(plans, k, g) /\ c = Len(s)
  OBVIOUS
<1>4. /\ Sorts(s, c, T) /\ DOMAIN s = 1..c /\ c \in Nat /\ s # <<>>
      /\ T \in SUBSET (1..N)
  BY <1>1, <1>3, PartIs
<1>5. /\ N \in Nat /\ \A i \in 1..N : GopIn(plans, k, i) \in 1..n
      /\ \A i, j \in 1..N : i <= j => GopIn(plans, k, i) <= GopIn(plans, k, j)
  BY <1>1, GopsAre DEF GopsCut
<1>6. DOMAIN plans[k].samples = 1..N
  BY <1>1, PlanFields DEF Planned
<1>7. \A i \in 1..N : i \in T <=> GopIn(plans, k, i) = g
  BY <1>3, <1>6 DEF SamplesIn
<1>8. c # 0
  BY <1>4, SortedEmpty
<1>9. PICK M : M = s[c]
  OBVIOUS
<1>10. M \in T /\ M \in 1..N /\ \A i \in T : i <= M
  <2>1. s \in [1..c -> T] /\ \A i, j \in 1..c : i < j => s[i] < s[j]
    BY <1>4 DEF Sorts
  <2>2. c \in 1..c
    BY <1>4, <1>8
  <2>3. M \in T /\ M \in 1..N
    BY <1>4, <1>9, <2>1, <2>2
  <2>4. ASSUME NEW i \in T PROVE i <= M
    <3>1. PICK p \in 1..c : s[p] = i
      BY <1>4 DEF Sorts
    <3>2. CASE p = c
      BY <1>9, <2>3, <3>1, <3>2
    <3>3. CASE p # c
      <4>1. p < c
        BY <1>4, <3>3
      <4>2. i < M
        BY <1>9, <2>1, <2>2, <3>1, <4>1
      <4>3. i \in Int /\ M \in Int
        BY <1>4, <2>3
      <4> QED
        BY <4>2, <4>3
    <3> QED
      BY <3>2, <3>3
  <2> QED
    BY <2>3, <2>4
<1>11. m < M
  BY <1>2, <1>5, <1>7, <1>10
<1>12. \A i \in 1..N : i \in T <=> m < i /\ i <= M
  <2> SUFFICES ASSUME NEW i \in 1..N PROVE i \in T <=> m < i /\ i <= M
    OBVIOUS
  <2>1. GopIn(plans, k, i) \in Int /\ GopIn(plans, k, M) = g
    BY <1>5, <1>7, <1>10
  <2>2. i <= m <=> GopIn(plans, k, i) <= g - 1
    BY <1>2
  <2>3. i <= M => GopIn(plans, k, i) <= g
    BY <1>5, <1>10, <2>1
  <2>4. i \in T => i <= M
    BY <1>10
  <2>5. M \in Int /\ m \in Int
    BY <1>2, <1>10
  <2> QED
    BY <1>7, <2>1, <2>2, <2>3, <2>4, <2>5
<1>13. PICK r, d : r = [j \in 1..(M - m) |-> m + j] /\ d = M - m
  OBVIOUS
<1>14. Sorts(r, d, T)
  <2>1. d \in Nat /\ \A j \in 1..d : m + j \in 1..N /\ m < m + j /\ m + j <= M
    BY <1>2, <1>5, <1>10, <1>11, <1>13
  <2>2. r \in [1..d -> T]
    BY <1>12, <1>13, <2>1
  <2>3. \A i, j \in 1..d : i < j => r[i] < r[j]
    BY <1>2, <1>5, <1>13
  <2>4. ASSUME NEW i \in T PROVE \E j \in 1..d : r[j] = i
    <3>1. i \in 1..N
      BY <1>4
    <3>2. m < i /\ i <= M
      BY <1>12, <3>1
    <3>3. i - m \in 1..d /\ m + (i - m) = i
      BY <1>2, <1>10, <1>13, <3>1, <3>2
    <3> QED
      BY <1>13, <3>3
  <2> QED
    BY <2>1, <2>2, <2>3, <2>4 DEF Sorts
<1>15. r = s
  <2>1. T \in SUBSET Int
    BY <1>4
  <2>2. r = Ascending(T) /\ s = Ascending(T)
    BY <1>4, <1>14, <2>1, SortedIs
  <2> QED
    BY <2>2
<1>16. c = d
  BY <1>14, <1>15, <1>3, SortedEmpty
<1>17. \A i \in 1..N : i <= M <=> GopIn(plans, k, i) <= g
  <2> SUFFICES ASSUME NEW i \in 1..N PROVE i <= M <=> GopIn(plans, k, i) <= g
    OBVIOUS
  <2>1. GopIn(plans, k, i) \in Int /\ GopIn(plans, k, M) = g
    BY <1>5, <1>7, <1>10
  <2>2. i <= M => GopIn(plans, k, i) <= g
    BY <1>5, <1>10, <2>1
  <2>3. i <= m <=> GopIn(plans, k, i) <= g - 1
    BY <1>2
  <2>4. i \in T => i <= M
    BY <1>10
  <2> QED
    BY <1>2, <1>7, <1>10, <1>11, <2>1, <2>2, <2>3, <2>4
<1>18. m + c = M
  BY <1>2, <1>10, <1>13, <1>16
<1>19. Filled(plans, k, g, m + c)
  BY <1>1, <1>5, <1>10, <1>17, <1>18 DEF Filled
<1>20. \A j \in 1..c : s[j] = m + j
  BY <1>13, <1>15, <1>16
<1>21. Continues(s, m)
  BY <1>3, <1>4, <1>20 DEF Continues
<1> QED
  BY <1>3, <1>19, <1>21

Entries(metas, id, payload) ==
  CHOOSE f : f = [g \in 0..Len(metas) |->
    IF g = 0 THEN <<>>
    ELSE IF id \notin DOMAIN metas[g].bytes THEN f[g - 1]
    ELSE f[g - 1] \o [i \in DOMAIN metas[g].index[id].offs |->
                        PlaceOf(metas, payload, g, id) + metas[g].index[id].offs[i]]]

LEMMA Co64Is ==
  \A metas, id, payload : Co64(metas, id, payload) = Entries(metas, id, payload)[Len(metas)]
BY Zenon DEF Co64, Entries, PlaceOf, BehindGops

\* The entries of the first GoPs of a track.
EntriesUpTo(plans, k, metas, payload, g, e) ==
  /\ Filled(plans, k, g, Len(e))
  /\ \A h \in 1..g : SamplesIn(plans, k, h) # {} =>
       \A j \in 1..Len(PartOf(plans, k, h)) :
         /\ PartOf(plans, k, h)[j] \in 1..Len(e)
         /\ e[PartOf(plans, k, h)[j]] = PlaceOf(metas, payload, h, plans[k].track)
                                          + SegmentIndexOf(plans, k, h).offs[j]

LEMMA EntriesNone ==
  ASSUME NEW plans, Planned(plans), NEW k \in DOMAIN plans, NEW metas, NEW payload,
         NEW n \in Nat \ {0}, GopsCut(plans, n)
  PROVE  EntriesUpTo(plans, k, metas, payload, 0, <<>>)
<1>1. PICK N : N = Len(plans[k].samples)
  OBVIOUS
<1>2. N \in Nat /\ \A i \in 1..N : GopIn(plans, k, i) \in 1..n
  BY <1>1, GopsAre DEF GopsCut
<1>3. Len(<<>>) = 0 /\ \A i \in 1..N : ~(i <= 0) /\ ~(GopIn(plans, k, i) <= 0)
  BY <1>2
<1>4. \A h \in 1..0 : FALSE
  OBVIOUS
<1>5. Filled(plans, k, 0, 0)
  BY <1>1, <1>2, <1>3 DEF Filled
<1> QED
  BY <1>3, <1>4, <1>5 DEF EntriesUpTo

LEMMA EntriesSkip ==
  ASSUME NEW plans, Planned(plans), NEW k \in DOMAIN plans, NEW metas, NEW payload,
         NEW n \in Nat \ {0}, GopsCut(plans, n), NEW g \in 1..n,
         SamplesIn(plans, k, g) = {}, NEW e, EntriesUpTo(plans, k, metas, payload, g - 1, e)
  PROVE  EntriesUpTo(plans, k, metas, payload, g, e)
<1>1. PICK N : N = Len(plans[k].samples)
  OBVIOUS
<1>2. \A i \in 1..N : GopIn(plans, k, i) \in 1..n
  BY <1>1, GopsAre DEF GopsCut
<1>3. DOMAIN plans[k].samples = 1..N
  BY <1>1, PlanFields DEF Planned
<1>4. \A i \in 1..N : GopIn(plans, k, i) # g
  BY <1>3 DEF SamplesIn
<1>5. \A i \in 1..N : GopIn(plans, k, i) <= g - 1 <=> GopIn(plans, k, i) <= g
  BY <1>2, <1>4
<1>6. \A h \in 1..g : SamplesIn(plans, k, h) # {} => h \in 1..(g - 1)
  <2> SUFFICES ASSUME NEW h \in 1..g, SamplesIn(plans, k, h) # {} PROVE h \in 1..(g - 1)
    OBVIOUS
  <2>1. h # g
    OBVIOUS
  <2> QED
    BY <2>1
<1>7. Filled(plans, k, g, Len(e))
  BY <1>1, <1>5 DEF EntriesUpTo, Filled
<1> QED
  BY <1>6, <1>7 DEF EntriesUpTo

LEMMA Joined ==
  ASSUME NEW V, NEW a \in Seq(V), NEW b \in Seq(V), NEW all, all = a \o b
  PROVE  /\ Len(a) \in Nat /\ Len(b) \in Nat /\ Len(all) = Len(a) + Len(b)
         /\ \A i \in 1..Len(a) : all[i] = a[i]
         /\ \A j \in 1..Len(b) : all[Len(a) + j] = b[j]
OBVIOUS

LEMMA EntriesMore ==
  ASSUME NEW plans, Planned(plans), NEW k \in DOMAIN plans, NEW metas, NEW payload,
         NEW n \in Nat \ {0}, GopsCut(plans, n), NEW g \in 1..n,
         SamplesIn(plans, k, g) # {}, NEW e \in Seq(Nat), EntriesUpTo(plans, k, metas, payload, g - 1, e),
         NEW b \in Seq(Nat), Len(b) = Len(PartOf(plans, k, g)),
         \A j \in 1..Len(b) : b[j] = PlaceOf(metas, payload, g, plans[k].track)
                                       + SegmentIndexOf(plans, k, g).offs[j]
  PROVE  EntriesUpTo(plans, k, metas, payload, g, e \o b)
<1>1. PICK N, m, s, all : /\ N = Len(plans[k].samples) /\ m = Len(e) /\ s = PartOf(plans, k, g)
                          /\ all = e \o b
  OBVIOUS
<1>2. Filled(plans, k, g - 1, m)
  BY <1>1 DEF EntriesUpTo
<1>3. /\ Len(s) \in Nat /\ \A j \in 1..Len(s) : s[j] = m + j
      /\ \A M : M = m + Len(s) => Filled(plans, k, g, M)
  <2>1. PICK h : h = g - 1
    OBVIOUS
  <2>2. Filled(plans, k, h, m)
    BY <1>2, <2>1
  <2>3. Continues(s, m) /\ \A M : M = m + Len(s) => Filled(plans, k, g, M)
    BY <1>1, <2>1, <2>2, PartIsNext
  <2> QED
    BY <2>3 DEF Continues
<1>4. /\ m \in Nat /\ Len(all) = m + Len(s)
      /\ \A i \in 1..m : all[i] = e[i]
      /\ \A j \in 1..Len(s) : all[m + j] = b[j]
  <2>1. PICK V, a, c : V = Nat /\ a = e /\ c = b
    OBVIOUS
  <2>2. a \in Seq(V) /\ c \in Seq(V) /\ all = a \o c
    BY <1>1, <2>1
  <2>3. /\ Len(a) \in Nat /\ Len(c) \in Nat /\ Len(all) = Len(a) + Len(c)
        /\ \A i \in 1..Len(a) : all[i] = a[i]
        /\ \A j \in 1..Len(c) : all[Len(a) + j] = c[j]
    BY <2>2, Joined
  <2> QED
    BY <1>1, <2>1, <2>3
<1>5. ASSUME NEW h \in 1..g, SamplesIn(plans, k, h) # {}, NEW j \in 1..Len(PartOf(plans, k, h))
      PROVE  /\ PartOf(plans, k, h)[j] \in 1..Len(all)
             /\ all[PartOf(plans, k, h)[j]] = PlaceOf(metas, payload, h, plans[k].track)
                                          + SegmentIndexOf(plans, k, h).offs[j]
  <2>1. CASE h = g
    <3>1. j \in 1..Len(s) /\ PartOf(plans, k, h)[j] = m + j
      BY <1>1, <1>3, <1>5, <2>1
    <3>2. m + j \in 1..Len(all)
      BY <1>3, <1>4, <3>1
    <3>3. all[m + j] = b[j] /\ j \in 1..Len(b)
      BY <1>1, <1>4, <3>1
    <3> QED
      BY <2>1, <3>1, <3>2, <3>3
  <2>2. CASE h # g
    <3>1. h \in 1..(g - 1)
      BY <2>2
    <3>2. PICK i : i = PartOf(plans, k, h)[j]
      OBVIOUS
    <3>3. i \in 1..m /\ e[i] = PlaceOf(metas, payload, h, plans[k].track)
                                          + SegmentIndexOf(plans, k, h).offs[j]
      BY <1>1, <1>5, <3>1, <3>2 DEF EntriesUpTo
    <3>4. i \in 1..Len(all)
      BY <1>3, <1>4, <3>3
    <3> QED
      BY <1>4, <3>2, <3>3, <3>4
  <2> QED
    BY <2>1, <2>2
<1>6. Filled(plans, k, g, Len(all))
  BY <1>3, <1>4
<1> QED
  BY <1>1, <1>5, <1>6 DEF EntriesUpTo

LEMMA EntriesAre ==
  ASSUME NEW plans, Planned(plans), NEW k \in DOMAIN plans, NEW metas,
         NEW n \in Nat \ {0}, GopsCut(plans, n), Measured(plans, metas, n),
         NEW payload \in Nat, NEW e, e = Co64(metas, plans[k].track, payload)
  PROVE  EntriesUpTo(plans, k, metas, payload, n, e)
<1>1. PICK id : id = plans[k].track
  OBVIOUS
<1> DEFINE Add(g) == [i \in DOMAIN metas[g].index[id].offs |->
                        PlaceOf(metas, payload, g, id) + metas[g].index[id].offs[i]]
           Next1(q, g) == IF id \notin DOMAIN metas[g].bytes THEN q ELSE q \o Add(g)
           A == Seq(Nat)
           Body(f) == [g \in 0..n |-> IF g = 0 THEN <<>> ELSE Next1(f[g - 1], g)]
           st == [g \in 1..n |-> [q \in A |-> Next1(q, g)]]
<1>2. Len(metas) = n
  BY DEF Measured
<1>3. ASSUME NEW g \in 1..n
      PROVE  id \in DOMAIN metas[g].bytes <=> SamplesIn(plans, k, g) # {}
  <2>1. DOMAIN metas[g].bytes = Held(plans, g)
    BY DEF Measured
  <2>2. ASSUME id \in Held(plans, g) PROVE SamplesIn(plans, k, g) # {}
    <3>1. PICK l \in DOMAIN plans : SamplesIn(plans, l, g) # {} /\ plans[l].track = id
      BY <2>2 DEF Held
    <3>2. l = k
      BY <1>1, <3>1, OneOfTrack
    <3> QED
      BY <3>1, <3>2
  <2>3. ASSUME SamplesIn(plans, k, g) # {} PROVE id \in Held(plans, g)
    BY <1>1, <2>3 DEF Held
  <2> QED
    BY <2>1, <2>2, <2>3
<1>4. ASSUME NEW g \in 1..n, SamplesIn(plans, k, g) # {}
      PROVE  /\ Add(g) \in Seq(Nat) /\ Len(Add(g)) = Len(PartOf(plans, k, g))
             /\ \A j \in 1..Len(Add(g)) : Add(g)[j] = PlaceOf(metas, payload, g, id)
                                                        + SegmentIndexOf(plans, k, g).offs[j]
  <2>1. PICK x, s, b, pl : /\ x = SegmentIndexOf(plans, k, g) /\ s = PartOf(plans, k, g)
                           /\ b = Add(g) /\ pl = PlaceOf(metas, payload, g, id)
    OBVIOUS
  <2>2. metas[g].index[id] = x
    BY <1>1, <1>4, <2>1 DEF Measured
  <2>3. DOMAIN x.offs = 1..Len(s) /\ \A i \in 1..Len(s) : x.offs[i] \in Nat
    BY <2>1, SegmentIs
  <2>4. pl \in Nat
    BY <2>1, PlaceIsNat
  <2>5. b = [i \in 1..Len(s) |-> pl + x.offs[i]]
    BY <2>1, <2>2, <2>3
  <2>6. Len(s) \in Nat
    BY <2>1, PartIs
  <2>7. b \in Seq(Nat) /\ Len(b) = Len(s)
    BY <2>3, <2>4, <2>5, <2>6
  <2> QED
    BY <2>1, <2>5, <2>7
<1> HIDE DEF Add
<1>5. ASSUME NEW q \in A, NEW g \in 1..n PROVE Next1(q, g) \in A
  <2>1. CASE id \notin DOMAIN metas[g].bytes
    BY <2>1
  <2>2. CASE id \in DOMAIN metas[g].bytes
    <3>1. Add(g) \in Seq(Nat)
      BY <1>3, <1>4, <2>2
    <3>2. q \o Add(g) \in Seq(Nat)
      BY <3>1
    <3> QED
      BY <2>2, <3>2
  <2> QED
    BY <2>1, <2>2
<1>6. <<>> \in A
  OBVIOUS
<1> HIDE DEF A
<1>7. PICK f : /\ f \in [0..n -> A] /\ f[0] = <<>>
               /\ \A g \in 1..n : f[g] = Next1(f[g - 1], g)
  <2> HIDE DEF Next1
  <2>1. st \in [1..n -> [A -> A]]
    BY <1>5
  <2>2. Stepped(n, A, <<>>, st)
    BY <1>6, <2>1 DEF Stepped
  <2>3. PICK f : /\ f \in [0..n -> A] /\ f[0] = <<>>
                 /\ \A g \in 1..n : f[g] = st[g][f[g - 1]]
    <3>1. PICK c, t, B, x : c = n /\ t = st /\ B = A /\ x = <<>>
      OBVIOUS
    <3>2. Stepped(c, B, x, t)
      BY <2>2, <3>1
    <3>3. \E f : /\ f \in [0..c -> B] /\ f[0] = x /\ \A i \in 1..c : f[i] = t[i][f[i - 1]]
      BY <3>2, Recursion
    <3> QED
      BY <3>1, <3>3
  <2>4. \A g \in 1..n : f[g] = Next1(f[g - 1], g)
    <3>1. \A g \in 1..n : g - 1 \in 0..n
      OBVIOUS
    <3> QED
      BY <2>3, <3>1
  <2> QED
    BY <2>3, <2>4
<1>8. \A g \in 0..n : g # 0 => g \in 1..n /\ g - 1 \in 0..n
  OBVIOUS
<1>9. f = Body(f)
  <2> HIDE DEF Next1
  <2>1. \A g \in 0..n : g # 0 => f[g] = Next1(f[g - 1], g)
    BY <1>7, <1>8
  <2> QED
    BY <1>7, <2>1
<1>10. PICK h : h = Entries(metas, id, payload)
  OBVIOUS
<1>11. h = Body(h)
  <2>1. h = CHOOSE x : x = Body(x)
    BY Zenon, <1>2, <1>10 DEF Entries, Add
  <2> HIDE DEF Body
  <2> QED
    BY <1>9, <2>1
<1>12. h[0] = <<>> /\ \A g \in 1..n : h[g] = Next1(h[g - 1], g)
  <2> HIDE DEF Next1
  <2>1. \A g \in 1..n : g \in 0..n /\ g # 0
    OBVIOUS
  <2>2. 0 \in 0..n
    OBVIOUS
  <2> QED
    BY <1>11, <2>1, <2>2
<1> DEFINE Good(q, g) == q \in Seq(Nat) /\ EntriesUpTo(plans, k, metas, payload, g, q)
<1>13. ASSUME NEW q, NEW g \in 1..n, Good(q, g - 1) PROVE Good(Next1(q, g), g)
  <2>1. CASE id \notin DOMAIN metas[g].bytes
    <3>1. EntriesUpTo(plans, k, metas, payload, g, q)
      BY <1>3, <1>13, <2>1, EntriesSkip
    <3> QED
      BY <1>13, <2>1, <3>1
  <2>2. CASE id \in DOMAIN metas[g].bytes
    <3>1. PICK b : b = Add(g)
      OBVIOUS
    <3>2. b \in Seq(Nat) /\ Len(b) = Len(PartOf(plans, k, g))
          /\ \A j \in 1..Len(b) : b[j] = PlaceOf(metas, payload, g, plans[k].track)
                                       + SegmentIndexOf(plans, k, g).offs[j]
      BY <1>1, <1>3, <1>4, <2>2, <3>1
    <3>3. EntriesUpTo(plans, k, metas, payload, g, q \o b)
      BY <1>3, <1>13, <2>2, <3>2, EntriesMore
    <3>4. q \o b \in Seq(Nat)
      BY <1>13, <3>2
    <3> QED
      BY <2>2, <3>1, <3>3, <3>4
  <2> QED
    BY <2>1, <2>2
<1> HIDE DEF Next1
<1>14. Good(<<>>, 0)
  <2>1. <<>> \in Seq(Nat)
    OBVIOUS
  <2> QED
    BY <2>1, EntriesNone
<1> HIDE DEF Good
<1>15. \A g \in 0..n : Good(h[g], g)
  <2>1. PICK apart, B : apart = [g \in 0..n |-> IF Good(h[g], g) THEN 0 ELSE 1] /\ B = {0}
    OBVIOUS
  <2>2. apart[0] \in B
    BY <1>12, <1>14, <2>1
  <2>3. ASSUME NEW g \in 1..n, apart[g - 1] \in B PROVE apart[g] \in B
    <3>1. g \in 0..n /\ g - 1 \in 0..n
      OBVIOUS
    <3>2. Good(h[g - 1], g - 1)
      BY <2>1, <2>3, <3>1
    <3>3. Good(h[g], g)
      BY <1>12, <1>13, <3>2
    <3> QED
      BY <2>1, <3>1, <3>3
  <2>4. 0 \in Nat /\ n \in Nat /\ 1 = 0 + 1
    OBVIOUS
  <2>5. \A g \in 0..n : apart[g] \in B
    BY <2>2, <2>3, <2>4, PrefixInduction
  <2> QED
    BY <2>1, <2>5
<1>16. e = h[n]
  BY <1>1, <1>2, <1>10, Co64Is
<1>17. Good(e, n)
  BY <1>15, <1>16
<1> QED
  BY <1>17 DEF Good

\* A co64 has an entry for each sample.
LEMMA EntriesOfAll ==
  ASSUME NEW plans, Planned(plans), NEW k \in DOMAIN plans, NEW metas, NEW payload,
         NEW n \in Nat \ {0}, GopsCut(plans, n),
         NEW e, EntriesUpTo(plans, k, metas, payload, n, e)
  PROVE  Len(e) = Len(plans[k].samples)
<1>1. PICK N, m : N = Len(plans[k].samples) /\ m = Len(e)
  OBVIOUS
<1>2. N \in Nat /\ \A i \in 1..N : GopIn(plans, k, i) \in 1..n
  BY <1>1, GopsAre DEF GopsCut
<1>3. m \in 0..N /\ \A i \in 1..N : i <= m <=> GopIn(plans, k, i) <= n
  BY <1>1 DEF EntriesUpTo, Filled
<1>4. \A i \in 1..N : i <= m
  BY <1>2, <1>3
<1>5. ~(m < N)
  <2>1. m < N => m + 1 \in 1..N /\ ~(m + 1 <= m)
    BY <1>2, <1>3
  <2> QED
    BY <1>4, <2>1
<1> QED
  BY <1>1, <1>2, <1>3, <1>5

-----------------------------------------------------------------------------
(* The segments one behind the other.                                      *)

\* The x-th segment is of GoP G[x] and of track T[x], and H[g] are the tracks
\* of a GoP.
Turns(m, n, G, T, H) ==
  /\ m \in Nat /\ n \in Nat
  /\ \A x \in 1..m : G[x] \in 1..n /\ T[x] \in Nat /\ T[x] \in H[G[x]]
  /\ \A x, y \in 1..m : x < y => G[x] < G[y] \/ (G[x] = G[y] /\ T[x] < T[y])
  /\ \A g \in 1..n : \A t \in H[g] : \E x \in 1..m : G[x] = g /\ T[x] = t

\* A GoP ahead of the first segment has no track, and a track of the same GoP
\* is not ahead of it.
LEMMA TurnFirst ==
  ASSUME NEW m, NEW n, NEW G, NEW T, NEW H, Turns(m, n, G, T, H), 1 \in 1..m
  PROVE  /\ \A h \in 1..(G[1] - 1) : H[h] = {}
         /\ {t \in H[G[1]] : t < T[1]} = {}
<1>1. \A x \in 1..m : x # 1 => G[1] < G[x] \/ (G[1] = G[x] /\ T[1] < T[x])
  BY DEF Turns
<1>2. G[1] \in 1..n /\ T[1] \in Nat /\ n \in Nat /\ \A x \in 1..m : G[x] \in 1..n /\ T[x] \in Nat
  BY DEF Turns
<1>3. ASSUME NEW h \in 1..(G[1] - 1), NEW t \in H[h] PROVE FALSE
  <2>1. h \in 1..n /\ h < G[1]
    BY <1>2
  <2>2. PICK x \in 1..m : G[x] = h
    BY <2>1 DEF Turns
  <2> QED
    BY <1>1, <1>2, <2>1, <2>2
<1>4. ASSUME NEW t \in H[G[1]], t < T[1] PROVE FALSE
  <2>1. PICK x \in 1..m : G[x] = G[1] /\ T[x] = t
    BY <1>2 DEF Turns
  <2> QED
    BY <1>1, <1>2, <1>4, <2>1
<1> QED
  BY <1>3, <1>4

\* Behind a segment is the next track of its GoP, or the first of the next GoP
\* that has one.
NextTurn(G, T, H, x, y) ==
  LET S == {t \in H[G[x]] : t < T[x]}
  IN  \/ G[y] = G[x] /\ {t \in H[G[y]] : t < T[y]} = S \cup {T[x]}
      \/ /\ G[x] < G[y] /\ H[G[x]] = S \cup {T[x]}
         /\ \A h \in (G[x] + 1)..(G[y] - 1) : H[h] = {}
         /\ {t \in H[G[y]] : t < T[y]} = {}

Successive(m, x, y) == x \in 1..m /\ y \in 1..m /\ y = x + 1

LEMMA TurnNext ==
  ASSUME NEW m, NEW n, NEW G, NEW T, NEW H, Turns(m, n, G, T, H),
         NEW x, NEW y, Successive(m, x, y)
  PROVE  NextTurn(G, T, H, x, y)
<1>0. x \in 1..m /\ y \in 1..m /\ y = x + 1
  BY DEF Successive
<1>00. PICK S : S = {t \in H[G[x]] : t < T[x]}
  OBVIOUS
<1> SUFFICES
      \/ G[y] = G[x] /\ {t \in H[G[y]] : t < T[y]} = S \cup {T[x]}
      \/ /\ G[x] < G[y] /\ H[G[x]] = S \cup {T[x]}
         /\ \A h \in (G[x] + 1)..(G[y] - 1) : H[h] = {}
         /\ {t \in H[G[y]] : t < T[y]} = {}
  BY <1>00 DEF NextTurn
<1>1. /\ m \in Nat /\ n \in Nat
      /\ \A z \in 1..m : G[z] \in 1..n /\ T[z] \in Nat /\ T[z] \in H[G[z]]
  BY DEF Turns
<1>2. \A w, z \in 1..m : w < z => G[w] < G[z] \/ (G[w] = G[z] /\ T[w] < T[z])
  BY DEF Turns
<1>3. \A z \in 1..m : z < x \/ z = x \/ z = y \/ y < z
  BY <1>0, <1>1
<1>4. x < y
  BY <1>0, <1>1
<1>5. \A g \in 1..n : \A t \in H[g] : \E z \in 1..m : G[z] = g /\ T[z] = t
  BY DEF Turns
<1>6. /\ G[x] \in Int /\ G[y] \in Int /\ T[x] \in Int /\ T[y] \in Int
      /\ G[x] \in 1..n /\ G[y] \in 1..n /\ T[x] \in H[G[x]]
  BY <1>0, <1>1
<1>7. CASE G[x] = G[y]
  <2>1. T[x] < T[y]
    BY <1>0, <1>2, <1>4, <1>6, <1>7
  <2>2. ASSUME NEW t \in H[G[y]], t < T[y] PROVE t \in S \cup {T[x]}
    <3>1. PICK z \in 1..m : G[z] = G[y] /\ T[z] = t
      BY <1>5, <1>6
    <3>2. CASE z < x
      <4>1. T[z] < T[x]
        BY <1>0, <1>2, <1>6, <1>7, <3>1, <3>2
      <4> QED
        BY <1>00, <1>6, <1>7, <2>2, <3>1, <4>1
    <3>3. CASE z = x
      BY <3>1, <3>3
    <3>4. CASE z = y
      BY <1>6, <2>2, <3>1, <3>4
    <3>5. CASE y < z
      <4>1. T[y] < T[z] /\ T[z] \in Int
        BY <1>0, <1>1, <1>2, <1>6, <3>1, <3>5
      <4> QED
        BY <1>6, <2>2, <3>1, <4>1
    <3> QED
      BY <1>3, <3>2, <3>3, <3>4, <3>5
  <2>3. ASSUME NEW t \in S \cup {T[x]} PROVE t \in H[G[y]] /\ t < T[y]
    <3>1. CASE t \in S
      <4>1. t \in H[G[x]] /\ t < T[x]
        BY <1>00, <3>1
      <4>2. PICK z \in 1..m : G[z] = G[x] /\ T[z] = t
        BY <1>5, <1>6, <4>1
      <4>3. t \in Int
        BY <1>1, <4>2
      <4> QED
        BY <1>6, <1>7, <2>1, <4>1, <4>3
    <3>2. CASE t = T[x]
      BY <1>6, <1>7, <2>1, <3>2
    <3> QED
      BY <3>1, <3>2
  <2> QED
    BY <1>7, <2>2, <2>3
<1>8. CASE G[x] # G[y]
  <2>1. G[x] < G[y]
    BY <1>0, <1>2, <1>4, <1>8
  <2>2. ASSUME NEW t \in H[G[x]] PROVE t \in S \cup {T[x]}
    <3>1. PICK z \in 1..m : G[z] = G[x] /\ T[z] = t
      BY <1>5, <1>6
    <3>2. CASE z < x
      <4>1. T[z] < T[x]
        BY <1>0, <1>2, <1>6, <3>1, <3>2
      <4> QED
        BY <1>00, <2>2, <3>1, <4>1
    <3>3. CASE z = x
      BY <3>1, <3>3
    <3>4. CASE z = y
      BY <1>8, <3>1, <3>4
    <3>5. CASE y < z
      BY <1>0, <1>2, <1>6, <2>1, <3>1, <3>5
    <3> QED
      BY <1>3, <3>2, <3>3, <3>4, <3>5
  <2>3. H[G[x]] = S \cup {T[x]}
    BY <1>00, <1>6, <2>2
  <2>4. ASSUME NEW h \in (G[x] + 1)..(G[y] - 1), NEW t \in H[h] PROVE FALSE
    <3>1. h \in 1..n /\ G[x] < h /\ h < G[y]
      BY <1>1, <1>6
    <3>2. PICK z \in 1..m : G[z] = h
      BY <1>5, <3>1
    <3>3. CASE z < x
      BY <1>0, <1>2, <1>6, <3>1, <3>2, <3>3
    <3>4. CASE z = x
      BY <1>6, <3>1, <3>2, <3>4
    <3>5. CASE z = y
      BY <1>6, <3>1, <3>2, <3>5
    <3>6. CASE y < z
      BY <1>0, <1>2, <1>6, <3>1, <3>2, <3>6
    <3> QED
      BY <1>3, <3>3, <3>4, <3>5, <3>6
  <2>5. ASSUME NEW t \in H[G[y]], t < T[y] PROVE FALSE
    <3>1. PICK z \in 1..m : G[z] = G[y] /\ T[z] = t
      BY <1>5, <1>6
    <3>2. CASE z < x
      BY <1>0, <1>2, <1>6, <2>1, <3>1, <3>2
    <3>3. CASE z = x
      BY <1>8, <3>1, <3>3
    <3>4. CASE z = y
      BY <1>6, <2>5, <3>1, <3>4
    <3>5. CASE y < z
      <4>1. T[y] < T[z] /\ T[z] \in Int
        BY <1>0, <1>1, <1>2, <1>6, <3>1, <3>5
      <4> QED
        BY <1>6, <2>5, <3>1, <4>1
    <3> QED
      BY <1>3, <3>2, <3>3, <3>4, <3>5
  <2> QED
    BY <2>1, <2>3, <2>4, <2>5
<1> QED
  BY <1>7, <1>8

\* What the slots have to do with the GoPs.
Seated(plans, sl, G, n) ==
  \A x \in 1..Len(sl) :
    /\ sl[x].k \in DOMAIN plans /\ G[x] \in 1..n
    /\ SamplesIn(plans, sl[x].k, G[x]) # {}
    /\ sl[x].samples = PartOf(plans, sl[x].k, G[x])

LEMMA SlotsSeated ==
  ASSUME NEW plans, Planned(plans), NEW n \in Nat \ {0}, GopsCut(plans, n),
         NEW sl, NEW G, Slotted(plans, sl, G)
  PROVE  Seated(plans, sl, G, n)
<1> SUFFICES ASSUME NEW x \in 1..Len(sl)
             PROVE  /\ sl[x].k \in DOMAIN plans /\ G[x] \in 1..n
                    /\ SamplesIn(plans, sl[x].k, G[x]) # {}
                    /\ sl[x].samples = PartOf(plans, sl[x].k, G[x])
  BY DEF Seated
<1>1. PICK k, s, U : k = sl[x].k /\ s = sl[x].samples /\ U = SamplesIn(plans, k, G[x])
  OBVIOUS
<1>2. k \in DOMAIN plans /\ Len(s) \in Nat \ {0} /\ Sorts(s, Len(s), U)
  BY <1>1 DEF Slotted
<1>3. plans[k] \in TrackPlan
  BY <1>2 DEF Planned
<1>4. PICK N : N = Len(plans[k].samples)
  OBVIOUS
<1>5. DOMAIN plans[k].samples = 1..N
  BY <1>3, <1>4, PlanFields
<1>6. U \in SUBSET Int
  BY <1>1, <1>5 DEF SamplesIn
<1>7. s = Ascending(U)
  BY <1>2, <1>6, SortedIs
<1>8. s[1] \in U
  <2>1. 1 \in 1..Len(s)
    BY <1>2
  <2> QED
    BY <1>2, <2>1 DEF Sorts
<1>9. s[1] \in 1..N /\ GopIn(plans, k, s[1]) = G[x]
  BY <1>1, <1>5, <1>8 DEF SamplesIn
<1>10. \A i \in 1..N : GopIn(plans, k, i) \in 1..n
  BY <1>2, <1>4, GopsAre DEF GopsCut
<1>11. G[x] \in 1..n
  BY <1>9, <1>10
<1> QED
  BY <1>1, <1>2, <1>7, <1>8, <1>11 DEF PartOf

LEMMA SlotsTurn ==
  ASSUME NEW plans, Planned(plans), NEW n \in Nat \ {0}, GopsCut(plans, n),
         NEW sl, NEW G, Slotted(plans, sl, G),
         NEW m, m = Len(sl), NEW T, T = [x \in 1..m |-> plans[sl[x].k].track],
         NEW H, H = [g \in 1..n |-> Held(plans, g)]
  PROVE  Turns(m, n, G, T, H)
<1>1. Seated(plans, sl, G, n)
  BY SlotsSeated
<1>2. \A x \in 1..m : sl[x].k \in DOMAIN plans /\ G[x] \in 1..n /\ SamplesIn(plans, sl[x].k, G[x]) # {}
  BY <1>1 DEF Seated
<1>3. m \in Nat
  BY DEF Slotted
<1>4. \A k \in DOMAIN plans : plans[k].track \in Nat
  <2>1. \A k \in DOMAIN plans : plans[k].track \in Track
    BY PlanFields DEF Planned
  <2>2. \A t \in Track : t \in Nat
    BY TrackAssumption
  <2> QED
    BY <2>1, <2>2
<1>5. ASSUME NEW x \in 1..m PROVE G[x] \in 1..n /\ T[x] \in Nat /\ T[x] \in H[G[x]]
  <2>1. T[x] = plans[sl[x].k].track
    OBVIOUS
  <2>2. T[x] \in Held(plans, G[x])
    BY <1>2, <2>1 DEF Held
  <2>3. H[G[x]] = Held(plans, G[x])
    BY <1>2
  <2> QED
    BY <1>2, <1>4, <2>1, <2>2, <2>3
<1>6. ASSUME NEW x \in 1..m, NEW y \in 1..m, x < y
      PROVE  G[x] < G[y] \/ (G[x] = G[y] /\ T[x] < T[y])
  <2>1. G[x] < G[y] \/ (G[x] = G[y] /\ sl[x].k < sl[y].k)
    BY <1>6 DEF Slotted
  <2>2. \A i, j \in DOMAIN plans : i < j => plans[i].track < plans[j].track
    BY DEF Planned
  <2>3. sl[x].k < sl[y].k => T[x] < T[y]
    BY <1>2, <2>2
  <2> QED
    BY <2>1, <2>3
<1>7. ASSUME NEW g \in 1..n, NEW t \in H[g] PROVE \E x \in 1..m : G[x] = g /\ T[x] = t
  <2>1. t \in Held(plans, g)
    OBVIOUS
  <2>2. PICK k \in DOMAIN plans : SamplesIn(plans, k, g) # {} /\ plans[k].track = t
    BY <2>1 DEF Held
  <2>3. PICK i \in DOMAIN plans[k].samples : GopIn(plans, k, i) = g
    BY <2>2 DEF SamplesIn
  <2>4. PICK x \in 1..m : sl[x].k = k /\ G[x] = GopIn(plans, k, i)
    BY DEF Slotted
  <2> QED
    BY <2>2, <2>3, <2>4
<1>8. n \in Nat
  OBVIOUS
<1> QED
  BY <1>3, <1>5, <1>6, <1>7, <1>8 DEF Turns

\* What is ahead of the GoPs.
Behind(b, plans, metas, n) ==
  /\ n \in Nat /\ b \in [0..n -> Nat]
  /\ \A g \in 1..n : b[g] = b[g - 1] + Displaced(metas[g], Held(plans, g))

NoneHeld(plans, g, h) == \A i \in (g + 1)..h : Held(plans, i) = {}

\* A GoP without a segment takes no room.
LEMMA BehindSame ==
  ASSUME NEW b, NEW plans, NEW metas, NEW n, Behind(b, plans, metas, n),
         NEW g \in 0..n, NEW h \in 0..n, g <= h, NoneHeld(plans, g, h)
  PROVE  b[h] = b[g]
<1>1. n \in Nat /\ b \in [0..n -> Nat] /\ \A i \in 1..n : b[i] = b[i - 1] + Displaced(metas[i], Held(plans, i))
  BY DEF Behind
<1>2. PICK f, A, lo, hi, nx : f = b /\ A = {b[g]} /\ lo = g /\ hi = h /\ nx = lo + 1
  OBVIOUS
<1>3. lo \in Nat /\ hi \in Nat /\ lo <= hi /\ hi <= n
  BY <1>1, <1>2
<1>4. f[lo] \in A
  BY <1>2
<1>5. ASSUME NEW i \in nx..hi, f[i - 1] \in A PROVE f[i] \in A
  <2>1. i \in 1..n /\ i - 1 \in 0..n /\ i \in (g + 1)..h
    BY <1>1, <1>2, <1>3
  <2>2. Held(plans, i) = {}
    BY <2>1 DEF NoneHeld
  <2>3. b[i] = b[i - 1] + Displaced(metas[i], {})
    BY <1>1, <2>1, <2>2
  <2>4. Displaced(metas[i], {}) = 0
    BY DisplacedNone
  <2>5. b[i - 1] \in Nat
    BY <1>1, <2>1
  <2>6. b[i] = b[i - 1]
    BY <2>3, <2>4, <2>5
  <2> QED
    BY <1>2, <1>5, <2>6
<1>6. nx = lo + 1
  BY <1>2
<1>7. \A i \in lo..hi : f[i] \in A
  BY <1>3, <1>4, <1>5, <1>6, PrefixInduction
<1>8. hi \in lo..hi
  BY <1>3
<1> QED
  BY <1>2, <1>7, <1>8

\* The places of the segments.
Placed(P, plans, sl, G, payload, m) ==
  /\ m \in Nat /\ Len(sl) = m
  /\ \A x \in 1..m : P[x] \in Nat
  /\ 1 <= m => P[1] = payload
  /\ \A x, y \in 1..m : y = x + 1 => P[y] = P[x] + SegmentIndexOf(plans, sl[x].k, G[x]).bytes

LEMMA PlacesAre ==
  ASSUME NEW plans, Planned(plans), NEW n \in Nat \ {0}, GopsCut(plans, n),
         NEW metas, Measured(plans, metas, n), NEW payload \in Nat,
         NEW sl, NEW G, Slotted(plans, sl, G), NEW m, m = Len(sl),
         NEW P, P = [x \in 1..m |-> PlaceOf(metas, payload, G[x], plans[sl[x].k].track)]
  PROVE  Placed(P, plans, sl, G, payload, m)
<1>1. PICK T, H, b : /\ T = [x \in 1..m |-> plans[sl[x].k].track]
                     /\ H = [g \in 1..n |-> Held(plans, g)]
                     /\ b = BehindGops(metas, payload)
  OBVIOUS
<1>2. Turns(m, n, G, T, H)
  BY <1>1, SlotsTurn
<1>3. Seated(plans, sl, G, n)
  BY SlotsSeated
<1>4. b \in [0..n -> Nat] /\ b[0] = payload
      /\ \A g \in 1..n : b[g] = b[g - 1] + Displaced(metas[g], Held(plans, g))
  <2>1. PICK c : c = n
    OBVIOUS
  <2>2. Measured(plans, metas, c)
    BY <2>1
  <2>3. /\ b \in [0..c -> Nat] /\ b[0] = payload
        /\ \A g \in 1..c : b[g] = b[g - 1] + Displaced(metas[g], Held(plans, g))
    BY <1>1, <2>2, BehindGopsAre
  <2> QED
    BY <2>1, <2>3
<1>5. Behind(b, plans, metas, n)
  BY <1>4 DEF Behind
<1>6. m \in Nat /\ \A x \in 1..m : G[x] \in 1..n /\ T[x] \in Nat /\ T[x] \in H[G[x]]
  BY <1>2 DEF Turns
<1> DEFINE Lower(x) == {t \in H[G[x]] : t < T[x]}
<1>7. ASSUME NEW x \in 1..m
      PROVE  P[x] = b[G[x] - 1] + Displaced(metas[G[x]], Lower(x)) /\ P[x] \in Nat
  <2>1. PICK g, id : g = G[x] /\ id = T[x]
    OBVIOUS
  <2>2. g \in 1..n /\ id = plans[sl[x].k].track
    BY <1>1, <1>6, <2>1
  <2>3. P[x] = PlaceOf(metas, payload, g, id)
    BY <1>1, <2>1
  <2>4. DOMAIN metas[g].bytes = H[g]
    BY <1>1, <2>2 DEF Measured
  <2>5. PlaceOf(metas, payload, g, id) = b[g - 1] + Displaced(metas[g], {t \in H[g] : t < id})
    BY <1>1, <2>4 DEF PlaceOf
  <2>6. PlaceOf(metas, payload, g, id) \in Nat
    BY <2>2, PlaceIsNat
  <2> QED
    BY <2>1, <2>3, <2>5, <2>6
<1>8. ASSUME NEW x \in 1..m
      PROVE  /\ Weighted(metas[G[x]], Lower(x)) /\ T[x] \in Int /\ \A t \in Lower(x) : t < T[x]
             /\ metas[G[x]].bytes[T[x]] = SegmentIndexOf(plans, sl[x].k, G[x]).bytes
             /\ SegmentIndexOf(plans, sl[x].k, G[x]).bytes \in Nat
  <2>1. PICK g, k, U : g = G[x] /\ k = sl[x].k /\ U = Lower(x)
    OBVIOUS
  <2>2. g \in 1..n /\ T[x] \in Nat /\ H[g] = Held(plans, g) /\ T[x] = plans[k].track
    BY <1>1, <1>6, <2>1
  <2>3. U \in SUBSET Held(plans, g) /\ \A t \in U : t < T[x]
    BY <2>1, <2>2
  <2>4. Weighted(metas[g], U)
    BY <2>2, <2>3, HeldIsWeighted
  <2>5. k \in DOMAIN plans /\ SamplesIn(plans, k, g) # {}
    BY <1>3, <1>6, <2>1 DEF Seated
  <2>6. metas[g].bytes[T[x]] = SegmentIndexOf(plans, k, g).bytes
    BY <2>2, <2>5 DEF Measured
  <2>7. SegmentIndexOf(plans, k, g).bytes \in Nat
    BY <2>5, SegmentIs
  <2> QED
    BY <2>1, <2>2, <2>3, <2>4, <2>6, <2>7
<1>9. ASSUME 1 <= m PROVE P[1] = payload
  <2>1. 1 \in 1..m
    BY <1>6, <1>9
  <2>2. /\ \A h \in 1..(G[1] - 1) : H[h] = {}
        /\ {t \in H[G[1]] : t < T[1]} = {}
    BY <1>2, <2>1, TurnFirst
  <2>3. PICK e : e = G[1] - 1
    OBVIOUS
  <2>4. e \in 0..n /\ 0 \in 0..n /\ 0 <= e /\ \A h \in (0 + 1)..e : h \in 1..n /\ h \in 1..(G[1] - 1)
    BY <1>6, <2>1, <2>3
  <2>5. NoneHeld(plans, 0, e)
    BY <1>1, <2>2, <2>4 DEF NoneHeld
  <2>6. b[e] = b[0]
    BY <1>5, <2>4, <2>5, BehindSame
  <2>7. Displaced(metas[G[1]], Lower(1)) = 0
    BY <2>2, DisplacedNone
  <2>8. P[1] = b[e] + 0
    BY <1>7, <2>1, <2>3, <2>7
  <2> QED
    BY <1>4, <2>6, <2>8
<1>10. ASSUME NEW x \in 1..m, NEW y \in 1..m, y = x + 1
       PROVE  P[y] = P[x] + SegmentIndexOf(plans, sl[x].k, G[x]).bytes
  <2>1. PICK S : S = {t \in H[G[x]] : t < T[x]}
    OBVIOUS
  <2>2. \/ G[y] = G[x] /\ {t \in H[G[y]] : t < T[y]} = S \cup {T[x]}
        \/ /\ G[x] < G[y] /\ H[G[x]] = S \cup {T[x]}
           /\ \A h \in (G[x] + 1)..(G[y] - 1) : H[h] = {}
           /\ {t \in H[G[y]] : t < T[y]} = {}
    <3>1. Successive(m, x, y)
      BY <1>10 DEF Successive
    <3>2. NextTurn(G, T, H, x, y)
      BY <1>2, <3>1, TurnNext
    <3> QED
      BY <2>1, <3>2 DEF NextTurn
  <2>3. PICK d, z, meta, id : /\ d = Displaced(metas[G[x]], S) /\ meta = metas[G[x]] /\ id = T[x]
                              /\ z = SegmentIndexOf(plans, sl[x].k, G[x]).bytes
    OBVIOUS
  <2>4. /\ Weighted(meta, S) /\ id \in Int /\ \A t \in S : t < id
        /\ meta.bytes[id] = z /\ z \in Nat
    BY <1>8, <2>1, <2>3
  <2>5. Displaced(meta, S \cup {id}) = d + z
    <3>1. meta.bytes[id] \in Nat
      BY <2>4
    <3>2. Displaced(meta, S \cup {id}) = Displaced(meta, S) + meta.bytes[id]
      BY <2>4, <3>1, DisplacedGrows
    <3> QED
      BY <2>3, <2>4, <3>2
  <2>6. d \in Nat
    BY <2>3, <2>4, DisplacedIsNat
  <2>7. P[x] = b[G[x] - 1] + d
    BY <1>7, <2>1, <2>3
  <2>8. b[G[x] - 1] \in Nat
    <3>1. G[x] - 1 \in 0..n
      BY <1>6
    <3> QED
      BY <1>4, <3>1
  <2>9. CASE G[y] = G[x] /\ {t \in H[G[y]] : t < T[y]} = S \cup {T[x]}
    <3>1. P[y] = b[G[x] - 1] + Displaced(metas[G[x]], S \cup {id})
      BY <1>7, <2>3, <2>9
    <3> QED
      BY <2>3, <2>5, <2>6, <2>7, <2>8, <2>4, <3>1
  <2>10. CASE /\ G[x] < G[y] /\ H[G[x]] = S \cup {T[x]}
              /\ \A h \in (G[x] + 1)..(G[y] - 1) : H[h] = {}
              /\ {t \in H[G[y]] : t < T[y]} = {}
    <3>1. PICK g, e : g = G[x] /\ e = G[y] - 1
      OBVIOUS
    <3>2. g \in 0..n /\ e \in 0..n /\ g <= e /\ g \in 1..n
          /\ \A h \in (g + 1)..e : h \in 1..n /\ h \in (G[x] + 1)..(G[y] - 1)
      BY <1>6, <2>10, <3>1
    <3>3. NoneHeld(plans, g, e)
      BY <1>1, <2>10, <3>2 DEF NoneHeld
    <3>4. b[e] = b[g]
      BY <1>5, <3>2, <3>3, BehindSame
    <3>5. b[g] = b[g - 1] + Displaced(metas[g], S \cup {id})
      BY <1>1, <1>4, <2>3, <2>10, <3>1, <3>2
    <3>6. Displaced(metas[G[y]], Lower(y)) = 0
      BY <2>10, DisplacedNone
    <3>7. P[y] = b[e] + 0
      BY <1>7, <3>1, <3>6
    <3>8. b[g] = b[g - 1] + (d + z)
      BY <2>3, <2>5, <3>1, <3>5
    <3> QED
      BY <2>3, <2>4, <2>6, <2>7, <2>8, <3>1, <3>4, <3>7, <3>8
  <2> QED
    BY <2>2, <2>9, <2>10
<1> QED
  BY <1>6, <1>7, <1>9, <1>10 DEF Placed

-----------------------------------------------------------------------------
(* The body is as long as the header says.                                 *)

\* The tracks up to one take no more room than all of them.
LEMMA DisplacedWithin ==
  ASSUME NEW meta, NEW T \in SUBSET Nat, Weighted(meta, T), NEW id \in T,
         NEW S, S = {t \in T : t < id}
  PROVE  Displaced(meta, S) + meta.bytes[id] <= Displaced(meta, T)
<1>1. IsFiniteSet(T) /\ \A t \in T : t \in Nat /\ meta.bytes[t] \in Nat
  BY DEF Weighted
<1>2. PICK s, n : Sorts(s, n, T)
  <2>1. T \in SUBSET Int
    OBVIOUS
  <2> QED
    BY <1>1, <2>1, Sorted
<1>3. PICK M \in Nat : id <= M /\ \A t \in T : t <= M
  <2>1. /\ n \in Nat /\ (\A i \in 1..n : s[i] \in T) /\ \A t \in T : \E i \in 1..n : s[i] = t
        /\ \A i, j \in 1..n : i < j => s[i] < s[j]
    BY <1>2 DEF Sorts, Order, Onto
  <2>2. n \in 1..n
    BY <2>1
  <2>3. s[n] \in T /\ s[n] \in Nat
    BY <1>1, <2>1, <2>2
  <2>4. ASSUME NEW t \in T PROVE t <= s[n]
    <3>1. PICK i \in 1..n : s[i] = t
      BY <2>1
    <3>2. i < n \/ i = n
      BY <2>1
    <3>3. s[i] < s[n] \/ s[i] = s[n]
      BY <2>1, <2>2, <3>2
    <3> QED
      BY <1>1, <2>3, <3>1, <3>3
  <2> QED
    BY <2>3, <2>4
<1> DEFINE Low(c) == {t \in T : t < c}
<1>4. \A c : Weighted(meta, Low(c))
  <2> SUFFICES ASSUME NEW c PROVE Weighted(meta, Low(c))
    OBVIOUS
  <2>1. IsFiniteSet(Low(c))
    BY <1>1, FS_Subset
  <2> QED
    BY <1>1, <2>1 DEF Weighted
<1>5. PICK least : least = Displaced(meta, S) + meta.bytes[id]
  OBVIOUS
<1>6. least \in Nat
  <2>1. Displaced(meta, S) \in Nat
    BY <1>4, DisplacedIsNat
  <2> QED
    BY <1>1, <1>5, <2>1
<1>7. PICK f : f = [c \in 0..(M + 1) |-> Displaced(meta, Low(c))]
  OBVIOUS
<1>8. PICK lo, hi : lo = id + 1 /\ hi = M + 1
  OBVIOUS
<1>9. PICK nx : nx = lo + 1
  OBVIOUS
<1>10. PICK A : A = {x \in Nat : least <= x}
  OBVIOUS
<1>11. \A c, d \in Nat : d = c + 1 => \A t \in Nat : t < d <=> t < c \/ t = c
  OBVIOUS
<1>12. lo \in Nat /\ hi \in Nat /\ lo <= hi /\ lo \in 0..(M + 1) /\ hi \in lo..hi /\ hi \in 0..(M + 1)
  BY <1>1, <1>3, <1>8
<1>13. f[lo] \in A
  <2>1. Low(lo) = S \cup {id}
    <3>1. \A t \in T : t < lo <=> t < id \/ t = id
      BY <1>1, <1>8, <1>11, <1>12
    <3> QED
      BY <3>1
  <2>2. Displaced(meta, S \cup {id}) = Displaced(meta, S) + meta.bytes[id]
    <3>1. Weighted(meta, S)
      BY <1>4
    <3>2. id \in Int /\ meta.bytes[id] \in Nat /\ \A t \in S : t < id
      BY <1>1
    <3> QED
      BY <3>1, <3>2, DisplacedGrows
  <2>3. f[lo] = least
    BY <1>5, <1>7, <1>12, <2>1, <2>2
  <2> QED
    BY <1>6, <1>10, <2>3
<1>14. ASSUME NEW c \in nx..hi, f[c - 1] \in A PROVE f[c] \in A
  <2>1. PICK d : d = c - 1
    OBVIOUS
  <2>2. c \in 0..(M + 1) /\ d \in 0..(M + 1) /\ c = d + 1 /\ d \in Nat
    BY <1>1, <1>3, <1>8, <1>9, <2>1
  <2>3. f[c] = Displaced(meta, Low(c)) /\ f[d] = Displaced(meta, Low(d))
    BY <1>7, <2>2
  <2>4. f[d] \in Nat /\ least <= f[d]
    BY <1>10, <1>14, <2>1
  <2>5. \A t \in T : t < c <=> t < d \/ t = d
    BY <1>1, <1>11, <2>2
  <2>6. CASE d \in T
    <3>1. Low(c) = Low(d) \cup {d}
      BY <2>5, <2>6
    <3>2. meta.bytes[d] \in Nat /\ d \in Int
      BY <1>1, <2>6
    <3>3. \A t \in Low(d) : t < d
      OBVIOUS
    <3>4. Displaced(meta, Low(d) \cup {d}) = Displaced(meta, Low(d)) + meta.bytes[d]
      <4> HIDE DEF Low
      <4> QED
        BY <1>4, <3>2, <3>3, DisplacedGrows
    <3>5. f[c] = f[d] + meta.bytes[d]
      BY <2>3, <3>1, <3>4
    <3> QED
      BY <1>6, <1>10, <2>4, <3>2, <3>5
  <2>7. CASE d \notin T
    <3>1. Low(c) = Low(d)
      BY <2>5, <2>7
    <3> QED
      BY <1>10, <2>3, <2>4, <3>1
  <2> QED
    BY <2>6, <2>7
<1>15. \A c \in lo..hi : f[c] \in A
  <2> HIDE DEF Low
  <2> QED
    BY <1>9, <1>12, <1>13, <1>14, PrefixInduction
<1>16. Low(hi) = T
  <2>1. \A t \in T : t < hi
    BY <1>1, <1>3, <1>8
  <2> QED
    BY <2>1
<1>17. f[hi] = Displaced(meta, T)
  BY <1>7, <1>12, <1>16
<1> QED
  BY <1>5, <1>10, <1>12, <1>15, <1>17

\* What is ahead of a GoP, and of all that follow.
LEMMA BehindGrows ==
  ASSUME NEW b, NEW plans, NEW metas, NEW n, Behind(b, plans, metas, n),
         \A g \in 1..n : Displaced(metas[g], Held(plans, g)) \in Nat,
         NEW g \in 0..n
  PROVE  b[g] <= b[n]
<1>1. n \in Nat /\ b \in [0..n -> Nat] /\ \A i \in 1..n : b[i] = b[i - 1] + Displaced(metas[i], Held(plans, i))
  BY DEF Behind
<1>2. PICK f, A, lo, hi, nx : f = b /\ A = {x \in Nat : b[g] <= x} /\ lo = g /\ hi = n /\ nx = lo + 1
  OBVIOUS
<1>3. lo \in Nat /\ hi \in Nat /\ lo <= hi /\ hi \in lo..hi
  BY <1>1, <1>2
<1>4. f[lo] \in A
  BY <1>1, <1>2
<1>5. ASSUME NEW i \in nx..hi, f[i - 1] \in A PROVE f[i] \in A
  <2>1. i \in 1..n
    BY <1>1, <1>2, <1>3
  <2>2. PICK d \in Nat : d = Displaced(metas[i], Held(plans, i))
    BY <2>1
  <2>3. b[i] = b[i - 1] + d /\ b[i - 1] \in Nat /\ b[g] <= b[i - 1] /\ b[g] \in Nat
    BY <1>1, <1>2, <1>5, <2>1, <2>2
  <2> QED
    BY <1>2, <2>2, <2>3
<1>6. \A i \in lo..hi : f[i] \in A
  BY <1>2, <1>3, <1>4, <1>5, PrefixInduction
<1> QED
  BY <1>2, <1>3, <1>6

\* build_synth_flat_header's body length is that of all GoPs.
BodyOf(metas) == SumSeq([g \in DOMAIN metas |-> Displaced(metas[g], DOMAIN metas[g].bytes)])

LEMMA BodyIs ==
  ASSUME NEW b, NEW plans, NEW metas, NEW n, Behind(b, plans, metas, n), Measured(plans, metas, n),
         \A g \in 1..n : Displaced(metas[g], Held(plans, g)) \in Nat
  PROVE  BodyOf(metas) \in Nat /\ b[n] = b[0] + BodyOf(metas)
<1>1. n \in Nat /\ b \in [0..n -> Nat] /\ \A i \in 1..n : b[i] = b[i - 1] + Displaced(metas[i], Held(plans, i))
  BY DEF Behind
<1>2. DOMAIN metas = 1..n /\ \A g \in 1..n : DOMAIN metas[g].bytes = Held(plans, g)
  BY DEF Measured
<1>3. PICK s : s = [g \in 1..n |-> Displaced(metas[g], Held(plans, g))]
  OBVIOUS
<1>4. BodyOf(metas) = SumSeq(s)
  <2>1. [g \in DOMAIN metas |-> Displaced(metas[g], DOMAIN metas[g].bytes)] = s
    BY <1>2, <1>3
  <2> QED
    BY <2>1 DEF BodyOf
<1>5. Numbers(s, n)
  BY <1>1, <1>3 DEF Numbers
<1>6. PICK f : Summed(f, s, n) /\ SumSeq(s) = f[n]
  BY <1>5, SumSeqAre
<1>7. f \in [0..n -> Nat] /\ f[0] = 0 /\ \A i \in 1..n : f[i] = f[i - 1] + s[i]
  BY <1>6 DEF Summed
<1>8. PICK d, A : d = [i \in 0..n |-> b[i] - f[i]] /\ A = {b[0]}
  OBVIOUS
<1>9. PICK lo, nx : lo = 0 /\ nx = lo + 1
  OBVIOUS
<1>10. d[lo] \in A
  BY <1>1, <1>7, <1>8, <1>9
<1>11. ASSUME NEW i \in nx..n, d[i - 1] \in A PROVE d[i] \in A
  <2>1. i \in 1..n /\ i - 1 \in 0..n /\ i \in 0..n
    BY <1>1, <1>9
  <2>2. PICK z \in Nat : z = s[i]
    BY <1>3, <2>1
  <2>3. b[i] = b[i - 1] + z /\ f[i] = f[i - 1] + z
    BY <1>1, <1>3, <1>7, <2>1, <2>2
  <2>4. b[i - 1] \in Nat /\ f[i - 1] \in Nat /\ b[i - 1] - f[i - 1] = b[0]
    BY <1>1, <1>7, <1>8, <1>11, <2>1
  <2> QED
    BY <1>8, <2>1, <2>2, <2>3, <2>4
<1>12. \A i \in 0..n : d[i] \in A
  <2>1. lo \in Nat /\ n \in Nat
    BY <1>1, <1>9
  <2>2. \A i \in lo..n : d[i] \in A
    BY <1>9, <1>10, <1>11, <2>1, PrefixInduction
  <2> QED
    BY <1>9, <2>2
<1>13. n \in 0..n /\ 0 \in 0..n
  BY <1>1
<1>14. b[n] - f[n] = b[0] /\ f[n] \in Nat /\ b[n] \in Nat /\ b[0] \in Nat
  BY <1>1, <1>7, <1>8, <1>12, <1>13
<1> QED
  BY <1>4, <1>6, <1>14

-----------------------------------------------------------------------------
(* The header.                                                             *)

LEMMA FirstTrackIs ==
  ASSUME NEW T, T # {}
  PROVE  FirstTrack(T) \in T
<1>1. \A t : Rank(t.group) \in {0, 1, 2}
  BY DEF Rank
<1>2. \E t \in T : \A u \in T : Rank(t.group) <= Rank(u.group)
  <2>1. PICK R : R = [t \in T |-> Rank(t.group)]
    OBVIOUS
  <2>2. \A t \in T : R[t] \in {0, 1, 2}
    BY <1>1, <2>1
  <2>3. \E t \in T : \A u \in T : R[t] <= R[u]
    <3>1. CASE \E t \in T : R[t] = 0
      BY <2>2, <3>1
    <3>2. CASE \A t \in T : R[t] # 0
      <4>1. CASE \E t \in T : R[t] = 1
        BY <2>2, <3>2, <4>1
      <4>2. CASE \A t \in T : R[t] # 1
        BY <2>2, <3>2, <4>2
      <4> QED
        BY <4>1, <4>2
    <3> QED
      BY <3>1, <3>2
  <2> QED
    BY <2>1, <2>3
<1>3. FirstTrack(T) = CHOOSE t \in T : \A u \in T : Rank(t.group) <= Rank(u.group)
  BY DEF FirstTrack
<1> QED
  BY <1>2, <1>3

\* A track that a moov can declare is described by the catalog.
LEMMA KnownIsDescribed ==
  ASSUME NEW catalog, NEW id, IsKnown(TrackOf(catalog, id))
  PROVE  /\ TrackOf(catalog, id).track = id
         /\ \E key \in DOMAIN catalog.rend : catalog.rend[key].track = id
<1>1. PICK T, t : T = {u \in TracksOf(catalog) : u.track = id} /\ t = TrackOf(catalog, id)
  OBVIOUS
<1>2. t = FirstTrack(T)
  BY <1>1 DEF TrackOf
<1>3. T # {}
  <2> SUFFICES ASSUME T = {} PROVE FALSE
    OBVIOUS
  <2>1. t = NoTrack
    BY <1>2 DEF FirstTrack
  <2>2. t.group = "none"
    BY <2>1 DEF NoTrack
  <2> QED
    BY <1>1, <2>2 DEF IsKnown, Known
<1>4. t \in T
  BY <1>2, <1>3, FirstTrackIs
<1>5. t \in TracksOf(catalog) /\ t.track = id
  BY <1>1, <1>4
<1>6. PICK key \in DOMAIN catalog.rend : t = [group |-> key[1], track |-> catalog.rend[key].track,
                                              scale |-> catalog.rend[key].scale]
  BY <1>5 DEF TracksOf
<1>7. catalog.rend[key].track = id
  BY <1>5, <1>6
<1> QED
  BY <1>1, <1>5, <1>7

EditsOf(p) == CanonicalEdits(p.start, SumSeq(Field(p.samples, LAMBDA x : x.dur)), p.scale)

LEMMA FullTrakFields ==
  ASSUME NEW catalog, NEW p, NEW offsets, NEW t, t = FullTrak(catalog, p, offsets)
  PROVE  /\ t.stbl = PopulateStbl(p, offsets)
         /\ t.edits = EditsOf(p)
         /\ (\E key \in DOMAIN catalog.rend : catalog.rend[key].track = p.track) => t.track = p.track
<1> DEFINE key == CHOOSE k \in DOMAIN catalog.rend : catalog.rend[k].track = p.track
           media == SumSeq(Field(p.samples, LAMBDA x : x.dur))
<1>1. PICK stbl : stbl = PopulateStbl(p, offsets)
  OBVIOUS
<1>2. PICK edits : edits = CanonicalEdits(p.start, media, p.scale)
  OBVIOUS
<1>3. edits = EditsOf(p)
  BY Zenon, <1>2 DEF EditsOf
<1>4. t = [BaseTrak(catalog, key, stbl) EXCEPT !.edits = edits]
  BY Zenon, <1>1, <1>2 DEF FullTrak
<1>5. (\E k \in DOMAIN catalog.rend : catalog.rend[k].track = p.track)
        => catalog.rend[key].track = p.track
  OBVIOUS
<1> HIDE DEF key, media
<1>6. t.edits = edits /\ t.stbl = stbl /\ t.track = catalog.rend[key].track
  BY <1>4 DEF BaseTrak
<1> QED
  BY <1>1, <1>3, <1>5, <1>6

\* How long a trak is has nothing to do with its offsets.
AsLong(t, u) ==
  /\ t.edits = u.edits /\ t.stbl.stts = u.stbl.stts /\ t.stbl.ctts = u.stbl.ctts
  /\ t.stbl.stsz = u.stbl.stsz /\ t.stbl.stss = u.stbl.stss

LEMMA TrakLength ==
  ASSUME NEW catalog, NEW p, NEW a, NEW b
  PROVE  AsLong(FullTrak(catalog, p, a), FullTrak(catalog, p, b))
<1>1. PICK t, u : t = FullTrak(catalog, p, a) /\ u = FullTrak(catalog, p, b)
  OBVIOUS
<1>2. t.edits = u.edits
  BY <1>1, FullTrakFields
<1>3. t.stbl = PopulateStbl(p, a) /\ u.stbl = PopulateStbl(p, b)
  BY <1>1, FullTrakFields
<1>4. /\ t.stbl.stts = u.stbl.stts /\ t.stbl.ctts = u.stbl.ctts
      /\ t.stbl.stsz = u.stbl.stsz /\ t.stbl.stss = u.stbl.stss
  BY <1>3 DEF PopulateStbl
<1> QED
  BY <1>1, <1>2, <1>4 DEF AsLong

LEMMA MoovLenAlike ==
  ASSUME NEW a, NEW b, NEW n, DOMAIN a = 1..n, DOMAIN b = 1..n,
         \A i \in 1..n : AsLong(a[i], b[i])
  PROVE  MoovLen(a) = MoovLen(b)
<1> DEFINE One(t) == 8 + Len(t.edits) + Len(t.stbl.stts) + Len(t.stbl.ctts)
                       + Len(t.stbl.stsz) + Cardinality(t.stbl.stss)
<1>1. ASSUME NEW i \in 1..n PROVE One(a[i]) = One(b[i])
  <2>1. AsLong(a[i], b[i])
    OBVIOUS
  <2> QED
    BY <2>1 DEF AsLong
<1>2. MoovLen(a) = 8 + SumSeq([i \in DOMAIN a |-> One(a[i])])
  BY Zenon DEF MoovLen
<1>3. MoovLen(b) = 8 + SumSeq([i \in DOMAIN b |-> One(b[i])])
  BY Zenon DEF MoovLen
<1> HIDE DEF One
<1>4. [i \in DOMAIN a |-> One(a[i])] = [i \in DOMAIN b |-> One(b[i])]
  BY <1>1
<1> QED
  BY <1>2, <1>3, <1>4

\* A file with one moov.
Declared(file, moov) == MoovAt(file) = {8} /\ file.head[8].body = moov

LEMMA DeclaredIs ==
  ASSUME NEW file, NEW moov, Declared(file, moov)
  PROVE  MoovOf(file) = moov
<1>1. MoovAt(file) = {8} /\ file.head[8].body = moov
  BY DEF Declared
<1>2. PICK M, c : M = MoovAt(file) /\ c = CHOOSE p \in M : \A q \in M : p <= q
  OBVIOUS
<1>3. c = 8
  <2>1. \E p \in M : \A q \in M : p <= q
    BY <1>1, <1>2
  <2>2. c \in M
    BY <1>2, <2>1
  <2> QED
    BY <1>1, <1>2, <2>2
<1>4. MoovOf(file) = file.head[c].body
  BY <1>2 DEF MoovOf
<1> QED
  BY <1>1, <1>3, <1>4

\* A box that is no moov.
LEMMA StillDeclared ==
  ASSUME NEW file, NEW moov, Declared(file, moov), Headed(file), NEW a, a.kind # "moov",
         NEW more, OneMore(file, more, a)
  PROVE  Declared(more, moov)
<1>1. MoovAt(file) = {8} /\ file.head[8].body = moov
  BY DEF Declared
<1>2. PICK h, m, q : h = file.head /\ m = more.head /\ q = file.size
  OBVIOUS
<1>3. DOMAIN m = DOMAIN h \cup {q} /\ m[q] = a /\ (\A p \in DOMAIN h : m[p] = h[p]) /\ q \notin DOMAIN h
  BY <1>2 DEF OneMore, Headed
<1>4. \A p : p \in MoovAt(file) <=> p \in DOMAIN h /\ h[p].kind = "moov"
  BY <1>2 DEF MoovAt
<1>5. \A p : p \in MoovAt(more) <=> p \in DOMAIN m /\ m[p].kind = "moov"
  BY <1>2 DEF MoovAt
<1>6. MoovAt(more) = MoovAt(file)
  BY <1>3, <1>4, <1>5
<1>7. 8 \in DOMAIN h
  BY <1>1, <1>4
<1> QED
  BY <1>1, <1>2, <1>3, <1>6, <1>7 DEF Declared

-----------------------------------------------------------------------------
(* A flat file that ends before its envelope does is refused.              *)

\* A walk over the boxes goes on.
Walkable(file) ==
  /\ Headed(file)
  /\ \A p \in DOMAIN file.head : file.head[p].hlen \in Nat /\ file.head[p].len \in Nat \ {0}

LEMMA StillWalkable ==
  ASSUME NEW file, Walkable(file), NEW a, a.hlen \in Nat, a.len \in Nat \ {0},
         NEW more, OneMore(file, more, a), Headed(more)
  PROVE  Walkable(more)
<1>1. \A p \in DOMAIN file.head : file.head[p].hlen \in Nat /\ file.head[p].len \in Nat \ {0}
  BY DEF Walkable
<1>2. /\ DOMAIN more.head = DOMAIN file.head \cup {file.size} /\ more.head[file.size] = a
      /\ \A p \in DOMAIN file.head : more.head[p] = file.head[p]
  BY DEF OneMore
<1>3. \A p \in DOMAIN more.head : more.head[p].hlen \in Nat /\ more.head[p].len \in Nat \ {0}
  BY <1>1, <1>2
<1> QED
  BY <1>3 DEF Walkable

\* A ftyp, a moov, and the header of an envelope that is to end at `end`.
Framed(file, end) ==
  \E q \in Nat :
    /\ 8 < q /\ q + 16 <= file.size
    /\ {0, 8, q} \subseteq DOMAIN file.head
    /\ file.head[0].kind = "ftyp" /\ file.head[0].hlen = 8 /\ file.head[0].len = 8
    /\ file.head[8].kind = "moov" /\ file.head[8].hlen = 8 /\ file.head[8].len = q - 8
    /\ file.head[q].kind = "mdat" /\ file.head[q].hlen = 16 /\ file.head[q].len = end - q

Sealed(file, end) == Walkable(file) /\ end \in Nat /\ Framed(file, end)

LEMMA StillSealed ==
  ASSUME NEW file, NEW end, Sealed(file, end), NEW a, a.hlen \in Nat, a.len \in Nat \ {0},
         NEW more, more = AddAtom(file, a)
  PROVE  Sealed(more, end)
<1>1. Walkable(file) /\ Headed(file) /\ end \in Nat /\ Framed(file, end)
  BY DEF Sealed, Walkable
<1>2. /\ Headed(more) /\ more.size = file.size + a.len
      /\ OneMore(file, more, a) /\ Grown(file, more)
  BY <1>1, AtomAdded
<1>3. Walkable(more)
  BY <1>1, <1>2, StillWalkable
<1>4. Framed(more, end)
  <2>1. PICK q \in Nat :
          /\ 8 < q /\ q + 16 <= file.size
          /\ {0, 8, q} \subseteq DOMAIN file.head
          /\ file.head[0].kind = "ftyp" /\ file.head[0].hlen = 8 /\ file.head[0].len = 8
          /\ file.head[8].kind = "moov" /\ file.head[8].hlen = 8 /\ file.head[8].len = q - 8
          /\ file.head[q].kind = "mdat" /\ file.head[q].hlen = 16 /\ file.head[q].len = end - q
    BY <1>1 DEF Framed
  <2>2. {0, 8, q} \subseteq DOMAIN more.head
        /\ more.head[0] = file.head[0] /\ more.head[8] = file.head[8] /\ more.head[q] = file.head[q]
    BY <1>2, <2>1 DEF Grown
  <2>3. q + 16 <= more.size
    <3>1. file.size \in Nat
      BY <1>1 DEF Headed
    <3> QED
      BY <1>2, <2>1, <3>1
  <2> QED
    BY <2>1, <2>2, <2>3 DEF Framed
<1> QED
  BY <1>1, <1>3, <1>4 DEF Sealed

\* locate_segment_stream, as a function of the place it looks at.
SearchBody(file, f, p) ==
  LET h == ReadBoxHeader(file, p, file.size)
  IN  IF p + 8 > file.size THEN [ok |-> TRUE, from |-> 0, to |-> file.size]
      ELSE IF ~h.ok THEN [ok |-> FALSE, from |-> 0, to |-> 0]
      ELSE IF h.kind = "mdat" THEN [ok |-> TRUE, from |-> h.start, to |-> h.end]
      ELSE IF HeadsStream(file, p, h) THEN [ok |-> TRUE, from |-> p, to |-> file.size]
      ELSE f[h.end]

Search(file) == CHOOSE f : f = [p \in 0..file.size |-> SearchBody(file, f, p)]

LEMMA LocatedIsSearch == \A file : Located(file) = Search(file)[0]
  BY Zenon DEF Located, Search, SearchBody

\* A box whose header is read.
LEMMA WholeBox ==
  ASSUME NEW file, Walkable(file), NEW p, NEW h, h = ReadBoxHeader(file, p, file.size), h.ok
  PROVE  p \in Nat /\ h.end \in 0..file.size /\ p < h.end
<1>1. /\ p \in DOMAIN file.head /\ ~ p + file.head[p].len > file.size
      /\ h.end = p + file.head[p].len
  BY DEF ReadBoxHeader, BadHeader
<1>2. p \in Nat /\ file.head[p].len \in Nat \ {0} /\ file.size \in Nat
  BY <1>1 DEF Walkable, Headed
<1> QED
  BY <1>1, <1>2

LEMMA SearchIs ==
  ASSUME NEW file, Walkable(file)
  PROVE  \A p \in 0..file.size : Search(file)[p] = SearchBody(file, Search(file), p)
<1> DEFINE S == 0..file.size
           H(p) == ReadBoxHeader(file, p, file.size)
           On(p) == ~ p + 8 > file.size /\ H(p).ok /\ H(p).kind # "mdat" /\ ~HeadsStream(file, p, H(p))
           m == [p \in S |-> file.size - p]
           stop == {p \in S : ~ On(p)}
           none == [p \in S |-> 0]
           base == [p \in S |-> SearchBody(file, none, p)]
           nxt == [p \in S |-> H(p).end]
<1>0. file.size \in Nat
  BY DEF Walkable, Headed
<1>1. m \in [S -> 0..file.size]
  BY <1>0
<1>2. ASSUME NEW p \in S, p \notin stop PROVE nxt[p] \in S /\ m[nxt[p]] < m[p]
  <2>1. H(p).ok
    BY <1>2
  <2>2. H(p).end \in 0..file.size /\ p < H(p).end /\ p \in Nat
    BY <2>1, WholeBox
  <2> HIDE DEF H
  <2> QED
    BY <1>0, <2>2
<1>3. PICK f : Loop(f, S, stop, base, nxt)
  <2>1. \A p \in S : p \notin stop => nxt[p] \in S /\ m[nxt[p]] < m[p]
    BY <1>2
  <2> HIDE DEF S, m, stop, base, nxt
  <2>2. file.size \in Nat /\ m \in [S -> 0..file.size]
    BY <1>0, <1>1
  <2> QED
    BY <2>1, <2>2, TailRecursion
<1>4. ASSUME NEW p \in S PROVE (IF p \in stop THEN base[p] ELSE f[nxt[p]]) = SearchBody(file, f, p)
  <2>1. CASE On(p)
    <3>1. SearchBody(file, f, p) = f[H(p).end]
      BY <2>1 DEF SearchBody
    <3> QED
      BY <2>1, <3>1
  <2>2. CASE ~ On(p)
    <3>1. SearchBody(file, none, p) = SearchBody(file, f, p)
      BY <2>2 DEF SearchBody
    <3> QED
      BY <2>2, <3>1
  <2> QED
    BY <2>1, <2>2
<1>5. f = [p \in 0..file.size |-> SearchBody(file, f, p)]
  <2> HIDE DEF stop, base, nxt
  <2> QED
    BY <1>3, <1>4 DEF Loop
<1>6. Search(file) = [p \in 0..file.size |-> SearchBody(file, Search(file), p)]
  BY <1>5, Zenon DEF Search
<1> HIDE DEF S
<1> QED
  BY <1>6

\* A framing box is passed over.
LEMMA SearchGoesOn ==
  ASSUME NEW file, Walkable(file), NEW p \in Nat, p + 8 <= file.size, p \in DOMAIN file.head,
         file.head[p].kind \in {"ftyp", "moov"}, file.head[p].hlen = 8,
         NEW e, e = p + file.head[p].len, e <= file.size
  PROVE  Search(file)[p] = Search(file)[e]
<1>1. file.size \in Nat
  BY DEF Walkable, Headed
<1>2. p \in 0..file.size /\ ~ p + 8 > file.size
  BY <1>1
<1>3. PICK h : h = ReadBoxHeader(file, p, file.size)
  OBVIOUS
<1>4. h = [ok |-> TRUE, kind |-> file.head[p].kind, start |-> p + file.head[p].hlen, end |-> e]
  <2>1. ~ p + file.head[p].hlen > file.size
    BY <1>2
  <2>2. file.head[p].len \in Nat
    BY DEF Walkable
  <2>3. ~ p + file.head[p].len > file.size
    BY <1>1, <2>2
  <2> QED
    BY <1>3, <2>1, <2>3 DEF ReadBoxHeader
<1>5. h.ok /\ h.kind # "mdat" /\ h.kind # "moof" /\ h.kind # "c2pa" /\ h.kind # "muxl" /\ h.end = e
  BY <1>4
<1>6. ~HeadsStream(file, p, h)
  BY <1>5 DEF HeadsStream, IsMuxl
<1>7. SearchBody(file, Search(file), p) = Search(file)[e]
  BY <1>2, <1>3, <1>5, <1>6 DEF SearchBody
<1> QED
  BY <1>2, <1>7, SearchIs

LEMMA CutIsRefused ==
  ASSUME NEW file, NEW end, Sealed(file, end), file.size < end
  PROVE  ~Unwrap(file).ok
<1>1. PICK q \in Nat :
        /\ 8 < q /\ q + 16 <= file.size
        /\ {0, 8, q} \subseteq DOMAIN file.head
        /\ file.head[0].kind = "ftyp" /\ file.head[0].hlen = 8 /\ file.head[0].len = 8
        /\ file.head[8].kind = "moov" /\ file.head[8].hlen = 8 /\ file.head[8].len = q - 8
        /\ file.head[q].kind = "mdat" /\ file.head[q].hlen = 16 /\ file.head[q].len = end - q
  BY DEF Sealed, Framed
<1>2. Walkable(file) /\ file.size \in Nat /\ end \in Nat
  BY DEF Sealed, Walkable, Headed
<1>3. Search(file)[0] = Search(file)[8]
  <2>1. 0 \in Nat /\ 0 + 8 <= file.size /\ 8 = 0 + file.head[0].len /\ 8 <= file.size
    BY <1>1, <1>2
  <2> QED
    BY <1>1, <1>2, <2>1, SearchGoesOn
<1>5. Search(file)[8] = Search(file)[q]
  <2>1. 8 \in Nat /\ 8 + 8 <= file.size /\ q = 8 + file.head[8].len /\ q <= file.size
    BY <1>1, <1>2
  <2> QED
    BY <1>1, <1>2, <2>1, SearchGoesOn
<1>6. q \in 0..file.size /\ ~ q + 8 > file.size /\ q + file.head[q].len > file.size
  BY <1>1, <1>2
<1>7. PICK h : h = ReadBoxHeader(file, q, file.size)
  OBVIOUS
<1>8. h = BadHeader
  BY <1>6, <1>7 DEF ReadBoxHeader
<1>9. ~h.ok
  BY <1>8 DEF BadHeader
<1>10. SearchBody(file, Search(file), q) = [ok |-> FALSE, from |-> 0, to |-> 0]
  BY <1>6, <1>7, <1>9 DEF SearchBody
<1>11. Located(file) = [ok |-> FALSE, from |-> 0, to |-> 0]
  BY <1>2, <1>3, <1>5, <1>6, <1>10, LocatedIsSearch, SearchIs
<1>12. Unwrap(file) = Refused
  BY <1>11 DEF Unwrap, UnwrapStream
<1> QED
  BY <1>12 DEF Refused

\* The header of a flat file: as long as its moov, wherever the samples are.
LEMMA HeaderLength ==
  ASSUME NEW header, NEW traks, traks = header.moov.traks, SizedList(traks)
  PROVE  /\ Headed(HeaderFile(header)) /\ Declared(HeaderFile(header), header.moov)
         /\ HeaderFile(header).size = FtypLen + 16 + MoovLen(traks)
         /\ header.body \in Nat =>
              Sealed(HeaderFile(header), HeaderFile(header).size + header.body)
<1>1. PICK a, b, f, g, len : /\ a = Atom("ftyp", 8, FtypLen, Nothing) /\ len = MoovLen(traks)
                             /\ b = Atom("moov", 8, len, header.moov)
                             /\ f = AddAtom(EmptyFile, a) /\ g = AddAtom(f, b)
  OBVIOUS
<1>2. len \in Nat \ {0}
  BY <1>1, MoovLenIs
<1>3. a.kind = "ftyp" /\ a.len = 8 /\ b.kind = "moov" /\ b.len = len /\ b.body = header.moov
  BY <1>1 DEF Atom, FtypLen
<1>4. Headed(EmptyFile) /\ EmptyFile.size = 0 /\ DOMAIN EmptyFile.head = {}
  BY DEF EmptyFile, Headed
<1>5. Headed(f) /\ f.size = 8 /\ OneMore(EmptyFile, f, a)
  <2>1. a.len \in Nat \ {0}
    BY <1>3
  <2> QED
    BY <1>1, <1>3, <1>4, <2>1, AtomAdded
<1>6. Headed(g) /\ g.size = 8 + len /\ OneMore(f, g, b)
  <2>1. b.len \in Nat \ {0}
    BY <1>2, <1>3
  <2> QED
    BY <1>1, <1>3, <1>5, <2>1, AtomAdded
<1>7. DOMAIN f.head = {0} /\ f.head[0] = a
  BY <1>4, <1>5 DEF OneMore
<1>8. DOMAIN g.head = {0, 8} /\ g.head[0] = a /\ g.head[8] = b
  BY <1>5, <1>6, <1>7 DEF OneMore
<1>9. MoovAt(g) = {8}
  BY <1>3, <1>8 DEF MoovAt
<1>10. Declared(g, header.moov)
  BY <1>3, <1>8, <1>9 DEF Declared
<1>11. PICK more : more = AddEnvelope(g, header.body)
  OBVIOUS
<1>12. HeaderFile(header) = more
  BY <1>1, <1>11 DEF HeaderFile
<1>13. Headed(more)
  BY <1>6, <1>11, EnvelopeAdded
<1>14. PICK e : /\ OneMore(g, more, e)
                /\ e.kind = "mdat" /\ e.hlen = 16 /\ e.len = 16 + header.body
  BY <1>6, <1>11, EnvelopeAdded
<1>15. Declared(more, header.moov)
  <2>1. e.kind # "moov"
    BY <1>14
  <2> QED
    BY <1>6, <1>10, <1>14, <2>1, StillDeclared
<1>16. more.size = g.size + 16
  BY <1>11 DEF AddEnvelope
<1>17. more.size = FtypLen + 16 + len
  BY <1>2, <1>6, <1>16 DEF FtypLen
<1>18. ASSUME header.body \in Nat PROVE Sealed(more, more.size + header.body)
  <2>1. PICK q, end : q = 8 + len /\ end = more.size + header.body
    OBVIOUS
  <2>2. q \in Nat /\ 8 < q /\ q # 0 /\ q # 8 /\ end \in Nat /\ more.size = q + 16 /\ end - q = 16 + header.body
    BY <1>2, <1>6, <1>16, <1>18, <2>1
  <2>3. DOMAIN more.head = {0, 8, q} /\ more.head[0] = a /\ more.head[8] = b /\ more.head[q] = e
    BY <1>6, <1>8, <1>14, <2>1, <2>2 DEF OneMore
  <2>4. a.hlen = 8 /\ b.hlen = 8
    BY <1>1 DEF Atom
  <2>5. len = q - 8
    BY <1>2, <2>1
  <2>6. Framed(more, end)
    BY <1>3, <1>14, <2>2, <2>3, <2>4, <2>5 DEF Framed
  <2>7. a.len \in Nat \ {0} /\ b.len \in Nat \ {0} /\ e.len \in Nat \ {0} /\ e.hlen \in Nat
    BY <1>2, <1>3, <1>14, <1>18
  <2>8. Walkable(more)
    BY <1>13, <2>3, <2>4, <2>7 DEF Walkable
  <2> QED
    BY <2>1, <2>2, <2>6, <2>8 DEF Sealed
<1> QED
  BY <1>1, <1>12, <1>13, <1>15, <1>17, <1>18

\* What a reader of the moov is told of the samples.
Pointed(traks, plans, metas, payload) ==
  \A i \in DOMAIN traks : \E k \in DOMAIN plans :
    /\ traks[i].track = plans[k].track
    /\ Len(ReadStbl(traks[i].stbl)) = Len(plans[k].samples)
    /\ DOMAIN ReadStbl(traks[i].stbl) = 1..Len(plans[k].samples)
    /\ \A j \in 1..Len(plans[k].samples) :
         ReadStbl(traks[i].stbl)[j].at = Co64(metas, plans[k].track, payload)[j]

LEMMA NoPlansNoHeader ==
  ASSUME NEW catalog, NEW plans, plans = <<>>
  PROVE  ~SynthHeader(catalog, PlanBody(plans)).ok
<1>1. PICK metas, ps : metas = PlanBody(plans) /\ ps = PlansOfMetas(catalog, metas)
  OBVIOUS
<1>2. metas = <<>>
  BY <1>1 DEF PlanBody
<1>3. IdsOf(metas) = {}
  BY <1>2 DEF IdsOf
<1>4. PICK T, list : T = {id \in IdsOf(metas) : IsKnown(TrackOf(catalog, id))} /\ list = Ascending(T)
  OBVIOUS
<1>5. T = {} /\ Cardinality(T) = 0
  BY <1>3, <1>4, FS_EmptySet
<1>6. DOMAIN list = {}
  BY <1>4, <1>5 DEF Ascending, AscendingBy
<1>7. PICK raw : raw = [i \in DOMAIN list |-> PlanOf(TrackOf(catalog, list[i]), metas)]
  OBVIOUS
<1>8. raw = <<>>
  BY <1>6, <1>7
<1>9. ps = Rebase(raw)
  BY <1>1, <1>4, <1>7 DEF PlansOfMetas
<1>10. ps = <<>>
  BY <1>8, <1>9 DEF Rebase
<1>11. PICK entries : SynthHeader(catalog, metas) = FilledHeader(catalog, metas, ps, entries)
  BY <1>1 DEF SynthHeader, HeaderOfPlans
<1>12. SynthHeader(catalog, metas) = NoHeader
  BY <1>10, <1>11 DEF FilledHeader
<1> QED
  BY <1>1, <1>12 DEF NoHeader

\* Where the first segment goes.
PayloadOf(catalog, metas) == PayloadAt(catalog, PlansOfMetas(catalog, metas))

LEMMA HeaderIs ==
  ASSUME NEW catalog, NEW plans, Planned(plans), NEW metas, metas = PlanBody(plans),
         NEW n \in Nat \ {0}, GopsCut(plans, n), Measured(plans, metas, n),
         NEW header, header = SynthHeader(catalog, metas), header.ok,
         NEW payload, payload = PayloadOf(catalog, metas), NEW file, file = HeaderFile(header)
  PROVE  /\ payload \in Nat /\ file.size = payload
         /\ Headed(file) /\ Declared(file, header.moov)
         /\ BodyOf(metas) \in Nat => Sealed(file, payload + BodyOf(metas))
         /\ Pointed(header.moov.traks, plans, metas, payload)
<1>1. PICK ps, entries, traks : /\ ps = PlansOfMetas(catalog, metas) /\ traks = header.moov.traks
                                /\ entries = [i \in DOMAIN ps |-> Co64(metas, ps[i].track, payload)]
  OBVIOUS
<1>2. header = FilledHeader(catalog, metas, ps, entries)
  BY <1>1 DEF SynthHeader, HeaderOfPlans, PayloadOf
<1>3. /\ \A i \in DOMAIN ps : Len(entries[i]) = Len(ps[i].samples)
      /\ traks = [i \in DOMAIN ps |-> FullTrak(catalog, ps[i], entries[i])]
  BY <1>1, <1>2 DEF FilledHeader, NoHeader
<1>4. PICK ids : ids = PlanIds(plans)
  OBVIOUS
<1>5. ids \in SUBSET Nat /\ IsFiniteSet(ids) /\ Described(metas, ids)
  <2>1. \A k \in DOMAIN plans : plans[k].track \in Track
    BY PlanFields DEF Planned
  <2>2. ids \in SUBSET Track
    BY <1>4, <2>1 DEF PlanIds
  <2>3. IsFiniteSet(ids)
    BY <2>2, TracksFinite
  <2>4. Described(metas, ids)
    BY <1>4, PlanBodyIs
  <2> QED
    BY <2>2, <2>3, <2>4, TrackAssumption
<1>6. Listable(ps) /\ Named(ps, catalog, ids)
  BY <1>1, <1>5, PlansOfMetasAre
<1>7. PICK c : c = Len(ps)
  OBVIOUS
<1>8. /\ c \in Nat /\ DOMAIN ps = 1..c
      /\ \A i \in 1..c : Len(ps[i].samples) \in Nat /\ DOMAIN ps[i].samples = 1..Len(ps[i].samples)
  BY <1>6, <1>7 DEF Listable
<1>9. SizedList(traks)
  BY <1>3, <1>6, TraksAreSized
<1>10. payload = FtypLen + 16 + MoovLen(traks)
  <2>1. PICK blank : blank = [i \in DOMAIN ps |->
                               FullTrak(catalog, ps[i], [j \in DOMAIN ps[i].samples |-> 0])]
    OBVIOUS
  <2>2. payload = FtypLen + 16 + MoovLen(blank)
    BY Zenon, <1>1, <2>1 DEF PayloadOf, PayloadAt
  <2>3. DOMAIN blank = 1..c /\ DOMAIN traks = 1..c
    BY <1>3, <1>8, <2>1
  <2>4. ASSUME NEW i \in 1..c PROVE AsLong(blank[i], traks[i])
    <3>1. PICK zeros : zeros = [j \in DOMAIN ps[i].samples |-> 0]
      OBVIOUS
    <3>2. blank[i] = FullTrak(catalog, ps[i], zeros) /\ traks[i] = FullTrak(catalog, ps[i], entries[i])
      BY <1>3, <1>8, <2>1, <3>1
    <3> QED
      BY <3>2, TrakLength
  <2>5. MoovLen(blank) = MoovLen(traks)
    BY <2>3, <2>4, MoovLenAlike
  <2> QED
    BY <2>2, <2>5
<1>11. MoovLen(traks) \in Nat
  BY <1>9, MoovLenIs
<1>12. payload \in Nat
  BY <1>10, <1>11 DEF FtypLen
<1>13. /\ Headed(file) /\ Declared(file, header.moov) /\ file.size = payload
       /\ header.body \in Nat => Sealed(file, payload + header.body)
  BY <1>1, <1>9, <1>10, HeaderLength
<1>14. ASSUME NEW i \in DOMAIN traks
       PROVE  \E k \in DOMAIN plans :
                /\ traks[i].track = plans[k].track
                /\ Len(ReadStbl(traks[i].stbl)) = Len(plans[k].samples)
                /\ DOMAIN ReadStbl(traks[i].stbl) = 1..Len(plans[k].samples)
                /\ \A j \in 1..Len(plans[k].samples) :
                     ReadStbl(traks[i].stbl)[j].at = Co64(metas, plans[k].track, payload)[j]
  <2>1. i \in DOMAIN ps /\ i \in 1..c
    BY <1>3, <1>8
  <2>2. PICK p, e : p = ps[i] /\ e = entries[i]
    OBVIOUS
  <2>3. PICK id \in ids : IsKnown(TrackOf(catalog, id)) /\ p.track = TrackOf(catalog, id).track
    BY <1>6, <2>1, <2>2 DEF Named
  <2>4. p.track = id /\ \E key \in DOMAIN catalog.rend : catalog.rend[key].track = p.track
    BY <2>3, KnownIsDescribed
  <2>5. PICK k \in DOMAIN plans : plans[k].track = id
    BY <1>4 DEF PlanIds
  <2>6. traks[i] = FullTrak(catalog, p, e)
    BY <1>3, <2>1, <2>2
  <2>7. traks[i].track = id /\ traks[i].stbl = PopulateStbl(p, e)
    BY <2>4, <2>6, FullTrakFields
  <2>8. e = Co64(metas, plans[k].track, payload)
    BY <1>1, <2>1, <2>2, <2>4, <2>5
  <2>9. EntriesUpTo(plans, k, metas, payload, n, e)
    BY <1>12, <2>8, EntriesAre
  <2>10. Len(e) = Len(plans[k].samples)
    BY <2>9, EntriesOfAll
  <2>11. PICK m, read : m = Len(p.samples) /\ read = ReadStbl(PopulateStbl(p, e))
    OBVIOUS
  <2>12. m \in Nat /\ DOMAIN p.samples = 1..m /\ Len(e) = m
    BY <1>3, <1>8, <2>1, <2>2, <2>11
  <2>13. Len(read) = m /\ DOMAIN read = 1..m /\ \A j \in 1..m : read[j].at = e[j]
    BY <2>11, <2>12, TableReads
  <2>14. m = Len(plans[k].samples) /\ read = ReadStbl(traks[i].stbl)
    BY <2>7, <2>10, <2>11, <2>12
  <2>15. \A j \in 1..Len(plans[k].samples) :
            ReadStbl(traks[i].stbl)[j].at = Co64(metas, plans[k].track, payload)[j]
    BY <2>8, <2>13, <2>14
  <2> QED
    BY <2>5, <2>7, <2>13, <2>14, <2>15
<1>15. Pointed(traks, plans, metas, payload)
  BY <1>14 DEF Pointed
<1>16. header.body = BodyOf(metas)
  BY <1>2 DEF FilledHeader, NoHeader, BodyOf
<1> QED
  BY <1>1, <1>12, <1>13, <1>15, <1>16

-----------------------------------------------------------------------------
(* Where the samples are to be, slot by slot.                              *)

SlotSamples(plans, sl, x) ==
  [j \in DOMAIN sl[x].samples |-> plans[sl[x].k].samples[sl[x].samples[j]]]

SlotStarts(plans, sl, x) == StartsIn(SlotSamples(plans, sl, x), PrefixLen[plans[sl[x].k].track])

\* The first byte of a sample.
DataAt(plans, sl, P, x, j) ==
  P[x] + SlotStarts(plans, sl, x)[j]
    + MoofLen[plans[sl[x].k].samples[sl[x].samples[j]].cts # 0] + MdatHeader

\* The segments are one behind the other.
Laid(plans, sl, P) ==
  \A x \in 1..Len(sl) :
    /\ P[x] \in Nat
    /\ Begun(SlotStarts(plans, sl, x), SlotSamples(plans, sl, x), Len(sl[x].samples),
             PrefixLen[plans[sl[x].k].track])
    /\ \A y \in 1..Len(sl) :
         y = x + 1 => P[y] = P[x] + SlotStarts(plans, sl, x)[Len(sl[x].samples) + 1]

\* The table of each trak says where the samples of its track are to be.
Aimed(traks, plans, sl, P) ==
  \A i \in DOMAIN traks : \E k \in DOMAIN plans :
    /\ traks[i].track = plans[k].track
    /\ Len(ReadStbl(traks[i].stbl)) = Len(plans[k].samples)
    /\ DOMAIN ReadStbl(traks[i].stbl) = 1..Len(plans[k].samples)
    /\ \A x \in 1..Len(sl) : sl[x].k = k =>
         \A j \in 1..Len(sl[x].samples) :
           ReadStbl(traks[i].stbl)[sl[x].samples[j]].at = DataAt(plans, sl, P, x, j)

LEMMA SlotIsPart ==
  ASSUME NEW plans, Planned(plans), NEW n, NEW sl, NEW G, Seated(plans, sl, G, n),
         NEW x \in 1..Len(sl), NEW k, k = sl[x].k, NEW g, g = G[x]
  PROVE  /\ k \in DOMAIN plans /\ SamplesIn(plans, k, g) # {}
         /\ sl[x].samples = PartOf(plans, k, g)
         /\ SlotSamples(plans, sl, x) = PartSamples(plans, k, g)
         /\ SlotStarts(plans, sl, x) = SegmentStarts(plans, k, g)
<1>1. k \in DOMAIN plans /\ SamplesIn(plans, k, g) # {} /\ sl[x].samples = PartOf(plans, k, g)
  BY DEF Seated
<1>2. SlotSamples(plans, sl, x) = PartSamples(plans, k, g)
  BY <1>1 DEF SlotSamples, PartSamples
<1> QED
  BY <1>1, <1>2 DEF SlotStarts, SegmentStarts

LEMMA SlotsLaid ==
  ASSUME NEW plans, Planned(plans), NEW n, NEW sl, NEW G, Seated(plans, sl, G, n),
         NEW payload, NEW m, NEW P, Placed(P, plans, sl, G, payload, m)
  PROVE  Laid(plans, sl, P)
<1>1. /\ m \in Nat /\ Len(sl) = m
      /\ \A x \in 1..m : P[x] \in Nat
      /\ \A x, y \in 1..m : y = x + 1 => P[y] = P[x] + SegmentIndexOf(plans, sl[x].k, G[x]).bytes
  BY DEF Placed
<1> SUFFICES ASSUME NEW x \in 1..Len(sl)
             PROVE  /\ P[x] \in Nat
                    /\ Begun(SlotStarts(plans, sl, x), SlotSamples(plans, sl, x), Len(sl[x].samples),
                             PrefixLen[plans[sl[x].k].track])
                    /\ \A y \in 1..Len(sl) :
                         y = x + 1 => P[y] = P[x] + SlotStarts(plans, sl, x)[Len(sl[x].samples) + 1]
  BY DEF Laid
<1>2. PICK k, g, s, st, z : /\ k = sl[x].k /\ g = G[x] /\ s = sl[x].samples
                            /\ st = SlotStarts(plans, sl, x) /\ z = SegmentIndexOf(plans, k, g)
  OBVIOUS
<1>3. /\ k \in DOMAIN plans /\ SamplesIn(plans, k, g) # {} /\ s = PartOf(plans, k, g)
      /\ SlotSamples(plans, sl, x) = PartSamples(plans, k, g)
      /\ st = SegmentStarts(plans, k, g)
  BY <1>2, SlotIsPart
<1>4. /\ Begun(st, PartSamples(plans, k, g), Len(s), PrefixLen[plans[k].track])
      /\ z.bytes = st[Len(s) + 1]
  BY <1>2, <1>3, SegmentIs
<1>5. \A y \in 1..Len(sl) : y = x + 1 => P[y] = P[x] + z.bytes
  BY <1>1, <1>2
<1> QED
  BY <1>1, <1>2, <1>3, <1>4, <1>5

LEMMA TraksAimed ==
  ASSUME NEW plans, Planned(plans), NEW n \in Nat \ {0}, GopsCut(plans, n),
         NEW metas, Measured(plans, metas, n), NEW payload \in Nat,
         NEW sl, NEW G, Seated(plans, sl, G, n),
         NEW P, P = [x \in 1..Len(sl) |-> PlaceOf(metas, payload, G[x], plans[sl[x].k].track)],
         NEW traks, Pointed(traks, plans, metas, payload)
  PROVE  Aimed(traks, plans, sl, P)
<1> SUFFICES ASSUME NEW i \in DOMAIN traks
             PROVE  \E k \in DOMAIN plans :
                      /\ traks[i].track = plans[k].track
                      /\ Len(ReadStbl(traks[i].stbl)) = Len(plans[k].samples)
                      /\ DOMAIN ReadStbl(traks[i].stbl) = 1..Len(plans[k].samples)
                      /\ \A x \in 1..Len(sl) : sl[x].k = k =>
                           \A j \in 1..Len(sl[x].samples) :
                             ReadStbl(traks[i].stbl)[sl[x].samples[j]].at = DataAt(plans, sl, P, x, j)
  BY DEF Aimed
<1>1. PICK read : read = ReadStbl(traks[i].stbl)
  OBVIOUS
<1>2. PICK k \in DOMAIN plans :
        /\ traks[i].track = plans[k].track
        /\ Len(read) = Len(plans[k].samples) /\ DOMAIN read = 1..Len(plans[k].samples)
        /\ \A j \in 1..Len(plans[k].samples) : read[j].at = Co64(metas, plans[k].track, payload)[j]
  BY <1>1 DEF Pointed
<1>3. PICK e : e = Co64(metas, plans[k].track, payload)
  OBVIOUS
<1>4. EntriesUpTo(plans, k, metas, payload, n, e)
  BY <1>3, EntriesAre
<1>5. Len(e) = Len(plans[k].samples)
  BY <1>4, EntriesOfAll
<1>6. ASSUME NEW x \in 1..Len(sl), sl[x].k = k, NEW j \in 1..Len(sl[x].samples)
      PROVE  read[sl[x].samples[j]].at = DataAt(plans, sl, P, x, j)
  <2>1. PICK g, s, st, z, a : /\ g = G[x] /\ s = sl[x].samples /\ st = SlotStarts(plans, sl, x)
                              /\ z = SegmentIndexOf(plans, k, g) /\ a = s[j]
    OBVIOUS
  <2>2. /\ SamplesIn(plans, k, g) # {} /\ s = PartOf(plans, k, g)
        /\ st = SegmentStarts(plans, k, g)
    BY <1>6, <2>1, SlotIsPart
  <2>3. g \in 1..n
    BY <2>1 DEF Seated
  <2>4. a \in 1..Len(e) /\ e[a] = PlaceOf(metas, payload, g, plans[k].track) + z.offs[j]
    <3>1. \A l \in 1..Len(s) :
            /\ s[l] \in 1..Len(e)
            /\ e[s[l]] = PlaceOf(metas, payload, g, plans[k].track) + z.offs[l]
      BY <1>4, <2>1, <2>2, <2>3 DEF EntriesUpTo
    <3> QED
      BY <2>1, <3>1
  <2>5. PICK c : c = MoofLen[plans[k].samples[a].cts # 0]
    OBVIOUS
  <2>6. z.offs[j] = st[j] + c + MdatHeader
    <3>1. \A l \in 1..Len(s) : z.offs[l] = st[l] + MoofLen[plans[k].samples[s[l]].cts # 0] + MdatHeader
      BY <2>1, <2>2, SegmentIs
    <3> QED
      BY <2>1, <2>5, <3>1
  <2>7. P[x] = PlaceOf(metas, payload, g, plans[k].track)
    BY <1>6, <2>1
  <2>8. PICK pl \in Nat : pl = PlaceOf(metas, payload, g, plans[k].track)
    BY <2>3, PlaceIsNat
  <2>9. PICK b \in Nat : b = st[j]
    <3>1. Begun(st, PartSamples(plans, k, g), Len(s), PrefixLen[plans[k].track]) /\ Len(s) \in Nat
      BY <2>2, SegmentIs, PartIs
    <3>2. j \in 1..(Len(s) + 1)
      BY <2>1, <3>1
    <3> QED
      BY <3>1, <3>2 DEF Begun
  <2>10. PICK d \in Nat : d = c
    <3>1. PICK q \in BOOLEAN : q = (plans[k].samples[a].cts # 0)
      OBVIOUS
    <3>2. MoofLen[q] \in Nat
      BY LengthAssumption
    <3> QED
      BY <2>5, <3>1, <3>2
  <2>11. pl + (b + d + MdatHeader) = pl + b + d + MdatHeader
    BY DEF MdatHeader
  <2>12. DataAt(plans, sl, P, x, j) = pl + b + d + MdatHeader
    BY <1>6, <2>1, <2>5, <2>7, <2>8, <2>9, <2>10 DEF DataAt
  <2>13. e[a] = pl + (b + d + MdatHeader)
    BY <2>4, <2>6, <2>8, <2>9, <2>10
  <2>14. read[a].at = e[a]
    BY <1>2, <1>3, <1>5, <2>4
  <2> QED
    BY <2>1, <2>11, <2>12, <2>13, <2>14
<1> QED
  BY <1>1, <1>2, <1>6

\* The segments end before the envelope does, or with it.
Within(plans, sl, P, end) ==
  \A x \in 1..Len(sl) : P[x] + SlotStarts(plans, sl, x)[Len(sl[x].samples) + 1] <= end

LEMMA SlotsWithin ==
  ASSUME NEW plans, Planned(plans), NEW n, NEW metas, Measured(plans, metas, n),
         NEW payload \in Nat, NEW sl, NEW G, Slotted(plans, sl, G), Seated(plans, sl, G, n),
         NEW m, m = Len(sl),
         NEW P, P = [x \in 1..m |-> PlaceOf(metas, payload, G[x], plans[sl[x].k].track)]
  PROVE  BodyOf(metas) \in Nat /\ Within(plans, sl, P, payload + BodyOf(metas))
<1>1. PICK b : b = BehindGops(metas, payload)
  OBVIOUS
<1>2. /\ b \in [0..n -> Nat] /\ b[0] = payload
      /\ \A g \in 1..n : b[g] = b[g - 1] + Displaced(metas[g], Held(plans, g))
  BY <1>1, BehindGopsAre
<1>3. n \in Nat /\ \A g \in 1..n : DOMAIN metas[g].bytes = Held(plans, g)
  BY DEF Measured
<1>4. Behind(b, plans, metas, n)
  BY <1>2, <1>3 DEF Behind
<1>5. ASSUME NEW g \in 1..n
      PROVE  Weighted(metas[g], Held(plans, g)) /\ Displaced(metas[g], Held(plans, g)) \in Nat
  <2>1. Weighted(metas[g], Held(plans, g))
    BY HeldIsWeighted
  <2> QED
    BY <2>1, DisplacedIsNat
<1>6. PICK body : body = BodyOf(metas)
  OBVIOUS
<1>7. body \in Nat /\ b[n] = payload + body
  BY <1>2, <1>4, <1>5, <1>6, BodyIs
<1>8. ASSUME NEW x \in 1..m
      PROVE  P[x] + SlotStarts(plans, sl, x)[Len(sl[x].samples) + 1] <= payload + body
  <2>1. PICK k, g, s, st, z : /\ k = sl[x].k /\ g = G[x] /\ s = sl[x].samples
                              /\ st = SlotStarts(plans, sl, x) /\ z = st[Len(s) + 1]
    OBVIOUS
  <2>2. /\ k \in DOMAIN plans /\ SamplesIn(plans, k, g) # {} /\ s = PartOf(plans, k, g)
        /\ st = SegmentStarts(plans, k, g)
    <3>1. x \in 1..Len(sl) /\ k = sl[x].k /\ g = G[x]
      BY <2>1
    <3>2. /\ k \in DOMAIN plans /\ SamplesIn(plans, k, g) # {}
          /\ sl[x].samples = PartOf(plans, k, g)
          /\ SlotStarts(plans, sl, x) = SegmentStarts(plans, k, g)
      BY <3>1, SlotIsPart
    <3> QED
      BY <2>1, <3>2
  <2>3. z = SegmentIndexOf(plans, k, g).bytes /\ z \in Nat
    BY <2>1, <2>2, SegmentIs
  <2>4. g \in 1..n
    BY <2>1 DEF Seated
  <2>5. PICK id, T, S, meta : /\ id = plans[k].track /\ T = Held(plans, g)
                              /\ S = {t \in T : t < id} /\ meta = metas[g]
    OBVIOUS
  <2>6. id \in T /\ meta.bytes[id] = z
    <3>1. id \in T
      BY <2>2, <2>5 DEF Held
    <3>2. meta.bytes[id] = SegmentIndexOf(plans, k, g).bytes
      BY <2>2, <2>4, <2>5 DEF Measured
    <3> QED
      BY <2>3, <3>1, <3>2
  <2>7. T \in SUBSET Nat
    <3>1. \A l \in DOMAIN plans : plans[l].track \in Track
      BY PlanFields DEF Planned
    <3>2. T \in SUBSET Track
      BY <2>5, <3>1 DEF Held
    <3> QED
      BY <3>2, TrackAssumption
  <2>8. Weighted(meta, T) /\ Displaced(meta, T) \in Nat
    BY <1>5, <2>4, <2>5
  <2>9. PICK d, e : d = Displaced(meta, S) /\ e = Displaced(meta, T)
    OBVIOUS
  <2>10. d + z <= e
    <3>1. Displaced(meta, S) + meta.bytes[id] <= Displaced(meta, T)
      BY <2>5, <2>6, <2>7, <2>8, DisplacedWithin
    <3> QED
      BY <2>6, <2>9, <3>1
  <2>11. P[x] = b[g - 1] + d
    <3>1. DOMAIN meta.bytes = T
      BY <1>3, <2>4, <2>5
    <3>2. PlaceOf(metas, payload, g, id) = b[g - 1] + d
      BY <1>1, <2>5, <2>9, <3>1 DEF PlaceOf
    <3> QED
      BY <2>1, <2>5, <3>2
  <2>12. d \in Nat /\ e \in Nat
    <3>1. S \in SUBSET Held(plans, g)
      BY <2>5
    <3>2. Weighted(meta, S)
      BY <2>4, <2>5, <3>1, HeldIsWeighted
    <3> QED
      BY <2>8, <2>9, <3>2, DisplacedIsNat
  <2>13. b[g] = b[g - 1] + e /\ b[g - 1] \in Nat /\ b[g] \in Nat
    BY <1>2, <1>3, <2>4, <2>5, <2>9
  <2>14. b[g] <= b[n]
    <3>1. g \in 0..n
      BY <2>4
    <3> QED
      BY <1>4, <1>5, <3>1, BehindGrows
  <2> QED
    BY <1>7, <2>1, <2>3, <2>10, <2>11, <2>12, <2>13, <2>14
<1> QED
  BY <1>6, <1>7, <1>8 DEF Within

\* The place of the first segment is the end of the header.
Begins(file, sl, P) == 1 <= Len(sl) => file.size = P[1]

LEMMA HeaderAims ==
  ASSUME NEW catalog, NEW plans, Planned(plans),
         NEW header, header = SynthHeader(catalog, PlanBody(plans)), header.ok,
         NEW sl, sl = SlotsOf(plans), NEW file, file = HeaderFile(header)
  PROVE  \E P, end : /\ Declared(file, header.moov) /\ Begins(file, sl, P)
                     /\ Laid(plans, sl, P) /\ Aimed(header.moov.traks, plans, sl, P)
                     /\ Sealed(file, end) /\ Within(plans, sl, P, end)
<1>1. PICK metas, payload, m : /\ metas = PlanBody(plans) /\ payload = PayloadOf(catalog, metas)
                               /\ m = Len(sl)
  OBVIOUS
<1>2. plans # <<>>
  BY NoPlansNoHeader
<1>3. PICK n \in Nat \ {0} : GopStarts(plans) \in [1..n -> Nat]
  BY <1>2, GopStartsAre
<1>4. GopsCut(plans, n)
  BY <1>3 DEF GopsCut
<1>5. Measured(plans, metas, n)
  BY <1>1, <1>2, <1>3, MetasAre
<1>6. PICK G : Slotted(plans, sl, G)
  BY SlotsAre
<1>7. Seated(plans, sl, G, n)
  BY <1>4, <1>6, SlotsSeated
<1>8. /\ payload \in Nat /\ file.size = payload /\ Declared(file, header.moov)
      /\ Pointed(header.moov.traks, plans, metas, payload)
      /\ BodyOf(metas) \in Nat => Sealed(file, payload + BodyOf(metas))
  BY <1>1, <1>4, <1>5, HeaderIs
<1>9. PICK P : P = [x \in 1..m |-> PlaceOf(metas, payload, G[x], plans[sl[x].k].track)]
  OBVIOUS
<1>10. Placed(P, plans, sl, G, payload, m)
  BY <1>1, <1>4, <1>5, <1>6, <1>8, <1>9, PlacesAre
<1>11. Laid(plans, sl, P)
  BY <1>7, <1>10, SlotsLaid
<1>12. Aimed(header.moov.traks, plans, sl, P)
  BY <1>1, <1>4, <1>5, <1>7, <1>8, <1>9, TraksAimed
<1>13. Begins(file, sl, P)
  BY <1>1, <1>8, <1>10 DEF Begins, Placed
<1>14. BodyOf(metas) \in Nat /\ Within(plans, sl, P, payload + BodyOf(metas))
  BY <1>1, <1>5, <1>6, <1>7, <1>8, <1>9, SlotsWithin
<1> QED
  BY <1>8, <1>11, <1>12, <1>13, <1>14

-----------------------------------------------------------------------------
(* The samples land where the header says.                                 *)

\* The file ends where the next sample of a slot, or its prefix, is to be.
Reaches(plans, sl, P, x, i, file) ==
  x <= Len(sl) => file.size = P[x] + (IF i = 0 THEN 0 ELSE SlotStarts(plans, sl, x)[i])

\* The samples ahead of a place are where they are to be.
Landed(plans, sl, P, x, i, file) ==
  \A y \in 1..Len(sl) : \A j \in 1..Len(sl[y].samples) : Ahead(y, j, x, i) =>
    PayloadIs(file, DataAt(plans, sl, P, y, j), plans[sl[y].k].samples[sl[y].samples[j]])

LEMMA PayloadKept ==
  ASSUME NEW file, NEW more, Grown(file, more), NEW place, NEW s, PayloadIs(file, place, s)
  PROVE  PayloadIs(more, place, s)
BY DEF Grown, PayloadIs

LEMMA LandedNone ==
  ASSUME NEW plans, NEW sl, Paced(plans, sl), NEW P, NEW file
  PROVE  Landed(plans, sl, P, 1, 0, file)
<1>1. ASSUME NEW y \in 1..Len(sl), NEW j \in 1..Len(sl[y].samples) PROVE ~Ahead(y, j, 1, 0)
  <2>1. Len(sl) \in Nat /\ Len(sl[y].samples) \in Nat
    BY DEF Paced
  <2> QED
    BY <2>1 DEF Ahead
<1> QED
  BY <1>1 DEF Landed

\* The prefix of a segment.
LEMMA PrefixLands ==
  ASSUME NEW plans, NEW sl, Planned(plans), Paced(plans, sl), NEW P, Laid(plans, sl, P),
         NEW x \in 1..Len(sl), NEW file, Headed(file), NEW moov, Declared(file, moov),
         Reaches(plans, sl, P, x, 0, file), Landed(plans, sl, P, x, 0, file),
         NEW a, a.kind = "muxl", a.hlen = 8, a.len = PrefixLen[plans[sl[x].k].track],
         NEW end, Sealed(file, end), NEW more, more = AddAtom(file, a)
  PROVE  /\ Declared(more, moov) /\ Sealed(more, end)
         /\ Reaches(plans, sl, P, x, 1, more) /\ Landed(plans, sl, P, x, 1, more)
<1>1. PICK k, id : k = sl[x].k /\ id = plans[k].track
  OBVIOUS
<1>2. Len(sl) \in Nat /\ k \in DOMAIN plans /\ Len(sl[x].samples) \in Nat \ {0}
  BY <1>1 DEF Paced
<1>3. id \in Track
  <2>1. plans[k] \in TrackPlan
    BY <1>2 DEF Planned
  <2> QED
    BY <1>1, <2>1, PlanFields
<1>4. a.len \in Nat \ {0}
  BY <1>1, <1>3, LengthAssumption
<1>5. /\ Headed(more) /\ OneMore(file, more, a) /\ Grown(file, more)
      /\ more.size = file.size + a.len
  BY <1>4, AtomAdded
<1>6. Declared(more, moov)
  <2>1. a.kind # "moov"
    OBVIOUS
  <2> QED
    BY <1>5, <2>1, StillDeclared
<1>7. Reaches(plans, sl, P, x, 1, more)
  <2>1. file.size = P[x] + 0 /\ P[x] \in Nat
    <3>1. x <= Len(sl)
      BY <1>2
    <3> QED
      BY <3>1 DEF Reaches, Laid
  <2>2. SlotStarts(plans, sl, x)[1] = a.len
    BY <1>1 DEF Laid, Begun
  <2>3. more.size = P[x] + SlotStarts(plans, sl, x)[1]
    BY <1>4, <1>5, <2>1, <2>2
  <2> QED
    BY <2>3 DEF Reaches
<1>8. ASSUME NEW y \in 1..Len(sl), NEW j \in 1..Len(sl[y].samples), Ahead(y, j, x, 1)
      PROVE  PayloadIs(more, DataAt(plans, sl, P, y, j), plans[sl[y].k].samples[sl[y].samples[j]])
  <2>1. Len(sl[y].samples) \in Nat
    BY DEF Paced
  <2>2. Ahead(y, j, x, 0)
    BY <1>2, <1>8, <2>1 DEF Ahead
  <2>3. PayloadIs(file, DataAt(plans, sl, P, y, j), plans[sl[y].k].samples[sl[y].samples[j]])
    BY <2>2 DEF Landed
  <2> QED
    BY <1>5, <2>3, PayloadKept
<1>9. Sealed(more, end)
  <2>1. a.hlen \in Nat
    OBVIOUS
  <2> QED
    BY <1>4, <2>1, StillSealed
<1> QED
  BY <1>6, <1>7, <1>8, <1>9 DEF Landed

\* The moof and the mdat of a sample.
Minted(a, b, s) ==
  /\ a.kind = "moof" /\ a.hlen = 8 /\ a.len = MoofLen[s.cts # 0]
  /\ b.kind = "mdat" /\ b.hlen = 8 /\ b.len = MdatHeader + s.size /\ b.body = [data |-> s.at]

\* The next place in the order of writing.
Onward(sl, x, i, x2, i2) ==
  IF i < Len(sl[x].samples) THEN x2 = x /\ i2 = i + 1 ELSE x2 = x + 1 /\ i2 = 0

LEMMA SampleLands ==
  ASSUME NEW plans, NEW sl, Planned(plans), Paced(plans, sl), NEW P, Laid(plans, sl, P),
         NEW x \in 1..Len(sl), NEW i \in 1..Len(sl[x].samples), NEW x2, NEW i2, Onward(sl, x, i, x2, i2),
         NEW file, Headed(file), NEW moov, Declared(file, moov),
         Reaches(plans, sl, P, x, i, file), Landed(plans, sl, P, x, i, file),
         NEW s, s = plans[sl[x].k].samples[sl[x].samples[i]],
         NEW a, NEW b, Minted(a, b, s), NEW end, Sealed(file, end),
         NEW more, more = AddAtom(AddAtom(file, a), b)
  PROVE  /\ Declared(more, moov) /\ Sealed(more, end)
         /\ Reaches(plans, sl, P, x2, i2, more) /\ Landed(plans, sl, P, x2, i2, more)
<1>1. PICK k, n, st : k = sl[x].k /\ n = Len(sl[x].samples) /\ st = SlotStarts(plans, sl, x)
  OBVIOUS
<1>2. /\ Len(sl) \in Nat /\ k \in DOMAIN plans /\ n \in Nat \ {0}
      /\ sl[x].samples[i] \in 1..Len(plans[k].samples)
  BY <1>1 DEF Paced
<1>3. s.size \in Nat
  <2>1. plans[k] \in TrackPlan
    BY <1>2 DEF Planned
  <2>2. \A j \in 1..Len(plans[k].samples) : plans[k].samples[j].size \in Nat
    BY <2>1, PlanFields
  <2> QED
    BY <1>1, <1>2, <2>2
<1>4. PICK c, z : c = a.len /\ z = s.size
  OBVIOUS
<1>5. c = MoofLen[s.cts # 0]
  BY <1>4 DEF Minted
<1>6. c \in Nat \ {0} /\ z \in Nat
  <2>1. PICK q \in BOOLEAN : q = (s.cts # 0)
    OBVIOUS
  <2>2. MoofLen[q] \in Nat \ {0}
    BY LengthAssumption
  <2> QED
    BY <1>3, <1>4, <1>5, <2>1, <2>2
<1>7. b.len = MdatHeader + z /\ b.len \in Nat \ {0} /\ b.kind = "mdat" /\ a.kind = "moof"
      /\ b.body = [data |-> s.at]
  <2>1. /\ b.len = MdatHeader + z /\ b.kind = "mdat" /\ a.kind = "moof"
        /\ b.body = [data |-> s.at]
    BY <1>4 DEF Minted
  <2>2. MdatHeader + z \in Nat \ {0}
    BY <1>6 DEF MdatHeader
  <2> QED
    BY <2>1, <2>2
<1>8. PICK f : f = AddAtom(file, a)
  OBVIOUS
<1>9. Headed(f) /\ OneMore(file, f, a) /\ Grown(file, f) /\ f.size = file.size + c
  BY <1>4, <1>6, <1>8, AtomAdded
<1>10. Headed(more) /\ OneMore(f, more, b) /\ Grown(f, more) /\ more.size = f.size + b.len
  BY <1>7, <1>8, <1>9, AtomAdded
<1>11. Grown(file, more)
  BY <1>9, <1>10 DEF Grown
<1>12. Declared(more, moov)
  <2>1. a.kind # "moov" /\ b.kind # "moov"
    BY <1>7
  <2>2. Declared(f, moov)
    BY <1>9, <2>1, StillDeclared
  <2> QED
    BY <1>9, <1>10, <2>1, <2>2, StillDeclared
<1>13. /\ P[x] \in Nat /\ st \in [1..(n + 1) -> Nat]
       /\ \A j \in 1..n : st[j + 1] = st[j] + Stretch(SlotSamples(plans, sl, x)[j])
       /\ \A y \in 1..Len(sl) : y = x + 1 => P[y] = P[x] + st[n + 1]
  BY <1>1 DEF Laid, Begun
<1>14. PICK p, t : p = P[x] /\ t = st[i]
  OBVIOUS
<1>15. p \in Nat /\ t \in Nat
  <2>1. i \in 1..(n + 1)
    BY <1>1, <1>2
  <2> QED
    BY <1>13, <1>14, <2>1
<1>16. file.size = p + t
  <2>1. x <= Len(sl) /\ i # 0
    BY <1>2
  <2> QED
    BY <1>1, <1>14, <2>1 DEF Reaches
<1>17. st[i + 1] = t + (c + 8 + z)
  <2>1. SlotSamples(plans, sl, x)[i] = s
    BY <1>1 DEF SlotSamples
  <2>2. st[i + 1] = t + Stretch(s)
    BY <1>1, <1>13, <1>14, <2>1
  <2>3. Stretch(s) = c + 8 + z
    <3>1. Stretch(s) = c + MdatHeader + z
      BY <1>4, <1>5 DEF Stretch
    <3> QED
      BY <3>1 DEF MdatHeader
  <2>4. PICK w : w = Stretch(s)
    OBVIOUS
  <2>5. st[i + 1] = t + w /\ w = c + 8 + z
    BY <2>2, <2>3, <2>4
  <2> QED
    BY <2>5
<1>18. more.size = p + st[i + 1]
  BY <1>6, <1>7, <1>9, <1>10, <1>15, <1>16, <1>17 DEF MdatHeader
<1>19. Reaches(plans, sl, P, x2, i2, more)
  <2>1. CASE i < n
    <3>1. x2 = x /\ i2 = i + 1 /\ i2 # 0
      BY <1>1, <1>2, <2>1 DEF Onward
    <3> QED
      BY <1>1, <1>14, <1>18, <3>1 DEF Reaches
  <2>2. CASE ~(i < n)
    <3>1. x2 = x + 1 /\ i2 = 0 /\ i = n
      BY <1>1, <1>2, <2>2 DEF Onward
    <3>2. ASSUME x2 <= Len(sl) PROVE more.size = P[x2] + 0
      <4>1. x2 \in 1..Len(sl)
        BY <1>2, <3>1, <3>2
      <4>2. P[x2] = p + st[i + 1]
        <5>1. P[x2] = P[x] + st[n + 1]
          BY <1>13, <3>1, <4>1
        <5>2. st[n + 1] = st[i + 1]
          BY <3>1
        <5> QED
          BY <1>14, <5>1, <5>2
      <4>3. p + st[i + 1] \in Nat
        BY <1>6, <1>15, <1>17
      <4> QED
        BY <1>18, <4>2, <4>3
    <3> QED
      BY <3>1, <3>2 DEF Reaches
  <2> QED
    BY <2>1, <2>2
<1>20. PayloadIs(more, DataAt(plans, sl, P, x, i), s)
  <2>1. PICK place, q : place = DataAt(plans, sl, P, x, i) /\ q = f.size
    OBVIOUS
  <2>2. place = p + t + c + 8
    <3>1. place = P[x] + st[i] + MoofLen[s.cts # 0] + MdatHeader
      BY <1>1, <2>1 DEF DataAt
    <3>2. place = p + t + c + MdatHeader
      BY <1>5, <1>14, <3>1
    <3> QED
      BY <3>2 DEF MdatHeader
  <2>3. place - MdatHeader = q
    BY <1>6, <1>9, <1>15, <1>16, <2>1, <2>2 DEF MdatHeader
  <2>4. q \in DOMAIN more.head /\ more.head[q] = b
    BY <1>10, <2>1 DEF OneMore
  <2>5. b.len = MdatHeader + s.size
    BY <1>4, <1>7
  <2> QED
    BY <1>7, <2>1, <2>3, <2>4, <2>5 DEF PayloadIs
<1>21. ASSUME NEW y \in 1..Len(sl), NEW j \in 1..Len(sl[y].samples), Ahead(y, j, x2, i2)
      PROVE  PayloadIs(more, DataAt(plans, sl, P, y, j), plans[sl[y].k].samples[sl[y].samples[j]])
  <2>1. Len(sl[y].samples) \in Nat
    BY DEF Paced
  <2>2. CASE y = x /\ j = i
    BY <1>20, <2>2
  <2>3. CASE ~(y = x /\ j = i)
    <3>1. Ahead(y, j, x, i)
      <4>1. CASE i < n
        <5>1. x2 = x /\ i2 = i + 1
          BY <1>1, <4>1 DEF Onward
        <5> QED
          BY <1>1, <1>2, <1>21, <2>1, <2>3, <5>1 DEF Ahead
      <4>2. CASE ~(i < n)
        <5>1. x2 = x + 1 /\ i2 = 0 /\ i = n
          BY <1>1, <1>2, <4>2 DEF Onward
        <5> QED
          BY <1>1, <1>2, <1>21, <2>1, <2>3, <5>1 DEF Ahead
      <4> QED
        BY <4>1, <4>2
    <3>2. PayloadIs(file, DataAt(plans, sl, P, y, j), plans[sl[y].k].samples[sl[y].samples[j]])
      BY <3>1 DEF Landed
    <3> QED
      BY <1>11, <3>2, PayloadKept
  <2> QED
    BY <2>2, <2>3
<1>22. Sealed(more, end)
  <2>1. a.hlen \in Nat /\ b.hlen \in Nat
    BY DEF Minted
  <2>2. a.len \in Nat \ {0} /\ b.len \in Nat \ {0}
    BY <1>4, <1>6, <1>7
  <2>3. Sealed(f, end)
    BY <1>8, <2>1, <2>2, StillSealed
  <2> QED
    BY <1>8, <2>1, <2>2, <2>3, StillSealed
<1> QED
  BY <1>12, <1>19, <1>21, <1>22 DEF Landed

\* While a segment lacks a sample the file ends before its envelope does.
LEMMA NotFilled ==
  ASSUME NEW plans, NEW sl, Planned(plans), Paced(plans, sl), NEW P, Laid(plans, sl, P),
         NEW end \in Nat, Within(plans, sl, P, end),
         NEW x \in 1..Len(sl), NEW i \in 0..Len(sl[x].samples),
         NEW file, Reaches(plans, sl, P, x, i, file)
  PROVE  file.size < end
<1>1. PICK k, n, st, p : /\ k = sl[x].k /\ n = Len(sl[x].samples) /\ st = SlotStarts(plans, sl, x)
                         /\ p = P[x]
  OBVIOUS
<1>2. /\ Len(sl) \in Nat /\ k \in DOMAIN plans /\ n \in Nat \ {0}
      /\ \A j \in 1..n : sl[x].samples[j] \in 1..Len(plans[k].samples)
  BY <1>1 DEF Paced
<1>3. \A j \in 1..Len(plans[k].samples) : plans[k].samples[j].size \in Nat
  <2>1. plans[k] \in TrackPlan
    BY <1>2 DEF Planned
  <2> QED
    BY <2>1, PlanFields
<1>4. PICK s : s = SlotSamples(plans, sl, x)
  OBVIOUS
<1>5. /\ p \in Nat /\ st \in [1..(n + 1) -> Nat]
      /\ \A j \in 1..n : st[j + 1] = st[j] + Stretch(s[j])
  BY <1>1, <1>4 DEF Laid, Begun
<1>6. ASSUME NEW j \in 1..n PROVE st[j + 1] > st[j]
  <2>1. PICK y : y = plans[k].samples[sl[x].samples[j]]
    OBVIOUS
  <2>2. j \in DOMAIN sl[x].samples
    BY <1>1, <1>2 DEF Paced
  <2>3. s[j] = y
    BY <1>1, <1>4, <2>1, <2>2 DEF SlotSamples
  <2>4. y.size \in Nat
    BY <1>2, <1>3, <2>1
  <2>5. PICK c \in Nat : c = MoofLen[y.cts # 0]
    <3>1. PICK q \in BOOLEAN : q = (y.cts # 0)
      OBVIOUS
    <3>2. MoofLen[q] \in Nat
      BY LengthAssumption
    <3> QED
      BY <3>1, <3>2
  <2>6. PICK w \in Nat \ {0} : w = Stretch(y)
    <3>1. Stretch(y) = c + MdatHeader + y.size
      BY <2>5 DEF Stretch
    <3>2. Stretch(y) \in Nat \ {0}
      BY <2>4, <3>1 DEF MdatHeader
    <3> QED
      BY <3>2
  <2>7. st[j + 1] = st[j] + w /\ st[j] \in Nat
    BY <1>2, <1>5, <2>3, <2>6
  <2> QED
    BY <2>7
<1>7. PICK c : c = IF i = 0 THEN 1 ELSE i
  OBVIOUS
<1>8. c \in 1..n /\ (i # 0 => c = i)
  BY <1>1, <1>2, <1>7
<1>9. PICK lo, hi : lo = c + 1 /\ hi = n + 1
  OBVIOUS
<1>10. PICK nx : nx = lo + 1
  OBVIOUS
<1>11. PICK A : A = {y \in Nat : st[c] < y}
  OBVIOUS
<1>12. lo \in Nat /\ hi \in Nat /\ hi \in lo..hi /\ c \in 1..(n + 1)
  BY <1>2, <1>8, <1>9
<1>13. st[lo] \in A
  <2>1. st[c + 1] > st[c] /\ st[c + 1] \in Nat /\ st[c] \in Nat
    BY <1>2, <1>5, <1>6, <1>8
  <2> QED
    BY <1>9, <1>11, <2>1
<1>14. ASSUME NEW j \in nx..hi, st[j - 1] \in A PROVE st[j] \in A
  <2>1. PICK l : l = j - 1
    OBVIOUS
  <2>2. l \in 1..n /\ j = l + 1 /\ j \in 1..(n + 1) /\ l \in 1..(n + 1)
    BY <1>2, <1>8, <1>9, <1>10, <2>1
  <2>3. st[l] \in Nat /\ st[c] < st[l]
    BY <1>11, <1>14, <2>1
  <2>4. st[l + 1] > st[l] /\ st[l + 1] \in Nat /\ st[c] \in Nat
    BY <1>5, <1>6, <1>12, <2>2
  <2> QED
    BY <1>11, <2>2, <2>3, <2>4
<1>15. st[hi] \in A
  <2>1. \A j \in lo..hi : st[j] \in A
    BY <1>10, <1>12, <1>13, <1>14, PrefixInduction
  <2> QED
    BY <1>12, <2>1
<1>16. st[c] < st[n + 1] /\ st[n + 1] \in Nat /\ st[c] \in Nat
  BY <1>5, <1>9, <1>11, <1>12, <1>15
<1>17. p + st[n + 1] <= end
  BY <1>1 DEF Within
<1>18. file.size = p + (IF i = 0 THEN 0 ELSE st[i])
  <2>1. x <= Len(sl)
    BY <1>2
  <2> QED
    BY <1>1, <2>1 DEF Reaches
<1>19. PICK t : t = IF i = 0 THEN 0 ELSE st[i]
  OBVIOUS
<1>20. t \in Nat /\ t <= st[c]
  BY <1>8, <1>16, <1>19
<1> QED
  BY <1>5, <1>16, <1>17, <1>18, <1>19, <1>20

-----------------------------------------------------------------------------
(* The second invariant: the file so far agrees with its header.           *)

\* There are places for the segments, inside the envelope, at which the moov
\* aims; the samples that are written lie at theirs, and the file ends where the
\* next one is to be.
OutAimed(plans, sl, x, i, file) ==
  \E P, moov, end :
    /\ Declared(file, moov) /\ Laid(plans, sl, P) /\ Aimed(moov.traks, plans, sl, P)
    /\ Sealed(file, end) /\ Within(plans, sl, P, end)
    /\ Reaches(plans, sl, P, x, i, file) /\ Landed(plans, sl, P, x, i, file)

AInv ==
  /\ CInv
  /\ job.form = "flat" /\ (pc \in {"body", "done"} \/ out # EmptyFile) =>
       OutAimed(source.plans, slots, at.slot, at.sample, out)

LEMMA WriteHeaderAims ==
  ASSUME CInv, WriteHeader, job.form = "flat"
  PROVE  OutAimed(source.plans, slots, at.slot, at.sample, out)'
<1>1. /\ pc = "header" /\ source' = source /\ at' = at /\ HeaderOf.ok
      /\ out' = HeaderFile(HeaderOf) /\ slots' = SlotsOf(source.plans)
  BY DEF WriteHeader, StartBody
<1>2. Planned(source.plans) /\ at = [slot |-> 1, sample |-> 0]
  BY <1>1 DEF CInv, Planning, InBody
<1>3. PICK plans, sl, file, header :
        plans = source.plans /\ sl = slots' /\ file = out' /\ header = HeaderOf
  OBVIOUS
<1>4. header = SynthHeader(source.catalog, PlanBody(plans))
  BY <1>3 DEF HeaderOf
<1>5. PICK P, end : /\ Declared(file, header.moov) /\ Begins(file, sl, P)
                    /\ Laid(plans, sl, P) /\ Aimed(header.moov.traks, plans, sl, P)
                    /\ Sealed(file, end) /\ Within(plans, sl, P, end)
  BY <1>1, <1>2, <1>3, <1>4, HeaderAims
<1>6. Paced(plans, sl)
  BY <1>1, <1>2, <1>3, SlotsPaced
<1>7. Landed(plans, sl, P, 1, 0, file)
  BY <1>6, LandedNone
<1>8. Reaches(plans, sl, P, 1, 0, file)
  <2>1. Len(sl) \in Nat
    BY <1>6 DEF Paced
  <2> SUFFICES ASSUME 1 <= Len(sl) PROVE file.size = P[1] + 0
    BY DEF Reaches
  <2>2. P[1] \in Nat
    BY <1>5, <2>1 DEF Laid
  <2>3. file.size = P[1]
    BY <1>5 DEF Begins
  <2> QED
    BY <2>2, <2>3
<1>9. OutAimed(plans, sl, 1, 0, file)
  BY <1>5, <1>7, <1>8 DEF OutAimed
<1>10. at'.slot = 1 /\ at'.sample = 0
  BY <1>1, <1>2
<1> QED
  BY <1>1, <1>3, <1>9, <1>10

LEMMA StartSegmentAims ==
  ASSUME CInv, StartSegment, OutAimed(source.plans, slots, at.slot, at.sample, out)
  PROVE  OutAimed(source.plans, slots, at.slot, at.sample, out)'
<1>1. /\ pc = "body" /\ at.slot <= Len(slots) /\ at.sample = 0
      /\ out' = AddAtom(out, PrefixAtom(source.catalog, ThisPlan.track))
      /\ at' = [at EXCEPT !.sample = 1]
      /\ source' = source /\ slots' = slots
  BY DEF StartSegment, Writing
<1>2. InBody
  BY <1>1 DEF CInv, Planning
<1>3. PICK plans, sl, x, file, more, a :
        /\ plans = source.plans /\ sl = slots /\ x = at.slot /\ file = out /\ more = out'
        /\ a = PrefixAtom(source.catalog, ThisPlan.track)
  OBVIOUS
<1>4. /\ at = [slot |-> x, sample |-> 0]
      /\ x \in 1..(Len(sl) + 1) /\ Len(sl) \in Nat
      /\ Planned(plans) /\ Paced(plans, sl) /\ Headed(file)
  BY <1>1, <1>2, <1>3 DEF InBody, Paced
<1>5. at'.slot = x /\ at'.sample = 1 /\ x \in 1..Len(sl)
  BY <1>1, <1>3, <1>4
<1>6. a.kind = "muxl" /\ a.hlen = 8 /\ a.len = PrefixLen[plans[sl[x].k].track]
  BY <1>3 DEF PrefixAtom, Atom, ThisPlan, Slot
<1>7. PICK P, moov, end :
        /\ Declared(file, moov) /\ Laid(plans, sl, P) /\ Aimed(moov.traks, plans, sl, P)
        /\ Sealed(file, end) /\ Within(plans, sl, P, end)
        /\ Reaches(plans, sl, P, x, 0, file) /\ Landed(plans, sl, P, x, 0, file)
  BY <1>1, <1>3 DEF OutAimed
<1>8. more = AddAtom(file, a)
  BY <1>1, <1>3
<1>9. /\ Declared(more, moov) /\ Sealed(more, end)
      /\ Reaches(plans, sl, P, x, 1, more) /\ Landed(plans, sl, P, x, 1, more)
  BY <1>4, <1>5, <1>6, <1>7, <1>8, PrefixLands
<1>10. OutAimed(plans, sl, x, 1, more)
  BY <1>7, <1>9 DEF OutAimed
<1> QED
  BY <1>1, <1>3, <1>5, <1>10

LEMMA WriteSampleAims ==
  ASSUME CInv, WriteSample, OutAimed(source.plans, slots, at.slot, at.sample, out)
  PROVE  OutAimed(source.plans, slots, at.slot, at.sample, out)'
<1>1. /\ pc = "body" /\ at.slot <= Len(slots) /\ at.sample > 0
      /\ at' = NextPlace(Slot.samples)
      /\ source' = source /\ slots' = slots
  BY DEF WriteSample, Writing
<1>2. InBody
  BY <1>1 DEF CInv, Planning
<1>3. PICK plans, sl, x, i, s, step, f, file, more :
        /\ plans = source.plans /\ sl = slots /\ x = at.slot /\ i = at.sample /\ s = Sample
        /\ step = [track |-> ThisPlan.track, dur |-> s.dur, size |-> s.size,
                   sync |-> s.sync, cts |-> s.cts # 0]
        /\ f = MintFrame(clock, step, <<0, s.at>>)
        /\ file = out /\ more = out'
  OBVIOUS
<1>4. more = AddAtom(AddAtom(file, FragmentAtoms(f, s)[1]), FragmentAtoms(f, s)[2])
  BY <1>3 DEF WriteSample
<1>5. /\ at = [slot |-> x, sample |-> i]
      /\ x \in 1..Len(sl) /\ i \in 1..Len(sl[x].samples)
      /\ Planned(plans) /\ Paced(plans, sl) /\ Headed(file)
  <2>1. /\ at = [slot |-> x, sample |-> i] /\ x \in 1..(Len(sl) + 1)
        /\ Planned(plans) /\ Paced(plans, sl) /\ Headed(file)
        /\ i \in 0..Len(sl[x].samples) /\ i > 0 /\ x <= Len(sl)
    BY <1>1, <1>2, <1>3 DEF InBody
  <2>2. Len(sl) \in Nat
    BY <2>1 DEF Paced
  <2>3. x \in 1..Len(sl)
    BY <2>1, <2>2
  <2>4. Len(sl[x].samples) \in Nat
    BY <2>1, <2>3 DEF Paced
  <2> QED
    BY <2>1, <2>3, <2>4
<1>6. s = plans[sl[x].k].samples[sl[x].samples[i]]
  BY <1>3 DEF Sample, ThisPlan, Slot
<1>7. PICK x2, i2 : at' = [slot |-> x2, sample |-> i2] /\ Onward(sl, x, i, x2, i2)
  <2>1. at' = IF i < Len(sl[x].samples) THEN [at EXCEPT !.sample = @ + 1]
                                        ELSE [slot |-> x + 1, sample |-> 0]
    BY <1>1, <1>3 DEF NextPlace, Slot
  <2>2. [at EXCEPT !.sample = @ + 1] = [slot |-> x, sample |-> i + 1]
    BY <1>5
  <2>3. CASE i < Len(sl[x].samples)
    BY <2>1, <2>2, <2>3 DEF Onward
  <2>4. CASE ~ i < Len(sl[x].samples)
    BY <2>1, <2>4 DEF Onward
  <2> QED
    BY <2>3, <2>4
<1>8. PICK a, b : a = FragmentAtoms(f, s)[1] /\ b = FragmentAtoms(f, s)[2]
  OBVIOUS
<1>9. Minted(a, b, s)
  <2>1. /\ a.kind = "moof" /\ a.hlen = 8 /\ a.len = f.moof
        /\ b.kind = "mdat" /\ b.hlen = 8 /\ b.len = MdatHeader + s.size /\ b.body = [data |-> s.at]
    BY <1>8 DEF FragmentAtoms, Atom
  <2>2. step.cts = (s.cts # 0)
    BY <1>3
  <2>3. f.moof = MoofLen[step.cts]
    BY <1>3 DEF MintFrame
  <2>4. f.moof = MoofLen[s.cts # 0]
    BY <2>2, <2>3
  <2> QED
    BY <2>1, <2>4 DEF Minted
<1>10. PICK P, moov, end :
         /\ Declared(file, moov) /\ Laid(plans, sl, P) /\ Aimed(moov.traks, plans, sl, P)
         /\ Sealed(file, end) /\ Within(plans, sl, P, end)
         /\ Reaches(plans, sl, P, x, i, file) /\ Landed(plans, sl, P, x, i, file)
  BY <1>3 DEF OutAimed
<1>11. more = AddAtom(AddAtom(file, a), b)
  BY <1>4, <1>8
<1>12. /\ Declared(more, moov) /\ Sealed(more, end)
       /\ Reaches(plans, sl, P, x2, i2, more) /\ Landed(plans, sl, P, x2, i2, more)
  BY <1>5, <1>6, <1>7, <1>9, <1>10, <1>11, SampleLands
<1>13. OutAimed(plans, sl, x2, i2, more)
  BY <1>10, <1>12 DEF OutAimed
<1>14. at'.slot = x2 /\ at'.sample = i2
  BY <1>7
<1> QED
  BY <1>1, <1>3, <1>13, <1>14

LEMMA AInvStep == AInv /\ [Next]_vars => AInv'
<1> SUFFICES ASSUME AInv, [Next]_vars, job'.form = "flat",
                    pc' \in {"body", "done"} \/ out' # EmptyFile
             PROVE  OutAimed(source.plans, slots, at.slot, at.sample, out)'
  BY CInvStep DEF AInv
<1>1. CInv
  BY DEF AInv
<1>2. ASSUME UNCHANGED <<job, source, slots, at, out>>,
             pc \in {"body", "done"} \/ out # EmptyFile
      PROVE  OutAimed(source.plans, slots, at.slot, at.sample, out)'
  BY <1>2 DEF AInv
<1>3. ASSUME pc \in {"read", "header"} PROVE out = EmptyFile
  BY <1>3, <1>1 DEF CInv, Planning, InBody
<1>4. CASE Read
  BY <1>3, <1>4 DEF Read
<1>5. CASE ReadFails
  BY <1>3, <1>5 DEF ReadFails, Stop
<1>6. CASE WriteHeader
  <2>1. job' = job
    BY <1>6 DEF WriteHeader, StartBody
  <2> QED
    BY <1>1, <1>6, <2>1, WriteHeaderAims
<1>7. CASE HeaderFails
  BY <1>3, <1>7 DEF HeaderFails, Stop
<1>8. CASE StartSegment
  <2>1. job' = job /\ pc = "body"
    BY <1>8 DEF StartSegment, Writing
  <2>2. OutAimed(source.plans, slots, at.slot, at.sample, out)
    BY <2>1 DEF AInv
  <2> QED
    BY <1>1, <1>8, <2>2, StartSegmentAims
<1>9. CASE WriteSample
  <2>1. job' = job /\ pc = "body"
    BY <1>9 DEF WriteSample, Writing
  <2>2. OutAimed(source.plans, slots, at.slot, at.sample, out)
    BY <2>1 DEF AInv
  <2> QED
    BY <1>1, <1>9, <2>2, WriteSampleAims
<1>10. CASE SampleOutside
  BY <1>2, <1>10 DEF SampleOutside, Stop, Writing
<1>11. CASE Finish
  BY <1>2, <1>11 DEF Finish, Stop
<1>12. CASE FinishFails
  BY <1>2, <1>12 DEF FinishFails, Stop
<1>13. CASE UNCHANGED vars
  BY <1>2, <1>13 DEF vars
<1> QED
  BY <1>4, <1>5, <1>6, <1>7, <1>8, <1>9, <1>10, <1>11, <1>12, <1>13 DEF Next

LEMMA AInvAims == AInv => OffsetsPointAtSamples
<1> SUFFICES ASSUME AInv, pc = "done", job.form = "flat", NEW i \in DOMAIN MoovOf(out).traks
             PROVE  LET trak == MoovOf(out).traks[i]
                        plan == source.plans[CHOOSE k \in DOMAIN source.plans :
                                               source.plans[k].track = trak.track]
                        read == ReadStbl(trak.stbl)
                    IN  /\ Len(read) = Len(plan.samples)
                        /\ \A j \in DOMAIN read : PayloadIs(out, read[j].at, plan.samples[j])
  BY DEF OffsetsPointAtSamples
<1>1. InBody
  BY DEF AInv, CInv, Planning
<1>2. PICK plans, sl, x, file : plans = source.plans /\ sl = slots /\ x = at.slot /\ file = out
  OBVIOUS
<1>3. /\ Planned(plans) /\ Paced(plans, sl) /\ Len(sl) \in Nat
      /\ x \in 1..(Len(sl) + 1) /\ x > Len(sl)
  BY <1>1, <1>2 DEF InBody, Paced
<1>4. PICK P, moov :
        /\ Declared(file, moov) /\ Aimed(moov.traks, plans, sl, P)
        /\ Landed(plans, sl, P, x, at.sample, file)
  BY <1>2 DEF AInv, OutAimed
<1>5. MoovOf(file) = moov
  BY <1>4, DeclaredIs
<1>6. PICK read : read = ReadStbl(moov.traks[i].stbl)
  OBVIOUS
<1>7. PICK k \in DOMAIN plans :
        /\ moov.traks[i].track = plans[k].track
        /\ Len(read) = Len(plans[k].samples) /\ DOMAIN read = 1..Len(plans[k].samples)
        /\ \A y \in 1..Len(sl) : sl[y].k = k =>
             \A j \in 1..Len(sl[y].samples) : read[sl[y].samples[j]].at = DataAt(plans, sl, P, y, j)
  BY <1>2, <1>4, <1>5, <1>6 DEF Aimed
<1>8. PICK c : c = CHOOSE l \in DOMAIN plans : plans[l].track = moov.traks[i].track
  OBVIOUS
<1>9. c = k
  <2>1. c \in DOMAIN plans /\ plans[c].track = plans[k].track
    BY <1>7, <1>8
  <2> QED
    BY <1>3, <2>1, OneOfTrack
<1>10. ASSUME NEW m \in DOMAIN read PROVE PayloadIs(file, read[m].at, plans[k].samples[m])
  <2>1. PICK y \in 1..Len(sl) : \E j \in 1..Len(sl[y].samples) : sl[y].k = k /\ sl[y].samples[j] = m
    BY <1>3, <1>7 DEF Paced
  <2>2. PICK j \in 1..Len(sl[y].samples) : sl[y].k = k /\ sl[y].samples[j] = m
    BY <2>1
  <2>3. Ahead(y, j, x, at.sample)
    <3>1. y < x
      BY <1>3
    <3> QED
      BY <3>1 DEF Ahead
  <2>4. PayloadIs(file, DataAt(plans, sl, P, y, j), plans[sl[y].k].samples[sl[y].samples[j]])
    BY <1>4, <2>3 DEF Landed
  <2>5. read[m].at = DataAt(plans, sl, P, y, j)
    BY <1>7, <2>2
  <2> QED
    BY <2>2, <2>4, <2>5
<1> QED
  BY <1>2, <1>5, <1>6, <1>7, <1>8, <1>9, <1>10

\* flat.rs build_synth_flat_header, plan_canonical_body: for every input and
\* every plan read from it, the co64 tables that the header gets before any
\* sample is written lead to the samples' own bytes in the finished file.
THEOREM OffsetsPoint == Spec => []OffsetsPointAtSamples
<1>1. Init => AInv
  BY CInvInit DEF AInv, Init
<1>2. AInv /\ [Next]_vars => AInv'
  BY AInvStep
<1>3. AInv => OffsetsPointAtSamples
  BY AInvAims
<1> QED
  BY <1>1, <1>2, <1>3, PTL DEF Spec

LEMMA AInvRefuses == AInv => PartialIsRefused
<1> SUFFICES ASSUME AInv, job.form = "flat", out # EmptyFile, at.slot <= Len(slots)
             PROVE  ~Unwrap(out).ok
  BY DEF PartialIsRefused
<1>1. InBody
  <2>1. slots = <<>> /\ at = [slot |-> 1, sample |-> 0] => ~ at.slot <= Len(slots)
    OBVIOUS
  <2> QED
    BY <2>1 DEF AInv, CInv, Planning
<1>2. PICK plans, sl, x, i, file :
        plans = source.plans /\ sl = slots /\ x = at.slot /\ i = at.sample /\ file = out
  OBVIOUS
<1>3. /\ Planned(plans) /\ Paced(plans, sl) /\ Len(sl) \in Nat
      /\ x \in 1..(Len(sl) + 1) /\ x <= Len(sl) /\ i \in 0..Len(sl[x].samples)
  BY <1>1, <1>2 DEF InBody, Paced
<1>4. PICK P, moov, end :
        /\ Laid(plans, sl, P) /\ Sealed(file, end) /\ Within(plans, sl, P, end)
        /\ Reaches(plans, sl, P, x, i, file)
  BY <1>2 DEF AInv, OutAimed
<1>5. end \in Nat
  BY <1>4 DEF Sealed
<1>6. file.size < end
  <2>1. x \in 1..Len(sl)
    BY <1>3
  <2> QED
    BY <1>3, <1>4, <1>5, <2>1, NotFilled
<1> QED
  BY <1>2, <1>4, <1>6, CutIsRefused

\* flat.rs write: for every input, a flat file to which a sample is still to be
\* written ends before the envelope whose length its header gives, and no reader
\* takes it for a shorter recording.
THEOREM PartialRefused == Spec => []PartialIsRefused
<1>1. Init => AInv
  BY CInvInit DEF AInv, Init
<1>2. AInv /\ [Next]_vars => AInv'
  BY AInvStep
<1>3. AInv => PartialIsRefused
  BY AInvRefuses
<1> QED
  BY <1>1, <1>2, <1>3, PTL DEF Spec

-----------------------------------------------------------------------------
(* Where GoPs are cut.                                                    *)

\* A later keyframe is in the list of a video reference.
LEMMA VideoOpener ==
  ASSUME NEW plan \in TrackPlan, NEW s, s = StartsOfVideo(plan),
         NEW j \in 2..Len(plan.samples), plan.samples[j].sync
  PROVE  \E g \in 2..Len(s) : s[g] = j
<1>1. PICK m, S : m = Len(plan.samples) /\ S = {1} \cup {i \in DOMAIN plan.samples : plan.samples[i].sync}
  OBVIOUS
<1>2. m \in Nat /\ DOMAIN plan.samples = 1..m
  BY <1>1, PlanFields
<1>3. S \in SUBSET (1..(m + 1)) /\ 1 \in S /\ j \in S
  BY <1>1, <1>2
<1>4. PICK n : n = Cardinality(S)
  OBVIOUS
<1>5. Sorts(s, n, S)
  <2>1. s = Ascending(S)
    BY <1>1 DEF StartsOfVideo
  <2>2. m + 1 \in Int
    BY <1>2
  <2> QED
    BY <1>3, <1>4, <2>1, <2>2, SortedWithin
<1>6. n \in Nat /\ Len(s) = n
  BY <1>5 DEF Sorts
<1>7. PICK g \in 1..n : s[g] = j
  BY <1>3, <1>5 DEF Sorts
<1>8. PICK h \in 1..n : s[h] = 1
  BY <1>3, <1>5 DEF Sorts
<1>9. g # 1
  <2> SUFFICES ASSUME g = 1 PROVE FALSE
    OBVIOUS
  <2>1. g # h
    BY <1>7, <1>8
  <2>2. g < h
    BY <1>6, <2>1
  <2>3. s[g] < s[h]
    BY <1>5, <2>2 DEF Sorts
  <2> QED
    BY <1>2, <1>7, <1>8, <2>3
<1> QED
  BY <1>6, <1>7, <1>9

\* A sample that opens a GoP is one of the list, and not its first.
LEMMA OpensAtStart ==
  ASSUME NEW plan \in TrackPlan, NEW j \in 1..Len(plan.samples), Opens(plan, j),
         NEW s, s = IF plan.video THEN StartsOfVideo(plan) ELSE StartsOfAudio(plan)
  PROVE  \E g \in 2..Len(s) : s[g] = j
<1>1. PICK dt, n, second : /\ dt = DecodeTimes(plan) /\ n = Len(plan.samples)
                           /\ second = IF plan.scale = 0 THEN 1 ELSE plan.scale
  OBVIOUS
<1>2. n \in Nat /\ j \in 2..n
  <2>1. j > 1
    BY DEF Opens
  <2>2. n \in Nat
    BY <1>1, PlanFields
  <2> QED
    BY <1>1, <2>1, <2>2
<1>3. CASE plan.video
  <2>1. plan.samples[j].sync
    BY <1>3 DEF Opens
  <2> QED
    BY <1>1, <1>2, <1>3, <2>1, VideoOpener
<1>4. CASE ~plan.video
  <2>1. Seconds(plan, dt, second, j) > Seconds(plan, dt, second, j - 1)
    BY <1>1, <1>4 DEF Opens, Seconds
  <2>2. second \in Nat \ {0}
    BY <1>1, AudioIs
  <2>3. PICK f : AudioListed(f, plan, dt, second, n) /\ f[n] = s
    BY <1>1, <1>4, AudioIs
  <2> QED
    BY <1>1, <1>2, <2>1, <2>2, <2>3, AudioOpener
<1> QED
  BY <1>3, <1>4

\* Between two times a GoP ends, if one starts at the later time and none
\* between them.
LEMMA CutOfStarts ==
  ASSUME NEW n \in Nat \ {0}, NEW starts \in [1..n -> Nat], NEW a \in Nat, NEW b \in Nat, a < b,
         NEW h \in 2..n, starts[h] = b, \A g \in 1..n : starts[g] <= a \/ b <= starts[g]
  PROVE  /\ GopOfTime(starts, a) < GopOfTime(starts, b)
         /\ \A t \in Nat : t < b => GopOfTime(starts, t) <= GopOfTime(starts, a)
<1> DEFINE C(x) == {g \in 2..Len(starts) : starts[g] <= x}
<1>1. Len(starts) = n
  OBVIOUS
<1>2. \A x \in Nat : C(x) \in SUBSET (2..n)
  BY <1>1
<1>3. IsFiniteSet(2..n)
  BY FS_Interval
<1>4. C(a) \subseteq C(b) /\ h \in C(b) /\ h \notin C(a)
  BY <1>1
<1>5. \A t \in Nat : t < b => C(t) \subseteq C(a)
  <2> SUFFICES ASSUME NEW t \in Nat, t < b, NEW g \in C(t) PROVE g \in C(a)
    OBVIOUS
  <2>1. g \in 1..n /\ starts[g] \in Nat /\ starts[g] <= t
    BY <1>1
  <2>2. starts[g] <= a
    BY <2>1
  <2> QED
    BY <2>2
<1>6. \A x : GopOfTime(starts, x) = 1 + Cardinality(C(x))
  BY DEF GopOfTime
<1> HIDE DEF C
<1>7. \A x \in Nat : IsFiniteSet(C(x)) /\ Cardinality(C(x)) \in Nat
  BY <1>2, <1>3, FS_Subset, FS_CardinalityType
<1>8. Cardinality(C(a)) < Cardinality(C(b))
  <2>1. C(a) # C(b)
    BY <1>4
  <2>2. Cardinality(C(a)) <= Cardinality(C(b)) /\ Cardinality(C(a)) # Cardinality(C(b))
    BY <1>4, <1>7, <2>1, FS_Subset
  <2> QED
    BY <1>7, <2>2
<1>9. \A t \in Nat : t < b => Cardinality(C(t)) <= Cardinality(C(a))
  BY <1>5, <1>7, FS_Subset
<1>10. GopOfTime(starts, a) < GopOfTime(starts, b)
  BY <1>6, <1>7, <1>8
<1>11. ASSUME NEW t \in Nat, t < b PROVE GopOfTime(starts, t) <= GopOfTime(starts, a)
  <2>1. Cardinality(C(t)) <= Cardinality(C(a)) /\ Cardinality(C(t)) \in Nat /\ Cardinality(C(a)) \in Nat
    BY <1>7, <1>9, <1>11
  <2> QED
    BY <1>6, <2>1
<1> QED
  BY <1>10, <1>11

\* The time by which the GoP of a sample is told.
TimeOf(plan, i) == Micros(DecodeTimes(plan)[i], plan.scale)

LEMMA TimesOfSamples ==
  ASSUME NEW plan \in TrackPlan, NEW n, n = Len(plan.samples)
  PROVE  /\ n \in Nat
         /\ \A i \in 1..(n + 1) : TimeOf(plan, i) \in Nat
         /\ \A i, j \in 1..(n + 1) : i <= j => TimeOf(plan, i) <= TimeOf(plan, j)
<1>1. PICK dt : dt = DecodeTimes(plan)
  OBVIOUS
<1>2. n \in Nat /\ plan.scale \in Nat
  BY PlanFields
<1>3. /\ dt \in [1..(n + 1) -> Nat]
      /\ \A i, j \in 1..(n + 1) : i <= j => dt[i] <= dt[j]
  BY <1>1, TimesAre
<1>4. ASSUME NEW i \in 1..(n + 1), NEW j \in 1..(n + 1)
      PROVE  /\ TimeOf(plan, i) \in Nat
             /\ i <= j => TimeOf(plan, i) <= TimeOf(plan, j)
  <2>1. dt[i] \in Nat /\ dt[j] \in Nat /\ (i <= j => dt[i] <= dt[j])
    BY <1>3
  <2> QED
    BY <1>1, <1>2, <2>1, MicrosAre DEF TimeOf
<1> QED
  BY <1>2, <1>4

\* Just ahead of the i-th sample of the reference a GoP ends: what is earlier
\* than that sample is in no later GoP than the sample before it.
CutAhead(plans, ref, i) ==
  LET GopAt(t) == GopOfTime(GopStarts(plans), t)
  IN  /\ i > 1 /\ TimeOf(ref, i - 1) < TimeOf(ref, i)
      /\ GopAt(TimeOf(ref, i - 1)) < GopAt(TimeOf(ref, i))
      /\ \A t \in Nat : t < TimeOf(ref, i) => GopAt(t) <= GopAt(TimeOf(ref, i - 1))

LEMMA OpensIsCut ==
  ASSUME NEW plans, Planned(plans), plans # <<>>, NEW ref, ref = Reference(plans),
         NEW i \in 1..Len(ref.samples), OpensGop(ref, i)
  PROVE  CutAhead(plans, ref, i)
<1>1. ref \in TrackPlan
  BY ReferenceIs
<1>2. PICK m : m = Len(ref.samples)
  OBVIOUS
<1>3. /\ m \in Nat
      /\ \A x \in 1..(m + 1) : TimeOf(ref, x) \in Nat
      /\ \A x, y \in 1..(m + 1) : x <= y => TimeOf(ref, x) <= TimeOf(ref, y)
  BY <1>1, <1>2, TimesOfSamples
<1>4. /\ i > 1 /\ TimeOf(ref, i - 1) < TimeOf(ref, i)
      /\ \E j \in i..m : Opens(ref, j) /\ TimeOf(ref, j) = TimeOf(ref, i)
  BY <1>2 DEF OpensGop, TimeOf
<1>5. PICK j \in i..m : Opens(ref, j) /\ TimeOf(ref, j) = TimeOf(ref, i)
  BY <1>4
<1>6. PICK s : s = IF ref.video THEN StartsOfVideo(ref) ELSE StartsOfAudio(ref)
  OBVIOUS
<1>7. PICK starts : starts = GopStarts(plans)
  OBVIOUS
<1>8. IsStarts(s, ref)
  BY <1>1, <1>6, StartsOfVideoAre, StartsOfAudioAre
<1>9. PICK n \in Nat \ {0} : s \in [1..n -> 1..(m + 1)]
  BY <1>2, <1>8 DEF IsStarts
<1>10. starts = [g \in 1..n |-> TimeOf(ref, s[g])]
  <2>1. starts = [g \in DOMAIN s |-> TimeOf(ref, s[g])]
    BY <1>6, <1>7 DEF GopStarts, TimeOf
  <2>2. DOMAIN s = 1..n
    BY <1>9
  <2> QED
    BY <2>1, <2>2
<1>11. starts \in [1..n -> Nat]
  BY <1>3, <1>9, <1>10
<1>12. PICK h \in 2..n : s[h] = j
  <2>1. j \in 1..Len(ref.samples)
    BY <1>2, <1>3
  <2>2. PICK h \in 2..Len(s) : s[h] = j
    BY <1>1, <1>5, <1>6, <2>1, OpensAtStart
  <2>3. Len(s) = n
    BY <1>9
  <2> QED
    BY <2>2, <2>3
<1>13. h \in 1..n /\ starts[h] = TimeOf(ref, i)
  BY <1>5, <1>10, <1>12
<1>14. i - 1 \in 1..(m + 1) /\ i \in 1..(m + 1)
  BY <1>2, <1>3, <1>4
<1>15. ASSUME NEW g \in 1..n PROVE starts[g] <= TimeOf(ref, i - 1) \/ TimeOf(ref, i) <= starts[g]
  <2>1. s[g] \in 1..(m + 1) /\ starts[g] = TimeOf(ref, s[g])
    BY <1>9, <1>10
  <2>2. s[g] <= i - 1 \/ i <= s[g]
    BY <1>14, <2>1
  <2> QED
    BY <1>3, <1>14, <2>1, <2>2
<1>16. PICK a, b : a = TimeOf(ref, i - 1) /\ b = TimeOf(ref, i)
  OBVIOUS
<1>17. a \in Nat /\ b \in Nat /\ a < b /\ starts[h] = b /\ \A g \in 1..n : starts[g] <= a \/ b <= starts[g]
  BY <1>3, <1>4, <1>13, <1>14, <1>15, <1>16
<1>18. /\ GopOfTime(starts, a) < GopOfTime(starts, b)
       /\ \A t \in Nat : t < b => GopOfTime(starts, t) <= GopOfTime(starts, a)
  BY <1>11, <1>12, <1>17, CutOfStarts
<1> QED
  BY <1>4, <1>7, <1>16, <1>18 DEF CutAhead

-----------------------------------------------------------------------------
(* GoPs in the file.                                                       *)

\* A sample's turn comes before that of another track's: its GoP is earlier,
\* or in the same GoP its track.
Sooner(plans, k, i, l, j) ==
  \/ GopIn(plans, k, i) < GopIn(plans, l, j)
  \/ GopIn(plans, k, i) = GopIn(plans, l, j) /\ k < l

\* The fragments of different tracks lie in the order of their turns.
InTurn(plans, file) ==
  \A k, l \in DOMAIN plans : k # l =>
    \A p \in Moofs(file, plans[k].track), q \in Moofs(file, plans[l].track) :
      Sooner(plans, k, file.head[p].body.seq, l, file.head[q].body.seq) => p < q

LEMMA InTurnKept ==
  ASSUME NEW plans, NEW file, InTurn(plans, file), NEW more, Grown(file, more),
         \A k \in DOMAIN plans : Moofs(more, plans[k].track) = Moofs(file, plans[k].track)
  PROVE  InTurn(plans, more)
<1> SUFFICES ASSUME NEW k \in DOMAIN plans, NEW l \in DOMAIN plans, k # l,
                    NEW p \in Moofs(more, plans[k].track), NEW q \in Moofs(more, plans[l].track),
                    Sooner(plans, k, more.head[p].body.seq, l, more.head[q].body.seq)
             PROVE  p < q
  BY DEF InTurn
<1>1. p \in Moofs(file, plans[k].track) /\ q \in Moofs(file, plans[l].track)
  OBVIOUS
<1>2. more.head[p] = file.head[p] /\ more.head[q] = file.head[q]
  BY <1>1 DEF Moofs, Grown
<1> QED
  BY <1>1, <1>2 DEF InTurn

\* A sample is written no sooner than one that is there.
LEMMA InTurnGoesOn ==
  ASSUME NEW plans, Planned(plans), NEW file, Headed(file), InTurn(plans, file),
         NEW more, Headed(more), Grown(file, more),
         NEW h \in DOMAIN plans, NEW m, NEW z, z = file.size,
         Moofs(more, plans[h].track) = Moofs(file, plans[h].track) \cup {z},
         \A k \in DOMAIN plans : k # h => Moofs(more, plans[k].track) = Moofs(file, plans[k].track),
         more.head[z].body.seq = m,
         \A k \in DOMAIN plans : k # h => \A p \in Moofs(file, plans[k].track) :
            ~ Sooner(plans, h, m, k, file.head[p].body.seq)
  PROVE  InTurn(plans, more)
<1> SUFFICES ASSUME NEW k \in DOMAIN plans, NEW l \in DOMAIN plans, k # l,
                    NEW p \in Moofs(more, plans[k].track), NEW q \in Moofs(more, plans[l].track),
                    Sooner(plans, k, more.head[p].body.seq, l, more.head[q].body.seq)
             PROVE  p < q
  BY DEF InTurn
<1>1. /\ p \in Moofs(file, plans[k].track) \/ (k = h /\ p = z)
      /\ q \in Moofs(file, plans[l].track) \/ (l = h /\ q = z)
  OBVIOUS
<1>2. \A x \in Moofs(file, plans[k].track) : more.head[x] = file.head[x] /\ x < z
  BY DEF Moofs, Grown, Headed
<1>3. \A x \in Moofs(file, plans[l].track) : more.head[x] = file.head[x]
  BY DEF Moofs, Grown
<1>4. CASE p \in Moofs(file, plans[k].track) /\ q \in Moofs(file, plans[l].track)
  BY <1>2, <1>3, <1>4 DEF InTurn
<1>5. CASE p \in Moofs(file, plans[k].track) /\ l = h /\ q = z
  BY <1>2, <1>5
<1>6. CASE k = h /\ p = z /\ q \in Moofs(file, plans[l].track)
  <2>1. ~ Sooner(plans, h, m, l, file.head[q].body.seq)
    BY <1>6
  <2> QED
    BY <1>3, <1>6, <2>1
<1> QED
  BY <1>1, <1>4, <1>5, <1>6

\* The sample whose turn it is is no sooner than a sample of another track that
\* is reached.
LEMMA TurnsPass ==
  ASSUME NEW plans, Planned(plans), NEW sl, NEW G, Slotted(plans, sl, G),
         NEW x \in 1..Len(sl), NEW i \in 1..Len(sl[x].samples), NEW h, h = sl[x].k,
         NEW k \in DOMAIN plans, k # h, NEW w, Reached(plans, sl, x, i, k, w), NEW j \in 1..w
  PROVE  ~ Sooner(plans, h, sl[x].samples[i], k, j)
<1>1. /\ Len(sl) \in Nat
      /\ \A y \in 1..Len(sl) :
           /\ sl[y].k \in DOMAIN plans /\ Len(sl[y].samples) \in Nat \ {0} /\ G[y] \in Nat
           /\ Sorts(sl[y].samples, Len(sl[y].samples), SamplesIn(plans, sl[y].k, G[y]))
  BY DEF Slotted
<1>2. ASSUME NEW y \in 1..Len(sl), NEW n \in 1..Len(sl[y].samples)
      PROVE  GopIn(plans, sl[y].k, sl[y].samples[n]) = G[y]
  <2>1. PICK s, len, T : s = sl[y].samples /\ len = Len(s) /\ T = SamplesIn(plans, sl[y].k, G[y])
    OBVIOUS
  <2>2. Sorts(s, len, T)
    BY <1>1, <2>1
  <2>3. s[n] \in T
    BY <2>1, <2>2 DEF Sorts
  <2> QED
    BY <2>1, <2>3 DEF SamplesIn
<1>3. Len(plans[k].samples) \in Nat /\ w \in 0..Len(plans[k].samples)
  BY PlanFields DEF Planned, Reached
<1>4. j \in 1..Len(plans[k].samples)
  BY <1>3
<1>5. Paced(plans, sl)
  BY SlottedIsPaced
<1>6. PICK y \in 1..Len(sl) : \E n \in 1..Len(sl[y].samples) : sl[y].k = k /\ sl[y].samples[n] = j
  BY <1>4, <1>5 DEF Paced
<1>7. PICK n \in 1..Len(sl[y].samples) : sl[y].k = k /\ sl[y].samples[n] = j
  BY <1>6
<1>8. y < x
  <2>1. Ahead(y, n, x, i)
    BY <1>3, <1>7 DEF Reached
  <2>2. y # x
    BY <1>7
  <2> QED
    BY <2>1, <2>2 DEF Ahead
<1>9. G[y] < G[x] \/ (G[y] = G[x] /\ k < h)
  BY <1>7, <1>8 DEF Slotted
<1>10. GopIn(plans, h, sl[x].samples[i]) = G[x] /\ GopIn(plans, k, j) = G[y]
  BY <1>2, <1>7
<1>11. G[x] \in Nat /\ G[y] \in Nat /\ h \in Nat /\ k \in Nat
  BY <1>1 DEF Planned
<1> QED
  BY <1>9, <1>10, <1>11 DEF Sooner

\* Past a cut of the reference track lie its own samples from the cut on.
LEMMA CutOfReference ==
  ASSUME NEW plans, Planned(plans), plans # <<>>, NEW ref, ref = Reference(plans),
         NEW w \in Nat, w <= Len(ref.samples), NEW offs, NEW file, Headed(file),
         TrackWritten(ref, w, offs, file), NEW i \in 1..w, OpensGop(ref, i), NEW j \in 1..w
  PROVE  offs[j] >= offs[i] <=> TimeOf(ref, j) >= TimeOf(ref, i)
<1>1. ref \in TrackPlan
  BY ReferenceIs
<1>2. PICK m : m = Len(ref.samples)
  OBVIOUS
<1>3. /\ m \in Nat
      /\ \A x \in 1..(m + 1) : TimeOf(ref, x) \in Nat
      /\ \A x, y \in 1..(m + 1) : x <= y => TimeOf(ref, x) <= TimeOf(ref, y)
  BY <1>1, <1>2, TimesOfSamples
<1>4. i > 1 /\ TimeOf(ref, i - 1) < TimeOf(ref, i)
  BY DEF OpensGop, TimeOf
<1>5. i \in 1..(m + 1) /\ j \in 1..(m + 1) /\ i - 1 \in 1..(m + 1)
  BY <1>2, <1>3, <1>4
<1>6. PICK S : S = Moofs(file, ref.track)
  OBVIOUS
<1>7. Sorts(offs, w, S) /\ \A p \in S : p \in Nat
  BY <1>6 DEF TrackWritten, Moofs, Headed
<1>8. offs[i] \in Nat /\ offs[j] \in Nat
  BY <1>7 DEF Sorts
<1>9. CASE i <= j
  <2>1. offs[j] >= offs[i]
    <3>1. i < j => offs[i] < offs[j]
      BY <1>7 DEF Sorts
    <3> QED
      BY <1>8, <1>9, <3>1
  <2>2. TimeOf(ref, j) >= TimeOf(ref, i)
    BY <1>3, <1>5, <1>9
  <2> QED
    BY <2>1, <2>2
<1>10. CASE ~ i <= j
  <2>1. j < i /\ j <= i - 1
    BY <1>10
  <2>2. offs[j] < offs[i]
    BY <1>7, <2>1 DEF Sorts
  <2>3. TimeOf(ref, j) <= TimeOf(ref, i - 1)
    BY <1>3, <1>5, <2>1
  <2> QED
    BY <1>3, <1>4, <1>5, <1>8, <2>2, <2>3
<1> QED
  BY <1>9, <1>10

\* The samples of a track that are written, and where.
Written(plan, w, offs, file) ==
  w \in Nat /\ w <= Len(plan.samples) /\ TrackWritten(plan, w, offs, file)

\* The r-th track is the reference, and a GoP opens at its i-th sample.
Cutting(plans, file, r, w, offs, i) ==
  /\ Planned(plans) /\ Headed(file) /\ InTurn(plans, file)
  /\ r \in DOMAIN plans /\ plans[r] = Reference(plans)
  /\ Written(plans[r], w, offs, file) /\ i \in 1..w /\ OpensGop(plans[r], i)

\* Past it lie those samples of another track that are not earlier: the cut is
\* where the GoP's part of that track begins.
LEMMA CutOfOther ==
  ASSUME NEW plans, NEW file, NEW r, NEW w, NEW offs, NEW i, Cutting(plans, file, r, w, offs, i),
         NEW k \in DOMAIN plans, k # r, NEW v, NEW o, Written(plans[k], v, o, file),
         NEW j \in 1..v, NEW c, c = IF plans[k].track < plans[r].track THEN i - 1 ELSE i
  PROVE  o[j] >= offs[c] <=> TimeOf(plans[k], j) >= TimeOf(plans[r], i)
<1>1. PICK ref, plan : ref = plans[r] /\ plan = plans[k]
  OBVIOUS
<1>2. /\ Planned(plans) /\ Headed(file) /\ InTurn(plans, file)
      /\ r \in DOMAIN plans /\ ref = Reference(plans)
      /\ w \in Nat /\ w <= Len(ref.samples) /\ TrackWritten(ref, w, offs, file)
      /\ i \in 1..w /\ OpensGop(ref, i)
      /\ v \in Nat /\ v <= Len(plan.samples) /\ TrackWritten(plan, v, o, file)
      /\ c = IF plan.track < ref.track THEN i - 1 ELSE i
  BY <1>1 DEF Cutting, Written
<1>3. plan \in TrackPlan /\ ref \in TrackPlan /\ plans # <<>>
  <2>1. plans \in Seq(TrackPlan)
    BY <1>2 DEF Planned
  <2>2. plans # <<>> /\ \A l \in DOMAIN plans : plans[l] \in TrackPlan
    BY <2>1
  <2> QED
    BY <1>1, <1>2, <2>2
<1>4. CutAhead(plans, ref, i)
  <2>1. i \in 1..Len(ref.samples)
    <3>1. Len(ref.samples) \in Nat
      BY <1>3, TimesOfSamples
    <3> QED
      BY <1>2, <3>1
  <2> QED
    BY <1>3, <1>2, <2>1, OpensIsCut
<1>5. PICK starts : starts = GopStarts(plans)
  OBVIOUS
<1>6. PICK a, b, t : a = TimeOf(ref, i - 1) /\ b = TimeOf(ref, i) /\ t = TimeOf(plan, j)
  OBVIOUS
<1>7. a \in Nat /\ b \in Nat /\ t \in Nat /\ i > 1
  <2>1. i > 1
    BY <1>4 DEF CutAhead
  <2>2. Len(ref.samples) \in Nat /\ Len(plan.samples) \in Nat
    BY <1>3, TimesOfSamples
  <2>3. i - 1 \in 1..(Len(ref.samples) + 1) /\ i \in 1..(Len(ref.samples) + 1)
    BY <1>2, <2>1, <2>2
  <2>4. j \in 1..(Len(plan.samples) + 1)
    BY <1>2, <2>2
  <2> QED
    BY <1>3, <1>6, <2>1, <2>3, <2>4, TimesOfSamples
<1>8. PICK gb, gi, gj : /\ gb = GopOfTime(starts, a) /\ gi = GopOfTime(starts, b)
                        /\ gj = GopOfTime(starts, t)
  OBVIOUS
<1>9. /\ GopIn(plans, r, i - 1) = gb /\ GopIn(plans, r, i) = gi /\ GopIn(plans, k, j) = gj
  BY <1>1, <1>5, <1>6, <1>8 DEF GopIn, TimeOf
<1>10. PICK n \in Nat \ {0} : starts \in [1..n -> Nat]
  BY <1>3, <1>5, <1>2, GopStartsAre
<1>11. /\ gb \in Nat /\ gi \in Nat /\ gj \in Nat
       /\ b <= t => gi <= gj
  <2>1. gb \in 1..n
    BY <1>7, <1>8, <1>10, GopOfTimeIs
  <2>2. gi \in 1..n /\ gj \in 1..n /\ (b <= t => gi <= gj)
    BY <1>7, <1>8, <1>10, GopOfTimeIs
  <2> QED
    BY <2>1, <2>2
<1>12. gb < gi /\ (t < b => gj <= gb)
  BY <1>4, <1>5, <1>6, <1>7, <1>8 DEF CutAhead
<1>13. plan.track < ref.track <=> k < r
  <2>1. k \in Nat /\ r \in Nat
    BY <1>2 DEF Planned
  <2>2. plan.track \in Track /\ ref.track \in Track
    BY <1>3, PlanFields
  <2>3. plan.track \in Nat /\ ref.track \in Nat
    BY <2>2, TrackAssumption
  <2>4. (k < r => plan.track < ref.track) /\ (r < k => ref.track < plan.track)
    BY <1>1, <1>2 DEF Planned
  <2> QED
    BY <2>1, <2>4, <2>3
<1>14. k \in Nat /\ r \in Nat
  BY <1>2 DEF Planned
<1>15. c \in 1..w
  BY <1>7, <1>2
<1>16. PICK p, q : p = o[j] /\ q = offs[c]
  OBVIOUS
<1>17. /\ p \in Moofs(file, plan.track) /\ file.head[p].body.seq = j
       /\ q \in Moofs(file, ref.track) /\ file.head[q].body.seq = c
  BY <1>15, <1>16, <1>2 DEF TrackWritten, Sorts, Fragment
<1>18. p \in Nat /\ q \in Nat
  BY <1>17, <1>2 DEF Moofs, Headed
<1>19. (Sooner(plans, k, j, r, c) => p < q) /\ (Sooner(plans, r, c, k, j) => q < p)
  BY <1>1, <1>17, <1>2 DEF InTurn
<1>20. CASE k < r
  <2>1. c = i - 1
    BY <1>2, <1>13, <1>20
  <2>2. (t < b => Sooner(plans, k, j, r, c)) /\ (b <= t => Sooner(plans, r, c, k, j))
    BY <1>9, <1>11, <1>12, <1>20, <2>1 DEF Sooner
  <2> QED
    BY <1>1, <1>6, <1>7, <1>16, <1>18, <1>19, <2>2
<1>21. CASE r < k
  <2>1. c = i
    BY <1>2, <1>13, <1>14, <1>21
  <2>2. (t < b => Sooner(plans, k, j, r, c)) /\ (b <= t => Sooner(plans, r, c, k, j))
    BY <1>9, <1>11, <1>12, <1>21, <2>1 DEF Sooner
  <2> QED
    BY <1>1, <1>6, <1>7, <1>16, <1>18, <1>19, <2>2
<1> QED
  BY <1>14, <1>20, <1>21

\* The segments are those of the plan, and what is written of them is in turn.
Turned == slots # <<>> => slots = SlotsOf(source.plans) /\ InTurn(source.plans, out)

GInv == CInv /\ Turned

\* A sample that is written keeps them in turn.
LEMMA WriteSampleTurns ==
  ASSUME CInv, WriteSample, slots = SlotsOf(source.plans), InTurn(source.plans, out)
  PROVE  InTurn(source.plans, out')
<1>1. PICK plans, sl, x, i, h, plan, m, file, more :
        /\ plans = source.plans /\ sl = slots /\ x = at.slot /\ i = at.sample
        /\ h = Slot.k /\ plan = ThisPlan /\ m = Slot.samples[at.sample]
        /\ file = out /\ more = out'
  OBVIOUS
<1>2. /\ x \in 1..Len(sl) /\ i \in 1..Len(sl[x].samples)
      /\ Planned(plans) /\ Headed(file)
      /\ h = sl[x].k /\ h \in DOMAIN plans /\ plan = plans[h]
  BY <1>1, SampleNext
<1>3. m = sl[x].samples[i]
  BY <1>1 DEF Slot
<1>4. PICK a, b : Pair(plan, m, a, b) /\ more = AddAtom(AddAtom(file, a), b)
  BY <1>1, SamplePair
<1>5. /\ Headed(more) /\ Grown(file, more)
      /\ Moofs(more, plan.track) = Moofs(file, plan.track) \cup {file.size}
      /\ \A id : id # plan.track => Moofs(more, id) = Moofs(file, id)
      /\ Fragment(plan, m, more, file.size)
  BY <1>2, <1>4, PairAdded
<1>6. PICK G : Slotted(plans, sl, G)
  BY <1>1, <1>2, SlotsAre
<1>7. PICK z : z = file.size
  OBVIOUS
<1>8. Moofs(more, plans[h].track) = Moofs(file, plans[h].track) \cup {z} /\ more.head[z].body.seq = m
  BY <1>2, <1>5, <1>7 DEF Fragment
<1>9. \A k \in DOMAIN plans : k # h => Moofs(more, plans[k].track) = Moofs(file, plans[k].track)
  <2> SUFFICES ASSUME NEW k \in DOMAIN plans, k # h PROVE plans[k].track # plan.track
    BY <1>5
  <2> QED
    BY <1>2, OneOfTrack
<1>10. ASSUME NEW k \in DOMAIN plans, k # h, NEW p \in Moofs(file, plans[k].track)
       PROVE  ~ Sooner(plans, h, m, k, file.head[p].body.seq)
  <2>1. InBody
    BY DEF CInv, Planning, WriteSample, Writing
  <2>2. PICK w : TrackSoFar(k, w)
    BY <1>1, <2>1 DEF InBody
  <2>3. Reached(plans, sl, x, i, k, w)
    BY <1>1, <2>2 DEF TrackSoFar
  <2>4. PICK offs : TrackWritten(plans[k], w, offs, file)
    BY <1>1, <2>2 DEF TrackSoFar
  <2>5. PICK j \in 1..w : offs[j] = p
    BY <2>4 DEF TrackWritten, Sorts
  <2>6. file.head[p].body.seq = j
    BY <2>4, <2>5 DEF TrackWritten, Fragment
  <2> QED
    BY <1>2, <1>3, <1>6, <1>10, <2>3, <2>6, TurnsPass
<1>11. InTurn(plans, file)
  BY <1>1
<1>12. InTurn(plans, more)
  BY <1>2, <1>5, <1>7, <1>8, <1>9, <1>10, <1>11, InTurnGoesOn
<1> QED
  BY <1>1, <1>12

LEMMA GInvStep == GInv /\ [Next]_vars => GInv'
<1> SUFFICES ASSUME GInv, [Next]_vars PROVE Turned'
  BY CInvStep DEF GInv
<1>1. CInv
  BY DEF GInv
<1>2. ASSUME UNCHANGED <<source, slots, out>> PROVE Turned'
  BY <1>2 DEF GInv, Turned
<1>3. Writing => slots # <<>> /\ slots = SlotsOf(source.plans) /\ InTurn(source.plans, out)
  <2> SUFFICES ASSUME Writing PROVE slots # <<>>
    BY DEF GInv, Turned
  <2>1. InBody
    BY <1>1 DEF CInv, Planning, Writing
  <2>2. at.slot \in 1..(Len(slots) + 1) /\ Len(slots) \in Nat /\ at.slot <= Len(slots)
    BY <2>1 DEF InBody, Paced, Writing
  <2>3. Len(slots) # 0
    BY <2>2
  <2> QED
    BY <2>3
<1>4. CASE Read
  <2>1. slots' = <<>>
    BY <1>1, <1>4 DEF Read, CInv, Planning, InBody
  <2> QED
    BY <2>1 DEF Turned
<1>5. CASE ReadFails
  BY <1>2, <1>5 DEF ReadFails, Stop
<1>6. CASE WriteHeader
  <2>1. slots' = SlotsOf(source.plans) /\ source' = source
    BY <1>6 DEF WriteHeader, StartBody
  <2>2. Prelude(out')
    BY <1>1, <1>6, HeaderWritten
  <2>3. \A id : Moofs(out', id) = {}
    BY <2>2 DEF Prelude, Moofs
  <2> QED
    BY <2>1, <2>3 DEF Turned, InTurn
<1>7. CASE HeaderFails
  BY <1>2, <1>7 DEF HeaderFails, Stop
<1>8. CASE StartSegment
  <2>1. slots' = slots /\ source' = source /\ Writing
    BY <1>8 DEF StartSegment
  <2>2. Grown(out, out') /\ \A id : Moofs(out', id) = Moofs(out, id)
    BY <1>1, <1>8, PrefixAdded
  <2>3. PICK plans, file, more : plans = source.plans /\ file = out /\ more = out'
    OBVIOUS
  <2>4. InTurn(plans, more)
    BY <1>3, <2>1, <2>2, <2>3, InTurnKept
  <2> QED
    BY <1>3, <2>1, <2>3, <2>4 DEF Turned
<1>9. CASE WriteSample
  <2>1. slots' = slots /\ source' = source /\ Writing
    BY <1>9 DEF WriteSample
  <2>2. InTurn(source.plans, out')
    BY <1>1, <1>3, <1>9, <2>1, WriteSampleTurns
  <2> QED
    BY <1>3, <2>1, <2>2 DEF Turned
<1>10. CASE SampleOutside
  BY <1>2, <1>10 DEF SampleOutside, Stop
<1>11. CASE Finish
  BY <1>2, <1>11 DEF Finish, Stop
<1>12. CASE FinishFails
  BY <1>2, <1>12 DEF FinishFails, Stop
<1>13. CASE UNCHANGED vars
  BY <1>2, <1>13 DEF vars
<1> QED
  BY <1>4, <1>5, <1>6, <1>7, <1>8, <1>9, <1>10, <1>11, <1>12, <1>13 DEF Next

\* Where the fragments of a track are, and their times.
LEMMA FragmentPlaces ==
  ASSUME NEW plan, NEW w, NEW offs, NEW file, Headed(file), TrackWritten(plan, w, offs, file),
         NEW fs, fs = FragmentsOf(file, plan.track)
  PROVE  DOMAIN fs = 1..w /\ \A x \in 1..w : /\ fs[x].from = offs[x]
                                            /\ fs[x].tfdt = DecodeTimes(plan)[x]
<1>1. /\ Len(fs) = w /\ DOMAIN fs = 1..w
      /\ \A i \in 1..w : LET s == plan.samples[i]
                         IN  /\ fs[i].from = offs[i]
                             /\ fs[i].seq = i
                             /\ fs[i].tfdt = DecodeTimes(plan)[i]
                             /\ fs[i].data = s.at
                             /\ fs[i].sample = [dur |-> s.dur, size |-> s.size,
                                                sync |-> s.sync, cts |-> s.cts]
  BY FragmentsAre
<1> QED
  BY <1>1

\* What is written of a track.
LEMMA TrackIsWritten ==
  ASSUME InBody, NEW k \in DOMAIN source.plans, NEW plan, plan = source.plans[k]
  PROVE  \E w, offs : Written(plan, w, offs, out)
<1>1. PICK w : TrackSoFar(k, w)
  BY DEF InBody
<1>2. PICK offs : TrackWritten(plan, w, offs, out)
  BY <1>1 DEF TrackSoFar
<1>3. Len(plan.samples) \in Nat
  BY PlanFields DEF InBody, Planned
<1>4. w \in Nat /\ w <= Len(plan.samples)
  BY <1>1, <1>3 DEF TrackSoFar, Reached
<1> QED
  BY <1>2, <1>4 DEF Written

LEMMA GInvCuts == GInv => GopsCutByTime
<1> SUFFICES ASSUME GInv, slots # <<>>,
                    NEW ref, ref = Reference(source.plans),
                    NEW opening, opening = FragmentsOf(out, ref.track),
                    NEW i \in DOMAIN opening, OpensGop(ref, i),
                    NEW k \in DOMAIN source.plans,
                    NEW plan, plan = source.plans[k],
                    NEW fs, fs = FragmentsOf(out, plan.track), NEW j \in DOMAIN fs
             PROVE  fs[j].from >= opening[IF plan.track < ref.track THEN i - 1 ELSE i].from <=>
                      Micros(fs[j].tfdt, plan.scale) >= Micros(opening[i].tfdt, ref.scale)
  BY DEF GopsCutByTime
<1>1. InBody /\ InTurn(source.plans, out)
  BY DEF GInv, Turned, CInv, Planning
<1>2. PICK plans, file : plans = source.plans /\ file = out
  OBVIOUS
<1>3. Planned(plans) /\ Headed(file) /\ InTurn(plans, file) /\ plans # <<>>
  BY <1>1, <1>2 DEF InBody
<1>4. PICK r \in DOMAIN plans : ref = plans[r]
  BY <1>2, <1>3, ReferenceIs
<1>5. PICK w, offs : Written(ref, w, offs, file)
  BY <1>1, <1>2, <1>4, TrackIsWritten
<1>6. DOMAIN opening = 1..w /\ \A x \in 1..w : /\ opening[x].from = offs[x]
                                              /\ opening[x].tfdt = DecodeTimes(ref)[x]
  BY <1>2, <1>3, <1>5, FragmentPlaces DEF Written
<1>7. i \in 1..w /\ i > 1
  BY <1>6 DEF OpensGop
<1>8. Micros(opening[i].tfdt, ref.scale) = TimeOf(ref, i)
  BY <1>6, <1>7 DEF TimeOf
<1>9. CASE k = r
  <2>1. plan = ref /\ fs = opening
    BY <1>2, <1>4, <1>9
  <2>2. ~ plan.track < ref.track
    <3>1. ref.track \in Track
      BY <1>2, <1>3, PlanFields, ReferenceIs
    <3>2. ref.track \in Nat
      BY <3>1, TrackAssumption
    <3> QED
      BY <2>1, <3>2
  <2>3. j \in 1..w /\ fs[j].from = offs[j] /\ opening[i].from = offs[i]
    BY <1>6, <1>7, <2>1
  <2>4. Micros(fs[j].tfdt, plan.scale) = TimeOf(ref, j)
    BY <1>6, <2>1 DEF TimeOf
  <2>5. offs[j] >= offs[i] <=> TimeOf(ref, j) >= TimeOf(ref, i)
    BY <1>2, <1>3, <1>5, <1>7, <2>3, CutOfReference DEF Written
  <2> QED
    BY <1>8, <2>2, <2>3, <2>4, <2>5
<1>10. CASE k # r
  <2>1. PICK v, o : Written(plan, v, o, file)
    BY <1>1, <1>2, TrackIsWritten
  <2>2. DOMAIN fs = 1..v /\ \A x \in 1..v : /\ fs[x].from = o[x]
                                           /\ fs[x].tfdt = DecodeTimes(plan)[x]
    BY <1>2, <1>3, <2>1, FragmentPlaces DEF Written
  <2>3. j \in 1..v /\ fs[j].from = o[j] /\ Micros(fs[j].tfdt, plan.scale) = TimeOf(plan, j)
    BY <2>2 DEF TimeOf
  <2>4. PICK c : c = IF plan.track < ref.track THEN i - 1 ELSE i
    OBVIOUS
  <2>5. o[j] >= offs[c] <=> TimeOf(plan, j) >= TimeOf(ref, i)
    <3>1. Cutting(plans, file, r, w, offs, i)
      BY <1>2, <1>3, <1>4, <1>5, <1>7 DEF Cutting
    <3>2. k \in DOMAIN plans /\ plan = plans[k] /\ ref = plans[r]
      BY <1>2, <1>4
    <3>3. Written(plans[k], v, o, file) /\ c = IF plans[k].track < plans[r].track THEN i - 1 ELSE i
      BY <2>1, <2>4, <3>2
    <3>4. o[j] >= offs[c] <=> TimeOf(plans[k], j) >= TimeOf(plans[r], i)
      BY <1>10, <2>3, <3>1, <3>2, <3>3, CutOfOther
    <3> QED
      BY <3>2, <3>4
  <2>6. c \in 1..w /\ opening[c].from = offs[c]
    BY <1>5, <1>6, <1>7, <2>4 DEF Written
  <2> QED
    BY <1>8, <2>3, <2>4, <2>5, <2>6
<1> QED
  BY <1>9, <1>10

\* flat.rs compute_gop_partition, write_canonical_body: for every input, and
\* whatever the timescales, the starts and the overlaps of its tracks, all are
\* cut at the same times, those at which the reference track opens a GoP: behind
\* the cut in the file are the samples that are not earlier.
THEOREM CutByTime == Spec => []GopsCutByTime
<1>1. Init => GInv
  BY CInvInit DEF GInv, Turned, Init
<1>2. GInv /\ [Next]_vars => GInv'
  BY GInvStep
<1>3. GInv => GopsCutByTime
  BY GInvCuts
<1> QED
  BY <1>1, <1>2, <1>3, PTL DEF Spec

-----------------------------------------------------------------------------
(* Any table: its runs of chunks.                                          *)

\* A list of numbers that begins below c and ends at it or above goes past it.
LEMMA Crossed ==
  ASSUME NEW n \in Nat, NEW u, \A i \in 0..n : u[i] \in Int, NEW c \in Int, u[0] < c, c <= u[n]
  PROVE  \E i \in 1..n : u[i - 1] < c /\ c <= u[i]
<1> SUFFICES ASSUME \A i \in 1..n : u[i - 1] < c => u[i] < c PROVE FALSE
  <2>1. \A i \in 1..n : i \in 0..n /\ i - 1 \in 0..n
    OBVIOUS
  <2> QED
    BY <2>1
<1>1. PICK below, A : below = [i \in 0..n |-> IF u[i] < c THEN 0 ELSE 1] /\ A = {0}
  OBVIOUS
<1>2. below[0] \in A
  BY <1>1
<1>3. ASSUME NEW i \in 1..n, below[i - 1] \in A PROVE below[i] \in A
  <2>1. i \in 0..n /\ i - 1 \in 0..n
    OBVIOUS
  <2>2. u[i - 1] < c
    BY <1>1, <1>3, <2>1
  <2> QED
    BY <1>1, <2>1, <2>2
<1>4. 0 \in Nat /\ n \in Nat /\ 1 = 0 + 1
  OBVIOUS
<1>5. \A i \in 0..n : below[i] \in A
  BY <1>2, <1>3, <1>4, PrefixInduction
<1>6. n \in 0..n /\ below[n] = 1
  BY <1>1
<1> QED
  BY <1>1, <1>5, <1>6

\* The runs of chunks, in order from the first chunk on.
RunsOfChunks(sc) ==
  /\ sc \in Seq([first : Nat, per : Nat])
  /\ Len(sc) \in Nat \ {0} /\ DOMAIN sc = 1..Len(sc)
  /\ sc[1].first = 1
  /\ \A q, r \in 1..Len(sc) : q < r => sc[q].first < sc[r].first

\* A run holds the chunks from its first on, up to the next run.
Holds(sc, i, c) == sc[i].first <= c /\ (i < Len(sc) => c < sc[i + 1].first)

LEMMA RunFields ==
  ASSUME NEW sc, RunsOfChunks(sc), NEW i \in 1..Len(sc)
  PROVE  sc[i].first \in Nat \ {0} /\ sc[i].per \in Nat
<1>1. sc[i] \in [first : Nat, per : Nat]
  <2>1. PICK S : S = [first : Nat, per : Nat]
    OBVIOUS
  <2>2. sc \in Seq(S) /\ Len(sc) \in Nat
    BY <2>1 DEF RunsOfChunks
  <2>3. sc[i] \in S
    BY <2>2
  <2> QED
    BY <2>1, <2>3
<1>2. sc[i].first \in Nat /\ sc[i].per \in Nat
  BY <1>1
<1>3. sc[1].first = 1 /\ Len(sc) \in Nat /\ 1 \in 1..Len(sc) /\ (1 < i => sc[1].first < sc[i].first)
  BY DEF RunsOfChunks
<1> QED
  BY <1>2, <1>3

LEMMA RunOfIs ==
  ASSUME NEW sc, RunsOfChunks(sc), NEW c \in Nat, NEW i \in 1..Len(sc), Holds(sc, i, c)
  PROVE  RunOf(sc, c) = i
<1> DEFINE P(r) == sc[r].first <= c /\ \A q \in 1..Len(sc) : sc[q].first <= c => q <= r
<1>0. Len(sc) \in Nat /\ DOMAIN sc = 1..Len(sc)
  BY DEF RunsOfChunks
<1>1. ASSUME NEW q \in 1..Len(sc), sc[q].first <= c PROVE q <= i
  <2> SUFFICES ASSUME i < q PROVE FALSE
    BY <1>0
  <2>1. i + 1 \in 1..Len(sc) /\ i < Len(sc) /\ (i + 1 = q \/ i + 1 < q)
    BY <1>0
  <2>2. c < sc[i + 1].first
    BY <2>1 DEF Holds
  <2>3. i + 1 < q => sc[i + 1].first < sc[q].first
    BY <2>1 DEF RunsOfChunks
  <2>4. sc[i + 1].first \in Nat /\ sc[q].first \in Nat
    BY <2>1, RunFields
  <2> QED
    BY <1>1, <2>1, <2>2, <2>3, <2>4
<1>2. P(i)
  BY <1>1 DEF Holds
<1>3. ASSUME NEW r \in 1..Len(sc), P(r) PROVE r = i
  BY <1>0, <1>1, <1>2, <1>3
<1>4. RunOf(sc, c) = CHOOSE r \in 1..Len(sc) : P(r)
  BY <1>0 DEF RunOf
<1> HIDE DEF P
<1> QED
  BY <1>2, <1>3, <1>4

LEMMA RunExists ==
  ASSUME NEW sc, RunsOfChunks(sc), NEW c \in Nat \ {0}
  PROVE  RunOf(sc, c) \in 1..Len(sc) /\ sc[RunOf(sc, c)].per \in Nat
<1>1. PICK n : n = Len(sc) /\ n \in Nat \ {0}
  BY DEF RunsOfChunks
<1>2. PICK u : u = [i \in 0..n |-> IF i = n THEN c + 1 ELSE sc[i + 1].first]
  OBVIOUS
<1>3. \A i \in 0..n : u[i] \in Int
  <2>1. \A i \in 0..n : i # n => i + 1 \in 1..n
    BY <1>1
  <2> QED
    BY <1>1, <1>2, <2>1, RunFields
<1>4. u[0] < c + 1 /\ c + 1 <= u[n]
  <2>1. 0 \in 0..n /\ n \in 0..n /\ 0 # n
    BY <1>1
  <2>2. u[0] = 1
    BY <1>2, <2>1 DEF RunsOfChunks
  <2> QED
    BY <1>2, <2>1, <2>2
<1>5. PICK i \in 1..n : u[i - 1] < c + 1 /\ c + 1 <= u[i]
  <2>1. PICK d : d = c + 1
    OBVIOUS
  <2>2. d \in Int /\ u[0] < d /\ d <= u[n]
    BY <1>4, <2>1
  <2>3. \E i \in 1..n : u[i - 1] < d /\ d <= u[i]
    BY <1>1, <1>3, <2>2, Crossed
  <2> QED
    BY <2>1, <2>3
<1>6. Holds(sc, i, c)
  <2>1. i \in 0..n /\ i - 1 \in 0..n /\ i - 1 # n /\ (i - 1) + 1 = i
    BY <1>1
  <2>2. u[i - 1] = sc[i].first
    BY <1>2, <2>1
  <2>3. i # n => u[i] = sc[i + 1].first /\ i + 1 \in 1..n
    BY <1>1, <1>2, <2>1
  <2>4. sc[i].first \in Nat /\ (i # n => sc[i + 1].first \in Nat)
    BY <1>1, <2>3, RunFields
  <2> QED
    BY <1>1, <1>5, <2>2, <2>3, <2>4 DEF Holds
<1>7. RunOf(sc, c) = i
  BY <1>1, <1>6, RunOfIs
<1> QED
  BY <1>1, <1>7, RunFields

LEMMA Continued ==
  ASSUME NEW a \in Nat, NEW b \in Nat, a <= b, NEW row
  PROVE  [c \in 1..a |-> row[c]] \o [j \in 1..(b - a) |-> row[a + j]] = [c \in 1..b |-> row[c]]
<1>1. PICK x, y, V : /\ x = [c \in 1..a |-> row[c]] /\ y = [j \in 1..(b - a) |-> row[a + j]]
                     /\ V = {row[c] : c \in 1..b}
  OBVIOUS
<1>2. x \in Seq(V) /\ y \in Seq(V) /\ Len(x) = a /\ Len(y) = b - a
  <2>1. \A c \in 1..a : c \in 1..b
    OBVIOUS
  <2>2. x \in [1..a -> V]
    BY <1>1, <2>1
  <2>3. PICK d : d = b - a /\ d \in Nat
    OBVIOUS
  <2>4. \A j \in 1..d : a + j \in 1..b
    BY <2>3
  <2>5. \A j \in 1..d : row[a + j] \in V
    BY <1>1, <2>4
  <2>6. y \in [1..d -> V]
    BY <1>1, <2>3, <2>5
  <2> QED
    BY <2>2, <2>3, <2>6
<1>3. x \o y = [c \in 1..b |-> row[c]]
  BY SMTT(60), <1>1, <1>2
<1> QED
  BY <1>1, <1>3

-----------------------------------------------------------------------------
(* Any table: its chunks are visited one after the other.                  *)

UntilOf(sc, m, i) == IF i < Len(sc) /\ sc[i + 1].first <= m THEN sc[i + 1].first ELSE m + 1
ChunksIn(sc, m, i) == IF sc[i].first < 1 THEN <<>>
                      ELSE [j \in 1..(UntilOf(sc, m, i) - sc[i].first) |->
                              [chunk |-> sc[i].first + j - 1, per |-> sc[i].per]]
EndOf(sc, m, i) == IF i = 0 THEN 0 ELSE UntilOf(sc, m, i) - 1
Rows(sc, m) == [c \in 1..m |-> [chunk |-> c, per |-> sc[RunOf(sc, c)].per]]

\* A run is the chunks behind a, up to b.
Between(chunks, rows, a, b) ==
  /\ a \in Nat /\ b \in Nat /\ a <= b
  /\ chunks = [j \in 1..(b - a) |-> rows[a + j]]

LEMMA RunVisited ==
  ASSUME NEW sc, RunsOfChunks(sc), NEW m \in Nat, NEW i \in 1..Len(sc)
  PROVE  Between(ChunksIn(sc, m, i), Rows(sc, m), EndOf(sc, m, i - 1), EndOf(sc, m, i))
<1> SUFFICES ASSUME NEW a, a = EndOf(sc, m, i - 1), NEW b, b = EndOf(sc, m, i)
             PROVE  /\ a \in Nat /\ b \in Nat /\ a <= b
                    /\ ChunksIn(sc, m, i) = [j \in 1..(b - a) |-> Rows(sc, m)[a + j]]
  BY DEF Between
<1>1. PICK n, h, per : /\ n = Len(sc) /\ n \in Nat /\ i \in 1..n
                       /\ h = sc[i].first /\ per = sc[i].per
  BY DEF RunsOfChunks
<1>2. h \in Nat \ {0} /\ per \in Nat
  BY <1>1, RunFields
<1>3. i < n => sc[i + 1].first \in Nat /\ h < sc[i + 1].first
  <2>1. i < n => i + 1 \in 1..n /\ i < i + 1
    BY <1>1
  <2> QED
    BY <1>1, <2>1, RunFields DEF RunsOfChunks
<1>4. PICK until : until = UntilOf(sc, m, i) /\ b = until - 1
  BY <1>1 DEF EndOf
<1>5. ~ h < 1
  BY <1>2
<1>6. CASE h <= m
  <2>1. a = h - 1
    <3>1. CASE i = 1
      BY <1>1, <3>1 DEF EndOf, RunsOfChunks
    <3>2. CASE i # 1
      <4>1. i - 1 # 0 /\ i - 1 < n /\ (i - 1) + 1 = i
        BY <1>1, <3>2
      <4>2. UntilOf(sc, m, i - 1) = h
        BY Zenon, <1>1, <1>6, <4>1 DEF UntilOf
      <4> QED
        BY Zenon, <4>1, <4>2 DEF EndOf
    <3> QED
      BY <3>1, <3>2
  <2>2. until \in Nat /\ h < until /\ until <= m + 1 /\ (i < n => until <= sc[i + 1].first)
    <3>1. PICK following : following = sc[i + 1].first
      OBVIOUS
    <3>2. until = IF i < n /\ following <= m THEN following ELSE m + 1
      BY Zenon, <1>1, <1>4, <3>1 DEF UntilOf
    <3>3. i < n => following \in Nat /\ h < following
      BY Zenon, <1>3, <3>1
    <3>4. i \in Nat
      BY <1>1
    <3>5. until \in Nat /\ h < until /\ until <= m + 1 /\ (i < n => until <= following)
      BY <1>1, <1>2, <1>6, <3>2, <3>3, <3>4
    <3> QED
      BY Zenon, <3>1, <3>5
  <2>3. a \in Nat /\ b \in Nat /\ a <= b /\ b <= m /\ until - h = b - a
    BY SMTT(60), <1>2, <1>4, <2>1, <2>2
  <2>4. ASSUME NEW j \in 1..(b - a)
        PROVE  Rows(sc, m)[a + j] = [chunk |-> h + j - 1, per |-> per]
    <3>1. a + j \in 1..m /\ a + j \in Nat /\ h <= a + j /\ a + j < until /\ a + j = h + j - 1
      <4>1. j \in Nat \ {0} /\ j <= b - a /\ a \in Nat /\ b \in Nat /\ b <= m
        BY <2>3
      <4>2. h = a + 1 /\ until = b + 1
        BY <1>2, <1>4, <2>1, <2>2, <4>1
      <4>3. PICK x, p : x = a + j /\ p = h + j - 1
        OBVIOUS
      <4>4. x \in Nat /\ x <= b /\ 1 <= x /\ a < x /\ p = x
        BY SMTT(60), <4>1, <4>2, <4>3
      <4> QED
        BY SMTT(60), <4>1, <4>2, <4>3, <4>4
    <3>2. Holds(sc, i, a + j)
      BY <1>1, <1>3, <2>2, <3>1 DEF Holds
    <3>3. RunOf(sc, a + j) = i
      BY <3>1, <3>2, RunOfIs
    <3> QED
      BY <1>1, <3>1, <3>3 DEF Rows
  <2>5. ChunksIn(sc, m, i) = [j \in 1..(until - h) |-> [chunk |-> h + j - 1, per |-> per]]
    BY Zenon, <1>1, <1>4, <1>5 DEF ChunksIn
  <2>6. ChunksIn(sc, m, i) = [j \in 1..(b - a) |-> [chunk |-> h + j - 1, per |-> per]]
    BY Zenon, <2>3, <2>5
  <2> HIDE DEF Rows, ChunksIn
  <2> QED
    BY <2>3, <2>4, <2>6
<1>7. CASE ~ h <= m
  <2>1. until = m + 1 /\ b = m
    BY <1>1, <1>2, <1>3, <1>4, <1>7 DEF UntilOf
  <2>2. a = m
    <3>1. CASE i = 1
      BY <1>1, <1>7, <3>1 DEF EndOf, RunsOfChunks
    <3>2. CASE i # 1
      <4>1. i - 1 # 0 /\ (i - 1) + 1 = i
        BY <1>1, <3>2
      <4>2. UntilOf(sc, m, i - 1) = m + 1
        BY <1>1, <1>7, <4>1 DEF UntilOf
      <4> QED
        BY <4>1, <4>2 DEF EndOf
    <3> QED
      BY <3>1, <3>2
  <2>3. 1..(until - h) = {} /\ 1..(b - a) = {}
    BY <1>2, <1>7, <2>1, <2>2
  <2>4. ChunksIn(sc, m, i) = [j \in 1..(until - h) |-> [chunk |-> h + j - 1, per |-> per]]
    BY Zenon, <1>1, <1>4, <1>5 DEF ChunksIn
  <2>5. PICK row : row = Rows(sc, m)
    OBVIOUS
  <2>6. [j \in 1..(until - h) |-> [chunk |-> h + j - 1, per |-> per]] = [j \in 1..(b - a) |-> row[a + j]]
    BY <2>3
  <2>7. ChunksIn(sc, m, i) = [j \in 1..(b - a) |-> Rows(sc, m)[a + j]]
    BY Zenon, <2>4, <2>5, <2>6
  <2>8. a \in Nat /\ b \in Nat /\ a <= b
    BY <2>1, <2>2
  <2> QED
    BY Zenon, <2>7, <2>8
<1> QED
  BY <1>6, <1>7

LEMMA ChunksVisited ==
  ASSUME NEW sc, RunsOfChunks(sc), NEW m \in Nat
  PROVE  ChunkVisits(sc, m) = Rows(sc, m)
<1>0. PICK n : n = Len(sc) /\ n \in Nat \ {0}
  BY DEF RunsOfChunks
<1> DEFINE Upto(a) == [c \in 1..a |-> Rows(sc, m)[c]]
           Body(f) == [i \in 0..n |-> IF i = 0 THEN <<>> ELSE f[i - 1] \o ChunksIn(sc, m, i)]
<1>1. PICK end : end = [i \in 0..n |-> EndOf(sc, m, i)]
  OBVIOUS
<1>2. \A i \in 1..n : i \in 0..n /\ i - 1 \in 0..n /\ i # 0
  BY <1>0
<1>3. end[0] = 0 /\ end[n] = m
  <2>1. 0 \in 0..n /\ n \in 0..n /\ n # 0
    BY <1>0
  <2> QED
    BY <1>0, <1>1, <2>1 DEF EndOf, UntilOf
<1>4. ASSUME NEW i \in 1..n
      PROVE  Upto(end[i - 1]) \o ChunksIn(sc, m, i) = Upto(end[i])
  <2>1. end[i - 1] = EndOf(sc, m, i - 1) /\ end[i] = EndOf(sc, m, i)
    BY <1>1, <1>2
  <2>2. PICK a, b, row : a = end[i - 1] /\ b = end[i] /\ row = Rows(sc, m)
    OBVIOUS
  <2>3. /\ a \in Nat /\ b \in Nat /\ a <= b
        /\ ChunksIn(sc, m, i) = [j \in 1..(b - a) |-> row[a + j]]
    <3>1. i \in 1..Len(sc) /\ a = EndOf(sc, m, i - 1) /\ b = EndOf(sc, m, i)
      BY <1>0, <2>1, <2>2
    <3>2. Between(ChunksIn(sc, m, i), row, a, b)
      BY <2>2, <3>1, RunVisited
    <3> QED
      BY <3>2 DEF Between
  <2>4. [c \in 1..a |-> row[c]] \o [j \in 1..(b - a) |-> row[a + j]] = [c \in 1..b |-> row[c]]
    BY <2>3, Continued
  <2> QED
    BY <2>2, <2>3, <2>4
<1>5. Upto(0) = <<>>
  OBVIOUS
<1> HIDE DEF Upto
<1>6. PICK f : f = [i \in 0..n |-> Upto(end[i])]
  OBVIOUS
<1>7. \A i \in 0..n : i # 0 => i \in 1..n
  BY <1>0
<1>8. f = Body(f)
  <2>1. \A i \in 0..n : i # 0 => f[i] = f[i - 1] \o ChunksIn(sc, m, i)
    BY <1>2, <1>4, <1>6, <1>7
  <2> QED
    BY <1>3, <1>5, <1>6, <2>1
<1>9. PICK g : g = VisitsOf(sc, m)
  OBVIOUS
<1>10. g = Body(g)
  <2>1. g = CHOOSE h : h = Body(h)
    BY Zenon, <1>0, <1>9 DEF VisitsOf, ChunksIn, UntilOf
  <2> HIDE DEF Body
  <2> QED
    BY <1>8, <2>1
<1>11. \A i \in 0..n : g[i] = Upto(end[i])
  <2>1. PICK apart, A : apart = [i \in 0..n |-> IF g[i] = Upto(end[i]) THEN 0 ELSE 1] /\ A = {0}
    OBVIOUS
  <2>2. apart[0] \in A
    <3>1. 0 \in 0..n
      BY <1>0
    <3> QED
      BY <1>3, <1>5, <1>10, <2>1, <3>1
  <2>3. ASSUME NEW i \in 1..n, apart[i - 1] \in A PROVE apart[i] \in A
    <3>1. i \in 0..n /\ i # 0 /\ i - 1 \in 0..n
      BY <1>2
    <3>2. g[i - 1] = Upto(end[i - 1])
      BY <2>1, <2>3, <3>1
    <3>3. g[i] = g[i - 1] \o ChunksIn(sc, m, i)
      BY <1>10, <3>1
    <3>4. g[i] = Upto(end[i])
      BY <1>4, <3>2, <3>3
    <3> QED
      BY <2>1, <3>1, <3>4
  <2>4. 0 \in Nat /\ n \in Nat /\ 1 = 0 + 1
    BY <1>0
  <2>5. \A i \in 0..n : apart[i] \in A
    BY <2>2, <2>3, <2>4, PrefixInduction
  <2> QED
    BY <2>1, <2>5
<1>12. ChunkVisits(sc, m) = g[n]
  BY <1>0, <1>9, ChunkVisitsIs
<1>13. n \in 0..n
  BY <1>0
<1>14. g[n] = Upto(m)
  BY <1>3, <1>11, <1>13
<1>15. Upto(m) = Rows(sc, m)
  BY DEF Upto, Rows
<1> QED
  BY <1>12, <1>14, <1>15

-----------------------------------------------------------------------------
(* Any table: the samples of a chunk are one behind the other.             *)

CountIn(sizes, v, k) == IF v.per < Len(sizes) - k THEN v.per ELSE Len(sizes) - k
StartsFrom(chunks, sizes, v, k, s) ==
  [j \in 1..CountIn(sizes, v, k) |-> IF j = 1 THEN chunks[v.chunk] ELSE s[j - 1] + sizes[k + j - 1]]
PlacesIn(chunks, sizes, v, k) == CHOOSE s : s = StartsFrom(chunks, sizes, v, k, s)

\* A chunk that is visited after k samples.
Visit(chunks, sizes, v, k) ==
  /\ k \in Nat /\ Len(sizes) \in Nat /\ k <= Len(sizes) /\ v.per \in Nat
  /\ \A i \in 1..Len(sizes) : sizes[i] \in Nat
  /\ chunks[v.chunk] \in Nat

\* The places of n samples that follow k others, the first one at a given place.
OneByOne(w, n, first, sizes, k) ==
  /\ n \in Nat /\ w \in Seq(Nat) /\ Len(w) = n
  /\ \A j \in 1..n : w[j] = IF j = 1 THEN first ELSE w[j - 1] + sizes[k + j - 1]

LEMMA PlacesInChunk ==
  ASSUME NEW chunks, NEW sizes, NEW v, NEW k, Visit(chunks, sizes, v, k),
         NEW w, w = PlacesIn(chunks, sizes, v, k), NEW n, n = CountIn(sizes, v, k)
  PROVE  OneByOne(w, n, chunks[v.chunk], sizes, k)
<1>1. n \in Nat /\ k \in Nat /\ k + n <= Len(sizes) /\ Len(sizes) \in Nat
  BY DEF Visit, CountIn
<1>2. PICK first : first = chunks[v.chunk] /\ first \in Nat
  BY DEF Visit
<1>3. \A j \in 1..n : j # 1 => sizes[k + j - 1] \in Nat
  <2>1. \A j \in 1..n : j # 1 => k + j - 1 \in 1..Len(sizes)
    BY <1>1
  <2> QED
    BY <2>1 DEF Visit
<1> DEFINE Body(s) == [j \in 1..n |-> IF j = 1 THEN first ELSE s[j - 1] + sizes[k + j - 1]]
<1>4. PICK st : st = [j \in 1..n |-> [x \in Nat |-> IF j = 1 THEN first ELSE x + sizes[k + j - 1]]]
  OBVIOUS
<1>5. PICK f : /\ f \in [0..n -> Nat] /\ f[0] = 0
               /\ \A j \in 1..n : f[j] = st[j][f[j - 1]]
  <2>1. st \in [1..n -> [Nat -> Nat]]
    <3>1. \A j \in 1..n : \A x \in Nat : (IF j = 1 THEN first ELSE x + sizes[k + j - 1]) \in Nat
      <4>1. \A y \in Nat : \A x \in Nat : x + y \in Nat
        OBVIOUS
      <4> QED
        BY <1>2, <1>3, <4>1
    <3>2. \A j \in 1..n : [x \in Nat |-> IF j = 1 THEN first ELSE x + sizes[k + j - 1]] \in [Nat -> Nat]
      BY <3>1
    <3> QED
      BY Zenon, <1>4, <3>2
  <2>2. Stepped(n, Nat, 0, st)
    BY <1>1, <2>1 DEF Stepped
  <2> QED
    BY <2>2, Recursion
<1>6. PICK s : s = [j \in 1..n |-> f[j]]
  OBVIOUS
<1>7. s = Body(s)
  <2>1. \A j \in 1..n : j - 1 \in 0..n /\ (j # 1 => j - 1 \in 1..n)
    BY <1>1
  <2>2. \A j \in 1..n : f[j] = IF j = 1 THEN first ELSE f[j - 1] + sizes[k + j - 1]
    BY <1>4, <1>5, <2>1
  <2>3. \A j \in 1..n : s[j] = IF j = 1 THEN first ELSE s[j - 1] + sizes[k + j - 1]
    BY <1>6, <2>1, <2>2
  <2> QED
    BY <1>6, <2>3
<1>8. w = Body(w)
  <2>1. \A z : StartsFrom(chunks, sizes, v, k, z) = Body(z)
    BY <1>2 DEF StartsFrom
  <2>2. w = CHOOSE z : z = StartsFrom(chunks, sizes, v, k, z)
    BY Zenon DEF PlacesIn
  <2> HIDE DEF Body
  <2>3. \E z : z = StartsFrom(chunks, sizes, v, k, z)
    BY <1>7, <2>1
  <2>4. w = StartsFrom(chunks, sizes, v, k, w)
    BY Zenon, <2>2, <2>3
  <2> QED
    BY <2>1, <2>4
<1>9. \A j \in 1..n : w[j] = IF j = 1 THEN first ELSE w[j - 1] + sizes[k + j - 1]
  BY <1>8
<1>10. \A j \in 1..n : w[j] \in Nat
  <2>1. PICK z : z = [j \in 0..n |-> IF j = 0 THEN 0 ELSE w[j]]
    OBVIOUS
  <2>2. z[0] \in Nat
    BY <1>1, <2>1
  <2>3. ASSUME NEW j \in 1..n, z[j - 1] \in Nat PROVE z[j] \in Nat
    <3>1. j \in 0..n /\ j # 0 /\ z[j] = w[j]
      BY <2>1
    <3>2. CASE j = 1
      BY <1>2, <1>9, <3>1, <3>2
    <3>3. CASE j # 1
      <4>1. j - 1 \in 0..n /\ j - 1 # 0
        BY <1>1, <3>3
      <4>2. z[j - 1] = w[j - 1]
        BY <2>1, <4>1
      <4>3. w[j] = w[j - 1] + sizes[k + j - 1]
        BY <1>9, <3>3
      <4> QED
        BY <1>3, <2>3, <3>1, <3>3, <4>2, <4>3
    <3> QED
      BY <3>2, <3>3
  <2>4. 0 \in Nat /\ n \in Nat /\ 1 = 0 + 1
    BY <1>1
  <2>5. \A j \in 0..n : z[j] \in Nat
    BY <2>2, <2>3, <2>4, PrefixInduction
  <2>6. \A j \in 1..n : j \in 0..n /\ j # 0
    OBVIOUS
  <2> QED
    BY <2>1, <2>5, <2>6
<1>11. w = [j \in 1..n |-> w[j]]
  BY <1>8
<1>12. w \in [1..n -> Nat]
  <2> HIDE DEF Body
  <2> QED
    BY <1>10, <1>11
<1>13. w \in Seq(Nat) /\ Len(w) = n
  BY <1>1, <1>12
<1> QED
  BY <1>1, <1>2, <1>9, <1>13 DEF OneByOne

-----------------------------------------------------------------------------
(* Any table: where the samples of the first chunks are.                   *)

\* The chunks, how many samples each holds and the first ones hold together,
\* and the sizes of the n samples.
ChunkTable(chunks, sizes, s, u, m, n) ==
  /\ m \in Nat /\ n \in Nat
  /\ chunks \in Seq(Nat) /\ Len(chunks) = m
  /\ sizes \in Seq(Nat) /\ Len(sizes) = n
  /\ s \in [1..m -> Nat] /\ Summed(u, s, m)

VisitTo(s, c) == [chunk |-> c, per |-> s[c]]

\* The j-th sample is in the chunk b.
InChunkOf(u, b, j) == u[b - 1] < j /\ j <= u[b]

\* The offsets of the samples in the first c chunks.
PlacedIn(o, chunks, sizes, u, c) ==
  /\ o \in Seq(Nat)
  /\ Len(o) = IF u[c] < Len(sizes) THEN u[c] ELSE Len(sizes)
  /\ \A j \in 1..Len(o), b \in 1..c : InChunkOf(u, b, j) =>
       o[j] = IF j = u[b - 1] + 1 THEN chunks[b] ELSE o[j - 1] + sizes[j - 1]

LEMMA SumsAscend ==
  ASSUME NEW m \in Nat, NEW s, s \in [1..m -> Nat], NEW u, Summed(u, s, m),
         NEW a \in 0..m, NEW b \in 0..m, a <= b
  PROVE  u[a] \in Nat /\ u[b] \in Nat /\ u[a] <= u[b]
<1>0. u \in [0..m -> Nat] /\ \A i \in 1..m : u[i] = u[i - 1] + s[i]
  BY DEF Summed
<1>1. u[a] \in Nat /\ u[b] \in Nat
  BY <1>0
<1>2. PICK above, A : above = [i \in a..b |-> IF u[a] <= u[i] THEN 0 ELSE 1] /\ A = {0}
  OBVIOUS
<1>3. above[a] \in A
  BY <1>1, <1>2
<1>4. PICK nx : nx = a + 1
  OBVIOUS
<1>5. ASSUME NEW i \in nx..b, above[i - 1] \in A PROVE above[i] \in A
  <2>1. i \in 1..m /\ i - 1 \in 0..m /\ i \in 0..m /\ i - 1 \in a..b /\ i \in a..b
    BY <1>4
  <2>2. u[a] <= u[i - 1]
    BY <1>2, <1>5, <2>1
  <2>3. u[i] = u[i - 1] + s[i] /\ s[i] \in Nat /\ u[i - 1] \in Nat
    BY <1>0, <2>1
  <2> QED
    BY <1>1, <1>2, <2>1, <2>2, <2>3
<1>6. a \in Nat /\ b \in Nat /\ nx = a + 1
  BY <1>4
<1>7. \A i \in a..b : above[i] \in A
  BY <1>3, <1>5, <1>6, PrefixInduction
<1>8. b \in a..b
  BY <1>6
<1> QED
  BY <1>1, <1>2, <1>7, <1>8

LEMMA PlacedNext ==
  ASSUME NEW chunks, NEW sizes, NEW s, NEW u, NEW m, NEW n, ChunkTable(chunks, sizes, s, u, m, n),
         NEW c \in 1..m, NEW o, PlacedIn(o, chunks, sizes, u, c - 1)
  PROVE  PlacedIn(o \o PlacesIn(chunks, sizes, VisitTo(s, c), Len(o)), chunks, sizes, u, c)
<1>0. /\ m \in Nat /\ n \in Nat /\ Len(sizes) = n /\ s \in [1..m -> Nat] /\ Summed(u, s, m)
      /\ chunks \in Seq(Nat) /\ Len(chunks) = m /\ sizes \in Seq(Nat)
  BY DEF ChunkTable
<1>1. PICK k, v, w, q, all : /\ k = Len(o) /\ v = VisitTo(s, c) /\ w = PlacesIn(chunks, sizes, v, k)
                             /\ q = CountIn(sizes, v, k) /\ all = o \o w
  OBVIOUS
<1>2. c - 1 \in 0..m /\ c \in 0..m
  BY <1>0
<1>3. u[c - 1] \in Nat /\ s[c] \in Nat /\ u[c] = u[c - 1] + s[c]
  BY <1>0, <1>2 DEF Summed
<1>4. o \in Seq(Nat) /\ k = (IF u[c - 1] < n THEN u[c - 1] ELSE n)
  BY <1>0, <1>1 DEF PlacedIn
<1>5. k \in Nat /\ k <= n
  BY <1>0, <1>3, <1>4
<1>6. v.per = s[c] /\ v.chunk = c
  BY <1>1 DEF VisitTo
<1>7. Visit(chunks, sizes, v, k)
  <2>1. chunks[c] \in Nat
    BY <1>0
  <2>2. \A i \in 1..Len(sizes) : sizes[i] \in Nat
    BY <1>0
  <2> QED
    BY <1>0, <1>3, <1>5, <1>6, <2>1, <2>2 DEF Visit
<1>8. /\ q \in Nat /\ w \in Seq(Nat) /\ Len(w) = q
      /\ \A j \in 1..q : w[j] = IF j = 1 THEN chunks[c] ELSE w[j - 1] + sizes[k + j - 1]
  <2>1. OneByOne(w, q, chunks[v.chunk], sizes, k)
    BY <1>1, <1>7, PlacesInChunk
  <2> QED
    BY <1>6, <2>1 DEF OneByOne
<1>9. q = IF s[c] < n - k THEN s[c] ELSE n - k
  BY <1>0, <1>1, <1>6 DEF CountIn
<1>10. /\ Len(all) = k + q /\ all \in Seq(Nat)
       /\ \A j \in 1..k : all[j] = o[j]
       /\ \A j \in 1..q : all[k + j] = w[j]
  <2>1. PICK V : V = Nat
    OBVIOUS
  <2>2. o \in Seq(V) /\ w \in Seq(V)
    BY <1>4, <1>8, <2>1
  <2>3. all \in Seq(V)
    BY <1>1, <2>2
  <2>4. /\ Len(o) \in Nat /\ Len(w) \in Nat /\ Len(all) = Len(o) + Len(w)
        /\ \A j \in 1..Len(o) : all[j] = o[j]
        /\ \A j \in 1..Len(w) : all[Len(o) + j] = w[j]
    BY <1>1, <2>2, Joined
  <2>5. Len(o) = k /\ Len(w) = q
    BY <1>1, <1>8
  <2>6. all \in Seq(Nat)
    BY Zenon, <2>1, <2>3
  <2> QED
    BY Zenon, <2>4, <2>5, <2>6
<1>11. Len(all) = IF u[c] < n THEN u[c] ELSE n
  BY SMTT(60), <1>0, <1>3, <1>4, <1>9, <1>10
<1>12. ASSUME NEW j \in 1..Len(all), NEW b \in 1..c, InChunkOf(u, b, j)
       PROVE  all[j] = IF j = u[b - 1] + 1 THEN chunks[b] ELSE all[j - 1] + sizes[j - 1]
  <2>1. u[b - 1] < j /\ j <= u[b] /\ b - 1 \in 0..m /\ b \in 0..m /\ j \in Nat \ {0}
    BY <1>0, <1>12 DEF InChunkOf
  <2>2. u[b - 1] \in Nat /\ u[b] \in Nat
    BY <1>0, <2>1 DEF Summed
  <2>3. CASE j <= k
    <3>1. b # c
      BY <1>0, <1>3, <1>4, <2>1, <2>3
    <3>2. b \in 1..(c - 1) /\ j \in 1..k
      BY <1>5, <2>1, <2>3, <3>1
    <3>3. o[j] = IF j = u[b - 1] + 1 THEN chunks[b] ELSE o[j - 1] + sizes[j - 1]
      BY <1>1, <1>12, <3>2 DEF PlacedIn
    <3>4. j # u[b - 1] + 1 => j - 1 \in 1..k
      BY <1>5, <2>1, <2>2, <2>3
    <3> QED
      BY <1>10, <3>2, <3>3, <3>4
  <2>4. CASE ~ j <= k
    <3>1. PICK i : i = j - k
      OBVIOUS
    <3>2. i \in 1..q /\ j = k + i
      BY <1>5, <1>8, <1>10, <2>1, <2>4, <3>1
    <3>3. k = u[c - 1]
      BY <1>0, <1>3, <1>4, <1>9, <3>2
    <3>4. b = c
      <4> SUFFICES ASSUME b # c PROVE FALSE
        OBVIOUS
      <4>1. b <= c - 1
        BY <1>0
      <4>2. u[b] <= u[c - 1]
        BY <1>0, <1>2, <2>1, <4>1, SumsAscend
      <4> QED
        BY <1>3, <2>1, <2>2, <2>4, <3>3, <4>2
    <3>5. all[j] = IF i = 1 THEN chunks[c] ELSE w[i - 1] + sizes[k + i - 1]
      BY <1>8, <1>10, <3>2
    <3>6. i = 1 <=> j = u[b - 1] + 1
      BY <1>3, <3>2, <3>3, <3>4
    <3>7. CASE i = 1
      BY <3>4, <3>5, <3>6, <3>7
    <3>8. CASE i # 1
      <4>1. i - 1 \in 1..q /\ j - 1 = k + (i - 1) /\ k + i - 1 = j - 1
        BY <1>5, <1>8, <3>2, <3>8
      <4>2. all[j - 1] = w[i - 1]
        BY <1>10, <4>1
      <4> QED
        BY <3>5, <3>6, <3>8, <4>1, <4>2
    <3> QED
      BY <3>7, <3>8
  <2> QED
    BY <2>3, <2>4
<1>13. PlacedIn(all, chunks, sizes, u, c)
  BY <1>0, <1>10, <1>11, <1>12 DEF PlacedIn
<1> QED
  BY <1>1, <1>13

\* resolve_sample_offsets, whatever the chunks hold.
LEMMA ResolvedAre ==
  ASSUME NEW chunks, NEW sizes, NEW s, NEW u, NEW m, NEW n, ChunkTable(chunks, sizes, s, u, m, n),
         NEW sc, ChunkVisits(sc, m) = [c \in 1..m |-> VisitTo(s, c)]
  PROVE  PlacedIn(ResolveSampleOffsets(sc, chunks, sizes), chunks, sizes, u, m)
<1>1. /\ m \in Nat /\ n \in Nat /\ Len(sizes) = n /\ s \in [1..m -> Nat] /\ Summed(u, s, m)
      /\ chunks \in Seq(Nat) /\ Len(chunks) = m /\ sizes \in Seq(Nat)
  BY DEF ChunkTable
<1> DEFINE More(o, c) == o \o PlacesIn(chunks, sizes, VisitTo(s, c), Len(o))
           Body(f) == [c \in 0..m |-> IF c = 0 THEN <<>> ELSE More(f[c - 1], c)]
<1>2. PICK A : A = {o \in Seq(Nat) : Len(o) <= n}
  OBVIOUS
<1>3. ASSUME NEW c \in 1..m, NEW o \in A PROVE More(o, c) \in A
  <2>1. o \in Seq(Nat) /\ Len(o) <= n /\ Len(o) \in Nat
    BY <1>2
  <2>2. PICK k, v, w, q, all : /\ k = Len(o) /\ v = VisitTo(s, c) /\ w = PlacesIn(chunks, sizes, v, k)
                               /\ q = CountIn(sizes, v, k) /\ all = o \o w
    OBVIOUS
  <2>3. v.per = s[c] /\ v.chunk = c /\ s[c] \in Nat /\ chunks[c] \in Nat
    BY <1>1, <2>2 DEF VisitTo
  <2>4. \A i \in 1..Len(sizes) : sizes[i] \in Nat
    BY <1>1
  <2>5. Visit(chunks, sizes, v, k)
    BY <1>1, <2>1, <2>2, <2>3, <2>4 DEF Visit
  <2>6. q \in Nat /\ w \in Seq(Nat) /\ Len(w) = q
    BY <2>2, <2>5, PlacesInChunk DEF OneByOne
  <2>7. q <= n - k
    BY <1>1, <2>1, <2>2, <2>3 DEF CountIn
  <2>8. all \in Seq(Nat) /\ Len(all) = k + q
    <3>1. PICK V : V = Nat
      OBVIOUS
    <3>2. o \in Seq(V) /\ w \in Seq(V)
      BY <2>1, <2>6, <3>1
    <3>3. all \in Seq(V)
      BY <2>2, <3>2
    <3>4. /\ Len(o) \in Nat /\ Len(w) \in Nat /\ Len(all) = Len(o) + Len(w)
      BY <2>2, <3>2, Joined
    <3> QED
      BY <2>2, <2>6, <3>1, <3>3, <3>4
  <2>9. all \in A
    BY <1>1, <1>2, <2>1, <2>2, <2>6, <2>7, <2>8
  <2> QED
    BY <2>2, <2>9
<1>4. PICK st : st = [c \in 1..m |-> [o \in A |-> More(o, c)]]
  OBVIOUS
<1>5. PICK f : /\ f \in [0..m -> A] /\ f[0] = <<>>
               /\ \A c \in 1..m : f[c] = st[c][f[c - 1]]
  <2> HIDE DEF More
  <2>1. st \in [1..m -> [A -> A]]
    BY <1>3, <1>4
  <2>2. <<>> \in A
    BY <1>1, <1>2
  <2>3. Stepped(m, A, <<>>, st)
    BY <1>1, <2>1, <2>2 DEF Stepped
  <2> QED
    BY <2>3, Recursion
<1>6. f = Body(f)
  <2> HIDE DEF More
  <2>1. \A c \in 0..m : c # 0 => c \in 1..m /\ c - 1 \in 0..m
    BY <1>1
  <2>2. \A c \in 0..m : c # 0 => f[c] = More(f[c - 1], c)
    BY <1>4, <1>5, <2>1
  <2> QED
    BY <1>5, <2>2
<1>7. PICK visits : visits = [c \in 1..m |-> VisitTo(s, c)]
  OBVIOUS
<1>8. ChunkVisits(sc, Len(chunks)) = visits /\ Len(visits) = m
  BY <1>1, <1>7
<1>9. PICK g : g = OffsetsIn(visits, chunks, sizes)
  OBVIOUS
<1>10. g = Body(g)
  <2> DEFINE Other(h) == [i \in 0..Len(visits) |->
                            LET done == h[i - 1]
                            IN  IF i = 0 THEN <<>>
                                ELSE done \o PlacesIn(chunks, sizes, visits[i], Len(done))]
  <2>1. g = CHOOSE h : h = Other(h)
    BY Zenon, <1>9 DEF OffsetsIn, PlacesIn, StartsFrom, CountIn
  <2>2. \A h : Other(h) = Body(h)
    <3>1. \A i \in 0..m : i # 0 => i \in 1..m
      BY <1>1
    <3> QED
      BY <1>7, <1>8, <3>1
  <2> HIDE DEF Other, Body
  <2> QED
    BY <1>6, <2>1, <2>2
<1>11. \A c \in 0..m : PlacedIn(g[c], chunks, sizes, u, c)
  <2>1. PICK apart, B : /\ apart = [c \in 0..m |-> IF PlacedIn(g[c], chunks, sizes, u, c) THEN 0 ELSE 1]
                        /\ B = {0}
    OBVIOUS
  <2>2. apart[0] \in B
    <3>1. 0 \in 0..m /\ g[0] = <<>> /\ u[0] = 0
      BY <1>1, <1>10 DEF Summed
    <3>2. PlacedIn(<<>>, chunks, sizes, u, 0)
      BY <1>1, <3>1 DEF PlacedIn
    <3> QED
      BY <2>1, <3>1, <3>2
  <2>3. ASSUME NEW c \in 1..m, apart[c - 1] \in B PROVE apart[c] \in B
    <3>1. c \in 0..m /\ c # 0 /\ c - 1 \in 0..m
      BY <1>1
    <3>2. PlacedIn(g[c - 1], chunks, sizes, u, c - 1)
      BY <2>1, <2>3, <3>1
    <3>3. g[c] = More(g[c - 1], c)
      <4> HIDE DEF More
      <4> QED
        BY <1>10, <3>1
    <3>4. PlacedIn(g[c], chunks, sizes, u, c)
      BY <3>2, <3>3, PlacedNext
    <3> QED
      BY <2>1, <3>1, <3>4
  <2>4. 0 \in Nat /\ m \in Nat /\ 1 = 0 + 1
    BY <1>1
  <2>5. \A c \in 0..m : apart[c] \in B
    BY <2>2, <2>3, <2>4, PrefixInduction
  <2> QED
    BY <2>1, <2>5
<1>12. m \in 0..m /\ ResolveSampleOffsets(sc, chunks, sizes) = g[m]
  BY <1>1, <1>8, <1>9, ResolveIs
<1> QED
  BY <1>11, <1>12

-----------------------------------------------------------------------------
(* Any table: the chunk of a sample.                                       *)

LEMMA HeldByIs ==
  ASSUME NEW stbl, RunsOfChunks(stbl.stsc), NEW m \in Nat, Len(stbl.chunks) = m,
         NEW s, s = [c \in 1..m |-> stbl.stsc[RunOf(stbl.stsc, c)].per]
  PROVE  s \in [1..m -> Nat] /\ Summed(HeldBy(stbl), s, m)
<1> DEFINE Body(f) == [c \in 0..m |-> IF c = 0 THEN 0 ELSE f[c - 1] + stbl.stsc[RunOf(stbl.stsc, c)].per]
<1>1. s \in [1..m -> Nat]
  <2>1. ASSUME NEW c \in 1..m PROVE s[c] \in Nat
    <3>1. c \in Nat \ {0}
      OBVIOUS
    <3>2. stbl.stsc[RunOf(stbl.stsc, c)].per \in Nat
      BY <3>1, RunExists
    <3> QED
      BY <3>2
  <2>2. s = [c \in 1..m |-> s[c]]
    OBVIOUS
  <2> QED
    BY Zenon, <2>1, <2>2
<1>2. \A c \in 0..m : c # 0 => c \in 1..m /\ c - 1 \in 0..m
  OBVIOUS
<1>3. \A c \in 1..m : s[c] = stbl.stsc[RunOf(stbl.stsc, c)].per
  OBVIOUS
<1>4. PICK t : t = s
  OBVIOUS
<1>5. PICK st : st = [c \in 1..m |-> [x \in Nat |-> x + t[c]]]
  OBVIOUS
<1>6. PICK f : /\ f \in [0..m -> Nat] /\ f[0] = 0
               /\ \A c \in 1..m : f[c] = st[c][f[c - 1]]
  <2>1. st \in [1..m -> [Nat -> Nat]]
    <3>1. t \in [1..m -> Nat]
      BY <1>1, <1>4
    <3> QED
      BY <1>5, <3>1
  <2>2. Stepped(m, Nat, 0, st)
    BY <2>1 DEF Stepped
  <2> QED
    BY <2>2, Recursion
<1>7. f = Body(f)
  <2>1. \A c \in 0..m : c # 0 => f[c] = f[c - 1] + t[c]
    BY <1>2, <1>5, <1>6
  <2>2. \A c \in 0..m : c # 0 => f[c] = f[c - 1] + stbl.stsc[RunOf(stbl.stsc, c)].per
    BY <1>2, <1>3, <1>4, <2>1
  <2> QED
    BY <1>6, <2>2
<1>8. PICK g : g = HeldBy(stbl)
  OBVIOUS
<1>9. g = Body(g)
  <2>1. g = CHOOSE h : h = Body(h)
    BY Zenon, <1>8 DEF HeldBy
  <2> HIDE DEF Body
  <2> QED
    BY <1>7, <2>1
<1>10. g[0] = 0 /\ \A c \in 1..m : g[c] = g[c - 1] + t[c]
  <2>1. 0 \in 0..m /\ \A c \in 1..m : c \in 0..m /\ c # 0
    OBVIOUS
  <2>2. \A c \in 1..m : g[c] = g[c - 1] + stbl.stsc[RunOf(stbl.stsc, c)].per
    BY <1>9, <2>1
  <2> QED
    BY <1>3, <1>4, <1>9, <2>1, <2>2
<1>11. \A c \in 0..m : g[c] \in Nat
  <2>1. g[0] \in Nat
    BY <1>10
  <2>2. ASSUME NEW c \in 1..m, g[c - 1] \in Nat PROVE g[c] \in Nat
    <3>1. g[c] = g[c - 1] + t[c] /\ t[c] \in Nat
      BY <1>1, <1>4, <1>10
    <3> QED
      BY <2>2, <3>1
  <2>3. 0 \in Nat /\ m \in Nat /\ 1 = 0 + 1
    OBVIOUS
  <2> QED
    BY <2>1, <2>2, <2>3, PrefixInduction
<1>12. g \in [0..m -> Nat]
  <2>1. g = [c \in 0..m |-> g[c]]
    BY <1>9
  <2> HIDE DEF Body
  <2> QED
    BY Zenon, <1>11, <2>1
<1>13. Summed(g, t, m)
  BY <1>10, <1>12 DEF Summed
<1> QED
  BY <1>1, <1>4, <1>8, <1>13

LEMMA ChunkOfIs ==
  ASSUME NEW stbl, NEW m \in Nat, Len(stbl.chunks) = m, DOMAIN stbl.chunks = 1..m,
         NEW s, s \in [1..m -> Nat], NEW u, u = HeldBy(stbl), Summed(u, s, m),
         NEW j \in Nat \ {0}, j <= u[m]
  PROVE  /\ ChunkOf(stbl, j) \in 1..m /\ InChunkOf(u, ChunkOf(stbl, j), j)
         /\ \A b \in 1..m : InChunkOf(u, b, j) => b = ChunkOf(stbl, j)
<1>1. u \in [0..m -> Nat] /\ u[0] = 0
  BY DEF Summed
<1>2. PICK c \in 1..m : InChunkOf(u, c, j)
  <2>1. u[0] < j /\ j \in Int
    BY <1>1
  <2>2. \A i \in 0..m : u[i] \in Int
    BY <1>1
  <2>3. \E i \in 1..m : u[i - 1] < j /\ j <= u[i]
    BY <2>1, <2>2, Crossed
  <2> QED
    BY <2>3 DEF InChunkOf
<1>3. ASSUME NEW a \in 1..m, NEW b \in 1..m, InChunkOf(u, a, j), InChunkOf(u, b, j) PROVE ~ a < b
  <2> SUFFICES ASSUME a < b PROVE FALSE
    OBVIOUS
  <2>1. a \in 0..m /\ b - 1 \in 0..m /\ a <= b - 1
    OBVIOUS
  <2>2. u[a] \in Nat /\ u[b - 1] \in Nat /\ u[a] <= u[b - 1]
    BY <2>1, SumsAscend
  <2> QED
    BY <1>3, <2>2 DEF InChunkOf
<1>4. ASSUME NEW b \in 1..m, InChunkOf(u, b, j) PROVE b = c
  BY <1>2, <1>3, <1>4
<1>5. ChunkOf(stbl, j) = CHOOSE b \in 1..m : InChunkOf(u, b, j)
  BY DEF ChunkOf, InChunkOf
<1>6. ChunkOf(stbl, j) = c
  BY <1>2, <1>4, <1>5
<1> QED
  BY <1>2, <1>4, <1>6

\* A sample follows the one before it unless it is the first of its chunk.
LEMMA FirstInChunk ==
  ASSUME NEW stbl, NEW m \in Nat, Len(stbl.chunks) = m, DOMAIN stbl.chunks = 1..m,
         NEW s, s \in [1..m -> Nat], NEW u, u = HeldBy(stbl), Summed(u, s, m),
         NEW j \in Nat \ {0}, j <= u[m], NEW c, c = ChunkOf(stbl, j)
  PROVE  (j > 1 /\ ChunkOf(stbl, j - 1) = c) <=> j # u[c - 1] + 1
<1>1. c \in 1..m /\ InChunkOf(u, c, j)
  BY ChunkOfIs
<1>2. u[c - 1] \in Nat /\ u[c] \in Nat /\ u[m] \in Nat
  <2>1. c - 1 \in 0..m /\ c \in 0..m /\ m \in 0..m
    BY <1>1
  <2> QED
    BY <2>1 DEF Summed
<1>3. PICK i : i = j - 1
  OBVIOUS
<1>4. ASSUME j > 1, ChunkOf(stbl, i) = c PROVE j # u[c - 1] + 1
  <2>1. i \in Nat \ {0} /\ i <= u[m]
    BY <1>2, <1>3, <1>4
  <2>2. InChunkOf(u, ChunkOf(stbl, i), i)
    BY <2>1, ChunkOfIs
  <2>3. u[c - 1] < i
    BY <1>4, <2>2 DEF InChunkOf
  <2> QED
    BY <1>2, <1>3, <2>1, <2>3
<1>5. ASSUME j # u[c - 1] + 1 PROVE j > 1 /\ ChunkOf(stbl, i) = c
  <2>1. u[c - 1] < j /\ j <= u[c]
    BY <1>1 DEF InChunkOf
  <2>2. j > 1 /\ i \in Nat \ {0} /\ i <= u[m] /\ InChunkOf(u, c, i)
    <3>0. PICK x, y, z : x = u[c - 1] /\ y = u[c] /\ z = u[m]
      OBVIOUS
    <3>1. j > 1 /\ i \in Nat \ {0} /\ i <= u[m]
      BY <1>2, <1>3, <1>5, <2>1, <3>0
    <3>2. u[c - 1] < i /\ i <= u[c]
      BY SMTT(60), <1>2, <1>3, <1>5, <2>1, <3>0
    <3> QED
      BY <3>1, <3>2 DEF InChunkOf
  <2>3. c = ChunkOf(stbl, i)
    BY <1>1, <2>2, ChunkOfIs
  <2> QED
    BY <2>2, <2>3
<1> QED
  BY <1>3, <1>4, <1>5

ReadInChunks(stbl, read) ==
  /\ Len(read) = Len(stbl.stsz)
  /\ \A j \in DOMAIN read :
       read[j].at = IF j > 1 /\ ChunkOf(stbl, j - 1) = ChunkOf(stbl, j)
                    THEN read[j - 1].at + read[j - 1].size ELSE stbl.chunks[ChunkOf(stbl, j)]

LEMMA TableResolved ==
  ASSUME NEW stbl, PlacesAll(stbl), NEW read, read = ReadStbl(stbl)
  PROVE  ReadInChunks(stbl, read)
<1>1. PICK n, m, sc, chunks, sizes : /\ n = Len(sizes) /\ m = Len(chunks) /\ sc = stbl.stsc
                                     /\ chunks = stbl.chunks /\ sizes = stbl.stsz
  OBVIOUS
<1>2. /\ sizes \in Seq(Nat) /\ chunks \in Seq(Nat)
      /\ sc \in Seq([first : Nat, per : Nat])
      /\ sizes # <<>> => /\ sc # <<>> /\ sc[1].first = 1
                         /\ \A q, r \in DOMAIN sc : q < r => sc[q].first < sc[r].first
                         /\ n <= HeldBy(stbl)[m]
  BY <1>1 DEF PlacesAll
<1>3. n \in Nat /\ m \in Nat /\ DOMAIN chunks = 1..m
  BY <1>1, <1>2
<1>4. PICK o : o = ResolveSampleOffsets(sc, chunks, sizes)
  OBVIOUS
<1>5. /\ DOMAIN read = 1..n /\ Len(read) = n
      /\ \A j \in 1..n : read[j].at = o[j] /\ read[j].size = sizes[j]
  BY <1>1, <1>3, <1>4 DEF ReadStbl
<1>6. ASSUME NEW j \in 1..n
      PROVE  read[j].at = IF j > 1 /\ ChunkOf(stbl, j - 1) = ChunkOf(stbl, j)
                          THEN read[j - 1].at + read[j - 1].size ELSE chunks[ChunkOf(stbl, j)]
  <2>1. sizes # <<>>
    BY <1>1, <1>3
  <2>2. RunsOfChunks(sc)
    <3>1. Len(sc) \in Nat \ {0} /\ DOMAIN sc = 1..Len(sc)
      BY <1>2, <2>1
    <3> QED
      BY <1>2, <2>1, <3>1 DEF RunsOfChunks
  <2>3. PICK s, u : s = [c \in 1..m |-> sc[RunOf(sc, c)].per] /\ u = HeldBy(stbl)
    OBVIOUS
  <2>4. s \in [1..m -> Nat] /\ Summed(u, s, m)
    BY <1>1, <1>3, <2>2, <2>3, HeldByIs
  <2>5. ChunkVisits(sc, m) = [c \in 1..m |-> VisitTo(s, c)]
    <3>1. ChunkVisits(sc, m) = Rows(sc, m)
      BY <1>3, <2>2, ChunksVisited
    <3>2. \A c \in 1..m : s[c] = sc[RunOf(sc, c)].per
      BY <2>3
    <3> QED
      BY <3>1, <3>2 DEF Rows, VisitTo
  <2>6. ChunkTable(chunks, sizes, s, u, m, n)
    BY <1>1, <1>2, <1>3, <2>4 DEF ChunkTable
  <2>7. PlacedIn(o, chunks, sizes, u, m)
    BY <1>4, <2>5, <2>6, ResolvedAre
  <2>8. n <= u[m] /\ u[m] \in Nat
    <3>1. m \in 0..m
      BY <1>3
    <3> QED
      BY <1>2, <2>1, <2>3, <2>4, <3>1 DEF Summed
  <2>9. Len(o) = n
    BY <1>1, <1>3, <2>7, <2>8 DEF PlacedIn
  <2>10. PICK c : c = ChunkOf(stbl, j)
    OBVIOUS
  <2>11. j \in Nat \ {0} /\ j <= u[m]
    BY <1>3, <2>8
  <2>12. c \in 1..m /\ InChunkOf(u, c, j)
    <3>1. Len(stbl.chunks) = m /\ DOMAIN stbl.chunks = 1..m /\ u = HeldBy(stbl)
      BY <1>1, <1>3, <2>3
    <3>2. ChunkOf(stbl, j) \in 1..m /\ InChunkOf(u, ChunkOf(stbl, j), j)
      BY <1>3, <2>4, <2>11, <3>1, ChunkOfIs
    <3> QED
      BY <2>10, <3>2
  <2>13. (j > 1 /\ ChunkOf(stbl, j - 1) = c) <=> j # u[c - 1] + 1
    BY SMTT(60), <1>1, <1>3, <2>3, <2>4, <2>10, <2>11, FirstInChunk
  <2>14. o[j] = IF j = u[c - 1] + 1 THEN chunks[c] ELSE o[j - 1] + sizes[j - 1]
    BY <2>7, <2>9, <2>12 DEF PlacedIn
  <2>15. CASE j = u[c - 1] + 1
    BY <1>5, <2>10, <2>13, <2>14, <2>15
  <2>16. CASE j # u[c - 1] + 1
    <3>1. j > 1 /\ j - 1 \in 1..n
      BY <1>3, <2>13, <2>16
    <3>2. read[j - 1].at = o[j - 1] /\ read[j - 1].size = sizes[j - 1]
      BY <1>5, <3>1
    <3> QED
      BY <1>5, <2>10, <2>13, <2>14, <2>16, <3>2
  <2> QED
    BY <2>15, <2>16
<1> QED
  BY <1>1, <1>5, <1>6 DEF ReadInChunks

LEMMA TablesResolved == ChunksResolved
<1> SUFFICES ASSUME NEW i \in DOMAIN MoovOf(job.file).traks,
                    NEW stbl, stbl = MoovOf(job.file).traks[i].stbl, PlacesAll(stbl)
             PROVE  ReadInChunks(stbl, ReadStbl(stbl))
  BY Zenon DEF ChunksResolved, ReadInChunks
<1> QED
  BY TableResolved

\* fragment.rs resolve_sample_offsets: whatever the runs of the stsc, the chunks
\* and the sizes, a table with a chunk for each sample puts the first sample of a
\* chunk at its offset and any other behind the one before it.
THEOREM ChunksRead == Spec => []ChunksResolved
  BY TablesResolved, PTL
=============================================================================
