--------------------------- MODULE BalancingProofs ---------------------------
(***************************************************************************)
(* Theorems about Balancing, for any lists, weights, names, keys and hash  *)
(* functions.                                                              *)
(*                                                                         *)
(* The smooth weighted round robin is first studied by itself, on places   *)
(* 1..n: its balances add up to nothing, so after a total of picks they    *)
(* are all back at nothing, and the picks repeat.  Lists, remainders, the  *)
(* balancer's fields and what each select() makes of them come next.  Then *)
(* one invariant for each algorithm: the latest picks are those of the     *)
(* latest counter values (TurnsInv); the balancer is somewhere in a run of *)
(* the smooth round robin (SharesInv); what is remembered of a key is what *)
(* a ring gave it (OwnersInv).                                             *)
(***************************************************************************)
EXTENDS Balancing, FiniteSetTheorems, SequenceTheorems, TLAPS

LEMMA LeastNat ==
    ASSUME NEW S \in SUBSET Nat, S # {}
    PROVE  \E m \in S : \A k \in S : m <= k
<1> DEFINE Below == {0 .. k : k \in S}
<1>1. Below \subseteq FiniteSubsetsOf(Nat)
  <2> SUFFICES ASSUME NEW k \in S PROVE 0 .. k \in FiniteSubsetsOf(Nat)
    OBVIOUS
  <2>1. IsFiniteSet(0 .. k)
    BY FS_Interval
  <2>2. 0 .. k \in SUBSET Nat
    OBVIOUS
  <2> QED
    BY <2>1, <2>2 DEF FiniteSubsetsOf
<1>2. Below # {}
  OBVIOUS
<1>3. IsWellFoundedOn(StrictSubsetOrdering(Nat), FiniteSubsetsOf(Nat))
  BY FS_StrictSubsetOrderingWellFounded
<1> HIDE DEF Below
<1>4. PICK T \in Below : \A U \in Below : ~(<<U, T>> \in StrictSubsetOrdering(Nat))
  BY <1>1, <1>2, <1>3, WFMin
<1>5. PICK m \in S : T = 0 .. m
  BY <1>4 DEF Below
<1>6. SUFFICES ASSUME NEW k \in S, k < m PROVE FALSE
  BY <1>5
<1>7. 0 .. k \in Below /\ 0 .. k \in SUBSET Nat /\ T \in SUBSET Nat
  BY <1>5 DEF Below
<1>8. 0 .. k \subseteq 0 .. m /\ 0 .. k # 0 .. m
  <2>1. m \in 0 .. m /\ m \notin 0 .. k
    BY <1>6
  <2> QED
    BY <2>1, <1>6
<1>9. <<0 .. k, T>> \in StrictSubsetOrdering(Nat)
  BY <1>5, <1>7, <1>8 DEF StrictSubsetOrdering
<1> QED
  BY <1>4, <1>7, <1>9

(* Induction over 0..n. *)
LEMMA Induction ==
    ASSUME NEW n \in Nat, NEW S, 0 \in S, \A k \in 0 .. n - 1 : k \in S => k + 1 \in S
    PROVE  \A k \in 0..n : k \in S
<1> SUFFICES ASSUME (0..n) \ S # {} PROVE FALSE
  OBVIOUS
<1>1. PICK m \in (0..n) \ S : \A k \in (0..n) \ S : m <= k
  <2>1. (0..n) \ S \in SUBSET Nat
    OBVIOUS
  <2> QED
    BY <2>1, LeastNat
<1>2. m # 0
  BY <1>1
<1>3. m - 1 \in 0 .. n - 1 /\ m - 1 \in 0 .. n /\ (m - 1) + 1 = m
  BY <1>1, <1>2
<1>4. m - 1 \notin S
  BY <1>1, <1>3
<1> QED
  BY <1>1, <1>3, <1>4

-----------------------------------------------------------------------------
(* Sums *)

IsSum(g, n, f) == g = [k \in 0..n |-> IF k = 0 THEN 0 ELSE g[k - 1] + f[k]]

LEMMA SumExists ==
    ASSUME NEW n \in Nat, NEW f
    PROVE  \E g : IsSum(g, n, f)
<1> DEFINE S == {m \in 0..n : \E g : IsSum(g, m, f)}
<1>1. 0 \in S
  <2>1. PICK g : g = [k \in 0..0 |-> 0]
    OBVIOUS
  <2>2. ASSUME NEW k \in 0..0 PROVE g[k] = IF k = 0 THEN 0 ELSE g[k - 1] + f[k]
    BY <2>1
  <2> QED
    BY <2>1, <2>2 DEF IsSum
<1>2. ASSUME NEW m \in 0 .. n - 1, m \in S PROVE m + 1 \in S
  <2>1. PICK g : IsSum(g, m, f)
    BY <1>2
  <2>2. g = [k \in 0..m |-> IF k = 0 THEN 0 ELSE g[k - 1] + f[k]]
    BY <2>1 DEF IsSum
  <2>3. PICK h : h = [k \in 0 .. m + 1 |-> IF k = m + 1 THEN g[m] + f[m + 1] ELSE g[k]]
    OBVIOUS
  <2>4. ASSUME NEW k \in 0 .. m + 1 PROVE h[k] = IF k = 0 THEN 0 ELSE h[k - 1] + f[k]
    <3>1. CASE k = m + 1
      BY <2>3, <3>1
    <3>2. CASE k = 0
      BY <2>2, <2>3, <3>2
    <3>3. CASE k # 0 /\ k # m + 1
      <4>1. k \in 0..m /\ k - 1 \in 0..m /\ k - 1 # m + 1
        BY <3>3
      <4>2. h[k] = g[k] /\ h[k - 1] = g[k - 1]
        BY <2>3, <4>1, <3>3
      <4>3. g[k] = g[k - 1] + f[k]
        BY <2>2, <4>1, <3>3
      <4> QED
        BY <4>2, <4>3, <3>3
    <3> QED
      BY <3>1, <3>2, <3>3
  <2>5. IsSum(h, m + 1, f)
    BY <2>3, <2>4 DEF IsSum
  <2> QED
    BY <2>5
<1> HIDE DEF S
<1>3. \A m \in 0..n : m \in S
  BY <1>1, <1>2, Induction
<1> QED
  BY <1>3 DEF S

LEMMA SumAgrees ==
    ASSUME NEW m \in Nat, NEW n \in Nat, m <= n, NEW f, NEW g, NEW h,
           IsSum(g, m, f), IsSum(h, n, f)
    PROVE  g[m] = h[m]
<1> DEFINE S == {k \in 0..m : g[k] = h[k]}
<1>1. g = [k \in 0..m |-> IF k = 0 THEN 0 ELSE g[k - 1] + f[k]]
  BY DEF IsSum
<1>2. h = [k \in 0..n |-> IF k = 0 THEN 0 ELSE h[k - 1] + f[k]]
  BY DEF IsSum
<1>3. 0 \in S
  BY <1>1, <1>2
<1>4. ASSUME NEW k \in 0 .. m - 1, k \in S PROVE k + 1 \in S
  <2>1. k + 1 \in 0..m /\ k + 1 \in 0..n /\ k + 1 # 0 /\ (k + 1) - 1 = k
    OBVIOUS
  <2>2. g[k + 1] = g[k] + f[k + 1]
    BY <1>1, <2>1
  <2>3. h[k + 1] = h[k] + f[k + 1]
    BY <1>2, <2>1
  <2> QED
    BY <1>4, <2>1, <2>2, <2>3
<1> HIDE DEF S
<1>5. \A k \in 0..m : k \in S
  BY <1>3, <1>4, Induction
<1> QED
  BY <1>5 DEF S

LEMMA SumIs ==
    ASSUME NEW n \in Nat, NEW f
    PROVE  \E g : IsSum(g, n, f) /\ SumTo(n, f) = g[n]
<1>1. PICK g : IsSum(g, n, f)
  BY SumExists
<1> DEFINE h == CHOOSE x : IsSum(x, n, f)
<1>2. IsSum(h, n, f)
  BY <1>1
<1>3. SumTo(n, f) = h[n]
  BY DEF SumTo, IsSum
<1> QED
  BY <1>2, <1>3

LEMMA SumZero ==
    ASSUME NEW f
    PROVE  SumTo(0, f) = 0
<1>1. PICK g : IsSum(g, 0, f) /\ SumTo(0, f) = g[0]
  BY SumIs
<1> QED
  BY <1>1 DEF IsSum

LEMMA SumNext ==
    ASSUME NEW n \in Nat, NEW f
    PROVE  SumTo(n + 1, f) = SumTo(n, f) + f[n + 1]
<1>1. PICK g : IsSum(g, n, f) /\ SumTo(n, f) = g[n]
  BY SumIs
<1>2. PICK h : IsSum(h, n + 1, f) /\ SumTo(n + 1, f) = h[n + 1]
  BY SumIs
<1>3. g[n] = h[n]
  BY <1>1, <1>2, SumAgrees
<1>4. h[n + 1] = h[n] + f[n + 1]
  <2>1. h = [k \in 0 .. n + 1 |-> IF k = 0 THEN 0 ELSE h[k - 1] + f[k]]
    BY <1>2 DEF IsSum
  <2> QED
    BY <2>1
<1> QED
  BY <1>1, <1>2, <1>3, <1>4

(* Sums of integers.  w is a function on at least 1..n. *)
LEMMA SumType ==
    ASSUME NEW n \in Nat, NEW f, \A k \in 1..n : f[k] \in Int
    PROVE  SumTo(n, f) \in Int
<1> DEFINE S == {m \in 0..n : SumTo(m, f) \in Int}
<1>1. 0 \in S
  BY SumZero
<1>2. ASSUME NEW m \in 0 .. n - 1, m \in S PROVE m + 1 \in S
  BY <1>2, SumNext
<1> HIDE DEF S
<1>3. \A m \in 0..n : m \in S
  BY <1>1, <1>2, Induction
<1> QED
  BY <1>3 DEF S

LEMMA SumSame ==
    ASSUME NEW n \in Nat, NEW f, NEW g, \A k \in 1..n : f[k] = g[k]
    PROVE  SumTo(n, f) = SumTo(n, g)
<1> DEFINE S == {m \in 0..n : SumTo(m, f) = SumTo(m, g)}
<1>1. 0 \in S
  BY SumZero
<1>2. ASSUME NEW m \in 0 .. n - 1, m \in S PROVE m + 1 \in S
  BY <1>2, SumNext
<1> HIDE DEF S
<1>3. \A m \in 0..n : m \in S
  BY <1>1, <1>2, Induction
<1> QED
  BY <1>3 DEF S

LEMMA SumPlus ==
    ASSUME NEW n \in Nat, NEW f, NEW g, NEW h,
           \A k \in 1..n : f[k] \in Int /\ g[k] \in Int /\ h[k] = f[k] + g[k]
    PROVE  SumTo(n, h) = SumTo(n, f) + SumTo(n, g)
<1> DEFINE S == {m \in 0..n : SumTo(m, h) = SumTo(m, f) + SumTo(m, g)}
<1>1. 0 \in S
  BY SumZero
<1>2. ASSUME NEW m \in 0 .. n - 1, m \in S PROVE m + 1 \in S
  <2>1. m \in Nat /\ m + 1 \in 1..n /\ m + 1 \in 0..n
    OBVIOUS
  <2>2. /\ SumTo(m + 1, f) = SumTo(m, f) + f[m + 1]
        /\ SumTo(m + 1, g) = SumTo(m, g) + g[m + 1]
        /\ SumTo(m + 1, h) = SumTo(m, h) + h[m + 1]
    BY <2>1, SumNext
  <2>3. SumTo(m, f) \in Int /\ SumTo(m, g) \in Int
    BY SumType
  <2> QED
    BY <1>2, <2>1, <2>2, <2>3
<1> HIDE DEF S
<1>3. \A m \in 0..n : m \in S
  BY <1>1, <1>2, Induction
<1> QED
  BY <1>3 DEF S

(* Where one summand alone is not zero. *)
LEMMA SumPoint ==
    ASSUME NEW n \in Nat, NEW s \in Nat \ {0}, NEW x \in Int, NEW f,
           \A k \in 1..n : f[k] = IF k = s THEN x ELSE 0
    PROVE  SumTo(n, f) = IF s <= n THEN x ELSE 0
<1> DEFINE S == {m \in 0..n : SumTo(m, f) = IF s <= m THEN x ELSE 0}
<1>1. 0 \in S
  BY SumZero
<1>2. ASSUME NEW m \in 0 .. n - 1, m \in S PROVE m + 1 \in S
  <2>1. m \in Nat /\ m + 1 \in 1..n /\ m + 1 \in 0..n
    OBVIOUS
  <2>2. SumTo(m + 1, f) = SumTo(m, f) + f[m + 1]
    BY <2>1, SumNext
  <2>3. f[m + 1] = IF m + 1 = s THEN x ELSE 0
    BY <2>1
  <2> QED
    BY <1>2, <2>1, <2>2, <2>3
<1> HIDE DEF S
<1>3. \A m \in 0..n : m \in S
  BY <1>1, <1>2, Induction
<1>4. n \in 0..n
  OBVIOUS
<1> QED
  BY <1>3, <1>4 DEF S

(* A sum is positive only if a summand is. *)
LEMMA SumPositive ==
    ASSUME NEW n \in Nat, NEW f, \A k \in 1..n : f[k] \in Int /\ f[k] <= 0
    PROVE  SumTo(n, f) <= 0
<1> DEFINE S == {m \in 0..n : SumTo(m, f) <= 0}
<1>1. 0 \in S
  BY SumZero
<1>2. ASSUME NEW m \in 0 .. n - 1, m \in S PROVE m + 1 \in S
  <2>1. m \in Nat /\ m + 1 \in 1..n /\ m + 1 \in 0..n
    OBVIOUS
  <2>2. SumTo(m + 1, f) = SumTo(m, f) + f[m + 1] /\ SumTo(m, f) \in Int
    BY <2>1, SumNext, SumType
  <2> QED
    BY <1>2, <2>1, <2>2
<1> HIDE DEF S
<1>3. \A m \in 0..n : m \in S
  BY <1>1, <1>2, Induction
<1> QED
  BY <1>3 DEF S

(* A sum of what is not negative is at least each summand. *)
LEMMA SumBounds ==
    ASSUME NEW n \in Nat, NEW f, \A k \in 1..n : f[k] \in Int /\ f[k] >= 0
    PROVE  SumTo(n, f) >= 0 /\ \A k \in 1..n : f[k] <= SumTo(n, f)
<1> DEFINE S == {m \in 0..n : SumTo(m, f) >= 0 /\ \A k \in 1..m : f[k] <= SumTo(m, f)}
<1>1. 0 \in S
  BY SumZero
<1>2. ASSUME NEW m \in 0 .. n - 1, m \in S PROVE m + 1 \in S
  <2>1. m \in Nat /\ m + 1 \in 1..n /\ m + 1 \in 0..n
    OBVIOUS
  <2>2. SumTo(m + 1, f) = SumTo(m, f) + f[m + 1] /\ SumTo(m, f) \in Int
    BY <2>1, SumNext, SumType
  <2>3. ASSUME NEW k \in 1 .. m + 1 PROVE f[k] <= SumTo(m + 1, f)
    <3>1. CASE k \in 1..m
      BY <1>2, <2>1, <2>2, <3>1
    <3>2. CASE k = m + 1
      BY <1>2, <2>1, <2>2, <3>2
    <3> QED
      BY <3>1, <3>2
  <2> QED
    BY <1>2, <2>1, <2>2, <2>3
<1> HIDE DEF S
<1>3. \A m \in 0..n : m \in S
  BY <1>1, <1>2, Induction
<1> QED
  BY <1>3 DEF S

-----------------------------------------------------------------------------
(* The smooth weighted round robin on places 1..n with weights w: c is the *)
(* balance of each place, s the place selected, d the balances after it.   *)

First(n, f, s) ==
    /\ s \in 1..n
    /\ \A j \in 1..n : f[j] < f[s] \/ (f[j] = f[s] /\ s <= j)

LEMMA FirstExists ==
    ASSUME NEW n \in Nat \ {0}, NEW f, \A k \in 1..n : f[k] \in Int
    PROVE  \E s : First(n, f, s)
<1> DEFINE S == {m \in 0..n : m > 0 => \E s : First(m, f, s)}
<1>1. 0 \in S
  OBVIOUS
<1>2. ASSUME NEW m \in 0 .. n - 1, m \in S PROVE m + 1 \in S
  <2>1. m + 1 \in 0..n /\ m + 1 > 0 /\ m + 1 \in 1..n
    OBVIOUS
  <2>2. CASE m = 0
    <3>1. First(m + 1, f, 1)
      BY <2>1, <2>2 DEF First
    <3> QED
      BY <2>1, <3>1
  <2>3. CASE m # 0
    <3>1. PICK s : First(m, f, s)
      BY <1>2, <2>3
    <3>2. s \in 1..m /\ f[s] \in Int /\ f[m + 1] \in Int
      BY <2>1, <3>1 DEF First
    <3>3. \A j \in 1..m : f[j] \in Int /\ (f[j] < f[s] \/ (f[j] = f[s] /\ s <= j))
      BY <3>1 DEF First
    <3>4. CASE f[m + 1] > f[s]
      <4>1. First(m + 1, f, m + 1)
        BY <3>2, <3>3, <3>4 DEF First
      <4> QED
        BY <2>1, <4>1
    <3>5. CASE f[m + 1] <= f[s]
      <4>1. First(m + 1, f, s)
        BY <3>2, <3>3, <3>5 DEF First
      <4> QED
        BY <2>1, <4>1
    <3> QED
      BY <3>2, <3>4, <3>5
  <2> QED
    BY <2>2, <2>3
<1> HIDE DEF S
<1>3. \A m \in 0..n : m \in S
  BY <1>1, <1>2, Induction
<1> QED
  BY <1>3 DEF S

LEMMA FirstUnique ==
    ASSUME NEW n \in Nat, NEW f, \A k \in 1..n : f[k] \in Int,
           NEW r, NEW s, First(n, f, r), First(n, f, s)
    PROVE  r = s
<1>1. r \in 1..n /\ s \in 1..n /\ f[r] \in Int /\ f[s] \in Int
  BY DEF First
<1>2. /\ f[s] < f[r] \/ (f[s] = f[r] /\ r <= s)
      /\ f[r] < f[s] \/ (f[r] = f[s] /\ s <= r)
  BY <1>1 DEF First
<1> QED
  BY <1>1, <1>2

Weights(n, w) == n \in Nat \ {0} /\ w \in [1..n -> Nat \ {0}]

Grown(n, w, c) == [k \in 1..n |-> c[k] + w[k]]

IsStep(n, w, c, s, d) ==
    /\ First(n, Grown(n, w, c), s)
    /\ d = [k \in 1..n |-> IF k = s THEN Grown(n, w, c)[k] - SumTo(n, w) ELSE Grown(n, w, c)[k]]

(* c[j] and p[j] are the balances after, and the place of, the j-th pick.  *)
IsRun(n, w, t, c, p) ==
    /\ t \in Nat /\ Weights(n, w)
    /\ c \in [0..t -> [1..n -> Int]]
    /\ p \in [1..t -> 1..n]
    /\ \A k \in 1..n : c[0][k] = 0
    /\ \A j \in 1..t : IsStep(n, w, c[j - 1], p[j], c[j])

(* The balances always add up to nothing, and none owes a whole total.     *)
Balanced(n, w, c) ==
    /\ c \in [1..n -> Int]
    /\ SumTo(n, c) = 0
    /\ \A k \in 1..n : c[k] > -SumTo(n, w)

LEMMA TotalPositive ==
    ASSUME NEW n, NEW w, Weights(n, w)
    PROVE  SumTo(n, w) \in Nat \ {0}
<1>1. n \in Nat \ {0} /\ \A k \in 1..n : w[k] \in Int /\ w[k] >= 1
  BY DEF Weights
<1>2. SumTo(n, w) \in Int
  BY <1>1, SumType
<1>3. 1 \in 1..n /\ \A k \in 1..n : w[k] \in Int /\ w[k] >= 0
  BY <1>1
<1>4. w[1] <= SumTo(n, w)
  BY <1>1, <1>3, SumBounds
<1> QED
  BY <1>1, <1>2, <1>3, <1>4

(* Of balances that add up to nothing one is positive when raised. *)
LEMMA StepPossible ==
    ASSUME NEW n, NEW w, Weights(n, w), NEW c, Balanced(n, w, c)
    PROVE  /\ \A k \in 1..n : Grown(n, w, c)[k] \in Int
           /\ \E s : First(n, Grown(n, w, c), s)
           /\ \A s : First(n, Grown(n, w, c), s) => Grown(n, w, c)[s] > 0
<1>1. PICK W \in Nat \ {0} : W = SumTo(n, w)
  BY TotalPositive
<1>2. PICK g : g = Grown(n, w, c)
  OBVIOUS
<1>3. /\ n \in Nat \ {0}
      /\ \A k \in 1..n : c[k] \in Int /\ w[k] \in Int /\ g[k] = c[k] + w[k] /\ g[k] \in Int
  BY <1>2 DEF Balanced, Grown, Weights
<1>4. SumTo(n, g) = W
  <2>1. SumTo(n, g) = SumTo(n, c) + SumTo(n, w)
    BY <1>3, SumPlus
  <2>2. SumTo(n, c) = 0
    BY DEF Balanced
  <2> QED
    BY <1>1, <2>1, <2>2
<1>5. ASSUME NEW s, First(n, g, s) PROVE g[s] > 0
  <2>1. \A k \in 1..n : g[k] \in Int /\ g[s] \in Int /\ g[k] <= g[s]
    BY <1>3, <1>5 DEF First
  <2>2. SUFFICES ASSUME ~(g[s] > 0) PROVE FALSE
    OBVIOUS
  <2>3. \A k \in 1..n : g[k] \in Int /\ g[k] <= 0
    BY <2>1, <2>2
  <2>4. SumTo(n, g) <= 0
    BY <1>3, <2>3, SumPositive
  <2> QED
    BY <1>1, <1>4, <2>4
<1>6. \E s : First(n, g, s)
  BY <1>3, FirstExists
<1> QED
  BY <1>2, <1>3, <1>5, <1>6

LEMMA StepBalanced ==
    ASSUME NEW n, NEW w, Weights(n, w), NEW c, NEW s, NEW d,
           Balanced(n, w, c), IsStep(n, w, c, s, d)
    PROVE  Balanced(n, w, d)
<1>1. PICK W \in Nat \ {0} : W = SumTo(n, w)
  BY TotalPositive
<1>2. PICK g : g = Grown(n, w, c)
  OBVIOUS
<1>3. /\ n \in Nat \ {0}
      /\ \A k \in 1..n : /\ c[k] \in Int /\ w[k] \in Int /\ w[k] > 0
                        /\ g[k] = c[k] + w[k] /\ g[k] \in Int
  BY <1>2 DEF Balanced, Grown, Weights
<1>4. s \in 1..n /\ g[s] > 0
  BY <1>2, StepPossible DEF IsStep, First
<1>5. d = [k \in 1..n |-> IF k = s THEN g[k] - W ELSE g[k]]
  BY <1>1, <1>2 DEF IsStep
<1>6. d \in [1..n -> Int]
  BY <1>3, <1>5
<1>7. \A k \in 1..n : d[k] > -W
  <2>1. \A k \in 1..n : c[k] > -W
    BY <1>1 DEF Balanced
  <2> SUFFICES ASSUME NEW k \in 1..n PROVE d[k] > -W
    OBVIOUS
  <2>2. CASE k = s
    BY <1>1, <1>3, <1>4, <1>5, <2>2
  <2>3. CASE k # s
    <3>1. d[k] = c[k] + w[k]
      BY <1>3, <1>5, <2>3
    <3> QED
      BY <1>1, <1>3, <2>1, <3>1
  <2> QED
    BY <2>2, <2>3
<1>8. SumTo(n, d) = 0
  <2>1. PICK y \in Int : y = -W
    BY <1>1
  <2>2. PICK x : x = [k \in 1..n |-> IF k = s THEN y ELSE 0]
    OBVIOUS
  <2>3. SumTo(n, x) = y
    <3>1. \A k \in 1..n : x[k] = IF k = s THEN y ELSE 0
      BY <2>2
    <3>2. s \in Nat \ {0} /\ s <= n
      BY <1>3, <1>4
    <3> QED
      BY <1>3, <2>1, <3>1, <3>2, SumPoint
  <2>4. SumTo(n, g) = W
    <3>1. SumTo(n, g) = SumTo(n, c) + SumTo(n, w)
      BY <1>3, SumPlus
    <3>2. SumTo(n, c) = 0
      BY DEF Balanced
    <3> QED
      BY <1>1, <3>1, <3>2
  <2>5. \A k \in 1..n : g[k] \in Int /\ x[k] \in Int /\ d[k] = g[k] + x[k]
    BY <1>3, <1>5, <2>1, <2>2
  <2>6. SumTo(n, d) = SumTo(n, g) + SumTo(n, x)
    BY <1>3, <2>5, SumPlus
  <2> QED
    BY <2>1, <2>3, <2>4, <2>6
<1> QED
  BY <1>1, <1>6, <1>7, <1>8 DEF Balanced

LEMMA RunBalanced ==
    ASSUME NEW n, NEW w, NEW t, NEW c, NEW p, IsRun(n, w, t, c, p)
    PROVE  \A j \in 0..t : Balanced(n, w, c[j])
<1>1. /\ t \in Nat /\ Weights(n, w) /\ n \in Nat \ {0} /\ w \in [1..n -> Nat \ {0}]
      /\ c \in [0..t -> [1..n -> Int]]
  BY DEF IsRun, Weights
<1> DEFINE S == {j \in 0..t : Balanced(n, w, c[j])}
<1>2. 0 \in S
  <2>1. 0 \in 0..t /\ c[0] \in [1..n -> Int] /\ \A k \in 1..n : c[0][k] = 0
    BY <1>1 DEF IsRun
  <2>2. SumTo(n, c[0]) = 0
    <3>1. \A k \in 1..n : c[0][k] \in Int /\ c[0][k] <= 0 /\ c[0][k] >= 0
      BY <2>1
    <3>2. SumTo(n, c[0]) \in Int /\ SumTo(n, c[0]) <= 0 /\ SumTo(n, c[0]) >= 0
      BY <1>1, <3>1, SumType, SumPositive, SumBounds
    <3> QED
      BY <3>2
  <2>3. SumTo(n, w) \in Nat \ {0}
    BY <1>1, TotalPositive
  <2> QED
    BY <2>1, <2>2, <2>3 DEF Balanced
<1>3. ASSUME NEW j \in 0 .. t - 1, j \in S PROVE j + 1 \in S
  <2>1. j + 1 \in 1..t /\ j + 1 \in 0..t /\ (j + 1) - 1 = j
    BY <1>1
  <2>2. IsStep(n, w, c[j], p[j + 1], c[j + 1])
    BY <2>1 DEF IsRun
  <2>3. Balanced(n, w, c[j])
    BY <1>3
  <2> HIDE DEF S
  <2>4. Balanced(n, w, c[j + 1])
    BY <1>1, <2>2, <2>3, StepBalanced
  <2> QED
    BY <2>1, <2>4 DEF S
<1> HIDE DEF S
<1>4. \A j \in 0..t : j \in S
  BY <1>1, <1>2, <1>3, Induction
<1> QED
  BY <1>4 DEF S

(* How often place k is selected in the m picks after the j-th. *)
Picks(p, j, m, k) == Cardinality({i \in 1..m : p[j + i] = k})

LEMMA PicksNone ==
    ASSUME NEW p, NEW j \in Nat, NEW k
    PROVE  Picks(p, j, 0, k) = 0
<1>1. {i \in 1..0 : p[j + i] = k} = {}
  OBVIOUS
<1> QED
  BY <1>1, FS_EmptySet DEF Picks

LEMMA PicksNext ==
    ASSUME NEW p, NEW j \in Nat, NEW m \in Nat, NEW k
    PROVE  /\ Picks(p, j, m, k) \in Nat
           /\ Picks(p, j, m + 1, k) = Picks(p, j, m, k) + (IF p[j + (m + 1)] = k THEN 1 ELSE 0)
<1> DEFINE A(x) == {i \in 1..x : p[j + i] = k}
<1>1. ASSUME NEW x \in Nat PROVE IsFiniteSet(A(x)) /\ Cardinality(A(x)) \in Nat
  <2>1. IsFiniteSet(1..x) /\ A(x) \in SUBSET (1..x)
    BY FS_Interval
  <2> HIDE DEF A
  <2> QED
    BY <2>1, FS_Subset, FS_CardinalityType
<1>2. CASE p[j + (m + 1)] = k
  <2>1. A(m + 1) = A(m) \cup {m + 1} /\ m + 1 \notin A(m)
    BY <1>2
  <2> HIDE DEF A
  <2>2. Cardinality(A(m + 1)) = Cardinality(A(m)) + 1
    BY <1>1, <2>1, FS_AddElement
  <2> QED
    BY <1>1, <1>2, <2>2 DEF Picks, A
<1>3. CASE p[j + (m + 1)] # k
  <2>1. A(m + 1) = A(m)
    BY <1>3
  <2> HIDE DEF A
  <2>2. Cardinality(A(m + 1)) = Cardinality(A(m))
    BY <2>1
  <2>3. Cardinality(A(m)) + 0 = Cardinality(A(m))
    BY <1>1
  <2> QED
    BY <1>1, <1>3, <2>2, <2>3 DEF Picks, A
<1> QED
  BY <1>2, <1>3

LEMMA TimesNext ==
    ASSUME NEW a \in Int, NEW z \in Int
    PROVE  (a + 1) * z = a * z + z /\ z * (a + 1) = z * a + z
OBVIOUS

LEMMA TimesMore ==
    ASSUME NEW W \in Nat \ {0}, NEW x \in Int, NEW y \in Int
    PROVE  /\ W * x > -W => x > -1
           /\ x >= 0 => W * x >= 0
           /\ W * x = W * y => x = y
           /\ W * x - W * y = W * (x - y)
OBVIOUS

(* A place gains its weight by each pick and pays the total for its own.   *)
LEMMA BalanceCounts ==
    ASSUME NEW n, NEW w, NEW t, NEW c, NEW p, IsRun(n, w, t, c, p),
           NEW j \in Nat, NEW k \in 1..n
    PROVE  \A m \in Nat : j + m <= t =>
              c[j + m][k] = c[j][k] + m * w[k] - SumTo(n, w) * Picks(p, j, m, k)
<1>1. /\ t \in Nat /\ Weights(n, w) /\ n \in Nat \ {0} /\ w \in [1..n -> Nat \ {0}]
      /\ c \in [0..t -> [1..n -> Int]]
  BY DEF IsRun, Weights
<1>2. PICK W \in Nat \ {0} : W = SumTo(n, w)
  BY <1>1, TotalPositive
<1> SUFFICES ASSUME NEW l \in Nat, j + l <= t
             PROVE  c[j + l][k] = c[j][k] + l * w[k] - W * Picks(p, j, l, k)
  BY <1>2
<1> DEFINE S == {m \in 0..l : c[j + m][k] = c[j][k] + m * w[k] - W * Picks(p, j, m, k)}
<1>3. c[j][k] \in Int /\ w[k] \in Int
  <2>1. j \in 0..t
    BY <1>1
  <2> QED
    BY <1>1, <2>1
<1>4. 0 \in S
  <2>1. Picks(p, j, 0, k) = 0
    BY PicksNone
  <2>2. 0 * w[k] = 0 /\ W * 0 = 0 /\ j + 0 = j
    BY <1>2, <1>3
  <2> QED
    BY <1>3, <2>1, <2>2
<1>5. ASSUME NEW m \in 0 .. l - 1, m \in S PROVE m + 1 \in S
  <2>1. /\ m \in Nat /\ m + 1 \in 0..l /\ j + m \in 0..t /\ j + (m + 1) \in 1..t
        /\ j + (m + 1) \in 0..t /\ (j + (m + 1)) - 1 = j + m
    BY <1>1
  <2>2. IsStep(n, w, c[j + m], p[j + (m + 1)], c[j + (m + 1)])
    BY <2>1 DEF IsRun
  <2>3. PICK x \in Int : x = c[j + m][k]
    BY <1>1, <2>1
  <2>4. PICK y \in Int : y = w[k]
    BY <1>3
  <2>5. PICK q \in Nat : q = Picks(p, j, m, k)
    BY <2>1, PicksNext
  <2>6. PICK z \in Int : z = c[j][k]
    BY <1>3
  <2>7. x = z + m * y - W * q
    BY <1>5, <2>3, <2>4, <2>5, <2>6
  <2>8. (m + 1) * y = m * y + y /\ W * (q + 1) = W * q + W
    <3>1. m \in Int /\ q \in Int /\ W \in Int
      BY <2>1
    <3> QED
      BY <3>1, TimesNext
  <2>9. m * y \in Int /\ W * q \in Int
    BY <1>2, <2>1, <2>4, <2>5
  <2>10. CASE p[j + (m + 1)] = k
    <3>1. c[j + (m + 1)][k] = x + y - W
      BY <1>2, <2>2, <2>3, <2>4, <2>10 DEF IsStep, Grown
    <3>2. Picks(p, j, m + 1, k) = q + 1
      BY <2>1, <2>5, <2>10, PicksNext
    <3>3. c[j + (m + 1)][k] = z + (m * y + y) - (W * q + W)
      BY <1>2, <2>3, <2>4, <2>6, <2>7, <2>9, <3>1
    <3> QED
      BY <2>1, <2>4, <2>6, <2>8, <3>2, <3>3
  <2>11. CASE p[j + (m + 1)] # k
    <3>1. c[j + (m + 1)][k] = x + y
      BY <1>2, <2>2, <2>3, <2>4, <2>11 DEF IsStep, Grown
    <3>2. Picks(p, j, m + 1, k) = q
      BY <2>1, <2>5, <2>11, PicksNext
    <3>3. c[j + (m + 1)][k] = z + (m * y + y) - W * q
      BY <1>2, <2>3, <2>4, <2>6, <2>7, <2>9, <3>1
    <3> QED
      BY <2>1, <2>4, <2>6, <2>8, <3>2, <3>3
  <2> QED
    BY <2>10, <2>11
<1> HIDE DEF S
<1>6. \A m \in 0..l : m \in S
  BY <1>4, <1>5, Induction
<1> QED
  BY <1>6 DEF S

(* After a whole total of picks every balance is back at nothing: each is a *)
(* multiple of the total, none is below minus one total, and they add up    *)
(* to nothing.                                                              *)
LEMMA RunReturns ==
    ASSUME NEW n, NEW w, NEW t, NEW c, NEW p, IsRun(n, w, t, c, p), SumTo(n, w) <= t
    PROVE  \A k \in 1..n : c[SumTo(n, w)][k] = 0
<1>1. /\ t \in Nat /\ Weights(n, w) /\ n \in Nat \ {0} /\ w \in [1..n -> Nat \ {0}]
      /\ c \in [0..t -> [1..n -> Int]]
  BY DEF IsRun, Weights
<1>2. PICK W \in Nat \ {0} : W = SumTo(n, w)
  BY <1>1, TotalPositive
<1>3. W \in 0..t /\ W <= t /\ 0 + W = W /\ 0 \in 0..t
  BY <1>1, <1>2
<1>4. PICK e : e = c[W]
  OBVIOUS
<1>5. Balanced(n, w, e)
  BY <1>3, <1>4, RunBalanced
<1>6. ASSUME NEW k \in 1..n PROVE e[k] \in Int /\ e[k] >= 0
  <2>1. PICK q \in Nat : q = Picks(p, 0, W, k)
    BY PicksNext
  <2>2. PICK y \in Int : y = w[k]
    BY <1>1
  <2>3. c[W][k] = c[0][k] + W * w[k] - SumTo(n, w) * Picks(p, 0, W, k)
    BY <1>3, BalanceCounts
  <2>4. c[0][k] = 0
    BY DEF IsRun
  <2>5. e[k] = 0 + W * y - W * q
    BY <1>2, <1>4, <2>1, <2>2, <2>3, <2>4
  <2>6. e[k] = W * (y - q)
    BY <2>5
  <2>7. e[k] \in Int /\ e[k] > -W
    BY <1>2, <1>5 DEF Balanced
  <2>8. y - q > -1
    BY <2>6, <2>7, TimesMore
  <2>9. y - q >= 0
    BY <2>8
  <2> QED
    BY <2>6, <2>7, <2>9, TimesMore
<1>7. SumTo(n, e) = 0 /\ \A k \in 1..n : e[k] <= SumTo(n, e)
  BY <1>1, <1>5, <1>6, SumBounds DEF Balanced
<1> QED
  BY <1>2, <1>4, <1>6, <1>7

(* So the picks repeat. *)
LEMMA RunRepeats ==
    ASSUME NEW n, NEW w, NEW t, NEW c, NEW p, IsRun(n, w, t, c, p)
    PROVE  \A j \in Nat : j + SumTo(n, w) <= t => c[j + SumTo(n, w)] = c[j]
<1>1. /\ t \in Nat /\ Weights(n, w) /\ n \in Nat \ {0} /\ w \in [1..n -> Nat \ {0}]
      /\ c \in [0..t -> [1..n -> Int]]
  BY DEF IsRun, Weights
<1>2. PICK W \in Nat \ {0} : W = SumTo(n, w)
  BY <1>1, TotalPositive
<1> SUFFICES ASSUME NEW l \in Nat, l + W <= t PROVE c[l + W] = c[l]
  BY <1>2
<1> DEFINE S == {j \in 0..l : c[j + W] = c[j]}
<1>3. 0 \in S
  <2>1. \A k \in 1..n : c[W][k] = 0 /\ c[0][k] = 0
    <3>1. W <= t
      BY <1>1
    <3>2. \A k \in 1..n : c[W][k] = 0
      BY <1>2, <3>1, RunReturns
    <3>3. \A k \in 1..n : c[0][k] = 0
      BY DEF IsRun
    <3> QED
      BY <3>2, <3>3
  <2>2. c[W] \in [1..n -> Int] /\ c[0] \in [1..n -> Int]
    <3>1. W \in 0..t /\ 0 \in 0..t
      BY <1>1
    <3> QED
      BY <1>1, <3>1
  <2>3. c[0 + W] = c[0]
    <3>1. 0 + W = W
      OBVIOUS
    <3>2. PICK d, e : d = c[W] /\ e = c[0]
      OBVIOUS
    <3>3. d \in [1..n -> Int] /\ e \in [1..n -> Int] /\ \A k \in 1..n : d[k] = e[k]
      BY <2>1, <2>2, <3>2
    <3>4. d = [k \in 1..n |-> d[k]] /\ e = [k \in 1..n |-> e[k]]
      BY <3>3
    <3>5. [k \in 1..n |-> d[k]] = [k \in 1..n |-> e[k]]
      BY <3>3
    <3>6. d = e
      BY <3>4, <3>5
    <3> QED
      BY <3>1, <3>2, <3>6
  <2> QED
    BY <2>3
<1>4. ASSUME NEW j \in 0 .. l - 1, j \in S PROVE j + 1 \in S
  <2>1. /\ j \in Nat /\ j + 1 \in 0..l /\ j + 1 \in 1..t /\ (j + 1) + W \in 1..t
        /\ (j + 1) - 1 = j /\ ((j + 1) + W) - 1 = j + W /\ j \in 0..t
    BY <1>1
  <2>2. c[j + W] = c[j]
    BY <1>4
  <2> HIDE DEF S
  <2>3. PICK r : r = p[j + 1]
    OBVIOUS
  <2>4. PICK s : s = p[(j + 1) + W]
    OBVIOUS
  <2>5. IsStep(n, w, c[j], r, c[j + 1])
    BY <2>1, <2>3 DEF IsRun
  <2>6. IsStep(n, w, c[j], s, c[(j + 1) + W])
    BY <2>1, <2>2, <2>4 DEF IsRun
  <2>7. Balanced(n, w, c[j])
    BY <2>1, RunBalanced
  <2>8. r = s
    <3>1. \A k \in 1..n : Grown(n, w, c[j])[k] \in Int
      BY <1>1, <2>7, StepPossible
    <3>2. First(n, Grown(n, w, c[j]), r) /\ First(n, Grown(n, w, c[j]), s)
      BY <2>5, <2>6 DEF IsStep
    <3> QED
      BY <1>1, <3>1, <3>2, FirstUnique
  <2>9. c[(j + 1) + W] = c[j + 1]
    BY <2>5, <2>6, <2>8 DEF IsStep
  <2> QED
    BY <2>1, <2>9 DEF S
<1> HIDE DEF S
<1>5. \A j \in 0..l : j \in S
  BY <1>3, <1>4, Induction
<1> QED
  BY <1>5 DEF S

(* Any total_weight picks in a row hold each place as often as it weighs.  *)
LEMMA WindowEven ==
    ASSUME NEW n, NEW w, NEW t, NEW c, NEW p, IsRun(n, w, t, c, p),
           NEW j \in Nat, j + SumTo(n, w) <= t, NEW k \in 1..n
    PROVE  Picks(p, j, SumTo(n, w), k) = w[k]
<1>1. /\ t \in Nat /\ Weights(n, w) /\ n \in Nat \ {0} /\ w \in [1..n -> Nat \ {0}]
      /\ c \in [0..t -> [1..n -> Int]]
  BY DEF IsRun, Weights
<1>2. PICK W \in Nat \ {0} : W = SumTo(n, w)
  BY <1>1, TotalPositive
<1>3. PICK q \in Nat : q = Picks(p, j, W, k)
  BY PicksNext
<1>4. PICK y \in Int : y = w[k]
  BY <1>1
<1>5. PICK x \in Int : x = c[j][k]
  <2>1. j \in 0..t
    BY <1>1, <1>2
  <2> QED
    BY <1>1, <2>1
<1>6. c[j + W][k] = x
  BY <1>2, <1>5, RunRepeats
<1>7. c[j + W][k] = x + W * y - W * q
  BY <1>2, <1>3, <1>4, <1>5, BalanceCounts
<1>8. W * y = W * q
  <2>1. W * y \in Int /\ W * q \in Int
    OBVIOUS
  <2> QED
    BY <1>6, <1>7, <2>1
<1>9. y = q
  BY <1>8, TimesMore
<1> QED
  BY <1>2, <1>3, <1>4, <1>9

-----------------------------------------------------------------------------
(* The lists *)

NamedOnce(list) == \A j, k \in DOMAIN list : list[j].id = list[k].id => j = k

IsFilter(h, n, list) ==
    h = [k \in 0..n |-> IF k = 0 THEN <<>>
                        ELSE IF list[k].is_healthy THEN Append(h[k - 1], list[k])
                        ELSE h[k - 1]]

LEMMA FilterExists ==
    ASSUME NEW n \in Nat, NEW list
    PROVE  \E h : IsFilter(h, n, list)
<1> DEFINE S == {m \in 0..n : \E h : IsFilter(h, m, list)}
<1>1. 0 \in S
  <2>1. PICK h : h = [k \in 0..0 |-> <<>>]
    OBVIOUS
  <2>2. ASSUME NEW k \in 0..0
        PROVE  h[k] = IF k = 0 THEN <<>> ELSE IF list[k].is_healthy THEN Append(h[k - 1], list[k])
                      ELSE h[k - 1]
    BY <2>1
  <2> QED
    BY <2>1, <2>2 DEF IsFilter
<1>2. ASSUME NEW m \in 0 .. n - 1, m \in S PROVE m + 1 \in S
  <2>1. PICK g : IsFilter(g, m, list)
    BY <1>2
  <2>2. g = [k \in 0..m |-> IF k = 0 THEN <<>>
                            ELSE IF list[k].is_healthy THEN Append(g[k - 1], list[k])
                            ELSE g[k - 1]]
    BY <2>1 DEF IsFilter
  <2>3. PICK h : h = [k \in 0 .. m + 1 |->
                        IF k = m + 1
                        THEN IF list[k].is_healthy THEN Append(g[m], list[k]) ELSE g[m]
                        ELSE g[k]]
    OBVIOUS
  <2>4. ASSUME NEW k \in 0 .. m + 1
        PROVE  h[k] = IF k = 0 THEN <<>> ELSE IF list[k].is_healthy THEN Append(h[k - 1], list[k])
                      ELSE h[k - 1]
    <3>1. CASE k = m + 1
      <4>1. h[k - 1] = g[m] /\ k # 0
        BY <2>3, <3>1
      <4> QED
        BY <2>3, <3>1, <4>1
    <3>2. CASE k = 0
      BY <2>2, <2>3, <3>2
    <3>3. CASE k # 0 /\ k # m + 1
      <4>1. k \in 0..m /\ k - 1 \in 0..m /\ k - 1 \in 0 .. m + 1 /\ k - 1 # m + 1
        BY <3>3
      <4>2. h[k] = g[k] /\ h[k - 1] = g[k - 1]
        BY <2>3, <4>1, <3>3
      <4>3. g[k] = IF list[k].is_healthy THEN Append(g[k - 1], list[k]) ELSE g[k - 1]
        BY <2>2, <4>1, <3>3
      <4> QED
        BY <4>2, <4>3, <3>3
    <3> QED
      BY <3>1, <3>2, <3>3
  <2>5. IsFilter(h, m + 1, list)
    BY <2>3, <2>4 DEF IsFilter
  <2> QED
    BY <2>5
<1> HIDE DEF S
<1>3. \A m \in 0..n : m \in S
  BY <1>1, <1>2, Induction
<1> QED
  BY <1>3 DEF S

(* s is made of entries of the first m of list. *)
Taken(s, I, list, m) ==
    /\ s \in Seq(I)
    /\ \A k \in 1..Len(s) : \E j \in 1..m : s[k] = list[j]
    /\ NamedOnce(list) => NamedOnce(s)

LEMMA HealthyTaken ==
    ASSUME NEW I, NEW list \in Seq(I)
    PROVE  Taken(Healthy(list), I, list, Len(list))
<1>1. PICK n \in Nat : n = Len(list) /\ DOMAIN list = 1..n
  OBVIOUS
<1> DEFINE h == CHOOSE x : IsFilter(x, n, list)
<1>2. IsFilter(h, n, list)
  BY FilterExists
<1>3. Healthy(list) = h[n]
  BY <1>1 DEF Healthy, IsFilter
<1> HIDE DEF h
<1>4. h = [k \in 0..n |-> IF k = 0 THEN <<>>
                          ELSE IF list[k].is_healthy THEN Append(h[k - 1], list[k])
                          ELSE h[k - 1]]
  BY <1>2 DEF IsFilter
<1> DEFINE S == {m \in 0..n : Taken(h[m], I, list, m)}
<1>5. 0 \in S
  <2>1. h[0] = <<>>
    BY <1>4
  <2>2. <<>> \in Seq(I) /\ Len(<<>>) = 0 /\ DOMAIN <<>> = {}
    OBVIOUS
  <2>3. Taken(<<>>, I, list, 0)
    BY <2>2 DEF Taken, NamedOnce
  <2> QED
    BY <2>1, <2>3
<1>6. ASSUME NEW m \in 0 .. n - 1, m \in S PROVE m + 1 \in S
  <2>1. m + 1 \in 0..n /\ m + 1 \in 1..n /\ m + 1 # 0 /\ (m + 1) - 1 = m
    OBVIOUS
  <2>2. PICK s : s = h[m]
    OBVIOUS
  <2>3. PICK i \in I : i = list[m + 1]
    BY <1>1, <2>1
  <2>4. h[m + 1] = IF i.is_healthy THEN Append(s, i) ELSE s
    BY <1>4, <2>1, <2>2, <2>3
  <2>5. s \in Seq(I) /\ \A k \in 1..Len(s) : \E j \in 1..m : s[k] = list[j]
    BY <1>6, <2>2 DEF Taken
  <2>6. NamedOnce(list) => NamedOnce(s)
    BY <1>6, <2>2 DEF Taken
  <2> HIDE DEF S
  <2>7. Taken(s, I, list, m + 1)
    BY <2>5, <2>6 DEF Taken
  <2>8. Taken(Append(s, i), I, list, m + 1)
    <3>1. PICK l \in Nat : l = Len(s) /\ DOMAIN s = 1..l
      BY <2>5
    <3>2. PICK a : a = Append(s, i)
      OBVIOUS
    <3>3. /\ a \in Seq(I) /\ Len(a) = l + 1 /\ DOMAIN a = 1 .. l + 1
          /\ \A k \in 1 .. l + 1 : a[k] = IF k = l + 1 THEN i ELSE s[k]
      BY <2>5, <3>1, <3>2
    <3>4. \A k \in 1 .. l + 1 : \E j \in 1 .. m + 1 : a[k] = list[j] /\ (k # l + 1 => j <= m)
      <4> SUFFICES ASSUME NEW k \in 1 .. l + 1
                   PROVE  \E j \in 1 .. m + 1 : a[k] = list[j] /\ (k # l + 1 => j <= m)
        OBVIOUS
      <4>1. CASE k = l + 1
        BY <2>3, <3>3, <4>1
      <4>2. CASE k # l + 1
        <5>1. k \in 1..l /\ a[k] = s[k]
          BY <3>3, <4>2
        <5>2. PICK j \in 1..m : s[k] = list[j]
          BY <2>5, <3>1, <5>1
        <5> QED
          BY <5>1, <5>2
      <4> QED
        BY <4>1, <4>2
    <3>5. ASSUME NamedOnce(list) PROVE NamedOnce(a)
      <4>1. \A j, k \in 1..l : s[j].id = s[k].id => j = k
        BY <2>6, <3>1, <3>5 DEF NamedOnce
      <4>2. ASSUME NEW k \in 1..l PROVE a[k].id # i.id
        <5>1. PICK j \in 1 .. m + 1 : a[k] = list[j] /\ j <= m
          BY <3>4, <4>2
        <5>2. j \in 1..n /\ j # m + 1
          BY <2>1, <5>1
        <5>3. list[j].id # list[m + 1].id
          BY <1>1, <2>1, <3>5, <5>2 DEF NamedOnce
        <5> QED
          BY <2>3, <5>1, <5>3
      <4>3. ASSUME NEW j \in 1 .. l + 1, NEW k \in 1 .. l + 1, a[j].id = a[k].id PROVE j = k
        <5>1. CASE j \in 1..l /\ k \in 1..l
          BY <3>3, <4>1, <4>3, <5>1
        <5>2. CASE j = l + 1 /\ k \in 1..l
          BY <3>3, <4>2, <4>3, <5>2
        <5>3. CASE k = l + 1 /\ j \in 1..l
          BY <3>3, <4>2, <4>3, <5>3
        <5>4. CASE j = l + 1 /\ k = l + 1
          BY <5>4
        <5> QED
          BY <5>1, <5>2, <5>3, <5>4
      <4> QED
        BY <3>3, <4>3 DEF NamedOnce
    <3> QED
      BY <3>2, <3>3, <3>4, <3>5 DEF Taken
  <2> QED
    BY <2>1, <2>4, <2>7, <2>8 DEF S
<1> HIDE DEF S
<1>7. \A m \in 0..n : m \in S
  BY <1>5, <1>6, Induction
<1>8. n \in 0..n
  OBVIOUS
<1> QED
  BY <1>1, <1>3, <1>7, <1>8 DEF S

-----------------------------------------------------------------------------
(* Remainders *)

LEMMA Division ==
    ASSUME NEW n \in Nat \ {0}, NEW a \in Int
    PROVE  \E q \in Int, s \in 0 .. n - 1 : a = n * q + s /\ a % n = s
<1>1. a \div n \in Int /\ a % n \in 0 .. n - 1 /\ a = n * (a \div n) + (a % n)
  OBVIOUS
<1> QED
  BY <1>1

LEMMA RemainderIs ==
    ASSUME NEW n \in Nat \ {0}, NEW q \in Int, NEW r \in 0 .. n - 1
    PROVE  (n * q + r) % n = r
<1>1. PICK a \in Int : a = n * q + r
  OBVIOUS
<1>2. PICK x \in Int, s \in 0 .. n - 1 : a = n * x + s /\ a % n = s
  BY Division
<1>3. n * (q - x) = s - r
  BY <1>1, <1>2
<1>4. PICK y \in Int : y = q - x
  OBVIOUS
<1>5. n * y < n /\ n * y > -n
  BY <1>3, <1>4
<1>6. y < 1 /\ y > -1
  BY <1>5
<1>7. y = 0 /\ n * y = 0
  BY <1>6
<1> QED
  BY <1>1, <1>2, <1>3, <1>4, <1>7

(* n numbers in a row have each remainder once. *)
LEMMA RemaindersInARow ==
    ASSUME NEW n \in Nat \ {0}, NEW a \in Nat, NEW r \in 0 .. n - 1
    PROVE  \E k \in 1..n : \A j \in 1..n : (a + j - 1) % n = r <=> j = k
<1>1. PICK q \in Int, s \in 0 .. n - 1 : a = n * q + s
  <2>1. a \in Int
    OBVIOUS
  <2> QED
    BY <2>1, Division
<1>2. ASSUME NEW j \in 1..n PROVE (a + j - 1) % n = IF s + j - 1 < n THEN s + j - 1 ELSE s + j - 1 - n
  <2>1. CASE s + j - 1 < n
    <3>1. PICK x \in 0 .. n - 1 : x = s + j - 1
      BY <2>1
    <3>2. a + j - 1 = n * q + x
      BY <1>1, <3>1
    <3> QED
      BY <2>1, <3>1, <3>2, RemainderIs
  <2>2. CASE ~(s + j - 1 < n)
    <3>1. PICK x \in 0 .. n - 1 : x = s + j - 1 - n
      BY <2>2
    <3>2. n * (q + 1) = n * q + n /\ q + 1 \in Int
      BY TimesNext
    <3>3. a + j - 1 = n * (q + 1) + x
      <4>1. n * q \in Int
        OBVIOUS
      <4> QED
        BY <1>1, <3>1, <3>2, <4>1
    <3> QED
      BY <2>2, <3>1, <3>2, <3>3, RemainderIs
  <2> QED
    BY <2>1, <2>2
<1>3. PICK k : k = IF r >= s THEN r - s + 1 ELSE r - s + 1 + n
  OBVIOUS
<1>4. k \in 1..n
  BY <1>3
<1>5. ASSUME NEW j \in 1..n PROVE (a + j - 1) % n = r <=> j = k
  <2>1. (a + j - 1) % n = IF s + j - 1 < n THEN s + j - 1 ELSE s + j - 1 - n
    BY <1>2
  <2>2. PICK x : x = (a + j - 1) % n
    OBVIOUS
  <2>3. x = IF s + j - 1 < n THEN s + j - 1 ELSE s + j - 1 - n
    BY <2>1, <2>2
  <2>4. x = r <=> j = k
    BY <1>3, <2>3
  <2> QED
    BY <2>2, <2>4
<1> QED
  BY <1>4, <1>5

(* A counter below the range goes up by one, or back to zero. *)
LEMMA CountsUp ==
    ASSUME NEW i \in Nat, i < IndexRange, (i + 1) % IndexRange # 0
    PROVE  (i + 1) % IndexRange = i + 1
<1>1. PICK n \in Nat \ {0} : n = IndexRange
  BY IndexAssumption
<1>2. ASSUME i + 1 = n PROVE FALSE
  <2>1. i + 1 = n * 1 + 0 /\ 0 \in 0 .. n - 1 /\ 1 \in Int
    BY <1>2
  <2>2. (n * 1 + 0) % n = 0
    BY <2>1, RemainderIs
  <2> QED
    BY <1>1, <2>1, <2>2
<1>3. i + 1 = n * 0 + (i + 1) /\ i + 1 \in 0 .. n - 1 /\ 0 \in Int
  BY <1>1, <1>2
<1>4. (n * 0 + (i + 1)) % n = i + 1
  BY <1>3, RemainderIs
<1> QED
  BY <1>1, <1>3, <1>4

-----------------------------------------------------------------------------
(* What a balancer is made of *)

Inst == [id : Ids, weight : Int, is_healthy : BOOLEAN]

IsBalancer(x) ==
    /\ x = [name |-> x.name, hash |-> x.hash, virtual_nodes |-> x.virtual_nodes,
            current_index |-> x.current_index, current_weights |-> x.current_weights,
            connection_counts |-> x.connection_counts, hash_ring |-> x.hash_ring,
            last_key |-> x.last_key]
    /\ x.name \in {"RoundRobin", "WeightedRoundRobin", "LeastConnection", "ConsistentHash"}
    /\ x.name = "ConsistentHash" => x.hash \in Hashes /\ x.virtual_nodes \in VirtualNodes
    /\ x.current_index \in 0 .. IndexRange - 1
    /\ \A id \in DOMAIN x.current_weights : x.current_weights[id] \in Int

(* y is x but for the fields that a selection writes. *)
Alike(x, y) == y.name = x.name /\ y.hash = x.hash /\ y.virtual_nodes = x.virtual_nodes

New(x) ==
    x.current_index = 0 /\ x.current_weights = <<>> /\ x.hash_ring = <<>> /\ x.last_key = NoKey

LEMMA NewTyped ==
    ASSUME NEW name \in {"RoundRobin", "WeightedRoundRobin", "LeastConnection", "ConsistentHash"},
           NEW hash, NEW v, name = "ConsistentHash" => hash \in Hashes /\ v \in VirtualNodes,
           NEW x, x = NewBalancer(name, hash, v)
    PROVE  IsBalancer(x) /\ New(x) /\ x.name = name
           /\ (name = "ConsistentHash" => x.hash = hash /\ x.virtual_nodes = v)
<1>1. 0 \in 0 .. IndexRange - 1
  BY IndexAssumption
<1>2. DOMAIN <<>> = {}
  OBVIOUS
<1>3. /\ x.name = name /\ x.current_index = 0 /\ x.current_weights = <<>> /\ x.hash_ring = <<>>
      /\ x.last_key = NoKey
      /\ name = "ConsistentHash" => x.hash = hash /\ x.virtual_nodes = v
  BY DEF NewBalancer
<1>4. x = [name |-> x.name, hash |-> x.hash, virtual_nodes |-> x.virtual_nodes,
           current_index |-> x.current_index, current_weights |-> x.current_weights,
           connection_counts |-> x.connection_counts, hash_ring |-> x.hash_ring,
           last_key |-> x.last_key]
  BY DEF NewBalancer
<1> QED
  BY <1>1, <1>2, <1>3, <1>4 DEF IsBalancer, New

LEMMA ResetTyped ==
    ASSUME NEW x, IsBalancer(x), NEW y, y = ResetBalancer(x)
    PROVE  IsBalancer(y) /\ New(y) /\ y.name = x.name
           /\ (x.name = "ConsistentHash" => Alike(x, y))
<1>1. y = NewBalancer(x.name, x.hash, x.virtual_nodes)
  BY DEF ResetBalancer
<1> QED
  BY <1>1, NewTyped DEF IsBalancer, Alike

LEMMA CreateTyped ==
    ASSUME NEW name \in Names, NEW hash \in Hashes, NEW v \in VirtualNodes,
           NEW x, x = Create(name, hash, v)
    PROVE  IsBalancer(x) /\ New(x)
<1>1. PICK nm : nm = IF name \in DOMAIN Creators THEN Creators[name] ELSE Creators["round_robin"]
  OBVIOUS
<1>2. nm \in {"RoundRobin", "WeightedRoundRobin", "LeastConnection", "ConsistentHash"}
  BY <1>1 DEF Creators
<1>3. x = NewBalancer(nm, hash, v)
  BY <1>1 DEF Create
<1> QED
  BY <1>2, <1>3, NewTyped

(* The list *)
LEMMA HealthyIs ==
    ASSUME NEW list \in Lists, NEW hs, hs = Healthy(list)
    PROVE  /\ hs \in Seq(Inst) /\ Len(hs) \in Nat /\ DOMAIN hs = 1..Len(hs)
           /\ \A k \in 1..Len(hs) : hs[k].id \in Ids /\ hs[k].weight \in Int
           /\ \A k \in 1..Len(hs) : \E j \in DOMAIN list : hs[k] = list[j]
           /\ NamedOnce(list) => NamedOnce(hs)
           /\ SelectThrows(list) <=> Len(hs) = 0
<1>1. list \in Seq(Inst)
  BY BalancingAssumption DEF Inst
<1>2. Taken(hs, Inst, list, Len(list)) /\ DOMAIN list = 1..Len(list)
  BY <1>1, HealthyTaken
<1>3. hs \in Seq(Inst)
  BY <1>2 DEF Taken
<1>4. /\ Len(hs) \in Nat /\ DOMAIN hs = 1..Len(hs) /\ \A k \in 1..Len(hs) : hs[k] \in Inst
      /\ Len(hs) = 0 <=> hs = <<>>
  BY <1>3
<1>5. \A k \in 1..Len(hs) : hs[k].id \in Ids /\ hs[k].weight \in Int
  BY <1>4 DEF Inst
<1>6. SelectThrows(list) <=> Len(hs) = 0
  BY <1>4 DEF SelectThrows
<1> QED
  BY <1>2, <1>3, <1>4, <1>5, <1>6 DEF Taken

LEMMA WithIdIs ==
    ASSUME NEW hs \in Seq(Inst), NEW id \in IdsOf(hs)
    PROVE  \E k \in 1..Len(hs) : WithId(hs, id) = hs[k] /\ hs[k].id = id
<1>1. PICK n \in Nat : n = Len(hs) /\ DOMAIN hs = 1..n
  OBVIOUS
<1> DEFINE Found == {k \in 1..n : hs[k].id = id}
<1>2. Found \in SUBSET Nat /\ Found # {}
  BY <1>1 DEF IdsOf
<1>3. PICK k \in Found : \A j \in Found : k <= j
  BY <1>2, LeastNat
<1>4. hs[k].id = id /\ k \in 1..n /\ \A j \in 1 .. k - 1 : hs[j].id # id
  <2>1. k \in 1..n /\ hs[k].id = id
    OBVIOUS
  <2>2. ASSUME NEW j \in 1 .. k - 1, hs[j].id = id PROVE FALSE
    <3>1. j \in 1..n /\ j < k
      BY <2>1
    <3> QED
      BY <1>3, <2>1, <2>2, <3>1
  <2> QED
    BY <2>1, <2>2
<1>5. PICK m : m = CHOOSE x \in DOMAIN hs : hs[x].id = id /\ \A j \in 1 .. x - 1 : hs[j].id # id
  OBVIOUS
<1>6. m \in 1..n /\ hs[m].id = id
  BY <1>1, <1>4, <1>5
<1>7. WithId(hs, id) = hs[m]
  BY <1>5 DEF WithId
<1> QED
  BY <1>1, <1>6, <1>7

-----------------------------------------------------------------------------
(* Selecting *)

LEMMA RoundRobinTurn ==
    ASSUME NEW x, IsBalancer(x), x.name = "RoundRobin", NEW list \in Lists, ~SelectThrows(list),
           NEW hs, hs = Healthy(list), NEW result, result = Select(x, list)
    PROVE  /\ IsBalancer(result.b) /\ Alike(x, result.b)
           /\ result.b.current_index = (x.current_index + 1) % IndexRange
           /\ result.instance = hs[(x.current_index % Len(hs)) + 1]
           /\ (x.current_index % Len(hs)) + 1 \in 1..Len(hs)
<1>1. /\ Len(hs) \in Nat \ {0} /\ x.current_index \in Nat
      /\ (x.current_index + 1) % IndexRange \in 0 .. IndexRange - 1
  BY IndexAssumption, HealthyIs DEF IsBalancer
<1>2. PICK i \in 0 .. IndexRange - 1 : i = (x.current_index + 1) % IndexRange
  BY <1>1
<1>3. /\ result.instance = hs[(x.current_index % Len(hs)) + 1]
      /\ result.b = [x EXCEPT !.current_index = i]
  BY <1>2 DEF Select, RoundRobinSelect, NextIndex
<1>4. (x.current_index % Len(hs)) + 1 \in 1..Len(hs)
  BY <1>1
<1> QED
  BY <1>2, <1>3, <1>4 DEF IsBalancer, Alike

LEMMA LeastChosen ==
    ASSUME NEW x, IsBalancer(x), x.name = "LeastConnection", NEW list \in Lists,
           ~SelectThrows(list), NEW hs, hs = Healthy(list), NEW result, result = Select(x, list)
    PROVE  IsBalancer(result.b) /\ Alike(x, result.b)
<1>1. PICK c : c = WithEntries(x.connection_counts, IdsOf(hs))
  OBVIOUS
<1>2. result.b = [x EXCEPT !.connection_counts = c]
  BY <1>1 DEF Select, LeastSelect
<1> QED
  BY <1>2 DEF IsBalancer, Alike

(* What the loop has made of the weight of an id after n instances. *)
LEMMA RaisedType ==
    ASSUME NEW hs \in Seq(Inst), NEW map, NEW id, map[id] \in Int, NEW n \in 0..Len(hs)
    PROVE  Raised(map, hs, id, n) \in Int
<1>1. PICK f : f = [k \in 1..n |-> IF hs[k].id = id THEN WeightOf(hs[k]) ELSE 0]
  OBVIOUS
<1>2. \A k \in 1..n : hs[k] \in Inst
  OBVIOUS
<1>3. \A k \in 1..n : WeightOf(hs[k]) \in Int
  BY <1>2 DEF Inst, WeightOf
<1>4. \A k \in 1..n : f[k] \in Int
  BY <1>1, <1>3
<1>5. SumTo(n, f) \in Int
  BY <1>4, SumType
<1>6. Raised(map, hs, id, n) = map[id] + SumTo(n, f)
  BY <1>1 DEF Raised
<1> QED
  BY <1>5, <1>6

LEMMA TotalType ==
    ASSUME NEW hs \in Seq(Inst)
    PROVE  TotalWeight(hs) \in Int
<1>1. PICK f : f = [k \in DOMAIN hs |-> hs[k].weight]
  OBVIOUS
<1>2. \A k \in 1..Len(hs) : f[k] \in Int
  <2>1. DOMAIN hs = 1..Len(hs) /\ \A k \in 1..Len(hs) : hs[k] \in Inst
    OBVIOUS
  <2> QED
    BY <1>1, <2>1 DEF Inst
<1>3. SumTo(Len(hs), f) \in Int
  BY <1>2, SumType
<1> QED
  BY <1>1, <1>3 DEF TotalWeight

LEMMA EntriesType ==
    ASSUME NEW map, \A id \in DOMAIN map : map[id] \in Int, NEW ids, NEW m, m = WithEntries(map, ids)
    PROVE  /\ DOMAIN m = DOMAIN map \cup ids
           /\ \A id \in DOMAIN m : m[id] \in Int /\ m[id] = IF id \in DOMAIN map THEN map[id] ELSE 0
BY DEF WithEntries

LEMMA WeightedTyped ==
    ASSUME NEW x, IsBalancer(x), x.name = "WeightedRoundRobin", NEW list \in Lists,
           ~SelectThrows(list), NEW hs, hs = Healthy(list), NEW result, result = Select(x, list)
    PROVE  IsBalancer(result.b) /\ Alike(x, result.b)
<1>1. hs \in Seq(Inst) /\ Len(hs) \in 0..Len(hs)
  BY HealthyIs
<1>2. PICK map : map = WithEntries(x.current_weights, IdsOf(hs))
  OBVIOUS
<1>3. \A id \in DOMAIN map : map[id] \in Int
  BY <1>2, EntriesType DEF IsBalancer
<1>4. PICK all : all = [id \in DOMAIN map |-> Raised(map, hs, id, Len(hs))]
  OBVIOUS
<1>5. \A id \in DOMAIN all : all[id] \in Int
  BY <1>1, <1>3, <1>4, RaisedType
<1>6. PICK selected : selected = {hs[k].id : k \in Largest(map, hs)}
  OBVIOUS
<1>7. PICK e : e = [id \in DOMAIN all |-> IF id \in selected
                                          THEN AfterPaying(all[id], TotalWeight(hs)) ELSE all[id]]
  OBVIOUS
<1>8. \A id \in DOMAIN e : e[id] \in Int
  BY <1>1, <1>5, <1>7, TotalType DEF AfterPaying
<1>9. result.b = [x EXCEPT !.current_weights = e]
  BY <1>2, <1>4, <1>6, <1>7 DEF Select, WeightedSelect
<1> QED
  BY <1>8, <1>9 DEF IsBalancer, Alike

LEMMA HashTyped ==
    ASSUME NEW x, IsBalancer(x), x.name = "ConsistentHash", NEW hs, NEW key,
           NEW result, result = SelectByKey(x, hs, key)
    PROVE  IsBalancer(result.b) /\ Alike(x, result.b)
<1>1. result.b = x \/ \E k, r : result.b = [x EXCEPT !.last_key = k, !.hash_ring = r]
  BY DEF SelectByKey
<1> QED
  BY <1>1 DEF IsBalancer, Alike

(* The lists for which the weights are shares. *)
Fair(list) == NamedOnce(list) /\ \A k \in DOMAIN list : list[k].weight > 0

WeightsOf(hs) == [k \in 1..Len(hs) |-> hs[k].weight]

(* d is what map says of the instances, place by place. *)
Matches(map, hs, d) ==
    \A k \in 1..Len(hs) : d[k] = IF hs[k].id \in DOMAIN map THEN map[hs[k].id] ELSE 0

LEMMA FairWeights ==
    ASSUME NEW list \in Lists, Fair(list), ~SelectThrows(list), NEW hs, hs = Healthy(list)
    PROVE  /\ Weights(Len(hs), WeightsOf(hs)) /\ NamedOnce(hs)
           /\ TotalWeight(hs) = SumTo(Len(hs), WeightsOf(hs))
           /\ \A k \in 1..Len(hs) : WeightOf(hs[k]) = WeightsOf(hs)[k]
<1>1. /\ Len(hs) \in Nat \ {0} /\ DOMAIN hs = 1..Len(hs)
      /\ \A k \in 1..Len(hs) : hs[k].weight \in Int
      /\ \A k \in 1..Len(hs) : \E j \in DOMAIN list : hs[k] = list[j]
      /\ NamedOnce(hs)
  BY HealthyIs DEF Fair
<1>2. \A k \in 1..Len(hs) : hs[k].weight \in Nat \ {0}
  BY <1>1 DEF Fair
<1>3. WeightsOf(hs) \in [1..Len(hs) -> Nat \ {0}]
  BY <1>2 DEF WeightsOf
<1>4. TotalWeight(hs) = SumTo(Len(hs), WeightsOf(hs))
  BY <1>1 DEF TotalWeight, WeightsOf
<1>5. \A k \in 1..Len(hs) : WeightOf(hs[k]) = WeightsOf(hs)[k]
  BY <1>2 DEF WeightOf, WeightsOf
<1> QED
  BY <1>1, <1>3, <1>4, <1>5 DEF Weights

(* Where every instance is listed once it is raised once. *)
LEMMA RaisedOnce ==
    ASSUME NEW hs \in Seq(Inst), NamedOnce(hs), NEW map, NEW k \in 1..Len(hs),
           map[hs[k].id] \in Int, NEW n \in 0..Len(hs)
    PROVE  Raised(map, hs, hs[k].id, n) = map[hs[k].id] + IF k <= n THEN WeightOf(hs[k]) ELSE 0
<1>1. PICK f : f = [j \in 1..n |-> IF hs[j].id = hs[k].id THEN WeightOf(hs[j]) ELSE 0]
  OBVIOUS
<1>2. PICK y : y = WeightOf(hs[k])
  OBVIOUS
<1>3. y \in Int
  <2>1. hs[k] \in Inst
    OBVIOUS
  <2> QED
    BY <1>2, <2>1 DEF Inst, WeightOf
<1>4. \A j \in 1..n : f[j] = IF j = k THEN y ELSE 0
  <2>1. \A j \in 1..n : j \in DOMAIN hs /\ k \in DOMAIN hs
    OBVIOUS
  <2> QED
    BY <1>1, <1>2, <2>1 DEF NamedOnce
<1>5. n \in Nat /\ k \in Nat \ {0}
  OBVIOUS
<1>6. SumTo(n, f) = IF k <= n THEN y ELSE 0
  BY <1>3, <1>4, <1>5, SumPoint
<1> QED
  BY <1>1, <1>2, <1>6 DEF Raised

(* A selection is a step of the smooth round robin. *)
LEMMA WeightedTurn ==
    ASSUME NEW x, IsBalancer(x), x.name = "WeightedRoundRobin", NEW list \in Lists,
           ~SelectThrows(list), Fair(list), NEW hs, hs = Healthy(list),
           NEW result, result = Select(x, list),
           NEW c, Balanced(Len(hs), WeightsOf(hs), c), Matches(x.current_weights, hs, c)
    PROVE  \E s, d : /\ IsStep(Len(hs), WeightsOf(hs), c, s, d)
                     /\ s \in 1..Len(hs) /\ result.instance = hs[s]
                     /\ Matches(result.b.current_weights, hs, d)
<1>1. PICK n : n = Len(hs)
  OBVIOUS
<1>2. PICK w : w = WeightsOf(hs)
  OBVIOUS
<1>3. /\ Weights(n, w) /\ NamedOnce(hs) /\ TotalWeight(hs) = SumTo(n, w)
      /\ \A k \in 1..n : WeightOf(hs[k]) = w[k]
  BY <1>1, <1>2, FairWeights
<1>4. hs \in Seq(Inst) /\ n \in Nat /\ DOMAIN hs = 1..n /\ \A k \in 1..n : w[k] \in Int
  BY <1>1, <1>3, HealthyIs DEF Weights
<1>5. PICK map : map = WithEntries(x.current_weights, IdsOf(hs))
  OBVIOUS
<1>6. /\ \A k \in 1..n : hs[k].id \in DOMAIN map
      /\ \A id \in DOMAIN map : /\ map[id] \in Int
                                /\ map[id] = IF id \in DOMAIN x.current_weights
                                             THEN x.current_weights[id] ELSE 0
  <2>1. PICK m : m = x.current_weights
    OBVIOUS
  <2>2. \A id \in DOMAIN m : m[id] \in Int
    BY <2>1 DEF IsBalancer
  <2>3. map = WithEntries(m, IdsOf(hs))
    BY <1>5, <2>1
  <2>4. /\ DOMAIN map = DOMAIN m \cup IdsOf(hs)
        /\ \A id \in DOMAIN map : map[id] \in Int /\ map[id] = IF id \in DOMAIN m THEN m[id] ELSE 0
    BY <2>2, <2>3 DEF WithEntries
  <2>5. \A k \in 1..n : hs[k].id \in IdsOf(hs)
    BY <1>4 DEF IdsOf
  <2> QED
    BY <2>1, <2>4, <2>5
<1>7. \A k \in 1..n : map[hs[k].id] = c[k] /\ c[k] \in Int
  BY <1>1, <1>6 DEF Matches
<1>8. PICK g : g = Grown(n, w, c)
  OBVIOUS
<1>9. \A k \in 1..n : g[k] = c[k] + w[k] /\ g[k] \in Int
  BY <1>4, <1>7, <1>8 DEF Grown
<1>10. ASSUME NEW k \in 1..n
       PROVE  Raised(map, hs, hs[k].id, k) = g[k] /\ Raised(map, hs, hs[k].id, n) = g[k]
  <2>1. k \in 0..Len(hs) /\ n \in 0..Len(hs) /\ k \in 1..Len(hs) /\ k <= n /\ k <= k
    BY <1>1, <1>4
  <2>2. map[hs[k].id] \in Int
    BY <1>7
  <2>3. /\ Raised(map, hs, hs[k].id, k) = map[hs[k].id] + WeightOf(hs[k])
        /\ Raised(map, hs, hs[k].id, n) = map[hs[k].id] + WeightOf(hs[k])
    BY <1>3, <1>4, <2>1, <2>2, RaisedOnce
  <2> QED
    BY <1>3, <1>7, <1>9, <2>3
<1>11. PICK s : First(n, g, s) /\ g[s] > 0
  BY <1>1, <1>2, <1>3, <1>8, StepPossible
<1>12. s \in 1..n
  BY <1>11 DEF First
<1>13. Largest(map, hs) = {s}
  <2>1. ASSUME NEW k \in Largest(map, hs) PROVE k = s
    <3>1. k \in 1..n /\ \A j \in 1..n : g[j] < g[k] \/ (g[j] = g[k] /\ k <= j)
      BY <1>4, <1>10, <2>1 DEF Largest
    <3>2. First(n, g, k)
      BY <3>1 DEF First
    <3> QED
      BY <1>4, <1>9, <1>11, <3>2, FirstUnique
  <2>2. s \in Largest(map, hs)
    BY <1>4, <1>10, <1>11, <1>12 DEF Largest, First
  <2> QED
    BY <2>1, <2>2
<1>14. PICK selected : selected = {hs[k].id : k \in Largest(map, hs)}
  OBVIOUS
<1>15. selected = {hs[s].id}
  BY <1>13, <1>14
<1>16. result.instance = hs[s]
  <2>1. PICK id : id = CHOOSE i \in selected : TRUE
    OBVIOUS
  <2>2. id = hs[s].id
    BY <1>15, <2>1
  <2>3. result.instance = WithId(hs, id)
    <3>1. result = WeightedSelect(x, hs)
      BY DEF Select
    <3>2. result.instance = IF selected = {} THEN hs[1] ELSE WithId(hs, CHOOSE i \in selected : TRUE)
      BY <1>5, <1>14, <3>1 DEF WeightedSelect
    <3>3. selected # {}
      BY <1>15
    <3> QED
      BY <2>1, <3>2, <3>3
  <2>4. id \in IdsOf(hs)
    BY <1>4, <1>12, <2>2 DEF IdsOf
  <2>5. PICK k \in 1..n : WithId(hs, id) = hs[k] /\ hs[k].id = id
    BY <1>1, <1>4, <2>4, WithIdIs
  <2>6. k = s
    BY <1>3, <1>4, <1>12, <2>2, <2>5 DEF NamedOnce
  <2> QED
    BY <2>3, <2>5, <2>6
<1>17. PICK all : all = [id \in DOMAIN map |-> Raised(map, hs, id, n)]
  OBVIOUS
<1>18. PICK e : e = [id \in DOMAIN all |-> IF id \in selected
                                           THEN AfterPaying(all[id], TotalWeight(hs)) ELSE all[id]]
  OBVIOUS
<1>19. result.b.current_weights = e
  <2>1. result.b = [x EXCEPT !.current_weights = e]
    BY <1>1, <1>5, <1>14, <1>17, <1>18 DEF Select, WeightedSelect
  <2> QED
    BY <2>1 DEF IsBalancer
<1>20. PICK d : d = [k \in 1..n |-> IF k = s THEN g[k] - SumTo(n, w) ELSE g[k]]
  OBVIOUS
<1>21. Matches(e, hs, d)
  <2> SUFFICES ASSUME NEW k \in 1..n PROVE hs[k].id \in DOMAIN e /\ e[hs[k].id] = d[k]
    BY <1>1 DEF Matches
  <2>1. hs[k].id \in DOMAIN all /\ all[hs[k].id] = g[k] /\ DOMAIN e = DOMAIN all
    BY <1>6, <1>10, <1>17, <1>18
  <2>2. hs[k].id \in selected <=> k = s
    BY <1>3, <1>4, <1>12, <1>15 DEF NamedOnce
  <2>3. e[hs[k].id] = IF k = s THEN g[k] - SumTo(n, w) ELSE g[k]
    BY <1>3, <1>18, <2>1, <2>2 DEF AfterPaying
  <2> QED
    BY <1>20, <2>1, <2>3
<1>22. IsStep(n, w, c, s, d)
  BY <1>8, <1>11, <1>20 DEF IsStep
<1> QED
  BY <1>1, <1>2, <1>12, <1>16, <1>19, <1>21, <1>22

-----------------------------------------------------------------------------
(* The type *)

TypeInv == IsBalancer(b) /\ instances \in Lists /\ changes \in 0..MaxChanges /\ steady \in BOOLEAN

LEMMA SelectTyped ==
    ASSUME NEW x, IsBalancer(x), x.name # "ConsistentHash", NEW list \in Lists,
           ~SelectThrows(list), NEW result, result = Select(x, list)
    PROVE  IsBalancer(result.b) /\ Alike(x, result.b)
<1>1. CASE x.name = "RoundRobin"
  BY <1>1, RoundRobinTurn
<1>2. CASE x.name = "WeightedRoundRobin"
  BY <1>2, WeightedTyped
<1>3. CASE x.name = "LeastConnection"
  BY <1>3, LeastChosen
<1> QED
  BY <1>1, <1>2, <1>3 DEF IsBalancer

LEMMA TypeInit == Init => TypeInv
<1> SUFFICES ASSUME Init PROVE TypeInv
  OBVIOUS
<1>1. PICK name \in Names, hash \in Hashes, v \in VirtualNodes : b = Create(name, hash, v)
  BY DEF Init
<1>2. IsBalancer(b)
  BY <1>1, CreateTyped
<1>3. instances \in Lists /\ changes = 0 /\ steady = TRUE
  BY DEF Init
<1> QED
  BY <1>2, <1>3, BalancingAssumption DEF TypeInv

(* Every step keeps the types, and the balancer what it was created with. *)
LEMMA TypeStep ==
    ASSUME TypeInv, [Next]_vars
    PROVE  TypeInv' /\ (Alike(b, b') \/ (b' = ResetBalancer(b) /\ DoReset))
<1>1. CASE DoSelect
  <2>1. PICK result : result = Select(b, instances) /\ Picked(result)
    BY <1>1 DEF DoSelect
  <2>2. IsBalancer(result.b) /\ Alike(b, result.b)
    BY <1>1, <2>1, SelectTyped DEF DoSelect, TypeInv
  <2>3. b' = result.b /\ UNCHANGED <<instances, changes, steady>>
    BY <2>1 DEF Picked
  <2> QED
    BY <2>2, <2>3 DEF TypeInv
<1>2. CASE \E key \in {b.last_key} \cup Keys : DoSelectByKey(key)
  <2>1. PICK key \in {b.last_key} \cup Keys : DoSelectByKey(key)
    BY <1>2
  <2>2. PICK result : result = SelectByKey(b, Healthy(instances), key) /\ Picked(result)
    BY <2>1 DEF DoSelectByKey
  <2>3. IsBalancer(result.b) /\ Alike(b, result.b)
    BY <2>1, <2>2, HashTyped DEF DoSelectByKey, TypeInv
  <2>4. b' = result.b /\ UNCHANGED <<instances, changes, steady>>
    BY <2>2 DEF Picked
  <2> QED
    BY <2>3, <2>4 DEF TypeInv
<1>3. CASE DoSelectThrows
  BY <1>3 DEF DoSelectThrows, TypeInv, Alike
<1>4. CASE DoReset
  <2>1. b' = ResetBalancer(b) /\ changes' = changes + 1 /\ changes < MaxChanges
        /\ steady' = TRUE /\ instances' = instances
    BY <1>4 DEF DoReset
  <2>2. IsBalancer(b')
    BY <2>1, ResetTyped DEF TypeInv
  <2>3. changes' \in 0..MaxChanges
    BY <2>1, BalancingAssumption DEF TypeInv
  <2> QED
    BY <1>4, <2>1, <2>2, <2>3 DEF TypeInv
<1>5. CASE \E list \in Lists : ChangeList(list)
  <2>1. b' = b /\ instances' \in Lists /\ changes' = changes + 1 /\ changes < MaxChanges
        /\ steady' = FALSE
    BY <1>5 DEF ChangeList
  <2>2. changes' \in 0..MaxChanges
    BY <2>1, BalancingAssumption DEF TypeInv
  <2> QED
    BY <2>1, <2>2 DEF TypeInv, Alike
<1>6. CASE UNCHANGED vars
  BY <1>6 DEF vars, TypeInv, Alike
<1> QED
  BY <1>1, <1>2, <1>3, <1>4, <1>5, <1>6 DEF Next, Pick

LEMMA TypeAlways == Spec => []TypeInv
<1>1. TypeInv /\ [Next]_vars => TypeInv'
  BY TypeStep
<1> QED
  BY TypeInit, <1>1, PTL DEF Spec

(* Whatever list it is given and whatever the weights in it, the counter   *)
(* of the round robin stays within a uint64_t and every running balance is *)
(* a number (round_robin_load_balancer.cpp:27,                             *)
(* weighted_round_robin_load_balancer.cpp:36-55).                          *)
THEOREM BalancingType == Spec => []TypeOK
<1>1. TypeInv => TypeOK
  BY DEF TypeInv, TypeOK, IsBalancer
<1> QED
  BY <1>1, TypeAlways, PTL

-----------------------------------------------------------------------------
(* What is remembered: the latest m picks *)

(* s, of z picks, ends with id, and with the last of the l in r before it. *)
Latest(s, z, r, l, id) ==
    \A k \in 1..z : s[k] = IF k = z THEN id ELSE r[l + 1 - z + k]

Kept(s, r, id, m) ==
    s = IF Len(Append(r, id)) > m THEN Tail(Append(r, id)) ELSE Append(r, id)

LEMMA LatestPicks ==
    ASSUME NEW I, NEW r, NEW l \in Nat, r \in Seq(I), Len(r) = l,
           NEW id \in I, NEW m \in Nat \ {0}, l <= m,
           NEW s, Kept(s, r, id, m)
    PROVE  \E z \in 1..m : s \in Seq(I) /\ Len(s) = z /\ z <= l + 1 /\ Latest(s, z, r, l, id)
<1> DEFINE a == Append(r, id)
<1>0. s = IF Len(a) > m THEN Tail(a) ELSE a
  BY DEF Kept
<1>1. /\ a \in Seq(I) /\ Len(a) = l + 1 /\ a # <<>>
      /\ \A k \in 1 .. l + 1 : a[k] = IF k = l + 1 THEN id ELSE r[k]
  <2>1. /\ Append(r, id) \in Seq(I) /\ Append(r, id) # <<>>
        /\ Len(Append(r, id)) = Len(r) + 1
        /\ \A k \in 1 .. Len(r) : Append(r, id)[k] = r[k]
        /\ Append(r, id)[Len(r) + 1] = id
    BY AppendProperties
  <2>2. \A k \in 1 .. l + 1 : k = l + 1 \/ k \in 1 .. Len(r)
    OBVIOUS
  <2>3. \A k \in 1 .. l + 1 : k # l + 1 => Append(r, id)[k] = r[k]
    BY <2>1, <2>2
  <2> QED
    BY <2>1, <2>3
<1> HIDE DEF a
<1>2. CASE l + 1 > m
  <2>1. l = m /\ l \in 1..m
    BY <1>2
  <2>2. s = Tail(a)
    BY <1>0, <1>1, <1>2
  <2>3. PICK t : t = Tail(a)
    OBVIOUS
  <2>4. t \in Seq(I) /\ Len(t) = Len(a) - 1 /\ \A k \in 1..Len(t) : t[k] = a[k + 1]
    BY <1>1, <2>3, HeadTailProperties
  <2>5. Len(t) = l
    BY <1>1, <2>4
  <2>6. ASSUME NEW k \in 1..l PROVE t[k] = IF k = l THEN id ELSE r[l + 1 - l + k]
    <3>1. t[k] = a[k + 1]
      BY <2>4, <2>5
    <3>2. k + 1 \in 1 .. l + 1 /\ (k + 1 = l + 1 <=> k = l) /\ l + 1 - l + k = k + 1
      OBVIOUS
    <3> QED
      BY <1>1, <3>1, <3>2
  <2>7. Latest(t, l, r, l, id)
    BY <2>6 DEF Latest
  <2>8. t \in Seq(I) /\ l <= l + 1 /\ s = t
    BY <2>2, <2>3, <2>4
  <2> QED
    BY <2>1, <2>5, <2>7, <2>8
<1>3. CASE ~(l + 1 > m)
  <2>1. s = a /\ l + 1 \in 1..m
    BY <1>0, <1>1, <1>3
  <2>2. \A k \in 1 .. l + 1 : l + 1 - (l + 1) + k = k
    OBVIOUS
  <2>3. Latest(a, l + 1, r, l, id)
    BY <1>1, <2>2 DEF Latest
  <2> QED
    BY <1>1, <2>1, <2>3
<1> QED
  BY <1>2, <1>3

-----------------------------------------------------------------------------
(* Round robin: the latest picks are those of the latest counter values *)

InTurn(r, hs, i) ==
    /\ r \in Seq(Ids) /\ Len(r) <= Len(hs) /\ Len(r) <= i
    /\ \A k \in 1..Len(r) : r[k] = hs[((i - Len(r) + k - 1) % Len(hs)) + 1].id

TurnsInv == b.name = "RoundRobin" => InTurn(recent, Healthy(instances), b.current_index)

LEMMA NoTurns ==
    ASSUME NEW hs \in Seq(Inst), NEW i \in Nat
    PROVE  InTurn(<<>>, hs, i)
<1>1. <<>> \in Seq(Ids) /\ Len(<<>>) = 0 /\ Len(hs) \in Nat
  OBVIOUS
<1> QED
  BY <1>1 DEF InTurn

LEMMA NextTurn ==
    ASSUME NEW hs \in Seq(Inst), NEW n \in Nat \ {0}, n = Len(hs), NEW i \in Nat,
           NEW r, InTurn(r, hs, i), NEW id, id = hs[(i % n) + 1].id,
           NEW s, Kept(s, r, id, n)
    PROVE  InTurn(s, hs, i + 1)
<1>1. PICK l \in Nat : l = Len(r)
  BY DEF InTurn
<1>2. r \in Seq(Ids) /\ l <= n /\ l <= i
      /\ \A k \in 1..l : r[k] = hs[((i - l + k - 1) % n) + 1].id
  BY <1>1 DEF InTurn
<1>3. id \in Ids
  <2>1. (i % n) + 1 \in 1..n
    OBVIOUS
  <2>2. hs[(i % n) + 1] \in Inst
    BY <2>1
  <2> QED
    BY <2>2 DEF Inst
<1>4. PICK z \in 1..n : s \in Seq(Ids) /\ Len(s) = z /\ z <= l + 1 /\ Latest(s, z, r, l, id)
  BY <1>1, <1>2, <1>3, LatestPicks
<1>5. \A k \in 1..z : s[k] = IF k = z THEN id ELSE r[l + 1 - z + k]
  BY <1>4 DEF Latest
<1>6. ASSUME NEW k \in 1..z PROVE s[k] = hs[((i + 1 - z + k - 1) % n) + 1].id
  <2>1. CASE k = z
    <3>1. s[k] = id
      BY <1>5, <2>1
    <3>2. i + 1 - z + k - 1 = i
      BY <2>1
    <3> QED
      BY <3>1, <3>2
  <2>2. CASE k # z
    <3>1. l + 1 - z + k \in 1..l /\ s[k] = r[l + 1 - z + k]
      BY <1>4, <1>5, <2>2
    <3>2. PICK x \in 1..l : x = l + 1 - z + k
      BY <3>1
    <3>3. i - l + x - 1 = i + 1 - z + k - 1
      BY <3>2
    <3> QED
      BY <1>2, <3>1, <3>2, <3>3
  <2> QED
    BY <2>1, <2>2
<1>7. z <= n /\ z <= i + 1
  BY <1>2, <1>4
<1>8. Len(s) = z /\ Len(hs) = n /\ s \in Seq(Ids)
  BY <1>4
<1>9. PICK c : c = i + 1
  OBVIOUS
<1>10. \A k \in 1..Len(s) : s[k] = hs[((c - Len(s) + k - 1) % Len(hs)) + 1].id
  BY <1>6, <1>8, <1>9
<1>11. s \in Seq(Ids) /\ Len(s) <= Len(hs) /\ Len(s) <= c
  BY <1>7, <1>8, <1>9
<1>12. InTurn(s, hs, c)
  BY <1>10, <1>11, Zenon DEF InTurn
<1> QED
  BY <1>9, <1>12

LEMMA TurnsInit == Init => TurnsInv
<1> SUFFICES ASSUME Init, b.name = "RoundRobin"
             PROVE  InTurn(recent, Healthy(instances), b.current_index)
  BY DEF TurnsInv
<1>1. recent = <<>> /\ b.current_index \in Nat /\ Healthy(instances) \in Seq(Inst)
  BY TypeInit, HealthyIs DEF Init, TypeInv, IsBalancer
<1> QED
  BY <1>1, NoTurns

LEMMA TurnsStep ==
    ASSUME TypeInv, TurnsInv, [Next]_vars
    PROVE  TurnsInv'
<1> SUFFICES ASSUME b'.name = "RoundRobin"
             PROVE  InTurn(recent', Healthy(instances'), b'.current_index)
  BY DEF TurnsInv
<1>1. b'.current_index \in Nat /\ Healthy(instances') \in Seq(Inst)
  BY TypeStep, HealthyIs DEF TypeInv, IsBalancer
<1>2. CASE recent' = <<>>
  BY <1>1, <1>2, NoTurns
<1>3. CASE UNCHANGED <<b, instances, recent>>
  BY <1>3 DEF TurnsInv
<1>4. CASE DoSelect
  <2>1. PICK result : result = Select(b, instances) /\ Picked(result)
    BY <1>4 DEF DoSelect
  <2>2. b' = result.b /\ instances' = instances /\ recent' = Remember(result.instance.id)
    BY <2>1 DEF Picked
  <2>3. b.name = "RoundRobin" /\ IsBalancer(b) /\ instances \in Lists /\ ~SelectThrows(instances)
    BY <1>4, <2>1, <2>2, SelectTyped DEF DoSelect, TypeInv, Alike
  <2>4. PICK hs \in Seq(Inst) : hs = Healthy(instances) /\ Len(hs) \in Nat \ {0}
    BY <2>3, HealthyIs
  <2>5. PICK i \in Nat : i = b.current_index /\ i < IndexRange
    BY <2>3, IndexAssumption DEF IsBalancer
  <2>6. /\ b'.current_index = (i + 1) % IndexRange
        /\ result.instance = hs[(i % Len(hs)) + 1]
    BY <2>1, <2>2, <2>3, <2>4, <2>5, RoundRobinTurn
  <2>7. PICK id : id = result.instance.id
    OBVIOUS
  <2>9. CASE b'.current_index = 0
    BY <1>2, <2>2, <2>3, <2>9 DEF Remember
  <2>10. CASE b'.current_index # 0
    <3>1. b'.current_index = i + 1
      BY <2>5, <2>6, <2>10, CountsUp
    <3>2. Kept(recent', recent, id, Len(hs))
      BY <2>2, <2>3, <2>4, <2>7, <2>10 DEF Remember, Cycle, Kept
    <3>3. InTurn(recent, hs, i)
      BY <2>3, <2>4, <2>5 DEF TurnsInv
    <3>4. InTurn(recent', hs, i + 1)
      BY <2>4, <2>6, <2>7, <3>2, <3>3, NextTurn
    <3> QED
      BY <2>2, <2>4, <3>1, <3>4
  <2> QED
    BY <2>9, <2>10
<1>5. CASE \E key \in {b.last_key} \cup Keys : DoSelectByKey(key)
  <2>1. b.name = "ConsistentHash" /\ ~DoReset
    BY <1>5 DEF DoSelectByKey, Picked, DoReset, TypeInv
  <2> QED
    BY <2>1, TypeStep DEF Alike
<1>6. CASE DoSelectThrows
  BY <1>3, <1>6 DEF DoSelectThrows
<1>7. CASE DoReset
  BY <1>2, <1>7 DEF DoReset
<1>8. CASE \E list \in Lists : ChangeList(list)
  BY <1>2, <1>8 DEF ChangeList
<1>9. CASE UNCHANGED vars
  BY <1>3, <1>9 DEF vars
<1> QED
  BY <1>4, <1>5, <1>6, <1>7, <1>8, <1>9 DEF Next, Pick

(* In the latest picks of a whole turn each instance is there once. *)
LEMMA TurnsEven ==
    ASSUME NEW hs \in Seq(Inst), NamedOnce(hs), NEW n \in Nat \ {0}, n = Len(hs), NEW i \in Nat,
           NEW r, InTurn(r, hs, i), Len(r) = n, NEW id \in IdsOf(hs)
    PROVE  Cardinality({k \in DOMAIN r : r[k] = id}) = 1
<1>1. PICK x \in 1..n : hs[x].id = id
  BY DEF IdsOf
<1>2. PICK y \in 0 .. n - 1 : y = x - 1
  OBVIOUS
<1>3. DOMAIN r = 1..n /\ n <= i /\ \A k \in 1..n : r[k] = hs[((i - n + k - 1) % n) + 1].id
  BY DEF InTurn
<1>4. PICK a \in Nat : a = i - n
  <2>1. n <= i
    BY <1>3
  <2>2. i - n \in Nat
    BY <2>1
  <2> QED
    BY <2>2
<1>5. PICK k \in 1..n : \A j \in 1..n : (a + j - 1) % n = y <=> j = k
  BY RemaindersInARow
<1>6. ASSUME NEW j \in 1..n PROVE r[j] = id <=> j = k
  <2>1. PICK z : z = (a + j - 1) % n
    OBVIOUS
  <2>2. z \in 0 .. n - 1
    BY <2>1
  <2>3. r[j] = hs[z + 1].id
    BY <1>3, <1>4, <2>1
  <2>4. z + 1 \in DOMAIN hs /\ x \in DOMAIN hs
    BY <2>2
  <2>5. r[j] = id <=> z + 1 = x
    BY <1>1, <2>3, <2>4 DEF NamedOnce
  <2>6. z + 1 = x <=> z = y
    BY <1>2, <2>2
  <2> QED
    BY <1>5, <2>1, <2>5, <2>6
<1>7. {j \in DOMAIN r : r[j] = id} = {k}
  BY <1>3, <1>6
<1> QED
  BY <1>7, FS_Singleton

(* Where the lists name no instance twice, the round robin serves each     *)
(* healthy instance once in any turn of Len(hs) picks, whatever index the  *)
(* counter had reached (round_robin_load_balancer.cpp:27).                 *)
THEOREM BalancingRoundRobinEven ==
    ASSUME \A list \in Lists : NamedOnce(list)
    PROVE  Spec => []RoundRobinEven
<1>1. TypeInv /\ TurnsInv /\ [Next]_vars => TurnsInv'
  BY TurnsStep
<1>2. TypeInv /\ TurnsInv => RoundRobinEven
  <2> SUFFICES ASSUME TypeInv, TurnsInv, b.name = "RoundRobin", recent # <<>>, Len(recent) = Cycle,
                      NEW id \in IdsOf(Healthy(instances))
               PROVE  Times(id) = 1
    BY DEF RoundRobinEven
  <2>1. PICK hs \in Seq(Inst) : hs = Healthy(instances) /\ NamedOnce(hs) /\ Len(hs) \in Nat
    BY HealthyIs DEF TypeInv
  <2>2. InTurn(recent, hs, b.current_index) /\ Len(recent) = Len(hs)
    BY <2>1 DEF TurnsInv, Cycle
  <2>3. Len(hs) # 0
    BY <2>2 DEF InTurn
  <2>4. b.current_index \in Nat
    BY DEF TypeInv, IsBalancer
  <2> QED
    BY <2>1, <2>2, <2>3, <2>4, TurnsEven DEF Times
<1> QED
  BY TypeAlways, TurnsInit, <1>1, <1>2, PTL DEF Spec

-----------------------------------------------------------------------------
(* Weighted round robin: since the balancer was new, a run *)

RunsAs(r, hs, map, t, c, p) ==
    /\ IsRun(Len(hs), WeightsOf(hs), t, c, p) /\ Matches(map, hs, c[t])
    /\ r \in Seq(Ids) /\ Len(r) <= t /\ Len(r) <= SumTo(Len(hs), WeightsOf(hs))
    /\ \A k \in 1..Len(r) : r[k] = hs[p[t - Len(r) + k]].id

Running(r, hs, map) == \E t, c, p : RunsAs(r, hs, map, t, c, p)

SharesInv ==
    b.name = "WeightedRoundRobin" /\ steady /\ ~SelectThrows(instances) =>
        Running(recent, Healthy(instances), b.current_weights)

LEMMA RunningNew ==
    ASSUME NEW list \in Lists, Fair(list), ~SelectThrows(list), NEW hs, hs = Healthy(list)
    PROVE  Running(<<>>, hs, <<>>)
<1>1. PICK n, w : n \in Nat \ {0} /\ n = Len(hs) /\ w = WeightsOf(hs) /\ Weights(n, w)
  <2>1. Weights(Len(hs), WeightsOf(hs))
    BY FairWeights
  <2> QED
    BY <2>1 DEF Weights
<1>2. PICK e : e = [k \in 1..n |-> 0]
  OBVIOUS
<1>3. PICK c : c = [j \in 0..0 |-> e]
  OBVIOUS
<1>4. PICK p : p = [j \in 1..0 |-> 1]
  OBVIOUS
<1>5. IsRun(n, w, 0, c, p)
  <2>1. e \in [1..n -> Int] /\ \A k \in 1..n : e[k] = 0
    BY <1>2
  <2>2. c \in [0..0 -> [1..n -> Int]] /\ c[0] = e
    BY <1>3, <2>1
  <2>3. p \in [1..0 -> 1..n]
    BY <1>1, <1>4
  <2>4. 1..0 = {} /\ 0 \in Nat
    OBVIOUS
  <2> QED
    BY <1>1, <2>1, <2>2, <2>3, <2>4 DEF IsRun
<1>6. Matches(<<>>, hs, c[0])
  <2>1. DOMAIN <<>> = {} /\ c[0] = e
    BY <1>3
  <2> QED
    BY <1>1, <1>2, <2>1 DEF Matches
<1>7. SumTo(n, w) \in Nat
  BY <1>1, TotalPositive
<1>8. <<>> \in Seq(Ids) /\ Len(<<>>) = 0 /\ 1..0 = {}
  OBVIOUS
<1> QED
  BY <1>1, <1>5, <1>6, <1>7, <1>8 DEF Running, RunsAs

(* One more pick, of place s, leaves the balances d. *)
Longer(e, q, t, p, s, d) == e[t + 1] = d /\ q[t + 1] = s /\ \A j \in 1..t : q[j] = p[j]

LEMMA RunLonger ==
    ASSUME NEW n, NEW w, NEW t, NEW c, NEW p, IsRun(n, w, t, c, p), NEW s \in 1..n,
           NEW d, IsStep(n, w, c[t], s, d)
    PROVE  \E e, q : IsRun(n, w, t + 1, e, q) /\ Longer(e, q, t, p, s, d)
<1>1. /\ t \in Nat /\ Weights(n, w) /\ c \in [0..t -> [1..n -> Int]] /\ p \in [1..t -> 1..n]
      /\ \A k \in 1..n : c[0][k] = 0
      /\ \A j \in 1..t : IsStep(n, w, c[j - 1], p[j], c[j])
  BY DEF IsRun
<1>2. d \in [1..n -> Int]
  <2>1. t \in 0..t
    BY <1>1
  <2>2. Balanced(n, w, c[t])
    BY <2>1, RunBalanced
  <2>3. Balanced(n, w, d)
    BY <1>1, <2>2, StepBalanced
  <2> QED
    BY <2>3 DEF Balanced
<1>3. PICK m \in Nat : m = t + 1
  BY <1>1
<1>4. PICK e : e = [j \in 0..m |-> IF j = m THEN d ELSE c[j]]
  OBVIOUS
<1>5. PICK q : q = [j \in 1..m |-> IF j = m THEN s ELSE p[j]]
  OBVIOUS
<1>6. e[m] = d /\ q[m] = s /\ (\A j \in 0..t : e[j] = c[j]) /\ (\A j \in 1..t : q[j] = p[j])
  <2>1. m \in 0..m /\ m \in 1..m
    BY <1>1, <1>3
  <2>2. \A j \in 0..t : j \in 0..m /\ j # m
    BY <1>1, <1>3
  <2>3. \A j \in 1..t : j \in 1..m /\ j # m
    BY <1>1, <1>3
  <2> QED
    BY <1>4, <1>5, <2>1, <2>2, <2>3
<1>7. e \in [0..m -> [1..n -> Int]] /\ q \in [1..m -> 1..n]
  <2>1. \A j \in 0..m : j # m => j \in 0..t
    BY <1>1, <1>3
  <2>2. \A j \in 1..m : j # m => j \in 1..t
    BY <1>1, <1>3
  <2> QED
    BY <1>1, <1>2, <1>4, <1>5, <2>1, <2>2
<1>8. \A k \in 1..n : e[0][k] = 0
  <2>1. 0 \in 0..t
    BY <1>1
  <2> QED
    BY <1>1, <1>6, <2>1
<1>9. ASSUME NEW j \in 1..m PROVE IsStep(n, w, e[j - 1], q[j], e[j])
  <2>1. CASE j = m
    <3>1. j - 1 = t /\ t \in 0..t
      BY <1>1, <1>3, <2>1
    <3> QED
      BY <1>6, <2>1, <3>1
  <2>2. CASE j # m
    <3>1. j \in 1..t /\ j \in 0..t /\ j - 1 \in 0..t
      BY <1>1, <1>3, <2>2
    <3> QED
      BY <1>1, <1>6, <3>1
  <2> QED
    BY <2>1, <2>2
<1>10. IsRun(n, w, m, e, q)
  BY <1>1, <1>7, <1>8, <1>9 DEF IsRun
<1>11. Longer(e, q, t, p, s, d)
  BY <1>3, <1>6 DEF Longer
<1> QED
  BY <1>3, <1>10, <1>11

LEMMA RunningOn ==
    ASSUME NEW x, IsBalancer(x), x.name = "WeightedRoundRobin", NEW list \in Lists,
           ~SelectThrows(list), Fair(list), NEW hs, hs = Healthy(list),
           NEW result, result = Select(x, list), NEW r, Running(r, hs, x.current_weights),
           NEW id, id = result.instance.id, NEW s, Kept(s, r, id, TotalWeight(hs))
    PROVE  Running(s, hs, result.b.current_weights)
<1>1. PICK n, w : n = Len(hs) /\ w = WeightsOf(hs)
  OBVIOUS
<1>2. /\ Weights(n, w) /\ TotalWeight(hs) = SumTo(n, w) /\ hs \in Seq(Inst)
      /\ \A k \in 1..n : hs[k].id \in Ids
  BY <1>1, FairWeights, HealthyIs
<1>3. PICK W \in Nat \ {0} : W = SumTo(n, w)
  BY <1>2, TotalPositive
<1>4. PICK t, c, p : /\ IsRun(n, w, t, c, p) /\ Matches(x.current_weights, hs, c[t])
                     /\ r \in Seq(Ids) /\ Len(r) <= t /\ Len(r) <= W
                     /\ \A k \in 1..Len(r) : r[k] = hs[p[t - Len(r) + k]].id
  BY <1>1, <1>3 DEF Running, RunsAs
<1>5. t \in Nat /\ t \in 0..t /\ p \in [1..t -> 1..n]
  BY <1>4 DEF IsRun
<1>6. Balanced(n, w, c[t])
  BY <1>4, <1>5, RunBalanced
<1>7. PICK h, d : /\ IsStep(n, w, c[t], h, d) /\ h \in 1..n /\ result.instance = hs[h]
                  /\ Matches(result.b.current_weights, hs, d)
  BY <1>1, <1>4, <1>6, WeightedTurn
<1>8. PICK e, q : IsRun(n, w, t + 1, e, q) /\ Longer(e, q, t, p, h, d)
  BY <1>4, <1>7, RunLonger
<1>9. id = hs[h].id /\ id \in Ids
  BY <1>2, <1>7
<1>10. PICK l \in Nat : l = Len(r)
  BY <1>4
<1>11. /\ l <= t /\ l <= W /\ r \in Seq(Ids) /\ Kept(s, r, id, W)
       /\ \A k \in 1..l : r[k] = hs[p[t - l + k]].id
  BY <1>2, <1>3, <1>4, <1>10
<1>12. PICK z \in 1..W : s \in Seq(Ids) /\ Len(s) = z /\ z <= l + 1 /\ Latest(s, z, r, l, id)
  BY <1>9, <1>10, <1>11, LatestPicks
<1>13. \A k \in 1..z : s[k] = IF k = z THEN id ELSE r[l + 1 - z + k]
  BY <1>12 DEF Latest
<1>14. PICK u \in Nat : u = t + 1
  BY <1>5
<1>15. ASSUME NEW k \in 1..z PROVE s[k] = hs[q[u - z + k]].id
  <2>1. CASE k = z
    <3>1. u - z + k = u
      BY <1>14, <2>1
    <3>2. q[u] = h
      BY <1>8, <1>14 DEF Longer
    <3> QED
      BY <1>9, <1>13, <2>1, <3>1, <3>2
  <2>2. CASE k # z
    <3>1. l + 1 - z + k \in 1..l /\ s[k] = r[l + 1 - z + k]
      BY <1>12, <1>13, <2>2
    <3>2. PICK y \in 1..l : y = l + 1 - z + k
      BY <3>1
    <3>3. t - l + y = u - z + k /\ t - l + y \in 1..t
      BY <1>5, <1>11, <1>14, <3>2
    <3>4. PICK j \in 1..t : j = t - l + y
      BY <3>3
    <3>5. s[k] = hs[p[j]].id /\ q[j] = p[j] /\ u - z + k = j
      BY <1>8, <1>11, <3>1, <3>2, <3>3, <3>4 DEF Longer
    <3> QED
      BY <3>5
  <2> QED
    BY <2>1, <2>2
<1>16. z <= u /\ z <= W
  BY <1>5, <1>11, <1>12, <1>14
<1>17. \A k \in 1..Len(s) : s[k] = hs[q[u - Len(s) + k]].id
  BY <1>12, <1>15
<1>18. Len(s) <= u /\ Len(s) <= SumTo(Len(hs), WeightsOf(hs))
  BY <1>1, <1>3, <1>12, <1>16
<1>19. IsRun(Len(hs), WeightsOf(hs), u, e, q) /\ Matches(result.b.current_weights, hs, e[u])
  BY <1>1, <1>7, <1>8, <1>14 DEF Longer
<1>20. RunsAs(s, hs, result.b.current_weights, u, e, q)
  BY <1>12, <1>17, <1>18, <1>19 DEF RunsAs
<1> QED
  BY <1>20 DEF Running

LEMMA SharesInit ==
    ASSUME \A list \in Lists : Fair(list), Init
    PROVE  SharesInv
<1> SUFFICES ASSUME ~SelectThrows(instances)
             PROVE  Running(recent, Healthy(instances), b.current_weights)
  BY DEF SharesInv
<1>1. PICK name \in Names, hash \in Hashes, v \in VirtualNodes : b = Create(name, hash, v)
  BY DEF Init
<1>2. b.current_weights = <<>>
  BY <1>1, CreateTyped DEF New
<1>3. recent = <<>> /\ instances \in Lists
  BY DEF Init
<1> QED
  BY <1>2, <1>3, RunningNew

LEMMA SharesStep ==
    ASSUME \A list \in Lists : Fair(list), TypeInv, SharesInv, [Next]_vars
    PROVE  SharesInv'
<1> SUFFICES ASSUME b'.name = "WeightedRoundRobin", steady', ~SelectThrows(instances')
             PROVE  Running(recent', Healthy(instances'), b'.current_weights)
  BY DEF SharesInv, SelectThrows
<1>1. CASE UNCHANGED <<b, instances, steady, recent>>
  BY <1>1 DEF SharesInv
<1>2. CASE DoSelect
  <2>1. PICK result : result = Select(b, instances) /\ Picked(result)
    BY <1>2 DEF DoSelect
  <2>2. /\ b' = result.b /\ instances' = instances /\ steady' = steady
        /\ recent' = Remember(result.instance.id)
    BY <2>1 DEF Picked
  <2>3. b.name = "WeightedRoundRobin" /\ IsBalancer(b) /\ instances \in Lists
        /\ ~SelectThrows(instances)
    BY <1>2, <2>1, <2>2, SelectTyped DEF DoSelect, TypeInv, Alike
  <2>4. Running(recent, Healthy(instances), b.current_weights)
    BY <2>2, <2>3 DEF SharesInv
  <2>5. Kept(recent', recent, result.instance.id, TotalWeight(Healthy(instances)))
    BY <2>2, <2>3 DEF Remember, Cycle, Kept
  <2>6. Running(recent', Healthy(instances), result.b.current_weights)
    BY <2>1, <2>3, <2>4, <2>5, RunningOn
  <2> QED
    BY <2>2, <2>6
<1>3. CASE \E key \in {b.last_key} \cup Keys : DoSelectByKey(key)
  <2>1. b.name = "ConsistentHash" /\ ~DoReset
    BY <1>3 DEF DoSelectByKey, Picked, DoReset, TypeInv
  <2> QED
    BY <2>1, TypeStep DEF Alike
<1>4. CASE DoSelectThrows
  BY <1>1, <1>4 DEF DoSelectThrows
<1>5. CASE DoReset
  <2>1. b' = ResetBalancer(b) /\ recent' = <<>> /\ instances' = instances
    BY <1>5 DEF DoReset
  <2>2. b'.current_weights = <<>> /\ instances \in Lists
    BY <2>1, ResetTyped DEF TypeInv, New
  <2>3. Running(<<>>, Healthy(instances), <<>>)
    BY <2>1, <2>2, RunningNew
  <2> QED
    BY <2>1, <2>2, <2>3
<1>6. CASE \E list \in Lists : ChangeList(list)
  BY <1>6 DEF ChangeList
<1>7. CASE UNCHANGED vars
  BY <1>1, <1>7 DEF vars
<1> QED
  BY <1>2, <1>3, <1>4, <1>5, <1>6, <1>7 DEF Next, Pick

LEMMA RunningEven ==
    ASSUME NEW list \in Lists, Fair(list), ~SelectThrows(list), NEW hs, hs = Healthy(list),
           NEW r, NEW map, Running(r, hs, map), Len(r) = TotalWeight(hs), NEW k \in 1..Len(hs)
    PROVE  Cardinality({i \in DOMAIN r : r[i] = hs[k].id}) = hs[k].weight
<1>1. PICK n, w : n = Len(hs) /\ w = WeightsOf(hs)
  OBVIOUS
<1>2. /\ Weights(n, w) /\ TotalWeight(hs) = SumTo(n, w) /\ NamedOnce(hs) /\ DOMAIN hs = 1..n
  BY <1>1, FairWeights, HealthyIs
<1>3. PICK W \in Nat \ {0} : W = SumTo(n, w)
  BY <1>2, TotalPositive
<1>4. Len(r) = W
  BY <1>2, <1>3
<1>5. PICK t, c, p : /\ IsRun(n, w, t, c, p) /\ r \in Seq(Ids) /\ W <= t
                     /\ \A i \in 1..W : r[i] = hs[p[t - W + i]].id
  BY <1>1, <1>4 DEF Running, RunsAs
<1>6. t \in Nat /\ p \in [1..t -> 1..n]
  BY <1>5 DEF IsRun
<1>7. PICK j \in Nat : j = t - W
  <2>1. t - W \in Nat
    BY <1>5, <1>6
  <2> QED
    BY <2>1
<1>8. Picks(p, j, W, k) = w[k]
  <2>1. j + W <= t
    BY <1>6, <1>7
  <2> QED
    BY <1>1, <1>3, <1>5, <2>1, WindowEven
<1>9. ASSUME NEW i \in 1..W PROVE r[i] = hs[k].id <=> p[j + i] = k
  <2>1. j + i \in 1..t
    BY <1>6, <1>7
  <2>2. PICK m \in 1..n : m = p[j + i]
    BY <1>6, <2>1
  <2>3. r[i] = hs[m].id
    BY <1>5, <1>7, <2>2
  <2> QED
    BY <1>1, <1>2, <2>2, <2>3 DEF NamedOnce
<1>10. DOMAIN r = 1..W
  BY <1>4, <1>5
<1>11. {i \in DOMAIN r : r[i] = hs[k].id} = {i \in 1..W : p[j + i] = k}
  BY <1>9, <1>10
<1>12. w[k] = hs[k].weight
  BY <1>1 DEF WeightsOf
<1> QED
  BY <1>8, <1>11, <1>12 DEF Picks

(* Where the lists name no instance twice and every weight is positive, a  *)
(* new or reset balancer serves the healthy instances of an unchanged list *)
(* exactly as often as their weights say in any total_weight selections in *)
(* a row (weighted_round_robin_load_balancer.cpp:36-55).                   *)
THEOREM BalancingWeightedProportion ==
    ASSUME \A list \in Lists : Fair(list)
    PROVE  Spec => []WeightedProportion
<1>1. TypeInv /\ SharesInv /\ [Next]_vars => SharesInv'
  BY SharesStep
<1>2. TypeInv /\ SharesInv => WeightedProportion
  <2> SUFFICES ASSUME TypeInv, SharesInv, b.name = "WeightedRoundRobin", steady,
                      Len(recent) = Cycle, NEW k \in DOMAIN Healthy(instances)
               PROVE  Times(Healthy(instances)[k].id) = Healthy(instances)[k].weight
    BY DEF WeightedProportion
  <2>1. PICK hs : hs = Healthy(instances)
    OBVIOUS
  <2>2. instances \in Lists
    BY DEF TypeInv
  <2>3. k \in 1..Len(hs) /\ ~SelectThrows(instances)
    <3>1. DOMAIN hs = 1..Len(hs) /\ (SelectThrows(instances) <=> Len(hs) = 0)
      BY <2>1, <2>2, HealthyIs
    <3> QED
      BY <2>1, <3>1
  <2>4. Running(recent, hs, b.current_weights) /\ Len(recent) = TotalWeight(hs)
    BY <2>1, <2>3 DEF SharesInv, Cycle
  <2> QED
    BY <2>1, <2>2, <2>3, <2>4, RunningEven DEF Times
<1>3. Init => SharesInv
  BY SharesInit
<1> QED
  BY TypeAlways, <1>1, <1>2, <1>3, PTL DEF Spec

-----------------------------------------------------------------------------
(* The hash ring *)

Points(hash, v, id) == {hash.node[id][m] : m \in 1..v}

(* A ring holds, with a point of an id, all of them; a point, its id. *)
IsRing(hash, v, r) ==
    \A p \in DOMAIN r : r[p] \in Ids /\ p \in Points(hash, v, r[p])
                        /\ Points(hash, v, r[p]) \subseteq DOMAIN r

NoCollisions ==
    \A hash \in Hashes, v \in VirtualNodes, i, j \in Ids :
        Points(hash, v, i) \cap Points(hash, v, j) # {} => i = j

LEMMA GreatestNat ==
    ASSUME NEW n \in Nat, NEW S, S \subseteq 1..n, S # {}
    PROVE  \E k \in S : \A j \in S : j <= k
<1> DEFINE T == {n - k : k \in S}
<1>1. T \in SUBSET Nat /\ T # {}
  <2>1. \A k \in S : k \in 1..n /\ n - k \in Nat
    OBVIOUS
  <2> QED
    BY <2>1
<1> HIDE DEF T
<1>2. PICK y \in T : \A z \in T : y <= z
  BY <1>1, LeastNat
<1>3. PICK k \in S : y = n - k
  BY DEF T
<1>4. \A j \in S : n - k <= n - j
  BY <1>2, <1>3 DEF T
<1> QED
  BY <1>3, <1>4

LEMMA PointsType ==
    ASSUME NEW hash \in Hashes, NEW v \in VirtualNodes, NEW id \in Ids
    PROVE  Points(hash, v, id) \subseteq Nat
<1>1. hash.node[id] \in Seq(Nat) /\ v <= Len(hash.node[id]) /\ v \in Nat
  BY BalancingAssumption
<1>2. \A m \in 1..v : hash.node[id][m] \in Nat
  BY <1>1
<1> QED
  BY <1>2 DEF Points

LEMMA RingEmpty ==
    ASSUME NEW hash, NEW v
    PROVE  IsRing(hash, v, <<>>)
<1>1. DOMAIN <<>> = {}
  OBVIOUS
<1> QED
  BY <1>1 DEF IsRing

LEMMA RingRebuilt ==
    ASSUME NEW x, NEW hs \in Seq(Inst), NEW r, r = RebuildHashRing(x, hs)
    PROVE  IsRing(x.hash, x.virtual_nodes, r) /\ \A p \in DOMAIN r : r[p] \in IdsOf(hs)
<1> DEFINE P(k) == Points(x.hash, x.virtual_nodes, hs[k].id)
           D == UNION {P(k) : k \in DOMAIN hs}
           H(p) == {k \in DOMAIN hs : p \in P(k)}
           c(p) == CHOOSE k \in H(p) : \A j \in H(p) : j <= k
<1>1. PICK n \in Nat : n = Len(hs)
  OBVIOUS
<1>2. DOMAIN hs = 1..n /\ \A k \in DOMAIN hs : hs[k].id \in Ids
  <2>1. DOMAIN hs = 1..n /\ \A k \in DOMAIN hs : hs[k] \in Inst
    BY <1>1
  <2> QED
    BY <2>1 DEF Inst
<1>3. r = [p \in D |-> hs[c(p)].id]
  BY Zenon DEF RebuildHashRing, Nodes, Points
<1>4. \A p \in D : c(p) \in H(p)
  <2> SUFFICES ASSUME NEW p \in D PROVE c(p) \in H(p)
    OBVIOUS
  <2>1. H(p) \subseteq 1..n /\ H(p) # {}
    BY <1>2
  <2>2. \E k \in H(p) : \A j \in H(p) : j <= k
    BY <2>1, GreatestNat
  <2> QED
    BY <2>2
<1> SUFFICES ASSUME NEW p \in DOMAIN r
             PROVE  /\ r[p] \in Ids /\ p \in Points(x.hash, x.virtual_nodes, r[p])
                    /\ Points(x.hash, x.virtual_nodes, r[p]) \subseteq DOMAIN r
                    /\ r[p] \in IdsOf(hs)
  BY DEF IsRing
<1>5. p \in D /\ DOMAIN r = D
  BY <1>3
<1>6. PICK k \in DOMAIN hs : k = c(p) /\ p \in P(k)
  BY <1>4, <1>5
<1>7. r[p] = hs[k].id
  BY <1>3, <1>5, <1>6
<1>8. P(k) \subseteq D
  OBVIOUS
<1> QED
  BY <1>2, <1>5, <1>6, <1>7, <1>8 DEF IdsOf

(* q is the place in D at which a search from y ends. *)
Bound(D, y, q) ==
    /\ q \in D
    /\ \A z \in D : z >= y => q >= y /\ q <= z
    /\ (\A z \in D : z < y) => \A z \in D : q <= z

LEMMA LowerBoundIs ==
    ASSUME NEW r, DOMAIN r \subseteq Nat, DOMAIN r # {}, NEW y \in Nat
    PROVE  \E q : Bound(DOMAIN r, y, q) /\ LowerBound(r, y) = r[q]
<1>1. PICK D : D = DOMAIN r
  OBVIOUS
<1>2. PICK above : above = {q \in D : q >= y}
  OBVIOUS
<1>3. PICK from : from = IF above = {} THEN D ELSE above
  OBVIOUS
<1>4. from \in SUBSET Nat /\ from # {} /\ from \subseteq D
  BY <1>1, <1>2, <1>3
<1>5. \E q \in from : \A z \in from : q <= z
  BY <1>4, LeastNat
<1>6. PICK q : q = CHOOSE z \in from : \A u \in from : z <= u
  OBVIOUS
<1>7. q \in from /\ \A z \in from : q <= z
  BY <1>5, <1>6
<1>8. LowerBound(r, y) = r[q]
  BY <1>1, <1>2, <1>3, <1>6 DEF LowerBound
<1>9. Bound(D, y, q)
  <2>1. \A z \in D : z >= y => z \in from /\ q >= y
    BY <1>2, <1>3, <1>7
  <2>2. (\A z \in D : z < y) => from = D
    BY <1>1, <1>2, <1>3
  <2> QED
    BY <1>4, <1>7, <2>1, <2>2 DEF Bound
<1> QED
  BY <1>1, <1>8, <1>9

(* What the ring r gives to a key with the point y. *)
Given(hash, v, y, o) ==
    \E r : /\ IsRing(hash, v, r) /\ DOMAIN r # {}
           /\ o = <<[id |-> LowerBound(r, y), members |-> Members(r)]>>

LEMMA RingPlace ==
    ASSUME NEW hash \in Hashes, NEW v \in VirtualNodes, NEW y \in Nat,
           NEW r, IsRing(hash, v, r), DOMAIN r # {}
    PROVE  /\ DOMAIN r \subseteq Nat
           /\ \E q : /\ Bound(DOMAIN r, y, q) /\ r[q] = LowerBound(r, y)
                     /\ r[q] \in Ids /\ q \in Points(hash, v, r[q])
<1>1. DOMAIN r \subseteq Nat
  BY PointsType DEF IsRing
<1>2. PICK q : Bound(DOMAIN r, y, q) /\ LowerBound(r, y) = r[q]
  BY <1>1, LowerBoundIs
<1>3. q \in DOMAIN r
  BY <1>2 DEF Bound
<1> QED
  BY <1>1, <1>2, <1>3 DEF IsRing

(* A point of a member of a ring is in it, and leads to that member. *)
LEMMA MembersPoint ==
    ASSUME NoCollisions, NEW hash \in Hashes, NEW v \in VirtualNodes, NEW r, IsRing(hash, v, r),
           NEW id \in Members(r), NEW q \in Points(hash, v, id)
    PROVE  q \in DOMAIN r /\ r[q] = id
<1>1. PICK p \in DOMAIN r : r[p] = id
  BY DEF Members
<1>2. q \in DOMAIN r /\ id \in Ids
  BY <1>1 DEF IsRing
<1>3. q \in Points(hash, v, r[q]) /\ r[q] \in Ids
  BY <1>2 DEF IsRing
<1>4. Points(hash, v, r[q]) \cap Points(hash, v, id) # {}
  BY <1>3
<1> QED
  BY <1>2, <1>3, <1>4 DEF NoCollisions

LEMMA BoundsAgree ==
    ASSUME NEW D \in SUBSET Nat, NEW E \in SUBSET Nat, NEW y \in Nat,
           NEW p \in E, Bound(D, y, p), NEW q \in D, Bound(E, y, q)
    PROVE  p = q
<1>1. p \in Nat /\ q \in Nat /\ p \in D /\ q \in E
  BY DEF Bound
<1>2. CASE p >= y
  <2>1. q >= y /\ q <= p
    BY <1>2 DEF Bound
  <2>2. p <= q
    BY <2>1 DEF Bound
  <2> QED
    BY <1>1, <2>1, <2>2
<1>3. CASE p < y
  <2>1. \A z \in D : z < y
    BY <1>1, <1>3 DEF Bound
  <2>2. \A z \in E : z < y
    BY <1>1, <2>1 DEF Bound
  <2>3. p <= q /\ q <= p
    BY <1>1, <2>1, <2>2 DEF Bound
  <2> QED
    BY <1>1, <2>3
<1> QED
  BY <1>1, <1>2, <1>3

(* A key goes to the same id in two rings that both hold either owner. *)
LEMMA OwnersAgree ==
    ASSUME NoCollisions, NEW hash \in Hashes, NEW v \in VirtualNodes, NEW y \in Nat,
           NEW o, Given(hash, v, y, o), NEW u, Given(hash, v, y, u),
           o[1].id \in u[1].members, u[1].id \in o[1].members
    PROVE  o[1].id = u[1].id
<1>1. PICK r : /\ IsRing(hash, v, r) /\ DOMAIN r # {}
               /\ o = <<[id |-> LowerBound(r, y), members |-> Members(r)]>>
  BY DEF Given
<1>2. PICK s : /\ IsRing(hash, v, s) /\ DOMAIN s # {}
               /\ u = <<[id |-> LowerBound(s, y), members |-> Members(s)]>>
  BY DEF Given
<1>3. PICK i, j : i = LowerBound(r, y) /\ j = LowerBound(s, y)
  OBVIOUS
<1>4. o[1].id = i /\ u[1].id = j /\ i \in Members(s) /\ j \in Members(r)
  BY <1>1, <1>2, <1>3
<1>5. PICK p : Bound(DOMAIN r, y, p) /\ r[p] = i /\ p \in Points(hash, v, i)
  BY <1>1, <1>3, RingPlace
<1>6. PICK q : Bound(DOMAIN s, y, q) /\ s[q] = j /\ q \in Points(hash, v, j)
  BY <1>2, <1>3, RingPlace
<1>7. p \in DOMAIN s /\ s[p] = i
  BY <1>2, <1>4, <1>5, MembersPoint
<1>8. q \in DOMAIN r /\ r[q] = j
  BY <1>1, <1>4, <1>6, MembersPoint
<1>9. DOMAIN r \in SUBSET Nat /\ DOMAIN s \in SUBSET Nat
  BY <1>1, <1>2, RingPlace
<1>10. p = q
  BY <1>5, <1>6, <1>7, <1>8, <1>9, BoundsAgree
<1> QED
  BY <1>4, <1>5, <1>8, <1>10

UsedKeys == (Keys \ {NoKey}) \cup {DefaultKey}

(* One selection by key: where the ring it searched stays, its answer is   *)
(* what the search found.                                                  *)
LEMMA KeyTurn ==
    ASSUME NEW x, IsBalancer(x), x.name = "ConsistentHash",
           IsRing(x.hash, x.virtual_nodes, x.hash_ring), NEW list \in Lists, ~SelectThrows(list),
           NEW hs, hs = Healthy(list), NEW key \in Keys \cup {NoKey, DefaultKey},
           NEW used, used = RingOf(x, hs), NEW result, result = SelectByKey(x, hs, key)
    PROVE  /\ IsRing(x.hash, x.virtual_nodes, used)
           /\ IsRing(x.hash, x.virtual_nodes, result.b.hash_ring)
           /\ result.b.last_key \in {x.last_key, ActualKey(key)}
           /\ ActualKey(key) \in UsedKeys /\ x.hash.key[ActualKey(key)] \in Nat
           /\ result.b.hash_ring = used /\ DOMAIN used # {} =>
                 result.instance.id = LowerBound(used, x.hash.key[ActualKey(key)])
<1>1. hs \in Seq(Inst)
  BY HealthyIs
<1>2. PICK k \in UsedKeys : k = ActualKey(key)
  BY BalancingAssumption DEF UsedKeys, ActualKey
<1>3. x.hash \in Hashes /\ x.virtual_nodes \in VirtualNodes
  BY DEF IsBalancer
<1>4. PICK y \in Nat : y = x.hash.key[k]
  <2>1. x.hash.key \in [UsedKeys -> Nat]
    BY <1>3, BalancingAssumption DEF UsedKeys
  <2> QED
    BY <2>1
<1>5. PICK built : built = RebuildHashRing(x, hs)
  OBVIOUS
<1>6. IsRing(x.hash, x.virtual_nodes, built) /\ \A p \in DOMAIN built : built[p] \in IdsOf(hs)
  BY <1>1, <1>5, RingRebuilt
<1>7. IsRing(x.hash, x.virtual_nodes, used)
  BY <1>5, <1>6 DEF RingOf
<1>8. CASE DOMAIN used = {}
  <2>1. result.b = x
    BY <1>8 DEF SelectByKey
  <2> QED
    BY <1>2, <1>4, <1>7, <1>8, <2>1
<1>9. CASE DOMAIN used # {}
  <2>1. PICK id : id = LowerBound(used, y)
    OBVIOUS
  <2>2. PICK ring : ring = IF id \in IdsOf(hs) THEN used ELSE built
    OBVIOUS
  <2>3. /\ result.instance = WithId(hs, id)
        /\ result.b = [x EXCEPT !.last_key = k, !.hash_ring = ring]
    BY <1>2, <1>4, <1>5, <1>9, <2>1, <2>2 DEF SelectByKey
  <2>4. result.b.hash_ring = ring /\ result.b.last_key = k
    BY <2>3 DEF IsBalancer
  <2>5. ASSUME ring = used PROVE result.instance.id = id
    <3>1. PICK q \in DOMAIN used : used[q] = id
      <4>1. DOMAIN used \subseteq Nat
        BY <1>3, <1>4, <1>7, <1>9, RingPlace
      <4>2. \E q : Bound(DOMAIN used, y, q) /\ LowerBound(used, y) = used[q]
        BY <1>9, <4>1, LowerBoundIs
      <4> QED
        BY <2>1, <4>2 DEF Bound
    <3>2. id \in IdsOf(hs)
      BY <1>6, <2>2, <2>5, <3>1
    <3>3. \E j \in 1..Len(hs) : WithId(hs, id) = hs[j] /\ hs[j].id = id
      BY <1>1, <3>2, WithIdIs
    <3> QED
      BY <2>3, <3>3
  <2>6. IsRing(x.hash, x.virtual_nodes, ring)
    BY <1>6, <1>7, <2>2
  <2> QED
    BY <1>2, <1>4, <1>7, <2>1, <2>4, <2>5, <2>6
<1> QED
  BY <1>8, <1>9

OwnersInv ==
    /\ DOMAIN owner = Keys \cup {DefaultKey}
    /\ b.name = "ConsistentHash" =>
          /\ IsRing(b.hash, b.virtual_nodes, b.hash_ring)
          /\ b.last_key \in Keys \cup {NoKey, DefaultKey}
          /\ \A k \in DOMAIN owner :
                owner[k] = <<>> \/ Given(b.hash, b.virtual_nodes, b.hash.key[k], owner[k])

LEMMA OwnersInit == Init => OwnersInv
<1> SUFFICES ASSUME Init PROVE OwnersInv
  OBVIOUS
<1>1. PICK name \in Names, hash \in Hashes, v \in VirtualNodes : b = Create(name, hash, v)
  BY DEF Init
<1>2. b.hash_ring = <<>> /\ b.last_key = NoKey
  BY <1>1, CreateTyped DEF New
<1>3. owner = [k \in Keys \cup {DefaultKey} |-> <<>>]
  BY DEF Init
<1> QED
  BY <1>2, <1>3, RingEmpty DEF OwnersInv

(* What a step writes to owner is what a ring gave. *)
LEMMA OwnersStep ==
    ASSUME TypeInv, OwnersInv, [Next]_vars
    PROVE  /\ OwnersInv'
           /\ \A k \in DOMAIN owner :
                 \/ owner'[k] = owner[k]
                 \/ /\ b.hash \in Hashes /\ b.virtual_nodes \in VirtualNodes
                    /\ b.hash.key[k] \in Nat
                    /\ owner[k] # <<>> => Given(b.hash, b.virtual_nodes, b.hash.key[k], owner[k])
                    /\ Given(b.hash, b.virtual_nodes, b.hash.key[k], owner'[k])
<1>1. CASE UNCHANGED <<b, owner>>
  BY <1>1 DEF OwnersInv
<1>2. CASE DoSelect
  <2>1. PICK result : result = Select(b, instances) /\ Picked(result)
    BY <1>2 DEF DoSelect
  <2>2. b' = result.b /\ owner' = owner /\ b.name # "ConsistentHash"
    BY <1>2, <2>1 DEF DoSelect, Picked
  <2>3. b'.name # "ConsistentHash"
    BY <1>2, <2>1, <2>2, SelectTyped DEF DoSelect, TypeInv, Alike
  <2> QED
    BY <2>2, <2>3 DEF OwnersInv
<1>3. CASE \E key \in {b.last_key} \cup Keys : DoSelectByKey(key)
  <2>1. PICK key \in {b.last_key} \cup Keys : DoSelectByKey(key)
    BY <1>3
  <2>2. PICK hs : hs = Healthy(instances)
    OBVIOUS
  <2>3. PICK used, result :
            /\ used = RingOf(b, hs) /\ result = SelectByKey(b, hs, key) /\ Picked(result)
            /\ owner' = IF b'.hash_ring = used /\ DOMAIN used # {}
                        THEN [owner EXCEPT ![ActualKey(key)] =
                                 <<[id |-> result.instance.id, members |-> Members(used)]>>]
                        ELSE owner
    BY <2>1, <2>2 DEF DoSelectByKey
  <2>4. /\ b.name = "ConsistentHash" /\ IsBalancer(b) /\ instances \in Lists
        /\ ~SelectThrows(instances) /\ IsRing(b.hash, b.virtual_nodes, b.hash_ring)
        /\ b.last_key \in Keys \cup {NoKey, DefaultKey}
        /\ DOMAIN owner = Keys \cup {DefaultKey}
        /\ \A k \in DOMAIN owner :
              owner[k] = <<>> \/ Given(b.hash, b.virtual_nodes, b.hash.key[k], owner[k])
    BY <2>1 DEF DoSelectByKey, TypeInv, OwnersInv
  <2>5. key \in Keys \cup {NoKey, DefaultKey}
    BY <2>4
  <2>6. b' = result.b
    BY <2>3 DEF Picked
  <2>7. PICK a : a = ActualKey(key)
    OBVIOUS
  <2>8. /\ IsRing(b.hash, b.virtual_nodes, used)
        /\ IsRing(b.hash, b.virtual_nodes, b'.hash_ring)
        /\ b'.last_key \in {b.last_key, a}
        /\ a \in UsedKeys /\ b.hash.key[a] \in Nat
        /\ b'.hash_ring = used /\ DOMAIN used # {} =>
              result.instance.id = LowerBound(used, b.hash.key[a])
    BY <2>2, <2>3, <2>4, <2>5, <2>6, <2>7, KeyTurn
  <2>9. Alike(b, b')
    BY <2>2, <2>3, <2>4, <2>6, HashTyped
  <2>10. b.hash \in Hashes /\ b.virtual_nodes \in VirtualNodes
    BY <2>4 DEF IsBalancer
  <2>11. a \in DOMAIN owner
    BY <2>4, <2>8 DEF UsedKeys
  <2>12. \/ owner' = owner
         \/ \E o : owner' = [owner EXCEPT ![a] = o]
                   /\ Given(b.hash, b.virtual_nodes, b.hash.key[a], o)
    <3>1. CASE b'.hash_ring = used /\ DOMAIN used # {}
      <4>1. PICK o : o = <<[id |-> result.instance.id, members |-> Members(used)]>>
        OBVIOUS
      <4>2. Given(b.hash, b.virtual_nodes, b.hash.key[a], o)
        BY <2>8, <3>1, <4>1 DEF Given
      <4>3. owner' = [owner EXCEPT ![a] = o]
        BY <2>3, <2>7, <3>1, <4>1
      <4> QED
        BY <4>2, <4>3
    <3>2. CASE ~(b'.hash_ring = used /\ DOMAIN used # {})
      BY <2>3, <3>2
    <3> QED
      BY <3>1, <3>2
  <2>13. DOMAIN owner' = DOMAIN owner
    BY <2>12
  <2>14. \A k \in DOMAIN owner :
            \/ owner'[k] = owner[k]
            \/ k = a /\ Given(b.hash, b.virtual_nodes, b.hash.key[a], owner'[a])
    BY <2>12
  <2>15. b'.last_key \in Keys \cup {NoKey, DefaultKey}
    BY <2>4, <2>8 DEF UsedKeys
  <2>16. b'.hash = b.hash /\ b'.virtual_nodes = b.virtual_nodes
    BY <2>9 DEF Alike
  <2>17. \A k \in DOMAIN owner :
            owner'[k] = <<>> \/ Given(b.hash, b.virtual_nodes, b.hash.key[k], owner'[k])
    BY <2>4, <2>14
  <2>18. OwnersInv'
    BY <2>4, <2>8, <2>13, <2>15, <2>16, <2>17 DEF OwnersInv
  <2> QED
    BY <2>4, <2>8, <2>10, <2>14, <2>18
<1>4. CASE DoSelectThrows
  BY <1>1, <1>4 DEF DoSelectThrows
<1>5. CASE DoReset
  <2>1. b' = ResetBalancer(b) /\ owner' = owner
    BY <1>5 DEF DoReset
  <2>2. b'.hash_ring = <<>> /\ b'.last_key = NoKey /\ b'.name = b.name
        /\ (b.name = "ConsistentHash" => Alike(b, b'))
    BY <2>1, ResetTyped DEF TypeInv, New
  <2>3. IsRing(b'.hash, b'.virtual_nodes, b'.hash_ring)
    BY <2>2, RingEmpty
  <2> QED
    BY <2>1, <2>2, <2>3 DEF OwnersInv, Alike
<1>6. CASE \E list \in Lists : ChangeList(list)
  BY <1>1, <1>6 DEF ChangeList
<1>7. CASE UNCHANGED vars
  BY <1>1, <1>7 DEF vars
<1> QED
  BY <1>2, <1>3, <1>4, <1>5, <1>6, <1>7 DEF Next, Pick

(* Where no two instances share a point, a key changes its owner only for  *)
(* an instance that came or because of one that went, over any number of   *)
(* rebuilt rings (consistent_hash_load_balancer.cpp:21,75).  Where two do, *)
(* a run shows the contrary.                                               *)
THEOREM BalancingKeyKeepsOwner ==
    ASSUME NoCollisions
    PROVE  Spec => KeyKeepsOwner
<1> DEFINE OnlyForOthers ==
        \A k \in DOMAIN owner :
            owner[k] # <<>> /\ owner'[k] # owner[k] /\ owner'[k][1].id # owner[k][1].id =>
                \/ owner[k][1].id \notin owner'[k][1].members
                \/ owner'[k][1].id \notin owner[k][1].members
<1>1. ASSUME TypeInv, OwnersInv, [Next]_vars PROVE OnlyForOthers
  <2> SUFFICES ASSUME NEW k \in DOMAIN owner, owner[k] # <<>>, owner'[k] # owner[k],
                      owner[k][1].id \in owner'[k][1].members,
                      owner'[k][1].id \in owner[k][1].members
               PROVE  owner'[k][1].id = owner[k][1].id
    OBVIOUS
  <2>1. PICK o, u : o = owner[k] /\ u = owner'[k]
    OBVIOUS
  <2>2. PICK hash \in Hashes, v \in VirtualNodes, y \in Nat : Given(hash, v, y, o) /\ Given(hash, v, y, u)
    BY <1>1, <2>1, OwnersStep
  <2>3. o[1].id = u[1].id
    BY <2>1, <2>2, OwnersAgree
  <2> QED
    BY <2>1, <2>3
<1>2. TypeInv /\ OwnersInv /\ [Next]_vars => OwnersInv'
  BY OwnersStep
<1>3. TypeInv /\ OwnersInv /\ [Next]_vars => [OnlyForOthers]_vars
  BY <1>1
<1> QED
  BY TypeAlways, OwnersInit, <1>2, <1>3, PTL DEF Spec, KeyKeepsOwner
=============================================================================
