----------------------------- MODULE ListLemmas -----------------------------
(***************************************************************************)
(* Lemmas about what the modules compute from lists and finite sets.  The  *)
(* library's induction theorems have an operator as a parameter, which the *)
(* provers cannot instantiate; here induction is over a set of numbers     *)
(* (Induction), and what is folded is a function (FoldExists, FoldTrace),  *)
(* so that a lemma about one operator follows in a few steps.              *)
(***************************************************************************)
EXTENDS Integers, Lists, Functions, FiniteSetTheorems, WellFoundedInduction, TLAPS

-----------------------------------------------------------------------------
(* Numbers. *)

\* A set of numbers that is not empty has a least one.
LEMMA LeastNumber ==
    ASSUME NEW T \in SUBSET Nat, T # {}
    PROVE  \E x \in T : \A y \in T : x <= y
<1> DEFINE R == OpToRel(<, Nat)
<1>1. IsWellFoundedOn(R, Nat)
  BY NatLessThanWellFounded
<1>2. \A x, y \in Nat : x < y => <<x, y>> \in R
  BY DEF OpToRel
<1> HIDE DEF R
<1>3. \E x \in T : \A y \in T : <<y, x>> \notin R
  BY <1>1, WFMin
<1>4. PICK x \in T : \A y \in T : <<y, x>> \notin R
  BY <1>3
<1>5. \A y \in T : ~ (y < x)
  BY <1>2, <1>4
<1>6. \A y \in T : x <= y
  BY <1>5
<1> QED
  BY <1>6

\* A set that has 0 and with a number the next one has them all.
LEMMA Induction ==
    ASSUME NEW S, 0 \in S, \A n \in Nat : n \in S => n + 1 \in S
    PROVE  Nat \subseteq S
<1> SUFFICES ASSUME Nat \ S # {} PROVE FALSE
  OBVIOUS
<1>1. PICK x \in Nat \ S : \A y \in Nat \ S : x <= y
  BY LeastNumber
<1>2. x - 1 \in Nat /\ x - 1 \in S
  BY <1>1
<1> QED
  BY <1>1, <1>2

\* A set of numbers up to n has the greatest one that Max chooses.
LEMMA MaxOf ==
    ASSUME NEW n \in Nat, NEW T \in SUBSET (1 .. n), T # {}
    PROVE  Max(T) \in T /\ \A y \in T : y <= Max(T)
<1> DEFINE U == {n - y : y \in T}
<1>1. PICK u \in U : \A v \in U : u <= v
  <2>1. \A y \in T : n - y \in Nat
    OBVIOUS
  <2>2. U \in SUBSET Nat /\ U # {}
    BY <2>1
  <2> QED
    BY <2>2, LeastNumber
<1>2. PICK x \in T : u = n - x
  BY <1>1
<1>3. \A y \in T : y <= x
  <2> SUFFICES ASSUME NEW y \in T PROVE y <= x
    OBVIOUS
  <2>1. n - x <= n - y
    BY <1>1, <1>2
  <2> QED
    BY <2>1
<1> QED
  BY <1>3 DEF Max

\* Max takes the numbers up to i from above.
LEMMA UpTo ==
    ASSUME NEW i \in Nat \ {0}
    PROVE  Max(1 .. i) = i /\ (1 .. i) \ {i} = 1 .. i - 1
<1>1. i \in Nat /\ i \in 1 .. i
  OBVIOUS
<1>2. Max(1 .. i) \in 1 .. i /\ \A y \in 1 .. i : y <= Max(1 .. i)
  BY <1>1, MaxOf
<1>3. Max(1 .. i) = i
  BY <1>1, <1>2
<1> QED
  BY <1>3

-----------------------------------------------------------------------------
(* Folds.  A step of a fold is a function from the set G of its values. *)

Folds(it, n, G, base, H) ==
    /\ it \in [SUBSET (1 .. n) -> G]
    /\ \A s \in SUBSET (1 .. n) :
           it[s] = IF s = {} THEN base ELSE H[Max(s)][it[s \ {Max(s)}]]

\* There is such a function.
LEMMA FoldExists ==
    ASSUME NEW n \in Nat, NEW G, NEW base \in G, NEW H \in [1 .. n -> [G -> G]]
    PROVE  \E it : Folds(it, n, G, base, H)
<1> DEFINE Good(k, it) == /\ it \in [SUBSET (1 .. k) -> G]
                          /\ \A s \in SUBSET (1 .. k) :
                                it[s] = IF s = {} THEN base ELSE H[Max(s)][it[s \ {Max(s)}]]
           Ex(k) == k <= n => \E it : Good(k, it)
           S == {k \in Nat : Ex(k)}
<1>1. Ex(0)
  <2> DEFINE it == [s \in SUBSET (1 .. 0) |-> base]
  <2>1. Good(0, it)
    OBVIOUS
  <2> QED
    BY <2>1
<1>2. ASSUME NEW k \in Nat, Ex(k) PROVE Ex(k + 1)
  <2> SUFFICES ASSUME k + 1 <= n
               PROVE  \E it : Good(k + 1, it)
    OBVIOUS
  <2>0. k <= n
    OBVIOUS
  <2>1. PICK it : Good(k, it)
    <3> HIDE DEF Good
    <3> QED
      BY <1>2, <2>0
  <2> DEFINE jt == [s \in SUBSET (1 .. k + 1) |->
                       IF k + 1 \in s THEN H[k + 1][it[s \ {k + 1}]] ELSE it[s]]
  <2>2. ASSUME NEW s \in SUBSET (1 .. k + 1)
        PROVE  s \ {k + 1} \in SUBSET (1 .. k) /\ (k + 1 \notin s => s \in SUBSET (1 .. k))
    OBVIOUS
  <2>3. jt \in [SUBSET (1 .. k + 1) -> G]
    <3>1. H[k + 1] \in [G -> G]
      OBVIOUS
    <3> QED
      BY <2>1, <2>2, <3>1
  <2>4. ASSUME NEW s \in SUBSET (1 .. k + 1)
        PROVE  jt[s] = IF s = {} THEN base ELSE H[Max(s)][jt[s \ {Max(s)}]]
    <3>1. CASE k + 1 \in s
      <4>1. Max(s) = k + 1
        <5>0. k + 1 \in Nat
          OBVIOUS
        <5>1. Max(s) \in s /\ \A y \in s : y <= Max(s)
          BY <3>1, <5>0, MaxOf
        <5>2. Max(s) \in 1 .. k + 1
          BY <5>1
        <5> QED
          BY <3>1, <5>1, <5>2
      <4>2. jt[s \ {k + 1}] = it[s \ {k + 1}]
        BY <2>2
      <4> QED
        BY <3>1, <4>1, <4>2
    <3>2. CASE k + 1 \notin s
      <4>1. s \in SUBSET (1 .. k)
        BY <3>2, <2>2
      <4>2. CASE s = {}
        BY <4>2, <4>1, <2>1
      <4>3. CASE s # {}
        <5> DEFINE m == Max(s)
        <5>1. s \ {m} \in SUBSET (1 .. k)
          BY <4>1
        <5>2. it[s] = H[m][it[s \ {m}]]
          BY <4>1, <4>3, <2>1
        <5>3. jt[s] = it[s] /\ jt[s \ {m}] = it[s \ {m}]
          <6> HIDE DEF m
          <6> QED
            BY <5>1, <4>1
        <5> QED
          BY <5>2, <5>3, <4>3
      <4> QED
        BY <4>2, <4>3
    <3> QED
      BY <3>1, <3>2
  <2> HIDE DEF jt
  <2> QED
    BY <2>3, <2>4
<1> HIDE DEF Ex
<1>3. Nat \subseteq S
  <2>1. 0 \in S
    BY <1>1
  <2>2. \A k \in Nat : k \in S => k + 1 \in S
    BY <1>2
  <2> HIDE DEF S
  <2> QED
    BY <2>1, <2>2, Induction
<1>4. Ex(n)
  BY <1>3
<1>5. PICK it : Good(n, it)
  <2> HIDE DEF Good
  <2> QED
    BY <1>4 DEF Ex
<1> QED
  BY <1>5 DEF Folds

FoldsIn(it, n, G, base, H) ==
    /\ it[{}] = base
    /\ \A s \in SUBSET (1 .. n) :
           s # {} /\ it[s \ {Max(s)}] \in G => it[s] = H[Max(s)][it[s \ {Max(s)}]]

Steps(f, n, G, base, H) ==
    /\ f \in [0 .. n -> G]
    /\ f[0] = base
    /\ \A i \in 1 .. n : f[i] = H[i][f[i - 1]]

\* What FoldLeft's recursion gives is reached step by step from the left.
LEMMA FoldTrace ==
    ASSUME NEW n \in Nat, NEW G, NEW base \in G, NEW H \in [1 .. n -> [G -> G]], NEW it,
           FoldsIn(it, n, G, base, H)
    PROVE  \E f : Steps(f, n, G, base, H) /\ f[n] = it[1 .. n]
<1> DEFINE f == [i \in 0 .. n |-> it[1 .. i]]
           T == {i \in Nat : i <= n => f[i] \in G}
<1>1. f[0] = base
  <2>1. 1 .. 0 = {}
    OBVIOUS
  <2>2. it[1 .. 0] = base
    BY <2>1 DEF FoldsIn
  <2> QED
    BY <2>2
<1>2. ASSUME NEW i \in 1 .. n, f[i - 1] \in G
      PROVE  f[i] = H[i][f[i - 1]]
  <2>1. Max(1 .. i) = i /\ (1 .. i) \ {i} = 1 .. i - 1
    BY UpTo
  <2>2. 1 .. i \in SUBSET (1 .. n) /\ 1 .. i # {}
    <3>1. i \in 1 .. i /\ \A k \in 1 .. i : k \in 1 .. n
      OBVIOUS
    <3> QED
      BY <3>1
  <2>3. f[i] = it[1 .. i] /\ f[i - 1] = it[1 .. i - 1]
    OBVIOUS
  <2>4. it[(1 .. i) \ {Max(1 .. i)}] \in G
    BY <2>1, <2>3, <1>2
  <2>5. it[1 .. i] = H[Max(1 .. i)][it[(1 .. i) \ {Max(1 .. i)}]]
    BY <2>2, <2>4 DEF FoldsIn
  <2> HIDE DEF f
  <2> QED
    BY <2>1, <2>3, <2>5
<1>3. f[n] = it[1 .. n]
  OBVIOUS
<1> HIDE DEF f
<1>4. 0 \in T
  BY <1>1
<1>5. ASSUME NEW i \in Nat, i \in T PROVE i + 1 \in T
  <2> SUFFICES ASSUME i + 1 <= n
               PROVE  f[i + 1] \in G
    OBVIOUS
  <2>1. i + 1 \in 1 .. n /\ (i + 1) - 1 = i /\ f[i] \in G
    BY <1>5
  <2>2. f[i + 1] = H[i + 1][f[i]]
    BY <1>2, <2>1
  <2>3. H[i + 1] \in [G -> G]
    BY <2>1
  <2> QED
    BY <2>1, <2>2, <2>3
<1> HIDE DEF T
<1>6. Nat \subseteq T
  BY <1>4, <1>5, Induction
<1>7. \A i \in 0 .. n : f[i] \in G
  BY <1>6 DEF T
<1>8. f \in [0 .. n -> G]
  BY <1>7 DEF f
<1>9. \A i \in 1 .. n : f[i] = H[i][f[i - 1]]
  <2> TAKE i \in 1 .. n
  <2>1. i - 1 \in 0 .. n
    OBVIOUS
  <2> QED
    BY <1>2, <1>7, <2>1
<1> QED
  BY <1>1, <1>3, <1>8, <1>9 DEF Steps

\* Steps from base are to be found for every list of steps ...
LEMMA StepsExist ==
    ASSUME NEW n \in Nat, NEW G, NEW base \in G, NEW H \in [1 .. n -> [G -> G]]
    PROVE  \E f : Steps(f, n, G, base, H)
<1>1. PICK it : Folds(it, n, G, base, H)
  BY FoldExists
<1>2. FoldsIn(it, n, G, base, H)
  BY <1>1 DEF Folds, FoldsIn
<1> QED
  BY <1>2, FoldTrace

\* ... and stay in what every step stays in.
LEMMA StepsStay ==
    ASSUME NEW n \in Nat, NEW G, NEW base, NEW H, NEW f, Steps(f, n, G, base, H),
           NEW Q \in [0 .. n -> SUBSET G], base \in Q[0],
           \A i \in 1 .. n : \A x \in Q[i - 1] : H[i][x] \in Q[i]
    PROVE  f[n] \in Q[n]
<1> DEFINE T == {i \in Nat : i <= n => f[i] \in Q[i]}
<1>1. 0 \in T
  BY DEF Steps
<1>2. ASSUME NEW i \in Nat, i \in T PROVE i + 1 \in T
  <2> SUFFICES ASSUME i + 1 <= n
               PROVE  f[i + 1] \in Q[i + 1]
    OBVIOUS
  <2>1. i + 1 \in 1 .. n /\ (i + 1) - 1 = i /\ f[i] \in Q[i]
    BY <1>2
  <2>2. f[i + 1] = H[i + 1][f[i]]
    BY <2>1 DEF Steps
  <2> QED
    BY <2>1, <2>2
<1> HIDE DEF T
<1>3. Nat \subseteq T
  BY <1>1, <1>2, Induction
<1> QED
  BY <1>3 DEF T

-----------------------------------------------------------------------------
(* Among. *)

AmongSteps(f, q, S, D) ==
    /\ f \in [0 .. Len(q) -> Seq(D)]
    /\ f[0] = <<>>
    /\ \A i \in 1 .. Len(q) :
           f[i] = IF q[i] \in S THEN Append(f[i - 1], q[i]) ELSE f[i - 1]

\* Among's fold, step by step.
LEMMA AmongTrace ==
    ASSUME NEW D, NEW q \in Seq(D), NEW S
    PROVE  \E f : AmongSteps(f, q, S, D) /\ f[Len(q)] = Among(q, S)
<1> DEFINE n == Len(q)
           G == Seq(D)
           Step(x, t) == IF x \in S THEN Append(t, x) ELSE t
           H == [i \in 1 .. n |-> [g \in G |-> Step(q[i], g)]]
           P(it) == it = [s \in SUBSET (1 .. n) |->
                      IF s = {} THEN <<>> ELSE Step(q[Max(s)], it[s \ {Max(s)}])]
           it0 == CHOOSE it : P(it)
<1>1. n \in Nat /\ DOMAIN q = 1 .. n
  OBVIOUS
<1>2. <<>> \in G /\ \A x \in D, t \in G : Step(x, t) \in G
  OBVIOUS
<1>3. \A i \in 1 .. n : q[i] \in D
  OBVIOUS
<1>4. Among(q, S) = it0[1 .. n]
  BY <1>1 DEF Among, FoldLeft, MapThenFoldSet
<1> HIDE DEF G, n, Step
<1>5. H \in [1 .. n -> [G -> G]]
  BY <1>2, <1>3
<1>6. \A s \in SUBSET (1 .. n) : s # {} => Max(s) \in 1 .. n
  BY <1>1, MaxOf
<1>7. \E it : P(it)
  <2> HIDE DEF H
  <2>1. PICK it : Folds(it, n, G, <<>>, H)
    BY <1>1, <1>2, <1>5, FoldExists
  <2>2. P(it)
    BY <2>1, <1>6 DEF H, Folds
  <2> QED
    BY <2>2
<1>8. P(it0)
  <2> HIDE DEF P
  <2> QED
    BY <1>7
<1> HIDE DEF it0
<1>9. FoldsIn(it0, n, G, <<>>, H)
  BY <1>8, <1>6 DEF FoldsIn
<1>10. PICK f : Steps(f, n, G, <<>>, H) /\ f[n] = it0[1 .. n]
  <2> HIDE DEF H, P
  <2> QED
    BY <1>1, <1>2, <1>5, <1>9, FoldTrace
<1>11. \A i \in 1 .. n : f[i] = Step(q[i], f[i - 1])
  <2> TAKE i \in 1 .. n
  <2>1. f[i - 1] \in G /\ f[i] = H[i][f[i - 1]]
    BY <1>1, <1>10 DEF Steps
  <2> HIDE DEF H
  <2>2. H[i][f[i - 1]] = Step(q[i], f[i - 1])
    BY <2>1 DEF H
  <2> QED
    BY <2>1, <2>2
<1> QED
  BY <1>4, <1>10, <1>11 DEF n, G, Step, Steps, AmongSteps

\* g tells where in q the elements of a are: those in S, each once and in their order.
Keeps(g, a, q, S) ==
    /\ g \in [DOMAIN a -> DOMAIN q]
    /\ \A i \in DOMAIN a : a[i] = q[g[i]] /\ q[g[i]] \in S
    /\ \A i, j \in DOMAIN a : i < j => g[i] < g[j]
    /\ \A k \in DOMAIN q : q[k] \in S => \E i \in DOMAIN a : g[i] = k

\* It keeps the elements of q that are in S.
LEMMA AmongKeeps ==
    ASSUME NEW D, NEW q \in Seq(D), NEW S
    PROVE  Among(q, S) \in Seq(D) /\ \E g : Keeps(g, Among(q, S), q, S)
<1> DEFINE n == Len(q)
<1>0. PICK f : AmongSteps(f, q, S, D) /\ f[n] = Among(q, S)
  BY AmongTrace
<1>1. /\ f \in [0 .. n -> Seq(D)]
      /\ f[0] = <<>>
      /\ \A i \in 1 .. n :
             f[i] = IF q[i] \in S THEN Append(f[i - 1], q[i]) ELSE f[i - 1]
      /\ f[n] = Among(q, S)
  BY <1>0 DEF AmongSteps
<1> DEFINE Good(m, g) ==
               /\ g \in [DOMAIN f[m] -> 1 .. m]
               /\ \A i \in DOMAIN f[m] : f[m][i] = q[g[i]] /\ q[g[i]] \in S
               /\ \A i, j \in DOMAIN f[m] : i < j => g[i] < g[j]
               /\ \A k \in 1 .. m : q[k] \in S => \E i \in DOMAIN f[m] : g[i] = k
           Ex(m) == m <= n => \E g : Good(m, g)
           T == {m \in Nat : Ex(m)}
<1>2. n \in Nat /\ DOMAIN q = 1 .. n
  OBVIOUS
<1> HIDE DEF n
<1>3. Ex(0)
  <2>1. Good(0, <<>>)
    BY <1>1
  <2> QED
    BY <2>1
<1>4. ASSUME NEW m \in Nat, Ex(m) PROVE Ex(m + 1)
  <2> SUFFICES ASSUME m + 1 <= n
               PROVE  \E g : Good(m + 1, g)
    OBVIOUS
  <2>0. /\ m + 1 \in 1 .. n /\ m \in 0 .. n /\ (m + 1) - 1 = m
        /\ f[m] \in Seq(D)
    BY <1>1, <1>2
  <2>1. PICK g : Good(m, g)
    <3> HIDE DEF Good
    <3> QED
      BY <1>4, <1>2
  <2>2. f[m + 1] = IF q[m + 1] \in S THEN Append(f[m], q[m + 1]) ELSE f[m]
    BY <1>1, <2>0
  <2>3. CASE q[m + 1] \notin S
    <3>1. f[m + 1] = f[m]
      BY <2>2, <2>3
    <3>2. Good(m + 1, g)
      BY <2>1, <3>1, <2>3
    <3> QED
      BY <3>2
  <2>4. CASE q[m + 1] \in S
    <3> DEFINE l == Len(f[m])
               h == [i \in 1 .. l + 1 |-> IF i = l + 1 THEN m + 1 ELSE g[i]]
    <3>0. l \in Nat /\ DOMAIN f[m] = 1 .. l
      BY <2>0
    <3>1. /\ DOMAIN f[m + 1] = 1 .. l + 1
          /\ \A i \in 1 .. l : f[m + 1][i] = f[m][i]
          /\ f[m + 1][l + 1] = q[m + 1]
      BY <2>0, <2>2, <2>4
    <3> HIDE DEF l
    <3>2. h \in [DOMAIN f[m + 1] -> 1 .. m + 1]
      BY <2>1, <3>0, <3>1
    <3>3. \A i \in DOMAIN f[m + 1] : f[m + 1][i] = q[h[i]] /\ q[h[i]] \in S
      <4> TAKE i \in DOMAIN f[m + 1]
      <4>1. CASE i = l + 1
        BY <4>1, <2>4, <3>0, <3>1
      <4>2. CASE i # l + 1
        <5>1. i \in DOMAIN f[m] /\ h[i] = g[i]
          BY <4>2, <3>0, <3>1
        <5> QED
          BY <5>1, <2>1, <3>0, <3>1
      <4> QED
        BY <4>1, <4>2
    <3>4. \A i, j \in DOMAIN f[m + 1] : i < j => h[i] < h[j]
      BY <2>1, <3>0, <3>1
    <3>5. ASSUME NEW k \in 1 .. m + 1, q[k] \in S
          PROVE  \E i \in DOMAIN f[m + 1] : h[i] = k
      <4>1. CASE k = m + 1
        <5>1. l + 1 \in DOMAIN f[m + 1] /\ h[l + 1] = m + 1
          BY <3>0, <3>1
        <5> QED
          BY <4>1, <5>1
      <4>2. CASE k # m + 1
        <5>1. PICK i \in DOMAIN f[m] : g[i] = k
          BY <2>1, <3>5, <4>2
        <5>2. i \in 1 .. l + 1 /\ i # l + 1
          BY <3>0
        <5> QED
          BY <3>1, <5>1, <5>2
      <4> QED
        BY <4>1, <4>2
    <3> HIDE DEF h
    <3>6. Good(m + 1, h)
      BY <3>2, <3>3, <3>4, <3>5
    <3> QED
      BY <3>6
  <2> QED
    BY <2>3, <2>4
<1> HIDE DEF Ex
<1>5. Nat \subseteq T
  <2>1. 0 \in T
    BY <1>3
  <2>2. \A m \in Nat : m \in T => m + 1 \in T
    BY <1>4
  <2> HIDE DEF T
  <2> QED
    BY <2>1, <2>2, Induction
<1>6. Ex(n)
  BY <1>2, <1>5
<1>7. PICK g : Good(n, g)
  <2> HIDE DEF Good
  <2> QED
    BY <1>2, <1>6 DEF Ex
<1>8. f[n] = Among(q, S) /\ Among(q, S) \in Seq(D)
  BY <1>1, <1>2
<1> HIDE DEF Good
<1>9. Keeps(g, Among(q, S), q, S)
  BY <1>2, <1>7, <1>8 DEF Good, Keeps
<1> QED
  BY <1>8, <1>9

\* Its elements are those of q that are in S.
LEMMA AmongRange ==
    ASSUME NEW D, NEW q \in Seq(D), NEW S
    PROVE  Among(q, S) \in Seq(D) /\ Range(Among(q, S)) = Range(q) \cap S
<1>1. /\ Among(q, S) \in Seq(D)
      /\ \E g : Keeps(g, Among(q, S), q, S)
  BY AmongKeeps
<1> DEFINE a == Among(q, S)
<1> HIDE DEF a
<1>2. PICK g : Keeps(g, a, q, S)
  BY <1>1 DEF a
<1>3. \A i \in DOMAIN a : a[i] \in Range(q) \cap S
  BY <1>2 DEF Range, Keeps
<1>4. ASSUME NEW k \in DOMAIN q, q[k] \in S PROVE q[k] \in Range(a)
  <2>1. PICK i \in DOMAIN a : g[i] = k
    BY <1>2, <1>4 DEF Keeps
  <2> QED
    BY <1>2, <2>1 DEF Range, Keeps
<1>5. Range(a) = Range(q) \cap S
  BY <1>3, <1>4 DEF Range
<1> QED
  BY <1>1, <1>5 DEF a

\* Among an ascending list the list is ascending.
LEMMA AmongAscends ==
    ASSUME NEW q \in Seq(Nat), NEW S, \A i, j \in DOMAIN q : i < j => q[i] < q[j]
    PROVE  \A i, j \in DOMAIN Among(q, S) : i < j => Among(q, S)[i] < Among(q, S)[j]
<1>1. /\ Among(q, S) \in Seq(Nat)
      /\ \E g : Keeps(g, Among(q, S), q, S)
  BY AmongKeeps
<1> DEFINE a == Among(q, S)
<1> HIDE DEF a
<1>2. PICK g : Keeps(g, a, q, S)
  BY <1>1 DEF a
<1>3. \A i, j \in DOMAIN a : i < j => a[i] < a[j]
  BY <1>2 DEF Keeps
<1> QED
  BY <1>3 DEF a

-----------------------------------------------------------------------------
(* FlattenSeq. *)

FlattenSteps(f, ss, D) ==
    /\ f \in [0 .. Len(ss) -> Seq(D)]
    /\ f[0] = <<>>
    /\ \A i \in 1 .. Len(ss) : f[i] = f[i - 1] \o ss[i]

\* FlattenSeq's recursion, step by step.
LEMMA FlattenTrace ==
    ASSUME NEW D, NEW ss \in Seq(Seq(D))
    PROVE  \E f : FlattenSteps(f, ss, D) /\ f[Len(ss)] = FlattenSeq(ss)
<1> DEFINE n == Len(ss)
           G == Seq(D)
           H == [i \in 1 .. n |-> [g \in G |-> g \o ss[i]]]
           P(fl) == fl = [i \in 1 .. n |-> IF i = 1 THEN ss[i] ELSE fl[i - 1] \o ss[i]]
           flat == CHOOSE fl : P(fl)
<1>1. n \in Nat
  OBVIOUS
<1>2. <<>> \in G /\ \A x, t \in G : t \o x \in G
  OBVIOUS
<1>3. \A i \in 1 .. n : ss[i] \in G
  OBVIOUS
<1>4. FlattenSeq(ss) = IF n = 0 THEN ss ELSE flat[n]
  BY DEF FlattenSeq
<1>5. \A x \in G : <<>> \o x = x
  OBVIOUS
<1>6. n = 0 => ss = <<>>
  OBVIOUS
<1> HIDE DEF n, G
<1>7. H \in [1 .. n -> [G -> G]]
  BY <1>2, <1>3
<1> HIDE DEF H
<1>8. PICK f : Steps(f, n, G, <<>>, H)
  BY <1>1, <1>2, <1>7, StepsExist
<1>9. f \in [0 .. n -> G] /\ f[0] = <<>>
  BY <1>8 DEF Steps
<1>10. ASSUME NEW i \in 1 .. n PROVE f[i] = f[i - 1] \o ss[i]
  <2>1. f[i - 1] \in G /\ f[i] = H[i][f[i - 1]]
    BY <1>1, <1>8 DEF Steps
  <2>2. H[i][f[i - 1]] = f[i - 1] \o ss[i]
    BY <2>1 DEF H
  <2> QED
    BY <2>1, <2>2
<1>11. P([i \in 1 .. n |-> f[i]])
  <2> DEFINE fl == [i \in 1 .. n |-> f[i]]
  <2>1. ASSUME NEW i \in 1 .. n
        PROVE  f[i] = IF i = 1 THEN ss[i] ELSE fl[i - 1] \o ss[i]
    <3>1. CASE i = 1
      <4>0. i - 1 = 0
        BY <3>1
      <4>1. f[1] = <<>> \o ss[1] /\ ss[1] \in G
        BY <3>1, <4>0, <1>3, <1>9, <1>10
      <4> QED
        BY <3>1, <4>1, <1>5
    <3>2. CASE i # 1
      <4>1. i - 1 \in 1 .. n
        BY <3>2, <1>1
      <4>2. fl[i - 1] = f[i - 1]
        BY <4>1
      <4> HIDE DEF fl
      <4> QED
        BY <3>2, <4>2, <1>10
    <3> QED
      BY <3>1, <3>2
  <2>2. fl = [i \in 1 .. n |-> IF i = 1 THEN ss[i] ELSE fl[i - 1] \o ss[i]]
    <3> DEFINE K == [i \in 1 .. n |-> IF i = 1 THEN ss[i] ELSE fl[i - 1] \o ss[i]]
    <3>1. \A i \in 1 .. n : fl[i] = K[i]
      BY <2>1
    <3> QED
      BY <3>1
  <2> QED
    BY <2>2
<1>12. P(flat)
  <2>1. \E fl : P(fl)
    BY <1>11
  <2> HIDE DEF P
  <2> QED
    BY <2>1
<1> HIDE DEF flat
<1>13. ASSUME n # 0 PROVE flat[n] = f[n]
  <2> DEFINE T == {i \in Nat : i + 1 <= n => flat[i + 1] = f[i + 1]}
  <2>1. 0 \in T
    <3>1. ASSUME 1 <= n PROVE flat[1] = f[1]
      <4>1. flat[1] = ss[1] /\ ss[1] \in G
        BY <1>1, <1>3, <1>12, <3>1
      <4>2. f[1] = <<>> \o ss[1]
        BY <1>1, <1>9, <1>10, <3>1
      <4> QED
        BY <4>1, <4>2, <1>5
    <3> QED
      BY <3>1
  <2>2. ASSUME NEW i \in Nat, i \in T PROVE i + 1 \in T
    <3> SUFFICES ASSUME (i + 1) + 1 <= n
                 PROVE  flat[(i + 1) + 1] = f[(i + 1) + 1]
      OBVIOUS
    <3> DEFINE k == (i + 1) + 1
    <3>1. k \in 1 .. n /\ k - 1 = i + 1 /\ k # 1
      BY <1>1
    <3>2. flat[i + 1] = f[i + 1]
      BY <1>1, <2>2
    <3> HIDE DEF k
    <3>3. flat[k] = flat[k - 1] \o ss[k]
      BY <3>1, <1>12
    <3>4. f[k] = f[k - 1] \o ss[k]
      BY <3>1, <1>10
    <3>5. flat[k] = f[k]
      BY <3>1, <3>2, <3>3, <3>4
    <3> QED
      BY <3>5 DEF k
  <2> HIDE DEF T
  <2>3. Nat \subseteq T
    BY <2>1, <2>2, Induction
  <2>4. n - 1 \in Nat /\ n - 1 \in T
    BY <1>1, <1>13, <2>3
  <2> QED
    BY <1>1, <2>4 DEF T
<1>14. f[n] = FlattenSeq(ss)
  BY <1>4, <1>6, <1>9, <1>13
<1> QED
  BY <1>9, <1>10, <1>14 DEF n, G, FlattenSteps

\* What Append and Tail make of a list.
LEMMA AppendFacts ==
    ASSUME NEW S, NEW q \in Seq(S), NEW v \in S
    PROVE  /\ DOMAIN q = 1 .. Len(q) /\ Len(q) \in Nat
           /\ Append(q, v) \in Seq(S)
           /\ Len(Append(q, v)) = Len(q) + 1
           /\ DOMAIN Append(q, v) = 1 .. Len(q) + 1
           /\ \A i \in DOMAIN q : Append(q, v)[i] = q[i]
           /\ Append(q, v)[Len(q) + 1] = v
OBVIOUS

LEMMA TailFacts ==
    ASSUME NEW S, NEW q \in Seq(S), q # <<>>
    PROVE  /\ DOMAIN q = 1 .. Len(q) /\ Len(q) \in Nat \ {0}
           /\ Head(q) = q[1] /\ Head(q) \in S
           /\ Tail(q) \in Seq(S)
           /\ Len(Tail(q)) = Len(q) - 1
           /\ DOMAIN Tail(q) = 1 .. Len(q) - 1
           /\ \A i \in DOMAIN Tail(q) : Tail(q)[i] = q[i + 1] /\ i + 1 \in DOMAIN q
OBVIOUS

\* Two lists one after the other have the elements of both.
LEMMA RangeOfConcat ==
    ASSUME NEW D, NEW q \in Seq(D), NEW r \in Seq(D)
    PROVE  Range(q \o r) = Range(q) \cup Range(r)
<1> DEFINE c == q \o r
<1>1. /\ Len(q) \in Nat /\ Len(r) \in Nat
      /\ DOMAIN q = 1 .. Len(q) /\ DOMAIN r = 1 .. Len(r)
      /\ DOMAIN c = 1 .. Len(q) + Len(r)
  OBVIOUS
<1>2. \A i \in DOMAIN c : c[i] = IF i <= Len(q) THEN q[i] ELSE r[i - Len(q)]
  OBVIOUS
<1> HIDE DEF c
<1>3. ASSUME NEW i \in DOMAIN c PROVE c[i] \in Range(q) \cup Range(r)
  <2>1. CASE i <= Len(q)
    BY <1>1, <1>2, <2>1 DEF Range
  <2>2. CASE ~ (i <= Len(q))
    <3>1. i - Len(q) \in DOMAIN r
      BY <1>1, <2>2
    <3> QED
      BY <1>2, <2>2, <3>1 DEF Range
  <2> QED
    BY <2>1, <2>2
<1>4. ASSUME NEW i \in DOMAIN q PROVE q[i] \in Range(c)
  BY <1>1, <1>2 DEF Range
<1>5. ASSUME NEW i \in DOMAIN r PROVE r[i] \in Range(c)
  <2>1. Len(q) + i \in DOMAIN c /\ c[Len(q) + i] = r[i]
    BY <1>1, <1>2
  <2> QED
    BY <2>1 DEF Range
<1>6. Range(c) = Range(q) \cup Range(r)
  BY <1>3, <1>4, <1>5 DEF Range
<1> QED
  BY <1>6 DEF c

LEMMA ConcatAssociates ==
    ASSUME NEW D, NEW q \in Seq(D), NEW r \in Seq(D), NEW t \in Seq(D)
    PROVE  q \o (r \o t) = (q \o r) \o t
OBVIOUS

\* Two ascending lists, the second all above the first, make an ascending one.
LEMMA ConcatAscends ==
    ASSUME NEW q \in Seq(Nat), NEW r \in Seq(Nat),
           \A i, j \in DOMAIN q : i < j => q[i] < q[j],
           \A i, j \in DOMAIN r : i < j => r[i] < r[j],
           \A m \in Range(q), n \in Range(r) : m < n
    PROVE  \A i, j \in DOMAIN (q \o r) : i < j => (q \o r)[i] < (q \o r)[j]
<1> DEFINE c == q \o r
<1>1. /\ Len(q) \in Nat /\ Len(r) \in Nat
      /\ DOMAIN q = 1 .. Len(q) /\ DOMAIN r = 1 .. Len(r)
      /\ DOMAIN c = 1 .. Len(q) + Len(r)
  OBVIOUS
<1>2. \A i \in DOMAIN c : c[i] = IF i <= Len(q) THEN q[i] ELSE r[i - Len(q)]
  OBVIOUS
<1>3. \A i \in DOMAIN q, j \in DOMAIN r : q[i] < r[j]
  BY DEF Range
<1> HIDE DEF c
<1>4. ASSUME NEW i \in DOMAIN c, NEW j \in DOMAIN c, i < j
      PROVE  c[i] < c[j]
  <2>1. CASE j <= Len(q)
    BY <1>1, <1>2, <1>4, <2>1
  <2>2. CASE i <= Len(q) /\ ~ (j <= Len(q))
    <3>1. i \in DOMAIN q /\ j - Len(q) \in DOMAIN r
      BY <1>1, <2>2
    <3> QED
      BY <1>2, <1>3, <2>2, <3>1
  <2>3. CASE ~ (i <= Len(q))
    <3>1. /\ i - Len(q) \in DOMAIN r /\ j - Len(q) \in DOMAIN r
          /\ i - Len(q) < j - Len(q) /\ ~ (j <= Len(q))
      BY <1>1, <1>4, <2>3
    <3> QED
      BY <1>2, <2>3, <3>1
  <2> QED
    BY <1>1, <1>4, <2>1, <2>2, <2>3
<1> QED
  BY <1>4 DEF c

\* A flattened list has the elements of its parts.
LEMMA FlattenRange ==
    ASSUME NEW D, NEW ss \in Seq(Seq(D))
    PROVE  /\ FlattenSeq(ss) \in Seq(D)
           /\ Range(FlattenSeq(ss)) = UNION {Range(ss[i]) : i \in DOMAIN ss}
<1> DEFINE n == Len(ss)
<1>1. PICK f : FlattenSteps(f, ss, D) /\ f[n] = FlattenSeq(ss)
  BY FlattenTrace
<1>2. /\ f \in [0 .. n -> Seq(D)]
      /\ f[0] = <<>>
      /\ \A i \in 1 .. n : f[i] = f[i - 1] \o ss[i]
  BY <1>1 DEF FlattenSteps
<1>3. n \in Nat /\ DOMAIN ss = 1 .. n /\ \A i \in 1 .. n : ss[i] \in Seq(D)
  OBVIOUS
<1> HIDE DEF n
<1> DEFINE T == {i \in Nat : i <= n => Range(f[i]) = UNION {Range(ss[j]) : j \in 1 .. i}}
<1>4. 0 \in T
  <2>1. Range(<<>>) = {} /\ 1 .. 0 = {}
    BY DEF Range
  <2> QED
    BY <1>2, <2>1
<1>5. ASSUME NEW i \in Nat, i \in T PROVE i + 1 \in T
  <2> SUFFICES ASSUME i + 1 <= n
               PROVE  Range(f[i + 1]) = UNION {Range(ss[j]) : j \in 1 .. i + 1}
    OBVIOUS
  <2>1. /\ i + 1 \in 1 .. n /\ (i + 1) - 1 = i /\ i \in 0 .. n
        /\ Range(f[i]) = UNION {Range(ss[j]) : j \in 1 .. i}
    BY <1>3, <1>5
  <2>2. f[i] \in Seq(D) /\ ss[i + 1] \in Seq(D) /\ f[i + 1] = f[i] \o ss[i + 1]
    BY <1>2, <1>3, <2>1
  <2>3. Range(f[i] \o ss[i + 1]) = Range(f[i]) \cup Range(ss[i + 1])
    BY <2>2, RangeOfConcat
  <2>4. 1 .. i + 1 = (1 .. i) \cup {i + 1}
    OBVIOUS
  <2> QED
    BY <2>1, <2>2, <2>3, <2>4
<1> HIDE DEF T
<1>6. Nat \subseteq T
  BY <1>4, <1>5, Induction
<1>7. Range(f[n]) = UNION {Range(ss[j]) : j \in 1 .. n}
  BY <1>3, <1>6 DEF T
<1> QED
  BY <1>1, <1>2, <1>3, <1>7

-----------------------------------------------------------------------------
(* Sums. *)

\* h has the sums of f over all sets of numbers up to n.
Total(h, n, f) ==
    /\ h \in [SUBSET (1 .. n) -> Int]
    /\ h[{}] = 0
    /\ \A s \in SUBSET (1 .. n) : \A x \in s : h[s] = f[x] + h[s \ {x}]

LEMMA TotalExists ==
    ASSUME NEW n \in Nat, NEW f \in [1 .. n -> Int]
    PROVE  \E h : Total(h, n, f)
<1> DEFINE H == [i \in 1 .. n |-> [x \in Int |-> f[i] + x]]
<1>1. H \in [1 .. n -> [Int -> Int]]
  OBVIOUS
<1>2. \E h : Folds(h, n, Int, 0, H)
  <2>1. 0 \in Int
    OBVIOUS
  <2> HIDE DEF H
  <2> QED
    BY <1>1, <2>1, FoldExists
<1> PICK h : Folds(h, n, Int, 0, H)
  BY <1>2
<1>3. h \in [SUBSET (1 .. n) -> Int] /\ h[{}] = 0
  BY DEF Folds
<1>4. ASSUME NEW s \in SUBSET (1 .. n), s # {}
      PROVE  h[s] = f[Max(s)] + h[s \ {Max(s)}] /\ Max(s) \in s /\ \A y \in s : y <= Max(s)
  <2>1. Max(s) \in s /\ \A y \in s : y <= Max(s)
    BY <1>4, MaxOf
  <2>2. h[s] = H[Max(s)][h[s \ {Max(s)}]]
    BY <1>4 DEF Folds
  <2>3. Max(s) \in 1 .. n /\ h[s \ {Max(s)}] \in Int
    BY <1>3, <2>1
  <2> QED
    BY <2>1, <2>2, <2>3
<1> HIDE DEF H
<1> DEFINE Good(k) == \A s \in SUBSET (1 .. k) : \A x \in s : h[s] = f[x] + h[s \ {x}]
           T == {k \in Nat : k <= n => Good(k)}
<1>5. 0 \in T
  OBVIOUS
<1>6. ASSUME NEW k \in Nat, k <= n => Good(k), k + 1 <= n PROVE Good(k + 1)
  <2> SUFFICES ASSUME NEW s \in SUBSET (1 .. k + 1), NEW x \in s
               PROVE  h[s] = f[x] + h[s \ {x}]
    OBVIOUS
  <2>0. Good(k)
    <3>1. k <= n
      BY <1>6
    <3> HIDE DEF Good
    <3> QED
      BY <1>6, <3>1
  <2> DEFINE m == Max(s)
  <2>1. s \in SUBSET (1 .. n) /\ s # {} /\ k <= n
    BY <1>6
  <2>2. h[s] = f[m] + h[s \ {m}] /\ m \in s /\ \A y \in s : y <= m
    BY <1>4, <2>1
  <2> HIDE DEF m
  <2>3. CASE x = m
    BY <2>2, <2>3
  <2>4. CASE x # m
    <3>1. s \ {m} \in SUBSET (1 .. k) /\ x \in s \ {m}
      <4>1. \A y \in s \ {m} : y \in 1 .. k
        BY <1>6, <2>2
      <4> QED
        BY <2>4, <4>1
    <3>2. h[s \ {m}] = f[x] + h[(s \ {m}) \ {x}]
      BY <2>0, <3>1
    <3>3. \A y \in s \ {x} : y <= m
      BY <2>2
    <3>4. Max(s \ {x}) = m
      <4>1. s \ {x} \in SUBSET (1 .. n) /\ s \ {x} # {} /\ m \in s \ {x}
        BY <2>1, <2>2, <2>4
      <4>2. Max(s \ {x}) \in s \ {x} /\ \A y \in s \ {x} : y <= Max(s \ {x})
        BY <1>4, <4>1
      <4>3. Max(s \ {x}) <= m /\ m <= Max(s \ {x})
        BY <3>3, <4>1, <4>2
      <4>4. Max(s \ {x}) \in 1 .. n /\ m \in 1 .. n
        BY <4>1, <4>2
      <4> QED
        BY <4>3, <4>4
    <3>5. h[s \ {x}] = f[m] + h[(s \ {x}) \ {m}]
      BY <1>4, <2>1, <2>2, <2>4, <3>4
    <3>6. (s \ {x}) \ {m} = (s \ {m}) \ {x}
      OBVIOUS
    <3>7. h[(s \ {m}) \ {x}] \in Int /\ f[x] \in Int /\ f[m] \in Int
      <4>1. (s \ {m}) \ {x} \in SUBSET (1 .. n) /\ x \in 1 .. n /\ m \in 1 .. n
        BY <2>1, <2>2
      <4> QED
        BY <1>3, <4>1
    <3>8. h[s] = f[m] + (f[x] + h[(s \ {m}) \ {x}]) /\ h[s \ {x}] = f[m] + h[(s \ {m}) \ {x}]
      BY <2>2, <3>2, <3>5, <3>6
    <3> QED
      BY <3>7, <3>8
  <2> QED
    BY <2>3, <2>4
<1> HIDE DEF Good
<1>7. \A k \in Nat : k \in T => k + 1 \in T
  <2> TAKE k \in Nat
  <2>1. k + 1 <= n => k <= n
    OBVIOUS
  <2> QED
    BY <1>6, <2>1
<1> HIDE DEF T
<1>8. Nat \subseteq T
  BY <1>5, <1>7, Induction
<1>9. Good(n)
  BY <1>8 DEF T
<1> QED
  BY <1>3, <1>9 DEF Total, Good

\* The sums are what the community module computes, whatever order it chooses.
LEMMA SumIsTotal ==
    ASSUME NEW n \in Nat, NEW f \in [1 .. n -> Int],
           NEW h, Total(h, n, f), NEW S \in SUBSET (1 .. n)
    PROVE  SumFunctionOnSet(f, S) = h[S]
<1> DEFINE ch(s) == CHOOSE x \in s : TRUE
           P(it) == it = [s \in SUBSET S |-> IF s = {} THEN 0 ELSE f[ch(s)] + it[s \ {ch(s)}]]
           it0 == CHOOSE it : P(it)
<1>1. SumFunctionOnSet(f, S) = it0[S]
  BY DEF SumFunctionOnSet, FoldFunctionOnSet, MapThenFoldSet
<1>2. \A s : s # {} => ch(s) \in s
  OBVIOUS
<1> HIDE DEF ch
<1>3. P([s \in SUBSET S |-> h[s]])
  <2> DEFINE g == [s \in SUBSET S |-> h[s]]
  <2>1. ASSUME NEW s \in SUBSET S
        PROVE  h[s] = IF s = {} THEN 0 ELSE f[ch(s)] + g[s \ {ch(s)}]
    <3>1. s \in SUBSET (1 .. n) /\ s \ {ch(s)} \in SUBSET S
      OBVIOUS
    <3>2. s # {} => h[s] = f[ch(s)] + h[s \ {ch(s)}]
      BY <1>2, <3>1 DEF Total
    <3> QED
      BY <3>1, <3>2 DEF Total
  <2> QED
    BY <2>1
<1>4. P(it0)
  <2> HIDE DEF P
  <2> QED
    BY <1>3
<1> HIDE DEF it0
<1>5. \A s \in SUBSET S : it0[s] = IF s = {} THEN 0 ELSE f[ch(s)] + it0[s \ {ch(s)}]
  BY <1>4
<1>6. \A s \in SUBSET S : it0[s] = h[s]
  <2> DEFINE C == {Cardinality(s) : s \in {t \in SUBSET S : it0[t] # h[t]}}
  <2> SUFFICES ASSUME NEW t \in SUBSET S, it0[t] # h[t] PROVE FALSE
    OBVIOUS
  <2>1. ASSUME NEW s \in SUBSET S PROVE IsFiniteSet(s) /\ Cardinality(s) \in Nat
    <3>1. IsFiniteSet(1 .. n)
      BY FS_Interval
    <3>2. s \subseteq 1 .. n
      OBVIOUS
    <3>3. IsFiniteSet(s)
      BY <3>1, <3>2, FS_Subset
    <3> QED
      BY <3>3, FS_CardinalityType
  <2>2. C \in SUBSET Nat /\ C # {}
    BY <2>1
  <2>3. PICK c \in C : \A d \in C : c <= d
    BY <2>2, LeastNumber
  <2>4. PICK s \in SUBSET S : c = Cardinality(s) /\ it0[s] # h[s]
    OBVIOUS
  <2>5. s # {}
    BY <1>5, <2>4 DEF Total
  <2>6. ch(s) \in s /\ s \ {ch(s)} \in SUBSET S
    BY <1>2, <2>5
  <2>7. Cardinality(s \ {ch(s)}) = Cardinality(s) - 1
    BY <2>1, <2>6, FS_RemoveElement
  <2>8. it0[s \ {ch(s)}] = h[s \ {ch(s)}]
    <3>1. Cardinality(s \ {ch(s)}) \notin C
      <4>1. Cardinality(s) \in Nat
        BY <2>1
      <4> HIDE DEF C
      <4> QED
        BY <2>3, <2>4, <2>7, <4>1
    <3> QED
      BY <2>6, <3>1
  <2>9. h[s] = f[ch(s)] + h[s \ {ch(s)}]
    <3>1. s \in SUBSET (1 .. n)
      OBVIOUS
    <3> QED
      BY <2>6, <3>1 DEF Total
  <2> QED
    BY <1>5, <2>4, <2>5, <2>8, <2>9
<1> QED
  BY <1>1, <1>6

\* It depends only on the values in the set.
LEMMA SumSame ==
    ASSUME NEW n \in Nat, NEW f \in [1 .. n -> Int],
           NEW g \in [1 .. n -> Int],
           NEW S \in SUBSET (1 .. n), \A i \in S : g[i] = f[i]
    PROVE  SumFunctionOnSet(g, S) = SumFunctionOnSet(f, S)
<1>1. PICK F : Total(F, n, f)
  BY TotalExists
<1>2. PICK G : Total(G, n, g)
  BY TotalExists
<1> DEFINE Good(k) == \A s \in SUBSET S : s \subseteq 1 .. k => F[s] = G[s]
           T == {k \in Nat : Good(k)}
<1>4. Good(0)
  <2>1. \A s : s \subseteq 1 .. 0 => s = {}
    OBVIOUS
  <2> QED
    BY <1>1, <1>2, <2>1 DEF Total
<1>5. ASSUME NEW k \in Nat, Good(k) PROVE Good(k + 1)
  <2> SUFFICES ASSUME NEW s \in SUBSET S, s \subseteq 1 .. k + 1 PROVE F[s] = G[s]
    OBVIOUS
  <2>1. CASE k + 1 \in s
    <3>1. s \ {k + 1} \in SUBSET S /\ s \ {k + 1} \subseteq 1 .. k /\ s \in SUBSET (1 .. n)
      OBVIOUS
    <3>2. F[s \ {k + 1}] = G[s \ {k + 1}]
      BY <1>5, <3>1
    <3>3. F[s] = f[k + 1] + F[s \ {k + 1}]
      BY <1>1, <2>1, <3>1 DEF Total
    <3>4. G[s] = g[k + 1] + G[s \ {k + 1}]
      BY <1>2, <2>1, <3>1 DEF Total
    <3>5. g[k + 1] = f[k + 1]
      BY <2>1
    <3> QED
      BY <3>2, <3>3, <3>4, <3>5
  <2>2. CASE k + 1 \notin s
    <3>1. s \subseteq 1 .. k
      BY <2>2
    <3> QED
      BY <1>5, <3>1
  <2> QED
    BY <2>1, <2>2
<1> HIDE DEF Good
<1>6. 0 \in T /\ \A k \in Nat : k \in T => k + 1 \in T
  BY <1>4, <1>5
<1> HIDE DEF T
<1>7. Good(n)
  <2>1. Nat \subseteq T
    BY <1>6, Induction
  <2> QED
    BY <2>1 DEF T
<1>8. SumFunctionOnSet(f, S) = F[S]
  BY <1>1, SumIsTotal
<1>9. SumFunctionOnSet(g, S) = G[S]
  BY <1>2, SumIsTotal
<1> QED
  BY <1>7, <1>8, <1>9 DEF Good

\* One number after the other.
LEMMA SumList ==
    ASSUME NEW n \in Nat, NEW f \in [1 .. n -> Int]
    PROVE  /\ SumFunctionOnSet(f, 1 .. 0) = 0
           /\ \A k \in 0 .. n : SumFunctionOnSet(f, 1 .. k) \in Int
           /\ \A k \in 1 .. n : SumFunctionOnSet(f, 1 .. k)
                                 = f[k] + SumFunctionOnSet(f, 1 .. k - 1)
<1>1. PICK h : Total(h, n, f)
  BY TotalExists
<1>2. \A s \in SUBSET (1 .. n) : SumFunctionOnSet(f, s) = h[s]
  BY <1>1, SumIsTotal
<1>3. 1 .. 0 = {}
  OBVIOUS
<1>4. \A k \in 0 .. n : 1 .. k \in SUBSET (1 .. n)
  OBVIOUS
<1>5. \A k \in 1 .. n : k \in 1 .. k /\ (1 .. k) \ {k} = 1 .. k - 1 /\ k - 1 \in 0 .. n
  <2> TAKE k \in 1 .. n
  <2>1. k \in Nat \ {0}
    OBVIOUS
  <2> QED
    BY <2>1, UpTo
<1>6. ASSUME NEW k \in 1 .. n PROVE h[1 .. k] = f[k] + h[1 .. k - 1]
  <2>1. 1 .. k \in SUBSET (1 .. n)
    BY <1>4
  <2>2. k \in 1 .. k /\ (1 .. k) \ {k} = 1 .. k - 1
    BY <1>5
  <2>3. h[1 .. k] = f[k] + h[(1 .. k) \ {k}]
    BY <1>1, <2>1, <2>2 DEF Total
  <2> QED
    BY <2>2, <2>3
<1>7. {} \in SUBSET (1 .. n)
  OBVIOUS
<1>8. ASSUME NEW k \in 1 .. n
      PROVE  SumFunctionOnSet(f, 1 .. k) = f[k] + SumFunctionOnSet(f, 1 .. k - 1)
  <2>1. k \in 0 .. n /\ k - 1 \in 0 .. n
    OBVIOUS
  <2> QED
    BY <1>2, <1>4, <1>6, <2>1
<1>9. SumFunctionOnSet(f, 1 .. 0) = 0
  BY <1>1, <1>2, <1>3, <1>7 DEF Total
<1>10. \A k \in 0 .. n : SumFunctionOnSet(f, 1 .. k) \in Int
  BY <1>1, <1>2, <1>4 DEF Total
<1> QED
  BY <1>8, <1>9, <1>10

\* One number apart.
LEMMA SumApart ==
    ASSUME NEW n \in Nat, NEW f \in [1 .. n -> Int], NEW i \in 1 .. n
    PROVE  /\ SumFunctionOnSet(f, (1 .. n) \ {i}) \in Int
           /\ SumFunctionOnSet(f, 1 .. n) = f[i] + SumFunctionOnSet(f, (1 .. n) \ {i})
<1>1. PICK h : Total(h, n, f)
  BY TotalExists
<1>2. \A s \in SUBSET (1 .. n) : SumFunctionOnSet(f, s) = h[s]
  BY <1>1, SumIsTotal
<1>3. 1 .. n \in SUBSET (1 .. n) /\ (1 .. n) \ {i} \in SUBSET (1 .. n) /\ i \in 1 .. n
  OBVIOUS
<1>4. h[1 .. n] = f[i] + h[(1 .. n) \ {i}] /\ h[(1 .. n) \ {i}] \in Int
  BY <1>1, <1>3 DEF Total
<1> QED
  BY <1>2, <1>3, <1>4

-----------------------------------------------------------------------------
(* Weights: what the elements of a list add up to. *)

Weight(h, q) == SumFunction([k \in DOMAIN q |-> h[q[k]]])

\* The weight of what comes up to a place.
WeightTo(h, q, k) == SumFunctionOnSet([j \in DOMAIN q |-> h[q[j]]], 1 .. k)

LEMMA WeightSteps ==
    ASSUME NEW D, NEW h \in [D -> Int], NEW q \in Seq(D)
    PROVE  /\ Weight(h, q) = WeightTo(h, q, Len(q))
           /\ WeightTo(h, q, 0) = 0
           /\ \A k \in 0 .. Len(q) : WeightTo(h, q, k) \in Int
           /\ \A k \in 1 .. Len(q) : WeightTo(h, q, k) = h[q[k]] + WeightTo(h, q, k - 1)
           /\ Weight(h, q) \in Int
<1> DEFINE n == Len(q)
           f == [k \in DOMAIN q |-> h[q[k]]]
<1>1. n \in Nat /\ DOMAIN q = 1 .. n /\ n \in 0 .. n
  OBVIOUS
<1>2. f \in [1 .. n -> Int] /\ \A i \in 1 .. n : f[i] = h[q[i]]
  BY <1>1
<1>3. DOMAIN f = 1 .. n
  BY <1>1
<1>4. \A k : WeightTo(h, q, k) = SumFunctionOnSet(f, 1 .. k)
  BY DEF WeightTo
<1>5. Weight(h, q) = SumFunctionOnSet(f, 1 .. n)
  <2>1. Weight(h, q) = SumFunctionOnSet(f, DOMAIN f)
    BY DEF Weight, SumFunction
  <2> HIDE DEF f
  <2> QED
    BY <1>3, <2>1
<1> HIDE DEF n, f
<1>6. /\ SumFunctionOnSet(f, 1 .. 0) = 0
      /\ \A k \in 0 .. n : SumFunctionOnSet(f, 1 .. k) \in Int
      /\ \A k \in 1 .. n : SumFunctionOnSet(f, 1 .. k) = f[k] + SumFunctionOnSet(f, 1 .. k - 1)
  BY <1>1, <1>2, SumList
<1>7. /\ Weight(h, q) = WeightTo(h, q, n)
      /\ WeightTo(h, q, 0) = 0
      /\ \A k \in 0 .. n : WeightTo(h, q, k) \in Int
      /\ \A k \in 1 .. n : WeightTo(h, q, k) = h[q[k]] + WeightTo(h, q, k - 1)
  BY <1>2, <1>4, <1>5, <1>6
<1> QED
  BY <1>1, <1>7 DEF n

LEMMA WeightOfEmpty ==
    ASSUME NEW D, NEW h \in [D -> Int]
    PROVE  Weight(h, <<>>) = 0
<1>1. <<>> \in Seq(D) /\ Len(<<>>) = 0
  OBVIOUS
<1> DEFINE q == <<>>
<1> HIDE DEF q
<1>2. Weight(h, q) = WeightTo(h, q, Len(q)) /\ WeightTo(h, q, 0) = 0
  BY <1>1, WeightSteps DEF q
<1> QED
  BY <1>1, <1>2 DEF q

\* Two lists that agree up to a place agree in the weight up to it.
LEMMA WeightToSame ==
    ASSUME NEW D, NEW h \in [D -> Int], NEW q \in Seq(D), NEW r \in Seq(D),
           NEW n \in Nat, n <= Len(q), n <= Len(r), \A k \in 1 .. n : r[k] = q[k]
    PROVE  WeightTo(h, r, n) = WeightTo(h, q, n)
<1> DEFINE T == {i \in Nat : i <= n => WeightTo(h, r, i) = WeightTo(h, q, i)}
<1>1. /\ WeightTo(h, q, 0) = 0
      /\ \A k \in 1 .. Len(q) : WeightTo(h, q, k) = h[q[k]] + WeightTo(h, q, k - 1)
  BY WeightSteps
<1>2. /\ WeightTo(h, r, 0) = 0
      /\ \A k \in 1 .. Len(r) : WeightTo(h, r, k) = h[r[k]] + WeightTo(h, r, k - 1)
  BY WeightSteps
<1>3. 0 \in T
  BY <1>1, <1>2
<1>4. ASSUME NEW i \in Nat, i \in T PROVE i + 1 \in T
  <2> SUFFICES ASSUME i + 1 <= n PROVE WeightTo(h, r, i + 1) = WeightTo(h, q, i + 1)
    OBVIOUS
  <2>1. /\ i + 1 \in 1 .. Len(q) /\ i + 1 \in 1 .. Len(r) /\ (i + 1) - 1 = i
        /\ r[i + 1] = q[i + 1] /\ WeightTo(h, r, i) = WeightTo(h, q, i)
    BY <1>4
  <2> QED
    BY <1>1, <1>2, <2>1
<1> HIDE DEF T
<1>5. Nat \subseteq T
  BY <1>3, <1>4, Induction
<1> QED
  BY <1>5 DEF T


LEMMA WeightAppend ==
    ASSUME NEW D, NEW h \in [D -> Int], NEW q \in Seq(D), NEW x \in D
    PROVE  Append(q, x) \in Seq(D) /\ Weight(h, Append(q, x)) = Weight(h, q) + h[x]
<1> DEFINE r == Append(q, x)
           n == Len(q)
<1>1. /\ n \in Nat /\ r \in Seq(D) /\ Len(r) = n + 1 /\ r[n + 1] = x
      /\ \A k \in 1 .. n : r[k] = q[k]
  OBVIOUS
<1> HIDE DEF r
<1>2. Weight(h, q) = WeightTo(h, q, n) /\ Weight(h, q) \in Int
  BY WeightSteps
<1>3. /\ Weight(h, r) = WeightTo(h, r, Len(r))
      /\ \A k \in 1 .. Len(r) : WeightTo(h, r, k) = h[r[k]] + WeightTo(h, r, k - 1)
  BY <1>1, WeightSteps
<1> HIDE DEF n
<1>4. Weight(h, r) = h[x] + WeightTo(h, r, n)
  <2>1. n + 1 \in 1 .. Len(r) /\ (n + 1) - 1 = n
    BY <1>1
  <2> QED
    BY <1>1, <1>3, <2>1
<1>5. WeightTo(h, r, n) = WeightTo(h, q, n)
  <2>1. n <= Len(q) /\ n <= Len(r)
    BY <1>1 DEF n
  <2> QED
    BY <1>1, <2>1, WeightToSame
<1>6. h[x] \in Int
  OBVIOUS
<1> QED
  BY <1>1, <1>2, <1>4, <1>5, <1>6 DEF r

LEMMA FrontFacts ==
    ASSUME NEW D, NEW q \in Seq(D), q # <<>>
    PROVE  /\ Front(q) \in Seq(D) /\ Last(q) \in D
           /\ Len(q) \in Nat \ {0} /\ Len(Front(q)) = Len(q) - 1
           /\ Last(q) = q[Len(q)]
           /\ \A k \in 1 .. Len(q) - 1 : Front(q)[k] = q[k]
           /\ q = Append(Front(q), Last(q))
<1>1. Len(q) \in Nat \ {0} /\ Last(q) = q[Len(q)] /\ Last(q) \in D
  BY DEF Last
<1>2. /\ Front(q) \in Seq(D) /\ Len(Front(q)) = Len(q) - 1
      /\ \A k \in 1 .. Len(q) - 1 : Front(q)[k] = q[k]
  <2>1. Front(q) = SubSeq(q, 1, Len(q) - 1) /\ Len(q) - 1 \in Nat
    BY <1>1 DEF Front
  <2> DEFINE m == Len(q) - 1
             r == SubSeq(q, 1, m)
  <2>2. m \in Nat /\ \A k \in 1 .. m : k \in 1 .. Len(q) /\ q[k] \in D
    BY <1>1
  <2>3. Len(r) = m
    <3>1. m = (m - 1) + 1
      BY <2>2
    <3> HIDE DEF m
    <3> QED
      BY <2>2, <3>1
  <2>4. \A k \in 1 .. m : r[k] = q[k]
    BY <1>1
  <2>5. r \in Seq(D)
    BY <1>1, <2>2
  <2> QED
    BY <2>1, <2>3, <2>4, <2>5
<1>3. q = Append(Front(q), Last(q))
  <2> DEFINE r == Append(Front(q), Last(q))
  <2>1. /\ r \in Seq(D) /\ Len(r) = Len(q) /\ r[Len(q)] = Last(q)
        /\ \A k \in 1 .. Len(q) - 1 : r[k] = Front(q)[k]
    BY <1>1, <1>2
  <2> HIDE DEF r
  <2>2. \A k \in 1 .. Len(q) : r[k] = q[k]
    BY <1>1, <1>2, <2>1
  <2>3. r = q
    BY <2>1, <2>2
  <2> QED
    BY <2>3 DEF r
<1> QED
  BY <1>1, <1>2, <1>3

LEMMA WeightFront ==
    ASSUME NEW D, NEW h \in [D -> Int], NEW q \in Seq(D), q # <<>>
    PROVE  Front(q) \in Seq(D) /\ Weight(h, q) = Weight(h, Front(q)) + h[Last(q)]
<1>1. Front(q) \in Seq(D) /\ Last(q) \in D /\ q = Append(Front(q), Last(q))
  BY FrontFacts
<1>2. Weight(h, Append(Front(q), Last(q))) = Weight(h, Front(q)) + h[Last(q)]
  BY <1>1, WeightAppend
<1> QED
  BY <1>1, <1>2

LEMMA WeightTail ==
    ASSUME NEW D, NEW h \in [D -> Int], NEW q \in Seq(D), q # <<>>
    PROVE  Tail(q) \in Seq(D) /\ Weight(h, q) = h[Head(q)] + Weight(h, Tail(q))
<1> DEFINE r == Tail(q)
           m == Len(r)
           T == {i \in Nat : i <= m => WeightTo(h, q, i + 1) = h[Head(q)] + WeightTo(h, r, i)}
<1>1. /\ m \in Nat /\ r \in Seq(D) /\ Len(q) = m + 1 /\ Head(q) = q[1] /\ Head(q) \in D
      /\ \A k \in 1 .. m : r[k] = q[k + 1]
  OBVIOUS
<1> HIDE DEF r
<1>2. /\ Weight(h, q) = WeightTo(h, q, Len(q)) /\ WeightTo(h, q, 0) = 0
      /\ \A k \in 0 .. Len(q) : WeightTo(h, q, k) \in Int
      /\ \A k \in 1 .. Len(q) : WeightTo(h, q, k) = h[q[k]] + WeightTo(h, q, k - 1)
  BY WeightSteps
<1>3. /\ Weight(h, r) = WeightTo(h, r, m) /\ WeightTo(h, r, 0) = 0
      /\ \A k \in 0 .. m : WeightTo(h, r, k) \in Int
      /\ \A k \in 1 .. m : WeightTo(h, r, k) = h[r[k]] + WeightTo(h, r, k - 1)
  BY <1>1, WeightSteps
<1>4. h[Head(q)] \in Int
  BY <1>1
<1> HIDE DEF m
<1>5. 0 \in T
  <2>1. 1 \in 1 .. Len(q) /\ 1 - 1 = 0
    BY <1>1
  <2>2. WeightTo(h, q, 1) = h[q[1]] + 0
    BY <1>2, <2>1
  <2> QED
    BY <1>1, <1>3, <1>4, <2>2
<1>6. ASSUME NEW i \in Nat, i \in T PROVE i + 1 \in T
  <2> SUFFICES ASSUME i + 1 <= m
               PROVE  WeightTo(h, q, (i + 1) + 1) = h[Head(q)] + WeightTo(h, r, i + 1)
    OBVIOUS
  <2>1. /\ (i + 1) + 1 \in 1 .. Len(q) /\ ((i + 1) + 1) - 1 = i + 1
        /\ i + 1 \in 1 .. m /\ (i + 1) - 1 = i /\ i \in 0 .. m
    BY <1>1
  <2>2. WeightTo(h, q, i + 1) = h[Head(q)] + WeightTo(h, r, i)
    BY <1>6, <2>1
  <2>3. WeightTo(h, q, (i + 1) + 1) = h[q[(i + 1) + 1]] + WeightTo(h, q, i + 1)
    BY <1>2, <2>1
  <2>4. WeightTo(h, r, i + 1) = h[r[i + 1]] + WeightTo(h, r, i)
    BY <1>3, <2>1
  <2>5. r[i + 1] = q[(i + 1) + 1] /\ r[i + 1] \in D
    BY <1>1, <2>1
  <2>6. h[r[i + 1]] \in Int /\ WeightTo(h, r, i) \in Int
    BY <1>3, <2>1, <2>5
  <2> QED
    BY <1>4, <2>2, <2>3, <2>4, <2>5, <2>6
<1> HIDE DEF T
<1>7. Nat \subseteq T
  BY <1>5, <1>6, Induction
<1>8. WeightTo(h, q, m + 1) = h[Head(q)] + WeightTo(h, r, m)
  BY <1>1, <1>7 DEF T
<1> QED
  BY <1>1, <1>2, <1>3, <1>8 DEF r

LEMMA WeightReverse ==
    ASSUME NEW D, NEW h \in [D -> Int], NEW q \in Seq(D)
    PROVE  /\ Reverse(q) \in Seq(D) /\ Len(Reverse(q)) = Len(q)
           /\ \A k \in 1 .. Len(q) : Reverse(q)[k] = q[(Len(q) - k) + 1]
           /\ Weight(h, Reverse(q)) = Weight(h, q)
<1> DEFINE r == Reverse(q)
           n == Len(q)
           T == {i \in Nat : i <= n =>
                    WeightTo(h, r, i) + WeightTo(h, q, n - i) = WeightTo(h, q, n)}
<1>1. /\ n \in Nat /\ r \in Seq(D) /\ Len(r) = n
      /\ \A k \in 1 .. n : r[k] = q[(n - k) + 1]
  BY DEF Reverse
<1> HIDE DEF r
<1>2. /\ Weight(h, q) = WeightTo(h, q, n) /\ WeightTo(h, q, 0) = 0
      /\ \A k \in 0 .. n : WeightTo(h, q, k) \in Int
      /\ \A k \in 1 .. n : WeightTo(h, q, k) = h[q[k]] + WeightTo(h, q, k - 1)
  BY WeightSteps
<1>3. /\ Weight(h, r) = WeightTo(h, r, n) /\ WeightTo(h, r, 0) = 0
      /\ \A k \in 0 .. n : WeightTo(h, r, k) \in Int
      /\ \A k \in 1 .. n : WeightTo(h, r, k) = h[r[k]] + WeightTo(h, r, k - 1)
  BY <1>1, WeightSteps
<1>4. \A k \in 1 .. n : q[k] \in D
  OBVIOUS
<1> HIDE DEF n
<1>5. 0 \in T
  <2>1. n - 0 = n /\ WeightTo(h, q, n) \in Int
    BY <1>1, <1>2
  <2> QED
    BY <1>3, <2>1
<1>6. ASSUME NEW i \in Nat, i \in T PROVE i + 1 \in T
  <2> SUFFICES ASSUME i + 1 <= n
               PROVE  WeightTo(h, r, i + 1) + WeightTo(h, q, n - (i + 1)) = WeightTo(h, q, n)
    OBVIOUS
  <2>1. /\ n - i \in 1 .. n /\ (n - i) - 1 = n - (i + 1) /\ n - (i + 1) \in 0 .. n
        /\ i + 1 \in 1 .. n /\ (i + 1) - 1 = i /\ (n - (i + 1)) + 1 = n - i /\ i \in 0 .. n
    BY <1>1
  <2>2. WeightTo(h, r, i) + WeightTo(h, q, n - i) = WeightTo(h, q, n)
    BY <1>6, <2>1
  <2>3. WeightTo(h, q, n - i) = h[q[n - i]] + WeightTo(h, q, n - (i + 1))
    BY <1>2, <2>1
  <2>4. WeightTo(h, r, i + 1) = h[r[i + 1]] + WeightTo(h, r, i)
    BY <1>3, <2>1
  <2>5. r[i + 1] = q[n - i] /\ q[n - i] \in D
    BY <1>1, <1>4, <2>1
  <2>6. h[q[n - i]] \in Int /\ WeightTo(h, r, i) \in Int /\ WeightTo(h, q, n - (i + 1)) \in Int
    BY <1>2, <1>3, <2>1, <2>5
  <2> QED
    BY <2>2, <2>3, <2>4, <2>5, <2>6
<1> HIDE DEF T
<1>7. Nat \subseteq T
  BY <1>5, <1>6, Induction
<1>8. WeightTo(h, r, n) = WeightTo(h, q, n)
  <2>1. WeightTo(h, r, n) + WeightTo(h, q, n - n) = WeightTo(h, q, n) /\ n - n = 0
    BY <1>1, <1>7 DEF T
  <2>2. WeightTo(h, r, n) \in Int /\ n \in 0 .. n
    BY <1>1, <1>3
  <2> QED
    BY <1>2, <2>1, <2>2
<1> QED
  BY <1>1, <1>2, <1>3, <1>8 DEF r, n


\* What Among takes and what it leaves weigh what the list weighs.
LEMMA WeightAmong ==
    ASSUME NEW D, NEW h \in [D -> Int], NEW q \in Seq(D), NEW S, NEW R,
           \A k \in 1 .. Len(q) : q[k] \in S <=> q[k] \notin R
    PROVE  Weight(h, Among(q, S)) + Weight(h, Among(q, R)) = Weight(h, q)
<1> DEFINE n == Len(q)
<1>1. n \in Nat /\ \A k \in 1 .. n : q[k] \in D
  OBVIOUS
<1>2. PICK f : AmongSteps(f, q, S, D) /\ f[n] = Among(q, S)
  BY AmongTrace
<1>3. PICK g : AmongSteps(g, q, R, D) /\ g[n] = Among(q, R)
  BY AmongTrace
<1> DEFINE T == {i \in Nat : i <= n => Weight(h, f[i]) + Weight(h, g[i]) = WeightTo(h, q, i)}
<1>4. /\ Weight(h, q) = WeightTo(h, q, n) /\ WeightTo(h, q, 0) = 0
      /\ \A k \in 0 .. n : WeightTo(h, q, k) \in Int
      /\ \A k \in 1 .. n : WeightTo(h, q, k) = h[q[k]] + WeightTo(h, q, k - 1)
  BY WeightSteps
<1>5. f[0] = <<>> /\ g[0] = <<>> /\ \A i \in 0 .. n : f[i] \in Seq(D) /\ g[i] \in Seq(D)
  BY <1>2, <1>3 DEF AmongSteps
<1>6. \A k \in 1 .. n : q[k] \in S <=> q[k] \notin R
  OBVIOUS
<1>7. /\ \A k \in 1 .. n : f[k] = IF q[k] \in S THEN Append(f[k - 1], q[k]) ELSE f[k - 1]
      /\ \A k \in 1 .. n : g[k] = IF q[k] \in R THEN Append(g[k - 1], q[k]) ELSE g[k - 1]
  BY <1>2, <1>3 DEF AmongSteps
<1> HIDE DEF n
<1>8. 0 \in T
  <2>1. Weight(h, <<>>) = 0
    BY WeightOfEmpty
  <2> QED
    BY <1>4, <1>5, <2>1
<1>9. ASSUME NEW i \in Nat, i \in T PROVE i + 1 \in T
  <2> SUFFICES ASSUME i + 1 <= n
               PROVE  Weight(h, f[i + 1]) + Weight(h, g[i + 1]) = WeightTo(h, q, i + 1)
    OBVIOUS
  <2> DEFINE x == q[i + 1]
             a == f[i]
             b == g[i]
  <2>1. i + 1 \in 1 .. n /\ (i + 1) - 1 = i /\ i \in 0 .. n
    BY <1>1
  <2>2. /\ x \in D /\ a \in Seq(D) /\ b \in Seq(D) /\ (x \in S <=> x \notin R)
        /\ WeightTo(h, q, i + 1) = h[x] + WeightTo(h, q, i)
        /\ f[i + 1] = IF x \in S THEN Append(a, x) ELSE a
        /\ g[i + 1] = IF x \in R THEN Append(b, x) ELSE b
    BY <1>1, <1>4, <1>5, <1>6, <1>7, <2>1
  <2>3. Weight(h, a) + Weight(h, b) = WeightTo(h, q, i)
    BY <1>9, <2>1
  <2> HIDE DEF x, a, b
  <2>4. Weight(h, Append(a, x)) = Weight(h, a) + h[x]
    BY <2>2, WeightAppend
  <2>5. Weight(h, Append(b, x)) = Weight(h, b) + h[x]
    BY <2>2, WeightAppend
  <2>6. Weight(h, a) \in Int
    BY <2>2, WeightSteps
  <2>7. Weight(h, b) \in Int
    BY <2>2, WeightSteps
  <2>8. h[x] \in Int
    BY <2>2
  <2> QED
    BY <2>2, <2>3, <2>4, <2>5, <2>6, <2>7, <2>8
<1> HIDE DEF T
<1>10. Nat \subseteq T
  BY <1>8, <1>9, Induction
<1> QED
  BY <1>1, <1>2, <1>3, <1>4, <1>10 DEF T, n

\* One element is replaced.
LEMMA WeightChange ==
    ASSUME NEW D, NEW h \in [D -> Int], NEW q \in Seq(D), NEW i \in 1 .. Len(q), NEW x \in D
    PROVE  Weight(h, [q EXCEPT ![i] = x]) = Weight(h, q) - h[q[i]] + h[x]
<1> DEFINE r == [q EXCEPT ![i] = x]
<1>0. /\ r \in Seq(D) /\ Len(r) = Len(q) /\ r[i] = x
      /\ \A k \in (1 .. Len(q)) \ {i} : r[k] = q[k]
  OBVIOUS
<1> HIDE DEF r
<1> DEFINE n == Len(q)
           f == [k \in 1 .. n |-> h[q[k]]]
           g == [k \in 1 .. n |-> h[r[k]]]
<1>1. n \in Nat /\ i \in 1 .. n /\ DOMAIN q = 1 .. n /\ DOMAIN r = 1 .. n
  BY <1>0
<1>2. f \in [1 .. n -> Int] /\ g \in [1 .. n -> Int]
  BY <1>0
<1>3. (\A k \in (1 .. n) \ {i} : g[k] = f[k]) /\ f[i] = h[q[i]] /\ g[i] = h[r[i]]
  BY <1>0
<1>4. Weight(h, q) = SumFunction(f) /\ Weight(h, r) = SumFunction(g)
  BY <1>1 DEF Weight
<1>5. DOMAIN f = 1 .. n /\ DOMAIN g = 1 .. n
  OBVIOUS
<1> HIDE DEF f, g, n
<1> DEFINE rest == (1 .. n) \ {i}
<1>6. rest \in SUBSET (1 .. n) /\ rest = (1 .. n) \ {i} /\ \A k \in rest : g[k] = f[k]
  BY <1>3
<1> HIDE DEF rest
<1>7. SumFunctionOnSet(g, rest) = SumFunctionOnSet(f, rest)
  BY <1>1, <1>2, <1>6, SumSame
<1>8. /\ SumFunctionOnSet(f, rest) \in Int
      /\ SumFunctionOnSet(f, 1 .. n) = f[i] + SumFunctionOnSet(f, rest)
  BY <1>1, <1>2, <1>6, SumApart
<1>9. SumFunctionOnSet(g, 1 .. n) = g[i] + SumFunctionOnSet(g, rest)
  BY <1>1, <1>2, <1>6, SumApart
<1>10. f[i] \in Int /\ g[i] \in Int
  BY <1>1, <1>2
<1> QED
  BY <1>0, <1>3, <1>4, <1>5, <1>7, <1>8, <1>9, <1>10 DEF SumFunction, r

\* Where nothing has a negative weight, no element weighs more than all.
LEMMA WeightNotNegative ==
    ASSUME NEW D, NEW h \in [D -> Int], NEW q \in Seq(D), \A k \in 1 .. Len(q) : h[q[k]] >= 0
    PROVE  /\ Weight(h, q) \in Nat
           /\ \A k \in 1 .. Len(q) : h[q[k]] <= Weight(h, q)
           /\ \A k \in 0 .. Len(q) : WeightTo(h, q, k) >= 0
<1> DEFINE n == Len(q)
           Good(i) == WeightTo(h, q, i) >= 0 /\ \A k \in 1 .. i : h[q[k]] <= WeightTo(h, q, i)
           T == {i \in Nat : i <= n => Good(i)}
<1>1. /\ n \in Nat
      /\ \A k \in 1 .. n : h[q[k]] >= 0 /\ h[q[k]] \in Int
  OBVIOUS
<1>2. /\ Weight(h, q) = WeightTo(h, q, n) /\ WeightTo(h, q, 0) = 0
      /\ \A k \in 0 .. n : WeightTo(h, q, k) \in Int
      /\ \A k \in 1 .. n : WeightTo(h, q, k) = h[q[k]] + WeightTo(h, q, k - 1)
  BY WeightSteps
<1> HIDE DEF n
<1>3. 0 \in T
  BY <1>2
<1>4. ASSUME NEW i \in Nat, i \in T PROVE i + 1 \in T
  <2> SUFFICES ASSUME i + 1 <= n PROVE Good(i + 1)
    OBVIOUS
  <2>1. i + 1 \in 1 .. n /\ (i + 1) - 1 = i /\ i \in 0 .. n
    BY <1>1
  <2>2. Good(i)
    BY <1>4, <2>1
  <2>3. /\ WeightTo(h, q, i + 1) = h[q[i + 1]] + WeightTo(h, q, i)
        /\ h[q[i + 1]] >= 0 /\ h[q[i + 1]] \in Int /\ WeightTo(h, q, i) \in Int
    BY <1>1, <1>2, <2>1
  <2>4. ASSUME NEW k \in 1 .. i + 1 PROVE h[q[k]] <= WeightTo(h, q, i + 1)
    <3>1. CASE k = i + 1
      BY <2>2, <2>3, <3>1
    <3>2. CASE k # i + 1
      <4>1. k \in 1 .. i /\ k \in 1 .. n
        <5>1. k \in Nat /\ 1 <= k /\ k <= i + 1 /\ i + 1 <= n
          BY <2>1
        <5> QED
          BY <1>1, <3>2, <5>1
      <4>2. h[q[k]] \in Int /\ h[q[k]] <= WeightTo(h, q, i)
        BY <1>1, <2>2, <4>1
      <4> QED
        BY <2>3, <4>2
    <3> QED
      BY <3>1, <3>2
  <2> QED
    BY <2>2, <2>3, <2>4
<1> HIDE DEF T
<1>5. Nat \subseteq T
  BY <1>3, <1>4, Induction
<1>6. Good(n) /\ \A k \in 0 .. n : WeightTo(h, q, k) >= 0
  BY <1>1, <1>5 DEF T
<1> QED
  BY <1>1, <1>2, <1>6 DEF n


\* How many elements of a list are in a set is what it weighs if those weigh one.
LEMMA CountIsWeight ==
    ASSUME NEW D, NEW q \in Seq(D), NEW h \in [D -> Int], NEW K \in SUBSET (1 .. Len(q)),
           \A k \in 1 .. Len(q) : h[q[k]] = IF k \in K THEN 1 ELSE 0
    PROVE  Cardinality(K) = Weight(h, q)
<1> DEFINE n == Len(q)
           C(i) == {k \in 1 .. i : k \in K}
           T == {i \in Nat : i <= n => IsFiniteSet(C(i)) /\ Cardinality(C(i)) = WeightTo(h, q, i)}
<1>1. n \in Nat /\ DOMAIN q = 1 .. n /\ \A k \in 1 .. n : q[k] \in D
  OBVIOUS
<1>2. /\ Weight(h, q) = WeightTo(h, q, n) /\ WeightTo(h, q, 0) = 0
      /\ \A k \in 0 .. n : WeightTo(h, q, k) \in Int
      /\ \A k \in 1 .. n : WeightTo(h, q, k) = h[q[k]] + WeightTo(h, q, k - 1)
  BY WeightSteps
<1> HIDE DEF n
<1>3. 0 \in T
  <2>1. C(0) = {}
    OBVIOUS
  <2> HIDE DEF C
  <2> QED
    BY <1>2, <2>1, FS_EmptySet
<1>4. ASSUME NEW i \in Nat, i \in T PROVE i + 1 \in T
  <2> SUFFICES ASSUME i + 1 <= n
               PROVE  IsFiniteSet(C(i + 1)) /\ Cardinality(C(i + 1)) = WeightTo(h, q, i + 1)
    OBVIOUS
  <2>1. i + 1 \in 1 .. n /\ (i + 1) - 1 = i /\ i \in 0 .. n
    BY <1>1
  <2>2. IsFiniteSet(C(i)) /\ Cardinality(C(i)) = WeightTo(h, q, i)
    BY <1>4, <2>1
  <2>3. WeightTo(h, q, i + 1) = h[q[i + 1]] + WeightTo(h, q, i) /\ WeightTo(h, q, i) \in Int
    BY <1>2, <2>1
  <2>4. C(i + 1) = (IF i + 1 \in K THEN C(i) \cup {i + 1} ELSE C(i)) /\ i + 1 \notin C(i)
    OBVIOUS
  <2>5. h[q[i + 1]] = IF i + 1 \in K THEN 1 ELSE 0
    BY <2>1 DEF n
  <2> HIDE DEF C
  <2>6. /\ IsFiniteSet(C(i) \cup {i + 1})
        /\ Cardinality(C(i) \cup {i + 1}) = Cardinality(C(i)) + 1
    BY <2>2, <2>4, FS_AddElement
  <2>7. CASE i + 1 \in K
    <3>1. C(i + 1) = C(i) \cup {i + 1}
      BY <2>4, <2>7
    <3>2. WeightTo(h, q, i + 1) = Cardinality(C(i)) + 1
      BY <2>2, <2>3, <2>5, <2>7
    <3> QED
      BY <2>6, <3>1, <3>2
  <2>8. CASE i + 1 \notin K
    BY <2>2, <2>3, <2>4, <2>5, <2>8
  <2> QED
    BY <2>7, <2>8
<1> HIDE DEF T
<1>5. Nat \subseteq T
  BY <1>3, <1>4, Induction
<1>6. Cardinality(C(n)) = WeightTo(h, q, n)
  <2> HIDE DEF C
  <2> QED
    BY <1>1, <1>5 DEF T
<1>7. K = C(n)
  BY DEF n
<1> QED
  BY <1>2, <1>6, <1>7


\* What weighs nothing anywhere weighs nothing together.
LEMMA WeightZero ==
    ASSUME NEW D, NEW h \in [D -> Int], NEW q \in Seq(D), \A k \in 1 .. Len(q) : h[q[k]] = 0
    PROVE  Weight(h, q) = 0
<1> DEFINE T == {n \in Nat : n <= Len(q) => WeightTo(h, q, n) = 0}
<1>1. /\ Weight(h, q) = WeightTo(h, q, Len(q)) /\ WeightTo(h, q, 0) = 0
      /\ \A k \in 1 .. Len(q) : WeightTo(h, q, k) = h[q[k]] + WeightTo(h, q, k - 1)
  BY WeightSteps
<1>2. 0 \in T
  BY <1>1
<1>3. ASSUME NEW n \in Nat, n \in T PROVE n + 1 \in T
  <2>1. n + 1 <= Len(q) => n + 1 \in 1 .. Len(q) /\ (n + 1) - 1 = n /\ n <= Len(q)
    OBVIOUS
  <2>2. ASSUME n + 1 <= Len(q) PROVE WeightTo(h, q, n + 1) = 0
    <3>1. WeightTo(h, q, n + 1) = h[q[n + 1]] + WeightTo(h, q, n)
      BY <1>1, <2>1, <2>2
    <3>2. WeightTo(h, q, n) = 0 /\ h[q[n + 1]] = 0
      BY <1>3, <2>1, <2>2
    <3> QED
      BY <3>1, <3>2
  <2> QED
    BY <2>2
<1> HIDE DEF T
<1>4. Nat \subseteq T
  BY <1>2, <1>3, Induction
<1> QED
  BY <1>1, <1>4 DEF T

\* Two weights together.
IsSumOn(D, f, h, g, q) ==
    /\ q \in Seq(D) /\ h \in [D -> Int] /\ g \in [D -> Int] /\ f \in [D -> Int]
    /\ \A k \in 1 .. Len(q) : f[q[k]] = h[q[k]] + g[q[k]]

LEMMA WeightOfSum ==
    ASSUME NEW D, NEW h, NEW g, NEW q, NEW f, IsSumOn(D, f, h, g, q)
    PROVE  Weight(f, q) = Weight(h, q) + Weight(g, q)
<1> DEFINE T == {n \in Nat : n <= Len(q) =>
                    WeightTo(f, q, n) = WeightTo(h, q, n) + WeightTo(g, q, n)}
<1> USE DEF IsSumOn
<1>1. /\ Weight(h, q) = WeightTo(h, q, Len(q)) /\ WeightTo(h, q, 0) = 0
      /\ \A k \in 0 .. Len(q) : WeightTo(h, q, k) \in Int
      /\ \A k \in 1 .. Len(q) : WeightTo(h, q, k) = h[q[k]] + WeightTo(h, q, k - 1)
  BY WeightSteps
<1>2. /\ Weight(g, q) = WeightTo(g, q, Len(q)) /\ WeightTo(g, q, 0) = 0
      /\ \A k \in 0 .. Len(q) : WeightTo(g, q, k) \in Int
      /\ \A k \in 1 .. Len(q) : WeightTo(g, q, k) = g[q[k]] + WeightTo(g, q, k - 1)
  BY WeightSteps
<1>3. /\ Weight(f, q) = WeightTo(f, q, Len(q)) /\ WeightTo(f, q, 0) = 0
      /\ \A k \in 1 .. Len(q) : WeightTo(f, q, k) = f[q[k]] + WeightTo(f, q, k - 1)
  BY WeightSteps
<1>4. 0 \in T
  BY <1>1, <1>2, <1>3
<1>5. ASSUME NEW n \in Nat, n \in T PROVE n + 1 \in T
  <2> SUFFICES ASSUME n + 1 <= Len(q)
               PROVE  WeightTo(f, q, n + 1) = WeightTo(h, q, n + 1) + WeightTo(g, q, n + 1)
    OBVIOUS
  <2>1. n + 1 \in 1 .. Len(q) /\ (n + 1) - 1 = n /\ n \in 0 .. Len(q) /\ n <= Len(q)
    OBVIOUS
  <2>2. q[n + 1] \in D
    BY <2>1
  <2>3. f[q[n + 1]] = h[q[n + 1]] + g[q[n + 1]] /\ h[q[n + 1]] \in Int /\ g[q[n + 1]] \in Int
    BY <2>1, <2>2
  <2>4. WeightTo(f, q, n) = WeightTo(h, q, n) + WeightTo(g, q, n)
    BY <1>5, <2>1
  <2>5. WeightTo(h, q, n) \in Int /\ WeightTo(g, q, n) \in Int
    BY <1>1, <1>2, <2>1
  <2>6. WeightTo(f, q, n + 1) = f[q[n + 1]] + WeightTo(f, q, n)
    BY <1>3, <2>1
  <2>7. WeightTo(h, q, n + 1) = h[q[n + 1]] + WeightTo(h, q, n)
    BY <1>1, <2>1
  <2>8. WeightTo(g, q, n + 1) = g[q[n + 1]] + WeightTo(g, q, n)
    BY <1>2, <2>1
  <2> QED
    BY <2>3, <2>4, <2>5, <2>6, <2>7, <2>8
<1> HIDE DEF T
<1>6. Nat \subseteq T
  BY <1>4, <1>5, Induction
<1> QED
  BY <1>1, <1>2, <1>3, <1>6 DEF T

\* Two weights that agree on a list.
LEMMA WeightAgree ==
    ASSUME NEW D, NEW q \in Seq(D), NEW h, NEW g, \A k \in 1 .. Len(q) : g[q[k]] = h[q[k]]
    PROVE  Weight(g, q) = Weight(h, q)
<1>1. [k \in DOMAIN q |-> g[q[k]]] = [k \in DOMAIN q |-> h[q[k]]]
  OBVIOUS
<1> QED
  BY <1>1 DEF Weight


\* A part of a list weighs no more than the list if nothing weighs less than nothing.
LEMMA WeightToGrows ==
    ASSUME NEW D, NEW h \in [D -> Int], NEW q \in Seq(D), \A k \in 1 .. Len(q) : h[q[k]] >= 0,
           NEW i \in 0 .. Len(q)
    PROVE  WeightTo(h, q, i) <= Weight(h, q)
<1> DEFINE n == Len(q)
           T == {j \in Nat : j <= n => WeightTo(h, q, n - j) <= Weight(h, q)}
<1>1. /\ n \in Nat /\ Weight(h, q) = WeightTo(h, q, n) /\ Weight(h, q) \in Int
      /\ \A k \in 0 .. n : WeightTo(h, q, k) \in Int
      /\ \A k \in 1 .. n : WeightTo(h, q, k) = h[q[k]] + WeightTo(h, q, k - 1)
  BY WeightSteps
<1>2. \A k \in 1 .. n : h[q[k]] \in Int /\ h[q[k]] >= 0
  OBVIOUS
<1> HIDE DEF n
<1>3. 0 \in T
  BY <1>1
<1>4. ASSUME NEW j \in Nat, j \in T PROVE j + 1 \in T
  <2> SUFFICES ASSUME j + 1 <= n PROVE WeightTo(h, q, n - (j + 1)) <= Weight(h, q)
    OBVIOUS
  <2>1. n - j \in 1 .. n /\ (n - j) - 1 = n - (j + 1) /\ n - (j + 1) \in 0 .. n /\ n - j \in 0 .. n
    BY <1>1
  <2>2. WeightTo(h, q, n - j) = h[q[n - j]] + WeightTo(h, q, n - (j + 1))
    BY <1>1, <2>1
  <2>3. WeightTo(h, q, n - j) <= Weight(h, q)
    BY <1>1, <1>4, <2>1
  <2>4. /\ h[q[n - j]] \in Int /\ h[q[n - j]] >= 0
        /\ WeightTo(h, q, n - (j + 1)) \in Int /\ WeightTo(h, q, n - j) \in Int
    BY <1>1, <1>2, <2>1
  <2> QED
    BY <1>1, <2>2, <2>3, <2>4
<1> HIDE DEF T
<1>5. Nat \subseteq T
  BY <1>3, <1>4, Induction
<1>6. n - i \in Nat /\ n - i <= n /\ n - (n - i) = i
  BY <1>1 DEF n
<1> QED
  BY <1>5, <1>6 DEF T
=============================================================================
