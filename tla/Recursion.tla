------------------------------- MODULE Recursion -------------------------------
(***************************************************************************)
(* Division, and induction over the natural numbers and recursive functions, *)
(* stated with sets and functions only, so that every definition             *)
(* f[d \in D] == ... of this project can be reasoned about.                  *)
(***************************************************************************)
EXTENDS Integers, FiniteSetTheorems, TLAPS

LEMMA LeastNatural ==
  ASSUME NEW S \in SUBSET Nat, S # {}
  PROVE  \E m \in S : \A n \in S : m <= n
  <1> DEFINE R == StrictSubsetOrdering(Nat)
             T == {0..n : n \in S}
  <1>1. T \subseteq FiniteSubsetsOf(Nat) /\ T # {}
    <2>1. \A n \in S : 0..n \subseteq Nat /\ IsFiniteSet(0..n)
      BY FS_Interval
    <2> QED BY <2>1 DEF FiniteSubsetsOf
  <1>2. PICK x \in T : \A y \in T : <<y, x>> \notin R
    <2> HIDE DEF T, R
    <2>1. IsWellFoundedOn(R, FiniteSubsetsOf(Nat))
      BY FS_StrictSubsetOrderingWellFounded DEF R
    <2> QED BY <1>1, <2>1, WFMin
  <1>3. PICK m \in S : x = 0..m
    OBVIOUS
  <1>4. ASSUME NEW n \in S, ~(m <= n)
        PROVE  FALSE
    <2>1. 0..n \subseteq 0..m /\ 0..n # 0..m
      BY <1>4
    <2>2. <<0..n, 0..m>> \in R
      BY <2>1 DEF StrictSubsetOrdering
    <2> QED BY <1>2, <1>3, <2>2
  <1> QED BY <1>4

\* Induction: a set that holds 0 and with a number the next one holds all.
LEMMA Induction ==
  ASSUME NEW S, 0 \in S, \A n \in Nat : n \in S => n + 1 \in S
  PROVE  \A n \in Nat : n \in S
  <1> SUFFICES ASSUME Nat \ S # {}
               PROVE  FALSE
    OBVIOUS
  <1>1. PICK m \in Nat \ S : \A n \in Nat \ S : m <= n
    BY LeastNatural
  <1>2. m - 1 \in Nat /\ m - 1 \in S
    BY <1>1
  <1>3. (m - 1) + 1 \in S
    BY <1>2
  <1> QED BY <1>1, <1>3

\* The same up to a bound.
Inductive(S, a, b) ==
  /\ a \in Int /\ b \in Int /\ a \in S
  /\ \A n \in a..b : n < b /\ n \in S => n + 1 \in S

LEMMA InductionTo ==
  ASSUME NEW S, NEW a, NEW b, Inductive(S, a, b)
  PROVE  \A n \in a..b : n \in S
  <1> USE DEF Inductive
  <1> DEFINE R == {n \in Nat : a + n <= b => a + n \in S}
  <1>1. 0 \in R
    OBVIOUS
  <1>2. ASSUME NEW n \in Nat, n \in R
        PROVE  n + 1 \in R
    <2>1. a + (n + 1) = (a + n) + 1
      OBVIOUS
    <2>2. CASE a + (n + 1) <= b
      <3>1. a + n \in a..b /\ a + n < b /\ a + n \in S
        BY <1>2, <2>2
      <3>2. (a + n) + 1 \in S
        BY <3>1
      <3> QED BY <2>1, <3>2
    <2> QED BY <2>2
  <1>3. \A n \in Nat : n \in R
    <2> HIDE DEF R
    <2> QED BY <1>1, <1>2, Induction
  <1>4. ASSUME NEW n \in a..b
        PROVE  n \in S
    <2>1. n - a \in Nat /\ a + (n - a) = n /\ n <= b
      OBVIOUS
    <2>2. n - a \in R
      BY <1>3, <2>1
    <2> QED BY <2>1, <2>2
  <1> QED BY <1>4

\* What G makes of a function f on D for d depends only on the values of f for
\* arguments of a smaller measure, and measures are bounded.
Recursive(D, X, mu, N, G) ==
  /\ X # {} /\ N \in Nat
  /\ mu \in [D -> Nat] /\ \A d \in D : mu[d] <= N
  /\ G \in [D \X [D -> X] -> X]
  /\ \A d \in D : \A f, g \in [D -> X] :
       (\A e \in D : mu[e] < mu[d] => f[e] = g[e]) => G[<<d, f>>] = G[<<d, g>>]

\* Then there is a function that G defines from its own values.
LEMMA RecursiveFunction ==
  ASSUME NEW D, NEW X, NEW mu, NEW N, NEW G, Recursive(D, X, mu, N, G)
  PROVE  \E f \in [D -> X] : \A d \in D : f[d] = G[<<d, f>>]
  <1> USE DEF Recursive
  <1> DEFINE S == {n \in Nat : \E f \in [D -> X] :
                     \A d \in D : mu[d] < n => f[d] = G[<<d, f>>]}
  <1>1. 0 \in S
    <2>1. PICK x \in X : TRUE
      OBVIOUS
    <2>2. [d \in D |-> x] \in [D -> X]
      OBVIOUS
    <2>3. \A d \in D : ~(mu[d] < 0)
      OBVIOUS
    <2> QED BY <2>2, <2>3
  <1>2. ASSUME NEW n \in Nat, n \in S
        PROVE  n + 1 \in S
    <2>1. PICK f \in [D -> X] : \A d \in D : mu[d] < n => f[d] = G[<<d, f>>]
      BY <1>2
    <2>2. PICK g \in [D -> X] : \A d \in D : g[d] = G[<<d, f>>]
      <3>1. [d \in D |-> G[<<d, f>>]] \in [D -> X]
        OBVIOUS
      <3> QED BY <3>1
    <2>3. ASSUME NEW d \in D, mu[d] < n + 1
          PROVE  g[d] = G[<<d, g>>]
      <3>1. ASSUME NEW e \in D, mu[e] < mu[d]
            PROVE  f[e] = g[e]
        <4>1. mu[e] \in Nat /\ mu[d] \in Nat
          OBVIOUS
        <4>2. mu[e] < n
          BY <2>3, <3>1, <4>1
        <4> QED BY <2>1, <2>2, <4>2
      <3>2. G[<<d, f>>] = G[<<d, g>>]
        BY <3>1
      <3> QED BY <2>2, <3>2
    <2> QED BY <2>3
  <1>3. N + 1 \in S
    <2> HIDE DEF S
    <2> QED BY <1>1, <1>2, Induction
  <1>4. PICK f \in [D -> X] : \A d \in D : mu[d] < N + 1 => f[d] = G[<<d, f>>]
    BY <1>3
  <1>5. \A d \in D : mu[d] < N + 1
    OBVIOUS
  <1> QED BY <1>4, <1>5

\* The case of a loop: a first value, and each later one from the one before.
Loop(n, X, a, step) == n \in Nat /\ a \in X /\ step \in [X \X (1..n) -> X]

LoopResult(n, X, a, step, f) ==
  /\ f \in [0..n -> X] /\ f[0] = a
  /\ \A i \in 1..n : f[i] = step[<<f[i - 1], i>>]

LEMMA LoopFunction ==
  ASSUME NEW n, NEW X, NEW a, NEW step, Loop(n, X, a, step)
  PROVE  \E f : LoopResult(n, X, a, step, f)
  <1> USE DEF Loop
  <1> DEFINE D  == 0..n
             mu == [d \in D |-> d]
             G  == [p \in D \X [D -> X] |-> IF p[1] = 0 THEN a ELSE step[<<p[2][p[1] - 1], p[1]>>]]
  <1>1. mu \in [D -> Nat] /\ \A d \in D : mu[d] <= n
    OBVIOUS
  <1>2. \A d \in D : d # 0 => d \in 1..n /\ d - 1 \in D
    OBVIOUS
  <1>3. ASSUME NEW d \in D, NEW f \in [D -> X]
        PROVE  /\ G[<<d, f>>] = IF d = 0 THEN a ELSE step[<<f[d - 1], d>>]
               /\ G[<<d, f>>] \in X
    <2>1. <<d, f>> \in D \X [D -> X]
      OBVIOUS
    <2>2. G[<<d, f>>] = IF d = 0 THEN a ELSE step[<<f[d - 1], d>>]
      <3> HIDE DEF D
      <3> QED BY <2>1
    <2>3. d # 0 => step[<<f[d - 1], d>>] \in X
      <3>1. SUFFICES ASSUME d # 0
                     PROVE  step[<<f[d - 1], d>>] \in X
        OBVIOUS
      <3>2. f[d - 1] \in X /\ d \in 1..n
        BY <1>2, <3>1
      <3> QED BY <3>2
    <2> QED BY <2>2, <2>3
  <1>4. G \in [D \X [D -> X] -> X]
    <2>1. \A p \in D \X [D -> X] : p[1] \in D /\ p[2] \in [D -> X] /\ p = <<p[1], p[2]>>
      OBVIOUS
    <2>2. \A p \in D \X [D -> X] : G[p] \in X
      <3> HIDE DEF G, D
      <3> QED BY <1>3, <2>1
    <2>3. G = [p \in D \X [D -> X] |-> G[p]]
      OBVIOUS
    <2> HIDE DEF G, D
    <2> QED BY <2>2, <2>3
  <1>5. ASSUME NEW d \in D, NEW f \in [D -> X], NEW g \in [D -> X],
               \A e \in D : mu[e] < mu[d] => f[e] = g[e]
        PROVE  G[<<d, f>>] = G[<<d, g>>]
    <2>1. d # 0 => f[d - 1] = g[d - 1]
      <3>1. d # 0 => d - 1 \in D /\ mu[d - 1] < mu[d]
        BY <1>2
      <3> QED BY <1>5, <3>1
    <2>2. /\ G[<<d, f>>] = IF d = 0 THEN a ELSE step[<<f[d - 1], d>>]
          /\ G[<<d, g>>] = IF d = 0 THEN a ELSE step[<<g[d - 1], d>>]
      BY <1>3, Zenon
    <2> HIDE DEF G
    <2>3. CASE d = 0
      BY <2>2, <2>3, Zenon
    <2>4. CASE d # 0
      BY <2>1, <2>2, <2>4, Zenon
    <2> QED BY <2>3, <2>4
  <1>6. PICK f \in [D -> X] : \A d \in D : f[d] = G[<<d, f>>]
    <2>1. X # {} /\ n \in Nat
      OBVIOUS
    <2> HIDE DEF D, mu, G
    <2>2. Recursive(D, X, mu, n, G)
      BY <1>1, <1>4, <1>5, <2>1 DEF Recursive
    <2> QED BY <2>2, RecursiveFunction
  <1>7. f[0] = a /\ \A i \in 1..n : f[i] = step[<<f[i - 1], i>>]
    <2>1. 0 \in D /\ \A i \in 1..n : i \in D /\ i # 0
      OBVIOUS
    <2> HIDE DEF D, G
    <2> QED BY <1>3, <1>6, <2>1
  <1> QED BY <1>7 DEF LoopResult

\* There is only one such function.
LEMMA LoopsAgree ==
  ASSUME NEW n \in Nat, NEW s, NEW t, t[0] = s[0],
         \A i \in 1..n : t[i - 1] = s[i - 1] => t[i] = s[i]
  PROVE  \A i \in 0..n : t[i] = s[i]
  <1> DEFINE S == {i \in 0..n : t[i] = s[i]}
  <1>1. ASSUME NEW i \in 0..n, i < n, i \in S
        PROVE  i + 1 \in S
    <2>1. i + 1 \in 0..n /\ i + 1 \in 1..n /\ (i + 1) - 1 = i
      BY <1>1
    <2>2. t[(i + 1) - 1] = s[(i + 1) - 1]
      BY <1>1, <2>1
    <2>3. t[i + 1] = s[i + 1]
      BY <2>1, <2>2
    <2> QED BY <2>1, <2>3
  <1>2. Inductive(S, 0, n)
    BY <1>1 DEF Inductive
  <1>3. \A i \in 0..n : i \in S
    <2> HIDE DEF S
    <2> QED BY <1>2, InductionTo
  <1> QED BY <1>3

-------------------------------------------------------------------------------

\* The same without a measure: what G makes of a function f for d depends only on
\* the values of f below d, and in no set has every member another one below it.
Determined(D, X, below, G) ==
  /\ X # {} /\ below \in [D -> SUBSET D]
  /\ \A S \in SUBSET D : S # {} => \E d \in S : below[d] \cap S = {}
  /\ G \in [D \X [D -> X] -> X]
  /\ \A d \in D : \A f, g \in [D -> X] :
       (\A e \in below[d] : f[e] = g[e]) => G[<<d, f>>] = G[<<d, g>>]

\* f is what G makes it on C, and nothing that is below C is missing in it.
Solves(D, below, G, f, C) ==
  /\ C \in SUBSET D /\ \A d \in C : below[d] \subseteq C
  /\ \A d \in C : f[d] = G[<<d, f>>]

LEMMA SolutionsAgree ==
  ASSUME NEW D, NEW X, NEW below, NEW G, Determined(D, X, below, G),
         NEW f \in [D -> X], NEW g \in [D -> X], NEW C, NEW E,
         Solves(D, below, G, f, C), Solves(D, below, G, g, E)
  PROVE  \A d \in C \cap E : f[d] = g[d]
  <1> DEFINE S == {d \in C \cap E : f[d] # g[d]}
  <1> SUFFICES ASSUME S # {}
               PROVE  FALSE
    OBVIOUS
  <1>1. S \in SUBSET D
    BY DEF Solves
  <1>2. PICK d \in S : below[d] \cap S = {}
    <2> HIDE DEF S
    <2> QED BY <1>1 DEF Determined
  <1>3. \A e \in below[d] : f[e] = g[e]
    BY <1>2 DEF Solves
  <1>4. d \in D /\ d \in C /\ d \in E /\ f[d] # g[d]
    BY <1>1, <1>2
  <1>5. G[<<d, f>>] = G[<<d, g>>]
    <2>1. \A h, k \in [D -> X] : (\A e \in below[d] : h[e] = k[e]) => G[<<d, h>>] = G[<<d, k>>]
      BY <1>4 DEF Determined
    <2> QED BY <1>3, <2>1, Zenon
  <1> QED BY <1>4, <1>5 DEF Solves

LEMMA WellFoundedFunction ==
  ASSUME NEW D, NEW X, NEW below, NEW G, Determined(D, X, below, G)
  PROVE  \E f \in [D -> X] : \A d \in D : f[d] = G[<<d, f>>]
  <1> DEFINE Solved(f, C) == Solves(D, below, G, f, C)
             Parts == {C \in SUBSET D : \E f \in [D -> X] : Solved(f, C)}
             U == UNION Parts
  <1>0. ASSUME NEW d \in D, NEW f \in [D -> X], NEW g \in [D -> X],
               \A e \in below[d] : f[e] = g[e]
        PROVE  G[<<d, f>>] = G[<<d, g>>]
    <2>1. \A h, k \in [D -> X] : (\A e \in below[d] : h[e] = k[e]) => G[<<d, h>>] = G[<<d, k>>]
      BY Zenon DEF Determined
    <2> QED BY <1>0, <2>1, Zenon
  <1>1. PICK h \in [D -> X] :
          \A C \in Parts, f \in [D -> X] : Solved(f, C) => \A d \in C : h[d] = f[d]
    <2> DEFINE Value(d, v) ==
                 \A C \in Parts, f \in [D -> X] : d \in C /\ Solved(f, C) => v = f[d]
    <2>1. ASSUME NEW d \in D
          PROVE  \E v \in X : Value(d, v)
      <3>1. CASE \E C \in Parts : d \in C
        <4>1. PICK C \in Parts : d \in C
          BY <3>1
        <4>2. PICK f \in [D -> X] : Solved(f, C)
          BY <4>1
        <4>3. f[d] \in X
          OBVIOUS
        <4>4. ASSUME NEW E \in Parts, NEW g \in [D -> X], d \in E, Solved(g, E)
              PROVE  f[d] = g[d]
          BY <4>1, <4>2, <4>4, SolutionsAgree
        <4> HIDE DEF Parts, Solved
        <4> QED BY <4>3, <4>4
      <3>2. CASE ~\E C \in Parts : d \in C
        <4>1. PICK v \in X : TRUE
          BY DEF Determined
        <4> HIDE DEF Parts, Solved
        <4> QED BY <3>2, <4>1
      <3> QED BY <3>1, <3>2
    <2> DEFINE h == [d \in D |-> CHOOSE v \in X : Value(d, v)]
    <2> HIDE DEF Value
    <2>2. h \in [D -> X] /\ \A d \in D : Value(d, h[d])
      BY <2>1
    <2>3. ASSUME NEW C \in Parts, NEW f \in [D -> X], Solved(f, C), NEW d \in C
          PROVE  h[d] = f[d]
      <3>1. d \in D
        OBVIOUS
      <3>2. Value(d, h[d])
        BY <2>2, <3>1
      <3> HIDE DEF Parts, Solved, h
      <3> QED BY <2>3, <3>2 DEF Value
    <2> HIDE DEF h, Parts, Solved
    <2> QED BY <2>2, <2>3
  <1>2. U \in SUBSET D
    OBVIOUS
  <1>3. ASSUME NEW d \in U
        PROVE  below[d] \subseteq U /\ h[d] = G[<<d, h>>]
    <2>1. PICK C \in Parts : d \in C
      OBVIOUS
    <2>2. PICK f \in [D -> X] : Solved(f, C)
      BY <2>1
    <2>3. /\ C \in SUBSET D /\ below[d] \subseteq C /\ f[d] = G[<<d, f>>]
      BY <2>1, <2>2 DEF Solves
    <2>4. \A e \in C : h[e] = f[e]
      BY <1>1, <2>1, <2>2
    <2>5. d \in D /\ \A e \in below[d] : f[e] = h[e]
      BY <1>2, <2>3, <2>4
    <2>6. G[<<d, f>>] = G[<<d, h>>]
      BY <1>0, <2>5
    <2> QED BY <2>1, <2>3, <2>4, <2>6
  <1> HIDE DEF U
  <1>4. ASSUME NEW d \in D \ U, below[d] \cap (D \ U) = {}
        PROVE  FALSE
    <2> DEFINE V == U \cup {d}
               k == [h EXCEPT ![d] = G[<<d, h>>]]
    <2>1. <<d, h>> \in D \X [D -> X]
      BY <1>4
    <2>2. G[<<d, h>>] \in X
      BY <2>1 DEF Determined
    <2>3. k \in [D -> X] /\ k[d] = G[<<d, h>>] /\ \A e \in U : k[e] = h[e]
      BY <1>2, <1>4, <2>2
    <2>4. below[d] \subseteq U
      BY <1>4 DEF Determined
    <2> HIDE DEF k
    <2>5. ASSUME NEW e \in V
          PROVE  e \in D /\ below[e] \subseteq U /\ k[e] = G[<<e, k>>]
      <3>1. e \in D /\ below[e] \subseteq U
        BY <1>2, <1>3, <1>4, <2>4
      <3>2. \A c \in below[e] : h[c] = k[c]
        BY <2>3, <3>1
      <3>3. G[<<e, h>>] = G[<<e, k>>]
        BY <1>0, <2>3, <3>1, <3>2
      <3>4. k[e] = G[<<e, h>>]
        BY <1>3, <2>3
      <3> QED BY <3>1, <3>3, <3>4
    <2>6. Solved(k, V) /\ V \in SUBSET D
      BY <1>2, <1>4, <2>5 DEF Solves
    <2>7. V \in Parts
      BY <2>3, <2>6
    <2>8. d \in V
      OBVIOUS
    <2> HIDE DEF V, Parts
    <2> QED BY <1>4, <2>7, <2>8 DEF U
  <1>5. D \ U = {}
    <2>1. D \ U \in SUBSET D
      OBVIOUS
    <2> QED BY <1>4, <2>1 DEF Determined
  <1> QED BY <1>3, <1>5

-------------------------------------------------------------------------------
(* Division. *)

LEMMA Division ==
  ASSUME NEW n \in Int, NEW M \in Nat \ {0}
  PROVE  n % M \in 0..(M - 1) /\ n \div M \in Int /\ n = M * (n \div M) + (n % M)
  <1>1. n % M \in 0..(M - 1)
    OBVIOUS
  <1>2. n \div M \in Int
    OBVIOUS
  <1>3. n = M * (n \div M) + (n % M)
    OBVIOUS
  <1> QED BY <1>1, <1>2, <1>3

LEMMA Remainder ==
  ASSUME NEW M \in Nat \ {0}, NEW k \in Int, NEW r \in 0..(M - 1)
  PROVE  (M * k + r) % M = r
  OBVIOUS
===============================================================================
