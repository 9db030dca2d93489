---------------------------- MODULE BookingWords_proofs -------------------------
(***************************************************************************)
(* What convert makes of a word, and what the sessions of a write server   *)
(* book, for any lines of its clients and any widths that satisfy          *)
(* WidthAssumption.                                                        *)
(***************************************************************************)
EXTENDS BookingWords, Recursion, SequenceTheorems

Digits == 0..9
Ints == (-MaxInt - 1)..MaxInt

\* m is n, or whole ranges of ints apart from it.
Denotes(n, m) == \E k \in Int : n = (2 * MaxInt + 2) * k + m

-------------------------------------------------------------------------------
(* The int of C. *)

\* Whatever an int is given, it holds an int, whole ranges of ints apart.
LEMMA WrapIsInt ==
  ASSUME NEW n \in Int
  PROVE  Wrap(n) \in Ints /\ \E k \in Int : n = (2 * MaxInt + 2) * k + Wrap(n)
  <1> DEFINE M == 2 * MaxInt + 2
             a == n + MaxInt + 1
  <1>1. MaxInt \in Nat /\ M \in Nat \ {0} /\ a \in Int
    BY WidthAssumption
  <1>3. Wrap(n) = (a % M) - (MaxInt + 1)
    BY DEF Wrap
  <1>4. a % M \in 0..(M - 1) /\ a \div M \in Int /\ a = M * (a \div M) + (a % M)
    <2> HIDE DEF M, a
    <2> QED BY <1>1, Division
  <1>5. Wrap(n) \in Ints
    BY <1>1, <1>3, <1>4 DEF Ints
  <1>6. n = M * (a \div M) + Wrap(n)
    <2> DEFINE b == a \div M
               c == a % M
               d == M * b
    <2>1. a = d + c /\ b \in Int /\ c \in Int /\ d \in Int
      <3> HIDE DEF M, a
      <3>1. M * b \in Int
        BY <1>1, <1>4
      <3> QED BY <1>4, <3>1
    <2> HIDE DEF b, c, d
    <2> QED BY <1>1, <1>3, <2>1 DEF c
  <1> QED BY <1>4, <1>5, <1>6

\* Numbers that are whole ranges of ints apart are the same int.
LEMMA WrapOf ==
  ASSUME NEW n \in Int, NEW k \in Int, NEW m \in Ints, n = (2 * MaxInt + 2) * k + m
  PROVE  Wrap(n) = m
  <1> DEFINE M == 2 * MaxInt + 2
  <1>1. MaxInt \in Nat /\ M \in Nat \ {0} /\ m \in (-MaxInt - 1)..MaxInt
    BY WidthAssumption DEF Ints
  <1> DEFINE a == n + MaxInt + 1
             r == m + MaxInt + 1
  <1>2. a \in Int /\ r \in 0..(M - 1) /\ a = M * k + r
    BY <1>1
  <1>3. Wrap(n) = (a % M) - (MaxInt + 1)
    BY DEF Wrap
  <1> HIDE DEF M, a
  <1>4. a % M = r
    <2> HIDE DEF r
    <2> QED BY <1>1, <1>2, Remainder
  <1> QED BY <1>1, <1>3, <1>4

\* An int is itself.
LEMMA WrapSame ==
  ASSUME NEW n \in Ints
  PROVE  Wrap(n) = n
  <1>1. n \in Int /\ n = (2 * MaxInt + 2) * 0 + n
    BY WidthAssumption DEF Ints
  <1> QED BY <1>1, WrapOf

-------------------------------------------------------------------------------
(* The powers of 10. *)

LEMMA TensAre ==
  /\ Tens \in [Nat -> Nat] /\ Tens[0] = 1
  /\ \A n \in Nat : n # 0 => Tens[n] = 10 * Tens[n - 1]
  <1> DEFINE below == [n \in Nat |-> 0..(n - 1)]
             G == [p \in Nat \X [Nat -> Nat] |-> IF p[1] = 0 THEN 1 ELSE 10 * p[2][p[1] - 1]]
             Def(f) == f = [n \in Nat |-> IF n = 0 THEN 1 ELSE 10 * f[n - 1]]
  <1>1. \A n \in Nat : n # 0 => n - 1 \in Nat
    OBVIOUS
  <1>2. ASSUME NEW n \in Nat, NEW f \in [Nat -> Nat]
        PROVE  /\ G[<<n, f>>] = IF n = 0 THEN 1 ELSE 10 * f[n - 1]
               /\ G[<<n, f>>] \in Nat
    <2>1. n # 0 => f[n - 1] \in Nat
      BY <1>1
    <2>2. <<n, f>> \in Nat \X [Nat -> Nat]
      OBVIOUS
    <2>3. G[<<n, f>>] = IF n = 0 THEN 1 ELSE 10 * f[n - 1]
      BY <2>2
    <2> HIDE DEF G
    <2>4. \A x \in Nat : 10 * x \in Nat
      OBVIOUS
    <2> QED BY <2>1, <2>3, <2>4
  <1>3. Determined(Nat, Nat, below, G)
    <2>1. G \in [Nat \X [Nat -> Nat] -> Nat]
      <3>1. \A p \in Nat \X [Nat -> Nat] :
              p[1] \in Nat /\ p[2] \in [Nat -> Nat] /\ p = <<p[1], p[2]>>
        OBVIOUS
      <3>2. \A p \in Nat \X [Nat -> Nat] : G[p] \in Nat
        <4> HIDE DEF G
        <4> QED BY <1>2, <3>1
      <3>3. G = [p \in Nat \X [Nat -> Nat] |-> G[p]]
        OBVIOUS
      <3> HIDE DEF G
      <3> QED BY <3>2, <3>3
    <2>2. ASSUME NEW S \in SUBSET Nat, S # {}
          PROVE  \E n \in S : below[n] \cap S = {}
      <3>1. PICK n \in S : \A m \in S : n <= m
        BY <2>2, LeastNatural
      <3>2. below[n] \cap S = {}
        BY <3>1
      <3> QED BY <3>2
    <2>3. ASSUME NEW n \in Nat, NEW f \in [Nat -> Nat], NEW g \in [Nat -> Nat],
                 \A m \in below[n] : f[m] = g[m]
          PROVE  G[<<n, f>>] = G[<<n, g>>]
      <3>1. n # 0 => f[n - 1] = g[n - 1]
        <4>1. n # 0 => n - 1 \in below[n]
          OBVIOUS
        <4> HIDE DEF below
        <4> QED BY <2>3, <4>1
      <3>2. /\ G[<<n, f>>] = IF n = 0 THEN 1 ELSE 10 * f[n - 1]
            /\ G[<<n, g>>] = IF n = 0 THEN 1 ELSE 10 * g[n - 1]
        BY <1>2, Zenon
      <3> HIDE DEF G
      <3> QED BY <3>1, <3>2
    <2>4. below \in [Nat -> SUBSET Nat]
      OBVIOUS
    <2> HIDE DEF below, G
    <2> QED BY <2>1, <2>2, <2>3, <2>4 DEF Determined
  <1>4. PICK f \in [Nat -> Nat] : \A n \in Nat : f[n] = G[<<n, f>>]
    <2> HIDE DEF below, G
    <2> QED BY <1>3, WellFoundedFunction
  <1>5. \A n \in Nat : f[n] = IF n = 0 THEN 1 ELSE 10 * f[n - 1]
    <2> HIDE DEF G
    <2> QED BY <1>2, <1>4
  <1>6. Def(f)
    BY <1>5
  <1>7. Def(Tens)
    <2>1. Def(CHOOSE t : Def(t))
      BY <1>6
    <2>2. Tens = CHOOSE t : Def(t)
      BY Zenon DEF Tens
    <2> QED BY <2>1, <2>2
  <1>8. Tens[0] = 1 /\ \A n \in Nat : n # 0 => Tens[n] = 10 * Tens[n - 1]
    <2> DEFINE T == Tens
    <2>1. T = [n \in Nat |-> IF n = 0 THEN 1 ELSE 10 * T[n - 1]]
      BY <1>7
    <2> HIDE DEF T
    <2>2. T[0] = 1 /\ \A n \in Nat : n # 0 => T[n] = 10 * T[n - 1]
      BY <2>1
    <2> QED BY <2>2 DEF T
  <1>9. \A n \in Nat : Tens[n] \in Nat
    <2> DEFINE S == {n \in Nat : Tens[n] \in Nat}
    <2>1. 0 \in S
      BY <1>8
    <2>2. ASSUME NEW n \in Nat, n \in S
          PROVE  n + 1 \in S
      <3>1. n + 1 \in Nat /\ n + 1 # 0 /\ (n + 1) - 1 = n
        OBVIOUS
      <3>2. Tens[n + 1] = 10 * Tens[n] /\ Tens[n] \in Nat
        BY <1>8, <2>2, <3>1
      <3> QED BY <3>1, <3>2
    <2> HIDE DEF S
    <2>3. \A n \in Nat : n \in S
      BY <2>1, <2>2, Induction
    <2> QED BY <2>3 DEF S
  <1>10. DOMAIN Tens = Nat /\ Tens = [n \in DOMAIN Tens |-> Tens[n]]
    BY <1>7, Zenon
  <1> QED BY <1>8, <1>9, <1>10

\* They grow.
LEMMA TensGrow ==
  ASSUME NEW m \in Nat, NEW n \in Nat, m <= n
  PROVE  Tens[m] \in Nat /\ Tens[n] \in Nat /\ Tens[m] >= 1 /\ Tens[m] <= Tens[n]
  <1> DEFINE S == {i \in 0..n : Tens[i] >= 1}
             R == {i \in m..n : Tens[m] <= Tens[i]}
  <1>1. \A i \in 0..n : i < n => /\ i + 1 \in Nat /\ i \in Nat /\ Tens[i] \in Nat
                                 /\ Tens[i + 1] = 10 * Tens[i] /\ Tens[i] <= Tens[i + 1]
    <2>1. SUFFICES ASSUME NEW i \in 0..n
                   PROVE  /\ i + 1 \in Nat /\ i \in Nat /\ Tens[i] \in Nat
                          /\ Tens[i + 1] = 10 * Tens[i] /\ Tens[i] <= Tens[i + 1]
      OBVIOUS
    <2>2. i \in Nat /\ i + 1 \in Nat /\ i + 1 # 0 /\ (i + 1) - 1 = i
      OBVIOUS
    <2>3. Tens[i] \in Nat /\ Tens[i + 1] = 10 * Tens[i]
      BY <2>2, TensAre
    <2> QED BY <2>2, <2>3
  <1>2. Inductive(S, 0, n)
    <2>1. 0 \in S
      BY TensAre
    <2>2. ASSUME NEW i \in 0..n, i < n, i \in S
          PROVE  i + 1 \in S
      <3>1. i + 1 \in 0..n
        BY <2>2
      <3> QED BY <1>1, <2>2, <3>1
    <2> HIDE DEF S
    <2> QED BY <2>1, <2>2 DEF Inductive
  <1>3. Inductive(R, m, n)
    <2>1. m \in R
      BY TensAre
    <2>2. ASSUME NEW i \in m..n, i < n, i \in R
          PROVE  i + 1 \in R
      <3>1. i + 1 \in m..n /\ i \in 0..n
        BY <2>2
      <3>2. Tens[m] \in Nat /\ Tens[i] \in Nat /\ Tens[i + 1] \in Nat
        BY <1>1, <2>2, <3>1, TensAre
      <3> QED BY <1>1, <2>2, <3>1, <3>2
    <2> HIDE DEF R
    <2> QED BY <2>1, <2>2 DEF Inductive
  <1>4. \A i \in 0..n : i \in S
    <2> HIDE DEF S
    <2> QED BY <1>2, InductionTo
  <1>5. \A i \in m..n : i \in R
    <2> HIDE DEF R
    <2> QED BY <1>3, InductionTo
  <1>6. m \in 0..n /\ n \in m..n
    OBVIOUS
  <1> QED BY <1>4, <1>5, <1>6, TensAre

-------------------------------------------------------------------------------
(* What convert makes of a word. *)

\* The loop of convert, digit by digit.
LEMMA ReadIs ==
  ASSUME NEW s \in Seq(Digits)
  PROVE  \E r : /\ r \in [0..Len(s) -> Ints] /\ r[0] = 0 /\ Read(s) = r[Len(s)]
                /\ \A k \in 1..Len(s) : r[k] = Wrap(10 * r[k - 1] + s[k])
  <1> DEFINE N == Len(s)
             step == [p \in Ints \X (1..N) |-> Wrap(10 * p[1] + s[p[2]])]
  <1>1. N \in Nat /\ \A k \in 1..N : s[k] \in Digits
    OBVIOUS
  <1>2. Ints \subseteq Int /\ 0 \in Ints /\ Digits \subseteq Int
    BY WidthAssumption DEF Ints, Digits
  <1> HIDE DEF N
  <1>3. Loop(N, Ints, 0, step)
    <2>1. ASSUME NEW p \in Ints \X (1..N)
          PROVE  Wrap(10 * p[1] + s[p[2]]) \in Ints
      <3>1. p[1] \in Int /\ s[p[2]] \in Int
        BY <1>1, <1>2
      <3>2. \A x, y \in Int : 10 * x + y \in Int
        OBVIOUS
      <3> QED BY <3>1, <3>2, WrapIsInt
    <2>2. step \in [Ints \X (1..N) -> Ints]
      BY <2>1
    <2> HIDE DEF step
    <2> QED BY <1>1, <1>2, <2>2 DEF Loop
  <1>4. PICK f : LoopResult(N, Ints, 0, step, f)
    <2> HIDE DEF step
    <2> QED BY <1>3, LoopFunction
  <1>5. /\ f \in [0..N -> Ints] /\ f[0] = 0
        /\ \A k \in 1..N : f[k] = Wrap(10 * f[k - 1] + s[k])
    <2>1. f \in [0..N -> Ints] /\ f[0] = 0 /\ \A k \in 1..N : f[k] = step[<<f[k - 1], k>>]
      BY <1>4 DEF LoopResult
    <2>2. \A k \in 1..N : k - 1 \in 0..N
      BY <1>1
    <2>3. \A k \in 1..N : <<f[k - 1], k>> \in Ints \X (1..N)
      BY <2>1, <2>2
    <2> QED BY <2>1, <2>3
  <1> DEFINE Def(g) == g = [k \in 0..Len(s) |-> IF k = 0 THEN 0 ELSE Wrap(10 * g[k - 1] + s[k])]
  <1>6. Def(f)
    <2>1. \A k \in 0..N : k # 0 => k \in 1..N
      BY <1>1
    <2> QED BY <1>5, <2>1 DEF N
  <1>7. PICK g : Def(g) /\ Read(s) = g[N]
    <2>1. Def(CHOOSE g : Def(g))
      BY <1>6
    <2>2. Read(s) = (CHOOSE g : Def(g))[N]
      BY Zenon DEF Read, N
    <2> QED BY <2>1, <2>2
  <1>8. g[0] = 0 /\ \A k \in 1..N : g[k] = Wrap(10 * g[k - 1] + s[k])
    BY <1>1, <1>7 DEF N
  <1>9. g[0] = f[0] /\ \A k \in 1..N : g[k - 1] = f[k - 1] => g[k] = f[k]
    BY <1>5, <1>8
  <1>10. g[N] = f[N]
    <2>1. \A k \in 0..N : g[k] = f[k]
      BY <1>1, <1>9, LoopsAgree, Zenon
    <2> QED BY <1>1, <2>1
  <1>11. N = Len(s)
    BY DEF N
  <1> QED BY <1>5, <1>7, <1>10, <1>11, Zenon

\* The number that the digits stand for, digit by digit.
LEMMA NumberIs ==
  ASSUME NEW s \in Seq(Digits)
  PROVE  \E v : /\ v \in [0..Len(s) -> Nat] /\ v[0] = 0 /\ Number(s) = v[Len(s)]
                /\ \A k \in 1..Len(s) : v[k] = v[k - 1] + s[k] * Tens[Len(s) - k]
  <1> DEFINE N == Len(s)
             step == [p \in Nat \X (1..N) |-> p[1] + s[p[2]] * Tens[N - p[2]]]
  <1>1. N \in Nat /\ \A k \in 1..N : s[k] \in Nat /\ N - k \in Nat
    BY DEF Digits
  <1> HIDE DEF N
  <1>2. \A k \in 1..N : s[k] * Tens[N - k] \in Nat
    <2>1. \A k \in 1..N : Tens[N - k] \in Nat
      BY <1>1, TensAre
    <2>2. \A x, y \in Nat : x * y \in Nat
      OBVIOUS
    <2> QED BY <1>1, <2>1, <2>2, Zenon
  <1>3. Loop(N, Nat, 0, step)
    <2>1. \A p \in Nat \X (1..N) : p[1] + s[p[2]] * Tens[N - p[2]] \in Nat
      BY <1>2
    <2>2. step \in [Nat \X (1..N) -> Nat]
      BY <2>1
    <2> HIDE DEF step
    <2> QED BY <1>1, <2>2 DEF Loop
  <1>4. PICK f : LoopResult(N, Nat, 0, step, f)
    <2> HIDE DEF step
    <2> QED BY <1>3, LoopFunction
  <1>5. /\ f \in [0..N -> Nat] /\ f[0] = 0
        /\ \A k \in 1..N : f[k] = f[k - 1] + s[k] * Tens[N - k]
    <2>1. f \in [0..N -> Nat] /\ f[0] = 0 /\ \A k \in 1..N : f[k] = step[<<f[k - 1], k>>]
      BY <1>4 DEF LoopResult
    <2>2. \A k \in 1..N : k - 1 \in 0..N
      BY <1>1
    <2>3. \A k \in 1..N : <<f[k - 1], k>> \in Nat \X (1..N)
      BY <2>1, <2>2
    <2> QED BY <2>1, <2>3
  <1> DEFINE Def(g) == g = [k \in 0..Len(s) |-> IF k = 0 THEN 0
                                               ELSE g[k - 1] + s[k] * Tens[Len(s) - k]]
  <1>6. Def(f)
    <2>1. \A k \in 0..N : k # 0 => k \in 1..N
      BY <1>1
    <2> QED BY <1>5, <2>1 DEF N
  <1>7. PICK g : Def(g) /\ Number(s) = g[N]
    <2>1. Def(CHOOSE g : Def(g))
      BY <1>6
    <2>2. Number(s) = (CHOOSE g : Def(g))[N]
      BY Zenon DEF Number, N
    <2> QED BY <2>1, <2>2
  <1>8. g[0] = 0 /\ \A k \in 1..N : g[k] = g[k - 1] + s[k] * Tens[N - k]
    BY <1>1, <1>7 DEF N
  <1>9. g[0] = f[0] /\ \A k \in 1..N : g[k - 1] = f[k - 1] => g[k] = f[k]
    BY <1>5, <1>8
  <1>10. g[N] = f[N]
    <2>1. \A k \in 0..N : g[k] = f[k]
      BY <1>1, <1>9, LoopsAgree, Zenon
    <2> QED BY <1>1, <2>1
  <1>11. N = Len(s)
    BY DEF N
  <1> QED BY <1>5, <1>7, <1>10, <1>11, Zenon

\* The loop has, whole ranges of ints apart, the number of the digits it has
\* seen; the sum has that number too, at its place.
LEMMA ReadDenotes ==
  ASSUME NEW s \in Seq(Digits)
  PROVE  /\ Number(s) \in Nat /\ Number(s) < Tens[Len(s)]
         /\ Read(s) \in Ints /\ Denotes(Number(s), Read(s))
  <1> DEFINE N == Len(s)
             M == 2 * MaxInt + 2
  <1>1. PICK r : /\ r \in [0..N -> Ints] /\ r[0] = 0 /\ Read(s) = r[N]
                 /\ \A k \in 1..N : r[k] = Wrap(10 * r[k - 1] + s[k])
    BY ReadIs
  <1>2. PICK v : /\ v \in [0..N -> Nat] /\ v[0] = 0 /\ Number(s) = v[N]
                 /\ \A k \in 1..N : v[k] = v[k - 1] + s[k] * Tens[N - k]
    BY NumberIs
  <1>3. N \in Nat /\ M \in Nat /\ \A k \in 1..N : s[k] \in Digits
    BY WidthAssumption
  <1>4. Ints \subseteq Int /\ 0 \in Ints
    BY WidthAssumption DEF Ints
  <1> HIDE DEF N
  <1> DEFINE Seen(k, h) == /\ v[k] = Tens[N - k] * h /\ h < Tens[k]
                           /\ \E q \in Int : h = M * q + r[k]
             S == {k \in 0..N : \E h \in Nat : Seen(k, h)}
  <1>5. 0 \in S
    <2>1. Tens[N - 0] * 0 = 0 /\ N - 0 = N
      BY <1>3, TensAre
    <2>2. 0 < Tens[0] /\ 0 = M * 0 + r[0]
      BY <1>1, <1>3, TensAre
    <2>3. 0 \in 0..N /\ v[0] = Tens[N - 0] * 0
      BY <1>2, <1>3, <2>1
    <2> HIDE DEF M
    <2> QED BY <2>2, <2>3
  <1>6. ASSUME NEW k \in 0..N, k < N, k \in S
        PROVE  k + 1 \in S
    <2>1. PICK h \in Nat : Seen(k, h)
      BY <1>6
    <2>2. PICK q \in Int : h = M * q + r[k]
      BY <2>1
    <2>3. /\ k + 1 \in 1..N /\ k + 1 \in 0..N /\ (k + 1) - 1 = k /\ k \in Nat
          /\ N - (k + 1) \in Nat /\ N - k \in Nat /\ (N - k) - 1 = N - (k + 1) /\ N - k # 0
      BY <1>3, <1>6
    <2> DEFINE c == s[k + 1]
               t == Tens[N - (k + 1)]
               d == 10 * h + c
               a == 10 * r[k] + c
    <2>4. c \in Nat /\ c <= 9 /\ t \in Nat /\ r[k] \in Int /\ a \in Int /\ d \in Nat
      <3>1. c \in Nat /\ c <= 9
        BY <1>3, <2>3 DEF Digits
      <3>2. t \in Nat
        BY <2>3, TensAre
      <3>3. r[k] \in Int
        BY <1>1, <1>4
      <3> HIDE DEF c, t
      <3> QED BY <3>1, <3>2, <3>3
    <2>5. Tens[N - k] = 10 * t
      BY <2>3, TensAre
    <2>6. v[k + 1] = (10 * t) * h + c * t
      BY <1>2, <2>1, <2>3, <2>5
    <2>7. v[k + 1] = t * d
      <3>1. \A x, y, z \in Nat : (10 * x) * y + z * x = x * (10 * y + z)
        OBVIOUS
      <3> HIDE DEF c, t
      <3> QED BY <2>4, <2>6, <3>1
    <2>8. d < Tens[k + 1]
      <3>1. Tens[k + 1] = 10 * Tens[k] /\ Tens[k] \in Nat /\ h < Tens[k]
        BY <2>1, <2>3, TensAre
      <3> HIDE DEF c
      <3> QED BY <2>4, <3>1
    <2>9. PICK j \in Int : a = M * j + r[k + 1]
      <3>1. r[k + 1] = Wrap(a)
        BY <1>1, <2>3
      <3> HIDE DEF a
      <3> QED BY <2>4, <3>1, WrapIsInt
    <2>10. d = M * (10 * q + j) + r[k + 1]
      <3> DEFINE u == M * q
                 w == M * j
      <3>1. u \in Int /\ w \in Int /\ M * (10 * q + j) = 10 * u + w
        <4> HIDE DEF M
        <4> QED BY <1>3
      <3>2. h = u + r[k] /\ a = w + r[k + 1] /\ r[k + 1] \in Int
        BY <1>1, <1>4, <2>2, <2>3, <2>9
      <3>3. r[k] \in Int
        BY <2>4
      <3> HIDE DEF u, w, M, c
      <3>4. d = 10 * (u + r[k]) + c /\ 10 * r[k] + c = w + r[k + 1]
        BY <3>2
      <3>5. 10 * (u + r[k]) + c = (10 * u + w) + r[k + 1]
        <4> DEFINE e == r[k]
                   f == r[k + 1]
        <4>1. e \in Int /\ f \in Int /\ 10 * e + c = w + f
          BY <3>2, <3>3, <3>4
        <4> HIDE DEF e, f
        <4>2. 10 * (u + e) + c = (10 * u + w) + f
          BY <2>4, <3>1, <4>1
        <4> QED BY <4>2 DEF e, f
      <3> HIDE DEF d
      <3> QED BY <3>1, <3>4, <3>5
    <2>11. Seen(k + 1, d)
      <3>1. 10 * q + j \in Int
        OBVIOUS
      <3> HIDE DEF d, t, M
      <3>2. v[k + 1] = Tens[N - (k + 1)] * d
        BY <2>7 DEF t
      <3> QED BY <2>8, <2>10, <3>1, <3>2
    <2> HIDE DEF Seen, d
    <2> QED BY <2>3, <2>4, <2>11
  <1>7. Inductive(S, 0, N)
    <2> HIDE DEF S
    <2> QED BY <1>3, <1>5, <1>6 DEF Inductive
  <1>8. N \in S
    <2>1. N \in 0..N
      BY <1>3
    <2> HIDE DEF S
    <2> QED BY <1>7, <2>1, InductionTo
  <1>9. PICK h \in Nat : Seen(N, h)
    BY <1>8
  <1>10. v[N] = h /\ h < Tens[N]
    <2>1. N - N = 0 /\ Tens[0] = 1
      BY <1>3, TensAre
    <2>2. v[N] = Tens[0] * h
      BY <1>9, <2>1
    <2> QED BY <1>9, <2>1, <2>2
  <1>11. r[N] \in Ints /\ \E q \in Int : h = M * q + r[N]
    BY <1>1, <1>3, <1>9
  <1>12. Len(s) = N
    BY DEF N
  <1> QED BY <1>1, <1>2, <1>9, <1>10, <1>11, <1>12 DEF Denotes

\* A word without its sign.
LEMMA UnsignedIs ==
  ASSUME NEW w \in Seq(Chars)
  PROVE  /\ Unsigned(w) \in Seq(Chars) /\ Len(Unsigned(w)) <= Len(w)
         /\ Len(w) \in Nat /\ Len(Unsigned(w)) \in Nat
         /\ IsNumber(w) => Unsigned(w) \in Seq(Digits)
  <1>1. Unsigned(w) \in Seq(Chars) /\ Len(Unsigned(w)) <= Len(w)
    BY DEF Unsigned, Signed
  <1>2. ASSUME NEW s \in Seq(Chars), IsDigits(s)
        PROVE  s \in Seq(Digits)
    <2>1. s \in [1..Len(s) -> Chars] /\ Len(s) \in Nat /\ DOMAIN s = 1..Len(s)
      OBVIOUS
    <2>2. \A k \in 1..Len(s) : s[k] \in Digits
      BY <1>2, <2>1 DEF IsDigits, Chars, Digits
    <2>3. s \in [1..Len(s) -> Digits]
      BY <2>1, <2>2
    <2> QED BY <2>1, <2>3
  <1>3. Len(w) \in Nat /\ Len(Unsigned(w)) \in Nat
    BY <1>1
  <1> QED BY <1>1, <1>2, <1>3 DEF IsNumber

\* convert gives what the word stands for, as much of it as an int holds; and
\* ERROR_NUM when it is no number.
LEMMA ConvertDenotes ==
  ASSUME NEW w \in Seq(Chars)
  PROVE  /\ IsNumber(w) => /\ Value(w) \in Int /\ convert(w) \in Ints
                           /\ Denotes(Value(w), convert(w))
         /\ ~IsNumber(w) => convert(w) = ERROR_NUM
  <1> DEFINE s == Unsigned(w)
             M == 2 * MaxInt + 2
  <1>1. ASSUME IsNumber(w)
        PROVE  /\ Value(w) \in Int /\ convert(w) \in Ints
               /\ Denotes(Value(w), convert(w))
    <2>1. /\ Number(s) \in Nat /\ Read(s) \in Ints
          /\ \E q \in Int : Number(s) = M * q + Read(s)
      BY <1>1, UnsignedIs, ReadDenotes DEF Denotes
    <2>2. CASE ~Signed(w)
      <3>1. Value(w) = Number(s) /\ convert(w) = Read(s)
        BY <1>1, <2>2 DEF Value, convert, IsNumber
      <3> HIDE DEF s
      <3> QED BY <2>1, <3>1 DEF Denotes
    <2>3. CASE Signed(w)
      <3>1. Value(w) = -Number(s) /\ convert(w) = Wrap(-Read(s))
        BY <1>1, <2>3 DEF Value, convert, IsNumber
      <3> HIDE DEF s
      <3>2. PICK q \in Int : Number(s) = M * q + Read(s)
        BY <2>1
      <3> DEFINE a == Read(s)
                 n == Number(s)
      <3>3. a \in Int /\ -a \in Int /\ n \in Int /\ M \in Int
        BY <2>1, WidthAssumption DEF Ints
      <3>4. Wrap(-a) \in Ints /\ \E k \in Int : -a = M * k + Wrap(-a)
        <4> HIDE DEF a
        <4> QED BY <3>3, WrapIsInt
      <3>5. PICK k \in Int : -a = M * k + Wrap(-a)
        BY <3>4
      <3> DEFINE b == Wrap(-a)
      <3>6. -n = M * (k - q) + b
        <4> DEFINE x == M * k
                   y == M * q
        <4>1. x \in Int /\ y \in Int /\ M * (k - q) = x - y /\ b \in Int
          <5>1. \A i, j, m \in Int : m * i \in Int /\ m * j \in Int /\ m * (i - j) = m * i - m * j
            OBVIOUS
          <5>2. b \in Int
            BY <3>4, WidthAssumption DEF Ints
          <5> HIDE DEF M, b
          <5> QED BY <3>3, <5>1, <5>2
        <4>2. n = y + a /\ -a = x + b
          BY <3>2, <3>5
        <4> HIDE DEF a, b, n, x, y, M
        <4> QED BY <3>3, <4>1, <4>2
      <3>7. k - q \in Int /\ -n \in Int
        BY <3>3
      <3> HIDE DEF b, M
      <3>8. \E i \in Int : -n = M * i + b
        BY <3>6, <3>7
      <3> QED BY <3>1, <3>4, <3>7, <3>8 DEF Denotes, b, M
    <2> QED BY <2>2, <2>3
  <1>2. ASSUME ~IsNumber(w)
        PROVE  convert(w) = ERROR_NUM
    BY <1>2 DEF convert, IsNumber
  <1> QED BY <1>1, <1>2

\* In a word that the stack has room for it is just that number.
LEMMA ShortExact ==
  ASSUME NEW w \in Seq(Chars), Len(w) < WordSize, IsNumber(w)
  PROVE  /\ convert(w) = Value(w) /\ Value(w) \in Int
         /\ Value(w) < Tens[WordSize - 1] /\ Value(w) > -Tens[WordSize - 1]
  <1> DEFINE s == Unsigned(w)
             T == Tens[WordSize - 1]
  <1>1. T \in Nat /\ T <= MaxInt /\ MaxInt \in Nat
    <2>1. WordSize - 1 \in Nat
      BY WidthAssumption
    <2>2. T \in Nat
      BY <2>1, TensAre
    <2> HIDE DEF T
    <2>3. 3 * T + MaxTotal <= MaxInt /\ MaxTotal \in Nat /\ MaxInt \in Nat
      BY WidthAssumption DEF T
    <2> QED BY <2>2, <2>3
  <1>2. Number(s) \in Nat /\ Number(s) < T
    <2>1. Len(s) \in Nat /\ s \in Seq(Digits) /\ Len(s) <= WordSize - 1 /\ WordSize - 1 \in Nat
      BY UnsignedIs, WidthAssumption
    <2>2. Tens[Len(s)] \in Nat /\ Tens[Len(s)] <= T
      <3> HIDE DEF s
      <3> QED BY <2>1, TensGrow
    <2>3. Number(s) \in Nat /\ Number(s) < Tens[Len(s)]
      <3> HIDE DEF s
      <3> QED BY <2>1, ReadDenotes
    <2> HIDE DEF s, T
    <2> QED BY <1>1, <2>2, <2>3
  <1>3. Value(w) \in Int /\ Value(w) < T /\ Value(w) > -T
    <2>1. Value(w) = Number(s) \/ Value(w) = -Number(s)
      BY DEF Value
    <2> HIDE DEF s, T
    <2> QED BY <1>1, <1>2, <2>1
  <1>4. Value(w) \in Ints
    <2> HIDE DEF T
    <2> QED BY <1>1, <1>3 DEF Ints
  <1>5. convert(w) = Value(w)
    <2>1. convert(w) \in Ints /\ Denotes(Value(w), convert(w))
      BY ConvertDenotes
    <2> DEFINE v == Value(w)
               c == convert(w)
    <2>2. v \in Int /\ v \in Ints /\ c \in Ints /\ \E k \in Int : v = (2 * MaxInt + 2) * k + c
      BY <1>3, <1>4, <2>1 DEF Denotes
    <2> HIDE DEF v, c
    <2>3. Wrap(v) = c
      BY <2>2, WrapOf
    <2>4. Wrap(v) = v
      BY <2>2, WrapSame
    <2> QED BY <2>3, <2>4 DEF v, c
  <1> QED BY <1>3, <1>5

\* ERROR_NUM is less than minus what a user may hold.
LEMMA ErrorIsLess == ERROR_NUM \in Int /\ ERROR_NUM + MaxTotal < 0 /\ MaxTotal \in Nat
  <1>1. WordSize - 3 \in Nat
    BY WidthAssumption
  <1>2. Tens[WordSize - 3] \in Nat
    BY <1>1, TensAre
  <1>3. MaxTotal < Tens[WordSize - 3] /\ MaxTotal \in Nat
    BY WidthAssumption
  <1> QED BY <1>2, <1>3 DEF ERROR_NUM

-------------------------------------------------------------------------------
(* The invariant. *)

\* The words on the stack are those of commands, or there from the start.
OnStack(w, j) == w \in WordsFor(j) /\ Len(w) < WordSize

Words == input = [j \in Objects |-> input[j]] /\ \A j \in Objects : OnStack(input[j], j)

Booked == /\ booked \in [Ids -> [Objects -> 0..MaxTotal]]
          /\ \A u \in Ids : booked[u][1] + booked[u][2] + booked[u][3] <= MaxTotal

IInv == Words /\ Booked /\ id \in Ids \cup {0} /\ IdsDenoted

LEMMA WordsAre ==
  ASSUME NEW j \in Objects, NEW w, OnStack(w, j)
  PROVE  w \in Seq(Chars) /\ Len(w) < WordSize
  <1>1. CASE w \in StackWords
    BY <1>1, WidthAssumption
  <1>2. CASE w \notin StackWords
    <2>1. PICK l \in ClientLines : Len(l) >= j /\ w = l[j] /\ Len(w) < WordSize
      BY <1>2 DEF OnStack, WordsFor
    <2>2. l \in Seq(Seq(Chars)) /\ j \in 1..Len(l)
      BY <2>1, WidthAssumption DEF Objects
    <2>3. l[j] \in Seq(Chars)
      BY <2>2, ElementOfSeq
    <2> QED BY <2>1, <2>3
  <1> QED BY <1>1, <1>2

\* sscanf.
LEMMA ScannedWords ==
  ASSUME Words, NEW l \in ClientLines, \A j \in DOMAIN l : Len(l[j]) < WordSize
  PROVE  \A j \in Objects : /\ OnStack(Scanned(l)[j], j)
                            /\ j <= Len(l) => Scanned(l)[j] = l[j]
  <1>1. SUFFICES ASSUME NEW j \in Objects
                 PROVE  /\ OnStack(Scanned(l)[j], j)
                        /\ j <= Len(l) => Scanned(l)[j] = l[j]
    OBVIOUS
  <1>2. Scanned(l)[j] = IF j <= Len(l) THEN l[j] ELSE input[j]
    BY DEF Scanned
  <1>3. CASE j <= Len(l)
    <2>1. l \in Seq(Seq(Chars)) /\ j \in Int /\ j >= 1
      BY WidthAssumption DEF Objects
    <2>2. j \in DOMAIN l /\ Len(l) >= j
      BY <1>3, <2>1
    <2>3. l[j] \in WordsFor(j) /\ Len(l[j]) < WordSize
      BY <2>2 DEF WordsFor
    <2> QED BY <1>2, <1>3, <2>3 DEF OnStack
  <1>4. CASE ~(j <= Len(l))
    BY <1>2, <1>4 DEF Words
  <1> QED BY <1>3, <1>4

-------------------------------------------------------------------------------
(* Commands. *)

\* What the objects come to with the words w.
Total(w, j) == booked[id][j] + Value(w[j])

\* The checks let through what is legal.
LEMMA CommandBooks ==
  ASSUME Booked, Words, id \in Ids, NEW l \in ClientLines, Command(l)
  PROVE  /\ \A j \in Objects : /\ OnStack(input'[j], j)
                               /\ j <= Len(l) => input'[j] = l[j]
         /\ IF /\ \A j \in Objects : IsNumber(input'[j]) /\ Total(input', j) >= 0
               /\ Total(input', 1) + Total(input', 2) + Total(input', 3) <= MaxTotal
            THEN /\ reply' = "updated"
                 /\ booked' = [booked EXCEPT ![id] = [j \in Objects |-> Total(input', j)]]
            ELSE booked' = booked /\ reply' # "updated"
  <1> DEFINE w == input'
             b == booked[id]
             num   == [j \in Objects |-> convert(w[j])]
             param == [j \in Objects |-> Wrap(num[j] + b[j])]
             T == Tens[WordSize - 1]
             fails == \E j \in Objects : num[j] = ERROR_NUM
             below == \E j \in Objects : param[j] < 0
             above == Sum(param) > MaxTotal
  <1>1. /\ input' = Scanned(l) /\ \A j \in DOMAIN l : Len(l[j]) < WordSize
        /\ reply' = IF fails THEN "failed" ELSE IF below THEN "less than 0"
                    ELSE IF above THEN "more than MaxTotal" ELSE "updated"
        /\ booked' = IF reply' = "updated" THEN [booked EXCEPT ![id] = param] ELSE booked
    BY DEF Command
  <1>2. \A j \in Objects : OnStack(w[j], j) /\ (j <= Len(l) => w[j] = l[j])
    BY <1>1, ScannedWords
  <1>3. \A j \in Objects : w[j] \in Seq(Chars) /\ Len(w[j]) < WordSize
    BY <1>2, WordsAre
  <1>4. /\ \A j \in Objects : b[j] \in 0..MaxTotal
        /\ b[1] + b[2] + b[3] <= MaxTotal
    BY DEF Booked
  <1>5. 1 \in Objects /\ 2 \in Objects /\ 3 \in Objects /\ Objects = {1, 2, 3}
    BY DEF Objects
  <1>6. T \in Nat /\ 3 * T + MaxTotal <= MaxInt /\ MaxTotal \in Nat /\ MaxInt \in Nat
    <2>1. WordSize - 1 \in Nat
      BY WidthAssumption
    <2> QED BY <2>1, TensAre, WidthAssumption
  <1>7. /\ fails => reply' = "failed"
        /\ ~fails /\ below => reply' = "less than 0"
        /\ ~fails /\ ~below /\ above => reply' = "more than MaxTotal"
        /\ ~fails /\ ~below /\ ~above => reply' = "updated"
    <2> HIDE DEF fails, below, above
    <2> QED BY <1>1
  <1>8. /\ reply' = "updated" => booked' = [booked EXCEPT ![id] = param]
        /\ reply' # "updated" => booked' = booked
    <2> HIDE DEF param
    <2> QED BY <1>1
  <1> DEFINE legal == /\ \A j \in Objects : IsNumber(w[j]) /\ Total(w, j) >= 0
                      /\ Total(w, 1) + Total(w, 2) + Total(w, 3) <= MaxTotal
  <1>9. CASE \E j \in Objects : ~IsNumber(w[j])
    <2>1. fails
      BY <1>3, <1>9, ConvertDenotes
    <2>2. ~legal
      BY <1>9
    <2> QED BY <1>2, <1>7, <1>8, <2>1, <2>2
  <1>10. CASE \A j \in Objects : IsNumber(w[j])
    <2> DEFINE v == [j \in Objects |-> Value(w[j])]
    <2>1. \A j \in Objects : /\ num[j] = v[j] /\ v[j] \in Int /\ v[j] < T /\ v[j] > -T
                             /\ Total(w, j) = b[j] + v[j]
      BY <1>3, <1>10, ShortExact DEF Total
    <2> HIDE DEF w, b, num, v, T
    <2>2. \A j \in Objects : param[j] = b[j] + v[j] /\ b[j] + v[j] \in Int
      <3>1. SUFFICES ASSUME NEW j \in Objects
                     PROVE  param[j] = b[j] + v[j] /\ b[j] + v[j] \in Int
        OBVIOUS
      <3> DEFINE n == num[j] + b[j]
                 x == v[j]
                 y == b[j]
      <3>2. x \in Int /\ x < T /\ x > -T /\ y \in 0..MaxTotal /\ n = x + y
        BY <1>4, <2>1
      <3>3. param[j] = Wrap(n)
        OBVIOUS
      <3> HIDE DEF n, x, y
      <3>4. n \in Ints /\ n = y + x /\ n \in Int
        BY <1>6, <3>2 DEF Ints
      <3> HIDE DEF param
      <3> QED BY <3>3, <3>4, WrapSame DEF x, y
    <2> DEFINE p == param
               t == p[1] + p[2] + p[3]
    <2>3. \A j \in Objects : p[j] = Total(w, j) /\ p[j] \in Int
      BY <2>1, <2>2
    <2>4. Sum(p) = t /\ t \in Int
      <3> DEFINE x1 == v[1]
                 x2 == v[2]
                 x3 == v[3]
                 y1 == b[1]
                 y2 == b[2]
                 y3 == b[3]
      <3>1. /\ x1 \in Int /\ x1 < T /\ x1 > -T /\ x2 \in Int /\ x2 < T /\ x2 > -T
            /\ x3 \in Int /\ x3 < T /\ x3 > -T
        BY <1>5, <2>1
      <3>2. y1 \in Nat /\ y2 \in Nat /\ y3 \in Nat /\ y1 + y2 + y3 <= MaxTotal
        BY <1>4, <1>5, <1>6
      <3>3. p[1] = y1 + x1 /\ p[2] = y2 + x2 /\ p[3] = y3 + x3
        BY <1>5, <2>2
      <3> HIDE DEF x1, x2, x3, y1, y2, y3, p
      <3>4. t \in Int /\ t \in Ints
        BY <1>6, <3>1, <3>2, <3>3 DEF Ints
      <3>5. Sum(p) = Wrap(t)
        BY DEF Sum
      <3> HIDE DEF t
      <3> QED BY <3>4, <3>5, WrapSame
    <2>5. p = [j \in Objects |-> Total(w, j)]
      <3>1. p = [j \in Objects |-> p[j]]
        OBVIOUS
      <3> HIDE DEF p
      <3> QED BY <2>3, <3>1
    <2>6. fails => \E j \in Objects : p[j] < 0
      <3>1. SUFFICES ASSUME NEW j \in Objects, num[j] = ERROR_NUM
                     PROVE  p[j] < 0
        OBVIOUS
      <3>2. p[j] = b[j] + ERROR_NUM /\ b[j] \in 0..MaxTotal
        BY <1>4, <2>1, <2>2, <3>1
      <3> HIDE DEF p
      <3> QED BY <3>2, ErrorIsLess
    <2> HIDE DEF p
    <2>7. legal <=> (\A j \in Objects : ~(p[j] < 0)) /\ ~(Sum(p) > MaxTotal)
      <3>1. t = Total(w, 1) + Total(w, 2) + Total(w, 3)
        BY <1>5, <2>3
      <3>2. \A j \in Objects : Total(w, j) >= 0 <=> ~(p[j] < 0)
        BY <2>3
      <3> HIDE DEF t
      <3>3. t <= MaxTotal <=> ~(Sum(p) > MaxTotal)
        BY <1>6, <2>4
      <3>4. \A j \in Objects : IsNumber(w[j])
        BY <1>10 DEF w
      <3> QED BY <3>1, <3>2, <3>3, <3>4, Zenon
    <2> HIDE DEF legal, fails
    <2>8. legal => ~fails /\ ~below /\ ~above
      BY <2>6, <2>7 DEF p
    <2>9. ~legal => fails \/ below \/ above
      BY <2>7 DEF p
    <2> HIDE DEF below, above
    <2>10. legal => /\ reply' = "updated"
                    /\ booked' = [booked EXCEPT ![id] = [j \in Objects |-> Total(w, j)]]
      BY <1>7, <1>8, <2>5, <2>8 DEF p
    <2>11. ~legal => reply' # "updated" /\ booked' = booked
      BY <1>7, <1>8, <2>9
    <2> QED BY <1>2, <2>10, <2>11 DEF legal, w
  <1> QED BY <1>9, <1>10

-------------------------------------------------------------------------------
(* The sessions. *)

\* An id is what a word stands for, and no word of more than digits.
LEMMA IdIsDenoted ==
  ASSUME NEW l \in ClientLines, NEW n \in Ids, convert(Text(l)) = n
  PROVE  /\ Len(l) = 1 /\ IsNumber(l[1])
         /\ (Value(l[1]) - n) % (2 * MaxInt + 2) = 0
  <1>1. l \in Seq(Seq(Chars)) /\ n \in Int /\ n > 0 /\ MaxInt \in Nat
    BY WidthAssumption DEF Ids
  <1>2. Len(l) = 1
    <2>1. CASE l = <<>>
      <3>1. Text(l) = <<>> /\ <<>> \in Seq(Digits) /\ <<>> \in Seq(Chars) /\ Len(<<>>) = 0
        BY <2>1 DEF Text
      <3>2. Unsigned(<<>>) = <<>> /\ ~Signed(<<>>) /\ IsDigits(<<>>)
        BY DEF Unsigned, Signed, IsDigits
      <3>3. convert(<<>>) = Read(<<>>)
        BY <3>2 DEF convert
      <3>4. Read(<<>>) = 0
        BY <3>1, ReadIs
      <3> QED BY <1>1, <3>1, <3>3, <3>4
    <2>2. CASE l # <<>> /\ Len(l) # 1
      <3>1. Text(l) = <<Other>>
        BY <2>2 DEF Text
      <3>2. <<Other>> \in Seq(Chars) /\ ~IsNumber(<<Other>>)
        <4>1. /\ <<Other>> \in Seq(Chars) /\ Head(<<Other>>) = 11 /\ DOMAIN <<Other>> = {1}
              /\ <<Other>>[1] = 11
          BY DEF Other, Chars
        <4>2. Unsigned(<<Other>>) = <<Other>>
          BY <4>1 DEF Unsigned, Signed, Minus
        <4> QED BY <4>1, <4>2 DEF IsNumber, IsDigits
      <3>3. convert(Text(l)) = ERROR_NUM
        BY <3>1, <3>2, ConvertDenotes
      <3> QED BY <1>1, <3>3, ErrorIsLess
    <2> QED BY <2>1, <2>2
  <1>3. Text(l) = l[1] /\ l[1] \in Seq(Chars) /\ l # <<>>
    <2>1. Len(l) = 1 /\ l # <<>>
      BY <1>2
    <2>2. Text(l) = l[1]
      BY <2>1 DEF Text
    <2>3. l \in Seq(Seq(Chars)) /\ 1 \in 1..Len(l)
      BY <1>1, <2>1
    <2> QED BY <2>1, <2>2, <2>3
  <1>4. IsNumber(l[1])
    <2>1. ~IsNumber(l[1]) => convert(l[1]) = ERROR_NUM
      BY <1>3, ConvertDenotes
    <2> QED BY <1>1, <1>3, <2>1, ErrorIsLess
  <1> DEFINE v == Value(l[1])
             M == 2 * MaxInt + 2
  <1>5. v \in Int /\ \E k \in Int : v = M * k + n
    BY <1>3, <1>4, ConvertDenotes DEF Denotes
  <1>6. (v - n) % M = 0
    <2>1. PICK k \in Int : v = M * k + n
      BY <1>5
    <2>2. M \in Nat \ {0} /\ 0 \in 0..(M - 1)
      BY <1>1
    <2> DEFINE x == M * k
    <2>3. v - n = x + 0
      <3>1. x \in Int /\ v = x + n
        <4> HIDE DEF M
        <4> QED BY <2>1, <2>2
      <3> HIDE DEF x, v, M
      <3> QED BY <1>1, <1>5, <3>1
    <2> HIDE DEF M, v
    <2>4. (M * k + 0) % M = 0
      BY <2>2, Remainder
    <2> QED BY <2>3, <2>4
  <1> QED BY <1>2, <1>4, <1>6

LEMMA InitIsLegal == Init => IInv
  <1> SUFFICES ASSUME Init
               PROVE  IInv
    OBVIOUS
  <1>1. Words
    <2>1. input \in [Objects -> StackWords]
      BY DEF Init
    <2>2. ASSUME NEW j \in Objects
          PROVE  OnStack(input[j], j)
      BY <2>1, WidthAssumption DEF OnStack, WordsFor
    <2>3. input = [j \in Objects |-> input[j]]
      BY <2>1
    <2> QED BY <2>2, <2>3 DEF Words
  <1>2. Booked
    <2>1. MaxTotal \in Nat
      BY ErrorIsLess
    <2>2. booked \in [Ids -> [Objects -> 0..MaxTotal]]
      BY <2>1 DEF Init
    <2>3. \A u \in Ids, j \in Objects : booked[u][j] = 0
      BY DEF Init
    <2>4. 1 \in Objects /\ 2 \in Objects /\ 3 \in Objects
      BY DEF Objects
    <2> QED BY <2>1, <2>2, <2>3, <2>4 DEF Booked
  <1>3. id \in Ids \cup {0} /\ IdsDenoted
    BY DEF Init, IdsDenoted
  <1> QED BY <1>1, <1>2, <1>3 DEF IInv

LEMMA StepIsLegal == IInv /\ [Next]_vars => IInv'
  <1> SUFFICES ASSUME IInv, [Next]_vars
               PROVE  IInv'
    OBVIOUS
  <1>1. ASSUME NEW l \in ClientLines, EnterId(l)
        PROVE  IInv'
    <2> DEFINE n == convert(Text(l))
    <2>1. /\ id = 0 /\ buf' = l /\ booked' = booked /\ input' = input
          /\ (n \in Ids /\ id' = n) \/ id' = 0
      BY <1>1 DEF EnterId
    <2>2. Words' /\ Booked'
      BY <2>1 DEF IInv, Words, Booked
    <2>3. CASE id' = 0
      BY <2>2, <2>3 DEF IInv, IdsDenoted
    <2>4. CASE n \in Ids /\ id' = n
      <3>1. Len(l) = 1 /\ IsNumber(l[1]) /\ (Value(l[1]) - n) % (2 * MaxInt + 2) = 0
        BY <2>4, IdIsDenoted
      <3> HIDE DEF n
      <3>2. IdsDenoted'
        BY <2>1, <2>4, <3>1 DEF IdsDenoted
      <3> QED BY <2>2, <2>4, <3>2 DEF IInv
    <2> QED BY <2>1, <2>3, <2>4
  <1>2. ASSUME NEW l \in ClientLines, Command(l)
        PROVE  IInv'
    <2>1. id \in Ids /\ id' = 0 /\ Words /\ Booked /\ input' = Scanned(l)
      BY <1>2 DEF Command, IInv
    <2>2. Words'
      <3>1. \A j \in Objects : OnStack(input'[j], j)
        BY <1>2, <2>1, CommandBooks
      <3>2. input' = [j \in Objects |-> input'[j]]
        BY <2>1 DEF Scanned
      <3> QED BY <3>1, <3>2 DEF Words, OnStack
    <2>3. Booked'
      <3> DEFINE t == [j \in Objects |-> Total(input', j)]
                 legal == /\ \A j \in Objects : IsNumber(input'[j]) /\ Total(input', j) >= 0
                          /\ Total(input', 1) + Total(input', 2) + Total(input', 3) <= MaxTotal
      <3>1. IF legal THEN booked' = [booked EXCEPT ![id] = t] ELSE booked' = booked
        BY <1>2, <2>1, CommandBooks
      <3>2. CASE ~legal
        <4> HIDE DEF legal
        <4> QED BY <2>1, <3>1, <3>2 DEF Booked
      <3>3. CASE legal
        <4>1. booked' = [booked EXCEPT ![id] = t]
          BY <3>1, <3>3
        <4>2. \A j \in Objects : Total(input', j) \in Nat
          <5>1. \A j \in Objects : input'[j] \in Seq(Chars) /\ Len(input'[j]) < WordSize
            BY <1>2, <2>1, CommandBooks, WordsAre
          <5>2. \A j \in Objects : Value(input'[j]) \in Int
            BY <3>3, <5>1, ShortExact
          <5>3. \A j \in Objects : booked[id][j] \in Nat
            BY <2>1, ErrorIsLess DEF Booked
          <5>4. \A j \in Objects : Total(input', j) \in Int
            BY <5>2, <5>3 DEF Total
          <5> QED BY <3>3, <5>4
        <4>3. t[1] + t[2] + t[3] <= MaxTotal /\ \A j \in Objects : t[j] \in 0..MaxTotal
          <5>1. 1 \in Objects /\ 2 \in Objects /\ 3 \in Objects /\ Objects = {1, 2, 3}
            BY DEF Objects
          <5>2. Total(input', 1) + Total(input', 2) + Total(input', 3) <= MaxTotal
            BY <3>3
          <5>3. /\ t[1] = Total(input', 1) /\ t[2] = Total(input', 2) /\ t[3] = Total(input', 3)
                /\ t[1] \in Nat /\ t[2] \in Nat /\ t[3] \in Nat
            BY <4>2, <5>1
          <5> HIDE DEF t
          <5>4. t[1] + t[2] + t[3] <= MaxTotal
            BY <5>2, <5>3
          <5> QED BY <5>1, <5>3, <5>4, ErrorIsLess
        <4>4. t \in [Objects -> 0..MaxTotal]
          <5>1. t = [j \in Objects |-> t[j]]
            OBVIOUS
          <5> HIDE DEF t
          <5> QED BY <4>3, <5>1
        <4> HIDE DEF t
        <4>5. booked' \in [Ids -> [Objects -> 0..MaxTotal]]
          BY <2>1, <4>1, <4>4 DEF Booked
        <4>6. \A u \in Ids : booked'[u] = IF u = id THEN t ELSE booked[u]
          BY <2>1, <4>1 DEF Booked
        <4>7. ASSUME NEW u \in Ids
              PROVE  booked'[u][1] + booked'[u][2] + booked'[u][3] <= MaxTotal
          BY <2>1, <4>3, <4>6 DEF Booked
        <4> QED BY <4>5, <4>7 DEF Booked
      <3> QED BY <3>2, <3>3
    <2>4. id' \in Ids \cup {0} /\ IdsDenoted'
      BY <2>1 DEF IdsDenoted
    <2> QED BY <2>2, <2>3, <2>4 DEF IInv
  <1>3. CASE UNCHANGED vars
    BY <1>3 DEF vars, IInv, Words, Booked, IdsDenoted, OnStack
  <1> QED BY <1>1, <1>2, <1>3 DEF Next

\* The records stay legal and the words of commands on the stack, whatever is typed
\* (server.c:336-409).
THEOREM Invariant == Spec => []IInv
  BY InitIsLegal, StepIsLegal, PTL DEF Spec

\* Nobody gets the record of another id than the typed number denotes
\* (server.c:135-170).
THEOREM IdsAreTheTypedOnes == Spec => []IdsDenoted
  <1>1. IInv => IdsDenoted
    BY DEF IInv
  <1> QED BY <1>1, Invariant, PTL

\* Carried out or not, as the amounts in a line with all its words say: no rounding
\* by int and no clash with ERROR_NUM (server.c:346-402).
THEOREM WholeLinesAreExact == Spec => WholeLinesExact
  <1>1. IInv /\ [Next]_vars => [WholeLine]_vars
    <2> SUFFICES ASSUME IInv, Next
                 PROVE  WholeLine
      OBVIOUS
    <2>1. SUFFICES ASSUME id # 0, Len(buf') >= 3
                   PROVE  WholeLine
      BY DEF WholeLine
    <2>2. PICK l \in ClientLines : Command(l)
      BY <2>1 DEF Next, EnterId
    <2>3. buf' = l /\ Len(l) \in Int /\ Len(l) >= 3
      <3>1. buf' = l
        BY <2>2 DEF Command
      <3>2. l \in Seq(Seq(Chars))
        BY <2>2, WidthAssumption
      <3>3. Len(l) \in Int
        BY <3>2
      <3> QED BY <2>1, <3>1, <3>3
    <2> DEFINE sum == [j \in Objects |-> booked[id][j] + Value(buf'[j])]
               legal == /\ \A j \in Objects : IsNumber(input'[j]) /\ Total(input', j) >= 0
                        /\ Total(input', 1) + Total(input', 2) + Total(input', 3) <= MaxTotal
    <2>4. /\ \A j \in Objects : j <= Len(l) => input'[j] = l[j]
          /\ IF legal THEN /\ reply' = "updated"
                           /\ booked' = [booked EXCEPT ![id] = [j \in Objects |-> Total(input', j)]]
             ELSE booked' = booked /\ reply' # "updated"
      BY <2>1, <2>2, CommandBooks DEF IInv
    <2>5. \A j \in Objects : input'[j] = buf'[j]
      BY <2>3, <2>4 DEF Objects
    <2>6. \A j \in Objects : Total(input', j) = sum[j]
      BY <2>5 DEF Total
    <2>7. [j \in Objects |-> Total(input', j)] = sum
      BY <2>6
    <2>8. legal <=> (\A j \in Objects : IsNumber(buf'[j])) /\ Records!Legal(Booking(sum))
      <3>1. Objects = {1, 2, 3}
        BY DEF Objects
      <3>2. Records!Legal(Booking(sum)) <=>
              /\ sum[1] >= 0 /\ sum[2] >= 0 /\ sum[3] >= 0
              /\ sum[1] + sum[2] + sum[3] <= MaxTotal
        <4> HIDE DEF sum
        <4> QED BY DEF Records!Legal, Booking
      <3> HIDE DEF sum
      <3> QED BY <2>5, <2>6, <3>1, <3>2
    <2> HIDE DEF legal
    <2> QED BY <2>4, <2>7, <2>8 DEF WholeLine
  <1> QED BY <1>1, Invariant, PTL DEF Spec, WholeLinesExact

\* Short lines book mixtures of commands, and legal ones (server.c:339-402).
THEOREM ShortLinesAreMixtures == Spec => ShortLinesMix
  <1>1. IInv /\ [Next]_vars => [Mixture]_vars
    <2> SUFFICES ASSUME IInv, Next, booked' # booked
                 PROVE  Mixture
      BY DEF Mixture
    <2>1. PICK l \in ClientLines : Command(l)
      BY DEF Next, EnterId
    <2>2. id \in Ids
      BY <2>1 DEF Command, IInv
    <2> DEFINE t == [j \in Objects |-> Total(input', j)]
    <2>3. /\ \A j \in Objects : OnStack(input'[j], j)
          /\ \A j \in Objects : IsNumber(input'[j]) /\ Total(input', j) >= 0
          /\ Total(input', 1) + Total(input', 2) + Total(input', 3) <= MaxTotal
          /\ booked' = [booked EXCEPT ![id] = t]
      BY <2>1, <2>2, CommandBooks DEF IInv
    <2>4. booked'[id] = t
      <3> HIDE DEF t
      <3> QED BY <2>2, <2>3 DEF IInv, Booked
    <2>5. 1 \in Objects /\ 2 \in Objects /\ 3 \in Objects
      BY DEF Objects
    <2>6. t[1] = Total(input', 1) /\ t[2] = Total(input', 2) /\ t[3] = Total(input', 3)
      BY <2>5
    <2> HIDE DEF t
    <2>7. Records!Legal(Booking(booked'[id]))
      BY <2>3, <2>4, <2>5, <2>6 DEF Records!Legal, Booking
    <2> DEFINE x == Value(input'[1])
               y == Value(input'[2])
               z == Value(input'[3])
               d == [food |-> x, concert |-> y, elecs |-> z]
    <2>8. x \in Amounts(1) /\ y \in Amounts(2) /\ z \in Amounts(3)
      BY <2>3, <2>5 DEF Amounts, OnStack
    <2>9. Booking(booked'[id]) = Records!Plus(Booking(booked[id]), d)
      BY <2>4, <2>6 DEF Records!Plus, Booking, Total
    <2>10. d \in Records!Mixtures
      <3> HIDE DEF x, y, z
      <3> DEFINE D == [food : Amounts(1), concert : Amounts(2), elecs : Amounts(3)]
      <3>1. d \in D /\ d.food = x /\ d.concert = y /\ d.elecs = z
        BY <2>8
      <3>2. /\ x \in {e.food : e \in D} /\ y \in {e.concert : e \in D}
            /\ z \in {e.elecs : e \in D}
        <4> HIDE DEF D, d
        <4> QED BY <3>1
      <3> QED BY <3>2 DEF Records!Mixtures
    <2> HIDE DEF d
    <2> QED BY <2>7, <2>9, <2>10 DEF Mixture
  <1> QED BY <1>1, Invariant, PTL DEF Spec, ShortLinesMix
===============================================================================
