--------------------------- MODULE MovieInput_proofs ---------------------------
(***************************************************************************)
(* Proofs about MergeTree and MovieInput.  The library's sort puts any list  *)
(* in order and marks each movie once, the merge of two lists holds the      *)
(* movies of both and is in order if they are, and the slices of the tree    *)
(* are nested or apart.  The points put the movies in the order of their     *)
(* angles with the request, and a list that holds the movies of a request in *)
(* the library's order, each marked once, shows the answer.                  *)
(***************************************************************************)
EXTENDS MovieInput, Recursion, SequenceTheorems

-------------------------------------------------------------------------------
(* The order of movies. *)

LEMMA BeforeIsStrict ==
  ASSUME NEW m \in Movie, NEW n \in Movie, Before(m, n)
  PROVE  ~Before(n, m)
  BY DEF Before, Movie

LEMMA BeforeIsTransitive ==
  ASSUME NEW m \in Movie, NEW n \in Movie, NEW o \in Movie, Before(m, n), ~Before(o, n)
  PROVE  Before(m, o)
  BY DEF Before, Movie

LEMMA NotBeforeIsTransitive ==
  ASSUME NEW m \in Movie, NEW n \in Movie, NEW o \in Movie, ~Before(m, n), ~Before(n, o)
  PROVE  ~Before(m, o)
  BY DEF Before, Movie

Marked(m) == [m EXCEPT !.secrets = @ + 1]

\* The order does not look at the marks.
LEMMA MarkedKeepsOrder ==
  ASSUME NEW m \in Movie
  PROVE  /\ Marked(m) \in Movie
         /\ \A n : Before(Marked(m), n) <=> Before(m, n)
         /\ \A n : Before(n, Marked(m)) <=> Before(n, m)
  <1>1. /\ Marked(m).pts = m.pts /\ Marked(m).title = m.title
        /\ Marked(m) = [title |-> m.title, pts |-> m.pts, secrets |-> m.secrets + 1]
    BY DEF Marked, Movie
  <1>2. Marked(m) \in Movie
    BY <1>1 DEF Movie
  <1> QED BY <1>1, <1>2 DEF Before

\* The first of the movies from start on that come before all the others.
IsArgmax(s, start, end, j) ==
  /\ j \in start..end
  /\ \A k \in start..end : /\ ~Before(s[k], s[j])
                           /\ k < j => Before(s[j], s[k])

\* argmax always finds one.
LEMMA ArgmaxFinds ==
  ASSUME NEW n \in Nat, NEW s \in [1..n -> Movie], NEW start \in 1..n
  PROVE  IsArgmax(s, start, n, argmax(s, start))
  <1> DEFINE S == {b \in start..n : \E j : IsArgmax(s, start, b, j)}
  <1>1. start \in S
    <2>1. start..start = {start} /\ s[start] \in Movie
      OBVIOUS
    <2>2. ~Before(s[start], s[start])
      BY <2>1, BeforeIsStrict
    <2>3. IsArgmax(s, start, start, start)
      BY <2>1, <2>2 DEF IsArgmax
    <2> QED BY <2>3
  <1>2. ASSUME NEW b \in start..n, b < n, b \in S
        PROVE  b + 1 \in S
    <2>1. PICK j : IsArgmax(s, start, b, j)
      BY <1>2
    <2>2. /\ b + 1 \in start..n /\ j \in start..(b + 1) /\ b + 1 \in start..(b + 1)
          /\ \A k \in start..(b + 1) : k # b + 1 => k \in start..b
          /\ j <= b
      BY <1>2, <2>1 DEF IsArgmax
    <2>3. \A k \in start..(b + 1) : s[k] \in Movie
      BY <1>2
    <2>4. CASE Before(s[b + 1], s[j])
      <3>1. \A k \in start..b : Before(s[b + 1], s[k]) /\ ~Before(s[k], s[b + 1])
        BY <2>1, <2>2, <2>3, <2>4, BeforeIsTransitive, BeforeIsStrict DEF IsArgmax
      <3>2. ~Before(s[b + 1], s[b + 1])
        BY <2>2, <2>3, BeforeIsStrict
      <3>3. IsArgmax(s, start, b + 1, b + 1)
        BY <2>2, <3>1, <3>2 DEF IsArgmax
      <3> QED BY <2>2, <3>3
    <2>5. CASE ~Before(s[b + 1], s[j])
      <3>1. ~(b + 1 < j)
        BY <2>2
      <3>2. IsArgmax(s, start, b + 1, j)
        BY <2>1, <2>2, <2>5, <3>1 DEF IsArgmax
      <3> QED BY <2>2, <3>2
    <2> QED BY <2>4, <2>5
  <1>3. n \in S
    <2> HIDE DEF S
    <2>1. Inductive(S, start, n)
      BY <1>1, <1>2 DEF Inductive
    <2>2. \A b \in start..n : b \in S
      BY <2>1, InductionTo
    <2> QED BY <2>2
  <1>4. PICK j : IsArgmax(s, start, n, j)
    BY <1>3
  <1>5. Len(s) = n
    OBVIOUS
  <1>6. argmax(s, start) = CHOOSE i : IsArgmax(s, start, n, i)
    BY <1>5 DEF argmax, IsArgmax
  <1> QED BY <1>4, <1>6

-------------------------------------------------------------------------------
(* Reorderings. *)

Shuffle(n) == {p \in [1..n -> 1..n] : /\ \A i, j \in 1..n : p[i] = p[j] => i = j
                                      /\ \A j \in 1..n : \E i \in 1..n : p[i] = j}

\* t has the elements of s, each as often as s has it.
ReorderedBy(s, t, p) ==
  /\ Len(s) \in Nat /\ s = [i \in 1..Len(s) |-> s[i]]
  /\ p \in Shuffle(Len(s))
  /\ Len(t) = Len(s) /\ t = [i \in 1..Len(s) |-> s[p[i]]]

Reordered(s, t) == \E p : ReorderedBy(s, t, p)

\* s in order, but for movies between which there is none.
Sorted(s) == \A i, j \in 1..Len(s) : i < j => ~Before(s[j], s[i])

LEMMA ReorderedSame ==
  ASSUME NEW S, NEW s \in Seq(S)
  PROVE  Reordered(s, s)
  <1>1. [i \in 1..Len(s) |-> i] \in Shuffle(Len(s))
    BY DEF Shuffle
  <1>2. ReorderedBy(s, s, [i \in 1..Len(s) |-> i])
    BY <1>1 DEF ReorderedBy
  <1> QED BY <1>2 DEF Reordered

LEMMA ReorderedElements ==
  ASSUME NEW S, NEW s \in Seq(S), NEW t, Reordered(s, t)
  PROVE  /\ t \in [1..Len(s) -> S] /\ Len(t) = Len(s)
         /\ \A i \in 1..Len(t) : \E j \in 1..Len(s) : t[i] = s[j]
         /\ \A j \in 1..Len(s) : \E i \in 1..Len(t) : t[i] = s[j]
  <1>1. PICK p : ReorderedBy(s, t, p)
    BY DEF Reordered
  <1>2. /\ p \in [1..Len(s) -> 1..Len(s)] /\ Len(t) = Len(s) /\ DOMAIN t = 1..Len(s)
        /\ \A i \in 1..Len(s) : t[i] = s[p[i]]
        /\ \A j \in 1..Len(s) : \E i \in 1..Len(s) : p[i] = j
    BY <1>1 DEF ReorderedBy, Shuffle
  <1>3. \A i \in 1..Len(s) : p[i] \in 1..Len(s) /\ s[i] \in S
    BY <1>2
  <1>4. t \in [1..Len(s) -> S]
    BY <1>1, <1>3 DEF ReorderedBy
  <1> QED BY <1>2, <1>3, <1>4

LEMMA ShufflesCompose ==
  ASSUME NEW n \in Nat, NEW p \in Shuffle(n), NEW q \in Shuffle(n)
  PROVE  [i \in 1..n |-> p[q[i]]] \in Shuffle(n)
  <1> DEFINE r == [i \in 1..n |-> p[q[i]]]
  <1>1. /\ p \in [1..n -> 1..n] /\ q \in [1..n -> 1..n]
        /\ \A i, j \in 1..n : p[i] = p[j] => i = j
        /\ \A i, j \in 1..n : q[i] = q[j] => i = j
        /\ \A j \in 1..n : \E i \in 1..n : p[i] = j
        /\ \A j \in 1..n : \E i \in 1..n : q[i] = j
    BY DEF Shuffle
  <1>2. r \in [1..n -> 1..n]
    BY <1>1
  <1>3. \A i, j \in 1..n : r[i] = r[j] => i = j
    BY <1>1
  <1>4. \A j \in 1..n : \E i \in 1..n : r[i] = j
    <2>1. ASSUME NEW j \in 1..n
          PROVE  \E i \in 1..n : r[i] = j
      <3>1. PICK k \in 1..n : p[k] = j
        BY <1>1
      <3>2. PICK i \in 1..n : q[i] = k
        BY <1>1
      <3>3. r[i] = j
        BY <3>1, <3>2
      <3> QED BY <3>3
    <2> QED BY <2>1
  <1> QED BY <1>2, <1>3, <1>4 DEF Shuffle

LEMMA ShufflesInvert ==
  ASSUME NEW n \in Nat, NEW p \in Shuffle(n)
  PROVE  \E q \in Shuffle(n) : \A i \in 1..n : p[q[i]] = i
  <1>1. /\ p \in [1..n -> 1..n]
        /\ \A i, j \in 1..n : p[i] = p[j] => i = j
        /\ \A j \in 1..n : \E i \in 1..n : p[i] = j
    BY DEF Shuffle
  <1>2. PICK q \in [1..n -> 1..n] : \A j \in 1..n : p[q[j]] = j
    <2>1. \A j \in 1..n : (CHOOSE i \in 1..n : p[i] = j) \in 1..n /\ p[CHOOSE i \in 1..n : p[i] = j] = j
      BY <1>1
    <2>2. [j \in 1..n |-> CHOOSE i \in 1..n : p[i] = j] \in [1..n -> 1..n]
      BY <2>1
    <2> QED BY <2>1, <2>2
  <1>3. \A i, j \in 1..n : q[i] = q[j] => i = j
    BY <1>2
  <1>4. \A j \in 1..n : q[p[j]] = j
    BY <1>1, <1>2
  <1>5. q \in Shuffle(n)
    BY <1>1, <1>3, <1>4 DEF Shuffle
  <1> QED BY <1>2, <1>5

LEMMA ReorderedTwice ==
  ASSUME NEW s, NEW t, NEW u, Reordered(s, t), Reordered(t, u)
  PROVE  Reordered(s, u)
  <1>1. PICK p : ReorderedBy(s, t, p)
    BY DEF Reordered
  <1>2. PICK q : ReorderedBy(t, u, q)
    BY DEF Reordered
  <1> DEFINE n == Len(s)
  <1>3. /\ n \in Nat /\ p \in Shuffle(n) /\ q \in Shuffle(n) /\ Len(u) = n
        /\ DOMAIN s = 1..n /\ DOMAIN u = 1..n
        /\ \A i \in 1..n : t[i] = s[p[i]]
        /\ \A i \in 1..n : u[i] = t[q[i]]
    BY <1>1, <1>2 DEF ReorderedBy
  <1>4. q \in [1..n -> 1..n]
    BY <1>3 DEF Shuffle
  <1>5. [i \in 1..n |-> p[q[i]]] \in Shuffle(n)
    <2> HIDE DEF n
    <2> QED BY <1>3, ShufflesCompose
  <1>6. /\ s = [i \in 1..n |-> s[i]]
        /\ u = [i \in 1..n |-> t[q[i]]]
    BY <1>1, <1>2 DEF ReorderedBy
  <1>7. u = [i \in 1..n |-> s[[j \in 1..n |-> p[q[j]]][i]]]
    <2>1. \A i \in 1..n : t[q[i]] = s[[j \in 1..n |-> p[q[j]]][i]]
      BY <1>3, <1>4
    <2> QED BY <1>6, <2>1
  <1>8. ReorderedBy(s, u, [i \in 1..n |-> p[q[i]]])
    BY <1>3, <1>5, <1>6, <1>7 DEF ReorderedBy
  <1> QED BY <1>8 DEF Reordered

LEMMA ReorderedBack ==
  ASSUME NEW s, NEW t, Reordered(s, t)
  PROVE  Reordered(t, s)
  <1>1. PICK p : ReorderedBy(s, t, p)
    BY DEF Reordered
  <1>2. Len(s) \in Nat /\ p \in Shuffle(Len(s))
    BY <1>1 DEF ReorderedBy
  <1>3. PICK q \in Shuffle(Len(s)) : \A i \in 1..Len(s) : p[q[i]] = i
    BY <1>2, ShufflesInvert
  <1>4. q \in [1..Len(s) -> 1..Len(s)]
    BY <1>3 DEF Shuffle
  <1>5. ReorderedBy(t, s, q)
    BY <1>1, <1>3, <1>4 DEF ReorderedBy
  <1> QED BY <1>5 DEF Reordered

LEMMA SwapShuffles ==
  ASSUME NEW n \in Nat, NEW p \in Shuffle(n), NEW a \in 1..n, NEW b \in 1..n
  PROVE  [k \in 1..n |-> IF k = a THEN p[b] ELSE IF k = b THEN p[a] ELSE p[k]] \in Shuffle(n)
  <1> DEFINE swap == [k \in 1..n |-> IF k = a THEN b ELSE IF k = b THEN a ELSE k]
             r    == [k \in 1..n |-> IF k = a THEN p[b] ELSE IF k = b THEN p[a] ELSE p[k]]
  <1>1. swap \in Shuffle(n)
    <2>1. swap \in [1..n -> 1..n]
      OBVIOUS
    <2>2. \A i, j \in 1..n : swap[i] = swap[j] => i = j
      OBVIOUS
    <2>3. \A j \in 1..n : swap[swap[j]] = j /\ swap[j] \in 1..n
      OBVIOUS
    <2> HIDE DEF swap
    <2> QED BY <2>1, <2>2, <2>3 DEF Shuffle
  <1>2. r = [k \in 1..n |-> p[swap[k]]]
    OBVIOUS
  <1> HIDE DEF swap, r
  <1>3. r \in Shuffle(n)
    BY <1>1, <1>2, ShufflesCompose
  <1> QED BY <1>3 DEF r

-------------------------------------------------------------------------------
(* The library's sort. *)

\* After round i: the first i places are what they will be, and marked.
SortedUpTo(s, n, t, i) ==
  /\ t \in [1..n -> Movie]
  /\ \E p \in Shuffle(n) : \A k \in 1..n : t[k] = IF k <= i THEN Marked(s[p[k]]) ELSE s[p[k]]
  /\ \A j, k \in 1..n : j < k /\ j <= i => ~Before(t[k], t[j])

LEMMA RoundSorts ==
  ASSUME NEW n \in Nat, NEW s \in [1..n -> Movie], NEW i \in 1..n, NEW t,
         SortedUpTo(s, n, t, i - 1)
  PROVE  SortedUpTo(s, n, Placed(t, i), i)
  <1> DEFINE idx == argmax(t, i)
             u   == Placed(t, i)
  <1>1. /\ t \in [1..n -> Movie]
        /\ \A j, k \in 1..n : j < k /\ j <= i - 1 => ~Before(t[k], t[j])
    BY DEF SortedUpTo
  <1>2. PICK p \in Shuffle(n) :
          \A k \in 1..n : t[k] = IF k <= i - 1 THEN Marked(s[p[k]]) ELSE s[p[k]]
    BY DEF SortedUpTo
  <1>3. idx \in i..n /\ \A k \in i..n : ~Before(t[k], t[idx])
    BY <1>1, ArgmaxFinds DEF IsArgmax
  <1>4. /\ u = [k \in 1..n |-> IF k = i THEN Marked(t[idx]) ELSE IF k = idx THEN t[i] ELSE t[k]]
        /\ idx \in 1..n
    BY <1>1, <1>3 DEF Placed, Marked
  <1> HIDE DEF idx, u
  <1>5. u \in [1..n -> Movie]
    <2>1. \A k \in 1..n : t[k] \in Movie /\ Marked(t[k]) \in Movie
      BY <1>1, MarkedKeepsOrder
    <2> QED BY <1>4, <2>1
  <1>6. \E q \in Shuffle(n) : \A k \in 1..n : u[k] = IF k <= i THEN Marked(s[q[k]]) ELSE s[q[k]]
    <2> DEFINE q == [k \in 1..n |-> IF k = i THEN p[idx] ELSE IF k = idx THEN p[i] ELSE p[k]]
    <2>1. q \in Shuffle(n)
      BY <1>2, <1>4, SwapShuffles
    <2>2. ASSUME NEW k \in 1..n
          PROVE  u[k] = IF k <= i THEN Marked(s[q[k]]) ELSE s[q[k]]
      <3>1. CASE k = i
        <4>1. t[idx] = s[p[idx]] /\ u[k] = Marked(t[idx]) /\ q[k] = p[idx]
          BY <1>2, <1>3, <1>4, <3>1
        <4> QED BY <3>1, <4>1
      <3>2. CASE k # i /\ k = idx
        <4>1. t[i] = s[p[i]] /\ u[k] = t[i] /\ q[k] = p[i] /\ ~(k <= i)
          BY <1>2, <1>3, <1>4, <3>2
        <4> QED BY <3>2, <4>1
      <3>3. CASE k # i /\ k # idx
        <4>1. u[k] = t[k] /\ q[k] = p[k] /\ (k <= i <=> k <= i - 1)
          BY <1>4, <3>3
        <4> QED BY <1>2, <4>1
      <3> QED BY <3>1, <3>2, <3>3
    <2> HIDE DEF q
    <2> QED BY <2>1, <2>2
  <1>7. ASSUME NEW j \in 1..n, NEW k \in 1..n, j < k, j <= i
        PROVE  ~Before(u[k], u[j])
    <2>1. \A m, o : m \in Movie /\ o \in Movie =>
            (Before(Marked(m), o) <=> Before(m, o)) /\ (Before(o, Marked(m)) <=> Before(o, m))
      BY MarkedKeepsOrder
    <2>2. \A x \in 1..n : t[x] \in Movie
      BY <1>1
    <2>3. CASE j = i
      <3>1. u[j] = Marked(t[idx]) /\ \E x \in i..n : u[k] = t[x]
        BY <1>3, <1>4, <1>7, <2>3
      <3>2. PICK x \in i..n : u[k] = t[x]
        BY <3>1
      <3>3. x \in 1..n /\ ~Before(t[x], t[idx])
        BY <1>3, <3>2
      <3> QED BY <1>4, <2>1, <2>2, <3>1, <3>2, <3>3
    <2>4. CASE j # i
      <3>1. u[j] = t[j] /\ j <= i - 1
        BY <1>3, <1>4, <1>7, <2>4
      <3>2. PICK x \in 1..n : j < x /\ (u[k] = t[x] \/ u[k] = Marked(t[x]))
        BY <1>3, <1>4, <1>7, <2>4
      <3>3. ~Before(t[x], t[j])
        BY <1>1, <3>1, <3>2
      <3> QED BY <2>1, <2>2, <3>1, <3>2, <3>3
    <2> QED BY <2>3, <2>4
  <1> QED BY <1>5, <1>6, <1>7 DEF SortedUpTo, u

AllMarked(s) == [k \in 1..Len(s) |-> Marked(s[k])]

\* However long the list of movies, the library's sort leaves them in order, each
\* marked once more (lib.c:10-51).  On the empty list the code does not return:
\* SortsSomething and the models' crashing steps keep that case away.
THEOREM SortSorts ==
  ASSUME NEW n \in Nat, NEW s \in [1..n -> Movie]
  PROVE  /\ sort(s) \in [1..n -> Movie]
         /\ Sorted(sort(s))
         /\ Reordered(AllMarked(s), sort(s))
  <1> DEFINE X    == [1..n -> Movie]
             step == [p \in X \X (1..n) |-> IF SortedUpTo(s, n, p[1], p[2] - 1)
                                            THEN Placed(p[1], p[2]) ELSE p[1]]
  <1>1. Loop(n, X, s, step)
    <2>1. \A p \in X \X (1..n) : SortedUpTo(s, n, p[1], p[2] - 1) => Placed(p[1], p[2]) \in X
      <3>1. ASSUME NEW p \in X \X (1..n), SortedUpTo(s, n, p[1], p[2] - 1)
            PROVE  Placed(p[1], p[2]) \in X
        <4>1. p[2] \in 1..n
          OBVIOUS
        <4>2. SortedUpTo(s, n, Placed(p[1], p[2]), p[2])
          BY <3>1, <4>1, RoundSorts, Zenon
        <4> QED BY <4>2 DEF SortedUpTo
      <3> QED BY <3>1
    <2>2. step \in [X \X (1..n) -> X]
      <3>1. \A p \in X \X (1..n) : p[1] \in X
        OBVIOUS
      <3> HIDE DEF X
      <3> QED BY <2>1, <3>1
    <2> HIDE DEF step, X
    <2>3. s \in X
      BY DEF X
    <2> QED BY <2>2, <2>3 DEF Loop
  <1>2. PICK f \in [0..n -> X] : f[0] = s /\ \A i \in 1..n : f[i] = step[<<f[i - 1], i>>]
    <2> HIDE DEF X, step
    <2>1. PICK f : LoopResult(n, X, s, step, f)
      BY <1>1, LoopFunction
    <2> QED BY <2>1 DEF LoopResult
  <1>3. \A i \in 0..n : SortedUpTo(s, n, f[i], i)
    <2> DEFINE S == {i \in 0..n : SortedUpTo(s, n, f[i], i)}
    <2>1. 0 \in S
      <3>1. [k \in 1..n |-> k] \in Shuffle(n)
        BY DEF Shuffle
      <3>2. \A k \in 1..n : s[k] = s[[j \in 1..n |-> j][k]] /\ ~(k <= 0)
        OBVIOUS
      <3>3. \E p \in Shuffle(n) : \A k \in 1..n : s[k] = IF k <= 0 THEN Marked(s[p[k]]) ELSE s[p[k]]
        BY <3>1, <3>2
      <3>4. \A j \in 1..n : ~(j <= 0)
        OBVIOUS
      <3>5. SortedUpTo(s, n, s, 0)
        BY <3>3, <3>4 DEF SortedUpTo
      <3> QED BY <1>2, <3>5
    <2>2. ASSUME NEW i \in 0..n, i < n, i \in S
          PROVE  i + 1 \in S
      <3>1. i + 1 \in 1..n /\ i + 1 \in 0..n /\ (i + 1) - 1 = i
        BY <2>2
      <3>2. f[i + 1] = step[<<f[i], i + 1>>] /\ f[i] \in X
        BY <1>2, <3>1
      <3>3. SortedUpTo(s, n, f[i], (i + 1) - 1)
        BY <2>2, <3>1
      <3>4. f[i + 1] = Placed(f[i], i + 1)
        <4>1. <<f[i], i + 1>> \in X \X (1..n)
          BY <3>1, <3>2
        <4> HIDE DEF X
        <4> QED BY <3>2, <3>3, <4>1
      <3>5. SortedUpTo(s, n, f[i + 1], i + 1)
        BY <3>1, <3>3, <3>4, RoundSorts
      <3> QED BY <3>1, <3>5
    <2>3. \A i \in 0..n : i \in S
      <3> HIDE DEF S
      <3>1. Inductive(S, 0, n)
        BY <2>1, <2>2 DEF Inductive
      <3> QED BY <3>1, InductionTo
    <2> QED BY <2>3
  <1> DEFINE Def(g) == g = [i \in 0..Len(s) |-> IF i = 0 THEN s ELSE Placed(g[i - 1], i)]
  <1>4. Len(s) = n
    OBVIOUS
  <1>5. Def(f)
    <2>1. ASSUME NEW i \in 1..n
          PROVE  f[i] = Placed(f[i - 1], i)
      <3>1. i - 1 \in 0..n
        OBVIOUS
      <3>2. f[i - 1] \in X /\ SortedUpTo(s, n, f[i - 1], i - 1)
        BY <1>2, <1>3, <3>1
      <3>3. <<f[i - 1], i>> \in X \X (1..n)
        BY <3>2
      <3> HIDE DEF X
      <3> QED BY <1>2, <3>2, <3>3
    <2>2. \A i \in 0..n : i # 0 => i \in 1..n
      OBVIOUS
    <2> HIDE DEF X, step
    <2> QED BY <1>2, <1>4, <2>1, <2>2
  <1>6. PICK g : Def(g) /\ sort(s) = g[n]
    <2>1. Def(CHOOSE h : Def(h))
      BY <1>5
    <2>2. sort(s) = (CHOOSE h : Def(h))[n]
      BY <1>4, Zenon DEF sort
    <2> QED BY <2>1, <2>2
  <1>7. g[n] = f[n]
    <2> DEFINE S == {i \in 0..n : g[i] = f[i]}
    <2>1. 0 \in S
      BY <1>2, <1>4, <1>6
    <2>2. ASSUME NEW i \in 0..n, i < n, i \in S
          PROVE  i + 1 \in S
      <3>1. i + 1 \in 0..n /\ (i + 1) - 1 = i /\ i + 1 # 0
        BY <2>2
      <3>2. g[i + 1] = Placed(g[i], i + 1) /\ f[i + 1] = Placed(f[i], i + 1)
        BY <1>4, <1>5, <1>6, <3>1
      <3> QED BY <2>2, <3>1, <3>2
    <2>3. \A i \in 0..n : i \in S
      <3> HIDE DEF S
      <3>1. Inductive(S, 0, n)
        BY <2>1, <2>2 DEF Inductive
      <3> QED BY <3>1, InductionTo
    <2> QED BY <2>3
  <1>8. SortedUpTo(s, n, sort(s), n)
    BY <1>3, <1>6, <1>7
  <1>9. sort(s) \in [1..n -> Movie] /\ Sorted(sort(s)) /\ Len(sort(s)) = n
    BY <1>8 DEF SortedUpTo, Sorted
  <1>10. Reordered(AllMarked(s), sort(s))
    <2>1. PICK p \in Shuffle(n) :
            \A k \in 1..n : sort(s)[k] = IF k <= n THEN Marked(s[p[k]]) ELSE s[p[k]]
      BY <1>8 DEF SortedUpTo
    <2>2. AllMarked(s) = [k \in 1..n |-> Marked(s[k])]
      BY <1>4 DEF AllMarked
    <2>3. Len(AllMarked(s)) = n
      BY <2>2
    <2>4. \A k \in 1..n : k <= n /\ p[k] \in 1..n
      BY <2>1 DEF Shuffle
    <2>5. sort(s) = [k \in 1..n |-> AllMarked(s)[p[k]]]
      BY <1>9, <2>1, <2>2, <2>4
    <2>6. AllMarked(s) = [k \in 1..n |-> AllMarked(s)[k]]
      BY <2>2
    <2>7. ReorderedBy(AllMarked(s), sort(s), p)
      BY <1>9, <2>1, <2>3, <2>5, <2>6 DEF ReorderedBy
    <2> QED BY <2>7 DEF Reordered
  <1> QED BY <1>9, <1>10

-------------------------------------------------------------------------------
(* The merge of two lists. *)

LEMMA ConcatElements ==
  ASSUME NEW S, NEW s \in Seq(S), NEW t \in Seq(S)
  PROVE  /\ s \o t \in Seq(S) /\ Len(s \o t) = Len(s) + Len(t)
         /\ s \o t = [i \in 1..(Len(s) + Len(t)) |-> IF i <= Len(s) THEN s[i] ELSE t[i - Len(s)]]
  <1>1. /\ s \o t \in Seq(S) /\ Len(s \o t) = Len(s) + Len(t)
        /\ \A i \in 1..(Len(s) + Len(t)) : (s \o t)[i] = IF i <= Len(s) THEN s[i] ELSE t[i - Len(s)]
    BY ConcatProperties
  <1>2. PICK u : u = s \o t
    OBVIOUS
  <1>3. u \in [1..(Len(s) + Len(t)) -> S]
    <2>1. u \in Seq(S) /\ Len(u) = Len(s) + Len(t)
      BY <1>1, <1>2
    <2>2. u \in [1..Len(u) -> S]
      BY <2>1, LenProperties
    <2> QED BY <2>1, <2>2
  <1>4. u = [i \in 1..(Len(s) + Len(t)) |-> IF i <= Len(s) THEN s[i] ELSE t[i - Len(s)]]
    BY <1>1, <1>2, <1>3
  <1> QED BY <1>1, <1>2, <1>4

LEMMA PrependElements ==
  ASSUME NEW S, NEW x \in S, NEW s \in Seq(S)
  PROVE  /\ <<x>> \o s \in Seq(S) /\ Len(<<x>> \o s) = Len(s) + 1
         /\ <<x>> \o s = [i \in 1..(Len(s) + 1) |-> IF i = 1 THEN x ELSE s[i - 1]]
  <1>1. <<x>> \in Seq(S) /\ Len(<<x>>) = 1 /\ <<x>>[1] = x
    OBVIOUS
  <1>2. /\ <<x>> \o s \in Seq(S) /\ Len(<<x>> \o s) = 1 + Len(s)
        /\ <<x>> \o s = [i \in 1..(1 + Len(s)) |-> IF i <= 1 THEN <<x>>[i] ELSE s[i - 1]]
    BY <1>1, ConcatElements
  <1>3. Len(s) \in Nat /\ 1 + Len(s) = Len(s) + 1
    OBVIOUS
  <1>4. [i \in 1..(1 + Len(s)) |-> IF i <= 1 THEN <<x>>[i] ELSE s[i - 1]]
         = [i \in 1..(Len(s) + 1) |-> IF i = 1 THEN x ELSE s[i - 1]]
    BY <1>1, <1>3
  <1> QED BY <1>2, <1>3, <1>4

LEMMA ReorderedPrepend ==
  ASSUME NEW S, NEW x \in S, NEW s \in Seq(S), NEW t \in Seq(S), Reordered(s, t)
  PROVE  Reordered(<<x>> \o s, <<x>> \o t)
  <1>1. PICK p : ReorderedBy(s, t, p)
    BY DEF Reordered
  <1> DEFINE n == Len(s)
             q == [i \in 1..(n + 1) |-> IF i = 1 THEN 1 ELSE p[i - 1] + 1]
             u == <<x>> \o s
             v == <<x>> \o t
  <1>2. /\ p \in [1..n -> 1..n] /\ n \in Nat /\ Len(t) = n
        /\ \A i, j \in 1..n : p[i] = p[j] => i = j
        /\ \A j \in 1..n : \E i \in 1..n : p[i] = j
        /\ \A i \in 1..n : t[i] = s[p[i]]
    BY <1>1 DEF ReorderedBy, Shuffle
  <1>3. \A i \in 1..(n + 1) : i # 1 => i - 1 \in 1..n
    BY <1>2
  <1>4. \A i \in 1..(n + 1) : i # 1 => p[i - 1] \in 1..n
    <2>1. \A k \in 1..n : p[k] \in 1..n
      BY <1>2
    <2> HIDE DEF n
    <2> QED BY <1>3, <2>1, Zenon
  <1>5. q \in [1..(n + 1) -> 1..(n + 1)]
    <2>1. \A k \in 1..n : k + 1 \in 1..(n + 1)
      BY <1>2
    <2>2. 1 \in 1..(n + 1)
      BY <1>2
    <2> HIDE DEF n
    <2>3. \A i \in 1..(n + 1) : (IF i = 1 THEN 1 ELSE p[i - 1] + 1) \in 1..(n + 1)
      BY <1>4, <2>1, <2>2
    <2> QED BY <2>3
  <1>6. ASSUME NEW i \in 1..(n + 1), NEW j \in 1..(n + 1), q[i] = q[j]
        PROVE  i = j
    <2>1. i # 1 /\ j # 1 => p[i - 1] = p[j - 1]
      BY <1>4, <1>6
    <2>2. i # 1 /\ j # 1 => i - 1 = j - 1
      <3>1. \A a, b \in 1..n : p[a] = p[b] => a = b
        BY <1>2
      <3>2. i # 1 /\ j # 1 => i - 1 \in 1..n /\ j - 1 \in 1..n
        BY <1>3
      <3> QED BY <2>1, <3>1, <3>2, Zenon
    <2>3. \A k \in 1..(n + 1) : q[k] = 1 <=> k = 1
      <3>1. \A k \in 1..(n + 1) : k # 1 => p[k - 1] + 1 # 1
        BY <1>2, <1>4
      <3>2. \A k \in 1..(n + 1) : q[k] = IF k = 1 THEN 1 ELSE p[k - 1] + 1
        OBVIOUS
      <3> HIDE DEF q, n
      <3> QED BY <3>1, <3>2
    <2>4. i = 1 <=> j = 1
      BY <1>6, <2>3
    <2> QED BY <2>2, <2>4
  <1>7. \A j \in 1..(n + 1) : \E i \in 1..(n + 1) : q[i] = j
    <2>1. SUFFICES ASSUME NEW j \in 1..(n + 1), j # 1
                   PROVE  \E i \in 1..(n + 1) : q[i] = j
      BY <1>2
    <2>2. PICK i \in 1..n : p[i] = j - 1
      BY <1>2, <1>3, <2>1
    <2>3. i + 1 \in 1..(n + 1) /\ (i + 1) - 1 = i /\ i + 1 # 1
      BY <1>2
    <2>4. q[i + 1] = j
      BY <2>2, <2>3
    <2> QED BY <2>3, <2>4
  <1>8. q \in Shuffle(n + 1)
    <2> HIDE DEF q, n
    <2> QED BY <1>5, <1>6, <1>7 DEF Shuffle
  <1>9. /\ u = [i \in 1..(n + 1) |-> IF i = 1 THEN x ELSE s[i - 1]]
        /\ v = [i \in 1..(n + 1) |-> IF i = 1 THEN x ELSE t[i - 1]]
        /\ Len(u) = n + 1 /\ Len(v) = n + 1
    BY <1>2, PrependElements
  <1> HIDE DEF u, v
  <1>10. \A i \in 1..(n + 1) : v[i] = u[q[i]]
    <2>1. SUFFICES ASSUME NEW i \in 1..(n + 1)
                   PROVE  v[i] = u[q[i]]
      OBVIOUS
    <2>2. CASE i = 1
      BY <1>2, <1>9, <2>2
    <2>3. CASE i # 1
      <3>1. q[i] = p[i - 1] + 1 /\ q[i] \in 1..(n + 1) /\ q[i] # 1
        BY <1>2, <1>4, <2>3
      <3>2. u[q[i]] = s[p[i - 1]] /\ v[i] = t[i - 1]
        <4>1. q[i] - 1 = p[i - 1]
          BY <1>4, <2>3, <3>1
        <4> HIDE DEF q, n
        <4> QED BY <1>9, <2>3, <3>1, <4>1
      <3> QED BY <1>2, <1>3, <2>3, <3>2
    <2> QED BY <2>2, <2>3
  <1>11. ReorderedBy(u, v, q)
    <2>1. u = [i \in 1..(n + 1) |-> u[i]] /\ v = [i \in 1..(n + 1) |-> u[q[i]]]
      <3>1. \E w : u = [i \in 1..(n + 1) |-> w[i]]
        <4>1. u = [i \in 1..(n + 1) |-> [k \in 1..(n + 1) |-> IF k = 1 THEN x ELSE s[k - 1]][i]]
          BY <1>9
        <4> QED BY <4>1
      <3>2. v = [i \in 1..(n + 1) |-> v[i]]
        BY <1>9
      <3> HIDE DEF q, n
      <3> QED BY <1>10, <3>1, <3>2
    <2>2. n + 1 \in Nat
      BY <1>2
    <2> HIDE DEF q, n
    <2> QED BY <1>8, <1>9, <2>1, <2>2 DEF ReorderedBy
  <1> QED BY <1>11 DEF Reordered, u, v

LEMMA MoveToFront ==
  ASSUME NEW S, NEW x \in S, NEW a \in Seq(S), NEW b \in Seq(S)
  PROVE  Reordered(a \o (<<x>> \o b), <<x>> \o (a \o b))
  <1> DEFINE m == Len(a)
             n == Len(a) + Len(b) + 1
             p == [k \in 1..n |-> IF k = 1 THEN m + 1 ELSE IF k <= m + 1 THEN k - 1 ELSE k]
             u == a \o (<<x>> \o b)
             v == <<x>> \o (a \o b)
  <1>1. m \in Nat /\ Len(b) \in Nat /\ n \in Nat /\ m + 1 <= n
    OBVIOUS
  <1>2. p \in Shuffle(n)
    <2>1. p \in [1..n -> 1..n]
      BY <1>1
    <2>2. \A i, j \in 1..n : p[i] = p[j] => i = j
      BY <1>1
    <2>3. ASSUME NEW j \in 1..n
          PROVE  \E i \in 1..n : p[i] = j
      <3>1. CASE j = m + 1
        BY <1>1, <3>1
      <3>2. CASE j <= m
        <4>1. j + 1 \in 1..n /\ p[j + 1] = j
          BY <1>1, <3>2
        <4> QED BY <4>1
      <3>3. CASE j > m + 1
        <4>1. p[j] = j
          BY <1>1, <3>3
        <4> QED BY <4>1
      <3> QED BY <1>1, <3>1, <3>2, <3>3
    <2> HIDE DEF p, n
    <2> QED BY <2>1, <2>2, <2>3 DEF Shuffle
  <1>3. /\ <<x>> \o b \in Seq(S) /\ Len(<<x>> \o b) = Len(b) + 1
        /\ <<x>> \o b = [i \in 1..(Len(b) + 1) |-> IF i = 1 THEN x ELSE b[i - 1]]
    BY PrependElements
  <1>4. /\ Len(u) = n
        /\ u = [i \in 1..n |-> IF i <= m THEN a[i] ELSE (<<x>> \o b)[i - m]]
    <2>1. m + (Len(b) + 1) = n
      BY <1>1
    <2> QED BY <1>3, <2>1, ConcatElements
  <1>5. u = [i \in 1..n |-> IF i <= m THEN a[i] ELSE IF i = m + 1 THEN x ELSE b[i - m - 1]]
    <2>1. ASSUME NEW i \in 1..n, ~(i <= m)
          PROVE  (<<x>> \o b)[i - m] = IF i = m + 1 THEN x ELSE b[i - m - 1]
      <3>1. i - m \in 1..(Len(b) + 1) /\ (i - m = 1 <=> i = m + 1)
        BY <1>1, <2>1
      <3> HIDE DEF n, m
      <3> QED BY <1>3, <3>1
    <2> HIDE DEF n, m, u
    <2> QED BY <1>4, <2>1
  <1>6. /\ a \o b \in Seq(S) /\ Len(a \o b) = m + Len(b)
        /\ a \o b = [i \in 1..(m + Len(b)) |-> IF i <= m THEN a[i] ELSE b[i - m]]
    BY ConcatElements
  <1>7. /\ Len(v) = n
        /\ v = [i \in 1..n |-> IF i = 1 THEN x ELSE (a \o b)[i - 1]]
    BY <1>6, PrependElements
  <1>8. \A i \in 1..n : v[i] = u[p[i]]
    <2>1. SUFFICES ASSUME NEW i \in 1..n
                   PROVE  v[i] = u[p[i]]
      OBVIOUS
    <2>2. p[i] \in 1..n
      BY <1>1
    <2>3. u[p[i]] = IF p[i] <= m THEN a[p[i]] ELSE IF p[i] = m + 1 THEN x ELSE b[p[i] - m - 1]
      <3> HIDE DEF n, m, u, p
      <3> QED BY <1>5, <2>2
    <2>4. CASE i = 1
      <3>1. p[i] = m + 1
        BY <2>4
      <3>2. ~(m + 1 <= m)
        BY <1>1
      <3> HIDE DEF n, m, u, p, v
      <3> QED BY <1>7, <2>3, <2>4, <3>1, <3>2
    <2>5. CASE i # 1 /\ i <= m + 1
      <3>1. p[i] = i - 1 /\ i - 1 <= m /\ i - 1 \in 1..(m + Len(b))
        BY <1>1, <2>5
      <3> HIDE DEF n, m, u, p, v
      <3> QED BY <1>6, <1>7, <2>3, <2>5, <3>1
    <2>6. CASE i > m + 1
      <3>1. p[i] = i /\ i - 1 \in 1..(m + Len(b)) /\ ~(i - 1 <= m) /\ i # 1 /\ ~(i <= m)
            /\ i # m + 1 /\ (i - 1) - m = i - m - 1
        BY <1>1, <2>6
      <3> HIDE DEF n, m, u, p, v
      <3> QED BY <1>6, <1>7, <2>3, <3>1
    <2> QED BY <1>1, <2>4, <2>5, <2>6
  <1>9. ReorderedBy(u, v, p)
    <2> HIDE DEF n, m, u, p, v
    <2>1. u = [i \in 1..n |-> u[i]] /\ v = [i \in 1..n |-> u[p[i]]]
      BY <1>5, <1>7, <1>8
    <2> QED BY <1>1, <1>2, <1>4, <1>7, <2>1 DEF ReorderedBy
  <1> QED BY <1>9 DEF Reordered

\* What the merge makes of the rest of s from i on and of t from j on.
Rest(s, t, m, n, i, j) == SubSeq(s, i, m) \o SubSeq(t, j, n)

MergeStep(s, t, m, n, f, i, j) ==
  IF i > m \/ j > n THEN Rest(s, t, m, n, i, j)
  ELSE IF Before(s[i], t[j]) THEN <<s[i]>> \o f[<<i + 1, j>>]
                             ELSE <<t[j]>> \o f[<<i, j + 1>>]

LEMMA MergedIs ==
  ASSUME NEW m \in Nat, NEW n \in Nat, NEW s \in [1..m -> Movie], NEW t \in [1..n -> Movie]
  PROVE  \E f : /\ f \in [(1..(m + 1)) \X (1..(n + 1)) -> Seq(Movie)]
                /\ \A i \in 1..(m + 1), j \in 1..(n + 1) : f[<<i, j>>] = MergeStep(s, t, m, n, f, i, j)
                /\ Merged(s, t) = f[<<1, 1>>]
  <1> DEFINE D  == (1..(m + 1)) \X (1..(n + 1))
             X  == Seq(Movie)
             mu == [d \in D |-> (m + 1 - d[1]) + (n + 1 - d[2])]
             G  == [p \in D \X [D -> X] |-> MergeStep(s, t, m, n, p[2], p[1][1], p[1][2])]
  <1>1. \A d \in D : d[1] \in 1..(m + 1) /\ d[2] \in 1..(n + 1) /\ d = <<d[1], d[2]>>
    OBVIOUS
  <1>2. mu \in [D -> Nat] /\ \A d \in D : mu[d] <= m + n
    <2>1. \A d \in D : mu[d] = (m + 1 - d[1]) + (n + 1 - d[2])
      OBVIOUS
    <2>2. \A a \in 1..(m + 1), b \in 1..(n + 1) : (m + 1 - a) + (n + 1 - b) \in Nat
                                                /\ (m + 1 - a) + (n + 1 - b) <= m + n
      OBVIOUS
    <2>3. \A d \in D : mu[d] \in Nat /\ mu[d] <= m + n
      BY <1>1, <2>1, <2>2
    <2> QED BY <2>3
  <1>3. ASSUME NEW i \in 1..(m + 1), NEW j \in 1..(n + 1), NEW f \in [D -> X]
        PROVE  /\ MergeStep(s, t, m, n, f, i, j) \in X
               /\ <<i, j>> \in D
               /\ ~(i > m \/ j > n) => /\ <<i + 1, j>> \in D /\ <<i, j + 1>> \in D
                                       /\ mu[<<i + 1, j>>] < mu[<<i, j>>]
                                       /\ mu[<<i, j + 1>>] < mu[<<i, j>>]
    <2>1. SubSeq(s, i, m) \in X /\ SubSeq(t, j, n) \in X
      <3>1. s \in Seq(Movie) /\ t \in Seq(Movie) /\ Len(s) = m /\ Len(t) = n
        OBVIOUS
      <3> QED BY <3>1, SubSeqProperties
    <2>2. Rest(s, t, m, n, i, j) \in X
      BY <2>1, ConcatProperties DEF Rest
    <2>3. ASSUME ~(i > m \/ j > n)
          PROVE  /\ <<i + 1, j>> \in D /\ <<i, j + 1>> \in D
                 /\ mu[<<i + 1, j>>] < mu[<<i, j>>]
                 /\ mu[<<i, j + 1>>] < mu[<<i, j>>]
                 /\ s[i] \in Movie /\ t[j] \in Movie
      <3>1. i \in 1..m /\ j \in 1..n /\ i + 1 \in 1..(m + 1) /\ j + 1 \in 1..(n + 1)
        BY <2>3
      <3>2. \A a \in 1..(m + 1), b \in 1..(n + 1) :
              <<a, b>> \in D /\ mu[<<a, b>>] = (m + 1 - a) + (n + 1 - b)
        OBVIOUS
      <3> HIDE DEF D, mu
      <3>3. /\ <<i + 1, j>> \in D /\ <<i, j + 1>> \in D
            /\ mu[<<i, j>>] = (m + 1 - i) + (n + 1 - j)
            /\ mu[<<i + 1, j>>] = (m + 1 - (i + 1)) + (n + 1 - j)
            /\ mu[<<i, j + 1>>] = (m + 1 - i) + (n + 1 - (j + 1))
        BY <3>1, <3>2, Zenon
      <3>4. /\ (m + 1 - (i + 1)) + (n + 1 - j) < (m + 1 - i) + (n + 1 - j)
            /\ (m + 1 - i) + (n + 1 - (j + 1)) < (m + 1 - i) + (n + 1 - j)
        OBVIOUS
      <3>5. mu[<<i + 1, j>>] < mu[<<i, j>>] /\ mu[<<i, j + 1>>] < mu[<<i, j>>]
        BY <3>3, <3>4
      <3> QED BY <3>1, <3>3, <3>5
    <2>4. ~(i > m \/ j > n) => /\ <<s[i]>> \o f[<<i + 1, j>>] \in X
                               /\ <<t[j]>> \o f[<<i, j + 1>>] \in X
      <3>1. SUFFICES ASSUME ~(i > m \/ j > n)
                     PROVE  /\ <<s[i]>> \o f[<<i + 1, j>>] \in X
                            /\ <<t[j]>> \o f[<<i, j + 1>>] \in X
        OBVIOUS
      <3>2. /\ f[<<i + 1, j>>] \in X /\ f[<<i, j + 1>>] \in X
            /\ s[i] \in Movie /\ t[j] \in Movie
        <4> HIDE DEF D, X
        <4> QED BY <2>3, <3>1
      <3> QED BY <3>2, PrependElements
    <2>5. <<i, j>> \in D
      OBVIOUS
    <2> HIDE DEF D, X, mu
    <2> QED BY <2>2, <2>3, <2>4, <2>5 DEF MergeStep
  <1>4. \A d \in D : \A f \in [D -> X] : G[<<d, f>>] = MergeStep(s, t, m, n, f, d[1], d[2])
    <2>1. \A d \in D : \A f \in [D -> X] : <<d, f>> \in D \X [D -> X]
      OBVIOUS
    <2> HIDE DEF D, X
    <2> QED BY <2>1
  <1>5. G \in [D \X [D -> X] -> X]
    <2>1. \A p \in D \X [D -> X] : p[1] \in D /\ p[2] \in [D -> X]
      OBVIOUS
    <2>2. \A p \in D \X [D -> X] : MergeStep(s, t, m, n, p[2], p[1][1], p[1][2]) \in X
      <3> HIDE DEF D, X
      <3> QED BY <1>1, <1>3, <2>1
    <2> HIDE DEF D, X
    <2> QED BY <2>2
  <1>6. ASSUME NEW d \in D, NEW f \in [D -> X], NEW g \in [D -> X],
               \A e \in D : mu[e] < mu[d] => f[e] = g[e]
        PROVE  G[<<d, f>>] = G[<<d, g>>]
    <2>1. PICK i \in 1..(m + 1), j \in 1..(n + 1) : d = <<i, j>> /\ i = d[1] /\ j = d[2]
      BY <1>1
    <2>2. ~(i > m \/ j > n) => /\ f[<<i + 1, j>>] = g[<<i + 1, j>>]
                               /\ f[<<i, j + 1>>] = g[<<i, j + 1>>]
      <3> HIDE DEF D, X, mu
      <3> QED BY <1>3, <1>6, <2>1
    <2>3. MergeStep(s, t, m, n, f, i, j) = MergeStep(s, t, m, n, g, i, j)
      BY <2>2 DEF MergeStep
    <2> HIDE DEF D, X, G
    <2> QED BY <1>4, <2>1, <2>3
  <1>7. Recursive(D, X, mu, m + n, G)
    <2>1. X # {} /\ m + n \in Nat
      <3>1. <<>> \in X
        OBVIOUS
      <3> QED BY <3>1
    <2> HIDE DEF D, X, mu, G
    <2> QED BY <1>2, <1>5, <1>6, <2>1 DEF Recursive
  <1>8. PICK f \in [D -> X] : \A d \in D : f[d] = G[<<d, f>>]
    <2> HIDE DEF D, X, mu, G
    <2> QED BY <1>7, RecursiveFunction
  <1>9. \A i \in 1..(m + 1), j \in 1..(n + 1) : f[<<i, j>>] = MergeStep(s, t, m, n, f, i, j)
    <2>1. \A i \in 1..(m + 1), j \in 1..(n + 1) :
            <<i, j>> \in D /\ <<i, j>>[1] = i /\ <<i, j>>[2] = j
      OBVIOUS
    <2> HIDE DEF D, X, G
    <2>2. \A d \in D : f[d] = MergeStep(s, t, m, n, f, d[1], d[2])
      BY <1>4, <1>8
    <2>3. ASSUME NEW i \in 1..(m + 1), NEW j \in 1..(n + 1)
          PROVE  f[<<i, j>>] = MergeStep(s, t, m, n, f, i, j)
      <3>1. <<i, j>> \in D /\ <<i, j>>[1] = i /\ <<i, j>>[2] = j
        BY <2>1
      <3> QED BY <2>2, <3>1
    <2> QED BY <2>3
  <1>10. Len(s) = m /\ Len(t) = n
    OBVIOUS
  <1> DEFINE Def(g) ==
        g = [k \in (1..(Len(s) + 1)) \X (1..(Len(t) + 1)) |->
               IF k[1] > Len(s) \/ k[2] > Len(t)
               THEN SubSeq(s, k[1], Len(s)) \o SubSeq(t, k[2], Len(t))
               ELSE IF Before(s[k[1]], t[k[2]]) THEN <<s[k[1]]>> \o g[<<k[1] + 1, k[2]>>]
                                                ELSE <<t[k[2]]>> \o g[<<k[1], k[2] + 1>>]]
  <1>11. \A g : Def(g) <=> g = [d \in D |-> MergeStep(s, t, m, n, g, d[1], d[2])]
    BY <1>10 DEF MergeStep, Rest
  <1>12. Def(f)
    <2>1. f = [d \in D |-> f[d]]
      OBVIOUS
    <2>2. \A d \in D : f[d] = MergeStep(s, t, m, n, f, d[1], d[2])
      BY <1>1, <1>9
    <2> HIDE DEF D, Def
    <2> QED BY <1>11, <2>1, <2>2
  <1>13. PICK g : Def(g) /\ Merged(s, t) = g[<<1, 1>>]
    <2>1. Def(CHOOSE h : Def(h))
      <3> HIDE DEF Def
      <3> QED BY <1>12
    <2>2. Merged(s, t) = (CHOOSE h : Def(h))[<<1, 1>>]
      BY Zenon DEF Merged
    <2> QED BY <2>1, <2>2
  <1>14. \A d \in D : g[d] = f[d]
    <2> DEFINE S == {w \in 0..(m + n) : \A d \in D : mu[d] <= w => g[d] = f[d]}
    <2>0. g = [d \in D |-> MergeStep(s, t, m, n, g, d[1], d[2])]
      <3> HIDE DEF D, Def
      <3> QED BY <1>11, <1>13
    <2>1. ASSUME NEW d \in D, \A e \in D : mu[e] < mu[d] => g[e] = f[e]
          PROVE  g[d] = f[d]
      <3>1. PICK i \in 1..(m + 1), j \in 1..(n + 1) : d = <<i, j>> /\ i = d[1] /\ j = d[2]
        BY <1>1
      <3>2. ~(i > m \/ j > n) => /\ f[<<i + 1, j>>] = g[<<i + 1, j>>]
                                 /\ f[<<i, j + 1>>] = g[<<i, j + 1>>]
        <4> HIDE DEF D, X, mu
        <4> QED BY <1>3, <2>1, <3>1
      <3>3. MergeStep(s, t, m, n, f, i, j) = MergeStep(s, t, m, n, g, i, j)
        BY <3>2 DEF MergeStep
      <3> HIDE DEF D, Def
      <3> QED BY <1>9, <2>0, <3>1, <3>3
    <2>2. 0 \in S
      <3>1. ASSUME NEW d \in D, mu[d] <= 0
            PROVE  \A e \in D : ~(mu[e] < mu[d])
        <4> HIDE DEF D, mu
        <4> QED BY <1>2, <3>1
      <3>2. \A d \in D : mu[d] <= 0 => g[d] = f[d]
        <4> HIDE DEF D, mu, Def
        <4> QED BY <2>1, <3>1
      <3> HIDE DEF D, mu, Def
      <3> QED BY <3>2
    <2>3. ASSUME NEW w \in 0..(m + n), w < m + n, w \in S
          PROVE  w + 1 \in S
      <3> HIDE DEF D, mu, Def
      <3>1. ASSUME NEW d \in D, mu[d] <= w + 1
            PROVE  g[d] = f[d]
        <4>1. \A e \in D : mu[e] < mu[d] => mu[e] <= w
          BY <1>2, <3>1
        <4>2. \A e \in D : mu[e] < mu[d] => g[e] = f[e]
          BY <2>3, <4>1
        <4> QED BY <2>1, <4>2
      <3> QED BY <2>3, <3>1
    <2>4. Inductive(S, 0, m + n)
      <3> HIDE DEF S
      <3> QED BY <2>2, <2>3 DEF Inductive
    <2>5. \A w \in 0..(m + n) : w \in S
      <3> HIDE DEF S
      <3> QED BY <2>4, InductionTo
    <2> HIDE DEF D, mu, Def
    <2>6. m + n \in 0..(m + n)
      OBVIOUS
    <2> QED BY <1>2, <2>5, <2>6
  <1>15. Merged(s, t) = f[<<1, 1>>]
    <2>1. <<1, 1>> \in D
      OBVIOUS
    <2> HIDE DEF D, Def
    <2> QED BY <1>13, <1>14, <2>1
  <1> QED BY <1>9, <1>15

LEMMA TailElements ==
  ASSUME NEW S, NEW m \in Nat, NEW s \in [1..m -> S], NEW i \in 1..(m + 1)
  PROVE  /\ SubSeq(s, i, m) \in Seq(S) /\ Len(SubSeq(s, i, m)) = m + 1 - i
         /\ \A k \in 1..(m + 1 - i) : SubSeq(s, i, m)[k] = s[i + k - 1]
         /\ i <= m => SubSeq(s, i, m) = <<s[i]>> \o SubSeq(s, i + 1, m)
  <1>1. s \in Seq(S) /\ Len(s) = m /\ \A k \in i..m : s[k] \in S
    OBVIOUS
  <1>2. /\ SubSeq(s, i, m) \in Seq(S)
        /\ Len(SubSeq(s, i, m)) = IF i <= m THEN m - i + 1 ELSE 0
        /\ \A k \in 1..(m - i + 1) : SubSeq(s, i, m)[k] = s[i + k - 1]
    BY <1>1, SubSeqProperties
  <1>3. m - i + 1 = m + 1 - i /\ (IF i <= m THEN m - i + 1 ELSE 0) = m + 1 - i
    OBVIOUS
  <1>4. i <= m => SubSeq(s, i, m) = <<s[i]>> \o SubSeq(s, i + 1, m)
    <2>1. i <= m => i \in 1..Len(s) /\ m \in i..Len(s)
      BY <1>1
    <2> QED BY <1>1, <2>1, SubSeqRecursiveFirst
  <1> QED BY <1>2, <1>3, <1>4

\* What is left of two lists holds their movies from i and from j on.
LEMMA RestElements ==
  ASSUME NEW m \in Nat, NEW n \in Nat, NEW s \in [1..m -> Movie], NEW t \in [1..n -> Movie],
         NEW i \in 1..(m + 1), NEW j \in 1..(n + 1)
  PROVE  /\ Rest(s, t, m, n, i, j) \in Seq(Movie)
         /\ \A k \in 1..Len(Rest(s, t, m, n, i, j)) :
              \/ \E a \in i..m : Rest(s, t, m, n, i, j)[k] = s[a]
              \/ \E b \in j..n : Rest(s, t, m, n, i, j)[k] = t[b]
  <1> DEFINE u == SubSeq(s, i, m)
             v == SubSeq(t, j, n)
  <1>1. /\ u \in Seq(Movie) /\ Len(u) = m + 1 - i
        /\ \A k \in 1..(m + 1 - i) : u[k] = s[i + k - 1]
    BY TailElements
  <1>2. /\ v \in Seq(Movie) /\ Len(v) = n + 1 - j
        /\ \A k \in 1..(n + 1 - j) : v[k] = t[j + k - 1]
    BY TailElements
  <1> HIDE DEF u, v
  <1>3. /\ u \o v \in Seq(Movie) /\ Len(u \o v) = Len(u) + Len(v)
        /\ u \o v = [k \in 1..(Len(u) + Len(v)) |-> IF k <= Len(u) THEN u[k] ELSE v[k - Len(u)]]
    BY <1>1, <1>2, ConcatElements
  <1>4. ASSUME NEW k \in 1..(Len(u) + Len(v))
        PROVE  (\E a \in i..m : (u \o v)[k] = s[a]) \/ (\E b \in j..n : (u \o v)[k] = t[b])
    <2>1. CASE k <= Len(u)
      <3>1. k \in 1..(m + 1 - i) /\ i + k - 1 \in i..m
        BY <1>1, <2>1
      <3>2. (u \o v)[k] = s[i + k - 1]
        BY <1>1, <1>3, <2>1, <3>1
      <3> QED BY <3>1, <3>2
    <2>2. CASE ~(k <= Len(u))
      <3>1. k - Len(u) \in 1..(n + 1 - j) /\ j + (k - Len(u)) - 1 \in j..n
        BY <1>1, <1>2, <2>2
      <3>2. (u \o v)[k] = v[k - Len(u)]
        BY <1>3, <2>2
      <3>3. v[k - Len(u)] = t[j + (k - Len(u)) - 1]
        BY <1>2, <3>1
      <3> QED BY <3>1, <3>2, <3>3
    <2> QED BY <2>1, <2>2
  <1>5. u \o v = Rest(s, t, m, n, i, j)
    BY DEF Rest, u, v
  <1> QED BY <1>3, <1>4, <1>5

LEMMA SubSeqMovies ==
  ASSUME NEW a, NEW x \in Int, NEW y \in Int, \A k \in x..y : a[k] \in Movie
  PROVE  /\ SubSeq(a, x, y) \in Seq(Movie)
         /\ Len(SubSeq(a, x, y)) = IF x <= y THEN y - x + 1 ELSE 0
         /\ \A k \in 1..(y - x + 1) : SubSeq(a, x, y)[k] = a[x + k - 1]
  BY SubSeqProperties

LEMMA ConcatMovies ==
  ASSUME NEW x \in Seq(Movie), NEW y \in Seq(Movie), NEW z \in Seq(Movie)
  PROVE  (x \o y) \o z = x \o (y \o z)
  BY ConcatAssociative

\* The rest is what is merged first, before what is left of it.
LEMMA RestMoves ==
  ASSUME NEW m \in Nat, NEW n \in Nat, NEW s \in [1..m -> Movie], NEW t \in [1..n -> Movie],
         NEW i \in 1..m, NEW j \in 1..n
  PROVE  /\ Reordered(Rest(s, t, m, n, i, j), <<s[i]>> \o Rest(s, t, m, n, i + 1, j))
         /\ Reordered(Rest(s, t, m, n, i, j), <<t[j]>> \o Rest(s, t, m, n, i, j + 1))
  <1>1. /\ i \in 1..(m + 1) /\ i + 1 \in 1..(m + 1) /\ i <= m
        /\ j \in 1..(n + 1) /\ j + 1 \in 1..(n + 1) /\ j <= n
    OBVIOUS
  <1>2. PICK a, aa : /\ a = SubSeq(s, i, m) /\ aa = SubSeq(s, i + 1, m)
                     /\ a \in Seq(Movie) /\ aa \in Seq(Movie) /\ a = <<s[i]>> \o aa
    <2>1. \A x \in 1..(m + 1) : SubSeq(s, x, m) \in Seq(Movie)
      BY TailElements
    <2>2. i <= m => SubSeq(s, i, m) = <<s[i]>> \o SubSeq(s, i + 1, m)
      BY <1>1, TailElements
    <2> QED BY <1>1, <2>1, <2>2, Zenon
  <1>3. PICK b, bb : /\ b = SubSeq(t, j, n) /\ bb = SubSeq(t, j + 1, n)
                     /\ b \in Seq(Movie) /\ bb \in Seq(Movie) /\ b = <<t[j]>> \o bb
    <2>1. \A x \in 1..(n + 1) : SubSeq(t, x, n) \in Seq(Movie)
      BY TailElements
    <2>2. j <= n => SubSeq(t, j, n) = <<t[j]>> \o SubSeq(t, j + 1, n)
      BY <1>1, TailElements
    <2> QED BY <1>1, <2>1, <2>2, Zenon
  <1>4. s[i] \in Movie /\ t[j] \in Movie /\ <<s[i]>> \in Seq(Movie)
    OBVIOUS
  <1>5. Reordered(a \o b, <<s[i]>> \o (aa \o b))
    <2>1. a \o b = <<s[i]>> \o (aa \o b)
      <3>1. PICK x : x = <<s[i]>> /\ x \in Seq(Movie)
        BY <1>4
      <3>2. (x \o aa) \o b = x \o (aa \o b)
        <4>1. x \in Seq(Movie) /\ aa \in Seq(Movie) /\ b \in Seq(Movie)
          BY <1>2, <1>3, <3>1
        <4> QED BY <4>1, ConcatMovies
      <3> QED BY <1>2, <3>1, <3>2
    <2>2. a \o b \in Seq(Movie)
      BY <1>2, <1>3, ConcatProperties
    <2>3. Reordered(a \o b, a \o b)
      BY <2>2, ReorderedSame
    <2> QED BY <2>1, <2>3
  <1>6. Reordered(a \o b, <<t[j]>> \o (a \o bb))
    BY <1>2, <1>3, <1>4, MoveToFront
  <1> QED BY <1>2, <1>3, <1>5, <1>6 DEF Rest

LEMMA SortedPrepend ==
  ASSUME NEW x \in Movie, NEW s \in Seq(Movie), Sorted(s), \A k \in 1..Len(s) : ~Before(s[k], x)
  PROVE  Sorted(<<x>> \o s)
  <1>1. PICK u : u = <<x>> \o s
    OBVIOUS
  <1>2. Len(u) = Len(s) + 1 /\ u = [i \in 1..(Len(s) + 1) |-> IF i = 1 THEN x ELSE s[i - 1]]
    BY <1>1, PrependElements
  <1>3. ASSUME NEW i \in 1..(Len(s) + 1), NEW j \in 1..(Len(s) + 1), i < j
        PROVE  ~Before(u[j], u[i])
    <2>1. j - 1 \in 1..Len(s) /\ u[j] = s[j - 1]
      BY <1>2, <1>3
    <2>2. CASE i = 1
      BY <1>2, <2>1, <2>2
    <2>3. CASE i # 1
      <3>1. i - 1 \in 1..Len(s) /\ u[i] = s[i - 1] /\ i - 1 < j - 1
        BY <1>2, <1>3, <2>3
      <3> QED BY <2>1, <3>1 DEF Sorted
    <2> QED BY <2>2, <2>3
  <1> QED BY <1>1, <1>2, <1>3 DEF Sorted

\* What the merge returns is no other than the two lists, and in order if both are.
LEMMA MergedMerges ==
  ASSUME NEW m \in Nat, NEW n \in Nat, NEW s \in [1..m -> Movie], NEW t \in [1..n -> Movie]
  PROVE  /\ Reordered(s \o t, Merged(s, t))
         /\ Sorted(s) /\ Sorted(t) => Sorted(Merged(s, t))
  <1>1. PICK f : /\ f \in [(1..(m + 1)) \X (1..(n + 1)) -> Seq(Movie)]
                 /\ \A i \in 1..(m + 1), j \in 1..(n + 1) :
                      f[<<i, j>>] = MergeStep(s, t, m, n, f, i, j)
                 /\ Merged(s, t) = f[<<1, 1>>]
    BY MergedIs
  <1> DEFINE Good(i, j) == /\ Reordered(Rest(s, t, m, n, i, j), f[<<i, j>>])
                           /\ Sorted(s) /\ Sorted(t) => Sorted(f[<<i, j>>])
             weight(i, j) == (m + 1 - i) + (n + 1 - j)
             S == {w \in 0..(m + n) : \A i \in 1..(m + 1), j \in 1..(n + 1) :
                                        weight(i, j) <= w => Good(i, j)}
  <1>2. \A i \in 1..(m + 1), j \in 1..(n + 1) : f[<<i, j>>] \in Seq(Movie)
    BY <1>1
  <1> DEFINE Holds(r, i, j) ==
        /\ r \in Seq(Movie)
        /\ \A k \in 1..Len(r) : (\E a \in i..m : r[k] = s[a]) \/ (\E b \in j..n : r[k] = t[b])
  <1>0. \A i \in 1..(m + 1), j \in 1..(n + 1) : Holds(Rest(s, t, m, n, i, j), i, j)
    BY RestElements
  <1>3. ASSUME NEW i \in 1..(m + 1), NEW j \in 1..(n + 1), i > m \/ j > n
        PROVE  Good(i, j)
    <2>1. f[<<i, j>>] = Rest(s, t, m, n, i, j)
      BY <1>1, <1>3 DEF MergeStep
    <2>2. Reordered(Rest(s, t, m, n, i, j), f[<<i, j>>])
      <3>1. Rest(s, t, m, n, i, j) \in Seq(Movie)
        BY <1>0
      <3>2. Reordered(Rest(s, t, m, n, i, j), Rest(s, t, m, n, i, j))
        BY <3>1, ReorderedSame
      <3> QED BY <2>1, <3>2, Zenon
    <2>3. ASSUME Sorted(s), Sorted(t)
          PROVE  Sorted(f[<<i, j>>])
      <3>1. /\ SubSeq(s, i, m) \in Seq(Movie) /\ Len(SubSeq(s, i, m)) = m + 1 - i
            /\ \A k \in 1..(m + 1 - i) : SubSeq(s, i, m)[k] = s[i + k - 1]
        BY TailElements
      <3>2. /\ SubSeq(t, j, n) \in Seq(Movie) /\ Len(SubSeq(t, j, n)) = n + 1 - j
            /\ \A k \in 1..(n + 1 - j) : SubSeq(t, j, n)[k] = t[j + k - 1]
        BY TailElements
      <3>3. Len(s) = m /\ Len(t) = n
        OBVIOUS
      <3>4. CASE i > m
        <4>1. m + 1 - i = 0
          BY <3>4
        <4>2. SubSeq(s, i, m) = <<>>
          BY <3>1, <4>1, EmptySeq
        <4>3. f[<<i, j>>] = SubSeq(t, j, n)
          BY <2>1, <3>2, <4>2, ConcatEmptySeq DEF Rest
        <4>4. \A a, b \in 1..(n + 1 - j) : a < b => ~Before(SubSeq(t, j, n)[b], SubSeq(t, j, n)[a])
          <5>1. SUFFICES ASSUME NEW a \in 1..(n + 1 - j), NEW b \in 1..(n + 1 - j), a < b
                         PROVE  ~Before(t[j + b - 1], t[j + a - 1])
            BY <3>2
          <5>2. j + a - 1 \in 1..n /\ j + b - 1 \in 1..n /\ j + a - 1 < j + b - 1
            BY <5>1
          <5> QED BY <2>3, <3>3, <5>2 DEF Sorted
        <4> QED BY <3>2, <4>3, <4>4 DEF Sorted
      <3>5. CASE j > n
        <4>1. n + 1 - j = 0
          BY <3>5
        <4>2. SubSeq(t, j, n) = <<>>
          BY <3>2, <4>1, EmptySeq
        <4>3. f[<<i, j>>] = SubSeq(s, i, m)
          BY <2>1, <3>1, <4>2, ConcatEmptySeq DEF Rest
        <4>4. \A a, b \in 1..(m + 1 - i) : a < b => ~Before(SubSeq(s, i, m)[b], SubSeq(s, i, m)[a])
          <5>1. SUFFICES ASSUME NEW a \in 1..(m + 1 - i), NEW b \in 1..(m + 1 - i), a < b
                         PROVE  ~Before(s[i + b - 1], s[i + a - 1])
            BY <3>1
          <5>2. i + a - 1 \in 1..m /\ i + b - 1 \in 1..m /\ i + a - 1 < i + b - 1
            BY <5>1
          <5> QED BY <2>3, <3>3, <5>2 DEF Sorted
        <4> QED BY <3>1, <4>3, <4>4 DEF Sorted
      <3> QED BY <1>3, <3>4, <3>5
    <2> QED BY <2>2, <2>3
  <1>4. ASSUME NEW i \in 1..m, NEW j \in 1..n, Good(i + 1, j), Good(i, j + 1)
        PROVE  Good(i, j)
    <2>1. /\ i \in 1..(m + 1) /\ i + 1 \in 1..(m + 1) /\ ~(i > m)
          /\ j \in 1..(n + 1) /\ j + 1 \in 1..(n + 1) /\ ~(j > n)
          /\ s[i] \in Movie /\ t[j] \in Movie
          /\ Len(s) = m /\ Len(t) = n
      OBVIOUS
    <2>2. CASE Before(s[i], t[j])
      <3>1. f[<<i, j>>] = <<s[i]>> \o f[<<i + 1, j>>]
        BY <1>1, <2>1, <2>2 DEF MergeStep
      <3>2. PICK r, g : /\ r = Rest(s, t, m, n, i + 1, j) /\ g = f[<<i + 1, j>>]
                        /\ Holds(r, i + 1, j) /\ g \in Seq(Movie)
        <4> HIDE DEF Holds
        <4> QED BY <1>0, <1>2, <2>1
      <3>3. Reordered(Rest(s, t, m, n, i, j), f[<<i, j>>])
        <4>1. Reordered(r, g)
          BY <1>4, <3>2
        <4>2. Reordered(<<s[i]>> \o r, <<s[i]>> \o g)
          BY <2>1, <3>2, <4>1, ReorderedPrepend
        <4>3. Reordered(Rest(s, t, m, n, i, j), <<s[i]>> \o r)
          BY <3>2, RestMoves
        <4> QED BY <3>1, <3>2, <4>2, <4>3, ReorderedTwice
      <3>4. ASSUME Sorted(s), Sorted(t)
            PROVE  Sorted(f[<<i, j>>])
        <4>1. ASSUME NEW k \in 1..Len(g)
              PROVE  ~Before(g[k], s[i])
          <5>1. PICK l \in 1..Len(r) : g[k] = r[l]
            <6>1. Reordered(r, g)
              BY <1>4, <3>2
            <6>2. r \in Seq(Movie) /\ g \in Seq(Movie)
              BY <3>2
            <6>3. \A x \in 1..Len(g) : \E y \in 1..Len(r) : g[x] = r[y]
              BY <6>1, <6>2, ReorderedElements
            <6> QED BY <6>3
          <5>2. CASE \E a \in (i + 1)..m : g[k] = s[a]
            BY <2>1, <3>4, <5>2 DEF Sorted
          <5>3. CASE \E b \in j..n : g[k] = t[b]
            <6>1. PICK b \in j..n : g[k] = t[b]
              BY <5>3
            <6>2. b \in 1..n /\ t[b] \in Movie /\ (b = j \/ j < b)
              OBVIOUS
            <6>3. ~Before(t[b], t[j])
              BY <2>1, <3>4, <6>2, BeforeIsStrict DEF Sorted
            <6>4. Before(s[i], t[b])
              BY <2>1, <2>2, <6>2, <6>3, BeforeIsTransitive
            <6> QED BY <2>1, <6>1, <6>2, <6>4, BeforeIsStrict
          <5> QED BY <3>2, <5>1, <5>2, <5>3
        <4>2. Sorted(g)
          BY <1>4, <3>2, <3>4
        <4>3. \A x \in Movie : (\A k \in 1..Len(g) : ~Before(g[k], x)) => Sorted(<<x>> \o g)
          BY <3>2, <4>2, SortedPrepend
        <4> QED BY <2>1, <3>1, <3>2, <4>1, <4>3
      <3> QED BY <3>3, <3>4
    <2>3. CASE ~Before(s[i], t[j])
      <3>1. f[<<i, j>>] = <<t[j]>> \o f[<<i, j + 1>>]
        BY <1>1, <2>1, <2>3 DEF MergeStep
      <3>2. PICK r, g : /\ r = Rest(s, t, m, n, i, j + 1) /\ g = f[<<i, j + 1>>]
                        /\ Holds(r, i, j + 1) /\ g \in Seq(Movie)
        <4> HIDE DEF Holds
        <4> QED BY <1>0, <1>2, <2>1
      <3>3. Reordered(Rest(s, t, m, n, i, j), f[<<i, j>>])
        <4>1. Reordered(r, g)
          BY <1>4, <3>2
        <4>2. Reordered(<<t[j]>> \o r, <<t[j]>> \o g)
          BY <2>1, <3>2, <4>1, ReorderedPrepend
        <4>3. Reordered(Rest(s, t, m, n, i, j), <<t[j]>> \o r)
          BY <3>2, RestMoves
        <4> QED BY <3>1, <3>2, <4>2, <4>3, ReorderedTwice
      <3>4. ASSUME Sorted(s), Sorted(t)
            PROVE  Sorted(f[<<i, j>>])
        <4>1. ASSUME NEW k \in 1..Len(g)
              PROVE  ~Before(g[k], t[j])
          <5>1. PICK l \in 1..Len(r) : g[k] = r[l]
            <6>1. Reordered(r, g)
              BY <1>4, <3>2
            <6>2. r \in Seq(Movie) /\ g \in Seq(Movie)
              BY <3>2
            <6>3. \A x \in 1..Len(g) : \E y \in 1..Len(r) : g[x] = r[y]
              BY <6>1, <6>2, ReorderedElements
            <6> QED BY <6>3
          <5>2. CASE \E a \in i..m : g[k] = s[a]
            <6>1. PICK a \in i..m : g[k] = s[a]
              BY <5>2
            <6>2. a \in 1..m /\ s[a] \in Movie /\ (a = i \/ i < a)
              OBVIOUS
            <6>3. ~Before(s[a], s[i])
              BY <2>1, <3>4, <6>2, BeforeIsStrict DEF Sorted
            <6> QED BY <2>1, <2>3, <6>1, <6>2, <6>3, NotBeforeIsTransitive
          <5>3. CASE \E b \in (j + 1)..n : g[k] = t[b]
            BY <2>1, <3>4, <5>3 DEF Sorted
          <5> QED BY <3>2, <5>1, <5>2, <5>3
        <4>2. Sorted(g)
          BY <1>4, <3>2, <3>4
        <4>3. \A x \in Movie : (\A k \in 1..Len(g) : ~Before(g[k], x)) => Sorted(<<x>> \o g)
          BY <3>2, <4>2, SortedPrepend
        <4> QED BY <2>1, <3>1, <3>2, <4>1, <4>3
      <3> QED BY <3>3, <3>4
    <2> QED BY <2>2, <2>3
  <1>5. 0 \in S
    <2>1. ASSUME NEW i \in 1..(m + 1), NEW j \in 1..(n + 1), weight(i, j) <= 0
          PROVE  i > m \/ j > n
      BY <2>1
    <2> HIDE DEF Good
    <2> QED BY <1>3, <2>1
  <1>6. ASSUME NEW w \in 0..(m + n), w < m + n, w \in S
        PROVE  w + 1 \in S
    <2>1. ASSUME NEW i \in 1..(m + 1), NEW j \in 1..(n + 1), weight(i, j) <= w + 1
          PROVE  Good(i, j)
      <3> HIDE DEF Good
      <3>1. CASE i > m \/ j > n
        BY <1>3, <3>1
      <3>2. CASE ~(i > m \/ j > n)
        <4>1. /\ i \in 1..m /\ j \in 1..n /\ i + 1 \in 1..(m + 1) /\ j + 1 \in 1..(n + 1)
              /\ weight(i + 1, j) <= w /\ weight(i, j + 1) <= w
          BY <2>1, <3>2
        <4>2. Good(i + 1, j) /\ Good(i, j + 1)
          BY <1>6, <4>1
        <4> QED BY <1>4, <4>1, <4>2
      <3> QED BY <3>1, <3>2
    <2> HIDE DEF Good, weight
    <2> QED BY <1>6, <2>1
  <1>7. Good(1, 1)
    <2>1. Inductive(S, 0, m + n)
      <3> HIDE DEF S
      <3> QED BY <1>5, <1>6 DEF Inductive
    <2>2. \A w \in 0..(m + n) : w \in S
      <3> HIDE DEF S
      <3> QED BY <2>1, InductionTo
    <2>3. m + n \in 0..(m + n) /\ 1 \in 1..(m + 1) /\ 1 \in 1..(n + 1) /\ weight(1, 1) <= m + n
      OBVIOUS
    <2> HIDE DEF Good, weight
    <2> QED BY <2>2, <2>3
  <1>8. Rest(s, t, m, n, 1, 1) = s \o t
    <2>1. s \in Seq(Movie) /\ t \in Seq(Movie) /\ Len(s) = m /\ Len(t) = n
      OBVIOUS
    <2> QED BY <2>1, SubSeqFull DEF Rest
  <1> QED BY <1>1, <1>7, <1>8

-------------------------------------------------------------------------------
(* Slices.  Below, a slice has places from..to; it may be empty. *)

Span == [from : Int, to : Int]
Path(d) == [1..d -> {1, 2}]

\* s is the slices on the way down to n.
Way(n, d, len, s) ==
  /\ s \in [0..d -> Span]
  /\ s[0] = [from |-> 1, to |-> len]
  /\ \A i \in 1..d : s[i] = IF n[i] = 1 THEN FirstHalf(s[i - 1]) ELSE SecondHalf(s[i - 1])

LEMMA HalvesAreSpans ==
  ASSUME NEW sl \in Span
  PROVE  FirstHalf(sl) \in Span /\ SecondHalf(sl) \in Span
  BY DEF FirstHalf, SecondHalf, Span

LEMMA SliceOf ==
  ASSUME NEW d \in Nat, NEW n \in Path(d), NEW len \in Nat
  PROVE  \E s : Way(n, d, len, s) /\ Slice(n, len) = s[d]
  <1> DEFINE whole == [from |-> 1, to |-> len]
             step  == [p \in Span \X (1..d) |-> IF n[p[2]] = 1 THEN FirstHalf(p[1])
                                                                ELSE SecondHalf(p[1])]
  <1>1. Loop(d, Span, whole, step)
    <2>1. whole \in Span
      BY DEF Span
    <2>2. \A p \in Span \X (1..d) : p[1] \in Span
      OBVIOUS
    <2>3. step \in [Span \X (1..d) -> Span]
      BY <2>2, HalvesAreSpans
    <2> QED BY <2>1, <2>3 DEF Loop
  <1>2. PICK s \in [0..d -> Span] : /\ s[0] = whole
                                    /\ \A i \in 1..d : s[i] = step[<<s[i - 1], i>>]
    <2> HIDE DEF whole, step
    <2>1. PICK s : LoopResult(d, Span, whole, step, s)
      BY <1>1, LoopFunction
    <2> QED BY <2>1 DEF LoopResult
  <1>3. \A i \in 1..d : s[i] = IF n[i] = 1 THEN FirstHalf(s[i - 1]) ELSE SecondHalf(s[i - 1])
    <2>1. \A i \in 1..d : s[i - 1] \in Span
      OBVIOUS
    <2> QED BY <1>2, <2>1
  <1>4. Way(n, d, len, s)
    BY <1>2, <1>3 DEF Way
  <1>5. Len(n) = d
    BY DEF Path
  <1>6. s = [i \in 0..d |-> IF i = 0 THEN [from |-> 1, to |-> len]
                            ELSE IF n[i] = 1 THEN FirstHalf(s[i - 1]) ELSE SecondHalf(s[i - 1])]
    <2>1. \A i \in 0..d : i # 0 => i \in 1..d
      OBVIOUS
    <2> QED BY <1>2, <1>3, <2>1
  <1> DEFINE Def(f) ==
        f = [i \in 0..d |-> IF i = 0 THEN [from |-> 1, to |-> len]
                            ELSE IF n[i] = 1 THEN FirstHalf(f[i - 1]) ELSE SecondHalf(f[i - 1])]
  <1>7. PICK t : Def(t) /\ Slice(n, len) = t[d]
    <2>1. Def(CHOOSE f : Def(f))
      BY <1>6
    <2>2. Slice(n, len) = (CHOOSE f : Def(f))[d]
      BY <1>5, Zenon DEF Slice
    <2> QED BY <2>1, <2>2
  <1>8. t[d] = s[d]
    <2> DEFINE S == {i \in 0..d : t[i] = s[i]}
    <2>1. 0 \in S
      BY <1>2, <1>7
    <2>2. ASSUME NEW i \in 0..d, i < d, i \in S
          PROVE  i + 1 \in S
      <3>1. i + 1 \in 0..d /\ i + 1 \in 1..d /\ (i + 1) - 1 = i /\ i + 1 # 0
        BY <2>2
      <3>2. t[i + 1] = IF n[i + 1] = 1 THEN FirstHalf(t[i]) ELSE SecondHalf(t[i])
        BY <1>7, <3>1
      <3>3. s[i + 1] = IF n[i + 1] = 1 THEN FirstHalf(s[i]) ELSE SecondHalf(s[i])
        BY <1>3, <3>1
      <3> QED BY <2>2, <3>1, <3>2, <3>3
    <2>3. \A i \in 0..d : i \in S
      <3> HIDE DEF S
      <3>1. Inductive(S, 0, d)
        BY <2>1, <2>2 DEF Inductive
      <3> QED BY <3>1, InductionTo
    <2> QED BY <2>3
  <1> QED BY <1>4, <1>7, <1>8

\* The slice of a node and of its halves.
Places(sl) == sl.from..sl.to
Legal(sl, len) == sl \in Span /\ 1 <= sl.from /\ sl.to <= len /\ sl.from <= sl.to + 1

LEMMA HalvesOf ==
  ASSUME NEW len \in Nat, NEW sl, Legal(sl, len)
  PROVE  /\ Legal(FirstHalf(sl), len) /\ Legal(SecondHalf(sl), len)
         /\ FirstHalf(sl).from = sl.from /\ SecondHalf(sl).to = sl.to
         /\ SecondHalf(sl).from = FirstHalf(sl).to + 1
         /\ Places(FirstHalf(sl)) \cup Places(SecondHalf(sl)) = Places(sl)
         /\ Places(FirstHalf(sl)) \cap Places(SecondHalf(sl)) = {}
  <1>1. sl.from \in Int /\ sl.to \in Int /\ 1 <= sl.from /\ sl.to <= len /\ sl.from <= sl.to + 1
    BY DEF Legal, Span
  <1> DEFINE half == (sl.to - sl.from + 1) \div 2
  <1>2. half \in Int /\ 0 <= half /\ half <= sl.to - sl.from + 1
    BY <1>1
  <1>3. /\ FirstHalf(sl) = [from |-> sl.from, to |-> sl.from + half - 1]
        /\ SecondHalf(sl) = [from |-> sl.from + half - 1 + 1, to |-> sl.to]
    BY DEF FirstHalf, SecondHalf
  <1> HIDE DEF half
  <1>4. /\ FirstHalf(sl).from = sl.from /\ FirstHalf(sl).to = sl.from + half - 1
        /\ SecondHalf(sl).from = sl.from + half - 1 + 1 /\ SecondHalf(sl).to = sl.to
    BY <1>3
  <1>5. FirstHalf(sl) \in Span /\ SecondHalf(sl) \in Span
    BY HalvesAreSpans DEF Legal
  <1> QED BY <1>1, <1>2, <1>4, <1>5 DEF Legal, Places

\* n agrees with m on the first k turns of the way.
Agree(n, m, k) == \A i \in 1..k : n[i] = m[i]

\* Ways that agree so far have the same slices so far.
LEMMA SameWay ==
  ASSUME NEW d, NEW e, NEW n, NEW m, NEW len, NEW s, NEW t,
         d \in Nat, e \in Nat, Way(n, d, len, s), Way(m, e, len, t),
         NEW k \in Nat, k <= d, k <= e, Agree(n, m, k)
  PROVE  s[k] = t[k]
  <1> DEFINE S == {i \in 0..k : s[i] = t[i]}
  <1>1. 0 \in S
    BY DEF Way
  <1>2. ASSUME NEW i \in 0..k, i < k, i \in S
        PROVE  i + 1 \in S
    <2>1. i + 1 \in 1..k /\ i + 1 \in 1..d /\ i + 1 \in 1..e /\ (i + 1) - 1 = i /\ i + 1 \in 0..k
      BY <1>2
    <2>2. s[i + 1] = IF n[i + 1] = 1 THEN FirstHalf(s[i]) ELSE SecondHalf(s[i])
      BY <2>1 DEF Way
    <2>3. t[i + 1] = IF m[i + 1] = 1 THEN FirstHalf(t[i]) ELSE SecondHalf(t[i])
      BY <2>1 DEF Way
    <2>4. n[i + 1] = m[i + 1]
      BY <2>1 DEF Agree
    <2> QED BY <1>2, <2>1, <2>2, <2>3, <2>4
  <1>3. Inductive(S, 0, k)
    <2> HIDE DEF S
    <2> QED BY <1>1, <1>2 DEF Inductive
  <1>4. \A i \in 0..k : i \in S
    <2> HIDE DEF S
    <2> QED BY <1>3, InductionTo
  <1>5. k \in 0..k
    OBVIOUS
  <1> QED BY <1>4, <1>5

\* On the way down slices lie within those above them.
LEMMA WayNarrows ==
  ASSUME NEW d \in Nat, NEW n, NEW len \in Nat, NEW s, Way(n, d, len, s), NEW k \in 0..d
  PROVE  /\ \A i \in k..d : Legal(s[i], len) /\ Places(s[i]) \subseteq Places(s[k])
  <1> DEFINE L == {i \in 0..d : Legal(s[i], len)}
             S == {i \in k..d : Places(s[i]) \subseteq Places(s[k])}
  <1>1. ASSUME NEW i \in 0..d, i < d
        PROVE  s[i + 1] = FirstHalf(s[i]) \/ s[i + 1] = SecondHalf(s[i])
    <2>1. i + 1 \in 1..d /\ (i + 1) - 1 = i
      BY <1>1
    <2> QED BY <2>1 DEF Way
  <1>2. \A i \in 0..d : i \in L
    <2>1. 0 \in L
      BY DEF Way, Legal, Span
    <2>2. ASSUME NEW i \in 0..d, i < d, i \in L
          PROVE  i + 1 \in L
      <3>1. i + 1 \in 0..d
        BY <2>2
      <3> QED BY <1>1, <2>2, <3>1, HalvesOf
    <2>3. Inductive(L, 0, d)
      <3> HIDE DEF L
      <3> QED BY <2>1, <2>2 DEF Inductive
    <2> HIDE DEF L
    <2> QED BY <2>3, InductionTo
  <1>3. \A i \in k..d : i \in S
    <2>1. k \in S
      OBVIOUS
    <2>2. ASSUME NEW i \in k..d, i < d, i \in S
          PROVE  i + 1 \in S
      <3>1. i + 1 \in k..d /\ i \in 0..d
        BY <2>2
      <3>2. Legal(s[i], len)
        BY <1>2, <3>1
      <3>3. Places(s[i + 1]) \subseteq Places(s[i])
        BY <1>1, <2>2, <3>1, <3>2, HalvesOf
      <3> QED BY <2>2, <3>1, <3>3
    <2>3. Inductive(S, k, d)
      <3>1. k \in Int /\ d \in Int
        OBVIOUS
      <3> HIDE DEF S
      <3> QED BY <2>1, <2>2, <3>1 DEF Inductive
    <2> HIDE DEF S
    <2> QED BY <2>3, InductionTo
  <1>4. \A i \in k..d : i \in 0..d
    OBVIOUS
  <1> QED BY <1>2, <1>3, <1>4

-------------------------------------------------------------------------------

Below(m, n) == Len(n) <= Len(m) /\ Agree(n, m, Len(n))

LEMMA NodesArePaths ==
  ASSUME NEW n \in Nodes
  PROVE  Len(n) \in 0..(depth - 1) /\ n \in Path(Len(n))
  <1>1. PICK d \in 0..(depth - 1) : n \in Path(d)
    BY DEF Nodes, Path
  <1>2. d \in Nat /\ Len(n) = d
    BY <1>1, TreeAssumption DEF Path
  <1> QED BY <1>1, <1>2

\* A slice is legal, and is the first or the second half of the slice above it.
LEMMA SliceHalves ==
  ASSUME NEW n \in Nodes, NEW len \in Nat
  PROVE  /\ Legal(Slice(n, len), len)
         /\ Slice(<<>>, len) = [from |-> 1, to |-> len]
         /\ ~IsLeaf(n) => /\ Append(n, 1) \in Nodes /\ Append(n, 2) \in Nodes
                          /\ Slice(Append(n, 1), len) = FirstHalf(Slice(n, len))
                          /\ Slice(Append(n, 2), len) = SecondHalf(Slice(n, len))
  <1> DEFINE d == Len(n)
  <1>1. d \in 0..(depth - 1) /\ n \in Path(d) /\ d \in Nat /\ depth \in Nat
    BY NodesArePaths, TreeAssumption
  <1>2. PICK s : Way(n, d, len, s) /\ Slice(n, len) = s[d]
    <2> HIDE DEF d
    <2> QED BY <1>1, SliceOf
  <1>3. Legal(Slice(n, len), len)
    <2>1. \A i \in d..d : Legal(s[i], len)
      <3>1. d \in 0..d
        BY <1>1
      <3> HIDE DEF d
      <3> QED BY <1>1, <1>2, <3>1, WayNarrows
    <2> QED BY <1>1, <1>2, <2>1
  <1>4. Slice(<<>>, len) = [from |-> 1, to |-> len]
    <2>1. <<>> \in Path(0)
      BY DEF Path
    <2>2. PICK t : Way(<<>>, 0, len, t) /\ Slice(<<>>, len) = t[0]
      BY <2>1, SliceOf
    <2> QED BY <2>2 DEF Way
  <1>5. ASSUME ~IsLeaf(n), NEW h \in {1, 2}
        PROVE  /\ Append(n, h) \in Nodes
               /\ Slice(Append(n, h), len) = IF h = 1 THEN FirstHalf(Slice(n, len))
                                             ELSE SecondHalf(Slice(n, len))
    <2> DEFINE k == Append(n, h)
    <2>1. d + 1 \in 0..(depth - 1) /\ d + 1 \in Nat
      BY <1>1, <1>5 DEF IsLeaf
    <2>2. k \in Path(d + 1) /\ (\A i \in 1..d : k[i] = n[i]) /\ k[d + 1] = h
      <3>1. n \in Seq({1, 2}) /\ Len(n) = d
        BY <1>1 DEF Path
      <3>2. /\ k \in Seq({1, 2}) /\ Len(k) = Len(n) + 1
            /\ (\A i \in 1..Len(n) : k[i] = n[i]) /\ k[Len(n) + 1] = h
        BY <3>1, AppendProperties
      <3>3. k \in [1..(d + 1) -> {1, 2}]
        BY <3>1, <3>2, LenProperties
      <3> QED BY <3>1, <3>2, <3>3 DEF Path
    <2>3. k \in Nodes
      <3> HIDE DEF d, k
      <3> QED BY <2>1, <2>2 DEF Nodes, Path
    <2>4. PICK t : Way(k, d + 1, len, t) /\ Slice(k, len) = t[d + 1]
      <3> HIDE DEF d, k
      <3> QED BY <2>1, <2>2, SliceOf
    <2>5. s[d] = t[d]
      <3>1. Agree(n, k, d) /\ d <= d /\ d <= d + 1
        BY <1>1, <2>2 DEF Agree
      <3> HIDE DEF d, k
      <3> QED BY <1>1, <1>2, <2>1, <2>4, <3>1, SameWay
    <2>6. t[d + 1] = IF h = 1 THEN FirstHalf(t[d]) ELSE SecondHalf(t[d])
      <3>1. d + 1 \in 1..(d + 1) /\ (d + 1) - 1 = d
        BY <1>1
      <3> HIDE DEF d, k
      <3> QED BY <2>2, <2>4, <3>1 DEF Way
    <2> QED BY <1>2, <2>3, <2>4, <2>5, <2>6
  <1> QED BY <1>3, <1>4, <1>5

\* Slices of two nodes are nested if one of them is below the other, ...
LEMMA SlicesNest ==
  ASSUME NEW n \in Nodes, NEW m \in Nodes, NEW len \in Nat, Below(m, n)
  PROVE  Places(Slice(m, len)) \subseteq Places(Slice(n, len))
  <1> DEFINE d == Len(n)
             e == Len(m)
  <1>1. d \in Nat /\ n \in Path(d) /\ e \in Nat /\ m \in Path(e) /\ d <= e
    BY NodesArePaths, TreeAssumption DEF Below
  <1>2. Agree(n, m, d)
    BY DEF Below
  <1> HIDE DEF d, e
  <1>3. PICK s : Way(n, d, len, s) /\ Slice(n, len) = s[d]
    BY <1>1, SliceOf
  <1>4. PICK t : Way(m, e, len, t) /\ Slice(m, len) = t[e]
    BY <1>1, SliceOf
  <1>5. s[d] = t[d]
    <2>1. d <= d
      BY <1>1
    <2> QED BY <1>1, <1>2, <1>3, <1>4, <2>1, SameWay
  <1>6. Places(t[e]) \subseteq Places(t[d])
    <2>1. d \in 0..e /\ e \in d..e
      BY <1>1
    <2> QED BY <1>1, <1>4, <2>1, WayNarrows
  <1> QED BY <1>3, <1>4, <1>5, <1>6

\* ... and apart if neither is.
LEMMA SlicesPart ==
  ASSUME NEW n \in Nodes, NEW m \in Nodes, NEW len \in Nat, ~Below(m, n), ~Below(n, m)
  PROVE  Places(Slice(m, len)) \cap Places(Slice(n, len)) = {}
  <1> DEFINE d == Len(n)
             e == Len(m)
  <1>1. d \in Nat /\ n \in Path(d) /\ e \in Nat /\ m \in Path(e)
    BY NodesArePaths, TreeAssumption
  <1> DEFINE S == {k \in Nat : k >= 1 /\ k <= d /\ k <= e /\ n[k] # m[k]}
  <1>2. S # {}
    <2>1. \E k \in 1..d : k <= e /\ n[k] # m[k]
      BY <1>1 DEF Below, Agree
    <2> QED BY <1>1, <2>1
  <1>3. PICK k \in S : \A i \in S : k <= i
    <2> HIDE DEF S
    <2>1. S \subseteq Nat
      BY DEF S
    <2> QED BY <1>2, <2>1, LeastNatural
  <1> HIDE DEF d, e
  <1>4. /\ k - 1 \in Nat /\ k \in 1..d /\ k \in 1..e /\ n[k] # m[k]
        /\ k - 1 <= d /\ k - 1 <= e /\ k \in 0..d /\ k \in 0..e /\ d \in k..d /\ e \in k..e
    BY <1>1, <1>3
  <1>5. Agree(n, m, k - 1)
    <2>1. ASSUME NEW i \in 1..(k - 1), n[i] # m[i]
          PROVE  FALSE
      <3>1. i \in S
        BY <1>1, <1>4, <2>1
      <3> QED BY <1>3, <1>4, <3>1
    <2> QED BY <2>1 DEF Agree
  <1> HIDE DEF S
  <1>6. PICK s : Way(n, d, len, s) /\ Slice(n, len) = s[d]
    BY <1>1, SliceOf
  <1>7. PICK t : Way(m, e, len, t) /\ Slice(m, len) = t[e]
    BY <1>1, SliceOf
  <1>8. s[k - 1] = t[k - 1] /\ Legal(s[k - 1], len)
    <2>1. s[k - 1] = t[k - 1]
      BY <1>1, <1>4, <1>5, <1>6, <1>7, SameWay
    <2>2. 0 \in 0..d /\ k - 1 \in 0..d
      BY <1>1, <1>4
    <2>3. \A i \in 0..d : Legal(s[i], len)
      BY <1>1, <1>6, <2>2, WayNarrows
    <2> QED BY <2>1, <2>2, <2>3
  <1>9. /\ s[k] = IF n[k] = 1 THEN FirstHalf(s[k - 1]) ELSE SecondHalf(s[k - 1])
        /\ t[k] = IF m[k] = 1 THEN FirstHalf(t[k - 1]) ELSE SecondHalf(t[k - 1])
    BY <1>4, <1>6, <1>7 DEF Way
  <1>10. n[k] \in {1, 2} /\ m[k] \in {1, 2}
    BY <1>1, <1>4 DEF Path
  <1>11. Places(s[k]) \cap Places(t[k]) = {}
    <2>1. Places(FirstHalf(s[k - 1])) \cap Places(SecondHalf(s[k - 1])) = {}
      BY <1>8, HalvesOf
    <2> QED BY <1>4, <1>8, <1>9, <1>10, <2>1
  <1>12. Places(s[d]) \subseteq Places(s[k]) /\ Places(t[e]) \subseteq Places(t[k])
    BY <1>1, <1>4, <1>6, <1>7, WayNarrows
  <1> QED BY <1>6, <1>7, <1>11, <1>12

-------------------------------------------------------------------------------
(* What is done to a slice of the array. *)

InOrder(a, sl) == \A i, j \in Places(sl) : i < j => ~Before(a[j], a[i])
MarksIn(a, sl, c) == \A i \in Places(sl) : a[i].secrets = c

\* The same movie, but for its marks.
Same(m, n) == m.title = n.title /\ m.pts = n.pts

\* b has the movies of a, those outside the slice in their places and with their marks.
Reworked(a, b, sl, len) ==
  /\ b \in [1..len -> Movie]
  /\ \A i \in 1..len : i \notin Places(sl) => b[i] = a[i]
  /\ \E p \in Shuffle(len) : \A i \in 1..len : Same(b[i], a[p[i]])

Size(sl) == sl.to - sl.from + 1

LEMMA SizesAndPlaces ==
  ASSUME NEW sl, NEW len \in Nat, Legal(sl, len)
  PROVE  /\ sl.from \in Int /\ sl.to \in Int
         /\ \A i, j \in Int : i < j => sl.from + i - 1 < sl.from + j - 1 /\ i - sl.from + 1 < j - sl.from + 1
  BY DEF Legal, Span

LEMMA PartElements ==
  ASSUME NEW len \in Nat, NEW a \in [1..len -> Movie], NEW sl, Legal(sl, len)
  PROVE  /\ Size(sl) \in Nat
         /\ Part(a, sl) \in [1..Size(sl) -> Movie]
         /\ \A k \in 1..Size(sl) : sl.from + k - 1 \in Places(sl) /\ Part(a, sl)[k] = a[sl.from + k - 1]
         /\ \A i \in Places(sl) : i - sl.from + 1 \in 1..Size(sl) /\ i \in 1..len
  <1>1. sl.from \in Int /\ sl.to \in Int /\ 1 <= sl.from /\ sl.to <= len /\ sl.from <= sl.to + 1
    BY DEF Legal, Span
  <1>2. \A i \in sl.from..sl.to : a[i] \in Movie
    BY <1>1
  <1>3. /\ Part(a, sl) \in Seq(Movie)
        /\ Len(Part(a, sl)) = IF sl.from <= sl.to THEN sl.to - sl.from + 1 ELSE 0
        /\ \A k \in 1..(sl.to - sl.from + 1) : Part(a, sl)[k] = a[sl.from + k - 1]
    <2>1. /\ SubSeq(a, sl.from, sl.to) \in Seq(Movie)
          /\ Len(SubSeq(a, sl.from, sl.to)) = IF sl.from <= sl.to THEN sl.to - sl.from + 1 ELSE 0
          /\ \A k \in 1..(sl.to - sl.from + 1) :
               SubSeq(a, sl.from, sl.to)[k] = a[sl.from + k - 1]
      <3>1. PICK x \in Int, y \in Int : x = sl.from /\ y = sl.to /\ \A k \in x..y : a[k] \in Movie
        BY <1>1, <1>2
      <3>2. /\ SubSeq(a, x, y) \in Seq(Movie)
            /\ Len(SubSeq(a, x, y)) = IF x <= y THEN y - x + 1 ELSE 0
            /\ \A k \in 1..(y - x + 1) : SubSeq(a, x, y)[k] = a[x + k - 1]
        BY <3>1, SubSeqMovies, SMTT(30)
      <3> QED BY <3>1, <3>2
    <2> QED BY <2>1 DEF Part
  <1>4. Len(Part(a, sl)) = Size(sl) /\ Size(sl) \in Nat
    BY <1>1, <1>3 DEF Size
  <1>5. Part(a, sl) \in [1..Size(sl) -> Movie]
    <2>1. \A x \in Seq(Movie) : x \in [1..Len(x) -> Movie]
      OBVIOUS
    <2> QED BY <1>3, <1>4, <2>1, Zenon
  <1> QED BY <1>1, <1>3, <1>4, <1>5, SMTT(20) DEF Size, Places

LEMMA OverwriteReworks ==
  ASSUME NEW len \in Nat, NEW a \in [1..len -> Movie], NEW sl, Legal(sl, len),
         NEW u \in [1..Size(sl) -> Movie], NEW q \in Shuffle(Size(sl)),
         \A k \in 1..Size(sl) : Same(u[k], Part(a, sl)[q[k]])
  PROVE  /\ Reworked(a, Overwrite(a, sl, u), sl, len)
         /\ \A i \in Places(sl) : Overwrite(a, sl, u)[i] = u[i - sl.from + 1]
  <1> DEFINE b == Overwrite(a, sl, u)
             w == Size(sl)
             p == [i \in 1..len |-> IF i \in Places(sl) THEN sl.from + q[i - sl.from + 1] - 1 ELSE i]
  <1>1. sl.from \in Int /\ sl.to \in Int /\ 1 <= sl.from /\ sl.to <= len /\ w = sl.to - sl.from + 1
    BY DEF Legal, Span, Size
  <1>2. /\ w \in Nat
        /\ \A k \in 1..w : sl.from + k - 1 \in Places(sl) /\ Part(a, sl)[k] = a[sl.from + k - 1]
        /\ \A i \in Places(sl) : i - sl.from + 1 \in 1..w /\ i \in 1..len
    BY PartElements
  <1>3. /\ q \in [1..w -> 1..w]
        /\ \A i, j \in 1..w : q[i] = q[j] => i = j
        /\ \A j \in 1..w : \E i \in 1..w : q[i] = j
    BY DEF Shuffle
  <1>4. Len(a) = len
    OBVIOUS
  <1>5. b = [k \in 1..len |-> IF k \in Places(sl) THEN u[k - sl.from + 1] ELSE a[k]]
    BY <1>4 DEF Overwrite, Places
  <1> HIDE DEF b, w
  <1>6. /\ b \in [1..len -> Movie]
        /\ \A i \in 1..len : i \notin Places(sl) => b[i] = a[i]
        /\ \A i \in Places(sl) : b[i] = u[i - sl.from + 1]
    <2>1. \A i \in Places(sl) : u[i - sl.from + 1] \in Movie
      BY <1>2 DEF w
    <2> QED BY <1>2, <1>5, <2>1
  <1>7. \A i \in Places(sl) : p[i] = sl.from + q[i - sl.from + 1] - 1 /\ p[i] \in Places(sl)
    <2>1. \A i \in Places(sl) : q[i - sl.from + 1] \in 1..w
      BY <1>2, <1>3
    <2> QED BY <1>2, <2>1
  <1>8. \A i \in 1..len : i \notin Places(sl) => p[i] = i
    OBVIOUS
  <1>9. p \in [1..len -> 1..len]
    BY <1>2, <1>7, <1>8
  <1> HIDE DEF p
  <1>10. p \in Shuffle(len)
    <2>1. ASSUME NEW i \in 1..len, NEW j \in 1..len, p[i] = p[j]
          PROVE  i = j
      <3>1. CASE i \in Places(sl) /\ j \in Places(sl)
        <4>1. q[i - sl.from + 1] \in 1..w /\ q[j - sl.from + 1] \in 1..w
          BY <1>2, <1>3, <3>1
        <4>2. sl.from + q[i - sl.from + 1] - 1 = sl.from + q[j - sl.from + 1] - 1
          BY <1>7, <2>1, <3>1
        <4>3. q[i - sl.from + 1] = q[j - sl.from + 1]
          <5>1. \A x, y \in 1..w : sl.from + x - 1 = sl.from + y - 1 => x = y
            BY <1>1, <1>2
          <5> QED BY <4>1, <4>2, <5>1, Zenon
        <4>4. i - sl.from + 1 = j - sl.from + 1
          BY <1>2, <1>3, <3>1, <4>3
        <4> QED BY <1>1, <4>4
      <3> QED BY <1>7, <1>8, <2>1, <3>1
    <2>2. ASSUME NEW j \in 1..len
          PROVE  \E i \in 1..len : p[i] = j
      <3>1. CASE j \in Places(sl)
        <4>1. PICK k \in 1..w : q[k] = j - sl.from + 1
          BY <1>2, <1>3, <3>1
        <4>2. sl.from + k - 1 \in Places(sl) /\ (sl.from + k - 1) - sl.from + 1 = k
          BY <1>1, <1>2
        <4>3. p[sl.from + k - 1] = sl.from + (j - sl.from + 1) - 1
          BY <1>7, <4>1, <4>2
        <4>4. sl.from + (j - sl.from + 1) - 1 = j
          <5>1. \A x, y \in Int : x + (y - x + 1) - 1 = y
            OBVIOUS
          <5> QED BY <1>1, <5>1
        <4>5. sl.from + k - 1 \in 1..len
          BY <1>2, <4>2, Zenon
        <4> QED BY <4>3, <4>4, <4>5, Zenon
      <3> QED BY <1>8, <3>1
    <2> QED BY <1>9, <2>1, <2>2 DEF Shuffle
  <1>11. \A i \in 1..len : Same(b[i], a[p[i]])
    <2>1. ASSUME NEW i \in Places(sl)
          PROVE  Same(b[i], a[p[i]])
      <3>1. i - sl.from + 1 \in 1..w /\ q[i - sl.from + 1] \in 1..w
        BY <1>2, <1>3
      <3>2. Same(u[i - sl.from + 1], Part(a, sl)[q[i - sl.from + 1]])
        BY <3>1 DEF w
      <3>3. Part(a, sl)[q[i - sl.from + 1]] = a[p[i]]
        BY <1>2, <1>7, <3>1
      <3> QED BY <1>6, <3>2, <3>3
    <2> QED BY <1>6, <1>8, <2>1 DEF Same
  <1>12. Reworked(a, b, sl, len)
    BY <1>6, <1>10, <1>11 DEF Reworked
  <1> QED BY <1>6, <1>12 DEF b

\* A sort puts a slice in order and marks each movie in it once more.
LEMMA SortedAtSorts ==
  ASSUME NEW len \in Nat, NEW a \in [1..len -> Movie], NEW sl, Legal(sl, len)
  PROVE  /\ Reworked(a, SortedAt(a, sl), sl, len)
         /\ InOrder(SortedAt(a, sl), sl)
         /\ \A c \in Nat : MarksIn(a, sl, c) => MarksIn(SortedAt(a, sl), sl, c + 1)
  <1> DEFINE s == Part(a, sl)
             w == Size(sl)
             u == sort(s)
             b == SortedAt(a, sl)
  <1>1. /\ w \in Nat /\ s \in [1..w -> Movie]
        /\ \A k \in 1..w : sl.from + k - 1 \in Places(sl) /\ s[k] = a[sl.from + k - 1]
        /\ \A i \in Places(sl) : i - sl.from + 1 \in 1..w /\ i \in 1..len
    BY PartElements
  <1> HIDE DEF s, w
  <1>2. u \in [1..w -> Movie] /\ Sorted(u) /\ Reordered(AllMarked(s), u) /\ Len(s) = w
    BY <1>1, SortSorts
  <1> HIDE DEF u
  <1>3. PICK q \in Shuffle(w) : \A k \in 1..w : q[k] \in 1..w /\ u[k] = Marked(s[q[k]])
    <2>1. AllMarked(s) = [k \in 1..w |-> Marked(s[k])] /\ Len(AllMarked(s)) = w
      BY <1>1, <1>2 DEF AllMarked
    <2>2. PICK q : ReorderedBy(AllMarked(s), u, q)
      BY <1>2 DEF Reordered
    <2>3. q \in Shuffle(w) /\ u = [k \in 1..w |-> AllMarked(s)[q[k]]]
      BY <2>1, <2>2 DEF ReorderedBy
    <2>4. \A k \in 1..w : q[k] \in 1..w
      BY <2>3 DEF Shuffle
    <2> QED BY <2>1, <2>3, <2>4
  <1>4. \A k \in 1..w : Same(u[k], s[q[k]])
    <2>1. \A m \in Movie : Same(Marked(m), m)
      BY DEF Same, Marked, Movie
    <2> QED BY <1>1, <1>3, <2>1
  <1>5. Reworked(a, b, sl, len) /\ \A i \in Places(sl) : b[i] = u[i - sl.from + 1]
    <2>1. b = Overwrite(a, sl, u)
      BY DEF SortedAt, s, u
    <2>2. /\ u \in [1..Size(sl) -> Movie] /\ q \in Shuffle(Size(sl))
          /\ \A k \in 1..Size(sl) : Same(u[k], Part(a, sl)[q[k]])
      BY <1>2, <1>3, <1>4 DEF s, w
    <2>3. /\ Reworked(a, Overwrite(a, sl, u), sl, len)
          /\ \A i \in Places(sl) : Overwrite(a, sl, u)[i] = u[i - sl.from + 1]
      BY <2>2, OverwriteReworks
    <2> QED BY <2>1, <2>3, Zenon
  <1>6. InOrder(b, sl)
    <2>1. SUFFICES ASSUME NEW i \in Places(sl), NEW j \in Places(sl), i < j
                   PROVE  ~Before(b[j], b[i])
      BY DEF InOrder
    <2>2. i - sl.from + 1 \in 1..w /\ j - sl.from + 1 \in 1..w /\ i - sl.from + 1 < j - sl.from + 1
      <3>1. i \in Int /\ j \in Int /\ sl.from \in Int
        BY <1>1 DEF Legal, Span
      <3> QED BY <1>1, <2>1, <3>1
    <2>3. Len(u) = w
      BY <1>1, <1>2
    <2>4. ~Before(u[j - sl.from + 1], u[i - sl.from + 1])
      BY <1>2, <2>2, <2>3 DEF Sorted
    <2> QED BY <1>5, <2>4
  <1>7. ASSUME NEW c \in Nat, MarksIn(a, sl, c)
        PROVE  MarksIn(b, sl, c + 1)
    <2>1. SUFFICES ASSUME NEW i \in Places(sl)
                   PROVE  b[i].secrets = c + 1
      BY DEF MarksIn
    <2>2. PICK k \in 1..w : u[i - sl.from + 1] = Marked(s[k])
      BY <1>1, <1>3
    <2>3. s[k].secrets = c /\ s[k] \in Movie
      BY <1>1, <1>7 DEF MarksIn
    <2>4. Marked(s[k]).secrets = c + 1
      BY <2>3 DEF Marked, Movie
    <2> QED BY <1>5, <2>2, <2>4
  <1> QED BY <1>5, <1>6, <1>7

\* The merge of mergeSort keeps the movies of a slice and their marks, leaves the rest
\* of the array alone, and puts the slice in order if its halves are (server.c:82-118).
THEOREM MergedAtMerges ==
  ASSUME NEW len \in Nat, NEW a \in [1..len -> Movie], NEW sl, Legal(sl, len)
  PROVE  /\ Reworked(a, MergedAt(a, sl), sl, len)
         /\ InOrder(a, FirstHalf(sl)) /\ InOrder(a, SecondHalf(sl)) => InOrder(MergedAt(a, sl), sl)
         /\ \A c : MarksIn(a, sl, c) => MarksIn(MergedAt(a, sl), sl, c)
  <1> DEFINE f == FirstHalf(sl)
             g == SecondHalf(sl)
             s == Part(a, f)
             t == Part(a, g)
             w == Size(sl)
             u == Merged(s, t)
             b == MergedAt(a, sl)
  <1>1. /\ w \in Nat /\ Part(a, sl) \in [1..w -> Movie]
        /\ \A k \in 1..w : sl.from + k - 1 \in Places(sl) /\ Part(a, sl)[k] = a[sl.from + k - 1]
        /\ \A i \in Places(sl) : i - sl.from + 1 \in 1..w /\ i \in 1..len
    BY PartElements
  <1>2. /\ Legal(f, len) /\ Legal(g, len)
        /\ f.from = sl.from /\ g.to = sl.to /\ g.from = f.to + 1
    BY HalvesOf
  <1> HIDE DEF f, g
  <1>3. /\ Size(f) \in Nat /\ s \in [1..Size(f) -> Movie]
        /\ \A k \in 1..Size(f) : f.from + k - 1 \in Places(f) /\ s[k] = a[f.from + k - 1]
    BY <1>2, PartElements
  <1>4. /\ Size(g) \in Nat /\ t \in [1..Size(g) -> Movie]
        /\ \A k \in 1..Size(g) : g.from + k - 1 \in Places(g) /\ t[k] = a[g.from + k - 1]
    BY <1>2, PartElements
  <1>5. Size(f) + Size(g) = w
    BY <1>2 DEF Size, Legal, Span, w
  <1> HIDE DEF s, t, w
  <1>6. /\ Reordered(s \o t, u)
        /\ Sorted(s) /\ Sorted(t) => Sorted(u)
    BY <1>3, <1>4, MergedMerges
  <1> HIDE DEF u
  <1>7. s \o t = Part(a, sl)
    <2>1. s \in Seq(Movie) /\ t \in Seq(Movie) /\ Len(s) = Size(f) /\ Len(t) = Size(g)
      <3>1. \A n \in Nat : \A v \in [1..n -> Movie] : v \in Seq(Movie) /\ Len(v) = n
        OBVIOUS
      <3> QED BY <1>3, <1>4, <3>1
    <2>2. s \o t = [k \in 1..w |-> IF k <= Size(f) THEN s[k] ELSE t[k - Size(f)]]
      <3>1. s \o t = [k \in 1..(Len(s) + Len(t)) |-> IF k <= Len(s) THEN s[k] ELSE t[k - Len(s)]]
        BY <2>1, ConcatElements, Zenon
      <3> QED BY <1>5, <2>1, <3>1
    <2>3. ASSUME NEW k \in 1..w
          PROVE  (IF k <= Size(f) THEN s[k] ELSE t[k - Size(f)]) = Part(a, sl)[k]
      <3>1. CASE k <= Size(f)
        <4>1. k \in 1..Size(f)
          BY <1>3, <3>1
        <4> QED BY <1>1, <1>2, <1>3, <3>1, <4>1
      <3>2. CASE ~(k <= Size(f))
        <4>1. k - Size(f) \in 1..Size(g)
          BY <1>1, <1>3, <1>4, <1>5, <3>2, SMTT(20)
        <4>2. g.from + (k - Size(f)) - 1 = sl.from + k - 1
          <5>1. f.from \in Int /\ f.to \in Int /\ k \in Int
            BY <1>1, <1>2, SizesAndPlaces
          <5> QED BY <1>2, <5>1 DEF Size
        <4> QED BY <1>1, <1>4, <3>2, <4>1, <4>2
      <3> QED BY <3>1, <3>2
    <2>4. Part(a, sl) = [k \in 1..w |-> Part(a, sl)[k]]
      BY <1>1
    <2> QED BY <2>2, <2>3, <2>4
  <1>8. PICK q : ReorderedBy(Part(a, sl), u, q)
    BY <1>6, <1>7 DEF Reordered
  <1>9. /\ q \in Shuffle(w) /\ \A k \in 1..w : q[k] \in 1..w /\ u[k] = Part(a, sl)[q[k]]
        /\ u \in [1..w -> Movie]
    <2>1. Len(Part(a, sl)) = w
      BY <1>1
    <2>2. q \in Shuffle(w) /\ u = [k \in 1..w |-> Part(a, sl)[q[k]]]
      BY <1>8, <2>1 DEF ReorderedBy
    <2>3. \A k \in 1..w : q[k] \in 1..w
      BY <2>2 DEF Shuffle
    <2> QED BY <1>1, <2>2, <2>3
  <1>10. Reworked(a, b, sl, len) /\ \A i \in Places(sl) : b[i] = u[i - sl.from + 1]
    <2>1. b = Overwrite(a, sl, u)
      BY DEF MergedAt, s, t, u, f, g
    <2>2. \A k \in 1..w : Same(u[k], Part(a, sl)[q[k]])
      BY <1>9 DEF Same
    <2>3. Size(sl) = w
      BY DEF w
    <2>4. u \in [1..Size(sl) -> Movie] /\ q \in Shuffle(Size(sl))
          /\ \A k \in 1..Size(sl) : Same(u[k], Part(a, sl)[q[k]])
      BY <1>9, <2>2, <2>3
    <2>5. Reworked(a, Overwrite(a, sl, u), sl, len)
          /\ \A i \in Places(sl) : Overwrite(a, sl, u)[i] = u[i - sl.from + 1]
      BY <2>4, OverwriteReworks
    <2> QED BY <2>1, <2>5
  <1>11. ASSUME InOrder(a, f), InOrder(a, g)
         PROVE  InOrder(b, sl)
    <2>1. Sorted(s)
      <3>1. SUFFICES ASSUME NEW i \in 1..Size(f), NEW j \in 1..Size(f), i < j
                     PROVE  ~Before(s[j], s[i])
        <4>1. Len(s) = Size(f)
          BY <1>3
        <4> QED BY <4>1 DEF Sorted
      <3>2. f.from + i - 1 < f.from + j - 1
        BY <1>2, <3>1, SizesAndPlaces
      <3> QED BY <1>3, <1>11, <3>2 DEF InOrder
    <2>2. Sorted(t)
      <3>1. SUFFICES ASSUME NEW i \in 1..Size(g), NEW j \in 1..Size(g), i < j
                     PROVE  ~Before(t[j], t[i])
        <4>1. Len(t) = Size(g)
          BY <1>4
        <4> QED BY <4>1 DEF Sorted
      <3>2. g.from + i - 1 < g.from + j - 1
        BY <1>2, <3>1, SizesAndPlaces
      <3> QED BY <1>4, <1>11, <3>2 DEF InOrder
    <2>3. SUFFICES ASSUME NEW i \in Places(sl), NEW j \in Places(sl), i < j
                   PROVE  ~Before(b[j], b[i])
      BY DEF InOrder
    <2>4. i - sl.from + 1 \in 1..w /\ j - sl.from + 1 \in 1..w /\ i - sl.from + 1 < j - sl.from + 1
      <3>1. i \in Int /\ j \in Int /\ sl.from \in Int
        BY <1>1 DEF Legal, Span
      <3> QED BY <1>1, <2>3, <3>1
    <2>5. Len(u) = w
      BY <1>1, <1>9
    <2>6. ~Before(u[j - sl.from + 1], u[i - sl.from + 1])
      BY <1>6, <2>1, <2>2, <2>4, <2>5 DEF Sorted
    <2> QED BY <1>10, <2>6
  <1>12. ASSUME NEW c, MarksIn(a, sl, c)
         PROVE  MarksIn(b, sl, c)
    <2>1. SUFFICES ASSUME NEW i \in Places(sl)
                   PROVE  b[i].secrets = c
      BY DEF MarksIn
    <2>2. PICK k \in 1..w : u[i - sl.from + 1] = Part(a, sl)[k]
      BY <1>1, <1>9
    <2>3. Part(a, sl)[k].secrets = c
      BY <1>1, <1>12 DEF MarksIn
    <2> QED BY <1>10, <2>2, <2>3
  <1> QED BY <1>10, <1>11, <1>12 DEF f, g

-------------------------------------------------------------------------------
(* The tree at work, whoever does it: T is where the thread or the process of *)
(* each node is, a the array of len movies.                                   *)

\* A half is there from the moment its node waits for it, and done before its node is.
Grown(T) ==
  /\ T \in [Nodes -> {"none", "begin", "second", "merge", "done"}]
  /\ \A n \in Nodes :
       /\ T[n] \in {"none", "begin"} => \A k \in Halves(n) : T[k] = "none"
       /\ T[n] = "merge" => \A k \in Halves(n) : T[k] # "none"
       /\ T[n] = "done" => \A m \in Nodes : Below(m, n) => T[m] = "done"
       /\ T[n] = "second" => IsLeaf(n)

\* What the array is like in the slice of a node.
DoneAt(a, sl) == InOrder(a, sl) /\ MarksIn(a, sl, 1)
LeafAt(a, sl, at) ==
  /\ at \in {"none", "begin"} => MarksIn(a, sl, 0)
  /\ at = "second" => DoneAt(a, FirstHalf(sl)) /\ MarksIn(a, SecondHalf(sl), 0)
  /\ at = "merge" => DoneAt(a, FirstHalf(sl)) /\ DoneAt(a, SecondHalf(sl))
SortedSoFar(a, T, len) ==
  \A n \in Nodes : /\ T[n] = "done" => DoneAt(a, Slice(n, len))
                   /\ IsLeaf(n) => LeafAt(a, Slice(n, len), T[n])

\* a has the movies of found, in some order and with some marks.
Kept(a, found, len) ==
  /\ a \in [1..len -> Movie]
  /\ \E p \in Shuffle(len) : \A i \in 1..len : Same(a[i], found[p[i]])

LEMMA ReworkedKeeps ==
  ASSUME NEW len \in Nat, NEW a, NEW b, NEW sl, NEW found, Kept(a, found, len), Reworked(a, b, sl, len)
  PROVE  Kept(b, found, len)
  <1>1. PICK p \in Shuffle(len) : \A i \in 1..len : Same(a[i], found[p[i]])
    BY DEF Kept
  <1>2. PICK q \in Shuffle(len) : \A i \in 1..len : Same(b[i], a[q[i]])
    BY DEF Reworked
  <1> DEFINE r == [i \in 1..len |-> p[q[i]]]
  <1>3. r \in Shuffle(len)
    BY ShufflesCompose
  <1>4. \A i \in 1..len : Same(b[i], found[r[i]])
    <2>1. SUFFICES ASSUME NEW i \in 1..len
                   PROVE  Same(b[i], found[p[q[i]]])
      OBVIOUS
    <2>2. q[i] \in 1..len
      BY DEF Shuffle
    <2>3. Same(b[i], a[q[i]]) /\ Same(a[q[i]], found[p[q[i]]])
      BY <1>1, <1>2, <2>2
    <2> QED BY <2>3 DEF Same
  <1> HIDE DEF r
  <1> QED BY <1>3, <1>4 DEF Kept, Reworked

\* Another slice is as it was.
LEMMA ReworkedApart ==
  ASSUME NEW len \in Nat, NEW a, NEW b, NEW sl, NEW other, Legal(other, len), Reworked(a, b, sl, len),
         Places(other) \cap Places(sl) = {}
  PROVE  /\ InOrder(a, other) => InOrder(b, other)
         /\ \A c : MarksIn(a, other, c) => MarksIn(b, other, c)
  <1>1. \A i \in Places(other) : i \in 1..len
    BY DEF Places, Legal, Span
  <1>2. \A i \in Places(other) : b[i] = a[i]
    BY <1>1 DEF Reworked
  <1> QED BY <1>2 DEF InOrder, MarksIn

LEMMA PartsOfASlice ==
  ASSUME NEW a, NEW sl, NEW other, Places(other) \subseteq Places(sl)
  PROVE  /\ InOrder(a, sl) => InOrder(a, other)
         /\ \A c : MarksIn(a, sl, c) => MarksIn(a, other, c)
  BY DEF InOrder, MarksIn

-------------------------------------------------------------------------------

LEMMA SameElements ==
  ASSUME NEW D, NEW S, NEW f \in [D -> S], NEW g \in [D -> S], \A i \in D : f[i] = g[i]
  PROVE  f = g
  OBVIOUS

LEMMA NodesAreSequences ==
  ASSUME NEW n \in Nodes
  PROVE  n \in Seq({1, 2}) /\ Len(n) \in Nat /\ Len(n) <= depth - 1
  <1>1. Len(n) \in 0..(depth - 1) /\ n \in Path(Len(n))
    BY NodesArePaths
  <1>2. Len(n) \in Nat /\ Len(n) <= depth - 1
    BY <1>1, TreeAssumption
  <1>3. \A l \in Nat : \A v \in [1..l -> {1, 2}] : v \in Seq({1, 2})
    OBVIOUS
  <1> QED BY <1>1, <1>2, <1>3 DEF Path

LEMMA HalvesAre ==
  ASSUME NEW n \in Nodes, NEW k \in Halves(n)
  PROVE  /\ k \in Nodes /\ Len(k) = Len(n) + 1 /\ ~IsLeaf(n)
         /\ \E c \in {1, 2} : k = [i \in 1..(Len(n) + 1) |-> IF i = Len(n) + 1 THEN c ELSE n[i]]
  <1>1. PICK c \in {1, 2} : k = Append(n, c) /\ k \in Nodes
    BY DEF Halves
  <1>2. Len(n) \in 0..(depth - 1) /\ n \in [1..Len(n) -> {1, 2}]
    BY NodesArePaths DEF Path
  <1>3. n \in Seq({1, 2}) /\ Len(k) \in 0..(depth - 1)
    <2>1. k \in Nodes
      BY <1>1
    <2> QED BY <2>1, NodesArePaths, NodesAreSequences
  <1>4. /\ Len(k) = Len(n) + 1 /\ k \in [1..(Len(n) + 1) -> {1, 2}]
        /\ \A i \in 1..(Len(n) + 1) : k[i] = IF i = Len(n) + 1 THEN c ELSE n[i]
    <2>1. /\ Len(Append(n, c)) = Len(n) + 1
          /\ \A i \in 1..Len(n) : Append(n, c)[i] = n[i]
          /\ Append(n, c)[Len(n) + 1] = c
      BY <1>3, AppendProperties
    <2>2. k \in [1..Len(k) -> {1, 2}]
      BY <1>1, NodesArePaths DEF Path
    <2> QED BY <1>1, <1>2, <2>1, <2>2
  <1>5. k = [i \in 1..(Len(n) + 1) |-> IF i = Len(n) + 1 THEN c ELSE n[i]]
    <2> DEFINE f == [i \in 1..(Len(n) + 1) |-> IF i = Len(n) + 1 THEN c ELSE n[i]]
    <2>1. f \in [1..(Len(n) + 1) -> {1, 2}]
      BY <1>2
    <2>2. \A i \in 1..(Len(n) + 1) : k[i] = f[i]
      BY <1>4
    <2> HIDE DEF f
    <2>3. k = f
      BY <1>4, <2>1, <2>2, SameElements
    <2> QED BY <2>3 DEF f
  <1>6. ~IsLeaf(n)
    BY <1>2, <1>3, <1>4, TreeAssumption DEF IsLeaf
  <1> QED BY <1>1, <1>4, <1>5, <1>6

LEMMA ParentIsOne ==
  ASSUME NEW n \in Nodes, NEW m \in Nodes, NEW k \in Halves(n), k \in Halves(m)
  PROVE  n = m
  <1>1. PICK c \in {1, 2} : k = [i \in 1..(Len(n) + 1) |-> IF i = Len(n) + 1 THEN c ELSE n[i]]
    BY HalvesAre
  <1>2. PICK e \in {1, 2} : k = [i \in 1..(Len(m) + 1) |-> IF i = Len(m) + 1 THEN e ELSE m[i]]
    BY HalvesAre
  <1>3. Len(k) = Len(n) + 1 /\ Len(k) = Len(m) + 1
    BY HalvesAre
  <1>4. /\ Len(n) \in Nat /\ n \in [1..Len(n) -> {1, 2}]
        /\ Len(m) \in Nat /\ m \in [1..Len(m) -> {1, 2}]
    BY NodesArePaths DEF Path
  <1>5. Len(n) = Len(m)
    <2>1. Len(n) \in Nat /\ Len(m) \in Nat
      BY <1>4
    <2> QED BY <1>3, <2>1
  <1>6. ASSUME NEW i \in 1..Len(n)
        PROVE  n[i] = m[i]
    <2>1. i \in 1..(Len(n) + 1) /\ i # Len(n) + 1
      BY <1>4
    <2>2. k[i] = n[i]
      BY <1>1, <2>1
    <2>3. k[i] = m[i]
      BY <1>2, <1>5, <2>1
    <2> QED BY <2>2, <2>3
  <1>7. n \in [1..Len(n) -> {1, 2}] /\ m \in [1..Len(n) -> {1, 2}]
    BY <1>4, <1>5
  <1> QED BY <1>6, <1>7, SameElements

LEMMA BelowALeaf ==
  ASSUME NEW n \in Nodes, NEW m \in Nodes, Below(m, n), IsLeaf(n) \/ Len(m) = Len(n)
  PROVE  m = n
  <1>1. /\ Len(n) \in 0..(depth - 1) /\ n \in [1..Len(n) -> {1, 2}]
        /\ Len(m) \in 0..(depth - 1) /\ m \in [1..Len(m) -> {1, 2}]
    BY NodesArePaths DEF Path
  <1>2. Len(m) = Len(n) /\ \A i \in 1..Len(n) : n[i] = m[i]
    <2>1. Len(n) <= Len(m) /\ \A i \in 1..Len(n) : n[i] = m[i]
      BY DEF Below, Agree
    <2>2. Len(n) = depth - 1 \/ Len(m) = Len(n)
      BY DEF IsLeaf
    <2>3. depth \in Nat
      BY TreeAssumption
    <2>4. Len(m) = Len(n)
      <3>1. Len(n) \in Nat /\ Len(m) \in Nat /\ Len(m) <= depth - 1
        BY NodesAreSequences
      <3> QED BY <2>1, <2>2, <2>3, <3>1
    <2> QED BY <2>1, <2>4
  <1>3. n \in [1..Len(n) -> {1, 2}] /\ m \in [1..Len(n) -> {1, 2}]
    BY <1>1, <1>2
  <1> QED BY <1>2, <1>3, SameElements

LEMMA BelowAHalf ==
  ASSUME NEW n \in Nodes, NEW m \in Nodes, Below(m, n), m # n
  PROVE  /\ ~IsLeaf(n)
         /\ \E k \in Halves(n) : Below(m, k)
  <1>1. ~IsLeaf(n) /\ Len(m) # Len(n)
    BY BelowALeaf
  <1>2. /\ Len(n) \in Nat /\ Len(m) \in Nat /\ m \in [1..Len(m) -> {1, 2}]
    BY NodesArePaths DEF Path
  <1>3. Len(n) + 1 <= Len(m) /\ m[Len(n) + 1] \in {1, 2}
    BY <1>1, <1>2 DEF Below
  <1>4. PICK c \in {1, 2} : m[Len(n) + 1] = c
    BY <1>3
  <1>5. Append(n, c) \in Nodes
    BY <1>1, SliceHalves
  <1>6. PICK k : k = Append(n, c) /\ k \in Halves(n)
    BY <1>5 DEF Halves
  <1>7. Len(k) = Len(n) + 1
    BY <1>6, HalvesAre
  <1>8. n \in Seq({1, 2})
    BY NodesAreSequences
  <1>9. \A i \in 1..(Len(n) + 1) : k[i] = IF i = Len(n) + 1 THEN c ELSE n[i]
    BY <1>6, <1>8, AppendProperties
  <1>10. \A i \in 1..(Len(n) + 1) : k[i] = m[i]
    BY <1>2, <1>4, <1>9 DEF Below, Agree
  <1> QED BY <1>1, <1>3, <1>6, <1>7, <1>10 DEF Below, Agree

LEMMA BelowSame ==
  ASSUME NEW n
  PROVE  Len(n) \in Nat => Below(n, n)
  BY DEF Below, Agree

LEMMA HalvesAreBelow ==
  ASSUME NEW n \in Nodes, NEW k \in Halves(n)
  PROVE  Below(k, n) /\ k # n /\ ~Below(n, k)
  <1>1. PICK c \in {1, 2} : k = [i \in 1..(Len(n) + 1) |-> IF i = Len(n) + 1 THEN c ELSE n[i]]
    BY HalvesAre
  <1>2. Len(k) = Len(n) + 1 /\ Len(n) \in Nat
    BY HalvesAre, NodesArePaths
  <1> QED BY <1>1, <1>2 DEF Below, Agree

-------------------------------------------------------------------------------
(* The steps of the tree. *)

InOrderSoFar(a, T, len) == Grown(T) /\ SortedSoFar(a, T, len)

LEMMA TreeStarts ==
  ASSUME NEW len \in Nat, NEW a \in [1..len -> Movie], MarksIn(a, [from |-> 1, to |-> len], 0)
  PROVE  InOrderSoFar(a, [n \in Nodes |-> IF n = <<>> THEN "begin" ELSE "none"], len)
  <1> DEFINE T == [n \in Nodes |-> IF n = <<>> THEN "begin" ELSE "none"]
  <1>1. \A n \in Nodes : T[n] \in {"none", "begin"} /\ (n # <<>> => T[n] = "none")
    OBVIOUS
  <1>2. \A n \in Nodes : \A k \in Halves(n) : k \in Nodes /\ k # <<>>
    <2>1. SUFFICES ASSUME NEW n \in Nodes, NEW k \in Halves(n)
                   PROVE  k \in Nodes /\ k # <<>>
      OBVIOUS
    <2>2. k \in Nodes /\ Len(k) = Len(n) + 1 /\ Len(n) \in Nat
      BY HalvesAre, NodesAreSequences
    <2>3. Len(<<>>) = 0
      OBVIOUS
    <2> QED BY <2>2, <2>3
  <1>3. Grown(T)
    <2>1. T \in [Nodes -> {"none", "begin", "second", "merge", "done"}]
      OBVIOUS
    <2> HIDE DEF T
    <2> QED BY <1>1, <1>2, <2>1 DEF Grown
  <1>4. ASSUME NEW n \in Nodes
        PROVE  MarksIn(a, Slice(n, len), 0)
    <2>1. Legal(Slice(n, len), len)
      BY SliceHalves
    <2>2. Places(Slice(n, len)) \subseteq 1..len
      BY <2>1 DEF Legal, Places, Span
    <2> QED BY <2>2 DEF MarksIn, Places
  <1> HIDE DEF T
  <1>5. \A n \in Nodes : T[n] # "done" /\ T[n] # "second" /\ T[n] # "merge"
    BY <1>1
  <1>6. SortedSoFar(a, T, len)
    BY <1>4, <1>5 DEF SortedSoFar, LeafAt
  <1> QED BY <1>3, <1>6 DEF InOrderSoFar, T

LEMMA DivideSorts ==
  ASSUME NEW len \in Nat, NEW a, NEW T, InOrderSoFar(a, T, len),
         NEW n \in Nodes, T[n] = "begin", ~IsLeaf(n)
  PROVE  InOrderSoFar(a, [k \in Nodes |-> IF k = n THEN "merge"
                                          ELSE IF k \in Halves(n) THEN "begin" ELSE T[k]], len)
  <1> DEFINE U == [k \in Nodes |-> IF k = n THEN "merge"
                                   ELSE IF k \in Halves(n) THEN "begin" ELSE T[k]]
  <1>1. Grown(T) /\ SortedSoFar(a, T, len)
    BY DEF InOrderSoFar
  <1>2. \A k \in Halves(n) : k \in Nodes /\ k # n /\ T[k] = "none"
    BY <1>1, HalvesAre, HalvesAreBelow DEF Grown
  <1>3. /\ U \in [Nodes -> {"none", "begin", "second", "merge", "done"}]
        /\ U[n] = "merge" /\ \A k \in Halves(n) : U[k] = "begin"
        /\ \A k \in Nodes : k # n /\ k \notin Halves(n) => U[k] = T[k]
    <2>1. T \in [Nodes -> {"none", "begin", "second", "merge", "done"}]
      BY <1>1 DEF Grown
    <2> QED BY <1>2, <2>1
  <1> HIDE DEF U
  <1>4. \A m \in Nodes : U[m] = "done" => T[m] = "done"
    BY <1>2, <1>3
  <1>5. \A m \in Nodes : T[m] = "done" => U[m] = "done"
    BY <1>2, <1>3
  <1>6. ASSUME NEW m \in Nodes, U[m] \in {"none", "begin"}, NEW k \in Halves(m)
        PROVE  U[k] = "none"
    <2>1. m # n /\ k \in Nodes
      BY <1>3, <1>6, HalvesAre
    <2>2. T[m] \in {"none", "begin"}
      BY <1>2, <1>3, <1>6, <2>1
    <2>3. T[k] = "none"
      BY <1>1, <2>2 DEF Grown
    <2>4. k \notin Halves(n)
      BY <2>1, <1>6, ParentIsOne
    <2>5. k # n
      BY <2>3
    <2> QED BY <1>3, <2>1, <2>3, <2>4, <2>5
  <1>7. ASSUME NEW m \in Nodes, U[m] = "merge", NEW k \in Halves(m)
        PROVE  U[k] # "none"
    <2>1. CASE m = n
      BY <1>3, <2>1
    <2>2. CASE m # n
      <3>1. T[m] = "merge" /\ k \in Nodes
        BY <1>3, <1>7, <2>2, HalvesAre
      <3>2. T[k] # "none"
        BY <1>1, <3>1 DEF Grown
      <3> QED BY <1>3, <3>1, <3>2
    <2> QED BY <2>1, <2>2
  <1>8. Grown(U)
    <2>1. \A m \in Nodes : U[m] = "done" => \A l \in Nodes : Below(l, m) => U[l] = "done"
      BY <1>1, <1>4, <1>5 DEF Grown
    <2>2. \A m \in Nodes : U[m] = "second" => IsLeaf(m)
      <3>1. \A m \in Nodes : U[m] = "second" => T[m] = "second"
        BY <1>2, <1>3
      <3> QED BY <1>1, <3>1 DEF Grown
    <2> QED BY <1>3, <1>6, <1>7, <2>1, <2>2 DEF Grown
  <1>9. SortedSoFar(a, U, len)
    <2>1. ASSUME NEW m \in Nodes, IsLeaf(m)
          PROVE  LeafAt(a, Slice(m, len), U[m])
      <3>1. LeafAt(a, Slice(m, len), T[m])
        BY <1>1, <2>1 DEF SortedSoFar
      <3>2. CASE m \in Halves(n)
        <4>1. T[m] = "none" /\ U[m] = "begin"
          BY <1>2, <1>3, <3>2
        <4> QED BY <3>1, <4>1 DEF LeafAt
      <3>3. CASE m \notin Halves(n)
        <4>1. U[m] = T[m]
          BY <1>3, <2>1, <3>3
        <4> QED BY <3>1, <4>1
      <3> QED BY <3>2, <3>3
    <2> QED BY <1>1, <1>4, <2>1 DEF SortedSoFar
  <1> QED BY <1>8, <1>9 DEF InOrderSoFar, U

LEMMA SortHalfSorts ==
  ASSUME NEW len \in Nat, NEW a \in [1..len -> Movie], NEW T, InOrderSoFar(a, T, len),
         NEW n \in Nodes, IsLeaf(n), NEW half \in {"begin", "second"}, T[n] = half,
         NEW sl, sl = IF half = "begin" THEN FirstHalf(Slice(n, len)) ELSE SecondHalf(Slice(n, len))
  PROVE  /\ InOrderSoFar(SortedAt(a, sl),
                         [T EXCEPT ![n] = IF half = "begin" THEN "second" ELSE "merge"], len)
         /\ Reworked(a, SortedAt(a, sl), sl, len)
  <1> DEFINE w == Slice(n, len)
             b == SortedAt(a, sl)
             to == IF half = "begin" THEN "second" ELSE "merge"
             U == [T EXCEPT ![n] = to]
  <1>1. Grown(T) /\ SortedSoFar(a, T, len)
    BY DEF InOrderSoFar
  <1>2. T \in [Nodes -> {"none", "begin", "second", "merge", "done"}]
    BY <1>1 DEF Grown
  <1>3. /\ Legal(w, len) /\ Legal(FirstHalf(w), len) /\ Legal(SecondHalf(w), len) /\ Legal(sl, len)
        /\ Places(FirstHalf(w)) \cup Places(SecondHalf(w)) = Places(w)
        /\ Places(FirstHalf(w)) \cap Places(SecondHalf(w)) = {}
    <2>1. Legal(w, len)
      BY SliceHalves
    <2> HIDE DEF w
    <2>2. Legal(FirstHalf(w), len) /\ Legal(SecondHalf(w), len)
      BY <2>1, HalvesOf
    <2>3. /\ Places(FirstHalf(w)) \cup Places(SecondHalf(w)) = Places(w)
          /\ Places(FirstHalf(w)) \cap Places(SecondHalf(w)) = {}
      BY <2>1, HalvesOf
    <2> QED BY <2>1, <2>2, <2>3 DEF w
  <1>4. Places(sl) \subseteq Places(w)
    BY <1>3
  <1>5. /\ Reworked(a, b, sl, len)
        /\ InOrder(b, sl)
        /\ MarksIn(a, sl, 0) => MarksIn(b, sl, 1)
    <2>1. \A c \in Nat : MarksIn(a, sl, c) => MarksIn(b, sl, c + 1)
      BY <1>3, SortedAtSorts
    <2>2. 0 \in Nat /\ 0 + 1 = 1
      OBVIOUS
    <2>3. MarksIn(a, sl, 0) => MarksIn(b, sl, 1)
      BY <2>1, <2>2
    <2> QED BY <1>3, <2>3, SortedAtSorts
  <1>6. U[n] = to /\ \A m \in Nodes : m # n => U[m] = T[m]
    BY <1>2
  <1>7. /\ U \in [Nodes -> {"none", "begin", "second", "merge", "done"}]
        /\ to \notin {"none", "begin", "done"} /\ (half = "second" => to = "merge")
        /\ (half = "begin" => to = "second")
    BY <1>2
  <1> HIDE DEF U, b, to
  <1>8. Halves(n) = {}
    BY HalvesAre
  <1>9. \A m \in Nodes : Below(n, m) /\ T[m] = "done" => FALSE
    BY <1>1 DEF Grown
  <1>10. Grown(U)
    <2>1. ASSUME NEW m \in Nodes, U[m] \in {"none", "begin"}, NEW k \in Halves(m)
          PROVE  U[k] = "none"
      <3>1. m # n /\ T[m] \in {"none", "begin"} /\ k \in Nodes
        BY <1>6, <1>7, <2>1, HalvesAre
      <3>2. T[k] = "none"
        BY <1>1, <3>1 DEF Grown
      <3> QED BY <1>6, <3>1, <3>2
    <2>2. ASSUME NEW m \in Nodes, U[m] = "merge", NEW k \in Halves(m)
          PROVE  U[k] # "none"
      <3>1. m # n /\ T[m] = "merge" /\ k \in Nodes
        BY <1>6, <1>8, <2>2, HalvesAre
      <3>2. T[k] # "none"
        BY <1>1, <3>1 DEF Grown
      <3> QED BY <1>6, <1>7, <3>1, <3>2
    <2>3. ASSUME NEW m \in Nodes, U[m] = "done", NEW l \in Nodes, Below(l, m)
          PROVE  U[l] = "done"
      <3>1. m # n /\ T[m] = "done"
        BY <1>6, <1>7, <2>3
      <3>2. T[l] = "done"
        BY <1>1, <2>3, <3>1 DEF Grown
      <3> QED BY <1>6, <3>2
    <2>4. \A m \in Nodes : U[m] = "second" => IsLeaf(m)
      BY <1>1, <1>6 DEF Grown
    <2> QED BY <1>7, <2>1, <2>2, <2>3, <2>4 DEF Grown
  <1>11. ASSUME NEW m \in Nodes, m # n, U[m] = "done" \/ IsLeaf(m)
         PROVE  Places(Slice(m, len)) \cap Places(sl) = {}
    <2>1. ~Below(m, n)
      BY <1>11, BelowALeaf
    <2>2. ~Below(n, m)
      <3>1. CASE U[m] = "done"
        BY <1>6, <1>9, <1>11, <3>1
      <3>2. CASE IsLeaf(m)
        BY <1>11, <3>2, BelowALeaf
      <3> QED BY <1>11, <3>1, <3>2
    <2>3. Places(Slice(m, len)) \cap Places(w) = {}
      BY <2>1, <2>2, SlicesPart
    <2> QED BY <1>4, <2>3
  <1>12. ASSUME NEW m \in Nodes, m # n, IsLeaf(m)
         PROVE  /\ Legal(Slice(m, len), len)
                /\ Legal(FirstHalf(Slice(m, len)), len) /\ Legal(SecondHalf(Slice(m, len)), len)
                /\ Places(FirstHalf(Slice(m, len))) \cap Places(sl) = {}
                /\ Places(SecondHalf(Slice(m, len))) \cap Places(sl) = {}
    <2> DEFINE v == Slice(m, len)
    <2>1. Legal(v, len) /\ Places(v) \cap Places(sl) = {}
      BY <1>11, <1>12, SliceHalves
    <2> HIDE DEF v
    <2>2. /\ Legal(FirstHalf(v), len) /\ Legal(SecondHalf(v), len)
          /\ Places(FirstHalf(v)) \cup Places(SecondHalf(v)) = Places(v)
      BY <2>1, HalvesOf
    <2>3. /\ Places(FirstHalf(v)) \cap Places(sl) = {}
          /\ Places(SecondHalf(v)) \cap Places(sl) = {}
      BY <2>1, <2>2
    <2> QED BY <2>1, <2>2, <2>3 DEF v
  <1>13. \A v : Legal(v, len) /\ Places(v) \cap Places(sl) = {} =>
                  /\ InOrder(a, v) => InOrder(b, v)
                  /\ \A c : MarksIn(a, v, c) => MarksIn(b, v, c)
    BY <1>5, ReworkedApart
  <1>14. ASSUME NEW m \in Nodes, U[m] = "done"
         PROVE  DoneAt(b, Slice(m, len))
    <2>1. m # n /\ T[m] = "done"
      BY <1>6, <1>7, <1>14
    <2>2. DoneAt(a, Slice(m, len))
      BY <1>1, <2>1 DEF SortedSoFar
    <2>3. Legal(Slice(m, len), len) /\ Places(Slice(m, len)) \cap Places(sl) = {}
      BY <1>11, <1>14, <2>1, SliceHalves
    <2> QED BY <1>13, <2>2, <2>3 DEF DoneAt
  <1>15. ASSUME NEW m \in Nodes, IsLeaf(m), m # n
         PROVE  LeafAt(b, Slice(m, len), U[m])
    <2>1. LeafAt(a, Slice(m, len), T[m]) /\ U[m] = T[m]
      BY <1>1, <1>6, <1>15 DEF SortedSoFar
    <2>2. PICK v : v = Slice(m, len)
      OBVIOUS
    <2>3. /\ \A c : MarksIn(a, v, c) => MarksIn(b, v, c)
          /\ InOrder(a, FirstHalf(v)) => InOrder(b, FirstHalf(v))
          /\ \A c : MarksIn(a, FirstHalf(v), c) => MarksIn(b, FirstHalf(v), c)
          /\ InOrder(a, SecondHalf(v)) => InOrder(b, SecondHalf(v))
          /\ \A c : MarksIn(a, SecondHalf(v), c) => MarksIn(b, SecondHalf(v), c)
      BY <1>11, <1>12, <1>13, <1>15, <2>2
    <2> QED BY <2>1, <2>2, <2>3 DEF LeafAt, DoneAt
  <1>16. LeafAt(b, w, U[n])
    <2>1. LeafAt(a, w, half)
      BY <1>1 DEF SortedSoFar
    <2> HIDE DEF w
    <2>2. CASE half = "begin"
      <3>1. sl = FirstHalf(w) /\ U[n] = "second" /\ MarksIn(a, w, 0)
        BY <1>6, <1>7, <2>1, <2>2 DEF LeafAt, w
      <3>2. MarksIn(a, sl, 0) /\ MarksIn(a, SecondHalf(w), 0)
        BY <1>3, <3>1, PartsOfASlice
      <3>3. DoneAt(b, FirstHalf(w))
        BY <1>5, <3>1, <3>2 DEF DoneAt
      <3>4. MarksIn(b, SecondHalf(w), 0)
        <4>1. Legal(SecondHalf(w), len) /\ Places(SecondHalf(w)) \cap Places(sl) = {}
          BY <1>3, <3>1
        <4> QED BY <1>13, <3>2, <4>1
      <3> QED BY <3>1, <3>3, <3>4 DEF LeafAt
    <2>3. CASE half = "second"
      <3>1. sl = SecondHalf(w) /\ U[n] = "merge" /\ DoneAt(a, FirstHalf(w)) /\ MarksIn(a, sl, 0)
        BY <1>6, <1>7, <2>1, <2>3 DEF LeafAt, w
      <3>2. DoneAt(b, SecondHalf(w))
        BY <1>5, <3>1 DEF DoneAt
      <3>3. DoneAt(b, FirstHalf(w))
        <4>1. Legal(FirstHalf(w), len) /\ Places(FirstHalf(w)) \cap Places(sl) = {}
          BY <1>3, <3>1
        <4> QED BY <1>13, <3>1, <4>1 DEF DoneAt
      <3> QED BY <3>1, <3>2, <3>3 DEF LeafAt
    <2> QED BY <2>2, <2>3
  <1>17. SortedSoFar(b, U, len)
    BY <1>14, <1>15, <1>16 DEF SortedSoFar
  <1> QED BY <1>5, <1>10, <1>17 DEF InOrderSoFar, U, b, to

LEMMA MergeSorts ==
  ASSUME NEW len \in Nat, NEW a \in [1..len -> Movie], NEW T, InOrderSoFar(a, T, len),
         NEW n \in Nodes, T[n] = "merge", \A k \in Halves(n) : T[k] \in {"none", "done"}
  PROVE  /\ InOrderSoFar(MergedAt(a, Slice(n, len)), [T EXCEPT ![n] = "done"], len)
         /\ Reworked(a, MergedAt(a, Slice(n, len)), Slice(n, len), len)
  <1> DEFINE w == Slice(n, len)
             b == MergedAt(a, w)
             U == [T EXCEPT ![n] = "done"]
  <1>1. Grown(T) /\ SortedSoFar(a, T, len)
    BY DEF InOrderSoFar
  <1>2. T \in [Nodes -> {"none", "begin", "second", "merge", "done"}]
    BY <1>1 DEF Grown
  <1>3. \A k \in Halves(n) : k \in Nodes /\ T[k] = "done"
    BY <1>1, HalvesAre DEF Grown
  <1>4. U[n] = "done" /\ \A m \in Nodes : m # n => U[m] = T[m]
    BY <1>2
  <1>5. U \in [Nodes -> {"none", "begin", "second", "merge", "done"}]
    BY <1>2
  <1>6. Legal(w, len)
    BY SliceHalves
  <1>7. DoneAt(a, FirstHalf(w)) /\ DoneAt(a, SecondHalf(w))
    <2>1. CASE IsLeaf(n)
      <3>1. LeafAt(a, w, "merge")
        BY <1>1, <2>1 DEF SortedSoFar
      <3> QED BY <3>1 DEF LeafAt
    <2>2. CASE ~IsLeaf(n)
      <3>1. /\ Append(n, 1) \in Halves(n) /\ Slice(Append(n, 1), len) = FirstHalf(w)
            /\ Append(n, 2) \in Halves(n) /\ Slice(Append(n, 2), len) = SecondHalf(w)
        BY <2>2, SliceHalves DEF Halves
      <3>2. \A k \in Halves(n) : DoneAt(a, Slice(k, len))
        BY <1>1, <1>3 DEF SortedSoFar
      <3>3. DoneAt(a, Slice(Append(n, 1), len)) /\ DoneAt(a, Slice(Append(n, 2), len))
        BY <3>1, <3>2
      <3> QED BY <3>1, <3>3
    <2> QED BY <2>1, <2>2
  <1> HIDE DEF w
  <1>8. MarksIn(a, w, 1)
    <2>1. Places(FirstHalf(w)) \cup Places(SecondHalf(w)) = Places(w)
      BY <1>6, HalvesOf
    <2> QED BY <1>7, <2>1 DEF DoneAt, MarksIn
  <1>9. Reworked(a, b, w, len) /\ DoneAt(b, w)
    <2>1. /\ Reworked(a, b, w, len)
          /\ InOrder(a, FirstHalf(w)) /\ InOrder(a, SecondHalf(w)) => InOrder(b, w)
          /\ \A c : MarksIn(a, w, c) => MarksIn(b, w, c)
      BY <1>6, MergedAtMerges
    <2> QED BY <1>7, <1>8, <2>1 DEF DoneAt
  <1> HIDE DEF U, b
  <1>10. ASSUME NEW m \in Nodes, Below(m, n)
         PROVE  U[m] = "done"
    <2>1. CASE m = n
      BY <1>4, <2>1
    <2>2. CASE m # n
      <3>1. PICK k \in Halves(n) : Below(m, k)
        BY <1>10, <2>2, BelowAHalf
      <3>2. T[m] = "done"
        BY <1>1, <1>3, <3>1 DEF Grown
      <3> QED BY <1>4, <2>2, <3>2
    <2> QED BY <2>1, <2>2
  <1>11. ASSUME NEW m \in Nodes, m # n, Below(n, m), U[m] = "done" \/ IsLeaf(m)
         PROVE  FALSE
    <2>1. CASE IsLeaf(m)
      BY <1>11, <2>1, BelowALeaf
    <2>2. CASE U[m] = "done"
      <3>1. T[m] = "done"
        BY <1>4, <1>11, <2>2
      <3>2. T[n] = "done"
        BY <1>1, <1>11, <3>1 DEF Grown
      <3> QED BY <3>2
    <2> QED BY <1>11, <2>1, <2>2
  <1>12. Grown(U)
    <2>1. ASSUME NEW m \in Nodes, U[m] \in {"none", "begin"}, NEW k \in Halves(m)
          PROVE  U[k] = "none"
      <3>1. m # n /\ T[m] \in {"none", "begin"} /\ k \in Nodes
        BY <1>4, <2>1, HalvesAre
      <3>2. T[k] = "none"
        BY <1>1, <3>1 DEF Grown
      <3> QED BY <1>4, <3>1, <3>2
    <2>2. ASSUME NEW m \in Nodes, U[m] = "merge", NEW k \in Halves(m)
          PROVE  U[k] # "none"
      <3>1. m # n /\ T[m] = "merge" /\ k \in Nodes
        BY <1>4, <2>2, HalvesAre
      <3>2. T[k] # "none"
        BY <1>1, <3>1 DEF Grown
      <3> QED BY <1>4, <3>1, <3>2
    <2>3. ASSUME NEW m \in Nodes, U[m] = "done", NEW l \in Nodes, Below(l, m)
          PROVE  U[l] = "done"
      <3>1. CASE m = n
        BY <1>10, <2>3, <3>1
      <3>2. CASE m # n
        <4>1. T[m] = "done"
          BY <1>4, <2>3, <3>2
        <4>2. T[l] = "done"
          BY <1>1, <2>3, <4>1 DEF Grown
        <4> QED BY <1>4, <4>2
      <3> QED BY <3>1, <3>2
    <2>4. \A m \in Nodes : U[m] = "second" => IsLeaf(m)
      BY <1>1, <1>4 DEF Grown
    <2> QED BY <1>5, <2>1, <2>2, <2>3, <2>4 DEF Grown
  <1>13. ASSUME NEW m \in Nodes, U[m] = "done"
         PROVE  DoneAt(b, Slice(m, len))
    <2>1. CASE Below(m, n)
      <3>1. Places(Slice(m, len)) \subseteq Places(w)
        BY <2>1, SlicesNest DEF w
      <3> QED BY <1>9, <3>1, PartsOfASlice DEF DoneAt
    <2>2. CASE ~Below(m, n)
      <3>1. m # n /\ T[m] = "done"
        BY <1>4, <1>13, <2>2, BelowSame, NodesAreSequences
      <3>2. ~Below(n, m)
        BY <1>11, <1>13, <3>1
      <3>3. Places(Slice(m, len)) \cap Places(w) = {}
        BY <2>2, <3>2, SlicesPart DEF w
      <3>4. DoneAt(a, Slice(m, len)) /\ Legal(Slice(m, len), len)
        BY <1>1, <3>1, SliceHalves DEF SortedSoFar
      <3> QED BY <1>9, <3>3, <3>4, ReworkedApart DEF DoneAt
    <2> QED BY <2>1, <2>2
  <1>14. ASSUME NEW m \in Nodes, IsLeaf(m)
         PROVE  LeafAt(b, Slice(m, len), U[m])
    <2>1. CASE Below(m, n)
      BY <1>10, <1>14, <2>1 DEF LeafAt
    <2>2. CASE ~Below(m, n)
      <3>1. m # n
        BY <2>2, BelowSame, NodesAreSequences
      <3>2. ~Below(n, m)
        BY <1>11, <1>14, <3>1
      <3>3. PICK v : v = Slice(m, len)
        OBVIOUS
      <3>4. Places(v) \cap Places(w) = {} /\ Legal(v, len)
        BY <2>2, <3>2, <3>3, SlicesPart, SliceHalves DEF w
      <3>5. /\ Legal(FirstHalf(v), len) /\ Legal(SecondHalf(v), len)
            /\ Places(FirstHalf(v)) \cup Places(SecondHalf(v)) = Places(v)
        BY <3>4, HalvesOf
      <3>6. /\ Places(FirstHalf(v)) \cap Places(w) = {}
            /\ Places(SecondHalf(v)) \cap Places(w) = {}
        BY <3>4, <3>5
      <3>7. LeafAt(a, v, T[m]) /\ U[m] = T[m]
        BY <1>1, <1>4, <1>14, <3>1, <3>3 DEF SortedSoFar
      <3>8. /\ \A c : MarksIn(a, v, c) => MarksIn(b, v, c)
            /\ InOrder(a, FirstHalf(v)) => InOrder(b, FirstHalf(v))
            /\ \A c : MarksIn(a, FirstHalf(v), c) => MarksIn(b, FirstHalf(v), c)
            /\ InOrder(a, SecondHalf(v)) => InOrder(b, SecondHalf(v))
            /\ \A c : MarksIn(a, SecondHalf(v), c) => MarksIn(b, SecondHalf(v), c)
        BY <1>9, <3>4, <3>5, <3>6, ReworkedApart
      <3> QED BY <3>3, <3>7, <3>8 DEF LeafAt, DoneAt
    <2> QED BY <2>1, <2>2
  <1>15. SortedSoFar(b, U, len)
    BY <1>13, <1>14 DEF SortedSoFar
  <1> QED BY <1>9, <1>12, <1>15 DEF InOrderSoFar, U, b, w

\* Once the root is done, so is the array.
LEMMA TreeEnds ==
  ASSUME NEW len \in Nat, NEW a \in [1..len -> Movie], NEW T, InOrderSoFar(a, T, len), T[<<>>] = "done"
  PROVE  /\ Sorted(a) /\ \A i \in 1..len : a[i].secrets = 1
         /\ \A n \in Nodes : T[n] = "done"
  <1>1. <<>> \in Nodes
    <2>1. 0 \in 0..(depth - 1) /\ <<>> \in [1..0 -> {1, 2}]
      BY TreeAssumption
    <2> QED BY <2>1 DEF Nodes
  <1>2. Slice(<<>>, len) = [from |-> 1, to |-> len]
    BY <1>1, SliceHalves
  <1>3. DoneAt(a, [from |-> 1, to |-> len])
    BY <1>1, <1>2 DEF InOrderSoFar, SortedSoFar
  <1>4. \A n \in Nodes : Below(n, <<>>)
    BY NodesAreSequences DEF Below, Agree
  <1>5. \A n \in Nodes : T[n] = "done"
    BY <1>1, <1>4 DEF InOrderSoFar, Grown
  <1>6. Places([from |-> 1, to |-> len]) = 1..len
    BY DEF Places
  <1>7. Len(a) = len
    OBVIOUS
  <1> QED BY <1>3, <1>5, <1>6, <1>7 DEF DoneAt, InOrder, MarksIn, Sorted

-------------------------------------------------------------------------------
(* The slices at the bottom. *)

LEMMA LevelsHalve ==
  AtLevel \in [0..depth -> Nat] /\ AtLevel[0] = mergeThread
  /\ \A i \in 1..depth : AtLevel[i] = AtLevel[i - 1] \div 2
  <1> DEFINE step == [p \in Nat \X (1..depth) |-> p[1] \div 2]
  <1>1. Loop(depth, Nat, mergeThread, step)
    <2>1. \A p \in Nat \X (1..depth) : p[1] \in Nat
      OBVIOUS
    <2>2. step \in [Nat \X (1..depth) -> Nat]
      BY <2>1
    <2> QED BY <2>2, TreeAssumption DEF Loop
  <1>2. PICK s : LoopResult(depth, Nat, mergeThread, step, s)
    <2> HIDE DEF step
    <2> QED BY <1>1, LoopFunction
  <1>3. /\ s \in [0..depth -> Nat] /\ s[0] = mergeThread
        /\ \A i \in 1..depth : s[i] = s[i - 1] \div 2
    <2>1. /\ s \in [0..depth -> Nat] /\ s[0] = mergeThread
          /\ \A i \in 1..depth : s[i] = step[<<s[i - 1], i>>]
      BY <1>2 DEF LoopResult
    <2>2. \A i \in 1..depth : s[i - 1] \in Nat
      BY <2>1, TreeAssumption
    <2> QED BY <2>1, <2>2
  <1> DEFINE Def(f) == f = [i \in 0..depth |-> IF i = 0 THEN mergeThread ELSE f[i - 1] \div 2]
  <1>4. Def(s)
    <2>1. \A i \in 0..depth : i # 0 => i \in 1..depth
      BY TreeAssumption
    <2> QED BY <1>3, <2>1
  <1>5. Def(CHOOSE f : Def(f))
    BY <1>4
  <1>6. AtLevel = (CHOOSE f : Def(f))
    BY Zenon DEF AtLevel
  <1>7. Def(AtLevel)
    BY <1>5, <1>6
  <1> HIDE DEF AtLevel
  <1>8. /\ AtLevel[0] = mergeThread
        /\ \A i \in 1..depth : AtLevel[i] = AtLevel[i - 1] \div 2
    BY <1>7, TreeAssumption
  <1>9. \A i \in 0..depth : AtLevel[i] = s[i]
    <2>1. AtLevel[0] = s[0] /\ depth \in Nat
      BY <1>3, <1>8, TreeAssumption
    <2>2. \A i \in 1..depth : AtLevel[i - 1] = s[i - 1] => AtLevel[i] = s[i]
      BY <1>3, <1>8
    <2> QED BY <2>1, <2>2, LoopsAgree, Zenon
  <1>10. AtLevel = [i \in 0..depth |-> AtLevel[i]]
    BY <1>7
  <1>11. AtLevel \in [0..depth -> Nat]
    BY <1>3, <1>9, <1>10
  <1> QED BY <1>8, <1>11

\* A half has at least half as many places, rounded down.
LEMMA HalfSizes ==
  ASSUME NEW sl \in Span, NEW k \in Nat, Size(sl) >= k
  PROVE  Size(FirstHalf(sl)) >= k \div 2 /\ Size(SecondHalf(sl)) >= k \div 2
  <1>1. sl.from \in Int /\ sl.to \in Int
    BY DEF Span
  <1>2. PICK h : h = (sl.to - sl.from + 1) \div 2
    OBVIOUS
  <1>3. h \in Int /\ 2 * h <= sl.to - sl.from + 1 /\ sl.to - sl.from + 1 <= 2 * h + 1
    BY <1>1, <1>2
  <1>4. FirstHalf(sl).from = sl.from /\ FirstHalf(sl).to = sl.from + h - 1
    BY <1>2 DEF FirstHalf
  <1>5. SecondHalf(sl).from = FirstHalf(sl).to + 1 /\ SecondHalf(sl).to = sl.to
    BY DEF SecondHalf
  <1>6. Size(FirstHalf(sl)) = h /\ Size(SecondHalf(sl)) = sl.to - sl.from + 1 - h
    BY <1>1, <1>3, <1>4, <1>5 DEF Size
  <1>7. k <= sl.to - sl.from + 1
    BY <1>1 DEF Size
  <1>8. k \div 2 <= h
    BY <1>1, <1>3, <1>7
  <1> QED BY <1>1, <1>3, <1>6, <1>8

\* The slices of a list of at least mergeThread movies: none that is to be sorted is empty.
LEMMA BottomsHoldSome ==
  ASSUME NEW len \in Nat, len >= mergeThread, NEW n \in Nodes, IsLeaf(n)
  PROVE  ~IsEmpty(FirstHalf(Slice(n, len))) /\ ~IsEmpty(SecondHalf(Slice(n, len)))
  <1>1. PICK d : d = Len(n) /\ d \in Nat /\ d = depth - 1 /\ n \in Path(d)
    BY NodesArePaths, NodesAreSequences DEF IsLeaf
  <1>2. PICK s : Way(n, d, len, s) /\ Slice(n, len) = s[d]
    BY <1>1, SliceOf
  <1>3. /\ s \in [0..d -> Span] /\ s[0] = [from |-> 1, to |-> len]
        /\ \A i \in 1..d : s[i] = FirstHalf(s[i - 1]) \/ s[i] = SecondHalf(s[i - 1])
    BY <1>2 DEF Way
  <1>4. /\ AtLevel \in [0..depth -> Nat] /\ AtLevel[0] = mergeThread
        /\ \A i \in 1..depth : AtLevel[i] = AtLevel[i - 1] \div 2
    BY LevelsHalve
  <1> DEFINE S == {i \in 0..d : Size(s[i]) >= AtLevel[i]}
  <1>5. 0 \in S
    <2>1. s[0].from = 1 /\ s[0].to = len
      BY <1>3
    <2> QED BY <1>1, <1>4, <2>1 DEF Size
  <1>6. ASSUME NEW i \in 0..d, i < d, i \in S
        PROVE  i + 1 \in S
    <2>1. i + 1 \in 0..d /\ i + 1 \in 1..d /\ (i + 1) - 1 = i /\ i + 1 \in 1..depth /\ i \in 0..depth
      BY <1>1, <1>6, TreeAssumption
    <2>2. s[i] \in Span /\ AtLevel[i] \in Nat /\ Size(s[i]) >= AtLevel[i]
      BY <1>3, <1>4, <1>6, <2>1
    <2>3. /\ Size(FirstHalf(s[i])) >= AtLevel[i] \div 2
          /\ Size(SecondHalf(s[i])) >= AtLevel[i] \div 2
      BY <2>2, HalfSizes
    <2>4. AtLevel[i + 1] = AtLevel[i] \div 2
      BY <1>4, <2>1
    <2>5. s[i + 1] = FirstHalf(s[i]) \/ s[i + 1] = SecondHalf(s[i])
      BY <1>3, <2>1
    <2> QED BY <2>1, <2>3, <2>4, <2>5
  <1>7. d \in S
    <2> HIDE DEF S
    <2>1. Inductive(S, 0, d)
      BY <1>1, <1>5, <1>6 DEF Inductive
    <2>2. d \in 0..d
      BY <1>1
    <2> QED BY <2>1, <2>2, InductionTo
  <1>8. d \in 0..d /\ d \in 0..depth /\ depth \in 1..depth /\ depth - 1 = d
    BY <1>1, TreeAssumption
  <1>9. AtLevel[d] \in Nat /\ AtLevel[depth] = AtLevel[d] \div 2 /\ AtLevel[depth] >= 1
    BY <1>4, <1>8, BottomAssumption
  <1>10. s[d] \in Span /\ Size(s[d]) >= AtLevel[d]
    BY <1>3, <1>7, <1>8
  <1>11. /\ Size(FirstHalf(s[d])) >= AtLevel[d] \div 2
         /\ Size(SecondHalf(s[d])) >= AtLevel[d] \div 2
         /\ FirstHalf(s[d]) \in Span /\ SecondHalf(s[d]) \in Span
    BY <1>9, <1>10, HalfSizes, HalvesAreSpans
  <1>12. \A sl \in Span : Size(sl) >= 1 => ~IsEmpty(sl)
    BY DEF Span, Size, IsEmpty
  <1>13. /\ Size(FirstHalf(s[d])) \in Int /\ Size(SecondHalf(s[d])) \in Int
    <2>1. \A sl \in Span : Size(sl) \in Int
      BY DEF Span, Size
    <2> QED BY <1>11, <2>1
  <1>14. Size(FirstHalf(s[d])) >= 1 /\ Size(SecondHalf(s[d])) >= 1
    BY <1>9, <1>11, <1>13
  <1> QED BY <1>2, <1>11, <1>12, <1>14

-------------------------------------------------------------------------------
(* Products of profiles. *)

\* s is the sums of the first products.
Sums(s, g, h) ==
  /\ s \in [0..NUM_OF_GENRE -> Nat] /\ s[0] = 0
  /\ \A i \in 1..NUM_OF_GENRE : s[i] = s[i - 1] + g[i] * h[i]

LEMMA NaturalProduct ==
  ASSUME NEW x \in Nat, NEW y \in Nat
  PROVE  /\ x * y \in Nat
         /\ x * y = 0 <=> x = 0 \/ y = 0
  OBVIOUS

LEMMA ProductIs ==
  ASSUME NEW g \in Profiles, NEW h \in Profiles
  PROVE  \E s : Sums(s, g, h) /\ Product(g, h) = s[NUM_OF_GENRE]
  <1> DEFINE N == NUM_OF_GENRE
             step == [p \in Nat \X (1..N) |-> p[1] + g[p[2]] * h[p[2]]]
  <1>1. N \in Nat
    BY RowsAssumption
  <1>2. \A i \in 1..N : g[i] \in Nat /\ h[i] \in Nat /\ g[i] * h[i] \in Nat
    BY NaturalProduct DEF Profiles
  <1> HIDE DEF N
  <1>3. Loop(N, Nat, 0, step)
    <2>1. \A p \in Nat \X (1..N) : p[1] \in Nat /\ p[2] \in 1..N
      OBVIOUS
    <2>2. \A p \in Nat \X (1..N) : p[1] + g[p[2]] * h[p[2]] \in Nat
      BY <1>2, <2>1
    <2>3. step \in [Nat \X (1..N) -> Nat]
      BY <2>2
    <2> QED BY <1>1, <2>3 DEF Loop
  <1>4. PICK s : LoopResult(N, Nat, 0, step, s)
    <2> HIDE DEF step
    <2> QED BY <1>3, LoopFunction
  <1>5. /\ s \in [0..N -> Nat] /\ s[0] = 0
        /\ \A i \in 1..N : s[i] = s[i - 1] + g[i] * h[i]
    <2>1. /\ s \in [0..N -> Nat] /\ s[0] = 0
          /\ \A i \in 1..N : s[i] = step[<<s[i - 1], i>>]
      BY <1>4 DEF LoopResult
    <2>2. \A i \in 1..N : s[i - 1] \in Nat
      BY <1>1, <2>1
    <2> QED BY <2>1, <2>2
  <1> DEFINE Def(f) == f = [i \in 0..NUM_OF_GENRE |-> IF i = 0 THEN 0 ELSE f[i - 1] + g[i] * h[i]]
  <1>6. Def(s)
    <2>1. \A i \in 0..N : i # 0 => i \in 1..N
      BY <1>1
    <2> QED BY <1>5, <2>1 DEF N
  <1>7. PICK t : Def(t) /\ Product(g, h) = t[N]
    <2>1. Def(CHOOSE f : Def(f))
      BY <1>6
    <2>2. Product(g, h) = (CHOOSE f : Def(f))[N]
      BY Zenon DEF Product, N
    <2> QED BY <2>1, <2>2
  <1>8. t[0] = 0 /\ \A i \in 1..N : t[i] = t[i - 1] + g[i] * h[i]
    BY <1>1, <1>7 DEF N
  <1>9. t[0] = s[0] /\ \A i \in 1..N : t[i - 1] = s[i - 1] => t[i] = s[i]
    BY <1>5, <1>8
  <1>10. t[N] = s[N]
    <2>1. \A i \in 0..N : t[i] = s[i]
      BY <1>1, <1>9, LoopsAgree, Zenon
    <2> QED BY <1>1, <2>1
  <1>11. Sums(s, g, h)
    BY <1>5 DEF Sums, N
  <1> QED BY <1>7, <1>10, <1>11 DEF N

LEMMA ProductsAreNatural ==
  ASSUME NEW g \in Profiles, NEW h \in Profiles
  PROVE  Product(g, h) \in Nat
  <1>1. PICK s : Sums(s, g, h) /\ Product(g, h) = s[NUM_OF_GENRE]
    BY ProductIs
  <1> QED BY <1>1, RowsAssumption DEF Sums

\* Movies without genres have no product with anything.
LEMMA NothingWithNothing ==
  ASSUME NEW a \in Profiles, NEW g \in Profiles, Product(g, g) = 0
  PROVE  Product(a, g) = 0
  <1>1. PICK s : Sums(s, g, g) /\ Product(g, g) = s[NUM_OF_GENRE]
    BY ProductIs
  <1>2. PICK t : Sums(t, a, g) /\ Product(a, g) = t[NUM_OF_GENRE]
    BY ProductIs
  <1> DEFINE N == NUM_OF_GENRE
             S == {i \in 0..N : s[i] = 0 => t[i] = 0}
  <1>3. N \in Nat
    BY RowsAssumption
  <1>4. ASSUME NEW i \in 0..N, i < N, i \in S
        PROVE  i + 1 \in S
    <2>1. i + 1 \in 0..N /\ i + 1 \in 1..N /\ (i + 1) - 1 = i
      BY <1>3, <1>4
    <2>2. /\ s[i + 1] = s[i] + g[i + 1] * g[i + 1] /\ s[i] \in Nat
          /\ t[i + 1] = t[i] + a[i + 1] * g[i + 1] /\ t[i] \in Nat
      BY <1>1, <1>2, <2>1 DEF Sums
    <2>3. g[i + 1] \in Nat /\ a[i + 1] \in Nat
      BY <2>1 DEF Profiles
    <2>4. ASSUME s[i + 1] = 0
          PROVE  t[i + 1] = 0
      <3>1. g[i + 1] * g[i + 1] \in Nat
        BY <2>3, NaturalProduct
      <3>2. s[i] = 0 /\ g[i + 1] * g[i + 1] = 0
        BY <2>2, <2>4, <3>1
      <3>3. g[i + 1] = 0
        BY <2>3, <3>2, NaturalProduct
      <3>4. a[i + 1] * g[i + 1] = 0
        BY <2>3, <3>3
      <3>5. t[i] = 0
        BY <1>4, <3>2
      <3> QED BY <2>2, <3>4, <3>5
    <2> QED BY <2>1, <2>4
  <1>5. 0 \in S
    BY <1>2, <1>3 DEF Sums
  <1>6. \A i \in 0..N : i \in S
    <2> HIDE DEF S, N
    <2>1. Inductive(S, 0, N)
      BY <1>3, <1>4, <1>5 DEF Inductive
    <2> QED BY <2>1, InductionTo
  <1>7. N \in S
    BY <1>3, <1>6
  <1> QED BY <1>1, <1>2, <1>7

-------------------------------------------------------------------------------
(* The order of points. *)

Points == [num : Nat, root : Nat \ {0}]

LEMMA Cancelled ==
  ASSUME NEW x \in Nat, NEW y \in Nat, NEW z \in Nat \ {0}
  PROVE  x * z > y * z <=> x > y
  <1>1. CASE x > y
    <2>1. PICK d \in Nat \ {0} : x = y + d
      BY <1>1
    <2>2. x * z = y * z + d * z
      BY <2>1
    <2>3. d * z \in Nat /\ d * z # 0 /\ y * z \in Nat
      BY NaturalProduct
    <2> QED BY <1>1, <2>2, <2>3
  <1>2. CASE ~(x > y)
    <2>1. PICK d \in Nat : y = x + d
      BY <1>2
    <2>2. y * z = x * z + d * z
      BY <2>1
    <2>3. d * z \in Nat /\ x * z \in Nat
      BY NaturalProduct
    <2> QED BY <1>2, <2>2, <2>3
  <1> QED BY <1>1, <1>2

LEMMA MoreIsStrict ==
  ASSUME NEW x \in Points, NEW y \in Points, More(x, y)
  PROVE  ~More(y, x)
  <1>1. x.num \in Nat /\ x.root \in Nat /\ y.num \in Nat /\ y.root \in Nat
    BY DEF Points
  <1>2. x.num * x.num * y.root \in Nat /\ y.num * y.num * x.root \in Nat
    BY <1>1, NaturalProduct
  <1>3. PICK a \in Nat, b \in Nat : a = x.num * x.num * y.root /\ b = y.num * y.num * x.root
    BY <1>2
  <1> QED BY <1>3 DEF More

\* What has more points than another has more than whatever has not more than that one.
LEMMA MoreIsWeak ==
  ASSUME NEW x \in Points, NEW y \in Points, NEW z \in Points, More(x, z)
  PROVE  More(x, y) \/ More(y, z)
  <1>1. PICK a \in Nat, b \in Nat, c \in Nat :
             a = x.num * x.num /\ b = y.num * y.num /\ c = z.num * z.num
    BY NaturalProduct DEF Points
  <1>2. PICK p \in Nat \ {0}, q \in Nat \ {0}, r \in Nat \ {0} : p = x.root /\ q = y.root /\ r = z.root
    BY DEF Points
  <1>3. a * r > c * p
    BY <1>1, <1>2 DEF More
  <1>4. SUFFICES ASSUME ~(a * q > b * p)
                 PROVE  b * r > c * q
    BY <1>1, <1>2 DEF More
  <1>5. /\ a * r \in Nat /\ c * p \in Nat /\ a * q \in Nat /\ b * p \in Nat
        /\ b * r \in Nat /\ c * q \in Nat
    BY NaturalProduct
  <1>6. (a * r) * q > (c * p) * q
    BY <1>3, <1>5, Cancelled
  <1>7. ~((a * q) * r > (b * p) * r)
    BY <1>4, <1>5, Cancelled
  <1>8. (a * r) * q = (a * q) * r /\ (c * p) * q = (c * q) * p /\ (b * p) * r = (b * r) * p
    OBVIOUS
  <1>9. (a * q) * r \in Nat /\ (b * r) * p \in Nat /\ (c * q) * p \in Nat
    BY <1>5, NaturalProduct
  <1>10. PICK u \in Nat, v \in Nat, w \in Nat : u = (a * q) * r /\ v = (b * r) * p /\ w = (c * q) * p
    BY <1>9
  <1>11. u > w /\ ~(u > v)
    BY <1>6, <1>7, <1>8, <1>10
  <1>12. v > w
    BY <1>11
  <1>13. (b * r) * p > (c * q) * p
    BY <1>10, <1>12
  <1> QED BY <1>5, <1>13, Cancelled

\* Two movies have more and fewer points as their genres have the smaller and the larger
\* angle with those of the request, and none if there are no genres (server.c:43-48,
\* 434-456).
THEOREM PointsAreAngles ==
  ASSUME NEW a \in Profiles, NEW g \in Profiles, NEW h \in Profiles
  PROVE  /\ Dot(Normalized(a), Normalized(g)) \in Points
         /\ More(Dot(Normalized(a), Normalized(g)), Dot(Normalized(a), Normalized(h)))
              <=> Nearer(a, g, h)
  <1> DEFINE Root(p) == IF Product(p, p) = 0 THEN 1 ELSE Product(p, p)
  <1>1. \A p \in Profiles : Normalized(p) = [num |-> p, root |-> Root(p)] /\ Root(p) \in Nat \ {0}
    BY ProductsAreNatural DEF Normalized
  <1>2. PICK r \in Nat \ {0}, s \in Nat \ {0}, t \in Nat \ {0} : r = Root(a) /\ s = Root(g) /\ t = Root(h)
    BY <1>1
  <1>3. PICK x \in Nat, y \in Nat : x = Product(a, g) /\ y = Product(a, h)
    BY ProductsAreNatural
  <1>4. /\ Dot(Normalized(a), Normalized(g)) = [num |-> x, root |-> r * s]
        /\ Dot(Normalized(a), Normalized(h)) = [num |-> y, root |-> r * t]
    BY <1>1, <1>2, <1>3 DEF Dot
  <1>5. r * s \in Nat \ {0} /\ r * t \in Nat \ {0} /\ x * x \in Nat /\ y * y \in Nat
    BY NaturalProduct
  <1>6. More(Dot(Normalized(a), Normalized(g)), Dot(Normalized(a), Normalized(h)))
          <=> (x * x) * (r * t) > (y * y) * (r * s)
    BY <1>4 DEF More
  <1>7. (x * x) * (r * t) = ((x * x) * t) * r /\ (y * y) * (r * s) = ((y * y) * s) * r
    OBVIOUS
  <1>8. (x * x) * t \in Nat /\ (y * y) * s \in Nat
    BY <1>5, NaturalProduct
  <1>9. ((x * x) * t) * r > ((y * y) * s) * r <=> (x * x) * t > (y * y) * s
    BY <1>8, Cancelled
  <1>10. More(Dot(Normalized(a), Normalized(g)), Dot(Normalized(a), Normalized(h)))
           <=> (x * x) * t > (y * y) * s
    BY <1>6, <1>7, <1>9
  <1>11. /\ Product(g, g) = 0 => x = 0
         /\ Product(h, h) = 0 => y = 0
         /\ Product(g, g) # 0 => s = Product(g, g)
         /\ Product(h, h) # 0 => t = Product(h, h)
    BY <1>2, <1>3, NothingWithNothing
  <1>12. Nearer(a, g, h) <=> x > 0 /\ (y = 0 \/ x * x * Product(h, h) > y * y * Product(g, g))
    BY <1>3 DEF Nearer
  <1>16. Dot(Normalized(a), Normalized(g)) \in Points
    BY <1>4, <1>5 DEF Points
  <1> SUFFICES (x * x) * t > (y * y) * s <=> Nearer(a, g, h)
    BY <1>10, <1>16
  <1>13. CASE x = 0
    <2>1. x * x = 0 /\ (x * x) * t = 0
      BY <1>13
    <2> QED BY <1>8, <1>12, <1>13, <2>1
  <1>14. CASE x # 0 /\ y = 0
    <2>1. y * y = 0 /\ (y * y) * s = 0
      BY <1>14
    <2>2. x * x # 0 /\ (x * x) * t # 0
      BY <1>5, <1>14, NaturalProduct
    <2> QED BY <1>8, <1>12, <1>14, <2>1, <2>2
  <1>15. CASE x # 0 /\ y # 0
    <2>1. s = Product(g, g) /\ t = Product(h, h)
      BY <1>11, <1>15
    <2> QED BY <1>12, <1>15, <2>1
  <1> QED BY <1>13, <1>14, <1>15

-------------------------------------------------------------------------------
(* Places in an order in which several may be equal. *)

LEMMA FewerElements ==
  ASSUME NEW S, IsFiniteSet(S), NEW T \in SUBSET S
  PROVE  /\ Cardinality(S) \in Nat /\ Cardinality(T) \in Nat /\ Cardinality(T) <= Cardinality(S)
         /\ \A x \in S : x \notin T => Cardinality(T) < Cardinality(S)
  <1>1. IsFiniteSet(T) /\ Cardinality(T) <= Cardinality(S) /\ (Cardinality(S) = Cardinality(T) => S = T)
    BY FS_Subset
  <1>2. Cardinality(S) \in Nat /\ Cardinality(T) \in Nat
    BY <1>1, FS_CardinalityType
  <1>3. ASSUME NEW x \in S, x \notin T
        PROVE  Cardinality(T) < Cardinality(S)
    <2>1. Cardinality(S) # Cardinality(T)
      BY <1>1, <1>3
    <2> QED BY <1>1, <1>2, <2>1
  <1> QED BY <1>1, <1>2, <1>3

OneToOne(f, S, T) == f \in [S -> T] /\ \A x, y \in S : f[x] = f[y] => x = y
Onto(f, S, T) == \A y \in T : \E x \in S : f[x] = y

LEMMA InjectedElements ==
  ASSUME NEW S, NEW T, IsFiniteSet(T), NEW f, OneToOne(f, S, T)
  PROVE  /\ IsFiniteSet(S) /\ Cardinality(S) <= Cardinality(T)
         /\ Cardinality(S) = Cardinality(T) => Onto(f, S, T)
  <1>1. f \in Injection(S, T)
    BY DEF Injection, IsInjective, OneToOne
  <1>2. Cardinality(S) = Cardinality(T) => f \in Surjection(S, T)
    BY <1>1, FS_Injection
  <1>3. f \in Surjection(S, T) => Onto(f, S, T)
    BY DEF Surjection, Onto
  <1> QED BY <1>1, <1>2, <1>3, FS_Injection

\* W is such an order of the elements of K.
WeakOrder(K, W) ==
  /\ \A j, k \in K : <<j, k>> \in W => <<k, j>> \notin W
  /\ \A j, k, l \in K : <<j, l>> \in W => <<j, k>> \in W \/ <<k, l>> \in W

\* What comes after more elements is ahead.
LEMMA RankOrders ==
  ASSUME NEW K, IsFiniteSet(K), NEW W, WeakOrder(K, W), NEW j \in K, NEW k \in K
  PROVE  Cardinality({l \in K : <<j, l>> \in W}) > Cardinality({l \in K : <<k, l>> \in W})
           <=> <<j, k>> \in W
  <1> DEFINE Past(i) == {l \in K : <<i, l>> \in W}
  <1>1. IsFiniteSet(Past(j)) /\ IsFiniteSet(Past(k))
    BY FS_Subset
  <1>2. CASE <<j, k>> \in W
    <2>1. Past(k) \subseteq Past(j)
      BY <1>2 DEF WeakOrder
    <2>2. k \in Past(j) /\ k \notin Past(k)
      BY <1>2 DEF WeakOrder
    <2>3. Cardinality(Past(k)) < Cardinality(Past(j))
          /\ Cardinality(Past(k)) \in Nat /\ Cardinality(Past(j)) \in Nat
      <3> HIDE DEF Past
      <3> QED BY <1>1, <2>1, <2>2, FewerElements
    <2> QED BY <1>2, <2>3
  <1>3. CASE <<j, k>> \notin W
    <2>1. Past(j) \subseteq Past(k)
      BY <1>3 DEF WeakOrder
    <2>2. Cardinality(Past(j)) <= Cardinality(Past(k))
          /\ Cardinality(Past(k)) \in Nat /\ Cardinality(Past(j)) \in Nat
      <3> HIDE DEF Past
      <3> QED BY <1>1, <2>1, FewerElements
    <2> QED BY <1>3, <2>2
  <1> QED BY <1>2, <1>3

\* The elements of K before k, equal ones by their numbers.
InFront(K, W, k) == {j \in K : <<j, k>> \in W \/ (<<k, j>> \notin W /\ j < k)}
PlaceOf(K, W, k) == Cardinality(InFront(K, W, k)) + 1

LEMMA FrontsGrow ==
  ASSUME NEW K \in SUBSET Nat, NEW W, WeakOrder(K, W), NEW j \in K, NEW k \in K, j \in InFront(K, W, k)
  PROVE  InFront(K, W, j) \subseteq InFront(K, W, k) /\ j \notin InFront(K, W, j)
  <1>0. j \notin InFront(K, W, j)
    <2>1. j \in Nat /\ ~(j < j)
      OBVIOUS
    <2>2. <<j, j>> \notin W
      BY DEF WeakOrder
    <2> QED BY <2>1, <2>2 DEF InFront
  <1>1. SUFFICES ASSUME NEW i \in InFront(K, W, j)
                 PROVE  i \in InFront(K, W, k)
    BY <1>0
  <1>2. i \in K /\ i \in Nat /\ j \in Nat /\ k \in Nat
    BY DEF InFront
  <1>3. /\ <<i, j>> \in W \/ (<<j, i>> \notin W /\ i < j)
        /\ <<j, k>> \in W \/ (<<k, j>> \notin W /\ j < k)
    BY DEF InFront
  <1>4. /\ \A a, b \in K : <<a, b>> \in W => <<b, a>> \notin W
        /\ \A a, b, c \in K : <<a, c>> \in W => <<a, b>> \in W \/ <<b, c>> \in W
    BY DEF WeakOrder
  <1>5. <<i, k>> \in W \/ (<<k, i>> \notin W /\ i < k)
    <2>1. CASE <<i, j>> \in W
      <3>1. <<i, k>> \in W \/ <<k, j>> \in W
        BY <1>2, <1>4, <2>1
      <3> QED BY <1>2, <1>3, <1>4, <2>1, <3>1
    <2>2. CASE <<i, j>> \notin W /\ <<j, k>> \in W
      <3>1. <<j, i>> \in W \/ <<i, k>> \in W
        BY <1>2, <1>4, <2>2
      <3> QED BY <1>3, <2>2, <3>1
    <2>3. CASE <<i, j>> \notin W /\ <<j, k>> \notin W
      <3>1. <<j, i>> \notin W /\ i < j /\ <<k, j>> \notin W /\ j < k
        BY <1>3, <2>3
      <3>2. <<k, i>> \notin W
        BY <1>2, <1>4, <3>1
      <3> QED BY <1>2, <3>1, <3>2
    <2> QED BY <2>1, <2>2, <2>3
  <1> QED BY <1>2, <1>5 DEF InFront

\* Each place from the first to the last is that of one element.
LEMMA PlacesAreTaken ==
  ASSUME NEW K \in SUBSET Nat, IsFiniteSet(K), NEW W, WeakOrder(K, W)
  PROVE  /\ Cardinality(K) \in Nat
         /\ \A k \in K : PlaceOf(K, W, k) \in 1..Cardinality(K)
         /\ \A j, k \in K : PlaceOf(K, W, j) = PlaceOf(K, W, k) => j = k
         /\ \A i \in 1..Cardinality(K) : \E k \in K : PlaceOf(K, W, k) = i
  <1> DEFINE n == Cardinality(K)
             f == [k \in K |-> PlaceOf(K, W, k)]
  <1>1. n \in Nat
    BY FS_CardinalityType
  <1>2. \A k \in K : InFront(K, W, k) \in SUBSET K /\ k \notin InFront(K, W, k)
    BY DEF InFront, WeakOrder
  <1>3. \A k \in K : IsFiniteSet(InFront(K, W, k))
    BY <1>2, FS_Subset
  <1>4. ASSUME NEW k \in K
        PROVE  Cardinality(InFront(K, W, k)) \in Nat /\ PlaceOf(K, W, k) \in 1..n
    <2>1. Cardinality(InFront(K, W, k)) \in Nat /\ Cardinality(InFront(K, W, k)) < n
      BY <1>2, FewerElements
    <2> QED BY <1>1, <2>1 DEF PlaceOf
  <1>5. ASSUME NEW j \in K, NEW k \in K, j \in InFront(K, W, k)
        PROVE  PlaceOf(K, W, j) # PlaceOf(K, W, k)
    <2>1. InFront(K, W, j) \in SUBSET InFront(K, W, k) /\ j \notin InFront(K, W, j)
      BY <1>5, FrontsGrow
    <2>2. Cardinality(InFront(K, W, j)) < Cardinality(InFront(K, W, k))
      BY <1>3, <1>5, <2>1, FewerElements
    <2> QED BY <1>4, <2>2 DEF PlaceOf
  <1>6. ASSUME NEW j \in K, NEW k \in K, j # k
        PROVE  j \in InFront(K, W, k) \/ k \in InFront(K, W, j)
    <2>1. j \in Nat /\ k \in Nat
      OBVIOUS
    <2>2. j < k \/ k < j
      BY <1>6, <2>1
    <2> QED BY <2>2 DEF InFront, WeakOrder
  <1>7. \A j, k \in K : PlaceOf(K, W, j) = PlaceOf(K, W, k) => j = k
    BY <1>5, <1>6
  <1>8. OneToOne(f, K, 1..n)
    BY <1>4, <1>7 DEF OneToOne
  <1>9. IsFiniteSet(1..n) /\ Cardinality(1..n) = n
    BY <1>1, FS_Interval
  <1>10. \A i \in 1..n : \E k \in K : PlaceOf(K, W, k) = i
    <2>1. \A k \in K : f[k] = PlaceOf(K, W, k)
      OBVIOUS
    <2>2. \A i \in 1..n : \E k \in K : f[k] = i
      <3>1. Cardinality(K) = Cardinality(1..n)
        BY <1>9
      <3>2. PICK T : T = 1..n
        OBVIOUS
      <3> HIDE DEF f, n
      <3>3. OneToOne(f, K, T) /\ IsFiniteSet(T) /\ Cardinality(K) = Cardinality(T)
        BY <1>8, <1>9, <3>1, <3>2
      <3>4. Onto(f, K, T)
        BY <3>3, InjectedElements
      <3> QED BY <3>2, <3>4 DEF Onto
    <2> QED BY <2>1, <2>2
  <1> QED BY <1>1, <1>4, <1>7, <1>10

\* q has n of K, none twice, and none behind one that it is ahead of.
Ordered(K, W, q, n) ==
  /\ n \in Nat /\ q \in [1..n -> K]
  /\ \A i, j \in 1..n : q[i] = q[j] => i = j
  /\ \A i, j \in 1..n : i < j => <<q[j], q[i]>> \notin W

\* If that is all of K, it has in each place what is equal to the element of that place.
LEMMA RowsInOrder ==
  ASSUME NEW K \in SUBSET Nat, IsFiniteSet(K), NEW W, WeakOrder(K, W),
         NEW q, NEW n, Ordered(K, W, q, n), n = Cardinality(K),
         NEW k \in K, NEW i \in 1..n, PlaceOf(K, W, k) = i
  PROVE  <<q[i], k>> \notin W /\ <<k, q[i]>> \notin W
  <1>0. /\ n \in Nat /\ q \in [1..n -> K]
        /\ \A a, b \in 1..n : q[a] = q[b] => a = b
        /\ \A a, b \in 1..n : a < b => <<q[b], q[a]>> \notin W
    BY DEF Ordered
  <1> DEFINE F == InFront(K, W, k)
  <1>1. F \in SUBSET K /\ k \notin F /\ IsFiniteSet(F)
    <2>1. F \in SUBSET K /\ k \notin F
      BY DEF InFront, WeakOrder
    <2> QED BY <2>1, FS_Subset
  <1>2. Cardinality(F) = i - 1
    <2>1. Cardinality(F) \in Nat
      BY <1>1, FS_CardinalityType
    <2> QED BY <1>0, <2>1 DEF PlaceOf
  <1>3. /\ \A a, b \in K : <<a, b>> \in W => <<b, a>> \notin W
        /\ \A a, b, c \in K : <<a, c>> \in W => <<a, b>> \in W \/ <<b, c>> \in W
    BY DEF WeakOrder
  <1>4. \A j \in 1..n : q[j] \in K
    BY <1>0
  <1>5. ASSUME <<q[i], k>> \in W
        PROVE  FALSE
    <2> DEFINE f == [j \in 1..i |-> q[j]]
    <2>1. ASSUME NEW j \in 1..i
          PROVE  j \in 1..n /\ q[j] \in F
      <3>1. j \in 1..n /\ (j = i \/ j < i)
        BY <1>0
      <3>2. <<q[i], q[j]>> \notin W
        BY <1>0, <1>3, <1>4, <3>1
      <3>3. <<q[j], k>> \in W
        BY <1>3, <1>4, <1>5, <3>1, <3>2
      <3> QED BY <1>4, <3>1, <3>3 DEF InFront
    <2>2. f \in [1..i -> F]
      BY <1>0, <2>1
    <2>3. OneToOne(f, 1..i, F)
      BY <1>0, <2>1, <2>2 DEF OneToOne
    <2>4. Cardinality(1..i) = i
      BY <1>0, FS_Interval
    <2>5. Cardinality(1..i) <= Cardinality(F)
      <3> HIDE DEF f, F
      <3> QED BY <1>1, <2>3, InjectedElements
    <2> QED BY <1>2, <2>4, <2>5
  <1>6. ASSUME <<k, q[i]>> \in W
        PROVE  FALSE
    <2> DEFINE G == (K \ F) \ {k}
               f == [j \in i..n |-> q[j]]
    <2>1. ASSUME NEW j \in i..n
          PROVE  j \in 1..n /\ q[j] \in G
      <3>1. j \in 1..n /\ (j = i \/ i < j)
        BY <1>0
      <3>2. <<q[j], q[i]>> \notin W
        BY <1>0, <1>3, <1>4, <3>1
      <3>3. <<k, q[j]>> \in W
        BY <1>3, <1>4, <1>6, <3>1, <3>2
      <3>4. <<q[j], k>> \notin W /\ q[j] # k
        BY <1>3, <1>4, <3>1, <3>3
      <3> QED BY <1>4, <3>1, <3>3, <3>4 DEF InFront
    <2>2. f \in [i..n -> G]
      BY <1>0, <2>1
    <2>3. OneToOne(f, i..n, G)
      BY <1>0, <2>1, <2>2 DEF OneToOne
    <2>4. Cardinality(i..n) = n - i + 1
      BY <1>0, FS_Interval
    <2>5. IsFiniteSet(K \ F) /\ Cardinality(K \ F) = n - (i - 1)
      <3>1. K \cap F = F
        BY <1>1
      <3>2. IsFiniteSet(K \ F) /\ Cardinality(K \ F) = Cardinality(K) - Cardinality(K \cap F)
        BY FS_Difference
      <3> QED BY <1>2, <3>1, <3>2
    <2>6. IsFiniteSet(G) /\ Cardinality(G) = n - (i - 1) - 1
      <3>1. k \in K \ F
        BY <1>1
      <3>2. PICK R : R = K \ F
        OBVIOUS
      <3>3. IsFiniteSet(R \ {k}) /\ Cardinality(R \ {k}) = Cardinality(R) - 1
        BY <2>5, <3>1, <3>2, FS_RemoveElement
      <3> QED BY <2>5, <3>2, <3>3
    <2>7. Cardinality(i..n) <= Cardinality(G)
      <3> HIDE DEF f, G
      <3> QED BY <2>3, <2>6, InjectedElements
    <2> QED BY <1>0, <2>4, <2>6, <2>7
  <1> QED BY <1>5, <1>6

-------------------------------------------------------------------------------
(* The movies that are found. *)

LEMMA AppendElements ==
  ASSUME NEW S, NEW n \in Nat, NEW s \in [1..n -> S], NEW x \in S
  PROVE  Append(s, x) = [k \in 1..(n + 1) |-> IF k = n + 1 THEN x ELSE s[k]]
  <1>1. s \in Seq(S) /\ Len(s) = n
    OBVIOUS
  <1>2. /\ Append(s, x) \in Seq(S) /\ Len(Append(s, x)) = n + 1
        /\ \A k \in 1..n : Append(s, x)[k] = s[k]
        /\ Append(s, x)[n + 1] = x
    BY <1>1, AppendProperties
  <1>3. Append(s, x) \in [1..(n + 1) -> S]
    BY <1>2, LenProperties
  <1> DEFINE t == [k \in 1..(n + 1) |-> IF k = n + 1 THEN x ELSE s[k]]
  <1>4. t \in [1..(n + 1) -> S]
    OBVIOUS
  <1>5. \A k \in 1..(n + 1) : Append(s, x)[k] = t[k]
    BY <1>2
  <1> HIDE DEF t
  <1>6. Append(s, x) = t
    BY <1>3, <1>4, <1>5, SameElements
  <1> QED BY <1>6 DEF t

LEMMA RowsAre ==
  /\ Len(Rows) \in Nat /\ DOMAIN Rows = 1..Len(Rows)
  /\ \A k \in 1..Len(Rows) : Rows[k].title \in Nat /\ Rows[k].genres \in Profiles
  <1>1. Rows \in Seq([title : Nat, words : SUBSET STRING, genres : Profiles])
    BY RowsAssumption
  <1>2. PICK R : R = [title : Nat, words : SUBSET STRING, genres : Profiles]
    OBVIOUS
  <1>3. \A r \in R : r.title \in Nat /\ r.genres \in Profiles
    BY <1>2
  <1>4. Len(Rows) \in Nat /\ DOMAIN Rows = 1..Len(Rows) /\ \A k \in 1..Len(Rows) : Rows[k] \in R
    BY <1>1, <1>2, LenProperties, ElementOfSeq
  <1> QED BY <1>3, <1>4

\* e is the numbers of the first i rows that are asked for, in their order.
Chosen(e, n, i, keywords) ==
  /\ n \in Nat /\ e \in [1..n -> 1..i]
  /\ \A a \in 1..n : Matches(keywords, Rows[e[a]].words)
  /\ \A a, b \in 1..n : a < b => e[a] < e[b]
  /\ \A k \in 1..i : Matches(keywords, Rows[k].words) => \E a \in 1..n : e[a] = k

TheMovies(e, n) == [k \in 1..n |-> movies[e[k]]]
ChosenMovies(f, i, keywords) ==
  \E n, e : Chosen(e, n, i, keywords) /\ f = TheMovies(e, n)

LEMMA NextChosen ==
  ASSUME NEW keywords, NEW i \in Nat, i + 1 <= Len(Rows), NEW f, ChosenMovies(f, i, keywords)
  PROVE  ChosenMovies(IF Matches(keywords, movies[i + 1].words) THEN Append(f, movies[i + 1]) ELSE f,
                      i + 1, keywords)
  <1>0. PICK n, e : Chosen(e, n, i, keywords) /\ f = TheMovies(e, n)
    BY DEF ChosenMovies
  <1>1. f = [k \in 1..n |-> movies[e[k]]]
    BY <1>0 DEF TheMovies
  <1>2. /\ n \in Nat /\ e \in [1..n -> 1..i]
        /\ \A a \in 1..n : Matches(keywords, Rows[e[a]].words)
        /\ \A a, b \in 1..n : a < b => e[a] < e[b]
        /\ \A k \in 1..i : Matches(keywords, Rows[k].words) => \E a \in 1..n : e[a] = k
    BY <1>0 DEF Chosen
  <1>3. i + 1 \in 1..Len(Rows) /\ movies[i + 1].words = Rows[i + 1].words
    BY RowsAre DEF movies
  <1>4. CASE ~Matches(keywords, movies[i + 1].words)
    <2>1. Chosen(e, n, i + 1, keywords)
      <3>1. e \in [1..n -> 1..(i + 1)]
        BY <1>2
      <3>2. \A k \in 1..(i + 1) : Matches(keywords, Rows[k].words) => k \in 1..i
        BY <1>3, <1>4
      <3> QED BY <1>2, <3>1, <3>2 DEF Chosen
    <2> QED BY <1>0, <1>4, <2>1 DEF ChosenMovies
  <1>5. CASE Matches(keywords, movies[i + 1].words)
    <2> DEFINE d == [k \in 1..(n + 1) |-> IF k = n + 1 THEN i + 1 ELSE e[k]]
    <2>1. /\ d \in [1..(n + 1) -> 1..(i + 1)]
          /\ d[n + 1] = i + 1 /\ \A k \in 1..n : d[k] = e[k] /\ d[k] \in 1..i
          /\ \A k \in 1..(n + 1) : k = n + 1 \/ k \in 1..n
      BY <1>2
    <2>2. f \in [1..n -> {movies[k] : k \in 1..Len(Rows)}]
      <3>1. \A k \in 1..n : e[k] \in 1..Len(Rows)
        BY <1>2, RowsAre
      <3> QED BY <1>1, <3>1
    <2>3. Append(f, movies[i + 1]) = [k \in 1..(n + 1) |-> IF k = n + 1 THEN movies[i + 1] ELSE f[k]]
      BY <1>2, <1>3, <2>2, AppendElements
    <2>4. [k \in 1..(n + 1) |-> IF k = n + 1 THEN movies[i + 1] ELSE f[k]]
            = [k \in 1..(n + 1) |-> movies[d[k]]]
      BY <1>1, <1>2, <2>1
    <2> HIDE DEF d
    <2>5. Chosen(d, n + 1, i + 1, keywords)
      <3>1. \A a \in 1..(n + 1) : Matches(keywords, Rows[d[a]].words)
        BY <1>2, <1>3, <1>5, <2>1
      <3>2. \A a, b \in 1..(n + 1) : a < b => d[a] < d[b]
        <4>1. SUFFICES ASSUME NEW a \in 1..(n + 1), NEW b \in 1..(n + 1), a < b
                       PROVE  d[a] < d[b]
          OBVIOUS
        <4>2. a \in 1..n /\ (b = n + 1 \/ b \in 1..n)
          BY <1>2, <4>1
        <4>3. d[a] = e[a] /\ d[a] \in 1..i
          BY <2>1, <4>2
        <4>4. CASE b = n + 1
          BY <2>1, <4>3, <4>4
        <4>5. CASE b \in 1..n
          <5>1. d[b] = e[b] /\ e[a] < e[b]
            BY <1>2, <2>1, <4>1, <4>2, <4>5
          <5> QED BY <4>3, <5>1
        <4> QED BY <4>2, <4>4, <4>5
      <3>3. ASSUME NEW k \in 1..(i + 1), Matches(keywords, Rows[k].words)
            PROVE  \E a \in 1..(n + 1) : d[a] = k
        <4>1. CASE k = i + 1
          <5>1. n + 1 \in 1..(n + 1)
            BY <1>2
          <5> QED BY <2>1, <4>1, <5>1
        <4>2. CASE k # i + 1
          <5>1. k \in 1..i
            BY <4>2
          <5>2. PICK a \in 1..n : e[a] = k
            BY <1>2, <3>3, <5>1
          <5>3. a \in 1..(n + 1)
            BY <1>2
          <5> QED BY <2>1, <5>2, <5>3
        <4> QED BY <4>1, <4>2
      <3>4. n + 1 \in Nat
        BY <1>2
      <3> QED BY <2>1, <3>1, <3>2, <3>3, <3>4 DEF Chosen
    <2>6. Append(f, movies[i + 1]) = [k \in 1..(n + 1) |-> movies[d[k]]]
      BY <2>3, <2>4 DEF d
    <2>7. ChosenMovies(Append(f, movies[i + 1]), i + 1, keywords)
      <3>1. Append(f, movies[i + 1]) = TheMovies(d, n + 1)
        BY <2>6 DEF TheMovies
      <3> QED BY <2>5, <3>1 DEF ChosenMovies
    <2> QED BY <1>5, <2>7
  <1> QED BY <1>4, <1>5

LEMMA FilteredIs ==
  ASSUME NEW req
  PROVE  ChosenMovies(Filtered(req), Len(Rows), req.keywords)
  <1> DEFINE N == Len(Rows)
             M == {movies[k] : k \in 1..N}
             Next(f, i) == IF Matches(req.keywords, movies[i].words) THEN Append(f, movies[i]) ELSE f
             step == [p \in Seq(M) \X (1..N) |-> Next(p[1], p[2])]
  <1>1. N \in Nat
    BY RowsAre
  <1>2. \A i \in 1..N : movies[i] \in M
    OBVIOUS
  <1> HIDE DEF N, M
  <1>3. Loop(N, Seq(M), <<>>, step)
    <2>1. \A p \in Seq(M) \X (1..N) : p[1] \in Seq(M) /\ p[2] \in 1..N
      OBVIOUS
    <2>2. \A f \in Seq(M) : \A i \in 1..N : Next(f, i) \in Seq(M)
      BY <1>2, AppendProperties
    <2>3. step \in [Seq(M) \X (1..N) -> Seq(M)]
      <3> HIDE DEF Next
      <3> QED BY <2>1, <2>2
    <2>4. <<>> \in Seq(M)
      OBVIOUS
    <2> QED BY <1>1, <2>3, <2>4 DEF Loop
  <1>4. PICK s : LoopResult(N, Seq(M), <<>>, step, s)
    <2> HIDE DEF step
    <2> QED BY <1>3, LoopFunction
  <1>5. /\ s \in [0..N -> Seq(M)] /\ s[0] = <<>>
        /\ \A i \in 1..N : s[i] = Next(s[i - 1], i)
    <2>1. /\ s \in [0..N -> Seq(M)] /\ s[0] = <<>>
          /\ \A i \in 1..N : s[i] = step[<<s[i - 1], i>>]
      BY <1>4 DEF LoopResult
    <2>2. \A i \in 1..N : s[i - 1] \in Seq(M)
      BY <1>1, <2>1
    <2> HIDE DEF Next
    <2> QED BY <2>1, <2>2
  <1> DEFINE Def(f) ==
        f = [i \in 0..Len(Rows) |->
               IF i = 0 THEN <<>>
               ELSE IF Matches(req.keywords, movies[i].words) THEN Append(f[i - 1], movies[i])
               ELSE f[i - 1]]
  <1>6. Def(s)
    <2>1. \A i \in 0..N : i # 0 => i \in 1..N
      BY <1>1
    <2> QED BY <1>5, <2>1 DEF N
  <1>7. PICK t : Def(t) /\ Filtered(req) = t[N]
    <2>1. Def(CHOOSE f : Def(f))
      BY <1>6
    <2>2. Filtered(req) = (CHOOSE f : Def(f))[N]
      BY Zenon DEF Filtered, N
    <2> QED BY <2>1, <2>2
  <1>8. t[0] = <<>> /\ \A i \in 1..N : t[i] = Next(t[i - 1], i)
    <2>1. t = [i \in 0..N |-> IF i = 0 THEN <<>> ELSE Next(t[i - 1], i)]
      BY <1>7, Zenon DEF N
    <2>2. 0 \in 0..N /\ \A i \in 1..N : i \in 0..N /\ i # 0
      BY <1>1
    <2> HIDE DEF Next
    <2> QED BY <2>1, <2>2
  <1> DEFINE S == {i \in 0..N : ChosenMovies(t[i], i, req.keywords)}
  <1>9. 0 \in S
    <2> DEFINE e == [k \in 1..0 |-> 0]
    <2>1. 1..0 = {} /\ 0 \in 0..N
      BY <1>1
    <2>2. Chosen(e, 0, 0, req.keywords)
      BY <2>1 DEF Chosen
    <2>3. <<>> = TheMovies(e, 0)
      BY <2>1 DEF TheMovies
    <2> HIDE DEF e
    <2>4. ChosenMovies(<<>>, 0, req.keywords)
      BY <2>2, <2>3 DEF ChosenMovies
    <2> QED BY <1>8, <2>1, <2>4
  <1>10. ASSUME NEW i \in 0..N, i < N, i \in S
         PROVE  i + 1 \in S
    <2>1. i + 1 \in 0..N /\ i + 1 \in 1..N /\ (i + 1) - 1 = i /\ i \in Nat /\ i + 1 <= N
      BY <1>1, <1>10
    <2>2. t[i + 1] = Next(t[i], i + 1)
      BY <1>8, <2>1
    <2>3. ChosenMovies(t[i], i, req.keywords)
      BY <1>10
    <2>4. ChosenMovies(Next(t[i], i + 1), i + 1, req.keywords)
      BY <2>1, <2>3, NextChosen DEF N
    <2> QED BY <2>1, <2>2, <2>4
  <1>11. \A i \in 0..N : i \in S
    <2> HIDE DEF S
    <2>1. Inductive(S, 0, N)
      BY <1>1, <1>9, <1>10 DEF Inductive
    <2> QED BY <2>1, InductionTo
  <1>12. ChosenMovies(t[N], N, req.keywords)
    BY <1>1, <1>11
  <1> QED BY <1>7, <1>12 DEF N

FoundIn(line) == Found(read_request(line))

\* The rows e are found for a line, more points for those that are nearer.
Finds(line, n, e) ==
  /\ Chosen(e, n, Len(Rows), line.keywords)
  /\ FoundIn(line) \in [1..n -> Movie]
  /\ \A k \in 1..n : FoundIn(line)[k].title = Rows[e[k]].title /\ FoundIn(line)[k].secrets = 0
  /\ \A j, k \in 1..n : FoundIn(line)[j].pts > FoundIn(line)[k].pts
                          <=> Nearer(line.genres, Rows[e[j]].genres, Rows[e[k]].genres)

LEMMA FoundIs ==
  ASSUME NEW line \in Lines
  PROVE  \E n, e : Finds(line, n, e)
  <1> DEFINE req == read_request(line)
             N == Len(Rows)
  <1>1. req.keywords = line.keywords /\ req.profile = Normalized(line.genres) /\ line.genres \in Profiles
    BY DEF read_request, Lines
  <1>2. PICK n, e : Chosen(e, n, N, line.keywords) /\ Filtered(req) = TheMovies(e, n)
    BY <1>1, FilteredIs DEF ChosenMovies
  <1>3. n \in Nat /\ e \in [1..n -> 1..N]
    BY <1>2 DEF Chosen
  <1> DEFINE filter == Filtered(req)
             pts == [k \in 1..n |-> Dot(req.profile, filter[k].profile)]
             rank(k) == Cardinality({j \in 1..n : More(pts[k], pts[j])})
             R == {p \in (1..n) \X (1..n) : More(pts[p[1]], pts[p[2]])}
  <1>4. Len(filter) = n /\ \A k \in 1..n : e[k] \in 1..N /\ filter[k] = movies[e[k]]
    <2>1. filter = [k \in 1..n |-> movies[e[k]]]
      BY <1>2 DEF TheMovies
    <2>2. filter \in [1..n -> {movies[k] : k \in 1..N}]
      BY <1>3, <2>1
    <2>3. Len(filter) = n
      BY <1>3, <2>2
    <2> QED BY <1>3, <2>1, <2>3
  <1>5. \A k \in 1..n : /\ filter[k].title = Rows[e[k]].title
                        /\ filter[k].profile = Normalized(Rows[e[k]].genres)
    <2>1. \A i \in 1..Len(Rows) : /\ movies[i].title = Rows[i].title
                                 /\ movies[i].profile = Normalized(Rows[i].genres)
      BY DEF movies
    <2> HIDE DEF filter
    <2> QED BY <1>4, <2>1
  <1>6. FoundIn(line) = [k \in 1..n |-> [title |-> filter[k].title, secrets |-> 0, pts |-> rank(k)]]
    <2>1. FoundIn(line) =
            [k \in 1..Len(filter) |->
               [title |-> filter[k].title, secrets |-> 0,
                pts |-> Cardinality({j \in 1..Len(filter) :
                                       More([i \in 1..Len(filter) |-> Dot(req.profile, filter[i].profile)][k],
                                            [i \in 1..Len(filter) |-> Dot(req.profile, filter[i].profile)][j])})]]
      BY Zenon DEF FoundIn, Found
    <2> HIDE DEF filter, req
    <2> QED BY <1>4, <2>1
  <1>7. \A j, k \in 1..n : /\ pts[j] \in Points
                           /\ More(pts[j], pts[k])
                                <=> Nearer(line.genres, Rows[e[j]].genres, Rows[e[k]].genres)
    <2>1. SUFFICES ASSUME NEW j \in 1..n, NEW k \in 1..n
                   PROVE  /\ pts[j] \in Points
                          /\ More(pts[j], pts[k])
                               <=> Nearer(line.genres, Rows[e[j]].genres, Rows[e[k]].genres)
      OBVIOUS
    <2>2. /\ pts[j] = Dot(Normalized(line.genres), Normalized(Rows[e[j]].genres))
          /\ pts[k] = Dot(Normalized(line.genres), Normalized(Rows[e[k]].genres))
      BY <1>1, <1>5
    <2>3. Rows[e[j]].genres \in Profiles /\ Rows[e[k]].genres \in Profiles
      BY <1>4, RowsAre
    <2> HIDE DEF pts
    <2> QED BY <1>1, <2>2, <2>3, PointsAreAngles
  <1> HIDE DEF pts
  <1>8. WeakOrder(1..n, R)
    <2>1. \A j, k \in 1..n : <<j, k>> \in R <=> More(pts[j], pts[k])
      OBVIOUS
    <2> HIDE DEF R
    <2>2. \A j, k \in 1..n : <<j, k>> \in R => <<k, j>> \notin R
      BY <1>7, <2>1, MoreIsStrict
    <2>3. \A j, k, l \in 1..n : <<j, l>> \in R => <<j, k>> \in R \/ <<k, l>> \in R
      BY <1>7, <2>1, MoreIsWeak
    <2> QED BY <2>2, <2>3 DEF WeakOrder
  <1>9. \A k \in 1..n : rank(k) = Cardinality({l \in 1..n : <<k, l>> \in R})
    <2>1. \A k \in 1..n : {j \in 1..n : More(pts[k], pts[j])} = {l \in 1..n : <<k, l>> \in R}
      OBVIOUS
    <2> QED BY <2>1
  <1>10. IsFiniteSet(1..n) /\ \A k \in 1..n : rank(k) \in Nat
    <2>1. IsFiniteSet(1..n)
      BY <1>3, FS_Interval
    <2>2. \A k \in 1..n : {j \in 1..n : More(pts[k], pts[j])} \in SUBSET (1..n)
      OBVIOUS
    <2> QED BY <2>1, <2>2, FewerElements
  <1>11. \A j, k \in 1..n : rank(j) > rank(k)
                              <=> Nearer(line.genres, Rows[e[j]].genres, Rows[e[k]].genres)
    <2>1. SUFFICES ASSUME NEW j \in 1..n, NEW k \in 1..n
                   PROVE  rank(j) > rank(k) <=> <<j, k>> \in R
      BY <1>7
    <2>2. Cardinality({l \in 1..n : <<j, l>> \in R}) > Cardinality({l \in 1..n : <<k, l>> \in R})
            <=> <<j, k>> \in R
      <3> HIDE DEF R
      <3> QED BY <1>8, <1>10, RankOrders
    <2> HIDE DEF R, rank
    <2> QED BY <1>9, <2>2
  <1> HIDE DEF rank, R, filter
  <1>12. \A k \in 1..n : /\ FoundIn(line)[k] \in Movie
                         /\ FoundIn(line)[k].title = Rows[e[k]].title
                         /\ FoundIn(line)[k].secrets = 0
                         /\ FoundIn(line)[k].pts = rank(k)
    BY <1>4, <1>5, <1>6, <1>10, RowsAre DEF Movie
  <1>13. FoundIn(line) \in [1..n -> Movie]
    BY <1>6, <1>12
  <1>14. Finds(line, n, e)
    BY <1>2, <1>11, <1>12, <1>13 DEF Finds
  <1> QED BY <1>14

-------------------------------------------------------------------------------
(* The order of the rows, and the answer. *)

\* The rows that are ahead but for their numbers.
AheadBut(line) ==
  LET near(a, b) == Nearer(line.genres, Rows[a].genres, Rows[b].genres) IN
  {p \in Wanted(line) \X Wanted(line) :
     near(p[1], p[2]) \/ (~near(p[2], p[1]) /\ Rows[p[1]].title < Rows[p[2]].title)}

LEMMA WantedInOrder ==
  ASSUME NEW line \in Lines, NEW n, NEW e, Finds(line, n, e)
  PROVE  /\ Wanted(line) \subseteq Nat /\ IsFiniteSet(Wanted(line))
         /\ n \in Nat /\ n = Cardinality(Wanted(line))
         /\ e \in [1..n -> Wanted(line)]
         /\ \A a, b \in 1..n : e[a] = e[b] => a = b
         /\ \A k \in Wanted(line) : \E a \in 1..n : e[a] = k
         /\ \A a, b \in 1..n : <<e[a], e[b]>> \in AheadBut(line)
                                 <=> Before(FoundIn(line)[a], FoundIn(line)[b])
         /\ WeakOrder(Wanted(line), AheadBut(line))
  <1> DEFINE K == Wanted(line)
             W == AheadBut(line)
             N == Len(Rows)
             found == FoundIn(line)
             near(a, b) == Nearer(line.genres, Rows[a].genres, Rows[b].genres)
  <1>1. /\ n \in Nat /\ e \in [1..n -> 1..N]
        /\ \A a \in 1..n : Matches(line.keywords, Rows[e[a]].words)
        /\ \A a, b \in 1..n : a < b => e[a] < e[b]
        /\ \A k \in 1..N : Matches(line.keywords, Rows[k].words) => \E a \in 1..n : e[a] = k
    BY DEF Finds, Chosen
  <1>2. /\ found \in [1..n -> Movie]
        /\ \A k \in 1..n : found[k].title = Rows[e[k]].title
        /\ \A j, k \in 1..n : found[j].pts > found[k].pts <=> near(e[j], e[k])
    BY DEF Finds
  <1> HIDE DEF found
  <1>3. N \in Nat /\ K = {k \in 1..N : Matches(line.keywords, Rows[k].words)}
    BY RowsAre DEF Wanted
  <1>4. K \in SUBSET (1..N) /\ K \subseteq Nat /\ IsFiniteSet(K)
    <2>1. K \in SUBSET (1..N) /\ K \subseteq Nat
      BY <1>3
    <2> HIDE DEF K, N
    <2>2. IsFiniteSet(1..N)
      BY <1>3, FS_Interval
    <2> QED BY <2>1, <2>2, FS_Subset
  <1>5. e \in [1..n -> K] /\ \A k \in K : \E a \in 1..n : e[a] = k
    BY <1>1, <1>3
  <1>6. \A a, b \in 1..n : e[a] = e[b] => a = b
    <2>1. SUFFICES ASSUME NEW a \in 1..n, NEW b \in 1..n, a # b
                   PROVE  e[a] # e[b]
      OBVIOUS
    <2>2. a < b \/ b < a
      BY <2>1
    <2>3. e[a] \in 1..N /\ e[b] \in 1..N
      BY <1>1
    <2>4. e[a] < e[b] \/ e[b] < e[a]
      BY <1>1, <2>2
    <2> HIDE DEF N
    <2> QED BY <1>3, <2>3, <2>4
  <1>7. n = Cardinality(K)
    <2>1. Cardinality(1..n) = n /\ IsFiniteSet(1..n)
      BY <1>1, FS_Interval
    <2>2. e \in Bijection(1..n, K)
      BY <1>5, <1>6 DEF Bijection, Injection, Surjection, IsInjective
    <2> HIDE DEF K
    <2>3. Cardinality(K) = Cardinality(1..n)
      BY <2>1, <2>2, FS_Bijection DEF ExistsBijection
    <2> QED BY <2>1, <2>3
  <1>8. ASSUME NEW a \in 1..n, NEW b \in 1..n
        PROVE  <<e[a], e[b]>> \in W <=> Before(found[a], found[b])
    <2>1. e[a] \in K /\ e[b] \in K
      BY <1>5
    <2>2. <<e[a], e[b]>> \in W <=>
            near(e[a], e[b]) \/ (~near(e[b], e[a]) /\ Rows[e[a]].title < Rows[e[b]].title)
      BY <2>1 DEF AheadBut
    <2>3. found[a].pts \in Nat /\ found[b].pts \in Nat
      BY <1>2 DEF Movie
    <2> HIDE DEF W, near
    <2>4. <<e[a], e[b]>> \in W <=>
            found[a].pts > found[b].pts
            \/ (~(found[b].pts > found[a].pts) /\ found[a].title < found[b].title)
      BY <1>2, <2>2
    <2> QED BY <2>3, <2>4 DEF Before
  <1>9. WeakOrder(K, W)
    <2> HIDE DEF K, W, near
    <2>1. ASSUME NEW j \in K, NEW k \in K, <<j, k>> \in W
          PROVE  <<k, j>> \notin W
      <3>1. PICK a \in 1..n, b \in 1..n : e[a] = j /\ e[b] = k
        BY <1>5
      <3>2. found[a] \in Movie /\ found[b] \in Movie /\ Before(found[a], found[b])
        BY <1>2, <1>8, <2>1, <3>1
      <3> QED BY <1>8, <3>1, <3>2, BeforeIsStrict
    <2>2. ASSUME NEW j \in K, NEW k \in K, NEW l \in K, <<j, l>> \in W,
                 <<j, k>> \notin W, <<k, l>> \notin W
          PROVE  FALSE
      <3>1. PICK a \in 1..n, b \in 1..n, c \in 1..n : e[a] = j /\ e[b] = k /\ e[c] = l
        BY <1>5
      <3>2. found[a] \in Movie /\ found[b] \in Movie /\ found[c] \in Movie
        BY <1>2
      <3>3. Before(found[a], found[c]) /\ ~Before(found[a], found[b]) /\ ~Before(found[b], found[c])
        BY <1>8, <2>2, <3>1
      <3> QED BY <3>2, <3>3, NotBeforeIsTransitive
    <2> QED BY <2>1, <2>2 DEF WeakOrder
  <1> QED BY <1>1, <1>4, <1>5, <1>6, <1>7, <1>8, <1>9 DEF found

\* The place of a row in the answer is its place in this order.
LEMMA PlacesAre ==
  ASSUME NEW line, NEW k \in Wanted(line),
         \A j \in Wanted(line) : j \in Nat /\ Rows[j].title \in Nat
  PROVE  Cardinality({j \in Wanted(line) : Ahead(line, j, k)}) + 1
           = PlaceOf(Wanted(line), AheadBut(line), k)
  <1> DEFINE near(a, b) == Nearer(line.genres, Rows[a].genres, Rows[b].genres)
             K == Wanted(line)
  <1>1. ASSUME NEW j \in K
        PROVE  Ahead(line, j, k) <=> <<j, k>> \in AheadBut(line) \/ (<<k, j>> \notin AheadBut(line) /\ j < k)
    <2>1. /\ <<j, k>> \in AheadBut(line) <=> near(j, k) \/ (~near(k, j) /\ Rows[j].title < Rows[k].title)
          /\ <<k, j>> \in AheadBut(line) <=> near(k, j) \/ (~near(j, k) /\ Rows[k].title < Rows[j].title)
      BY <1>1 DEF AheadBut
    <2>2. Ahead(line, j, k) <=>
            near(j, k) \/ (~near(k, j) /\ (\/ Rows[j].title < Rows[k].title
                                           \/ Rows[j].title = Rows[k].title /\ j < k))
      BY DEF Ahead
    <2>3. /\ Rows[j].title \in Nat /\ Rows[k].title \in Nat
      BY <1>1
    <2>4. Rows[j].title < Rows[k].title \/ Rows[j].title = Rows[k].title \/ Rows[k].title < Rows[j].title
      BY <2>3
    <2>5. ~(Rows[j].title < Rows[k].title /\ Rows[k].title < Rows[j].title)
          /\ (Rows[j].title = Rows[k].title => ~(Rows[k].title < Rows[j].title))
      BY <2>3
    <2> QED BY <2>1, <2>2, <2>4, <2>5
  <1>2. {j \in K : Ahead(line, j, k)} = InFront(K, AheadBut(line), k)
    BY <1>1 DEF InFront
  <1> QED BY <1>2 DEF PlaceOf

\* The answer lists the rows w that are wanted, each in its place.
AnsweredBy(w, line, n) ==
  /\ w \in [1..n -> Wanted(line)]
  /\ \A i, j \in 1..n : w[i] = w[j] => i = j
  /\ \A i \in 1..n : PlaceOf(Wanted(line), AheadBut(line), w[i]) = i
  /\ Answer(line) = [i \in 1..n |-> [title |-> Rows[w[i]].title, marks |-> 1]]

LEMMA AnswerIs ==
  ASSUME NEW line \in Lines, NEW n, NEW e, Finds(line, n, e)
  PROVE  \E w : AnsweredBy(w, line, n)
  <1> DEFINE K == Wanted(line)
             W == AheadBut(line)
             place(k) == Cardinality({j \in K : Ahead(line, j, k)}) + 1
             w == [i \in 1..n |-> CHOOSE k \in K : place(k) = i]
  <1>1. /\ K \in SUBSET Nat /\ IsFiniteSet(K) /\ WeakOrder(K, W)
        /\ n \in Nat /\ n = Cardinality(K)
    BY WantedInOrder
  <1>2. \A k \in K : place(k) = PlaceOf(K, W, k)
    <2>1. \A j \in K : j \in Nat /\ Rows[j].title \in Nat
      BY <1>1, RowsAre DEF Wanted
    <2> QED BY <2>1, PlacesAre
  <1>3. Answer(line) = [i \in 1..n |-> [title |-> Rows[w[i]].title, marks |-> 1]]
    <2>1. Answer(line) = [i \in 1..n |-> [title |-> Rows[CHOOSE k \in K : place(k) = i].title, marks |-> 1]]
      BY <1>1 DEF Answer
    <2> QED BY <2>1
  <1> HIDE DEF W
  <1>4. \A i \in 1..n : \E k \in K : PlaceOf(K, W, k) = i
    BY <1>1, PlacesAreTaken
  <1>5. \A i \in 1..n : w[i] \in K /\ place(w[i]) = i
    <2> HIDE DEF place
    <2>1. ASSUME NEW i \in 1..n
          PROVE  w[i] \in K /\ place(w[i]) = i
      <3>1. \E k \in K : place(k) = i
        BY <1>2, <1>4
      <3> QED BY <3>1
    <2> QED BY <2>1
  <1> HIDE DEF K, w, place
  <1>6. w \in [1..n -> K] /\ \A i \in 1..n : PlaceOf(K, W, w[i]) = i
    <2>1. w = [i \in 1..n |-> w[i]]
      BY DEF w
    <2> QED BY <1>2, <1>5, <2>1
  <1>7. \A i, j \in 1..n : w[i] = w[j] => i = j
    BY <1>6
  <1>8. AnsweredBy(w, line, n)
    BY <1>3, <1>6, <1>7 DEF K, W, AnsweredBy
  <1> QED BY <1>8

\* A list with the movies that Recommend has found for a line, in the order of the
\* library and marked once each, shows the answer (server.c:124-158).
THEOREM AnswerShown ==
  ASSUME NEW line \in Lines, NEW n, NEW e, Finds(line, n, e), NEW a, Kept(a, FoundIn(line), n),
         Sorted(a), \A i \in 1..n : a[i].secrets = 1
  PROVE  Shown(a) = Answer(line)
  <1> DEFINE K == Wanted(line)
             W == AheadBut(line)
             found == FoundIn(line)
  <1>1. /\ K \in SUBSET Nat /\ IsFiniteSet(K) /\ WeakOrder(K, W)
        /\ n \in Nat /\ n = Cardinality(K)
        /\ e \in [1..n -> K]
        /\ \A i, j \in 1..n : e[i] = e[j] => i = j
        /\ \A i, j \in 1..n : <<e[i], e[j]>> \in W <=> Before(found[i], found[j])
    <2>1. /\ Wanted(line) \subseteq Nat /\ IsFiniteSet(Wanted(line))
          /\ n \in Nat /\ n = Cardinality(Wanted(line))
          /\ e \in [1..n -> Wanted(line)]
          /\ WeakOrder(Wanted(line), AheadBut(line))
      BY WantedInOrder, Zenon
    <2>2. \A i, j \in 1..n : e[i] = e[j] => i = j
      BY WantedInOrder, Zenon
    <2>3. \A i, j \in 1..n : <<e[i], e[j]>> \in AheadBut(line)
                               <=> Before(FoundIn(line)[i], FoundIn(line)[j])
      BY WantedInOrder, Zenon
    <2> QED BY <2>1, <2>2, <2>3
  <1>2. PICK w : /\ w \in [1..n -> K]
                 /\ \A i \in 1..n : PlaceOf(K, W, w[i]) = i
                 /\ Answer(line) = [i \in 1..n |-> [title |-> Rows[w[i]].title, marks |-> 1]]
    BY AnswerIs DEF AnsweredBy
  <1>3. PICK p \in Shuffle(n) : \A i \in 1..n : Same(a[i], found[p[i]])
    BY DEF Kept
  <1>4. p \in [1..n -> 1..n] /\ \A i, j \in 1..n : p[i] = p[j] => i = j
    BY <1>3 DEF Shuffle
  <1>5. a \in [1..n -> Movie] /\ Len(a) = n
    BY <1>1 DEF Kept
  <1>6. /\ found \in [1..n -> Movie]
        /\ \A i \in 1..n : found[i].title = Rows[e[i]].title
    BY DEF Finds
  <1> DEFINE q == [i \in 1..n |-> e[p[i]]]
  <1> HIDE DEF K, W, found
  <1>7. q \in [1..n -> K] /\ \A i, j \in 1..n : q[i] = q[j] => i = j
    BY <1>1, <1>4
  <1>8. \A i, j \in 1..n : <<q[i], q[j]>> \in W <=> Before(a[i], a[j])
    <2>1. SUFFICES ASSUME NEW i \in 1..n, NEW j \in 1..n
                   PROVE  <<q[i], q[j]>> \in W <=> Before(a[i], a[j])
      OBVIOUS
    <2>2. q[i] = e[p[i]] /\ q[j] = e[p[j]] /\ p[i] \in 1..n /\ p[j] \in 1..n
      BY <1>4
    <2>3. Same(a[i], found[p[i]]) /\ Same(a[j], found[p[j]])
      BY <1>3
    <2>4. Before(a[i], a[j]) <=> Before(found[p[i]], found[p[j]])
      BY <2>3 DEF Same, Before
    <2> QED BY <1>1, <2>2, <2>4
  <1>9. \A i \in 1..n : a[i].title = Rows[q[i]].title
    BY <1>3, <1>4, <1>6 DEF Same
  <1> HIDE DEF q
  <1>10. \A i, j \in 1..n : i < j => <<q[j], q[i]>> \notin W
    BY <1>5, <1>8 DEF Sorted
  <1>11. \A i \in 1..n : <<q[i], w[i]>> \notin W /\ <<w[i], q[i]>> \notin W
    <2>1. SUFFICES ASSUME NEW i \in 1..n
                   PROVE  <<q[i], w[i]>> \notin W /\ <<w[i], q[i]>> \notin W
      OBVIOUS
    <2>2. PICK k : k = w[i]
      OBVIOUS
    <2>3. k \in K /\ PlaceOf(K, W, k) = i
      BY <1>2, <2>2
    <2>4. <<q[i], k>> \notin W /\ <<k, q[i]>> \notin W
      <3>1. Ordered(K, W, q, n)
        BY <1>1, <1>7, <1>10 DEF Ordered
      <3> QED BY <1>1, <2>3, <3>1, RowsInOrder
    <2> QED BY <2>2, <2>4
  <1>12. \A i \in 1..n : Rows[w[i]].title = a[i].title
    <2>1. SUFFICES ASSUME NEW i \in 1..n
                   PROVE  Rows[w[i]].title = Rows[q[i]].title
      BY <1>9
    <2>2. PICK b : b = q[i]
      OBVIOUS
    <2>3. PICK c : c = w[i]
      OBVIOUS
    <2>4. b \in K /\ c \in K /\ <<b, c>> \notin W /\ <<c, b>> \notin W
      BY <1>2, <1>7, <1>11, <2>2, <2>3
    <2>5. Rows[b].title \in Nat /\ Rows[c].title \in Nat
      BY <2>4, RowsAre DEF K, Wanted
    <2>6. Rows[b].title = Rows[c].title
      BY <2>4, <2>5 DEF K, W, AheadBut
    <2> QED BY <2>2, <2>3, <2>6
  <1>13. Shown(a) = [i \in 1..n |-> [title |-> a[i].title, marks |-> 1]]
    BY <1>5 DEF Shown
  <1> QED BY <1>2, <1>12, <1>13

-------------------------------------------------------------------------------
(* The list of a request from when it is found to when it is printed. *)

\* A long list while the nodes of the tree T sort it.
AtWork(a, T, line) ==
  LET len == Len(FoundIn(line)) IN
  /\ len \in Nat /\ len >= mergeThread
  /\ Kept(a, FoundIn(line), len)
  /\ InOrderSoFar(a, T, len)

\* What is to be printed.
Complete(a, line) == (\E len \in Nat : a \in [1..len -> Movie]) /\ Shown(a) = Answer(line)

LEMMA FoundHas ==
  ASSUME NEW line \in Lines, NEW len, len = Len(FoundIn(line))
  PROVE  /\ len \in Nat /\ FoundIn(line) \in [1..len -> Movie]
         /\ \E e : Finds(line, len, e)
         /\ Kept(FoundIn(line), FoundIn(line), len)
         /\ \A i \in 1..len : FoundIn(line)[i].secrets = 0
  <1>1. PICK n, e : Finds(line, n, e)
    BY FoundIs
  <1>2. n \in Nat
    BY <1>1 DEF Finds, Chosen
  <1>3. FoundIn(line) \in [1..n -> Movie] /\ \A i \in 1..n : FoundIn(line)[i].secrets = 0
    BY <1>1 DEF Finds
  <1>4. len = n
    <2>1. PICK found : found = FoundIn(line)
      OBVIOUS
    <2> QED BY <1>2, <1>3, <2>1
  <1>5. Kept(FoundIn(line), FoundIn(line), n)
    <2>1. [i \in 1..n |-> i] \in Shuffle(n)
      BY DEF Shuffle
    <2>2. \A i \in 1..n : Same(FoundIn(line)[i], FoundIn(line)[[j \in 1..n |-> j][i]])
      BY DEF Same
    <2> QED BY <1>3, <2>1, <2>2 DEF Kept
  <1> QED BY <1>1, <1>2, <1>3, <1>4, <1>5

LEMMA KeptIsComplete ==
  ASSUME NEW line \in Lines, NEW len, len = Len(FoundIn(line)), NEW a, Kept(a, FoundIn(line), len),
         Sorted(a), \A i \in 1..len : a[i].secrets = 1
  PROVE  Complete(a, line)
  <1>1. len \in Nat /\ a \in [1..len -> Movie] /\ \E e : Finds(line, len, e)
    BY FoundHas DEF Kept
  <1>2. Shown(a) = Answer(line)
    BY <1>1, AnswerShown
  <1> QED BY <1>1, <1>2 DEF Complete

\* A short list that the library has sorted.
LEMMA ShortKeeps ==
  ASSUME NEW line \in Lines
  PROVE  /\ Kept(sort(FoundIn(line)), FoundIn(line), Len(FoundIn(line)))
         /\ Complete(sort(FoundIn(line)), line)
  <1> DEFINE found == FoundIn(line)
             len   == Len(found)
             s     == sort(found)
  <1>1. /\ len \in Nat /\ found \in [1..len -> Movie]
        /\ \A i \in 1..len : found[i].secrets = 0
    BY FoundHas
  <1>2. s \in [1..len -> Movie] /\ Sorted(s) /\ Reordered(AllMarked(found), s)
    BY <1>1, SortSorts
  <1>3. PICK p : ReorderedBy(AllMarked(found), s, p)
    BY <1>2 DEF Reordered
  <1> HIDE DEF found, s
  <1>4. AllMarked(found) = [k \in 1..len |-> Marked(found[k])] /\ Len(AllMarked(found)) = len
    BY <1>1 DEF AllMarked
  <1>5. p \in Shuffle(len) /\ s = [i \in 1..len |-> AllMarked(found)[p[i]]]
    BY <1>3, <1>4 DEF ReorderedBy
  <1>6. \A i \in 1..len : p[i] \in 1..len /\ s[i] = Marked(found[p[i]])
    BY <1>4, <1>5 DEF Shuffle
  <1>7. \A i \in 1..len : Same(s[i], found[p[i]]) /\ s[i].secrets = 1
    <2>1. SUFFICES ASSUME NEW i \in 1..len
                   PROVE  Same(s[i], found[p[i]]) /\ s[i].secrets = 1
      OBVIOUS
    <2>2. PICK m \in Movie : m = found[p[i]] /\ m.secrets = 0 /\ s[i] = Marked(m)
      BY <1>1, <1>6
    <2> QED BY <2>2 DEF Marked, Same, Movie
  <1>8. Kept(s, found, len)
    BY <1>2, <1>5, <1>7 DEF Kept
  <1>9. Complete(s, line)
    BY <1>2, <1>7, <1>8, KeptIsComplete DEF found, s
  <1> QED BY <1>8, <1>9 DEF found, s

\* A long one goes to the tree.
LEMMA LongStarts ==
  ASSUME NEW line \in Lines, Len(FoundIn(line)) >= mergeThread
  PROVE  AtWork(FoundIn(line), [n \in Nodes |-> IF n = <<>> THEN "begin" ELSE "none"], line)
  <1> DEFINE found == FoundIn(line)
             len   == Len(found)
             whole == [from |-> 1, to |-> len]
  <1>1. /\ len \in Nat /\ found \in [1..len -> Movie] /\ Kept(found, found, len)
        /\ \A i \in 1..len : found[i].secrets = 0
    BY FoundHas
  <1>2. MarksIn(found, whole, 0)
    BY <1>1 DEF MarksIn, Places
  <1> QED BY <1>1, <1>2, TreeStarts DEF AtWork

LEMMA DivideWorks ==
  ASSUME NEW a, NEW T, NEW line, AtWork(a, T, line), NEW n \in Nodes, T[n] = "begin", ~IsLeaf(n)
  PROVE  AtWork(a, [k \in Nodes |-> IF k = n THEN "merge"
                                    ELSE IF k \in Halves(n) THEN "begin" ELSE T[k]], line)
  BY DivideSorts DEF AtWork

\* The array has as many movies as were found.
LEMMA WorkHas ==
  ASSUME NEW a, NEW T, NEW line, AtWork(a, T, line), NEW len, len = Len(FoundIn(line))
  PROVE  /\ len \in Nat /\ len >= mergeThread /\ a \in [1..len -> Movie] /\ Len(a) = len
         /\ T \in [Nodes -> {"none", "begin", "second", "merge", "done"}]
  <1>1. len \in Nat /\ len >= mergeThread /\ a \in [1..len -> Movie]
    BY DEF AtWork, Kept
  <1>2. Len(a) = len
    BY <1>1
  <1>3. T \in [Nodes -> {"none", "begin", "second", "merge", "done"}]
    BY DEF AtWork, InOrderSoFar, Grown
  <1> QED BY <1>1, <1>2, <1>3

\* A leaf has a movie in either half, and sorts it.
LEMMA SortHalfWorks ==
  ASSUME NEW a, NEW T, NEW line, AtWork(a, T, line), NEW n \in Nodes, IsLeaf(n),
         NEW half \in {"begin", "second"}, T[n] = half,
         NEW sl, sl = IF half = "begin" THEN FirstHalf(Slice(n, Len(a))) ELSE SecondHalf(Slice(n, Len(a)))
  PROVE  /\ ~IsEmpty(sl)
         /\ AtWork(SortedAt(a, sl), [T EXCEPT ![n] = IF half = "begin" THEN "second" ELSE "merge"], line)
  <1> DEFINE len == Len(FoundIn(line))
  <1>1. len \in Nat /\ len >= mergeThread /\ a \in [1..len -> Movie] /\ Len(a) = len
    BY WorkHas
  <1>2. Kept(a, FoundIn(line), len) /\ InOrderSoFar(a, T, len)
    BY DEF AtWork
  <1> HIDE DEF len
  <1>3. sl = IF half = "begin" THEN FirstHalf(Slice(n, len)) ELSE SecondHalf(Slice(n, len))
    BY <1>1
  <1>4. /\ InOrderSoFar(SortedAt(a, sl), [T EXCEPT ![n] = IF half = "begin" THEN "second" ELSE "merge"], len)
        /\ Reworked(a, SortedAt(a, sl), sl, len)
    BY <1>1, <1>2, <1>3, SortHalfSorts
  <1>5. Kept(SortedAt(a, sl), FoundIn(line), len)
    BY <1>1, <1>2, <1>4, ReworkedKeeps
  <1>6. ~IsEmpty(sl)
    BY <1>1, <1>3, BottomsHoldSome
  <1> QED BY <1>1, <1>4, <1>5, <1>6 DEF AtWork, len

LEMMA MergeWorks ==
  ASSUME NEW a, NEW T, NEW line, AtWork(a, T, line), NEW n \in Nodes, T[n] = "merge",
         \A k \in Halves(n) : T[k] \in {"none", "done"}
  PROVE  AtWork(MergedAt(a, Slice(n, Len(a))), [T EXCEPT ![n] = "done"], line)
  <1> DEFINE len == Len(FoundIn(line))
  <1>1. len \in Nat /\ len >= mergeThread /\ a \in [1..len -> Movie] /\ Len(a) = len
    BY WorkHas
  <1>2. Kept(a, FoundIn(line), len) /\ InOrderSoFar(a, T, len)
    BY DEF AtWork
  <1> HIDE DEF len
  <1>3. /\ InOrderSoFar(MergedAt(a, Slice(n, len)), [T EXCEPT ![n] = "done"], len)
        /\ Reworked(a, MergedAt(a, Slice(n, len)), Slice(n, len), len)
    BY <1>1, <1>2, MergeSorts
  <1>4. Kept(MergedAt(a, Slice(n, len)), FoundIn(line), len)
    BY <1>1, <1>2, <1>3, ReworkedKeeps
  <1> QED BY <1>1, <1>3, <1>4 DEF AtWork, len

\* When the top is done so are all nodes, and the list is.
LEMMA WorkCompletes ==
  ASSUME NEW line \in Lines, NEW a, NEW T, AtWork(a, T, line), T[<<>>] = "done"
  PROVE  Complete(a, line) /\ \A n \in Nodes : T[n] = "done"
  <1> DEFINE len == Len(FoundIn(line))
  <1>1. len \in Nat /\ a \in [1..len -> Movie]
    BY WorkHas
  <1>2. Kept(a, FoundIn(line), len) /\ InOrderSoFar(a, T, len)
    BY DEF AtWork
  <1>3. Sorted(a) /\ (\A i \in 1..len : a[i].secrets = 1) /\ \A n \in Nodes : T[n] = "done"
    <2> HIDE DEF len
    <2> QED BY <1>1, <1>2, TreeEnds
  <1>4. Complete(a, line)
    BY <1>2, <1>3, KeptIsComplete
  <1> QED BY <1>3, <1>4

===============================================================================
