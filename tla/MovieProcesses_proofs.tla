------------------------- MODULE MovieProcesses_proofs -------------------------
(***************************************************************************)
(* Proofs about MovieProcesses: what is printed, with all processes and with *)
(* some of them missing, for any request, any movies and any tree.           *)
(***************************************************************************)
EXTENDS MovieProcesses, MovieInput_proofs

Length == Len(FoundIn(line))
States == {"none", "begin", "second", "merge", "done"}

\* No process is at work below one that there is not, or that has ended.
Calm(T) ==
  /\ T \in [Nodes -> States]
  /\ \A n \in Nodes :
       /\ T[n] \in {"none", "begin"} => \A k \in Halves(n) : T[k] = "none"
       /\ T[n] \in {"none", "done"} => \A m \in Nodes : Below(m, n) => T[m] \in {"none", "done"}

\* No fork has failed.
AllForked(T) == \A n \in Nodes : T[n] \in {"merge", "done"} => \A k \in Halves(n) : T[k] # "none"

\* main alone sorts a short list.
ShortList ==
  Length < mergeThread =>
    /\ \A n \in Nodes : n # <<>> => task[n] = "none"
    /\ task[<<>>] \in {"begin", "done"}
    /\ task[<<>>] = "begin" => list = FoundIn(line)
    /\ task[<<>>] = "done" => Complete(list, line)

LongList == Length >= mergeThread /\ AllForked(task) => InOrderSoFar(list, task, Length)

Printed == out # <<>> => out = list /\ task[<<>>] = "done"

IInv == /\ line \in FirstLines /\ Kept(list, FoundIn(line), Length)
        /\ Calm(task) /\ ShortList /\ LongList /\ Printed

-------------------------------------------------------------------------------

LEMMA LineIsALine ==
  ASSUME IInv
  PROVE  /\ line \in Lines /\ Length \in Nat
         /\ list \in [1..Length -> Movie] /\ Len(list) = Length
  <1>1. line \in Lines
    BY ProcessesAssumption DEF IInv
  <1>2. Length \in Nat
    BY <1>1, FoundHas DEF Length
  <1>3. list \in [1..Length -> Movie]
    BY DEF IInv, Kept
  <1>4. Len(list) = Length
    BY <1>2, <1>3
  <1> QED BY <1>1, <1>2, <1>3, <1>4

LEMMA RootIsANode == <<>> \in Nodes
  <1>1. 0 \in 0..(depth - 1) /\ <<>> \in [1..0 -> {1, 2}]
    BY TreeAssumption
  <1> QED BY <1>1 DEF Nodes

\* Who is above a half is above the node, or is the half.
LEMMA AboveAHalf ==
  ASSUME NEW n \in Nodes, NEW k \in Halves(n), NEW x \in Nodes, Below(k, x), x # k
  PROVE  Below(n, x)
  <1>1. k \in Nodes /\ n \in Seq({1, 2}) /\ x \in Seq({1, 2}) /\ (k = Append(n, 1) \/ k = Append(n, 2))
    BY NodesAreSequences DEF Halves
  <1>2. /\ Len(k) = Len(n) + 1 /\ Len(n) \in Nat /\ Len(x) \in Nat
        /\ \A i \in 1..Len(n) : k[i] = n[i]
    BY <1>1, SMTT(20)
  <1>3. Len(x) # Len(k)
    BY <1>1, BelowALeaf
  <1>4. Len(x) <= Len(n)
    BY <1>2, <1>3 DEF Below
  <1>5. Agree(x, n, Len(x))
    BY <1>2, <1>4 DEF Below, Agree
  <1> QED BY <1>4, <1>5 DEF Below

LEMMA InitEstablishes ==
  ASSUME Init
  PROVE  IInv
  <1> DEFINE start == [n \in Nodes |-> IF n = <<>> THEN "begin" ELSE "none"]
  <1>1. /\ line \in FirstLines /\ line \in Lines /\ list = FoundIn(line)
        /\ task = start /\ out = <<>>
    BY ProcessesAssumption DEF Init, FoundIn
  <1>2. Kept(list, FoundIn(line), Length)
    BY <1>1, FoundHas DEF Length
  <1>3. Calm(task)
    <2>1. task \in [Nodes -> States]
      BY <1>1 DEF States
    <2>2. \A n \in Nodes : task[n] = IF n = <<>> THEN "begin" ELSE "none"
      BY <1>1
    <2>3. ASSUME NEW n \in Nodes, NEW k \in Halves(n)
          PROVE  task[k] = "none"
      <3>1. k \in Nodes /\ n \in Seq({1, 2}) /\ (k = Append(n, 1) \/ k = Append(n, 2))
        BY NodesAreSequences DEF Halves
      <3>2. k # <<>>
        BY <3>1
      <3> QED BY <2>2, <3>1, <3>2
    <2>4. ASSUME NEW n \in Nodes, task[n] \in {"none", "done"}, NEW m \in Nodes, Below(m, n)
          PROVE  task[m] \in {"none", "done"}
      <3>1. n # <<>>
        BY <2>2, <2>4
      <3>2. n \in Seq({1, 2}) /\ Len(n) <= Len(m)
        BY <2>4, NodesAreSequences DEF Below
      <3>3. m # <<>>
        BY <3>1, <3>2
      <3> QED BY <2>2, <3>3
    <2> QED BY <2>1, <2>3, <2>4 DEF Calm
  <1>4. ShortList
    BY <1>1, RootIsANode DEF ShortList
  <1>5. LongList
    <2>1. Length >= mergeThread => AtWork(list, start, line)
      BY <1>1, LongStarts DEF Length
    <2> QED BY <1>1, <2>1 DEF LongList, AtWork, Length
  <1> QED BY <1>1, <1>2, <1>3, <1>4, <1>5 DEF IInv, Printed

LEMMA SortShortKeeps ==
  ASSUME IInv, SortShort
  PROVE  IInv'
  <1>1. /\ task[<<>>] = "begin" /\ Length < mergeThread /\ list' = sort(list)
        /\ task' = [task EXCEPT ![<<>>] = "done"] /\ UNCHANGED <<line, out>>
    BY LineIsALine DEF SortShort
  <1>2. /\ list = FoundIn(line) /\ \A n \in Nodes : n # <<>> => task[n] = "none"
        /\ task \in [Nodes -> States]
    BY <1>1 DEF IInv, ShortList, Calm
  <1>3. Complete(list', line)
    BY <1>1, <1>2, LineIsALine, ShortKeeps
  <1>4. Kept(list', FoundIn(line), Length)
    BY <1>1, <1>2, LineIsALine, ShortKeeps DEF Length
  <1>5. \A n \in Nodes : task'[n] = IF n = <<>> THEN "done" ELSE "none"
    BY <1>1, <1>2
  <1>6. Calm(task')
    <2>1. task' \in [Nodes -> States]
      BY <1>1, <1>2 DEF States
    <2>2. ASSUME NEW n \in Nodes, NEW k \in Halves(n)
          PROVE  task'[k] = "none"
      <3>1. k \in Nodes /\ n \in Seq({1, 2}) /\ (k = Append(n, 1) \/ k = Append(n, 2))
        BY NodesAreSequences DEF Halves
      <3>2. k # <<>>
        BY <3>1
      <3> QED BY <1>5, <3>1, <3>2
    <2> QED BY <1>5, <2>1, <2>2 DEF Calm
  <1>7. ShortList'
    BY <1>1, <1>3, <1>5, RootIsANode DEF ShortList, Length
  <1>8. LongList'
    BY <1>1, LineIsALine, TreeAssumption DEF LongList, Length
  <1>9. Printed'
    BY <1>1 DEF IInv, Printed
  <1> QED BY <1>1, <1>4, <1>6, <1>7, <1>8, <1>9 DEF IInv, Length

\* Only for a long list is there more than one process.
LEMMA WorkIsLong ==
  ASSUME IInv, NEW n \in Nodes, task[n] \in {"second", "merge"} \/ Len(list) >= mergeThread
  PROVE  Length >= mergeThread
  <1>1. Length \in Nat /\ Len(list) = Length /\ mergeThread \in Nat
    BY LineIsALine, TreeAssumption
  <1>2. ASSUME Length < mergeThread, task[n] \in {"second", "merge"}
        PROVE  FALSE
    BY <1>2 DEF IInv, ShortList
  <1> QED BY <1>1, <1>2

LEMMA ForkKeeps ==
  ASSUME IInv, NEW n \in Nodes, Fork(n)
  PROVE  IInv'
  <1>1. PICK forked \in SUBSET Halves(n) :
               task' = [k \in Nodes |-> IF k = n THEN "merge"
                                        ELSE IF k \in forked THEN "begin" ELSE task[k]]
    BY DEF Fork
  <1>2. /\ task[n] = "begin" /\ Len(list) >= mergeThread /\ ~IsLeaf(n) /\ UNCHANGED <<line, list, out>>
    BY DEF Fork
  <1>3. Length >= mergeThread /\ Length' = Length
    BY <1>2, WorkIsLong DEF Length
  <1>4. /\ Calm(task) /\ Halves(n) \subseteq Nodes
        /\ \A k \in Halves(n) : task[k] = "none" /\ k # n
    BY <1>2, HalvesAreBelow DEF IInv, Calm, Halves
  <1>5. \A k \in Nodes : task'[k] = IF k = n THEN "merge" ELSE IF k \in forked THEN "begin" ELSE task[k]
    BY <1>1
  <1>6. Calm(task')
    <2>1. task' \in [Nodes -> States]
      BY <1>1, <1>4 DEF Calm, States
    <2>2. ASSUME NEW m \in Nodes, task'[m] \in {"none", "begin"}, NEW k \in Halves(m)
          PROVE  task'[k] = "none"
      <3>1. k \in Nodes /\ m # n
        BY <1>5, <2>2 DEF Halves
      <3>2. k \notin forked
        BY <3>1, <2>2, ParentIsOne
      <3>3. task[m] \in {"none", "begin"}
        BY <1>4, <1>5, <2>2, <3>1
      <3>4. task[k] = "none" /\ k # n
        BY <1>2, <1>4, <2>2, <3>3 DEF Calm
      <3> QED BY <1>5, <3>1, <3>2, <3>4
    <2>3. ASSUME NEW m \in Nodes, task'[m] \in {"none", "done"}, NEW k \in Nodes, Below(k, m)
          PROVE  task'[k] \in {"none", "done"}
      <3>1. m # n /\ m \notin forked /\ task[m] \in {"none", "done"}
        BY <1>5, <2>3
      <3>2. \A j \in Nodes : Below(j, m) => task[j] \in {"none", "done"}
        BY <1>4, <3>1 DEF Calm
      <3>3. ~Below(n, m)
        BY <1>2, <3>2
      <3>4. k # n /\ k \notin forked
        BY <1>1, <2>3, <3>1, <3>3, AboveAHalf
      <3> QED BY <1>5, <2>3, <3>2, <3>4
    <2> QED BY <2>1, <2>2, <2>3 DEF Calm
  <1>7. LongList'
    <2>1. SUFFICES ASSUME AllForked(task')
                   PROVE  InOrderSoFar(list, task', Length)
      BY <1>2, <1>3 DEF LongList
    <2>2. forked = Halves(n)
      <3>1. \A k \in Halves(n) : task'[k] # "none"
        BY <1>5, <2>1 DEF AllForked
      <3> QED BY <1>1, <1>4, <1>5, <3>1
    <2>3. AllForked(task)
      <3>1. SUFFICES ASSUME NEW m \in Nodes, task[m] \in {"merge", "done"}, NEW k \in Halves(m)
                     PROVE  task[k] # "none"
        BY DEF AllForked
      <3>2. m # n /\ k \in Nodes
        BY <1>2, <3>1 DEF Halves
      <3>3. k \notin Halves(n)
        BY <3>1, <3>2, ParentIsOne
      <3>4. m \notin Halves(n)
        BY <1>4, <3>1
      <3>5. task'[m] = task[m] /\ (task'[k] = task[k] \/ k = n)
        BY <1>5, <2>2, <3>2, <3>3, <3>4
      <3>6. task'[k] # "none"
        BY <2>1, <3>1, <3>5 DEF AllForked
      <3> QED BY <1>2, <3>5, <3>6
    <2>4. InOrderSoFar(list, task, Length)
      BY <1>3, <2>3 DEF IInv, LongList
    <2>5. task' = [k \in Nodes |-> IF k = n THEN "merge" ELSE IF k \in Halves(n) THEN "begin" ELSE task[k]]
      BY <1>1, <2>2
    <2>6. Length \in Nat
      BY LineIsALine
    <2> HIDE DEF Length
    <2> QED BY <1>2, <2>4, <2>5, <2>6, DivideSorts
  <1>8. ShortList'
    BY <1>3, LineIsALine, TreeAssumption DEF ShortList
  <1>9. Printed'
    <2>1. task[<<>>] # "done"
      <3>1. Below(n, <<>>)
        BY DEF Below, Agree
      <3> QED BY <1>2, <1>4, <3>1, RootIsANode DEF Calm
    <2> QED BY <1>2, <2>1 DEF IInv, Printed
  <1> QED BY <1>2, <1>3, <1>6, <1>7, <1>8, <1>9 DEF IInv

\* A step of one process that is there: it works on a slice and goes on.
LEMMA WorkKeeps ==
  ASSUME IInv, NEW n \in Nodes, task[n] \in {"begin", "second", "merge"}, Length >= mergeThread,
         NEW to, task' = [task EXCEPT ![n] = to],
         \/ IsLeaf(n) /\ to \in {"second", "merge"}
         \/ task[n] = "merge" /\ to = "done" /\ \A k \in Halves(n) : task[k] \in {"none", "done"},
         UNCHANGED <<line, out>>, Kept(list', FoundIn(line), Length),
         InOrderSoFar(list, task, Length) => InOrderSoFar(list', task', Length)
  PROVE  IInv'
  <1>1. Calm(task) /\ Length' = Length
    BY DEF IInv, Length
  <1>2. task'[n] = to /\ \A k \in Nodes : k # n => task'[k] = task[k]
    BY <1>1 DEF Calm
  <1>3. IsLeaf(n) => Halves(n) = {}
    BY HalvesAre
  <1>4. Calm(task')
    <2>1. task' \in [Nodes -> States]
      BY <1>1 DEF Calm, States
    <2>2. ASSUME NEW m \in Nodes, task'[m] \in {"none", "begin"}, NEW k \in Halves(m)
          PROVE  task'[k] = "none"
      <3>1. m # n /\ k \in Nodes
        BY <1>2, <2>2 DEF Halves
      <3>2. task[k] = "none" /\ k # n
        BY <1>1, <1>2, <2>2, <3>1 DEF Calm
      <3> QED BY <1>2, <3>1, <3>2
    <2>3. ASSUME NEW m \in Nodes, task'[m] \in {"none", "done"}, NEW k \in Nodes, Below(k, m)
          PROVE  task'[k] \in {"none", "done"}
      <3>1. CASE m # n
        <4>1. task[m] \in {"none", "done"}
          BY <1>2, <2>3, <3>1
        <4>2. k # n /\ task[k] \in {"none", "done"}
          BY <1>1, <2>3, <4>1 DEF Calm
        <4> QED BY <1>2, <4>2
      <3>2. CASE m = n
        <4>1. to = "done" /\ \A h \in Halves(n) : task[h] \in {"none", "done"}
          BY <1>2, <2>3, <3>2
        <4>2. CASE k = n
          BY <1>2, <4>1, <4>2
        <4>3. CASE k # n
          <5>1. PICK h \in Halves(n) : Below(k, h)
            BY <2>3, <3>2, <4>3, BelowAHalf
          <5>2. h \in Nodes
            BY DEF Halves
          <5>3. task[k] \in {"none", "done"}
            BY <1>1, <4>1, <5>1, <5>2 DEF Calm
          <5> QED BY <1>2, <4>3, <5>3
        <4> QED BY <4>2, <4>3
      <3> QED BY <3>1, <3>2
    <2> QED BY <2>1, <2>2, <2>3 DEF Calm
  <1>5. AllForked(task') => AllForked(task)
    <2>1. SUFFICES ASSUME AllForked(task'), NEW m \in Nodes, task[m] \in {"merge", "done"}, NEW k \in Halves(m)
                   PROVE  task[k] # "none"
      BY DEF AllForked
    <2>2. k \in Nodes /\ task'[m] \in {"merge", "done"}
      BY <1>2, <1>3, <2>1 DEF Halves
    <2>3. task'[k] # "none"
      BY <2>1, <2>2 DEF AllForked
    <2> QED BY <1>2, <2>2, <2>3
  <1>6. LongList'
    BY <1>1, <1>5 DEF IInv, LongList
  <1>7. ShortList'
    BY <1>1, LineIsALine, TreeAssumption DEF ShortList
  <1>8. Printed'
    <2>1. task[<<>>] # "done"
      <3>1. Below(n, <<>>)
        BY DEF Below, Agree
      <3> QED BY <1>1, <3>1, RootIsANode DEF Calm
    <2> QED BY <2>1 DEF IInv, Printed
  <1> QED BY <1>1, <1>4, <1>6, <1>7, <1>8 DEF IInv

LEMMA SortHalfKeeps ==
  ASSUME IInv, NEW n \in Nodes, SortHalf(n)
  PROVE  IInv'
  <1> DEFINE whole == Slice(n, Length)
  <1>1. /\ Length \in Nat /\ list \in [1..Length -> Movie] /\ Len(list) = Length
        /\ Kept(list, FoundIn(line), Length)
    BY LineIsALine DEF IInv
  <1>2. /\ IsLeaf(n) /\ Len(list) >= mergeThread /\ UNCHANGED <<line, out>>
    BY DEF SortHalf
  <1>3. PICK half, sl :
          /\ half \in {"begin", "second"}
          /\ task[n] = half /\ sl = IF half = "begin" THEN FirstHalf(whole) ELSE SecondHalf(whole)
          /\ task' = [task EXCEPT ![n] = IF half = "begin" THEN "second" ELSE "merge"]
          /\ list' = SortedAt(list, sl)
    BY <1>1 DEF SortHalf
  <1>4. Length >= mergeThread
    BY <1>2, WorkIsLong
  <1> HIDE DEF Length
  <1>5. Legal(sl, Length)
    BY <1>1, <1>3, SliceHalves, HalvesOf
  <1>6. Reworked(list, list', sl, Length)
    BY <1>1, <1>3, <1>5, SortedAtSorts
  <1>7. Kept(list', FoundIn(line), Length)
    BY <1>1, <1>6, ReworkedKeeps
  <1>8. InOrderSoFar(list, task, Length) => InOrderSoFar(list', task', Length)
    BY <1>1, <1>2, <1>3, SortHalfSorts
  <1> QED BY <1>2, <1>3, <1>4, <1>7, <1>8, WorkKeeps

LEMMA MergeKeeps ==
  ASSUME IInv, NEW n \in Nodes, Merge(n)
  PROVE  IInv'
  <1>1. /\ Length \in Nat /\ list \in [1..Length -> Movie] /\ Len(list) = Length
        /\ Kept(list, FoundIn(line), Length)
    BY LineIsALine DEF IInv
  <1>2. /\ task[n] = "merge" /\ \A k \in Halves(n) : task[k] \in {"none", "done"}
        /\ list' = MergedAt(list, Slice(n, Length))
        /\ task' = [task EXCEPT ![n] = "done"] /\ UNCHANGED <<line, out>>
    BY <1>1 DEF Merge, Waited
  <1>3. Length >= mergeThread
    BY <1>2, WorkIsLong
  <1> HIDE DEF Length
  <1>4. Reworked(list, list', Slice(n, Length), Length)
    BY <1>1, <1>2, SliceHalves, MergedAtMerges
  <1>5. Kept(list', FoundIn(line), Length)
    BY <1>1, <1>4, ReworkedKeeps
  <1>6. InOrderSoFar(list, task, Length) => InOrderSoFar(list', task', Length)
    BY <1>1, <1>2, MergeSorts
  <1> QED BY <1>2, <1>3, <1>5, <1>6, WorkKeeps

LEMMA StepKeeps ==
  ASSUME IInv, [Next]_vars
  PROVE  IInv'
  <1>1. CASE Output
    BY <1>1 DEF Output, IInv, ShortList, LongList, Printed, Length
  <1>2. CASE UNCHANGED vars
    BY <1>2 DEF vars, IInv, ShortList, LongList, Printed, Length
  <1> QED BY <1>1, <1>2, SortShortKeeps, ForkKeeps, SortHalfKeeps, MergeKeeps DEF Next, Ended

-------------------------------------------------------------------------------
(* Every title as often as it is to be there. *)

\* s lists the rows b, each of K once.
ListsRows(s, b, K, n) ==
  /\ n \in Nat /\ Len(s) = n /\ b \in [1..n -> K]
  /\ \A i, j \in 1..n : b[i] = b[j] => i = j
  /\ \A k \in K : \E i \in 1..n : b[i] = k
  /\ \A i \in 1..n : s[i].title = Rows[b[i]].title

Titled(s, t) == {i \in 1..Len(s) : s[i].title = t}
RowsTitled(K, t) == {k \in K : Rows[k].title = t}

LEMMA TitlesInRows ==
  ASSUME NEW s, NEW b, NEW K, NEW n, ListsRows(s, b, K, n), IsFiniteSet(K), NEW t
  PROVE  Cardinality(Titled(s, t)) = Cardinality(RowsTitled(K, t))
  <1> DEFINE S == {i \in 1..n : s[i].title = t}
             R == {k \in K : Rows[k].title = t}
             f == [i \in S |-> b[i]]
  <1>1. /\ n \in Nat /\ Len(s) = n /\ b \in [1..n -> K]
        /\ \A i, j \in 1..n : b[i] = b[j] => i = j
        /\ \A k \in K : \E i \in 1..n : b[i] = k
        /\ \A i \in 1..n : s[i].title = Rows[b[i]].title
    BY DEF ListsRows
  <1>2. \A i \in S : i \in 1..n /\ b[i] \in R
    BY <1>1
  <1>3. f \in [S -> R]
    BY <1>2
  <1>4. \A i, j \in S : f[i] = f[j] => i = j
    BY <1>1, <1>2
  <1>5. \A k \in R : \E i \in S : f[i] = k
    <2>1. SUFFICES ASSUME NEW k \in R
                   PROVE  \E i \in S : f[i] = k
      OBVIOUS
    <2>2. PICK i \in 1..n : b[i] = k
      BY <1>1
    <2>3. i \in S
      BY <1>1, <2>2
    <2> QED BY <2>2, <2>3
  <1>6. f \in Bijection(S, R)
    <2> HIDE DEF S, R, f
    <2> QED BY <1>3, <1>4, <1>5 DEF Bijection, Injection, Surjection, IsInjective
  <1>7. IsFiniteSet(S)
    <2>1. IsFiniteSet(1..n) /\ S \in SUBSET (1..n)
      BY <1>1, FS_Interval
    <2> HIDE DEF S
    <2> QED BY <2>1, FS_Subset
  <1>8. Cardinality(R) = Cardinality(S)
    <2> HIDE DEF S, R, f
    <2> QED BY <1>6, <1>7, FS_Bijection DEF ExistsBijection
  <1>9. Titled(s, t) = S /\ RowsTitled(K, t) = R
    BY <1>1 DEF Titled, RowsTitled
  <1> QED BY <1>8, <1>9

\* The answer does, and so does every reordering of what was found.
LEMMA BothListRows ==
  ASSUME NEW l \in Lines, NEW len, len = Len(FoundIn(l)), NEW a, Kept(a, FoundIn(l), len)
  PROVE  /\ IsFiniteSet(Wanted(l))
         /\ \E b : ListsRows(Answer(l), b, Wanted(l), len)
         /\ \E b : ListsRows(a, b, Wanted(l), len)
  <1> DEFINE K == Wanted(l)
             found == FoundIn(l)
  <1>1. PICK e : Finds(l, len, e)
    BY FoundHas
  <1>2. /\ K \in SUBSET Nat /\ IsFiniteSet(K) /\ WeakOrder(K, AheadBut(l))
        /\ len \in Nat /\ len = Cardinality(K)
        /\ e \in [1..len -> K]
        /\ \A i, j \in 1..len : e[i] = e[j] => i = j
        /\ \A k \in K : \E i \in 1..len : e[i] = k
    BY <1>1, WantedInOrder
  <1>3. /\ found \in [1..len -> Movie]
        /\ \A i \in 1..len : found[i].title = Rows[e[i]].title
    BY <1>1 DEF Finds
  <1> HIDE DEF K, found
  <1>4. \E b : ListsRows(Answer(l), b, K, len)
    <2>1. PICK w : AnsweredBy(w, l, len)
      BY <1>1, AnswerIs
    <2>2. /\ w \in [1..len -> K] /\ \A i, j \in 1..len : w[i] = w[j] => i = j
          /\ Answer(l) = [i \in 1..len |-> [title |-> Rows[w[i]].title, marks |-> 1]]
      BY <2>1 DEF AnsweredBy, K
    <2>3. OneToOne(w, 1..len, K)
      BY <2>2 DEF OneToOne
    <2>4. Cardinality(1..len) = len
      BY <1>2, FS_Interval
    <2>5. Onto(w, 1..len, K)
      BY <1>2, <2>3, <2>4, InjectedElements
    <2>6. Len(Answer(l)) = len /\ \A i \in 1..len : Answer(l)[i].title = Rows[w[i]].title
      <3>1. PICK s : s = Answer(l)
        OBVIOUS
      <3> QED BY <1>2, <2>2, <3>1
    <2>7. ListsRows(Answer(l), w, K, len)
      BY <1>2, <2>2, <2>5, <2>6 DEF ListsRows, Onto
    <2> QED BY <2>7
  <1>5. \E b : ListsRows(a, b, K, len)
    <2>1. PICK p \in Shuffle(len) : \A i \in 1..len : Same(a[i], found[p[i]])
      BY DEF Kept, found
    <2>2. /\ p \in [1..len -> 1..len] /\ \A i, j \in 1..len : p[i] = p[j] => i = j
          /\ \A j \in 1..len : \E i \in 1..len : p[i] = j
      BY <2>1 DEF Shuffle
    <2> DEFINE b == [i \in 1..len |-> e[p[i]]]
    <2>3. b \in [1..len -> K] /\ \A i, j \in 1..len : b[i] = b[j] => i = j
      BY <1>2, <2>2
    <2>4. \A k \in K : \E i \in 1..len : b[i] = k
      BY <1>2, <2>2
    <2>5. \A i \in 1..len : a[i].title = Rows[b[i]].title
      BY <1>3, <2>1, <2>2, SMTT(20) DEF Same
    <2>6. Len(a) = len
      BY <1>2 DEF Kept
    <2> HIDE DEF b
    <2>7. ListsRows(a, b, K, len)
      BY <1>2, <2>3, <2>4, <2>5, <2>6 DEF ListsRows
    <2> QED BY <2>7
  <1> QED BY <1>2, <1>4, <1>5 DEF K

-------------------------------------------------------------------------------
(* The theorems. *)

\* IInv holds in every state, for any request, movies and tree, and any forks failing.
THEOREM Invariant == Spec => []IInv
  <1>1. Init => IInv
    BY InitEstablishes
  <1>2. IInv /\ [Next]_vars => IInv'
    BY StepKeeps
  <1> QED BY <1>1, <1>2, PTL DEF Spec

\* With every process there, what is printed are the movies of the request in order,
\* each marked once (server.c:180-268).
THEOREM PrintsTheAnswer == Spec => []AnswerRight
  <1>1. ASSUME IInv
        PROVE  AnswerRight
    <2>1. SUFFICES ASSUME out # <<>>, Missing = {} \/ Len(out) < mergeThread
                   PROVE  Shown(out) = Answer(line)
      BY DEF AnswerRight
    <2>2. /\ line \in Lines /\ Length \in Nat /\ Len(list) = Length
          /\ out = list /\ task[<<>>] = "done" /\ mergeThread \in Nat
      BY <1>1, <2>1, LineIsALine, TreeAssumption DEF IInv, Printed
    <2>3. CASE Length < mergeThread
      BY <1>1, <2>2, <2>3 DEF IInv, ShortList, Complete
    <2>4. CASE Length >= mergeThread
      <3>1. \A n \in Nodes : task[n] # "none"
        BY <2>1, <2>2, <2>4 DEF Missing
      <3>2. AllForked(task)
        BY <3>1 DEF AllForked, Halves
      <3>3. InOrderSoFar(list, task, Length) /\ Kept(list, FoundIn(line), Length)
        BY <1>1, <2>4, <3>2 DEF IInv, LongList
      <3>4. AtWork(list, task, line)
        BY <2>2, <2>4, <3>3 DEF AtWork, Length
      <3> QED BY <2>2, <3>4, WorkCompletes DEF Complete
    <2> QED BY <2>2, <2>3, <2>4
  <1> QED BY <1>1, Invariant, PTL

\* Whichever forks fail, what is printed has every title as often as the answer has
\* it (server.c:219-255).
THEOREM NoMovieIsLost == Spec => []MoviesKept
  <1>1. ASSUME IInv
        PROVE  MoviesKept
    <2>1. PICK l \in Lines : l = line
      BY <1>1, LineIsALine
    <2>2. ASSUME out # <<>>, NEW t
          PROVE  Cardinality({k \in 1..Len(out) : out[k].title = t})
                   = Cardinality({k \in 1..Len(Answer(l)) : Answer(l)[k].title = t})
      <3>1. PICK len, a : len = Len(FoundIn(l)) /\ a = out
        OBVIOUS
      <3>2. Kept(a, FoundIn(l), len)
        BY <1>1, <2>1, <2>2, <3>1 DEF IInv, Printed, Length
      <3>3. /\ IsFiniteSet(Wanted(l))
            /\ \E w : ListsRows(Answer(l), w, Wanted(l), len)
            /\ \E b : ListsRows(a, b, Wanted(l), len)
        BY <3>1, <3>2, BothListRows
      <3>4. PICK w : ListsRows(Answer(l), w, Wanted(l), len)
        BY <3>3
      <3>5. PICK b : ListsRows(a, b, Wanted(l), len)
        BY <3>3
      <3>6. /\ Cardinality(Titled(a, t)) = Cardinality(RowsTitled(Wanted(l), t))
            /\ Cardinality(Titled(Answer(l), t)) = Cardinality(RowsTitled(Wanted(l), t))
        BY <3>3, <3>4, <3>5, TitlesInRows
      <3> QED BY <3>1, <3>6 DEF Titled
    <2> QED BY <2>1, <2>2 DEF MoviesKept
  <1> QED BY <1>1, Invariant, PTL

===============================================================================
