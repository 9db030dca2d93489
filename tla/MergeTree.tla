------------------------------- MODULE MergeTree -------------------------------
(***************************************************************************)
(* hw4_simple-movies-recommendation-system: the library's sort and the      *)
(* merge sort that server.c builds from it, as functions of sequences.  A    *)
(* movie is [title, pts, secrets]: a number in alphabetical order, the       *)
(* points it has for the request, and how often sort has marked its title.   *)
(***************************************************************************)
EXTENDS Integers, Sequences, FiniteSets

CONSTANTS
  depth,           \* levels of the tree
  mergeThread      \* lists shorter than this are sorted at once

ASSUME TreeAssumption == depth \in Nat \ {0} /\ mergeThread \in Nat \ {0}

\* What mergeThread movies come to when they are halved once for every level: 1
\* for the numbers of server.c.
AtLevel[i \in 0..depth] == IF i = 0 THEN mergeThread ELSE AtLevel[i - 1] \div 2

ASSUME BottomAssumption == AtLevel[depth] >= 1

Movie == [title : Nat, pts : Nat, secrets : Nat]

\* More points first, then the alphabet.
Before(m, n) == m.pts > n.pts \/ (m.pts = n.pts /\ m.title < n.title)

-------------------------------------------------------------------------------
(* lib.c *)

argmax(s, start) ==
  CHOOSE j \in start..Len(s) : \A k \in start..Len(s) :
    /\ ~Before(s[k], s[j])
    /\ k < j => Before(s[j], s[k])

\* A round of sort: the next of the list to its place, and marked.
Placed(s, i) ==
  LET idx == argmax(s, i) IN
  [k \in DOMAIN s |-> IF k = i THEN [s[idx] EXCEPT !.secrets = @ + 1]
                      ELSE IF k = idx THEN s[i] ELSE s[k]]

\* For no movie at all it writes in front of the array.
sort(s) ==
  LET Rounds[i \in 0..Len(s)] == IF i = 0 THEN s ELSE Placed(Rounds[i - 1], i)
  IN Rounds[Len(s)]

-------------------------------------------------------------------------------
(* The tree.  A node is the path to it, 1 for the first half, 2 for the second. *)

Nodes == UNION {[1..d -> {1, 2}] : d \in 0..(depth - 1)}
IsLeaf(n) == Len(n) = depth - 1
Halves(n) == {Append(n, 1), Append(n, 2)} \cap Nodes

\* The two halves of a slice; a slice is [from, to], in places of the array.
FirstHalf(sl)  == [from |-> sl.from, to |-> sl.from + (sl.to - sl.from + 1) \div 2 - 1]
SecondHalf(sl) == [from |-> FirstHalf(sl).to + 1, to |-> sl.to]

Slice(n, len) ==
  LET Upto[i \in 0..Len(n)] ==
        IF i = 0 THEN [from |-> 1, to |-> len]
        ELSE IF n[i] = 1 THEN FirstHalf(Upto[i - 1]) ELSE SecondHalf(Upto[i - 1])
  IN Upto[Len(n)]

IsEmpty(sl) == sl.to < sl.from
Part(list, sl) == SubSeq(list, sl.from, sl.to)
Overwrite(list, sl, s) ==
  [k \in 1..Len(list) |-> IF k \in sl.from..sl.to THEN s[k - sl.from + 1] ELSE list[k]]

\* The merge of two sorted lists, as mergeSort goes through them.
Merged(s, t) ==
  LET From[k \in (1..(Len(s) + 1)) \X (1..(Len(t) + 1))] ==
        LET i == k[1]
            j == k[2] IN
        IF i > Len(s) \/ j > Len(t) THEN SubSeq(s, i, Len(s)) \o SubSeq(t, j, Len(t))
        ELSE IF Before(s[i], t[j]) THEN <<s[i]>> \o From[<<i + 1, j>>]
                                   ELSE <<t[j]>> \o From[<<i, j + 1>>]
  IN From[<<1, 1>>]

\* Faulty: the last place is not copied back.
MergedAt_OneLess(list, sl) ==
  LET merged == Merged(Part(list, FirstHalf(sl)), Part(list, SecondHalf(sl))) IN
  [Overwrite(list, sl, merged) EXCEPT ![sl.to] = list[sl.to]]

\* The array after the merge of a slice, and after the sort of one.
MergedAt(list, sl) ==
  Overwrite(list, sl, Merged(Part(list, FirstHalf(sl)), Part(list, SecondHalf(sl))))
SortedAt(list, sl) == Overwrite(list, sl, sort(Part(list, sl)))

===============================================================================
