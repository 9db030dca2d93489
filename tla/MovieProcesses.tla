----------------------------- MODULE MovieProcesses ----------------------------
(***************************************************************************)
(* hw4, pserver: the first request, sorted by a tree of processes over one  *)
(* array in shared memory.  A fork may fail, which nobody looks at.          *)
(***************************************************************************)
EXTENDS MovieInput

CONSTANTS
  FirstLines,      \* what the first request, the only one that counts, may be
  MayFail          \* whether fork may fail

ASSUME ProcessesAssumption ==
  /\ MayFail \in BOOLEAN
  /\ \A line \in FirstLines : line \in Lines /\ Found(read_request(line)) # <<>>

VARIABLES
  line,            \* the first request
  list,            \* filter and pts
  task,            \* task[n]: where the process of a node is
  out              \* what main has printed

vars == <<line, list, task, out>>

\* main: a short list is sorted at once, a long one by mergeSort, of which the
\* top is main itself.
Init ==
  /\ line \in FirstLines /\ list = Found(read_request(line))
  /\ task = [n \in Nodes |-> IF n = <<>> THEN "begin" ELSE "none"]
  /\ out = <<>>

SortShort ==
  /\ task[<<>>] = "begin" /\ Len(list) < mergeThread
  /\ list' = sort(list)
  /\ task' = [task EXCEPT ![<<>>] = "done"]
  /\ UNCHANGED <<line, out>>

\* Both forks are tried; a failed one leaves -1, which goes on as in the parent.
Fork(n) ==
  /\ task[n] = "begin" /\ Len(list) >= mergeThread /\ ~IsLeaf(n)
  /\ \E forked \in SUBSET Halves(n) :
       /\ MayFail \/ forked = Halves(n)
       /\ task' = [k \in Nodes |-> IF k = n THEN "merge"
                                   ELSE IF k \in forked THEN "begin" ELSE task[k]]
  /\ UNCHANGED <<line, list, out>>

\* The titles are sorted in a copy of the process, with the points in place.
SortHalf(n) ==
  LET whole == Slice(n, Len(list)) IN
  /\ IsLeaf(n) /\ Len(list) >= mergeThread
  /\ \/ /\ task[n] = "begin" /\ task' = [task EXCEPT ![n] = "second"]
        /\ list' = SortedAt(list, FirstHalf(whole))
     \/ /\ task[n] = "second" /\ task' = [task EXCEPT ![n] = "merge"]
        /\ list' = SortedAt(list, SecondHalf(whole))
  /\ UNCHANGED <<line, out>>

\* Faulty: one wait for two children.
Waited_Once(n) == IF Halves(n) = {} THEN TRUE ELSE \E k \in Halves(n) : task[k] = "done"

\* Two waits: for the children there are.
Waited(n) == \A k \in Halves(n) : task[k] \in {"none", "done"}

Merge(n) ==
  /\ task[n] = "merge" /\ Waited(n)
  /\ list' = MergedAt(list, Slice(n, Len(list)))
  /\ task' = [task EXCEPT ![n] = "done"]
  /\ UNCHANGED <<line, out>>

Output ==
  /\ task[<<>>] = "done" /\ out = <<>>
  /\ out' = list
  /\ UNCHANGED <<line, list, task>>

Ended == out # <<>> /\ UNCHANGED vars

Next == \/ SortShort \/ Output \/ Ended
        \/ \E n \in Nodes : Fork(n) \/ SortHalf(n) \/ Merge(n)

Spec == Init /\ [][Next]_vars

-------------------------------------------------------------------------------

Missing == {n \in Nodes : task[n] = "none"}

\* server.c:180-268: with every process there, what is printed are the movies
\* of the request in order, each marked once.
AnswerRight == out # <<>> /\ (Missing = {} \/ Len(out) < mergeThread) =>
                 Shown(out) = Answer(line)

\* Also without some of the processes no movie is lost or doubled: the merge of
\* two halves that nobody has sorted still holds both (server.c:219-255).
MoviesKept ==
  LET Places(q, t) == {k \in 1..Len(q) : q[k].title = t} IN
  out # <<>> =>
    \A k \in DOMAIN Answer(line) : LET t == Answer(line)[k].title IN
      Cardinality(Places(out, t)) = Cardinality(Places(Answer(line), t))
===============================================================================
