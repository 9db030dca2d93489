------------------------------ MODULE MovieThreads -----------------------------
(***************************************************************************)
(* hw4, tserver: Group threads take the requests from a shared front under  *)
(* a mutex; a long list is sorted by a tree of threads over one array.      *)
(***************************************************************************)
EXTENDS MovieInput

CONSTANTS
  Groups,          \* the threads that main creates
  Nobody,          \* not one of them
  Input,           \* the lines of standard input: num_of_reqs requests
  MayFail          \* whether a thread may fail to be created

num_of_reqs == Len(Input)

ASSUME RequestsAssumption ==
  /\ IsFiniteSet(Groups) /\ Nobody \notin Groups /\ MayFail \in BOOLEAN
  /\ Input \in Seq(Lines)

VARIABLES
  front,           \* the last request that was taken
  lock,            \* who holds the mutex
  pc,              \* where a Group thread is
  cur,             \* the request it works on
  list,            \* filter and pts of that request
  task,            \* task[g][n]: where the mergeSort thread of a node is
  out,             \* out[r]: what was printed for a request, {} before its FILE is open
  file,            \* what is sure to be on the disk: nobody closes or flushes the FILE
  server           \* "running", "ended", "failed" or "crashed"

vars == <<front, lock, pc, cur, list, task, out, file, server>>

Requests == 1..num_of_reqs

TypeOK ==
  /\ front \in 0..(num_of_reqs + Cardinality(Groups))
  /\ lock \in Groups \cup {Nobody}
  /\ pc \in [Groups -> {"lock", "pop", "take", "recommend", "join", "print", "write", "exit"}]
  /\ cur \in [Groups -> 0..(num_of_reqs + Cardinality(Groups))]
  /\ \A g \in Groups : \A k \in DOMAIN list[g] : list[g][k] \in Movie
  /\ task \in [Groups -> [Nodes -> {"none", "begin", "second", "merge", "done"}]]
  /\ server \in {"running", "ended", "failed", "crashed"}

\* Requests are counted from 1; initialize has read them all.
Init ==
  /\ front = 0 /\ lock = Nobody
  /\ pc = [g \in Groups |-> "lock"] /\ cur = [g \in Groups |-> 0]
  /\ list = [g \in Groups |-> <<>>]
  /\ task = [g \in Groups |-> [n \in Nodes |-> "none"]]
  /\ out = [r \in Requests |-> {}] /\ file = [r \in Requests |-> {}]
  /\ server = "running"

-------------------------------------------------------------------------------
(* Group: the next request. *)

\* Faulty: the mutex is not taken.
Lock_Never(g) ==
  /\ pc[g] = "lock" /\ pc' = [pc EXCEPT ![g] = "pop"]
  /\ UNCHANGED <<front, lock, cur, list, task, out, file, server>>

Lock(g) ==
  /\ pc[g] = "lock" /\ lock = Nobody
  /\ lock' = g /\ pc' = [pc EXCEPT ![g] = "pop"]
  /\ UNCHANGED <<front, cur, list, task, out, file, server>>

pop(g) ==
  /\ pc[g] = "pop"
  /\ front' = front + 1 /\ pc' = [pc EXCEPT ![g] = "take"]
  /\ UNCHANGED <<lock, cur, list, task, out, file, server>>

\* Faulty: pop is called once more for its result.
Take_PopsAgain(g) ==
  /\ pc[g] = "take"
  /\ front' = front + 1
  /\ cur' = [cur EXCEPT ![g] = front'] /\ lock' = Nobody
  /\ pc' = [pc EXCEPT ![g] = IF front' <= num_of_reqs THEN "recommend" ELSE "exit"]
  /\ UNCHANGED <<list, task, out, file, server>>
\* Faulty: the last one leaves without giving the mutex back.
Take_KeepsLock(g) ==
  /\ pc[g] = "take"
  /\ cur' = [cur EXCEPT ![g] = front]
  /\ lock' = IF front <= num_of_reqs THEN Nobody ELSE lock
  /\ pc' = [pc EXCEPT ![g] = IF front <= num_of_reqs THEN "recommend" ELSE "exit"]
  /\ UNCHANGED <<front, list, task, out, file, server>>

Take(g) ==
  /\ pc[g] = "take"
  /\ cur' = [cur EXCEPT ![g] = front] /\ lock' = Nobody
  /\ pc' = [pc EXCEPT ![g] = IF front <= num_of_reqs THEN "recommend" ELSE "exit"]
  /\ UNCHANGED <<front, list, task, out, file, server>>

-------------------------------------------------------------------------------
(* Recommend. *)

FoundFor == [r \in Requests |-> Found(read_request(Input[r]))]

\* Faulty: as many movies as there are threads on the last level will do.
IsLong_Threads(found) == Len(found) >= mergeThread \div 2

IsLong(found) == Len(found) >= mergeThread

\* A short list is sorted here.  For an empty one sort takes what lies before
\* the array for a title, which no build survives.
RecommendShort(g) ==
  LET found == FoundFor[cur[g]] IN
  /\ pc[g] = "recommend" /\ ~IsLong(found)
  /\ IF found = <<>>
     THEN server' = "crashed" /\ UNCHANGED <<list, pc>>
     ELSE /\ list' = [list EXCEPT ![g] = sort(found)]
          /\ pc' = [pc EXCEPT ![g] = "print"]
          /\ UNCHANGED server
  /\ UNCHANGED <<front, lock, cur, task, out, file>>

RecommendLong(g) ==
  LET found == FoundFor[cur[g]] IN
  /\ pc[g] = "recommend" /\ IsLong(found)
  /\ list' = [list EXCEPT ![g] = found]
  /\ task' = [task EXCEPT ![g] = [n \in Nodes |-> IF n = <<>> THEN "begin" ELSE "none"]]
  /\ pc' = [pc EXCEPT ![g] = "join"]
  /\ UNCHANGED <<front, lock, cur, out, file, server>>

Join(g) ==
  /\ pc[g] = "join" /\ task[g][<<>>] = "done"
  /\ pc' = [pc EXCEPT ![g] = "print"]
  /\ UNCHANGED <<front, lock, cur, list, task, out, file, server>>

Open(g) ==
  /\ pc[g] = "print"
  /\ out' = [out EXCEPT ![cur[g]] = {<<>>}] /\ file' = [file EXCEPT ![cur[g]] = {<<>>}]
  /\ pc' = [pc EXCEPT ![g] = "write"]
  /\ UNCHANGED <<front, lock, cur, list, task, server>>

\* Some of the movies, and then the rest.
Output(g) ==
  /\ pc[g] = "write"
  /\ \E s \in out[cur[g]] : \E n \in (Len(s) + 1)..Len(list[g]) :
       /\ out' = [out EXCEPT ![cur[g]] = {Shown(SubSeq(list[g], 1, n))}]
       /\ IF n = Len(list[g])
          THEN pc' = [pc EXCEPT ![g] = "lock"] /\ list' = [list EXCEPT ![g] = <<>>]
          ELSE UNCHANGED <<pc, list>>
  /\ UNCHANGED <<front, lock, cur, task, file, server>>

-------------------------------------------------------------------------------
(* mergeSort, in the thread of a node. *)

\* Above the last level: a thread for either half, and both are joined.
Divide(g, n) ==
  /\ task[g][n] = "begin" /\ ~IsLeaf(n)
  /\ task' = [task EXCEPT ![g] = [k \in Nodes |-> IF k = n THEN "merge"
                                               ELSE IF k \in Halves(n) THEN "begin"
                                               ELSE task[g][k]]]
  /\ UNCHANGED <<front, lock, pc, cur, list, out, file, server>>

\* ERR_EXIT: the process exits with the other threads where they are, and flushes
\* what they have printed.
CreateFails(g, n) ==
  /\ MayFail /\ task[g][n] = "begin" /\ ~IsLeaf(n)
  /\ server' = "failed" /\ file' = out
  /\ UNCHANGED <<front, lock, pc, cur, list, task, out>>

\* On the last level both halves are sorted here.
SortHalf(g, n) ==
  LET whole == Slice(n, Len(list[g])) IN
  /\ IsLeaf(n)
  /\ \E half \in {"begin", "second"} :
       LET sl == IF half = "begin" THEN FirstHalf(whole) ELSE SecondHalf(whole) IN
       /\ task[g][n] = half
       /\ IF IsEmpty(sl)
          THEN server' = "crashed" /\ UNCHANGED <<list, task>>
          ELSE /\ list' = [list EXCEPT ![g] = SortedAt(@, sl)]
               /\ task' = [task EXCEPT ![g][n] = IF half = "begin" THEN "second" ELSE "merge"]
               /\ UNCHANGED server
  /\ UNCHANGED <<front, lock, pc, cur, out, file>>

\* Faulty: the second half is not joined.
Joined_First(g, n) ==
  \A k \in Halves(n) : k = Append(n, 1) => task[g][k] = "done"

Joined(g, n) == \A k \in Halves(n) : task[g][k] = "done"

Merge(g, n) ==
  /\ task[g][n] = "merge" /\ Joined(g, n)
  /\ list' = [list EXCEPT ![g] = MergedAt(@, Slice(n, Len(@)))]
  /\ task' = [task EXCEPT ![g][n] = "done"]
  /\ UNCHANGED <<front, lock, pc, cur, out, file, server>>

-------------------------------------------------------------------------------

\* main has joined the Group threads and returns: the FILEs are flushed.
Return ==
  /\ \A g \in Groups : pc[g] = "exit"
  /\ server' = "ended" /\ file' = out
  /\ UNCHANGED <<front, lock, pc, cur, list, task, out>>

GroupStep(g) == \/ Lock(g) \/ pop(g) \/ Take(g)
                \/ RecommendShort(g) \/ RecommendLong(g) \/ Join(g)
                \/ Open(g) \/ Output(g)
TaskStep(g, n) == Divide(g, n) \/ CreateFails(g, n) \/ SortHalf(g, n) \/ Merge(g, n)

Running == /\ server = "running"
           /\ \/ \E g \in Groups : GroupStep(g) \/ \E n \in Nodes : TaskStep(g, n)
              \/ Return

Stopped == server # "running" /\ UNCHANGED vars

Next == Running \/ Stopped

Spec == Init /\ [][Next]_vars

\* Some thread that can run does: all of them come to an end, so no more is
\* needed of the scheduler or of the mutex.
FairSpec == Spec /\ WF_vars(Running)

-------------------------------------------------------------------------------
(* Safety. *)

Working(g) == pc[g] \in {"recommend", "join", "print", "write"}
Done(r) == out[r] # {} /\ \A g \in Groups : ~(Working(g) /\ cur[g] = r)

\* server.c:162-174: whatever the threads do at the front, a request is taken
\* by one of them and by no other, and none is passed over.
TakenOnce ==
  /\ \A g, h \in Groups : Working(g) /\ Working(h) /\ cur[g] = cur[h] => g = h
  /\ \A r \in Requests :
       LET taken == {g \in Groups : Working(g) /\ cur[g] = r} IN
       /\ r <= front /\ out[r] = {} /\ taken = {} =>
            r = front /\ \E g \in Groups : pc[g] = "take"

\* The library is never asked to sort nothing: a list of mergeThread movies
\* still has one in each of the slices at the bottom (server.c:64-72, 140).
SortsSomething == server # "crashed"

\* s is the beginning of t.
Begins(s, t) == \E n \in 0..Len(t) : s = SubSeq(t, 1, n)

Answers == [r \in Requests |-> Answer(Input[r])]

\* server.c:57-122, 130-158: whatever threads sort and print beside it, and if
\* they end the process, a file holds the beginning of the answer that its request
\* asks for in terms of the rows of movies.txt, and the whole of it once the request
\* is done and main has returned.
AnswersRight ==
  \A r \in Requests :
    /\ \A s \in out[r] : Begins(s, Answers[r])
    /\ Done(r) => out[r] = {Answers[r]}
    /\ \A s \in file[r] : \E t \in out[r] : Begins(s, t)

-------------------------------------------------------------------------------
(* Liveness, under FairSpec. *)

\* README.md:12: the result of every request is placed in the working directory,
\* but for a process that could not create a thread.
AllAnswered == <>(server = "failed" \/ \A r \in Requests : file[r] = {Answers[r]})
===============================================================================
