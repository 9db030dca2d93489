-------------------------- MODULE MovieThreads_proofs --------------------------
(***************************************************************************)
(* Proofs about MovieThreads: the front, for any number of Group threads and *)
(* of requests, any movies and any tree.                                     *)
(***************************************************************************)
EXTENDS MovieThreads, MovieInput_proofs

frontVars == <<front, lock, pc, cur, out>>

Types ==
  /\ front \in Nat /\ lock \in Groups \cup {Nobody}
  /\ pc \in [Groups -> {"lock", "pop", "take", "recommend", "join", "print", "write", "exit"}]
  /\ cur \in [Groups -> Nat]
  /\ DOMAIN out = Requests

\* The mutex is held from pop to the end of take.
Holding == \A g \in Groups : pc[g] \in {"pop", "take"} <=> lock = g

\* What is taken lies up to the front, what was printed was taken, and what is
\* about to be taken is nobody's yet.
Taking ==
  /\ \A g \in Groups : Working(g) => cur[g] \in Requests /\ cur[g] <= front
  /\ \A r \in Requests : r > front => out[r] = {}
  /\ \A g \in Groups : pc[g] = "take" => /\ front >= 1
                                         /\ \A h \in Groups : Working(h) => cur[h] # front
  /\ \A g \in Groups : pc[g] = "write" => out[cur[g]] # {}

FrontInv == Types /\ Holding /\ Taking /\ TakenOnce

\* There are as many requests as the input has lines.
LEMMA RequestsAreNumbers == num_of_reqs \in Nat /\ Requests \subseteq Nat \ {0}
  BY RequestsAssumption DEF num_of_reqs, Requests

LEMMA FrontStarts ==
  ASSUME Init
  PROVE  FrontInv
  <1>1. Types /\ Holding
    BY RequestsAssumption DEF Init, Types, Holding
  <1>2. Taking /\ TakenOnce
    BY RequestsAreNumbers DEF Init, Taking, TakenOnce, Working
  <1> QED BY <1>1, <1>2 DEF FrontInv

LEMMA LockKeeps ==
  ASSUME FrontInv, NEW g \in Groups, Lock(g)
  PROVE  FrontInv'
  <1>1. /\ pc[g] = "lock" /\ pc' = [pc EXCEPT ![g] = "pop"]
        /\ lock = Nobody /\ lock' = g /\ UNCHANGED <<front, cur, out>>
    BY DEF Lock
  <1>2. \A h \in Groups : Working(h)' <=> Working(h)
    BY <1>1 DEF Working, FrontInv, Types
  <1>3. Types' /\ Holding'
    BY <1>1, RequestsAssumption DEF FrontInv, Types, Holding
  <1>4. Taking'
    BY <1>1, <1>2 DEF FrontInv, Types, Taking
  <1>5. TakenOnce'
    BY <1>1, <1>2 DEF FrontInv, Types, TakenOnce
  <1> QED BY <1>3, <1>4, <1>5 DEF FrontInv

LEMMA PopKeeps ==
  ASSUME FrontInv, NEW g \in Groups, pop(g)
  PROVE  FrontInv'
  <1>1. /\ pc[g] = "pop" /\ pc' = [pc EXCEPT ![g] = "take"]
        /\ front' = front + 1 /\ UNCHANGED <<lock, cur, out>>
    BY DEF pop
  <1>2. \A h \in Groups : Working(h)' <=> Working(h)
    BY <1>1 DEF Working, FrontInv, Types
  <1>3. Types' /\ Holding'
    BY <1>1 DEF FrontInv, Types, Holding
  <1>4. \A h \in Groups : pc[h] # "take"
    BY <1>1 DEF FrontInv, Holding
  <1>5. front \in Nat /\ \A h \in Groups : cur[h] \in Nat
    BY DEF FrontInv, Types
  <1>6. Taking'
    <2>1. \A h \in Groups : Working(h)' => cur'[h] \in Requests /\ cur'[h] < front'
      BY <1>1, <1>2, <1>5 DEF FrontInv, Taking
    <2>2. \A r \in Requests : r > front' => out'[r] = {}
      BY <1>1, <1>5, RequestsAreNumbers DEF FrontInv, Taking
    <2>3. \A h \in Groups : pc'[h] = "write" => out'[cur'[h]] # {}
      BY <1>1 DEF FrontInv, Types, Taking
    <2> QED BY <1>1, <1>5, <2>1, <2>2, <2>3 DEF Taking, Requests
  <1>7. TakenOnce'
    <2>1. \A h, k \in Groups : Working(h)' /\ Working(k)' /\ cur'[h] = cur'[k] => h = k
      BY <1>1, <1>2 DEF FrontInv, TakenOnce
    <2>2. ASSUME NEW r \in Requests, r <= front', out'[r] = {},
                 \A h \in Groups : ~(Working(h)' /\ cur'[h] = r)
          PROVE  r = front'
      <3>1. ~(r <= front)
        BY <1>1, <1>2, <1>4, <2>2 DEF FrontInv, TakenOnce
      <3> QED BY <1>1, <1>5, <2>2, <3>1, RequestsAreNumbers
    <2>3. pc'[g] = "take"
      BY <1>1 DEF FrontInv, Types
    <2> QED BY <2>1, <2>2, <2>3 DEF TakenOnce
  <1> QED BY <1>3, <1>6, <1>7 DEF FrontInv

LEMMA TakeKeeps ==
  ASSUME FrontInv, NEW g \in Groups, Take(g)
  PROVE  FrontInv'
  <1>1. /\ pc[g] = "take" /\ cur' = [cur EXCEPT ![g] = front] /\ lock' = Nobody
        /\ pc' = [pc EXCEPT ![g] = IF front <= num_of_reqs THEN "recommend" ELSE "exit"]
        /\ UNCHANGED <<front, out>>
    BY DEF Take
  <1>2. \A h \in Groups : h # g => /\ Working(h)' <=> Working(h)
                                   /\ cur'[h] = cur[h] /\ pc'[h] = pc[h]
    BY <1>1 DEF Working, FrontInv, Types
  <1>3. Working(g)' <=> front <= num_of_reqs
    BY <1>1 DEF Working, FrontInv, Types
  <1>4. /\ cur'[g] = front /\ front \in Nat /\ front >= 1 /\ ~Working(g)
        /\ \A h \in Groups : Working(h) => cur[h] # front
    BY <1>1 DEF FrontInv, Types, Taking, Working
  <1>5. \A h \in Groups : h # g => pc[h] \notin {"pop", "take"}
    BY <1>1 DEF FrontInv, Holding
  <1>6. front <= num_of_reqs => front \in Requests
    BY <1>4, RequestsAreNumbers DEF Requests
  <1>7. Types' /\ Holding'
    <2>1. Types'
      BY <1>1, <1>4 DEF FrontInv, Types
    <2>2. \A h \in Groups : pc'[h] \notin {"pop", "take"} /\ h # Nobody
      BY <1>1, <1>2, <1>5, RequestsAssumption DEF FrontInv, Types
    <2> QED BY <1>1, <2>1, <2>2 DEF Holding
  <1>8. Taking'
    <2>1. \A h \in Groups : Working(h)' => cur'[h] \in Requests /\ cur'[h] <= front'
      BY <1>1, <1>2, <1>3, <1>4, <1>6 DEF FrontInv, Taking
    <2>2. \A h \in Groups : pc'[h] # "take" /\ (pc'[h] = "write" => out'[cur'[h]] # {})
      BY <1>1, <1>2, <1>5 DEF FrontInv, Types, Taking
    <2> QED BY <1>1, <2>1, <2>2 DEF FrontInv, Taking, Requests
  <1>9. TakenOnce'
    <2>1. \A h, k \in Groups : Working(h)' /\ Working(k)' /\ cur'[h] = cur'[k] => h = k
      BY <1>2, <1>4 DEF FrontInv, TakenOnce
    <2>2. ASSUME NEW r \in Requests, r <= front', out'[r] = {},
                 \A h \in Groups : ~(Working(h)' /\ cur'[h] = r)
          PROVE  FALSE
      <3>1. r # front
        BY <1>3, <1>4, <2>2 DEF Requests
      <3>2. \A h \in Groups : ~(Working(h) /\ cur[h] = r)
        BY <1>2, <1>4, <2>2
      <3> QED BY <1>1, <2>2, <3>1, <3>2 DEF FrontInv, TakenOnce
    <2> QED BY <2>1, <2>2 DEF TakenOnce
  <1> QED BY <1>7, <1>8, <1>9 DEF FrontInv

\* The rest of a thread's work leaves the front alone.
LEMMA WorkKeeps ==
  ASSUME FrontInv, NEW g \in Groups, UNCHANGED <<front, lock, cur>>, Working(g),
         NEW to \in {"join", "print", "write", "lock"}, pc' = [pc EXCEPT ![g] = to],
         \/ out' = out /\ to \in {"join", "print"}
         \/ \E s : s # {} /\ out' = [out EXCEPT ![cur[g]] = s]
  PROVE  FrontInv'
  <1>1. cur[g] \in Requests /\ cur[g] <= front
    BY DEF FrontInv, Taking
  <1>2. \A h \in Groups : h # g => pc'[h] = pc[h] /\ (Working(h)' <=> Working(h))
    BY DEF Working, FrontInv, Types
  <1>3. pc'[g] = to /\ (Working(g)' <=> to # "lock")
    BY DEF Working, FrontInv, Types
  <1>4. /\ DOMAIN out' = Requests
        /\ \A r \in Requests : r # cur[g] => out'[r] = out[r]
        /\ out[cur[g]] # {} => out'[cur[g]] # {}
        /\ to \in {"write", "lock"} => out'[cur[g]] # {}
    BY <1>1 DEF FrontInv, Types
  <1>5. pc[g] \notin {"pop", "take"}
    BY DEF Working
  <1>6. Types'
    BY <1>4 DEF FrontInv, Types
  <1>7. Holding'
    BY <1>2, <1>3, <1>5 DEF FrontInv, Holding
  <1>8. Taking'
    <2>1. \A h \in Groups : Working(h)' => cur'[h] \in Requests /\ cur'[h] <= front'
      BY <1>1, <1>2 DEF FrontInv, Taking
    <2>2. \A r \in Requests : r > front' => out'[r] = {}
      BY <1>1, <1>4, RequestsAreNumbers DEF FrontInv, Taking, Types
    <2>3. \A h \in Groups : pc'[h] = "take" =>
            front' >= 1 /\ \A k \in Groups : Working(k)' => cur'[k] # front'
      BY <1>2, <1>3 DEF FrontInv, Taking
    <2>4. \A h \in Groups : pc'[h] = "write" => out'[cur'[h]] # {}
      <3>1. ASSUME NEW h \in Groups, h # g, pc'[h] = "write"
            PROVE  out'[cur'[h]] # {}
        <4>1. pc[h] = "write" /\ Working(h) /\ cur[h] \in Requests /\ out[cur[h]] # {}
          BY <1>2, <3>1 DEF FrontInv, Taking, Working
        <4> QED BY <1>4, <4>1
      <3> QED BY <1>3, <1>4, <3>1
    <2> QED BY <2>1, <2>2, <2>3, <2>4 DEF Taking, Requests
  <1>9. TakenOnce'
    <2>1. \A h, k \in Groups : Working(h)' /\ Working(k)' /\ cur'[h] = cur'[k] => h = k
      BY <1>2 DEF FrontInv, TakenOnce
    <2>2. ASSUME NEW r \in Requests, r <= front', out'[r] = {},
                 \A h \in Groups : ~(Working(h)' /\ cur'[h] = r)
          PROVE  r = front' /\ \E h \in Groups : pc'[h] = "take"
      <3>1. r # cur[g]
        BY <1>3, <1>4, <2>2
      <3>2. out[r] = {} /\ \A h \in Groups : ~(Working(h) /\ cur[h] = r)
        BY <1>2, <1>4, <2>2, <3>1
      <3>3. r = front /\ \E h \in Groups : pc[h] = "take"
        BY <2>2, <3>2 DEF FrontInv, TakenOnce
      <3> QED BY <1>2, <1>5, <3>3
    <2> QED BY <2>1, <2>2 DEF TakenOnce
  <1> QED BY <1>6, <1>7, <1>8, <1>9 DEF FrontInv

LEMMA QuietKeeps ==
  ASSUME FrontInv, UNCHANGED frontVars
  PROVE  FrontInv'
  BY DEF FrontInv, Types, Holding, Taking, TakenOnce, Working, Requests, frontVars

LEMMA FrontKeeps ==
  ASSUME FrontInv, [Next]_vars
  PROVE  FrontInv'
  <1>1. ASSUME NEW g \in Groups, Lock(g) \/ pop(g) \/ Take(g)
        PROVE  FrontInv'
    BY <1>1, LockKeeps, PopKeeps, TakeKeeps
  <1>2. ASSUME NEW g \in Groups, RecommendShort(g)
        PROVE  FrontInv'
    <2>1. UNCHANGED <<front, lock, cur, out>> /\ Working(g)
      BY <1>2 DEF RecommendShort, Working
    <2>2. CASE pc' = pc
      BY <2>1, <2>2, QuietKeeps DEF frontVars
    <2>3. CASE pc' = [pc EXCEPT ![g] = "print"]
      BY <1>2, <2>1, <2>3, WorkKeeps
    <2> QED BY <1>2, <2>2, <2>3 DEF RecommendShort
  <1>3. ASSUME NEW g \in Groups, RecommendLong(g) \/ Join(g)
        PROVE  FrontInv'
    <2>1. /\ UNCHANGED <<front, lock, cur, out>> /\ Working(g)
          /\ \E to \in {"join", "print"} : pc' = [pc EXCEPT ![g] = to]
      BY <1>3 DEF RecommendLong, Join, Working
    <2> QED BY <1>3, <2>1, WorkKeeps
  <1>4. ASSUME NEW g \in Groups, Open(g)
        PROVE  FrontInv'
    <2>1. /\ UNCHANGED <<front, lock, cur>> /\ Working(g)
          /\ pc' = [pc EXCEPT ![g] = "write"]
          /\ out' = [out EXCEPT ![cur[g]] = {<<>>}]
      BY <1>4 DEF Open, Working
    <2>2. {<<>>} # {}
      OBVIOUS
    <2> QED BY <1>4, <2>1, <2>2, WorkKeeps
  <1>5. ASSUME NEW g \in Groups, Output(g)
        PROVE  FrontInv'
    <2>1. UNCHANGED <<front, lock, cur>> /\ pc[g] = "write" /\ Working(g)
      BY <1>5 DEF Output, Working
    <2>2. \E s : s # {} /\ out' = [out EXCEPT ![cur[g]] = s]
      <3>1. PICK s \in out[cur[g]] : \E n \in (Len(s) + 1)..Len(list[g]) :
                   out' = [out EXCEPT ![cur[g]] = {Shown(SubSeq(list[g], 1, n))}]
        BY <1>5 DEF Output
      <3>2. \A n : {Shown(SubSeq(list[g], 1, n))} # {}
        OBVIOUS
      <3> QED BY <3>1, <3>2
    <2>3. pc' = [pc EXCEPT ![g] = "write"] \/ pc' = [pc EXCEPT ![g] = "lock"]
      BY <1>5, <2>1 DEF Output, FrontInv, Types
    <2> QED BY <1>5, <2>1, <2>2, <2>3, WorkKeeps
  <1>6. ASSUME NEW g \in Groups, NEW n \in Nodes, TaskStep(g, n)
        PROVE  FrontInv'
    <2>1. UNCHANGED frontVars
      BY <1>6 DEF TaskStep, Divide, CreateFails, SortHalf, Merge, frontVars
    <2> QED BY <2>1, QuietKeeps
  <1>7. CASE Return \/ Stopped \/ UNCHANGED vars
    BY <1>7, QuietKeeps DEF Return, Stopped, vars, frontVars
  <1> QED BY <1>1, <1>2, <1>3, <1>4, <1>5, <1>6, <1>7 DEF Next, Running, GroupStep

-------------------------------------------------------------------------------
(* How far the front goes. *)

\* The threads that have gone past the last request.
Past(g) == pc[g] = "exit" \/ (pc[g] = "take" /\ front > num_of_reqs)
Counted ==
  /\ front <= num_of_reqs + Cardinality({g \in Groups : Past(g)})
  /\ \A g \in Groups : cur[g] <= front

LEMMA CountedStarts ==
  ASSUME Init
  PROVE  Counted
  <1>1. IsFiniteSet(Groups) /\ {g \in Groups : Past(g)} \in SUBSET Groups
    BY RequestsAssumption
  <1>2. Cardinality({g \in Groups : Past(g)}) \in Nat
    <2> HIDE DEF Past
    <2> QED BY <1>1, FS_Subset, FS_CardinalityType
  <1>3. front = 0 /\ \A g \in Groups : cur[g] = 0
    BY DEF Init
  <1> QED BY <1>2, <1>3, RequestsAreNumbers DEF Counted

LEMMA PopCounted ==
  ASSUME FrontInv, Counted, NEW g \in Groups, pop(g)
  PROVE  Counted'
  <1>1. /\ pc[g] = "pop" /\ pc' = [pc EXCEPT ![g] = "take"]
        /\ front' = front + 1 /\ cur' = cur
    BY DEF pop
  <1>2. /\ pc \in [Groups -> {"lock", "pop", "take", "recommend", "join", "print", "write", "exit"}]
        /\ front \in Nat /\ \A h \in Groups : cur[h] \in Nat
    BY DEF FrontInv, Types
  <1>3. \A h \in Groups : pc[h] # "take"
    BY <1>1 DEF FrontInv, Holding
  <1> DEFINE P == {h \in Groups : Past(h)}
             N == {h \in Groups : Past(h)'}
  <1>4. P = {h \in Groups : pc[h] = "exit"}
    BY <1>3 DEF Past
  <1>5. N = IF front + 1 > num_of_reqs THEN P \cup {g} ELSE P
    <2>1. \A h \in Groups : h # g => pc'[h] = pc[h]
      BY <1>1, <1>2
    <2>2. pc'[g] = "take"
      BY <1>1, <1>2
    <2>3. \A h \in Groups : h # g => (Past(h)' <=> pc[h] = "exit")
      BY <1>3, <2>1 DEF Past
    <2>4. Past(g)' <=> front + 1 > num_of_reqs
      BY <1>1, <2>2 DEF Past
    <2> QED BY <1>1, <1>4, <2>3, <2>4
  <1>6. IsFiniteSet(P) /\ Cardinality(P) \in Nat /\ g \notin P
    <2>1. P \in SUBSET Groups /\ g \notin P
      BY <1>1, <1>4
    <2> HIDE DEF P
    <2> QED BY <2>1, RequestsAssumption, FS_Subset, FS_CardinalityType
  <1>7. Cardinality(P \cup {g}) = Cardinality(P) + 1
    <2> HIDE DEF P
    <2> QED BY <1>6, FS_AddElement
  <1>8. front <= num_of_reqs + Cardinality(P)
    BY DEF Counted
  <1>9. front' <= num_of_reqs + Cardinality(N)
    <2> HIDE DEF P, N
    <2> QED BY <1>1, <1>2, <1>5, <1>6, <1>7, <1>8, RequestsAreNumbers
  <1>10. \A h \in Groups : cur'[h] <= front'
    BY <1>1, <1>2 DEF Counted
  <1> QED BY <1>9, <1>10 DEF Counted

\* Nothing else moves the front, and who goes past it has been counted.
LEMMA RestCounted ==
  ASSUME FrontInv, Counted, front' = front,
         \A h \in Groups : Past(h)' <=> Past(h),
         \A h \in Groups : cur'[h] = cur[h] \/ cur'[h] = front
  PROVE  Counted'
  <1>1. front \in Nat
    BY DEF FrontInv, Types
  <1>2. {h \in Groups : Past(h)'} = {h \in Groups : Past(h)}
    OBVIOUS
  <1>3. front' <= num_of_reqs + Cardinality({h \in Groups : Past(h)'})
    BY <1>2 DEF Counted
  <1>4. \A h \in Groups : cur'[h] <= front'
    BY <1>1 DEF Counted
  <1> QED BY <1>3, <1>4 DEF Counted

LEMMA CountedKeeps ==
  ASSUME FrontInv, Counted, [Next]_vars
  PROVE  Counted'
  <1>1. /\ pc \in [Groups -> {"lock", "pop", "take", "recommend", "join", "print", "write", "exit"}]
        /\ front \in Nat
    BY DEF FrontInv, Types
  <1>2. ASSUME NEW g \in Groups, Take(g)
        PROVE  Counted'
    <2>1. /\ pc[g] = "take" /\ cur' = [cur EXCEPT ![g] = front]
          /\ pc' = [pc EXCEPT ![g] = IF front <= num_of_reqs THEN "recommend" ELSE "exit"]
          /\ front' = front
      BY <1>2 DEF Take
    <2>2. \A h \in Groups : Past(h)' <=> Past(h)
      <3>1. \A h \in Groups : h # g => pc'[h] = pc[h]
        BY <1>1, <2>1
      <3>2. pc'[g] = IF front <= num_of_reqs THEN "recommend" ELSE "exit"
        BY <1>1, <2>1
      <3>3. front <= num_of_reqs <=> ~(front > num_of_reqs)
        BY <1>1, RequestsAreNumbers
      <3> QED BY <2>1, <3>1, <3>2, <3>3 DEF Past, num_of_reqs
    <2>3. \A h \in Groups : cur'[h] = cur[h] \/ cur'[h] = front
      BY <2>1 DEF FrontInv, Types
    <2> QED BY <2>1, <2>2, <2>3, RestCounted
  <1>3. ASSUME UNCHANGED <<front, cur>>, \A h \in Groups : pc'[h] \in {"take", "exit"} \/ pc[h] \in {"take", "exit"} => pc'[h] = pc[h]
        PROVE  Counted'
    <2>1. \A h \in Groups : Past(h)' <=> Past(h)
      BY <1>3 DEF Past, num_of_reqs
    <2> QED BY <1>3, <2>1, RestCounted
  <1>4. ASSUME NEW g \in Groups, Lock(g) \/ RecommendShort(g) \/ RecommendLong(g) \/ Join(g) \/ Open(g) \/ Output(g)
        PROVE  Counted'
    <2>1. UNCHANGED <<front, cur>> /\ pc[g] \notin {"take", "exit"}
      BY <1>4 DEF Lock, RecommendShort, RecommendLong, Join, Open, Output
    <2>2. pc' = pc \/ \E to \in {"pop", "join", "print", "write", "lock"} : pc' = [pc EXCEPT ![g] = to]
      BY <1>4 DEF Lock, RecommendShort, RecommendLong, Join, Open, Output
    <2> QED BY <1>1, <1>3, <2>1, <2>2
  <1>5. ASSUME NEW g \in Groups, NEW n \in Nodes, TaskStep(g, n)
        PROVE  Counted'
    <2>1. UNCHANGED <<front, cur, pc>>
      BY <1>5 DEF TaskStep, Divide, CreateFails, SortHalf, Merge
    <2> QED BY <1>3, <2>1
  <1>6. CASE Return \/ Stopped \/ UNCHANGED vars
    <2>1. UNCHANGED <<front, cur, pc>>
      BY <1>6 DEF Return, Stopped, vars
    <2> QED BY <1>3, <2>1
  <1> QED BY <1>2, <1>4, <1>5, <1>6, PopCounted DEF Next, Running, GroupStep

-------------------------------------------------------------------------------
(* The lists and the threads of the tree. *)

\* Every mergeSort thread of a Group thread is gone, or there is none yet.
Resting(T) ==
  /\ T \in [Nodes -> {"none", "begin", "second", "merge", "done"}]
  /\ \A n \in Nodes : T[n] \in {"none", "done"}

ListOf(g) ==
  /\ pc[g] = "join" => AtWork(list[g], task[g], Input[cur[g]])
  /\ pc[g] # "join" => Resting(task[g])
  /\ pc[g] \in {"print", "write"} => Complete(list[g], Input[cur[g]])
  /\ pc[g] \in {"lock", "pop", "take", "recommend", "exit"} => list[g] = <<>>

Lists ==
  /\ DOMAIN list = Groups
  /\ task \in [Groups -> [Nodes -> {"none", "begin", "second", "merge", "done"}]]
  /\ \A g \in Groups : ListOf(g)

\* The process ends by itself only for a request that finds nothing.
Survives ==
  /\ server \in {"running", "ended", "failed", "crashed"}
  /\ server = "crashed" => \E r \in Requests : FoundFor[r] = <<>>

LEMMA RequestsAsk ==
  ASSUME NEW r \in Requests
  PROVE  /\ Input[r] \in Lines /\ FoundFor[r] = FoundIn(Input[r])
         /\ Answers[r] = Answer(Input[r])
  <1>1. Input[r] \in Lines
    BY RequestsAssumption DEF Requests, num_of_reqs
  <1> QED BY <1>1 DEF FoundFor, FoundIn, Answers

LEMMA ListsStart ==
  ASSUME Init
  PROVE  Lists /\ Survives
  <1>1. /\ pc = [g \in Groups |-> "lock"] /\ list = [g \in Groups |-> <<>>]
        /\ task = [g \in Groups |-> [n \in Nodes |-> "none"]] /\ server = "running"
    BY DEF Init
  <1> QED BY <1>1 DEF Lists, ListOf, Resting, Survives

\* A step of one Group thread, or of the tree below it, leaves the others alone.
LEMMA OthersKeep ==
  ASSUME Lists, NEW g \in Groups, ListOf(g)',
         DOMAIN list' = Groups,
         task' \in [Groups -> [Nodes -> {"none", "begin", "second", "merge", "done"}]],
         \A h \in Groups : h # g => /\ pc'[h] = pc[h] /\ cur'[h] = cur[h]
                                    /\ list'[h] = list[h] /\ task'[h] = task[h]
  PROVE  Lists'
  <1>1. \A h \in Groups : h # g => ListOf(h)'
    BY DEF Lists, ListOf
  <1> QED BY <1>1 DEF Lists

LEMMA GroupLists ==
  ASSUME FrontInv, Lists, Survives, NEW g \in Groups, GroupStep(g), server = "running"
  PROVE  Lists' /\ Survives'
  <1> DEFINE States == {"none", "begin", "second", "merge", "done"}
             PCs == {"lock", "pop", "take", "recommend", "join", "print", "write", "exit"}
  <1>1. /\ pc \in [Groups -> PCs] /\ cur \in [Groups -> Nat] /\ DOMAIN list = Groups
        /\ task \in [Groups -> [Nodes -> States]]
        /\ ListOf(g)
    BY DEF FrontInv, Types, Lists
  <1>2. pc[g] \in {"recommend", "join", "print", "write"} => cur[g] \in Requests
    BY DEF FrontInv, Taking, Working
  <1> HIDE DEF States, PCs
  <1>3. CASE Lock(g) \/ pop(g) \/ Take(g)
    <2>1. /\ pc[g] \in {"lock", "pop", "take"} /\ UNCHANGED <<list, task, server>>
          /\ \E to \in {"pop", "take", "recommend", "exit"} : pc' = [pc EXCEPT ![g] = to]
          /\ \A h \in Groups : h # g => cur'[h] = cur[h]
      BY <1>1, <1>3 DEF Lock, pop, Take
    <2>2. ListOf(g)'
      BY <1>1, <2>1 DEF ListOf
    <2>3. \A h \in Groups : h # g => pc'[h] = pc[h]
      BY <1>1, <2>1
    <2>4. Lists'
      BY <1>1, <2>1, <2>2, <2>3, OthersKeep DEF States
    <2> QED BY <2>1, <2>4 DEF Survives
  <1>4. CASE RecommendShort(g)
    <2>1. /\ pc[g] = "recommend" /\ cur[g] \in Requests /\ UNCHANGED <<cur, task>>
      BY <1>2, <1>4 DEF RecommendShort
    <2>2. CASE FoundFor[cur[g]] = <<>>
      <3>1. server' = "crashed" /\ UNCHANGED <<list, pc>>
        BY <1>4, <2>2 DEF RecommendShort
      <3>2. Lists'
        BY <2>1, <3>1 DEF Lists, ListOf
      <3> QED BY <2>1, <2>2, <3>1, <3>2 DEF Survives, Requests, FoundFor
    <2>3. CASE FoundFor[cur[g]] # <<>>
      <3>1. /\ list' = [list EXCEPT ![g] = sort(FoundFor[cur[g]])]
            /\ pc' = [pc EXCEPT ![g] = "print"] /\ server' = server
        BY <1>4, <2>3 DEF RecommendShort
      <3>2. Complete(sort(FoundFor[cur[g]]), Input[cur[g]])
        BY <2>1, RequestsAsk, ShortKeeps
      <3>3. ListOf(g)'
        <4>1. list'[g] = sort(FoundFor[cur[g]]) /\ pc'[g] = "print"
          BY <1>1, <3>1
        <4>2. Resting(task[g])
          BY <1>1, <2>1 DEF ListOf
        <4> QED BY <2>1, <3>2, <4>1, <4>2 DEF ListOf
      <3>4. \A h \in Groups : h # g => pc'[h] = pc[h] /\ list'[h] = list[h]
        BY <1>1, <3>1
      <3>5. DOMAIN list' = Groups
        BY <1>1, <3>1
      <3>6. Lists'
        BY <1>1, <2>1, <3>3, <3>4, <3>5, OthersKeep DEF States
      <3> QED BY <3>1, <3>6 DEF Survives
    <2> QED BY <2>2, <2>3
  <1>5. CASE RecommendLong(g)
    <2> DEFINE start == [n \in Nodes |-> IF n = <<>> THEN "begin" ELSE "none"]
    <2>1. /\ pc[g] = "recommend" /\ cur[g] \in Requests /\ UNCHANGED <<cur, server>>
          /\ Len(FoundFor[cur[g]]) >= mergeThread
          /\ list' = [list EXCEPT ![g] = FoundFor[cur[g]]]
          /\ task' = [task EXCEPT ![g] = start] /\ pc' = [pc EXCEPT ![g] = "join"]
      BY <1>2, <1>5 DEF RecommendLong, IsLong
    <2>2. AtWork(FoundFor[cur[g]], start, Input[cur[g]])
      BY <2>1, RequestsAsk, LongStarts
    <2>3. start \in [Nodes -> States]
      BY DEF States
    <2> HIDE DEF start
    <2>4. task' \in [Groups -> [Nodes -> States]] /\ DOMAIN list' = Groups
      BY <1>1, <2>1, <2>3
    <2>5. ListOf(g)'
      <3>1. list'[g] = FoundFor[cur[g]] /\ task'[g] = start /\ pc'[g] = "join"
        BY <1>1, <2>1
      <3> QED BY <2>1, <2>2, <3>1 DEF ListOf
    <2>6. \A h \in Groups : h # g => pc'[h] = pc[h] /\ list'[h] = list[h] /\ task'[h] = task[h]
      BY <1>1, <2>1
    <2>7. Lists'
      BY <2>1, <2>4, <2>5, <2>6, OthersKeep DEF States
    <2> QED BY <2>1, <2>7 DEF Survives
  <1>6. CASE Join(g)
    <2>1. /\ pc[g] = "join" /\ cur[g] \in Requests /\ UNCHANGED <<cur, list, task, server>>
          /\ task[g][<<>>] = "done" /\ pc' = [pc EXCEPT ![g] = "print"]
      BY <1>2, <1>6 DEF Join
    <2>2. AtWork(list[g], task[g], Input[cur[g]])
      BY <1>1, <2>1 DEF ListOf
    <2>3. Complete(list[g], Input[cur[g]]) /\ \A n \in Nodes : task[g][n] = "done"
      BY <2>1, <2>2, RequestsAsk, WorkCompletes
    <2>4. pc'[g] = "print" /\ \A h \in Groups : h # g => pc'[h] = pc[h]
      BY <1>1, <2>1
    <2>5. Resting(task[g])
      BY <1>1, <2>3 DEF Resting, States
    <2>6. ListOf(g)'
      BY <2>1, <2>3, <2>4, <2>5 DEF ListOf
    <2>7. Lists'
      BY <1>1, <2>1, <2>4, <2>6, OthersKeep DEF States
    <2> QED BY <2>1, <2>7 DEF Survives
  <1>7. CASE Open(g)
    <2>1. /\ pc[g] = "print" /\ UNCHANGED <<cur, list, task, server>>
          /\ pc' = [pc EXCEPT ![g] = "write"]
      BY <1>7 DEF Open
    <2>2. pc'[g] = "write" /\ \A h \in Groups : h # g => pc'[h] = pc[h]
      BY <1>1, <2>1
    <2>3. ListOf(g)'
      BY <1>1, <2>1, <2>2 DEF ListOf
    <2>4. Lists'
      BY <1>1, <2>1, <2>2, <2>3, OthersKeep DEF States
    <2> QED BY <2>1, <2>4 DEF Survives
  <1>8. CASE Output(g)
    <2>1. /\ pc[g] = "write" /\ UNCHANGED <<cur, task, server>>
          /\ \/ pc' = [pc EXCEPT ![g] = "lock"] /\ list' = [list EXCEPT ![g] = <<>>]
             \/ UNCHANGED <<pc, list>>
      BY <1>8 DEF Output
    <2>2. CASE pc' = [pc EXCEPT ![g] = "lock"] /\ list' = [list EXCEPT ![g] = <<>>]
      <3>1. /\ pc'[g] = "lock" /\ list'[g] = <<>>
            /\ \A h \in Groups : h # g => pc'[h] = pc[h] /\ list'[h] = list[h]
            /\ DOMAIN list' = Groups
        BY <1>1, <2>2
      <3>2. ListOf(g)'
        BY <1>1, <2>1, <3>1 DEF ListOf
      <3>3. Lists'
        BY <1>1, <2>1, <3>1, <3>2, OthersKeep DEF States
      <3> QED BY <2>1, <3>3 DEF Survives
    <2>3. CASE UNCHANGED <<pc, list>>
      BY <2>1, <2>3 DEF Lists, ListOf, Survives
    <2> QED BY <2>1, <2>2, <2>3
  <1> QED BY <1>3, <1>4, <1>5, <1>6, <1>7, <1>8 DEF GroupStep

LEMMA TaskLists ==
  ASSUME FrontInv, Lists, Survives, NEW g \in Groups, NEW n \in Nodes, TaskStep(g, n), server = "running"
  PROVE  Lists' /\ Survives'
  <1> DEFINE States == {"none", "begin", "second", "merge", "done"}
             line == Input[cur[g]]
             T == task[g]
             a == list[g]
  <1>1. /\ DOMAIN list = Groups /\ task \in [Groups -> [Nodes -> States]] /\ ListOf(g)
    BY DEF Lists
  <1>2. task[g][n] \notin {"none", "done"}
    BY DEF TaskStep, Divide, CreateFails, SortHalf, Merge
  <1>3. pc[g] = "join" /\ AtWork(a, T, line)
    BY <1>1, <1>2 DEF ListOf, Resting
  <1>4. ASSUME UNCHANGED <<pc, cur, server>>, NEW b, NEW U, AtWork(b, U, line),
               list' = [list EXCEPT ![g] = b], task' = [task EXCEPT ![g] = U]
        PROVE  Lists' /\ Survives'
    <2>1. U \in [Nodes -> States]
      BY <1>4, WorkHas
    <2> HIDE DEF States
    <2>2. DOMAIN list' = Groups /\ task' \in [Groups -> [Nodes -> States]]
      BY <1>1, <1>4, <2>1
    <2>3. /\ list'[g] = b /\ task'[g] = U
          /\ \A h \in Groups : h # g => list'[h] = list[h] /\ task'[h] = task[h]
      BY <1>1, <1>4
    <2>4. ListOf(g)'
      BY <1>3, <1>4, <2>3 DEF ListOf
    <2>5. Lists'
      BY <1>4, <2>2, <2>3, <2>4, OthersKeep DEF States
    <2> QED BY <1>4, <2>5 DEF Survives
  <1> HIDE DEF States, line, T, a
  <1>5. CASE Divide(g, n)
    <2> DEFINE U == [k \in Nodes |-> IF k = n THEN "merge" ELSE IF k \in Halves(n) THEN "begin" ELSE T[k]]
    <2>1. /\ T[n] = "begin" /\ ~IsLeaf(n) /\ UNCHANGED <<pc, cur, list, server>>
          /\ task' = [task EXCEPT ![g] = U]
      BY <1>5 DEF Divide, T
    <2>2. AtWork(a, U, line)
      BY <1>3, <2>1, DivideWorks
    <2> HIDE DEF U
    <2>3. U \in [Nodes -> States]
      BY <2>2, WorkHas DEF States
    <2>4. DOMAIN list' = Groups /\ task' \in [Groups -> [Nodes -> States]]
      BY <1>1, <2>1, <2>3
    <2>5. task'[g] = U /\ \A h \in Groups : h # g => task'[h] = task[h]
      BY <1>1, <2>1
    <2>6. ListOf(g)'
      BY <1>3, <2>1, <2>2, <2>5 DEF ListOf, a, line
    <2>7. Lists'
      BY <2>1, <2>4, <2>5, <2>6, OthersKeep DEF States
    <2> QED BY <2>1, <2>7 DEF Survives
  <1>6. CASE CreateFails(g, n)
    <2>1. UNCHANGED <<pc, cur, list, task>> /\ server' = "failed"
      BY <1>6 DEF CreateFails
    <2> QED BY <2>1 DEF Lists, ListOf, Survives
  <1>7. CASE SortHalf(g, n)
    <2>1. PICK half \in {"begin", "second"} :
            LET sl == IF half = "begin" THEN FirstHalf(Slice(n, Len(list[g]))) ELSE SecondHalf(Slice(n, Len(list[g]))) IN
            /\ task[g][n] = half
            /\ IF IsEmpty(sl)
               THEN server' = "crashed" /\ UNCHANGED <<list, task>>
               ELSE /\ list' = [list EXCEPT ![g] = SortedAt(@, sl)]
                    /\ task' = [task EXCEPT ![g][n] = IF half = "begin" THEN "second" ELSE "merge"]
                    /\ UNCHANGED server
      BY <1>7 DEF SortHalf
    <2>2. IsLeaf(n) /\ UNCHANGED <<pc, cur>>
      BY <1>7 DEF SortHalf
    <2>3. PICK sl : sl = IF half = "begin" THEN FirstHalf(Slice(n, Len(a))) ELSE SecondHalf(Slice(n, Len(a)))
      OBVIOUS
    <2> DEFINE U == [T EXCEPT ![n] = IF half = "begin" THEN "second" ELSE "merge"]
    <2>4. ~IsEmpty(sl) /\ AtWork(SortedAt(a, sl), U, line)
      BY <1>3, <2>1, <2>2, <2>3, SortHalfWorks DEF T
    <2>5. /\ list' = [list EXCEPT ![g] = SortedAt(a, sl)]
          /\ task' = [task EXCEPT ![g] = U]
          /\ server' = server
      BY <2>1, <2>3, <2>4 DEF a, T
    <2> QED BY <1>4, <2>2, <2>4, <2>5
  <1>8. CASE Merge(g, n)
    <2>1. /\ T[n] = "merge" /\ \A k \in Halves(n) : T[k] = "done"
          /\ UNCHANGED <<pc, cur, server>>
          /\ list' = [list EXCEPT ![g] = MergedAt(a, Slice(n, Len(a)))]
          /\ task' = [task EXCEPT ![g] = [T EXCEPT ![n] = "done"]]
      BY <1>8 DEF Merge, Joined, T, a
    <2>2. AtWork(MergedAt(a, Slice(n, Len(a))), [T EXCEPT ![n] = "done"], line)
      BY <1>3, <2>1, MergeWorks
    <2> QED BY <1>4, <2>1, <2>2
  <1> QED BY <1>5, <1>6, <1>7, <1>8 DEF TaskStep

LEMMA ListsKeep ==
  ASSUME FrontInv, Lists, Survives, [Next]_vars
  PROVE  Lists' /\ Survives'
  <1>1. CASE Return \/ Stopped \/ UNCHANGED vars
    <2>1. UNCHANGED <<pc, cur, list, task>> /\ (server' = server \/ server' = "ended")
      BY <1>1 DEF Return, Stopped, vars
    <2> QED BY <2>1 DEF Lists, ListOf, Survives
  <1> QED BY <1>1, GroupLists, TaskLists DEF Next, Running

-------------------------------------------------------------------------------
(* What is printed and what is in the files. *)

\* out[r] is a part of the answer from its beginning, all of it once nobody works
\* on r; the file is open and empty until the process ends and it is flushed.
PageOf(r) ==
  /\ out[r] = {} \/ \E n \in 0..Len(Answers[r]) : out[r] = {SubSeq(Answers[r], 1, n)}
  /\ Done(r) => out[r] = {Answers[r]}
  /\ \/ file[r] = {} \/ (file[r] = {<<>>} /\ out[r] # {})
     \/ server # "running" /\ file[r] = out[r]

Pages == DOMAIN file = Requests /\ \A r \in Requests : PageOf(r)

LEMMA Beginning ==
  ASSUME NEW len \in Nat, NEW s, s = [k \in 1..len |-> s[k]], NEW n \in 0..len
  PROVE  /\ Len(s) = len
         /\ SubSeq(s, 1, n) = [k \in 1..n |-> s[k]] /\ Len(SubSeq(s, 1, n)) = n
         /\ n = len => SubSeq(s, 1, n) = s
  <1> DEFINE S == {s[k] : k \in 1..len}
  <1>1. s \in [1..len -> S]
    <2>1. \A k \in 1..len : s[k] \in S
      OBVIOUS
    <2> HIDE DEF S
    <2>2. [k \in 1..len |-> s[k]] \in [1..len -> S]
      BY <2>1
    <2> QED BY <2>2
  <1> HIDE DEF S
  <1>2. s \in Seq(S) /\ Len(s) = len
    BY <1>1
  <1>3. SubSeq(s, 1, n) = [k \in 1..n |-> s[k]]
    BY <1>2
  <1> QED BY <1>2, <1>3

LEMMA AnswersAreLists ==
  ASSUME NEW r \in Requests
  PROVE  /\ Len(Answers[r]) \in Nat
         /\ Answers[r] = [i \in 1..Len(Answers[r]) |-> Answers[r][i]]
  <1>1. PICK n, e : Finds(Input[r], n, e)
    BY RequestsAsk, FoundIs
  <1>2. n \in Nat
    BY <1>1 DEF Finds, Chosen
  <1>3. PICK w : Answer(Input[r]) = [i \in 1..n |-> [title |-> Rows[w[i]].title, marks |-> 1]]
    <2>1. PICK l \in Lines : l = Input[r]
      BY RequestsAsk
    <2>2. PICK w : AnsweredBy(w, l, n)
      BY <1>1, <2>1, AnswerIs
    <2> QED BY <2>1, <2>2 DEF AnsweredBy
  <1>4. Len(Answers[r]) = n
    <2>1. PICK s : s = Answers[r]
      OBVIOUS
    <2>2. s = [i \in 1..n |-> s[i]]
      BY <1>3, <2>1, RequestsAsk
    <2> QED BY <1>2, <2>1, <2>2, Beginning
  <1>5. Answers[r] = [i \in 1..n |-> Answers[r][i]]
    BY <1>3, RequestsAsk
  <1> QED BY <1>2, <1>4, <1>5

\* What shows the beginning of a list is the beginning of what shows it.
LEMMA ShownBegins ==
  ASSUME NEW a, NEW line, Complete(a, line), NEW n \in 1..Len(a)
  PROVE  /\ Len(a) \in Nat /\ Len(Answer(line)) = Len(a)
         /\ Shown(SubSeq(a, 1, n)) = SubSeq(Answer(line), 1, n)
         /\ n = Len(a) => Shown(SubSeq(a, 1, n)) = Answer(line)
  <1>1. PICK len \in Nat : a \in [1..len -> Movie]
    BY DEF Complete
  <1>2. Len(a) = len /\ n \in 1..len
    BY <1>1
  <1>3. Shown(a) = [k \in 1..len |-> [title |-> a[k].title, marks |-> a[k].secrets]]
    BY <1>2 DEF Shown
  <1>4. Shown(SubSeq(a, 1, n)) = [k \in 1..n |-> [title |-> a[k].title, marks |-> a[k].secrets]]
    <2>1. SubSeq(a, 1, n) = [k \in 1..n |-> a[k]] /\ Len(SubSeq(a, 1, n)) = n
      BY <1>1, <1>2, Beginning
    <2> QED BY <2>1 DEF Shown
  <1>5. SubSeq(Shown(a), 1, n) = [k \in 1..n |-> [title |-> a[k].title, marks |-> a[k].secrets]]
    <2>1. PICK s : s = Shown(a)
      OBVIOUS
    <2>2. s = [k \in 1..len |-> s[k]]
      BY <1>3, <2>1
    <2>3. SubSeq(s, 1, n) = [k \in 1..n |-> s[k]]
      BY <1>2, <2>2, Beginning
    <2> QED BY <1>2, <1>3, <2>1, <2>3
  <1>6. Len(Shown(a)) = len
    BY <1>3
  <1>7. Shown(a) = Answer(line)
    BY DEF Complete
  <1> QED BY <1>2, <1>3, <1>4, <1>5, <1>6, <1>7

LEMMA PagesStart ==
  ASSUME Init
  PROVE  Pages
  <1>1. out = [r \in Requests |-> {}] /\ file = [r \in Requests |-> {}]
    BY DEF Init
  <1> QED BY <1>1 DEF Pages, PageOf, Done

\* While nothing is printed and nobody gives up a request.
LEMMA PagesQuiet ==
  ASSUME Pages, server = "running", UNCHANGED <<out, file>>,
         \A g \in Groups : Working(g) => Working(g)' /\ cur'[g] = cur[g]
  PROVE  Pages'
  <1>1. SUFFICES ASSUME NEW r \in Requests
                 PROVE  PageOf(r)'
    BY DEF Pages, Requests, num_of_reqs
  <1>2. Done(r)' => Done(r)
    BY DEF Done
  <1>3. PageOf(r) /\ Answers' = Answers
    BY DEF Pages, Answers, Requests, num_of_reqs
  <1> QED BY <1>2, <1>3 DEF PageOf

\* One request is printed, the others are not touched.
LEMMA PagesPrint ==
  ASSUME FrontInv, Pages, server = "running", NEW g \in Groups, Working(g), cur' = cur,
         \A h \in Groups : h # g => (Working(h)' <=> Working(h)),
         NEW n \in 0..Len(Answers[cur[g]]),
         out' = [out EXCEPT ![cur[g]] = {SubSeq(Answers[cur[g]], 1, n)}],
         Working(g)' \/ SubSeq(Answers[cur[g]], 1, n) = Answers[cur[g]],
         file' = file \/ file' = [file EXCEPT ![cur[g]] = {<<>>}]
  PROVE  Pages'
  <1>1. cur[g] \in Requests /\ DOMAIN out = Requests /\ DOMAIN file = Requests
    BY DEF FrontInv, Types, Taking, Pages
  <1>2. Answers' = Answers /\ Requests' = Requests
    BY DEF Answers, Requests, num_of_reqs
  <1>3. DOMAIN file' = Requests
    BY <1>1
  <1>4. ASSUME NEW r \in Requests, r # cur[g]
        PROVE  PageOf(r)'
    <2>1. out'[r] = out[r] /\ file'[r] = file[r]
      BY <1>1, <1>4
    <2>2. Done(r)' => Done(r)
      BY <1>4, <2>1 DEF Done
    <2>3. PageOf(r)
      BY DEF Pages
    <2> QED BY <1>2, <2>1, <2>2, <2>3 DEF PageOf
  <1>5. ASSUME NEW r \in Requests, r = cur[g]
        PROVE  PageOf(r)'
    <2>1. out'[r] = {SubSeq(Answers[r], 1, n)}
      BY <1>1, <1>5
    <2>2. Done(r)' => out'[r] = {Answers[r]}
      BY <1>5, <2>1 DEF Done
    <2>3. file'[r] = {<<>>} \/ file'[r] = file[r]
      BY <1>1, <1>5
    <2>4. PageOf(r)
      BY DEF Pages
    <2>5. out'[r] # {} /\ n \in 0..Len(Answers[r])
      BY <1>5, <2>1
    <2> QED BY <1>2, <2>1, <2>2, <2>3, <2>4, <2>5 DEF PageOf
  <1> QED BY <1>2, <1>3, <1>4, <1>5 DEF Pages

LEMMA PagesKeep ==
  ASSUME FrontInv, Lists, Pages, [Next]_vars
  PROVE  Pages'
  <1>1. pc \in [Groups -> {"lock", "pop", "take", "recommend", "join", "print", "write", "exit"}]
        /\ DOMAIN cur = Groups
    BY DEF FrontInv, Types
  <1>2. ASSUME server = "running", NEW g \in Groups, Lock(g) \/ pop(g) \/ Take(g)
        PROVE  Pages'
    <2>1. /\ pc[g] \in {"lock", "pop", "take"} /\ UNCHANGED <<out, file>>
          /\ \E to \in {"pop", "take", "recommend", "exit"} : pc' = [pc EXCEPT ![g] = to]
          /\ \A h \in Groups : h # g => cur'[h] = cur[h]
      BY <1>1, <1>2 DEF Lock, pop, Take
    <2>2. \A h \in Groups : Working(h) => Working(h)' /\ cur'[h] = cur[h]
      BY <1>1, <2>1 DEF Working
    <2> QED BY <1>2, <2>1, <2>2, PagesQuiet
  <1>3. ASSUME server = "running", NEW g \in Groups, RecommendShort(g) \/ RecommendLong(g) \/ Join(g)
        PROVE  Pages'
    <2>1. /\ UNCHANGED <<cur, out, file>>
          /\ pc' = pc \/ \E to \in {"join", "print"} : pc' = [pc EXCEPT ![g] = to]
      BY <1>3 DEF RecommendShort, RecommendLong, Join
    <2>2. \A h \in Groups : Working(h) => Working(h)' /\ cur'[h] = cur[h]
      BY <1>1, <2>1 DEF Working
    <2> QED BY <1>3, <2>1, <2>2, PagesQuiet
  <1>4. ASSUME server = "running", NEW g \in Groups, Open(g)
        PROVE  Pages'
    <2>1. /\ pc[g] = "print" /\ pc' = [pc EXCEPT ![g] = "write"] /\ cur' = cur
          /\ out' = [out EXCEPT ![cur[g]] = {<<>>}] /\ file' = [file EXCEPT ![cur[g]] = {<<>>}]
      BY <1>4 DEF Open
    <2>2. Working(g) /\ Working(g)' /\ \A h \in Groups : h # g => (Working(h)' <=> Working(h))
      BY <1>1, <2>1 DEF Working
    <2>3. cur[g] \in Requests
      BY <2>2 DEF FrontInv, Taking
    <2>4. 0 \in 0..Len(Answers[cur[g]]) /\ SubSeq(Answers[cur[g]], 1, 0) = <<>>
      BY <2>3, AnswersAreLists
    <2>5. out' = [out EXCEPT ![cur[g]] = {SubSeq(Answers[cur[g]], 1, 0)}]
      BY <2>1, <2>4
    <2> QED BY <1>4, <2>1, <2>2, <2>4, <2>5, PagesPrint
  <1>5. ASSUME server = "running", NEW g \in Groups, Output(g)
        PROVE  Pages'
    <2> DEFINE r == cur[g]
               a == list[g]
    <2>1. /\ pc[g] = "write" /\ cur' = cur /\ file' = file
          /\ Working(g) /\ r \in Requests /\ Complete(a, Input[r])
      BY <1>5 DEF Output, Working, FrontInv, Taking, Lists, ListOf
    <2>2. PICK s \in out[r] : \E n \in (Len(s) + 1)..Len(a) :
            /\ out' = [out EXCEPT ![r] = {Shown(SubSeq(a, 1, n))}]
            /\ IF n = Len(a) THEN pc' = [pc EXCEPT ![g] = "lock"] ELSE UNCHANGED pc
      BY <1>5 DEF Output
    <2>3. PICK n \in (Len(s) + 1)..Len(a) :
            /\ out' = [out EXCEPT ![r] = {Shown(SubSeq(a, 1, n))}]
            /\ IF n = Len(a) THEN pc' = [pc EXCEPT ![g] = "lock"] ELSE UNCHANGED pc
      BY <2>2
    <2> HIDE DEF r, a
    <2>4. Len(s) \in Nat
      <3>1. PageOf(r) /\ out[r] # {}
        BY <2>1, <2>2 DEF Pages
      <3>2. PICK m \in 0..Len(Answers[r]) : s = SubSeq(Answers[r], 1, m)
        BY <2>2, <3>1 DEF PageOf
      <3>3. PICK t : t = Answers[r]
        OBVIOUS
      <3>4. t = [k \in 1..Len(t) |-> t[k]] /\ Len(t) \in Nat
        BY <2>1, <3>3, AnswersAreLists
      <3>5. Len(SubSeq(t, 1, m)) = m
        BY <3>2, <3>3, <3>4, Beginning
      <3> QED BY <3>2, <3>3, <3>5
    <2>5. Answers[r] = Answer(Input[r]) /\ Len(a) \in Nat
      <3>1. PICK len \in Nat : a \in [1..len -> Movie]
        BY <2>1 DEF Complete
      <3> QED BY <2>1, <3>1, RequestsAsk
    <2>6. n \in 1..Len(a)
      BY <2>4, <2>5
    <2>7. /\ Len(Answers[r]) = Len(a)
          /\ Shown(SubSeq(a, 1, n)) = SubSeq(Answers[r], 1, n)
          /\ n = Len(a) => SubSeq(Answers[r], 1, n) = Answers[r]
      <3>1. PICK l : l = Input[r]
        OBVIOUS
      <3>2. Complete(a, l) /\ Answers[r] = Answer(l)
        BY <2>1, <2>5, <3>1
      <3>3. /\ Len(Answer(l)) = Len(a)
            /\ Shown(SubSeq(a, 1, n)) = SubSeq(Answer(l), 1, n)
            /\ n = Len(a) => Shown(SubSeq(a, 1, n)) = Answer(l)
        BY <2>6, <3>2, ShownBegins
      <3> QED BY <3>2, <3>3
    <2>8. n \in 0..Len(Answers[r])
      BY <2>5, <2>6, <2>7
    <2>9. \A h \in Groups : h # g => (Working(h)' <=> Working(h))
      BY <1>1, <2>3 DEF Working
    <2>10. Working(g)' \/ SubSeq(Answers[r], 1, n) = Answers[r]
      BY <2>1, <2>3, <2>7 DEF Working
    <2>11. out' = [out EXCEPT ![r] = {SubSeq(Answers[r], 1, n)}]
      BY <2>3, <2>7
    <2> QED BY <1>5, <2>1, <2>8, <2>9, <2>10, <2>11, PagesPrint DEF r
  <1>6. ASSUME UNCHANGED <<pc, cur, out>>, file' = out, server' # "running"
        PROVE  Pages'
    <2>1. DOMAIN file' = Requests' /\ Answers' = Answers /\ Requests' = Requests
      BY <1>6 DEF FrontInv, Types, Answers, Requests, num_of_reqs
    <2>2. \A r \in Requests : Done(r)' <=> Done(r)
      BY <1>6 DEF Done, Working
    <2> QED BY <1>6, <2>1, <2>2 DEF Pages, PageOf
  <1>7. ASSUME server = "running", NEW g \in Groups, NEW n \in Nodes, Divide(g, n) \/ SortHalf(g, n) \/ Merge(g, n)
        PROVE  Pages'
    <2>1. UNCHANGED <<pc, cur, out, file>>
      BY <1>7 DEF Divide, SortHalf, Merge
    <2>2. \A h \in Groups : Working(h) => Working(h)' /\ cur'[h] = cur[h]
      BY <2>1 DEF Working
    <2> QED BY <1>7, <2>1, <2>2, PagesQuiet
  <1>8. CASE UNCHANGED vars
    <2>1. \A r \in Requests : Done(r)' <=> Done(r)
      BY <1>8 DEF Done, Working, vars
    <2>2. Answers' = Answers /\ Requests' = Requests
      BY DEF Answers, Requests, num_of_reqs
    <2> QED BY <1>8, <2>1, <2>2 DEF Pages, PageOf, vars
  <1>9. ASSUME NEW g \in Groups, NEW n \in Nodes, CreateFails(g, n)
        PROVE  Pages'
    BY <1>6, <1>9 DEF CreateFails
  <1>10. CASE Return
    BY <1>6, <1>10 DEF Return
  <1> QED BY <1>2, <1>3, <1>4, <1>5, <1>7, <1>8, <1>9, <1>10 DEF Next, Running, Stopped, GroupStep, TaskStep

-------------------------------------------------------------------------------
(* The theorems. *)

IInv == FrontInv /\ Counted /\ Lists /\ Survives /\ Pages

\* IInv holds in every state, for any threads and requests, any movies and any tree.
THEOREM Invariant == Spec => []IInv
  <1>1. Init => IInv
    BY FrontStarts, CountedStarts, ListsStart, PagesStart DEF IInv
  <1>2. IInv /\ [Next]_vars => IInv'
    BY FrontKeeps, CountedKeeps, ListsKeep, PagesKeep DEF IInv
  <1> QED BY <1>1, <1>2, PTL DEF Spec

\* The front goes past the last request once for every thread at most, and what a
\* thread sorts are movies (server.c:130-174).
THEOREM TypeCorrect == Spec => []TypeOK
  <1>1. ASSUME IInv
        PROVE  TypeOK
    <2>1. /\ front \in Nat /\ cur \in [Groups -> Nat] /\ lock \in Groups \cup {Nobody}
          /\ pc \in [Groups -> {"lock", "pop", "take", "recommend", "join", "print", "write", "exit"}]
      BY <1>1 DEF IInv, FrontInv, Types
    <2>2. PICK c \in Nat : /\ c = Cardinality(Groups) /\ front <= num_of_reqs + c
                           /\ \A g \in Groups : cur[g] <= front
      <3>1. PICK P : P = {g \in Groups : Past(g)}
        OBVIOUS
      <3>2. P \in SUBSET Groups /\ front <= num_of_reqs + Cardinality(P)
        BY <1>1, <3>1 DEF IInv, Counted
      <3>3. /\ IsFiniteSet(P) /\ Cardinality(P) \in Nat /\ Cardinality(Groups) \in Nat
            /\ Cardinality(P) <= Cardinality(Groups)
        BY <3>2, RequestsAssumption, FS_Subset, FS_CardinalityType
      <3>4. front <= num_of_reqs + Cardinality(Groups)
        BY <2>1, <3>2, <3>3, RequestsAreNumbers
      <3> QED BY <1>1, <3>3, <3>4 DEF IInv, Counted
    <2>3. front \in 0..(num_of_reqs + Cardinality(Groups))
      BY <2>1, <2>2, RequestsAreNumbers
    <2>4. cur \in [Groups -> 0..(num_of_reqs + Cardinality(Groups))]
      <3>1. \A g \in Groups : cur[g] \in 0..(num_of_reqs + c)
        BY <2>1, <2>2, RequestsAreNumbers
      <3> QED BY <2>1, <2>2, <3>1
    <2>5. ASSUME NEW g \in Groups, NEW k \in DOMAIN list[g]
          PROVE  list[g][k] \in Movie
      <3>1. ListOf(g)
        BY <1>1 DEF IInv, Lists
      <3>2. CASE pc[g] = "join"
        <4>1. AtWork(list[g], task[g], Input[cur[g]])
          BY <3>1, <3>2 DEF ListOf
        <4>2. \E len \in Nat : list[g] \in [1..len -> Movie]
          BY <4>1, WorkHas
        <4> QED BY <2>5, <4>2
      <3>3. CASE pc[g] \in {"print", "write"}
        <4>1. \E len \in Nat : list[g] \in [1..len -> Movie]
          BY <3>1, <3>3 DEF ListOf, Complete
        <4> QED BY <2>5, <4>1
      <3>4. CASE pc[g] \notin {"join", "print", "write"}
        <4>1. list[g] = <<>>
          BY <2>1, <3>1, <3>4 DEF ListOf
        <4> QED BY <2>5, <4>1
      <3> QED BY <3>2, <3>3, <3>4
    <2> QED BY <1>1, <2>1, <2>3, <2>4, <2>5 DEF TypeOK, IInv, Lists, Survives
  <1> QED BY <1>1, Invariant, PTL

\* Every request that the front has passed is being answered by one thread, has
\* been printed, or is just being taken (server.c:162-174).
THEOREM RequestsTakenOnce == Spec => []TakenOnce
  <1>1. IInv => TakenOnce
    BY DEF IInv, FrontInv
  <1> QED BY <1>1, Invariant, PTL

\* No two threads are between pop and the end of take, which the mutex is for.
THEOREM OneAtTheFront ==
  Spec => [](\A g, h \in Groups : {pc[g], pc[h]} \subseteq {"pop", "take"} => g = h)
  <1>1. IInv => \A g, h \in Groups : {pc[g], pc[h]} \subseteq {"pop", "take"} => g = h
    BY DEF IInv, FrontInv, Holding
  <1> QED BY <1>1, Invariant, PTL

\* If every request finds a movie, the library never gets an empty slice: halved
\* once for every level, mergeThread movies still leave one (server.c:64-72, 140).
THEOREM NothingIsEmpty ==
  Spec => []((\A r \in Requests : FoundFor[r] # <<>>) => SortsSomething)
  <1>1. IInv => ((\A r \in Requests : FoundFor[r] # <<>>) => SortsSomething)
    BY DEF IInv, Survives, SortsSomething
  <1> QED BY <1>1, Invariant, PTL

\* A file never holds anything but the answer to its request from the beginning,
\* and in the end all of it, whatever the threads of the trees and the other Group
\* threads do in between and wherever the process ends (server.c:57-122, 130-158).
THEOREM FilesAreAnswers == Spec => []AnswersRight
  <1>1. ASSUME IInv
        PROVE  AnswersRight
    <2>1. SUFFICES ASSUME NEW r \in Requests
                   PROVE  /\ \A s \in out[r] : Begins(s, Answers[r])
                          /\ Done(r) => out[r] = {Answers[r]}
                          /\ \A s \in file[r] : \E t \in out[r] : Begins(s, t)
      BY DEF AnswersRight
    <2>2. PageOf(r)
      BY <1>1 DEF IInv, Pages
    <2>3. PICK a, len : len \in Nat /\ a = Answers[r] /\ len = Len(a) /\ a = [k \in 1..len |-> a[k]]
      BY AnswersAreLists
    <2>4. \A s \in out[r] : \E n \in 0..len : s = SubSeq(a, 1, n)
      BY <2>2, <2>3 DEF PageOf
    <2>5. \A s \in out[r] : Begins(s, Answers[r])
      BY <2>3, <2>4 DEF Begins
    <2>6. ASSUME NEW s \in out[r]
          PROVE  Begins(s, s) /\ Begins(<<>>, s)
      <3>1. PICK n \in 0..len : s = SubSeq(a, 1, n)
        BY <2>4, <2>6
      <3>2. Len(s) = n /\ s = [k \in 1..n |-> a[k]]
        BY <2>3, <3>1, Beginning
      <3>3. s = [k \in 1..n |-> s[k]]
        BY <3>2
      <3>4. SubSeq(s, 1, n) = s /\ SubSeq(s, 1, 0) = [k \in 1..0 |-> s[k]]
        BY <3>3, Beginning
      <3>5. SubSeq(s, 1, 0) = <<>>
        BY <3>4
      <3>6. n \in 0..Len(s) /\ 0 \in 0..Len(s)
        BY <3>2
      <3> QED BY <3>4, <3>5, <3>6, Zenon DEF Begins
    <2>7. \A s \in file[r] : \E t \in out[r] : Begins(s, t)
      <3>1. CASE file[r] = out[r]
        BY <2>6, <3>1
      <3>2. CASE file[r] \subseteq {<<>>} /\ (file[r] # {} => out[r] # {})
        BY <2>6, <3>2
      <3> QED BY <2>2, <3>1, <3>2 DEF PageOf
    <2> QED BY <2>2, <2>5, <2>7 DEF PageOf
  <1> QED BY <1>1, Invariant, PTL

===============================================================================
