-------------------------- MODULE UserThreads_proofs ---------------------------
(***************************************************************************)
(* Proofs about UserThreads, for any command lines, any width of int and any *)
(* input, where no writer hangs up: with one that does, threads_hangup shows *)
(* that rq_current need not be in the queue.                                 *)
(***************************************************************************)
EXTENDS UserThreads, Recursion

\* The first n slots of an array of threads: what is in them, and that no thread
\* is in two.
InQueue(q, n)  == {q[k] : k \in 0..(n - 1)}
Distinct(q, n) == \A j, k \in 0..(n - 1) : q[j] = q[k] => j = k

\* The queues share out the threads, and rq_current is one of the ready ones
\* unless there is none.
Queues ==
  /\ Distinct(ready_queue, rq_size)
  /\ Ready \cap waiting_queue = {}
  /\ Ready \cup waiting_queue \subseteq Created(arg)
  /\ fdarray = waiting_queue
  /\ pc \notin {"poll", "returned"} => rq_current < rq_size
  /\ pc = "poll" => rq_size = 0

\* Where a thread goes on: at its read if it waits, or has waited and has been
\* given something to read; nowhere if it has left the queues.
Resuming ==
  /\ \A t \in waiting_queue : tcb[t].at = "read"
  /\ \A t \in Ready : tcb[t].at = "read" =>
       fifo[t] # <<>> \/ (pc = "scheduler" /\ src = 2 /\ t = RUNNING)
  /\ \A t \in Created(arg) \ (Ready \cup waiting_queue) : LastRound(t, tcb[t])
  /\ pc = "scheduler" /\ src = 2 => tcb[RUNNING].at = "read"
  /\ pc = "scheduler" /\ src = 3 => LastRound(RUNNING, tcb[RUNNING])

NobodyHungUp == \A t \in Threads : writer[t] # "closed"

IInv == TypeOK /\ Queues /\ Resuming /\ NobodyHungUp

-------------------------------------------------------------------------------
(* The queues as arrays. *)

LEMMA ThreeThreads == /\ Len(Kind) = 3 /\ Threads = {1, 2, 3}
                      /\ 0..(Len(Kind) - 1) = 0..2
  <1>1. Len(Kind) = 3
    BY DEF Kind
  <1> QED BY <1>1 DEF Threads

\* 1 for a member of S, 0 for another.
One(t, S) == IF t \in S THEN 1 ELSE 0

\* The places of the threads of S: each is behind those before it.
LEMMA Positions ==
  ASSUME NEW S \in SUBSET Threads
  PROVE  /\ Position(1, S) = 0
         /\ Position(2, S) = One(1, S)
         /\ Position(3, S) = One(1, S) + One(2, S)
         /\ Cardinality(S) = One(1, S) + One(2, S) + One(3, S)
  <1> DEFINE Below(n) == {u \in S : u < n}
  <1>0. S \subseteq {1, 2, 3}
    BY ThreeThreads
  <1>1. Below(1) = {} /\ Below(4) = S
    <2>1. \A t \in S : ~(t < 1) /\ t < 4
      BY <1>0
    <2> QED BY <2>1
  <1>2. \A n \in {1, 2, 3} : Below(n + 1) = IF n \in S THEN Below(n) \cup {n} ELSE Below(n)
    <2>1. \A n \in {1, 2, 3} : \A t \in S : t < n + 1 <=> t < n \/ t = n
      BY <1>0
    <2>2. \A n \in {1, 2, 3} : ~(n < n) /\ n < n + 1
      OBVIOUS
    <2> QED BY <2>1, <2>2
  <1>3. \A n \in {1, 2, 3} : n \notin Below(n)
    OBVIOUS
  <1> HIDE DEF Below
  <1>4. IsFiniteSet(Below(1)) /\ Cardinality(Below(1)) = 0
    BY <1>1, FS_EmptySet
  <1>5. IsFiniteSet(Below(2)) /\ Cardinality(Below(2)) = One(1, S)
    <2>1. Below(2) = IF 1 \in S THEN Below(1) \cup {1} ELSE Below(1)
      BY <1>2
    <2> QED BY <1>3, <1>4, <2>1, FS_AddElement DEF One
  <1>6. IsFiniteSet(Below(3)) /\ Cardinality(Below(3)) = One(1, S) + One(2, S)
    <2>1. Below(3) = IF 2 \in S THEN Below(2) \cup {2} ELSE Below(2)
      BY <1>2
    <2>2. IsFiniteSet(Below(2) \cup {2})
          /\ Cardinality(Below(2) \cup {2}) = Cardinality(Below(2)) + 1
      BY <1>3, <1>5, FS_AddElement
    <2> QED BY <1>5, <2>1, <2>2 DEF One
  <1>7. Cardinality(Below(4)) = One(1, S) + One(2, S) + One(3, S)
    <2>1. Below(4) = IF 3 \in S THEN Below(3) \cup {3} ELSE Below(3)
      BY <1>2
    <2> QED BY <1>3, <1>6, <2>1, FS_AddElement DEF One
  <1>8. \A n \in {1, 2, 3} : Position(n, S) = Cardinality(Below(n))
    BY DEF Position, Below
  <1> QED BY <1>1, <1>4, <1>5, <1>6, <1>7, <1>8

Slots == 0..2

\* Threads behind the end of the queue join those in it, and nothing else moves.
LEMMA AppendedQueue ==
  ASSUME NEW q \in [Slots -> Threads \cup {NoThread}], NEW n \in 0..3,
         NEW S \in SUBSET Threads, n + Cardinality(S) <= 3,
         Distinct(q, n), InQueue(q, n) \cap S = {}
  PROVE  LET r == Appended(q, n, S)
             m == n + Cardinality(S)
         IN /\ r \in [Slots -> Threads \cup {NoThread}]
            /\ Distinct(r, m)
            /\ InQueue(r, m) = InQueue(q, n) \cup S
            /\ \A k \in 0..(n - 1) : r[k] = q[k]
  <1> DEFINE r == Appended(q, n, S)
             m == n + Cardinality(S)
             P(t) == n + Position(t, S)
  <1>1. /\ P(1) = n /\ P(2) = n + One(1, S) /\ P(3) = n + One(1, S) + One(2, S)
        /\ m = n + One(1, S) + One(2, S) + One(3, S)
    BY Positions DEF One
  <1>2. \A t \in S : P(t) \in n..(m - 1)
    BY <1>1, ThreeThreads DEF One
  <1>3. \A t, u \in S : P(t) = P(u) => t = u
    BY <1>1, ThreeThreads DEF One
  <1>4. \A k \in n..(m - 1) : \E t \in S : P(t) = k
    BY <1>1, ThreeThreads DEF One
  <1>5. DOMAIN r = Slots /\ n \in Nat /\ m \in n..3
    BY <1>1 DEF Appended, One
  <1>6. \A k \in Slots : (\A t \in S : k # P(t)) => r[k] = q[k]
    BY DEF Appended
  <1>7. \A k \in Slots : \A t \in S : k = P(t) => r[k] = t
    BY <1>3 DEF Appended
  <1> HIDE DEF r, m, P
  <1>8. \A k \in 0..(n - 1) : k \in Slots /\ r[k] = q[k]
    BY <1>2, <1>5, <1>6 DEF Slots
  <1>9. \A k \in n..(m - 1) : k \in Slots /\ r[k] \in S /\ P(r[k]) = k
    BY <1>4, <1>5, <1>7 DEF Slots
  <1>10. r \in [Slots -> Threads \cup {NoThread}]
    <2>1. \A k \in Slots : r[k] \in Threads \cup {NoThread}
      BY <1>6, <1>7
    <2>2. r = [k \in Slots |-> r[k]]
      BY <1>5 DEF r, Appended
    <2> QED BY <2>1, <2>2
  <1>11. Distinct(r, m)
    BY <1>5, <1>8, <1>9 DEF Distinct, InQueue
  <1>12. InQueue(r, m) = InQueue(q, n) \cup S
    <2>1. ASSUME NEW t \in S PROVE t \in InQueue(r, m)
      BY <1>2, <1>5, <1>7 DEF InQueue, Slots
    <2> QED BY <2>1, <1>5, <1>8, <1>9 DEF InQueue
  <1> QED BY <1>8, <1>10, <1>11, <1>12 DEF r, m

\* The last thread takes the place of the one at c, which is the only one to leave.
LEMMA FilledQueue ==
  ASSUME NEW q \in [Slots -> Threads \cup {NoThread}], NEW n \in 1..3,
         rq_current \in 0..(n - 1), Distinct(q, n)
  PROVE  LET r == Filled(q, n) IN
         /\ r \in [Slots -> Threads \cup {NoThread}]
         /\ Distinct(r, n - 1)
         /\ InQueue(r, n - 1) = InQueue(q, n) \ {q[rq_current]}
  <1> DEFINE r == Filled(q, n)
  <1>1. /\ r \in [Slots -> Threads \cup {NoThread}]
        /\ r[rq_current] = q[n - 1]
        /\ \A k \in 0..(n - 1) : k # rq_current => r[k] = q[k]
    BY DEF Filled, Slots
  <1> HIDE DEF r
  <1>2. Distinct(r, n - 1)
    BY <1>1 DEF Distinct
  <1>3. InQueue(r, n - 1) \subseteq InQueue(q, n) \ {q[rq_current]}
    BY <1>1 DEF Distinct, InQueue
  <1>4. ASSUME NEW k \in 0..(n - 1), k # rq_current
        PROVE  q[k] \in InQueue(r, n - 1)
    <2>1. CASE k = n - 1
      BY <1>1, <1>4, <2>1 DEF InQueue
    <2>2. CASE k # n - 1
      BY <1>1, <1>4, <2>2 DEF InQueue
    <2> QED BY <2>1, <2>2
  <1>5. InQueue(q, n) \ {q[rq_current]} \subseteq InQueue(r, n - 1)
    BY <1>4 DEF InQueue
  <1> QED BY <1>1, <1>2, <1>3, <1>5 DEF r

\* The array has room for every thread that waits.
LEMMA Room ==
  ASSUME TypeOK, Queues, NEW S \in SUBSET waiting_queue
  PROVE  Cardinality(S) \in Nat /\ rq_size + Cardinality(S) <= 3
  <1>1. S \in SUBSET Threads
    BY DEF TypeOK
  <1>2. Cardinality(S) = One(1, S) + One(2, S) + One(3, S)
    BY <1>1, Positions
  <1>3. \A k \in 0..(rq_size - 1) : ready_queue[k] \in {1, 2, 3} \ S
    BY ThreeThreads DEF Queues, Ready, Created
  <1>4. rq_size \in {0, 1, 2, 3}
    BY ThreeThreads DEF TypeOK
  <1>5. \A j, k \in 0..(rq_size - 1) : ready_queue[j] = ready_queue[k] => j = k
    BY DEF Queues, Distinct
  <1>6. CASE rq_size = 0
    BY <1>2, <1>6 DEF One
  <1>7. CASE rq_size = 1
    <2>1. ready_queue[0] \in {1, 2, 3} \ S
      BY <1>3, <1>7
    <2> QED BY <1>2, <1>7, <2>1 DEF One
  <1>8. CASE rq_size = 2
    <2>1. /\ ready_queue[0] \in {1, 2, 3} \ S /\ ready_queue[1] \in {1, 2, 3} \ S
          /\ ready_queue[0] # ready_queue[1]
      BY <1>3, <1>5, <1>8
    <2> QED BY <1>2, <1>8, <2>1 DEF One
  <1>9. CASE rq_size = 3
    <2>1. /\ ready_queue[0] \in {1, 2, 3} \ S /\ ready_queue[1] \in {1, 2, 3} \ S
          /\ ready_queue[2] \in {1, 2, 3} \ S
          /\ ready_queue[0] # ready_queue[1] /\ ready_queue[0] # ready_queue[2]
          /\ ready_queue[1] # ready_queue[2]
      BY <1>3, <1>5, <1>9
    <2> QED BY <1>2, <1>9, <2>1 DEF One
  <1> QED BY <1>4, <1>6, <1>7, <1>8, <1>9

\* move_queue: the threads with input leave one queue for the other.
LEMMA MovedQueue ==
  ASSUME TypeOK, Queues
  PROVE  LET moved == Moved \cap waiting_queue
             q     == Appended(ready_queue, rq_size, moved)
             n     == rq_size + Cardinality(moved)
         IN /\ moved \in SUBSET Threads /\ n \in rq_size..3
            /\ q \in [Slots -> Threads \cup {NoThread}]
            /\ Distinct(q, n)
            /\ InQueue(q, n) = Ready \cup moved
            /\ \A k \in 0..(rq_size - 1) : q[k] = ready_queue[k]
            /\ fdarray \ Moved = waiting_queue \ moved
            /\ moved = {} => n = rq_size
            /\ moved # {} => n > rq_size
  <1> DEFINE moved == Moved \cap waiting_queue
             n == rq_size + Cardinality(moved)
  <1>1. /\ moved \in SUBSET waiting_queue /\ moved \in SUBSET Threads
        /\ fdarray \ Moved = waiting_queue \ moved
    BY DEF TypeOK, Queues
  <1>2. Cardinality(moved) \in Nat /\ rq_size + Cardinality(moved) <= 3
    BY <1>1, Room
  <1>3. /\ ready_queue \in [Slots -> Threads \cup {NoThread}]
        /\ rq_size \in 0..3
    BY ThreeThreads DEF TypeOK, Slots
  <1>4. Distinct(ready_queue, rq_size) /\ InQueue(ready_queue, rq_size) = Ready
        /\ Ready \cap moved = {}
    BY <1>1 DEF Queues, InQueue, Ready
  <1>5. Cardinality(moved) = 0 <=> moved = {}
    <2>1. Cardinality(moved) = One(1, moved) + One(2, moved) + One(3, moved)
      BY <1>1, Positions
    <2> QED BY <1>1, <2>1, ThreeThreads DEF One
  <1> HIDE DEF moved
  <1>6. LET q == Appended(ready_queue, rq_size, moved) IN
        /\ q \in [Slots -> Threads \cup {NoThread}]
        /\ Distinct(q, n) /\ InQueue(q, n) = Ready \cup moved
        /\ \A k \in 0..(rq_size - 1) : q[k] = ready_queue[k]
    BY <1>1, <1>2, <1>3, <1>4, AppendedQueue
  <1>7. n \in rq_size..3 /\ (moved = {} => n = rq_size) /\ (moved # {} => n > rq_size)
    BY <1>2, <1>3, <1>5
  <1> QED BY <1>1, <1>6, <1>7 DEF moved

-------------------------------------------------------------------------------
(* The threads. *)

TCB == [i : Ints, x : Ints, y : Ints, buf : Ints, at : {"top", "read"}]

\* Whatever an int is given, it holds an int, whole ranges of ints apart.
LEMMA WrapIsInt ==
  ASSUME NEW n \in Int
  PROVE  Wrap(n) \in Ints /\ \E k \in Int : n = (2 * MaxInt + 2) * k + Wrap(n)
  <1> DEFINE M == 2 * MaxInt + 2
             a == n + MaxInt + 1
  <1>1. MaxInt \in Nat /\ M \in Nat \ {0} /\ a \in Int
    BY ProgramAssumption
  <1>3. Wrap(n) = (a % M) - (MaxInt + 1)
    BY DEF Wrap
  <1>4. a % M \in 0..(M - 1) /\ a \div M \in Int /\ a = M * (a \div M) + (a % M)
    <2> HIDE DEF M, a
    <2> QED BY <1>1, Division
  <1>5. Wrap(n) \in Ints
    BY <1>1, <1>3, <1>4 DEF Ints
  <1>6. n = M * (a \div M) + Wrap(n)
    <2> DEFINE b == a \div M
               c == a % M
               d == M * b
    <2>1. a = d + c /\ b \in Int /\ c \in Int /\ d \in Int
      <3> HIDE DEF M, a
      <3>1. M * b \in Int
        BY <1>1, <1>4
      <3> QED BY <1>4, <3>1
    <2> HIDE DEF b, c, d
    <2> QED BY <1>1, <1>3, <2>1 DEF c
  <1> QED BY <1>4, <1>5, <1>6

\* An iteration leaves the variables of a thread well typed, and only a read
\* changes where it resumes.
LEMMA RoundTypes ==
  ASSUME NEW c \in TCB
  PROVE  /\ Fibonacci(c) \in TCB /\ Fibonacci(c).at = c.at
         /\ Collatz(c) \in TCB /\ Collatz(c).at = c.at
         /\ \A num \in Ints : MaxSubarray(c, num) \in TCB /\ MaxSubarray(c, num).at = "top"
  <1>1. Ints \subseteq Int /\ 0 \in Ints /\ 1 \in Ints /\ MaxInt \in Nat
    BY ProgramAssumption DEF Ints
  <1>2. c.i \in Ints /\ c.x \in Ints /\ c.y \in Ints
    BY DEF TCB
  <1>3. Wrap(c.i + 1) \in Ints /\ Wrap(c.x + c.y) \in Ints /\ Wrap(3 * c.i + 1) \in Ints
    <2>1. c.i \in Int /\ c.x \in Int /\ c.y \in Int
      BY <1>1, <1>2
    <2>2. c.i + 1 \in Int /\ c.x + c.y \in Int /\ 3 * c.i + 1 \in Int
      BY <2>1
    <2> QED BY <2>2, WrapIsInt
  <1>4. Fibonacci(c) \in TCB /\ Fibonacci(c).at = c.at
    BY <1>1, <1>2, <1>3 DEF Fibonacci, TCB
  <1>5. Collatz(c) \in TCB /\ Collatz(c).at = c.at
    <2>1. c.i \div 2 \in Ints
      BY <1>1, <1>2 DEF Ints
    <2> QED BY <1>3, <2>1 DEF Collatz, TCB
  <1>6. ASSUME NEW num \in Ints
        PROVE  MaxSubarray(c, num) \in TCB /\ MaxSubarray(c, num).at = "top"
    <2> DEFINE y == Larger(num, Wrap(c.y + num))
    <2>1. c.y \in Int /\ num \in Int
      BY <1>1, <1>2, <1>6
    <2>2. y \in Ints
      <3>1. c.y + num \in Int
        BY <2>1
      <3> QED BY <1>6, <3>1, WrapIsInt DEF Larger
    <2> HIDE DEF y
    <2>3. Larger(c.x, y) \in Ints
      BY <1>2, <2>2 DEF Larger
    <2>4. MaxSubarray(c, num) =
            [c EXCEPT !.y = y, !.x = Larger(c.x, y), !.buf = num, !.at = "top"]
      BY DEF MaxSubarray, y
    <2> QED BY <1>6, <2>2, <2>3, <2>4 DEF TCB
  <1> QED BY <1>4, <1>5, <1>6

\* The running thread is a ready one.
LEMMA RunningIsReady ==
  ASSUME TypeOK, Queues, pc \notin {"poll", "returned"}
  PROVE  RUNNING \in Ready /\ RUNNING \in Threads /\ RUNNING \in Created(arg)
  <1>1. rq_current \in 0..(rq_size - 1)
    BY ThreeThreads DEF TypeOK, Queues
  <1> QED BY <1>1 DEF RUNNING, Ready, Queues, Created

\* What a thread does between two switches disturbs no other.
LEMMA ThreadStep ==
  ASSUME IInv, pc = "run", NEW c \in TCB,
         tcb' = [tcb EXCEPT ![RUNNING] = c],
         UNCHANGED <<arg, queueVars, signalVars, written, writer>>,
         fifo' \in [Threads -> Seq(Items)],
         \A t \in Threads \ {RUNNING} : fifo'[t] = fifo[t],
         pc' \in {"scheduler", "tstp_window"}, src' \in 1..3,
         c.at = "read" => fifo'[RUNNING] # <<>> \/ (pc' = "scheduler" /\ src' = 2),
         pc' = "scheduler" /\ src' = 2 => c.at = "read",
         pc' = "scheduler" /\ src' = 3 => LastRound(RUNNING, c)
  PROVE  IInv'
  <1>1. /\ RUNNING \in Ready /\ RUNNING \in Threads
        /\ RUNNING' = RUNNING /\ Ready' = Ready
    BY RunningIsReady DEF IInv, RUNNING, Ready, queueVars
  <1>2. /\ tcb'[RUNNING] = c
        /\ \A t \in Threads \ {RUNNING} : tcb'[t] = tcb[t]
    BY <1>1 DEF IInv, TypeOK
  <1>3. TypeOK'
    <2>1. tcb' \in [Threads -> TCB]
      BY <1>1 DEF IInv, TypeOK, TCB
    <2> QED BY <2>1 DEF IInv, TypeOK, TCB, queueVars, signalVars
  <1>4. Queues'
    BY <1>1 DEF IInv, Queues, queueVars
  <1>5. Resuming'
    <2>1. \A t \in waiting_queue : t # RUNNING /\ t \in Threads
      BY <1>1 DEF IInv, Queues, TypeOK
    <2>2. \A t \in Threads \ {RUNNING} : LastRound(t, tcb[t]) = LastRound(t, tcb[t])'
      BY <1>2 DEF LastRound
    <2>3. LastRound(RUNNING, c) = LastRound(RUNNING, tcb[RUNNING])'
      BY <1>1, <1>2 DEF LastRound
    <2>4. Ready \subseteq Threads /\ Created(arg) \subseteq Threads
      BY DEF IInv, Queues, Created
    <2>5. waiting_queue' = waiting_queue /\ Created(arg)' = Created(arg)
      BY DEF queueVars, Created
    <2>6. \A t \in Created(arg) \ (Ready \cup waiting_queue) : LastRound(t, tcb[t])'
      BY <1>1, <2>2, <2>4 DEF IInv, Resuming
    <2>7. \A t \in waiting_queue' : tcb'[t].at = "read"
      BY <1>2, <2>1, <2>5 DEF IInv, Resuming
    <2>8. \A t \in Ready' : tcb'[t].at = "read" =>
            fifo'[t] # <<>> \/ (pc' = "scheduler" /\ src' = 2 /\ t = RUNNING')
      BY <1>1, <1>2, <2>4 DEF IInv, Resuming
    <2> QED BY <1>1, <1>2, <2>3, <2>5, <2>6, <2>7, <2>8 DEF Resuming
  <1>6. NobodyHungUp'
    BY DEF IInv, NobodyHungUp
  <1> QED BY <1>3, <1>4, <1>5, <1>6 DEF IInv

LEMMA ComputeKeeps ==
  ASSUME IInv, Compute
  PROVE  IInv'
  <1>1. RUNNING \in Ready /\ RUNNING \in Threads
    BY RunningIsReady DEF IInv, Compute
  <1>2. tcb[RUNNING] \in TCB
    BY <1>1 DEF IInv, TypeOK, TCB
  <1>3. tcb[RUNNING].at = "read" => fifo[RUNNING] # <<>>
    BY <1>1 DEF IInv, Resuming, Compute
  <1>4. ASSUME NEW c \in TCB, c.at = tcb[RUNNING].at, EndRound(RUNNING, c)
        PROVE  IInv'
    <2>1. /\ UNCHANGED <<arg, queueVars, signalVars, written, writer>>
          /\ fifo' = fifo /\ fifo' \in [Threads -> Seq(Items)] /\ pc = "run"
      BY DEF Compute, fifoVars, IInv, TypeOK
    <2>2. /\ tcb' = [tcb EXCEPT ![RUNNING] = c]
          /\ pc' \in {"scheduler", "tstp_window"} /\ src' \in 1..3
          /\ ~(pc' = "scheduler" /\ src' = 2)
          /\ pc' = "scheduler" /\ src' = 3 => LastRound(RUNNING, c)
      BY <1>4 DEF EndRound, IInv, TypeOK
    <2> QED BY <1>3, <1>4, <2>1, <2>2, ThreadStep
  <1>5. \/ EndRound(RUNNING, Fibonacci(tcb[RUNNING]))
        \/ EndRound(RUNNING, Collatz(tcb[RUNNING]))
    BY DEF Compute
  <1> QED BY <1>2, <1>4, <1>5, RoundTypes

LEMMA AsyncReadKeeps ==
  ASSUME IInv, AsyncRead
  PROVE  IInv'
  <1> DEFINE c == [tcb[RUNNING] EXCEPT !.i = Wrap(@ + 1), !.at = "read"]
  <1>1. RUNNING \in Threads
    BY RunningIsReady DEF IInv, AsyncRead
  <1>2. tcb[RUNNING] \in TCB
    BY <1>1 DEF IInv, TypeOK, TCB
  <1>3. c \in TCB /\ c.at = "read"
    <2>1. tcb[RUNNING].i \in Int
      BY <1>2, ProgramAssumption DEF TCB, Ints
    <2>2. tcb[RUNNING].i + 1 \in Int
      BY <2>1
    <2>3. Wrap(tcb[RUNNING].i + 1) \in Ints
      BY <2>2, WrapIsInt
    <2> QED BY <1>2, <2>3 DEF TCB
  <1>4. tcb' = [tcb EXCEPT ![RUNNING] = c]
    <2>1. tcb' = [tcb EXCEPT ![RUNNING].i = Wrap(@ + 1), ![RUNNING].at = "read"]
      BY DEF AsyncRead
    <2>2. tcb \in [Threads -> TCB]
      BY DEF IInv, TypeOK, TCB
    <2> QED BY <1>1, <2>1, <2>2 DEF TCB
  <1> HIDE DEF c
  <1>5. /\ UNCHANGED <<arg, queueVars, signalVars, written, writer>>
        /\ fifo' = fifo /\ fifo' \in [Threads -> Seq(Items)] /\ pc = "run"
        /\ pc' = "scheduler" /\ src' = 2
    BY DEF AsyncRead, fifoVars, IInv, TypeOK
  <1>6. /\ pc' \in {"scheduler", "tstp_window"} /\ src' \in 1..3
        /\ ~(pc' = "scheduler" /\ src' = 3)
    BY <1>5
  <1> QED BY <1>3, <1>4, <1>5, <1>6, ThreadStep

LEMMA ReadKeeps ==
  ASSUME IInv, Read
  PROVE  IInv'
  <1> DEFINE num == IF fifo[RUNNING] = <<>> THEN tcb[RUNNING].buf ELSE Head(fifo[RUNNING])
             c == MaxSubarray(tcb[RUNNING], num)
  <1>1. RUNNING \in Threads
    BY RunningIsReady DEF IInv, Read
  <1>2. tcb[RUNNING] \in TCB /\ fifo[RUNNING] \in Seq(Items)
    BY <1>1 DEF IInv, TypeOK, TCB
  <1>3. num \in Ints
    <2>1. fifo[RUNNING] # <<>> => Head(fifo[RUNNING]) \in Items
      BY <1>2
    <2> QED BY <1>2, <2>1, ProgramAssumption DEF TCB
  <1>4. c \in TCB /\ c.at = "top"
    BY <1>2, <1>3, RoundTypes
  <1>5. EndRound(RUNNING, c) /\ UNCHANGED <<arg, queueVars, signalVars, written, writer>>
        /\ pc = "run"
    BY DEF Read
  <1>6. /\ fifo' \in [Threads -> Seq(Items)]
        /\ \A t \in Threads \ {RUNNING} : fifo'[t] = fifo[t]
    <2>1. fifo' = [fifo EXCEPT ![RUNNING] = IF @ = <<>> THEN @ ELSE Tail(@)]
      BY DEF Read
    <2>2. (IF fifo[RUNNING] = <<>> THEN fifo[RUNNING] ELSE Tail(fifo[RUNNING])) \in Seq(Items)
      BY <1>2
    <2> QED BY <1>1, <2>1, <2>2 DEF IInv, TypeOK
  <1> HIDE DEF c
  <1>7. /\ tcb' = [tcb EXCEPT ![RUNNING] = c]
        /\ pc' \in {"scheduler", "tstp_window"} /\ src' \in 1..3
        /\ ~(pc' = "scheduler" /\ src' = 2)
        /\ pc' = "scheduler" /\ src' = 3 => LastRound(RUNNING, c)
    BY <1>5 DEF EndRound, IInv, TypeOK
  <1> QED BY <1>4, <1>5, <1>6, <1>7, ThreadStep

\* A step that switches no thread, and takes no input away.
LEMMA QuietStep ==
  ASSUME IInv, TypeOK', NobodyHungUp', UNCHANGED <<arg, queueVars, tcb>>,
         \A t \in Threads : fifo[t] # <<>> => fifo'[t] # <<>>,
         \/ pc' = pc /\ src' = src
         \/ /\ pc \in {"tstp_window", "alrm_window"}
            /\ pc' \in {"scheduler", "alrm_window", "run"}
            /\ pc' = "scheduler" => src' = 1
  PROVE  IInv'
  <1>1. RUNNING' = RUNNING /\ Ready' = Ready /\ Created(arg)' = Created(arg)
    BY DEF RUNNING, Ready, Created, queueVars
  <1>2. Queues'
    BY <1>1 DEF IInv, Queues, queueVars
  <1>3. \A t \in Threads : LastRound(t, tcb[t])' = LastRound(t, tcb[t])
    BY DEF LastRound
  <1>4. Ready \subseteq Threads /\ Created(arg) \subseteq Threads
    BY DEF IInv, Queues, Created
  <1>5. \A t \in Ready' : tcb'[t].at = "read" =>
          fifo'[t] # <<>> \/ (pc' = "scheduler" /\ src' = 2 /\ t = RUNNING')
    BY <1>1, <1>4 DEF IInv, Resuming
  <1>6. \A t \in (Created(arg) \ (Ready \cup waiting_queue))' : LastRound(t, tcb[t])'
    BY <1>1, <1>3, <1>4 DEF IInv, Resuming, queueVars
  <1>7. /\ (pc = "scheduler" /\ src = 2)' => tcb'[RUNNING'].at = "read"
        /\ (pc = "scheduler" /\ src = 3)' => LastRound(RUNNING, tcb[RUNNING])'
    BY <1>1 DEF IInv, Resuming, LastRound
  <1>8. Resuming'
    BY <1>1, <1>5, <1>6, <1>7 DEF IInv, Resuming, queueVars
  <1> QED BY <1>2, <1>8 DEF IInv

LEMMA WindowsKeep ==
  ASSUME IInv, TakeTstp \/ TakeAlrm
  PROVE  IInv'
  <1>1. /\ UNCHANGED <<arg, queueVars, tcb, fifoVars>>
        /\ pc \in {"tstp_window", "alrm_window"}
        /\ pc' \in {"scheduler", "alrm_window", "run"}
        /\ src' \in {src, 1} /\ (pc' = "scheduler" => src' = 1)
        /\ alarm' \in {"armed", "pending"} /\ tstp' \in BOOLEAN
    BY DEF TakeTstp, TakeAlrm, IInv, TypeOK
  <1>2. TypeOK' /\ NobodyHungUp'
    BY <1>1 DEF IInv, TypeOK, NobodyHungUp, queueVars, fifoVars
  <1>3. fifo' = fifo
    BY <1>1 DEF fifoVars
  <1> QED BY <1>1, <1>2, <1>3, QuietStep

LEMMA WorldKeeps ==
  ASSUME IInv, World, HangUps = {}
  PROVE  IInv'
  <1>1. UNCHANGED <<arg, queueVars, tcb, pc, src>>
    BY DEF World, TimerExpires, SendTstp, Feed, OpenFifo, Write, CloseFifo
  <1>2. CASE TimerExpires \/ SendTstp
    <2>1. TypeOK' /\ NobodyHungUp' /\ fifo' = fifo
      BY <1>1, <1>2 DEF IInv, TypeOK, NobodyHungUp, TimerExpires, SendTstp, queueVars, fifoVars
    <2> QED BY <1>1, <2>1, QuietStep
  <1>3. ASSUME NEW t \in Threads, OpenFifo(t)
        PROVE  IInv'
    <2>1. TypeOK' /\ NobodyHungUp' /\ fifo' = fifo
      BY <1>1, <1>3 DEF IInv, TypeOK, NobodyHungUp, OpenFifo, queueVars, signalVars
    <2> QED BY <1>1, <2>1, QuietStep
  <1>4. ASSUME NEW t \in Threads, Write(t)
        PROVE  IInv'
    <2>1. PICK n \in Items : /\ fifo' = [fifo EXCEPT ![t] = Append(@, n)]
                             /\ written' = [written EXCEPT ![t] = Append(@, n)]
      BY <1>4 DEF Write
    <2>2. fifo[t] \in Seq(Items) /\ written[t] \in Seq(Items)
      BY <1>4 DEF IInv, TypeOK
    <2>3. /\ Append(fifo[t], n) \in Seq(Items) /\ Append(fifo[t], n) # <<>>
          /\ Append(written[t], n) \in Seq(Items)
      BY <2>2
    <2>4. /\ fifo' \in [Threads -> Seq(Items)] /\ written' \in [Threads -> Seq(Items)]
          /\ \A u \in Threads : fifo[u] # <<>> => fifo'[u] # <<>>
      BY <1>4, <2>1, <2>3 DEF IInv, TypeOK
    <2>5. TypeOK' /\ NobodyHungUp'
      BY <1>1, <1>4, <2>4 DEF IInv, TypeOK, NobodyHungUp, Write, queueVars, signalVars
    <2> QED BY <1>1, <2>4, <2>5, QuietStep
  <1>5. \A t \in Threads : ~CloseFifo(t)
    BY DEF CloseFifo
  <1> QED BY <1>2, <1>3, <1>4, <1>5 DEF World, Feed

-------------------------------------------------------------------------------
(* The scheduler. *)

\* A thread that move_queue takes has something to read.
LEMMA MovedHasInput ==
  ASSUME NobodyHungUp, NEW t \in Moved
  PROVE  fifo[t] # <<>>
  BY DEF Moved, Polled, Revents

\* A switch that shares out the threads anew, to be resumed where they were.
LEMMA Switch ==
  ASSUME IInv, pc \in {"scheduler", "poll"}, pc' \in {"run", "poll", "returned"},
         UNCHANGED <<arg, tcb, src, signalVars, fifoVars>>,
         ready_queue' \in [Slots -> Threads \cup {NoThread}],
         rq_size' \in 0..3, rq_current' \in Slots,
         Distinct(ready_queue', rq_size'),
         Ready' \cap waiting_queue' = {},
         Ready' \cup waiting_queue' \subseteq Ready \cup waiting_queue,
         fdarray' = waiting_queue',
         pc' = "run" => rq_current' < rq_size', pc' = "poll" => rq_size' = 0,
         \A t \in waiting_queue' : tcb[t].at = "read",
         \A t \in Ready' : tcb[t].at = "read" => fifo[t] # <<>>,
         \A t \in (Ready \cup waiting_queue) \ (Ready' \cup waiting_queue') :
           LastRound(t, tcb[t])
  PROVE  IInv'
  <1>1. Created(arg)' = Created(arg) /\ Created(arg) \subseteq Threads
    BY DEF Created
  <1>2. \A t : LastRound(t, tcb[t])' = LastRound(t, tcb[t])
    BY DEF LastRound
  <1>3. waiting_queue' \in SUBSET Threads /\ fdarray' \in SUBSET Threads
    BY <1>1 DEF IInv, Queues
  <1>4. TypeOK'
    BY <1>3, ThreeThreads DEF IInv, TypeOK, Slots, signalVars, fifoVars
  <1>5. Queues'
    BY <1>1 DEF IInv, Queues
  <1>6. Resuming'
    BY <1>1, <1>2 DEF IInv, Resuming, fifoVars
  <1>7. NobodyHungUp'
    BY DEF IInv, NobodyHungUp, fifoVars
  <1> QED BY <1>4, <1>5, <1>6, <1>7 DEF IInv

LEMMA ScheduleKeeps ==
  ASSUME IInv, Schedule
  PROVE  IInv'
  <1> DEFINE moved == Moved \cap waiting_queue
             q     == Appended(ready_queue, rq_size, moved)
             n     == rq_size + Cardinality(moved)
  <1>1. /\ moved \in SUBSET Threads /\ n \in rq_size..3
        /\ q \in [Slots -> Threads \cup {NoThread}]
        /\ Distinct(q, n) /\ InQueue(q, n) = Ready \cup moved
        /\ \A k \in 0..(rq_size - 1) : q[k] = ready_queue[k]
        /\ fdarray \ Moved = waiting_queue \ moved
    BY MovedQueue DEF IInv
  <1>2. /\ rq_current \in 0..(rq_size - 1) /\ rq_size \in 1..3
        /\ q[rq_current] = RUNNING
    <2>1. rq_current \in 0..2 /\ rq_size \in 0..3 /\ rq_current < rq_size
      BY ThreeThreads DEF IInv, TypeOK, Queues, Schedule
    <2>2. rq_current \in 0..(rq_size - 1) /\ rq_size \in 1..3
      BY <2>1
    <2> QED BY <1>1, <2>2 DEF RUNNING
  <1>3. RUNNING \in Ready /\ RUNNING \in Threads
    BY RunningIsReady DEF IInv, Schedule
  <1>4. moved \subseteq waiting_queue /\ Ready \cap waiting_queue = {}
    BY DEF IInv, Queues
  <1>5. \A t \in moved : fifo[t] # <<>>
    BY MovedHasInput DEF IInv
  <1>6. pc = "scheduler" /\ UNCHANGED <<arg, tcb, src, signalVars, fifoVars>>
    BY DEF Schedule
  <1>7. /\ \A t \in waiting_queue : tcb[t].at = "read"
        /\ \A t \in Ready : tcb[t].at = "read" => fifo[t] # <<>> \/ (src = 2 /\ t = RUNNING)
    BY <1>6 DEF IInv, Resuming
  <1>8. n \in 1..3
    BY <1>1, <1>2
  <1>9. CASE src = 1
    <2>1. /\ rq_current' = NextCurrent(n) /\ ready_queue' = q /\ rq_size' = n
          /\ waiting_queue' = waiting_queue \ moved /\ fdarray' = waiting_queue \ moved
          /\ pc' = "run"
      BY <1>1, <1>9 DEF Schedule
    <2> HIDE DEF moved, q, n
    <2>2. rq_current' \in Slots /\ rq_current' < n
      BY <1>1, <1>2, <1>8, <2>1 DEF NextCurrent, Slots
    <2>3. Ready' = Ready \cup moved
      BY <1>1, <2>1 DEF Ready, InQueue
    <2> QED BY <1>1, <1>4, <1>5, <1>6, <1>7, <1>8, <1>9, <2>1, <2>2, <2>3, Switch
  <1>10. CASE src \in {2, 3}
    <2> DEFINE W == IF src = 2 THEN {RUNNING} ELSE {}
    <2>1. /\ ready_queue' = Filled(q, n) /\ rq_size' = n - 1
          /\ rq_current' = CurrentAfterFill(n)
          /\ waiting_queue' = (waiting_queue \ moved) \cup W
          /\ fdarray' = (waiting_queue \ moved) \cup W
          /\ pc' = IF n > 1 THEN "run" ELSE IF waiting_queue' = {} THEN "returned" ELSE "poll"
      BY <1>1, <1>10 DEF Schedule
    <2>2. /\ src = 2 => tcb[RUNNING].at = "read"
          /\ src = 3 => LastRound(RUNNING, tcb[RUNNING])
      BY <1>6 DEF IInv, Resuming
    <2> HIDE DEF moved, q, n
    <2>3. /\ rq_current \in 0..(n - 1)
          /\ rq_current' \in Slots /\ (n > 1 => rq_current' < n - 1)
      BY <1>1, <1>2, <1>8, <2>1 DEF CurrentAfterFill, Slots
    <2>4. /\ ready_queue' \in [Slots -> Threads \cup {NoThread}]
          /\ Distinct(ready_queue', n - 1)
          /\ InQueue(ready_queue', n - 1) = InQueue(q, n) \ {RUNNING}
      BY <1>1, <1>2, <1>8, <2>1, <2>3, FilledQueue
    <2>5. Ready' = (Ready \cup moved) \ {RUNNING}
      BY <1>1, <2>1, <2>4 DEF Ready, InQueue
    <2>6. rq_size' \in 0..3 /\ (pc' = "run" => rq_current' < rq_size')
          /\ (pc' = "poll" => rq_size' = 0) /\ pc' \in {"run", "poll", "returned"}
      BY <1>8, <2>1, <2>3
    <2>7. /\ Ready' \cap waiting_queue' = {}
          /\ Ready' \cup waiting_queue' \subseteq Ready \cup waiting_queue
          /\ \A t \in (Ready \cup waiting_queue) \ (Ready' \cup waiting_queue') :
               t = RUNNING /\ src = 3
      BY <1>3, <1>4, <1>10, <2>1, <2>5
    <2>8. /\ \A t \in waiting_queue' : tcb[t].at = "read"
          /\ \A t \in Ready' : tcb[t].at = "read" => fifo[t] # <<>>
      BY <1>5, <1>7, <2>1, <2>2, <2>5
    <2> QED BY <1>6, <2>1, <2>2, <2>3, <2>4, <2>6, <2>7, <2>8, Switch
  <1> QED BY <1>9, <1>10 DEF Schedule

LEMMA PollKeeps ==
  ASSUME IInv, Poll
  PROVE  IInv'
  <1> DEFINE moved == Moved \cap waiting_queue
             q     == Appended(ready_queue, rq_size, moved)
             n     == rq_size + Cardinality(moved)
  <1>1. /\ moved \in SUBSET Threads /\ n \in rq_size..3
        /\ q \in [Slots -> Threads \cup {NoThread}]
        /\ Distinct(q, n) /\ InQueue(q, n) = Ready \cup moved
        /\ fdarray \ Moved = waiting_queue \ moved
        /\ moved # {} => n > rq_size
    BY MovedQueue DEF IInv
  <1>2. moved # {}
    <2>1. PICK t \in fdarray : Revents(t) # {}
      BY DEF Poll, Polled
    <2>2. Revents(t) = {"POLLIN"} /\ t \in waiting_queue
      BY <2>1 DEF Revents, IInv, NobodyHungUp, Queues, TypeOK
    <2> QED BY <2>1, <2>2 DEF Moved, Polled
  <1>3. moved \subseteq waiting_queue /\ Ready \cap waiting_queue = {} /\ rq_size \in 0..3
    BY ThreeThreads DEF IInv, Queues, TypeOK
  <1>4. \A t \in moved : fifo[t] # <<>>
    BY MovedHasInput DEF IInv
  <1>5. pc = "poll" /\ UNCHANGED <<arg, tcb, src, signalVars, fifoVars>>
    BY DEF Poll
  <1>6. /\ \A t \in waiting_queue : tcb[t].at = "read"
        /\ \A t \in Ready : tcb[t].at = "read" => fifo[t] # <<>>
    BY <1>5 DEF IInv, Resuming
  <1>7. /\ ready_queue' = q /\ rq_size' = n /\ rq_current' = 0 /\ pc' = "run"
        /\ waiting_queue' = waiting_queue \ moved /\ fdarray' = waiting_queue \ moved
    BY <1>1 DEF Poll
  <1> HIDE DEF moved, q, n
  <1>8. rq_current' \in Slots /\ rq_current' < n /\ n \in 0..3
    BY <1>1, <1>2, <1>3, <1>7 DEF Slots
  <1>9. Ready' = Ready \cup moved
    BY <1>1, <1>7 DEF Ready, InQueue
  <1> QED BY <1>1, <1>3, <1>4, <1>5, <1>6, <1>7, <1>8, <1>9, Switch

-------------------------------------------------------------------------------
(* Numbers that an int does not hold. *)

\* Numbers that are whole ranges of ints apart are the same int.
LEMMA WrapOf ==
  ASSUME NEW n \in Int, NEW k \in Int, NEW m \in Ints, n = (2 * MaxInt + 2) * k + m
  PROVE  Wrap(n) = m
  <1> DEFINE M == 2 * MaxInt + 2
  <1>1. MaxInt \in Nat /\ M \in Nat \ {0} /\ m \in (-MaxInt - 1)..MaxInt
    BY ProgramAssumption DEF Ints
  <1> DEFINE a == n + MaxInt + 1
             r == m + MaxInt + 1
  <1>2. a \in Int /\ r \in 0..(M - 1) /\ a = M * k + r
    BY <1>1
  <1>3. Wrap(n) = (a % M) - (MaxInt + 1)
    BY DEF Wrap
  <1> HIDE DEF M, a
  <1>4. a % M = r
    <2> HIDE DEF r
    <2> QED BY <1>1, <1>2, Remainder
  <1> QED BY <1>1, <1>3, <1>4

\* An int is itself.
LEMMA WrapSame ==
  ASSUME NEW n \in Ints
  PROVE  Wrap(n) = n
  <1>1. n \in Int /\ n = (2 * MaxInt + 2) * 0 + n
    BY ProgramAssumption DEF Ints
  <1> QED BY <1>1, WrapOf

\* A sum of ints may be left with an int when it is complete.
LEMMA WrapSum ==
  ASSUME NEW m \in Int, NEW n \in Int
  PROVE  Wrap(Wrap(m) + Wrap(n)) = Wrap(m + n)
  <1> DEFINE M == 2 * MaxInt + 2
  <1>0. M \in Int /\ Ints \subseteq Int
    BY ProgramAssumption DEF Ints
  <1>1. PICK j \in Int : m = M * j + Wrap(m)
    BY WrapIsInt
  <1>2. PICK k \in Int : n = M * k + Wrap(n)
    BY WrapIsInt
  <1>3. PICK l \in Int : Wrap(m) + Wrap(n) = M * l + Wrap(Wrap(m) + Wrap(n))
    <2>1. Wrap(m) \in Int /\ Wrap(n) \in Int
      BY <1>0, WrapIsInt
    <2>2. Wrap(m) + Wrap(n) \in Int
      BY <2>1
    <2> QED BY <2>2, WrapIsInt
  <1> DEFINE w == Wrap(Wrap(m) + Wrap(n))
  <1>4. w \in Ints
    <2>1. Wrap(m) \in Int /\ Wrap(n) \in Int
      BY <1>0, WrapIsInt
    <2>2. Wrap(m) + Wrap(n) \in Int
      BY <2>1
    <2> QED BY <2>2, WrapIsInt
  <1>5. m + n = M * (j + k + l) + w
    <2> DEFINE a == Wrap(m)
               b == Wrap(n)
    <2>1. a \in Int /\ b \in Int /\ w \in Int
      BY <1>0, <1>4, WrapIsInt
    <2>2. m = M * j + a /\ n = M * k + b /\ a + b = M * l + w
      BY <1>1, <1>2, <1>3
    <2> HIDE DEF a, b, w, M
    <2>3. M * (j + k + l) = M * j + M * k + M * l
      BY <1>0
    <2>4. M * j \in Int /\ M * k \in Int /\ M * l \in Int
      BY <1>0
    <2> QED BY <2>1, <2>2, <2>3, <2>4
  <1> QED BY <1>4, <1>5, WrapOf

-------------------------------------------------------------------------------
(* Fibonacci numbers. *)

\* FibonacciNumber is the function its definition asks for.
LEMMA FibonacciIs ==
  /\ FibonacciNumber \in [Ints -> Int]
  /\ \A n \in Ints : FibonacciNumber[n] =
       IF n <= 2 THEN 1 ELSE FibonacciNumber[n - 1] + FibonacciNumber[n - 2]
  <1> DEFINE Def(f) == f = [n \in Ints |-> IF n <= 2 THEN 1 ELSE f[n - 1] + f[n - 2]]
             X == Int \X Int
             step == [p \in X \X (1..MaxInt) |->
                        IF p[2] <= 2 THEN <<1, 1>> ELSE <<p[1][1] + p[1][2], p[1][1]>>]
  <1>1. MaxInt \in Nat /\ Ints = (-MaxInt - 1)..MaxInt
    BY ProgramAssumption DEF Ints
  <1>2. PICK s : LoopResult(MaxInt, X, <<1, 1>>, step, s)
    <2>1. \A p \in X \X (1..MaxInt) : /\ p[1] \in X /\ p[1][1] \in Int /\ p[1][2] \in Int
                                      /\ p[1][1] + p[1][2] \in Int
      OBVIOUS
    <2>2. \A p \in X \X (1..MaxInt) :
            (IF p[2] <= 2 THEN <<1, 1>> ELSE <<p[1][1] + p[1][2], p[1][1]>>) \in X
      BY <2>1
    <2> HIDE DEF X
    <2>3. step \in [X \X (1..MaxInt) -> X]
      BY <2>2
    <2>4. <<1, 1>> \in X
      BY DEF X
    <2> HIDE DEF step
    <2>5. Loop(MaxInt, X, <<1, 1>>, step)
      BY <1>1, <2>3, <2>4 DEF Loop
    <2> QED BY <2>5, LoopFunction
  <1>3. s \in [0..MaxInt -> X] /\ s[0] = <<1, 1>>
    BY <1>2 DEF LoopResult
  <1>4. ASSUME NEW i \in 1..MaxInt
        PROVE  s[i] = IF i <= 2 THEN <<1, 1>> ELSE <<s[i - 1][1] + s[i - 1][2], s[i - 1][1]>>
    <2>1. i - 1 \in 0..MaxInt
      BY <1>1
    <2>2. s[i - 1] \in X
      BY <1>3, <2>1
    <2>3. s[i] = step[<<s[i - 1], i>>]
      BY <1>2 DEF LoopResult
    <2> HIDE DEF X
    <2>4. <<s[i - 1], i>> \in X \X (1..MaxInt)
      BY <2>2
    <2> QED BY <2>3, <2>4
  <1> HIDE DEF step
  <1> DEFINE f == [n \in Ints |-> IF n <= 0 THEN 1 ELSE s[n][1]]
  <1>5. \A n \in Ints : n > 0 => n \in 0..MaxInt /\ n \in 1..MaxInt
    BY <1>1
  <1>6. f \in [Ints -> Int]
    <2>1. \A i \in 0..MaxInt : s[i][1] \in Int
      BY <1>3
    <2>2. \A n \in Ints : n \in Int
      BY <1>1
    <2>3. \A n \in Ints : (IF n <= 0 THEN 1 ELSE s[n][1]) \in Int
      BY <1>5, <2>1, <2>2
    <2> QED BY <2>3
  <1>7. ASSUME NEW n \in Ints
        PROVE  f[n] = IF n <= 2 THEN 1 ELSE f[n - 1] + f[n - 2]
    <2>1. n \in Int
      BY <1>1
    <2>2. CASE n <= 2
      <3>1. n > 0 => s[n] = <<1, 1>>
        BY <1>4, <1>5, <2>2
      <3> QED BY <2>1, <2>2, <3>1
    <2>3. CASE n > 2
      <3>1. /\ n \in 1..MaxInt /\ n - 1 \in 1..MaxInt /\ n - 2 \in 1..MaxInt
            /\ (n - 1) - 1 = n - 2
            /\ n - 1 \in Ints /\ n - 2 \in Ints /\ ~(n <= 2)
        BY <1>1, <2>1, <2>3
      <3>2. s[n] = <<s[n - 1][1] + s[n - 1][2], s[n - 1][1]>>
        BY <1>4, <3>1
      <3>3. s[n - 1][2] = s[n - 2][1]
        <4>1. CASE n - 1 <= 2
          <5>1. s[n - 1] = <<1, 1>>
            BY <1>4, <3>1, <4>1
          <5>2. s[n - 2] = <<1, 1>>
            <6>1. n - 2 <= 2
              BY <2>1, <4>1
            <6> QED BY <1>4, <3>1, <6>1
          <5> QED BY <5>1, <5>2
        <4>2. CASE ~(n - 1 <= 2)
          <5>1. s[n - 1] = <<s[(n - 1) - 1][1] + s[(n - 1) - 1][2], s[(n - 1) - 1][1]>>
            BY <1>4, <3>1, <4>2
          <5> QED BY <3>1, <5>1
        <4> QED BY <4>1, <4>2
      <3>4. f[n] = s[n][1] /\ f[n - 1] = s[n - 1][1] /\ f[n - 2] = s[n - 2][1]
        BY <1>1, <2>1, <3>1
      <3> QED BY <3>1, <3>2, <3>3, <3>4
    <2> QED BY <2>1, <2>2, <2>3
  <1>8. Def(f)
    <2> HIDE DEF f
    <2>1. f = [n \in Ints |-> f[n]]
      BY <1>6
    <2> QED BY <1>7, <2>1
  <1>9. Def(FibonacciNumber)
    <2>1. Def(CHOOSE g : Def(g))
      BY <1>8
    <2> QED BY <2>1, Zenon DEF FibonacciNumber
  <1> DEFINE F == FibonacciNumber
             S == {n \in 0..MaxInt : F[n] \in Int /\ (n > 0 => F[n - 1] \in Int)}
  <1>10. \A n \in Ints : F[n] = IF n <= 2 THEN 1 ELSE F[n - 1] + F[n - 2]
    <2> HIDE DEF F
    <2> QED BY <1>9 DEF F
  <1>11. DOMAIN F = Ints /\ F = [n \in DOMAIN F |-> F[n]]
    <2> HIDE DEF F
    <2> QED BY <1>9 DEF F
  <1> HIDE DEF F
  <1>12. \A n \in 0..MaxInt : n \in S
    <2>1. 0 \in S
      BY <1>1, <1>10
    <2>2. ASSUME NEW n \in 0..MaxInt, n < MaxInt, n \in S
          PROVE  n + 1 \in S
      <3>1. n + 1 \in 0..MaxInt /\ n + 1 \in Ints /\ (n + 1) - 1 = n /\ (n + 1) - 2 = n - 1
        BY <1>1, <2>2
      <3>2. F[n + 1] = IF n + 1 <= 2 THEN 1 ELSE F[n] + F[n - 1]
        BY <1>10, <3>1
      <3>3. F[n + 1] \in Int
        BY <2>2, <3>2
      <3> QED BY <2>2, <3>1, <3>3
    <2>3. Inductive(S, 0, MaxInt)
      BY <1>1, <2>1, <2>2 DEF Inductive
    <2> HIDE DEF S
    <2> QED BY <2>3, InductionTo
  <1>13. \A n \in Ints : F[n] \in Int
    <2>1. \A n \in Ints : n <= 0 \/ n \in 0..MaxInt
      BY <1>1
    <2> QED BY <1>1, <1>10, <1>12, <2>1
  <1> QED BY <1>10, <1>11, <1>13 DEF F

-------------------------------------------------------------------------------
(* Sums of consecutive numbers. *)

\* P[n] is the sum of the first n numbers of s.
Adds(P, s) == /\ P \in [0..Len(s) -> Int] /\ P[0] = 0
              /\ \A i \in 1..Len(s) : P[i] = P[i - 1] + s[i]

LEMMA SumsAdd ==
  ASSUME NEW s \in Seq(Int)
  PROVE  Adds(Sums(s), s)
  <1> DEFINE N == Len(s)
             step == [p \in Int \X (1..N) |-> p[1] + s[p[2]]]
  <1>1. N \in Nat /\ \A i \in 1..N : s[i] \in Int
    OBVIOUS
  <1> HIDE DEF N
  <1>2. Loop(N, Int, 0, step)
    <2>1. \A p \in Int \X (1..N) : p[1] \in Int /\ p[2] \in 1..N
      OBVIOUS
    <2>2. \A p \in Int \X (1..N) : p[1] + s[p[2]] \in Int
      BY <1>1, <2>1
    <2>3. step \in [Int \X (1..N) -> Int]
      BY <2>2
    <2> QED BY <1>1, <2>3 DEF Loop
  <1>3. PICK P : LoopResult(N, Int, 0, step, P)
    <2> HIDE DEF step
    <2> QED BY <1>2, LoopFunction
  <1>4. /\ P \in [0..N -> Int] /\ P[0] = 0
        /\ \A i \in 1..N : P[i] = P[i - 1] + s[i]
    <2>1. /\ P \in [0..N -> Int] /\ P[0] = 0
          /\ \A i \in 1..N : P[i] = step[<<P[i - 1], i>>]
      BY <1>3 DEF LoopResult
    <2>2. \A i \in 1..N : P[i - 1] \in Int
      BY <1>1, <2>1
    <2> QED BY <2>1, <2>2
  <1> DEFINE Def(f) == f = [n \in 0..Len(s) |-> IF n = 0 THEN 0 ELSE f[n - 1] + s[n]]
  <1>5. Def(P)
    <2>1. \A i \in 0..N : i # 0 => i \in 1..N
      BY <1>1
    <2> QED BY <1>4, <2>1 DEF N
  <1>6. PICK t : Def(t) /\ Sums(s) = t
    <2>1. Def(CHOOSE f : Def(f))
      BY <1>5
    <2>2. Sums(s) = CHOOSE f : Def(f)
      BY Zenon DEF Sums
    <2> QED BY <2>1, <2>2
  <1>7. t[0] = 0 /\ (\A i \in 1..N : t[i] = t[i - 1] + s[i]) /\ DOMAIN t = 0..N
        /\ t = [i \in DOMAIN t |-> t[i]]
    BY <1>1, <1>6 DEF N
  <1>8. t[0] = P[0] /\ \A i \in 1..N : t[i - 1] = P[i - 1] => t[i] = P[i]
    BY <1>4, <1>7
  <1>9. \A i \in 0..N : t[i] = P[i]
    BY <1>1, <1>8, LoopsAgree, Zenon
  <1>10. t \in [0..N -> Int]
    BY <1>4, <1>7, <1>9
  <1> QED BY <1>6, <1>7, <1>10 DEF Adds, N

\* Sums depend on the numbers that are added only.
LEMMA SumsAgree ==
  ASSUME NEW s \in Seq(Int), NEW t \in Seq(Int), NEW k \in Nat, k <= Len(s), k <= Len(t),
         \A i \in 1..k : s[i] = t[i]
  PROVE  \A i \in 0..k : Sums(s)[i] = Sums(t)[i]
  <1> DEFINE P == Sums(t)
             Q == Sums(s)
  <1>1. \A i \in 1..k : i \in 1..Len(s) /\ i \in 1..Len(t)
    OBVIOUS
  <1>2. Adds(Q, s) /\ Adds(P, t)
    BY SumsAdd
  <1> HIDE DEF P, Q
  <1>3. Q[0] = P[0] /\ \A i \in 1..k : Q[i - 1] = P[i - 1] => Q[i] = P[i]
    BY <1>1, <1>2 DEF Adds
  <1>4. \A i \in 0..k : Q[i] = P[i]
    <2> DEFINE S == {i \in 0..k : Q[i] = P[i]}
    <2>1. 0 \in S
      BY <1>3
    <2>2. ASSUME NEW i \in 0..k, i < k, i \in S
          PROVE  i + 1 \in S
      <3>1. i + 1 \in 0..k /\ i + 1 \in 1..k /\ (i + 1) - 1 = i
        BY <2>2
      <3> QED BY <1>3, <2>2, <3>1
    <2>3. Inductive(S, 0, k)
      BY <2>1, <2>2 DEF Inductive
    <2>4. \A i \in 0..k : i \in S
      <3> HIDE DEF S
      <3> QED BY <2>3, InductionTo
    <2> QED BY <2>4
  <1> QED BY <1>4 DEF P, Q

\* x is the largest sum in the first k numbers, y the largest of those that end
\* with the last.
Largest(P, k, x) ==
  /\ \E n \in 0..k : \E m \in 0..n : x = P[n] - P[m]
  /\ \A n \in 0..k : \A m \in 0..n : P[n] - P[m] <= x
Ending(P, k, y) ==
  /\ k = 0 => y = 0
  /\ k > 0 => /\ \E m \in 0..(k - 1) : y = P[k] - P[m]
              /\ \A m \in 0..(k - 1) : P[k] - P[m] <= y

\* The round of a thread that has read the number after the first k.
LEMMA SumsGrow ==
  ASSUME NEW N \in Nat, NEW P \in [0..N -> Int], NEW k \in 0..N, k < N,
         NEW x \in Int, NEW y \in Int, Largest(P, k, x), Ending(P, k, y),
         NEW num \in Int, P[k + 1] = P[k] + num
  PROVE  /\ Ending(P, k + 1, Larger(num, y + num))
         /\ Largest(P, k + 1, Larger(x, Larger(num, y + num)))
  <1> DEFINE z == Larger(num, y + num)
  <1>1. /\ k + 1 \in 0..N /\ (k + 1) - 1 = k /\ k \in Nat
        /\ \A n \in 0..(k + 1) : n \in 0..N /\ (n \in 0..k \/ n = k + 1)
        /\ \A n \in 0..k : n \in 0..N /\ n \in 0..(k + 1)
    OBVIOUS
  <1>2. \A n \in 0..N : P[n] \in Int
    OBVIOUS
  <1>3. z \in Int /\ z >= num /\ z >= y + num /\ (z = num \/ z = y + num)
    BY DEF Larger
  <1> HIDE DEF z
  <1>4. \A m \in 0..k : P[k + 1] - P[m] <= z
    <2>1. SUFFICES ASSUME NEW m \in 0..k
                   PROVE  P[k + 1] - P[m] <= z
      OBVIOUS
    <2>2. CASE m = k
      BY <1>1, <1>2, <1>3, <2>2
    <2>3. CASE m # k
      <3>1. m \in 0..(k - 1) /\ k > 0
        BY <1>1, <2>3
      <3>2. P[k] - P[m] <= y
        BY <3>1 DEF Ending
      <3>3. P[k] \in Int /\ P[m] \in Int /\ z \in Int /\ y + num <= z
        BY <1>1, <1>2, <1>3
      <3>4. \A a, b, c \in Int : a - b <= y /\ y + num <= c => (a + num) - b <= c
        OBVIOUS
      <3> QED BY <3>2, <3>3, <3>4
    <2> QED BY <2>2, <2>3
  <1>5. \E m \in 0..k : z = P[k + 1] - P[m]
    <2>1. CASE z = num
      BY <1>1, <1>2, <2>1
    <2>2. CASE z = y + num /\ k = 0
      BY <1>1, <1>2, <2>2 DEF Ending
    <2>3. CASE z = y + num /\ k > 0
      <3>1. PICK m \in 0..(k - 1) : y = P[k] - P[m]
        BY <2>3 DEF Ending
      <3>2. m \in 0..k
        BY <1>1
      <3>3. z = P[k + 1] - P[m]
        <4>1. P[k] \in Int /\ P[m] \in Int
          BY <1>1, <1>2, <3>2
        <4>2. \A a, b \in Int : (a - b) + num = (a + num) - b
          OBVIOUS
        <4> QED BY <2>3, <3>1, <4>1, <4>2, SMTT(20)
      <3> QED BY <3>2, <3>3
    <2>4. k = 0 \/ k > 0
      OBVIOUS
    <2> HIDE DEF z
    <2> QED BY <1>3, <2>1, <2>2, <2>3, <2>4, Zenon
  <1>6. Ending(P, k + 1, z)
    <2>1. k + 1 > 0 /\ k + 1 # 0 /\ (k + 1) - 1 = k
      BY <1>1
    <2>2. /\ \E m \in 0..((k + 1) - 1) : z = P[k + 1] - P[m]
          /\ \A m \in 0..((k + 1) - 1) : P[k + 1] - P[m] <= z
      BY <1>4, <1>5, <2>1, Zenon
    <2> HIDE DEF z
    <2> QED BY <2>1, <2>2, Zenon DEF Ending
  <1> DEFINE w == Larger(x, z)
  <1>7. w \in Int /\ w >= x /\ w >= z /\ (w = x \/ w = z)
    BY <1>3 DEF Larger
  <1> HIDE DEF w
  <1>8. \A n \in 0..(k + 1) : \A m \in 0..n : P[n] - P[m] <= w
    <2>1. SUFFICES ASSUME NEW n \in 0..(k + 1), NEW m \in 0..n
                   PROVE  P[n] - P[m] <= w
      OBVIOUS
    <2>2. m \in 0..N /\ P[m] \in Int /\ P[n] \in Int
      BY <1>1, <1>2
    <2>3. CASE n \in 0..k
      <3>1. P[n] - P[m] <= x
        BY <2>3 DEF Largest
      <3>2. \A a, b, c \in Int : a - b <= x /\ x <= c => a - b <= c
        OBVIOUS
      <3>3. x <= w /\ w \in Int
        BY <1>7
      <3> QED BY <2>2, <3>1, <3>2, <3>3
    <2>4. CASE n = k + 1 /\ m \in 0..k
      <3>1. P[n] - P[m] <= z
        BY <1>4, <2>4
      <3>2. P[n] - P[m] \in Int /\ z \in Int /\ w \in Int /\ z <= w
        BY <1>3, <1>7, <2>2, SMTT(20)
      <3> HIDE DEF z
      <3> QED BY <3>1, <3>2
    <2>5. CASE n = k + 1 /\ m = k + 1
      <3>1. P[0] - P[0] <= x
        BY <1>1 DEF Largest
      <3>2. P[0] \in Int
        BY <1>1, <1>2
      <3> QED BY <1>7, <2>2, <2>5, <3>1, <3>2
    <2> QED BY <1>1, <2>3, <2>4, <2>5
  <1>9. \E n \in 0..(k + 1) : \E m \in 0..n : w = P[n] - P[m]
    <2>1. CASE w = x
      <3>1. PICK n \in 0..k : \E m \in 0..n : x = P[n] - P[m]
        BY DEF Largest
      <3> QED BY <1>1, <2>1, <3>1
    <2>2. CASE w = z
      <3>1. PICK m \in 0..k : z = P[k + 1] - P[m]
        BY <1>5
      <3>2. k + 1 \in 0..(k + 1) /\ m \in 0..(k + 1)
        BY <1>1
      <3> QED BY <2>2, <3>1, <3>2
    <2> QED BY <1>7, <2>1, <2>2
  <1>10. Largest(P, k + 1, w)
    BY <1>8, <1>9 DEF Largest
  <1> QED BY <1>6, <1>10 DEF w, z

\* So x is what LargestSum says.
LEMMA LargestIs ==
  ASSUME NEW s \in Seq(Int), NEW k \in 0..Len(s), NEW x \in Int, Largest(Sums(s), k, x)
  PROVE  LargestSum(SubSeq(s, 1, k)) = x
  <1> DEFINE t == SubSeq(s, 1, k)
             P == Sums(t)
             D == UNION {{P[n] - P[m] : m \in 0..n} : n \in 0..Len(t)}
  <1>1. t \in Seq(Int) /\ Len(t) = k /\ k \in Nat /\ k <= Len(s)
        /\ \A i \in 1..k : s[i] = t[i]
    OBVIOUS
  <1> HIDE DEF t
  <1>2. \A i \in 0..k : P[i] = Sums(s)[i]
    BY <1>1, SumsAgree
  <1>3. Adds(P, t)
    BY <1>1, SumsAdd
  <1>4. LargestSum(t) = CHOOSE n \in D : \A m \in D : m <= n
    BY DEF LargestSum
  <1> HIDE DEF P
  <1>5. \A d : d \in D <=> \E n \in 0..k : \E m \in 0..n : d = P[n] - P[m]
    BY <1>1
  <1> HIDE DEF D
  <1>6. \A n \in 0..k : \A m \in 0..n : m \in 0..k
    BY <1>1
  <1>7. Largest(P, k, x)
    BY <1>2, <1>6 DEF Largest
  <1>8. x \in D /\ (\A d \in D : d <= x)
    BY <1>5, <1>7 DEF Largest
  <1>9. \A d \in D : d \in Int
    <2>1. \A n \in 0..k : P[n] \in Int
      BY <1>1, <1>3 DEF Adds
    <2> QED BY <1>5, <1>6, <2>1
  <1> DEFINE c == CHOOSE n \in D : \A m \in D : m <= n
  <1>10. c \in D /\ \A m \in D : m <= c
    BY <1>8
  <1>11. c = x
    <2> HIDE DEF c
    <2> QED BY <1>8, <1>9, <1>10
  <1> QED BY <1>4, <1>11 DEF t

LEMMA ItemsAreNumbers ==
  ASSUME NEW s \in Seq(Items)
  PROVE  s \in Seq(Int) /\ Len(s) \in Nat /\ \A i \in 1..Len(s) : s[i] \in Items
  <1>1. Len(s) \in Nat /\ s \in [1..Len(s) -> Items]
    OBVIOUS
  <1>2. Items \subseteq Int
    BY ProgramAssumption DEF Ints
  <1>3. s \in [1..Len(s) -> Int]
    BY <1>1, <1>2
  <1> QED BY <1>1, <1>3

\* No sum of numbers in a FIFO overflows.
LEMMA SumsFit ==
  ASSUME NEW s \in Seq(Items), Len(s) <= MaxItems, NEW n \in 0..Len(s), NEW m \in 0..n
  PROVE  Sums(s)[n] - Sums(s)[m] \in (-MaxInt)..MaxInt
  <1>1. /\ Items \subseteq Int /\ MaxInt \in Nat /\ MaxItems \in Nat
        /\ \A i \in Items : MaxItems * i \in (-MaxInt)..MaxInt
    BY ProgramAssumption DEF Ints
  <1>2. s \in Seq(Int) /\ Len(s) \in Nat /\ \A i \in 1..Len(s) : s[i] \in Items
    BY ItemsAreNumbers
  <1>3. Adds(Sums(s), s)
    BY <1>2, SumsAdd
  <1> DEFINE P == Sums(s)
             S == {i \in m..n : /\ MaxItems * (P[i] - P[m]) <= (i - m) * MaxInt
                                /\ MaxItems * (P[i] - P[m]) >= -((i - m) * MaxInt)}
  <1>4. /\ \A i \in 0..Len(s) : P[i] \in Int
        /\ \A i \in 1..Len(s) : P[i] = P[i - 1] + s[i]
    BY <1>3 DEF Adds
  <1> HIDE DEF P
  <1>5. m \in S
    <2>1. m \in m..n /\ P[m] \in Int /\ P[m] - P[m] = 0 /\ m - m = 0
      BY <1>2, <1>4
    <2>2. MaxItems * 0 = 0 /\ 0 * MaxInt = 0
      BY <1>1
    <2> QED BY <2>1, <2>2
  <1>6. ASSUME NEW i \in m..n, i < n, i \in S
        PROVE  i + 1 \in S
    <2>1. /\ i \in 0..Len(s) /\ i + 1 \in 1..Len(s) /\ i + 1 \in m..n /\ (i + 1) - 1 = i
          /\ m \in 0..Len(s) /\ i \in Int /\ m \in Int
      BY <1>2, <1>6
    <2> DEFINE a == s[i + 1]
               d == P[i] - P[m]
               e == i - m
               b == e * MaxInt
               f == MaxItems * d
               g == MaxItems * a
    <2>2. a \in Int /\ d \in Int /\ e \in Int /\ MaxItems * a \in (-MaxInt)..MaxInt
      <3>1. a \in Items
        BY <1>2, <2>1
      <3>2. d \in Int /\ e \in Int
        BY <1>4, <2>1
      <3> HIDE DEF a, d, e
      <3> QED BY <1>1, <3>1, <3>2
    <2>3. P[i + 1] - P[m] = d + a /\ (i + 1) - m = e + 1
      <3>1. P[i + 1] = P[i] + a
        BY <1>4, <2>1
      <3> QED BY <1>4, <2>1, <2>2, <3>1, SMTT(20)
    <2>4. f <= b /\ f >= -b
      BY <1>6
    <2> HIDE DEF a, d, e
    <2>5. MaxItems * (d + a) = f + g /\ (e + 1) * MaxInt = b + MaxInt
      BY <1>1, <2>2
    <2>6. f \in Int /\ b \in Int /\ g \in (-MaxInt)..MaxInt
      BY <1>1, <2>2
    <2> HIDE DEF f, b, g
    <2>7. /\ MaxItems * (d + a) <= (e + 1) * MaxInt
          /\ MaxItems * (d + a) >= -((e + 1) * MaxInt)
      BY <1>1, <2>4, <2>5, <2>6
    <2> QED BY <2>1, <2>3, <2>7
  <1>7. n \in S
    <2>1. Inductive(S, m, n)
      BY <1>2, <1>5, <1>6 DEF Inductive
    <2> HIDE DEF S
    <2>2. \A i \in m..n : i \in S
      BY <2>1, InductionTo
    <2>3. n \in m..n
      BY <1>2
    <2> QED BY <2>2, <2>3
  <1> DEFINE d == P[n] - P[m]
             e == n - m
  <1>8. d \in Int /\ e \in 0..MaxItems /\ MaxItems * d <= e * MaxInt
        /\ MaxItems * d >= -(e * MaxInt)
    <2>1. n \in 0..Len(s) /\ m \in 0..Len(s) /\ P[n] \in Int /\ P[m] \in Int
      BY <1>2, <1>4
    <2> QED BY <1>1, <1>2, <1>7, <2>1
  <1>9. CASE e = 0
    <2>1. n = m /\ d = 0
      <3>1. n \in Int /\ m \in Int /\ P[m] \in Int
        BY <1>2, <1>4
      <3> QED BY <1>9, <3>1
    <2> QED BY <1>1, <2>1 DEF P
  <1>10. CASE e # 0
    <2>1. e * MaxInt <= MaxItems * MaxInt /\ MaxItems > 0
      BY <1>1, <1>8, <1>10
    <2> HIDE DEF d, e
    <2>2. ~(d > MaxInt)
      <3>1. SUFFICES ASSUME d >= MaxInt + 1
                     PROVE  FALSE
        BY <1>1, <1>8
      <3>2. MaxItems * d >= MaxItems * (MaxInt + 1)
        BY <1>1, <1>8, <3>1
      <3>3. MaxItems * (MaxInt + 1) = MaxItems * MaxInt + MaxItems
        BY <1>1
      <3> QED BY <1>1, <1>8, <2>1, <3>2, <3>3
    <2>3. ~(d < -MaxInt)
      <3>1. SUFFICES ASSUME d <= -(MaxInt + 1)
                     PROVE  FALSE
        BY <1>1, <1>8
      <3>2. MaxItems * d <= MaxItems * (-(MaxInt + 1))
        BY <1>1, <1>8, <3>1
      <3>3. MaxItems * (-(MaxInt + 1)) = -(MaxItems * MaxInt) - MaxItems
        BY <1>1
      <3> QED BY <1>1, <1>8, <2>1, <3>2, <3>3
    <2> QED BY <1>1, <1>8, <2>2, <2>3 DEF d, P
  <1> QED BY <1>9, <1>10

-------------------------------------------------------------------------------
(* What the threads have computed. *)

\* A fibonacci thread has the last two numbers, as much of them as ints hold.
FibRight(c) == c.i > 0 => /\ c.y = Wrap(FibonacciNumber[c.i])
                          /\ c.x = Wrap(FibonacciNumber[c.i - 1])

\* A max_subarray thread, with f in its FIFO of the numbers s written to it, has
\* counted those it has read, or is about to, and has their largest sums.
SubRight(c, f, s) ==
  LET k == Len(s) - Len(f) IN
  /\ Len(s) <= MaxItems /\ k >= 0
  /\ \A j \in 1..Len(f) : f[j] = s[k + j]
  /\ c.i = IF c.at = "read" THEN k + 1 ELSE k
  /\ Largest(Sums(s), k, c.x) /\ Ending(Sums(s), k, c.y)

LEMMA FibonacciRound ==
  ASSUME NEW c \in TCB, FibRight(c)
  PROVE  /\ FibRight(Fibonacci(c))
         /\ Fibonacci(c).y = Wrap(FibonacciNumber[Fibonacci(c).i])
  <1> DEFINE i == Wrap(c.i + 1)
             F == FibonacciNumber
             d == Fibonacci(c)
  <1>1. MaxInt \in Nat \ {0} /\ Ints = (-MaxInt - 1)..MaxInt
    BY ProgramAssumption DEF Ints
  <1>2. c.i \in Ints /\ c.i \in Int /\ c.i + 1 \in Int
    BY <1>1 DEF TCB
  <1>3. i \in Ints /\ i \in Int
    <2>1. i \in Ints
      BY <1>2, WrapIsInt
    <2> HIDE DEF i
    <2> QED BY <1>1, <2>1
  <1>4. d.i = i /\ d.x = (IF i <= 2 THEN 1 ELSE c.y)
        /\ d.y = (IF i <= 2 THEN 1 ELSE Wrap(c.x + c.y))
    BY DEF Fibonacci, TCB
  <1>5. /\ \A n \in Ints : F[n] \in Int
        /\ \A n \in Ints : F[n] = IF n <= 2 THEN 1 ELSE F[n - 1] + F[n - 2]
    BY FibonacciIs
  <1> HIDE DEF i, F, d
  <1>6. CASE i <= 2
    <2>1. Wrap(1) = 1
      <3>1. 1 \in Ints
        BY <1>1
      <3> QED BY <3>1, WrapSame
    <2>2. F[i] = 1
      BY <1>3, <1>5, <1>6
    <2>3. i > 0 => F[i - 1] = 1
      <3>1. i > 0 => i - 1 \in Ints /\ i - 1 <= 2
        BY <1>1, <1>3, <1>6
      <3> QED BY <1>5, <3>1
    <2> QED BY <1>4, <1>6, <2>1, <2>2, <2>3 DEF FibRight, F, d
  <1>7. CASE ~(i <= 2)
    <2>1. c.i # MaxInt
      <3>1. SUFFICES ASSUME c.i = MaxInt
                     PROVE  FALSE
        OBVIOUS
      <3>2. /\ c.i + 1 = (2 * MaxInt + 2) * 1 + (-MaxInt - 1)
            /\ 1 \in Int /\ -MaxInt - 1 \in Ints
        BY <1>1, <3>1
      <3>3. Wrap(c.i + 1) = -MaxInt - 1
        BY <1>2, <3>2, WrapOf
      <3> QED BY <1>1, <1>7, <3>3 DEF i
    <2>2. i = c.i + 1
      <3>1. c.i + 1 \in Ints
        BY <1>1, <1>2, <2>1
      <3> QED BY <3>1, WrapSame DEF i
    <2>3. /\ c.i > 0 /\ i - 1 \in Ints /\ i - 2 \in Ints /\ c.i = i - 1 /\ c.i - 1 = i - 2
          /\ i > 0 /\ ~(i <= 2)
      BY <1>1, <1>2, <1>3, <1>7, <2>2
    <2>4. c.y = Wrap(F[i - 1]) /\ c.x = Wrap(F[i - 2])
      BY <2>3 DEF FibRight, F
    <2>5. F[i] = F[i - 2] + F[i - 1] /\ F[i - 1] \in Int /\ F[i - 2] \in Int
      BY <1>3, <1>5, <2>3
    <2>6. Wrap(c.x + c.y) = Wrap(F[i])
      BY <2>4, <2>5, WrapSum
    <2> QED BY <1>4, <1>7, <2>4, <2>6 DEF FibRight, F, d
  <1> QED BY <1>6, <1>7

LEMMA SubRound ==
  ASSUME NEW c \in TCB, c.at = "read", NEW f \in Seq(Items), f # <<>>, NEW s \in Seq(Items),
         SubRight(c, f, s)
  PROVE  SubRight(MaxSubarray(c, Head(f)), Tail(f), s)
  <1> DEFINE k == Len(s) - Len(f)
             num == Head(f)
             P == Sums(s)
             g == Tail(f)
             d == MaxSubarray(c, num)
             y == Larger(num, c.y + num)
  <1>1. /\ Len(s) \in Nat /\ Len(f) \in Nat \ {0} /\ num \in Items /\ num = f[1]
        /\ g \in Seq(Items) /\ Len(g) = Len(f) - 1 /\ \A j \in 1..Len(g) : g[j] = f[j + 1]
    OBVIOUS
  <1>2. /\ Len(s) <= MaxItems /\ k >= 0 /\ c.i = k + 1
        /\ \A j \in 1..Len(f) : f[j] = s[k + j]
        /\ Largest(P, k, c.x) /\ Ending(P, k, c.y)
    BY DEF SubRight
  <1>3. s \in Seq(Int) /\ Items \subseteq Int
    BY ItemsAreNumbers, ProgramAssumption DEF Ints
  <1>4. Adds(P, s)
    BY <1>3, SumsAdd
  <1>5. c.x \in Int /\ c.y \in Int /\ MaxInt \in Nat
    BY ProgramAssumption DEF TCB, Ints
  <1>6. /\ k \in 0..Len(s) /\ k < Len(s) /\ k + 1 \in 1..Len(s) /\ (k + 1) - 1 = k
        /\ k + 1 \in 0..Len(s)
    BY <1>1, <1>2
  <1> HIDE DEF P
  <1>7. P \in [0..Len(s) -> Int] /\ num \in Int /\ P[k + 1] = P[k] + num
    <2>1. s[k + 1] = num
      BY <1>1, <1>2
    <2>2. P[k + 1] = P[k] + s[k + 1]
      BY <1>4, <1>6 DEF Adds
    <2> QED BY <1>1, <1>3, <1>4, <2>1, <2>2 DEF Adds
  <1> HIDE DEF k, num, g
  <1>8. Ending(P, k + 1, y) /\ Largest(P, k + 1, Larger(c.x, y))
    BY <1>1, <1>2, <1>5, <1>6, <1>7, SumsGrow
  <1>9. Wrap(c.y + num) = c.y + num
    <2>1. c.y + num \in Ints
      <3>1. \A m \in 0..(k + 1) : P[k + 1] - P[m] \in (-MaxInt)..MaxInt
        <4>1. SUFFICES ASSUME NEW m \in 0..(k + 1)
                       PROVE  P[k + 1] - P[m] \in (-MaxInt)..MaxInt
          OBVIOUS
        <4>2. m \in 0..(k + 1)
          OBVIOUS
        <4> QED BY <1>2, <1>6, <4>2, SumsFit DEF P
      <3>2. CASE k = 0
        <4>1. c.y = 0
          BY <1>2, <3>2 DEF Ending
        <4>2. 0 \in 0..(k + 1) /\ P[k] = 0
          BY <1>4, <3>2 DEF Adds
        <4>3. P[k + 1] - P[0] = c.y + num
          BY <1>7, <3>2, <4>1, <4>2
        <4> QED BY <1>5, <3>1, <4>2, <4>3 DEF Ints
      <3>3. CASE k > 0
        <4>1. PICK m \in 0..(k - 1) : c.y = P[k] - P[m]
          BY <1>2, <3>3 DEF Ending
        <4>2. m \in 0..(k + 1) /\ m \in 0..Len(s)
          BY <1>1, <1>6
        <4>3. P[k] \in Int /\ P[m] \in Int
          BY <1>6, <1>7, <4>2
        <4>4. P[k + 1] - P[m] = c.y + num
          BY <1>7, <4>1, <4>3
        <4> QED BY <1>5, <3>1, <4>2, <4>4 DEF Ints
      <3> QED BY <1>6, <3>2, <3>3
    <2> QED BY <2>1, WrapSame
  <1>10. d.i = c.i /\ d.x = Larger(c.x, y) /\ d.y = y /\ d.at = "top"
    <2>1. d = [c EXCEPT !.y = y, !.x = Larger(c.x, y), !.buf = num, !.at = "top"]
      BY <1>9 DEF MaxSubarray
    <2> HIDE DEF y, d
    <2> QED BY <2>1 DEF TCB
  <1> HIDE DEF d, y
  <1>11. Len(s) - Len(g) = k + 1 /\ k + 1 >= 0
    BY <1>1, <1>6 DEF k
  <1>12. \A j \in 1..Len(g) : g[j] = s[(k + 1) + j]
    <2>1. SUFFICES ASSUME NEW j \in 1..Len(g)
                   PROVE  g[j] = s[(k + 1) + j]
      OBVIOUS
    <2>2. j + 1 \in 1..Len(f) /\ k + (j + 1) = (k + 1) + j
      BY <1>1, <1>6
    <2> QED BY <1>1, <1>2, <2>2
  <1>13. SubRight(d, g, s)
    BY <1>2, <1>8, <1>10, <1>11, <1>12 DEF SubRight, P
  <1> QED BY <1>13 DEF d, g, num

LEMMA SubCounts ==
  ASSUME NEW c \in TCB, c.at = "top", NEW f \in Seq(Items), NEW s \in Seq(Items),
         SubRight(c, f, s)
  PROVE  SubRight([c EXCEPT !.i = Wrap(@ + 1), !.at = "read"], f, s)
  <1> DEFINE k == Len(s) - Len(f)
             d == [c EXCEPT !.i = Wrap(@ + 1), !.at = "read"]
  <1>1. Len(s) \in Nat /\ Len(f) \in Nat
    OBVIOUS
  <1>2. Len(s) <= MaxItems /\ k >= 0 /\ c.i = k
    BY DEF SubRight
  <1>3. MaxInt \in Nat /\ MaxItems \in 0..(MaxInt - 1)
    BY ProgramAssumption
  <1>4. k + 1 \in Ints
    BY <1>1, <1>2, <1>3 DEF Ints
  <1>5. Wrap(c.i + 1) = k + 1
    BY <1>2, <1>4, WrapSame
  <1>6. d.i = k + 1 /\ d.at = "read" /\ d.x = c.x /\ d.y = c.y
    BY <1>5 DEF TCB
  <1> HIDE DEF d
  <1>7. SubRight(d, f, s)
    BY <1>6 DEF SubRight
  <1> QED BY <1>7 DEF d

LEMMA SubGets ==
  ASSUME NEW c, NEW f \in Seq(Items), NEW s \in Seq(Items), SubRight(c, f, s),
         Len(s) < MaxItems, NEW n \in Items
  PROVE  SubRight(c, Append(f, n), Append(s, n))
  <1> DEFINE k == Len(s) - Len(f)
             g == Append(f, n)
             t == Append(s, n)
             P == Sums(s)
             Q == Sums(t)
  <1>1. /\ Len(s) \in Nat /\ Len(f) \in Nat /\ g \in Seq(Items) /\ t \in Seq(Items)
        /\ Len(g) = Len(f) + 1 /\ Len(t) = Len(s) + 1
        /\ (\A j \in 1..Len(f) : g[j] = f[j]) /\ g[Len(f) + 1] = n
        /\ (\A j \in 1..Len(s) : t[j] = s[j]) /\ t[Len(s) + 1] = n
    OBVIOUS
  <1> HIDE DEF g, t
  <1>2. /\ Len(s) <= MaxItems /\ k >= 0
        /\ \A j \in 1..Len(f) : f[j] = s[k + j]
        /\ c.i = IF c.at = "read" THEN k + 1 ELSE k
        /\ Largest(P, k, c.x) /\ Ending(P, k, c.y)
    BY DEF SubRight
  <1>3. s \in Seq(Int) /\ t \in Seq(Int) /\ MaxItems \in Nat
    BY <1>1, ItemsAreNumbers, ProgramAssumption
  <1>4. \A i \in 0..Len(s) : P[i] = Q[i]
    <2>1. Len(s) <= Len(s) /\ Len(s) <= Len(t) /\ \A i \in 1..Len(s) : s[i] = t[i]
      BY <1>1
    <2> QED BY <1>1, <1>3, <2>1, SumsAgree
  <1>5. k \in 0..Len(s) /\ Len(t) - Len(g) = k
    BY <1>1, <1>2
  <1> HIDE DEF P, Q
  <1>6. Largest(Q, k, c.x) /\ Ending(Q, k, c.y)
    <2>1. /\ \A i \in 0..k : P[i] = Q[i] /\ \A m \in 0..i : P[m] = Q[m]
          /\ \A m \in 0..(k - 1) : P[m] = Q[m]
      BY <1>1, <1>4, <1>5
    <2>2. k \in 0..k
      BY <1>5
    <2> HIDE DEF k
    <2>3. Largest(Q, k, c.x)
      BY <1>2, <2>1 DEF Largest
    <2>4. Ending(Q, k, c.y)
      BY <1>2, <2>1, <2>2 DEF Ending
    <2> QED BY <2>3, <2>4
  <1>7. \A j \in 1..Len(g) : g[j] = t[k + j]
    <2>1. SUFFICES ASSUME NEW j \in 1..Len(g)
                   PROVE  g[j] = t[k + j]
      OBVIOUS
    <2>2. CASE j \in 1..Len(f)
      <3>1. k + j \in 1..Len(s)
        BY <1>1, <1>2, <2>2
      <3> QED BY <1>1, <1>2, <2>2, <3>1
    <2>3. CASE j \notin 1..Len(f)
      <3> DEFINE l == Len(f)
                 m == Len(s)
      <3>0. l \in Nat /\ m \in Nat /\ j \in 1..(l + 1) /\ j \notin 1..l /\ k = m - l
        BY <1>1, <2>3
      <3>1. j = Len(f) + 1 /\ k + j = Len(s) + 1
        <4> HIDE DEF l, m, k
        <4>1. j = l + 1 /\ k + j = m + 1
          BY <3>0
        <4> QED BY <4>1 DEF l, m
      <3> QED BY <1>1, <3>1
    <2> QED BY <2>2, <2>3
  <1>8. Len(t) <= MaxItems
    BY <1>1, <1>3
  <1> HIDE DEF k
  <1>9. SubRight(c, g, t)
    BY <1>2, <1>5, <1>6, <1>7, <1>8 DEF SubRight, Q
  <1> QED BY <1>9 DEF g, t

-------------------------------------------------------------------------------
(* The invariant. *)

LEMMA InitEstablishes ==
  ASSUME Init
  PROVE  IInv
  <1> DEFINE S == Created(arg)
             q == [k \in 0..(Len(Kind) - 1) |-> NoThread]
  <1>1. arg \in Args /\ arg \in [Threads -> -1..MaxInt] /\ S # {} /\ S \in SUBSET Threads
    BY ProgramAssumption DEF Init, Created
  <1>2. Cardinality(S) = One(1, S) + One(2, S) + One(3, S)
    BY <1>1, Positions
  <1>3. Cardinality(S) \in 1..3
    BY <1>1, <1>2, ThreeThreads DEF One
  <1> HIDE DEF S
  <1>4. /\ q \in [Slots -> Threads \cup {NoThread}]
        /\ Distinct(q, 0) /\ InQueue(q, 0) = {}
    BY ThreeThreads DEF Slots, Distinct, InQueue
  <1>5. /\ ready_queue = Appended(q, 0, S) /\ rq_size = 0 + Cardinality(S) /\ rq_current = 0
        /\ waiting_queue = {} /\ fdarray = {}
    BY <1>3 DEF Init, S
  <1> HIDE DEF q
  <1>6. /\ ready_queue \in [Slots -> Threads \cup {NoThread}]
        /\ Distinct(ready_queue, rq_size) /\ InQueue(ready_queue, rq_size) = S
    BY <1>1, <1>3, <1>4, <1>5, AppendedQueue, SMTT(20)
  <1>7. Ready = S
    BY <1>6 DEF Ready, InQueue
  <1>8. tcb \in [Threads -> TCB] /\ \A t \in Threads : tcb[t].at = "top"
    <2>1. 0 \in Ints /\ \A t \in Threads : arg[t] \in Ints
      BY <1>1, ProgramAssumption DEF Ints
    <2>2. \A t \in Threads : (IF Kind[t] = "collatz" THEN arg[t] ELSE 0) \in Ints
      BY <2>1
    <2> QED BY <2>1, <2>2 DEF Init, TCB
  <1>9. TypeOK
    <2>1. rq_size \in 0..3 /\ rq_current \in 0..2
      BY <1>3, <1>5
    <2>2. fifo \in [Threads -> Seq(Items)] /\ written \in [Threads -> Seq(Items)]
      BY DEF Init
    <2>3. /\ pc = "run" /\ src \in 1..3 /\ alarm = "armed"
          /\ writer \in [Threads -> {"none", "open", "closed"}]
      BY DEF Init
    <2>4. tstp \in BOOLEAN
      BY DEF Init
    <2>5. tcb \in [Threads -> [i : Ints, x : Ints, y : Ints, buf : Ints, at : {"top", "read"}]]
      BY <1>8 DEF TCB
    <2>6. /\ ready_queue \in [0..(Len(Kind) - 1) -> Threads \cup {NoThread}]
          /\ rq_size \in 0..Len(Kind) /\ rq_current \in 0..(Len(Kind) - 1)
      BY <1>6, <2>1, ThreeThreads DEF Slots
    <2>7. waiting_queue \in SUBSET Threads /\ fdarray \in SUBSET Threads
      BY <1>5
    <2> QED BY <1>1, <2>2, <2>3, <2>6, <2>7, <2>4, <2>5 DEF TypeOK
  <1>10. Queues
    BY <1>3, <1>5, <1>6, <1>7 DEF Queues, Init, S
  <1>11. Resuming
    BY <1>1, <1>5, <1>7, <1>8 DEF Resuming, Init, S
  <1>12. NobodyHungUp
    BY DEF NobodyHungUp, Init
  <1> QED BY <1>9, <1>10, <1>11, <1>12 DEF IInv

LEMMA StepKeeps ==
  ASSUME IInv, [Next]_vars, HangUps = {}
  PROVE  IInv'
  <1>1. CASE Step
    BY <1>1, ComputeKeeps, AsyncReadKeeps, ReadKeeps, WindowsKeep, ScheduleKeeps, PollKeeps
       DEF Step
  <1>2. CASE World
    BY <1>2, WorldKeeps
  <1>3. CASE UNCHANGED vars
    <2>1. TypeOK' /\ NobodyHungUp' /\ fifo' = fifo /\ UNCHANGED <<arg, queueVars, tcb>>
          /\ pc' = pc /\ src' = src
      BY <1>3 DEF IInv, TypeOK, NobodyHungUp, vars, queueVars, signalVars, fifoVars
    <2> QED BY <2>1, QuietStep
  <1> QED BY <1>1, <1>2, <1>3 DEF Next, Returned

\* IInv holds in every state, whatever the command line, the width of int and the
\* input, if no writer hangs up.
THEOREM Invariant ==
  ASSUME HangUps = {}
  PROVE  Spec => []IInv
  <1>1. Init => IInv
    BY InitEstablishes
  <1>2. IInv /\ [Next]_vars => IInv'
    BY StepKeeps
  <1> QED BY <1>1, <1>2, PTL DEF Spec

\* Ints never leave their width, queues never overflow their arrays.
THEOREM TypeCorrect ==
  ASSUME HangUps = {}
  PROVE  Spec => []TypeOK
  <1>1. IInv => TypeOK
    BY DEF IInv
  <1> QED BY <1>1, Invariant, PTL

\* The scheduler never resumes a left-over of the ready queue (threadtools.h:31).
THEOREM RunningIsInTheQueue ==
  ASSUME HangUps = {}
  PROVE  Spec => []CurrentIsReady
  <1>1. IInv => CurrentIsReady
    BY DEF IInv, Queues, CurrentIsReady
  <1> QED BY <1>1, Invariant, PTL

\* A thread is in one queue and in one place of it until it has come to the end
\* of its work (scheduler.c:26-51, 64-75).
THEOREM ThreadsAreNotLost ==
  ASSUME HangUps = {}
  PROVE  Spec => []NoThreadLost
  <1>1. IInv => NoThreadLost
    BY DEF IInv, Queues, Resuming, NoThreadLost, Distinct
  <1> QED BY <1>1, Invariant, PTL

\* A thread that is resumed at its read finds a number there (scheduler.c:26-45).
THEOREM WakeUpsBringInput ==
  ASSUME HangUps = {}
  PROVE  Spec => []WokenWithInput
  <1>1. IInv => WokenWithInput
    BY DEF IInv, Queues, Resuming, WokenWithInput
  <1> QED BY <1>1, Invariant, PTL

-------------------------------------------------------------------------------
(* The results. *)

Right ==
  \A t \in Threads : /\ Kind[t] = "fibonacci" => FibRight(tcb[t])
                     /\ Kind[t] = "max_subarray" => SubRight(tcb[t], fifo[t], written[t])

AfterRound == pc = "tstp_window" \/ (pc = "scheduler" /\ src = 3)

\* What is true of the running thread between its print and the next switch.
Shown ==
  AfterRound =>
    /\ Kind[RUNNING] = "fibonacci" =>
         tcb[RUNNING].y = Wrap(FibonacciNumber[tcb[RUNNING].i])
    /\ Kind[RUNNING] = "max_subarray" => tcb[RUNNING].at = "top"

LEMMA RightAtFirst ==
  ASSUME Init
  PROVE  Right /\ Shown
  <1>1. Shown
    BY DEF Init, Shown, AfterRound
  <1>2. ASSUME NEW t \in Threads, Kind[t] = "fibonacci"
        PROVE  FibRight(tcb[t])
    <2>1. tcb[t].i = 0
      BY <1>2 DEF Init
    <2> QED BY <2>1 DEF FibRight
  <1>3. ASSUME NEW t \in Threads, Kind[t] = "max_subarray"
        PROVE  SubRight(tcb[t], fifo[t], written[t])
    <2>1. /\ tcb[t].i = 0 /\ tcb[t].x = 0 /\ tcb[t].y = 0 /\ tcb[t].at = "top"
          /\ fifo[t] = <<>> /\ written[t] = <<>>
      BY <1>3 DEF Init
    <2>2. PICK s : s = <<>> /\ s \in Seq(Int)
      <3>1. <<>> \in Seq(Int)
        OBVIOUS
      <3> QED BY <3>1
    <2>3. Len(s) = 0
      BY <2>2
    <2>4. Adds(Sums(s), s)
      BY <2>2, SumsAdd
    <2>5. Sums(s)[0] = 0
      BY <2>4 DEF Adds
    <2>6. Largest(Sums(s), 0, 0) /\ Ending(Sums(s), 0, 0)
      BY <2>5 DEF Largest, Ending
    <2>7. MaxItems \in Nat
      BY ProgramAssumption
    <2>8. Len(s) - Len(s) = 0 /\ \A j \in 1..Len(s) : FALSE
      BY <2>3
    <2> QED BY <2>1, <2>2, <2>3, <2>6, <2>7, <2>8 DEF SubRight
  <1> QED BY <1>1, <1>2, <1>3 DEF Right

\* A thread that computes leaves the others what they have.
LEMMA OthersAreRight ==
  ASSUME IInv, Right, NEW c, tcb' = [tcb EXCEPT ![RUNNING] = c], RUNNING \in Threads,
         written' = written, \A t \in Threads \ {RUNNING} : fifo'[t] = fifo[t],
         Kind[RUNNING] = "fibonacci" => FibRight(c),
         Kind[RUNNING] = "max_subarray" => SubRight(c, fifo'[RUNNING], written[RUNNING])
  PROVE  Right'
  <1>1. tcb'[RUNNING] = c /\ \A t \in Threads \ {RUNNING} : tcb'[t] = tcb[t]
    BY DEF IInv, TypeOK
  <1>2. ASSUME NEW t \in Threads
        PROVE  /\ Kind[t] = "fibonacci" => FibRight(tcb'[t])
               /\ Kind[t] = "max_subarray" => SubRight(tcb'[t], fifo'[t], written'[t])
    <2>1. CASE t = RUNNING
      BY <1>1, <2>1
    <2>2. CASE t # RUNNING
      BY <1>1, <2>2 DEF Right
    <2> QED BY <2>1, <2>2
  <1> QED BY <1>2 DEF Right

LEMMA ComputeRight ==
  ASSUME IInv, Right, Compute
  PROVE  Right' /\ Shown'
  <1>1. RUNNING \in Threads /\ RUNNING' = RUNNING
    BY RunningIsReady DEF IInv, Compute, RUNNING, queueVars
  <1>2. tcb[RUNNING] \in TCB
    BY <1>1 DEF IInv, TypeOK, TCB
  <1>3. written' = written /\ fifo' = fifo
    BY DEF Compute, fifoVars
  <1>4. CASE Kind[RUNNING] = "fibonacci" /\ EndRound(RUNNING, Fibonacci(tcb[RUNNING]))
    <2> DEFINE c == Fibonacci(tcb[RUNNING])
    <2>1. FibRight(c) /\ c.y = Wrap(FibonacciNumber[c.i])
      BY <1>1, <1>2, <1>4, FibonacciRound DEF Right
    <2>2. tcb' = [tcb EXCEPT ![RUNNING] = c]
      BY <1>4 DEF EndRound
    <2> HIDE DEF c
    <2>3. Right'
      BY <1>1, <1>3, <1>4, <2>1, <2>2, OthersAreRight
    <2>4. tcb'[RUNNING] = c
      BY <1>1, <2>2 DEF IInv, TypeOK
    <2> QED BY <1>1, <1>4, <2>1, <2>3, <2>4 DEF Shown
  <1>5. CASE Kind[RUNNING] = "collatz" /\ EndRound(RUNNING, Collatz(tcb[RUNNING]))
    <2> DEFINE c == Collatz(tcb[RUNNING])
    <2>1. tcb' = [tcb EXCEPT ![RUNNING] = c]
      BY <1>5 DEF EndRound
    <2> HIDE DEF c
    <2>2. Right'
      BY <1>1, <1>3, <1>5, <2>1, OthersAreRight
    <2> QED BY <1>1, <1>5, <2>2 DEF Shown
  <1> QED BY <1>4, <1>5 DEF Compute

LEMMA AsyncReadRight ==
  ASSUME IInv, Right, AsyncRead
  PROVE  Right' /\ Shown'
  <1> DEFINE c == [tcb[RUNNING] EXCEPT !.i = Wrap(@ + 1), !.at = "read"]
  <1>1. RUNNING \in Threads
    BY RunningIsReady DEF IInv, AsyncRead
  <1>2. /\ tcb[RUNNING] \in TCB
        /\ fifo[RUNNING] \in Seq(Items) /\ written[RUNNING] \in Seq(Items)
    BY <1>1 DEF IInv, TypeOK, TCB
  <1>3. /\ Kind[RUNNING] = "max_subarray" /\ tcb[RUNNING].at = "top"
        /\ written' = written /\ fifo' = fifo /\ pc' = "scheduler" /\ src' = 2
    BY DEF AsyncRead, fifoVars
  <1>4. SubRight(c, fifo[RUNNING], written[RUNNING])
    <2>1. SubRight(tcb[RUNNING], fifo[RUNNING], written[RUNNING])
      BY <1>1, <1>3 DEF Right
    <2> QED BY <1>2, <1>3, <2>1, SubCounts
  <1>5. tcb' = [tcb EXCEPT ![RUNNING] = c]
    <2>1. tcb' = [tcb EXCEPT ![RUNNING].i = Wrap(@ + 1), ![RUNNING].at = "read"]
      BY DEF AsyncRead
    <2>2. tcb \in [Threads -> TCB]
      BY DEF IInv, TypeOK, TCB
    <2> QED BY <1>1, <2>1, <2>2 DEF TCB
  <1> HIDE DEF c
  <1>6. Right'
    BY <1>1, <1>3, <1>4, <1>5, OthersAreRight
  <1>7. Shown'
    BY <1>3 DEF Shown, AfterRound
  <1> QED BY <1>6, <1>7

LEMMA ReadRight ==
  ASSUME IInv, Right, Read
  PROVE  Right' /\ Shown'
  <1>1. RUNNING \in Threads /\ RUNNING \in Ready /\ RUNNING' = RUNNING
    BY RunningIsReady DEF IInv, Read, RUNNING, queueVars
  <1>2. /\ tcb[RUNNING] \in TCB
        /\ fifo[RUNNING] \in Seq(Items) /\ written[RUNNING] \in Seq(Items)
    BY <1>1 DEF IInv, TypeOK, TCB
  <1>3. Kind[RUNNING] = "max_subarray" /\ tcb[RUNNING].at = "read" /\ written' = written
    BY DEF Read
  <1>4. fifo[RUNNING] # <<>>
    BY <1>1, <1>3 DEF IInv, Resuming, Read
  <1> DEFINE c == MaxSubarray(tcb[RUNNING], Head(fifo[RUNNING]))
  <1>5. tcb' = [tcb EXCEPT ![RUNNING] = c]
    BY <1>4 DEF Read, EndRound
  <1>6. /\ fifo'[RUNNING] = Tail(fifo[RUNNING])
        /\ \A t \in Threads \ {RUNNING} : fifo'[t] = fifo[t]
    BY <1>1, <1>4 DEF Read, IInv, TypeOK
  <1>7. SubRight(c, Tail(fifo[RUNNING]), written[RUNNING])
    <2>1. SubRight(tcb[RUNNING], fifo[RUNNING], written[RUNNING])
      BY <1>1, <1>3 DEF Right
    <2> QED BY <1>2, <1>3, <1>4, <2>1, SubRound
  <1>8. c.at = "top"
    <2>1. Head(fifo[RUNNING]) \in Ints
      <3>1. Head(fifo[RUNNING]) \in Items
        BY <1>2, <1>4
      <3> QED BY <3>1, ProgramAssumption
    <2> QED BY <1>2, <2>1, RoundTypes
  <1> HIDE DEF c
  <1>9. Right'
    BY <1>1, <1>3, <1>5, <1>6, <1>7, OthersAreRight
  <1>10. tcb'[RUNNING] = c
    BY <1>1, <1>5 DEF IInv, TypeOK
  <1> QED BY <1>1, <1>3, <1>8, <1>9, <1>10 DEF Shown

LEMMA WriteRight ==
  ASSUME IInv, Right, Shown, NEW t \in Threads, Write(t)
  PROVE  Right' /\ Shown'
  <1>1. PICK n \in Items : /\ fifo' = [fifo EXCEPT ![t] = Append(@, n)]
                           /\ written' = [written EXCEPT ![t] = Append(@, n)]
    BY DEF Write
  <1>2. UNCHANGED <<queueVars, tcb, pc, src>> /\ Len(written[t]) < MaxItems
    BY DEF Write
  <1>3. fifo[t] \in Seq(Items) /\ written[t] \in Seq(Items)
    BY DEF IInv, TypeOK
  <1>4. /\ fifo'[t] = Append(fifo[t], n) /\ written'[t] = Append(written[t], n)
        /\ \A u \in Threads \ {t} : fifo'[u] = fifo[u] /\ written'[u] = written[u]
    BY <1>1 DEF IInv, TypeOK
  <1>5. Kind[t] = "max_subarray" => SubRight(tcb[t], fifo'[t], written'[t])
    <2>1. SUFFICES ASSUME Kind[t] = "max_subarray"
                   PROVE  SubRight(tcb[t], fifo'[t], written'[t])
      OBVIOUS
    <2>2. SubRight(tcb[t], fifo[t], written[t])
      BY <2>1 DEF Right
    <2>3. PICK c : c = tcb[t]
      OBVIOUS
    <2>4. SubRight(c, Append(fifo[t], n), Append(written[t], n))
      BY <1>2, <1>3, <2>2, <2>3, SubGets
    <2> QED BY <1>4, <2>3, <2>4
  <1>6. Right'
    BY <1>2, <1>4, <1>5 DEF Right
  <1>7. Shown'
    BY <1>2 DEF Shown, AfterRound, RUNNING, queueVars
  <1> QED BY <1>6, <1>7

LEMMA StepRight ==
  ASSUME IInv, Right, Shown, [Next]_vars
  PROVE  Right' /\ Shown'
  <1>1. ASSUME UNCHANGED <<tcb, fifo, written>>,
               \/ UNCHANGED <<queueVars, pc, src>>
               \/ pc' \in {"run", "poll", "returned", "alrm_window"}
               \/ pc' = "scheduler" /\ src' = 1
        PROVE  Right' /\ Shown'
    <2>1. Right'
      BY <1>1 DEF Right
    <2>2. CASE UNCHANGED <<queueVars, pc, src>>
      <3>1. RUNNING' = RUNNING
        BY <2>2 DEF RUNNING, queueVars
      <3> QED BY <1>1, <2>1, <2>2, <3>1 DEF Shown, AfterRound
    <2>3. CASE ~(UNCHANGED <<queueVars, pc, src>>)
      BY <1>1, <2>1, <2>3 DEF Shown, AfterRound
    <2> QED BY <2>2, <2>3
  <1>2. CASE Compute \/ AsyncRead \/ Read
    BY <1>2, ComputeRight, AsyncReadRight, ReadRight
  <1>3. CASE TakeTstp \/ TakeAlrm
    <2>1. /\ UNCHANGED <<tcb, fifo, written>>
          /\ pc' = "alrm_window" \/ pc' = "run" \/ (pc' = "scheduler" /\ src' = 1)
      BY <1>3 DEF TakeTstp, TakeAlrm, fifoVars
    <2> QED BY <1>1, <2>1
  <1>4. CASE Schedule \/ Poll
    <2>1. UNCHANGED <<tcb, fifo, written>> /\ pc' \in {"run", "poll", "returned"}
      BY <1>4 DEF Schedule, Poll, fifoVars
    <2> QED BY <1>1, <2>1
  <1>5. ASSUME NEW t \in Threads, Write(t)
        PROVE  Right' /\ Shown'
    BY <1>5, WriteRight
  <1>6. CASE TimerExpires \/ SendTstp
    <2>1. UNCHANGED <<tcb, fifo, written>> /\ UNCHANGED <<queueVars, pc, src>>
      BY <1>6 DEF TimerExpires, SendTstp, fifoVars
    <2> QED BY <1>1, <2>1
  <1>7. ASSUME NEW t \in Threads, OpenFifo(t) \/ CloseFifo(t)
        PROVE  Right' /\ Shown'
    <2>1. UNCHANGED <<tcb, fifo, written>> /\ UNCHANGED <<queueVars, pc, src>>
      BY <1>7 DEF OpenFifo, CloseFifo
    <2> QED BY <1>1, <2>1
  <1>8. CASE UNCHANGED vars
    <2>1. UNCHANGED <<tcb, fifo, written>> /\ UNCHANGED <<queueVars, pc, src>>
      BY <1>8 DEF vars, fifoVars
    <2> QED BY <1>1, <2>1
  <1> QED BY <1>2, <1>3, <1>4, <1>5, <1>6, <1>7, <1>8 DEF Next, Step, World, Feed, Returned

\* Whatever the signals interrupt and in whatever order the FIFOs are fed, what is
\* printed is the Fibonacci number of the round, or the largest sum of a subarray of
\* what has been read (threads.c:9-18, 57-66): no switch makes a thread lose, skip
\* or take twice a number or a round.
THEOREM ThreadsPrintResults ==
  ASSUME HangUps = {}
  PROVE  Spec => []ResultsRight
  <1>1. Init => Right /\ Shown
    BY RightAtFirst
  <1>2. IInv /\ Right /\ Shown /\ [Next]_vars => Right' /\ Shown'
    BY StepRight
  <1>3. ASSUME IInv, Right, Shown, AfterRound
        PROVE  LET c == tcb[RUNNING] IN
               /\ Kind[RUNNING] = "fibonacci" => c.y = Wrap(FibonacciNumber[c.i])
               /\ Kind[RUNNING] = "max_subarray" =>
                    c.x = LargestSum(SubSeq(written[RUNNING], 1, c.i))
    <2>1. RUNNING \in Threads
      BY <1>3, RunningIsReady DEF IInv, AfterRound
    <2>2. ASSUME Kind[RUNNING] = "max_subarray"
          PROVE  tcb[RUNNING].x = LargestSum(SubSeq(written[RUNNING], 1, tcb[RUNNING].i))
      <3>1. PICK c \in TCB : c = tcb[RUNNING]
        BY <1>3, <2>1 DEF IInv, TypeOK, TCB
      <3>2. PICK s \in Seq(Items) : s = written[RUNNING]
        BY <1>3, <2>1 DEF IInv, TypeOK
      <3>3. PICK f \in Seq(Items) : f = fifo[RUNNING]
        BY <1>3, <2>1 DEF IInv, TypeOK
      <3>4. SubRight(c, f, s) /\ c.at = "top"
        BY <1>3, <2>1, <2>2, <3>1, <3>2, <3>3 DEF Right, Shown
      <3>5. c.i = Len(s) - Len(f) /\ c.i >= 0 /\ Largest(Sums(s), c.i, c.x)
        BY <3>4 DEF SubRight
      <3>6. c.i \in 0..Len(s) /\ Len(s) \in Nat /\ Len(f) \in Nat
        BY <3>5
      <3>7. s \in Seq(Int) /\ c.x \in Int
        BY ItemsAreNumbers, ProgramAssumption DEF TCB, Ints
      <3>8. LargestSum(SubSeq(s, 1, c.i)) = c.x
        BY <3>5, <3>6, <3>7, LargestIs
      <3> QED BY <3>1, <3>2, <3>8
    <2> QED BY <1>3, <2>2 DEF Shown
  <1>4. IInv /\ Right /\ Shown => ResultsRight
    BY <1>3 DEF ResultsRight, AfterRound
  <1> QED BY <1>1, <1>2, <1>4, Invariant, PTL DEF Spec

===============================================================================
