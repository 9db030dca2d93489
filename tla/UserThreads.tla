----------------------------- MODULE UserThreads ------------------------------
(***************************************************************************)
(* hw3_thread-library: user-level threads on one process.  The running     *)
(* thread is RUNNING, the one at rq_current of ready_queue; it enters the  *)
(* scheduler by a signal taken in thread_yield (1), by async_read (2) or   *)
(* by thread_exit (3).  Signals are blocked everywhere but in the two      *)
(* windows of thread_yield; timers, users and writers of the FIFOs act at  *)
(* any moment.  A step of the process is what it does between two points   *)
(* where what they did can matter.                                         *)
(***************************************************************************)
EXTENDS Integers, Sequences, FiniteSets

CONSTANTS
  Args,            \* the command lines: what fib_arg, col_arg and sub_arg may be
  HangUps,         \* those of Args whose writers may close a FIFO they have opened
  MaxInt,          \* the largest int
  Items,           \* the numbers written to the FIFOs
  MaxItems         \* bound: numbers written to a FIFO

\* init_threads creates the threads in this order, which is also that of their
\* fd_index; one whose argument is negative is not created.
Kind == <<"fibonacci", "collatz", "max_subarray">>
Threads == 1..Len(Kind)
Created(a) == {t \in Threads : a[t] >= 0}
NoThread == 0

Ints == (-MaxInt - 1)..MaxInt

\* The scheduler jumps to the first thread: there is one.  The numbers of a FIFO
\* are too few and too small for a count or a sum of them to overflow.
ASSUME ProgramAssumption ==
  /\ MaxInt \in Nat \ {0} /\ MaxItems \in 0..(MaxInt - 1)
  /\ \A a \in Args : a \in [Threads -> -1..MaxInt] /\ Created(a) # {}
  /\ HangUps \subseteq Args
  /\ \A n \in Items : n \in Ints /\ MaxItems * n \in (-MaxInt)..MaxInt

VARIABLES
  arg,             \* arg[t]: the argument of the thread
  ready_queue,     \* the array; its slots from rq_size on are left-overs
  rq_size,
  rq_current,
  waiting_queue,   \* the threads in it: the code never depends on their order
  fdarray,         \* the threads whose entry polls their FIFO (fd is not -1)
  tcb,             \* tcb[t]: variables, buffer and where to resume
  pc,              \* where the process is
  src,             \* how the scheduler was entered
  alarm,           \* the timer: armed, or its SIGALRM is pending
  tstp,            \* whether a SIGTSTP is pending
  fifo,            \* fifo[t]: numbers written and not yet read
  written,         \* written[t]: all the numbers written so far
  writer           \* writer[t]: none has been, open, or closed by the last

queueVars  == <<ready_queue, rq_size, rq_current, waiting_queue, fdarray>>
signalVars == <<alarm, tstp>>
fifoVars   == <<fifo, written, writer>>
vars == <<arg, queueVars, tcb, pc, src, signalVars, fifoVars>>

\* What an int is left with: the build does not trap an overflow.
Wrap(n) == ((n + MaxInt + 1) % (2 * MaxInt + 2)) - (MaxInt + 1)

RUNNING == ready_queue[rq_current]
Ready == {ready_queue[k] : k \in 0..(rq_size - 1)}

TypeOK ==
  /\ arg \in Args
  /\ ready_queue \in [0..(Len(Kind) - 1) -> Threads \cup {NoThread}]
  /\ rq_size \in 0..Len(Kind) /\ rq_current \in 0..(Len(Kind) - 1)
  /\ waiting_queue \in SUBSET Threads /\ fdarray \in SUBSET Threads
  /\ tcb \in [Threads -> [i : Ints, x : Ints, y : Ints, buf : Ints, at : {"top", "read"}]]
  /\ pc \in {"run", "tstp_window", "alrm_window", "scheduler", "poll", "returned"}
  /\ src \in 1..3
  /\ alarm \in {"armed", "pending"} /\ tstp \in BOOLEAN
  /\ fifo \in [Threads -> Seq(Items)] /\ written \in [Threads -> Seq(Items)]
  /\ writer \in [Threads -> {"none", "open", "closed"}]

Position(t, S) == Cardinality({u \in S : u < t})

\* The queue with the threads of S, in their order, behind the first size ones.
Appended(queue, size, S) ==
  [k \in DOMAIN queue |->
     IF \E t \in S : k = size + Position(t, S)
     THEN CHOOSE t \in S : k = size + Position(t, S)
     ELSE queue[k]]

\* init_threads, thread_setup for every thread, the alarm, and the first jump of
\* the scheduler.  A thread starts at the top of its loop; i is one short of its
\* first value, or for collatz the argument itself.
Init ==
  /\ arg \in Args
  /\ ready_queue = Appended([k \in 0..(Len(Kind) - 1) |-> NoThread], 0, Created(arg))
  /\ rq_size = Cardinality(Created(arg)) /\ rq_current = 0
  /\ waiting_queue = {} /\ fdarray = {}
  /\ tcb = [t \in Threads |->
              [i |-> IF Kind[t] = "collatz" THEN arg[t] ELSE 0,
               x |-> 0, y |-> 0, buf |-> 0, at |-> "top"]]
  /\ pc = "run" /\ src = 1
  /\ alarm = "armed" /\ tstp = FALSE
  /\ fifo = [t \in Threads |-> <<>>]
  /\ written = [t \in Threads |-> <<>>]
  /\ writer = [t \in Threads |-> "none"]

-------------------------------------------------------------------------------
(* The thread functions: an iteration of each. *)

Fibonacci(c) ==
  LET i == Wrap(c.i + 1) IN
  [c EXCEPT !.i = i, !.x = IF i <= 2 THEN 1 ELSE c.y,
                     !.y = IF i <= 2 THEN 1 ELSE Wrap(c.x + c.y)]

Collatz(c) == [c EXCEPT !.i = IF @ % 2 = 0 THEN @ \div 2 ELSE Wrap(3 * @ + 1)]

Larger(m, n) == IF m > n THEN m ELSE n

\* Faulty: the best sum is compared with the running sum of the round before.
MaxSubarray_Late(c, num) == [c EXCEPT !.y = Larger(num, Wrap(c.y + num)), !.x = Larger(c.x, c.y),
                                      !.buf = num, !.at = "top"]

\* What follows the read of num.
MaxSubarray(c, num) == LET y == Larger(num, Wrap(c.y + num)) IN
                       [c EXCEPT !.y = y, !.x = Larger(c.x, y), !.buf = num, !.at = "top"]

LastRound(t, c) == IF Kind[t] = "collatz" THEN c.i = 1 ELSE c.i = arg[t]

\* After an iteration a thread exits, or yields.
EndRound(t, c) ==
  /\ tcb' = [tcb EXCEPT ![t] = c]
  /\ IF LastRound(t, c) THEN pc' = "scheduler" /\ src' = 3
                        ELSE pc' = "tstp_window" /\ src' = src

Compute ==
  /\ pc = "run"
  /\ \/ Kind[RUNNING] = "fibonacci" /\ EndRound(RUNNING, Fibonacci(tcb[RUNNING]))
     \/ Kind[RUNNING] = "collatz" /\ EndRound(RUNNING, Collatz(tcb[RUNNING]))
  /\ UNCHANGED <<arg, queueVars, signalVars, fifoVars>>

\* async_read: the thread is to be resumed at its read.
AsyncRead ==
  /\ pc = "run"
  /\ Kind[RUNNING] = "max_subarray" /\ tcb[RUNNING].at = "top"
  /\ tcb' = [tcb EXCEPT ![RUNNING].i = Wrap(@ + 1), ![RUNNING].at = "read"]
  /\ pc' = "scheduler" /\ src' = 2
  /\ UNCHANGED <<arg, queueVars, signalVars, fifoVars>>

\* The descriptor is non-blocking: with nothing to read the buffer stays as
\* it is, and the number in it is taken once more.
Read ==
  LET t   == RUNNING
      num == IF fifo[t] = <<>> THEN tcb[t].buf ELSE Head(fifo[t])
  IN
  /\ pc = "run"
  /\ Kind[t] = "max_subarray" /\ tcb[t].at = "read"
  /\ EndRound(t, MaxSubarray(tcb[t], num))
  /\ fifo' = [fifo EXCEPT ![t] = IF @ = <<>> THEN @ ELSE Tail(@)]
  /\ UNCHANGED <<arg, queueVars, signalVars, written, writer>>

-------------------------------------------------------------------------------
(* thread_yield: SIGTSTP is let in first, then SIGALRM. *)

\* Faulty: the window for SIGTSTP is missing.
TakeTstp_NoWindow ==
  /\ pc = "tstp_window" /\ pc' = "alrm_window"
  /\ UNCHANGED <<arg, queueVars, tcb, src, signalVars, fifoVars>>

TakeTstp ==
  /\ pc = "tstp_window"
  /\ \/ tstp /\ tstp' = FALSE /\ pc' = "scheduler" /\ src' = 1
     \/ ~tstp /\ pc' = "alrm_window" /\ UNCHANGED <<tstp, src>>
  /\ UNCHANGED <<arg, queueVars, tcb, alarm, fifoVars>>

\* Faulty: sighandler does not arm the timer again.
TakeAlrm_Once ==
  /\ pc = "alrm_window"
  /\ \/ alarm = "pending" /\ alarm' = "off" /\ pc' = "scheduler" /\ src' = 1
     \/ alarm # "pending" /\ pc' = "run" /\ UNCHANGED <<alarm, src>>
  /\ UNCHANGED <<arg, queueVars, tcb, tstp, fifoVars>>

\* sighandler arms the timer again.
TakeAlrm ==
  /\ pc = "alrm_window"
  /\ \/ alarm = "pending" /\ alarm' = "armed" /\ pc' = "scheduler" /\ src' = 1
     \/ alarm = "armed" /\ pc' = "run" /\ UNCHANGED <<alarm, src>>
  /\ UNCHANGED <<arg, queueVars, tcb, tstp, fifoVars>>

-------------------------------------------------------------------------------
(* The scheduler. *)

\* revents: POLLIN with data, POLLHUP when the last writer has closed.
Revents(t) == (IF fifo[t] # <<>> THEN {"POLLIN"} ELSE {})
                \cup (IF writer[t] = "closed" THEN {"POLLHUP"} ELSE {})
Polled == {t \in fdarray : Revents(t) # {}}

\* Faulty: any event will do.
Moved_AnyEvent == Polled

\* move_queue takes the entries whose revents are POLLIN, in the order of their
\* index, and appends their threads to the ready queue.
Moved == {t \in Polled : Revents(t) = {"POLLIN"}}

\* Faulty: no thread takes the place of RUNNING.
Filled_Nothing(queue, size) == queue
\* Faulty: the place is compared with the size before RUNNING has left.
CurrentAfterFill_OldSize(size) == IF rq_current = size THEN 0 ELSE rq_current

\* fill: the last thread of the queue takes the place of RUNNING, which leaves.
Filled(queue, size) == [queue EXCEPT ![rq_current] = queue[size - 1]]
CurrentAfterFill(size) == IF rq_current = size - 1 THEN 0 ELSE rq_current

\* After a signal it is the next thread's turn.
NextCurrent(size) == IF rq_current = size - 1 THEN 0 ELSE rq_current + 1

Schedule ==
  LET moved == Moved \cap waiting_queue
      queue == Appended(ready_queue, rq_size, moved)
      size  == rq_size + Cardinality(moved)
  IN
  /\ pc = "scheduler"
  /\ \/ /\ src = 1
        /\ rq_current' = NextCurrent(size)
        /\ ready_queue' = queue /\ rq_size' = size
        /\ waiting_queue' = waiting_queue \ moved /\ fdarray' = fdarray \ Moved
        /\ pc' = "run"
     \/ /\ src \in {2, 3}
        /\ ready_queue' = Filled(queue, size) /\ rq_size' = size - 1
        /\ rq_current' = CurrentAfterFill(size)
        /\ waiting_queue' = (waiting_queue \ moved)
                              \cup (IF src = 2 THEN {RUNNING} ELSE {})
        /\ fdarray' = (fdarray \ Moved) \cup (IF src = 2 THEN {RUNNING} ELSE {})
        /\ pc' = IF size > 1 THEN "run"
                 ELSE IF waiting_queue' = {} THEN "returned" ELSE "poll"
  /\ UNCHANGED <<arg, tcb, src, signalVars, fifoVars>>

\* Nobody is ready: poll blocks until some entry has an event.  An event that
\* is not POLLIN alone moves nobody, and RUNNING is then a left-over slot.
Poll ==
  LET moved == Moved \cap waiting_queue IN
  /\ pc = "poll"
  /\ Polled # {}
  /\ ready_queue' = Appended(ready_queue, rq_size, moved)
  /\ rq_size' = rq_size + Cardinality(moved)
  /\ waiting_queue' = waiting_queue \ moved /\ fdarray' = fdarray \ Moved
  /\ rq_current' = 0
  /\ pc' = "run"
  /\ UNCHANGED <<arg, tcb, src, signalVars, fifoVars>>

-------------------------------------------------------------------------------
(* The world outside. *)

TimerExpires == /\ pc # "returned" /\ alarm = "armed"
                /\ alarm' = "pending"
                /\ UNCHANGED <<arg, queueVars, tcb, pc, src, tstp, fifoVars>>

SendTstp == /\ pc # "returned" /\ ~tstp
            /\ tstp' = TRUE
            /\ UNCHANGED <<arg, queueVars, tcb, pc, src, alarm, fifoVars>>

\* Opening for writing waits for the reader: thread_setup has opened it.
OpenFifo(t) == /\ pc # "returned" /\ Kind[t] = "max_subarray" /\ t \in Created(arg)
               /\ writer[t] # "open" /\ Len(written[t]) < MaxItems
               /\ writer' = [writer EXCEPT ![t] = "open"]
               /\ UNCHANGED <<arg, queueVars, tcb, pc, src, signalVars, fifo, written>>

Write(t) == /\ pc # "returned" /\ writer[t] = "open"
            /\ Len(written[t]) < MaxItems
            /\ \E n \in Items :
                 /\ fifo' = [fifo EXCEPT ![t] = Append(@, n)]
                 /\ written' = [written EXCEPT ![t] = Append(@, n)]
            /\ UNCHANGED <<arg, queueVars, tcb, pc, src, signalVars, writer>>

CloseFifo(t) == /\ pc # "returned" /\ arg \in HangUps /\ writer[t] = "open"
                /\ writer' = [writer EXCEPT ![t] = "closed"]
                /\ UNCHANGED <<arg, queueVars, tcb, pc, src, signalVars, fifo, written>>

\* The scheduler has returned to main.
Returned == pc = "returned" /\ UNCHANGED vars

-------------------------------------------------------------------------------

Step == Compute \/ AsyncRead \/ Read \/ TakeTstp \/ TakeAlrm \/ Schedule \/ Poll
Feed(t) == OpenFifo(t) \/ Write(t)
World == \/ TimerExpires \/ SendTstp
         \/ \E t \in Threads : Feed(t) \/ CloseFifo(t)

Next == Step \/ World \/ Returned

Spec == Init /\ [][Next]_vars

\* The process runs, time passes, and whoever feeds a FIFO goes on.
FairSpec == /\ Spec /\ WF_vars(Step) /\ WF_vars(TimerExpires)
            /\ \A t \in Threads : WF_vars(Feed(t))

-------------------------------------------------------------------------------
(* Safety. *)

\* threadtools.h:31: rq_current is the current thread in the ready queue.
\* RUNNING is never a left-over of the array while a thread runs.
CurrentIsReady ==
  pc \notin {"poll", "returned"} => rq_current < rq_size

\* No switch loses or doubles a thread: the queues hold different threads, and
\* a thread in neither has come to the end of its work (scheduler.c:26-51,
\* 64-75).
NoThreadLost ==
  /\ \A j, k \in 0..(rq_size - 1) : ready_queue[j] = ready_queue[k] => j = k
  /\ Ready \cap waiting_queue = {}
  /\ \A t \in Created(arg) \ (Ready \cup waiting_queue) : LastRound(t, tcb[t])

\* A waiting thread is polled for, and its wake-up is not spent on another: it
\* finds a number when it is resumed at its read (scheduler.c:26-45, 66-71).
WokenWithInput ==
  /\ fdarray = waiting_queue
  /\ \A t \in Ready : tcb[t].at = "read" =>
       fifo[t] # <<>> \/ (pc = "scheduler" /\ src = 2 /\ t = RUNNING)

\* 1 up to the second, as far as an int counts.
FibonacciNumber[n \in Ints] ==
  IF n <= 2 THEN 1 ELSE FibonacciNumber[n - 1] + FibonacciNumber[n - 2]

\* Sums(s)[n]: the sum of the first n numbers of s.
Sums(s) == LET sum[n \in 0..Len(s)] == IF n = 0 THEN 0 ELSE sum[n - 1] + s[n] IN sum

\* The largest sum of consecutive numbers of s, of none at the least.
LargestSum(s) ==
  LET sums == UNION {{Sums(s)[n] - Sums(s)[m] : m \in 0..n} : n \in 0..Len(s)} IN
  CHOOSE n \in sums : \A m \in sums : m <= n

\* However the threads are interleaved, what a thread prints after its round is
\* the Fibonacci number of the round, as much of it as an int holds, or the largest
\* sum of a subarray of the numbers written to it so far (threads.c:9-18, 57-66).
ResultsRight ==
  pc = "tstp_window" \/ (pc = "scheduler" /\ src = 3) =>
    LET c == tcb[RUNNING] IN
    /\ Kind[RUNNING] = "fibonacci" => c.y = Wrap(FibonacciNumber[c.i])
    /\ Kind[RUNNING] = "max_subarray" =>
         c.x = LargestSum(SubSeq(written[RUNNING], 1, c.i))

-------------------------------------------------------------------------------
(* Liveness, under FairSpec. *)

\* The numbers that follow n until 1, as the mathematicians have them.
CollatzNumber[n \in Nat, k \in Nat] ==
  IF k = 0 THEN n
  ELSE LET c == CollatzNumber[n, k - 1] IN IF c % 2 = 0 THEN c \div 2 ELSE 3 * c + 1

\* fibonacci and max_subarray of 0, collatz of 0 and a collatz whose numbers
\* outgrow an int may go on for ever.
HasEnd(t) ==
  IF Kind[t] = "collatz"
  THEN \E k \in 1..MaxInt : /\ CollatzNumber[arg[t], k] = 1
                             /\ \A j \in 1..k : CollatzNumber[arg[t], j] <= MaxInt
  ELSE arg[t] > 0

Gone(t) == t \notin Ready \cup waiting_queue

\* A thread that has an end reaches it, however the signals fall and beside a
\* thread that never ends (a collatz that overflows), which the timer interrupts;
\* but for a thread whose FIFO the last writer closes, which is not woken for what
\* it holds (scheduler.c:53-86, threads.c:30-51).
ThreadsExit ==
  \A t \in Threads : t \in Created(arg) /\ HasEnd(t) ~> Gone(t) \/ writer[t] = "closed"

\* A SIGTSTP sent while threads are left is taken.
TstpIsTaken == tstp ~> (~tstp \/ pc = "returned")
===============================================================================
