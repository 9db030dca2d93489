----------------------------- MODULE MCUserThreads ----------------------------
(* Programs as in sample_execution.sh, with smaller arguments and a narrower int: *)
(* collatz of 3 outgrows 5 bits and never ends, as that of 113383 does 32 bits.   *)
EXTENDS UserThreads

\* A thread of each function, with or without an end; two threads, and one
\* alone, whose eighth Fibonacci number outgrows an int.
Endless == <<2, 3, 2>>
Programs == {<<4, 1, 3>>, Endless, <<2, -1, 2>>, <<8, -1, -1>>}
EndlessHangUps == {Endless}
\* ./main 3 2 -1 3: sample_3.
FibAndSub == {<<2, -1, 3>>}
SomeItems == {-2, 3}
OneItem == {1}
===============================================================================
