--------------------------- MODULE MCBookingServer ----------------------------
(* Values for the constants of BookingServer: small sets of servers, users    *)
(* and lines.                                                                 *)
EXTENDS BookingServer

CONSTANTS r1, w1, w2, u1

Amounts(f, c, e) == [food |-> f, concert |-> c, elecs |-> e]

MCInitialBookings == [u \in Users |-> Amounts(1, 0, 0)]

\* One item more; one more of another object or one less.
MCOneDelta == {Amounts(1, 0, 0)}
MCMixedDeltas == {Amounts(0, 1, 0), Amounts(-1, 0, 0)}

MCTwoEach == [s \in Servers |-> 2]
MCTwoReaders == [s \in Servers |-> IF s \in ReadServers THEN 2 ELSE 1]
MCTwoOne == [s \in Servers |-> IF s = w1 THEN 2 ELSE 1]

ReaderLines == Users \cup Deltas \cup {ExitLine}
WriterLines == Users \cup Deltas \cup {ShortLine}
SplitLines  == Users \cup Deltas \cup {Half, CtrlC}
===============================================================================
