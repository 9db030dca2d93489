---------------------------- MODULE BookingRecords ----------------------------
(***************************************************************************)
(* The data of the booking system: a user's booking state is a number of   *)
(* items of each of the three objects (OBJ_NUM, server.c:16), a command is *)
(* a change of each of these numbers.                                      *)
(***************************************************************************)
EXTENDS Integers

CONSTANTS
  MaxTotal,   \* the most items a user may hold (15 in the code)
  Deltas      \* the well-formed booking commands the clients can type

Booking == [food : Int, concert : Int, elecs : Int]

ASSUME MaxTotalAssumption == MaxTotal \in Nat
ASSUME DeltasAssumption == Deltas \subseteq Booking

Plus(r, d) == [food    |-> r.food + d.food,
               concert |-> r.concert + d.concert,
               elecs   |-> r.elecs + d.elecs]

\* What the checks of a command let through: no amount below 0, at most
\* MaxTotal items together.
Legal(r) == /\ r.food >= 0 /\ r.concert >= 0 /\ r.elecs >= 0
            /\ r.food + r.concert + r.elecs <= MaxTotal

\* A command with fewer than three words leaves the remaining words as they
\* are on the stack: those of an earlier command of any client, or no characters,
\* which count as 0.
Mixtures == [food    : {0} \cup {d.food : d \in Deltas},
             concert : {0} \cup {d.concert : d \in Deltas},
             elecs   : {0} \cup {d.elecs : d \in Deltas}]
===============================================================================
