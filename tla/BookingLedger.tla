---------------------------- MODULE BookingLedger -----------------------------
(***************************************************************************)
(* What the booking system promises its clients, with no server, socket or *)
(* lock table in it.  A session looks at one user's booking state, either  *)
(* to read it or to change it once.  Sessions that read the same user may  *)
(* overlap; one that changes a user excludes every other session of that   *)
(* user, so what a session was shown stays true while it lasts.            *)
(***************************************************************************)
EXTENDS BookingRecords

CONSTANTS
  Users,      \* the user ids (902001-902020 in the code)
  Sessions    \* the connections that can exist, over all servers

VARIABLES
  ledger,     \* ledger[u]: the booking state of user u
  readers,    \* readers[u]: the sessions reading u
  writers     \* writers[u]: the session changing u, if there is one

ledgerVars == <<ledger, readers, writers>>

Idle(c) == \A u \in Users : c \notin readers[u] \cup writers[u]

LedgerInit == /\ ledger \in [Users -> {r \in Booking : Legal(r)}]
              /\ readers = [u \in Users |-> {}]
              /\ writers = [u \in Users |-> {}]

OpenRead(c, u) == /\ Idle(c)
                  /\ writers[u] = {}
                  /\ readers' = [readers EXCEPT ![u] = @ \cup {c}]
                  /\ UNCHANGED <<ledger, writers>>

OpenWrite(c, u) == /\ Idle(c)
                   /\ readers[u] = {} /\ writers[u] = {}
                   /\ writers' = [writers EXCEPT ![u] = {c}]
                   /\ UNCHANGED <<ledger, readers>>

\* The one change a session makes ends it.
Update(c, u) == /\ writers[u] = {c}
                /\ \E d \in Mixtures :
                     /\ Legal(Plus(ledger[u], d))
                     /\ ledger' = [ledger EXCEPT ![u] = Plus(@, d)]
                /\ writers' = [writers EXCEPT ![u] = {}]
                /\ UNCHANGED readers

\* Any number of sessions end without a change: one whose client leaves or is
\* refused, or all those of a server that stops.
Close(C) == /\ readers' = [u \in Users |-> readers[u] \ C]
            /\ writers' = [u \in Users |-> writers[u] \ C]
            /\ UNCHANGED ledger

LedgerNext == \/ \E c \in Sessions, u \in Users :
                   OpenRead(c, u) \/ OpenWrite(c, u) \/ Update(c, u)
              \/ \E C \in SUBSET Sessions : Close(C)

LedgerSpec == LedgerInit /\ [][LedgerNext]_ledgerVars
===============================================================================
