---------------------------- MODULE BookingServer -----------------------------
(***************************************************************************)
(* hw1_csiebooking/server.c: the read servers and write servers that share *)
(* the file bookingRecord.  Every server is a process of its own running a *)
(* select loop over its connections; they meet in the file and in the      *)
(* kernel's record locks on it.  A step is what a server does between two  *)
(* accesses to what it shares with the others: the lock of an id, the read *)
(* of a record, the write of a record.                                     *)
(***************************************************************************)
EXTENDS BookingRecords, Sequences, FiniteSets

CONSTANTS
  ReadServers, WriteServers,   \* the processes built with READ_/WRITE_SERVER
  Users,                       \* the ids 902001-902020
  NoUser,                      \* id 0: the client has not given its id yet
  InitialBookings,             \* contents of the file at the start
  MaxFds,                      \* bound: the largest FdLimit
  FdLimit,                     \* FdLimit[s]: connections process s can have open
  MaxBacklog,                  \* bound: connections waiting for accept
  MaxInbox,                    \* bound: segments waiting on a connection
  ClientLines,                 \* what clients type, a subset of Lines
  ExitLine,                    \* "Exit"
  BadLine,                     \* a line that is no number and no command
  ShortLine,                   \* a booking command with a word missing
  CtrlC,                       \* the telnet interrupt bytes IAC_IP
  Half,                        \* the first segment of a line sent in two
  Malformed,                   \* ERROR_NUM
  Departures,                  \* how clients leave: "closed", "reset"
  MayKill                      \* whether processes are killed from outside

Servers == ReadServers \cup WriteServers
ListenFd == 0                  \* lower than every connection's descriptor
Fds == 1..MaxFds
Lines == Users \cup Deltas \cup {ExitLine, BadLine, ShortLine, CtrlC}
Blank == [shown |-> FALSE, rec |-> [food |-> 0, concert |-> 0, elecs |-> 0]]
Shown(r) == [shown |-> TRUE, rec |-> r]
Stopped == {"err_newline", "err_accept", "sigpipe", "killed"}

ASSUME ServersAssumption == ReadServers \cap WriteServers = {}
ASSUME UsersAssumption == NoUser \notin Users
ASSUME LinesAssumption == /\ ClientLines \subseteq Lines \cup {Half}
                          /\ Half \notin Lines
                          /\ Malformed \notin Mixtures \cup Deltas
ASSUME InitialAssumption ==
  /\ InitialBookings \in [Users -> Booking]
  /\ \A u \in Users : Legal(InitialBookings[u])
ASSUME BoundsAssumption == /\ MaxFds \in Nat /\ FdLimit \in [Servers -> 0..MaxFds]
                           /\ MaxBacklog \in Nat /\ MaxInbox \in Nat /\ MayKill \in BOOLEAN
                           /\ Departures \subseteq {"closed", "reset"}

VARIABLES
  bookings,    \* the file: bookings[u]
  flock,       \* flock[u][s]: the kernel's lock of process s on u's record
  arr,         \* arr[s][u]: the connections of s that share its lock on u
  requestP,    \* requestP[s][fd]: the id field of the request slot
  master_set,  \* master_set[s]: the connections s waits on
  inbox,       \* inbox[s][fd]: segments received and not yet read
  peer,        \* peer[s][fd]: the client's end: open, closed or reset
  screen,      \* screen[s][fd]: the booking state the client was shown
  backlog,     \* backlog[s]: connections completed and not yet accepted
  pc,          \* pc[s]: where s is, or why it stopped
  working,     \* working[s]: descriptors of working_set still to be handled
  cur,         \* cur[s]: the connection being handled (i of main)
  target,      \* target[s]: the record read for the command
  param        \* param[s]: the record about to be written

lockVars == <<flock, arr>>
connVars == <<requestP, master_set, inbox, peer, screen, backlog>>
cmdVars  == <<cur, target, param>>
vars == <<bookings, lockVars, connVars, pc, working, cmdVars>>

Zero == Blank.rec

TypeOK ==
  /\ bookings \in [Users -> Booking]
  /\ flock \in [Users -> [Servers -> {"none", "rd", "wr"}]]
  /\ arr \in [Servers -> [Users -> Nat]]
  /\ requestP \in [Servers -> [Fds -> Users \cup {NoUser}]]
  /\ master_set \in [Servers -> SUBSET Fds]
  /\ inbox \in [Servers -> [Fds -> Seq(Lines \cup {Half})]]
  /\ peer \in [Servers -> [Fds -> {"open", "closed", "reset"}]]
  /\ screen \in [Servers -> [Fds -> [shown : BOOLEAN, rec : Booking]]]
  /\ backlog \in [Servers -> Nat]
  /\ pc \in [Servers -> {"scan", "show", "store"} \cup Stopped]
  /\ working \in [Servers -> SUBSET (Fds \cup {ListenFd})]
  /\ cur \in [Servers -> Fds \cup {ListenFd}]
  /\ target \in [Servers -> Booking]
  /\ param \in [Servers -> Booking]

Init ==
  /\ bookings = InitialBookings
  /\ flock = [u \in Users |-> [s \in Servers |-> "none"]]
  /\ arr = [s \in Servers |-> [u \in Users |-> 0]]
  /\ requestP = [s \in Servers |-> [fd \in Fds |-> NoUser]]
  /\ master_set = [s \in Servers |-> {}]
  /\ inbox = [s \in Servers |-> [fd \in Fds |-> <<>>]]
  /\ peer = [s \in Servers |-> [fd \in Fds |-> "open"]]
  /\ screen = [s \in Servers |-> [fd \in Fds |-> Blank]]
  /\ backlog = [s \in Servers |-> 0]
  /\ pc = [s \in Servers |-> "scan"]
  /\ working = [s \in Servers |-> {}]
  /\ cur = [s \in Servers |-> ListenFd]
  /\ target = [s \in Servers |-> Zero]
  /\ param = [s \in Servers |-> Zero]

-------------------------------------------------------------------------------
(* The kernel's part. *)

\* What select reports: a connection with data or whose client has gone, and
\* the listening socket when a connection waits to be accepted.
Ready(s) ==
  {fd \in master_set[s] : inbox[s][fd] # <<>> \/ peer[s][fd] # "open"}
    \cup (IF backlog[s] > 0 THEN {ListenFd} ELSE {})

\* Faulty: a write lock is granted beside read locks.
FcntlGrants_IgnoresReaders(s, u, type) == \A t \in Servers \ {s} : flock[u][t] # "wr"
\* Faulty: there are no locks between processes.
FcntlGrants_Always(s, u, type) == TRUE

\* F_SETLK of process s on u's record: other processes' locks conflict, those
\* the process holds already do not.
FcntlGrants(s, u, type) ==
  \A t \in Servers \ {s} :
    flock[u][t] = "none" \/ (type = "rd" /\ flock[u][t] = "rd")

\* What a server keeps of a command that is done with is never looked at again.
Forget(s) == /\ cur' = [cur EXCEPT ![s] = ListenFd]
             /\ target' = [target EXCEPT ![s] = Zero]
             /\ param' = [param EXCEPT ![s] = Zero]

\* The end of a process: the kernel closes its sockets and drops its locks.
\* Nothing of the process survives but what it wrote to the file.
Exit(s, why) ==
  /\ pc' = [pc EXCEPT ![s] = why]
  /\ flock' = [u \in Users |-> [flock[u] EXCEPT ![s] = "none"]]
  /\ arr' = [arr EXCEPT ![s] = [u \in Users |-> 0]]
  /\ requestP' = [requestP EXCEPT ![s] = [fd \in Fds |-> NoUser]]
  /\ master_set' = [master_set EXCEPT ![s] = {}]
  /\ inbox' = [inbox EXCEPT ![s] = [fd \in Fds |-> <<>>]]
  /\ peer' = [peer EXCEPT ![s] = [fd \in Fds |-> "open"]]
  /\ screen' = [screen EXCEPT ![s] = [fd \in Fds |-> Blank]]
  /\ backlog' = [backlog EXCEPT ![s] = 0]
  /\ working' = [working EXCEPT ![s] = {}]
  /\ Forget(s)
  /\ UNCHANGED bookings

-------------------------------------------------------------------------------
(* The select loop. *)

\* Faulty: only the first of the ready descriptors is handled in a pass.
Select_FirstOnly(s) ==
  /\ pc[s] = "scan" /\ working[s] = {}
  /\ Ready(s) # {}
  /\ working' = [working EXCEPT ![s] = {fd \in Ready(s) : \A g \in Ready(s) : fd <= g}]
  /\ UNCHANGED <<bookings, lockVars, connVars, pc, cmdVars>>

Select(s) ==
  /\ pc[s] = "scan" /\ working[s] = {}
  /\ Ready(s) # {}
  /\ working' = [working EXCEPT ![s] = Ready(s)]
  /\ UNCHANGED <<bookings, lockVars, connVars, pc, cmdVars>>

\* The descriptors of a pass are handled in ascending order.
Turn(s, fd) == /\ pc[s] = "scan"
               /\ fd \in working[s]
               /\ \A g \in working[s] : fd <= g

Handled(s, fd) == working' = [working EXCEPT ![s] = @ \ {fd}]

\* accept takes the lowest free descriptor.
Accept(s) ==
  /\ Turn(s, ListenFd)
  /\ \E fd \in 1..FdLimit[s] \ master_set[s] :
       /\ \A g \in 1..FdLimit[s] \ master_set[s] : fd <= g
       /\ master_set' = [master_set EXCEPT ![s] = @ \cup {fd}]
  /\ backlog' = [backlog EXCEPT ![s] = @ - 1]
  /\ Handled(s, ListenFd)
  /\ UNCHANGED <<bookings, lockVars, requestP, inbox, peer, screen, pc, cmdVars>>

\* accept with a full descriptor table fails with EMFILE: ERR_EXIT.
AcceptFails(s) == /\ Turn(s, ListenFd)
                  /\ 1..FdLimit[s] \subseteq master_set[s]
                  /\ Exit(s, "err_accept")

\* Faulty: the record is unlocked while others still share its lock.
Disconnect_AlwaysUnlocks(s, fd, lock) ==
  LET u == requestP[s][fd] IN
  /\ \/ /\ lock
        /\ arr' = [arr EXCEPT ![s][u] = @ - 1]
        /\ flock' = [flock EXCEPT ![u][s] = "none"]
     \/ ~lock /\ UNCHANGED lockVars
  /\ master_set' = [master_set EXCEPT ![s] = @ \ {fd}]
  /\ requestP' = [requestP EXCEPT ![s][fd] = NoUser]
  /\ inbox' = [inbox EXCEPT ![s][fd] = <<>>]
  /\ peer' = [peer EXCEPT ![s][fd] = "open"]
  /\ screen' = [screen EXCEPT ![s][fd] = Blank]
  /\ UNCHANGED backlog
\* Faulty: free_request is forgotten, the slot keeps the id.
Disconnect_KeepsId(s, fd, lock) ==
  LET u == requestP[s][fd] IN
  /\ \/ /\ lock
        /\ arr' = [arr EXCEPT ![s][u] = @ - 1]
        /\ flock' = IF arr[s][u] = 1 THEN [flock EXCEPT ![u][s] = "none"] ELSE flock
     \/ ~lock /\ UNCHANGED lockVars
  /\ master_set' = [master_set EXCEPT ![s] = @ \ {fd}]
  /\ inbox' = [inbox EXCEPT ![s][fd] = <<>>]
  /\ peer' = [peer EXCEPT ![s][fd] = "open"]
  /\ screen' = [screen EXCEPT ![s][fd] = Blank]
  /\ UNCHANGED <<requestP, backlog>>

\* disconnect(i, file_fd, lock): give up a share of the lock, drop the lock
\* with its last share, close the connection and clear its slot.
Disconnect(s, fd, lock) ==
  LET u == requestP[s][fd] IN
  /\ \/ /\ lock
        /\ arr' = [arr EXCEPT ![s][u] = @ - 1]
        /\ flock' = IF arr[s][u] = 1 THEN [flock EXCEPT ![u][s] = "none"] ELSE flock
     \/ ~lock /\ UNCHANGED lockVars
  /\ master_set' = [master_set EXCEPT ![s] = @ \ {fd}]
  /\ requestP' = [requestP EXCEPT ![s][fd] = NoUser]
  /\ inbox' = [inbox EXCEPT ![s][fd] = <<>>]
  /\ peer' = [peer EXCEPT ![s][fd] = "open"]
  /\ screen' = [screen EXCEPT ![s][fd] = Blank]
  /\ UNCHANGED backlog

-------------------------------------------------------------------------------
(* handle_read: one read takes every segment that has arrived, and only the  *)
(* first line of them is kept.                                               *)

NoNewline(q) == \A i \in 1..Len(q) : q[i] \in {Half, CtrlC}

HasLine(s, fd) == inbox[s][fd] # <<>> /\ ~NoNewline(inbox[s][fd])

LineOf(q) == IF Head(q) = Half /\ q[2] # CtrlC THEN q[2]
             ELSE IF Head(q) \in {Half, CtrlC} THEN BadLine
             ELSE Head(q)

Line(s, fd) == LineOf(inbox[s][fd])

\* A returned error leaves the connection as it is.
ReadFails(s, fd) ==
  /\ Turn(s, fd)
  /\ inbox[s][fd] = <<>> /\ peer[s][fd] = "reset"
  /\ peer' = [peer EXCEPT ![s][fd] = "closed"]
  /\ Handled(s, fd)
  /\ UNCHANGED <<bookings, lockVars, requestP, master_set, inbox, screen, backlog,
                 pc, cmdVars>>

\* Faulty: the end of file is passed over like a read error.
HangUp_Continues(s, fd) ==
  /\ Turn(s, fd)
  /\ inbox[s][fd] = <<>> /\ peer[s][fd] = "closed"
  /\ Handled(s, fd)
  /\ UNCHANGED <<bookings, lockVars, connVars, pc, cmdVars>>

\* End of file, or the interrupt key: the client is gone.
HangUp(s, fd) ==
  /\ Turn(s, fd)
  /\ \/ inbox[s][fd] = <<>> /\ peer[s][fd] = "closed"
     \/ /\ inbox[s][fd] # <<>> /\ NoNewline(inbox[s][fd])
        /\ Head(inbox[s][fd]) = CtrlC
  /\ Disconnect(s, fd, requestP[s][fd] # NoUser)
  /\ Handled(s, fd)
  /\ UNCHANGED <<bookings, pc, cmdVars>>

\* "this really should not happen...": data without the end of a line.
NoNewlineExit(s, fd) ==
  /\ Turn(s, fd)
  /\ inbox[s][fd] # <<>> /\ NoNewline(inbox[s][fd])
  /\ Head(inbox[s][fd]) # CtrlC
  /\ Exit(s, "err_newline")

-------------------------------------------------------------------------------
(* initialize: the first line of a connection is the client's id. *)

LockType(s) == IF s \in ReadServers THEN "rd" ELSE "wr"

\* Faulty: a write server relies on the kernel alone.
MayLock_KernelOnly(s, u) == FcntlGrants(s, u, LockType(s))

\* A write server must also refuse an id it holds itself: the kernel would
\* grant it the lock again.
MayLock(s, u) == /\ FcntlGrants(s, u, LockType(s))
                 /\ s \in WriteServers => arr[s][u] # 1

IdLine(s, fd) == Turn(s, fd) /\ HasLine(s, fd) /\ requestP[s][fd] = NoUser

\* No valid id, or "Locked.".
Refuse(s, fd) ==
  /\ IdLine(s, fd)
  /\ Line(s, fd) \in Users => ~MayLock(s, Line(s, fd))
  /\ Disconnect(s, fd, FALSE)
  /\ Handled(s, fd)
  /\ UNCHANGED <<bookings, pc, cmdVars>>

Grant(s, fd) ==
  LET u == Line(s, fd) IN
  /\ IdLine(s, fd)
  /\ u \in Users /\ MayLock(s, u)
  /\ requestP' = [requestP EXCEPT ![s][fd] = u]
  /\ flock' = [flock EXCEPT ![u][s] = LockType(s)]
  /\ arr' = [arr EXCEPT ![s][u] = @ + 1]
  /\ inbox' = [inbox EXCEPT ![s][fd] = <<>>]
  /\ cur' = [cur EXCEPT ![s] = fd]
  /\ pc' = [pc EXCEPT ![s] = "show"]
  /\ Handled(s, fd)
  /\ UNCHANGED <<bookings, master_set, peer, screen, backlog, target, param>>

\* The record is read under the lock and sent to the client.
Show(s) ==
  LET fd == cur[s] IN
  /\ pc[s] = "show"
  /\ screen' = [screen EXCEPT ![s][fd] = Shown(bookings[requestP[s][fd]])]
  /\ pc' = [pc EXCEPT ![s] = "scan"]
  /\ Forget(s)
  /\ UNCHANGED <<bookings, lockVars, requestP, master_set, inbox, peer, backlog,
                 working>>

-------------------------------------------------------------------------------
(* The second line of a connection. *)

NextLine(s, fd) == Turn(s, fd) /\ HasLine(s, fd) /\ requestP[s][fd] # NoUser

\* A read server waits for "Exit" and ignores anything else.
Leave(s, fd) ==
  /\ NextLine(s, fd) /\ s \in ReadServers
  /\ Line(s, fd) = ExitLine
  /\ Disconnect(s, fd, TRUE)
  /\ Handled(s, fd)
  /\ UNCHANGED <<bookings, pc, cmdVars>>

\* Faulty: any second line gives up the share of the lock.
Ignore_ReleasesLock(s, fd) ==
  /\ NextLine(s, fd) /\ s \in ReadServers
  /\ Line(s, fd) # ExitLine
  /\ arr' = [arr EXCEPT ![s][requestP[s][fd]] = @ - 1]
  /\ inbox' = [inbox EXCEPT ![s][fd] = <<>>]
  /\ Handled(s, fd)
  /\ UNCHANGED <<bookings, flock, requestP, master_set, peer, screen, backlog,
                 pc, cmdVars>>

Ignore(s, fd) ==
  /\ NextLine(s, fd) /\ s \in ReadServers
  /\ Line(s, fd) # ExitLine
  /\ inbox' = [inbox EXCEPT ![s][fd] = <<>>]
  /\ Handled(s, fd)
  /\ UNCHANGED <<bookings, lockVars, requestP, master_set, peer, screen, backlog,
                 pc, cmdVars>>

\* The three amounts sscanf and convert make of a line.  With words missing
\* the others are whatever the stack holds: undefined behaviour.
Params(line) == IF line \in Deltas THEN {line}
                ELSE IF line = ShortLine THEN Mixtures \cup {Malformed}
                ELSE {Malformed}

\* Faulty: each object is compared with the limit, not their sum.
Accepted_EachAlone(s, fd) ==
  {d \in Params(Line(s, fd)) \ {Malformed} :
     LET r == Plus(bookings[requestP[s][fd]], d) IN
     \A n \in {r.food, r.concert, r.elecs} : n >= 0 /\ n <= MaxTotal}

\* The amounts that line makes and that the checks let through.
Accepted(s, fd) ==
  {d \in Params(Line(s, fd)) \ {Malformed} :
     Legal(Plus(bookings[requestP[s][fd]], d))}

\* No command, below 0 items, or more than MaxTotal items: an error reply.
RejectCommand(s, fd) ==
  /\ NextLine(s, fd) /\ s \in WriteServers
  /\ Params(Line(s, fd)) \ Accepted(s, fd) # {}
  /\ Disconnect(s, fd, TRUE)
  /\ Handled(s, fd)
  /\ UNCHANGED <<bookings, pc, cmdVars>>

\* The record is read, the new state computed and announced to the client.
AcceptCommand(s, fd) ==
  LET u == requestP[s][fd] IN
  /\ NextLine(s, fd) /\ s \in WriteServers
  /\ \E d \in Accepted(s, fd) :
       param' = [param EXCEPT ![s] = Plus(bookings[u], d)]
  /\ target' = [target EXCEPT ![s] = bookings[u]]
  /\ inbox' = [inbox EXCEPT ![s][fd] = <<>>]
  /\ cur' = [cur EXCEPT ![s] = fd]
  /\ pc' = [pc EXCEPT ![s] = "store"]
  /\ Handled(s, fd)
  /\ UNCHANGED <<bookings, lockVars, requestP, master_set, peer, screen, backlog>>

\* Faulty: the connection stays after its update.
Store_KeepsSession(s) ==
  /\ pc[s] = "store"
  /\ bookings' = [bookings EXCEPT ![requestP[s][cur[s]]] = param[s]]
  /\ pc' = [pc EXCEPT ![s] = "scan"]
  /\ Forget(s)
  /\ UNCHANGED <<lockVars, connVars, working>>

\* Only now the record is written, and the connection closed.
Store(s) ==
  /\ pc[s] = "store"
  /\ bookings' = [bookings EXCEPT ![requestP[s][cur[s]]] = param[s]]
  /\ Disconnect(s, cur[s], TRUE)
  /\ pc' = [pc EXCEPT ![s] = "scan"]
  /\ Forget(s)
  /\ UNCHANGED working

\* The connection a server is about to write replies to.
Replying(s, fd) ==
  \/ pc[s] \in {"show", "store"} /\ cur[s] = fd
  \/ IdLine(s, fd)
  \/ NextLine(s, fd) /\ s \in WriteServers

\* SIGPIPE is not ignored: replies to a client that has left end the process,
\* when the kernel has learnt of it in time.
SigPipe(s, fd) == /\ Replying(s, fd)
                  /\ peer[s][fd] # "open"
                  /\ Exit(s, "sigpipe")

-------------------------------------------------------------------------------
(* Clients and operators. *)

Connect(s) ==
  /\ pc[s] \notin Stopped
  /\ backlog[s] < MaxBacklog
  /\ backlog' = [backlog EXCEPT ![s] = @ + 1]
  /\ UNCHANGED <<bookings, lockVars, requestP, master_set, inbox, peer, screen,
                 pc, working, cmdVars>>

\* A line sent in two segments starts on an empty connection.
Send(s, fd) ==
  /\ fd \in master_set[s] /\ peer[s][fd] = "open"
  /\ Len(inbox[s][fd]) < MaxInbox
  /\ \E m \in ClientLines :
       /\ m = Half => inbox[s][fd] = <<>>
       /\ inbox' = [inbox EXCEPT ![s][fd] = Append(@, m)]
  /\ UNCHANGED <<bookings, lockVars, requestP, master_set, peer, screen, backlog,
                 pc, working, cmdVars>>

Depart(s, fd) ==
  /\ fd \in master_set[s] /\ peer[s][fd] = "open"
  /\ \E how \in Departures : peer' = [peer EXCEPT ![s][fd] = how]
  /\ UNCHANGED <<bookings, lockVars, requestP, master_set, inbox, screen, backlog,
                 pc, working, cmdVars>>

Kill(s) == MayKill /\ pc[s] \notin Stopped /\ Exit(s, "killed")

\* A new process: init_server and the zeroing of arr find all as Exit left it.
Restart(s) ==
  /\ pc[s] \in Stopped
  /\ pc' = [pc EXCEPT ![s] = "scan"]
  /\ UNCHANGED <<bookings, lockVars, connVars, working, cmdVars>>

-------------------------------------------------------------------------------

\* What the process of server s does by itself.
ServerStep(s) ==
  \/ Select(s) \/ Accept(s) \/ AcceptFails(s) \/ Show(s) \/ Store(s)
  \/ \E fd \in Fds :
       \/ ReadFails(s, fd) \/ HangUp(s, fd) \/ NoNewlineExit(s, fd)
       \/ Refuse(s, fd) \/ Grant(s, fd) \/ Leave(s, fd) \/ Ignore(s, fd)
       \/ RejectCommand(s, fd) \/ AcceptCommand(s, fd) \/ SigPipe(s, fd)

Environment(s) == \/ Connect(s) \/ Kill(s) \/ Restart(s)
                  \/ \E fd \in Fds : Send(s, fd) \/ Depart(s, fd)

Next == \E s \in Servers : ServerStep(s) \/ Environment(s)

Spec == Init /\ [][Next]_vars

\* The scheduler runs every server; nothing is assumed of the clients.
FairSpec == Spec /\ \A s \in Servers : WF_vars(ServerStep(s))

-------------------------------------------------------------------------------
(* Safety. *)

OwnSlots(slots, u) == {fd \in Fds : slots[fd] = u}

\* The lock control array and the kernel's table tell the same story: arr
\* counts the connections that share a process's lock, and the process has a
\* lock, of its kind, exactly while the count is not 0 (server.c:113-133,
\* 173-208).  A lock no connection accounts for would never be given back.
LocksMatchSessions ==
  \A s \in Servers, u \in Users :
    /\ arr[s][u] = Cardinality(OwnSlots(requestP[s], u))
    /\ flock[u][s] = IF OwnSlots(requestP[s], u) = {} THEN "none" ELSE LockType(s)

\* A pass handles only connections that are still open, and a descriptor that is
\* given to a new client has nothing left of the client before it
\* (server.c:130-132, 429-435): not its id, and so not its right to a user.
SlotsMatchConnections ==
  \A s \in Servers :
    /\ working[s] \subseteq master_set[s] \cup {ListenFd}
    /\ \A fd \in Fds \ master_set[s] : requestP[s][fd] = NoUser /\ inbox[s][fd] = <<>>

\* A client that may write a user's bookings excludes every other client of
\* that user, on this process (where fcntl does not help) as on all others;
\* readers share (server.c:168-211).
WriterExcludes ==
  \A s \in WriteServers, u \in Users :
    OwnSlots(requestP[s], u) # {} =>
      /\ \A t \in Servers \ {s} : OwnSlots(requestP[t], u) = {}
      /\ \A fd, g \in OwnSlots(requestP[s], u) : fd = g

\* Between the read of a record and its write back (server.c:363-405) no other
\* process writes it: the write computes the new state from the current one,
\* and does not undo somebody's update.
NoLostUpdate ==
  \A s \in Servers : pc[s] = "store" =>
    /\ requestP[s][cur[s]] \in Users
    /\ target[s] = bookings[requestP[s][cur[s]]]
    /\ Legal(param[s])

\* What a client was shown of a user stays true as long as it is connected
\* (server.c:210-217 under the lock of 173-208).
ScreenFresh ==
  \A s \in Servers, fd \in Fds : screen[s][fd].shown =>
    /\ requestP[s][fd] \in Users
    /\ screen[s][fd].rec = bookings[requestP[s][fd]]

\* Whatever the interleaving of the servers and wherever they stop, the file
\* holds no negative amount and no user with more than MaxTotal items.
RecordsLegal == \A u \in Users : Legal(bookings[u])

-------------------------------------------------------------------------------
(* The promise to the clients: BookingLedger, with a session for every slot.  *)

Slots == Servers \X Fds
SlotsOf(S, u) == {c \in S \X Fds : requestP[c[1]][c[2]] = u}

Ledger == INSTANCE BookingLedger WITH
            Sessions <- Slots,
            ledger   <- bookings,
            readers  <- [u \in Users |-> SlotsOf(ReadServers, u)],
            writers  <- [u \in Users |-> SlotsOf(WriteServers, u)]

\* Select loops, descriptors, record locks and lock counts together implement
\* the ledger: a change of a record is one session's one legal command,
\* made while it is alone with the user, and ends the session.
ImplementsLedger == Ledger!LedgerSpec

-------------------------------------------------------------------------------
(* Liveness, under FairSpec. *)

\* No client waits for ever in a server's pass: what has arrived is taken.
LinesAreTaken ==
  \A s \in Servers, fd \in Fds : inbox[s][fd] # <<>> ~> inbox[s][fd] = <<>>

\* A client that goes away, in whatever manner, gives its user back.
DepartedGivesBack ==
  \A s \in Servers, fd \in Fds, u \in Users :
    (requestP[s][fd] = u /\ peer[s][fd] # "open") ~> requestP[s][fd] # u

===============================================================================
