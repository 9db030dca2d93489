------------------------- MODULE BookingServer_proofs -------------------------
(***************************************************************************)
(* Proofs about BookingServer, for every number of servers, users,         *)
(* descriptors and every set of client lines.                              *)
(***************************************************************************)
EXTENDS BookingServer, FiniteSetTheorems, TLAPS

\* The connection a server is in the middle of serving has an open session;
\* only write servers store, and only what a command makes of the record read.
Handling ==
  \A s \in Servers :
    /\ pc[s] \in {"show", "store"} => /\ cur[s] \in Fds
                                      /\ requestP[s][cur[s]] \in Users
    /\ pc[s] = "store" => /\ s \in WriteServers
                          /\ \E d \in Mixtures : param[s] = Plus(target[s], d)

\* The listening socket stays ready until its turn, and a connection that is
\* being served has had its turn in the pass.
Passing ==
  \A s \in Servers :
    /\ ListenFd \in working[s] => backlog[s] > 0
    /\ pc[s] \in {"show", "store"} => cur[s] \in master_set[s] \ working[s]

\* The invariants about locks, sessions and records, and what makes them
\* inductive.
Core == /\ LocksMatchSessions /\ WriterExcludes /\ Handling
        /\ NoLostUpdate /\ ScreenFresh /\ RecordsLegal

IInv == TypeOK /\ Core /\ Passing /\ SlotsMatchConnections

\* The part of the state Core speaks of.
kept == <<bookings, flock, arr, requestP, screen, pc, cur, target, param>>

-------------------------------------------------------------------------------
(* Types. *)

\* The record of zeros, and what a client is shown, are well typed.
LEMMA ZeroIsBooking == /\ Zero \in Booking
                       /\ Blank \in [shown : BOOLEAN, rec : Booking]
                       /\ \A r \in Booking : Shown(r) \in [shown : BOOLEAN, rec : Booking]
  BY DEF Zero, Blank, Booking, Shown

\* Adding a command to a record gives a record.
LEMMA PlusIsBooking ==
  ASSUME NEW r \in Booking, NEW d \in Booking
  PROVE  Plus(r, d) \in Booking
  BY DEF Plus, Booking

\* Every amount that passes for a command is one.
LEMMA ParamsAreBookings ==
  ASSUME NEW line
  PROVE  /\ Params(line) \ {Malformed} \subseteq Mixtures
         /\ Mixtures \subseteq Booking
  BY DeltasAssumption DEF Params, Mixtures, Booking

\* Descriptors are finitely many numbers, the listening socket not among them.
LEMMA FdsAreNumbers == Fds \subseteq Nat /\ ListenFd \notin Fds /\ IsFiniteSet(Fds)
  BY FS_Interval, BoundsAssumption DEF Fds, ListenFd

\* The end of a process leaves its variables well typed.
LEMMA ExitTypes ==
  ASSUME TypeOK, NEW s \in Servers, NEW why \in Stopped, Exit(s, why)
  PROVE  TypeOK'
  <1>1. flock' \in [Users -> [Servers -> {"none", "rd", "wr"}]]
    BY DEF TypeOK, Exit
  <1>2. arr' \in [Servers -> [Users -> Nat]]
    BY DEF TypeOK, Exit
  <1>3. requestP' \in [Servers -> [Fds -> Users \cup {NoUser}]]
    BY DEF TypeOK, Exit
  <1>4. /\ inbox' \in [Servers -> [Fds -> Seq(Lines \cup {Half})]]
        /\ peer' \in [Servers -> [Fds -> {"open", "closed", "reset"}]]
    BY DEF TypeOK, Exit
  <1>5. screen' \in [Servers -> [Fds -> [shown : BOOLEAN, rec : Booking]]]
    BY ZeroIsBooking DEF TypeOK, Exit
  <1>6. /\ master_set' \in [Servers -> SUBSET Fds]
        /\ backlog' \in [Servers -> Nat]
        /\ working' \in [Servers -> SUBSET (Fds \cup {ListenFd})]
        /\ bookings' \in [Users -> Booking]
    BY DEF TypeOK, Exit
  <1>7. /\ pc' \in [Servers -> {"scan", "show", "store"} \cup Stopped]
        /\ cur' \in [Servers -> Fds \cup {ListenFd}]
        /\ target' \in [Servers -> Booking]
        /\ param' \in [Servers -> Booking]
    BY ZeroIsBooking DEF TypeOK, Exit, Forget
  <1> QED BY <1>1, <1>2, <1>3, <1>4, <1>5, <1>6, <1>7 DEF TypeOK

\* So does the end of a connection that has, or has not, a share of a lock.
LEMMA DisconnectTypes ==
  ASSUME TypeOK, LocksMatchSessions, NEW s \in Servers, NEW fd \in Fds,
         NEW lock \in BOOLEAN, lock => requestP[s][fd] # NoUser,
         Disconnect(s, fd, lock)
  PROVE  /\ flock' \in [Users -> [Servers -> {"none", "rd", "wr"}]]
         /\ arr' \in [Servers -> [Users -> Nat]]
         /\ requestP' \in [Servers -> [Fds -> Users \cup {NoUser}]]
         /\ master_set' \in [Servers -> SUBSET Fds]
         /\ inbox' \in [Servers -> [Fds -> Seq(Lines \cup {Half})]]
         /\ peer' \in [Servers -> [Fds -> {"open", "closed", "reset"}]]
         /\ screen' \in [Servers -> [Fds -> [shown : BOOLEAN, rec : Booking]]]
         /\ backlog' \in [Servers -> Nat]
  <1> DEFINE u == requestP[s][fd]
  <1>1. /\ flock' \in [Users -> [Servers -> {"none", "rd", "wr"}]]
        /\ arr' \in [Servers -> [Users -> Nat]]
    <2>1. CASE ~lock
      BY <2>1 DEF Disconnect, lockVars, TypeOK
    <2>2. CASE lock
      <3>1. u \in Users
        BY <2>2 DEF TypeOK
      <3>2. arr[s][u] \in Nat \ {0}
        <4>1. fd \in OwnSlots(requestP[s], u) /\ OwnSlots(requestP[s], u) \subseteq Fds
          BY DEF OwnSlots
        <4>2. Cardinality(OwnSlots(requestP[s], u)) \in Nat /\ Cardinality(OwnSlots(requestP[s], u)) # 0
          BY <4>1, FdsAreNumbers, FS_Subset, FS_CardinalityType, FS_EmptySet
        <4> QED BY <3>1, <4>2 DEF LocksMatchSessions
      <3>3. arr' = [arr EXCEPT ![s][u] = @ - 1]
        BY <2>2 DEF Disconnect
      <3>4. arr' \in [Servers -> [Users -> Nat]]
        BY <3>1, <3>2, <3>3 DEF TypeOK
      <3>5. flock' = flock \/ flock' = [flock EXCEPT ![u][s] = "none"]
        BY <2>2 DEF Disconnect
      <3>6. flock' \in [Users -> [Servers -> {"none", "rd", "wr"}]]
        <4>1. CASE flock' = flock
          BY <4>1 DEF TypeOK
        <4>2. CASE flock' = [flock EXCEPT ![u][s] = "none"]
          <5> HIDE DEF u
          <5> QED BY <3>1, <4>2 DEF TypeOK
        <4> QED BY <3>5, <4>1, <4>2
      <3> QED BY <3>4, <3>6
    <2> QED BY <2>1, <2>2
  <1>2. /\ requestP' \in [Servers -> [Fds -> Users \cup {NoUser}]]
        /\ master_set' \in [Servers -> SUBSET Fds]
        /\ peer' \in [Servers -> [Fds -> {"open", "closed", "reset"}]]
        /\ backlog' \in [Servers -> Nat]
    BY DEF Disconnect, TypeOK
  <1>3. /\ inbox' \in [Servers -> [Fds -> Seq(Lines \cup {Half})]]
        /\ screen' \in [Servers -> [Fds -> [shown : BOOLEAN, rec : Booking]]]
    BY ZeroIsBooking DEF Disconnect, TypeOK
  <1> QED BY <1>1, <1>2, <1>3

\* Handling a descriptor keeps the type of the pass.
LEMMA HandledTypes ==
  ASSUME TypeOK, NEW s \in Servers, NEW fd, Handled(s, fd)
  PROVE  working' \in [Servers -> SUBSET (Fds \cup {ListenFd})]
  BY DEF Handled, TypeOK

\* Every step of a server keeps the types.
LEMMA ServerStepTypes ==
  ASSUME TypeOK, LocksMatchSessions, Handling, Passing, NEW s \in Servers,
         ServerStep(s)
  PROVE  TypeOK'
  <1> USE FdsAreNumbers
  <1>1. CASE Select(s)
    <2>1. Ready(s) \subseteq Fds \cup {ListenFd}
      BY DEF Ready, TypeOK
    <2> QED BY <1>1, <2>1 DEF Select, TypeOK, lockVars, connVars, cmdVars
  <1>2. CASE Accept(s)
    <2>1. backlog[s] \in Nat \ {0}
      BY <1>2 DEF Accept, Turn, TypeOK, Passing
    <2>2. backlog' \in [Servers -> Nat]
      BY <1>2, <2>1 DEF Accept, TypeOK
    <2>3. master_set' \in [Servers -> SUBSET Fds]
      <3>1. PICK fd \in 1..FdLimit[s] \ master_set[s] :
              master_set' = [master_set EXCEPT ![s] = @ \cup {fd}]
        BY <1>2 DEF Accept
      <3>2. fd \in Fds
        BY <3>1, BoundsAssumption DEF Fds
      <3> QED BY <3>1, <3>2 DEF TypeOK
    <2>4. working' \in [Servers -> SUBSET (Fds \cup {ListenFd})]
      BY <1>2, HandledTypes DEF Accept
    <2> QED BY <1>2, <2>2, <2>3, <2>4 DEF Accept, TypeOK, lockVars, cmdVars
  <1>3. CASE AcceptFails(s)
    BY <1>3, ExitTypes DEF AcceptFails, Stopped
  <1>4. CASE Show(s)
    <2>1. cur[s] \in Fds /\ bookings[requestP[s][cur[s]]] \in Booking
      BY <1>4 DEF Show, Handling, TypeOK
    <2>2. screen' \in [Servers -> [Fds -> [shown : BOOLEAN, rec : Booking]]]
      BY <1>4, <2>1, ZeroIsBooking DEF Show, TypeOK
    <2>3. /\ pc' \in [Servers -> {"scan", "show", "store"} \cup Stopped]
          /\ cur' \in [Servers -> Fds \cup {ListenFd}]
          /\ target' \in [Servers -> Booking]
          /\ param' \in [Servers -> Booking]
      BY <1>4, ZeroIsBooking DEF Show, Forget, TypeOK
    <2> QED BY <1>4, <2>2, <2>3 DEF Show, TypeOK, lockVars
  <1>5. CASE Store(s)
    <2>1. cur[s] \in Fds /\ requestP[s][cur[s]] \in Users
      BY <1>5 DEF Store, Handling
    <2>2. Disconnect(s, cur[s], TRUE)
      BY <1>5 DEF Store
    <2>3. bookings' \in [Users -> Booking]
      BY <1>5, <2>1 DEF Store, TypeOK
    <2>4. /\ pc' \in [Servers -> {"scan", "show", "store"} \cup Stopped]
          /\ cur' \in [Servers -> Fds \cup {ListenFd}]
          /\ target' \in [Servers -> Booking]
          /\ param' \in [Servers -> Booking]
          /\ working' \in [Servers -> SUBSET (Fds \cup {ListenFd})]
      BY <1>5, ZeroIsBooking DEF Store, Forget, TypeOK
    <2>5. requestP[s][cur[s]] # NoUser
      BY <2>1, UsersAssumption
    <2> QED BY <2>1, <2>2, <2>3, <2>4, <2>5, DisconnectTypes DEF TypeOK
  <1>6. ASSUME NEW fd \in Fds, ReadFails(s, fd) PROVE TypeOK'
    <2>1. working' \in [Servers -> SUBSET (Fds \cup {ListenFd})]
      BY <1>6, HandledTypes DEF ReadFails
    <2> QED BY <1>6, <2>1 DEF ReadFails, TypeOK, lockVars, cmdVars
  <1>7. ASSUME NEW fd \in Fds, NEW lock \in BOOLEAN, Disconnect(s, fd, lock),
               lock => requestP[s][fd] # NoUser,
               Handled(s, fd), UNCHANGED <<bookings, pc, cmdVars>>
        PROVE  TypeOK'
    <2>1. working' \in [Servers -> SUBSET (Fds \cup {ListenFd})]
      BY <1>7, HandledTypes
    <2>2. /\ bookings' \in [Users -> Booking]
          /\ pc' \in [Servers -> {"scan", "show", "store"} \cup Stopped]
          /\ cur' \in [Servers -> Fds \cup {ListenFd}]
          /\ target' \in [Servers -> Booking]
          /\ param' \in [Servers -> Booking]
      BY <1>7 DEF TypeOK, cmdVars
    <2>3. /\ flock' \in [Users -> [Servers -> {"none", "rd", "wr"}]]
          /\ arr' \in [Servers -> [Users -> Nat]]
          /\ requestP' \in [Servers -> [Fds -> Users \cup {NoUser}]]
          /\ master_set' \in [Servers -> SUBSET Fds]
          /\ inbox' \in [Servers -> [Fds -> Seq(Lines \cup {Half})]]
          /\ peer' \in [Servers -> [Fds -> {"open", "closed", "reset"}]]
          /\ screen' \in [Servers -> [Fds -> [shown : BOOLEAN, rec : Booking]]]
          /\ backlog' \in [Servers -> Nat]
      BY <1>7, DisconnectTypes, Zenon
    <2> QED BY <2>1, <2>2, <2>3 DEF TypeOK
  <1>8. ASSUME NEW fd \in Fds,
               \/ HangUp(s, fd) \/ Refuse(s, fd)
               \/ Leave(s, fd) \/ RejectCommand(s, fd)
        PROVE  TypeOK'
    <2>1. CASE HangUp(s, fd)
      <3>1. Disconnect(s, fd, requestP[s][fd] # NoUser)
        BY <2>1 DEF HangUp
      <3> QED BY <1>7, <2>1, <3>1 DEF HangUp
    <2>2. CASE Refuse(s, fd)
      <3>1. Disconnect(s, fd, FALSE)
        BY <2>2 DEF Refuse
      <3> QED BY <1>7, <2>2, <3>1 DEF Refuse
    <2>3. CASE Leave(s, fd) \/ RejectCommand(s, fd)
      <3>1. Disconnect(s, fd, TRUE) /\ requestP[s][fd] # NoUser
        BY <2>3 DEF Leave, RejectCommand, NextLine
      <3> QED BY <1>7, <2>3, <3>1 DEF Leave, RejectCommand
    <2> QED BY <1>8, <2>1, <2>2, <2>3
  <1>9. ASSUME NEW fd \in Fds, NoNewlineExit(s, fd) \/ SigPipe(s, fd)
        PROVE  TypeOK'
    BY <1>9, ExitTypes DEF NoNewlineExit, SigPipe, Stopped
  <1>10. ASSUME NEW fd \in Fds, Grant(s, fd) PROVE TypeOK'
    <2> DEFINE u == Line(s, fd)
    <2>1. u \in Users
      BY <1>10 DEF Grant
    <2>2. working' \in [Servers -> SUBSET (Fds \cup {ListenFd})]
      BY <1>10, HandledTypes DEF Grant
    <2>3. /\ requestP' = [requestP EXCEPT ![s][fd] = u]
          /\ flock' = [flock EXCEPT ![u][s] = LockType(s)]
          /\ arr' = [arr EXCEPT ![s][u] = @ + 1]
      BY <1>10 DEF Grant
    <2>4. LockType(s) \in {"rd", "wr"}
      BY DEF LockType
    <2> HIDE DEF u
    <2>5. /\ requestP' \in [Servers -> [Fds -> Users \cup {NoUser}]]
          /\ flock' \in [Users -> [Servers -> {"none", "rd", "wr"}]]
          /\ arr' \in [Servers -> [Users -> Nat]]
      BY <2>1, <2>3, <2>4 DEF TypeOK
    <2>6. inbox' \in [Servers -> [Fds -> Seq(Lines \cup {Half})]]
      BY <1>10, SMTT(20) DEF Grant, TypeOK
    <2>7. /\ pc' \in [Servers -> {"scan", "show", "store"} \cup Stopped]
          /\ cur' \in [Servers -> Fds \cup {ListenFd}]
      BY <1>10 DEF Grant, TypeOK
    <2> QED BY <1>10, <2>2, <2>5, <2>6, <2>7 DEF Grant, TypeOK
  <1>11. ASSUME NEW fd \in Fds, Ignore(s, fd) PROVE TypeOK'
    <2>1. working' \in [Servers -> SUBSET (Fds \cup {ListenFd})]
      BY <1>11, HandledTypes DEF Ignore
    <2>2. inbox' \in [Servers -> [Fds -> Seq(Lines \cup {Half})]]
      BY <1>11 DEF Ignore, TypeOK
    <2> QED BY <1>11, <2>1, <2>2 DEF Ignore, TypeOK, lockVars, cmdVars
  <1>12. ASSUME NEW fd \in Fds, AcceptCommand(s, fd) PROVE TypeOK'
    <2> DEFINE r == bookings[requestP[s][fd]]
    <2>1. r \in Booking
      BY <1>12 DEF AcceptCommand, NextLine, TypeOK
    <2>2. PICK d \in Accepted(s, fd) : param' = [param EXCEPT ![s] = Plus(r, d)]
      BY <1>12 DEF AcceptCommand
    <2>3. Plus(r, d) \in Booking
      BY <2>1, <2>2, ParamsAreBookings, PlusIsBooking DEF Accepted
    <2>4. target' = [target EXCEPT ![s] = r]
      BY <1>12 DEF AcceptCommand
    <2> HIDE DEF r
    <2>5. param' \in [Servers -> Booking] /\ target' \in [Servers -> Booking]
      BY <2>1, <2>2, <2>3, <2>4 DEF TypeOK
    <2>6. working' \in [Servers -> SUBSET (Fds \cup {ListenFd})]
      BY <1>12, HandledTypes DEF AcceptCommand
    <2>7. /\ inbox' \in [Servers -> [Fds -> Seq(Lines \cup {Half})]]
          /\ pc' \in [Servers -> {"scan", "show", "store"} \cup Stopped]
          /\ cur' \in [Servers -> Fds \cup {ListenFd}]
      BY <1>12 DEF AcceptCommand, TypeOK
    <2> QED BY <1>12, <2>5, <2>6, <2>7 DEF AcceptCommand, TypeOK, lockVars
  <1> QED BY <1>1, <1>2, <1>3, <1>4, <1>5, <1>6, <1>8, <1>9, <1>10, <1>11, <1>12
          DEF ServerStep

\* So do the clients and the operator.
LEMMA EnvironmentTypes ==
  ASSUME TypeOK, NEW s \in Servers, Environment(s)
  PROVE  TypeOK'
  <1>1. CASE Connect(s)
    BY <1>1 DEF Connect, TypeOK, lockVars, cmdVars
  <1>2. CASE Kill(s)
    BY <1>2, ExitTypes DEF Kill, Stopped
  <1>3. CASE Restart(s)
    BY <1>3 DEF Restart, TypeOK, lockVars, connVars, cmdVars
  <1>4. ASSUME NEW fd \in Fds, Send(s, fd) PROVE TypeOK'
    <2>1. PICK m \in ClientLines : inbox' = [inbox EXCEPT ![s][fd] = Append(@, m)]
      BY <1>4 DEF Send
    <2>2. Append(inbox[s][fd], m) \in Seq(Lines \cup {Half})
      BY <2>1, LinesAssumption DEF TypeOK
    <2>3. inbox' \in [Servers -> [Fds -> Seq(Lines \cup {Half})]]
      BY <2>1, <2>2 DEF TypeOK
    <2> QED BY <1>4, <2>3 DEF Send, TypeOK, lockVars, cmdVars
  <1>5. ASSUME NEW fd \in Fds, Depart(s, fd) PROVE TypeOK'
    BY <1>5, BoundsAssumption DEF Depart, TypeOK, lockVars, cmdVars
  <1> QED BY <1>1, <1>2, <1>3, <1>4, <1>5 DEF Environment

-------------------------------------------------------------------------------
(* Locks and sessions. *)

\* The slots of a user are finitely many, so that arr can count them.
LEMMA OwnSlotsFinite ==
  ASSUME NEW slots, NEW u
  PROVE  /\ OwnSlots(slots, u) \subseteq Fds /\ IsFiniteSet(OwnSlots(slots, u))
         /\ Cardinality(OwnSlots(slots, u)) \in Nat
         /\ Cardinality(OwnSlots(slots, u)) = 0 <=> OwnSlots(slots, u) = {}
  <1>1. OwnSlots(slots, u) \subseteq Fds
    BY DEF OwnSlots
  <1> QED BY <1>1, FdsAreNumbers, FS_Subset, FS_CardinalityType, FS_EmptySet

\* A session that ends leaves its user, and changes no other session.
LEMMA OwnSlotsAfterRelease ==
  ASSUME TypeOK, NEW s \in Servers, NEW fd \in Fds,
         requestP' = [requestP EXCEPT ![s][fd] = NoUser]
  PROVE  \A t \in Servers, u \in Users :
           OwnSlots(requestP'[t], u) =
             IF t = s THEN OwnSlots(requestP[t], u) \ {fd} ELSE OwnSlots(requestP[t], u)
  BY UsersAssumption DEF TypeOK, OwnSlots

\* Fewer sessions cannot conflict where more did not.
LEMMA FewerSessions ==
  ASSUME WriterExcludes,
         \A t \in Servers, u \in Users : OwnSlots(requestP'[t], u) \subseteq OwnSlots(requestP[t], u)
  PROVE  WriterExcludes'
  BY SMTT(20) DEF WriterExcludes, Servers

\* disconnect keeps the lock control array and the kernel's table in step.
LEMMA DisconnectLocks ==
  ASSUME TypeOK, LocksMatchSessions, NEW s \in Servers, NEW fd \in Fds,
         NEW lock \in BOOLEAN, lock <=> requestP[s][fd] # NoUser,
         Disconnect(s, fd, lock)
  PROVE  LocksMatchSessions'
  <1> DEFINE v == requestP[s][fd]
  <1>1. requestP' = [requestP EXCEPT ![s][fd] = NoUser]
    BY DEF Disconnect
  <1>0. \A t \in Servers, u \in Users :
          OwnSlots(requestP'[t], u) =
            IF t = s THEN OwnSlots(requestP[t], u) \ {fd} ELSE OwnSlots(requestP[t], u)
    BY <1>1, OwnSlotsAfterRelease, Zenon
  <1>2. CASE ~lock
    <2>1. \A t \in Servers, u \in Users : OwnSlots(requestP'[t], u) = OwnSlots(requestP[t], u)
      <3>1. \A u \in Users : OwnSlots(requestP[s], u) \ {fd} = OwnSlots(requestP[s], u)
        BY <1>2, UsersAssumption DEF OwnSlots
      <3> QED BY <1>0, <3>1
    <2>2. UNCHANGED <<flock, arr>>
      BY <1>2 DEF Disconnect, lockVars
    <2> QED BY <2>1, <2>2 DEF LocksMatchSessions
  <1>3. CASE lock
    <2>1. v \in Users /\ fd \in OwnSlots(requestP[s], v)
      BY <1>3 DEF TypeOK, OwnSlots
    <2>2. /\ arr' = [arr EXCEPT ![s][v] = @ - 1]
          /\ flock' = IF arr[s][v] = 1 THEN [flock EXCEPT ![v][s] = "none"] ELSE flock
      BY <1>3 DEF Disconnect
    <2> HIDE DEF v
    <2>3. ASSUME NEW t \in Servers, NEW u \in Users, t # s \/ u # v
          PROVE  /\ OwnSlots(requestP'[t], u) = OwnSlots(requestP[t], u)
                 /\ arr'[t][u] = arr[t][u] /\ flock'[u][t] = flock[u][t]
      <3>1. OwnSlots(requestP'[t], u) = OwnSlots(requestP[t], u)
        <4>1. t = s => OwnSlots(requestP[t], u) \ {fd} = OwnSlots(requestP[t], u)
          BY <2>3 DEF OwnSlots, v
        <4> QED BY <1>0, <4>1
      <3>2. arr'[t][u] = arr[t][u]
        BY <2>1, <2>2, <2>3 DEF TypeOK
      <3>3. flock'[u][t] = flock[u][t]
        BY <2>1, <2>2, <2>3 DEF TypeOK
      <3> QED BY <3>1, <3>2, <3>3
    <2>4. /\ arr'[s][v] = Cardinality(OwnSlots(requestP'[s], v))
          /\ flock'[v][s] = IF OwnSlots(requestP'[s], v) = {} THEN "none" ELSE LockType(s)
      <3>1. OwnSlots(requestP'[s], v) = OwnSlots(requestP[s], v) \ {fd}
        BY <1>0, <2>1
      <3>2. /\ IsFiniteSet(OwnSlots(requestP[s], v))
            /\ Cardinality(OwnSlots(requestP[s], v)) \in Nat
        BY OwnSlotsFinite
      <3>3. /\ Cardinality(OwnSlots(requestP[s], v) \ {fd}) = Cardinality(OwnSlots(requestP[s], v)) - 1
            /\ IsFiniteSet(OwnSlots(requestP[s], v) \ {fd})
        BY <2>1, <3>2, FS_RemoveElement
      <3>4. Cardinality(OwnSlots(requestP[s], v) \ {fd}) = 0 <=> OwnSlots(requestP[s], v) \ {fd} = {}
        BY <3>3, FS_EmptySet
      <3>5. arr[s][v] = Cardinality(OwnSlots(requestP[s], v)) /\ flock[v][s] = LockType(s)
        BY <2>1 DEF LocksMatchSessions
      <3>6. arr'[s][v] = arr[s][v] - 1
        BY <2>1, <2>2 DEF TypeOK
      <3>7. flock'[v][s] = IF arr[s][v] = 1 THEN "none" ELSE flock[v][s]
        BY <2>1, <2>2 DEF TypeOK
      <3> QED BY <3>1, <3>2, <3>3, <3>4, <3>5, <3>6, <3>7
    <2>5. ASSUME NEW t \in Servers, NEW u \in Users
          PROVE  /\ arr'[t][u] = Cardinality(OwnSlots(requestP'[t], u))
                 /\ flock'[u][t] = IF OwnSlots(requestP'[t], u) = {} THEN "none" ELSE LockType(t)
      BY <2>3, <2>4 DEF LocksMatchSessions
    <2> QED BY <2>5 DEF LocksMatchSessions
  <1> QED BY <1>2, <1>3

\* A granted id makes one session more.
LEMMA OwnSlotsAfterGrant ==
  ASSUME TypeOK, NEW s \in Servers, NEW fd \in Fds, NEW v \in Users,
         requestP[s][fd] = NoUser,
         requestP' = [requestP EXCEPT ![s][fd] = v]
  PROVE  \A t \in Servers, u \in Users :
           OwnSlots(requestP'[t], u) =
             IF t = s /\ u = v THEN OwnSlots(requestP[s], v) \cup {fd}
             ELSE OwnSlots(requestP[t], u)
  BY UsersAssumption DEF TypeOK, OwnSlots

\* A lock is granted only where it excludes what it must: no other process, and
\* for a writer no session of its own process either.
LEMMA MayLockExcludes ==
  ASSUME TypeOK, LocksMatchSessions, WriterExcludes, NEW s \in Servers,
         NEW v \in Users, MayLock(s, v)
  PROVE  /\ \A t \in Servers \ {s} :
              s \in WriteServers \/ t \in WriteServers => OwnSlots(requestP[t], v) = {}
         /\ s \in WriteServers => OwnSlots(requestP[s], v) = {}
  <1>1. ASSUME NEW t \in Servers \ {s}, s \in WriteServers \/ t \in WriteServers
        PROVE  OwnSlots(requestP[t], v) = {}
    <2>1. flock[v][t] = "none" \/ (LockType(s) = "rd" /\ flock[v][t] = "rd")
      BY DEF MayLock, FcntlGrants
    <2>2. flock[v][t] = IF OwnSlots(requestP[t], v) = {} THEN "none" ELSE LockType(t)
      BY DEF LocksMatchSessions
    <2> QED BY <1>1, <2>1, <2>2, ServersAssumption DEF LockType
  <1>2. ASSUME s \in WriteServers PROVE OwnSlots(requestP[s], v) = {}
    <2> DEFINE S == OwnSlots(requestP[s], v)
    <2>1. arr[s][v] = Cardinality(S) /\ arr[s][v] # 1
      BY <1>2 DEF LocksMatchSessions, MayLock
    <2>2. \A fd, g \in S : fd = g
      BY <1>2 DEF WriterExcludes
    <2>3. ASSUME NEW fd \in S PROVE FALSE
      <3>1. S = {fd}
        BY <2>2, <2>3
      <3> QED BY <2>1, <3>1, FS_Singleton
    <2> QED BY <2>3
  <1> QED BY <1>1, <1>2

-------------------------------------------------------------------------------
(* Core, step by step. *)

\* Steps that touch neither locks, sessions, records nor what servers are at.
LEMMA KeptCore ==
  ASSUME Core, UNCHANGED kept
  PROVE  Core'
  <1>1. LocksMatchSessions' /\ WriterExcludes'
    BY DEF Core, kept, LocksMatchSessions, WriterExcludes
  <1>2. Handling' /\ NoLostUpdate' /\ ScreenFresh' /\ RecordsLegal'
    BY DEF Core, kept, Handling, NoLostUpdate, ScreenFresh, RecordsLegal
  <1> QED BY <1>1, <1>2 DEF Core

\* A connection that ends between two commands.
LEMMA DisconnectCore ==
  ASSUME TypeOK, Core, NEW s \in Servers, NEW fd \in Fds, NEW lock \in BOOLEAN,
         lock <=> requestP[s][fd] # NoUser, Disconnect(s, fd, lock),
         pc[s] = "scan", UNCHANGED <<bookings, pc, cmdVars>>
  PROVE  Core'
  <1>1. requestP' = [requestP EXCEPT ![s][fd] = NoUser]
    BY DEF Disconnect
  <1>2. LocksMatchSessions'
    BY DisconnectLocks DEF Core
  <1>3. WriterExcludes'
    <2>1. \A t \in Servers, u \in Users :
            OwnSlots(requestP'[t], u) \subseteq OwnSlots(requestP[t], u)
      <3>1. \A t \in Servers, u \in Users :
              OwnSlots(requestP'[t], u) =
                IF t = s THEN OwnSlots(requestP[t], u) \ {fd} ELSE OwnSlots(requestP[t], u)
        BY <1>1, OwnSlotsAfterRelease, Zenon
      <3> QED BY <3>1
    <2> QED BY <2>1, FewerSessions DEF Core
  <1>4. Handling' /\ NoLostUpdate'
    BY <1>1 DEF Core, Handling, NoLostUpdate, cmdVars, TypeOK
  <1>5. ScreenFresh'
    <2>1. screen' = [screen EXCEPT ![s][fd] = Blank]
      BY DEF Disconnect
    <2> QED BY <1>1, <2>1 DEF Core, ScreenFresh, Blank, TypeOK
  <1>6. RecordsLegal'
    BY DEF Core, RecordsLegal
  <1> QED BY <1>2, <1>3, <1>4, <1>5, <1>6 DEF Core

\* The end of a process.
LEMMA ExitCore ==
  ASSUME TypeOK, Core, NEW s \in Servers, NEW why \in Stopped, Exit(s, why)
  PROVE  Core'
  <1>1. requestP' = [requestP EXCEPT ![s] = [fd \in Fds |-> NoUser]]
    BY DEF Exit
  <1>2. /\ \A u \in Users : OwnSlots(requestP'[s], u) = {}
        /\ \A t \in Servers \ {s} : requestP'[t] = requestP[t]
    BY <1>1, UsersAssumption DEF TypeOK, OwnSlots
  <1>3. LocksMatchSessions'
    <2>1. \A t \in Servers, u \in Users :
            /\ flock'[u][t] = IF t = s THEN "none" ELSE flock[u][t]
            /\ arr'[t][u] = IF t = s THEN 0 ELSE arr[t][u]
      BY DEF Exit, TypeOK
    <2>2. Cardinality({}) = 0
      BY FS_EmptySet
    <2>3. ASSUME NEW t \in Servers, NEW u \in Users
          PROVE  /\ arr'[t][u] = Cardinality(OwnSlots(requestP'[t], u))
                 /\ flock'[u][t] =
                      IF OwnSlots(requestP'[t], u) = {} THEN "none" ELSE LockType(t)
      <3>1. CASE t = s
        <4>1. OwnSlots(requestP'[t], u) = {}
          BY <1>2, <3>1, Zenon
        <4>2. arr'[t][u] = 0 /\ flock'[u][t] = "none"
          BY <2>1, <3>1, Zenon
        <4> QED BY <2>2, <4>1, <4>2, Zenon
      <3>2. CASE t # s
        BY <1>2, <2>1, <3>2 DEF Core, LocksMatchSessions
      <3> QED BY <3>1, <3>2
    <2> QED BY <2>3 DEF LocksMatchSessions
  <1>4. WriterExcludes'
    BY <1>2, FewerSessions DEF Core
  <1>5. Handling' /\ NoLostUpdate'
    BY <1>2 DEF Core, Handling, NoLostUpdate, Exit, Forget, Stopped, TypeOK
  <1>6. ScreenFresh'
    <2>1. screen' = [screen EXCEPT ![s] = [fd \in Fds |-> Blank]]
      BY DEF Exit
    <2> QED BY <1>2, <2>1 DEF Core, ScreenFresh, Blank, Exit, TypeOK
  <1>7. RecordsLegal'
    BY DEF Core, RecordsLegal, Exit
  <1> QED BY <1>3, <1>4, <1>5, <1>6, <1>7 DEF Core

\* A session that begins.
LEMMA GrantCore ==
  ASSUME TypeOK, Core, NEW s \in Servers, NEW fd \in Fds, Grant(s, fd)
  PROVE  Core'
  <1> DEFINE v == Line(s, fd)
  <1>1. /\ v \in Users /\ MayLock(s, v) /\ requestP[s][fd] = NoUser
        /\ requestP' = [requestP EXCEPT ![s][fd] = v]
        /\ flock' = [flock EXCEPT ![v][s] = LockType(s)]
        /\ arr' = [arr EXCEPT ![s][v] = @ + 1]
        /\ cur' = [cur EXCEPT ![s] = fd]
        /\ pc[s] = "scan" /\ pc' = [pc EXCEPT ![s] = "show"]
        /\ UNCHANGED <<bookings, screen, target, param>>
    BY DEF Grant, IdLine, Turn
  <1> HIDE DEF v
  <1>2. \A t \in Servers, u \in Users :
          OwnSlots(requestP'[t], u) =
            IF t = s /\ u = v THEN OwnSlots(requestP[s], v) \cup {fd}
            ELSE OwnSlots(requestP[t], u)
    BY <1>1, OwnSlotsAfterGrant, Zenon
  <1>3. LocksMatchSessions'
    <2>1. ASSUME NEW t \in Servers, NEW u \in Users, t # s \/ u # v
          PROVE  /\ arr'[t][u] = Cardinality(OwnSlots(requestP'[t], u))
                 /\ flock'[u][t] =
                      IF OwnSlots(requestP'[t], u) = {} THEN "none" ELSE LockType(t)
      <3>1. arr'[t][u] = arr[t][u]
        BY <1>1, <2>1 DEF TypeOK
      <3>2. flock'[u][t] = flock[u][t]
        BY <1>1, <2>1 DEF TypeOK
      <3>3. OwnSlots(requestP'[t], u) = OwnSlots(requestP[t], u)
        BY <1>2, <2>1
      <3> QED BY <3>1, <3>2, <3>3 DEF Core, LocksMatchSessions
    <2>2. /\ arr'[s][v] = Cardinality(OwnSlots(requestP'[s], v))
          /\ flock'[v][s] =
               IF OwnSlots(requestP'[s], v) = {} THEN "none" ELSE LockType(s)
      <3>1. arr'[s][v] = arr[s][v] + 1 /\ flock'[v][s] = LockType(s)
        BY <1>1 DEF TypeOK
      <3>2. OwnSlots(requestP'[s], v) = OwnSlots(requestP[s], v) \cup {fd}
        BY <1>1, <1>2
      <3>3. fd \notin OwnSlots(requestP[s], v)
        BY <1>1, UsersAssumption DEF OwnSlots
      <3>4. Cardinality(OwnSlots(requestP[s], v) \cup {fd})
              = Cardinality(OwnSlots(requestP[s], v)) + 1
        BY <3>3, OwnSlotsFinite, FS_AddElement
      <3>5. arr[s][v] = Cardinality(OwnSlots(requestP[s], v))
        BY <1>1 DEF Core, LocksMatchSessions
      <3> QED BY <3>1, <3>2, <3>4, <3>5
    <2> QED BY <2>1, <2>2 DEF LocksMatchSessions
  <1>4. WriterExcludes'
    <2>1. /\ \A t \in Servers \ {s} :
               s \in WriteServers \/ t \in WriteServers => OwnSlots(requestP[t], v) = {}
          /\ s \in WriteServers => OwnSlots(requestP[s], v) = {}
      BY <1>1, MayLockExcludes DEF Core
    <2>2. ASSUME NEW t \in WriteServers, NEW u \in Users,
                 OwnSlots(requestP'[t], u) # {}
          PROVE  /\ \A r \in Servers \ {t} : OwnSlots(requestP'[r], u) = {}
                 /\ \A f, g \in OwnSlots(requestP'[t], u) : f = g
      <3>1. t \in Servers
        BY DEF Servers
      <3>2. CASE u # v
        BY <1>2, <2>2, <3>1, <3>2 DEF Core, WriterExcludes
      <3>3. CASE u = v
        <4>1. t = s
          BY <1>2, <2>1, <2>2, <3>1, <3>3
        <4>2. OwnSlots(requestP'[t], u) = {fd}
          BY <1>2, <2>1, <3>1, <3>3, <4>1
        <4> QED BY <1>2, <2>1, <3>1, <3>3, <4>1, <4>2
      <3> QED BY <3>2, <3>3
    <2> QED BY <2>2 DEF WriterExcludes
  <1>5. Handling' /\ NoLostUpdate'
    BY <1>1 DEF Core, Handling, NoLostUpdate, TypeOK
  <1>6. ScreenFresh'
    BY <1>1, UsersAssumption DEF Core, ScreenFresh, TypeOK
  <1>7. RecordsLegal'
    BY <1>1 DEF Core, RecordsLegal
  <1> QED BY <1>3, <1>4, <1>5, <1>6, <1>7 DEF Core

\* The record is shown.
LEMMA ShowCore ==
  ASSUME TypeOK, Core, NEW s \in Servers, Show(s)
  PROVE  Core'
  <1> DEFINE fd == cur[s]
  <1>1. /\ fd \in Fds /\ requestP[s][fd] \in Users
        /\ screen' = [screen EXCEPT ![s][fd] = Shown(bookings[requestP[s][fd]])]
        /\ pc' = [pc EXCEPT ![s] = "scan"]
        /\ UNCHANGED <<bookings, flock, arr, requestP>>
        /\ \A t \in Servers \ {s} : cur'[t] = cur[t] /\ target'[t] = target[t]
                                    /\ param'[t] = param[t]
    BY DEF Show, Core, Handling, Forget, lockVars, TypeOK
  <1>2. LocksMatchSessions' /\ WriterExcludes'
    <2>1. UNCHANGED <<flock, arr, requestP>>
      BY <1>1
    <2> QED BY <2>1 DEF Core, LocksMatchSessions, WriterExcludes
  <1>3. Handling' /\ NoLostUpdate'
    <2>1. \A t \in Servers : pc'[t] \in {"show", "store"} =>
            /\ t # s /\ pc'[t] = pc[t] /\ cur'[t] = cur[t]
            /\ target'[t] = target[t] /\ param'[t] = param[t]
      BY <1>1 DEF TypeOK
    <2> HIDE DEF fd
    <2>2. Handling'
      BY <1>1, <2>1 DEF Core, Handling
    <2> QED BY <1>1, <2>1, <2>2 DEF Core, NoLostUpdate
  <1>4. ScreenFresh'
    BY <1>1 DEF Core, ScreenFresh, Shown, TypeOK
  <1>5. RecordsLegal'
    BY <1>1 DEF Core, RecordsLegal
  <1> QED BY <1>2, <1>3, <1>4, <1>5 DEF Core

\* A command is let through.
LEMMA AcceptCommandCore ==
  ASSUME TypeOK, Core, NEW s \in Servers, NEW fd \in Fds, AcceptCommand(s, fd)
  PROVE  Core'
  <1> DEFINE r == bookings[requestP[s][fd]]
  <1>1. /\ requestP[s][fd] \in Users /\ s \in WriteServers
        /\ pc' = [pc EXCEPT ![s] = "store"] /\ cur' = [cur EXCEPT ![s] = fd]
        /\ target' = [target EXCEPT ![s] = r]
        /\ UNCHANGED <<bookings, flock, arr, requestP, screen>>
    BY DEF AcceptCommand, NextLine, TypeOK, lockVars
  <1>2. \E d \in Mixtures :
          Legal(Plus(r, d)) /\ param' = [param EXCEPT ![s] = Plus(r, d)]
    <2>1. PICK d \in Accepted(s, fd) : param' = [param EXCEPT ![s] = Plus(r, d)]
      BY DEF AcceptCommand
    <2>2. Legal(Plus(r, d)) /\ d \in Params(Line(s, fd)) \ {Malformed}
      BY DEF Accepted
    <2> QED BY <2>1, <2>2, ParamsAreBookings
  <1>3. LocksMatchSessions' /\ WriterExcludes'
    BY <1>1 DEF Core, LocksMatchSessions, WriterExcludes
  <1>4. Handling'
    <2> HIDE DEF r
    <2>1. /\ \E d \in Mixtures : param'[s] = Plus(target'[s], d)
          /\ \A t \in Servers \ {s} : param'[t] = param[t] /\ target'[t] = target[t]
      BY <1>1, <1>2 DEF TypeOK
    <2> QED BY <1>1, <2>1 DEF Core, Handling, TypeOK
  <1>5. NoLostUpdate'
    <2> HIDE DEF r
    <2>1. Legal(param'[s]) /\ \A t \in Servers \ {s} : param'[t] = param[t]
      BY <1>2 DEF TypeOK
    <2>2. target'[s] = bookings'[requestP'[s][cur'[s]]]
      BY <1>1 DEF TypeOK, r
    <2> QED BY <1>1, <2>1, <2>2 DEF Core, NoLostUpdate, TypeOK
  <1>6. ScreenFresh' /\ RecordsLegal'
    BY <1>1 DEF Core, ScreenFresh, RecordsLegal
  <1> QED BY <1>3, <1>4, <1>5, <1>6 DEF Core

\* The record is written and its session ends.
LEMMA StoreCore ==
  ASSUME TypeOK, Core, NEW s \in Servers, Store(s)
  PROVE  Core'
  <1> DEFINE fd == cur[s]
             v  == requestP[s][fd]
  <1>1. /\ fd \in Fds /\ v \in Users /\ s \in WriteServers
        /\ pc[s] = "store" /\ Legal(param[s])
        /\ bookings' = [bookings EXCEPT ![v] = param[s]]
        /\ pc' = [pc EXCEPT ![s] = "scan"]
        /\ \A t \in Servers \ {s} : cur'[t] = cur[t] /\ target'[t] = target[t]
                                    /\ param'[t] = param[t]
    BY DEF Store, Core, Handling, NoLostUpdate, Forget, TypeOK
  <1>2. Disconnect(s, fd, TRUE) /\ v # NoUser
    BY <1>1, UsersAssumption DEF Store
  <1>3. /\ requestP' = [requestP EXCEPT ![s][fd] = NoUser]
        /\ screen' = [screen EXCEPT ![s][fd] = Blank]
    BY <1>2 DEF Disconnect
  <1>4. LocksMatchSessions'
    BY <1>1, <1>2, DisconnectLocks DEF Core
  <1>5. WriterExcludes'
    <2>1. \A t \in Servers, u \in Users :
            OwnSlots(requestP'[t], u) =
              IF t = s THEN OwnSlots(requestP[t], u) \ {fd} ELSE OwnSlots(requestP[t], u)
      BY <1>1, <1>3, OwnSlotsAfterRelease, Zenon
    <2> QED BY <2>1, FewerSessions DEF Core
  <1>6. \A t \in Servers, g \in Fds : requestP[t][g] = v => t = s /\ g = fd
    <2>1. fd \in OwnSlots(requestP[s], v)
      BY <1>1 DEF OwnSlots
    <2>2. /\ \A t \in Servers \ {s} : OwnSlots(requestP[t], v) = {}
          /\ \A f, g \in OwnSlots(requestP[s], v) : f = g
      BY <1>1, <2>1 DEF Core, WriterExcludes
    <2> QED BY <2>1, <2>2 DEF OwnSlots
  <1> HIDE DEF fd, v
  <1>7. Handling'
    <2>1. SUFFICES ASSUME NEW t \in Servers
                   PROVE  /\ pc'[t] \in {"show", "store"} => /\ cur'[t] \in Fds
                                                             /\ requestP'[t][cur'[t]] \in Users
                          /\ pc'[t] = "store" => /\ t \in WriteServers
                                                 /\ \E d \in Mixtures : param'[t] = Plus(target'[t], d)
      BY DEF Handling
    <2>2. CASE t = s
      BY <1>1, <2>2 DEF TypeOK
    <2>3. CASE t # s
      <3>1. /\ pc'[t] = pc[t] /\ cur'[t] = cur[t] /\ target'[t] = target[t] /\ param'[t] = param[t]
            /\ requestP'[t] = requestP[t]
        BY <1>1, <1>3, <2>3 DEF TypeOK
      <3> QED BY <3>1 DEF Core, Handling
    <2> QED BY <2>2, <2>3
  <1>8. NoLostUpdate'
    <2>1. ASSUME NEW t \in Servers, pc'[t] = "store"
          PROVE  /\ requestP'[t][cur'[t]] \in Users
                 /\ target'[t] = bookings'[requestP'[t][cur'[t]]]
                 /\ Legal(param'[t])
      <3>1. t # s /\ pc[t] = "store"
        BY <1>1, <2>1 DEF TypeOK
      <3>2. /\ requestP'[t] = requestP[t] /\ cur'[t] = cur[t] /\ cur[t] \in Fds
            /\ target'[t] = target[t] /\ param'[t] = param[t]
        BY <1>1, <1>3, <3>1 DEF Core, Handling, TypeOK
      <3>3. requestP[t][cur[t]] \in Users /\ requestP[t][cur[t]] # v
        BY <1>6, <3>1, <3>2 DEF Core, Handling
      <3> QED BY <1>1, <3>1, <3>2, <3>3 DEF Core, NoLostUpdate, TypeOK
    <2> QED BY <2>1 DEF NoLostUpdate
  <1>9. ScreenFresh'
    <2>1. ASSUME NEW t \in Servers, NEW g \in Fds, screen'[t][g].shown
          PROVE  /\ requestP'[t][g] \in Users
                 /\ screen'[t][g].rec = bookings'[requestP'[t][g]]
      <3>1. t # s \/ g # fd
        BY <1>1, <1>3, <2>1 DEF Blank, TypeOK
      <3>2. screen'[t][g] = screen[t][g] /\ requestP'[t][g] = requestP[t][g]
        BY <1>3, <3>1 DEF TypeOK
      <3>3. requestP[t][g] \in Users /\ requestP[t][g] # v
        BY <1>6, <2>1, <3>1, <3>2 DEF Core, ScreenFresh
      <3> QED BY <1>1, <2>1, <3>2, <3>3 DEF Core, ScreenFresh, TypeOK
    <2> QED BY <2>1 DEF ScreenFresh
  <1>10. RecordsLegal'
    BY <1>1 DEF Core, RecordsLegal, TypeOK
  <1> QED BY <1>4, <1>5, <1>7, <1>8, <1>9, <1>10 DEF Core

-------------------------------------------------------------------------------
(* Passes and slots. *)

\* A connection that has had its turn and is closed.
LEMMA DisconnectPass ==
  ASSUME TypeOK, Passing, SlotsMatchConnections, NEW s \in Servers, NEW fd \in Fds,
         NEW lock, Disconnect(s, fd, lock),
         working'[s] = working[s] \ {fd},
         \A t \in Servers \ {s} : working'[t] = working[t]
  PROVE  SlotsMatchConnections' /\ UNCHANGED backlog
  <1>1. /\ master_set' = [master_set EXCEPT ![s] = @ \ {fd}]
        /\ requestP' = [requestP EXCEPT ![s][fd] = NoUser]
        /\ inbox' = [inbox EXCEPT ![s][fd] = <<>>]
        /\ UNCHANGED backlog
    BY DEF Disconnect
  <1> QED BY <1>1 DEF SlotsMatchConnections, TypeOK

\* A process that ends has no connection left.
LEMMA ExitPass ==
  ASSUME TypeOK, Passing, SlotsMatchConnections, NEW s \in Servers,
         NEW why \in Stopped, Exit(s, why)
  PROVE  Passing' /\ SlotsMatchConnections'
  <1>1. /\ master_set' = [master_set EXCEPT ![s] = {}]
        /\ working' = [working EXCEPT ![s] = {}]
        /\ requestP' = [requestP EXCEPT ![s] = [fd \in Fds |-> NoUser]]
        /\ inbox' = [inbox EXCEPT ![s] = [fd \in Fds |-> <<>>]]
        /\ pc' = [pc EXCEPT ![s] = why]
        /\ backlog' = [backlog EXCEPT ![s] = 0]
        /\ \A t \in Servers \ {s} : cur'[t] = cur[t]
    BY DEF Exit, Forget
  <1>2. SlotsMatchConnections'
    BY <1>1 DEF SlotsMatchConnections, TypeOK
  <1>3. Passing'
    BY <1>1, FdsAreNumbers DEF Passing, Stopped, TypeOK
  <1> QED BY <1>2, <1>3

\* A server's step handles open connections only and leaves free slots clean.
LEMMA ServerStepPass ==
  ASSUME TypeOK, Core, Passing, SlotsMatchConnections, NEW s \in Servers,
         ServerStep(s)
  PROVE  Passing' /\ SlotsMatchConnections'
  <1> USE FdsAreNumbers DEF TypeOK
  <1>1. CASE Select(s)
    BY <1>1 DEF Select, Ready, Passing, SlotsMatchConnections, connVars, cmdVars
  <1>2. CASE Accept(s)
    <2>1. PICK fd \in 1..FdLimit[s] \ master_set[s] :
            master_set' = [master_set EXCEPT ![s] = @ \cup {fd}]
      BY <1>2 DEF Accept
    <2> QED BY <1>2, <2>1 DEF Accept, Turn, Handled, Passing, SlotsMatchConnections, cmdVars
  <1>3. CASE Show(s)
    BY <1>3 DEF Show, Forget, Passing, SlotsMatchConnections
  <1>4. CASE Store(s)
    <2>1. cur[s] \in Fds /\ cur[s] \notin working[s]
      BY <1>4 DEF Store, Core, Handling, Passing
    <2>2. working'[s] = working[s] \ {cur[s]} /\ UNCHANGED working
      BY <1>4, <2>1 DEF Store
    <2>3. Disconnect(s, cur[s], TRUE)
      BY <1>4 DEF Store
    <2>4. SlotsMatchConnections' /\ UNCHANGED backlog
      BY <2>1, <2>2, <2>3, DisconnectPass
    <2>5. /\ master_set' = [master_set EXCEPT ![s] = @ \ {cur[s]}]
          /\ pc' = [pc EXCEPT ![s] = "scan"]
          /\ \A t \in Servers \ {s} : cur'[t] = cur[t]
      <3>1. master_set' = [master_set EXCEPT ![s] = @ \ {cur[s]}]
        BY <2>3 DEF Disconnect
      <3>2. pc' = [pc EXCEPT ![s] = "scan"] /\ Forget(s)
        BY <1>4 DEF Store
      <3>3. \A t \in Servers \ {s} : cur'[t] = cur[t]
        BY <3>2, SMTT(20) DEF Forget, TypeOK
      <3> QED BY <3>1, <3>2, <3>3
    <2>6. Passing'
      BY <2>2, <2>4, <2>5 DEF Passing
    <2> QED BY <2>4, <2>6
  <1>5. ASSUME NEW fd \in Fds, NEW lock, Disconnect(s, fd, lock), Handled(s, fd),
               pc[s] = "scan", UNCHANGED <<bookings, pc, cmdVars>>
        PROVE  Passing' /\ SlotsMatchConnections'
    <2>1. /\ working'[s] = working[s] \ {fd}
          /\ \A t \in Servers \ {s} : working'[t] = working[t]
      BY <1>5 DEF Handled
    <2>2. SlotsMatchConnections' /\ UNCHANGED backlog
      BY <1>5, <2>1, DisconnectPass
    <2>3. master_set' = [master_set EXCEPT ![s] = @ \ {fd}]
      BY <1>5 DEF Disconnect
    <2>4. Passing'
      BY <1>5, <2>1, <2>2, <2>3 DEF Passing, cmdVars
    <2> QED BY <2>2, <2>4
  <1>6. ASSUME NEW fd \in Fds,
               \/ HangUp(s, fd) \/ Refuse(s, fd)
               \/ Leave(s, fd) \/ RejectCommand(s, fd)
        PROVE  Passing' /\ SlotsMatchConnections'
    BY <1>5, <1>6 DEF HangUp, Refuse, Leave, RejectCommand, NextLine, IdLine, Turn
  <1>7. CASE AcceptFails(s)
    BY <1>7, ExitPass DEF AcceptFails, Stopped
  <1>8. ASSUME NEW fd \in Fds, NoNewlineExit(s, fd) \/ SigPipe(s, fd)
        PROVE  Passing' /\ SlotsMatchConnections'
    BY <1>8, ExitPass DEF NoNewlineExit, SigPipe, Stopped
  <1>9. ASSUME NEW fd \in Fds, ReadFails(s, fd) \/ Ignore(s, fd)
         PROVE  Passing' /\ SlotsMatchConnections'
    <2>1. /\ working' = [working EXCEPT ![s] = @ \ {fd}]
          /\ UNCHANGED <<requestP, master_set, backlog, pc, cur>>
          /\ inbox' = inbox \/ inbox' = [inbox EXCEPT ![s][fd] = <<>>]
      BY <1>9 DEF ReadFails, Ignore, Handled, cmdVars
    <2> QED BY <2>1 DEF Passing, SlotsMatchConnections
  <1>10. ASSUME NEW fd \in Fds, Grant(s, fd) \/ AcceptCommand(s, fd)
         PROVE  Passing' /\ SlotsMatchConnections'
    <2>1. /\ fd \in working[s] /\ working' = [working EXCEPT ![s] = @ \ {fd}]
          /\ cur' = [cur EXCEPT ![s] = fd]
          /\ UNCHANGED <<master_set, backlog>>
          /\ \A t \in Servers \ {s} : pc'[t] = pc[t]
          /\ inbox' = [inbox EXCEPT ![s][fd] = <<>>]
      BY <1>10 DEF Grant, AcceptCommand, IdLine, NextLine, Turn, Handled
    <2>2. fd \in master_set[s]
      BY <2>1 DEF SlotsMatchConnections
    <2>3. \A t \in Servers, g \in Fds : t # s \/ g # fd => requestP'[t][g] = requestP[t][g]
      BY <1>10 DEF Grant, AcceptCommand
    <2>4. Passing'
      BY <2>1, <2>2 DEF Passing
    <2>5. SlotsMatchConnections'
      BY <2>1, <2>2, <2>3 DEF SlotsMatchConnections
    <2> QED BY <2>4, <2>5
  <1> QED BY <1>1, <1>2, <1>3, <1>4, <1>6, <1>7, <1>8, <1>9, <1>10 DEF ServerStep

\* So do the clients and the operator.
LEMMA EnvironmentPass ==
  ASSUME TypeOK, Core, Passing, SlotsMatchConnections, NEW s \in Servers,
         Environment(s)
  PROVE  Passing' /\ SlotsMatchConnections'
  <1> USE DEF TypeOK
  <1>1. CASE Connect(s)
    BY <1>1 DEF Connect, Passing, SlotsMatchConnections, cmdVars
  <1>2. CASE Kill(s)
    BY <1>2, ExitPass DEF Kill, Stopped
  <1>3. CASE Restart(s)
    BY <1>3 DEF Restart, Passing, SlotsMatchConnections, connVars, cmdVars
  <1>4. ASSUME NEW fd \in Fds, Send(s, fd) PROVE Passing' /\ SlotsMatchConnections'
    <2>1. PICK q : inbox' = [inbox EXCEPT ![s][fd] = q]
      BY <1>4 DEF Send
    <2> QED BY <1>4, <2>1 DEF Send, Passing, SlotsMatchConnections, cmdVars
  <1>5. ASSUME NEW fd \in Fds, Depart(s, fd) PROVE Passing' /\ SlotsMatchConnections'
    BY <1>5 DEF Depart, Passing, SlotsMatchConnections, cmdVars
  <1> QED BY <1>1, <1>2, <1>3, <1>4, <1>5 DEF Environment

-------------------------------------------------------------------------------
(* The inductive invariant. *)

\* The inductive invariant holds when the servers start.
LEMMA InitInvariant == Init => IInv
  <1> SUFFICES ASSUME Init PROVE IInv
    OBVIOUS
  <1>1. TypeOK
    BY InitialAssumption, ZeroIsBooking DEF Init, TypeOK
  <1>2. \A s \in Servers, u \in Users : OwnSlots(requestP[s], u) = {}
    BY UsersAssumption DEF Init, OwnSlots
  <1>3. Cardinality({}) = 0
    BY FS_EmptySet
  <1>4. LocksMatchSessions
    BY <1>2, <1>3 DEF Init, LocksMatchSessions
  <1>5. WriterExcludes
    BY <1>2 DEF WriterExcludes, Servers
  <1>6. Handling /\ NoLostUpdate /\ ScreenFresh /\ RecordsLegal
    BY InitialAssumption DEF Init, Handling, NoLostUpdate, ScreenFresh, RecordsLegal, Blank
  <1>7. Passing /\ SlotsMatchConnections
    BY DEF Init, Passing, SlotsMatchConnections
  <1> QED BY <1>1, <1>4, <1>5, <1>6, <1>7 DEF IInv, Core

\* Every step of a server keeps the locks, the sessions and the records right.
LEMMA ServerStepCore ==
  ASSUME TypeOK, Core, NEW s \in Servers, ServerStep(s)
  PROVE  Core'
  <1>1. CASE Select(s)
    BY <1>1, KeptCore DEF Select, kept, lockVars, connVars, cmdVars
  <1>2. CASE Accept(s)
    BY <1>2, KeptCore DEF Accept, kept, lockVars, cmdVars
  <1>3. CASE AcceptFails(s)
    BY <1>3, ExitCore DEF AcceptFails, Stopped
  <1>4. CASE Show(s)
    BY <1>4, ShowCore
  <1>5. CASE Store(s)
    BY <1>5, StoreCore
  <1>6. ASSUME NEW fd \in Fds, ReadFails(s, fd) \/ Ignore(s, fd) PROVE Core'
    BY <1>6, KeptCore DEF ReadFails, Ignore, kept, lockVars, cmdVars
  <1>7. ASSUME NEW fd \in Fds, HangUp(s, fd) PROVE Core'
    <2>1. Disconnect(s, fd, requestP[s][fd] # NoUser)
      BY <1>7 DEF HangUp
    <2> QED BY <1>7, <2>1, DisconnectCore DEF HangUp, Turn
  <1>8. ASSUME NEW fd \in Fds, Refuse(s, fd) PROVE Core'
    <2>1. Disconnect(s, fd, FALSE) /\ ~(requestP[s][fd] # NoUser)
      BY <1>8 DEF Refuse, IdLine
    <2> QED BY <1>8, <2>1, DisconnectCore DEF Refuse, IdLine, Turn
  <1>9. ASSUME NEW fd \in Fds, Leave(s, fd) \/ RejectCommand(s, fd) PROVE Core'
    <2>1. Disconnect(s, fd, TRUE) /\ requestP[s][fd] # NoUser
      BY <1>9 DEF Leave, RejectCommand, NextLine
    <2> QED BY <1>9, <2>1, DisconnectCore DEF Leave, RejectCommand, NextLine, Turn
  <1>10. ASSUME NEW fd \in Fds, NoNewlineExit(s, fd) \/ SigPipe(s, fd) PROVE Core'
    BY <1>10, ExitCore DEF NoNewlineExit, SigPipe, Stopped
  <1>11. ASSUME NEW fd \in Fds, Grant(s, fd) PROVE Core'
    BY <1>11, GrantCore
  <1>12. ASSUME NEW fd \in Fds, AcceptCommand(s, fd) PROVE Core'
    BY <1>12, AcceptCommandCore
  <1> QED BY <1>1, <1>2, <1>3, <1>4, <1>5, <1>6, <1>7, <1>8, <1>9, <1>10, <1>11, <1>12
          DEF ServerStep

\* So do the clients and the operator.
LEMMA EnvironmentCore ==
  ASSUME TypeOK, Core, NEW s \in Servers, Environment(s)
  PROVE  Core'
  <1>1. CASE Connect(s)
    BY <1>1, KeptCore DEF Connect, kept, lockVars, cmdVars
  <1>2. CASE Kill(s)
    BY <1>2, ExitCore DEF Kill, Stopped
  <1>3. CASE Restart(s)
    <2>1. /\ UNCHANGED <<bookings, flock, arr, requestP, screen, cur, target, param>>
          /\ pc' = [pc EXCEPT ![s] = "scan"]
      BY <1>3 DEF Restart, lockVars, connVars, cmdVars
    <2>2. LocksMatchSessions' /\ WriterExcludes'
      BY <2>1 DEF Core, LocksMatchSessions, WriterExcludes
    <2>3. Handling' /\ NoLostUpdate' /\ ScreenFresh' /\ RecordsLegal'
      BY <2>1 DEF Core, Handling, NoLostUpdate, ScreenFresh, RecordsLegal, TypeOK
    <2> QED BY <2>2, <2>3 DEF Core
  <1>4. ASSUME NEW fd \in Fds, Send(s, fd) \/ Depart(s, fd) PROVE Core'
    BY <1>4, KeptCore DEF Send, Depart, kept, lockVars, cmdVars
  <1> QED BY <1>1, <1>2, <1>3, <1>4 DEF Environment

\* Every step keeps the inductive invariant.
LEMMA NextInvariant == IInv /\ [Next]_vars => IInv'
  <1> SUFFICES ASSUME IInv, [Next]_vars PROVE IInv'
    OBVIOUS
  <1>1. CASE UNCHANGED vars
    <2>1. UNCHANGED kept
      BY <1>1 DEF vars, kept, lockVars, connVars, cmdVars
    <2>2. TypeOK'
      BY <1>1 DEF IInv, TypeOK, vars, lockVars, connVars, cmdVars
    <2>3. Passing' /\ SlotsMatchConnections'
      BY <1>1 DEF IInv, Passing, SlotsMatchConnections, vars, connVars, cmdVars
    <2> QED BY <2>1, <2>2, <2>3, KeptCore DEF IInv
  <1>2. ASSUME NEW s \in Servers, ServerStep(s) PROVE IInv'
    BY <1>2, ServerStepTypes, ServerStepCore, ServerStepPass DEF IInv, Core
  <1>3. ASSUME NEW s \in Servers, Environment(s) PROVE IInv'
    BY <1>3, EnvironmentTypes, EnvironmentCore, EnvironmentPass DEF IInv
  <1> QED BY <1>1, <1>2, <1>3 DEF Next

\* Every reachable state satisfies the inductive invariant.
THEOREM Invariant == Spec => []IInv
  BY InitInvariant, NextInvariant, PTL DEF Spec

\* Every variable keeps its type; in particular arr never goes below 0, though
\* disconnect decrements it in five places (server.c:113-123).
THEOREM TypeCorrect == Spec => []TypeOK
  BY Invariant, PTL DEF IInv

\* arr counts the sessions that share a lock, and the kernel's locks are those
\* the sessions account for: none is leaked and none given back too early.
THEOREM LockTablesAgree == Spec => []LocksMatchSessions
  BY Invariant, PTL DEF IInv, Core

\* A writer of a user excludes every other session of that user.
THEOREM WritersExclude == Spec => []WriterExcludes
  BY Invariant, PTL DEF IInv, Core

\* A stored state is computed from the record the store replaces.
THEOREM UpdatesAreNotLost == Spec => []NoLostUpdate
  BY Invariant, PTL DEF IInv, Core

\* What a connected client was shown is what the file holds.
THEOREM ScreensAreFresh == Spec => []ScreenFresh
  BY Invariant, PTL DEF IInv, Core

\* No user ever has a negative amount or more than MaxTotal items.
THEOREM RecordsStayLegal == Spec => []RecordsLegal
  BY Invariant, PTL DEF IInv, Core

\* A pass reads open connections only, and a reused slot is a clean one.
THEOREM SlotsAreClean == Spec => []SlotsMatchConnections
  BY Invariant, PTL DEF IInv

-------------------------------------------------------------------------------
(* BookingServer implements BookingLedger. *)

readersOf == [u \in Users |-> SlotsOf(ReadServers, u)]
writersOf == [u \in Users |-> SlotsOf(WriteServers, u)]

\* The two specifications mean the same by records and commands.
LEMMA SameRecords ==
  /\ Ledger!Booking = Booking /\ Ledger!Mixtures = Mixtures
  /\ \A r : Ledger!Legal(r) <=> Legal(r)
  /\ \A r, d : Ledger!Plus(r, d) = Plus(r, d)
  BY DEF Ledger!Booking, Booking, Ledger!Mixtures, Mixtures, Ledger!Legal, Legal,
         Ledger!Plus, Plus

\* Steps that end no session and begin none are invisible in the ledger.
LEMMA KeptLedger ==
  ASSUME UNCHANGED <<bookings, requestP>>
  PROVE  UNCHANGED <<bookings, readersOf, writersOf>>
  BY DEF readersOf, writersOf, SlotsOf

\* The sessions of C end, the others stay: Close(C).
LEMMA CloseLedger ==
  ASSUME TypeOK, NEW C \in SUBSET Slots, UNCHANGED bookings,
         \A s \in Servers, fd \in Fds :
           requestP'[s][fd] = IF <<s, fd>> \in C THEN NoUser ELSE requestP[s][fd]
  PROVE  Ledger!Close(C)
  <1>1. ASSUME NEW S \in SUBSET Servers, NEW u \in Users
        PROVE  {c \in S \X Fds : requestP'[c[1]][c[2]] = u}
                 = {c \in S \X Fds : requestP[c[1]][c[2]] = u} \ C
    BY UsersAssumption
  <1>2. ReadServers \in SUBSET Servers /\ WriteServers \in SUBSET Servers
    BY DEF Servers
  <1>3. readersOf' = [u \in Users |-> readersOf[u] \ C]
    BY <1>1, <1>2 DEF readersOf, SlotsOf
  <1>4. writersOf' = [u \in Users |-> writersOf[u] \ C]
    BY <1>1, <1>2 DEF writersOf, SlotsOf
  <1> QED BY <1>3, <1>4 DEF Ledger!Close, readersOf, writersOf

\* A granted id opens a session, alone where it has to be.
LEMMA GrantLedger ==
  ASSUME TypeOK, Core, NEW s \in Servers, NEW fd \in Fds, Grant(s, fd)
  PROVE  \E v \in Users : \/ Ledger!OpenRead(<<s, fd>>, v)
                          \/ Ledger!OpenWrite(<<s, fd>>, v)
  <1> DEFINE v == Line(s, fd)
             c == <<s, fd>>
  <1>1. /\ v \in Users /\ MayLock(s, v) /\ requestP[s][fd] = NoUser
        /\ requestP' = [requestP EXCEPT ![s][fd] = v]
        /\ UNCHANGED bookings
    BY DEF Grant, IdLine
  <1> HIDE DEF v
  <1>2. /\ \A t \in Servers \ {s} :
             s \in WriteServers \/ t \in WriteServers => OwnSlots(requestP[t], v) = {}
        /\ s \in WriteServers => OwnSlots(requestP[s], v) = {}
    BY <1>1, MayLockExcludes DEF Core
  <1>3. \A u \in Users : c \notin SlotsOf(ReadServers, u) \cup SlotsOf(WriteServers, u)
    BY <1>1, UsersAssumption DEF SlotsOf
  <1>4. ASSUME NEW S \in SUBSET Servers, NEW u \in Users
        PROVE  {d \in S \X Fds : requestP'[d[1]][d[2]] = u}
                 = {d \in S \X Fds : requestP[d[1]][d[2]] = u}
                     \cup (IF s \in S /\ u = v THEN {c} ELSE {})
    BY <1>1, UsersAssumption DEF TypeOK
  <1>5. ReadServers \in SUBSET Servers /\ WriteServers \in SUBSET Servers
    BY DEF Servers
  <1>6. CASE s \in ReadServers
    <2>1. s \notin WriteServers
      BY <1>6, ServersAssumption
    <2>2. SlotsOf(WriteServers, v) = {}
      BY <1>2, <1>5, <2>1 DEF SlotsOf, OwnSlots
    <2>3. readersOf' = [readersOf EXCEPT ![v] = @ \cup {c}]
      <3>1. \A u \in Users : readersOf'[u] = IF u = v THEN readersOf[u] \cup {c} ELSE readersOf[u]
        BY <1>1, <1>4, <1>5, <1>6 DEF readersOf, SlotsOf
      <3>2. /\ readersOf = [u \in Users |-> readersOf[u]]
            /\ readersOf' = [u \in Users |-> readersOf'[u]]
        BY DEF readersOf
      <3> QED BY <1>1, <3>1, <3>2
    <2>4. writersOf' = writersOf
      BY <1>4, <1>5, <2>1 DEF writersOf, SlotsOf
    <2>5. Ledger!OpenRead(c, v)
      BY <1>1, <1>3, <2>2, <2>3, <2>4 DEF Ledger!OpenRead, Ledger!Idle, readersOf, writersOf
    <2> QED BY <1>1, <2>5
  <1>7. CASE s \in WriteServers
    <2>1. s \notin ReadServers
      BY <1>7, ServersAssumption
    <2>2. SlotsOf(WriteServers, v) = {} /\ SlotsOf(ReadServers, v) = {}
      BY <1>2, <1>5, <1>7, <2>1 DEF SlotsOf, OwnSlots
    <2>3. writersOf' = [writersOf EXCEPT ![v] = {c}]
      <3>1. \A u \in Users : writersOf'[u] = IF u = v THEN {c} ELSE writersOf[u]
        BY <1>1, <1>4, <1>5, <1>7, <2>2 DEF writersOf, SlotsOf
      <3>2. /\ writersOf = [u \in Users |-> writersOf[u]]
            /\ writersOf' = [u \in Users |-> writersOf'[u]]
        BY DEF writersOf
      <3> QED BY <1>1, <3>1, <3>2
    <2>4. readersOf' = readersOf
      BY <1>4, <1>5, <2>1 DEF readersOf, SlotsOf
    <2>5. Ledger!OpenWrite(c, v)
      BY <1>1, <1>3, <2>2, <2>3, <2>4 DEF Ledger!OpenWrite, Ledger!Idle, readersOf, writersOf
    <2> QED BY <1>1, <2>5
  <1> QED BY <1>6, <1>7 DEF Servers

\* A store is the one change its session makes, and the end of the session.
LEMMA StoreLedger ==
  ASSUME TypeOK, Core, NEW s \in Servers, Store(s)
  PROVE  \E c \in Slots, v \in Users : Ledger!Update(c, v)
  <1> DEFINE fd == cur[s]
             v  == requestP[s][fd]
             c  == <<s, fd>>
  <1>1. /\ fd \in Fds /\ v \in Users /\ s \in WriteServers /\ pc[s] = "store"
        /\ target[s] = bookings[v] /\ Legal(param[s])
        /\ bookings' = [bookings EXCEPT ![v] = param[s]]
        /\ requestP' = [requestP EXCEPT ![s][fd] = NoUser]
    BY DEF Store, Core, Handling, NoLostUpdate, Disconnect
  <1>2. PICK d \in Mixtures : param[s] = Plus(bookings[v], d)
    BY <1>1 DEF Core, Handling
  <1>3. \A t \in Servers, g \in Fds : requestP[t][g] = v => t = s /\ g = fd
    <2>1. fd \in OwnSlots(requestP[s], v)
      BY <1>1 DEF OwnSlots
    <2>2. /\ \A t \in Servers \ {s} : OwnSlots(requestP[t], v) = {}
          /\ \A f, g \in OwnSlots(requestP[s], v) : f = g
      BY <1>1, <2>1 DEF Core, WriterExcludes
    <2> QED BY <2>1, <2>2 DEF OwnSlots
  <1>4. v = requestP[s][fd]
    OBVIOUS
  <1> HIDE DEF fd, v
  <1>5. s \notin ReadServers
    BY <1>1, ServersAssumption
  <1>6. writersOf[v] = {c}
    BY <1>1, <1>3, <1>4 DEF writersOf, SlotsOf, Servers
  <1>7. writersOf' = [writersOf EXCEPT ![v] = {}]
    <2>1. \A u \in Users : writersOf'[u] = IF u = v THEN {} ELSE writersOf[u]
      BY <1>1, <1>3, <1>4, UsersAssumption DEF writersOf, SlotsOf, Servers, TypeOK
    <2>2. /\ writersOf = [u \in Users |-> writersOf[u]]
          /\ writersOf' = [u \in Users |-> writersOf'[u]]
      BY DEF writersOf
    <2> QED BY <1>1, <2>1, <2>2
  <1>8. readersOf' = readersOf
    BY <1>1, <1>5 DEF readersOf, SlotsOf, TypeOK
  <1>9. bookings' = [bookings EXCEPT ![v] = Plus(@, d)] /\ Legal(Plus(bookings[v], d))
    BY <1>1, <1>2
  <1>10. Ledger!Update(c, v)
    BY <1>2, <1>6, <1>7, <1>8, <1>9, SameRecords DEF Ledger!Update, readersOf, writersOf
  <1> QED BY <1>1, <1>10 DEF Slots

\* Every step of a server is a step of the ledger, or none.
LEMMA ServerStepLedger ==
  ASSUME TypeOK, Core, NEW s \in Servers, ServerStep(s)
  PROVE  [Ledger!LedgerNext]_<<bookings, readersOf, writersOf>>
  <1>1. CASE Select(s) \/ Accept(s) \/ Show(s)
    BY <1>1, KeptLedger DEF Select, Accept, Show, connVars
  <1>2. ASSUME NEW why \in Stopped, Exit(s, why)
        PROVE  Ledger!LedgerNext
    <2>1. Ledger!Close({s} \X Fds)
      <3>1. \A t \in Servers, fd \in Fds :
              requestP'[t][fd] = IF <<t, fd>> \in {s} \X Fds THEN NoUser ELSE requestP[t][fd]
        BY <1>2 DEF Exit, TypeOK
      <3> QED BY <1>2, <3>1, CloseLedger DEF Exit, Slots
    <2> QED BY <2>1 DEF Ledger!LedgerNext, Slots
  <1>3. CASE AcceptFails(s)
    BY <1>2, <1>3 DEF AcceptFails, Stopped
  <1>4. CASE Store(s)
    BY <1>4, StoreLedger DEF Ledger!LedgerNext
  <1>5. ASSUME NEW fd \in Fds, ReadFails(s, fd) \/ Ignore(s, fd) \/ AcceptCommand(s, fd)
        PROVE  UNCHANGED <<bookings, readersOf, writersOf>>
    BY <1>5, KeptLedger DEF ReadFails, Ignore, AcceptCommand
  <1>6. ASSUME NEW fd \in Fds,
               \/ HangUp(s, fd) \/ Refuse(s, fd)
               \/ Leave(s, fd) \/ RejectCommand(s, fd)
        PROVE  Ledger!LedgerNext
    <2>1. /\ requestP' = [requestP EXCEPT ![s][fd] = NoUser]
          /\ UNCHANGED bookings
      BY <1>6 DEF HangUp, Refuse, Leave, RejectCommand, Disconnect
    <2>2. Ledger!Close({<<s, fd>>})
      <3>1. \A t \in Servers, g \in Fds :
              requestP'[t][g] = IF <<t, g>> \in {<<s, fd>>} THEN NoUser ELSE requestP[t][g]
        BY <2>1 DEF TypeOK
      <3> QED BY <2>1, <3>1, CloseLedger DEF Slots
    <2> QED BY <2>2 DEF Ledger!LedgerNext, Slots
  <1>7. ASSUME NEW fd \in Fds, NoNewlineExit(s, fd) \/ SigPipe(s, fd)
        PROVE  Ledger!LedgerNext
    BY <1>2, <1>7 DEF NoNewlineExit, SigPipe, Stopped
  <1>8. ASSUME NEW fd \in Fds, Grant(s, fd) PROVE Ledger!LedgerNext
    BY <1>8, GrantLedger DEF Ledger!LedgerNext, Slots
  <1> QED BY <1>1, <1>3, <1>4, <1>5, <1>6, <1>7, <1>8 DEF ServerStep

\* So is what the clients and the operator do.
LEMMA EnvironmentLedger ==
  ASSUME TypeOK, NEW s \in Servers, Environment(s)
  PROVE  [Ledger!LedgerNext]_<<bookings, readersOf, writersOf>>
  <1>1. CASE Kill(s)
    <2>1. Ledger!Close({s} \X Fds)
      <3>1. \A t \in Servers, fd \in Fds :
              requestP'[t][fd] = IF <<t, fd>> \in {s} \X Fds THEN NoUser ELSE requestP[t][fd]
        BY <1>1 DEF Kill, Exit, TypeOK
      <3> QED BY <1>1, <3>1, CloseLedger DEF Kill, Exit, Slots
    <2> QED BY <2>1 DEF Ledger!LedgerNext, Slots
  <1>2. CASE Connect(s) \/ Restart(s) \/ \E fd \in Fds : Send(s, fd) \/ Depart(s, fd)
    BY <1>2, KeptLedger DEF Connect, Restart, Send, Depart, connVars
  <1> QED BY <1>1, <1>2 DEF Environment

\* The processes, their select loops, the record locks and the lock counts
\* implement the ledger, for every number of servers, users and clients.
THEOREM ServerImplementsLedger == Spec => ImplementsLedger
  <1>1. Init => Ledger!LedgerInit
    <2> SUFFICES ASSUME Init PROVE Ledger!LedgerInit
      OBVIOUS
    <2>1. /\ bookings \in [Users -> {r \in Booking : Legal(r)}]
      BY InitialAssumption DEF Init
    <2>2. \A S \in SUBSET Servers, u \in Users : SlotsOf(S, u) = {}
      BY UsersAssumption DEF Init, SlotsOf
    <2>3. ReadServers \in SUBSET Servers /\ WriteServers \in SUBSET Servers
      BY DEF Servers
    <2> QED BY <2>1, <2>2, <2>3, SameRecords DEF Ledger!LedgerInit
  <1>2. IInv /\ [Next]_vars => [Ledger!LedgerNext]_<<bookings, readersOf, writersOf>>
    <2> SUFFICES ASSUME IInv, [Next]_vars
                 PROVE  [Ledger!LedgerNext]_<<bookings, readersOf, writersOf>>
      OBVIOUS
    <2>1. CASE UNCHANGED vars
      BY <2>1, KeptLedger DEF vars, connVars
    <2>2. CASE \E s \in Servers : ServerStep(s)
      BY <2>2, ServerStepLedger DEF IInv
    <2>3. CASE \E s \in Servers : Environment(s)
      BY <2>3, EnvironmentLedger DEF IInv
    <2> QED BY <2>1, <2>2, <2>3 DEF Next
  <1>3. <<bookings, readersOf, writersOf>> = Ledger!ledgerVars
    BY DEF Ledger!ledgerVars, readersOf, writersOf
  <1>4. IInv /\ [Next]_vars => [Ledger!LedgerNext]_(Ledger!ledgerVars)
    BY <1>2, <1>3 DEF Ledger!ledgerVars, readersOf, writersOf
  <1> QED BY <1>1, <1>4, Invariant, PTL DEF Spec, ImplementsLedger, Ledger!LedgerSpec
===============================================================================
