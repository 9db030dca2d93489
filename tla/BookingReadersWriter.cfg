CONSTANTS
  r1 = r1
  w1 = w1
  w2 = w2
  u1 = u1
  ReadServers = {r1}
  WriteServers = {w1}
  Users = {u1}
  NoUser = NoUser
  InitialBookings <- MCInitialBookings
  MaxTotal = 2
  Deltas <- MCOneDelta
  MaxFds = 2
  FdLimit <- MCTwoReaders
  MaxBacklog = 1
  MaxInbox = 1
  ClientLines <- ReaderLines
  ExitLine = ExitLine
  BadLine = BadLine
  ShortLine = ShortLine
  CtrlC = CtrlC
  Half = Half
  Malformed = Malformed
  Departures = {"closed"}
  MayKill = FALSE
SPECIFICATION Spec
INVARIANTS TypeOK LocksMatchSessions ScreenFresh
PROPERTY ImplementsLedger
