CONSTANTS
  r1 = r1
  w1 = w1
  w2 = w2
  u1 = u1
  ReadServers = {}
  WriteServers = {w1}
  Users = {u1}
  NoUser = NoUser
  InitialBookings <- MCInitialBookings
  MaxTotal = 2
  Deltas <- MCOneDelta
  MaxFds = 2
  FdLimit <- MCTwoEach
  MaxBacklog = 1
  MaxInbox = 2
  ClientLines <- SplitLines
  ExitLine = ExitLine
  BadLine = BadLine
  ShortLine = ShortLine
  CtrlC = CtrlC
  Half = Half
  Malformed = Malformed
  Departures = {"closed", "reset"}
  MayKill = FALSE
SPECIFICATION FairSpec
INVARIANT SlotsMatchConnections
PROPERTIES LinesAreTaken DepartedGivesBack
