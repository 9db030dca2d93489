CONSTANTS
  r1 = r1
  w1 = w1
  w2 = w2
  u1 = u1
  ReadServers = {}
  WriteServers = {w1, w2}
  Users = {u1}
  NoUser = NoUser
  InitialBookings <- MCInitialBookings
  MaxTotal = 2
  Deltas <- MCMixedDeltas
  MaxFds = 2
  FdLimit <- MCTwoOne
  MaxBacklog = 1
  MaxInbox = 1
  ClientLines <- WriterLines
  ExitLine = ExitLine
  BadLine = BadLine
  ShortLine = ShortLine
  CtrlC = CtrlC
  Half = Half
  Malformed = Malformed
  Departures = {"closed"}
  MayKill = TRUE
SPECIFICATION Spec
INVARIANTS WriterExcludes NoLostUpdate RecordsLegal
