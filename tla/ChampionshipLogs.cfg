SPECIFICATION Spec
CONSTANTS
  Battles <- MCBattles
  Root = "A"
  RealPlayers <- MCPlayers
  Agents <- MCAgents
  Left <- MCLeft
  Right <- MCRight
  Terrain <- MCTerrain
  Loser <- MCLoser
  NoAgent = "-1"
  PlayerID <- MCPlayerID
  Entries <- MCEntries
INVARIANT LogsAreWhole
