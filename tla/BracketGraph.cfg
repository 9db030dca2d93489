SPECIFICATION Spec
CONSTANTS
  Battles <- GraphBattles
  Root = "A"
  RealPlayers <- GraphPlayers
  Agents <- GraphAgents
  Left <- GraphLeft
  Right <- GraphRight
  Terrain <- GraphTerrain
  Loser <- GraphLoser
  NoAgent = "-1"
  PlayerID <- GraphPlayerID
  Entries <- GraphEntries
INVARIANT DoubleElimination
