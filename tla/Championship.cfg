SPECIFICATION FairSpec
CONSTANTS
  Battles <- MCBattles
  Root = "A"
  RealPlayers <- MCPlayers
  Agents <- MCAgents
  Left <- MCLeft
  Right <- MCRight
  Terrain <- MCTerrain
  Loser <- MCLoser
  NoAgent = "-1"
  PlayerID <- MCPlayerID
  Entries <- MCEntries
INVARIANTS TypeOK TakeTurns FightersAreFit OneBody ParentsExitLast OneChampion DoubleElimination
PROPERTY ChampionshipEnds ImplementsBracket
