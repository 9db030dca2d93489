--------------------------- MODULE ChampionshipGraph ---------------------------
(***************************************************************************)
(* The tree of graph.c and the players of player_status.txt, as values for *)
(* the constants of Bracket.                                               *)
(***************************************************************************)
EXTENDS Bracket, TLC

\* setBattle of every battle, with the attributes F(ire), G(rass) and W(ater).
Node(left, right, attr, loser) ==
  [left |-> left, right |-> right, attr |-> attr, loser |-> loser]

graph ==
     "A" :> Node("B", "C", "F", "-1")
  @@ "B" :> Node("D", "E", "G", "14")
  @@ "C" :> Node("F", "14", "W", "-1")
  @@ "D" :> Node("G", "H", "W", "10")
  @@ "E" :> Node("I", "J", "F", "13")
  @@ "F" :> Node("K", "L", "F", "-1")
  @@ "G" :> Node("0", "1", "F", "8")
  @@ "H" :> Node("2", "3", "G", "11")
  @@ "I" :> Node("4", "5", "W", "9")
  @@ "J" :> Node("6", "7", "G", "12")
  @@ "K" :> Node("M", "10", "G", "-1")
  @@ "L" :> Node("N", "13", "G", "-1")
  @@ "M" :> Node("8", "9", "F", "-1")
  @@ "N" :> Node("11", "12", "W", "-1")

GraphBattles == DOMAIN graph
GraphLeft  == [b \in GraphBattles |-> graph[b].left]
GraphRight == [b \in GraphBattles |-> graph[b].right]
GraphTerrain == [b \in GraphBattles |-> graph[b].attr]
GraphLoser == [b \in GraphBattles |-> graph[b].loser]
GraphAgents == {"8", "9", "10", "11", "12", "13", "14"}
GraphPlayers == {"0", "1", "2", "3", "4", "5", "6", "7"}
GraphPlayerID ==
  "0" :> 0 @@ "1" :> 1 @@ "2" :> 2 @@ "3" :> 3 @@ "4" :> 4 @@ "5" :> 5 @@ "6" :> 6 @@ "7" :> 7

Row(HP, ATK, attr) == [HP |-> HP, ATK |-> ATK, attr |-> attr]

player_status ==
     "0" :> Row(7, 2, "F")  @@ "1" :> Row(8, 3, "G")  @@ "2" :> Row(4, 4, "F")
  @@ "3" :> Row(1, 4, "G")  @@ "4" :> Row(12, 2, "W") @@ "5" :> Row(3, 4, "G")
  @@ "6" :> Row(7, 3, "W")  @@ "7" :> Row(10, 2, "W")

\* Another one, in which everybody is the same.
EvenStatus == [q \in GraphPlayers |-> Row(3, 1, "F")]

GraphEntries == {player_status, EvenStatus}

\* What LosersHaveLostTwice takes from the tree is true of this one.
ASSUME GraphHasTwoBrackets == TwoBrackets
===============================================================================
