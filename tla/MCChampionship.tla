----------------------------- MODULE MCChampionship ----------------------------
(* Half of graph.c's tree: two battles of the first round instead of four. *)
EXTENDS Championship, TLC

MCBattles == {"A", "B", "C", "D", "E", "F"}
MCPlayers == {"0", "1", "2", "3"}
MCAgents  == {"8", "9", "14"}
MCLeft  == "A" :> "B" @@ "B" :> "D" @@ "C" :> "F"  @@ "D" :> "0" @@ "E" :> "2" @@ "F" :> "8"
MCRight == "A" :> "C" @@ "B" :> "E" @@ "C" :> "14" @@ "D" :> "1" @@ "E" :> "3" @@ "F" :> "9"
MCTerrain == "A" :> "F" @@ "B" :> "G" @@ "C" :> "W" @@ "D" :> "F" @@ "E" :> "G" @@ "F" :> "W"
MCLoser == "A" :> "-1" @@ "B" :> "14" @@ "C" :> "-1" @@ "D" :> "8" @@ "E" :> "9" @@ "F" :> "-1"
MCPlayerID == "0" :> 0 @@ "1" :> 1 @@ "2" :> 2 @@ "3" :> 3

Row(HP, ATK, attr) == [HP |-> HP, ATK |-> ATK, attr |-> attr]

\* All the same; rounds of several blows; an upset by the attribute.
MCEntries ==
  { [q \in MCPlayers |-> Row(2, 1, "F")],
    "0" :> Row(4, 2, "F") @@ "1" :> Row(5, 1, "G") @@ "2" :> Row(3, 2, "W") @@ "3" :> Row(2, 2, "G"),
    "0" :> Row(2, 1, "W") @@ "1" :> Row(3, 2, "F") @@ "2" :> Row(6, 1, "F") @@ "3" :> Row(3, 3, "W") }

\* LosersHaveLostTwice is about this tree, too.
ASSUME HalfHasTwoBrackets == Rules!TwoBrackets
===============================================================================
