-------------------------------- MODULE Bracket --------------------------------
(***************************************************************************)
(* hw2_pvp-championship, what the tree of processes promises: battles are   *)
(* decided one after the other, each once both of its entrants are known,   *)
(* with the outcome the rules give it.                                      *)
(***************************************************************************)
EXTENDS ChampionshipRules

VARIABLES
  entry,          \* player_status.txt
  won             \* won[b]: the side that has won b, or "none" yet

vars == <<entry, won>>

Known(x) == \/ x \in RealPlayers
            \/ x \in Agents /\ won[Source(x)] # "none"
            \/ x \in Battles /\ won[x] # "none"

Init == entry \in Entries /\ won = [b \in Battles |-> "none"]

Decide(b) ==
  /\ won[b] = "none" /\ Known(Left[b]) /\ Known(Right[b])
  /\ won' = [won EXCEPT ![b] = WinningSide(Outcome(entry)[b])]
  /\ UNCHANGED entry

Over == (\A b \in Battles : won[b] # "none") /\ UNCHANGED vars

Next == (\E b \in Battles : Decide(b)) \/ Over

Spec == Init /\ [][Next]_vars

-------------------------------------------------------------------------------

\* The battles in which q has been beaten.
Losses(q) ==
  LET out == Outcome(entry)
  IN {b \in Battles : won[b] # "none" /\ out[b][Other(won[b])].id = q}

\* graph.c: who has won all battles meets only such players, in the battles that
\* have an agent for their loser; who has lost one meets only such players until
\* the final, and nobody takes over from who loses again.
TwoBrackets ==
  LET winners == {b \in Battles : Loser[b] # NoAgent}
      Unbeaten == RealPlayers \cup winners
  IN /\ Root \notin winners
     /\ \A b \in winners : {Left[b], Right[b]} \subseteq Unbeaten
     /\ \A b \in Battles \ (winners \cup {Root}) : {Left[b], Right[b]} \cap Unbeaten = {}

\* q is about to fight, or is the champion.
GoesOn(q) ==
  \/ \E b \in Battles, side \in Sides :
       won[b] = "none" /\ Known(Child(b, side)) /\ Outcome(entry)[b][side].id = q
  \/ won[Root] # "none" /\ Champion(entry) = q

\* graph.c's tree is a double elimination: whoever goes on has lost one battle at
\* most, so nobody enters a third one after two lost; and who loses a battle without
\* an agent has lost another one, but in the final, so nobody is out after one.
DoubleElimination ==
  \A q \in RealPlayers :
    /\ \A b, c \in Losses(q) : b # c => ~GoesOn(q)
    /\ \A b \in Losses(q) : Loser[b] = NoAgent => b = Root \/ \E c \in Losses(q) : c # b
===============================================================================
