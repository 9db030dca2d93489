--------------------------- MODULE ChampionshipRules ---------------------------
(***************************************************************************)
(* hw2_pvp-championship: the tree of battles (graph.c), the rules of a      *)
(* battle (battle.c), and the championship as a function of                 *)
(* player_status.txt, the reference of what the processes compute.          *)
(***************************************************************************)
EXTENDS Integers

CONSTANTS
  Battles, Root,
  RealPlayers,      \* read from player_status.txt
  Agents,           \* take over a player who has lost a battle
  Left, Right,      \* Left[b]: the battle or player on the left of b
  Terrain,          \* Terrain[b]: the attribute that doubles the attack
  Loser,            \* Loser[b]: the agent of the one who loses b, or NoAgent
  NoAgent,
  PlayerID,         \* PlayerID[q]: the number of a real player
  Entries           \* the contents of player_status.txt that are considered

Players == RealPlayers \cup Agents

ASSUME GraphAssumption ==
  /\ Root \in Battles
  /\ Left \in [Battles -> Battles \cup Players]
  /\ Right \in [Battles -> Battles \cup Players]
  /\ Loser \in [Battles -> Agents \cup {NoAgent}] /\ NoAgent \notin Agents
  /\ PlayerID \in [RealPlayers -> Nat]
  /\ \A p, q \in RealPlayers : PlayerID[p] = PlayerID[q] => p = q

\* The battles that are decided before b: those below it, and those whose losers
\* enter b.
Before(b) == {c \in Battles : {c, Loser[c]} \cap {Left[b], Right[b]} # {}}

\* A tree: every process but the root is on one side of one battle.  Every agent
\* is for the loser of one battle, and no battle is decided before itself.
ASSUME TreeAssumption ==
  /\ Battles \cap Players = {} /\ RealPlayers \cap Agents = {} /\ RealPlayers # {}
  /\ \A b \in Battles : Left[b] # Right[b] /\ Root \notin {Left[b], Right[b]}
  /\ \A b, c \in Battles : {Left[b], Right[b]} \cap {Left[c], Right[c]} # {} => b = c
  /\ \A p \in Battles \cup Players : p = Root \/ \E b \in Battles : p \in {Left[b], Right[b]}
  /\ \A a \in Agents : \E b \in Battles : \A c \in Battles : Loser[c] = a <=> c = b
  /\ \A S \in SUBSET Battles : S # {} => \E b \in S : Before(b) \cap S = {}

\* Players can hurt, and start alive.
ASSUME EntriesAssumption ==
  \A entry \in Entries : \A q \in RealPlayers :
    entry[q].HP \in Nat \ {0} /\ entry[q].ATK \in Nat \ {0}

Sides == {"left", "right"}
Other(side) == IF side = "left" THEN "right" ELSE "left"
\* Faulty: a battle takes both its fighters from the left.
Child_Left(b, side) == Left[b]
Child(b, side) == IF side = "left" THEN Left[b] ELSE Right[b]

-------------------------------------------------------------------------------
(* The rules.  A Status is [id, HP, battle, flag]; ATK and attr never change  *)
(* and stay in the entry.                                                     *)

Home(q) == CHOOSE b \in Battles : q \in {Left[b], Right[b]}
Fresh(entry, q) == [id |-> q, HP |-> entry[q].HP, battle |-> Home(q), flag |-> 0]

Hit(entry, b, q) ==
  IF entry[q].attr = Terrain[b] THEN 2 * entry[q].ATK ELSE entry[q].ATK

\* Whether s is the first to attack.
compare(s, t) ==
  s.HP < t.HP \/ (s.HP = t.HP /\ PlayerID[s.id] < PlayerID[t.id])

\* The two fighters after one round; the first to attack may end it.
Battle(entry, b, first, second) ==
  LET struck == [second EXCEPT !.HP = @ - Hit(entry, b, first.id)]
      back   == [first EXCEPT !.HP = @ - Hit(entry, b, second.id)]
      End(s) == [s EXCEPT !.flag = 1]
  IN CASE struck.HP <= 0 -> <<End(first), End(struck)>>
       [] struck.HP > 0 /\ back.HP <= 0 -> <<End(back), End(struck)>>
       [] OTHER -> <<back, struck>>

\* A round of b: the fighters on the left and on the right after it.
Round(entry, b, s, t) ==
  LET l == [s EXCEPT !.battle = b]
      r == [t EXCEPT !.battle = b]
  IN IF compare(l, r)
     THEN LET out == Battle(entry, b, l, r) IN [left |-> out[1], right |-> out[2]]
     ELSE LET out == Battle(entry, b, r, l) IN [left |-> out[2], right |-> out[1]]

\* Faulty: half of what it had, not of what it has lost.
Recovered_Half(entry, s) == [s EXCEPT !.HP = @ + entry[s.id].HP \div 2, !.flag = 0]
\* Faulty: a loser hands over the points it is left with.
Revived_AsIs(entry, s) == [s EXCEPT !.flag = 0]

\* A winner regains half of what it has lost, a loser all of it.
Recovered(entry, s) ==
  [s EXCEPT !.HP = @ + (entry[s.id].HP - @) \div 2, !.flag = 0]
Revived(entry, s) == [s EXCEPT !.HP = entry[s.id].HP, !.flag = 0]

WinningSide(out) == IF out.left.HP <= 0 THEN "right" ELSE "left"

-------------------------------------------------------------------------------
(* The reference: every battle of the tree fought to its end. *)

Status == [id : RealPlayers, HP : Int, battle : Battles, flag : {0, 1}]

\* The battle whose loser the agent takes over.
Source(agent) == CHOOSE b \in Battles : Loser[b] = agent

\* The two fighters of b go on until it is decided.
Duel(entry, b) ==
  LET duel[f \in [Sides -> Status]] ==
        LET out == Round(entry, b, f.left, f.right) IN
        IF out.left.flag = 1 THEN out ELSE duel[out]
  IN duel

\* Who enters a battle from the side where x is, if the battles before it have
\* been decided like this.
Entrant(entry, decided, x) ==
  CASE x \in RealPlayers -> Fresh(entry, x)
    [] x \in Agents ->
         LET out == decided[Source(x)] IN Revived(entry, out[Other(WinningSide(out))])
    [] x \in Battles ->
         LET out == decided[x] IN Recovered(entry, out[WinningSide(out)])

Outcome(entry) ==
  LET decided[b \in Battles] ==
        Duel(entry, b)[[x \in Sides |-> Entrant(entry, decided, Child(b, x))]]
  IN decided

Champion(entry) ==
  LET out == Outcome(entry)[Root] IN out[WinningSide(out)].id
===============================================================================
