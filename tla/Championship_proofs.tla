-------------------------- MODULE Championship_proofs --------------------------
(***************************************************************************)
(* Proofs about Championship, for any tree, any players and any contents of  *)
(* player_status.txt.                                                       *)
(***************************************************************************)
EXTENDS Championship, Recursion, SequenceTheorems

(* The invariant speaks of the edges of the tree: a battle b and one of its   *)
(* sides, x, with the process Child(b, x) there.                               *)

\* A status whose player has at most the HP it has in the file.
Statuses == {s \in Status : s.HP <= entry[s.id].HP}

Logs == [size : Nat, offset : Nat, lines : Nat]
Places == {"unborn", "start", "readLeft", "readRight", "writeLeft", "writeRight", "reap",
           "relayUp", "relayDown", "reapLast", "report", "await", "handOver", "log",
           "open", "exited"}

Types ==
  /\ entry \in Entries
  /\ pc \in [Processes -> Places]
  /\ status \in [Players -> Statuses]
  /\ stat \in [Battles -> [Sides -> Statuses]]
  /\ side \in [Battles -> Sides \cup {"none"}]
  /\ up \in [Processes -> Seq(Statuses)] /\ down \in [Processes -> Seq(Statuses)]
  /\ fifo \in [Agents -> Seq(Statuses)]
  /\ champion \in Seq(RealPlayers)
  /\ log \in [RealPlayers -> Logs]

\* Who can enter a round, and what an answer says of its player: alive, or told
\* that the battle is over.
Fit(s) == s.HP > 0 /\ s.flag = 0
Answer(s) == s.HP > 0 \/ s.flag = 1

\* The answer after which a side sends nothing any more.
Last(s) == s.flag = 1 /\ (s.HP <= 0 \/ s.battle = Root)

\* The two fighters after a round of b: both may go on, or one has lost and both
\* are told.
Fought(b, out) ==
  /\ out.left.battle = b /\ out.right.battle = b
  /\ out.left.flag = out.right.flag
  /\ IF out.left.flag = 1 THEN out.left.HP <= 0 <=> out.right.HP > 0
                          ELSE out.left.HP > 0 /\ out.right.HP > 0

-------------------------------------------------------------------------------
(* What each process holds. *)

PlayerIsRight(p) ==
  /\ pc[p] \in {"unborn", "report", "await", "handOver", "log", "open", "exited"}
  /\ pc[p] \in {"handOver", "log"} => p \in RealPlayers
  /\ pc[p] = "open" => p \in Agents
  /\ p \in RealPlayers => status[p].id = p
  /\ pc[p] \in {"report", "await", "handOver"} => Fit(status[p])
  /\ pc[p] = "unborn" /\ p \in RealPlayers => Fit(status[p])

BattleIsRight(b) ==
  /\ pc[b] \in {"unborn", "start", "readLeft", "readRight", "writeLeft", "writeRight",
                "reap", "relayUp", "relayDown", "reapLast", "exited"}
  /\ pc[b] \in {"relayUp", "relayDown"} => b # Root /\ side[b] \in Sides
  /\ pc[b] = "readRight" => Fit(stat[b].left)
  /\ pc[b] \in {"writeLeft", "writeRight", "reap"} => Fought(b, stat[b])
  /\ pc[b] = "reap" => stat[b].left.flag = 1

-------------------------------------------------------------------------------
(* What is between a battle and its side. *)

\* A side waits from the status it sends to the answer it reads; in between the
\* status is on its way up, with the battle, or on its way down.
Waits(p) == pc[p] \in {"await", "relayDown"}
Holds(b, x) == \/ pc[b] \in {"readRight", "writeLeft"} /\ x = "left"
               \/ pc[b] \in {"writeLeft", "writeRight"} /\ x = "right"
               \/ pc[b] = "relayDown" /\ x = side[b]
Turn(b, x) ==
  LET p == Child(b, x) IN
  /\ ~Waits(p) => up[p] = <<>> /\ down[p] = <<>> /\ ~Holds(b, x)
  /\ Waits(p) => \/ Len(up[p]) = 1 /\ down[p] = <<>> /\ ~Holds(b, x)
                 \/ up[p] = <<>> /\ Len(down[p]) = 1 /\ ~Holds(b, x)
                 \/ up[p] = <<>> /\ down[p] = <<>> /\ Holds(b, x)

\* Whatever of the three it is, it is about the player for whom the side waits.
Carried(p) == IF p \in Players THEN status[p] ELSE stat[p][side[p]]
SamePlayer(b, x) ==
  LET p == Child(b, x) IN
  /\ up[p] # <<>> => Head(up[p]).id = Carried(p).id /\ Fit(Head(up[p]))
  /\ down[p] # <<>> => Head(down[p]).id = Carried(p).id /\ Answer(Head(down[p]))
  /\ Holds(b, x) => stat[b][x].id = Carried(p).id

\* A battle that is decided reads no more from the side that has lost, nor, if it
\* is the root, from the other; a battle in passing mode does not turn to the
\* loser; and a side that is not read from any more sends nothing.
Decided(b, x) == b = Root \/ x # WinningSide(stat[b])
Ended(b, x) ==
  \/ pc[b] = "writeRight" /\ x = "left" /\ stat[b].left.flag = 1 /\ Decided(b, x)
  \/ pc[b] = "reap" /\ Decided(b, x)
  \/ pc[b] \in {"relayUp", "relayDown"} /\ x # side[b]
  \/ pc[b] \in {"reapLast", "exited"}
Finished(p) == pc[p] \in {"handOver", "log", "reapLast", "exited"}
Gone(p) == Finished(p) \/ (Waits(p) /\ down[p] # <<>> /\ Last(Head(down[p])))
Parting(b, x) == Ended(b, x) => Gone(Child(b, x))

\* A side is forked by its battle and does not outlive it.
Family(b, x) ==
  /\ pc[b] \in {"unborn", "start"} <=> pc[Child(b, x)] = "unborn"
  /\ pc[b] = "exited" => pc[Child(b, x)] = "exited"

Edge(b, x) == Turn(b, x) /\ SamePlayer(b, x) /\ Parting(b, x) /\ Family(b, x)

-------------------------------------------------------------------------------
(* Where a player is. *)

\* An agent that has taken over from q or is about to.  Of these there is one at
\* most, and q does not play any more.
Has(a, q) == \/ \E k \in DOMAIN fifo[a] : fifo[a][k].id = q
             \/ pc[a] \notin {"unborn", "open"} /\ status[a].id = q
HandedOver ==
  /\ \A a \in Agents : \A k \in DOMAIN fifo[a] : Fit(fifo[a][k])
  /\ \A a \in Agents, q \in RealPlayers : Has(a, q) => pc[q] \in {"log", "exited"}
  /\ \A a, c \in Agents, q \in RealPlayers : Has(a, q) /\ Has(c, q) => a = c

\* The processes of the tree from b downwards.
Under ==
  [b \in Processes |->
     {p \in Processes :
        \A S \in SUBSET Processes :
          b \in S /\ (\A c \in Battles : c \in S => Children(c) \subseteq S) => p \in S}]

\* All who wait for the same player lie on one way down the tree.
OneWay ==
  \A p, q \in Processes :
    Waits(p) /\ Waits(q) /\ Carried(p).id = Carried(q).id => p \in Under[q] \/ q \in Under[p]

Everyone == /\ \A p \in Players : PlayerIsRight(p)
            /\ \A b \in Battles : BattleIsRight(b)
Edges == \A b \in Battles, x \in Sides : Edge(b, x)

IInv == Types /\ Everyone /\ Edges /\ HandedOver /\ OneWay

-------------------------------------------------------------------------------
(* The tree. *)

\* No way leads down from a battle to itself: whoever is below a battle is before
\* it.
LEMMA NoWayBack ==
  ASSUME NEW S \in SUBSET Battles, S # {}
  PROVE  \E b \in S : {Left[b], Right[b]} \cap S = {}
  <1>1. PICK b \in S : Before(b) \cap S = {}
    BY TreeAssumption
  <1>2. \A c \in S : c \in {Left[b], Right[b]} => c \in Before(b)
    BY DEF Before
  <1> QED BY <1>1, <1>2

LEMMA Tree ==
  /\ \A b \in Battles, x \in Sides :
       /\ Child(b, x) \in Processes \ {b, Root}
       /\ Child(b, x) \in Children(b)
  /\ \A b, c \in Battles, x, y \in Sides : Child(b, x) = Child(c, y) => b = c /\ x = y
  /\ \A p \in Processes \ {Root} : \E b \in Battles, x \in Sides : p = Child(b, x)
  /\ \A b \in Battles : Children(b) = {Child(b, x) : x \in Sides}
  <1>1. \A b \in Battles : Child(b, "left") = Left[b] /\ Child(b, "right") = Right[b]
    BY DEF Child
  <1>2. \A b \in Battles : {Left[b], Right[b]} \subseteq Processes
    BY GraphAssumption DEF Processes
  <1>3. \A b \in Battles : b \notin {Left[b], Right[b]}
    <2>1. ASSUME NEW b \in Battles
          PROVE  \E c \in {b} : {Left[c], Right[c]} \cap {b} = {}
      <3>1. {b} \in SUBSET Battles /\ {b} # {}
        OBVIOUS
      <3> QED BY <3>1, NoWayBack
    <2> QED BY <2>1
  <1>4. Sides = {"left", "right"} /\ "left" # "right"
    BY DEF Sides
  <1>5. \A b, c \in Battles : \A p \in {Left[b], Right[b]} : p \in {Left[c], Right[c]} => b = c
    BY TreeAssumption
  <1>6. \A b \in Battles : Left[b] # Right[b] /\ Root \notin {Left[b], Right[b]}
    BY TreeAssumption
  <1>7. \A b, c \in Battles, x, y \in Sides : Child(b, x) = Child(c, y) => b = c /\ x = y
    BY <1>1, <1>4, <1>5, <1>6
  <1>8. \A p \in Processes \ {Root} : \E b \in Battles, x \in Sides : p = Child(b, x)
    BY <1>1, <1>4, TreeAssumption DEF Processes
  <1>9. \A b \in Battles : Children(b) = {Child(b, x) : x \in Sides}
    BY <1>1, <1>4 DEF Children
  <1> QED BY <1>1, <1>2, <1>3, <1>4, <1>6, <1>7, <1>8, <1>9 DEF Children

LEMMA Kinds ==
  /\ Processes = Battles \cup Players /\ Battles \cap Players = {}
  /\ Players = RealPlayers \cup Agents /\ RealPlayers \cap Agents = {}
  /\ Root \in Battles /\ Nobody \in RealPlayers
  /\ Sides = {"left", "right"}
  BY GraphAssumption, TreeAssumption DEF Processes, Players, Nobody, Sides

-------------------------------------------------------------------------------
(* The rules. *)

LEMMA EntryIsRight ==
  ASSUME entry \in Entries, NEW q \in RealPlayers
  PROVE  /\ entry[q].HP \in Int /\ entry[q].HP > 0
         /\ entry[q].ATK \in Int /\ entry[q].ATK > 0
  <1>1. entry[q].HP \in Nat \ {0} /\ entry[q].ATK \in Nat \ {0}
    BY EntriesAssumption
  <1> QED BY <1>1

LEMMA StatusIsRight ==
  ASSUME entry \in Entries, NEW s \in Statuses
  PROVE  /\ s \in Status /\ s.id \in RealPlayers /\ s.HP \in Int /\ s.battle \in Battles
         /\ s.flag \in {0, 1}
         /\ entry[s.id].HP \in Int /\ entry[s.id].HP > 0 /\ s.HP <= entry[s.id].HP
  <1>1. s \in Status /\ s.HP <= entry[s.id].HP
    BY DEF Statuses
  <1>2. s.id \in RealPlayers /\ s.HP \in Int /\ s.battle \in Battles /\ s.flag \in {0, 1}
    BY <1>1 DEF Status
  <1> QED BY <1>1, <1>2, EntryIsRight

\* A status in which the HP, the flag or the battle is another.
LEMMA NewStatus ==
  ASSUME NEW s \in Status, NEW h \in Int, NEW f \in {0, 1}, NEW b \in Battles
  PROVE  /\ [s EXCEPT !.HP = h, !.flag = f] =
               [id |-> s.id, HP |-> h, battle |-> s.battle, flag |-> f]
         /\ [s EXCEPT !.HP = h] =
               [id |-> s.id, HP |-> h, battle |-> s.battle, flag |-> s.flag]
         /\ [s EXCEPT !.flag = f] =
               [id |-> s.id, HP |-> s.HP, battle |-> s.battle, flag |-> f]
         /\ [s EXCEPT !.battle = b] =
               [id |-> s.id, HP |-> s.HP, battle |-> b, flag |-> s.flag]
  <1>1. s = [id |-> s.id, HP |-> s.HP, battle |-> s.battle, flag |-> s.flag]
    BY DEF Status
  <1>2. \A q, g, c, e : \A r : r = [id |-> q, HP |-> g, battle |-> c, flag |-> e] =>
          /\ [r EXCEPT !.HP = h] = [id |-> q, HP |-> h, battle |-> c, flag |-> e]
          /\ [r EXCEPT !.flag = f] = [id |-> q, HP |-> g, battle |-> c, flag |-> f]
          /\ [r EXCEPT !.battle = b] = [id |-> q, HP |-> g, battle |-> b, flag |-> e]
    OBVIOUS
  <1> DEFINE r == [s EXCEPT !.HP = h]
  <1>3. r = [id |-> s.id, HP |-> h, battle |-> s.battle, flag |-> s.flag]
    BY <1>1, <1>2
  <1>4. [s EXCEPT !.HP = h, !.flag = f] = [r EXCEPT !.flag = f]
    OBVIOUS
  <1> HIDE DEF r
  <1>5. [s EXCEPT !.HP = h, !.flag = f] =
          [id |-> s.id, HP |-> h, battle |-> s.battle, flag |-> f]
    BY <1>2, <1>3, <1>4
  <1>6. /\ [s EXCEPT !.flag = f] = [id |-> s.id, HP |-> s.HP, battle |-> s.battle, flag |-> f]
        /\ [s EXCEPT !.battle = b] = [id |-> s.id, HP |-> s.HP, battle |-> b, flag |-> s.flag]
    BY <1>1, <1>2
  <1> QED BY <1>3, <1>5, <1>6 DEF r

LEMMA RoundIsRight ==
  ASSUME entry \in Entries, NEW b \in Battles,
         NEW s \in Statuses, NEW t \in Statuses, Fit(s), Fit(t)
  PROVE  LET out == Round(entry, b, s, t) IN
         /\ out \in [Sides -> Statuses]
         /\ out.left.id = s.id /\ out.right.id = t.id
         /\ Fought(b, out)
  <1> DEFINE At(z) == [z EXCEPT !.battle = b]
             Hurt(z, y) == [z EXCEPT !.HP = @ - Hit(entry, b, y.id)]
             End(z) == [z EXCEPT !.flag = 1]
             Good(z) == z.flag = 0 /\ z.battle = b /\ z.HP \in Int
  <1>1. ASSUME NEW z \in Statuses, Fit(z)
        PROVE  At(z) \in Statuses /\ Good(At(z)) /\ At(z).id = z.id /\ At(z).HP > 0
    <2>1. At(z) = [id |-> z.id, HP |-> z.HP, battle |-> b, flag |-> z.flag]
      BY StatusIsRight, NewStatus
    <2>2. At(z) \in Statuses
      BY <2>1, StatusIsRight DEF Statuses, Status
    <2> QED BY <1>1, <2>1, <2>2, StatusIsRight DEF Fit
  <1>2. ASSUME NEW z \in Statuses, Good(z), NEW y \in Statuses, Good(y)
        PROVE  Hurt(z, y) \in Statuses /\ Good(Hurt(z, y)) /\ Hurt(z, y).id = z.id
    <2>1. Hit(entry, b, y.id) \in Int /\ Hit(entry, b, y.id) > 0
      <3>1. entry[y.id].ATK \in Int /\ entry[y.id].ATK > 0
        BY <1>2, StatusIsRight, EntryIsRight
      <3> QED BY <3>1 DEF Hit
    <2> DEFINE h == z.HP - Hit(entry, b, y.id)
    <2>2. h \in Int /\ h <= entry[z.id].HP
      BY <1>2, <2>1, StatusIsRight
    <2>3. Hurt(z, y) = [id |-> z.id, HP |-> h, battle |-> z.battle, flag |-> z.flag]
      BY <1>2, <2>2, StatusIsRight, NewStatus
    <2> HIDE DEF h, Hurt
    <2>4. Hurt(z, y) \in Statuses
      BY <1>2, <2>2, <2>3, StatusIsRight DEF Statuses, Status
    <2> QED BY <1>2, <2>2, <2>3, <2>4
  <1>3. ASSUME NEW z \in Statuses, Good(z)
        PROVE  /\ End(z) \in Statuses /\ End(z).id = z.id /\ End(z).HP = z.HP
               /\ End(z).flag = 1 /\ End(z).battle = b
    <2>1. End(z) = [id |-> z.id, HP |-> z.HP, battle |-> z.battle, flag |-> 1]
      BY <1>3, StatusIsRight, NewStatus
    <2>2. End(z) \in Statuses
      BY <1>3, <2>1, StatusIsRight DEF Statuses, Status
    <2> QED BY <1>3, <2>1, <2>2
  <1> HIDE DEF At, Hurt, End
  <1>4. ASSUME NEW y \in Statuses, Good(y), y.HP > 0, NEW z \in Statuses, Good(z), z.HP > 0
        PROVE  LET two == Battle(entry, b, y, z) IN
               /\ two[1] \in Statuses /\ two[2] \in Statuses
               /\ two[1].id = y.id /\ two[2].id = z.id
               /\ Fought(b, [left |-> two[1], right |-> two[2]])
               /\ Fought(b, [left |-> two[2], right |-> two[1]])
    <2> DEFINE struck == Hurt(z, y)
               back   == Hurt(y, z)
    <2>1. /\ struck \in Statuses /\ Good(struck) /\ struck.id = z.id
          /\ back \in Statuses /\ Good(back) /\ back.id = y.id
      BY <1>2, <1>4
    <2>2. y.HP \in Int
      BY <1>4, StatusIsRight
    <2>3. Battle(entry, b, y, z) =
            CASE struck.HP <= 0 -> <<End(y), End(struck)>>
              [] struck.HP > 0 /\ back.HP <= 0 -> <<End(back), End(struck)>>
              [] OTHER -> <<back, struck>>
      BY DEF Battle, Hurt, End
    <2> HIDE DEF struck, back
    <2>4. CASE struck.HP <= 0
      <3>1. Battle(entry, b, y, z) = <<End(y), End(struck)>>
        BY <2>1, <2>3, <2>4
      <3>2. /\ End(y) \in Statuses /\ End(y).id = y.id /\ End(y).HP = y.HP
            /\ End(y).flag = 1 /\ End(y).battle = b
        BY <1>3, <1>4
      <3>3. /\ End(struck) \in Statuses /\ End(struck).id = z.id /\ End(struck).HP = struck.HP
            /\ End(struck).flag = 1 /\ End(struck).battle = b
        BY <1>3, <2>1
      <3> QED BY <1>4, <2>1, <2>2, <2>4, <3>1, <3>2, <3>3 DEF Fought
    <2>5. CASE struck.HP > 0 /\ back.HP <= 0
      <3>1. Battle(entry, b, y, z) = <<End(back), End(struck)>>
        BY <2>1, <2>3, <2>5
      <3>2. /\ End(back) \in Statuses /\ End(back).id = y.id /\ End(back).HP = back.HP
            /\ End(back).flag = 1 /\ End(back).battle = b
        BY <1>3, <2>1
      <3>3. /\ End(struck) \in Statuses /\ End(struck).id = z.id /\ End(struck).HP = struck.HP
            /\ End(struck).flag = 1 /\ End(struck).battle = b
        BY <1>3, <2>1
      <3> QED BY <2>1, <2>5, <3>1, <3>2, <3>3 DEF Fought
    <2>6. CASE struck.HP > 0 /\ back.HP > 0
      <3>1. Battle(entry, b, y, z) = <<back, struck>>
        BY <2>1, <2>3, <2>6
      <3> QED BY <2>1, <2>6, <3>1 DEF Fought
    <2> QED BY <2>1, <2>4, <2>5, <2>6
  <1>5. /\ At(s) \in Statuses /\ Good(At(s)) /\ At(s).id = s.id /\ At(s).HP > 0
        /\ At(t) \in Statuses /\ Good(At(t)) /\ At(t).id = t.id /\ At(t).HP > 0
    BY <1>1
  <1>6. Round(entry, b, s, t) =
          IF compare(At(s), At(t))
          THEN LET out == Battle(entry, b, At(s), At(t)) IN [left |-> out[1], right |-> out[2]]
          ELSE LET out == Battle(entry, b, At(t), At(s)) IN [left |-> out[2], right |-> out[1]]
    BY DEF Round, At
  <1> HIDE DEF Good
  <1> DEFINE Pair(l, r) == [left |-> l, right |-> r]
  <1>7. CASE compare(At(s), At(t))
    <2> DEFINE two == Battle(entry, b, At(s), At(t))
    <2>1. Round(entry, b, s, t) = Pair(two[1], two[2])
      BY <1>6, <1>7
    <2>2. /\ two[1] \in Statuses /\ two[2] \in Statuses
          /\ two[1].id = s.id /\ two[2].id = t.id
          /\ Fought(b, Pair(two[1], two[2]))
      BY <1>4, <1>5
    <2> HIDE DEF two
    <2> QED BY <2>1, <2>2 DEF Sides
  <1>8. CASE ~compare(At(s), At(t))
    <2> DEFINE two == Battle(entry, b, At(t), At(s))
    <2>1. Round(entry, b, s, t) = Pair(two[2], two[1])
      BY <1>6, <1>8
    <2>2. /\ two[1] \in Statuses /\ two[2] \in Statuses
          /\ two[1].id = t.id /\ two[2].id = s.id
          /\ Fought(b, Pair(two[2], two[1]))
      BY <1>4, <1>5
    <2> HIDE DEF two
    <2> QED BY <2>1, <2>2 DEF Sides
  <1> QED BY <1>7, <1>8

\* What a player makes of an answer: it goes on fit, or it sends nothing more.
LEMMA AfterRoundIsRight ==
  ASSUME entry \in Entries, NEW p \in Players, NEW s \in Statuses, Answer(s)
  PROVE  LET after == AfterRound(p, s) IN
         /\ after.status \in Statuses /\ after.status.id = s.id
         /\ ~Last(s) => after.pc = "report" /\ Fit(after.status)
         /\ Last(s) => \/ after.pc = "exited"
                       \/ after.pc = "handOver" /\ Fit(after.status) /\ p \in RealPlayers
  <1> DEFINE top == entry[s.id].HP
             h   == s.HP + (top - s.HP) \div 2
  <1>1. /\ s \in Status /\ s.id \in RealPlayers /\ s.HP \in Int /\ s.battle \in Battles
        /\ s.flag \in {0, 1} /\ top \in Int /\ top > 0 /\ s.HP <= top
    BY StatusIsRight
  <1>2. h \in Int /\ h <= top /\ (s.HP > 0 => h > 0)
    BY <1>1
  <1>3. Recovered(entry, s) = [id |-> s.id, HP |-> h, battle |-> s.battle, flag |-> 0]
    BY <1>1, <1>2, NewStatus DEF Recovered
  <1>4. Revived(entry, s) = [id |-> s.id, HP |-> top, battle |-> s.battle, flag |-> 0]
    BY <1>1, NewStatus DEF Revived
  <1> HIDE DEF h, top
  <1>5. Recovered(entry, s) \in Statuses /\ Revived(entry, s) \in Statuses
    BY <1>1, <1>2, <1>3, <1>4 DEF top, Statuses, Status
  <1> DEFINE On    == [status |-> s, pc |-> "report"]
             End   == [status |-> s, pc |-> "exited"]
             Heals == [status |-> Recovered(entry, s), pc |-> "report"]
             Hands == IF p \in RealPlayers THEN [status |-> Revived(entry, s), pc |-> "handOver"]
                                           ELSE [status |-> s, pc |-> "exited"]
  <1>6. AfterRound(p, s) =
          CASE s.flag # 1 -> On
            [] s.flag = 1 /\ s.battle = Root -> End
            [] s.flag = 1 /\ s.battle # Root /\ s.HP > 0 -> Heals
            [] s.flag = 1 /\ s.battle # Root /\ s.HP <= 0 -> Hands
    BY DEF AfterRound
  <1> HIDE DEF On, End, Heals, Hands
  <1>7. CASE s.flag # 1
    <2>1. AfterRound(p, s) = On
      BY <1>6, <1>7
    <2> QED BY <1>1, <1>7, <2>1 DEF Answer, Last, Fit, On
  <1>8. CASE s.flag = 1 /\ s.battle = Root
    <2>1. AfterRound(p, s) = End
      BY <1>6, <1>8
    <2> QED BY <1>8, <2>1 DEF Last, End
  <1>9. CASE s.flag = 1 /\ s.battle # Root /\ s.HP > 0
    <2>1. AfterRound(p, s) = Heals
      BY <1>1, <1>6, <1>9
    <2> QED BY <1>1, <1>2, <1>3, <1>5, <1>9, <2>1 DEF Last, Fit, Heals
  <1>10. CASE s.flag = 1 /\ s.battle # Root /\ s.HP <= 0
    <2>1. AfterRound(p, s) = Hands
      BY <1>1, <1>6, <1>10
    <2>2. CASE p \in RealPlayers
      <3>1. AfterRound(p, s) = [status |-> Revived(entry, s), pc |-> "handOver"]
        BY <2>1, <2>2 DEF Hands
      <3>2. Fit(Revived(entry, s)) /\ Revived(entry, s).id = s.id
        BY <1>1, <1>4 DEF Fit
      <3>3. AfterRound(p, s).status = Revived(entry, s) /\ AfterRound(p, s).pc = "handOver"
        BY <3>1
      <3> QED BY <1>5, <1>10, <2>2, <3>2, <3>3 DEF Last, Fit
    <2>3. CASE p \notin RealPlayers
      <3>1. AfterRound(p, s) = [status |-> s, pc |-> "exited"]
        BY <2>1, <2>3 DEF Hands
      <3> QED BY <1>1, <1>10, <2>1, <3>1 DEF Last, Fit
    <2> QED BY <2>2, <2>3
  <1>11. s.flag # 1 \/ s.battle = Root \/ s.HP > 0 \/ s.HP <= 0
    BY <1>1
  <1> QED BY <1>7, <1>8, <1>9, <1>10, <1>11

-------------------------------------------------------------------------------
(* What a step leaves alone. *)

\* A pipe in which there is no more than one status.
LEMMA Pipe ==
  ASSUME NEW S, NEW q \in Seq(S)
  PROVE  /\ \A s \in S : /\ Append(q, s) \in Seq(S)
                        /\ q = <<>> => Len(Append(q, s)) = 1 /\ Head(Append(q, s)) = s
         /\ q # <<>> => Head(q) \in S /\ Tail(q) \in Seq(S)
         /\ Len(q) = 1 => q # <<>> /\ Tail(q) = <<>>
         /\ Len(<<>>) = 0
  <1>1. \A s \in S : Append(q, s) \in Seq(S) /\ Len(Append(q, s)) = Len(q) + 1
    BY AppendProperties
  <1>2. \A s \in S : q = <<>> => Head(Append(q, s)) = s
    BY HeadTailAppend
  <1>3. Len(<<>>) = 0
    OBVIOUS
  <1>4. q # <<>> => Head(q) \in S /\ Tail(q) \in Seq(S) /\ Len(Tail(q)) = Len(q) - 1
    BY HeadTailProperties, Zenon
  <1>5. \A r \in Seq(S) : Len(r) = 0 => r = <<>>
    BY EmptySeq
  <1>6. ASSUME Len(q) = 1
        PROVE  q # <<>> /\ Tail(q) = <<>>
    <2>1. q # <<>>
      BY <1>3, <1>6
    <2>2. Tail(q) \in Seq(S) /\ Len(Tail(q)) = 0
      BY <1>4, <1>6, <2>1
    <2> QED BY <1>5, <2>1, <2>2
  <1> QED BY <1>1, <1>2, <1>3, <1>4, <1>6

\* An edge is as it was if both of its ends and the pipes between them are.
LEMMA EdgeStays ==
  ASSUME NEW b \in Battles, NEW x \in Sides, Edge(b, x),
         pc'[b] = pc[b], side'[b] = side[b], stat'[b] = stat[b],
         pc'[Child(b, x)] = pc[Child(b, x)],
         up'[Child(b, x)] = up[Child(b, x)], down'[Child(b, x)] = down[Child(b, x)],
         Waits(Child(b, x)) => (Carried(Child(b, x)).id)' = Carried(Child(b, x)).id
  PROVE  Edge(b, x)'
  <1> DEFINE p == Child(b, x)
  <1>1. p' = p
    BY DEF Child
  <1>2. /\ Waits(p)' <=> Waits(p)
        /\ Holds(b, x)' <=> Holds(b, x)
        /\ Finished(p)' <=> Finished(p)
        /\ Ended(b, x)' <=> Ended(b, x)
    BY DEF Waits, Holds, Finished, Ended, Decided, WinningSide
  <1>3. Gone(p)' <=> Gone(p)
    BY <1>2 DEF Gone, Last
  <1>4. Turn(b, x)' /\ Parting(b, x)' /\ Family(b, x)'
    BY <1>1, <1>2, <1>3 DEF Edge, Turn, Parting, Family
  <1>5. SamePlayer(b, x)'
    <2>1. CASE Waits(p)
      BY <1>1, <1>2, <2>1 DEF Edge, SamePlayer, Fit, Answer
    <2>2. CASE ~Waits(p)
      BY <1>1, <1>2, <2>2 DEF Edge, Turn, SamePlayer
    <2> QED BY <2>1, <2>2
  <1> QED BY <1>4, <1>5 DEF Edge

\* A step of a player is felt on one edge.
LEMMA PlayerEdges ==
  ASSUME Edges, NEW p \in Players, UNCHANGED <<stat, side>>,
         \A q \in Processes \ {p} : pc'[q] = pc[q] /\ up'[q] = up[q] /\ down'[q] = down[q],
         \A q \in Players \ {p} : status'[q] = status[q],
         \A c \in Battles, y \in Sides : Child(c, y) = p => Edge(c, y)'
  PROVE  Edges'
  <1>1. ASSUME NEW b \in Battles, NEW x \in Sides, Child(b, x) # p
        PROVE  Edge(b, x)'
    <2>1. b # p /\ b \in Processes /\ Child(b, x) \in Processes
      BY Tree, Kinds
    <2>2. (Carried(Child(b, x)))' = Carried(Child(b, x))
      BY <1>1, <2>1, Kinds DEF Carried, Child
    <2>3. Edge(b, x)
      BY DEF Edges
    <2> QED BY <1>1, <2>1, <2>2, <2>3, EdgeStays
  <1> QED BY <1>1 DEF Edges

\* A step of a battle is felt on three: those of its sides and that of itself.
LEMMA BattleEdges ==
  ASSUME Edges, NEW b \in Battles, UNCHANGED status,
         \A q \in Processes \ {b} : pc'[q] = pc[q],
         \A d \in Battles \ {b} : stat'[d] = stat[d] /\ side'[d] = side[d],
         \A q \in Processes \ ({b} \cup Children(b)) : up'[q] = up[q] /\ down'[q] = down[q],
         \A x \in Sides : Edge(b, x)',
         \A c \in Battles, y \in Sides : Child(c, y) = b => Edge(c, y)'
  PROVE  Edges'
  <1>1. ASSUME NEW c \in Battles, NEW y \in Sides, c # b, Child(c, y) # b
        PROVE  Edge(c, y)'
    <2>1. c \in Processes /\ Child(c, y) \in Processes \ ({b} \cup Children(b))
      BY <1>1, Tree, Kinds
    <2>2. (Carried(Child(c, y)))' = Carried(Child(c, y))
      BY <1>1, <2>1, Kinds DEF Carried, Child
    <2>3. Edge(c, y)
      BY DEF Edges
    <2> QED BY <1>1, <2>1, <2>2, <2>3, EdgeStays
  <1> QED BY <1>1 DEF Edges

\* The edge above a battle that does not wait for an answer.
LEMMA EdgeAbove ==
  ASSUME NEW b \in Battles, NEW c \in Battles, NEW y \in Sides, b = Child(c, y), Edge(c, y),
         pc'[c] = pc[c], side'[c] = side[c], stat'[c] = stat[c],
         up'[b] = up[b], down'[b] = down[b], BattleIsRight(b),
         ~Waits(b), ~Waits(b)', pc[b] \notin {"unborn", "exited"}, pc'[b] # "unborn",
         pc[b] = "reapLast" => pc'[b] = "exited"
  PROVE  Edge(c, y)'
  <1>1. Child(c, y)' = b
    BY DEF Child
  <1>2. /\ Holds(c, y)' <=> Holds(c, y)
        /\ Ended(c, y)' <=> Ended(c, y)
    BY DEF Holds, Ended, Decided, WinningSide
  <1>3. up[b] = <<>> /\ down[b] = <<>> /\ ~Holds(c, y)
    BY DEF Edge, Turn
  <1>4. Parting(c, y)' /\ Family(c, y)'
    BY <1>1, <1>2 DEF Edge, Parting, Gone, Finished, Family, BattleIsRight
  <1>5. Turn(c, y)' /\ SamePlayer(c, y)'
    BY <1>1, <1>2, <1>3 DEF Turn, SamePlayer
  <1> QED BY <1>4, <1>5 DEF Edge

\* Nobody begins to wait.
LEMMA OneWayStays ==
  ASSUME OneWay,
         \A q \in Processes : Waits(q)' => Waits(q) /\ (Carried(q).id)' = Carried(q).id
  PROVE  OneWay'
  BY DEF OneWay, Under, Children

\* No agent takes over.
LEMMA HandedOverStays ==
  ASSUME HandedOver, UNCHANGED fifo,
         \A a \in Agents : /\ pc'[a] \in {"unborn", "open"} <=> pc[a] \in {"unborn", "open"}
                           /\ pc[a] \notin {"unborn", "open"} => status'[a].id = status[a].id,
         \A q \in RealPlayers : pc[q] \in {"log", "exited"} => pc'[q] \in {"log", "exited"}
  PROVE  HandedOver'
  <1>1. \A a \in Agents, q \in RealPlayers : Has(a, q)' <=> Has(a, q)
    BY DEF Has
  <1> QED BY <1>1 DEF HandedOver, Fit

-------------------------------------------------------------------------------
(* Who plays, and who waits for whom. *)

LEMMA OneBodyOnly ==
  ASSUME Types, Everyone, HandedOver
  PROVE  OneBody
  <1> DEFINE Plays(p) == pc[p] \in {"report", "await", "handOver"}
  <1>1. ASSUME NEW a \in Agents, Plays(a)
        PROVE  status[a].id \in RealPlayers /\ Has(a, status[a].id)
               /\ pc[status[a].id] \in {"log", "exited"}
    <2>1. status[a].id \in RealPlayers
      BY StatusIsRight, Kinds DEF Types
    <2> QED BY <1>1, <2>1 DEF Has, HandedOver
  <1>2. ASSUME NEW p \in Players, NEW q \in Players, Plays(p), Plays(q),
               status[p].id = status[q].id
        PROVE  p = q
    <2>1. CASE p \in RealPlayers /\ q \in RealPlayers
      BY <1>2, <2>1 DEF Everyone, PlayerIsRight
    <2>2. CASE p \in RealPlayers /\ q \in Agents
      BY <1>1, <1>2, <2>2 DEF Everyone, PlayerIsRight
    <2>3. CASE p \in Agents /\ q \in RealPlayers
      BY <1>1, <1>2, <2>3 DEF Everyone, PlayerIsRight
    <2>4. CASE p \in Agents /\ q \in Agents
      BY <1>1, <1>2, <2>4 DEF HandedOver
    <2> QED BY <2>1, <2>2, <2>3, <2>4, Kinds
  <1> QED BY <1>2 DEF OneBody

\* A battle waits for its parent on behalf of a side that waits for it.
LEMMA WaitsBelow ==
  ASSUME Everyone, Edges, NEW b \in Battles, Waits(b)
  PROVE  \E x \in Sides : Waits(Child(b, x)) /\ Carried(Child(b, x)).id = Carried(b).id
  <1>1. pc[b] = "relayDown" /\ side[b] \in Sides
    BY DEF Everyone, BattleIsRight, Waits
  <1>2. Holds(b, side[b])
    BY <1>1 DEF Holds
  <1>3. Turn(b, side[b]) /\ SamePlayer(b, side[b])
    BY <1>1 DEF Edges, Edge
  <1>4. Carried(b) = stat[b][side[b]]
    BY Kinds DEF Carried
  <1> QED BY <1>1, <1>2, <1>3, <1>4 DEF Turn, SamePlayer

\* Somebody who is waited for is waiting in a process of a player.
LEMMA WaitsAtTheBottom ==
  ASSUME Everyone, Edges, NEW q \in Processes, Waits(q)
  PROVE  \E p \in Players : Waits(p) /\ Carried(p).id = Carried(q).id
  <1> DEFINE On == {b \in Battles : Waits(b) /\ Carried(b).id = Carried(q).id}
  <1>1. CASE q \in Players
    BY <1>1
  <1>2. CASE q \in Battles
    <2>1. On \in SUBSET Battles /\ On # {}
      BY <1>2
    <2>2. PICK b \in On : {Left[b], Right[b]} \cap On = {}
      <3> HIDE DEF On
      <3> QED BY <2>1, NoWayBack
    <2>3. PICK x \in Sides : Waits(Child(b, x)) /\ Carried(Child(b, x)).id = Carried(b).id
      BY WaitsBelow
    <2>4. Child(b, x) \in Players
      <3>1. Child(b, x) \notin On
        BY <2>2 DEF Child
      <3>2. Child(b, x) \in Processes
        BY <2>1, Tree
      <3> QED BY <2>3, <3>1, <3>2, Kinds
    <2> QED BY <2>3, <2>4
  <1> QED BY <1>1, <1>2, Kinds

\* Who is about to report is not waited for anywhere.
LEMMA NotWaitedFor ==
  ASSUME IInv, NEW p \in Players, pc[p] = "report", NEW q \in Processes, Waits(q)
  PROVE  Carried(q).id # status[p].id
  <1>1. PICK r \in Players : Waits(r) /\ Carried(r).id = Carried(q).id
    BY WaitsAtTheBottom DEF IInv
  <1>2. pc[r] = "await" /\ Carried(r) = status[r]
    BY <1>1 DEF IInv, Everyone, PlayerIsRight, Waits, Carried
  <1>3. OneBody
    BY OneBodyOnly DEF IInv
  <1> QED BY <1>1, <1>2, <1>3 DEF OneBody

-------------------------------------------------------------------------------
(* The initial states. *)

LEMMA FreshIsRight ==
  ASSUME entry \in Entries, NEW q \in RealPlayers
  PROVE  Fresh(entry, q) \in Statuses /\ Fit(Fresh(entry, q)) /\ Fresh(entry, q).id = q
  <1>1. q \in Processes \ {Root}
    BY Kinds
  <1>2. \E b \in Battles : q \in {Left[b], Right[b]}
    BY <1>1, TreeAssumption, Kinds
  <1>3. Home(q) \in Battles
    BY <1>2 DEF Home
  <1>4. entry[q].HP \in Int /\ entry[q].HP > 0
    BY EntryIsRight
  <1> QED BY <1>3, <1>4 DEF Fresh, Fit, Statuses, Status

LEMMA InitEstablishes ==
  ASSUME Init
  PROVE  IInv
  <1>1. entry \in Entries
    BY DEF Init
  <1>2. Blank \in Statuses
    BY <1>1, Kinds, EntryIsRight DEF Blank, Statuses, Status
  <1>3. \A S : <<>> \in Seq(S)
    BY EmptySeq
  <1>4. Types
    <2>1. status \in [Players -> Statuses]
      BY <1>1, <1>2, FreshIsRight DEF Init
    <2> HIDE DEF Statuses
    <2>2. stat \in [Battles -> [Sides -> Statuses]]
      BY <1>2 DEF Init
    <2>3. up \in [Processes -> Seq(Statuses)] /\ down \in [Processes -> Seq(Statuses)]
          /\ fifo \in [Agents -> Seq(Statuses)] /\ champion \in Seq(RealPlayers)
      BY <1>3 DEF Init
    <2>4. pc \in [Processes -> Places] /\ side \in [Battles -> Sides \cup {"none"}]
      BY DEF Init, Places
    <2>5. log \in [RealPlayers -> Logs]
      <3>1. [size |-> 0, offset |-> 0, lines |-> 0] \in Logs
        BY DEF Logs
      <3> QED BY <3>1 DEF Init
    <2> QED BY <1>1, <2>1, <2>2, <2>3, <2>4, <2>5 DEF Types
  <1>5. /\ pc[Root] = "start" /\ \A p \in Processes \ {Root} : pc[p] = "unborn"
        /\ \A p \in Processes : up[p] = <<>> /\ down[p] = <<>>
        /\ \A a \in Agents : fifo[a] = <<>>
        /\ \A q \in RealPlayers : status[q] = Fresh(entry, q)
    BY Kinds DEF Init
  <1>6. \A p \in Processes : ~Waits(p)
    BY <1>5 DEF Waits
  <1>7. Everyone
    <2>1. \A p \in Players : p \in Processes \ {Root}
      BY Kinds
    <2>2. \A p \in Players : PlayerIsRight(p)
      BY <1>1, <1>5, <2>1, FreshIsRight DEF PlayerIsRight
    <2>3. \A b \in Battles : pc[b] \in {"unborn", "start"}
      BY <1>5, Kinds
    <2>4. \A b \in Battles : BattleIsRight(b)
      BY <2>3 DEF BattleIsRight
    <2> QED BY <2>2, <2>4 DEF Everyone
  <1>8. Edges
    <2>1. ASSUME NEW b \in Battles, NEW x \in Sides
          PROVE  Edge(b, x)
      <3>1. Child(b, x) \in Processes \ {Root} /\ b \in Processes
        BY Tree, Kinds
      <3>2. pc[b] \in {"unborn", "start"} /\ pc[Child(b, x)] = "unborn"
        BY <1>5, <3>1
      <3> QED BY <1>5, <1>6, <3>1, <3>2
              DEF Edge, Turn, SamePlayer, Parting, Family, Holds, Ended
    <2> QED BY <2>1 DEF Edges
  <1>9. HandedOver
    <2>1. \A a \in Agents, q \in RealPlayers : ~Has(a, q)
      <3>1. \A a \in Agents : pc[a] = "unborn" /\ DOMAIN fifo[a] = {}
        BY <1>5, Kinds
      <3> QED BY <3>1 DEF Has
    <2>2. \A a \in Agents : DOMAIN fifo[a] = {}
      BY <1>5
    <2> QED BY <2>1, <2>2 DEF HandedOver
  <1>10. OneWay
    BY <1>6 DEF OneWay
  <1> QED BY <1>4, <1>7, <1>8, <1>9, <1>10 DEF IInv

-------------------------------------------------------------------------------
(* The players. *)

LEMMA AddedIsRight ==
  ASSUME NEW l \in Logs
  PROVE  Added(l) \in Logs /\ Written(l) \in Logs
  <1> DEFINE r == [l EXCEPT !.size = l.size + 1]
  <1>1. r \in Logs
    BY DEF Logs
  <1>2. Added(l) = [r EXCEPT !.lines = r.lines + 1]
    BY DEF Added, Logs
  <1> HIDE DEF r
  <1>3. Added(l) \in Logs
    BY <1>1, <1>2 DEF Logs
  <1>4. Written(l) \in Logs
    BY DEF Written, Logs
  <1> QED BY <1>3, <1>4

LEMMA LoggedIsRight ==
  ASSUME Types, NEW p \in Players
  PROVE  Logged(p) \in [RealPlayers -> Logs]
  <1>1. log \in [RealPlayers -> Logs] /\ status[p].id \in RealPlayers
    BY StatusIsRight DEF Types
  <1>2. CASE p \in RealPlayers
    BY <1>1, <1>2, AddedIsRight DEF Logged
  <1>3. CASE p \notin RealPlayers
    BY <1>1, <1>3, AddedIsRight DEF Logged
  <1> QED BY <1>2, <1>3

LEMMA ReportKeeps ==
  ASSUME IInv, NEW p \in Players, Report(p)
  PROVE  IInv'
  <1>1. /\ pc[p] = "report" /\ pc' = [pc EXCEPT ![p] = "await"]
        /\ log' = Logged(p) /\ up' = [up EXCEPT ![p] = Append(@, status[p])]
        /\ UNCHANGED <<entry, status, stat, side, down, fifo, champion>>
    BY DEF Report
  <1>2. p \in Processes \ {Root} /\ p \notin Battles
    BY Kinds
  <1>3. Types /\ Everyone /\ Edges /\ HandedOver /\ OneWay
    BY DEF IInv
  <1>4. pc \in [Processes -> Places] /\ up \in [Processes -> Seq(Statuses)]
        /\ status[p] \in Statuses /\ entry \in Entries
    BY <1>3 DEF Types
  <1>5. /\ pc'[p] = "await" /\ \A q \in Processes \ {p} : pc'[q] = pc[q]
        /\ up'[p] = Append(up[p], status[p]) /\ \A q \in Processes \ {p} : up'[q] = up[q]
    BY <1>1, <1>2, <1>4
  <1>6. PlayerIsRight(p)
    BY <1>3 DEF Everyone
  <1>7. Types'
    <2>1. Statuses' = Statuses
      BY <1>1 DEF Statuses
    <2>2. Append(up[p], status[p]) \in Seq(Statuses)
      BY <1>2, <1>4, Pipe
    <2>3. up' \in [Processes -> Seq(Statuses)]
      BY <1>1, <1>4, <2>2
    <2>4. log' \in [RealPlayers -> Logs]
      BY <1>1, <1>3, LoggedIsRight
    <2>5. pc' \in [Processes -> Places]
      BY <1>1, <1>4 DEF Places
    <2> HIDE DEF Statuses
    <2> QED BY <1>1, <1>3, <2>1, <2>3, <2>4, <2>5 DEF Types
  <1>8. Everyone'
    <2>1. \A q \in Players : PlayerIsRight(q)'
      BY <1>1, <1>2, <1>3, <1>5, <1>6, Kinds DEF Everyone, PlayerIsRight, Fit
    <2>2. \A b \in Battles : BattleIsRight(b)'
      BY <1>1, <1>2, <1>3, <1>5, Kinds DEF Everyone, BattleIsRight, Fit, Fought
    <2> QED BY <2>1, <2>2 DEF Everyone
  <1>9. Edges'
    <2>1. ASSUME NEW c \in Battles, NEW y \in Sides, Child(c, y) = p
          PROVE  Edge(c, y)'
      <3>1. Child(c, y)' = p /\ Edge(c, y) /\ pc'[c] = pc[c]
        BY <1>2, <1>3, <1>5, <2>1, Kinds DEF Child, Edges
      <3>2. up[p] = <<>> /\ down[p] = <<>> /\ ~Holds(c, y)
        BY <1>1, <2>1, <3>1 DEF Edge, Turn, Waits
      <3>3. Len(up'[p]) = 1 /\ Head(up'[p]) = status[p] /\ up'[p] # <<>>
        BY <1>2, <1>4, <1>5, <3>2, Pipe
      <3>4. Holds(c, y)' <=> Holds(c, y)
        BY <1>1, <3>1 DEF Holds
      <3>5. Turn(c, y)'
        BY <1>1, <1>5, <3>1, <3>2, <3>3, <3>4 DEF Turn, Waits
      <3>6. SamePlayer(c, y)'
        BY <1>1, <1>6, <3>1, <3>2, <3>3, <3>4 DEF SamePlayer, Carried, PlayerIsRight, Fit
      <3>7. ~Ended(c, y) /\ (Ended(c, y)' <=> Ended(c, y))
        BY <1>1, <2>1, <3>1 DEF Edge, Parting, Gone, Finished, Waits, Ended, Decided, WinningSide
      <3>8. Parting(c, y)' /\ Family(c, y)'
        BY <1>1, <1>5, <2>1, <3>1, <3>7 DEF Edge, Parting, Family
      <3> QED BY <3>5, <3>6, <3>8 DEF Edge
    <2> QED BY <1>1, <1>3, <1>5, <2>1, PlayerEdges
  <1>10. HandedOver'
    <2>1. \A q \in Players : q # p => pc'[q] = pc[q]
      BY <1>5, Kinds
    <2> QED BY <1>1, <1>3, <1>5, <2>1, Kinds, HandedOverStays
  <1>11. OneWay'
    <2>1. \A q \in Processes \ {p} : Waits(q)' <=> Waits(q)
      BY <1>5 DEF Waits
    <2>2. \A q \in Processes : (Carried(q))' = Carried(q)
      BY <1>1 DEF Carried
    <2>3. \A q \in Processes \ {p} : Waits(q)' => Carried(q).id # Carried(p).id
      BY <1>1, <2>1, NotWaitedFor DEF Carried
    <2>4. p \in Under[p] /\ Under' = Under
      BY <1>2 DEF Under, Children
    <2> QED BY <1>3, <2>1, <2>2, <2>3, <2>4 DEF OneWay
  <1> QED BY <1>7, <1>8, <1>9, <1>10, <1>11 DEF IInv

LEMMA ResultKeeps ==
  ASSUME IInv, NEW p \in Players, Result(p)
  PROVE  IInv'
  <1> DEFINE s == Head(down[p])
             after == AfterRound(p, s)
  <1>1. /\ pc[p] = "await" /\ down[p] # <<>>
        /\ status' = [status EXCEPT ![p] = after.status]
        /\ pc' = [pc EXCEPT ![p] = after.pc]
        /\ down' = [down EXCEPT ![p] = Tail(@)]
        /\ log' = Logged(p)
        /\ UNCHANGED <<entry, stat, side, up, fifo, champion>>
    BY DEF Result
  <1>2. p \in Processes \ {Root} /\ p \notin Battles
    BY Kinds
  <1>3. Types /\ Everyone /\ Edges /\ HandedOver /\ OneWay
    BY DEF IInv
  <1>4. /\ pc \in [Processes -> Places] /\ down \in [Processes -> Seq(Statuses)]
        /\ status \in [Players -> Statuses] /\ entry \in Entries
    BY <1>3 DEF Types
  <1>5. PICK c \in Battles, y \in Sides : p = Child(c, y)
    BY <1>2, Tree
  <1>6. Edge(c, y)
    BY <1>3 DEF Edges
  <1>7. s \in Statuses /\ Answer(s) /\ s.id = status[p].id
    BY <1>1, <1>2, <1>4, <1>5, <1>6, Pipe DEF Edge, SamePlayer, Carried
  <1>8. /\ after.status \in Statuses /\ after.status.id = s.id
        /\ ~Last(s) => after.pc = "report" /\ Fit(after.status)
        /\ Last(s) => \/ after.pc = "exited"
                      \/ after.pc = "handOver" /\ Fit(after.status) /\ p \in RealPlayers
    BY <1>4, <1>7, AfterRoundIsRight
  <1>9. up[p] = <<>> /\ Len(down[p]) = 1 /\ ~Holds(c, y)
    BY <1>1, <1>5, <1>6 DEF Edge, Turn, Waits
  <1> HIDE DEF s, after
  <1>10. /\ pc'[p] = after.pc /\ \A q \in Processes \ {p} : pc'[q] = pc[q]
         /\ down'[p] = <<>> /\ \A q \in Processes \ {p} : down'[q] = down[q]
         /\ status'[p] = after.status /\ \A q \in Players \ {p} : status'[q] = status[q]
    BY <1>1, <1>2, <1>4, <1>9, Pipe
  <1>11. PlayerIsRight(p)
    BY <1>3 DEF Everyone
  <1>12. after.pc \in {"report", "handOver", "exited"}
    BY <1>8
  <1>13. Types'
    <2>1. Statuses' = Statuses
      BY <1>1 DEF Statuses
    <2>2. down' \in [Processes -> Seq(Statuses)]
      <3>1. Tail(down[p]) \in Seq(Statuses)
        BY <1>1, <1>2, <1>4, Pipe
      <3> QED BY <1>1, <1>4, <3>1
    <2>3. log' \in [RealPlayers -> Logs]
      BY <1>1, <1>3, LoggedIsRight
    <2>4. pc' \in [Processes -> Places]
      BY <1>1, <1>4, <1>12 DEF Places
    <2>5. status' \in [Players -> Statuses]
      BY <1>1, <1>4, <1>8
    <2> HIDE DEF Statuses
    <2> QED BY <1>1, <1>3, <2>1, <2>2, <2>3, <2>4, <2>5 DEF Types
  <1>14. Everyone'
    <2>1. PlayerIsRight(p)'
      <3>1. status'[p].id = status[p].id
        BY <1>7, <1>8, <1>10
      <3> QED BY <1>8, <1>10, <1>11, <3>1 DEF PlayerIsRight, Fit
    <2>2. \A q \in Players \ {p} : PlayerIsRight(q)'
      BY <1>3, <1>10, Kinds DEF Everyone, PlayerIsRight, Fit
    <2>3. \A b \in Battles : BattleIsRight(b)'
      BY <1>1, <1>2, <1>3, <1>10, Kinds DEF Everyone, BattleIsRight, Fit, Fought
    <2> QED BY <2>1, <2>2, <2>3 DEF Everyone
  <1>15. Edges'
    <2>1. ~Waits(p)'
      BY <1>10, <1>12 DEF Waits
    <2>2. pc'[c] = pc[c] /\ Child(c, y)' = p
      BY <1>2, <1>5, <1>10, Kinds DEF Child
    <2>3. /\ Holds(c, y)' <=> Holds(c, y)
          /\ Ended(c, y)' <=> Ended(c, y)
      BY <1>1, <2>2 DEF Holds, Ended, Decided, WinningSide
    <2>4. Turn(c, y)' /\ SamePlayer(c, y)'
      BY <1>1, <1>9, <1>10, <2>1, <2>2, <2>3 DEF Turn, SamePlayer
    <2>5. Parting(c, y)'
      <3>1. Gone(p) => Last(s)
        BY <1>1 DEF Gone, Finished, s
      <3>2. Last(s) => Gone(p)'
        BY <1>8, <1>10 DEF Gone, Finished
      <3> QED BY <1>5, <1>6, <2>2, <2>3, <3>1, <3>2 DEF Edge, Parting
    <2>6. Family(c, y)'
      BY <1>1, <1>5, <1>6, <1>10, <1>12, <2>2 DEF Edge, Family
    <2>7. Edge(c, y)'
      BY <2>4, <2>5, <2>6 DEF Edge
    <2>8. \A d \in Battles, x \in Sides : Child(d, x) = p => Edge(d, x)'
      BY <1>5, <2>7, Tree
    <2>9. \A q \in Processes \ {p} : up'[q] = up[q]
      BY <1>1
    <2> QED BY <1>1, <1>3, <1>10, <2>8, <2>9, PlayerEdges
  <1>16. HandedOver'
    <2>1. \A a \in Agents : /\ pc'[a] \in {"unborn", "open"} <=> pc[a] \in {"unborn", "open"}
                            /\ status'[a].id = status[a].id
      BY <1>1, <1>7, <1>8, <1>10, <1>12, Kinds
    <2>2. \A q \in RealPlayers : pc[q] \in {"log", "exited"} => pc'[q] = pc[q]
      BY <1>1, <1>10, Kinds
    <2> QED BY <1>1, <1>3, <2>1, <2>2, HandedOverStays
  <1>17. OneWay'
    <2>1. ASSUME NEW q \in Processes, Waits(q)'
          PROVE  Waits(q) /\ Carried(q)' = Carried(q)
      <3>1. q # p
        BY <1>10, <1>12, <2>1 DEF Waits
      <3> QED BY <1>1, <1>10, <2>1, <3>1 DEF Waits, Carried
    <2> QED BY <1>3, <2>1, OneWayStays
  <1> QED BY <1>13, <1>14, <1>15, <1>16, <1>17 DEF IInv

\* A step of a player that neither waits nor begins to, but goes on towards its
\* end or is an agent that takes over.
LEMMA OtherEdgeOf ==
  ASSUME Edges, Everyone, NEW p \in Players, UNCHANGED <<stat, side, up, down>>,
         pc \in [Processes -> Places], NEW v \in Places, pc' = [pc EXCEPT ![p] = v],
         \A q \in Players \ {p} : status'[q] = status[q],
         ~Waits(p), ~Waits(p)', pc[p] \notin {"unborn", "exited"}, v # "unborn",
         Finished(p) => Finished(p)'
  PROVE  Edges'
  <1>1. /\ p \in Processes /\ p \notin Battles
        /\ pc'[p] = v /\ \A q \in Processes \ {p} : pc'[q] = pc[q]
    BY Kinds
  <1>2. ASSUME NEW c \in Battles, NEW y \in Sides, Child(c, y) = p
        PROVE  Edge(c, y)'
    <2>1. Edge(c, y) /\ Child(c, y)' = p /\ pc'[c] = pc[c]
      BY <1>1, <1>2, Kinds DEF Edges, Child
    <2>2. /\ Holds(c, y)' <=> Holds(c, y)
          /\ Ended(c, y)' <=> Ended(c, y)
      BY <2>1 DEF Holds, Ended, Decided, WinningSide
    <2>3. Turn(c, y)' /\ SamePlayer(c, y)'
      BY <1>2, <2>1, <2>2 DEF Edge, Turn, SamePlayer
    <2>4. Parting(c, y)' /\ Family(c, y)'
      BY <1>1, <1>2, <2>1, <2>2 DEF Edge, Parting, Gone, Family
    <2> QED BY <2>3, <2>4 DEF Edge
  <1> QED BY <1>1, <1>2, PlayerEdges

LEMMA HandOverKeeps ==
  ASSUME IInv, NEW p \in RealPlayers, HandOver(p)
  PROVE  IInv'
  <1>1. PICK agent \in Agents :
          /\ pc[p] = "handOver"
          /\ fifo' = [fifo EXCEPT ![agent] = Append(@, status[p])]
          /\ pc' = [pc EXCEPT ![p] = "log"]
          /\ UNCHANGED <<entry, status, stat, side, up, down, champion, log>>
    BY DEF HandOver
  <1>2. p \in Processes /\ p \in Players /\ p \notin Battles /\ p \notin Agents
    BY Kinds
  <1>3. Types /\ Everyone /\ Edges /\ HandedOver /\ OneWay
    BY DEF IInv
  <1>4. /\ pc \in [Processes -> Places] /\ fifo \in [Agents -> Seq(Statuses)]
        /\ status[p] \in Statuses
    BY <1>2, <1>3 DEF Types
  <1>5. /\ pc'[p] = "log" /\ \A q \in Processes \ {p} : pc'[q] = pc[q]
        /\ fifo'[agent] = Append(fifo[agent], status[p])
        /\ \A a \in Agents \ {agent} : fifo'[a] = fifo[a]
    BY <1>1, <1>2, <1>4
  <1>6. PlayerIsRight(p)
    BY <1>2, <1>3 DEF Everyone
  <1>7. Types'
    <2>1. Statuses' = Statuses
      BY <1>1 DEF Statuses
    <2>2. fifo' \in [Agents -> Seq(Statuses)]
      <3>1. Append(fifo[agent], status[p]) \in Seq(Statuses)
        BY <1>1, <1>4, Pipe
      <3> QED BY <1>1, <1>4, <3>1
    <2>3. pc' \in [Processes -> Places]
      BY <1>1, <1>4 DEF Places
    <2> HIDE DEF Statuses
    <2> QED BY <1>1, <1>3, <2>1, <2>2, <2>3 DEF Types
  <1>8. Everyone'
    <2>1. \A q \in Players : PlayerIsRight(q)'
      BY <1>1, <1>2, <1>3, <1>5, <1>6, Kinds DEF Everyone, PlayerIsRight, Fit
    <2>2. \A b \in Battles : BattleIsRight(b)'
      BY <1>1, <1>2, <1>3, <1>5, Kinds DEF Everyone, BattleIsRight, Fit, Fought
    <2> QED BY <2>1, <2>2 DEF Everyone
  <1>9. Edges'
    <2>1. ~Waits(p) /\ ~Waits(p)' /\ Finished(p)'
      BY <1>1, <1>5 DEF Waits, Finished
    <2> QED BY <1>1, <1>2, <1>3, <1>4, <2>1, OtherEdgeOf DEF Places
  <1>10. HandedOver'
    <2>1. \A a \in Agents : pc'[a] = pc[a] /\ status'[a] = status[a]
      BY <1>1, <1>2, <1>5, Kinds
    <2>2. status[p].id = p /\ Fit(status[p])
      BY <1>1, <1>2, <1>6 DEF PlayerIsRight
    <2>3. \A a \in Agents : ~Has(a, p)
      BY <1>1, <1>3 DEF HandedOver
    <2>4. \A k \in DOMAIN fifo'[agent] :
            \/ fifo'[agent][k] = status[p]
            \/ k \in DOMAIN fifo[agent] /\ fifo'[agent][k] = fifo[agent][k]
      <3>1. fifo[agent] \in Seq(Statuses)
        BY <1>1, <1>4
      <3>2. /\ Append(fifo[agent], status[p]) \in Seq(Statuses)
            /\ Len(Append(fifo[agent], status[p])) = Len(fifo[agent]) + 1
            /\ \A k \in 1..Len(fifo[agent]) :
                 Append(fifo[agent], status[p])[k] = fifo[agent][k]
            /\ Append(fifo[agent], status[p])[Len(fifo[agent]) + 1] = status[p]
        BY <1>4, <3>1, AppendProperties
      <3>3. /\ Len(fifo[agent]) \in Nat /\ DOMAIN fifo[agent] = 1..Len(fifo[agent])
            /\ DOMAIN Append(fifo[agent], status[p]) = 1..(Len(fifo[agent]) + 1)
        BY <3>1, <3>2, LenProperties
      <3> QED BY <1>5, <3>2, <3>3
    <2>5. \A a \in Agents, q \in RealPlayers : Has(a, q)' => Has(a, q) \/ (a = agent /\ q = p)
      <3>1. \A q \in RealPlayers : Has(agent, q)' => Has(agent, q) \/ q = p
        BY <1>1, <2>1, <2>2, <2>4 DEF Has
      <3>2. \A a \in Agents \ {agent}, q \in RealPlayers : Has(a, q)' => Has(a, q)
        BY <1>5, <2>1 DEF Has
      <3> QED BY <3>1, <3>2
    <2>6. \A a \in Agents : \A k \in DOMAIN fifo'[a] : Fit(fifo'[a][k])
      BY <1>3, <1>5, <2>2, <2>4, SMTT(20) DEF HandedOver, Fit
    <2>7. \A q \in RealPlayers : pc[q] \in {"log", "exited"} => pc'[q] \in {"log", "exited"}
      BY <1>5, Kinds
    <2> QED BY <1>3, <1>5, <2>3, <2>5, <2>6, <2>7 DEF HandedOver, Fit
  <1>11. OneWay'
    <2>1. \A q \in Processes : Waits(q)' => Waits(q) /\ Carried(q)' = Carried(q)
      BY <1>1, <1>5 DEF Waits, Carried
    <2> QED BY <1>3, <2>1, OneWayStays
  <1> QED BY <1>7, <1>8, <1>9, <1>10, <1>11 DEF IInv

LEMMA LogHandOverKeeps ==
  ASSUME IInv, NEW p \in RealPlayers, LogHandOver(p)
  PROVE  IInv'
  <1>1. /\ pc[p] = "log" /\ pc' = [pc EXCEPT ![p] = "exited"] /\ log' = Logged(p)
        /\ UNCHANGED <<entry, status, stat, side, up, down, fifo, champion>>
    BY DEF LogHandOver, pipes
  <1>2. p \in Processes /\ p \in Players /\ p \notin Battles /\ p \notin Agents
    BY Kinds
  <1>3. Types /\ Everyone /\ Edges /\ HandedOver /\ OneWay
    BY DEF IInv
  <1>4. pc \in [Processes -> Places]
    BY <1>3 DEF Types
  <1>5. pc'[p] = "exited" /\ \A q \in Processes \ {p} : pc'[q] = pc[q]
    BY <1>1, <1>2, <1>4
  <1>6. Types'
    <2>1. Statuses' = Statuses
      BY <1>1 DEF Statuses
    <2>2. log' \in [RealPlayers -> Logs]
      BY <1>1, <1>2, <1>3, LoggedIsRight
    <2>3. pc' \in [Processes -> Places]
      BY <1>1, <1>4 DEF Places
    <2> HIDE DEF Statuses
    <2> QED BY <1>1, <1>3, <2>1, <2>2, <2>3 DEF Types
  <1>7. Everyone'
    <2>1. \A q \in Players : PlayerIsRight(q)'
      BY <1>1, <1>2, <1>3, <1>5, Kinds DEF Everyone, PlayerIsRight, Fit
    <2>2. \A b \in Battles : BattleIsRight(b)'
      BY <1>1, <1>2, <1>3, <1>5, Kinds DEF Everyone, BattleIsRight, Fit, Fought
    <2> QED BY <2>1, <2>2 DEF Everyone
  <1>8. Edges'
    <2>1. ~Waits(p) /\ ~Waits(p)' /\ Finished(p)'
      BY <1>1, <1>5 DEF Waits, Finished
    <2> QED BY <1>1, <1>2, <1>3, <1>4, <2>1, OtherEdgeOf DEF Places
  <1>9. HandedOver'
    <2>1. \A a \in Agents : pc'[a] = pc[a]
      BY <1>2, <1>5, Kinds
    <2>2. \A q \in RealPlayers : pc[q] \in {"log", "exited"} => pc'[q] \in {"log", "exited"}
      BY <1>5, Kinds
    <2> QED BY <1>1, <1>3, <2>1, <2>2, HandedOverStays
  <1>10. OneWay'
    <2>1. \A q \in Processes : Waits(q)' => Waits(q) /\ Carried(q)' = Carried(q)
      BY <1>1, <1>5 DEF Waits, Carried
    <2> QED BY <1>3, <2>1, OneWayStays
  <1> QED BY <1>6, <1>7, <1>8, <1>9, <1>10 DEF IInv

LEMMA TakeOverKeeps ==
  ASSUME IInv, NEW p \in Agents, TakeOver(p)
  PROVE  IInv'
  <1> DEFINE s == Head(fifo[p])
  <1>1. /\ pc[p] = "open" /\ fifo[p] # <<>>
        /\ status' = [status EXCEPT ![p] = s]
        /\ log' = [log EXCEPT ![s.id] = Added(@)]
        /\ fifo' = [fifo EXCEPT ![p] = Tail(@)]
        /\ pc' = [pc EXCEPT ![p] = "report"]
        /\ UNCHANGED <<entry, stat, side, up, down, champion>>
    BY DEF TakeOver
  <1>2. p \in Processes /\ p \in Players /\ p \notin Battles /\ p \notin RealPlayers
    BY Kinds
  <1>3. Types /\ Everyone /\ Edges /\ HandedOver /\ OneWay
    BY DEF IInv
  <1>4. /\ pc \in [Processes -> Places] /\ fifo \in [Agents -> Seq(Statuses)]
        /\ status \in [Players -> Statuses] /\ entry \in Entries /\ log \in [RealPlayers -> Logs]
    BY <1>3 DEF Types
  <1>5. /\ s \in Statuses /\ Tail(fifo[p]) \in Seq(Statuses)
        /\ 1 \in DOMAIN fifo[p] /\ s = fifo[p][1]
        /\ \A k \in DOMAIN Tail(fifo[p]) : k + 1 \in DOMAIN fifo[p]
                                        /\ Tail(fifo[p])[k] = fifo[p][k + 1]
    <2>1. fifo[p] \in Seq(Statuses)
      BY <1>4
    <2>2. Tail(fifo[p]) \in Seq(Statuses) /\ Len(Tail(fifo[p])) = Len(fifo[p]) - 1
          /\ \A k \in 1..Len(Tail(fifo[p])) : Tail(fifo[p])[k] = fifo[p][k + 1]
      BY <1>1, <2>1, HeadTailProperties
    <2>3. /\ Len(fifo[p]) \in Nat /\ Len(fifo[p]) > 0 /\ DOMAIN fifo[p] = 1..Len(fifo[p])
          /\ DOMAIN Tail(fifo[p]) = 1..Len(Tail(fifo[p]))
      BY <1>1, <2>1, <2>2, LenProperties, EmptySeq
    <2>4. s \in Statuses
      BY <1>1, <2>1, Pipe
    <2>5. s = fifo[p][1]
      BY <1>1, <2>1
    <2> QED BY <2>2, <2>3, <2>4, <2>5
  <1> HIDE DEF s
  <1>6. /\ pc'[p] = "report" /\ \A q \in Processes \ {p} : pc'[q] = pc[q]
        /\ status'[p] = s /\ \A q \in Players \ {p} : status'[q] = status[q]
        /\ fifo'[p] = Tail(fifo[p]) /\ \A a \in Agents \ {p} : fifo'[a] = fifo[a]
    BY <1>1, <1>2, <1>4
  <1>7. Fit(s) /\ s.id \in RealPlayers
    BY <1>3, <1>4, <1>5, StatusIsRight DEF HandedOver
  <1>8. Types'
    <2>1. Statuses' = Statuses
      BY <1>1 DEF Statuses
    <2>2. log' \in [RealPlayers -> Logs]
      <3>1. log[s.id] \in Logs
        BY <1>4, <1>7
      <3>2. Added(log[s.id]) \in Logs
        BY <3>1, AddedIsRight
      <3> QED BY <1>1, <1>4, <3>2
    <2>3. pc' \in [Processes -> Places]
      BY <1>1, <1>4 DEF Places
    <2>4. status' \in [Players -> Statuses] /\ fifo' \in [Agents -> Seq(Statuses)]
      BY <1>1, <1>4, <1>5
    <2> HIDE DEF Statuses
    <2> QED BY <1>1, <1>3, <2>1, <2>2, <2>3, <2>4 DEF Types
  <1>9. Everyone'
    <2>1. PlayerIsRight(p)'
      BY <1>2, <1>6, <1>7 DEF PlayerIsRight, Fit
    <2>2. \A q \in Players \ {p} : PlayerIsRight(q)'
      BY <1>3, <1>6, Kinds DEF Everyone, PlayerIsRight, Fit
    <2>3. \A b \in Battles : BattleIsRight(b)'
      BY <1>1, <1>2, <1>3, <1>6, Kinds DEF Everyone, BattleIsRight, Fit, Fought
    <2> QED BY <2>1, <2>2, <2>3 DEF Everyone
  <1>10. Edges'
    <2>1. ~Waits(p) /\ ~Waits(p)' /\ ~Finished(p)
      BY <1>1, <1>6 DEF Waits, Finished
    <2> QED BY <1>1, <1>2, <1>3, <1>4, <1>6, <2>1, OtherEdgeOf DEF Places
  <1>11. HandedOver'
    <2>1. \A q \in RealPlayers : Has(p, q)' => Has(p, q)
      BY <1>5, <1>6 DEF Has
    <2>2. \A a \in Agents \ {p}, q \in RealPlayers : Has(a, q)' => Has(a, q)
      BY <1>6, Kinds DEF Has
    <2>3. \A q \in RealPlayers : pc'[q] = pc[q]
      BY <1>2, <1>6, Kinds
    <2>4. \A a \in Agents : \A k \in DOMAIN fifo'[a] : Fit(fifo'[a][k])
      <3>1. \A k \in DOMAIN fifo[p] : Fit(fifo[p][k])
        BY <1>3 DEF HandedOver
      <3>2. \A k \in DOMAIN fifo'[p] : Fit(fifo'[p][k])
        BY <1>5, <1>6, <3>1
      <3> QED BY <1>3, <1>6, <3>2 DEF HandedOver
    <2> QED BY <1>3, <2>1, <2>2, <2>3, <2>4 DEF HandedOver, Fit
  <1>12. OneWay'
    <2>1. \A q \in Processes : Waits(q)' => Waits(q) /\ q # p
      BY <1>6 DEF Waits
    <2>2. \A q \in Processes \ {p} : Carried(q)' = Carried(q)
      BY <1>1, <1>6 DEF Carried
    <2> QED BY <1>3, <2>1, <2>2, OneWayStays
  <1> QED BY <1>8, <1>9, <1>10, <1>11, <1>12 DEF IInv

-------------------------------------------------------------------------------
(* The battles. *)

\* What is left to show of a step of a battle that no child is forked in.
LEMMA BattleStepKeeps ==
  ASSUME IInv, NEW b \in Battles, NEW v \in Places, pc' = [pc EXCEPT ![b] = v],
         UNCHANGED <<entry, status, fifo, log>>,
         stat' \in [Battles -> [Sides -> Statuses]], side' \in [Battles -> Sides \cup {"none"}],
         up' \in [Processes -> Seq(Statuses)], down' \in [Processes -> Seq(Statuses)],
         champion' \in Seq(RealPlayers),
         \A d \in Battles \ {b} : stat'[d] = stat[d] /\ side'[d] = side[d],
         \A q \in Processes \ ({b} \cup Children(b)) : up'[q] = up[q] /\ down'[q] = down[q],
         BattleIsRight(b)', \A x \in Sides : Edge(b, x)',
         \A c \in Battles, y \in Sides : Child(c, y) = b => Edge(c, y)',
         OneWay'
  PROVE  IInv'
  <1>1. Types /\ Everyone /\ Edges /\ HandedOver
    BY DEF IInv
  <1>2. pc'[b] = v /\ \A q \in Processes \ {b} : pc'[q] = pc[q]
    BY <1>1, Kinds DEF Types
  <1>3. Types'
    <2>1. Statuses' = Statuses
      BY DEF Statuses
    <2>2. pc' \in [Processes -> Places]
      BY <1>1 DEF Types
    <2> HIDE DEF Statuses
    <2> QED BY <1>1, <2>1, <2>2 DEF Types
  <1>4. Everyone'
    <2>1. \A q \in Players : PlayerIsRight(q)'
      BY <1>1, <1>2, Kinds DEF Everyone, PlayerIsRight, Fit
    <2>2. ASSUME NEW d \in Battles \ {b}
          PROVE  BattleIsRight(d)'
      <3>1. BattleIsRight(d) /\ pc'[d] = pc[d] /\ stat'[d] = stat[d] /\ side'[d] = side[d]
        BY <1>1, <1>2, Kinds DEF Everyone
      <3> QED BY <3>1 DEF BattleIsRight
    <2> QED BY <2>1, <2>2 DEF Everyone
  <1>5. Edges'
    BY <1>1, <1>2, BattleEdges
  <1>6. HandedOver'
    <2>1. \A q \in Players : pc'[q] = pc[q]
      BY <1>2, Kinds
    <2> QED BY <1>1, <2>1, Kinds, HandedOverStays
  <1> QED BY <1>3, <1>4, <1>5, <1>6 DEF IInv

\* The edge to a side whose turn it is not.
LEMMA SideStays ==
  ASSUME NEW b \in Battles, NEW x \in Sides, Edge(b, x),
         \A p \in {Child(b, x)} : /\ pc'[p] = pc[p] /\ up'[p] = up[p] /\ down'[p] = down[p]
                                  /\ Carried(p)' = Carried(p),
         Holds(b, x)' <=> Holds(b, x),
         Holds(b, x) => stat'[b][x].id = stat[b][x].id,
         Ended(b, x)' => Ended(b, x),
         pc[b] \notin {"unborn", "start"}, pc'[b] \notin {"unborn", "start"},
         pc'[b] = "exited" => pc[Child(b, x)] = "exited"
  PROVE  Edge(b, x)'
  <1> DEFINE p == Child(b, x)
  <1>1. /\ p' = p /\ pc'[p] = pc[p] /\ up'[p] = up[p] /\ down'[p] = down[p]
        /\ Carried(p)' = Carried(p)
    BY DEF Child
  <1>2. (Waits(p)' <=> Waits(p)) /\ (Gone(p)' <=> Gone(p))
    BY <1>1 DEF Waits, Gone, Finished, Last
  <1>3. Turn(b, x)'
    BY <1>1, <1>2 DEF Edge, Turn
  <1>4. SamePlayer(b, x)'
    BY <1>1, <1>2 DEF Edge, SamePlayer, Fit, Answer
  <1>5. Parting(b, x)' /\ Family(b, x)'
    BY <1>1, <1>2 DEF Edge, Parting, Family
  <1> QED BY <1>3, <1>4, <1>5 DEF Edge

\* The player for whom another process waits.
LEMMA CarriedStays ==
  ASSUME NEW b \in Battles, UNCHANGED status,
         \A d \in Battles \ {b} : stat'[d] = stat[d] /\ side'[d] = side[d],
         NEW p \in Processes \ {b}
  PROVE  Carried(p)' = Carried(p)
  BY Kinds DEF Carried

LEMMA ReadLeftKeeps ==
  ASSUME IInv, NEW b \in Battles, ReadLeft(b)
  PROVE  IInv'
  <1> DEFINE p == Left[b]
             s == Head(up[p])
  <1>1. /\ pc[b] = "readLeft" /\ up[p] # <<>> /\ pc' = [pc EXCEPT ![b] = "readRight"]
        /\ stat' = [stat EXCEPT ![b].left = s] /\ up' = [up EXCEPT ![p] = Tail(@)]
        /\ UNCHANGED <<entry, status, side, down, fifo, champion, log>>
    BY DEF ReadLeft
  <1>2. /\ b \in Processes /\ p \in Processes \ {b} /\ p \in Children(b) /\ p = Child(b, "left")
        /\ Child(b, "right") \in Processes \ {b, p} /\ Sides = {"left", "right"}
    BY Tree, Kinds DEF Child
  <1>3. Types /\ Everyone /\ Edges /\ HandedOver /\ OneWay
    BY DEF IInv
  <1>4. /\ pc \in [Processes -> Places] /\ up \in [Processes -> Seq(Statuses)]
        /\ stat \in [Battles -> [Sides -> Statuses]]
    BY <1>3 DEF Types
  <1>5. Edge(b, "left") /\ Edge(b, "right") /\ BattleIsRight(b)
    BY <1>2, <1>3 DEF Edges, Everyone
  <1>6. /\ s \in Statuses /\ Fit(s) /\ s.id = Carried(p).id
        /\ Waits(p) /\ Len(up[p]) = 1 /\ down[p] = <<>>
    BY <1>1, <1>2, <1>4, <1>5, Pipe DEF Edge, Turn, SamePlayer
  <1> HIDE DEF s, p
  <1>7. /\ pc'[b] = "readRight" /\ \A q \in Processes \ {b} : pc'[q] = pc[q]
        /\ up'[p] = <<>> /\ \A q \in Processes \ {p} : up'[q] = up[q]
        /\ stat'[b]["left"] = s /\ \A d \in Battles \ {b} : stat'[d] = stat[d]
    BY <1>1, <1>2, <1>4, <1>6, Pipe
  <1>8. stat' \in [Battles -> [Sides -> Statuses]] /\ up' \in [Processes -> Seq(Statuses)]
    <2>1. Tail(up[p]) \in Seq(Statuses)
      BY <1>1, <1>2, <1>4, Pipe
    <2> QED BY <1>1, <1>2, <1>4, <1>6, <2>1
  <1>9. \A q \in Processes \ {b} : Carried(q)' = Carried(q)
    BY <1>1, <1>7, CarriedStays
  <1>10. BattleIsRight(b)'
    BY <1>6, <1>7 DEF BattleIsRight, Fit
  <1>11. Edge(b, "left")'
    <2>1. Child(b, "left")' = p
      BY <1>2 DEF Child
    <2>2. Holds(b, "left")' /\ ~Ended(b, "left")' /\ Waits(p)'
      BY <1>2, <1>6, <1>7 DEF Holds, Ended, Waits
    <2>3. Turn(b, "left")' /\ SamePlayer(b, "left")'
      BY <1>1, <1>2, <1>6, <1>7, <1>9, <2>1, <2>2 DEF Turn, SamePlayer
    <2>4. Parting(b, "left")' /\ Family(b, "left")'
      BY <1>1, <1>2, <1>5, <1>7, <2>1, <2>2 DEF Edge, Parting, Family
    <2> QED BY <2>3, <2>4 DEF Edge
  <1>12. Edge(b, "right")'
    <2>1. ~Holds(b, "right") /\ ~Holds(b, "right")' /\ ~Ended(b, "right")'
      BY <1>1, <1>7 DEF Holds, Ended
    <2> QED BY <1>1, <1>2, <1>5, <1>7, <1>9, <2>1, SideStays
  <1>13. ASSUME NEW c \in Battles, NEW y \in Sides, Child(c, y) = b
         PROVE  Edge(c, y)'
    <2>1. Edge(c, y) /\ c # b
      BY <1>3, <1>13, Tree DEF Edges
    <2>2. ~Waits(b) /\ ~Waits(b)'
      BY <1>1, <1>7 DEF Waits
    <2> QED BY <1>1, <1>2, <1>5, <1>7, <1>13, <2>1, <2>2, Kinds, EdgeAbove
  <1>14. OneWay'
    <2>1. \A q \in Processes : Waits(q)' => Waits(q) /\ q # b
      BY <1>7 DEF Waits
    <2> QED BY <1>3, <1>9, <2>1, OneWayStays
  <1>15. \A x \in Sides : Edge(b, x)'
    BY <1>2, <1>11, <1>12
  <1>16. \A q \in Processes \ ({b} \cup Children(b)) : up'[q] = up[q] /\ down'[q] = down[q]
    BY <1>1, <1>2, <1>7
  <1>17. "readRight" \in Places /\ UNCHANGED <<entry, status, fifo, log>>
    BY <1>1 DEF Places
  <1>18. \A d \in Battles \ {b} : stat'[d] = stat[d] /\ side'[d] = side[d]
    BY <1>1, <1>7
  <1> QED BY <1>1, <1>3, <1>8, <1>10, <1>13, <1>14, <1>15, <1>16, <1>17, <1>18,
             BattleStepKeeps DEF Types

LEMMA ReadRightKeeps ==
  ASSUME IInv, NEW b \in Battles, ReadRight(b)
  PROVE  IInv'
  <1> DEFINE p == Right[b]
             s == Head(up[p])
             out == Round(entry, b, stat[b].left, s)
  <1>1. /\ pc[b] = "readRight" /\ up[p] # <<>> /\ pc' = [pc EXCEPT ![b] = "writeLeft"]
        /\ stat' = [stat EXCEPT ![b] = out] /\ up' = [up EXCEPT ![p] = Tail(@)]
        /\ UNCHANGED <<entry, status, side, down, fifo, champion, log>>
    BY DEF ReadRight
  <1>2. /\ b \in Processes /\ p \in Processes \ {b} /\ p \in Children(b) /\ p = Child(b, "right")
        /\ Child(b, "left") \in Processes \ {b, p} /\ Sides = {"left", "right"}
    BY Tree, Kinds DEF Child
  <1>3. Types /\ Everyone /\ Edges /\ HandedOver /\ OneWay
    BY DEF IInv
  <1>4. /\ pc \in [Processes -> Places] /\ up \in [Processes -> Seq(Statuses)]
        /\ stat \in [Battles -> [Sides -> Statuses]] /\ entry \in Entries
    BY <1>3 DEF Types
  <1>5. Edge(b, "left") /\ Edge(b, "right") /\ BattleIsRight(b)
    BY <1>2, <1>3 DEF Edges, Everyone
  <1>6. /\ s \in Statuses /\ Fit(s) /\ s.id = Carried(p).id
        /\ Waits(p) /\ Len(up[p]) = 1 /\ down[p] = <<>>
    BY <1>1, <1>2, <1>4, <1>5, Pipe DEF Edge, Turn, SamePlayer
  <1>7. /\ out \in [Sides -> Statuses] /\ Fought(b, out)
        /\ out.left.id = stat[b].left.id /\ out.right.id = s.id
    <2>1. stat[b].left \in Statuses /\ Fit(stat[b].left)
      BY <1>1, <1>2, <1>4, <1>5 DEF BattleIsRight
    <2> HIDE DEF s
    <2> QED BY <1>4, <1>6, <2>1, RoundIsRight
  <1> HIDE DEF s, p, out
  <1>8. /\ pc'[b] = "writeLeft" /\ \A q \in Processes \ {b} : pc'[q] = pc[q]
        /\ up'[p] = <<>> /\ \A q \in Processes \ {p} : up'[q] = up[q]
        /\ stat'[b] = out /\ \A d \in Battles \ {b} : stat'[d] = stat[d]
    BY <1>1, <1>2, <1>4, <1>6, Pipe
  <1>9. stat' \in [Battles -> [Sides -> Statuses]] /\ up' \in [Processes -> Seq(Statuses)]
    <2>1. Tail(up[p]) \in Seq(Statuses)
      BY <1>1, <1>2, <1>4, Pipe
    <2> QED BY <1>1, <1>2, <1>4, <1>7, <2>1
  <1>10. \A q \in Processes \ {b} : Carried(q)' = Carried(q)
    BY <1>1, <1>8, CarriedStays
  <1>11. BattleIsRight(b)'
    BY <1>7, <1>8 DEF BattleIsRight
  <1>12. Edge(b, "right")'
    <2>1. Child(b, "right")' = p
      BY <1>2 DEF Child
    <2>2. Holds(b, "right")' /\ ~Ended(b, "right")' /\ Waits(p)'
      BY <1>2, <1>6, <1>8 DEF Holds, Ended, Waits
    <2>3. Turn(b, "right")' /\ SamePlayer(b, "right")'
      BY <1>1, <1>2, <1>6, <1>7, <1>8, <1>10, <2>1, <2>2 DEF Turn, SamePlayer
    <2>4. Parting(b, "right")' /\ Family(b, "right")'
      BY <1>1, <1>2, <1>5, <1>8, <2>1, <2>2 DEF Edge, Parting, Family
    <2> QED BY <2>3, <2>4 DEF Edge
  <1>13. Edge(b, "left")'
    <2>1. Holds(b, "left") /\ Holds(b, "left")' /\ ~Ended(b, "left")'
      BY <1>1, <1>8 DEF Holds, Ended
    <2> QED BY <1>1, <1>2, <1>5, <1>7, <1>8, <1>10, <2>1, SideStays
  <1>14. ASSUME NEW c \in Battles, NEW y \in Sides, Child(c, y) = b
         PROVE  Edge(c, y)'
    <2>1. Edge(c, y) /\ c # b
      BY <1>3, <1>14, Tree DEF Edges
    <2>2. ~Waits(b) /\ ~Waits(b)'
      BY <1>1, <1>8 DEF Waits
    <2> QED BY <1>1, <1>2, <1>5, <1>8, <1>14, <2>1, <2>2, Kinds, EdgeAbove
  <1>15. OneWay'
    <2>1. \A q \in Processes : Waits(q)' => Waits(q) /\ q # b
      BY <1>8 DEF Waits
    <2> QED BY <1>3, <1>10, <2>1, OneWayStays
  <1>16. \A x \in Sides : Edge(b, x)'
    BY <1>2, <1>12, <1>13
  <1>17. \A q \in Processes \ ({b} \cup Children(b)) : up'[q] = up[q] /\ down'[q] = down[q]
    BY <1>1, <1>2, <1>8
  <1>18. "writeLeft" \in Places /\ UNCHANGED <<entry, status, fifo, log>>
    BY <1>1 DEF Places
  <1>19. \A d \in Battles \ {b} : stat'[d] = stat[d] /\ side'[d] = side[d]
    BY <1>1, <1>8
  <1> QED BY <1>1, <1>3, <1>9, <1>11, <1>14, <1>15, <1>16, <1>17, <1>18, <1>19,
             BattleStepKeeps DEF Types

LEMMA WriteLeftKeeps ==
  ASSUME IInv, NEW b \in Battles, WriteLeft(b)
  PROVE  IInv'
  <1> DEFINE p == Left[b]
             s == stat[b].left
  <1>1. /\ pc[b] = "writeLeft" /\ pc' = [pc EXCEPT ![b] = "writeRight"]
        /\ down' = [down EXCEPT ![p] = Append(@, s)]
        /\ UNCHANGED <<entry, status, stat, side, up, fifo, champion, log>>
    BY DEF WriteLeft
  <1>2. /\ b \in Processes /\ p \in Processes \ {b} /\ p \in Children(b) /\ p = Child(b, "left")
        /\ Child(b, "right") \in Processes \ {b, p} /\ Sides = {"left", "right"}
    BY Tree, Kinds DEF Child
  <1>3. Types /\ Everyone /\ Edges /\ HandedOver /\ OneWay
    BY DEF IInv
  <1>4. /\ pc \in [Processes -> Places] /\ down \in [Processes -> Seq(Statuses)]
        /\ stat \in [Battles -> [Sides -> Statuses]] /\ entry \in Entries
    BY <1>3 DEF Types
  <1>5. Edge(b, "left") /\ Edge(b, "right") /\ BattleIsRight(b)
    BY <1>2, <1>3 DEF Edges, Everyone
  <1>6. Waits(p) /\ up[p] = <<>> /\ down[p] = <<>> /\ s.id = Carried(p).id
    BY <1>1, <1>2, <1>5 DEF Edge, Turn, SamePlayer, Holds
  <1>7. s \in Statuses /\ s.HP \in Int /\ s.flag \in {0, 1} /\ Fought(b, stat[b])
    <2>1. s \in Statuses /\ Fought(b, stat[b])
      BY <1>1, <1>2, <1>4, <1>5 DEF BattleIsRight
    <2> HIDE DEF s
    <2> QED BY <1>4, <2>1, StatusIsRight
  <1>8. /\ Answer(s)
        /\ s.flag = 1 /\ Decided(b, "left") => Last(s)
    BY <1>7 DEF Answer, Last, Decided, WinningSide, Fought
  <1> HIDE DEF p
  <1>9. /\ pc'[b] = "writeRight" /\ \A q \in Processes \ {b} : pc'[q] = pc[q]
        /\ \A q \in Processes \ {p} : down'[q] = down[q]
        /\ Len(down'[p]) = 1 /\ Head(down'[p]) = s /\ down'[p] # <<>>
        /\ down' \in [Processes -> Seq(Statuses)]
    <2>1. /\ Append(down[p], s) \in Seq(Statuses)
          /\ Len(Append(down[p], s)) = 1 /\ Head(Append(down[p], s)) = s
      BY <1>2, <1>4, <1>6, <1>7, Pipe
    <2> HIDE DEF s
    <2>2. down'[p] = Append(down[p], s) /\ down' \in [Processes -> Seq(Statuses)]
      BY <1>1, <1>2, <1>4, <2>1
    <2>3. Append(down[p], s) # <<>>
      BY <2>1, Pipe
    <2> QED BY <1>1, <1>2, <1>4, <2>1, <2>2, <2>3
  <1> HIDE DEF s
  <1>10. \A q \in Processes \ {b} : Carried(q)' = Carried(q)
    BY <1>1, CarriedStays
  <1>11. BattleIsRight(b)'
    BY <1>1, <1>7, <1>9 DEF BattleIsRight
  <1>12. Edge(b, "left")'
    <2>1. Child(b, "left")' = p
      BY <1>2 DEF Child
    <2>2. ~Holds(b, "left")' /\ Waits(p)'
      BY <1>2, <1>6, <1>9 DEF Holds, Waits
    <2>3. Turn(b, "left")' /\ SamePlayer(b, "left")'
      BY <1>1, <1>2, <1>6, <1>8, <1>9, <1>10, <2>1, <2>2 DEF Turn, SamePlayer
    <2>4. Ended(b, "left")' => s.flag = 1 /\ Decided(b, "left")
      BY <1>1, <1>9 DEF Ended, Decided, WinningSide, s
    <2>5. Parting(b, "left")' /\ Family(b, "left")'
      BY <1>1, <1>2, <1>5, <1>8, <1>9, <2>1, <2>2, <2>4 DEF Edge, Parting, Family, Gone
    <2> QED BY <2>3, <2>5 DEF Edge
  <1>13. Edge(b, "right")'
    <2>1. Holds(b, "right") /\ Holds(b, "right")' /\ ~Ended(b, "right")'
      BY <1>1, <1>9 DEF Holds, Ended
    <2> QED BY <1>1, <1>2, <1>5, <1>9, <1>10, <2>1, SideStays
  <1>14. ASSUME NEW c \in Battles, NEW y \in Sides, Child(c, y) = b
         PROVE  Edge(c, y)'
    <2>1. Edge(c, y) /\ c # b
      BY <1>3, <1>14, Tree DEF Edges
    <2>2. ~Waits(b) /\ ~Waits(b)'
      BY <1>1, <1>9 DEF Waits
    <2> QED BY <1>1, <1>2, <1>5, <1>9, <1>14, <2>1, <2>2, Kinds, EdgeAbove
  <1>15. OneWay'
    <2>1. \A q \in Processes : Waits(q)' => Waits(q) /\ q # b
      BY <1>9 DEF Waits
    <2> QED BY <1>3, <1>10, <2>1, OneWayStays
  <1>16. \A x \in Sides : Edge(b, x)'
    BY <1>2, <1>12, <1>13
  <1>17. \A q \in Processes \ ({b} \cup Children(b)) : up'[q] = up[q] /\ down'[q] = down[q]
    BY <1>1, <1>2, <1>9
  <1>18. "writeRight" \in Places /\ UNCHANGED <<entry, status, fifo, log>>
    BY <1>1 DEF Places
  <1> QED BY <1>1, <1>3, <1>9, <1>11, <1>14, <1>15, <1>16, <1>17, <1>18,
             BattleStepKeeps DEF Types

LEMMA WriteRightKeeps ==
  ASSUME IInv, NEW b \in Battles, WriteRight(b)
  PROVE  IInv'
  <1> DEFINE p == Right[b]
             s == stat[b].right
             v == IF stat[b].left.flag # 1 THEN "readLeft" ELSE "reap"
  <1>1. /\ pc[b] = "writeRight" /\ pc' = [pc EXCEPT ![b] = v]
        /\ down' = [down EXCEPT ![p] = Append(@, s)]
        /\ UNCHANGED <<entry, status, stat, side, up, fifo, champion, log>>
    BY DEF WriteRight
  <1>2. /\ b \in Processes /\ p \in Processes \ {b} /\ p \in Children(b) /\ p = Child(b, "right")
        /\ Child(b, "left") \in Processes \ {b, p} /\ Sides = {"left", "right"}
    BY Tree, Kinds DEF Child
  <1>3. Types /\ Everyone /\ Edges /\ HandedOver /\ OneWay
    BY DEF IInv
  <1>4. /\ pc \in [Processes -> Places] /\ down \in [Processes -> Seq(Statuses)]
        /\ stat \in [Battles -> [Sides -> Statuses]] /\ entry \in Entries
    BY <1>3 DEF Types
  <1>5. Edge(b, "left") /\ Edge(b, "right") /\ BattleIsRight(b)
    BY <1>2, <1>3 DEF Edges, Everyone
  <1>6. Waits(p) /\ up[p] = <<>> /\ down[p] = <<>> /\ s.id = Carried(p).id
    BY <1>1, <1>2, <1>5 DEF Edge, Turn, SamePlayer, Holds
  <1>7. /\ s \in Statuses /\ s.HP \in Int /\ s.flag \in {0, 1} /\ Fought(b, stat[b])
        /\ stat[b].left.HP \in Int
    <2>1. s \in Statuses /\ stat[b].left \in Statuses /\ Fought(b, stat[b])
      BY <1>1, <1>2, <1>4, <1>5 DEF BattleIsRight
    <2> HIDE DEF s
    <2> QED BY <1>4, <2>1, StatusIsRight
  <1>8. /\ Answer(s)
        /\ stat[b].left.flag = 1 /\ Decided(b, "right") => Last(s)
    BY <1>7 DEF Answer, Last, Decided, WinningSide, Fought
  <1>9. v \in {"readLeft", "reap"} /\ (v = "reap" => stat[b].left.flag = 1)
    OBVIOUS
  <1> HIDE DEF p, v
  <1>10. /\ pc'[b] = v /\ \A q \in Processes \ {b} : pc'[q] = pc[q]
         /\ \A q \in Processes \ {p} : down'[q] = down[q]
         /\ Len(down'[p]) = 1 /\ Head(down'[p]) = s /\ down'[p] # <<>>
         /\ down' \in [Processes -> Seq(Statuses)]
    <2>1. /\ Append(down[p], s) \in Seq(Statuses)
          /\ Len(Append(down[p], s)) = 1 /\ Head(Append(down[p], s)) = s
      BY <1>2, <1>4, <1>6, <1>7, Pipe
    <2> HIDE DEF s
    <2>2. down'[p] = Append(down[p], s) /\ down' \in [Processes -> Seq(Statuses)]
      BY <1>1, <1>2, <1>4, <2>1
    <2>3. Append(down[p], s) # <<>>
      BY <2>1, Pipe
    <2> QED BY <1>1, <1>2, <1>4, <2>1, <2>2, <2>3
  <1> HIDE DEF s
  <1>11. \A q \in Processes \ {b} : Carried(q)' = Carried(q)
    BY <1>1, CarriedStays
  <1>12. BattleIsRight(b)'
    BY <1>1, <1>7, <1>9, <1>10 DEF BattleIsRight
  <1>13. Edge(b, "right")'
    <2>1. Child(b, "right")' = p
      BY <1>2 DEF Child
    <2>2. ~Holds(b, "right")' /\ Waits(p)'
      BY <1>2, <1>6, <1>9, <1>10 DEF Holds, Waits
    <2>3. Turn(b, "right")' /\ SamePlayer(b, "right")'
      BY <1>1, <1>2, <1>6, <1>8, <1>10, <1>11, <2>1, <2>2 DEF Turn, SamePlayer
    <2>4. Ended(b, "right")' => stat[b].left.flag = 1 /\ Decided(b, "right")
      BY <1>1, <1>9, <1>10 DEF Ended, Decided, WinningSide
    <2>5. Parting(b, "right")' /\ Family(b, "right")'
      BY <1>1, <1>2, <1>5, <1>8, <1>9, <1>10, <2>1, <2>2, <2>4 DEF Edge, Parting, Family, Gone
    <2> QED BY <2>3, <2>5 DEF Edge
  <1>14. Edge(b, "left")'
    <2>1. ~Holds(b, "left") /\ ~Holds(b, "left")'
      BY <1>1, <1>9, <1>10 DEF Holds
    <2>2. Ended(b, "left")' => Ended(b, "left")
      BY <1>1, <1>9, <1>10 DEF Ended, Decided, WinningSide
    <2> QED BY <1>1, <1>2, <1>5, <1>9, <1>10, <1>11, <2>1, <2>2, SideStays
  <1>15. ASSUME NEW c \in Battles, NEW y \in Sides, Child(c, y) = b
         PROVE  Edge(c, y)'
    <2>1. Edge(c, y) /\ c # b
      BY <1>3, <1>15, Tree DEF Edges
    <2>2. ~Waits(b) /\ ~Waits(b)'
      BY <1>1, <1>9, <1>10 DEF Waits
    <2> QED BY <1>1, <1>2, <1>5, <1>9, <1>10, <1>15, <2>1, <2>2, Kinds, EdgeAbove
  <1>16. OneWay'
    <2>1. \A q \in Processes : Waits(q)' => Waits(q) /\ q # b
      BY <1>9, <1>10 DEF Waits
    <2> QED BY <1>3, <1>11, <2>1, OneWayStays
  <1>17. \A x \in Sides : Edge(b, x)'
    BY <1>2, <1>13, <1>14
  <1>18. \A q \in Processes \ ({b} \cup Children(b)) : up'[q] = up[q] /\ down'[q] = down[q]
    BY <1>1, <1>2, <1>10
  <1>19. v \in Places /\ UNCHANGED <<entry, status, fifo, log>>
    BY <1>1, <1>9 DEF Places
  <1> QED BY <1>1, <1>3, <1>10, <1>12, <1>15, <1>16, <1>17, <1>18, <1>19,
             BattleStepKeeps DEF Types

LEMMA ReapKeeps ==
  ASSUME IInv, NEW b \in Battles, Reap(b)
  PROVE  IInv'
  <1> DEFINE w == WinningSide(stat[b])
             v == IF b = Root THEN "reapLast" ELSE "relayUp"
  <1>1. Types /\ Everyone /\ Edges /\ HandedOver /\ OneWay
    BY DEF IInv
  <1>2. /\ pc \in [Processes -> Places] /\ stat \in [Battles -> [Sides -> Statuses]]
        /\ side \in [Battles -> Sides \cup {"none"}] /\ entry \in Entries
        /\ champion \in Seq(RealPlayers) /\ b \in Processes /\ Sides = {"left", "right"}
    BY <1>1, Kinds DEF Types
  <1>3. pc[b] = "reap" /\ BattleIsRight(b) /\ Fought(b, stat[b]) /\ stat[b].left.flag = 1
    BY <1>1 DEF Everyone, BattleIsRight, Reap
  <1>4. /\ w \in Sides /\ stat[b][w] \in Statuses /\ stat[b][w].HP > 0
        /\ stat[b][w].id \in RealPlayers
    <2>1. stat[b].left \in Statuses /\ stat[b].right \in Statuses
      BY <1>2
    <2>2. stat[b].left.HP \in Int /\ stat[b].left.id \in RealPlayers
          /\ stat[b].right.HP \in Int /\ stat[b].right.id \in RealPlayers
      BY <1>2, <2>1, StatusIsRight
    <2>3. CASE stat[b].left.HP <= 0
      BY <1>2, <1>3, <2>1, <2>2, <2>3 DEF WinningSide, Fought
    <2>4. CASE stat[b].left.HP > 0
      BY <1>2, <2>1, <2>2, <2>4 DEF WinningSide
    <2> QED BY <2>2, <2>3, <2>4
  <1>5. /\ side' = [side EXCEPT ![b] = w] /\ pc' = [pc EXCEPT ![b] = v]
        /\ champion' \in Seq(RealPlayers)
        /\ UNCHANGED <<entry, status, stat, up, down, fifo, log>>
    <2>1. /\ side' = [side EXCEPT ![b] = w]
          /\ UNCHANGED <<entry, status, stat, up, down, fifo, log>>
      BY DEF Reap, pipes
    <2>2. CASE b = Root
      <3>1. champion' = Append(champion, stat[b][w].id) /\ pc' = [pc EXCEPT ![b] = "reapLast"]
        BY <2>2 DEF Reap
      <3>2. champion' \in Seq(RealPlayers)
        BY <1>2, <1>4, <3>1, Pipe
      <3> QED BY <2>1, <2>2, <3>1, <3>2
    <2>3. CASE b # Root
      <3>1. /\ champion' = champion
            /\ pc' = [pc EXCEPT ![b] = IF stat[b][w].HP > 0 THEN "relayUp" ELSE "reapLast"]
        BY <2>3 DEF Reap
      <3> QED BY <1>2, <1>4, <2>1, <2>3, <3>1
    <2> QED BY <2>2, <2>3
  <1>6. v \in {"reapLast", "relayUp"} /\ (v = "reapLast" <=> b = Root)
    OBVIOUS
  <1> HIDE DEF v
  <1>7. /\ pc'[b] = v /\ \A q \in Processes \ {b} : pc'[q] = pc[q]
        /\ side'[b] = w /\ \A d \in Battles \ {b} : side'[d] = side[d]
        /\ side' \in [Battles -> Sides \cup {"none"}]
    BY <1>2, <1>4, <1>5
  <1>8. \A q \in Processes \ {b} : Carried(q)' = Carried(q)
    BY <1>5, <1>7, CarriedStays
  <1>9. BattleIsRight(b)'
    BY <1>4, <1>6, <1>7 DEF BattleIsRight
  <1>10. ASSUME NEW x \in Sides
         PROVE  Edge(b, x)'
    <2>1. Child(b, x) \in Processes \ {b} /\ Edge(b, x)
      BY <1>1, Tree DEF Edges
    <2>2. ~Holds(b, x) /\ ~Holds(b, x)'
      BY <1>3, <1>6, <1>7 DEF Holds
    <2>3. Ended(b, x)' => Ended(b, x)
      BY <1>3, <1>6, <1>7 DEF Ended, Decided
    <2> QED BY <1>3, <1>5, <1>6, <1>7, <1>8, <2>1, <2>2, <2>3, SideStays
  <1>11. ASSUME NEW c \in Battles, NEW y \in Sides, Child(c, y) = b
         PROVE  Edge(c, y)'
    <2>1. Edge(c, y) /\ c \in Battles \ {b} /\ c \in Processes
      BY <1>1, <1>11, Tree, Kinds DEF Edges
    <2>2. ~Waits(b) /\ ~Waits(b)'
      BY <1>3, <1>6, <1>7 DEF Waits
    <2> QED BY <1>3, <1>5, <1>6, <1>7, <1>11, <2>1, <2>2, EdgeAbove
  <1>12. OneWay'
    <2>1. \A q \in Processes : Waits(q)' => Waits(q) /\ q # b
      BY <1>6, <1>7 DEF Waits
    <2> QED BY <1>1, <1>8, <2>1, OneWayStays
  <1>13. v \in Places /\ UNCHANGED <<entry, status, fifo, log>>
    BY <1>5, <1>6 DEF Places
  <1>14. stat' \in [Battles -> [Sides -> Statuses]] /\ up' \in [Processes -> Seq(Statuses)]
         /\ down' \in [Processes -> Seq(Statuses)] /\ champion' \in Seq(RealPlayers)
    BY <1>1, <1>5 DEF Types
  <1>15. \A d \in Battles \ {b} : stat'[d] = stat[d] /\ side'[d] = side[d]
    BY <1>5, <1>7
  <1> QED BY <1>5, <1>7, <1>9, <1>10, <1>11, <1>12, <1>13, <1>14, <1>15, BattleStepKeeps

\* The ways down the tree.
LEMMA WaysDown ==
  /\ \A p \in Processes : p \in Under[p]
  /\ \A b \in Battles, x \in Sides : Under[Child(b, x)] \subseteq Under[b]
  /\ \A b \in Battles, x \in Sides, q \in Processes :
       Child(b, x) \in Under[q] /\ Child(b, x) # q => b \in Under[q]
  <1> DEFINE Closed(S) == \A c \in Battles : c \in S => Children(c) \subseteq S
  <1>1. \A b \in Processes, p \in Processes :
          p \in Under[b] <=> \A S \in SUBSET Processes : b \in S /\ Closed(S) => p \in S
    BY DEF Under
  <1>2. \A p \in Processes : Under[p] \subseteq Processes
    BY DEF Under
  <1> HIDE DEF Closed
  <1>3. \A p \in Processes : p \in Under[p]
    BY <1>1
  <1>4. ASSUME NEW b \in Battles, NEW x \in Sides, NEW q \in Under[Child(b, x)]
        PROVE  q \in Under[b]
    <2>1. Child(b, x) \in Processes /\ Child(b, x) \in Children(b) /\ b \in Processes
      BY Tree, Kinds
    <2>2. q \in Processes
      BY <1>2, <2>1
    <2>3. \A S \in SUBSET Processes : b \in S /\ Closed(S) => Child(b, x) \in S
      BY <2>1 DEF Closed
    <2> QED BY <1>1, <2>1, <2>2, <2>3
  <1>5. ASSUME NEW b \in Battles, NEW x \in Sides, NEW q \in Processes,
               Child(b, x) \in Under[q], Child(b, x) # q, b \notin Under[q]
        PROVE  FALSE
    <2>1. b \in Processes /\ Child(b, x) \in Processes
      BY Tree, Kinds
    <2>2. PICK S \in SUBSET Processes : q \in S /\ Closed(S) /\ b \notin S
      BY <1>1, <1>5, <2>1
    <2> DEFINE T == S \ {Child(b, x)}
    <2>3. \A c \in Battles : c \in T => Child(b, x) \notin Children(c)
      BY <2>2, Tree
    <2>4. Closed(T)
      BY <2>2, <2>3 DEF Closed
    <2>5. T \in SUBSET Processes /\ q \in T
      BY <1>5, <2>2
    <2>6. Child(b, x) \in T
      BY <1>1, <1>5, <2>1, <2>4, <2>5
    <2> QED BY <2>6
  <1> QED BY <1>3, <1>4, <1>5

LEMMA RelayUpKeeps ==
  ASSUME IInv, NEW b \in Battles, RelayUp(b)
  PROVE  IInv'
  <1>1. PICK x \in Sides : x = side[b] /\ b # Root
    BY DEF IInv, Everyone, BattleIsRight, RelayUp
  <1> DEFINE p == Child(b, x)
             s == Head(up[p])
  <1>2. /\ pc[b] = "relayUp" /\ up[p] # <<>> /\ pc' = [pc EXCEPT ![b] = "relayDown"]
        /\ stat' = [stat EXCEPT ![b][x] = s]
        /\ up' = [up EXCEPT ![p] = Tail(@), ![b] = Append(@, s)]
        /\ UNCHANGED <<entry, status, side, down, fifo, champion, log>>
    BY <1>1 DEF RelayUp
  <1>3. b \in Processes /\ p \in Processes \ {b} /\ p \in Children(b) /\ p' = p
    BY Tree, Kinds DEF Child
  <1>4. Types /\ Everyone /\ Edges /\ HandedOver /\ OneWay
    BY DEF IInv
  <1>5. /\ pc \in [Processes -> Places] /\ up \in [Processes -> Seq(Statuses)]
        /\ stat \in [Battles -> [Sides -> Statuses]]
    BY <1>4 DEF Types
  <1>6. Edge(b, x) /\ BattleIsRight(b)
    BY <1>4 DEF Edges, Everyone
  <1>7. /\ s \in Statuses /\ Fit(s) /\ s.id = Carried(p).id
        /\ Waits(p) /\ Len(up[p]) = 1 /\ down[p] = <<>>
    BY <1>2, <1>3, <1>5, <1>6, Pipe DEF Edge, Turn, SamePlayer
  <1>8. PICK c \in Battles, y \in Sides : b = Child(c, y)
    BY <1>1, <1>3, Tree
  <1>9. Edge(c, y) /\ c \in Battles \ {b} /\ c \in Processes /\ Child(c, y)' = b
    BY <1>4, <1>8, Tree, Kinds DEF Edges, Child
  <1>10. ~Waits(b) /\ up[b] = <<>> /\ down[b] = <<>> /\ ~Holds(c, y)
    BY <1>2, <1>8, <1>9 DEF Waits, Edge, Turn
  <1> HIDE DEF s, p
  <1>11. /\ pc'[b] = "relayDown" /\ \A q \in Processes \ {b} : pc'[q] = pc[q]
         /\ stat'[b][x] = s /\ \A d \in Battles \ {b} : stat'[d] = stat[d]
    BY <1>2, <1>3, <1>5
  <1>12. /\ up'[p] = <<>> /\ \A q \in Processes \ {p, b} : up'[q] = up[q]
         /\ Len(up'[b]) = 1 /\ Head(up'[b]) = s /\ up'[b] # <<>>
         /\ up' \in [Processes -> Seq(Statuses)]
    <2>1. Tail(up[p]) = <<>> /\ Tail(up[p]) \in Seq(Statuses)
      BY <1>2, <1>3, <1>5, <1>7, Pipe
    <2>2. /\ Append(up[b], s) \in Seq(Statuses)
          /\ Len(Append(up[b], s)) = 1 /\ Head(Append(up[b], s)) = s
      BY <1>3, <1>5, <1>7, <1>10, Pipe
    <2>3. /\ up'[p] = Tail(up[p]) /\ up'[b] = Append(up[b], s)
          /\ \A q \in Processes \ {p, b} : up'[q] = up[q]
          /\ up' \in [Processes -> Seq(Statuses)]
      BY <1>2, <1>3, <1>5, <2>1, <2>2
    <2>4. Append(up[b], s) # <<>>
      BY <2>2, Pipe
    <2> QED BY <2>1, <2>2, <2>3, <2>4
  <1>13. stat' \in [Battles -> [Sides -> Statuses]]
    BY <1>2, <1>5, <1>7
  <1>14. \A q \in Processes \ {b} : Carried(q)' = Carried(q)
    BY <1>2, <1>11, CarriedStays
  <1>15. Carried(b)' = s
    BY <1>1, <1>2, <1>11, Kinds DEF Carried
  <1>16. BattleIsRight(b)'
    BY <1>1, <1>2, <1>11 DEF BattleIsRight
  <1>17. Edge(b, x)'
    <2>1. Holds(b, x)' /\ ~Ended(b, x)' /\ Waits(p)'
      BY <1>1, <1>2, <1>3, <1>7, <1>11 DEF Holds, Ended, Waits
    <2>2. Turn(b, x)' /\ SamePlayer(b, x)'
      BY <1>2, <1>3, <1>7, <1>11, <1>12, <1>14, <2>1 DEF Turn, SamePlayer, p
    <2>3. Parting(b, x)' /\ Family(b, x)'
      BY <1>2, <1>3, <1>6, <1>11, <2>1 DEF Edge, Parting, Family, p
    <2> QED BY <2>2, <2>3 DEF Edge
  <1>18. ASSUME NEW z \in Sides, z # x
         PROVE  Edge(b, z)'
    <2>1. Child(b, z) \in Processes \ {b, p} /\ Edge(b, z)
      BY <1>4, <1>18, Tree DEF Edges, p
    <2>2. ~Holds(b, z) /\ ~Holds(b, z)'
      BY <1>1, <1>2, <1>11, <1>18 DEF Holds
    <2>3. Ended(b, z)' => Ended(b, z)
      BY <1>2, <1>11 DEF Ended
    <2> QED BY <1>2, <1>11, <1>12, <1>14, <2>1, <2>2, <2>3, SideStays
  <1>19. Edge(c, y)'
    <2>1. /\ pc'[c] = pc[c] /\ stat'[c] = stat[c] /\ side'[c] = side[c]
          /\ Waits(b)' /\ (Holds(c, y)' <=> Holds(c, y)) /\ (Ended(c, y)' <=> Ended(c, y))
      BY <1>2, <1>9, <1>11 DEF Waits, Holds, Ended, Decided, WinningSide
    <2>2. Turn(c, y)' /\ SamePlayer(c, y)'
      BY <1>2, <1>7, <1>9, <1>10, <1>12, <1>15, <2>1 DEF Turn, SamePlayer, Fit
    <2>3. ~Ended(c, y)
      BY <1>2, <1>8, <1>9, <1>10 DEF Edge, Parting, Gone, Finished
    <2>4. Parting(c, y)' /\ Family(c, y)'
      BY <1>2, <1>8, <1>9, <1>11, <2>1, <2>3 DEF Edge, Parting, Family
    <2> QED BY <2>2, <2>4 DEF Edge
  <1>20. OneWay'
    <2>1. \A q \in Processes \ {b} : (Waits(q)' <=> Waits(q)) /\ Carried(q)' = Carried(q)
      BY <1>11, <1>14 DEF Waits
    <2>2. ASSUME NEW q \in Processes \ {b}, Waits(q), Carried(q).id = s.id
          PROVE  q \in Under[b] \/ b \in Under[q]
      <3>1. q \in Under[p] \/ p \in Under[q]
        BY <1>3, <1>4, <1>7, <2>2 DEF OneWay
      <3>2. p \in Under[p] /\ Under[p] \subseteq Under[b] /\ (p \in Under[q] /\ p # q => b \in Under[q])
        BY <1>3, WaysDown DEF p
      <3> QED BY <3>1, <3>2
    <2>3. b \in Under[b] /\ Under' = Under
      BY <1>3, WaysDown DEF Under, Children
    <2> QED BY <1>4, <1>15, <2>1, <2>2, <2>3 DEF OneWay
  <1>21. \A z \in Sides : Edge(b, z)'
    BY <1>17, <1>18
  <1>22. \A d \in Battles, z \in Sides : Child(d, z) = b => Edge(d, z)'
    BY <1>8, <1>19, Tree
  <1>23. \A q \in Processes \ ({b} \cup Children(b)) : up'[q] = up[q] /\ down'[q] = down[q]
    BY <1>2, <1>3, <1>12
  <1>24. "relayDown" \in Places /\ UNCHANGED <<entry, status, fifo, log>>
    BY <1>2 DEF Places
  <1>25. \A d \in Battles \ {b} : stat'[d] = stat[d] /\ side'[d] = side[d]
    BY <1>2, <1>11
  <1> QED BY <1>2, <1>4, <1>12, <1>13, <1>16, <1>20, <1>21, <1>22, <1>23, <1>24, <1>25,
             BattleStepKeeps DEF Types

LEMMA RelayDownKeeps ==
  ASSUME IInv, NEW b \in Battles, RelayDown(b)
  PROVE  IInv'
  <1>1. PICK x \in Sides : x = side[b] /\ b # Root
    BY DEF IInv, Everyone, BattleIsRight, RelayDown
  <1> DEFINE p == Child(b, x)
             s == Head(down[b])
             v == IF StaysInRelay(s) THEN "relayUp" ELSE "reapLast"
  <1>2. /\ pc[b] = "relayDown" /\ down[b] # <<>> /\ pc' = [pc EXCEPT ![b] = v]
        /\ stat' = [stat EXCEPT ![b][x] = s]
        /\ down' = [down EXCEPT ![b] = Tail(@), ![p] = Append(@, s)]
        /\ UNCHANGED <<entry, status, side, up, fifo, champion, log>>
    BY <1>1 DEF RelayDown
  <1>3. b \in Processes /\ p \in Processes \ {b} /\ p \in Children(b) /\ p' = p
    BY Tree, Kinds DEF Child
  <1>4. Types /\ Everyone /\ Edges /\ HandedOver /\ OneWay
    BY DEF IInv
  <1>5. /\ pc \in [Processes -> Places] /\ down \in [Processes -> Seq(Statuses)]
        /\ stat \in [Battles -> [Sides -> Statuses]] /\ entry \in Entries
    BY <1>4 DEF Types
  <1>6. Edge(b, x) /\ BattleIsRight(b)
    BY <1>4 DEF Edges, Everyone
  <1>7. PICK c \in Battles, y \in Sides : b = Child(c, y)
    BY <1>1, <1>3, Tree
  <1>8. Edge(c, y) /\ c \in Battles \ {b} /\ c \in Processes /\ Child(c, y)' = b
    BY <1>4, <1>7, Tree, Kinds DEF Edges, Child
  <1>9. /\ Waits(b) /\ up[b] = <<>> /\ Len(down[b]) = 1 /\ ~Holds(c, y)
        /\ s \in Statuses /\ Answer(s) /\ s.id = Carried(b).id
    BY <1>2, <1>3, <1>5, <1>7, <1>8, Pipe DEF Waits, Edge, Turn, SamePlayer
  <1>10. /\ Waits(p) /\ up[p] = <<>> /\ down[p] = <<>>
         /\ stat[b][x].id = Carried(p).id /\ Carried(b) = stat[b][x]
    <2>1. Holds(b, x)
      BY <1>1, <1>2 DEF Holds
    <2> QED BY <1>1, <1>6, <2>1, Kinds DEF Edge, Turn, SamePlayer, Carried
  <1>11. /\ v \in {"relayUp", "reapLast"}
         /\ v = "reapLast" <=> Last(s)
    <2>1. s.HP \in Int
      <3> HIDE DEF s
      <3> QED BY <1>5, <1>9, StatusIsRight
    <2> QED BY <1>9, <2>1 DEF StaysInRelay, Answer, Last
  <1> HIDE DEF s, p, v
  <1>12. /\ pc'[b] = v /\ \A q \in Processes \ {b} : pc'[q] = pc[q]
         /\ stat'[b][x] = s /\ \A d \in Battles \ {b} : stat'[d] = stat[d]
    BY <1>2, <1>3, <1>5
  <1>13. /\ down'[b] = <<>> /\ \A q \in Processes \ {p, b} : down'[q] = down[q]
         /\ Len(down'[p]) = 1 /\ Head(down'[p]) = s /\ down'[p] # <<>>
         /\ down' \in [Processes -> Seq(Statuses)]
    <2>1. Tail(down[b]) = <<>> /\ Tail(down[b]) \in Seq(Statuses)
      BY <1>2, <1>3, <1>5, <1>9, Pipe
    <2>2. /\ Append(down[p], s) \in Seq(Statuses)
          /\ Len(Append(down[p], s)) = 1 /\ Head(Append(down[p], s)) = s
      BY <1>3, <1>5, <1>9, <1>10, Pipe
    <2>3. /\ down'[b] = Tail(down[b]) /\ down'[p] = Append(down[p], s)
          /\ \A q \in Processes \ {p, b} : down'[q] = down[q]
          /\ down' \in [Processes -> Seq(Statuses)]
      BY <1>2, <1>3, <1>5, <2>1, <2>2
    <2>4. Append(down[p], s) # <<>>
      BY <2>2, Pipe
    <2> QED BY <2>1, <2>2, <2>3, <2>4
  <1>14. stat' \in [Battles -> [Sides -> Statuses]]
    BY <1>2, <1>5, <1>9
  <1>15. \A q \in Processes \ {b} : Carried(q)' = Carried(q)
    BY <1>2, <1>12, CarriedStays
  <1>16. BattleIsRight(b)'
    BY <1>1, <1>2, <1>11, <1>12 DEF BattleIsRight
  <1>17. Edge(b, x)'
    <2>1. ~Holds(b, x)' /\ Waits(p)'
      BY <1>3, <1>10, <1>11, <1>12 DEF Holds, Waits
    <2>2. Turn(b, x)' /\ SamePlayer(b, x)'
      BY <1>2, <1>3, <1>9, <1>10, <1>12, <1>13, <1>15, <2>1 DEF Turn, SamePlayer, p
    <2>3. Ended(b, x)' => Last(s)
      BY <1>1, <1>2, <1>11, <1>12 DEF Ended
    <2>4. Parting(b, x)' /\ Family(b, x)'
      BY <1>2, <1>3, <1>6, <1>11, <1>12, <1>13, <2>1, <2>3 DEF Edge, Parting, Gone, Family, p
    <2> QED BY <2>2, <2>4 DEF Edge
  <1>18. ASSUME NEW z \in Sides, z # x
         PROVE  Edge(b, z)'
    <2>1. Child(b, z) \in Processes \ {b, p} /\ Edge(b, z)
      BY <1>4, <1>18, Tree DEF Edges, p
    <2>2. ~Holds(b, z) /\ ~Holds(b, z)'
      BY <1>1, <1>2, <1>11, <1>12, <1>18 DEF Holds
    <2>3. Ended(b, z)
      BY <1>1, <1>2, <1>18 DEF Ended
    <2> QED BY <1>2, <1>11, <1>12, <1>13, <1>15, <2>1, <2>2, <2>3, SideStays
  <1>19. Edge(c, y)'
    <2>1. /\ pc'[c] = pc[c] /\ stat'[c] = stat[c] /\ side'[c] = side[c]
          /\ ~Waits(b)' /\ (Holds(c, y)' <=> Holds(c, y)) /\ (Ended(c, y)' <=> Ended(c, y))
      BY <1>2, <1>8, <1>11, <1>12 DEF Waits, Holds, Ended, Decided, WinningSide
    <2>2. Turn(c, y)' /\ SamePlayer(c, y)'
      BY <1>2, <1>8, <1>9, <1>13, <2>1 DEF Turn, SamePlayer
    <2>3. Gone(b) => Gone(b)'
      BY <1>2, <1>11, <1>12 DEF Gone, Finished, s
    <2>4. Parting(c, y)' /\ Family(c, y)'
      BY <1>2, <1>7, <1>8, <1>11, <1>12, <2>1, <2>3 DEF Edge, Parting, Family
    <2> QED BY <2>2, <2>4 DEF Edge
  <1>20. OneWay'
    <2>1. \A q \in Processes : Waits(q)' => Waits(q) /\ q # b
      BY <1>11, <1>12 DEF Waits
    <2> QED BY <1>4, <1>15, <2>1, OneWayStays
  <1>21. \A z \in Sides : Edge(b, z)'
    BY <1>17, <1>18
  <1>22. \A d \in Battles, z \in Sides : Child(d, z) = b => Edge(d, z)'
    BY <1>7, <1>19, Tree
  <1>23. \A q \in Processes \ ({b} \cup Children(b)) : up'[q] = up[q] /\ down'[q] = down[q]
    BY <1>2, <1>3, <1>13
  <1>24. v \in Places /\ UNCHANGED <<entry, status, fifo, log>>
    BY <1>2, <1>11 DEF Places
  <1>25. \A d \in Battles \ {b} : stat'[d] = stat[d] /\ side'[d] = side[d]
    BY <1>2, <1>12
  <1> QED BY <1>2, <1>4, <1>13, <1>14, <1>16, <1>20, <1>21, <1>22, <1>23, <1>24, <1>25,
             BattleStepKeeps DEF Types

LEMMA ReapLastKeeps ==
  ASSUME IInv, NEW b \in Battles, ReapLast(b)
  PROVE  IInv'
  <1>1. /\ pc[b] = "reapLast" /\ Exited(b) = Children(b) /\ pc' = [pc EXCEPT ![b] = "exited"]
        /\ UNCHANGED <<entry, status, stat, side, up, down, fifo, champion, log>>
    BY DEF ReapLast, pipes
  <1>2. Types /\ Everyone /\ Edges /\ HandedOver /\ OneWay /\ BattleIsRight(b)
    BY DEF IInv, Everyone
  <1>3. pc'[b] = "exited" /\ \A q \in Processes \ {b} : pc'[q] = pc[q]
    BY <1>1, <1>2, Kinds DEF Types
  <1>4. \A q \in Processes : Carried(q)' = Carried(q)
    BY <1>1 DEF Carried
  <1>5. BattleIsRight(b)'
    BY <1>3 DEF BattleIsRight
  <1>6. ASSUME NEW x \in Sides
        PROVE  Edge(b, x)'
    <2>1. Child(b, x) \in Processes \ {b} /\ Edge(b, x) /\ pc[Child(b, x)] = "exited"
      BY <1>1, <1>2, Tree DEF Edges, Exited
    <2>2. ~Holds(b, x) /\ ~Holds(b, x)' /\ Ended(b, x)
      BY <1>1, <1>3 DEF Holds, Ended
    <2> QED BY <1>1, <1>3, <1>4, <2>1, <2>2, SideStays
  <1>7. ASSUME NEW c \in Battles, NEW y \in Sides, Child(c, y) = b
        PROVE  Edge(c, y)'
    <2>1. Edge(c, y) /\ c \in Processes \ {b}
      BY <1>2, <1>7, Tree, Kinds DEF Edges
    <2>2. ~Waits(b) /\ ~Waits(b)'
      BY <1>1, <1>3 DEF Waits
    <2> QED BY <1>1, <1>2, <1>3, <1>7, <2>1, <2>2, EdgeAbove
  <1>8. OneWay'
    <2>1. \A q \in Processes : Waits(q)' => Waits(q)
      BY <1>3 DEF Waits
    <2> QED BY <1>2, <1>4, <2>1, OneWayStays
  <1>9. "exited" \in Places
    BY DEF Places
  <1> QED BY <1>1, <1>2, <1>5, <1>6, <1>7, <1>8, <1>9, BattleStepKeeps DEF Types

LEMMA StartKeeps ==
  ASSUME IInv, NEW b \in Battles, Start(b)
  PROVE  IInv'
  <1>1. /\ pc[b] = "start"
        /\ pc' = [p \in Processes |->
                    IF p = b THEN "readLeft"
                    ELSE IF p \notin Children(b) THEN pc[p]
                    ELSE IF p \in Battles THEN "start"
                    ELSE IF p \in RealPlayers THEN "report" ELSE "open"]
        /\ UNCHANGED <<entry, status, stat, side, up, down, fifo, champion, log>>
    BY DEF Start, pipes
  <1>2. Types /\ Everyone /\ Edges /\ HandedOver /\ OneWay
    BY DEF IInv
  <1>3. /\ b \in Processes /\ b \notin Children(b)
        /\ \A p \in Children(b) : p \in Processes /\ \E x \in Sides : p = Child(b, x)
    BY Tree, Kinds
  <1>4. \A p \in Children(b) : pc[p] = "unborn"
    BY <1>1, <1>2, <1>3 DEF Edges, Edge, Family
  <1>5. /\ pc'[b] = "readLeft"
        /\ \A p \in Processes : p # b /\ p \notin Children(b) => pc'[p] = pc[p]
        /\ \A p \in Children(b) : /\ p \in Battles => pc'[p] = "start"
                                  /\ p \in RealPlayers => pc'[p] = "report"
                                  /\ p \in Agents => pc'[p] = "open"
    BY <1>1, <1>3, Kinds
  <1>6. \A p \in Children(b) : pc'[p] \in {"start", "report", "open"}
    BY <1>3, <1>5, Kinds
  <1>7. Types'
    <2>1. Statuses' = Statuses
      BY <1>1 DEF Statuses
    <2>2. \A p \in Processes : pc'[p] \in Places
      <3>1. \A p \in Processes : pc[p] \in Places
        BY <1>2 DEF Types
      <3> QED BY <1>5, <1>6, <3>1 DEF Places
    <2>3. pc' \in [Processes -> Places]
      BY <1>1, <2>2
    <2> HIDE DEF Statuses
    <2> QED BY <1>1, <1>2, <2>1, <2>3 DEF Types
  <1>8. Everyone'
    <2>1. ASSUME NEW p \in Players
          PROVE  PlayerIsRight(p)'
      <3>1. PlayerIsRight(p) /\ p \in Processes /\ p # b
        BY <1>2, Kinds DEF Everyone
      <3>2. CASE p \in Children(b) /\ p \in RealPlayers
        BY <1>1, <1>4, <1>5, <3>1, <3>2, Kinds DEF PlayerIsRight, Fit
      <3>3. CASE p \in Children(b) /\ p \in Agents
        BY <1>1, <1>4, <1>5, <3>1, <3>3, Kinds DEF PlayerIsRight, Fit
      <3>4. CASE p \notin Children(b)
        BY <1>1, <1>5, <3>1, <3>4 DEF PlayerIsRight, Fit
      <3> QED BY <3>2, <3>3, <3>4, Kinds
    <2>2. ASSUME NEW d \in Battles
          PROVE  BattleIsRight(d)'
      <3>1. BattleIsRight(d) /\ d \in Processes
        BY <1>2, Kinds DEF Everyone
      <3>2. CASE d = b
        BY <1>5, <3>2 DEF BattleIsRight
      <3>3. CASE d \in Children(b)
        BY <1>5, <3>3 DEF BattleIsRight
      <3>4. CASE d # b /\ d \notin Children(b)
        BY <1>1, <1>5, <3>1, <3>4 DEF BattleIsRight, Fit, Fought
      <3> QED BY <3>2, <3>3, <3>4
    <2> QED BY <2>1, <2>2 DEF Everyone
  <1>9. \A p \in Processes : (Waits(p)' <=> Waits(p)) /\ Carried(p)' = Carried(p)
    <2>1. \A p \in Processes : Waits(p)' <=> Waits(p)
      BY <1>1, <1>4, <1>5, <1>6 DEF Waits
    <2> QED BY <1>1, <2>1 DEF Carried
  <1>10. ASSUME NEW c \in Battles, NEW x \in Sides
         PROVE  Edge(c, x)'
    <2> DEFINE p == Child(c, x)
    <2>1. /\ Edge(c, x) /\ p \in Processes \ {c} /\ c \in Processes /\ p' = p
          /\ p \in Children(c) /\ (p \in Children(b) => c = b)
      BY <1>2, <1>3, Tree, Kinds DEF Edges, Child
    <2>2. CASE pc[p] = "unborn"
      <3>1. up[p] = <<>> /\ down[p] = <<>> /\ ~Waits(p) /\ ~Waits(p)'
        BY <1>9, <2>1, <2>2 DEF Edge, Turn, Waits
      <3>2. pc[c] \in {"unborn", "start"}
        BY <2>1, <2>2 DEF Edge, Family
      <3>3. \/ pc'[c] \in {"unborn", "start"} /\ pc'[p] = "unborn"
            \/ pc'[c] = "readLeft" /\ pc'[p] # "unborn"
        <4>1. CASE c = b
          BY <1>5, <1>6, <2>1, <4>1
        <4>2. CASE c # b
          <5>1. pc'[p] = "unborn"
            BY <1>1, <1>5, <2>1, <2>2, <4>2
          <5>2. pc'[c] \in {"unborn", "start"}
            BY <1>5, <2>1, <3>2, <4>2
          <5> QED BY <5>1, <5>2
        <4> QED BY <4>1, <4>2
      <3>4. ~Holds(c, x)' /\ ~Ended(c, x)'
        BY <3>3 DEF Holds, Ended
      <3>5. Turn(c, x)' /\ SamePlayer(c, x)'
        BY <1>1, <2>1, <3>1, <3>4 DEF Turn, SamePlayer
      <3>6. Parting(c, x)' /\ Family(c, x)'
        BY <2>1, <3>3, <3>4 DEF Parting, Family
      <3> QED BY <3>5, <3>6 DEF Edge
    <2>3. CASE pc[p] # "unborn"
      <3>1. pc[c] \notin {"unborn", "start"}
        BY <2>1, <2>3 DEF Edge, Family
      <3>2. c # b /\ c \notin Children(b) /\ p \notin Children(b)
        BY <1>1, <1>4, <2>3, <3>1
      <3>3. pc'[c] = pc[c]
        BY <1>5, <2>1, <3>2
      <3>4. CASE p = b
        <4>1. ~Waits(b) /\ ~Waits(b)' /\ BattleIsRight(b)
          BY <1>1, <1>2, <1>5 DEF Waits, Everyone
        <4> QED BY <1>1, <1>5, <2>1, <3>3, <3>4, <4>1, EdgeAbove
      <3>5. CASE p # b
        <4>1. pc'[p] = pc[p]
          BY <1>5, <2>1, <3>2, <3>5
        <4> QED BY <1>1, <1>9, <2>1, <3>3, <4>1, EdgeStays
      <3> QED BY <3>4, <3>5
    <2> QED BY <2>2, <2>3
  <1>11. Edges'
    BY <1>10 DEF Edges
  <1>12. HandedOver'
    <2>1. ASSUME NEW p \in Players
          PROVE  \/ pc'[p] = pc[p]
                 \/ p \in RealPlayers /\ pc[p] = "unborn"
                 \/ p \in Agents /\ pc[p] = "unborn" /\ pc'[p] = "open"
      <3>1. p \in Processes /\ p # b
        BY Kinds
      <3> QED BY <1>4, <1>5, <3>1, Kinds
    <2>2. /\ \A a \in Agents : pc'[a] = pc[a] \/ (pc[a] = "unborn" /\ pc'[a] = "open")
          /\ \A q \in RealPlayers : pc'[q] = pc[q] \/ pc[q] = "unborn"
      BY <2>1, Kinds
    <2> QED BY <1>1, <1>2, <2>2, HandedOverStays
  <1>13. OneWay'
    BY <1>2, <1>9, OneWayStays
  <1> QED BY <1>7, <1>8, <1>11, <1>12, <1>13 DEF IInv

-------------------------------------------------------------------------------
(* The theorems. *)

LEMMA NextKeeps ==
  ASSUME IInv, [Next]_vars
  PROVE  IInv'
  <1>1. CASE UNCHANGED vars
    <2>1. UNCHANGED <<entry, pc, status, stat, side, up, down, fifo, champion, log>>
      BY <1>1 DEF vars, pipes
    <2>2. Types'
      <3>1. Statuses' = Statuses
        BY <2>1 DEF Statuses
      <3> HIDE DEF Statuses
      <3> QED BY <2>1, <3>1 DEF IInv, Types
    <2>3. Everyone'
      BY <2>1 DEF IInv, Everyone, PlayerIsRight, BattleIsRight, Fit, Fought
    <2>4. \A p \in Processes : Carried(p)' = Carried(p) /\ (Waits(p)' <=> Waits(p))
      BY <2>1 DEF Carried, Waits
    <2>5. Edges'
      BY <2>1, <2>4, Tree, EdgeStays DEF IInv, Edges
    <2>6. HandedOver'
      BY <2>1, HandedOverStays DEF IInv
    <2>7. OneWay'
      BY <2>4, OneWayStays DEF IInv
    <2> QED BY <2>2, <2>3, <2>5, <2>6, <2>7 DEF IInv
  <1>2. ASSUME NEW p \in Players, PlayerStep(p)
        PROVE  IInv'
    BY <1>2, ReportKeeps, ResultKeeps, HandOverKeeps, LogHandOverKeeps, TakeOverKeeps
    DEF PlayerStep
  <1>3. ASSUME NEW b \in Battles, BattleStep(b)
        PROVE  IInv'
    BY <1>3, StartKeeps, ReadLeftKeeps, ReadRightKeeps, WriteLeftKeeps, WriteRightKeeps,
       ReapKeeps, RelayUpKeeps, RelayDownKeeps, ReapLastKeeps DEF BattleStep
  <1> QED BY <1>1, <1>2, <1>3 DEF Next, Over

\* In every reachable state of the tree of processes every player, every battle
\* and every edge between them is as it should be (battle.c:79-144,
\* player.c:72-153).
THEOREM Invariant == Spec => []IInv
  <1>1. Init => IInv
    BY InitEstablishes
  <1>2. IInv /\ [Next]_vars => IInv'
    BY NextKeeps
  <1> QED BY <1>1, <1>2, PTL DEF Spec

\* What the processes hold and send is of the type that status.h gives it, and
\* nobody ever has more HP than player_status.txt gives (player.c:98-117).
THEOREM TypeCorrect == Spec => []TypeOK
  <1>1. IInv => TypeOK
    <2> SUFFICES ASSUME IInv PROVE TypeOK
      OBVIOUS
    <2>1. Types
      BY DEF IInv
    <2>2. \A s \in Statuses : s \in Status /\ s.HP <= entry[s.id].HP
      BY DEF Statuses
    <2>3. Seq(Statuses) \subseteq Seq(Status)
      <3> HIDE DEF Statuses
      <3> QED BY <2>2
    <2>4. \A p \in Players : status[p] \in Statuses
      BY <2>1 DEF Types
    <2>5. /\ status \in [Players -> Status] /\ stat \in [Battles -> [Sides -> Status]]
          /\ up \in [Processes -> Seq(Status)] /\ down \in [Processes -> Seq(Status)]
          /\ fifo \in [Agents -> Seq(Status)]
      <3> HIDE DEF Statuses
      <3> QED BY <2>1, <2>2, <2>3 DEF Types
    <2>6. pc \in [Processes -> {"unborn", "start", "readLeft", "readRight", "writeLeft",
                           "writeRight", "reap", "relayUp", "relayDown", "reapLast",
                           "report", "await", "handOver", "log", "open", "exited"}]
      BY <2>1 DEF Types, Places
    <2>7. log \in [RealPlayers -> [size : Nat, offset : Nat, lines : Nat]]
      BY <2>1 DEF Types, Logs
    <2>8. \A p \in Players : status[p].HP <= entry[status[p].id].HP
      BY <2>2, <2>4
    <2> QED BY <2>1, <2>5, <2>6, <2>7, <2>8 DEF Types, TypeOK
  <1> QED BY <1>1, Invariant, PTL

\* A battle and its side take turns over their pipes, and nobody leaves a status
\* behind for a process that does not read any more (battle.c:91-128,
\* player.c:87-101).
THEOREM TurnsAreTaken == Spec => []TakeTurns
  <1>1. IInv => TakeTurns
    <2> SUFFICES ASSUME IInv PROVE TakeTurns
      OBVIOUS
    <2>1. Edges
      BY DEF IInv
    <2>2. ASSUME NEW p \in Processes \ {Root}
          PROVE  /\ Len(up[p]) + Len(down[p]) <= 1
                 /\ pc[p] \in {"reapLast", "exited"} => down[p] = <<>>
      <3>1. PICK b \in Battles, x \in Sides : p = Child(b, x)
        BY Tree
      <3>2. Turn(b, x)
        BY <2>1 DEF Edges, Edge
      <3>3. /\ up[p] = <<>> => Len(up[p]) = 0
            /\ down[p] = <<>> => Len(down[p]) = 0
        OBVIOUS
      <3>4. \/ up[p] = <<>> /\ down[p] = <<>>
            \/ Len(up[p]) = 1 /\ down[p] = <<>>
            \/ up[p] = <<>> /\ Len(down[p]) = 1
        BY <3>1, <3>2 DEF Turn
      <3>5. pc[p] \in {"reapLast", "exited"} => down[p] = <<>>
        BY <3>1, <3>2 DEF Turn, Waits
      <3>6. \/ Len(up[p]) = 0 /\ Len(down[p]) = 0
            \/ Len(up[p]) = 1 /\ Len(down[p]) = 0
            \/ Len(up[p]) = 0 /\ Len(down[p]) = 1
        BY <3>3, <3>4, Zenon
      <3>7. \A m, n : (m = 0 /\ n = 0) \/ (m = 1 /\ n = 0) \/ (m = 0 /\ n = 1) => m + n <= 1
        OBVIOUS
      <3>8. Len(up[p]) + Len(down[p]) <= 1
        BY <3>6, <3>7, Zenon
      <3> QED BY <3>5, <3>8
    <2>3. ASSUME NEW b \in Battles, pc[b] \in {"reapLast", "exited"}, NEW p \in Children(b)
          PROVE  up[p] = <<>>
      <3>1. PICK x \in Sides : p = Child(b, x)
        BY Tree
      <3>2. Turn(b, x) /\ Parting(b, x)
        BY <2>1 DEF Edges, Edge
      <3>3. Gone(p)
        BY <2>3, <3>1, <3>2 DEF Parting, Ended
      <3> QED BY <3>1, <3>2, <3>3 DEF Turn, Gone, Finished, Waits
    <2> QED BY <2>2, <2>3 DEF TakeTurns
  <1> QED BY <1>1, Invariant, PTL

\* No way down from a side of a battle leads to the battle, nor to its other side.
LEMMA SidesAreApart ==
  ASSUME NEW b \in Battles, NEW x \in Sides, NEW y \in Sides, x # y
  PROVE  Child(b, x) \notin Under[Child(b, y)]
  <1> DEFINE k == Child(b, y)
             S == {c \in Battles : c \in Under[k] /\ b \in Under[c]}
             Closed(T) == \A c \in Battles : c \in T => Children(c) \subseteq T
  <1>1. k \in Processes /\ Child(b, x) \in Processes /\ k # Child(b, x) /\ b \in Processes
    BY Tree, Kinds
  <1>2. \A p, q \in Processes :
          q \in Under[p] <=> \A T \in SUBSET Processes : p \in T /\ Closed(T) => q \in T
    BY DEF Under
  <1>3. \A p \in Processes : Under[p] \in SUBSET Processes
    BY DEF Under
  <1>4. \A p \in Processes : Closed(Under[p])
    <2> SUFFICES ASSUME NEW p \in Processes, NEW c \in Battles, c \in Under[p], NEW d \in Children(c)
                 PROVE  d \in Under[p]
      OBVIOUS
    <2>1. d \in Processes /\ c \in Processes
      BY Tree, Kinds
    <2> QED BY <1>2, <2>1
  <1>5. \A p \in Players : Under[p] \subseteq {p}
    <2>1. \A p \in Players : p \in Processes /\ {p} \in SUBSET Processes /\ Closed({p})
      BY Kinds
    <2> HIDE DEF Closed
    <2> QED BY <1>2, <1>3, <2>1
  <1>6. ASSUME NEW c \in Battles
        PROVE  \A q \in Under[c] : q = c \/ \E d \in Children(c) : q \in Under[d]
    <2> DEFINE T == {c} \cup UNION {Under[d] : d \in Children(c)}
    <2>1. c \in Processes /\ Children(c) \subseteq Processes
      BY Tree, Kinds
    <2>2. T \in SUBSET Processes /\ c \in T
      BY <1>3, <2>1
    <2>3. \A d \in Children(c) : d \in T
      BY <2>1, WaysDown
    <2>4. Closed(T)
      BY <1>4, <2>1, <2>3
    <2>5. \A q \in Under[c] : q \in T
      <3> HIDE DEF Closed, T
      <3> QED BY <1>2, <1>3, <2>1, <2>2, <2>4
    <2> QED BY <2>5
  <1>7. ASSUME b \in Under[k]
        PROVE  FALSE
    <2>1. b \in S
      BY <1>1, <1>7, WaysDown
    <2>2. PICK c \in S : {Left[c], Right[c]} \cap S = {}
      <3> HIDE DEF S
      <3>1. S \in SUBSET Battles
        BY DEF S
      <3> QED BY <2>1, <3>1, NoWayBack
    <2>3. \E d \in Children(c) : b \in Under[d]
      <3>1. CASE c = b
        BY <1>7, <3>1, Tree
      <3>2. CASE c # b
        BY <1>6, <3>2
      <3> QED BY <3>1, <3>2
    <2>4. PICK d \in Children(c) : b \in Under[d]
      BY <2>3
    <2>5. d \in Processes /\ d \in Under[k]
      <3>1. c \in Battles /\ c \in Under[k] /\ Closed(Under[k])
        BY <1>1, <1>4, <2>2
      <3>2. d \in Processes
        BY <2>4, <3>1, Tree
      <3>3. d \in Under[k]
        BY <2>4, <3>1
      <3> QED BY <3>2, <3>3
    <2>6. d \in Battles
      BY <1>5, <2>4, <2>5, Kinds
    <2> QED BY <2>2, <2>4, <2>5, <2>6 DEF Children
  <1> HIDE DEF Closed
  <1>8. Child(b, x) \in Under[k] => b \in Under[k]
    BY <1>1, WaysDown
  <1> QED BY <1>7, <1>8

\* A round is fought between two different players who are both alive, healed
\* after the battle before and told so (battle.c:91-100, player.c:98-105,
\* 146-149).
THEOREM RoundsAreFair == Spec => []FightersAreFit
  <1>1. IInv => FightersAreFit
    <2> SUFFICES ASSUME IInv, NEW b \in Battles, pc[b] = "readRight", up[Right[b]] # <<>>
                 PROVE  LET l == stat[b].left
                            r == Head(up[Right[b]])
                        IN l.id # r.id /\ l.HP > 0 /\ r.HP > 0 /\ l.flag = 0 /\ r.flag = 0
      BY DEF FightersAreFit
    <2>1. /\ Child(b, "left") = Left[b] /\ Child(b, "right") = Right[b]
          /\ Left[b] \in Processes /\ Right[b] \in Processes /\ Sides = {"left", "right"}
      BY Tree, Kinds DEF Child, Children
    <2>2. Edge(b, "left") /\ Edge(b, "right") /\ BattleIsRight(b) /\ OneWay
      BY <2>1 DEF IInv, Edges, Everyone
    <2>3. Fit(stat[b].left)
      BY <2>2 DEF BattleIsRight
    <2>4. Waits(Left[b]) /\ stat[b].left.id = Carried(Left[b]).id
      BY <2>1, <2>2 DEF Edge, Turn, SamePlayer, Holds
    <2>5. Waits(Right[b]) /\ Head(up[Right[b]]).id = Carried(Right[b]).id
          /\ Fit(Head(up[Right[b]]))
      BY <2>1, <2>2 DEF Edge, Turn, SamePlayer
    <2>6. Carried(Left[b]).id # Carried(Right[b]).id
      <3>1. Left[b] \notin Under[Right[b]] /\ Right[b] \notin Under[Left[b]]
        BY <2>1, SidesAreApart
      <3> QED BY <2>1, <2>2, <2>4, <2>5, <3>1 DEF OneWay
    <2> QED BY <2>3, <2>4, <2>5, <2>6 DEF Fit
  <1> QED BY <1>1, Invariant, PTL

\* A player goes on in one process only: who has handed over to an agent does
\* not play any more (player.c:98-117, 119-153).
THEOREM OneBodyEach == Spec => []OneBody
  <1>1. IInv => OneBody
    BY OneBodyOnly DEF IInv
  <1> QED BY <1>1, Invariant, PTL

\* No process outlives its parent, whichever side the wait in the middle has met
\* (battle.c:105, 137).
THEOREM NobodyIsOrphaned == Spec => []ParentsExitLast
  <1>1. IInv => ParentsExitLast
    BY Tree DEF IInv, Edges, Edge, Family, ParentsExitLast
  <1> QED BY <1>1, Invariant, PTL

-------------------------------------------------------------------------------
(* Duels and outcomes: the recursive functions of ChampionshipRules exist, and *)
(* are what their definitions say.                                            *)

Fighters == [Sides -> Status]

\* A round, whoever fights: it ends the battle, or the fighters go on with less.
LEMMA RoundGoesOn ==
  ASSUME entry \in Entries, NEW b \in Battles, NEW s \in Status, NEW t \in Status
  PROVE  LET out == Round(entry, b, s, t) IN
         /\ out \in Fighters
         /\ out.left.id = s.id /\ out.right.id = t.id
         /\ out.left.flag # 1 => out.left.HP > 0 /\ out.left.HP < s.HP
  <1> DEFINE At(z) == [z EXCEPT !.battle = b]
             Hurt(z, y) == [z EXCEPT !.HP = @ - Hit(entry, b, y.id)]
             End(z) == [z EXCEPT !.flag = 1]
             Pair(l, r) == [left |-> l, right |-> r]
  <1>1. ASSUME NEW z \in Status
        PROVE  At(z) \in Status /\ At(z).HP = z.HP /\ At(z).id = z.id
    <2>1. At(z) = [id |-> z.id, HP |-> z.HP, battle |-> b, flag |-> z.flag]
      BY NewStatus DEF Status
    <2> HIDE DEF At
    <2>2. At(z).HP = z.HP /\ At(z).id = z.id
      BY <2>1
    <2>3. At(z) \in Status
      BY <2>1 DEF Status
    <2> QED BY <2>2, <2>3
  <1>2. ASSUME NEW z \in Status, NEW y \in Status
        PROVE  Hurt(z, y) \in Status /\ Hurt(z, y).HP < z.HP /\ Hurt(z, y).id = z.id
    <2>1. Hit(entry, b, y.id) \in Int /\ Hit(entry, b, y.id) > 0
      <3>1. y.id \in RealPlayers
        BY DEF Status
      <3>2. entry[y.id].ATK \in Int /\ entry[y.id].ATK > 0
        BY <3>1, EntryIsRight
      <3> QED BY <3>2 DEF Hit
    <2> DEFINE h == z.HP - Hit(entry, b, y.id)
    <2>2. z.HP \in Int
      BY DEF Status
    <2>3. h \in Int /\ h < z.HP
      BY <2>1, <2>2
    <2>4. z.id \in RealPlayers /\ z.battle \in Battles /\ z.flag \in {0, 1}
      BY DEF Status
    <2>5. Hurt(z, y) = [id |-> z.id, HP |-> h, battle |-> z.battle, flag |-> z.flag]
      BY <2>3, <2>4, NewStatus
    <2> HIDE DEF h, Hurt
    <2>6. Hurt(z, y).HP = h /\ Hurt(z, y).id = z.id
      BY <2>5
    <2>7. Hurt(z, y) \in Status
      BY <2>3, <2>4, <2>5 DEF Status
    <2> QED BY <2>3, <2>6, <2>7
  <1>3. ASSUME NEW z \in Status
        PROVE  End(z) \in Status /\ End(z).flag = 1 /\ End(z).id = z.id
    <2>1. End(z) = [id |-> z.id, HP |-> z.HP, battle |-> z.battle, flag |-> 1]
      BY NewStatus DEF Status
    <2> HIDE DEF End
    <2>2. End(z).flag = 1 /\ End(z).id = z.id
      BY <2>1
    <2>3. End(z) \in Status
      BY <2>1 DEF Status
    <2> QED BY <2>2, <2>3
  <1> HIDE DEF At, Hurt, End
  <1>4. ASSUME NEW y \in Status, NEW z \in Status
        PROVE  LET two == Battle(entry, b, y, z) IN
               /\ two[1] \in Status /\ two[2] \in Status
               /\ two[1].id = y.id /\ two[2].id = z.id
               /\ two[1].flag # 1 => two[1].HP > 0 /\ two[1].HP < y.HP
               /\ two[2].flag # 1 => two[2].HP > 0 /\ two[2].HP < z.HP
    <2> DEFINE struck == Hurt(z, y)
               back   == Hurt(y, z)
    <2>1. /\ struck \in Status /\ struck.HP < z.HP /\ struck.id = z.id
          /\ back \in Status /\ back.HP < y.HP /\ back.id = y.id
      BY <1>2
    <2>2. struck.HP \in Int /\ back.HP \in Int
      BY <2>1 DEF Status
    <2>3. Battle(entry, b, y, z) =
            CASE struck.HP <= 0 -> <<End(y), End(struck)>>
              [] struck.HP > 0 /\ back.HP <= 0 -> <<End(back), End(struck)>>
              [] OTHER -> <<back, struck>>
      BY DEF Battle, Hurt, End
    <2> HIDE DEF struck, back
    <2>4. /\ End(y) \in Status /\ End(y).flag = 1 /\ End(y).id = y.id
          /\ End(struck) \in Status /\ End(struck).flag = 1 /\ End(struck).id = z.id
          /\ End(back) \in Status /\ End(back).flag = 1 /\ End(back).id = y.id
      BY <1>3, <2>1
    <2>5. CASE struck.HP <= 0
      <3>1. Battle(entry, b, y, z) = <<End(y), End(struck)>>
        BY <2>2, <2>3, <2>5
      <3> QED BY <2>4, <3>1
    <2>6. CASE struck.HP > 0 /\ back.HP <= 0
      <3>1. Battle(entry, b, y, z) = <<End(back), End(struck)>>
        BY <2>2, <2>3, <2>6
      <3> QED BY <2>4, <3>1
    <2>7. CASE struck.HP > 0 /\ back.HP > 0
      <3>1. Battle(entry, b, y, z) = <<back, struck>>
        BY <2>2, <2>3, <2>7
      <3> QED BY <2>1, <2>7, <3>1
    <2> QED BY <2>2, <2>5, <2>6, <2>7
  <1>5. /\ At(s) \in Status /\ At(s).HP = s.HP /\ At(s).id = s.id
        /\ At(t) \in Status /\ At(t).HP = t.HP /\ At(t).id = t.id
    BY <1>1
  <1>6. Round(entry, b, s, t) =
          IF compare(At(s), At(t))
          THEN LET out == Battle(entry, b, At(s), At(t)) IN Pair(out[1], out[2])
          ELSE LET out == Battle(entry, b, At(t), At(s)) IN Pair(out[2], out[1])
    BY DEF Round, At
  <1>7. ASSUME NEW l \in Status, NEW r \in Status
        PROVE  Pair(l, r) \in Fighters /\ Pair(l, r).left = l /\ Pair(l, r).right = r
    BY DEF Fighters, Sides
  <1> HIDE DEF Pair
  <1>8. CASE compare(At(s), At(t))
    <2> DEFINE two == Battle(entry, b, At(s), At(t))
    <2>1. Round(entry, b, s, t) = Pair(two[1], two[2])
      BY <1>6, <1>8
    <2>2. /\ two[1] \in Status /\ two[2] \in Status
          /\ two[1].id = s.id /\ two[2].id = t.id
          /\ two[1].flag # 1 => two[1].HP > 0 /\ two[1].HP < At(s).HP
      BY <1>4, <1>5
    <2> HIDE DEF two
    <2> QED BY <1>5, <1>7, <2>1, <2>2
  <1>9. CASE ~compare(At(s), At(t))
    <2> DEFINE two == Battle(entry, b, At(t), At(s))
    <2>1. Round(entry, b, s, t) = Pair(two[2], two[1])
      BY <1>6, <1>9
    <2>2. /\ two[1] \in Status /\ two[2] \in Status
          /\ two[1].id = t.id /\ two[2].id = s.id
          /\ two[2].flag # 1 => two[2].HP > 0 /\ two[2].HP < At(s).HP
      BY <1>4, <1>5
    <2> HIDE DEF two
    <2> QED BY <1>5, <1>7, <2>1, <2>2
  <1> QED BY <1>8, <1>9

LEMMA DuelIs ==
  ASSUME entry \in Entries, NEW b \in Battles
  PROVE  /\ Duel(entry, b) \in [Fighters -> Fighters]
         /\ \A f \in Fighters :
              LET out == Round(entry, b, f.left, f.right) IN
              Duel(entry, b)[f] = IF out.left.flag = 1 THEN out ELSE Duel(entry, b)[out]
  <1>1. PICK next \in [Fighters -> Fighters] :
          \A f \in Fighters : next[f] = Round(entry, b, f.left, f.right)
    <2> DEFINE next == [f \in Fighters |-> Round(entry, b, f.left, f.right)]
    <2>1. \A f \in Fighters : f.left \in Status /\ f.right \in Status
      BY DEF Fighters, Sides
    <2>2. \A f \in Fighters : Round(entry, b, f.left, f.right) \in Fighters
      BY <2>1, RoundGoesOn
    <2> HIDE DEF Fighters
    <2>3. next \in [Fighters -> Fighters]
      BY <2>2
    <2> QED BY <2>3
  <1> DEFINE less(f) == {e \in Fighters : e = next[f] /\ e.left.flag # 1}
             below == [f \in Fighters |-> less(f)]
             G == [p \in Fighters \X [Fighters -> Fighters] |->
                     IF next[p[1]].left.flag = 1 THEN next[p[1]] ELSE p[2][next[p[1]]]]
             HP(f) == IF f.left.HP > 0 THEN f.left.HP ELSE 0
  <1>2. ASSUME NEW f \in Fighters
        PROVE  f.left.HP \in Int /\ HP(f) \in Nat
    <2>1. f.left.HP \in Int
      BY DEF Fighters, Sides, Status
    <2> QED BY <2>1
  <1>3. ASSUME NEW f \in Fighters, next[f].left.flag # 1
        PROVE  HP(next[f]) < HP(f)
    <2>1. f.left \in Status /\ f.right \in Status
      BY DEF Fighters, Sides
    <2>2. next[f].left.HP > 0 /\ next[f].left.HP < f.left.HP
      BY <1>1, <1>3, <2>1, RoundGoesOn
    <2>3. next[f] \in Fighters
      OBVIOUS
    <2> QED BY <1>2, <2>2, <2>3
  <1> HIDE DEF HP
  <1>4. ASSUME NEW S \in SUBSET Fighters, S # {}
        PROVE  \E f \in S : less(f) \cap S = {}
    <2> DEFINE N == {HP(f) : f \in S}
    <2>1. N \in SUBSET Nat /\ N # {}
      BY <1>2, <1>4
    <2>2. PICK m \in N : \A n \in N : m <= n
      <3> HIDE DEF N
      <3> QED BY <2>1, LeastNatural
    <2>3. PICK f \in S : m = HP(f)
      OBVIOUS
    <2>4. ASSUME NEW e \in less(f) \cap S
          PROVE  FALSE
      <3>1. e \in Fighters /\ f \in Fighters /\ HP(e) < HP(f) /\ HP(e) \in Nat /\ HP(f) \in Nat
        BY <1>2, <1>3, <1>4, <2>4
      <3>2. HP(f) <= HP(e)
        BY <2>2, <2>3, <2>4
      <3> QED BY <3>1, <3>2
    <2> QED BY <2>4
  <1>5. ASSUME NEW f \in Fighters, NEW g \in [Fighters -> Fighters]
        PROVE  /\ G[<<f, g>>] = IF next[f].left.flag = 1 THEN next[f] ELSE g[next[f]]
               /\ G[<<f, g>>] \in Fighters
    <2> HIDE DEF Fighters
    <2>1. <<f, g>> \in Fighters \X [Fighters -> Fighters]
      OBVIOUS
    <2> QED BY <2>1
  <1>6. ASSUME NEW f \in Fighters, NEW g \in [Fighters -> Fighters], NEW h \in [Fighters -> Fighters],
               \A e \in less(f) : g[e] = h[e]
        PROVE  G[<<f, g>>] = G[<<f, h>>]
    <2>1. next[f] \in Fighters
      OBVIOUS
    <2>2. next[f].left.flag # 1 => g[next[f]] = h[next[f]]
      BY <1>6, <2>1
    <2> HIDE DEF G
    <2> QED BY <1>5, <2>2
  <1>7. below \in [Fighters -> SUBSET Fighters] /\ \A f \in Fighters : below[f] = less(f)
    <2> HIDE DEF Fighters
    <2> QED OBVIOUS
  <1>8. G \in [Fighters \X [Fighters -> Fighters] -> Fighters]
    <2> HIDE DEF Fighters
    <2>1. \A p \in Fighters \X [Fighters -> Fighters] :
            p[1] \in Fighters /\ p[2] \in [Fighters -> Fighters] /\ p = <<p[1], p[2]>>
      OBVIOUS
    <2>2. \A p \in Fighters \X [Fighters -> Fighters] : G[p] \in Fighters
      <3> HIDE DEF G
      <3> QED BY <1>5, <2>1
    <2>3. G = [p \in Fighters \X [Fighters -> Fighters] |-> G[p]]
      OBVIOUS
    <2> HIDE DEF G
    <2> QED BY <2>2, <2>3
  <1>9. Fighters # {}
    <2>1. [id |-> Nobody, HP |-> 0, battle |-> Root, flag |-> 0] \in Status
      BY Kinds DEF Status
    <2>2. PICK s \in Status : TRUE
      BY <2>1
    <2>3. [x \in Sides |-> s] \in Fighters
      BY DEF Fighters
    <2> QED BY <2>3
  <1>10. PICK g \in [Fighters -> Fighters] : \A f \in Fighters : g[f] = G[<<f, g>>]
    <2> HIDE DEF Fighters, below, G, less
    <2>1. Determined(Fighters, Fighters, below, G)
      <3>1. \A S \in SUBSET Fighters : S # {} => \E f \in S : below[f] \cap S = {}
        BY <1>4, <1>7
      <3>2. \A f \in Fighters : \A g, h \in [Fighters -> Fighters] :
              (\A e \in below[f] : g[e] = h[e]) => G[<<f, g>>] = G[<<f, h>>]
        BY <1>6, <1>7
      <3> QED BY <1>7, <1>8, <1>9, <3>1, <3>2 DEF Determined
    <2> QED BY <2>1, WellFoundedFunction
  <1>11. g = [f \in [Sides -> Status] |->
               LET out == Round(entry, b, f.left, f.right) IN
               IF out.left.flag = 1 THEN out ELSE g[out]]
    <2>1. \A f \in Fighters : g[f] = IF next[f].left.flag = 1 THEN next[f] ELSE g[next[f]]
      BY <1>5, <1>10
    <2>2. \A f \in Fighters :
            g[f] = LET out == Round(entry, b, f.left, f.right) IN
                   IF out.left.flag = 1 THEN out ELSE g[out]
      BY <1>1, <2>1
    <2>3. Fighters = [Sides -> Status]
      BY DEF Fighters
    <2> QED BY <1>10, <2>2, <2>3
  <1> HIDE DEF G, less, below
  <1>12. Duel(entry, b) = [f \in [Sides -> Status] |->
                            LET out == Round(entry, b, f.left, f.right) IN
                            IF out.left.flag = 1 THEN out ELSE Duel(entry, b)[out]]
    BY <1>11, Zenon DEF Duel
  <1> DEFINE duel == Duel(entry, b)
  <1> HIDE DEF duel
  <1>13. \A f \in Fighters :
           duel[f] = LET out == Round(entry, b, f.left, f.right) IN
                     IF out.left.flag = 1 THEN out ELSE duel[out]
    <2>1. duel = [f \in Fighters |->
                    LET out == Round(entry, b, f.left, f.right) IN
                    IF out.left.flag = 1 THEN out ELSE duel[out]]
      BY <1>12 DEF duel, Fighters
    <2> HIDE DEF Fighters
    <2> QED BY <2>1, Zenon
  <1>14. duel = g
    <2> DEFINE S == {f \in Fighters : duel[f] # g[f]}
    <2>1. S = {}
      <3> SUFFICES ASSUME S # {}
                   PROVE  FALSE
        OBVIOUS
      <3>1. S \in SUBSET Fighters
        OBVIOUS
      <3>2. PICK f \in S : less(f) \cap S = {}
        <4> HIDE DEF S
        <4> QED BY <1>4, <3>1
      <3>3. f \in Fighters /\ duel[f] # g[f] /\ next[f] \in Fighters
        BY <3>1
      <3>4. next[f].left.flag # 1 => duel[next[f]] = g[next[f]]
        <4>1. next[f].left.flag # 1 => next[f] \in less(f)
          BY <3>3 DEF less
        <4> QED BY <3>2, <3>3, <4>1
      <3>5. g[f] = IF next[f].left.flag = 1 THEN next[f] ELSE g[next[f]]
        BY <1>5, <1>10, <3>3
      <3>6. duel[f] = IF next[f].left.flag = 1 THEN next[f] ELSE duel[next[f]]
        BY <1>1, <1>13, <3>3
      <3> QED BY <3>3, <3>4, <3>5, <3>6
    <2>2. \A f \in Fighters : duel[f] = g[f]
      BY <2>1
    <2>3. duel = [f \in Fighters |-> duel[f]]
      <3>1. Fighters = [Sides -> Status]
        BY DEF Fighters
      <3> QED BY <1>12, <3>1, Zenon DEF duel
    <2> HIDE DEF S, Fighters
    <2> QED BY <2>2, <2>3
  <1> QED BY <1>10, <1>13, <1>14 DEF duel

LEMMA SourceIs ==
  ASSUME NEW a \in Agents
  PROVE  Source(a) \in Battles /\ \A c \in Battles : Loser[c] = a <=> c = Source(a)
  <1>1. PICK b \in Battles : \A c \in Battles : Loser[c] = a <=> c = b
    BY TreeAssumption
  <1>2. Source(a) \in Battles /\ Loser[Source(a)] = a
    BY <1>1 DEF Source
  <1> QED BY <1>1, <1>2

LEMMA HealedStatus ==
  ASSUME entry \in Entries, NEW s \in Status
  PROVE  /\ Recovered(entry, s) \in Status /\ Recovered(entry, s).id = s.id
         /\ Revived(entry, s) \in Status /\ Revived(entry, s).id = s.id
  <1>1. s.id \in RealPlayers /\ s.HP \in Int /\ s.battle \in Battles
    BY DEF Status
  <1>2. entry[s.id].HP \in Int
    BY <1>1, EntryIsRight
  <1>3. (entry[s.id].HP - s.HP) \div 2 \in Int
    BY <1>1, <1>2
  <1>4. s.HP + (entry[s.id].HP - s.HP) \div 2 \in Int
    BY <1>1, <1>3
  <1>5. Recovered(entry, s) = [id |-> s.id, HP |-> s.HP + (entry[s.id].HP - s.HP) \div 2,
                               battle |-> s.battle, flag |-> 0]
    BY <1>4, <1>1, NewStatus DEF Recovered
  <1>6. Revived(entry, s) = [id |-> s.id, HP |-> entry[s.id].HP,
                             battle |-> s.battle, flag |-> 0]
    BY <1>2, <1>1, NewStatus DEF Revived
  <1>7. Recovered(entry, s).id = s.id /\ Revived(entry, s).id = s.id
    BY <1>5, <1>6
  <1>8. Recovered(entry, s) \in Status /\ Revived(entry, s) \in Status
    BY <1>1, <1>2, <1>4, <1>5, <1>6 DEF Status
  <1> QED BY <1>7, <1>8

LEMMA EntrantIs ==
  ASSUME NEW decided, NEW p \in Processes
  PROVE  /\ p \in RealPlayers => Entrant(entry, decided, p) = Fresh(entry, p)
         /\ p \in Agents => Entrant(entry, decided, p) =
              Revived(entry, decided[Source(p)][Other(WinningSide(decided[Source(p)]))])
         /\ p \in Battles => Entrant(entry, decided, p) =
              Recovered(entry, decided[p][WinningSide(decided[p])])
  BY Kinds DEF Entrant

LEMMA EntrantIsRight ==
  ASSUME entry \in Entries, NEW decided \in [Battles -> Fighters], NEW p \in Processes \ {Root}
  PROVE  Entrant(entry, decided, p) \in Status
  <1>1. \A out : WinningSide(out) \in Sides /\ Other(WinningSide(out)) \in Sides
    BY DEF WinningSide, Other, Sides
  <1>2. \A b \in Battles, x \in Sides : decided[b][x] \in Status
    BY DEF Fighters
  <1>3. CASE p \in RealPlayers
    <2>1. Fresh(entry, p) \in Status
      BY <1>3, FreshIsRight DEF Statuses
    <2> QED BY <1>3, <2>1, EntrantIs
  <1>4. CASE p \in Agents
    <2>1. decided[Source(p)][Other(WinningSide(decided[Source(p)]))] \in Status
      BY <1>1, <1>2, <1>4, SourceIs
    <2> QED BY <1>4, <2>1, EntrantIs, HealedStatus
  <1>5. CASE p \in Battles
    <2>1. decided[p][WinningSide(decided[p])] \in Status
      BY <1>1, <1>2, <1>5
    <2> QED BY <1>5, <2>1, EntrantIs, HealedStatus
  <1> QED BY <1>3, <1>4, <1>5, Kinds

\* Who enters b depends on the battles before it only.
LEMMA EntrantsFromBefore ==
  ASSUME NEW b \in Battles, NEW x \in Sides, NEW f, NEW g, \A c \in Before(b) : f[c] = g[c]
  PROVE  Entrant(entry, f, Child(b, x)) = Entrant(entry, g, Child(b, x))
  <1> DEFINE p == Child(b, x)
  <1>1. p \in Processes /\ p \in {Left[b], Right[b]}
    BY Tree DEF Children
  <1>2. p \in Battles => p \in Before(b)
    BY <1>1 DEF Before
  <1>3. p \in Agents => Source(p) \in Before(b)
    BY <1>1, SourceIs DEF Before
  <1> HIDE DEF p
  <1>4. CASE p \in RealPlayers
    BY <1>1, <1>4, EntrantIs DEF p
  <1>5. CASE p \in Agents
    BY <1>1, <1>3, <1>5, EntrantIs DEF p
  <1>6. CASE p \in Battles
    BY <1>1, <1>2, <1>6, EntrantIs DEF p
  <1> QED BY <1>1, <1>4, <1>5, <1>6, Kinds

\* Every battle has its outcome, whatever order they are fought in.
LEMMA OutcomeIs ==
  ASSUME entry \in Entries
  PROVE  /\ Outcome(entry) \in [Battles -> Fighters]
         /\ \A b \in Battles :
              Outcome(entry)[b] =
                Duel(entry, b)[[x \in Sides |-> Entrant(entry, Outcome(entry), Child(b, x))]]
  <1> DEFINE Results == [Battles -> Fighters]
             before == [b \in Battles |-> Before(b)]
             entrants(b, f) == [x \in Sides |-> Entrant(entry, f, Child(b, x))]
             G == [p \in Battles \X Results |-> Duel(entry, p[1])[entrants(p[1], p[2])]]
  <1>1. ASSUME NEW b \in Battles, NEW f \in Results
        PROVE  entrants(b, f) \in Fighters /\ Duel(entry, b)[entrants(b, f)] \in Fighters
    <2>1. \A x \in Sides : Entrant(entry, f, Child(b, x)) \in Status
      BY Tree, EntrantIsRight
    <2>2. entrants(b, f) \in Fighters
      BY <2>1 DEF Fighters
    <2>3. Duel(entry, b) \in [Fighters -> Fighters]
      BY DuelIs
    <2> HIDE DEF entrants
    <2> QED BY <2>2, <2>3
  <1>2. ASSUME NEW b \in Battles, NEW f, NEW g, \A c \in Before(b) : f[c] = g[c]
        PROVE  entrants(b, f) = entrants(b, g)
    <2>1. \A x \in Sides : Entrant(entry, f, Child(b, x)) = Entrant(entry, g, Child(b, x))
      BY <1>2, EntrantsFromBefore
    <2> QED BY <2>1
  <1> HIDE DEF entrants
  <1>3. ASSUME NEW b \in Battles, NEW f \in Results
        PROVE  G[<<b, f>>] = Duel(entry, b)[entrants(b, f)]
    <2>1. <<b, f>> \in Battles \X Results
      OBVIOUS
    <2> HIDE DEF Results
    <2> QED BY <2>1
  <1>4. G \in [Battles \X Results -> Fighters]
    <2>1. \A p \in Battles \X Results : p[1] \in Battles /\ p[2] \in Results
      OBVIOUS
    <2>2. \A p \in Battles \X Results : Duel(entry, p[1])[entrants(p[1], p[2])] \in Fighters
      BY <1>1, <2>1
    <2> HIDE DEF Results, Fighters
    <2> QED BY <2>2
  <1>5. before \in [Battles -> SUBSET Battles] /\ \A b \in Battles : before[b] = Before(b)
    BY DEF Before
  <1>6. \A S \in SUBSET Battles : S # {} => \E b \in S : before[b] \cap S = {}
    BY <1>5, TreeAssumption
  <1>7. ASSUME NEW b \in Battles, NEW f \in Results, NEW g \in Results,
               \A c \in before[b] : f[c] = g[c]
        PROVE  G[<<b, f>>] = G[<<b, g>>]
    <2>1. entrants(b, f) = entrants(b, g)
      BY <1>2, <1>5, <1>7
    <2> HIDE DEF G
    <2> QED BY <1>3, <2>1
  <1>8. Fighters # {}
    <2>1. PICK s \in Status : TRUE
      BY FreshIsRight, Kinds DEF Statuses
    <2>2. [x \in Sides |-> s] \in Fighters
      BY DEF Fighters
    <2> QED BY <2>2
  <1>9. PICK f \in Results : \A b \in Battles : f[b] = G[<<b, f>>]
    <2> HIDE DEF before, G, Fighters
    <2>1. Determined(Battles, Fighters, before, G)
      BY <1>4, <1>5, <1>6, <1>7, <1>8 DEF Determined
    <2> QED BY <2>1, WellFoundedFunction
  <1>10. f = [b \in Battles |->
                Duel(entry, b)[[x \in Sides |-> Entrant(entry, f, Child(b, x))]]]
    <2>1. \A b \in Battles : f[b] = Duel(entry, b)[entrants(b, f)]
      BY <1>3, <1>9
    <2>2. f = [b \in Battles |-> Duel(entry, b)[entrants(b, f)]]
      BY <2>1
    <2> QED BY <2>2 DEF entrants
  <1> HIDE DEF G
  <1>11. Outcome(entry) = [b \in Battles |->
            Duel(entry, b)[[x \in Sides |-> Entrant(entry, Outcome(entry), Child(b, x))]]]
    BY <1>10, Zenon DEF Outcome
  <1> DEFINE g == Outcome(entry)
  <1> HIDE DEF g
  <1>12. g = [b \in Battles |-> Duel(entry, b)[entrants(b, g)]]
    BY <1>11, Zenon DEF g, entrants
  <1>13. \A b \in Battles : f[b] = g[b]
    <2> DEFINE S == {b \in Battles : f[b] # g[b]}
    <2> SUFFICES ASSUME S # {}
                 PROVE  FALSE
      OBVIOUS
    <2>1. S \in SUBSET Battles
      OBVIOUS
    <2>2. PICK b \in S : before[b] \cap S = {}
      <3> HIDE DEF S, before
      <3> QED BY <1>6, <2>1
    <2>3. b \in Battles /\ f[b] # g[b]
      OBVIOUS
    <2>4. \A c \in Before(b) : f[c] = g[c]
      BY <1>5, <2>2, <2>3
    <2>5. entrants(b, f) = entrants(b, g)
      BY <1>2, <2>3, <2>4
    <2>6. g[b] = Duel(entry, b)[entrants(b, g)]
      BY <1>12, <2>3
    <2>7. f[b] = Duel(entry, b)[entrants(b, f)]
      BY <1>3, <1>9, <2>3
    <2> QED BY <2>3, <2>5, <2>6, <2>7
  <1>14. f = g
    <2>1. g = [b \in Battles |-> g[b]]
      BY <1>12
    <2> QED BY <1>13, <2>1
  <1>15. \A b \in Battles :
           g[b] = Duel(entry, b)[[x \in Sides |-> Entrant(entry, g, Child(b, x))]]
    BY <1>12 DEF entrants
  <1> QED BY <1>9, <1>14, <1>15 DEF g

-------------------------------------------------------------------------------
(* What the processes have come to: every battle that is decided has the      *)
(* outcome it must have, every other one is on the way to it.                  *)

Outcomes == Outcome(entry)
Loses(b) == Other(WinningSide(Outcomes[b]))

\* How a player goes into the next round or the next battle, if alive.
Healed(s) == IF s.flag = 1 THEN Recovered(entry, s) ELSE s

\* The status that a side sends next or has sent, and the one that its battle
\* must get: at first that of the one who enters there.
Sends(p) == pc[p] \in {"report", "relayUp"} \/ (Waits(p) /\ up[p] # <<>>)
Message(p) == IF p \in Players THEN status[p] ELSE Healed(stat[p][side[p]])
Awaited(b, x) == IF stat[b][x].HP > 0 THEN Healed(stat[b][x])
                 ELSE Entrant(entry, Outcomes, Child(b, x))

\* Whoever is told that a battle is over has the status that it ends with there.
IsOutcome(s) == Won[s.battle] # "none" /\ \E y \in Sides : s = Outcomes[s.battle][y]

\* A battle in passing mode or beyond, a player who plays or has played.
Begun(p) == pc[p] \notin {"unborn", "start", "readLeft", "readRight", "writeLeft",
                          "writeRight", "reap", "open"}

Told(b, x) ==
  LET p == Child(b, x) IN
  /\ Sends(p) => Message(p) = Awaited(b, x)
  /\ up[p] # <<>> => Head(up[p]) = Message(p)
  /\ down[p] # <<>> => Head(down[p]) = stat[b][x]
  /\ ~Begun(p) => stat[b][x].HP <= 0
  /\ stat[b][x].flag = 1 => IsOutcome(stat[b][x])

\* The rounds that are left lead to the outcome; then it is there, and the winner
\* is known.
ToItsEnd(b) ==
  /\ ~Begun(b) <=> side[b] = "none"
  /\ pc[b] \in {"unborn", "start", "readLeft", "readRight"} =>
       \A x \in Sides : stat[b][x].flag = 0
  /\ Won[b] = "none" => Duel(entry, b)[[x \in Sides |-> Awaited(b, x)]] = Outcomes[b]
  /\ side[b] = "none" /\ stat[b].left.flag = 1 => stat[b] = Outcomes[b]
  /\ side[b] # "none" => side[b] = WinningSide(Outcomes[b])
  /\ Won[b] # "none" => Fought(b, Outcomes[b]) /\ Outcomes[b].left.flag = 1
  /\ pc[b] = "relayUp" => stat[b][side[b]].HP > 0

\* A player hands over after the battle whose loser the agent is for.
Beaten(s) == /\ Won[s.battle] # "none"
             /\ s = Revived(entry, Outcomes[s.battle][Loses(s.battle)])
HandsOver(q) == /\ pc[q] = "unborn" => status[q] = Fresh(entry, q)
                /\ pc[q] = "handOver" => Beaten(status[q])
TakesOver(a) ==
  /\ \A k \in DOMAIN fifo[a] : fifo[a][k] = Entrant(entry, Outcomes, a)
  /\ fifo[a] # <<>> \/ pc[a] \notin {"unborn", "open"} => Won[Source(a)] # "none"

HandsOn == /\ \A q \in RealPlayers : HandsOver(q)
           /\ \A a \in Agents : TakesOver(a)

Announced ==
  champion = IF pc[Root] \in {"reapLast", "exited"} THEN <<Champion(entry)>> ELSE <<>>

Played == /\ \A b \in Battles, x \in Sides : Told(b, x)
          /\ \A b \in Battles : ToItsEnd(b)
          /\ HandsOn
          /\ Announced

WonStays(b) == Won[b] # "none" => Won'[b] # "none"

LEMMA WonIs ==
  ASSUME NEW b \in Battles
  PROVE  /\ Won[b] = IF side[b] # "none" THEN side[b]
                     ELSE IF stat[b].left.flag = 1 THEN WinningSide(stat[b]) ELSE "none"
         /\ Won'[b] = IF side'[b] # "none" THEN side'[b]
                      ELSE IF stat'[b].left.flag = 1 THEN WinningSide(stat'[b]) ELSE "none"
         /\ \A out : WinningSide(out) \in Sides /\ WinningSide(out) # "none"
  BY DEF Won, WinningSide, Sides

LEMMA OutcomesAre ==
  ASSUME entry \in Entries
  PROVE  /\ Outcomes \in [Battles -> Fighters]
         /\ \A b \in Battles, x \in Sides : Outcomes[b][x] \in Status
         /\ \A b \in Battles :
              Outcomes[b] =
                Duel(entry, b)[[x \in Sides |-> Entrant(entry, Outcomes, Child(b, x))]]
  <1>1. Outcomes \in [Battles -> Fighters]
    BY OutcomeIs DEF Outcomes
  <1>2. \A b \in Battles, x \in Sides : Outcomes[b][x] \in Status
    BY <1>1 DEF Fighters
  <1>3. \A b \in Battles :
          Outcomes[b] = Duel(entry, b)[[x \in Sides |-> Entrant(entry, Outcomes, Child(b, x))]]
    BY OutcomeIs DEF Outcomes
  <1> QED BY <1>1, <1>2, <1>3

LEMMA SameOutcomes ==
  ASSUME entry' = entry
  PROVE  /\ Outcomes' = Outcomes
         /\ \A s : Healed(s)' = Healed(s)
         /\ \A b : Loses(b)' = Loses(b)
         /\ \A p : Entrant(entry, Outcomes, p)' = Entrant(entry, Outcomes, p)
  <1>1. Outcomes' = Outcomes
    BY DEF Outcomes
  <1>2. \A p : Entrant(entry, Outcomes, p)' = Entrant(entry, Outcomes, p)
    BY <1>1
  <1>3. \A b : Loses(b)' = Loses(b)
    BY <1>1 DEF Loses
  <1>4. \A s : Healed(s)' = Healed(s)
    BY DEF Healed
  <1> QED BY <1>1, <1>2, <1>3, <1>4

LEMMA AwaitedStays ==
  ASSUME NEW b \in Battles, NEW x \in Sides, entry' = entry, stat'[b][x] = stat[b][x]
  PROVE  Awaited(b, x)' = Awaited(b, x)
  BY SameOutcomes DEF Awaited, Child

\* A side is told the truth as before if neither it nor its battle changes.
LEMMA ToldStays ==
  ASSUME IInv, NEW b \in Battles, NEW x \in Sides, Told(b, x), NEW p, p = Child(b, x),
         entry' = entry, \A d \in Battles : WonStays(d), stat'[b][x] = stat[b][x],
         up'[p] = up[p], down'[p] = down[p],
         Sends(p)' => Sends(p), Begun(p) => Begun(p)',
         up[p] # <<>> \/ Sends(p)' => Message(p)' = Message(p)
  PROVE  Told(b, x)'
  <1>1. Child(b, x)' = p
    BY DEF Child
  <1>2. Awaited(b, x)' = Awaited(b, x)
    BY AwaitedStays
  <1>3. stat[b][x].battle \in Battles
    BY StatusIsRight DEF IInv, Types
  <1>4. stat'[b][x].flag = 1 => IsOutcome(stat[b][x])'
    BY <1>3, SameOutcomes DEF Told, IsOutcome, WonStays
  <1>5. /\ (Sends(p) => Message(p) = Awaited(b, x))
        /\ (up[p] # <<>> => Head(up[p]) = Message(p))
        /\ (down[p] # <<>> => Head(down[p]) = stat[b][x])
        /\ (~Begun(p) => stat[b][x].HP <= 0)
    BY DEF Told
  <1> QED BY <1>1, <1>2, <1>4, <1>5 DEF Told

LEMMA ToItsEndStays ==
  ASSUME NEW b \in Battles, ToItsEnd(b), entry' = entry,
         pc'[b] = pc[b], stat'[b] = stat[b], side'[b] = side[b]
  PROVE  ToItsEnd(b)' /\ Won'[b] = Won[b]
  <1>1. Won'[b] = Won[b]
    BY WonIs
  <1>2. [x \in Sides |-> Awaited(b, x)]' = [x \in Sides |-> Awaited(b, x)]
    BY AwaitedStays
  <1>3. Outcomes' = Outcomes /\ Duel(entry, b)' = Duel(entry, b)
    BY SameOutcomes
  <1>4. Begun(b)' <=> Begun(b)
    BY DEF Begun
  <1> QED BY <1>1, <1>2, <1>3, <1>4 DEF ToItsEnd, Fought

LEMMA HandsOverStays ==
  ASSUME IInv, NEW q \in RealPlayers, HandsOver(q), entry' = entry,
         \A d \in Battles : WonStays(d), pc'[q] = pc[q], status'[q] = status[q]
  PROVE  HandsOver(q)'
  <1>1. status[q].battle \in Battles
    BY StatusIsRight, Kinds DEF IInv, Types
  <1>2. \A c : Revived(entry, Outcomes[c][Loses(c)])' = Revived(entry, Outcomes[c][Loses(c)])
    BY SameOutcomes
  <1>3. Beaten(status[q]) => Beaten(status[q])'
    BY <1>1, <1>2 DEF Beaten, WonStays
  <1> QED BY <1>3 DEF HandsOver

LEMMA TakesOverStays ==
  ASSUME NEW a \in Agents, TakesOver(a), entry' = entry,
         \A d \in Battles : WonStays(d), fifo'[a] = fifo[a],
         pc'[a] \notin {"unborn", "open"} => pc[a] \notin {"unborn", "open"}
  PROVE  TakesOver(a)'
  BY SourceIs, SameOutcomes DEF TakesOver, WonStays

-------------------------------------------------------------------------------
(* The players play what they must. *)

\* A step of a player tells one battle something.
LEMMA PlayerStepPlays ==
  ASSUME IInv, Played, NEW p \in Players, UNCHANGED <<entry, stat, side, champion>>,
         \A q \in Processes \ {p} : pc'[q] = pc[q] /\ up'[q] = up[q] /\ down'[q] = down[q],
         \A q \in Players \ {p} : status'[q] = status[q],
         \A c \in Battles, y \in Sides : Child(c, y) = p => Told(c, y)',
         HandsOn'
  PROVE  Played'
  <1>1. \A d \in Battles : d \in Processes \ {p} /\ WonStays(d)
    BY Kinds, WonIs DEF WonStays
  <1>2. ASSUME NEW b \in Battles, NEW x \in Sides, Child(b, x) # p
        PROVE  Told(b, x)'
    <2>1. PICK c \in Processes \ {p} : c = Child(b, x)
      BY <1>2, Tree
    <2>2. Message(c)' = Message(c)
      BY <2>1, Kinds, SameOutcomes DEF Message
    <2>3. (Sends(c)' <=> Sends(c)) /\ (Begun(c)' <=> Begun(c))
      BY <2>1 DEF Sends, Begun, Waits
    <2>4. Told(b, x)
      BY DEF Played
    <2> QED BY <1>1, <2>1, <2>2, <2>3, <2>4, ToldStays
  <1>3. \A b \in Battles : ToItsEnd(b)'
    BY <1>1, ToItsEndStays DEF Played
  <1>4. Announced'
    <2>1. pc'[Root] = pc[Root]
      BY <1>1, Kinds
    <2> QED BY <2>1 DEF Played, Announced
  <1> QED BY <1>2, <1>3, <1>4 DEF Played

\* A step of a battle, its two sides and the battle above it.
LEMMA BattleStepPlays ==
  ASSUME IInv, Played, NEW b \in Battles, UNCHANGED <<entry, status, fifo>>,
         \A q \in Processes \ {b} : pc'[q] = pc[q],
         \A d \in Battles \ {b} : stat'[d] = stat[d] /\ side'[d] = side[d],
         \A q \in Processes \ ({b} \cup Children(b)) : up'[q] = up[q] /\ down'[q] = down[q],
         ToItsEnd(b)', WonStays(b), \A x \in Sides : Told(b, x)',
         \A c \in Battles, y \in Sides : Child(c, y) = b => Told(c, y)',
         Announced'
  PROVE  Played'
  <1>1. \A d \in Battles : d \in Processes /\ WonStays(d)
    BY Kinds, WonIs DEF WonStays
  <1>2. ASSUME NEW c \in Battles, NEW y \in Sides, c # b, Child(c, y) # b
        PROVE  Told(c, y)'
    <2>1. PICK p \in Processes \ ({b} \cup Children(b)) : p = Child(c, y)
      BY <1>2, Tree
    <2>2. Message(p)' = Message(p)
      BY <2>1, Kinds, SameOutcomes DEF Message
    <2>3. (Sends(p)' <=> Sends(p)) /\ (Begun(p)' <=> Begun(p))
      BY <2>1 DEF Sends, Begun, Waits
    <2>4. Told(c, y) /\ stat'[c][y] = stat[c][y]
      BY <1>2 DEF Played
    <2> QED BY <1>1, <2>1, <2>2, <2>3, <2>4, ToldStays
  <1>3. \A d \in Battles : ToItsEnd(d)'
    BY <1>1, ToItsEndStays DEF Played
  <1>4. HandsOn'
    <2>1. \A q \in Players : pc'[q] = pc[q]
      BY Kinds
    <2>2. \A q \in RealPlayers : HandsOver(q)'
      BY <1>1, <2>1, HandsOverStays, Kinds DEF Played, HandsOn
    <2>3. \A a \in Agents : TakesOver(a)'
      BY <1>1, <2>1, TakesOverStays, Kinds DEF Played, HandsOn
    <2> QED BY <2>2, <2>3 DEF HandsOn
  <1> QED BY <1>2, <1>3, <1>4 DEF Played

LEMMA ReportPlays ==
  ASSUME IInv, Played, NEW p \in Players, Report(p)
  PROVE  Played'
  <1>1. /\ pc[p] = "report" /\ pc' = [pc EXCEPT ![p] = "await"]
        /\ up' = [up EXCEPT ![p] = Append(@, status[p])]
        /\ UNCHANGED <<entry, status, stat, side, down, fifo, champion>>
    BY DEF Report
  <1>2. p \in Processes \ {Root} /\ p \notin Battles
    BY Kinds
  <1>3. Types /\ Edges
    BY DEF IInv
  <1>4. pc \in [Processes -> Places] /\ up \in [Processes -> Seq(Statuses)]
        /\ status[p] \in Statuses
    BY <1>3 DEF Types
  <1>5. /\ pc'[p] = "await" /\ \A q \in Processes \ {p} : pc'[q] = pc[q]
        /\ up'[p] = Append(up[p], status[p]) /\ \A q \in Processes \ {p} : up'[q] = up[q]
    BY <1>1, <1>2, <1>4
  <1>6. ASSUME NEW c \in Battles, NEW y \in Sides, Child(c, y) = p
        PROVE  Told(c, y)'
    <2>1. Child(c, y)' = p /\ Edge(c, y) /\ Told(c, y)
      BY <1>3, <1>6 DEF Child, Edges, Played
    <2>2. up[p] = <<>> /\ down[p] = <<>>
      BY <1>1, <1>6, <2>1 DEF Edge, Turn, Waits
    <2>3. Head(up'[p]) = status[p] /\ down'[p] = <<>>
      BY <1>1, <1>2, <1>4, <1>5, <2>2, Pipe
    <2>4. Message(p) = status[p] /\ Message(p)' = status[p] /\ Sends(p) /\ Begun(p)'
      BY <1>1, <1>5 DEF Message, Sends, Begun
    <2>5. Awaited(c, y)' = Awaited(c, y)
      BY <1>1, AwaitedStays
    <2>6. stat'[c][y].flag = 1 => IsOutcome(stat[c][y])'
      <3>1. Won' = Won
        BY <1>1 DEF Won
      <3> QED BY <1>1, <2>1, <3>1, SameOutcomes DEF Told, IsOutcome
    <2> QED BY <1>1, <1>6, <2>1, <2>3, <2>4, <2>5, <2>6 DEF Told
  <1>7. HandsOn'
    <2>1. \A q \in Players \ {p} : pc'[q] = pc[q]
      BY <1>5, Kinds
    <2>2. \A d \in Battles : WonStays(d)
      BY <1>1, WonIs DEF WonStays
    <2>3. ASSUME NEW q \in RealPlayers
          PROVE  HandsOver(q)'
      <3>1. CASE q = p
        BY <1>5, <3>1 DEF HandsOver
      <3>2. CASE q # p
        BY <1>1, <2>1, <2>2, <3>2, HandsOverStays, Kinds DEF Played, HandsOn
      <3> QED BY <3>1, <3>2
    <2>4. \A a \in Agents : TakesOver(a)'
      BY <1>1, <2>1, <2>2, TakesOverStays, Kinds DEF Played, HandsOn
    <2> QED BY <2>3, <2>4 DEF HandsOn
  <1> QED BY <1>1, <1>5, <1>6, <1>7, PlayerStepPlays

\* What a FIFO holds after a status has been put in or taken out.
LEMMA FifoElements ==
  ASSUME NEW S, NEW q \in Seq(S)
  PROVE  /\ \A s \in S : \A k \in DOMAIN Append(q, s) :
              Append(q, s)[k] = s \/ (k \in DOMAIN q /\ Append(q, s)[k] = q[k])
         /\ q # <<>> => /\ 1 \in DOMAIN q /\ Head(q) = q[1]
                        /\ \A k \in DOMAIN Tail(q) : k + 1 \in DOMAIN q /\ Tail(q)[k] = q[k + 1]
  <1>1. Len(q) \in Nat /\ DOMAIN q = 1..Len(q)
    BY LenProperties
  <1>2. ASSUME NEW s \in S, NEW k \in DOMAIN Append(q, s)
        PROVE  Append(q, s)[k] = s \/ (k \in DOMAIN q /\ Append(q, s)[k] = q[k])
    <2>1. /\ Append(q, s) \in Seq(S) /\ Len(Append(q, s)) = Len(q) + 1
          /\ \A i \in 1..Len(q) : Append(q, s)[i] = q[i]
          /\ Append(q, s)[Len(q) + 1] = s
      BY AppendProperties
    <2>2. k \in 1..(Len(q) + 1)
      BY <2>1, LenProperties
    <2> QED BY <1>1, <2>1, <2>2
  <1>3. ASSUME q # <<>>
        PROVE  /\ 1 \in DOMAIN q /\ Head(q) = q[1]
               /\ \A k \in DOMAIN Tail(q) : k + 1 \in DOMAIN q /\ Tail(q)[k] = q[k + 1]
    <2>1. /\ Tail(q) \in Seq(S) /\ Len(Tail(q)) = Len(q) - 1
          /\ \A k \in 1..Len(Tail(q)) : Tail(q)[k] = q[k + 1]
      BY <1>3, HeadTailProperties
    <2>2. Len(q) > 0 /\ DOMAIN Tail(q) = 1..Len(Tail(q))
      BY <1>1, <1>3, <2>1, LenProperties, EmptySeq
    <2> QED BY <1>1, <2>1, <2>2
  <1> QED BY <1>2, <1>3

\* What a step of a player changes in how statuses are handed on.
LEMMA HandsOnBut ==
  ASSUME IInv, Played, NEW p \in Players, UNCHANGED <<entry, stat, side>>,
         \A q \in Players \ {p} : pc'[q] = pc[q] /\ status'[q] = status[q],
         p \in RealPlayers => HandsOver(p)',
         \A a \in Agents :
           \/ TakesOver(a)'
           \/ fifo'[a] = fifo[a] /\ (pc[a] \in {"unborn", "open"} => pc'[a] \in {"unborn", "open"})
  PROVE  HandsOn'
  <1>1. \A d \in Battles : WonStays(d)
    BY WonIs DEF WonStays
  <1>2. ASSUME NEW q \in RealPlayers
        PROVE  HandsOver(q)'
    <2>1. CASE q = p
      BY <2>1
    <2>2. CASE q # p
      BY <1>1, <2>2, HandsOverStays, Kinds DEF Played, HandsOn
    <2> QED BY <2>1, <2>2
  <1>3. \A a \in Agents : TakesOver(a)'
    BY <1>1, TakesOverStays DEF Played, HandsOn
  <1> QED BY <1>2, <1>3 DEF HandsOn

\* Whose score is 0 or less in the outcome is the loser.
LEMMA LoserIs ==
  ASSUME IInv, Played, NEW d \in Battles, Won[d] # "none", NEW z \in Sides,
         Outcomes[d][z].HP <= 0
  PROVE  z = Loses(d)
  <1>1. Fought(d, Outcomes[d]) /\ Outcomes[d].left.flag = 1
    BY DEF Played, ToItsEnd
  <1>2. /\ Outcomes[d].left.HP <= 0 <=> Outcomes[d].right.HP > 0
        /\ Outcomes[d].left.HP \in Int /\ Outcomes[d].right.HP \in Int
    BY <1>1, OutcomesAre DEF Fought, Status, IInv, Types, Sides
  <1> QED BY <1>2 DEF Loses, WinningSide, Other, Sides

LEMMA AfterRoundGives ==
  ASSUME entry \in Entries, NEW p \in Players, NEW s \in Statuses, Answer(s)
  PROVE  /\ ~Last(s) => /\ AfterRound(p, s).pc = "report" /\ s.HP > 0
                        /\ AfterRound(p, s).status = Healed(s)
         /\ Last(s) => AfterRound(p, s).pc \in {"exited", "handOver"}
         /\ AfterRound(p, s).pc = "handOver" =>
              s.flag = 1 /\ s.HP <= 0 /\ AfterRound(p, s).status = Revived(entry, s)
  <1>1. s.HP \in Int /\ s.flag \in {0, 1}
    BY StatusIsRight
  <1> DEFINE Heals == [status |-> Recovered(entry, s), pc |-> "report"]
             Hands == [status |-> Revived(entry, s), pc |-> "handOver"]
             Ends  == [status |-> s, pc |-> "exited"]
             Goes  == [status |-> s, pc |-> "report"]
  <1>2. AfterRound(p, s) =
          CASE s.flag # 1 -> Goes
            [] s.flag = 1 /\ s.battle = Root -> Ends
            [] s.flag = 1 /\ s.battle # Root /\ s.HP > 0 -> Heals
            [] s.flag = 1 /\ s.battle # Root /\ s.HP <= 0 ->
                 IF p \in RealPlayers THEN Hands ELSE Ends
    BY DEF AfterRound
  <1>3. /\ Heals.pc = "report" /\ Heals.status = Recovered(entry, s)
        /\ Hands.pc = "handOver" /\ Hands.status = Revived(entry, s)
        /\ Ends.pc = "exited" /\ Goes.pc = "report" /\ Goes.status = s
    OBVIOUS
  <1> HIDE DEF Heals, Hands, Ends, Goes
  <1>4. CASE s.flag # 1
    <2>1. AfterRound(p, s) = Goes
      BY <1>2, <1>4
    <2> QED BY <1>3, <1>4, <2>1 DEF Last, Answer, Healed
  <1>5. CASE s.flag = 1 /\ s.battle = Root
    <2>1. AfterRound(p, s) = Ends
      BY <1>2, <1>5
    <2> QED BY <1>3, <1>5, <2>1 DEF Last
  <1>6. CASE s.flag = 1 /\ s.battle # Root /\ s.HP > 0
    <2>1. AfterRound(p, s) = Heals
      BY <1>1, <1>2, <1>6
    <2> QED BY <1>1, <1>3, <1>6, <2>1 DEF Last, Healed
  <1>7. CASE s.flag = 1 /\ s.battle # Root /\ s.HP <= 0
    <2>1. AfterRound(p, s) \in {Hands, Ends}
      BY <1>1, <1>2, <1>7
    <2> QED BY <1>3, <1>7, <2>1 DEF Last
  <1> QED BY <1>1, <1>4, <1>5, <1>6, <1>7

LEMMA ResultPlays ==
  ASSUME IInv, Played, NEW p \in Players, Result(p)
  PROVE  Played'
  <1>1. Types /\ Edges
    BY DEF IInv
  <1>2. p \in Processes \ {Root} /\ p \notin Battles
    BY Kinds
  <1>3. PICK c \in Battles, y \in Sides : Child(c, y) = p
    BY <1>2, Tree
  <1>4. /\ pc \in [Processes -> Places] /\ down \in [Processes -> Seq(Statuses)]
        /\ status \in [Players -> Statuses] /\ entry \in Entries
        /\ stat[c][y] \in Statuses
    BY <1>1 DEF Types
  <1> DEFINE s == stat[c][y]
             after == AfterRound(p, s)
  <1>5. pc[p] = "await" /\ down[p] # <<>>
    BY DEF Result
  <1>6. Edge(c, y) /\ Told(c, y) /\ Child(c, y)' = p
    BY <1>1, <1>3 DEF Edges, Played, Child
  <1>7. Head(down[p]) = s /\ up[p] = <<>> /\ Len(down[p]) = 1 /\ Answer(s)
    BY <1>3, <1>5, <1>6, Pipe DEF Told, Edge, Turn, Waits, SamePlayer
  <1>8. /\ status' = [status EXCEPT ![p] = after.status]
        /\ pc' = [pc EXCEPT ![p] = after.pc]
        /\ down' = [down EXCEPT ![p] = Tail(@)]
        /\ UNCHANGED <<entry, stat, side, up, fifo, champion>>
    BY <1>7 DEF Result
  <1>9. Tail(down[p]) = <<>>
    BY <1>2, <1>4, <1>7, Pipe
  <1> HIDE DEF after
  <1>10. /\ status'[p] = after.status /\ \A q \in Players \ {p} : status'[q] = status[q]
         /\ pc'[p] = after.pc /\ \A q \in Processes \ {p} : pc'[q] = pc[q]
         /\ down'[p] = <<>> /\ \A q \in Processes \ {p} : down'[q] = down[q]
    BY <1>2, <1>4, <1>8, <1>9
  <1>11. /\ ~Last(s) => after.pc = "report" /\ s.HP > 0 /\ after.status = Healed(s)
         /\ Last(s) => after.pc \in {"exited", "handOver"}
         /\ after.pc = "handOver" => s.flag = 1 /\ s.HP <= 0 /\ after.status = Revived(entry, s)
    BY <1>4, <1>7, AfterRoundGives DEF after
  <1>12. \A d \in Battles : WonStays(d)
    BY <1>8, WonIs DEF WonStays
  <1>13. s.flag = 1 => IsOutcome(s)
    BY <1>6 DEF Told
  <1>14. Told(c, y)'
    <2>1. Begun(p)'
      BY <1>10, <1>11 DEF Begun
    <2>2. Sends(p)' => Message(p)' = Awaited(c, y)'
      <3>1. Sends(p)' => ~Last(s)
        BY <1>7, <1>8, <1>10, <1>11 DEF Sends
      <3>2. ~Last(s) => Awaited(c, y)' = Healed(s)
        BY <1>8, <1>11, AwaitedStays DEF Awaited
      <3>3. Message(p)' = after.status
        BY <1>10 DEF Message
      <3> QED BY <1>11, <3>1, <3>2, <3>3
    <2>3. stat'[c][y].flag = 1 => IsOutcome(stat[c][y])'
      <3>1. Won' = Won
        BY <1>8 DEF Won
      <3> QED BY <1>8, <1>13, <3>1, SameOutcomes DEF IsOutcome
    <2> QED BY <1>6, <1>7, <1>8, <1>10, <2>1, <2>2, <2>3 DEF Told
  <1>15. p \in RealPlayers => HandsOver(p)'
    <2>1. SUFFICES ASSUME pc'[p] = "handOver"
                   PROVE  Beaten(status[p])'
      BY <1>10, <1>11 DEF HandsOver
    <2>2. s.flag = 1 /\ s.HP <= 0 /\ status'[p] = Revived(entry, s)
      BY <1>10, <1>11, <2>1
    <2>3. PICK d \in Battles : d = s.battle
      BY <1>4, StatusIsRight
    <2>4. PICK z \in Sides : s = Outcomes[d][z] /\ Won[d] # "none"
      BY <1>13, <2>2, <2>3 DEF IsOutcome
    <2>5. z = Loses(d)
      BY <2>2, <2>4, LoserIs
    <2>6. Revived(entry, s).battle = d
      <3>1. s \in Status /\ entry[s.id].HP \in Int
        BY <1>4, StatusIsRight
      <3>2. Revived(entry, s) = [id |-> s.id, HP |-> entry[s.id].HP, battle |-> s.battle, flag |-> 0]
        BY <2>3, <3>1, NewStatus DEF Revived
      <3> QED BY <2>3, <3>2
    <2>7. status'[p].battle = d /\ status'[p] = Revived(entry, Outcomes[d][Loses(d)])
      BY <2>2, <2>4, <2>5, <2>6
    <2>8. Won'[d] # "none"
      BY <1>12, <2>4 DEF WonStays
    <2>9. Revived(entry, Outcomes[d][Loses(d)])' = Revived(entry, Outcomes[d][Loses(d)])
      BY <1>8, SameOutcomes
    <2> QED BY <2>7, <2>8, <2>9 DEF Beaten
  <1>16. HandsOn'
    <2>1. \A q \in Players \ {p} : pc'[q] = pc[q] /\ status'[q] = status[q]
      BY <1>10, Kinds
    <2>2. \A a \in Agents : pc[a] \in {"unborn", "open"} => pc'[a] = pc[a]
      BY <1>5, <1>10, Kinds
    <2> QED BY <1>8, <1>15, <2>1, <2>2, HandsOnBut
  <1>17. \A d \in Battles, z \in Sides : Child(d, z) = p => Told(d, z)'
    BY <1>3, <1>14, Tree
  <1> QED BY <1>8, <1>10, <1>16, <1>17, PlayerStepPlays

\* A player who sends nothing and gets nothing does not change what is told.
LEMMA ToldAsBefore ==
  ASSUME IInv, Played, NEW p \in Players, UNCHANGED <<entry, stat, side, up, down>>,
         pc[p] \in {"handOver", "log"}, pc'[p] \in {"log", "exited"}, status'[p] = status[p]
  PROVE  \A c \in Battles, y \in Sides : Child(c, y) = p => Told(c, y)'
  <1>1. /\ ~Sends(p)' /\ Begun(p)' /\ Message(p)' = Message(p)
    BY DEF Sends, Waits, Begun, Message
  <1>2. \A d \in Battles : WonStays(d)
    BY WonIs DEF WonStays
  <1> QED BY <1>1, <1>2, ToldStays DEF Played

LEMMA HandOverPlays ==
  ASSUME IInv, Played, NEW p \in RealPlayers, HandOver(p)
  PROVE  Played'
  <1>1. PICK agent \in Agents :
          /\ agent = Loser[status[p].battle] /\ pc[p] = "handOver"
          /\ fifo' = [fifo EXCEPT ![agent] = Append(@, status[p])]
          /\ pc' = [pc EXCEPT ![p] = "log"]
          /\ UNCHANGED <<entry, status, stat, side, up, down, champion>>
    BY DEF HandOver
  <1>2. p \in Processes /\ p \in Players /\ p \notin Agents
    BY Kinds
  <1>3. /\ pc \in [Processes -> Places] /\ fifo \in [Agents -> Seq(Statuses)]
        /\ status[p] \in Statuses /\ entry \in Entries
    BY <1>2 DEF IInv, Types
  <1>4. /\ pc'[p] = "log" /\ \A q \in Processes \ {p} : pc'[q] = pc[q]
        /\ fifo'[agent] = Append(fifo[agent], status[p])
        /\ \A a \in Agents \ {agent} : fifo'[a] = fifo[a]
    BY <1>1, <1>2, <1>3
  <1>5. PICK c \in Battles : c = status[p].battle
    BY <1>3, StatusIsRight
  <1>6. Won[c] # "none" /\ status[p] = Revived(entry, Outcomes[c][Loses(c)])
    BY <1>1, <1>5 DEF Played, HandsOn, HandsOver, Beaten
  <1>7. Source(agent) = c
    BY <1>1, <1>5, SourceIs
  <1>8. status[p] = Entrant(entry, Outcomes, agent)
    BY <1>2, <1>6, <1>7, EntrantIs, Kinds DEF Loses
  <1>9. \A d \in Battles : WonStays(d)
    BY <1>1, WonIs DEF WonStays
  <1>10. TakesOver(agent)'
    <2>1. ASSUME NEW k \in DOMAIN fifo'[agent]
          PROVE  fifo'[agent][k] = Entrant(entry, Outcomes, agent)
      <3>1. \A i \in DOMAIN fifo[agent] : fifo[agent][i] = Entrant(entry, Outcomes, agent)
        BY DEF Played, HandsOn, TakesOver
      <3>2. fifo[agent] \in Seq(Statuses)
        BY <1>3
      <3> QED BY <1>3, <1>4, <1>8, <2>1, <3>1, <3>2, FifoElements
    <2>2. Won'[Source(agent)] # "none"
      BY <1>6, <1>7, <1>9 DEF WonStays
    <2> QED BY <1>1, <2>1, <2>2, SameOutcomes DEF TakesOver
  <1>11. HandsOn'
    <2>1. \A q \in Players \ {p} : pc'[q] = pc[q] /\ status'[q] = status[q]
      BY <1>1, <1>4, Kinds
    <2>2. HandsOver(p)'
      BY <1>4 DEF HandsOver
    <2>3. \A a \in Agents : pc'[a] = pc[a]
      BY <1>2, <1>4, Kinds
    <2> QED BY <1>1, <1>2, <1>4, <1>10, <2>1, <2>2, <2>3, HandsOnBut
  <1>12. \A d \in Battles, z \in Sides : Child(d, z) = p => Told(d, z)'
    BY <1>1, <1>2, <1>4, ToldAsBefore
  <1> QED BY <1>1, <1>2, <1>4, <1>11, <1>12, PlayerStepPlays

LEMMA LogHandOverPlays ==
  ASSUME IInv, Played, NEW p \in RealPlayers, LogHandOver(p)
  PROVE  Played'
  <1>1. /\ pc[p] = "log" /\ pc' = [pc EXCEPT ![p] = "exited"]
        /\ UNCHANGED <<entry, status, stat, side, up, down, fifo, champion>>
    BY DEF LogHandOver, pipes
  <1>2. p \in Processes /\ p \in Players /\ p \notin Agents
    BY Kinds
  <1>3. /\ pc'[p] = "exited" /\ \A q \in Processes \ {p} : pc'[q] = pc[q]
    BY <1>1, <1>2 DEF IInv, Types
  <1>4. HandsOn'
    <2>1. \A q \in Players \ {p} : pc'[q] = pc[q] /\ status'[q] = status[q]
      BY <1>1, <1>3, Kinds
    <2>2. HandsOver(p)' /\ \A a \in Agents : pc'[a] = pc[a]
      BY <1>2, <1>3, Kinds DEF HandsOver
    <2> QED BY <1>1, <1>2, <2>1, <2>2, HandsOnBut
  <1>5. \A d \in Battles, z \in Sides : Child(d, z) = p => Told(d, z)'
    BY <1>1, <1>2, <1>3, ToldAsBefore
  <1> QED BY <1>1, <1>2, <1>3, <1>4, <1>5, PlayerStepPlays

LEMMA TakeOverPlays ==
  ASSUME IInv, Played, NEW p \in Agents, TakeOver(p)
  PROVE  Played'
  <1> DEFINE s == Head(fifo[p])
  <1>1. /\ pc[p] = "open" /\ fifo[p] # <<>>
        /\ status' = [status EXCEPT ![p] = s]
        /\ fifo' = [fifo EXCEPT ![p] = Tail(@)]
        /\ pc' = [pc EXCEPT ![p] = "report"]
        /\ UNCHANGED <<entry, stat, side, up, down, champion>>
    BY DEF TakeOver
  <1>2. p \in Processes \ {Root} /\ p \in Players /\ p \notin RealPlayers /\ p \notin Battles
    BY Kinds
  <1>3. /\ pc \in [Processes -> Places] /\ fifo \in [Agents -> Seq(Statuses)]
        /\ status \in [Players -> Statuses]
    BY DEF IInv, Types
  <1>4. TakesOver(p)
    BY DEF Played, HandsOn
  <1>5. /\ s = Entrant(entry, Outcomes, p)
        /\ \A k \in DOMAIN Tail(fifo[p]) : Tail(fifo[p])[k] = Entrant(entry, Outcomes, p)
    <2>1. fifo[p] \in Seq(Statuses)
      BY <1>3
    <2> QED BY <1>1, <1>4, <2>1, FifoElements DEF TakesOver
  <1> HIDE DEF s
  <1>6. /\ pc'[p] = "report" /\ \A q \in Processes \ {p} : pc'[q] = pc[q]
        /\ status'[p] = s /\ \A q \in Players \ {p} : status'[q] = status[q]
        /\ fifo'[p] = Tail(fifo[p]) /\ \A a \in Agents \ {p} : fifo'[a] = fifo[a]
    BY <1>1, <1>2, <1>3
  <1>7. \A d \in Battles : WonStays(d)
    BY <1>1, WonIs DEF WonStays
  <1>8. TakesOver(p)'
    <2>1. Won'[Source(p)] # "none"
      BY <1>1, <1>4, <1>7, SourceIs DEF TakesOver, WonStays
    <2> QED BY <1>1, <1>5, <1>6, <2>1, SameOutcomes DEF TakesOver
  <1>9. HandsOn'
    <2>1. \A q \in Players \ {p} : pc'[q] = pc[q] /\ status'[q] = status[q]
      BY <1>6, Kinds
    <2>2. \A a \in Agents \ {p} : pc'[a] = pc[a] /\ fifo'[a] = fifo[a]
      BY <1>6, Kinds
    <2> QED BY <1>1, <1>2, <1>8, <2>1, <2>2, HandsOnBut
  <1>10. ASSUME NEW c \in Battles, NEW y \in Sides, Child(c, y) = p
         PROVE  Told(c, y)'
    <2>1. Child(c, y)' = p /\ Edge(c, y) /\ Told(c, y)
      BY <1>10 DEF Child, IInv, Edges, Played
    <2>2. up'[p] = <<>> /\ down'[p] = <<>>
      BY <1>1, <1>10, <2>1 DEF Edge, Turn, Waits
    <2>3. stat[c][y].HP <= 0 /\ stat[c][y].HP \in Int
      <3>1. stat[c][y] \in Statuses
        BY DEF IInv, Types
      <3> QED BY <1>1, <1>10, <2>1, <3>1, StatusIsRight DEF Told, Begun, IInv, Types
    <2>4. Awaited(c, y)' = s
      BY <1>1, <1>5, <1>10, <2>3, AwaitedStays DEF Awaited
    <2>5. Message(p)' = s /\ Begun(p)'
      BY <1>2, <1>6 DEF Message, Begun
    <2>6. stat'[c][y].flag = 1 => IsOutcome(stat[c][y])'
      <3>1. Won' = Won
        BY <1>1 DEF Won
      <3> QED BY <1>1, <2>1, <3>1, SameOutcomes DEF Told, IsOutcome
    <2> QED BY <1>1, <2>1, <2>2, <2>4, <2>5, <2>6 DEF Told
  <1> QED BY <1>1, <1>2, <1>6, <1>9, <1>10, PlayerStepPlays

-------------------------------------------------------------------------------
(* The battles play what they must. *)

\* The same if only the place of the battle changes.
LEMMA ToItsEndMoves ==
  ASSUME NEW b \in Battles, ToItsEnd(b), entry' = entry,
         stat'[b] = stat[b], side'[b] = side[b], Begun(b)' <=> Begun(b),
         pc'[b] \in {"unborn", "start", "readLeft", "readRight"} =>
           \A x \in Sides : stat[b][x].flag = 0,
         pc'[b] # "relayUp"
  PROVE  ToItsEnd(b)' /\ WonStays(b)
  <1>1. Won'[b] = Won[b]
    BY WonIs
  <1>2. [x \in Sides |-> Awaited(b, x)]' = [x \in Sides |-> Awaited(b, x)]
    BY AwaitedStays
  <1>3. Outcomes' = Outcomes /\ Duel(entry, b)' = Duel(entry, b)
    BY SameOutcomes
  <1> QED BY <1>1, <1>2, <1>3 DEF ToItsEnd, Fought, WonStays

\* The edge above a battle that does not wait and does not begin to send.
LEMMA AboveAsBefore ==
  ASSUME IInv, Played, NEW b \in Battles, entry' = entry, WonStays(b), ~Waits(b),
         \A d \in Battles \ {b} : stat'[d] = stat[d] /\ side'[d] = side[d],
         b # Root => up'[b] = up[b] /\ down'[b] = down[b],
         ~Sends(b)', Begun(b) => Begun(b)'
  PROVE  \A c \in Battles, y \in Sides : Child(c, y) = b => Told(c, y)'
  <1>1. ASSUME NEW c \in Battles, NEW y \in Sides, Child(c, y) = b
        PROVE  Told(c, y)'
    <2>1. Edge(c, y) /\ Told(c, y) /\ c # b /\ b # Root
      BY <1>1, Tree DEF IInv, Edges, Played
    <2>2. up[b] = <<>>
      BY <1>1, <2>1 DEF Edge, Turn
    <2>3. \A d \in Battles : WonStays(d)
      BY WonIs DEF WonStays
    <2> QED BY <1>1, <2>1, <2>2, <2>3, ToldStays
  <1> QED BY <1>1

\* The edge to a side that is neither read nor written.
LEMMA BelowAsBefore ==
  ASSUME IInv, Played, NEW b \in Battles, NEW x \in Sides, UNCHANGED <<entry, status>>,
         WonStays(b), \A q \in Processes \ {b} : pc'[q] = pc[q],
         \A d \in Battles \ {b} : stat'[d] = stat[d] /\ side'[d] = side[d],
         stat'[b][x] = stat[b][x], NEW p, p = Child(b, x),
         up'[p] = up[p], down'[p] = down[p]
  PROVE  Told(b, x)'
  <1>1. p \in Processes \ {b}
    BY Tree
  <1>2. Message(p)' = Message(p)
    BY <1>1, Kinds, SameOutcomes DEF Message
  <1>3. (Sends(p)' <=> Sends(p)) /\ (Begun(p)' <=> Begun(p))
    BY <1>1 DEF Sends, Begun, Waits
  <1>4. \A d \in Battles : WonStays(d)
    BY WonIs DEF WonStays
  <1> QED BY <1>2, <1>3, <1>4, ToldStays DEF Played

\* The edge to a side that has sent and now waits.
LEMMA BelowWaits ==
  ASSUME NEW b \in Battles, NEW x \in Sides, NEW p, p = Child(b, x), Waits(p),
         pc'[p] = pc[p], up'[p] = <<>>, down'[p] # <<>> => Head(down'[p]) = stat'[b][x],
         stat'[b][x].flag = 1 => IsOutcome(stat[b][x])'
  PROVE  Told(b, x)'
  <1>1. Child(b, x)' = p
    BY DEF Child
  <1>2. ~Sends(p)' /\ Begun(p)'
    BY DEF Sends, Waits, Begun
  <1> QED BY <1>1, <1>2 DEF Told

\* What a battle reads from a side is what it awaits.
LEMMA ReadIsAwaited ==
  ASSUME IInv, Played, NEW b \in Battles, NEW x \in Sides, NEW p, p = Child(b, x), up[p] # <<>>
  PROVE  /\ Waits(p) /\ down[p] = <<>> /\ Len(up[p]) = 1 /\ Tail(up[p]) = <<>>
         /\ Head(up[p]) = Awaited(b, x) /\ Fit(Head(up[p])) /\ Head(up[p]) \in Statuses
         /\ Healed(Head(up[p])) = Head(up[p])
  <1>1. Edge(b, x) /\ Told(b, x)
    BY DEF IInv, Edges, Played
  <1>2. Waits(p) /\ down[p] = <<>> /\ Len(up[p]) = 1
    BY <1>1, Pipe DEF Edge, Turn
  <1>3. Head(up[p]) = Awaited(b, x)
    BY <1>1, <1>2 DEF Told, Sends
  <1>4. Fit(Head(up[p]))
    BY <1>1 DEF Edge, SamePlayer
  <1>5. p \in Processes /\ up \in [Processes -> Seq(Statuses)]
    BY Tree DEF IInv, Types
  <1>6. Tail(up[p]) = <<>> /\ Head(up[p]) \in Statuses
    BY <1>2, <1>5, Pipe
  <1> QED BY <1>2, <1>3, <1>4, <1>6 DEF Fit, Healed

\* A step that leaves the other battles alone.
LEMMA WonBut ==
  ASSUME NEW b \in Battles,
         \A d \in Battles \ {b} : stat'[d] = stat[d] /\ side'[d] = side[d]
  PROVE  /\ Won' = [Won EXCEPT ![b] = Won'[b]]
         /\ Won'[b] = Won[b] => Won' = Won
  <1>1. \A d \in Battles \ {b} : Won'[d] = Won[d]
    BY WonIs
  <1>2. Won = [d \in Battles |-> Won[d]] /\ Won' = [d \in Battles |-> Won'[d]]
    BY DEF Won
  <1> QED BY <1>1, <1>2

LEMMA ReadLeftPlays ==
  ASSUME IInv, Played, NEW b \in Battles, ReadLeft(b)
  PROVE  Played' /\ Won' = Won
  <1> DEFINE p == Left[b]
             s == Head(up[p])
  <1>1. /\ pc[b] = "readLeft" /\ up[p] # <<>> /\ pc' = [pc EXCEPT ![b] = "readRight"]
        /\ stat' = [stat EXCEPT ![b].left = s] /\ up' = [up EXCEPT ![p] = Tail(@)]
        /\ UNCHANGED <<entry, status, side, down, fifo, champion, log>>
    BY DEF ReadLeft
  <1>2. /\ b \in Processes /\ p \in Processes \ {b} /\ p \in Children(b) /\ p = Child(b, "left")
        /\ Child(b, "right") \in Processes \ {b, p} /\ Sides = {"left", "right"}
    BY Tree, Kinds DEF Child
  <1>3. /\ pc \in [Processes -> Places] /\ up \in [Processes -> Seq(Statuses)]
        /\ stat \in [Battles -> [Sides -> Statuses]]
    BY DEF IInv, Types
  <1>4. /\ Waits(p) /\ down[p] = <<>> /\ Tail(up[p]) = <<>>
        /\ s = Awaited(b, "left") /\ Fit(s) /\ Healed(s) = s
    BY <1>1, <1>2, ReadIsAwaited
  <1> HIDE DEF s, p
  <1>5. /\ pc'[b] = "readRight" /\ \A q \in Processes \ {b} : pc'[q] = pc[q]
        /\ up'[p] = <<>> /\ \A q \in Processes \ {p} : up'[q] = up[q]
        /\ stat'[b]["left"] = s /\ stat'[b].left = s /\ stat'[b]["right"] = stat[b]["right"]
        /\ \A d \in Battles \ {b} : stat'[d] = stat[d]
    BY <1>1, <1>2, <1>3, <1>4
  <1>6. side[b] = "none" /\ \A x \in Sides : stat[b][x].flag = 0
    BY <1>1 DEF Played, ToItsEnd, Begun
  <1>7. Won[b] = "none" /\ Won'[b] = "none"
    BY <1>1, <1>2, <1>4, <1>5, <1>6, WonIs DEF Fit
  <1>8. \A x \in Sides : Awaited(b, x)' = Awaited(b, x)
    <2>1. Awaited(b, "left")' = s
      BY <1>1, <1>4, <1>5, SameOutcomes DEF Awaited, Fit
    <2>2. Awaited(b, "right")' = Awaited(b, "right")
      BY <1>1, <1>2, <1>5, AwaitedStays
    <2> QED BY <1>2, <1>4, <2>1, <2>2
  <1>9. ToItsEnd(b)'
    <2>1. [x \in Sides |-> Awaited(b, x)]' = [x \in Sides |-> Awaited(b, x)]
      BY <1>8
    <2>2. Duel(entry, b)' = Duel(entry, b) /\ Outcomes' = Outcomes
      BY <1>1, SameOutcomes
    <2>3. \A x \in Sides : stat'[b][x].flag = 0
      BY <1>2, <1>4, <1>5, <1>6 DEF Fit
    <2>4. stat'[b].left.flag = 0
      BY <1>4, <1>5 DEF Fit
    <2>5. Duel(entry, b)[[x \in Sides |-> Awaited(b, x)]] = Outcomes[b]
      BY <1>7 DEF Played, ToItsEnd
    <2>6. ~Begun(b)' /\ pc'[b] # "relayUp" /\ side'[b] = "none"
      BY <1>1, <1>5, <1>6 DEF Begun
    <2> QED BY <1>7, <2>1, <2>2, <2>3, <2>4, <2>5, <2>6 DEF ToItsEnd
  <1>10. WonStays(b)
    BY <1>7 DEF WonStays
  <1>11. \A x \in Sides : Told(b, x)'
    <2>1. Told(b, "left")'
      BY <1>1, <1>2, <1>4, <1>5, BelowWaits DEF Fit
    <2>2. Told(b, "right")'
      BY <1>1, <1>2, <1>5, <1>10, BelowAsBefore
    <2> QED BY <1>2, <2>1, <2>2
  <1>12. \A c \in Battles, y \in Sides : Child(c, y) = b => Told(c, y)'
    <2>1. ~Waits(b) /\ ~Sends(b)' /\ ~Begun(b)
      BY <1>1, <1>5 DEF Waits, Sends, Begun
    <2> QED BY <1>1, <1>2, <1>5, <1>10, <2>1, AboveAsBefore
  <1>13. Announced'
    BY <1>1, <1>5, Kinds DEF Played, Announced
  <1>14. Won' = Won
    BY <1>1, <1>5, <1>7, WonBut
  <1> QED BY <1>1, <1>2, <1>5, <1>9, <1>10, <1>11, <1>12, <1>13, <1>14, BattleStepPlays

\* A battle whose place is before the end of its rounds, and what it has read.
LEMMA InRounds ==
  ASSUME IInv, Played, NEW b \in Battles, pc[b] \in {"writeLeft", "writeRight", "reap"}
  PROVE  /\ side[b] = "none" /\ Fought(b, stat[b]) /\ ~Begun(b)
         /\ \A x \in Sides : stat[b][x].battle = b /\ stat[b][x].flag = stat[b].left.flag
         /\ stat[b].left.flag = 1 => Won[b] = WinningSide(stat[b]) /\ Won[b] # "none"
         /\ stat[b].left.flag = 1 => stat[b] = Outcomes[b]
         /\ stat[b].left.flag # 1 => Won[b] = "none"
  <1>1. ~Begun(b)
    BY DEF Begun
  <1>2. Fought(b, stat[b]) /\ ToItsEnd(b)
    BY DEF IInv, Everyone, BattleIsRight, Played
  <1>3. side[b] = "none" /\ (stat[b].left.flag = 1 => stat[b] = Outcomes[b])
    BY <1>1, <1>2 DEF ToItsEnd
  <1> QED BY <1>1, <1>2, <1>3, WonIs DEF Fought, Sides

\* The round is fought: either it was the last, or the next ones lead to the
\* same outcome.
LEMMA ReadRightPlays ==
  ASSUME IInv, Played, NEW b \in Battles, ReadRight(b)
  PROVE  /\ Played'
         /\ \/ Won' = Won
            \/ Won[b] = "none" /\ Won' = [Won EXCEPT ![b] = WinningSide(Outcomes[b])]
  <1> DEFINE p == Right[b]
             s == Head(up[p])
             l == stat[b].left
             out == Round(entry, b, l, s)
             f == [x \in Sides |-> Awaited(b, x)]
  <1>1. /\ pc[b] = "readRight" /\ up[p] # <<>> /\ pc' = [pc EXCEPT ![b] = "writeLeft"]
        /\ stat' = [stat EXCEPT ![b] = out] /\ up' = [up EXCEPT ![p] = Tail(@)]
        /\ UNCHANGED <<entry, status, side, down, fifo, champion, log>>
    BY DEF ReadRight
  <1>2. /\ b \in Processes /\ p \in Processes \ {b} /\ p \in Children(b) /\ p = Child(b, "right")
        /\ Child(b, "left") \in Processes \ {b, p} /\ Sides = {"left", "right"}
    BY Tree, Kinds DEF Child
  <1>3. /\ pc \in [Processes -> Places] /\ up \in [Processes -> Seq(Statuses)]
        /\ stat \in [Battles -> [Sides -> Statuses]] /\ entry \in Entries
    BY DEF IInv, Types
  <1>4. /\ Waits(p) /\ down[p] = <<>> /\ Tail(up[p]) = <<>> /\ s \in Statuses
        /\ s = Awaited(b, "right") /\ Fit(s)
    BY <1>1, <1>2, ReadIsAwaited
  <1>5. l \in Statuses /\ Fit(l) /\ Awaited(b, "left") = l
    <2>1. l \in Statuses /\ Fit(l)
      BY <1>1, <1>2, <1>3 DEF IInv, Everyone, BattleIsRight
    <2> QED BY <2>1 DEF Awaited, Healed, Fit
  <1> HIDE DEF s, p, l
  <1>6. out \in [Sides -> Statuses] /\ Fought(b, out)
    BY <1>3, <1>4, <1>5, RoundIsRight
  <1>7. side[b] = "none" /\ Won[b] = "none" /\ Outcomes[b] = Duel(entry, b)[f]
    <2>1. ToItsEnd(b) /\ ~Begun(b)
      BY <1>1 DEF Played, Begun
    <2>2. side[b] = "none" /\ stat[b].left.flag = 0
      BY <1>1, <1>2, <2>1 DEF ToItsEnd
    <2>3. Won[b] = "none"
      BY <2>2, WonIs
    <2> QED BY <2>1, <2>2, <2>3 DEF ToItsEnd
  <1>8. Outcomes[b] = IF out.left.flag = 1 THEN out ELSE Duel(entry, b)[out]
    <2>1. f \in Fighters /\ f.left = l /\ f.right = s
      BY <1>2, <1>4, <1>5 DEF Fighters, Statuses
    <2> HIDE DEF f
    <2> QED BY <1>3, <1>7, <2>1, DuelIs
  <1> HIDE DEF out, f
  <1>9. /\ pc'[b] = "writeLeft" /\ \A q \in Processes \ {b} : pc'[q] = pc[q]
        /\ up'[p] = <<>> /\ \A q \in Processes \ {p} : up'[q] = up[q]
        /\ stat'[b] = out /\ \A d \in Battles \ {b} : stat'[d] = stat[d]
    BY <1>1, <1>2, <1>3, <1>4
  <1>10. out.left.flag \in {0, 1} /\ (out.left.flag = 1 => Won'[b] # "none")
         /\ (out.left.flag # 1 => Won'[b] = "none")
    <2>1. out.left \in Statuses
      BY <1>2, <1>6
    <2> QED BY <1>1, <1>3, <1>7, <1>9, <2>1, WonIs, StatusIsRight
  <1>11. ToItsEnd(b)'
    <2>1. Duel(entry, b)' = Duel(entry, b) /\ Outcomes' = Outcomes
      BY <1>1, SameOutcomes
    <2>2. ASSUME out.left.flag # 1
          PROVE  [x \in Sides |-> Awaited(b, x)]' = out
      <3>1. \A x \in Sides : out[x].HP > 0 /\ out[x].flag # 1
        BY <1>2, <1>6, <2>2 DEF Fought
      <3>2. \A x \in Sides : Awaited(b, x)' = out[x]
        BY <1>9, <3>1 DEF Awaited, Healed
      <3> QED BY <1>6, <3>2
    <2>3. ~Begun(b)' /\ side'[b] = "none" /\ pc'[b] # "relayUp"
          /\ pc'[b] \notin {"unborn", "start", "readLeft", "readRight"}
      BY <1>1, <1>7, <1>9 DEF Begun
    <2>4. CASE out.left.flag = 1
      <3>1. Outcomes'[b] = out /\ Fought(b, Outcomes[b])'
        BY <1>6, <1>8, <2>1, <2>4 DEF Fought
      <3> QED BY <1>9, <1>10, <2>3, <2>4, <3>1 DEF ToItsEnd
    <2>5. CASE out.left.flag # 1
      <3>1. Duel(entry, b)'[[x \in Sides |-> Awaited(b, x)]'] = Outcomes'[b]
        BY <1>8, <2>1, <2>2, <2>5
      <3> QED BY <1>9, <1>10, <2>3, <2>5, <3>1 DEF ToItsEnd
    <2> QED BY <2>4, <2>5
  <1>12. WonStays(b)
    BY <1>7 DEF WonStays
  <1>13. \A x \in Sides : Told(b, x)'
    <2>1. ASSUME NEW x \in Sides, stat'[b][x].flag = 1
          PROVE  IsOutcome(stat[b][x])'
      <3>1. out[x].battle = b /\ out.left.flag = 1
        BY <1>2, <1>6, <1>9, <2>1 DEF Fought
      <3>2. Won'[b] # "none" /\ Outcomes'[b] = out
        BY <1>1, <1>8, <1>10, <3>1, SameOutcomes
      <3> QED BY <1>9, <3>1, <3>2 DEF IsOutcome
    <2>2. Told(b, "right")'
      BY <1>1, <1>2, <1>4, <1>9, <2>1, BelowWaits
    <2>3. Told(b, "left")'
      <3> DEFINE c == Child(b, "left")
      <3>1. Holds(b, "left") /\ Edge(b, "left")
        BY <1>1, <1>2 DEF Holds, IInv, Edges
      <3>2. Waits(c) /\ up[c] = <<>> /\ down[c] = <<>>
        <4>1. Waits(c)
          BY <3>1 DEF Edge, Turn
        <4> QED BY <3>1, <4>1 DEF Edge, Turn
      <3> HIDE DEF c
      <3>3. c = Child(b, "left") /\ c \in Processes \ {b, p}
        BY <1>2 DEF c
      <3> QED BY <1>1, <1>2, <1>9, <2>1, <3>2, <3>3, BelowWaits
    <2> QED BY <1>2, <2>2, <2>3
  <1>14. \A c \in Battles, y \in Sides : Child(c, y) = b => Told(c, y)'
    <2>1. ~Waits(b) /\ ~Sends(b)' /\ ~Begun(b)
      BY <1>1, <1>9 DEF Waits, Sends, Begun
    <2> QED BY <1>1, <1>2, <1>9, <1>12, <2>1, AboveAsBefore
  <1>15. Announced'
    BY <1>1, <1>9, Kinds DEF Played, Announced
  <1>16. \/ Won' = Won
         \/ Won[b] = "none" /\ Won' = [Won EXCEPT ![b] = WinningSide(Outcomes[b])]
    <2>1. CASE out.left.flag = 1
      <3>1. Won'[b] = WinningSide(Outcomes[b])
        BY <1>1, <1>7, <1>8, <1>9, <2>1, WonIs
      <3> QED BY <1>1, <1>7, <1>9, <3>1, WonBut
    <2>2. CASE out.left.flag # 1
      BY <1>1, <1>7, <1>9, <1>10, <2>2, WonBut
    <2> QED BY <2>1, <2>2
  <1>17. Played'
    BY <1>1, <1>2, <1>9, <1>11, <1>12, <1>13, <1>14, <1>15, BattleStepPlays
  <1> QED BY <1>16, <1>17

\* A battle answers to a side after a round.
LEMMA WritePlays ==
  ASSUME IInv, Played, NEW b \in Battles, NEW x \in Sides, Holds(b, x),
         pc[b] \in {"writeLeft", "writeRight"}, NEW place \in {"writeRight", "readLeft", "reap"},
         place = "readLeft" => stat[b].left.flag # 1,
         pc' = [pc EXCEPT ![b] = place], NEW p, p = Child(b, x),
         down' = [down EXCEPT ![p] = Append(@, stat[b][x])],
         UNCHANGED <<entry, status, stat, side, up, fifo, champion, log>>
  PROVE  Played'
  <1>1. /\ b \in Processes /\ p \in Processes \ {b} /\ p \in Children(b)
        /\ \A y \in Sides \ {x} : Child(b, y) \in Processes \ {b, p}
    BY Tree, Kinds
  <1>2. /\ pc \in [Processes -> Places] /\ down \in [Processes -> Seq(Statuses)]
        /\ stat[b][x] \in Statuses /\ entry \in Entries
    BY DEF IInv, Types
  <1>3. Waits(p) /\ up[p] = <<>> /\ down[p] = <<>>
    <2>1. Edge(b, x)
      BY DEF IInv, Edges
    <2>2. Waits(p)
      BY <2>1 DEF Edge, Turn
    <2> QED BY <2>1, <2>2 DEF Edge, Turn
  <1>4. /\ pc'[b] = place /\ \A q \in Processes \ {b} : pc'[q] = pc[q]
        /\ Head(down'[p]) = stat[b][x] /\ \A q \in Processes \ {p} : down'[q] = down[q]
    BY <1>1, <1>2, <1>3, Pipe
  <1>5. /\ side[b] = "none" /\ ~Begun(b)
        /\ \A y \in Sides : stat[b][y].battle = b /\ stat[b][y].flag = stat[b].left.flag
        /\ stat[b].left.flag = 1 => Won[b] # "none" /\ stat[b] = Outcomes[b]
    BY InRounds
  <1>6. stat[b].left.flag \in {0, 1}
    BY <1>2, StatusIsRight, Kinds DEF IInv, Types
  <1>7. ToItsEnd(b)' /\ WonStays(b)
    <2>1. ~Begun(b)'
      BY <1>4 DEF Begun
    <2>2. ToItsEnd(b) /\ pc'[b] # "relayUp"
      BY <1>4 DEF Played
    <2>3. pc'[b] \in {"unborn", "start", "readLeft", "readRight"} =>
            \A y \in Sides : stat[b][y].flag = 0
      BY <1>4, <1>5, <1>6
    <2> QED BY <1>5, <2>1, <2>2, <2>3, ToItsEndMoves
  <1>8. \A y \in Sides : Told(b, y)'
    <2>1. Told(b, x)'
      <3>1. stat'[b][x].flag = 1 => IsOutcome(stat[b][x])'
        BY <1>5, <1>7, SameOutcomes DEF IsOutcome, WonStays
      <3> QED BY <1>1, <1>3, <1>4, <3>1, BelowWaits
    <2>2. ASSUME NEW y \in Sides, y # x
          PROVE  Told(b, y)'
      BY <1>1, <1>4, <1>7, <2>2, BelowAsBefore
    <2> QED BY <2>1, <2>2
  <1>9. \A c \in Battles, y \in Sides : Child(c, y) = b => Told(c, y)'
    <2>1. ~Waits(b) /\ ~Sends(b)'
      BY <1>1, <1>4, Kinds DEF Waits, Sends
    <2> QED BY <1>1, <1>4, <1>5, <1>7, <2>1, AboveAsBefore
  <1>10. Announced'
    BY <1>4, Kinds DEF Played, Announced
  <1> QED BY <1>1, <1>4, <1>7, <1>8, <1>9, <1>10, BattleStepPlays

LEMMA WriteLeftPlays ==
  ASSUME IInv, Played, NEW b \in Battles, WriteLeft(b)
  PROVE  Played'
  <1>1. Left[b] = Child(b, "left") /\ "left" \in Sides /\ Holds(b, "left")
    BY DEF Child, Sides, Holds, WriteLeft
  <1> QED BY <1>1, WritePlays DEF WriteLeft

LEMMA WriteRightPlays ==
  ASSUME IInv, Played, NEW b \in Battles, WriteRight(b)
  PROVE  Played'
  <1>1. Right[b] = Child(b, "right") /\ "right" \in Sides /\ Holds(b, "right")
    BY DEF Child, Sides, Holds, WriteRight
  <1>2. CASE stat[b].left.flag # 1
    BY <1>1, <1>2, WritePlays DEF WriteRight
  <1>3. CASE stat[b].left.flag = 1
    BY <1>1, <1>3, WritePlays DEF WriteRight
  <1> QED BY <1>2, <1>3

\* A decided battle turns to its winner, and enters the next battle with it.
LEMMA ReapPlays ==
  ASSUME IInv, Played, NEW b \in Battles, Reap(b)
  PROVE  Played' /\ Won' = Won
  <1> DEFINE w == WinningSide(stat[b])
  <1>1. /\ pc[b] = "reap" /\ side' = [side EXCEPT ![b] = w]
        /\ IF b = Root
           THEN /\ champion' = Append(champion, stat[b][w].id)
                /\ pc' = [pc EXCEPT ![b] = "reapLast"]
           ELSE /\ pc' = [pc EXCEPT ![b] = IF stat[b][w].HP > 0 THEN "relayUp" ELSE "reapLast"]
                /\ UNCHANGED champion
        /\ UNCHANGED <<entry, status, stat, up, down, fifo, log>>
    BY DEF Reap, pipes
  <1>2. /\ b \in Processes /\ pc \in [Processes -> Places]
        /\ side \in [Battles -> Sides \cup {"none"}] /\ entry \in Entries
    BY Kinds DEF IInv, Types
  <1>3. stat[b].left.flag = 1 /\ Fought(b, stat[b])
    BY <1>1 DEF IInv, Everyone, BattleIsRight
  <1>4. /\ side[b] = "none" /\ ~Begun(b) /\ Won[b] = w /\ Won[b] # "none"
        /\ stat[b] = Outcomes[b] /\ ToItsEnd(b)
    BY <1>1, <1>3, InRounds DEF Played
  <1>5. w \in Sides /\ w # "none" /\ stat[b][w].HP > 0
    <2>1. stat[b].left.HP \in Int /\ stat[b].right.HP \in Int
      BY <1>2, StatusIsRight, Kinds DEF IInv, Types
    <2> QED BY <1>3, <2>1 DEF WinningSide, Fought, Sides
  <1> HIDE DEF w
  <1>6. /\ side'[b] = w /\ \A d \in Battles \ {b} : side'[d] = side[d]
        /\ pc'[b] = IF b = Root THEN "reapLast" ELSE "relayUp"
        /\ \A q \in Processes \ {b} : pc'[q] = pc[q]
    BY <1>1, <1>2, <1>5
  <1>7. Won'[b] = Won[b] /\ Won'[b] # "none" /\ WonStays(b)
    BY <1>4, <1>5, <1>6, WonIs DEF WonStays
  <1>8. Won' = Won
    <2>1. \A d \in Battles : Won'[d] = Won[d]
      BY <1>1, <1>6, <1>7, WonIs
    <2>2. Won = [d \in Battles |-> Won[d]] /\ Won' = [d \in Battles |-> Won'[d]]
      BY DEF Won
    <2> QED BY <2>1, <2>2
  <1>9. ToItsEnd(b)'
    <2>1. Begun(b)'
      BY <1>6 DEF Begun
    <2>2. Outcomes' = Outcomes /\ side'[b] = WinningSide(Outcomes[b])
      BY <1>1, <1>4, <1>6, SameOutcomes DEF w
    <2>3. Fought(b, Outcomes[b])' /\ Outcomes'[b].left.flag = 1
      BY <1>3, <1>4, <2>2 DEF Fought
    <2>4. pc'[b] \notin {"unborn", "start", "readLeft", "readRight"}
      BY <1>6
    <2>5. stat'[b][side'[b]].HP > 0
      BY <1>1, <1>5, <1>6
    <2> QED BY <1>5, <1>6, <1>7, <2>1, <2>2, <2>3, <2>4, <2>5 DEF ToItsEnd
  <1>10. \A x \in Sides : Told(b, x)'
    BY <1>1, <1>6, <1>7, BelowAsBefore
  <1>11. ASSUME NEW c \in Battles, NEW y \in Sides, Child(c, y) = b
         PROVE  Told(c, y)'
    <2>1. Edge(c, y) /\ Told(c, y) /\ c # b /\ b # Root /\ Child(c, y)' = b
      BY <1>11, Tree DEF IInv, Edges, Played, Child
    <2>2. up[b] = <<>> /\ down[b] = <<>>
      BY <1>1, <1>11, <2>1 DEF Edge, Turn, Waits
    <2>3. Awaited(c, y)' = Entrant(entry, Outcomes, b)
      <3>1. ~(stat[c][y].HP > 0)
        <4>1. stat[c][y].HP \in Int
          BY <1>2, StatusIsRight DEF IInv, Types
        <4>2. stat[c][y].HP <= 0
          BY <1>4, <1>11, <2>1 DEF Told
        <4> QED BY <4>1, <4>2
      <3>2. Awaited(c, y)' = Awaited(c, y)
        BY <1>1, AwaitedStays
      <3> QED BY <1>11, <3>1, <3>2 DEF Awaited
    <2>4. Message(b)' = Entrant(entry, Outcomes, b)
      <3>1. Message(b)' = Healed(stat[b][w])
        BY <1>1, <1>6, Kinds, SameOutcomes DEF Message
      <3>2. stat[b][w].flag = 1
        BY <1>3, <1>5 DEF Fought, Sides
      <3> QED BY <1>2, <1>4, <3>1, <3>2, EntrantIs DEF Healed, w
    <2>5. Begun(b)' /\ up'[b] = <<>> /\ down'[b] = <<>>
      BY <1>1, <1>6, <2>2 DEF Begun
    <2>6. stat'[c][y].flag = 1 => IsOutcome(stat[c][y])'
      BY <1>1, <1>8, <2>1, SameOutcomes DEF Told, IsOutcome
    <2> QED BY <2>1, <2>3, <2>4, <2>5, <2>6 DEF Told
  <1>12. Announced'
    <2>1. CASE b = Root
      <3>1. champion = <<>>
        BY <1>1, <2>1 DEF Played, Announced
      <3>2. Champion(entry)' = stat[b][w].id
        BY <1>1, <1>4, <2>1 DEF Champion, Outcomes, w
      <3> QED BY <1>1, <1>6, <2>1, <3>1, <3>2 DEF Announced
    <2>2. CASE b # Root
      BY <1>1, <1>6, <2>2, Kinds DEF Played, Announced
    <2> QED BY <2>1, <2>2
  <1> QED BY <1>1, <1>6, <1>7, <1>8, <1>9, <1>10, <1>11, <1>12, BattleStepPlays

\* A battle in passing mode, and the edge above it.
LEMMA Relaying ==
  ASSUME IInv, Played, NEW b \in Battles, pc[b] \in {"relayUp", "relayDown"}
  PROVE  /\ b # Root /\ side[b] \in Sides /\ side[b] # "none" /\ Begun(b) /\ ToItsEnd(b)
         /\ \E c \in Battles, y \in Sides :
              Child(c, y) = b /\ c # b /\ Edge(c, y) /\ Told(c, y)
  <1>1. b # Root /\ side[b] \in Sides /\ side[b] # "none"
    BY Kinds DEF IInv, Everyone, BattleIsRight
  <1>2. PICK c \in Battles, y \in Sides : Child(c, y) = b
    BY <1>1, Tree, Kinds
  <1>3. Begun(b)
    BY DEF Begun
  <1> QED BY <1>1, <1>2, <1>3, Tree DEF IInv, Edges, Played

\* What such a battle passes on does not change who has won what.
LEMMA RelayStays ==
  ASSUME IInv, Played, NEW b \in Battles, pc[b] \in {"relayUp", "relayDown"},
         UNCHANGED <<entry, side>>, \A d \in Battles \ {b} : stat'[d] = stat[d],
         Begun(b)', pc'[b] \notin {"unborn", "start", "readLeft", "readRight"},
         pc'[b] = "relayUp" => stat'[b][side[b]].HP > 0
  PROVE  ToItsEnd(b)' /\ Won' = Won
  <1>1. /\ side[b] # "none" /\ Begun(b) /\ ToItsEnd(b)
    BY Relaying
  <1>2. \A d \in Battles : Won'[d] = Won[d]
    BY <1>1, WonIs
  <1>3. Won' = Won
    <2>1. Won = [d \in Battles |-> Won[d]] /\ Won' = [d \in Battles |-> Won'[d]]
      BY DEF Won
    <2> QED BY <1>2, <2>1
  <1>4. Won[b] # "none"
    BY <1>1, WonIs
  <1>5. Outcomes' = Outcomes
    BY SameOutcomes
  <1>6. Fought(b, Outcomes[b])' <=> Fought(b, Outcomes[b])
    BY <1>5 DEF Fought
  <1> QED BY <1>1, <1>3, <1>4, <1>5, <1>6 DEF ToItsEnd

LEMMA RelayUpPlays ==
  ASSUME IInv, Played, NEW b \in Battles, RelayUp(b)
  PROVE  Played' /\ Won' = Won
  <1>1. pc[b] = "relayUp" /\ up[Child(b, side[b])] # <<>>
    BY DEF RelayUp
  <1>2. /\ b # Root /\ side[b] \in Sides /\ side[b] # "none" /\ Begun(b) /\ ToItsEnd(b)
    BY <1>1, Relaying
  <1>3. PICK c \in Battles, y \in Sides : Child(c, y) = b /\ c # b /\ Edge(c, y) /\ Told(c, y)
    BY <1>1, Relaying
  <1>4. PICK x \in Sides : x = side[b]
    BY <1>2
  <1>5. PICK p \in Processes : p = Child(b, x)
    BY Tree
  <1> DEFINE s == Head(up[p])
  <1>6. /\ stat' = [stat EXCEPT ![b][x] = s]
        /\ up' = [up EXCEPT ![p] = Tail(@), ![b] = Append(@, s)]
        /\ pc' = [pc EXCEPT ![b] = "relayDown"]
        /\ UNCHANGED <<entry, status, side, down, fifo, champion, log>>
    BY <1>4, <1>5 DEF RelayUp
  <1>7. /\ b \in Processes /\ p \in Processes \ {b} /\ p \in Children(b)
        /\ \A z \in Sides \ {x} : Child(b, z) \in Processes \ {b, p}
    BY <1>5, Tree, Kinds
  <1>8. /\ pc \in [Processes -> Places] /\ up \in [Processes -> Seq(Statuses)]
        /\ stat \in [Battles -> [Sides -> Statuses]] /\ entry \in Entries
    BY DEF IInv, Types
  <1>9. /\ Waits(p) /\ down[p] = <<>> /\ Tail(up[p]) = <<>>
        /\ s = Awaited(b, x) /\ Fit(s) /\ s \in Statuses /\ Healed(s) = s
    BY <1>1, <1>4, <1>5, ReadIsAwaited
  <1> HIDE DEF s
  <1>10. up[b] = <<>> /\ down[b] = <<>>
    BY <1>1, <1>3 DEF Edge, Turn, Waits
  <1>11. /\ pc'[b] = "relayDown" /\ \A q \in Processes \ {b} : pc'[q] = pc[q]
         /\ up'[p] = <<>> /\ up'[b] = Append(up[b], s)
         /\ \A q \in Processes \ {p, b} : up'[q] = up[q]
         /\ stat'[b][x] = s /\ \A z \in Sides \ {x} : stat'[b][z] = stat[b][z]
         /\ \A d \in Battles \ {b} : stat'[d] = stat[d]
    BY <1>6, <1>7, <1>8, <1>9
  <1>12. Head(up'[b]) = s /\ down'[b] = <<>>
    BY <1>6, <1>7, <1>8, <1>9, <1>10, <1>11, Pipe
  <1>13. ToItsEnd(b)' /\ Won' = Won
    <2>1. Begun(b)' /\ pc'[b] \notin {"unborn", "start", "readLeft", "readRight", "relayUp"}
      BY <1>11 DEF Begun
    <2> QED BY <1>1, <1>6, <1>11, <2>1, RelayStays
  <1>14. WonStays(b)
    BY <1>13 DEF WonStays
  <1>15. \A z \in Sides : Told(b, z)'
    <2>1. Told(b, x)'
      <3>1. down'[p] = <<>> /\ stat'[b][x].flag # 1
        BY <1>6, <1>9, <1>11 DEF Fit
      <3> QED BY <1>5, <1>7, <1>9, <1>11, <3>1, BelowWaits
    <2>2. ASSUME NEW z \in Sides, z # x
          PROVE  Told(b, z)'
      BY <1>6, <1>7, <1>11, <1>14, <2>2, BelowAsBefore
    <2> QED BY <2>1, <2>2
  <1>16. Told(c, y)'
    <2>1. Message(b) = s /\ Message(b) = Awaited(c, y)
      <3>1. stat[b][x].HP > 0
        BY <1>1, <1>2, <1>4 DEF ToItsEnd
      <3>2. Message(b) = Healed(stat[b][x])
        BY <1>4, Kinds DEF Message
      <3>3. Sends(b)
        BY <1>1 DEF Sends
      <3> QED BY <1>3, <1>9, <3>1, <3>2, <3>3 DEF Told, Awaited
    <2>2. Message(b)' = s
      <3>1. Message(b)' = Healed(s)
        BY <1>4, <1>6, <1>11, Kinds, SameOutcomes DEF Message
      <3> QED BY <1>9, <3>1
    <2>3. Awaited(c, y)' = Awaited(c, y)
      BY <1>3, <1>6, <1>11, AwaitedStays
    <2>4. stat'[c][y].flag = 1 => IsOutcome(stat[c][y])'
      BY <1>3, <1>6, <1>11, <1>13, SameOutcomes DEF Told, IsOutcome
    <2>5. Begun(b)' /\ Child(c, y)' = b
      BY <1>3, <1>11 DEF Begun, Child
    <2> QED BY <1>12, <2>1, <2>2, <2>3, <2>4, <2>5 DEF Told
  <1>17. \A d \in Battles, z \in Sides : Child(d, z) = b => Told(d, z)'
    BY <1>3, <1>16, Tree
  <1>18. Announced'
    BY <1>2, <1>6, <1>11, Kinds DEF Played, Announced
  <1> QED BY <1>6, <1>7, <1>11, <1>13, <1>14, <1>15, <1>17, <1>18, BattleStepPlays

LEMMA RelayDownPlays ==
  ASSUME IInv, Played, NEW b \in Battles, RelayDown(b)
  PROVE  Played' /\ Won' = Won
  <1>1. pc[b] = "relayDown" /\ down[b] # <<>>
    BY DEF RelayDown
  <1>2. /\ b # Root /\ side[b] \in Sides /\ side[b] # "none" /\ Begun(b) /\ ToItsEnd(b)
    BY <1>1, Relaying
  <1>3. PICK c \in Battles, y \in Sides : Child(c, y) = b /\ c # b /\ Edge(c, y) /\ Told(c, y)
    BY <1>1, Relaying
  <1>4. PICK x \in Sides : x = side[b]
    BY <1>2
  <1>5. PICK p \in Processes : p = Child(b, x)
    BY Tree
  <1>6. PICK s \in Statuses : s = stat[c][y]
    BY DEF IInv, Types
  <1>7. s = Head(down[b]) /\ up[b] = <<>> /\ Tail(down[b]) = <<>>
    <2>1. up[b] = <<>> /\ Len(down[b]) = 1
      BY <1>1, <1>3 DEF Edge, Turn, Waits
    <2>2. down[b] \in Seq(Statuses)
      BY Kinds DEF IInv, Types
    <2> QED BY <1>1, <1>3, <1>6, <2>1, <2>2, Pipe DEF Told
  <1> DEFINE place == IF StaysInRelay(s) THEN "relayUp" ELSE "reapLast"
  <1>8. /\ stat' = [stat EXCEPT ![b][x] = s]
        /\ down' = [down EXCEPT ![b] = Tail(@), ![p] = Append(@, s)]
        /\ pc' = [pc EXCEPT ![b] = place]
        /\ UNCHANGED <<entry, status, side, up, fifo, champion, log>>
    BY <1>4, <1>5, <1>7 DEF RelayDown
  <1>9. (place = "relayUp" /\ s.HP > 0) \/ place = "reapLast"
    BY DEF StaysInRelay
  <1> HIDE DEF place
  <1>10. /\ b \in Processes /\ p \in Processes \ {b} /\ p \in Children(b)
         /\ \A z \in Sides \ {x} : Child(b, z) \in Processes \ {b, p}
    BY <1>5, Tree, Kinds
  <1>11. /\ pc \in [Processes -> Places] /\ down \in [Processes -> Seq(Statuses)]
         /\ stat \in [Battles -> [Sides -> Statuses]] /\ entry \in Entries
    BY DEF IInv, Types
  <1>12. Waits(p) /\ up[p] = <<>> /\ down[p] = <<>>
    <2>1. Edge(b, x) /\ Holds(b, x)
      BY <1>1, <1>4 DEF IInv, Edges, Holds
    <2>2. Waits(p)
      BY <1>5, <2>1 DEF Edge, Turn
    <2> QED BY <1>5, <2>1, <2>2 DEF Edge, Turn
  <1>13. /\ pc'[b] = place /\ \A q \in Processes \ {b} : pc'[q] = pc[q]
         /\ down'[p] = Append(down[p], s) /\ down'[b] = <<>>
         /\ \A q \in Processes \ {p, b} : down'[q] = down[q]
         /\ stat'[b][x] = s /\ \A z \in Sides \ {x} : stat'[b][z] = stat[b][z]
         /\ \A d \in Battles \ {b} : stat'[d] = stat[d]
    BY <1>7, <1>8, <1>10, <1>11
  <1>14. ToItsEnd(b)' /\ Won' = Won
    <2>1. Begun(b)' /\ pc'[b] \notin {"unborn", "start", "readLeft", "readRight"}
      BY <1>9, <1>13 DEF Begun
    <2>2. pc'[b] = "relayUp" => stat'[b][side[b]].HP > 0
      BY <1>4, <1>9, <1>13
    <2> QED BY <1>1, <1>8, <1>13, <2>1, <2>2, RelayStays
  <1>15. WonStays(b)
    BY <1>14 DEF WonStays
  <1>16. s.flag = 1 => IsOutcome(s) /\ IsOutcome(s)'
    <2>1. s.flag = 1 => IsOutcome(s)
      BY <1>3, <1>6 DEF Told
    <2>2. Outcomes' = Outcomes
      BY <1>8, SameOutcomes
    <2> QED BY <1>14, <2>1, <2>2 DEF IsOutcome
  <1>17. \A z \in Sides : Told(b, z)'
    <2>1. Told(b, x)'
      <3>1. Head(down'[p]) = stat'[b][x]
        BY <1>10, <1>11, <1>12, <1>13, Pipe
      <3>2. stat'[b][x].flag = 1 => IsOutcome(stat[b][x])'
        BY <1>13, <1>16 DEF IsOutcome
      <3>3. Waits(p) /\ up'[p] = <<>> /\ pc'[p] = pc[p]
        BY <1>8, <1>10, <1>12, <1>13
      <3> QED BY <1>5, <3>1, <3>2, <3>3, BelowWaits
    <2>2. ASSUME NEW z \in Sides, z # x
          PROVE  Told(b, z)'
      BY <1>8, <1>10, <1>13, <1>15, <2>2, BelowAsBefore
    <2> QED BY <2>1, <2>2
  <1>18. Told(c, y)'
    <2>1. up'[b] = <<>> /\ down'[b] = <<>> /\ Begun(b)' /\ Child(c, y)' = b
      BY <1>3, <1>7, <1>8, <1>9, <1>13 DEF Begun, Child
    <2>2. stat'[c][y] = s
      BY <1>3, <1>6, <1>13
    <2>3. stat'[c][y].flag = 1 => IsOutcome(stat[c][y])'
      BY <1>16, <2>2 DEF IsOutcome
    <2>4. Sends(b)' => Message(b)' = Awaited(c, y)'
      <3>1. Sends(b)' => s.HP > 0
        BY <1>9, <1>13, <2>1 DEF Sends, Waits
      <3>2. s.HP > 0 => Awaited(c, y)' = Healed(s)
        BY <1>8, <2>2, SameOutcomes DEF Awaited
      <3>3. Message(b)' = Healed(s)
        BY <1>4, <1>8, <1>13, Kinds, SameOutcomes DEF Message
      <3> QED BY <3>1, <3>2, <3>3
    <2> QED BY <2>1, <2>3, <2>4 DEF Told
  <1>19. \A d \in Battles, z \in Sides : Child(d, z) = b => Told(d, z)'
    BY <1>3, <1>18, Tree
  <1>20. Announced'
    BY <1>2, <1>8, <1>13, Kinds DEF Played, Announced
  <1> QED BY <1>8, <1>10, <1>13, <1>14, <1>15, <1>17, <1>19, <1>20, BattleStepPlays

LEMMA ReapLastPlays ==
  ASSUME IInv, Played, NEW b \in Battles, ReapLast(b)
  PROVE  Played'
  <1>1. /\ pc[b] = "reapLast" /\ pc' = [pc EXCEPT ![b] = "exited"]
        /\ UNCHANGED <<entry, status, stat, side, up, down, fifo, champion, log>>
    BY DEF ReapLast, pipes
  <1>2. b \in Processes /\ pc \in [Processes -> Places]
    BY Kinds DEF IInv, Types
  <1>3. pc'[b] = "exited" /\ \A q \in Processes \ {b} : pc'[q] = pc[q]
    BY <1>1, <1>2
  <1>4. Begun(b) /\ Begun(b)' /\ ~Waits(b) /\ ~Sends(b)'
    BY <1>1, <1>3 DEF Begun, Waits, Sends
  <1>5. ToItsEnd(b)' /\ WonStays(b)
    BY <1>1, <1>3, <1>4, ToItsEndMoves DEF Played
  <1>6. \A x \in Sides : Told(b, x)'
    BY <1>1, <1>3, <1>5, BelowAsBefore
  <1>7. \A c \in Battles, y \in Sides : Child(c, y) = b => Told(c, y)'
    BY <1>1, <1>3, <1>4, <1>5, AboveAsBefore
  <1>8. Announced'
    BY <1>1, <1>3, Kinds DEF Played, Announced
  <1> QED BY <1>1, <1>3, <1>5, <1>6, <1>7, <1>8, BattleStepPlays

\* A battle forks its sides: a player begins, a battle or an agent does not yet.
LEMMA StartPlays ==
  ASSUME IInv, Played, NEW b \in Battles, Start(b)
  PROVE  Played'
  <1>1. /\ pc[b] = "start"
        /\ pc' = [p \in Processes |->
                    IF p = b THEN "readLeft"
                    ELSE IF p \notin Children(b) THEN pc[p]
                    ELSE IF p \in Battles THEN "start"
                    ELSE IF p \in RealPlayers THEN "report" ELSE "open"]
        /\ UNCHANGED <<entry, status, stat, side, up, down, fifo, champion, log>>
    BY DEF Start, pipes
  <1>2. Edges
    BY DEF IInv
  <1>3. /\ b \in Processes /\ b \notin Children(b)
        /\ \A p \in Children(b) : p \in Processes \ {Root} /\ \E x \in Sides : p = Child(b, x)
    BY Tree, Kinds
  <1>4. \A p \in Children(b) : pc[p] = "unborn"
    BY <1>1, <1>2, <1>3 DEF Edges, Edge, Family
  <1>5. /\ pc'[b] = "readLeft"
        /\ \A p \in Processes : p # b /\ p \notin Children(b) => pc'[p] = pc[p]
        /\ \A p \in Children(b) : /\ p \in Battles => pc'[p] = "start"
                                  /\ p \in RealPlayers => pc'[p] = "report"
                                  /\ p \in Agents => pc'[p] = "open"
    BY <1>1, <1>3, Kinds
  <1>6. \A d \in Battles : WonStays(d)
    BY <1>1, WonIs DEF WonStays
  <1>7. ASSUME NEW d \in Battles
        PROVE  ToItsEnd(d)'
    <2>1. ToItsEnd(d) /\ d \in Processes
      BY Kinds DEF Played
    <2>2. CASE d = b \/ d \in Children(b)
      <3>1. pc[d] \in {"unborn", "start"} /\ pc'[d] \in {"start", "readLeft"}
        BY <1>1, <1>4, <1>5, <2>2
      <3>2. ~Begun(d) /\ ~Begun(d)' /\ pc'[d] # "relayUp"
        BY <3>1 DEF Begun
      <3>3. \A x \in Sides : stat[d][x].flag = 0
        BY <2>1, <3>1 DEF ToItsEnd
      <3> QED BY <1>1, <2>1, <3>2, <3>3, ToItsEndMoves
    <2>3. CASE d # b /\ d \notin Children(b)
      BY <1>1, <1>5, <2>1, <2>3, ToItsEndStays
    <2> QED BY <2>2, <2>3
  <1>8. ASSUME NEW c \in Battles, NEW y \in Sides
        PROVE  Told(c, y)'
    <2>1. PICK p \in Processes \ {Root} : p = Child(c, y)
      BY Tree
    <2>2. Told(c, y) /\ Edge(c, y) /\ Message(p)' = Message(p)
      BY <1>1, <1>2, SameOutcomes DEF Played, Edges, Message
    <2>3. CASE p \in RealPlayers /\ p \in Children(b)
      <3>1. ~Begun(p) /\ ~Waits(p)
        BY <1>4, <2>3 DEF Begun, Waits
      <3>2. up'[p] = <<>> /\ down'[p] = <<>>
        BY <1>1, <2>1, <2>2, <3>1 DEF Edge, Turn
      <3>3. stat[c][y].HP <= 0 /\ stat[c][y].HP \in Int
        BY <2>1, <2>2, <3>1, StatusIsRight DEF Told, IInv, Types
      <3>4. Awaited(c, y)' = Entrant(entry, Outcomes, p)
        <4>1. Awaited(c, y) = Entrant(entry, Outcomes, p)
          BY <2>1, <3>3 DEF Awaited
        <4> QED BY <1>1, <4>1, AwaitedStays
      <3>5. Message(p) = Fresh(entry, p)
        <4>1. HandsOver(p)
          BY <2>3 DEF Played, HandsOn
        <4> QED BY <1>4, <2>3, <4>1, Kinds DEF HandsOver, Message
      <3>6. Begun(p)' /\ Child(c, y)' = p
        BY <1>5, <2>1, <2>3 DEF Begun, Child
      <3>7. stat'[c][y].flag = 1 => IsOutcome(stat[c][y])'
        <4>1. Won' = Won
          BY <1>1 DEF Won
        <4> QED BY <1>1, <2>2, <4>1, SameOutcomes DEF Told, IsOutcome
      <3> QED BY <2>2, <2>3, <3>2, <3>4, <3>5, <3>6, <3>7, EntrantIs DEF Told
    <2>4. CASE p \notin RealPlayers /\ p \in Children(b)
      <3>1. pc[p] = "unborn" /\ pc'[p] \in {"start", "open"}
        BY <1>4, <1>5, <2>4, Kinds
      <3>2. ~Begun(p) /\ ~Waits(p) /\ ~Sends(p)'
        BY <3>1 DEF Begun, Waits, Sends
      <3> QED BY <1>1, <1>6, <2>1, <2>2, <3>2, ToldStays
    <2>5. CASE p = b
      <3>1. ~Begun(p) /\ ~Sends(p)'
        BY <1>1, <1>5, <2>5 DEF Begun, Waits, Sends
      <3> QED BY <1>1, <1>6, <2>1, <2>2, <3>1, ToldStays
    <2>6. CASE p # b /\ p \notin Children(b)
      <3>1. (Sends(p)' <=> Sends(p)) /\ (Begun(p)' <=> Begun(p))
        BY <1>1, <1>5, <2>6 DEF Begun, Waits, Sends
      <3> QED BY <1>1, <1>6, <2>1, <2>2, <3>1, ToldStays
    <2> QED BY <2>3, <2>4, <2>5, <2>6
  <1>9. HandsOn'
    <2>1. ASSUME NEW p \in Players
          PROVE  /\ pc'[p] = pc[p] \/ p \in Children(b)
                 /\ p \in Children(b) => pc[p] = "unborn"
      <3>1. p \in Processes /\ p # b
        BY Kinds
      <3> QED BY <1>4, <1>5, <3>1
    <2>2. ASSUME NEW q \in RealPlayers
          PROVE  HandsOver(q)'
      <3>1. CASE q \in Children(b)
        BY <1>5, <3>1 DEF HandsOver
      <3>2. CASE q \notin Children(b)
        BY <1>1, <1>6, <2>1, <3>2, HandsOverStays, Kinds DEF Played, HandsOn
      <3> QED BY <3>1, <3>2
    <2>3. ASSUME NEW a \in Agents
          PROVE  TakesOver(a)'
      <3>1. pc'[a] \notin {"unborn", "open"} => pc[a] \notin {"unborn", "open"}
        BY <1>5, <2>1, Kinds
      <3> QED BY <1>1, <1>6, <3>1, TakesOverStays DEF Played, HandsOn
    <2> QED BY <2>2, <2>3 DEF HandsOn
  <1>10. Announced'
    <2>1. Root \in Processes /\ Root \notin Children(b)
      BY <1>3, Kinds
    <2> QED BY <1>1, <1>5, <2>1 DEF Played, Announced
  <1> QED BY <1>7, <1>8, <1>9, <1>10 DEF Played

LEMMA InitPlays ==
  ASSUME Init
  PROVE  Played
  <1>1. entry \in Entries /\ champion = <<>>
    BY DEF Init
  <1>2. /\ pc[Root] = "start" /\ \A p \in Processes \ {Root} : pc[p] = "unborn"
        /\ \A p \in Processes : up[p] = <<>> /\ down[p] = <<>>
        /\ \A a \in Agents : fifo[a] = <<>>
        /\ \A q \in RealPlayers : status[q] = Fresh(entry, q)
    BY Kinds DEF Init
  <1>3. \A b \in Battles, x \in Sides :
          stat[b][x].HP = 0 /\ stat[b][x].flag = 0 /\ side[b] = "none"
    BY DEF Init, Blank
  <1>4. \A b \in Battles : pc[b] \in {"unborn", "start"}
    BY <1>2, Kinds
  <1>5. ASSUME NEW b \in Battles, NEW x \in Sides
        PROVE  Told(b, x)
    <2>1. Child(b, x) \in Processes \ {Root}
      BY Tree
    <2>2. ~Sends(Child(b, x))
      BY <1>2, <2>1 DEF Sends, Waits
    <2> QED BY <1>2, <1>3, <2>1, <2>2 DEF Told
  <1>6. ASSUME NEW b \in Battles
        PROVE  ToItsEnd(b)
    <2>1. ~Begun(b) /\ side[b] = "none" /\ stat[b].left.flag = 0
      BY <1>3, <1>4, Kinds DEF Begun
    <2>2. Won[b] = "none"
      BY <2>1, WonIs
    <2>3. [x \in Sides |-> Awaited(b, x)] = [x \in Sides |-> Entrant(entry, Outcomes, Child(b, x))]
      BY <1>3 DEF Awaited
    <2>4. Duel(entry, b)[[x \in Sides |-> Awaited(b, x)]] = Outcomes[b]
      BY <1>1, <2>3, OutcomesAre
    <2>5. pc[b] # "relayUp"
      BY <1>4
    <2> QED BY <1>3, <2>1, <2>2, <2>4, <2>5 DEF ToItsEnd
  <1>7. HandsOn
    <2>1. \A p \in Players : pc[p] = "unborn"
      BY <1>2, Kinds
    <2>2. \A q \in RealPlayers : HandsOver(q)
      BY <1>2, <2>1, Kinds DEF HandsOver
    <2>3. \A a \in Agents : DOMAIN fifo[a] = {} /\ fifo[a] = <<>>
      BY <1>2
    <2>4. \A a \in Agents : TakesOver(a)
      BY <2>1, <2>3, Kinds DEF TakesOver
    <2> QED BY <2>2, <2>4 DEF HandsOn
  <1>8. Announced
    BY <1>1, <1>2 DEF Announced
  <1> QED BY <1>5, <1>6, <1>7, <1>8 DEF Played

LEMMA NextPlays ==
  ASSUME IInv, Played, [Next]_vars
  PROVE  Played'
  <1>1. CASE UNCHANGED vars
    <2>1. UNCHANGED <<entry, pc, status, stat, side, up, down, fifo, champion>>
      BY <1>1 DEF vars, pipes
    <2>2. \A d \in Battles : WonStays(d)
      BY <2>1, WonIs DEF WonStays
    <2>3. ASSUME NEW b \in Battles, NEW x \in Sides
          PROVE  Told(b, x)'
      <3>1. PICK p : p = Child(b, x)
        OBVIOUS
      <3>2. Message(p)' = Message(p)
        BY <2>1, SameOutcomes DEF Message
      <3>3. (Sends(p)' <=> Sends(p)) /\ (Begun(p)' <=> Begun(p)) /\ Told(b, x)
        BY <2>1 DEF Sends, Begun, Waits, Played
      <3> QED BY <2>1, <2>2, <3>1, <3>2, <3>3, ToldStays
    <2>4. \A b \in Battles : ToItsEnd(b)'
      BY <2>1, ToItsEndStays DEF Played
    <2>5. HandsOn'
      BY <2>1, <2>2, HandsOverStays, TakesOverStays DEF Played, HandsOn
    <2>6. Announced'
      BY <2>1 DEF Played, Announced
    <2> QED BY <2>3, <2>4, <2>5, <2>6 DEF Played
  <1>2. ASSUME NEW p \in Players, PlayerStep(p)
        PROVE  Played'
    BY <1>2, ReportPlays, ResultPlays, HandOverPlays, LogHandOverPlays, TakeOverPlays
    DEF PlayerStep
  <1>3. ASSUME NEW b \in Battles, BattleStep(b)
        PROVE  Played'
    BY <1>3, StartPlays, ReadLeftPlays, ReadRightPlays, WriteLeftPlays, WriteRightPlays,
       ReapPlays, RelayUpPlays, RelayDownPlays, ReapLastPlays DEF BattleStep
  <1> QED BY <1>1, <1>2, <1>3 DEF Next, Over

-------------------------------------------------------------------------------
(* The refinement. *)

\* The bracket decides battles by the same rules.
LEMMA SameRules ==
  /\ \A e : Rules!Outcome(e) = Outcome(e)
  /\ \A out : Rules!WinningSide(out) = WinningSide(out)
  /\ \A a : Rules!Source(a) = Source(a)
  /\ Rules!Players = Players
  <1>1. \A e : Rules!Outcome(e) = Outcome(e)
    BY DEF Outcome, Rules!Outcome, Duel, Rules!Duel, Entrant, Rules!Entrant, Round, Rules!Round,
           Battle, Rules!Battle, Hit, Rules!Hit, compare, Rules!compare, Status, Rules!Status,
           Sides, Rules!Sides, Child, Rules!Child, Fresh, Rules!Fresh, Home, Rules!Home,
           Revived, Rules!Revived, Recovered, Rules!Recovered, Source, Rules!Source,
           WinningSide, Rules!WinningSide, Other, Rules!Other
  <1> QED BY <1>1 DEF WinningSide, Rules!WinningSide, Source, Rules!Source,
                      Players, Rules!Players

\* Who waits for an answer has entered: it is a player of the file, or has taken
\* over from the loser of a decided battle, or is decided itself.
LEMMA WhoWaitsIsKnown ==
  ASSUME IInv, Played, NEW p \in Processes, Waits(p)
  PROVE  Rules!Known(p)
  <1>1. CASE p \in RealPlayers
    BY <1>1 DEF Rules!Known
  <1>2. CASE p \in Agents
    <2>1. pc[p] = "await"
      BY <1>2, Kinds DEF IInv, Everyone, PlayerIsRight, Waits
    <2>2. Won[Source(p)] # "none"
      BY <1>2, <2>1 DEF Played, HandsOn, TakesOver
    <2> QED BY <1>2, <2>2, SameRules DEF Rules!Known
  <1>3. CASE p \in Battles
    <2>1. pc[p] = "relayDown"
      BY <1>3 DEF IInv, Everyone, BattleIsRight, Waits
    <2>2. Won[p] # "none"
      BY <1>3, <2>1, Relaying, WonIs
    <2> QED BY <1>3, <2>2 DEF Rules!Known
  <1> QED BY <1>1, <1>2, <1>3, Kinds

\* The last round of a battle decides it, when both of its sides are known.
LEMMA LastRoundDecides ==
  ASSUME IInv, Played, NEW b \in Battles, ReadRight(b)
  PROVE  Rules!Decide(b) \/ (Won' = Won /\ entry' = entry)
  <1>1. pc[b] = "readRight" /\ up[Right[b]] # <<>> /\ entry' = entry
    BY DEF ReadRight
  <1>2. /\ Left[b] = Child(b, "left") /\ Right[b] = Child(b, "right")
        /\ Left[b] \in Processes /\ Right[b] \in Processes /\ Sides = {"left", "right"}
    BY Tree, Kinds DEF Child
  <1>3. Rules!Known(Right[b])
    BY <1>1, <1>2, ReadIsAwaited, WhoWaitsIsKnown
  <1>4. Rules!Known(Left[b])
    <2>1. Waits(Left[b])
      BY <1>1, <1>2 DEF IInv, Edges, Edge, Turn, Holds
    <2> QED BY <1>2, <2>1, WhoWaitsIsKnown
  <1>5. \/ Won' = Won
        \/ Won[b] = "none" /\ Won' = [Won EXCEPT ![b] = WinningSide(Outcomes[b])]
    BY ReadRightPlays
  <1> QED BY <1>1, <1>3, <1>4, <1>5, SameRules DEF Rules!Decide, Outcomes

\* Every other step stutters.
LEMMA NextImplements ==
  ASSUME IInv, Played, [Next]_vars
  PROVE  [Rules!Next]_(Rules!vars)
  <1>1. ASSUME UNCHANGED <<entry, stat, side>>
        PROVE  Won' = Won /\ entry' = entry
    BY <1>1 DEF Won
  <1>2. CASE UNCHANGED vars
    BY <1>1, <1>2 DEF vars, Rules!vars
  <1>3. ASSUME NEW p \in Players, PlayerStep(p)
        PROVE  Won' = Won /\ entry' = entry
    BY <1>1, <1>3 DEF PlayerStep, Report, Result, HandOver, LogHandOver, TakeOver
  <1>4. ASSUME NEW b \in Battles, BattleStep(b)
        PROVE  Rules!Decide(b) \/ (Won' = Won /\ entry' = entry)
    <2>1. CASE Start(b) \/ WriteLeft(b) \/ WriteRight(b) \/ ReapLast(b)
      BY <1>1, <2>1 DEF Start, WriteLeft, WriteRight, ReapLast
    <2>2. CASE ReadLeft(b)
      BY <2>2, ReadLeftPlays DEF ReadLeft
    <2>3. CASE ReadRight(b)
      BY <2>3, LastRoundDecides
    <2>4. CASE Reap(b)
      BY <2>4, ReapPlays DEF Reap
    <2>5. CASE RelayUp(b)
      BY <2>5, RelayUpPlays DEF RelayUp
    <2>6. CASE RelayDown(b)
      BY <2>6, RelayDownPlays DEF RelayDown
    <2> QED BY <1>4, <2>1, <2>2, <2>3, <2>4, <2>5, <2>6 DEF BattleStep
  <1> QED BY <1>2, <1>3, <1>4 DEF Next, Over, Rules!Next, Rules!vars

\* In every reachable state every battle that is decided has the outcome that
\* player_status.txt determines, and what every process holds, sends and hands
\* on is what leads to it (battle.c:79-144, player.c:72-153).
THEOREM EverybodyPlays == Spec => [](IInv /\ Played)
  <1>1. Init => IInv /\ Played
    BY InitEstablishes, InitPlays
  <1>2. IInv /\ Played /\ [Next]_vars => (IInv /\ Played)'
    BY NextKeeps, NextPlays
  <1> QED BY <1>1, <1>2, PTL DEF Spec

\* Whatever the order in which the processes run, the tree decides every battle
\* once, after the battles it takes its fighters from, with the outcome of the
\* rules (battle.c:79-144).
THEOREM ProcessesImplementBracket == Spec => ImplementsBracket
  <1>1. Init => Rules!Init
    <2> SUFFICES ASSUME Init
                 PROVE  Rules!Init
      OBVIOUS
    <2>1. \A b \in Battles : side[b] = "none" /\ stat[b].left.flag = 0
      BY Kinds DEF Init, Blank
    <2>2. Won = [b \in Battles |-> "none"]
      BY <2>1 DEF Won
    <2> QED BY <2>2 DEF Init, Rules!Init
  <1>2. IInv /\ Played /\ [Next]_vars => [Rules!Next]_(Rules!vars)
    BY NextImplements
  <1> QED BY <1>1, <1>2, EverybodyPlays, PTL DEF Spec, ImplementsBracket, Rules!Spec

\* One champion is announced, the one player_status.txt determines
\* (battle.c:130-135, README.md:17).
THEOREM ChampionIsTheOne == Spec => []OneChampion
  <1>1. Played => OneChampion
    BY DEF Played, Announced, OneChampion
  <1> QED BY <1>1, EverybodyPlays, PTL

-------------------------------------------------------------------------------
(* Double elimination: what the bracket decides, in any tree with TwoBrackets. *)

\* Two players go into a battle, the same two come out of it.
LEMMA DuelKeepsPlayers ==
  ASSUME entry \in Entries, NEW b \in Battles, NEW f \in Fighters, NEW x \in Sides
  PROVE  Duel(entry, b)[f][x].id = f[x].id
  <1> DEFINE next(g) == Round(entry, b, g.left, g.right)
             duel == Duel(entry, b)
             Kept(g) == duel[g].left.id = g.left.id /\ duel[g].right.id = g.right.id
             HP(g) == IF g.left.HP > 0 THEN g.left.HP ELSE 0
             S == {g \in Fighters : ~Kept(g)}
  <1>1. ASSUME NEW g \in Fighters
        PROVE  /\ duel[g] = IF next(g).left.flag = 1 THEN next(g) ELSE duel[next(g)]
               /\ next(g) \in Fighters /\ HP(g) \in Nat
               /\ next(g).left.id = g.left.id /\ next(g).right.id = g.right.id
               /\ next(g).left.flag # 1 => HP(next(g)) < HP(g)
    <2>1. duel[g] = IF next(g).left.flag = 1 THEN next(g) ELSE duel[next(g)]
      BY DuelIs
    <2>2. g.left \in Status /\ g.right \in Status
      BY DEF Fighters, Sides
    <2>3. /\ next(g) \in Fighters
          /\ next(g).left.id = g.left.id /\ next(g).right.id = g.right.id
          /\ next(g).left.flag # 1 => next(g).left.HP > 0 /\ next(g).left.HP < g.left.HP
      BY <2>2, RoundGoesOn
    <2> HIDE DEF next, duel
    <2>4. g.left.HP \in Int /\ next(g).left.HP \in Int
      BY <2>2, <2>3 DEF Fighters, Sides, Status
    <2> QED BY <2>1, <2>3, <2>4
  <1> HIDE DEF next, duel, HP
  <1>2. S = {}
    <2> SUFFICES ASSUME S # {}
                 PROVE  FALSE
      OBVIOUS
    <2> DEFINE N == {HP(g) : g \in S}
    <2>1. N \in SUBSET Nat /\ N # {}
      BY <1>1
    <2>2. PICK m \in N : \A n \in N : m <= n
      <3> HIDE DEF N
      <3> QED BY <2>1, LeastNatural
    <2>3. PICK g \in S : m = HP(g)
      OBVIOUS
    <2>4. g \in Fighters /\ ~Kept(g)
      BY <2>3
    <2>5. next(g).left.flag # 1 /\ ~Kept(next(g))
      BY <1>1, <2>4
    <2>6. next(g) \in S /\ HP(next(g)) < HP(g) /\ HP(g) \in Nat /\ HP(next(g)) \in Nat
      BY <1>1, <2>4, <2>5
    <2>7. HP(g) <= HP(next(g))
      BY <2>2, <2>3, <2>6
    <2> QED BY <2>6, <2>7
  <1>3. Kept(f)
    BY <1>2
  <1> QED BY <1>3 DEF Sides, duel

\* The player who goes up from a process once it is decided, and the one who has
\* been beaten in a battle.
Holder(p) == IF p \in RealPlayers THEN p
             ELSE IF p \in Agents THEN Outcomes[Source(p)][Loses(Source(p))].id
             ELSE Outcomes[p][WinningSide(Outcomes[p])].id
Victim(b) == Outcomes[b][Loses(b)].id

LEMMA HolderEnters ==
  ASSUME entry \in Entries, NEW b \in Battles, NEW x \in Sides
  PROVE  Outcomes[b][x].id = Holder(Child(b, x))
  <1> DEFINE p == Child(b, x)
             f == [y \in Sides |-> Entrant(entry, Outcomes, Child(b, y))]
  <1>1. p \in Processes
    BY Tree
  <1>2. Entrant(entry, Outcomes, p).id = Holder(p)
    <2>1. /\ \A out : WinningSide(out) \in Sides /\ Other(WinningSide(out)) \in Sides
          /\ \A c \in Battles, y \in Sides : Outcomes[c][y] \in Status
      BY OutcomesAre DEF WinningSide, Other, Sides
    <2>2. CASE p \in RealPlayers
      BY <1>1, <2>2, EntrantIs, FreshIsRight DEF Holder
    <2>3. CASE p \in Agents
      <3>1. Outcomes[Source(p)][Loses(Source(p))] \in Status
        BY <2>1, <2>3, SourceIs DEF Loses
      <3>2. Entrant(entry, Outcomes, p) = Revived(entry, Outcomes[Source(p)][Loses(Source(p))])
        BY <1>1, <2>3, EntrantIs DEF Loses
      <3> QED BY <2>3, <3>1, <3>2, HealedStatus, Kinds DEF Holder
    <2>4. CASE p \in Battles
      <3>1. Outcomes[p][WinningSide(Outcomes[p])] \in Status
        BY <2>1, <2>4
      <3>2. Entrant(entry, Outcomes, p) = Recovered(entry, Outcomes[p][WinningSide(Outcomes[p])])
        BY <1>1, <2>4, EntrantIs
      <3> QED BY <2>4, <3>1, <3>2, HealedStatus, Kinds DEF Holder
    <2> QED BY <1>1, <2>2, <2>3, <2>4, Kinds
  <1>3. f \in Fighters
    <2>1. \A y \in Sides : Entrant(entry, Outcomes, Child(b, y)) \in Status
      BY Tree, OutcomesAre, EntrantIsRight
    <2> QED BY <2>1 DEF Fighters
  <1>4. Outcomes[b] = Duel(entry, b)[f]
    BY OutcomesAre
  <1> HIDE DEF f
  <1>5. Outcomes[b][x].id = f[x].id
    BY <1>3, <1>4, DuelKeepsPlayers
  <1> QED BY <1>2, <1>5 DEF f

\* The battles a player has lost.
Lost(q) == {b \in Battles : Won[b] # "none" /\ Victim(b) = q}

\* Where a player is who has not gone on yet.
Playing(p) ==
  Rules!Known(p) /\ \A b \in Battles : p \in {Left[b], Right[b]} => Won[b] = "none"

\* Who is there has lost as often as the bracket says.
Unbeaten == RealPlayers \cup {b \in Battles : Loser[b] # NoAgent}
LossesFit(p) ==
  /\ p \in Unbeaten => Lost(Holder(p)) = {}
  /\ p \notin Unbeaten /\ p # Root => \E b : Lost(Holder(p)) = {b}
  /\ \A b, c \in Lost(Holder(p)) : b = c

\* Everybody is in one place, with the losses that belong there.
InOnePlace ==
  \A p, q \in Processes : Playing(p) /\ Playing(q) /\ Holder(p) = Holder(q) => p = q
LostTwice(b) == b = Root \/ \E c \in Lost(Victim(b)) : c # b

Drawn ==
  /\ entry \in Entries
  /\ \A b \in Battles : Won[b] \in {"none", WinningSide(Outcomes[b])}
  /\ \A b \in Battles : Won[b] # "none" => Rules!Known(Left[b]) /\ Rules!Known(Right[b])
  /\ InOnePlace
  /\ \A p \in Processes : Playing(p) => LossesFit(p)
  /\ \A b \in Battles : Won[b] # "none" /\ Loser[b] = NoAgent => LostTwice(b)

LEMMA KnownIs ==
  ASSUME NEW p
  PROVE  /\ Rules!Known(p) <=> \/ p \in RealPlayers
                               \/ p \in Agents /\ Won[Source(p)] # "none"
                               \/ p \in Battles /\ Won[p] # "none"
         /\ Rules!Known(p)' <=> \/ p \in RealPlayers
                                \/ p \in Agents /\ Won'[Source(p)] # "none"
                                \/ p \in Battles /\ Won'[p] # "none"
  <1>1. Rules!Source(p) = Source(p)
    BY SameRules
  <1> QED BY <1>1 DEF Rules!Known, Rules!Source, Source

LEMMA InitIsDrawn ==
  ASSUME Rules!Init
  PROVE  Drawn
  <1>1. entry \in Entries /\ \A b \in Battles : Won[b] = "none"
    BY DEF Rules!Init
  <1>2. \A p \in Processes : Rules!Known(p) => p \in RealPlayers
    BY <1>1, KnownIs, SourceIs
  <1>3. InOnePlace
    BY <1>2 DEF InOnePlace, Playing, Holder
  <1>4. \A q : Lost(q) = {}
    BY <1>1 DEF Lost
  <1>5. \A p \in Processes : Playing(p) => LossesFit(p)
    BY <1>2, <1>4 DEF LossesFit, Playing, Unbeaten
  <1> QED BY <1>1, <1>3, <1>5 DEF Drawn

\* A battle takes two players from their places: the winner goes to the battle, the
\* loser to the agent if there is one.
LEMMA DecideKeeps ==
  ASSUME Rules!TwoBrackets, Drawn, NEW b \in Battles, Rules!Decide(b)
  PROVE  Drawn'
  <1> DEFINE l == Left[b]
             r == Right[b]
             w == Holder(b)
             v == Victim(b)
  <1>1. /\ entry' = entry /\ entry \in Entries /\ Won[b] = "none"
        /\ Won' = [Won EXCEPT ![b] = WinningSide(Outcomes[b])]
        /\ Rules!Known(l) /\ Rules!Known(r)
    BY SameRules DEF Rules!Decide, Outcomes, Drawn
  <1>2. /\ Outcomes' = Outcomes
        /\ \A p : Holder(p)' = Holder(p)
        /\ \A c : Victim(c)' = Victim(c)
    <2>1. Outcomes' = Outcomes /\ \A c : Loses(c)' = Loses(c)
      BY <1>1, SameOutcomes
    <2> QED BY <2>1 DEF Holder, Victim
  <1>3. /\ WinningSide(Outcomes[b]) # "none" /\ Won'[b] = WinningSide(Outcomes[b])
        /\ \A c \in Battles : c # b => Won'[c] = Won[c]
    BY <1>1 DEF Won, WinningSide
  <1>4. /\ l \in Processes \ {b, Root} /\ r \in Processes \ {b, Root} /\ l # r
        /\ \A c \in Battles : {l, r} \cap {Left[c], Right[c]} # {} => c = b
        /\ l = Child(b, "left") /\ r = Child(b, "right")
    BY Tree, TreeAssumption, Kinds DEF Child
  <1>5. Playing(l) /\ Playing(r) /\ Holder(l) # Holder(r)
    <2>1. Playing(l) /\ Playing(r)
      BY <1>1, <1>4 DEF Playing
    <2> QED BY <1>4, <2>1 DEF Drawn, InOnePlace
  <1>6. /\ w # v
        /\ w = Holder(l) \/ w = Holder(r)
        /\ v = Holder(l) \/ v = Holder(r)
    <2>1. Outcomes[b].left.id = Holder(l) /\ Outcomes[b].right.id = Holder(r)
      BY <1>1, <1>4, HolderEnters, Kinds
    <2>2. /\ w = Outcomes[b][WinningSide(Outcomes[b])].id
          /\ v = Outcomes[b][Other(WinningSide(Outcomes[b]))].id
      BY Kinds DEF Holder, Victim, Loses
    <2>3. \/ WinningSide(Outcomes[b]) = "left" /\ Other(WinningSide(Outcomes[b])) = "right"
          \/ WinningSide(Outcomes[b]) = "right" /\ Other(WinningSide(Outcomes[b])) = "left"
      BY DEF WinningSide, Other
    <2> QED BY <1>5, <2>1, <2>2, <2>3
  <1> HIDE DEF w, v
  <1> DEFINE After(q) == IF q = v THEN Lost(q) \cup {b} ELSE Lost(q)
  <1>7. /\ \A p : Lost(Holder(p))' = After(Holder(p))
        /\ \A c : Lost(Victim(c))' = After(Victim(c))
    <2>1. \A q : {c \in Battles : Won'[c] # "none" /\ Victim(c) = q} = After(q)
      BY <1>1, <1>3 DEF Lost, v
    <2> QED BY <1>2, <2>1 DEF Lost
  <1> HIDE DEF After
  <1>8. ASSUME NEW p \in Processes
        PROVE  /\ Rules!Known(p) => Rules!Known(p)'
               /\ Rules!Known(p)' => \/ Rules!Known(p)
                                     \/ p = b
                                     \/ p \in Agents /\ Loser[b] = p
    BY <1>1, <1>3, KnownIs, SourceIs
  <1>9. ASSUME NEW p \in Processes, Playing(p)'
        PROVE  \/ p = b
               \/ p \in Agents /\ Loser[b] = p /\ Holder(p) = v
               \/ Playing(p) /\ p \notin {l, r} /\ Holder(p) # w /\ Holder(p) # v
    <2>1. CASE p \in Agents /\ Loser[b] = p
      <3>1. Source(p) = b
        BY <2>1, SourceIs
      <3> QED BY <2>1, <3>1, Kinds DEF Holder, Victim, v
    <2>2. CASE p # b /\ ~(p \in Agents /\ Loser[b] = p)
      <3>1. Rules!Known(p)
        BY <1>8, <1>9, <2>2 DEF Playing
      <3>2. p \notin {l, r} /\ Playing(p)
        BY <1>3, <1>9, <3>1 DEF Playing
      <3> QED BY <1>4, <1>5, <1>6, <3>2 DEF Drawn, InOnePlace
    <2> QED BY <2>1, <2>2
  <1>10. InOnePlace'
    <2> SUFFICES ASSUME NEW p \in Processes, NEW q \in Processes, Playing(p)', Playing(q)',
                        Holder(p) = Holder(q)
                 PROVE  p = q
      BY <1>2 DEF InOnePlace
    <2>1. Playing(p) /\ Playing(q) => p = q
      BY DEF Drawn, InOnePlace
    <2> QED BY <1>6, <1>9, <2>1 DEF w
  <1>11. /\ b \in Unbeaten => l \in Unbeaten /\ r \in Unbeaten
         /\ b \notin Unbeaten /\ b # Root => l \notin Unbeaten /\ r \notin Unbeaten
    BY Kinds DEF Unbeaten, Rules!TwoBrackets
  <1>12. ASSUME NEW p \in Processes, Playing(p)'
         PROVE  LossesFit(p)'
    <2>1. CASE p = b
      <3>1. PICK c \in {l, r} : w = Holder(c)
        BY <1>6
      <3>2. LossesFit(c) /\ c # Root
        BY <1>4, <1>5 DEF Drawn
      <3>3. /\ b \in Unbeaten => c \in Unbeaten
            /\ b \notin Unbeaten /\ b # Root => c \notin Unbeaten
        BY <1>11
      <3>4. Lost(Holder(p))' = Lost(Holder(c))
        BY <1>6, <1>7, <2>1, <3>1 DEF After, w
      <3> QED BY <2>1, <3>2, <3>3, <3>4 DEF LossesFit, Unbeaten
    <2>2. CASE p \in Agents /\ Loser[b] = p /\ Holder(p) = v
      <3>1. PICK c \in {l, r} : v = Holder(c)
        BY <1>6
      <3>2. LossesFit(c)
        BY <1>4, <1>5 DEF Drawn
      <3>3. b \in Unbeaten /\ p \notin Unbeaten
        BY <2>2, GraphAssumption, Kinds DEF Unbeaten
      <3>4. Lost(v) = {}
        BY <1>11, <3>1, <3>2, <3>3 DEF LossesFit
      <3>5. Lost(Holder(p))' = {b}
        BY <1>7, <2>2, <3>4 DEF After
      <3> QED BY <3>3, <3>5 DEF LossesFit, Unbeaten
    <2>3. CASE Playing(p) /\ Holder(p) # v
      <3>1. Lost(Holder(p))' = Lost(Holder(p)) /\ LossesFit(p)
        BY <1>7, <2>3 DEF After, Drawn
      <3> QED BY <3>1 DEF LossesFit, Unbeaten
    <2> QED BY <1>9, <1>12, <2>1, <2>2, <2>3
  <1>13. ASSUME NEW c \in Battles, Won'[c] # "none", Loser[c] = NoAgent
         PROVE  LostTwice(c)'
    <2>1. CASE c = b /\ b # Root
      <3>1. PICK d \in {l, r} : v = Holder(d)
        BY <1>6
      <3>2. LossesFit(d) /\ d # Root
        BY <1>4, <1>5 DEF Drawn
      <3>3. d \notin Unbeaten
        BY <1>11, <1>13, <2>1, Kinds DEF Unbeaten
      <3>4. PICK u : Lost(v) = {u}
        BY <3>1, <3>2, <3>3 DEF LossesFit
      <3>5. u # b /\ u \in Lost(v)
        BY <1>1, <3>4 DEF Lost
      <3>6. u \in Lost(Victim(c))'
        BY <1>7, <2>1, <3>5 DEF After, v
      <3> QED BY <2>1, <3>5, <3>6 DEF LostTwice
    <2>2. CASE c # b /\ c # Root
      <3>1. LostTwice(c)
        BY <1>3, <1>13, <2>2 DEF Drawn
      <3>2. Lost(Victim(c)) \subseteq Lost(Victim(c))'
        BY <1>7 DEF After
      <3> QED BY <3>1, <3>2 DEF LostTwice
    <2>3. CASE c = Root
      BY <2>3 DEF LostTwice
    <2> QED BY <2>1, <2>2, <2>3
  <1>14. \A c \in Battles : Won'[c] \in {"none", WinningSide(Outcomes[c])}
    BY <1>3 DEF Drawn
  <1>15. \A c \in Battles : Won'[c] # "none" => Rules!Known(Left[c])' /\ Rules!Known(Right[c])'
    <2>1. \A c \in Battles : Left[c] \in Processes /\ Right[c] \in Processes
      BY Tree, Kinds DEF Child
    <2> QED BY <1>1, <1>3, <1>8, <2>1 DEF Drawn
  <1> QED BY <1>1, <1>2, <1>10, <1>12, <1>13, <1>14, <1>15 DEF Drawn

\* Whoever goes on, or is the champion, has lost one battle at most, so that nobody goes
\* on after two; and nobody is out after one but in the final (graph.c:20-37,
\* battle.c:107-135).
THEOREM LosersHaveLostTwice ==
  ASSUME Rules!TwoBrackets
  PROVE  Spec => []DoubleElimination
  <1>1. Rules!Init => Drawn
    BY InitIsDrawn
  <1>2. Drawn /\ [Rules!Next]_(Rules!vars) => Drawn'
    <2>1. ASSUME Drawn, UNCHANGED <<entry, Won>>
          PROVE  Drawn'
      <3>1. Outcomes' = Outcomes /\ (\A c : Loses(c)' = Loses(c))
        BY <2>1, SameOutcomes
      <3>2. \A p : Holder(p)' = Holder(p) /\ Victim(p)' = Victim(p)
        BY <3>1 DEF Holder, Victim
      <3>3. /\ \A p : Lost(Holder(p))' = Lost(Holder(p)) /\ Lost(Victim(p))' = Lost(Victim(p))
            /\ \A p : Rules!Known(p)' <=> Rules!Known(p)
        BY <2>1, <3>2, KnownIs DEF Lost
      <3>4. \A p : (Playing(p)' <=> Playing(p)) /\ (LossesFit(p)' <=> LossesFit(p))
        BY <2>1, <3>3 DEF Playing, LossesFit, Unbeaten
      <3>5. \A b : LostTwice(b)' <=> LostTwice(b)
        BY <3>3 DEF LostTwice
      <3>6. InOnePlace'
        BY <2>1, <3>2, <3>4 DEF InOnePlace, Drawn
      <3> QED BY <2>1, <3>1, <3>3, <3>4, <3>5, <3>6 DEF Drawn
    <2> QED BY <2>1, DecideKeeps DEF Rules!Next, Rules!Over, Rules!vars
  <1>3. Drawn => DoubleElimination
    <2> SUFFICES ASSUME Drawn
                 PROVE  DoubleElimination
      OBVIOUS
    <2>1. \A q : Rules!Losses(q) = Lost(q)
      <3>1. \A b \in Battles : Won[b] # "none" =>
              Rules!Outcome(entry)[b][Rules!Other(Won[b])].id = Victim(b)
        BY SameRules DEF Drawn, Rules!Other, Other, Victim, Loses, Outcomes
      <3> QED BY <3>1 DEF Rules!Losses, Lost
    <2>2. ASSUME NEW q \in RealPlayers, Rules!GoesOn(q)
          PROVE  \A b, c \in Lost(q) : b = c
      <3>1. PICK p \in Processes : Playing(p) /\ Holder(p) = q
        <4>1. CASE Won[Root] # "none" /\ Rules!Champion(entry) = q
          <5>1. Playing(Root)
            BY <4>1, Kinds, TreeAssumption, KnownIs DEF Playing
          <5>2. Rules!Champion(entry) = Holder(Root)
            BY SameRules, Kinds DEF Rules!Champion, Holder, Outcomes
          <5> QED BY <4>1, <5>1, <5>2, Kinds
        <4>2. ASSUME NEW b \in Battles, NEW x \in Sides, Won[b] = "none",
                     Rules!Known(Child(b, x)), Outcomes[b][x].id = q
              PROVE  \E p \in Processes : Playing(p) /\ Holder(p) = q
          <5> DEFINE p == Child(b, x)
          <5>1. p \in Processes /\ \A c \in Battles : p \in {Left[c], Right[c]} => c = b
            BY Tree, TreeAssumption, Kinds DEF Child
          <5>2. Playing(p)
            BY <4>2, <5>1 DEF Playing
          <5>3. Holder(p) = q
            BY <4>2, HolderEnters DEF Drawn
          <5> QED BY <5>1, <5>2, <5>3
        <4>3. \/ Won[Root] # "none" /\ Rules!Champion(entry) = q
              \/ \E b \in Battles, x \in Sides :
                   Won[b] = "none" /\ Rules!Known(Child(b, x)) /\ Outcomes[b][x].id = q
          BY <2>2, SameRules
             DEF Rules!GoesOn, Outcomes, Sides, Rules!Sides, Child, Rules!Child
        <4> QED BY <4>1, <4>2, <4>3
      <3> QED BY <3>1 DEF Drawn, LossesFit
    <2>3. ASSUME NEW b \in Battles, NEW q, b \in Lost(q), Loser[b] = NoAgent
          PROVE  b = Root \/ \E c \in Lost(q) : c # b
      BY <2>3 DEF Drawn, LostTwice, Lost
    <2> QED BY <2>1, <2>2, <2>3 DEF DoubleElimination, Rules!DoubleElimination, Lost
  <1> QED BY <1>1, <1>2, <1>3, ProcessesImplementBracket, PTL DEF ImplementsBracket, Rules!Spec
===============================================================================
