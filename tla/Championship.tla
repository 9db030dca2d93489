------------------------------ MODULE Championship -----------------------------
(***************************************************************************)
(* hw2_pvp-championship: the tree of processes.  A battle forks the two     *)
(* processes of its sides and talks to each over a pair of pipes; a player   *)
(* who has lost goes on in an agent of another sub-tree, reached by a FIFO;  *)
(* a decided battle relays between its winner and its own parent.  A step    *)
(* of a process is what it does up to the next point where it may block.     *)
(***************************************************************************)
EXTENDS ChampionshipRules, Sequences, FiniteSets

VARIABLES
  entry,       \* player_status.txt
  pc,          \* where each process is, "unborn" before its fork
  status,      \* status[p]: the Status of a player
  stat,        \* stat[b]: the Status of either side of a battle
  side,        \* side[b]: the side that pfd, pid and stat point to
  up, down,    \* the pipes from a process to its parent and back
  fifo,        \* fifo[a]: player%d.fifo of an agent
  champion,    \* what the root has announced
  log          \* log[q]: log_player%d.txt in lines, and the offset of q's fd

pipes == <<up, down, fifo>>
vars == <<entry, pc, status, stat, side, pipes, champion, log>>

Processes == Battles \cup Players
Children(b) == {Left[b], Right[b]}

\* What a Status holds before it is assigned.
Nobody == CHOOSE q \in RealPlayers : TRUE
Blank == [id |-> Nobody, HP |-> 0, battle |-> Root, flag |-> 0]

TypeOK ==
  /\ entry \in Entries
  /\ pc \in [Processes -> {"unborn", "start", "readLeft", "readRight", "writeLeft",
                           "writeRight", "reap", "relayUp", "relayDown", "reapLast",
                           "report", "await", "handOver", "log", "open", "exited"}]
  /\ status \in [Players -> Status]
  /\ stat \in [Battles -> [Sides -> Status]]
  /\ side \in [Battles -> Sides \cup {"none"}]
  /\ up \in [Processes -> Seq(Status)] /\ down \in [Processes -> Seq(Status)]
  /\ fifo \in [Agents -> Seq(Status)]
  /\ champion \in Seq(RealPlayers)
  /\ log \in [RealPlayers -> [size : Nat, offset : Nat, lines : Nat]]
  /\ \A p \in Players \ {a \in Agents : pc[a] \in {"unborn", "open"}} :
       status[p].HP <= entry[status[p].id].HP

\* ./battle A 0 is started.  What the variables of a process hold before they
\* are assigned is never looked at, but for stat1.battle_ended_flag, read from
\* the untouched stack of a new process: 0.
Init ==
  /\ entry \in Entries
  /\ pc = [p \in Processes |-> IF p = Root THEN "start" ELSE "unborn"]
  /\ status = [p \in Players |-> IF p \in RealPlayers THEN Fresh(entry, p) ELSE Blank]
  /\ stat = [b \in Battles |-> [s \in Sides |-> Blank]]
  /\ side = [b \in Battles |-> "none"]
  /\ up = [p \in Processes |-> <<>>] /\ down = [p \in Processes |-> <<>>]
  /\ fifo = [a \in Agents |-> <<>>]
  /\ champion = <<>>
  /\ log = [q \in RealPlayers |-> [size |-> 0, offset |-> 0, lines |-> 0]]

-------------------------------------------------------------------------------
(* The players. *)

\* A real player writes to its log at the offset of its descriptor; the agent
\* that has taken over has opened the same file to append.
Written(l) == [size |-> IF l.offset < l.size THEN l.size ELSE l.size + 1,
               offset |-> l.offset + 1, lines |-> l.lines + 1]
Added(l) == [l EXCEPT !.size = @ + 1, !.lines = @ + 1]

Logged(p) ==
  IF p \in RealPlayers THEN [log EXCEPT ![p] = Written(@)]
                       ELSE [log EXCEPT ![status[p].id] = Added(@)]

Report(p) ==
  /\ pc[p] = "report"
  /\ log' = Logged(p)
  /\ up' = [up EXCEPT ![p] = Append(@, status[p])]
  /\ pc' = [pc EXCEPT ![p] = "await"]
  /\ UNCHANGED <<entry, status, stat, side, down, fifo, champion>>

\* Faulty: who wins the final goes on as after any battle.
AfterRound_NoFinal(p, s) ==
  CASE s.flag # 1 -> [status |-> s, pc |-> "report"]
    [] s.flag = 1 /\ s.HP > 0 -> [status |-> Recovered(entry, s), pc |-> "report"]
    [] s.flag = 1 /\ s.HP <= 0 ->
         IF p \in RealPlayers THEN [status |-> Revived(entry, s), pc |-> "handOver"]
                              ELSE [status |-> s, pc |-> "exited"]

\* A player who has won heals, one who has lost hands over to an agent.
AfterRound(p, s) ==
  CASE s.flag # 1 -> [status |-> s, pc |-> "report"]
    [] s.flag = 1 /\ s.battle = Root -> [status |-> s, pc |-> "exited"]
    [] s.flag = 1 /\ s.battle # Root /\ s.HP > 0 ->
         [status |-> Recovered(entry, s), pc |-> "report"]
    [] s.flag = 1 /\ s.battle # Root /\ s.HP <= 0 ->
         IF p \in RealPlayers THEN [status |-> Revived(entry, s), pc |-> "handOver"]
                              ELSE [status |-> s, pc |-> "exited"]

Result(p) ==
  /\ pc[p] = "await" /\ down[p] # <<>>
  /\ LET after == AfterRound(p, Head(down[p])) IN
       /\ status' = [status EXCEPT ![p] = after.status]
       /\ pc' = [pc EXCEPT ![p] = after.pc]
  /\ down' = [down EXCEPT ![p] = Tail(@)]
  /\ log' = Logged(p)
  /\ UNCHANGED <<entry, stat, side, up, fifo, champion>>

\* Opening the FIFO waits for the agent, who opens it when it is born.  The
\* line about it goes to the log after the status has gone to the agent.
HandOver(q) ==
  LET agent == Loser[status[q].battle] IN
  /\ pc[q] = "handOver" /\ agent \in Agents /\ pc[agent] # "unborn"
  /\ fifo' = [fifo EXCEPT ![agent] = Append(@, status[q])]
  /\ pc' = [pc EXCEPT ![q] = "log"]
  /\ UNCHANGED <<entry, status, stat, side, up, down, champion, log>>

\* Faulty: the player does not leave its loop.
LogHandOver_Stays(q) ==
  /\ pc[q] = "log"
  /\ log' = Logged(q)
  /\ pc' = [pc EXCEPT ![q] = "report"]
  /\ UNCHANGED <<entry, status, stat, side, pipes, champion>>

LogHandOver(q) ==
  /\ pc[q] = "log"
  /\ log' = Logged(q)
  /\ pc' = [pc EXCEPT ![q] = "exited"]
  /\ UNCHANGED <<entry, status, stat, side, pipes, champion>>

TakeOver(a) ==
  /\ pc[a] = "open" /\ fifo[a] # <<>>
  /\ LET s == Head(fifo[a]) IN
       /\ status' = [status EXCEPT ![a] = s]
       /\ log' = [log EXCEPT ![s.id] = Added(@)]
  /\ fifo' = [fifo EXCEPT ![a] = Tail(@)]
  /\ pc' = [pc EXCEPT ![a] = "report"]
  /\ UNCHANGED <<entry, stat, side, up, down, champion>>

-------------------------------------------------------------------------------
(* The battles. *)

\* Both sides are forked and run their program.
Start(b) ==
  /\ pc[b] = "start"
  /\ pc' = [p \in Processes |->
              IF p = b THEN "readLeft"
              ELSE IF p \notin Children(b) THEN pc[p]
              ELSE IF p \in Battles THEN "start"
              ELSE IF p \in RealPlayers THEN "report" ELSE "open"]
  /\ UNCHANGED <<entry, status, stat, side, pipes, champion, log>>

ReadLeft(b) ==
  /\ pc[b] = "readLeft" /\ up[Left[b]] # <<>>
  /\ stat' = [stat EXCEPT ![b].left = Head(up[Left[b]])]
  /\ up' = [up EXCEPT ![Left[b]] = Tail(@)]
  /\ pc' = [pc EXCEPT ![b] = "readRight"]
  /\ UNCHANGED <<entry, status, side, down, fifo, champion, log>>

\* Faulty: the statuses go back to the wrong sides.
ReadRight_Swapped(b) ==
  /\ pc[b] = "readRight" /\ up[Right[b]] # <<>>
  /\ stat' = [stat EXCEPT ![b] = Round(entry, b, Head(up[Right[b]]), @.left)]
  /\ up' = [up EXCEPT ![Right[b]] = Tail(@)]
  /\ pc' = [pc EXCEPT ![b] = "writeLeft"]
  /\ UNCHANGED <<entry, status, side, down, fifo, champion, log>>

\* With both fighters here the round is fought.
ReadRight(b) ==
  /\ pc[b] = "readRight" /\ up[Right[b]] # <<>>
  /\ stat' = [stat EXCEPT ![b] = Round(entry, b, @.left, Head(up[Right[b]]))]
  /\ up' = [up EXCEPT ![Right[b]] = Tail(@)]
  /\ pc' = [pc EXCEPT ![b] = "writeLeft"]
  /\ UNCHANGED <<entry, status, side, down, fifo, champion, log>>

WriteLeft(b) ==
  /\ pc[b] = "writeLeft"
  /\ down' = [down EXCEPT ![Left[b]] = Append(@, stat[b].left)]
  /\ pc' = [pc EXCEPT ![b] = "writeRight"]
  /\ UNCHANGED <<entry, status, stat, side, up, fifo, champion, log>>

WriteRight(b) ==
  /\ pc[b] = "writeRight"
  /\ down' = [down EXCEPT ![Right[b]] = Append(@, stat[b].right)]
  /\ pc' = [pc EXCEPT ![b] = IF stat[b].left.flag # 1 THEN "readLeft" ELSE "reap"]
  /\ UNCHANGED <<entry, status, stat, side, up, fifo, champion, log>>

Exited(b) == {p \in Children(b) : pc[p] = "exited"}

\* Faulty: the side that the first wait has not met is held for the winner.
Reap_TheOther(b) ==
  /\ pc[b] = "reap"
  /\ \E s \in Sides :
       LET winner == Other(s) IN
       /\ Child(b, s) \in Exited(b)
       /\ side' = [side EXCEPT ![b] = winner]
       /\ IF b = Root
          THEN /\ champion' = Append(champion, stat[b][winner].id)
               /\ pc' = [pc EXCEPT ![b] = "reapLast"]
          ELSE /\ pc' = [pc EXCEPT ![b] = IF stat[b][winner].HP > 0 THEN "relayUp"
                                                                  ELSE "reapLast"]
               /\ UNCHANGED champion
  /\ UNCHANGED <<entry, status, stat, pipes, log>>

\* The first wait returns when either side has exited.  The root announces the
\* champion, any other battle turns to passing mode.
Reap(b) ==
  /\ pc[b] = "reap" /\ Exited(b) # {}
  /\ LET winner == WinningSide(stat[b]) IN
       /\ side' = [side EXCEPT ![b] = winner]
       /\ IF b = Root
          THEN /\ champion' = Append(champion, stat[b][winner].id)
               /\ pc' = [pc EXCEPT ![b] = "reapLast"]
          ELSE /\ pc' = [pc EXCEPT ![b] = IF stat[b][winner].HP > 0 THEN "relayUp"
                                                                  ELSE "reapLast"]
               /\ UNCHANGED champion
  /\ UNCHANGED <<entry, status, stat, pipes, log>>

\* Passing mode: the winner's status goes on to the parent ...
RelayUp(b) ==
  LET child == Child(b, side[b]) IN
  /\ pc[b] = "relayUp" /\ up[child] # <<>>
  /\ stat' = [stat EXCEPT ![b][side[b]] = Head(up[child])]
  /\ up' = [up EXCEPT ![child] = Tail(@), ![b] = Append(@, Head(up[child]))]
  /\ pc' = [pc EXCEPT ![b] = "relayDown"]
  /\ UNCHANGED <<entry, status, side, down, fifo, champion, log>>

StaysInRelay(s) == s.HP > 0 /\ ~(s.battle = Root /\ s.flag = 1)

\* ... and the parent's answer back to the winner, until the winner has lost or
\* the final is over.
RelayDown(b) ==
  LET child == Child(b, side[b]) IN
  /\ pc[b] = "relayDown" /\ down[b] # <<>>
  /\ stat' = [stat EXCEPT ![b][side[b]] = Head(down[b])]
  /\ down' = [down EXCEPT ![b] = Tail(@), ![child] = Append(@, Head(down[b]))]
  /\ pc' = [pc EXCEPT ![b] = IF StaysInRelay(Head(down[b])) THEN "relayUp"
                                                             ELSE "reapLast"]
  /\ UNCHANGED <<entry, status, side, up, fifo, champion, log>>

\* Faulty: one wait for both sides.
ReapLast_Once(b) ==
  /\ pc[b] = "reapLast" /\ Exited(b) # {}
  /\ pc' = [pc EXCEPT ![b] = "exited"]
  /\ UNCHANGED <<entry, status, stat, side, pipes, champion, log>>

\* The second wait: the other side has exited too.
ReapLast(b) ==
  /\ pc[b] = "reapLast" /\ Exited(b) = Children(b)
  /\ pc' = [pc EXCEPT ![b] = "exited"]
  /\ UNCHANGED <<entry, status, stat, side, pipes, champion, log>>

-------------------------------------------------------------------------------

PlayerStep(p) == \/ Report(p) \/ Result(p)
                 \/ p \in RealPlayers /\ (HandOver(p) \/ LogHandOver(p))
                 \/ p \in Agents /\ TakeOver(p)

BattleStep(b) == \/ Start(b) \/ ReadLeft(b) \/ ReadRight(b) \/ WriteLeft(b) \/ WriteRight(b)
                 \/ Reap(b) \/ RelayUp(b) \/ RelayDown(b) \/ ReapLast(b)

\* Everybody has exited.
Over == (\A p \in Processes : pc[p] = "exited") /\ UNCHANGED vars

Next == \/ \E p \in Players : PlayerStep(p)
        \/ \E b \in Battles : BattleStep(b)
        \/ Over

Spec == Init /\ [][Next]_vars

\* Every process that can run does.
FairSpec == /\ Spec
            /\ \A p \in Players : WF_vars(PlayerStep(p))
            /\ \A b \in Battles : WF_vars(BattleStep(b))

-------------------------------------------------------------------------------
(* Safety. *)

\* A battle and its side take turns over their pipes (battle.c:91-104, 114-128,
\* player.c:87-101): never more than one status is under way between them, and
\* nobody leaves one behind for a process that does not read any more.
TakeTurns ==
  /\ \A p \in Processes \ {Root} :
       /\ Len(up[p]) + Len(down[p]) <= 1
       /\ pc[p] \in {"reapLast", "exited"} => down[p] = <<>>
  /\ \A b \in Battles : pc[b] \in {"reapLast", "exited"} =>
       \A p \in Children(b) : up[p] = <<>>

\* A round is fought between two different players who are both alive, healed
\* after the battle before and told so (battle.c:91-100, player.c:98-105,
\* 146-149).
FightersAreFit ==
  \A b \in Battles :
    pc[b] = "readRight" /\ up[Right[b]] # <<>> =>
      LET l == stat[b].left
          r == Head(up[Right[b]])
      IN l.id # r.id /\ l.HP > 0 /\ r.HP > 0 /\ l.flag = 0 /\ r.flag = 0

\* A player goes on in one process only: who has handed over to an agent does
\* not play any more (player.c:98-117, 119-153).
OneBody ==
  \A p, q \in Players :
    /\ pc[p] \in {"report", "await", "handOver"}
    /\ pc[q] \in {"report", "await", "handOver"}
    /\ status[p].id = status[q].id
    => p = q

\* No process outlives its parent: a battle exits after both sides of it, also
\* when the wait in the middle has met the winner's side (battle.c:105, 137).
ParentsExitLast ==
  \A b \in Battles : pc[b] = "exited" => \A p \in Children(b) : pc[p] = "exited"

\* battle.c:130-135, README.md:17: one champion is announced, and however the
\* processes are scheduled it is the one player_status.txt determines.
OneChampion ==
  /\ champion \in {<<>>, <<Champion(entry)>>}
  /\ pc[Root] = "exited" => champion # <<>>

\* The side that has won a battle, from the moment its last round is fought.
Won ==
  [b \in Battles |->
     IF side[b] # "none" THEN side[b]
     ELSE IF stat[b].left.flag = 1 THEN WinningSide(stat[b])
     ELSE "none"]

Rules == INSTANCE Bracket WITH won <- Won

\* The tree of processes decides every battle as the bracket does.
ImplementsBracket == Rules!Spec

\* graph.c:20-37, battle.c:107-135: by the wins of the processes nobody goes into a
\* battle after two lost ones, nobody is out after one but in the final, and the
\* champion has lost one at most.
DoubleElimination == Rules!DoubleElimination

\* README.md:18: the log files hold every step; no line of a player's log is
\* overwritten by another.
LogsAreWhole == \A q \in RealPlayers : log[q].size = log[q].lines

-------------------------------------------------------------------------------
(* Liveness, under FairSpec. *)

\* The championship ends: all processes exit and the champion is announced.
ChampionshipEnds == <>(champion # <<>> /\ \A p \in Processes : pc[p] = "exited")
===============================================================================
