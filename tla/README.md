# Verification of the SP2022 programs

The repository holds four independent programs of a system programming course. Each of them is
about processes, threads or signals that meet in something shared: a file, pipes, a ready queue, an
array. This directory holds TLA+ models of all four, TLC configurations that check them on small
instances, and TLAPS proofs about all four.

    tlc -workers 2 -config <run>.cfg <module>.tla      the runs are listed below
    tlapm <module>_proofs.tla                          the proofs (some minutes)

`PROJECT.json` lists the components, the runs, for every definition the lines it models, the
hazards with the properties that cover them, for every property a plausible bug that breaks it, and
the theorems.

## 1. Inventory

### hw1: booking servers (`src/hw1_csiebooking/server.c`)

*Parts and state.* One source gives two programs, `read_server` and `write_server`; any number of
them run as processes over one file `bookingRecord`. Each keeps the slots `requestP[fd]`, the set
`master_set` for `select`, and `read_arr`/`write_arr` (here `arr`): how many of its connections
share its record lock on a user. The kernel keeps the record locks, which belong to processes.

*Operations.* The select loop: `accept`, `handle_read`, `initialize` (an id, the lock, the record
shown), the second line ("Exit" on a read server, a booking command on a write server),
`disconnect`.

*Interaction.* Servers meet in the file and in `fcntl(F_SETLK)`; clients meet servers over TCP.

*Hard behaviour.* A lock shared by connections of one process; a kernel that grants a process a
lock it holds already; read-modify-write of a record; clients that close, reset, type half a line or
too few words; servers that die with sessions open; words that are no number, too long for an `int`,
or the number that stands for an error.

*Correct when.* The two lock tables agree; a writer is alone with its user; no update is lost; what
a client was shown stays true; the file is always legal; nobody keeps a user locked after leaving;
what is booked is what the words of the line denote.

### hw2: championship (`src/hw2_pvp-championship/`)

*Parts and state.* `battle` forks the two processes of its sides, which are battles or players,
with a pair of pipes each; a `player` sends its status up and gets it back after every round. A
player who has lost hands its status over a FIFO to an *agent* in another part of the tree. A
battle that is decided goes into *passing mode*: it relays between its winner and its own parent.
`graph.c` is the tree, `player_status.txt` the players, `log_*.txt` the logs.

*Hard behaviour.* Thirteen to 29 processes that block on pipes, FIFOs and `wait`; relays through
several levels; the end, which every relaying battle must recognise; a log file with two writers.

*Correct when.* Two ends of a pipe take turns; only living, healed and different players fight;
parents exit last; the championship ends; its result is a function of `player_status.txt`; log
lines are not overwritten; the tree is a double elimination.

### hw3: thread library (`src/hw3_thread-library/`)

*Parts and state.* `ready_queue`, `rq_size`, `rq_current`, `waiting_queue` and `fdarray` of the
scheduler, a TCB with a `jmp_buf` per thread, the pending signals, a FIFO per `max_subarray` thread.

*Operations.* `thread_setup`, `thread_yield` (windows for SIGTSTP and SIGALRM), `async_read`,
`thread_exit`, the scheduler (`move_queue`, `fill`, `poll`), three thread functions.

*Hard behaviour.* Signals at any moment; swap-removal from the array that is being walked; poll
results other than `POLLIN`; non-blocking reads; `int`s that overflow.

*Correct when.* RUNNING is in the ready queue; no thread is lost or doubled; a woken thread has
input; results do not depend on the schedule; threads end; signals are not ignored.

### hw4: movie recommendation (`src/hw4_simple-movies-recommendation-system/`)

*Parts and state.* `initialize` reads `movies.txt` and `read_request` the requests; both scale the
genres to length 1, `filter` selects the movies of a request and multiplies. `tserver`: Group
threads that take requests from the counter `front` under a mutex; a tree of `mergeSort` threads
over the `filter`/`pts` arrays of a request; a library `sort` (`lib.c`) that marks each title
("secret") once. `pserver`: a tree of forked processes over shared memory, for the first request
only. Results go to `{id}t.out`/`{id}p.out` through `FILE`s that nobody closes.

*Hard behaviour.* The front; joins before merges; lists of the wrong length; forks and threads that
fail; movies or requests without a genre; output that stays in the buffers of `FILE`s until `main` returns.

*Correct when.* Every request is taken once and answered with its movies, the nearest to its genres
first, each marked once; what a file holds is always a beginning of its answer; the result reaches
the disk.

## 2. Modules

| module | what it is |
|---|---|
| `BookingRecords` | records, commands, the checks of a command |
| `BookingLedger` | *abstract*: sessions that read or change a user's record |
| `BookingServer` | the servers, their locks, connections and clients |
| `BookingServer_proofs` | the proofs |
| `BookingWords` | what a write server makes of the text of a line: `convert`, `sscanf`, the checks |
| `BookingWords_proofs` | the proofs |
| `ChampionshipRules` | tree, rules of a battle, the reference `Outcome`/`Champion` |
| `Bracket` | *abstract*: battles decided once their entrants are known |
| `Championship` | the processes, pipes, FIFOs, waits and logs |
| `Championship_proofs` | the proofs |
| `ChampionshipGraph` | `graph.c` and `player_status.txt` as values for `Bracket` |
| `UserThreads` | scheduler, threads, signals, FIFOs |
| `UserThreads_proofs` | the proofs |
| `Recursion` | division, and what recursive functions compute: induction stated with sets |
| `MergeTree` | `lib.c` and the merge sort as functions of sequences |
| `MovieInput` | `initialize`, `read_request`, `filter`, and the reference `Answer` |
| `MovieInput_proofs` | proofs about `MergeTree` (`sort`, the merge, slices, the tree at work), points, places and the answer |
| `MovieThreads` | `tserver` |
| `MovieThreads_proofs` | the proofs |
| `MovieProcesses` | `pserver` |
| `MovieProcesses_proofs` | the proofs |
| `MC...` | values for the constants |

`BookingServer` and `BookingLedger` extend `BookingRecords`; `BookingServer` instantiates
`BookingLedger` with a refinement mapping. `Championship` and `Bracket` extend `ChampionshipRules`;
`Championship` instantiates `Bracket`. `BookingWords` instantiates `BookingRecords`, so that what its
words come to is measured by the records, commands and mixtures of `BookingServer`. `MovieThreads`
and `MovieProcesses` extend `MovieInput`, which extends `MergeTree`.

Operators whose name contains an underscore after the name of a definition (`Disconnect_KeepsId`)
and whose comment begins with "Faulty" are not part of a model. Each is what a definition would be
with a bug in the code; `PROJECT.json` names the property that breaks.

### How the models follow the code

**BookingServer.** A step is what a server does between two accesses to what it shares. So
`Grant` (id parsed, lock taken, count raised) is apart from `Show` (record read and sent), and
`AcceptCommand` (record read, checked, reply sent) from `Store` (record written, `disconnect`),
and another server may act, or a process may die, between them. `flock[u][s]` is the kernel's
table; a server's own locks do not conflict, so `MayLock` needs the second conjunct that the code
has in `arr`. `Exit` is the end of a process by `ERR_EXIT`, SIGPIPE or a kill: only the file
survives. `Select` takes the ready descriptors as they are; they are handled in ascending order
although the world goes on. `handle_read` takes everything that has arrived and keeps the first line.
A line is an id, a command, "Exit", a bad line, a command with a word missing, the interrupt bytes
of telnet, or the first half of one. Replies carry no state but the booking shown (`screen`).

**BookingWords.** The other half of hw1: one session after another (the locks see to that for a user),
but lines as words of characters. `convert` is the loop over the digits (`Read`) with the wrap of the
`int`; `Scanned` is `sscanf`, which leaves a word that the line does not have as it was on the stack;
`Command` makes the checks in the order of the code. It justifies the abstract lines of
`BookingServer`: a whole line is one of `Deltas` or bad (`WholeLinesExact`), a line with words
missing is one of `Mixtures` or bad (`ShortLinesMix`).

**Championship.** A step of a process is what it does up to the next point where it may block:
`ReadLeft`, `ReadRight` with the round, the two writes, `Reap` (the first `wait`), `RelayUp`,
`RelayDown`, `ReapLast`. The logs are counted, not written: `size` and `lines` differ when a line
has overwritten another, because the agent appends to the file in which the player still writes at
its own offset. HP and attack are numbers, and the rounds are computed as in `battle.c`. The
logs of battles, pids and line contents are left out.

**UserThreads.** One process: `pc` is where it is. `run` is the inside of a thread function, the two
windows are those of `thread_yield`, `scheduler` is the moment after `longjmp(sched_buf, src)`.
`Schedule` is the whole scheduler up to the next thread or to a blocking `poll`: `move_queue`, then
`fill` or the turn. `arg` holds the command line; a thread with a negative argument is not created.
Numbers wrap at `MaxInt`. The slots of `ready_queue` from `rq_size` on keep what they held, as in
the array. The order of the waiting queue never matters to the code; it is a set.

**MovieThreads, MovieProcesses, MovieInput, MergeTree.** Both programs start from rows of
`movies.txt` and lines of standard input and are compared with `Answer`, which says in terms of these
rows and lines what is asked for: angles between genres, then the alphabet. A score is an exact
product divided by a root; only its rank is kept. A node of the tree is the path to it. `SortHalf` is
one call of the library's `sort` on a slice, `Merge` is the merge of two slices and the copy back;
slices of different threads do not overlap, which is why these are single steps. `out` is what was
printed, `file` what is sure to be on the disk: the same only after the process has exited. (stdio writes a
full block earlier, which is a beginning of the answer as well.) `Output` prints some
of the movies and then the rest, because `CreateFails` (`ERR_EXIT` in another thread) may flush a
`FILE` in the middle. The library's `sort` for no movie at all writes before its array: that step is
`server' = "crashed"`.

### Undefined behaviour

- A booking command with a word missing is made of what the stack holds: the words of an earlier
  command of any client (`Mixtures`), or no number.
- `battle.c:91` reads `stat1.battle_ended_flag` before it is written. The compiled program reads an
  untouched part of the stack, 0, which `Init` of `Championship` assumes.
- `sort` of an empty list reads and writes `movies[-1]`; the compiled program dies of it.
- The thread library jumps into functions that have returned, which C does not define; the model
  takes the jump for the switch of threads it is meant as.

## 3. Runs

| run | module, cfg | what it shows |
|---|---|---|
| `booking_readers_writer` | `MCBookingServer`, `BookingReadersWriter` | a read server with two connections beside a write server: `TypeOK`, `LocksMatchSessions`, `ScreenFresh`, `ImplementsLedger` |
| `booking_two_writers` | `MCBookingServer`, `BookingTwoWriters` | two write servers, one with two connections, commands with words missing, kills and restarts: `WriterExcludes`, `NoLostUpdate`, `RecordsLegal` |
| `booking_live` | `MCBookingServer`, `BookingLive` | lines in two segments, the interrupt key, closes and resets: `SlotsMatchConnections`, `LinesAreTaken`, `DepartedGivesBack` |
| `booking_words` | `MCBookingWords`, `BookingWords` | texts of lines, whole, short, with signs, wrapping: `IdsDenoted`, `WholeLinesExact`, `ShortLinesMix` |
| `championship` | `MCChampionship`, `Championship` | half of the tree, three files of players, every interleaving: `TypeOK`, `TakeTurns`, `FightersAreFit`, `OneBody`, `ParentsExitLast`, `OneChampion`, `DoubleElimination`, `ImplementsBracket`, `ChampionshipEnds` |
| `championship_logs` | `MCChampionship`, `ChampionshipLogs` | *violated*: `LogsAreWhole` |
| `championship_graph` | `ChampionshipGraph`, `BracketGraph` | the whole tree of `graph.c` and the players of `player_status.txt`: `DoubleElimination`, and the assumption `TwoBrackets` of its proof |
| `threads` | `MCUserThreads`, `Threads` | four command lines, signals at any moment, any order of input, overflow, writers that may hang up (`ThreadsExit` leaves out a thread whose writer has): `TypeOK`, `CurrentIsReady`, `NoThreadLost`, `WokenWithInput`, `ResultsRight`, `ThreadsExit`, `TstpIsTaken` |
| `threads_hangup` | `MCUserThreads`, `ThreadsHangup` | *violated*: `CurrentIsReady` |
| `movies_threads` | `MCMovieThreads`, `MoviesThreads` | two Group threads, three requests around the size limit, threads that cannot be created: `TypeOK`, `TakenOnce`, `SortsSomething`, `AnswersRight`, `AllAnswered` |
| `movies_no_match` | `MCMovieThreads`, `MoviesNoMatch` | *violated*: `AllAnswered` |
| `movies_forked` | `MCMovieProcesses`, `MoviesForked` | a three-level tree of processes, with forks that fail: `AnswerRight`, `MoviesKept` |

Every run checks for deadlock, an action `Over`, `Ended`, `Stopped` or `Returned` stutters where
the program has really ended. Booking servers never end by themselves in the model, they are
started again.

### What the violated runs show

- **championship_logs.** `player.c:113` writes the loser's status to the FIFO, `player.c:114` its
  own last log line. By then the agent may have appended to the same file, and the player's
  descriptor, which does not append, writes over the agent's lines. `README.md:18` of the program
  asks for logs that can be checked step by step.
- **threads_hangup.** `scheduler.c:28` takes entries whose `revents` are exactly `POLLIN`. When the
  last writer closes the FIFO of the only thread left, `poll` returns with `POLLHUP`, no thread is
  moved, and the scheduler resumes `ready_queue[0]` although `rq_size` is 0, against
  `threadtools.h:31`.
- **movies_no_match.** A request that no movie matches calls `sort` with length 0
  (`server.c:141`). Since the `FILE`s are flushed only when `main` returns, the results of the
  other requests are lost with it, but for full blocks that stdio has written before. Running the compiled program on such a request ends in a
  segmentation fault with empty output files.

Three more things about hw1 are in the model as steps and are not runs of their own: data without a
newline ends the whole server, with the connections and locks of all its clients (`NoNewlineExit`;
`server.c:87` says "this really should not happen...", but TCP may split a line); a reply says that bookings
"are updated" before they are written, and a process that dies in between has announced what the file
never holds (`AcceptCommand`, then `Exit`); a command with words missing is booked with words of an
earlier one (`Params`, `Scanned`, `server.c:342`). A fourth is what `IdsDenoted` leaves room for: a number
too long for an `int` that wraps to an id is taken for that id (`server.c:150`).

`DoubleElimination` is about the number of lost battles: in its tree two agents of the losers' bracket
may be exchanged and everybody still has two lives. Which loser meets whom there is written nowhere but
in `graph.c`.

## 4. Bounds

- **hw1.** `MaxFds`/`FdLimit` of 1 or 2 connections per process: two are enough for a shared read
  lock, a second writer on the same process, and a descriptor starved by another; one is enough
  for `accept` to fail on a full table and for a descriptor to be given out again. One user: the
  code treats the users' records and locks apart from each other, and the proofs cover any number.
  `MaxTotal` 2 in place of 15, with initial bookings of 1, so that both limits are met;
  commands of one item, and, where the sum is checked, of two objects. `MaxBacklog` 1, `MaxInbox`
  1 or 2: lines that arrive together are dropped after the first whatever their number. Two write
  servers for the race of an update; a third adds only another competitor.
- **hw1, words.** Words of 3 characters and an `int` of 13 bits (`MaxInt` 4095) stand for 7 and 32: the proportions
  that matter are those of `WidthAssumption`, which 8 bytes, 32 bits and 15 items meet as well.
  `ERROR_NUM` follows the width (-10 for -100000) and is among the words typed. Ids 41 and 42 in place
  of 902001..902020; 8233 and -8151 wrap to 41. The lines of `MCBookingWords` have each outcome of
  each check; the stack, which the code does not initialise, begins empty, with a number or with words that are none.
- **hw2.** Half of the tree, with each kind of node it has: a battle of two players, of two battles,
  of a battle and an agent, of two agents; a player is relayed through two levels. The three files of
  players are chosen for ties, for rounds of several blows, and for upsets by the attribute. The
  whole tree is checked at the level of `Bracket`.
- **hw3.** Four command lines as in `sample_execution.sh`: a thread of each function; the same with
  a `collatz` that never ends (3 outgrows 5 bits as 113383 outgrows 32, the smallest that does) and
  writers that hang up; two threads; one alone whose Fibonacci numbers overflow. At most
  `MaxItems` 3 numbers per FIFO, a negative one among them: enough for every pair of threads to meet in
  the ready queue, for the last slot to be filled, for poll to find one, none or a closed FIFO, and for
  the best sum to be that of a middle part.
- **hw4.** `NUM_OF_GENRE` 2 in place of 19, enough for every order of angles; `mergeThread` 4 with two levels, lists of 3, 4 and 5 movies: below, at and above the
  limit, with equal points, equal titles, a movie and a request without genres; three requests for
  two threads, so that the front overshoots. A third Group thread adds no new meeting at the front.
  `pserver` has the three levels (`mergeThread` 8), 9 movies, and a request that matches all or 3.

## 5. Fairness

- **hw1**: `WF` of each server's steps: the operating system runs a process that can run. Nothing
  is assumed of clients, which may stay silent for ever.
- **hw2**: `WF` of each process, for the same reason. The processes have no other environment.
- **hw3**: `WF` of the process and of its timer (`alarm` is armed and expires), and of whoever
  feeds a FIFO, without which a reading thread waits for ever and rightly so. SIGTSTP is not fair.
- **hw4**: `WF` of the program: *some* thread that can run does. Every thread's work is finite, so
  this suffices and no fairness of the mutex is assumed. Where threads may fail to be created,
  `AllAnswered` allows for the end of the process.
- `booking_words` has no liveness: its server only answers.

## 6. Proofs

`BookingServer_proofs.tla` proves, for any sets of servers and users, any descriptor limits and any
lines of the clients, with no bound of the runs:

- `TypeCorrect`, `LockTablesAgree`, `WritersExclude`, `UpdatesAreNotLost`, `ScreensAreFresh`,
  `RecordsStayLegal`, `SlotsAreClean`: the invariants of the first three booking runs;
- `ServerImplementsLedger`: `Spec => ImplementsLedger`.

*Assumptions* are those named in `BookingRecords` and `BookingServer`: read and write servers are
different processes, 0 is no user, the file is legal at the start, commands are records of integers.

*Argument.* The inductive invariant is `IInv == TypeOK /\ Core /\ Passing /\ SlotsMatchConnections`,
where `Core` joins the invariants about locks, sessions and records with `Handling`. None of them
is inductive alone:

- `NoLostUpdate` and `ScreenFresh` need `WriterExcludes`: nobody else stores a record that is being
  handled or shown, since only a server with a session on it does.
- `WriterExcludes` follows for a new session from what the *kernel's* table said when the lock was
  granted; `LocksMatchSessions` translates it into sessions. `MayLockExcludes` is that step.
- `LocksMatchSessions` needs that `disconnect` counts down what its own slot counted up:
  `DisconnectLocks`, with the cardinality of `OwnSlots`.
- `Handling` says that a server in the middle of a command has an open session, and that what it
  will store is a command away from what it read; the refinement needs the second.
- `SlotsMatchConnections` needs `Passing`: a connection that is being handled has had its turn in the
  pass, and is not handled again after `disconnect` has closed it.

There is a lemma per action and part (`GrantCore`, `StoreCore`, `ExitCore`, ...), and helper lemmas
for `Disconnect`, `Exit` and the lock counts, which several actions share. In the refinement,
`Grant` is `OpenRead` or `OpenWrite`, `Store` is `Update`, every disconnect and every end of
a process is a `Close` of some sessions, and the rest stutters.

`BookingWords_proofs.tla` proves, for any lines of any clients and any widths of words and of `int`:

- `IdsAreTheTypedOnes`: the invariant `IdsDenoted`, a session has the record of the typed number, up to
  whole ranges of `int`;
- `WholeLinesAreExact` and `ShortLinesAreMixtures`: the action properties `WholeLinesExact` and
  `ShortLinesMix`, which are what `BookingServer` takes lines for.

*Assumptions*: `WidthAssumption`, which 8 bytes, 32 bits and 15 items meet: three amounts that fit in
their words add up to an `int`, `ERROR_NUM` is below minus what a user can hold, ids are `int`s above 0,
and what the stack holds at the start, whatever it is, fits in the words.

*Argument.* The loop of `convert` runs from the first digit on, `Number` counts every digit at its
place. After `k` digits the two are tied by `Tens[Len(s) - k]`: the number seen so far is the loop's
value times that power of 10, up to whole ranges of `int` (`ReadDenotes`), and below `Tens[k]`
(`NumberIs`); both are inductions by `Recursion`. So a word that is short enough has exactly its value
(`ShortExact`), of either sign, and any other only denotes it (`ConvertDenotes`). A word that is no
number gives `ERROR_NUM`, and so does the number -100000; but whoever types that one has less
than 0 in the end whatever is booked, so the line is turned down either way. `CommandBooks` puts this together: a command
is carried out just when its words are numbers and the sums a legal booking. It needs the
invariant that the words on the stack are words of lines that fit (`Words`) and that the file is legal
(`Booked`).

`UserThreads_proofs.tla` proves, for any command lines, any width of `int`, any numbers and any
number of them, where no writer hangs up (`HangUps = {}`):

- `TypeCorrect`, `RunningIsInTheQueue`, `ThreadsAreNotLost`, `WakeUpsBringInput`: the invariants
  `TypeOK`, `CurrentIsReady`, `NoThreadLost` and `WokenWithInput` of the run `threads`;
- `ThreadsPrintResults`: `ResultsRight`, what the threads print.

*Assumptions*: `ProgramAssumption`, some thread is created, numbers fit in an `int`, and the numbers
of a FIFO are too few and too small for a count or a sum of them to overflow (beyond that
`max_subarray` does not compute a largest sum; `fibonacci` and `collatz` may overflow); and
`HangUps = {}`, without which `CurrentIsReady` is false, as `threads_hangup` shows.

*Argument.* The arrays first: `AppendedQueue` (threads put behind the end join the queue in places of
their own) and `FilledQueue` (the last thread in the place of the one that leaves), both about
arrays and not about states; `Room`, that the array can take every waiting thread, from the number of
threads. The inductive invariant is `TypeOK /\ Queues /\ Resuming /\ NobodyHungUp`. `NoThreadLost`
alone is not inductive: that a thread leaves with its work done needs what `Resuming` says of the
running thread when the scheduler is entered by `thread_exit`, and that RUNNING is a thread of the
queue at all. `CurrentIsReady` after a blocking `poll` needs that an event is `POLLIN` alone, and
that `fdarray` polls for waiting threads only. `WokenWithInput` needs the exception `Resuming` makes
for a thread between `async_read` and its way into the waiting queue. There is one lemma for steps
inside a thread (`ThreadStep`), one for steps that change no queue (`QuietStep`) and one for switches
(`Switch`); the actions follow from them.

`ResultsRight` speaks of the moment after a round only, and needs what every thread keeps in its `tcb`
while others run (`Right`): `fibonacci` the last two numbers, as much of them as an `int` holds, and
that is enough because a sum may be cut before or after it is formed (`WrapSum`); `max_subarray` the
count of what it has read, the largest sum of a part that ends there, and the largest of any part
(`SubRight`). `SumsFit` gives that no sum is cut, `SumsAdd` and `SumsAgree` that the sums of what was
read stay as they are when more is written. `FibonacciIs` and `SumsAdd` come from `Recursion` (below).

`Championship_proofs.tla` proves, for any tree of battles, any players and any contents of
`player_status.txt`:

- `TypeCorrect`, `TurnsAreTaken`, `RoundsAreFair`, `OneBodyEach`, `NobodyIsOrphaned`: the invariants
  `TypeOK`, `TakeTurns`, `FightersAreFit`, `OneBody` and `ParentsExitLast` of the run `championship`;
- `ProcessesImplementBracket`: `Spec => ImplementsBracket`, the tree of processes decides every battle as
  the bracket does;
- `ChampionIsTheOne`: `OneChampion`, what is announced depends on `player_status.txt` only;
- `LosersHaveLostTwice`: `DoubleElimination` of the run `championship`, which the run
  `championship_graph` checks of the bracket alone, in any tree with `TwoBrackets`: nobody goes into a
  battle after two lost ones, nobody is out after one but in the final, and the champion has lost one at most.

*Assumptions*: `GraphAssumption`; `TreeAssumption`, every process but the root is on one side of one
battle, every agent is for the loser of one battle, and no battle is decided before itself, neither
below itself nor by way of an agent (`Before`); `EntriesAssumption`, players can hurt and start alive.
Not every battle needs an agent for its loser. The last theorem needs `TwoBrackets` as well, that players
who have won all their battles meet among themselves, as do those who have lost one, until the
final. TLC evaluates it for the tree of `graph.c` and for its half, by an `ASSUME` in `ChampionshipGraph`
and in `MCChampionship`.

*Argument, safety.* `IInv == Types /\ Everyone /\ Edges /\ HandedOver /\ OneWay`. `Edges` says of every edge of
the tree who has the status that goes up and down on it (`Turn`), that it is one player's all the
way (`SamePlayer`), what a battle that is decided has sent to its sides (`Parting`), and which
processes exist (`Family`). `TakeTurns` needs the first and third, `ParentsExitLast` the fourth.
`OneBody` needs `HandedOver`: of the processes at most one *has* a player, a FIFO or a process on the
way to one included. `FightersAreFit` needs that two sides of a battle wait for different
players: all battles that wait for one player lie on one way down the tree (`OneWay`), and the two sides
of a battle never do (`SidesAreApart`, from the tree). There is a lemma per action, and frame lemmas
for what a step leaves alone (`BattleStepKeeps`, `SideStays`, `EdgeStays`, `EdgeAbove`).

*Argument, outcome.* `Duel` and `Outcome` are recursive over fighters and battles, and TLA+ says what such a
function is only if there is one. `DuelIs` shows it for `Duel`, where each round that does not end the
battle leaves less of the one on the left (`RoundGoesOn`); `OutcomeIs` for `Outcome`, from the battles
before each battle. Both use `WellFoundedFunction` of `Recursion`. Then `Played` is invariant together with
`IInv` (`EverybodyPlays`). It says of every battle that the rounds left in it, from the status on which each
side is `Awaited`, lead to its `Outcome`, or that it has it (`ToItsEnd`); of every edge, that what a side
sends is what is awaited, and that whoever is told that a battle is over holds the status it ended with
there (`Told`), however many relays it has come through; of every hand-over, that the status is that of
the loser, revived, whom the agent is for (`HandsOver`, `TakesOver`); and of the root what it has announced.
The refinement maps the `ReadRight` that ends a battle to `Decide`, whose entrants are known because both
sides wait for an answer (`WhoWaitsIsKnown`), and all other steps to stuttering. There is a lemma per action
(`ReadRightPlays`, `RelayDownPlays`, ...) and two for all that a player's or a battle's step leaves alone
(`PlayerStepPlays`, `BattleStepPlays`).

*Argument, double elimination.* It is about the bracket alone, and holds for the processes by the
refinement. `DoubleElimination` is not inductive: how often somebody has lost needs to be known
exactly, and before the battle. `Drawn` says where everybody is (`Playing`: known, and the battle above not decided
yet), that nobody is in two places (`InOnePlace`), and how many battles those have lost who are there
(`LossesFit`). A decision takes two players from their places, who are different ones, and puts the
winner on the battle and the loser on its agent, if it has one (`DecideKeeps`). Who goes into a battle
comes out of it, because a round keeps its players (`DuelKeepsPlayers`, by induction over the score of
the one on the left).

The proofs about hw4 are a chain of modules. The theorems at its end hold for any threads, requests,
movies, number of genres, limit and depth of the tree, in `MovieThreads_proofs.tla`:

- `TypeCorrect`, `RequestsTakenOnce`, `FilesAreAnswers`: the invariants `TypeOK`, `TakenOnce` and
  `AnswersRight` of the run `movies_threads`;
- `NothingIsEmpty`: `SortsSomething`, where every request finds a movie (`movies_no_match` shows that
  it is false without this);
- `OneAtTheFront`: the mutual exclusion at the front;

and in `MovieProcesses_proofs.tla`, with any forks failing:

- `PrintsTheAnswer`, `NoMovieIsLost`: the invariants `AnswerRight` and `MoviesKept` of `movies_forked`.

*Assumptions*: `RowsAssumption` and `RequestsAssumption`, rows and lines have all their genres, none of
them negative, and there are finitely many Group threads; `BottomAssumption` (`MergeTree`):
`mergeThread`, halved once for each of the `depth` levels, is at least 1, which is the case for 32 and 5
(`server.c:33-34`); `ProcessesAssumption`, the first request of `pserver` finds a movie.

*Argument*, from the bottom:

- `Recursion`. The library's induction theorems take operators as parameters, which the provers
  cannot instantiate. These take sets and functions: `LoopsAgree`, for one, says that two functions
  with the same beginning and the same step are equal, and `WellFoundedFunction` that there is a function
  that is at every place what a rule makes of it below that place. With them it can be proved what `sort`,
  `Merged`, `Slice`, `Product` and `Filtered` compute for every input.
- `MovieInput_proofs`, first part, about `MergeTree`. `SortSorts`: the library's sort returns the same movies, in order, each marked
  once more. `MergedAtMerges`: the merge of a slice keeps its movies, and their order if its halves have
  it. The slices of a node's halves divide its own, slices of nodes on different ways down are
  disjoint (`SliceHalves`, `SlicesNest`, `SlicesPart`), and on the last level none is empty
  for a list of `mergeThread` movies (`BottomsHoldSome`). `InOrderSoFar` is the invariant of the tree: a
  node that is done has its slice sorted and marked once, as has each half that a leaf is through with;
  a node that waits has started both halves, and everything below a node that is done is done too.
  `DivideSorts`, `SortHalfSorts` and `MergeSorts` say that it outlives each step of a node, whoever
  takes it, a thread or a process.
- `MovieInput_proofs`, second part. `PointsAreAngles`: the points, products of scaled genres, put the movies in the
  order of the angles of `Answer`, with the movies and requests without genres. `FilteredIs`: `filter`
  has the rows that match, each once. `PlacesAreTaken` and `RowsInOrder`: the places that `Answer` gives
  are 1 to their number, and a sorted list has in each place a row that is equal to the one of that
  place but for its number. `AnswerShown` follows: a sorted list of what was found, marked once each,
  shows the answer.
- `MovieThreads_proofs`. `IInv == FrontInv /\ Counted /\ Lists /\ Survives /\ Pages`. `FrontInv`: `Holding` ties
  `pc` to the mutex, so the request at the front is nobody's while a thread is about to take it (`Taking`);
  that a request is not lost when its thread turns to the next needs that its `FILE` was opened.
  `Counted`: the front is past the end by at most the threads that have seen it there. `Lists`: while a
  Group thread waits in `Join`, its array holds the movies that were found and its tree is `InOrderSoFar`;
  at all other times no thread of its tree is left, which `Join` needs `InOrderSoFar` for. `Pages`: what is
  printed is the answer up to some movie, and all of it once nobody works on the request.
- `MovieProcesses_proofs`. `IInv` says that the array keeps its movies whatever happens, and that the tree
  is `InOrderSoFar` if no fork has failed yet; `Calm`, that no process is at work below one that has ended
  or was never there, makes main print only when all have ended. Titles are counted by a bijection
  from places to rows, for the answer and for what is printed (`TitlesInRows`).

*Model-checked only.*

- Liveness (`LinesAreTaken`, `DepartedGivesBack`, `ChampionshipEnds`, `ThreadsExit`, `TstpIsTaken`,
  `AllAnswered`): liveness under fairness and `ENABLED` are beyond the prover.
- `TwoBrackets`, about the two trees of the runs.
- The runs that show a violation (`LogsAreWhole`, `CurrentIsReady` with writers that hang up, `AllAnswered`
  with a request without a match).

## 7. What is not modelled

- The texts of replies, logs and outputs.
- hw1: words of eight characters and more, which `sscanf` writes into the next word and beyond;
  lines that arrive behind the first in one read (they are dropped, as in the code) and a number cut
  by the end of the buffer. Whether `fcntl` granted a lock is read from `errno` (`server.c:179`);
  no other call stands between, so the model takes the answer itself.
- hw3: input that does not come in items of five bytes, as `sample_execution.sh` writes it; failures
  of `open` and `mkfifo`; the signal masks of `init_signal`, which the windows of the model
  presuppose.
- hw4: the splitting of lines into fields; genres below 0, on which the library stops with an
  assertion; the rounding of doubles, by which movies with the same score may come out in another
  order; the two `pthread_create` whose result nobody looks at (`server.c:146`, `:329`), `mmap`,
  `open`, `malloc`; two requests with the same id.
- The programs in `sample/` (no source), `sample_judge.py` (a client).

## 8. Plan

Done: the models and runs above, with hw1's words, hw3's `int` and hw4's input, and proofs of every
safety property the passing runs check, for all four programs.

Next: the hazards that `PROJECT.json` lists without a property, each with its reason there, and the parts of
section 7. The liveness properties stay with TLC.
