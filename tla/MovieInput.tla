------------------------------- MODULE MovieInput -------------------------------
(***************************************************************************)
(* hw4: what initialize and read_request make of movies.txt and of standard *)
(* input, and the list of movies that a request is to have sorted.  A title *)
(* is its place in the alphabet and the keywords it contains.  A double of a *)
(* profile is [num, root]: num / sqrt(root).  Only the order of the points is *)
(* kept of them; where different genres give the same points, doubles may    *)
(* differ in the last place, which is left out.                              *)
(***************************************************************************)
EXTENDS MergeTree

CONSTANTS
  NUM_OF_GENRE,    \* genres of a movie and of a request
  Rows             \* movies.txt: [title, words, genres]

Profiles == [1..NUM_OF_GENRE -> Nat]
Lines == [keywords : STRING, genres : Profiles]   \* of standard input

\* Every row and line has all the genres, and no genre is negative: the library
\* asserts that points are not (lib.c:82).
ASSUME RowsAssumption ==
  /\ NUM_OF_GENRE \in Nat
  /\ Rows \in Seq([title : Nat, words : SUBSET STRING, genres : Profiles])

Product(g, h) ==
  LET Upto[i \in 0..NUM_OF_GENRE] == IF i = 0 THEN 0 ELSE Upto[i - 1] + g[i] * h[i]
  IN Upto[NUM_OF_GENRE]

\* Faulty: the genres as they are.
Normalized_Not(genres) == [num |-> genres, root |-> 1]

\* Divided by their length, or all 0.
Normalized(genres) ==
  LET sum == Product(genres, genres) IN [num |-> genres, root |-> IF sum = 0 THEN 1 ELSE sum]

\* initialize: the rows in their order.
movies == [k \in 1..Len(Rows) |-> [title   |-> Rows[k].title,
                                   words   |-> Rows[k].words,
                                   profile |-> Normalized(Rows[k].genres)]]

read_request(line) == [keywords |-> line.keywords, profile |-> Normalized(line.genres)]

Dot(a, b) == [num |-> Product(a.num, b.num), root |-> a.root * b.root]
More(x, y) == x.num * x.num * y.root > y.num * y.num * x.root

Matches(keywords, words) == keywords = "*" \/ keywords \in words

\* filter: the movies with the keywords, in the order of the rows.
Filtered(req) ==
  LET Upto[i \in 0..Len(Rows)] ==
        IF i = 0 THEN <<>>
        ELSE IF Matches(req.keywords, movies[i].words) THEN Append(Upto[i - 1], movies[i])
        ELSE Upto[i - 1]
  IN Upto[Len(Rows)]

\* filter and pts: what is given to the sort.
Found(req) ==
  LET filter == Filtered(req)
      pts    == [k \in 1..Len(filter) |-> Dot(req.profile, filter[k].profile)]
  IN [k \in 1..Len(filter) |->
        [title |-> filter[k].title, secrets |-> 0,
         pts   |-> Cardinality({j \in 1..Len(filter) : More(pts[k], pts[j])})]]

-------------------------------------------------------------------------------
(* The reference. *)

\* The genres g have a smaller angle with those asked for than h has; nothing
\* has an angle with no genres at all.
Nearer(asked, g, h) ==
  /\ Product(asked, g) > 0
  /\ \/ Product(asked, h) = 0
     \/ Product(asked, g) * Product(asked, g) * Product(h, h)
          > Product(asked, h) * Product(asked, h) * Product(g, g)

\* The rows that a line asks for, and which of two of them is to be ahead.
Wanted(line) == {k \in DOMAIN Rows : Matches(line.keywords, Rows[k].words)}
Ahead(line, j, k) ==
  LET near(a, b) == Nearer(line.genres, Rows[a].genres, Rows[b].genres) IN
  \/ near(j, k)
  \/ ~near(k, j) /\ \/ Rows[j].title < Rows[k].title
                    \/ Rows[j].title = Rows[k].title /\ j < k

\* What is to be printed for a line: the movies with its keywords, the nearest
\* first and then by the alphabet, each marked by the library once.
Answer(line) ==
  LET place(k) == Cardinality({j \in Wanted(line) : Ahead(line, j, k)}) + 1
  IN [i \in 1..Cardinality(Wanted(line)) |->
        [title |-> Rows[CHOOSE k \in Wanted(line) : place(k) = i].title, marks |-> 1]]

\* The lines of a FILE that show the movies of s.
Shown(s) == [k \in 1..Len(s) |-> [title |-> s[k].title, marks |-> s[k].secrets]]
===============================================================================
