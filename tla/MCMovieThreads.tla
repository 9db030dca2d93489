----------------------------- MODULE MCMovieThreads ----------------------------
EXTENDS MovieThreads

CONSTANTS g1, g2

Row(title, words, genres) == [title |-> title, words |-> words, genres |-> genres]
Line(keywords, genres) == [keywords |-> keywords, genres |-> genres]

\* Two movies with the same points, two with the same title, one without genres.
MCRows == <<Row(4, {"a"}, <<1, 0>>), Row(3, {"a", "b"}, <<2, 2>>), Row(2, {"a", "b"}, <<1, 1>>),
            Row(1, {"a"}, <<0, 3>>), Row(3, {"b"}, <<0, 0>>)>>

\* Lists of 4 movies, the limit, of 3 and of 5; a request without genres.
MCInput == <<Line("a", <<1, 2>>), Line("b", <<0, 0>>), Line("*", <<3, 0>>)>>

\* A request that no movie matches, behind one that some do.
MCNoMatch == <<Line("b", <<1, 2>>), Line("c", <<1, 2>>)>>
===============================================================================
