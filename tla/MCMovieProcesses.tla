---------------------------- MODULE MCMovieProcesses ---------------------------
EXTENDS MovieProcesses

\* Nine movies, in which every number of genres from 0 to 2 comes up.
Words == <<{"a"}, {"a", "b"}, {}, {"b"}, {}, {"a"}, {}, {"b"}, {}>>
Genres == <<<<2, 0>>, <<0, 0>>, <<1, 0>>, <<1, 3>>, <<2, 1>>, <<0, 2>>, <<3, 1>>, <<1, 1>>, <<0, 1>>>>
MCRows == [k \in 1..9 |-> [title |-> 9 - k, words |-> Words[k], genres |-> Genres[k]]]

MCLines == {[keywords |-> "*", genres |-> <<3, 1>>], [keywords |-> "b", genres |-> <<0, 5>>]}
===============================================================================
