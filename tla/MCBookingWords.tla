---------------------------- MODULE MCBookingWords -----------------------------
(* Lines for words of 3 characters and an int of 13 bits; ids 41 and 42.      *)
EXTENDS BookingWords

\* The ids, their negations and what wraps to them: 8233 and -8151 to 41.
IdLines == {<< <<4, 1>> >>, << <<4, 2>> >>, << <<4, 3>> >>, << <<Minus, 4, 1>> >>,
            << <<8, 2, 3, 3>> >>, << <<Minus, 8, 1, 5, 1>> >>}

\* Whole commands: legal ones, below 0, too many, the largest amounts, ERROR_NUM,
\* '-' for 0, a word that is no number and a word too many.
WholeLines == {<< <<1>>, <<0>>, <<2>> >>, << <<Minus, 1>>, <<1>>, <<0>> >>,
               << <<9, 9, 9>>, <<9, 9, 9>>, <<9, 9, 9>> >>,
               << <<Minus, 1, 0>>, <<2>>, <<0>> >>, << <<Minus>>, <<1>>, <<0>> >>,
               << <<0>>, <<Other>>, <<1>> >>, << <<0>>, <<1>>, <<0>>, <<1>> >>}

ShortLines == {<<>>, << <<2>> >>, << <<1>>, <<1>> >>}

Typed == IdLines \cup WholeLines \cup ShortLines
Leftovers == {<<>>, <<Other>>, <<3>>}
===============================================================================
