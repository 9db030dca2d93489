----------------------------- MODULE BookingWords ------------------------------
(***************************************************************************)
(* hw1_csiebooking/server.c: what a write server makes of the text of its  *)
(* clients, one session after another (the locks see to that for a user).  *)
(* A line is the sequence of its words, a word that of its characters: a   *)
(* digit is the number it stands for, Minus is '-', Other any character    *)
(* else.  The words of a command are copied to the stack, where they stay. *)
(***************************************************************************)
EXTENDS Integers, Sequences

CONSTANTS
  WordSize,        \* sizeof input[0], with the closing '\0'
  MaxInt,          \* INT_MAX
  FirstId, LastId, \* 902001 and 902020
  MaxTotal,        \* the most items a user may hold (15)
  ClientLines,     \* what clients type
  StackWords       \* what the words may be before the first command

Minus == 10
Other == 11
Chars == 0..11
Ids == FirstId..LastId
Objects == 1..3

\* The powers of 10.
Tens[n \in Nat] == IF n = 0 THEN 1 ELSE 10 * Tens[n - 1]

\* Faulty: a number that clients do type.
ERROR_NUM_Small == -1

\* -100000 for words of 8 bytes.
ERROR_NUM == -Tens[WordSize - 3]

\* Every amount that fits in a word can be added up in an int, and ERROR_NUM is
\* less than minus what a user can hold: both are so for 8 bytes, 32 bits and 15.
\* What the stack holds at the start fits in the words.
ASSUME WidthAssumption ==
  /\ WordSize \in Nat /\ WordSize > 3 /\ MaxInt \in Nat \ {0} /\ MaxTotal \in Nat
  /\ 3 * Tens[WordSize - 1] + MaxTotal <= MaxInt
  /\ MaxTotal < Tens[WordSize - 3]
  /\ FirstId \in Nat \ {0} /\ LastId \in FirstId..MaxInt
  /\ ClientLines \subseteq Seq(Seq(Chars))
  /\ StackWords \subseteq {w \in Seq(Chars) : Len(w) < WordSize}

VARIABLES
  booked,          \* booked[u][j]: the file
  id,              \* the id of the session, 0 before it has given it
  input,           \* input[j]: the words on the stack
  buf,             \* the line read last
  reply            \* the answer to it

vars == <<booked, id, input, buf, reply>>

Init ==
  /\ booked = [u \in Ids |-> [j \in Objects |-> 0]]
  /\ id = 0
  /\ input \in [Objects -> StackWords]
  /\ buf = <<>> /\ reply = "prompt"

Wrap(n) == ((n + MaxInt + 1) % (2 * MaxInt + 2)) - (MaxInt + 1)

Signed(w) == w # <<>> /\ Head(w) = Minus
Unsigned(w) == IF Signed(w) THEN Tail(w) ELSE w
IsDigits(s) == \A k \in DOMAIN s : s[k] <= 9

\* The loop of convert.
Read(s) ==
  LET res[k \in 0..Len(s)] == IF k = 0 THEN 0 ELSE Wrap(10 * res[k - 1] + s[k])
  IN res[Len(s)]

\* Faulty: the sign is passed over.
convert_NoSign(w) == IF IsDigits(Unsigned(w)) THEN Read(Unsigned(w)) ELSE ERROR_NUM

\* A '-' alone and a word without characters are 0; a long number wraps.
convert(w) ==
  LET res == Read(Unsigned(w)) IN
  IF ~IsDigits(Unsigned(w)) THEN ERROR_NUM ELSE IF Signed(w) THEN Wrap(-res) ELSE res

\* The line as one text: a blank between words is no digit.
Text(l) == IF l = <<>> THEN <<>> ELSE IF Len(l) = 1 THEN l[1] ELSE <<Other>>

\* The first line of a session: the id, within the range of ids.
EnterId(l) ==
  LET n == convert(Text(l)) IN
  /\ id = 0
  /\ buf' = l
  /\ \/ n \in Ids /\ id' = n /\ reply' = "modify"
     \/ n \notin Ids /\ id' = 0 /\ reply' = "failed"
  /\ UNCHANGED <<booked, input>>

\* Faulty: the words are stored in the opposite order.
Scanned_Reversed(l) == [j \in Objects |-> IF 4 - j <= Len(l) THEN l[4 - j] ELSE input[j]]

\* sscanf: a word that the line does not have stays what it was.
Scanned(l) == [j \in Objects |-> IF j <= Len(l) THEN l[j] ELSE input[j]]

Sum(p) == Wrap(p[1] + p[2] + p[3])

\* The second line: the checks in their order, the update, and the end of the
\* session in any case.
Command(l) ==
  LET num   == [j \in Objects |-> convert(input'[j])]
      param == [j \in Objects |-> Wrap(num[j] + booked[id][j])]
  IN
  /\ id # 0
  /\ \A j \in DOMAIN l : Len(l[j]) < WordSize
  /\ buf' = l
  /\ input' = Scanned(l)
  /\ reply' = IF \E j \in Objects : num[j] = ERROR_NUM THEN "failed"
              ELSE IF \E j \in Objects : param[j] < 0 THEN "less than 0"
              ELSE IF Sum(param) > MaxTotal THEN "more than MaxTotal"
              ELSE "updated"
  /\ booked' = IF reply' = "updated" THEN [booked EXCEPT ![id] = param] ELSE booked
  /\ id' = 0

Next == \E l \in ClientLines : EnterId(l) \/ Command(l)

Spec == Init /\ [][Next]_vars

-------------------------------------------------------------------------------

\* The whole number a word stands for: every digit counts at its place.
Number(s) ==
  LET sum[k \in 0..Len(s)] == IF k = 0 THEN 0 ELSE sum[k - 1] + s[k] * Tens[Len(s) - k]
  IN sum[Len(s)]
IsNumber(w) == IsDigits(Unsigned(w))
Value(w) == IF Signed(w) THEN -Number(Unsigned(w)) ELSE Number(Unsigned(w))

\* What clients type for an object, or was there before they did, in words that the
\* stack has room for.
WordsFor(j) == StackWords \cup {l[j] : l \in {k \in ClientLines : Len(k) >= j}}
Amounts(j) == {Value(w) : w \in {v \in WordsFor(j) : Len(v) < WordSize /\ IsNumber(v)}}

Records == INSTANCE BookingRecords WITH
             Deltas <- [food : Amounts(1), concert : Amounts(2), elecs : Amounts(3)]

Booking(p) == [food |-> p[1], concert |-> p[2], elecs |-> p[3]]

\* What a line with all its words does in a session: it is carried out just when
\* its words are numbers that leave the user a legal booking.
WholeLine ==
  id # 0 /\ Len(buf') >= 3 =>
    LET sum == [j \in Objects |-> booked[id][j] + Value(buf'[j])] IN
    IF (\A j \in Objects : IsNumber(buf'[j])) /\ Records!Legal(Booking(sum))
    THEN booked' = [booked EXCEPT ![id] = sum] /\ reply' = "updated"
    ELSE booked' = booked /\ reply' # "updated"

\* A line that is carried out is booked to the item: neither the width of int nor
\* ERROR_NUM, which a client can type as well, makes the difference
\* (server.c:136-154, 346-402).
WholeLinesExact == [][WholeLine]_vars

\* What a change of the file adds: amounts that clients typed for the object, or
\* that the stack held.
Mixture ==
  booked' # booked =>
    /\ Records!Legal(Booking(booked'[id]))
    /\ \E d \in Records!Mixtures :
         Booking(booked'[id]) = Records!Plus(Booking(booked[id]), d)

\* A line with words missing is completed by words of other lines, of whatever
\* client: still every word counts for its own object, and what comes of it is a
\* mixture of commands that leaves the booking legal, which is what the lines of
\* BookingServer may do (server.c:339-358).
ShortLinesMix == [][Mixture]_vars

\* A session has the record of the number its client typed, as much of it as an
\* int holds: another number that wraps to an id is taken for it, nothing else is
\* (server.c:159-170).
IdsDenoted ==
  id # 0 => /\ Len(buf) = 1 /\ IsNumber(buf[1])
            /\ (Value(buf[1]) - id) % (2 * MaxInt + 2) = 0
===============================================================================
