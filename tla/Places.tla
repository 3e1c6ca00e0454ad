-------------------------------- MODULE Places --------------------------------
(***************************************************************************)
(* The places of a game: seats that empty their hands take the next best   *)
(* place, seats whose player leaves take the worst free one, and the game  *)
(* ends when at most one seat still holds cards.  Pure operators, shared   *)
(* by GameOutcome, SingleGame and Match.                                   *)
(***************************************************************************)
EXTENDS Integers, Sequences

CONSTANT N      \* seats at the table

ASSUME NAssumption == N \in 2..4      \* GameOptions.numPlayers: 2 | 3 | 4

Seats == 0..(N - 1)
NoSeat == -1                          \* null in the code

\* The set of elements of a sequence.
Members(seq) == {seq[i] : i \in 1..Len(seq)}

\* activeCount() <= 1
FewHolders(holding) == \A s, t \in holding : s = t

-----------------------------------------------------------------------------
(* endGame: who still holds cards follows in seat order, then the quitters *)
(* without a place, the earliest to leave at the very bottom.  The seats   *)
(* are at most four, so both loops are written out.                        *)

Only(s, cond) == IF cond THEN <<s>> ELSE <<>>

Stayers(holding, gone) ==
    LET stays(s) == Only(s, s \in holding /\ s \notin Members(gone))
    IN  stays(0) \o stays(1) \o stays(2) \o stays(3)

\* Mutant of Quitters: the first to leave ends up ahead of those who left later.
Quitters_forward(placed, gone) ==
    LET quit(i) == IF i <= Len(gone) THEN Only(gone[i], gone[i] \notin Members(placed))
                                     ELSE <<>>
    IN  quit(1) \o quit(2) \o quit(3) \o quit(4)

Quitters(placed, gone) ==
    LET quit(i) == IF i <= Len(gone) THEN Only(gone[i], gone[i] \notin Members(placed))
                                     ELSE <<>>
    IN  quit(4) \o quit(3) \o quit(2) \o quit(1)

\* Mutant of FinalOrder: the quitters go before those who still hold cards.
FinalOrder_quittersFirst(order, holding, gone) ==
    LET placed == order \o Quitters(order, gone)
    IN  placed \o Stayers(holding, gone)

FinalOrder(order, holding, gone) ==
    LET placed == order \o Stayers(holding, gone)
    IN  placed \o Quitters(placed, gone)

-----------------------------------------------------------------------------
(* The outcome of a game so far: who holds cards, the places taken, the    *)
(* seats whose player left in the order they left, and whether it is over. *)

Outcome(holding, order, gone, over) ==
    [holding |-> holding, order |-> order, gone |-> gone, over |-> over]

NewGame == Outcome(Seats, <<>>, <<>>, FALSE)

\* The game goes on, or ends when few are left.
Settled(holding, order, gone) ==
    IF FewHolders(holding) THEN Outcome({}, FinalOrder(order, holding, gone), gone, TRUE)
                           ELSE Outcome(holding, order, gone, FALSE)

\* The seat plays its last card: play()'s finishing branch.
Emptied(o, seat) == Settled(o.holding \ {seat}, Append(o.order, seat), o.gone)

\* The player leaves: forfeitSeat().  A seat that emptied its hand keeps its place.
Left(o, seat) ==
    IF o.over \/ seat \in Members(o.gone) THEN o
    ELSE IF seat \notin o.holding THEN Outcome(o.holding, o.order, Append(o.gone, seat), FALSE)
    ELSE Settled(o.holding \ {seat}, o.order, Append(o.gone, seat))
=============================================================================
