----------------------------- MODULE MatchProofs -----------------------------
(***************************************************************************)
(* Proofs about a match of two, three or four seats, for every target and  *)
(* every deal: it is a contest until it is over, who left stays out of the *)
(* games, points and cards add up, and a game that begins has a leader.    *)
(*                                                                         *)
(* None of this can be seen from one game alone.  The invariant MatchInv   *)
(* says what a game under way is (Going), why the match still goes on      *)
(* (Contested) and that the two seats of a switch are different (Owed).    *)
(***************************************************************************)
EXTENDS Match, GameLemmas

\* A game under way from which the seats `gn` are gone.
Going(o, gn) ==
    /\ o = Outcome(o.holding, o.order, gn, FALSE)
    /\ o.order \in Seq(Seats)
    /\ Distinct(o.order)
    /\ o.holding = Seats \ (Members(o.order) \cup Members(gn))
    /\ ~FewHolders(o.holding)

\* A finished game: every seat has one place, the seats of Q the last ones.
Finished(o, Q) ==
    /\ o.over
    /\ o.order \in Seq(Seats)
    /\ Distinct(o.order)
    /\ Len(o.order) = N
    /\ Members(o.order) = Seats
    /\ \A i, j \in 1..N : i < j /\ o.order[i] \in Q => o.order[j] \in Q

\* The cards of some deal, each in one hand.
Conserved(h) ==
    /\ h \in [Seats -> SUBSET Card]
    /\ \A s, t \in Seats : s # t => h[s] \cap h[t] = {}
    /\ \E deal \in Deals : UNION {deal[s] : s \in Seats} = UNION {h[s] : s \in Seats}

\* The players who left, in the order they left.
LeftOK(gn) == gn \in Seq(Seats) /\ Distinct(gn)

MatchTypes ==
    /\ target \in Nat
    /\ cumulative \in [Seats -> Nat]
    /\ state \in {"playing", "awaitingSwitch", "matchOver"}
    /\ gameIndex \in Nat
    /\ LeftOK(goneSeats)
    /\ Conserved(hands)

Contested ==
    state # "matchOver" =>
      /\ ~mustEndAfterForfeit(goneSeats)
      /\ \A side \in Sides : sideScores(cumulative)[side] < target

Owed ==
    state = "awaitingSwitch" =>
      /\ pending.winner \in Seats /\ pending.loser \in Seats
      /\ pending.winner # pending.loser

MatchInv ==
    /\ MatchTypes
    /\ Contested
    /\ state = "playing" => Going(game, goneSeats)
    /\ Owed
    /\ PointsAddUp

-----------------------------------------------------------------------------
(* The seats and the sides.                                                *)

\* Three kinds of match.
LEMMA Kinds ==
  /\ MatchType = "1v1" => N = 2 /\ Seats = {0, 1} /\ Sides = {0, 1}
  /\ MatchType = "1v1v1" => N = 3 /\ Seats = {0, 1, 2} /\ Sides = {0, 1, 2}
  /\ MatchType = "2v2" => N = 4 /\ Seats = {0, 1, 2, 3} /\ Sides = {0, 1}
  /\ MatchType \in {"1v1", "1v1v1", "2v2"}
BY TypeAssumption DEF Seats, Sides

\* While the outcome is open at least two players are there: one of each team
\* in 2v2.
LEMMA OpenHasTwo ==
  ASSUME NEW gn, ~mustEndAfterForfeit(gn)
  PROVE  ~FewHolders(Seats \ Members(gn))
<1>1. CASE MatchType = "2v2"
  <2>1. SidePresent(0, gn) /\ SidePresent(1, gn)
    BY <1>1, Kinds DEF mustEndAfterForfeit
  <2>2. TEAMS[1] = {0, 2} /\ TEAMS[2] = {1, 3}
    BY DEF TEAMS
  <2>3. PICK a \in {0, 2} : a \notin Members(gn)
    BY <1>1, <2>1, <2>2 DEF SidePresent, seatsOfSide
  <2>4. PICK b \in {1, 3} : b \notin Members(gn)
    BY <1>1, <2>1, <2>2 DEF SidePresent, seatsOfSide
  <2>5. a \in Seats /\ b \in Seats /\ a # b
    BY <1>1, Kinds
  <2> QED BY <2>3, <2>4, <2>5 DEF FewHolders
<1>2. CASE MatchType # "2v2"
  BY <1>2 DEF mustEndAfterForfeit
<1> QED BY <1>1, <1>2

\* Somebody who is there has the lead.
LEMMA LedBySomeone ==
  ASSUME NEW gn \in Seq(Seats), NEW lead \in Seats, ~FewHolders(Seats \ Members(gn))
  PROVE  LedBy(lead, gn) \in Seats \ Members(gn)
<1> DEFINE seat(k) == (lead + k) % N
           here(k) == seat(k) \notin Members(gn)
           first(k) == here(k) /\ \A j \in 0..(k - 1) : ~here(j)
<1>1. PICK s \in Seats : s \notin Members(gn)
  BY DEF FewHolders
<1>2. \A k \in 0..(N - 1) : seat(k) \in Seats
  BY NAssumption DEF Seats
<1>3. \E k \in 0..(N - 1) : seat(k) = s
  <2>1. CASE s >= lead
    <3>1. s - lead \in 0..(N - 1) /\ seat(s - lead) = s
      BY <2>1, NAssumption DEF Seats
    <3> QED BY <3>1
  <2>2. CASE s < lead
    <3>1. s + N - lead \in 0..(N - 1)
      BY <2>2, NAssumption DEF Seats
    <3>2. (lead + (s + N - lead)) % N = s
      BY NAssumption DEF Seats
    <3> QED BY <3>1, <3>2
  <2> QED BY <2>1, <2>2 DEF Seats
<1>4. \E k \in 0..(N - 1) : here(k)
  BY <1>1, <1>3
<1> HIDE DEF seat
<1>5. \E k \in 0..(N - 1) : first(k)
  <2> HIDE DEF here
  <2>1. N \in {2, 3, 4}
    BY NAssumption
  <2> QED BY <1>4, <2>1
<1>6. LedBy(lead, gn) = seat(CHOOSE k \in 0..(N - 1) : first(k))
  BY DEF LedBy, seat
<1> QED BY <1>2, <1>5, <1>6

-----------------------------------------------------------------------------
(* One game.                                                               *)

\* A ranking repeats no seat and has the seats of Q at its end.
LEMMA RankedIsFinished ==
  ASSUME NEW f \in Seq(Seats), NEW Q, NEW gn, Ranked(f, Q, gn), Members(f) = Seats
  PROVE  /\ Distinct(f) /\ Len(f) = N
         /\ \A i, j \in 1..N : i < j /\ f[i] \in Q => f[j] \in Q
<1>1. Distinct(f)
  BY DEF Ranked, Behind, Distinct
<1>2. Len(f) = N
  BY <1>1, AllPlaces
<1> QED BY <1>1, <1>2 DEF Ranked, Behind

\* Settled goes on, or finishes with the quitters without a place last.
LEMMA SettledFacts ==
  ASSUME NEW order \in Seq(Seats), NEW act, NEW gn, LeftOK(gn), Distinct(order),
         act = Seats \ (Members(order) \cup Members(gn))
  PROVE  \/ Going(Settled(act, order, gn), gn)
         \/ Finished(Settled(act, order, gn), Members(gn) \ Members(order))
<1> DEFINE f == FinalOrder(order, act, gn)
<1>1. CASE FewHolders(act)
  <2>1. /\ f \in Seq(Seats)
        /\ Ranked(f, Members(gn) \ Members(order), gn)
        /\ Members(f) = Seats
    <3>1. /\ gn \in Seq(Seats) /\ Distinct(gn) /\ act \in SUBSET Seats
          /\ act \cap Members(gn) = {} /\ act \cap Members(order) = {}
      BY DEF LeftOK
    <3>2. Members(order) \subseteq Seats /\ Members(gn) \subseteq Seats
      BY <3>1 DEF Members
    <3>3. Members(order) \cup act \cup Members(gn) = Seats
      BY <3>2
    <3> QED BY <3>1, <3>3, FinalOrderRanks
  <2> HIDE DEF f
  <2>2. /\ Distinct(f) /\ Len(f) = N
        /\ \A i, j \in 1..N : i < j /\ f[i] \in Members(gn) \ Members(order)
             => f[j] \in Members(gn) \ Members(order)
    BY <2>1, RankedIsFinished
  <2> DEFINE o == Settled(act, order, gn)
             Q == Members(gn) \ Members(order)
  <2>3. o = [holding |-> {}, order |-> f, gone |-> gn, over |-> TRUE]
    BY <1>1 DEF Settled, Outcome, f
  <2>4. o.over /\ o.order = f
    BY <2>3
  <2> HIDE DEF o, Q
  <2>5. Finished(o, Q)
    BY <2>1, <2>2, <2>4 DEF Finished, Q
  <2> QED BY <2>5 DEF o, Q
<1>2. CASE ~FewHolders(act)
  <2> DEFINE o == Settled(act, order, gn)
  <2>1. o = Outcome(act, order, gn, FALSE)
    BY <1>2 DEF Settled
  <2>2. o.holding = act /\ o.order = order
    BY <2>1 DEF Outcome
  <2> HIDE DEF o
  <2>3. Going(o, gn)
    BY <1>2, <2>1, <2>2 DEF Going
  <2> QED BY <2>3 DEF o
<1> QED BY <1>1, <1>2

\* A seat plays its last card.
LEMMA EmptiedFacts ==
  ASSUME NEW o, NEW gn, LeftOK(gn), Going(o, gn), NEW seat \in o.holding
  PROVE  \/ Going(Emptied(o, seat), gn)
         \/ Finished(Emptied(o, seat), Members(gn) \ Members(o.order))
<1> DEFINE order == Append(o.order, seat)
           act == o.holding \ {seat}
<1>1. seat \in Seats /\ seat \notin Members(o.order) /\ seat \notin Members(gn)
  BY DEF Going
<1>2. /\ order \in Seq(Seats) /\ Distinct(order)
      /\ Members(order) = Members(o.order) \cup {seat}
  BY <1>1, MembersAppend, DistinctAppend DEF Going
<1>3. Emptied(o, seat) = Settled(act, order, gn)
  BY DEF Emptied, Going, Outcome
<1> HIDE DEF order
<1>4. act = Seats \ (Members(order) \cup Members(gn))
  BY <1>2 DEF Going
<1> HIDE DEF act
<1>5. Members(gn) \ Members(order) = Members(gn) \ Members(o.order)
  BY <1>1, <1>2
<1>6. \/ Going(Settled(act, order, gn), gn)
      \/ Finished(Settled(act, order, gn), Members(gn) \ Members(order))
  BY <1>2, <1>4, SettledFacts
<1> QED BY <1>3, <1>5, <1>6

\* A player leaves a game under way.
LEMMA LeftFacts ==
  ASSUME NEW o, NEW gn, LeftOK(gn), Going(o, gn), NEW seat \in Seats, seat \notin Members(gn)
  PROVE  /\ LeftOK(Append(gn, seat))
         /\ Members(Append(gn, seat)) = Members(gn) \cup {seat}
         /\ \/ Going(Left(o, seat), Append(gn, seat))
            \/ Finished(Left(o, seat), Members(Append(gn, seat)) \ Members(o.order))
<1> DEFINE gn2 == Append(gn, seat)
           act == o.holding \ {seat}
<1>1. LeftOK(gn2) /\ Members(gn2) = Members(gn) \cup {seat}
  BY MembersAppend, DistinctAppend DEF LeftOK
<1>2. o.over = FALSE /\ o.gone = gn
  BY DEF Going, Outcome
<1>3. o.order \in Seq(Seats) /\ Distinct(o.order)
      /\ o.holding = Seats \ (Members(o.order) \cup Members(gn))
  BY DEF Going
<1> HIDE DEF gn2
<1>4. CASE seat \notin o.holding
  <2>1. Left(o, seat) = [holding |-> o.holding, order |-> o.order, gone |-> gn2, over |-> FALSE]
    BY <1>2, <1>4 DEF Left, Outcome, gn2
  <2>2. o.holding = Seats \ (Members(o.order) \cup Members(gn2))
    BY <1>1, <1>3, <1>4
  <2>3. ~FewHolders(o.holding)
    BY DEF Going
  <2>4. Going(Left(o, seat), gn2)
    BY <1>3, <2>1, <2>2, <2>3 DEF Going, Outcome
  <2> QED BY <1>1, <2>4 DEF gn2
<1>5. CASE seat \in o.holding
  <2>1. Left(o, seat) = Settled(act, o.order, gn2)
    BY <1>2, <1>5 DEF Left, gn2
  <2>2. act = Seats \ (Members(o.order) \cup Members(gn2))
    BY <1>1, <1>3
  <2> HIDE DEF act
  <2>3. \/ Going(Settled(act, o.order, gn2), gn2)
        \/ Finished(Settled(act, o.order, gn2), Members(gn2) \ Members(o.order))
    BY <1>1, <1>3, <2>2, SettledFacts
  <2> QED BY <1>1, <2>1, <2>3 DEF gn2
<1> QED BY <1>4, <1>5

\* A new game without the players who left the match: nobody has a place, and it
\* goes on while two players are there.
LEMMA WithoutGoneFacts ==
  ASSUME NEW gn, LeftOK(gn), ~FewHolders(Seats \ Members(gn))
  PROVE  Going(WithoutGone(gn), gn) /\ WithoutGone(gn).holding = Seats \ Members(gn)
<1> DEFINE pre(i) == IF i <= Len(gn) THEN SubSeq(gn, 1, i) ELSE gn
           fresh(g) == Outcome(Seats \ Members(g), <<>>, g, FALSE)
           out(o, i) == IF i <= Len(gn) THEN Left(o, gn[i]) ELSE o
<1>1. Len(gn) \in Nat /\ Len(gn) <= 4 /\ gn \in Seq(Seats) /\ Distinct(gn)
  BY AtMostFour DEF LeftOK
<1>2. \A i \in 1..4 : out(fresh(pre(i - 1)), i) = fresh(pre(i))
  <2> SUFFICES ASSUME NEW i \in 1..4 PROVE out(fresh(pre(i - 1)), i) = fresh(pre(i))
    OBVIOUS
  <2>1. CASE i <= Len(gn)
    <3> DEFINE g == SubSeq(gn, 1, i - 1)
               s == gn[i]
    <3>1. i - 1 \in 0..Len(gn) /\ i - 1 <= Len(gn)
      BY <1>1, <2>1
    <3>2. pre(i - 1) = g /\ pre(i) = SubSeq(gn, 1, i)
      BY <2>1, <3>1
    <3>3. s \in Seats
      BY <1>1, <2>1
    <3>4. /\ g \in Seq(Seats) /\ Len(g) = i - 1
          /\ \A j \in 1..(i - 1) : g[j] = gn[j]
      BY <1>1, <2>1
    <3>5. SubSeq(gn, 1, i) = Append(g, s)
      BY <1>1, <2>1
    <3> HIDE DEF g, s
    <3>6. s \notin Members(g)
      <4>1. \A j \in 1..(i - 1) : gn[j] # gn[i]
        BY <1>1, <2>1 DEF Distinct
      <4> QED BY <3>4, <4>1 DEF Members, s
    <3>7. Members(g) \subseteq Members(gn) /\ s \in Members(gn)
      BY <1>1, <2>1, <3>4 DEF Members, s
    <3>8. Members(Append(g, s)) = Members(g) \cup {s}
      BY <3>3, <3>4, MembersAppend
    <3> DEFINE h == Seats \ Members(g)
    <3>9. ~FewHolders(h \ {s})
      BY <3>7 DEF FewHolders
    <3>10. fresh(g).over = FALSE /\ fresh(g).gone = g /\ fresh(g).holding = h
           /\ fresh(g).order = <<>>
      BY DEF Outcome
    <3>11. Left(fresh(g), s) = Settled(h \ {s}, <<>>, Append(g, s))
      BY <3>3, <3>6, <3>10 DEF Left
    <3>12. h \ {s} = Seats \ Members(Append(g, s))
      BY <3>8
    <3>13. Left(fresh(g), s) = fresh(Append(g, s))
      BY <3>9, <3>11, <3>12 DEF Settled
    <3> QED BY <2>1, <3>2, <3>5, <3>13 DEF s
  <2>2. CASE ~(i <= Len(gn))
    <3>1. pre(i - 1) = gn /\ pre(i) = gn
      BY <1>1, <2>2
    <3> QED BY <2>2, <3>1
  <2> QED BY <2>1, <2>2
<1>3. fresh(pre(0)) = NewGame
  <2>1. pre(0) = <<>>
    BY <1>1
  <2>2. Members(<<>>) = {}
    BY DEF Members
  <2> QED BY <2>1, <2>2 DEF NewGame
<1>4. pre(4) = gn
  BY SMTT(30), <1>1
<1>5. WithoutGone(gn) = out(out(out(out(NewGame, 1), 2), 3), 4)
  BY DEF WithoutGone
<1>6. WithoutGone(gn) = fresh(gn)
  <2> HIDE DEF fresh, out, pre
  <2>1. /\ out(fresh(pre(0)), 1) = fresh(pre(1)) /\ out(fresh(pre(1)), 2) = fresh(pre(2))
        /\ out(fresh(pre(2)), 3) = fresh(pre(3)) /\ out(fresh(pre(3)), 4) = fresh(pre(4))
    BY <1>2
  <2> QED BY <1>3, <1>4, <1>5, <2>1
<1>7. Members(<<>>) = {}
  BY DEF Members
<1>8. Distinct(<<>>)
  BY DEF Distinct
<1> QED BY <1>6, <1>7, <1>8 DEF Going, Outcome

-----------------------------------------------------------------------------
(* Scoring.                                                                *)

\* The points of all seats, and those one game hands out.
AllPoints(p) == CASE N = 2 -> p[0] + p[1]
                  [] N = 3 -> p[0] + p[1] + p[2]
                  [] N = 4 -> p[0] + p[1] + p[2] + p[3]
GamePot == (N * (N - 1)) \div 2
Decided(p, tgt) == \E side \in Sides : sideScores(p)[side] >= tgt

\* A place is worth the number of places behind it.
LEMMA PlacePoints == \A p \in 1..N : PLACE_POINTS[p] = N - p
<1>1. CASE MatchType = "1v1"
  <2>1. PLACE_POINTS = <<1, 0>> /\ N = 2
    BY <1>1, Kinds DEF PLACE_POINTS
  <2> QED BY <2>1
<1>2. CASE MatchType = "1v1v1"
  <2>1. PLACE_POINTS = <<2, 1, 0>> /\ N = 3
    BY <1>2, Kinds DEF PLACE_POINTS
  <2> QED BY <2>1
<1>3. CASE MatchType = "2v2"
  <2>1. PLACE_POINTS = <<3, 2, 1, 0>> /\ N = 4
    BY <1>3, Kinds DEF PLACE_POINTS
  <2> QED BY <2>1
<1> QED BY <1>1, <1>2, <1>3, Kinds

\* A finished game hands out all its points, and to no quitter more than to a
\* player who is there.
LEMMA PointsFacts ==
  ASSUME NEW o, NEW Q, Finished(o, Q)
  PROVE  /\ gamePoints(o.order) \in [Seats -> 0..3]
         /\ AllPoints(gamePoints(o.order)) = GamePot
         /\ \A s, t \in Seats : s \in Q /\ t \notin Q =>
              gamePoints(o.order)[s] <= gamePoints(o.order)[t]
<1> DEFINE g == gamePoints(o.order)
           place(s) == CHOOSE p \in 1..N : o.order[p] = s
<1>1. Len(o.order) = N /\ Members(o.order) = Seats /\ Distinct(o.order)
  BY DEF Finished
<1>2. \A s \in Seats : \E p \in 1..N : o.order[p] = s
  BY <1>1 DEF Members
<1>3. \A s \in Seats : place(s) \in 1..N /\ o.order[place(s)] = s
  BY <1>2
<1>4. \A s \in Seats : g[s] = PLACE_POINTS[place(s)]
  BY DEF gamePoints
<1>5. g = [s \in Seats |-> PLACE_POINTS[place(s)]]
  BY DEF gamePoints
<1> HIDE DEF place, g
<1>6. \A s \in Seats : g[s] = N - place(s)
  BY <1>3, <1>4, PlacePoints
<1>7. \A s \in Seats : g[s] \in 0..3
  BY <1>3, <1>6, NAssumption
<1>8. \A s, t \in Seats : s # t => place(s) # place(t)
  BY <1>3
<1>9. AllPoints(g) = GamePot
  <2>1. CASE N = 2
    <3>1. 0 \in Seats /\ 1 \in Seats
      BY <2>1 DEF Seats
    <3>2. /\ g[0] = 2 - place(0) /\ g[1] = 2 - place(1)
          /\ place(0) \in 1..2 /\ place(1) \in 1..2 /\ place(0) # place(1)
      BY <1>3, <1>6, <1>8, <2>1, <3>1
    <3>3. g[0] + g[1] = 1
      BY <3>2
    <3>4. GamePot = 1
      BY <2>1 DEF GamePot
    <3> QED BY <2>1, <3>3, <3>4 DEF AllPoints
  <2>2. CASE N = 3
    <3>1. 0 \in Seats /\ 1 \in Seats /\ 2 \in Seats
      BY <2>2 DEF Seats
    <3>2. /\ g[0] = 3 - place(0) /\ g[1] = 3 - place(1) /\ g[2] = 3 - place(2)
          /\ place(0) \in 1..3 /\ place(1) \in 1..3 /\ place(2) \in 1..3
          /\ place(0) # place(1) /\ place(0) # place(2) /\ place(1) # place(2)
      BY <1>3, <1>6, <1>8, <2>2, <3>1
    <3>3. g[0] + g[1] + g[2] = 3
      BY <3>2
    <3>4. GamePot = 3
      BY <2>2 DEF GamePot
    <3> QED BY <2>2, <3>3, <3>4 DEF AllPoints
  <2>3. CASE N = 4
    <3>1. 0 \in Seats /\ 1 \in Seats /\ 2 \in Seats /\ 3 \in Seats
      BY <2>3 DEF Seats
    <3>2. /\ g[0] = 4 - place(0) /\ g[1] = 4 - place(1) /\ g[2] = 4 - place(2) /\ g[3] = 4 - place(3)
          /\ place(0) \in 1..4 /\ place(1) \in 1..4 /\ place(2) \in 1..4 /\ place(3) \in 1..4
          /\ place(0) # place(1) /\ place(0) # place(2) /\ place(0) # place(3)
          /\ place(1) # place(2) /\ place(1) # place(3) /\ place(2) # place(3)
      BY <1>3, <1>6, <1>8, <2>3, <3>1
    <3>3. g[0] + g[1] + g[2] + g[3] = 6
      BY <3>2
    <3>4. GamePot = 6
      BY <2>3 DEF GamePot
    <3> QED BY <2>3, <3>3, <3>4 DEF AllPoints
  <2> QED BY <2>1, <2>2, <2>3, NAssumption
<1>10. ASSUME NEW s \in Seats, NEW t \in Seats, s \in Q, t \notin Q PROVE g[s] <= g[t]
  <2>1. /\ place(s) \in 1..N /\ place(t) \in 1..N
        /\ o.order[place(s)] \in Q /\ o.order[place(t)] \notin Q
    BY <1>3, <1>10
  <2>2. ~(place(s) < place(t))
    BY <2>1 DEF Finished
  <2>3. N \in Int /\ place(s) \in Int /\ place(t) \in Int
    BY <2>1, NAssumption
  <2> QED BY <1>6, <2>2, <2>3
<1>11. g \in [Seats -> 0..3]
  BY <1>5, <1>4, <1>7
<1> QED BY <1>9, <1>10, <1>11 DEF g

\* The points of a side: a seat's, or a team's.
LEMMA SideScoresAre ==
  ASSUME NEW p
  PROVE  /\ sideScores(p) = [side \in Sides |-> sideScores(p)[side]]
         /\ MatchType # "2v2" => \A side \in Sides : side \in Seats /\ sideScores(p)[side] = p[side]
         /\ MatchType = "2v2" => /\ sideScores(p)[0] = p[0] + p[2]
                                 /\ sideScores(p)[1] = p[1] + p[3]
<1>1. MatchType # "2v2" => Sides = Seats
  BY DEF Sides
<1>2. MatchType = "2v2" => Sides = {0, 1}
  BY DEF Sides
<1> QED BY <1>1, <1>2 DEF sideScores

\* A game adds at most six points to a side.
LEMMA SidesGain ==
  ASSUME NEW p \in [Seats -> Nat], NEW g \in [Seats -> 0..3], NEW q,
         q = [s \in Seats |-> p[s] + g[s]]
  PROVE  /\ q \in [Seats -> Nat]
         /\ \A side \in Sides : /\ sideScores(p)[side] \in Nat /\ sideScores(q)[side] \in Nat
                                /\ sideScores(q)[side] <= sideScores(p)[side] + 6
         /\ AllPoints(q) = AllPoints(p) + AllPoints(g)
<1>1. \A s \in Seats : p[s] \in Nat /\ g[s] \in 0..3 /\ q[s] = p[s] + g[s]
  OBVIOUS
<1>2. q \in [Seats -> Nat]
  OBVIOUS
<1>3. CASE MatchType = "2v2"
  <2>1. Sides = {0, 1} /\ 0 \in Seats /\ 1 \in Seats /\ 2 \in Seats /\ 3 \in Seats /\ N = 4
    BY <1>3, Kinds
  <2>2. /\ sideScores(p)[0] = p[0] + p[2] /\ sideScores(p)[1] = p[1] + p[3]
        /\ sideScores(q)[0] = q[0] + q[2] /\ sideScores(q)[1] = q[1] + q[3]
    BY <1>3, SideScoresAre
  <2>3. AllPoints(q) = AllPoints(p) + AllPoints(g)
    BY <1>1, <2>1 DEF AllPoints
  <2>4. \A side \in Sides : /\ sideScores(p)[side] \in Nat /\ sideScores(q)[side] \in Nat
                            /\ sideScores(q)[side] <= sideScores(p)[side] + 6
    BY <1>1, <2>1, <2>2
  <2> QED BY <1>2, <2>3, <2>4
<1>4. CASE MatchType # "2v2"
  <2>1. \A side \in Sides : side \in Seats /\ sideScores(p)[side] = p[side]
                            /\ sideScores(q)[side] = q[side]
    BY <1>4, SideScoresAre
  <2>2. \/ N = 2 /\ 0 \in Seats /\ 1 \in Seats
        \/ N = 3 /\ 0 \in Seats /\ 1 \in Seats /\ 2 \in Seats
    BY <1>4, Kinds
  <2>3. AllPoints(q) = AllPoints(p) + AllPoints(g)
    BY <1>1, <2>2 DEF AllPoints
  <2> QED BY <1>1, <1>2, <2>1, <2>3
<1> QED BY <1>3, <1>4

\* After a game that decided nothing every side is below the target again.
LEMMA TargetStaysAhead ==
  ASSUME NEW scores, NEW tgt \in Nat, ~IsWon(scores, tgt),
         \A side \in Sides : scores[side] \in Nat /\ scores[side] < tgt + 6
  PROVE  newTarget(scores, tgt) \in Nat /\ \A side \in Sides : scores[side] < newTarget(scores, tgt)
<1>1. \E lead \in Sides : \A other \in Sides : scores[other] <= scores[lead]
  <2>1. Sides = {0, 1} \/ Sides = {0, 1, 2}
    BY Kinds
  <2>2. CASE Sides = {0, 1}
    BY <2>2
  <2>3. CASE Sides = {0, 1, 2}
    BY <2>3
  <2> QED BY <2>1, <2>2, <2>3
<1>2. PICK lead \in Sides : \A other \in Sides : scores[other] <= scores[lead]
  BY <1>1
<1>3. lead \in Leaders(scores)
  BY <1>2 DEF Leaders
<1>4. CASE scores[lead] < tgt
  <2>1. \A side \in Sides : scores[side] < tgt
    BY <1>2, <1>4
  <2> QED BY <2>1 DEF newTarget, TARGET_STEP
<1>5. CASE ~(scores[lead] < tgt)
  <2>1. scores[lead] >= tgt
    BY <1>5
  <2>2. Leaders(scores) # {lead}
    BY <2>1 DEF IsWon, WonBy
  <2>3. scores[lead] >= tgt - 1
    BY <2>1
  <2>4. Extended(scores, tgt)
    BY <1>3, <2>2, <2>3 DEF Extended
  <2> QED BY <2>4 DEF newTarget, TARGET_STEP
<1> QED BY <1>4, <1>5

-----------------------------------------------------------------------------
(* The switch and the next game.                                           *)

\* A deal is conserved, and moving a card between two hands keeps it so.
LEMMA DealConserved == \A deal \in Deals : Conserved(deal)
BY DealsAssumption DEF Conserved

\* A card moves from one hand to another.
LEMMA MoveCard ==
  ASSUME NEW h, Conserved(h), NEW a \in Seats, NEW b \in Seats, a # b, NEW card \in h[a]
  PROVE  Conserved([h EXCEPT ![a] = @ \ {card}, ![b] = @ \cup {card}])
<1> DEFINE k == [h EXCEPT ![a] = @ \ {card}, ![b] = @ \cup {card}]
<1>1. h \in [Seats -> SUBSET Card] /\ \A s, t \in Seats : s # t => h[s] \cap h[t] = {}
  BY DEF Conserved
<1>2. /\ k \in [Seats -> SUBSET Card]
      /\ k[a] = h[a] \ {card} /\ k[b] = h[b] \cup {card}
      /\ \A s \in Seats \ {a, b} : k[s] = h[s]
  BY <1>1
<1> HIDE DEF k
<1>3. \A s, t \in Seats : s # t => k[s] \cap k[t] = {}
  <2> SUFFICES ASSUME NEW s \in Seats, NEW t \in Seats, s # t PROVE k[s] \cap k[t] = {}
    OBVIOUS
  <2>1. h[s] \cap h[t] = {} /\ h[a] \cap h[s] \subseteq h[a] /\ h[a] \cap h[b] = {}
    BY <1>1
  <2>2. (s # a => card \notin h[s]) /\ (t # a => card \notin h[t])
    BY <1>1
  <2> QED BY <1>2, <2>1, <2>2
<1>4. UNION {k[s] : s \in Seats} = UNION {h[s] : s \in Seats}
  <2>1. ASSUME NEW c, NEW s \in Seats, c \in k[s] PROVE \E t \in Seats : c \in h[t]
    BY <1>2, <2>1
  <2>2. ASSUME NEW c, NEW s \in Seats, c \in h[s] PROVE \E t \in Seats : c \in k[t]
    <3>1. CASE s = a /\ c = card
      BY <1>2, <3>1
    <3>2. CASE ~(s = a /\ c = card)
      <4>1. c \in k[s]
        BY <1>2, <2>2, <3>2
      <4> QED BY <4>1
    <3> QED BY <3>1, <3>2
  <2> QED BY <2>1, <2>2
<1> QED BY <1>2, <1>3, <1>4 DEF Conserved, k

\* What a step that begins a game leaves behind.
Begun(gn) == state' = "playing" /\ Going(game', gn) /\ leader' \in game'.holding

\* A pending game that begins goes on without those who left, one of the others
\* leads it.
LEMMA BegunFacts ==
  ASSUME NEW gn, NEW lead \in Seats, LeftOK(gn), ~mustEndAfterForfeit(gn),
         beginPendingGame(lead, gn)
  PROVE  Begun(gn)
<1>1. ~FewHolders(Seats \ Members(gn))
  BY OpenHasTwo
<1>2. Going(WithoutGone(gn), gn) /\ WithoutGone(gn).holding = Seats \ Members(gn)
  BY <1>1, WithoutGoneFacts
<1>3. LedBy(lead, gn) \in Seats \ Members(gn)
  BY <1>1, LedBySomeone DEF LeftOK
<1> QED BY <1>2, <1>3 DEF beginPendingGame, Begun

\* The winner and the loser of a finished game are two seats.
LEMMA FirstAndLast ==
  ASSUME NEW o, NEW Q, Finished(o, Q)
  PROVE  o.order[1] \in Seats /\ o.order[N] \in Seats /\ o.order[1] # o.order[N]
<1>1. 1 \in 1..N /\ N \in 1..N /\ 1 < N
  BY NAssumption
<1> QED BY <1>1 DEF Finished, Distinct

\* The next game: it begins, or the winner of the last one owes a card.
LEMMA PreparedFacts ==
  ASSUME NEW o, NEW Q, NEW gn, Finished(o, Q), LeftOK(gn), ~mustEndAfterForfeit(gn),
         prepareNextGame(o, gn)
  PROVE  /\ gameIndex' = gameIndex + 1
         /\ Conserved(hands')
         /\ \/ Begun(gn)
            \/ /\ state' = "awaitingSwitch"
               /\ pending'.winner \in Seats /\ pending'.loser \in Seats
               /\ pending'.winner # pending'.loser
<1> DEFINE winner == o.order[1]
           loser == o.order[N]
<1>1. winner \in Seats /\ loser \in Seats /\ winner # loser
  BY FirstAndLast
<1>2. gameIndex' = gameIndex + 1
  BY DEF prepareNextGame
<1>3. PICK deal \in Deals :
        IF loser \in Members(gn) \/ Joker \subseteq deal[loser]
          THEN hands' = deal /\ beginPendingGame(winner, gn)
          ELSE startSwitch(deal, o, winner, loser, gn)
  BY DEF prepareNextGame
<1> HIDE DEF winner, loser
<1>4. Conserved(deal)
  BY DealConserved
<1>5. CASE loser \in Members(gn) \/ Joker \subseteq deal[loser]
  BY <1>1, <1>2, <1>3, <1>4, <1>5, BegunFacts
<1>6. CASE ~(loser \in Members(gn) \/ Joker \subseteq deal[loser])
  <2>1. startSwitch(deal, o, winner, loser, gn)
    BY <1>3, <1>6
  <2>2. PICK card \in strongest(deal[loser]) :
          /\ hands' = AutoGive(deal, winner, loser, card)
          /\ \/ beginPendingGame(loser, gn)
             \/ /\ state' = "awaitingSwitch"
                /\ pending' = [winner |-> winner, loser |-> loser, received |-> card]
    BY <2>1 DEF startSwitch
  <2>3. card \in deal[loser]
    BY DEF strongest
  <2>4. Conserved(hands')
    BY <1>1, <1>4, <2>2, <2>3, MoveCard DEF AutoGive
  <2>5. CASE beginPendingGame(loser, gn)
    BY <1>1, <1>2, <2>4, <2>5, BegunFacts
  <2>6. CASE /\ state' = "awaitingSwitch"
             /\ pending' = [winner |-> winner, loser |-> loser, received |-> card]
    BY <1>1, <1>2, <2>4, <2>6
  <2> QED BY <2>2, <2>5, <2>6
<1> QED BY <1>5, <1>6

-----------------------------------------------------------------------------
(* The steps of a match.                                                   *)

\* PointsAddUp, of given points and target.
AddUp(p, tgt, index) ==
    AllPoints(p) = (IF Decided(p, tgt) THEN index + 1 ELSE index) * GamePot

\* PointsAddUp in these terms, now and after a step.
LEMMA PointsAddUpIs ==
  /\ PointsAddUp <=> AddUp(cumulative, target, gameIndex)
  /\ PointsAddUp' <=> AddUp(cumulative', target', gameIndex')
<1>1. PointsAddUp <=> AddUp(cumulative, target, gameIndex)
  BY DEF PointsAddUp, AddUp, AllPoints, Decided, GamePot
<1>2. PointsAddUp' <=> AddUp(cumulative', target', gameIndex')
  BY DEF PointsAddUp, AddUp, AllPoints, Decided, GamePot
<1> QED BY <1>1, <1>2

\* One game more hands out one pot more.
LEMMA OneMorePot == \A n \in Nat : n * GamePot + GamePot = (n + 1) * GamePot
<1>1. GamePot \in {1, 3, 6}
  BY NAssumption DEF GamePot
<1> HIDE DEF GamePot
<1> QED BY <1>1

\* What a step does with the points of the seats Q, and with a game it begins.
Gains(Q) ==
    \A s, t \in Seats : s \in Q /\ t \notin Q =>
      cumulative'[s] - cumulative[s] <= cumulative'[t] - cumulative[t]
Leads ==
    state' = "playing" /\ (state # "playing" \/ gameIndex' # gameIndex)
      => leader' \in game'.holding

\* Nobody gains from a step that scores nothing.
LEMMA NoGain ==
  ASSUME MatchInv, cumulative' = cumulative
  PROVE  \A Q : Gains(Q)
<1>1. \A s \in Seats : cumulative'[s] - cumulative[s] = 0
  BY DEF MatchInv, MatchTypes
<1> QED BY <1>1 DEF Gains

\* The game ends: it is scored, and the match ends or the next game is prepared.
LEMMA GameEndKeeps ==
  ASSUME MatchInv, state = "playing", NEW o, NEW gn, NEW Q, LeftOK(gn),
         ~mustEndAfterForfeit(gn), goneSeats' = gn, Finished(o, Q), onGameEnd(o, gn)
  PROVE  MatchInv' /\ Gains(Q) /\ Leads
<1> DEFINE gained == gamePoints(o.order)
           points == [s \in Seats |-> cumulative[s] + gained[s]]
           scores == sideScores(points)
<1>1. /\ target \in Nat /\ cumulative \in [Seats -> Nat] /\ gameIndex \in Nat /\ Conserved(hands)
      /\ \A side \in Sides : sideScores(cumulative)[side] < target
      /\ AddUp(cumulative, target, gameIndex)
  BY PointsAddUpIs DEF MatchInv, MatchTypes, Contested
<1>2. /\ gained \in [Seats -> 0..3] /\ AllPoints(gained) = GamePot
      /\ \A s, t \in Seats : s \in Q /\ t \notin Q => gained[s] <= gained[t]
  BY PointsFacts
<1>3. cumulative' = points
  BY DEF onGameEnd
<1>4. \/ /\ IsWon(scores, target) /\ state' = "matchOver"
         /\ UNCHANGED <<target, gameIndex, hands>>
      \/ /\ ~IsWon(scores, target) /\ target' = newTarget(scores, target)
         /\ prepareNextGame(o, gn)
  BY DEF onGameEnd
<1> HIDE DEF gained
<1>5. /\ points \in [Seats -> Nat]
      /\ \A side \in Sides : /\ sideScores(cumulative)[side] \in Nat /\ scores[side] \in Nat
                             /\ scores[side] <= sideScores(cumulative)[side] + 6
      /\ AllPoints(points) = AllPoints(cumulative) + AllPoints(gained)
  BY <1>1, <1>2, SidesGain
<1>6. \A s \in Seats : cumulative'[s] - cumulative[s] = gained[s]
  BY <1>1, <1>2, <1>3
<1>7. Gains(Q)
  BY <1>2, <1>6 DEF Gains
<1> HIDE DEF points
<1>8. AllPoints(points) = (gameIndex + 1) * GamePot
  <2>1. ~Decided(cumulative, target)
    <3>1. \A side \in Sides : ~(sideScores(cumulative)[side] >= target)
      BY <1>1, <1>5
    <3> QED BY <3>1 DEF Decided
  <2>2. AllPoints(cumulative) = gameIndex * GamePot
    BY <1>1, <2>1 DEF AddUp
  <2> QED BY <1>1, <1>2, <1>5, <2>2, OneMorePot
<1>9. CASE /\ IsWon(scores, target) /\ state' = "matchOver"
           /\ UNCHANGED <<target, gameIndex, hands>>
  <2>1. Decided(points, target)
    BY <1>9 DEF IsWon, WonBy, Decided
  <2>2. PointsAddUp'
    BY <1>3, <1>8, <1>9, <2>1, PointsAddUpIs DEF AddUp
  <2>3. MatchTypes'
    BY <1>1, <1>3, <1>5, <1>9 DEF MatchTypes
  <2>4. Contested' /\ Owed' /\ Leads
    BY <1>9 DEF Contested, Owed, Leads
  <2> QED BY <1>7, <1>9, <2>2, <2>3, <2>4 DEF MatchInv
<1>10. CASE /\ ~IsWon(scores, target) /\ target' = newTarget(scores, target)
            /\ prepareNextGame(o, gn)
  <2>1. \A side \in Sides : scores[side] \in Nat /\ scores[side] < target + 6
    BY <1>1, <1>5
  <2>2. target' \in Nat /\ \A side \in Sides : scores[side] < target'
    BY <1>1, <1>10, <2>1, TargetStaysAhead
  <2>3. ~Decided(points, target')
    <3>1. \A side \in Sides : ~(scores[side] >= target')
      BY <2>1, <2>2
    <3> QED BY <3>1 DEF Decided
  <2>4. /\ gameIndex' = gameIndex + 1 /\ Conserved(hands')
        /\ \/ Begun(gn)
           \/ /\ state' = "awaitingSwitch"
              /\ pending'.winner \in Seats /\ pending'.loser \in Seats
              /\ pending'.winner # pending'.loser
    BY <1>10, PreparedFacts
  <2>5. PointsAddUp'
    BY <1>3, <1>8, <2>3, <2>4, PointsAddUpIs DEF AddUp
  <2>6. state' \in {"playing", "awaitingSwitch"}
    BY <2>4 DEF Begun
  <2>7. MatchTypes'
    BY <1>1, <1>3, <1>5, <2>2, <2>4, <2>6 DEF MatchTypes
  <2>8. Contested'
    BY <1>3, <2>2 DEF Contested
  <2>9. Owed' /\ (state' = "playing" => Going(game', gn)) /\ Leads
    BY <2>4 DEF Owed, Begun, Leads
  <2> QED BY <1>7, <2>5, <2>7, <2>8, <2>9 DEF MatchInv
<1> QED BY <1>4, <1>9, <1>10

\* A step inside a game, which goes on or ends.
LEMMA GameStepKeeps ==
  ASSUME MatchInv, state = "playing", NEW o, NEW gn, NEW Q, LeftOK(gn),
         ~mustEndAfterForfeit(gn), goneSeats' = gn, AfterGameStep(o, gn),
         Going(o, gn) \/ Finished(o, Q)
  PROVE  MatchInv' /\ Gains(Q) /\ Leads
<1>1. CASE Finished(o, Q)
  <2>1. onGameEnd(o, gn)
    BY <1>1 DEF AfterGameStep, Finished
  <2> QED BY <1>1, <2>1, GameEndKeeps
<1>2. CASE Going(o, gn)
  <2>1. GameGoesOn(o)
    BY <1>2 DEF AfterGameStep, Going, Outcome
  <2>2. game' = o /\ UNCHANGED <<target, cumulative, state, gameIndex, hands, pending>>
    BY <2>1 DEF GameGoesOn
  <2>3. MatchTypes' /\ Contested' /\ Owed'
    BY <2>2 DEF MatchInv, MatchTypes, Contested, Owed
  <2>4. PointsAddUp'
    BY <2>2, PointsAddUpIs DEF MatchInv
  <2>5. Gains(Q) /\ Leads
    BY <2>2, NoGain DEF Leads
  <2> QED BY <1>2, <2>2, <2>3, <2>4, <2>5 DEF MatchInv
<1> QED BY <1>1, <1>2

\* A step that begins the pending game, moving at most a card.
LEMMA BegunKeeps ==
  ASSUME MatchInv, NEW gn, LeftOK(gn), ~mustEndAfterForfeit(gn), goneSeats' = gn,
         state # "matchOver", Begun(gn), Conserved(hands'),
         UNCHANGED <<target, cumulative, gameIndex>>
  PROVE  MatchInv' /\ Leads /\ \A Q : Gains(Q)
<1>1. MatchTypes' /\ Contested' /\ Owed' /\ Leads
  BY DEF MatchInv, MatchTypes, Contested, Owed, Begun, Leads
<1>2. PointsAddUp'
  BY PointsAddUpIs DEF MatchInv
<1>3. state' = "playing" => Going(game', goneSeats')
  BY DEF Begun
<1> QED BY <1>1, <1>2, <1>3, NoGain DEF MatchInv

\* The quitters without a place, after a step.
Placeless == Members(goneSeats') \ Members(game.order)

\* A last card keeps the invariant.
LEMMA playLastKeeps ==
  ASSUME MatchInv, NEW seat \in Seats, playLast(seat)
  PROVE  MatchInv' /\ Gains(Placeless) /\ Leads
<1>1. /\ state = "playing" /\ seat \in game.holding /\ goneSeats' = goneSeats
      /\ AfterGameStep(Emptied(game, seat), goneSeats)
  BY DEF playLast
<1>2. LeftOK(goneSeats) /\ Going(game, goneSeats) /\ ~mustEndAfterForfeit(goneSeats)
  BY <1>1 DEF MatchInv, MatchTypes, Contested
<1>3. \/ Going(Emptied(game, seat), goneSeats)
      \/ Finished(Emptied(game, seat), Placeless)
  BY <1>1, <1>2, EmptiedFacts DEF Placeless
<1> QED BY <1>1, <1>2, <1>3, GameStepKeeps

\* The card given back keeps the invariant.
LEMMA switchGiveKeeps ==
  ASSUME MatchInv, NEW seat \in Seats, NEW card, switchGive(seat, card)
  PROVE  MatchInv' /\ Gains(Placeless) /\ Leads
<1>1. /\ state = "awaitingSwitch" /\ seat = pending.winner
      /\ card \in ReturnCards(hands[seat], pending.received)
      /\ hands' = [hands EXCEPT ![seat] = @ \ {card}, ![pending.loser] = @ \cup {card}]
      /\ beginPendingGame(pending.loser, goneSeats)
      /\ UNCHANGED <<target, cumulative, gameIndex, goneSeats>>
  BY DEF switchGive
<1>2. /\ LeftOK(goneSeats) /\ ~mustEndAfterForfeit(goneSeats) /\ Conserved(hands)
      /\ pending.loser \in Seats /\ pending.loser # seat
  BY <1>1 DEF MatchInv, MatchTypes, Contested, Owed
<1>3. card \in hands[seat]
  BY <1>1 DEF ReturnCards
<1>4. Conserved(hands')
  BY <1>1, <1>2, <1>3, MoveCard
<1>5. Begun(goneSeats)
  BY <1>1, <1>2, BegunFacts
<1> QED BY <1>1, <1>2, <1>4, <1>5, BegunKeeps

\* A player who leaves keeps the invariant, whichever course it takes.
LEMMA forfeitKeeps ==
  ASSUME MatchInv, NEW seat \in Seats, forfeit(seat)
  PROVE  MatchInv' /\ Gains(Placeless) /\ Leads
<1> DEFINE gn == Append(goneSeats, seat)
<1>1. state # "matchOver" /\ seat \notin Members(goneSeats) /\ goneSeats' = gn
  BY DEF forfeit
<1>2. LeftOK(goneSeats)
  BY DEF MatchInv, MatchTypes
<1>3. LeftOK(gn)
  BY <1>1, <1>2, MembersAppend, DistinctAppend DEF LeftOK
<1>4. state \in {"playing", "awaitingSwitch"}
  BY <1>1 DEF MatchInv, MatchTypes
<1>5. \/ mustEndAfterForfeit(gn) /\ endByForfeit(gn)
      \/ ~mustEndAfterForfeit(gn) /\ state = "playing" /\ AfterGameStep(Left(game, seat), gn)
      \/ ~mustEndAfterForfeit(gn) /\ state = "awaitingSwitch" /\ onSwitchForfeit(seat, gn)
  BY <1>4 DEF forfeit
<1> HIDE DEF gn
<1>6. CASE mustEndAfterForfeit(gn) /\ endByForfeit(gn)
  <2>1. state' = "matchOver" /\ UNCHANGED <<target, cumulative, gameIndex, hands>>
    BY <1>6 DEF endByForfeit
  <2>2. MatchTypes' /\ Contested' /\ Owed' /\ Leads
    BY <1>1, <1>3, <2>1 DEF MatchInv, MatchTypes, Contested, Owed, Leads
  <2>3. PointsAddUp'
    BY <2>1, PointsAddUpIs DEF MatchInv
  <2> QED BY <2>1, <2>2, <2>3, NoGain DEF MatchInv
<1>7. CASE ~mustEndAfterForfeit(gn) /\ state = "playing" /\ AfterGameStep(Left(game, seat), gn)
  <2>1. Going(game, goneSeats)
    BY <1>7 DEF MatchInv
  <2>2. Going(Left(game, seat), gn) \/ Finished(Left(game, seat), Placeless)
    BY <1>1, <1>2, <2>1, LeftFacts DEF Placeless, gn
  <2> QED BY <1>1, <1>3, <1>7, <2>2, GameStepKeeps
<1>8. CASE ~mustEndAfterForfeit(gn) /\ state = "awaitingSwitch" /\ onSwitchForfeit(seat, gn)
  <2>1. CASE seat = pending.winner
    <3>1. /\ beginPendingGame(pending.loser, gn)
          /\ UNCHANGED <<target, cumulative, gameIndex, hands>>
      BY <1>8, <2>1 DEF onSwitchForfeit
    <3>2. pending.loser \in Seats /\ Conserved(hands)
      BY <1>8 DEF MatchInv, MatchTypes, Owed
    <3>3. Begun(gn)
      BY <1>3, <1>8, <3>1, <3>2, BegunFacts
    <3> QED BY <1>1, <1>3, <1>8, <3>1, <3>2, <3>3, BegunKeeps
  <2>2. CASE seat # pending.winner
    <3>1. UNCHANGED <<target, cumulative, state, gameIndex, game, hands, pending>>
      BY <1>8, <2>2 DEF onSwitchForfeit
    <3>2. MatchTypes' /\ Contested' /\ Owed' /\ Leads
      BY <1>1, <1>3, <1>8, <3>1 DEF MatchInv, MatchTypes, Contested, Owed, Leads
    <3>3. PointsAddUp'
      BY <3>1, PointsAddUpIs DEF MatchInv
    <3> QED BY <1>8, <3>1, <3>2, <3>3, NoGain DEF MatchInv
  <2> QED BY <2>1, <2>2
<1> QED BY <1>5, <1>6, <1>7, <1>8

\* A match begins with the invariant.
LEMMA InitMatchInv == Init => MatchInv
<1> SUFFICES ASSUME Init PROVE MatchInv
  OBVIOUS
<1>1. Members(<<>>) = {} /\ Distinct(<<>>)
  BY DEF Members, Distinct
<1>2. ~FewHolders(Seats)
  <2>1. 0 \in Seats /\ 1 \in Seats
    BY NAssumption DEF Seats
  <2> QED BY <2>1 DEF FewHolders
<1>3. ~mustEndAfterForfeit(<<>>)
  <2>1. CASE MatchType = "2v2"
    <3>1. TEAMS[1] = {0, 2} /\ TEAMS[2] = {1, 3} /\ Sides = {0, 1}
      BY <2>1, Kinds DEF TEAMS
    <3>2. \A side \in Sides : SidePresent(side, <<>>)
      BY <1>1, <2>1, <3>1 DEF SidePresent, seatsOfSide
    <3> QED BY <2>1, <3>2 DEF mustEndAfterForfeit
  <2>2. CASE MatchType # "2v2"
    BY <1>1, <1>2, <2>2 DEF mustEndAfterForfeit
  <2> QED BY <2>1, <2>2
<1>4. MatchTypes
  <2>1. LeftOK(goneSeats)
    BY <1>1 DEF Init, LeftOK
  <2>2. Conserved(hands)
    BY DealConserved DEF Init
  <2>3. cumulative \in [Seats -> Nat]
    BY DEF Init
  <2> QED BY <2>1, <2>2, <2>3, TargetAssumption DEF Init, MatchTypes
<1>5. \A s \in Seats : cumulative[s] = 0
  BY DEF Init
<1>6. \A side \in Sides : sideScores(cumulative)[side] = 0
  <2>1. CASE MatchType = "2v2"
    <3>1. Sides = {0, 1} /\ 0 \in Seats /\ 1 \in Seats /\ 2 \in Seats /\ 3 \in Seats
      BY <2>1, Kinds
    <3> QED BY <1>5, <2>1, <3>1, SideScoresAre
  <2>2. CASE MatchType # "2v2"
    BY <1>5, <2>2, SideScoresAre
  <2> QED BY <2>1, <2>2
<1>7. target \in Nat \ {0} /\ gameIndex = 0
  BY TargetAssumption DEF Init
<1>8. Contested
  BY <1>3, <1>6, <1>7 DEF Init, Contested
<1>9. Going(game, goneSeats)
  <2>1. game = Outcome(Seats, <<>>, <<>>, FALSE) /\ goneSeats = <<>>
    BY DEF Init, NewGame
  <2> QED BY <1>1, <1>2, <2>1 DEF Going, Outcome
<1>10. PointsAddUp
  <2>1. ~Decided(cumulative, target)
    <3>1. \A side \in Sides : ~(sideScores(cumulative)[side] >= target)
      BY <1>6, <1>7
    <3> QED BY <3>1 DEF Decided
  <2>2. AllPoints(cumulative) = 0
    <3>1. \/ N = 2 /\ 0 \in Seats /\ 1 \in Seats
          \/ N = 3 /\ 0 \in Seats /\ 1 \in Seats /\ 2 \in Seats
          \/ N = 4 /\ 0 \in Seats /\ 1 \in Seats /\ 2 \in Seats /\ 3 \in Seats
      BY Kinds
    <3> QED BY <1>5, <3>1 DEF AllPoints
  <2>3. GamePot \in Nat
    BY NAssumption DEF GamePot
  <2> HIDE DEF GamePot
  <2>4. 0 * GamePot = 0
    BY <2>3
  <2> QED BY <1>7, <2>1, <2>2, <2>4, PointsAddUpIs DEF AddUp
<1>11. Owed
  BY DEF Init, Owed
<1> QED BY <1>4, <1>8, <1>9, <1>10, <1>11 DEF MatchInv

\* Every step keeps the invariant, gains no quitter more than a player who is
\* there and begins no game without a leader.
LEMMA NextMatchInv ==
  MatchInv /\ [Next]_vars => MatchInv' /\ ((Gains(Placeless) /\ Leads) \/ UNCHANGED vars)
<1> SUFFICES ASSUME MatchInv, [Next]_vars
             PROVE  MatchInv' /\ ((Gains(Placeless) /\ Leads) \/ UNCHANGED vars)
  OBVIOUS
<1>1. CASE UNCHANGED vars
  <2>1. MatchTypes' /\ Contested' /\ Owed' /\ (state' = "playing" => Going(game', goneSeats'))
    BY <1>1 DEF vars, MatchInv, MatchTypes, Contested, Owed
  <2>2. PointsAddUp'
    BY <1>1, PointsAddUpIs DEF vars, MatchInv
  <2> QED BY <1>1, <2>1, <2>2 DEF MatchInv
<1>2. ASSUME NEW seat \in Seats, playLast(seat) PROVE MatchInv' /\ Gains(Placeless) /\ Leads
  BY <1>2, playLastKeeps
<1>3. ASSUME NEW seat \in Seats, forfeit(seat) PROVE MatchInv' /\ Gains(Placeless) /\ Leads
  BY <1>3, forfeitKeeps
<1>4. ASSUME NEW seat \in Seats, NEW card \in Card, switchGive(seat, card)
      PROVE  MatchInv' /\ Gains(Placeless) /\ Leads
  BY <1>4, switchGiveKeeps
<1> QED BY <1>1, <1>2, <1>3, <1>4 DEF Next

\* The invariant of a match, from which the theorems below follow.
THEOREM MatchInvariance == Spec => []MatchInv
BY InitMatchInv, NextMatchInv, PTL DEF Spec

\* What the invariant says of a contest: it has at least two players and all of its
\* sides, none of which reached the target.
LEMMA ContestedIsSo == MatchInv => StillContested
<1> SUFFICES ASSUME MatchInv, state # "matchOver" PROVE StillContested
  BY DEF StillContested
<1>1. ~mustEndAfterForfeit(goneSeats) /\ \A side \in Sides : sideScores(cumulative)[side] < target
  BY DEF MatchInv, Contested
<1>2. ~FewHolders(present)
  BY <1>1, OpenHasTwo DEF present
<1>3. state = "playing" => ~game.over
  BY DEF MatchInv, Going, Outcome
<1>4. \A side \in Sides : MatchType = "2v2" => SidePresent(side, goneSeats)
  BY <1>1 DEF mustEndAfterForfeit
<1> QED BY <1>1, <1>2, <1>3, <1>4 DEF StillContested

\* The game under way is one without those who left.
LEMMA GoneIsSo == MatchInv => GoneFromTheGame
BY DEF MatchInv, GoneFromTheGame, Going, Outcome

\* Points and cards are those of the games and the deal.
LEMMA AddedIsSo == MatchInv => NothingIsMadeUp
BY DEF MatchInv, MatchTypes, NothingIsMadeUp, CardsConserved, Conserved

\* For every kind of match, target and deal: until it is over a match is a contest
\* of at least two players and of all its sides, none of which reached the target.
THEOREM ContestsGoOn == Spec => []StillContested
BY ContestedIsSo, MatchInvariance, PTL

\* Who left the match is out of every game it goes on with.
THEOREM QuittersAreOut == Spec => []GoneFromTheGame
BY GoneIsSo, MatchInvariance, PTL

\* Every game hands out its points once, and the switch neither copies nor loses
\* a card.
THEOREM PointsAndCardsAddUp == Spec => []NothingIsMadeUp
BY AddedIsSo, MatchInvariance, PTL

\* A quitter who had no place gains no more than a player who is there.
THEOREM QuittersDoNotGain == Spec => QuittersNeverGain
<1>1. MatchInv /\ [Next]_vars =>
        [\A s \in Members(goneSeats') \ Members(game.order), t \in Seats \ Members(goneSeats') :
           cumulative'[s] - cumulative[s] <= cumulative'[t] - cumulative[t]]_vars
  <2> SUFFICES ASSUME MatchInv, [Next]_vars, ~UNCHANGED vars,
                      NEW s \in Members(goneSeats') \ Members(game.order),
                      NEW t \in Seats \ Members(goneSeats')
               PROVE  cumulative'[s] - cumulative[s] <= cumulative'[t] - cumulative[t]
    OBVIOUS
  <2>1. MatchInv' /\ Gains(Placeless)
    BY NextMatchInv
  <2>2. s \in Seats
    BY <2>1 DEF MatchInv, MatchTypes, LeftOK, Members
  <2> QED BY <2>1, <2>2 DEF Gains, Placeless
<1> QED BY <1>1, MatchInvariance, PTL DEF Spec, QuittersNeverGain

\* A game that begins is led by a player who holds cards in it.
THEOREM GamesAreLed == Spec => BegunGameIsLed
<1>1. MatchInv /\ [Next]_vars =>
        [state' = "playing" /\ (state # "playing" \/ gameIndex' # gameIndex)
           => leader' \in game'.holding]_vars
  BY NextMatchInv DEF Leads
<1> QED BY <1>1, MatchInvariance, PTL DEF Spec, BegunGameIsLed
==============================================================================
