-------------------------- MODULE SingleGameProofs --------------------------
(***************************************************************************)
(* Proofs about a single game, for every deal and tables of 2, 3 and 4:    *)
(* the types, whose turn it is, that nobody is skipped in a trick, that    *)
(* the game implements GameOutcome, that the places come out in order, and *)
(* that a bot's move is accepted and its rollouts are sound and end.       *)
(*                                                                         *)
(* nextEligible looks at holders and passes only, so that the turn never   *)
(* comes back to the pile's owner cannot be seen from one step: the        *)
(* invariant says where the passes are.  Going round from the owner, the   *)
(* seats before the turn are exactly those that passed (TrickGoesRound).   *)
(* In a rollout the passes outlive the plays and only one half of that is  *)
(* left (SimInv), which is enough: N for each card in play and one for     *)
(* each seat that is still asked go down with every step (StepsLeft).      *)
(***************************************************************************)
EXTENDS BotBrain, GameLemmas

TrickGoesRound ==
    playing /\ pile # NoCombo =>
      /\ turn # pileOwner
      /\ \A s \in active : Dist(pileOwner, s) < Dist(pileOwner, turn) => s \in passed
      /\ \A s \in passed : Dist(pileOwner, s) < Dist(pileOwner, turn)

\* The turn, the holders and the table agree with each other.
TableInv ==
    /\ playing => /\ turn \in active
                  /\ turn \notin passed
                  /\ ~FewHolders(active)
    /\ pile = NoCombo => passed = {} /\ pileOwner = NoSeat
    /\ pile # NoCombo => pileOwner \in Seats
    /\ passed \subseteq active
    /\ active \cap Members(gone) = {}
    /\ \A s \in active : hands[s] # {}

IInv == TypeOK /\ TableInv /\ TrickGoesRound

-----------------------------------------------------------------------------
(* Going round the table.                                                  *)

\* From a seat to the next turn of another, or of itself, it is 1 to N places.
LEMMA DistType ==
  ASSUME NEW s \in Seats, NEW t \in Seats
  PROVE  Dist(s, t) \in 1..N
BY NAssumption DEF Dist, Seats

\* Dist(from, s) places on from `from` sits s.
LEMMA StepDist ==
  ASSUME NEW from \in Seats, NEW s \in Seats
  PROVE  Step(from, Dist(from, s)) = s
<1>1. N \in {2, 3, 4}
  BY NAssumption
<1>2. CASE N = 2 BY <1>2 DEF Step, Dist, Seats
<1>3. CASE N = 3 BY <1>3 DEF Step, Dist, Seats
<1>4. CASE N = 4 BY <1>4 DEF Step, Dist, Seats
<1> QED BY <1>1, <1>2, <1>3, <1>4

\* The seat k places on is at distance k.
LEMMA DistStep ==
  ASSUME NEW from \in Seats, NEW k \in 1..N
  PROVE  Step(from, k) \in Seats /\ Dist(from, Step(from, k)) = k
<1>1. N \in {2, 3, 4}
  BY NAssumption
<1>2. CASE N = 2 BY <1>2 DEF Step, Dist, Seats
<1>3. CASE N = 3 BY <1>3 DEF Step, Dist, Seats
<1>4. CASE N = 4 BY <1>4 DEF Step, Dist, Seats
<1> QED BY <1>1, <1>2, <1>3, <1>4

\* The search stops at the closest seat of the set.
LEMMA FirstAfterIsClosest ==
  ASSUME NEW from \in Seats, NEW S, S \subseteq Seats, S # {}
  PROVE  /\ FirstAfter(from, S) \in S
         /\ \A s \in S : Dist(from, FirstAfter(from, S)) <= Dist(from, s)
<1> DEFINE met(k) == Step(from, k) \in S
           first(k) == met(k) /\ \A j \in 1..(k - 1) : ~met(j)
           K == {k \in 1..N : met(k)}
<1>1. PICK s0 \in S : TRUE
  OBVIOUS
<1>2. Dist(from, s0) \in K
  BY <1>1, DistType, StepDist
<1>3. \A k \in K : k \in 1..4
  BY NAssumption
<1>4. \E k \in K : \A j \in K : k <= j
  <2> HIDE DEF K
  <2> QED BY <1>2, <1>3
<1>5. \E k \in 1..N : first(k)
  <2>1. PICK k \in K : \A j \in K : k <= j
    BY <1>4
  <2>2. \A j \in 1..(k - 1) : ~met(j)
    <3> SUFFICES ASSUME NEW j \in 1..(k - 1), met(j) PROVE FALSE
      OBVIOUS
    <3>1. j \in 1..N
      BY NAssumption
    <3>2. j \in K
      BY <3>1
    <3> QED BY <2>1, <3>1, <3>2, NAssumption
  <2> QED BY <2>1, <2>2
<1> DEFINE k1 == CHOOSE k \in 1..N : first(k)
<1>6. k1 \in 1..N /\ first(k1)
  BY <1>5
<1>7. FirstAfter(from, S) = Step(from, k1)
  BY <1>5 DEF FirstAfter
<1> HIDE DEF k1
<1>8. \A s \in S : k1 <= Dist(from, s)
  <2> SUFFICES ASSUME NEW s \in S, ~(k1 <= Dist(from, s)) PROVE FALSE
    OBVIOUS
  <2>1. Dist(from, s) \in 1..N /\ Step(from, Dist(from, s)) = s
    BY DistType, StepDist
  <2>2. Dist(from, s) \in 1..(k1 - 1)
    BY <1>6, <2>1, NAssumption
  <2> QED BY <1>6, <2>1, <2>2
<1> QED BY <1>6, <1>7, <1>8, DistStep

\* Distances seen from a seat t instead of a seat o.
LEMMA DistShift ==
  ASSUME NEW o \in Seats, NEW t \in Seats, NEW s \in Seats, o # t
  PROVE  Dist(t, s) = IF Dist(o, s) > Dist(o, t) THEN Dist(o, s) - Dist(o, t)
                                                 ELSE Dist(o, s) - Dist(o, t) + N
BY NAssumption DEF Dist, Seats

\* The turn moves on within a trick, from t after a pass or because t left:
\* it stays before the owner and skips nobody.
LEMMA TurnGoesOn ==
  ASSUME NEW o \in Seats, NEW t \in Seats, o # t,
         NEW A, A \subseteq Seats, NEW P, P \subseteq A,
         \A s \in A : Dist(o, s) <= Dist(o, t) => s \in P,
         \A s \in P : Dist(o, s) <= Dist(o, t),
         contendersExcludingOwner(A, P, o) # {}
  PROVE  LET t2 == nextEligible(t, A, P)
         IN  /\ t2 \in A /\ t2 \notin P /\ t2 # o
             /\ \A s \in A : Dist(o, s) < Dist(o, t2) => s \in P
             /\ \A s \in P : Dist(o, s) < Dist(o, t2)
             /\ \A s \in A : Dist(t, t2) <= Dist(t, s)
<1> DEFINE t2 == nextEligible(t, A, P)
<1>1. t2 \in A \ P /\ \A s \in A \ P : Dist(t, t2) <= Dist(t, s)
  <2>1. A \ P \subseteq Seats /\ A \ P # {}
    BY DEF contendersExcludingOwner
  <2> QED BY <2>1, FirstAfterIsClosest DEF nextEligible
<1>2. PICK c \in A \ P : c # o
  BY DEF contendersExcludingOwner
<1> HIDE DEF t2
<1>3. t2 \in Seats /\ c \in Seats
  BY <1>1, <1>2
<1>4. \A s \in Seats : Dist(o, s) \in 1..N /\ Dist(t, s) \in 1..N
  BY DistType
<1>5. Dist(o, o) = N
  BY NAssumption DEF Dist, Seats
<1>6. Dist(o, c) > Dist(o, t) /\ Dist(o, c) # N
  <2>1. Dist(o, c) # N
    BY <1>2, <1>3, NAssumption DEF Dist, Seats
  <2>2. ~(Dist(o, c) <= Dist(o, t))
    BY <1>2
  <2> QED BY <1>3, <1>4, <2>1, <2>2, NAssumption
<1>7. Dist(o, t2) > Dist(o, t)
  <2>1. ~(Dist(o, t2) <= Dist(o, t))
    BY <1>1
  <2> QED BY <1>3, <1>4, <2>1, NAssumption
<1>8. \A s \in Seats : Dist(t, s) = IF Dist(o, s) > Dist(o, t)
                                      THEN Dist(o, s) - Dist(o, t)
                                      ELSE Dist(o, s) - Dist(o, t) + N
  BY DistShift
<1>9. Dist(o, t2) <= Dist(o, c)
  BY <1>1, <1>2, <1>3, <1>4, <1>6, <1>7, <1>8, NAssumption
<1>10. t2 # o
  BY <1>3, <1>4, <1>5, <1>6, <1>9, NAssumption
<1>11. \A s \in A : Dist(o, s) < Dist(o, t2) => s \in P
  <2> SUFFICES ASSUME NEW s \in A, Dist(o, s) < Dist(o, t2), s \notin P PROVE FALSE
    OBVIOUS
  <2>1. s \in Seats /\ Dist(t, t2) <= Dist(t, s)
    BY <1>1
  <2>2. Dist(o, s) > Dist(o, t)
    BY <1>3, <1>4, <2>1, NAssumption
  <2> QED BY <1>3, <1>4, <1>7, <1>8, <2>1, <2>2, NAssumption
<1>12. \A s \in P : Dist(o, s) < Dist(o, t2)
  <2> SUFFICES ASSUME NEW s \in P PROVE Dist(o, s) < Dist(o, t2)
    OBVIOUS
  <2>1. s \in Seats /\ Dist(o, s) <= Dist(o, t)
    OBVIOUS
  <2> QED BY <1>3, <1>4, <1>7, <2>1, NAssumption
<1>13. \A s \in A : Dist(t, t2) <= Dist(t, s)
  <2> SUFFICES ASSUME NEW s \in P PROVE Dist(t, t2) <= Dist(t, s)
    BY <1>1
  <2>1. s \in Seats /\ Dist(o, s) <= Dist(o, t)
    OBVIOUS
  <2>2. Dist(t, s) = Dist(o, s) - Dist(o, t) + N
    BY <1>4, <1>8, <2>1, NAssumption
  <2>3. Dist(t, t2) = Dist(o, t2) - Dist(o, t)
    BY <1>3, <1>7, <1>8
  <2> QED BY <1>3, <1>4, <2>1, <2>2, <2>3, NAssumption
<1> QED BY <1>1, <1>10, <1>11, <1>12, <1>13 DEF t2

\* The turn moves on after a play by o: to the next holder.
LEMMA TurnAfterPlay ==
  ASSUME NEW o \in Seats, NEW A, A \subseteq Seats,
         contendersExcludingOwner(A, {}, o) # {}
  PROVE  LET t2 == nextEligible(o, A, {})
         IN  /\ t2 \in A /\ t2 # o
             /\ \A s \in A : Dist(o, t2) <= Dist(o, s)
<1> DEFINE t2 == nextEligible(o, A, {})
<1>1. A \ {} = A /\ A # {}
  BY DEF contendersExcludingOwner
<1>2. t2 \in A /\ \A s \in A : Dist(o, t2) <= Dist(o, s)
  BY <1>1, FirstAfterIsClosest DEF nextEligible
<1>3. PICK c \in A : c # o
  BY DEF contendersExcludingOwner
<1> HIDE DEF t2
<1>4. t2 # o
  BY <1>2, <1>3, NAssumption DEF Dist, Seats
<1> QED BY <1>2, <1>4 DEF t2

-----------------------------------------------------------------------------
(* What follows an accepted call keeps the invariant.                      *)

\* The parts of the state that endGame, resolveTrick and passTurn leave alone.
HandsOK ==
    /\ hands \in [Seats -> SUBSET Card]
    /\ gone \in Seq(Seats)
    /\ openingCard \in Card \cup {NoCard}
    /\ opened \in BOOLEAN

\* endGame leaves a finished game.
LEMMA endGameKeeps ==
  ASSUME NEW act \in SUBSET Seats, NEW order \in Seq(Seats),
         HandsOK', act \cap Members(gone') = {},
         endGame(act, order, gone')
  PROVE  IInv' /\ pile' = NoCombo /\ status' = "finished"
<1>1. active' = {} /\ passed' = {} /\ turn' = NoSeat /\ pile' = NoCombo
      /\ pileOwner' = NoSeat /\ status' = "finished"
  BY DEF endGame
<1>2. gone' \in Seq(Seats)
  BY DEF HandsOK
<1>3. finishingOrder' \in Seq(Seats)
  BY <1>2, FinalOrderType DEF endGame
<1>4. TypeOK'
  BY <1>1, <1>3 DEF TypeOK, HandsOK
<1> QED BY <1>1, <1>4 DEF IInv, TableInv, TrickGoesRound, playing

\* resolveTrick leaves a new trick with a leader, or a finished game.
LEMMA resolveTrickKeeps ==
  ASSUME NEW act \in SUBSET Seats, NEW order \in Seq(Seats), NEW owner \in Seats,
         TypeOK, playing, HandsOK', act \cap Members(gone') = {},
         \A s \in act : hands'[s] # {},
         resolveTrick(act, owner, order, gone')
  PROVE  IInv' /\ pile' = NoCombo /\ (status' = "playing" => active' = act)
<1>1. owner # NoSeat
  BY NAssumption DEF Seats, NoSeat
<1> DEFINE lead == CASE owner \in act -> owner
                     [] owner # NoSeat /\ owner \notin act -> nextActiveAfter(owner, act)
                     [] OTHER -> NoSeat
<1>2. CASE lead = NoSeat \/ FewHolders(act)
  <2>1. endGame(act, order, gone')
    BY <1>2 DEF resolveTrick
  <2> QED BY <2>1, endGameKeeps
<1>3. CASE ~(lead = NoSeat \/ FewHolders(act))
  <2>1. /\ pile' = NoCombo /\ pileOwner' = NoSeat /\ passed' = {} /\ turn' = lead
        /\ active' = act /\ finishingOrder' = order /\ status' = status
    BY <1>3 DEF resolveTrick
  <2>2. act # {}
    BY <1>3 DEF FewHolders
  <2>3. lead \in act
    BY <1>1, <2>2, FirstAfterIsClosest DEF nextActiveAfter
  <2> HIDE DEF lead
  <2>4. TypeOK'
    BY <2>1, <2>3 DEF TypeOK, HandsOK
  <2>5. TableInv'
    BY <1>3, <2>1, <2>3 DEF TableInv
  <2>6. TrickGoesRound'
    BY <2>1 DEF TrickGoesRound
  <2> QED BY <2>1, <2>4, <2>5, <2>6 DEF IInv
<1> QED BY <1>2, <1>3

-----------------------------------------------------------------------------
(* Each accepted call keeps the invariant and goes round the table.        *)

RoundStep ==
    /\ pile' # NoCombo /\ turn' # turn =>
         \A s \in active' : Dist(turn, turn') <= Dist(turn, s)
    /\ pile # NoCombo /\ pile' = NoCombo /\ status' = "playing" =>
         \A s \in active' \ {pileOwner} : Dist(pileOwner, s) <= Dist(pileOwner, turn)

\* A pass.
LEMMA passKeeps ==
  ASSUME IInv, NEW seat \in Seats, pass(seat)
  PROVE  IInv' /\ RoundStep
<1> DEFINE P == passed \cup {seat}
<1>1. /\ playing /\ seat = turn /\ pile # NoCombo
      /\ hands' = hands /\ gone' = gone /\ openingCard' = openingCard /\ opened' = opened
      /\ afterAction(seat, active, P, pile, pileOwner, finishingOrder)
  BY DEF pass, playing
<1>2. /\ TypeOK /\ HandsOK' /\ pileOwner \in Seats /\ pileOwner # turn
      /\ active \in SUBSET Seats /\ finishingOrder \in Seq(Seats)
      /\ turn \in active /\ P \subseteq active /\ ~FewHolders(active)
      /\ active \cap Members(gone') = {}
      /\ \A s \in active : hands'[s] # {}
  BY <1>1 DEF IInv, TypeOK, TableInv, TrickGoesRound, HandsOK
<1>3. \A s \in active : Dist(pileOwner, s) \in 1..N
  BY <1>2, DistType
<1>4. \A s \in active : Dist(pileOwner, s) <= Dist(pileOwner, turn) => s \in P
  <2> SUFFICES ASSUME NEW s \in active, Dist(pileOwner, s) <= Dist(pileOwner, turn)
               PROVE  s \in P
    OBVIOUS
  <2>1. CASE Dist(pileOwner, s) < Dist(pileOwner, turn)
    BY <1>1, <2>1 DEF IInv, TrickGoesRound
  <2>2. CASE Dist(pileOwner, s) = Dist(pileOwner, turn)
    <3>1. s = turn
      BY <1>2, <2>2, StepDist
    <3> QED BY <1>1, <3>1
  <2> QED BY <1>2, <1>3, <2>1, <2>2, NAssumption
<1>5. \A s \in P : Dist(pileOwner, s) <= Dist(pileOwner, turn)
  BY <1>1, <1>2, <1>3, NAssumption DEF IInv, TrickGoesRound
<1>6. CASE contendersExcludingOwner(active, P, pileOwner) = {}
  <2>1. resolveTrick(active, pileOwner, finishingOrder, gone')
    BY <1>1, <1>6 DEF afterAction
  <2>2. IInv' /\ pile' = NoCombo /\ (status' = "playing" => active' = active)
    BY <1>1, <1>2, <2>1, resolveTrickKeeps
  <2> QED BY <1>5, <1>6, <2>2 DEF RoundStep, contendersExcludingOwner
<1>7. CASE contendersExcludingOwner(active, P, pileOwner) # {}
  <2>1. /\ turn' = nextEligible(seat, active, P)
        /\ active' = active /\ passed' = P /\ pile' = pile /\ pileOwner' = pileOwner
        /\ finishingOrder' = finishingOrder /\ status' = status
    BY <1>1, <1>7 DEF afterAction, passTurn
  <2>2. /\ turn' \in active /\ turn' \notin P /\ turn' # pileOwner
        /\ \A s \in active : Dist(pileOwner, s) < Dist(pileOwner, turn') => s \in P
        /\ \A s \in P : Dist(pileOwner, s) < Dist(pileOwner, turn')
        /\ \A s \in active : Dist(turn, turn') <= Dist(turn, s)
    <3>1. pileOwner \in Seats /\ turn \in Seats /\ pileOwner # turn /\ turn = seat
      BY <1>1, <1>2
    <3>2. active \subseteq Seats /\ P \subseteq active
      BY <1>1, <1>2
    <3> HIDE DEF P
    <3> DEFINE t2 == nextEligible(turn, active, P)
    <3>3. /\ t2 \in active /\ t2 \notin P /\ t2 # pileOwner
          /\ \A s \in active : Dist(pileOwner, s) < Dist(pileOwner, t2) => s \in P
          /\ \A s \in P : Dist(pileOwner, s) < Dist(pileOwner, t2)
          /\ \A s \in active : Dist(turn, t2) <= Dist(turn, s)
      BY <1>4, <1>5, <1>7, <3>1, <3>2, TurnGoesOn, ZenonT(60)
    <3>4. turn' = t2
      BY <2>1, <3>1
    <3> HIDE DEF t2
    <3> QED BY <3>3, <3>4
  <2>3. TypeOK'
    BY <1>2, <2>1, <2>2 DEF TypeOK, HandsOK
  <2>4. TableInv'
    BY <1>1, <1>2, <2>1, <2>2 DEF TableInv
  <2>5. TrickGoesRound'
    BY <2>1, <2>2 DEF TrickGoesRound
  <2>6. RoundStep
    BY <1>1, <2>1, <2>2 DEF RoundStep
  <2> QED BY <2>3, <2>4, <2>5, <2>6 DEF IInv
<1> QED BY <1>6, <1>7

\* A play.
LEMMA playKeeps ==
  ASSUME IInv, NEW seat \in Seats, NEW cards \in SUBSET hands[seat], play(seat, cards)
  PROVE  IInv' /\ RoundStep
<1> DEFINE finished == cards = hands[seat]
           act == IF finished THEN active \ {seat} ELSE active
           order == IF finished THEN Append(finishingOrder, seat) ELSE finishingOrder
           combo == identifyCombo(cards)
<1>1. /\ playing /\ seat = turn /\ cards # {} /\ cards \subseteq hands[seat]
      /\ hands' = [hands EXCEPT ![seat] = @ \ cards]
      /\ gone' = gone /\ openingCard' = openingCard /\ opened' = TRUE
      /\ combo # NoCombo
  BY DEF play, playing, validatePlay
<1>2. IF finished /\ FewHolders(act)
        THEN endGame(act, order, gone)
        ELSE afterAction(seat, act, {}, combo, seat, order)
  BY DEF play
<1>3. TypeOK /\ TableInv
  BY DEF IInv
<1>4. HandsOK' /\ combo \in Combo
  <2>1. cards \in SUBSET Card
    BY <1>1, <1>3 DEF TypeOK
  <2>2. combo \in Combo
    BY <1>1, <2>1, identifyComboType
  <2>3. HandsOK'
    BY <1>1, <1>3 DEF HandsOK, TypeOK
  <2> QED BY <2>2, <2>3
<1>5. order \in Seq(Seats)
  BY <1>3, MembersAppend DEF TypeOK
<1>6. /\ act \in SUBSET Seats /\ act \subseteq active
      /\ act \cap Members(gone') = {}
      /\ \A s \in act : hands'[s] # {}
      /\ ~finished => ~FewHolders(act)
  BY <1>1, <1>3 DEF TypeOK, TableInv
<1> HIDE DEF finished, act, order, combo
<1>7. CASE FewHolders(act)
  <2>1. endGame(act, order, gone')
    BY <1>1, <1>2, <1>6, <1>7
  <2>2. IInv' /\ pile' = NoCombo /\ status' = "finished"
    BY <1>4, <1>5, <1>6, <2>1, endGameKeeps
  <2> QED BY <2>2 DEF RoundStep
<1>8. CASE ~FewHolders(act)
  <2>1. afterAction(seat, act, {}, combo, seat, order)
    BY <1>2, <1>8
  <2>2. contendersExcludingOwner(act, {}, seat) # {}
    BY <1>8 DEF contendersExcludingOwner, FewHolders
  <2>3. /\ turn' = nextEligible(seat, act, {})
        /\ active' = act /\ passed' = {} /\ pile' = combo /\ pileOwner' = seat
        /\ finishingOrder' = order /\ status' = status
    BY <2>1, <2>2 DEF afterAction, passTurn
  <2>4. turn' \in act /\ turn' # seat /\ \A s \in act : Dist(seat, turn') <= Dist(seat, s)
    BY <1>6, <2>2, <2>3, TurnAfterPlay
  <2>5. TypeOK'
    BY <1>3, <1>4, <1>5, <1>6, <2>3, <2>4 DEF TypeOK, HandsOK
  <2>6. TableInv'
    BY <1>1, <1>6, <1>8, <2>3, <2>4 DEF TableInv
  <2>7. TrickGoesRound'
    <3>1. \A s \in act : ~(Dist(seat, s) < Dist(seat, turn'))
      <4>1. \A s \in act : Dist(seat, s) \in 1..N
        BY <1>6, DistType
      <4> QED BY <2>4, <4>1, NAssumption
    <3> QED BY <2>3, <2>4, <3>1 DEF TrickGoesRound
  <2>8. RoundStep
    BY <1>1, <2>3, <2>4 DEF RoundStep, combo
  <2> QED BY <2>5, <2>6, <2>7, <2>8 DEF IInv
<1> QED BY <1>7, <1>8

\* A player leaving.
LEMMA forfeitKeeps ==
  ASSUME IInv, NEW seat \in Seats, forfeitSeat(seat)
  PROVE  IInv' /\ RoundStep
<1>1. /\ playing /\ seat \notin Members(gone) /\ gone' = Append(gone, seat)
      /\ hands' = hands /\ openingCard' = openingCard /\ opened' = opened
      /\ forfeitPlaced(seat) \/ forfeitHolder(seat)
  BY DEF forfeitSeat, playing
<1>2. TypeOK /\ TableInv /\ TrickGoesRound
  BY DEF IInv
<1>3. /\ gone' \in Seq(Seats)
      /\ Members(gone') = Members(gone) \cup {seat}
  BY <1>1, <1>2, MembersAppend DEF TypeOK
<1>4. HandsOK'
  BY <1>1, <1>2, <1>3 DEF HandsOK, TypeOK
<1>5. CASE forfeitPlaced(seat)
  <2>1. /\ seat \notin active /\ active' = active /\ passed' = passed /\ status' = status
        /\ pile' = pile /\ pileOwner' = pileOwner /\ turn' = turn
        /\ finishingOrder' = finishingOrder
    BY <1>5 DEF forfeitPlaced, table
  <2>2. TypeOK'
    BY <1>2, <1>4, <2>1 DEF TypeOK, HandsOK
  <2>3. TableInv'
    BY <1>1, <1>2, <1>3, <2>1 DEF TableInv, playing
  <2>4. TrickGoesRound'
    BY <1>2, <2>1 DEF TrickGoesRound, playing
  <2>5. RoundStep
    BY <2>1 DEF RoundStep
  <2> QED BY <2>2, <2>3, <2>4, <2>5 DEF IInv
<1>6. CASE forfeitHolder(seat)
  <2> DEFINE act == active \ {seat}
             psd == passed \ {seat}
             responds == turn = seat /\ pile # NoCombo
             nobody == contendersExcludingOwner(act, psd, pileOwner) = {}
  <2>1. /\ seat \in active
        /\ IF responds /\ nobody
             THEN resolveTrick(act, pileOwner, finishingOrder, gone')
             ELSE IF FewHolders(act)
             THEN endGame(act, finishingOrder, gone')
             ELSE /\ turn' = CASE turn # seat -> turn
                               [] responds -> nextEligible(seat, act, psd)
                               [] OTHER -> nextActiveAfter(seat, act)
                  /\ active' = act
                  /\ passed' = psd
                  /\ pile' = pile /\ pileOwner' = pileOwner
                  /\ finishingOrder' = finishingOrder /\ status' = status
    BY <1>1, <1>6 DEF forfeitHolder
  <2>2. /\ act \in SUBSET Seats /\ finishingOrder \in Seq(Seats)
        /\ psd \subseteq act /\ act \cap Members(gone') = {}
        /\ \A s \in act : hands'[s] # {}
        /\ seat \notin act
    BY <1>1, <1>2, <1>3 DEF TypeOK, TableInv
  <2>3. CASE responds /\ nobody
    <3>1. pileOwner \in Seats
      BY <1>2, <2>3 DEF TableInv
    <3>2. IInv' /\ pile' = NoCombo /\ (status' = "playing" => active' = act)
      BY <1>1, <1>2, <1>4, <2>1, <2>2, <2>3, <3>1, resolveTrickKeeps
    <3>3. \A s \in act \ {pileOwner} : s \in passed
      BY <2>3 DEF contendersExcludingOwner
    <3>4. \A s \in act \ {pileOwner} : Dist(pileOwner, s) <= Dist(pileOwner, turn)
      <4> SUFFICES ASSUME NEW s \in act \ {pileOwner}
                   PROVE  Dist(pileOwner, s) <= Dist(pileOwner, turn)
        OBVIOUS
      <4>1. s \in Seats /\ turn \in Seats
        BY <2>2, <2>3
      <4>2. Dist(pileOwner, s) < Dist(pileOwner, turn)
        BY <1>1, <1>2, <2>3, <3>3 DEF TrickGoesRound
      <4> QED BY <3>1, <4>1, <4>2, DistType, NAssumption
    <3> HIDE DEF act
    <3> QED BY <3>2, <3>4 DEF RoundStep
  <2>4. CASE ~(responds /\ nobody) /\ FewHolders(act)
    <3>1. IInv' /\ pile' = NoCombo /\ status' = "finished"
      BY <1>4, <2>1, <2>2, <2>4, endGameKeeps
    <3> QED BY <3>1 DEF RoundStep
  <2>5. CASE ~(responds /\ nobody) /\ ~FewHolders(act)
    <3>1. /\ turn' = CASE turn # seat -> turn
                       [] responds -> nextEligible(seat, act, psd)
                       [] OTHER -> nextActiveAfter(seat, act)
          /\ active' = act /\ passed' = psd /\ pile' = pile /\ pileOwner' = pileOwner
          /\ finishingOrder' = finishingOrder /\ status' = status
      BY <2>1, <2>5
    <3>2. turn' \in act /\ turn' \notin psd /\ TrickGoesRound' /\ RoundStep
      <4>1. CASE turn # seat
        <5>1. turn' = turn
          BY <3>1, <4>1
        <5>2. turn' \in act /\ turn' \notin psd
          BY <1>1, <1>2, <4>1, <5>1 DEF TableInv
        <5> QED BY <1>2, <3>1, <5>1, <5>2 DEF TrickGoesRound, RoundStep, playing
      <4>2. CASE turn = seat /\ pile = NoCombo
        <5>1. turn' = nextActiveAfter(seat, act) /\ act # {} /\ psd = {}
          BY <1>2, <2>5, <3>1, <4>2 DEF TableInv, FewHolders
        <5>2. turn' \in act
          BY <2>2, <5>1, FirstAfterIsClosest DEF nextActiveAfter
        <5> QED BY <3>1, <4>2, <5>1, <5>2 DEF TrickGoesRound, RoundStep
      <4>3. CASE turn = seat /\ pile # NoCombo
        <5>1. turn' = nextEligible(seat, act, psd) /\ ~nobody
          BY <2>5, <3>1, <4>3
        <5>2. /\ pileOwner \in Seats /\ turn # pileOwner
              /\ \A s \in active : Dist(pileOwner, s) < Dist(pileOwner, turn) => s \in passed
              /\ \A s \in passed : Dist(pileOwner, s) < Dist(pileOwner, turn)
          BY <1>1, <1>2, <4>3 DEF TableInv, TrickGoesRound
        <5>3. \A s \in Seats : Dist(pileOwner, s) \in 1..N
          BY <5>2, DistType
        <5>4. \A s \in act : Dist(pileOwner, s) <= Dist(pileOwner, turn) => s \in psd
          <6> SUFFICES ASSUME NEW s \in act, Dist(pileOwner, s) <= Dist(pileOwner, turn)
                       PROVE  s \in psd
            OBVIOUS
          <6>1. Dist(pileOwner, s) # Dist(pileOwner, turn)
            BY <2>2, <4>3, <5>2, StepDist
          <6> QED BY <2>2, <4>3, <5>2, <5>3, <6>1, NAssumption
        <5>5. \A s \in psd : Dist(pileOwner, s) <= Dist(pileOwner, turn)
          BY <2>2, <4>3, <5>2, <5>3, NAssumption
        <5>6. /\ turn' \in act /\ turn' \notin psd /\ turn' # pileOwner
              /\ \A s \in act : Dist(pileOwner, s) < Dist(pileOwner, turn') => s \in psd
              /\ \A s \in psd : Dist(pileOwner, s) < Dist(pileOwner, turn')
              /\ \A s \in act : Dist(turn, turn') <= Dist(turn, s)
          <6>1. /\ contendersExcludingOwner(act, psd, pileOwner) # {}
                /\ turn' = nextEligible(turn, act, psd)
                /\ turn \in Seats /\ act \subseteq Seats /\ psd \subseteq act
            BY <2>2, <4>3, <5>1
          <6>2. pileOwner \in Seats /\ pileOwner # turn
            BY <5>2
          <6> HIDE DEF act, psd, nobody, responds
          <6> QED BY ZenonT(60), <5>4, <5>5, <6>1, <6>2, TurnGoesOn
        <5> QED BY <3>1, <4>3, <5>6 DEF TrickGoesRound, RoundStep
      <4> QED BY <4>1, <4>2, <4>3
    <3>3. TypeOK'
      BY <1>2, <1>4, <2>2, <3>1, <3>2 DEF TypeOK, HandsOK
    <3>4. TableInv'
      BY <1>1, <1>2, <2>2, <2>5, <3>1, <3>2 DEF TableInv, playing
    <3> QED BY <3>2, <3>3, <3>4 DEF IInv
  <2> QED BY <2>3, <2>4, <2>5
<1> QED BY <1>1, <1>5, <1>6

-----------------------------------------------------------------------------
\* A dealt game.
LEMMA InitIInv == Init => IInv
<1> SUFFICES ASSUME Init PROVE IInv
  OBVIOUS
<1>1. hands \in [Seats -> SUBSET Card] /\ \A s \in Seats : hands[s] # {}
  BY DealsAssumption DEF Init
<1>2. openingCard \in Card \cup {NoCard}
  BY DEF Init, Spade, Card, Standard, Rank, Suit
<1>3. TypeOK
  <2>1. /\ active = Seats /\ passed = {} /\ finishingOrder = <<>> /\ gone = <<>>
        /\ pile = NoCombo /\ pileOwner = NoSeat /\ turn \in Seats
        /\ status = "playing" /\ opened = FALSE
    BY DEF Init
  <2>2. opened \in BOOLEAN
    BY <2>1
  <2>3. <<>> \in Seq(Seats)
    OBVIOUS
  <2> QED BY <1>1, <1>2, <2>1, <2>2, <2>3, Zenon DEF TypeOK
<1>4. ~FewHolders(Seats)
  <2>1. 0 \in Seats /\ 1 \in Seats
    BY NAssumption DEF Seats
  <2> QED BY <2>1 DEF FewHolders
<1>5. TableInv
  BY <1>1, <1>4 DEF Init, TableInv, Members
<1> QED BY <1>3, <1>5 DEF Init, IInv, TrickGoesRound

\* Every step.
LEMMA NextKeeps == IInv /\ [Next]_gameVars => IInv' /\ (RoundStep \/ UNCHANGED gameVars)
<1> SUFFICES ASSUME IInv, [Next]_gameVars PROVE IInv' /\ (RoundStep \/ UNCHANGED gameVars)
  OBVIOUS
<1>1. CASE UNCHANGED gameVars
  BY <1>1 DEF gameVars, IInv, TypeOK, TableInv, TrickGoesRound, playing
<1>2. ASSUME NEW seat \in Seats, Play(seat) PROVE IInv' /\ RoundStep
  BY <1>2, playKeeps DEF Play
<1>3. ASSUME NEW seat \in Seats, pass(seat) PROVE IInv' /\ RoundStep
  BY <1>3, passKeeps
<1>4. ASSUME NEW seat \in Seats, forfeitSeat(seat) PROVE IInv' /\ RoundStep
  BY <1>4, forfeitKeeps
<1> QED BY <1>1, <1>2, <1>3, <1>4 DEF Next

\* The inductive invariant holds in every reachable state: the holders, the
\* passes and the turn agree, and the passes lie between the owner and the turn.
THEOREM Invariance == Spec => []IInv
BY InitIInv, NextKeeps, PTL DEF Spec

\* The variables of a game keep their types, whatever is dealt and played.
THEOREM TypeCorrect == Spec => []TypeOK
<1>1. IInv => TypeOK
  BY DEF IInv
<1> QED BY <1>1, Invariance, PTL

\* Whoever is on turn is present, holds cards, and neither passed on the pile
\* nor owns it, at every table and for every deal.
THEOREM TurnCorrect == Spec => []TurnIsOwed
<1>1. IInv => TurnIsOwed
  BY NAssumption DEF IInv, TypeOK, TableInv, TrickGoesRound, TurnIsOwed, Seats, NoSeat
<1> QED BY <1>1, Invariance, PTL

\* A leader who is not waiting for a card that left with the opener can lead.
THEOREM LeadCorrect == Spec => []LeaderCanLead
<1>1. IInv => LeaderCanLead
  <2> SUFFICES ASSUME IInv, playing, pile = NoCombo, ~OpenerLeft PROVE CanLead
    BY DEF LeaderCanLead
  <2>1. turn \in active /\ hands[turn] # {} /\ hands[turn] \subseteq Card
    BY DEF IInv, TypeOK, TableInv
  <2>2. PICK c \in hands[turn] : OpensRight({c})
    BY <2>1 DEF OpenerLeft, OpensRight
  <2>3. validatePlay({c}, pile)
    BY <2>1, singleLeads
  <2> QED BY <2>2, <2>3 DEF CanLead
<1> QED BY <1>1, Invariance, PTL

\* Within a trick the turn goes to the very next holder, whoever passes, plays
\* or leaves.
THEOREM NobodyIsSkipped == Spec => NobodySkipped
<1>1. IInv /\ [Next]_gameVars =>
        [pile' # NoCombo /\ turn' # turn =>
           \A s \in active' : Dist(turn, turn') <= Dist(turn, s)]_gameVars
  BY NextKeeps DEF RoundStep
<1> QED BY <1>1, Invariance, PTL DEF Spec, NobodySkipped

\* A trick is taken only after every other holder was asked to beat the pile.
THEOREM TricksAreContested == Spec => TrickIsContested
<1>1. IInv /\ [Next]_gameVars =>
        [pile # NoCombo /\ pile' = NoCombo /\ status' = "playing" =>
           \A s \in active' \ {pileOwner} :
             Dist(pileOwner, s) <= Dist(pileOwner, turn)]_gameVars
  BY NextKeeps DEF RoundStep
<1> QED BY <1>1, Invariance, PTL DEF Spec, TrickIsContested
-----------------------------------------------------------------------------
(* The game implements GameOutcome.                                        *)

\* What a call does to the holders and the places: the game goes on with them,
\* or ends when few are left.
SettlesWith(act, order, gn) ==
    IF FewHolders(act)
      THEN active' = {} /\ finishingOrder' = FinalOrder(order, act, gn) /\ status' = "finished"
      ELSE active' = act /\ finishingOrder' = order /\ status' = "playing"

\* The trick goes to its owner, or to the next holder: there is always one while
\* the game goes on.
LEMMA resolveTrickSettles ==
  ASSUME NEW act \in SUBSET Seats, NEW owner \in Seats, NEW order, NEW gn,
         status = "playing", act \cap Members(gn) = {}, resolveTrick(act, owner, order, gn)
  PROVE  SettlesWith(act, order, gn)
<1> DEFINE lead == CASE owner \in act -> owner
                     [] owner # NoSeat /\ owner \notin act -> nextActiveAfter(owner, act)
                     [] OTHER -> NoSeat
<1>1. CASE FewHolders(act)
  BY <1>1 DEF resolveTrick, endGame, SettlesWith
<1>2. CASE ~FewHolders(act)
  <2>1. act # {} /\ owner # NoSeat
    BY <1>2, NAssumption DEF FewHolders, Seats, NoSeat
  <2>2. lead \in act
    BY <2>1, FirstAfterIsClosest DEF nextActiveAfter
  <2>3. lead # NoSeat
    BY <2>2, NAssumption DEF Seats, NoSeat
  <2> QED BY <1>2, <2>3 DEF resolveTrick, SettlesWith
<1> QED BY <1>1, <1>2

\* While several hold cards, what follows a play or a pass changes no place but the one
\* just taken.
LEMMA afterActionSettles ==
  ASSUME NEW act \in SUBSET Seats, NEW owner \in Seats, NEW order, NEW seat, NEW psd, NEW pl,
         status = "playing", act \cap Members(gone) = {}, ~FewHolders(act),
         afterAction(seat, act, psd, pl, owner, order)
  PROVE  SettlesWith(act, order, gone)
BY resolveTrickSettles DEF afterAction, passTurn, SettlesWith

\* A play that empties the hand places the seat; another changes no place.
LEMMA playSettles ==
  ASSUME IInv, NEW seat \in Seats, NEW cards \in SUBSET hands[seat], play(seat, cards)
  PROVE  /\ status = "playing" /\ seat \in active /\ gone' = gone
         /\ \/ /\ SettlesWith(active \ {seat}, Append(finishingOrder, seat), gone)
               /\ hands' = [hands EXCEPT ![seat] = {}]
            \/ /\ UNCHANGED <<active, finishingOrder, status>>
               /\ \A s \in Seats : hands'[s] = {} <=> hands[s] = {}
<1>1. /\ status = "playing" /\ seat \in active /\ gone' = gone
      /\ active \subseteq Seats /\ active \cap Members(gone) = {} /\ ~FewHolders(active)
  BY DEF IInv, TypeOK, TableInv, playing, play
<1>4. hands' = [hands EXCEPT ![seat] = @ \ cards] /\ hands \in [Seats -> SUBSET Card]
  BY DEF play, IInv, TypeOK
<1>2. CASE cards = hands[seat]
  <2> DEFINE act == active \ {seat}
             order == Append(finishingOrder, seat)
  <2>1. IF FewHolders(act) THEN endGame(act, order, gone)
                           ELSE afterAction(seat, act, {}, identifyCombo(cards), seat, order)
    BY <1>2 DEF play
  <2>2. act \in SUBSET Seats /\ act \cap Members(gone) = {}
    BY <1>1
  <2>3. SettlesWith(act, order, gone)
    <3>1. CASE FewHolders(act)
      BY <2>1, <2>2, <3>1 DEF endGame, SettlesWith
    <3>2. CASE ~FewHolders(act)
      BY <1>1, <2>1, <2>2, <3>2, afterActionSettles
    <3> QED BY <3>1, <3>2
  <2>4. hands' = [hands EXCEPT ![seat] = {}]
    <3>1. hands[seat] \ cards = {}
      BY <1>2
    <3> QED BY <1>4, <3>1
  <2> QED BY <1>1, <2>3, <2>4
<1>3. CASE cards # hands[seat]
  <2>1. afterAction(seat, active, {}, identifyCombo(cards), seat, finishingOrder)
    BY <1>3 DEF play
  <2>2. SettlesWith(active, finishingOrder, gone)
    BY <1>1, <2>1, afterActionSettles
  <2>3. active' = active /\ finishingOrder' = finishingOrder /\ status' = status
    BY <1>1, <2>2 DEF SettlesWith
  <2>4. \A s \in Seats : hands'[s] = {} <=> hands[s] = {}
    BY <1>3, <1>4
  <2> QED BY <1>1, <2>3, <2>4
<1> QED BY <1>2, <1>3

\* A pass changes no place.
LEMMA passSettles ==
  ASSUME IInv, NEW seat \in Seats, pass(seat)
  PROVE  UNCHANGED <<active, finishingOrder, status, gone>>
<1>1. /\ status = "playing" /\ gone' = gone /\ pileOwner \in Seats
      /\ active \subseteq Seats /\ active \cap Members(gone) = {} /\ ~FewHolders(active)
  BY DEF IInv, TypeOK, TableInv, playing, pass
<1>2. afterAction(seat, active, passed \cup {seat}, pile, pileOwner, finishingOrder)
  BY DEF pass
<1>3. SettlesWith(active, finishingOrder, gone)
  BY <1>1, <1>2, afterActionSettles
<1> QED BY <1>1, <1>3 DEF SettlesWith

\* A player who leaves takes no place; the game may end.
LEMMA forfeitSettles ==
  ASSUME IInv, NEW seat \in Seats, forfeitSeat(seat)
  PROVE  /\ status = "playing" /\ seat \notin Members(gone) /\ gone' = Append(gone, seat)
         /\ IF seat \in active
              THEN SettlesWith(active \ {seat}, finishingOrder, gone')
              ELSE UNCHANGED <<active, finishingOrder, status>>
<1>1. /\ status = "playing" /\ seat \notin Members(gone) /\ gone' = Append(gone, seat)
      /\ active \subseteq Seats /\ active \cap Members(gone) = {} /\ gone \in Seq(Seats)
  BY DEF IInv, TypeOK, TableInv, forfeitSeat
<1>2. CASE seat \notin active
  BY <1>1, <1>2 DEF forfeitSeat, forfeitPlaced, forfeitHolder
<1>3. CASE seat \in active
  <2> DEFINE act == active \ {seat}
             psd == passed \ {seat}
             responds == turn = seat /\ pile # NoCombo
             taken == responds /\ contendersExcludingOwner(act, psd, pileOwner) = {}
  <2>1. forfeitHolder(seat)
    BY <1>3 DEF forfeitSeat, forfeitPlaced
  <2>2. act \in SUBSET Seats /\ act \cap Members(gone') = {}
    BY <1>1, MembersAppend
  <2>3. CASE taken
    <3>1. resolveTrick(act, pileOwner, finishingOrder, gone')
      BY <1>1, <2>1, <2>3 DEF forfeitHolder
    <3>2. pileOwner \in Seats
      BY <2>3 DEF IInv, TableInv
    <3> QED BY <1>1, <1>3, <2>2, <3>1, <3>2, resolveTrickSettles
  <2>4. CASE ~taken /\ FewHolders(act)
    <3>1. endGame(act, finishingOrder, gone')
      BY <1>1, <2>1, <2>4 DEF forfeitHolder
    <3> QED BY <1>1, <1>3, <2>2, <2>4, <3>1 DEF endGame, SettlesWith
  <2>5. CASE ~taken /\ ~FewHolders(act)
    <3>1. active' = act /\ finishingOrder' = finishingOrder /\ status' = status
      BY <2>1, <2>5 DEF forfeitHolder
    <3> QED BY <1>1, <1>3, <2>5, <3>1 DEF SettlesWith
  <2> QED BY <2>3, <2>4, <2>5
<1> QED BY <1>2, <1>3

\* The abstract specification's own copies of the operators of Places.
LEMMA SamePlaces ==
  ASSUME NEW order, NEW act, NEW gn
  PROVE  /\ Promise!Seats = Seats
         /\ Promise!Members(gn) = Members(gn)
         /\ Promise!FewHolders(act) <=> FewHolders(act)
         /\ Promise!FinalOrder(order, act, gn) = FinalOrder(order, act, gn)
BY DEF Promise!Seats, Seats, Promise!Members, Members, Promise!FewHolders, FewHolders,
       Promise!FinalOrder, FinalOrder, Promise!Stayers, Stayers, Promise!Quitters, Quitters,
       Promise!Only, Only

outcomeOf == [holding |-> active, order |-> finishingOrder, gone |-> gone,
              over |-> status = "finished"]

\* What a call settles is what the abstract game settles.
LEMMA SettlesAsPromised ==
  ASSUME NEW act, NEW order, NEW gn, SettlesWith(act, order, gn), gone' = gn
  PROVE  outcomeOf' = Promise!Settled(act, order, gn)
<1>1. Promise!FewHolders(act) <=> FewHolders(act)
  BY SamePlaces
<1>2. Promise!FinalOrder(order, act, gn) = FinalOrder(order, act, gn)
  BY SamePlaces
<1>3. CASE FewHolders(act)
  <2>1. active' = {} /\ finishingOrder' = FinalOrder(order, act, gn) /\ (status' = "finished") = TRUE
    BY <1>3 DEF SettlesWith
  <2> QED BY <1>1, <1>2, <1>3, <2>1 DEF outcomeOf, Promise!Settled, Promise!Outcome
<1>4. CASE ~FewHolders(act)
  <2>1. active' = act /\ finishingOrder' = order /\ (status' = "finished") = FALSE
    BY <1>4 DEF SettlesWith
  <2> QED BY <1>1, <1>4, <2>1 DEF outcomeOf, Promise!Settled, Promise!Outcome
<1> QED BY <1>3, <1>4

\* Every accepted call is a step of the abstract game, or shows nothing of it.
LEMMA StepKeepsPromise ==
  ASSUME IInv, [Next]_gameVars
  PROVE  [Promise!Next]_outcomeOf
<1> USE DEF outcomeOf
<1>1. ASSUME NEW seat \in Seats, Play(seat) PROVE [Promise!Next]_outcomeOf
  <2>1. PICK cards \in SUBSET hands[seat] : play(seat, cards)
    BY <1>1 DEF Play
  <2>2. /\ status = "playing" /\ seat \in active /\ gone' = gone
        /\ \/ SettlesWith(active \ {seat}, Append(finishingOrder, seat), gone)
           \/ UNCHANGED <<active, finishingOrder, status>>
    BY <2>1, playSettles
  <2>3. CASE SettlesWith(active \ {seat}, Append(finishingOrder, seat), gone)
    <3>1. outcomeOf' = Promise!Settled(active \ {seat}, Append(finishingOrder, seat), gone)
      BY <2>2, <2>3, SettlesAsPromised
    <3>2. Promise!Empty(seat)
      BY <2>2, <3>1 DEF Promise!Empty, Promise!Emptied
    <3> QED BY <3>2, SamePlaces DEF Promise!Next
  <2>4. CASE UNCHANGED <<active, finishingOrder, status>>
    BY <2>2, <2>4
  <2> QED BY <2>2, <2>3, <2>4
<1>2. ASSUME NEW seat \in Seats, pass(seat) PROVE [Promise!Next]_outcomeOf
  BY <1>2, passSettles
<1>3. ASSUME NEW seat \in Seats, forfeitSeat(seat) PROVE [Promise!Next]_outcomeOf
  <2>1. /\ status = "playing" /\ seat \notin Members(gone) /\ gone' = Append(gone, seat)
        /\ IF seat \in active
             THEN SettlesWith(active \ {seat}, finishingOrder, gone')
             ELSE UNCHANGED <<active, finishingOrder, status>>
    BY <1>3, forfeitSettles
  <2>2. seat \notin Promise!Members(gone)
    BY <2>1, SamePlaces
  <2>3. CASE seat \in active
    <3>1. outcomeOf' = Promise!Settled(active \ {seat}, finishingOrder, Append(gone, seat))
      BY <2>1, <2>3, SettlesAsPromised
    <3>2. Promise!Leave(seat)
      BY <2>1, <2>2, <2>3, <3>1 DEF Promise!Leave, Promise!Left
    <3> QED BY <3>2, SamePlaces DEF Promise!Next
  <2>4. CASE seat \notin active
    <3>1. Promise!Leave(seat)
      BY <2>1, <2>2, <2>4 DEF Promise!Leave, Promise!Left, Promise!Outcome
    <3> QED BY <3>1, SamePlaces DEF Promise!Next
  <2> QED BY <2>3, <2>4
<1>4. CASE UNCHANGED gameVars
  BY <1>4 DEF gameVars
<1> QED BY <1>1, <1>2, <1>3, <1>4 DEF Next

\* A game implements GameOutcome: whatever is dealt, played, passed and left, the
\* places come out as if only hands were emptied and players left, one at a time.
THEOREM PromiseIsKept == Spec => KeepsPromise
<1>1. Init => Promise!Init
  BY SamePlaces DEF Init, Promise!Init, Promise!NewGame, Promise!Outcome
<1>2. IInv /\ [Next]_gameVars => [Promise!Next]_outcomeOf
  BY StepKeepsPromise
<1> QED BY <1>1, <1>2, Invariance, PTL DEF Spec, KeepsPromise, Promise!Spec, outcomeOf

-----------------------------------------------------------------------------
(* The places of a finished game.                                          *)

\* The holders, the places and the quitters agree with the hands.
PlacesInv ==
    /\ playing =>
         /\ Distinct(finishingOrder) /\ Distinct(gone)
         /\ \A s \in Seats : s \in Members(finishingOrder) <=> hands[s] = {}
         /\ \A s \in Seats : s \in active <=> hands[s] # {} /\ s \notin Members(gone)
    /\ QuittersFinishLast

\* What a call settles agrees with the hands again, and a game that ends has
\* its places in order.
LEMMA PlacesSettle ==
  ASSUME NEW act \in SUBSET Seats, NEW order \in Seq(Seats), gone' \in Seq(Seats),
         Distinct(order), Distinct(gone'), SettlesWith(act, order, gone'),
         \A s \in Seats : s \in Members(order) <=> hands'[s] = {},
         \A s \in Seats : s \in act <=> hands'[s] # {} /\ s \notin Members(gone')
  PROVE  PlacesInv'
<1> DEFINE gn == gone'
           f == FinalOrder(order, act, gn)
           Q == Members(gn) \ Members(order)
           left == {s \in Seats : s \in Members(gn) /\ hands'[s] # {}}
<1>1. CASE ~FewHolders(act)
  BY <1>1 DEF SettlesWith, PlacesInv, playing, QuittersFinishLast
<1>2. CASE FewHolders(act)
  <2>1. finishingOrder' = f /\ status' = "finished"
    BY <1>2 DEF SettlesWith
  <2>2. /\ Members(gn) \subseteq Seats /\ Members(order) \subseteq Seats
    BY DEF Members
  <2>3. f \in Seq(Seats) /\ Ranked(f, Q, gn) /\ Members(f) = Seats
    <3>1. /\ act \cap Members(gn) = {} /\ act \cap Members(order) = {}
          /\ Members(order) \cup act \cup Members(gn) = Seats
      BY <2>2
    <3> QED BY <3>1, FinalOrderRanks
  <2>4. Distinct(f) /\ Len(f) = N
    <3>1. Distinct(f)
      BY <2>3 DEF Ranked, Behind, Distinct
    <3> QED BY <2>3, <3>1, AllPlaces
  <2>5. \A s \in Seats : s \in left <=> s \in Q
    OBVIOUS
  <2>6. \A i \in 1..N : f[i] \in Seats
    BY <2>3, <2>4
  <2> HIDE DEF f, Q
  <2>7. \A i, j \in 1..N : i < j /\ f[i] \in left => f[j] \in left /\ Before(gn, f[j], f[i])
    BY <2>3, <2>4, <2>5, <2>6 DEF Ranked, Behind
  <2>8. \A i, j \in 1..N :
          i < j /\ f[i] \in Members(gn) /\ hands'[f[i]] # {} =>
            /\ f[j] \in Members(gn) /\ hands'[f[j]] # {}
            /\ Before(gn, f[j], f[i])
    BY <2>6, <2>7
  <2> HIDE DEF left
  <2>9. QuittersFinishLast'
    <3>1. Len(finishingOrder') = N /\ Members(finishingOrder') = Seats
      BY <2>1, <2>3, <2>4
    <3>2. \A i, j \in 1..N :
            i < j /\ finishingOrder'[i] \in Members(gone') /\ hands'[finishingOrder'[i]] # {} =>
              /\ finishingOrder'[j] \in Members(gone') /\ hands'[finishingOrder'[j]] # {}
              /\ \E k, l \in 1..Len(gone') : /\ k < l /\ gone'[k] = finishingOrder'[j]
                                             /\ gone'[l] = finishingOrder'[i]
      BY <2>1, <2>8 DEF Before
    <3>3. ASSUME NEW i \in 1..N, NEW j \in 1..N, i < j, quit(finishingOrder[i])'
          PROVE  quit(finishingOrder[j])' /\ LeftBefore(finishingOrder[j], finishingOrder[i])'
      <4>1. finishingOrder'[i] \in Members(gone') /\ hands'[finishingOrder'[i]] # {}
        BY <3>3 DEF quit
      <4>2. i < j
        BY <3>3
      <4>3. /\ finishingOrder'[j] \in Members(gone') /\ hands'[finishingOrder'[j]] # {}
            /\ \E k, l \in 1..Len(gone') : /\ k < l /\ gone'[k] = finishingOrder'[j]
                                           /\ gone'[l] = finishingOrder'[i]
        BY SMTT(30), <3>2, <4>1, <4>2
      <4> QED BY <4>3 DEF quit, LeftBefore
    <3> QED BY <3>1, <3>3 DEF QuittersFinishLast
  <2> QED BY <2>1, <2>9 DEF PlacesInv, playing
<1> QED BY <1>1, <1>2

\* Every step keeps the places in agreement with the hands.
LEMMA PlacesStep == IInv /\ PlacesInv /\ [Next]_gameVars => PlacesInv'
<1> SUFFICES ASSUME IInv, PlacesInv, [Next]_gameVars PROVE PlacesInv'
  OBVIOUS
<1>1. /\ finishingOrder \in Seq(Seats) /\ gone \in Seq(Seats)
      /\ active \subseteq Seats /\ hands \in [Seats -> SUBSET Card]
  BY DEF IInv, TypeOK
<1>2. status = "playing" =>
        /\ Distinct(finishingOrder) /\ Distinct(gone)
        /\ \A s \in Seats : s \in Members(finishingOrder) <=> hands[s] = {}
        /\ \A s \in Seats : s \in active <=> hands[s] # {} /\ s \notin Members(gone)
  BY DEF PlacesInv, playing
<1>3. ASSUME NEW seat \in Seats, Play(seat) PROVE PlacesInv'
  <2>1. PICK cards \in SUBSET hands[seat] : play(seat, cards)
    BY <1>3 DEF Play
  <2>2. /\ status = "playing" /\ seat \in active /\ gone' = gone
        /\ \/ /\ SettlesWith(active \ {seat}, Append(finishingOrder, seat), gone)
              /\ hands' = [hands EXCEPT ![seat] = {}]
           \/ /\ UNCHANGED <<active, finishingOrder, status>>
              /\ \A s \in Seats : hands'[s] = {} <=> hands[s] = {}
    BY <2>1, playSettles
  <2>3. CASE /\ SettlesWith(active \ {seat}, Append(finishingOrder, seat), gone)
             /\ hands' = [hands EXCEPT ![seat] = {}]
    <3> DEFINE order == Append(finishingOrder, seat)
               act == active \ {seat}
    <3>1. order \in Seq(Seats) /\ Members(order) = Members(finishingOrder) \cup {seat}
      BY <1>1, MembersAppend
    <3>2. Distinct(order)
      BY <1>1, <1>2, <2>2, DistinctAppend
    <3> HIDE DEF order
    <3>3. \A s \in Seats : hands'[s] = IF s = seat THEN {} ELSE hands[s]
      BY <1>1, <2>3
    <3>4. \A s \in Seats : s \in Members(order) <=> hands'[s] = {}
      BY <1>2, <2>2, <3>1, <3>3
    <3>5. \A s \in Seats : s \in act <=> hands'[s] # {} /\ s \notin Members(gone')
      BY <1>2, <2>2, <3>3
    <3>6. SettlesWith(act, order, gone')
      BY <2>2, <2>3 DEF order
    <3>7. act \in SUBSET Seats /\ gone' \in Seq(Seats) /\ Distinct(gone')
      BY <1>1, <1>2, <2>2
    <3> HIDE DEF act
    <3> QED BY <3>1, <3>2, <3>4, <3>5, <3>6, <3>7, PlacesSettle
  <2>4. CASE /\ UNCHANGED <<active, finishingOrder, status>>
             /\ \A s \in Seats : hands'[s] = {} <=> hands[s] = {}
    BY <1>2, <2>2, <2>4 DEF PlacesInv, playing, QuittersFinishLast
  <2> QED BY <2>2, <2>3, <2>4
<1>4. ASSUME NEW seat \in Seats, pass(seat) PROVE PlacesInv'
  <2>1. UNCHANGED <<active, finishingOrder, status, gone, hands>> /\ status = "playing"
    BY <1>4, passSettles DEF pass
  <2> QED BY <1>2, <2>1 DEF PlacesInv, playing, QuittersFinishLast
<1>5. ASSUME NEW seat \in Seats, forfeitSeat(seat) PROVE PlacesInv'
  <2>1. /\ status = "playing" /\ seat \notin Members(gone) /\ gone' = Append(gone, seat)
        /\ IF seat \in active
             THEN SettlesWith(active \ {seat}, finishingOrder, gone')
             ELSE UNCHANGED <<active, finishingOrder, status>>
    BY <1>5, forfeitSettles
  <2>2. hands' = hands
    BY <1>5 DEF forfeitSeat
  <2>3. gone' \in Seq(Seats) /\ Members(gone') = Members(gone) \cup {seat} /\ Distinct(gone')
    BY <1>1, <1>2, <2>1, MembersAppend, DistinctAppend
  <2>4. CASE seat \in active
    <3> DEFINE act == active \ {seat}
    <3>1. \A s \in Seats : s \in act <=> hands'[s] # {} /\ s \notin Members(gone')
      BY <1>2, <2>1, <2>2, <2>3
    <3>2. \A s \in Seats : s \in Members(finishingOrder) <=> hands'[s] = {}
      BY <1>2, <2>1, <2>2
    <3>3. SettlesWith(act, finishingOrder, gone') /\ act \in SUBSET Seats
      BY <1>1, <2>1, <2>4
    <3> HIDE DEF act
    <3> QED BY <1>1, <1>2, <2>1, <2>3, <3>1, <3>2, <3>3, PlacesSettle
  <2>5. CASE seat \notin active
    <3>1. active' = active /\ finishingOrder' = finishingOrder /\ status' = "playing"
      BY <2>1, <2>5
    <3>2. \A s \in Seats : s \in active <=> hands[s] # {} /\ s \notin Members(gone')
      BY <1>2, <2>1, <2>3, <2>5
    <3> QED BY <1>2, <2>1, <2>2, <2>3, <3>1, <3>2 DEF PlacesInv, playing, QuittersFinishLast
  <2> QED BY <2>4, <2>5
<1>6. CASE UNCHANGED gameVars
  <2>1. /\ hands' = hands /\ active' = active /\ finishingOrder' = finishingOrder
        /\ gone' = gone /\ status' = status
    BY <1>6 DEF gameVars
  <2>2. QuittersFinishLast'
    <3>1. QuittersFinishLast
      BY DEF PlacesInv
    <3> QED BY <2>1, <3>1 DEF QuittersFinishLast, quit, LeftBefore
  <2> QED BY <1>2, <2>1, <2>2 DEF PlacesInv, playing
<1> QED BY <1>3, <1>4, <1>5, <1>6 DEF Next

\* A finished game places all seats, each once; who left holding cards is behind
\* everyone who stayed, and of two quitters the first to leave is lower, however
\* plays, passes and departures are mixed (endGame).
THEOREM QuittersAreLast == Spec => []QuittersFinishLast
<1>1. Init => PlacesInv
  <2> SUFFICES ASSUME Init PROVE PlacesInv
    OBVIOUS
  <2>1. \A s \in Seats : hands[s] # {}
    BY DealsAssumption DEF Init
  <2>2. Members(<<>>) = {} /\ Distinct(<<>>)
    BY DEF Members, Distinct
  <2> QED BY <2>1, <2>2 DEF Init, PlacesInv, playing, QuittersFinishLast
<1>2. PlacesInv => QuittersFinishLast
  BY DEF PlacesInv
<1> QED BY <1>1, <1>2, PlacesStep, Invariance, PTL DEF Spec

-----------------------------------------------------------------------------
(* What a bot decides.                                                     *)

\* Among the subsets of a finite set some are least.
LEMMA LeastSubset ==
  ASSUME NEW S, IsFiniteSet(S), NEW B \in SUBSET SUBSET S, B # {}
  PROVE  \E T \in B : \A U \in B : U \subseteq T => U = T
<1>1. IsWellFoundedOn(StrictSubsetOrdering(S), FiniteSubsetsOf(S))
  BY FS_StrictSubsetOrderingWellFounded
<1>2. B \subseteq FiniteSubsetsOf(S)
  BY FS_Subset DEF FiniteSubsetsOf
<1>3. PICK T \in B : \A U \in B : <<U, T>> \notin StrictSubsetOrdering(S)
  BY <1>1, <1>2, WFMin
<1> QED BY <1>3 DEF StrictSubsetOrdering

\* A finite set of scores has a least one.
LEMMA SomeIsLeast ==
  ASSUME NEW S, IsFiniteSet(S), S # {}, NEW f \in [S -> Int]
  PROVE  \E x \in S : \A y \in S : f[x] <= f[y]
<1> DEFINE B == {T \in SUBSET S : T # {} /\ ~\E x \in T : \A y \in T : f[x] <= f[y]}
<1> SUFFICES ASSUME B # {} PROVE FALSE
  BY DEF B
<1>1. PICK T \in B : \A U \in B : U \subseteq T => U = T
  <2>1. B \in SUBSET SUBSET S
    OBVIOUS
  <2> HIDE DEF B
  <2> QED BY <2>1, LeastSubset
<1>2. PICK t \in T : TRUE
  OBVIOUS
<1>3. T \ {t} # {}
  <2> SUFFICES ASSUME T = {t} PROVE FALSE
    OBVIOUS
  <2>1. f[t] \in Int
    BY <1>1, <1>2
  <2>2. \A y \in T : f[t] <= f[y]
    BY <2>1
  <2> QED BY <1>1, <1>2, <2>2
<1>4. PICK x \in T \ {t} : \A y \in T \ {t} : f[x] <= f[y]
  <2>1. T \ {t} \notin B
    <3>1. T \ {t} \subseteq T /\ T \ {t} # T
      BY <1>2
    <3> HIDE DEF B
    <3> QED BY <1>1, <3>1
  <2>2. T \ {t} \in SUBSET S
    BY <1>1
  <2> QED BY <1>3, <2>1, <2>2
<1>5. f[t] \in Int /\ f[x] \in Int /\ \A y \in T : f[y] \in Int
  BY <1>1, <1>2, <1>4
<1>6. CASE f[t] <= f[x]
  BY <1>1, <1>2, <1>4, <1>5, <1>6
<1>7. CASE f[x] <= f[t]
  BY <1>1, <1>2, <1>4, <1>5, <1>7
<1> QED BY <1>5, <1>6, <1>7

\* A set of plays: some of the hand's cards each.
Of(hand, S) == S \subseteq {cards \in SUBSET hand : cards # {}}

\* The costs and scores of plays are integers, and there are finitely many plays.
LEMMA PlaysHaveCosts ==
  ASSUME NEW hand \in SUBSET Card, NEW S, Of(hand, S)
  PROVE  /\ IsFiniteSet(hand) /\ IsFiniteSet(S)
         /\ \A cards \in S : /\ Cardinality(cards) \in Nat
                             /\ identifyCombo(cards).key \in Int
                             /\ playCost(cards) \in Int
                             /\ leadScore(cards, hand) \in Int
                             /\ candidateScore(cards) \in Int
<1>1. IsFiniteSet(hand)
  BY CardIsFinite, FS_Subset
<1>2. IsFiniteSet(S)
  <2>1. IsFiniteSet(SUBSET hand)
    BY <1>1, FS_SUBSET
  <2> QED BY <2>1, FS_Subset DEF Of
<1>3. ASSUME NEW cards \in S
      PROVE  /\ Cardinality(cards) \in Nat
             /\ identifyCombo(cards).key \in Int
             /\ playCost(cards) \in Int
             /\ leadScore(cards, hand) \in Int
             /\ candidateScore(cards) \in Int
  <2>1. cards \in SUBSET hand /\ cards \in SUBSET Card /\ cards # {}
    BY DEF Of
  <2>2. Cardinality(cards) \in Nat
    BY <1>1, <2>1, FS_Subset, FS_CardinalityType
  <2>3. identifyCombo(cards).key \in Int
    BY <2>1, identifyComboType DEF Combo, NoCombo
  <2>4. playCost(cards) \in Int
    BY <2>3 DEF playCost
  <2> QED BY <2>2, <2>3, <2>4 DEF leadScore, candidateScore
<1> QED BY <1>1, <1>2, <1>3

\* A bot that compares plays by cost, or by the score of a lead, finds one.
LEMMA SomePlayIsLeast ==
  ASSUME NEW hand \in SUBSET Card, NEW S, Of(hand, S), S # {}
  PROVE  /\ Least(S, playCost) # {} /\ Least(S, playCost) \subseteq S
         /\ Least(S, LAMBDA p : leadScore(p, hand)) # {}
         /\ Least(S, LAMBDA p : leadScore(p, hand)) \subseteq S
         /\ Least(S, LAMBDA p : identifyCombo(p).key) # {}
<1>1. IsFiniteSet(S) /\ \A p \in S : /\ playCost(p) \in Int
                                     /\ leadScore(p, hand) \in Int
                                     /\ identifyCombo(p).key \in Int
  BY PlaysHaveCosts
<1>2. \E x \in S : \A y \in S : playCost(x) <= playCost(y)
  <2> DEFINE f == [p \in S |-> playCost(p)]
  <2>1. f \in [S -> Int]
    BY <1>1
  <2> HIDE DEF f
  <2>2. \E x \in S : \A y \in S : f[x] <= f[y]
    BY <1>1, <2>1, SomeIsLeast
  <2> QED BY <2>2 DEF f
<1>3. \E x \in S : \A y \in S : leadScore(x, hand) <= leadScore(y, hand)
  <2> DEFINE f == [p \in S |-> leadScore(p, hand)]
  <2>1. f \in [S -> Int]
    BY <1>1
  <2> HIDE DEF f
  <2>2. \E x \in S : \A y \in S : f[x] <= f[y]
    BY <1>1, <2>1, SomeIsLeast
  <2> QED BY <2>2 DEF f
<1>4. \E x \in S : \A y \in S : identifyCombo(x).key <= identifyCombo(y).key
  <2> DEFINE f == [p \in S |-> identifyCombo(p).key]
  <2>1. f \in [S -> Int]
    BY <1>1
  <2> HIDE DEF f
  <2>2. \E x \in S : \A y \in S : f[x] <= f[y]
    BY <1>1, <2>1, SomeIsLeast
  <2> QED BY <2>2 DEF f
<1> QED BY <1>2, <1>3, <1>4 DEF Least

\* What a bot may play is some of its cards, and is accepted once the opening card is in.
LEMMA PlaysAreAccepted ==
  ASSUME IInv, playing, ~OpenerLeft
  PROVE  /\ hands[turn] \in SUBSET Card
         /\ Of(hands[turn], Plays(turn))
         /\ \A cards \in Plays(turn) : cards # Pass /\ Accepted(cards)
         /\ pile = NoCombo => Plays(turn) # {}
<1>1. turn \in active /\ turn \in Seats /\ hands[turn] \in SUBSET Card /\ hands[turn] # {}
  BY DEF IInv, TypeOK, TableInv
<1>2. \A cards \in Plays(turn) :
        /\ cards \in SUBSET hands[turn]
        /\ validatePlay(cards, pile)
        /\ mustInclude(turn) = NoCard \/ mustInclude(turn) \in cards
  BY DEF Plays, enumerateLegalPlays, groupPlays, straightPlays
<1>3. \A cards : validatePlay(cards, pile) => cards # {}
  BY FS_EmptySet DEF validatePlay, identifyCombo
<1>4. \A cards \in SUBSET hands[turn] :
        mustInclude(turn) = NoCard \/ mustInclude(turn) \in cards => OpensRight(cards)
  BY DEF mustInclude, OpensRight, OpenerLeft
<1>5. ASSUME pile = NoCombo PROVE Plays(turn) # {}
  <2>1. PICK c \in hands[turn] : mustInclude(turn) \in {NoCard, c}
    BY <1>1 DEF mustInclude
  <2>2. validatePlay({c}, pile)
    BY <1>1, <1>5, singleLeads
  <2>3. {c} \in Plays(turn)
    BY <2>1, <2>2 DEF Plays, enumerateLegalPlays
  <2> QED BY <2>3
<1> QED BY <1>1, <1>2, <1>3, <1>4, <1>5 DEF Of, Pass, Accepted

\* The search looks at a play whenever there is one.
LEMMA SearchLooksAtAPlay ==
  ASSUME NEW hand \in SUBSET Card, NEW S, Of(hand, S), S # {}
  PROVE  \E c \in S : Cardinality({d \in S : candidateScore(d) > candidateScore(c)}) < MaxCandidates
<1> DEFINE f == [p \in S |-> 0 - candidateScore(p)]
<1>1. IsFiniteSet(S) /\ \A p \in S : candidateScore(p) \in Int
  BY PlaysHaveCosts
<1>2. f \in [S -> Int]
  BY <1>1
<1>3. PICK c \in S : \A d \in S : f[c] <= f[d]
  <2> HIDE DEF f
  <2> QED BY <1>1, <1>2, SomeIsLeast
<1>4. {d \in S : candidateScore(d) > candidateScore(c)} = {}
  BY <1>1, <1>3
<1>5. Cardinality({}) < MaxCandidates
  BY FS_EmptySet, MaxCandidatesAssumption
<1> QED BY <1>4, <1>5

\* The candidates of the search are plays, and the pass when there is a pile; there is one.
LEMMA CandidatesAreAccepted ==
  ASSUME IInv, playing, ~OpenerLeft
  PROVE  /\ chooseBestMove(turn) \subseteq Plays(turn) \cup {Pass}
         /\ \A cards \in chooseBestMove(turn) : Accepted(cards)
         /\ chooseBestMove(turn) # {}
<1>1. \A cards \in chooseBestMove(turn) : cards \in Plays(turn) \/ (cards = Pass /\ pile # NoCombo)
  BY DEF chooseBestMove
<1>2. \A cards \in chooseBestMove(turn) : Accepted(cards)
  BY <1>1, PlaysAreAccepted DEF Accepted
<1>3. CASE pile # NoCombo
  <2>1. Pass \in chooseBestMove(turn)
    BY <1>3 DEF chooseBestMove
  <2> QED BY <1>1, <1>2, <2>1
<1>4. CASE pile = NoCombo
  <2>1. Plays(turn) # {} /\ Of(hands[turn], Plays(turn)) /\ hands[turn] \in SUBSET Card
    BY <1>4, PlaysAreAccepted
  <2>2. PICK c \in Plays(turn) :
          Cardinality({d \in Plays(turn) : candidateScore(d) > candidateScore(c)}) < MaxCandidates
    BY <2>1, SearchLooksAtAPlay
  <2>3. c \in chooseBestMove(turn)
    BY <2>2 DEF chooseBestMove
  <2> QED BY <1>1, <1>2, <2>3
<1> QED BY <1>3, <1>4

\* The rules of the easy bot find a move that is accepted.
LEMMA EasyIsAccepted ==
  ASSUME IInv, playing, ~OpenerLeft, Plays(turn) # {}
  PROVE  /\ efficientHeuristic(turn) # {}
         /\ \A cards \in efficientHeuristic(turn) : Accepted(cards)
<1> DEFINE plays == Plays(turn)
           cheap == NonTrump(plays)
           hand == hands[turn]
<1>1. hand \in SUBSET Card /\ Of(hand, plays) /\ \A cards \in plays : Accepted(cards)
  BY PlaysAreAccepted
<1>2. cheap \subseteq plays /\ Of(hand, cheap)
  BY <1>1 DEF NonTrump, Of
<1>3. cheap # {} => /\ Least(cheap, playCost) # {} /\ Least(cheap, playCost) \subseteq plays
                    /\ Least(cheap, LAMBDA p : leadScore(p, hand)) # {}
                    /\ Least(cheap, LAMBDA p : leadScore(p, hand)) \subseteq plays
  <2> HIDE DEF cheap, plays, hand
  <2> QED BY <1>1, <1>2, SomePlayIsLeast
<1>4. Least(plays, playCost) # {} /\ Least(plays, playCost) \subseteq plays
  <2>1. plays # {}
    OBVIOUS
  <2> HIDE DEF plays, hand
  <2> QED BY <1>1, <2>1, SomePlayIsLeast
<1>5. pile # NoCombo => Accepted(Pass)
  BY DEF Accepted
<1>6. efficientHeuristic(turn) =
        IF pile = NoCombo /\ cheap # {} THEN Least(cheap, LAMBDA p : leadScore(p, hand))
        ELSE IF cheap # {} THEN Least(cheap, playCost)
        ELSE IF pile # NoCombo THEN {Pass}
        ELSE Least(plays, playCost)
  BY DEF efficientHeuristic
<1> HIDE DEF cheap, plays, hand
<1> QED BY <1>1, <1>3, <1>4, <1>5, <1>6

\* Whatever the tier and the table, a bot has a move, and the game accepts it.
LEMMA MovesAreLegal == IInv => BotsMoveLegally
<1> SUFFICES ASSUME IInv, playing, ~OpenerLeft, NEW teams \in Teams, NEW tier \in Tiers
             PROVE  /\ decideBotMove(turn, tier, teams) # {}
                    /\ \A cards \in decideBotMove(turn, tier, teams) : Accepted(cards)
  BY DEF BotsMoveLegally
<1> DEFINE plays == Plays(turn)
           singles == {cards \in plays : Cardinality(cards) = 1}
           hand == hands[turn]
<1>1. /\ hand \in SUBSET Card /\ Of(hand, plays) /\ \A cards \in plays : Accepted(cards)
      /\ pile = NoCombo => plays # {}
  BY PlaysAreAccepted
<1>2. pile # NoCombo => Accepted(Pass)
  BY DEF Accepted
<1>3. singles # {} => Least(singles, playCost) # {} /\ Least(singles, playCost) \subseteq plays
  <2>1. singles \subseteq plays /\ Of(hand, singles)
    BY <1>1 DEF Of
  <2> HIDE DEF singles, plays, hand
  <2> QED BY <1>1, <2>1, SomePlayIsLeast
<1>4. plays # {} => /\ efficientHeuristic(turn) # {}
                    /\ \A cards \in efficientHeuristic(turn) : Accepted(cards)
  BY EasyIsAccepted
<1>5. chooseBestMove(turn) # {} /\ \A cards \in chooseBestMove(turn) : Accepted(cards)
  BY CandidatesAreAccepted
<1>6. decideBotMove(turn, tier, teams) =
        IF plays = {} THEN {Pass}
        ELSE IF hand \in plays THEN {hand}
        ELSE IF teams /\ pile # NoCombo /\ pileOwner = partnerSeat(turn) THEN {Pass}
        ELSE IF teams /\ SetsUp(turn) /\ singles # {} THEN Least(singles, playCost)
        ELSE IF tier = "easy" THEN efficientHeuristic(turn)
        ELSE chooseBestMove(turn)
  BY DEF decideBotMove
<1> DEFINE moves == decideBotMove(turn, tier, teams)
<1> HIDE DEF plays, singles, hand, moves
<1>7. CASE plays = {}
  <2>1. moves = {Pass}
    BY <1>6, <1>7 DEF moves
  <2> QED BY <1>1, <1>2, <1>7, <2>1 DEF moves
<1>8. CASE plays # {}
  <2>1. \/ moves = {hand} /\ hand \in plays
        \/ moves = {Pass} /\ pile # NoCombo
        \/ moves = Least(singles, playCost) /\ singles # {}
        \/ moves = efficientHeuristic(turn)
        \/ moves = chooseBestMove(turn)
    BY <1>6, <1>8, Zenon DEF moves
  <2> QED BY <1>1, <1>2, <1>3, <1>4, <1>5, <1>8, <2>1 DEF moves
<1> QED BY <1>7, <1>8

-----------------------------------------------------------------------------
(* Every rollout ends.                                                     *)

\* A table of a rollout that goes on.  The passes of a trick outlive its plays: all that
\* can be said of them is that the seats between the owner and the turn passed.
SimInv(s) ==
    /\ s.hands \in [Seats -> SUBSET Card]
    /\ \A a, b \in Seats : a # b => s.hands[a] \cap s.hands[b] = {}
    /\ s.active \in SUBSET Seats /\ ~FewHolders(s.active)
    /\ \A a \in s.active : s.hands[a] # {}
    /\ s.passed \in SUBSET Seats
    /\ s.pile \in Combo \cup {NoCombo}
    /\ s.turn \in s.active \ s.passed
    /\ s.pile # NoCombo =>
         /\ s.owner \in Seats /\ s.turn # s.owner
         /\ \A a \in s.active : Dist(s.owner, a) < Dist(s.owner, s.turn) => a \in s.passed

\* The cards in play and the seats still asked; together they only become fewer.
CardsOf(s) == UNION {s.hands[a] : a \in Seats}
Asked(s) == contendersExcludingOwner(s.active, s.passed, s.owner)
StepsLeft(s) == N * (Cardinality(CardsOf(s)) - 1)
                  + (IF s.pile = NoCombo THEN 0 ELSE Cardinality(Asked(s)))

\* The turn moves on within a trick, whatever passes are left of earlier plays.
LEMMA SimTurnGoesOn ==
  ASSUME NEW o \in Seats, NEW t \in Seats,
         NEW A \in SUBSET Seats, NEW P \in SUBSET Seats,
         o # t => \A s \in A : Dist(o, s) <= Dist(o, t) => s \in P,
         contendersExcludingOwner(A, P, o) # {}
  PROVE  LET t2 == nextEligible(t, A, P)
         IN  /\ t2 \in A \ P /\ t2 # o
             /\ \A s \in A : Dist(o, s) < Dist(o, t2) => s \in P
<1> DEFINE t2 == nextEligible(t, A, P)
<1>1. CASE o = t
  <2> DEFINE B == A \ P
  <2>1. B \in SUBSET Seats /\ B \ {} = A \ P /\ contendersExcludingOwner(B, {}, o) # {}
    BY DEF contendersExcludingOwner
  <2>2. nextEligible(o, B, {}) = t2
    BY <1>1, <2>1 DEF nextEligible
  <2> HIDE DEF B, t2
  <2>3. t2 \in B /\ t2 # o /\ \A s \in B : Dist(o, t2) <= Dist(o, s)
    BY <2>1, <2>2, TurnAfterPlay
  <2>4. ASSUME NEW s \in A, Dist(o, s) < Dist(o, t2) PROVE s \in P
    <3>1. Dist(o, s) \in 1..N /\ Dist(o, t2) \in 1..N
      BY <2>1, <2>3, DistType
    <3> QED BY <2>3, <2>4, <3>1, NAssumption DEF B
  <2> QED BY <2>3, <2>4 DEF B, t2
<1>2. CASE o # t
  <2> DEFINE B == {s \in A : Dist(o, s) <= Dist(o, t)} \cup (A \ P)
             Q == {s \in A : Dist(o, s) <= Dist(o, t)}
  <2>1. Q \subseteq P /\ Q \subseteq B /\ B \subseteq Seats /\ B \ Q = A \ P
    BY <1>2
  <2>2. \A s \in B : Dist(o, s) <= Dist(o, t) => s \in Q
    OBVIOUS
  <2>3. \A s \in Q : Dist(o, s) <= Dist(o, t)
    OBVIOUS
  <2>4. A \ P \subseteq B /\ B \subseteq A
    OBVIOUS
  <2> HIDE DEF B, Q
  <2>5. contendersExcludingOwner(B, Q, o) # {} /\ nextEligible(t, B, Q) = t2
    BY <2>1 DEF contendersExcludingOwner, nextEligible
  <2> HIDE DEF t2
  <2>6. /\ t2 \in B /\ t2 \notin Q /\ t2 # o
        /\ \A s \in B : Dist(o, s) < Dist(o, t2) => s \in Q
    <3> DEFINE u == nextEligible(t, B, Q)
    <3>1. /\ u \in B /\ u \notin Q /\ u # o
          /\ \A s \in B : Dist(o, s) < Dist(o, u) => s \in Q
      BY <1>2, <2>1, <2>2, <2>3, <2>5, TurnGoesOn, ZenonT(60)
    <3>2. u = t2
      BY <2>5
    <3> HIDE DEF u
    <3> QED BY <3>1, <3>2
  <2> QED BY <2>1, <2>4, <2>6 DEF t2
<1> QED BY <1>1, <1>2

\* What follows a play or a pass: the rollout is over, a new trick is led, or the trick
\* goes on.
LEMMA SimGoesOn ==
  ASSUME NEW h \in [Seats -> SUBSET Card], \A a, b \in Seats : a # b => h[a] \cap h[b] = {},
         NEW A \in SUBSET Seats, ~FewHolders(A), \A a \in A : h[a] # {},
         NEW P \in SUBSET Seats, NEW pl \in Combo, pl # NoCombo, NEW o \in Seats, NEW t \in Seats,
         NEW w, NEW places,
         o # t => \A s \in A : Dist(o, s) <= Dist(o, t) => s \in P,
         NEW r, r = simAfterAction(Sim(h, A, P, pl, o, w, places), t)
  PROVE  /\ SimInv(r) /\ r.hands = h
         /\ \/ r.pile = NoCombo
            \/ r.pile = pl /\ r.active = A /\ r.passed = P /\ r.owner = o
<1> DEFINE s == Sim(h, A, P, pl, o, w, places)
           lead == simLeadsNext(s)
<1>1. CASE contendersExcludingOwner(A, P, o) = {}
  <2>1. o # NoSeat /\ A # {}
    BY NAssumption DEF Seats, NoSeat, FewHolders
  <2>2. lead = IF o \in A THEN o ELSE nextActiveAfter(o, A)
    BY <2>1 DEF simLeadsNext, Sim
  <2>3. lead \in A
    BY <2>1, <2>2, FirstAfterIsClosest DEF nextActiveAfter
  <2>4. lead # NoSeat
    BY <2>3, NAssumption DEF Seats, NoSeat
  <2> HIDE DEF lead
  <2>5. r = Sim(h, A, {}, NoCombo, NoSeat, lead, places)
    BY <1>1, <2>4 DEF simAfterAction, simResolveTrick, Sim, lead
  <2> QED BY <2>3, <2>5 DEF SimInv, Sim
<1>2. CASE contendersExcludingOwner(A, P, o) # {}
  <2> DEFINE t2 == nextEligible(t, A, P)
  <2>1. r = Sim(h, A, P, pl, o, t2, places)
    BY <1>2 DEF simAfterAction, Sim
  <2>2. /\ t2 \in A \ P /\ t2 # o
        /\ \A a \in A : Dist(o, a) < Dist(o, t2) => a \in P
    BY <1>2, SimTurnGoesOn, ZenonT(60)
  <2> HIDE DEF t2
  <2> QED BY <2>1, <2>2 DEF SimInv, Sim
<1> QED BY <1>1, <1>2

\* The seats asked and the cards in play are finitely many.
LEMMA StepsLeftType ==
  ASSUME NEW s, SimInv(s)
  PROVE  /\ CardsOf(s) \in SUBSET Card /\ IsFiniteSet(CardsOf(s))
         /\ Cardinality(CardsOf(s)) \in Nat /\ Cardinality(CardsOf(s)) >= 1
         /\ IsFiniteSet(Asked(s)) /\ Cardinality(Asked(s)) \in Nat
         /\ s.pile # NoCombo => Cardinality(Asked(s)) <= N - 1
         /\ s.turn \in Seats /\ s.hands[s.turn] \in SUBSET CardsOf(s) /\ s.hands[s.turn] # {}
<1>1. s.turn \in s.active /\ s.turn \in Seats /\ s.hands[s.turn] # {}
  BY DEF SimInv
<1>2. CardsOf(s) \in SUBSET Card /\ s.hands[s.turn] \in SUBSET CardsOf(s)
  BY <1>1 DEF SimInv, CardsOf
<1> DEFINE C == CardsOf(s)
           n == Cardinality(C)
<1>3. C # {} /\ C \in SUBSET Card
  BY <1>1, <1>2
<1> HIDE DEF C
<1>4. IsFiniteSet(C)
  BY <1>3, CardIsFinite, FS_Subset
<1>5. n \in Nat /\ n # 0
  BY <1>3, <1>4, FS_CardinalityType, FS_EmptySet
<1>6. IsFiniteSet(Seats) /\ Cardinality(Seats) = N
  <2>1. 0 \in Int /\ N - 1 \in Int /\ ~(0 > N - 1) /\ (N - 1) - 0 + 1 = N
    BY NAssumption
  <2> QED BY <2>1, FS_Interval DEF Seats
<1>7. Asked(s) \in SUBSET Seats /\ s.owner \notin Asked(s)
  BY DEF SimInv, Asked, contendersExcludingOwner
<1>8. IsFiniteSet(Asked(s)) /\ Cardinality(Asked(s)) \in Nat
  BY <1>6, <1>7, FS_Subset, FS_CardinalityType
<1>9. ASSUME s.pile # NoCombo PROVE Cardinality(Asked(s)) <= N - 1
  <2>1. s.owner \in Seats
    BY <1>9 DEF SimInv
  <2> DEFINE S == Seats \ {s.owner}
  <2>2. IsFiniteSet(S) /\ Cardinality(S) = N - 1
    BY <1>6, <2>1, FS_RemoveElement
  <2>3. Asked(s) \in SUBSET S
    BY <1>7
  <2> HIDE DEF S
  <2>4. Cardinality(Asked(s)) <= Cardinality(S)
    BY <2>2, <2>3, FS_Subset
  <2> QED BY <2>2, <2>4
<1>10. n >= 1
  BY <1>5
<1> QED BY <1>1, <1>2, <1>4, <1>5, <1>8, <1>9, <1>10 DEF C

\* A card less outweighs the seats that are asked again.
LEMMA CardOutweighs ==
  ASSUME NEW c \in Nat, NEW d \in Nat, d <= c - 1, NEW m \in Int, m <= N - 1
  PROVE  N * (d - 1) + m < N * (c - 1)
<1>1. CASE N = 2 BY <1>1
<1>2. CASE N = 3 BY <1>2
<1>3. CASE N = 4 BY <1>3
<1> QED BY <1>1, <1>2, <1>3, NAssumption

\* The steps left are a number.
LEMMA StepsLeftNat ==
  ASSUME NEW s, SimInv(s)
  PROVE  StepsLeft(s) \in Nat /\ StepsLeft(s) < playoutGuard(s)
<1> DEFINE c == Cardinality(CardsOf(s))
           a == IF s.pile = NoCombo THEN 0 ELSE Cardinality(Asked(s))
<1>1. c \in Nat /\ c >= 1 /\ a \in Nat /\ a <= N - 1
  BY StepsLeftType, NAssumption
<1>2. StepsLeft(s) = N * (c - 1) + a /\ playoutGuard(s) = N * c
  BY DEF StepsLeft, playoutGuard, CardsOf
<1> HIDE DEF c, a
<1>3. CASE N = 2 BY <1>1, <1>2, <1>3
<1>4. CASE N = 3 BY <1>1, <1>2, <1>4
<1>5. CASE N = 4 BY <1>1, <1>2, <1>5
<1> QED BY <1>3, <1>4, <1>5, NAssumption

\* What SimGoesOn asks of the table a seat u passed or played at, and what it says of the next.
MayGoOn(k, a, p, l, w, u) ==
    /\ k \in [Seats -> SUBSET Card] /\ \A x, y \in Seats : x # y => k[x] \cap k[y] = {}
    /\ a \in SUBSET Seats /\ ~FewHolders(a) /\ \A x \in a : k[x] # {}
    /\ p \in SUBSET Seats /\ l \in Combo /\ l # NoCombo /\ w \in Seats /\ u \in Seats
    /\ w # u => \A x \in a : Dist(w, x) <= Dist(w, u) => x \in p
GoesOn(k, a, p, l, w, n) ==
    /\ SimInv(n) /\ n.hands = k
    /\ \/ n.pile = NoCombo
       \/ n.pile = l /\ n.active = a /\ n.passed = p /\ n.owner = w

LEMMA SimGoesOnSo ==
  ASSUME NEW k, NEW a, NEW p, NEW l, NEW w, NEW u, MayGoOn(k, a, p, l, w, u),
         NEW v, NEW x, NEW n, n = simAfterAction(Sim(k, a, p, l, w, v, x), u)
  PROVE  GoesOn(k, a, p, l, w, n)
<1>1. /\ k \in [Seats -> SUBSET Card] /\ \A y, z \in Seats : y # z => k[y] \cap k[z] = {}
      /\ a \in SUBSET Seats /\ ~FewHolders(a) /\ \A y \in a : k[y] # {}
      /\ p \in SUBSET Seats /\ l \in Combo /\ l # NoCombo /\ w \in Seats /\ u \in Seats
      /\ w # u => \A y \in a : Dist(w, y) <= Dist(w, u) => y \in p
  BY DEF MayGoOn
<1>2. /\ SimInv(n) /\ n.hands = k
      /\ \/ n.pile = NoCombo
         \/ n.pile = l /\ n.active = a /\ n.passed = p /\ n.owner = w
  <2> HIDE DEF MayGoOn
  <2> QED BY <1>1, SimGoesOn, SMTT(30)
<1> QED BY <1>2 DEF GoesOn

\* A pass leaves one seat less to ask, or resolves the trick.
LEMMA SimPass ==
  ASSUME NEW s, SimInv(s), s.pile # NoCombo,
         NEW r, r = applyPass(s, s.turn)
  PROVE  SimInv(r) /\ StepsLeft(r) < StepsLeft(s)
<1> DEFINE P == s.passed \cup {s.turn}
           o == s.owner
           t == s.turn
           A == s.active
           h == s.hands
<1>1. /\ h \in [Seats -> SUBSET Card] /\ \A a, b \in Seats : a # b => h[a] \cap h[b] = {}
      /\ A \in SUBSET Seats /\ ~FewHolders(A) /\ \A a \in A : h[a] # {}
      /\ P \in SUBSET Seats /\ s.pile \in Combo /\ s.pile # NoCombo
      /\ o \in Seats /\ t \in Seats /\ t \in A \ s.passed /\ o # t
  BY DEF SimInv
<1>2. \A a \in A : Dist(o, a) <= Dist(o, t) => a \in P
  <2> SUFFICES ASSUME NEW a \in A, Dist(o, a) <= Dist(o, t), a # t PROVE a \in s.passed
    OBVIOUS
  <2>1. Dist(o, a) \in 1..N /\ Dist(o, t) \in 1..N
    BY <1>1, DistType
  <2>2. Dist(o, a) # Dist(o, t)
    BY <1>1, StepDist
  <2>3. Dist(o, a) < Dist(o, t)
    BY <2>1, <2>2, NAssumption
  <2> QED BY <1>1, <2>3 DEF SimInv
<1>3. r = simAfterAction(Sim(h, A, P, s.pile, o, t, s.order), t)
  BY DEF applyPass
<1>4. Asked(s) = (A \ s.passed) \ {o} /\ t \in Asked(s)
  BY <1>1 DEF Asked, contendersExcludingOwner
<1> DEFINE rest == (A \ P) \ {o}
<1>5. rest = Asked(s) \ {t}
  BY <1>4
<1>6. IsFiniteSet(Asked(s)) /\ Cardinality(Asked(s)) \in Nat
  BY StepsLeftType
<1>7. Cardinality(rest) = Cardinality(Asked(s)) - 1 /\ Cardinality(rest) \in Nat
  BY <1>4, <1>5, <1>6, FS_RemoveElement, FS_CardinalityType
<1> HIDE DEF P, o, t, A, h, rest
<1>8. /\ SimInv(r) /\ r.hands = h
      /\ \/ r.pile = NoCombo
         \/ r.pile = s.pile /\ r.active = A /\ r.passed = P /\ r.owner = o
  <2>1. MayGoOn(h, A, P, s.pile, o, t)
    BY <1>1, <1>2 DEF MayGoOn
  <2>2. GoesOn(h, A, P, s.pile, o, r)
    BY <1>3, <2>1, SimGoesOnSo
  <2> QED BY <2>2 DEF GoesOn
<1>9. CardsOf(r) = CardsOf(s)
  BY <1>8 DEF CardsOf, h
<1>10. \/ r.pile = NoCombo
       \/ r.pile # NoCombo /\ Asked(r) = rest
  BY <1>1, <1>8 DEF Asked, contendersExcludingOwner, rest
<1> DEFINE k == N * (Cardinality(CardsOf(s)) - 1)
<1>11. k \in Int
  <2>1. Cardinality(CardsOf(s)) \in Nat
    BY StepsLeftType
  <2> QED BY <2>1, NAssumption
<1>12. /\ StepsLeft(s) = k + Cardinality(Asked(s))
       /\ StepsLeft(r) = k + (IF r.pile = NoCombo THEN 0 ELSE Cardinality(Asked(r)))
  BY <1>1, <1>9 DEF StepsLeft
<1> HIDE DEF k
<1> QED BY <1>6, <1>7, <1>8, <1>10, <1>11, <1>12

\* A play leaves fewer cards, or nobody to play on with.
LEMMA SimPlay ==
  ASSUME NEW s, SimInv(s), NEW cards \in SUBSET s.hands[s.turn], identifyCombo(cards) \in Combo,
         cards # {}, identifyCombo(cards) # NoCombo,
         NEW r, r = applyPlay(s, s.turn, cards)
  PROVE  \/ r.turn = NoSeat /\ r.hands \in [Seats -> SUBSET Card]
         \/ SimInv(r) /\ StepsLeft(r) < StepsLeft(s)
<1> DEFINE t == s.turn
           combo == identifyCombo(cards)
           finished == cards = s.hands[t]
           A == IF finished THEN s.active \ {t} ELSE s.active
           h == [s.hands EXCEPT ![t] = @ \ cards]
           places == IF finished THEN Append(s.order, t) ELSE s.order
           after == Sim(h, A, s.passed, combo, t, t, places)
<1>1. r = IF finished /\ FewHolders(A) THEN simEndGame(after) ELSE simAfterAction(after, t)
  BY DEF applyPlay, Sim
<1>2. /\ s.hands \in [Seats -> SUBSET Card] /\ t \in Seats /\ s.active \in SUBSET Seats
      /\ \A a, b \in Seats : a # b => s.hands[a] \cap s.hands[b] = {}
      /\ \A a \in s.active : s.hands[a] # {}
      /\ ~FewHolders(s.active) /\ s.passed \in SUBSET Seats
  BY DEF SimInv
<1>3. h \in [Seats -> SUBSET Card] /\ \A a \in Seats : h[a] = IF a = t THEN s.hands[t] \ cards ELSE s.hands[a]
  BY SMTT(30), <1>2
<1> HIDE DEF h
<1>4. CASE finished /\ FewHolders(A)
  <2>1. r = simEndGame(after)
    BY <1>1, <1>4
  <2> QED BY <1>3, <2>1 DEF simEndGame, Sim
<1>5. CASE ~(finished /\ FewHolders(A))
  <2>1. r = simAfterAction(after, t)
    BY <1>1, <1>5
  <2>2. \A a, b \in Seats : a # b => h[a] \cap h[b] = {}
    BY <1>2, <1>3
  <2>3. A \in SUBSET Seats /\ ~FewHolders(A) /\ \A a \in A : h[a] # {}
    <3>1. CASE finished
      BY <1>2, <1>3, <1>5, <3>1
    <3>2. CASE ~finished
      <4>1. A = s.active /\ s.hands[t] \ cards # {}
        BY <3>2
      <4> QED BY <1>2, <1>3, <4>1
    <3> QED BY <3>1, <3>2
  <2> HIDE DEF A, finished, combo, places
  <2>4. SimInv(r) /\ r.hands = h
    BY <1>2, <1>3, <2>1, <2>2, <2>3, SimGoesOn DEF combo
  <2>5. CardsOf(r) \subseteq CardsOf(s) \ cards
    <3> SUFFICES ASSUME NEW a \in Seats, NEW c \in h[a] PROVE c \in CardsOf(s) \ cards
      BY <2>4 DEF CardsOf
    <3>1. c \in s.hands[a] /\ c \notin cards
      BY <1>2, <1>3
    <3> QED BY <3>1 DEF CardsOf
  <2>6. /\ cards \in SUBSET CardsOf(s) /\ IsFiniteSet(CardsOf(s)) /\ Cardinality(CardsOf(s)) \in Nat
        /\ Cardinality(CardsOf(r)) \in Nat /\ Cardinality(Asked(r)) \in Nat
        /\ r.pile # NoCombo => Cardinality(Asked(r)) <= N - 1
        /\ Cardinality(Asked(s)) \in Nat
    BY <2>4, StepsLeftType
  <2>7. Cardinality(CardsOf(r)) <= Cardinality(CardsOf(s)) - 1
    <3> DEFINE S == CardsOf(s)
    <3>1. CardsOf(r) \in SUBSET S /\ CardsOf(r) # S
      BY <2>5, <2>6
    <3>2. IsFiniteSet(S)
      BY <2>6
    <3> HIDE DEF S
    <3>3. Cardinality(CardsOf(r)) <= Cardinality(S) /\ Cardinality(CardsOf(r)) # Cardinality(S)
      BY <3>1, <3>2, FS_Subset
    <3> QED BY <2>6, <3>3 DEF S
  <2> DEFINE c == Cardinality(CardsOf(s))
             d == Cardinality(CardsOf(r))
             m == IF r.pile = NoCombo THEN 0 ELSE Cardinality(Asked(r))
             n == IF s.pile = NoCombo THEN 0 ELSE Cardinality(Asked(s))
  <2>8. c \in Nat /\ d \in Nat /\ d <= c - 1 /\ m \in Int /\ m <= N - 1 /\ n \in Nat
    BY <2>6, <2>7, NAssumption
  <2>9. StepsLeft(r) = N * (d - 1) + m /\ StepsLeft(s) = N * (c - 1) + n
    BY DEF StepsLeft
  <2> HIDE DEF c, d, m, n
  <2>10. N * (d - 1) + m < N * (c - 1)
    BY <2>8, CardOutweighs
  <2>11. N * (d - 1) \in Int /\ N * (c - 1) \in Int
    BY <2>8, NAssumption
  <2> QED BY <2>4, <2>8, <2>9, <2>10, <2>11
<1> QED BY <1>4, <1>5

\* What the engine accepts is a combination of some cards.
LEMMA AcceptedIsCombo ==
  ASSUME NEW cards \in SUBSET Card, NEW pl, validatePlay(cards, pl)
  PROVE  cards # {} /\ identifyCombo(cards) \in Combo /\ identifyCombo(cards) # NoCombo
<1>1. identifyCombo(cards) # NoCombo
  BY DEF validatePlay
<1>2. cards # {}
  BY <1>1, FS_EmptySet DEF identifyCombo
<1> QED BY <1>1, <1>2, identifyComboType

\* The leader of a rollout finds something to lead.
LEMMA RolloutLeads ==
  ASSUME NEW hand \in SUBSET Card, hand # {}
  PROVE  rolloutLead(hand) \in SUBSET hand /\ validatePlay(rolloutLead(hand), NoCombo)
<1> DEFINE groups == {g \in groupPlays(hand) : Cardinality(g) \in {2, 3}}
           whole == {g \in groups : \A h \in groups : g \subseteq h => g = h}
           S == {{c} : c \in hand} \cup whole
           score(g) == 100 * Cardinality(g) - identifyCombo(g).key
           f == [g \in S |-> 0 - score(g)]
<1>1. ASSUME NEW g \in S PROVE g \in SUBSET hand /\ g # {} /\ validatePlay(g, NoCombo)
  <2>1. CASE g \in whole
    <3>1. g \in SUBSET hand /\ Cardinality(g) \in {2, 3} /\ allSameRank(g)
      BY <2>1 DEF groupPlays
    <3>2. identifyCombo(g) # NoCombo
      BY <3>1 DEF identifyCombo, NoCombo, GroupType
    <3>3. g # {}
      BY <3>1, FS_EmptySet
    <3> QED BY <3>1, <3>2, <3>3 DEF validatePlay
  <2>2. CASE g \notin whole
    BY <2>2, singleLeads
  <2> QED BY <2>1, <2>2
<1>2. Of(hand, S) /\ S # {}
  <2>1. PICK c \in hand : TRUE
    OBVIOUS
  <2>2. {c} \in S
    OBVIOUS
  <2> HIDE DEF S
  <2> QED BY <1>1, <2>2 DEF Of
<1>3. rolloutLead(hand) = CHOOSE g \in S : \A h \in S : score(h) <= score(g)
  BY DEF rolloutLead
<1> HIDE DEF S
<1>4. IsFiniteSet(S) /\ \A g \in S : score(g) \in Int
  <2>1. IsFiniteSet(S) /\ \A g \in S : Cardinality(g) \in Nat /\ identifyCombo(g).key \in Int
    BY <1>2, PlaysHaveCosts
  <2>2. ASSUME NEW g \in S PROVE score(g) \in Int
    BY <2>1
  <2> HIDE DEF score
  <2> QED BY <2>1, <2>2
<1>5. f \in [S -> Int]
  BY <1>4
<1>6. PICK g \in S : \A h \in S : f[g] <= f[h]
  <2> HIDE DEF f
  <2> QED BY <1>2, <1>4, <1>5, SomeIsLeast
<1>7. \A h \in S : score(h) <= score(g)
  BY <1>4, <1>6
<1> HIDE DEF score
<1>8. rolloutLead(hand) \in S
  BY <1>3, <1>7
<1> QED BY <1>1, <1>8

\* The policy of a rollout passes only on a pile, and plays only what may be played.
LEMMA PolicyIsSound ==
  ASSUME NEW s, SimInv(s), NEW coop, NEW cards, cards = rolloutChoice(s, coop)
  PROVE  \/ cards = Pass /\ s.pile # NoCombo
         \/ /\ cards \in SUBSET s.hands[s.turn] /\ cards # {}
            /\ identifyCombo(cards) \in Combo /\ identifyCombo(cards) # NoCombo
<1> DEFINE hand == s.hands[s.turn]
           last == Cardinality(hand) = 1 /\ s.pile.type \in {"none", "single"} /\ validatePlay(hand, s.pile)
           lets == coop /\ s.pile # NoCombo /\ s.owner = partnerSeat(s.turn)
           size == s.pile.size
           same == {p \in SUBSET hand : Cardinality(p) = size /\ validatePlay(p, s.pile)}
<1>1. hand \in SUBSET Card /\ hand # {}
  BY DEF SimInv
<1>2. \/ cards = hand /\ last
      \/ cards = Pass /\ s.pile # NoCombo
      \/ cards = rolloutPlay(s, s.turn)
  <2>1. cards = IF last THEN hand ELSE IF lets THEN Pass ELSE rolloutPlay(s, s.turn)
    BY DEF rolloutChoice
  <2> QED BY <2>1, Zenon
<1>3. rolloutPlay(s, s.turn) =
        IF s.pile = NoCombo THEN rolloutLead(hand)
        ELSE IF s.pile.type \notin {"single", "pair", "triple"} \/ same = {} THEN Pass
        ELSE CHOOSE p \in Least(same, LAMBDA q : identifyCombo(q).key) : TRUE
  BY DEF rolloutPlay
<1>4. \A p \in same : p \in SUBSET hand /\ validatePlay(p, s.pile)
  OBVIOUS
<1> HIDE DEF same, hand
<1>5. ASSUME cards \in SUBSET hand, NEW pl, validatePlay(cards, pl)
      PROVE  /\ cards \in SUBSET hand /\ cards # {}
             /\ identifyCombo(cards) \in Combo /\ identifyCombo(cards) # NoCombo
  <2>1. cards \in SUBSET Card
    BY <1>1, <1>5
  <2> QED BY <1>5, <2>1, AcceptedIsCombo
<1>6. CASE cards = hand /\ last
  <2>1. cards \in SUBSET hand /\ validatePlay(cards, s.pile)
    BY <1>6
  <2> QED BY <1>5, <2>1 DEF hand
<1>7. CASE cards = rolloutPlay(s, s.turn) /\ s.pile = NoCombo
  <2>1. cards \in SUBSET hand /\ validatePlay(cards, NoCombo)
    BY <1>1, <1>3, <1>7, RolloutLeads
  <2> QED BY <1>5, <2>1 DEF hand
<1>8. CASE cards = rolloutPlay(s, s.turn) /\ s.pile # NoCombo /\ cards # Pass
  <2>1. same # {} /\ cards = CHOOSE p \in Least(same, LAMBDA q : identifyCombo(q).key) : TRUE
    BY <1>3, <1>8
  <2>2. Of(hand, same)
    <3> SUFFICES ASSUME NEW p \in same PROVE p # {}
      BY <1>4 DEF Of
    <3>1. p \in SUBSET Card /\ validatePlay(p, s.pile)
      BY <1>1, <1>4
    <3> QED BY <3>1, AcceptedIsCombo
  <2>3. Least(same, LAMBDA q : identifyCombo(q).key) # {}
    BY <1>1, <2>1, <2>2, SomePlayIsLeast
  <2>4. Least(same, LAMBDA q : identifyCombo(q).key) \subseteq same
    BY DEF Least
  <2>5. cards \in same
    BY <2>1, <2>3, <2>4
  <2>6. cards \in SUBSET hand /\ validatePlay(cards, s.pile)
    BY <1>4, <2>5
  <2> QED BY <1>5, <2>6 DEF hand
<1> QED BY <1>2, <1>6, <1>7, <1>8 DEF hand

\* Every step of a rollout ends it or brings it closer to its end.
LEMMA StepsGoDown ==
  ASSUME NEW s, SimInv(s), NEW coop, NEW r, r = goesOn(s, coop)
  PROVE  r.turn = NoSeat \/ (SimInv(r) /\ StepsLeft(r) < StepsLeft(s))
<1> DEFINE cards == rolloutChoice(s, coop)
<1>1. s.turn # NoSeat
  <2>1. s.turn \in Seats
    BY DEF SimInv
  <2> QED BY <2>1, NAssumption DEF Seats, NoSeat
<1>2. r = IF cards = Pass THEN applyPass(s, s.turn) ELSE applyPlay(s, s.turn, cards)
  BY <1>1 DEF goesOn, rolloutStep
<1>3. \/ cards = Pass /\ s.pile # NoCombo
      \/ /\ cards \in SUBSET s.hands[s.turn] /\ cards # {}
         /\ identifyCombo(cards) \in Combo /\ identifyCombo(cards) # NoCombo
  <2> HIDE DEF cards
  <2> QED BY PolicyIsSound DEF cards
<1> HIDE DEF cards
<1>4. CASE cards = Pass
  <2>1. r = applyPass(s, s.turn) /\ s.pile # NoCombo
    BY <1>2, <1>3, <1>4 DEF Pass
  <2> QED BY <2>1, SimPass
<1>5. CASE cards # Pass
  <2>1. r = applyPlay(s, s.turn, cards)
    BY <1>2, <1>5
  <2>2. /\ cards \in SUBSET s.hands[s.turn] /\ cards # {}
        /\ identifyCombo(cards) \in Combo /\ identifyCombo(cards) # NoCombo
    BY <1>3, <1>5
  <2> QED BY <2>1, <2>2, SimPlay
<1> QED BY <1>4, <1>5

\* Of some numbers one is the least.
LEMMA SomeNumberIsLeast ==
  ASSUME NEW B \in SUBSET Nat, B # {}
  PROVE  \E n \in B : \A m \in B : n <= m
<1>1. PICK b \in B : TRUE
  OBVIOUS
<1> DEFINE S == {m \in B : m <= b}
           f == [m \in S |-> m]
<1>2. S \in SUBSET Nat /\ S # {} /\ \A m \in S : m <= b
  <2>1. b \in Nat /\ b <= b
    BY <1>1
  <2>2. b \in S
    BY <2>1
  <2> QED BY <2>2
<1>3. IsFiniteSet(S)
  <2> HIDE DEF S
  <2> QED BY <1>1, <1>2, FS_BoundedSetOfNaturals
<1>4. f \in [S -> Int]
  BY <1>2
<1>5. PICK n \in S : \A m \in S : f[n] <= f[m]
  <2> HIDE DEF S, f
  <2> QED BY <1>2, <1>3, <1>4, SomeIsLeast
<1>6. \A m \in B : n <= m
  BY <1>1, <1>5
<1> QED BY <1>6

\* The tables of a rollout, one after the other.
Tables(f, n, sim, coop) == f = [k \in 0..n |-> IF k = 0 THEN sim ELSE goesOn(f[k - 1], coop)]

\* A rollout has a table after every number of steps.
LEMMA TablesExist ==
  ASSUME NEW n \in Nat, NEW sim, NEW coop
  PROVE  \E f : Tables(f, n, sim, coop)
<1> DEFINE B == {m \in Nat : ~\E f : Tables(f, m, sim, coop)}
<1> SUFFICES ASSUME B # {} PROVE FALSE
  OBVIOUS
<1>1. PICK m \in B : \A k \in B : m <= k
  <2>1. B \in SUBSET Nat
    OBVIOUS
  <2> HIDE DEF B
  <2> QED BY <2>1, SomeNumberIsLeast
<1>2. m # 0
  <2>1. Tables([k \in 0..0 |-> sim], 0, sim, coop)
    BY DEF Tables
  <2> QED BY <1>1, <2>1
<1>3. PICK f : Tables(f, m - 1, sim, coop)
  <2>1. m - 1 \in Nat /\ ~(m <= m - 1)
    BY <1>1, <1>2
  <2>2. m - 1 \notin B
    <3> HIDE DEF B
    <3> QED BY <1>1, <2>1
  <2> QED BY <2>1, <2>2
<1> DEFINE g == [k \in 0..m |-> IF k = 0 THEN sim ELSE goesOn(f[k - 1], coop)]
<1>4. \A k \in 0..(m - 1) : f[k] = IF k = 0 THEN sim ELSE goesOn(f[k - 1], coop)
  BY <1>3 DEF Tables
<1>5. \A k \in 0..(m - 1) : g[k] = f[k]
  BY <1>1, <1>4
<1>6. \A k \in 0..m : k # 0 => k - 1 \in 0..(m - 1)
  BY <1>1
<1>7. g = [k \in 0..m |-> IF k = 0 THEN sim ELSE goesOn(g[k - 1], coop)]
  <2> DEFINE h == [k \in 0..m |-> IF k = 0 THEN sim ELSE goesOn(g[k - 1], coop)]
  <2>1. \A k \in 0..m : g[k] = IF k = 0 THEN sim ELSE goesOn(f[k - 1], coop)
    OBVIOUS
  <2> HIDE DEF g
  <2>2. \A k \in 0..m : h[k] = g[k]
    BY <1>5, <1>6, <2>1
  <2>3. g = [k \in 0..m |-> g[k]]
    BY DEF g
  <2> QED BY <2>2, <2>3
<1>8. Tables(g, m, sim, coop)
  <2> HIDE DEF g
  <2> QED BY <1>7 DEF Tables
<1> QED BY <1>1, <1>8

\* A rollout from a table in order comes to an end before the guard stops it.
LEMMA PlayoutEnds ==
  ASSUME NEW sim, NEW coop,
         \/ sim.turn = NoSeat /\ sim.hands \in [Seats -> SUBSET Card]
         \/ SimInv(sim)
  PROVE  playout(sim, coop).turn = NoSeat
<1> DEFINE G == playoutGuard(sim)
           f == CHOOSE f : Tables(f, G, sim, coop)
<1>1. G \in Nat
  <2> DEFINE C == UNION {sim.hands[s] : s \in Seats}
  <2>1. C \in SUBSET Card
    BY DEF SimInv
  <2> HIDE DEF C
  <2>2. Cardinality(C) \in Nat
    BY <2>1, CardIsFinite, FS_Subset, FS_CardinalityType
  <2>3. G = N * Cardinality(C)
    BY DEF playoutGuard, C
  <2> QED BY <2>2, <2>3, NAssumption
<1>2. playout(sim, coop) = f[G]
  BY DEF playout, Tables
<1> HIDE DEF G
<1>3. Tables(f, G, sim, coop)
  BY <1>1, TablesExist
<1> HIDE DEF f
<1>4. \A k \in 0..G : f[k] = IF k = 0 THEN sim ELSE goesOn(f[k - 1], coop)
  BY <1>3 DEF Tables
<1> DEFINE good(k) == \/ f[k].turn = NoSeat
                      \/ SimInv(sim) /\ SimInv(f[k]) /\ StepsLeft(f[k]) + k <= StepsLeft(sim)
           B == {k \in 0..G : ~good(k)}
<1>5. B = {}
  <2> SUFFICES ASSUME B # {} PROVE FALSE
    OBVIOUS
  <2>1. PICK n \in B : \A k \in B : n <= k
    <3>1. B \in SUBSET Nat
      BY <1>1
    <3> HIDE DEF B
    <3> QED BY <3>1, SomeNumberIsLeast
  <2>2. n \in 0..G /\ ~good(n)
    BY <2>1
  <2>3. n # 0
    <3> SUFFICES ASSUME n = 0 PROVE good(0)
      BY <2>2
    <3>1. f[0] = sim
      BY <1>4, <2>2
    <3>2. SimInv(sim) => StepsLeft(sim) \in Nat
      BY StepsLeftNat
    <3> QED BY <3>1, <3>2
  <2>4. n - 1 \in 0..G /\ f[n] = goesOn(f[n - 1], coop)
    BY <1>1, <1>4, <2>2, <2>3
  <2>5. good(n - 1)
    <3>1. ~(n <= n - 1)
      BY <1>1, <2>2
    <3>2. n - 1 \notin B
      <4> HIDE DEF B
      <4> QED BY <2>1, <3>1
    <3> HIDE DEF good
    <3> QED BY <2>4, <3>2
  <2>6. CASE f[n - 1].turn = NoSeat
    BY <2>2, <2>4, <2>6 DEF goesOn
  <2>7. CASE SimInv(sim) /\ SimInv(f[n - 1]) /\ StepsLeft(f[n - 1]) + (n - 1) <= StepsLeft(sim)
    <3>1. f[n].turn = NoSeat \/ (SimInv(f[n]) /\ StepsLeft(f[n]) < StepsLeft(f[n - 1]))
      BY <2>4, <2>7, StepsGoDown
    <3>2. CASE SimInv(f[n]) /\ StepsLeft(f[n]) < StepsLeft(f[n - 1])
      <4>1. StepsLeft(f[n]) \in Nat /\ StepsLeft(f[n - 1]) \in Nat /\ StepsLeft(sim) \in Nat /\ n \in Nat
        BY <1>1, <2>2, <2>7, <3>2, StepsLeftNat
      <4> QED BY <2>2, <2>7, <3>2, <4>1
    <3> QED BY <2>2, <3>1, <3>2
  <2> QED BY <2>5, <2>6, <2>7
<1>6. good(G)
  BY <1>1, <1>5
<1>7. ASSUME SimInv(sim), SimInv(f[G]), StepsLeft(f[G]) + G <= StepsLeft(sim) PROVE FALSE
  <2>1. StepsLeft(f[G]) \in Nat /\ StepsLeft(sim) \in Nat /\ StepsLeft(sim) < G
    BY <1>7, StepsLeftNat DEF G
  <2> QED BY <1>1, <1>7, <2>1
<1> QED BY <1>2, <1>6, <1>7

\* The hands have no card in common: they are dealt so, and cards only leave them.
HandsApart == \A s, t \in Seats : s # t => hands[s] \cap hands[t] = {}

LEMMA HandsStayApart ==
  /\ Init => HandsApart
  /\ IInv /\ HandsApart /\ [Next]_gameVars => HandsApart'
<1>1. Init => HandsApart
  BY DealsAssumption DEF Init, HandsApart
<1>2. ASSUME IInv, HandsApart, [Next]_gameVars PROVE HandsApart'
  <2>1. hands \in [Seats -> SUBSET Card]
    BY <1>2 DEF IInv, TypeOK
  <2>2. \/ hands' = hands
        \/ \E seat \in Seats, cards \in SUBSET Card : hands' = [hands EXCEPT ![seat] = @ \ cards]
    <3>1. ASSUME NEW seat \in Seats, Play(seat)
          PROVE  \E cards \in SUBSET Card : hands' = [hands EXCEPT ![seat] = @ \ cards]
      BY <2>1, <3>1 DEF Play, play
    <3>2. ASSUME NEW seat \in Seats, pass(seat) \/ forfeitSeat(seat) PROVE hands' = hands
      BY <3>2 DEF pass, forfeitSeat
    <3>3. UNCHANGED gameVars => hands' = hands
      BY DEF gameVars
    <3> QED BY <1>2, <3>1, <3>2, <3>3 DEF Next
  <2> QED BY <1>2, <2>1, <2>2 DEF HandsApart
<1> QED BY <1>1, <1>2

\* The table a determinization copies is in order.
LEMMA TableIsInOrder ==
  ASSUME IInv, HandsApart, playing
  PROVE  SimInv(determinize)
<1>1. /\ hands \in [Seats -> SUBSET Card] /\ active \in SUBSET Seats /\ passed \in SUBSET Seats
      /\ pile \in Combo \cup {NoCombo}
  BY DEF IInv, TypeOK
<1>2. /\ turn \in active \ passed /\ ~FewHolders(active) /\ \A s \in active : hands[s] # {}
      /\ pile # NoCombo => /\ pileOwner \in Seats /\ turn # pileOwner
                           /\ \A s \in active : Dist(pileOwner, s) < Dist(pileOwner, turn) => s \in passed
  BY DEF IInv, TableInv, TrickGoesRound
<1> QED BY <1>1, <1>2 DEF HandsApart, SimInv, determinize, Sim

\* Whatever a search imagines is over before its guard stops it.
LEMMA SearchesEnd == IInv /\ HandsApart => RolloutsEnd
<1> SUFFICES ASSUME IInv, HandsApart, playing, ~OpenerLeft,
                    NEW sim \in Candidates, NEW teams \in Teams
             PROVE  playout(sim, teams).turn = NoSeat
  BY DEF RolloutsEnd
<1>1. PICK cards \in chooseBestMove(turn) : sim = Simulated(turn, cards)
  BY DEF Candidates
<1>2. SimInv(determinize) /\ determinize.turn = turn /\ determinize.hands = hands /\ determinize.pile = pile
  BY TableIsInOrder DEF determinize, Sim
<1>3. Accepted(cards)
  BY CandidatesAreAccepted
<1>4. CASE cards = Pass
  <2>1. sim = applyPass(determinize, turn) /\ pile # NoCombo
    BY <1>1, <1>3, <1>4 DEF Simulated, Accepted
  <2>2. SimInv(sim)
    BY <1>2, <2>1, SimPass
  <2> QED BY <2>2, PlayoutEnds
<1>5. CASE cards # Pass
  <2>1. sim = applyPlay(determinize, turn, cards) /\ cards \in SUBSET hands[turn] /\ validatePlay(cards, pile)
    BY <1>1, <1>3, <1>5 DEF Simulated, Accepted
  <2>2. cards \in SUBSET Card
    BY <2>1 DEF IInv, TypeOK, TableInv
  <2>3. cards # {} /\ identifyCombo(cards) \in Combo /\ identifyCombo(cards) # NoCombo
    BY <2>1, <2>2, AcceptedIsCombo
  <2>4. \/ sim.turn = NoSeat /\ sim.hands \in [Seats -> SUBSET Card]
        \/ SimInv(sim)
    BY <1>2, <2>1, <2>3, SimPlay
  <2> QED BY <2>4, PlayoutEnds
<1> QED BY <1>4, <1>5

-----------------------------------------------------------------------------
(* What a rollout imagines of the next table is so.                        *)

\* A list starts with the part that others are put behind.
LEMMA ConcatStarts ==
  ASSUME NEW p \in Seq(Seats), NEW q \in Seq(Seats)
  PROVE  SubSeq(p \o q, 1, Len(p)) = p
<1>1. Len(p) \in Nat
  OBVIOUS
<1>2. CASE Len(p) = 0
  <2>1. p = <<>>
    BY <1>2, EmptySeq
  <2>2. 1 \in Int /\ 0 \in Int /\ 0 < 1
    OBVIOUS
  <2>3. SubSeq(p \o q, 1, 0) = <<>>
    BY <2>2, SubSeqEmpty
  <2> QED BY <1>2, <2>1, <2>3
<1>3. CASE Len(p) # 0
  <2>1. 1 \in 1..Len(p) /\ Len(p) \in 1..Len(p)
    BY <1>1, <1>3
  <2>2. SubSeq(p \o q, 1, Len(p)) = SubSeq(p, 1, Len(p))
    BY <2>1, SubSeqOfConcat1
  <2> QED BY <2>2, SubSeqFull
<1> QED BY <1>2, <1>3

\* The end of a game, as a rollout imagines it.
LEMMA EndFollows ==
  ASSUME NEW act \in SUBSET Seats, NEW order \in Seq(Seats), gone \in Seq(Seats),
         act \cap Members(gone) = {}, endGame(act, order, gone),
         NEW sim, sim.active = act, sim.order = order
  PROVE  Follows(simEndGame(sim))
<1> DEFINE placed == order \o Stayers(act, gone)
           behind == Quitters(placed, gone)
<1>1. /\ finishingOrder' = FinalOrder(order, act, gone) /\ turn' = NoSeat
      /\ active' = {}
  BY DEF endGame
<1>2. Stayers(act, <<>>) = Stayers(act, gone)
  <2>1. \A s : s \in act => s \notin Members(gone)
    OBVIOUS
  <2>2. \A s : s \notin Members(<<>>)
    BY DEF Members
  <2> QED BY <2>1, <2>2 DEF Stayers, Only
<1>3. placed \in Seq(Seats) /\ behind \in Seq(Seats) /\ FinalOrder(order, act, gone) = placed \o behind
  BY FinalOrderType DEF FinalOrder
<1>4. simEndGame(sim).order = placed /\ simEndGame(sim).active = {} /\ simEndGame(sim).turn = NoSeat
  BY <1>2 DEF simEndGame, Sim
<1> HIDE DEF placed, behind
<1>5. SubSeq(finishingOrder', 1, Len(placed)) = placed
  BY <1>1, <1>3, ConcatStarts
<1>6. Shown(simEndGame(sim)) = Shown(determinize')
  BY <1>1, <1>4 DEF Shown, determinize, Sim
<1> QED BY <1>4, <1>5, <1>6 DEF Follows

\* What follows a play or a pass that does not end the game, as a rollout imagines it.
LEMMA AfterActionFollows ==
  ASSUME NEW act \in SUBSET Seats, ~FewHolders(act), NEW psd, NEW pl, NEW owner \in Seats,
         NEW order \in Seq(Seats), NEW seat, NEW h, NEW w,
         afterAction(seat, act, psd, pl, owner, order)
  PROVE  Follows(simAfterAction(Sim(h, act, psd, pl, owner, w, order), seat))
<1> DEFINE s == Sim(h, act, psd, pl, owner, w, order)
           r == simAfterAction(s, seat)
<1>1. SubSeq(order, 1, Len(order)) = order
  BY SubSeqFull
<1>2. owner # NoSeat /\ act # {}
  BY NAssumption DEF Seats, NoSeat, FewHolders
<1>3. CASE contendersExcludingOwner(act, psd, owner) = {}
  <2> DEFINE lead == IF owner \in act THEN owner ELSE nextActiveAfter(owner, act)
  <2>1. lead \in act /\ lead # NoSeat
    <3>1. lead \in act
      BY <1>2, FirstAfterIsClosest DEF nextActiveAfter
    <3> QED BY <3>1, NAssumption DEF Seats, NoSeat
  <2>2. simLeadsNext(s) = lead
    BY <1>2 DEF simLeadsNext, Sim
  <2>3. r = Sim(h, act, {}, NoCombo, NoSeat, lead, order)
    BY <1>3, <2>1, <2>2 DEF simAfterAction, simResolveTrick, Sim
  <2>4. /\ turn' = lead /\ active' = act /\ pile' = NoCombo /\ pileOwner' = NoSeat /\ passed' = {}
        /\ finishingOrder' = order
    <3>1. resolveTrick(act, owner, order, gone)
      BY <1>3 DEF afterAction
    <3> QED BY <1>2, <2>1, <3>1 DEF resolveTrick
  <2> HIDE DEF lead, r, s
  <2>5. Follows(r)
    BY <1>1, <2>3, <2>4 DEF Follows, Shown, determinize, Sim
  <2> QED BY <2>5 DEF r, s
<1>4. CASE contendersExcludingOwner(act, psd, owner) # {}
  <2>1. r = Sim(h, act, psd, pl, owner, nextEligible(seat, act, psd), order)
    BY <1>4 DEF simAfterAction, Sim
  <2>2. /\ turn' = nextEligible(seat, act, psd) /\ active' = act /\ pile' = pl /\ pileOwner' = owner
        /\ passed' = psd /\ finishingOrder' = order
    BY <1>4 DEF afterAction, passTurn
  <2> HIDE DEF r, s
  <2>3. Follows(r)
    BY <1>1, <2>1, <2>2 DEF Follows, Shown, determinize, Sim
  <2> QED BY <2>3 DEF r, s
<1> QED BY <1>3, <1>4

\* A pass, as a rollout imagines it.
LEMMA PassFollows ==
  ASSUME IInv, NEW seat \in Seats, pass(seat)
  PROVE  hands' = hands /\ Follows(applyPass(determinize, turn))
<1>1. /\ seat = turn /\ hands' = hands /\ playing
      /\ afterAction(seat, active, passed \cup {seat}, pile, pileOwner, finishingOrder)
  BY DEF pass, playing
<1>2. active \in SUBSET Seats /\ ~FewHolders(active) /\ pileOwner \in Seats /\ finishingOrder \in Seq(Seats)
  BY <1>1 DEF IInv, TypeOK, TableInv, pass
<1>3. applyPass(determinize, turn) =
        simAfterAction(Sim(hands, active, passed \cup {seat}, pile, pileOwner, turn, finishingOrder), seat)
  BY <1>1 DEF applyPass, determinize, Sim
<1> QED BY <1>1, <1>2, <1>3, AfterActionFollows

\* A play where nobody has passed since the last one, as a rollout imagines it.
LEMMA PlayFollows ==
  ASSUME IInv, NEW seat \in Seats, NEW cards \in SUBSET hands[seat], play(seat, cards)
  PROVE  /\ hands' # hands
         /\ passed = {} => Follows(applyPlay(determinize, turn, hands[turn] \ hands'[turn]))
<1> DEFINE finished == cards = hands[seat]
           act == IF finished THEN active \ {seat} ELSE active
           order == IF finished THEN Append(finishingOrder, seat) ELSE finishingOrder
           combo == identifyCombo(cards)
           h == [hands EXCEPT ![seat] = @ \ cards]
           after == Sim(h, act, {}, combo, seat, turn, order)
<1>1. /\ playing /\ seat = turn /\ cards # {} /\ hands' = h
      /\ IF finished /\ FewHolders(act) THEN endGame(act, order, gone)
                                        ELSE afterAction(seat, act, {}, combo, seat, order)
  BY DEF play, playing
<1>2. /\ hands \in [Seats -> SUBSET Card] /\ finishingOrder \in Seq(Seats) /\ gone \in Seq(Seats)
      /\ active \in SUBSET Seats /\ ~FewHolders(active) /\ active \cap Members(gone) = {}
  BY <1>1 DEF IInv, TypeOK, TableInv
<1>3. hands' # hands /\ hands[turn] \ hands'[turn] = cards
  <2>1. hands'[turn] = hands[turn] \ cards
    BY <1>1, <1>2
  <2> QED BY <1>1, <2>1
<1>4. order \in Seq(Seats)
  BY <1>2, MembersAppend
<1>5. ASSUME passed = {} PROVE Follows(applyPlay(determinize, turn, cards))
  <2>1. applyPlay(determinize, turn, cards) =
          IF finished /\ FewHolders(act) THEN simEndGame(after) ELSE simAfterAction(after, seat)
    BY <1>1, <1>5 DEF applyPlay, determinize, Sim
  <2>2. act \in SUBSET Seats /\ act \cap Members(gone) = {} /\ (~finished => ~FewHolders(act))
    BY <1>2
  <2>3. after.active = act /\ after.order = order
    BY DEF Sim
  <2>4. CASE finished /\ FewHolders(act)
    <3>1. endGame(act, order, gone) /\ applyPlay(determinize, turn, cards) = simEndGame(after)
      BY <1>1, <2>1, <2>4
    <3> HIDE DEF after, act, order
    <3> QED BY <1>2, <1>4, <2>2, <2>3, <3>1, EndFollows
  <2>5. CASE ~(finished /\ FewHolders(act))
    <3>1. /\ afterAction(seat, act, {}, combo, seat, order)
          /\ applyPlay(determinize, turn, cards) = simAfterAction(after, seat)
          /\ ~FewHolders(act)
      BY <1>1, <2>1, <2>2, <2>5
    <3> HIDE DEF act, order, combo, h, finished
    <3> QED BY <1>4, <2>2, <3>1, AfterActionFollows
  <2> QED BY <2>4, <2>5
<1> HIDE DEF h
<1> QED BY <1>3, <1>5

\* The next table of a rollout is the game's.
LEMMA ImaginedIsSo ==
  IInv /\ [Next]_gameVars =>
    [gone' = gone =>
       /\ hands' = hands => Follows(applyPass(determinize, turn))
       /\ hands' # hands /\ passed = {} =>
            Follows(applyPlay(determinize, turn, hands[turn] \ hands'[turn]))]_gameVars
<1> SUFFICES ASSUME IInv, Next, gone' = gone
             PROVE  /\ hands' = hands => Follows(applyPass(determinize, turn))
                    /\ hands' # hands /\ passed = {} =>
                         Follows(applyPlay(determinize, turn, hands[turn] \ hands'[turn]))
  OBVIOUS
<1>1. ASSUME NEW seat \in Seats, forfeitSeat(seat) PROVE FALSE
  <2>1. gone \in Seq(Seats) /\ gone' = Append(gone, seat)
    BY <1>1 DEF IInv, TypeOK, forfeitSeat
  <2>2. Len(gone') = Len(gone) + 1 /\ Len(gone) \in Nat
    BY <2>1, AppendProperties
  <2> QED BY <2>2
<1>2. ASSUME NEW seat \in Seats, Play(seat)
      PROVE  /\ hands' # hands
             /\ passed = {} => Follows(applyPlay(determinize, turn, hands[turn] \ hands'[turn]))
  BY <1>2, PlayFollows DEF Play
<1>3. ASSUME NEW seat \in Seats, pass(seat)
      PROVE  hands' = hands /\ Follows(applyPass(determinize, turn))
  BY <1>3, PassFollows
<1> QED BY <1>1, <1>2, <1>3, Zenon DEF Next

\* What a bot decides is played, whatever its tier and the table, every rollout of its
\* search ends by its own rules, and what a rollout imagines of the next table is so.
THEOREM BotsAreRight == Spec => BotsAreSound
<1>1. IInv /\ HandsApart => BotsPlayOn
  BY MovesAreLegal, SearchesEnd DEF BotsPlayOn
<1> QED BY <1>1, ImaginedIsSo, Invariance, HandsStayApart, PTL DEF Spec, BotsAreSound, RolloutsFollow
=============================================================================
