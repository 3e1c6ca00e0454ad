------------------------------- MODULE Match -------------------------------
(***************************************************************************)
(* A match (packages/server/src/match/match.ts, scoring.ts): single games  *)
(* one after the other, points by place, the target and its extension on a *)
(* tie, the card switch between the loser and the winner of a game, and    *)
(* players leaving at any moment.                                          *)
(*                                                                         *)
(* A game in progress is the outcome so far (module Places), which is what *)
(* SingleGame is shown to implement; plays and passes that empty no hand   *)
(* do not show here.  Cards show only in the switch.                       *)
(***************************************************************************)
EXTENDS Engine, Places, TLC

CONSTANTS
    MatchType,   \* "1v1", "1v1v1" or "2v2"
    StartTarget, \* points to reach; 21 in production
    Deals,       \* the deals considered: one set of cards per seat
    MaxGames     \* bound: no more than this many games are dealt

\* playersForType: the number of seats follows from the type.
ASSUME TypeAssumption == \/ MatchType = "1v1" /\ N = 2
                         \/ MatchType = "1v1v1" /\ N = 3
                         \/ MatchType = "2v2" /\ N = 4
ASSUME TargetAssumption == StartTarget \in Nat \ {0}
\* dealHands: no card is dealt to two seats.
ASSUME DealsAssumption ==
    \A deal \in Deals : /\ deal \in [Seats -> SUBSET Card]
                        /\ \A s, t \in Seats : s # t => deal[s] \cap deal[t] = {}

VARIABLES
    target,      \* points that win the match
    cumulative,  \* seat -> points so far
    state,       \* "playing", "awaitingSwitch" or "matchOver"
    gameIndex,   \* index of the current or the last game, from 0
    game,        \* outcome so far of the current game
    matchWinner, \* the winning side and its present seats, or NoWinner
    goneSeats,   \* the seats whose player left the match, in that order
    hands,       \* the cards the current game began with, or the pending deal
    leader,      \* the seat that led, or is to lead, the current game
    pending      \* who owes whom a card while awaiting the switch, or NoSwitch

vars == <<target, cumulative, state, gameIndex, game, matchWinner, goneSeats, hands, leader, pending>>

NoGame == Outcome({}, <<>>, <<>>, TRUE)
NoWinner == [side |-> -1, seats |-> {}]
NoSwitch == [winner |-> NoSeat, loser |-> NoSeat, received |-> "none"]

TEAMS == <<{0, 2}, {1, 3}>>
TARGET_STEP == 10

-----------------------------------------------------------------------------
(* Scoring.                                                                *)

PLACE_POINTS == CASE MatchType = "1v1" -> <<1, 0>>
                  [] MatchType = "1v1v1" -> <<2, 1, 0>>
                  [] MatchType = "2v2" -> <<3, 2, 1, 0>>

\* Mutant of gamePoints: the last place earns a point.
gamePoints_lastEarns(order) ==
    [s \in Seats |-> PLACE_POINTS[CHOOSE place \in 1..N : order[place] = s] + 1]

gamePoints(order) ==
    [s \in Seats |-> PLACE_POINTS[CHOOSE place \in 1..N : order[place] = s]]

Sides == IF MatchType = "2v2" THEN {0, 1} ELSE Seats
seatsOfSide(side) == IF MatchType = "2v2" THEN TEAMS[side + 1] ELSE {side}

\* Per-seat points, or team totals in 2v2.
sideScores(points) ==
    [side \in Sides |-> IF MatchType = "2v2"
                          THEN IF side = 0 THEN points[0] + points[2] ELSE points[1] + points[3]
                          ELSE points[side]]

Leaders(scores) == {side \in Sides : \A other \in Sides : scores[other] <= scores[side]}

\* evaluateMatch: a unique leader at the target wins; leaders tied one short of
\* it, or beyond, raise it.
WonBy(scores, side, tgt) == Leaders(scores) = {side} /\ scores[side] >= tgt
IsWon(scores, tgt) == \E side \in Sides : WonBy(scores, side, tgt)
Extended(scores, tgt) ==
    \E side \in Leaders(scores) : Leaders(scores) # {side} /\ scores[side] >= tgt - 1

newTarget(scores, tgt) == IF Extended(scores, tgt) THEN tgt + TARGET_STEP ELSE tgt

-----------------------------------------------------------------------------
(* The next game.  `gone` are the seats gone from the match by now.        *)

\* A fresh game in which those who left the match are out from the start.
WithoutGone(gone) ==
    LET out(o, i) == IF i <= Len(gone) THEN Left(o, gone[i]) ELSE o
    IN  out(out(out(out(NewGame, 1), 2), 3), 4)

\* Who has the lead once the seats gone from the match are out: `lead`, or
\* the first player still there going round from it.
LedBy(lead, gone) ==
    LET seat(k) == (lead + k) % N
        here(k) == seat(k) \notin Members(gone)
    IN  seat(CHOOSE k \in 0..(N - 1) : here(k) /\ \A j \in 0..(k - 1) : ~here(j))

\* Mutants of beginPendingGame: the quitters are dealt in again; the lead stays
\* with a player who left.
beginPendingGame_forgets(lead, gone) ==
    /\ game' = NewGame
    /\ leader' = lead
    /\ state' = "playing"
    /\ pending' = NoSwitch

beginPendingGame_leadKept(lead, gone) ==
    /\ game' = WithoutGone(gone)
    /\ leader' = lead
    /\ state' = "playing"
    /\ pending' = NoSwitch

beginPendingGame(lead, gone) ==
    /\ game' = WithoutGone(gone)
    /\ leader' = LedBy(lead, gone)
    /\ state' = "playing"
    /\ pending' = NoSwitch

isReturnEligible(card) == ~isJoker(card) /\ POWER[card.rank] <= POWER["10"]
ReturnCards(hand, received) == {c \in hand : isReturnEligible(c) /\ c # received}

strongest(hand) == {c \in hand : \A d \in hand : singlePower(d) <= singlePower(c)}

\* Mutant of AutoGive: the card stays in the loser's hand too.
AutoGive_copies(deal, winner, loser, card) == [deal EXCEPT ![winner] = @ \cup {card}]

\* The loser's strongest card goes to the winner, who owes one back.
AutoGive(deal, winner, loser, card) ==
    [deal EXCEPT ![loser] = @ \ {card}, ![winner] = @ \cup {card}]

startSwitch(deal, outcome, winner, loser, gone) ==
    \E card \in strongest(deal[loser]) :
      LET given == AutoGive(deal, winner, loser, card)
      IN  /\ hands' = given
          /\ IF ReturnCards(given[winner], card) = {}
               THEN beginPendingGame(loser, gone)
               ELSE /\ state' = "awaitingSwitch"
                    /\ pending' = [winner |-> winner, loser |-> loser, received |-> card]
                    /\ game' = outcome
                    /\ leader' = loser

prepareNextGame(outcome, gone) ==
    LET winner == outcome.order[1]
        loser == outcome.order[N]
    IN  /\ gameIndex + 1 < MaxGames
        /\ gameIndex' = gameIndex + 1
        /\ \E deal \in Deals :
             IF loser \in Members(gone) \/ Joker \subseteq deal[loser]
               THEN hands' = deal /\ beginPendingGame(winner, gone)
               ELSE startSwitch(deal, outcome, winner, loser, gone)

\* The game is over: score it, then end the match or deal the next game.
onGameEnd(outcome, gone) ==
    LET gained == gamePoints(outcome.order)
        points == [s \in Seats |-> cumulative[s] + gained[s]]
        scores == sideScores(points)
    IN  /\ cumulative' = points
        /\ IF IsWon(scores, target)
             THEN /\ \E side \in Sides :
                       /\ WonBy(scores, side, target)
                       /\ matchWinner' = [side |-> side,
                                          seats |-> seatsOfSide(side) \ Members(gone)]
                  /\ state' = "matchOver"
                  /\ game' = NoGame
                  /\ UNCHANGED <<target, gameIndex, hands, leader, pending>>
             ELSE /\ target' = newTarget(scores, target)
                  /\ prepareNextGame(outcome, gone)
                  /\ UNCHANGED matchWinner

GameGoesOn(outcome) ==
    /\ game' = outcome
    /\ UNCHANGED <<target, cumulative, state, gameIndex, matchWinner, hands, leader, pending>>

AfterGameStep(outcome, gone) ==
    IF outcome.over THEN onGameEnd(outcome, gone) ELSE GameGoesOn(outcome)

-----------------------------------------------------------------------------
\* firstGameOpening: the holder of the lowest spade dealt, or seat 0.
firstLeader(deal) ==
    LET spades == {c \in UNION {deal[s] : s \in Seats} : c.suit = "S"}
        lowest == {c \in spades : \A d \in spades : singlePower(c) <= singlePower(d)}
        holders == {s \in Seats : deal[s] \cap lowest # {}}
    IN  IF holders = {} THEN 0 ELSE CHOOSE s \in holders : TRUE

Init ==
    /\ target = StartTarget
    /\ cumulative = [s \in Seats |-> 0]
    /\ state = "playing"
    /\ gameIndex = 0
    /\ game = NewGame
    /\ matchWinner = NoWinner
    /\ goneSeats = <<>>
    /\ hands \in Deals
    /\ leader = firstLeader(hands)
    /\ pending = NoSwitch

\* A play that empties the seat's hand.
playLast(seat) ==
    /\ state = "playing"
    /\ seat \in game.holding
    /\ AfterGameStep(Emptied(game, seat), goneSeats)
    /\ UNCHANGED goneSeats

\* The winner returns a card of rank 3 to 10 that is not the one just received.
switchGive(seat, card) ==
    /\ state = "awaitingSwitch"
    /\ seat = pending.winner
    /\ card \in ReturnCards(hands[seat], pending.received)
    /\ hands' = [hands EXCEPT ![seat] = @ \ {card}, ![pending.loser] = @ \cup {card}]
    /\ beginPendingGame(pending.loser, goneSeats)
    /\ UNCHANGED <<target, cumulative, gameIndex, matchWinner, goneSeats>>

SidePresent(side, gone) == seatsOfSide(side) \ Members(gone) # {}

\* Mutant of mustEndAfterForfeit: the match goes on until nobody is left.
mustEndAfterForfeit_late(gone) == Seats \ Members(gone) = {}

\* The outcome is decided: a whole team, or all players but one, are gone.
mustEndAfterForfeit(gone) ==
    IF MatchType = "2v2" THEN \E side \in Sides : ~SidePresent(side, gone)
                         ELSE FewHolders(Seats \ Members(gone))

endByForfeit(gone) ==
    LET present == {side \in Sides : SidePresent(side, gone)}
    IN  /\ matchWinner' = IF present = {} THEN NoWinner
                          ELSE LET side == CHOOSE x \in present : TRUE
                               IN  [side |-> side, seats |-> seatsOfSide(side) \ Members(gone)]
        /\ state' = "matchOver"
        /\ game' = NoGame
        /\ UNCHANGED <<target, cumulative, gameIndex, hands, leader, pending>>

\* Somebody leaves while the winner owes a card: nobody waits for a winner who
\* left, everyone else's leaving shows when the next game begins.
onSwitchForfeit(seat, gone) ==
    IF seat = pending.winner
      THEN /\ beginPendingGame(pending.loser, gone)
           /\ UNCHANGED <<target, cumulative, gameIndex, matchWinner, hands>>
      ELSE UNCHANGED <<target, cumulative, state, gameIndex, game, matchWinner, hands, leader, pending>>

\* The player left, idled out or stayed disconnected.
forfeit(seat) ==
    LET gone == Append(goneSeats, seat)
    IN  /\ state # "matchOver"
        /\ seat \notin Members(goneSeats)
        /\ goneSeats' = gone
        /\ CASE mustEndAfterForfeit(gone) -> endByForfeit(gone)
             [] ~mustEndAfterForfeit(gone) /\ state = "playing" ->
                  AfterGameStep(Left(game, seat), gone)
             [] ~mustEndAfterForfeit(gone) /\ state = "awaitingSwitch" ->
                  onSwitchForfeit(seat, gone)

Next == \E seat \in Seats : \/ playLast(seat)
                            \/ forfeit(seat)
                            \/ \E card \in Card : switchGive(seat, card)

Spec == Init /\ [][Next]_vars

-----------------------------------------------------------------------------
present == Seats \ Members(goneSeats)

\* A match that is not over is still a contest: the game in progress is not
\* over either (nobody would be asked to move), at least two players and, in
\* 2v2, both teams are present, and no side has reached the target.
StillContested ==
    state # "matchOver" =>
      /\ state = "playing" => ~game.over
      /\ ~FewHolders(present)
      /\ \A side \in Sides : MatchType = "2v2" => SidePresent(side, goneSeats)
      /\ \A side \in Sides : sideScores(cumulative)[side] < target

\* Who left the match is out of the game being played, also when they left
\* between two games (beginPendingGame re-applies goneSeats).
GoneFromTheGame == state = "playing" => Members(game.gone) = Members(goneSeats)

\* Every game hands out the same points: no game is scored twice or dropped.
PointsAddUp ==
    LET decided == \E side \in Sides : sideScores(cumulative)[side] >= target
        games == IF decided THEN gameIndex + 1 ELSE gameIndex
        sum == CASE N = 2 -> cumulative[0] + cumulative[1]
                 [] N = 3 -> cumulative[0] + cumulative[1] + cumulative[2]
                 [] N = 4 -> cumulative[0] + cumulative[1] + cumulative[2] + cumulative[3]
    IN  sum = games * ((N * (N - 1)) \div 2)

\* The switch moves cards between two hands and neither copies nor loses one.
CardsConserved ==
    /\ \A s, t \in Seats : s # t => hands[s] \cap hands[t] = {}
    /\ \E deal \in Deals : UNION {deal[s] : s \in Seats} = UNION {hands[s] : s \in Seats}

\* Neither points nor cards are made up or lost, whether a game ends by a play or
\* by a player leaving, and whichever course the switch takes.
NothingIsMadeUp == PointsAddUp /\ CardsConserved

\* In the game it left, and in every later one, a quitter who had not emptied
\* its hand never gains more than a player who is still there.
QuittersNeverGain ==
    [][\A s \in Members(goneSeats') \ Members(game.order), t \in Seats \ Members(goneSeats') :
         cumulative'[s] - cumulative[s] <= cumulative'[t] - cumulative[t]]_vars

\* Every game that begins is led by a player who is still in the match, whoever
\* of the last game's winner and loser left before or during the switch.
BegunGameIsLed ==
    [][state' = "playing" /\ (state # "playing" \/ gameIndex' # gameIndex)
         => leader' \in game'.holding]_vars

-----------------------------------------------------------------------------
(* The deals TLC checks, of which the switch takes each of its courses:    *)
(* the loser holds both jokers, the winner has no card to return, the      *)
(* winner has one besides the card received.                               *)

cd(r, s) == [rank |-> r, suit |-> s]

MCDeals3 ==
    {(0 :> {cd("3", "S"), cd("5", "H")}
      @@ 1 :> {cd("9", "H"), cd("joker", "red")}
      @@ 2 :> {cd("K", "S"), cd("A", "H")}),
     (0 :> {cd("K", "S"), cd("6", "H")}
      @@ 1 :> {cd("joker", "black"), cd("joker", "red")}
      @@ 2 :> {cd("4", "S"), cd("4", "H")})}
=============================================================================
