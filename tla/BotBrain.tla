------------------------------ MODULE BotBrain ------------------------------
(***************************************************************************)
(* What a bot plays (packages/server/src/bot/botDecision.ts and            *)
(* botSearch.ts, with the view the gateway's driveBot gives it): the plays *)
(* it enumerates, its rules for a team and for each tier, and the rollouts *)
(* of its search, which play the game with rules of their own.  Operators  *)
(* on the state of a SingleGame; a play is a set of cards, a pass is {}.   *)
(*                                                                         *)
(* Which cards of a rank stand for it, and which of two equal plays comes  *)
(* first, depends on the order of the hand: any may.  The Monte-Carlo      *)
(* averages are random: any candidate may have the best one.               *)
(***************************************************************************)
EXTENDS SingleGame

CONSTANT MaxCandidates  \* the plays that are simulated

ASSUME MaxCandidatesAssumption == MaxCandidates \in Nat \ {0}

Pass == {}
Tiers == {"easy", "medium", "hard"}

Least(S, score(_)) == {x \in S : \A y \in S : score(x) <= score(y)}

-----------------------------------------------------------------------------
(* The plays.                                                              *)

groupPlays(hand) == {cards \in SUBSET hand : Cardinality(cards) \in 2..4 /\ allSameRank(cards)}

\* Runs of five to thirteen values, a card for each; an Ace is not both ends.
straightPlays(hand) ==
    LET isRun(cards) ==
          LET n == Cardinality(cards)
          IN  \E hi \in n..14, value \in {1, 14} :
                RunValues(cards, [c \in {a \in cards : a.rank = "A"} |-> value]) = (hi - n + 1)..hi
    IN  {cards \in SUBSET {c \in hand : ~isJoker(c)} : Cardinality(cards) \in 5..13 /\ isRun(cards)}

enumerateLegalPlays(hand, pl, must) ==
    {cards \in {{c} : c \in hand} \cup groupPlays(hand) \cup straightPlays(hand) :
       validatePlay(cards, pl) /\ (must = NoCard \/ must \in cards)}

\* Mutant of mustInclude: the opening card is the 3 of spades in every deal.
mustInclude_three(seat) == IF ~opened /\ openingCard # NoCard /\ Spade(1) \in hands[seat] THEN Spade(1) ELSE NoCard

\* driveBot: the opening card that is due, if the bot holds it.
mustInclude(seat) == IF ~opened /\ openingCard \in hands[seat] THEN openingCard ELSE NoCard

Plays(seat) == enumerateLegalPlays(hands[seat], pile, mustInclude(seat))

isTrump(cards) == identifyCombo(cards).type \in {"bomb", "flush"}
playCost(cards) == identifyCombo(cards).key + (IF isTrump(cards) THEN 1000 ELSE 0)
NonTrump(plays) == {cards \in plays : ~isTrump(cards)}

\* One of a pair or more, thrown alone.
Fractures(cards, hand) ==
    \E c \in cards : cards = {c} /\ ~isJoker(c) /\ \E d \in hand \ {c} : d.rank = c.rank

\* leadScore, doubled.
leadScore(cards, hand) ==
    2 * playCost(cards) - Cardinality(cards)
      + (IF isTrump(cards) THEN 2000 ELSE 0) + (IF Fractures(cards, hand) THEN 80 ELSE 0)

-----------------------------------------------------------------------------
(* The decision.                                                           *)

efficientHeuristic(seat) ==
    LET plays == Plays(seat)
        cheap == NonTrump(plays)
    IN  IF pile = NoCombo /\ cheap # {} THEN Least(cheap, LAMBDA p : leadScore(p, hands[seat]))
        ELSE IF cheap # {} THEN Least(cheap, playCost)
        ELSE IF pile # NoCombo THEN {Pass}
        ELSE Least(plays, playCost)

candidateScore(cards) ==
    100 * Cardinality(cards) - identifyCombo(cards).key - (IF isTrump(cards) THEN 1000 ELSE 0)

\* The best-ranked plays and, when responding, the pass.
chooseBestMove(seat) ==
    LET plays == Plays(seat)
        ahead(c) == {d \in plays : candidateScore(d) > candidateScore(c)}
    IN  {c \in plays : Cardinality(ahead(c)) < MaxCandidates}
          \cup (IF pile # NoCombo THEN {Pass} ELSE {})

partnerSeat(seat) == (seat + 2) % N
\* The partner has one card left, and the opponent who follows has more.
SetsUp(seat) ==
    /\ pile = NoCombo
    /\ Cardinality(hands[partnerSeat(seat)]) <= 1
    /\ Cardinality(hands[(seat + 1) % N]) > 1

\* decideBotMove: going out, then the partner, then the tier.
decideBotMove(seat, tier, teams) ==
    LET plays == Plays(seat)
        singles == {cards \in plays : Cardinality(cards) = 1}
    IN  IF plays = {} THEN {Pass}
        ELSE IF hands[seat] \in plays THEN {hands[seat]}
        ELSE IF teams /\ pile # NoCombo /\ pileOwner = partnerSeat(seat) THEN {Pass}
        ELSE IF teams /\ SetsUp(seat) /\ singles # {} THEN Least(singles, playCost)
        ELSE IF tier = "easy" THEN efficientHeuristic(seat)
        ELSE chooseBestMove(seat)

-----------------------------------------------------------------------------
(* The rules of a rollout.                                                 *)

\* A table of a rollout.
Sim(hnds, act, psd, pl, own, who, places) ==
    [hands |-> hnds, active |-> act, passed |-> psd, pile |-> pl, owner |-> own, turn |-> who,
     order |-> places]

\* The table as a determinization copies it; the true hands are one of the samples.
determinize == Sim(hands, active, passed, pile, pileOwner, turn, finishingOrder)

simEndGame(sim) ==
    Sim(sim.hands, {}, sim.passed, sim.pile, sim.owner, NoSeat, sim.order \o Stayers(sim.active, <<>>))

simLeadsNext(sim) ==
    IF sim.owner \in sim.active THEN sim.owner
    ELSE IF sim.owner # NoSeat THEN nextActiveAfter(sim.owner, sim.active) ELSE NoSeat

\* Mutant of simResolveTrick: the passes of the trick outlive it.
simResolveTrick_kept(sim) ==
    LET cleared == Sim(sim.hands, sim.active, sim.passed, NoCombo, NoSeat, simLeadsNext(sim), sim.order)
    IN  IF simLeadsNext(sim) = NoSeat \/ FewHolders(sim.active) THEN simEndGame(cleared) ELSE cleared

simResolveTrick(sim) ==
    LET cleared == Sim(sim.hands, sim.active, {}, NoCombo, NoSeat, simLeadsNext(sim), sim.order)
    IN  IF simLeadsNext(sim) = NoSeat \/ FewHolders(sim.active) THEN simEndGame(cleared) ELSE cleared

simAfterAction(sim, seat) ==
    IF contendersExcludingOwner(sim.active, sim.passed, sim.owner) = {} THEN simResolveTrick(sim)
    ELSE Sim(sim.hands, sim.active, sim.passed, sim.pile, sim.owner,
             nextEligible(seat, sim.active, sim.passed), sim.order)

\* The passes of the trick stay as they are.
applyPlay(sim, seat, cards) ==
    LET finished == cards = sim.hands[seat]
        after == Sim([sim.hands EXCEPT ![seat] = @ \ cards],
                     IF finished THEN sim.active \ {seat} ELSE sim.active,
                     sim.passed, identifyCombo(cards), seat, sim.turn,
                     IF finished THEN Append(sim.order, seat) ELSE sim.order)
    IN  IF finished /\ FewHolders(after.active) THEN simEndGame(after) ELSE simAfterAction(after, seat)

applyPass(sim, seat) ==
    simAfterAction(Sim(sim.hands, sim.active, sim.passed \cup {seat}, sim.pile, sim.owner, sim.turn,
                       sim.order), seat)

\* The policy: a leader sheds the largest cheap group, never a bomb; others answer a
\* single, a pair or a triple as cheaply as they can, or pass.
rolloutLead(hand) ==
    LET groups == {g \in groupPlays(hand) : Cardinality(g) \in {2, 3}}
        whole == {g \in groups : \A h \in groups : g \subseteq h => g = h}
        score(g) == 100 * Cardinality(g) - identifyCombo(g).key
    IN  CHOOSE g \in {{c} : c \in hand} \cup whole :
          \A h \in {{c} : c \in hand} \cup whole : score(h) <= score(g)

rolloutPlay(sim, seat) ==
    LET hand == sim.hands[seat]
        size == sim.pile.size
        same == {cards \in SUBSET hand : Cardinality(cards) = size /\ validatePlay(cards, sim.pile)}
    IN  IF sim.pile = NoCombo THEN rolloutLead(hand)
        ELSE IF sim.pile.type \notin {"single", "pair", "triple"} \/ same = {} THEN Pass
        ELSE CHOOSE cards \in Least(same, LAMBDA p : identifyCombo(p).key) : TRUE

\* A last card that goes out is played even on the partner's.
rolloutChoice(sim, coop) ==
    LET hand == sim.hands[sim.turn]
        last == Cardinality(hand) = 1 /\ sim.pile.type \in {"none", "single"} /\ validatePlay(hand, sim.pile)
    IN  IF last THEN hand
        ELSE IF coop /\ sim.pile # NoCombo /\ sim.owner = partnerSeat(sim.turn) THEN Pass
        ELSE rolloutPlay(sim, sim.turn)

rolloutStep(sim, coop) ==
    LET cards == rolloutChoice(sim, coop)
    IN  IF cards = Pass THEN applyPass(sim, sim.turn) ELSE applyPlay(sim, sim.turn, cards)

goesOn(sim, coop) == IF sim.turn = NoSeat THEN sim ELSE rolloutStep(sim, coop)

\* PLAYOUT_GUARD is 400 steps for the 54 cards: at least N for each card.  The code also
\* stops once the bot's team is placed; the model plays on to the end of the game.
playoutGuard(sim) == N * Cardinality(UNION {sim.hands[s] : s \in Seats})

playout(sim, coop) ==
    LET after[k \in 0..playoutGuard(sim)] == IF k = 0 THEN sim ELSE goesOn(after[k - 1], coop)
    IN  after[playoutGuard(sim)]

Simulated(seat, cards) == IF cards = Pass THEN applyPass(determinize, seat) ELSE applyPlay(determinize, seat, cards)

-----------------------------------------------------------------------------
Teams == IF N = 4 THEN BOOLEAN ELSE {FALSE}
Accepted(cards) ==
    IF cards = Pass THEN pile # NoCombo
    ELSE cards \subseteq hands[turn] /\ OpensRight(cards) /\ validatePlay(cards, pile)

BotsMoveLegally ==
    playing /\ ~OpenerLeft =>
      \A teams \in Teams, tier \in Tiers :
        LET moves == decideBotMove(turn, tier, teams)
        IN  moves # {} /\ \A cards \in moves : Accepted(cards)

\* The tables a rollout may start from.
Candidates == {Simulated(turn, cards) : cards \in chooseBestMove(turn)}

RolloutsEnd ==
    playing /\ ~OpenerLeft => \A sim \in Candidates, teams \in Teams : playout(sim, teams).turn = NoSeat

\* "decideBotMove only yields legal moves" (gateway.ts): whatever the tier, the hand
\* and the table, a bot has a move and the game accepts it (a refused lead freezes the
\* match on the bot's turn), unless the opener left with the card that is due.  Every
\* rollout of a candidate ends by its own rules, before the guard stops it and an
\* unfinished seat is given the worst place.
BotsPlayOn == BotsMoveLegally /\ RolloutsEnd

\* What everybody sees of the table.
Shown(sim) ==
    [turn |-> sim.turn, active |-> sim.active,
     trick |-> IF sim.turn = NoSeat THEN <<>> ELSE <<sim.pile, sim.owner, sim.passed>>]

\* The rollout's next table is the game's: after a pass, and after a play on a table
\* where nobody has passed since the last one.
Follows(sim) ==
    /\ Shown(sim) = Shown(determinize')
    /\ SubSeq(finishingOrder', 1, Len(sim.order)) = sim.order

RolloutsFollow ==
    [][gone' = gone =>
         /\ hands' = hands => Follows(applyPass(determinize, turn))
         /\ hands' # hands /\ passed = {} => Follows(applyPlay(determinize, turn, hands[turn] \ hands'[turn]))]_gameVars

\* Whatever a bot decides is played, and what it imagines of the next table is so.
BotsAreSound == []BotsPlayOn /\ RolloutsFollow
=============================================================================
