------------------------------- MODULE Engine -------------------------------
(***************************************************************************)
(* The rules engine (packages/engine/src/engine.ts): the cards, the two    *)
(* orders they are compared in, what set of cards is a combination and     *)
(* which combination beats which.  Pure operators, no state.               *)
(*                                                                         *)
(* A hand or a play is a set of cards: singleGame.ts refuses a play that   *)
(* names a card twice before it reaches the engine.                        *)
(***************************************************************************)
EXTENDS Naturals, FiniteSets, Sequences

Suit == {"S", "H", "D", "C"}
JokerColor == {"black", "red"}

\* The ranks from the weakest to the strongest in POWER order.
RANKS == <<"3", "4", "5", "6", "7", "8", "9", "10", "J", "Q", "K", "A", "2">>
Rank == {RANKS[i] : i \in 1..13}

\* A card is identified by its rank and suit; a joker's suit is its color.
Standard == [rank : Rank, suit : Suit]
Joker == [rank : {"joker"}, suit : JokerColor]
Card == Standard \cup Joker

buildDeck == Card

POWER == [r \in Rank |-> (CHOOSE i \in 1..13 : RANKS[i] = r) - 1]
JOKER_POWER == [c \in JokerColor |-> IF c = "black" THEN 13 ELSE 14]

isJoker(c) == c.rank = "joker"
singlePower(c) == IF isJoker(c) THEN JOKER_POWER[c.suit] ELSE POWER[c.rank]

\* The value of every rank but the Ace inside a run: the 2 is only ever low.
SEQ == [r \in Rank \ {"A"} |-> IF r = "2" THEN 2 ELSE POWER[r] + 3]

NoTop == 0

\* The values the cards take in a run when the Aces take the values `ace`.
RunValues(cards, ace) ==
    {IF c.rank = "A" THEN ace[c] ELSE SEQ[c.rank] : c \in cards}

\* Mutant of straightTop: the Ace is only ever high.
straightTop_aceHigh(cards) ==
    LET n == Cardinality(cards)
        ace == [c \in {d \in cards : d.rank = "A"} |-> 14]
        tops == {hi \in n..14 : RunValues(cards, ace) = (hi - n + 1)..hi}
    IN  IF n < 5 \/ (\E c \in cards : isJoker(c)) \/ tops = {} THEN NoTop
        ELSE CHOOSE t \in tops : TRUE

\* The top of the run the cards form, NoTop when they form none.  Every Ace is
\* tried as 1 and as 14; the code tries "all low" first, which is the least top.
straightTop(cards) ==
    LET n == Cardinality(cards)
        aces == {c \in cards : c.rank = "A"}
        tops == {hi \in n..14 : \E ace \in [aces -> {1, 14}] :
                                  RunValues(cards, ace) = (hi - n + 1)..hi}
    IN  IF n < 5 \/ (\E c \in cards : isJoker(c)) \/ tops = {} THEN NoTop
        ELSE CHOOSE t \in tops : \A u \in tops : t <= u

allSameRank(cards) ==
    \E r \in Rank : \A c \in cards : ~isJoker(c) /\ c.rank = r
allSameSuit(cards) ==
    \E s \in Suit : \A c \in cards : ~isJoker(c) /\ c.suit = s

ComboType == {"single", "pair", "triple", "kolor", "bomb", "flush"}

\* A combination: `key` is the code's `power` (POWER order) for a single, pair,
\* triple or bomb and its `topSeq` (top of the run) for a kolor or flush.
Combo == [type : ComboType, size : Nat, key : 0..14]
NoCombo == [type |-> "none", size |-> 0, key |-> 0]

GroupType == <<"single", "pair", "triple", "bomb">>

identifyCombo(cards) ==
    LET n == Cardinality(cards)
        power == singlePower(CHOOSE c \in cards : TRUE)
    IN  CASE n = 0 -> NoCombo
          [] n = 1 -> [type |-> "single", size |-> 1, key |-> power]
          [] n \in 2..4 -> IF allSameRank(cards)
                             THEN [type |-> GroupType[n], size |-> n, key |-> power]
                             ELSE NoCombo
          [] OTHER -> IF straightTop(cards) = NoTop THEN NoCombo
                      ELSE [type |-> IF allSameSuit(cards) THEN "flush" ELSE "kolor",
                            size |-> n, key |-> straightTop(cards)]

\* Mutant of beats: a bomb is played on anything but a higher bomb.
beats_bombOnFlush(candidate, current) ==
    CASE candidate.type = "flush" ->
           current.type = "flush" => /\ candidate.size = current.size
                                     /\ candidate.key > current.key
      [] candidate.type = "bomb" ->
           current.type = "bomb" => candidate.key > current.key
      [] OTHER -> candidate.type = current.type /\ candidate.key > current.key

\* May `candidate` be played on `current`?
beats(candidate, current) ==
    CASE candidate.type = "flush" ->
           current.type = "flush" => /\ candidate.size = current.size
                                     /\ candidate.key > current.key
      [] candidate.type = "bomb" ->
           /\ current.type # "flush"
           /\ current.type = "bomb" => candidate.key > current.key
      [] candidate.type \in {"single", "pair", "triple"} ->
           /\ candidate.type = current.type
           /\ candidate.key > current.key
      [] candidate.type = "kolor" ->
           /\ current.type = "kolor"
           /\ candidate.size = current.size
           /\ candidate.key = current.key + 1
      [] OTHER -> FALSE

\* Is the play accepted?  `current` is NoCombo when the player leads a trick.
validatePlay(cards, current) ==
    LET combo == identifyCombo(cards)
    IN  /\ combo # NoCombo
        /\ current = NoCombo \/ beats(combo, current)
=============================================================================
