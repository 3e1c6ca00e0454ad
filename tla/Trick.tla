-------------------------------- MODULE Trick --------------------------------
(***************************************************************************)
(* One trick as the rules engine sees it: players keep offering sets of    *)
(* cards, validatePlay accepts or refuses each, an accepted one becomes    *)
(* the pile the next has to beat.  Checks the engine's verdicts against    *)
(* an independent reading of the rules; MCRealtime proves, for every deck, *)
(* that a trick can only escalate.                                         *)
(***************************************************************************)
EXTENDS Engine

CONSTANTS
    Deck,       \* the cards in play
    MaxOffer    \* the largest number of cards offered at once

\* Any part of the deck may be in play.
ASSUME DeckAssumption == Deck \subseteq buildDeck

VARIABLES
    pile,       \* the combination on the table, NoCombo when leading
    offered     \* the cards offered last, {} before a lead

vars == <<pile, offered>>

Offers == {cs \in SUBSET Deck : Cardinality(cs) \in 1..MaxOffer}

Init == /\ pile = NoCombo
        /\ offered = {}

\* Leading: a refused offer leaves the table empty.
Lead(cards) ==
    /\ offered = {}
    /\ offered' = cards
    /\ pile' = IF validatePlay(cards, NoCombo) THEN identifyCombo(cards) ELSE NoCombo

\* Answering the pile; a refused answer changes nothing.
Answer(cards) ==
    /\ pile # NoCombo
    /\ validatePlay(cards, pile)
    /\ offered' = cards
    /\ pile' = identifyCombo(cards)

\* Everyone passed, or the lead was refused: the next offer leads.
NewTrick ==
    /\ offered # {}
    /\ offered' = {}
    /\ pile' = NoCombo

Next == NewTrick \/ \E cards \in Offers : Lead(cards) \/ Answer(cards)

Spec == Init /\ [][Next]_vars

-----------------------------------------------------------------------------
TypeOK == /\ pile \in Combo \cup {NoCombo}
          /\ offered \in SUBSET Deck

\* The reference for a run: its cards can be laid, one each, on consecutive
\* places of the line A 2 3 ... Q K A (engine.ts: the Ace is flexible, the 2
\* is only ever low, so J-Q-K-A-2 is no run).
RunLine == <<"A", "2", "3", "4", "5", "6", "7", "8", "9", "10", "J", "Q", "K", "A">>

\* Do the cards cover the places that end at hi, rank for rank?
Covers(cards, hi) ==
    \A r \in Rank \cup {"joker"} :
        Cardinality({c \in cards : c.rank = r})
          = Cardinality({p \in (hi - Cardinality(cards) + 1)..hi : RunLine[p] = r})
RunTops(cards) == {hi \in Cardinality(cards)..14 : Covers(cards, hi)}

\* A set of five or more cards is a run exactly when it can be laid on the
\* line, and its strength is a place where the run can end: straightTop's
\* search over the Aces neither misses a run nor invents one.
RunsAreConsecutive ==
    LET combo == identifyCombo(offered)
    IN  Cardinality(offered) >= 5 =>
          /\ (combo # NoCombo) <=> (RunTops(offered) # {})
          /\ combo # NoCombo => combo.key \in RunTops(offered)

\* The reference order of the combinations: a trump level above the strength
\* inside the level.
Strength(c) ==
    c.key + CASE c.type = "flush" -> 200 [] c.type = "bomb" -> 100 [] OTHER -> 0

\* Within a trick every accepted play is strictly stronger than the pile it
\* covers, so the non-sticky pass (everyone is asked again after each play)
\* cannot go round for ever: beats() has no cycle through kolor, bomb, flush.
TrickEscalates ==
    [][pile # NoCombo /\ pile' # NoCombo => Strength(pile') > Strength(pile)]_vars
=============================================================================
