----------------------------- MODULE SingleGame -----------------------------
(***************************************************************************)
(* One game from the deal to the finishing order                           *)
(* (packages/server/src/game/singleGame.ts): turns, tricks with non-sticky *)
(* passes, the lead after a trick, seats that empty their hand and seats   *)
(* whose player leaves in the middle.                                      *)
(*                                                                         *)
(* A refused call (wrong turn, cards not owned, illegal play...) changes   *)
(* nothing in the code, so each action carries the conditions under which  *)
(* the call is accepted.  Events returned to the caller are left out.      *)
(***************************************************************************)
EXTENDS Engine, Places

CONSTANTS
    Deals,      \* the deals considered: one set of cards per seat
    Openings    \* "none": games 2, 3, ...; "lowest": the first game of a match

ASSUME DealsAssumption ==
    /\ Deals \subseteq [Seats -> SUBSET Card]
    /\ \A deal \in Deals : /\ \A s \in Seats : deal[s] # {}
                           /\ \A s, t \in Seats : s # t => deal[s] \cap deal[t] = {}
ASSUME OpeningsAssumption == Openings \subseteq {"none", "lowest"}

VARIABLES
    hands,          \* seat -> its cards
    active,         \* the seats that still hold cards (active[s] in the code)
    passed,         \* the seats that passed since the last play
    finishingOrder, \* the seats in the order they emptied their hands
    gone,           \* the seats whose player left, in that order
    pile,           \* the combination to beat, NoCombo when leading
    pileOwner,      \* who played it
    turn,
    status,
    openingCard,    \* the card the first play must include, or NoCard
    opened          \* has the first play been made?

table == <<passed, pile, pileOwner, turn>>
gameVars == <<hands, active, passed, finishingOrder, gone, pile, pileOwner,
              turn, status, openingCard, opened>>

NoCard == [rank |-> "none", suit |-> "none"]

-----------------------------------------------------------------------------
(* Going round the table.                                                  *)

Step(from, k) == (from + k) % N

\* The first seat of S met going round after `from`, `from` itself last.
FirstAfter(from, S) ==
    LET met(k) == Step(from, k) \in S
        first(k) == met(k) /\ \A j \in 1..(k - 1) : ~met(j)
    IN  IF \E k \in 1..N : first(k) THEN Step(from, CHOOSE k \in 1..N : first(k))
                                    ELSE NoSeat

nextEligible(from, act, psd) == FirstAfter(from, act \ psd)
nextActiveAfter(from, act) == FirstAfter(from, act)
contendersExcludingOwner(act, psd, owner) == (act \ psd) \ {owner}

-----------------------------------------------------------------------------
(* What follows an accepted call.  `act`, `psd`, `order`, `gn` are the     *)
(* holders, passes, places and quitters after the call's own assignments.  *)

\* Mutant of endGame: the last holder stays active.
endGame_keepsHolder(act, order, gn) ==
    /\ finishingOrder' = FinalOrder(order, act, gn)
    /\ active' = act
    /\ status' = "finished"
    /\ turn' = NoSeat
    /\ pile' = NoCombo
    /\ pileOwner' = NoSeat
    /\ passed' = {}

endGame(act, order, gn) ==
    /\ finishingOrder' = FinalOrder(order, act, gn)
    /\ active' = act \cap Members(gn)
    /\ status' = "finished"
    /\ turn' = NoSeat
    /\ pile' = NoCombo
    /\ pileOwner' = NoSeat
    /\ passed' = {}

\* Mutant of resolveTrick: an owner who just finished leads all the same.
resolveTrick_ownerLeads(act, owner, order, gn) ==
    IF FewHolders(act) THEN endGame(act, order, gn)
          ELSE /\ pile' = NoCombo
               /\ pileOwner' = NoSeat
               /\ passed' = {}
               /\ turn' = owner
               /\ active' = act
               /\ finishingOrder' = order
               /\ UNCHANGED status

\* The owner takes the trick and leads, or the next holder after an owner who
\* just finished or left.
resolveTrick(act, owner, order, gn) ==
    LET leadsNext == CASE owner \in act -> owner
                       [] owner # NoSeat /\ owner \notin act -> nextActiveAfter(owner, act)
                       [] OTHER -> NoSeat
    IN  IF leadsNext = NoSeat \/ FewHolders(act)
          THEN endGame(act, order, gn)
          ELSE /\ pile' = NoCombo
               /\ pileOwner' = NoSeat
               /\ passed' = {}
               /\ turn' = leadsNext
               /\ active' = act
               /\ finishingOrder' = order
               /\ UNCHANGED status

\* The trick goes on with the next eligible seat.
passTurn(seat, act, psd, pl, owner, order) ==
    /\ turn' = nextEligible(seat, act, psd)
    /\ active' = act
    /\ passed' = psd
    /\ pile' = pl
    /\ pileOwner' = owner
    /\ finishingOrder' = order
    /\ UNCHANGED status

\* Mutants of afterAction: passes outlive the next play (the "sticky" rule);
\* the first pass gives the trick away.
afterAction_sticky(seat, act, psd, pl, owner, order) ==
    IF contendersExcludingOwner(act, psd \cup passed, owner) = {}
      THEN resolveTrick(act, owner, order, gone)
      ELSE passTurn(seat, act, psd \cup passed, pl, owner, order)

afterAction_firstPass(seat, act, psd, pl, owner, order) ==
    IF psd # {}
      THEN resolveTrick(act, owner, order, gone)
      ELSE passTurn(seat, act, psd, pl, owner, order)

afterAction(seat, act, psd, pl, owner, order) ==
    IF contendersExcludingOwner(act, psd, owner) = {}
      THEN resolveTrick(act, owner, order, gone)
      ELSE passTurn(seat, act, psd, pl, owner, order)

-----------------------------------------------------------------------------
(* The holder of the lowest spade dealt leads the first game of a match    *)
(* and must open with that card (Match.firstGameOpening).                  *)

Spade(i) == [rank |-> RANKS[i], suit |-> "S"]
Dealt(deal) == UNION {deal[s] : s \in Seats}

IsOpening(deal, leader, card, opening) ==
    LET spades == {i \in 1..13 : Spade(i) \in Dealt(deal)}
    IN  \/ /\ opening = "none"
           /\ card = NoCard
        \/ /\ opening = "lowest"
           /\ spades # {}
           /\ \E i \in spades : /\ \A j \in spades : i <= j
                                /\ card = Spade(i)
           /\ card \in deal[leader]
        \/ /\ opening = "lowest"
           /\ spades = {}
           /\ card = NoCard
           /\ leader = 0

Init ==
    /\ hands \in Deals
    /\ turn \in Seats
    /\ \E opening \in Openings :
         openingCard \in {c \in {NoCard} \cup {Spade(i) : i \in 1..13} :
                            IsOpening(hands, turn, c, opening)}
    /\ active = Seats
    /\ passed = {}
    /\ finishingOrder = <<>>
    /\ gone = <<>>
    /\ pile = NoCombo
    /\ pileOwner = NoSeat
    /\ status = "playing"
    /\ opened = FALSE

-----------------------------------------------------------------------------
\* The very first play must include the opening card, when there is one.
OpensRight(cards) == openingCard = NoCard \/ opened \/ openingCard \in cards

play(seat, cards) ==
    /\ status = "playing"
    /\ seat = turn
    /\ cards # {}
    /\ cards \subseteq hands[seat]
    /\ OpensRight(cards)
    /\ validatePlay(cards, pile)
    /\ hands' = [hands EXCEPT ![seat] = @ \ cards]
    /\ opened' = TRUE
    /\ UNCHANGED <<gone, openingCard>>
    /\ LET finished == cards = hands[seat]
           act == IF finished THEN active \ {seat} ELSE active
           order == IF finished THEN Append(finishingOrder, seat) ELSE finishingOrder
       IN  IF finished /\ FewHolders(act)
             THEN endGame(act, order, gone)
             ELSE afterAction(seat, act, {}, identifyCombo(cards), seat, order)

\* Mutant of pass: the pass is not recorded.
pass_unrecorded(seat) ==
    /\ status = "playing"
    /\ seat = turn
    /\ pile # NoCombo
    /\ afterAction(seat, active, passed, pile, pileOwner, finishingOrder)
    /\ UNCHANGED <<hands, gone, openingCard, opened>>

pass(seat) ==
    /\ status = "playing"
    /\ seat = turn
    /\ pile # NoCombo
    /\ afterAction(seat, active, passed \cup {seat}, pile, pileOwner, finishingOrder)
    /\ UNCHANGED <<hands, gone, openingCard, opened>>

\* The player left after emptying its hand: the seat keeps its place.
forfeitPlaced(seat) ==
    /\ seat \notin active
    /\ UNCHANGED <<active, finishingOrder, status, table>>

\* It was somebody else's turn, or the seat's own: the lead goes on to the next
\* holder, or the trick goes on as after a pass.
forfeitHolder(seat) ==
    LET act == active \ {seat}
        psd == passed \ {seat}
        gn == Append(gone, seat)
        responds == turn = seat /\ pile # NoCombo
    IN  /\ seat \in active
        /\ IF responds /\ contendersExcludingOwner(act, psd, pileOwner) = {}
             THEN resolveTrick(act, pileOwner, finishingOrder, gn)
             ELSE IF FewHolders(act)
             THEN endGame(act, finishingOrder, gn)
             ELSE /\ turn' = CASE turn # seat -> turn
                              [] responds -> nextEligible(seat, act, psd)
                              [] OTHER -> nextActiveAfter(seat, act)
                  /\ active' = act
                  /\ passed' = psd
                  /\ UNCHANGED <<pile, pileOwner, finishingOrder, status>>

forfeitSeat(seat) ==
    /\ status = "playing"
    /\ seat \notin Members(gone)
    /\ gone' = Append(gone, seat)
    /\ forfeitPlaced(seat) \/ forfeitHolder(seat)
    /\ UNCHANGED <<hands, openingCard, opened>>

Play(seat) == \E cards \in SUBSET hands[seat] : play(seat, cards)

Next == \E seat \in Seats : Play(seat) \/ pass(seat) \/ forfeitSeat(seat)

(* The turn timer's move for a player who lets the time run out            *)
(* (gateway.onTurnTimeout): pass when responding, else lead the weakest    *)
(* single card the game accepts, which is the opening card when one is due.*)
forcedLead(seat) ==
    LET leads == {c \in hands[seat] : OpensRight({c})}
    IN  \E c \in leads : /\ \A d \in leads : singlePower(c) <= singlePower(d)
                         /\ play(seat, {c})

onTurnTimeout(seat) == IF pile = NoCombo THEN forcedLead(seat) ELSE pass(seat)

Spec == Init /\ [][Next]_gameVars

\* The timer is armed for every turn, so a move that stays possible is made.
FairSpec == Spec /\ WF_gameVars(\E seat \in Seats : onTurnTimeout(seat))

-----------------------------------------------------------------------------
TypeOK ==
    /\ hands \in [Seats -> SUBSET Card]
    /\ active \subseteq Seats
    /\ passed \subseteq Seats
    /\ finishingOrder \in Seq(Seats)
    /\ gone \in Seq(Seats)
    /\ pile \in Combo \cup {NoCombo}
    /\ pileOwner \in Seats \cup {NoSeat}
    /\ turn \in Seats \cup {NoSeat}
    /\ status \in {"playing", "finished"}
    /\ openingCard \in Card \cup {NoCard}
    /\ opened \in BOOLEAN

playing == status = "playing"

\* How many steps round the table from one seat to another, N for itself.
Dist(from, to) == IF to > from THEN to - from ELSE to - from + N

\* Whoever's turn it is can be waited for: a present player who still holds
\* cards, has not passed on this pile and did not play it.  (play, pass and
\* forfeitSeat all leave the turn to nextEligible, which looks at holders and
\* passes only: it never excludes the pile's owner.)
TurnIsOwed ==
    playing => /\ turn \in active
               /\ turn \notin Members(gone)
               /\ turn \notin passed
               /\ turn # pileOwner

\* Within a trick the turn goes to the very next holder of cards: a seat that
\* passed is asked again after every new play (play's "NON-STICKY pass") and
\* nobody is skipped when a player in between leaves.
NobodySkipped ==
    [][pile' # NoCombo /\ turn' # turn =>
         \A s \in active' : Dist(turn, turn') <= Dist(turn, s)]_gameVars

\* A trick is taken only after everyone who still holds cards was asked to
\* beat the pile: the last one asked is the last holder before the owner.
TrickIsContested ==
    [][pile # NoCombo /\ pile' = NoCombo /\ status' = "playing" =>
         \A s \in active' \ {pileOwner} : Dist(pileOwner, s) <= Dist(pileOwner, turn)]_gameVars

\* The opening card is due but its holder left before playing it.
OpenerLeft == openingCard # NoCard /\ ~opened /\ openingCard \notin hands[turn]

CanLead == \E c \in hands[turn] : OpensRight({c}) /\ validatePlay({c}, pile)

\* A leader always has a card to lead, unless the opener left with the card.
LeaderCanLead == playing /\ pile = NoCombo /\ ~OpenerLeft => CanLead

quit(seat) == seat \in Members(gone) /\ hands[seat] # {}
LeftBefore(s, t) == \E i, j \in 1..Len(gone) : i < j /\ gone[i] = s /\ gone[j] = t

\* A finished game places every seat exactly once (gamePoints throws when one is
\* missing); a player who leaves holding cards finishes behind everyone who
\* stayed, and of two quitters the first to leave finishes lower (forfeitSeat,
\* endGame).
QuittersFinishLast ==
    status = "finished" =>
      /\ Len(finishingOrder) = N /\ Members(finishingOrder) = Seats
      /\ \A i, j \in 1..N : i < j /\ quit(finishingOrder[i]) =>
           /\ quit(finishingOrder[j])
           /\ LeftBefore(finishingOrder[j], finishingOrder[i])

\* The game implements the abstract placing of the seats.
Promise == INSTANCE GameOutcome WITH
    outcome <- [holding |-> active, order |-> finishingOrder, gone |-> gone,
                over |-> status = "finished"]
KeepsPromise == Promise!Spec

\* With the timer playing for those who do not, every game comes to an end,
\* unless the opener left with the card that is due.
GameEnds == <>(status = "finished" \/ OpenerLeft)
=============================================================================
