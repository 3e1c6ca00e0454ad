------------------------------ MODULE ClubWar ------------------------------
(***************************************************************************)
(* One club war: ClubWarService (packages/server/src/social/               *)
(* clubWarService.ts), its routes, the wallet app.ts gives it and the      *)
(* gateway's report of a finished match.  Every operation holds the war's  *)
(* lock; between two of its transactions it can fail or the process can    *)
(* die.  A member is <<club, number>>, numbered in the order in which the  *)
(* club's members register.  Several rooms may play one pairing, so a      *)
(* result may come at any time and more than once.                         *)
(***************************************************************************)
EXTENDS Integers, FiniteSets

CONSTANTS
    Size,         \* players per side
    Stakes,       \* buy-ins in cents, 0 for a free war
    RakeBps,
    MaxTroublesW  \* bound on transactions that fail, and crashes

VARIABLES
    stake,     \* stakeCents
    war,       \* status of the row; "none" before it is created
    roster,    \* club -> how many of its members are in
    pairings,  \* the pairings drawn up by begin()
    beat,      \* decided pairing -> the member who won it
    working,   \* the operation that holds the lock: what it has yet to credit
    outgo,     \* the references of the credits in the ledger
    tornWar,   \* did a refund stop half way? (history)
    troublesW  \* failed transactions and crashes so far

warVars == <<stake, war, roster, pairings, beat, working, outgo, tornWar, troublesW>>

Clubs == {"A", "B"}
Members(club) == {club} \X (1 .. roster[club])
Everyone == Members("A") \cup Members("B")
Free == [op |-> "none", left |-> {}]
Unlocked == working = Free
prizePoolCents == stake * (roster["A"] + roster["B"])

Init ==
    /\ stake \in Stakes
    /\ war = "none"
    /\ roster = [club \in Clubs |-> 0]
    /\ pairings = {}
    /\ beat = [p \in {} |-> <<>>]
    /\ working = Free
    /\ outgo = {}
    /\ tornWar = FALSE
    /\ troublesW = 0

-----------------------------------------------------------------------------
create ==
    /\ war = "none"
    /\ war' = "registering"
    /\ UNCHANGED <<stake, roster, pairings, beat, working, outgo, tornWar, troublesW>>

\* begin(): every member of A against every member of B.
begin(sides) ==
    /\ pairings' = ({"A"} \X (1 .. sides["A"])) \X ({"B"} \X (1 .. sides["B"]))
    /\ war' = "running"

\* The buy-in and the row are one transaction.
register(club) ==
    /\ war = "registering" /\ Unlocked /\ roster[club] < Size
    /\ roster' = [roster EXCEPT ![club] = @ + 1]
    /\ IF \A c \in Clubs : roster'[c] = Size THEN begin(roster') ELSE UNCHANGED <<pairings, war>>
    /\ UNCHANGED <<stake, beat, working, outgo, tornWar, troublesW>>

\* The founder starts with the members there are.
start ==
    /\ war = "registering" /\ Unlocked
    /\ \A club \in Clubs : roster[club] > 0
    /\ begin(roster)
    /\ UNCHANGED <<stake, roster, beat, working, outgo, tornWar, troublesW>>

-----------------------------------------------------------------------------
(* Settling: credits one at a time, each under its own reference.          *)

AllDecided(won) == \A p \in pairings : p \in DOMAIN won
Score(won, club) == Cardinality({p \in DOMAIN won : won[p][1] = club})

\* decideWinner(): the club with the higher score; "tie" if neither has it.
decideWinner(won) ==
    IF Score(won, "A") > Score(won, "B") THEN "A"
    ELSE IF Score(won, "B") > Score(won, "A") THEN "B" ELSE "tie"

\* payoutSettled(): what each winner gets, and the house with the remainder.
rake == (prizePoolCents * RakeBps) \div 10000
perWinner(club) == (prizePoolCents - rake) \div roster[club]
houseCut(club) == prizePoolCents - perWinner(club) * roster[club]

House == <<"house", 0>>
Out(kind, to, cents) == [kind |-> kind, to |-> to, cents |-> cents]
refundAll == IF stake = 0 THEN {} ELSE {Out("refund", m, stake) : m \in Everyone}
payoutSplit(club) ==
    {Out("prize", m, perWinner(club)) : m \in Members(club)}
      \cup IF houseCut(club) > 0 THEN {Out("rake", House, houseCut(club))} ELSE {}

payoutSettled(won) ==
    IF stake = 0 THEN {}
    ELSE IF decideWinner(won) = "tie" THEN refundAll
    ELSE payoutSplit(decideWinner(won))

\* A result.  A decided pairing is left as it is.  The last one is saved while
\* the war is still running; then the money moves.
reportResult(p, w) ==
    /\ war = "running" /\ Unlocked
    /\ p \in pairings \ DOMAIN beat /\ w \in {p[1], p[2]}
    /\ LET won == [q \in DOMAIN beat \cup {p} |-> IF q = p THEN w ELSE beat[q]]
       IN  /\ beat' = won
           /\ working' = IF AllDecided(won) THEN [op |-> "settle", left |-> payoutSettled(won)] ELSE Free
    /\ UNCHANGED <<stake, war, roster, pairings, outgo, tornWar, troublesW>>

\* cancel(), before the start only.
cancel ==
    /\ war = "registering" /\ Unlocked
    /\ working' = [op |-> "cancel", left |-> refundAll]
    /\ UNCHANGED <<stake, war, roster, pairings, beat, outgo, tornWar, troublesW>>

\* Mutant of sweepStaleWars: a war is voided although all of it was played.
sweepStaleWars_void ==
    /\ war \in {"registering", "running"} /\ Unlocked
    /\ working' = [op |-> "cancel", left |-> refundAll]
    /\ UNCHANGED <<stake, war, roster, pairings, beat, outgo, tornWar, troublesW>>

\* The sweep finishes a war that is decided and voids any other.
sweepStaleWars ==
    /\ war \in {"registering", "running"} /\ Unlocked
    /\ working' = IF war = "running" /\ AllDecided(beat)
                  THEN [op |-> "settle", left |-> payoutSettled(beat)]
                  ELSE [op |-> "cancel", left |-> refundAll]
    /\ UNCHANGED <<stake, war, roster, pairings, beat, outgo, tornWar, troublesW>>

\* A credit is one transaction, and a replay of its reference moves nothing.
creditOne ==
    \E c \in working.left :
      /\ c.kind = "rake" => working.left = {c}
      /\ outgo' = outgo \cup {c}
      /\ working' = [working EXCEPT !.left = @ \ {c}]
      /\ UNCHANGED <<stake, war, roster, pairings, beat, tornWar, troublesW>>

\* The money has moved: the row is closed.
closeRow ==
    /\ ~Unlocked /\ working.left = {}
    /\ war' = IF working.op = "settle" THEN "finished" ELSE "cancelled"
    /\ working' = Free
    /\ UNCHANGED <<stake, roster, pairings, beat, outgo, tornWar, troublesW>>

\* A transaction fails, or the process dies: the row stays as it was saved.
operationFails ==
    /\ ~Unlocked /\ troublesW < MaxTroublesW
    /\ working' = Free
    /\ tornWar' = (tornWar \/ (working.op = "cancel" /\ outgo # {}))
    /\ troublesW' = troublesW + 1
    /\ UNCHANGED <<stake, war, roster, pairings, beat, outgo>>

Settle == sweepStaleWars \/ creditOne \/ closeRow

Next ==
    \/ create \/ start \/ cancel \/ Settle \/ operationFails
    \/ \E club \in Clubs : register(club)
    \/ \E p \in pairings : \E w \in {p[1], p[2]} : reportResult(p, w)

\* The sweep comes round every five minutes, a day after the creation.
Fairness == WF_warVars(Settle)

-----------------------------------------------------------------------------
\* What has left the escrow.
Cents[S \in SUBSET outgo] ==
    IF S = {} THEN 0
    ELSE LET c == CHOOSE c \in S : TRUE IN c.cents + Cents[S \ {c}]
PaidOut == Cents[outgo]

\* The pool leaves the escrow once and to the cent: the winners' shares and the
\* house's cut, or everybody's buy-in, never some of each, though the credits
\* are separate transactions that reports and sweeps resume.  A refund that
\* stopped half way and was followed by play is the exception, as in module
\* Tournament.
WarPaidOnce ==
    tornWar \/ /\ PaidOut <= prizePoolCents
               /\ war \in {"finished", "cancelled"} => PaidOut = prizePoolCents
               /\ \A c, d \in outgo : c.kind = "refund" <=> d.kind = "refund"

\* A war with members in it is settled or voided in the end, "a finished war is
\* always a paid war" (clubWarService.ts:158).
WarIsSettled == (roster # [club \in Clubs |-> 0]) ~> (war \in {"finished", "cancelled"})
=============================================================================
