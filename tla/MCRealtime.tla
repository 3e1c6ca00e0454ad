----------------------------- MODULE MCRealtime -----------------------------
(***************************************************************************)
(* The course of a live match, in one run: the rules of a trick, a match   *)
(* and three parts of the gateway, which share no state here.  Each        *)
(* behaviour is of the part that `running` names, and the others stay in   *)
(* their initial state.  The values TLC gives the parameters follow the    *)
(* properties; the proofs, for all values, are at the end.                 *)
(***************************************************************************)
EXTENDS Trick, GameLemmas, TLC

CONSTANTS
    MatchType, StartTarget, Deals, MaxGames,      \* Match
    BotSeats, Strikes, MaxHands, MaxAsks,            \* LiveMatch
    Queuers, Rating, Needed, Tolerance,              \* Matchmaking
    Jobs, PoolSize, MaxRespawns                      \* BotPool

VARIABLES
    running,
    bots, stage, owes, handNo, left, clocks, asked, socks, abandon, strikes, moved,
    queue, joining, online, seated, fallback,
    target, cumulative, state, gameIndex, game, matchWinner, goneSeats, hands, leader, owed,
    workers, idle, pending, inFlight, computes, respawns, disabled, job

\* Match, with what is proved about it.
Teams == INSTANCE MatchProofs WITH pending <- owed
Live == INSTANCE LiveMatch
Queues == INSTANCE Matchmaking
Pool == INSTANCE BotPool

\* What Match asks of a match: as many seats as its type has, and a deal that gives
\* no card to two of them.
ASSUME SeatsAssumption == Teams!NAssumption /\ Teams!TypeAssumption
ASSUME GoalAssumption == Teams!TargetAssumption
ASSUME DealtAssumption == Teams!DealsAssumption
\* Bots sit at the seats of the table.
ASSUME BotsAssumption == BotSeats \subseteq SUBSET Live!Seats

matchVars == <<target, cumulative, state, gameIndex, game, matchWinner, goneSeats, hands, leader, owed>>
liveVars == <<bots, stage, owes, handNo, left, clocks, asked, socks, abandon, strikes, moved>>
queueVars == <<queue, joining, online, seated, fallback>>
poolVars == <<workers, idle, pending, inFlight, computes, respawns, disabled, job>>
realtimeVars == <<running, vars, matchVars, liveVars, queueVars, poolVars>>

RealtimeInit ==
    /\ running \in {"trick", "teams", "live", "ranked", "pool"}
    /\ Init /\ Teams!Init /\ Live!Init /\ Queues!Init /\ Pool!Init
    /\ running = "live" \/ (bots = {} /\ owes = 0)

RealtimeNext ==
    /\ UNCHANGED running
    /\ \/ running = "trick" /\ Next /\ UNCHANGED <<matchVars, liveVars, queueVars, poolVars>>
       \/ running = "teams" /\ Teams!Next /\ UNCHANGED <<vars, liveVars, queueVars, poolVars>>
       \/ running = "live" /\ Live!Next /\ UNCHANGED <<vars, matchVars, queueVars, poolVars>>
       \/ running = "ranked" /\ Queues!Next /\ UNCHANGED <<vars, matchVars, liveVars, poolVars>>
       \/ running = "pool" /\ Pool!Next /\ UNCHANGED <<vars, matchVars, liveVars, queueVars>>

Fairness ==
    /\ Queues!Fairness /\ Pool!Fairness
    /\ WF_liveVars(running = "live" /\ Live!Timeout) /\ WF_liveVars(running = "live" /\ Live!BotMove)
    /\ WF_liveVars(running = "live" /\ Live!Decision) /\ WF_liveVars(running = "live" /\ Live!armInterHandGate)

RealtimeSpec == RealtimeInit /\ [][RealtimeNext]_realtimeVars /\ Fairness

-----------------------------------------------------------------------------
\* LiveMatch: whoever owes an action is watched by the timer that takes it; a seat
\* without a connection is on its grace, and no other is.
NobodyHoldsTheTable == Live!TurnIsWatched /\ Live!OfflineIsTimed
\* Match, of teams: a team plays on with its present member, who is dealt in and
\* led to, and loses when both left; no card or point is made up.
TeamsAreContested == Teams!StillContested /\ Teams!GoneFromTheGame /\ Teams!NothingIsMadeUp
\* The match moves on, whatever its players do or leave undone (LiveMatch), nobody
\* waits in a queue for ever (Matchmaking), and every decision asked of the pool is
\* answered or refused (BotPool).
EverythingMovesOn ==
    /\ running = "live" => Live!MatchMovesOn
    /\ Queues!NobodyWaitsForever
    /\ Pool!EveryJobSettles

-----------------------------------------------------------------------------
(* The values for TLC: in the trick's deck both ends of the line of runs   *)
(* meet, two Aces, 2 to 5 and 10 to King, with a bomb and a joker.         *)

cd(r, s) == [rank |-> r, suit |-> s]
MCDeck ==
    {cd(r, "S") : r \in {"A", "2", "3", "4", "5"}}
      \cup {cd("A", "H"), cd("4", "H"), cd("4", "D"), cd("4", "C"), cd("10", "H"),
            cd("J", "D"), cd("Q", "S"), cd("K", "S"), cd("joker", "red")}

MCDeals4 ==
    {(0 :> {cd("3", "S"), cd("5", "H")}
      @@ 1 :> {cd("9", "H"), cd("joker", "red")}
      @@ 2 :> {cd("K", "S"), cd("A", "H")}
      @@ 3 :> {cd("4", "S"), cd("4", "H")})}

\* cen is out of ana's bracket and within ben's.
MCRating == "ana" :> 1 @@ "ben" :> 2 @@ "cen" :> 3
MCNeeded == [one |-> 2]

-----------------------------------------------------------------------------
(* Proofs.                                                                 *)

\* What beats a combination is stronger.
LEMMA BeatsIsStronger ==
  ASSUME NEW a \in Combo, NEW b \in Combo, beats(a, b)
  PROVE  Strength(a) > Strength(b)
<1>1. a.type \in ComboType /\ b.type \in ComboType /\ a.key \in 0..14 /\ b.key \in 0..14
  BY DEF Combo
<1>2. CASE a.type = "flush"
  BY <1>1, <1>2 DEF beats, Strength, ComboType
<1>3. CASE a.type = "bomb"
  BY <1>1, <1>3 DEF beats, Strength, ComboType
<1>4. CASE a.type \in {"single", "pair", "triple"}
  BY <1>1, <1>4 DEF beats, Strength, ComboType
<1>5. CASE a.type = "kolor"
  BY <1>1, <1>5 DEF beats, Strength, ComboType
<1> QED BY <1>1, <1>2, <1>3, <1>4, <1>5 DEF ComboType

\* The table is empty while a lead is awaited.
TrickInv == TypeOK /\ (offered = {} => pile = NoCombo)

\* Every step of a trick keeps the invariant.
LEMMA TrickStep == TrickInv /\ [Next]_vars => TrickInv'
<1> SUFFICES ASSUME TrickInv, [Next]_vars PROVE TrickInv'
  OBVIOUS
<1>1. \A cards \in Offers : /\ cards \in SUBSET Deck /\ cards # {}
                            /\ identifyCombo(cards) \in Combo \cup {NoCombo}
  <2> SUFFICES ASSUME NEW cards \in Offers
               PROVE  /\ cards \in SUBSET Deck /\ cards # {}
                      /\ identifyCombo(cards) \in Combo \cup {NoCombo}
    OBVIOUS
  <2>1. cards \in SUBSET Deck /\ Cardinality(cards) \in 1..MaxOffer
    BY DEF Offers
  <2>2. cards # {}
    BY <2>1, FS_EmptySet
  <2>3. cards \in SUBSET Card
    BY <2>1, DeckAssumption DEF buildDeck
  <2> QED BY <2>1, <2>2, <2>3, identifyComboType
<1>2. CASE UNCHANGED vars
  BY <1>2 DEF vars, TypeOK, TrickInv
<1>3. CASE NewTrick
  BY <1>3 DEF NewTrick, TypeOK, TrickInv
<1>4. ASSUME NEW cards \in Offers, Lead(cards) PROVE TrickInv'
  BY <1>1, <1>4 DEF Lead, TypeOK, TrickInv
<1>5. ASSUME NEW cards \in Offers, Answer(cards) PROVE TrickInv'
  BY <1>1, <1>5 DEF Answer, TypeOK, TrickInv
<1> QED BY <1>2, <1>3, <1>4, <1>5 DEF Next

\* An answer is stronger than what it covers.
LEMMA TrickGrows ==
  TrickInv /\ TrickInv' /\ [Next]_vars =>
    [pile # NoCombo /\ pile' # NoCombo => Strength(pile') > Strength(pile)]_vars
<1> SUFFICES ASSUME TrickInv, TrickInv', Next, pile # NoCombo, pile' # NoCombo,
                    ~UNCHANGED vars
             PROVE  Strength(pile') > Strength(pile)
  OBVIOUS
<1>1. pile \in Combo /\ pile' \in Combo
  BY DEF TypeOK, TrickInv
<1>2. ~NewTrick
  BY DEF NewTrick
<1>3. ASSUME NEW cards \in Offers, Answer(cards) PROVE beats(pile', pile)
  BY <1>3 DEF Answer, validatePlay
<1>4. ASSUME NEW cards \in Offers, Lead(cards) PROVE FALSE
  <2>1. offered = {}
    BY <1>4 DEF Lead
  <2> QED BY <2>1 DEF TrickInv
<1> QED BY <1>1, <1>2, <1>3, <1>4, BeatsIsStronger DEF Next
-----------------------------------------------------------------------------
(* Runs: what straightTop finds by trying the Aces is what can be laid on  *)
(* the line.                                                               *)

\* Every place of the line has a rank; an Ace is at both ends, every other rank at the
\* place that SEQ gives it.
LEMMA RunPlaces ==
  /\ \A p \in 1..14 : RunLine[p] \in Rank
  /\ \A p \in 1..14 : RunLine[p] = "A" <=> p \in {1, 14}
  /\ \A r \in Rank \ {"A"} : /\ SEQ[r] \in 1..14
                             /\ \A p \in 1..14 : RunLine[p] = r <=> p = SEQ[r]
<1>1. \A i \in 1..13 : RANKS[i] \in Rank /\ POWER[RANKS[i]] = i - 1
  <2> SUFFICES ASSUME NEW i \in 1..13 PROVE RANKS[i] \in Rank /\ POWER[RANKS[i]] = i - 1
    OBVIOUS
  <2>1. RANKS[i] \in Rank
    BY DEF Rank
  <2>2. \A j \in 1..13 : RANKS[j] = RANKS[i] => j = i
    BY DEF RANKS
  <2>3. (CHOOSE j \in 1..13 : RANKS[j] = RANKS[i]) = i
    BY <2>2
  <2> QED BY <2>1, <2>3 DEF POWER
<1>2. /\ \A p \in 1..14 : RunLine[p] \in Rank
      /\ \A p \in 1..14 : RunLine[p] = "A" <=> p \in {1, 14}
  BY DEF RunLine, Rank, RANKS
<1>3. ASSUME NEW r \in Rank \ {"A"}
      PROVE  SEQ[r] \in 1..14 /\ \A p \in 1..14 : RunLine[p] = r <=> p = SEQ[r]
  <2>1. PICK i \in 1..13 : RANKS[i] = r
    BY DEF Rank
  <2>2. SEQ[r] = IF r = "2" THEN 2 ELSE (i - 1) + 3
    BY <1>1, <2>1 DEF SEQ
  <2> QED BY <2>1, <2>2 DEF RANKS, RunLine
<1> QED BY <1>2, <1>3

\* The places the search over the Aces finds.
Found(cards, hi) ==
    \E ace \in [{c \in cards : c.rank = "A"} -> {1, 14}] :
        RunValues(cards, ace) = (hi - Cardinality(cards) + 1)..hi

\* So many places that end on the line lie on it.
LEMMA PlacesOfLine ==
  ASSUME NEW n \in 1..14, NEW hi \in n..14
  PROVE  (hi - n + 1)..hi \subseteq 1..14
OBVIOUS

\* What the search over the Aces finds can be laid on the line.
LEMMA FoundIsLaid ==
  ASSUME NEW cards \in SUBSET Card, NEW n \in 1..14, n = Cardinality(cards), NEW hi \in n..14,
         \A c \in cards : ~isJoker(c), Found(cards, hi)
  PROVE  Covers(cards, hi)
<1> PICK ace \in [{c \in cards : c.rank = "A"} -> {1, 14}] :
           RunValues(cards, ace) = (hi - n + 1)..hi
  BY DEF Found
<1> DEFINE T == (hi - n + 1)..hi
           v == [c \in cards |-> IF c.rank = "A" THEN ace[c] ELSE SEQ[c.rank]]
<1>1. T \subseteq 1..14
  BY PlacesOfLine
<1>2. IsFiniteSet(cards)
  BY CardIsFinite, FS_Subset
<1>3. IsFiniteSet(T) /\ Cardinality(T) = n
  <2>1. hi - n + 1 \in Int /\ hi \in Int /\ ~(hi - n + 1 > hi) /\ hi - (hi - n + 1) + 1 = n
    OBVIOUS
  <2> QED BY <2>1, FS_Interval
<1>4. v \in Surjection(cards, T)
  <2>1. T = {v[c] : c \in cards}
    BY DEF RunValues
  <2> QED BY <2>1 DEF Surjection
<1>5. v \in Bijection(cards, T)
  BY <1>2, <1>3, <1>4, FS_SurjSameCardinalityImpliesInj DEF Bijection
<1>6. \A c \in cards : c.rank \in Rank
  BY DEF Card, Standard, Joker, isJoker
<1>7. ASSUME NEW c \in cards PROVE RunLine[v[c]] = c.rank
  <2>1. CASE c.rank = "A"
    <3>1. v[c] \in {1, 14}
      BY <2>1
    <3> QED BY <2>1, <3>1 DEF RunLine
  <2>2. CASE c.rank # "A"
    <3>1. v[c] = SEQ[c.rank]
      BY <2>2
    <3> QED BY <1>6, <2>2, <3>1, RunPlaces
  <2> QED BY <2>1, <2>2
<1> HIDE DEF v, T
<1>8. ASSUME NEW r
      PROVE  Cardinality({c \in cards : c.rank = r}) = Cardinality({p \in T : RunLine[p] = r})
  <2> DEFINE A == {c \in cards : c.rank = r}
             B == {p \in T : RunLine[p] = r}
             f == [c \in A |-> v[c]]
  <2>1. IsFiniteSet(A)
    BY <1>2, FS_Subset
  <2>2. /\ v \in [cards -> T] /\ \A p \in T : \E c \in cards : v[c] = p
        /\ \A a, b \in cards : v[a] = v[b] => a = b
    BY <1>5 DEF Bijection, Injection, IsInjective, Surjection
  <2>3. f \in Bijection(A, B)
    BY SMTT(30), <1>7, <2>2 DEF Bijection, Injection, IsInjective, Surjection
  <2>4. ExistsBijection(A, B)
    BY <2>3 DEF ExistsBijection
  <2> HIDE DEF A, B
  <2> QED BY <2>1, <2>4, FS_Bijection DEF A, B
<1> QED BY <1>8 DEF Covers, T

\* What can be laid on the line is found, and has no joker.
LEMMA LaidIsFound ==
  ASSUME NEW cards \in SUBSET Card, NEW n \in 1..14, n = Cardinality(cards), NEW hi \in n..14,
         Covers(cards, hi)
  PROVE  (\A c \in cards : ~isJoker(c)) /\ Found(cards, hi)
<1> DEFINE T == (hi - n + 1)..hi
           A(r) == {c \in cards : c.rank = r}
           B(r) == {p \in T : RunLine[p] = r}
<1>1. T \subseteq 1..14
  BY PlacesOfLine
<1>2. IsFiniteSet(cards) /\ IsFiniteSet(T)
  <2>1. hi - n + 1 \in Int /\ hi \in Int
    OBVIOUS
  <2> QED BY <2>1, CardIsFinite, FS_Subset, FS_Interval
<1> HIDE DEF T
<1>3. \A r : IsFiniteSet(A(r)) /\ IsFiniteSet(B(r))
  BY <1>2, FS_Subset
<1>4. \A r \in Rank \cup {"joker"} : Cardinality(A(r)) = Cardinality(B(r))
  BY DEF T, Covers
<1>5. \A r \in Rank \cup {"joker"} : A(r) = {} <=> B(r) = {}
  <2> SUFFICES ASSUME NEW r \in Rank \cup {"joker"} PROVE A(r) = {} <=> B(r) = {}
    OBVIOUS
  <2> DEFINE a == A(r)
             b == B(r)
  <2>1. IsFiniteSet(a) /\ IsFiniteSet(b) /\ Cardinality(a) = Cardinality(b)
    BY <1>3, <1>4
  <2> HIDE DEF a, b
  <2>2. a = {} <=> b = {}
    BY <2>1, FS_EmptySet
  <2> QED BY <2>2 DEF a, b
<1>6. \A c \in cards : ~isJoker(c)
  <2>1. "joker" \notin Rank
    BY DEF Rank, RANKS
  <2>2. \A p \in T : RunLine[p] # "joker"
    BY <1>1, <2>1, RunPlaces
  <2>3. A("joker") = {}
    <3>1. B("joker") = {}
      BY <2>2
    <3> QED BY <1>5, <3>1
  <2> QED BY <2>3 DEF isJoker
<1>7. \A c \in cards : c.rank \in Rank
  BY <1>6 DEF Card, Standard, Joker, isJoker
<1>8. "A" \in Rank
  BY DEF Rank, RANKS
<1>9. PICK ace \in Bijection(A("A"), B("A")) : TRUE
  <2> DEFINE a == A("A")
             b == B("A")
  <2>1. IsFiniteSet(a) /\ IsFiniteSet(b) /\ Cardinality(a) = Cardinality(b)
    BY <1>3, <1>4, <1>8
  <2> HIDE DEF a, b
  <2>2. ExistsBijection(a, b)
    BY <2>1, FS_SameCardinalityBij
  <2> QED BY <2>2 DEF a, b, ExistsBijection
<1>10. /\ ace \in [A("A") -> B("A")]
       /\ \A p \in B("A") : \E c \in A("A") : ace[c] = p
  BY DEF Bijection, Injection, IsInjective, Surjection
<1>11. ace \in [A("A") -> {1, 14}]
  <2>1. B("A") \subseteq {1, 14}
    BY <1>1, RunPlaces
  <2> QED BY <1>10, <2>1
<1>12. RunValues(cards, ace) \subseteq T
  <2> SUFFICES ASSUME NEW c \in cards
               PROVE  (IF c.rank = "A" THEN ace[c] ELSE SEQ[c.rank]) \in T
    BY DEF RunValues
  <2>1. CASE c.rank = "A"
    BY <1>10, <2>1
  <2>2. CASE c.rank # "A"
    <3>1. c \in A(c.rank)
      OBVIOUS
    <3>2. PICK p \in T : RunLine[p] = c.rank
      BY <1>5, <1>7, <3>1
    <3>3. p = SEQ[c.rank]
      BY <1>1, <1>7, <2>2, <3>2, RunPlaces
    <3> QED BY <2>2, <3>2, <3>3
  <2> QED BY <2>1, <2>2
<1>13. T \subseteq RunValues(cards, ace)
  <2> SUFFICES ASSUME NEW p \in T
               PROVE  \E c \in cards : p = IF c.rank = "A" THEN ace[c] ELSE SEQ[c.rank]
    BY DEF RunValues
  <2> DEFINE r == RunLine[p]
  <2>1. p \in 1..14 /\ r \in Rank
    BY <1>1, RunPlaces
  <2>2. CASE r = "A"
    BY <1>10, <2>2
  <2>3. CASE r # "A"
    <3>1. p \in B(r)
      OBVIOUS
    <3>2. PICK c \in cards : c.rank = r
      BY <1>5, <2>1, <3>1
    <3>3. p = SEQ[r]
      BY <1>1, <2>1, <2>3, RunPlaces
    <3> QED BY <2>3, <3>2, <3>3
  <2> QED BY <2>2, <2>3
<1>14. RunValues(cards, ace) = T
  BY <1>12, <1>13
<1> QED BY <1>6, <1>11, <1>14 DEF T, Found

\* straightTop's search over the Aces neither misses a run nor invents one, whatever
\* the cards.
LEMMA StraightTopIsRun ==
  ASSUME NEW cards \in SUBSET Card, Cardinality(cards) >= 5
  PROVE  /\ straightTop(cards) # NoTop <=> RunTops(cards) # {}
         /\ straightTop(cards) # NoTop => straightTop(cards) \in RunTops(cards)
<1> DEFINE n == Cardinality(cards)
           tops == {hi \in n..14 : Found(cards, hi)}
<1>1. n \in Nat
  BY CardIsFinite, FS_Subset, FS_CardinalityType
<1>2. ASSUME NEW hi \in n..14
      PROVE  hi \in RunTops(cards) <=> (\A c \in cards : ~isJoker(c)) /\ hi \in tops
  <2>1. n \in 1..14
    BY <1>1
  <2>2. hi \in RunTops(cards) <=> Covers(cards, hi)
    BY DEF RunTops
  <2>3. Covers(cards, hi) <=> (\A c \in cards : ~isJoker(c)) /\ Found(cards, hi)
    BY <2>1, FoundIsLaid, LaidIsFound
  <2> QED BY <2>2, <2>3
<1>3. RunTops(cards) \subseteq n..14 /\ tops \subseteq n..14
  BY DEF RunTops
<1>4. straightTop(cards) = IF n < 5 \/ (\E c \in cards : isJoker(c)) \/ tops = {} THEN NoTop
                           ELSE CHOOSE t \in tops : \A u \in tops : t <= u
  BY DEF straightTop, Found
<1> HIDE DEF tops, n
<1>5. CASE \E c \in cards : isJoker(c)
  BY <1>2, <1>3, <1>4, <1>5
<1>6. CASE (\A c \in cards : ~isJoker(c)) /\ tops = {}
  BY <1>2, <1>3, <1>4, <1>6
<1>7. CASE (\A c \in cards : ~isJoker(c)) /\ tops # {}
  <2>1. n >= 5
    BY DEF n
  <2>5. \A t \in tops : t \in 5..14
    BY <1>1, <1>3, <2>1
  <2>2. \E t \in tops : \A u \in tops : t <= u
    BY <1>7, <2>5, LeastPlace
  <2>3. straightTop(cards) \in tops
    BY <1>1, <1>4, <1>7, <2>1, <2>2
  <2>4. straightTop(cards) \in n..14 /\ straightTop(cards) # NoTop
    <3>1. straightTop(cards) \in 5..14
      BY <2>3, <2>5
    <3>2. straightTop(cards) \in n..14
      BY <1>3, <2>3
    <3> QED BY <3>1, <3>2 DEF NoTop
  <2> QED BY <1>2, <1>7, <2>3, <2>4
<1> QED BY <1>5, <1>6, <1>7

\* The cards offered last are a combination exactly when they are a run.
LEMMA OfferedRuns == TrickInv => RunsAreConsecutive
<1> SUFFICES ASSUME TrickInv, Cardinality(offered) >= 5
             PROVE  /\ (identifyCombo(offered) # NoCombo) <=> (RunTops(offered) # {})
                    /\ identifyCombo(offered) # NoCombo =>
                         identifyCombo(offered).key \in RunTops(offered)
  BY DEF RunsAreConsecutive
<1>1. offered \in SUBSET Card
  BY DeckAssumption DEF TrickInv, TypeOK, buildDeck
<1>2. Cardinality(offered) \in Nat
  BY <1>1, CardIsFinite, FS_Subset, FS_CardinalityType
<1>3. identifyCombo(offered) =
        IF straightTop(offered) = NoTop THEN NoCombo
        ELSE [type |-> IF allSameSuit(offered) THEN "flush" ELSE "kolor",
              size |-> Cardinality(offered), key |-> straightTop(offered)]
  BY <1>2 DEF identifyCombo
<1>4. identifyCombo(offered) # NoCombo <=> straightTop(offered) # NoTop
  BY <1>3 DEF NoCombo
<1>5. straightTop(offered) # NoTop => identifyCombo(offered).key = straightTop(offered)
  BY <1>3
<1> QED BY <1>1, <1>4, <1>5, StraightTopIsRun

-----------------------------------------------------------------------------
(* LiveMatch: the timers of a match.                                       *)

\* The clocks of a room and the decisions asked of the pool.
TimerCalls == {"nothing", "onBotWatchdog", "onSwitchTimeout", "onTurnTimeout"}
Timers == [turn : [calls : TimerCalls, seat : 0..3], bot : 0..3,
           gate : [up : BOOLEAN, ready : SUBSET (0..2)]]
Decisions == [id : Int, seat : 0..2, hand : Int, fresh : BOOLEAN]

\* A decision asked for this turn is a move; the seat that owes an action is watched,
\* and a seat is on its grace while it has no connection.
LiveInv ==
    /\ stage \in {"play", "return", "over", "closed"}
    /\ owes \in 0..2 /\ handNo \in Int
    /\ clocks \in Timers
    /\ asked \in SUBSET Decisions
    /\ socks \in [0..2 -> Int]
    /\ bots \in SUBSET (0..2)
    /\ abandon # {} => Live!InMatch /\ bots = {}
    /\ Live!InMatch => \A a \in asked : a.fresh => stage = "play"
    /\ Live!TurnIsWatched
    /\ Live!OfflineIsTimed

\* armTurnTimer, for the seat that owes an action.
LEMMA TimerArmed ==
  ASSUME NEW c \in Timers, NEW st, NEW s \in 0..2
  PROVE  /\ Live!armTurnTimer(c, st, s) \in Timers
         /\ Live!armTurnTimer(c, st, s).turn = Live!TimerFor(st, s)
         /\ Live!armTurnTimer(c, st, s).gate = c.gate
<1>1. Live!TimerFor(st, s) \in [calls : TimerCalls, seat : 0..3]
  BY DEF Live!TimerFor, TimerCalls
<1> DEFINE turn == Live!TimerFor(st, s)
           bot == IF s \in bots THEN s ELSE c.bot
<1>2. Live!armTurnTimer(c, st, s) = [c EXCEPT !.turn = turn, !.bot = bot]
  BY DEF Live!armTurnTimer
<1>3. bot \in 0..3
  BY DEF Timers
<1> HIDE DEF turn, bot
<1>4. [c EXCEPT !.turn = turn, !.bot = bot] \in Timers
  BY <1>1, <1>3 DEF Timers, turn
<1> QED BY <1>2, <1>4 DEF Timers, turn

\* The clocks that handlers start from.
LEMMA ClocksFrom ==
  ASSUME LiveInv
  PROVE  /\ Live!NoClocks \in Timers /\ Live!Fired \in Timers
         /\ [clocks EXCEPT !.bot = 3] \in Timers
         /\ Live!Fired.gate = clocks.gate
<1>1. clocks \in Timers
  BY DEF LiveInv
<1> QED BY <1>1 DEF Timers, Live!NoClocks, Live!Fired, Live!NoTimer, Live!NoGate, Live!NoSeat, TimerCalls

\* release() arms the timer of the seat that owes an action, with the gate down.
LEMMA Released ==
  ASSUME NEW c \in Timers, owes \in 0..2
  PROVE  /\ Live!release(c) \in Timers
         /\ Live!release(c).turn = Live!TimerFor(stage, owes)
         /\ ~Live!release(c).gate.up
<1> DEFINE d == [c EXCEPT !.gate = Live!NoGate]
<1>1. d \in Timers /\ d.gate = Live!NoGate
  BY DEF Timers, Live!NoGate
<1>2. Live!release(c) = Live!armTurnTimer(d, stage, owes)
  BY DEF Live!release
<1> HIDE DEF d
<1>3. /\ Live!armTurnTimer(d, stage, owes) \in Timers
      /\ Live!armTurnTimer(d, stage, owes).turn = Live!TimerFor(stage, owes)
      /\ Live!armTurnTimer(d, stage, owes).gate = d.gate
  BY <1>1, TimerArmed
<1> QED BY <1>1, <1>2, <1>3 DEF Live!NoGate

\* After a move the seat that owes the next action is watched, and no decision under
\* way was asked for it.
Watched ==
    /\ clocks \in Timers /\ asked \in SUBSET Decisions
    /\ \A a \in asked : ~a.fresh
    /\ stage # "over" => clocks.gate.up \/ clocks.turn = Live!TimerFor(stage, owes)

LEMMA ResultWatches ==
  ASSUME NEW c \in Timers, NEW handEnded \in BOOLEAN, NEW asks \in SUBSET Decisions, NEW grace,
         owes' \in 0..2, UNCHANGED bots,
         Live!applyResult(c, handEnded, asks, grace)
  PROVE  Watched' /\ abandon' = IF stage' = "over" THEN {} ELSE grace
<1>1. /\ clocks' = Live!Settled(c, handEnded)
      /\ asked' = {[a EXCEPT !.fresh = FALSE] : a \in asks}
      /\ abandon' = IF stage' = "over" THEN {} ELSE grace
  BY DEF Live!applyResult
<1>2. asked' \in SUBSET Decisions /\ \A a \in asked' : ~a.fresh
  BY <1>1 DEF Decisions
<1>3. clocks' \in Timers /\ (stage' # "over" => clocks'.gate.up
                                               \/ clocks'.turn = Live!TimerFor(stage', owes'))
  <2>1. CASE stage' = "over"
    BY <1>1, <2>1 DEF Live!Settled, Timers, Live!NoClocks, Live!NoTimer, Live!NoGate, Live!NoSeat, TimerCalls
  <2>2. CASE stage' # "over" /\ handEnded
    BY <1>1, <2>2 DEF Live!Settled, Timers, Live!NewGate
  <2>3. CASE stage' # "over" /\ ~handEnded
    BY <1>1, <2>3, TimerArmed DEF Live!Settled
  <2> QED BY <2>1, <2>2, <2>3
<1>4. Live!TimerFor(stage, owes)' = Live!TimerFor(stage', owes')
  BY DEF Live!TimerFor
<1> QED BY <1>1, <1>2, <1>3, <1>4 DEF Watched

\* Where a hand that ends leaves the match.
LEMMA HandEndsIn ==
  ASSUME LiveInv, NEW present, NEW lead \in SUBSET (0..2), Live!HandEnds(present, lead)
  PROVE  stage' \in {"play", "return", "over"} /\ owes' \in 0..2 /\ handNo' \in Int
<1>1. owes \in 0..2 /\ handNo \in Int
  BY DEF LiveInv
<1>2. CASE stage' = "over" /\ UNCHANGED <<owes, handNo>>
  BY <1>1, <1>2
<1>3. CASE /\ handNo' = handNo + 1 /\ owes' \in lead
           /\ stage' \in IF present = Live!Seats THEN {"play", "return"} ELSE {"play"}
  BY <1>1, <1>3
<1> QED BY <1>2, <1>3 DEF Live!HandEnds

\* What every move leaves behind.
Moved(grace) ==
    /\ stage' \in {"play", "return", "over"} /\ owes' \in 0..2 /\ handNo' \in Int
    /\ Watched'
    /\ abandon' = IF stage' = "over" THEN {} ELSE grace

LEMMA MovesWatch ==
  ASSUME LiveInv, NEW c \in Timers, NEW asks \in SUBSET Decisions, UNCHANGED bots,
         Live!Moves(c, asks)
  PROVE  Moved(abandon)
<1>1. Live!Present \subseteq 0..2
  BY DEF Live!Present, Live!Seats
<1>2. CASE /\ stage' = "play" /\ owes' \in Live!Present \ {owes} /\ UNCHANGED handNo
           /\ Live!applyResult(c, FALSE, asks, abandon)
  <2>1. owes' \in 0..2 /\ handNo' \in Int
    BY <1>1, <1>2 DEF LiveInv
  <2> QED BY <1>2, <2>1, ResultWatches DEF Moved
<1>3. CASE /\ Live!HandEnds(Live!Present, IF Live!Present = Live!Seats THEN Live!Present \ {owes}
                                          ELSE {owes})
           /\ Live!applyResult(c, TRUE, asks, abandon)
  <2> PICK lead \in SUBSET (0..2) : Live!HandEnds(Live!Present, lead)
    BY <1>1, <1>3 DEF LiveInv
  <2>1. stage' \in {"play", "return", "over"} /\ owes' \in 0..2 /\ handNo' \in Int
    BY HandEndsIn
  <2> QED BY <1>3, <2>1, ResultWatches DEF Moved
<1> QED BY <1>2, <1>3 DEF Live!Moves

LEMMA ForfeitWatches ==
  ASSUME LiveInv, Live!InMatch, NEW s \in 0..2, NEW c \in Timers, UNCHANGED bots,
         Live!forfeitMatch(s, c)
  PROVE  Moved(abandon \ {s}) /\ left' = left \cup {s}
<1> DEFINE d == Live!Opened(c)
           present == Live!Present \ {s}
           goesOn == Live!applyResult(d, FALSE, asked, abandon \ {s})
<1>1. d \in Timers
  BY Released DEF Live!Opened, LiveInv
<1>2. present \subseteq 0..2 /\ asked \in SUBSET Decisions
  BY DEF Live!Present, Live!Seats, LiveInv
<1>3. Live!forfeitSeat(s, d)
  BY DEF Live!forfeitMatch
<1> HIDE DEF d
<1>4. /\ left' = left \cup {s}
      /\ \/ stage' = "over" /\ UNCHANGED <<owes, handNo>> /\ goesOn
         \/ owes = s /\ stage' = "play" /\ owes' \in present /\ UNCHANGED handNo /\ goesOn
         \/ owes # s /\ UNCHANGED <<stage, owes, handNo>> /\ goesOn
         \/ /\ Live!HandEnds(present, present)
            /\ Live!applyResult(d, TRUE, asked, abandon \ {s})
  BY <1>3 DEF Live!forfeitSeat
<1> HIDE DEF present
<1>5. stage' \in {"play", "return", "over"} /\ owes' \in 0..2 /\ handNo' \in Int
  <2>1. CASE Live!HandEnds(present, present)
    BY <1>2, <2>1, HandEndsIn
  <2>2. CASE ~Live!HandEnds(present, present)
    BY <1>2, <1>4, <2>2 DEF LiveInv, Live!InMatch
  <2> QED BY <2>1, <2>2
<1>7. goesOn \/ Live!applyResult(d, TRUE, asked, abandon \ {s})
  BY <1>4
<1>8. Watched' /\ abandon' = IF stage' = "over" THEN {} ELSE abandon \ {s}
  BY <1>1, <1>2, <1>5, <1>7, ResultWatches
<1> QED BY <1>4, <1>5, <1>8 DEF Moved

\* After a move by a seat the invariant holds: whoever is awaited is watched, and
\* the graces are those of the seats that are there.
LEMMA AfterMove ==
  ASSUME LiveInv, Live!InMatch, UNCHANGED <<bots, socks>>,
         \/ Moved(abandon) /\ UNCHANGED left
         \/ \E s \in 0..2 : Moved(abandon \ {s}) /\ left' = left \cup {s}
  PROVE  LiveInv'
<1>1. /\ stage' \in {"play", "return", "over"} /\ owes' \in 0..2 /\ handNo' \in Int
      /\ clocks' \in Timers /\ asked' \in SUBSET Decisions /\ (\A a \in asked' : ~a.fresh)
  BY DEF Moved, Watched
<1>2. Live!TurnIsWatched'
  BY DEF Moved, Watched, Live!TurnIsWatched, Live!InMatch
<1>3. Live!OfflineIsTimed'
  <2> SUFFICES ASSUME Live!InMatch', bots' = {}
               PROVE  abandon' = {s \in Live!Present' : socks'[s] = 0}
    BY DEF Live!OfflineIsTimed
  <2>1. abandon = {s \in Live!Present : socks[s] = 0} /\ stage' # "over"
    BY DEF LiveInv, Live!OfflineIsTimed, Live!InMatch
  <2>2. CASE Moved(abandon) /\ UNCHANGED left
    BY <2>1, <2>2 DEF Moved, Live!Present, Live!Seats
  <2>3. ASSUME NEW s \in 0..2, Moved(abandon \ {s}), left' = left \cup {s}
        PROVE  abandon' = {r \in Live!Present' : socks'[r] = 0}
    BY <2>1, <2>3 DEF Moved, Live!Present, Live!Seats
  <2> QED BY <2>2, <2>3
<1>4. socks' \in [0..2 -> Int]
  BY DEF LiveInv
<1>5. \A a \in asked' : a.fresh => stage' = "play"
  BY <1>1
<1>6. bots' \in SUBSET (0..2) /\ (abandon' # {} => Live!InMatch' /\ bots' = {})
  BY <1>1 DEF LiveInv, Moved, Live!InMatch
<1> QED BY <1>1, <1>2, <1>3, <1>4, <1>5, <1>6 DEF LiveInv

\* Nothing is owed in a match that is over.
LEMMA AfterClose ==
  ASSUME LiveInv, stage' \in {"over", "closed"}, owes' \in 0..2, handNo' \in Int,
         clocks' \in Timers, asked' \in SUBSET Decisions, socks' \in [0..2 -> Int],
         bots' \in SUBSET (0..2), abandon' = {}
  PROVE  LiveInv'
BY DEF LiveInv, Live!InMatch, Live!TurnIsWatched, Live!OfflineIsTimed

\* The actions of a match in progress move, or leave what is owed watched.
LEMMA NothingOwedAnew ==
  ASSUME LiveInv, UNCHANGED <<bots, stage, owes, handNo, left, socks, abandon>>,
         clocks' \in Timers, asked' \in SUBSET Decisions,
         Live!InMatch => /\ \A a \in asked' : a.fresh => stage = "play"
                         /\ Live!TurnIsWatched'
  PROVE  LiveInv'
<1>1. Live!InMatch' = Live!InMatch
  BY DEF Live!InMatch
<1>2. Live!OfflineIsTimed'
  BY <1>1 DEF LiveInv, Live!OfflineIsTimed, Live!Present, Live!Seats
<1>3. Live!TurnIsWatched'
  BY <1>1 DEF Live!TurnIsWatched
<1> QED BY <1>1, <1>2, <1>3 DEF LiveInv

\* The timer that fires is that of the seat, or another one that watches does not.
LEMMA FiredFor ==
  ASSUME LiveInv, Live!InMatch, ~clocks.gate.up, clocks.turn # Live!TimerFor(stage, owes)
  PROVE  \E a \in asked : a.seat = owes /\ a.hand = handNo /\ a.fresh
BY DEF LiveInv, Live!TurnIsWatched

\* A handler that finds nothing to do was not the timer of the seat that owes an action.
LEMMA IgnoredKeeps ==
  ASSUME LiveInv, Live!Ignored, UNCHANGED <<bots, socks>>,
         Live!InMatch => clocks.turn # Live!TimerFor(stage, owes)
  PROVE  LiveInv'
<1>1. /\ clocks' = Live!Fired /\ asked' = asked
      /\ UNCHANGED <<bots, stage, owes, handNo, left, socks, abandon>>
  BY DEF Live!Ignored, Live!play
<1>2. clocks' \in Timers /\ clocks'.gate = clocks.gate
  BY <1>1, ClocksFrom
<1>3. Live!InMatch => Live!TurnIsWatched'
  BY <1>1, <1>2, FiredFor DEF Live!TurnIsWatched, Live!InMatch
<1> QED BY <1>1, <1>2, <1>3, NothingOwedAnew DEF LiveInv

LEMMA MissedKeeps ==
  ASSUME LiveInv, Live!InMatch, NEW s \in 0..2, Live!missed(s), UNCHANGED <<bots, socks>>
  PROVE  LiveInv'
<1>1. Live!Fired \in Timers /\ asked \in SUBSET Decisions
  BY ClocksFrom DEF LiveInv
<1>2. CASE Live!forfeitMatch(s, Live!Fired)
  BY <1>1, <1>2, ForfeitWatches, AfterMove
<1>3. CASE Live!Moves(Live!Fired, asked) /\ UNCHANGED left
  BY <1>1, <1>3, MovesWatch, AfterMove
<1> QED BY <1>2, <1>3 DEF Live!missed

LEMMA TurnTimeoutKeeps ==
  ASSUME LiveInv, NEW s \in 0..2, Live!onTurnTimeout(s) \/ Live!onSwitchTimeout(s)
  PROVE  LiveInv'
<1>1. CASE Live!onTurnTimeout(s)
  <2>1. clocks.turn = [calls |-> "onTurnTimeout", seat |-> s] /\ UNCHANGED <<bots, socks>>
    BY <1>1 DEF Live!onTurnTimeout
  <2>2. CASE stage = "play" /\ owes = s
    BY <1>1, <2>1, <2>2, MissedKeeps DEF Live!onTurnTimeout, Live!InMatch
  <2>3. CASE ~(stage = "play" /\ owes = s)
    <3>1. Live!InMatch => clocks.turn # Live!TimerFor(stage, owes)
      BY <2>1, <2>3 DEF Live!TimerFor, Live!InMatch
    <3> QED BY <1>1, <2>1, <2>3, <3>1, IgnoredKeeps DEF Live!onTurnTimeout
  <2> QED BY <2>2, <2>3
<1>2. CASE Live!onSwitchTimeout(s)
  <2>1. clocks.turn = [calls |-> "onSwitchTimeout", seat |-> s] /\ UNCHANGED <<bots, socks>>
    BY <1>2 DEF Live!onSwitchTimeout
  <2>2. CASE stage = "return" /\ owes = s
    BY <1>2, <2>1, <2>2, MissedKeeps DEF Live!onSwitchTimeout, Live!InMatch
  <2>3. CASE ~(stage = "return" /\ owes = s)
    <3>1. Live!InMatch => clocks.turn # Live!TimerFor(stage, owes)
      BY <2>1, <2>3 DEF Live!TimerFor, Live!InMatch
    <3> QED BY <1>2, <2>1, <2>3, <3>1, IgnoredKeeps DEF Live!onSwitchTimeout
  <2> QED BY <2>2, <2>3
<1> QED BY <1>1, <1>2

\* driveBot leaves the timer, takes the seat's action or asks for it.
LEMMA DriveKeeps ==
  ASSUME LiveInv, NEW s \in 0..2, NEW c \in Timers, c.gate = clocks.gate,
         c.turn = clocks.turn \/ (Live!InMatch /\ owes # s => clocks.turn # Live!TimerFor(stage, owes)),
         Live!driveBot(s, c), UNCHANGED <<bots, socks>>
  PROVE  LiveInv'
<1>1. CASE ~(Live!InMatch /\ owes = s)
  <2>1. /\ clocks' = c /\ asked' = asked
        /\ UNCHANGED <<bots, stage, owes, handNo, left, socks, abandon>>
    BY <1>1 DEF Live!driveBot, Live!play
  <2>2. Live!InMatch => Live!TurnIsWatched'
    <3> SUFFICES ASSUME Live!InMatch, ~c.gate.up
                 PROVE  \/ c.turn = Live!TimerFor(stage, owes)
                        \/ \E a \in asked : a.seat = owes /\ a.hand = handNo /\ a.fresh
      BY <2>1 DEF Live!TurnIsWatched, Live!TimerFor
    <3> QED BY <1>1, FiredFor
  <2> QED BY <2>1, <2>2, NothingOwedAnew DEF LiveInv
<1>2. CASE Live!InMatch /\ Live!Moves(c, asked) /\ UNCHANGED left
  <2>1. asked \in SUBSET Decisions
    BY DEF LiveInv
  <2> QED BY <1>2, <2>1, MovesWatch, AfterMove
<1>3. CASE /\ Live!InMatch /\ owes = s /\ stage = "play" /\ Live!Asks(s) /\ clocks' = c
           /\ UNCHANGED <<Live!play, left, abandon>>
  <2> PICK id \in Int : asked' = asked \cup {[id |-> id, seat |-> s, hand |-> handNo, fresh |-> TRUE]}
    BY <1>3 DEF Live!Asks
  <2> DEFINE a == [id |-> id, seat |-> s, hand |-> handNo, fresh |-> TRUE]
  <2>1. a \in Decisions /\ a.seat = owes /\ a.hand = handNo /\ a.fresh
    BY <1>3 DEF Decisions, LiveInv
  <2>2. UNCHANGED <<bots, stage, owes, handNo, left, socks, abandon>>
    BY <1>3 DEF Live!play
  <2>3. a \in asked' /\ asked' \in SUBSET Decisions
    BY <2>1 DEF LiveInv
  <2> HIDE DEF a
  <2>4. Live!TurnIsWatched'
    BY <2>1, <2>2, <2>3 DEF Live!TurnIsWatched
  <2> QED BY <1>3, <2>2, <2>3, <2>4, NothingOwedAnew
<1> QED BY <1>1, <1>2, <1>3 DEF Live!driveBot

LEMMA BotsKeep ==
  ASSUME LiveInv, NEW s \in 0..2, Live!botMoves(s) \/ Live!onBotWatchdog(s)
  PROVE  LiveInv'
<1>1. CASE Live!botMoves(s)
  <2> DEFINE c == [clocks EXCEPT !.bot = Live!NoSeat]
  <2>1. c \in Timers /\ c.gate = clocks.gate /\ c.turn = clocks.turn
    BY ClocksFrom DEF LiveInv, Timers, Live!NoSeat
  <2>2. Live!driveBot(s, c) /\ UNCHANGED <<bots, socks>>
    BY <1>1 DEF Live!botMoves
  <2> HIDE DEF c
  <2> QED BY <2>1, <2>2, DriveKeeps
<1>2. CASE Live!onBotWatchdog(s)
  <2>1. Live!InMatch /\ owes # s => clocks.turn # Live!TimerFor(stage, owes)
    BY <1>2 DEF Live!onBotWatchdog, Live!TimerFor
  <2>2. Live!driveBot(s, Live!Fired) /\ UNCHANGED <<bots, socks>>
    BY <1>2 DEF Live!onBotWatchdog
  <2> QED BY <2>1, <2>2, ClocksFrom, DriveKeeps
<1> QED BY <1>1, <1>2

LEMMA DecisionKeeps ==
  ASSUME LiveInv, NEW d \in asked, Live!applyDecidedBotMove(d)
  PROVE  LiveInv'
<1>1. UNCHANGED <<bots, left, socks>> /\ asked \ {d} \in SUBSET Decisions /\ clocks \in Timers
  BY DEF Live!applyDecidedBotMove, LiveInv
<1>2. CASE stage = "play" /\ Live!Moves(clocks, asked \ {d})
  <2>1. Live!InMatch
    BY <1>2 DEF Live!InMatch
  <2> QED BY <1>1, <1>2, <2>1, MovesWatch, AfterMove
<1>3. CASE /\ ~(stage = "play" /\ owes = d.seat /\ handNo = d.hand /\ d.fresh)
           /\ asked' = asked \ {d} /\ UNCHANGED <<Live!play, clocks, abandon>>
  <2>1. UNCHANGED <<stage, owes, handNo, clocks, abandon>>
    BY <1>3 DEF Live!play
  <2>2. Live!InMatch => /\ \A a \in asked' : a.fresh => stage = "play"
                        /\ Live!TurnIsWatched'
    BY <1>1, <1>3, <2>1 DEF LiveInv, Live!TurnIsWatched, Live!TimerFor, Live!InMatch
  <2> QED BY <1>1, <1>3, <2>1, <2>2, NothingOwedAnew
<1> QED BY <1>2, <1>3 DEF Live!applyDecidedBotMove

\* The gate that opens arms the timer of the seat that owes an action.
LEMMA GateKeeps ==
  ASSUME LiveInv, Live!armInterHandGate \/ \E s \in 0..2 : Live!onHandContinue(s)
  PROVE  LiveInv'
<1>1. UNCHANGED <<bots, stage, owes, handNo, left, asked, socks, abandon>>
  BY DEF Live!armInterHandGate, Live!onHandContinue, Live!play
<1>2. /\ Live!release(clocks) \in Timers
      /\ Live!release(clocks).turn = Live!TimerFor(stage, owes)
  BY Released DEF LiveInv
<1>3. CASE clocks' = Live!release(clocks)
  <2>1. Live!TurnIsWatched'
    BY <1>1, <1>2, <1>3 DEF Live!TurnIsWatched, Live!TimerFor
  <2> QED BY <1>1, <1>2, <1>3, <2>1, NothingOwedAnew DEF LiveInv
<1>4. CASE ~Live!InMatch /\ clocks' = [clocks EXCEPT !.gate = Live!NoGate]
  <2>1. clocks' \in Timers
    BY <1>4 DEF LiveInv, Timers, Live!NoGate
  <2> QED BY <1>1, <1>4, <2>1, NothingOwedAnew DEF LiveInv
<1>5. ASSUME NEW s \in 0..2, clocks.gate.up,
             clocks' = [clocks EXCEPT !.gate.ready = clocks.gate.ready \cup {s}]
      PROVE  LiveInv'
  <2>1. clocks' \in Timers /\ clocks'.gate.up
    BY <1>5 DEF LiveInv, Timers
  <2>2. Live!TurnIsWatched'
    BY <2>1 DEF Live!TurnIsWatched
  <2> QED BY <1>1, <2>1, <2>2, NothingOwedAnew DEF LiveInv
<1> QED BY <1>3, <1>4, <1>5 DEF Live!armInterHandGate, Live!onHandContinue

\* Who is there and how many sockets a seat has changes nothing in what is owed.
LEMMA SocketsKeep ==
  ASSUME LiveInv, NEW s \in 0..2, Live!InMatch, s \in Live!Present,
         UNCHANGED <<bots, stage, owes, handNo, left, clocks, asked>>,
         socks' \in [0..2 -> Int], \A r \in (0..2) \ {s} : socks'[r] = socks[r],
         abandon' = IF socks'[s] # 0 THEN abandon \ {s} ELSE IF bots = {} THEN abandon \cup {s} ELSE abandon
  PROVE  LiveInv'
<1>1. Live!TurnIsWatched' /\ (Live!InMatch' = Live!InMatch)
  BY DEF LiveInv, Live!TurnIsWatched, Live!TimerFor, Live!InMatch
<1>2. socks' \in [0..2 -> Int]
  OBVIOUS
<1>3. Live!OfflineIsTimed'
  <2> SUFFICES ASSUME bots = {}
               PROVE  abandon' = {r \in Live!Present' : socks'[r] = 0}
    BY DEF Live!OfflineIsTimed
  <2>1. abandon = {r \in Live!Present : socks[r] = 0} /\ Live!Present' = Live!Present
    BY DEF LiveInv, Live!OfflineIsTimed, Live!Present, Live!Seats
  <2>2. \A r \in Live!Present : socks'[r] = IF r = s THEN socks'[s] ELSE socks[r]
    BY DEF LiveInv, Live!Present, Live!Seats
  <2> QED BY <2>1, <2>2
<1>4. abandon' # {} => Live!InMatch' /\ bots' = {}
  BY <1>1 DEF LiveInv
<1> QED BY <1>1, <1>2, <1>3, <1>4 DEF LiveInv

\* The last socket of a player goes, or the player is back in time.
LEMMA ConnectionKeeps ==
  ASSUME LiveInv, NEW s \in 0..2, Live!onDisconnect(s) \/ Live!onConnection(s)
  PROVE  LiveInv'
<1>1. s \in Live!Present /\ Live!InMatch /\ UNCHANGED bots /\ socks \in [0..2 -> Int]
  BY DEF LiveInv, Live!onDisconnect, Live!onConnection
<1>2. CASE Live!onConnection(s)
  <2>1. UNCHANGED <<bots, stage, owes, handNo, left, clocks, asked>>
    BY <1>2 DEF Live!onConnection, Live!play
  <2>2. socks' = [socks EXCEPT ![s] = 1]
    BY <1>2 DEF Live!onConnection
  <2>3. /\ socks' \in [0..2 -> Int] /\ \A r \in (0..2) \ {s} : socks'[r] = socks[r]
        /\ socks'[s] = 1
    BY <1>1, <2>2
  <2>4. abandon' = IF socks'[s] # 0 THEN abandon \ {s} ELSE IF bots = {} THEN abandon \cup {s} ELSE abandon
    BY <1>2, <2>3 DEF Live!onConnection
  <2> QED BY <1>1, <2>1, <2>3, <2>4, SocketsKeep
<1>3. CASE Live!onDisconnect(s) /\ bots = {}
  <2>1. UNCHANGED <<bots, stage, owes, handNo, left, clocks, asked>>
    BY <1>3 DEF Live!onDisconnect, Live!play
  <2>2. socks' = [socks EXCEPT ![s] = 0]
    BY <1>3 DEF Live!onDisconnect
  <2>3. /\ socks' \in [0..2 -> Int] /\ \A r \in (0..2) \ {s} : socks'[r] = socks[r]
        /\ socks'[s] = 0
    BY <1>1, <2>2
  <2>4. abandon' = IF socks'[s] # 0 THEN abandon \ {s} ELSE IF bots = {} THEN abandon \cup {s} ELSE abandon
    BY <1>3, <2>3 DEF Live!onDisconnect
  <2> QED BY <1>1, <2>1, <2>3, <2>4, SocketsKeep
<1>4. CASE Live!onDisconnect(s) /\ bots # {}
  <2>1. /\ stage' = "closed" /\ UNCHANGED <<owes, handNo, asked, abandon>>
        /\ clocks' = [clocks EXCEPT !.bot = Live!NoSeat]
        /\ socks' = [socks EXCEPT ![s] = 0]
    BY <1>4 DEF Live!onDisconnect, Live!teardownBotRoom
  <2>2. clocks' \in Timers /\ socks' \in [0..2 -> Int]
    BY <1>1, <2>1, ClocksFrom DEF Live!NoSeat
  <2> QED BY <1>1, <1>4, <2>1, <2>2, AfterClose DEF LiveInv
<1> QED BY <1>2, <1>3, <1>4

\* A grace that is over, and a player who leaves, take the seat out.
LEMMA LeavesKeep ==
  ASSUME LiveInv, NEW s \in 0..2, Live!onAbandon(s) \/ Live!onLeave(s)
  PROVE  LiveInv'
<1>1. UNCHANGED <<bots, socks>> /\ clocks \in Timers /\ Live!InMatch
  BY DEF LiveInv, Live!onAbandon, Live!onLeave
<1>2. CASE Live!forfeitMatch(s, clocks)
  BY <1>1, <1>2, ForfeitWatches, AfterMove
<1>3. CASE /\ bots # {} /\ stage' = "closed" /\ UNCHANGED <<owes, handNo, asked, abandon>>
           /\ clocks' \in {Live!NoClocks}
                           \cup {[Live!NoClocks EXCEPT !.turn = Live!TimerFor("play", b)] : b \in bots}
  <2>1. Live!NoClocks \in Timers
    BY ClocksFrom
  <2>2. ASSUME NEW b \in bots PROVE Live!TimerFor("play", b) \in [calls : TimerCalls, seat : 0..3]
    BY DEF LiveInv, Live!TimerFor, TimerCalls
  <2>3. clocks' \in Timers
    BY <1>3, <2>1, <2>2 DEF Timers
  <2> QED BY <1>1, <1>3, <2>3, AfterClose DEF LiveInv
<1> QED BY <1>2, <1>3 DEF Live!onAbandon, Live!onLeave, Live!teardownBotRoom
-----------------------------------------------------------------------------
(* The run as a whole.                                                     *)

LEMMA LiveStep == LiveInv /\ [Live!Next]_liveVars => LiveInv'
<1> SUFFICES ASSUME LiveInv, [Live!Next]_liveVars PROVE LiveInv'
  OBVIOUS
<1>1. CASE UNCHANGED liveVars
  BY <1>1 DEF liveVars, LiveInv, Live!InMatch, Live!TurnIsWatched, Live!OfflineIsTimed,
              Live!TimerFor, Live!Present, Live!Seats
<1>2. CASE Live!Timeout \/ Live!BotMove
  BY <1>2, TurnTimeoutKeeps, BotsKeep DEF Live!Timeout, Live!BotMove, Live!Seats
<1>3. CASE Live!Decision
  BY <1>3, DecisionKeeps DEF Live!Decision
<1>4. CASE Live!armInterHandGate
  BY <1>4, GateKeeps
<1>5. ASSUME NEW s \in 0..2,
             \/ Live!afterAction(s) \/ Live!onHandContinue(s) \/ Live!onDisconnect(s)
             \/ Live!onConnection(s) \/ Live!onAbandon(s) \/ Live!onLeave(s)
      PROVE  LiveInv'
  <2>1. CASE Live!afterAction(s)
    <3>1. clocks \in Timers /\ asked \in SUBSET Decisions
      BY DEF LiveInv
    <3> QED BY <2>1, <3>1, MovesWatch, AfterMove DEF Live!afterAction
  <2> QED BY <1>5, <2>1, GateKeeps, ConnectionKeeps, LeavesKeep
<1> QED BY <1>1, <1>2, <1>3, <1>4, <1>5 DEF Live!Next, Live!Seats

LEMMA LiveInit == Live!Init => LiveInv
<1> SUFFICES ASSUME Live!Init PROVE LiveInv
  OBVIOUS
<1>1. /\ bots \in SUBSET (0..2) /\ owes \in 0..2 /\ stage = "play" /\ handNo = 0
      /\ asked = {} /\ abandon = {} /\ left = {}
      /\ socks = [s \in 0..2 |-> IF s \in bots THEN 0 ELSE 1]
      /\ clocks = Live!armTurnTimer(Live!NoClocks, "play", owes)
  BY BotsAssumption DEF Live!Init, Live!Seats
<1>2. Live!NoClocks \in Timers
  BY DEF Timers, Live!NoClocks, Live!NoTimer, Live!NoGate, Live!NoSeat, TimerCalls
<1>3. clocks \in Timers /\ clocks.turn = Live!TimerFor(stage, owes)
  BY <1>1, <1>2, TimerArmed
<1>4. socks \in [0..2 -> Int] /\ (bots = {} => \A s \in 0..2 : socks[s] = 1)
  BY <1>1
<1> QED BY <1>1, <1>3, <1>4 DEF LiveInv, Live!TurnIsWatched, Live!OfflineIsTimed, Live!Present,
                                Live!Seats

\* The parts share no state: the invariant of each holds whichever of them runs.
RealtimeInv == TrickInv /\ LiveInv /\ Teams!MatchInv

LEMMA RealtimeSteps ==
  RealtimeInv /\ [RealtimeNext]_realtimeVars =>
    [Next]_vars /\ [Live!Next]_liveVars /\ [Teams!Next]_(Teams!vars)
BY DEF RealtimeNext, realtimeVars, vars, liveVars, matchVars, Teams!vars

\* The inductive invariant, from which the theorems below follow.
LEMMA RealtimeInvariance == RealtimeSpec => []RealtimeInv
<1>1. RealtimeInit => RealtimeInv
  <2>1. Init => TrickInv
    BY DEF Init, TypeOK, TrickInv
  <2>2. Teams!Init => Teams!MatchInv
    BY SeatsAssumption, GoalAssumption, DealtAssumption, Teams!InitMatchInv
       DEF Teams!NAssumption, Teams!TypeAssumption, Teams!TargetAssumption
  <2> QED BY <2>1, <2>2, LiveInit DEF RealtimeInit, RealtimeInv
<1>2. RealtimeInv /\ [RealtimeNext]_realtimeVars => RealtimeInv'
  <2>1. Teams!MatchInv /\ [Teams!Next]_(Teams!vars) => Teams!MatchInv'
    BY SeatsAssumption, GoalAssumption, DealtAssumption, Teams!NextMatchInv
       DEF Teams!NAssumption, Teams!TypeAssumption, Teams!TargetAssumption
  <2> QED BY <2>1, RealtimeSteps, TrickStep, LiveStep DEF RealtimeInv
<1> QED BY <1>1, <1>2, PTL DEF RealtimeSpec

\* Trick: the pile is always a combination or empty.
THEOREM TrickTypeCorrect == RealtimeSpec => []TypeOK
<1>1. RealtimeInv => TypeOK
  BY DEF RealtimeInv, TrickInv
<1> QED BY <1>1, RealtimeInvariance, PTL

\* Trick, no cycle of answers: the strength of the pile only grows within a trick.
THEOREM TricksEscalate == RealtimeSpec => TrickEscalates
<1>1. RealtimeInv /\ RealtimeInv' /\ [RealtimeNext]_realtimeVars =>
        [pile # NoCombo /\ pile' # NoCombo => Strength(pile') > Strength(pile)]_vars
  BY RealtimeSteps, TrickGrows DEF RealtimeInv
<1> QED BY <1>1, RealtimeInvariance, PTL DEF RealtimeSpec, TrickEscalates

\* Trick: a set of five or more cards is a combination exactly when it is a run, for
\* every deck (RunsAreConsecutive, of the cards offered last).
THEOREM RunsAreFound == RealtimeSpec => []RunsAreConsecutive
<1>1. RealtimeInv => RunsAreConsecutive
  BY OfferedRuns DEF RealtimeInv
<1> QED BY <1>1, RealtimeInvariance, PTL

\* LiveMatch: for every number of strikes, hands and decisions under way, the seat
\* that owes an action is watched, and a player who is away, and no other, is on a grace.
THEOREM TablesAreWatched == RealtimeSpec => []NobodyHoldsTheTable
<1>1. RealtimeInv => NobodyHoldsTheTable
  BY DEF RealtimeInv, LiveInv, NobodyHoldsTheTable
<1> QED BY <1>1, RealtimeInvariance, PTL

\* Match, as part of the run: what MatchProofs shows of every match holds of this one.
THEOREM TeamsPlayOn == RealtimeSpec => []TeamsAreContested
<1>1. Teams!MatchInv => TeamsAreContested
  BY SeatsAssumption, GoalAssumption, DealtAssumption, Teams!ContestedIsSo, Teams!GoneIsSo,
     Teams!AddedIsSo
     DEF TeamsAreContested, Teams!NAssumption, Teams!TypeAssumption, Teams!TargetAssumption
<1>2. RealtimeInv => TeamsAreContested
  BY <1>1 DEF RealtimeInv
<1> QED BY <1>2, RealtimeInvariance, PTL
=============================================================================
