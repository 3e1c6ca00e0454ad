----------------------------- MODULE GameLemmas -----------------------------
(***************************************************************************)
(* What the proofs of a trick, a game and a match share: facts about the   *)
(* engine's orders and combinations, and about the places endGame hands    *)
(* out, for any order in which hands are emptied and players leave.  Every *)
(* seat has one place, and the quitters without a place of their own come  *)
(* behind all others, the first to leave last.                             *)
(***************************************************************************)
EXTENDS Engine, Places, FiniteSetTheorems, SequenceTheorems, TLAPS

-----------------------------------------------------------------------------
(* The engine.                                                             *)

\* Every rank and joker has a strength in POWER order.
LEMMA singlePowerType ==
  ASSUME NEW c \in Card
  PROVE  singlePower(c) \in 0..14
<1>1. CASE isJoker(c)
  <2>1. c \notin Standard
    BY <1>1 DEF isJoker, Standard, Rank, RANKS
  <2>2. c.suit \in JokerColor
    BY <2>1 DEF Card, Joker
  <2> QED BY <1>1, <2>2 DEF singlePower, JOKER_POWER, JokerColor
<1>2. CASE ~isJoker(c)
  <2>1. c.rank \in Rank
    BY <1>2 DEF Card, Standard, Joker, isJoker
  <2>2. PICK i \in 1..13 : RANKS[i] = c.rank
    BY <2>1 DEF Rank
  <2>3. (CHOOSE j \in 1..13 : RANKS[j] = c.rank) \in 1..13
    BY <2>2
  <2>4. POWER[c.rank] = (CHOOSE j \in 1..13 : RANKS[j] = c.rank) - 1
    BY <2>1 DEF POWER
  <2> QED BY <1>2, <2>3, <2>4 DEF singlePower
<1> QED BY <1>1, <1>2

\* The deck is finite.
LEMMA CardIsFinite == IsFiniteSet(Card)
<1> DEFINE R == Rank \cup {"joker"}
           S == Suit \cup JokerColor
           f == [p \in R \X S |-> [rank |-> p[1], suit |-> p[2]]]
           T == {f[p] : p \in R \X S}
<1>1. IsFiniteSet(R)
  <2>1. IsFiniteSet(1..13)
    <3>1. 1 \in Int /\ 13 \in Int
      OBVIOUS
    <3> QED BY <3>1, FS_Interval, Zenon
  <2>2. [i \in 1..13 |-> RANKS[i]] \in Surjection(1..13, Rank)
    BY DEF Surjection, Rank
  <2>3. IsFiniteSet(Rank)
    BY <2>1, <2>2, FS_Surjection DEF ExistsSurjection
  <2> QED BY <2>3, FS_Singleton, FS_Union
<1>2. IsFiniteSet(S)
  <2>1. IsFiniteSet(Suit) /\ IsFiniteSet(JokerColor)
    <3>1. /\ IsFiniteSet({"S"} \cup {"H"})
          /\ IsFiniteSet({"D"} \cup {"C"})
          /\ IsFiniteSet({"black"} \cup {"red"})
      BY FS_Singleton, FS_Union
    <3>2. Suit = ({"S"} \cup {"H"}) \cup ({"D"} \cup {"C"})
      BY DEF Suit
    <3>3. JokerColor = {"black"} \cup {"red"}
      BY DEF JokerColor
    <3> QED BY <3>1, <3>2, <3>3, FS_Union
  <2> QED BY <2>1, FS_Union
<1>3. IsFiniteSet(R \X S)
  BY <1>1, <1>2, FS_Product
<1>4. f \in Surjection(R \X S, T)
  BY DEF Surjection
<1>5. IsFiniteSet(T)
  <2> HIDE DEF R, S, f, T
  <2> QED BY <1>3, <1>4, FS_Surjection DEF ExistsSurjection
<1>6. Card \subseteq T
  <2> SUFFICES ASSUME NEW c \in Card PROVE c \in T
    OBVIOUS
  <2>1. c.rank \in R /\ c.suit \in S /\ c = [rank |-> c.rank, suit |-> c.suit]
    BY DEF Card, Standard, Joker
  <2>2. <<c.rank, c.suit>> \in R \X S /\ f[<<c.rank, c.suit>>] = c
    BY <2>1
  <2> QED BY <2>2
<1> QED BY <1>5, <1>6, FS_Subset

\* A set of places on the run line has a least one.
LEMMA LeastPlace ==
  ASSUME NEW T, \A x \in T : x \in 5..14, T # {}
  PROVE  \E t \in T : \A u \in T : t <= u
OBVIOUS

\* A run's top is a value of the run line.
LEMMA straightTopType ==
  ASSUME NEW cards \in SUBSET Card, straightTop(cards) # NoTop
  PROVE  straightTop(cards) \in 1..14
<1> DEFINE n == Cardinality(cards)
           aces == {c \in cards : c.rank = "A"}
           tops == {hi \in n..14 : \E ace \in [aces -> {1, 14}] :
                                     RunValues(cards, ace) = (hi - n + 1)..hi}
<1>1. n \in Nat
  BY CardIsFinite, FS_Subset, FS_CardinalityType
<1>2. /\ ~(n < 5 \/ (\E c \in cards : isJoker(c)) \/ tops = {})
      /\ straightTop(cards) = CHOOSE t \in tops : \A u \in tops : t <= u
  BY DEF straightTop
<1>3. tops \subseteq n..14
  OBVIOUS
<1> HIDE DEF tops, n
<1>4. (\A x \in tops : x \in 5..14) /\ tops # {}
  BY <1>1, <1>2, <1>3
<1>5. \E t \in tops : \A u \in tops : t <= u
  BY <1>4, LeastPlace
<1>6. straightTop(cards) \in tops
  BY <1>2, <1>5
<1> QED BY <1>4, <1>6

\* Whatever the engine identifies is a combination.
LEMMA identifyComboType ==
  ASSUME NEW cards \in SUBSET Card, cards # {}
  PROVE  identifyCombo(cards) \in Combo \cup {NoCombo}
<1> DEFINE n == Cardinality(cards)
           power == singlePower(CHOOSE c \in cards : TRUE)
<1>1. n \in Nat /\ n # 0
  BY CardIsFinite, FS_Subset, FS_CardinalityType, FS_EmptySet
<1>2. power \in 0..14
  <2>1. (CHOOSE c \in cards : TRUE) \in Card
    OBVIOUS
  <2> QED BY <2>1, singlePowerType
<1>3. CASE n = 1
  BY <1>2, <1>3 DEF identifyCombo, Combo, ComboType
<1>4. CASE n \in 2..4
  BY <1>1, <1>2, <1>4 DEF identifyCombo, Combo, ComboType, GroupType
<1>5. CASE n \notin 0..4
  <2>1. CASE straightTop(cards) = NoTop
    BY <1>1, <1>5, <2>1 DEF identifyCombo
  <2>2. CASE straightTop(cards) # NoTop
    BY <1>1, <1>5, <2>2, straightTopType DEF identifyCombo, Combo, ComboType
  <2> QED BY <2>1, <2>2
<1> QED BY <1>1, <1>3, <1>4, <1>5

\* Any single card may be led.
LEMMA singleLeads ==
  ASSUME NEW c \in Card
  PROVE  validatePlay({c}, NoCombo)
<1>1. Cardinality({c}) = 1
  BY FS_Singleton
<1> QED BY <1>1 DEF validatePlay, identifyCombo, NoCombo

-----------------------------------------------------------------------------
(* Places.                                                                 *)

\* The finishing order endGame builds lists seats: the quitters behind the rest.
LEMMA FinalOrderType ==
  ASSUME NEW order \in Seq(Seats), NEW holding \in SUBSET Seats, NEW gn \in Seq(Seats)
  PROVE  /\ FinalOrder(order, holding, gn) \in Seq(Seats)
         /\ Stayers(holding, gn) \in Seq(Seats)
         /\ Quitters(order \o Stayers(holding, gn), gn) \in Seq(Seats)
<1>1. \A s : s \in Seats => <<s>> \in Seq(Seats)
  OBVIOUS
<1>2. <<>> \in Seq(Seats)
  OBVIOUS
<1>3. \A s : Only(s, s \in holding /\ s \notin Members(gn)) \in Seq(Seats)
  BY <1>1, <1>2 DEF Only
<1>4. \A p, q \in Seq(Seats) : p \o q \in Seq(Seats)
  OBVIOUS
<1>5. Stayers(holding, gn) \in Seq(Seats)
  BY <1>3, <1>4 DEF Stayers
<1> DEFINE placed == order \o Stayers(holding, gn)
           q(i) == IF i <= Len(gn) THEN Only(gn[i], gn[i] \notin Members(placed)) ELSE <<>>
<1>6. \A i \in 1..4 : q(i) \in Seq(Seats)
  <2> SUFFICES ASSUME NEW i \in 1..4 PROVE q(i) \in Seq(Seats)
    OBVIOUS
  <2>1. CASE i <= Len(gn)
    <3>1. gn[i] \in Seats
      BY <2>1
    <3> QED BY <1>1, <1>2, <2>1, <3>1 DEF Only
  <2>2. CASE ~(i <= Len(gn))
    BY <1>2, <2>2
  <2> QED BY <2>1, <2>2
<1>7. Quitters(placed, gn) \in Seq(Seats)
  <2>1. Quitters(placed, gn) = q(4) \o q(3) \o q(2) \o q(1)
    BY DEF Quitters
  <2> HIDE DEF q
  <2> QED BY <1>4, <1>6, <2>1
<1> QED BY <1>4, <1>5, <1>7 DEF FinalOrder

\* Adding a seat to a list of seats.
LEMMA MembersAppend ==
  ASSUME NEW seq \in Seq(Seats), NEW s \in Seats
  PROVE  /\ Append(seq, s) \in Seq(Seats)
         /\ Members(Append(seq, s)) = Members(seq) \cup {s}
<1> DEFINE app == Append(seq, s)
<1>1. /\ app \in Seq(Seats)
      /\ Len(app) = Len(seq) + 1
      /\ \A i \in 1..Len(seq) : app[i] = seq[i]
      /\ app[Len(seq) + 1] = s
  BY AppendProperties
<1>2. Len(seq) \in Nat
  OBVIOUS
<1> HIDE DEF app
<1>3. Members(app) \subseteq Members(seq) \cup {s}
  <2> SUFFICES ASSUME NEW i \in 1..Len(app) PROVE app[i] \in Members(seq) \cup {s}
    BY DEF Members
  <2> QED BY <1>1, <1>2 DEF Members
<1>4. \A i \in 1..Len(seq) : app[i] = seq[i] /\ i \in 1..Len(app)
  BY <1>1, <1>2
<1>5. Len(seq) + 1 \in 1..Len(app)
  BY <1>1, <1>2
<1>6. Members(seq) \cup {s} \subseteq Members(app)
  BY <1>1, <1>4, <1>5 DEF Members
<1> QED BY <1>1, <1>3, <1>6 DEF app

-----------------------------------------------------------------------------
(* Rankings.                                                               *)

Before(gn, s, t) == \E i, j \in 1..Len(gn) : i < j /\ gn[i] = s /\ gn[j] = t
Distinct(seq) == \A i, j \in 1..Len(seq) : i < j => seq[i] # seq[j]

\* May b be placed behind a, when the quitters Q left in the order gn?
Behind(a, b, Q, gn) == a # b /\ (a \in Q => b \in Q /\ Before(gn, b, a))

Ranked(seq, Q, gn) == \A i, j \in 1..Len(seq) : i < j => Behind(seq[i], seq[j], Q, gn)

\* Adding a new seat repeats none.
LEMMA DistinctAppend ==
  ASSUME NEW seq \in Seq(Seats), NEW s \in Seats, Distinct(seq), s \notin Members(seq)
  PROVE  Distinct(Append(seq, s))
<1> DEFINE app == Append(seq, s)
<1>1. /\ Len(app) = Len(seq) + 1
      /\ \A i \in 1..Len(seq) : app[i] = seq[i]
      /\ app[Len(seq) + 1] = s
  BY AppendProperties
<1>2. Len(seq) \in Nat /\ \A i \in 1..Len(seq) : seq[i] # s
  BY DEF Members
<1> HIDE DEF app
<1>3. ASSUME NEW i \in 1..Len(app), NEW j \in 1..Len(app), i < j PROVE app[i] # app[j]
  <2>1. i \in 1..Len(seq) /\ (j \in 1..Len(seq) \/ j = Len(seq) + 1)
    BY <1>1, <1>2, <1>3
  <2> QED BY <1>1, <1>2, <1>3, <2>1 DEF Distinct
<1> QED BY <1>3 DEF Distinct, app

\* Putting one ranking behind another.
LEMMA RankedConcat ==
  ASSUME NEW p \in Seq(Seats), NEW q \in Seq(Seats), NEW Q, NEW gn,
         Ranked(p, Q, gn), Ranked(q, Q, gn),
         \A a \in Members(p), b \in Members(q) : Behind(a, b, Q, gn)
  PROVE  /\ p \o q \in Seq(Seats)
         /\ Ranked(p \o q, Q, gn)
         /\ Members(p \o q) = Members(p) \cup Members(q)
<1> DEFINE r == p \o q
<1>1. /\ r \in Seq(Seats)
      /\ Len(r) = Len(p) + Len(q)
      /\ \A i \in 1..Len(p) : r[i] = p[i]
      /\ \A i \in 1..Len(r) : i > Len(p) => r[i] = q[i - Len(p)] /\ i - Len(p) \in 1..Len(q)
      /\ \A i \in 1..Len(q) : r[i + Len(p)] = q[i]
  BY ConcatProperties
<1>2. Len(p) \in Nat /\ Len(q) \in Nat
  OBVIOUS
<1> HIDE DEF r
<1>3. ASSUME NEW i \in 1..Len(r), NEW j \in 1..Len(r), i < j PROVE Behind(r[i], r[j], Q, gn)
  <2>1. CASE j <= Len(p)
    <3>1. i \in 1..Len(p) /\ j \in 1..Len(p)
      BY <1>2, <1>3, <2>1
    <3> QED BY <1>1, <1>3, <3>1 DEF Ranked
  <2>2. CASE i > Len(p)
    <3>1. i - Len(p) < j - Len(p) /\ j > Len(p)
      BY <1>2, <1>3, <2>2
    <3> QED BY <1>1, <1>3, <2>2, <3>1 DEF Ranked
  <2>3. CASE i <= Len(p) /\ j > Len(p)
    <3>1. i \in 1..Len(p)
      BY <1>2, <2>3
    <3>2. r[i] \in Members(p) /\ r[j] \in Members(q)
      BY <1>1, <2>3, <3>1 DEF Members
    <3> QED BY <3>2
  <2> QED BY <1>2, <2>1, <2>2, <2>3
<1>4. Ranked(r, Q, gn)
  BY <1>3 DEF Ranked
<1>5. Members(r) \subseteq Members(p) \cup Members(q)
  <2> SUFFICES ASSUME NEW i \in 1..Len(r) PROVE r[i] \in Members(p) \cup Members(q)
    BY DEF Members
  <2>1. CASE i \in 1..Len(p)
    BY <1>1, <2>1 DEF Members
  <2>2. CASE i > Len(p)
    BY <1>1, <2>2 DEF Members
  <2> QED BY <1>2, <2>1, <2>2
<1>6. Members(p) \subseteq Members(r)
  <2>1. \A i \in 1..Len(p) : i \in 1..Len(r) /\ r[i] = p[i]
    BY <1>1, <1>2
  <2> QED BY <2>1 DEF Members
<1>7. Members(q) \subseteq Members(r)
  <2>1. \A i \in 1..Len(q) : i + Len(p) \in 1..Len(r) /\ r[i + Len(p)] = q[i]
    BY <1>1, <1>2
  <2> QED BY <2>1 DEF Members
<1> QED BY <1>1, <1>4, <1>5, <1>6, <1>7 DEF r

\* Four rankings, one behind the other.
LEMMA RankedFour ==
  ASSUME NEW p \in Seq(Seats), NEW q \in Seq(Seats), NEW r \in Seq(Seats), NEW t \in Seq(Seats),
         NEW Q, NEW gn,
         Ranked(p, Q, gn), Ranked(q, Q, gn), Ranked(r, Q, gn), Ranked(t, Q, gn),
         \A a \in Members(p), b \in Members(q) \cup Members(r) \cup Members(t) : Behind(a, b, Q, gn),
         \A a \in Members(q), b \in Members(r) \cup Members(t) : Behind(a, b, Q, gn),
         \A a \in Members(r), b \in Members(t) : Behind(a, b, Q, gn)
  PROVE  /\ p \o q \o r \o t \in Seq(Seats)
         /\ Ranked(p \o q \o r \o t, Q, gn)
         /\ Members(p \o q \o r \o t) = Members(p) \cup Members(q) \cup Members(r) \cup Members(t)
<1> DEFINE pq == p \o q
           pqr == pq \o r
<1>1. pq \in Seq(Seats) /\ Ranked(pq, Q, gn) /\ Members(pq) = Members(p) \cup Members(q)
  BY RankedConcat
<1> HIDE DEF pq
<1>2. \A a \in Members(pq), b \in Members(r) : Behind(a, b, Q, gn)
  BY <1>1
<1>3. pqr \in Seq(Seats) /\ Ranked(pqr, Q, gn) /\ Members(pqr) = Members(pq) \cup Members(r)
  BY <1>1, <1>2, RankedConcat
<1> HIDE DEF pqr
<1>4. \A a \in Members(pqr), b \in Members(t) : Behind(a, b, Q, gn)
  BY <1>1, <1>3
<1>5. /\ pqr \o t \in Seq(Seats)
      /\ Ranked(pqr \o t, Q, gn)
      /\ Members(pqr \o t) = Members(pqr) \cup Members(t)
  BY <1>3, <1>4, RankedConcat
<1> QED BY <1>1, <1>3, <1>5, Zenon DEF pq, pqr

\* A ranking of at most one seat.
LEMMA RankedOnly ==
  ASSUME NEW s, NEW cond \in BOOLEAN, NEW Q, NEW gn, cond => s \in Seats
  PROVE  /\ Only(s, cond) \in Seq(Seats)
         /\ Ranked(Only(s, cond), Q, gn)
         /\ Members(Only(s, cond)) = IF cond THEN {s} ELSE {}
<1>1. CASE cond
  <2>1. Only(s, cond) = <<s>>
    BY <1>1 DEF Only
  <2>2. <<s>> \in Seq(Seats) /\ Len(<<s>>) = 1 /\ <<s>>[1] = s
    BY <1>1
  <2>3. Ranked(<<s>>, Q, gn)
    BY <2>2 DEF Ranked
  <2>4. Members(<<s>>) = {s}
    BY <2>2 DEF Members
  <2> QED BY <1>1, <2>1, <2>2, <2>3, <2>4
<1>2. CASE ~cond
  <2>1. Only(s, cond) = <<>>
    BY <1>2 DEF Only
  <2> QED BY <1>2, <2>1 DEF Ranked, Members
<1> QED BY <1>1, <1>2

\* No more than four seats have different names.
LEMMA AtMostFour ==
  ASSUME NEW seq \in Seq(Seats), Distinct(seq)
  PROVE  Len(seq) <= 4
<1> SUFFICES ASSUME Len(seq) > 4 PROVE FALSE
  OBVIOUS
<1>1. Len(seq) \in Nat /\ \A i \in 1..Len(seq) : seq[i] \in 0..3
  BY SMTT(30), NAssumption DEF Seats
<1>2. \A i \in 1..5 : i \in 1..Len(seq)
  BY <1>1
<1>3. /\ seq[1] \in 0..3 /\ seq[2] \in 0..3 /\ seq[3] \in 0..3 /\ seq[4] \in 0..3
      /\ seq[5] \in 0..3
  BY <1>1, <1>2
<1>4. \A i, j \in 1..5 : i < j => seq[i] # seq[j]
  BY <1>2 DEF Distinct
<1>5. /\ seq[1] # seq[2] /\ seq[1] # seq[3] /\ seq[1] # seq[4] /\ seq[1] # seq[5]
      /\ seq[2] # seq[3] /\ seq[2] # seq[4] /\ seq[2] # seq[5]
      /\ seq[3] # seq[4] /\ seq[3] # seq[5] /\ seq[4] # seq[5]
  BY <1>4
<1> QED BY <1>3, <1>5

\* An order of all the seats without repetition has N places.
LEMMA AllPlaces ==
  ASSUME NEW seq \in Seq(Seats), Distinct(seq), Members(seq) = Seats
  PROVE  Len(seq) = N
<1>1. Len(seq) \in 0..4
  <2>1. Len(seq) <= 4
    BY AtMostFour
  <2>2. Len(seq) \in Nat
    OBVIOUS
  <2>3. \A n \in Nat : n <= 4 => n \in 0..4
    OBVIOUS
  <2> QED BY <2>1, <2>2, <2>3, Zenon
<1>2. \A s \in Seats : \E i \in 1..Len(seq) : seq[i] = s
  BY DEF Members
<1>3. \A i \in 1..Len(seq) : seq[i] \in Seats
  OBVIOUS
<1>4. CASE N = 2
  <2>1. CASE Len(seq) \in 3..4
    <3>1. seq[1] \in 0..1 /\ seq[2] \in 0..1 /\ seq[3] \in 0..1
      BY <1>3, <1>4, <2>1 DEF Seats
    <3>2. seq[1] # seq[2] /\ seq[1] # seq[3] /\ seq[2] # seq[3]
      BY <2>1 DEF Distinct
    <3> QED BY <3>1, <3>2
  <2>2. CASE Len(seq) \in 0..1
    <3> DEFINE n == Len(seq)
    <3>1. \A i \in 1..n : i = 1
      <4>1. n \in 0..1
        BY <2>2
      <4> HIDE DEF n
      <4> QED BY <4>1
    <3>2. \A s \in Seats : s = seq[1]
      BY <1>2, <3>1
    <3>3. 0 \in Seats /\ 1 \in Seats
      BY <1>4 DEF Seats
    <3> QED BY <3>2, <3>3
  <2> QED BY <1>1, <1>4, <2>1, <2>2
<1>5. CASE N = 3
  <2>1. CASE Len(seq) = 4
    <3>1. /\ seq[1] \in 0..2 /\ seq[2] \in 0..2 /\ seq[3] \in 0..2 /\ seq[4] \in 0..2
      BY <1>3, <1>5, <2>1 DEF Seats
    <3>2. /\ seq[1] # seq[2] /\ seq[1] # seq[3] /\ seq[1] # seq[4]
          /\ seq[2] # seq[3] /\ seq[2] # seq[4] /\ seq[3] # seq[4]
      BY <2>1 DEF Distinct
    <3> QED BY <3>1, <3>2
  <2>2. CASE Len(seq) \in 0..2
    <3> DEFINE n == Len(seq)
    <3>1. \A i \in 1..n : i = 1 \/ i = 2
      <4>1. n \in 0..2
        BY <2>2
      <4> HIDE DEF n
      <4> QED BY <4>1
    <3>2. \A s \in Seats : s = seq[1] \/ s = seq[2]
      BY <1>2, <3>1
    <3>3. 0 \in Seats /\ 1 \in Seats /\ 2 \in Seats
      BY <1>5 DEF Seats
    <3> QED BY <3>2, <3>3
  <2> QED BY <1>1, <1>5, <2>1, <2>2
<1>6. CASE N = 4
  <2>1. CASE Len(seq) \in 0..3
    <3> DEFINE n == Len(seq)
    <3>1. \A i \in 1..n : i = 1 \/ i = 2 \/ i = 3
      <4>1. n \in 0..3
        BY <2>1
      <4> HIDE DEF n
      <4> QED BY <4>1
    <3>2. \A s \in Seats : s = seq[1] \/ s = seq[2] \/ s = seq[3]
      BY <1>2, <3>1
    <3>3. 0 \in Seats /\ 1 \in Seats /\ 2 \in Seats /\ 3 \in Seats
      BY <1>6 DEF Seats
    <3> QED BY <3>2, <3>3
  <2> QED BY <1>1, <1>6, <2>1
<1> QED BY <1>4, <1>5, <1>6, NAssumption

\* The order endGame builds: all seats, each once, the quitters without a place
\* behind everybody else, the first of them to leave at the bottom.
LEMMA FinalOrderRanks ==
  ASSUME NEW order \in Seq(Seats), NEW act \in SUBSET Seats, NEW gn \in Seq(Seats),
         Distinct(order), Distinct(gn),
         act \cap Members(gn) = {}, act \cap Members(order) = {},
         Members(order) \cup act \cup Members(gn) = Seats
  PROVE  /\ FinalOrder(order, act, gn) \in Seq(Seats)
         /\ Ranked(FinalOrder(order, act, gn), Members(gn) \ Members(order), gn)
         /\ Members(FinalOrder(order, act, gn)) = Seats
<1> DEFINE Q == Members(gn) \ Members(order)
           st(s) == Only(s, s \in act /\ s \notin Members(gn))
           placed == order \o Stayers(act, gn)
           q(i) == IF i <= Len(gn) THEN Only(gn[i], gn[i] \notin Members(placed)) ELSE <<>>
<1> HIDE DEF Q
<1>1. \A s \in 0..3 : /\ st(s) \in Seq(Seats)
                       /\ Ranked(st(s), Q, gn)
                       /\ Members(st(s)) = {s} \cap act
  <2> SUFFICES ASSUME NEW s \in 0..3
               PROVE  st(s) \in Seq(Seats) /\ Ranked(st(s), Q, gn) /\ Members(st(s)) = {s} \cap act
    OBVIOUS
  <2> DEFINE c == s \in act /\ s \notin Members(gn)
  <2>1. c \in BOOLEAN /\ (c => s \in Seats) /\ (c <=> s \in act)
    OBVIOUS
  <2> HIDE DEF c
  <2>2. /\ Only(s, c) \in Seq(Seats) /\ Ranked(Only(s, c), Q, gn)
        /\ Members(Only(s, c)) = IF c THEN {s} ELSE {}
    BY <2>1, RankedOnly
  <2>3. Members(Only(s, c)) = {s} \cap act
    BY <2>1, <2>2
  <2> QED BY <2>2, <2>3 DEF c
<1>2. \A a \in act : a \notin Q
  BY DEF Q
<1>3. \A a, b : a \notin Q /\ a # b => Behind(a, b, Q, gn)
  BY DEF Behind
<1>4. /\ Stayers(act, gn) \in Seq(Seats)
      /\ Ranked(Stayers(act, gn), Q, gn)
      /\ Members(Stayers(act, gn)) = act
  <2> HIDE DEF st
  <2>1. \A a \in act : a \in 0..3
    BY NAssumption DEF Seats
  <2>2. /\ st(0) \in Seq(Seats) /\ Ranked(st(0), Q, gn) /\ Members(st(0)) = {0} \cap act
        /\ st(1) \in Seq(Seats) /\ Ranked(st(1), Q, gn) /\ Members(st(1)) = {1} \cap act
        /\ st(2) \in Seq(Seats) /\ Ranked(st(2), Q, gn) /\ Members(st(2)) = {2} \cap act
        /\ st(3) \in Seq(Seats) /\ Ranked(st(3), Q, gn) /\ Members(st(3)) = {3} \cap act
    BY <1>1
  <2>3. \A i, j \in 0..3 : i # j => \A a \in {i} \cap act, b \in {j} \cap act : Behind(a, b, Q, gn)
    BY <1>2, <1>3
  <2>4. /\ st(0) \o st(1) \o st(2) \o st(3) \in Seq(Seats)
        /\ Ranked(st(0) \o st(1) \o st(2) \o st(3), Q, gn)
        /\ Members(st(0) \o st(1) \o st(2) \o st(3)) = {0, 1, 2, 3} \cap act
    <3>1. \A a \in Members(st(0)), b \in Members(st(1)) \cup Members(st(2)) \cup Members(st(3)) :
            Behind(a, b, Q, gn)
      BY <2>2, <2>3
    <3>2. \A a \in Members(st(1)), b \in Members(st(2)) \cup Members(st(3)) : Behind(a, b, Q, gn)
      BY <2>2, <2>3
    <3>3. \A a \in Members(st(2)), b \in Members(st(3)) : Behind(a, b, Q, gn)
      BY <2>2, <2>3
    <3>4. /\ st(0) \o st(1) \o st(2) \o st(3) \in Seq(Seats)
          /\ Ranked(st(0) \o st(1) \o st(2) \o st(3), Q, gn)
          /\ Members(st(0) \o st(1) \o st(2) \o st(3)) =
                Members(st(0)) \cup Members(st(1)) \cup Members(st(2)) \cup Members(st(3))
      BY <2>2, <3>1, <3>2, <3>3, RankedFour, SMTT(60)
    <3>5. Members(st(0)) \cup Members(st(1)) \cup Members(st(2)) \cup Members(st(3))
            = {0, 1, 2, 3} \cap act
      BY <2>2
    <3> QED BY <3>4, <3>5, Zenon
  <2>5. Stayers(act, gn) = st(0) \o st(1) \o st(2) \o st(3)
    BY DEF Stayers, st
  <2>6. {0, 1, 2, 3} \cap act = act
    BY <2>1
  <2> QED BY <2>4, <2>5, <2>6
<1>5. /\ placed \in Seq(Seats)
      /\ Ranked(placed, Q, gn)
      /\ Members(placed) = Members(order) \cup act
  <2>1. \A a \in Members(order) : a \notin Q
    BY DEF Q
  <2>2. Ranked(order, Q, gn)
    <3>1. \A i \in 1..Len(order) : order[i] \in Members(order)
      BY DEF Members
    <3> QED BY <1>3, <2>1, <3>1 DEF Ranked, Distinct
  <2>3. \A a \in Members(order), b \in Members(Stayers(act, gn)) : Behind(a, b, Q, gn)
    BY <1>3, <1>4, <2>1
  <2> QED BY <1>4, <2>2, <2>3, RankedConcat
<1> HIDE DEF placed
<1>6. Len(gn) \in Nat /\ Len(gn) <= 4
  BY AtMostFour
<1> DEFINE left(i) == IF i <= Len(gn) THEN {gn[i]} \ Members(placed) ELSE {}
<1>7. \A i \in 1..4 : q(i) \in Seq(Seats) /\ Ranked(q(i), Q, gn) /\ Members(q(i)) = left(i)
  <2> SUFFICES ASSUME NEW i \in 1..4
               PROVE  q(i) \in Seq(Seats) /\ Ranked(q(i), Q, gn) /\ Members(q(i)) = left(i)
    OBVIOUS
  <2>1. CASE i <= Len(gn)
    <3> DEFINE c == gn[i] \notin Members(placed)
    <3>1. c \in BOOLEAN /\ gn[i] \in Seats
      BY <1>6, <2>1
    <3> HIDE DEF c
    <3>2. /\ Only(gn[i], c) \in Seq(Seats) /\ Ranked(Only(gn[i], c), Q, gn)
          /\ Members(Only(gn[i], c)) = IF c THEN {gn[i]} ELSE {}
      BY <3>1, RankedOnly
    <3>3. q(i) = Only(gn[i], c) /\ left(i) = IF c THEN {gn[i]} ELSE {}
      BY <2>1 DEF c
    <3> HIDE DEF q, left
    <3> QED BY <3>2, <3>3
  <2>2. CASE ~(i <= Len(gn))
    <3>1. q(i) = <<>> /\ left(i) = {}
      BY <2>2
    <3>2. <<>> \in Seq(Seats) /\ Ranked(<<>>, Q, gn) /\ Members(<<>>) = {}
      BY DEF Ranked, Members
    <3> HIDE DEF q, left
    <3> QED BY <3>1, <3>2
  <2> QED BY <2>1, <2>2
<1>8. \A i, j \in 1..4 : i < j => \A a \in left(j), b \in left(i) : Behind(a, b, Q, gn)
  <2> SUFFICES ASSUME NEW i \in 1..4, NEW j \in 1..4, i < j, NEW a \in left(j), NEW b \in left(i)
               PROVE  Behind(a, b, Q, gn)
    OBVIOUS
  <2>1. /\ i \in 1..Len(gn) /\ j \in 1..Len(gn)
        /\ a = gn[j] /\ b = gn[i] /\ b \notin Members(placed)
    BY <1>6
  <2>2. b \in Q
    BY <1>5, <2>1 DEF Members, Q
  <2>3. Before(gn, b, a)
    BY <2>1 DEF Before
  <2>4. a # b
    BY <2>1 DEF Distinct
  <2> QED BY <2>2, <2>3, <2>4 DEF Behind
<1> HIDE DEF q
<1>9. /\ Quitters(placed, gn) \in Seq(Seats)
      /\ Ranked(Quitters(placed, gn), Q, gn)
      /\ Members(Quitters(placed, gn)) = left(4) \cup left(3) \cup left(2) \cup left(1)
  <2> HIDE DEF left
  <2>1. /\ q(4) \in Seq(Seats) /\ Ranked(q(4), Q, gn) /\ Members(q(4)) = left(4)
        /\ q(3) \in Seq(Seats) /\ Ranked(q(3), Q, gn) /\ Members(q(3)) = left(3)
        /\ q(2) \in Seq(Seats) /\ Ranked(q(2), Q, gn) /\ Members(q(2)) = left(2)
        /\ q(1) \in Seq(Seats) /\ Ranked(q(1), Q, gn) /\ Members(q(1)) = left(1)
    BY <1>7
  <2>2. \A a \in Members(q(4)), b \in Members(q(3)) \cup Members(q(2)) \cup Members(q(1)) :
          Behind(a, b, Q, gn)
    BY <1>8, <2>1
  <2>3. \A a \in Members(q(3)), b \in Members(q(2)) \cup Members(q(1)) : Behind(a, b, Q, gn)
    BY <1>8, <2>1
  <2>4. \A a \in Members(q(2)), b \in Members(q(1)) : Behind(a, b, Q, gn)
    BY <1>8, <2>1
  <2>5. Quitters(placed, gn) = q(4) \o q(3) \o q(2) \o q(1)
    BY DEF Quitters, q
  <2>6. /\ q(4) \o q(3) \o q(2) \o q(1) \in Seq(Seats)
        /\ Ranked(q(4) \o q(3) \o q(2) \o q(1), Q, gn)
        /\ Members(q(4) \o q(3) \o q(2) \o q(1)) =
              Members(q(4)) \cup Members(q(3)) \cup Members(q(2)) \cup Members(q(1))
    BY <2>1, <2>2, <2>3, <2>4, RankedFour, SMTT(60)
  <2> QED BY <2>1, <2>5, <2>6, Zenon
<1>10. Members(Quitters(placed, gn)) = Members(gn) \ Members(placed)
  <2>1. \A x \in Members(gn) : \E i \in 1..4 : i <= Len(gn) /\ x = gn[i]
    BY <1>6 DEF Members
  <2>2. \A i \in 1..4 : i <= Len(gn) => gn[i] \in Members(gn)
    BY <1>6 DEF Members
  <2> QED BY <1>9, <2>1, <2>2
<1>11. \A a \in Members(placed), b \in Members(Quitters(placed, gn)) : Behind(a, b, Q, gn)
  BY <1>3, <1>5, <1>10 DEF Q
<1>12. FinalOrder(order, act, gn) = placed \o Quitters(placed, gn)
  BY DEF FinalOrder, placed
<1>13. /\ placed \o Quitters(placed, gn) \in Seq(Seats)
       /\ Ranked(placed \o Quitters(placed, gn), Q, gn)
       /\ Members(placed \o Quitters(placed, gn)) = Members(placed) \cup Members(Quitters(placed, gn))
  BY <1>5, <1>9, <1>11, RankedConcat, Zenon
<1>14. Members(placed) \cup (Members(gn) \ Members(placed)) = Seats
  BY <1>5
<1> QED BY <1>10, <1>12, <1>13, <1>14, Zenon DEF Q
=============================================================================
