---------------------------- MODULE MoneyProofs ----------------------------
(***************************************************************************)
(* Proofs about MoneyService for any users, matches, stakes, rake and      *)
(* number of players: a pot is paid out once and exactly, provided one     *)
(* server process runs.                                                    *)
(***************************************************************************)
EXTENDS MoneyService, TLAPS

-----------------------------------------------------------------------------
(* The arithmetic of a settlement.                                         *)

\* Summing a natural number per seat gives a natural number.
LEMMA TotalNat == ASSUME NEW D \in SUBSET (0..3), NEW f \in [D -> Nat]
                  PROVE  Total(f) \in Nat
  <1>1. \A k \in 0..3 : At(f, k) \in Nat  BY DEF At
  <1>2. QED  BY <1>1 DEF Total

\* The number of seats in a set is between 0 and 4, and positive when there is one.
LEMMA SizeOfRange == ASSUME NEW D \in SUBSET (0..3)
                     PROVE  SizeOf(D) \in 0..4 /\ (D # {} => SizeOf(D) > 0)
  <1> DEFINE f == [s \in D |-> 1]
  <1>1. \A k \in 0..3 : At(f, k) = IF k \in D THEN 1 ELSE 0  BY DEF At
  <1>2. D # {} => \E k \in 0..3 : k \in D  OBVIOUS
  <1>3. QED  BY <1>1, <1>2 DEF SizeOf, Total

\* The same amount for every seat of a set adds up to the amount times its size.
LEMMA TotalConstant == ASSUME NEW D \in SUBSET (0..3), NEW x \in Nat
                       PROVE  Total([s \in D |-> x]) = x * SizeOf(D)
  <1> DEFINE f == [s \in D |-> x]
             g == [s \in D |-> 1]
  <1>1. \A k \in 0..3 : At(f, k) = x * At(g, k) /\ At(g, k) \in 0..1  BY DEF At
  <1> HIDE DEF f, g
  <1>2. x * (At(g, 0) + At(g, 1) + At(g, 2) + At(g, 3))
          = x * At(g, 0) + x * At(g, 1) + x * At(g, 2) + x * At(g, 3)  BY <1>1
  <1>3. Total(f) = x * (At(g, 0) + At(g, 1) + At(g, 2) + At(g, 3))  BY <1>1, <1>2 DEF Total
  <1>4. QED  BY <1>3 DEF Total, SizeOf, f, g

\* The house's share of a pot is between nothing and the pot.
LEMMA RakeRange == ASSUME NEW pot \in Nat
                   PROVE  (pot * RakeBps) \div 10000 \in 0..pot
  <1>1. RakeBps \in 0..10000  BY RakeAssumption
  <1>2. pot * RakeBps \in Nat /\ pot * RakeBps <= pot * 10000  BY <1>1
  <1>3. QED  BY <1>2

\* Splitting an amount evenly leaves fewer odd cents than there are winners.
LEMMA OddCents == ASSUME NEW take \in Nat, NEW n \in 1..4
                  PROVE  LET odd == take - (take \div n) * n IN take \div n \in Nat /\ odd \in 0..(n - 1)
  <1>1. CASE n = 1  BY <1>1
  <1>2. CASE n = 2  BY <1>2
  <1>3. CASE n = 3  BY <1>3
  <1>4. CASE n = 4  BY <1>4
  <1>5. QED  BY <1>1, <1>2, <1>3, <1>4

\* Payouts and rake add up to the pot, whoever wins: the odd cents are neither
\* lost nor paid twice (computeSettlement).
THEOREM SettlementConserves ==
    ASSUME NEW pot \in Nat, NEW W \in SUBSET (0..3), W # {}
    PROVE  LET share == computeSettlement(pot, W)
           IN  /\ share.payouts \in [W -> Nat]
               /\ share.rake \in Nat
               /\ Total(share.payouts) + share.rake = pot
  <1> DEFINE rake == (pot * RakeBps) \div 10000
             take == pot - rake
             n == SizeOf(W)
             base == take \div n
             odd == take - base * n
             place(s) == SizeOf({t \in W : t < s})
             payouts == [s \in W |-> IF place(s) < odd THEN base + 1 ELSE base]
             one(k) == IF k \in W THEN 1 ELSE 0
  <1>1. rake \in Nat /\ take \in Nat  BY RakeRange
  <1>2. n \in 1..4  BY SizeOfRange
  <1>3. base \in Nat /\ odd \in 0..(n - 1)  BY <1>1, <1>2, OddCents
  <1>4. take = base * n + odd
    <2> HIDE DEF take, n
    <2>1. base * n \in Nat  BY <1>2, <1>3
    <2>2. QED  BY <2>1, <1>1, <1>2
  <1>5. n = one(0) + one(1) + one(2) + one(3)  BY DEF SizeOf, Total, At
  <1>6. place(0) = 0 /\ place(1) = one(0) /\ place(2) = one(0) + one(1)
          /\ place(3) = one(0) + one(1) + one(2)
    <2>1. \A k \in 0..3 : place(k) = At([t \in {u \in W : u < k} |-> 1], 0)
                                      + At([t \in {u \in W : u < k} |-> 1], 1)
                                      + At([t \in {u \in W : u < k} |-> 1], 2)
                                      + At([t \in {u \in W : u < k} |-> 1], 3)
      BY DEF SizeOf, Total
    <2>2. \A k, j \in 0..3 : At([t \in {u \in W : u < k} |-> 1], j)
                               = IF j \in W /\ j < k THEN 1 ELSE 0  BY DEF At
    <2> HIDE DEF place
    <2>3. QED  BY <2>1, <2>2
  <1>7. \A k \in 0..3 : At(payouts, k) = IF k \in W THEN (IF place(k) < odd THEN base + 1 ELSE base)
                                                    ELSE 0  BY DEF At
  <1>8. Total(payouts) = At(payouts, 0) + At(payouts, 1) + At(payouts, 2) + At(payouts, 3)
    BY DEF Total
  <1>9. payouts \in [W -> Nat]
    <2> HIDE DEF base, odd, place
    <2>1. QED  BY <1>3
  <1>10. Total(payouts) = take
    <2> HIDE DEF rake, take, base, odd, place, payouts, n
    <2>1. CASE n = 1  BY <2>1, <1>1, <1>3, <1>4, <1>5, <1>6, <1>7, <1>8
    <2>2. CASE n = 2  BY <2>2, <1>1, <1>3, <1>4, <1>5, <1>6, <1>7, <1>8
    <2>3. CASE n = 3  BY <2>3, <1>1, <1>3, <1>4, <1>5, <1>6, <1>7, <1>8
    <2>4. CASE n = 4  BY <2>4, <1>1, <1>3, <1>4, <1>5, <1>6, <1>7, <1>8
    <2>5. QED  BY <1>2, <2>1, <2>2, <2>3, <2>4
  <1>11. computeSettlement(pot, W) = [rake |-> rake, payouts |-> payouts]
    BY DEF computeSettlement
  <1>12. QED
    <2> HIDE DEF payouts, rake
    <2>1. take = pot - rake  OBVIOUS
    <2> HIDE DEF take
    <2>2. QED  BY <1>1, <1>9, <1>10, <1>11, <2>1

-----------------------------------------------------------------------------
(* The inductive invariant.                                                *)

\* A row that exists names the players and the stake it was opened with.
RowsHold ==
    \A id \in MatchIds :
      \/ row[id] = NoRow
      \/ row[id].status # "none" /\ row[id].players \in Rosters

\* A reference in the ledger tells how its match was closed.
RefsHold ==
    \A id \in MatchIds, s \in 0..3 :
      /\ Ref("payout", id, s) \in refs => row[id].status = "settled"
      /\ Ref("rake", id, s) \in refs => row[id].status = "settled"
      /\ Ref("refund", id, s) \in refs => row[id].status = "cancelled"

\* What a call read of the row before its transaction still holds when the
\* transaction runs: nobody else can have closed the match in between.
CallsHold ==
    \A i \in Instances, id \in MatchIds :
      LET c == call[i][id]
      IN  /\ c.kind = "idle" => c.pc = "none"
          /\ c.kind = "escrow" => c.players \in Rosters
          /\ c.pc = "commit" /\ c.kind # "escrow" =>
               /\ c.kind \in {"settle", "refund"}
               /\ row[id].status = "active"
               /\ c.stake = row[id].stake
               /\ c.players = row[id].players
               /\ c.kind = "settle" => c.winners # {} /\ c.winners \subseteq DOMAIN c.players

IInv == TypeOK /\ Reconciled /\ PotPaidOnce /\ RowsHold /\ RefsHold /\ CallsHold

-----------------------------------------------------------------------------
\* What a seat's owner is due is a natural number, at most the seat's amount.
LEMMA ShareNat ==
    ASSUME NEW D \in SUBSET (0..3), NEW amounts \in [D -> Nat], NEW players, NEW u
    PROVE  /\ ShareOf(u, players, amounts) \in Nat
           /\ ShareOf(u, players, amounts) = 0
                \/ \E s \in D : players[s] = u /\ ShareOf(u, players, amounts) = amounts[s]
  <1> DEFINE mine == {s \in DOMAIN amounts : players[s] = u}
  <1>1. CASE mine = {}  BY <1>1 DEF ShareOf
  <1>2. CASE mine # {}
    <2>1. (CHOOSE s \in mine : TRUE) \in mine  BY <1>2
    <2>2. ShareOf(u, players, amounts) = amounts[CHOOSE s \in mine : TRUE]  BY <1>2 DEF ShareOf
    <2> HIDE DEF mine
    <2>3. (CHOOSE s \in mine : TRUE) \in D /\ players[CHOOSE s \in mine : TRUE] = u  BY <2>1 DEF mine
    <2>4. QED  BY <2>2, <2>3
  <1>3. QED  BY <1>1, <1>2

\* A roster sits on at least one and at most four seats.
LEMMA RosterSeats == ASSUME NEW players \in Rosters
                     PROVE  DOMAIN players \in SUBSET (0..3) /\ DOMAIN players # {}
  BY RostersAssumption

\* A pot is a natural number, and stake by stake adds up to it.
LEMMA PotIsStakes ==
    ASSUME NEW players \in Rosters, NEW stake \in Nat
    PROVE  /\ potCents(stake, players) \in Nat
           /\ Total([s \in DOMAIN players |-> stake]) = potCents(stake, players)
  <1>1. SizeOf(DOMAIN players) \in Nat  BY RosterSeats, SizeOfRange
  <1>2. DOMAIN players \in SUBSET (0..3)  BY RosterSeats
  <1>3. Total([s \in DOMAIN players |-> stake]) = stake * SizeOf(DOMAIN players)
    BY <1>2, TotalConstant
  <1>4. stake * SizeOf(DOMAIN players) \in Nat  BY <1>1
  <1>5. QED  BY <1>3, <1>4 DEF potCents

\* While no reference names the match, all of a credit is due.
LEMMA AllDue ==
    ASSUME NEW id \in MatchIds, NEW what, NEW D \in SUBSET (0..3), NEW amounts \in [D -> Nat],
           \A s \in 0..3 : Ref(what, id, s) \notin refs
    PROVE  Fresh(what, id, amounts) = amounts
  BY DEF Fresh

\* The invariant holds at the start.
LEMMA MoneyInitHolds == ASSUME MoneyInit PROVE IInv
  <1>1. Idle \in Requests /\ NoRow \in [status : {"none", "active", "settled", "cancelled"},
                                        stake : Nat, players : Rosters \cup {<<>>}]
    BY DEF Idle, NoRow, Requests
  <1>2. NoSweep \in [pc : {"idle", "listing", "refunding"}, live : SUBSET MatchIds,
                     todo : SUBSET MatchIds, cur : MatchIds \cup {NoMatch}]
    BY DEF NoSweep
  <1>3. TypeOK  BY <1>1, <1>2, PurseAssumption DEF MoneyInit, TypeOK
  <1>4. Reconciled /\ PotPaidOnce /\ RowsHold /\ RefsHold
    BY DEF MoneyInit, Reconciled, PotPaidOnce, RowsHold, RefsHold, NoRow
  <1>5. CallsHold  BY DEF MoneyInit, CallsHold, Idle
  <1>6. QED  BY <1>3, <1>4, <1>5 DEF IInv
-----------------------------------------------------------------------------
(* Steps that move no money.                                               *)

\* What a step may do to a closed match: nothing.
StaysClosed ==
    \A id \in MatchIds : row[id].status \in {"settled", "cancelled"} =>
      row'[id] = row[id] /\ matchSum'[id] = matchSum[id]

Sweeps == [pc : {"idle", "listing", "refunding"}, live : SUBSET MatchIds,
           todo : SUBSET MatchIds, cur : MatchIds \cup {NoMatch}]

\* A call may be replaced by any call that knows no more than the row says.
LEMMA NewCall ==
    ASSUME IInv, NEW i \in Instances, NEW id \in MatchIds, NEW c \in Requests,
           c.kind = "idle" => c.pc = "none",
           c.kind = "escrow" => c.players \in Rosters,
           c.pc = "commit" /\ c.kind # "escrow" =>
             /\ c.kind \in {"settle", "refund"}
             /\ row[id].status = "active"
             /\ c.stake = row[id].stake
             /\ c.players = row[id].players
             /\ c.kind = "settle" => c.winners # {} /\ c.winners \subseteq DOMAIN c.players,
           call' = [call EXCEPT ![i][id] = c],
           sweep' \in [Instances -> Sweeps],
           UNCHANGED <<ledgerVars, row>>
    PROVE  IInv' /\ StaysClosed
  <1>1. call' \in [Instances -> [MatchIds -> Requests]]  BY DEF IInv, TypeOK
  <1>2. TypeOK'  BY <1>1 DEF IInv, TypeOK, ledgerVars, Sweeps
  <1>3. Reconciled' /\ PotPaidOnce' /\ RowsHold' /\ RefsHold'
    BY DEF IInv, Reconciled, PotPaidOnce, RowsHold, RefsHold, ledgerVars
  <1>4. \A j \in Instances, jd \in MatchIds :
          call'[j][jd] = IF j = i /\ jd = id THEN c ELSE call[j][jd]
    BY DEF IInv, TypeOK
  <1>5. CallsHold'
    <2> SUFFICES ASSUME NEW j \in Instances, NEW jd \in MatchIds
                 PROVE  LET d == call'[j][jd]
                        IN  /\ d.kind = "idle" => d.pc = "none"
                            /\ d.kind = "escrow" => d.players \in Rosters
                            /\ d.pc = "commit" /\ d.kind # "escrow" =>
                                 /\ d.kind \in {"settle", "refund"}
                                 /\ row'[jd].status = "active"
                                 /\ d.stake = row'[jd].stake
                                 /\ d.players = row'[jd].players
                                 /\ d.kind = "settle" =>
                                      d.winners # {} /\ d.winners \subseteq DOMAIN d.players
      BY DEF CallsHold
    <2>1. CASE j = i /\ jd = id  BY <2>1, <1>4
    <2>2. CASE ~(j = i /\ jd = id)
      <3>1. call'[j][jd] = call[j][jd] /\ row' = row  BY <2>2, <1>4
      <3>2. QED  BY <3>1 DEF IInv, CallsHold
    <2>3. QED  BY <2>1, <2>2
  <1>6. StaysClosed  BY DEF StaysClosed, ledgerVars
  <1>7. QED  BY <1>2, <1>3, <1>5, <1>6 DEF IInv

\* A step of the sweep alone changes nothing the invariant is about.
LEMMA SweepOnly ==
    ASSUME IInv, sweep' \in [Instances -> Sweeps], UNCHANGED <<ledgerVars, row, call>>
    PROVE  IInv' /\ StaysClosed
  <1>1. TypeOK'  BY DEF IInv, TypeOK, ledgerVars, Sweeps
  <1>2. Reconciled' /\ PotPaidOnce' /\ RowsHold' /\ RefsHold' /\ CallsHold'
    BY DEF IInv, Reconciled, PotPaidOnce, RowsHold, RefsHold, CallsHold, ledgerVars
  <1>3. StaysClosed  BY DEF StaysClosed, ledgerVars
  <1>4. QED  BY <1>1, <1>2, <1>3 DEF IInv

\* Having no call and no sweep is well typed.
LEMMA Nothing == Idle \in Requests /\ NoSweep \in Sweeps
  BY DEF Idle, Requests, NoSweep, Sweeps

\* However a refund ends, the sweep it belongs to is left well typed.
LEMMA SweepResumesTyped ==
    ASSUME IInv, NEW i \in Instances, NEW id \in MatchIds, NEW threw \in BOOLEAN,
           SweepResumes(i, id, threw)
    PROVE  sweep' \in [Instances -> Sweeps]
  <1>1. sweep \in [Instances -> Sweeps]  BY DEF IInv, TypeOK, Sweeps
  <1>2. [sweep EXCEPT ![i] = NoSweep] \in [Instances -> Sweeps]  BY <1>1, Nothing
  <1>3. [sweep EXCEPT ![i].cur = NoMatch] \in [Instances -> Sweeps]  BY <1>1 DEF Sweeps
  <1>4. QED  BY <1>1, <1>2, <1>3 DEF SweepResumes

\* A call that returns without committing.
LEMMA ReturnsQuietly ==
    ASSUME IInv, NEW i \in Instances, NEW id \in MatchIds, NEW threw \in BOOLEAN,
           Return(i, id), SweepResumes(i, id, threw), UNCHANGED <<ledgerVars, row>>
    PROVE  IInv' /\ StaysClosed
  <1>1. Idle.kind = "idle" /\ Idle.pc = "none"  BY DEF Idle
  <1>2. sweep' \in [Instances -> Sweeps]  BY SweepResumesTyped
  <1>3. call' = [call EXCEPT ![i][id] = Idle]  BY DEF Return
  <1>4. QED  BY <1>1, <1>2, <1>3, Nothing, NewCall
-----------------------------------------------------------------------------
(* Steps of a call, without its commit, and of the sweep.                  *)

\* A call is claimed only by the three operations.
LEMMA RequestStep ==
    ASSUME IInv, NEW i \in Instances, NEW id \in MatchIds, Request(i, id)
    PROVE  IInv' /\ StaysClosed
  <1>1. sweep' \in [Instances -> Sweeps] /\ UNCHANGED <<ledgerVars, row>>
    BY DEF IInv, TypeOK, Sweeps, Request
  <1>2. CASE \E stake \in Stakes, players \in Rosters : escrow(i, id, stake, players)
    <2>1. PICK stake \in Stakes, players \in Rosters : escrow(i, id, stake, players)  BY <1>2
    <2> DEFINE c == [Idle EXCEPT !.kind = "escrow", !.pc = "find", !.stake = stake,
                                 !.players = players]
    <2>2. c \in Requests /\ c.kind = "escrow" /\ c.players = players /\ c.pc = "find"
      BY StakesAssumption DEF Idle, Requests
    <2>3. call' = [call EXCEPT ![i][id] = c]  BY <2>1 DEF escrow, Claim
    <2> HIDE DEF c
    <2>4. QED  BY <1>1, <2>2, <2>3, NewCall
  <1>3. CASE \E winners \in (SUBSET UNION {DOMAIN r : r \in Rosters}) \ {{}} : settle(i, id, winners)
    <2>1. PICK winners \in (SUBSET UNION {DOMAIN r : r \in Rosters}) \ {{}} :
                 settle(i, id, winners)  BY <1>3
    <2> DEFINE c == [Idle EXCEPT !.kind = "settle", !.pc = "find", !.winners = winners]
    <2>2. winners \in SUBSET (0..3)  BY RostersAssumption
    <2>3. c \in Requests /\ c.kind = "settle" /\ c.pc = "find"  BY <2>2 DEF Idle, Requests
    <2>4. call' = [call EXCEPT ![i][id] = c]  BY <2>1 DEF settle, Claim
    <2> HIDE DEF c
    <2>5. QED  BY <1>1, <2>3, <2>4, NewCall
  <1>4. CASE refund(i, id, "caller")
    <2> DEFINE c == [Idle EXCEPT !.kind = "refund", !.pc = "find", !.by = "caller"]
    <2>1. c \in Requests /\ c.kind = "refund" /\ c.pc = "find"  BY DEF Idle, Requests
    <2>2. call' = [call EXCEPT ![i][id] = c]  BY <1>4 DEF refund, Claim
    <2> HIDE DEF c
    <2>3. QED  BY <1>1, <2>1, <2>2, NewCall
  <1>5. QED  BY <1>2, <1>3, <1>4 DEF Request

\* What a call remembers of the row is what the row says.
LEMMA FindStep ==
    ASSUME IInv, NEW i \in Instances, NEW id \in MatchIds, findStep(i, id)
    PROVE  IInv' /\ StaysClosed
  <1> DEFINE q == call[i][id]
             c == Remembered(i, id)
  <1>1. q \in Requests /\ q.pc = "find"  BY DEF IInv, TypeOK, findStep
  <1>2. sweep' \in [Instances -> Sweeps] /\ UNCHANGED <<ledgerVars, row>>
    BY DEF IInv, TypeOK, Sweeps, findStep
  <1>3. call' = [call EXCEPT ![i][id] = c]  BY DEF findStep
  <1>4. row[id].stake \in Nat /\ row[id].players \in Rosters \cup {<<>>}  BY DEF IInv, TypeOK
  <1>5. CASE q.kind = "escrow"
    <2>1. c = [q EXCEPT !.pc = "commit"]  BY <1>5 DEF Remembered
    <2>2. q.players \in Rosters  BY <1>5 DEF IInv, CallsHold
    <2>3. c \in Requests /\ c.kind = "escrow" /\ c.players = q.players
      BY <1>1, <1>5, <2>1 DEF Requests
    <2> HIDE DEF c, q
    <2>4. QED  BY <1>2, <1>3, <2>2, <2>3, NewCall
  <1>6. CASE q.kind # "escrow"
    <2>1. c = [q EXCEPT !.pc = "commit", !.stake = row[id].stake, !.players = row[id].players,
                        !.winners = @ \cap DOMAIN row[id].players]
      BY <1>6 DEF Remembered
    <2>2. Closable(row[id], q)
      BY <1>6 DEF findStep, FindProceeds
    <2>3. q.kind # "idle"  BY <1>1 DEF IInv, CallsHold
    <2>4. c \in Requests /\ c.kind = q.kind /\ c.pc = "commit" /\ c.stake = row[id].stake
            /\ c.players = row[id].players /\ c.winners = q.winners \cap DOMAIN row[id].players
      BY ZenonT(60), <1>1, <1>4, <2>1 DEF Requests
    <2>5. q.kind \in {"settle", "refund"}  BY <1>1, <1>6, <2>3 DEF Requests
    <2> HIDE DEF c, q
    <2>6. c.winners \subseteq DOMAIN c.players  BY <2>4
    <2>7. c.kind = "settle" => c.winners # {}  BY <2>2, <2>4 DEF Closable
    <2>8. row[id].status = "active"  BY <2>2 DEF Closable
    <2>9. QED  BY <1>2, <1>3, <1>6, <2>4, <2>5, <2>6, <2>7, <2>8, NewCall
  <1>7. QED  BY <1>5, <1>6
-----------------------------------------------------------------------------
(* Steps that move money.  With one process, the call that commits is the  *)
(* only one that can have read the row it closes.                          *)

\* Once a call has returned, the other calls still know what their rows say,
\* provided only the row of the returning call changed.
LEMMA OthersUntouched ==
    ASSUME IInv, OneProcess, NEW i \in Instances, NEW id \in MatchIds, Return(i, id),
           \A jd \in MatchIds \ {id} : row'[jd] = row[jd]
    PROVE  CallsHold' /\ call' \in [Instances -> [MatchIds -> Requests]]
  <1>1. call' = [call EXCEPT ![i][id] = Idle] /\ call \in [Instances -> [MatchIds -> Requests]]
    BY DEF Return, IInv, TypeOK
  <1>2. call' \in [Instances -> [MatchIds -> Requests]]  BY <1>1, Nothing
  <1>3. Idle.kind = "idle" /\ Idle.pc = "none"  BY DEF Idle
  <1>4. \A j \in Instances, jd \in MatchIds :
          call'[j][jd] = IF jd = id THEN Idle ELSE call[j][jd]
    BY <1>1 DEF OneProcess
  <1>5. CallsHold'
    <2> SUFFICES ASSUME NEW j \in Instances, NEW jd \in MatchIds
                 PROVE  LET d == call'[j][jd]
                        IN  /\ d.kind = "idle" => d.pc = "none"
                            /\ d.kind = "escrow" => d.players \in Rosters
                            /\ d.pc = "commit" /\ d.kind # "escrow" =>
                                 /\ d.kind \in {"settle", "refund"}
                                 /\ row'[jd].status = "active"
                                 /\ d.stake = row'[jd].stake
                                 /\ d.players = row'[jd].players
                                 /\ d.kind = "settle" =>
                                      d.winners # {} /\ d.winners \subseteq DOMAIN d.players
      BY DEF CallsHold
    <2>1. CASE jd = id  BY <2>1, <1>3, <1>4
    <2>2. CASE jd # id
      <3>1. call'[j][jd] = call[j][jd] /\ row'[jd] = row[jd]  BY <2>2, <1>4
      <3>2. QED  BY <3>1 DEF IInv, CallsHold
    <2>3. QED  BY <2>1, <2>2
  <1>6. QED  BY <1>2, <1>5

\* Opening a match puts the stakes of its players into its pot.
LEMMA EscrowCommit ==
    ASSUME IInv, OneProcess, NEW i \in Instances, NEW id \in MatchIds,
           commitStep(i, id), call[i][id].kind = "escrow"
    PROVE  IInv' /\ StaysClosed
  <1> DEFINE q == call[i][id]
             loss == [u \in Users |-> ShareOf(u, q.players, [s \in DOMAIN q.players |-> q.stake])]
  <1>1. q \in Requests /\ q.stake \in Nat /\ q.players \in Rosters
    BY DEF IInv, TypeOK, CallsHold, Requests
  <1>2. row[id] = NoRow /\ CanPay(q.players, q.stake)  BY DEF commitStep, Goes
  <1>3. DebitAll(id, q.players, q.stake)
          /\ row' = [row EXCEPT ![id] = [status |-> "active", stake |-> q.stake, players |-> q.players]]
    BY DEF commitStep, Commit, CommitEscrow
  <1>4. Return(i, id) /\ sweep' \in [Instances -> Sweeps]
    BY SweepResumesTyped DEF commitStep
  <1>5. \A jd \in MatchIds \ {id} : row'[jd] = row[jd]  BY <1>3 DEF IInv, TypeOK
  <1>6. CallsHold' /\ call' \in [Instances -> [MatchIds -> Requests]]  BY <1>4, <1>5, OthersUntouched
  <1>7. \A u \in Users : loss[u] \in Nat /\ loss[u] <= balance[u]
    <2> SUFFICES ASSUME NEW u \in Users PROVE loss[u] \in Nat /\ loss[u] <= balance[u]  OBVIOUS
    <2> DEFINE D == DOMAIN q.players
               amounts == [s \in D |-> q.stake]
    <2>1. D \in SUBSET (0..3)  BY <1>1, RosterSeats
    <2>2. amounts \in [D -> Nat]  BY <1>1
    <2> HIDE DEF amounts
    <2>3. /\ ShareOf(u, q.players, amounts) \in Nat
          /\ ShareOf(u, q.players, amounts) = 0
               \/ \E s \in D : q.players[s] = u /\ ShareOf(u, q.players, amounts) = amounts[s]
      BY <2>1, <2>2, ShareNat
    <2>4. loss[u] = ShareOf(u, q.players, amounts)  BY DEF amounts
    <2>5. \A s \in D : amounts[s] = q.stake /\ balance[q.players[s]] >= q.stake
      BY <1>2 DEF amounts, CanPay
    <2>6. balance[u] \in Nat  BY DEF IInv, TypeOK
    <2> HIDE DEF loss, q, D
    <2>7. QED  BY <2>3, <2>4, <2>5, <2>6
  <1>8. balance' \in [Users -> Nat] /\ ledgerSum' \in [Users -> Int] /\ Reconciled'
    <2>1. balance' = [u \in Users |-> balance[u] - loss[u]]
            /\ ledgerSum' = [u \in Users |-> ledgerSum[u] - loss[u]]
      BY <1>3 DEF DebitAll
    <2> HIDE DEF loss
    <2>2. QED  BY <2>1, <1>7 DEF IInv, TypeOK, Reconciled
  <1>9. potCents(q.stake, q.players) \in Nat  BY <1>1, PotIsStakes
  <1>10. matchSum' = [matchSum EXCEPT ![id] = @ - potCents(q.stake, q.players)]
           /\ UNCHANGED <<refs, house>>
    BY <1>3 DEF DebitAll
  <1>11. row[id].status = "none" /\ row'[id].status = "active" /\ row'[id].stake = q.stake
           /\ row'[id].players = q.players /\ row'[id] # NoRow
    BY <1>2, <1>3 DEF IInv, TypeOK, NoRow
  <1>12. row' \in [MatchIds -> [status : {"none", "active", "settled", "cancelled"}, stake : Nat,
                                players : Rosters \cup {<<>>}]]
    BY <1>1, <1>3 DEF IInv, TypeOK
  <1> HIDE DEF q, loss
  <1>13. matchSum' \in [MatchIds -> Int]  BY <1>9, <1>10 DEF IInv, TypeOK
  <1>14. TypeOK'  BY <1>4, <1>6, <1>8, <1>10, <1>12, <1>13 DEF IInv, TypeOK, Sweeps
  <1>15. PotPaidOnce'
    <2> SUFFICES ASSUME NEW jd \in MatchIds
                 PROVE  matchSum'[jd] = IF row'[jd].status = "active"
                                        THEN -potCents(row'[jd].stake, row'[jd].players) ELSE 0
      BY DEF PotPaidOnce, potCents
    <2>1. CASE jd = id
      <3>1. matchSum[id] = 0  BY <1>11 DEF IInv, PotPaidOnce
      <3>2. matchSum'[id] = 0 - potCents(q.stake, q.players)  BY <3>1, <1>10 DEF IInv, TypeOK
      <3>3. QED  BY <2>1, <3>2, <1>9, <1>11
    <2>2. CASE jd # id
      <3>1. matchSum'[jd] = matchSum[jd] /\ row'[jd] = row[jd]
        BY <2>2, <1>5, <1>10 DEF IInv, TypeOK
      <3>2. QED  BY <3>1 DEF IInv, PotPaidOnce
    <2>3. QED  BY <2>1, <2>2
  <1>16. RowsHold'  BY <1>1, <1>5, <1>11 DEF IInv, RowsHold
  <1>17. RefsHold'
    <2>1. \A s \in 0..3 : Ref("payout", id, s) \notin refs /\ Ref("rake", id, s) \notin refs
                            /\ Ref("refund", id, s) \notin refs
      BY <1>11 DEF IInv, RefsHold
    <2>2. refs' = refs  BY <1>10
    <2>3. QED  BY <2>1, <2>2, <1>5 DEF IInv, RefsHold, Ref
  <1>18. StaysClosed
    <2> SUFFICES ASSUME NEW jd \in MatchIds, row[jd].status \in {"settled", "cancelled"}
                 PROVE  row'[jd] = row[jd] /\ matchSum'[jd] = matchSum[jd]
      BY DEF StaysClosed
    <2>1. jd # id  BY <1>11
    <2>2. QED  BY <2>1, <1>5, <1>10 DEF IInv, TypeOK
  <1>19. QED  BY <1>6, <1>8, <1>14, <1>15, <1>16, <1>17, <1>18 DEF IInv
\* Closing a match by crediting amounts which, with the rake, make up its pot.
LEMMA CloseCommit ==
    ASSUME IInv, OneProcess, NEW i \in Instances, NEW id \in MatchIds,
           Return(i, id), sweep' \in [Instances -> Sweeps],
           NEW what, NEW status, NEW amounts, NEW rake \in Nat,
           row[id].status = "active",
           DOMAIN amounts \in SUBSET (0..3), amounts \in [DOMAIN amounts -> Nat],
           Total(amounts) + rake = potCents(row[id].stake, row[id].players),
           \/ what = "payout" /\ status = "settled"
           \/ what = "refund" /\ status = "cancelled" /\ rake = 0,
           CreditAll(what, id, row[id].players, amounts, rake),
           Mark(id, status)
    PROVE  IInv' /\ StaysClosed
  <1> DEFINE D == DOMAIN amounts
             gain == [u \in Users |-> ShareOf(u, row[id].players, amounts)]
             pot == potCents(row[id].stake, row[id].players)
  <1>1. row \in [MatchIds -> [status : {"none", "active", "settled", "cancelled"}, stake : Nat,
                              players : Rosters \cup {<<>>}]]
          /\ status \in {"settled", "cancelled"}
    BY DEF IInv, TypeOK
  <1>2. row' = [row EXCEPT ![id].status = status]  BY <1>1 DEF Mark
  <1>3. \A jd \in MatchIds \ {id} : row'[jd] = row[jd]  BY <1>1, <1>2
  <1>4. row'[id].status = status /\ row'[id].players = row[id].players
    BY <1>1, <1>2
  <1>5. row' \in [MatchIds -> [status : {"none", "active", "settled", "cancelled"}, stake : Nat,
                               players : Rosters \cup {<<>>}]]
    BY <1>1, <1>2
  <1>6. CallsHold' /\ call' \in [Instances -> [MatchIds -> Requests]]  BY <1>3, OthersUntouched
  <1>7. \A s \in 0..3 : Ref("payout", id, s) \notin refs /\ Ref("rake", id, s) \notin refs
                          /\ Ref("refund", id, s) \notin refs
    BY DEF IInv, RefsHold
  <1>8. Fresh(what, id, amounts) = amounts
    <2>1. \A s \in 0..3 : Ref(what, id, s) \notin refs  BY <1>7
    <2> HIDE DEF D
    <2>2. QED  BY <2>1, AllDue
  <1>9. Ref("rake", id, 0) \notin refs  BY <1>7
  <1>10. /\ balance' = [u \in Users |-> balance[u] + gain[u]]
         /\ ledgerSum' = [u \in Users |-> ledgerSum[u] + gain[u]]
         /\ matchSum' = [matchSum EXCEPT ![id] = @ + Total(amounts) + rake]
         /\ house' = house + rake
         /\ refs' = refs \cup {Ref(what, id, s) : s \in {t \in D : amounts[t] > 0}}
                         \cup (IF rake > 0 THEN {Ref("rake", id, 0)} ELSE {})
    BY <1>8, <1>9 DEF CreditAll
  <1>11. \A u \in Users : gain[u] \in Nat  BY ShareNat
  <1> HIDE DEF gain
  <1>12. balance' \in [Users -> Nat] /\ ledgerSum' \in [Users -> Int] /\ Reconciled'
    BY <1>10, <1>11 DEF IInv, TypeOK, Reconciled
  <1>13. Total(amounts) \in Nat  BY TotalNat
  <1>14. matchSum' \in [MatchIds -> Int] /\ house' \in Nat  BY <1>10, <1>13 DEF IInv, TypeOK
  <1>15. TypeOK'  BY <1>5, <1>6, <1>12, <1>14 DEF TypeOK, Sweeps
  <1>16. PotPaidOnce'
    <2> SUFFICES ASSUME NEW jd \in MatchIds
                 PROVE  matchSum'[jd] = IF row'[jd].status = "active"
                                        THEN -potCents(row'[jd].stake, row'[jd].players) ELSE 0
      BY DEF PotPaidOnce, potCents
    <2>1. CASE jd = id
      <3>1. matchSum[id] = -pot  BY DEF IInv, PotPaidOnce
      <3>2. matchSum'[id] = matchSum[id] + Total(amounts) + rake  BY <1>10 DEF IInv, TypeOK
      <3>3. matchSum[id] \in Int /\ pot = Total(amounts) + rake  BY DEF IInv, TypeOK
      <3> HIDE DEF pot
      <3>4. matchSum'[id] = 0  BY <3>1, <3>2, <3>3, <1>13
      <3>5. QED  BY <2>1, <3>4, <1>1, <1>4
    <2>2. CASE jd # id
      <3>1. matchSum'[jd] = matchSum[jd] /\ row'[jd] = row[jd]
        BY <2>2, <1>3, <1>10 DEF IInv, TypeOK
      <3>2. QED  BY <3>1 DEF IInv, PotPaidOnce
    <2>3. QED  BY <2>1, <2>2
  <1>17. RowsHold'
    <2>1. row[id].players \in Rosters  BY DEF IInv, RowsHold, NoRow
    <2>2. row'[id].status # "none" /\ row'[id].players \in Rosters  BY <2>1, <1>1, <1>4
    <2>3. QED  BY <2>2, <1>3 DEF IInv, RowsHold
  <1>18. RefsHold'
    <2> SUFFICES ASSUME NEW jd \in MatchIds, NEW s \in 0..3
                 PROVE  /\ Ref("payout", jd, s) \in refs' => row'[jd].status = "settled"
                        /\ Ref("rake", jd, s) \in refs' => row'[jd].status = "settled"
                        /\ Ref("refund", jd, s) \in refs' => row'[jd].status = "cancelled"
      BY DEF RefsHold, Ref
    <2>1. \A x \in refs' : x \in refs \/ (\E t \in D : x = Ref(what, id, t))
                             \/ (rake > 0 /\ x = Ref("rake", id, 0))
      BY <1>10
    <2>2. CASE jd = id
      <3>1. Ref("payout", id, s) \in refs' => what = "payout"  BY <2>1, <1>7 DEF Ref
      <3>2. Ref("rake", id, s) \in refs' => what = "payout"  BY <2>1, <1>7 DEF Ref
      <3>3. Ref("refund", id, s) \in refs' => what = "refund"  BY <2>1, <1>7 DEF Ref
      <3>4. QED  BY <2>2, <3>1, <3>2, <3>3, <1>4
    <2>3. CASE jd # id
      <3>1. \A w \in {"payout", "rake", "refund"} : Ref(w, jd, s) \in refs' => Ref(w, jd, s) \in refs
        BY <2>1, <2>3 DEF Ref
      <3>2. QED  BY <2>3, <3>1, <1>3 DEF IInv, RefsHold
    <2>4. QED  BY <2>2, <2>3
  <1>19. StaysClosed
    <2> SUFFICES ASSUME NEW jd \in MatchIds, row[jd].status \in {"settled", "cancelled"}
                 PROVE  row'[jd] = row[jd] /\ matchSum'[jd] = matchSum[jd]
      BY DEF StaysClosed
    <2>1. jd # id  OBVIOUS
    <2>2. QED  BY <2>1, <1>3, <1>10 DEF IInv, TypeOK
  <1>20. QED  BY <1>6, <1>12, <1>15, <1>16, <1>17, <1>18, <1>19 DEF IInv
\* A commit closes the row it read, or opens one that does not exist.
LEMMA CommitStep ==
    ASSUME IInv, OneProcess, NEW i \in Instances, NEW id \in MatchIds, commitStep(i, id)
    PROVE  IInv' /\ StaysClosed
  <1> DEFINE q == call[i][id]
             pot == potCents(row[id].stake, row[id].players)
  <1>1. CASE q.kind = "escrow"  BY <1>1, EscrowCommit
  <1>2. CASE q.kind # "escrow"
    <2>1. /\ q.kind \in {"settle", "refund"} /\ row[id].status = "active"
          /\ q.stake = row[id].stake /\ q.players = row[id].players
          /\ q.kind = "settle" => q.winners # {} /\ q.winners \subseteq DOMAIN q.players
      BY <1>2 DEF IInv, CallsHold, commitStep
    <2>2. row[id].players \in Rosters /\ row[id].stake \in Nat
      BY <2>1 DEF IInv, RowsHold, NoRow, TypeOK
    <2>3. pot \in Nat /\ Total([s \in DOMAIN row[id].players |-> row[id].stake]) = pot
      BY <2>2, PotIsStakes
    <2>4. DOMAIN row[id].players \in SUBSET (0..3)  BY <2>2, RosterSeats
    <2>5. Return(i, id) /\ sweep' \in [Instances -> Sweeps] /\ Commit(i, id)
      BY SweepResumesTyped DEF commitStep
    <2>6. CASE q.kind = "settle"
      <3> DEFINE share == computeSettlement(pot, q.winners)
      <3>1. CommitSettle(i, id)  BY <2>5, <2>6 DEF Commit
      <3>2. CreditAll("payout", id, row[id].players, share.payouts, share.rake) /\ Mark(id, "settled")
        BY <3>1, <2>1 DEF CommitSettle
      <3>3. q.winners \in SUBSET (0..3) /\ q.winners # {}  BY <2>1, <2>4, <2>6
      <3> HIDE DEF pot, q
      <3>4. share.payouts \in [q.winners -> Nat] /\ share.rake \in Nat
              /\ Total(share.payouts) + share.rake = pot
        BY <3>3, <2>3, SettlementConserves
      <3>5. DOMAIN share.payouts = q.winners  BY <3>4
      <3> HIDE DEF share
      <3>6. QED  BY <3>2, <3>3, <3>4, <3>5, <2>1, <2>5, CloseCommit DEF pot
    <2>7. CASE q.kind = "refund"
      <3> DEFINE amounts == [s \in DOMAIN row[id].players |-> row[id].stake]
      <3>1. CommitRefund(i, id)  BY <2>5, <2>7 DEF Commit
      <3>2. CreditAll("refund", id, row[id].players, amounts, 0) /\ Mark(id, "cancelled")
        BY <3>1, <2>1 DEF CommitRefund
      <3>3. DOMAIN amounts \in SUBSET (0..3) /\ amounts \in [DOMAIN amounts -> Nat]
        BY <2>2, <2>4
      <3>4. Total(amounts) + 0 = pot  BY <2>3
      <3> HIDE DEF amounts, q
      <3>5. QED  BY <3>2, <3>3, <3>4, <2>1, <2>5, CloseCommit DEF pot
    <2>8. QED  BY <2>1, <2>6, <2>7
  <1>3. QED  BY <1>1, <1>2

\* The sweep's own steps.
LEMMA SweepSteps ==
    ASSUME IInv, NEW i \in Instances,
           SweepStep(i) \/ \E live \in SUBSET MatchIds : startSweep(i, live)
    PROVE  IInv' /\ StaysClosed
  <1>1. sweep \in [Instances -> Sweeps]  BY DEF IInv, TypeOK, Sweeps
  <1>2. CASE \E live \in SUBSET MatchIds : startSweep(i, live)
    <2>1. PICK live \in SUBSET MatchIds : startSweep(i, live)  BY <1>2
    <2>2. sweep' \in [Instances -> Sweeps]  BY <2>1, <1>1, Nothing DEF startSweep, Sweeps
    <2>3. QED  BY <2>1, <2>2, SweepOnly DEF startSweep
  <1>3. CASE listActive(i)
    <2>1. sweep' \in [Instances -> Sweeps]  BY ZenonT(60), <1>1, <1>3 DEF listActive, Sweeps
    <2>2. QED  BY <1>3, <2>1, SweepOnly DEF listActive
  <1>4. CASE sweepDone(i)
    <2>1. sweep' \in [Instances -> Sweeps]  BY <1>1, <1>4, Nothing DEF sweepDone
    <2>2. QED  BY <1>4, <2>1, SweepOnly DEF sweepDone
  <1>5. ASSUME NEW id \in MatchIds, sweepOne(i, id) PROVE IInv' /\ StaysClosed
    <2>1. UNCHANGED <<ledgerVars, row>>  BY <1>5 DEF sweepOne
    <2>2. CASE refund(i, id, "sweep") /\ sweep' = [sweep EXCEPT ![i].todo = @ \ {id}, ![i].cur = id]
      <3> DEFINE c == [Idle EXCEPT !.kind = "refund", !.pc = "find", !.by = "sweep"]
      <3>1. c \in Requests /\ c.kind = "refund" /\ c.pc = "find"  BY DEF Idle, Requests
      <3>2. call' = [call EXCEPT ![i][id] = c]  BY <2>2 DEF refund, Claim
      <3>3. sweep' \in [Instances -> Sweeps]  BY ZenonT(60), <1>1, <2>2 DEF Sweeps
      <3> HIDE DEF c
      <3>4. QED  BY <2>1, <3>1, <3>2, <3>3, NewCall
    <2>3. CASE sweep' = [sweep EXCEPT ![i].todo = @ \ {id}] /\ UNCHANGED call
      <3>1. sweep' \in [Instances -> Sweeps]  BY <1>1, <2>3 DEF Sweeps
      <3>2. QED  BY <2>1, <2>3, <3>1, SweepOnly
    <2>4. QED  BY <1>5, <2>2, <2>3 DEF sweepOne
  <1>6. QED  BY <1>2, <1>3, <1>4, <1>5 DEF SweepStep

\* Deposits and transfers leave the matches alone.
LEMMA WalletSteps ==
    ASSUME IInv, WalletStep
    PROVE  IInv' /\ StaysClosed
  <1>1. UNCHANGED <<matchSum, house, row, call, sweep>>  BY DEF WalletStep, deposit, transfer
  <1>2. PotPaidOnce' /\ RowsHold' /\ CallsHold' /\ StaysClosed
    BY <1>1 DEF IInv, PotPaidOnce, RowsHold, CallsHold, StaysClosed
  <1>3. ASSUME NEW d \in Deposits, deposit(d)
        PROVE  balance' \in [Users -> Nat] /\ ledgerSum' \in [Users -> Int] /\ Reconciled' /\ RefsHold'
    <2>1. d.user \in Users /\ d.amount \in Nat  BY DepositsAssumption
    <2>2. balance' \in [Users -> Nat] /\ ledgerSum' \in [Users -> Int] /\ Reconciled'
      BY <1>3, <2>1 DEF deposit, IInv, TypeOK, Reconciled
    <2>3. \A w \in {"payout", "rake", "refund"}, id \in MatchIds, s \in 0..3 :
            Ref(w, id, s) \in refs' => Ref(w, id, s) \in refs
      BY <1>3 DEF deposit, Ref
    <2>4. RefsHold'  BY <1>1, <2>3 DEF IInv, RefsHold, Ref
    <2>5. QED  BY <2>2, <2>4
  <1>4. ASSUME NEW from \in Users, NEW to \in Users, NEW amount \in Stakes \ {0},
               transfer(from, to, amount)
        PROVE  balance' \in [Users -> Nat] /\ ledgerSum' \in [Users -> Int] /\ Reconciled' /\ RefsHold'
    <2>1. amount \in Nat  BY StakesAssumption
    <2>2. /\ from # to /\ balance[from] >= amount
          /\ balance' = [balance EXCEPT ![from] = @ - amount, ![to] = @ + amount]
          /\ ledgerSum' = [ledgerSum EXCEPT ![from] = @ - amount, ![to] = @ + amount]
      BY <1>4 DEF transfer
    <2>3. balance \in [Users -> Nat] /\ ledgerSum \in [Users -> Int]
            /\ \A u \in Users : balance[u] = ledgerSum[u]
      BY DEF IInv, TypeOK, Reconciled
    <2>4. \A f \in [Users -> Int] :
            LET g == [f EXCEPT ![from] = @ - amount, ![to] = @ + amount]
            IN  /\ g \in [Users -> Int]
                /\ \A u \in Users : g[u] = IF u = from THEN f[u] - amount
                                           ELSE IF u = to THEN f[u] + amount ELSE f[u]
      BY <2>1, <2>2
    <2>5. \A u \in Users : balance'[u] \in Nat /\ ledgerSum'[u] = balance'[u]
      BY <2>1, <2>2, <2>3, <2>4
    <2>6. balance' \in [Users -> Nat] /\ ledgerSum' \in [Users -> Int] /\ Reconciled'
      BY <2>2, <2>3, <2>4, <2>5 DEF Reconciled
    <2>7. RefsHold'  BY <1>1, <1>4 DEF transfer, IInv, RefsHold, Ref
    <2>8. QED  BY <2>6, <2>7
  <1>5. balance' \in [Users -> Nat] /\ ledgerSum' \in [Users -> Int] /\ Reconciled' /\ RefsHold'
    BY <1>3, <1>4 DEF WalletStep
  <1>6. TypeOK'  BY <1>1, <1>5 DEF IInv, TypeOK
  <1>7. QED  BY <1>2, <1>5, <1>6 DEF IInv

\* After a crash nothing is in flight.
LEMMA CrashStep ==
    ASSUME IInv, NEW i \in Instances, crash(i)
    PROVE  IInv' /\ StaysClosed
  <1>1. sweep' \in [Instances -> Sweeps]  BY Nothing DEF crash, IInv, TypeOK, Sweeps
  <1>2. call' \in [Instances -> [MatchIds -> Requests]]  BY Nothing DEF crash, IInv, TypeOK
  <1>3. TypeOK'  BY <1>1, <1>2 DEF crash, IInv, TypeOK, Sweeps, ledgerVars
  <1>4. Reconciled' /\ PotPaidOnce' /\ RowsHold' /\ RefsHold'
    BY DEF crash, IInv, Reconciled, PotPaidOnce, RowsHold, RefsHold, ledgerVars
  <1>5. \A j \in Instances, jd \in MatchIds : call'[j][jd] = Idle \/ call'[j][jd] = call[j][jd]
    BY DEF crash, IInv, TypeOK
  <1>6. Idle.kind = "idle" /\ Idle.pc = "none"  BY DEF Idle
  <1>7. row' = row  BY DEF crash
  <1>8. CallsHold'  BY <1>5, <1>6, <1>7 DEF IInv, CallsHold
  <1>9. StaysClosed  BY DEF crash, StaysClosed, ledgerVars
  <1>10. QED  BY <1>3, <1>4, <1>8, <1>9 DEF IInv

-----------------------------------------------------------------------------
(* The theorems.                                                           *)

\* Every step of the one process keeps the invariant and leaves closed matches closed.
LEMMA StepHolds ==
    ASSUME OneProcess, IInv, [Next]_moneyVars
    PROVE  IInv' /\ [StaysClosed]_moneyVars
  <1>1. CASE UNCHANGED moneyVars
    BY <1>1 DEF moneyVars, IInv, TypeOK, Reconciled, PotPaidOnce, RowsHold, RefsHold, CallsHold
  <1>2. ASSUME NEW i \in Instances, NEW id \in MatchIds, Request(i, id) \/ CallStep(i, id)
        PROVE  IInv' /\ StaysClosed
    <2>1. CASE findReturns(i, id)  BY <2>1, ReturnsQuietly DEF findReturns
    <2>2. CASE commitFails(i, id)  BY <2>2, ReturnsQuietly DEF commitFails
    <2>3. QED  BY <1>2, <2>1, <2>2, RequestStep, FindStep, CommitStep DEF CallStep
  <1>3. QED  BY <1>1, <1>2, SweepSteps, WalletSteps, CrashStep DEF Next

\* The invariant the other theorems rest on.
LEMMA InvariantHolds == ASSUME OneProcess PROVE Spec => []IInv
  <1>1. MoneyInit => IInv  BY MoneyInitHolds
  <1>2. IInv /\ [Next]_moneyVars => IInv'  BY StepHolds
  <1>3. QED  BY <1>1, <1>2, PTL DEF Spec

\* Types: with one process no balance is ever negative, whatever debits overlap.
THEOREM MoneyTypes == ASSUME OneProcess PROVE Spec => []TypeOK
  <1>1. IInv => TypeOK  BY DEF IInv
  <1>2. QED  BY <1>1, InvariantHolds, PTL

\* WalletService.reconcile finds no discrepancy in any reachable state.
THEOREM BalancesReconcile == ASSUME OneProcess PROVE Spec => []Reconciled
  <1>1. IInv => Reconciled  BY DEF IInv
  <1>2. QED  BY <1>1, InvariantHolds, PTL

\* With one process the pot of every match is paid out once and exactly, whatever
\* calls, sweeps, failed transactions and crashes happen.
THEOREM PotIsPaidOnce == ASSUME OneProcess PROVE Spec => []PotPaidOnce
  <1>1. IInv => PotPaidOnce  BY DEF IInv
  <1>2. QED  BY <1>1, InvariantHolds, PTL

\* With one process no match both pays a winner and refunds a stake.
THEOREM MatchIsPaidOneWay == ASSUME OneProcess PROVE Spec => []PaidOneWay
  <1>1. IInv => PaidOneWay
    <2> SUFFICES ASSUME IInv, NEW id \in MatchIds, NEW s \in 0..3, NEW t \in 0..3,
                        Ref("payout", id, s) \in refs, Ref("refund", id, t) \in refs
                 PROVE  FALSE
      BY DEF PaidOneWay
    <2>1. row[id].status = "settled" /\ row[id].status = "cancelled"  BY DEF IInv, RefsHold
    <2>2. QED  BY <2>1
  <1>2. QED  BY <1>1, InvariantHolds, PTL

\* With one process a match that was settled or refunded stays so, and no money
\* moves for it any more.
THEOREM ClosedStaysClosed == ASSUME OneProcess PROVE Spec => ClosedForGood
  <1>1. IInv /\ [Next]_moneyVars => [StaysClosed]_moneyVars  BY StepHolds
  <1>2. QED  BY <1>1, InvariantHolds, PTL DEF Spec, ClosedForGood, StaysClosed
=============================================================================
