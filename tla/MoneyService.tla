---------------------------- MODULE MoneyService ----------------------------
(***************************************************************************)
(* Stakes, pots and payouts (packages/server/src/money): WalletService and *)
(* its ledger, MoneyService's escrow / settle / refund and the recovery    *)
(* sweep, run by one or more server processes over one database.           *)
(*                                                                         *)
(* The database keeps balances, the ledger and the match rows.  The ledger *)
(* is what the code's own audits read of it: the sum per user (reconcile), *)
(* the sum per match (matchLedgerSums), the rake booked, and the provider  *)
(* references, which are unique.  A process keeps only the calls it has in *)
(* flight.  Each call is split where the code awaits: it claims the match  *)
(* id, reads the row, and commits ONE database transaction, which may also *)
(* fail and roll back.                                                     *)
(***************************************************************************)
EXTENDS Integers, TLC

CONSTANTS
    Instances,  \* server processes sharing the database; one in production
    Users,
    MatchIds,
    Rosters,    \* who may sit at a table: functions from seats to users
    Stakes,     \* the stakes considered, in cents
    RakeBps,    \* the house's share, in basis points
    Ceiling,    \* BALANCE_CEILING_CENTS
    Purse,      \* what every user has deposited at the start
    Deposits    \* deposits notified by the payment provider: [ref, user, amount]

ASSUME RostersAssumption ==
    \A roster \in Rosters :
      /\ DOMAIN roster \subseteq 0..3 /\ DOMAIN roster # {}
      /\ \A s \in DOMAIN roster : roster[s] \in Users
      /\ \A s, t \in DOMAIN roster : roster[s] = roster[t] => s = t   \* one seat each
ASSUME MatchIdsAssumption == MatchIds \subseteq Nat \ {0}
ASSUME StakesAssumption == Stakes \subseteq Nat
ASSUME RakeAssumption == RakeBps \in 0..10000
ASSUME PurseAssumption == Ceiling \in Nat /\ Purse \in 0..Ceiling
ASSUME DepositsAssumption ==
    Deposits \subseteq [ref : STRING, user : Users, amount : Nat \ {0}]

VARIABLES
    balance,   \* user -> stored balance
    ledgerSum, \* user -> sum of the user's ledger rows
    matchSum,  \* match id -> sum of the ledger rows that name the match
    refs,      \* the provider references in the ledger
    house,     \* sum of the rake rows
    row,       \* match id -> its row, or NoRow
    call,      \* process -> match id -> the call in flight there (inFlight), or Idle
    sweep      \* process -> the recovery sweep it is running

moneyVars == <<balance, ledgerSum, matchSum, refs, house, row, call, sweep>>
ledgerVars == <<balance, ledgerSum, matchSum, refs, house>>

NoRow == [status |-> "none", stake |-> 0, players |-> <<>>]
NoMatch == 0
Idle == [kind |-> "idle", pc |-> "none", stake |-> 0, players |-> <<>>, winners |-> {}, by |-> "none"]
NoSweep == [pc |-> "idle", live |-> {}, todo |-> {}, cur |-> NoMatch]

-----------------------------------------------------------------------------
(* Arithmetic over the seats, of which there are at most four.             *)

At(f, s) == IF s \in DOMAIN f THEN f[s] ELSE 0
Total(f) == At(f, 0) + At(f, 1) + At(f, 2) + At(f, 3)
SizeOf(S) == Total([s \in S |-> 1])

potCents(stake, players) == stake * SizeOf(DOMAIN players)

\* Mutant of computeSettlement: the odd cents are dropped.
computeSettlement_floors(pot, winners) ==
    LET rake == (pot * RakeBps) \div 10000
    IN  [rake |-> rake, payouts |-> [s \in winners |-> (pot - rake) \div SizeOf(winners)]]

\* The house keeps the floor of its share, the winners split the rest; the odd
\* cents go one each to the first seats.
computeSettlement(pot, winners) ==
    LET rake == (pot * RakeBps) \div 10000
        take == pot - rake
        base == take \div SizeOf(winners)
        odd == take - base * SizeOf(winners)
        place(s) == SizeOf({t \in winners : t < s})
    IN  [rake |-> rake,
         payouts |-> [s \in winners |-> IF place(s) < odd THEN base + 1 ELSE base]]

\* Of amounts per seat, what `user` gets.
ShareOf(user, players, amounts) ==
    LET mine == {s \in DOMAIN amounts : players[s] = user}
    IN  IF mine = {} THEN 0 ELSE amounts[CHOOSE s \in mine : TRUE]

-----------------------------------------------------------------------------
(* Wallet movements inside a transaction.  `amounts` are per seat; a       *)
(* credit whose reference is in the ledger already is a replay and moves   *)
(* nothing.                                                                *)

Ref(what, id, seat) == <<what, id, seat>>

Fresh(what, id, amounts) ==
    [s \in DOMAIN amounts |-> IF Ref(what, id, s) \in refs THEN 0 ELSE amounts[s]]

FitsCeiling(players, amounts) ==
    \A s \in DOMAIN amounts : amounts[s] > 0 => balance[players[s]] + amounts[s] <= Ceiling

\* credit() for every seat of `amounts`, then recordRake() when there is a rake.
CreditAll(what, id, players, amounts, rake) ==
    LET due == Fresh(what, id, amounts)
        gain == [u \in Users |-> ShareOf(u, players, due)]
        rakeDue == IF Ref("rake", id, 0) \in refs THEN 0 ELSE rake
    IN  /\ balance' = [u \in Users |-> balance[u] + gain[u]]
        /\ ledgerSum' = [u \in Users |-> ledgerSum[u] + gain[u]]
        /\ matchSum' = [matchSum EXCEPT ![id] = @ + Total(due) + rakeDue]
        /\ house' = house + rakeDue
        /\ refs' = refs \cup {Ref(what, id, s) : s \in {t \in DOMAIN amounts : amounts[t] > 0}}
                        \cup (IF rake > 0 THEN {Ref("rake", id, 0)} ELSE {})

\* adjustBalance refuses to overdraw.
CanPay(players, stake) == \A s \in DOMAIN players : balance[players[s]] >= stake

\* debit() for every player of the match.
DebitAll(id, players, stake) ==
    LET loss == [u \in Users |-> ShareOf(u, players, [s \in DOMAIN players |-> stake])]
    IN  /\ balance' = [u \in Users |-> balance[u] - loss[u]]
        /\ ledgerSum' = [u \in Users |-> ledgerSum[u] - loss[u]]
        /\ matchSum' = [matchSum EXCEPT ![id] = @ - potCents(stake, players)]
        /\ UNCHANGED <<refs, house>>

-----------------------------------------------------------------------------
(* The calls of MoneyService.  `i` is the process, `id` the match.         *)

Return(i, id) == call' = [call EXCEPT ![i][id] = Idle]

\* inFlight.add: a call for a match that has one in flight is turned away.
Claim(i, id, request) ==
    /\ call[i][id] = Idle
    /\ call' = [call EXCEPT ![i][id] = request]

escrow(i, id, stake, players) ==
    Claim(i, id, [Idle EXCEPT !.kind = "escrow", !.pc = "find", !.stake = stake, !.players = players])
settle(i, id, winners) ==
    Claim(i, id, [Idle EXCEPT !.kind = "settle", !.pc = "find", !.winners = winners])
refund(i, id, by) ==
    Claim(i, id, [Idle EXCEPT !.kind = "refund", !.pc = "find", !.by = by])

\* Settle and refund go on only with an active row, settle only with a winner
\* who is one of its players.
Closable(r, request) ==
    /\ r.status = "active"
    /\ request.kind = "settle" => request.winners \cap DOMAIN r.players # {}

\* The row is read, and for an escrow the balances, outside any transaction.
FindProceeds(i, id) ==
    LET request == call[i][id]
    IN  CASE request.kind = "escrow" ->
               row[id] = NoRow /\ (request.stake > 0 => CanPay(request.players, request.stake))
          [] OTHER -> Closable(row[id], request)

\* What a call remembers of the row it read.
Remembered(i, id) ==
    LET request == call[i][id]
    IN  IF request.kind = "escrow" THEN [request EXCEPT !.pc = "commit"]
        ELSE [request EXCEPT !.pc = "commit", !.stake = row[id].stake, !.players = row[id].players,
                             !.winners = @ \cap DOMAIN row[id].players]

\* Does the transaction go through?  A debit that would overdraw, a row that
\* exists already or a credit beyond the ceiling throws and rolls all of it back.
Goes(i, id) ==
    LET request == call[i][id]
        pot == potCents(request.stake, request.players)
    IN  CASE request.kind = "escrow" ->
               row[id] = NoRow /\ CanPay(request.players, request.stake)
          [] request.kind = "settle" ->
               FitsCeiling(request.players,
                           Fresh("payout", id, computeSettlement(pot, request.winners).payouts))
          [] request.kind = "refund" ->
               FitsCeiling(request.players,
                           Fresh("refund", id, [s \in DOMAIN request.players |-> request.stake]))

\* Mutant of Mark: the row is not flipped with the payment.
Mark_forgotten(id, status) == UNCHANGED row

\* markSettled / markCancelled touch the row only while it is active.
Mark(id, status) ==
    row' = [row EXCEPT ![id].status = IF @ = "active" THEN status ELSE @]

CommitEscrow(i, id) ==
    LET request == call[i][id]
    IN  /\ DebitAll(id, request.players, request.stake)
        /\ row' = [row EXCEPT ![id] = [status |-> "active", stake |-> request.stake,
                                       players |-> request.players]]

CommitSettle(i, id) ==
    LET request == call[i][id]
        share == computeSettlement(potCents(request.stake, request.players), request.winners)
    IN  /\ CreditAll("payout", id, request.players, share.payouts, share.rake)
        /\ Mark(id, "settled")

CommitRefund(i, id) ==
    LET request == call[i][id]
    IN  /\ CreditAll("refund", id, request.players,
                     [s \in DOMAIN request.players |-> request.stake], 0)
        /\ Mark(id, "cancelled")

Commit(i, id) ==
    CASE call[i][id].kind = "escrow" -> CommitEscrow(i, id)
      [] call[i][id].kind = "settle" -> CommitSettle(i, id)
      [] call[i][id].kind = "refund" -> CommitRefund(i, id)

-----------------------------------------------------------------------------
(* recoverOrphanedMatches(live): the caller fixes the set of live matches, *)
(* the active rows are listed, then refunded one after the other; a refund *)
(* that throws ends the sweep.                                             *)

startSweep(i, live) ==
    /\ sweep[i] = NoSweep
    /\ sweep' = [sweep EXCEPT ![i] = [NoSweep EXCEPT !.pc = "listing", !.live = live]]
    /\ UNCHANGED <<ledgerVars, row, call>>

listActive(i) ==
    /\ sweep[i].pc = "listing"
    /\ sweep' = [sweep EXCEPT
         ![i].pc = "refunding",
         ![i].todo = {id \in MatchIds : row[id].status = "active"} \ sweep[i].live]
    /\ UNCHANGED <<ledgerVars, row, call>>

sweepOne(i, id) ==
    /\ sweep[i].pc = "refunding"
    /\ sweep[i].cur = NoMatch
    /\ id \in sweep[i].todo
    /\ \/ /\ refund(i, id, "sweep")
          /\ sweep' = [sweep EXCEPT ![i].todo = @ \ {id}, ![i].cur = id]
       \/ /\ call[i][id] # Idle
          /\ sweep' = [sweep EXCEPT ![i].todo = @ \ {id}]
          /\ UNCHANGED call
    /\ UNCHANGED <<ledgerVars, row>>

sweepDone(i) ==
    /\ sweep[i].pc = "refunding"
    /\ sweep[i].cur = NoMatch
    /\ sweep[i].todo = {}
    /\ sweep' = [sweep EXCEPT ![i] = NoSweep]
    /\ UNCHANGED <<ledgerVars, row, call>>

\* The sweep goes on after its refund returned, and stops after one that threw.
SweepResumes(i, id, threw) ==
    sweep' = CASE call[i][id].by # "sweep" -> sweep
               [] call[i][id].by = "sweep" /\ threw -> [sweep EXCEPT ![i] = NoSweep]
               [] OTHER -> [sweep EXCEPT ![i].cur = NoMatch]

-----------------------------------------------------------------------------
(* The steps of a call after the claim.                                    *)

findStep(i, id) ==
    /\ call[i][id].pc = "find"
    /\ FindProceeds(i, id)
    /\ call' = [call EXCEPT ![i][id] = Remembered(i, id)]
    /\ UNCHANGED <<ledgerVars, row, sweep>>

\* Nothing to do, or not enough money: the call returns.
findReturns(i, id) ==
    /\ call[i][id].pc = "find"
    /\ ~FindProceeds(i, id)
    /\ Return(i, id)
    /\ SweepResumes(i, id, FALSE)
    /\ UNCHANGED <<ledgerVars, row>>

commitStep(i, id) ==
    /\ call[i][id].pc = "commit"
    /\ Goes(i, id)
    /\ Commit(i, id)
    /\ Return(i, id)
    /\ SweepResumes(i, id, FALSE)

\* The transaction fails, on its own conditions or because the database does.
commitFails(i, id) ==
    /\ call[i][id].pc = "commit"
    /\ Return(i, id)
    /\ SweepResumes(i, id, TRUE)
    /\ UNCHANGED <<ledgerVars, row>>

-----------------------------------------------------------------------------
(* The wallet's other movements.                                           *)

\* A deposit notified by the provider, any number of times.
deposit(d) ==
    /\ Ref("deposit", d.ref, 0) \notin refs
    /\ balance[d.user] + d.amount <= Ceiling
    /\ balance' = [balance EXCEPT ![d.user] = @ + d.amount]
    /\ ledgerSum' = [ledgerSum EXCEPT ![d.user] = @ + d.amount]
    /\ refs' = refs \cup {Ref("deposit", d.ref, 0)}
    /\ UNCHANGED <<matchSum, house, row, call, sweep>>

\* Mutant of transfer: the receiver's ledger row is forgotten.
transfer_oneRow(from, to, amount) ==
    /\ from # to
    /\ balance[from] >= amount
    /\ balance[to] + amount <= Ceiling
    /\ balance' = [balance EXCEPT ![from] = @ - amount, ![to] = @ + amount]
    /\ ledgerSum' = [ledgerSum EXCEPT ![from] = @ - amount]
    /\ UNCHANGED <<matchSum, refs, house, row, call, sweep>>

\* One player sends another `amount`: a debit and a credit in one transaction.
transfer(from, to, amount) ==
    /\ from # to
    /\ balance[from] >= amount
    /\ balance[to] + amount <= Ceiling
    /\ balance' = [balance EXCEPT ![from] = @ - amount, ![to] = @ + amount]
    /\ ledgerSum' = [ledgerSum EXCEPT ![from] = @ - amount, ![to] = @ + amount]
    /\ UNCHANGED <<matchSum, refs, house, row, call, sweep>>

\* The process dies: its calls and its sweep are lost, the database stays.
crash(i) ==
    /\ call' = [call EXCEPT ![i] = [id \in MatchIds |-> Idle]]
    /\ sweep' = [sweep EXCEPT ![i] = NoSweep]
    /\ UNCHANGED <<ledgerVars, row>>

-----------------------------------------------------------------------------
MoneyInit ==
    /\ balance = [u \in Users |-> Purse]
    /\ ledgerSum = [u \in Users |-> Purse]
    /\ matchSum = [id \in MatchIds |-> 0]
    /\ refs = {}
    /\ house = 0
    /\ row = [id \in MatchIds |-> NoRow]
    /\ call = [i \in Instances |-> [id \in MatchIds |-> Idle]]
    /\ sweep = [i \in Instances |-> NoSweep]

\* Callers ask for anything at any time: nothing here relies on their order.
Request(i, id) ==
    /\ \/ \E stake \in Stakes, players \in Rosters : escrow(i, id, stake, players)
       \/ \E winners \in (SUBSET UNION {DOMAIN r : r \in Rosters}) \ {{}} : settle(i, id, winners)
       \/ refund(i, id, "caller")
    /\ UNCHANGED <<ledgerVars, row, sweep>>

CallStep(i, id) ==
    \/ findStep(i, id) \/ findReturns(i, id) \/ commitStep(i, id) \/ commitFails(i, id)

SweepStep(i) == listActive(i) \/ (\E id \in MatchIds : sweepOne(i, id)) \/ sweepDone(i)

WalletStep ==
    \/ \E d \in Deposits : deposit(d)
    \/ \E from, to \in Users : \E amount \in Stakes \ {0} : transfer(from, to, amount)

Next ==
    \/ \E i \in Instances, id \in MatchIds : Request(i, id) \/ CallStep(i, id)
    \/ \E i \in Instances, live \in SUBSET MatchIds : startSweep(i, live)
    \/ \E i \in Instances : SweepStep(i) \/ crash(i)
    \/ WalletStep

Spec == MoneyInit /\ [][Next]_moneyVars

-----------------------------------------------------------------------------
Requests == [kind : {"idle", "escrow", "settle", "refund"}, pc : {"none", "find", "commit"},
             stake : Nat, players : Rosters \cup {<<>>}, winners : SUBSET (0..3),
             by : {"none", "caller", "sweep"}]

TypeOK ==
    /\ balance \in [Users -> Nat]
    /\ ledgerSum \in [Users -> Int]
    /\ matchSum \in [MatchIds -> Int]
    /\ house \in Nat
    /\ row \in [MatchIds -> [status : {"none", "active", "settled", "cancelled"}, stake : Nat,
                             players : Rosters \cup {<<>>}]]
    /\ call \in [Instances -> [MatchIds -> Requests]]
    /\ sweep \in [Instances -> [pc : {"idle", "listing", "refunding"}, live : SUBSET MatchIds,
                                todo : SUBSET MatchIds, cur : MatchIds \cup {NoMatch}]]

\* One server process, the deployment the repository's runbook prescribes.
OneProcess == \A i, j \in Instances : i = j

\* WalletService.reconcile: every stored balance is the sum of its ledger rows.
Reconciled == \A u \in Users : balance[u] = ledgerSum[u]

\* The stake of an active match is in its pot, and a closed match has paid out
\* exactly what was staked: whatever calls overlap, fail or are repeated, the
\* pot is paid once (matchLedgerSums is 0 for a closed match).
PotPaidOnce ==
    \A id \in MatchIds :
      matchSum[id] = IF row[id].status = "active" THEN -potCents(row[id].stake, row[id].players)
                     ELSE 0

\* No match both pays a winner and refunds a stake.
PaidOneWay ==
    \A id \in MatchIds : \A s, t \in 0..3 :
      ~(Ref("payout", id, s) \in refs /\ Ref("refund", id, t) \in refs)

\* A closed match stays closed, and no call on it moves money any more.
ClosedForGood ==
    [][\A id \in MatchIds : row[id].status \in {"settled", "cancelled"} =>
         row'[id] = row[id] /\ matchSum'[id] = matchSum[id]]_moneyVars

-----------------------------------------------------------------------------
(* The instance TLC checks: the stakes of two matches draw on the same two *)
(* purses, which cover only one of them; the pot of 14 cents less the rake *)
(* leaves an odd cent to split.                                            *)

MCRosters == {0 :> "ana" @@ 1 :> "ben"}
MCDeposits == {[ref |-> "tx1", user |-> "ben", amount |-> 7]}
=============================================================================
