---------------------------- MODULE WalletRoutes ----------------------------
(***************************************************************************)
(* Money in and money between players (packages/server/src/http/           *)
(* walletRoutes.ts, money/depositPoller.ts, money/tronDeposit.ts and the   *)
(* deposit side of WalletService.credit).  A deposit reaches the server    *)
(* three ways: the player submits the transaction id, the poller finds the *)
(* transfer on the player's own address, or the payment provider calls the *)
(* webhook of an intent.  Each way checks the account, reads the player's  *)
(* daily limit, and then credits; the credit takes the user's deposit lock *)
(* when there is a limit, adds up the day and commits.  All steps fall on  *)
(* one day.                                                                *)
(***************************************************************************)
EXTENDS Integers

CONSTANTS
    Payers,       \* users
    Txs,          \* transfers on chain, to the users' own addresses
    Intents,      \* hosted deposits
    PayerOf,      \* transfer or intent -> user
    CentsOf,      \* transfer or intent -> cents
    MinDeposit,   \* MIN_DEPOSIT_CENTS
    Limits,       \* daily deposit limits a player may set; NoLimit clears it
    TransferCap,  \* daily cap on transfers to friends, 0 for none
    Gift,         \* the amount of a transfer between friends
    OpeningCents, \* what every user holds at the start
    MaxTroubles   \* bound on transactions that fail

VARIABLES
    purse,    \* user -> balance
    credited, \* the deposits in the ledger, by their unique reference
    sentOut,  \* user -> transferred out that day
    gotIn,    \* user -> transferred in
    limit,    \* depositor -> daily deposit limit
    highest,  \* depositor -> the highest limit that day (history)
    blocked,  \* users whose account or compliance profile forbids deposits
    onChain,  \* transfers that have been confirmed (external)
    opened,   \* intents recorded and not expired
    watched,  \* users whose address the poller looks at
    alerted,  \* transfers the operator was told about
    inbound,  \* way -> the deposit being handled there
    outbound, \* user -> the transfer being handled
    troubles  \* failed transactions so far

walletVars == <<purse, credited, sentOut, gotIn, limit, highest, blocked, onChain, opened,
                watched, alerted, inbound, outbound, troubles>>

NoLimit == 0
Depositors == {PayerOf[d] : d \in Txs \cup Intents}
Ways == {"txid", "poller", "webhook"}
NoDeposit == [pc |-> "idle", item |-> "none", cap |-> NoLimit]
Deposited(u) == {d \in credited : PayerOf[d] = u}
\* The amounts of a set of deposits, added up.
Cents[S \in SUBSET (Txs \cup Intents)] ==
    IF S = {} THEN 0
    ELSE LET d == CHOOSE d \in S : TRUE IN CentsOf[d] + Cents[S \ {d}]
\* A cap of NoLimit, or one that covers the amount.
Covers(cap, amount) == cap = NoLimit \/ amount <= cap

Init ==
    /\ purse = [u \in Payers |-> OpeningCents]
    /\ credited = {}
    /\ sentOut = [u \in Payers |-> 0]
    /\ gotIn = [u \in Payers |-> 0]
    /\ limit \in [Depositors -> Limits]
    /\ highest = limit
    /\ blocked = {}
    /\ onChain = {}
    /\ opened = {}
    /\ watched = {}
    /\ alerted = {}
    /\ inbound = [way \in Ways |-> NoDeposit]
    /\ outbound = [u \in Payers |-> "idle"]
    /\ troubles = 0

-----------------------------------------------------------------------------
(* The three ways in, up to the credit.                                    *)

\* A transfer is confirmed on chain (external).
transferArrives(t) ==
    /\ t \notin onChain
    /\ onChain' = onChain \cup {t}
    /\ UNCHANGED <<purse, credited, sentOut, gotIn, limit, highest, blocked, opened, watched,
                   alerted, inbound, outbound, troubles>>

\* The gates passed and the limit read, the deposit goes on to the credit.
Accept(way, d) == inbound' = [inbound EXCEPT ![way] =
                                [pc |-> "credit", item |-> d, cap |-> limit[PayerOf[d]]]]

\* verify(): the transfer is confirmed, and went to the caller's own address.
verified(t, u) == t \in onChain /\ PayerOf[t] = u

\* The player submits a transaction id.
submitTxid(t, u) ==
    /\ inbound["txid"].pc = "idle"
    /\ u \notin blocked /\ verified(t, u) /\ CentsOf[t] >= MinDeposit
    /\ Accept("txid", t)
    /\ UNCHANGED <<purse, credited, sentOut, gotIn, limit, highest, blocked, onChain, opened,
                   watched, alerted, outbound, troubles>>

\* The deposit screen is opened: the poller watches the address, for two hours.
markWatching(u) ==
    /\ watched' = watched \cup {u}
    /\ UNCHANGED <<purse, credited, sentOut, gotIn, limit, highest, blocked, onChain, opened,
                   alerted, inbound, outbound, troubles>>

watchExpires(u) ==
    /\ watched' = watched \ {u}
    /\ UNCHANGED <<purse, credited, sentOut, gotIn, limit, highest, blocked, onChain, opened,
                   alerted, inbound, outbound, troubles>>

\* Mutant of Alert: the transfer is left for the operator, who is not told.
Alert_none(t) == UNCHANGED alerted

\* The operator is told once about a transfer that cannot be credited.
Alert(t) == alerted' = alerted \cup {t}

\* The poller comes to a transfer on a watched address.
poll(t) ==
    /\ inbound["poller"].pc = "idle"
    /\ PayerOf[t] \in watched /\ t \in onChain /\ CentsOf[t] >= MinDeposit
    /\ \/ /\ PayerOf[t] \in blocked
          /\ Alert(t)
          /\ UNCHANGED inbound
       \/ /\ PayerOf[t] \notin blocked
          /\ Accept("poller", t)
          /\ UNCHANGED alerted
    /\ UNCHANGED <<purse, credited, sentOut, gotIn, limit, highest, blocked, onChain, opened,
                   watched, outbound, troubles>>

\* checkDeposit(): the limit against what was deposited that day.
checkDeposit(d) == Covers(limit[PayerOf[d]], Cents[Deposited(PayerOf[d])] + CentsOf[d])

\* The player asks for a hosted deposit: its intent is recorded.
depositRoute(i) ==
    /\ i \notin opened /\ PayerOf[i] \notin blocked /\ checkDeposit(i)
    /\ opened' = opened \cup {i}
    /\ UNCHANGED <<purse, credited, sentOut, gotIn, limit, highest, blocked, onChain, watched,
                   alerted, inbound, outbound, troubles>>

\* INTENT_TTL_MS after it was recorded, an intent is refused.
intentExpires(i) ==
    /\ opened' = opened \ {i}
    /\ UNCHANGED <<purse, credited, sentOut, gotIn, limit, highest, blocked, onChain, watched,
                   alerted, inbound, outbound, troubles>>

\* The provider confirms an intent, perhaps more than once.  The user and the
\* amount are the intent's.
webhook(i) ==
    /\ inbound["webhook"].pc = "idle"
    /\ i \in opened /\ checkDeposit(i)
    /\ Accept("webhook", i)
    /\ UNCHANGED <<purse, credited, sentOut, gotIn, limit, highest, blocked, onChain, opened,
                   watched, alerted, outbound, troubles>>

-----------------------------------------------------------------------------
(* credit(): with a limit, under the user's lock.                          *)

\* Mutant of Locked: capped deposits of one user are not serialised.
Locked_never(u) == FALSE

\* serializeDeposit and the advisory lock: one capped deposit per user at a time.
Locked(u) ==
    \E way \in Ways : /\ inbound[way].pc = "commit" /\ inbound[way].cap # NoLimit
                      /\ PayerOf[inbound[way].item] = u

\* The transaction adds up the day, unless this is a replay.  Over the limit it
\* ends; the poller tells the operator.
beginCredit(way) ==
    LET d == inbound[way].item
        u == PayerOf[d]
        cap == inbound[way].cap
        fits == d \in credited \/ Covers(cap, Cents[Deposited(u)] + CentsOf[d])
    IN  /\ inbound[way].pc = "credit"
        /\ cap # NoLimit => ~Locked(u)
        /\ inbound' = [inbound EXCEPT ![way] = IF fits THEN [@ EXCEPT !.pc = "commit"] ELSE NoDeposit]
        /\ IF ~fits /\ way = "poller" THEN Alert(d) ELSE UNCHANGED alerted
        /\ UNCHANGED <<purse, credited, sentOut, gotIn, limit, highest, blocked, onChain, opened,
                       watched, outbound, troubles>>

\* Mutant of commitCredit: the insert is not asked whether it was the first.
commitCredit_always(way) ==
    LET d == inbound[way].item
    IN  /\ inbound[way].pc = "commit"
        /\ credited' = credited \cup {d}
        /\ purse' = [purse EXCEPT ![PayerOf[d]] = @ + CentsOf[d]]
        /\ inbound' = [inbound EXCEPT ![way] = NoDeposit]
        /\ UNCHANGED <<sentOut, gotIn, limit, highest, blocked, onChain, opened, watched, alerted,
                       outbound, troubles>>

\* appendIdempotent, and the balance only when the row is new.
commitCredit(way) ==
    LET d == inbound[way].item
    IN  /\ inbound[way].pc = "commit"
        /\ credited' = credited \cup {d}
        /\ purse' = [purse EXCEPT ![PayerOf[d]] = IF d \in credited THEN @ ELSE @ + CentsOf[d]]
        /\ inbound' = [inbound EXCEPT ![way] = NoDeposit]
        /\ UNCHANGED <<sentOut, gotIn, limit, highest, blocked, onChain, opened, watched, alerted,
                       outbound, troubles>>

\* The transaction fails and rolls back.
creditFails(way) ==
    /\ inbound[way].pc \in {"credit", "commit"} /\ troubles < MaxTroubles
    /\ troubles' = troubles + 1
    /\ inbound' = [inbound EXCEPT ![way] = NoDeposit]
    /\ UNCHANGED <<purse, credited, sentOut, gotIn, limit, highest, blocked, onChain, opened,
                   watched, alerted, outbound>>

-----------------------------------------------------------------------------
(* A transfer between friends.  With a cap, one at a time per sender.      *)

\* The day's total is read on the sender's chain.
transferBegin(u, v) ==
    /\ u # v /\ u \notin blocked /\ v \notin blocked
    /\ outbound[u] = "idle"
    /\ Covers(TransferCap, sentOut[u] + Gift)
    /\ outbound' = [outbound EXCEPT ![u] = "one"]
    /\ UNCHANGED <<purse, credited, sentOut, gotIn, limit, highest, blocked, onChain, opened,
                   watched, alerted, inbound, troubles>>

\* transfer(): the debit and the credit are one transaction, which refuses to
\* overdraw.
transferCommit(u, v) ==
    /\ u # v /\ outbound[u] # "idle"
    /\ outbound' = [outbound EXCEPT ![u] = IF @ = "two" THEN "one" ELSE "idle"]
    /\ IF purse[u] >= Gift
         THEN /\ purse' = [purse EXCEPT ![u] = @ - Gift, ![v] = @ + Gift]
              /\ sentOut' = [sentOut EXCEPT ![u] = @ + Gift]
              /\ gotIn' = [gotIn EXCEPT ![v] = @ + Gift]
         ELSE UNCHANGED <<purse, sentOut, gotIn>>
    /\ UNCHANGED <<credited, limit, highest, blocked, onChain, opened, watched, alerted, inbound, troubles>>

-----------------------------------------------------------------------------
\* setLimits(): the player lowers, raises or clears the daily limit.
setLimits(u, cap) ==
    /\ limit' = [limit EXCEPT ![u] = cap]
    /\ highest' = [highest EXCEPT ![u] = IF cap = NoLimit \/ @ = NoLimit THEN NoLimit
                                         ELSE IF cap > @ THEN cap ELSE @]
    /\ UNCHANGED <<purse, credited, sentOut, gotIn, blocked, onChain, opened, watched, alerted,
                   inbound, outbound, troubles>>

\* An account is frozen, or released again.
setBlocked(u) ==
    /\ blocked' = IF u \in blocked THEN blocked \ {u} ELSE blocked \cup {u}
    /\ UNCHANGED <<purse, credited, sentOut, gotIn, limit, highest, onChain, opened, watched,
                   alerted, inbound, outbound, troubles>>

Next ==
    \/ \E t \in Txs : transferArrives(t) \/ poll(t) \/ \E u \in Payers : submitTxid(t, u)
    \/ \E i \in Intents : depositRoute(i) \/ intentExpires(i) \/ webhook(i)
    \/ \E way \in Ways : beginCredit(way) \/ commitCredit(way) \/ creditFails(way)
    \/ \E u \in Depositors : markWatching(u) \/ watchExpires(u) \/ setBlocked(u)
    \/ \E u \in Depositors, cap \in Limits : setLimits(u, cap)
    \/ \E u, v \in Payers : transferBegin(u, v) \/ transferCommit(u, v)

\* A cycle of the poller comes to every transfer of every watched address, the
\* deposit chain is first come first served, and a transaction ends.
Fairness ==
    /\ \A t \in Txs : SF_walletVars(poll(t) /\ t \notin credited \cup alerted)
    /\ SF_walletVars(beginCredit("poller"))
    /\ \A way \in Ways : WF_walletVars(commitCredit(way))

-----------------------------------------------------------------------------
\* Whichever way a deposit comes in, and however often, it is credited once:
\* a balance is what the ledger's rows add up to (walletService.ts credit()).
CreditedOnce ==
    \A u \in Payers :
      purse[u] = OpeningCents + Cents[Deposited(u)] + gotIn[u] - sentOut[u]

\* Limits read before the money moves still hold when it has moved: the day's
\* deposits against the player's own limit, at its highest that day, and the
\* day's transfers against the cap.
DailyCapsHold ==
    \A u \in Payers :
      /\ u \in Depositors => Covers(highest[u], Cents[Deposited(u)])
      /\ Covers(TransferCap, sentOut[u])

\* A transfer to a watched address is credited, or the operator hears of it,
\* unless the watch ends first (pollDepositsOnce retries what failed).
DepositIsHandled ==
    \A t \in Txs :
      (t \in onChain /\ CentsOf[t] >= MinDeposit /\ PayerOf[t] \in watched)
        ~> (t \in credited \cup alerted \/ PayerOf[t] \notin watched)
=============================================================================
