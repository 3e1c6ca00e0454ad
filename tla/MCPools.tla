------------------------------ MODULE MCPools ------------------------------
(***************************************************************************)
(* Three services that hold players' money and share no state, in one run: *)
(* each behaviour is of the service that `running` names, and the others   *)
(* stay in their initial state, where nothing fair is enabled.  The values *)
(* TLC gives the parameters are at the end.                                *)
(***************************************************************************)
EXTENDS Integers, FiniteSets, TLC

CONSTANTS
    Payers, Txs, Intents, PayerOf, CentsOf, MinDeposit, Limits, TransferCap, Gift,
    OpeningCents, MaxTroubles,                   \* WalletRoutes
    Settings, Admins,                            \* Tournament
    Size, Stakes, RakeBps, MaxTroublesW          \* ClubWar

VARIABLES
    running,
    purse, credited, sentOut, gotIn, limit, highest, blocked, onChain, opened, watched,
    alerted, inbound, outbound, troubles,
    setting, phase, entered, winner, pendingWinner, reportedBy, recorded, marked, room,
    joined, noShow, runAsked, toStart, toReport, refunding, rows, torn, troublesT,
    stake, war, roster, pairings, beat, working, outgo, tornWar, troublesW

Wallet == INSTANCE WalletRoutes
Cup == INSTANCE Tournament
War == INSTANCE ClubWar

\* Amounts are whole cents; finitely many deposits are under way.
ASSUME DepositsAssumption ==
    /\ IsFiniteSet(Txs \cup Intents)
    /\ PayerOf \in [Txs \cup Intents -> Payers] /\ CentsOf \in [Txs \cup Intents -> Nat]
    /\ Limits \subseteq Nat /\ TransferCap \in Nat /\ Gift \in Nat /\ OpeningCents \in Nat

\* A tournament has a size.
ASSUME SettingsAssumption == \A s \in Settings : s.capacity \in Nat

\* A war has a size, a stake in whole cents and a rake of at most all of it.
ASSUME WarAssumption == Size \in Nat /\ Stakes \subseteq Nat /\ RakeBps \in 0..10000

walletVars == <<purse, credited, sentOut, gotIn, limit, highest, blocked, onChain, opened, watched,
                alerted, inbound, outbound, troubles>>
cupVars == <<setting, phase, entered, winner, pendingWinner, reportedBy, recorded, marked, room,
             joined, noShow, runAsked, toStart, toReport, refunding, rows, torn, troublesT>>
warVars == <<stake, war, roster, pairings, beat, working, outgo, tornWar, troublesW>>
poolVars == <<running, walletVars, cupVars, warVars>>

\* The services that do not run stay in one initial state.
PoolsInit ==
    /\ running \in {"wallet", "cup", "war"}
    /\ Wallet!Init /\ Cup!Init /\ War!Init
    /\ running = "wallet" \/ limit = CHOOSE f \in [Wallet!Depositors -> Limits] : TRUE
    /\ running = "cup" \/ setting = CHOOSE s \in Settings : TRUE
    /\ running = "war" \/ stake = CHOOSE s \in Stakes : TRUE

PoolsNext ==
    /\ UNCHANGED running
    /\ \/ running = "wallet" /\ Wallet!Next /\ UNCHANGED <<cupVars, warVars>>
       \/ running = "cup" /\ Cup!Next /\ UNCHANGED <<walletVars, warVars>>
       \/ running = "war" /\ War!Next /\ UNCHANGED <<walletVars, cupVars>>

PoolsSpec ==
    /\ PoolsInit /\ [][PoolsNext]_poolVars
    /\ Wallet!Fairness /\ Cup!Fairness /\ War!Fairness

-----------------------------------------------------------------------------
\* WalletRoutes: a deposit is credited once, whichever way it comes in, and limits
\* read before the money moves hold when it has moved.
DepositsAreExact == Wallet!CreditedOnce /\ Wallet!DailyCapsHold
\* Tournament and ClubWar: a pool leaves the escrow once, as prizes or as refunds
\* and never some of each, whatever overlaps, fails or is retried.
PoolsPaidOnce == Cup!PoolPaidOnce /\ War!WarPaidOnce
\* A transfer to a watched address is credited, or the operator told (WalletRoutes);
\* whatever happens to a bracket or a war, its pool is paid out or refunded in the end
\* (Tournament, ClubWar).
MoneyIsReleased == Wallet!DepositIsHandled /\ Cup!PoolIsReleased /\ War!WarIsSettled
\* Tournament: what a refund that stopped half way gave back is not in the prize.
HalfRefundIsSafe == Cup!HalfRefundIsSafe

-----------------------------------------------------------------------------
\* Two deposits of one user that do not both fit under a limit of 4 cents.
MCPayerOf == [d \in {"t1", "i1"} |-> "ana"]
MCCentsOf == [d \in {"t1", "i1"} |-> 3]
\* Two rounds without failures; a final that two administrators decide, with one.
MCSettings == {[capacity |-> 4, dualControl |-> FALSE, troubles |-> 0],
               [capacity |-> 2, dualControl |-> TRUE, troubles |-> 1]}
=============================================================================
