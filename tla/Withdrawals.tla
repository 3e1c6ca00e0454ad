---------------------------- MODULE Withdrawals ----------------------------
(***************************************************************************)
(* Withdrawals and payouts (packages/server/src/money/withdrawals.ts,      *)
(* autoPayout.ts, withdrawalPolicy.ts, binancePayout.ts, paymentMonitor.ts *)
(* and the withdraw route).  The database keeps the balances, one row per  *)
(* withdrawal and the ledger's unique references; the process keeps the    *)
(* calls in flight: the withdraw route, the payout being sent and the      *)
(* reconciler.  A call is split where the code awaits.  The payment        *)
(* provider is external: it accepts a request or not, settles what it      *)
(* accepted some time later, and its answer may be lost or unreadable.     *)
(* All requests fall in one 24 hour window, so nothing leaves the totals   *)
(* the caps are compared with because of its age.                          *)
(***************************************************************************)
EXTENDS Integers, FiniteSets

CONSTANTS
    Ids,          \* the withdrawals that may be requested
    Users,
    Owners,       \* who may ask for what: functions from withdrawals to users
    AmountOf,     \* withdrawal -> cents
    DestOf,       \* withdrawal -> the address it goes to
    Purse,        \* what every user holds at the start
    Deployments,  \* configurations: the provider and the limits on automatic payouts
    MaxFaults     \* bound on crashes and failed transactions

ASSUME IdsAssumption == IsFiniteSet(Ids)
ASSUME OwnersAssumption == Owners \subseteq [Ids -> Users]
ASSUME AmountsAssumption == AmountOf \in [Ids -> Nat \ {0}]
ASSUME DeploymentsAssumption ==
    Deployments \subseteq [provider : BOOLEAN, auto : Nat, daily : Nat, global : Nat, dest : Nat]
ASSUME BoundsAssumption == Purse \in Nat /\ MaxFaults \in Nat

VARIABLES
    userOf,    \* withdrawal -> the user who asks for it
    conf,      \* the configuration the process was started with
    balance,   \* user -> cents
    row,       \* withdrawal -> status of its row
    payer,     \* withdrawal -> who resolved it: an administrator, or the automatic path
    refs,      \* the provider references of the credits in the ledger
    provider,  \* withdrawal -> what the payment provider did with it (external)
    task,      \* withdrawal -> the payout call in flight
    route,     \* withdrawal -> the withdraw route's progress
    recon,     \* withdrawal -> the reconciler's progress
    garbled,   \* withdrawals accepted by the provider whose answer could not be read
    faults     \* crashes and failed transactions so far

given == <<userOf, conf>>
vars == <<given, balance, row, payer, refs, provider, task, route, recon, garbled, faults>>
callVars == <<task, route, recon>>

RefundRef(w) == <<"withdrawal_refund", w>>
ReversalRef(w) == <<"withdrawal_reversal", w>>
Refs == {RefundRef(w) : w \in Ids} \cup {ReversalRef(w) : w \in Ids}

Init ==
    /\ userOf \in Owners
    /\ conf \in Deployments
    /\ balance = [u \in Users |-> Purse]
    /\ row = [w \in Ids |-> "none"]
    /\ payer = [w \in Ids |-> "none"]
    /\ refs = {}
    /\ provider = [w \in Ids |-> "none"]
    /\ task = [w \in Ids |-> "idle"]
    /\ route = [w \in Ids |-> "out"]
    /\ recon = [w \in Ids |-> "idle"]
    /\ garbled = {}
    /\ faults = 0

-----------------------------------------------------------------------------
(* The repository's operations.                                            *)

\* Mutant of setStatusIfPending: an update without the compare.
setStatusIfPending_always(w, status, by) ==
    /\ row' = [row EXCEPT ![w] = status]
    /\ payer' = [payer EXCEPT ![w] = by]

\* Compare-and-set: only a pending row changes.
setStatusIfPending(w, status, by) ==
    /\ row[w] = "pending"
    /\ row' = [row EXCEPT ![w] = status]
    /\ payer' = [payer EXCEPT ![w] = by]

\* Only a completed row is reversed.
markReversed(w) ==
    row' = [row EXCEPT ![w] = IF @ = "completed" THEN "rejected" ELSE @]

\* credit() with a unique reference: a replay moves nothing.
Credit(w, ref) ==
    /\ refs' = refs \cup {ref}
    /\ balance' = [balance EXCEPT ![userOf[w]] = IF ref \in refs THEN @ ELSE @ + AmountOf[w]]

\* The amounts of a set of withdrawals, added up.
Total[S \in SUBSET Ids] ==
    IF S = {} THEN 0
    ELSE LET w == CHOOSE w \in S : TRUE IN AmountOf[w] + Total[S \ {w}]

\* sumUserSince: the user's withdrawals that were not rejected.
sumUserSince(u) == Total[{w \in Ids : userOf[w] = u /\ row[w] \in {"pending", "completed"}}]

AutoPaid == {w \in Ids : row[w] = "completed" /\ payer[w] = "auto"}

\* autoPaidSince: what the automatic path paid, of the withdrawals in S.
autoPaidSince(S) == Total[AutoPaid \cap S]

-----------------------------------------------------------------------------
(* The withdraw route.  Its critical section spans the request, the reads  *)
(* the caps are compared with, and the automatic payout.                   *)

GlobalCapsOn == conf.global > 0 \/ conf.dest > 0

\* Mutant of Waits: the shared caps do not put all users on one chain.
Waits_perUser(w) == \E v \in Ids : route[v] # "out" /\ userOf[v] = userOf[w]

\* serializeWithdraw per user; serializeGlobalWithdraw when a shared cap is set.
Waits(w) == \E v \in Ids : route[v] # "out" /\ (GlobalCapsOn \/ userOf[v] = userOf[w])

\* request(): the debit and the new row are one transaction.
request(w) ==
    /\ row[w] = "none" /\ ~Waits(w)
    /\ balance[userOf[w]] >= AmountOf[w]
    /\ balance' = [balance EXCEPT ![userOf[w]] = @ - AmountOf[w]]
    /\ row' = [row EXCEPT ![w] = "pending"]
    /\ route' = [route EXCEPT ![w] = "requested"]
    /\ UNCHANGED <<given, payer, refs, provider, task, recon, garbled, faults>>

Under(cap, spent, w) == cap = 0 \/ spent + AmountOf[w] <= cap

\* classifyWithdrawal, on what the route has just read.
classifyWithdrawal(w, received) ==
    LET prior == sumUserSince(userOf[w])
        others == IF prior >= AmountOf[w] THEN prior - AmountOf[w] ELSE 0
        toDest == {v \in Ids : DestOf[v] = DestOf[w]}
    IN  IF /\ conf.auto > 0 /\ AmountOf[w] <= conf.auto
           /\ Under(conf.daily, others, w)
           /\ Under(conf.global, autoPaidSince(Ids), w)
           /\ Under(conf.dest, autoPaidSince(toDest), w)
           /\ ~received
        THEN "auto" ELSE "manual"

\* The reads of the caps and the tier they give.  A failed read, and money
\* received from another player that day, leave it to an operator.
classify(w, readsFail, received) ==
    /\ route[w] = "requested"
    /\ route' = [route EXCEPT ![w] =
                   IF ~readsFail /\ conf.provider /\ classifyWithdrawal(w, received) = "auto"
                   THEN "auto" ELSE "out"]
    /\ UNCHANGED <<given, balance, row, payer, refs, provider, task, recon, garbled, faults>>

\* autoPayout(): claim the row before sending.
autoPayout(w) ==
    /\ route[w] = "auto"
    /\ \/ /\ setStatusIfPending(w, "completed", "auto")
          /\ task' = [task EXCEPT ![w] = "sending"]
          /\ route' = [route EXCEPT ![w] = "paying"]
       \/ /\ row[w] # "pending"
          /\ route' = [route EXCEPT ![w] = "out"]
          /\ UNCHANGED <<row, payer, task>>
    /\ UNCHANGED <<given, balance, refs, provider, recon, garbled, faults>>

-----------------------------------------------------------------------------
(* The administrator, from the panel or from Telegram.                     *)

\* payoutNow() with a provider: the same claim, then the same send.
payoutNow(w) ==
    /\ conf.provider
    /\ setStatusIfPending(w, "completed", "admin")
    /\ task' = [task EXCEPT ![w] = "sending"]
    /\ UNCHANGED <<given, balance, refs, provider, route, recon, garbled, faults>>

\* approve(): without a provider the operator has sent the money by hand.
approve(w) ==
    /\ ~conf.provider
    /\ setStatusIfPending(w, "completed", "admin")
    /\ provider' = [provider EXCEPT ![w] = "paid"]
    /\ UNCHANGED <<given, balance, refs, callVars, garbled, faults>>

\* reject(): the new status and the refund are one transaction.
reject(w) ==
    /\ setStatusIfPending(w, "rejected", "admin")
    /\ Credit(w, RefundRef(w))
    /\ UNCHANGED <<given, provider, callVars, garbled, faults>>

-----------------------------------------------------------------------------
(* payout(): one request, never retried, and what its answer means.        *)

\* The call is over; if the withdraw route was waiting for it, so is the route.
Ends(w) ==
    /\ task' = [task EXCEPT ![w] = "idle"]
    /\ route' = [route EXCEPT ![w] = IF @ = "paying" THEN "out" ELSE @]

\* The provider takes the request in.
reaches(w) ==
    /\ task[w] = "sending"
    /\ task' = [task EXCEPT ![w] = "reached"]
    /\ provider' = [provider EXCEPT ![w] = "accepted"]
    /\ UNCHANGED <<given, balance, row, payer, refs, route, recon, garbled, faults>>

\* An id in the answer, a timeout, a 5xx, or an answer that says the order is
\* known already: the row stays completed and nothing is refunded.
answerStands(w) ==
    /\ task[w] \in {"sending", "reached"}
    /\ Ends(w)
    /\ UNCHANGED <<given, balance, row, payer, refs, provider, recon, garbled, faults>>

\* The provider refuses: a definite failure.
answerRefuses(w) ==
    /\ task[w] = "sending"
    /\ task' = [task EXCEPT ![w] = "refund"]
    /\ UNCHANGED <<given, balance, row, payer, refs, provider, route, recon, garbled, faults>>

\* The request was accepted but the body of the answer cannot be read: no
\* withdrawal id, which the code takes for a definite failure.
answerUnreadable(w) ==
    /\ task[w] = "reached"
    /\ task' = [task EXCEPT ![w] = "refund"]
    /\ garbled' = garbled \cup {w}
    /\ UNCHANGED <<given, balance, row, payer, refs, provider, route, recon, faults>>

\* Mutant of refund: the row is reversed whether or not the credit lands.
refund_unchecked(w) ==
    /\ task[w] = "refund"
    /\ \/ Credit(w, RefundRef(w))
       \/ UNCHANGED <<balance, refs>>
    /\ task' = [task EXCEPT ![w] = "reverse"]
    /\ UNCHANGED <<given, row, payer, provider, route, recon, garbled, faults>>

\* A definite failure is refunded first ...
refund(w) ==
    /\ task[w] = "refund"
    /\ Credit(w, RefundRef(w))
    /\ task' = [task EXCEPT ![w] = "reverse"]
    /\ UNCHANGED <<given, row, payer, provider, route, recon, garbled, faults>>

\* ... and then the row is reversed.
reverse(w) ==
    /\ task[w] = "reverse"
    /\ markReversed(w)
    /\ Ends(w)
    /\ UNCHANGED <<given, balance, payer, refs, provider, recon, garbled, faults>>

\* Either transaction fails: the call ends and leaves the row as it is.
payoutFails(w) ==
    /\ task[w] \in {"refund", "reverse"} /\ faults < MaxFaults
    /\ Ends(w)
    /\ faults' = faults + 1
    /\ UNCHANGED <<given, balance, row, payer, refs, provider, recon, garbled>>

\* The provider (external) pays what it accepted, or fails on chain.
providerSettles(w) ==
    /\ provider[w] = "accepted"
    /\ \E outcome \in {"paid", "failed"} : provider' = [provider EXCEPT ![w] = outcome]
    /\ UNCHANGED <<given, balance, row, payer, refs, callVars, garbled, faults>>

-----------------------------------------------------------------------------
(* reconcileFailedWithdrawals: every five minutes, for each payout the     *)
(* provider's history reports as failed.                                   *)

\* Mutant of reconcileFind: only what the automatic path paid is looked at.
reconcileFind_autoOnly(w) ==
    /\ conf.provider
    /\ recon[w] = "idle"
    /\ provider[w] = "failed" /\ row[w] = "completed" /\ payer[w] = "auto"
    /\ recon' = [recon EXCEPT ![w] = "credit"]
    /\ UNCHANGED <<given, balance, row, payer, refs, provider, task, route, garbled, faults>>

reconcileFind(w) ==
    /\ conf.provider
    /\ recon[w] = "idle"
    /\ provider[w] = "failed" /\ row[w] = "completed"
    /\ recon' = [recon EXCEPT ![w] = "credit"]
    /\ UNCHANGED <<given, balance, row, payer, refs, provider, task, route, garbled, faults>>

reconcileReverse(w) ==
    /\ recon[w] = "credit"
    /\ Credit(w, ReversalRef(w))
    /\ recon' = [recon EXCEPT ![w] = "mark"]
    /\ UNCHANGED <<given, row, payer, provider, task, route, garbled, faults>>

reconcileMark(w) ==
    /\ recon[w] = "mark"
    /\ markReversed(w)
    /\ recon' = [recon EXCEPT ![w] = "idle"]
    /\ UNCHANGED <<given, balance, payer, refs, provider, task, route, garbled, faults>>

\* A transaction of the sweep fails: it is tried again at the next sweep.
reconcileFails(w) ==
    /\ recon[w] # "idle" /\ faults < MaxFaults
    /\ recon' = [recon EXCEPT ![w] = "idle"]
    /\ faults' = faults + 1
    /\ UNCHANGED <<given, balance, row, payer, refs, provider, task, route, garbled>>

\* The process dies and starts again: every call in flight is forgotten.
Crash ==
    /\ faults < MaxFaults
    /\ faults' = faults + 1
    /\ task' = [w \in Ids |-> "idle"]
    /\ route' = [w \in Ids |-> "out"]
    /\ recon' = [w \in Ids |-> "idle"]
    /\ UNCHANGED <<given, balance, row, payer, refs, provider, garbled>>

Route(w) == request(w) \/ autoPayout(w) \/ \E fail, received \in BOOLEAN : classify(w, fail, received)
Admin(w) == payoutNow(w) \/ approve(w) \/ reject(w)
Payout(w) ==
    \/ reaches(w) \/ answerStands(w) \/ answerRefuses(w) \/ answerUnreadable(w)
    \/ refund(w) \/ reverse(w) \/ payoutFails(w) \/ providerSettles(w)
Reconcile(w) == reconcileFind(w) \/ reconcileReverse(w) \/ reconcileMark(w)

Next ==
    \/ \E w \in Ids : Route(w) \/ Admin(w) \/ Payout(w) \/ Reconcile(w) \/ reconcileFails(w)
    \/ Crash

\* The reconciler runs on a timer for as long as the process lives.
Spec == Init /\ [][Next]_vars /\ \A w \in Ids : WF_vars(Reconcile(w))

-----------------------------------------------------------------------------
TypeOK ==
    /\ userOf \in Owners
    /\ conf \in Deployments
    /\ balance \in [Users -> Int]
    /\ row \in [Ids -> {"none", "pending", "completed", "rejected"}]
    /\ payer \in [Ids -> {"none", "auto", "admin"}]
    /\ refs \subseteq Refs
    /\ provider \in [Ids -> {"none", "accepted", "paid", "failed"}]
    /\ task \in [Ids -> {"idle", "sending", "reached", "refund", "reverse"}]
    /\ route \in [Ids -> {"out", "requested", "auto", "paying"}]
    /\ recon \in [Ids -> {"idle", "credit", "mark"}]
    /\ garbled \subseteq Ids
    /\ faults \in 0..MaxFaults

MoneyLeft(w) == provider[w] \in {"accepted", "paid"}
Refunded(w) == RefundRef(w) \in refs
Reversed(w) == ReversalRef(w) \in refs

\* A withdrawal comes out once: it is on its way to the player or came back to
\* the balance, by a refund or by a reversal, and never two of these
\* (withdrawals.ts claims before it sends; the two references differ, so the
\* ledger alone would not stop a refund and a reversal).  The answer that
\* could not be read is the exception, which DefiniteFailureIsSafe is about.
PaidOnce ==
    \A w \in Ids \ garbled :
      /\ ~(MoneyLeft(w) /\ (Refunded(w) \/ Reversed(w)))
      /\ ~(Refunded(w) /\ Reversed(w))

\* A row says rejected only when the player has the money back: reject() and
\* its refund are one transaction, and a failed payout is credited before its
\* row is reversed, by the payout call and by the reconciler.
RejectedIsRefunded == \A w \in Ids : row[w] = "rejected" => Refunded(w) \/ Reversed(w)

\* What the automatic path has sent stays within the caps it was given, though
\* they are compared with totals read before the payout
\* (walletRoutes.ts, the critical section).
CapsHold ==
    LET sent == {w \in Ids \ garbled : payer[w] = "auto" /\ MoneyLeft(w)}
        within(cap, S) == cap = 0 \/ Total[sent \cap S] <= cap
    IN  /\ \A u \in Users : within(conf.daily, {w \in Ids : userOf[w] = u})
        /\ within(conf.global, Ids)
        /\ \A w \in Ids : within(conf.dest, {v \in Ids : DestOf[v] = DestOf[w]})

\* A payout the provider accepted and then failed comes back to the player in
\* the end, whatever crashes or fails meanwhile (reconcileFailedWithdrawals).
FailedComesBack ==
    \A w \in Ids : (provider[w] = "failed") ~> (Refunded(w) \/ Reversed(w))

\* payoutProvider.ts:21: a definite failure means "the send did NOT happen".
DefiniteFailureIsSafe == \A w \in Ids : task[w] = "refund" => provider[w] = "none"
=============================================================================
