------------------------------ MODULE AdminPanel ------------------------------
(***************************************************************************)
(* Administrators: who may do what, and balances adjusted by hand.  The    *)
(* routes of packages/server/src/http/adminRoutes.ts with permissions.ts   *)
(* and money/adminAdjustPolicy.ts, and the owner's second door to the same *)
(* adjustments, the confirm buttons of packages/server/src/telegram/       *)
(* adminBot.ts.  A request checks what it read, and writes later; other    *)
(* requests run in between.  All within one rolling day.                   *)
(***************************************************************************)
EXTENDS Integers, FiniteSets

CONSTANTS
    Desks,        \* requests that may run at the same time
    Owner,        \* the account of ADMIN_EMAIL
    Rosters,      \* what accounts may be at the start: account -> [role, perms]
    Scopes,       \* the permission scopes that matter here
    Amounts,      \* signed amounts in cents of adjustments
    Deposits,     \* transactions on the chain credited by hand
    Staged,       \* keys of actions staged on Telegram
    CallCap,      \* MAX_ADJUST_CENTS
    DayCap,       \* DAILY_ADJUST_CAP_CENTS
    MaxBlind      \* bound on sums of the day that cannot be read

VARIABLES
    start,      \* the roster at the start (history)
    who,        \* account -> [role, perms]
    request,    \* desk -> the request under way
    busy,       \* administrators whose adjust chain is taken
    adjusted,   \* administrator -> the sum of the audited moves, unsigned
    blind,      \* administrator -> moves let through with the sum unread (history)
    credits,    \* deposit -> how often it was credited
    staged,     \* keys in `pending`
    runs        \* key -> how often it was run (history)

adminVars == <<start, who, request, busy, adjusted, blind, credits, staged, runs>>

Accounts == DOMAIN start
NoDeposit == "none"
NoRequest == [pc |-> "idle"]
Abs(n) == IF n < 0 THEN -n ELSE n

\* hasPermission: no scopes means all of them.
IsFull(u) == who[u].role = "admin" /\ who[u].perms = {}
requirePermission(u, scope) ==
    who[u].role = "admin" /\ (who[u].perms = {} \/ scope \in who[u].perms)

Init ==
    /\ start \in Rosters
    /\ who = start
    /\ request = [d \in Desks |-> NoRequest]
    /\ busy = {}
    /\ adjusted = [u \in Accounts |-> 0]
    /\ blind = [u \in Accounts |-> 0]
    /\ credits = [t \in Deposits |-> 0]
    /\ staged = Staged /\ runs = [k \in Staged |-> 0]

Begin(d, r) == request[d] = NoRequest /\ request' = [request EXCEPT ![d] = r]
End(d) == request' = [request EXCEPT ![d] = NoRequest]

-----------------------------------------------------------------------------
(* Adjustments.                                                            *)

Adjustment(a, to, cents, tx) ==
    [pc |-> "queued", admin |-> a, self |-> to = a, cents |-> cents, tx |-> tx]
\* A transaction of the chain is only ever credited.
Adjustable(cents, tx) == tx # NoDeposit => cents > 0

\* POST .../adjust: the permission is checked, then the request queues up.
adjust(d, a, to, cents, tx) ==
    /\ requirePermission(a, "adjust_balance")
    /\ Adjustable(cents, tx)
    /\ Begin(d, Adjustment(a, to, cents, tx))
    /\ UNCHANGED <<start, who, busy, adjusted, blind, credits, staged, runs>>

\* The owner confirms a staged /credit or /debit: removed first, then run, on
\* the owner's chain.  A /credit may name the transaction of a deposit.
handlePendingTap(d, k, to, cents, tx) ==
    /\ k \in staged
    /\ Adjustable(cents, tx)
    /\ staged' = staged \ {k}
    /\ Begin(d, Adjustment(Owner, to, cents, tx))
    /\ runs' = [runs EXCEPT ![k] = @ + 1]
    /\ UNCHANGED <<start, who, busy, adjusted, blind, credits>>

\* Cancelled, or expired when the next one is staged.
unstage(k) ==
    /\ k \in staged
    /\ staged' = staged \ {k}
    /\ UNCHANGED <<start, who, request, busy, adjusted, blind, credits, runs>>

\* Mutant of serializeAdjust: requests do not wait for each other.
serializeAdjust_not(a) == UNCHANGED busy

\* One adjustment of an administrator at a time, from either door.
serializeAdjust(a) == a \notin busy /\ busy' = busy \cup {a}

\* Nothing for oneself, the ceilings of a call and of a day of which `used` is gone.
Governed(r, used) ==
    /\ ~(r.cents > 0 /\ r.self)
    /\ Abs(r.cents) <= CallCap
    /\ used + Abs(r.cents) <= DayCap

\* The sum of the day as it is, or as 0 where it cannot be read.
sumAdjustmentsBy(a, unread) == IF unread THEN 0 ELSE adjusted[a]

checkAdjustGovernance(d, unread) ==
    LET r == request[d]
    IN  /\ r.pc = "queued"
        /\ unread => blind[r.admin] < MaxBlind
        /\ IF Governed(r, sumAdjustmentsBy(r.admin, unread))
             THEN /\ serializeAdjust(r.admin)
                  /\ request' = [request EXCEPT ![d].pc = "commit"]
                  /\ blind' = IF unread THEN [blind EXCEPT ![r.admin] = @ + 1] ELSE blind
             ELSE r.admin \notin busy /\ End(d) /\ UNCHANGED <<busy, blind>>
        /\ UNCHANGED <<start, who, adjusted, credits, staged, runs>>

\* adminAdjustAudited: the move and its audit row are one transaction, which may
\* fail (too little money); a deposit that was credited is not credited again.
adminAdjustAudited(d) ==
    LET r == request[d]
        again == r.tx # NoDeposit /\ credits[r.tx] > 0
    IN  /\ r.pc = "commit"
        /\ \/ /\ ~again
              /\ adjusted' = [adjusted EXCEPT ![r.admin] = @ + Abs(r.cents)]
              /\ credits' = IF r.tx = NoDeposit THEN credits ELSE [credits EXCEPT ![r.tx] = @ + 1]
           \/ UNCHANGED <<adjusted, credits>>
        /\ busy' = busy \ {r.admin}
        /\ End(d)
        /\ UNCHANGED <<start, who, blind, staged, runs>>

-----------------------------------------------------------------------------
(* Roles and scopes.                                                       *)

\* POST .../role.  A scoped administrator promotes nobody and demotes no full one.
checkRole(d, a, u, role) ==
    /\ requirePermission(a, "manage_admins")
    /\ ~(u = a /\ role = "user")
    /\ role = "admin" => who[a].perms = {}
    /\ role = "user" => u # Owner
    /\ role = "user" /\ who[a].perms # {} => ~IsFull(u)
    /\ Begin(d, [pc |-> "setRole", account |-> u, role |-> role])
    /\ UNCHANGED <<start, who, busy, adjusted, blind, credits, staged, runs>>

setRole(d) ==
    /\ request[d].pc = "setRole"
    /\ who' = [who EXCEPT ![request[d].account].role = request[d].role]
    /\ End(d)
    /\ UNCHANGED <<start, busy, adjusted, blind, credits, staged, runs>>

\* Mutant of MayGrant: the empty list, which means everything, is let through.
MayGrant_empty(a, perms) == who[a].perms # {} => perms \subseteq who[a].perms

\* A scoped administrator grants scopes of their own, and never all.
MayGrant(a, perms) == who[a].perms # {} => perms # {} /\ perms \subseteq who[a].perms

\* POST .../permissions.
checkPermissions(d, a, u, perms) ==
    /\ requirePermission(a, "manage_admins")
    /\ u \notin {a, Owner}
    /\ who[a].perms # {} => ~IsFull(u)
    /\ MayGrant(a, perms)
    /\ Begin(d, [pc |-> "setPermissions", account |-> u, perms |-> perms])
    /\ UNCHANGED <<start, who, busy, adjusted, blind, credits, staged, runs>>

setPermissions(d) ==
    /\ request[d].pc = "setPermissions"
    /\ who' = [who EXCEPT ![request[d].account].perms = request[d].perms]
    /\ End(d)
    /\ UNCHANGED <<start, busy, adjusted, blind, credits, staged, runs>>

-----------------------------------------------------------------------------
\* The owner uses Telegram only.
Active == Accounts \ {Owner}

Next ==
    \/ \E k \in Staged : unstage(k)
    \/ \E d \in Desks :
         \/ \E unread \in BOOLEAN : checkAdjustGovernance(d, unread)
         \/ adminAdjustAudited(d) \/ setRole(d) \/ setPermissions(d)
         \/ \E to \in Accounts, cents \in Amounts, tx \in Deposits \cup {NoDeposit} :
              \/ \E k \in Staged : handlePendingTap(d, k, to, cents, tx)
              \/ \E a \in Active : adjust(d, a, to, cents, tx)
         \/ \E a \in Active, u \in Accounts :
              \/ \E role \in {"user", "admin"} : checkRole(d, a, u, role)
              \/ \E perms \in SUBSET Scopes : checkPermissions(d, a, u, perms)

-----------------------------------------------------------------------------
\* Whatever requests overlap, from the panel and from Telegram: no administrator
\* moves more than the day's ceiling, and one call's ceiling more for each time that
\* the day's sum could not be read; a deposit is credited once from either door, and
\* a staged action is run once however often it is tapped.
AdjustmentsAreGoverned ==
    /\ \A a \in Accounts : adjusted[a] <= DayCap + CallCap * blind[a]
    /\ \A t \in Deposits : credits[t] <= 1
    /\ \A k \in Staged : runs[k] <= 1

\* Powers are not minted.  The owner stays a full administrator, whoever else
\* joins forces; where nobody else was one at the start, scoped administrators
\* together make no other, and nobody gains a scope none of them had.
PowersAreBounded ==
    LET scoped == {u \in Accounts : start[u].role = "admin" /\ start[u].perms # {}}
        others == Accounts \ {Owner}
        fullAtStart == {u \in others : start[u].role = "admin" /\ start[u].perms = {}}
    IN  /\ IsFull(Owner)
        /\ fullAtStart = {} =>
             \A u \in others : who[u].role = "admin" =>
               who[u].perms # {} /\ who[u].perms \subseteq UNION {start[v].perms : v \in scoped}
=============================================================================
