----------------------------- MODULE Compliance -----------------------------
(***************************************************************************)
(* The gate before real money and what feeds it: the identity a player     *)
(* gives once, verification by an administrator, self-exclusion and the    *)
(* daily loss limit (packages/server/src/compliance/, auth/authService.ts, *)
(* http/accountRoutes.ts).  Time is in days.  A request reads the user's   *)
(* row in one step and writes, or early, in a later one; several requests   *)
(* of one user overlap.                                                    *)
(*                                                                         *)
(* The last part is the watch over colluding players, which shares no      *)
(* state with the gate.                                                    *)
(*                                                                         *)
(* Every control is switched on.  Date of birth and country, which are set *)
(* and checked alike, are one `identity`: "fit" or "unfit" for play, or    *)
(* "none".                                                                 *)
(***************************************************************************)
EXTENDS Integers, Sequences, FiniteSets

CONSTANTS
    Requests,   \* requests of the player that may run at the same time
    Stake,      \* of a wager
    LossLimit,  \* the daily loss limit, when the player has set it
    Days,       \* lengths of self-exclusion on offer
    MaxDay,     \* bound on days
    MaxLoss     \* bound on what is lost in a day, before a wager

VARIABLES
    user,       \* the row: [state, kyc, identity, excluded, limited]
    today, net, \* the day, and the player's result on it
    req,        \* request -> what it is about, and what it read
    told,       \* history: the longest self-exclusion that was confirmed
    capped,     \* history: the loss limit stood all day
    early,      \* history: a wager was placed within an exclusion confirmed before its gate began
    edits,      \* history: how often the player changed the identity
    stale       \* history: a request wrote on the strength of a row that had changed

complianceVars == <<user, today, net, req, told, capped, early, edits, stale>>

Idle == [pc |-> "idle", value |-> "none", until |-> 0, seen |-> 0, told |-> 0]

GateInit ==
    /\ user = [state |-> "active", kyc |-> FALSE, identity |-> "none",
               excluded |-> 0, limited |-> TRUE]
    /\ today = 0 /\ net = 0
    /\ req = [r \in Requests |-> Idle]
    /\ told = 0 /\ capped = TRUE /\ early = FALSE /\ edits = 0 /\ stale = FALSE

-----------------------------------------------------------------------------
(* The gates.                                                              *)

\* checkRealMoney of the account's state.
checkAccountRealMoney(u) == u.state = "active"

checkRealMoney(u) ==
    /\ u.excluded <= today
    /\ u.kyc /\ u.identity = "fit"

\* Mutant of checkLoss: the limit itself may still be lost.
checkLoss_late(u) == ~u.limited \/ net >= -LossLimit
checkLoss(u) == ~u.limited \/ net > -LossLimit

-----------------------------------------------------------------------------
(* The player's requests.                                                  *)

Goes(r, pc) == req' = [req EXCEPT ![r].pc = pc]
Done(r) == req' = [req EXCEPT ![r] = Idle]
Signed == user.state # "banned"

\* updateSelfProfile: a field is set once, and not after verification.
updateSelfProfile(r, v) ==
    /\ req[r] = Idle /\ Signed
    /\ user.identity = "none" /\ ~user.kyc
    /\ req' = [req EXCEPT ![r] = [Idle EXCEPT !.pc = "profile", !.value = v]]
    /\ UNCHANGED <<user, today, net, told, capped, early, edits, stale>>

updateCompliance(r) ==
    /\ req[r].pc = "profile"
    /\ user' = [user EXCEPT !.identity = req[r].value]
    /\ edits' = IF user.identity = req[r].value THEN edits ELSE edits + 1
    /\ stale' = (stale \/ user.identity # "none" \/ ~Signed)
    /\ Done(r)
    /\ UNCHANGED <<today, net, told, capped, early>>

selfExclude(r, d) ==
    /\ req[r] = Idle /\ Signed
    /\ req' = [req EXCEPT ![r] = [Idle EXCEPT !.pc = "exclude", !.until = today + d, !.seen = user.excluded]]
    /\ UNCHANGED <<user, today, net, told, capped, early, edits, stale>>

\* Mutant of longest: the last request decides.
longest_last(current, requested) == requested
\* "Self-exclusion can only be EXTENDED": the greater of what was read and asked for.
longest(current, requested) == IF current > requested THEN current ELSE requested

excludes(r) ==
    LET until == longest(req[r].seen, req[r].until)
    IN  /\ req[r].pc = "exclude"
        /\ user' = [user EXCEPT !.excluded = until]
        /\ told' = IF until > told THEN until ELSE told
        /\ stale' = (stale \/ user.excluded # req[r].seen)
        /\ Done(r)
        /\ UNCHANGED <<today, net, capped, early, edits>>

\* setLimits: one write; no limit is as good as clearing it.
setLimits ==
    /\ Signed
    /\ user' = [user EXCEPT !.limited = ~@]
    /\ capped' = FALSE
    /\ UNCHANGED <<today, net, req, told, early, edits, stale>>

\* deleteAccount: the row is anonymised and closed.
anonymize ==
    /\ Signed
    /\ user' = [user EXCEPT !.state = "banned", !.identity = "none"]
    /\ UNCHANGED <<today, net, req, told, capped, early, edits, stale>>

\* checkRealMoneyAccess: the account, then the profile, then the loss of the day,
\* each on a read of its own; the wager is placed afterwards.
checkRealMoneyAccess(r) ==
    /\ req[r] = Idle /\ -net < MaxLoss
    /\ checkAccountRealMoney(user)
    /\ req' = [req EXCEPT ![r] = [Idle EXCEPT !.pc = "compliance", !.told = told]]
    /\ UNCHANGED <<user, today, net, told, capped, early, edits, stale>>

getComplianceProfile(r) ==
    /\ req[r].pc = "compliance"
    /\ IF checkRealMoney(user) THEN Goes(r, "loss") ELSE Done(r)
    /\ UNCHANGED <<user, today, net, told, capped, early, edits, stale>>

netResultToday(r) ==
    /\ req[r].pc = "loss"
    /\ IF checkLoss(user) THEN Goes(r, "bet") ELSE Done(r)
    /\ UNCHANGED <<user, today, net, told, capped, early, edits, stale>>

wager(r) ==
    /\ req[r].pc = "bet"
    /\ net' = net - Stake
    /\ early' = (early \/ today < req[r].told)
    /\ Done(r)
    /\ UNCHANGED <<user, today, told, capped, edits, stale>>

-----------------------------------------------------------------------------
(* The administrators, the matches and time.                               *)

setKyc ==
    /\ user' = [user EXCEPT !.kyc = ~@]
    /\ UNCHANGED <<today, net, req, told, capped, early, edits, stale>>

setAccountState ==
    /\ Signed
    /\ user' = [user EXCEPT !.state = IF @ = "active" THEN "frozen" ELSE "active"]
    /\ UNCHANGED <<today, net, req, told, capped, early, edits, stale>>

payout ==
    /\ net < 0
    /\ net' = net + Stake
    /\ UNCHANGED <<user, today, req, told, capped, early, edits, stale>>

midnight ==
    /\ today < MaxDay
    /\ today' = today + 1 /\ net' = 0
    /\ capped' = user.limited
    /\ UNCHANGED <<user, req, told, early, edits, stale>>

\* Bound: a behaviour is followed up to the first write on a row that had changed.
GateNext == ~stale /\
    \/ setLimits \/ anonymize \/ setKyc \/ setAccountState \/ payout \/ midnight
    \/ \E r \in Requests :
         \/ updateCompliance(r) \/ excludes(r)
         \/ checkRealMoneyAccess(r) \/ getComplianceProfile(r) \/ netResultToday(r) \/ wager(r)
         \/ \E v \in {"fit", "unfit"} : updateSelfProfile(r, v)
         \/ \E d \in Days : selfExclude(r, d)

-----------------------------------------------------------------------------
\* A wager whose gate began after a self-exclusion was confirmed is not placed while
\* it lasts, and the player changes a date of birth or a country once, whatever an
\* administrator does to the verification meanwhile.  Two requests that read one row
\* and write one after the other break both, and are left out.
VowsAreKept ==
    ~stale => /\ user.excluded = told
              /\ ~early
              /\ edits <= 1

\* Requests that pass the gate together overshoot the loss limit, by a stake each.
LossIsBounded == capped => -net < LossLimit + Stake * Cardinality(Requests)

-----------------------------------------------------------------------------
(* The collusion heuristics (packages/server/src/antiCheat/): after every  *)
(* staked match the players of a sliding window of matches are compared in *)
(* pairs, and a flag is filed at the moment a pair reaches a threshold.    *)
(* Analyses are not awaited: those of several matches overlap, and one     *)
(* that fails is only logged.  The heuristics on the pace of moves and on  *)
(* winning rates are arithmetic on one player's record and are left out.   *)
(*                                                                         *)
(* A match is a function from its players to [won, team]; team 0 is none.  *)

CONSTANTS
    Matches,    \* the results that occur
    Window,     \* COLLUSION_WINDOW
    PairThreshold, DumpThreshold,
    MaxMatches, \* bound on matches played
    MaxBusy,    \* bound on analyses at the same time
    MaxLost     \* bound on analyses that fail

VARIABLES
    played,       \* matches played so far
    waiting,      \* results whose analysis still reads the move log
    recentStaked,
    filing,       \* analyses that file their flags: the sets still to file
    flags,        \* filed: [user, partner, type, severity]
    lost          \* analyses that failed

antiCheatVars == <<played, waiting, recentStaked, filing, flags, lost>>

WatchInit ==
    /\ played = 0 /\ waiting = <<>> /\ recentStaked = <<>>
    /\ filing = <<>> /\ flags = {} /\ lost = 0

-----------------------------------------------------------------------------
(* collusionFlags.                                                         *)

sameTeam(m, a, b) == m[a].team # 0 /\ m[a].team = m[b].team
Opponents(m, a, b) == {a, b} \subseteq DOMAIN m /\ a # b /\ ~sameTeam(m, a, b)

coSeat(w, a, b) == Cardinality({i \in DOMAIN w : Opponents(w[i], a, b)})
Beats(w, a, b) == Cardinality({i \in DOMAIN w : Opponents(w[i], a, b) /\ w[i][a].won /\ ~w[i][b].won})

Flag(a, b, type, severity) == [user |-> a, partner |-> b, type |-> type, severity |-> severity]

\* Mutant of pairing: one match too late.
pairing_late(w, a, b) == coSeat(w, a, b) = PairThreshold + 1
pairing(w, a, b) == coSeat(w, a, b) = PairThreshold

\* a lost to b and never won against b.
chipDump(w, a, b) == Beats(w, b, a) = DumpThreshold /\ Beats(w, a, b) = 0

\* Of every pair of opponents in the last match, against the whole window.
collusionFlags(w) ==
    LET last == w[Len(w)]
        pairs == {p \in (DOMAIN last) \X (DOMAIN last) : Opponents(last, p[1], p[2])}
    IN  {Flag(p[1], p[2], "collusion_pairing", 2) : p \in {q \in pairs : pairing(w, q[1], q[2])}}
        \cup {Flag(p[1], p[2], "chip_dump", 3) : p \in {q \in pairs : chipDump(w, q[1], q[2])}}
        \cup {Flag(p[2], p[1], "chip_dump", 2) : p \in {q \in pairs : chipDump(w, q[1], q[2])}}

-----------------------------------------------------------------------------
\* recordAntiCheat at the end of a staked match: the analysis is only started.
recordAntiCheat(m) ==
    /\ played < MaxMatches /\ Len(waiting) + Len(filing) < MaxBusy
    /\ played' = played + 1
    /\ waiting' = Append(waiting, m)
    /\ UNCHANGED <<recentStaked, filing, flags, lost>>

Without(s, i) == SubSeq(s, 1, i - 1) \o SubSeq(s, i + 1, Len(s))
Last(s, n) == IF Len(s) > n THEN SubSeq(s, Len(s) - n + 1, Len(s)) ELSE s

\* analyzeCollusion: the match enters the window and is judged in one step.
analyzeCollusion(i) ==
    LET w == Last(Append(recentStaked, waiting[i]), Window)
    IN  /\ recentStaked' = w
        /\ waiting' = Without(waiting, i)
        /\ filing' = IF collusionFlags(w) = {} THEN filing ELSE Append(filing, collusionFlags(w))
        /\ UNCHANGED <<played, flags, lost>>

\* The next flag of an analysis is filed, in the order of its list.
add(i) ==
    LET f == CHOOSE x \in filing[i] : TRUE
    IN  /\ flags' = flags \cup {f}
        /\ filing' = IF filing[i] = {f} THEN Without(filing, i) ELSE [filing EXCEPT ![i] = @ \ {f}]
        /\ UNCHANGED <<played, waiting, recentStaked, lost>>

\* A read or a write fails: the match never enters the window, or the other flags
\* of the analysis are not filed.
analyzeMatchFails ==
    /\ lost < MaxLost
    /\ lost' = lost + 1
    /\ \/ \E i \in DOMAIN waiting : waiting' = Without(waiting, i) /\ UNCHANGED filing
       \/ \E i \in DOMAIN filing : filing' = Without(filing, i) /\ UNCHANGED waiting
    /\ UNCHANGED <<played, recentStaked, flags>>

WatchNext ==
    \/ \E m \in Matches : recordAntiCheat(m)
    \/ \E i \in DOMAIN waiting : analyzeCollusion(i)
    \/ \E i \in DOMAIN filing : add(i)
    \/ analyzeMatchFails

Init == GateInit /\ WatchInit
Next == \/ GateNext /\ UNCHANGED antiCheatVars
        \/ WatchNext /\ UNCHANGED complianceVars

Spec == Init /\ [][Next]_<<complianceVars, antiCheatVars>>

-----------------------------------------------------------------------------
Filed == flags \cup UNION {filing[i] : i \in DOMAIN filing}
Players == UNION {DOMAIN m : m \in Matches}

\* Flags are filed at the exact crossing only, yet no pair gets past it: opponents who
\* meet as often as the threshold within the window are flagged, both of them, in
\* whatever order overlapping analyses end, as long as none failed.
PairsAreFlagged ==
    \A a, b \in Players :
      lost = 0 /\ coSeat(recentStaked, a, b) >= PairThreshold
        => Flag(a, b, "collusion_pairing", 2) \in Filed
=============================================================================
