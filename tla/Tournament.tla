----------------------------- MODULE Tournament -----------------------------
(***************************************************************************)
(* One paid tournament: TournamentService (packages/server/src/tournament/ *)
(* tournamentService.ts) and the bracket the gateway runs for it           *)
(* (realtime/gateway.ts, tournamentMatchRegistry.ts).  The service changes *)
(* the row under a lock per tournament; a change is one step, except that  *)
(* a refund of all players is one transaction per player.  The gateway's   *)
(* calls await the service and work on what they read before.              *)
(*                                                                         *)
(* Players are numbered in the order in which they register, and a pairing *)
(* is <<round, index>>.  Whether a player is online and free when a room   *)
(* is made is a choice.  The prize is the pool less the rake, paid in one  *)
(* transaction; both are the ledger's row Prize.                           *)
(***************************************************************************)
EXTENDS Integers, FiniteSets

CONSTANTS
    Settings,    \* the values `setting` may have
    Admins

VARIABLES
    setting,     \* [capacity, dualControl, troubles]: of the tournament; whether a second
                 \* administrator confirms a champion; a bound on failures and crashes
    phase,       \* status of the row; "none" before create, "deleted" after adminDelete
    entered,     \* how many players are in
    winner,      \* pairing -> its winner, 0 if undecided
    pendingWinner, \* the parked champion
    reportedBy,  \* who reported the parked champion
    recorded,    \* recordedOutcomes: pairing -> the engine's winner (memory)
    marked,      \* pairings the registry says are running (memory)
    room,        \* pairing -> its room (memory)
    joined,      \* pairing -> the players in its room (memory)
    noShow,      \* pairings with a no-show timer (memory)
    runAsked,       \* has runTournamentMatches been called? (memory)
    toStart,     \* pairings it read as undecided and has yet to look at (memory)
    toReport,    \* <<pairing, winner>> that advanceTournament reports (memory)
    refunding,   \* whom a cancel or sweep has yet to refund; Idle if none runs
    rows,        \* the ledger's references
    torn,        \* did a refund stop half way? (history)
    troublesT    \* failed transactions and crashes so far

tournamentVars == <<setting, phase, entered, winner, pendingWinner, reportedBy, recorded, marked,
                    room, joined, noShow, runAsked, toStart, toReport, refunding, rows, torn,
                    troublesT>>
bracketRow == <<entered, winner, pendingWinner, reportedBy>>
live == <<marked, room, joined, noShow>>
money == <<refunding, rows, torn>>

Capacity == setting.capacity
Rounds == {r \in 0..7 : 2 ^ (r + 1) <= Capacity}
Pairings == {p \in Rounds \X (0 .. Capacity) : p[2] < Capacity \div 2 ^ (p[1] + 1)}
InRound(r) == {p \in Pairings : p[1] = r}
Final(p) == Cardinality(InRound(p[1])) = 1
Nobody == 0
Prize == <<"prize", Nobody>>
Idle == {Nobody}

\* The two players of a pairing: seeded in order of registration, then the
\* winners of the round before.
Sides(p) == IF p[1] = 0 THEN <<2 * p[2] + 1, 2 * p[2] + 2>>
            ELSE <<winner[<<p[1] - 1, 2 * p[2]>>], winner[<<p[1] - 1, 2 * p[2] + 1>>]>>
Players(p) == {Sides(p)[1], Sides(p)[2]}

\* A round is built once every pairing of the one before is decided.
Built(p) == \A q \in Pairings : q[1] = p[1] - 1 => winner[q] # Nobody

Init ==
    /\ setting \in Settings
    /\ phase = "none"
    /\ entered = 0
    /\ winner = [p \in Pairings |-> Nobody]
    /\ pendingWinner = Nobody /\ reportedBy = "none"
    /\ recorded = [p \in Pairings |-> Nobody]
    /\ marked = {}
    /\ room = [p \in Pairings |-> "none"]
    /\ joined = [p \in Pairings |-> {}]
    /\ noShow = {}
    /\ runAsked = FALSE /\ toStart = {} /\ toReport = {}
    /\ refunding = Idle
    /\ rows = {}
    /\ torn = FALSE
    /\ troublesT = 0

-----------------------------------------------------------------------------
(* The service, under the tournament's lock.                               *)

Unlocked == refunding = Idle

create ==
    /\ phase = "none"
    /\ phase' = "registering"
    /\ UNCHANGED <<setting, bracketRow, recorded, live, runAsked, toStart, toReport, money, troublesT>>

\* The buy-in and the row are one transaction.  The last player starts it.
register ==
    /\ phase = "registering" /\ Unlocked /\ entered < Capacity
    /\ entered' = entered + 1
    /\ rows' = rows \cup {<<"buyin", entered'>>}
    /\ phase' = IF entered' = Capacity THEN "running" ELSE phase
    /\ runAsked' = (runAsked \/ entered' = Capacity)
    /\ UNCHANGED <<setting, winner, pendingWinner, reportedBy, recorded, live, toStart, toReport,
                   refunding, torn, troublesT>>

\* Mutant of finish: the payout commits although the row is not written.
finish_twoWrites ==
    /\ recorded' = [p \in Pairings |-> Nobody]
    /\ rows' = rows \cup {Prize}
    /\ \/ /\ phase' = "finished"
          /\ UNCHANGED troublesT
       \/ /\ troublesT < setting.troubles
          /\ troublesT' = troublesT + 1
          /\ UNCHANGED phase

\* finish(): the recorded outcomes are dropped, then the payout and the
\* finished row are one transaction, which may fail.
finish ==
    /\ recorded' = [p \in Pairings |-> Nobody]
    /\ \/ /\ phase' = "finished"
          /\ rows' = rows \cup {Prize}
          /\ UNCHANGED troublesT
       \/ /\ troublesT < setting.troubles
          /\ troublesT' = troublesT + 1
          /\ UNCHANGED <<phase, rows>>

\* reportResult() once its checks passed.  `by` is the administrator, or the gateway.
\* What a failed save or payout leaves behind is the row as it was.
decide(p, w, by) ==
    \/ /\ ~Final(p)
       /\ winner' = [winner EXCEPT ![p] = w]
       /\ recorded' = [recorded EXCEPT ![p] = Nobody]
       /\ UNCHANGED <<phase, pendingWinner, reportedBy, rows, troublesT>>
    \/ /\ Final(p) /\ setting.dualControl /\ by # "gateway"
       /\ winner' = [winner EXCEPT ![p] = w]
       /\ phase' = "awaiting_confirmation"
       /\ pendingWinner' = w /\ reportedBy' = by
       /\ recorded' = [recorded EXCEPT ![p] = Nobody]
       /\ UNCHANGED <<rows, troublesT>>
    \/ /\ Final(p) /\ ~(setting.dualControl /\ by # "gateway")
       /\ finish
       /\ winner' = [winner EXCEPT ![p] = IF phase' = "finished" THEN w ELSE @]
       /\ UNCHANGED <<pendingWinner, reportedBy>>
    \/ /\ troublesT < setting.troubles
       /\ troublesT' = troublesT + 1
       /\ UNCHANGED <<phase, winner, pendingWinner, reportedBy, recorded, rows>>

Reportable(p, w) == phase = "running" /\ Unlocked /\ Built(p) /\ winner[p] = Nobody /\ w \in Players(p)

\* An administrator reports a pairing; the recorded outcome is not overruled.
reportRoute(p, w, admin) ==
    /\ Reportable(p, w) /\ recorded[p] \in {Nobody, w}
    /\ decide(p, w, admin)
    /\ UNCHANGED <<setting, entered, live, runAsked, toStart, toReport, refunding, torn>>

\* A second administrator confirms the parked champion.
confirmChampion(admin) ==
    /\ phase = "awaiting_confirmation" /\ Unlocked /\ reportedBy # admin
    /\ finish
    /\ IF phase' = "finished" THEN pendingWinner' = Nobody /\ reportedBy' = "none"
       ELSE UNCHANGED <<pendingWinner, reportedBy>>
    /\ UNCHANGED <<setting, entered, winner, live, runAsked, toStart, toReport, refunding, torn>>

\* Mutant of adminDelete: a tournament that holds buy-ins may be deleted.
adminDelete_active ==
    /\ phase # "none" /\ Unlocked
    /\ phase' = "deleted"
    /\ recorded' = [p \in Pairings |-> Nobody]
    /\ UNCHANGED <<setting, bracketRow, live, runAsked, toStart, toReport, money, troublesT>>

adminDelete ==
    /\ phase \in {"finished", "cancelled"} /\ Unlocked
    /\ phase' = "deleted"
    /\ recorded' = [p \in Pairings |-> Nobody]
    /\ UNCHANGED <<setting, bracketRow, live, runAsked, toStart, toReport, money, troublesT>>

\* cancel() and sweepStale() take the lock and start to refund.
Sweepable == {"registering", "running", "awaiting_confirmation"}
refundBegin ==
    /\ phase \in Sweepable /\ Unlocked
    /\ refunding' = 1 .. entered
    /\ UNCHANGED <<setting, phase, bracketRow, recorded, live, runAsked, toStart, toReport, rows,
                   torn, troublesT>>

\* One refund, under its own reference, in order.
refundOne ==
    /\ ~Unlocked /\ refunding # {}
    /\ LET u == CHOOSE v \in refunding : \A x \in refunding : v <= x
       IN  /\ rows' = rows \cup {<<"refund", u>>}
           /\ refunding' = refunding \ {u}
    /\ UNCHANGED <<setting, phase, bracketRow, recorded, live, runAsked, toStart, toReport, torn, troublesT>>

\* All refunded: the row is saved.  Only cancel() drops the recorded outcomes.
refundEnd ==
    /\ refunding = {}
    /\ refunding' = Idle
    /\ phase' = "cancelled"
    /\ \/ recorded' = [p \in Pairings |-> Nobody]
       \/ UNCHANGED recorded
    /\ UNCHANGED <<setting, bracketRow, live, runAsked, toStart, toReport, rows, torn, troublesT>>

HalfRefunded == \E u \in 1 .. entered : <<"refund", u>> \in rows

\* A refund or the save fails: the lock is released, the row is as it was.
refundFails ==
    /\ ~Unlocked /\ troublesT < setting.troubles
    /\ refunding' = Idle
    /\ torn' = HalfRefunded
    /\ troublesT' = troublesT + 1
    /\ UNCHANGED <<setting, phase, bracketRow, recorded, live, runAsked, toStart, toReport, rows>>

-----------------------------------------------------------------------------
(* The gateway.                                                            *)

\* runTournamentMatches(): what it reads is what it will go through.
runTournamentMatches ==
    /\ runAsked
    /\ runAsked' = FALSE
    /\ toStart' = IF phase = "running"
                  THEN toStart \cup {p \in Pairings : Built(p) /\ winner[p] = Nobody} ELSE toStart
    /\ UNCHANGED <<setting, phase, bracketRow, recorded, live, toReport, money, troublesT>>

\* advanceTournament(), up to its call of the service.  The record of a pairing
\* that is decided is never read, and not kept here.
Advance(p, w) ==
    /\ marked' = marked \ {p}
    /\ recorded' = [recorded EXCEPT ![p] = IF winner[p] = Nobody THEN w ELSE @]
    /\ toReport' = toReport \cup {<<p, w>>}

\* A room for two players who can play, or a walkover.
startTournamentMatch(p, able) ==
    /\ p \in toStart
    /\ toStart' = toStart \ {p}
    /\ \/ /\ p \in marked
          /\ UNCHANGED <<recorded, live, toReport>>
       \/ /\ p \notin marked /\ able = Players(p)
          /\ marked' = marked \cup {p}
          /\ room' = [room EXCEPT ![p] = "waiting"]
          /\ joined' = [joined EXCEPT ![p] = {}]
          /\ noShow' = noShow \cup {p}
          /\ UNCHANGED <<recorded, toReport>>
       \/ /\ p \notin marked /\ able # Players(p)
          /\ Advance(p, IF Sides(p)[2] \in able THEN Sides(p)[2] ELSE Sides(p)[1])
          /\ UNCHANGED <<room, joined, noShow>>
    /\ UNCHANGED <<setting, phase, bracketRow, runAsked, money, troublesT>>

\* A paired player joins.  With both in, the countdown starts and the no-show
\* timer is cancelled.
joinMatch(p, u) ==
    /\ room[p] = "waiting" /\ u \in Players(p) \ joined[p]
    /\ joined' = [joined EXCEPT ![p] = @ \cup {u}]
    /\ noShow' = IF joined'[p] = Players(p) THEN noShow \ {p} ELSE noShow
    /\ UNCHANGED <<setting, phase, bracketRow, recorded, marked, room, runAsked, toStart, toReport,
                   money, troublesT>>

\* A player leaves before the start; an empty room is closed.
leaveMatch(p, u) ==
    /\ room[p] = "waiting" /\ u \in joined[p]
    /\ joined' = [joined EXCEPT ![p] = @ \ {u}]
    /\ room' = [room EXCEPT ![p] = IF joined'[p] = {} THEN "none" ELSE @]
    /\ UNCHANGED <<setting, phase, bracketRow, recorded, marked, noShow, runAsked, toStart, toReport,
                   money, troublesT>>

\* The countdown ends.
beginMatch(p) ==
    /\ room[p] = "waiting" /\ joined[p] = Players(p)
    /\ room' = [room EXCEPT ![p] = "playing"]
    /\ UNCHANGED <<setting, phase, bracketRow, recorded, marked, joined, noShow, runAsked, toStart,
                   toReport, money, troublesT>>

\* The timer fires: whoever joined goes on, the first of the two if neither
\* did.  A room that is gone, or has started, decides nothing here.
onTournamentNoShow(p) ==
    /\ p \in noShow
    /\ noShow' = noShow \ {p}
    /\ IF room[p] = "waiting"
         THEN /\ Advance(p, IF Sides(p)[1] \notin joined[p] /\ Sides(p)[2] \in joined[p]
                            THEN Sides(p)[2] ELSE Sides(p)[1])
              /\ room' = [room EXCEPT ![p] = "none"]
              /\ joined' = [joined EXCEPT ![p] = {}]
         ELSE UNCHANGED <<marked, recorded, toReport, room, joined>>
    /\ UNCHANGED <<setting, phase, bracketRow, runAsked, toStart, money, troublesT>>

\* The match ends (module Match), or is forfeited.
matchEnds(p, w) ==
    /\ room[p] = "playing" /\ w \in joined[p]
    /\ Advance(p, w)
    /\ room' = [room EXCEPT ![p] = "none"]
    /\ joined' = [joined EXCEPT ![p] = {}]
    /\ UNCHANGED <<setting, phase, bracketRow, noShow, runAsked, toStart, money, troublesT>>

\* The service answers advanceTournament.  Any error ends it there; otherwise
\* the next rooms are made.
reportEngine(p, w) ==
    /\ <<p, w>> \in toReport /\ Unlocked
    /\ toReport' = toReport \ {<<p, w>>}
    /\ \/ /\ Reportable(p, w)
          /\ decide(p, w, "gateway")
          /\ runAsked' = (runAsked \/ troublesT' = troublesT)
       \/ /\ ~Reportable(p, w)
          /\ UNCHANGED <<phase, winner, pendingWinner, reportedBy, recorded, rows, runAsked, troublesT>>
    /\ UNCHANGED <<setting, entered, live, toStart, refunding, torn>>

\* The process dies: rooms, timers, calls and recorded outcomes are gone.
crashTournament ==
    /\ troublesT < setting.troubles
    /\ troublesT' = troublesT + 1
    /\ recorded' = [p \in Pairings |-> Nobody]
    /\ marked' = {}
    /\ room' = [p \in Pairings |-> "none"]
    /\ joined' = [p \in Pairings |-> {}]
    /\ noShow' = {} /\ runAsked' = FALSE /\ toStart' = {} /\ toReport' = {}
    /\ refunding' = Idle
    /\ torn' = (torn \/ (~Unlocked /\ HalfRefunded))
    /\ UNCHANGED <<setting, phase, bracketRow, rows>>

Refunds == refundBegin \/ refundOne \/ refundEnd

Next ==
    \/ create \/ register \/ adminDelete \/ Refunds \/ refundFails
    \/ runTournamentMatches \/ crashTournament
    \/ \E admin \in Admins : confirmChampion(admin)
    \/ \E p \in Pairings :
         \/ beginMatch(p) \/ onTournamentNoShow(p)
         \/ \E able \in SUBSET (1 .. Capacity) : able \subseteq Players(p) /\ startTournamentMatch(p, able)
         \/ \E u \in 1 .. Capacity :
              \/ joinMatch(p, u) \/ leaveMatch(p, u) \/ matchEnds(p, u) \/ reportEngine(p, u)
              \/ \E admin \in Admins : reportRoute(p, u, admin)

\* The sweep comes round every five minutes, a day after the creation.
Fairness == WF_tournamentVars(Refunds)

-----------------------------------------------------------------------------
Refunded(u) == <<"refund", u>> \in rows

\* A pool leaves the escrow once: as the champion's prize or as refunds, never
\* both, however cancel(), the sweep, the gateway's reports, administrators
\* and crashes interleave.  A refund that stopped half way is the exception
\* that HalfRefundIsSafe is about.
PoolPaidOnce ==
    /\ Prize \in rows => torn \/ \A u \in 1 .. entered : ~Refunded(u)
    /\ phase = "finished" => Prize \in rows
    /\ phase = "cancelled" => Prize \notin rows /\ \A u \in 1 .. entered : Refunded(u)

\* Whatever happens to the bracket, a buy-in comes back or the prize is paid.
PoolIsReleased == (entered > 0) ~> (Prize \in rows \/ \A u \in 1 .. entered : Refunded(u))

\* tournamentService.ts:348-350: "Until a champion is paid [...], the whole
\* pool is still escrowed, so refunding every player exactly returns it."
HalfRefundIsSafe == Prize \in rows => \A u \in 1 .. entered : ~Refunded(u)
=============================================================================
