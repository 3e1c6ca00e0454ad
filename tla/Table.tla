-------------------------------- MODULE Table --------------------------------
(***************************************************************************)
(* The life of one table: RoomManager's room, and the gateway's start and  *)
(* end of a match around it (packages/server/src/room/roomManager.ts,      *)
(* packages/server/src/realtime/gateway.ts), with the recovery sweep.      *)
(*                                                                         *)
(* Node runs one handler at a time, but tryBeginMatch, the finalisation    *)
(* and the sweep await the database, and players come, go and press        *)
(* buttons in between.  Each of them is a task here, split where the code  *)
(* awaits: one step makes the call, one continues when it returns or       *)
(* throws.  A call of MoneyService is atomic between the two, because      *)
(* inFlight admits one per match (module MoneyService has the inside).     *)
(*                                                                         *)
(* The match itself is reduced to being left and ending (module Match).    *)
(* The table is a plain staked one: no bots, teams, tournament or war.  A  *)
(* player who lost the connection during a match is one who does nothing.  *)
(***************************************************************************)
EXTENDS Naturals, FiniteSets, TLC

CONSTANTS
    Users, NoUser,
    N,             \* PLAYERS_PER_TYPE: 2 or 3
    MaxMatches,    \* bound: matches begun at this table
    MaxFaults      \* bound: transactions that fail, and crashes

ASSUME NAssumption == N \in {2, 3}
ASSUME UsersAssumption == NoUser \notin Users
ASSUME BoundsAssumption == MaxMatches \in Nat /\ MaxFaults \in Nat

VARIABLES
    status,    \* room.status, or "closed" once the room is deleted
    seat,      \* room.seats
    matchId,   \* room.matchId
    matchSeq,  \* room.matchSeq
    playing,   \* room.match: the id under which it was started
    countdown, \* is the ready-check countdown armed?
    finalized, \* finalizedMatches
    begin,     \* match id -> the tryBeginMatch that is starting it
    final,     \* match id -> its finalisation under way
    sweep,     \* the recovery sweep
    inFlight,  \* match ids with a MoneyService call under way
    row,       \* match id -> its row in the database
    \* history, read by the properties only
    won,       \* matches that somebody won
    faults,    \* how many transactions failed, or processes died
    overlap,   \* was a match begun while another was starting or on?
    lateSwept  \* matches a sweep refunded that were not on when it started

room == <<status, seat, matchId, matchSeq, playing, countdown>>
tasks == <<finalized, begin, final, sweep, inFlight, row>>
history == <<won, faults, overlap, lateSwept>>
vars == <<room, tasks, history>>

Seats == 0 .. N - 1
MatchIds == 1 .. MaxMatches
NoMatch == 0
Perms == Permutations(Users)      \* the users are interchangeable

seatFor(u) == [user |-> u, ready |-> FALSE, gone |-> FALSE]
emptySeat == seatFor(NoUser)
Nobody == [s \in Seats |-> NoUser]

\* A tryBeginMatch at step pc, with its call of MoneyService under way and the
\* players it escrows.
Begin(pc, call, players) == [pc |-> pc, call |-> call, players |-> players]
NoBegin == Begin("idle", NoMatch, Nobody)
NoFinal == [pc |-> "idle", call |-> NoMatch]
NoSweep == [pc |-> "idle", live |-> {}, todo |-> {}, cur |-> NoMatch, owned |-> {}]
Listing(live, owned) ==
    [pc |-> "listing", live |-> live, todo |-> {}, cur |-> NoMatch, owned |-> owned]
NoRow == [status |-> "none", players |-> Nobody]

-----------------------------------------------------------------------------
(* Reading the room.                                                       *)

\* userRoom: who is in the room.  A player who left the match is not, though
\* the seat keeps the name until the match is finalised.
Member(s) == seat[s].user # NoUser /\ ~seat[s].gone
SeatOf(u) == CHOOSE s \in Seats : seat[s].user = u
InRoom(u) == \E s \in Seats : seat[s].user = u /\ Member(s)

Roster(seats) == [s \in Seats |-> seats[s].user]
isFull(seats) == \A s \in Seats : seats[s].user # NoUser
allReady(seats) == \A s \in Seats : seats[s].user # NoUser /\ seats[s].ready

\* Mutant of activeMatchIds: finished rooms are counted as live.
activeMatchIds_finishedToo == IF status # "closed" THEN {matchId} \ {NoMatch} ELSE {}

activeMatchIds == IF status = "inMatch" THEN {matchId} \ {NoMatch} ELSE {}

\* setReady, for the members among `seats`; refused while a match is on.
SetReady(seats, ready) ==
    IF status = "inMatch" THEN seat
    ELSE [s \in Seats |-> IF s \in seats /\ Member(s) THEN [seat[s] EXCEPT !.ready = ready]
                          ELSE seat[s]]

\* maybeStartCountdown arms the countdown, leaves an armed one, or clears it.
maybeStartCountdown == countdown' = allReady(seat')

-----------------------------------------------------------------------------
(* Players.                                                                *)

MayJoin(u) == status = "waiting" /\ ~InRoom(u)

\* The first free seat.
joinRoom(u) ==
    /\ MayJoin(u)
    /\ \E s \in Seats :
         /\ seat[s].user = NoUser
         /\ \A t \in 0 .. s - 1 : seat[t].user # NoUser
         /\ seat' = [seat EXCEPT ![s] = seatFor(u)]
    /\ status' = IF isFull(seat') THEN "ready" ELSE status
    /\ maybeStartCountdown
    /\ UNCHANGED <<matchId, matchSeq, playing, tasks, history>>

onReady(u, ready) ==
    /\ InRoom(u)
    /\ status # "inMatch"
    /\ seat' = SetReady({SeatOf(u)}, ready)
    /\ maybeStartCountdown
    /\ UNCHANGED <<status, matchId, matchSeq, playing, tasks, history>>

\* Leaving, or losing the connection, outside a match: leaveRoom and what
\* leaveAndNotify does after it.
leaveAndNotify(u) ==
    /\ status # "inMatch"
    /\ InRoom(u)
    /\ seat' = [seat EXCEPT ![SeatOf(u)] = emptySeat]
    /\ status' = IF \A s \in Seats : seat'[s].user = NoUser THEN "closed"
                 ELSE IF status = "ready" THEN "waiting" ELSE status
    /\ maybeStartCountdown
    /\ UNCHANGED <<matchId, matchSeq, playing, tasks, history>>

\* The last acceptance of a rematch offer, with everyone still there: the room
\* is reset, all are ready.
onRematch ==
    /\ status = "finished"
    /\ \A s \in Seats : Member(s)
    /\ status' = "waiting"
    /\ playing' = NoMatch
    /\ seat' = [s \in Seats |-> [seat[s] EXCEPT !.ready = TRUE]]
    /\ maybeStartCountdown
    /\ UNCHANGED <<matchId, matchSeq, tasks, history>>

-----------------------------------------------------------------------------
(* Calls of MoneyService.  A call for a match that has one under way       *)
(* returns at once and does nothing: it is then a call of NoMatch.         *)

Callable(id) == IF id \in inFlight THEN NoMatch ELSE id
Calls(id) == inFlight' = inFlight \cup ({Callable(id)} \ {NoMatch})
Returned(id) == inFlight' = inFlight \ {id}

\* settle and refund close a row that is active and touch no other.
Close(id, how) ==
    row' = IF id # NoMatch /\ row[id].status = "active" THEN [row EXCEPT ![id].status = how]
           ELSE row

Fault == faults < MaxFaults /\ faults' = faults + 1

-----------------------------------------------------------------------------
(* tryBeginMatch(m).                                                       *)

assignMatchId == matchSeq + 1

\* The countdown runs out: beginMatch, up to the first await.
beginMatch ==
    /\ countdown
    /\ countdown' = FALSE
    /\ \/ /\ ~allReady(seat)
          /\ UNCHANGED <<matchId, matchSeq, finalized, begin, overlap>>
       \/ /\ allReady(seat)
          /\ assignMatchId \in MatchIds
          /\ finalized' = finalized \ {matchId}
          /\ matchSeq' = assignMatchId
          /\ matchId' = assignMatchId
          /\ begin' = [begin EXCEPT ![assignMatchId] = Begin("gates", NoMatch, Nobody)]
          /\ overlap' = (overlap \/ status = "inMatch" \/ \E id \in MatchIds : begin[id] # NoBegin)
    /\ UNCHANGED <<status, seat, playing, final, sweep, inFlight, row,
                   won, faults, lateSwept>>

\* The account, compliance or loss-limit gates turn some players down.
gatesBlock(m) ==
    /\ begin[m].pc = "gates"
    /\ \E blocked \in (SUBSET {s \in Seats : seat[s].user # NoUser}) \ {{}} :
         seat' = SetReady(blocked, FALSE)
    /\ begin' = [begin EXCEPT ![m] = NoBegin]
    /\ UNCHANGED <<status, matchId, matchSeq, playing, countdown, finalized, final,
                   sweep, inFlight, row, history>>

\* The gates let everybody pass: escrow the stakes of whoever is seated now,
\* or give up if nobody is, or if a call for this match is under way already.
gatesPass(m) ==
    /\ begin[m].pc = "gates"
    /\ \/ /\ m \in inFlight \/ \A s \in Seats : seat[s].user = NoUser
          /\ begin' = [begin EXCEPT ![m] = NoBegin]
          /\ UNCHANGED inFlight
       \/ /\ m \notin inFlight
          /\ \E s \in Seats : seat[s].user # NoUser
          /\ begin' = [begin EXCEPT ![m] = Begin("escrow", m, Roster(seat))]
          /\ Calls(m)
    /\ UNCHANGED <<room, finalized, final, sweep, row, history>>

\* Someone cannot cover the stake.
escrowRefused(m) ==
    /\ begin[m].pc = "escrow"
    /\ \E poor \in (SUBSET Users) \ {{}} :
         /\ poor \subseteq {begin[m].players[s] : s \in Seats}
         /\ seat' = SetReady({s \in Seats : seat[s].user \in poor}, FALSE)
    /\ begin' = [begin EXCEPT ![m] = NoBegin]
    /\ Returned(m)
    /\ UNCHANGED <<status, matchId, matchSeq, playing, countdown, finalized, final,
                   sweep, row, history>>

\* Mutant of RosterIntact: only the ready flags are checked after the escrow.
RosterIntact_readyOnly(m) == status # "closed" /\ allReady(seat)

\* The seats are exactly those that were charged, and still ready.
RosterIntact(m) ==
    /\ status # "closed"
    /\ Roster(seat) = begin[m].players
    /\ allReady(seat)

\* The stakes are in: start, or refund if the table changed or is playing.
escrowed(m) ==
    /\ begin[m].pc = "escrow"
    /\ row' = IF row[m] = NoRow
              THEN [row EXCEPT ![m] = [status |-> "active", players |-> begin[m].players]]
              ELSE row
    /\ \/ /\ RosterIntact(m) /\ status # "inMatch"
          /\ status' = "inMatch"
          /\ playing' = m
          /\ begin' = [begin EXCEPT ![m] = NoBegin]
          /\ Returned(m)
       \/ /\ ~RosterIntact(m) \/ status = "inMatch"
          /\ begin' = [begin EXCEPT ![m] = Begin("undo", m, Nobody)]
          /\ UNCHANGED <<status, playing, inFlight>>
    /\ UNCHANGED <<seat, matchId, matchSeq, countdown, finalized, final, sweep, history>>

\* The refund returned: everybody is unreadied.
undone(m) ==
    /\ begin[m].pc = "undo"
    /\ Close(begin[m].call, "cancelled")
    /\ Returned(begin[m].call)
    /\ seat' = SetReady(Seats, FALSE)
    /\ begin' = [begin EXCEPT ![m] = NoBegin]
    /\ UNCHANGED <<status, matchId, matchSeq, playing, countdown, finalized, final,
                   sweep, history>>

\* The escrow or the refund threw: beginMatch's handler refunds the match the
\* room now names, whichever that is, if the room is still there.
startThrows(m) ==
    LET named == IF status = "closed" THEN NoMatch ELSE matchId
        free == inFlight \ {begin[m].call}
        call == IF named \in free THEN NoMatch ELSE named
    IN  /\ begin[m].pc \in {"escrow", "undo"}
        /\ begin' = [begin EXCEPT ![m] = Begin("emergency", call, Nobody)]
        /\ inFlight' = free \cup ({call} \ {NoMatch})
        /\ Fault
        /\ UNCHANGED <<room, finalized, final, sweep, row, won, overlap, lateSwept>>

\* Mutant of unreadied: the handler leaves the players ready.
unreadied_not == seat

unreadied == SetReady(Seats, FALSE)

\* The handler's refund returned, or threw too: everybody is unreadied.
emergencyEnds(m) ==
    /\ begin[m].pc = "emergency"
    /\ \/ Close(begin[m].call, "cancelled") /\ UNCHANGED faults
       \/ UNCHANGED row /\ Fault
    /\ Returned(begin[m].call)
    /\ seat' = unreadied
    /\ begin' = [begin EXCEPT ![m] = NoBegin]
    /\ UNCHANGED <<status, matchId, matchSeq, playing, countdown, finalized, final,
                   sweep, won, overlap, lateSwept>>

-----------------------------------------------------------------------------
(* The match ends.                                                         *)

\* Mutant of FinalizeKey: the claim is made for the room, not for the match.
FinalizeKey_room == NoMatch

FinalizeKey == matchId

\* claimFinalize, then the call that closes the pot of the match the room names.
Finalize(pc) ==
    \/ /\ FinalizeKey \in finalized
       /\ UNCHANGED <<finalized, final, inFlight>>
    \/ /\ FinalizeKey \notin finalized
       /\ finalized' = finalized \cup {FinalizeKey}
       /\ final' = [final EXCEPT ![matchId] = [pc |-> pc, call |-> Callable(matchId)]]
       /\ Calls(matchId)

\* The last card, or the last departure: a side has won, or nobody has.
Ends(how) ==
    /\ status' = "finished"
    /\ won' = IF how = "won" THEN won \cup {playing} ELSE won
    /\ Finalize(IF how = "won" THEN "settle" ELSE "refund")

matchEnds(how) ==
    /\ status = "inMatch"
    /\ Ends(how)
    /\ UNCHANGED <<seat, matchId, matchSeq, playing, countdown, begin, sweep, row,
                   faults, overlap, lateSwept>>

\* Left, not back within the grace, or idle: the seat is marked gone, the match
\* goes on without the player or is over.
forfeitMatch(s) ==
    LET left == {t \in Seats : Member(t)} \ {s}
    IN  /\ status = "inMatch"
        /\ Member(s)
        /\ seat' = [seat EXCEPT ![s] = [seat[s] EXCEPT !.ready = FALSE, !.gone = TRUE]]
        /\ \/ /\ Cardinality(left) > 1
              /\ UNCHANGED <<status, won, finalized, final, inFlight>>
           \/ /\ Cardinality(left) <= 1
              /\ Ends("won")
        /\ UNCHANGED <<matchId, matchSeq, playing, countdown, begin, sweep, row,
                       faults, overlap, lateSwept>>

\* An administrator voids the match, unless its end was claimed already.
adminVoidMatch ==
    /\ status = "inMatch"
    /\ FinalizeKey \notin finalized
    /\ status' = "finished"
    /\ Finalize("void")
    /\ UNCHANGED <<seat, matchId, matchSeq, playing, countdown, begin, sweep, row,
                   won, faults, overlap, lateSwept>>

clearGoneSeats ==
    seat' = [s \in Seats |-> IF seat[s].gone THEN emptySeat ELSE seat[s]]

\* The call returned, with or without effect, or threw.  What settle paid is
\* recorded first, which awaits once more; a void frees no seat.
finalReturns(m) ==
    LET f == final[m]
        closed == f.call # NoMatch /\ row[f.call].status = "active"
    IN  /\ f.pc \in {"settle", "refund", "void"}
        /\ Returned(f.call)
        /\ \/ /\ Close(f.call, IF f.pc = "settle" THEN "settled" ELSE "cancelled")
              /\ final' = [final EXCEPT ![m] = IF f.pc = "settle" /\ closed
                                               THEN [pc |-> "record", call |-> NoMatch]
                                               ELSE NoFinal]
              /\ UNCHANGED faults
           \/ /\ Fault
              /\ final' = [final EXCEPT ![m] = NoFinal]
              /\ UNCHANGED row
        /\ IF f.pc = "void" \/ final'[m].pc = "record" THEN UNCHANGED seat ELSE clearGoneSeats
        /\ UNCHANGED <<status, matchId, matchSeq, playing, countdown, finalized, begin,
                       sweep, won, overlap, lateSwept>>

recorded(m) ==
    /\ final[m].pc = "record"
    /\ final' = [final EXCEPT ![m] = NoFinal]
    /\ clearGoneSeats
    /\ UNCHANGED <<status, matchId, matchSeq, playing, countdown, finalized, begin,
                   sweep, inFlight, row, history>>

-----------------------------------------------------------------------------
(* recoverOrphanedMatches, started by the timer with the ids live then.    *)

Owned == IF status = "inMatch" THEN {playing} ELSE {}

\* (A sweep that could find nothing is left out.)
sweepStarts ==
    /\ sweep = NoSweep
    /\ \E id \in MatchIds : row[id].status = "active" \/ begin[id].pc = "escrow"
    /\ sweep' = Listing(activeMatchIds, Owned)
    /\ UNCHANGED <<room, finalized, begin, final, inFlight, row, history>>

\* Mutant of Orphans: the live matches are not spared.
Orphans_all == {id \in MatchIds : row[id].status = "active"}

Orphans == {id \in MatchIds : row[id].status = "active"} \ sweep.live

\* The sweep with `todo` left to refund; it is over when nothing is.
Sweeping(todo) ==
    IF todo = {} THEN NoSweep
    ELSE [pc |-> "refunding", live |-> {}, todo |-> todo, cur |-> NoMatch, owned |-> sweep.owned]

sweepLists ==
    /\ sweep.pc = "listing"
    /\ sweep' = Sweeping(Orphans)
    /\ UNCHANGED <<room, finalized, begin, final, inFlight, row, history>>

sweepRefunds ==
    /\ sweep.pc = "refunding" /\ sweep.cur = NoMatch
    /\ \E id \in sweep.todo :
         sweep' = IF id \in inFlight THEN Sweeping(sweep.todo \ {id})
                  ELSE [sweep EXCEPT !.cur = id]
    /\ inFlight' = inFlight \cup ({sweep'.cur} \ {NoMatch})
    /\ UNCHANGED <<room, finalized, begin, final, row, history>>

\* A refund that throws ends the sweep.
sweepReturns ==
    /\ sweep.cur # NoMatch
    /\ Returned(sweep.cur)
    /\ \/ /\ Close(sweep.cur, "cancelled")
          /\ sweep' = Sweeping(sweep.todo \ {sweep.cur})
          /\ lateSwept' = lateSwept \cup ({sweep.cur} \ sweep.owned)
          /\ UNCHANGED faults
       \/ /\ Fault
          /\ sweep' = NoSweep
          /\ UNCHANGED <<row, lateSwept>>
    /\ UNCHANGED <<room, finalized, begin, final, won, overlap>>

\* The process dies and is started again: the room is gone, the boot sweep
\* takes every active row for an orphan.
crash ==
    /\ Fault
    /\ status' = "closed"
    /\ seat' = [s \in Seats |-> emptySeat]
    /\ countdown' = FALSE
    /\ playing' = NoMatch
    /\ finalized' = {}
    /\ begin' = [id \in MatchIds |-> NoBegin]
    /\ final' = [id \in MatchIds |-> NoFinal]
    /\ inFlight' = {}
    /\ sweep' = Listing({}, {})
    /\ UNCHANGED <<matchId, matchSeq, row, won, overlap, lateSwept>>

-----------------------------------------------------------------------------
\* createRoom seats its creator.
Init ==
    /\ status = "waiting"
    /\ \E u \in Users : seat = [s \in Seats |-> IF s = 0 THEN seatFor(u) ELSE emptySeat]
    /\ matchId = NoMatch /\ matchSeq = 0 /\ playing = NoMatch
    /\ countdown = FALSE
    /\ finalized = {}
    /\ begin = [id \in MatchIds |-> NoBegin]
    /\ final = [id \in MatchIds |-> NoFinal]
    /\ sweep = NoSweep
    /\ inFlight = {}
    /\ row = [id \in MatchIds |-> NoRow]
    /\ won = {}
    /\ faults = 0 /\ overlap = FALSE /\ lateSwept = {}

PlayerStep(u) ==
    joinRoom(u) \/ leaveAndNotify(u) \/ \E b \in BOOLEAN : onReady(u, b)

BeginStep(m) ==
    \/ gatesBlock(m) \/ gatesPass(m) \/ escrowRefused(m) \/ escrowed(m) \/ undone(m)
    \/ startThrows(m) \/ emergencyEnds(m)
FinalStep(m) == finalReturns(m) \/ recorded(m)
SweepStep == sweepStarts \/ sweepLists \/ sweepRefunds \/ sweepReturns
MatchEnds == \E how \in {"won", "nobody"} : matchEnds(how)

Next ==
    \/ \E u \in Users : PlayerStep(u)
    \/ onRematch
    \/ beginMatch
    \/ \E m \in MatchIds : BeginStep(m) \/ FinalStep(m)
    \/ MatchEnds \/ adminVoidMatch \/ \E s \in Seats : forfeitMatch(s)
    \/ SweepStep
    \/ crash

Spec == Init /\ [][Next]_vars

\* A call to the database returns or throws, and the sweep's timer is periodic.
FairSpec ==
    /\ Spec
    /\ \A m \in MatchIds : WF_vars(BeginStep(m)) /\ WF_vars(FinalStep(m))
    /\ WF_vars(SweepStep)

-----------------------------------------------------------------------------
TypeOK ==
    /\ status \in {"waiting", "ready", "inMatch", "finished", "closed"}
    /\ seat \in [Seats -> [user : Users \cup {NoUser}, ready : BOOLEAN, gone : BOOLEAN]]
    /\ \A s, t \in Seats : Member(s) /\ seat[s].user = seat[t].user => s = t
    /\ {matchId, matchSeq, playing} \subseteq MatchIds \cup {NoMatch}
    /\ inFlight \subseteq MatchIds
    /\ row \in [MatchIds -> [status : {"none", "active", "settled", "cancelled"},
                             players : [Seats -> Users \cup {NoUser}]]]

\* Whoever plays a match was charged for it, on that seat, whoever came and
\* went while the stakes were being taken (tryBeginMatch checks the roster
\* again after the escrow).
PlayersAreCharged ==
    status = "inMatch" => \A s \in Seats : Member(s) => row[playing].players[s] = seat[s].user

\* A match that is on keeps its pot, whatever sweeps run and tasks fail.  Two
\* things in the code can take it: a second start overlapping the first, and a
\* sweep that fixed its set of live matches before this one was on.
LiveMatchKeepsItsPot ==
    status = "inMatch" /\ ~overlap =>
      row[playing].status = "active" \/ playing \in lateSwept

\* A match that somebody won is paid out once its finalisation is over, unless
\* a transaction failed, the process died, or one of the two races above.
WonMatchIsPaid ==
    \A m \in MatchIds :
      /\ m \in won
      /\ final[m] = NoFinal
      /\ faults = 0 /\ ~overlap
      /\ m \notin lateSwept /\ sweep.cur # m
      => row[m].status = "settled"

\* "Never strand players ready": while all are ready and no match is on, the
\* next one is on its way.
NobodyIsStranded ==
    allReady(seat) /\ status \in {"waiting", "ready"} =>
      countdown \/ \E m \in MatchIds : begin[m] # NoBegin

\* No stake stays in a pot for ever: while its match is not on, every active
\* row is settled or refunded in the end, by its own task or by a later sweep,
\* whatever failed.
PotsAreReleased ==
    \A m \in MatchIds :
      row[m].status = "active" ~> row[m].status # "active" \/ (status = "inMatch" /\ playing = m)

\* activeMatchIds names the match that is on, so that a sweep leaves it alone.
LiveMatchIsNamed == status = "inMatch" => activeMatchIds = {playing}
=============================================================================
