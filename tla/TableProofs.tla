----------------------------- MODULE TableProofs -----------------------------
(***************************************************************************)
(* Module Table, for every number of users, matches and faults: who plays  *)
(* was charged, a live match keeps its pot, a won match is paid, nobody is *)
(* left ready for nothing.  One inductive invariant carries all four.      *)
(***************************************************************************)
EXTENDS Table, TLAPS

-----------------------------------------------------------------------------
(* The inductive invariant, by part.                                       *)

Ids == MatchIds \cup {NoMatch}
Rosters == [Seats -> Users \cup {NoUser}]
SeatMaps == [Seats -> [user : Users \cup {NoUser}, ready : BOOLEAN, gone : BOOLEAN]]
Begins == [pc : {"idle", "gates", "escrow", "undo", "emergency"}, call : Ids, players : Rosters]
Finals == [pc : {"idle", "settle", "refund", "void", "record"}, call : Ids]
Sweeps == [pc : {"idle", "listing", "refunding"}, live : SUBSET MatchIds,
           todo : SUBSET MatchIds, cur : Ids, owned : SUBSET MatchIds]
Rows == [status : {"none", "active", "settled", "cancelled"}, players : Rosters]

\* What the variables hold.
RoomTypes ==
    /\ status \in {"waiting", "ready", "inMatch", "finished", "closed"}
    /\ seat \in SeatMaps
    /\ matchSeq \in Ids
    /\ matchId = matchSeq
    /\ playing \in Ids

TaskTypes ==
    /\ begin \in [MatchIds -> Begins]
    /\ final \in [MatchIds -> Finals]
    /\ sweep \in Sweeps
    /\ row \in [MatchIds -> Rows]
    /\ inFlight \subseteq MatchIds
    /\ faults \in Nat
    /\ overlap \in BOOLEAN

\* Only ids handed out have left a trace.
FutureIsBlank ==
    \A m \in MatchIds : m > matchSeq =>
      /\ begin[m] = NoBegin
      /\ final[m] = NoFinal
      /\ row[m] = NoRow
      /\ m \notin finalized /\ m \notin won /\ m \notin inFlight

\* A start that has not escrowed yet has no row, and holds the call it makes.
StartsAreFresh ==
    \A m \in MatchIds :
      /\ begin[m].pc \in {"gates", "escrow"} => row[m] = NoRow
      /\ begin[m].pc = "idle" => begin[m] = NoBegin
      /\ begin[m].pc = "gates" => begin[m].call = NoMatch
      /\ begin[m].pc = "escrow" => begin[m].call = m

\* A finalisation closes the pot of its own match; its claim stands while it
\* is under way.
FinalsAreClaimed ==
    /\ \A m \in MatchIds :
         /\ final[m].call \in {NoMatch, m}
         /\ final[m].pc = "idle" => final[m] = NoFinal
         /\ final[m].pc = "record" => final[m].call = NoMatch
    /\ matchId \in MatchIds /\ final[matchId] # NoFinal => matchId \in finalized

\* What a sweep refunds was in the database when it listed.
SweepsRefundRows ==
    /\ sweep.pc # "refunding" => sweep.cur = NoMatch /\ sweep.todo = {}
    /\ sweep.cur \in sweep.todo \cup {NoMatch}
    /\ \A m \in sweep.todo : row[m] # NoRow

\* The match on the table has a row.
MatchHasRow == status = "inMatch" => playing \in MatchIds /\ row[playing] # NoRow

\* A seat whose player left is not ready.
GoneIsUnready == \A s \in Seats : seat[s].gone => ~seat[s].ready

\* While no start overlaps another or a match, at most one is under way: of the
\* id the room names, which nobody finalises yet.
OneStart ==
    ~overlap => \A m \in MatchIds : begin[m] # NoBegin =>
      /\ status # "inMatch"
      /\ m = matchId
      /\ m \notin won
      /\ begin[m].call \in {NoMatch, m}

\* The match that is on is the one the room names, and nothing ended it.
OnMatchIsNamed ==
    ~overlap /\ status = "inMatch" =>
      matchId = playing /\ playing \notin finalized /\ playing \notin won

\* A start that nothing overlaps is of a match nothing finalises.
StartIsUnclaimed ==
    ~overlap => \A m \in MatchIds : begin[m] # NoBegin => m \notin finalized

\* A sweep spares the match that was on when it started.
SweepsSpare ==
    ~overlap =>
      /\ sweep.pc = "listing" => sweep.owned \subseteq sweep.live
      /\ sweep.todo \cap sweep.owned = {}

\* Who holds a call that is under way.
FlightsAreHeld ==
    ~overlap => \A m \in inFlight :
      begin[m].call = m \/ final[m].call = m \/ sweep.cur = m

\* A won match is on its way to being paid.
WonIsOnItsWay ==
    \A m \in MatchIds :
      /\ m \in won
      /\ faults = 0 /\ ~overlap
      /\ m \notin lateSwept /\ sweep.cur # m
      => \/ final[m].pc \in {"idle", "record"} /\ row[m].status = "settled"
         \/ final[m].pc = "settle" /\ final[m].call = m /\ row[m].status = "active"

\* A room all ready waits for the countdown, for the start of the id it names,
\* or for a task that will unready everybody.
StartIsComing ==
    \/ countdown
    \/ \E m \in MatchIds : begin[m].pc \in {"undo", "emergency"}
    \/ /\ matchId \in MatchIds
       /\ \/ begin[matchId].pc = "gates"
          \/ begin[matchId].pc = "escrow" /\ begin[matchId].players = Roster(seat)

ReadyRoomIsServed == allReady(seat) /\ status \in {"waiting", "ready"} => StartIsComing

\* A start finds its own match busy only when another start's handler refunds
\* it, or when it is being finalised; the room's players are then ready only
\* with a countdown running.
BusyStart ==
    matchId \in MatchIds =>
      /\ begin[matchId].pc = "gates" /\ matchId \in inFlight =>
           \/ \E m \in MatchIds : begin[m].pc = "emergency" /\ begin[m].call = matchId
           \/ final[matchId].call = matchId
      /\ final[matchId] # NoFinal /\ allReady(seat) /\ status \in {"waiting", "ready"} =>
           countdown

IInv ==
    /\ RoomTypes /\ TaskTypes /\ FutureIsBlank /\ StartsAreFresh /\ FinalsAreClaimed
    /\ SweepsRefundRows /\ MatchHasRow /\ GoneIsUnready
    /\ OneStart /\ OnMatchIsNamed /\ StartIsUnclaimed /\ SweepsSpare /\ FlightsAreHeld
    /\ PlayersAreCharged /\ LiveMatchKeepsItsPot /\ WonIsOnItsWay
    /\ ReadyRoomIsServed /\ BusyStart

-----------------------------------------------------------------------------
(* Facts about the constants.                                              *)

\* The ids are positive numbers, the table has a seat.
LEMMA IdFacts ==
    /\ NoMatch = 0
    /\ \A m \in MatchIds : m \in Nat /\ m > 0 /\ m # NoMatch
    /\ NoMatch \notin MatchIds
    /\ 0 \in Seats
    /\ NoUser \notin Users
  BY NAssumption, BoundsAssumption, UsersAssumption DEF MatchIds, NoMatch, Seats

\* The records that stand for nothing.
LEMMA BlankFacts ==
    /\ Nobody \in Rosters
    /\ NoBegin \in Begins /\ NoBegin.pc = "idle" /\ NoBegin.call = NoMatch
    /\ NoFinal \in Finals /\ NoFinal.pc = "idle" /\ NoFinal.call = NoMatch
    /\ NoRow \in Rows /\ NoRow.status = "none"
  BY DEF Nobody, Rosters, NoBegin, Begin, Begins, NoFinal, Finals, NoRow, Rows, Ids

\* setReady changes nobody's seat, and readies nobody who left.
LEMMA SetReadyFacts ==
    ASSUME RoomTypes, GoneIsUnready, NEW S \in SUBSET Seats, NEW b \in BOOLEAN,
           seat' = SetReady(S, b)
    PROVE  /\ seat' \in SeatMaps
           /\ \A s \in Seats :
                /\ seat'[s].user = seat[s].user
                /\ seat'[s].gone = seat[s].gone
                /\ seat'[s].gone => ~seat'[s].ready
  BY DEF SetReady, Member, RoomTypes, SeatMaps, GoneIsUnready

\* Unreadying readies nobody, and no taken seat of `S` stays ready.
LEMMA UnreadyFacts ==
    ASSUME RoomTypes, GoneIsUnready, NEW S \in SUBSET Seats, seat' = SetReady(S, FALSE)
    PROVE  \A s \in Seats :
             /\ seat'[s].ready => seat[s].ready
             /\ status # "inMatch" /\ s \in S /\ seat[s].user # NoUser => ~seat'[s].ready
  BY DEF SetReady, Member, RoomTypes, SeatMaps, GoneIsUnready

\* clearGoneSeats empties the seats of those who left, none of which is ready.
LEMMA ClearFacts ==
    ASSUME RoomTypes, GoneIsUnready, clearGoneSeats
    PROVE  /\ seat' \in SeatMaps
           /\ \A s \in Seats :
                /\ ~seat'[s].gone
                /\ seat'[s].user # NoUser => seat'[s] = seat[s]
                /\ seat'[s].ready => seat'[s] = seat[s]
  BY DEF clearGoneSeats, emptySeat, seatFor, RoomTypes, SeatMaps, GoneIsUnready

\* settle and refund close the active row they are called for, and no other.
LEMMA CloseFacts ==
    ASSUME TaskTypes, NEW id \in Ids, NEW how \in {"settled", "cancelled"}, Close(id, how)
    PROVE  /\ row' \in [MatchIds -> Rows]
           /\ \A m \in MatchIds :
                /\ row'[m].players = row[m].players
                /\ m # id \/ row[m].status # "active" => row'[m] = row[m]
                /\ m = id /\ row[m].status = "active" => row'[m].status = how
                /\ row[m] = NoRow => row'[m] = NoRow
                /\ row[m] # NoRow => row'[m] # NoRow
  BY IdFacts DEF Close, TaskTypes, Rows, Rosters, Ids, NoRow, Nobody

\* A sweep goes on with what is left, for no match yet.
LEMMA SweepingFacts ==
    ASSUME TaskTypes, NEW todo \in SUBSET MatchIds
    PROVE  /\ Sweeping(todo) \in Sweeps
           /\ Sweeping(todo).pc # "listing"
           /\ Sweeping(todo).pc # "refunding" => Sweeping(todo).todo = {}
           /\ Sweeping(todo).todo = todo
           /\ Sweeping(todo).cur = NoMatch
           /\ Sweeping(todo).owned \subseteq sweep.owned
  BY DEF Sweeping, NoSweep, TaskTypes, Sweeps, Ids

\* The match that is on has an id, and so has the room.
LEMMA NamedId ==
    ASSUME IInv, status = "inMatch"
    PROVE  playing \in MatchIds /\ matchId \in MatchIds
  BY IdFacts DEF IInv, MatchHasRow, FutureIsBlank, RoomTypes, TaskTypes, Ids

-----------------------------------------------------------------------------
(* Every step keeps the invariant: one lemma per action, one step per part *)
(* the action can disturb.                                                 *)

\* joinRoom takes an empty seat, unready.
LEMMA joinRoomKeeps ==
    ASSUME IInv, NEW u \in Users, joinRoom(u)
    PROVE  IInv'
<1>1. /\ TaskTypes' /\ FutureIsBlank' /\ StartsAreFresh' /\ FinalsAreClaimed'
      /\ SweepsRefundRows' /\ StartIsUnclaimed' /\ SweepsSpare' /\ FlightsAreHeld'
      /\ WonIsOnItsWay'
  BY DEF IInv, TaskTypes, FutureIsBlank, StartsAreFresh, FinalsAreClaimed, SweepsRefundRows,
     StartIsUnclaimed, SweepsSpare, FlightsAreHeld, WonIsOnItsWay, joinRoom, room, tasks,
     history
<1>2. RoomTypes'
  BY DEF IInv, RoomTypes, SeatMaps, joinRoom, MayJoin, maybeStartCountdown, emptySeat,
     seatFor, isFull, allReady, room, tasks
<1>3. MatchHasRow'
  BY DEF IInv, MatchHasRow, joinRoom, MayJoin, maybeStartCountdown, allReady
<1>4. GoneIsUnready'
  BY DEF IInv, GoneIsUnready, joinRoom, seatFor
<1>5. OneStart'
  BY DEF IInv, OneStart, NoBegin, joinRoom, maybeStartCountdown, tasks, history
<1>6. OnMatchIsNamed'
  BY DEF IInv, OnMatchIsNamed, joinRoom, maybeStartCountdown, tasks, history
<1>7. PlayersAreCharged'
  BY DEF PlayersAreCharged, Member, joinRoom, MayJoin, room, tasks
<1>8. LiveMatchKeepsItsPot'
  BY DEF LiveMatchKeepsItsPot, joinRoom, MayJoin, maybeStartCountdown
<1>9. ReadyRoomIsServed'
  BY DEF ReadyRoomIsServed, StartIsComing, joinRoom, seatFor, allReady
<1>10. BusyStart'
  BY DEF IInv, BusyStart, joinRoom, seatFor, allReady, tasks
<1> QED BY <1>1, <1>2, <1>3, <1>4, <1>5, <1>6, <1>7, <1>8, <1>9, <1>10 DEF IInv

\* onReady readies a seat and may start a match under a fresh id.
LEMMA onReadyKeeps ==
    ASSUME IInv, NEW u \in Users, NEW b \in BOOLEAN, onReady(u, b)
    PROVE  IInv'
<1>a. /\ seat' \in SeatMaps
      /\ \A s \in Seats :
           /\ seat'[s].user = seat[s].user
           /\ seat'[s].gone = seat[s].gone
           /\ seat'[s].gone => ~seat'[s].ready
  <2>1. SeatOf(u) \in Seats
    BY DEF onReady, InRoom, SeatOf
  <2> QED BY <2>1, SetReadyFacts DEF onReady, IInv
<1>1. /\ TaskTypes' /\ FutureIsBlank' /\ StartsAreFresh' /\ FinalsAreClaimed'
      /\ SweepsRefundRows' /\ MatchHasRow' /\ OneStart' /\ OnMatchIsNamed'
      /\ StartIsUnclaimed' /\ SweepsSpare' /\ FlightsAreHeld' /\ LiveMatchKeepsItsPot'
      /\ WonIsOnItsWay'
  BY DEF IInv, TaskTypes, FutureIsBlank, StartsAreFresh, FinalsAreClaimed, SweepsRefundRows,
     MatchHasRow, OneStart, OnMatchIsNamed, StartIsUnclaimed, SweepsSpare, FlightsAreHeld,
     LiveMatchKeepsItsPot, WonIsOnItsWay, onReady, room, tasks, history
<1>2. RoomTypes'
  BY <1>a DEF IInv, RoomTypes, onReady
<1>3. GoneIsUnready'
  BY <1>a DEF IInv, GoneIsUnready, allReady
<1>4. PlayersAreCharged'
  BY <1>a DEF PlayersAreCharged, onReady
<1>5. ReadyRoomIsServed'
  BY DEF ReadyRoomIsServed, StartIsComing, onReady, maybeStartCountdown
<1>6. BusyStart'
  BY DEF IInv, BusyStart, NoFinal, onReady, maybeStartCountdown, tasks
<1> QED BY <1>1, <1>2, <1>3, <1>4, <1>5, <1>6 DEF IInv

\* leaveAndNotify unreadies the seat first, and keeps it while a match is on.
LEMMA leaveAndNotifyKeeps ==
    ASSUME IInv, NEW u \in Users, leaveAndNotify(u)
    PROVE  IInv'
<1>a. SeatOf(u) \in Seats
  BY DEF leaveAndNotify, InRoom, SeatOf
<1>1. /\ TaskTypes' /\ FutureIsBlank' /\ StartsAreFresh' /\ FinalsAreClaimed'
      /\ SweepsRefundRows' /\ StartIsUnclaimed' /\ SweepsSpare' /\ FlightsAreHeld'
      /\ WonIsOnItsWay'
  BY DEF IInv, TaskTypes, FutureIsBlank, StartsAreFresh, FinalsAreClaimed, SweepsRefundRows,
     StartIsUnclaimed, SweepsSpare, FlightsAreHeld, WonIsOnItsWay, leaveAndNotify, room,
     tasks, history
<1>2. RoomTypes'
  BY DEF IInv, RoomTypes, Ids, SeatMaps, leaveAndNotify, maybeStartCountdown, emptySeat,
     seatFor, allReady
<1>3. MatchHasRow'
  BY DEF IInv, MatchHasRow, leaveAndNotify, maybeStartCountdown, emptySeat, allReady, room
<1>4. GoneIsUnready'
  BY DEF IInv, GoneIsUnready, leaveAndNotify, emptySeat, seatFor
<1>5. OneStart'
  BY DEF IInv, OneStart, NoBegin, leaveAndNotify, maybeStartCountdown, tasks, history
<1>6. OnMatchIsNamed'
  BY DEF IInv, OnMatchIsNamed, leaveAndNotify, emptySeat
<1>7. PlayersAreCharged'
  BY DEF PlayersAreCharged, leaveAndNotify, maybeStartCountdown
<1>8. LiveMatchKeepsItsPot'
  BY DEF LiveMatchKeepsItsPot, leaveAndNotify, maybeStartCountdown
<1>9. ReadyRoomIsServed'
  BY DEF ReadyRoomIsServed, StartIsComing, leaveAndNotify, maybeStartCountdown
<1>10. BusyStart'
  BY IdFacts, <1>a DEF IInv, BusyStart, NoFinal, leaveAndNotify, maybeStartCountdown, tasks
<1> QED BY <1>1, <1>2, <1>3, <1>4, <1>5, <1>6, <1>7, <1>8, <1>9, <1>10 DEF IInv

\* onRematch opens the table again, without those who left.
LEMMA onRematchKeeps ==
    ASSUME IInv, onRematch
    PROVE  IInv'
<1>a. /\ seat' \in SeatMaps
      /\ \A s \in Seats : seat'[s].user = seat[s].user /\ ~seat'[s].gone
  BY DEF onRematch, Member, IInv, RoomTypes, SeatMaps
<1>b. /\ status = "finished" /\ status' = "waiting"
      /\ playing' = NoMatch
      /\ countdown' = allReady(seat')
      /\ UNCHANGED <<matchId, matchSeq, tasks, history>>
  BY DEF onRematch, maybeStartCountdown
<1>1. /\ TaskTypes' /\ FutureIsBlank' /\ StartsAreFresh' /\ FinalsAreClaimed'
      /\ SweepsRefundRows' /\ StartIsUnclaimed' /\ SweepsSpare' /\ FlightsAreHeld'
      /\ WonIsOnItsWay'
  BY DEF IInv, TaskTypes, FutureIsBlank, StartsAreFresh, FinalsAreClaimed, SweepsRefundRows,
     StartIsUnclaimed, SweepsSpare, FlightsAreHeld, WonIsOnItsWay, onRematch, room, tasks,
     history
<1>2. RoomTypes'
  BY <1>a, <1>b DEF IInv, RoomTypes, Ids, SeatMaps, tasks, history
<1>3. MatchHasRow'
  BY IdFacts, <1>b DEF IInv, MatchHasRow, tasks, history
<1>4. GoneIsUnready'
  BY <1>a, <1>b DEF GoneIsUnready
<1>5. OneStart'
  BY <1>b DEF IInv, OneStart, tasks, history
<1>6. OnMatchIsNamed'
  BY <1>a, <1>b DEF IInv, OnMatchIsNamed
<1>7. PlayersAreCharged'
  BY <1>b DEF PlayersAreCharged
<1>8. LiveMatchKeepsItsPot'
  BY <1>a, <1>b DEF LiveMatchKeepsItsPot
<1>9. ReadyRoomIsServed'
  BY <1>b DEF ReadyRoomIsServed, StartIsComing
<1>10. BusyStart'
  BY <1>b DEF IInv, BusyStart, NoFinal, tasks
<1> QED BY <1>1, <1>2, <1>3, <1>4, <1>5, <1>6, <1>7, <1>8, <1>9, <1>10 DEF IInv

\* beginMatch claims the room and an id before its first await.
LEMMA beginMatchKeeps ==
    ASSUME IInv, beginMatch
    PROVE  IInv'
<1>1. /\ ~countdown'
      /\ UNCHANGED <<status, seat, playing, final, sweep, inFlight, row>>
      /\ UNCHANGED <<won, faults, lateSwept>>
  BY DEF beginMatch
<1>2. CASE ~allReady(seat) /\ UNCHANGED <<matchId, matchSeq, finalized, begin, overlap>>
  <2>1. /\ RoomTypes' /\ TaskTypes' /\ FutureIsBlank' /\ StartsAreFresh' /\ FinalsAreClaimed'
        /\ SweepsRefundRows' /\ MatchHasRow' /\ GoneIsUnready' /\ OneStart' /\ OnMatchIsNamed'
        /\ StartIsUnclaimed' /\ SweepsSpare' /\ FlightsAreHeld'
        /\ PlayersAreCharged' /\ LiveMatchKeepsItsPot' /\ WonIsOnItsWay'
    BY <1>1, <1>2 DEF IInv, RoomTypes, TaskTypes, FutureIsBlank, StartsAreFresh, FinalsAreClaimed,
       SweepsRefundRows, MatchHasRow, GoneIsUnready, OneStart, OnMatchIsNamed, StartIsUnclaimed,
       SweepsSpare, FlightsAreHeld, PlayersAreCharged, Member, LiveMatchKeepsItsPot, WonIsOnItsWay
  <2>2. ReadyRoomIsServed' /\ BusyStart'
    BY <1>1, <1>2 DEF IInv, ReadyRoomIsServed, BusyStart, allReady
  <2> QED BY <2>1, <2>2 DEF IInv
<1>3. CASE /\ allReady(seat)
           /\ assignMatchId \in MatchIds
           /\ finalized' = finalized \ {matchId}
           /\ matchSeq' = assignMatchId
           /\ matchId' = assignMatchId
           /\ begin' = [begin EXCEPT ![assignMatchId] = Begin("gates", NoMatch, Nobody)]
           /\ overlap' = (overlap \/ status = "inMatch" \/ \E id \in MatchIds : begin[id] # NoBegin)
  <2> DEFINE new == matchSeq + 1
  <2>1. /\ new \in MatchIds /\ new > matchSeq /\ matchSeq' = new /\ matchId' = new
        /\ \A m \in MatchIds : m > new => m > matchSeq
    BY <1>3, IdFacts DEF IInv, RoomTypes, Ids, assignMatchId
  <2>2. /\ begin' \in [MatchIds -> Begins]
        /\ \A m \in MatchIds : m # new => begin'[m] = begin[m]
        /\ begin'[new] = Begin("gates", NoMatch, Nobody)
        /\ begin'[new].pc = "gates" /\ begin'[new].call = NoMatch
    BY <1>3, <2>1, BlankFacts DEF IInv, TaskTypes, Begins, Begin, Ids, assignMatchId
  <2>3. /\ begin[new] = NoBegin /\ final[new] = NoFinal /\ row[new] = NoRow
        /\ new \notin finalized /\ new \notin won /\ new \notin inFlight
    BY <2>1 DEF IInv, FutureIsBlank
  <2>4. /\ overlap' \in BOOLEAN
        /\ ~overlap' => /\ ~overlap /\ status # "inMatch"
                        /\ \A m \in MatchIds : begin[m] = NoBegin
    BY <1>3
  <2>5. finalized' \subseteq finalized
    BY <1>3
  <2> HIDE DEF new
  <2>6. RoomTypes' /\ GoneIsUnready' /\ SweepsRefundRows' /\ MatchHasRow' /\ PlayersAreCharged'
    BY <1>1, <2>1 DEF IInv, RoomTypes, Ids, GoneIsUnready, SweepsRefundRows, MatchHasRow,
       PlayersAreCharged, Member
  <2>7. TaskTypes'
    BY <1>1, <2>2, <2>4 DEF IInv, TaskTypes
  <2>8. FutureIsBlank'
    BY <1>1, <2>1, <2>2, <2>5, IdFacts DEF IInv, FutureIsBlank, RoomTypes, Ids
  <2>9. StartsAreFresh'
    BY <1>1, <2>2, <2>3 DEF IInv, StartsAreFresh
  <2>10. FinalsAreClaimed'
    BY <1>1, <2>1, <2>3 DEF IInv, FinalsAreClaimed
  <2>11. OneStart' /\ StartIsUnclaimed'
    BY <1>1, <2>1, <2>2, <2>3, <2>4, <2>5 DEF OneStart, StartIsUnclaimed
  <2>12. OnMatchIsNamed' /\ SweepsSpare' /\ LiveMatchKeepsItsPot' /\ WonIsOnItsWay'
    BY <1>1, <2>4 DEF IInv, OnMatchIsNamed, SweepsSpare, LiveMatchKeepsItsPot, WonIsOnItsWay
  <2>13. FlightsAreHeld'
    BY <1>1, <2>2, <2>3, <2>4 DEF IInv, FlightsAreHeld, TaskTypes
  <2>14. ReadyRoomIsServed'
    BY <2>1, <2>2 DEF ReadyRoomIsServed, StartIsComing
  <2>15. BusyStart'
    BY <1>1, <2>1, <2>3 DEF BusyStart
  <2> QED BY <2>6, <2>7, <2>8, <2>9, <2>10, <2>11, <2>12, <2>13, <2>14, <2>15 DEF IInv
<1> QED BY <1>2, <1>3 DEF beginMatch

\* A gate that refuses somebody leaves no row.
LEMMA gatesBlockKeeps ==
    ASSUME IInv, NEW m \in MatchIds, gatesBlock(m)
    PROVE  IInv'
<1>a. PICK blocked \in SUBSET Seats :
        /\ seat' = SetReady(blocked, FALSE)
        /\ \E s \in blocked : seat[s].user # NoUser
  <2>1. PICK blocked \in (SUBSET {s \in Seats : seat[s].user # NoUser}) \ {{}} :
          seat' = SetReady(blocked, FALSE)
    BY DEF gatesBlock
  <2>2. blocked \in SUBSET Seats /\ \E s \in blocked : seat[s].user # NoUser
    BY <2>1
  <2> QED BY <2>1, <2>2
<1>b. /\ seat' \in SeatMaps
      /\ \A s \in Seats :
           /\ seat'[s].user = seat[s].user
           /\ seat'[s].gone = seat[s].gone
           /\ seat'[s].gone => ~seat'[s].ready
           /\ seat'[s].ready => seat[s].ready
           /\ status # "inMatch" /\ s \in blocked /\ seat[s].user # NoUser => ~seat'[s].ready
  BY <1>a, SetReadyFacts, UnreadyFacts DEF IInv
<1>e. /\ begin[m].pc = "gates"
      /\ begin' = [begin EXCEPT ![m] = NoBegin]
      /\ UNCHANGED <<status, matchId, matchSeq, playing, countdown, finalized, final, sweep>>
      /\ UNCHANGED <<inFlight, row, won, faults, overlap, lateSwept>>
  BY DEF gatesBlock, history
<1>f. status # "inMatch" => ~allReady(seat')
  BY <1>a, <1>b DEF allReady
<1>1. /\ FinalsAreClaimed' /\ SweepsRefundRows' /\ MatchHasRow' /\ OnMatchIsNamed'
      /\ SweepsSpare' /\ LiveMatchKeepsItsPot' /\ WonIsOnItsWay'
  BY DEF IInv, FinalsAreClaimed, SweepsRefundRows, MatchHasRow, OnMatchIsNamed, SweepsSpare,
     LiveMatchKeepsItsPot, WonIsOnItsWay, gatesBlock, room, tasks, history
<1>2. RoomTypes'
  BY <1>b, <1>e DEF IInv, RoomTypes, Ids, SeatMaps, NoBegin, Begin, Nobody
<1>3. TaskTypes'
  BY IdFacts, <1>a, <1>b, <1>e DEF IInv, TaskTypes, Ids, Begins, Finals, Sweeps, Rows,
     Rosters, NoBegin, Begin, Nobody
<1>4. FutureIsBlank'
  BY <1>e, <1>f DEF IInv, FutureIsBlank, NoBegin, Begin, Nobody
<1>5. StartsAreFresh'
  BY <1>e, <1>f DEF IInv, StartsAreFresh, NoBegin, Begin
<1>6. GoneIsUnready'
  BY <1>b, <1>e DEF GoneIsUnready, Begin, Nobody
<1>7. OneStart'
  BY <1>b, <1>e DEF IInv, OneStart
<1>8. StartIsUnclaimed'
  BY <1>e, <1>f DEF IInv, StartIsUnclaimed, NoBegin
<1>9. FlightsAreHeld'
  BY <1>e DEF IInv, FlightsAreHeld, StartsAreFresh, NoBegin, Begin
<1>10. PlayersAreCharged'
  BY <1>b, <1>e DEF IInv, PlayersAreCharged, Member, NoBegin, Begin, Nobody
<1>11. ReadyRoomIsServed'
  BY IdFacts, <1>b, <1>e, <1>f DEF IInv, ReadyRoomIsServed, NoBegin, Begin, Nobody
<1>12. BusyStart'
  BY <1>e, <1>f DEF IInv, BusyStart, NoFinal
<1> QED BY <1>1, <1>2, <1>3, <1>4, <1>5, <1>6, <1>7, <1>8, <1>9, <1>10, <1>11, <1>12
     DEF IInv

\* Passing the gates, the start calls escrow for its own match.
LEMMA gatesPassKeeps ==
    ASSUME IInv, NEW m \in MatchIds, gatesPass(m)
    PROVE  IInv'
<1>a. /\ begin[m].pc = "gates"
      /\ UNCHANGED <<status, seat, matchId, matchSeq, playing, countdown>>
      /\ UNCHANGED <<finalized, final, sweep, row, won, faults, overlap, lateSwept>>
  BY DEF gatesPass, room, history
<1>b. \/ /\ m \in inFlight \/ \A s \in Seats : seat[s].user = NoUser
         /\ begin' = [begin EXCEPT ![m] = NoBegin]
         /\ inFlight' = inFlight
      \/ /\ begin' = [begin EXCEPT ![m] = Begin("escrow", m, Roster(seat))]
         /\ inFlight' = inFlight \cup {m}
         /\ m \notin inFlight
  BY IdFacts DEF gatesPass, Calls, Callable
<1>c. Roster(seat) \in Rosters
  BY DEF IInv, RoomTypes, SeatMaps, Rosters, Roster
<1>d. allReady(seat) => \E s \in Seats : seat[s].user # NoUser
  BY IdFacts DEF allReady
<1>1. /\ RoomTypes' /\ FinalsAreClaimed' /\ SweepsRefundRows' /\ MatchHasRow'
      /\ GoneIsUnready' /\ OnMatchIsNamed' /\ SweepsSpare' /\ PlayersAreCharged'
      /\ LiveMatchKeepsItsPot' /\ WonIsOnItsWay'
  BY DEF IInv, RoomTypes, FinalsAreClaimed, SweepsRefundRows, MatchHasRow, GoneIsUnready,
     OnMatchIsNamed, SweepsSpare, PlayersAreCharged, LiveMatchKeepsItsPot, WonIsOnItsWay,
     Member, gatesPass, room, tasks, history
<1>2. TaskTypes'
  BY <1>a, <1>b, <1>c DEF IInv, TaskTypes, Ids, Begins, Finals, Rosters, NoBegin, Begin,
     Nobody
<1>3. FutureIsBlank'
  BY IdFacts, <1>a, <1>b, <1>c, <1>d DEF IInv, FutureIsBlank, NoBegin, Begin, TaskTypes,
     Nobody
<1>4. StartsAreFresh'
  BY <1>a, <1>b DEF IInv, StartsAreFresh, TaskTypes, Begins, NoBegin, Begin
<1>5. OneStart'
  BY <1>a, <1>b, <1>c, <1>d DEF IInv, OneStart, NoBegin, Begin, TaskTypes
<1>6. StartIsUnclaimed'
  BY <1>a, <1>b DEF IInv, StartIsUnclaimed, NoBegin, Begin, TaskTypes
<1>7. FlightsAreHeld'
  BY <1>a, <1>b, BlankFacts DEF IInv, FlightsAreHeld, StartsAreFresh, TaskTypes, Begin
<1>8. ReadyRoomIsServed'
  BY IdFacts, <1>a, <1>b, <1>d DEF IInv, ReadyRoomIsServed, BusyStart, StartIsComing,
     RoomTypes, TaskTypes, Begin, NoFinal
<1>9. BusyStart'
  BY SMTT(30), IdFacts, <1>a, <1>b DEF IInv, BusyStart, RoomTypes, TaskTypes, Begins, NoBegin, Begin
<1> QED BY <1>1, <1>2, <1>3, <1>4, <1>5, <1>6, <1>7, <1>8, <1>9 DEF IInv

\* A refused escrow opens no row.
LEMMA escrowRefusedKeeps ==
    ASSUME IInv, NEW m \in MatchIds, escrowRefused(m)
    PROVE  IInv'
<1>a. PICK poor \in (SUBSET Users) \ {{}} :
        /\ poor \subseteq {begin[m].players[s] : s \in Seats}
        /\ seat' = SetReady({s \in Seats : seat[s].user \in poor}, FALSE)
  BY DEF escrowRefused
<1>b. /\ seat' \in SeatMaps
      /\ \A s \in Seats :
           /\ seat'[s].user = seat[s].user
           /\ seat'[s].gone = seat[s].gone
           /\ seat'[s].gone => ~seat'[s].ready
           /\ seat'[s].ready => seat[s].ready
           /\ status # "inMatch" /\ s \in {t \in Seats : seat[t].user \in poor} /\ seat[s].user # NoUser => ~seat'[s].ready
  BY <1>a, SetReadyFacts, UnreadyFacts DEF IInv
<1>e. /\ begin[m].pc = "escrow"
      /\ begin' = [begin EXCEPT ![m] = NoBegin]
      /\ inFlight' = inFlight \ {m}
      /\ UNCHANGED <<status, matchId, matchSeq, playing, countdown, finalized, final, sweep>>
      /\ UNCHANGED <<row, won, faults, overlap, lateSwept>>
  BY DEF escrowRefused, Returned, history
<1>f. Roster(seat') = Roster(seat)
  BY <1>b DEF Roster
<1>g. status # "inMatch" /\ begin[m].players = Roster(seat) => ~allReady(seat')
  <2> SUFFICES ASSUME status # "inMatch", begin[m].players = Roster(seat)
               PROVE  ~allReady(seat')
    OBVIOUS
  <2>1. PICK p \in poor : p \in Users
    BY <1>a
  <2>2. PICK s \in Seats : seat[s].user = p
    BY <1>a DEF Roster
  <2>3. seat[s].user # NoUser /\ ~seat'[s].ready
    BY <1>b, <2>1, <2>2, UsersAssumption
  <2> QED BY <2>3 DEF allReady
<1>h. allReady(seat') => allReady(seat)
  BY <1>b DEF allReady
<1>1. /\ FinalsAreClaimed' /\ SweepsRefundRows' /\ MatchHasRow' /\ OnMatchIsNamed'
      /\ SweepsSpare' /\ LiveMatchKeepsItsPot' /\ WonIsOnItsWay'
  BY DEF IInv, FinalsAreClaimed, SweepsRefundRows, MatchHasRow, OnMatchIsNamed, SweepsSpare,
     LiveMatchKeepsItsPot, WonIsOnItsWay, escrowRefused, room, tasks, history
<1>2. RoomTypes'
  BY <1>b, <1>e DEF IInv, RoomTypes, Ids, SeatMaps, NoBegin, Begin, Nobody
<1>3. TaskTypes'
  BY IdFacts, <1>a, <1>b, <1>e DEF IInv, TaskTypes, Ids, Begins, Finals, Sweeps, Rows,
     Rosters, NoBegin, Begin, Nobody
<1>4. FutureIsBlank'
  BY <1>e, <1>f DEF IInv, FutureIsBlank, NoBegin, Begin, Nobody
<1>5. StartsAreFresh'
  BY <1>e, <1>f DEF IInv, StartsAreFresh, NoBegin, Begin
<1>6. GoneIsUnready'
  BY <1>b, <1>e DEF GoneIsUnready, Begin, Nobody
<1>7. OneStart'
  BY <1>b, <1>e DEF IInv, OneStart
<1>8. StartIsUnclaimed'
  BY <1>e, <1>f DEF IInv, StartIsUnclaimed, NoBegin
<1>9. FlightsAreHeld'
  BY <1>e DEF IInv, FlightsAreHeld
<1>10. PlayersAreCharged'
  BY <1>b, <1>e DEF IInv, PlayersAreCharged, Member, NoBegin
<1>11. ReadyRoomIsServed'
  BY IdFacts, <1>e, <1>f, <1>g, <1>h DEF IInv, ReadyRoomIsServed, StartIsComing
<1>12. BusyStart'
  BY <1>e, <1>h DEF IInv, BusyStart, RoomTypes, TaskTypes, Begins
<1> QED BY <1>1, <1>2, <1>3, <1>4, <1>5, <1>6, <1>7, <1>8, <1>9, <1>10, <1>11, <1>12
     DEF IInv

\* The row that escrow opened is the roster of the start.
LEMMA escrowedKeeps ==
    ASSUME IInv, NEW m \in MatchIds, escrowed(m)
    PROVE  IInv'
<1>a. /\ begin[m].pc = "escrow"
      /\ row' = [row EXCEPT ![m] = [status |-> "active", players |-> begin[m].players]]
      /\ \/ /\ Roster(seat) = begin[m].players /\ status # "inMatch"
            /\ status' = "inMatch" /\ playing' = m
            /\ begin' = [begin EXCEPT ![m] = NoBegin]
            /\ inFlight' = inFlight \ {m}
         \/ /\ begin' = [begin EXCEPT ![m] = Begin("undo", m, Nobody)]
            /\ UNCHANGED <<status, playing, inFlight>>
      /\ UNCHANGED <<seat, matchId, matchSeq, countdown, finalized, final, sweep>>
      /\ UNCHANGED history
  BY DEF IInv, StartsAreFresh, escrowed, RosterIntact, Returned
<1>b. begin[m].players \in Rosters /\ ~(m > matchSeq)
  BY <1>a, BlankFacts DEF IInv, TaskTypes, Begins, FutureIsBlank
<1>c. row'[m] # NoRow /\ row'[m].status = "active" /\ row'[m].players = begin[m].players
  BY <1>a DEF IInv, TaskTypes, NoRow
<1>1. /\ FinalsAreClaimed' /\ GoneIsUnready' /\ SweepsSpare'
  BY DEF IInv, FinalsAreClaimed, GoneIsUnready, SweepsSpare, escrowed, room, tasks, history
<1>2. RoomTypes'
  BY IdFacts, <1>a, <1>b, <1>c DEF IInv, RoomTypes, Ids, SeatMaps, NoBegin, Begin, history
<1>3. TaskTypes'
  <2>1. row' \in [MatchIds -> Rows]
    BY <1>a, <1>b DEF IInv, TaskTypes, Rows
  <2>2. begin' \in [MatchIds -> Begins]
    BY <1>a, BlankFacts DEF IInv, TaskTypes, Begins, Begin, Ids
  <2> QED BY <1>a, <2>1, <2>2 DEF IInv, TaskTypes, history
<1>4. FutureIsBlank'
  BY IdFacts, <1>a, <1>b, <1>c DEF IInv, FutureIsBlank, NoBegin, Begin, TaskTypes, history
<1>5. StartsAreFresh'
  BY <1>a, BlankFacts DEF IInv, StartsAreFresh, TaskTypes, Begin
<1>6. SweepsRefundRows'
  BY IdFacts, <1>a, <1>b, <1>c DEF IInv, SweepsRefundRows, NoBegin, Begin, history
<1>7. MatchHasRow'
  BY <1>a, <1>c DEF IInv, MatchHasRow
<1>8. OneStart'
  BY <1>a, <1>c DEF IInv, OneStart, NoBegin, Begin, TaskTypes, history
<1>9. OnMatchIsNamed'
  BY <1>a DEF IInv, OnMatchIsNamed, OneStart, NoBegin, Begin, StartIsUnclaimed, history
<1>10. StartIsUnclaimed'
  BY <1>a DEF IInv, StartIsUnclaimed, NoBegin, Begin, TaskTypes, OneStart, history
<1>11. FlightsAreHeld'
  BY <1>a DEF IInv, FlightsAreHeld, TaskTypes, OneStart, NoBegin, Begin, StartsAreFresh,
     history
<1>12. PlayersAreCharged'
  BY <1>a, <1>c DEF IInv, PlayersAreCharged, MatchHasRow, StartsAreFresh, Member, Roster
<1>13. LiveMatchKeepsItsPot'
  BY IdFacts, <1>a, <1>b, <1>c DEF IInv, LiveMatchKeepsItsPot, OneStart, NoBegin, history
<1>14. WonIsOnItsWay'
  BY <1>a, <1>c DEF IInv, WonIsOnItsWay, OneStart, NoBegin, Begin, history
<1>15. ReadyRoomIsServed'
  BY <1>a DEF IInv, ReadyRoomIsServed, StartIsComing, TaskTypes, NoBegin, Begin
<1>16. BusyStart'
  BY <1>a, BlankFacts DEF IInv, BusyStart, StartsAreFresh, RoomTypes, TaskTypes, Begin
<1> QED BY <1>1, <1>2, <1>3, <1>4, <1>5, <1>6, <1>7, <1>8, <1>9, <1>10, <1>11, <1>12, <1>13,
     <1>14, <1>15, <1>16 DEF IInv

\* The stakes of a start that cannot go on are given back.
LEMMA undoneKeeps ==
    ASSUME IInv, NEW m \in MatchIds, undone(m)
    PROVE  IInv'
<1>a. seat' = SetReady(Seats, FALSE)
  BY DEF undone
<1>b. /\ seat' \in SeatMaps
      /\ \A s \in Seats :
           /\ seat'[s].user = seat[s].user
           /\ seat'[s].gone = seat[s].gone
           /\ seat'[s].gone => ~seat'[s].ready
           /\ seat'[s].ready => seat[s].ready
           /\ status # "inMatch" /\ s \in Seats /\ seat[s].user # NoUser => ~seat'[s].ready
  BY <1>a, SetReadyFacts, UnreadyFacts DEF IInv
<1>c. begin[m].call \in Ids
  BY DEF IInv, TaskTypes, Begins
<1>d. /\ row' \in [MatchIds -> Rows]
      /\ \A k \in MatchIds :
           /\ row'[k].players = row[k].players
           /\ k # begin[m].call \/ row[k].status # "active" => row'[k] = row[k]
           /\ row[k] = NoRow => row'[k] = NoRow
           /\ row[k] # NoRow => row'[k] # NoRow
  BY <1>c, CloseFacts DEF IInv, undone
<1>e. /\ begin[m].pc = "undo"
      /\ begin' = [begin EXCEPT ![m] = NoBegin]
      /\ inFlight' = inFlight \ {begin[m].call}
      /\ UNCHANGED <<status, matchId, matchSeq, playing, countdown, finalized, final, sweep>>
      /\ UNCHANGED history
  BY DEF undone, Returned
<1>f. status # "inMatch" => ~allReady(seat')
  BY IdFacts, <1>b DEF allReady
<1>1. /\ FinalsAreClaimed' /\ OnMatchIsNamed' /\ SweepsSpare'
  BY DEF IInv, FinalsAreClaimed, OnMatchIsNamed, SweepsSpare, undone, room, tasks, history
<1>2. RoomTypes'
  BY <1>b, <1>e DEF IInv, RoomTypes, Ids, SeatMaps, NoBegin, Begin, Nobody, NoRow, history
<1>3. TaskTypes'
  BY IdFacts, <1>d, <1>e DEF IInv, TaskTypes, Ids, Begins, Sweeps, Rosters, NoBegin, Begin,
     Nobody, NoRow, history
<1>4. FutureIsBlank'
  BY IdFacts, <1>b, <1>c, <1>d, <1>e, <1>f DEF IInv, FutureIsBlank, Nobody, NoRow, history
<1>5. StartsAreFresh'
  BY <1>d, <1>e, <1>f DEF IInv, StartsAreFresh, NoBegin, Begin
<1>6. SweepsRefundRows'
  BY <1>d, <1>e DEF IInv, SweepsRefundRows, TaskTypes, Sweeps
<1>7. MatchHasRow'
  BY IdFacts, <1>a, <1>b, <1>c, <1>d, <1>e, <1>f DEF IInv, MatchHasRow, NoBegin, Begin,
     Nobody, NoRow, history
<1>8. GoneIsUnready'
  BY <1>b DEF GoneIsUnready, NoBegin, Begin, NoRow, history
<1>9. OneStart'
  BY IdFacts, <1>c, <1>e DEF IInv, OneStart, history
<1>10. StartIsUnclaimed'
  BY <1>e DEF IInv, StartIsUnclaimed, NoBegin, Begin, history
<1>11. FlightsAreHeld'
  BY <1>e DEF IInv, FlightsAreHeld, history
<1>12. PlayersAreCharged'
  BY <1>b, <1>d, <1>e DEF IInv, PlayersAreCharged, Member, MatchHasRow, history
<1>13. LiveMatchKeepsItsPot'
  BY IdFacts, <1>a, <1>b, <1>c, <1>d, <1>e DEF IInv, LiveMatchKeepsItsPot, OneStart,
     NoBegin, Begin, history
<1>14. WonIsOnItsWay'
  BY IdFacts, <1>d, <1>e DEF IInv, WonIsOnItsWay, OneStart, NoBegin, Begin, history
<1>15. ReadyRoomIsServed'
  BY IdFacts, <1>b, <1>e, <1>f DEF ReadyRoomIsServed, StartIsComing, NoBegin, Begin, Nobody,
     NoRow, history
<1>16. BusyStart'
  BY <1>e, <1>f DEF IInv, BusyStart, NoBegin, Begin
<1> QED BY <1>1, <1>2, <1>3, <1>4, <1>5, <1>6, <1>7, <1>8, <1>9, <1>10, <1>11, <1>12, <1>13,
     <1>14, <1>15, <1>16 DEF IInv

\* A start that throws gives back what it charged.
LEMMA startThrowsKeeps ==
    ASSUME IInv, NEW m \in MatchIds, startThrows(m)
    PROVE  IInv'
<1>1. PICK call \in Ids :
        /\ begin[m].pc \in {"escrow", "undo"}
        /\ begin' = [begin EXCEPT ![m] = Begin("emergency", call, Nobody)]
        /\ call \in {NoMatch, matchId}
        /\ inFlight' = (inFlight \ {begin[m].call}) \cup ({call} \ {NoMatch})
        /\ faults' = faults + 1
  BY IdFacts DEF IInv, RoomTypes, Ids, startThrows, Fault
<1>2. /\ UNCHANGED <<status, seat, matchId, matchSeq, playing, countdown>>
      /\ UNCHANGED <<finalized, final, sweep, row, won, overlap, lateSwept>>
  BY DEF startThrows, room
<1>3. /\ begin' \in [MatchIds -> Begins]
      /\ \A k \in MatchIds : k # m => begin'[k] = begin[k]
      /\ begin'[m].pc = "emergency" /\ begin'[m].call = call
      /\ begin[m] # NoBegin
  BY <1>1, BlankFacts DEF IInv, TaskTypes, Begins, Begin, Ids
<1>4. ~(m > matchSeq)
  BY <1>3 DEF IInv, FutureIsBlank
<1>5. RoomTypes' /\ GoneIsUnready' /\ SweepsRefundRows' /\ MatchHasRow' /\ PlayersAreCharged'
      /\ FinalsAreClaimed' /\ OnMatchIsNamed' /\ SweepsSpare' /\ LiveMatchKeepsItsPot'
  BY <1>2 DEF IInv, RoomTypes, GoneIsUnready, SweepsRefundRows, MatchHasRow,
     PlayersAreCharged, Member, FinalsAreClaimed, OnMatchIsNamed, SweepsSpare, LiveMatchKeepsItsPot
<1>6. TaskTypes'
  BY <1>1, <1>2, <1>3 DEF IInv, TaskTypes, Ids
<1>7. FutureIsBlank'
  BY <1>1, <1>2, <1>3, <1>4, IdFacts DEF IInv, FutureIsBlank, RoomTypes, Ids
<1>8. StartsAreFresh'
  BY <1>2, <1>3 DEF IInv, StartsAreFresh
<1>9. OneStart' /\ StartIsUnclaimed'
  BY <1>1, <1>2, <1>3 DEF IInv, OneStart, StartIsUnclaimed
<1>10. FlightsAreHeld'
  BY <1>1, <1>2, <1>3, IdFacts DEF IInv, FlightsAreHeld, OneStart, TaskTypes
<1>11. WonIsOnItsWay'
  BY <1>1, <1>2 DEF IInv, WonIsOnItsWay, TaskTypes
<1>12. ReadyRoomIsServed'
  BY <1>2, <1>3 DEF ReadyRoomIsServed, StartIsComing
<1>13. BusyStart'
  BY <1>1, <1>2, <1>3, IdFacts DEF IInv, BusyStart, TaskTypes, allReady
<1> QED BY <1>5, <1>6, <1>7, <1>8, <1>9, <1>10, <1>11, <1>12, <1>13 DEF IInv

\* The emergency refund closes only the row of its own start.
LEMMA emergencyEndsKeeps ==
    ASSUME IInv, NEW m \in MatchIds, emergencyEnds(m)
    PROVE  IInv'
<1>a. seat' = SetReady(Seats, FALSE)
  BY DEF emergencyEnds, unreadied
<1>b. /\ seat' \in SeatMaps
      /\ \A s \in Seats :
           /\ seat'[s].user = seat[s].user
           /\ seat'[s].gone = seat[s].gone
           /\ seat'[s].gone => ~seat'[s].ready
           /\ seat'[s].ready => seat[s].ready
           /\ status # "inMatch" /\ s \in Seats /\ seat[s].user # NoUser => ~seat'[s].ready
  BY <1>a, SetReadyFacts, UnreadyFacts DEF IInv
<1>c. begin[m].call \in Ids
  BY DEF IInv, TaskTypes, Begins
<1>d. /\ row' \in [MatchIds -> Rows]
      /\ \A k \in MatchIds :
           /\ row'[k].players = row[k].players
           /\ k # begin[m].call \/ row[k].status # "active" => row'[k] = row[k]
           /\ row[k] = NoRow => row'[k] = NoRow
           /\ row[k] # NoRow => row'[k] # NoRow
  BY <1>c, CloseFacts DEF IInv, emergencyEnds, TaskTypes
<1>e. /\ begin[m].pc = "emergency"
      /\ begin' = [begin EXCEPT ![m] = NoBegin]
      /\ inFlight' = inFlight \ {begin[m].call}
      /\ faults' = faults \/ faults' = faults + 1
      /\ UNCHANGED <<status, matchId, matchSeq, playing, countdown, finalized, final, sweep>>
      /\ UNCHANGED <<won, overlap, lateSwept>>
  BY DEF emergencyEnds, Returned, Fault
<1>f. status # "inMatch" => ~allReady(seat')
  BY IdFacts, <1>b DEF allReady
<1>1. /\ FinalsAreClaimed' /\ OnMatchIsNamed' /\ SweepsSpare'
  BY DEF IInv, FinalsAreClaimed, OnMatchIsNamed, SweepsSpare, emergencyEnds, room, tasks,
     history
<1>2. RoomTypes'
  BY <1>b, <1>e DEF IInv, RoomTypes, Ids, SeatMaps, NoBegin, Begin, Nobody, NoRow
<1>3. TaskTypes'
  BY IdFacts, <1>d, <1>e DEF IInv, TaskTypes, Ids, Begins, Rows, Rosters, NoBegin, Begin,
     Nobody, NoRow
<1>4. FutureIsBlank'
  BY <1>a, <1>b, <1>c, <1>d, <1>e, <1>f DEF IInv, FutureIsBlank, Begin, Nobody, NoRow
<1>5. StartsAreFresh'
  BY <1>d, <1>e, <1>f DEF IInv, StartsAreFresh, NoBegin, Begin
<1>6. SweepsRefundRows'
  BY <1>d, <1>e DEF IInv, SweepsRefundRows, TaskTypes, Sweeps
<1>7. MatchHasRow'
  BY IdFacts, <1>a, <1>b, <1>c, <1>d, <1>e, <1>f DEF IInv, MatchHasRow, NoBegin, Begin,
     Nobody, NoRow
<1>8. GoneIsUnready'
  BY <1>b DEF GoneIsUnready, NoBegin, Begin, NoRow
<1>9. OneStart'
  BY IdFacts, <1>c, <1>e DEF IInv, OneStart
<1>10. StartIsUnclaimed'
  BY <1>e DEF IInv, StartIsUnclaimed, NoBegin, Begin
<1>11. FlightsAreHeld'
  BY <1>e DEF IInv, FlightsAreHeld
<1>12. PlayersAreCharged'
  BY <1>b, <1>d, <1>e DEF IInv, PlayersAreCharged, Member, MatchHasRow
<1>13. LiveMatchKeepsItsPot'
  BY IdFacts, <1>a, <1>b, <1>c, <1>d, <1>e, <1>f DEF IInv, LiveMatchKeepsItsPot, OneStart,
     NoBegin, Begin
<1>14. WonIsOnItsWay'
  BY IdFacts, <1>d, <1>e, <1>f DEF IInv, WonIsOnItsWay, TaskTypes, OneStart, NoBegin, Begin
<1>15. ReadyRoomIsServed'
  BY IdFacts, <1>b, <1>e, <1>f DEF ReadyRoomIsServed, StartIsComing, NoBegin, Begin, Nobody,
     NoRow
<1>16. BusyStart'
  BY <1>e, <1>f DEF IInv, BusyStart, NoBegin, Begin
<1> QED BY <1>1, <1>2, <1>3, <1>4, <1>5, <1>6, <1>7, <1>8, <1>9, <1>10, <1>11, <1>12, <1>13,
     <1>14, <1>15, <1>16 DEF IInv

\* The end of a match, claimed once: what it changes besides the seats.
LEMMA EndFacts ==
    ASSUME IInv, status = "inMatch", status' = "finished",
           NEW pc \in {"settle", "refund", "void"}, Finalize(pc),
           won' = won \/ (pc = "settle" /\ won' = won \cup {playing}),
           UNCHANGED <<matchId, matchSeq, playing, begin, sweep, row, faults, overlap, lateSwept>>
    PROVE  /\ TaskTypes' /\ FutureIsBlank' /\ StartsAreFresh' /\ FinalsAreClaimed'
           /\ SweepsRefundRows' /\ MatchHasRow' /\ OneStart' /\ OnMatchIsNamed'
           /\ StartIsUnclaimed' /\ SweepsSpare' /\ FlightsAreHeld' /\ PlayersAreCharged'
           /\ LiveMatchKeepsItsPot' /\ WonIsOnItsWay' /\ ReadyRoomIsServed' /\ BusyStart'
<1>1. playing \in MatchIds /\ matchId \in MatchIds
  BY NamedId
<1>2. playing <= matchSeq /\ matchId <= matchSeq
  BY <1>1, IdFacts DEF IInv, RoomTypes, TaskTypes, FutureIsBlank, MatchHasRow, Ids
<1>3. \/ matchId \in finalized /\ UNCHANGED <<finalized, final, inFlight>>
      \/ /\ matchId \notin finalized
         /\ finalized' = finalized \cup {matchId}
         /\ final' = [final EXCEPT ![matchId] =
                        [pc |-> pc, call |-> IF matchId \in inFlight THEN NoMatch ELSE matchId]]
         /\ inFlight' = inFlight \cup {matchId}
         /\ final[matchId] = NoFinal
  BY <1>1, IdFacts DEF IInv, FinalsAreClaimed, Finalize, FinalizeKey, Calls, Callable
<1>4. TaskTypes'
  BY <1>1, <1>3 DEF IInv, TaskTypes, Finals, Ids
<1>5. FutureIsBlank'
  BY <1>1, <1>2, <1>3, IdFacts DEF IInv, FutureIsBlank, RoomTypes, TaskTypes, Ids
<1>6. FinalsAreClaimed'
  BY <1>1, <1>3 DEF IInv, FinalsAreClaimed, TaskTypes, Finals
<1>7. StartsAreFresh' /\ SweepsRefundRows' /\ SweepsSpare'
  BY DEF IInv, StartsAreFresh, SweepsRefundRows, SweepsSpare
<1>8. MatchHasRow' /\ OnMatchIsNamed' /\ PlayersAreCharged' /\ LiveMatchKeepsItsPot'
      /\ ReadyRoomIsServed'
  BY DEF MatchHasRow, OnMatchIsNamed, PlayersAreCharged, LiveMatchKeepsItsPot, ReadyRoomIsServed
<1>9. OneStart' /\ StartIsUnclaimed'
  BY DEF IInv, OneStart, StartIsUnclaimed
<1>10. FlightsAreHeld'
  BY <1>1, <1>3, IdFacts, BlankFacts DEF IInv, FlightsAreHeld, OneStart, TaskTypes
<1>11. WonIsOnItsWay'
  <2> SUFFICES ASSUME NEW m \in MatchIds, m \in won', faults = 0, ~overlap, m \notin lateSwept,
                      sweep.cur # m
               PROVE  \/ final'[m].pc \in {"idle", "record"} /\ row[m].status = "settled"
                      \/ final'[m].pc = "settle" /\ final'[m].call = m /\ row[m].status = "active"
    BY DEF WonIsOnItsWay
  <2>1. matchId = playing /\ playing \notin finalized /\ playing \notin won
    BY DEF IInv, OnMatchIsNamed
  <2>2. CASE m = playing
    <3>1. playing \notin inFlight
      BY <1>1, <1>3, <2>1, <2>2, IdFacts, BlankFacts DEF IInv, FlightsAreHeld, OneStart
    <3>2. row[playing].status = "active"
      BY <2>2 DEF IInv, LiveMatchKeepsItsPot
    <3> QED BY <1>1, <1>3, <2>1, <2>2, <3>1, <3>2 DEF IInv, TaskTypes
  <2>3. CASE m # playing
    BY <1>1, <1>3, <2>1, <2>3 DEF IInv, TaskTypes, WonIsOnItsWay
  <2> QED BY <2>2, <2>3
<1>12. BusyStart'
  BY <1>1, <1>3, IdFacts, BlankFacts DEF IInv, BusyStart, TaskTypes, RoomTypes
<1> QED BY <1>4, <1>5, <1>6, <1>7, <1>8, <1>9, <1>10, <1>11, <1>12

\* A match that ends is claimed, once, for its winner.
LEMMA matchEndsKeeps ==
    ASSUME IInv, NEW how \in {"won", "nobody"}, matchEnds(how)
    PROVE  IInv'
<1>1. RoomTypes' /\ GoneIsUnready'
  BY DEF IInv, RoomTypes, GoneIsUnready, matchEnds, Ends
<1>2. PICK pc \in {"settle", "refund", "void"} :
        /\ Finalize(pc)
        /\ won' = won \/ (pc = "settle" /\ won' = won \cup {playing})
  <2>1. CASE how = "won"
    BY <2>1 DEF matchEnds, Ends
  <2>2. CASE how # "won"
    BY <2>2 DEF matchEnds, Ends
  <2> QED BY <2>1, <2>2
<1>3. /\ status = "inMatch" /\ status' = "finished"
      /\ UNCHANGED <<matchId, matchSeq, playing, begin, sweep, row, faults, overlap, lateSwept>>
  BY DEF matchEnds, Ends
<1> QED BY <1>1, <1>2, <1>3, EndFacts DEF IInv

\* A forfeit claims the match as an end does.
LEMMA forfeitMatchKeeps ==
    ASSUME IInv, NEW s \in Seats, forfeitMatch(s)
    PROVE  IInv'
<1>1. /\ seat' \in SeatMaps
      /\ \A t \in Seats :
           /\ seat'[t].user = seat[t].user
           /\ seat[t].gone => seat'[t].gone
           /\ seat'[t].gone => ~seat'[t].ready
  BY DEF IInv, RoomTypes, SeatMaps, GoneIsUnready, forfeitMatch
<1>2. /\ status = "inMatch"
      /\ UNCHANGED <<matchId, matchSeq, playing, countdown, begin, sweep, row>>
      /\ UNCHANGED <<faults, overlap, lateSwept>>
  BY DEF forfeitMatch
<1>3. CASE UNCHANGED <<status, won, finalized, final, inFlight>>
  <2>1. RoomTypes' /\ GoneIsUnready'
    BY <1>1, <1>2, <1>3 DEF IInv, RoomTypes, GoneIsUnready
  <2>2. /\ TaskTypes' /\ FutureIsBlank' /\ StartsAreFresh' /\ FinalsAreClaimed'
        /\ SweepsRefundRows' /\ MatchHasRow' /\ OneStart' /\ OnMatchIsNamed'
        /\ StartIsUnclaimed' /\ SweepsSpare' /\ FlightsAreHeld'
        /\ LiveMatchKeepsItsPot' /\ WonIsOnItsWay'
    BY <1>2, <1>3 DEF IInv, TaskTypes, FutureIsBlank, StartsAreFresh, FinalsAreClaimed,
       SweepsRefundRows, MatchHasRow, OneStart, OnMatchIsNamed, StartIsUnclaimed, SweepsSpare,
       FlightsAreHeld, LiveMatchKeepsItsPot, WonIsOnItsWay
  <2>3. PlayersAreCharged'
    BY <1>1, <1>2, <1>3 DEF IInv, PlayersAreCharged, Member
  <2>4. ReadyRoomIsServed' /\ BusyStart'
    BY <1>2, <1>3 DEF IInv, ReadyRoomIsServed, BusyStart
  <2> QED BY <2>1, <2>2, <2>3, <2>4 DEF IInv
<1>4. CASE Ends("won")
  <2>1. status' = "finished" /\ won' = won \cup {playing} /\ Finalize("settle")
    BY <1>4 DEF Ends
  <2>2. RoomTypes' /\ GoneIsUnready'
    BY <1>1, <1>2, <2>1 DEF IInv, RoomTypes, GoneIsUnready
  <2> QED BY <1>2, <2>1, <2>2, EndFacts DEF IInv
<1> QED BY <1>3, <1>4 DEF forfeitMatch

\* A void claims the match as an end does.
LEMMA adminVoidMatchKeeps ==
    ASSUME IInv, adminVoidMatch
    PROVE  IInv'
<1>1. RoomTypes' /\ GoneIsUnready'
  BY DEF IInv, RoomTypes, GoneIsUnready, adminVoidMatch
<1>2. /\ status = "inMatch" /\ status' = "finished" /\ Finalize("void") /\ won' = won
      /\ UNCHANGED <<matchId, matchSeq, playing, begin, sweep, row, faults, overlap, lateSwept>>
  BY DEF adminVoidMatch
<1> QED BY <1>1, <1>2, EndFacts DEF IInv

\* A finalisation moves on from `final[m]`, holding no call any more.
LEMMA FinalFacts ==
    ASSUME IInv, NEW m \in MatchIds, NEW next \in Finals,
           final[m] # NoFinal, next.call = NoMatch, next.pc = "idle" => next = NoFinal,
           final' = [final EXCEPT ![m] = next],
           inFlight' = inFlight \ {final[m].call},
           row' \in [MatchIds -> Rows],
           \A k \in MatchIds :
             /\ row'[k].players = row[k].players
             /\ k # final[m].call \/ row[k].status # "active" => row'[k] = row[k]
             /\ row[k] = NoRow => row'[k] = NoRow
             /\ row[k] # NoRow => row'[k] # NoRow,
           UNCHANGED seat \/ clearGoneSeats,
           UNCHANGED <<status, matchId, matchSeq, playing, countdown, finalized, begin>>,
           UNCHANGED <<sweep, won, overlap, lateSwept>>,
           faults' \in {faults, faults + 1},
           m \in won' /\ faults' = 0 /\ ~overlap /\ m \notin lateSwept /\ sweep.cur # m =>
             next.pc \in {"idle", "record"} /\ row'[m].status = "settled"
    PROVE  IInv'
<1>1. /\ final' \in [MatchIds -> Finals]
      /\ final'[m] = next
      /\ \A k \in MatchIds : k # m => final'[k] = final[k]
      /\ final[m].call \in {NoMatch, m}
  BY DEF IInv, TaskTypes, FinalsAreClaimed
<1>2. /\ seat' \in SeatMaps
      /\ \A s \in Seats : /\ seat'[s].gone => ~seat'[s].ready
                          /\ seat'[s].user # NoUser => seat'[s] = seat[s]
  BY ClearFacts DEF IInv, RoomTypes, GoneIsUnready
<1>3. allReady(seat') => seat' = seat
  <2> SUFFICES ASSUME allReady(seat') PROVE seat' = seat
    OBVIOUS
  <2>1. \A s \in Seats : seat'[s] = seat[s]
    BY <1>2 DEF allReady
  <2> QED BY <1>2, <2>1 DEF IInv, RoomTypes, SeatMaps
<1>4. RoomTypes' /\ GoneIsUnready'
  BY <1>2 DEF IInv, RoomTypes, GoneIsUnready
<1>5. TaskTypes'
  BY <1>1 DEF IInv, TaskTypes
<1>6. FutureIsBlank'
  BY <1>1 DEF IInv, FutureIsBlank
<1>7. StartsAreFresh' /\ SweepsRefundRows' /\ OneStart' /\ StartIsUnclaimed' /\ SweepsSpare'
      /\ OnMatchIsNamed'
  BY DEF IInv, TaskTypes, Sweeps, StartsAreFresh, SweepsRefundRows, OneStart, StartIsUnclaimed,
     SweepsSpare, OnMatchIsNamed
<1>8. FinalsAreClaimed'
  BY <1>1 DEF IInv, FinalsAreClaimed
<1>9. MatchHasRow'
  BY DEF IInv, MatchHasRow
<1>10. FlightsAreHeld'
  BY <1>1, IdFacts DEF IInv, FlightsAreHeld, TaskTypes
<1>11. PlayersAreCharged'
  BY <1>2 DEF IInv, PlayersAreCharged, MatchHasRow, Member
<1>12. LiveMatchKeepsItsPot'
  <2>1. ~overlap /\ status = "inMatch" => playing \in MatchIds /\ playing # m
    BY <1>1 DEF IInv, OnMatchIsNamed, FinalsAreClaimed, MatchHasRow
  <2> QED BY <1>1, <2>1, IdFacts DEF IInv, LiveMatchKeepsItsPot
<1>13. WonIsOnItsWay'
  BY <1>1, IdFacts DEF IInv, WonIsOnItsWay, TaskTypes
<1>14. ReadyRoomIsServed'
  BY <1>3 DEF IInv, ReadyRoomIsServed, StartIsComing
<1>15. BusyStart'
  BY <1>1, <1>3 DEF IInv, BusyStart, TaskTypes
<1> QED BY <1>4, <1>5, <1>6, <1>7, <1>8, <1>9, <1>10, <1>11, <1>12, <1>13, <1>14, <1>15 DEF IInv

\* The money call of a finalisation returns, or fails.
LEMMA finalReturnsKeeps ==
    ASSUME IInv, NEW m \in MatchIds, finalReturns(m)
    PROVE  IInv'
<1> DEFINE f == final[m]
           next == IF f.pc = "settle" /\ f.call # NoMatch /\ row[f.call].status = "active"
                   THEN [pc |-> "record", call |-> NoMatch] ELSE NoFinal
<1>1. /\ f.pc \in {"settle", "refund", "void"}
      /\ inFlight' = inFlight \ {f.call}
      /\ UNCHANGED <<status, matchId, matchSeq, playing, countdown, finalized, begin>>
      /\ UNCHANGED <<sweep, won, overlap, lateSwept>>
      /\ UNCHANGED seat \/ clearGoneSeats
  BY DEF finalReturns, Returned
<1>2. /\ f # NoFinal /\ f.call \in Ids
      /\ next \in Finals /\ next.call = NoMatch
      /\ next.pc \in {"idle", "record"} /\ (next.pc = "idle" => next = NoFinal)
  BY <1>1, BlankFacts DEF IInv, TaskTypes, Finals, Ids
<1>3. CASE /\ Close(f.call, IF f.pc = "settle" THEN "settled" ELSE "cancelled")
           /\ final' = [final EXCEPT ![m] = next]
           /\ UNCHANGED faults
  <2>1. PICK how \in {"settled", "cancelled"} :
          how = (IF f.pc = "settle" THEN "settled" ELSE "cancelled") /\ Close(f.call, how)
    BY <1>3
  <2>2. /\ row' \in [MatchIds -> Rows]
        /\ \A k \in MatchIds :
             /\ row'[k].players = row[k].players
             /\ k # f.call \/ row[k].status # "active" => row'[k] = row[k]
             /\ k = f.call /\ row[k].status = "active" => row'[k].status = how
             /\ row[k] = NoRow => row'[k] = NoRow
             /\ row[k] # NoRow => row'[k] # NoRow
    BY <1>2, <2>1, CloseFacts DEF IInv
  <2>3. m \in won' /\ faults' = 0 /\ ~overlap /\ m \notin lateSwept /\ sweep.cur # m =>
          row'[m].status = "settled"
    BY <1>1, <1>3, <2>1, <2>2 DEF IInv, WonIsOnItsWay
  <2> HIDE DEF f, next
  <2> QED BY <1>1, <1>2, <1>3, <2>2, <2>3, FinalFacts DEF f
<1>4. CASE faults' = faults + 1 /\ final' = [final EXCEPT ![m] = NoFinal] /\ UNCHANGED row
  <2>1. faults + 1 # 0 /\ row' \in [MatchIds -> Rows]
    BY <1>4 DEF IInv, TaskTypes
  <2> QED BY <1>1, <1>2, <1>4, <2>1, BlankFacts, FinalFacts
<1> QED BY <1>3, <1>4 DEF finalReturns, Fault

\* The end of a finalisation forgets its claim.
LEMMA recordedKeeps ==
    ASSUME IInv, NEW m \in MatchIds, recorded(m)
    PROVE  IInv'
<1>1. /\ final[m].pc = "record" /\ final[m].call = NoMatch /\ final[m] # NoFinal
      /\ final' = [final EXCEPT ![m] = NoFinal]
      /\ clearGoneSeats
      /\ UNCHANGED <<status, matchId, matchSeq, playing, countdown, finalized, begin>>
      /\ UNCHANGED <<sweep, inFlight, row, won, faults, overlap, lateSwept>>
  BY BlankFacts DEF IInv, FinalsAreClaimed, recorded, history
<1>2. inFlight' = inFlight \ {final[m].call} /\ row' \in [MatchIds -> Rows]
  BY <1>1, IdFacts DEF IInv, TaskTypes
<1>3. m \in won' /\ faults' = 0 /\ ~overlap /\ m \notin lateSwept /\ sweep.cur # m =>
        row'[m].status = "settled"
  BY <1>1 DEF IInv, WonIsOnItsWay
<1> QED BY <1>1, <1>2, <1>3, BlankFacts, FinalFacts

\* A sweep reads the live matches before it lists the rows.
LEMMA sweepStartsKeeps ==
    ASSUME IInv, sweepStarts
    PROVE  IInv'
<1>1. /\ sweep = NoSweep
      /\ sweep' = Listing(activeMatchIds, Owned)
      /\ UNCHANGED <<room, finalized, begin, final, inFlight, row, history>>
  BY DEF sweepStarts
<1>2. activeMatchIds \in SUBSET MatchIds /\ Owned \in SUBSET MatchIds
  BY NamedId DEF activeMatchIds, Owned
<1>3. /\ sweep' \in Sweeps /\ sweep'.pc = "listing" /\ sweep'.cur = NoMatch /\ sweep'.todo = {}
      /\ sweep'.owned = Owned /\ sweep'.live = activeMatchIds
      /\ sweep.cur = NoMatch
  BY <1>1, <1>2 DEF Listing, Sweeps, Ids, NoSweep
<1>4. ~overlap => Owned \subseteq activeMatchIds
  BY NamedId, IdFacts DEF IInv, OnMatchIsNamed, Owned, activeMatchIds
<1>5. RoomTypes' /\ FutureIsBlank' /\ StartsAreFresh' /\ FinalsAreClaimed' /\ MatchHasRow'
      /\ GoneIsUnready' /\ OneStart' /\ OnMatchIsNamed' /\ StartIsUnclaimed'
      /\ PlayersAreCharged' /\ LiveMatchKeepsItsPot'
  BY <1>1 DEF IInv, RoomTypes, FutureIsBlank, StartsAreFresh, FinalsAreClaimed, MatchHasRow,
     GoneIsUnready, OneStart, OnMatchIsNamed, StartIsUnclaimed, PlayersAreCharged, Member,
     LiveMatchKeepsItsPot, room, history
<1>6. ReadyRoomIsServed' /\ BusyStart'
  BY <1>1 DEF IInv, ReadyRoomIsServed, StartIsComing, BusyStart, allReady, Roster, room
<1>7. TaskTypes' /\ SweepsRefundRows' /\ SweepsSpare'
  BY <1>1, <1>3, <1>4 DEF IInv, TaskTypes, SweepsRefundRows, SweepsSpare, history
<1>8. FlightsAreHeld' /\ WonIsOnItsWay'
  BY <1>1, <1>3, IdFacts DEF IInv, FlightsAreHeld, WonIsOnItsWay, TaskTypes, history
<1> QED BY <1>5, <1>6, <1>7, <1>8 DEF IInv

\* The rows it lists are those opened before.
LEMMA sweepListsKeeps ==
    ASSUME IInv, sweepLists
    PROVE  IInv'
<1>1. /\ sweep.pc = "listing" /\ sweep.cur = NoMatch
      /\ sweep' = Sweeping(Orphans)
      /\ UNCHANGED <<room, finalized, begin, final, inFlight, row, history>>
  BY DEF sweepLists, IInv, SweepsRefundRows
<1>2. /\ Orphans \in SUBSET MatchIds
      /\ Orphans \cap sweep.live = {}
      /\ \A m \in Orphans : row[m] # NoRow
  BY BlankFacts DEF Orphans
<1>3. /\ sweep' \in Sweeps /\ sweep'.pc # "listing" /\ sweep'.cur = NoMatch
      /\ sweep'.todo = Orphans /\ sweep'.owned \subseteq sweep.owned
      /\ sweep'.pc # "refunding" => sweep'.todo = {}
  BY <1>1, <1>2, SweepingFacts DEF IInv
<1>4. RoomTypes' /\ FutureIsBlank' /\ StartsAreFresh' /\ FinalsAreClaimed' /\ MatchHasRow'
      /\ GoneIsUnready' /\ OneStart' /\ OnMatchIsNamed' /\ StartIsUnclaimed'
      /\ PlayersAreCharged' /\ LiveMatchKeepsItsPot'
  BY <1>1 DEF IInv, RoomTypes, FutureIsBlank, StartsAreFresh, FinalsAreClaimed, MatchHasRow,
     GoneIsUnready, OneStart, OnMatchIsNamed, StartIsUnclaimed, PlayersAreCharged, Member,
     LiveMatchKeepsItsPot, room, history
<1>5. ReadyRoomIsServed' /\ BusyStart'
  BY <1>1 DEF IInv, ReadyRoomIsServed, StartIsComing, BusyStart, allReady, Roster, room
<1>6. TaskTypes' /\ SweepsRefundRows' /\ SweepsSpare'
  BY <1>1, <1>2, <1>3 DEF IInv, TaskTypes, SweepsRefundRows, SweepsSpare, history
<1>7. FlightsAreHeld' /\ WonIsOnItsWay'
  BY <1>1, <1>3 DEF IInv, FlightsAreHeld, WonIsOnItsWay, history
<1> QED BY <1>4, <1>5, <1>6, <1>7 DEF IInv

\* It refunds a row that was not live.
LEMMA sweepRefundsKeeps ==
    ASSUME IInv, sweepRefunds
    PROVE  IInv'
<1>1. PICK id \in sweep.todo :
        sweep' = IF id \in inFlight THEN Sweeping(sweep.todo \ {id}) ELSE [sweep EXCEPT !.cur = id]
  BY DEF sweepRefunds
<1>2. /\ sweep.pc = "refunding" /\ sweep.cur = NoMatch
      /\ inFlight' = inFlight \cup ({sweep'.cur} \ {NoMatch})
      /\ UNCHANGED <<room, finalized, begin, final, row, history>>
  BY DEF sweepRefunds
<1>3. id \in MatchIds /\ row[id] # NoRow /\ sweep.todo \in SUBSET MatchIds /\ sweep \in Sweeps
  BY DEF IInv, TaskTypes, Sweeps, SweepsRefundRows
<1>4. /\ sweep' \in Sweeps /\ sweep'.pc # "listing" /\ sweep'.cur \in {NoMatch, id}
      /\ sweep'.todo \subseteq sweep.todo /\ sweep'.owned \subseteq sweep.owned
      /\ sweep'.cur \in sweep'.todo \cup {NoMatch}
      /\ sweep'.pc # "refunding" => sweep'.todo = {} /\ sweep'.cur = NoMatch
  <2>1. CASE id \in inFlight
    BY <1>1, <1>3, <2>1, SweepingFacts DEF IInv
  <2>2. CASE id \notin inFlight
    BY <1>1, <1>2, <1>3, <2>2 DEF Sweeps, Ids
  <2> QED BY <2>1, <2>2
<1>5. ~(id > matchSeq)
  BY <1>3 DEF IInv, FutureIsBlank
<1>6. RoomTypes' /\ StartsAreFresh' /\ FinalsAreClaimed' /\ MatchHasRow'
      /\ GoneIsUnready' /\ OneStart' /\ OnMatchIsNamed' /\ StartIsUnclaimed'
      /\ PlayersAreCharged' /\ LiveMatchKeepsItsPot'
  BY <1>2 DEF IInv, RoomTypes, StartsAreFresh, FinalsAreClaimed, MatchHasRow,
     GoneIsUnready, OneStart, OnMatchIsNamed, StartIsUnclaimed, PlayersAreCharged, Member,
     LiveMatchKeepsItsPot, room, history
<1>7. FutureIsBlank'
  BY <1>2, <1>4, <1>5 DEF IInv, FutureIsBlank, room, history
<1>8. TaskTypes' /\ SweepsRefundRows' /\ SweepsSpare'
  BY <1>2, <1>3, <1>4 DEF IInv, TaskTypes, SweepsRefundRows, SweepsSpare, history
<1>9. FlightsAreHeld'
  BY <1>2, IdFacts DEF IInv, FlightsAreHeld, TaskTypes, history
<1>12. WonIsOnItsWay'
  BY <1>2, IdFacts DEF IInv, WonIsOnItsWay, history
<1>10. ReadyRoomIsServed'
  BY <1>2 DEF IInv, ReadyRoomIsServed, StartIsComing, allReady, Roster, room
<1>11. BusyStart'
  BY <1>2, <1>3, <1>4 DEF IInv, BusyStart, StartsAreFresh, allReady, room
<1> QED BY <1>6, <1>7, <1>8, <1>9, <1>10, <1>11, <1>12 DEF IInv

\* The refund of a sweep returns.
LEMMA sweepReturnsKeeps ==
    ASSUME IInv, sweepReturns
    PROVE  IInv'
<1> DEFINE id == sweep.cur
<1>1. /\ id \in MatchIds /\ id \in sweep.todo
      /\ inFlight' = inFlight \ {id}
      /\ UNCHANGED <<room, finalized, begin, final, won, overlap>>
  BY DEF IInv, TaskTypes, Sweeps, Ids, SweepsRefundRows, sweepReturns, Returned
<1>2. /\ sweep' \in Sweeps /\ sweep'.pc # "listing" /\ sweep'.cur = NoMatch
      /\ sweep'.todo \subseteq sweep.todo /\ sweep'.owned \subseteq sweep.owned
      /\ sweep'.pc # "refunding" => sweep'.todo = {}
  <2>1. CASE sweep' = Sweeping(sweep.todo \ {sweep.cur})
    <3>1. sweep.todo \ {sweep.cur} \in SUBSET MatchIds
      BY DEF IInv, TaskTypes, Sweeps
    <3> QED BY <2>1, <3>1, SweepingFacts DEF IInv
  <2>2. CASE sweep' = NoSweep
    BY <2>2 DEF NoSweep, Sweeps, Ids
  <2> QED BY <2>1, <2>2 DEF sweepReturns
<1>3. /\ row' \in [MatchIds -> Rows]
      /\ \A m \in MatchIds :
           /\ row'[m].players = row[m].players
           /\ m # id \/ row[m].status # "active" => row'[m] = row[m]
           /\ row[m] = NoRow => row'[m] = NoRow
           /\ row[m] # NoRow => row'[m] # NoRow
  <2>1. CASE Close(sweep.cur, "cancelled")
    <3>1. sweep.cur \in Ids
      BY <1>1 DEF Ids
    <3> QED BY <2>1, <3>1, CloseFacts DEF IInv
  <2>2. CASE UNCHANGED row
    BY <2>2 DEF IInv, TaskTypes
  <2> QED BY <2>1, <2>2 DEF sweepReturns
<1>4. /\ faults' \in {faults, faults + 1}
      /\ lateSwept \subseteq lateSwept'
      /\ (faults' = faults + 1 /\ row' = row) \/ id \in sweep.owned \/ id \in lateSwept'
  BY DEF sweepReturns, Fault
<1>5. ~overlap => id \notin sweep.owned
  BY <1>1 DEF IInv, SweepsSpare
<1> HIDE DEF id
<1>6. RoomTypes' /\ FinalsAreClaimed' /\ GoneIsUnready' /\ OneStart' /\ OnMatchIsNamed'
      /\ StartIsUnclaimed'
  BY <1>1 DEF IInv, RoomTypes, FinalsAreClaimed, GoneIsUnready, OneStart, OnMatchIsNamed,
     StartIsUnclaimed, room
<1>7. FutureIsBlank' /\ StartsAreFresh' /\ MatchHasRow'
  BY <1>1, <1>3 DEF IInv, FutureIsBlank, StartsAreFresh, MatchHasRow, room
<1>8. TaskTypes'
  BY <1>1, <1>2, <1>3, <1>4 DEF IInv, TaskTypes
<1>9. SweepsRefundRows' /\ SweepsSpare'
  BY <1>1, <1>2, <1>3 DEF IInv, TaskTypes, Sweeps, SweepsRefundRows, SweepsSpare
<1>10. FlightsAreHeld'
  BY <1>1, <1>2 DEF IInv, FlightsAreHeld, id
<1>11. PlayersAreCharged'
  BY <1>1, <1>3 DEF IInv, PlayersAreCharged, MatchHasRow, Member, room
<1>12. LiveMatchKeepsItsPot'
  BY <1>1, <1>3, <1>4, <1>5 DEF IInv, LiveMatchKeepsItsPot, MatchHasRow, room
<1>13. WonIsOnItsWay'
  <2> SUFFICES ASSUME NEW m \in MatchIds, m \in won, faults' = 0, ~overlap, m \notin lateSwept'
               PROVE  \/ final[m].pc \in {"idle", "record"} /\ row'[m].status = "settled"
                      \/ final[m].pc = "settle" /\ final[m].call = m /\ row'[m].status = "active"
    BY <1>1 DEF WonIsOnItsWay
  <2>1. faults = 0 /\ faults' # faults + 1 /\ m \notin lateSwept
    BY <1>4 DEF IInv, TaskTypes
  <2>2. m # id
    BY <1>4, <1>5, <2>1
  <2> QED BY <1>3, <2>1, <2>2 DEF IInv, WonIsOnItsWay, id
<1>14. ReadyRoomIsServed' /\ BusyStart'
  BY <1>1 DEF IInv, ReadyRoomIsServed, StartIsComing, BusyStart, allReady, Roster, room
<1> QED BY <1>6, <1>7, <1>8, <1>9, <1>10, <1>11, <1>12, <1>13, <1>14 DEF IInv

\* A crash keeps the rows and loses everything else.
LEMMA crashKeeps ==
    ASSUME IInv, crash
    PROVE  IInv'
<1>1. /\ status' = "closed" /\ seat' = [s \in Seats |-> emptySeat] /\ playing' = NoMatch
      /\ finalized' = {} /\ inFlight' = {}
      /\ begin' = [id \in MatchIds |-> NoBegin]
      /\ final' = [id \in MatchIds |-> NoFinal]
      /\ sweep' = Listing({}, {})
      /\ faults' = faults + 1
      /\ UNCHANGED <<matchId, matchSeq, row, won, overlap, lateSwept>>
  BY DEF crash, Fault
<1>2. RoomTypes' /\ GoneIsUnready'
  BY <1>1 DEF IInv, RoomTypes, GoneIsUnready, Ids, SeatMaps, emptySeat, seatFor
<1>3. TaskTypes' /\ SweepsRefundRows' /\ SweepsSpare'
  BY <1>1, BlankFacts DEF IInv, TaskTypes, Sweeps, Ids, Listing, SweepsRefundRows, SweepsSpare
<1>4. FutureIsBlank' /\ StartsAreFresh' /\ FinalsAreClaimed'
  BY <1>1, BlankFacts DEF IInv, FutureIsBlank, StartsAreFresh, FinalsAreClaimed
<1>5. OneStart' /\ StartIsUnclaimed' /\ FlightsAreHeld'
  BY <1>1 DEF OneStart, StartIsUnclaimed, FlightsAreHeld
<1>6. MatchHasRow' /\ OnMatchIsNamed' /\ PlayersAreCharged' /\ LiveMatchKeepsItsPot'
      /\ ReadyRoomIsServed'
  BY <1>1 DEF MatchHasRow, OnMatchIsNamed, PlayersAreCharged, LiveMatchKeepsItsPot,
     ReadyRoomIsServed
<1>7. WonIsOnItsWay'
  BY <1>1 DEF IInv, TaskTypes, WonIsOnItsWay
<1>8. BusyStart'
  BY <1>1, BlankFacts DEF BusyStart
<1> QED BY <1>2, <1>3, <1>4, <1>5, <1>6, <1>7, <1>8 DEF IInv

\* A step that changes nothing keeps the invariant.
LEMMA StutterKeeps ==
    ASSUME IInv, UNCHANGED vars
    PROVE  IInv'
<1>1. RoomTypes' /\ TaskTypes' /\ FutureIsBlank' /\ StartsAreFresh' /\ FinalsAreClaimed'
      /\ SweepsRefundRows' /\ MatchHasRow' /\ GoneIsUnready'
  BY DEF IInv, RoomTypes, TaskTypes, FutureIsBlank, StartsAreFresh, FinalsAreClaimed,
     SweepsRefundRows, MatchHasRow, GoneIsUnready, vars, room, tasks, history
<1>2. OneStart' /\ OnMatchIsNamed' /\ StartIsUnclaimed' /\ SweepsSpare' /\ FlightsAreHeld'
  BY DEF IInv, OneStart, OnMatchIsNamed, StartIsUnclaimed, SweepsSpare, FlightsAreHeld,
     vars, room, tasks, history
<1>3. PlayersAreCharged' /\ LiveMatchKeepsItsPot' /\ WonIsOnItsWay'
  BY DEF IInv, PlayersAreCharged, Member, LiveMatchKeepsItsPot, WonIsOnItsWay,
     vars, room, tasks, history
<1>4. ReadyRoomIsServed' /\ BusyStart'
  BY DEF IInv, ReadyRoomIsServed, StartIsComing, BusyStart, allReady, Roster,
     vars, room, tasks
<1> QED BY <1>1, <1>2, <1>3, <1>4 DEF IInv

-----------------------------------------------------------------------------
(* The theorems.                                                           *)

\* The empty table satisfies the invariant.
LEMMA InitInv == Init => IInv
<1> SUFFICES ASSUME Init PROVE IInv
  OBVIOUS
<1>1. PICK u \in Users : seat = [s \in Seats |-> IF s = 0 THEN seatFor(u) ELSE emptySeat]
  BY DEF Init
<1>2. RoomTypes /\ GoneIsUnready
  <2>1. seat \in SeatMaps /\ \A s \in Seats : ~seat[s].gone
    BY <1>1 DEF SeatMaps, seatFor, emptySeat
  <2> QED BY <2>1, IdFacts DEF Init, RoomTypes, GoneIsUnready, Ids
<1>3. TaskTypes /\ SweepsRefundRows /\ SweepsSpare
  BY BlankFacts DEF Init, TaskTypes, SweepsRefundRows, SweepsSpare, NoSweep, Sweeps, Ids
<1>4. FutureIsBlank /\ StartsAreFresh /\ FinalsAreClaimed
  BY BlankFacts DEF Init, FutureIsBlank, StartsAreFresh, FinalsAreClaimed
<1>5. MatchHasRow /\ OneStart /\ OnMatchIsNamed /\ StartIsUnclaimed /\ FlightsAreHeld
      /\ PlayersAreCharged /\ LiveMatchKeepsItsPot /\ WonIsOnItsWay
  BY DEF Init, MatchHasRow, OneStart, OnMatchIsNamed, StartIsUnclaimed, FlightsAreHeld,
     PlayersAreCharged, LiveMatchKeepsItsPot, WonIsOnItsWay
<1>6. ReadyRoomIsServed
  <2>1. ~allReady(seat)
    BY <1>1, IdFacts DEF allReady, seatFor
  <2> QED BY <2>1 DEF ReadyRoomIsServed
<1>7. BusyStart
  BY IdFacts DEF Init, BusyStart
<1> QED BY <1>2, <1>3, <1>4, <1>5, <1>6, <1>7 DEF IInv

\* Every step keeps the invariant.
LEMMA NextInv == IInv /\ [Next]_vars => IInv'
<1> SUFFICES ASSUME IInv, [Next]_vars PROVE IInv'
  OBVIOUS
<1>1. ASSUME NEW u \in Users, PlayerStep(u) PROVE IInv'
  BY <1>1, joinRoomKeeps, leaveAndNotifyKeeps, onReadyKeeps DEF PlayerStep
<1>2. ASSUME NEW m \in MatchIds, BeginStep(m) PROVE IInv'
  BY <1>2, gatesBlockKeeps, gatesPassKeeps, escrowRefusedKeeps, escrowedKeeps, undoneKeeps,
     startThrowsKeeps, emergencyEndsKeeps DEF BeginStep
<1>3. ASSUME NEW m \in MatchIds, FinalStep(m) PROVE IInv'
  BY <1>3, finalReturnsKeeps, recordedKeeps DEF FinalStep
<1>4. ASSUME SweepStep PROVE IInv'
  BY <1>4, sweepStartsKeeps, sweepListsKeeps, sweepRefundsKeeps, sweepReturnsKeeps DEF SweepStep
<1>5. ASSUME MatchEnds PROVE IInv'
  BY <1>5, matchEndsKeeps DEF MatchEnds
<1> QED BY <1>1, <1>2, <1>3, <1>4, <1>5, onRematchKeeps, beginMatchKeeps, adminVoidMatchKeeps,
           forfeitMatchKeeps, crashKeeps, StutterKeeps DEF Next

\* The invariant holds in every reachable state: the theorems below follow from it.
THEOREM TableInv == Spec => []IInv
  BY InitInv, NextInv, PTL DEF Spec

\* The table's variables keep their types for any number of matches and faults;
\* the room names the id it handed out last (RoomManager.assignMatchId).
THEOREM TypesHold == Spec => [](RoomTypes /\ TaskTypes)
<1>1. IInv => RoomTypes /\ TaskTypes
  BY DEF IInv
<1> QED BY <1>1, TableInv, PTL

\* tryBeginMatch's second look at the roster is enough: for any number of users
\* coming and going while the stakes are taken, and whatever fails, nobody plays
\* a match on a seat that was not charged for it.
THEOREM NobodyPlaysUncharged == Spec => []PlayersAreCharged
<1>1. IInv => PlayersAreCharged
  BY DEF IInv
<1> QED BY <1>1, TableInv, PTL

\* For any number of matches, sweeps and crashes, the pot of a match that is on
\* is closed only by the two races LiveMatchKeepsItsPot names.
THEOREM PotsOutliveSweeps == Spec => []LiveMatchKeepsItsPot
<1>1. IInv => LiveMatchKeepsItsPot
  BY DEF IInv
<1> QED BY <1>1, TableInv, PTL

\* A match that somebody won is settled when its finalisation is over, if no
\* transaction failed and neither race happened: no other order of the steps of
\* starts, ends, sweeps and players leaves a winner unpaid.
THEOREM WinnersArePaid == Spec => []WonMatchIsPaid
<1>1. IInv => WonMatchIsPaid
  BY BlankFacts DEF IInv, WonIsOnItsWay, WonMatchIsPaid
<1> QED BY <1>1, TableInv, PTL

\* Whatever the gates, the escrow and the handlers of their failures do, a table
\* whose players are all ready has a countdown or a start under way.
THEOREM ReadyPlayersAreServed == Spec => []NobodyIsStranded
<1>1. IInv => NobodyIsStranded
  BY BlankFacts DEF IInv, ReadyRoomIsServed, StartIsComing, NobodyIsStranded
<1> QED BY <1>1, TableInv, PTL
=============================================================================
