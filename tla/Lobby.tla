-------------------------------- MODULE Lobby --------------------------------
(***************************************************************************)
(* Rooms, and the sockets that open, join, leave and watch them            *)
(* (packages/server/src/room/roomManager.ts and the room handlers of       *)
(* packages/server/src/realtime/gateway.ts).  A user may have several      *)
(* sockets (tabs).  RoomManager keys everything by user; each socket       *)
(* caches the room it believes it is in.                                   *)
(*                                                                         *)
(* Every handler runs to its end except an invitation, which awaits the    *)
(* friendship, and the end of a match, which awaits the settlement.  Of a  *)
(* match only its beginning, its forfeits and its end are kept (module     *)
(* Table has the start and the settlement, Match the play).  Rooms are     *)
(* 1, 2, ..., users positive numbers below 10, and the bot in seat i of    *)
(* room r is 10 * r + i.                                                   *)
(***************************************************************************)
EXTENDS Integers, FiniteSets

CONSTANTS
    Settings,   \* the instances: [type, sockets, watchers, kinds, rooms]
    MaxRooms    \* bound: rooms ever created, in any instance

VARIABLES
    setting,    \* the instance of this behaviour
    rooms,      \* id -> room
    home,       \* userRoom: user or bot -> id of the room
    sock,       \* socket -> what it has cached, or NoSocket
    offers,     \* id -> the users who asked for a rematch; {} when there is no offer
    inviting    \* socket -> the invitation whose friendship is being read

vars == <<setting, rooms, home, sock, offers, inviting>>

RoomIds == 1 .. MaxRooms
Nobody == 0
NoRoom == 0
AnyTeam == 9
NoInvite == [room |-> NoRoom, friend |-> Nobody]
Team(i) == IF i \in {0, 2} THEN 0 ELSE 1          \* DEFAULT_TEAMS
NSeats == IF setting.type = "2v2" THEN 4 ELSE 2
Seats == 0 .. NSeats - 1
Teams == IF setting.type = "2v2" THEN {0, 1} ELSE {AnyTeam}
Bot(r, i) == 10 * r + i
Bots == {Bot(r, i) : r \in RoomIds, i \in 0 .. 3}
Sockets == setting.sockets
UserOf(s) == s \div 10                             \* tab k of user u is 10 * u + k
Humans == {UserOf(s) : s \in Sockets}

emptySeat == [user |-> Nobody, ready |-> FALSE, connected |-> FALSE, gone |-> FALSE]
NoSocket == [on |-> FALSE, room |-> NoRoom, watching |-> NoRoom]
NewSocket == [on |-> TRUE, room |-> NoRoom, watching |-> NoRoom]
Unborn == [status |-> "unborn", seats |-> [i \in Seats |-> emptySeat], kind |-> "free",
           practice |-> FALSE, match |-> FALSE, ending |-> FALSE, invited |-> {}, fill |-> FALSE]

Exists(r) == r # NoRoom /\ rooms[r].status \notin {"unborn", "closed"}
Closed == [Unborn EXCEPT !.status = "closed"]

-----------------------------------------------------------------------------
(* RoomManager, on a world [rooms, home].                                  *)

Now == [rooms |-> rooms, home |-> home]
SeatOf(room, u) == {i \in Seats : room.seats[i].user = u}
Free(room) == SeatOf(room, Nobody)
isFull(room) == Free(room) = {}
allReady(room) == isFull(room) /\ \A i \in Seats : room.seats[i].ready
Lowest(S) == CHOOSE i \in S : \A j \in S : i <= j

\* pickSeat: the first free seat, of the team that was asked for.
pickSeat(room, t) == {i \in Free(room) : t \in {AnyTeam, Team(i)}}

seat(w, r, u, t) ==
    LET i == Lowest(pickSeat(w.rooms[r], t))
        taken == [w.rooms[r] EXCEPT !.seats[i] = [emptySeat EXCEPT !.user = u, !.connected = TRUE]]
    IN  [rooms |-> [w.rooms EXCEPT ![r] = [taken EXCEPT !.status = IF isFull(taken) THEN "ready" ELSE @]],
         home |-> [w.home EXCEPT ![u] = r]]

\* createRoom: the next id; the creator is seated.
createRoom(u, kind, practice, t) ==
    LET r == Lowest({i \in RoomIds : rooms[i].status = "unborn"})
        room == [Unborn EXCEPT !.status = "waiting", !.kind = kind, !.practice = practice]
    IN  seat([Now EXCEPT !.rooms[r] = room], r, u, t)

mayCreate(u) == home[u] = NoRoom /\ \E r \in 1 .. setting.rooms : rooms[r].status = "unborn"

\* Mutant of mayJoin: a user may be in two rooms.
mayJoin_twice(room, u, t) ==
    /\ room.kind = "private" => u \in room.invited
    /\ room.status = "waiting" /\ pickSeat(room, t) # {}

\* joinRoom: not from a room; invited to a private one; a free seat in a room that waits.
mayJoin(room, u, t) ==
    /\ home[u] = NoRoom
    /\ room.kind = "private" => u \in room.invited
    /\ room.status = "waiting" /\ pickSeat(room, t) # {}

\* Users vacate their seats of room r; when the last seat is free the room closes.
vacate(w, r, users) ==
    LET left == [w.rooms[r] EXCEPT !.seats =
                   [i \in Seats |-> IF @[i].user \in users THEN emptySeat ELSE @[i]]]
    IN  [rooms |-> [w.rooms EXCEPT ![r] =
                      IF Free(left) = Seats THEN Closed
                      ELSE [left EXCEPT !.status = IF @ = "ready" THEN "waiting" ELSE @]],
         home |-> [u \in DOMAIN w.home |-> IF u \in users THEN NoRoom ELSE w.home[u]]]

\* leaveRoom: out of whatever room the user is in.
leaveRoom(w, u) == IF w.home[u] = NoRoom THEN w ELSE vacate(w, w.home[u], {u})

\* Those who play on: seats, or the teams that have one.
Sides(seats) ==
    LET present == {i \in Seats : ~seats[i].gone}
    IN  IF setting.type = "2v2" THEN {Team(i) : i \in present} ELSE present

\* forfeitSeat: the seat keeps its name, the user is free; one side left ends the match.
forfeitSeat(w, u) ==
    LET r == w.home[u]
        seats == [i \in Seats |-> IF w.rooms[r].seats[i].user = u
                                    THEN [emptySeat EXCEPT !.user = u, !.gone = TRUE]
                                    ELSE w.rooms[r].seats[i]]
        over == Cardinality(Sides(seats)) <= 1
    IN  IF r = NoRoom \/ w.rooms[r].status # "inMatch" THEN w
        ELSE [rooms |-> [w.rooms EXCEPT ![r].seats = seats,
                                        ![r].status = IF over THEN "finished" ELSE @,
                                        ![r].ending = over \/ @],
              home |-> [w.home EXCEPT ![u] = NoRoom]]

\* fillEmptySeatsWithBots: every free seat, ready.
fillEmptySeatsWithBots(w, r) ==
    LET free == Free(w.rooms[r])
    IN  [rooms |-> [w.rooms EXCEPT ![r].status = "ready", ![r].seats = [i \in Seats |->
                      IF i \in free THEN [emptySeat EXCEPT !.user = Bot(r, i), !.connected = TRUE, !.ready = TRUE]
                      ELSE @[i]]],
         home |-> [u \in DOMAIN w.home |-> IF \E i \in free : u = Bot(r, i) THEN r ELSE w.home[u]]]

BotsOf(w, r) == {w.rooms[r].seats[i].user : i \in Seats} \cap Bots
HumansOf(w, r) == {w.rooms[r].seats[i].user : i \in Seats} \cap Humans
isBotRoom(r) == rooms[r].practice \/ BotsOf(Now, r) # {}

\* teardownBotRoom: the bots leave, and the last to leave closes the room.
teardownBotRoom(w, r) == IF BotsOf(w, r) = {} THEN w ELSE vacate(w, r, BotsOf(w, r))

Becomes(w) == rooms' = w.rooms /\ home' = w.home

-----------------------------------------------------------------------------
Init ==
    /\ setting \in Settings
    /\ rooms = [r \in RoomIds |-> Unborn]
    /\ home = [u \in Humans \cup Bots |-> NoRoom]
    /\ sock = [s \in Sockets |-> NoSocket]
    /\ offers = [r \in RoomIds |-> {}]
    /\ inviting = [s \in Sockets |-> NoInvite]

On(s) == sock[s].on
Online(u) == \E s \in Sockets : On(s) /\ UserOf(s) = u

(* Connections.                                                            *)

\* A user who is in a room is put back into it.
onConnection(s) ==
    LET u == UserOf(s) r == home[u]
    IN  /\ ~On(s)
        /\ sock' = [sock EXCEPT ![s] = [NewSocket EXCEPT !.room = r]]
        /\ rooms' = IF r = NoRoom THEN rooms
                    ELSE [rooms EXCEPT ![r].seats = [i \in Seats |->
                            IF @[i].user = u THEN [@[i] EXCEPT !.connected = TRUE] ELSE @[i]]]
        /\ UNCHANGED <<home, offers, inviting>>

\* The user's last socket: a table of bots is torn down, a seat in a match kept
\* for a while, any other freed.
onDisconnect(s) ==
    LET u == UserOf(s) r == home[u]
        others == \E t \in Sockets \ {s} : On(t) /\ UserOf(t) = u
    IN  /\ On(s)
        /\ sock' = [sock EXCEPT ![s] = NoSocket]
        /\ Becomes(IF others \/ r = NoRoom THEN Now
                   ELSE IF isBotRoom(r) THEN teardownBotRoom(leaveRoom(Now, u), r)
                   ELSE IF rooms[r].status = "inMatch"
                     THEN [Now EXCEPT !.rooms[r].seats = [i \in Seats |->
                             IF @[i].user = u THEN [@[i] EXCEPT !.connected = FALSE] ELSE @[i]]]
                   ELSE leaveRoom(Now, u))
        /\ UNCHANGED <<offers, inviting>>

\* onAbandon: the grace is over.  onTurnTimeout: one missed turn too many.
forfeits(u) ==
    LET r == home[u]
    IN  /\ r # NoRoom /\ rooms[r].status = "inMatch"
        /\ Becomes(forfeitSeat(Now, u))
        /\ UNCHANGED <<sock, offers, inviting>>

-----------------------------------------------------------------------------
(* Rooms.                                                                  *)

Enters(s, r) == sock' = [sock EXCEPT ![s].room = r]

\* onCreate: a free public room arms the fill by bots.
onCreate(s, kind, t) ==
    /\ On(s) /\ mayCreate(UserOf(s))
    /\ LET w == createRoom(UserOf(s), kind, FALSE, t) r == w.home[UserOf(s)]
       IN  Becomes([w EXCEPT !.rooms[r].fill = (kind = "free")]) /\ Enters(s, r)
    /\ UNCHANGED <<offers, inviting>>

onJoin(s, r, t) ==
    /\ On(s) /\ Exists(r) /\ mayJoin(rooms[r], UserOf(s), t)
    /\ Becomes(seat(Now, r, UserOf(s), t)) /\ Enters(s, r)
    /\ UNCHANGED <<offers, inviting>>

\* onJoinByCode: whoever knows the code is invited by it, whether or not there is a seat.
onJoinByCode(s, r) ==
    LET u == UserOf(s)
        w == [Now EXCEPT !.rooms[r].invited = @ \cup {u}]
    IN  /\ On(s) /\ Exists(r) /\ rooms[r].kind = "private"
        /\ IF mayJoin(w.rooms[r], u, AnyTeam)
             THEN Becomes(seat(w, r, u, AnyTeam)) /\ Enters(s, r)
             ELSE Becomes(w) /\ UNCHANGED sock
        /\ UNCHANGED <<offers, inviting>>

\* onInvite, up to the friendship; the room is the one of that moment ...
onInvite(s, f) ==
    /\ On(s) /\ inviting[s] = NoInvite /\ home[UserOf(s)] # NoRoom /\ f # UserOf(s)
    /\ rooms[home[UserOf(s)]].kind = "private"
    /\ inviting' = [inviting EXCEPT ![s] = [room |-> home[UserOf(s)], friend |-> f]]
    /\ UNCHANGED <<rooms, home, sock, offers>>

\* ... and they are friends, or not.
markInvited(s, friends) ==
    LET i == inviting[s]
    IN  /\ i # NoInvite
        /\ inviting' = [inviting EXCEPT ![s] = NoInvite]
        /\ rooms' = IF friends /\ Exists(i.room)
                      THEN [rooms EXCEPT ![i.room].invited = @ \cup {i.friend}] ELSE rooms
        /\ UNCHANGED <<home, sock, offers>>

\* onLeave: by the room this socket has cached, while RoomManager takes the user
\* out of the room the user is in.
onLeave(s) ==
    LET u == UserOf(s) r == sock[s].room
        plays == Exists(r) /\ rooms[r].status = "inMatch" /\ SeatOf(rooms[r], u) # {}
        w == IF plays THEN forfeitSeat(Now, u) ELSE leaveRoom(Now, u)
        v == IF Exists(r) /\ isBotRoom(r) THEN teardownBotRoom(w, r) ELSE w
    IN  /\ On(s) /\ r # NoRoom
        /\ offers' = [offers EXCEPT ![r] = {}]
        /\ Enters(s, NoRoom)
        /\ Becomes([v EXCEPT !.rooms[r].fill = FALSE])
        /\ UNCHANGED inviting

onReady(s, ready) ==
    LET u == UserOf(s) r == home[u]
    IN  /\ On(s) /\ r # NoRoom /\ rooms[r].status # "inMatch"
        /\ rooms' = [rooms EXCEPT ![r].seats = [i \in Seats |->
                       IF @[i].user = u THEN [@[i] EXCEPT !.ready = ready] ELSE @[i]]]
        /\ UNCHANGED <<home, sock, offers, inviting>>

\* onSwitchTeam: to a free seat of the team, or in exchange with the first player
\* there; both are unready.
onSwitchTeam(s, t) ==
    LET u == UserOf(s) r == home[u] seats == rooms[r].seats
        mine == Lowest(SeatOf(rooms[r], u))
        free == {i \in Free(rooms[r]) : Team(i) = t}
        to == Lowest(IF free # {} THEN free ELSE {i \in Seats : Team(i) = t})
        moved == [rooms[r] EXCEPT !.seats[to] = [seats[mine] EXCEPT !.ready = FALSE],
                                  !.seats[mine] = [seats[to] EXCEPT !.ready = FALSE]]
    IN  /\ On(s) /\ r # NoRoom /\ setting.type = "2v2"
        /\ rooms[r].status # "inMatch" /\ ~rooms[r].match /\ Team(mine) # t
        /\ rooms' = [rooms EXCEPT ![r] = [moved EXCEPT !.status = IF isFull(moved) THEN "ready" ELSE "waiting"]]
        /\ UNCHANGED <<home, sock, offers, inviting>>

\* onRematch: everybody of the match that is over must be there, and ask; bots do.
onRematch(s) ==
    LET u == UserOf(s) r == sock[s].room
        asked == offers[r] \cup {u} \cup BotsOf(Now, r)
        everyone == {rooms[r].seats[i].user : i \in Seats} \subseteq asked
    IN  /\ On(s) /\ Exists(r) /\ rooms[r].status = "finished" /\ SeatOf(rooms[r], u) # {}
        /\ isFull(rooms[r]) /\ \A i \in Seats : rooms[r].seats[i].connected
        /\ offers' = [offers EXCEPT ![r] = IF everyone THEN {} ELSE asked]
        /\ rooms' = IF everyone
                      THEN [rooms EXCEPT ![r].match = FALSE, ![r].status = "waiting",
                                         ![r].seats = [i \in Seats |-> [@[i] EXCEPT !.ready = TRUE]]]
                      ELSE rooms
        /\ UNCHANGED <<home, sock, inviting>>

\* cancelRematch: the window has passed.
cancelRematch(r) ==
    /\ offers[r] # {}
    /\ offers' = [offers EXCEPT ![r] = {}]
    /\ UNCHANGED <<rooms, home, sock, inviting>>

-----------------------------------------------------------------------------
(* Bots and matches.                                                       *)

\* onPracticeStart: every socket of the user enters.
onPracticeStart(s) ==
    LET u == UserOf(s)
        w == createRoom(u, "free", TRUE, AnyTeam)
        r == w.home[u]
        v == fillEmptySeatsWithBots(w, r)
    IN  /\ On(s) /\ mayCreate(u)
        /\ Becomes([v EXCEPT !.rooms[r].seats[0].ready = TRUE])
        /\ sock' = [t \in Sockets |-> IF On(t) /\ UserOf(t) = u THEN [sock[t] EXCEPT !.room = r] ELSE sock[t]]
        /\ UNCHANGED <<offers, inviting>>

\* Mutant of Lonely: whoever else has come, the free seats are filled.
Lonely_any(r) ==
    /\ rooms[r].kind = "free" /\ ~rooms[r].practice /\ rooms[r].status = "waiting"
    /\ HumansOf(Now, r) # {} /\ ~isFull(rooms[r])

\* When the fill is due: a free public room, still waiting, with one human in it.
Lonely(r) ==
    /\ rooms[r].kind = "free" /\ ~rooms[r].practice /\ rooms[r].status = "waiting"
    /\ Cardinality(HumansOf(Now, r)) = 1 /\ ~isFull(rooms[r])

\* armGhostFill's timer.
ghostFill(r) ==
    /\ Exists(r) /\ rooms[r].fill
    /\ LET w == [Now EXCEPT !.rooms[r].fill = FALSE]
       IN  Becomes(IF Lonely(r) THEN fillEmptySeatsWithBots([w EXCEPT !.rooms[r].practice = TRUE], r) ELSE w)
    /\ UNCHANGED <<sock, offers, inviting>>

\* maybeStartCountdown, startMatch: all seats are ready when the countdown is over.
startMatch(r) ==
    /\ Exists(r) /\ rooms[r].status # "inMatch" /\ allReady(rooms[r])
    /\ rooms' = [rooms EXCEPT ![r].status = "inMatch", ![r].match = TRUE, ![r].fill = FALSE]
    /\ UNCHANGED <<home, sock, offers, inviting>>

\* The match is played to its end ...
matchOver(r) ==
    /\ Exists(r) /\ rooms[r].status = "inMatch"
    /\ rooms' = [rooms EXCEPT ![r].status = "finished", ![r].ending = TRUE]
    /\ UNCHANGED <<home, sock, offers, inviting>>

\* ... and, once settled, the seats of those who left are freed.
clearGoneSeats(r) ==
    /\ Exists(r) /\ rooms[r].ending
    /\ rooms' = [rooms EXCEPT ![r].ending = FALSE, ![r].seats = [i \in Seats |->
                   IF @[i].gone THEN emptySeat ELSE @[i]]]
    /\ UNCHANGED <<home, sock, offers, inviting>>

-----------------------------------------------------------------------------
(* Watching.                                                               *)

onSpectate(s, r) ==
    /\ s \in setting.watchers /\ On(s) /\ Exists(r) /\ rooms[r].status # "finished"
    /\ rooms[r].kind # "private" /\ ~rooms[r].practice
    /\ sock[s].room = NoRoom /\ SeatOf(rooms[r], UserOf(s)) = {} /\ sock[s].watching # r
    /\ sock' = [sock EXCEPT ![s].watching = r]
    /\ UNCHANGED <<rooms, home, offers, inviting>>

onUnspectate(s) ==
    /\ On(s) /\ sock[s].watching # NoRoom
    /\ sock' = [sock EXCEPT ![s].watching = NoRoom]
    /\ UNCHANGED <<rooms, home, offers, inviting>>

-----------------------------------------------------------------------------
Next ==
    /\ UNCHANGED setting
    /\ \/ \E s \in Sockets :
            \/ onConnection(s) \/ onDisconnect(s) \/ onLeave(s) \/ onRematch(s) \/ onPracticeStart(s)
            \/ onUnspectate(s)
            \/ \E kind \in setting.kinds, t \in Teams : onCreate(s, kind, t)
            \/ \E r \in RoomIds : onJoinByCode(s, r) \/ onSpectate(s, r) \/ \E t \in Teams : onJoin(s, r, t)
            \/ \E f \in Humans : onInvite(s, f)
            \/ \E b \in BOOLEAN : markInvited(s, b) \/ onReady(s, b)
            \/ \E t \in Teams : onSwitchTeam(s, t)
       \/ \E u \in Humans : forfeits(u)
       \/ \E r \in RoomIds : cancelRematch(r) \/ ghostFill(r) \/ startMatch(r) \/ matchOver(r) \/ clearGoneSeats(r)

Spec == Init /\ [][Next]_vars

-----------------------------------------------------------------------------
\* RoomManager's two views agree: a user's room has one seat in that name, and
\* whoever sits at a table, and did not give up the match, is in that room; so
\* nobody sits at two tables, however many tabs act and whatever they have cached.
SeatsAgree ==
    \A u \in Humans, r \in RoomIds :
      Cardinality({i \in Seats : rooms[r].seats[i].user = u /\ ~rooms[r].seats[i].gone})
        = IF home[u] = r THEN 1 ELSE 0

\* "fill players must NEVER enter a real-money game" (gateway.ts
\* fillEmptySeatsWithBots), and with bots sits one human at most (isBotRoom).
BotsPlayForFree ==
    \A r \in RoomIds : BotsOf(Now, r) # {} =>
      rooms[r].kind = "free" /\ Cardinality(HumansOf(Now, r)) <= 1

\* "callers that leave during a match run forfeitMatch() first" (gateway.ts
\* leaveAndNotify): nobody's seat is vacated while a match of people is on.
LeaversForfeit ==
    \A r \in RoomIds : rooms[r].status = "inMatch" => isFull(rooms[r])
=============================================================================
