----------------------------- MODULE Matchmaking -----------------------------
(***************************************************************************)
(* The ranked queue: MatchmakingService (packages/server/src/realtime/     *)
(* matchmaking.ts) as the gateway drives it.  Joining the queue awaits the *)
(* player's rating, and the player may do anything else meanwhile.  Of     *)
(* rooms only who is in one is kept; the queue of a match type is in the   *)
(* order of its entries' `since`.                                          *)
(***************************************************************************)
EXTENDS Integers, Sequences, FiniteSets

CONSTANTS
    Queuers,    \* players
    Rating,     \* player -> rating
    Needed,     \* match type -> PLAYERS_PER_TYPE
    Tolerance   \* rating bracket around the oldest waiter

VARIABLES
    queue,      \* match type -> players waiting, the oldest first
    joining,    \* player -> the type of a queue:join whose rating is being read
    online,     \* players with a socket
    seated,     \* players in a room: userRoom
    fallback    \* player -> the type its vs-bot timer was armed for

queueVars == <<queue, joining, online, seated, fallback>>

Types == DOMAIN Needed
NoType == "none"
Waiting(q) == {q[i] : i \in DOMAIN q}
InQueue(u) == \E t \in Types : u \in Waiting(queue[t])
Without(q, users) == SelectSeq(q, LAMBDA u : u \notin users)

\* remove(): from whichever queue the player is in.
remove(qs, u) == [t \in Types |-> Without(qs[t], {u})]
\* enqueue(): at the end, and in one queue only.
enqueue(qs, u, t) == [remove(qs, u) EXCEPT ![t] = Append(@, u)]

Init ==
    /\ queue = [t \in Types |-> <<>>]
    /\ joining = [u \in Queuers |-> NoType]
    /\ online = Queuers
    /\ seated = {}
    /\ fallback = [u \in Queuers |-> NoType]

-----------------------------------------------------------------------------
(* formGroup: the oldest waiter and those rated closest to it.             *)

Gap(u, v) == IF Rating[u] >= Rating[v] THEN Rating[u] - Rating[v] ELSE Rating[v] - Rating[u]
Place(q, u) == CHOOSE i \in DOMAIN q : q[i] = u
Eligible(q) == {u \in Waiting(q) : Gap(u, q[1]) <= Tolerance}

\* Closer to the oldest, or as close and waiting longer.
Before(q, u, v) ==
    \/ Gap(u, q[1]) < Gap(v, q[1])
    \/ Gap(u, q[1]) = Gap(v, q[1]) /\ Place(q, u) < Place(q, v)

formGroup(q, n) == {u \in Eligible(q) : Cardinality({v \in Eligible(q) : Before(q, v, u)}) < n}
CanForm(q, n) == Len(q) >= n /\ Cardinality(Eligible(q)) >= n

\* seatRankedGroup: the oldest creates the room and the others join it.  A
\* member who is in a room already undoes it: if it is the oldest, nothing has
\* happened; otherwise all members leave whatever room they are in.
seatRankedGroup(q, group) ==
    IF seated \cap group = {} THEN seated \cup group
    ELSE IF q[1] \in seated THEN seated
    ELSE seated \ group

-----------------------------------------------------------------------------
\* onRankedQueueJoin: not from a room; the rating is read ...
onRankedQueueJoin(u, t) ==
    /\ u \in online /\ u \notin seated /\ joining[u] = NoType
    /\ joining' = [joining EXCEPT ![u] = t]
    /\ UNCHANGED <<queue, online, seated, fallback>>

\* Mutant of Fallbacks: a group that forms disarms everybody's timer.
Fallbacks_cleared(u, t, group, still) ==
    [v \in Queuers |-> IF group # {} THEN NoType ELSE IF v = u /\ still THEN t ELSE fallback[v]]

\* The vs-bot timers: disarmed for those who are seated, armed for a joiner who
\* waits still.
Fallbacks(u, t, group, still) ==
    [v \in Queuers |-> IF v \in group THEN NoType ELSE IF v = u /\ still THEN t ELSE fallback[v]]

\* ... the player waits, and the groups that can form are seated.  One joiner
\* makes one group at most.
queued(u) ==
    LET t == joining[u]
        q == enqueue(queue, u, t)[t]
        forms == CanForm(q, Needed[t])
        group == IF forms THEN formGroup(q, Needed[t]) ELSE {}
        clean == seated \cap group = {}
    IN  /\ t # NoType
        /\ joining' = [joining EXCEPT ![u] = NoType]
        /\ queue' = [enqueue(queue, u, t) EXCEPT ![t] = Without(q, group)]
        /\ seated' = IF forms THEN seatRankedGroup(q, group) ELSE seated
        /\ fallback' = Fallbacks(u, t, IF clean THEN group ELSE {}, u \notin group)
        /\ UNCHANGED online

onRankedQueueLeave(u) ==
    /\ InQueue(u)
    /\ queue' = remove(queue, u)
    /\ fallback' = [fallback EXCEPT ![u] = NoType]
    /\ UNCHANGED <<joining, online, seated>>

\* onCreate, onJoin, onJoinByCode, onPracticeStart: a room of the player's own
\* choice.  A practice room leaves the queue alone; none disarms the timer.
entersRoom(u, practice) ==
    /\ u \in online /\ u \notin seated
    /\ seated' = seated \cup {u}
    /\ queue' = IF practice THEN queue ELSE remove(queue, u)
    /\ UNCHANGED <<joining, online, fallback>>

\* The room is left, or is over.
leavesRoom(u) ==
    /\ u \in seated
    /\ seated' = seated \ {u}
    /\ UNCHANGED <<queue, joining, online, fallback>>

\* onDisconnect: out of the queue; a room may be kept for a while.
onDisconnect(u) ==
    /\ u \in online
    /\ online' = online \ {u}
    /\ queue' = remove(queue, u)
    /\ fallback' = [fallback EXCEPT ![u] = NoType]
    /\ seated' \in {seated, seated \ {u}}
    /\ UNCHANGED <<joining>>

onConnection(u) ==
    /\ u \notin online
    /\ online' = online \cup {u}
    /\ UNCHANGED <<queue, joining, seated, fallback>>

\* formRankedVsBots: no group was found in time.  The player plays against
\* bots, unless gone or in a room.
formRankedVsBots(u) ==
    /\ fallback[u] # NoType
    /\ fallback' = [fallback EXCEPT ![u] = NoType]
    /\ queue' = remove(queue, u)
    /\ seated' = IF InQueue(u) /\ u \in online THEN seated \cup {u} ELSE seated
    /\ UNCHANGED <<joining, online>>

Next ==
    \E u \in Queuers :
      \/ \E t \in Types : onRankedQueueJoin(u, t)
      \/ queued(u) \/ onRankedQueueLeave(u) \/ leavesRoom(u) \/ onDisconnect(u) \/ onConnection(u)
      \/ formRankedVsBots(u)
      \/ \E practice \in BOOLEAN : entersRoom(u, practice)

\* Timers that are due fire.
Fairness == \A u \in Queuers : WF_queueVars(formRankedVsBots(u))

-----------------------------------------------------------------------------
\* "a solo player never waits forever" (gateway.ts onRankedQueueJoin): whoever is
\* in a queue leaves it in the end, for a match or by themselves, however often
\* groups form around them.
NobodyWaitsForever == \A u \in Queuers : InQueue(u) ~> ~InQueue(u)
=============================================================================
