------------------------------ MODULE Fairness ------------------------------
(***************************************************************************)
(* The provably fair deal of one room                                      *)
(* (packages/server/src/realtime/fairnessCoordinator.ts, fair/, and the    *)
(* gateway's use of them): a server seed is committed when the countdown   *)
(* starts, the players then send seeds of their own, the match is dealt    *)
(* from both, and the server seed is revealed when the match was settled.  *)
(* The start awaits the escrow and the end awaits the settlement, and the  *)
(* room goes on meanwhile.                                                 *)
(*                                                                         *)
(* Server seeds are numbered as they are generated.  A client seed is the  *)
(* number of the newest server seed when it was sent; 0 is no seed.        *)
(***************************************************************************)
EXTENDS Integers, FiniteSets

CONSTANTS
    Users,      \* who may sit at the table, which has two seats
    MaxSeeds,   \* bound on server seeds, and on seeds and games of a match together
    MaxMatches  \* bound on match ids

VARIABLES
    room,       \* [status, seats, ready, matchId]
    countdown,  \* a countdown runs
    newest,     \* number of the newest server seed
    pending,    \* pendingSeeds of the room
    clientSeed, \* clientSeeds, by user
    starts,     \* tryBeginMatch in the escrow: [id, players]
    dealer,     \* the match's dealer: [seed, id, games], id being the match games are written under
    shuffle,    \* byRoom: the server seed kept for the reveal
    ends,       \* matches whose finalisation awaits the database
    rows,       \* persisted games: [id, index, seed, revealed]
    writes,     \* games on their way to the database
    published,  \* server seeds anybody can read
    deals       \* history: [id, seed, mixed, announced]

fairVars == <<room, countdown, newest, pending, clientSeed, starts, dealer, shuffle, ends, rows, writes, published, deals>>

None == 0

Init ==
    /\ room = [status |-> "waiting", seats |-> {}, ready |-> {}, matchId |-> None]
    /\ countdown = FALSE /\ newest = None /\ pending = None
    /\ clientSeed = [u \in Users |-> None]
    /\ starts = {} /\ shuffle = None /\ ends = {}
    /\ dealer = [seed |-> None, id |-> None, games |-> 0]
    /\ rows = {} /\ writes = {} /\ published = {} /\ deals = {}

isFull(r) == Cardinality(r.seats) = 2
allReady(r) == isFull(r) /\ r.ready = r.seats

-----------------------------------------------------------------------------
(* The countdown commits a server seed.                                    *)

\* Mutant of dropClientSeed: seeds sent before the commitment stay.
dropClientSeed_never(cs, users) == cs
dropClientSeed(cs, users) == [u \in Users |-> IF u \in users THEN None ELSE cs[u]]

\* maybeStartCountdown: without everybody ready, the countdown and its seed go.
maybeStartCountdown(r) ==
    /\ room' = r
    /\ IF ~allReady(r)
         THEN countdown' = FALSE /\ pending' = None /\ UNCHANGED <<newest, clientSeed>>
         ELSE IF countdown THEN UNCHANGED <<countdown, pending, newest, clientSeed>>
         ELSE /\ newest < MaxSeeds
              /\ newest' = newest + 1 /\ pending' = newest'
              /\ clientSeed' = dropClientSeed(clientSeed, r.seats)
              /\ countdown' = TRUE
    /\ UNCHANGED <<starts, dealer, shuffle, ends, rows, writes, published, deals>>

onJoin(u) ==
    /\ room.status = "waiting" /\ u \notin room.seats /\ ~isFull(room)
    /\ maybeStartCountdown([room EXCEPT !.seats = @ \cup {u}])

\* leaveRoom: an empty room is closed.
onLeave(u) ==
    /\ room.status # "inMatch" /\ u \in room.seats
    /\ maybeStartCountdown([room EXCEPT !.seats = @ \ {u}, !.ready = @ \ {u},
                                        !.status = IF room.seats = {u} THEN "closed" ELSE @])

onReady(u) ==
    /\ room.status # "inMatch" /\ u \in room.seats
    /\ \E on \in BOOLEAN :
         maybeStartCountdown([room EXCEPT !.ready = IF on THEN @ \cup {u} ELSE @ \ {u}])

\* fair:clientSeed is taken at any time.
recordClientSeed(u) ==
    /\ clientSeed' = [clientSeed EXCEPT ![u] = newest]
    /\ UNCHANGED <<room, countdown, newest, pending, starts, dealer, shuffle, ends, rows, writes, published, deals>>

onDisconnect(u) ==
    /\ clientSeed' = [clientSeed EXCEPT ![u] = None]
    /\ UNCHANGED <<room, countdown, newest, pending, starts, dealer, shuffle, ends, rows, writes, published, deals>>

-----------------------------------------------------------------------------
(* The start: tryBeginMatch up to the escrow, and after it.                *)

\* The countdown's timer: a match id is assigned before the escrow.
tryBeginMatch ==
    /\ countdown
    /\ countdown' = FALSE
    /\ IF allReady(room)
         THEN /\ room.matchId < MaxMatches
              /\ room' = [room EXCEPT !.matchId = @ + 1]
              /\ starts' = starts \cup {[id |-> room.matchId + 1, players |-> room.seats]}
         ELSE UNCHANGED <<room, starts>>
    /\ UNCHANGED <<newest, pending, clientSeed, dealer, shuffle, ends, rows, writes, published, deals>>

Unready(s) ==
    /\ starts' = starts \ {s}
    /\ room' = IF room.status = "inMatch" THEN room ELSE [room EXCEPT !.ready = {}]

\* The escrow failed, or somebody left or is not ready any more.
startFails(s) ==
    /\ s \in starts
    /\ Unready(s)
    /\ UNCHANGED <<countdown, newest, pending, clientSeed, dealer, shuffle, ends, rows, writes, published, deals>>

\* The game just dealt is written without being awaited.
recordGame(id, seed, index) == writes' = writes \cup {[id |-> id, index |-> index, seed |-> seed, revealed |-> FALSE]}

\* The deal: the pending seed, or one committed now, with the players' seeds.
createFairShuffle(s) ==
    LET fresh == pending = None
        seed == IF fresh THEN newest + 1 ELSE pending
        mixed == {clientSeed[u] : u \in room.seats} \ {None}
    IN  /\ s \in starts
        /\ s.players = room.seats /\ allReady(room)
        /\ fresh => newest < MaxSeeds
        /\ newest' = IF fresh THEN seed ELSE newest
        /\ IF room.status = "inMatch"
             THEN Unready(s) /\ UNCHANGED <<dealer, shuffle, pending, writes, deals>>
             ELSE /\ room' = [room EXCEPT !.status = "inMatch"]
                  /\ starts' = starts \ {s}
                  /\ dealer' = [seed |-> seed, id |-> s.id, games |-> 1] /\ shuffle' = seed
                  /\ pending' = None
                  /\ recordGame(s.id, seed, 0)
                  /\ deals' = deals \cup {[id |-> s.id, seed |-> seed, mixed |-> mixed, announced |-> ~fresh]}
        /\ UNCHANGED <<countdown, clientSeed, ends, rows, published>>

\* The next game of the match: its number is the nonce.
deal ==
    /\ room.status = "inMatch" /\ newest + dealer.games < MaxSeeds
    /\ dealer' = [dealer EXCEPT !.games = @ + 1]
    /\ recordGame(dealer.id, dealer.seed, dealer.games)
    /\ UNCHANGED <<room, countdown, newest, pending, clientSeed, starts, shuffle, ends, rows, published, deals>>

persist(w) ==
    /\ w \in writes
    /\ writes' = writes \ {w} /\ rows' = rows \cup {w}
    /\ UNCHANGED <<room, countdown, newest, pending, clientSeed, starts, dealer, shuffle, ends, published, deals>>

-----------------------------------------------------------------------------
(* The end.                                                                *)

\* claimFinalize: the match is over, its finalisation awaits the settlement.
matchEnds ==
    /\ room.status = "inMatch"
    /\ room' = [room EXCEPT !.status = "finished"]
    /\ ends' = ends \cup {dealer.id}
    /\ UNCHANGED <<countdown, newest, pending, clientSeed, starts, dealer, shuffle, rows, writes, published, deals>>

\* A settlement that threw, or found the match closed: nothing is revealed.
settlementFails(id) ==
    /\ id \in ends
    /\ ends' = ends \ {id}
    /\ UNCHANGED <<room, countdown, newest, pending, clientSeed, starts, dealer, shuffle, rows, writes, published, deals>>

\* revealMatch: the rows of the match that are written by now.
revealMatch(id) == {IF r.id = id THEN [r EXCEPT !.revealed = TRUE] ELSE r : r \in rows}

\* The public routes show the seeds of revealed games.
fairRoutes(rs) == {r.seed : r \in {x \in rs : x.revealed}}

\* revealFair goes by the room: its shuffle and its match id, as they are now.
revealFair(id) ==
    /\ id \in ends
    /\ ends' = ends \ {id}
    /\ IF shuffle = None THEN UNCHANGED <<shuffle, rows, published>>
       ELSE /\ rows' = IF room.status = "closed" THEN rows ELSE revealMatch(room.matchId)
            /\ published' = published \cup {shuffle} \cup fairRoutes(rows')
            /\ shuffle' = None
    /\ UNCHANGED <<room, countdown, newest, pending, clientSeed, starts, dealer, writes, deals>>

\* resetForRematch, when everybody wants one.
onRematch ==
    /\ room.status = "finished" /\ isFull(room)
    /\ maybeStartCountdown([room EXCEPT !.status = "waiting", !.ready = room.seats])

-----------------------------------------------------------------------------
Next ==
    \/ \E u \in Users : onJoin(u) \/ onLeave(u) \/ onReady(u) \/ recordClientSeed(u) \/ onDisconnect(u)
    \/ tryBeginMatch \/ deal \/ matchEnds \/ onRematch
    \/ \E s \in starts : startFails(s) \/ createFairShuffle(s)
    \/ \E w \in writes : persist(w)
    \/ \E id \in ends : settlementFails(id) \/ revealFair(id)

Spec == Init /\ [][Next]_fairVars

-----------------------------------------------------------------------------
\* "The serverSeed was fixed before these clientSeeds existed, so the deal cannot be
\* ground": a deal from a committed seed mixes only seeds sent after that commitment,
\* however often players left, came back, unreadied or a countdown was started again.
CommittedFirst == \A d \in deals : d.announced => \A c \in d.mixed : c >= d.seed

\* Two matches are not dealt from one server seed, nor one game under two.
SeedsAreUsedOnce ==
    /\ \A d, e \in deals : d.seed = e.seed => d = e
    /\ \A r, x \in rows \cup writes : r.id = x.id => r.seed = x.seed

\* "SECRET until reveal" (provablyFair.ts): while a match is played, its server seed
\* is not published.  A finalisation that waits for the database while the room starts
\* its next match reveals the shuffle it finds, which is that of the next match.
SecretUntilEnd == room.status = "inMatch" => dealer.seed \notin published

-----------------------------------------------------------------------------
(* The inductive invariant: at most two sit, a match id and a seed serve   *)
(* one deal, and what is pending was announced to everybody who sits.      *)

Room == [status : {"waiting", "inMatch", "finished", "closed"}, seats : SUBSET Users,
         ready : SUBSET Users, matchId : Nat]
Row == [id : Nat, index : Nat, seed : Nat, revealed : BOOLEAN]
Deal(n) == [id : Nat, seed : Nat, mixed : SUBSET (1..n), announced : BOOLEAN]

FairnessTypeOK ==
    /\ room \in Room /\ countdown \in BOOLEAN
    /\ newest \in Nat /\ pending \in 0..newest /\ clientSeed \in [Users -> 0..newest]
    /\ starts \subseteq [id : Nat, players : SUBSET Users]
    /\ dealer \in [seed : Nat, id : Nat, games : Nat]
    /\ rows \cup writes \subseteq Row /\ deals \subseteq Deal(newest)

\* Nobody beyond two sits down, and only who sits is ready.
SeatsFit ==
    /\ IsFiniteSet(room.seats) /\ Cardinality(room.seats) <= 2
    /\ room.ready \subseteq room.seats

\* A pending seed belongs to a full table, none of whom sent a seed before it.
PendingIsAnnounced ==
    pending # None =>
        /\ isFull(room)
        /\ \A u \in room.seats : clientSeed[u] # None => clientSeed[u] >= pending
        /\ \A d \in deals : d.seed # pending

\* Ids are assigned in order, and a start's id is its own.
StartsAreNumbered ==
    /\ \A s \in starts : s.id <= room.matchId /\ \A d \in deals : d.id # s.id
    /\ \A s, o \in starts : s.id = o.id => s = o

DealsAreDistinct ==
    /\ \A d \in deals : d.id <= room.matchId /\ d.seed <= newest
    /\ \A d, e \in deals : d.id = e.id \/ d.seed = e.seed => d = e

\* What is dealt and written is of a match that was dealt.
GamesAreOfDeals ==
    /\ room.status = "inMatch" => \E d \in deals : d.id = dealer.id /\ d.seed = dealer.seed
    /\ \A x \in rows \cup writes : \E d \in deals : d.id = x.id /\ d.seed = x.seed

FairnessInv ==
    /\ FairnessTypeOK /\ SeatsFit /\ PendingIsAnnounced /\ StartsAreNumbered
    /\ DealsAreDistinct /\ GamesAreOfDeals /\ CommittedFirst
=============================================================================
