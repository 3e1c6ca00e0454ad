-------------------------------- MODULE Clubs --------------------------------
(***************************************************************************)
(* Clubs and their chat: ClubService and ChatService (packages/server/src/ *)
(* social, chat) over the Prisma repositories.  Each await of the database *)
(* is a step, and a user has one request under way.  Names and tags are    *)
(* left out: a club is known by its id, which is used once.  The order of  *)
(* a roster is the order of joining.                                       *)
(***************************************************************************)
EXTENDS Integers, Sequences, FiniteSets

CONSTANTS
    People,
    ClubIds,    \* every club id there may be
    MaxMembers, \* MAX_CLUB_MEMBERS
    MaxPosts,   \* bound on the messages of one club
    MaxBusy,    \* bound on the requests under way
    MaxTalk     \* bound on the users in a channel, and on the users muted

VARIABLES
    clubs,      \* club id -> [made, open, founder]: the row of the club, if made
    roster,     \* club id -> its members, the first to join first
    founders,   \* members whose role is "founder"
    task,       \* user -> its request under way: [op, club]
    joinChain,  \* club id -> who is joining it: one at a time
    posts,      \* club id -> messages
    muted,      \* users whose mute has not run out
    hears,      \* user -> clubs whose channel its socket is in
    reports     \* clubs with a message reported

clubVars == <<clubs, roster, founders, task, joinChain, posts, muted, hears, reports>>

None == "none"
Idle == [op |-> "idle", club |-> None]
Members(c) == {roster[c][i] : i \in DOMAIN roster[c]}
Does(u, op) == task[u].op = op
Begins(u) == Does(u, "idle") /\ Cardinality({v \in People : task[v] # Idle}) < MaxBusy
Turn(u, op, c) == task' = [task EXCEPT ![u] = [op |-> op, club |-> c]]
Done(u) == task' = [task EXCEPT ![u] = Idle]
Club(u) == task[u].club

\* PrismaClubs.memberOf: one row per user.
memberOf(u) == IF \E c \in ClubIds : u \in Members(c) THEN CHOOSE c \in ClubIds : u \in Members(c) ELSE None

\* PrismaClubs.listMembers: the founder first, then by time of joining.
listMembers(c) ==
    SelectSeq(roster[c], LAMBDA u : u \in founders) \o SelectSeq(roster[c], LAMBDA u : u \notin founders)

Init ==
    /\ clubs = [c \in ClubIds |-> [made |-> FALSE, open |-> TRUE, founder |-> None]]
    /\ roster = [c \in ClubIds |-> <<>>]
    /\ founders = {} /\ muted = {} /\ reports = {}
    /\ task = [u \in People |-> Idle]
    /\ joinChain = [c \in ClubIds |-> None]
    /\ posts = [c \in ClubIds |-> 0]
    /\ hears = [u \in People |-> {}]

-----------------------------------------------------------------------------
(* Founding and joining.                                                   *)

\* ClubService.create: not from another club ...
create(u, open) ==
    /\ Begins(u) /\ memberOf(u) = None
    /\ Turn(u, IF open THEN "founds" ELSE "foundsPrivate", None)
    /\ UNCHANGED <<clubs, roster, founders, joinChain, posts, muted, hears, reports>>

\* ... the club and its founder in one write, refused to a member by the key.
createClub(u, c) ==
    /\ task[u].op \in {"founds", "foundsPrivate"}
    /\ ~clubs[c].made /\ clubs[c].founder = None
    /\ Done(u)
    /\ IF memberOf(u) # None THEN UNCHANGED <<clubs, roster, founders>>
       ELSE /\ clubs' = [clubs EXCEPT ![c] = [made |-> TRUE, open |-> Does(u, "founds"), founder |-> u]]
            /\ roster' = [roster EXCEPT ![c] = <<u>>]
            /\ founders' = founders \cup {u}
    /\ UNCHANGED <<joinChain, posts, muted, hears, reports>>

\* ClubService.join, by id: an open club; joinByCode: a private one.  Either
\* waits for its turn on the club's chain.
join(u, c, code) ==
    /\ Begins(u) /\ memberOf(u) = None
    /\ clubs[c].made /\ clubs[c].open = ~code
    /\ Turn(u, "waits", c)
    /\ UNCHANGED <<clubs, roster, founders, joinChain, posts, muted, hears, reports>>

\* Mutant of serializeJoin: everybody's turn is now.
serializeJoin_none(u, c) == TRUE
\* serializeJoin: the one before has finished.
serializeJoin(u, c) == joinChain[c] \in {None, u}

\* countMembers, and a full club turns the joiner away.
countMembers(u) ==
    LET c == Club(u)
        full == Len(roster[c]) >= MaxMembers
    IN  /\ Does(u, "waits") /\ serializeJoin(u, c)
        /\ joinChain' = [joinChain EXCEPT ![c] = IF full THEN None ELSE u]
        /\ IF full THEN Done(u) ELSE Turn(u, "joins", c)
        /\ UNCHANGED <<clubs, roster, founders, posts, muted, hears, reports>>

\* addMember: refused for a member of any club, and for a club that is gone.
addMember(u) ==
    LET c == Club(u)
    IN  /\ Does(u, "joins")
        /\ roster' = IF clubs[c].made /\ memberOf(u) = None
                     THEN [roster EXCEPT ![c] = Append(@, u)] ELSE roster
        /\ joinChain' = [joinChain EXCEPT ![c] = None]
        /\ Done(u)
        /\ UNCHANGED <<clubs, founders, posts, muted, hears, reports>>

\* setPrivacy: a founder opens or closes the club; one update of the row.
setPrivacy(u, open) ==
    LET c == memberOf(u)
    IN  /\ Does(u, "idle") /\ c # None /\ u \in founders
        /\ clubs[c].open # open
        /\ clubs' = [clubs EXCEPT ![c].open = open]
        /\ UNCHANGED <<roster, founders, task, joinChain, posts, muted, hears, reports>>

-----------------------------------------------------------------------------
(* Leaving.                                                                *)

\* leave: the role is read, and the row removed.
leave(u) ==
    /\ Begins(u) /\ memberOf(u) # None
    /\ Turn(u, IF u \in founders THEN "abdicates" ELSE "leaves", memberOf(u))
    /\ UNCHANGED <<clubs, roster, founders, joinChain, posts, muted, hears, reports>>

removeMember(u) ==
    LET c == Club(u)
    IN  /\ task[u].op \in {"abdicates", "leaves"}
        /\ roster' = [roster EXCEPT ![c] = SelectSeq(@, LAMBDA v : v # u)]
        /\ founders' = founders \ {u}
        /\ Turn(u, IF Does(u, "abdicates") THEN "hands over" ELSE "looks back", c)
        /\ UNCHANGED <<clubs, joinChain, posts, muted, hears, reports>>

\* listMembers: an emptied club is deleted, and the oldest member succeeds a founder.
afterLeaving(u) ==
    LET c == Club(u)
    IN  /\ task[u].op \in {"hands over", "looks back"}
        /\ IF roster[c] = <<>> THEN Turn(u, "deletes", c) /\ UNCHANGED <<clubs, founders>>
           ELSE IF Does(u, "looks back") THEN Done(u) /\ UNCHANGED <<clubs, founders>>
           ELSE LET heir == Head(listMembers(c))
                IN  /\ founders' = founders \cup {heir}
                    /\ clubs' = [clubs EXCEPT ![c].founder = heir]
                    /\ Done(u)
        /\ UNCHANGED <<roster, joinChain, posts, muted, hears, reports>>

\* deleteClub: the rows of its members, and then the club, unless it has one again.
deleteMembers(u) ==
    LET c == Club(u)
    IN  /\ Does(u, "deletes")
        /\ roster' = [roster EXCEPT ![c] = <<>>]
        /\ founders' = founders \ Members(c)
        /\ Turn(u, "closes", c)
        /\ UNCHANGED <<clubs, joinChain, posts, muted, hears, reports>>

deleteClub(u) ==
    LET c == Club(u)
    IN  /\ Does(u, "closes")
        /\ clubs' = IF roster[c] = <<>> THEN [clubs EXCEPT ![c].made = FALSE] ELSE clubs
        /\ Done(u)
        /\ UNCHANGED <<roster, founders, joinChain, posts, muted, hears, reports>>

\* adminClose: an administrator disbands the club.
adminClose(u, c) ==
    /\ Begins(u) /\ clubs[c].made
    /\ Turn(u, "deletes", c)
    /\ UNCHANGED <<clubs, roster, founders, joinChain, posts, muted, hears, reports>>

-----------------------------------------------------------------------------
(* Chat.                                                                   *)

\* onConnection: the socket enters the channel of the user's club, and of no other.
onConnection(u) ==
    /\ hears' = [hears EXCEPT ![u] = {memberOf(u)} \ {None}]
    /\ hears' # hears
    /\ hears'[u] = {} \/ Cardinality({v \in People : hears[v] # {}}) < MaxTalk
    /\ UNCHANGED <<clubs, roster, founders, task, joinChain, posts, muted, reports>>

\* ChatService.send: the club is the sender's own, and a muted sender is dropped.
send(u) ==
    /\ Begins(u) /\ memberOf(u) # None
    /\ u \notin muted
    /\ Turn(u, "posts", memberOf(u))
    /\ UNCHANGED <<clubs, roster, founders, joinChain, posts, muted, hears, reports>>

\* onClubMessage: the message is kept and shown to the channel, which the sender enters.
post(u) ==
    LET c == Club(u)
    IN  /\ Does(u, "posts") /\ posts[c] < MaxPosts
        /\ posts' = [posts EXCEPT ![c] = @ + 1]
        /\ hears' = [hears EXCEPT ![u] = @ \cup {c}]
        /\ Done(u)
        /\ UNCHANGED <<clubs, roster, founders, joinChain, muted, reports>>

\* report: of a message of the reporter's own club.
report(u) ==
    LET c == memberOf(u)
    IN  /\ Does(u, "idle") /\ c # None
        /\ posts[c] > 0
        /\ reports' = reports \cup {c}
        /\ reports' # reports
        /\ UNCHANGED <<clubs, roster, founders, task, joinChain, posts, muted, hears>>

\* founderMute: a founder silences another member of the club ...
founderMute(u, v) ==
    LET c == memberOf(u)
    IN  /\ Does(u, "idle") /\ c # None /\ u \in founders
        /\ u # v /\ v \in Members(c) /\ Cardinality(muted) < MaxTalk
        /\ muted' = muted \cup {v}
        /\ UNCHANGED <<clubs, roster, founders, task, joinChain, posts, hears, reports>>

\* ... an administrator anybody; the mute is lifted, or runs out.
adminMute(v) ==
    /\ muted' = IF v \in muted THEN muted \ {v} ELSE muted \cup {v}
    /\ Cardinality(muted') <= MaxTalk
    /\ UNCHANGED <<clubs, roster, founders, task, joinChain, posts, hears, reports>>

\* The requests a signed-in user may send.
clubRoutes(u) ==
    \/ \E open \in BOOLEAN : create(u, open) \/ setPrivacy(u, open)
    \/ \E c \in ClubIds, code \in BOOLEAN : join(u, c, code)
    \/ leave(u) \/ report(u)
    \/ \E v \in People : founderMute(u, v)

Next ==
    \E u \in People :
      \/ clubRoutes(u)
      \/ \E c \in ClubIds : createClub(u, c) \/ adminClose(u, c)
      \/ countMembers(u) \/ addMember(u) \/ removeMember(u) \/ afterLeaving(u)
      \/ deleteMembers(u) \/ deleteClub(u)
      \/ onConnection(u) \/ send(u) \/ post(u) \/ adminMute(u)

-----------------------------------------------------------------------------
\* "so N distinct users joining a nearly-full club at once can't ... blow past
\* MAX_CLUB_MEMBERS" (ClubService.serializeJoin): a roster never outgrows the cap,
\* however joins, departures and closures overlap.
ClubsFit == \A c \in ClubIds : Len(roster[c]) <= MaxMembers

\* A member's club exists, and a club has one founder at most.
RostersAreOfClubs ==
    \A c \in ClubIds :
      /\ roster[c] # <<>> => clubs[c].made
      /\ Cardinality(founders \cap Members(c)) <= 1
=============================================================================
