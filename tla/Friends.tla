------------------------------- MODULE Friends -------------------------------
(***************************************************************************)
(* Friendships and direct messages: FriendsService and DmService           *)
(* (packages/server/src/social) over their Prisma repositories, as the     *)
(* social routes call them.  Each await of the database is a step, and a   *)
(* user has one request under way.  A row is known by its id, which no     *)
(* later row has.  The pings that make a client load its list again are left out.   *)
(***************************************************************************)
EXTENDS Integers, FiniteSets

CONSTANTS
    Users,
    MaxRows,    \* bound on the friendship rows ever created
    MaxUnread   \* bound on unread messages from one user to another

VARIABLES
    rows,       \* friendship rows: [id, from, to, status]
    lastId,     \* rows created so far
    work,       \* user -> its request under way: [op, id, other]
    decided,    \* ids of requests their addressee chose to accept (history)
    unread,     \* from -> to -> messages not yet read
    gone        \* rows deleted: [row, by, how] (history)

friendVars == <<rows, lastId, work, decided, unread, gone>>

Idle == [op |-> "idle", id |-> 0, other |-> "nobody"]
Between(u, v) == {r \in rows : {r.from, r.to} = {u, v}}
Row(i) == {r \in rows : r.id = i}
Does(u, op) == work[u].op = op
Turn(u, op, i, v) == work' = [work EXCEPT ![u] = [op |-> op, id |-> i, other |-> v]]
Done(u) == work' = [work EXCEPT ![u] = Idle]
Deleted(rs, u, how) == gone' = gone \cup {[row |-> r, by |-> u, how |-> how] : r \in rs}

\* areFriends(): findBetween returns any one row of the two.
areFriends(u, v) == \E r \in Between(u, v) : r.status = "accepted"

Init ==
    /\ rows = {} /\ lastId = 0 /\ decided = {} /\ gone = {}
    /\ work = [u \in Users |-> Idle]
    /\ unread = [u \in Users |-> [v \in Users |-> 0]]

-----------------------------------------------------------------------------
(* A request.                                                              *)

\* requestByUsername: not to oneself, and not across a block in either direction.
requestByUsername(u, v) ==
    /\ Does(u, "idle") /\ u # v
    /\ Between(u, v) = {} \/ \E r \in Between(u, v) : r.status # "blocked"
    /\ Turn(u, "asks", 0, v)
    /\ UNCHANGED <<rows, lastId, decided, unread, gone>>

\* PrismaFriends.request looks again ...
request(u) ==
    /\ Does(u, "asks")
    /\ IF Between(u, work[u].other) = {} THEN Turn(u, "creates", 0, work[u].other) ELSE Done(u)
    /\ UNCHANGED <<rows, lastId, decided, unread, gone>>

\* ... and creates; a second row of the same direction is refused by the index.
create(u) ==
    LET v == work[u].other
        taken == \E r \in rows : r.from = u /\ r.to = v
    IN  /\ Does(u, "creates") /\ (taken \/ lastId < MaxRows)
        /\ rows' = IF taken THEN rows
                   ELSE rows \cup {[id |-> lastId + 1, from |-> u, to |-> v, status |-> "pending"]}
        /\ lastId' = IF taken THEN lastId ELSE lastId + 1
        /\ Done(u)
        /\ UNCHANGED <<decided, unread, gone>>

-----------------------------------------------------------------------------
(* An answer.                                                              *)

\* PrismaFriends.respond reads the row: a pending one that is addressed to u.
respond(u, r, accept) ==
    /\ Does(u, "idle")
    /\ r.to = u /\ r.status = "pending"
    /\ Turn(u, IF accept THEN "accepts" ELSE "declines", r.id, r.from)
    /\ decided' = IF accept THEN decided \cup {r.id} ELSE decided
    /\ UNCHANGED <<rows, lastId, unread, gone>>

\* Mutant of accepted: the row of the two, whichever it is by now.
accepted_pair(u) == {r \in rows : r.from = work[u].other /\ r.to = u}
\* The row the answer is written to: the one that was read.
accepted(u) == Row(work[u].id)

\* A row that is gone makes the update fail, and the request with it.
respondWrite(u) ==
    /\ Does(u, "accepts")
    /\ rows' = (rows \ accepted(u)) \cup {[r EXCEPT !.status = "accepted"] : r \in accepted(u)}
    /\ Done(u)
    /\ UNCHANGED <<lastId, decided, unread, gone>>

\* A declined request is deleted; that it was gone already is only logged.
decline(u) ==
    /\ Does(u, "declines")
    /\ rows' = rows \ Row(work[u].id)
    /\ Deleted(Row(work[u].id), u, "answer")
    /\ Done(u)
    /\ UNCHANGED <<lastId, decided, unread>>

\* PrismaFriends.remove: either party's row, and never a block.
removable(u) == {r \in rows : u \in {r.from, r.to} /\ r.status # "blocked"}

remove(u, r) ==
    /\ Does(u, "idle") /\ r \in removable(u)
    /\ rows' = rows \ {r}
    /\ Deleted({r}, u, "remove")
    /\ UNCHANGED <<lastId, work, decided, unread>>

-----------------------------------------------------------------------------
(* Blocks.                                                                 *)

\* PrismaFriends.block drops whatever is between the two ...
block(u, v) ==
    /\ Does(u, "idle") /\ u # v
    /\ rows' = rows \ Between(u, v)
    /\ Deleted(Between(u, v), u, "block")
    /\ Turn(u, "blocks", 0, v)
    /\ UNCHANGED <<lastId, decided, unread>>

\* ... and writes the block, in a statement of its own.
blockWrite(u) ==
    LET v == work[u].other
        taken == \E r \in rows : r.from = u /\ r.to = v
    IN  /\ Does(u, "blocks") /\ (taken \/ lastId < MaxRows)
        /\ rows' = IF taken THEN rows
                   ELSE rows \cup {[id |-> lastId + 1, from |-> u, to |-> v, status |-> "blocked"]}
        /\ lastId' = IF taken THEN lastId ELSE lastId + 1
        /\ Done(u)
        /\ UNCHANGED <<decided, unread, gone>>

unblock(u, v) ==
    LET mine == {r \in rows : r.from = u /\ r.to = v /\ r.status = "blocked"}
    IN  /\ Does(u, "idle") /\ mine # {}
        /\ rows' = rows \ mine
        /\ Deleted(mine, u, "unblock")
        /\ UNCHANGED <<lastId, work, decided, unread>>

-----------------------------------------------------------------------------
(* Messages.                                                               *)

\* DmService.send: friends are asked first, and the message is added after.
send(u, v) ==
    /\ Does(u, "idle") /\ u # v
    /\ areFriends(u, v)
    /\ Turn(u, "sends", 0, v)
    /\ UNCHANGED <<rows, lastId, decided, unread, gone>>

addMessage(u) ==
    /\ Does(u, "sends") /\ unread[u][work[u].other] < MaxUnread
    /\ unread' = [unread EXCEPT ![u][work[u].other] = @ + 1]
    /\ Done(u)
    /\ UNCHANGED <<rows, lastId, decided, gone>>

\* DmService.conversation: only friends open it, and opening it reads it.
conversation(u, v) ==
    /\ Does(u, "idle") /\ u # v
    /\ areFriends(u, v)
    /\ Turn(u, "opens", 0, v)
    /\ UNCHANGED <<rows, lastId, decided, unread, gone>>

markRead(u) ==
    /\ Does(u, "opens")
    /\ unread' = [unread EXCEPT ![work[u].other][u] = 0]
    /\ Done(u)
    /\ UNCHANGED <<rows, lastId, decided, gone>>

\* The requests a signed-in user may send.
socialRoutes(u) ==
    \/ \E v \in Users : \/ requestByUsername(u, v) \/ block(u, v) \/ unblock(u, v)
                        \/ send(u, v) \/ conversation(u, v)
    \/ \E r \in rows : remove(u, r) \/ \E accept \in BOOLEAN : respond(u, r, accept)

Next ==
    \E u \in Users :
      \/ socialRoutes(u)
      \/ request(u) \/ create(u) \/ respondWrite(u) \/ decline(u)
      \/ blockWrite(u) \/ addMessage(u) \/ markRead(u)

-----------------------------------------------------------------------------
\* Friends agreed to be friends: an accepted row is the very request its addressee
\* chose to accept, however late the answer is written and whatever was withdrawn,
\* asked again or blocked in between (PrismaFriends.respond).
FriendsAgreed == \A r \in rows : r.status = "accepted" => r.id \in decided

\* "A 'blocked' edge is NEVER removable via unfriend" (prismaRepositories.ts): a block
\* goes away only when the blocker lifts it, or when a block takes its place.
BlocksAreKept ==
    \A g \in gone : g.row.status = "blocked" =>
                     g.how = "block" \/ (g.how = "unblock" /\ g.by = g.row.from)
=============================================================================
