------------------------------- MODULE Client -------------------------------
(***************************************************************************)
(* What a player's client shows (packages/client/src/store/gameStore.ts),  *)
(* driven by what the gateway emits to its socket                          *)
(* (packages/server/src/realtime/gateway.ts).  Requests and events travel  *)
(* in order; a lost connection loses what is under way, except requests    *)
(* made while offline, which are sent on the next connection.  A request   *)
(* whose answer does not come in time fails on the client, and a later     *)
(* answer is ignored.                                                      *)
(*                                                                         *)
(* Room Table holds the match, room Other is any other room.  Of a match   *)
(* the model keeps the user's own cards, the pause between two hands and   *)
(* the return of a card; the store's logs, bubbles, notices, scoreboards   *)
(* and the ranked queue are left out.                                      *)
(***************************************************************************)
EXTENDS Integers, Sequences, FiniteSets

CONSTANTS
    Cards,      \* the cards a hand is dealt from
    HandSize,
    MaxHands,   \* bound on hands of the match
    MaxDown,    \* bound on messages under way to the client, before an emission
    MaxDrops    \* bound on lost connections

VARIABLES
    \* The server.
    stage,      \* of the match: "waiting", "hand", "pause", "return", "over"
    hand,       \* gameIndex
    cards,      \* handOf the user's seat; during the pause, those of the next hand
    home,       \* userRoom of the user
    cached,     \* socket.data.roomId
    watching,   \* socket.data.spectating = Table
    chan,       \* rooms whose channel the socket is in
    \* The network.
    linked, down, up, drops,
    \* The client.
    view,       \* the store
    waits,      \* requests whose answer is awaited: [op, sel]
    \* History.
    late,       \* an answer came, or will come, too late
    removed,    \* the user was removed from the match for idling
    watched     \* the user has watched the table

server == <<stage, hand, cards, home, cached, watching, chan>>
clientVars == <<server, linked, down, up, drops, view, waits, late, removed, watched>>

NoRoom == 0
Table == 1
Other == 2
InMatch == stage \in {"hand", "pause", "return"}
Hands == {h \in SUBSET Cards : Cardinality(h) = HandSize}

-----------------------------------------------------------------------------
(* Messages to the client.                                                 *)

Msg(ev, room, cs) == [ev |-> ev, room |-> room, cards |-> cs]
roomState(r) == Msg("room:state", r, {})
gameStart(cs) == Msg("game:start", Table, cs)
gameHand(cs) == Msg("game:hand", Table, cs)
prompt == Msg("card:switch", Table, {})
switched == Msg("card:switched", Table, {})
ack(op, code) == Msg(code, op, {})

\* Personal messages reach the user, room messages the sockets in the channel.
Heard(ms) == SelectSeq(ms, LAMBDA m : m.ev \in {"game:start", "game:hand", "ok", "error", "no_room", "room:closed"}
                                       \/ m.room \in chan)
Emit(ms) ==
    /\ Len(down) <= MaxDown
    /\ down' = IF linked THEN down \o Heard(ms) ELSE down

\* Personal messages go to the user at the seat, which a removed user keeps.
Own(ms) == IF home = Table \/ removed THEN ms ELSE <<>>

-----------------------------------------------------------------------------
(* The store's handlers of messages.                                       *)

emptyRoomState(v) ==
    [v EXCEPT !.room = NoRoom, !.hand = {}, !.standings = FALSE, !.prompt = FALSE]

onGameStart(v, m) ==
    [v EXCEPT !.hand = m.cards, !.prompt = FALSE, !.standings = FALSE]
onMatchEnd(v) == [v EXCEPT !.standings = FALSE, !.prompt = FALSE]

Handle(v, m) ==
    CASE m.ev = "room:state"    -> [v EXCEPT !.room = m.room]
      [] m.ev = "room:closed"   -> IF v.room = NoRoom THEN v ELSE emptyRoomState(v)
      [] m.ev = "match:start"   -> [v EXCEPT !.room = m.room]
      [] m.ev = "game:start"    -> onGameStart(v, m)
      [] m.ev = "game:hand"     -> [v EXCEPT !.hand = m.cards]
      [] m.ev = "game:end"      -> [v EXCEPT !.standings = TRUE]
      [] m.ev = "card:switch"   -> [v EXCEPT !.standings = FALSE, !.prompt = TRUE]
      [] m.ev = "card:switched" -> [v EXCEPT !.standings = FALSE, !.prompt = FALSE]
      [] m.ev = "match:end"     -> onMatchEnd(v)
      [] m.ev = "playerLeft"    -> emptyRoomState(v)

\* The rest of a request's function, when it succeeded.
Answered(v, w) ==
    CASE w.op = "play"     -> [v EXCEPT !.hand = @ \ w.sel]
      [] w.op = "give"     -> [v EXCEPT !.prompt = FALSE]
      [] w.op = "leave"    -> emptyRoomState(v)
      [] w.op = "spectate" -> [v EXCEPT !.spectating = TRUE]
      [] OTHER             -> v

\* leaveRoom: that there is no room to leave is as good.
Succeeded(w, m) == m.ev = "ok" \/ (w.op = "leave" /\ m.ev = "no_room")

-----------------------------------------------------------------------------
Init ==
    /\ stage = "waiting" /\ hand = 0 /\ cards = {}
    /\ home = NoRoom /\ cached = NoRoom /\ watching = FALSE /\ chan = {}
    /\ linked = TRUE /\ down = <<>> /\ up = <<>> /\ drops = 0
    /\ view = [room |-> NoRoom, hand |-> {}, standings |-> FALSE, prompt |-> FALSE, spectating |-> FALSE]
    /\ waits = {} /\ late = FALSE /\ removed = FALSE /\ watched = FALSE

-----------------------------------------------------------------------------
(* The user at the client.                                                 *)

\* request: the message is sent, or kept for the next connection.
request(op, sel) ==
    /\ waits = {} /\ up = <<>>
    /\ up' = <<[op |-> op, sel |-> sel]>>
    /\ waits' = {[op |-> op, sel |-> sel]}
    /\ UNCHANGED <<server, linked, down, drops, view, late, removed, watched>>

joinRoom == view.room = NoRoom /\ \E op \in {"join", "other"} : request(op, {})
leaveRoom == view.room # NoRoom /\ request("leave", {})
spectate == view.room = NoRoom /\ request("spectate", {})
\* play: the selected cards that are in the hand.
play == \E sel \in SUBSET view.hand \ {{}} : request("play", sel)
giveSwitch == view.prompt /\ request("give", {})

\* stopSpectate does not wait for the answer.
stopSpectate ==
    /\ view.spectating /\ up = <<>>
    /\ up' = <<[op |-> "unspectate", sel |-> {}]>>
    /\ view' = [emptyRoomState(view) EXCEPT !.spectating = FALSE]
    /\ UNCHANGED <<server, linked, down, drops, waits, late, removed, watched>>

\* No answer for ACK_TIMEOUT_MS.
ackTimeout ==
    /\ waits # {}
    /\ waits' = {} /\ late' = TRUE
    /\ UNCHANGED <<server, linked, down, up, drops, view, removed, watched>>

\* The next message: an event, or the answer to a request still waited for.
receive ==
    LET m == Head(down)
    IN  /\ linked /\ down # <<>>
        /\ down' = Tail(down)
        /\ IF m.ev \notin {"ok", "error", "no_room"}
             THEN view' = Handle(view, m) /\ UNCHANGED waits
             ELSE LET w == {x \in waits : x.op = m.room}
                  IN  /\ waits' = waits \ w
                      /\ view' = IF \E x \in w : Succeeded(x, m)
                                 THEN Answered(view, CHOOSE x \in w : TRUE) ELSE view
        /\ UNCHANGED <<server, linked, up, drops, late, removed, watched>>

-----------------------------------------------------------------------------
(* The gateway: requests.                                                  *)

Unchanged == UNCHANGED <<linked, drops, view, waits, late>>
Asked(op) == linked /\ up # <<>> /\ Head(up).op = op /\ up' = Tail(up)
Refuse(op, code) == Emit(<<ack(op, code)>>) /\ UNCHANGED <<server, removed, watched>>

Joins(op, r) ==
    /\ Asked(op)
    /\ IF home = NoRoom /\ (r = Other \/ (stage = "waiting" /\ ~removed))
         THEN /\ home' = r /\ cached' = r /\ chan' = chan \cup {r}
              /\ Len(down) <= MaxDown /\ down' = down \o <<ack(op, "ok"), roomState(r)>>
              /\ UNCHANGED <<stage, hand, cards, watching, removed, watched>>
         ELSE Refuse(op, "error")
    /\ Unchanged

\* onLeave: the socket leaves the channel first; a match goes on without the user.
onLeave ==
    /\ Asked("leave")
    /\ IF cached = NoRoom THEN Refuse("leave", "no_room")
       ELSE /\ cached' = NoRoom /\ chan' = chan \ {cached} /\ home' = NoRoom
            /\ Emit(<<ack("leave", "ok")>>)
            /\ UNCHANGED <<stage, hand, cards, watching, removed, watched>>
    /\ Unchanged

onSpectate ==
    /\ Asked("spectate")
    /\ IF stage = "over" \/ cached # NoRoom \/ home = Table \/ removed THEN Refuse("spectate", "error")
       ELSE /\ watching' = TRUE /\ watched' = TRUE /\ chan' = chan \cup {Table}
            /\ Len(down) <= MaxDown /\ down' = down \o <<ack("spectate", "ok"), roomState(Table)>>
            /\ UNCHANGED <<stage, hand, cards, home, cached, removed>>
    /\ Unchanged

\* removeSpectator leaves the channel, whatever else the socket is in it for.
onUnspectate ==
    /\ Asked("unspectate")
    /\ watching' = FALSE
    /\ chan' = IF watching THEN chan \ {Table} ELSE chan
    /\ UNCHANGED <<stage, hand, cards, home, cached, down, removed, watched>>
    /\ Unchanged

\* The end of a hand: the next is dealt and held back.
HandEnds(before, after) ==
    /\ hand < MaxHands
    /\ stage' = "pause" /\ hand' = hand + 1 /\ cards' \in Hands
    /\ Emit(before \o <<Msg("game:end", Table, {}), roomState(Table)>> \o after)

\* onPlay: the answer, then applyResult; the last card may end the hand.
onPlay ==
    LET sel == Head(up).sel
    IN  /\ Asked("play")
        /\ \/ Refuse("play", "error")
           \/ /\ home = Table /\ stage = "hand" /\ sel \subseteq cards
              /\ \/ /\ cards' = cards \ sel
                    /\ Emit(<<ack("play", "ok"), roomState(Table)>>)
                    /\ UNCHANGED <<stage, hand>>
                 \/ sel = cards /\ HandEnds(<<ack("play", "ok")>>, <<>>)
              /\ UNCHANGED <<home, cached, watching, chan, removed, watched>>
        /\ Unchanged

\* startNewGameBroadcast, after a card was returned.
Returned(before) ==
    /\ stage = "return"
    /\ stage' = "hand" /\ cards' \in Hands
    /\ Emit(before \o <<switched, gameStart(cards'), roomState(Table)>>)
    /\ UNCHANGED <<hand, home, cached, watching, chan, removed, watched>>

onSwitchGive ==
    /\ Asked("give")
    /\ IF home = Table /\ stage = "return" THEN Returned(<<ack("give", "ok")>>) ELSE Refuse("give", "error")
    /\ Unchanged

-----------------------------------------------------------------------------
(* The gateway: the match, with the user or without.                       *)

Elsewhere == UNCHANGED <<home, cached, watching, chan, removed, watched, up>> /\ Unchanged

\* beginMatch, with the user seated or only watching.
beginMatch ==
    /\ stage = "waiting" /\ Table \in chan
    /\ stage' = "hand" /\ cards' \in Hands
    /\ Emit(<<Msg("match:start", Table, {})>> \o Own(<<gameStart(cards')>>) \o <<roomState(Table)>>)
    /\ UNCHANGED hand /\ Elsewhere

\* Somebody else moves; everybody hears of it.
othersMove ==
    /\ InMatch /\ Table \in chan /\ linked
    /\ Emit(<<roomState(Table)>>)
    /\ UNCHANGED <<stage, hand, cards>> /\ Elsewhere

othersEndHand == stage = "hand" /\ HandEnds(<<>>, <<>>) /\ Elsewhere

\* armInterHandGate's release: the next hand, or the user owes a card first.
release ==
    /\ stage = "pause"
    /\ \/ stage' = "hand" /\ Emit(Own(<<gameStart(cards)>>))
       \/ home = Table /\ stage' = "return" /\ Emit(<<gameHand(cards), prompt>>)
    /\ UNCHANGED <<hand, cards>> /\ Elsewhere

onSwitchTimeout == home = Table /\ Returned(<<>>) /\ UNCHANGED up /\ Unchanged

\* Mutant of pushHand: the client is left to remove the card itself.
pushHand_none(cs) == <<>>
\* pushHand: the hand as the server has it.
pushHand(cs) == <<gameHand(cs)>>

\* onTurnTimeout leads for the user and shows the hand that is left, which is the
\* next hand when the lead ended this one.
onTurnTimeout ==
    /\ home = Table /\ stage = "hand"
    /\ \E c \in cards :
         \/ /\ cards' = cards \ {c}
            /\ Emit(<<roomState(Table)>> \o pushHand(cards'))
            /\ UNCHANGED <<stage, hand>>
         \/ /\ cards = {c} /\ HandEnds(<<>>, pushHand(cards'))
    /\ Elsewhere

\* forfeitMatch for idling: the socket stays in the channel.
forfeitMatch ==
    /\ home = Table /\ stage \in {"hand", "return"}
    /\ home' = NoRoom /\ removed' = TRUE
    /\ stage' = "hand"
    /\ Emit(<<Msg("playerLeft", Table, {}), roomState(Table)>>)
    /\ UNCHANGED <<hand, cards, cached, watching, chan, watched, up>> /\ Unchanged

\* The match is settled, and the seats of those who left are freed.
settleAndEmitMatchEnd ==
    /\ stage = "hand"
    /\ stage' = "over"
    /\ Emit(<<Msg("game:end", Table, {}), roomState(Table), Msg("match:end", Table, {})>>)
    /\ UNCHANGED <<hand, cards>> /\ Elsewhere

-----------------------------------------------------------------------------
(* The connection.                                                         *)

\* onDisconnect: the seat is kept during a match and given up before or after it.
onDisconnect ==
    /\ linked /\ drops < MaxDrops
    /\ linked' = FALSE /\ drops' = drops + 1
    /\ down' = <<>> /\ up' = <<>>
    /\ home' = IF home = Table /\ InMatch THEN home ELSE NoRoom
    /\ cached' = NoRoom /\ watching' = FALSE /\ chan' = {}
    /\ UNCHANGED <<stage, hand, cards, view, waits, late, removed, watched>>

\* onAbandon: the grace ran out.
onAbandon ==
    /\ ~linked /\ home = Table
    /\ home' = NoRoom
    /\ UNCHANGED <<stage, hand, cards, cached, watching, chan, linked, down, up, drops, view, waits, late, removed, watched>>

\* Mutant of pushFullStateTo: during the return only the hand is sent.
pushFullStateTo_noPrompt ==
    <<roomState(Table)>> \o
    (IF stage = "hand" THEN <<gameStart(cards)>> ELSE IF stage = "return" THEN <<gameHand(cards)>> ELSE <<>>)
\* pushFullStateTo: the hand, unless it is held back; the prompt, while a card is owed.
pushFullStateTo ==
    <<roomState(Table)>> \o
    (IF stage = "hand" THEN <<gameStart(cards)>>
     ELSE IF stage = "return" THEN <<gameHand(cards), prompt>> ELSE <<>>)

onConnection ==
    /\ ~linked
    /\ linked' = TRUE
    /\ IF home = Table
         THEN cached' = Table /\ chan' = {Table} /\ down' = pushFullStateTo
         ELSE down' = <<Msg("room:closed", NoRoom, {})>> /\ UNCHANGED <<cached, chan>>
    /\ late' = (late /\ up # <<>>)
    /\ UNCHANGED <<stage, hand, cards, home, watching, up, drops, view, waits, removed, watched>>

-----------------------------------------------------------------------------
Next ==
    \/ joinRoom \/ leaveRoom \/ spectate \/ stopSpectate \/ play \/ giveSwitch \/ ackTimeout \/ receive
    \/ Joins("join", Table) \/ Joins("other", Other) \/ onLeave \/ onSpectate \/ onUnspectate
    \/ onPlay \/ onSwitchGive
    \/ beginMatch \/ othersMove \/ othersEndHand \/ release \/ onSwitchTimeout \/ onTurnTimeout
    \/ forfeitMatch \/ settleAndEmitMatchEnd
    \/ onDisconnect \/ onAbandon \/ onConnection

Spec == Init /\ [][Next]_clientVars

-----------------------------------------------------------------------------
\* Nothing is under way, and every request was answered in time.
AtRest == linked /\ down = <<>> /\ up = <<>> /\ waits = {} /\ ~late

\* Whatever was lost, timed out or played for the user, a client at rest shows the
\* table the user sits at and the cards the server has for the seat, and asks for a
\* card when one is owed.  A user who was removed or watched is not covered.
ShowsTheTable ==
    AtRest /\ ~removed /\ ~watched =>
      /\ view.room = home
      /\ home = Table /\ stage \in {"hand", "return"} =>
           view.hand = cards /\ view.prompt = (stage = "return")

\* "EJECT me to the lobby" (gameStore.ts, match:playerLeft): a user removed for
\* idling is not shown the table any more.
EjectedIsOut == AtRest /\ removed /\ home = NoRoom => view.room # Table
=============================================================================
