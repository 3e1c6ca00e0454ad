------------------------------ MODULE LiveMatch ------------------------------
(***************************************************************************)
(* What keeps one live match of three players moving: the gateway's turn   *)
(* timer, bot timer and watchdog, the decisions asked of the worker pool,  *)
(* the pause between two hands, the reconnection grace and the idle        *)
(* strikes (packages/server/src/realtime/gateway.ts, timerOrchestrator.ts, *)
(* botDriver.ts).  Node runs one handler at a time; a timer that is armed  *)
(* may fire at any moment, and fires once.                                 *)
(*                                                                         *)
(* Of the match itself (modules Match and SingleGame) only who owes the    *)
(* next action is kept: after a move any other present player may be on    *)
(* turn, or the hand is over and the match ends or deals the next hand.    *)
(* A table is all human, or one human with bots.                           *)
(***************************************************************************)
EXTENDS Integers, FiniteSets

CONSTANTS
    BotSeats,   \* the sets of seats that bots may have
    Strikes,    \* IDLE_FORFEIT_STRIKES
    MaxHands,   \* bound on hands after the first
    MaxAsks     \* bound on decisions under way in the pool

VARIABLES
    bots,       \* the seats of bots
    stage,      \* "play", "return" (the winner owes a card), "over"; "closed": nobody there
    owes,       \* the seat whose turn it is, or that owes the card
    handNo,     \* gameIndex
    left,       \* seats gone from the match
    clocks,     \* the room's turn timer, bot-move timer and inter-hand gate
    asked,      \* decisions under way: [id, seat, hand, fresh]
    socks,      \* seat -> sockets of the player
    abandon,    \* seats whose grace is running
    strikes,    \* idleStrikes
    moved       \* flips whenever the match moves on (history)

play == <<stage, owes, handNo, moved>>
liveVars == <<bots, play, left, clocks, asked, socks, abandon, strikes>>

Seats == 0 .. 2
NoSeat == 3
NoTimer == [calls |-> "nothing", seat |-> NoSeat]
NoGate == [up |-> FALSE, ready |-> {}]
NewGate == [up |-> TRUE, ready |-> {}]
NoClocks == [turn |-> NoTimer, bot |-> NoSeat, gate |-> NoGate]

InMatch == stage \in {"play", "return"}
Humans == Seats \ bots
Present == Seats \ left

-----------------------------------------------------------------------------
(* Timers.                                                                 *)

\* The timer for the seat that owes an action.
TimerFor(st, s) ==
    [calls |-> IF s \in bots THEN "onBotWatchdog"
               ELSE IF st = "return" THEN "onSwitchTimeout" ELSE "onTurnTimeout",
     seat |-> s]

\* armTurnTimer: the timer is replaced; a bot's move is scheduled too.
armTurnTimer(c, st, s) ==
    [c EXCEPT !.turn = TimerFor(st, s), !.bot = IF s \in bots THEN s ELSE @]

\* release(): the held hand is dealt, or its winner asked for the card.
release(c) == armTurnTimer([c EXCEPT !.gate = NoGate], stage, owes)

\* Mutant of Settled: after a move of a bot the timer is not armed anew.
Settled_noRearm(c, handEnded) ==
    IF stage' = "over" THEN NoClocks
    ELSE IF handEnded THEN [c EXCEPT !.gate = NewGate]
    ELSE IF owes \in bots THEN c
    ELSE armTurnTimer(c, stage', owes')

\* The end of applyResult: a match that is over needs no timer; a hand that is
\* over raises the gate, and leaves the timer of its last turn; otherwise the
\* timer is armed for whoever is next.
Settled(c, handEnded) ==
    IF stage' = "over" THEN NoClocks
    ELSE IF handEnded THEN [c EXCEPT !.gate = NewGate]
    ELSE armTurnTimer(c, stage', owes')

\* applyResult, from the clocks c, with the decisions asks and the graces
\* running; decisions under way were asked for an earlier turn now.
applyResult(c, handEnded, asks, grace) ==
    /\ clocks' = Settled(c, handEnded)
    /\ asked' = {[a EXCEPT !.fresh = FALSE] : a \in asks}
    /\ abandon' = IF stage' = "over" THEN {} ELSE grace
    /\ moved' = ~moved

Init ==
    /\ bots \in BotSeats
    /\ stage = "play" /\ owes \in Seats /\ handNo = 0 /\ moved = FALSE
    /\ left = {}
    /\ clocks = armTurnTimer(NoClocks, "play", owes)
    /\ asked = {}
    /\ socks = [s \in Seats |-> IF s \in bots THEN 0 ELSE 1]
    /\ abandon = {}
    /\ strikes = [s \in Seats |-> 0]

-----------------------------------------------------------------------------
(* Moves.                                                                  *)

\* The hand is over: the match ends, or the next hand is dealt.  With all
\* three present the winner or the loser of the hand leads, or the winner owes a
\* card first, and whoever moved last came second.  The last place of a player
\* who left leaves no card to owe: the winner leads.
HandEnds(present, lead) ==
    \/ stage' = "over" /\ UNCHANGED <<owes, handNo>>
    \/ /\ handNo < MaxHands /\ handNo' = handNo + 1
       /\ stage' \in IF present = Seats THEN {"play", "return"} ELSE {"play"}
       /\ owes' \in lead

\* The seat that owes an action takes it.
Moves(c, asks) ==
    \/ /\ stage' = "play" /\ owes' \in Present \ {owes} /\ UNCHANGED handNo
       /\ applyResult(c, FALSE, asks, abandon)
    \/ /\ stage = "play" /\ HandEnds(Present, IF Present = Seats THEN Present \ {owes} ELSE {owes})
       /\ applyResult(c, TRUE, asks, abandon)

\* onPlay, onPass, onSwitchGive of the player whose action is owed: a real move
\* forgets the strikes.
afterAction(s) ==
    /\ InMatch /\ s = owes /\ s \in Humans /\ socks[s] > 0
    /\ Moves(clocks, asked)
    /\ strikes' = [strikes EXCEPT ![s] = 0]
    /\ UNCHANGED <<bots, left, socks>>

\* The engine takes the seat out: too few are left; or the hand goes on without
\* it, or ends by it; the card it owed is not awaited.
forfeitSeat(s, c) ==
    LET present == Present \ {s}
        goesOn == applyResult(c, FALSE, asked, abandon \ {s})
    IN  /\ left' = left \cup {s}
        /\ IF Cardinality(present) <= 1
             THEN stage' = "over" /\ UNCHANGED <<owes, handNo>> /\ goesOn
             ELSE \/ owes = s /\ stage' = "play" /\ owes' \in present /\ UNCHANGED handNo /\ goesOn
                  \/ owes # s /\ UNCHANGED <<stage, owes, handNo>> /\ goesOn
                  \/ /\ stage = "play" /\ HandEnds(present, present)
                     /\ applyResult(c, TRUE, asked, abandon \ {s})

\* Mutant of Opened: the gate is dropped, and the deal it held with it.
Opened_dropped(c) == [c EXCEPT !.gate = NoGate, !.turn = NoTimer]

\* forfeitMatch opens the gate before the seat leaves.
Opened(c) == IF c.gate.up THEN release(c) ELSE c

forfeitMatch(s, c) ==
    /\ forfeitSeat(s, Opened(c))
    /\ strikes' = [strikes EXCEPT ![s] = 0]

-----------------------------------------------------------------------------
(* The turn timer fires.                                                   *)

Fired == [clocks EXCEPT !.turn = NoTimer]
\* The handler finds nothing to do.
Ignored == clocks' = Fired /\ UNCHANGED <<play, left, asked, abandon, strikes>>

\* onTurnTimeout, onSwitchTimeout: a strike, and the seat's action is taken for
\* it (a pass, a forced lead, its weakest card), or it is out.
missed(s) ==
    IF strikes[s] + 1 >= Strikes THEN forfeitMatch(s, Fired)
    ELSE /\ strikes' = [strikes EXCEPT ![s] = @ + 1]
         /\ Moves(Fired, asked) /\ UNCHANGED left

onTurnTimeout(s) ==
    /\ clocks.turn = [calls |-> "onTurnTimeout", seat |-> s]
    /\ IF stage = "play" /\ owes = s THEN missed(s) ELSE Ignored
    /\ UNCHANGED <<bots, socks>>

onSwitchTimeout(s) ==
    /\ clocks.turn = [calls |-> "onSwitchTimeout", seat |-> s]
    /\ IF stage = "return" /\ owes = s THEN missed(s) ELSE Ignored
    /\ UNCHANGED <<bots, socks>>

-----------------------------------------------------------------------------
(* Bots.                                                                   *)

\* A decision asked of the worker pool.
Asks(s) ==
    \E id \in 1 .. MaxAsks :
      /\ \A a \in asked : a.id # id
      /\ asked' = asked \cup {[id |-> id, seat |-> s, hand |-> handNo, fresh |-> TRUE]}

\* driveBot, from the clocks c: the card owed is returned at once; a move is
\* asked of the pool, or decided here when there is none.
driveBot(s, c) ==
    IF ~(InMatch /\ owes = s)
      THEN clocks' = c /\ UNCHANGED <<play, left, asked, abandon, strikes>>
      ELSE \/ Moves(c, asked) /\ UNCHANGED <<left, strikes>>
           \/ stage = "play" /\ Asks(s) /\ clocks' = c /\ UNCHANGED <<play, left, abandon, strikes>>

botMoves(s) ==
    /\ clocks.bot = s
    /\ driveBot(s, [clocks EXCEPT !.bot = NoSeat])
    /\ UNCHANGED <<bots, socks>>

\* onBotWatchdog: the bot is driven once more; while a decision is under way
\* nothing is forced.
onBotWatchdog(s) ==
    /\ clocks.turn = [calls |-> "onBotWatchdog", seat |-> s]
    /\ driveBot(s, Fired)
    /\ UNCHANGED <<bots, socks>>

\* The pool answers, or fails and the move is decided here.  It is applied if the
\* seat is on turn in the same hand; one made for an earlier turn may be refused.
applyDecidedBotMove(a) ==
    /\ \/ stage = "play" /\ owes = a.seat /\ handNo = a.hand /\ Moves(clocks, asked \ {a})
       \/ /\ ~(stage = "play" /\ owes = a.seat /\ handNo = a.hand /\ a.fresh)
          /\ asked' = asked \ {a} /\ UNCHANGED <<play, clocks, abandon>>
    /\ UNCHANGED <<bots, left, socks, strikes>>

-----------------------------------------------------------------------------
(* The pause between hands.                                                *)

\* allHumansReady waits for those connected, human, and still at the table.
Awaited == {s \in Humans \cap Present : socks[s] > 0}

onHandContinue(s) ==
    /\ InMatch /\ clocks.gate.up
    /\ s \in Awaited \ clocks.gate.ready
    /\ clocks' = IF Awaited \subseteq clocks.gate.ready \cup {s} THEN release(clocks)
                 ELSE [clocks EXCEPT !.gate.ready = @ \cup {s}]
    /\ UNCHANGED <<bots, play, left, asked, socks, abandon, strikes>>

\* The pause is over; in a room that is gone nothing happens.
armInterHandGate ==
    /\ clocks.gate.up
    /\ clocks' = IF InMatch THEN release(clocks) ELSE [clocks EXCEPT !.gate = NoGate]
    /\ UNCHANGED <<bots, play, left, asked, socks, abandon, strikes>>

-----------------------------------------------------------------------------
(* Connections.                                                            *)

\* teardownBotRoom: the bots leave.  The room is deleted, or stays behind with the
\* seat of a player who left it during the match.
teardownBotRoom == stage' = "closed" /\ moved' = ~moved /\ UNCHANGED <<owes, handNo>>

\* The last socket is gone: the seat is kept for a while, a table of bots is not.
onDisconnect(s) ==
    /\ InMatch /\ s \in Humans \cap Present /\ socks[s] > 0
    /\ socks' = [socks EXCEPT ![s] = 0]
    /\ IF bots = {}
         THEN abandon' = abandon \cup {s} /\ UNCHANGED <<play, clocks>>
         ELSE teardownBotRoom /\ clocks' = [clocks EXCEPT !.bot = NoSeat] /\ UNCHANGED abandon
    /\ UNCHANGED <<bots, left, asked, strikes>>

\* Mutant of onConnection: the grace of a player who is back runs on.
onConnection_graceRuns(s) ==
    /\ InMatch /\ s \in Humans \cap Present /\ socks[s] = 0
    /\ socks' = [socks EXCEPT ![s] = 1]
    /\ UNCHANGED <<bots, play, left, clocks, asked, abandon, strikes>>

\* The player is back in time.
onConnection(s) ==
    /\ InMatch /\ s \in Humans \cap Present /\ socks[s] = 0
    /\ socks' = [socks EXCEPT ![s] = 1]
    /\ abandon' = abandon \ {s}
    /\ UNCHANGED <<bots, play, left, clocks, asked, strikes>>

\* The grace is over.
onAbandon(s) ==
    /\ s \in abandon
    /\ forfeitMatch(s, clocks)
    /\ UNCHANGED <<bots, socks>>

\* The player leaves and the match goes on, unless the others are bots: then the
\* forfeit's turn timer, if it set one, is all that is left.
onLeave(s) ==
    /\ InMatch /\ s \in Humans \cap Present /\ socks[s] > 0
    /\ IF bots = {} THEN forfeitMatch(s, clocks)
       ELSE /\ left' = left \cup {s}
            /\ teardownBotRoom
            /\ clocks' \in {NoClocks} \cup {[NoClocks EXCEPT !.turn = TimerFor("play", b)] : b \in bots}
            /\ UNCHANGED <<asked, abandon, strikes>>
    /\ UNCHANGED <<bots, socks>>

-----------------------------------------------------------------------------
Timeout == \E s \in Seats : onTurnTimeout(s) \/ onSwitchTimeout(s) \/ onBotWatchdog(s)
BotMove == \E s \in Seats : botMoves(s)
Decision == \E a \in asked : applyDecidedBotMove(a)

Next ==
    \/ Timeout \/ BotMove \/ Decision \/ armInterHandGate
    \/ \E s \in Seats : \/ afterAction(s) \/ onHandContinue(s) \/ onDisconnect(s)
                        \/ onConnection(s) \/ onAbandon(s) \/ onLeave(s)

\* Node fires timers that are due; the pool answers, fails or runs into its timeout.
Fairness ==
    /\ WF_liveVars(Timeout) /\ WF_liveVars(BotMove)
    /\ WF_liveVars(Decision) /\ WF_liveVars(armInterHandGate)

-----------------------------------------------------------------------------
\* "a match can NEVER hang" (gateway.ts armTurnTimer): whoever owes an action,
\* outside the pause, is waited for by the timer that takes it for them, or by a
\* decision asked for this very turn.
TurnIsWatched ==
    InMatch /\ ~clocks.gate.up =>
      \/ clocks.turn = TimerFor(stage, owes)
      \/ \E a \in asked : a.seat = owes /\ a.hand = handNo /\ a.fresh

\* A seat without a connection is on its grace, and no other: nobody holds a
\* table by staying away, and nobody who is back is put out by an old grace.
OfflineIsTimed ==
    InMatch /\ bots = {} => abandon = {s \in Present : socks[s] = 0}

\* The match moves on, whatever its players do or leave undone.
MatchMovesOn ==
    \A b \in BOOLEAN : InMatch /\ moved = b ~> ~InMatch \/ moved # b
=============================================================================
