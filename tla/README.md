# A TLA+ model of the Murlan server and client

Murlan is a four-suit shedding card game played for stakes. The repository is
a TypeScript monorepo: a rules engine (`packages/engine`), shared types
(`packages/shared`), the authoritative game server (`packages/server`) and a
browser client (`packages/client`). This directory models the part in which a
mistake costs somebody a game, money, or the truth about either.

1. [The system](#1-the-system) - inventory
2. [The modules](#2-the-modules) - what models what
3. [Runs](#3-runs) - what TLC checks, with which bounds and fairness
4. [Proofs](#4-proofs) - what TLAPS proves, from what, and how
5. [Where code and text disagree](#5-where-code-and-text-disagree)
6. [What is not modelled](#6-what-is-not-modelled)
7. [Plan](#7-plan)

`tlc -config X.cfg M` runs a model; `tlapm M.tla` checks the proofs of a
module. `PROJECT.json` maps every definition to the lines it models, and lists
the runs, the hazards with the properties aimed at them, the theorems, and for
each property a mutation of the model that breaks it. The mutants are definitions
named `<original>_<what goes wrong>` next to the original; nothing else uses them.

## 1. The system

Paths are relative to `packages/server/src` unless they say otherwise.

| Component | State | Operations | What makes it correct |
|---|---|---|---|
| rules engine `engine/src/engine.ts` | none | `identifyCombo`, `beats`, `validatePlay` | runs neither wrap nor skip; what covers is stronger than what it covers, so tricks are finite |
| single game `game/singleGame.ts` | hands, who holds cards, passes, pile and owner, turn, places, who left | `play`, `pass`, `forfeitSeat` | the turn is with somebody who owes an answer; nobody is skipped; everybody gets one place, quitters last |
| match `match/match.ts`, `scoring.ts` | points, target, current game, gone seats, pending switch | `play`, `pass`, `switchGive`, `forfeit` | goes on just as long as it is undecided; departures never pay; the switch loses and doubles no card |
| bots `bot/` | worker threads, queue | `decide`, the search and its rollouts | a bot's move is legal; a decision asked for is answered or refused |
| money `money/moneyService.ts`, `settlement.ts` | match rows (database), `inFlight` (memory) | `escrow`, `settle`, `refund`, `recoverOrphanedMatches` | every pot is taken whole and paid out once, one way, exactly |
| wallet `money/walletService.ts`, `ledger.ts` | balances, ledger rows with unique references | `credit`, `debit`, `transfer`, `recordRake` | balance = sum of ledger rows; a reference counts once; caps hold under overlap |
| rooms `room/roomManager.ts` | seats, ready flags, teams, spectators, status, match id | open, join, leave, ready, start, forfeit, clear | a user sits once; the rooms and the table of who sits where agree; who is seated plays |
| gateway `realtime/gateway.ts`, `timerOrchestrator.ts` | countdowns, turn timers, graces, strikes, finalised matches | `tryBeginMatch`, `applyResult`, `settleAndEmitMatchEnd`, `forfeitMatch`, `adminVoidMatch`, `onTurnTimeout` | nobody plays uncharged; a live match keeps its pot; a won match is paid; nobody can hold up a table |
| recovery `app.ts` | timers | boot refund, periodic sweeps | no pot stays taken for ever |
| withdrawals `money/withdrawals.ts`, `autoPayout.ts` | withdrawal rows | request, claim, send, refund, reverse, reconcile | sent or credited back, never both; automatic payouts under their caps |
| deposits `http/walletRoutes.ts`, `money/depositPoller.ts` | deposit addresses, intents | by transaction id, by poller, by webhook | credited once, whichever way; daily limit holds |
| tournaments `tournament/`, club wars `social/clubWar*.ts` | brackets, entries, pools | register, report, confirm, pay, cancel, sweep | the pool is paid or refunded, once |
| matchmaking `realtime/matchmaking.ts` | queue | enqueue, remove, form a group | nobody waits for ever |
| provable fairness `fair/`, `realtime/fairnessCoordinator.ts` | seeds, commitments | commit, contribute, deal, reveal | the deal follows a commitment made before the players chose; a seed serves one match |
| accounts `auth/` | user rows, refresh tokens | register, login, refresh, reset, state changes | an ended session stays ended; one live token per family |
| compliance `compliance/` | exclusions, limits, identity, pairs seen | gate, self-exclude, verify, analyse | vows and limits hold; a pair that meets too often is flagged |
| ranked, rewards `ranked/`, `rewards/` | ratings, seasons, claims, quests, streaks | record, open season, claim, buy | rated once; one champion; granted once, in its own period |
| social, chat, support `social/`, `chat/`, `support/` | friendships, blocks, clubs, tickets | request, accept, block, join, answer | what both agreed; blocks kept; rosters fit; one prompt, one answer, and the player is told it |
| administration `http/adminRoutes.ts`, `telegram/adminBot.ts` | roles, adjustments, staged actions | adjust, approve, confirm, suspend | ceilings and powers hold; decided once; who is blocked is dropped |
| client `client/src/` | store, session, history, pages | events, requests, Back, presses and loads | the screen shows the server's table; a blip logs nobody out; no flag stays up |
| configuration, shared types | - | - | not modelled, see section 6 |

**How they interact.** A socket event reaches the gateway, which asks the room
manager, which owns a `Match`, which owns a `SingleGame`, which calls the engine;
all of that is synchronous. The gateway awaits only for the database: the
account gates and the escrow when a match starts, the settlement or the refund
when it ends, ratings, and the sweep, which runs on a timer of its own and learns
which matches are live through `rooms.activeMatchIds()`. HTTP routes call the
services directly; each of their awaits lets other requests in. The server is a single
process (RUNBOOK.md, docs/MULTI_INSTANCE.md); everything but the database is lost
when it dies. The client hears of the table by events and of the rest by requests
whose answers may be late, lost or overtaken.

**What is hard.** Within a game: departures at any moment, several in one trick,
of players who hold cards and of players who have finished. Between games: the
same during the card switch. Around a match: everything the table does while
`tryBeginMatch` or a finalisation awaits. In the services: reads before a
transaction, failing transactions, a crash between any two steps, a sweep
meeting a call in progress, two requests of one user. At the edges: a payment
provider that answers late or wrongly, redelivered updates, an answer that overtakes
another. The hazards in `PROJECT.json` name each at its line.

## 2. The modules

```
Engine <-- Trick                     Places <-- GameOutcome (abstract)
  ^  ^                                ^   ^          ^ refines
  |  '------------ SingleGame --------'---|----------'
  |                    ^                  |
  |                 BotBrain              |
  '--------------- Match -----------------'

MoneyService (a call from the inside)     Table (calls from the outside)

MCSingleGame, MCWithdrawals  instances of one component
MCRealtime  Trick, Match (teams), LiveMatch, Matchmaking, BotPool
MCPools     WalletRoutes, Tournament, ClubWar
MCPeople    Accounts, Rewards, AdminPanel, Fairness, Compliance, Support, AdminBot
MCSociety   Friends, Clubs, Ladder, Quests, Lobby
MCClients   Client, Pages, BackButton, ClientSession

GameLemmas  lemmas on the operators of Engine and Places
SingleGameProofs  MatchProofs  MoneyProofs  TableProofs   of one component each
FundsProofs       of Withdrawals and MCPools
PeopleProofs      of MCPeople            (MCRealtime holds its own)
```

The five modules from MCRealtime to MCClients each put components that share no state behind one variable
`running`: a behaviour is a behaviour of the component `running` names, the
others stay in one initial state. A property of such a run is the conjunction of the
components' properties, each defined in its own module. `MCRealtime`, `MCPools` and
`MCPeople` keep the constants of their components, so that theorems can be stated of them;
the values of an instance that a configuration cannot spell stand at the end of its module,
as they do in `Match` and `MoneyService`.

**The game.**

* **Engine** - cards, both orders (`POWER`, `SEQ`), `identifyCombo`, `beats`,
  `validatePlay`. A card is a record of rank and suit, a hand or a play a set
  of cards. The run search over Ace placements (`straightTop`) is the choice of
  a value in {1, 14} for each Ace.
* **Trick** - the game's use of the engine in isolation: a trick is led and
  answered with any cards of a deck. `RunsAreConsecutive` compares `straightTop`
  with a definition that does not try Aces.
* **Places** - the places of a game as pure operators: `Emptied`, `Left`,
  `FinalOrder` (= `endGame`). What they return is in `GameLemmas`.
* **GameOutcome** - the abstract specification: what a game promises to the
  match. Its state is who holds cards, the places taken, who left and whether
  it is over; its steps are "a seat empties its hand" and "a player leaves".
* **SingleGame** - `play`, `pass` and `forfeitSeat` with `afterAction`,
  `resolveTrick` and `endGame` inside them, and the gateway's `onTurnTimeout`
  (a responder passes, a leader plays `forcedLead`). One action is one call.
  Rejected calls change nothing and are the false guards. `KeepsPromise` says
  that it implements `GameOutcome`.
* **BotBrain** - the plays a bot enumerates, its rules per tier and team, and the
  rollouts of its search, which follow rules of their own. Random choices are any choice.
* **Match** - games in sequence on top of `Places`, so on exactly what
  `SingleGame` implements: a game in progress is its outcome so far, and a play
  that empties no hand is invisible. Scoring, target and its extension, the
  switch with its exemptions, `forfeit` in every state of the match.
* **LiveMatch** - the timers that keep a match moving: turn timer, bot timer and
  watchdog, pool decisions, pause between hands, reconnection grace, idle strikes.
* **BotPool** - the worker threads: timeouts, late answers, deaths, respawns.

**Tables and queues.**

* **Table** - one plain staked room: seats, ready flags, the countdown,
  `tryBeginMatch` with `beginMatch`'s error handler, the end of a match by play,
  departure or administrator, the finalisation, the periodic sweep, a crash.
  Three kinds of task (start, finalisation, sweep) take a step where the code
  continues after an await. A call of the money service is its effect on the
  row, at one step between the call and its return: `MoneyService` shows why
  that is sound with one process. `won`, `overlap` and `lateSwept` are history
  variables: only properties read them.
* **Lobby** - every room, and the sockets (tabs) that open, join, leave, watch and
  invite; teams, bots, rematches.
* **Matchmaking** - the ranked queue and its bot fallback.
* **Tournament**, **ClubWar** - pools, brackets, refunds player by player, sweeps.

**Money.**

* **MoneyService** - the wallet, the ledger, and `escrow` / `settle` / `refund`
  / `recoverOrphanedMatches`, each split where the code awaits: claim the id in
  `inFlight`, read the row, commit one transaction or have it fail. The ledger
  is kept as what the code's audits read of it: sums per user and per match, the
  rake, and the set of references. `crash` loses `inFlight` and sweeps; the
  database stays. `Instances` is a set so that the single-process assumption
  is explicit.
* **Withdrawals** - request, policy with its rolling caps, automatic and manual
  payout, the provider's answer (sent, refused, ambiguous, lost), refund, reversal,
  reconciliation.
* **WalletRoutes** - the three ways a deposit comes in and transfers between players.

**People.** **Accounts** (sessions and tokens), **Compliance** (gate, vows, pairs),
**AdminPanel** and **AdminBot** (the two doors of administration), **Rewards**,
**Quests**, **Ladder**, **Friends**, **Clubs**, **Support**. Each takes a step per
database await, and the requests of one user, or of two, overlap. A database step that the code
lets throw ends the request; one whose failure it swallows (`setRewards`, the day's sum of
an administrator) goes on with what the code puts in its place. In **AdminBot** the panel decides
the same withdrawal and the same account beside the bot, and the player's connection is the
handshake that lets it in, with its cache of answers.

**Client.** **Client** (what the store shows, driven by what the gateway emits over a
connection that breaks), **Pages** (the actions, flags, confirmations and loads of every
page: one record per component of `views/`, and the behaviour is of any one of them),
**BackButton** (the browser's history with its asynchronous `back()`, several dialogs at
once, and the question about leaving, which outlives the room it was asked in),
**ClientSession** (the single-flight refresh and the retried call, with every kind of answer
`boot` tells apart, answers that arrive after the session they belong to, and sockets that
are lost or ended by the server).

**Fairness** - the seeds of one room over several matches: commitment, contribution, deal,
publication.

Abstracted on purpose: in `Table`, a disconnected player is one who does nothing
until forfeited, a rematch is its last acceptance, the gates either pass all or block
somebody, and the match is its departures and its end. In `LiveMatch`, of the match only
who owes the next action is kept. In `Ladder`, Elo is the direction and the bounds of a
swing. Strings, times and amounts are members of small sets.

## 3. Runs

| Run | Module | Instance | Properties |
|---|---|---|---|
| `match` | Match | three seats, target 3, up to 4 games, two deals in which the switch takes each of its courses | `StillContested`*, `GoneFromTheGame`*, `NothingIsMadeUp`*, `QuittersNeverGain`*, `BegunGameIsLed`* |
| `single_game` | MCSingleGame | four seats, a deal of two cards each with a pair and a joker, a deal with a flush of five in one hand; first and later games; anyone leaves at any time; `FairSpec` | `TurnIsOwed`*, `QuittersFinishLast`*, `NobodySkipped`*, `TrickIsContested`*, `KeepsPromise`*, `GameEnds`, `BotsAreSound`* |
| `money` | MoneyService | one process, 2 users, 2 matches, stakes 0 and 7 on purses of 10, 10% rake, ceiling 30, a deposit that may be notified repeatedly | `Reconciled`*, `PotPaidOnce`*, `PaidOneWay`* |
| `table` | Table | 2 seats, 3 users (symmetric), 2 matches | `PlayersAreCharged`*, `LiveMatchKeepsItsPot`*, `WonMatchIsPaid`* |
| `table_recovers` | Table | 3 seats, 3 users, 1 match, 1 fault; `FairSpec` | `NobodyIsStranded`*, `PotsAreReleased` |
| `withdrawals` | MCWithdrawals | two withdrawals to one address, of one user or two; four configurations, each of whose caps leaves room for either and not for both; 2 faults | `PaidOnce`*, `RejectedIsRefunded`*, `CapsHold`*, `FailedComesBack` |
| `pools` | MCPools | two deposits under a limit that admits one; a bracket of 4, and a final that two administrators decide; a war of 2 against 2 | `DepositsAreExact`*, `PoolsPaidOnce`*, `MoneyIsReleased` |
| `realtime` | MCRealtime | a deck of 14 with two Aces and both ends of the run line; a match of two teams; a live match of three, all human or with two bots; three in a ranked queue; two workers for four jobs | `RunsAreConsecutive`*, `TrickEscalates`*, `NobodyHoldsTheTable`*, `TeamsAreContested`*, `EverythingMovesOn` |
| `people` | MCPeople | two overlapping calls, one fault; two scoped administrators, or a full one beside the owner; a credit and a debit, a deposit through either door, one unread sum of the day; two matches of one room; a limit that one stake fills; four matches before a window of three; a ticket prompted twice; two messages of a row and two staged actions | `SessionsAreSound`*, `RewardsAreExact`*, `AdminsAreBounded`*, `PlayIsFair`*, `DesksAreSound`* |
| `society` | MCSociety | three people (symmetric), a club of two places, two seasons, two days, five lobbies with tabs and spectators | `MeritIsEarned`, `CompanyIsSound` |
| `clients` | MCClients | one player, one lost connection; every page with two presses, a load and two mounts; a history of five | `PageIsTrue` |
| `half_refund` | MCPools | as `pools` | `HalfRefundIsSafe`: violated, see section 5 |

A star marks what section 4 proves for every value of the constants. What the
others are conjunctions of stands above each in its `MC` module.

**Why the bounds are enough to meet the hard cases.**

* **A game.** Four seats let three players leave during one trick and let the
  owner of a pile be gone when it is resolved. `NobodySkipped` and
  `TrickIsContested` are action properties: from one turn to the next nobody who
  may answer is passed over, and a pile is cleared only when nobody but its
  owner can contest it. `BotsAreSound` asks every tier for its moves in every state and
  follows its rollouts to their end.
* **A match.** With a target of 3 a match of three is undecided after the first
  game, can be tied at the target (which extends it) and can be decided by
  departures in each of its states. The teams of `realtime` are there for what only
  teams have: a side with one member left.
* **Money.** The purses cover one stake but not two, so escrows fail for one
  match while the other holds the money; after the rake the pot of 14 leaves 13 to
  divide, so there is an odd cent; 0 is the free table. Every call can fail at
  commit and the process can die between any two steps.
* **A table.** Three users for two seats is the least in which somebody takes
  the place of a player who was charged. Two matches let the second start while
  the first one's finalisation or a sweep is under way. `LiveMatchKeepsItsPot`
  and `WonMatchIsPaid` except, by name, two races that are in the code: overlapping
  starts (`overlap`), and a sweep that was given the live ids before the match was on and
  read the rows after (`lateSwept`, `app.ts:1268`). `table_recovers` has one fault at any
  place, and three seats so that a match goes on after a departure.
* **Withdrawals, deposits, pools.** Two of each is what it takes to break a cap
  read before the claim. One failure or crash may fall between any two transactions of
  a refund of several players.
* **People, society, clients.** Two requests are what overlaps; a third adds nothing
  that a pair of them does not already do to a row, since each step reads or
  writes one row. Lobbies have at most three users and two tabs.

**Fairness.** It is given to what the code schedules, never to people.

* `SingleGame.FairSpec`: the turn timer. The gateway arms it on every turn and it acts
  for whoever is due. `GameEnds` excludes a game whose opener left with the
  opening card, see section 5.
* `Table.FairSpec`: each task's next step (a database call returns or throws; both are
  steps) and the sweep (a `setInterval`). Nothing makes a match end, so
  `PotsAreReleased` promises release of pots whose match is not on.
* `Withdrawals.Spec`: the reconciliation, a timer. `Tournament`, `ClubWar`: the sweep.
  `WalletRoutes`: commits, and strongly the poller's look at a transfer, since a lap
  may fail and the next one tries again.
* `LiveMatch`: the turn timer, the bot timer, a decision's answer or its watchdog, the
  release of the pause. `Matchmaking`: the bot fallback timer. `BotPool`: a worker's
  message, which includes its timeout and its death.

Deadlock is checked for the money service, which never stops. The other runs
have states at which everything is over or at its bound, and their configurations say so.

## 4. Proofs

TLAPS checks the theorems of eight modules. They assume what the modules name in
`ASSUME`: two to four seats, the three kinds of match with their seats, a positive
target, deals that give every seat cards and no card twice (`dealHands` deals from one deck), amounts that are natural
numbers, at most four seats to a roster and nobody on two of them, a rake of at most 100%,
finite sets of withdrawals, deposits and requests, a limit and a window of at least 1, an owner among
the administrators. TLC evaluates each on the instance it checks. `OneProcess` in `MoneyProofs`
is a hypothesis of its theorems and needed: with two processes a settle in one and a refund in
the other both credit.

**GameLemmas** has what the proofs about games cite: strengths and combinations, the Ace
search, going round the table, the places of a game that is over.

**MCRealtime** - `RealtimeInv` has one part for each component that is proved: `TrickInv`,
`LiveInv` and `Teams!MatchInv`; a step of one leaves the variables of the others.

* `TricksEscalate` (`TrickEscalates`): what beats a combination has a greater
  `Strength`, one number that orders all six kinds (`BeatsIsStronger`). The
  invariant `TrickInv` adds that the pile is a combination, and empty while a lead is awaited.
* `RunsAreFound` (`RunsAreConsecutive`): the search over the Aces finds exactly the sets
  that can be laid on consecutive places of the line A 2 ... K A. `FoundIsLaid` turns an
  assignment of the Aces into a laying, `LaidIsFound` turns a laying into an assignment;
  both are bijections between the cards and an interval (`RunPlaces`, `PlacesOfLine`),
  and `StraightTopIsRun` adds that the code reports the least of the tops found.
* `TablesAreWatched` (`NobodyHoldsTheTable`), at a table of three for any seats of bots, number of
  hands, strikes and decisions under way. `LiveInv` adds to the property the types, that a
  decision made for this turn exists only while somebody owes a play, and that graces run only in
  a match and never beside bots. `ResultWatches`, `MovesWatch` and
  `ForfeitWatches` say what each way of arming the timers leaves behind; every handler ends in one of them.
* `TeamsPlayOn` (`TeamsAreContested`) is `MatchInv` of `MatchProofs`, instantiated.

**SingleGameProofs** - for 2, 3 and 4 seats, every deal, every order of plays,
passes, timeouts and departures.

* `TypeCorrect`, `TurnCorrect`, `LeadCorrect`, `NobodyIsSkipped`, `TricksAreContested`. The
  difficulty: `nextEligible` looks for the next holder who has not passed, and
  passes are cleared at every play, so from one step one cannot see that the
  turn never comes back to the pile's owner or over somebody who has not answered. The
  inductive invariant says where the passes are: going round from the owner, the
  seats before the turn are exactly those that hold cards and passed (`TrickGoesRound`).
  With `TableInv` (turn, holders and pile agree) and the types every action preserves
  it. The lemmas on `Dist` and `FirstAfterIsClosest` are the arithmetic of going round;
  `passKeeps`, `playKeeps` and `forfeitKeeps` are the actions, each of which also
  yields `RoundStep`, from which the two action properties follow.
* `PromiseIsKept` (`KeepsPromise`): the refinement of `GameOutcome`. Its initial states map
  to initial states, and every step empties a hand, lets a player leave, or
  changes no place. `PlacesInv` relates the places, the holders and those who left.
* `QuittersAreLast` (`QuittersFinishLast`): from `PlacesInv` and `FinalOrderRanks`, the
  lemma of `GameLemmas` on what `endGame` makes of a table at which at most one seat holds cards.
* `BotsAreRight` (`BotsAreSound`), for every deal, tier, side and number of candidates. Its
  three parts: a bot always has a move and the game accepts it (`MovesAreLegal`: the
  enumeration is checked by `validatePlay` itself, so what needs proof is that a choice
  of a least play exists and that the card due at the opening can be led); the next table a
  rollout imagines is the game's (`ImaginedIsSo`); every rollout ends (`SearchesEnd`). For
  the last one only half of `TrickGoesRound` is true, since the passes of a rollout outlive
  its plays: `SimInv` says that those between the owner and the turn passed. That
  is enough for a measure: `StepsLeft` counts N for each card in play but one, and one for
  each seat still asked; `SimPass` and `SimPlay` show that each step lowers it, and it starts
  below the guard (the code's 400 is more than four for each of 54 cards). The tables of a
  rollout are a recursive function; that they exist
  and that the measure bounds them is by a smallest counterexample, here over numbers.

**MatchProofs** - for each kind of match, every target and every deal. `MatchInv` says
what a game under way is (`Going`), why the match goes on (`Contested`), that the two
seats of a switch are different (`Owed`), and that the points add up. `GameEndKeeps` is
the end of a game in all its courses; `TargetStaysAhead` is the extension of the target.
`ContestsGoOn`, `QuittersAreOut`, `PointsAndCardsAddUp`, `QuittersDoNotGain`, `GamesAreLed`.

**MoneyProofs** - for any users, matches, stakes, rosters, rake and number of overlapping calls.

* `SettlementConserves`: payouts and rake add up to the pot for every pot, rake
  and set of winners. By cases on the number of winners (1 to 4), with the
  remainder of the division handed out in seat order.
* `MoneyTypes`, `BalancesReconcile`, `PotIsPaidOnce`, `MatchIsPaidOneWay`,
  `ClosedStaysClosed`. `PotPaidOnce` is not inductive: a settle commits on what it
  read earlier. `CallsHold` says what keeps that true: between the read and
  the commit the row is still active with the stake and the players read, since
  any other call of the match is refused by `inFlight`, and a crash takes the call
  along. `RefsHold` ties each reference in the ledger to the way its match was
  closed: a payout of an active match is always fresh, so it really pays.

**FundsProofs** - for any number of withdrawals, users, configurations and faults.

* `WithdrawnOnce`, `RejectedRefunded`: `Tracked` says where a payout call may be
  when the provider has, or has not, taken the request in.
* `CapsAreKept`: totals are compared before the claim. `CapsInv` says that only one
  route is between the two when a shared cap is on (`Exclusive`), that what it compared
  still leaves room (`Fits`), and that what was claimed fits (`ClaimsFit`). A sum over a set
  of withdrawals is a recursive function; that adding one adds its amount is proved by
  a smallest counterexample, as the library's induction theorems cannot be used here.
* `DepositsExact` (`DepositsAreExact`), for any users, deposits, amounts, limits and faults. A
  deposit is compared with the user's limit and committed later, by three ways. `CommitsFit` says that what is
  about to be committed still fits the highest limit of the day, because no two deposits of one user
  with a limit are at their commit at once (`DepositsAreSerial`) and what each was measured against
  was in force that day (`LimitsAreOfTheDay`). The balance is a sum over sets of deposits, as above.
* `PoolsPaid` (`PoolsPaidOnce`). For a tournament `RefundIsUnderWay` says who was refunded while a refund
  runs, `TornIsKnown` that nobody was outside of one unless one was cut short, and `PrizeEndsIt`
  that a prize closes the row. For a club war `LockIsJustified` says that a settlement is of a
  war that was played out and a refund of one that was not, and `CreditsAreDue` that the credits are
  those of the operation under way or of the one that closed the row; that they add up to the
  pool is arithmetic on the division among the winners.

**TableProofs** - for any number of users, matches and faults. One invariant of 18 named
parts carries `TypesHold`, `NobodyPlaysUncharged`, `PotsOutliveSweeps`, `WinnersArePaid` and
`ReadyPlayersAreServed`. The parts that matter: a start that has not escrowed holds the call it
makes and has no row (`StartsAreFresh`); without an overlap at most one start is under
way, of the id the room names (`OneStart`, `OnMatchIsNamed`); a sweep spares what was on when
it began (`SweepsSpare`); every call in flight has a holder (`FlightsAreHeld`); a won match
is settled or its finalisation is about to (`WonIsOnItsWay`); a room all ready has a
countdown, a start of its own id, or a task that unreadies everybody (`StartIsComing`,
`BusyStart`).

**PeopleProofs** - seven components, each by an invariant of its own; `PeopleInv` is their
conjunction, and a step of one component leaves the others alone. For any number of overlapping
calls, tokens, administrators, matches, messages and faults; accounts, rewards and limits are those of
one user, seeds those of one room, a withdrawal is one row, which is what their invariants speak of.

* `SessionsEndForGood` (`SessionsAreSound`). A session is stamped with the version of its user's
  sessions. `VersionsTell`: no row and no call under way bears a version newer than the user's,
  and one with the current version began after the sessions were last ended, so the version
  decides. For one live token per family `SuccessorIsAwaited`: between the revocation of a row
  and the save of the next, the call that saves is alone and no row of the family is live.
* `RewardsGrantedOnce` (`RewardsAreExact`). `LockIsHeld`: of the calls that claim, only the
  holder of the user's lock is past the first step. `XpIsRecorded` and `OnceRecorded` count: experience was granted at
  most once for the record or the claim about to make it, and once for each record that was lost (`unrecorded`),
  whether the call failed before it or the failure of the write was swallowed. `GiftIsFresh`: what a gift
  will write over the whole column still holds the purchases.
* `PowersAreKept` (`AdminsAreBounded`). `MovesFit`: the adjustment that an administrator is about to
  commit still fits the day, because both doors wait for the administrator's chain (`busy`); where the day's sum could not
  be read it fits one call's ceiling, which is what the bound grows by (`blind`). `StagedIsFresh`: what is still staged has
  not run. `ChangesAreBounded` and
  `PowersHold`: the permissions were read some steps before the role is written, so the
  invariant bounds the writes under way as well as the roster: while nobody beside the owner is a full
  administrator, every scope in either is one that somebody had at the start.
* `DealsAndLimitsAreFair` (`PlayIsFair`). *Seeds*: `FairnessInv` numbers the starts of a room, ties the
  pending commitment to the one that was announced, and every game to a deal. *Limits*:
  `LossesFit` reserves a stake for each request that is past the gate, which bounds the loss by the limit and
  one stake for each overlapping request; `VowsStand` orders the confirmations. *Pairs*: a pair is
  flagged when the number of its meetings in the window equals the threshold. That misses nobody because a
  recorded match raises a pair's meetings by at most one, and only that of its opponents, while
  what slides out of the window only lowers it (`Meetings`): no pair gets past the threshold
  without meeting it.
* `DesksAnswerTruly` (`DesksAreSound`). The bot's side of a ticket and the player's page are two invariants
  (`BotSideInv`, `PageSideInv`), each left alone by the other's steps; they add the types, and that an open page is of
  somebody signed in (`PageIsSignedIn`), without which a list would be ready that nobody asked for. For the bot `OneSends`
  (who claims the row sends, alone), `EchoedFirst` (no message offers to confirm a large amount that was not echoed),
  `SomebodyKicks` (a blocked account that is still online has somebody about to drop it, or came in by an older
  answer, or is one whose decision failed before anybody was told to: `slipped`), `RunsAreFresh` (what is
  staged, or taken to be run, has not run).

The invariants were checked by TLC on the instances before they were proved. Where one was not inductive
as first written, the strengthening is one of the named parts.

**Only model-checked.** Liveness under fairness, which the prover cannot do: `GameEnds`,
`PotsAreReleased`, `FailedComesBack`, `MoneyIsReleased`, `EverythingMovesOn`. Of safety `MeritIsEarned` and
`CompanyIsSound` (`society`) and `PageIsTrue` (`clients`), whose components have no proofs yet.
`RolloutsFollow` and the other definitions by recursion over data are checked on the tables TLC reaches.

## 5. Where code and text disagree

**A run.** `half_refund`: `cancel` and the stale sweep of a tournament credit the buy-ins
one transaction at a time and write "cancelled" after the last. If one fails in between, the
bracket can be played on and its champion is paid the whole pool, although some buy-ins were
returned. A comment says that the whole pool is still escrowed until a champion is paid.

**Seen while modelling.** Each is in the model as the code has it; where a property would
fail, the property names the exception. `PROJECT.json` lists a hazard that a property excepts
with a note and does not count it as covered by that property.

* *Game.* The first game must be opened with a certain card. If its holder leaves first,
  the lead passes on but the card stays due: the next leader can neither lead nor pass, the
  forced lead is refused, and after missed turns that player, who never left, is
  forfeited (`OpenerLeft`; `singleGame.ts:276`). A bot in that position is refused twice.
* *Match.* Who empties the hand first and leaves before the game ends is still its winner, and
  the switch waits for that player's card (`match.ts:396`); the side with the points wins even when
  all of it has left, and the match ends without winners and is refunded (`match.ts:369`).
* *Bots.* A rollout keeps the passes of a trick after a play, the game clears them
  (`botSearch.ts:155`, which says it mirrors SingleGame); `RolloutsFollow` compares the two where
  nobody has passed since the last play.
* *Table.* A `room:ready` while a match is being started arms a second countdown, whose start
  replaces the room's match id; the match being played is then no longer named live
  (`overlap`). A sweep may refund a match that began after the live ids were fixed (`lateSwept`).
* *Money.* Two processes on one database would pay twice: nobody looks at the
  count of the status-guarded update (`moneyService.ts:182`). An answer with status 200 whose body
  cannot be read is taken for a definite failure of a payout (`binancePayout.ts:191`): `PaidOnce`
  and `DecidedOnce` except those (`garbled`). A refund is made before its row is reversed, and the
  row may stay as it was. A withdrawal that was claimed and not sent when the
  process died stays "completed", and no sweep looks at it (`withdrawals.ts:285`).
* *Rewards.* A purchase with XP holds no lock and can overwrite another column's change
  (`rewardsService.ts:203`); a request of an old day can overwrite the anchor (`:254`). `setRewards`
  swallows a failed update and the claim goes on (`prismaRepositories.ts:311`): a level reward or a
  VIP gift grants its experience, is reported as claimed, and can be claimed again. `GrantedOnce` allows one more grant for
  each record lost.
* *Lobby.* Two tabs disagree about the room they are in; a bot room lingers; a seat cached by a
  socket outlives its user (`gateway.ts:622`, `:653`, `:831`).
* *Fairness.* A slow finalisation reveals the seed that was already committed for the next match
  (`gateway.ts:2238`).
* *Compliance.* Overlapping self-exclusions can shorten one (`accountRoutes.ts:117`); an identity
  meant to be set once can be set twice (`authService.ts:701`).
* *Ladder, Friends, Clubs.* A crash while a season opens leaves standings half carried
  (`rankedService.ts:88`); a block can be undone by a request that was under way
  (`prismaRepositories.ts:415`); a club can lose its founder.
* *Administration.* A staged action of the Telegram bot can still be confirmed after its ten minutes;
  Cancel says cancelled while the action runs; an audit that fails after a payout reports
  the payout as failed. The day's ceiling of adjustments is open where the day's sum cannot be read
  (`adminAdjustPolicy.ts:81`).
* *Blocking an account.* The handshake cache answers OK for some seconds to the token it was made
  for, whatever happened since (`handshakeThrottle.ts:55`; its comment, 13-15, says that a freshly
  revoked token is never accepted so), and a handshake under way connects by what it has read; where the
  revocation of the sessions fails, the state is written and nobody drops the player
  (`adminBot.ts:397`). `BlockedAreOut` excepts both (`slipped`).
* *Support.* An audit row that fails ends a quick answer before the player is told (`adminBot.ts:449`); a tap on
  "reply" that is delivered again asks for a second answer (`:901`). Without a token the page calls an
  empty list ready (`SupportView.tsx:44`), which nobody sees: the page is shown to who is signed in, and left when the session ends.
* *Client.* A spectator whose connection dropped keeps the table (`gameStore.ts:314`); a logout that
  overlaps a refresh can be undone by it, and a refusal of an old refresh ends the session that
  a login has made since (`api.ts:95`); the sentinels of the exit guard absorb Back
  after the table is gone (`useExitGuard.ts:32`); the question about leaving is hidden with its room, not closed, and asks
  again in the next (`App.tsx:164`, `:297`). At boot a refusal that is none of 401, 429 and 5xx shows the login form too
  (`authStore.ts:156`; its comment, 145, says that only a genuine 401 does). A socket that the server has ended
  does not connect again by itself, only when the page is shown, focused or online again (`gateway.ts:360`, `gameStore.ts:277`).
* *Pages.* "A stale refetch can't clobber" (`FriendsView.tsx:61`, `RewardsView.tsx`) is not so of a
  load already under way when the action begins; a silent refresh of the leaderboard that
  overtakes a tab's load and fails leaves the page loading (`LeaderboardView.tsx:54`); a dialog closed and
  reopened has lost its busy flag, and a second room can be created. Held flat, the club page of a member
  shows no error of a load that failed (`ClubsView.tsx:82`).

## 6. What is not modelled

* Configuration and process start (`config.ts`, `index.ts`, the wiring of `app.ts`): straight-line
  checks over strings.
* Shared types, texts, formatting, logs, events that only inform; listing and reporting queries.
* `MoneyService.forfeitWinners` (nothing calls it), address derivation, chain queries, signing
  and provider HTTP (external: what they answer is a choice).
* E-mail verification, two-factor codes and profile edits; push subscriptions and
  announcements; the limit on handshakes per window (its cache is in AdminBot), the ticker of winners and the Redis adapter.
* Of the client: drawing, sound, gestures at the table, the replay viewer.
* Numbers: amounts are integer cents, bounded by the ceiling far below 2^53; Elo is a direction
  and a bound; hashes are numbers nobody can invert; the shuffle is the pair of seeds it is made from.

## 7. Plan

Done: the modules, runs and theorems above.

To come, proofs first:

1. **Ladder** and **Quests** (`MeritIsEarned`), then **Friends**, **Clubs** and **Lobby**
   (`CompanyIsSound`), each for any number of users.
2. **Client** (`PageIsTrue`): what is on the way to a screen and what it shows make up the table.
3. **LiveMatch** at tables of two and four seats.
4. An abstract **match row** (none, active, settled, cancelled) that MoneyService
   implements and Table uses, as GameOutcome stands between SingleGame and Match.
5. **Host**: configuration and process start, the order of closing.
