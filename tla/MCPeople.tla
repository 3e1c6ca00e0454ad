------------------------------ MODULE MCPeople ------------------------------
(***************************************************************************)
(* What players and administrators may do besides playing, in one run:     *)
(* accounts, rewards, the administrators' panel, the fairness of the       *)
(* deals, the limits players set themselves, the watch over colluding      *)
(* players, support and the owner's bot.  The parts share no state here:   *)
(* each behaviour is of the part that `running` names, and the others stay *)
(* in one initial state.  The values TLC gives the parameters are at the   *)
(* end.                                                                    *)
(***************************************************************************)
EXTENDS Integers, FiniteSets, TLC

CONSTANTS
    Calls,                                             \* calls under way at the same time
    MaxFailures, States, MaxRows, MaxEras, MaxFaultsA, \* Accounts
    XpClaims, MaxFaultsR,                              \* Rewards
    Owner, Rosters, Scopes, Amounts, Deposits, Staged, CallCap, DayCap, MaxBlind,   \* AdminPanel
    Users, MaxSeeds, MaxIds,                                                 \* Fairness
    Stake, LossLimit, Days, MaxDay, MaxLoss,                                 \* Compliance
    Results, Window, PairThreshold, DumpThreshold, MaxMatches, MaxBusy, MaxLost,
    Tickets, Texts, Loads, MaxPrompts,                                       \* Support
    Messages, Keys, MaxPosts                                                 \* AdminBot

VARIABLES
    running,
    acct, tok, links, failures, lockedOut, calls, era, ended, faultsA,
    recorded, xpFor, owned, charged, spent, holder, errand, unrecorded, faultsR,
    start, who, request, busy, adjusted, blind, credits, staged, runs,
    room, countdown, newest, pending, clientSeed, starts, dealer, shuffle, ends,
    rows, writes, published, deals,
    user, today, net, wagering, told, capped, early, edits, stale,
    played, waiting, recentStaked, filing, flags, lost,
    ticket, pendingReply, job, prompts, answers, notes, unaudited, signedIn, page, load, answered,
    domain, large, withdrawal, paid, refunds, garbled, echoed, account, online, handshake, cached,
    slipped, parked, confirms, ran, lastKey, chat, posts, update

Auth == INSTANCE Accounts WITH Callers <- Calls
Prizes == INSTANCE Rewards WITH Clients <- Calls
Panel == INSTANCE AdminPanel WITH Desks <- Calls
Deals == INSTANCE Fairness WITH MaxMatches <- MaxIds
Limits == INSTANCE Compliance WITH Requests <- Calls, Matches <- Results, req <- wagering
Desk == INSTANCE Support WITH Desks <- Calls, told <- notes
Bot == INSTANCE AdminBot WITH
    Updates <- Calls, row <- withdrawal, pending <- parked, runs <- ran

\* Nobody is called "nobody"; what is completed is neither a level nor the welcome gift.
ASSUME RewardsAssumption ==
    /\ Prizes!NoOne \notin Calls
    /\ XpClaims \cap {"level", "vipGift"} = {}
    /\ MaxFaultsR \in Nat

\* The owner is an administrator without scopes, which means all of them.
ASSUME PanelAssumption ==
    /\ \A r \in Rosters : /\ Owner \in DOMAIN r
                          /\ r \in [DOMAIN r -> [role : {"user", "admin"}, perms : SUBSET Scopes]]
                          /\ r[Owner].role = "admin" /\ r[Owner].perms = {}
    /\ Amounts \subseteq Int /\ CallCap \in Nat /\ DayCap \in Nat
    /\ Panel!NoDeposit \notin Deposits

\* A limit is positive ("A limit must be a POSITIVE integer-cent cap", responsibleGaming.ts),
\* and so are the size of the window and the threshold of antiCheat.
ASSUME LimitsAssumption ==
    /\ IsFiniteSet(Calls) /\ Stake \in Nat /\ LossLimit \in Nat \ {0} /\ Days \subseteq Nat
    /\ Window \in Nat \ {0} /\ PairThreshold \in Nat \ {0}

\* No ticket is called as no ticket is, no message as none, and staged actions have numbers.
ASSUME DeskAssumption == Desk!None \notin Tickets /\ Bot!NoMessage \notin Messages /\ Keys \subseteq Nat

authVars == <<acct, tok, links, failures, lockedOut, calls, era, ended, faultsA>>
prizesVars == <<recorded, xpFor, owned, charged, spent, holder, errand, unrecorded, faultsR>>
panelVars == <<start, who, request, busy, adjusted, blind, credits, staged, runs>>
dealsVars == <<room, countdown, newest, pending, clientSeed, starts, dealer, shuffle, ends,
        rows, writes, published, deals>>
limitsVars == <<user, today, net, wagering, told, capped, early, edits, stale>>
watchVars == <<played, waiting, recentStaked, filing, flags, lost>>
deskVars == <<ticket, pendingReply, job, prompts, answers, notes, unaudited, signedIn, page, load,
        answered>>
botVars == <<domain, large, withdrawal, paid, refunds, garbled, echoed, account, online, handshake,
        cached, slipped, parked, confirms, ran, lastKey, chat, posts, update>>
peopleVars == <<running, authVars, prizesVars, panelVars, dealsVars, limitsVars, watchVars,
               deskVars, botVars>>

PeopleInit ==
    /\ running \in {"auth", "prizes", "panel", "deals", "limits", "watch", "desk", "bot"}
    /\ Auth!Init /\ Prizes!Init /\ Panel!Init /\ Deals!Init
    /\ Limits!GateInit /\ Limits!WatchInit /\ Desk!Init /\ Bot!Init
    /\ running = "panel" \/ start = CHOOSE r \in Rosters : TRUE
    /\ running = "bot" \/ (domain = "wd" /\ ~large)

PeopleNext ==
    /\ UNCHANGED running
    /\ \/ /\ running = "auth" /\ Auth!Next
          /\ UNCHANGED <<prizesVars, panelVars, dealsVars, limitsVars, watchVars, deskVars,
                         botVars>>
       \/ /\ running = "prizes" /\ Prizes!Next
          /\ UNCHANGED <<authVars, panelVars, dealsVars, limitsVars, watchVars, deskVars,
                         botVars>>
       \/ /\ running = "panel" /\ Panel!Next
          /\ UNCHANGED <<authVars, prizesVars, dealsVars, limitsVars, watchVars, deskVars,
                         botVars>>
       \/ /\ running = "deals" /\ Deals!Next
          /\ UNCHANGED <<authVars, prizesVars, panelVars, limitsVars, watchVars, deskVars,
                         botVars>>
       \/ /\ running = "limits" /\ Limits!GateNext
          /\ UNCHANGED <<authVars, prizesVars, panelVars, dealsVars, watchVars, deskVars,
                         botVars>>
       \/ /\ running = "watch" /\ Limits!WatchNext
          /\ UNCHANGED <<authVars, prizesVars, panelVars, dealsVars, limitsVars, deskVars,
                         botVars>>
       \/ /\ running = "desk" /\ Desk!Next
          /\ UNCHANGED <<authVars, prizesVars, panelVars, dealsVars, limitsVars, watchVars,
                         botVars>>
       \/ /\ running = "bot" /\ Bot!Next
          /\ UNCHANGED <<authVars, prizesVars, panelVars, dealsVars, limitsVars, watchVars,
                         deskVars>>

PeopleSpec == PeopleInit /\ [][PeopleNext]_peopleVars

-----------------------------------------------------------------------------
\* Accounts: a session that was ended is not live again, and of a family of refresh
\* tokens at most one is live.
SessionsAreSound == Auth!EndedSessionsStayEnded /\ Auth!OneLiveToken
\* Rewards: a claim is granted once, and again only for a record that failed, however
\* claims overlap, and what was paid for is owned.
RewardsAreExact == Prizes!GrantedOnce /\ Prizes!PaidIsOwned
\* AdminPanel: ceilings, deposits and staged actions hold for overlapping adjustments, a
\* ceiling passed only by what was let through with the day's sum unread, and scoped
\* administrators together make no full one.
AdminsAreBounded == Panel!AdjustmentsAreGoverned /\ Panel!PowersAreBounded
\* Fairness: a deal follows its commitment, and no secret is used for two matches.
\* Compliance: exclusions and limits hold as the player was told, losses stay bounded,
\* and a pair that sits together too often is flagged.
PlayIsFair ==
    /\ Deals!CommittedFirst /\ Deals!SeedsAreUsedOnce
    /\ Limits!VowsAreKept /\ Limits!LossIsBounded /\ Limits!PairsAreFlagged
\* Support: a prompt takes one answer, the player is told it, and no list is shown as
\* empty that was not read.  AdminBot: a withdrawal is decided once, a large one is
\* echoed first, a staged action runs once, and a blocked player has no connection but
\* by an answer from before.
DesksAreSound ==
    /\ Desk!OnePromptOneAnswer /\ Desk!AnswersAreTold /\ Desk!NoFalseEmptiness
    /\ Bot!DecidedOnce /\ Bot!LargeIsEchoed /\ Bot!BlockedAreOut /\ Bot!StagedRunOnce

-----------------------------------------------------------------------------
(* The instance TLC checks.                                                *)

\* Two scoped administrators; a full one beside the owner.  One scope nobody holds.
admin(perms) == [role |-> "admin", perms |-> perms]
MCRosters ==
    {[own |-> admin({}), ana |-> admin({"manage_admins"}),
      ben |-> admin({"adjust_balance"})],
     [own |-> admin({}), ana |-> admin({})]}

\* Two players who duel, each winning, or who sit together against another pair.
seat(won, team) == [won |-> won, team |-> team]
duel(a, b) == a :> seat(TRUE, 0) @@ b :> seat(FALSE, 0)
pairs == "a" :> seat(TRUE, 1) @@ "b" :> seat(TRUE, 1) @@ "c" :> seat(FALSE, 2) @@ "d" :> seat(FALSE, 2)
MCResults == {duel("a", "b"), duel("b", "a"), pairs}

\* A credit and a debit.
MCAmounts == {2, -1}

\* Two calls are interchangeable; the two users of a table bear their names.
Perms == Permutations(Calls)
=============================================================================
