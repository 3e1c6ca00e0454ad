----------------------------- MODULE MCClients -----------------------------
(***************************************************************************)
(* What runs in the browser, in one run: what a client shows of the        *)
(* player's table, the browser's history, the session of a page and the    *)
(* pages around the tables.  They share no state here: each behaviour is   *)
(* of the part that `running` names.                                       *)
(***************************************************************************)
EXTENDS Integers, TLC

VARIABLES
    running,
    stage, hand, cards, home, cached, watching, chan, linked, down, up, drops, view, waits, late,
    removed, watched,
    nav, listeners, traversals, deferred, out,
    cookie, store, boot, refresh, older, callers, proactive, timer, leaked, call, loggingOut, entering,
    sock, retry, logins, way,
    component, flat, mount, asked, held, sends, loads, screen, version, mine, shown, query,
    found, count, presses, begun

Player == INSTANCE Client WITH
    Cards <- {1, 2}, HandSize <- 1, MaxHands <- 1, MaxDown <- 0, MaxDrops <- 1
History == INSTANCE BackButton WITH
    Views <- {"lobby", "friends"}, MaxEntries <- 5, MaxTaps <- 2
Session == INSTANCE ClientSession WITH
    MaxAttempts <- 2, MaxLogins <- 2
Page == INSTANCE Pages WITH
    MaxPresses <- 2, MaxLoads <- 1, MaxMounts <- 2, row <- component

playerVars == <<stage, hand, cards, home, cached, watching, chan, linked, down, up, drops, view,
        waits, late, removed, watched>>
historyVars == <<nav, listeners, traversals, deferred, out>>
sessionVars == <<cookie, store, boot, refresh, older, callers, proactive, timer, leaked, call,
        loggingOut, entering, sock, retry, logins, way>>
pagesVars == <<component, flat, mount, asked, held, sends, loads, screen, version, mine, shown,
        query, found, count, presses, begun>>

\* Parts that do not run stay in one initial state.
Init ==
    /\ running \in {"player", "history", "session", "pages"}
    /\ Player!Init
    /\ History!Init
    /\ Session!Init /\ (running # "session" => cookie = "none")
    /\ Page!Init /\ (running # "pages" => component = Page!FriendsSearch)

Next ==
    /\ UNCHANGED running
    /\ \/ /\ running = "player" /\ Player!Next
          /\ UNCHANGED <<historyVars, sessionVars, pagesVars>>
       \/ /\ running = "history" /\ History!Next
          /\ UNCHANGED <<playerVars, sessionVars, pagesVars>>
       \/ /\ running = "session" /\ Session!Next
          /\ UNCHANGED <<playerVars, historyVars, pagesVars>>
       \/ /\ running = "pages" /\ Page!Next
          /\ UNCHANGED <<playerVars, historyVars, sessionVars>>

vars == <<running, playerVars, historyVars, sessionVars, pagesVars>>
Spec == Init /\ [][Next]_vars

-----------------------------------------------------------------------------
\* Client: with nothing on the way, the player's screen shows the server's table.
\* BackButton: Back never leaves a guarded table, and the address names the screen.
\* ClientSession: a blip logs nobody out, and a page is never stranded.
\* Pages: no two actions under one flag, no flag stays up, own changes and the newest
\* answer are what is shown.  Where the code departs from this, the component's own
\* property names the exception.
PageIsTrue ==
    /\ Player!ShowsTheTable
    /\ History!NeverExits /\ History!AddressIsTrue
    /\ Session!BlipsLogNobodyOut /\ Session!NeverStranded
    /\ Page!OneAtATime /\ Page!NeverStuck /\ Page!OwnChangesShow /\ Page!NewestAnswerShows
=============================================================================
