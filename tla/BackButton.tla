----------------------------- MODULE BackButton -----------------------------
(***************************************************************************)
(* The browser's history and everybody who uses it: the address of the     *)
(* page (packages/client/src/lib/useUrlSync.ts), the open modals           *)
(* (useModalBack.ts) and the guard of the table (useExitGuard.ts), as      *)
(* App.tsx puts them together.  history.back() is asynchronous: what it    *)
(* pops is what is on top when it is carried out.  React renders between   *)
(* two listeners of one popstate event, so a modal closed by the first is  *)
(* closed for the second.                                                  *)
(***************************************************************************)
EXTENDS Integers, Sequences, SequencesExt, FiniteSets

CONSTANTS
    Views,       \* the lobby's pages, "lobby" among them; each is its own path
    MaxEntries,  \* bound on the history
    MaxTaps      \* bound on traversals, and on closed modals, not dealt with yet

VARIABLES
    nav,        \* [entries, pos]: the history; [view, replay, spectating, room, backLeave]:
                \* the stores, and whether the player was asked to leave and has not answered
    listeners,  \* of popstate, in the order of registration, the address's left out
    traversals, \* presses of Back and calls of history.back() not carried out yet
    deferred,   \* closed modals whose sentinel is looked at in the next macrotask
    out         \* has the page been left by Back at a guarded table? (history)

navVars == <<nav, listeners, traversals, deferred, out>>

\* Modals of the page on screen go with it; the profile does not.  The question
\* whether to leave is shown while there is a room and an answer is owed.
Modals == {"page", "profile", "prompt"}
Guard == "guard"
Open == ToSet(listeners) \cap Modals
hasOpenModalBack(ls) == ToSet(ls) \cap Modals # {}
Entry(path, state) == [path |-> path, state |-> state]
Here(n) == n.entries[n.pos]

Init ==
    /\ nav = [entries |-> <<Entry("lobby", "none")>>, pos |-> 1, view |-> "lobby", replay |-> FALSE,
              spectating |-> FALSE, room |-> "none", backLeave |-> FALSE]
    /\ listeners = <<>> /\ traversals = 0 /\ deferred = 0 /\ out = FALSE

-----------------------------------------------------------------------------
(* useUrlSync.                                                             *)

pushState(n, path, state) ==
    [n EXCEPT !.entries = Append(SubSeq(@, 1, n.pos), Entry(path, state)), !.pos = n.pos + 1]

statePath(n) ==
    IF n.replay THEN "replay" ELSE IF n.spectating /\ n.room # "none" THEN "watch" ELSE n.view

\* A change of the stores is followed by the address at once.
sync(n) == IF Here(n).path = statePath(n) THEN n ELSE pushState(n, statePath(n), "none")

stopSpectate(n) == [n EXCEPT !.spectating = FALSE, !.room = "none"]

\* The address was changed by the browser: the stores follow, one at a time.
apply(n) ==
    LET path == Here(n).path
        shown == IF n.replay THEN sync([n EXCEPT !.replay = FALSE]) ELSE n
        free == IF shown.spectating THEN sync(stopSpectate(shown)) ELSE shown
    IN  IF path = "replay" THEN sync([n EXCEPT !.replay = TRUE])
        ELSE IF path = "watch" THEN shown
        ELSE sync([free EXCEPT !.view = path])

-----------------------------------------------------------------------------
(* Screens: what is mounted follows the stores.                            *)

Screen(n) ==
    IF n.replay THEN "replay"
    ELSE IF n.room # "none" THEN IF n.spectating THEN "watch" ELSE n.room
    ELSE n.view

\* useExitGuard(!!room && !spectating, ...)
isActive(n) == n.room # "none" /\ ~n.spectating

\* Modals that go with a change from n to m, other than by Back.
Unmounted(n, m, ls) ==
    {x \in ToSet(ls) : \/ x = "page" /\ Screen(n) # Screen(m)
                       \/ x = "prompt" /\ m.room = "none"}

pushSentinel(n) == pushState(n, Here(n).path, "modal")

\* The effects of a change from n to m: modals are taken down, their sentinels are each
\* looked at later; a question that went unanswered with its room opens in the next one;
\* the guard is disarmed, leaving its sentinel, or armed with one.
Commit(n, m, ls) ==
    LET gone == Unmounted(n, m, ls)
        kept == SelectSeq(ls, LAMBDA l : l \notin gone)
        reopens == m.backLeave /\ m.room # "none" /\ "prompt" \notin ToSet(ls)
        shown == IF reopens THEN Append(kept, "prompt") ELSE kept
        top == IF reopens THEN pushSentinel(m) ELSE m
        armed == Guard \in ToSet(ls)
    IN  /\ deferred' = deferred + Cardinality(gone)
        /\ listeners' = IF armed = isActive(m) THEN shown
                        ELSE IF armed THEN SelectSeq(shown, LAMBDA l : l # Guard) ELSE Append(shown, Guard)
        /\ nav' = IF isActive(m) /\ ~armed THEN pushState(top, Here(top).path, "exitGuard") ELSE top

Changes(m) == Commit(nav, sync(m), listeners) /\ UNCHANGED <<traversals, out>>
Space == Len(nav.entries) < MaxEntries /\ deferred < MaxTaps

\* The player, and the server's messages.
setView(v) == Space /\ nav.room = "none" /\ Changes([nav EXCEPT !.view = v])
openReplay == Space /\ ~nav.replay /\ nav.room = "none" /\ Changes([nav EXCEPT !.replay = TRUE])
closeReplay == Space /\ nav.replay /\ Changes([nav EXCEPT !.replay = FALSE])
spectate == Space /\ nav.room = "none" /\ Changes([nav EXCEPT !.spectating = TRUE, !.room = "inMatch"])
endsSpectate == Space /\ nav.spectating /\ Changes(stopSpectate(nav))
entersRoom == Space /\ nav.room = "none" /\ Changes([nav EXCEPT !.room = "waiting"])
matchStarts == nav.room = "waiting" /\ Changes([nav EXCEPT !.room = "inMatch"])
\* A leave that was answered, a removal, room:closed: `spectating` stays as it is.
emptyRoomState == Space /\ nav.room # "none" /\ Changes([nav EXCEPT !.room = "none"])

-----------------------------------------------------------------------------
(* useModalBack.                                                           *)

opensModal(x) ==
    /\ Space /\ x \in {"page", "profile"} \ Open
    /\ listeners' = Append(listeners, x)
    /\ nav' = pushSentinel(nav)
    /\ UNCHANGED <<traversals, deferred, out>>

\* By its button, the backdrop or Escape.
closesModal(x) ==
    /\ x \in Open /\ deferred < MaxTaps
    /\ listeners' = SelectSeq(listeners, LAMBDA l : l # x)
    /\ deferred' = deferred + 1
    /\ nav' = IF x = "prompt" THEN [nav EXCEPT !.backLeave = FALSE] ELSE nav
    /\ UNCHANGED <<traversals, out>>

\* The sentinel is popped if it is still on top and no other modal is open.
Compensates == ~hasOpenModalBack(listeners) /\ Here(nav).state = "modal"

macrotask ==
    /\ deferred > 0 /\ (Compensates => traversals < MaxTaps)
    /\ deferred' = deferred - 1
    /\ traversals' = IF Compensates THEN traversals + 1 ELSE traversals
    /\ UNCHANGED <<nav, listeners, out>>

-----------------------------------------------------------------------------
(* Back.                                                                   *)

pressesBack ==
    /\ traversals < MaxTaps
    /\ traversals' = traversals + 1
    /\ UNCHANGED <<nav, listeners, deferred, out>>

\* Mutant of retrap: the leave is asked for and the trap is not set again.
retrap_not(n) == n
retrap(n) == pushState(n, Here(n).path, "exitGuard")

\* The guard fires unless a modal is still open when its turn comes, or the page
\* landed on a sentinel of the guard.  Modals registered before it are closed by now.
Fires(n, ls) ==
    \E i \in DOMAIN ls :
      /\ ls[i] = Guard
      /\ ~hasOpenModalBack(SubSeq(ls, i + 1, Len(ls)))
      /\ Here(n).state # "exitGuard"

\* popstate: the address first, then the listeners in their order.  Every open modal
\* closes, and Back answers the question; the guard asks it during a match, and leaves a
\* room that waits.
popstate(n) ==
    LET a == apply(n)
        gone == Unmounted(nav, a, listeners)
        ls == SelectSeq(listeners, LAMBDA l : l \notin gone)
        left == SelectSeq(ls, LAMBDA l : l \notin Modals)
        closed == [a EXCEPT !.backLeave = @ /\ "prompt" \notin ToSet(ls)]
        trapped == retrap(closed)
    IN  /\ deferred' = deferred + Cardinality(gone)
        /\ IF ~Fires(a, ls) THEN nav' = closed /\ listeners' = left
           ELSE IF a.room = "inMatch"
             THEN nav' = [pushSentinel(trapped) EXCEPT !.backLeave = TRUE] /\ listeners' = Append(left, "prompt")
             ELSE nav' = trapped /\ listeners' = left

\* A press of Back, or a modal's history.back(), is carried out.  Before the first
\* entry the page is left, which ends everything where no guard is armed.
traverse ==
    /\ traversals > 0
    /\ traversals' = traversals - 1
    /\ IF nav.pos > 1 THEN popstate([nav EXCEPT !.pos = @ - 1]) /\ UNCHANGED out
       ELSE /\ Guard \in ToSet(listeners)
            /\ out' = TRUE
            /\ UNCHANGED <<nav, listeners, deferred>>

goesForward ==
    /\ Space /\ traversals = 0 /\ nav.pos < Len(nav.entries)
    /\ popstate([nav EXCEPT !.pos = @ + 1])
    /\ UNCHANGED <<traversals, out>>

Next ==
    \/ \E v \in Views : setView(v)
    \/ openReplay \/ closeReplay \/ spectate \/ endsSpectate \/ entersRoom \/ matchStarts \/ emptyRoomState
    \/ \E x \in Modals : opensModal(x) \/ closesModal(x)
    \/ macrotask \/ pressesBack \/ traverse \/ goesForward

Spec == Init /\ [][Next]_navVars

-----------------------------------------------------------------------------
\* "It can never exit a standalone PWA mid-match" (useExitGuard.ts): where the guard
\* is armed, no number of presses leaves the page, whatever modals opened and closed
\* on top of its trap and whatever sentinels they left behind.
NeverExits == ~out

\* The address says what is on screen, but for a match that is not watched any more:
\* nothing but useUrlSync's listeners keeps the two together.
AddressIsTrue == Here(nav).path \in {statePath(nav), "watch"}
=============================================================================
