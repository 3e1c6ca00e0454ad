-------------------------------- MODULE Pages --------------------------------
(***************************************************************************)
(* The pages of the client (packages/client/src/views, and the panels and  *)
(* dialogs among the components): the actions each page offers, the flags  *)
(* (busy, acting, sending ...) that stop a second press, the question that *)
(* is asked first, and the loads that bring what the page shows.           *)
(*                                                                         *)
(* One component that keeps state of its own is one row: its actions, the  *)
(* buttons of its two layouts (a phone held flat and every other screen),  *)
(* and how it loads.  A behaviour is that of one row.  What a page says    *)
(* and how it looks is left out.                                           *)
(***************************************************************************)
EXTENDS Integers, TLC

CONSTANTS
    MaxPresses,  \* bound on presses
    MaxLoads,    \* bound on loads a timer, a push, or the player starts
    MaxMounts    \* bound on how often the component is mounted

VARIABLES
    row,      \* the component, by its row
    flat,     \* whether the layout is the one for a phone held flat
    mount,    \* which mount of the component is on the screen
    asked,    \* the action that the open question is about
    held,     \* flag -> the send that raised it; 0 for none
    sends,    \* actions under way
    loads,    \* loads under way
    screen,   \* "loading", "ready", "error"
    version,  \* what the server has: the changes this player made
    mine,     \* the latest change that this mount was told succeeded
    shown,    \* what the page shows of it
    query,    \* what the player looks for, or the tab
    found,    \* what the shown answer was for
    count,    \* numbers sends and loads in the order they began
    presses, begun

pageVars == <<row, flat, mount, asked, held, sends, loads, screen, version, mine, shown,
              query, found, count, presses, begun>>

Nothing == "nothing"

-----------------------------------------------------------------------------
(* How an action is guarded: `checks` is when its handler looks at the     *)
(* flag, `asks` whether useConfirm asks first, `works` whether it does     *)
(* something slow before it sends.  `then` is what follows success: the    *)
(* page loads again before the flag falls (within) or after (after, with   *)
(* the page blank, or later, without), or its dialog closes.               *)

Act(flag, checks, then) ==
    [flag |-> flag, checks |-> checks, then |-> then, asks |-> FALSE, works |-> FALSE]
Asking(act) == [act EXCEPT !.asks = TRUE]
Working(act) == [act EXCEPT !.works = TRUE]
Unguarded(then) == Act("", "never", then)
Each(names, act) == [a \in names |-> act]

\* Buttons that the flag greys, and those that nothing greys.
Greyed(flag, names) == {<<flag, a>> : a \in names}
Always(names) == Greyed("", names)

(* `again` and `blank`: on which screens the player may reload, and on     *)
(* which the page has no buttons.  `polls`: a timer or a push reloads it,  *)
(* unless a flag of `paused` is up.  `quiet`: a load that the page began   *)
(* by itself fails without a word.                                         *)
(* `newest`: an answer that a newer load overtook is dropped.  `stays`: the *)
(* flags that a store keeps, not the component.  `untold`: held flat, the   *)
(* page may be without the place where it says that a load failed.         *)
Page(acts, whenFlat, upright) ==
    [acts |-> acts, whenFlat |-> whenFlat, upright |-> upright, data |-> TRUE,
     again |-> {}, blank |-> {}, polls |-> FALSE, paused |-> {}, quiet |-> FALSE,
     searches |-> FALSE, newest |-> FALSE, stays |-> {}, untold |-> FALSE]
Panel(acts, buttons) == Page(acts, buttons, buttons)
Dialog(acts, buttons) == [Panel(acts, buttons) EXCEPT !.data = FALSE]

-----------------------------------------------------------------------------
\* FriendsView: one action at a time, which also holds the poll back.
SendMoney == [sendMoney |-> Asking(Act("sending", "press", "done"))]
SendDm == [sendDm |-> Act("dmBusy", "press", "done")]
FriendsActs ==
    Each({"respond", "unblock"}, Act("acting", "send", "within"))
    @@ Each({"remove", "block"}, Asking(Act("acting", "send", "within")))
    @@ Each({"add"}, Act("busy", "press", "within"))
    @@ Each({"invite", "duel"}, Unguarded("done"))
FriendsDialogs ==
    Greyed("sending", {"sendMoney"}) \cup Greyed("busy", {"add"}) \cup Greyed("dmBusy", {"sendDm"})
FriendsFlat ==
    FriendsDialogs \cup Greyed("acting", {"respond", "remove", "block", "invite", "duel"})
FriendsUpright ==
    FriendsDialogs \cup Greyed("acting", {"respond", "remove", "block", "invite", "duel", "unblock"})
Friends ==
    [Page(FriendsActs @@ SendMoney @@ SendDm, FriendsFlat, FriendsUpright)
        EXCEPT !.polls = TRUE, !.paused = {"acting"}]
\* The search for a user to add drops answers to an older word.
FriendsSearch == [Panel(<<>>, {}) EXCEPT !.searches = TRUE, !.newest = TRUE]

\* ClubsView, and the panels of a club: tournaments, war, chat, invitations.
ClubsActs ==
    Each({"join", "joinByCode", "create", "setPrivacy"}, Act("busy", "press", "within"))
    @@ [leave |-> Asking(Act("busy", "press", "within"))]
ClubsFlat == Greyed("busy", {"join", "joinByCode", "create", "setPrivacy", "leave"})
ClubsUpright == Greyed("busy", {"join", "joinByCode", "create", "setPrivacy", "leave"})
\* Held flat, the page of a club's member has no line for the error.
Clubs ==
    [Page(ClubsActs, ClubsFlat, ClubsUpright) EXCEPT !.blank = {"loading"}, !.untold = TRUE]
ClubTournaments ==
    Panel(Each({"create", "register"}, Act("busy", "press", "within")),
          Greyed("busy", {"create", "register"}))
ClubWarActs ==
    Each({"create", "register", "start"}, Act("busy", "press", "within"))
    @@ [cancel |-> Asking(Act("busy", "press", "within")), play |-> Unguarded("done")]
ClubWarPanel ==
    [Panel(ClubWarActs, Greyed("busy", {"create", "register", "start", "cancel", "play"}))
        EXCEPT !.polls = TRUE, !.quiet = TRUE]
ClubChat ==
    Panel([submit |-> Act("busy", "press", "done")]
          @@ Each({"report", "mute"}, Asking(Unguarded("done"))),
          Greyed("busy", {"submit"}) \cup Always({"report", "mute"}))
InviteFriends == Panel([invite |-> Unguarded("done")], Always({"invite"}))

\* RewardsView: a claim names itself in `busy`, and every handler looks at it.
Claims == {"daily", "challenge", "quest", "level"}
RewardsActs == Each(Claims \cup {"all"}, Act("busy", "press", "within"))
RewardsFlat == Greyed("busy", {"all"}) \cup Always(Claims)
RewardsUpright == Greyed("busy", {"all"}) \cup Always(Claims)
Rewards ==
    [Page(RewardsActs, RewardsFlat, RewardsUpright)
        EXCEPT !.polls = TRUE, !.paused = {"busy"}, !.blank = {"loading", "error"}]

\* ShopView: a purchase is asked about first, in money and in experience.
ShopActs ==
    [buy |-> Asking(Act("busyId", "press", "within")), equip |-> Act("busyId", "press", "within")]
ShopFlat == Always({"buy", "equip"})
ShopUpright == Always({"buy", "equip"})
Shop ==
    [Page(ShopActs, ShopFlat, ShopUpright)
        EXCEPT !.again = {"error"}, !.blank = {"loading", "error"}]

\* TournamentsView: its button to reload is never greyed.
TournamentsActs ==
    Each({"create", "report"}, Act("busy", "press", "within"))
    @@ Each({"register", "cancel", "confirm"}, Asking(Act("busy", "press", "within")))
TournamentsButtons == Greyed("busy", {"create", "report", "register", "cancel", "confirm"})
TournamentsFlat == TournamentsButtons
TournamentsUpright == TournamentsButtons
Tournaments ==
    [Page(TournamentsActs, TournamentsFlat, TournamentsUpright)
        EXCEPT !.again = {"loading", "ready", "error"}, !.blank = {"loading", "error"},
               !.quiet = TRUE]

\* WalletView: only the deposit tab reloads by itself.
WalletActs ==
    [submitTxid |-> Act("submittingTxid", "press", "within"),
     withdraw |-> Asking(Act("withdrawing", "press", "within"))]
WalletData ==
    [export |-> Act("exporting", "press", "done"),
     deleteAccount |-> Asking(Act("deleting", "press", "closes"))]
WalletButtons ==
    Greyed("submittingTxid", {"submitTxid"}) \cup Greyed("withdrawing", {"withdraw"})
    \cup Greyed("exporting", {"export"}) \cup Greyed("deleting", {"deleteAccount"})
Wallet == [Panel(WalletActs @@ WalletData, WalletButtons) EXCEPT !.polls = TRUE]

\* VipView: the flag falls while the page, blank, still loads.  The upright page shows the
\* gift and has no button for it.
VipActs == [claimGift |-> Act("claiming", "press", "after")]
VipFlat == Greyed("claiming", {"claimGift"})
VipUpright == {}
Vip ==
    [Page(VipActs, VipFlat, VipUpright)
        EXCEPT !.again = {"error"}, !.blank = {"loading", "error"}]

-----------------------------------------------------------------------------
\* LeaderboardView: two tabs and no actions; the newest load wins.
Leaderboard ==
    [Panel(<<>>, {})
        EXCEPT !.polls = TRUE, !.again = {"ready", "error"}, !.quiet = TRUE,
               !.searches = TRUE, !.newest = TRUE]

\* LobbyView and its dialogs, each with a flag of its own that falls with it.
LobbyActs == Each({"joinRoom", "joinByCode", "spectate"}, Unguarded("done"))
LobbyFlat == Always({"joinRoom", "joinByCode"})
LobbyUpright == Always({"joinRoom", "joinByCode", "spectate"})
LobbyRooms == [Page(LobbyActs, LobbyFlat, LobbyUpright) EXCEPT !.polls = TRUE, !.quiet = TRUE]
RankedModal == Dialog([find |-> Act("busy", "press", "closes")], Greyed("busy", {"find"}))
QuickMatchModal ==
    Dialog(Each({"play", "practice"}, Act("busy", "press", "closes")),
           Greyed("busy", {"play", "practice"}))
JoinTeamModal == Dialog([pick |-> Act("busy", "press", "closes")], Greyed("busy", {"pick"}))
CreateRoomModal == Dialog([create |-> Act("busy", "press", "closes")], Greyed("busy", {"create"}))

\* RoomView: the server orders what its buttons ask.
RoomActs == Each({"invite", "switchTeam", "setReady"}, Unguarded("done"))
RoomButtons == Always({"invite", "switchTeam", "setReady"})
Room == Panel(RoomActs, RoomButtons)

\* ProfileModal: a photo is made small before it is sent.
ProfileFriends == Each({"sendFriendReq", "acceptFriendReq"}, Act("sendingFriend", "press", "done"))
ProfileAvatar ==
    [pickAvatar |-> Act("savingAvatar", "press", "within"),
     uploadAvatar |-> Working(Act("savingAvatar", "press", "within"))]
ProfileButtons ==
    Greyed("sendingFriend", {"sendFriendReq", "acceptFriendReq"})
    \cup Greyed("savingAvatar", {"pickAvatar", "uploadAvatar"})
Profile == [Panel(ProfileFriends @@ ProfileAvatar, ProfileButtons) EXCEPT !.blank = {"loading", "error"}]

\* AuthView: a form's button is greyed while it is sent.
AuthActs ==
    [login |-> Act("loading", "never", "closes"), register |-> Act("loading", "never", "closes"),
     forgot |-> Act("forgotBusy", "never", "done")]
AuthButtons == Greyed("loading", {"login", "register"}) \cup Greyed("forgotBusy", {"forgot"})
Auth == [Dialog(AuthActs, AuthButtons) EXCEPT !.stays = {"loading"}]

-----------------------------------------------------------------------------
\* AdminView: nearly everything is asked about first, and little has a flag.
AdminActs ==
    Each({"approveSelected", "approve", "reject", "resolveTicket"}, Asking(Unguarded("later")))
    @@ [replyTicket |-> Unguarded("later"),
        treasury |-> Act("treasuryLoading", "never", "done")]
AdminButtons ==
    Always({"approveSelected", "approve", "reject", "resolveTicket", "replyTicket"})
    \cup Greyed("treasuryLoading", {"treasury"})
Admin ==
    [Panel(AdminActs, AdminButtons)
        EXCEPT !.again = {"loading", "ready", "error"}, !.stays = {"treasuryLoading"}]
AdminUsers == [Panel(<<>>, {}) EXCEPT !.searches = TRUE]
AdminUserActs ==
    Each({"adjust", "clearLiability", "setRole", "setState", "mute", "unmute"},
         Asking(Unguarded("later")))
    @@ [togglePerm |-> Unguarded("done")]
AdminUserButtons ==
    Always({"adjust", "clearLiability", "setRole", "setState", "mute", "unmute", "togglePerm"})
AdminUser == Dialog(AdminUserActs, AdminUserButtons)
AdminMatch ==
    Dialog([void |-> Asking(Act("busy", "never", "done"))], Greyed("busy", {"void"}))
AdminPools ==
    Panel(Each({"deleteTournament", "closeClub"}, Asking(Unguarded("later"))),
          Always({"deleteTournament", "closeClub"}))
AdminSeason ==
    Panel([start |-> Asking(Act("busy", "press", "done"))], Greyed("busy", {"start"}))

Rows ==
    {Friends, FriendsSearch, Clubs, ClubTournaments, ClubWarPanel, ClubChat, InviteFriends,
     Rewards, Shop, Tournaments, Wallet, Vip, Leaderboard, LobbyRooms, RankedModal,
     QuickMatchModal, JoinTeamModal, CreateRoomModal, Room, Profile, Auth, Admin, AdminUsers,
     AdminUser, AdminMatch, AdminPools, AdminSeason}

Flags == {row.acts[a].flag : a \in DOMAIN row.acts} \ {""}
Up(flag) == flag # "" /\ held[flag] # 0
Buttons == IF flat THEN row.whenFlat ELSE row.upright
\* The page offers the action: a button that no flag greys.
Offered(a) ==
    /\ screen \notin row.blank
    /\ \E b \in Buttons : b[2] = a /\ ~Up(b[1])

Load(n, for) ==
    [n |-> n, mount |-> mount, got |-> -1, query |-> query, for |-> for, silent |-> row.quiet]
\* A load that the page shows itself waiting for.
Loud(n) == [Load(n, 0) EXCEPT !.silent = FALSE]
Fresh == IF row.data THEN {Loud(0)} ELSE {}

Init ==
    /\ row \in Rows
    /\ flat = FALSE /\ mount = 1 /\ asked = Nothing
    /\ held = [f \in Flags |-> 0]
    /\ sends = {}
    /\ query = 0 /\ found = 0 /\ version = 0 /\ mine = 0 /\ shown = 0
    /\ loads = Fresh
    /\ screen = IF row.data THEN "loading" ELSE "ready"
    /\ count = 1 /\ presses = 0 /\ begun = 0

-----------------------------------------------------------------------------
\* The handler goes on only when its flag is down.
Checked(a, at) == row.acts[a].checks = at => ~Up(row.acts[a].flag)

\* The request goes out, with the flag up.
Send(a, others) ==
    LET f == row.acts[a].flag
    IN  /\ sends' = others \cup {[n |-> count, act |-> a, mount |-> mount, at |-> "sent"]}
        /\ held' = IF f = "" THEN held ELSE [held EXCEPT ![f] = count]
        /\ count' = count + 1

\* A press: the question, the work before the request, or the request.
press(a) ==
    /\ presses < MaxPresses /\ presses' = presses + 1
    /\ asked = Nothing
    /\ Offered(a) /\ Checked(a, "press")
    /\ IF row.acts[a].asks THEN asked' = a /\ UNCHANGED <<sends, held, count>>
       ELSE /\ UNCHANGED asked
            /\ IF row.acts[a].works
               THEN /\ sends' = sends \cup {[n |-> count, act |-> a, mount |-> mount, at |-> "work"]}
                    /\ count' = count + 1 /\ UNCHANGED held
               ELSE Checked(a, "send") /\ Send(a, sends)
    /\ UNCHANGED <<row, flat, mount, loads, screen, version, mine, shown, query, found, begun>>

\* The question is answered: the handler goes on, or gives up.
finish(yes) ==
    /\ asked # Nothing /\ asked' = Nothing
    /\ IF yes /\ Checked(asked, "send") THEN Send(asked, sends)
       ELSE UNCHANGED <<sends, held, count>>
    /\ UNCHANGED <<row, flat, mount, loads, screen, version, mine, shown, query, found,
                   presses, begun>>

\* uploadAvatar: the photo is small enough to send.
photoReady(s) ==
    /\ s \in sends /\ s.at = "work"
    /\ Send(s.act, sends \ {s})
    /\ UNCHANGED <<row, flat, mount, asked, loads, screen, version, mine, shown, query, found,
                   presses, begun>>

-----------------------------------------------------------------------------
Lowered(n) == [f \in Flags |-> IF held[f] = n THEN 0 ELSE held[f]]

\* A new mount begins with nothing; what is under way goes on without it.
Remount(under, flags) ==
    /\ mount' = mount + 1 /\ asked' = Nothing
    /\ sends' = {s \in under : s.at # "reload"}
    /\ held' = [f \in Flags |-> IF f \in row.stays THEN flags[f] ELSE 0]
    /\ loads' = IF row.data THEN {[Loud(count) EXCEPT !.mount = mount + 1, !.query = 0]} ELSE {}
    /\ screen' = IF row.data THEN "loading" ELSE "ready"
    /\ mine' = 0 /\ shown' = 0 /\ found' = 0 /\ query' = 0
    /\ count' = count + 1

\* Another page and back, another tab of the page, the dialog closed and opened.
setView ==
    /\ mount < MaxMounts
    /\ Remount(sends, held)
    /\ UNCHANGED <<row, flat, version, presses, begun>>

\* The phone is turned: the page keeps its state and shows its other layout.
useLandscapePage ==
    /\ row.whenFlat # row.upright
    /\ flat' = ~flat
    /\ UNCHANGED <<row, mount, asked, held, sends, loads, screen, version, mine, shown, query,
                   found, count, presses, begun>>

\* The server did it.
succeeds(s) ==
    LET then == row.acts[s.act].then
        here == s.mount = mount
        rest == sends \ {s}
        within == here /\ then = "within" /\ row.data
    IN  /\ s \in sends /\ s.at = "sent"
        /\ version' = version + 1
        /\ IF here /\ then = "closes" /\ mount < MaxMounts THEN Remount(rest, Lowered(s.n))
           ELSE /\ mine' = IF here THEN version + 1 ELSE mine
                /\ held' = IF within THEN held ELSE Lowered(s.n)
                /\ sends' = IF within THEN rest \cup {[s EXCEPT !.at = "reload"]} ELSE rest
                /\ IF here /\ row.data /\ then \in {"within", "after", "later"}
                   THEN /\ loads' = loads \cup {Load(count, IF within THEN s.n ELSE 0)}
                        /\ screen' = IF then = "after" THEN "loading" ELSE screen
                        /\ count' = count + 1
                   ELSE UNCHANGED <<loads, screen, count>>
                /\ UNCHANGED <<mount, asked, shown, query, found>>
        /\ UNCHANGED <<row, flat, presses, begun>>

\* It refused, or did not answer: the player is told.
fails(s) ==
    /\ s \in sends /\ s.at = "sent"
    /\ sends' = sends \ {s}
    /\ held' = Lowered(s.n)
    /\ UNCHANGED <<row, flat, mount, asked, loads, screen, version, mine, shown, query, found,
                   count, presses, begun>>

-----------------------------------------------------------------------------
(* Loads.                                                                  *)

\* A timer or a push, unless an action holds it back; the button; another word or tab.
poll ==
    /\ row.polls /\ \A f \in row.paused : ~Up(f)
    /\ begun < MaxLoads /\ begun' = begun + 1
    /\ loads' = loads \cup {Load(count, 0)} /\ count' = count + 1
    /\ UNCHANGED <<row, flat, mount, asked, held, sends, screen, version, mine, shown, query,
                   found, presses>>

reload ==
    /\ screen \in row.again /\ asked = Nothing
    /\ begun < MaxLoads /\ begun' = begun + 1
    /\ loads' = loads \cup {Loud(count)} /\ count' = count + 1
    /\ screen' = "loading"
    /\ UNCHANGED <<row, flat, mount, asked, held, sends, version, mine, shown, query, found,
                   presses>>

choose ==
    /\ row.searches
    /\ begun < MaxLoads /\ begun' = begun + 1
    /\ query' = query + 1
    /\ loads' = loads \cup {[Loud(count) EXCEPT !.query = query + 1]} /\ count' = count + 1
    /\ screen' = "loading"
    /\ UNCHANGED <<row, flat, mount, asked, held, sends, version, mine, shown, found, presses>>

\* The server reads what it has, and later the answer arrives.
reads(l) ==
    /\ l \in loads /\ l.got = -1
    /\ loads' = (loads \ {l}) \cup {[l EXCEPT !.got = version]}
    /\ UNCHANGED <<row, flat, mount, asked, held, sends, screen, version, mine, shown, query,
                   found, count, presses, begun>>

\* The action that waited for its load is over.
Over(l) ==
    /\ sends' = {s \in sends : s.n # l.for \/ s.at # "reload"}
    /\ held' = IF l.for = 0 THEN held ELSE Lowered(l.for)

\* loadSeq, searchSeq: a newer load has begun.
Stale(l) == row.newest /\ l.n < count - 1

arrives(l) ==
    /\ l \in loads /\ l.got # -1
    /\ loads' = loads \ {l}
    /\ IF Stale(l) THEN UNCHANGED <<shown, found, screen>>
       ELSE shown' = l.got /\ found' = l.query /\ screen' = "ready"
    /\ Over(l)
    /\ UNCHANGED <<row, flat, mount, asked, version, mine, query, count, presses, begun>>

loadFails(l) ==
    /\ l \in loads
    /\ loads' = loads \ {l}
    /\ screen' = IF Stale(l) \/ l.silent THEN screen ELSE "error"
    /\ Over(l)
    /\ UNCHANGED <<row, flat, mount, asked, version, mine, shown, query, found, count, presses,
                   begun>>

Next ==
    \/ \E a \in DOMAIN row.acts : press(a)
    \/ \E yes \in BOOLEAN : finish(yes)
    \/ \E s \in sends : photoReady(s) \/ succeeds(s) \/ fails(s)
    \/ setView
    \/ useLandscapePage
    \/ poll
    \/ reload
    \/ choose
    \/ \E l \in loads : reads(l) \/ arrives(l) \/ loadFails(l)

Spec == Init /\ [][Next]_pageVars

-----------------------------------------------------------------------------
\* The flag that a photo, while it is made small, does not raise.
Leaky == {"savingAvatar"}

\* What the flags are for ("so a rapid click can't double-fire"): of one mount, no two
\* actions under one flag are ever under way, however presses, questions, answers and
\* turns of the phone fall.
OneAtATime ==
    \A s, t \in sends :
        LET f == row.acts[s.act].flag
        IN  (/\ s.n # t.n /\ s.mount = t.mount
             /\ s.at # "work" /\ t.at # "work"
             /\ f \notin Leaky \cup {""})
            => row.acts[t.act].flag # f

\* No button stays greyed for nothing: a flag that is up has its action under way.
NeverStuck == \A f \in Flags : Up(f) => \E s \in sends : s.n = held[f]

\* The page says that it could not load.  A failed load that it keeps to itself leaves what
\* was there, with the look of an answer.
Told == screen = "error" /\ ~(flat /\ row.untold)
Untold == screen = "error" /\ flat /\ row.untold

\* A page that offers nothing while it loads, and that neither a timer nor a button reloads,
\* shows, once it is done, the player's own last change, unless it says that it could not
\* load; the page of a club, held flat, does not say it (ClubsView.tsx has the error in the
\* other three of its four layouts).
OwnChangesShow ==
    (/\ "loading" \in row.blank /\ "ready" \notin row.again /\ ~row.polls
     /\ Flags \cap Leaky = {}
     /\ loads = {} /\ screen # "loading"
     /\ \A s \in sends : s.mount # mount)
    => shown >= mine \/ Told \/ Untold

\* A guarded search, or tab, ends with the answer to what the player asked last.
NewestAnswerShows ==
    (row.searches /\ row.newest /\ loads = {} /\ screen = "ready") => found = query
=============================================================================
