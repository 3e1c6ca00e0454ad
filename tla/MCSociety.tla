----------------------------- MODULE MCSociety -----------------------------
(***************************************************************************)
(* Parts of the server around the tables that share no state, in one run:  *)
(* friends, clubs, the ladder, quests and the lobby.  Each behaviour is of *)
(* the part that `running` names.                                          *)
(***************************************************************************)
EXTENDS Integers, TLC

CONSTANTS ana, ben, cen

VARIABLES
    running,
    rows, lastId, work, decided, unread, gone,
    clubs, roster, founders, task, joinChain, posts, muted, hears, reports,
    season, standing, recording, opening, stats, badges, viewing, process, crashes,
    day, row, lock, req, began, granted,
    setting, rooms, home, sock, offers, inviting

Social == INSTANCE Friends WITH
    Users <- {"ana", "ben"}, MaxRows <- 2, MaxUnread <- 1
Club == INSTANCE Clubs WITH
    People <- {ana, ben, cen}, ClubIds <- {"c"}, MaxMembers <- 2, MaxPosts <- 1, MaxBusy <- 2,
    MaxTalk <- 1
Season == INSTANCE Ladder WITH
    Players <- 1..2, Managers <- {ana, ben}, Ids <- {"m"}, Default <- 2, KFactor <- 2, Top3 <- 1,
    Finalists <- 2, MaxSeasons <- 2, MaxBusy <- 2, MaxCrashes <- 1

\* The quest of day 1 asks for one game, that of a week of two days for two.
Quest == INSTANCE Quests WITH
    Requests <- {"r1", "r2"}, DailyPool <- 0 :> {} @@ 1 :> {"one"} @@ 2 :> {}, WeeklyPool <-
    {"week"}, Goal <- [one |-> 1, week |-> 1], DaysPerWeek <- 2, MaxDay <- 2, MaxGames <- 1

\* Two rooms, of one user with two tabs or of two users; one room and two tabs; a
\* room of every kind, with a spectator; a table of two teams.
Table(type, sockets, watchers, kinds, n) ==
    [type |-> type, sockets |-> sockets, watchers |-> watchers, kinds |-> kinds, rooms |-> n]
LobbySettings ==
    {Table("1v1", {11, 12}, {}, {"free"}, 2), Table("1v1", {11, 21}, {}, {"free"}, 2),
     Table("1v1", {11, 12, 21}, {21}, {"free"}, 1),
     Table("1v1", {11, 21}, {21}, {"free", "staked", "private"}, 1),
     Table("2v2", {11, 21, 31}, {31}, {"free"}, 1)}
Rooms == INSTANCE Lobby WITH
    MaxRooms <- 2, Settings <- LobbySettings

friendsVars == <<rows, lastId, work, decided, unread, gone>>
clubsVars == <<clubs, roster, founders, task, joinChain, posts, muted, hears, reports>>
ladderVars == <<season, standing, recording, opening, stats, badges, viewing, process, crashes>>
questsVars == <<day, row, lock, req, began, granted>>
lobbyVars == <<setting, rooms, home, sock, offers, inviting>>

\* Parts that do not run stay in one initial state.
Init ==
    /\ running \in {"friends", "clubs", "ladder", "quests", "lobby"}
    /\ Social!Init
    /\ Club!Init
    /\ Season!Init
    /\ Quest!Init
    /\ Rooms!Init /\ (running # "lobby" => setting.type = "2v2")

Next ==
    /\ UNCHANGED running
    /\ \/ /\ running = "friends" /\ Social!Next
          /\ UNCHANGED <<clubsVars, ladderVars, questsVars, lobbyVars>>
       \/ /\ running = "clubs" /\ Club!Next
          /\ UNCHANGED <<friendsVars, ladderVars, questsVars, lobbyVars>>
       \/ /\ running = "ladder" /\ Season!Next
          /\ UNCHANGED <<friendsVars, clubsVars, questsVars, lobbyVars>>
       \/ /\ running = "quests" /\ Quest!Next
          /\ UNCHANGED <<friendsVars, clubsVars, ladderVars, lobbyVars>>
       \/ /\ running = "lobby" /\ Rooms!Next
          /\ UNCHANGED <<friendsVars, clubsVars, ladderVars, questsVars>>

vars == <<running, friendsVars, clubsVars, ladderVars, questsVars, lobbyVars>>
Spec == Init /\ [][Next]_vars

\* Users, matches and requests are interchangeable.
Symmetry == Permutations({ana, ben, cen})

-----------------------------------------------------------------------------
\* Ladder: a match is rated once, and a season has one champion.  Quests: quests and
\* streaks are earned in their own period, and granted once.
MeritIsEarned ==
    /\ Season!RatedOnce /\ Season!OneChampion
    /\ Quest!QuestsAreEarned /\ Quest!StreakIsEarned
\* Friends: friends agreed to be friends, and a block is lifted by who made it.
\* Clubs: rosters fit, belong to a club and have one founder.
\* Lobby: a user has one seat, in the user's room, whatever the sockets have cached, and bots
\* sit at free tables.
CompanyIsSound ==
    /\ Social!FriendsAgreed /\ Social!BlocksAreKept
    /\ Club!ClubsFit /\ Club!RostersAreOfClubs
    /\ Rooms!SeatsAgree /\ Rooms!BotsPlayForFree
=============================================================================
