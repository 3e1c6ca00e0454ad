-------------------------------- MODULE Quests --------------------------------
(***************************************************************************)
(* The quests of a day and of a week, and the daily reward with its        *)
(* streak, for one player: quests.ts and RewardsService (packages/server/  *)
(* src/rewards).  A request takes the time when it arrives, waits for the  *)
(* player's lock, reads the row, and writes what it made of it; midnight,  *)
(* matches and other requests come in between.  All quests here count      *)
(* games; those about a level or a streak need no anchor.                  *)
(***************************************************************************)
EXTENDS Integers, FiniteSets

CONSTANTS
    Requests,       \* requests of the player's clients
    DailyPool,      \* day -> the quests of the day: dailyQuestsFor
    WeeklyPool,     \* the quests of every week: weeklyQuestsFor
    Goal,           \* quest -> games it asks for
    DaysPerWeek,
    MaxDay,         \* bound on days
    MaxGames        \* bound on games

VARIABLES
    day,            \* the calendar
    row,            \* the user's row: [games, daily, weekly, claimed, lastDaily, streak]
    lock,           \* the request inside withUserLock
    req,            \* request -> [at, quest, now, u]: its step, and the row it read
    began,          \* day -> games played before it (history)
    granted         \* claim key -> how often its XP was granted (history)

questVars == <<day, row, lock, req, began, granted>>

Days == 0..MaxDay
utcDayKey(d) == d
isoWeekKey(d) == d \div DaysPerWeek
Quests == DOMAIN Goal
DailyReward == "reward"
Free == "nobody"
NoAnchor == [period |-> -1, games |-> 0]
Row0 == [games |-> 0, daily |-> NoAnchor, weekly |-> NoAnchor, claimed |-> {}, lastDaily |-> -1, streak |-> 0]
Idle == [at |-> "idle", quest |-> DailyReward, now |-> 0, u |-> Row0]

\* Composite claim keys: a quest of a day, of a week, and the reward of a day.
ClaimKey(q, d) == <<IF q \in WeeklyPool THEN isoWeekKey(d) ELSE utcDayKey(d), q>>
Keys == Days \X (Quests \cup {DailyReward})

Init ==
    /\ day = 0 /\ row = Row0 /\ lock = Free
    /\ req = [r \in Requests |-> Idle]
    /\ began = [d \in Days |-> 0]
    /\ granted = [k \in Keys |-> 0]

-----------------------------------------------------------------------------
\* Midnight.
midnight ==
    /\ day < MaxDay
    /\ day' = day + 1
    /\ began' = [began EXCEPT ![day + 1] = row.games]
    /\ UNCHANGED <<row, lock, req, granted>>

\* applyMatchResult: an atomic increment.
applyMatchResult ==
    /\ row.games < MaxGames
    /\ row' = [row EXCEPT !.games = @ + 1]
    /\ UNCHANGED <<day, lock, req, began, granted>>

-----------------------------------------------------------------------------
(* Anchors.                                                                *)

\* Mutant of effectiveAnchor: an anchor once stored is kept.
effectiveAnchor_kept(u, period, stored) ==
    IF stored # NoAnchor THEN stored ELSE [period |-> period, games |-> u.games]
\* The stored anchor of the period, or the statistics as they are now.
effectiveAnchor(u, period, stored) ==
    IF stored.period = period THEN stored ELSE [period |-> period, games |-> u.games]

Daily(r) == effectiveAnchor(req[r].u, utcDayKey(req[r].now), req[r].u.daily)
Weekly(r) == effectiveAnchor(req[r].u, isoWeekKey(req[r].now), req[r].u.weekly)

\* questPeriodProgress: games since the anchor.
questPeriodProgress(u, anchor) == IF u.games >= anchor.games THEN u.games - anchor.games ELSE 0

\* resolveAnchors writes the anchors that changed.
Anchored(r) ==
    LET u == req[r].u
    IN  [row EXCEPT !.daily = IF Daily(r) # u.daily THEN Daily(r) ELSE @,
                    !.weekly = IF Weekly(r) # u.weekly THEN Weekly(r) ELSE @]

-----------------------------------------------------------------------------
(* Requests.                                                               *)

At(r, s) == req' = [req EXCEPT ![r].at = s]
Done(r) == req' = [req EXCEPT ![r] = Idle]
Unlock(r) == lock' = IF lock = r THEN Free ELSE lock

\* status(): not under the lock, the row is read and the anchors are written.
status(r) ==
    /\ req[r] = Idle
    /\ req' = [req EXCEPT ![r] = [at |-> "status", quest |-> DailyReward, now |-> day, u |-> row]]
    /\ UNCHANGED <<day, row, lock, began, granted>>

statusAnchors(r) ==
    /\ req[r].at = "status"
    /\ row' = Anchored(r)
    /\ Done(r)
    /\ UNCHANGED <<day, lock, began, granted>>

\* claimDaily, claimDailyQuest, claimWeeklyQuest: the quest is of the period.
claim(r, q) ==
    /\ req[r] = Idle
    /\ q \in DailyPool[day] \cup WeeklyPool \cup {DailyReward}
    /\ req' = [req EXCEPT ![r] = [at |-> "waits", quest |-> q, now |-> day, u |-> Row0]]
    /\ UNCHANGED <<day, row, lock, began, granted>>

\* withUserLock: one claim of a player after the other.
withUserLock(r) == lock = Free /\ lock' = r

\* The row is read under the lock; what is claimed already is refused.
findById(r) ==
    LET q == req[r].quest
        refused == IF q = DailyReward THEN req[r].now <= row.lastDaily ELSE ClaimKey(q, req[r].now) \in row.claimed
    IN  /\ req[r].at = "waits"
        /\ IF refused THEN Done(r) /\ lock = Free /\ UNCHANGED lock
           ELSE /\ req' = [req EXCEPT ![r].u = row, ![r].at = IF q = DailyReward THEN "xp" ELSE "anchors"]
                /\ withUserLock(r)
        /\ UNCHANGED <<day, row, began, granted>>

\* resolveAnchors, and the goal.
resolveAnchors(r) ==
    LET q == req[r].quest
        progress == questPeriodProgress(req[r].u, IF q \in WeeklyPool THEN Weekly(r) ELSE Daily(r))
    IN  /\ req[r].at = "anchors"
        /\ row' = Anchored(r)
        /\ IF progress >= Goal[q] THEN At(r, "xp") /\ UNCHANGED lock ELSE Done(r) /\ Unlock(r)
        /\ UNCHANGED <<day, began, granted>>

addXp(r) ==
    LET k == ClaimKey(req[r].quest, req[r].now)
    IN  /\ req[r].at = "xp"
        /\ granted' = [granted EXCEPT ![k] = @ + 1]
        /\ At(r, "records")
        /\ UNCHANGED <<day, row, lock, began>>

\* A streak goes on from the day before.
Streak(u, now) == IF u.lastDaily = now - 1 THEN u.streak + 1 ELSE 1

\* setRewards, from what was read.
recordClaim(r) ==
    LET q == req[r].quest
        u == req[r].u
        now == req[r].now
    IN  /\ req[r].at = "records"
        /\ row' = IF q = DailyReward THEN [row EXCEPT !.lastDaily = now, !.streak = Streak(u, now)]
                  ELSE [row EXCEPT !.claimed = u.claimed \cup {ClaimKey(q, now)}]
        /\ Done(r) /\ Unlock(r)
        /\ UNCHANGED <<day, began, granted>>

\* The requests of rewardsRoutes that this module is about.
rewardsRoutes(r) == status(r) \/ \E q \in Quests \cup {DailyReward} : claim(r, q)

Next ==
    \/ midnight \/ applyMatchResult
    \/ \E r \in Requests : \/ rewardsRoutes(r) \/ statusAnchors(r) \/ findById(r) \/ resolveAnchors(r)
                           \/ addXp(r) \/ recordClaim(r)

-----------------------------------------------------------------------------
\* A quest's period begins at midnight of its first day.
FirstDay(k) == IF k[2] \in WeeklyPool THEN k[1] * DaysPerWeek ELSE k[1]

\* "a raw 'win 2 today' goal would read as already-done for any active player"
\* (quests.ts): what is granted for a period was granted once, and for games that
\* were played after the period began, however midnight, matches, a late status and
\* other claims come between reading the row and writing it.
QuestsAreEarned ==
    /\ \A k \in Keys : granted[k] <= 1
    /\ \A r \in Requests : LET k == ClaimKey(req[r].quest, req[r].now)
                           IN  req[r].at = "xp" /\ k[2] \in Quests =>
                                 req[r].u.games - began[FirstDay(k)] >= Goal[k[2]]

\* The daily streak counts days claimed one after the other (RewardsService.claimDaily).
StreakIsEarned ==
    \A i \in 0..(row.streak - 1) : granted[<<row.lastDaily - i, DailyReward>>] = 1
=============================================================================
