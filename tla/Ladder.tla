------------------------------- MODULE Ladder -------------------------------
(***************************************************************************)
(* The ranked seasons and the badges: RankedService, ranking.ts and the    *)
(* statistics of ProfileService (packages/server/src/ranked, profile) over *)
(* their Prisma repositories.  Each await of the database is a step.       *)
(* A match is recorded for its human seats only.  Elo is kept as far as    *)
(* the direction and the bounds of a swing.                                *)
(***************************************************************************)
EXTENDS Integers, FiniteSets
LOCAL INSTANCE FiniteSetsExt

CONSTANTS
    Players,        \* numbers: topByRating breaks its last tie by user id
    Managers,       \* administrators who open seasons
    Ids,            \* the matches that end
    Default,        \* DEFAULT_RATING
    KFactor,        \* K_FACTOR
    Top3, Finalists,\* SEASON_TOP3, SEASON_FINALIST_TOP
    MaxSeasons,     \* bound on the number of a season
    MaxBusy,        \* bound on the calls under way
    MaxCrashes      \* bound on restarts

VARIABLES
    season,     \* season number -> "none", "active" or "archived"
    standing,   \* season number -> player -> the row of the player, or NoRow
    recording,  \* match -> its recordMatchResult
    opening,    \* caller of createSeason -> how far it is
    stats,      \* player -> [games, wins]: the columns of the user row
    badges,     \* player -> user.badges
    viewing,    \* player -> the badges getProfile is about to write
    process,    \* "up", or "down" before its boot
    crashes     \* restarts so far

ladderVars == <<season, standing, recording, opening, stats, badges, viewing, process, crashes>>

Seasons == 1..MaxSeasons
Boot == "boot"
Callers == Managers \cup {Boot}
NoRow == [rating |-> -1, peak |-> -1, games |-> 0, wins |-> 0]
Fresh(r) == [rating |-> r, peak |-> r, games |-> 0, wins |-> 0]
NoRecording == [at |-> "none", season |-> 0, winners |-> {}, held |-> [p \in {} |-> NoRow], left |-> {}]
Recorded == [NoRecording EXCEPT !.at = "over"]
NotOpening == [at |-> "none", prev |-> 0, rows |-> [p \in Players |-> NoRow], due |-> [p \in {} |-> {}]]
Badge(n, kind) == <<n, kind>>
Larger(a, b) == IF a >= b THEN a ELSE b

\* getActiveSeason: the newest of the active ones, 0 for none.
getActiveSeason ==
    LET active == {n \in Seasons : season[n] = "active"}
    IN  IF active = {} THEN 0 ELSE CHOOSE n \in active : \A k \in active : k <= n

\* One call more may begin.
Begins ==
    /\ process = "up"
    /\ Cardinality({m \in Ids : recording[m] \notin {NoRecording, Recorded}})
         + Cardinality({c \in Callers : opening[c] # NotOpening})
         + Cardinality({p \in Players : viewing[p] # {}}) < MaxBusy

Init ==
    /\ season = [n \in Seasons |-> IF n = 1 THEN "active" ELSE "none"]
    /\ standing = [n \in Seasons |-> [p \in Players |-> NoRow]]
    /\ recording = [m \in Ids |-> NoRecording]
    /\ opening = [c \in Callers |-> NotOpening]
    /\ stats = [p \in Players |-> [games |-> 0, wins |-> 0]]
    /\ badges = [p \in Players |-> {}]
    /\ viewing = [p \in Players |-> {}]
    /\ process = "up" /\ crashes = 0

-----------------------------------------------------------------------------
(* Ratings.                                                                *)

\* expectedScore, times K: half against an equal, less of a gain when favoured.
Swings(r, opponent, won) ==
    IF r = opponent THEN {KFactor \div 2}
    ELSE IF (r > opponent) = won THEN 0..(KFactor \div 2) ELSE (KFactor \div 2)..KFactor

calculateNewRating(r, swing, won) == Larger(0, IF won THEN r + swing ELSE r - swing)

\* Mean of the other seats; a lone human meets a bot of equal rating.
OpponentAvg(held, p) ==
    LET others == DOMAIN held \ {p}
    IN  IF others = {} THEN held[p].rating
        ELSE held[CHOOSE o \in others : TRUE].rating

\* softReset with the default decay: half way back to the default, rounded.
softReset(peak) == Larger(0, (peak + Default + 1) \div 2)

Counted(c, won) == [games |-> c.games + 1, wins |-> c.wins + (IF won THEN 1 ELSE 0)]

-----------------------------------------------------------------------------
(* The end of a match.                                                     *)

\* recordMatchStats and recordRankedResult, for a match somebody won: statistics
\* in one atomic update each, and the season is read.  One human alone played bots.
recordRankedResult(m, seats, winners) ==
    /\ Begins /\ recording[m] = NoRecording
    /\ stats' = [p \in Players |-> IF p \in seats THEN Counted(stats[p], p \in winners) ELSE stats[p]]
    /\ recording' = [recording EXCEPT ![m] = IF getActiveSeason = 0 THEN Recorded ELSE
         [NoRecording EXCEPT !.at = "reads", !.season = getActiveSeason, !.winners = winners, !.left = seats]]
    /\ UNCHANGED <<season, standing, opening, badges, viewing, process, crashes>>

\* ensureUserSeason: the rows are read, and those missing are written.
ensureUserSeason(m) ==
    LET r == recording[m]
        row == standing[r.season]
        new == {p \in r.left : row[p] = NoRow}
    IN  /\ r.at = "reads"
        /\ recording' = [recording EXCEPT
             ![m].held = [p \in r.left |-> IF p \in new THEN Fresh(Default) ELSE row[p]],
             ![m].at = IF new = {} THEN "writes" ELSE "creates", ![m].left = IF new = {} THEN r.left ELSE new]
        /\ UNCHANGED <<season, standing, opening, stats, badges, viewing, process, crashes>>

createRow(m) ==
    LET r == recording[m]
    IN  /\ r.at = "creates"
        /\ standing' = [standing EXCEPT ![r.season] =
             [p \in Players |-> IF p \in r.left THEN Fresh(Default) ELSE @[p]]]
        /\ recording' = [recording EXCEPT ![m].at = "writes", ![m].left = DOMAIN r.held]
        /\ UNCHANGED <<season, opening, stats, badges, viewing, process, crashes>>

\* upsertUserSeason: one row after the other, from what was read of all.
recordMatchResult(m, p) ==
    LET r == recording[m]
        won == p \in r.winners
    IN  /\ r.at = "writes" /\ p \in r.left
        /\ \E swing \in Swings(r.held[p].rating, OpponentAvg(r.held, p), won) :
             LET new == calculateNewRating(r.held[p].rating, swing, won)
             IN  standing' = [standing EXCEPT ![r.season][p] =
                   [rating |-> new, peak |-> Larger(r.held[p].peak, new),
                    games |-> r.held[p].games + 1, wins |-> r.held[p].wins + (IF won THEN 1 ELSE 0)]]
        /\ recording' = [recording EXCEPT ![m] = IF r.left = {p} THEN Recorded ELSE [@ EXCEPT !.left = @ \ {p}]]
        /\ UNCHANGED <<season, opening, stats, badges, viewing, process, crashes>>

-----------------------------------------------------------------------------
(* A new season.                                                           *)

Step(c, at) == opening' = [opening EXCEPT ![c].at = at]

\* The active season is read; boot opens the first one when there is none.
createSeason(c) ==
    /\ opening[c].at = "none"
    /\ IF c = Boot THEN process = "down" ELSE Begins
    /\ IF c = Boot /\ getActiveSeason # 0
       THEN process' = "up" /\ UNCHANGED opening
       ELSE /\ opening' = [opening EXCEPT ![c].prev = getActiveSeason,
                                         ![c].at = IF getActiveSeason = 0 THEN "creates" ELSE "archives"]
            /\ UNCHANGED process
    /\ UNCHANGED <<season, standing, recording, stats, badges, viewing, crashes>>

archiveSeason(c) ==
    /\ opening[c].at = "archives"
    /\ season' = [season EXCEPT ![opening[c].prev] = "archived"]
    /\ Step(c, "creates")
    /\ UNCHANGED <<standing, recording, stats, badges, viewing, process, crashes>>

\* Season.number is unique.
Taken(n) == season[n] # "none"

\* A number that is taken makes the call fail.
createRowOfSeason(c) ==
    LET n == opening[c].prev + 1
    IN  /\ opening[c].at = "creates" /\ n \in Seasons
        /\ season' = IF Taken(n) THEN season ELSE [season EXCEPT ![n] = "active"]
        /\ opening' = [opening EXCEPT ![c] = IF Taken(n) \/ opening[c].prev = 0 THEN NotOpening ELSE [@ EXCEPT !.at = "ranks"]]
        /\ process' = IF c = Boot THEN "up" ELSE process
        /\ UNCHANGED <<standing, recording, stats, badges, viewing, crashes>>

\* topByRating: by rating, by peak, by id.
Above(a, b, rows) ==
    \/ rows[a].rating > rows[b].rating
    \/ rows[a].rating = rows[b].rating /\ rows[a].peak > rows[b].peak
    \/ rows[a].rating = rows[b].rating /\ rows[a].peak = rows[b].peak /\ a < b
Ranked(rows) == {p \in Players : rows[p] # NoRow}
Rank(p, rows) == Cardinality({o \in Ranked(rows) : Above(o, p, rows)})

Earns(n, rank) ==
    {Badge(n, "finalist")} \cup (IF rank < Top3 THEN {Badge(n, "top3")} ELSE {})
                           \cup (IF rank = 0 THEN {Badge(n, "champion")} ELSE {})

\* grantSeasonBadges: the final standings and the badges of those in them are
\* read, and each list is written whole.
grantSeasonBadges(c) ==
    LET n == opening[c].prev
        rows == standing[n]
        top == {p \in Ranked(rows) : Rank(p, rows) < Finalists}
    IN  /\ opening[c].at = "ranks"
        /\ opening' = [opening EXCEPT ![c].at = IF top = {} THEN "lists" ELSE "grants",
                                     ![c].due = [p \in top |-> badges[p] \cup Earns(n, Rank(p, rows))]]
        /\ UNCHANGED <<season, standing, recording, stats, badges, viewing, process, crashes>>

grantBadge(c, p) ==
    LET due == opening[c].due
    IN  /\ opening[c].at = "grants" /\ p \in DOMAIN due
        /\ badges' = [badges EXCEPT ![p] = due[p]]
        /\ opening' = [opening EXCEPT ![c].due = [o \in DOMAIN due \ {p} |-> due[o]],
                                     ![c].at = IF DOMAIN due = {p} THEN "lists" ELSE @]
        /\ UNCHANGED <<season, standing, recording, stats, viewing, process, crashes>>

\* listUserSeasons: what is carried over ...
listUserSeasons(c) ==
    LET rows == standing[opening[c].prev]
    IN  /\ opening[c].at = "lists"
        /\ opening' = [opening EXCEPT ![c] = IF Ranked(rows) = {} THEN NotOpening ELSE [@ EXCEPT !.rows = rows, !.at = "seeds"]]
        /\ UNCHANGED <<season, standing, recording, stats, badges, viewing, process, crashes>>

\* Mutant of Seed: the games of the old season come along.
Seed_games(row) == [Fresh(softReset(row.peak)) EXCEPT !.games = row.games]
Seed(row) == Fresh(softReset(row.peak))

\* ... and written over whatever is there, one row after the other.
carry(c, p) ==
    LET o == opening[c]
    IN  /\ o.at = "seeds" /\ o.rows[p] # NoRow
        /\ standing' = [standing EXCEPT ![o.prev + 1][p] = Seed(o.rows[p])]
        /\ opening' = [opening EXCEPT ![c] = IF Ranked(o.rows) = {p} THEN NotOpening ELSE [@ EXCEPT !.rows[p] = NoRow]]
        /\ UNCHANGED <<season, recording, stats, badges, viewing, process, crashes>>

-----------------------------------------------------------------------------
(* Achievements, granted when a profile is looked at.                      *)

\* newlyEarnedAchievements, of which the first win stands for all.
newlyEarnedAchievements(p) == IF stats[p].wins >= 1 THEN {Badge(0, "first_win")} \ badges[p] ELSE {}

getProfile(p) ==
    /\ Begins /\ viewing[p] = {} /\ newlyEarnedAchievements(p) # {}
    /\ viewing' = [viewing EXCEPT ![p] = badges[p] \cup newlyEarnedAchievements(p)]
    /\ UNCHANGED <<season, standing, recording, opening, stats, badges, process, crashes>>

setRewards(p) ==
    /\ viewing[p] # {}
    /\ badges' = [badges EXCEPT ![p] = viewing[p]]
    /\ viewing' = [viewing EXCEPT ![p] = {}]
    /\ UNCHANGED <<season, standing, recording, opening, stats, process, crashes>>

\* The process dies, with everything it was doing.
crash ==
    /\ process = "up" /\ crashes < MaxCrashes
    /\ process' = "down" /\ crashes' = crashes + 1
    /\ recording' = [m \in Ids |-> IF recording[m] = NoRecording THEN NoRecording ELSE Recorded]
    /\ opening' = [c \in Callers |-> NotOpening]
    /\ viewing' = [p \in Players |-> {}]
    /\ UNCHANGED <<season, standing, stats, badges>>

Next ==
    \/ \E m \in Ids :
         \/ \E seats \in SUBSET Players, winner \in Players : winner \in seats /\ recordRankedResult(m, seats, {winner})
         \/ ensureUserSeason(m) \/ createRow(m) \/ \E p \in Players : recordMatchResult(m, p)
    \/ \E c \in Callers :
         \/ createSeason(c) \/ archiveSeason(c) \/ createRowOfSeason(c) \/ grantSeasonBadges(c)
         \/ listUserSeasons(c) \/ \E p \in Players : grantBadge(c, p) \/ carry(c, p)
    \/ \E p \in Players : getProfile(p) \/ setRewards(p)
    \/ crash

-----------------------------------------------------------------------------
\* Over all seasons of a player.
Total(p, field) == MapThenSumSet(LAMBDA n : standing[n][p][field], Seasons)

\* A match is rated once: over all seasons a player has no more games and no more
\* wins than the statistics count, however recording a result and opening a season
\* overlap (RankedService.recordMatchResult, createSeason).
RatedOnce ==
    \A p \in Players :
      /\ Total(p, "games") <= stats[p].games
      /\ Total(p, "wins") <= stats[p].wins
      /\ \A n \in Seasons : standing[n][p].rating <= standing[n][p].peak /\ standing[n][p].wins <= standing[n][p].games

\* A season has one champion, although two administrators may open the next one at
\* once and results still come in (RankedService.grantSeasonBadges).
OneChampion ==
    \A n \in Seasons : Cardinality({p \in Players : Badge(n, "champion") \in badges[p]}) <= 1
=============================================================================
