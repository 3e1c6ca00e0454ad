------------------------------- MODULE Rewards -------------------------------
(***************************************************************************)
(* Rewards and the shop of one player within one day and week, with all   *)
(* they are for completed: RewardsService (packages/server/src/rewards/    *)
(* rewardsService.ts) over the user's row.  Claims and money purchases     *)
(* hold the user's lock, XP purchases do not.  A call reads the row, and   *)
(* later writes whole columns made from what it read.                      *)
(***************************************************************************)
EXTENDS Integers

CONSTANTS
    XpClaims,    \* completed: the daily reward, challenges, quests
    Clients,     \* calls that may run at the same time
    MaxFaultsR   \* bound on database steps that fail, and crashes

VARIABLES
    recorded,  \* claims recorded in the row
    xpFor,     \* claim -> how often its XP was granted
    owned,     \* the cosmetics column
    charged,   \* cosmetics debited in the ledger
    spent,     \* cosmetics added to xpSpent
    holder,    \* the call that holds the user's lock
    errand,    \* call -> what it does and what it read
    unrecorded, \* claim -> how often it was, or will be, granted and not recorded (history)
    faultsR    \* failures and crashes so far

rewardVars == <<recorded, xpFor, owned, charged, spent, holder, errand,
                unrecorded, faultsR>>

Claims == XpClaims \cup {"level", "vipGift"}
\* The cosmetics that are given; "felt" costs money and "back" costs XP.
Prize == [level |-> "frame", vipGift |-> "gem"]
Nothing == "nothing"
NoOne == "nobody"
NoErrand == [pc |-> "idle", what |-> Nothing, owned |-> {}]

Init ==
    /\ recorded = {}
    /\ xpFor = [k \in Claims |-> 0]
    /\ owned = {}
    /\ charged = {}
    /\ spent = {}
    /\ holder = NoOne
    /\ errand = [c \in Clients |-> NoErrand]
    /\ unrecorded = [k \in Claims |-> 0]
    /\ faultsR = 0

-----------------------------------------------------------------------------
\* Mutant of withUserLock: the chain is not awaited.
withUserLock_not(c) == UNCHANGED holder

withUserLock(c) == holder = NoOne /\ holder' = c
Unlock(c) == holder' = IF holder = c THEN NoOne ELSE holder

\* A call reads the row; its next step is pc.
Reads(c, pc, what) ==
    /\ errand[c] = NoErrand
    /\ errand' = [errand EXCEPT ![c] = [pc |-> pc, what |-> what, owned |-> owned]]
Step(c, pc) == errand' = [errand EXCEPT ![c].pc = pc]
Finish(c) == errand' = [errand EXCEPT ![c] = NoErrand]

\* claimDaily, claimChallenge, claimDailyQuest, claimWeeklyQuest: completed and
\* not claimed; the XP first, then the record.
claim(c, k) ==
    /\ k \notin recorded
    /\ withUserLock(c)
    /\ Reads(c, "xp", k)
    /\ UNCHANGED <<recorded, xpFor, owned, charged, spent, unrecorded, faultsR>>

\* claimLevelReward: the record first, then the XP and the cosmetic.
claimLevelReward(c) ==
    /\ "level" \notin recorded
    /\ withUserLock(c)
    /\ Reads(c, "record", "level")
    /\ UNCHANGED <<recorded, xpFor, owned, charged, spent, unrecorded, faultsR>>

\* claimVipGift: a cosmetic the player does not have, or a little XP.
claimVipGift(c) ==
    /\ "vipGift" \notin recorded
    /\ withUserLock(c)
    /\ Reads(c, IF Prize["vipGift"] \in owned THEN "record" ELSE "gift", "vipGift")
    /\ UNCHANGED <<recorded, xpFor, owned, charged, spent, unrecorded, faultsR>>

\* addXp: an atomic increment.
addXp(c) ==
    LET k == errand[c].what
    IN  /\ errand[c].pc = "xp"
        /\ xpFor' = [xpFor EXCEPT ![k] = @ + 1]
        /\ IF k \in XpClaims THEN Step(c, "record") /\ UNCHANGED holder
           ELSE IF k = "level" THEN Step(c, "frame") /\ UNCHANGED holder
           ELSE Finish(c) /\ Unlock(c)
        /\ UNCHANGED <<recorded, owned, charged, spent, unrecorded, faultsR>>

Missed(k) == [unrecorded EXCEPT ![k] = @ + 1]
\* setRewards of the mark of a claim k.  A failed update is swallowed, and the claim goes
\* on as if it had been written.
setRewards(k) ==
    \/ recorded' = recorded \cup {k} /\ UNCHANGED faultsR
    \/ /\ faultsR < MaxFaultsR
       /\ faultsR' = faultsR + 1
       /\ UNCHANGED recorded

recordClaim(c) ==
    LET k == errand[c].what
    IN  /\ errand[c].pc = "record"
        /\ setRewards(k)
        /\ unrecorded' = IF k \in recorded' THEN unrecorded ELSE Missed(k)
        /\ IF k \in XpClaims THEN Finish(c) /\ Unlock(c) ELSE Step(c, "xp") /\ UNCHANGED holder
        /\ UNCHANGED <<xpFor, owned, charged, spent>>

\* The level's cosmetic is pushed if it is not there; a failure is ignored.
grantFrame(c) ==
    /\ errand[c].pc = "frame"
    /\ owned' \in {owned, owned \cup {Prize["level"]}}
    /\ Finish(c) /\ Unlock(c)
    /\ UNCHANGED <<recorded, xpFor, charged, spent, unrecorded, faultsR>>

\* The gift and the mark are one write, of the whole cosmetics column: both or neither.
grantGift(c) ==
    /\ errand[c].pc = "gift"
    /\ setRewards("vipGift")
    /\ owned' = IF "vipGift" \in recorded' THEN errand[c].owned \cup {Prize["vipGift"]} ELSE owned
    /\ Finish(c) /\ Unlock(c)
    /\ UNCHANGED <<xpFor, charged, spent, unrecorded>>

-----------------------------------------------------------------------------
\* buy(): under the lock, the debit and the grant are one transaction.
buy(c) ==
    /\ "felt" \notin owned
    /\ withUserLock(c)
    /\ Reads(c, "pay", "felt")
    /\ UNCHANGED <<recorded, xpFor, owned, charged, spent, unrecorded, faultsR>>

\* It pays and grants, or neither (too little money, a refused grant).
pay(c) ==
    /\ errand[c].pc = "pay"
    /\ \/ /\ "felt" \notin owned
          /\ charged' = charged \cup {"felt"}
          /\ owned' = owned \cup {"felt"}
       \/ UNCHANGED <<charged, owned>>
    /\ Finish(c) /\ Unlock(c)
    /\ UNCHANGED <<recorded, xpFor, spent, unrecorded, faultsR>>

\* buyXp(): not under the lock; one update of two columns.
buyXp(c) ==
    /\ "back" \notin owned
    /\ Reads(c, "payXp", "back")
    /\ UNCHANGED <<recorded, xpFor, owned, charged, spent, holder, unrecorded, faultsR>>

payXp(c) ==
    /\ errand[c].pc = "payXp"
    /\ \/ /\ "back" \notin owned
          /\ spent' = spent \cup {"back"}
          /\ owned' = owned \cup {"back"}
       \/ UNCHANGED <<spent, owned>>
    /\ Finish(c)
    /\ UNCHANGED <<recorded, xpFor, charged, holder, unrecorded, faultsR>>

-----------------------------------------------------------------------------
\* A database step throws, or the process is restarted: the call ends, the lock is
\* released.  Granted and not recorded, a claim may be made again.
rewardFails(c) ==
    /\ errand[c] # NoErrand /\ faultsR < MaxFaultsR
    /\ faultsR' = faultsR + 1
    /\ unrecorded' = IF errand[c].pc = "record" /\ errand[c].what \in XpClaims
                   THEN Missed(errand[c].what) ELSE unrecorded
    /\ Finish(c) /\ Unlock(c)
    /\ UNCHANGED <<recorded, xpFor, owned, charged, spent>>

Next ==
    \E c \in Clients :
         \/ \E k \in XpClaims : claim(c, k)
         \/ claimLevelReward(c) \/ claimVipGift(c) \/ addXp(c) \/ recordClaim(c) \/ grantFrame(c)
         \/ grantGift(c) \/ buy(c) \/ pay(c) \/ buyXp(c) \/ payXp(c) \/ rewardFails(c)

-----------------------------------------------------------------------------
\* A reward is granted once however many claims overlap (rewardsService.ts
\* withUserLock), and once more for each time that its record was lost, whether the
\* failure was noticed or not; while it stands unrecorded it was not granted besides.
GrantedOnce ==
    \A k \in Claims :
      /\ xpFor[k] <= unrecorded[k] + 1
      /\ holder = NoOne /\ k \notin recorded => xpFor[k] <= unrecorded[k]

\* A cosmetic paid for with money is owned, and an owned one was paid for: no
\* claim's write of the whole column loses a purchase.
PaidIsOwned == "felt" \in owned <=> "felt" \in charged
=============================================================================
