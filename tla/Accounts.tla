------------------------------ MODULE Accounts ------------------------------
(***************************************************************************)
(* One account and its sessions: AuthService (packages/server/src/auth/    *)
(* authService.ts), the refresh-token rows (refreshTokens.ts) and the      *)
(* account state (accountStateService.ts).  A call is a sequence of        *)
(* database steps and other calls run between them; what a call read of    *)
(* the user's row, it keeps.  A signed token carries the version it was    *)
(* stamped with; a row is named by its place in the order of creation.     *)
(* Anybody may present any token that was ever issued.  All steps fall     *)
(* within the life of a refresh token.                                     *)
(***************************************************************************)
EXTENDS Integers, Sequences

CONSTANTS
    Callers,      \* calls that may run at the same time
    MaxFailures,  \* loginThrottle.maxFailures
    States,       \* what administrators set accounts to
    MaxRows,      \* bound on refresh tokens issued
    MaxEras,      \* bound on resets, bans, suspensions and logouts everywhere
    MaxFaultsA    \* bound on calls that end half way

VARIABLES
    acct,      \* the user's row: [state, ver]; "none" before register
    tok,       \* refresh tokens: [family, ver, era, revoked]
    links,     \* is some reset link still valid?
    failures,  \* loginFailures of one address
    lockedOut, \* is that address locked out?
    calls,     \* caller -> the call under way
    era,       \* how often sessions were ordered to end (history)
    ended,     \* the last such order whose version bump was done (history)
    faultsA    \* calls that ended half way so far

accountVars == <<acct, tok, links, failures, lockedOut, calls, era, ended, faultsA>>

Rows == 1 .. Len(tok)
NoCall == [pc |-> "idle", jti |-> 0, family |-> 0, ver |-> 0, era |-> 0]
\* checkLogin(): banned and suspended accounts are kept out; frozen ones are not.
checkLogin == acct.state \in {"active", "frozen"}

Init ==
    /\ acct = [state |-> "none", ver |-> 0]
    /\ tok = <<>>
    /\ links = FALSE
    /\ failures = 0 /\ lockedOut = FALSE
    /\ calls = [c \in Callers |-> NoCall]
    /\ era = 0 /\ ended = 0
    /\ faultsA = 0

-----------------------------------------------------------------------------
\* The call c, and nothing of the other calls, goes on.
Goes(c, pc) == calls' = [calls EXCEPT ![c].pc = pc]
Done(c) == calls' = [calls EXCEPT ![c] = NoCall]
\* A call begins with what it read of the user's row.
Begins(c, pc) ==
    /\ calls[c] = NoCall
    /\ calls' = [calls EXCEPT ![c] = [NoCall EXCEPT !.pc = pc, !.ver = acct.ver, !.era = era]]

-----------------------------------------------------------------------------
(* Sessions begin.                                                         *)

\* register(): the checks, then the insert, which the unique index decides.
registerBegin(c) ==
    /\ acct.state = "none"
    /\ Begins(c, "create")
    /\ UNCHANGED <<acct, tok, links, failures, lockedOut, era, ended, faultsA>>

registerCreate(c) ==
    /\ calls[c].pc = "create"
    /\ IF acct.state = "none" THEN acct' = [acct EXCEPT !.state = "active"] /\ Goes(c, "save")
       ELSE UNCHANGED acct /\ Done(c)
    /\ UNCHANGED <<tok, links, failures, lockedOut, era, ended, faultsA>>

\* login(): not from a locked address; the row is read, then the password is
\* verified against what was read.
loginBegin(c) ==
    /\ acct.state # "none" /\ ~lockedOut
    /\ Begins(c, IF checkLogin THEN "verify" ELSE "verifyBlocked")
    /\ UNCHANGED <<acct, tok, links, failures, lockedOut, era, ended, faultsA>>

\* The right password: the failures are forgotten, a blocked account is refused.
loginRight(c) ==
    /\ calls[c].pc \in {"verify", "verifyBlocked"}
    /\ IF calls[c].pc = "verify" THEN Goes(c, "save") ELSE Done(c)
    /\ failures' = 0 /\ lockedOut' = FALSE
    /\ UNCHANGED <<acct, tok, links, era, ended, faultsA>>

\* recordLoginFailure(): from the cap on, every miss locks the address.
loginWrong(c) ==
    /\ calls[c].pc \in {"verify", "verifyBlocked"}
    /\ Done(c)
    /\ failures' = IF failures < MaxFailures THEN failures + 1 ELSE failures
    /\ lockedOut' = (failures' = MaxFailures)
    /\ UNCHANGED <<acct, tok, links, era, ended, faultsA>>

\* loginThrottled(): the lock lapses; the count is kept, until it decays.
lockLapses ==
    /\ lockedOut
    /\ lockedOut' = FALSE
    /\ failures' \in {0, failures}
    /\ UNCHANGED <<acct, tok, links, calls, era, ended, faultsA>>

\* Mutant of issueSession: the token is stamped with the version of the moment.
issueSession_live(c) ==
    /\ calls[c].pc = "save" /\ Len(tok) < MaxRows
    /\ tok' = Append(tok, [family |-> IF calls[c].family = 0 THEN Len(tok) + 1 ELSE calls[c].family,
                           ver |-> acct.ver, era |-> calls[c].era, revoked |-> FALSE])
    /\ Done(c)
    /\ UNCHANGED <<acct, links, failures, lockedOut, era, ended, faultsA>>

\* issueSession(): a new row, of a new family or of the rotated token's, stamped
\* with the version the call read.
issueSession(c) ==
    /\ calls[c].pc = "save" /\ Len(tok) < MaxRows
    /\ tok' = Append(tok, [family |-> IF calls[c].family = 0 THEN Len(tok) + 1 ELSE calls[c].family,
                           ver |-> calls[c].ver, era |-> calls[c].era, revoked |-> FALSE])
    /\ Done(c)
    /\ UNCHANGED <<acct, links, failures, lockedOut, era, ended, faultsA>>

-----------------------------------------------------------------------------
(* refresh(): rotation.                                                    *)

\* The token's version and the account are checked on one read of the row.
refreshBegin(c, j) ==
    /\ calls[c] = NoCall
    /\ tok[j].ver = acct.ver /\ checkLogin
    /\ calls' = [calls EXCEPT ![c] = [pc |-> "find", jti |-> j, family |-> tok[j].family,
                                      ver |-> acct.ver, era |-> tok[j].era]]
    /\ UNCHANGED <<acct, tok, links, failures, lockedOut, era, ended, faultsA>>

refreshFind(c) ==
    /\ calls[c].pc = "find"
    /\ Goes(c, IF tok[calls[c].jti].revoked THEN "resume" ELSE "revoke")
    /\ UNCHANGED <<acct, tok, links, failures, lockedOut, era, ended, faultsA>>

\* Mutant of revokeIfActive: the update does not ask whether it changed the row.
revokeIfActive_always(c) ==
    /\ calls[c].pc = "revoke"
    /\ tok' = [tok EXCEPT ![calls[c].jti].revoked = TRUE]
    /\ Goes(c, "save")
    /\ UNCHANGED <<acct, links, failures, lockedOut, era, ended, faultsA>>

\* One of several calls with one token revokes it; the others wait for its successor.
revokeIfActive(c) ==
    /\ calls[c].pc = "revoke"
    /\ tok' = [tok EXCEPT ![calls[c].jti].revoked = TRUE]
    /\ Goes(c, IF tok[calls[c].jti].revoked THEN "resumeWait" ELSE "save")
    /\ UNCHANGED <<acct, links, failures, lockedOut, era, ended, faultsA>>

\* findSuccessor(): the next row of the family.
Successors(j) == {k \in Rows : k > j /\ tok[k].family = tok[j].family}
findSuccessor(j) == CHOOSE k \in Successors(j) : \A x \in Successors(j) : k <= x

\* resumeUnusedSuccessor(): the successor is handed out again if nobody used
\* it.  Only a call that lost the race waits for one, and not for ever.
resumeUnusedSuccessor(c) ==
    LET j == calls[c].jti
    IN  /\ calls[c].pc \in {"resume", "resumeWait"}
        /\ IF Successors(j) # {} /\ ~tok[findSuccessor(j)].revoked THEN Done(c) ELSE Goes(c, "revokeFamily")
        /\ UNCHANGED <<acct, tok, links, failures, lockedOut, era, ended, faultsA>>

\* Otherwise the token was replayed.
revokeFamily(c) ==
    /\ calls[c].pc = "revokeFamily"
    /\ tok' = [k \in Rows |-> [tok[k] EXCEPT !.revoked = @ \/ tok[k].family = calls[c].family]]
    /\ Done(c)
    /\ UNCHANGED <<acct, links, failures, lockedOut, era, ended, faultsA>>

logout(j) ==
    /\ tok' = [tok EXCEPT ![j].revoked = TRUE]
    /\ UNCHANGED <<acct, links, failures, lockedOut, calls, era, ended, faultsA>>

-----------------------------------------------------------------------------
(* Sessions are ordered to end: a reset, a block, a logout everywhere.     *)

\* requestPasswordReset(): older links are burnt, then the new one is created.
requestPasswordReset(c) ==
    /\ acct.state # "none"
    /\ Begins(c, "link")
    /\ links' = FALSE
    /\ UNCHANGED <<acct, tok, failures, lockedOut, era, ended, faultsA>>

createLink(c) ==
    /\ calls[c].pc = "link"
    /\ links' = TRUE
    /\ Done(c)
    /\ UNCHANGED <<acct, tok, failures, lockedOut, era, ended, faultsA>>

\* resetPassword(): a valid link is found ...
resetPassword(c) ==
    /\ links
    /\ Begins(c, "setPassword")
    /\ UNCHANGED <<acct, tok, links, failures, lockedOut, era, ended, faultsA>>

\* Sessions that began before this step are to end.
Ordered(c, pc) ==
    /\ era < MaxEras
    /\ era' = era + 1
    /\ calls' = [calls EXCEPT ![c] = [NoCall EXCEPT !.pc = pc, !.era = era + 1]]

\* ... the password is written, the links are burnt, and the sessions end.
setPassword(c) ==
    /\ calls[c].pc = "setPassword"
    /\ Ordered(c, "burnLinks")
    /\ UNCHANGED <<acct, tok, links, failures, lockedOut, ended, faultsA>>

burnLinks(c) ==
    /\ calls[c].pc = "burnLinks"
    /\ links' = FALSE
    /\ Goes(c, "bump")
    /\ UNCHANGED <<acct, tok, failures, lockedOut, era, ended, faultsA>>

\* setAccountState(): a blocking state is followed by the end of the sessions.
setAccountState(c, s) ==
    /\ acct.state # "none" /\ calls[c] = NoCall
    /\ acct' = [acct EXCEPT !.state = s]
    /\ IF s \in {"banned", "suspended"} THEN Ordered(c, "bump") ELSE UNCHANGED <<calls, era>>
    /\ UNCHANGED <<tok, links, failures, lockedOut, ended, faultsA>>

\* effective(): a suspension lapses by itself.
suspensionLapses ==
    /\ acct.state = "suspended"
    /\ acct' = [acct EXCEPT !.state = "active"]
    /\ UNCHANGED <<tok, links, failures, lockedOut, calls, era, ended, faultsA>>

logoutAll(c) ==
    /\ checkLogin /\ calls[c] = NoCall
    /\ Ordered(c, "bump")
    /\ UNCHANGED <<acct, tok, links, failures, lockedOut, ended, faultsA>>

\* revokeAllSessions(): the version first, then the rows; the second may fail unnoticed.
bumpTokenVersion(c) ==
    /\ calls[c].pc = "bump"
    /\ acct' = [acct EXCEPT !.ver = @ + 1]
    /\ ended' = IF calls[c].era > ended THEN calls[c].era ELSE ended
    /\ Goes(c, "revokeAll")
    /\ UNCHANGED <<tok, links, failures, lockedOut, era, faultsA>>

revokeAllForUser(c) ==
    /\ calls[c].pc = "revokeAll"
    /\ tok' = [k \in Rows |-> [tok[k] EXCEPT !.revoked = TRUE]]
    /\ Done(c)
    /\ UNCHANGED <<acct, links, failures, lockedOut, era, ended, faultsA>>

\* deleteAccount(): one write closes the account and bumps the version.
deleteAccount ==
    /\ checkLogin /\ era < MaxEras
    /\ acct' = [state |-> "banned", ver |-> acct.ver + 1]
    /\ era' = era + 1 /\ ended' = era'
    /\ UNCHANGED <<tok, links, failures, lockedOut, calls, faultsA>>

\* A database step fails or the process dies: the call ends where it is.
callFails(c) ==
    /\ calls[c] # NoCall /\ faultsA < MaxFaultsA
    /\ faultsA' = faultsA + 1
    /\ Done(c)
    /\ UNCHANGED <<acct, tok, links, failures, lockedOut, era, ended>>

Next ==
    \/ lockLapses \/ suspensionLapses \/ deleteAccount
    \/ \E j \in Rows : logout(j)
    \/ \E c \in Callers :
         \/ registerBegin(c) \/ registerCreate(c) \/ loginBegin(c) \/ loginRight(c) \/ loginWrong(c)
         \/ issueSession(c) \/ refreshFind(c) \/ revokeIfActive(c) \/ resumeUnusedSuccessor(c)
         \/ revokeFamily(c) \/ requestPasswordReset(c) \/ createLink(c) \/ resetPassword(c)
         \/ setPassword(c) \/ burnLinks(c) \/ logoutAll(c) \/ bumpTokenVersion(c)
         \/ revokeAllForUser(c) \/ callFails(c)
         \/ \E j \in Rows : refreshBegin(c, j)
         \/ \E s \in States : setAccountState(c, s)

-----------------------------------------------------------------------------
\* A row that refresh() would rotate now.
Usable(j) == ~tok[j].revoked /\ tok[j].ver = acct.ver /\ checkLogin

\* Once a reset, a block, a logout everywhere or a deletion has bumped the
\* version, no session that began before it is usable again: not one whose
\* login or rotation was under way and is saved after the rows were revoked,
\* not when the block is lifted (authService.ts revokeAllSessions).
EndedSessionsStayEnded == \A j \in Rows : Usable(j) => tok[j].era >= ended

\* Rotation leaves one live token per family, however many calls present one
\* token at once ("both end up on ONE live token", authService.ts refresh).
OneLiveToken ==
    \A j, k \in Rows : tok[j].family = tok[k].family /\ ~tok[j].revoked /\ ~tok[k].revoked => j = k
=============================================================================
