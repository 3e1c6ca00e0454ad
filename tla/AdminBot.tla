------------------------------ MODULE AdminBot ------------------------------
(***************************************************************************)
(* The owner's Telegram bot (packages/server/src/telegram/adminBot.ts,     *)
(* notify/telegramBot.ts, http/telegramRoutes.ts): withdrawals approved,   *)
(* confirmed and refused by the buttons under a message, account states,   *)
(* and actions staged for a confirmation.  An update is handled while      *)
(* others are; Telegram delivers it again when its answer is slow, and a   *)
(* button may be pressed more than once.  The buttons of a message are the *)
(* ones it was last edited to.  The panel of the site decides the same     *)
(* withdrawals and accounts meanwhile.  Answers to tickets are module      *)
(* Support's, the limits on adjustments AdminPanel's.                      *)
(***************************************************************************)
EXTENDS Integers, FiniteSets

CONSTANTS
    Updates,   \* updates handled at the same time
    Messages,  \* messages of the chat
    Keys,      \* of staged actions, in the order they are given out: 1..n
    MaxPosts   \* bound on messages sent

VARIABLES
    domain,    \* which buttons the behaviour is about: they share no state
    large,     \* is the withdrawal at or above largeWithdrawalCents?
    row,       \* the withdrawal: "pending", "completed", "reversed" or "rejected"
    paid,      \* payouts sent for it
    refunds,   \* credits of its amount to the player
    garbled,   \* was it sent by an answer 200 that could not be read? (history)
    echoed,    \* has a confirmation echoed its amount? (history)
    account,   \* the player's account state
    online,    \* has the player a socket?
    handshake, \* what a handshake under way has read: "none", "clear" or "refused"
    cached,    \* does the handshake's cache hold an OK?
    slipped,   \* is a blocked player in by an old answer, or as nobody was told to drop him? (history)
    pending,   \* key -> "new" or "old": the staged actions
    confirms,  \* key -> presses of its confirm button (history)
    runs,      \* key -> how often it was run
    lastKey,   \* pendingSeq
    chat,      \* message -> [says, about]
    posts,
    update     \* update -> the handler under way

botVars ==
    <<domain, large, row, paid, refunds, garbled, echoed, account, online, handshake, cached, slipped,
      pending, confirms, runs, lastKey, chat, posts, update>>
wdVars == <<large, row, paid, refunds, garbled, echoed>>
usVars == <<account, online, handshake, cached, slipped>>
paVars == <<pending, confirms, runs, lastKey>>

Idle == [pc |-> "idle"]
Nothing == [says |-> "nothing", about |-> 0]
\* What the panel decides is about no message.
NoMessage == 0
AccountStates == {"active", "frozen", "suspended", "banned"}
Blocked == {"suspended", "banned"}

\* renderPendingRow, onApproveTap's keyboard, renderUser, sendConfirm.
Buttons(m) ==
    IF m.says = "row" THEN {"ok", "no"}
    ELSE IF m.says = "confirm" THEN {"cfm", "x"}
    ELSE IF m.says = "card" THEN AccountStates
    ELSE IF m.says = "staged" THEN {"ok", "x"}
    ELSE {}

Init ==
    /\ domain \in {"wd", "us", "pa"} /\ large \in BOOLEAN /\ (large => domain = "wd")
    /\ row = "pending" /\ paid = 0 /\ refunds = 0 /\ garbled = FALSE /\ echoed = FALSE
    /\ account = "active" /\ online = TRUE /\ handshake = "none" /\ cached = FALSE /\ slipped = FALSE
    /\ pending = <<>> /\ lastKey = 0
    /\ confirms = [k \in Keys |-> 0] /\ runs = [k \in Keys |-> 0]
    /\ chat = [m \in Messages |-> Nothing] /\ posts = 0
    /\ update = [u \in Updates |-> Idle]

Become(u, j) == update' = [update EXCEPT ![u] = j]
\* A job is at a step, for a message and what it is about.
At(pc, m, about) == [pc |-> pc, m |-> m, about |-> about]
Then(u, pc) == Become(u, [update[u] EXCEPT !.pc = pc])
\* editMessage and editResolved wait for Telegram; the text is decided before.
Edits(u, says) == Become(u, At("edits", update[u].m, [says |-> says, about |-> 0]))

Post(m, says, about) ==
    /\ chat[m] = Nothing /\ posts < MaxPosts
    /\ chat' = [chat EXCEPT ![m] = [says |-> says, about |-> about]]
    /\ posts' = posts + 1

editMessage(u) ==
    /\ update[u].pc = "edits"
    /\ chat' = [m \in Messages |-> IF m = update[u].m THEN update[u].about ELSE chat[m]]
    /\ Become(u, Idle)
    /\ UNCHANGED <<domain, wdVars, usVars, paVars, posts>>

\* resolveAdminUserId finds nobody: the handler stops and says so.
noAdmin(u) ==
    /\ update[u].pc \in {"approves", "rejects", "sets"} /\ update[u].m \in Messages
    /\ Edits(u, "failed")
    /\ UNCHANGED <<domain, wdVars, usVars, paVars, chat, posts>>

\* The panel's routes: the same withdrawal approved or rejected, the account's state set.
panelDecides(u, pc, about) ==
    /\ update[u] = Idle /\ domain = IF pc = "sets" THEN "us" ELSE "wd"
    /\ Become(u, At(pc, NoMessage, about))
    /\ UNCHANGED <<domain, wdVars, usVars, paVars, chat, posts>>

-----------------------------------------------------------------------------
(* Withdrawals.                                                            *)

\* The alert of a new withdrawal, and /withdrawals.
sendWithdrawals(m) ==
    /\ domain = "wd" /\ row = "pending"
    /\ Post(m, "row", 0)
    /\ UNCHANGED <<domain, wdVars, usVars, paVars, update>>

handleWithdrawalTap(u, m, action) ==
    /\ domain = "wd" /\ update[u] = Idle /\ action \in Buttons(chat[m])
    /\ Become(u, At(IF action = "ok" THEN "finds" ELSE IF action = "cfm" THEN "approves"
                    ELSE IF action = "no" THEN "rejects" ELSE "restores", m, 0))
    /\ UNCHANGED <<domain, wdVars, usVars, paVars, chat, posts>>

\* Mutant of needsConfirm: every approval is one press.
needsConfirm_never == FALSE
needsConfirm == large

\* onApproveTap: what is not pending any more is said to be so; a large amount is echoed.
onApproveTap(u) ==
    /\ update[u].pc = "finds"
    /\ IF row # "pending" THEN Edits(u, "stale")
       ELSE IF needsConfirm THEN Edits(u, "confirm") ELSE Then(u, "approves")
    /\ echoed' = (echoed \/ (row = "pending" /\ needsConfirm))
    /\ UNCHANGED <<domain, large, row, paid, refunds, garbled, usVars, paVars, chat, posts>>

\* onCancelConfirm: the row again, if it is still pending.
onCancelConfirm(u) ==
    /\ update[u].pc = "restores"
    /\ Edits(u, IF row = "pending" THEN "row" ELSE "stale")
    /\ UNCHANGED <<domain, wdVars, usVars, paVars, chat, posts>>

\* Mutant of setStatusIfPending: the row is written whatever it says.
setStatusIfPending_always(r) == TRUE
setStatusIfPending(r) == r = "pending"

\* doApprove: payoutNow claims the row, then sends; the audit row is written last.
doApprove(u) ==
    /\ update[u].pc = "approves"
    /\ IF setStatusIfPending(row) THEN row' = "completed" /\ Then(u, "sends")
       ELSE UNCHANGED row /\ Edits(u, "stale")
    /\ UNCHANGED <<domain, large, paid, refunds, garbled, echoed, usVars, paVars, chat, posts>>

\* A payout that may have been made is left as it is and reported; one that failed is
\* refunded and its row reversed, which may fail.  An answer 200 whose body cannot be
\* read counts as a failure, though the money has left.
payoutNow(u) ==
    /\ update[u].pc = "sends"
    /\ paid' \in {paid, paid + 1}
    /\ \/ paid' > paid /\ Edits(u, "approved") /\ UNCHANGED <<row, refunds, garbled>>
       \/ Edits(u, "failed") /\ UNCHANGED <<row, refunds, garbled>>
       \/ /\ row' \in {"reversed", row} /\ refunds' = refunds + 1 /\ Edits(u, "failed")
          /\ garbled' = (garbled \/ paid' > paid)
    /\ UNCHANGED <<domain, large, echoed, usVars, paVars, chat, posts>>

\* doReject: the row is claimed and the money given back at once; the audit row comes
\* after, and its failure is what is said.
doReject(u) ==
    /\ update[u].pc = "rejects"
    /\ IF setStatusIfPending(row)
         THEN row' = "rejected" /\ refunds' = refunds + 1 /\ \E t \in {"rejected", "failed"} : Edits(u, t)
         ELSE Edits(u, "stale") /\ UNCHANGED <<row, refunds>>
    /\ UNCHANGED <<domain, large, paid, garbled, echoed, usVars, paVars, chat, posts>>

-----------------------------------------------------------------------------
(* Accounts.                                                               *)

\* /user, the card opened from a flag, and the buttons under a flag or a risk snapshot.
sendUser(m) ==
    /\ domain = "us"
    /\ Post(m, "card", 0)
    /\ UNCHANGED <<domain, wdVars, usVars, paVars, update>>

handleAccountStateTap(u, m, state) ==
    /\ domain = "us" /\ update[u] = Idle /\ state \in Buttons(chat[m])
    /\ Become(u, At("sets", m, state))
    /\ UNCHANGED <<domain, wdVars, usVars, paVars, chat, posts>>

\* Mutant of kicks: the sockets of a suspended player stay.
kicks_banned(state) == state = "banned"
kicks(state) == state \in Blocked

\* applyAccountState: the state is written, then the sessions are revoked; a blocked
\* player's sockets are dropped when both have returned.  Where the second fails, the
\* state stays and the whole counts as failed.
applyAccountState(u) ==
    /\ update[u].pc = "sets"
    /\ \/ account' = update[u].about /\ Then(u, "kicks") /\ UNCHANGED slipped
       \/ /\ update[u].about \in Blocked
          /\ account' = update[u].about /\ Edits(u, "failed") /\ slipped' = (slipped \/ online)
       \/ Edits(u, "failed") /\ UNCHANGED <<account, slipped>>
    /\ UNCHANGED <<domain, wdVars, online, handshake, cached, paVars, chat, posts>>

kickUser(u) ==
    /\ update[u].pc = "kicks"
    /\ online' = (online /\ ~kicks(update[u].about))
    /\ slipped' = (slipped /\ ~kicks(update[u].about))
    /\ Become(u, At("edits", update[u].m, [says |-> "card", about |-> 0]))
    /\ UNCHANGED <<domain, wdVars, account, handshake, cached, paVars, chat, posts>>

\* resolveHandshake reads the account, and checks that the token is not an old one.
checkSession ==
    /\ domain = "us" /\ handshake = "none"
    /\ handshake' \in {IF account \in Blocked THEN "refused" ELSE "clear", "refused"}
    /\ UNCHANGED <<domain, wdVars, account, online, cached, slipped, paVars, chat, posts, update>>

\* Mutant of admits: whatever was read.
admits_any(answer) == TRUE
admits(answer) == answer = "clear"

\* The avatar is read, the answer cached and taken as it was read.
connects ==
    /\ handshake # "none"
    /\ handshake' = "none" /\ cached' = admits(handshake)
    /\ online' = (online \/ admits(handshake))
    /\ slipped' = (slipped \/ (handshake = "clear" /\ account \in Blocked))
    /\ UNCHANGED <<domain, wdVars, account, paVars, chat, posts, update>>

\* A handshake with the token the cached OK was for: nothing is read.
connectsCached ==
    /\ cached /\ online' = TRUE
    /\ slipped' = (slipped \/ account \in Blocked)
    /\ UNCHANGED <<domain, wdVars, account, handshake, cached, paVars, chat, posts, update>>

\* cacheMs.
cacheExpires ==
    /\ cached /\ cached' = FALSE
    /\ UNCHANGED <<domain, wdVars, account, online, handshake, slipped, paVars, chat, posts, update>>

-----------------------------------------------------------------------------
(* Staged actions.                                                         *)

\* stageAdjust and stageVoid: actions that are old are dropped when another is staged.
stagePending(m) ==
    LET key == lastKey + 1
    IN  /\ domain = "pa" /\ key \in Keys
        /\ lastKey' = key
        /\ pending' = [k \in {j \in DOMAIN pending : pending[j] = "new"} \cup {key} |-> "new"]
        /\ Post(m, "staged", key)
        /\ UNCHANGED <<domain, wdVars, usVars, confirms, runs, update>>

\* PENDING_TTL_MS: an action that is old is dropped when another is staged, and may be
\* confirmed until then.
grows(k) ==
    /\ k \in DOMAIN pending
    /\ pending' = [pending EXCEPT ![k] = "old"]
    /\ UNCHANGED <<domain, wdVars, usVars, confirms, runs, lastKey, chat, posts, update>>

\* Mutant of unstages: the action is removed when it has run.
unstages_late(k) == pending
unstages(k) == [j \in DOMAIN pending \ {k} |-> pending[j]]

\* handlePendingTap: removed before it runs.
handlePendingTap(u, m, action) ==
    LET k == chat[m].about
    IN  /\ domain = "pa" /\ update[u] = Idle /\ action \in Buttons(chat[m]) /\ confirms[k] < 2
        /\ confirms' = [confirms EXCEPT ![k] = IF action = "ok" THEN @ + 1 ELSE @]
        /\ IF action = "x" \/ k \notin DOMAIN pending
             THEN /\ pending' = [j \in DOMAIN pending \ {k} |-> pending[j]]
                  /\ Become(u, At("edits", m, [says |-> IF action = "x" THEN "cancelled" ELSE "expired", about |-> 0]))
             ELSE pending' = unstages(k) /\ Become(u, At("runs", m, k))
        /\ UNCHANGED <<domain, wdVars, usVars, runs, lastKey, chat, posts>>

run(u) ==
    /\ update[u].pc = "runs"
    /\ \/ runs' = [runs EXCEPT ![update[u].about] = @ + 1] /\ Edits(u, "done")
       \/ Edits(u, "failed") /\ UNCHANGED runs
    /\ UNCHANGED <<domain, wdVars, usVars, pending, confirms, lastKey, chat, posts>>

Next ==
    \/ \E m \in Messages : sendWithdrawals(m) \/ sendUser(m) \/ stagePending(m)
    \/ \E u \in Updates :
         \/ editMessage(u) \/ noAdmin(u) \/ onApproveTap(u) \/ onCancelConfirm(u) \/ doApprove(u) \/ payoutNow(u)
         \/ doReject(u) \/ applyAccountState(u) \/ kickUser(u) \/ run(u)
         \/ \E m \in Messages, a \in {"ok", "no", "cfm", "x"} : handleWithdrawalTap(u, m, a) \/ handlePendingTap(u, m, a)
         \/ \E s \in AccountStates : panelDecides(u, "sets", s) \/ \E m \in Messages : handleAccountStateTap(u, m, s)
         \/ \E pc \in {"approves", "rejects"} : panelDecides(u, pc, 0)
    \/ checkSession \/ connects \/ connectsCached \/ cacheExpires
    \/ \E k \in Keys : grows(k)

Spec == Init /\ [][Next]_botVars

-----------------------------------------------------------------------------
Says(text) == {m \in Messages : chat[m].says = text}

\* However many messages show a withdrawal, however their buttons are pressed and whatever
\* the panel decides, it is decided once: paid or given back, and both only by an answer
\* that could not be read; a message that says so is right.
DecidedOnce ==
    /\ paid + refunds <= 1 + (IF garbled THEN 1 ELSE 0)
    /\ Says("approved") # {} => paid = 1 /\ row = "completed"
    /\ Says("rejected") # {} => row = "rejected"

\* "Large withdrawals require a second confirm tap (amount echoed back)" (onApproveTap):
\* no press gets one paid before; the panel asks for no second one.
LargeIsEchoed ==
    \A u \in Updates :
      large /\ update[u].pc \in {"approves", "sends"} /\ update[u].m \in Messages => echoed

\* A blocked player is out once the decision that blocked the account is dealt with, even
\* where another changes the state at the same time; who comes in after it comes in by an
\* answer that is older than it.
BlockedAreOut ==
    account \in Blocked /\ online =>
      slipped \/ \E u \in Updates : update[u].pc = "kicks" /\ update[u].about \in Blocked

\* "One-shot: remove BEFORE running so a double-tap can't execute twice"; nothing runs
\* without a press of its own button.
StagedRunOnce == \A k \in Keys : runs[k] <= 1 /\ runs[k] <= confirms[k]
=============================================================================
