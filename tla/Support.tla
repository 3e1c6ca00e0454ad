------------------------------- MODULE Support -------------------------------
(***************************************************************************)
(* Support tickets: the store and the routes of packages/server/src/       *)
(* support/supportRepository.ts and http/supportRoutes.ts, the owner's     *)
(* answers by Telegram (telegram/adminBot.ts: the button that asks for an  *)
(* answer, and the next plain message that gives it), and the player's     *)
(* page (packages/client/src/views/SupportView.tsx).  Updates of the bot   *)
(* are handled side by side, an update may be delivered twice, and any     *)
(* read or write of the store may fail.                                    *)
(***************************************************************************)
EXTENDS Integers, FiniteSets

CONSTANTS
    Tickets,
    Texts,      \* what the owner may write
    Desks,      \* updates and requests handled at the same time
    Loads,      \* requests of the player's page under way at the same time
    MaxPrompts  \* bound on prompts for an answer, for each ticket

VARIABLES
    ticket,       \* ticket -> [status, note]; "resolved" stands for closed too
    pendingReply, \* the ticket the next plain message answers
    job,          \* desk -> the update or request under way
    prompts,      \* ticket -> how often its answer was asked for (history)
    answers,      \* ticket -> plain messages taken as its answer (history)
    told,         \* ticket -> notes sent to the player
    unaudited,    \* tickets whose quick answer could not be audited (history)
    signedIn,     \* has the player's browser an access token?
    page,         \* [open, listStatus, tickets]: the player's page
    load,         \* request of the page -> [pc, rows, submits]
    answered      \* did the server answer the open page with the list? (history)

supportVars ==
    <<ticket, pendingReply, job, prompts, answers, told, unaudited, signedIn, page, load, answered>>
deskOnly == <<pendingReply, job, prompts, answers, told, unaudited>>
playerVars == <<signedIn, page, load, answered>>

None == "none"
Generic == "generic"
Idle == [pc |-> "idle"]
NoReply == [ticket |-> None, old |-> FALSE]
NoLoad == [pc |-> "idle", rows |-> {}, submits |-> FALSE]
NewPage == [open |-> TRUE, listStatus |-> "loading", tickets |-> {}]
Closed == [NewPage EXCEPT !.open = FALSE]
Opened == {t \in Tickets : ticket[t].status # None}

Init ==
    /\ ticket = [t \in Tickets |-> [status |-> None, note |-> None]]
    /\ pendingReply = NoReply
    /\ job = [d \in Desks |-> Idle]
    /\ prompts = [t \in Tickets |-> 0] /\ answers = [t \in Tickets |-> 0]
    /\ told = [t \in Tickets |-> {}] /\ unaudited = {}
    /\ signedIn = TRUE
    /\ page = Closed
    /\ load = [l \in Loads |-> NoLoad]
    /\ answered = FALSE

Become(d, j) == job' = [job EXCEPT ![d] = j]
Resolving(t, note) == [pc |-> "resolves", t |-> t, note |-> note]

-----------------------------------------------------------------------------
(* The owner's bot.                                                        *)

\* handleTicketTap 'reply', pressed or delivered again: the ticket is read first.
tapsReply(d, t) ==
    /\ job[d] = Idle /\ t \in Opened /\ prompts[t] < MaxPrompts
    /\ Become(d, [pc |-> "asks", t |-> t])
    /\ UNCHANGED <<ticket, pendingReply, prompts, answers, told, unaudited, playerVars>>

\* The prompt takes the place of any other, unless the ticket could not be read.
stagesReply(d) ==
    /\ job[d].pc = "asks"
    /\ \/ /\ pendingReply' = [ticket |-> job[d].t, old |-> FALSE]
          /\ prompts' = [prompts EXCEPT ![job[d].t] = @ + 1]
       \/ UNCHANGED <<pendingReply, prompts>>
    /\ Become(d, Idle)
    /\ UNCHANGED <<ticket, answers, told, unaudited, playerVars>>

\* handleTicketTap 'res': a quick answer.
tapsResolve(d, t) ==
    /\ job[d] = Idle /\ t \in Opened
    /\ Become(d, Resolving(t, Generic))
    /\ UNCHANGED <<ticket, pendingReply, prompts, answers, told, unaudited, playerVars>>

\* Mutant of takesReply: the prompt is kept until the answer is written.
takesReply_kept == UNCHANGED pendingReply
\* The prompt is gone before anything is awaited.
takesReply == pendingReply' = NoReply

\* handleMessage, a plain text: the answer that was asked for, unless it comes too late.
plainMessage(d, text) ==
    /\ job[d] = Idle
    /\ takesReply
    /\ IF pendingReply.ticket # None /\ ~pendingReply.old
         THEN /\ answers' = [answers EXCEPT ![pendingReply.ticket] = @ + 1]
              /\ Become(d, Resolving(pendingReply.ticket, text))
         ELSE UNCHANGED <<answers, job>>
    /\ UNCHANGED <<ticket, prompts, told, unaudited, playerVars>>

\* handleMessage, a command: whatever was asked for is given up.
command ==
    /\ pendingReply # NoReply
    /\ pendingReply' = NoReply
    /\ UNCHANGED <<ticket, job, prompts, answers, told, unaudited, playerVars>>

\* TICKET_REPLY_WINDOW_MS
windowPasses ==
    /\ pendingReply.ticket # None
    /\ pendingReply' = [pendingReply EXCEPT !.old = TRUE]
    /\ UNCHANGED <<ticket, job, prompts, answers, told, unaudited, playerVars>>

\* POST /api/admin/support/:id/resolve, with an answer or without one.
panelResolves(d, t, note) ==
    /\ job[d] = Idle /\ t \in Opened
    /\ Become(d, Resolving(t, note))
    /\ UNCHANGED <<ticket, pendingReply, prompts, answers, told, unaudited, playerVars>>

\* resolve: whatever the ticket says already is replaced.  The owner's account may not
\* be found, and the write may fail: nothing happens then.
resolve(d) ==
    LET j == job[d]
    IN  /\ j.pc = "resolves"
        /\ \/ /\ ticket' = [ticket EXCEPT ![j.t] = [status |-> "resolved", note |-> j.note]]
              /\ Become(d, IF j.note = None THEN Idle ELSE [pc |-> "tells", t |-> j.t, note |-> j.note])
           \/ Become(d, Idle) /\ UNCHANGED ticket
        /\ UNCHANGED <<pendingReply, prompts, answers, told, unaudited, playerVars>>

\* The audit row of a quick answer is awaited, and its failure ends the handler; the
\* panel and a written answer only try theirs.
auditFails(d) ==
    /\ job[d].pc = "tells" /\ job[d].note = Generic
    /\ unaudited' = unaudited \cup {job[d].t}
    /\ Become(d, Idle)
    /\ UNCHANGED <<ticket, pendingReply, prompts, answers, told, playerVars>>

\* Mutant of tells: somebody who is away is not told.
tells_not(d) == told
\* messagePlayer: in the app and by push, after the audit row.
tells(d) == [told EXCEPT ![job[d].t] = @ \cup {job[d].note}]

messagePlayer(d) ==
    /\ job[d].pc = "tells"
    /\ told' = tells(d)
    /\ Become(d, Idle)
    /\ UNCHANGED <<ticket, pendingReply, prompts, answers, unaudited, playerVars>>

-----------------------------------------------------------------------------
(* The player's page.                                                      *)

busy == \E l \in Loads : load[l].submits

\* load: without an access token nothing is asked of the server, and the list is ready.
Loading(l, p) ==
    /\ load' = [load EXCEPT ![l] = IF signedIn THEN [@ EXCEPT !.pc = "sent"] ELSE NoLoad]
    /\ page' = [p EXCEPT !.listStatus = IF signedIn THEN "loading" ELSE "ready"]

\* The app shows the page to who is signed in.
opensPage(l) ==
    /\ ~page.open /\ signedIn
    /\ load[l] = NoLoad /\ Loading(l, NewPage)
    /\ answered' = FALSE
    /\ UNCHANGED <<ticket, deskOnly, signedIn>>

\* The button under the error.
retries(l) ==
    /\ page.open /\ page.listStatus = "error"
    /\ load[l] = NoLoad /\ Loading(l, page)
    /\ UNCHANGED <<ticket, deskOnly, signedIn, answered>>

\* Another page, or the session ends.  What a page that was left still receives is shown
\* nowhere; the ticket it was sending may be opened all the same.
leavesPage ==
    /\ page.open
    /\ signedIn' \in BOOLEAN
    /\ page' = Closed
    /\ load' = [l \in Loads |-> IF load[l].pc \in {"creates", "left"} THEN [NoLoad EXCEPT !.pc = "left"] ELSE NoLoad]
    /\ UNCHANGED <<ticket, deskOnly, answered>>

signsInOrOut ==
    /\ ~page.open
    /\ signedIn' = ~signedIn
    /\ UNCHANGED <<ticket, deskOnly, page, load, answered>>

listByUser(l) ==
    /\ load[l].pc = "sent"
    /\ load' = [load EXCEPT ![l].pc = "read", ![l].rows = Opened]
    /\ UNCHANGED <<ticket, deskOnly, signedIn, page, answered>>

\* The answer, or a failure, of one fetch; the last to arrive is what is shown.
loaded(l) ==
    /\ load[l].pc \in {"sent", "read"}
    /\ load' = [load EXCEPT ![l] = NoLoad]
    /\ \/ /\ load[l].pc = "read"
          /\ page' = [page EXCEPT !.listStatus = "ready", !.tickets = load[l].rows]
          /\ answered' = TRUE
       \/ page' = [page EXCEPT !.listStatus = "error"] /\ UNCHANGED answered
    /\ UNCHANGED <<ticket, deskOnly, signedIn>>

\* submit: one ticket at a time, until the list is there again.
submit(l) ==
    /\ page.open /\ signedIn /\ ~busy
    /\ load[l] = NoLoad
    /\ load' = [load EXCEPT ![l] = [NoLoad EXCEPT !.pc = "creates", !.submits = TRUE]]
    /\ UNCHANGED <<ticket, deskOnly, signedIn, page, answered>>

\* The ticket is opened, or not; its answer may be lost all the same.
created(t, l) ==
    /\ load[l].pc \in {"creates", "left"} /\ ticket[t].status = None
    /\ \/ ticket' = [ticket EXCEPT ![t].status = "open"]
       \/ UNCHANGED ticket
    /\ \/ load[l].pc = "creates" /\ ticket'[t].status = "open" /\ Loading(l, page)
       \/ load' = [load EXCEPT ![l] = NoLoad] /\ UNCHANGED page
    /\ UNCHANGED <<deskOnly, signedIn, answered>>

Next ==
    \/ \E d \in Desks :
         \/ \E t \in Tickets : tapsReply(d, t) \/ tapsResolve(d, t)
         \/ \E text \in Texts : plainMessage(d, text)
         \/ \E t \in Tickets, n \in Texts \cup {None} : panelResolves(d, t, n)
         \/ stagesReply(d) \/ resolve(d) \/ auditFails(d) \/ messagePlayer(d)
    \/ command \/ windowPasses \/ leavesPage \/ signsInOrOut
    \/ \E l \in Loads : \/ opensPage(l) \/ retries(l) \/ listByUser(l) \/ loaded(l) \/ submit(l)
                        \/ \E t \in Tickets : created(t, l)

Spec == Init /\ [][Next]_supportVars

-----------------------------------------------------------------------------
\* adminBot.ts pendingReply: "the owner's NEXT plain (non-command) message becomes the
\* reply": every prompt is answered by one message at most, and the one that waits by
\* none yet, however slowly an answer is written and however often a press is delivered.
OnePromptOneAnswer ==
    \A t \in Tickets : answers[t] + (IF pendingReply.ticket = t THEN 1 ELSE 0) <= prompts[t]

\* The answer a ticket shows was sent to the player too, or is about to be: by
\* whichever door it came, and whatever overwrote it meanwhile, but for a quick answer
\* whose audit row failed.
AnswersAreTold ==
    \A t \in Tickets :
      ticket[t].note # None =>
        \/ ticket[t].note \in told[t]
        \/ \E d \in Desks : job[d].pc = "tells" /\ job[d].t = t /\ job[d].note = ticket[t].note
        \/ ticket[t].note = Generic /\ t \in unaudited

\* SupportView: "a failed fetch shows an inline error + retry instead of masquerading as
\* 'no tickets'", and neither does a list that was never asked for.
NoFalseEmptiness == page.open /\ page.listStatus = "ready" => answered
=============================================================================
