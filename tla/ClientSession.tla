--------------------------- MODULE ClientSession ---------------------------
(***************************************************************************)
(* The session as the client keeps it: the single-flight refresh and the   *)
(* retried call of packages/client/src/lib/api.ts, the store and the       *)
(* proactive timer of store/authStore.ts, the socket's own reconnection of *)
(* store/gameStore.ts and App.tsx.  One refresh is under way at a time;    *)
(* everybody who wants one waits for the same answer.  Any answer of the   *)
(* server may be lost (a blip, a 5xx or a 429) or odd (another 4xx).       *)
(***************************************************************************)
EXTENDS Integers, FiniteSets

CONSTANTS
    MaxAttempts, \* of bootstrap
    MaxLogins    \* bound on logins

VARIABLES
    cookie,     \* the refresh cookie: "none", "live" or "dead" for the server
    store,      \* [status, token]: the auth store; token "none", "fresh", "stale" or "revoked"
    boot,       \* "asks", "sleeps" or "done", with the attempts made
    refresh,    \* refreshInFlight: "none", "sent" or its answer "ok", "dead", "blip" or "odd"
    older,      \* it was sent before the last login
    callers,    \* who waits for it
    proactive,  \* proactiveOn
    timer,      \* refreshTimer is armed
    leaked,     \* an armed timer that refreshTimer does not name any more
    call,       \* an API call: "none", "sent", "retried"
    loggingOut, \* a logout is under way
    entering,   \* a login or a registration is under way
    sock,       \* "none", "connecting", "up", "refused", "blocked" or "ended" by the server
    retry,      \* retryConnect's timer
    logins,
    way         \* to the login screen, where it is not a dead cookie (history)

sessionVars ==
    <<cookie, store, boot, refresh, older, callers, proactive, timer, leaked, call, loggingOut, entering,
      sock, retry, logins, way>>
netVars == <<call, loggingOut, entering, logins>>

Init ==
    /\ cookie \in {"none", "live", "dead"}
    /\ store = [status |-> "idle", token |-> "none"]
    /\ boot = [pc |-> "asks", attempt |-> 0]
    /\ refresh = "sent" /\ older = FALSE /\ callers = {"boot"}
    /\ proactive = FALSE /\ timer = FALSE /\ leaked = FALSE
    /\ call = "none" /\ loggingOut = FALSE /\ entering = FALSE
    /\ sock = "none" /\ retry = FALSE /\ logins = 0 /\ way = "none"

-----------------------------------------------------------------------------
(* refreshSessionInFlight.                                                 *)

\* Everybody shares the request that is under way.
Joins(c) ==
    /\ callers' = callers \cup {c}
    /\ refresh' = IF refresh = "none" THEN "sent" ELSE refresh

\* What the server says of the cookie that was sent, which may be another by now.
Verdicts == IF older THEN {"ok", "dead"} ELSE IF cookie = "live" THEN {"ok"} ELSE {"dead"}

\* The server's answer: a new cookie, a refusal, or none that counts.
refreshAnswered ==
    /\ refresh = "sent"
    /\ refresh' \in Verdicts \cup {"blip", "odd"}
    /\ UNCHANGED <<cookie, store, boot, older, callers, proactive, timer, leaked, netVars, sock, retry, way>>

\* App's effect: a socket while signed in, none otherwise.
Socket(status) == IF status # "authed" THEN "none" ELSE IF sock = "none" THEN "connecting" ELSE sock
Shows(status, token) ==
    /\ store' = [status |-> status, token |-> token]
    /\ sock' = Socket(status)

\* onToken and the callers, one after another: boot signs in and starts the timer,
\* the call is sent again, the socket connects again.
refreshSucceeds ==
    LET on == proactive \/ "boot" \in callers
    IN  /\ refresh = "ok"
        /\ refresh' = "none" /\ older' = FALSE /\ callers' = {}
        /\ Shows(IF "boot" \in callers THEN "authed" ELSE store.status, "fresh")
        /\ proactive' = on /\ timer' = on
        /\ boot' = IF "boot" \in callers THEN [boot EXCEPT !.pc = "done"] ELSE boot
        /\ call' = IF "call" \in callers THEN "retried" ELSE call
        /\ retry' = (retry \/ "socket" \in callers)
        /\ UNCHANGED <<cookie, leaked, loggingOut, entering, logins, way>>

\* Mutant of isSessionDead: any failure ends the session.
isSessionDead_any(answer) == TRUE
\* Only a 401 ends the session.
isSessionDead(answer) == answer = "dead"

\* Mutant of retries: a failed refresh is not tried again.
retries_not == FALSE
\* The timer is set again after a failure that is not a refusal.
retries == proactive

\* bootstrap: transient failures are tried again, then the player is offline; any other
\* shows the login form.
BootFails(answer) ==
    IF answer # "blip" THEN /\ boot' = [boot EXCEPT !.pc = "done"] /\ Shows("idle", store.token)
    ELSE IF boot.attempt < MaxAttempts THEN boot' = [pc |-> "sleeps", attempt |-> boot.attempt + 1] /\ Shows(store.status, store.token)
    ELSE boot' = [boot EXCEPT !.pc = "done"] /\ Shows("offline", store.token)

\* Whoever waits ends the session on a refusal, or tries again later.
refreshFails ==
    LET others == callers \ {"boot"}
        lost == others # {} /\ isSessionDead(refresh)
    IN  /\ refresh \in {"dead", "blip", "odd"}
        /\ refresh' = "none" /\ older' = FALSE /\ callers' = {}
        /\ IF lost THEN /\ Shows("idle", "none") /\ UNCHANGED boot
                        /\ proactive' = FALSE /\ timer' = FALSE /\ UNCHANGED leaked
           ELSE /\ IF "boot" \in callers THEN BootFails(refresh)
                   ELSE Shows(store.status, store.token) /\ UNCHANGED boot
                /\ UNCHANGED proactive
                /\ IF "timer" \in callers /\ retries
                     THEN timer' = TRUE /\ leaked' = (leaked \/ timer)
                     ELSE UNCHANGED <<timer, leaked>>
        /\ way' = IF lost /\ older /\ refresh = "dead" THEN "late"
                  ELSE IF "boot" \in callers /\ refresh = "odd" THEN "boot" ELSE way
        /\ call' = IF "call" \in callers THEN "none" ELSE call
        /\ retry' = (~lost /\ (retry \/ "socket" \in callers))
        /\ UNCHANGED <<cookie, loggingOut, entering, logins>>

-----------------------------------------------------------------------------
(* The callers.                                                            *)

bootAgain ==
    /\ boot.pc = "sleeps"
    /\ boot' = [boot EXCEPT !.pc = "asks"]
    /\ Joins("boot")
    /\ UNCHANGED <<cookie, store, older, proactive, timer, leaked, netVars, sock, retry, way>>

\* The offline screen's button.
bootRetry ==
    /\ boot.pc = "done" /\ store.status = "offline"
    /\ boot' = [pc |-> "asks", attempt |-> 0]
    /\ Joins("boot")
    /\ UNCHANGED <<cookie, store, older, proactive, timer, leaked, netVars, sock, retry, way>>

\* runProactiveRefresh: by its timer, or when the page is shown again and the token is old.
runProactiveRefresh ==
    /\ \/ timer
       \/ proactive /\ store.token = "stale"
    /\ timer' = FALSE
    /\ Joins("timer")
    /\ UNCHANGED <<cookie, store, boot, older, proactive, leaked, netVars, sock, retry, way>>

leakedTimerFires ==
    /\ leaked
    /\ leaked' = FALSE /\ timer' = FALSE
    /\ Joins("timer")
    /\ UNCHANGED <<cookie, store, boot, older, proactive, netVars, sock, retry, way>>

\* request: a call with the token, repeated once after a refresh.
request ==
    /\ store.status = "authed" /\ call = "none"
    /\ call' = "sent"
    /\ UNCHANGED <<cookie, store, boot, refresh, older, callers, proactive, timer, leaked, loggingOut, entering, sock, retry, logins, way>>

\* A token that expired on the way is refused: the first time the refresh is asked
\* for, the second time the call just fails.
requestAnswered ==
    /\ call \in {"sent", "retried"} /\ "call" \notin callers
    /\ \/ call' = "none" /\ UNCHANGED <<refresh, callers>>
       \/ call = "sent" /\ store.token # "fresh" /\ Joins("call") /\ UNCHANGED call
    /\ UNCHANGED <<cookie, store, boot, older, proactive, timer, leaked, loggingOut, entering, sock, retry, logins, way>>

login ==
    /\ boot.pc = "done" /\ store.status \in {"idle", "error"} /\ ~entering /\ logins < MaxLogins
    /\ entering' = TRUE /\ logins' = logins + 1
    /\ Shows("loading", store.token)
    /\ UNCHANGED <<cookie, boot, refresh, older, callers, proactive, timer, leaked, call, loggingOut, retry, way>>

loginAnswered ==
    /\ entering
    /\ entering' = FALSE
    /\ \/ /\ cookie' = "live" /\ Shows("authed", "fresh") /\ proactive' = TRUE /\ timer' = TRUE
          /\ older' = (refresh # "none") /\ way' = "none"
       \/ Shows("error", store.token) /\ UNCHANGED <<cookie, older, proactive, timer, way>>
    /\ UNCHANGED <<boot, refresh, callers, leaked, call, loggingOut, retry, logins>>

\* logout: the timer stops at once; the store is cleared whatever the server answers, and
\* with it goes the socket: what still waits to connect it again does nothing.
logout ==
    /\ store.status = "authed" /\ ~loggingOut
    /\ loggingOut' = TRUE
    /\ proactive' = FALSE /\ timer' = FALSE
    /\ UNCHANGED <<cookie, store, boot, refresh, older, callers, leaked, call, entering, sock, retry, logins, way>>

logoutAnswered ==
    /\ loggingOut
    /\ loggingOut' = FALSE
    /\ cookie' \in {"none", cookie}
    /\ Shows("idle", "none") /\ way' = "logout"
    /\ retry' = FALSE
    /\ callers' = IF "socket" \in callers THEN (callers \ {"socket"}) \cup {"oldSocket"} ELSE callers
    /\ UNCHANGED <<boot, refresh, older, proactive, timer, leaked, call, entering, logins>>

-----------------------------------------------------------------------------
(* The socket.                                                             *)

\* The handshake: an expired or a revoked token is 'unauthorized' (a revoked one only when
\* the server's cache of handshakes has forgotten it), and so is any token while the
\* database fails; the session is refreshed.  Too many connections, or a server that is
\* away, are tried again later; a blocked account is refused for good.
handshake ==
    /\ sock = "connecting"
    /\ \/ store.token \in {"fresh", "revoked"} /\ sock' = "up" /\ UNCHANGED <<refresh, callers, retry>>
       \/ sock' = "refused" /\ Joins("socket") /\ UNCHANGED retry
       \/ sock' = "refused" /\ retry' = TRUE /\ UNCHANGED <<refresh, callers>>
       \/ sock' = "blocked" /\ UNCHANGED <<refresh, callers, retry>>
    /\ UNCHANGED <<cookie, store, boot, older, proactive, timer, leaked, netVars, way>>

\* The server ends the socket, after a revocation or to put the player out: the client's
\* library does not connect that one again, and 'disconnect' only notes it.
disconnectUser ==
    /\ sock = "up" /\ sock' = "ended"
    /\ UNCHANGED <<cookie, store, boot, refresh, older, callers, proactive, timer, leaked, netVars, retry, way>>

Down == {"refused", "blocked", "ended"}

\* retryConnect's timer fires; a transport that breaks is connected again by the library.
reconnect ==
    /\ \/ retry /\ retry' = FALSE /\ sock' = IF sock \in Down THEN "connecting" ELSE sock
       \/ sock = "up" /\ sock' = "connecting" /\ UNCHANGED retry
    /\ UNCHANGED <<cookie, store, boot, refresh, older, callers, proactive, timer, leaked, netVars, way>>

\* kick: the page is shown again, or the network or the focus is back.
kick ==
    /\ sock \in Down
    /\ sock' = "connecting"
    /\ UNCHANGED <<cookie, store, boot, refresh, older, callers, proactive, timer, leaked, netVars, retry, way>>

\* The access token's time is up; sessions are revoked, by a reset or by an administrator.
tokenExpires ==
    /\ store.token = "fresh"
    /\ store' = [store EXCEPT !.token = "stale"]
    /\ UNCHANGED <<cookie, boot, refresh, older, callers, proactive, timer, leaked, netVars, sock, retry, way>>

revokeAllSessions ==
    /\ cookie = "live" /\ cookie' = "dead"
    /\ store' = [store EXCEPT !.token = IF @ = "none" THEN @ ELSE "revoked"]
    /\ UNCHANGED <<boot, refresh, older, callers, proactive, timer, leaked, netVars, sock, retry, way>>

Next ==
    \/ refreshAnswered \/ refreshSucceeds \/ refreshFails
    \/ bootAgain \/ bootRetry \/ runProactiveRefresh \/ leakedTimerFires
    \/ request \/ requestAnswered \/ login \/ loginAnswered \/ logout \/ logoutAnswered
    \/ handshake \/ disconnectUser \/ reconnect \/ kick \/ tokenExpires \/ revokeAllSessions

Spec == Init /\ [][Next]_sessionVars

-----------------------------------------------------------------------------
\* "A network blip, a 5xx or a 429 is NOT a lost session and must never drop the player to
\* the login screen" (api.ts isSessionDead): whoever shared the refresh, nobody sees the
\* login screen while the cookie is good, but after a logout, after an odd refusal of the
\* first refresh (bootstrap takes it for "no session"), and after the late refusal of a
\* refresh that an older session had sent.
BlipsLogNobodyOut ==
    (boot.pc = "done" /\ store.status \notin {"authed", "offline"} /\ cookie = "live")
    => way \in {"logout", "boot", "late"}

\* Somebody signed in is never left with nothing on the way: the token will be
\* refreshed, and a socket whose handshake was refused will be tried again ("the socket
\* then stayed dead until a full reload", gameStore.ts connect).  Not so a blocked account,
\* and a socket that the server ended: it stays down until the page is shown again.
NeverStranded ==
    store.status = "authed" /\ ~loggingOut =>
      /\ proactive /\ (timer \/ leaked \/ "timer" \in callers)
      /\ sock = "refused" => retry \/ "socket" \in callers
=============================================================================
