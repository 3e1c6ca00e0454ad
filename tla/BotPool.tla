------------------------------- MODULE BotPool -------------------------------
(***************************************************************************)
(* The pool of worker threads that decide bots' moves: BotWorkerPool       *)
(* (packages/server/src/bot/botWorkerPool.ts).  A job is handed to an idle *)
(* worker or waits; a job handed over runs into a timeout, after which its *)
(* worker is busy until the late answer comes.  Workers die and are        *)
(* started again, up to a limit; then the pool gives up.                   *)
(***************************************************************************)
EXTENDS Integers, Sequences, SequencesExt

CONSTANTS
    Jobs,         \* decisions asked for
    PoolSize,
    MaxRespawns

VARIABLES
    workers,    \* workers alive
    idle,       \* the idle ones, the last first
    pending,    \* queue: jobs no worker was free for
    inFlight,   \* worker -> the job it holds, as the pool knows
    computes,   \* worker -> the job it computes
    respawns,
    disabled,
    job         \* job -> "new", "asked", "resolved", "rejected"

poolVars == <<workers, idle, pending, inFlight, computes, respawns, disabled, job>>

NoJob == "none"
\* Every worker ever started.
Workers == 1 .. PoolSize + MaxRespawns

Init ==
    /\ workers = 1 .. PoolSize
    /\ idle = [w \in 1 .. PoolSize |-> w]
    /\ pending = <<>>
    /\ inFlight = [w \in Workers |-> NoJob]
    /\ computes = [w \in Workers |-> NoJob]
    /\ respawns = 0
    /\ disabled = FALSE
    /\ job = [j \in Jobs |-> "new"]

-----------------------------------------------------------------------------
dispatch(w, j) ==
    /\ inFlight' = [inFlight EXCEPT ![w] = j]
    /\ computes' = [computes EXCEPT ![w] = j]

\* release(): the worker takes the next job that waits, or is idle.
release(w) ==
    IF pending # <<>>
      THEN dispatch(w, Head(pending)) /\ pending' = Tail(pending) /\ UNCHANGED idle
      ELSE /\ inFlight' = [inFlight EXCEPT ![w] = NoJob]
           /\ computes' = [computes EXCEPT ![w] = NoJob]
           /\ idle' = Append(idle, w) /\ UNCHANGED pending

\* decide(): a disabled pool refuses at once.
decide(j) ==
    /\ job[j] = "new"
    /\ job' = [job EXCEPT ![j] = IF disabled THEN "rejected" ELSE "asked"]
    /\ IF disabled THEN UNCHANGED <<idle, pending, inFlight, computes>>
       ELSE IF idle # <<>> THEN dispatch(Last(idle), j) /\ idle' = Front(idle) /\ UNCHANGED pending
       ELSE pending' = Append(pending, j) /\ UNCHANGED <<idle, inFlight, computes>>
    /\ UNCHANGED <<workers, respawns, disabled>>

\* The worker's answer: it is released, and the answer reaches its own job only,
\* or nobody if that timed out.
message(w) ==
    /\ w \in workers /\ computes[w] # NoJob
    /\ IF disabled THEN /\ inFlight' = [inFlight EXCEPT ![w] = NoJob]
                        /\ computes' = [computes EXCEPT ![w] = NoJob]
                        /\ UNCHANGED <<idle, pending>>
       ELSE release(w)
    /\ job' = IF inFlight[w] = computes[w] THEN [job EXCEPT ![inFlight[w]] = "resolved"] ELSE job
    /\ UNCHANGED <<workers, respawns, disabled>>

\* Mutant of timeout: the job is dropped and its caller not told.
timeout_silent(w) ==
    /\ inFlight[w] # NoJob
    /\ inFlight' = [inFlight EXCEPT ![w] = NoJob]
    /\ UNCHANGED <<workers, idle, pending, computes, respawns, disabled, job>>

\* The timeout of a job handed over: it is refused, its worker stays busy.
timeout(w) ==
    /\ inFlight[w] # NoJob
    /\ job' = [job EXCEPT ![inFlight[w]] = "rejected"]
    /\ inFlight' = [inFlight EXCEPT ![w] = NoJob]
    /\ UNCHANGED <<workers, idle, pending, computes, respawns, disabled>>

\* Jobs refused by die(): the dead worker's, and all that wait when the pool gives up.
Refused(w, last) ==
    [j \in Jobs |-> IF j = inFlight[w] \/ (last /\ j \in ToSet(pending)) THEN "rejected" ELSE job[j]]

\* die(): another worker is started, or the pool is disabled for good.
die(w) ==
    LET last == respawns = MaxRespawns
        new == PoolSize + respawns + 1
        here == SelectSeq(idle, LAMBDA x : x # w)
        fromQueue == ~last /\ pending # <<>>
    IN  /\ w \in workers /\ ~disabled
        /\ respawns' = respawns + (IF last THEN 0 ELSE 1)
        /\ disabled' = last
        /\ workers' = (workers \ {w}) \cup (IF last THEN {} ELSE {new})
        /\ job' = Refused(w, last)
        /\ pending' = IF last THEN <<>> ELSE IF fromQueue THEN Tail(pending) ELSE pending
        /\ idle' = IF last \/ fromQueue THEN here ELSE Append(here, new)
        /\ inFlight' = [x \in Workers |-> IF x = w THEN NoJob
                                          ELSE IF fromQueue /\ x = new THEN Head(pending) ELSE inFlight[x]]
        /\ computes' = [x \in Workers |-> IF x = w THEN NoJob
                                          ELSE IF fromQueue /\ x = new THEN Head(pending) ELSE computes[x]]

Next ==
    \/ \E j \in Jobs : decide(j)
    \/ \E w \in Workers : message(w) \/ timeout(w) \/ die(w)

\* A worker answers in the end, or dies.
Fairness == \A w \in Workers : WF_poolVars(message(w))

-----------------------------------------------------------------------------
\* "a bot can never stall a match because of the pool" (botWorkerPool.ts): every
\* decision asked for is answered or refused, the queued ones too, whatever
\* dies or is late, as long as no worker computes for ever.  (A job that is
\* settled stays so, and Jobs is finite: each is settled in the end just when
\* time and again none is open.)
EveryJobSettles == []<>(\A j \in Jobs : job[j] # "asked")
=============================================================================
