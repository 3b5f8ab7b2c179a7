----------------------------- MODULE EdgarClient -----------------------------
(***************************************************************************)
(* One SecEdgarClient (src/rag/ingestion/sec_edgar.py) used by several     *)
(* threads: each lists the filings of a company, for which it needs the    *)
(* ticker map and the submissions of the company, and fetches a document.  *)
(* Every request first passes the client-side rate limiter.                *)
(*                                                                         *)
(* Time is counted in ticks. A clock reading is kept as the number of      *)
(* ticks since then, and no further than MinInterval: the limiter cannot   *)
(* tell a longer time from it, nor from no request at all.                 *)
(***************************************************************************)
EXTENDS Naturals

CONSTANTS
    Threads,
    MinInterval,  \* min_request_interval_seconds
    MaxAttempts   \* stop_after_attempt(3)

ASSUME IntervalAssumption == MinInterval \in Nat
ASSUME AttemptsAssumption == MaxAttempts \in Nat \ {0}

VARIABLES
    lock,         \* the thread that holds the limiter's lock, or NoThread
    sinceStamp,   \* ticks since _last_request_at
    sleepLeft,    \* ticks each thread has still to sleep in the limiter
    pc,
    request,      \* what each thread is asking SEC for
    attempt,      \* the attempts each has made at it
    tickers,      \* the ticker map is cached (lru_cache)
    sinceGrant    \* history: ticks since the limiter last let a request go

limiterVars == <<lock, sinceStamp, sleepLeft, sinceGrant>>
clientVars == <<lock, sinceStamp, sleepLeft, sinceGrant, pc, request, attempt, tickers>>

NoThread == "no thread"
ASSUME NoThreadAssumption == NoThread \notin Threads

Requests == {"tickers", "submissions", "document"}
Ended    == {"fetched", "nothing", "raised"}

ClientInit ==
    /\ lock = NoThread
    /\ sinceStamp = MinInterval /\ sinceGrant = MinInterval
    /\ sleepLeft = [t \in Threads |-> 0]
    /\ pc = [t \in Threads |-> "idle"]
    /\ request = [t \in Threads |-> "tickers"]
    /\ attempt = [t \in Threads |-> 0]
    /\ tickers = FALSE

-----------------------------------------------------------------------------
(* The requests of one thread.                                              *)

Goto(t, step) == pc' = [pc EXCEPT ![t] = step]

Ask(t, r) ==
    /\ request' = [request EXCEPT ![t] = r]
    /\ attempt' = [attempt EXCEPT ![t] = 1]
    /\ Goto(t, "wait")

End(t, outcome) ==
    /\ Goto(t, outcome)
    /\ attempt' = [attempt EXCEPT ![t] = 0]
    /\ UNCHANGED request

\* list_filings. The cached map spares the first request; threads that find it
\* missing at the same time all ask for it.
ListFilings(t) ==
    /\ pc[t] = "idle"
    /\ Ask(t, IF tickers THEN "submissions" ELSE "tickers")
    /\ UNCHANGED <<limiterVars, tickers>>

\* The map arrived and is cached; the ticker may be missing from it.
GotTickers(t) ==
    /\ pc[t] = "sent" /\ request[t] = "tickers"
    /\ tickers' = TRUE
    /\ Ask(t, "submissions") \/ End(t, "raised")
    /\ UNCHANGED limiterVars

\* The payload is malformed, or lists a filing of the requested forms and dates,
\* or none.
GotSubmissions(t) ==
    /\ pc[t] = "sent" /\ request[t] = "submissions"
    /\ Ask(t, "document") \/ \E outcome \in {"nothing", "raised"} : End(t, outcome)
    /\ UNCHANGED <<limiterVars, tickers>>

GotDocument(t) ==
    /\ pc[t] = "sent" /\ request[t] = "document"
    /\ End(t, "fetched")
    /\ UNCHANGED <<limiterVars, tickers>>

\* Only a transport error is retried, after a backoff of any length here.
TransportError(t) ==
    /\ pc[t] = "sent" /\ attempt[t] < MaxAttempts
    /\ Goto(t, "backoff")
    /\ UNCHANGED <<limiterVars, request, attempt, tickers>>

Retry(t) ==
    /\ pc[t] = "backoff"
    /\ attempt' = [attempt EXCEPT ![t] = @ + 1]
    /\ Goto(t, "wait")
    /\ UNCHANGED <<limiterVars, request, tickers>>

\* An error status is raised at once, a transport error after the last attempt.
RequestFails(t) ==
    /\ pc[t] = "sent"
    /\ End(t, "raised")
    /\ UNCHANGED <<limiterVars, tickers>>

-----------------------------------------------------------------------------
(* _RateLimiter.wait, entered by one thread at a time.                      *)

\* Mutant: the lock is given back for the time of the sleep.
Enter_SleepsUnlocked(t) ==
    /\ pc[t] = "wait" /\ lock = NoThread
    /\ sleepLeft' = [sleepLeft EXCEPT ![t] = MinInterval - sinceStamp]
    /\ Goto(t, "sleep")
    /\ UNCHANGED <<lock, sinceStamp, sinceGrant, request, attempt, tickers>>

\* Takes the lock, reads the clock and goes to sleep for what remains of the
\* interval, if anything.
Enter(t) ==
    /\ pc[t] = "wait" /\ lock = NoThread
    /\ lock' = t
    /\ sleepLeft' = [sleepLeft EXCEPT ![t] = MinInterval - sinceStamp]
    /\ Goto(t, "sleep")
    /\ UNCHANGED <<sinceStamp, sinceGrant, request, attempt, tickers>>

\* Mutant: the lock is not given back.
Grant_KeepsLock(t) ==
    /\ pc[t] = "sleep" /\ sleepLeft[t] = 0
    /\ sinceStamp' = 0 /\ sinceGrant' = 0
    /\ Goto(t, "sent")
    /\ UNCHANGED <<lock, sleepLeft, request, attempt, tickers>>

\* Awake again, it reads the clock a second time, as the time of this request,
\* and leaves. The request is sent whenever the thread runs next.
Grant(t) ==
    /\ pc[t] = "sleep" /\ sleepLeft[t] = 0
    /\ lock' = NoThread
    /\ sinceStamp' = 0 /\ sinceGrant' = 0
    /\ Goto(t, "sent")
    /\ UNCHANGED <<sleepLeft, request, attempt, tickers>>

\* Time passes: at least as much as a sleeper asked for.
Later(age) == IF age < MinInterval THEN age + 1 ELSE age

Tick ==
    /\ sinceStamp' = Later(sinceStamp)
    /\ sinceGrant' = Later(sinceGrant)
    /\ sleepLeft' = [t \in Threads |-> IF sleepLeft[t] > 0 THEN sleepLeft[t] - 1 ELSE 0]
    /\ UNCHANGED <<lock, pc, request, attempt, tickers>>

-----------------------------------------------------------------------------
CallStep(t) ==
    \/ Enter(t) \/ Grant(t) \/ Retry(t) \/ RequestFails(t) \/ TransportError(t)
    \/ GotTickers(t) \/ GotSubmissions(t) \/ GotDocument(t)

ClientNext == Tick \/ \E t \in Threads : ListFilings(t) \/ CallStep(t)

ClientSpec == ClientInit /\ [][ClientNext]_clientVars

\* Time goes on, and the scheduler runs every thread that is in a call and can run.
ClientFairness == WF_clientVars(Tick) /\ \A t \in Threads : WF_clientVars(CallStep(t))

FairClientSpec == ClientSpec /\ ClientFairness

-----------------------------------------------------------------------------
(* Properties.                                                              *)

\* Whoever is in the limiter holds its lock, alone; attempts stay in bounds and
\* the limiter's clock readings are never younger than the truth.
ClientTypeOK ==
    /\ lock \in Threads \cup {NoThread}
    /\ sinceStamp \in 0 .. MinInterval /\ sinceGrant \in 0 .. MinInterval
    /\ sleepLeft \in [Threads -> 0 .. MinInterval]
    /\ pc \in [Threads -> {"idle", "wait", "sleep", "sent", "backoff"} \cup Ended]
    /\ request \in [Threads -> Requests]
    /\ attempt \in [Threads -> 0 .. MaxAttempts]
    /\ tickers \in BOOLEAN
    /\ \A t \in Threads : pc[t] = "sleep" <=> lock = t

\* Whatever the threads do, two requests leave the limiter at least MinInterval
\* apart (SEC asks for no more than ten a second).
RequestsSpaced ==
    [][\A t \in Threads :
          pc[t] # "sent" /\ pc'[t] = "sent" => sinceGrant = MinInterval]_clientVars

\* Every call returns or raises: no thread waits for the limiter for ever, and
\* the retries end.
EveryCallEnds == \A t \in Threads : pc[t] # "idle" ~> pc[t] \in Ended
=============================================================================
