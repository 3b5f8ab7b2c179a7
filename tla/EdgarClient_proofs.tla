-------------------------- MODULE EdgarClient_proofs --------------------------
(***************************************************************************)
(* The rate limiter of SecEdgarClient keeps requests apart, for any number *)
(* of threads, any interval and any number of attempts.                    *)
(***************************************************************************)
EXTENDS EdgarClient, TLAPS

\* Whoever sleeps in the limiter holds its lock, so that nobody moves the time of
\* the last request, and what is left of the sleep completes the interval.
SleepsLongEnough == \A t \in Threads : pc[t] = "sleep" => sinceStamp + sleepLeft[t] >= MinInterval

RetriesLeft == \A t \in Threads : pc[t] = "backoff" => attempt[t] < MaxAttempts

LimiterInv == ClientTypeOK /\ RetriesLeft /\ sinceStamp = sinceGrant /\ SleepsLongEnough

\* The invariant holds before any request.
LEMMA LimiterInit == ClientInit => LimiterInv
<1> SUFFICES ASSUME ClientInit PROVE LimiterInv
  OBVIOUS
<1> USE IntervalAssumption, AttemptsAssumption, NoThreadAssumption DEF ClientInit
<1>1. ClientTypeOK
  <2>1. MinInterval \in 0 .. MinInterval /\ 0 \in 0 .. MinInterval /\ 0 \in 0 .. MaxAttempts
    OBVIOUS
  <2>2. \A t \in Threads : pc[t] # "sleep" /\ lock # t
    OBVIOUS
  <2> QED BY <2>1, <2>2 DEF ClientTypeOK, Requests
<1>2. RetriesLeft /\ SleepsLongEnough
  BY DEF RetriesLeft, SleepsLongEnough
<1> QED BY <1>1, <1>2 DEF LimiterInv

\* A step of a thread outside the limiter leaves the limiter alone.
LEMMA OutsideTheLimiter ==
    ASSUME LimiterInv, NEW t \in Threads,
           \/ ListFilings(t) \/ GotTickers(t) \/ GotSubmissions(t) \/ GotDocument(t)
           \/ TransportError(t) \/ Retry(t) \/ RequestFails(t)
    PROVE  LimiterInv' /\ UNCHANGED limiterVars /\ (pc[t] # "sent" => pc'[t] # "sent")
<1> USE IntervalAssumption, AttemptsAssumption, NoThreadAssumption
    DEF LimiterInv, ClientTypeOK, RetriesLeft, SleepsLongEnough, Requests, Ended, limiterVars, Goto
<1>1. CASE ListFilings(t) BY <1>1 DEF ListFilings, Ask
<1>2. CASE GotTickers(t) BY <1>2 DEF GotTickers, Ask, End
<1>3. CASE GotSubmissions(t) BY <1>3 DEF GotSubmissions, Ask, End
<1>4. CASE GotDocument(t) BY <1>4 DEF GotDocument, End
<1>5. CASE TransportError(t) BY <1>5 DEF TransportError
<1>6. CASE Retry(t) BY <1>6 DEF Retry
<1>7. CASE RequestFails(t) BY <1>7 DEF RequestFails, End
<1> QED BY <1>1, <1>2, <1>3, <1>4, <1>5, <1>6, <1>7

\* The lock lets one thread in, and its sleep is set to end with the interval.
LEMMA EnterTheLimiter == ASSUME LimiterInv, NEW t \in Threads, Enter(t) PROVE LimiterInv'
BY IntervalAssumption, AttemptsAssumption, NoThreadAssumption
   DEF LimiterInv, ClientTypeOK, RetriesLeft, SleepsLongEnough, Requests, Ended, Goto, Enter

\* A request leaves when the interval is over, and only it moves the clock.
LEMMA LeaveTheLimiter ==
    ASSUME LimiterInv, NEW t \in Threads, Grant(t)
    PROVE  LimiterInv' /\ sinceGrant = MinInterval
BY IntervalAssumption, AttemptsAssumption, NoThreadAssumption
   DEF LimiterInv, ClientTypeOK, RetriesLeft, SleepsLongEnough, Requests, Ended, Goto, Grant

\* While time passes, what it adds to the age of the last request it takes from the sleep.
LEMMA TimePasses == ASSUME LimiterInv, Tick PROVE LimiterInv'
BY IntervalAssumption, AttemptsAssumption, NoThreadAssumption
   DEF LimiterInv, ClientTypeOK, RetriesLeft, SleepsLongEnough, Requests, Ended, Tick, Later

\* Every step preserves the invariant, and lets a request go only when the last one
\* is an interval old.
LEMMA LimiterStep ==
    ASSUME LimiterInv, [ClientNext]_clientVars
    PROVE  /\ LimiterInv'
           /\ \A t \in Threads : pc[t] # "sent" /\ pc'[t] = "sent" => sinceGrant = MinInterval
<1>1. CASE Tick BY <1>1, TimePasses DEF Tick
<1>2. ASSUME NEW t \in Threads, ListFilings(t) \/ CallStep(t)
      PROVE  /\ LimiterInv'
             /\ \A u \in Threads : pc[u] # "sent" /\ pc'[u] = "sent" => sinceGrant = MinInterval
    <2>0. \A u \in Threads \ {t} : pc'[u] = pc[u]
      BY <1>2 DEF CallStep, ListFilings, Enter, Grant, Retry, RequestFails, TransportError,
                  GotTickers, GotSubmissions, GotDocument, Goto, Ask, End, LimiterInv, ClientTypeOK
    <2>1. CASE Enter(t)
      <3>1. pc'[t] # "sent" BY <2>1 DEF Enter, Goto, LimiterInv, ClientTypeOK
      <3> QED BY <2>0, <2>1, <3>1, EnterTheLimiter
    <2>2. CASE Grant(t) BY <2>2, LeaveTheLimiter
    <2>3. CASE ~Enter(t) /\ ~Grant(t)
      <3>1. LimiterInv' /\ (pc[t] # "sent" => pc'[t] # "sent")
        BY <1>2, <2>3, OutsideTheLimiter DEF CallStep
      <3> QED BY <2>0, <3>1
    <2> QED BY <2>1, <2>2, <2>3
<1>3. CASE UNCHANGED clientVars
  BY <1>3 DEF clientVars, LimiterInv, ClientTypeOK, RetriesLeft, SleepsLongEnough
<1> QED BY <1>1, <1>2, <1>3 DEF ClientNext

\* The limiter's invariant holds throughout.
LEMMA LimiterCorrect == ClientSpec => []LimiterInv
<1>1. LimiterInv /\ [ClientNext]_clientVars => LimiterInv' BY LimiterStep
<1> QED BY LimiterInit, <1>1, PTL DEF ClientSpec

\* Exactly the thread that holds the lock is in _RateLimiter.wait, and no request is
\* tried more often than the retry decorator allows.
THEOREM ClientTypeCorrect == ClientSpec => []ClientTypeOK
<1>1. LimiterInv => ClientTypeOK BY DEF LimiterInv
<1> QED BY LimiterCorrect, <1>1, PTL

\* Two requests leave _RateLimiter.wait at least min_request_interval_seconds apart.
THEOREM LimiterSpacesRequests == ClientSpec => RequestsSpaced
<1>1. LimiterInv /\ [ClientNext]_clientVars
          => [\A t \in Threads :
                 pc[t] # "sent" /\ pc'[t] = "sent" => sinceGrant = MinInterval]_clientVars
  BY LimiterStep
<1> QED BY LimiterCorrect, <1>1, PTL DEF ClientSpec, RequestsSpaced
===============================================================================
