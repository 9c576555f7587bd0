------------------------------- MODULE HttpClient -------------------------------
(***************************************************************************)
(* HttpClient (utils/http.py): every source connector's GET, with retries,   *)
(* exponential backoff and pacing, against a clock.  The client is used by   *)
(* one thread.  A request is counted from the moment httpx is called; the    *)
(* answer, or httpx's own timeout, comes any time later.                     *)
(***************************************************************************)
EXTENDS Naturals, Sequences

CONSTANTS
  MaxAttempts,    \* max_attempts (3 in the code)
  BackoffFactor,  \* backoff_factor, in ticks (1 second in the code)
  MinInterval,    \* min_interval_seconds, in ticks (3 seconds for arXiv, 0 for most)
  MaxGets,        \* bound: calls of get
  MaxTime         \* bound: how far the clock runs

\* The sleep after attempt n.
Backoff(n) == BackoffFactor * 2^n

ASSUME HttpAssumption ==
  /\ MaxAttempts \in Nat \ {0}
  /\ \A n \in 0..MaxAttempts - 1 : Backoff(n) \in Nat
  /\ MinInterval \in Nat
  /\ MaxGets \in Nat
  /\ MaxTime \in Nat \ {0}

VARIABLES
  now,              \* time.monotonic(), which is never 0
  last_request_at,  \* _last_request_at, 0 before the first request
  at,               \* "idle", "pacing", "waiting" (in httpx), "backoff"
  wakeAt,           \* when the sleep in progress is over
  attempt,          \* the attempt of the current get, from 0
  gets,             \* calls of get so far
  requests,         \* every request sent: its get, its attempt, when, and its answer
  returns           \* what each get returned or raised

vars == <<now, last_request_at, at, wakeAt, attempt, gets, requests, returns>>

\* Kinds of answers: 2xx, a client error, 429, a server error, a transport error
\* or timeout.
Answer == {"success", "client_error", "too_many", "server_error", "transport"}
Retried == {"too_many", "server_error", "transport"}
Unanswered == "unanswered"

Request == [get : 1..MaxGets, attempt : 0..MaxAttempts - 1, sent : 1..MaxTime,
            answer : Answer \cup {Unanswered}]

TypeOK ==
  /\ now \in 1..MaxTime
  /\ last_request_at \in 0..MaxTime
  /\ at \in {"idle", "pacing", "waiting", "backoff"}
  /\ wakeAt \in Nat
  /\ attempt \in 0..MaxAttempts - 1
  /\ gets \in 0..MaxGets
  /\ requests \in Seq(Request)
  /\ returns \in Seq(Answer)

Init ==
  /\ now = 1
  /\ last_request_at = 0
  /\ at = "idle"
  /\ wakeAt = 0
  /\ attempt = 0
  /\ gets = 0
  /\ requests = <<>>
  /\ returns = <<>>

Send(get, n) ==
  /\ requests' = Append(requests, [get |-> get, attempt |-> n, sent |-> now,
                                   answer |-> Unanswered])
  /\ at' = "waiting"

\* Faulty variant: only a client that has sent nothing yet waits.
MustPaceOnce == MinInterval > 0 /\ last_request_at = 0

\* _sleep_if_needed: whether the first attempt has to wait.
MustPace ==
  /\ MinInterval > 0
  /\ last_request_at # 0
  /\ now - last_request_at < MinInterval

\* get is called and need not wait.
GetAtOnce ==
  /\ at = "idle" /\ gets < MaxGets
  /\ ~MustPace
  /\ gets' = gets + 1
  /\ attempt' = 0
  /\ last_request_at' = now
  /\ Send(gets', 0)
  /\ UNCHANGED <<now, wakeAt, returns>>

\* get is called and sleeps first.
GetPaced ==
  /\ at = "idle" /\ gets < MaxGets
  /\ MustPace
  /\ gets' = gets + 1
  /\ attempt' = 0
  /\ at' = "pacing"
  /\ wakeAt' = last_request_at + MinInterval
  /\ UNCHANGED <<now, last_request_at, requests, returns>>

Paced ==
  /\ at = "pacing"
  /\ now >= wakeAt
  /\ last_request_at' = now
  /\ Send(gets, 0)
  /\ UNCHANGED <<now, wakeAt, attempt, gets, returns>>

\* Faulty variant: an attempt too few.
LastAttemptTooEarly == attempt + 2 >= MaxAttempts

\* No attempt is left.
LastAttempt == attempt >= MaxAttempts - 1

\* httpx answers or raises: a final answer is returned, and a retried one ends the
\* get only with the last attempt.
AnswerRequest ==
  /\ at = "waiting"
  /\ \E answer \in Answer :
       /\ requests' = [requests EXCEPT ![Len(requests)].answer = answer]
       /\ IF answer \notin Retried \/ LastAttempt
          THEN /\ returns' = Append(returns, answer)
               /\ at' = "idle"
               /\ UNCHANGED wakeAt
          ELSE /\ at' = "backoff"
               /\ wakeAt' = now + Backoff(attempt)
               /\ UNCHANGED returns
  /\ UNCHANGED <<now, last_request_at, attempt, gets>>

\* Faulty variant: the retry does not wait for the backoff.
RetryAtOnce ==
  /\ at = "backoff"
  /\ attempt' = attempt + 1
  /\ Send(gets, attempt')
  /\ UNCHANGED <<now, last_request_at, wakeAt, gets, returns>>

\* The backoff is over; a retry is neither paced nor recorded as the last request.
Retry ==
  /\ at = "backoff"
  /\ now >= wakeAt
  /\ attempt' = attempt + 1
  /\ Send(gets, attempt')
  /\ UNCHANGED <<now, last_request_at, wakeAt, gets, returns>>

Tick ==
  /\ now < MaxTime
  /\ now' = now + 1
  /\ UNCHANGED <<last_request_at, at, wakeAt, attempt, gets, requests, returns>>

\* The bounds are reached.
Halt ==
  /\ (at = "idle" /\ gets = MaxGets) \/ now = MaxTime
  /\ UNCHANGED vars

Next == GetAtOnce \/ GetPaced \/ Paced \/ AnswerRequest \/ Retry \/ Tick \/ Halt

Spec == Init /\ [][Next]_vars

-----------------------------------------------------------------------------
\* The first attempts of any two gets are at least the minimum interval apart.
GetsArePaced ==
  \A i, j \in 1..Len(requests) :
    i < j /\ requests[i].attempt = 0 /\ requests[j].attempt = 0 =>
      requests[j].sent >= requests[i].sent + MinInterval

\* Two attempts of one get are apart by the backoff of the earlier: 1, 2, 4, ...
\* times the factor, with nothing sent in between, and only after an answer that is
\* to be retried.
RetriesBackOff ==
  \A i \in 1..Len(requests) - 1 :
    requests[i].get = requests[i + 1].get =>
      /\ requests[i + 1].sent >= requests[i].sent + Backoff(requests[i].attempt)
      /\ requests[i + 1].attempt = requests[i].attempt + 1
      /\ requests[i].answer \in Retried

\* A get gives up only after the full number of failed attempts; otherwise it has
\* returned the answer of its last request, an answer that ends the retries.
FailsOnlyExhausted ==
  \A g \in 1..Len(returns) :
    LET mine == {i \in 1..Len(requests) : requests[i].get = g} IN
    /\ \E i \in mine : requests[i].answer = returns[g] /\ \A j \in mine : j <= i
    /\ returns[g] \in Retried => {requests[i].attempt : i \in mine} = 0..MaxAttempts - 1

\* sources/arxiv.py:14: "One request every three seconds; single connection at a
\* time."  Any two consecutive requests are the minimum interval apart.
RatePolicy ==
  \A i \in 1..Len(requests) - 1 : requests[i + 1].sent >= requests[i].sent + MinInterval
=============================================================================
