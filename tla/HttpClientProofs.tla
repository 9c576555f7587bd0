----------------------------- MODULE HttpClientProofs -----------------------------
(***************************************************************************)
(* Proofs about HttpClient, for every number of attempts, every backoff, every        *)
(* interval, and any number of gets.  The requests of the get in progress are the      *)
(* last ones, numbered from 0 (CurrentInv); what a sleep waits for is recorded when      *)
(* it begins (SleepInv); and the time of the last first attempt is never earlier than      *)
(* any first attempt (ClockInv).                                                *)
(***************************************************************************)
EXTENDS HttpClient, TLAPS

Sent == 1..Len(requests)

ClockInv ==
  /\ last_request_at <= now
  /\ \A i \in Sent :
       /\ requests[i].sent <= now
       /\ requests[i].attempt = 0 => last_request_at # 0 /\ requests[i].sent <= last_request_at

SleepInv ==
  /\ at = "pacing" => attempt = 0 /\ wakeAt = last_request_at + MinInterval
  /\ at = "backoff" =>
       /\ attempt + 1 < MaxAttempts
       /\ requests[Len(requests)].answer \in Retried
       /\ wakeAt >= requests[Len(requests)].sent + Backoff(attempt)

\* The gets that have returned are all but the current one.
ReturnsInv == IF at = "idle" THEN Len(returns) = gets ELSE gets > 0 /\ Len(returns) = gets - 1

CurrentInv ==
  /\ at \in {"idle", "pacing"} => \A i \in Sent : requests[i].get <= Len(returns)
  /\ at \in {"waiting", "backoff"} =>
       /\ attempt < Len(requests)
       /\ \A i \in Sent :
            IF i < Len(requests) - attempt THEN requests[i].get <= Len(returns)
            ELSE requests[i].get = gets /\ requests[i].attempt = i - (Len(requests) - attempt)

\* FailsOnlyExhausted, request by request.
ExhaustedInv ==
  \A g \in 1..Len(returns) :
    /\ \E i \in Sent :
         /\ requests[i].get = g /\ requests[i].answer = returns[g]
         /\ \A j \in Sent : requests[j].get = g => j <= i
    /\ returns[g] \in Retried =>
         \A n \in 0..MaxAttempts - 1 : \E i \in Sent : requests[i].get = g /\ requests[i].attempt = n

IInv ==
  /\ TypeOK
  /\ ClockInv
  /\ SleepInv
  /\ ReturnsInv
  /\ CurrentInv
  /\ GetsArePaced
  /\ RetriesBackOff
  /\ ExhaustedInv

-----------------------------------------------------------------------------
LEMMA Start == Init => IInv
<1> SUFFICES ASSUME Init PROVE IInv
  OBVIOUS
<1>1. TypeOK
  BY HttpAssumption DEF Init, TypeOK
<1>2. ClockInv /\ SleepInv /\ ReturnsInv /\ CurrentInv
  BY DEF Init, ClockInv, SleepInv, ReturnsInv, CurrentInv, Sent
<1>3. GetsArePaced /\ RetriesBackOff /\ ExhaustedInv
  BY DEF Init, GetsArePaced, RetriesBackOff, ExhaustedInv
<1> QED
  BY <1>1, <1>2, <1>3 DEF IInv

\* What sending does to the list of requests.
LEMMA AfterSend ==
  ASSUME TypeOK, NEW get \in 1..MaxGets, NEW n \in 0..MaxAttempts - 1, Send(get, n)
  PROVE  /\ Len(requests') = Len(requests) + 1 /\ Len(requests) \in Nat
         /\ \A i \in Sent : requests'[i] = requests[i]
         /\ requests'[Len(requests) + 1] =
              [get |-> get, attempt |-> n, sent |-> now, answer |-> Unanswered]
         /\ requests' \in Seq(Request)
         /\ at' = "waiting"
<1>1. [get |-> get, attempt |-> n, sent |-> now, answer |-> Unanswered] \in Request
  BY DEF TypeOK, Request
<1> QED
  BY <1>1 DEF TypeOK, Send, Sent

LEMMA RequestFacts ==
  ASSUME TypeOK, NEW i \in Sent
  PROVE  requests[i] \in Request /\ i \in Nat
BY DEF TypeOK, Sent

\* The first request of a get that need not wait, or has waited.
LEMMA FirstAttempt ==
  ASSUME IInv, NEW get \in 1..MaxGets, Send(get, 0),
         get = Len(returns) + 1, gets' = get, attempt' = 0,
         at \in {"idle", "pacing"}, last_request_at' = now,
         last_request_at # 0 => now >= last_request_at + MinInterval,
         UNCHANGED <<now, wakeAt, returns>>
  PROVE  IInv'
<1> USE DEF IInv
<1>0. 0 \in 0..MaxAttempts - 1
  BY HttpAssumption
<1>1. /\ Len(requests') = Len(requests) + 1 /\ Len(requests) \in Nat
      /\ \A i \in Sent : requests'[i] = requests[i]
      /\ requests'[Len(requests) + 1] =
           [get |-> get, attempt |-> 0, sent |-> now, answer |-> Unanswered]
      /\ requests' \in Seq(Request)
      /\ at' = "waiting"
  BY <1>0, AfterSend
<1>2. now \in 1..MaxTime /\ last_request_at \in 0..MaxTime /\ MinInterval \in Nat /\ Len(returns) \in Nat
  BY HttpAssumption DEF TypeOK
<1>3. \A i \in Sent : /\ requests[i].sent \in Nat /\ requests[i].get \in Nat
                      /\ requests[i].get <= Len(returns)
  BY RequestFacts DEF CurrentInv, Request
<1>4. TypeOK'
  BY <1>0, <1>1, <1>2 DEF TypeOK
<1>5. ClockInv'
  BY <1>1, <1>2, <1>3 DEF ClockInv, Sent
<1>6. SleepInv' /\ ReturnsInv'
  BY <1>1, <1>2 DEF SleepInv, ReturnsInv
<1> DEFINE new == Len(requests) + 1
<1>7. /\ Sent' = Sent \cup {new} /\ Sent \subseteq Nat /\ new \notin Sent /\ new \in Nat
      /\ \A i \in Sent : i < new
      /\ Len(requests') = new
      /\ requests'[new].get = get /\ requests'[new].attempt = 0 /\ requests'[new].sent = now
  BY <1>1 DEF Sent
<1>8. CurrentInv'
  <2>1. at' = "waiting" /\ attempt' = 0 /\ gets' = get /\ returns' = returns
    BY <1>1
  <2>2. ASSUME NEW i \in Sent
        PROVE  i < Len(requests') - attempt' /\ requests'[i].get <= Len(returns')
    BY <1>1, <1>3, <1>7, <2>1
  <2> QED
    BY <1>7, <2>1, <2>2 DEF CurrentInv
<1>9. GetsArePaced'
  <2> SUFFICES ASSUME NEW i \in Sent', NEW j \in Sent', i < j,
                      requests'[i].attempt = 0, requests'[j].attempt = 0
               PROVE  requests'[j].sent >= requests'[i].sent + MinInterval
    BY DEF GetsArePaced, Sent
  <2>1. CASE j \in Sent
    BY <1>1, <1>7, <2>1 DEF GetsArePaced, Sent
  <2>2. CASE j = new
    <3>1. i \in Sent /\ requests'[i] = requests[i]
      BY <1>1, <1>7, <2>2
    <3> QED
      BY <1>2, <1>3, <1>7, <2>2, <3>1 DEF ClockInv
  <2> QED
    BY <1>7, <2>1, <2>2
<1>10. RetriesBackOff'
  <2> SUFFICES ASSUME NEW i \in 1..Len(requests') - 1, requests'[i].get = requests'[i + 1].get
               PROVE  /\ requests'[i + 1].sent >= requests'[i].sent + Backoff(requests'[i].attempt)
                      /\ requests'[i + 1].attempt = requests'[i].attempt + 1
                      /\ requests'[i].answer \in Retried
    BY DEF RetriesBackOff
  <2>1. i \in Sent /\ requests'[i] = requests[i]
    BY <1>1, <1>7 DEF Sent
  <2>2. i + 1 # new
    BY <1>2, <1>3, <1>7, <2>1
  <2>3. i + 1 \in Sent /\ requests'[i + 1] = requests[i + 1] /\ i \in 1..Len(requests) - 1
    BY <1>1, <1>7, <2>1, <2>2 DEF Sent
  <2> QED
    BY <2>1, <2>3 DEF RetriesBackOff
<1>11. ExhaustedInv'
  <2>1. \A g \in 1..Len(returns) : g # get
    BY <1>2
  <2>2. \A i \in Sent : i \in Sent' /\ requests'[i] = requests[i]
    BY <1>1, <1>7
  <2>3. \A i \in Sent' : i \in Sent \/ requests'[i].get = get
    BY <1>7
  <2> QED
    BY <2>1, <2>2, <2>3 DEF ExhaustedInv
<1> QED
  BY <1>4, <1>5, <1>6, <1>8, <1>9, <1>10, <1>11

LEMMA GetAtOnceStep == ASSUME IInv, GetAtOnce PROVE IInv'
<1>1. /\ gets' \in 1..MaxGets /\ gets' = Len(returns) + 1
      /\ last_request_at # 0 => now >= last_request_at + MinInterval
  BY HttpAssumption DEF IInv, TypeOK, ClockInv, ReturnsInv, GetAtOnce, MustPace
<1> QED
  BY <1>1, FirstAttempt DEF GetAtOnce

LEMMA PacedStep == ASSUME IInv, Paced PROVE IInv'
<1>1. /\ gets \in 1..MaxGets /\ gets = Len(returns) + 1 /\ gets' = gets
      /\ now >= last_request_at + MinInterval
      /\ attempt' = 0
  BY HttpAssumption DEF IInv, TypeOK, SleepInv, ReturnsInv, Paced
<1> QED
  BY <1>1, FirstAttempt DEF Paced

\* Steps that neither send nor return anything.
LEMMA SameLists ==
  ASSUME GetsArePaced, RetriesBackOff, ExhaustedInv, UNCHANGED <<requests, returns>>
  PROVE  GetsArePaced' /\ RetriesBackOff' /\ ExhaustedInv'
<1>1. GetsArePaced' /\ RetriesBackOff'
  BY DEF GetsArePaced, RetriesBackOff
<1>2. Sent' = Sent /\ requests' = requests /\ returns' = returns
  BY DEF Sent
<1>3. ExhaustedInv'
  <2> SUFFICES ASSUME NEW g \in 1..Len(returns)
               PROVE  /\ \E i \in Sent :
                           /\ requests[i].get = g /\ requests[i].answer = returns[g]
                           /\ \A j \in Sent : requests[j].get = g => j <= i
                      /\ returns[g] \in Retried =>
                           \A n \in 0..MaxAttempts - 1 :
                             \E i \in Sent : requests[i].get = g /\ requests[i].attempt = n
    BY <1>2 DEF ExhaustedInv
  <2> QED
    BY DEF ExhaustedInv
<1> QED
  BY <1>1, <1>3

\* A get that has to wait sends nothing yet.
LEMMA GetPacedStep == ASSUME IInv, GetPaced PROVE IInv'
<1> USE DEF IInv, GetPaced
<1>1. TypeOK' /\ ReturnsInv'
  BY HttpAssumption DEF TypeOK, ReturnsInv
<1>2. ClockInv' /\ SleepInv'
  BY DEF ClockInv, SleepInv, Sent
<1>3. CurrentInv'
  BY DEF CurrentInv, Sent
<1>4. GetsArePaced' /\ RetriesBackOff' /\ ExhaustedInv'
  BY SameLists
<1> QED
  BY <1>1, <1>2, <1>3, <1>4

LEMMA TickStep == ASSUME IInv, Tick PROVE IInv'
<1> USE DEF IInv, Tick
<1>1. TypeOK' /\ ReturnsInv'
  BY HttpAssumption DEF TypeOK, ReturnsInv
<1>2. ClockInv'
  <2>1. now \in Nat /\ last_request_at \in Nat /\ now' = now + 1
    BY DEF TypeOK
  <2>2. \A i \in Sent : requests[i].sent \in Nat
    BY RequestFacts DEF Request
  <2>3. \A i \in Sent : /\ requests[i].sent <= now
                        /\ requests[i].attempt = 0 => last_request_at # 0 /\ requests[i].sent <= last_request_at
    BY DEF ClockInv
  <2>4. Sent' = Sent /\ requests' = requests /\ last_request_at' = last_request_at
    BY DEF Sent
  <2>5. last_request_at' <= now'
    BY <2>1, <2>4 DEF ClockInv
  <2> QED
    BY <2>1, <2>2, <2>3, <2>4, <2>5 DEF ClockInv
<1>3. SleepInv'
  BY DEF SleepInv
<1>4. CurrentInv'
  BY DEF CurrentInv, Sent
<1>5. GetsArePaced' /\ RetriesBackOff' /\ ExhaustedInv'
  BY SameLists
<1> QED
  BY <1>1, <1>2, <1>3, <1>4, <1>5

\* A retry: the request before is of the same get, and its backoff is over.
LEMMA RetryStep == ASSUME IInv, Retry PROVE IInv'
<1> USE DEF IInv
<1>1. /\ gets \in 1..MaxGets /\ attempt + 1 \in 0..MaxAttempts - 1 /\ Send(gets, attempt + 1)
      /\ attempt' = attempt + 1 /\ attempt \in Nat
      /\ UNCHANGED <<now, last_request_at, wakeAt, gets, returns>>
      /\ at = "backoff" /\ now >= wakeAt
      /\ gets = Len(returns) + 1 /\ Len(returns) \in Nat
  BY HttpAssumption DEF TypeOK, SleepInv, ReturnsInv, Retry
<1>2. /\ Len(requests') = Len(requests) + 1 /\ Len(requests) \in Nat
      /\ \A i \in Sent : requests'[i] = requests[i]
      /\ requests'[Len(requests) + 1] =
           [get |-> gets, attempt |-> attempt + 1, sent |-> now, answer |-> Unanswered]
      /\ requests' \in Seq(Request)
      /\ at' = "waiting"
  BY <1>1, AfterSend
<1> DEFINE new == Len(requests) + 1
<1>3. /\ Sent' = Sent \cup {new} /\ Sent \subseteq Nat /\ new \notin Sent /\ new \in Nat
      /\ \A i \in Sent : i < new
      /\ Len(requests') = new
      /\ requests'[new].get = gets /\ requests'[new].attempt = attempt + 1 /\ requests'[new].sent = now
  BY <1>2 DEF Sent
<1>4. \A i \in Sent : requests[i].sent \in Nat /\ requests[i].get \in Nat /\ requests[i].attempt \in Nat
  BY RequestFacts DEF Request
<1>5. TypeOK'
  BY <1>1, <1>2 DEF TypeOK
<1>6. ClockInv'
  <2>1. now \in Nat /\ requests'[new].attempt # 0
    BY <1>1, <1>3 DEF TypeOK
  <2> QED
    BY <1>1, <1>2, <1>3, <2>1 DEF ClockInv
<1>7. SleepInv' /\ ReturnsInv'
  BY <1>1, <1>2 DEF SleepInv, ReturnsInv
<1>8. CurrentInv'
  <2>1. Len(requests') - attempt' = Len(requests) - attempt
    BY <1>1, <1>3, <1>2
  <2>2. /\ attempt < Len(requests)
        /\ \A i \in Sent :
            IF i < Len(requests) - attempt THEN requests[i].get <= Len(returns)
            ELSE requests[i].get = gets /\ requests[i].attempt = i - (Len(requests) - attempt)
    BY <1>1 DEF CurrentInv
  <2>3. ASSUME NEW i \in Sent
        PROVE  IF i < Len(requests') - attempt' THEN requests'[i].get <= Len(returns')
               ELSE requests'[i].get = gets' /\ requests'[i].attempt = i - (Len(requests') - attempt')
    BY <1>1, <1>2, <2>1, <2>2
  <2>4. /\ ~(new < Len(requests') - attempt')
        /\ requests'[new].attempt = new - (Len(requests') - attempt')
    BY <1>1, <1>2, <1>3
  <2>5. attempt' < Len(requests')
    BY <1>1, <1>2, <1>3, <2>2
  <2> QED
    BY <1>1, <1>2, <1>3, <2>3, <2>4, <2>5 DEF CurrentInv
<1>9. GetsArePaced'
  <2> SUFFICES ASSUME NEW i \in Sent', NEW j \in Sent', i < j,
                      requests'[i].attempt = 0, requests'[j].attempt = 0
               PROVE  requests'[j].sent >= requests'[i].sent + MinInterval
    BY DEF GetsArePaced, Sent
  <2>1. i \in Sent /\ j \in Sent
    BY <1>1, <1>3
  <2> QED
    BY <1>2, <2>1 DEF GetsArePaced, Sent
<1>10. RetriesBackOff'
  <2> SUFFICES ASSUME NEW i \in 1..Len(requests') - 1, requests'[i].get = requests'[i + 1].get
               PROVE  /\ requests'[i + 1].sent >= requests'[i].sent + Backoff(requests'[i].attempt)
                      /\ requests'[i + 1].attempt = requests'[i].attempt + 1
                      /\ requests'[i].answer \in Retried
    BY DEF RetriesBackOff
  <2>1. i \in Sent /\ requests'[i] = requests[i]
    BY <1>2, <1>3 DEF Sent
  <2>2. CASE i + 1 = new
    <3>1. i = Len(requests)
      BY <1>2, <2>1, <2>2 DEF Sent
    <3>2. requests[i].attempt = attempt
      BY <1>1, <2>1, <3>1, <1>2 DEF CurrentInv
    <3>3. wakeAt >= requests[i].sent + Backoff(attempt) /\ requests[i].answer \in Retried
      BY <1>1, <3>1 DEF SleepInv
    <3>4. Backoff(attempt) \in Nat /\ wakeAt \in Nat /\ now \in Nat
      BY <1>1, HttpAssumption DEF TypeOK
    <3> QED
      BY <1>1, <1>3, <1>4, <2>1, <2>2, <3>2, <3>3, <3>4
  <2>3. CASE i + 1 # new
    <3>1. i + 1 \in Sent /\ requests'[i + 1] = requests[i + 1] /\ i \in 1..Len(requests) - 1
      BY <1>2, <1>3, <2>1, <2>3 DEF Sent
    <3> QED
      BY <2>1, <3>1 DEF RetriesBackOff
  <2> QED
    BY <2>2, <2>3
<1>11. ExhaustedInv'
  <2>1. \A g \in 1..Len(returns) : g # gets
    BY <1>1
  <2>2. \A i \in Sent : i \in Sent' /\ requests'[i] = requests[i]
    BY <1>2, <1>3
  <2>3. \A i \in Sent' : i \in Sent \/ requests'[i].get = gets
    BY <1>3
  <2> QED
    BY <1>1, <2>1, <2>2, <2>3 DEF ExhaustedInv
<1> QED
  BY <1>5, <1>6, <1>7, <1>8, <1>9, <1>10, <1>11

\* An answer: only that of the last request changes, which is of the get in progress.
LEMMA AnswerStep == ASSUME IInv, AnswerRequest PROVE IInv'
<1> USE DEF IInv
<1> DEFINE last == Len(requests)
<1>1. /\ at = "waiting" /\ gets \in 1..MaxGets /\ gets = Len(returns) + 1 /\ Len(returns) \in Nat
      /\ attempt \in 0..MaxAttempts - 1 /\ last \in Nat /\ attempt < last
      /\ now \in 1..MaxTime
      /\ UNCHANGED <<now, last_request_at, attempt, gets>>
  BY SMTT(30), HttpAssumption DEF TypeOK, ReturnsInv, CurrentInv, AnswerRequest
<1>2. last \in Sent /\ Sent \subseteq Nat
  BY <1>1 DEF Sent
<1>3. PICK answer \in Answer :
        /\ requests' = [requests EXCEPT ![last].answer = answer]
        /\ IF answer \notin Retried \/ LastAttempt
           THEN returns' = Append(returns, answer) /\ at' = "idle" /\ UNCHANGED wakeAt
           ELSE at' = "backoff" /\ wakeAt' = now + Backoff(attempt) /\ UNCHANGED returns
  BY DEF AnswerRequest
<1>4. /\ requests' \in Seq(Request) /\ Len(requests') = last /\ Sent' = Sent
      /\ \A i \in Sent : /\ requests'[i].get = requests[i].get
                         /\ requests'[i].attempt = requests[i].attempt
                         /\ requests'[i].sent = requests[i].sent
                         /\ i # last => requests'[i] = requests[i]
      /\ requests'[last].answer = answer
  <2>1. [requests[last] EXCEPT !.answer = answer] \in Request
    BY <1>2, RequestFacts DEF Request
  <2>2. requests \in Seq(Request) /\ DOMAIN requests = Sent
    BY DEF TypeOK, Sent
  <2>3. requests' \in Seq(Request) /\ Len(requests') = last
    BY <1>2, <1>3, <2>1, <2>2
  <2>4. /\ \A i \in Sent : i # last => requests'[i] = requests[i]
        /\ requests'[last] = [requests[last] EXCEPT !.answer = answer]
    BY <1>2, <1>3, <2>2
  <2>5. requests[last] \in Request
    BY <1>2, RequestFacts
  <2>6. /\ requests'[last].get = requests[last].get
        /\ requests'[last].attempt = requests[last].attempt
        /\ requests'[last].sent = requests[last].sent
        /\ requests'[last].answer = answer
    BY <2>4, <2>5 DEF Request
  <2> QED
    BY <2>3, <2>4, <2>6 DEF Sent
<1>5. requests[last].get = gets /\ requests[last].attempt = attempt
  BY <1>1, <1>2 DEF CurrentInv
<1>6. Backoff(attempt) \in Nat
  BY <1>1, HttpAssumption
<1>7. TypeOK'
  <2>1. wakeAt' \in Nat
    BY <1>1, <1>3, <1>6 DEF TypeOK
  <2>2. returns' \in Seq(Answer) /\ at' \in {"idle", "backoff"}
    <3>1. returns \in Seq(Answer)
      BY DEF TypeOK
    <3>2. CASE answer \notin Retried \/ LastAttempt
      BY SMTT(30), <1>3, <3>1, <3>2
    <3>3. CASE ~(answer \notin Retried \/ LastAttempt)
      BY <1>3, <3>1, <3>3
    <3> QED
      BY <3>2, <3>3
  <2> QED
    BY <1>1, <1>4, <2>1, <2>2 DEF TypeOK
<1>8. ClockInv'
  BY <1>1, <1>4 DEF ClockInv
<1>9. SleepInv'
  <2>1. requests[last].sent <= now /\ requests[last].sent \in Nat
    BY <1>2, RequestFacts DEF ClockInv, Request
  <2>2. LastAttempt <=> attempt >= MaxAttempts - 1
    BY DEF LastAttempt
  <2> QED
    BY SMTT(30), <1>1, <1>2, <1>3, <1>4, <1>6, <2>1, <2>2, HttpAssumption DEF SleepInv
<1>10. ReturnsInv'
  BY <1>1, <1>3 DEF ReturnsInv
<1>11. CurrentInv'
  <2>1. \A i \in Sent :
          IF i < last - attempt THEN requests[i].get <= Len(returns)
          ELSE requests[i].get = gets /\ requests[i].attempt = i - (last - attempt)
    BY <1>1 DEF CurrentInv
  <2>2. CASE at' = "backoff"
    BY <1>1, <1>3, <1>4, <2>1, <2>2 DEF CurrentInv
  <2>3. CASE at' = "idle"
    <3>1. Len(returns') = Len(returns) + 1
      BY <1>3, <2>3 DEF TypeOK
    <3>2. \A i \in Sent : requests[i].get <= Len(returns')
      BY <1>1, <2>1, <3>1, RequestFacts DEF Request
    <3> QED
      BY <1>4, <2>3, <3>2 DEF CurrentInv
  <2> QED
    BY <1>3, <2>2, <2>3
<1>12. GetsArePaced'
  BY <1>4 DEF GetsArePaced, Sent
<1>13. RetriesBackOff'
  <2> SUFFICES ASSUME NEW i \in 1..Len(requests') - 1, requests'[i].get = requests'[i + 1].get
               PROVE  /\ requests'[i + 1].sent >= requests'[i].sent + Backoff(requests'[i].attempt)
                      /\ requests'[i + 1].attempt = requests'[i].attempt + 1
                      /\ requests'[i].answer \in Retried
    BY DEF RetriesBackOff
  <2>1. i \in Sent /\ i + 1 \in Sent /\ i # last /\ i \in 1..last - 1
    BY <1>1, <1>4 DEF Sent
  <2> QED
    BY <1>4, <2>1 DEF RetriesBackOff
<1>14. ExhaustedInv'
  <2>1. ASSUME NEW g \in 1..Len(returns)
        PROVE  /\ \E i \in Sent :
                    /\ requests'[i].get = g /\ requests'[i].answer = returns[g]
                    /\ \A j \in Sent : requests'[j].get = g => j <= i
               /\ returns[g] \in Retried =>
                    \A n \in 0..MaxAttempts - 1 : \E i \in Sent : requests'[i].get = g /\ requests'[i].attempt = n
    <3>1. PICK i \in Sent : /\ requests[i].get = g /\ requests[i].answer = returns[g]
                            /\ \A j \in Sent : requests[j].get = g => j <= i
      BY <2>1 DEF ExhaustedInv
    <3>2. i # last
      BY <1>1, <1>5, <3>1
    <3>3. \E k \in Sent : /\ requests'[k].get = g /\ requests'[k].answer = returns[g]
                          /\ \A j \in Sent : requests'[j].get = g => j <= k
      BY <1>4, <3>1, <3>2
    <3>4. returns[g] \in Retried =>
            \A n \in 0..MaxAttempts - 1 : \E k \in Sent : requests'[k].get = g /\ requests'[k].attempt = n
      BY <1>4, <2>1 DEF ExhaustedInv
    <3> QED
      BY <3>3, <3>4
  <2>2. CASE at' = "backoff"
    BY <1>3, <1>4, <2>1, <2>2 DEF ExhaustedInv
  <2>3. CASE at' = "idle"
    <3>1. /\ returns' = Append(returns, answer) /\ Len(returns') = gets
          /\ \A g \in 1..Len(returns) : returns'[g] = returns[g]
          /\ returns'[gets] = answer
      BY <1>1, <1>3, <2>3 DEF TypeOK
    <3>2. \E i \in Sent : /\ requests'[i].get = gets /\ requests'[i].answer = answer
                          /\ \A j \in Sent : requests'[j].get = gets => j <= i
      <4>1. \A j \in Sent : j <= last
        BY <1>1 DEF Sent
      <4> QED
        BY <1>2, <1>4, <1>5, <4>1
    <3>3. ASSUME answer \in Retried, NEW n \in 0..MaxAttempts - 1
          PROVE  \E i \in Sent : requests'[i].get = gets /\ requests'[i].attempt = n
      <4>1. attempt = MaxAttempts - 1
        <5>1. LastAttempt
          BY <1>3, <2>3, <3>3
        <5>2. attempt >= MaxAttempts - 1
          BY <5>1 DEF LastAttempt
        <5>3. attempt \in 0..MaxAttempts - 1 /\ MaxAttempts \in Nat \ {0}
          BY <1>1, HttpAssumption
        <5> QED
          BY <5>2, <5>3
      <4> DEFINE k == last - attempt + n
      <4>2. k \in Sent /\ ~(k < last - attempt) /\ k - (last - attempt) = n
        BY <1>1, <4>1, HttpAssumption DEF Sent
      <4>3. requests[k].get = gets /\ requests[k].attempt = n
        <5>1. \A i \in Sent :
                IF i < last - attempt THEN requests[i].get <= Len(returns)
                ELSE requests[i].get = gets /\ requests[i].attempt = i - (last - attempt)
          BY <1>1 DEF CurrentInv
        <5> HIDE DEF k
        <5> QED
          BY <4>2, <5>1
      <4> QED
        BY <1>4, <4>2, <4>3
    <3>4. \A g \in 1..Len(returns') : g \in 1..Len(returns) \/ g = gets
      BY <1>1, <3>1
    <3>5. ASSUME NEW g \in 1..Len(returns')
          PROVE  /\ \E i \in Sent :
                      /\ requests'[i].get = g /\ requests'[i].answer = returns'[g]
                      /\ \A j \in Sent : requests'[j].get = g => j <= i
                 /\ returns'[g] \in Retried =>
                      \A n \in 0..MaxAttempts - 1 :
                        \E i \in Sent : requests'[i].get = g /\ requests'[i].attempt = n
      <4>1. CASE g \in 1..Len(returns)
        BY <2>1, <3>1, <4>1
      <4>2. CASE g = gets
        BY <3>1, <3>2, <3>3, <4>2
      <4> QED
        BY <3>4, <4>1, <4>2
    <3> QED
      BY <1>4, <3>5 DEF ExhaustedInv
  <2> QED
    BY <1>3, <2>2, <2>3
<1> QED
  BY <1>7, <1>8, <1>9, <1>10, <1>11, <1>12, <1>13, <1>14

\* The invariant of the client.
THEOREM Invariance == Spec => []IInv
<1>1. IInv /\ [Next]_vars => IInv'
  <2> SUFFICES ASSUME IInv, [Next]_vars PROVE IInv'
    OBVIOUS
  <2>1. CASE UNCHANGED vars
    BY <2>1 DEF vars, IInv, TypeOK, ClockInv, SleepInv, ReturnsInv, CurrentInv, GetsArePaced,
                RetriesBackOff, ExhaustedInv, Sent
  <2> QED
    BY <2>1, GetAtOnceStep, GetPacedStep, PacedStep, AnswerStep, RetryStep, TickStep DEF Next, Halt
<1> QED
  BY <1>1, Start, PTL DEF Spec

\* The variables keep their types: no get makes more attempts than allowed.
THEOREM TypeCorrect == Spec => []TypeOK
<1>1. IInv => TypeOK
  BY DEF IInv
<1> QED
  BY <1>1, Invariance, PTL

\* First attempts are the minimum interval apart, whatever the gets before did.
THEOREM AlwaysPaced == Spec => []GetsArePaced
<1>1. IInv => GetsArePaced
  BY DEF IInv
<1> QED
  BY <1>1, Invariance, PTL

\* Attempts of one get are apart by their backoff.
THEOREM AlwaysBacksOff == Spec => []RetriesBackOff
<1>1. IInv => RetriesBackOff
  BY DEF IInv
<1> QED
  BY <1>1, Invariance, PTL

\* A get fails only when all attempts have failed, and returns its last answer otherwise.
THEOREM OnlyExhaustedFails == Spec => []FailsOnlyExhausted
<1>1. IInv => FailsOnlyExhausted
  <2> SUFFICES ASSUME IInv, NEW g \in 1..Len(returns), NEW mine,
                      mine = {i \in 1..Len(requests) : requests[i].get = g}
               PROVE  /\ \E i \in mine : requests[i].answer = returns[g] /\ \A j \in mine : j <= i
                      /\ returns[g] \in Retried => {requests[i].attempt : i \in mine} = 0..MaxAttempts - 1
    BY DEF FailsOnlyExhausted
  <2>1. \A i \in mine : requests[i].attempt \in 0..MaxAttempts - 1
    BY RequestFacts DEF IInv, Sent, Request
  <2>2. /\ \E i \in mine : requests[i].answer = returns[g] /\ \A j \in mine : j <= i
        /\ returns[g] \in Retried => \A n \in 0..MaxAttempts - 1 : \E i \in mine : requests[i].attempt = n
    <3>1. ExhaustedInv
      BY DEF IInv
    <3>2. PICK i \in Sent : /\ requests[i].get = g /\ requests[i].answer = returns[g]
                            /\ \A j \in Sent : requests[j].get = g => j <= i
      BY <3>1 DEF ExhaustedInv
    <3>3. i \in mine /\ \A j \in mine : j <= i
      BY <3>2 DEF Sent
    <3>4. ASSUME returns[g] \in Retried, NEW n \in 0..MaxAttempts - 1
          PROVE  \E k \in mine : requests[k].attempt = n
      <4>1. PICK k \in Sent : requests[k].get = g /\ requests[k].attempt = n
        BY <3>1, <3>4 DEF ExhaustedInv
      <4>2. k \in mine
        BY <4>1 DEF Sent
      <4> QED
        BY <4>1, <4>2
    <3> QED
      BY <3>2, <3>3, <3>4
  <2>3. ASSUME returns[g] \in Retried
        PROVE  {requests[i].attempt : i \in mine} = 0..MaxAttempts - 1
    BY <2>1, <2>2, <2>3, Zenon
  <2> QED
    BY <2>2, <2>3
<1> QED
  BY <1>1, Invariance, PTL
=============================================================================
