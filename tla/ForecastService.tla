--------------------------- MODULE ForecastService ---------------------------
(***************************************************************************)
(* What a forecast client promises its caller, whatever stands behind it   *)
(* (the ForecastClient protocol of forecast_client.py).  A caller asks one  *)
(* question at a time; every question gets exactly one reply; a reply that  *)
(* says it succeeded was computed from the question it replies to, by the   *)
(* worker that was asked.  Once the client is closed nothing is asked.      *)
(***************************************************************************)
EXTENDS Naturals, Sequences

CONSTANTS
  Workers,    \* the model workers a caller can name ("timesfm", "chronos")
  MaxCalls    \* bound on the questions one caller asks

VARIABLES
  pending,    \* the worker whose reply is awaited, or NoOne
  replies,    \* the replies so far, in the order the questions were asked
  open        \* FALSE once the caller has begun to close the client

vars == <<pending, replies, open>>

NoOne == "nobody"

\* Reply number n to a question put to w: a forecast computed by w for
\* question n, or a failure.
Reply(w, n) ==
  {[asked |-> w, succeeded |-> TRUE, from |-> w, question |-> n],
   [asked |-> w, succeeded |-> FALSE, from |-> NoOne, question |-> 0]}

Init ==
  /\ pending = NoOne
  /\ replies = <<>>
  /\ open = TRUE

Ask(w) ==
  /\ open
  /\ pending = NoOne
  /\ Len(replies) < MaxCalls
  /\ pending' = w
  /\ UNCHANGED <<replies, open>>

Answer ==
  /\ pending # NoOne
  /\ \E r \in Reply(pending, Len(replies) + 1) : replies' = Append(replies, r)
  /\ pending' = NoOne
  /\ UNCHANGED open

\* A question that cannot even be put to the worker fails at once.
Decline(w) ==
  /\ open
  /\ pending = NoOne
  /\ Len(replies) < MaxCalls
  /\ replies' = Append(replies, [asked |-> w, succeeded |-> FALSE, from |-> NoOne, question |-> 0])
  /\ UNCHANGED <<pending, open>>

Close ==
  /\ open
  /\ pending = NoOne
  /\ open' = FALSE
  /\ UNCHANGED <<pending, replies>>

Next == (\E w \in Workers : Ask(w) \/ Decline(w)) \/ Answer \/ Close

Spec == Init /\ [][Next]_vars
=============================================================================
