------------------------------ MODULE BatchPredict ------------------------------
(***************************************************************************)
(* run_batch_prediction (batch_prediction.py) over a client: one worker          *)
(* forecasts a list of series, one after the other, through a client that is the   *)
(* warm client ("daemon") or starts a container for every series ("one-shot").     *)
(* A failed series is reported in its place and the batch goes on, except that in   *)
(* daemon mode an error whose text reads as the loss of the daemon ends the batch.    *)
(* The client is closed in the end, unless the caller brought it along.  The commands  *)
(* that use it, and those for a single series, are in PredictCommands.             *)
(*                                                                         *)
(* Series number n of the input is call number n of the client.  A one-shot call      *)
(* has outcomes that the warm client's has not (OutcomeOf).                      *)
(***************************************************************************)
EXTENDS WarmClient, PredictionSchema

CONSTANTS
  Worker,
  WorkerMessages   \* the texts a worker's own errors may have, as the phrases they hold

ASSUME WorkerAssumption   == Worker \in Workers
ASSUME MessagesAssumption == WorkerMessages # {}

VARIABLES
  mode,      \* "daemon" or "one-shot", or what else was typed
  horizon,
  input,     \* the series to forecast
  owned,     \* the batch made the client itself
  handled,   \* results the loop has looked at
  items,     \* results: for each series done, its number if ok, or Failed
  verdict    \* "running"; "complete" or "lost" once the loop is left; others in PredictCommands

fixedVars == <<mode, horizon, owned>>
loopVars  == <<input, handled, items, verdict>>
batchVars == <<fixedVars, loopVars>>

Failed == 0

\* What the client itself says of a prediction that brought no line, by its outcome:
\* the warm client, and the one that starts a container.
WarmWording ==
  [unstarted |-> "daemon prediction could not start Docker Compose",
   unwritten |-> "daemon prediction failed to write request",
   timeout   |-> "daemon prediction timed out",
   exited    |-> "daemon exited before returning a prediction"]

ColdWording ==
  [unstarted |-> "worker prediction could not start Docker Compose",
   timeout   |-> "worker prediction timed out"]

\* The message of a failed series, as the set of the phrases it holds: the client's own
\* wording; what the worker's error says, if there is a line to take it from; or the text
\* of an exception or of a line that is no answer, which hold none.
MessagesOf(outcome) ==
  LET wording == IF mode = "daemon" THEN WarmWording ELSE ColdWording IN
  CASE outcome \in DOMAIN wording -> {{wording[outcome]}}
    [] outcome = "failed"          -> WorkerMessages
    [] OTHER                       -> {{}}

\* Faulty variant: a timeout is not in the list.
FragmentsWithoutTimeout ==
  {"daemon prediction could not start Docker Compose",
   "daemon prediction failed to write request",
   "daemon exited before returning a prediction"}

fatal_fragments ==
  {"daemon prediction could not start Docker Compose",
   "daemon prediction failed to write request",
   "daemon prediction timed out",
   "daemon exited before returning a prediction"}

is_fatal_daemon_error(message) == message \cap fatal_fragments # {}

Looping == verdict = "running" /\ handled < Len(input)

\* predict_batch_item calls the warm client's predict.
PredictWarm ==
  /\ Looping /\ mode = "daemon"
  /\ Len(results) = handled
  /\ \/ ReuseProcess(Worker) \/ StartProcess(Worker) \/ CannotStart(Worker)
     \/ WriteRequest \/ WriteFails \/ PredictReturns \/ PredictTimesOut
  /\ UNCHANGED batchVars

\* What is sent for the next series.
Request == [series |-> input[handled + 1], horizon |-> horizon]

\* DockerForecastClient.predict: a container of its own for every request, run to
\* the end or to the timeout.
PredictCold ==
  /\ Looping /\ mode = "one-shot"
  /\ Len(results) = handled
  /\ \E outcome \in {OutcomeOf(reply) : reply \in predict_main(Request) \cup Interruptions}
                    \cup {"timeout", "unstarted"} :
       results' = Append(results, [worker |-> Worker, outcome |-> outcome,
                                   call |-> IF outcome = "ok" THEN NewCall ELSE 0,
                                   from |-> IF outcome = "ok" THEN Worker ELSE Nobody])
  /\ UNCHANGED <<client, future, phase, poolVars, pipeVars, lifeVars, startVars, stderrVars,
                 processes, batchVars>>

\* What the loop makes of a result.
ItemOf(result) == IF result.outcome = "ok" THEN result.call ELSE Failed

\* Faulty variant: failed series are left out of the results.
TakeSuccessOnly ==
  LET result == results[Len(results)] IN
  /\ Looping
  /\ handled < Len(results)
  /\ handled' = handled + 1
  /\ items' = IF result.outcome = "ok" THEN Append(items, result.call) ELSE items
  /\ verdict' = IF handled' = Len(input) THEN "complete" ELSE verdict
  /\ UNCHANGED <<vars, fixedVars, input>>

\* The loop looks at a result: an error whose message is fatal raises, and is not recorded.
TakeResult ==
  LET result == results[Len(results)] IN
  /\ Looping
  /\ handled < Len(results)
  /\ handled' = handled + 1
  /\ \E message \in MessagesOf(result.outcome) :
       IF mode = "daemon" /\ result.outcome # "ok" /\ is_fatal_daemon_error(message)
       THEN verdict' = "lost" /\ UNCHANGED items
       ELSE /\ items' = Append(items, ItemOf(result))
            /\ verdict' = IF handled' = Len(input) THEN "complete" ELSE verdict
  /\ UNCHANGED <<vars, fixedVars, input>>

MustClose == owned /\ mode = "daemon"

\* The finally block; the one-shot client has no close.
CloseClient ==
  /\ verdict \in {"complete", "lost", "answered", "refused"}
  /\ MustClose
  /\ BeginClose \/ (phase = "closing" /\ Stop)
  /\ UNCHANGED batchVars

-----------------------------------------------------------------------------
\* A series that is reported as forecast carries its own forecast, in its own
\* place, whatever happened to the daemons and to the series before it.
ItemsMatch ==
  \A i \in 1..Len(items) : items[i] # Failed => items[i] = i /\ results[i].from = Worker

\* The outcomes of a request to a daemon that brought no line: it never started, took
\* no request, did not answer in time or was gone.
NoLine == {"unstarted", "unwritten", "timeout", "exited"}

\* The phrases decide as they are meant to.  A daemon that brings no line ends the batch:
\* no such request has a place in the results, and while the batch goes on there is a
\* daemon in use to go on with.  Nothing else ends it but a worker whose own error reads
\* like the loss of a daemon.  A batch not ended so has a place for every series.
LossEndsTheBatch ==
  /\ verdict \in {"running", "complete", "lost"} /\ mode = "daemon" =>
       \A i \in 1..Len(items) : results[i].outcome \notin NoLine
  /\ verdict = "running" /\ mode = "daemon" /\ results # <<>> /\ Len(results) = handled =>
       processes[Worker] # NoProc
  /\ verdict = "complete" => Len(items) = Len(input) /\ Len(results) = Len(input)
  /\ verdict = "lost" =>
       /\ mode = "daemon" /\ Len(results) = Len(items) + 1
       /\ LET outcome == results[Len(results)].outcome IN
          \/ outcome \in NoLine
          \/ outcome = "failed" /\ \E message \in WorkerMessages : is_fatal_daemon_error(message)
=============================================================================
