------------------------------ MODULE PredictCommands ------------------------------
(***************************************************************************)
(* The commands that forecast series, from their arguments to their exit code:       *)
(* predict-series (series_prediction_runner.py), analyze-series                        *)
(* (ml_break_analysis_runner.py), batch-predict (batch_prediction_runner.py) and        *)
(* ml-predict (ml_predict_runner.py).  They check their input, each in its own order     *)
(* and partly with its own validator, ask a client of their own (BatchPredict,           *)
(* WarmClient), and print one answer.  analyze-series looks for a break in the series     *)
(* with its forecast (BreakWindow).  argparse has refused what is no integer and no       *)
(* worker before.                                                               *)
(***************************************************************************)
EXTENDS BatchPredict, BreakWindow

CONSTANTS
  SeriesFiles,   \* what --input may name, for the commands with one series
  BatchFiles,    \* and for batch-predict
  TypedSeries,   \* what ml-predict may be given as --series
  Horizons,
  Modes,         \* what may be given as --mode
  Forecasts      \* the forecasts a worker may come up with, as sequences of numbers

IsSequence(q) == Len(q) \in Nat /\ q = [i \in 1..Len(q) |-> q[i]]

ASSUME CommandAssumption ==
  /\ Forecasts \subseteq Seq(Int)
  /\ \A typed \in TypedSeries : typed.kind = "list" /\ IsSequence(typed.items) /\ typed.items # <<>>
  /\ \A given \in SeriesFiles \cup BatchFiles :
       given.text = "object" /\ "series" \in DOMAIN given.fields /\ given.fields.series.kind = "list" =>
         IsSequence(given.fields.series.items)

VARIABLES
  command,
  file,       \* what the series are read from
  analysis,   \* of analyze-series: an answer of analyze_combined_series, or NoAnalysis
  answer,     \* what the command has printed
  exitcode

givenVars   == <<command, file>>
commandVars == <<givenVars, analysis, answer, exitcode>>
allVars     == <<vars, batchVars, commandVars>>

Unended    == 9
NoAnalysis == [points |-> 0]

InputsOf(name) ==
  CASE name \in {"predict-series", "analyze-series"} -> SeriesFiles
    [] name = "batch-predict" -> BatchFiles
    [] name = "ml-predict" -> TypedSeries

CommandInit ==
  /\ Init
  /\ command \in {"predict-series", "analyze-series", "batch-predict", "ml-predict"}
  /\ file \in InputsOf(command)
  /\ horizon \in Horizons
  /\ mode \in IF command = "ml-predict" THEN {"one-shot"} ELSE Modes
  /\ owned = TRUE
  /\ input = <<>> /\ handled = 0 /\ items = <<>>
  /\ verdict = "loading"
  /\ analysis = NoAnalysis /\ answer = "none" /\ exitcode = Unended

-----------------------------------------------------------------------------
validate_prediction_mode(typed) == IF typed \in {"one-shot", "daemon"} THEN "valid" ELSE "invalid"

\* What is checked before there is a client.
InputCheck ==
  CASE command = "ml-predict" -> FirstFault(<<parse_series(file), validate_horizon(horizon)>>)
    [] command = "batch-predict" ->
         FirstFault(<<load_batch_input(file), validate_horizon(horizon), validate_prediction_mode(mode)>>)
    [] command \in {"predict-series", "analyze-series"} ->
         FirstFault(<<validate_prediction_mode(mode), load_series_input(file)>>)

\* The series of a valid input.
SeriesOf ==
  CASE command = "ml-predict" -> <<file>>
    [] command \in {"predict-series", "analyze-series"} -> <<file.fields.series>>
    [] command = "batch-predict" ->
         [i \in DOMAIN file.fields.series.items |-> file.fields.series.items[i].fields.values]

Load ==
  /\ verdict = "loading" /\ InputCheck = "valid"
  /\ input' = SeriesOf
  /\ verdict' = "running"
  /\ UNCHANGED <<vars, fixedVars, handled, items, commandVars>>

Prints(text, code) == answer' = text /\ exitcode' = code /\ verdict' = "ended"

Refuse ==
  /\ verdict = "loading" /\ InputCheck = "invalid"
  /\ Prints("validation_error", 2)
  /\ UNCHANGED <<vars, fixedVars, input, handled, items, givenVars, analysis>>

\* An exception nobody catches: a traceback, no answer, and the exit code of Python.
Crash ==
  /\ verdict = "loading" /\ InputCheck = "raises"
  /\ Prints("none", 1)
  /\ UNCHANGED <<vars, fixedVars, input, handled, items, givenVars, analysis>>

\* predict_series_with_worker checks the horizon, when the client is already there.
RefuseHorizon ==
  /\ Looping /\ validate_horizon(horizon) = "invalid"
  /\ verdict' = "refused"
  /\ UNCHANGED <<vars, fixedVars, input, handled, items, commandVars>>

Ask ==
  /\ validate_horizon(horizon) = "valid"
  /\ PredictWarm \/ PredictCold
  /\ UNCHANGED commandVars

TakeItem ==
  /\ command = "batch-predict"
  /\ TakeResult
  /\ UNCHANGED commandVars

Values(list) == [i \in DOMAIN list.items |-> list.items[i].value]

\* analyze_prediction_result; its own check of the forecast repeats the client's.
Analyze(result) ==
  IF command = "analyze-series" /\ result.outcome = "ok"
  THEN \E forecast \in Forecasts : analysis' \in analyze_combined_series(Values(input[1]) \o forecast)
  ELSE UNCHANGED analysis

\* What the client returns for a single series, or raises: that a line or a container's
\* output is not text is a ValueError (UnicodeDecodeError), which predict_series_with_worker
\* takes for a fault of the input, and which ml-predict does not catch.
TakeSingle ==
  /\ command # "batch-predict"
  /\ Looping /\ handled < Len(results)
  /\ handled' = 1
  /\ items' = <<ItemOf(results[1])>>
  /\ verdict' = CASE results[1].outcome # "raised" -> "answered"
                  [] results[1].outcome = "raised" /\ command = "ml-predict" -> "crashed"
                  [] results[1].outcome = "raised" /\ command # "ml-predict" -> "refused"
  /\ Analyze(results[1])
  /\ UNCHANGED <<vars, fixedVars, input, givenVars, answer, exitcode>>

Close == CloseClient /\ UNCHANGED commandVars

AllForecast == Failed \notin {items[i] : i \in DOMAIN items}

\* A faulty variant: a batch that is done is a success, whatever its series came to.
AnswersForDone ==
  CASE verdict = "refused" -> Prints("validation_error", 2)
    [] verdict = "crashed" -> Prints("none", 1)
    [] verdict = "lost"    -> Prints("worker_error", 1)
    [] verdict = "complete" -> Prints("ok", 0)
    [] verdict = "answered" -> IF AllForecast THEN Prints("ok", 0) ELSE Prints("worker_error", 1)

\* What is printed in the end; ml-predict passes the worker's own object on, if there is one.
Answers ==
  CASE verdict = "refused" -> Prints("validation_error", 2)
    [] verdict = "crashed" -> Prints("none", 1)
    [] verdict = "lost"    -> Prints("worker_error", 1)
    [] verdict \in {"complete", "answered"} /\ AllForecast -> Prints("ok", 0)
    [] verdict = "complete" /\ ~AllForecast -> Prints("partial", 1)
    [] verdict = "answered" /\ ~AllForecast ->
         Prints(IF command = "ml-predict" /\ results[1].outcome = "failed" THEN "response" ELSE "worker_error", 1)

\* The verdicts the command only has to tell.
Decided == verdict \in {"complete", "lost", "answered", "refused", "crashed"}

\* A faulty variant: the answer does not wait for the client to be closed.
PrintUnclosed ==
  /\ Decided
  /\ Answers
  /\ UNCHANGED <<vars, fixedVars, input, handled, items, givenVars, analysis>>

\* The answer is printed and the command exits.
PrintAnswer ==
  /\ Decided
  /\ MustClose => phase = "closed"
  /\ Answers
  /\ UNCHANGED <<vars, fixedVars, input, handled, items, givenVars, analysis>>

\* close has raised, in a finally block: of the answers only those of the except clause
\* are out by then, and batch-predict prints its own after run_batch_prediction.
PrintTraceback ==
  /\ Decided /\ MustClose /\ phase = "raised"
  /\ Prints(CASE verdict = "refused" -> "validation_error"
              [] command = "analyze-series" /\ verdict = "answered" /\ ~AllForecast -> "worker_error"
              [] OTHER -> "none", 1)
  /\ UNCHANGED <<vars, fixedVars, input, handled, items, givenVars, analysis>>

Others == (Threads \/ Daemons) /\ UNCHANGED <<batchVars, commandVars>>

Ended == verdict = "ended" /\ UNCHANGED allVars

Main == Load \/ Refuse \/ Crash \/ RefuseHorizon \/ Ask \/ TakeItem \/ TakeSingle \/ Close
        \/ PrintAnswer \/ PrintTraceback

CommandNext == Main \/ Others \/ Ended

CommandSpec == CommandInit /\ [][CommandNext]_allVars

\* The command's thread goes on, and so do the reader threads where there is something to
\* read.  Nothing is assumed of a daemon, nor of the pipes of one that is gone.
CommandFairness ==
  /\ WF_allVars(Main)
  /\ WF_allVars(StartRead /\ UNCHANGED <<batchVars, commandVars>>)
  /\ \A p \in Procs :
       WF_allVars((\E r \in reading : r.proc = p /\ FinishRead(r)) /\ UNCHANGED <<batchVars, commandVars>>)

CommandFairSpec == CommandSpec /\ CommandFairness

-----------------------------------------------------------------------------
\* Whatever is sent to a worker, the worker's own validation accepts: no two commands
\* differ from it in what a series or a horizon is.  An error of type validation_error
\* from a worker is never about a request of these commands.
RequestsAreValid ==
  Len(results) > 0 \/ ~At("idle") =>
    \A i \in DOMAIN input :
      parse_prediction_request([series |-> input[i], horizon |-> horizon]) = "valid"

\* What is wrong with what was typed, first of all; the commands for a single series in a
\* file look at the horizon last.
Fault == IF InputCheck # "valid" THEN InputCheck ELSE validate_horizon(horizon)

\* The exit code and the answer tell what happened.  A fault of the input is told as one,
\* with 2, or as a traceback if the input cannot be read at all, and then nothing has been
\* asked or started.  Of an input without fault, 0 and the answer that goes with it mean
\* that every one of its series has been forecast, and nothing else has them printed but
\* that; only a close that raises takes them away.
ExitTellsAnswer ==
  verdict = "ended" =>
    /\ exitcode = 0 <=> answer = "ok"
    /\ Fault # "valid" => results = <<>> /\ started = 0
    /\ Fault = "invalid" => answer = "validation_error" /\ exitcode = 2
    /\ Fault = "raises"  => answer = "none" /\ exitcode = 1
    /\ Fault = "valid"   =>
         /\ input # <<>> /\ results # <<>>
         /\ exitcode = 0 <=> items = [i \in DOMAIN input |-> i] /\ phase # "raised"

\* "The core ForecastClient does not raise for worker failures" (docs/worker_contract.md):
\* once a worker has been asked, what comes of it is neither reported as a fault of the
\* input nor left to a traceback.
WorkerFailuresAreAnswered ==
  verdict = "ended" /\ results # <<>> => answer \notin {"validation_error", "none"}

\* The analysis compares whole windows of two values or more on both sides of an index;
\* it finds no index only if there are less than four values; and together the windows
\* look at every value, so that no part of the forecast goes unseen.
WindowsAreWhole ==
  analysis # NoAnalysis =>
    LET Both(i) == Before(i, analysis.window) \cup After(i, analysis.window) IN
    /\ analysis.window >= 2
    /\ analysis.candidates = {} <=> analysis.points < 4
    /\ \A i \in analysis.candidates : Both(i) \subseteq 0..(analysis.points - 1)
    /\ analysis.candidates # {} =>
         /\ analysis.top \in analysis.candidates
         /\ 0..(analysis.points - 1) \subseteq UNION {Both(i) : i \in analysis.candidates}

\* Every command comes to an end, whatever a daemon does, and leaves no process of its
\* client running, also when a request was in flight or had failed.
CommandsEnd == <>[](verdict = "ended" /\ \A p \in Procs : ~running[p])
=============================================================================
