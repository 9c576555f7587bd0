------------------------------ MODULE AdvancedBacktest ------------------------------
(***************************************************************************)
(* run_advanced_backtest_study (forecasting/advanced_backtest.py) with the     *)
(* rolling engine below it (backtesting/engine.py), the forecaster adapters and  *)
(* the subprocess each optional one runs per forecast                           *)
(* (forecasting/subprocess_client.py), up to the files of the study folder.       *)
(*                                                                         *)
(* A normalized file holds one series here: what the engine does between two      *)
(* series of one file and two files is the same.  A series says of each year         *)
(* whether a value is there and whether it is positive, which is all the control    *)
(* depends on.  A predicted value is the year it is a prediction of.               *)
(***************************************************************************)
EXTENDS Integers, FiniteSetsExt, Sequences, SequencesExt

CONSTANTS
  Years,         \* the years a series may have values in
  Inputs,        \* the sequences of series the study may be run on
  Optional,      \* the optional forecasters, in the order of the registry
  TrainWindow,   \* train_window_years (20 in the code)
  Horizon,       \* forecast_horizon_years (5 in the code)
  MinLength,     \* minimum_series_length (30 in the code)
  ForecastLimit  \* CBD_OPTIONAL_FORECAST_LIMIT: {n}, or {} when it is not set

Baselines == <<"naive_last_value", "linear_trend", "exponential_trend">>

ASSUME BacktestAssumption ==
  /\ Years \subseteq Nat \ {0}
  /\ Inputs \subseteq Seq([Years -> {"absent", "positive", "nonpositive"}])
  /\ TrainWindow \in Nat \ {0} /\ Horizon \in Nat \ {0}
  /\ MinLength \in Nat /\ ForecastLimit \subseteq Int
  /\ Optional \in Seq(STRING) \ {<<>>}
  /\ ToSet(Optional) \cap ToSet(Baselines) = {}

VARIABLES
  normalized,      \* the series, in the order of normalized_metric_paths
  phase,           \* what the command is doing
  available,       \* optional forecasters whose smoke test succeeded
  disabled,        \* disabled_forecasters
  forecast_count,  \* optional forecaster -> forecasts it has completed
  file, cutoff,    \* the cutoff year being evaluated
  turn,            \* the forecaster whose turn it is
  rows,            \* the forecast errors
  written, torn    \* output files completed; whether the next one is half written

loopVars   == <<file, cutoff, turn>>
folderVars == <<written, torn>>
vars == <<normalized, phase, available, disabled, forecast_count, loopVars, rows, folderVars>>

-----------------------------------------------------------------------------
Forecasters == Baselines \o Optional

\* A faulty variant: what describes the study is written before its tables.
OutputFilesSummaryFirst ==
  <<"summary.json", "provenance.json", "forecast_errors.parquet", "anomalies.parquet",
    "cross_domain_breaks.parquet", "model_comparison.parquet", "study.md">>

\* The files of the study folder in the order they are written.
OutputFiles == <<"forecast_errors.parquet", "anomalies.parquet", "cross_domain_breaks.parquet",
                 "model_comparison.parquet", "summary.json", "provenance.json", "study.md">>

\* The files that make a folder a valid study for the commands that read one.
ValidStudyFiles == {"forecast_errors.parquet", "anomalies.parquet",
                    "cross_domain_breaks.parquet", "summary.json", "provenance.json"}

Observed(series) == {y \in Years : series[y] # "absent"}

TrainYears(c)         == (c - TrainWindow + 1)..c
TargetYears(series, c) == ((c + 1)..(c + Horizon)) \cap Observed(series)

\* The cutoffs the loop evaluates: the series is long enough, no year of the training
\* window is missing, and there is a year to predict.
Cutoffs(series) ==
  IF Observed(series) = {} \/ Cardinality(Observed(series)) < MinLength THEN {}
  ELSE {c \in (Min(Observed(series)) + TrainWindow - 1)..(Max(Observed(series)) - Horizon) :
          TrainYears(c) \subseteq Observed(series) /\ TargetYears(series, c) # {}}

Fits(model, series, c) ==
  model = "exponential_trend" => \A y \in TrainYears(c) : series[y] = "positive"

Series  == normalized[file]
Current == Forecasters[turn]

\* A faulty variant: the forecast is paired with the years that are there.
PairWithTargets(model, f, c) ==
  LET targets == SetToSortSeq(TargetYears(normalized[f], c), <)
  IN  {[model |-> model, file |-> f, cutoff |-> c, target |-> targets[k], predicted |-> c + k] :
         k \in DOMAIN targets}

\* The k-th value of a forecast is for the k-th year after the cutoff; values for years
\* without an observation are dropped.
ErrorRows(model, f, c) ==
  {[model |-> model, file |-> f, cutoff |-> c, target |-> c + k, predicted |-> c + k] :
     k \in {k \in 1..Horizon : c + k \in TargetYears(normalized[f], c)}}

\* backtest_metric without adapters, as the plain study runs it: each model is
\* evaluated at the target years.
PlainRows ==
  LET Evaluated(f, c) ==
        {[model |-> m, file |-> f, cutoff |-> c, target |-> t, predicted |-> t] :
           m \in {m \in ToSet(Baselines) : Fits(m, normalized[f], c)},
           t \in TargetYears(normalized[f], c)}
  IN  UNION {UNION {Evaluated(f, c) : c \in Cutoffs(normalized[f])} : f \in DOMAIN normalized}

TypeOK ==
  /\ normalized \in Inputs
  /\ phase \in {"probing", "evaluating", "waiting", "writing", "done", "failed", "killed"}
  /\ available \subseteq ToSet(Optional)
  /\ disabled \subseteq available
  /\ forecast_count \in [ToSet(Optional) -> Nat]
  /\ file \in 1..Len(normalized) + 1
  /\ cutoff \in Years \cup {0}
  /\ turn \in 1..Len(Forecasters) + 1
  /\ rows \subseteq [model : ToSet(Forecasters), file : DOMAIN normalized, cutoff : Years,
                     target : Years, predicted : Years]
  /\ written \in 0..Len(OutputFiles)
  /\ torn \in BOOLEAN

Init ==
  /\ normalized \in Inputs
  /\ phase = "probing"
  /\ available = {} /\ disabled = {}
  /\ forecast_count = [f \in ToSet(Optional) |-> 0]
  /\ file = 1 /\ cutoff = 0 /\ turn = Len(Baselines) + 1
  /\ rows = {}
  /\ written = 0 /\ torn = FALSE

-----------------------------------------------------------------------------
\* registry.availability(): each optional adapter runs its smoke test, once.
ProbeEnds(usable) ==
  /\ phase = "probing"
  /\ turn <= Len(Forecasters)
  /\ available' = IF usable THEN available \cup {Current} ELSE available
  /\ turn' = turn + 1
  /\ phase' = IF turn = Len(Forecasters) THEN "evaluating" ELSE "probing"
  /\ UNCHANGED <<normalized, disabled, forecast_count, file, cutoff, rows, folderVars>>

\* smoke_test_worker expects a ForecastingError only; any other exception of the forecast
\* (see WorkerRaises) ends the command.
ProbeRaises ==
  /\ phase = "probing"
  /\ phase' = "failed"
  /\ UNCHANGED <<normalized, available, disabled, forecast_count, loopVars, rows, folderVars>>

\* Every forecaster has had its turn at the cutoff.
CutoffDone == phase = "evaluating" /\ turn > Len(Forecasters)

Later == IF file > Len(normalized) THEN {} ELSE {c \in Cutoffs(Series) : c > cutoff}

NextCutoff ==
  /\ CutoffDone
  /\ Later # {}
  /\ cutoff' = Min(Later)
  /\ turn' = 1
  /\ UNCHANGED <<normalized, phase, available, disabled, forecast_count, file, rows, folderVars>>

\* A faulty variant: backtest_metric is called without the set of the study, so that
\* each file starts with nothing disabled.
NextFileForgetting ==
  /\ CutoffDone
  /\ Later = {} /\ file <= Len(normalized)
  /\ file' = file + 1 /\ cutoff' = 0
  /\ disabled' = {}
  /\ UNCHANGED <<normalized, phase, available, forecast_count, turn, rows, folderVars>>

NextFile ==
  /\ CutoffDone
  /\ Later = {} /\ file <= Len(normalized)
  /\ file' = file + 1 /\ cutoff' = 0
  /\ UNCHANGED <<normalized, phase, available, disabled, forecast_count, turn, rows, folderVars>>

\* A baseline that cannot be fitted here is left out here, and tried again.
EvaluateBaseline ==
  /\ phase = "evaluating"
  /\ turn <= Len(Baselines)
  /\ turn' = turn + 1
  /\ rows' = IF Fits(Current, Series, cutoff)
             THEN rows \cup ErrorRows(Current, file, cutoff) ELSE rows
  /\ UNCHANGED <<normalized, phase, available, disabled, forecast_count, file, cutoff, folderVars>>

OptionalTurn == phase = "evaluating" /\ turn \in Len(Baselines) + 1..Len(Forecasters)

Runs == Current \in available \ disabled

\* Not among runnable_forecasters, or disabled since.
SkipForecaster ==
  /\ OptionalTurn
  /\ ~Runs
  /\ turn' = turn + 1
  /\ UNCHANGED <<normalized, phase, available, disabled, forecast_count, file, cutoff, rows,
                 folderVars>>

LimitReached == \E limit \in ForecastLimit : forecast_count[Current] >= limit

\* A ForecastingError from an optional forecaster: it is out for the rest of the study.
Disable ==
  /\ phase' = "evaluating"
  /\ disabled' = disabled \cup {Current}
  /\ turn' = turn + 1
  /\ UNCHANGED <<normalized, available, forecast_count, file, cutoff, rows, folderVars>>

RefuseForecast == OptionalTurn /\ Runs /\ LimitReached /\ Disable

StartWorker ==
  /\ OptionalTurn
  /\ Runs /\ ~LimitReached
  /\ phase' = "waiting"
  /\ UNCHANGED <<normalized, available, disabled, forecast_count, loopVars, rows, folderVars>>

\* A list of as many numbers as the horizon asks for.
WorkerForecasts ==
  /\ phase = "waiting"
  /\ phase' = "evaluating"
  /\ forecast_count' = [forecast_count EXCEPT ![Current] = @ + 1]
  /\ rows' = rows \cup ErrorRows(Current, file, cutoff)
  /\ turn' = turn + 1
  /\ UNCHANGED <<normalized, available, disabled, file, cutoff, folderVars>>

\* No output, no JSON, no list, a wrong length, an error of its own, or no start.
WorkerFails == phase = "waiting" /\ Disable

\* A faulty variant: subprocess.run without its timeout.
WorkerNeverTimesOut == FALSE

WorkerTimesOut == phase = "waiting" /\ Disable

\* A forecast list with an element float() refuses, or output that cannot be decoded: the
\* exception is not a ForecastingError, and nothing above expects it.
WorkerRaises ==
  /\ phase = "waiting"
  /\ phase' = "failed"
  /\ UNCHANGED <<normalized, available, disabled, forecast_count, loopVars, rows, folderVars>>

StartWriting ==
  /\ CutoffDone
  /\ file > Len(normalized)
  /\ phase' = "writing"
  /\ UNCHANGED <<normalized, available, disabled, forecast_count, loopVars, rows, folderVars>>

OpenFile ==
  /\ phase = "writing"
  /\ ~torn /\ written < Len(OutputFiles)
  /\ torn' = TRUE
  /\ UNCHANGED <<normalized, phase, available, disabled, forecast_count, loopVars, rows, written>>

FinishFile ==
  /\ phase = "writing"
  /\ torn
  /\ torn' = FALSE
  /\ written' = written + 1
  /\ phase' = IF written' = Len(OutputFiles) THEN "done" ELSE "writing"
  /\ UNCHANGED <<normalized, available, disabled, forecast_count, loopVars, rows>>

\* The process dies, or a write raises.
Crash ==
  /\ phase \notin {"done", "failed", "killed"}
  /\ phase' = "killed"
  /\ UNCHANGED <<normalized, available, disabled, forecast_count, loopVars, rows, folderVars>>

Next ==
  \/ \E usable \in BOOLEAN : ProbeEnds(usable)
  \/ ProbeRaises
  \/ NextCutoff \/ NextFile \/ StartWriting
  \/ EvaluateBaseline \/ SkipForecaster \/ RefuseForecast \/ StartWorker
  \/ WorkerForecasts \/ WorkerFails \/ WorkerTimesOut \/ WorkerRaises
  \/ OpenFile \/ FinishFile
  \/ Crash

Spec == Init /\ [][Next]_vars

\* The command goes on, and every subprocess runs under a timeout (the smoke tests as
\* well); that a worker answers is not assumed.
Fairness ==
  /\ WF_vars(ProbeEnds(FALSE))
  /\ WF_vars(NextCutoff \/ NextFile \/ StartWriting)
  /\ WF_vars(EvaluateBaseline \/ SkipForecaster \/ RefuseForecast \/ StartWorker)
  /\ WF_vars(WorkerTimesOut)
  /\ WF_vars(OpenFile \/ FinishFile)

FairSpec == Spec /\ Fairness

-----------------------------------------------------------------------------
\* Whatever the optional forecasters do, the study has exactly the baseline rows that
\* the plain study has on the same data: same cutoffs, same targets, and each value
\* compared with the year it was predicted for, across the gaps of a series
\* (docs/phase5_implementation_plan.md: preserve deterministic baseline behaviour).
BaselinesMatchPlainStudy ==
  phase \in {"writing", "done"} => {r \in rows : r.model \in ToSet(Baselines)} = PlainRows

\* The rows of an optional forecaster are those of an unbroken run of cutoffs from the
\* start of the study: once it has failed it is not heard of again, in this file or
\* another, and what it did before is kept.
OptionalRowsAreAPrefix ==
  \A r \in rows : r.model \in ToSet(Optional) =>
    \A f \in DOMAIN normalized : \A c \in Cutoffs(normalized[f]) :
      f < r.file \/ (f = r.file /\ c < r.cutoff) =>
        \E q \in rows : q.model = r.model /\ q.file = f /\ q.cutoff = c

Whole(name)  == \E i \in 1..written : OutputFiles[i] = name
Exists(name) == Whole(name) \/ (torn /\ OutputFiles[written + 1] = name)

\* A folder the other commands accept as a study has every table and the summary they
\* read from it whole, although they test for existence only and the study may have
\* died while writing any of them.  (provenance.json may be torn.)
ValidStudyIsUsable ==
  (\A name \in ValidStudyFiles : Exists(name)) =>
    \A name \in ToSet(OutputFiles) \ {"provenance.json", "study.md"} : Whole(name)

\* The study comes to an end although a worker may hang at any forecast.
StudyEnds == <>(phase \in {"done", "failed", "killed"})

\* docs/phase5_implementation_plan.md:55-56: "A missing or broken adapter must not fail the
\* whole advanced backtest."
BrokenAdapterContained == phase # "failed"
=============================================================================
