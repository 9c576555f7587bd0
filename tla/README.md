# TLA+ specifications of the Continuity Break Detector

This directory holds a verification development of the program in
`src/continuity_break_detector` and of the worker daemons in `src/docker`:
TLA+ modules translated from the source, TLC configurations that check them on
small instances, and TLAPS proofs that hold for every size. Paths below are
relative to `src/continuity_break_detector` unless they start with `src/`.

## The system

The program looks for breaks in yearly public time series. It is a set of
commands (`main.py`) around a data directory: one ingests raw data over HTTP,
others normalize it, compute statistics, backtest forecasts, rank and audit break
candidates, let language models comment on a study, and draft a paper. Beside that
pipeline a second one asks machine-learning workers, in containers, for forecasts.

| Part | State it keeps | Operations | What makes it hard | What makes it correct |
|---|---|---|---|---|
| Warm forecast client (`forecast_daemon_client.py`) | a process and a stderr buffer per worker, a pool of reader threads, futures | predict, shutdown, close | timeouts race answers; daemons die or hang; reads that cannot be cancelled; pool of 4; two waits per shutdown; lines that cannot be decoded | an answer is returned for its own request only; every predict and every close returns; close leaves no daemon behind |
| Worker daemons (`src/docker/*/daemon.py`) | the model | one line in, one line out; shutdown | may die at any point, also while printing | one answer per request, in order |
| Warm prediction command (`ml_daemon_predict_runner.py`) | results, an offset into the diagnostics | repeat a request, forward diagnostics, answer | the buffer behind the offset changes under restarts | each diagnostic forwarded once; an answer after a closed client, or a traceback where the client raises |
| Batch prediction (`batch_prediction.py`, `batch_prediction_runner.py`) | results by position | one predict per series, close | fatal and harmless failures told apart by phrases in their text; a raise in the loop | each series in its place; a daemon that brings no line ends the batch, and nothing else that is not worded like it |
| One-shot client (`forecast_client.py`) | none | one container per request | output cut short, with other text in it, or no text at all | what is reported as a forecast is one |
| Single-series commands (`series_prediction*.py`, `ml_break_analysis*.py`, `ml_predict_runner.py`), the schema (`prediction_schema.py`) | none | check the input, ask, analyse, answer | four commands and two validators; exceptions of three kinds | a fault of the input is told as one and a success is one; nothing is asked that a worker refuses |
| HTTP client (`utils/http.py`) | time of the last request | get | retries, backoff, pacing | requests are paced, attempts bounded |
| Agent runs (`agents/runner.py`, `lemonade.py`, `memory.py`) | report files, `agent_run.json`, three tables | route, chat, file, record, verdict | three stores not written together; any write fails; crashes; nested retries | a report in the database is on the disk; what the database calls completed is; its verdict is final |
| Connectors, ingestion, normalization (`sources/`, `ingestion/`, `normalization/`) | raw files and metadata | fetch, write, normalize | failure in the middle of a source; ingesting twice | what is reported is what was written; nothing retrieved is dropped silently |
| Backtests (`backtesting/engine.py`, `forecasting/`) | disabled forecasters, rows | rolling cutoffs | gaps in series; a forecaster fails in the middle | every row compares like with like; an adapter cannot end a study |
| Study pipeline (`backtesting/study*.py`, `ranking.py`, `audit.py`, `artifacts.py`, `publication/`) | the files of a study folder | rank, audit, artifacts, agents, draft | commands in any order; stale inputs; crashes between files | the newest complete study is worked on; files between two of one command are by it |
| Break windows (`statistics/breaks.py`, `ml_break_analysis.py`) | none | window arithmetic | short series | every index scored has two full windows, and every value is in one |

The parts interact by plain calls (a command calls a client, a client is closed by
its owner), by pipes (client and daemon), by shared buffers (stderr threads and
callers), and by files and database rows (one command's output is the next one's
input). Concurrency is confined to the warm client; failures and crashes matter
wherever something is written.

`PROJECT.json` lists every component with what is and is not modelled, and under
`hazards` what is hard to test, each at its line with the properties that cover it.

## Modules

| Module | Models | Role |
|---|---|---|
| `ForecastService` | the promise of the `ForecastClient` protocol | abstract specification |
| `WarmClient` | the warm client, its reader pool and stderr threads, the daemons and their pipes | core model; invariants, liveness, refinement of `ForecastService` |
| `WarmClientProofs` | | the proofs about `WarmClient` |
| `DaemonPredictCli` | `ml_daemon_predict_runner.main` | composed with `WarmClient` (EXTENDS; the command restricts when the caller's actions happen) |
| `DaemonPredictCliProofs` | | the proofs about `DaemonPredictCli`, on those about `WarmClient` |
| `PredictionSchema` | what counts as a series, a horizon, an input file and an answer: `prediction_schema.py`, the readers of the commands, `predict.py`, `forecast_result_from_completed` | operators, no state |
| `BreakWindow` | the break analysis of a series with its forecast | operators, no state |
| `BatchPredict` | `run_batch_prediction` over either client | actions on top of `WarmClient` and `PredictionSchema` |
| `PredictCommands` | `predict-series`, `analyze-series`, `batch-predict`, `ml-predict` from arguments to exit code | composes `BatchPredict` (and with it `WarmClient`) and `BreakWindow` |
| `MCPredictCommands` | | gives the inputs of the run |
| `PredictCommandsProofs` | | the proofs about `PredictCommands` and `BreakWindow`, on those about `WarmClient` |
| `HttpClient` | `HttpClient.get` against a clock | |
| `HttpClientProofs` | | the proofs about `HttpClient` |
| `AgentRun` | `analyze_study`, `route_agents`, `LemonadeClient.chat`, the tables | |
| `AgentRunProofs` | | the proofs about `AgentRun` |
| `AdvancedBacktest` | `run_advanced_backtest_study`, the rolling engine, the adapters and their subprocesses | |
| `MCAdvancedBacktest` | | gives the series of the runs |
| `AdvancedBacktestProofs` | | the proofs about `AdvancedBacktest` |
| `Ranking` | `rank_study`: representatives and the list of the report | |
| `CandidateAudit` | `audit_study`, `detect_study_artifacts` and further rankings | composed with `Ranking` (EXTENDS; the same variables, ranked again) |
| `MCCandidateAudit` | | gives the profiles of the years |
| `CandidateAuditProofs` | | the proofs about `Ranking` and, on those, about `CandidateAudit` |
| `Ingestion` | `ingest`, `normalize` and `compute_statistics` on the data directory | |
| `StudyPipeline` | the commands on study folders, the demo and the draft | composed with `Ingestion` (EXTENDS: one command runs at a time, a backtest reads the tables) |
| `MCStudyPipeline` | | gives the sources of the run |
| `StudyPipelineProofs` | | the proofs about `StudyPipeline` and `Ingestion` |

### WarmClient

State and code: `processes`, `stderr_buffers` and `phase` are `_processes`,
`_stderr_buffers` and `_closed` (`phase` also tells when `close` is in progress);
`queue` and `reading` are the executor's waiting and running reads; `client` says
where the calling thread is inside `predict` or `shutdown`, `future` what the
future it waits on holds; `running`, `open` and `exited` describe an operating-system
process (its loop runs; its pipes are open; `poll()` sees its exit), `stdin` and
`stdout` the lines in its pipes; `logged` and `relayed` count stderr lines.

A line carries, in the model only, the number of the call it was computed for
(`call`): the code has no such number, which is the reason the properties are
worth stating.

Actions and code: `ReuseProcess`, `StartProcess`, `CannotStart` are the three
outcomes of `_process_for`; `WriteRequest`/`WriteFails` the write and the submission
of the read; `PredictReturns`/`PredictTimesOut` the end of `future.result`.
`BeginShutdown`, `ShutdownBroken`, `ShutdownHeard`, `ShutdownRaises`, `ShutdownReaped`,
`ShutdownTimesOut` are `shutdown` step by step, with its two waits, and
`BeginClose`/`FinishClose` frame the shutdown of every worker. `StartRead` and
`FinishRead` are the pool's threads, `RelayStderr` the stderr threads. `Daemon*`,
`PipesClose` and `Exits` are the other side. A dead process's pipe may stay open for
any time or for ever (the container holds the other end), and its exit may be seen before
or after its pipes close, or never.

A line that is no UTF-8 (`"undecodable"`) makes `readline` raise where the client catches
nothing: out of `predict`, with the process still in use (`PredictReturns`, outcome
`"raised"`), or out of `shutdown` and `close` (`ShutdownRaises`, `phase = "raised"`), whose
`finally` drops the process's entry; the workers `close` has not come to keep theirs.

The caller is one thread, as in every command. A timer may fire whenever its wait
has not ended: no assumption is made on how long anything takes.

### DaemonPredictCli

It extends `WarmClient`, adds the variables of the command, and uses the client's own
actions, guarded by the position of the command's loop. Diagnostics are counted in lines
of equal length where the code counts characters. `Escaped` is an exception that has left
`predict`; it leaves the `with` block too, which closes the client (`Leave`), and
`PrintTraceback` ends the command in place of `PrintResponse`.

### PredictionSchema

A JSON value is a record with its kind; a number carries its value, as the analysis needs
it. The kinds are those the checks of the code tell apart: a NaN or an infinity, an integer
beyond every float, a boolean (which Python counts among the integers), text, null, lists,
objects. A check yields `"valid"`, `"invalid"` (the exception its caller turns into an
answer) or `"raises"` (one that no caller expects: `OverflowError` for a huge integer,
`UnicodeDecodeError` for a file that is no UTF-8). `FirstFault` makes checks in a row, so
that a list with a NaN before a huge integer is invalid and the other way round raises.
`predict_main` is what a worker's container may print for a request, `Interruptions` what
may be there instead when it is stopped or a library prints as well, and `OutcomeOf` what
the one-shot client makes of it.

### BatchPredict and PredictCommands

`BatchPredict` has the loop of a batch: `PredictWarm` is any step of the warm client's
`predict`, `PredictCold` a whole one-shot call, `TakeResult` what the loop does with the
result, `CloseClient` the `finally` block. A message is the set of the phrases it holds.
`WarmWording` and `ColdWording` are the clients' own sentences, `fatal_fragments` the list
`is_fatal_daemon_error` looks for, each written down from its own place in the code, so that
a phrase reworded in one of them, or missing in the list, shows in the model
(`FragmentsWithoutTimeout` is such a list). What a worker says of its own failure may hold
anything: `WorkerMessages` are the texts it may have, in the run an ordinary one and one that
holds a fatal phrase. `PredictCommands` puts the four commands around
it. `command`, `file`, `horizon` and `mode` are what was typed, and argparse has accepted.
`Load`, `Refuse` and `Crash` are the three outcomes of `InputCheck`, in which each command
makes its checks in its own order; `RefuseHorizon` is the check that `predict-series` and
`analyze-series` make only when they have a client already, which then must be closed.
`TakeSingle` is the return of the client's only call, with the analysis if there is one;
`Answers` what is printed, and `PrintAnswer` the end of the process, or `PrintTraceback` if
`close` has raised. `verdict` is the
position of the command. Series number n of the input is call number n of the client, so
that a forecast in the wrong place shows.

### BreakWindow

`analysis_window`, the indices that are scored, and the scores as exact fractions (`Gap`
over `Spread`, which keep the order of the scores; the code computes in floating point).
`Tops` are the indices that may come first; `sort_values` keeps no order among equal ones.

### HttpClient

`now` is `time.monotonic()` in ticks of one second. `requests` records every request
with the get and attempt it belongs to, when it was sent and how it was answered. An
answer may take any time. With `MinInterval = 0` nothing is paced, as for all
connectors but arXiv's.

### AgentRun

Runs follow one another on one study. The three stores are `files` (which run each
report file is from, and whether it is whole), `run_json`, and the tables `status` and
`rows`. Every write is a step of its own, may fail, and may leave its file torn;
`StepFails` leads to the handler, whose two writes may fail too; `Crash` ends the
process anywhere. A chat is a pair of nested retries (`ChatReprompts`, `ChatResends`).

### AdvancedBacktest

A series says of each year whether a value is there and whether it is positive; a
predicted value is the year it predicts, so that comparing it with another year's
value shows. `available` and `disabled` are the adapters' cached availability and
`disabled_forecasters`, `forecast_count` the adapters' counters, `rows` the forecast
errors. `file`, `cutoff` and `turn` are the positions of the three nested loops, over
files, cutoffs (`Cutoffs`) and forecasters.

`ProbeEnds`/`ProbeRaises` are the smoke tests; `EvaluateBaseline`, `SkipForecaster`,
`RefuseForecast` and `StartWorker` the ways a forecaster's turn goes, and `Worker*` the
ends of a subprocess: a forecast, a `ForecastingError` of any cause (`Disable`), a
timeout, or another exception. `OpenFile` and `FinishFile` write the study's files in
the code's order, and `Crash` may stop the program at any step. `PlainRows` is what
`run_backtest_study` computes from the same data with its own code
(`_predict_all_models`), the reference for the baselines. Which folder is the latest, by
modification time, is in `StudyPipeline`.

### Ranking

`rank_score` is any function from a set of years to scores: the weighted sum of the
code is floating-point arithmetic and gives any order. `unvisited`,
`representatives` and `representative_for` are the state of the loop in
`mark_representatives`, one step per candidate (`Skip`, `Choose`), and `top` what `List`
takes from it for the report. Among equal scores any candidate may be next, since
`sort_values` keeps no order among them.

### CandidateAudit

A `Profile` is what the tables of a study tell of a year. `rank_breaks`, `audit_candidates`
and `detect_artifacts` may be run in any order and again: `Audit` and `Detect` replace their
table, `RankAgain` starts the loop of `Ranking` over with another neighbourhood and other
rank scores. `audit` and `artifacts` are the two tables, `audit_of` and `artifacts_of` tell
(in the model only) which ranking each was made from; the code has no such mark, and joins
whatever is on the disk by year, with defaults (`NoRow`) where there is nothing. Scores,
penalties and thresholds are those of the code, in whole hundredths and ten-thousandths;
the rank score, which has a logarithm in it, is any value. The report's texts and its lists by
verdict are left out.

### Ingestion

Commands follow one another and are numbered by `run`; every file remembers the number of
the command that wrote it. `cmd` is the command that runs, `source` and `todo` where its
loops are. A file is opened, which tears it, and finished in two steps, and `Killed` may
come before each of them: what the command had in memory is lost, what is on the disk
stays.

`Requests` are those of a connector, `Asks` for each indicator or topic in turn, and
`fetched` is the list `iter_fetches` makes of the answers before the first write. `Fetch` is one answer
(the World Bank's last page brings the combined dataset with it), `FetchFails` a request
that fails or an answer that is refused; `Store` is a step of `RawStorage.write`, of which
a dataset takes four, and `StoreFails` the file system's refusal at any of them.
`SourceDone`, `FetchFails` and `StoreFails` add the summary of a source and go on with the
next, as the `try` in `run_ingestion` does. The time stamp in a raw file's name is the
number of its command.

`frame` is what a normalizer returns, as the set of raw files its rows of each metric come
from. `ReadRaises` and `ReadAll` are the two outcomes of reading: a torn JSON or XML file
raises, a torn CSV file may also be read short or as one without values. A whole file has
rows. `WriteTable` takes the metrics of the frame in their order and `WriteStatistics` the
tables of `TablePaths`, one file after another; a torn table
stops `compute_statistics`.

### StudyPipeline

A folder maps file names to the command that wrote the file and whether it is whole.
`studies` are the folders of `STUDIES_DIR` in the order they were made, `recency` the same
in the order of their modification times, which a new entry changes and a file written
again does not (`Touch`). `target` is the folder the running command writes to.

`StartStage` is the beginning of `rank_breaks`, `audit_candidates` and `detect_artifacts`,
up to their first write: `Resolved` finds the study, by a path or as the latest valid one,
and `Loads` says whether what the command reads is there and can be parsed. A stage that
raises before it has written anything changes nothing, so it is no step. `StartAgents` is
different, as its folder is made before its inputs are looked at; `StartBacktest` makes the
study's folder, in which `InputTorn` leaves nothing. `WriteFile` opens and finishes the
files in `todo` in the code's order. `AgentsFail` and `DraftFails` are what the models do to
their commands; the rest of an agent run is in `AgentRun`. `StartDemo` takes the removal of
the old demo as one step, and its raw data, normalized tables and statistics as single files.

At the start one study is there, with all that can be made from it and a draft, or as its
backtest left it.

## What is checked

| Run | Instance | Result |
|---|---|---|
| `warm` | 2 workers, 2 calls, 2 processes, of which the first writes 1 stderr line, pool of 1 | `AnswersMatch`, `ReadsAreAwaited`, `OnlyTheDeadHoldThePool`, `NoStrandedDaemon`, `ImplementsService`, `PredictEnds`, `CloseEnds` hold |
| `cli` | 1 worker, 2 repeats, 2 processes, 2 stderr lines each | `ForwardedOnce`, `CommandEnds` hold |
| `cli_forwarding` | the same, 1 stderr line | `DiagnosticsForwarded` is violated (finding 1) |
| `commands` | 4 commands, every kind of input, both clients, batches of up to 3 series | `ItemsMatch`, `LossEndsTheBatch`, `RequestsAreValid`, `ExitTellsAnswer`, `WindowsAreWhole`, `CommandsEnd` hold |
| `commands_contract` | the same | `WorkerFailuresAreAnswered` is violated (finding 2) |
| `http` | 2 gets, 3 attempts, interval 3, 9 ticks | `GetsArePaced`, `RetriesBackOff`, `FailsOnlyExhausted` hold |
| `http_policy` | 1 get | `RatePolicy` is violated (finding 3) |
| `agents` | 3 agents, 2 runs | `TypeOK`, `SynthesisReadsTheOthers`, `RecordedReportIsFiled`, `CompletedRunIsWhole`, `JsonFollowsDatabase`, `VerdictIsFinal`, `RunEnds` hold |
| `backtest` | 6 years, windows of 2, 25 pairs of series, 2 optional forecasters, limit 3 | `BaselinesMatchPlainStudy`, `OptionalRowsAreAPrefix`, `ValidStudyIsUsable`, `StudyEnds` hold |
| `backtest_containment` | the same | `BrokenAdapterContained` is violated (finding 4) |
| `ranking` | any candidates among 4 years, 2 scores, 4 profiles, 2 rankings, list of 2 | `Separated`, `CoveredByABetter`, `NothingBetterHidden`, `BestIsRepresentative`, `ArtifactsInOrder`, `UnfoundedIsVisible`, `OneLevelOff` hold |
| `pipeline` | 3 commands, 1 kill or failure, 1 indicator of up to 2 pages, 2 slugs | `SummariesTellTheDisk`, `NothingDroppedSilently`, `StagesOnNewestStudy`, `FilesBelongTogether` hold |

Each property has a mutant in `PROJECT.json`: a faulty variant of one definition,
written in the module next to the definition it varies, under which TLC finds the
property violated.

### Bounds

`MaxCalls`, `MaxProcs`, `MaxLog`, `Loggers`, `MaxGets`, `MaxTime` and `MaxRuns` bound what a
run explores and appear in guards only. Two calls and two processes are what the failures
of the warm client take: a request that times out or raises, and the next one to the same or
another worker, to the same or another process; with a pool of one, a single blocked read
already exhausts it, which in the code takes four. `warm` checks safety and liveness in one
run of 410 thousand states; the safety properties are proved for any bounds, and the `commands`
runs have a third call and process. Stderr lines matter in the `cli` runs, where every process may
write some; in `warm` one process does (`Loggers`), so that its thread takes part, and in
`commands` none, as nothing there depends on them. For `AgentRun`, three agents are the first and last with one
between, and two runs suffice for one to leave files the other finds. In `HttpClient`
nine ticks hold a get with all its retries and the next one's pause. The five kinds of
series in `MCAdvancedBacktest` (complete, a gap before a target, a gap in training
windows, a value that is not positive, too short) are the cases the engine tells apart; two
files let a forecaster fail in one and be asked in the next, and a limit of three is
reached at the end of a complete file, so that the next one is refused. In
`MCCandidateAudit` (1.3 million states) the window, the echo window and the thresholds are
those of the code; 1896, 1899 and 1901 overlap in a row and lie on both sides of 1900, 2012
has a revision hint, and the four profiles meet every indicator and every penalty. Two
rankings are what a stale audit takes, and a report of two leaves a representative out. The
proofs cover every size. In `MCPredictCommands` there is an input for every branch of every
check, with the faults in both orders where the order decides; the lengths of the series
and forecasts (1 to 9 values) are on both sides of the shortest that can be analysed and of
the first window wider than two; three calls and processes let each series of the longest
batch meet its own failure, one after the other. In
`MCStudyPipeline` (2 million states) three commands are what the properties take: one that
is killed or fails, one on top of what it left, and one that uses both (`ingest`, `ingest`,
`normalize`; `backtest`, `rank_breaks`, `audit_candidates`; a draft after a failed one).
`MaxFaults = 1` allows one kill or failure, anywhere. The World Bank is the connector with
pages and a combined dataset, OWID the one with two kinds of files, several metrics and
the lenient format; the others ask for single JSON or XML files, as the World Bank does
with one page. The run may stop between commands and after the last: deadlock is not
checked.

What the four properties of `pipeline` say together. A source that is reported as ok has
all its files; one that failed while fetching has none, but one that failed while writing
has left whole datasets that its summary does not count. A raw file cut short stops
`normalize` at its source until someone removes it, unless it is a CSV file, which is
then read as far as it goes. As long as nobody names a study with `--study-path`, "latest by
modification time" means the newest complete one, because a study becomes valid while it
is being made and later commands only write to the one that is latest; naming an older one
can turn the order round. And of all the files a command writes, only those between a first
and a last one of the same command are sure to be by it, and whole. The last one itself may be
torn. A failed draft leaves its snapshot and tables beside the draft of another, and a stage
killed halfway leaves new files beside old ones, which later stages read; neither the code nor
its documents promise otherwise, and no property says so.

What the properties of `agents` say together. The database calls a run completed only when
`agent_run.json` does too, and the file calls one failed only when the database does. In
between the file is ahead: it may say completed of a run that the database calls running
(a crash before the last update) or failed (the last update failed, and the handler has not
come to the file, or could not write it). If the handler does come to it, the file's completed
is overwritten with failed, which `VerdictIsFinal` permits in this one case.

What `ExitTellsAnswer` leaves open. It says that success and faults of the input are told as
such; what is told of a worker that fails is a matter of `WorkerFailuresAreAnswered`, which
does not hold (finding 2).

### Fairness

`WarmClient!Fairness` assumes that the calling thread goes on inside `predict` and
`close`, that timers fire, that the pool starts a queued read when a thread is free, and
that a read whose line or end of file is there returns. Nothing is assumed of daemons, which
may hang for ever, nor of the pipes and the exit of one that is gone. So `PredictEnds` and the
first half of `CloseEnds` and `CommandEnds` (the call returns, no daemon runs) hold with nothing
on the other side that cooperates. Their second half is about the reader threads, which
the interpreter joins before it exits and whose reads have no timeout: they all end too, or
else there is a process that is gone whose pipe stays open for ever (`PipeHeldForEver`), as
the container of a killed `docker compose` process can hold it. In that case the command does
hang at its exit, after its answer; the formulas say that nothing else makes it. The caller is
not obliged to ask or to close. The commands add that they run their own loops
(`CliFairness`, `CommandFairness`: weak fairness of the main thread and of the readers). `AgentRun` assumes that a run goes on between the
answers of a server whose silence httpx ends with a timeout. `AdvancedBacktest` assumes
that the command goes on and that `subprocess.run` ends a worker at its timeout, not
that any worker answers. `Ranking` and `StudyPipeline` state no liveness and need none.

### Findings

1. Diagnostics lost after a restart (`cli_forwarding`). The command promises to forward
   diagnostics to stderr (`src/docs/worker_contract.md:102-103`); the offset it keeps
   (`ml_daemon_predict_runner.py:56`) outlives the buffer it refers to, which the
   client empties when it starts a new daemon (`forecast_daemon_client.py:121`).
   `ForwardedOnce` shows that a restart is needed for it.
2. A failure of a worker raises (`commands_contract`). `src/docs/worker_contract.md:111-113`
   says the client does not raise for worker failures and returns a structured result. Both
   clients read text and let `UnicodeDecodeError` out for output that is no UTF-8
   (`forecast_client.py:56`, `forecast_daemon_client.py:60` and `:96`). It is a `ValueError`,
   so `predict_series_with_worker` reports it as `validation_error` with exit code 2
   (`series_prediction.py:71`), the code reserved for faults of the request
   (`src/docs/worker_contract.md:106`); `ml-predict`, and any command whose `close` raises it,
   ends in a traceback. Only a batch reports it as the worker's failure.
3. Retries ignore the rate policy (`http_policy`). `sources/arxiv.py:14` states one
   request every three seconds; retries wait 1 and 2 seconds only.
4. A broken adapter ends the study (`backtest_containment`).
   `src/docs/phase5_implementation_plan.md:55-56` promises it does not; the engine
   (`backtesting/engine.py:127`) and the smoke test catch `ForecastingError` only, while
   `run_worker_forecast` lets other exceptions out for output that cannot be decoded or an
   element that is no number. The workers of the repository convert every element before
   they print; what the libraries below them write to the same streams is not theirs to
   decide.

## What is proved

### The warm client

In `WarmClientProofs`, for any workers, calls, processes, log lines and any pool
of at least one thread, from the two assumptions in `WarmClient` (the counts are
naturals; no worker is called "nobody"):

- `TypeCorrect`, `AnswersAlwaysMatch`, `ReadsAlwaysAwaited`,
  `OnlyTheDeadEverHoldThePool`, `NeverAStrandedDaemon`: the safety properties of
  `warm` as theorems `Spec => []P`;
- `Implementation`: `Spec => ImplementsService`, the refinement of `ForecastService`.

The argument. `AnswersMatch` is not inductive: that the line at hand belongs to the
call at hand depends on what is in the pipes. `IInv` adds, in named parts,
`ProcessInv` (a running process is the registered one of its worker), `ClientInv`
(while a call is in progress its process is registered), `DaemonInv` (a process not
running has nothing left to read), `PipeInv` (the pipes of a registered process are
empty except between a request and its one answer, when together they hold one line
at most, of the current call), `StopInv` (when a shutdown has its line, the daemon's loop is
over, so that a shutdown that raises strands nothing), and `ReadInv` (a read of a registered process is the
one the caller awaits; no process has two). Killing the process on a timeout is
exactly what keeps `PipeInv` and `ReadInv`: the line and the read left behind then
belong to a process nobody refers to. The proof has one lemma per part
(`TypeStep`, `ProcessStep`, `ClientStep`, `DaemonStep`, `PipeStep`, `AnswerStep`), each
with one step per action, and `Invariance` puts them together. `ReadsAreAwaited`,
`OnlyTheDeadHoldThePool` and `NoStrandedDaemon` follow from `IInv` in a state.
`Implementation` uses `Invariance` and one lemma, `ServiceStep`: every step is a step
of the service or leaves what the caller sees unchanged.

### The ranking

In `CandidateAuditProofs`, for any integer years and scores, any window and any limit:
`TypeCorrect`, `AlwaysSeparated`, `AlwaysCovered`, `NothingBetterEverHidden` and
`BestAlwaysRepresentative`, the five properties of the run.

The argument. Coverage needs to know that a claim made earlier is by a year that ranks
as high, which is the order of the loop: `OrderInv` says that nothing still to come
outranks anything looked at. `ClaimInv` says what a claim is (by a representative, within
the window; a representative claims its whole window and itself), which gives separation:
a year that is chosen is unclaimed, so no representative is near. `VisitedInv` joins the
two, and `ListInv` keeps what `List` established. `IInv` is their conjunction with the type
invariant; `SkipStep`, `ChooseStep` and `ListStep` prove that each action preserves it.
`NothingBetterHidden` then follows in a state: a hidden year's representative is not
listed, so it ranks no higher than what is, and the year no higher than it.

### The ranking, the audits and ranking again

The second half of the module extends this to studies that are ranked, audited, ranked again and
audited in any order, for any profiles of years, any neighbourhoods and any number of
rankings. `AuditInv` is the invariant of `Ranking` together with what the order of
commands leaves: the columns of an audit row that are read again never depend on the ranking
(`RowInv`), so that an old row is as good as a new one for them; an audit of the current
ranking has exactly its representatives (`AuditedInv`); and each row of an artifact table of
the current ranking was joined with such a row or with none (`JoinInv`, `CurrentInv`). From it follow
`RankedAgainAlike` (the four properties of the ranking hold of every later one),
`ArtifactsAlwaysInOrder`, `UnfoundedAlwaysVisible` and `AlwaysOneLevelOff`. The last rests on
the weights alone: a missing row may add the 25 points of dominance or take away the 15 of an
echo, and as all points are multiples of five that crosses one threshold at most.

### The HTTP client

`HttpClientProofs`: `TypeCorrect`, `AlwaysPaced`, `AlwaysBacksOff` and `OnlyExhaustedFails`
for any number of gets and attempts and any intervals, as long as each backoff is a natural
number of ticks (`HttpAssumption`; the provers know nothing of `2^n`, and nothing more is
needed of it). The log of requests only grows, so the invariant
relates its end to where the client is: the requests of the current get are the last ones,
numbered from 0 (`CurrentInv`), what a sleep waits for was recorded when it began
(`SleepInv`), and the last first attempt is the latest (`ClockInv`). `ExhaustedInv` is
`FailsOnlyExhausted` request by request.

### The commands

`PredictCommandsProofs`, for any input files, typed series, horizons, modes and forecasts,
and any number of calls, processes and reader threads: `ItemsAlwaysMatch`,
`LossAlwaysEndsTheBatch`, `OnlyValidIsAsked`, `AnswersAreTold`, `WindowsAlwaysWhole`. The assumptions are that lists
are sequences, that what is typed as a series has an element (`CommandAssumption`;
Python's `split` returns no empty list) and that a worker's error has some text, whatever
phrases it holds (`MessagesAssumption`).

The argument composes. `ClientsInv` is the invariant of the warm client, taken over from
`WarmClientProofs` (`StepInv`), with the one fact of it the loop needs: a successful result
number n is the asked worker's answer to call n; for the one-shot client the same is
immediate. `LoopInv` says that the loop is at most one result behind and that its items are
made of the results, `VerdictInv` what is true at each position of the command, `InputInv`
that nothing has been asked, started or sent unless the input is valid. Each action has its
lemma. `RequestsAreValid` then follows from lemmas about the validators (`TypedFacts`,
`SeriesFileFacts`, `BatchFileFacts`): each passes only what `validate_numeric_list` does;
those rest on `NoFault`, that checks in a row pass only if each does. `WindowsAreWhole`
comes from two lemmas about the operators of `BreakWindow`: `WindowFits` (the window is two or more, and two fit into
four values or more) and `WindowsCover` (linear arithmetic from there).

`CommandsSeeTheService` takes the refinement along: in daemon mode every step of a command is
one of the warm client or leaves it alone (`ClientMoves`), so with `ServiceStep` the composed
system implements `ForecastService`. The one-shot client asks and answers in one action, which
the service, where a question is pending for a while, does not have; what it promises is in
`ItemsAlwaysMatch`.

### The warm prediction command

`DaemonPredictCliProofs`: `AlwaysForwardedOnce`, for any number of repeats, restarts, lines
and pool threads, from the assumptions of `WarmClient` and that the worker asked for is one.
Every step of the command is one of the client or leaves the client alone (`ClientMoves`), so
that the client's invariant holds throughout, and so does the refinement (`CliSeesTheService`).
`CliInv` adds what connects the offset with a
buffer that other threads append to and that a restart empties. The lines of one process are in
their order in the buffer, and neither it nor what was printed has a line its thread has not
read (`BufferInv`): so whatever a thread appends later, also that of a replaced daemon, is
newer. A result not yet handled carries the beginning of the buffer (`RawInv`). `OffsetInv`
has two cases: what is behind the offset is newer than all that was printed, or the buffer was
emptied since and all of it is, in which case a shorter result may move the offset back without
harm. `KeptInv` says that without a restart the printed lines are the buffer up to the offset.

### The agent runs

`AgentRunProofs`, for any number of agents and runs, from `AgentAssumption`: `TypeCorrect`,
`SynthesisAlwaysReadsTheOthers`, `RecordedIsAlwaysFiled`, `CompletedIsAlwaysWhole`,
`JsonAlwaysFollows` and `VerdictAlwaysFinal`. The properties
speak of finished runs and of what is on the disk, so the invariant has to follow the run in
progress: its rows are its reports and its status is open (`RunInv`), agents report in their
order and what is left starts with the one at work (`OrderInv`), what is about to be recorded
has been written whole (`WrittenInv`), and each prompt is posted twice at the most
(`ChatInv`, for the type of the counter). The write of `agent_run.json` before the update of the
database is where the order matters: a failure between the two leads to the handler, which
fails the run in the database first. `VerdictIsFinal` follows because every write of a status is
to a run that is open or being failed, and because the file of a run is written again after it
says completed only by a handler that has failed the run in the database (`WrittenInv`).

### The advanced backtest

`AdvancedBacktestProofs`: `TypeCorrect`, `BaselinesAlwaysMatch`, `OptionalRowsAlwaysPrefix`
and `ValidAlwaysUsable`, for any series with any gaps, any windows, horizon and limit on
forecasts and any number of optional forecasters, whichever of them fail, hang or raise and
wherever the program dies. The assumption (`BacktestAssumption`) is that the counts are
positive, that what is normalized is lists of such series, and that no optional forecaster
has the name of a baseline.

The two properties of the rows speak of every cutoff of every file, while the code has three
nested loops. The invariant therefore orders the turns (`Passed`: this forecaster's turn at
this cutoff of this file is over) and says what each turn has left behind once it is past:
`BaselineInv`, that a baseline has its rows at every cutoff passed where it can be fitted,
and no others; `OptionalInv`, that an optional forecaster that can still be run has a row at
every cutoff passed. The second is what makes `OptionalRowsAreAPrefix` inductive: the property
alone does not say that a forecaster that is still running has missed nothing.
`NoCutoffSkipped` proves that the loops jump over no cutoff, from `NextCutoff`'s choice of the
first later one; `ActionsEndTurns` that each of the six ways a turn ends adds the rows of that
turn or disables the forecaster. At the end everything is past, and `BaselineInv` is
`BaselinesMatchPlainStudy`. `FolderInv` (a torn file is never the last one) gives
`ValidStudyIsUsable`.

### The pipeline

`StudyPipelineProofs`: `SummariesAlwaysTell`, `NothingEverDropped`, `FilesAlwaysTogether` and
`StagesAlwaysOnNewest`, for any connectors in any order with any numbers of series and pages,
any number of studies and of commands typed in any order, and any kills and failures, from
`IngestionAssumption` (there is a source; each has a series or more and stands in the list
once, in `build_registry` as in `NORMALIZERS`).

`PipelineInv` has two halves. `DataInv` is about the data directory. What is on the disk
under the number of the command that runs is what that command has done: the files of the
datasets stored so far, whole, and one that is open (`DiskInv`), none of the sources to come
(`LoopInv`); everything else is older (`AgesInv`). That the count in a summary is the number of files needs
that no two datasets of a source have the same name, which is a fact about the requests:
`FetchInv` says that no request is made twice (`RequestsDiffer`), that what is in the list answers
requests that are done or is one of the first pages of the present one, and that the combined
dataset comes after them. `FrameInv` is the same for `normalize`: the frame has every whole raw file of
its metrics, until the table is written. Between commands nothing is in memory (`IdleInv`), so a
command that is killed leaves no more than files.

`StudyInv` is about the study folders. `WritingInv` follows the list of files a command has
still to write: of each group the command writes, what is not in the list any more is on the
disk, by this command and whole, and the last file of the group is still in the list
(`GroupInv`); what is in the list is older than the command, but for a file that is open
(`OlderInv`). So a group whose last file is by the command that runs can only be complete, and
`FoldersInv` (`FilesBelongTogether` and that nothing is from the future) is kept by every
write. `Ready` says of each command's list that it starts that way. `RecencyInv` is what
"latest by modification time" needs: every study has its place in `recency`, and the valid
ones stand there in the order they were made. A stage that writes to the newest valid study
moves it to the end (`MovedToEnd`), where it was last among the valid; a backtest's own writes move a study
that is not valid yet, or is the newest. The clause is conditional on `~pathGiven`: after a
named study has been written to it is false, which is why the property has that condition.

### Only model-checked

Every invariant and every other safety property of the runs is a theorem. What TLC alone
shows is the liveness: `PredictEnds`, `CloseEnds`, `CommandEnds`, `CommandsEnd`, `RunEnds`
and `StudyEnds` (the prover handles neither fairness nor ENABLED), and the four
counterexamples of the findings. Nor is anything proved about what recursive definitions and
folds compute for every input; the modules with proofs use them only where the proofs do not
look inside.

## Not modelled, and why

- Numeric code (forecasts, anomaly scores, rolling features, the rank score): floating-point
  arithmetic and pandas. Where scores are modelled (`CandidateAudit`, `BreakWindow`) they
  are exact.
- Whether a forecast has as many values as were asked for: the code never compares the
  horizon with the answer, and nothing says it should.
- Formatting of reports, prompts, drafts and logs.
- What Docker does with a container whose `docker compose run` was killed, beyond that it
  may hold the pipes; a blocked write to a full pipe; `predict` after `close`.
- More than one line on a daemon's stdout for one request. A line has no mark of its request,
  so anything beyond, noise on a line of its own or the rest of a line after a decoding error,
  would be taken for the answer to the next request. The daemons redirect what libraries print
  (`src/docs/worker_contract.md:91-92`); nothing in the client would notice.
- A daemon that dies while printing: the torn line is an error for its series and does not end
  a batch; the next request starts another daemon. This is in the model, and no document says
  which failures should end a batch, so `LossEndsTheBatch` speaks of requests without a line.
- Some inputs that the program could be given and does not produce itself: in
  `PredictionSchema`, an integer beyond every float in a worker's answer (`predict.py` prints
  floats only; in what a user types it is modelled, and raises); in `Ingestion`, a whole raw
  file without rows. In `StudyPipeline` a write that raises is taken as a kill at that point,
  with the same file torn; that a writer may also remove the file it could not finish, an
  older one of the same name included, is left out.
- Commands that run at the same time on one directory: the code neither prevents nor
  supports it. Two studies whose names fall into the same second belong here too.
- `lemonade_debug`, `list_forecasters` and `ml-smoke` (`ml_workers.py`): one question and
  one answer, and no state.
- Configuration and the thin storage helpers: no state.

## Plan

Each module comes with its run, its mutants and its part of the map.

1. Done: `ForecastService`, `WarmClient`, `DaemonPredictCli`, `PredictionSchema`,
   `BreakWindow`, `BatchPredict`, `PredictCommands`, `HttpClient`, `AgentRun`,
   `AdvancedBacktest`, `Ranking`, `CandidateAudit`, `Ingestion`, `StudyPipeline`, and the
   proofs of every safety property of all of them.
2. `AgentRun` inside `StudyPipeline`, for what a draft may be made of after failed runs.
