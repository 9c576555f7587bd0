--------------------------- MODULE PredictCommandsProofs ---------------------------
(***************************************************************************)
(* Proofs about PredictCommands, for any input, horizon and mode, any forecasts and   *)
(* any number of calls, processes and reader threads.                              *)
(***************************************************************************)
EXTENDS PredictCommands, WarmClientProofs, WellFoundedInduction

-----------------------------------------------------------------------------
(* BreakWindow: what the break analysis looks at, for a series of any length and any *)
(* limit of the window; its arithmetic alone decides it.                          *)

\* The window is two values or more, and two windows fit into four values or more.
LEMMA WindowFits ==
  ASSUME NEW points \in Nat
  PROVE  /\ analysis_window(points) \in Nat
         /\ analysis_window(points) >= 2
         /\ points >= 4 => 2 * analysis_window(points) <= points
<1> DEFINE m == IF ROLLING_STATISTICS_WINDOW < points \div 2 - 1
                THEN ROLLING_STATISTICS_WINDOW ELSE points \div 2 - 1
           greater == IF m > 2 THEN m ELSE 2
<1>1. m \in Int /\ (m > 2 => 2 * m <= points)
  BY WindowAssumption
<1> HIDE DEF m
<1>2. Max({2, m}) = greater
  <2>1. /\ greater \in {2, m} /\ \A y \in {2, m} : greater >= y
        /\ \A x \in {2, m} : (\A y \in {2, m} : x >= y) => x = greater
    BY <1>1
  <2> HIDE DEF greater
  <2> QED
    BY <2>1 DEF Max
<1>3. analysis_window(points) = IF points < 4 THEN 2 ELSE greater
  BY <1>2 DEF analysis_window, m
<1> QED
  BY <1>1, <1>3

\* An index with whole windows on both sides exists from four values on; the windows
\* stay inside the series, and the first and the last together with all between cover it.
LEMMA WindowsCover ==
  ASSUME NEW points \in Nat, NEW window \in Nat, window = analysis_window(points)
  PROVE  LET Both(i) == Before(i, window) \cup After(i, window) IN
         /\ Scored(points, window) = {} <=> points < 4
         /\ \A i \in Scored(points, window) : Both(i) \subseteq 0..(points - 1)
         /\ Scored(points, window) # {} =>
              0..(points - 1) \subseteq UNION {Both(i) : i \in Scored(points, window)}
<1> DEFINE Both(i) == Before(i, window) \cup After(i, window)
           scored == Scored(points, window)
<1>1. window >= 2 /\ (points >= 4 => 2 * window <= points)
  BY WindowFits
<1>2. points < 4 => scored = {}
  BY <1>1 DEF Scored
<1>3. points >= 4 => window \in scored /\ points - window \in scored
  BY <1>1 DEF Scored
<1>4. \A i \in scored : Both(i) \subseteq 0..(points - 1)
  BY DEF Scored, Before, After
<1>5. ASSUME points >= 4, NEW k \in 0..(points - 1)
      PROVE  \E i \in scored : k \in Both(i)
  <2>1. CASE k < window
    BY <1>3, <1>5, <2>1 DEF Before
  <2>2. CASE k >= window /\ k <= points - window
    BY <1>1, <2>2 DEF Scored, After
  <2>3. CASE k > points - window
    BY <1>3, <1>5, <2>3 DEF After
  <2> QED
    BY <2>1, <2>2, <2>3
<1> QED
  BY <1>2, <1>3, <1>4, <1>5

\* Every answer of the analysis is about these windows, and its top is one it scored.
LEMMA AnswerFacts ==
  ASSUME NEW values, Len(values) \in Nat, NEW found \in analyze_combined_series(values)
  PROVE  /\ found.points = Len(values)
         /\ found.window = analysis_window(found.points)
         /\ found.candidates = Scored(found.points, found.window)
         /\ found.candidates # {} => found.top \in found.candidates
<1> DEFINE scored == Scored(Len(values), analysis_window(Len(values)))
<1>1. CASE scored = {}
  <2>1. found = [points |-> Len(values), window |-> analysis_window(Len(values)), candidates |-> {},
                 top |-> -1, detected |-> FALSE]
    BY <1>1 DEF analyze_combined_series
  <2> QED
    BY <1>1, <2>1
<1>2. CASE scored # {}
  <2>1. PICK top \in Tops(values, analysis_window(Len(values))) :
          found = [points |-> Len(values), window |-> analysis_window(Len(values)), candidates |-> scored,
                   top |-> top,
                   detected |-> Gap(values, top, analysis_window(Len(values)))
                                  > Spread(values, top, analysis_window(Len(values)))]
    BY <1>2 DEF analyze_combined_series
  <2>2. top \in scored
    BY <2>1 DEF Tops
  <2> QED
    BY <2>1, <2>2
<1> QED
  BY <1>1, <1>2

-----------------------------------------------------------------------------
(* PredictCommands *)

\* A set of numbers that is not empty has a smallest one.
LEMMA MinInSet ==
  ASSUME NEW S, S \subseteq Nat, S # {}
  PROVE  Min(S) \in S
<1>1. \E x \in S : \A y \in S : ~(<<y, x>> \in OpToRel(<, Nat))
  <2>1. IsWellFoundedOn(OpToRel(<, Nat), Nat)
    BY NatLessThanWellFounded
  <2> QED
    BY <2>1, WFMin
<1>2. PICK x \in S : \A y \in S : ~(<<y, x>> \in OpToRel(<, Nat))
  BY <1>1
<1>3. ASSUME NEW y \in S PROVE x <= y
  <2>1. ~(y < x)
    BY <1>2, <1>3 DEF OpToRel
  <2> QED
    BY <2>1
<1> QED
  BY <1>3 DEF Min

\* Checks in a row pass only if each of them does.
LEMMA NoFault ==
  ASSUME NEW checks, DOMAIN checks \subseteq Nat, FirstFault(checks) = "valid"
  PROVE  \A i \in DOMAIN checks : checks[i] = "valid"
<1> DEFINE faults == {i \in DOMAIN checks : checks[i] # "valid"}
<1>1. CASE faults = {}
  BY <1>1
<1>2. CASE faults # {}
  <2>1. Min(faults) \in faults
    BY <1>2, MinInSet
  <2>2. FirstFault(checks) = checks[Min(faults)]
    BY <1>2 DEF FirstFault
  <2> QED
    BY <2>1, <2>2
<1> QED
  BY <1>1, <1>2

LEMMA TwoChecks ==
  ASSUME NEW a, NEW b, FirstFault(<<a, b>>) = "valid"
  PROVE  a = "valid" /\ b = "valid"
<1>1. DOMAIN <<a, b>> = {1, 2}
  OBVIOUS
<1>2. \A i \in {1, 2} : <<a, b>>[i] = "valid"
  BY <1>1, NoFault
<1> QED
  BY <1>2

LEMMA ThreeChecks ==
  ASSUME NEW a, NEW b, NEW c, FirstFault(<<a, b, c>>) = "valid"
  PROVE  a = "valid" /\ b = "valid" /\ c = "valid"
<1>1. DOMAIN <<a, b, c>> = {1, 2, 3}
  OBVIOUS
<1>2. \A i \in {1, 2, 3} : <<a, b, c>>[i] = "valid"
  BY <1>1, NoFault
<1> QED
  BY <1>2

\* Checks that all pass pass in a row.
LEMMA AllPass ==
  ASSUME NEW checks, \A i \in DOMAIN checks : checks[i] = "valid"
  PROVE  FirstFault(checks) = "valid"
BY DEF FirstFault

-----------------------------------------------------------------------------
\* Where a list of numbers is read from a file, its check is the worker's own.
LEMMA SeriesFileFacts ==
  ASSUME NEW given \in SeriesFiles, load_series_input(given) = "valid"
  PROVE  /\ validate_numeric_list(given.fields.series) = "valid"
         /\ given.fields.series.kind = "list"
         /\ IsSequence(given.fields.series.items)
<1>1. FileCheck(given) = "valid" /\ "series" \in DOMAIN given.fields
  BY DEF load_series_input
<1>2. given.text = "object"
  BY <1>1 DEF FileCheck
<1>3. validate_numeric_list(given.fields.series) = "valid"
  BY <1>1, TwoChecks DEF load_series_input
<1>4. given.fields.series.kind = "list"
  BY <1>3 DEF validate_numeric_list
<1> QED
  BY <1>1, <1>2, <1>3, <1>4, CommandAssumption

\* The check of a batch ends with the worker's own, for every item.
LEMMA BatchFileFacts ==
  ASSUME NEW given \in BatchFiles, load_batch_input(given) = "valid"
  PROVE  /\ IsSequence(given.fields.series.items)
         /\ given.fields.series.items # <<>>
         /\ \A i \in DOMAIN given.fields.series.items :
              validate_numeric_list(given.fields.series.items[i].fields.values) = "valid"
<1> DEFINE data == given.fields.series
<1>1. FileCheck(given) = "valid" /\ "series" \in DOMAIN given.fields
  BY DEF load_batch_input
<1>2. given.text = "object"
  BY <1>1 DEF FileCheck
<1>3. validate_batch_series(data) = "valid"
  BY <1>1, TwoChecks DEF load_batch_input
<1>4. /\ data.kind = "list" /\ data.items # <<>>
      /\ FirstFault([i \in DOMAIN data.items |-> CheckItem(data.items, i)]) = "valid"
  BY <1>3 DEF validate_batch_series
<1>5. IsSequence(data.items)
  BY <1>1, <1>2, <1>4, CommandAssumption
<1>6. ASSUME NEW i \in DOMAIN data.items
      PROVE  validate_numeric_list(data.items[i].fields.values) = "valid"
  <2> DEFINE checks == [j \in DOMAIN data.items |-> CheckItem(data.items, j)]
  <2>1. DOMAIN checks \subseteq Nat
    BY <1>5 DEF IsSequence
  <2>2. CheckItem(data.items, i) = "valid"
    <3>1. FirstFault(checks) = "valid" /\ i \in DOMAIN checks
      BY <1>4
    <3>2. \A j \in DOMAIN checks : checks[j] = "valid"
      <4> HIDE DEF checks
      <4> QED
        BY <2>1, <3>1, NoFault
    <3>3. checks[i] = "valid"
      BY <3>1, <3>2, Zenon
    <3> QED
      BY <3>3
  <2>3. validate_numeric_list(Get(data.items[i].fields, "values")) = "valid"
    BY <2>2 DEF CheckItem
  <2>4. Get(data.items[i].fields, "values") # Null
    <3>1. Get(data.items[i].fields, "values").kind = "list"
      BY <2>3 DEF validate_numeric_list
    <3>2. Null.kind # "list"
      BY DEF Null
    <3> QED
      BY <3>1, <3>2, Zenon
  <2> QED
    BY <2>3, <2>4 DEF Get
<1> QED
  BY <1>4, <1>5, <1>6

\* What ml-predict takes for numbers, the worker does.
LEMMA TypedFacts ==
  ASSUME NEW typed \in TypedSeries, parse_series(typed) = "valid"
  PROVE  validate_numeric_list(typed) = "valid"
<1>1. typed.kind = "list" /\ typed.items # <<>>
  BY CommandAssumption
<1>2. \A i \in DOMAIN typed.items : CheckElement(typed.items[i]) = "valid"
  BY Zenon DEF parse_series, CheckElement
<1> QED
  BY <1>1, <1>2, AllPass DEF validate_numeric_list

-----------------------------------------------------------------------------
\* What a client returns, warm or cold.
CommandResult == [worker: Workers, outcome: Outcome \cup {"unparsed", "raised"}, call: Nat,
                  from: Workers \cup {Nobody}]

Valid == InputCheck = "valid" /\ validate_horizon(horizon) = "valid"

\* Nothing has been asked.
Untouched ==
  results = <<>> /\ client = Idle /\ started = 0 /\ \A w \in Workers : processes[w] = NoProc

\* The warm client keeps its own invariant; the cold one has no state.
WarmInv == IInv /\ (client.at \in {"writing", "waiting"} => client.worker = Worker)

ResultsInv ==
  /\ results \in Seq(CommandResult)
  /\ \A i \in 1..Len(results) :
       /\ results[i].worker = Worker
       /\ results[i].outcome = "ok" => results[i].call = i /\ results[i].from = Worker

ClientsInv ==
  /\ mode = "daemon" => WarmInv
  /\ mode # "daemon" => client = Idle
  /\ ResultsInv

\* The loop is never more than one result behind, and its items are made of results.
LoopInv ==
  /\ handled \in Nat
  /\ Len(results) \in {handled, handled + 1}
  /\ items \in Seq(Nat)
  /\ Len(items) <= handled
  /\ verdict \in {"loading", "running"} => Len(items) = handled
  /\ \A i \in 1..Len(items) : items[i] = ItemOf(results[i])
  /\ mode = "daemon" /\ command = "batch-predict" =>
       \A i \in 1..Len(items) : results[i].outcome \notin NoLine

\* What a batch may be lost to.
Lossy(outcome) ==
  \/ outcome \in NoLine
  \/ outcome = "failed" /\ \E message \in WorkerMessages : is_fatal_daemon_error(message)

\* Where the command is.
VerdictInv ==
  /\ verdict \in {"loading", "running", "complete", "lost", "answered", "refused", "crashed", "ended"}
  /\ verdict = "loading" => input = <<>> /\ handled = 0 /\ Untouched
  /\ verdict = "running" /\ command # "batch-predict" => handled = 0
  /\ verdict = "complete" =>
       command = "batch-predict" /\ Len(items) = Len(input) /\ Len(results) = Len(input)
  /\ verdict = "lost" =>
       /\ command = "batch-predict" /\ mode = "daemon"
       /\ Len(results) = Len(items) + 1 /\ Len(items) < Len(input)
       /\ Lossy(results[Len(results)].outcome)
  /\ verdict = "answered" =>
       /\ command # "batch-predict" /\ Len(items) = 1 /\ Len(results) = 1
       /\ results[1].outcome # "raised"
  /\ verdict = "refused" =>
       \/ validate_horizon(horizon) = "invalid" /\ items = <<>>
       \/ /\ command \notin {"ml-predict", "batch-predict"}
          /\ Len(items) = 1 /\ Len(results) = 1 /\ results[1].outcome = "raised"
  /\ verdict = "crashed" =>
       command = "ml-predict" /\ Len(items) = 1 /\ Len(results) = 1 /\ results[1].outcome = "raised"

\* The input is what has been checked, and nothing is asked that has not been.
InputInv ==
  /\ command \in {"predict-series", "analyze-series", "batch-predict", "ml-predict"}
  /\ file \in InputsOf(command)
  /\ input = <<>> \/ (InputCheck = "valid" /\ input = SeriesOf)
  /\ verdict \notin {"loading", "ended"} => InputCheck = "valid" /\ input = SeriesOf
  /\ ~Untouched => Valid /\ input = SeriesOf

\* The client is closed only by the command that made it, when it is done with it; what
\* close raises comes from a process; and while the command goes on, a daemon whose line
\* was the last result is the one in use.
PhaseInv ==
  /\ verdict \in {"loading", "running"} => phase = "open"
  /\ phase # "open" => MustClose
  /\ phase = "raised" => started # 0
  /\ mode = "daemon" /\ verdict = "running" /\ results # <<>>
       /\ results[Len(results)].outcome \notin NoLine => processes[Worker] # NoProc

CommandInv ==
  ClientsInv /\ LoopInv /\ VerdictInv /\ InputInv /\ PhaseInv /\ WindowsAreWhole /\ ExitTellsAnswer

-----------------------------------------------------------------------------
LEMMA CommandStart == CommandInit => CommandInv
<1> SUFFICES ASSUME CommandInit PROVE CommandInv
  OBVIOUS
<1>1. /\ results = <<>> /\ client = Idle /\ started = 0 /\ phase = "open"
      /\ \A w \in Workers : processes[w] = NoProc
  BY DEF CommandInit, Init
<1>2. ClientsInv
  <2>1. IInv
    BY InitInv DEF CommandInit
  <2> QED
    BY <1>1, <2>1 DEF ClientsInv, WarmInv, ResultsInv, Idle
<1>3. LoopInv /\ VerdictInv /\ InputInv /\ PhaseInv /\ WindowsAreWhole /\ ExitTellsAnswer
  BY <1>1 DEF CommandInit, LoopInv, VerdictInv, InputInv, Untouched, PhaseInv, WindowsAreWhole, ExitTellsAnswer
<1> QED
  BY <1>2, <1>3 DEF CommandInv

\* What has been given does not change, and so neither does what is said of it.
LEMMA SameInput ==
  ASSUME UNCHANGED <<fixedVars, givenVars>>
  PROVE  /\ InputCheck' = InputCheck /\ SeriesOf' = SeriesOf /\ Valid' = Valid
         /\ mode' = mode /\ horizon' = horizon /\ command' = command /\ file' = file
         /\ InputsOf(command)' = InputsOf(command)
         /\ Fault' = Fault /\ (MustClose' <=> MustClose)
<1>1. mode' = mode /\ horizon' = horizon /\ command' = command /\ file' = file
  BY DEF fixedVars, givenVars
<1>2. InputCheck' = InputCheck
  BY <1>1 DEF InputCheck
<1>3. SeriesOf' = SeriesOf
  BY <1>1 DEF SeriesOf
<1>4. MustClose' <=> MustClose
  BY DEF MustClose, fixedVars
<1> QED
  BY <1>1, <1>2, <1>3, <1>4 DEF Valid, InputsOf, Fault

\* A step of the command alone.
LEMMA SameClients ==
  ASSUME ClientsInv, UNCHANGED <<vars, mode>>
  PROVE  ClientsInv' /\ (Untouched' <=> Untouched) /\ results' = results
<1>1. /\ UNCHANGED vars /\ mode' = mode /\ results' = results /\ client' = client
      /\ started' = started /\ processes' = processes
  BY DEF vars, clientVars, startVars
<1>2. IInv => IInv'
  BY <1>1, StepInv
<1>3. ResultsInv'
  BY <1>1 DEF ClientsInv, ResultsInv
<1> QED
  BY <1>1, <1>2, <1>3 DEF ClientsInv, WarmInv, Untouched

\* A step of the warm client, of a daemon or of a thread that returns nothing.
LEMMA QuietClients ==
  ASSUME ClientsInv, mode' = mode, results' = results,
         mode = "daemon" => Next /\ (client'.at \in {"writing", "waiting"} => client' = client),
         mode # "daemon" => client' = client
  PROVE  ClientsInv'
<1>1. mode = "daemon" => IInv'
  BY StepInv DEF ClientsInv, WarmInv
<1> QED
  BY <1>1 DEF ClientsInv, WarmInv, ResultsInv

\* What the loop has, when a step adds no result and none is taken.
LEMMA SameLoop ==
  ASSUME LoopInv, UNCHANGED <<fixedVars, givenVars, loopVars>>, results' = results
  PROVE  LoopInv'
<1>1. /\ handled' = handled /\ items' = items /\ verdict' = verdict /\ command' = command
      /\ mode' = mode
  BY DEF loopVars, fixedVars, givenVars
<1> QED
  BY <1>1 DEF LoopInv, ItemOf

\* Of a step of the command alone that leaves it running or takes it on.
LEMMA SamePhase ==
  ASSUME PhaseInv, VerdictInv, UNCHANGED <<vars, fixedVars>>,
         verdict' \in {"loading", "running"} => verdict \in {"loading", "running"}
  PROVE  PhaseInv'
<1>1. /\ phase' = phase /\ started' = started /\ processes' = processes /\ results' = results
      /\ mode' = mode
  BY DEF vars, clientVars, startVars, fixedVars
<1>2. MustClose' <=> MustClose
  BY DEF MustClose, fixedVars
<1>3. verdict = "loading" => results = <<>>
  BY DEF VerdictInv, Untouched
<1> QED
  BY <1>1, <1>2, <1>3 DEF PhaseInv

\* What the other parts of the invariant say of a step that returns nothing and leaves
\* the command where it is.
LEMMA SameCommand ==
  ASSUME CommandInv, UNCHANGED <<batchVars, commandVars>>, results' = results,
         (Untouched' <=> Untouched), started' = started, verdict = "ended" => phase' = phase
  PROVE  LoopInv' /\ VerdictInv' /\ InputInv' /\ WindowsAreWhole' /\ ExitTellsAnswer'
<1>1. /\ UNCHANGED <<fixedVars, givenVars, loopVars>> /\ UNCHANGED <<analysis, answer, exitcode>>
      /\ handled' = handled /\ items' = items /\ verdict' = verdict /\ input' = input
  BY DEF batchVars, commandVars, loopVars
<1>2. /\ InputCheck' = InputCheck /\ SeriesOf' = SeriesOf /\ Valid' = Valid
      /\ mode' = mode /\ command' = command /\ file' = file
      /\ InputsOf(command)' = InputsOf(command) /\ horizon' = horizon /\ Fault' = Fault
  BY <1>1, SameInput
<1>3. LoopInv'
  BY <1>1, SameLoop DEF CommandInv
<1>4. VerdictInv'
  BY <1>1, <1>2 DEF CommandInv, VerdictInv
<1>5. InputInv'
  BY <1>1, <1>2 DEF CommandInv, InputInv
<1>6. WindowsAreWhole'
  BY <1>1 DEF CommandInv, WindowsAreWhole
<1>7. ExitTellsAnswer'
  BY <1>1, <1>2 DEF CommandInv, ExitTellsAnswer
<1> QED
  BY <1>3, <1>4, <1>5, <1>6, <1>7

LEMMA OthersStep == ASSUME CommandInv, Others PROVE CommandInv'
<1>1. UNCHANGED <<client, results, started, processes, phase>>
  <2>1. CASE Threads
    BY <2>1 DEF Threads, StartRead, FinishRead, RelayStderr, clientVars, startVars
  <2>2. CASE Daemons
    BY <2>2 DEF Daemons, DaemonAnswers, DaemonStops, DaemonDies, PipesClose, Exits, DaemonLogs,
                clientVars, startVars
  <2> QED
    BY <2>1, <2>2 DEF Others
<1>2. Next /\ UNCHANGED <<batchVars, commandVars>> /\ mode' = mode
  BY DEF Others, Next, batchVars, fixedVars
<1>3. ClientsInv'
  BY <1>1, <1>2, QuietClients DEF CommandInv
<1>4. (Untouched' <=> Untouched)
  BY <1>1 DEF Untouched
<1>5. PhaseInv'
  BY <1>1, <1>2 DEF CommandInv, PhaseInv, MustClose, batchVars, fixedVars, loopVars
<1> QED
  BY <1>1, <1>2, <1>3, <1>4, <1>5, SameCommand DEF CommandInv

\* Closing: only the warm client has a close, and where nothing was asked there is
\* no process to shut down.
LEMMA CloseStep == ASSUME CommandInv, Close PROVE CommandInv'
<1>1. /\ mode = "daemon" /\ mode' = mode /\ UNCHANGED <<batchVars, commandVars>>
      /\ BeginClose \/ Stop
      /\ MustClose /\ verdict' = verdict /\ verdict \notin {"loading", "running", "ended"}
  BY DEF Close, CloseClient, MustClose, batchVars, fixedVars, loopVars
<1>2. At("idle") => client = Idle
  BY <1>1 DEF CommandInv, ClientsInv, WarmInv, IInv, ClientInv
<1>3. /\ results' = results /\ started' = started
      /\ client' = client \/ client'.at \notin {"writing", "waiting"}
      /\ (Untouched' <=> Untouched)
      /\ phase' = phase \/ phase' # "raised" \/ started # 0
  <2>1. ASSUME NEW w \in Workers, BeginShutdown(w)
        PROVE  /\ results' = results /\ started' = started /\ phase' = phase
               /\ client'.at = "stopping" /\ ~Untouched /\ ~Untouched'
    BY <2>1 DEF BeginShutdown, startVars, Untouched, Idle
  <2>2. ASSUME NEW w \in Workers, ShutdownBroken(w)
        PROVE  /\ results' = results /\ started' = started /\ client' = client /\ phase' = phase
               /\ (Untouched' <=> Untouched)
    <3>1. /\ results' = results /\ started' = started /\ client' = client /\ phase' = phase
          /\ processes[w] # NoProc
      BY <2>2 DEF ShutdownBroken, startVars, clientVars
    <3>2. started # 0
      BY <1>1, <3>1 DEF CommandInv, ClientsInv, WarmInv, IInv, ProcessInv, TypeOK, LifeType, NoProc
    <3> QED
      BY <3>1, <3>2 DEF Untouched
  <2>3. CASE ShutdownHeard \/ ShutdownRaises \/ ShutdownReaped \/ ShutdownTimesOut
    <3>1. /\ results' = results /\ started' = started
          /\ client' = Idle \/ client' = [client EXCEPT !.at = "reaping"]
          /\ client.at \in {"stopping", "reaping"}
      BY <2>3 DEF ShutdownHeard, ShutdownRaises, ShutdownReaped, ShutdownTimesOut, At, startVars
    <3>2. /\ client \in [at : {"idle", "writing", "waiting", "stopping", "reaping"},
                         worker : Workers \cup {Nobody}, proc : 0..MaxProcs, call : 0..MaxCalls]
          /\ client.proc # NoProc /\ processes[client.worker] = client.proc
          /\ client.worker \in Workers
      BY <1>1, <3>1 DEF CommandInv, ClientsInv, WarmInv, IInv, ClientInv, TypeOK, CallerType, At
    <3>3. started # 0
      BY <1>1, <3>2 DEF CommandInv, ClientsInv, WarmInv, IInv, ProcessInv, TypeOK, LifeType, NoProc
    <3> QED
      BY <3>1, <3>2, <3>3 DEF Idle, Untouched
  <2>4. CASE BeginClose \/ FinishClose
    BY <2>4 DEF BeginClose, FinishClose, startVars, Untouched
  <2> QED
    BY <1>1, <2>1, <2>2, <2>3, <2>4 DEF Stop
<1>4. Next
  BY <1>1 DEF Next, Stop
<1>5. ClientsInv'
  BY <1>1, <1>3, <1>4, QuietClients DEF CommandInv
<1>6. MustClose'
  BY <1>1 DEF MustClose, batchVars, fixedVars
<1>7. PhaseInv'
  BY <1>1, <1>3, <1>6 DEF CommandInv, PhaseInv
<1> QED
  BY <1>1, <1>3, <1>5, <1>7, SameCommand DEF CommandInv

\* Where the warm client's predict goes: it adds one result of its own worker or none.
LEMMA PredictWarmFacts ==
  ASSUME CommandInv, PredictWarm
  PROVE  /\ WarmInv'
         /\ results' = results \/ \E r \in CommandResult : r.worker = Worker /\ results' = Append(results, r)
         /\ ResultsInv'
<1>1. mode = "daemon" /\ WarmInv /\ results \in Seq(CommandResult) /\ Worker \in Workers
  BY WorkerAssumption DEF CommandInv, ClientsInv, ResultsInv, PredictWarm
<1>2. Next
  BY <1>1 DEF PredictWarm, Next, Predict
<1>3. IInv'
  BY <1>1, <1>2, StepInv DEF WarmInv
<1>4. /\ results' \in Seq(Result) /\ AnswersMatch'
      /\ client \in [at : {"idle", "writing", "waiting", "stopping", "reaping"},
                     worker : Workers \cup {Nobody}, proc : 0..MaxProcs, call : 0..MaxCalls]
  BY <1>1, <1>3 DEF WarmInv, IInv, TypeOK, CallerType
<1>5. /\ results' = results \/ \E outcome, call, from :
            results' = Append(results, [worker |-> Worker, outcome |-> outcome, call |-> call, from |-> from])
      /\ client'.at \in {"writing", "waiting"} => client'.worker = Worker
  <2>1. CASE ReuseProcess(Worker) \/ StartProcess(Worker)
    BY <2>1 DEF ReuseProcess, StartProcess
  <2>2. CASE CannotStart(Worker)
    BY <2>2, <1>1 DEF CannotStart, WarmInv
  <2>3. CASE WriteRequest
    BY <2>3, <1>1, <1>4 DEF WriteRequest, WarmInv, At
  <2>4. CASE WriteFails \/ PredictReturns \/ PredictTimesOut
    <3>1. PICK outcome, call, from : Return(outcome, call, from)
      BY <2>4 DEF WriteFails, PredictReturns, PredictTimesOut
    <3>2. client.worker = Worker
      BY <2>4, <1>1 DEF WriteFails, PredictReturns, PredictTimesOut, WarmInv, At
    <3>3. results' = Append(results, [worker |-> Worker, outcome |-> outcome, call |-> call, from |-> from])
      BY <3>1, <3>2 DEF Return
    <3>4. client'.at = "idle"
      BY <3>1 DEF Return, Idle
    <3> QED
      BY <3>3, <3>4
  <2> QED
    BY <2>1, <2>2, <2>3, <2>4 DEF PredictWarm
<1>6. WarmInv'
  BY <1>3, <1>5 DEF WarmInv
<1>7. CASE results' = results
  BY <1>6, <1>7 DEF CommandInv, ClientsInv, ResultsInv
<1>8. ASSUME NEW outcome, NEW call, NEW from,
             results' = Append(results, [worker |-> Worker, outcome |-> outcome, call |-> call, from |-> from])
      PROVE  /\ \E r \in CommandResult : r.worker = Worker /\ results' = Append(results, r)
             /\ ResultsInv'
  <2> DEFINE r == [worker |-> Worker, outcome |-> outcome, call |-> call, from |-> from]
             n == Len(results) + 1
  <2>1. Len(results') = n /\ n \in Nat /\ results'[n] = r
        /\ \A i \in 1..Len(results) : results'[i] = results[i]
    BY <1>1, <1>8
  <2>2. r \in Result
    <3>1. n \in 1..Len(results')
      BY <2>1
    <3>2. results'[n] \in Result
      BY <1>4, <3>1
    <3> QED
      BY <2>1, <3>2
  <2>3. r \in CommandResult
    BY <2>2, CountsAssumption DEF Result, CommandResult
  <2>4. results' \in Seq(CommandResult)
    BY <1>1, <1>8, <2>3
  <2>5. \A i \in 1..Len(results') : results'[i].worker = Worker
    BY <2>1 DEF CommandInv, ClientsInv, ResultsInv
  <2>6. \A i \in 1..Len(results') :
          results'[i].outcome = "ok" => results'[i].call = i /\ results'[i].from = Worker
    BY <1>4, <2>5 DEF AnswersMatch
  <2> QED
    BY <1>8, <2>3, <2>4, <2>5, <2>6 DEF ResultsInv
<1> QED
  BY <1>5, <1>6, <1>7, <1>8

\* A result that is a line of a daemon leaves that daemon in use.
LEMMA PredictWarmKeeps ==
  ASSUME CommandInv, PredictWarm
  PROVE  /\ phase' = phase /\ (phase = "raised" => started' # 0)
         /\ results' # <<>> /\ results'[Len(results')].outcome \notin NoLine => processes'[Worker] # NoProc
<1>1. /\ mode = "daemon" /\ IInv /\ (client.at \in {"writing", "waiting"} => client.worker = Worker)
      /\ results \in Seq(CommandResult) /\ Worker \in Workers /\ verdict = "running"
  BY WorkerAssumption DEF CommandInv, ClientsInv, ResultsInv, WarmInv, PredictWarm, Looping
<1>2. /\ phase = "open"
      /\ results # <<>> /\ results[Len(results)].outcome \notin NoLine => processes[Worker] # NoProc
  BY <1>1 DEF CommandInv, PhaseInv
<1>3. processes \in [Workers -> 0..MaxProcs] /\ started \in 0..MaxProcs /\ MaxProcs \in Nat
  BY <1>1, CountsAssumption DEF IInv, TypeOK, LifeType
<1>4. CASE ReuseProcess(Worker) \/ WriteRequest
  <2>1. results' = results /\ processes' = processes /\ phase' = phase
    BY <1>4 DEF ReuseProcess, WriteRequest
  <2> QED
    BY <1>2, <2>1
<1>5. CASE StartProcess(Worker)
  <2>1. processes'[Worker] = started + 1 /\ phase' = phase
    BY <1>1, <1>3, <1>5 DEF StartProcess
  <2> QED
    BY <1>2, <1>3, <2>1 DEF NoProc
<1>6. CASE CannotStart(Worker)
  <2>1. /\ phase' = phase
        /\ results' = Append(results, [worker |-> Worker, outcome |-> "unstarted", call |-> 0, from |-> Nobody])
    BY <1>6 DEF CannotStart
  <2>2. results'[Len(results')].outcome = "unstarted"
    BY <1>1, <2>1
  <2> QED
    BY <1>2, <2>1, <2>2 DEF NoLine
<1>7. CASE WriteFails \/ PredictReturns \/ PredictTimesOut
  <2>1. PICK outcome, call, from : Return(outcome, call, from) /\ (outcome \in NoLine \/ processes' = processes)
    <3>1. CASE WriteFails
      BY <3>1 DEF WriteFails, NoLine
    <3>2. CASE PredictTimesOut
      BY <3>2 DEF PredictTimesOut, NoLine
    <3>3. CASE PredictReturns
      BY <3>3 DEF PredictReturns
    <3> QED
      BY <1>7, <3>1, <3>2, <3>3
  <2>2. /\ results' = Append(results, [worker |-> client.worker, outcome |-> outcome, call |-> call, from |-> from])
        /\ phase' = phase
    BY <1>7, <2>1 DEF Return, WriteFails, PredictReturns, PredictTimesOut
  <2>3. results'[Len(results')].outcome = outcome
    BY <1>1, <2>2
  <2>4. client.worker = Worker /\ client.proc # NoProc /\ processes[client.worker] = client.proc
    BY <1>1, <1>7 DEF IInv, ClientInv, WriteFails, PredictReturns, PredictTimesOut, At
  <2> QED
    BY <1>2, <2>1, <2>2, <2>3, <2>4
<1> QED
  BY <1>4, <1>5, <1>6, <1>7 DEF PredictWarm

\* Whatever a container leaves has one of the outcomes of a cold call.
LEMMA ColdOutcome ==
  ASSUME NEW request, NEW reply \in predict_main(request) \cup Interruptions
  PROVE  OutcomeOf(reply) \in {"ok", "failed", "unparsed", "raised"}
<1>1. reply.text \in {"undecodable", "not_json", "not_object", "partial", "error", "forecast"}
  <2>1. CASE reply \in predict_main(request)
    BY <2>1 DEF predict_main, Error, Answer
  <2>2. CASE reply \in Interruptions
    BY <2>2 DEF Interruptions, Garbage, Answer
  <2> QED
    BY <2>1, <2>2
<1> QED
  BY <1>1 DEF OutcomeOf

LEMMA PredictColdFacts ==
  ASSUME CommandInv, PredictCold
  PROVE  /\ client' = client
         /\ \E r \in CommandResult : r.worker = Worker /\ results' = Append(results, r)
         /\ ResultsInv'
<1>1. results \in Seq(CommandResult) /\ Len(results) \in Nat /\ Worker \in Workers
  BY WorkerAssumption DEF CommandInv, ClientsInv, ResultsInv
<1>2. PICK outcome \in {OutcomeOf(reply) : reply \in predict_main(Request) \cup Interruptions}
                         \cup {"timeout", "unstarted"} :
        results' = Append(results, [worker |-> Worker, outcome |-> outcome,
                                    call |-> IF outcome = "ok" THEN NewCall ELSE 0,
                                    from |-> IF outcome = "ok" THEN Worker ELSE Nobody])
  BY DEF PredictCold
<1> DEFINE r == [worker |-> Worker, outcome |-> outcome,
                 call |-> IF outcome = "ok" THEN NewCall ELSE 0,
                 from |-> IF outcome = "ok" THEN Worker ELSE Nobody]
<1>3. outcome \in Outcome \cup {"unparsed", "raised"}
  BY ColdOutcome DEF Outcome
<1>4. r \in CommandResult
  BY <1>1, <1>3 DEF CommandResult, NewCall
<1>5. /\ r.worker = Worker /\ results' = Append(results, r)
      /\ r.outcome = "ok" => r.call = Len(results) + 1 /\ r.from = Worker
  BY <1>2 DEF NewCall
<1> HIDE DEF r
<1>6. /\ results' \in Seq(CommandResult) /\ Len(results') = Len(results) + 1
      /\ results'[Len(results) + 1] = r
      /\ \A i \in 1..Len(results) : results'[i] = results[i]
  BY <1>1, <1>4, <1>5
<1>7. ASSUME NEW i \in 1..Len(results')
      PROVE  /\ results'[i].worker = Worker
             /\ results'[i].outcome = "ok" => results'[i].call = i /\ results'[i].from = Worker
  <2>1. CASE i = Len(results) + 1
    BY <1>5, <1>6, <2>1
  <2>2. CASE i \in 1..Len(results)
    BY <1>6, <2>2 DEF CommandInv, ClientsInv, ResultsInv
  <2> QED
    BY <1>1, <1>6, <2>1, <2>2
<1>8. ResultsInv'
  BY <1>6, <1>7 DEF ResultsInv
<1> QED
  BY <1>4, <1>5, <1>8 DEF PredictCold

\* Asking: one result more at most, for the request the loop has come to.
LEMMA AskStep == ASSUME CommandInv, Ask PROVE CommandInv'
<1>1. /\ verdict = "running" /\ Len(results) = handled /\ validate_horizon(horizon) = "valid"
      /\ UNCHANGED <<fixedVars, givenVars, loopVars, analysis, answer, exitcode>>
  BY DEF Ask, PredictWarm, PredictCold, Looping, batchVars, commandVars
<1>2. /\ handled' = handled /\ items' = items /\ verdict' = verdict /\ input' = input
      /\ analysis' = analysis
  BY <1>1 DEF loopVars
<1>3. /\ InputCheck' = InputCheck /\ SeriesOf' = SeriesOf /\ Valid' = Valid
      /\ mode' = mode /\ command' = command /\ file' = file
      /\ InputsOf(command)' = InputsOf(command)
  BY <1>1, SameInput
<1>4. /\ ClientsInv'
      /\ results' = results \/ \E r \in CommandResult : results' = Append(results, r)
  <2>1. CASE PredictWarm
    <3>1. mode = "daemon"
      BY <2>1 DEF PredictWarm
    <3> QED
      BY <2>1, <3>1, <1>3, PredictWarmFacts DEF ClientsInv
  <2>2. CASE PredictCold
    <3>1. mode = "one-shot"
      BY <2>2 DEF PredictCold
    <3>2. client' = client /\ client = Idle
      BY <2>2, <3>1, PredictColdFacts DEF CommandInv, ClientsInv
    <3> QED
      BY <2>2, <3>1, <3>2, <1>3, PredictColdFacts DEF ClientsInv
  <2> QED
    BY <2>1, <2>2 DEF Ask
<1>5. /\ Len(results') \in {Len(results), Len(results) + 1} /\ Len(results) \in Nat
      /\ \A i \in 1..Len(results) : results'[i] = results[i]
  <2>1. results \in Seq(CommandResult)
    BY DEF CommandInv, ClientsInv, ResultsInv
  <2> QED
    BY <1>4, <2>1
<1>6. LoopInv'
  <2>1. /\ handled \in Nat /\ items \in Seq(Nat) /\ Len(items) = handled
        /\ \A i \in 1..Len(items) : items[i] = ItemOf(results[i])
        /\ mode = "daemon" /\ command = "batch-predict" =>
             \A i \in 1..Len(items) : results[i].outcome \notin NoLine
    BY <1>1 DEF CommandInv, LoopInv
  <2>2. \A i \in 1..Len(items) : results'[i] = results[i]
    BY <1>1, <1>5, <2>1
  <2> QED
    BY <1>1, <1>2, <1>3, <1>5, <2>1, <2>2 DEF LoopInv, ItemOf
<1>7. VerdictInv'
  BY <1>1, <1>2, <1>3 DEF CommandInv, VerdictInv
<1>8. InputInv'
  BY <1>1, <1>2, <1>3 DEF CommandInv, InputInv, Valid
<1>9. WindowsAreWhole' /\ ExitTellsAnswer'
  BY <1>1, <1>2 DEF CommandInv, WindowsAreWhole, ExitTellsAnswer
<1>10. PhaseInv'
  <2>1. phase = "open"
    BY <1>1 DEF CommandInv, PhaseInv
  <2>2. CASE PredictWarm
    BY <1>2, <1>3, <2>1, <2>2, PredictWarmKeeps DEF PhaseInv
  <2>3. CASE PredictCold
    <3>1. mode = "one-shot" /\ phase' = phase
      BY <2>3 DEF PredictCold
    <3> QED
      BY <1>3, <2>1, <3>1 DEF PhaseInv
  <2> QED
    BY <2>2, <2>3 DEF Ask
<1> QED
  BY <1>4, <1>6, <1>7, <1>8, <1>9, <1>10 DEF CommandInv

\* What the client itself says of a daemon that brought no line is fatal, and nothing else
\* is but what a worker's own error may say.
LEMMA FatalFacts ==
  ASSUME mode = "daemon", NEW outcome, NEW message \in MessagesOf(outcome)
  PROVE  /\ outcome \in NoLine => is_fatal_daemon_error(message)
         /\ is_fatal_daemon_error(message) => Lossy(outcome)
<1>1. CASE outcome \in NoLine
  <2>1. message = {WarmWording[outcome]}
    BY <1>1 DEF MessagesOf, NoLine, WarmWording
  <2>2. WarmWording[outcome] \in fatal_fragments
    <3>1. CASE outcome = "unstarted"
      BY <3>1 DEF WarmWording, fatal_fragments
    <3>2. CASE outcome = "unwritten"
      BY <3>2 DEF WarmWording, fatal_fragments
    <3>3. CASE outcome = "timeout"
      BY <3>3 DEF WarmWording, fatal_fragments
    <3>4. CASE outcome = "exited"
      BY <3>4 DEF WarmWording, fatal_fragments
    <3> QED
      BY <1>1, <3>1, <3>2, <3>3, <3>4 DEF NoLine
  <2> QED
    BY <1>1, <2>1, <2>2 DEF is_fatal_daemon_error, Lossy
<1>2. CASE outcome \notin NoLine
  <2>1. outcome \notin DOMAIN WarmWording
    BY <1>2 DEF NoLine, WarmWording
  <2>2. CASE outcome = "failed"
    BY <1>2, <2>1, <2>2 DEF MessagesOf, Lossy
  <2>3. CASE outcome # "failed"
    BY <1>2, <2>1, <2>3 DEF MessagesOf, is_fatal_daemon_error
  <2> QED
    BY <2>2, <2>3
<1> QED
  BY <1>1, <1>2

\* The loop takes a result: a fatal one ends it and becomes no item.
LEMMA TakeItemStep == ASSUME CommandInv, TakeItem PROVE CommandInv'
<1> DEFINE result == results[Len(results)]
<1>1. /\ command = "batch-predict" /\ verdict = "running" /\ handled < Len(input)
      /\ handled < Len(results) /\ handled' = handled + 1
      /\ UNCHANGED <<vars, fixedVars, givenVars>> /\ input' = input /\ analysis' = analysis
  BY DEF TakeItem, TakeResult, Looping, commandVars
<1>2. /\ InputCheck' = InputCheck /\ SeriesOf' = SeriesOf /\ Valid' = Valid
      /\ mode' = mode /\ command' = command /\ file' = file
      /\ InputsOf(command)' = InputsOf(command)
  BY <1>1, SameInput
<1>3. ClientsInv' /\ (Untouched' <=> Untouched) /\ results' = results
  BY <1>1, <1>2, SameClients DEF CommandInv
<1>4. /\ handled \in Nat /\ Len(results) = handled + 1 /\ items \in Seq(Nat) /\ Len(items) = handled
      /\ \A i \in 1..Len(items) : items[i] = ItemOf(results[i])
      /\ mode = "daemon" => \A i \in 1..Len(items) : results[i].outcome \notin NoLine
  BY <1>1 DEF CommandInv, LoopInv
<1>5. result \in CommandResult /\ ItemOf(result) \in Nat
  <2>1. result \in CommandResult
    BY <1>4 DEF CommandInv, ClientsInv, ResultsInv
  <2> QED
    BY <2>1 DEF CommandResult, ItemOf, Failed
<1>6. \A r : ItemOf(r)' = ItemOf(r)
  BY DEF ItemOf
<1>7. PICK message \in MessagesOf(result.outcome) :
        IF mode = "daemon" /\ result.outcome # "ok" /\ is_fatal_daemon_error(message)
        THEN verdict' = "lost" /\ UNCHANGED items
        ELSE /\ items' = Append(items, ItemOf(result))
             /\ verdict' = IF handled' = Len(input) THEN "complete" ELSE verdict
  BY DEF TakeItem, TakeResult
<1>8. PhaseInv'
  BY <1>1, <1>7, SamePhase DEF CommandInv
<1>9. CASE mode = "daemon" /\ result.outcome # "ok" /\ is_fatal_daemon_error(message)
  <2>1. verdict' = "lost" /\ items' = items /\ mode = "daemon"
    BY <1>7, <1>9
  <2>2. Lossy(result.outcome)
    BY <1>9, FatalFacts
  <2>3. LoopInv'
    BY <1>1, <1>2, <1>3, <1>4, <1>6, <2>1 DEF LoopInv
  <2>4. VerdictInv'
    BY <1>1, <1>2, <1>3, <1>4, <2>1, <2>2 DEF VerdictInv
  <2>5. InputInv'
    BY <1>1, <1>2, <1>3, <2>1 DEF CommandInv, InputInv
  <2> QED
    BY <1>1, <1>3, <1>8, <2>1, <2>3, <2>4, <2>5 DEF CommandInv, WindowsAreWhole, ExitTellsAnswer
<1>10. CASE ~(mode = "daemon" /\ result.outcome # "ok" /\ is_fatal_daemon_error(message))
  <2>1. /\ verdict' = IF handled + 1 = Len(input) THEN "complete" ELSE "running"
        /\ items' = Append(items, ItemOf(result))
    BY <1>1, <1>7, <1>10
  <2>2. /\ items' \in Seq(Nat) /\ Len(items') = handled + 1
        /\ items'[handled + 1] = ItemOf(result)
        /\ \A i \in 1..Len(items) : items'[i] = items[i]
    BY <1>4, <1>5, <2>1
  <2>3. mode = "daemon" => result.outcome \notin NoLine
    <3>1. "ok" \notin NoLine
      BY DEF NoLine
    <3> QED
      BY <1>10, <3>1, FatalFacts
  <2>4. \A i \in 1..Len(items') :
          /\ items'[i] = ItemOf(results[i])
          /\ mode = "daemon" => results[i].outcome \notin NoLine
    <3>1. \A i \in 1..Len(items') : i \in 1..Len(items) \/ i = handled + 1
      BY <1>4, <2>2
    <3> QED
      BY <1>4, <2>2, <2>3, <3>1
  <2>5. LoopInv'
    BY <1>1, <1>2, <1>3, <1>4, <1>6, <2>1, <2>2, <2>4 DEF LoopInv
  <2>6. VerdictInv'
    BY <1>1, <1>2, <1>3, <1>4, <2>1, <2>2 DEF VerdictInv
  <2>7. InputInv'
    BY <1>1, <1>2, <1>3, <2>1 DEF CommandInv, InputInv
  <2> QED
    BY <1>1, <1>3, <1>8, <2>1, <2>5, <2>6, <2>7 DEF CommandInv, WindowsAreWhole, ExitTellsAnswer
<1> QED
  BY <1>9, <1>10

\* The series of an input that has passed: at least one, one for the commands that take
\* one, each valid for the worker.
LEMMA ValidInput ==
  ASSUME InputInv, InputCheck = "valid"
  PROVE  /\ IsSequence(SeriesOf) /\ SeriesOf # <<>>
         /\ command # "batch-predict" => Len(SeriesOf) = 1
         /\ command = "analyze-series" => IsSequence(SeriesOf[1].items)
         /\ \A i \in DOMAIN SeriesOf : validate_numeric_list(SeriesOf[i]) = "valid"
<1>1. CASE command \in {"predict-series", "analyze-series"}
  <2>1. file \in SeriesFiles /\ load_series_input(file) = "valid" /\ SeriesOf = <<file.fields.series>>
    <3>1. InputCheck = FirstFault(<<validate_prediction_mode(mode), load_series_input(file)>>)
      BY <1>1 DEF InputCheck
    <3> QED
      BY <1>1, <3>1, TwoChecks DEF InputInv, InputsOf, SeriesOf
  <2>2. IsSequence(<<file.fields.series>>) /\ Len(<<file.fields.series>>) = 1
    BY DEF IsSequence
  <2> QED
    BY <1>1, <2>1, <2>2, SeriesFileFacts DEF IsSequence
<1>2. CASE command = "batch-predict"
  <2>1. /\ file \in BatchFiles /\ load_batch_input(file) = "valid"
        /\ SeriesOf = [i \in DOMAIN file.fields.series.items |-> file.fields.series.items[i].fields.values]
    <3>1. InputCheck = FirstFault(<<load_batch_input(file), validate_horizon(horizon), validate_prediction_mode(mode)>>)
      BY <1>2 DEF InputCheck
    <3> QED
      BY <1>2, <3>1, ThreeChecks DEF InputInv, InputsOf, SeriesOf
  <2> DEFINE list == file.fields.series.items
  <2>2. IsSequence(list) /\ list # <<>>
        /\ \A i \in DOMAIN list : validate_numeric_list(list[i].fields.values) = "valid"
    BY <2>1, BatchFileFacts
  <2> HIDE DEF list
  <2>3. /\ DOMAIN SeriesOf = 1..Len(list) /\ Len(list) \in Nat /\ DOMAIN list = 1..Len(list)
        /\ SeriesOf \in Seq({list[i].fields.values : i \in 1..Len(list)})
    <3>1. DOMAIN list = 1..Len(list) /\ Len(list) \in Nat
      BY <2>2 DEF IsSequence
    <3>2. SeriesOf = [i \in 1..Len(list) |-> list[i].fields.values]
      BY <2>1, <3>1 DEF list
    <3>3. DOMAIN SeriesOf = 1..Len(list)
      BY <3>2
    <3>4. SeriesOf \in [1..Len(list) -> {list[i].fields.values : i \in 1..Len(list)}]
      BY <3>2
    <3> QED
      BY <3>1, <3>3, <3>4
  <2>4. Len(SeriesOf) = Len(list)
    BY <2>3
  <2>5. Len(list) # 0
    BY <2>2, <2>3 DEF IsSequence
  <2> QED
    BY <1>2, <2>1, <2>2, <2>3, <2>4, <2>5 DEF IsSequence, list
<1>3. CASE command = "ml-predict"
  <2>1. file \in TypedSeries /\ parse_series(file) = "valid" /\ SeriesOf = <<file>>
    <3>1. InputCheck = FirstFault(<<parse_series(file), validate_horizon(horizon)>>)
      BY <1>3 DEF InputCheck
    <3> QED
      BY <1>3, <3>1, TwoChecks DEF InputInv, InputsOf, SeriesOf
  <2>2. IsSequence(<<file>>) /\ Len(<<file>>) = 1
    BY DEF IsSequence
  <2> QED
    BY <1>3, <2>1, <2>2, TypedFacts DEF IsSequence
<1> QED
  BY <1>1, <1>2, <1>3 DEF InputInv

\* A step of the command before there is a client, or that finds the horizon invalid.
LEMMA BeforeAsking ==
  ASSUME CommandInv, Load \/ Refuse \/ Crash \/ RefuseHorizon
  PROVE  CommandInv'
<1>1. /\ UNCHANGED <<vars, fixedVars, givenVars>> /\ handled' = handled /\ items' = items
      /\ analysis' = analysis
  BY DEF Load, Refuse, Crash, RefuseHorizon, commandVars
<1>2. /\ InputCheck' = InputCheck /\ SeriesOf' = SeriesOf /\ Valid' = Valid
      /\ mode' = mode /\ command' = command /\ file' = file
      /\ InputsOf(command)' = InputsOf(command) /\ horizon' = horizon /\ Fault' = Fault
  BY <1>1, SameInput
<1>3. ClientsInv' /\ (Untouched' <=> Untouched) /\ results' = results /\ started' = started
  BY <1>1, <1>2, SameClients DEF CommandInv, vars, startVars
<1>4. WindowsAreWhole'
  BY <1>1 DEF CommandInv, WindowsAreWhole
<1>10. PhaseInv'
  BY <1>1, SamePhase DEF CommandInv, Load, Refuse, Crash, RefuseHorizon, Prints, Looping
<1>5. \A r : ItemOf(r)' = ItemOf(r)
  BY DEF ItemOf
<1>6. items \in Seq(Nat)
  BY DEF CommandInv, LoopInv
<1>7. CASE Load
  <2>1. /\ verdict = "loading" /\ verdict' = "running" /\ InputCheck = "valid" /\ input' = SeriesOf
    BY <1>7 DEF Load
  <2>2. LoopInv'
    BY <1>1, <1>2, <1>3, <1>5, <2>1 DEF CommandInv, LoopInv
  <2>3. VerdictInv' /\ InputInv' /\ ExitTellsAnswer'
    BY <1>1, <1>2, <1>3, <2>1 DEF CommandInv, VerdictInv, InputInv, ExitTellsAnswer
  <2> QED
    BY <1>3, <1>4, <1>10, <2>2, <2>3 DEF CommandInv
<1>8. CASE Refuse \/ Crash
  <2>1. /\ verdict = "loading" /\ verdict' = "ended" /\ input' = input
        /\ \/ answer' = "validation_error" /\ exitcode' = 2 /\ InputCheck = "invalid"
           \/ answer' = "none" /\ exitcode' = 1 /\ InputCheck = "raises"
    BY <1>8 DEF Refuse, Crash, Prints
  <2>2. LoopInv'
    BY <1>1, <1>2, <1>3, <1>5, <2>1 DEF CommandInv, LoopInv
  <2>3. VerdictInv' /\ InputInv'
    BY <1>1, <1>2, <1>3, <2>1 DEF CommandInv, VerdictInv, InputInv
  <2>4. input' = <<>> /\ results' = <<>> /\ started' = 0
    BY <1>3, <2>1 DEF CommandInv, VerdictInv, Untouched
  <2>5. ExitTellsAnswer'
    BY <1>2, <2>1, <2>4 DEF ExitTellsAnswer, Fault
  <2> QED
    BY <1>3, <1>4, <1>10, <2>2, <2>3, <2>5 DEF CommandInv
<1>9. CASE RefuseHorizon
  <2>1. /\ verdict = "running" /\ verdict' = "refused" /\ input' = input
        /\ validate_horizon(horizon) = "invalid"
    BY <1>9 DEF RefuseHorizon, Looping
  <2>2. Untouched
    BY <2>1 DEF CommandInv, InputInv, Valid
  <2>3. items = <<>>
    BY <1>6, <2>1, <2>2 DEF CommandInv, LoopInv, Untouched
  <2>4. LoopInv'
    BY <1>1, <1>2, <1>3, <1>5, <2>1 DEF CommandInv, LoopInv
  <2>5. VerdictInv' /\ InputInv' /\ ExitTellsAnswer'
    BY <1>1, <1>2, <1>3, <2>1, <2>2, <2>3 DEF CommandInv, VerdictInv, InputInv, ExitTellsAnswer
  <2> QED
    BY <1>3, <1>4, <1>10, <2>4, <2>5 DEF CommandInv
<1> QED
  BY <1>7, <1>8, <1>9

\* Two lists joined are a list.
LEMMA Joined ==
  ASSUME NEW S, NEW T, NEW s \in Seq(S), NEW t \in Seq(T)
  PROVE  Len(s \o t) \in Nat
<1>1. s \in Seq(S \cup T) /\ t \in Seq(S \cup T)
  OBVIOUS
<1>2. s \o t \in Seq(S \cup T)
  BY <1>1
<1> QED
  BY <1>2

\* The windows of an analysis, whatever the forecast.
LEMMA AnalyzeStep ==
  ASSUME InputInv, verdict = "running", WindowsAreWhole, NEW result, Analyze(result)
  PROVE  WindowsAreWhole'
<1>1. CASE UNCHANGED analysis
  BY <1>1 DEF WindowsAreWhole
<1>2. CASE command = "analyze-series" /\ result.outcome = "ok"
  <2>1. PICK forecast \in Forecasts : analysis' \in analyze_combined_series(Values(input[1]) \o forecast)
    BY <1>2 DEF Analyze
  <2>2. input = SeriesOf /\ IsSequence(SeriesOf[1].items)
    BY <1>2, ValidInput DEF InputInv
  <2> DEFINE series == Values(input[1])
             all    == series \o forecast
             n      == Len(SeriesOf[1].items)
  <2>3. n \in Nat /\ series = [i \in 1..n |-> SeriesOf[1].items[i].value]
    BY <2>2 DEF IsSequence, Values
  <2>4. series \in Seq({SeriesOf[1].items[i].value : i \in 1..n}) /\ Len(series) = n
    <3> HIDE DEF series, n
    <3> QED
      BY <2>3
  <2>5. forecast \in Seq(Int)
    BY CommandAssumption
  <2>6. Len(all) \in Nat
    BY <2>4, <2>5, Joined
  <2> HIDE DEF all
  <2>7. /\ analysis'.points = Len(all)
        /\ analysis'.window = analysis_window(analysis'.points)
        /\ analysis'.candidates = Scored(analysis'.points, analysis'.window)
        /\ analysis'.candidates # {} => analysis'.top \in analysis'.candidates
    BY <2>1, <2>6, AnswerFacts DEF all
  <2> DEFINE Both(i) == Before(i, analysis'.window) \cup After(i, analysis'.window)
  <2>8. analysis'.points \in Nat /\ analysis'.window \in Nat /\ analysis'.window >= 2
    BY <2>6, <2>7, WindowFits
  <2>9. /\ analysis'.candidates = {} <=> analysis'.points < 4
        /\ \A i \in analysis'.candidates : Both(i) \subseteq 0..(analysis'.points - 1)
        /\ analysis'.candidates # {} =>
             0..(analysis'.points - 1) \subseteq UNION {Both(i) : i \in analysis'.candidates}
    BY <2>7, <2>8, WindowsCover
  <2> QED
    BY <2>7, <2>8, <2>9 DEF WindowsAreWhole
<1> QED
  BY <1>1, <1>2 DEF Analyze

\* A single series is answered, refused or crashed on by its one result.
LEMMA TakeSingleStep == ASSUME CommandInv, TakeSingle PROVE CommandInv'
<1>1. /\ command # "batch-predict" /\ verdict = "running" /\ handled < Len(results)
      /\ handled' = 1 /\ items' = <<ItemOf(results[1])>>
      /\ UNCHANGED <<vars, fixedVars, givenVars>> /\ input' = input
  BY DEF TakeSingle, Looping
<1>2. /\ InputCheck' = InputCheck /\ SeriesOf' = SeriesOf /\ Valid' = Valid
      /\ mode' = mode /\ command' = command /\ file' = file
      /\ InputsOf(command)' = InputsOf(command)
  BY <1>1, SameInput
<1>3. ClientsInv' /\ (Untouched' <=> Untouched) /\ results' = results
  BY <1>1, <1>2, SameClients DEF CommandInv
<1>4. Len(results) = 1
  BY <1>1 DEF CommandInv, LoopInv, VerdictInv
<1>5. items' \in Seq(Nat) /\ Len(items') = 1 /\ items'[1] = ItemOf(results[1])
  <2>1. results[1] \in CommandResult
    BY <1>4 DEF CommandInv, ClientsInv, ResultsInv
  <2>2. ItemOf(results[1]) \in Nat
    BY <2>1 DEF CommandResult, ItemOf, Failed
  <2> QED
    BY <1>1, <2>2
<1>6. \/ verdict' = "answered" /\ results[1].outcome # "raised"
      \/ verdict' = "crashed" /\ results[1].outcome = "raised" /\ command = "ml-predict"
      \/ verdict' = "refused" /\ results[1].outcome = "raised" /\ command # "ml-predict"
  <2>1. CASE results[1].outcome # "raised"
    BY <2>1 DEF TakeSingle
  <2>2. CASE results[1].outcome = "raised" /\ command = "ml-predict"
    BY <2>2 DEF TakeSingle
  <2>3. CASE results[1].outcome = "raised" /\ command # "ml-predict"
    BY <2>3 DEF TakeSingle
  <2> QED
    BY <2>1, <2>2, <2>3
<1>7. LoopInv'
  <2>1. ItemOf(results[1])' = ItemOf(results[1])
    BY <1>3 DEF ItemOf
  <2>2. \A i \in 1..Len(items') : i = 1
    BY <1>5
  <2> QED
    BY <1>1, <1>2, <1>3, <1>4, <1>5, <1>6, <2>1, <2>2 DEF LoopInv, ItemOf
<1>8. VerdictInv'
  BY <1>1, <1>2, <1>3, <1>4, <1>5, <1>6 DEF VerdictInv
<1>9. InputInv'
  BY <1>1, <1>2, <1>3, <1>6 DEF CommandInv, InputInv
<1>10. WindowsAreWhole'
  <2>1. Analyze(results[1])
    BY DEF TakeSingle
  <2> QED
    BY <1>1, <2>1, AnalyzeStep DEF CommandInv
<1>11. ExitTellsAnswer'
  BY <1>6 DEF ExitTellsAnswer
<1>12. PhaseInv'
  BY <1>1, <1>6, SamePhase DEF CommandInv
<1> QED
  BY <1>3, <1>7, <1>8, <1>9, <1>10, <1>11, <1>12 DEF CommandInv

\* When every series has its item, no item is a failure exactly if each is its series.
LEMMA AllForecastMeans ==
  ASSUME CommandInv, IsSequence(input), Len(items) = Len(input)
  PROVE  AllForecast <=> items = [i \in DOMAIN input |-> i]
<1> DEFINE n == Len(input)
<1>1. n \in Nat /\ DOMAIN input = 1..n /\ DOMAIN items = 1..n /\ items = [i \in 1..n |-> items[i]]
  BY DEF IsSequence, CommandInv, LoopInv
<1>2. ASSUME NEW i \in 1..n PROVE items[i] \in {Failed, i}
  <2>1. items[i] = ItemOf(results[i]) /\ i \in 1..Len(results)
    BY <1>1, <1>2 DEF CommandInv, LoopInv
  <2>2. results[i].outcome = "ok" => results[i].call = i
    BY <2>1 DEF CommandInv, ClientsInv, ResultsInv
  <2> QED
    BY <2>1, <2>2 DEF ItemOf
<1> HIDE DEF n
<1>3. ASSUME AllForecast PROVE items = [i \in DOMAIN input |-> i]
  <2>1. \A i \in 1..n : items[i] = i
    BY <1>1, <1>2, <1>3 DEF AllForecast
  <2> QED
    BY <1>1, <2>1
<1>4. ASSUME items = [i \in DOMAIN input |-> i] PROVE AllForecast
  BY <1>1, <1>4 DEF AllForecast, Failed
<1> QED
  BY <1>3, <1>4

\* What the invariant says when there is only the answer to print.
LEMMA DecidedFacts ==
  ASSUME CommandInv, Decided
  PROVE  /\ input # <<>> /\ Fault \in {"valid", "invalid"}
         /\ Fault = "invalid" => Untouched /\ verdict = "refused"
         /\ Fault = "valid" =>
              /\ results # <<>>
              /\ verdict \in {"complete", "answered"} =>
                   (AllForecast <=> items = [i \in DOMAIN input |-> i])
              /\ verdict \in {"lost", "refused", "crashed"} => items # [i \in DOMAIN input |-> i]
<1>1. /\ input = SeriesOf /\ IsSequence(input) /\ input # <<>> /\ InputCheck = "valid"
      /\ command # "batch-predict" => Len(input) = 1
  BY ValidInput DEF CommandInv, InputInv, Decided
<1>2. Fault = validate_horizon(horizon) /\ Fault \in {"valid", "invalid"}
  BY <1>1 DEF Fault, validate_horizon
<1>3. Len(input) \in Nat \ {0} /\ DOMAIN input = 1..Len(input)
  BY <1>1 DEF IsSequence
<1>4. Fault = "invalid" => Untouched
  BY <1>2 DEF CommandInv, InputInv, Valid
<1>5. verdict # "refused" => results # <<>>
  <2>1. verdict = "complete" => Len(results) = Len(input)
    BY DEF CommandInv, VerdictInv
  <2>2. verdict = "lost" => Len(results) = Len(items) + 1 /\ Len(items) \in Nat
    BY DEF CommandInv, VerdictInv, LoopInv
  <2>3. verdict \in {"answered", "crashed"} => Len(results) = 1
    BY DEF CommandInv, VerdictInv
  <2> QED
    BY <1>3, <2>1, <2>2, <2>3 DEF Decided
<1>6. Fault = "valid" /\ verdict \in {"refused", "crashed"} =>
        /\ command # "batch-predict" /\ Len(items) = 1 /\ Len(results) = 1 /\ results[1].outcome = "raised"
  <2>1. CASE verdict = "refused"
    BY <1>2, <2>1 DEF CommandInv, VerdictInv
  <2>2. CASE verdict = "crashed"
    BY <2>2 DEF CommandInv, VerdictInv
  <2> QED
    BY <2>1, <2>2
<1>7. Len(items) = Len(input) => (AllForecast <=> items = [i \in DOMAIN input |-> i])
  BY <1>1, AllForecastMeans
<1>8. Len(items) # Len(input) => items # [i \in DOMAIN input |-> i]
  <2>1. [i \in DOMAIN input |-> i] \in Seq(Nat) /\ Len([i \in DOMAIN input |-> i]) = Len(input)
    BY <1>3
  <2> QED
    BY <2>1
<1>9. verdict \in {"complete", "answered"} => Len(items) = Len(input)
  BY <1>1 DEF CommandInv, VerdictInv
<1>10. verdict = "lost" => Len(items) # Len(input)
  BY <1>3 DEF CommandInv, VerdictInv, LoopInv
<1>11. ASSUME Fault = "valid", verdict \in {"refused", "crashed"}
       PROVE  items # [i \in DOMAIN input |-> i]
  <2>1. Len(items) = 1 /\ items[1] = ItemOf(results[1]) /\ results[1].outcome = "raised"
    BY SMTT(30), <1>6, <1>11 DEF CommandInv, LoopInv
  <2>2. items[1] = Failed /\ 1 \in DOMAIN items
    <3>1. items \in Seq(Nat)
      BY DEF CommandInv, LoopInv
    <3> QED
      BY <2>1, <3>1 DEF ItemOf
  <2>3. ~AllForecast
    BY <2>2 DEF AllForecast
  <2> QED
    BY <1>1, <1>6, <1>7, <1>11, <2>1, <2>3
<1>12. Fault = "valid" /\ verdict \in {"refused", "crashed"} => results # <<>>
  BY <1>6
<1> QED
  BY <1>1, <1>2, <1>4, <1>5, <1>7, <1>8, <1>9, <1>10, <1>11, <1>12 DEF Untouched, Decided

\* The end of the command, whatever it prints: all but what is printed stays true.
LEMMA EndStep ==
  ASSUME CommandInv, Decided, verdict' = "ended", UNCHANGED <<vars, fixedVars, givenVars>>,
         UNCHANGED <<input, handled, items, analysis>>
  PROVE  /\ ClientsInv' /\ LoopInv' /\ VerdictInv' /\ InputInv' /\ PhaseInv' /\ WindowsAreWhole'
         /\ Fault' = Fault /\ input' = input /\ items' = items
         /\ results' = results /\ started' = started /\ phase' = phase
<1>1. /\ InputCheck' = InputCheck /\ SeriesOf' = SeriesOf /\ Valid' = Valid
      /\ mode' = mode /\ command' = command /\ file' = file
      /\ InputsOf(command)' = InputsOf(command) /\ Fault' = Fault
  BY SameInput
<1>2. ClientsInv' /\ (Untouched' <=> Untouched) /\ results' = results /\ started' = started
      /\ phase' = phase
  BY <1>1, SameClients DEF CommandInv, vars, startVars, clientVars
<1>3. \A r : ItemOf(r)' = ItemOf(r)
  BY DEF ItemOf
<1>4. LoopInv'
  BY <1>1, <1>2, <1>3 DEF CommandInv, LoopInv
<1>5. VerdictInv' /\ InputInv' /\ WindowsAreWhole'
  BY <1>1, <1>2 DEF CommandInv, VerdictInv, InputInv, WindowsAreWhole, Decided
<1>6. PhaseInv'
  BY SamePhase DEF CommandInv
<1> QED
  BY <1>1, <1>2, <1>4, <1>5, <1>6

LEMMA PrintStep == ASSUME CommandInv, PrintAnswer PROVE CommandInv'
<1>1. /\ Decided /\ Answers /\ UNCHANGED <<vars, fixedVars, givenVars>>
      /\ UNCHANGED <<input, handled, items, analysis>>
      /\ MustClose => phase = "closed"
  BY DEF PrintAnswer
<1>2. verdict' = "ended"
  BY <1>1 DEF Answers, Prints, Decided
<1>3. /\ ClientsInv' /\ LoopInv' /\ VerdictInv' /\ InputInv' /\ PhaseInv' /\ WindowsAreWhole'
      /\ Fault' = Fault /\ input' = input /\ items' = items
      /\ results' = results /\ started' = started /\ phase' = phase
  BY <1>1, <1>2, EndStep
<1>4. phase # "raised"
  BY <1>1 DEF CommandInv, PhaseInv
<1>5. ExitTellsAnswer'
  <2>1. CASE Fault = "invalid"
    <3>1. Untouched /\ verdict = "refused"
      BY <1>1, <2>1, DecidedFacts
    <3>2. answer' = "validation_error" /\ exitcode' = 2
      BY <1>1, <3>1 DEF Answers, Prints
    <3> QED
      BY <1>3, <2>1, <3>1, <3>2 DEF ExitTellsAnswer, Untouched
  <2>2. CASE Fault = "valid"
    <3>1. /\ input # <<>> /\ results # <<>>
          /\ verdict \in {"complete", "answered"} =>
               (AllForecast <=> items = [i \in DOMAIN input |-> i])
          /\ verdict \in {"lost", "refused", "crashed"} => items # [i \in DOMAIN input |-> i]
      BY <1>1, <2>2, DecidedFacts
    <3>2. \/ verdict \in {"complete", "answered"} /\ AllForecast /\ answer' = "ok" /\ exitcode' = 0
          \/ verdict \in {"complete", "answered"} /\ ~AllForecast /\ answer' # "ok" /\ exitcode' = 1
          \/ verdict \in {"lost", "refused", "crashed"} /\ answer' # "ok" /\ exitcode' \in {1, 2}
      BY <1>1 DEF Answers, Prints, Decided
    <3>3. exitcode' = 0 <=> answer' = "ok"
      BY <3>2
    <3>4. exitcode' = 0 <=> items = [i \in DOMAIN input |-> i]
      BY <3>1, <3>2
    <3> QED
      BY <1>3, <1>4, <2>2, <3>1, <3>3, <3>4 DEF ExitTellsAnswer
  <2> QED
    BY <1>1, <2>1, <2>2, DecidedFacts
<1> QED
  BY <1>3, <1>5 DEF CommandInv

\* A close that raises has had a process to close, so something was asked of an input
\* without fault.
LEMMA TracebackStep == ASSUME CommandInv, PrintTraceback PROVE CommandInv'
<1>1. /\ Decided /\ phase = "raised" /\ UNCHANGED <<vars, fixedVars, givenVars>>
      /\ UNCHANGED <<input, handled, items, analysis>>
      /\ verdict' = "ended" /\ answer' # "ok" /\ exitcode' = 1
  BY DEF PrintTraceback, Prints
<1>2. /\ ClientsInv' /\ LoopInv' /\ VerdictInv' /\ InputInv' /\ PhaseInv' /\ WindowsAreWhole'
      /\ Fault' = Fault /\ input' = input /\ items' = items
      /\ results' = results /\ started' = started /\ phase' = phase
  BY <1>1, EndStep
<1>3. started # 0
  BY <1>1 DEF CommandInv, PhaseInv
<1>4. Fault = "valid" /\ input # <<>> /\ results # <<>>
  BY <1>1, <1>3, DecidedFacts DEF Untouched
<1>5. ExitTellsAnswer'
  BY <1>1, <1>2, <1>4 DEF ExitTellsAnswer
<1> QED
  BY <1>2, <1>5 DEF CommandInv

LEMMA UnchangedStep == ASSUME CommandInv, UNCHANGED allVars PROVE CommandInv'
<1>1. UNCHANGED <<vars, batchVars, commandVars>> /\ mode' = mode
  BY DEF allVars, batchVars, fixedVars
<1>2. ClientsInv' /\ (Untouched' <=> Untouched) /\ results' = results /\ started' = started
  BY <1>1, SameClients DEF CommandInv, vars, startVars
<1>3. phase' = phase /\ PhaseInv'
  BY <1>1, SamePhase DEF CommandInv, vars, clientVars, batchVars, loopVars
<1> QED
  BY <1>1, <1>2, <1>3, SameCommand DEF CommandInv

\* The invariant of the commands is inductive: with any client, any input and any bounds.
THEOREM CommandInvariance == CommandSpec => []CommandInv
<1>1. ASSUME CommandInv, [CommandNext]_allVars PROVE CommandInv'
  <2>1. CASE Load \/ Refuse \/ Crash \/ RefuseHorizon
    BY <1>1, <2>1, BeforeAsking
  <2>2. CASE Ask
    BY <1>1, <2>2, AskStep
  <2>3. CASE TakeItem
    BY <1>1, <2>3, TakeItemStep
  <2>4. CASE TakeSingle
    BY <1>1, <2>4, TakeSingleStep
  <2>5. CASE Close
    BY <1>1, <2>5, CloseStep
  <2>6. CASE PrintAnswer \/ PrintTraceback
    BY <1>1, <2>6, PrintStep, TracebackStep
  <2>7. CASE Others
    BY <1>1, <2>7, OthersStep
  <2>8. CASE UNCHANGED allVars
    BY <1>1, <2>8, UnchangedStep
  <2> QED
    BY <1>1, <2>1, <2>2, <2>3, <2>4, <2>5, <2>6, <2>7, <2>8 DEF CommandNext, Main, Ended
<1> QED
  BY <1>1, CommandStart, PTL DEF CommandSpec

-----------------------------------------------------------------------------
\* A series reported as forecast carries its own forecast, in its own place.
LEMMA InvMatches == CommandInv => ItemsMatch
<1> SUFFICES ASSUME CommandInv, NEW i \in 1..Len(items), items[i] # Failed
             PROVE  items[i] = i /\ results[i].from = Worker
  BY DEF ItemsMatch
<1>1. items[i] = ItemOf(results[i]) /\ i \in 1..Len(results)
  BY DEF CommandInv, LoopInv
<1> QED
  BY <1>1 DEF CommandInv, ClientsInv, ResultsInv, ItemOf

\* The phrases decide as they are meant to.
LEMMA InvLoses == CommandInv => LossEndsTheBatch
<1> SUFFICES ASSUME CommandInv PROVE LossEndsTheBatch
  OBVIOUS
<1>1. ASSUME verdict \in {"running", "complete", "lost"}, mode = "daemon"
      PROVE  \A i \in 1..Len(items) : results[i].outcome \notin NoLine
  <2>1. command = "batch-predict" \/ Len(items) = 0
    BY <1>1 DEF CommandInv, VerdictInv, LoopInv
  <2> QED
    BY <1>1, <2>1 DEF CommandInv, LoopInv
<1>2. ASSUME verdict = "running", mode = "daemon", results # <<>>, Len(results) = handled
      PROVE  processes[Worker] # NoProc
  <2>1. Len(items) = handled /\ Len(results) \in Nat \ {0}
    BY <1>2 DEF CommandInv, LoopInv, ClientsInv, ResultsInv
  <2>2. results[Len(results)].outcome \notin NoLine
    BY <1>1, <1>2, <2>1
  <2> QED
    BY <1>2, <2>2 DEF CommandInv, PhaseInv
<1>3. verdict = "complete" => Len(items) = Len(input) /\ Len(results) = Len(input)
  BY DEF CommandInv, VerdictInv
<1>4. verdict = "lost" =>
        mode = "daemon" /\ Len(results) = Len(items) + 1 /\ Lossy(results[Len(results)].outcome)
  BY DEF CommandInv, VerdictInv
<1> QED
  BY <1>1, <1>2, <1>3, <1>4 DEF LossEndsTheBatch, Lossy

\* What is asked has passed the worker's own checks before.
LEMMA InvAsksValid == CommandInv => RequestsAreValid
<1> SUFFICES ASSUME CommandInv, Len(results) > 0 \/ ~At("idle"), NEW i \in DOMAIN input
             PROVE  parse_prediction_request([series |-> input[i], horizon |-> horizon]) = "valid"
  BY DEF RequestsAreValid
<1>1. ~Untouched
  BY DEF Untouched, At, Idle
<1>2. InputCheck = "valid" /\ validate_horizon(horizon) = "valid" /\ input = SeriesOf
  BY <1>1 DEF CommandInv, InputInv, Valid
<1>3. validate_numeric_list(input[i]) = "valid"
  BY <1>2, ValidInput DEF CommandInv
<1> DEFINE checks == <<validate_numeric_list(input[i]), validate_horizon(horizon)>>
<1>4. \A j \in DOMAIN checks : checks[j] = "valid"
  BY <1>2, <1>3
<1> HIDE DEF checks
<1>5. FirstFault(checks) = "valid"
  BY <1>4, AllPass
<1> QED
  BY <1>5 DEF parse_prediction_request, checks

\* Of every command: each series that is forecast carries its own forecast.
THEOREM ItemsAlwaysMatch == CommandSpec => []ItemsMatch
BY CommandInvariance, InvMatches, PTL

\* The phrases of is_fatal_daemon_error end a batch at every request its daemon brings no
\* line for, and otherwise only at an error of the worker that reads like one.
THEOREM LossAlwaysEndsTheBatch == CommandSpec => []LossEndsTheBatch
BY CommandInvariance, InvLoses, PTL

\* No worker is ever sent what its own validation refuses.
THEOREM OnlyValidIsAsked == CommandSpec => []RequestsAreValid
BY CommandInvariance, InvAsksValid, PTL

\* The exit code and the answer tell what happened.
THEOREM AnswersAreTold == CommandSpec => []ExitTellsAnswer
<1>1. CommandInv => ExitTellsAnswer
  BY DEF CommandInv
<1> QED
  BY <1>1, CommandInvariance, PTL

\* The break analysis compares whole windows of two values or more, and together they look
\* at every value of the series and its forecast.
THEOREM WindowsAlwaysWhole == CommandSpec => []WindowsAreWhole
<1>1. CommandInv => WindowsAreWhole
  BY DEF CommandInv
<1> QED
  BY <1>1, CommandInvariance, PTL

-----------------------------------------------------------------------------
\* In daemon mode a step of a command is a step of the warm client, or leaves it alone.
LEMMA ClientMoves ==
  ASSUME mode = "daemon", [CommandNext]_allVars
  PROVE  mode' = mode /\ [Next]_vars
<1>1. CASE Load \/ Refuse \/ Crash \/ RefuseHorizon \/ TakeSingle \/ PrintAnswer \/ PrintTraceback
  BY <1>1 DEF Load, Refuse, Crash, RefuseHorizon, TakeSingle, PrintAnswer, PrintTraceback, fixedVars
<1>2. CASE TakeItem
  BY <1>2 DEF TakeItem, TakeResult, fixedVars
<1>3. CASE Ask
  <2>1. PredictWarm
    BY <1>3 DEF Ask, PredictCold
  <2> QED
    BY <2>1, WorkerAssumption DEF PredictWarm, Next, Predict, batchVars, fixedVars
<1>4. CASE Close
  BY <1>4 DEF Close, CloseClient, Next, Stop, batchVars, fixedVars
<1>5. CASE Others
  BY <1>5 DEF Others, Next, batchVars, fixedVars
<1>6. CASE UNCHANGED allVars
  BY <1>6 DEF allVars, batchVars, fixedVars
<1> QED
  BY <1>1, <1>2, <1>3, <1>4, <1>5, <1>6 DEF CommandNext, Main, Ended

\* What a command in daemon mode sees of its client, from its first request to the end of
\* the finally block, is the abstract service: one reply for each question, in order, each
\* success the asked worker's answer to that question, and nothing asked after the close.
THEOREM CommandsSeeTheService == CommandSpec /\ mode = "daemon" => ImplementsService
<1>1. mode = "daemon" /\ [CommandNext]_allVars => (mode = "daemon")'
  BY ClientMoves
<1>2. mode = "daemon" /\ CommandInv /\ [CommandNext]_allVars => [Service!Next]_(Service!vars)
  BY ClientMoves, ServiceStep DEF CommandInv, ClientsInv, WarmInv
<1>3. CommandInit => Service!Init
  BY ServiceInit DEF CommandInit
<1> QED
  BY <1>1, <1>2, <1>3, CommandInvariance, PTL DEF CommandSpec, ImplementsService, Service!Spec
=============================================================================
