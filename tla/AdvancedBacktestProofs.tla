--------------------------- MODULE AdvancedBacktestProofs ---------------------------
(***************************************************************************)
(* Proofs about AdvancedBacktest, for any series with any gaps, any windows, horizons  *)
(* and limits and any optional forecasters, whichever of them fail, hang or raise and   *)
(* wherever the process dies.  The loop over files, cutoffs and forecasters is an order  *)
(* of turns (Passed); the two properties of the rows hold because whatever a turn        *)
(* should have left behind is there once the turn is past.                          *)
(***************************************************************************)
EXTENDS AdvancedBacktest, WellFoundedInduction, TLAPS

\* The turn of the i-th forecaster at the cutoff c of the file f is over.
Passed(f, c, i) ==
  \/ f < file
  \/ f = file /\ c < cutoff
  \/ f = file /\ c = cutoff /\ i < turn

\* A forecaster has its turn at a cutoff of a file that is there; the one a worker runs
\* for has neither failed its smoke test nor been disabled.
TurnInv ==
  /\ phase = "probing" =>
       file = 1 /\ cutoff = 0 /\ rows = {} /\ turn \in Len(Baselines) + 1..Len(Forecasters)
  /\ phase \in {"evaluating", "waiting"} /\ turn <= Len(Forecasters) =>
       file \in DOMAIN normalized /\ cutoff \in Cutoffs(Series)
  /\ phase = "waiting" => turn \in Len(Baselines) + 1..Len(Forecasters) /\ Runs
  /\ phase \in {"writing", "done"} => file > Len(normalized)

\* A baseline has its rows at every cutoff passed that it can be fitted at, and only those
\* of the plain study.
BaselineInv ==
  /\ \A r \in rows : r.model \in ToSet(Baselines) => r \in PlainRows
  /\ \A i \in 1..Len(Baselines) : \A f \in DOMAIN normalized : \A c \in Cutoffs(normalized[f]) :
       Passed(f, c, i) /\ Fits(Forecasters[i], normalized[f], c) =>
         ErrorRows(Forecasters[i], f, c) \subseteq rows

\* An optional forecaster that can still be run has a row at every cutoff passed.
OptionalInv ==
  \A i \in Len(Baselines) + 1..Len(Forecasters) : Forecasters[i] \in available \ disabled =>
    \A f \in DOMAIN normalized : \A c \in Cutoffs(normalized[f]) : Passed(f, c, i) =>
      \E q \in rows : q.model = Forecasters[i] /\ q.file = f /\ q.cutoff = c

FolderInv == torn => written < Len(OutputFiles)

IInv ==
  /\ TypeOK
  /\ TurnInv
  /\ BaselineInv
  /\ OptionalInv
  /\ OptionalRowsAreAPrefix
  /\ FolderInv

-----------------------------------------------------------------------------
\* A set of years that is not empty has a first one.
LEMMA FirstYear ==
  ASSUME NEW S, S \subseteq Nat, S # {}
  PROVE  Min(S) \in S /\ \A y \in S : Min(S) <= y
<1>1. IsWellFoundedOn(OpToRel(<, Nat), Nat)
  BY NatLessThanWellFounded
<1>2. PICK x \in S : \A y \in S : ~(<<y, x>> \in OpToRel(<, Nat))
  BY <1>1, WFMin
<1>3. ASSUME NEW y \in S PROVE x <= y
  <2>1. ~(y < x)
    BY <1>2, <1>3 DEF OpToRel
  <2> QED
    BY <2>1
<1> QED
  BY <1>3 DEF Min

\* What the proofs use of the parameters.
LEMMA ParametersAreNumbers ==
  Years \subseteq Nat \ {0} /\ TrainWindow \in Nat \ {0} /\ Horizon \in Nat \ {0}
BY BacktestAssumption

\* The elements of two sequences put together.
LEMMA Concatenation ==
  ASSUME NEW S, NEW s \in Seq(S), NEW t \in Seq(S)
  PROVE  /\ Len(s \o t) = Len(s) + Len(t)
         /\ DOMAIN (s \o t) = 1..(Len(s) + Len(t))
         /\ \A i \in 1..Len(s) : (s \o t)[i] = s[i]
         /\ \A i \in Len(s) + 1..Len(s) + Len(t) : (s \o t)[i] = t[i - Len(s)]
OBVIOUS

\* The elements of a sequence, whatever larger set they are taken from.
LEMMA ElementsOf ==
  ASSUME NEW S, NEW s \in Seq(S), NEW T, S \subseteq T
  PROVE  s \in Seq(T) /\ Len(s) \in Nat /\ DOMAIN s = 1..Len(s) /\ \A i \in 1..Len(s) : s[i] \in ToSet(s)
BY DEF ToSet

\* The baselines come first, the optional forecasters after them.
LEMMA ForecasterOrder ==
  /\ Len(Baselines) = 3
  /\ Len(Forecasters) \in Nat /\ Len(Forecasters) > 3
  /\ \A i \in 1..3 : Forecasters[i] \in ToSet(Baselines)
  /\ \A i \in 4..Len(Forecasters) : Forecasters[i] \in ToSet(Optional)
  /\ \A i \in 1..Len(Forecasters) : Forecasters[i] \in ToSet(Forecasters)
  /\ \A m \in ToSet(Baselines) : \E i \in 1..3 : m = Forecasters[i]
<1> DEFINE N == {"naive_last_value", "linear_trend", "exponential_trend"}
           S == STRING \cup N
<1>1. Optional \in Seq(STRING) /\ Optional # <<>>
  BY BacktestAssumption
<1>2. Baselines \in Seq(N) /\ Len(Baselines) = 3
  BY DEF Baselines
<1> HIDE DEF N
<1>3. /\ Optional \in Seq(S) /\ Len(Optional) \in Nat
      /\ \A i \in 1..Len(Optional) : Optional[i] \in ToSet(Optional)
  <2>1. STRING \subseteq S
    OBVIOUS
  <2> QED
    BY <1>1, <2>1, ElementsOf, Zenon
<1>4. /\ Baselines \in Seq(S) /\ DOMAIN Baselines = 1..Len(Baselines)
      /\ \A i \in 1..Len(Baselines) : Baselines[i] \in ToSet(Baselines)
  <2>1. N \subseteq S
    OBVIOUS
  <2> QED
    BY <1>2, <2>1, ElementsOf, Zenon
<1>5. Len(Optional) # 0
  BY <1>1
<1> HIDE DEF S
<1>6. /\ Len(Forecasters) = Len(Baselines) + Len(Optional)
      /\ DOMAIN Forecasters = 1..(Len(Baselines) + Len(Optional))
      /\ \A i \in 1..Len(Baselines) : Forecasters[i] = Baselines[i]
      /\ \A i \in Len(Baselines) + 1..Len(Baselines) + Len(Optional) :
           Forecasters[i] = Optional[i - Len(Baselines)]
  BY <1>3, <1>4, Concatenation, Zenon DEF Forecasters
<1>7. Len(Forecasters) \in Nat /\ Len(Forecasters) > 3 /\ DOMAIN Forecasters = 1..Len(Forecasters)
  BY <1>2, <1>3, <1>5, <1>6
<1>8. \A i \in 1..3 : Forecasters[i] = Baselines[i] /\ Baselines[i] \in ToSet(Baselines)
  BY <1>2, <1>4, <1>6
<1>9. \A i \in 4..Len(Forecasters) : Forecasters[i] \in ToSet(Optional)
  <2>1. ASSUME NEW i \in 4..Len(Forecasters)
        PROVE  Forecasters[i] = Optional[i - 3] /\ i - 3 \in 1..Len(Optional)
    BY <1>2, <1>3, <1>6
  <2> QED
    BY <1>3, <2>1
<1>10. \A i \in 1..Len(Forecasters) : Forecasters[i] \in ToSet(Forecasters)
  BY <1>7, Zenon DEF ToSet
<1>11. \A m \in ToSet(Baselines) : \E i \in 1..3 : m = Baselines[i]
  BY <1>2, <1>4 DEF ToSet
<1> QED
  BY <1>2, <1>7, <1>8, <1>9, <1>10, <1>11

\* No optional forecaster is a baseline.
LEMMA OptionalApart ==
  \A m \in ToSet(Optional) : m \notin ToSet(Baselines)
BY BacktestAssumption

\* A cutoff is a year of the series, with a year to predict.
LEMMA CutoffIsYear ==
  ASSUME NEW series \in [Years -> {"absent", "positive", "nonpositive"}], NEW c \in Cutoffs(series)
  PROVE  c \in Years /\ c \in Nat /\ c > 0 /\ TargetYears(series, c) # {}
<1>1. TrainYears(c) \subseteq Observed(series) /\ TargetYears(series, c) # {} /\ Observed(series) # {}
  BY DEF Cutoffs
<1>2. c \in Int
  BY DEF Cutoffs
<1>3. c \in TrainYears(c)
  BY <1>2, ParametersAreNumbers DEF TrainYears
<1>4. c \in Years
  BY <1>1, <1>3 DEF Observed
<1>5. c \in Nat /\ c > 0
  BY <1>4, ParametersAreNumbers
<1> QED
  BY <1>1, <1>4, <1>5

\* A forecast makes a row for each year to predict, with the value predicted for that year.
LEMMA RowsOfForecast ==
  ASSUME NEW m, NEW f, NEW c \in Nat
  PROVE  ErrorRows(m, f, c) =
           {[model |-> m, file |-> f, cutoff |-> c, target |-> t, predicted |-> t] :
              t \in TargetYears(normalized[f], c)}
<1>1. \A t \in TargetYears(normalized[f], c) :
        t - c \in {k \in 1..Horizon : c + k \in TargetYears(normalized[f], c)} /\ c + (t - c) = t
  BY ParametersAreNumbers DEF TargetYears
<1> QED
  BY <1>1 DEF ErrorRows

\* The rows of the plain study, one by one.
LEMMA PlainRow ==
  ASSUME NEW r
  PROVE  r \in PlainRows <=>
           \E f \in DOMAIN normalized : \E c \in Cutoffs(normalized[f]) :
             \E m \in ToSet(Baselines) : \E t \in TargetYears(normalized[f], c) :
               /\ Fits(m, normalized[f], c)
               /\ r = [model |-> m, file |-> f, cutoff |-> c, target |-> t, predicted |-> t]
BY DEF PlainRows

\* The series are functions on the years.
LEMMA SeriesAreTyped ==
  ASSUME TypeOK
  PROVE  /\ Len(normalized) \in Nat /\ DOMAIN normalized = 1..Len(normalized)
         /\ \A f \in DOMAIN normalized : normalized[f] \in [Years -> {"absent", "positive", "nonpositive"}]
<1>1. normalized \in Seq([Years -> {"absent", "positive", "nonpositive"}])
  BY BacktestAssumption DEF TypeOK
<1> QED
  BY <1>1

\* What a turn adds to the rows: rows of its own, one at least, and for a baseline rows
\* of the plain study.
LEMMA RowsOfTurn ==
  ASSUME TypeOK, NEW m \in ToSet(Forecasters), NEW f \in DOMAIN normalized,
         NEW c \in Cutoffs(normalized[f])
  PROVE  /\ ErrorRows(m, f, c) \subseteq
              [model : ToSet(Forecasters), file : DOMAIN normalized, cutoff : Years,
               target : Years, predicted : Years]
         /\ \A r \in ErrorRows(m, f, c) : r.model = m /\ r.file = f /\ r.cutoff = c
         /\ \E r \in ErrorRows(m, f, c) : r.model = m /\ r.file = f /\ r.cutoff = c
         /\ m \in ToSet(Baselines) /\ Fits(m, normalized[f], c) => ErrorRows(m, f, c) \subseteq PlainRows
<1>1. c \in Years /\ c \in Nat /\ TargetYears(normalized[f], c) # {}
  BY SeriesAreTyped, CutoffIsYear
<1>2. ErrorRows(m, f, c) =
        {[model |-> m, file |-> f, cutoff |-> c, target |-> t, predicted |-> t] :
           t \in TargetYears(normalized[f], c)}
  BY <1>1, RowsOfForecast
<1>3. TargetYears(normalized[f], c) \subseteq Years
  BY DEF TargetYears, Observed
<1>4. ASSUME m \in ToSet(Baselines), Fits(m, normalized[f], c), NEW r \in ErrorRows(m, f, c)
      PROVE  r \in PlainRows
  BY <1>2, <1>4, PlainRow
<1>5. \E r \in ErrorRows(m, f, c) : r.model = m /\ r.file = f /\ r.cutoff = c
  <2>1. PICK t : t \in TargetYears(normalized[f], c)
    BY <1>1
  <2>2. [model |-> m, file |-> f, cutoff |-> c, target |-> t, predicted |-> t] \in ErrorRows(m, f, c)
    BY <1>2, <2>1
  <2> QED
    BY <2>2
<1> QED
  BY <1>1, <1>2, <1>3, <1>4, <1>5

-----------------------------------------------------------------------------
\* The turn of a forecaster ends, with rows or without: a baseline makes rows where it can
\* be fitted, an optional forecaster that still runs makes rows or is disabled.
TurnEnds(forecast) ==
  /\ turn <= Len(Forecasters) /\ file \in DOMAIN normalized /\ cutoff \in Cutoffs(Series)
  /\ rows' = IF forecast THEN rows \cup ErrorRows(Current, file, cutoff) ELSE rows
  /\ turn' = turn + 1
  /\ disabled \subseteq disabled'
  /\ turn <= Len(Baselines) => (forecast <=> Fits(Current, Series, cutoff))
  /\ turn > Len(Baselines) => IF forecast THEN Current \in available \ disabled
                                          ELSE Current \notin available \ disabled'
  /\ UNCHANGED <<normalized, available, file, cutoff>>

\* Every action that passes the turn on ends it in that sense.
LEMMA ActionsEndTurns ==
  ASSUME IInv,
         EvaluateBaseline \/ SkipForecaster \/ RefuseForecast \/ WorkerForecasts
           \/ WorkerFails \/ WorkerTimesOut
  PROVE  \E forecast \in BOOLEAN : TurnEnds(forecast)
<1>1. Len(Baselines) = 3 /\ Len(Forecasters) \in Nat /\ Len(Forecasters) > 3
  BY ForecasterOrder
<1>2. turn \in Nat /\ turn >= 1
  BY <1>1 DEF IInv, TypeOK
<1>3. turn <= Len(Forecasters) /\ phase \in {"evaluating", "waiting"}
  BY <1>1, <1>2 DEF IInv, TurnInv, EvaluateBaseline, SkipForecaster, RefuseForecast, WorkerForecasts,
     WorkerFails, WorkerTimesOut, OptionalTurn
<1>4. file \in DOMAIN normalized /\ cutoff \in Cutoffs(Series)
  BY <1>3 DEF IInv, TurnInv
<1>5. CASE EvaluateBaseline
  <2>1. TurnEnds(Fits(Current, Series, cutoff)) /\ Fits(Current, Series, cutoff) \in BOOLEAN
    BY <1>1, <1>2, <1>3, <1>4, <1>5 DEF TurnEnds, EvaluateBaseline, Fits
  <2> QED
    BY <2>1
<1>6. CASE SkipForecaster
  <2>1. TurnEnds(FALSE)
    BY <1>1, <1>2, <1>3, <1>4, <1>6 DEF TurnEnds, SkipForecaster, OptionalTurn, Runs
  <2> QED
    BY <2>1
<1>7. CASE WorkerForecasts
  <2>1. turn > Len(Baselines) /\ Runs
    BY <1>1, <1>7 DEF IInv, TurnInv, WorkerForecasts
  <2>2. TurnEnds(TRUE)
    BY <1>1, <1>2, <1>3, <1>4, <1>7, <2>1 DEF TurnEnds, WorkerForecasts, Runs
  <2> QED
    BY <2>2
<1>8. CASE RefuseForecast \/ WorkerFails \/ WorkerTimesOut
  <2>1. Disable
    BY <1>8 DEF RefuseForecast, WorkerFails, WorkerTimesOut
  <2>2. turn > Len(Baselines)
    BY <1>1, <1>8 DEF IInv, TurnInv, RefuseForecast, WorkerFails, WorkerTimesOut, OptionalTurn
  <2>3. TurnEnds(FALSE)
    BY <1>1, <1>2, <1>3, <1>4, <2>1, <2>2 DEF TurnEnds, Disable
  <2> QED
    BY <2>3
<1> QED
  BY <1>5, <1>6, <1>7, <1>8

\* What is past after a turn was past before, or is that turn.
LEMMA PassedByTurn ==
  ASSUME TypeOK, NEW forecast, TurnEnds(forecast), NEW f, NEW c, NEW i \in 1..Len(Forecasters),
         Passed(f, c, i)'
  PROVE  Passed(f, c, i) \/ (f = file /\ c = cutoff /\ i = turn)
<1>1. turn \in Nat /\ i \in Nat
  BY ForecasterOrder DEF TypeOK
<1> QED
  BY <1>1 DEF Passed, TurnEnds

\* Moving on to the next cutoff or file makes nothing past that was not: no cutoff is
\* jumped over.
LEMMA NoCutoffSkipped ==
  ASSUME TypeOK, NextCutoff \/ NextFile, NEW f \in DOMAIN normalized,
         NEW c \in Cutoffs(normalized[f]), NEW i \in 1..Len(Forecasters), Passed(f, c, i)'
  PROVE  Passed(f, c, i)
<1>1. /\ turn \in Nat /\ turn > Len(Forecasters) /\ i < turn
      /\ file \in Nat /\ f \in Nat /\ c \in Nat /\ c > 0 /\ cutoff \in Nat
  <2>1. turn \in 1..Len(Forecasters) + 1 /\ turn > Len(Forecasters) /\ Len(Forecasters) \in Nat
    BY ForecasterOrder DEF TypeOK, NextCutoff, NextFile, CutoffDone
  <2>2. file \in Nat /\ f \in Nat /\ c \in Nat /\ c > 0
    BY SeriesAreTyped, CutoffIsYear DEF TypeOK
  <2>3. cutoff \in Nat
    BY ParametersAreNumbers DEF TypeOK
  <2> QED
    BY <2>1, <2>2, <2>3
<1>2. f = file => Later = {x \in Cutoffs(Series) : x > cutoff} /\ Later \subseteq Nat
  BY SeriesAreTyped, CutoffIsYear DEF Later, Series
<1>3. CASE NextCutoff
  <2>1. file \in DOMAIN normalized
    BY <1>3, SeriesAreTyped DEF NextCutoff, Later, TypeOK
  <2>2. Later \subseteq Nat
    BY <2>1, SeriesAreTyped, CutoffIsYear DEF Later, Series
  <2>3. \A x \in Later : Min(Later) <= x
    BY <1>3, <2>2, FirstYear DEF NextCutoff
  <2>4. Min(Later) \in Nat
    BY <1>3, <2>2, FirstYear DEF NextCutoff
  <2>5. f < file \/ (f = file /\ c <= Min(Later) /\ ~(c = Min(Later) /\ ~(i < 1)))
    BY <1>1, <1>3, <2>4 DEF NextCutoff, Passed
  <2>6. f < file \/ (f = file /\ c < Min(Later))
    BY <1>1, <2>4, <2>5
  <2>7. f = file /\ c < Min(Later) => c <= cutoff
    BY <1>1, <1>2, <2>3, <2>4 DEF Series
  <2> QED
    BY <1>1, <2>6, <2>7 DEF Passed
<1>4. CASE NextFile
  <2>1. f <= file
    BY <1>1, <1>4 DEF NextFile, Passed
  <2>2. f = file => c <= cutoff
    BY <1>1, <1>2, <1>4 DEF NextFile, Series
  <2> QED
    BY <1>1, <2>1, <2>2 DEF Passed
<1> QED
  BY <1>3, <1>4

\* The plain study depends on the series only.
LEMMA PlainRowsStay ==
  ASSUME UNCHANGED normalized
  PROVE  PlainRows' = PlainRows
BY DEF PlainRows

\* The rows of the baselines stay right and complete through a turn.
LEMMA BaselinesThroughTurn ==
  ASSUME IInv, NEW forecast \in BOOLEAN, TurnEnds(forecast)
  PROVE  BaselineInv'
<1>1. TypeOK /\ BaselineInv /\ normalized' = normalized /\ rows \subseteq rows'
  BY DEF IInv, TurnEnds
<1>2. turn \in 1..Len(Forecasters) /\ Current \in ToSet(Forecasters)
  BY ForecasterOrder DEF IInv, TypeOK, TurnEnds, Current
<1>3. ASSUME NEW r \in rows', r.model \in ToSet(Baselines)
      PROVE  r \in PlainRows
  <2>1. CASE r \in rows
    BY <1>1, <1>3, <2>1 DEF BaselineInv
  <2>2. CASE r \notin rows
    <3>1. forecast /\ r \in ErrorRows(Current, file, cutoff)
      BY <1>3, <2>2 DEF TurnEnds
    <3>2. file \in DOMAIN normalized /\ cutoff \in Cutoffs(normalized[file])
      BY DEF TurnEnds, Series
    <3>3. r.model = Current
      BY <1>1, <1>2, <3>1, <3>2, RowsOfTurn
    <3>4. turn <= Len(Baselines)
      BY <1>2, <1>3, <3>3, ForecasterOrder, OptionalApart DEF Current
    <3>5. Fits(Current, normalized[file], cutoff)
      BY <3>1, <3>4 DEF TurnEnds, Series
    <3> QED
      BY <1>1, <1>2, <1>3, <3>1, <3>2, <3>3, <3>5, RowsOfTurn
  <2> QED
    BY <2>1, <2>2
<1>4. ASSUME NEW i \in 1..Len(Baselines), NEW f \in DOMAIN normalized,
             NEW c \in Cutoffs(normalized[f]), Passed(f, c, i)', Fits(Forecasters[i], normalized[f], c)
      PROVE  ErrorRows(Forecasters[i], f, c) \subseteq rows'
  <2>1. i \in 1..Len(Forecasters)
    BY ForecasterOrder
  <2>2. CASE Passed(f, c, i)
    BY <1>1, <1>4, <2>2 DEF BaselineInv
  <2>3. CASE f = file /\ c = cutoff /\ i = turn
    <3>1. forecast
      BY <1>4, <2>3 DEF TurnEnds, Series, Current
    <3> QED
      BY <2>3, <3>1 DEF TurnEnds, Current
  <2> QED
    BY <1>1, <1>4, <2>1, <2>2, <2>3, PassedByTurn
<1>5. \A m, f, c : ErrorRows(m, f, c)' = ErrorRows(m, f, c)
  BY <1>1 DEF ErrorRows
<1> QED
  BY <1>1, <1>3, <1>4, <1>5, PlainRowsStay DEF BaselineInv

\* An optional forecaster leaves rows behind or is disabled, turn by turn; and one that
\* leaves rows has left them at every earlier cutoff.
LEMMA OptionalThroughTurn ==
  ASSUME IInv, NEW forecast \in BOOLEAN, TurnEnds(forecast)
  PROVE  OptionalInv' /\ OptionalRowsAreAPrefix'
<1>1. /\ TypeOK /\ OptionalInv /\ OptionalRowsAreAPrefix
      /\ normalized' = normalized /\ rows \subseteq rows' /\ disabled \subseteq disabled'
      /\ available' = available
  BY DEF IInv, TurnEnds
<1>2. turn \in 1..Len(Forecasters) /\ Current \in ToSet(Forecasters) /\ Current = Forecasters[turn]
  BY ForecasterOrder DEF IInv, TypeOK, TurnEnds, Current
<1>3. file \in DOMAIN normalized /\ cutoff \in Cutoffs(normalized[file])
  BY DEF TurnEnds, Series
<1>4. ASSUME NEW i \in Len(Baselines) + 1..Len(Forecasters), Forecasters[i] \in available \ disabled',
             NEW f \in DOMAIN normalized, NEW c \in Cutoffs(normalized[f]), Passed(f, c, i)'
      PROVE  \E q \in rows' : q.model = Forecasters[i] /\ q.file = f /\ q.cutoff = c
  <2>1. i \in 1..Len(Forecasters) /\ i > Len(Baselines)
    BY ForecasterOrder
  <2>2. CASE Passed(f, c, i)
    BY <1>1, <1>4, <2>2 DEF OptionalInv
  <2>3. CASE f = file /\ c = cutoff /\ i = turn
    <3>1. forecast
      BY <1>4, <1>2, <2>1, <2>3 DEF TurnEnds
    <3>2. rows' = rows \cup ErrorRows(Forecasters[i], f, c)
      BY <1>2, <2>3, <3>1 DEF TurnEnds
    <3>3. \E q \in ErrorRows(Forecasters[i], f, c) : q.model = Forecasters[i] /\ q.file = f /\ q.cutoff = c
      BY <1>1, <1>2, <2>3, RowsOfTurn
    <3> QED
      BY <3>2, <3>3
  <2> QED
    BY <1>1, <1>4, <2>1, <2>2, <2>3, PassedByTurn
<1>5. ASSUME NEW r \in rows', r.model \in ToSet(Optional), NEW f \in DOMAIN normalized,
             NEW c \in Cutoffs(normalized[f]), f < r.file \/ (f = r.file /\ c < r.cutoff)
      PROVE  \E q \in rows' : q.model = r.model /\ q.file = f /\ q.cutoff = c
  <2>1. CASE r \in rows
    BY <1>1, <1>5, <2>1 DEF OptionalRowsAreAPrefix
  <2>2. CASE r \notin rows
    <3>1. forecast /\ r \in ErrorRows(Current, file, cutoff)
      BY <1>5, <2>2 DEF TurnEnds
    <3>2. r.model = Forecasters[turn] /\ r.file = file /\ r.cutoff = cutoff
      BY <1>1, <1>2, <1>3, <3>1, RowsOfTurn
    <3>3. turn \in Len(Baselines) + 1..Len(Forecasters)
      BY <1>2, <1>5, <3>2, ForecasterOrder, OptionalApart
    <3>4. Forecasters[turn] \in available \ disabled
      BY <1>2, <3>1, <3>3, ForecasterOrder DEF TurnEnds
    <3>5. Passed(f, c, turn)
      BY <1>5, <3>2 DEF Passed
    <3>6. \E q \in rows : q.model = Forecasters[turn] /\ q.file = f /\ q.cutoff = c
      BY <1>1, <3>3, <3>4, <3>5 DEF OptionalInv
    <3> QED
      BY <1>1, <3>2, <3>6
  <2> QED
    BY <2>1, <2>2
<1>6. OptionalInv'
  BY <1>1, <1>4 DEF OptionalInv
<1>7. OptionalRowsAreAPrefix'
  BY <1>1, <1>5 DEF OptionalRowsAreAPrefix
<1> QED
  BY <1>6, <1>7

\* While nothing of a loop is past that was not before, no row is asked for that was not.
LEMMA RowsBetweenTurns ==
  ASSUME IInv, UNCHANGED <<normalized, rows, disabled>>,
         \/ UNCHANGED <<available, file, cutoff, turn>>
         \/ NextCutoff \/ NextFile
         \/ phase = "probing" /\ UNCHANGED <<file, cutoff>>
  PROVE  BaselineInv' /\ OptionalInv' /\ OptionalRowsAreAPrefix'
<1>1. TypeOK /\ BaselineInv /\ OptionalInv /\ OptionalRowsAreAPrefix
  BY DEF IInv
<1>2. UNCHANGED normalized /\ UNCHANGED rows /\ UNCHANGED disabled
  OBVIOUS
<1>3. ASSUME NEW f \in DOMAIN normalized, NEW c \in Cutoffs(normalized[f]),
             NEW i \in 1..Len(Forecasters), Passed(f, c, i)'
      PROVE  Passed(f, c, i) /\ UNCHANGED available
  <2>1. CASE UNCHANGED <<available, file, cutoff, turn>>
    BY <1>3, <2>1 DEF Passed
  <2>2. CASE NextCutoff \/ NextFile
    BY <1>1, <1>3, <2>2, NoCutoffSkipped DEF NextCutoff, NextFile
  <2>3. CASE phase = "probing" /\ UNCHANGED <<file, cutoff>>
    <3>1. file' = 1 /\ cutoff' = 0
      BY <2>3 DEF IInv, TurnInv
    <3>2. f \in Nat /\ f >= 1 /\ c \in Nat /\ c > 0
      BY <1>1, SeriesAreTyped, CutoffIsYear
    <3> QED
      BY <1>3, <3>1, <3>2 DEF Passed
  <2> QED
    BY <2>1, <2>2, <2>3
<1>4. \A m, f, c : ErrorRows(m, f, c)' = ErrorRows(m, f, c)
  BY <1>2 DEF ErrorRows
<1>5. 1..Len(Baselines) \subseteq 1..Len(Forecasters) /\ Len(Baselines) + 1..Len(Forecasters) \subseteq 1..Len(Forecasters)
  BY ForecasterOrder
<1>6. BaselineInv'
  BY <1>1, <1>2, <1>3, <1>4, <1>5, PlainRowsStay DEF BaselineInv
<1>7. OptionalInv'
  BY <1>1, <1>2, <1>3, <1>5 DEF OptionalInv
<1>8. OptionalRowsAreAPrefix'
  BY <1>1, <1>2 DEF OptionalRowsAreAPrefix
<1> QED
  BY <1>6, <1>7, <1>8

-----------------------------------------------------------------------------
\* Where the loop may be after a step.
LEMMA TurnsStayInOrder ==
  ASSUME IInv, [Next]_vars
  PROVE  TurnInv'
<1>1. TypeOK /\ TurnInv
  BY DEF IInv
<1>2. turn \in Nat /\ Len(Forecasters) \in Nat /\ Len(Forecasters) > Len(Baselines) /\ Len(Baselines) = 3
  BY <1>1, ForecasterOrder DEF TypeOK
<1>3. UNCHANGED normalized
  BY DEF Next, vars, ProbeEnds, ProbeRaises, NextCutoff, NextFile, StartWriting, EvaluateBaseline,
     SkipForecaster, RefuseForecast, StartWorker, WorkerForecasts, WorkerFails, WorkerTimesOut,
     WorkerRaises, OpenFile, FinishFile, Crash, Disable
<1>4. CASE \E usable \in BOOLEAN : ProbeEnds(usable)
  BY <1>1, <1>2, <1>3, <1>4 DEF ProbeEnds, TurnInv
<1>5. CASE ProbeRaises \/ WorkerRaises \/ Crash
  BY <1>5 DEF TurnInv, ProbeRaises, WorkerRaises, Crash
<1>6. CASE NextCutoff
  <2>1. file \in DOMAIN normalized
    BY <1>1, <1>6, SeriesAreTyped DEF NextCutoff, Later, TypeOK
  <2>2. Later \subseteq Nat /\ Later \subseteq Cutoffs(Series)
    BY <1>1, <2>1, SeriesAreTyped, CutoffIsYear DEF Later, Series
  <2>3. cutoff' \in Cutoffs(Series)
    BY <1>6, <2>2, FirstYear DEF NextCutoff
  <2>4. file' = file /\ Series' = Series /\ phase' = "evaluating"
    BY <1>3, <1>6 DEF NextCutoff, CutoffDone, Series
  <2> QED
    BY <1>3, <2>1, <2>3, <2>4 DEF TurnInv
<1>7. CASE NextFile
  BY <1>2, <1>7 DEF TurnInv, NextFile, CutoffDone
<1>8. CASE StartWriting
  BY <1>3, <1>8 DEF TurnInv, StartWriting, loopVars
<1>9. CASE EvaluateBaseline \/ SkipForecaster \/ RefuseForecast \/ WorkerForecasts
             \/ WorkerFails \/ WorkerTimesOut
  <2>1. phase' = "evaluating" /\ phase \in {"evaluating", "waiting"}
    BY <1>9 DEF EvaluateBaseline, SkipForecaster, RefuseForecast, WorkerForecasts,
       WorkerFails, WorkerTimesOut, Disable, OptionalTurn
  <2>2. turn <= Len(Forecasters) /\ file' = file /\ cutoff' = cutoff
    BY ActionsEndTurns, <1>9 DEF TurnEnds
  <2>3. Series' = Series
    BY <1>3, <2>2 DEF Series
  <2> QED
    BY <1>1, <1>3, <2>1, <2>2, <2>3 DEF TurnInv
<1>10. CASE StartWorker
  <2>1. /\ phase = "evaluating" /\ phase' = "waiting" /\ Runs
        /\ turn \in Len(Baselines) + 1..Len(Forecasters)
        /\ UNCHANGED <<available, disabled, file, cutoff, turn, rows>>
    BY <1>10 DEF StartWorker, OptionalTurn, loopVars
  <2>2. Series' = Series /\ Runs'
    BY <1>3, <2>1 DEF Series, Runs, Current
  <2> QED
    BY <1>1, <1>2, <1>3, <2>1, <2>2 DEF TurnInv
<1>11. CASE OpenFile \/ FinishFile
  BY <1>1, <1>3, <1>11 DEF TurnInv, OpenFile, FinishFile, loopVars
<1>12. CASE UNCHANGED vars
  <2>1. UNCHANGED <<phase, available, disabled, file, cutoff, turn, rows>>
    BY <1>12 DEF vars, loopVars
  <2>2. Series' = Series /\ Runs' = Runs
    BY <1>3, <2>1 DEF Series, Runs, Current
  <2> QED
    BY <1>1, <1>3, <2>1, <2>2 DEF TurnInv
<1> QED
  BY <1>4, <1>5, <1>6, <1>7, <1>8, <1>9, <1>10, <1>11, <1>12 DEF Next

\* Every variable keeps its type.
LEMMA TypesStay ==
  ASSUME IInv, [Next]_vars
  PROVE  TypeOK' /\ FolderInv'
<1>1. TypeOK /\ FolderInv /\ TurnInv
  BY DEF IInv
<1>2. /\ turn \in Nat /\ turn >= 1 /\ Len(Forecasters) \in Nat /\ Len(Forecasters) > 3
      /\ Len(Baselines) = 3 /\ Len(OutputFiles) = 7
      /\ Len(normalized) \in Nat /\ file \in Nat /\ file >= 1
  BY <1>1, ForecasterOrder, SeriesAreTyped DEF TypeOK, OutputFiles
<1>3. UNCHANGED normalized
  BY DEF Next, vars, ProbeEnds, ProbeRaises, NextCutoff, NextFile, StartWriting, EvaluateBaseline,
     SkipForecaster, RefuseForecast, StartWorker, WorkerForecasts, WorkerFails, WorkerTimesOut,
     WorkerRaises, OpenFile, FinishFile, Crash, Disable
<1> DEFINE Row == [model : ToSet(Forecasters), file : DOMAIN normalized, cutoff : Years,
                   target : Years, predicted : Years]
<1>4. CASE \E usable \in BOOLEAN : ProbeEnds(usable)
  <2>1. Current \in ToSet(Optional)
    BY <1>1, <1>2, <1>4, ForecasterOrder DEF ProbeEnds, Current, TurnInv
  <2> QED
    BY <1>1, <1>2, <1>3, <1>4, <2>1 DEF ProbeEnds, TypeOK, FolderInv, folderVars
<1>5. CASE ProbeRaises \/ WorkerRaises \/ Crash \/ StartWorker \/ StartWriting
  BY <1>1, <1>5 DEF TypeOK, FolderInv, folderVars, loopVars, ProbeRaises, WorkerRaises, Crash,
     StartWorker, StartWriting
<1>6. CASE NextCutoff
  <2>1. file \in DOMAIN normalized
    BY <1>1, <1>6, SeriesAreTyped DEF NextCutoff, Later, TypeOK
  <2>2. Later \subseteq Nat /\ Later \subseteq Years
    BY <1>1, <2>1, SeriesAreTyped, CutoffIsYear DEF Later, Series
  <2>3. cutoff' \in Years
    BY <1>6, <2>2, FirstYear DEF NextCutoff
  <2> QED
    BY <1>1, <1>2, <1>3, <1>6, <2>3 DEF NextCutoff, TypeOK, FolderInv, folderVars
<1>7. CASE NextFile
  BY <1>1, <1>2, <1>3, <1>7 DEF NextFile, TypeOK, FolderInv, folderVars
<1>8. CASE EvaluateBaseline \/ SkipForecaster \/ RefuseForecast \/ WorkerForecasts
             \/ WorkerFails \/ WorkerTimesOut
  <2>1. PICK forecast \in BOOLEAN : TurnEnds(forecast)
    BY <1>8, ActionsEndTurns
  <2>2. turn \in 1..Len(Forecasters) /\ Current \in ToSet(Forecasters)
    BY <1>2, <2>1, ForecasterOrder DEF TurnEnds, Current
  <2>3. ErrorRows(Current, file, cutoff) \subseteq Row
    BY <1>1, <2>1, <2>2, RowsOfTurn DEF TurnEnds, Series
  <2>4. rows' \subseteq Row /\ turn' \in 1..Len(Forecasters) + 1
    BY <1>1, <2>1, <2>2, <2>3 DEF TurnEnds, TypeOK
  <2> HIDE DEF Row
  <2>5. disabled' \subseteq available'
    BY <1>1, <1>8 DEF TypeOK, TurnInv, EvaluateBaseline, SkipForecaster, RefuseForecast,
       WorkerForecasts, WorkerFails, WorkerTimesOut, Disable, Runs
  <2>6. forecast_count' \in [ToSet(Optional) -> Nat]
    BY <1>1, <1>8 DEF TypeOK, EvaluateBaseline, SkipForecaster, RefuseForecast,
       WorkerForecasts, WorkerFails, WorkerTimesOut, Disable
  <2>7. phase' = "evaluating" /\ UNCHANGED folderVars
    BY <1>8 DEF EvaluateBaseline, SkipForecaster, RefuseForecast, OptionalTurn,
       WorkerForecasts, WorkerFails, WorkerTimesOut, Disable
  <2>8. UNCHANGED <<available, file, cutoff>>
    BY <2>1 DEF TurnEnds
  <2> QED
    BY <1>1, <1>3, <2>4, <2>5, <2>6, <2>7, <2>8 DEF TypeOK, FolderInv, folderVars, Row
<1>9. CASE OpenFile \/ FinishFile
  <2>1. UNCHANGED <<available, disabled, forecast_count, file, cutoff, turn, rows>>
    BY <1>9 DEF OpenFile, FinishFile, loopVars
  <2>2. written \in 0..7 /\ (torn => written < 7)
    BY <1>1, <1>2 DEF TypeOK, FolderInv
  <2>3. /\ phase' \in {"writing", "done"} /\ torn' \in BOOLEAN
        /\ written' \in 0..7 /\ (torn' => written' < 7)
    <3>1. CASE OpenFile
      <4>1. phase' = "writing" /\ torn' = TRUE /\ written' = written /\ written < 7
        BY <1>2, <3>1 DEF OpenFile
      <4> QED
        BY <2>2, <4>1
    <3>2. CASE FinishFile
      <4>1. torn' = FALSE /\ written < 7 /\ phase' \in {"writing", "done"}
        BY <2>2, <3>2, Zenon DEF FinishFile
      <4>2. written' = written + 1
        BY <3>2 DEF FinishFile
      <4>3. written' \in 0..7
        BY <2>2, <4>1, <4>2
      <4> QED
        BY <4>1, <4>3
    <3> QED
      BY <1>9, <3>1, <3>2
  <2> QED
    BY <1>1, <1>2, <1>3, <2>1, <2>3 DEF TypeOK, FolderInv
<1>10. CASE UNCHANGED vars
  BY <1>1, <1>10 DEF TypeOK, FolderInv, vars, loopVars, folderVars
<1> QED
  BY <1>4, <1>5, <1>6, <1>7, <1>8, <1>9, <1>10 DEF Next

\* The inductive invariant of the study, for any series and whatever its forecasters do.
THEOREM StudyInvariance == Spec => []IInv
<1>1. Init => IInv
  <2> SUFFICES ASSUME Init PROVE IInv
    OBVIOUS
  <2>1. Len(Baselines) = 3 /\ Len(Forecasters) \in Nat /\ Len(Forecasters) > 3 /\ Len(OutputFiles) = 7
    BY ForecasterOrder DEF OutputFiles
  <2>2. Len(normalized) \in Nat
    <3>1. normalized \in Seq([Years -> {"absent", "positive", "nonpositive"}])
      BY BacktestAssumption DEF Init
    <3> QED
      BY <3>1
  <2>3. TypeOK
    <3>1. forecast_count \in [ToSet(Optional) -> Nat]
      BY DEF Init
    <3>2. file \in 1..Len(normalized) + 1 /\ turn \in 1..Len(Forecasters) + 1 /\ written \in 0..Len(OutputFiles)
      BY <2>1, <2>2 DEF Init
    <3>3. normalized \in Inputs /\ phase = "probing" /\ available = {} /\ disabled = {} /\ rows = {}
          /\ cutoff = 0 /\ torn = FALSE
      BY DEF Init
    <3> QED
      BY <3>1, <3>2, <3>3 DEF TypeOK
  <2>4. \A f \in DOMAIN normalized : \A c \in Cutoffs(normalized[f]) : \A i : ~Passed(f, c, i)
    <3>1. \A f \in DOMAIN normalized : \A c \in Cutoffs(normalized[f]) :
            f \in Nat /\ f >= 1 /\ c \in Nat /\ c > 0
      BY <2>3, SeriesAreTyped, CutoffIsYear
    <3> QED
      BY <3>1 DEF Init, Passed
  <2>5. BaselineInv /\ OptionalInv /\ OptionalRowsAreAPrefix
    BY <2>4 DEF Init, BaselineInv, OptionalInv, OptionalRowsAreAPrefix
  <2>6. TurnInv /\ FolderInv
    BY <2>1 DEF Init, TurnInv, FolderInv
  <2> QED
    BY <2>3, <2>5, <2>6 DEF IInv
<1>2. IInv /\ [Next]_vars => IInv'
  <2> SUFFICES ASSUME IInv, [Next]_vars PROVE IInv'
    OBVIOUS
  <2>1. TypeOK' /\ FolderInv' /\ TurnInv'
    BY TypesStay, TurnsStayInOrder
  <2>2. CASE EvaluateBaseline \/ SkipForecaster \/ RefuseForecast \/ WorkerForecasts
               \/ WorkerFails \/ WorkerTimesOut
    BY <2>1, <2>2, ActionsEndTurns, BaselinesThroughTurn, OptionalThroughTurn DEF IInv
  <2>3. CASE NextCutoff \/ NextFile
    <3>1. UNCHANGED <<normalized, rows, disabled>>
      BY <2>3 DEF NextCutoff, NextFile
    <3> QED
      BY <2>1, <2>3, <3>1, RowsBetweenTurns DEF IInv
  <2>4. CASE \E usable \in BOOLEAN : ProbeEnds(usable)
    <3>1. UNCHANGED <<normalized, rows, disabled>> /\ phase = "probing" /\ UNCHANGED <<file, cutoff>>
      BY <2>4 DEF ProbeEnds
    <3> QED
      BY <2>1, <3>1, RowsBetweenTurns DEF IInv
  <2>5. CASE ProbeRaises \/ StartWriting \/ StartWorker \/ WorkerRaises \/ OpenFile \/ FinishFile
               \/ Crash \/ UNCHANGED vars
    <3>1. UNCHANGED <<normalized, rows, disabled>> /\ UNCHANGED <<available, file, cutoff, turn>>
      BY <2>5 DEF ProbeRaises, StartWriting, StartWorker, WorkerRaises, OpenFile, FinishFile, Crash,
         vars, loopVars
    <3> QED
      BY <2>1, <3>1, RowsBetweenTurns DEF IInv
  <2> QED
    BY <2>2, <2>3, <2>4, <2>5 DEF Next
<1> QED
  BY <1>1, <1>2, PTL DEF Spec

\* Every variable keeps its type.
THEOREM TypeCorrect == Spec => []TypeOK
<1>1. IInv => TypeOK
  BY DEF IInv
<1> QED
  BY <1>1, StudyInvariance, PTL

\* The baseline rows of a study that is written are those of the plain study, for series
\* with any gaps and whatever the optional forecasters do.
THEOREM BaselinesAlwaysMatch == Spec => []BaselinesMatchPlainStudy
<1>1. IInv => BaselinesMatchPlainStudy
  <2> SUFFICES ASSUME IInv, phase \in {"writing", "done"}
               PROVE  {r \in rows : r.model \in ToSet(Baselines)} = PlainRows
    BY DEF BaselinesMatchPlainStudy
  <2>1. \A r \in rows : r.model \in ToSet(Baselines) => r \in PlainRows
    BY DEF IInv, BaselineInv
  <2>2. ASSUME NEW r \in PlainRows PROVE r \in rows /\ r.model \in ToSet(Baselines)
    <3>1. PICK f \in DOMAIN normalized : \E c \in Cutoffs(normalized[f]) :
            \E m \in ToSet(Baselines) : \E t \in TargetYears(normalized[f], c) :
              /\ Fits(m, normalized[f], c)
              /\ r = [model |-> m, file |-> f, cutoff |-> c, target |-> t, predicted |-> t]
      BY <2>2, PlainRow
    <3>2. PICK c \in Cutoffs(normalized[f]), m \in ToSet(Baselines) :
            \E t \in TargetYears(normalized[f], c) :
              /\ Fits(m, normalized[f], c)
              /\ r = [model |-> m, file |-> f, cutoff |-> c, target |-> t, predicted |-> t]
      BY <3>1
    <3>3. PICK i \in 1..3 : m = Forecasters[i]
      BY ForecasterOrder
    <3>4. f < file
      BY SeriesAreTyped DEF IInv, TypeOK, TurnInv
    <3>5. ErrorRows(m, f, c) \subseteq rows
      BY <3>2, <3>3, <3>4, ForecasterOrder DEF IInv, BaselineInv, Passed
    <3>6. c \in Nat
      BY SeriesAreTyped, CutoffIsYear DEF IInv
    <3>7. r \in ErrorRows(m, f, c)
      BY <3>2, <3>6, RowsOfForecast
    <3> QED
      BY <3>2, <3>5, <3>7
  <2> QED
    BY <2>1, <2>2
<1> QED
  BY <1>1, StudyInvariance, PTL

\* A forecaster that has failed is not heard of again, in any file.
THEOREM OptionalRowsAlwaysPrefix == Spec => []OptionalRowsAreAPrefix
<1>1. IInv => OptionalRowsAreAPrefix
  BY DEF IInv
<1> QED
  BY <1>1, StudyInvariance, PTL

\* Wherever the study dies, a folder that passes for a valid study can be read.
THEOREM ValidAlwaysUsable == Spec => []ValidStudyIsUsable
<1>1. IInv => ValidStudyIsUsable
  <2> SUFFICES ASSUME IInv, \A name \in ValidStudyFiles : Exists(name)
               PROVE  \A name \in ToSet(OutputFiles) \ {"provenance.json", "study.md"} : Whole(name)
    BY DEF ValidStudyIsUsable
  <2>1. written \in 0..7 /\ (torn => written < 7)
    BY DEF IInv, TypeOK, FolderInv, OutputFiles
  <2>2. DOMAIN OutputFiles = 1..7
    BY DEF OutputFiles
  <2>3. PICK k \in 1..7 : k <= written + 1 /\ OutputFiles[k] = "provenance.json"
    BY <2>1, <2>2 DEF ValidStudyFiles, Exists, Whole
  <2>4. k = 6
    BY <2>3 DEF OutputFiles
  <2>5. ASSUME NEW name \in ToSet(OutputFiles) \ {"provenance.json", "study.md"}
        PROVE  Whole(name)
    <3>1. PICK j \in 1..7 : OutputFiles[j] = name
      BY <2>2, <2>5 DEF ToSet
    <3>2. j <= 5
      BY <2>5, <3>1 DEF OutputFiles
    <3> QED
      BY <2>1, <2>3, <2>4, <3>1, <3>2 DEF Whole
  <2> QED
    BY <2>5
<1> QED
  BY <1>1, StudyInvariance, PTL
=============================================================================
