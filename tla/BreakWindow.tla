------------------------------ MODULE BreakWindow ------------------------------
(***************************************************************************)
(* The break analysis of a series and its forecast (ml_break_analysis.py) on top   *)
(* of the break scores (statistics/breaks.py): for every index with a whole window  *)
(* of values before it and after it, the distance of the two means in pooled        *)
(* standard deviations.  Values are integers and the score is kept as the exact      *)
(* square of a fraction, where the code computes in floating point.  Indices count    *)
(* from 0, as in the code: the value at index i is values[i + 1].                 *)
(***************************************************************************)
EXTENDS Integers, Sequences, FiniteSetsExt

CONSTANT ROLLING_STATISTICS_WINDOW   \* 10 in config.py

ASSUME WindowAssumption == ROLLING_STATISTICS_WINDOW \in Nat

\* A faulty variant: the shortest series are not told apart, and get no window of two.
analysis_window_unclamped(points) ==
  IF ROLLING_STATISTICS_WINDOW < points \div 2 - 1 THEN ROLLING_STATISTICS_WINDOW ELSE points \div 2 - 1

analysis_window(points) ==
  IF points < 4 THEN 2
  ELSE Max({2, IF ROLLING_STATISTICS_WINDOW < points \div 2 - 1 THEN ROLLING_STATISTICS_WINDOW
               ELSE points \div 2 - 1})

Before(index, window) == (index - window)..(index - 1)
After(index, window)  == index..(index + window - 1)

Scored(points, window) == window..(points - window)

Sum(values, indices)     == MapThenSumSet(LAMBDA i : values[i + 1], indices)
Squares(values, indices) == MapThenSumSet(LAMBDA i : values[i + 1] * values[i + 1], indices)

\* break_score = Sqrt(Gap / Spread); where Spread is 0, all values are equal and so is Gap.
Gap(values, index, window) ==
  LET difference == 2 * (Sum(values, After(index, window)) - Sum(values, Before(index, window)))
  IN  difference * difference

Spread(values, index, window) ==
  LET both  == Before(index, window) \cup After(index, window)
      total == Sum(values, both)
  IN  2 * window * Squares(values, both) - total * total

NotBelow(values, i, j, window) ==
  LET Denominator(k) == Max({1, Spread(values, k, window)})
  IN  Gap(values, i, window) * Denominator(j) >= Gap(values, j, window) * Denominator(i)

\* The indices any of which the sort may put first.
Tops(values, window) ==
  LET scored == Scored(Len(values), window)
  IN  {i \in scored : \A j \in scored : NotBelow(values, i, j, window)}

\* analyze_combined_series, as the set of its possible answers.
analyze_combined_series(values) ==
  LET window == analysis_window(Len(values))
      scored == Scored(Len(values), window)
      Found(top) == [points |-> Len(values), window |-> window, candidates |-> scored, top |-> top,
                     detected |-> Gap(values, top, window) > Spread(values, top, window)]
  IN  IF scored = {}
      THEN {[points |-> Len(values), window |-> window, candidates |-> {}, top |-> -1, detected |-> FALSE]}
      ELSE {Found(top) : top \in Tops(values, window)}
=============================================================================
