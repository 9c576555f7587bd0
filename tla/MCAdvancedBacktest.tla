-------------------------- MODULE MCAdvancedBacktest --------------------------
(* Five kinds of series, two to a study: complete; with a gap that separates a   *)
(* cutoff from its last target; with a gap inside a training window; not          *)
(* positive in its second year; too short.                                        *)
EXTENDS AdvancedBacktest

Where(absent, nonpositive) ==
  [y \in Years |-> IF y \in absent THEN "absent"
                   ELSE IF y \in nonpositive THEN "nonpositive" ELSE "positive"]

Kinds == {Where({}, {}), Where({5}, {}), Where({3}, {}), Where({}, {2}), Where({4, 5, 6}, {})}

MCInputs   == {<<a, b>> : a, b \in Kinds}
MCOptional == <<"timesfm", "chronos">>
=============================================================================
