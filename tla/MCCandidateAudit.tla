------------------------------ MODULE MCCandidateAudit ------------------------------
(***************************************************************************)
(* An instance of CandidateAudit with the windows of the code: 1899 is within the *)
(* window of 1896 and of 1901, which are apart from each other but within the      *)
(* echo window and on both sides of 1900, and 2012 has a revision hint.  The profiles are chosen so that   *)
(* every indicator of the artifact score and every penalty of the robustness        *)
(* score is met.                                                              *)
(***************************************************************************)
EXTENDS CandidateAudit

Ordinary ==
  [source_count |-> 2, share |-> 60, agreement |-> 100, domains |-> 2, volume |-> 2,
   before |-> 30, after |-> 12, max_z |-> 20, mean_z |-> 5, hinted |-> FALSE, metrics |-> {"gdp"}]

Extreme == [Ordinary EXCEPT !.max_z = 120, !.domains = 1, !.after = 9, !.volume = 1, !.hinted = TRUE]

OneSource == [Ordinary EXCEPT !.source_count = 1, !.share = 100]

OneSided == [Ordinary EXCEPT !.share = 80, !.agreement = 50, !.mean_z = 50, !.metrics = {"births"}]

MCProfiles == {Ordinary, Extreme, OneSource, OneSided}
=============================================================================
