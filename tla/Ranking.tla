---------------------------------- MODULE Ranking ----------------------------------
(***************************************************************************)
(* rank_study (backtesting/ranking.py): how the candidate years of a study are *)
(* thinned out to representatives, and which of these are listed.  The years    *)
(* are looked at from the highest rank score down (mark_representatives); a      *)
(* year nobody represents yet becomes a representative, of itself and of every   *)
(* unclaimed year within the window.  The list of the report holds the best      *)
(* representatives only (build_ranking_json).                                    *)
(*                                                                         *)
(* A rank score is a number of a small set: the weighted sum of rank_scores is   *)
(* floating-point arithmetic and any order of the candidates can come out of it. *)
(* Equal scores are looked at in any order, as sort_values keeps no order among  *)
(* them.                                                                    *)
(***************************************************************************)
EXTENDS Integers, FiniteSets

CONSTANTS
  Years,    \* the years a study may have anomalies in
  Scores,   \* the values of a rank score
  Window,   \* representative_window_years (3 in the code)
  Limit     \* top_representative_limit (50 in the code)

ASSUME RankingAssumption ==
  /\ Years \subseteq Int
  /\ Scores \subseteq Int
  /\ Window \in Nat
  /\ Limit \in Nat

VARIABLES
  rank_score,          \* candidate year -> rank score
  unvisited,           \* the candidates the loop has not come to
  representatives,     \* the years chosen so far
  representative_for,  \* year -> its representative, for the years claimed so far
  top                  \* the representatives listed in the report

vars == <<rank_score, unvisited, representatives, representative_for, top>>

-----------------------------------------------------------------------------
Candidates == DOMAIN rank_score
Visited    == Candidates \ unvisited

\* The years a representative claims.
Nearby(year) == (year - Window)..(year + Window)

Within(x, y) == x \in Nearby(y)

\* A faulty variant: the last claim wins.
Overwrite(claims, claimed, year) ==
  [y \in DOMAIN claims \cup claimed |-> IF y \in claimed THEN year ELSE claims[y]]

\* dict.setdefault for every year of a set: what is there already stays.
SetDefault(claims, claimed, year) ==
  [y \in DOMAIN claims \cup claimed |-> IF y \in DOMAIN claims THEN claims[y] ELSE year]

Outranks(x, y) == rank_score[x] >= rank_score[y]

TypeOK ==
  /\ \E candidates \in SUBSET Years : rank_score \in [candidates -> Scores]
  /\ unvisited \subseteq Candidates
  /\ representatives \subseteq Visited
  /\ representative_for \in [UNION {Nearby(y) : y \in representatives} -> representatives]
  /\ top \subseteq representatives

Init ==
  /\ \E candidates \in SUBSET Years : rank_score \in [candidates -> Scores]
  /\ unvisited = Candidates
  /\ representatives = {}
  /\ representative_for = [y \in {} |-> y]
  /\ top = {}

-----------------------------------------------------------------------------
\* A faulty variant: the table is not sorted by score.
IsNextByYear(year) == year \in unvisited /\ \A other \in unvisited : year <= other

\* The loop takes a candidate with the highest score of those it has not looked at.
IsNext(year) == year \in unvisited /\ \A other \in unvisited : Outranks(year, other)

\* Already claimed by a better year: continue.
Skip(year) ==
  /\ IsNext(year)
  /\ year \in DOMAIN representative_for
  /\ unvisited' = unvisited \ {year}
  /\ UNCHANGED <<rank_score, representatives, representative_for, top>>

\* A faulty variant: the test is whether the year is a representative, not whether it
\* is claimed.
ChooseUnlessChosen(year) ==
  /\ IsNext(year)
  /\ year \notin representatives
  /\ unvisited' = unvisited \ {year}
  /\ representatives' = representatives \cup {year}
  /\ representative_for' = SetDefault(representative_for, Nearby(year), year)
  /\ UNCHANGED <<rank_score, top>>

Choose(year) ==
  /\ IsNext(year)
  /\ year \notin DOMAIN representative_for
  /\ unvisited' = unvisited \ {year}
  /\ representatives' = representatives \cup {year}
  /\ representative_for' = SetDefault(representative_for, Nearby(year), year)
  /\ UNCHANGED <<rank_score, top>>

Shown == IF Cardinality(representatives) < Limit
         THEN Cardinality(representatives) ELSE Limit

\* A faulty variant: the list holds the latest years.
AreBestLatest(listed) ==
  /\ Cardinality(listed) = Shown
  /\ \A y \in listed, other \in representatives \ listed : y > other

\* The head of the representatives by score.
AreBest(listed) ==
  /\ Cardinality(listed) = Shown
  /\ \A y \in listed, other \in representatives \ listed : Outranks(y, other)

List ==
  /\ unvisited = {}
  /\ top = {}
  /\ \E listed \in SUBSET representatives : listed # {} /\ AreBest(listed) /\ top' = listed
  /\ UNCHANGED <<rank_score, unvisited, representatives, representative_for>>

Next ==
  \/ \E year \in Candidates : Skip(year) \/ Choose(year)
  \/ List

Spec == Init /\ [][Next]_vars

-----------------------------------------------------------------------------
\* Two representatives are never within each other's window (docs/scoring.md: nearby
\* candidates are reduced to one).
Separated ==
  \A x, y \in representatives : x # y => ~Within(x, y)

\* Whatever has been looked at is represented by a year within the window which was
\* chosen, represents itself, and ranks at least as high.
CoveredByABetter ==
  \A y \in Visited :
    /\ y \in DOMAIN representative_for
    /\ LET r == representative_for[y]
       IN  r \in representatives /\ representative_for[r] = r /\ Within(y, r) /\ Outranks(r, y)

\* A candidate that the list shows neither itself nor through its representative ranks
\* no higher than anything listed: thinning out and cutting off together hide no better
\* year.
NothingBetterHidden ==
  \A y \in Candidates :
    top # {} /\ representative_for[y] \notin top => \A t \in top : Outranks(t, y)

\* One of the best candidates of the study is always among the representatives, so
\* that the top year the command reports is the best of all candidates.
BestIsRepresentative ==
  Visited # {} => \E r \in representatives : \A y \in Candidates : Outranks(r, y)
=============================================================================
