------------------------------- MODULE CandidateAudit -------------------------------
(***************************************************************************)
(* The commands that follow the ranking of a study, composed with it (Ranking): *)
(* audit_study (backtesting/audit.py) scores the representatives for robustness, *)
(* detect_study_artifacts (backtesting/artifacts.py) joins them with the table     *)
(* the audit left behind and scores them as artifacts of the data.  rank_breaks     *)
(* may be run again, with another neighbourhood, at any time between commands:      *)
(* then the representatives are new and the audit is old.                          *)
(*                                                                         *)
(* `study` is what the tables of the backtest tell of a year; they never change.   *)
(* Scores are exact: robustness in ten-thousandths, artifact scores in hundredths.  *)
(* The floating-point sums of the code fall on the same side of the thresholds for   *)
(* all combinations of artifact indicators; robustness scores that are exactly a      *)
(* threshold may not, and the instance has none of them.                              *)
(***************************************************************************)
EXTENDS Ranking

CONSTANTS
  Profiles,       \* what a study may know of a year: a set of records
  Neighborhoods,  \* the values given to --neighborhood-years
  MaxRankings     \* bound: how often rank_breaks is run

Profile ==
  [source_count: Nat \ {0},   \* sources with an anomaly in the year
   share:        0..100,      \* per cent of the anomalies that are of one source
   agreement:    0..100,      \* per cent of the models of the year that have an anomaly
   domains:      Nat,         \* affected_domain_count
   volume:       Nat,         \* log1p of anomaly_count
   before:       Nat,         \* forecast errors in the ten years before
   after:        Nat,         \* and after
   max_z:        Int,
   mean_z:       Int,
   hinted:       BOOLEAN,     \* an ordinary_explanation_hint of the year
   metrics:      SUBSET STRING]

ASSUME AuditAssumption ==
  /\ Profiles \subseteq Profile
  /\ Neighborhoods \subseteq Nat
  /\ MaxRankings \in Nat

VARIABLES
  study,         \* candidate year -> profile
  neighborhood,  \* of the last ranking
  ranking,       \* the number of the last ranking
  audit,         \* candidate_audit.parquet: year -> row
  audit_of,      \* the ranking it was made from, 0 if there is none
  artifacts,     \* data_artifact_audit.parquet: year -> row
  artifacts_of   \* the ranking it was made from, and the one its audit was made from

auditVars == <<study, neighborhood, ranking, audit, audit_of, artifacts, artifacts_of>>
allVars   == <<vars, auditVars>>

Unaudited == [ranking |-> 0, audit |-> 0]

-----------------------------------------------------------------------------
(* audit.py *)

Clip(score, limit) == IF score < 0 THEN 0 ELSE IF score > limit THEN limit ELSE score

\* Over a set of values; equal values are all 0.
min_max_normalize(value, values) ==
  LET minimum == CHOOSE v \in values : \A w \in values : v <= w
      maximum == CHOOSE v \in values : \A w \in values : v >= w
  IN  IF minimum = maximum THEN 0 ELSE (100 * (value - minimum)) \div (maximum - minimum)

\* Of the candidates, not the representatives only.
persistence_score(year) ==
  (100 * Cardinality({y \in Candidates : year - neighborhood <= y /\ y <= year + neighborhood}))
    \div (2 * neighborhood + 1)

historical_data_risk(year) ==
  IF year < 1900 THEN "high" ELSE IF year < 1950 THEN "medium" ELSE "low"

sparsity_risk(before, after) ==
  IF before < 10 \/ after < 10 THEN "high"
  ELSE IF before < 25 \/ after < 25 THEN "medium" ELSE "low"

known_explanation_risk(hinted) == IF hinted THEN "high" ELSE "low"

Penalties ==
  [sparsity   |-> [high |-> 2000, medium |-> 1000, low |-> 0],
   historical |-> [high |-> 1500, medium |-> 800, low |-> 0],
   known      |-> [high |-> 1000, low |-> 0]]

robustness_score(agreement, domain_agreement, volume, persistence, sparsity, historical, known) ==
  Clip(30 * agreement + 30 * domain_agreement + 20 * volume + 20 * persistence
         - Penalties.sparsity[sparsity] - Penalties.historical[historical] - Penalties.known[known],
       10000)

audit_verdict(score) ==
  IF score >= 7000 THEN "strong_candidate"
  ELSE IF score >= 4500 THEN "moderate_candidate" ELSE "weak_candidate"

\* A candidate's share of the largest affected_domain_count of all candidates.
DomainAgreement(year) ==
  LET counts == {study[y].domains : y \in Candidates} \cup {1}
      maximum == CHOOSE n \in counts : \A m \in counts : n >= m
  IN  (100 * study[year].domains) \div maximum

Robustness(year) ==
  LET s == study[year] IN
  robustness_score(s.agreement, DomainAgreement(year),
                   min_max_normalize(s.volume, {study[y].volume : y \in representatives}),
                   persistence_score(year), sparsity_risk(s.before, s.after),
                   historical_data_risk(year), known_explanation_risk(s.hinted))

\* The columns that are read again, and the verdict.
AuditRow(year) ==
  [source_count |-> study[year].source_count, agreement |-> study[year].agreement,
   historical |-> historical_data_risk(year), robustness |-> Robustness(year),
   verdict |-> audit_verdict(Robustness(year))]

\* rank_breaks has ended.
Ranked == unvisited = {} /\ (representatives # {} => top # {})

\* A faulty variant: the audit takes the candidates of the report, not all representatives.
AuditListed ==
  /\ Ranked
  /\ audit_of # ranking
  /\ audit' = [year \in top |-> AuditRow(year)]
  /\ audit_of' = ranking
  /\ UNCHANGED <<vars, study, neighborhood, ranking, artifacts, artifacts_of>>

\* audit_candidates; a second time on the same ranking it changes nothing.
Audit ==
  /\ Ranked
  /\ audit_of # ranking
  /\ audit' = [year \in representatives |-> AuditRow(year)]
  /\ audit_of' = ranking
  /\ UNCHANGED <<vars, study, neighborhood, ranking, artifacts, artifacts_of>>

-----------------------------------------------------------------------------
(* artifacts.py *)

Missing == -1   \* NaN

\* A faulty variant: a row that is not there has a robustness of 0.
NoRowZero == [source_count |-> 0, agreement |-> 0, historical |-> "low", robustness |-> 0]

\* The defaults of audit_row.get(...), for a year that has not been audited.
NoRow == [source_count |-> 0, agreement |-> 0, historical |-> "low", robustness |-> Missing]

audit_by_year(year) == IF year \in DOMAIN audit THEN audit[year] ELSE NoRow

source_dominance(year, source_count) == source_count <= 1 \/ study[year].share >= 80

extreme_z_score_risk(year) == study[year].max_z >= 100 \/ study[year].mean_z >= 50

\* A faulty variant: the year itself is not looked at.
HistoricalByAudit(year, risk) == risk = "high"

historical_coverage_risk(year, risk) == year < 1900 \/ risk = "high"

revision_artifact_hint(year) == year \in {2012, 2016}

EchoWindow == 5

model_echo_neighbor_years(year, agreement) ==
  {y \in representatives :
     /\ agreement = 100 /\ study[year].metrics # {}
     /\ y # year /\ y >= year - EchoWindow /\ y <= year + EchoWindow
     /\ study[y].metrics = study[year].metrics}

Points(indicator, weight) == IF indicator THEN weight ELSE 0

artifact_score(dominated, extreme, historical, revised, echo, known) ==
  Clip(Points(dominated, 25) + Points(extreme, 25) + Points(historical, 20)
         + Points(revised, 15) + Points(echo, 15) - Points(known, 15), 100)

artifact_verdict(score) ==
  IF score >= 60 THEN "likely_data_artifact"
  ELSE IF score >= 35 THEN "possible_data_artifact" ELSE "low_artifact_risk"

\* What a year's row is when its audit row is `row`.
ArtifactScore(year, row) ==
  artifact_score(source_dominance(year, row.source_count), extreme_z_score_risk(year),
                 historical_coverage_risk(year, row.historical), revision_artifact_hint(year),
                 model_echo_neighbor_years(year, row.agreement) # {}, study[year].hinted)

ArtifactRow(year, row) ==
  [robustness |-> row.robustness,
   dominated  |-> source_dominance(year, row.source_count),
   echoes     |-> model_echo_neighbor_years(year, row.agreement),
   verdict    |-> artifact_verdict(ArtifactScore(year, row))]

\* detect_artifacts; without a candidate_audit.parquet it raises and writes nothing.
Detect ==
  /\ Ranked
  /\ audit_of # 0
  /\ artifacts_of # [ranking |-> ranking, audit |-> audit_of]
  /\ artifacts' = [year \in representatives |-> ArtifactRow(year, audit_by_year(year))]
  /\ artifacts_of' = [ranking |-> ranking, audit |-> audit_of]
  /\ UNCHANGED <<vars, study, neighborhood, ranking, audit, audit_of>>

-----------------------------------------------------------------------------
AuditInit ==
  /\ Init
  /\ study \in [Candidates -> Profiles]
  /\ neighborhood \in Neighborhoods
  /\ ranking = 1
  /\ audit = [year \in {} |-> NoRow] /\ audit_of = 0
  /\ artifacts = [year \in {} |-> NoRow] /\ artifacts_of = Unaudited

\* rank_breaks is run again.  The persistence of the years changes with the
\* neighbourhood, and with it any rank score.
RankAgain ==
  /\ Ranked
  /\ ranking < MaxRankings
  /\ neighborhood' \in Neighborhoods \ {neighborhood}
  /\ rank_score' \in [Candidates -> Scores]
  /\ ranking' = ranking + 1
  /\ unvisited' = Candidates
  /\ representatives' = {}
  /\ representative_for' = [y \in {} |-> y]
  /\ top' = {}
  /\ UNCHANGED <<study, audit, audit_of, artifacts, artifacts_of>>

AuditNext == (Next /\ UNCHANGED auditVars) \/ Audit \/ Detect \/ RankAgain

AuditSpec == AuditInit /\ [][AuditNext]_allVars

-----------------------------------------------------------------------------
\* One source has all or most of a year's anomalies.
Dominated(year) == study[year].source_count = 1 \/ study[year].share >= 80

\* When the three commands have been run in order, every representative is in the
\* artifact table, with the robustness of its audit and a dominance flag that the
\* anomalies justify; and two years that all models agree on echo each other or do not.
ArtifactsInOrder ==
  audit_of = ranking /\ artifacts_of = [ranking |-> ranking, audit |-> ranking] =>
    /\ DOMAIN artifacts = representatives /\ DOMAIN audit = representatives
    /\ \A y \in representatives :
         /\ artifacts[y].robustness = audit[y].robustness
         /\ artifacts[y].dominated <=> Dominated(y)
         /\ \A x \in artifacts[y].echoes :
              study[x].agreement = 100 => y \in artifacts[x].echoes

\* In whatever order they were run, a reader of the artifact table can tell the rows
\* that were joined with no audit: only there a year is called dominated by one source
\* although it is not, and there the robustness is missing.
UnfoundedIsVisible ==
  \A y \in DOMAIN artifacts :
    artifacts[y].dominated /\ ~Dominated(y) => artifacts[y].robustness = Missing

Level(verdict) ==
  [likely_data_artifact |-> 2, possible_data_artifact |-> 1, low_artifact_risk |-> 0][verdict]

\* The verdict of a row that was joined with an old audit or with none is at most one
\* level from the verdict it would have had after an audit of its own.
OneLevelOff ==
  artifacts_of.ranking = ranking =>
    \A y \in DOMAIN artifacts :
      Level(artifacts[y].verdict) - Level(ArtifactRow(y, AuditRow(y)).verdict) \in {-1, 0, 1}
=============================================================================
