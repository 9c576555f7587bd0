----------------------------- MODULE CandidateAuditProofs -----------------------------
(***************************************************************************)
(* Proofs about CandidateAudit, for every study, every set of years, and rank_breaks, *)
(* audit_study and detect_study_artifacts run in any order.  The four properties of    *)
(* the ranking carry over: its steps are those proved of Ranking in the first part, and running it again   *)
(* starts it afresh.  Those of the audit rest on three facts: neither table is younger    *)
(* than the ranking (OrderOfRuns), an audit row repeats what the study knows of its year   *)
(* (RowInv), and a table made in the current ranking is the one that would be made now      *)
(* (AuditedInv, JoinInv, CurrentInv).                                           *)
(***************************************************************************)
EXTENDS CandidateAudit, TLAPS

-----------------------------------------------------------------------------
(* Ranking, for every set of years and of scores, every window and every limit.  None *)
(* of the four properties is inductive alone.  What makes them hold together is the    *)
(* order of the loop (OrderInv: no year still to come outranks one already looked at)  *)
(* and what a claim is (ClaimInv).                                             *)

\* Every claim is by a representative within the window, and representatives hold
\* their own.
ClaimInv ==
  /\ \A y \in DOMAIN representative_for :
       representative_for[y] \in representatives /\ Within(y, representative_for[y])
  /\ \A r \in representatives :
       Nearby(r) \subseteq DOMAIN representative_for /\ representative_for[r] = r

\* The years looked at are claimed, by one that ranks at least as high.
VisitedInv ==
  \A y \in Visited :
    y \in DOMAIN representative_for /\ Outranks(representative_for[y], y)

\* The loop goes from the highest score down.
OrderInv == \A seen \in Visited, u \in unvisited : Outranks(seen, u)

\* The list is made once, when the loop has ended.
ListInv ==
  top # {} =>
    /\ unvisited = {}
    /\ \A y \in top, other \in representatives \ top : Outranks(y, other)

IInv ==
  /\ TypeOK
  /\ Separated
  /\ ClaimInv
  /\ VisitedInv
  /\ OrderInv
  /\ BestIsRepresentative
  /\ ListInv

-----------------------------------------------------------------------------
\* The years are integers and so are their scores; a year is within its own window and
\* being within a window is mutual.
LEMMA WindowFacts ==
  ASSUME NEW x \in Int, NEW y \in Int
  PROVE  /\ Within(x, x)
         /\ Within(x, y) <=> Within(y, x)
         /\ Nearby(x) \subseteq Int
BY RankingAssumption DEF Within, Nearby

LEMMA CandidateFacts ==
  ASSUME TypeOK
  PROVE  /\ Candidates \subseteq Int
         /\ \A y \in Candidates : rank_score[y] \in Int
         /\ Visited \subseteq Candidates
BY RankingAssumption DEF TypeOK, Candidates, Visited

LEMMA Start == Init => IInv
<1> SUFFICES ASSUME Init PROVE IInv
  OBVIOUS
<1>1. TypeOK
  BY DEF Init, TypeOK, Candidates, Visited
<1>2. Separated /\ ClaimInv /\ ListInv
  BY DEF Init, Separated, ClaimInv, ListInv
<1>3. VisitedInv /\ OrderInv /\ BestIsRepresentative
  BY DEF Init, Visited, VisitedInv, OrderInv, BestIsRepresentative
<1> QED
  BY <1>1, <1>2, <1>3 DEF IInv

-----------------------------------------------------------------------------
\* Passing over a claimed year: its claim is by a representative, which was looked at
\* before and so ranks at least as high.
LEMMA SkipStep ==
  ASSUME IInv, NEW year \in Candidates, Skip(year)
  PROVE  IInv'
<1> USE DEF IInv
<1>1. /\ rank_score' = rank_score
      /\ Candidates' = Candidates
      /\ Visited' = Visited \cup {year}
  BY DEF Skip, Candidates, Visited, IsNext
<1>2. TypeOK'
  BY <1>1 DEF Skip, TypeOK
<1>3. Separated' /\ ClaimInv'
  BY DEF Skip, Separated, ClaimInv
<1>4. representative_for[year] \in Visited
  BY DEF Skip, ClaimInv, TypeOK
<1>5. Outranks(representative_for[year], year)
  BY <1>4 DEF Skip, OrderInv, IsNext
<1>6. VisitedInv'
  BY <1>1, <1>5 DEF Skip, VisitedInv, Outranks
<1>7. OrderInv'
  BY <1>1 DEF Skip, OrderInv, IsNext, Outranks
<1>8. BestIsRepresentative'
  <2>1. Visited # {}
    BY <1>4
  <2> QED
    BY <2>1, <1>1 DEF Skip, BestIsRepresentative, Outranks
<1>9. ListInv'
  BY <1>1 DEF Skip, ListInv, Outranks, IsNext
<1> QED
  BY <1>2, <1>3, <1>6, <1>7, <1>8, <1>9

\* Choosing a year nobody claims: it is outside every window, its own claims go to free
\* years only, and the first year chosen is one of the best of all.
LEMMA ChooseStep ==
  ASSUME IInv, NEW year \in Candidates, Choose(year)
  PROVE  IInv'
<1> USE DEF IInv
<1>1. /\ rank_score' = rank_score
      /\ Candidates' = Candidates
      /\ Visited' = Visited \cup {year}
      /\ representatives' = representatives \cup {year}
      /\ year \in unvisited
  BY DEF Choose, Candidates, Visited, IsNext
<1>2. /\ year \in Int
      /\ representatives \subseteq Int
      /\ \A y \in Candidates : rank_score[y] \in Int
  <2>1. representatives \subseteq Visited
    BY DEF TypeOK
  <2> QED
    BY <2>1, CandidateFacts
<1>3. /\ DOMAIN representative_for' = DOMAIN representative_for \cup Nearby(year)
      /\ \A y \in DOMAIN representative_for : representative_for'[y] = representative_for[y]
      /\ \A y \in Nearby(year) \ DOMAIN representative_for : representative_for'[y] = year
  BY DEF Choose, SetDefault
<1>4. year \in Nearby(year)
  BY <1>2, WindowFacts DEF Within
<1>5. TypeOK'
  <2>1. DOMAIN representative_for' = UNION {Nearby(y) : y \in representatives'}
    BY <1>1, <1>3 DEF TypeOK
  <2>2. \A y \in DOMAIN representative_for' : representative_for'[y] \in representatives'
    BY <1>1, <1>3 DEF TypeOK
  <2>3. representative_for' = [y \in DOMAIN representative_for' |-> representative_for'[y]]
    BY DEF Choose, SetDefault
  <2>4. representative_for' \in [UNION {Nearby(y) : y \in representatives'} -> representatives']
    BY <2>1, <2>2, <2>3
  <2>5. /\ \E candidates \in SUBSET Years : rank_score' \in [candidates -> Scores]
        /\ unvisited' \subseteq Candidates'
        /\ representatives' \subseteq Visited'
        /\ top' \subseteq representatives'
    BY <1>1 DEF Choose, TypeOK
  <2> QED
    BY <2>4, <2>5 DEF TypeOK
<1>6. \A r \in representatives : ~Within(year, r) /\ ~Within(r, year)
  <2> SUFFICES ASSUME NEW r \in representatives PROVE ~Within(year, r) /\ ~Within(r, year)
    OBVIOUS
  <2>1. year \notin Nearby(r)
    BY DEF Choose, ClaimInv
  <2> QED
    BY <2>1, <1>2, WindowFacts DEF Within
<1>7. Separated'
  BY <1>1, <1>6 DEF Separated, Within, Nearby
<1>8. ClaimInv'
  <2>1. \A y \in DOMAIN representative_for' :
          representative_for'[y] \in representatives' /\ Within(y, representative_for'[y])
    BY <1>1, <1>3 DEF ClaimInv, Within
  <2>2. \A r \in representatives' :
          Nearby(r) \subseteq DOMAIN representative_for' /\ representative_for'[r] = r
    <3> SUFFICES ASSUME NEW r \in representatives'
                 PROVE  Nearby(r) \subseteq DOMAIN representative_for' /\ representative_for'[r] = r
      OBVIOUS
    <3>1. CASE r = year
      BY <3>1, <1>3, <1>4 DEF Choose
    <3>2. CASE r \in representatives
      <4>1. r \in DOMAIN representative_for
        BY <3>2, <1>2, WindowFacts DEF ClaimInv, Within
      <4> QED
        BY <3>2, <4>1, <1>3 DEF ClaimInv
    <3> QED
      BY <3>1, <3>2, <1>1
  <2> QED
    BY <2>1, <2>2 DEF ClaimInv, Within, Nearby
<1>9. VisitedInv'
  <2>1. representative_for'[year] = year
    BY <1>3, <1>4 DEF Choose
  <2>2. Outranks(year, year)
    BY <1>2 DEF Outranks
  <2> QED
    BY <1>1, <1>3, <1>4, <2>1, <2>2 DEF VisitedInv, Outranks
<1>10. OrderInv'
  BY <1>1 DEF Choose, OrderInv, IsNext, Outranks
<1>11. BestIsRepresentative'
  <2>1. CASE Visited = {}
    <3>1. \A y \in Candidates : Outranks(year, y)
      BY <2>1 DEF Choose, IsNext, Visited
    <3> QED
      BY <3>1, <1>1 DEF BestIsRepresentative, Outranks
  <2>2. CASE Visited # {}
    BY <2>2, <1>1 DEF BestIsRepresentative, Outranks
  <2> QED
    BY <2>1, <2>2
<1>12. ListInv'
  BY <1>1 DEF Choose, ListInv
<1> QED
  BY <1>5, <1>7, <1>8, <1>9, <1>10, <1>11, <1>12

\* Making the list changes nothing else.
LEMMA ListStep ==
  ASSUME IInv, List
  PROVE  IInv'
<1>1. TypeOK'
  BY DEF IInv, TypeOK, List, Candidates, Visited
<1>2. Separated' /\ ClaimInv' /\ VisitedInv' /\ OrderInv' /\ BestIsRepresentative'
  BY DEF IInv, List, Separated, ClaimInv, VisitedInv, OrderInv, BestIsRepresentative,
         Candidates, Visited, Outranks
<1>3. ListInv'
  BY DEF List, ListInv, AreBest, Outranks
<1> QED
  BY <1>1, <1>2, <1>3 DEF IInv

\* IInv holds in every reachable state.
THEOREM Invariance == Spec => []IInv
<1>1. IInv /\ [Next]_vars => IInv'
  <2> SUFFICES ASSUME IInv, [Next]_vars PROVE IInv'
    OBVIOUS
  <2>1. ASSUME NEW year \in Candidates, Skip(year) PROVE IInv'
    BY <2>1, SkipStep
  <2>2. ASSUME NEW year \in Candidates, Choose(year) PROVE IInv'
    BY <2>2, ChooseStep
  <2>3. CASE List
    BY <2>3, ListStep
  <2>4. CASE UNCHANGED vars
    BY <2>4 DEF vars, IInv, TypeOK, Separated, ClaimInv, VisitedInv, OrderInv,
                BestIsRepresentative, ListInv, Candidates, Visited, Outranks
  <2> QED
    BY <2>1, <2>2, <2>3, <2>4 DEF Next
<1> QED
  BY <1>1, Start, PTL DEF Spec

-----------------------------------------------------------------------------
\* The variables keep their types.
THEOREM TypeCorrect == Spec => []TypeOK
<1>1. IInv => TypeOK
  BY DEF IInv
<1> QED
  BY <1>1, Invariance, PTL

\* Representatives are more than the window apart.
THEOREM AlwaysSeparated == Spec => []Separated
<1>1. IInv => Separated
  BY DEF IInv
<1> QED
  BY <1>1, Invariance, PTL

\* Every year looked at has a representative near it that ranks at least as high.
THEOREM AlwaysCovered == Spec => []CoveredByABetter
<1>1. IInv => CoveredByABetter
  BY DEF IInv, CoveredByABetter, ClaimInv, VisitedInv
<1> QED
  BY <1>1, Invariance, PTL

\* A hidden year's representative is chosen and not listed, so it ranks no higher than
\* what is listed, and the year no higher than its representative.
LEMMA InvHidesNothing == IInv => NothingBetterHidden
<1> SUFFICES ASSUME IInv, NEW y \in Candidates, top # {}, representative_for[y] \notin top,
                    NEW t \in top
             PROVE  Outranks(t, y)
  BY DEF NothingBetterHidden
<1> DEFINE r == representative_for[y]
<1>1. y \in Visited
  BY DEF IInv, ListInv, Visited
<1>2. r \in representatives /\ Outranks(r, y)
  BY <1>1 DEF IInv, VisitedInv, ClaimInv
<1>3. Outranks(t, r)
  BY <1>2 DEF IInv, ListInv
<1>4. {t, r, y} \subseteq Candidates
  BY <1>2, CandidateFacts DEF IInv, TypeOK
<1> QED
  BY <1>2, <1>3, <1>4, CandidateFacts DEF IInv, Outranks

\* The list hides no year better than one it shows.
THEOREM NothingBetterEverHidden == Spec => []NothingBetterHidden
BY Invariance, InvHidesNothing, PTL

\* One of the best candidates is always a representative.
THEOREM BestAlwaysRepresentative == Spec => []BestIsRepresentative
<1>1. IInv => BestIsRepresentative
  BY DEF IInv
<1> QED
  BY <1>1, Invariance, PTL

-----------------------------------------------------------------------------
(* CandidateAudit *)

\* The ranking that made a table is not younger than the current one.
OrderOfRuns ==
  /\ ranking \in Nat \ {0}
  /\ audit_of \in 0..ranking
  /\ artifacts_of \in [ranking: 0..ranking, audit: 0..audit_of]

\* The columns of an audit row that are read again are the study's.
Known(year) ==
  [source_count |-> study[year].source_count, agreement |-> study[year].agreement,
   historical |-> historical_data_risk(year)]

Faithful(year, row) ==
  /\ row.source_count = Known(year).source_count
  /\ row.agreement = Known(year).agreement
  /\ row.historical = Known(year).historical

RowInv == \A y \in DOMAIN audit : Faithful(y, audit[y])

\* An audit of the current ranking has all its representatives.
AuditedInv == audit_of = ranking => Ranked /\ DOMAIN audit = representatives

\* A row of an artifact table of the current ranking was joined with a faithful row or
\* with none.
JoinInv ==
  artifacts_of.ranking = ranking =>
    /\ Ranked
    /\ DOMAIN artifacts = representatives
    /\ \A y \in representatives :
         artifacts[y].verdict \in {artifact_verdict(ArtifactScore(y, Known(y))),
                                   artifact_verdict(ArtifactScore(y, NoRow))}

\* An artifact table of the current ranking and the current audit is their join.
CurrentInv ==
  artifacts_of = [ranking |-> ranking, audit |-> audit_of] =>
    \A y \in representatives : artifacts[y] = ArtifactRow(y, audit_by_year(y))

AuditInv ==
  /\ IInv
  /\ study \in [Candidates -> Profiles]
  /\ OrderOfRuns
  /\ RowInv
  /\ AuditedInv
  /\ UnfoundedIsVisible
  /\ JoinInv
  /\ CurrentInv

-----------------------------------------------------------------------------
\* A representative is a candidate, and the study knows it.
LEMMA StudyFacts ==
  ASSUME AuditInv, NEW year \in representatives
  PROVE  /\ year \in Int
         /\ study[year].source_count \in Nat \ {0}
         /\ study[year].share \in 0..100
<1>1. year \in Candidates /\ year \in Int
  BY CandidateFacts DEF AuditInv, IInv, TypeOK
<1>2. study[year] \in Profile
  BY <1>1, AuditAssumption DEF AuditInv
<1> QED
  BY <1>1, <1>2 DEF Profile

\* A row that is not there, or is faithful, flags dominance without ground only if it
\* is not there.
LEMMA FlagFacts ==
  ASSUME AuditInv, NEW year \in representatives, NEW row, Faithful(year, row)
  PROVE  source_dominance(year, row.source_count) <=> Dominated(year)
BY StudyFacts DEF Faithful, Known, source_dominance, Dominated

\* The score of a row depends on the columns it was joined with only.
LEMMA FaithfulScore ==
  ASSUME NEW year, NEW row, Faithful(year, row)
  PROVE  ArtifactScore(year, row) = ArtifactScore(year, Known(year))
BY DEF Faithful, ArtifactScore

LEMMA AuditRowIsFaithful ==
  ASSUME NEW year
  PROVE  Faithful(year, AuditRow(year))
BY DEF Faithful, Known, AuditRow

-----------------------------------------------------------------------------
\* Points that differ by 25 at most are one level apart at most: likely begins 25 above
\* possible, and clipping brings scores nearer to each other.
LEMMA Levels ==
  ASSUME NEW a \in Int, NEW b \in Int, a - b <= 25, b - a <= 25
  PROVE  Level(artifact_verdict(Clip(a, 100))) - Level(artifact_verdict(Clip(b, 100))) \in {-1, 0, 1}
<1>1. /\ Clip(a, 100) \in Int /\ Clip(b, 100) \in Int
      /\ Clip(a, 100) - Clip(b, 100) <= 25 /\ Clip(b, 100) - Clip(a, 100) <= 25
  BY DEF Clip
<1>2. ASSUME NEW s \in Int
      PROVE  Level(artifact_verdict(s)) = IF s >= 60 THEN 2 ELSE IF s >= 35 THEN 1 ELSE 0
  BY DEF Level, artifact_verdict
<1> QED
  BY <1>1, <1>2

\* Without an audit row a year loses an echo (15) or gains a dominance (25); the years
\* before 1900 keep their risk, as the year itself is looked at.
LEMMA WithoutAudit ==
  ASSUME AuditInv, NEW year \in representatives
  PROVE  Level(artifact_verdict(ArtifactScore(year, NoRow)))
           - Level(artifact_verdict(ArtifactScore(year, Known(year)))) \in {-1, 0, 1}
<1> DEFINE row == Known(year)
           echo == model_echo_neighbor_years(year, row.agreement) # {}
           dominated == source_dominance(year, row.source_count)
           Sum(d, e) == Points(d, 25) + Points(extreme_z_score_risk(year), 25)
                          + Points(historical_coverage_risk(year, row.historical), 20)
                          + Points(revision_artifact_hint(year), 15) + Points(e, 15)
                          - Points(study[year].hinted, 15)
<1>1. source_dominance(year, NoRow.source_count)
  BY DEF source_dominance, NoRow
<1>2. model_echo_neighbor_years(year, NoRow.agreement) = {}
  BY DEF model_echo_neighbor_years, NoRow
<1>3. historical_coverage_risk(year, NoRow.historical) = historical_coverage_risk(year, row.historical)
  BY StudyFacts DEF historical_coverage_risk, historical_data_risk, NoRow, Known
<1>4. ArtifactScore(year, NoRow) = Clip(Sum(TRUE, FALSE), 100)
  BY <1>1, <1>2, <1>3 DEF ArtifactScore, artifact_score, Points
<1>5. ArtifactScore(year, row) = Clip(Sum(dominated, echo), 100)
  BY DEF ArtifactScore, artifact_score
<1>6. /\ Sum(TRUE, FALSE) \in Int /\ Sum(dominated, echo) \in Int
      /\ Sum(TRUE, FALSE) - Sum(dominated, echo) <= 25
      /\ Sum(dominated, echo) - Sum(TRUE, FALSE) <= 25
  BY DEF Points
<1> HIDE DEF Sum
<1> QED
  BY ZenonT(30), <1>4, <1>5, <1>6, Levels

-----------------------------------------------------------------------------
LEMMA AuditStart == AuditInit => AuditInv
<1> SUFFICES ASSUME AuditInit PROVE AuditInv
  OBVIOUS
<1>1. IInv /\ study \in [Candidates -> Profiles]
  BY Start DEF AuditInit
<1>2. /\ ranking = 1 /\ audit_of = 0 /\ artifacts_of = [ranking |-> 0, audit |-> 0]
      /\ DOMAIN audit = {} /\ DOMAIN artifacts = {}
  BY DEF AuditInit, Unaudited
<1>3. OrderOfRuns /\ RowInv /\ AuditedInv /\ UnfoundedIsVisible /\ JoinInv /\ CurrentInv
  BY <1>2 DEF OrderOfRuns, RowInv, AuditedInv, UnfoundedIsVisible, JoinInv, CurrentInv
<1> QED
  BY <1>1, <1>3 DEF AuditInv

\* What a row is, depends on the study and the representatives only.
LEMMA SameRows ==
  ASSUME study' = study, representatives' = representatives, NEW year, NEW row
  PROVE  /\ Known(year)' = Known(year)
         /\ ArtifactScore(year, row)' = ArtifactScore(year, row)
         /\ ArtifactRow(year, row)' = ArtifactRow(year, row)
<1>1. Known(year)' = Known(year)
  BY DEF Known
<1>2. /\ source_dominance(year, row.source_count)' = source_dominance(year, row.source_count)
      /\ extreme_z_score_risk(year)' = extreme_z_score_risk(year)
      /\ model_echo_neighbor_years(year, row.agreement)' = model_echo_neighbor_years(year, row.agreement)
  BY DEF source_dominance, extreme_z_score_risk, model_echo_neighbor_years
<1>3. ArtifactScore(year, row)' = ArtifactScore(year, row)
  BY <1>2 DEF ArtifactScore
<1> QED
  BY <1>1, <1>2, <1>3 DEF ArtifactRow

\* A step of the ranking: its loop ends before a table is made and stands still after.
LEMMA RankStep ==
  ASSUME AuditInv, Next, UNCHANGED auditVars
  PROVE  AuditInv'
<1> USE DEF AuditInv, auditVars
<1>1. IInv' /\ rank_score' = rank_score
  BY SkipStep, ChooseStep, ListStep DEF Next, Skip, Choose, List
<1>2. ~Ranked
  <2>1. ASSUME NEW year \in Candidates, Skip(year) \/ Choose(year) PROVE ~Ranked
    BY <2>1 DEF Skip, Choose, IsNext, Ranked
  <2>2. ASSUME List PROVE ~Ranked
    BY <2>2 DEF List, Ranked
  <2> QED
    BY <2>1, <2>2 DEF Next
<1>3. Candidates' = Candidates /\ study' \in [Candidates' -> Profiles]
  BY <1>1 DEF Candidates
<1>4. OrderOfRuns' /\ RowInv'
  BY DEF OrderOfRuns, RowInv, Faithful, Known
<1>5. UnfoundedIsVisible'
  BY DEF UnfoundedIsVisible, Dominated
<1>6. AuditedInv' /\ JoinInv' /\ CurrentInv'
  BY <1>2 DEF AuditedInv, JoinInv, CurrentInv
<1> QED
  BY <1>1, <1>3, <1>4, <1>5, <1>6

\* An audit makes faithful rows; a table made before it is older than the ranking, or
\* was joined with an older audit.
LEMMA AuditStep ==
  ASSUME AuditInv, Audit
  PROVE  AuditInv'
<1> USE DEF AuditInv
<1>1. /\ UNCHANGED <<vars, study, ranking, artifacts, artifacts_of>>
      /\ audit_of' = ranking
      /\ Candidates' = Candidates /\ Ranked' = Ranked
  BY DEF Audit, vars, Candidates, Ranked
<1>2. IInv'
  BY <1>1 DEF vars, IInv, TypeOK, Separated, ClaimInv, VisitedInv, OrderInv,
              BestIsRepresentative, ListInv, Candidates, Visited, Outranks
<1>3. study' \in [Candidates' -> Profiles]
  BY <1>1
<1>4. OrderOfRuns'
  BY <1>1 DEF OrderOfRuns
<1>5. DOMAIN audit' = representatives /\ \A y \in representatives : audit'[y] = AuditRow(y)
  BY DEF Audit
<1>6. RowInv'
  BY <1>1, <1>5, AuditRowIsFaithful DEF RowInv, Faithful, Known
<1>7. AuditedInv'
  BY <1>1, <1>5 DEF AuditedInv, Audit, vars
<1>8. UnfoundedIsVisible'
  BY <1>1 DEF UnfoundedIsVisible, Dominated
<1>9. JoinInv'
  <2> SUFFICES ASSUME artifacts_of.ranking = ranking
               PROVE  /\ Ranked'
                      /\ DOMAIN artifacts' = representatives'
                      /\ \A y \in representatives' :
                           artifacts'[y].verdict \in {artifact_verdict(ArtifactScore(y, Known(y)))',
                                                      artifact_verdict(ArtifactScore(y, NoRow))'}
    BY <1>1 DEF JoinInv
  <2>1. representatives' = representatives
    BY <1>1 DEF vars
  <2>2. \A y, row : ArtifactScore(y, row)' = ArtifactScore(y, row)
    BY <1>1, <2>1, SameRows
  <2>3. \A y : artifact_verdict(ArtifactScore(y, Known(y)))' = artifact_verdict(ArtifactScore(y, Known(y)))
    BY <1>1, <2>1, <2>2 DEF Known, artifact_verdict
  <2> QED
    BY <1>1, <2>1, <2>2, <2>3 DEF JoinInv, artifact_verdict
<1>10. CurrentInv'
  BY <1>1 DEF CurrentInv, OrderOfRuns, Audit
<1> QED
  BY <1>2, <1>3, <1>4, <1>6, <1>7, <1>8, <1>9, <1>10

\* The artifact table is the join of the representatives with the audit there is.
LEMMA DetectStep ==
  ASSUME AuditInv, Detect
  PROVE  AuditInv'
<1> USE DEF AuditInv
<1>1. /\ UNCHANGED <<vars, study, ranking, audit, audit_of>>
      /\ artifacts_of' = [ranking |-> ranking, audit |-> audit_of]
      /\ Candidates' = Candidates /\ Ranked' = Ranked /\ Ranked
      /\ representatives' = representatives
  BY DEF Detect, vars, Candidates, Ranked
<1>2. /\ DOMAIN artifacts' = representatives
      /\ \A y \in representatives : artifacts'[y] = ArtifactRow(y, audit_by_year(y))
  BY DEF Detect
<1>3. \A y \in representatives : audit_by_year(y) = NoRow \/ Faithful(y, audit_by_year(y))
  BY DEF audit_by_year, RowInv
<1>4. IInv'
  BY <1>1 DEF vars, IInv, TypeOK, Separated, ClaimInv, VisitedInv, OrderInv,
              BestIsRepresentative, ListInv, Candidates, Visited, Outranks
<1>5. OrderOfRuns'
  BY <1>1 DEF OrderOfRuns
<1>6. RowInv' /\ AuditedInv'
  BY <1>1 DEF RowInv, Faithful, Known, AuditedInv, vars
<1>7. UnfoundedIsVisible'
  <2> SUFFICES ASSUME NEW y \in representatives, artifacts'[y].dominated, ~Dominated(y)
               PROVE  artifacts'[y].robustness = Missing
    BY <1>1, <1>2 DEF UnfoundedIsVisible, Dominated
  <2>1. source_dominance(y, audit_by_year(y).source_count)
    BY <1>2 DEF ArtifactRow
  <2>2. audit_by_year(y) = NoRow
    BY <1>3, <2>1, FlagFacts
  <2> QED
    BY <1>2, <2>2 DEF ArtifactRow, NoRow
<1>8. JoinInv'
  <2>1. ASSUME NEW y \in representatives
        PROVE  artifacts'[y].verdict \in {artifact_verdict(ArtifactScore(y, Known(y))),
                                          artifact_verdict(ArtifactScore(y, NoRow))}
    <3>1. artifacts'[y].verdict = artifact_verdict(ArtifactScore(y, audit_by_year(y)))
      BY <1>2 DEF ArtifactRow
    <3>2. ArtifactScore(y, audit_by_year(y)) \in {ArtifactScore(y, Known(y)), ArtifactScore(y, NoRow)}
      BY <1>3, FaithfulScore
    <3> QED
      BY <3>1, <3>2
  <2>2. \A y, row : ArtifactScore(y, row)' = ArtifactScore(y, row)
    BY <1>1, SameRows
  <2>3. \A y : /\ artifact_verdict(ArtifactScore(y, Known(y)))' = artifact_verdict(ArtifactScore(y, Known(y)))
               /\ artifact_verdict(ArtifactScore(y, NoRow))' = artifact_verdict(ArtifactScore(y, NoRow))
    BY <1>1, <2>2 DEF Known, artifact_verdict
  <2> QED
    BY <1>1, <1>2, <2>1, <2>3 DEF JoinInv
<1>9. CurrentInv'
  <2>1. \A y, row : ArtifactRow(y, row)' = ArtifactRow(y, row)
    BY <1>1, SameRows
  <2>2. \A y : audit_by_year(y)' = audit_by_year(y)
    BY <1>1 DEF audit_by_year
  <2>3. \A y : ArtifactRow(y, audit_by_year(y))' = ArtifactRow(y, audit_by_year(y))
    BY <2>1, <2>2
  <2> QED
    BY <1>1, <1>2, <2>3 DEF CurrentInv
<1> QED
  BY <1>1, <1>4, <1>5, <1>6, <1>7, <1>8, <1>9

\* A new ranking starts afresh, and no table is of it.
LEMMA RankAgainStep ==
  ASSUME AuditInv, RankAgain
  PROVE  AuditInv'
<1> USE DEF AuditInv
<1>1. /\ UNCHANGED <<study, audit, audit_of, artifacts, artifacts_of>>
      /\ ranking' = ranking + 1
      /\ rank_score' \in [Candidates -> Scores]
      /\ Candidates' = Candidates
  BY DEF RankAgain, Candidates
<1>2. Visited' = {}
  BY <1>1 DEF RankAgain, Visited, Candidates
<1>3. IInv'
  <2>1. TypeOK'
    BY <1>1, <1>2 DEF RankAgain, IInv, TypeOK, Candidates
  <2>2. Separated' /\ ClaimInv' /\ ListInv'
    BY DEF RankAgain, Separated, ClaimInv, ListInv
  <2>3. VisitedInv' /\ OrderInv' /\ BestIsRepresentative'
    BY <1>2 DEF VisitedInv, OrderInv, BestIsRepresentative
  <2> QED
    BY <2>1, <2>2, <2>3 DEF IInv
<1>4. study' \in [Candidates' -> Profiles]
  BY <1>1
<1>5. OrderOfRuns'
  BY <1>1 DEF OrderOfRuns
<1>6. RowInv' /\ UnfoundedIsVisible'
  BY <1>1 DEF RowInv, Faithful, Known, UnfoundedIsVisible, Dominated
<1>7. AuditedInv' /\ JoinInv' /\ CurrentInv'
  BY <1>1 DEF AuditedInv, JoinInv, CurrentInv, OrderOfRuns
<1> QED
  BY <1>3, <1>4, <1>5, <1>6, <1>7

\* The invariant of the three commands.
THEOREM AuditInvariance == AuditSpec => []AuditInv
<1>1. AuditInv /\ [AuditNext]_allVars => AuditInv'
  <2> SUFFICES ASSUME AuditInv, [AuditNext]_allVars PROVE AuditInv'
    OBVIOUS
  <2>1. CASE Next /\ UNCHANGED auditVars
    BY <2>1, RankStep
  <2>2. CASE Audit
    BY <2>2, AuditStep
  <2>3. CASE Detect
    BY <2>3, DetectStep
  <2>4. CASE RankAgain
    BY <2>4, RankAgainStep
  <2>5. CASE UNCHANGED allVars
    <3>1. UNCHANGED vars /\ UNCHANGED auditVars
      BY <2>5 DEF allVars
    <3>2. UNCHANGED <<study, ranking, audit, audit_of, artifacts, artifacts_of, representatives>>
          /\ Ranked' = Ranked /\ Candidates' = Candidates
      BY <3>1 DEF auditVars, vars, Ranked, Candidates
    <3>3. IInv'
      BY <3>1 DEF AuditInv, vars, IInv, TypeOK, Separated, ClaimInv, VisitedInv, OrderInv,
                  BestIsRepresentative, ListInv, Candidates, Visited, Outranks
    <3>4. \A y, row : /\ ArtifactScore(y, row)' = ArtifactScore(y, row)
                      /\ ArtifactRow(y, row)' = ArtifactRow(y, row)
      BY <3>2, SameRows
    <3>5. \A y : /\ artifact_verdict(ArtifactScore(y, Known(y)))' = artifact_verdict(ArtifactScore(y, Known(y)))
                 /\ artifact_verdict(ArtifactScore(y, NoRow))' = artifact_verdict(ArtifactScore(y, NoRow))
                 /\ ArtifactRow(y, audit_by_year(y))' = ArtifactRow(y, audit_by_year(y))
      BY <3>2, <3>4 DEF Known, artifact_verdict, audit_by_year
    <3>6. (study \in [Candidates -> Profiles])' /\ OrderOfRuns' /\ RowInv' /\ AuditedInv' /\ UnfoundedIsVisible'
      BY <3>2 DEF AuditInv, OrderOfRuns, RowInv, Faithful, Known, AuditedInv, UnfoundedIsVisible, Dominated
    <3>7. JoinInv' /\ CurrentInv'
      BY <3>2, <3>5 DEF AuditInv, JoinInv, CurrentInv
    <3> QED
      BY <3>3, <3>6, <3>7 DEF AuditInv
  <2> QED
    BY <2>1, <2>2, <2>3, <2>4, <2>5 DEF AuditNext
<1> QED
  BY <1>1, AuditStart, PTL DEF AuditSpec

-----------------------------------------------------------------------------
\* The ranking's properties hold however often it is run again, and whatever is made of
\* it in between: representatives stay apart, every year looked at is covered by a better
\* one, one of the best is among them, and the list hides none better than it shows.
THEOREM RankedAgainAlike ==
  AuditSpec => [](Separated /\ CoveredByABetter /\ BestIsRepresentative /\ NothingBetterHidden)
<1>1. AuditInv => Separated /\ BestIsRepresentative
  BY DEF AuditInv, IInv
<1>2. AuditInv => CoveredByABetter
  BY DEF AuditInv, IInv, CoveredByABetter, ClaimInv, VisitedInv
<1>3. AuditInv => NothingBetterHidden
  BY InvHidesNothing DEF AuditInv
<1> QED
  BY <1>1, <1>2, <1>3, AuditInvariance, PTL

\* Rows that call a year dominated without ground show that they were joined with no
\* audit, in whatever order the commands were run.
THEOREM UnfoundedAlwaysVisible == AuditSpec => []UnfoundedIsVisible
<1>1. AuditInv => UnfoundedIsVisible
  BY DEF AuditInv
<1> QED
  BY <1>1, AuditInvariance, PTL

\* The commands run in order give every representative a row of its own audit, and
\* echoes go both ways between years that all models agree on.
THEOREM ArtifactsAlwaysInOrder == AuditSpec => []ArtifactsInOrder
<1>1. AuditInv => ArtifactsInOrder
  <2> SUFFICES ASSUME AuditInv, audit_of = ranking,
                      artifacts_of = [ranking |-> ranking, audit |-> ranking]
               PROVE  /\ DOMAIN artifacts = representatives /\ DOMAIN audit = representatives
                      /\ \A y \in representatives :
                           /\ artifacts[y].robustness = audit[y].robustness
                           /\ artifacts[y].dominated <=> Dominated(y)
                           /\ \A x \in artifacts[y].echoes :
                                study[x].agreement = 100 => y \in artifacts[x].echoes
    BY DEF ArtifactsInOrder
  <2>1. DOMAIN artifacts = representatives /\ DOMAIN audit = representatives
    BY DEF AuditInv, JoinInv, AuditedInv
  <2>2. ASSUME NEW y \in representatives
        PROVE  /\ Faithful(y, audit[y])
               /\ artifacts[y].robustness = audit[y].robustness
               /\ artifacts[y].dominated = source_dominance(y, audit[y].source_count)
               /\ artifacts[y].echoes = model_echo_neighbor_years(y, study[y].agreement)
    <3>1. Faithful(y, audit[y]) /\ audit_by_year(y) = audit[y]
      BY <2>1 DEF AuditInv, RowInv, audit_by_year
    <3>2. artifacts[y] = ArtifactRow(y, audit[y])
      BY <3>1 DEF AuditInv, CurrentInv
    <3>3. audit[y].agreement = study[y].agreement
      BY <3>1 DEF Faithful, Known
    <3> QED
      BY <3>1, <3>2, <3>3 DEF ArtifactRow
  <2>3. ASSUME NEW y \in representatives
        PROVE  artifacts[y].dominated <=> Dominated(y)
    <3>1. Faithful(y, audit[y]) /\ artifacts[y].dominated = source_dominance(y, audit[y].source_count)
      BY <2>2
    <3> QED
      BY <3>1, FlagFacts
  <2>4. ASSUME NEW y \in representatives, NEW x \in artifacts[y].echoes, study[x].agreement = 100
        PROVE  y \in artifacts[x].echoes
    <3>1. artifacts[y].echoes = model_echo_neighbor_years(y, study[y].agreement)
      BY <2>2
    <3>2. x \in representatives
      BY <3>1 DEF model_echo_neighbor_years
    <3>3. artifacts[x].echoes = model_echo_neighbor_years(x, 100)
      BY <2>2, <2>4, <3>2
    <3>4. x \in Int /\ y \in Int
      BY <3>2, StudyFacts
    <3> QED
      BY <3>1, <3>2, <3>3, <3>4 DEF model_echo_neighbor_years, EchoWindow
  <2> QED
    BY <2>1, <2>2, <2>3, <2>4
<1> QED
  BY <1>1, AuditInvariance, PTL

\* A verdict joined with an old audit or with none is one level off at most: an old row
\* is as good as a new one, and without any row the score moves by at most 25.
THEOREM AlwaysOneLevelOff == AuditSpec => []OneLevelOff
<1>1. AuditInv => OneLevelOff
  <2> SUFFICES ASSUME AuditInv, artifacts_of.ranking = ranking, NEW y \in DOMAIN artifacts
               PROVE  Level(artifacts[y].verdict) - Level(ArtifactRow(y, AuditRow(y)).verdict) \in {-1, 0, 1}
    BY DEF OneLevelOff
  <2>1. /\ y \in representatives
        /\ artifacts[y].verdict \in {artifact_verdict(ArtifactScore(y, Known(y))),
                                     artifact_verdict(ArtifactScore(y, NoRow))}
    BY DEF AuditInv, JoinInv
  <2>2. ArtifactRow(y, AuditRow(y)).verdict = artifact_verdict(ArtifactScore(y, Known(y)))
    BY AuditRowIsFaithful, FaithfulScore DEF ArtifactRow
  <2>3. Level(artifact_verdict(ArtifactScore(y, Known(y)))) \in Int
    BY DEF Level, artifact_verdict
  <2> QED
    BY <2>1, <2>2, <2>3, WithoutAudit
<1> QED
  BY <1>1, AuditInvariance, PTL
=============================================================================
