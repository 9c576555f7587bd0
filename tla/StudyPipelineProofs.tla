----------------------------- MODULE StudyPipelineProofs -----------------------------
(***************************************************************************)
(* Proofs about StudyPipeline and the Ingestion it extends, for any connectors with any *)
(* numbers of series and pages, any number of commands typed in any order and any        *)
(* number of kills and failures.                                                 *)
(*                                                                         *)
(* What is on the disk under the number of the command that runs is what that command     *)
(* has done (DiskInv, WritingInv); everything older was left behind by a command that has  *)
(* ended, and is not touched by the one that runs unless it is what the command writes     *)
(* (AgesInv, FoldersInv).  With that, three of the four properties are inductive, and      *)
(* the fourth, FilesBelongTogether, is FoldersInv without the ages.                  *)
(***************************************************************************)
EXTENDS StudyPipeline, FiniteSetTheorems, SequenceTheorems, WellFoundedInduction, TLAPS

-----------------------------------------------------------------------------
(* The invariant of the data directory. *)

\* Nothing is younger than the command that was typed last, and a raw file belongs to one
\* of the series of its source.
AgesInv ==
  /\ run \in Nat
  /\ \A f \in DOMAIN raw : f.run \in 0..run /\ f.dataset.series \in Nat
  /\ \A t \in DOMAIN tables : tables[t].run \in 0..run

\* Between two commands nothing is left in memory.
IdleInv ==
  cmd = "idle" =>
    /\ fetched = <<>> /\ todo = <<>> /\ step = 0 /\ written_count = 0
    /\ frame = Nothing /\ source = 1

Kinds == {"page", "works_publication_year", "machine_learning", "works_created", "csv",
          "source_metadata"}

\* The request a dataset is the answer to.
Request(dataset) ==
  [series |-> dataset.series, kind |-> IF dataset.kind = "combined" THEN "page" ELSE dataset.kind]

\* The pages of a request in the list made so far.
PagesOf(list, request) ==
  {i \in DOMAIN list : list[i].series = request.series /\ list[i].kind = "page"}

\* No request is made twice, and no two datasets have the same name: what is in the list
\* answers requests that are done, or is one of the first pages of the present one.
FetchFits(requests, list) ==
  /\ requests \in Seq([series : Nat, kind : Kinds])
  /\ list \in Seq([series : Nat, kind : Kinds \cup {"combined"}, page : Nat])
  /\ IsInjective(requests) /\ IsInjective(list)
  /\ \A i \in DOMAIN list : \A j \in DOMAIN requests :
       Request(list[i]) = requests[j] =>
         /\ j = 1 /\ list[i].kind = "page"
         /\ list[i].page \in 1..Cardinality(PagesOf(list, requests[1]))

FetchInv == FetchFits(todo, fetched)

\* The file of the j-th dataset, and how many files have been begun and finished.
File(j)  == [run |-> run, source |-> Src, dataset |-> fetched[j]]
Finished == written_count \div 2
Begun    == IF step = 0 THEN Finished ELSE Finished + 1

\* The files on the disk are those of the datasets stored so far.
DiskInv ==
  /\ written_count \in Nat /\ written_count = 2 * Finished /\ Begun <= Len(fetched)
  /\ step \in 0..3
  /\ todo # <<>> => written_count = 0 /\ step = 0
  /\ {f \in DOMAIN raw : f.source = Src /\ f.run = run} = {File(j) : j \in 1..Begun}
  /\ \A j \in 1..Finished : raw[File(j)].whole /\ raw[File(j)].metadata = "whole"

\* The loop over sources: later ones have no file yet, and no summary.
LoopInv ==
  /\ source \in DOMAIN Sources
  /\ \A f \in DOMAIN raw : f.run = run => \E k \in 1..source : f.source = Sources[k]
  /\ \A s \in DOMAIN summaries : \E k \in 1..source - 1 : s = Sources[k]

IngestInv == cmd = "ingest" => FetchInv /\ DiskInv /\ LoopInv

\* The frame holds what a table may not lose.
FrameInv ==
  cmd = "normalize" /\ frame # Nothing =>
    /\ DOMAIN frame \subseteq Nat /\ DOMAIN frame # {}
    /\ \A m \in DOMAIN frame : \A f \in Readable(Src) :
         Metric(f) = m => IF raw[f].whole THEN f \in frame[m] ELSE Lenient(Src)

DataInv == IdleInv /\ AgesInv /\ IngestInv /\ FrameInv /\ SummariesTellTheDisk /\ NothingDroppedSilently

-----------------------------------------------------------------------------
(* The invariant of the study folders. *)

StudyCommands == {"backtest", "backtest_advanced"}
StageCommands == {"rank_breaks", "audit_candidates", "detect_artifacts", "analyze_agents"}
Commands      == StudyCommands \cup StageCommands \cup {"demo_study", "draft_paper"}

\* What a command writes to.
TargetInv ==
  /\ target # NoTarget <=> cmd \in Commands
  /\ cmd \in StudyCommands => target = Study(Len(studies)) /\ Len(studies) > 0
  /\ cmd \in StageCommands => target = Demo \/ \E n \in DOMAIN studies : target = Study(n)
  /\ cmd = "demo_study" => target = Demo
  /\ cmd = "draft_paper" => target = Paper

\* The names of all files.
FileNames ==
  {"raw", "raw_metadata", "normalized", "statistics",
   "forecast_errors.parquet", "anomalies.parquet", "cross_domain_breaks.parquet",
   "model_comparison.parquet", "summary.json", "provenance.json", "study.md",
   "demo_manifest.json",
   "ranked_break_candidates.parquet", "ranked_break_candidates.json",
   "ordinary_explanation_hints.json", "top_break_candidates.md",
   "candidate_audit.parquet", "candidate_audit.json", "candidate_audit.md",
   "data_artifact_audit.parquet", "data_artifact_audit.json", "data_artifact_audit.md",
   "agents/skeptic.md", "agents/synthesis.md", "agents/agent_run.json",
   "key_results.csv", "artifact_summary.csv", "model_comparison.csv",
   "source_snapshot.json", "draft_v1.md", "draft_v1_metadata.json"}

\* The groups of files FilesBelongTogether is about.
PaperGroups ==
  {[first |-> "source_snapshot.json", last |-> "draft_v1_metadata.json", files |-> {"draft_v1.md"}]}
StudyGroups ==
  {[first |-> "forecast_errors.parquet", last |-> "study.md", files |-> VALID_STUDY_FILES],
   [first |-> "ranked_break_candidates.parquet", last |-> "top_break_candidates.md",
    files |-> {"ranked_break_candidates.json"}],
   [first |-> "candidate_audit.parquet", last |-> "candidate_audit.md",
    files |-> {"candidate_audit.json"}],
   [first |-> "data_artifact_audit.parquet", last |-> "data_artifact_audit.md",
    files |-> {"data_artifact_audit.json"}]}
Groups(t) == IF t = Paper THEN PaperGroups ELSE StudyGroups

Members(group) == {group.first, group.last} \cup group.files

\* A list of files has a group in its order: the first, those between, the last.
InOrder(list, group) ==
  \A i, j \in DOMAIN list :
    /\ list[j] = group.last /\ list[i] \in Members(group) \ {group.last} => i < j
    /\ list[i] = group.first /\ list[j] \in group.files \ {group.first} => i < j

WrittenNow(folder, f) == f \in DOMAIN folder /\ folder[f].run = run /\ folder[f].whole

\* Of a group the command writes, what is not to be written any more is there.
GroupInv(list, folder, group) ==
  \/ ToSet(list) \cap Members(group) = {}
  \/ /\ group.last \in ToSet(list)
     /\ \A f \in Members(group) : f \in ToSet(list) \/ WrittenNow(folder, f)
     /\ InOrder(list, group)

\* What the command has still to write is older than the command, but for the file that
\* is open.
OlderInv(list, folder) ==
  \A j \in DOMAIN list :
    list[j] \in DOMAIN folder /\ folder[list[j]].run = run => j = 1 /\ step = 1

WritingInv ==
  target # NoTarget =>
    /\ step \in {0, 1}
    /\ todo \in Seq(FileNames) /\ todo # <<>> /\ IsInjective(todo)
    /\ OlderInv(todo, Folder(target))
    /\ \A group \in Groups(target) : GroupInv(todo, Folder(target), group)
    /\ cmd = "analyze_agents" => todo[Len(todo)] = "agents/agent_run.json"

Aged(folder, now) == \A f \in DOMAIN folder : folder[f].run \in 0..now

Whole(folder, groups) ==
  \A group \in groups : Together(folder, group.first, group.last, group.files)

FoldersInv ==
  /\ studies \in Seq(ToSet(studies))
  /\ \A n \in DOMAIN studies : Aged(studies[n], run) /\ Whole(studies[n], StudyGroups)
  /\ Aged(demo, run) /\ Whole(demo, StudyGroups)
  /\ Aged(paper, run) /\ Whole(paper, PaperGroups)

\* Every study is somewhere in the order of modification times, and those that are valid
\* are in the order they were made, as long as nobody names one.
RecencyInv ==
  /\ recency \in Seq(DOMAIN studies) /\ IsInjective(recency)
  /\ \A n \in DOMAIN studies : \E i \in DOMAIN recency : recency[i] = n
  /\ ~pathGiven =>
       \A i, j \in DOMAIN recency :
         i < j /\ IsValid(studies[recency[i]]) /\ IsValid(studies[recency[j]]) => recency[i] < recency[j]

\* A stage works on a study, and unless one was named on the newest.
StageInv ==
  /\ cmd \in StageCommands /\ ~pathGiven => target # Demo
  /\ StagesOnNewestStudy

StudyInv == run \in Nat /\ TargetInv /\ WritingInv /\ FoldersInv /\ RecencyInv /\ StageInv

-----------------------------------------------------------------------------
(* Lemmas about sequences, sets and folders. *)

\* The table, folder or list with one more entry.
LEMMA PutEntry ==
  ASSUME NEW f, NEW x, NEW y
  PROVE  /\ DOMAIN Put(f, x, y) = DOMAIN f \cup {x}
         /\ Put(f, x, y)[x] = y
         /\ \A z \in DOMAIN f : z # x => Put(f, x, y)[z] = f[z]
BY DEF Put

\* A sequence with one more element.
LEMMA AppendElement ==
  ASSUME NEW S, NEW s \in Seq(S), NEW e \in S
  PROVE  /\ Append(s, e) \in Seq(S)
         /\ Len(s) \in Nat /\ DOMAIN s = 1..Len(s)
         /\ DOMAIN Append(s, e) = 1..Len(s) + 1 /\ Len(Append(s, e)) = Len(s) + 1
         /\ \A i \in DOMAIN s : Append(s, e)[i] = s[i]
         /\ Append(s, e)[Len(s) + 1] = e
OBVIOUS

\* A sequence without its first element.
LEMMA TailElements ==
  ASSUME NEW S, NEW s \in Seq(S), s # <<>>
  PROVE  /\ Tail(s) \in Seq(S)
         /\ Len(s) \in Nat \ {0} /\ DOMAIN s = 1..Len(s)
         /\ Len(Tail(s)) = Len(s) - 1 /\ DOMAIN Tail(s) = 1..Len(s) - 1
         /\ \A j \in DOMAIN Tail(s) : Tail(s)[j] = s[j + 1] /\ j + 1 \in DOMAIN s
         /\ Head(s) = s[1] /\ 1 \in DOMAIN s /\ s[1] \in S
OBVIOUS

\* A list of different things stays one when a new thing is appended,
LEMMA InjectiveAppend ==
  ASSUME NEW S, NEW s \in Seq(S), NEW e \in S, IsInjective(s), \A i \in DOMAIN s : s[i] # e
  PROVE  IsInjective(Append(s, e))
<1> DEFINE t == Append(s, e)
<1>1. /\ Len(s) \in Nat /\ DOMAIN s = 1..Len(s) /\ DOMAIN t = 1..Len(s) + 1
      /\ \A i \in DOMAIN s : t[i] = s[i]
      /\ t[Len(s) + 1] = e
  BY AppendElement
<1> HIDE DEF t
<1> SUFFICES ASSUME NEW a \in DOMAIN t, NEW b \in DOMAIN t, t[a] = t[b] PROVE a = b
  BY DEF IsInjective, t
<1>2. a = Len(s) + 1 \/ a \in DOMAIN s
  BY <1>1
<1>3. b = Len(s) + 1 \/ b \in DOMAIN s
  BY <1>1
<1> QED
  BY <1>1, <1>2, <1>3 DEF IsInjective

\* and when its first thing is taken away, which is then no longer in it.
LEMMA InjectiveTail ==
  ASSUME NEW S, NEW s \in Seq(S), s # <<>>, IsInjective(s)
  PROVE  IsInjective(Tail(s)) /\ \A j \in DOMAIN Tail(s) : Tail(s)[j] # s[1]
<1>1. /\ Len(s) \in Nat \ {0} /\ DOMAIN s = 1..Len(s) /\ DOMAIN Tail(s) = 1..Len(s) - 1
      /\ \A j \in DOMAIN Tail(s) : Tail(s)[j] = s[j + 1] /\ j + 1 \in DOMAIN s
      /\ 1 \in DOMAIN s
  BY TailElements, Zenon
<1>2. \A a, b \in DOMAIN s : s[a] = s[b] => a = b
  BY DEF IsInjective
<1>3. ASSUME NEW a \in DOMAIN Tail(s), NEW b \in DOMAIN Tail(s), Tail(s)[a] = Tail(s)[b]
      PROVE  a = b
  <2>1. a + 1 = b + 1
    BY <1>1, <1>2, <1>3
  <2> QED
    BY <1>1, <2>1
<1>4. ASSUME NEW j \in DOMAIN Tail(s), Tail(s)[j] = s[1]
      PROVE  FALSE
  <2>1. j + 1 = 1
    BY <1>1, <1>2, <1>4
  <2> QED
    BY <1>1, <2>1
<1> QED
  BY <1>3, <1>4 DEF IsInjective

\* A list of different things has as many as its length.
LEMMA OneEach ==
  ASSUME NEW n \in Nat, NEW f, DOMAIN f = 1..n, IsInjective(f)
  PROVE  Cardinality({f[i] : i \in 1..n}) = n
<1> DEFINE T == {f[i] : i \in 1..n}
           b == [i \in 1..n |-> f[i]]
<1>1. b \in [1..n -> T] /\ \A t \in T : \E i \in 1..n : b[i] = t
  OBVIOUS
<1>2. \A i, j \in 1..n : b[i] = b[j] => i = j
  BY DEF IsInjective
<1>3. ExistsBijection(1..n, T)
  BY <1>1, <1>2 DEF ExistsBijection, Bijection, Injection, Surjection, IsInjective
<1> QED
  BY <1>3, FS_CountingElements

\* A set of numbers that is not empty has a smallest one.
LEMMA FirstMetric ==
  ASSUME NEW S, S \subseteq Nat, S # {}
  PROVE  Min(S) \in S
<1>1. IsWellFoundedOn(OpToRel(<, Nat), Nat)
  BY NatLessThanWellFounded
<1>2. PICK x \in S : \A y \in S : ~(<<y, x>> \in OpToRel(<, Nat))
  BY <1>1, WFMin
<1>3. ASSUME NEW y \in S PROVE x <= y
  <2>1. ~(y < x)
    BY <1>2, <1>3 DEF OpToRel
  <2> QED
    BY <2>1
<1> QED
  BY <1>3 DEF Min

-----------------------------------------------------------------------------
(* Requests and datasets. *)

\* What the proofs use of the parameters.
LEMMA SourcesAreListed ==
  /\ Sources \in Seq({"world_bank_wdi", "openalex", "arxiv", "crossref", "owid"})
  /\ IsInjective(Sources)
  /\ Len(Sources) \in Nat \ {0} /\ DOMAIN Sources = 1..Len(Sources)
  /\ \A k \in DOMAIN Sources : Sources[k] \in ToSet(Sources)
  /\ \A s \in ToSet(Sources) : Series[s] \in Nat \ {0}
<1>1. /\ Sources \in Seq({"world_bank_wdi", "openalex", "arxiv", "crossref", "owid"})
      /\ Sources # <<>> /\ IsInjective(Sources) /\ Series \in [ToSet(Sources) -> Nat \ {0}]
  BY IngestionAssumption
<1> QED
  BY <1>1 DEF ToSet

\* A function on an initial part of the numbers is a list.
LEMMA ListOf ==
  ASSUME NEW n \in Nat, NEW S, NEW R, R = [k \in 1..n |-> R[k]], \A k \in 1..n : R[k] \in S
  PROVE  R \in Seq(S)
OBVIOUS

\* A connector makes no request twice.
LEMMA RequestsDiffer ==
  ASSUME NEW s \in ToSet(Sources)
  PROVE  Requests(s) \in Seq([series : Nat, kind : Kinds]) /\ IsInjective(Requests(s))
<1> DEFINE N == Series[s]
<1>1. s \in {"world_bank_wdi", "openalex", "arxiv", "crossref", "owid"} /\ N \in Nat \ {0}
  BY SourcesAreListed DEF ToSet
<1> HIDE DEF N
<1>2. CASE s = "owid"
  <2>1. \A i : Asks(s, i) = <<Ask(i, "csv"), Ask(i, "source_metadata")>>
    BY <1>2 DEF Asks, Owid
  <2>2. Requests(s) = [k \in 1..2 * N |->
          IF (k - 1) % 2 = 0 THEN Ask((k - 1) \div 2 + 1, "csv")
                             ELSE Ask((k - 1) \div 2 + 1, "source_metadata")]
    <3>1. Len(Asks(s, 1)) = 2
      BY <2>1
    <3>2. \A k \in 1..2 * N : (k - 1) % 2 \in {0, 1}
      BY <1>1
    <3>3. \A i : Asks(s, i)[0 + 1] = Ask(i, "csv") /\ Asks(s, i)[1 + 1] = Ask(i, "source_metadata")
      BY <2>1
    <3> QED
      BY <3>1, <3>2, <3>3 DEF Requests, N
  <2> DEFINE R == Requests(s)
  <2>3. DOMAIN R = 1..2 * N /\ 2 * N \in Nat
    BY <1>1, <2>2
  <2>4. \A k \in 1..2 * N : R[k] =
          IF (k - 1) % 2 = 0 THEN Ask((k - 1) \div 2 + 1, "csv")
                             ELSE Ask((k - 1) \div 2 + 1, "source_metadata")
    BY <2>2, Zenon
  <2> HIDE DEF R
  <2>5. ASSUME NEW k \in 1..2 * N
        PROVE  /\ R[k] \in [series : Nat, kind : Kinds]
               /\ R[k].series = (k - 1) \div 2 + 1
               /\ R[k].kind = "csv" <=> (k - 1) % 2 = 0
    <3> DEFINE q == (k - 1) \div 2 + 1
               even == (k - 1) % 2 = 0
    <3>1. q \in Nat
      BY <1>1
    <3>2. R[k] = IF even THEN Ask(q, "csv") ELSE Ask(q, "source_metadata")
      BY <2>4, Zenon
    <3> HIDE DEF q, even
    <3>3. /\ R[k] \in [series : Nat, kind : Kinds]
          /\ R[k].series = q /\ (R[k].kind = "csv" <=> even)
      BY <3>1, <3>2 DEF Ask, Kinds
    <3> QED
      BY <3>3, Zenon DEF q, even
  <2>6. R = [k \in 1..2 * N |-> R[k]]
    BY <2>2 DEF R
  <2>7. R \in Seq([series : Nat, kind : Kinds])
    BY <2>3, <2>5, <2>6, ListOf, Zenon
  <2>8. ASSUME NEW j \in 1..2 * N, NEW k \in 1..2 * N, R[j] = R[k] PROVE j = k
    <3>1. (j - 1) \div 2 + 1 = (k - 1) \div 2 + 1 /\ ((j - 1) % 2 = 0 <=> (k - 1) % 2 = 0)
      BY <2>5, <2>8, Zenon
    <3> QED
      BY <1>1, <3>1
  <2>9. IsInjective(R)
    BY <2>3, <2>8 DEF IsInjective
  <2> QED
    BY <2>7, <2>9 DEF R
<1>3. CASE s # "owid"
  <2>1. PICK kind \in Kinds : \A i : Asks(s, i) = <<Ask(i, kind)>>
    BY <1>1, <1>3 DEF Asks, WorldBank, OpenAlex, Arxiv, Crossref, Kinds
  <2>2. Requests(s) = [k \in 1..N |-> Ask(k, kind)]
    <3>1. Len(Asks(s, 1)) = 1
      BY <2>1
    <3>2. \A k \in 1..N : (k - 1) % 1 = 0 /\ (k - 1) \div 1 + 1 = k
      BY <1>1
    <3>3. \A i : Asks(s, i)[0 + 1] = Ask(i, kind)
      BY <2>1
    <3>4. Requests(s) = [k \in 1..1 * N |-> Asks(s, (k - 1) \div 1 + 1)[((k - 1) % 1) + 1]]
      BY <3>1 DEF Requests, N
    <3>5. 1 * N = N
      BY <1>1
    <3> QED
      BY <3>2, <3>3, <3>4, <3>5
  <2> QED
    BY <1>1, <2>1, <2>2 DEF Ask, IsInjective
<1> QED
  BY <1>2, <1>3

\* Another page of the request that is made again.
LEMMA PageFits ==
  ASSUME NEW requests, NEW list, FetchFits(requests, list), requests # <<>>,
         requests[1].kind = "page",
         NEW d, d = Dataset(requests[1], Cardinality(PagesOf(list, requests[1])) + 1)
  PROVE  FetchFits(requests, Append(list, d))
<1> DEFINE K == [series : Nat, kind : Kinds]
           D == [series : Nat, kind : Kinds \cup {"combined"}, page : Nat]
           h == requests[1]
           new == Append(list, d)
           pages == PagesOf(list, h)
<1>1. requests \in Seq(K) /\ list \in Seq(D) /\ IsInjective(requests) /\ IsInjective(list)
  BY DEF FetchFits
<1>2. h \in K /\ 1 \in DOMAIN requests
  BY <1>1, TailElements, Zenon
<1>3. IsFiniteSet(pages) /\ Cardinality(pages) \in Nat
  <2>1. pages \in SUBSET (1..Len(list)) /\ Len(list) \in Nat
    BY <1>1 DEF PagesOf
  <2>2. IsFiniteSet(1..Len(list))
    BY <2>1, FS_Interval
  <2> QED
    BY <2>1, <2>2, FS_Subset, FS_CardinalityType
<1> HIDE DEF pages
<1>4. d.series = h.series /\ d.kind = "page" /\ d.page = Cardinality(pages) + 1 /\ d \in D
  BY <1>2, <1>3 DEF Dataset, pages
<1> HIDE DEF D, K
<1>5. /\ new \in Seq(D) /\ Len(list) \in Nat /\ DOMAIN list = 1..Len(list)
      /\ DOMAIN new = 1..Len(list) + 1 /\ \A i \in DOMAIN list : new[i] = list[i]
      /\ new[Len(list) + 1] = d
  BY <1>1, <1>4, AppendElement
<1> HIDE DEF new
<1>6. Request(d) = h
  BY <1>2, <1>4 DEF Request, K
<1>7. \A i \in DOMAIN list : \A j \in DOMAIN requests : Request(list[i]) = requests[j] =>
        j = 1 /\ list[i].kind = "page" /\ list[i].page \in 1..Cardinality(pages)
  BY DEF FetchFits, pages
<1>8. \A i \in DOMAIN list : list[i] # d
  BY <1>2, <1>3, <1>4, <1>6, <1>7
<1>9. IsInjective(new)
  BY <1>1, <1>4, <1>8, InjectiveAppend, Zenon DEF new
<1>10. Cardinality(PagesOf(new, h)) = Cardinality(pages) + 1
  <2>1. PagesOf(new, h) = pages \cup {Len(list) + 1} /\ Len(list) + 1 \notin pages
    BY <1>4, <1>5 DEF PagesOf, pages
  <2> QED
    BY <1>3, <2>1, FS_AddElement
<1>11. ASSUME NEW i \in DOMAIN new, NEW j \in DOMAIN requests, Request(new[i]) = requests[j]
       PROVE  j = 1 /\ new[i].kind = "page" /\ new[i].page \in 1..Cardinality(PagesOf(new, h))
  <2>1. CASE i \in DOMAIN list
    BY <1>3, <1>5, <1>7, <1>10, <1>11, <2>1
  <2>2. CASE i = Len(list) + 1
    <3>1. j = 1
      BY <1>1, <1>2, <1>5, <1>6, <1>11, <2>2 DEF IsInjective
    <3> QED
      BY <1>3, <1>4, <1>5, <1>10, <2>2, <3>1
  <2> QED
    BY <1>5, <2>1, <2>2
<1> QED
  BY <1>1, <1>5, <1>9, <1>11 DEF FetchFits, new, D, K

\* The last dataset of a request, which is then done.
LEMMA AnswerFits ==
  ASSUME NEW requests, NEW list, FetchFits(requests, list), requests # <<>>,
         NEW d \in [series : Nat, kind : Kinds \cup {"combined"}, page : Nat],
         Request(d) = requests[1], d.kind # "page"
  PROVE  FetchFits(Tail(requests), Append(list, d))
<1> DEFINE K == [series : Nat, kind : Kinds]
           D == [series : Nat, kind : Kinds \cup {"combined"}, page : Nat]
           new == Append(list, d)
           rest == Tail(requests)
<1>1. requests \in Seq(K) /\ list \in Seq(D) /\ IsInjective(requests) /\ IsInjective(list) /\ d \in D
  BY DEF FetchFits
<1>2. /\ rest \in Seq(K) /\ Len(requests) \in Nat /\ 1 \in DOMAIN requests
      /\ DOMAIN rest = 1..Len(requests) - 1
      /\ \A j \in DOMAIN rest : rest[j] = requests[j + 1] /\ j + 1 \in DOMAIN requests
  BY <1>1, TailElements
<1>3. IsInjective(rest) /\ \A j \in DOMAIN rest : rest[j] # requests[1]
  BY <1>1, InjectiveTail, Zenon
<1> HIDE DEF D, K
<1>4. /\ new \in Seq(D) /\ Len(list) \in Nat /\ DOMAIN list = 1..Len(list)
      /\ DOMAIN new = 1..Len(list) + 1 /\ \A i \in DOMAIN list : new[i] = list[i]
      /\ new[Len(list) + 1] = d
  BY <1>1, AppendElement
<1> HIDE DEF new, rest
<1>5. \A i \in DOMAIN list : \A j \in DOMAIN requests : Request(list[i]) = requests[j] =>
        j = 1 /\ list[i].kind = "page"
  BY DEF FetchFits
<1>6. \A i \in DOMAIN list : list[i] # d
  BY <1>2, <1>5
<1>7. IsInjective(new)
  BY <1>1, <1>6, InjectiveAppend, Zenon DEF new
<1>8. ASSUME NEW i \in DOMAIN new, NEW j \in DOMAIN rest, Request(new[i]) = rest[j]
      PROVE  FALSE
  <2>1. CASE i \in DOMAIN list
    <3>1. j + 1 = 1
      BY <1>2, <1>4, <1>5, <1>8, <2>1
    <3> QED
      BY <1>2, <3>1
  <2>2. CASE i = Len(list) + 1
    BY <1>3, <1>4, <1>8, <2>2
  <2> QED
    BY <1>4, <2>1, <2>2
<1> QED
  BY <1>2, <1>3, <1>4, <1>7, <1>8 DEF FetchFits, new, rest, D, K

\* At the start of a source nothing is fetched.
LEMMA RequestsFit ==
  ASSUME NEW k \in DOMAIN Sources
  PROVE  FetchFits(Requests(Sources[k]), <<>>)
<1>1. Requests(Sources[k]) \in Seq([series : Nat, kind : Kinds]) /\ IsInjective(Requests(Sources[k]))
  BY SourcesAreListed, RequestsDiffer
<1>2. <<>> \in Seq([series : Nat, kind : Kinds \cup {"combined"}, page : Nat]) /\ DOMAIN <<>> = {}
  OBVIOUS
<1> QED
  BY <1>1, <1>2 DEF FetchFits, IsInjective

-----------------------------------------------------------------------------
(* The steps of the commands on the data directory. *)

\* A step that writes nothing to the data directory and says nothing about it.
LEMMA Quiet ==
  ASSUME AgesInv, SummariesTellTheDisk, NothingDroppedSilently,
         UNCHANGED <<raw, tables>>, summaries' \in {summaries, Nothing}, run' \in {run, run + 1}
  PROVE  AgesInv' /\ SummariesTellTheDisk' /\ NothingDroppedSilently'
<1>1. raw' = raw /\ tables' = tables
  OBVIOUS
<1>2. AgesInv'
  <2>1. run' \in Nat /\ \A n \in 0..run : n \in 0..run'
    BY DEF AgesInv
  <2> QED
    BY <1>1, <2>1 DEF AgesInv
<1>3. SummariesTellTheDisk'
  <2>1. CASE summaries' = summaries
    BY <1>1, <2>1 DEF SummariesTellTheDisk
  <2>2. CASE summaries' = Nothing
    BY <2>2 DEF SummariesTellTheDisk, Nothing
  <2> QED
    BY <2>1, <2>2
<1>4. NothingDroppedSilently'
  BY <1>1, Zenon DEF NothingDroppedSilently, Readable
<1> QED
  BY <1>2, <1>3, <1>4

\* Ending a command leaves nothing in memory.
LEMMA EndsIdle ==
  ASSUME Ends
  PROVE  IdleInv' /\ IngestInv' /\ FrameInv' /\ cmd' = "idle"
BY DEF Ends, IdleInv, IngestInv, FrameInv

\* What the next source finds.
LEMMA NextSourceStarts ==
  ASSUME cmd = "ingest", LoopInv, NextSource, UNCHANGED <<run, raw>>,
         DOMAIN summaries' = DOMAIN summaries \cup {Src}
  PROVE  IdleInv' /\ IngestInv' /\ FrameInv' /\ cmd' \in {"idle", "ingest"}
<1>1. CASE source = Len(Sources)
  BY <1>1, EndsIdle DEF NextSource
<1>2. CASE source # Len(Sources)
  <2>1. /\ source' = source + 1 /\ todo' = Requests(Sources[source + 1]) /\ fetched' = <<>>
        /\ step' = 0 /\ written_count' = 0 /\ cmd' = cmd /\ run' = run /\ raw' = raw
    BY <1>2 DEF NextSource
  <2>2. source \in DOMAIN Sources /\ source + 1 \in DOMAIN Sources /\ source \in Nat
    BY <1>2, SourcesAreListed DEF LoopInv
  <2>3. FetchInv'
    BY <2>1, <2>2, RequestsFit, Zenon DEF FetchInv
  <2>4. \A f \in DOMAIN raw : f.run = run => f.source # Sources[source + 1]
    <3> SUFFICES ASSUME NEW f \in DOMAIN raw, f.run = run, f.source = Sources[source + 1]
                 PROVE  FALSE
      OBVIOUS
    <3>1. PICK k \in 1..source : Sources[k] = Sources[source + 1]
      BY DEF LoopInv
    <3>2. k \in DOMAIN Sources /\ k # source + 1
      BY <2>2, SourcesAreListed
    <3> QED
      BY <2>2, <3>1, <3>2, SourcesAreListed DEF IsInjective
  <2>5. DiskInv'
    <3>1. Finished' = 0 /\ Begun' = 0
      BY <2>1 DEF Finished, Begun
    <3>2. Src' = Sources[source + 1]
      BY <2>1 DEF Src
    <3>3. {f \in DOMAIN raw : f.source = Src' /\ f.run = run} = {}
      BY <2>4, <3>2
    <3>4. {File(j)' : j \in 1..0} = {} /\ Len(<<>>) = 0
      OBVIOUS
    <3> QED
      BY <2>1, <3>1, <3>3, <3>4 DEF DiskInv
  <2>6. LoopInv'
    <3>1. \A f \in DOMAIN raw' : f.run = run' => \E k \in 1..source' : f.source = Sources[k]
      <4>1. \A k \in 1..source : k \in 1..source'
        BY <2>1, <2>2
      <4> QED
        BY <2>1, <4>1, Zenon DEF LoopInv
    <3>2. \A s \in DOMAIN summaries' : \E k \in 1..source' - 1 : s = Sources[k]
      <4>1. source \in 1..source' - 1 /\ \A k \in 1..source - 1 : k \in 1..source' - 1
        BY <2>1, <2>2, SourcesAreListed
      <4> QED
        BY <4>1, Zenon DEF LoopInv, Src
    <3> QED
      BY <2>1, <2>2, <3>1, <3>2 DEF LoopInv
  <2> QED
    BY <2>1, <2>3, <2>5, <2>6 DEF IdleInv, IngestInv, FrameInv
<1> QED
  BY <1>1, <1>2

\* The command starts with the requests of the first source and nothing of its own on the disk.
LEMMA StartIngestStep ==
  ASSUME DataInv, StartIngest PROVE DataInv'
<1>1. /\ cmd = "idle" /\ run' = run + 1 /\ cmd' = "ingest" /\ source' = 1
      /\ todo' = Requests(Sources[1]) /\ summaries' = Nothing
      /\ fetched' = <<>> /\ step' = 0 /\ written_count' = 0 /\ raw' = raw /\ tables' = tables
  BY DEF StartIngest, Typed, DataInv, IdleInv
<1>2. AgesInv' /\ SummariesTellTheDisk' /\ NothingDroppedSilently'
  BY <1>1, Quiet DEF DataInv
<1>3. FetchInv'
  <2>1. 1 \in DOMAIN Sources
    BY SourcesAreListed
  <2> QED
    BY <1>1, <2>1, RequestsFit, Zenon DEF FetchInv
<1>4. \A f \in DOMAIN raw' : f.run # run'
  BY <1>1 DEF DataInv, AgesInv
<1>5. DiskInv'
  <2>1. Finished' = 0 /\ Begun' = 0
    BY <1>1 DEF Finished, Begun
  <2>2. {f \in DOMAIN raw' : f.source = Src' /\ f.run = run'} = {}
    BY <1>4
  <2>3. {File(j)' : j \in 1..0} = {} /\ Len(<<>>) = 0
    OBVIOUS
  <2> QED
    BY <1>1, <2>1, <2>2, <2>3 DEF DiskInv
<1>6. LoopInv'
  BY <1>1, <1>4, SourcesAreListed DEF LoopInv, Nothing
<1> QED
  BY <1>1, <1>2, <1>3, <1>5, <1>6 DEF DataInv, IdleInv, IngestInv, FrameInv

\* An answer is a dataset the list does not have yet; no file is touched.
LEMMA FetchStep ==
  ASSUME DataInv, Fetch PROVE DataInv'
<1>1. /\ cmd = "ingest" /\ todo # <<>> /\ cmd' = cmd /\ run' = run /\ source' = source
      /\ step' = step /\ written_count' = written_count /\ frame' = frame
      /\ summaries' = summaries /\ raw' = raw /\ tables' = tables
  BY DEF Fetch
<1>2. AgesInv' /\ SummariesTellTheDisk' /\ NothingDroppedSilently'
  BY <1>1, Quiet DEF DataInv
<1>3. FetchFits(todo, fetched) /\ DiskInv /\ LoopInv
  BY <1>1 DEF DataInv, IngestInv, FetchInv
<1> DEFINE K == [series : Nat, kind : Kinds]
           D == [series : Nat, kind : Kinds \cup {"combined"}, page : Nat]
           h == todo[1]
           p == Cardinality(PagesOf(fetched, h)) + 1
           d == Dataset(h, p)
<1>4. /\ todo \in Seq(K) /\ fetched \in Seq(D) /\ Head(todo) = h /\ h \in K
  BY <1>1, <1>3, TailElements, Zenon DEF FetchFits
<1>5. p \in Nat
  <2>1. PagesOf(fetched, h) \in SUBSET (1..Len(fetched)) /\ Len(fetched) \in Nat
    BY <1>4 DEF PagesOf
  <2>2. IsFiniteSet(1..Len(fetched))
    BY <2>1, FS_Interval
  <2> QED
    BY <2>1, <2>2, FS_Subset, FS_CardinalityType
<1>6. p = Cardinality({i \in DOMAIN fetched : /\ fetched[i].series = Head(todo).series
                                              /\ fetched[i].kind = "page"}) + 1
  BY <1>4 DEF PagesOf
<1>7. /\ h.kind # "page" => fetched' = Append(fetched, d) /\ todo' = Tail(todo)
      /\ h.kind = "page" =>
           \/ fetched' = Append(fetched, d) /\ todo' = todo
           \/ /\ fetched' = Append(Append(fetched, d), Dataset([h EXCEPT !.kind = "combined"], 1))
              /\ todo' = Tail(todo)
  BY <1>4, <1>6, Zenon DEF Fetch
<1>8. FetchFits(todo', fetched')
  <2>1. d \in D /\ d.kind = h.kind /\ (h.kind # "combined" => Request(d) = h) /\ h.kind # "combined"
    BY <1>4, <1>5 DEF Dataset, Request, Kinds
  <2>2. CASE h.kind # "page"
    BY <1>1, <1>3, <1>7, <2>1, <2>2, AnswerFits, Zenon
  <2>3. ASSUME h.kind = "page" PROVE FetchFits(todo, Append(fetched, d))
    BY <1>1, <1>3, <2>3, PageFits, Zenon
  <2>4. CASE h.kind = "page" /\ todo' = Tail(todo)
              /\ fetched' = Append(Append(fetched, d), Dataset([h EXCEPT !.kind = "combined"], 1))
    <3> DEFINE e == Dataset([h EXCEPT !.kind = "combined"], 1)
    <3>1. e \in D /\ e.kind # "page" /\ Request(e) = h
      BY <1>4, <2>4 DEF Dataset, Request
    <3> HIDE DEF e, d
    <3> QED
      BY <1>1, <2>3, <2>4, <3>1, AnswerFits DEF e
  <2> QED
    BY <1>7, <2>2, <2>3, <2>4
<1>9. DiskInv'
  <2>1. written_count = 0 /\ step = 0 /\ Finished = 0 /\ Begun = 0
    BY <1>1, <1>3 DEF DiskInv, Finished, Begun
  <2>2. Finished' = 0 /\ Begun' = 0
    BY <1>1, <2>1 DEF Finished, Begun
  <2>3. Len(fetched') \in Nat
    BY <1>8 DEF FetchFits
  <2>4. {f \in DOMAIN raw : f.source = Src /\ f.run = run} = {}
    <3>1. 1..0 = {}
      OBVIOUS
    <3> QED
      BY <1>3, <2>1, <3>1 DEF DiskInv
  <2>5. {File(j)' : j \in 1..0} = {}
    OBVIOUS
  <2>6. {f \in DOMAIN raw' : f.source = Src' /\ f.run = run'} = {}
    BY <1>1, <2>4 DEF Src
  <2> QED
    BY <1>1, <2>1, <2>2, <2>3, <2>5, <2>6 DEF DiskInv
<1>10. LoopInv'
  BY <1>1, <1>3, Zenon DEF LoopInv
<1> QED
  BY <1>1, <1>2, <1>8, <1>9, <1>10 DEF DataInv, IdleInv, IngestInv, FetchInv, FrameInv

\* The summary of a source that has ended tells what it has left on the disk.
LEMMA ReportTells ==
  ASSUME NEW status, NEW count, NEW cause,
         SummariesTellTheDisk, Report(status, count, cause), UNCHANGED raw,
         LET mine == {f \in DOMAIN raw : f.source = Src /\ f.run = run} IN
           /\ status = "ok" => /\ count = 2 * Cardinality(mine)
                               /\ \A f \in mine : raw[f].whole /\ raw[f].metadata = "whole"
           /\ cause = "fetch" => mine = {}
  PROVE  SummariesTellTheDisk' /\ DOMAIN summaries' = DOMAIN summaries \cup {Src}
<1> DEFINE entry == [run |-> run, status |-> status, files_written |-> count, cause |-> cause]
<1>1. /\ DOMAIN summaries' = DOMAIN summaries \cup {Src}
      /\ summaries'[Src] = entry
      /\ \A s \in DOMAIN summaries : s # Src => summaries'[s] = summaries[s]
  <2>1. summaries' = Put(summaries, Src, entry)
    BY Zenon DEF Report
  <2> HIDE DEF entry
  <2> QED
    BY <2>1 DEF Put
<1>2. /\ entry.run = run /\ entry.status = status /\ entry.files_written = count /\ entry.cause = cause
  OBVIOUS
<1> HIDE DEF entry
<1> DEFINE Mine(s, at) == {f \in DOMAIN raw : f.source = s /\ f.run = at}
           Tells(s, e) ==
             /\ e.status = "ok" =>
                  /\ e.files_written = 2 * Cardinality(Mine(s, e.run))
                  /\ \A f \in Mine(s, e.run) : raw[f].whole /\ raw[f].metadata = "whole"
             /\ e.cause = "fetch" => Mine(s, e.run) = {}
<1>3. Tells(Src, entry)
  BY <1>2
<1>4. \A s \in DOMAIN summaries : Tells(s, summaries[s])
  BY DEF SummariesTellTheDisk
<1>5. \A s \in DOMAIN summaries' : Tells(s, summaries'[s])
  <2> HIDE DEF Tells
  <2> QED
    BY <1>1, <1>3, <1>4
<1>6. SummariesTellTheDisk'
  BY <1>5 DEF SummariesTellTheDisk
<1> QED
  BY <1>1, <1>6

\* A request that fails does so before the first write of its source.
LEMMA FetchFailsStep ==
  ASSUME DataInv, FetchFails PROVE DataInv'
<1>1. /\ cmd = "ingest" /\ todo # <<>> /\ run' = run /\ raw' = raw /\ tables' = tables
      /\ Report("error", 0, "fetch") /\ NextSource
  BY DEF FetchFails
<1>2. DiskInv /\ LoopInv
  BY <1>1 DEF DataInv, IngestInv
<1>3. {f \in DOMAIN raw : f.source = Src /\ f.run = run} = {}
  <2>1. Begun = 0 /\ 1..0 = {}
    BY <1>1, <1>2 DEF DiskInv, Begun, Finished
  <2> QED
    BY <1>2, <2>1 DEF DiskInv
<1>4. SummariesTellTheDisk' /\ DOMAIN summaries' = DOMAIN summaries \cup {Src}
  BY <1>1, <1>3, ReportTells DEF DataInv
<1>5. IdleInv' /\ IngestInv' /\ FrameInv'
  BY <1>1, <1>2, <1>4, NextSourceStarts
<1>6. AgesInv' /\ NothingDroppedSilently'
  BY <1>1 DEF DataInv, AgesInv, NothingDroppedSilently, Readable
<1> QED
  BY <1>4, <1>5, <1>6 DEF DataInv

\* A write that fails leaves the files the summary counts, and one that is torn.
LEMMA StoreFailsStep ==
  ASSUME DataInv, StoreFails PROVE DataInv'
<1>1. /\ cmd = "ingest" /\ run' = run /\ raw' = raw /\ tables' = tables
      /\ Report("error", 0, "write") /\ NextSource
  BY DEF StoreFails, Storing
<1>2. SummariesTellTheDisk' /\ DOMAIN summaries' = DOMAIN summaries \cup {Src}
  BY <1>1, ReportTells DEF DataInv
<1>3. IdleInv' /\ IngestInv' /\ FrameInv'
  BY <1>1, <1>2, NextSourceStarts DEF DataInv, IngestInv
<1>4. AgesInv' /\ NothingDroppedSilently'
  BY <1>1 DEF DataInv, AgesInv, NothingDroppedSilently, Readable
<1> QED
  BY <1>2, <1>3, <1>4 DEF DataInv

\* A source that is done has one file for each of its datasets.
LEMMA SourceDoneStep ==
  ASSUME DataInv, SourceDone PROVE DataInv'
<1>1. /\ cmd = "ingest" /\ todo = <<>> /\ ~Storing /\ run' = run /\ raw' = raw /\ tables' = tables
      /\ Report("ok", written_count, "none") /\ NextSource
  BY DEF SourceDone
<1>2. FetchInv /\ DiskInv /\ LoopInv
  BY <1>1 DEF DataInv, IngestInv
<1>3. Len(fetched) \in Nat /\ DOMAIN fetched = 1..Len(fetched) /\ IsInjective(fetched)
  BY <1>2 DEF FetchInv, FetchFits
<1>4. Finished = Len(fetched) /\ Begun = Len(fetched) /\ written_count = 2 * Len(fetched)
  <2>1. ~(written_count < 2 * Len(fetched))
    BY <1>1 DEF Storing
  <2>2. written_count \in Nat /\ written_count = 2 * Finished /\ Begun <= Len(fetched)
    BY <1>2 DEF DiskInv
  <2>3. Finished \in Nat /\ Begun \in {Finished, Finished + 1}
    BY <2>2 DEF Finished, Begun
  <2> DEFINE len == Len(fetched)
             fin == Finished
             beg == Begun
  <2>4. len \in Nat
    BY <1>3
  <2> HIDE DEF len, fin, beg
  <2>5. fin = len /\ beg = len /\ written_count = 2 * len
    BY <2>1, <2>2, <2>3, <2>4 DEF len, fin, beg
  <2> QED
    BY <2>5 DEF len, fin, beg
<1> DEFINE n == Len(fetched)
           mine == {f \in DOMAIN raw : f.source = Src /\ f.run = run}
           f == [j \in 1..n |-> File(j)]
<1>5. mine = {f[j] : j \in 1..n}
  BY <1>2, <1>4 DEF DiskInv
<1>6. IsInjective(f) /\ DOMAIN f = 1..n
  BY <1>3 DEF IsInjective, File
<1>7. \A j \in 1..n : raw[f[j]].whole /\ raw[f[j]].metadata = "whole"
  BY <1>2, <1>4 DEF DiskInv
<1> HIDE DEF f, n, mine
<1>8. Cardinality(mine) = n
  BY <1>3, <1>5, <1>6, OneEach DEF n
<1>9. written_count = 2 * Cardinality(mine) /\ \A g \in mine : raw[g].whole /\ raw[g].metadata = "whole"
  BY <1>4, <1>5, <1>7, <1>8 DEF n
<1>10. SummariesTellTheDisk' /\ DOMAIN summaries' = DOMAIN summaries \cup {Src}
  <2>1. SummariesTellTheDisk /\ UNCHANGED raw /\ "none" # "fetch"
    BY <1>1 DEF DataInv
  <2> QED
    BY <1>1, <1>9, <2>1, ReportTells, Zenon DEF mine
<1>11. IdleInv' /\ IngestInv' /\ FrameInv'
  BY <1>1, <1>2, <1>10, NextSourceStarts
<1>12. AgesInv' /\ NothingDroppedSilently'
  BY <1>1 DEF DataInv, AgesInv, NothingDroppedSilently, Readable
<1> QED
  BY <1>10, <1>11, <1>12 DEF DataInv

\* A file is opened or finished: it belongs to a source of which nothing is reported yet,
\* and to the present command.
LEMMA StoreStep ==
  ASSUME DataInv, Store PROVE DataInv'
<1> DEFINE entry == CASE step = 0 -> [whole |-> FALSE, metadata |-> "none"]
                      [] step = 1 -> [whole |-> TRUE,  metadata |-> "none"]
                      [] step = 2 -> [whole |-> TRUE,  metadata |-> "torn"]
                      [] step = 3 -> [whole |-> TRUE,  metadata |-> "whole"]
           n == Len(fetched)
           k == Finished + 1
<1>1. /\ cmd = "ingest" /\ todo = <<>> /\ written_count < 2 * Len(fetched)
      /\ raw' = Put(raw, Name, entry)
      /\ step' = (step + 1) % 4
      /\ written_count' = IF step = 3 THEN written_count + 2 ELSE written_count
      /\ UNCHANGED <<run, faults, cmd, source, todo, fetched, frame, summaries, tables, statistics>>
  BY Zenon DEF Store, Storing
<1>2. /\ cmd' = cmd /\ run' = run /\ source' = source /\ todo' = todo /\ fetched' = fetched
      /\ frame' = frame /\ summaries' = summaries /\ tables' = tables /\ Src' = Src
  BY <1>1 DEF Src
<1>3. FetchInv /\ DiskInv /\ LoopInv /\ AgesInv
  BY <1>1 DEF DataInv, IngestInv
<1>4. n \in Nat /\ DOMAIN fetched = 1..n /\ IsInjective(fetched)
      /\ \A j \in 1..n : fetched[j].series \in Nat
  <2> DEFINE D == [series : Nat, kind : Kinds \cup {"combined"}, page : Nat]
  <2>1. fetched \in Seq(D) /\ IsInjective(fetched)
    BY <1>3 DEF FetchInv, FetchFits
  <2>2. \A d \in D : d.series \in Nat
    OBVIOUS
  <2> HIDE DEF D
  <2> QED
    BY <2>1, <2>2
<1>5. /\ Finished \in Nat /\ written_count = 2 * Finished /\ step \in 0..3
      /\ Begun = IF step = 0 THEN Finished ELSE k
  BY <1>3 DEF DiskInv, Finished, Begun
<1>6. k \in 1..n
  <2> DEFINE fin == Finished
  <2>1. written_count < 2 * n /\ fin \in Nat /\ written_count = 2 * fin /\ n \in Nat
    BY <1>1, <1>4, <1>5
  <2> HIDE DEF fin, n
  <2>2. fin + 1 \in 1..n
    BY <2>1
  <2> QED
    BY <2>2 DEF fin
<1>7. /\ Finished' = IF step = 3 THEN k ELSE Finished
      /\ Begun' = k
      /\ written_count' = 2 * Finished' /\ written_count' \in Nat /\ step' \in 0..3
  <2> DEFINE fin == Finished
  <2>1. fin \in Nat /\ written_count = 2 * fin /\ step \in 0..3
    BY <1>5
  <2>2. fin' = written_count' \div 2 /\ Begun' = IF step' = 0 THEN fin' ELSE fin' + 1
    BY DEF Finished, Begun
  <2> HIDE DEF fin
  <2>3. /\ fin' = IF step = 3 THEN fin + 1 ELSE fin
        /\ written_count' = 2 * fin' /\ written_count' \in Nat /\ step' \in 0..3
        /\ step' = 0 <=> step = 3
    <3>1. CASE step = 3
      <4>1. step' = 0 /\ written_count' = 2 * (fin + 1)
        BY <1>1, <2>1, <3>1
      <4>2. (2 * (fin + 1)) \div 2 = fin + 1 /\ 2 * (fin + 1) \in Nat
        BY <2>1
      <4> QED
        BY <2>1, <2>2, <3>1, <4>1, <4>2
    <3>2. CASE step \in 0..2
      <4>1. step' \in 1..3 /\ written_count' = 2 * fin
        BY <1>1, <2>1, <3>2
      <4>2. (2 * fin) \div 2 = fin /\ 2 * fin \in Nat
        BY <2>1
      <4> QED
        BY <2>1, <2>2, <3>2, <4>1, <4>2
    <3> QED
      BY <2>1, <3>1, <3>2
  <2>4. Begun' = fin + 1
    BY <2>1, <2>2, <2>3
  <2> QED
    BY <2>3, <2>4 DEF fin
<1>8. /\ Name = File(k) /\ Name.run = run /\ Name.source = Src /\ Name.dataset = fetched[k]
      /\ \A j \in 1..n : File(j) = Name => j = k
  <2>1. Name = File(k)
    BY DEF Name, File, Stored, Finished
  <2> QED
    BY <1>4, <1>6, <2>1 DEF File, IsInjective
<1>9. /\ DOMAIN raw' = DOMAIN raw \cup {Name}
      /\ raw'[Name] = entry
      /\ \A f \in DOMAIN raw : f # Name => raw'[f] = raw[f]
  BY <1>1 DEF Put
<1>10. step = 3 => entry.whole /\ entry.metadata = "whole"
  OBVIOUS
<1> HIDE DEF entry, n, k
<1>11. AgesInv'
  BY <1>2, <1>3, <1>4, <1>6, <1>8, <1>9 DEF AgesInv
<1>12. DiskInv'
  <2>1. {f \in DOMAIN raw : f.source = Src /\ f.run = run} = {File(j) : j \in 1..Begun}
    BY <1>3 DEF DiskInv
  <2>2. {f \in DOMAIN raw' : f.source = Src /\ f.run = run} = {File(j) : j \in 1..Begun} \cup {File(k)}
    BY <1>8, <1>9, <2>1
  <2>3. 1..Begun \cup {k} = 1..k
    BY <1>5 DEF k
  <2>4. \A j : File(j)' = File(j)
    BY <1>2 DEF File
  <2>5. {f \in DOMAIN raw' : f.source = Src' /\ f.run = run'} = {File(j)' : j \in 1..Begun'}
    BY <1>2, <1>7, <2>2, <2>3, <2>4
  <2>6. ASSUME NEW j \in 1..Finished'
        PROVE  raw'[File(j)].whole /\ raw'[File(j)].metadata = "whole"
    <3>1. CASE j = k
      <4>1. step = 3
        BY <1>5, <1>7, <2>6, <3>1 DEF k
      <4> QED
        BY <1>8, <1>9, <1>10, <3>1, <4>1
    <3>2. CASE j # k
      <4>1. j \in 1..Finished /\ j \in 1..n /\ j \in 1..Begun
        <5> DEFINE fin == Finished
        <5>1. /\ fin \in Nat /\ k = fin + 1 /\ k \in 1..n /\ n \in Nat /\ j # k
              /\ fin' \in {fin, k} /\ j \in 1..fin' /\ Begun \in {fin, k}
          BY <1>4, <1>5, <1>6, <1>7, <2>6, <3>2 DEF k
        <5> HIDE DEF fin
        <5>2. j \in 1..fin /\ j \in 1..n /\ j \in 1..Begun
          BY <5>1
        <5> QED
          BY <5>2 DEF fin
      <4>2. File(j) # Name /\ File(j) \in DOMAIN raw
        BY <1>8, <2>1, <3>2, <4>1
      <4>3. raw[File(j)].whole /\ raw[File(j)].metadata = "whole"
        BY <1>3, <4>1 DEF DiskInv
      <4> QED
        BY <1>9, <4>2, <4>3
    <3> QED
      BY <3>1, <3>2
  <2>7. Begun' <= Len(fetched')
    BY <1>2, <1>4, <1>6, <1>7 DEF n
  <2>8. todo' = <<>>
    BY <1>1
  <2> QED
    BY <1>7, <2>4, <2>5, <2>6, <2>7, <2>8 DEF DiskInv
<1>13. LoopInv'
  <2>1. source \in 1..source /\ Name.source = Sources[source]
    BY <1>3, <1>8, SourcesAreListed DEF LoopInv, Src
  <2>2. \A f \in DOMAIN raw' : f.run = run => \E i \in 1..source : f.source = Sources[i]
    BY <1>3, <1>9, <2>1 DEF LoopInv
  <2> QED
    BY <1>2, <1>3, <2>2, Zenon DEF LoopInv
<1>14. SummariesTellTheDisk'
  <2>1. ASSUME NEW s \in DOMAIN summaries, s = Src PROVE FALSE
    <3>1. PICK i \in 1..source - 1 : Sources[i] = Sources[source]
      BY <1>3, <2>1 DEF LoopInv, Src
    <3>2. source \in DOMAIN Sources /\ source \in Nat /\ i \in DOMAIN Sources /\ i # source
      BY <1>3, SourcesAreListed DEF LoopInv
    <3> QED
      BY <3>1, <3>2, SourcesAreListed DEF IsInjective
  <2>2. ASSUME NEW s \in DOMAIN summaries, NEW at
        PROVE  /\ {f \in DOMAIN raw' : f.source = s /\ f.run = at} =
                    {f \in DOMAIN raw : f.source = s /\ f.run = at}
               /\ \A f \in DOMAIN raw : f.source = s => raw'[f] = raw[f]
    BY <1>8, <1>9, <2>1
  <2>3. \A s \in DOMAIN summaries :
          LET mine == {f \in DOMAIN raw' : f.source = s /\ f.run = summaries[s].run} IN
          /\ summaries[s].status = "ok" =>
               /\ summaries[s].files_written = 2 * Cardinality(mine)
               /\ \A f \in mine : raw'[f].whole /\ raw'[f].metadata = "whole"
          /\ summaries[s].cause = "fetch" => mine = {}
    BY <2>2 DEF DataInv, SummariesTellTheDisk
  <2> QED
    BY <1>2, <2>3 DEF SummariesTellTheDisk
<1>15. NothingDroppedSilently'
  <2>1. ASSUME NEW t \in DOMAIN tables, NEW f \in Readable(t[1])', f.run < tables[t].run
        PROVE  f \in Readable(t[1]) /\ raw'[f] = raw[f]
    <3>1. f # Name
      BY <1>3, <1>8, <2>1 DEF AgesInv
    <3> QED
      BY <1>9, <2>1, <3>1 DEF Readable
  <2> QED
    BY <1>2, <2>1 DEF DataInv, NothingDroppedSilently
<1>16. FetchInv'
  BY <1>2, <1>3 DEF FetchInv
<1> QED
  BY <1>1, <1>2, <1>11, <1>12, <1>13, <1>14, <1>15, <1>16 DEF DataInv, IdleInv, IngestInv, FrameInv

\* A step of a command that neither ingests nor writes tables.
LEMMA OtherStep ==
  ASSUME DataInv, UNCHANGED <<raw, tables>>, summaries' \in {summaries, Nothing},
         run' \in {run, run + 1},
         \/ Ends
         \/ cmd' \in Commands \cup {"compute_statistics"}
         \/ cmd' = "normalize" /\ frame' = Nothing
         \/ cmd = "idle" /\ UNCHANGED <<cmd, position>>
  PROVE  DataInv'
<1>1. AgesInv' /\ SummariesTellTheDisk' /\ NothingDroppedSilently'
  BY Quiet DEF DataInv
<1>2. IdleInv' /\ IngestInv' /\ FrameInv'
  <2>1. CASE Ends
    BY <2>1, EndsIdle
  <2>2. CASE cmd' \in Commands \cup {"compute_statistics"}
    BY <2>2 DEF IdleInv, IngestInv, FrameInv, Commands, StudyCommands, StageCommands
  <2>3. CASE cmd' = "normalize" /\ frame' = Nothing
    BY <2>3 DEF IdleInv, IngestInv, FrameInv
  <2>4. CASE cmd = "idle" /\ UNCHANGED <<cmd, position>>
    BY <2>4 DEF DataInv, IdleInv, IngestInv, FrameInv, position
  <2> QED
    BY <2>1, <2>2, <2>3, <2>4
<1> QED
  BY <1>1, <1>2 DEF DataInv

\* The frame is made of every file that is whole, and a torn one was there only if its
\* format is lenient.
LEMMA ReadAllStep ==
  ASSUME DataInv, ReadAll PROVE DataInv'
<1>1. /\ cmd = "normalize" /\ frame = Nothing /\ run' = run /\ raw' = raw /\ tables' = tables
      /\ summaries' = summaries
  BY DEF ReadAll
<1> DEFINE torn == {f \in Readable(Src) : ~raw[f].whole}
<1>2. PICK lost \in SUBSET torn : Group(Readable(Src) \ lost)
  BY DEF ReadAll
<1>3. torn = {} \/ Lenient(Src)
  BY DEF ReadAll
<1> DEFINE used == Readable(Src) \ lost
<1>4. CASE used = {}
  <2>1. Ends \/ (cmd' = cmd /\ frame' = frame)
    BY <1>2, <1>4 DEF Group
  <2> QED
    BY <1>1, <2>1, OtherStep
<1>5. CASE used # {}
  <2>1. /\ frame' = [m \in {Metric(f) : f \in used} |-> {f \in used : Metric(f) = m}]
        /\ cmd' = cmd /\ source' = source
    BY <1>2, <1>5 DEF Group
  <2>2. AgesInv' /\ SummariesTellTheDisk' /\ NothingDroppedSilently'
    BY <1>1, Quiet DEF DataInv
  <2>3. DOMAIN frame' \subseteq Nat /\ DOMAIN frame' # {}
    BY <1>5, <2>1 DEF Metric, Readable, DataInv, AgesInv
  <2>4. ASSUME NEW m \in DOMAIN frame', NEW f \in Readable(Src), Metric(f) = m
        PROVE  IF raw[f].whole THEN f \in frame'[m] ELSE Lenient(Src)
    <3>1. raw[f].whole => f \in used
      BY <1>2
    <3>2. ~raw[f].whole => Lenient(Src)
      BY <1>3
    <3> QED
      BY <2>1, <2>4, <3>1, <3>2
  <2>5. Readable(Src)' = Readable(Src) /\ Src' = Src
    BY <1>1, <2>1 DEF Readable, Src
  <2>6. FrameInv'
    BY <1>1, <2>3, <2>4, <2>5 DEF FrameInv
  <2> QED
    BY <1>1, <2>1, <2>2, <2>6 DEF DataInv, IdleInv, IngestInv
<1> QED
  BY <1>4, <1>5

\* A table is made of the rows of the frame.
LEMMA WriteTableStep ==
  ASSUME DataInv, WriteTable PROVE DataInv'
<1> DEFINE metric == Min(DOMAIN frame)
           path == <<Src, metric>>
           table == [run |-> run, whole |-> step = 1, from |-> frame[metric]]
<1>1. /\ cmd = "normalize" /\ frame # Nothing /\ run' = run /\ raw' = raw /\ summaries' = summaries
      /\ tables' = Put(tables, path, table)
  BY DEF WriteTable
<1>2. \/ cmd' = cmd /\ source' = source /\ frame' = frame
      \/ /\ DOMAIN frame # {metric}
         /\ cmd' = cmd /\ source' = source /\ frame' = Restrict(frame, DOMAIN frame \ {metric})
      \/ cmd' = cmd /\ frame' = Nothing
      \/ Ends
  BY Zenon DEF WriteTable
<1>3. metric \in DOMAIN frame
  BY <1>1, FirstMetric, Zenon DEF DataInv, FrameInv
<1>4. \A f \in Readable(Src) :
        Metric(f) = metric => IF raw[f].whole THEN f \in frame[metric] ELSE Lenient(Src)
  BY <1>1, <1>3, Zenon DEF DataInv, FrameInv
<1>5. /\ DOMAIN tables' = DOMAIN tables \cup {path} /\ tables'[path] = table
      /\ \A t \in DOMAIN tables : t # path => tables'[t] = tables[t]
  <2> HIDE DEF path, table
  <2> QED
    BY <1>1 DEF Put
<1>6. table.run = run /\ table.from = frame[metric] /\ path[1] = Src /\ path[2] = metric
  OBVIOUS
<1> HIDE DEF metric, path, table
<1>7. AgesInv'
  BY <1>1, <1>5, <1>6 DEF DataInv, AgesInv
<1>8. SummariesTellTheDisk'
  BY <1>1 DEF DataInv, SummariesTellTheDisk
<1>9. NothingDroppedSilently'
  <2>1. \A s : Readable(s)' = Readable(s)
    BY <1>1 DEF Readable
  <2>2. ASSUME NEW t \in DOMAIN tables', tables'[t].whole,
               NEW f \in Readable(t[1]), Metric(f) = t[2], f.run < tables'[t].run
        PROVE  IF raw[f].whole THEN f \in tables'[t].from ELSE Lenient(t[1])
    <3>1. CASE t = path
      BY <1>4, <1>5, <1>6, <2>2, <3>1
    <3>2. CASE t # path
      BY <1>5, <2>2, <3>2 DEF DataInv, NothingDroppedSilently
    <3> QED
      BY <3>1, <3>2
  <2> QED
    BY <1>1, <2>1, <2>2 DEF NothingDroppedSilently
<1>10. IdleInv' /\ IngestInv' /\ FrameInv'
  <2>1. CASE Ends
    BY <2>1, EndsIdle
  <2>2. CASE cmd' = cmd /\ frame' = Nothing
    BY <1>1, <2>2 DEF IdleInv, IngestInv, FrameInv
  <2>3. CASE cmd' = cmd /\ source' = source /\ frame' = frame
    <3>1. Readable(Src)' = Readable(Src) /\ Src' = Src
      BY <1>1, <2>3 DEF Readable, Src
    <3> QED
      BY <1>1, <2>3, <3>1 DEF IdleInv, IngestInv, FrameInv, DataInv
  <2>4. CASE /\ DOMAIN frame # {metric}
             /\ cmd' = cmd /\ source' = source /\ frame' = Restrict(frame, DOMAIN frame \ {metric})
    <3>1. Readable(Src)' = Readable(Src) /\ Src' = Src
      BY <1>1, <2>4 DEF Readable, Src
    <3>2. DOMAIN frame' = DOMAIN frame \ {metric} /\ \A m \in DOMAIN frame' : frame'[m] = frame[m]
      BY <2>4 DEF Restrict
    <3> QED
      BY <1>1, <1>3, <2>4, <3>1, <3>2 DEF IdleInv, IngestInv, FrameInv, DataInv
  <2> QED
    BY <1>2, <2>1, <2>2, <2>3, <2>4
<1> QED
  BY <1>7, <1>8, <1>9, <1>10 DEF DataInv

\* Every step keeps the invariant of the data directory.
LEMMA DataSteps ==
  ASSUME DataInv, TargetInv, [Next]_allVars PROVE DataInv'
<1>1. CASE UNCHANGED allVars
  <2>1. /\ run' = run /\ cmd' = cmd /\ source' = source /\ todo' = todo /\ fetched' = fetched
        /\ step' = step /\ written_count' = written_count /\ frame' = frame
        /\ summaries' = summaries /\ raw' = raw /\ tables' = tables
    BY <1>1 DEF allVars, vars, position
  <2>2. AgesInv' /\ SummariesTellTheDisk' /\ NothingDroppedSilently'
    BY <2>1, Quiet DEF DataInv
  <2>3. IdleInv'
    BY <2>1 DEF DataInv, IdleInv
  <2>4. Src' = Src /\ Readable(Src)' = Readable(Src)
    BY <2>1 DEF Src, Readable
  <2>5. FrameInv'
    BY <2>1, <2>4 DEF DataInv, FrameInv
  <2>6. FetchInv' = FetchInv
    BY <2>1 DEF FetchInv
  <2>7. LoopInv' = LoopInv
    BY <2>1 DEF LoopInv
  <2>8. DiskInv' = DiskInv
    <3>1. Finished' = Finished /\ Begun' = Begun /\ \A j : File(j)' = File(j)
      BY <2>1, <2>4 DEF Finished, Begun, File
    <3> QED
      BY <2>1, <2>4, <3>1 DEF DiskInv
  <2> QED
    BY <2>1, <2>2, <2>3, <2>5, <2>6, <2>7, <2>8 DEF DataInv, IngestInv
<1>2. CASE DataNext
  <2>1. CASE StartNormalize
    BY <2>1, OtherStep DEF StartNormalize, Typed, position, DataInv, IdleInv
  <2>2. CASE ReadRaises
    BY <2>2, OtherStep DEF ReadRaises
  <2>3. CASE StartStatistics
    BY <2>3, OtherStep DEF StartStatistics, Typed
  <2>4. CASE WriteStatistics
    BY <2>4, OtherStep DEF WriteStatistics
  <2> QED
    BY <1>2, <2>1, <2>2, <2>3, <2>4, StartIngestStep, FetchStep, FetchFailsStep, StoreStep,
       StoreFailsStep, SourceDoneStep, ReadAllStep, WriteTableStep DEF DataNext
<1>3. CASE StartBacktest
  BY <1>3, OtherStep DEF StartBacktest, Typed, Commands, StudyCommands
<1>4. CASE InputTorn
  BY <1>4, OtherStep DEF InputTorn
<1>5. CASE StartStage
  BY <1>5, OtherStep DEF StartStage, Typed, Commands, StageCommands
<1>6. CASE StartAgents
  <2>1. /\ UNCHANGED <<summaries, raw, tables>> /\ run' = run + 1
        /\ \/ cmd' = "analyze_agents"
           \/ cmd = "idle" /\ UNCHANGED <<cmd, todo>>
        /\ UNCHANGED <<source, fetched, step, written_count, frame>>
    BY <1>6 DEF StartAgents, Typed
  <2> QED
    BY <2>1, OtherStep DEF Commands, StageCommands, position
<1>7. CASE AgentsFail
  BY <1>7, OtherStep DEF AgentsFail, Commands, StageCommands
<1>8. CASE StartDemo
  BY <1>8, OtherStep DEF StartDemo, Typed, Commands
<1>9. CASE StartDraft
  BY <1>9, OtherStep DEF StartDraft, Typed, Commands
<1>10. CASE DraftFails
  BY <1>10, OtherStep DEF DraftFails
<1>11. CASE WriteFile
  <2>1. /\ UNCHANGED <<run, summaries, raw, tables>>
        /\ Ends \/ cmd' = cmd
        /\ target # NoTarget
    BY <1>11 DEF WriteFile
  <2> QED
    BY <2>1, OtherStep DEF TargetInv
<1>12. CASE Kill
  BY <1>12, OtherStep DEF Kill, Killed
<1> QED
  BY <1>1, <1>2, <1>3, <1>4, <1>5, <1>6, <1>7, <1>8, <1>9, <1>10, <1>11, <1>12 DEF Next

-----------------------------------------------------------------------------
(* The lists of files the commands begin with. *)

Planned(list, group) ==
  \/ ToSet(list) \cap Members(group) = {}
  \/ Members(group) \subseteq ToSet(list) /\ InOrder(list, group)

\* A list in which no file comes twice and every group is whole and in its order.
Ready(list, groups) ==
  /\ list \in Seq(FileNames) /\ list # <<>> /\ IsInjective(list)
  /\ \A group \in groups : Planned(list, group)

\* A list that is written out.
LEMMA WrittenOut ==
  ASSUME NEW n \in Nat, NEW R, R = [k \in 1..n |-> R[k]], \A k \in 1..n : R[k] \in FileNames
  PROVE  R \in Seq(FileNames) /\ Len(R) = n /\ DOMAIN R = 1..n
OBVIOUS

\* The lists the commands write are made of these.
LEMMA PartsOfLists ==
  /\ StudyTables \in Seq(FileNames) /\ Len(StudyTables) = 3
  /\ StudyTexts \in Seq(FileNames) /\ Len(StudyTexts) = 3
  /\ PaperTables \in Seq(FileNames) /\ Len(PaperTables) = 3
  /\ Ranking \in Seq(FileNames) /\ Len(Ranking) = 4
  /\ Audit \in Seq(FileNames) /\ Len(Audit) = 3
  /\ Artifacts \in Seq(FileNames) /\ Len(Artifacts) = 3
<1>1. StudyTables = [k \in 1..3 |-> StudyTables[k]] /\ \A k \in 1..3 : StudyTables[k] \in FileNames
  BY DEF StudyTables, FileNames
<1>2. StudyTexts = [k \in 1..3 |-> StudyTexts[k]] /\ \A k \in 1..3 : StudyTexts[k] \in FileNames
  BY DEF StudyTexts, FileNames
<1>3. PaperTables = [k \in 1..3 |-> PaperTables[k]] /\ \A k \in 1..3 : PaperTables[k] \in FileNames
  BY DEF PaperTables, FileNames
<1>4. Ranking = [k \in 1..4 |-> Ranking[k]] /\ \A k \in 1..4 : Ranking[k] \in FileNames
  BY DEF Ranking, FileNames
<1>5. Audit = [k \in 1..3 |-> Audit[k]] /\ \A k \in 1..3 : Audit[k] \in FileNames
  BY DEF Audit, FileNames
<1>6. Artifacts = [k \in 1..3 |-> Artifacts[k]] /\ \A k \in 1..3 : Artifacts[k] \in FileNames
  BY DEF Artifacts, FileNames
<1> QED
  BY <1>1, <1>2, <1>3, <1>4, <1>5, <1>6, WrittenOut

\* What a backtest writes.
LEMMA PlainStudyFiles ==
  /\ PlainStudy \in Seq(FileNames) /\ Len(PlainStudy) = 6
  /\ PlainStudy[1] = "forecast_errors.parquet" /\ PlainStudy[2] = "anomalies.parquet"
  /\ PlainStudy[3] = "cross_domain_breaks.parquet" /\ PlainStudy[4] = "summary.json"
  /\ PlainStudy[5] = "provenance.json" /\ PlainStudy[6] = "study.md"
<1>1. /\ PlainStudy \in Seq(FileNames) /\ Len(PlainStudy) = Len(StudyTables) + Len(StudyTexts)
      /\ \A i \in 1..Len(StudyTables) + Len(StudyTexts) :
           PlainStudy[i] = IF i <= Len(StudyTables) THEN StudyTables[i]
                                                    ELSE StudyTexts[i - Len(StudyTables)]
  BY PartsOfLists, ConcatProperties, Zenon DEF PlainStudy
<1>2. Len(StudyTables) + Len(StudyTexts) = 6
  BY PartsOfLists
<1>3. /\ PlainStudy[1] = StudyTables[1] /\ PlainStudy[2] = StudyTables[2]
      /\ PlainStudy[3] = StudyTables[3] /\ PlainStudy[4] = StudyTexts[1]
      /\ PlainStudy[5] = StudyTexts[2] /\ PlainStudy[6] = StudyTexts[3]
  BY <1>1, <1>2, PartsOfLists
<1> QED
  BY <1>1, <1>2, <1>3 DEF StudyTables, StudyTexts

\* What a backtest of the advanced models writes.
LEMMA AdvancedStudyFiles ==
  /\ AdvancedStudy \in Seq(FileNames) /\ Len(AdvancedStudy) = 7
  /\ AdvancedStudy[1] = "forecast_errors.parquet" /\ AdvancedStudy[2] = "anomalies.parquet"
  /\ AdvancedStudy[3] = "cross_domain_breaks.parquet"
  /\ AdvancedStudy[4] = "model_comparison.parquet" /\ AdvancedStudy[5] = "summary.json"
  /\ AdvancedStudy[6] = "provenance.json" /\ AdvancedStudy[7] = "study.md"
<1> DEFINE one == <<"model_comparison.parquet">>
           four == StudyTables \o one
<1>1. one \in Seq(FileNames) /\ Len(one) = 1 /\ one[1] = "model_comparison.parquet"
  BY DEF FileNames
<1>2. AdvancedStudy = four \o StudyTexts
  BY DEF AdvancedStudy
<1> HIDE DEF one
<1>3. /\ four \in Seq(FileNames) /\ Len(four) = Len(StudyTables) + Len(one)
      /\ \A i \in 1..Len(StudyTables) + Len(one) :
           four[i] = IF i <= Len(StudyTables) THEN StudyTables[i] ELSE one[i - Len(StudyTables)]
  BY <1>1, PartsOfLists, ConcatProperties, Zenon
<1>4. Len(StudyTables) + Len(one) = 4
  BY <1>1, PartsOfLists
<1> HIDE DEF four
<1>5. /\ four \o StudyTexts \in Seq(FileNames) /\ Len(four \o StudyTexts) = Len(four) + Len(StudyTexts)
      /\ \A i \in 1..Len(four) + Len(StudyTexts) :
           (four \o StudyTexts)[i] = IF i <= Len(four) THEN four[i] ELSE StudyTexts[i - Len(four)]
  <2>1. four \in Seq(FileNames) /\ StudyTexts \in Seq(FileNames)
    BY <1>3, PartsOfLists
  <2> QED
    BY <2>1, ConcatProperties, Zenon
<1>6. Len(four) + Len(StudyTexts) = 7
  BY <1>3, <1>4, PartsOfLists
<1>7. /\ four[1] = StudyTables[1] /\ four[2] = StudyTables[2] /\ four[3] = StudyTables[3]
      /\ four[4] = one[1]
  BY <1>3, <1>4, PartsOfLists
<1>8. /\ AdvancedStudy[1] = four[1] /\ AdvancedStudy[2] = four[2] /\ AdvancedStudy[3] = four[3]
      /\ AdvancedStudy[4] = four[4] /\ AdvancedStudy[5] = StudyTexts[1]
      /\ AdvancedStudy[6] = StudyTexts[2] /\ AdvancedStudy[7] = StudyTexts[3]
  BY <1>2, <1>3, <1>4, <1>5, <1>6
<1> QED
  BY <1>1, <1>2, <1>5, <1>6, <1>7, <1>8 DEF StudyTables, StudyTexts

\* What a draft is made of.
LEMMA DraftFiles ==
  /\ Draft \in Seq(FileNames) /\ Len(Draft) = 6
  /\ Draft[1] = "key_results.csv" /\ Draft[2] = "artifact_summary.csv"
  /\ Draft[3] = "model_comparison.csv" /\ Draft[4] = "source_snapshot.json"
  /\ Draft[5] = "draft_v1.md" /\ Draft[6] = "draft_v1_metadata.json"
<1> DEFINE rest == <<"source_snapshot.json", "draft_v1.md", "draft_v1_metadata.json">>
<1>1. rest \in Seq(FileNames) /\ Len(rest) = 3
  <2>1. rest = [k \in 1..3 |-> rest[k]] /\ \A k \in 1..3 : rest[k] \in FileNames
    BY DEF FileNames
  <2> HIDE DEF rest
  <2> QED
    BY <2>1, WrittenOut
<1>2. Draft = PaperTables \o rest
  BY DEF Draft
<1>3. /\ rest[1] = "source_snapshot.json" /\ rest[2] = "draft_v1.md"
      /\ rest[3] = "draft_v1_metadata.json"
  OBVIOUS
<1> HIDE DEF rest
<1>4. /\ PaperTables \o rest \in Seq(FileNames)
      /\ Len(PaperTables \o rest) = Len(PaperTables) + Len(rest)
      /\ \A i \in 1..Len(PaperTables) + Len(rest) :
           (PaperTables \o rest)[i] = IF i <= Len(PaperTables) THEN PaperTables[i]
                                                               ELSE rest[i - Len(PaperTables)]
  BY <1>1, PartsOfLists, ConcatProperties, Zenon
<1>5. Len(PaperTables) + Len(rest) = 6
  BY <1>1, PartsOfLists
<1>6. /\ Draft[1] = PaperTables[1] /\ Draft[2] = PaperTables[2] /\ Draft[3] = PaperTables[3]
      /\ Draft[4] = rest[1] /\ Draft[5] = rest[2] /\ Draft[6] = rest[3]
  BY <1>2, <1>4, <1>5, PartsOfLists
<1> QED
  BY <1>2, <1>3, <1>4, <1>5, <1>6 DEF PaperTables

\* What the demo is made of.
LEMMA DemoStudyFiles ==
  /\ DemoStudy \in Seq(FileNames) /\ Len(DemoStudy) = 21
  /\ DemoStudy[1] = "raw" /\ DemoStudy[2] = "raw_metadata" /\ DemoStudy[3] = "normalized"
  /\ DemoStudy[4] = "statistics"
  /\ \A i \in 1..6 : DemoStudy[i + 4] = PlainStudy[i]
  /\ DemoStudy[11] = "demo_manifest.json"
  /\ \A i \in 1..4 : DemoStudy[i + 11] = Ranking[i]
  /\ \A i \in 1..3 : DemoStudy[i + 15] = Audit[i]
  /\ \A i \in 1..3 : DemoStudy[i + 18] = Artifacts[i]
<1> DEFINE inputs == <<"raw", "raw_metadata", "normalized", "statistics">>
           manifest == <<"demo_manifest.json">>
           a == inputs \o PlainStudy
           b == a \o manifest
           c == b \o Ranking
           d == c \o Audit
           e == d \o Artifacts
<1>1. inputs \in Seq(FileNames) /\ Len(inputs) = 4
  <2>1. inputs = [k \in 1..4 |-> inputs[k]] /\ \A k \in 1..4 : inputs[k] \in FileNames
    BY DEF FileNames
  <2> HIDE DEF inputs
  <2> QED
    BY <2>1, WrittenOut
<1>2. manifest \in Seq(FileNames) /\ Len(manifest) = 1 /\ manifest[1] = "demo_manifest.json"
  BY DEF FileNames
<1>3. /\ inputs[1] = "raw" /\ inputs[2] = "raw_metadata" /\ inputs[3] = "normalized"
      /\ inputs[4] = "statistics"
  OBVIOUS
<1>4. DemoStudy = e
  BY DEF DemoStudy
<1> HIDE DEF inputs, manifest
<1>5. /\ a \in Seq(FileNames) /\ Len(a) = Len(inputs) + Len(PlainStudy)
      /\ \A i \in 1..Len(inputs) + Len(PlainStudy) :
           a[i] = IF i <= Len(inputs) THEN inputs[i] ELSE PlainStudy[i - Len(inputs)]
  BY <1>1, PlainStudyFiles, ConcatProperties, Zenon
<1> HIDE DEF a
<1>6. /\ b \in Seq(FileNames) /\ Len(b) = Len(a) + Len(manifest)
      /\ \A i \in 1..Len(a) + Len(manifest) :
           b[i] = IF i <= Len(a) THEN a[i] ELSE manifest[i - Len(a)]
  <2>1. a \in Seq(FileNames) /\ manifest \in Seq(FileNames)
    BY <1>5, <1>2
  <2> QED
    BY <2>1, ConcatProperties, Zenon
<1> HIDE DEF b
<1>7. /\ c \in Seq(FileNames) /\ Len(c) = Len(b) + Len(Ranking)
      /\ \A i \in 1..Len(b) + Len(Ranking) :
           c[i] = IF i <= Len(b) THEN b[i] ELSE Ranking[i - Len(b)]
  <2>1. b \in Seq(FileNames) /\ Ranking \in Seq(FileNames)
    BY <1>6, PartsOfLists
  <2> QED
    BY <2>1, ConcatProperties, Zenon
<1> HIDE DEF c
<1>8. /\ d \in Seq(FileNames) /\ Len(d) = Len(c) + Len(Audit)
      /\ \A i \in 1..Len(c) + Len(Audit) :
           d[i] = IF i <= Len(c) THEN c[i] ELSE Audit[i - Len(c)]
  <2>1. c \in Seq(FileNames) /\ Audit \in Seq(FileNames)
    BY <1>7, PartsOfLists
  <2> QED
    BY <2>1, ConcatProperties, Zenon
<1> HIDE DEF d
<1>9. /\ e \in Seq(FileNames) /\ Len(e) = Len(d) + Len(Artifacts)
      /\ \A i \in 1..Len(d) + Len(Artifacts) :
           e[i] = IF i <= Len(d) THEN d[i] ELSE Artifacts[i - Len(d)]
  <2>1. d \in Seq(FileNames) /\ Artifacts \in Seq(FileNames)
    BY <1>8, PartsOfLists
  <2> QED
    BY <2>1, ConcatProperties, Zenon
<1> HIDE DEF e
<1>10. Len(a) = 10 /\ Len(b) = 11 /\ Len(c) = 15 /\ Len(d) = 18 /\ Len(e) = 21
  BY <1>1, <1>2, <1>5, <1>6, <1>7, <1>8, <1>9, PlainStudyFiles, PartsOfLists
<1>11. /\ \A i \in 1..10 : a[i] = IF i <= 4 THEN inputs[i] ELSE PlainStudy[i - 4]
       /\ \A i \in 1..11 : b[i] = IF i <= 10 THEN a[i] ELSE manifest[i - 10]
  BY <1>1, <1>2, <1>5, <1>6, <1>10
<1>12. \A i \in 1..15 : c[i] = IF i <= 11 THEN b[i] ELSE Ranking[i - 11]
  BY <1>7, <1>10
<1>13. \A i \in 1..18 : d[i] = IF i <= 15 THEN c[i] ELSE Audit[i - 15]
  BY <1>8, <1>10
<1>14. \A i \in 1..21 : e[i] = IF i <= 18 THEN d[i] ELSE Artifacts[i - 18]
  BY <1>9, <1>10
<1>15. \A i \in 1..3 : e[i + 18] = Artifacts[i] /\ e[i + 15] = Audit[i]
  BY <1>13, <1>14
<1>16. \A i \in 1..4 : e[i + 11] = Ranking[i] /\ e[i] = inputs[i]
  BY <1>11, <1>12, <1>13, <1>14
<1>17. e[11] = manifest[1]
  BY <1>11, <1>12, <1>13, <1>14
<1>18. \A i \in 1..6 : e[i + 4] = PlainStudy[i]
  BY <1>11, <1>12, <1>13, <1>14
<1>19. /\ e[1] = "raw" /\ e[2] = "raw_metadata" /\ e[3] = "normalized" /\ e[4] = "statistics"
  BY <1>3, <1>16
<1> QED
  BY <1>2, <1>4, <1>9, <1>10, <1>15, <1>16, <1>17, <1>18, <1>19

\* The numbers of the elements of a list.
LEMMA ListDomain ==
  ASSUME NEW S, NEW s \in Seq(S)
  PROVE  DOMAIN s = 1..Len(s) /\ (s = <<>> => Len(s) = 0)
OBVIOUS

\* The groups of files of a study, member by member: those of the study itself,
LEMMA StudyGroup ==
  ASSUME NEW group \in StudyGroups, group.last = "study.md"
  PROVE  /\ group.first = "forecast_errors.parquet"
         /\ Members(group) = {"forecast_errors.parquet", "anomalies.parquet",
                             "cross_domain_breaks.parquet", "summary.json", "provenance.json", "study.md"}
BY DEF StudyGroups, Members, VALID_STUDY_FILES, StudyTables, ToSet

\* and those of its stages.
LEMMA StageGroup ==
  ASSUME NEW group \in StudyGroups, group.last # "study.md"
  PROVE  \/ /\ group.first = "ranked_break_candidates.parquet" /\ group.last = "top_break_candidates.md"
            /\ Members(group) = {"ranked_break_candidates.parquet", "ranked_break_candidates.json",
                                "top_break_candidates.md"}
         \/ /\ group.first = "candidate_audit.parquet" /\ group.last = "candidate_audit.md"
            /\ Members(group) = {"candidate_audit.parquet", "candidate_audit.json", "candidate_audit.md"}
         \/ /\ group.first = "data_artifact_audit.parquet" /\ group.last = "data_artifact_audit.md"
            /\ Members(group) = {"data_artifact_audit.parquet", "data_artifact_audit.json",
                                "data_artifact_audit.md"}
BY DEF StudyGroups, Members

\* Both kinds of study list the files of a study in the order that makes study.md the last.
LEMMA BacktestsReady ==
  Ready(PlainStudy, StudyGroups) /\ Ready(AdvancedStudy, StudyGroups)
<1>1. ASSUME NEW L, L \in Seq(FileNames), Len(L) = 6,
             L[1] = "forecast_errors.parquet", L[2] = "anomalies.parquet",
             L[3] = "cross_domain_breaks.parquet", L[4] = "summary.json",
             L[5] = "provenance.json", L[6] = "study.md"
      PROVE  Ready(L, StudyGroups)
  <2>1. DOMAIN L = 1..6 /\ L # <<>>
    <3>1. Len(L) = 6 /\ DOMAIN L = 1..Len(L) /\ (L = <<>> => Len(L) = 0)
      BY <1>1, ListDomain, Zenon
    <3> QED
      BY <3>1
  <2>2. IsInjective(L)
    BY <1>1, <2>1 DEF IsInjective
  <2>3. \A group \in StudyGroups : Planned(L, group)
    <3> SUFFICES ASSUME NEW group \in StudyGroups PROVE Planned(L, group)
      OBVIOUS
    <3>1. CASE group.last = "study.md"
      BY <1>1, <2>1, <3>1, StudyGroup DEF Planned, ToSet, InOrder
    <3>2. CASE group.last # "study.md"
      BY <1>1, <2>1, <3>2, StageGroup DEF Planned, ToSet
    <3> QED
      BY <3>1, <3>2
  <2> QED
    BY <1>1, <2>1, <2>2, <2>3 DEF Ready
<1>2. ASSUME NEW L, L \in Seq(FileNames), Len(L) = 7,
             L[1] = "forecast_errors.parquet", L[2] = "anomalies.parquet",
             L[3] = "cross_domain_breaks.parquet", L[4] = "model_comparison.parquet",
             L[5] = "summary.json", L[6] = "provenance.json", L[7] = "study.md"
      PROVE  Ready(L, StudyGroups)
  <2>1. DOMAIN L = 1..7 /\ L # <<>>
    <3>1. Len(L) = 7 /\ DOMAIN L = 1..Len(L) /\ (L = <<>> => Len(L) = 0)
      BY <1>2, ListDomain, Zenon
    <3> QED
      BY <3>1
  <2>2. IsInjective(L)
    BY <1>2, <2>1 DEF IsInjective
  <2>3. \A group \in StudyGroups : Planned(L, group)
    <3> SUFFICES ASSUME NEW group \in StudyGroups PROVE Planned(L, group)
      OBVIOUS
    <3>1. CASE group.last = "study.md"
      BY <1>2, <2>1, <3>1, StudyGroup DEF Planned, ToSet, InOrder
    <3>2. CASE group.last # "study.md"
      BY <1>2, <2>1, <3>2, StageGroup DEF Planned, ToSet
    <3> QED
      BY <3>1, <3>2
  <2> QED
    BY <1>2, <2>1, <2>2, <2>3 DEF Ready
<1> QED
  BY <1>1, <1>2, PlainStudyFiles, AdvancedStudyFiles

\* Each stage lists its group in order.
LEMMA StagesReady ==
  Ready(Ranking, StudyGroups) /\ Ready(Audit, StudyGroups) /\ Ready(Artifacts, StudyGroups)
<1>1. Ready(Ranking, StudyGroups)
  <2>1. IsInjective(Ranking) /\ Ranking # <<>>
    BY DEF Ranking, IsInjective
  <2>2. \A group \in StudyGroups : Planned(Ranking, group)
    BY DEF Ranking, StudyGroups, Planned, ToSet, Members, InOrder, VALID_STUDY_FILES, StudyTables
  <2> QED
    BY <2>1, <2>2, PartsOfLists DEF Ready
<1>2. Ready(Audit, StudyGroups)
  <2>1. IsInjective(Audit) /\ Audit # <<>>
    BY DEF Audit, IsInjective
  <2>2. \A group \in StudyGroups : Planned(Audit, group)
    BY DEF Audit, StudyGroups, Planned, ToSet, Members, InOrder, VALID_STUDY_FILES, StudyTables
  <2> QED
    BY <2>1, <2>2, PartsOfLists DEF Ready
<1>3. Ready(Artifacts, StudyGroups)
  <2>1. IsInjective(Artifacts) /\ Artifacts # <<>>
    BY DEF Artifacts, IsInjective
  <2>2. \A group \in StudyGroups : Planned(Artifacts, group)
    BY DEF Artifacts, StudyGroups, Planned, ToSet, Members, InOrder, VALID_STUDY_FILES, StudyTables
  <2> QED
    BY <2>1, <2>2, PartsOfLists DEF Ready
<1> QED
  BY <1>1, <1>2, <1>3

\* The agents write beside the groups, and the verdict last.
LEMMA AgentsReady ==
  ASSUME NEW list \in Agents
  PROVE  Ready(list, StudyGroups) /\ list[Len(list)] = "agents/agent_run.json"
<1>1. CASE list = <<"agents/skeptic.md", "agents/synthesis.md", "agents/agent_run.json">>
  <2>1. list = [k \in 1..3 |-> list[k]] /\ \A k \in 1..3 : list[k] \in FileNames
    BY <1>1 DEF FileNames
  <2>2. list \in Seq(FileNames) /\ Len(list) = 3 /\ list # <<>>
    BY <2>1, WrittenOut
  <2>3. IsInjective(list) /\ list[3] = "agents/agent_run.json"
    BY <1>1 DEF IsInjective
  <2>4. \A group \in StudyGroups : Planned(list, group)
    BY <1>1 DEF StudyGroups, Planned, ToSet, Members, VALID_STUDY_FILES, StudyTables
  <2> QED
    BY <2>2, <2>3, <2>4 DEF Ready
<1>2. CASE list = <<"agents/synthesis.md", "agents/agent_run.json">>
  <2>1. list = [k \in 1..2 |-> list[k]] /\ \A k \in 1..2 : list[k] \in FileNames
    BY <1>2 DEF FileNames
  <2>2. list \in Seq(FileNames) /\ Len(list) = 2 /\ list # <<>>
    BY <2>1, WrittenOut
  <2>3. IsInjective(list) /\ list[2] = "agents/agent_run.json"
    BY <1>2 DEF IsInjective
  <2>4. \A group \in StudyGroups : Planned(list, group)
    BY <1>2 DEF StudyGroups, Planned, ToSet, Members, VALID_STUDY_FILES, StudyTables
  <2> QED
    BY <2>2, <2>3, <2>4 DEF Ready
<1> QED
  BY <1>1, <1>2 DEF Agents

\* The draft lists its group in order.
LEMMA DraftReady == Ready(Draft, PaperGroups)
<1>1. DOMAIN Draft = 1..6 /\ Draft # <<>>
  BY DraftFiles
<1>2. IsInjective(Draft)
  BY <1>1, DraftFiles DEF IsInjective
<1>3. \A group \in PaperGroups : Planned(Draft, group)
  BY <1>1, DraftFiles DEF PaperGroups, Planned, ToSet, Members, InOrder
<1> QED
  BY <1>1, <1>2, <1>3, DraftFiles DEF Ready

\* The demo lists the groups of a study, a ranking and both audits in order.
LEMMA DemoReady == Ready(DemoStudy, StudyGroups)
<1> DEFINE R == DemoStudy
<1>1. /\ R[1] = "raw" /\ R[2] = "raw_metadata" /\ R[3] = "normalized" /\ R[4] = "statistics"
      /\ R[11] = "demo_manifest.json"
  BY DemoStudyFiles
<1>2. /\ R[1 + 4] = PlainStudy[1] /\ R[2 + 4] = PlainStudy[2] /\ R[3 + 4] = PlainStudy[3]
      /\ R[4 + 4] = PlainStudy[4] /\ R[5 + 4] = PlainStudy[5] /\ R[6 + 4] = PlainStudy[6]
  BY DemoStudyFiles
<1>3. /\ R[1 + 11] = Ranking[1] /\ R[2 + 11] = Ranking[2] /\ R[3 + 11] = Ranking[3]
      /\ R[4 + 11] = Ranking[4]
  BY DemoStudyFiles
<1>4. /\ R[1 + 15] = Audit[1] /\ R[2 + 15] = Audit[2] /\ R[3 + 15] = Audit[3]
      /\ R[1 + 18] = Artifacts[1] /\ R[2 + 18] = Artifacts[2] /\ R[3 + 18] = Artifacts[3]
  BY DemoStudyFiles
<1> HIDE DEF R
<1>5. /\ R[5] = "forecast_errors.parquet" /\ R[6] = "anomalies.parquet"
      /\ R[7] = "cross_domain_breaks.parquet" /\ R[8] = "summary.json"
      /\ R[9] = "provenance.json" /\ R[10] = "study.md"
  BY <1>2, PlainStudyFiles
<1>6. /\ R[12] = "ranked_break_candidates.parquet" /\ R[13] = "ranked_break_candidates.json"
      /\ R[14] = "ordinary_explanation_hints.json" /\ R[15] = "top_break_candidates.md"
  BY <1>3 DEF Ranking
<1>7. /\ R[16] = "candidate_audit.parquet" /\ R[17] = "candidate_audit.json"
      /\ R[18] = "candidate_audit.md" /\ R[19] = "data_artifact_audit.parquet"
      /\ R[20] = "data_artifact_audit.json" /\ R[21] = "data_artifact_audit.md"
  BY <1>4 DEF Audit, Artifacts
<1>8. R \in Seq(FileNames) /\ Len(R) = 21
  BY DemoStudyFiles DEF R
<1>9. DOMAIN R = 1..21 /\ R # <<>>
  <2>1. DOMAIN R = 1..Len(R) /\ Len(<<>>) = 0
    BY <1>8
  <2>2. 21 # 0
    OBVIOUS
  <2> QED
    BY <1>8, <2>1, <2>2, Zenon
<1>10. IsInjective(R)
  BY <1>1, <1>5, <1>6, <1>7, <1>9 DEF IsInjective
<1>11. ASSUME NEW group \in StudyGroups PROVE Planned(R, group)
  <2>1. group.files \subseteq Members(group)
    BY DEF Members
  <2>2. CASE group.last = "study.md"
    <3>1. Members(group) = {R[5], R[6], R[7], R[8], R[9], R[10]}
      BY <1>5, <2>2, StudyGroup, Zenon
    <3>2. group.first = R[5] /\ group.last = R[10]
      BY <1>5, <2>2, StudyGroup, Zenon
    <3>3. Members(group) \subseteq ToSet(R)
      BY <1>9, <3>1 DEF ToSet
    <3>4. \A i \in DOMAIN R : /\ R[i] \in Members(group) => i \in 5..10
                              /\ R[i] = group.first => i = 5
                              /\ R[i] = group.last => i = 10
      BY <1>9, <1>10, <3>1, <3>2 DEF IsInjective
    <3>5. InOrder(R, group)
      <4> SUFFICES ASSUME NEW i \in DOMAIN R, NEW j \in DOMAIN R
                   PROVE  /\ R[j] = group.last /\ R[i] \in Members(group) \ {group.last} => i < j
                          /\ R[i] = group.first /\ R[j] \in group.files \ {group.first} => i < j
        BY Zenon DEF InOrder
      <4>1. ASSUME R[j] = group.last, R[i] \in Members(group) \ {group.last} PROVE i < j
        <5>1. j = 10 /\ i \in 5..10
          BY <3>4, <4>1, Zenon
        <5>2. i # 10
          BY <3>2, <4>1, Zenon
        <5> QED
          BY <5>1, <5>2
      <4>2. ASSUME R[i] = group.first, R[j] \in group.files \ {group.first} PROVE i < j
        <5>1. i = 5 /\ j \in 5..10
          BY <2>1, <3>4, <4>2, Zenon
        <5>2. j # 5
          BY <3>2, <4>2, Zenon
        <5> QED
          BY <5>1, <5>2
      <4> QED
        BY <4>1, <4>2
    <3> QED
      BY <3>3, <3>5 DEF Planned
  <2>3. CASE group.last # "study.md"
    <3>1. PICK n \in {12, 16, 19} : \E k \in n + 2..21 :
            /\ k <= n + 3
            /\ group.first = R[n] /\ group.last = R[k] /\ Members(group) = {R[n], R[n + 1], R[k]}
      <4>1. CASE group.last = "top_break_candidates.md"
        <5>1. group.first = R[12] /\ group.last = R[15] /\ Members(group) = {R[12], R[12 + 1], R[15]}
          BY <1>6, <2>3, <4>1, StageGroup
        <5> QED
          BY <5>1
      <4>2. CASE group.last = "candidate_audit.md"
        <5>1. group.first = R[16] /\ group.last = R[18] /\ Members(group) = {R[16], R[16 + 1], R[18]}
          BY <1>7, <2>3, <4>2, StageGroup
        <5> QED
          BY <5>1
      <4>3. CASE group.last = "data_artifact_audit.md"
        <5>1. group.first = R[19] /\ group.last = R[21] /\ Members(group) = {R[19], R[19 + 1], R[21]}
          BY <1>7, <2>3, <4>3, StageGroup
        <5> QED
          BY <5>1
      <4> QED
        BY <2>3, <4>1, <4>2, <4>3, StageGroup
    <3>2. PICK k \in n + 2..21 :
            /\ group.first = R[n] /\ group.last = R[k] /\ Members(group) = {R[n], R[n + 1], R[k]}
      BY <3>1
    <3>3. n \in 1..21 /\ n + 1 \in 1..21 /\ k \in 1..21 /\ n + 1 < k
      BY <3>1
    <3>4. Members(group) \subseteq ToSet(R)
      BY <1>9, <3>2, <3>3 DEF ToSet
    <3>5. \A i \in DOMAIN R : /\ R[i] \in Members(group) => i \in {n, n + 1, k}
                              /\ R[i] = group.first => i = n
                              /\ R[i] = group.last => i = k
      BY <1>9, <1>10, <3>2, <3>3 DEF IsInjective
    <3>6. InOrder(R, group)
      <4> SUFFICES ASSUME NEW i \in DOMAIN R, NEW j \in DOMAIN R
                   PROVE  /\ R[j] = group.last /\ R[i] \in Members(group) \ {group.last} => i < j
                          /\ R[i] = group.first /\ R[j] \in group.files \ {group.first} => i < j
        BY Zenon DEF InOrder
      <4>1. ASSUME R[j] = group.last, R[i] \in Members(group) \ {group.last} PROVE i < j
        <5>1. j = k /\ i \in {n, n + 1, k}
          BY <3>5, <4>1, Zenon
        <5>2. i # k
          BY <3>2, <4>1, Zenon
        <5> QED
          BY <3>3, <5>1, <5>2
      <4>2. ASSUME R[i] = group.first, R[j] \in group.files \ {group.first} PROVE i < j
        <5>1. i = n /\ j \in {n, n + 1, k}
          BY <2>1, <3>5, <4>2, Zenon
        <5>2. j # n
          BY <3>2, <4>2, Zenon
        <5> QED
          BY <3>3, <5>1, <5>2
      <4> QED
        BY <4>1, <4>2
    <3> QED
      BY <3>4, <3>6 DEF Planned
  <2> QED
    BY <2>2, <2>3
<1> QED
  BY <1>8, <1>9, <1>10, <1>11 DEF Ready, R

-----------------------------------------------------------------------------
(* The groups of files. *)

\* The last file of a group is neither the first one nor one of those between.
LEMMA LastIsLast ==
  ASSUME NEW group \in StudyGroups \cup PaperGroups
  PROVE  group.first # group.last /\ group.last \notin group.files
BY DEF StudyGroups, PaperGroups, VALID_STUDY_FILES, StudyTables, ToSet

\* A file that is not of a group says nothing about it.
LEMMA ApartFromGroup ==
  ASSUME NEW folder, NEW group, NEW f, f \notin Members(group), NEW entry,
         Together(folder, group.first, group.last, group.files)
  PROVE  Together(Put(folder, f, entry), group.first, group.last, group.files)
BY DEF Together, Put, Members

\* What a command has not begun to write is all still to be written.
LEMMA PlannedGroup ==
  ASSUME NEW list, NEW folder, NEW group, Planned(list, group)
  PROVE  GroupInv(list, folder, group)
BY DEF Planned, GroupInv, Members

\* The next file of the list is opened (done = FALSE) or finished (done = TRUE): what
\* was whole stays whole, and what is still to be written is older.
LEMMA NextFile ==
  ASSUME run \in Nat,
         NEW list \in Seq(FileNames), list # <<>>, IsInjective(list),
         NEW folder, OlderInv(list, folder), NEW done \in BOOLEAN,
         NEW group \in StudyGroups \cup PaperGroups, GroupInv(list, folder, group),
         Together(folder, group.first, group.last, group.files)
  PROVE  LET new  == With(folder, list[1], done)
             rest == IF done THEN Tail(list) ELSE list
         IN  /\ Together(new, group.first, group.last, group.files)
             /\ GroupInv(rest, new, group)
<1> DEFINE f == list[1]
           new == With(folder, f, done)
           rest == IF done THEN Tail(list) ELSE list
           first == group.first
           last == group.last
<1>1. /\ DOMAIN new = DOMAIN folder \cup {f} /\ new[f].run = run /\ new[f].whole = done
      /\ \A g \in DOMAIN folder : g # f => new[g] = folder[g]
  BY DEF With, Put
<1>2. first # last /\ last \notin group.files
  BY LastIsLast
<1>3. /\ Len(list) \in Nat \ {0} /\ DOMAIN list = 1..Len(list) /\ 1 \in DOMAIN list
      /\ DOMAIN Tail(list) = 1..Len(list) - 1
      /\ \A j \in DOMAIN Tail(list) : Tail(list)[j] = list[j + 1] /\ j + 1 \in DOMAIN list
      /\ \A j \in DOMAIN Tail(list) : Tail(list)[j] # f
  BY TailElements, InjectiveTail
<1>4. ToSet(Tail(list)) = ToSet(list) \ {f} /\ f \in ToSet(list)
  <2>1. \A i \in DOMAIN list : i # 1 => i - 1 \in DOMAIN Tail(list) /\ Tail(list)[i - 1] = list[i]
    BY <1>3
  <2>2. f = list[1]
    BY DEF f
  <2> HIDE DEF f
  <2>3. ASSUME NEW g \in ToSet(list), g # f PROVE g \in ToSet(Tail(list))
    <3>1. PICK i \in DOMAIN list : list[i] = g
      BY <2>3 DEF ToSet
    <3>2. i - 1 \in DOMAIN Tail(list) /\ Tail(list)[i - 1] = g
      BY <2>1, <2>2, <2>3, <3>1
    <3> QED
      BY <3>2 DEF ToSet
  <2>4. ASSUME NEW g \in ToSet(Tail(list)) PROVE g \in ToSet(list) /\ g # f
    <3>1. PICK j \in DOMAIN Tail(list) : Tail(list)[j] = g
      BY <2>4 DEF ToSet
    <3> QED
      BY <1>3, <3>1, Zenon DEF ToSet
  <2>5. f \in ToSet(list)
    BY <1>3, <2>2, Zenon DEF ToSet
  <2> QED
    BY <2>3, <2>4, <2>5
<1>5. \A g \in ToSet(list) : g # f => ~(g \in DOMAIN folder /\ folder[g].run = run)
  BY DEF OlderInv, ToSet
<1> HIDE DEF new, f
<1>6. CASE ToSet(list) \cap Members(group) = {}
  <2>1. f \notin Members(group)
    BY <1>4, <1>6
  <2>2. Together(new, first, last, group.files)
    BY <2>1, ApartFromGroup DEF new, With
  <2>3. ToSet(rest) \cap Members(group) = {}
    BY <1>4, <1>6
  <2> QED
    BY <2>2, <2>3 DEF GroupInv, new, f
<1>7. CASE ToSet(list) \cap Members(group) # {}
  <2>1. /\ last \in ToSet(list) /\ InOrder(list, group)
        /\ \A g \in Members(group) : g \in ToSet(list) \/ WrittenNow(folder, g)
    BY <1>7 DEF GroupInv
  <2>2. CASE f = last
    <3>1. ToSet(list) \cap Members(group) = {last}
      <4>1. \A i \in DOMAIN list : ~(list[i] \in Members(group) \ {last})
        BY <1>3, <2>1, <2>2 DEF InOrder, f
      <4> QED
        BY <2>1, <4>1 DEF ToSet, Members
    <3>2. \A g \in Members(group) \ {last} : WrittenNow(folder, g)
      BY <2>1, <3>1
    <3>3. Together(new, first, last, group.files)
      BY <1>1, <1>2, <2>2, <3>2 DEF Together, WrittenNow, Members
    <3>4. GroupInv(rest, new, group)
      <4>1. CASE done
        BY <1>4, <2>2, <3>1, <4>1 DEF GroupInv
      <4>2. CASE ~done
        BY <1>1, <1>4, <2>1, <4>2 DEF GroupInv, WrittenNow
      <4> QED
        BY <4>1, <4>2
    <3> QED
      BY <3>3, <3>4 DEF new, f
  <2>3. CASE f # last
    <3>1. ~(last \in DOMAIN new /\ new[last].run = run)
      BY <1>1, <1>5, <2>1, <2>3
    <3>2. Together(new, first, last, group.files)
      <4>1. CASE f \in Members(group)
        <5>1. first \in DOMAIN new /\ new[first].run = run
          <6>1. CASE f = first
            BY <1>1, <6>1
          <6>2. CASE f # first
            <7>1. f \in group.files \ {first}
              BY <2>3, <4>1, <6>2 DEF Members
            <7>2. first \notin ToSet(list)
              BY <1>3, <2>1, <7>1 DEF InOrder, ToSet, f
            <7>3. WrittenNow(folder, first)
              BY <2>1, <7>2 DEF Members
            <7> QED
              BY <1>1, <6>2, <7>3 DEF WrittenNow
          <6> QED
            BY <6>1, <6>2
        <5> QED
          BY <3>1, <5>1 DEF Together
      <4>2. CASE f \notin Members(group)
        BY <4>2, ApartFromGroup DEF new, With
      <4> QED
        BY <4>1, <4>2
    <3>3. last \in ToSet(rest)
      BY <1>4, <2>1, <2>3
    <3>4. \A g \in Members(group) : g \in ToSet(rest) \/ WrittenNow(new, g)
      <4> SUFFICES ASSUME NEW g \in Members(group), g \notin ToSet(rest) PROVE WrittenNow(new, g)
        OBVIOUS
      <4>1. CASE g = f
        BY <1>1, <1>4, <4>1 DEF WrittenNow
      <4>2. CASE g # f
        BY <1>1, <1>4, <2>1, <4>2 DEF WrittenNow
      <4> QED
        BY <4>1, <4>2
    <3>5. InOrder(rest, group)
      <4>1. CASE done
        BY <1>3, <2>1, <4>1 DEF InOrder
      <4>2. CASE ~done
        BY <2>1, <4>2
      <4> QED
        BY <4>1, <4>2
    <3> QED
      BY <3>2, <3>3, <3>4, <3>5 DEF GroupInv, new, f
  <2> QED
    BY <2>2, <2>3
<1> QED
  BY <1>6, <1>7

-----------------------------------------------------------------------------
(* The steps of the commands on the study folders. *)

\* The commands on the data directory write to no folder of a study.
LEMMA DataCommandsAreNot ==
  /\ {"idle", "ingest", "normalize", "compute_statistics"} \cap Commands = {}
  /\ StudyCommands \subseteq Commands /\ StageCommands \subseteq Commands
BY DEF Commands, StudyCommands, StageCommands

\* A folder that was not written to is as old as it was.
LEMMA StillAged ==
  ASSUME NEW now \in Nat, NEW later \in {now, now + 1}, NEW folder, Aged(folder, now)
  PROVE  Aged(folder, later)
<1>1. \A n \in 0..now : n \in 0..later
  OBVIOUS
<1> QED
  BY <1>1, Zenon DEF Aged

\* A step that leaves the folders alone.
LEMMA FoldersStay ==
  ASSUME StudyInv, UNCHANGED <<studies, recency, demo, paper>>, ~pathGiven' => ~pathGiven,
         run' \in {run, run + 1}
  PROVE  run' \in Nat /\ FoldersInv' /\ RecencyInv'
<1>1. run' \in Nat
  BY DEF StudyInv
<1>2. FoldersInv'
  BY StillAged DEF StudyInv, FoldersInv
<1>3. RecencyInv'
  BY DEF StudyInv, RecencyInv
<1> QED
  BY <1>1, <1>2, <1>3

\* When no command writes, there is nothing to write.
LEMMA NothingToWrite ==
  ASSUME target' = NoTarget, cmd' \notin Commands
  PROVE  TargetInv' /\ WritingInv' /\ StageInv'
BY DataCommandsAreNot DEF TargetInv, WritingInv, StageInv, StagesOnNewestStudy, StudyCommands,
   StageCommands, Commands

\* They leave the invariant of the study folders as it is.
LEMMA DataNextStep ==
  ASSUME StudyInv, DataNext, UNCHANGED studyVars PROVE StudyInv'
<1>1. /\ cmd \in {"idle", "ingest", "normalize", "compute_statistics"}
      /\ cmd' \in {"idle", "ingest", "normalize", "compute_statistics"}
      /\ run' \in {run, run + 1}
  <2>1. CASE StartIngest \/ Fetch \/ StartNormalize \/ ReadRaises \/ StartStatistics
    BY <2>1 DEF StartIngest, Fetch, StartNormalize, ReadRaises, StartStatistics, Typed, Ends
  <2>2. CASE FetchFails \/ Store \/ StoreFails \/ SourceDone
    BY <2>2 DEF FetchFails, Store, StoreFails, SourceDone, Storing, NextSource, Ends
  <2>3. CASE ReadAll
    <3>1. cmd = "normalize" /\ run' = run /\ \E used : Group(used)
      BY <2>3 DEF ReadAll
    <3> QED
      BY <3>1 DEF Group, Ends
  <2>4. CASE WriteTable
    BY <2>4, Zenon DEF WriteTable, Ends
  <2>5. CASE WriteStatistics
    BY <2>5, Zenon DEF WriteStatistics, Ends
  <2> QED
    BY <2>1, <2>2, <2>3, <2>4, <2>5 DEF DataNext
<1>2. target' = NoTarget
  BY <1>1, DataCommandsAreNot DEF StudyInv, TargetInv, studyVars
<1>3. TargetInv' /\ WritingInv' /\ StageInv'
  BY <1>1, <1>2, DataCommandsAreNot, NothingToWrite
<1>4. run' \in Nat /\ FoldersInv' /\ RecencyInv'
  BY <1>1, FoldersStay DEF studyVars
<1> QED
  BY <1>3, <1>4 DEF StudyInv

\* A command that ends, or is killed, leaves the folders as they are.
LEMMA EndStep ==
  ASSUME StudyInv, Ends, target' = NoTarget, run' = run,
         UNCHANGED <<studies, recency, demo, paper, pathGiven>>
  PROVE  StudyInv'
<1>1. cmd' \notin Commands
  BY DataCommandsAreNot DEF Ends
<1>2. run' \in Nat /\ FoldersInv' /\ RecencyInv'
  BY FoldersStay
<1> QED
  BY <1>1, <1>2, NothingToWrite DEF StudyInv

\* What a command begins to write is older than the command.
LEMMA StartWriting ==
  ASSUME run \in Nat, run' = run + 1, step' = 0, Ready(todo', Groups(target')),
         \A f \in DOMAIN Folder(target)' : f \in FileNames => Folder(target)'[f].run \in 0..run,
         cmd' = "analyze_agents" => todo'[Len(todo')] = "agents/agent_run.json"
  PROVE  WritingInv'
<1>1. todo' \in Seq(FileNames) /\ todo' # <<>> /\ IsInjective(todo')
  BY DEF Ready
<1>2. OlderInv(todo, Folder(target))'
  <2>1. \A f \in DOMAIN Folder(target)' : f \in FileNames => Folder(target)'[f].run # run'
    <3>1. \A n \in 0..run : n # run'
      OBVIOUS
    <3> QED
      BY <3>1, Zenon
  <2>2. \A j \in DOMAIN todo' : todo'[j] \in FileNames
    BY <1>1
  <2> QED
    BY <2>1, <2>2, Zenon DEF OlderInv
<1>3. ASSUME NEW group \in Groups(target)' PROVE GroupInv(todo, Folder(target), group)'
  <2>1. Planned(todo', group)
    BY <1>3, Zenon DEF Ready, Groups
  <2> QED
    BY <2>1 DEF Planned, GroupInv, Members
<1> QED
  BY <1>1, <1>2, <1>3 DEF WritingInv

\* A sequence as the function it is.
LEMMA ListIsFunction ==
  ASSUME NEW S, NEW s \in Seq(S)
  PROVE  Len(s) \in Nat /\ s = [i \in 1..Len(s) |-> s[i]] /\ \A i \in 1..Len(s) : s[i] \in S
OBVIOUS

\* A list of folders with one more.
LEMMA OneMoreStudy ==
  ASSUME NEW s, s \in Seq(ToSet(s)), NEW e
  PROVE  LET t == Append(s, e) IN
         /\ t \in Seq(ToSet(t)) /\ Len(s) \in Nat /\ DOMAIN s = 1..Len(s)
         /\ Len(t) = Len(s) + 1 /\ DOMAIN t = 1..Len(s) + 1
         /\ \A i \in DOMAIN s : t[i] = s[i]
         /\ t[Len(s) + 1] = e
<1> DEFINE S == ToSet(s) \cup {e}
           t == Append(s, e)
<1>1. s \in Seq(S) /\ e \in S
  <2>1. ToSet(s) \subseteq S
    OBVIOUS
  <2> HIDE DEF S
  <2>2. s = [i \in 1..Len(s) |-> s[i]] /\ Len(s) \in Nat /\ \A i \in 1..Len(s) : s[i] \in S
    BY <2>1
  <2>3. s \in Seq(S)
    BY <2>2, ListOf
  <2> QED
    BY <2>3 DEF S
<1> HIDE DEF S
<1>2. /\ t \in Seq(S) /\ Len(s) \in Nat /\ DOMAIN s = 1..Len(s)
      /\ Len(t) = Len(s) + 1 /\ DOMAIN t = 1..Len(s) + 1
      /\ \A i \in DOMAIN s : t[i] = s[i]
      /\ t[Len(s) + 1] = e
  BY <1>1, AppendElement
<1>3. t \in Seq(ToSet(t))
  <2> HIDE DEF t
  <2>1. t = [i \in 1..Len(t) |-> t[i]] /\ Len(t) \in Nat
    BY <1>2, ListIsFunction, Zenon
  <2>2. \A i \in 1..Len(t) : t[i] \in ToSet(t)
    BY <1>2, Zenon DEF ToSet
  <2> QED
    BY <2>1, <2>2, ListOf, Zenon
<1> QED
  BY <1>2, <1>3

\* The targets are different, and a study's folder is its own.
LEMMA Targets ==
  /\ Demo # NoTarget /\ Paper # NoTarget /\ Demo # Paper
  /\ \A n : Study(n) # NoTarget /\ Study(n) # Demo /\ Study(n) # Paper /\ Study(n).at = n
  /\ Folder(Demo) = demo /\ Folder(Paper) = paper
  /\ \A n : Folder(Study(n)) = studies[n]
  /\ Groups(Demo) = StudyGroups /\ Groups(Paper) = PaperGroups
  /\ \A n : Groups(Study(n)) = StudyGroups
BY DEF Demo, Paper, NoTarget, Study, Folder, Groups

\* A backtest makes a new folder, the newest by its name and by its time.
LEMMA StartBacktestStep ==
  ASSUME StudyInv, IdleInv, StartBacktest PROVE StudyInv'
<1> DEFINE n == Len(studies) + 1
<1>1. /\ cmd = "idle" /\ run' = run + 1 /\ step' = step /\ cmd' \in StudyCommands
      /\ todo' \in {AdvancedStudy, PlainStudy}
      /\ studies' = Append(studies, Nothing) /\ recency' = Append(recency, n)
      /\ target' = Study(n) /\ demo' = demo /\ paper' = paper /\ pathGiven' = pathGiven
  BY DEF StartBacktest, Typed, StudyCommands
<1>2. run \in Nat /\ step = 0
  BY <1>1 DEF StudyInv, IdleInv
<1>3. /\ studies' \in Seq(ToSet(studies')) /\ Len(studies) \in Nat /\ DOMAIN studies = 1..Len(studies)
      /\ Len(studies') = n /\ DOMAIN studies' = 1..n
      /\ \A i \in DOMAIN studies : studies'[i] = studies[i]
      /\ studies'[n] = Nothing
  <2>1. studies \in Seq(ToSet(studies)) /\ studies' = Append(studies, Nothing)
    BY <1>1 DEF StudyInv, FoldersInv
  <2> DEFINE t == Append(studies, Nothing)
  <2>2. /\ t \in Seq(ToSet(t)) /\ Len(studies) \in Nat /\ DOMAIN studies = 1..Len(studies)
        /\ Len(t) = Len(studies) + 1 /\ DOMAIN t = 1..Len(studies) + 1
        /\ \A i \in DOMAIN studies : t[i] = studies[i]
        /\ t[Len(studies) + 1] = Nothing
    BY <2>1, OneMoreStudy, Zenon
  <2> HIDE DEF t
  <2>3. studies' = t
    BY <2>1 DEF t
  <2> QED
    BY <2>2, <2>3
<1>4. Folder(target)' = Nothing /\ DOMAIN Nothing = {} /\ Groups(target)' = StudyGroups
  BY <1>1, <1>3 DEF Folder, Study, Demo, Paper, Nothing, Groups
<1>5. FoldersInv'
  <2>1. Aged(Nothing, run') /\ Whole(Nothing, StudyGroups)
    BY <1>4 DEF Aged, Whole, Together
  <2>2. \A i \in DOMAIN studies' : i = n \/ i \in DOMAIN studies
    BY <1>3
  <2>3. \A i \in DOMAIN studies' : Aged(studies'[i], run') /\ Whole(studies'[i], StudyGroups)
    <3> SUFFICES ASSUME NEW i \in DOMAIN studies'
                 PROVE  Aged(studies'[i], run') /\ Whole(studies'[i], StudyGroups)
      OBVIOUS
    <3>1. CASE i = n
      BY <1>3, <2>1, <3>1, Zenon
    <3>2. CASE i \in DOMAIN studies
      BY <1>1, <1>2, <1>3, <3>2, StillAged DEF StudyInv, FoldersInv
    <3> QED
      BY <2>2, <3>1, <3>2
  <2>4. /\ Aged(demo', run') /\ Whole(demo', StudyGroups)
        /\ Aged(paper', run') /\ Whole(paper', PaperGroups)
    BY <1>1, <1>2, StillAged DEF StudyInv, FoldersInv
  <2> QED
    BY <1>3, <2>3, <2>4 DEF FoldersInv
<1>6. RecencyInv'
  <2>1. recency \in Seq(DOMAIN studies) /\ IsInjective(recency)
    BY DEF StudyInv, RecencyInv
  <2>2. DOMAIN studies \subseteq DOMAIN studies' /\ n \in DOMAIN studies' /\ n \notin DOMAIN studies
    BY <1>3
  <2>3. recency \in Seq(DOMAIN studies')
    <3>1. recency = [i \in 1..Len(recency) |-> recency[i]] /\ Len(recency) \in Nat
          /\ \A i \in 1..Len(recency) : recency[i] \in DOMAIN studies'
      BY <2>1, <2>2
    <3> QED
      BY <3>1, ListOf, Zenon
  <2>4. /\ recency' \in Seq(DOMAIN studies') /\ Len(recency) \in Nat /\ DOMAIN recency = 1..Len(recency)
        /\ DOMAIN recency' = 1..Len(recency) + 1
        /\ \A i \in DOMAIN recency : recency'[i] = recency[i]
        /\ recency'[Len(recency) + 1] = n
    BY <1>1, <2>2, <2>3, AppendElement
  <2>5. \A i \in DOMAIN recency : recency[i] \in DOMAIN studies /\ recency[i] # n
    BY <2>1, <2>2
  <2>6. IsInjective(recency')
    BY <1>1, <2>1, <2>2, <2>3, <2>5, InjectiveAppend
  <2>7. \A i \in DOMAIN recency' : i \in DOMAIN recency \/ i = Len(recency) + 1
    BY <2>4
  <2>8. ~IsValid(Nothing)
    BY <1>4 DEF IsValid, VALID_STUDY_FILES
  <2>9. \A m \in DOMAIN studies' : \E i \in DOMAIN recency' : recency'[i] = m
    <3> SUFFICES ASSUME NEW m \in DOMAIN studies' PROVE \E i \in DOMAIN recency' : recency'[i] = m
      OBVIOUS
    <3>1. CASE m = n
      BY <2>4, <3>1
    <3>2. CASE m # n
      <4>1. PICK i \in DOMAIN recency : recency[i] = m
        BY <1>3, <3>2 DEF StudyInv, RecencyInv
      <4> QED
        BY <2>4, <4>1
    <3> QED
      BY <3>1, <3>2
  <2>10. ASSUME ~pathGiven, NEW i \in DOMAIN recency', NEW j \in DOMAIN recency', i < j,
                IsValid(studies'[recency'[i]]), IsValid(studies'[recency'[j]])
         PROVE  recency'[i] < recency'[j]
    <3>1. i \in DOMAIN recency /\ j \in DOMAIN recency
      BY <1>3, <2>4, <2>7, <2>8, <2>10
    <3>2. /\ recency'[i] = recency[i] /\ recency'[j] = recency[j]
          /\ studies'[recency[i]] = studies[recency[i]] /\ studies'[recency[j]] = studies[recency[j]]
      BY <1>3, <2>4, <2>5, <3>1
    <3> QED
      BY <2>10, <3>1, <3>2 DEF StudyInv, RecencyInv
  <2> QED
    BY <1>1, <2>4, <2>6, <2>9, <2>10 DEF RecencyInv
<1>7. WritingInv'
  <2>1. Ready(todo', StudyGroups)
    BY <1>1, BacktestsReady
  <2>2. cmd' # "analyze_agents"
    BY <1>1 DEF StudyCommands
  <2> QED
    BY <1>1, <1>2, <1>4, <2>1, <2>2, StartWriting
<1>8. TargetInv' /\ StageInv'
  <2>1. cmd' \in Commands /\ cmd' \notin StageCommands \cup {"demo_study", "draft_paper"}
    BY <1>1 DEF Commands, StudyCommands, StageCommands
  <2>2. target' # NoTarget /\ target' = Study(Len(studies')) /\ Len(studies') > 0
    BY <1>1, <1>3, Targets
  <2> QED
    BY <2>1, <2>2 DEF TargetInv, StageInv, StagesOnNewestStudy, StageCommands
<1> QED
  BY <1>1, <1>2, <1>5, <1>6, <1>7, <1>8 DEF StudyInv

\* As long as nobody has named a study, the latest is the newest that is valid.
LEMMA LatestIsNewest ==
  ASSUME FoldersInv, RecencyInv, NEW n \in Latest
  PROVE  /\ n \in DOMAIN studies
         /\ ~pathGiven => /\ IsValid(studies[n])
                          /\ \A m \in DOMAIN studies : IsValid(studies[m]) => m <= n
<1>1. PICK i \in DOMAIN recency :
        /\ n = recency[i] /\ IsValid(studies[n])
        /\ \A j \in DOMAIN recency : j > i => ~IsValid(studies[recency[j]])
  BY DEF Latest
<1>2. /\ recency \in Seq(DOMAIN studies) /\ Len(recency) \in Nat /\ DOMAIN recency = 1..Len(recency)
      /\ \A j \in DOMAIN recency : recency[j] \in DOMAIN studies
  BY DEF RecencyInv
<1>3. DOMAIN studies = 1..Len(studies) /\ Len(studies) \in Nat
  BY DEF FoldersInv
<1>4. ASSUME ~pathGiven, NEW m \in DOMAIN studies, IsValid(studies[m]) PROVE m <= n
  <2>1. PICK j \in DOMAIN recency : recency[j] = m
    BY DEF RecencyInv
  <2>2. ~(j > i)
    BY <1>1, <1>4, <2>1
  <2>3. CASE j = i
    BY <1>1, <1>3, <2>1, <2>3
  <2>4. CASE j < i
    <3>1. m < n
      BY <1>1, <1>4, <2>1, <2>4 DEF RecencyInv
    <3> QED
      BY <1>1, <1>2, <1>3, <3>1
  <2> QED
    BY <1>2, <2>2, <2>3, <2>4
<1> QED
  BY <1>1, <1>2, <1>4

\* What a stage may be started on.
LEMMA ResolvedStudy ==
  ASSUME StudyInv, NEW named \in BOOLEAN, NEW t \in Resolved(named)
  PROVE  /\ t = Demo \/ \E n \in DOMAIN studies : t = Study(n)
         /\ ~named /\ ~pathGiven =>
              /\ t # Demo /\ t.at \in DOMAIN studies /\ IsValid(studies[t.at])
              /\ \A m \in DOMAIN studies : IsValid(studies[m]) => m <= t.at
<1>1. CASE named
  BY <1>1 DEF Resolved
<1>2. CASE ~named
  <2>1. PICK n \in Latest : t = Study(n)
    BY <1>2 DEF Resolved
  <2>2. t # Demo /\ t.at = n
    BY <2>1, Targets
  <2> QED
    BY <2>1, <2>2, LatestIsNewest DEF StudyInv
<1> QED
  BY <1>1, <1>2

\* A stage finds its study, and the files it is about to write are not yet written by it.
LEMMA StartStageStep ==
  ASSUME StudyInv, IdleInv, StartStage PROVE StudyInv'
<1>1. PICK named \in BOOLEAN, command \in {"rank_breaks", "audit_candidates", "detect_artifacts"} :
        \E t \in Resolved(named) :
          /\ cmd = "idle" /\ run' = run + 1 /\ cmd' = command
          /\ todo' \in {Ranking, Audit, Artifacts}
          /\ target' = t /\ (~pathGiven' => ~pathGiven /\ ~named)
  BY DEF StartStage, Typed
<1>2. PICK t \in Resolved(named) : target' = t
  BY <1>1
<1>3. step' = step /\ studies' = studies /\ recency' = recency /\ demo' = demo /\ paper' = paper
  BY DEF StartStage
<1>4. run \in Nat /\ step = 0
  BY <1>1 DEF StudyInv, IdleInv
<1>5. run' \in Nat /\ FoldersInv' /\ RecencyInv'
  BY <1>1, <1>3, FoldersStay
<1>6. /\ t = Demo \/ \E n \in DOMAIN studies : t = Study(n)
      /\ ~pathGiven' => /\ t # Demo /\ t.at \in DOMAIN studies /\ IsValid(studies[t.at])
                        /\ \A m \in DOMAIN studies : IsValid(studies[m]) => m <= t.at
  BY <1>1, ResolvedStudy
<1>7. WritingInv'
  <2>1. Ready(todo', StudyGroups) /\ Groups(target)' = StudyGroups
    BY <1>1, <1>2, <1>6, StagesReady, Targets DEF Groups
  <2>2. cmd' # "analyze_agents"
    BY <1>1
  <2>3. \A f \in DOMAIN Folder(target)' : Folder(target)'[f].run \in 0..run
    <3>1. Folder(target)' = Folder(t)
      BY <1>2, <1>3 DEF Folder
    <3>2. Aged(Folder(t), run)
      BY <1>6, Targets DEF StudyInv, FoldersInv
    <3> QED
      BY <3>1, <3>2, Zenon DEF Aged
  <2> QED
    BY <1>1, <1>3, <1>4, <2>1, <2>2, <2>3, StartWriting
<1>8. TargetInv' /\ StageInv'
  <2>1. /\ cmd' \in Commands /\ cmd' \in StageCommands
        /\ cmd' \notin StudyCommands /\ cmd' # "demo_study" /\ cmd' # "draft_paper"
    BY <1>1 DEF Commands, StudyCommands, StageCommands
  <2>2. target' # NoTarget /\ (target' = Demo \/ \E n \in DOMAIN studies' : target' = Study(n))
    BY <1>2, <1>3, <1>6, Targets
  <2>3. StageInv'
    BY <1>2, <1>3, <1>6, <2>1 DEF StageInv, StagesOnNewestStudy, IsValid
  <2> QED
    BY <2>1, <2>2, <2>3 DEF TargetInv
<1> QED
  BY <1>5, <1>7, <1>8 DEF StudyInv

\* The demo begins with an empty folder.
LEMMA StartDemoStep ==
  ASSUME StudyInv, IdleInv, StartDemo PROVE StudyInv'
<1>1. /\ cmd = "idle" /\ run' = run + 1 /\ cmd' = "demo_study" /\ step' = step
      /\ demo' = Nothing /\ target' = Demo /\ todo' = DemoStudy
      /\ studies' = studies /\ recency' = recency /\ paper' = paper /\ pathGiven' = pathGiven
  BY DEF StartDemo, Typed
<1>2. run \in Nat /\ run' \in Nat /\ step = 0
  BY <1>1 DEF StudyInv, IdleInv
<1>3. Folder(target)' = Nothing /\ DOMAIN Nothing = {} /\ Groups(target)' = StudyGroups
  BY <1>1, Targets DEF Folder, Nothing, Groups
<1>4. FoldersInv'
  <2>1. Aged(Nothing, run') /\ Whole(Nothing, StudyGroups)
    BY <1>3 DEF Aged, Whole, Together
  <2> QED
    BY <1>1, <1>2, <2>1, StillAged DEF StudyInv, FoldersInv
<1>5. RecencyInv'
  BY <1>1 DEF StudyInv, RecencyInv
<1>6. WritingInv'
  BY <1>1, <1>2, <1>3, DemoReady, StartWriting
<1>7. TargetInv' /\ StageInv'
  BY <1>1, Targets DEF TargetInv, StageInv, StagesOnNewestStudy, Commands, StageCommands, StudyCommands
<1> QED
  BY <1>2, <1>4, <1>5, <1>6, <1>7 DEF StudyInv

\* A draft starts the same way on the paper's folder.
LEMMA StartDraftStep ==
  ASSUME StudyInv, IdleInv, StartDraft PROVE StudyInv'
<1>1. /\ cmd = "idle" /\ run' = run + 1 /\ cmd' = "draft_paper" /\ step' = step
      /\ target' = Paper /\ todo' = Draft /\ pathGiven' = pathGiven
      /\ studies' = studies /\ recency' = recency /\ demo' = demo /\ paper' = paper
  BY DEF StartDraft, Typed
<1>2. run \in Nat /\ step = 0
  BY <1>1 DEF StudyInv, IdleInv
<1>3. run' \in Nat /\ FoldersInv' /\ RecencyInv'
  BY <1>1, FoldersStay
<1>4. WritingInv'
  <2>1. Folder(target)' = paper /\ Groups(target)' = PaperGroups
    BY <1>1, Targets DEF Folder, Groups
  <2>2. \A f \in DOMAIN paper : paper[f].run \in 0..run
    BY DEF StudyInv, FoldersInv, Aged
  <2> QED
    BY <1>1, <1>2, <2>1, <2>2, DraftReady, StartWriting
<1>5. TargetInv' /\ StageInv'
  BY <1>1, Targets DEF TargetInv, StageInv, StagesOnNewestStudy, Commands, StageCommands, StudyCommands
<1> QED
  BY <1>3, <1>4, <1>5 DEF StudyInv

\* Of the files of the agents that failed only the verdict is written, and it was not
\* begun.
LEMMA AgentsFailStep ==
  ASSUME StudyInv, AgentsFail PROVE StudyInv'
<1>1. /\ cmd = "analyze_agents" /\ Len(todo) > 1
      /\ todo' = <<"agents/agent_run.json">> /\ step' = 0 /\ run' = run /\ cmd' = cmd
      /\ studies' = studies /\ recency' = recency /\ demo' = demo /\ paper' = paper
      /\ target' = target /\ pathGiven' = pathGiven
  BY DEF AgentsFail, studyVars
<1>2. run' \in Nat /\ FoldersInv' /\ RecencyInv'
  BY <1>1, FoldersStay
<1>3. /\ target # NoTarget
      /\ target = Demo \/ \E n \in DOMAIN studies : target = Study(n)
  BY <1>1 DEF StudyInv, TargetInv, Commands, StageCommands
<1>4. Groups(target)' = StudyGroups /\ Folder(target)' = Folder(target)
  BY <1>1, <1>3, Targets DEF Groups, Folder
<1>5. /\ todo \in Seq(FileNames) /\ OlderInv(todo, Folder(target))
      /\ todo[Len(todo)] = "agents/agent_run.json"
  BY <1>1, <1>3 DEF StudyInv, WritingInv
<1>6. WritingInv'
  <2>1. todo' \in Seq(FileNames) /\ todo' # <<>> /\ IsInjective(todo') /\ Len(todo') = 1
        /\ DOMAIN todo' = {1} /\ todo'[1] = "agents/agent_run.json"
        /\ todo'[Len(todo')] = "agents/agent_run.json"
    BY <1>1 DEF FileNames, IsInjective
  <2>2. Len(todo) \in DOMAIN todo /\ Len(todo) # 1
    BY <1>1, <1>5
  <2>3. OlderInv(todo, Folder(target))'
    BY <1>1, <1>4, <1>5, <2>1, <2>2 DEF OlderInv
  <2>4. \A group \in StudyGroups : GroupInv(todo', Folder(target), group)
    BY <2>1 DEF GroupInv, StudyGroups, Members, ToSet, VALID_STUDY_FILES, StudyTables
  <2> QED
    BY <1>1, <1>4, <2>1, <2>3, <2>4 DEF WritingInv, GroupInv, WrittenNow
<1>7. TargetInv' /\ StageInv'
  BY <1>1 DEF StudyInv, TargetInv, StageInv, StagesOnNewestStudy
<1> QED
  BY <1>2, <1>6, <1>7 DEF StudyInv

\* A list in which one element is moved to the end.
LEMMA MovedToEnd ==
  ASSUME NEW S, NEW s \in Seq(S), NEW i \in DOMAIN s
  PROVE  LET t == Append(RemoveAt(s, i), s[i]) IN
         /\ t \in Seq(S) /\ Len(s) \in Nat /\ DOMAIN s = 1..Len(s) /\ DOMAIN t = 1..Len(s)
         /\ t[Len(s)] = s[i]
         /\ \A j \in 1..Len(s) - 1 : t[j] = s[IF j < i THEN j ELSE j + 1]
<1> DEFINE a == SubSeq(s, 1, i - 1)
           b == SubSeq(s, i + 1, Len(s))
           r == RemoveAt(s, i)
           t == Append(r, s[i])
<1>1. Len(s) \in Nat /\ DOMAIN s = 1..Len(s) /\ i \in 1..Len(s) /\ s[i] \in S
  OBVIOUS
<1>2. /\ a \in Seq(S) /\ Len(a) = i - 1 /\ \A j \in 1..i - 1 : a[j] = s[j]
  BY <1>1
<1>3. /\ b \in Seq(S) /\ Len(b) = Len(s) - i /\ \A j \in 1..Len(s) - i : b[j] = s[i + j]
  <2> DEFINE m == i + 1
             n == Len(s)
  <2>1. m \in Int /\ n \in Int /\ \A j \in m..n : s[j] \in S
    BY <1>1
  <2>2. b = SubSeq(s, m, n)
    OBVIOUS
  <2>3. n \in Nat /\ i \in 1..n /\ m = i + 1
    BY <1>1
  <2> HIDE DEF b, m, n
  <2>4. /\ b \in Seq(S) /\ Len(b) = IF m <= n THEN n - m + 1 ELSE 0
        /\ \A j \in 1..n - m + 1 : b[j] = s[m + j - 1]
    BY <2>1, <2>2, SubSeqProperties
  <2>5. n - m + 1 = n - i /\ (m <= n \/ n - i = 0) /\ \A j \in 1..n - i : m + j - 1 = i + j
    BY <2>3
  <2>6. b \in Seq(S) /\ Len(b) = n - i /\ \A j \in 1..n - i : b[j] = s[i + j]
    BY <2>3, <2>4, <2>5
  <2> QED
    BY <2>6 DEF n
<1>4. r = a \o b
  BY DEF RemoveAt
<1> HIDE DEF a, b, r
<1>5. /\ a \o b \in Seq(S) /\ Len(a \o b) = Len(a) + Len(b)
      /\ \A j \in 1..Len(a) + Len(b) : (a \o b)[j] = IF j <= Len(a) THEN a[j] ELSE b[j - Len(a)]
  <2>1. a \in Seq(S) /\ b \in Seq(S)
    BY <1>2, <1>3
  <2> QED
    BY <2>1, ConcatProperties, Zenon
<1>6. r \in Seq(S) /\ Len(r) = Len(s) - 1
  BY <1>1, <1>2, <1>3, <1>4, <1>5
<1>7. ASSUME NEW j \in 1..Len(s) - 1 PROVE r[j] = s[IF j < i THEN j ELSE j + 1]
  <2>1. j \in 1..Len(a) + Len(b) /\ (j <= Len(a) <=> j < i)
    BY <1>1, <1>2, <1>3
  <2>2. CASE j < i
    BY <1>1, <1>2, <1>4, <1>5, <2>1, <2>2
  <2>3. CASE ~(j < i)
    <3>1. r[j] = b[j - (i - 1)]
      BY <1>2, <1>4, <1>5, <2>1, <2>3
    <3>2. j - (i - 1) \in 1..Len(s) - i /\ i + (j - (i - 1)) = j + 1
      BY <1>1, <2>3
    <3> QED
      BY <1>3, <2>3, <3>1, <3>2
  <2> QED
    BY <2>2, <2>3
<1>8. /\ t \in Seq(S) /\ DOMAIN r = 1..Len(r) /\ DOMAIN t = 1..Len(r) + 1
      /\ \A j \in DOMAIN r : t[j] = r[j]
      /\ t[Len(r) + 1] = s[i]
  <2> DEFINE e == s[i]
  <2>1. r \in Seq(S) /\ e \in S
    BY <1>1, <1>6
  <2> HIDE DEF e
  <2>2. /\ Append(r, e) \in Seq(S) /\ DOMAIN r = 1..Len(r) /\ DOMAIN Append(r, e) = 1..Len(r) + 1
        /\ \A j \in DOMAIN r : Append(r, e)[j] = r[j]
        /\ Append(r, e)[Len(r) + 1] = e
    BY <2>1
  <2> QED
    BY <2>2 DEF e
<1>9. Len(r) + 1 = Len(s)
  BY <1>1, <1>6
<1> HIDE DEF t
<1> QED
  BY <1>1, <1>6, <1>7, <1>8, <1>9 DEF t, r

\* A list of folders in which one has changed.
LEMMA OneStudyChanged ==
  ASSUME NEW s, s \in Seq(ToSet(s)), NEW n \in DOMAIN s, NEW e
  PROVE  LET t == [s EXCEPT ![n] = e] IN
         /\ t \in Seq(ToSet(t)) /\ Len(t) = Len(s) /\ DOMAIN t = DOMAIN s /\ t[n] = e
         /\ \A i \in DOMAIN s : i # n => t[i] = s[i]
<1> DEFINE t == [s EXCEPT ![n] = e]
<1>1. /\ Len(s) \in Nat /\ DOMAIN s = 1..Len(s)
  OBVIOUS
<1>2. /\ t = [i \in 1..Len(s) |-> t[i]] /\ DOMAIN t = DOMAIN s /\ t[n] = e
      /\ \A i \in DOMAIN s : i # n => t[i] = s[i]
  BY <1>1
<1> HIDE DEF t
<1>3. t \in Seq(ToSet(t))
  <2>1. \A i \in 1..Len(s) : t[i] \in ToSet(t)
    BY <1>1, <1>2, Zenon DEF ToSet
  <2> QED
    BY <1>1, <1>2, <2>1, ListOf, Zenon
<1>4. Len(t) = Len(s)
  BY <1>1, <1>2, <1>3
<1> QED
  BY <1>2, <1>3, <1>4 DEF t

\* A step that neither moves a study nor makes one valid, unless somebody named one.
LEMMA RecencyStays ==
  ASSUME RecencyInv, recency' = recency, DOMAIN studies' = DOMAIN studies,
         ~pathGiven' => /\ ~pathGiven
                        /\ \A m \in DOMAIN studies : IsValid(studies'[m]) => IsValid(studies[m])
  PROVE  RecencyInv'
BY DEF RecencyInv

\* A study that is written to goes to the end.  It is the newest of those that are valid,
\* unless somebody has named one.
LEMMA Touched ==
  ASSUME RecencyInv, FoldersInv, NEW n \in DOMAIN studies, NEW f, Touch(n, f),
         DOMAIN studies' = DOMAIN studies,
         \A m \in DOMAIN studies : m # n => studies'[m] = studies[m],
         f \in DOMAIN studies[n] => DOMAIN studies'[n] = DOMAIN studies[n],
         ~pathGiven' => /\ ~pathGiven
                        /\ \A m \in DOMAIN studies : IsValid(studies[m]) => m <= n
  PROVE  RecencyInv'
<1>1. CASE f \in DOMAIN studies[n]
  <2>1. recency' = recency
    BY <1>1 DEF Touch
  <2>2. \A m \in DOMAIN studies : IsValid(studies'[m]) => IsValid(studies[m])
    BY <1>1 DEF IsValid
  <2> QED
    BY <2>1, <2>2, RecencyStays
<1>2. CASE f \notin DOMAIN studies[n]
  <2>1. PICK i \in DOMAIN recency : recency[i] = n /\ recency' = Append(RemoveAt(recency, i), n)
    BY <1>2 DEF Touch
  <2> DEFINE len == Len(recency)
             at(j) == IF j = len THEN i ELSE IF j < i THEN j ELSE j + 1
  <2>2. recency \in Seq(DOMAIN studies) /\ \A a, b \in DOMAIN recency : recency[a] = recency[b] => a = b
    BY DEF RecencyInv, IsInjective
  <2>3. /\ recency' \in Seq(DOMAIN studies) /\ len \in Nat /\ DOMAIN recency = 1..len
        /\ DOMAIN recency' = 1..len /\ recency'[len] = n
        /\ \A j \in 1..len - 1 : recency'[j] = recency[IF j < i THEN j ELSE j + 1]
    BY <2>1, <2>2, MovedToEnd
  <2>4. i \in 1..len
    BY <2>3
  <2> HIDE DEF len
  <2>5. \A j \in 1..len : at(j) \in 1..len
    BY <2>3, <2>4
  <2>6. \A j \in 1..len : recency'[j] = recency[at(j)]
    BY <2>1, <2>3, <2>4
  <2>7. \A j, k \in 1..len : at(j) = at(k) => j = k
    BY <2>3, <2>4
  <2>8. \A k \in 1..len : \E j \in 1..len : at(j) = k
    <3> SUFFICES ASSUME NEW k \in 1..len PROVE \E j \in 1..len : at(j) = k
      OBVIOUS
    <3>1. CASE k = i
      <4>1. len \in 1..len /\ at(len) = k
        BY <2>3, <2>4, <3>1
      <4> QED
        BY <4>1
    <3>2. CASE k < i
      <4>1. at(k) = k
        BY <2>3, <2>4, <3>2
      <4> QED
        BY <4>1
    <3>3. CASE k > i
      <4>1. k - 1 \in 1..len /\ at(k - 1) = k
        BY <2>3, <2>4, <3>3
      <4> QED
        BY <4>1
    <3> QED
      BY <2>3, <2>4, <3>1, <3>2, <3>3
  <2>9. \A j, k \in 1..len : j < k /\ k # len => at(j) < at(k)
    BY <2>3, <2>4
  <2> HIDE DEF at
  <2>10. IsInjective(recency')
    BY <2>2, <2>3, <2>5, <2>6, <2>7 DEF IsInjective
  <2>11. \A m \in DOMAIN studies : \E j \in DOMAIN recency' : recency'[j] = m
    <3> SUFFICES ASSUME NEW m \in DOMAIN studies PROVE \E j \in DOMAIN recency' : recency'[j] = m
      OBVIOUS
    <3>1. PICK k \in DOMAIN recency : recency[k] = m
      BY DEF RecencyInv
    <3>2. PICK j \in 1..len : at(j) = k
      BY <2>3, <2>8, <3>1
    <3> QED
      BY <2>3, <2>6, <3>1, <3>2
  <2>12. ASSUME ~pathGiven', NEW j \in 1..len, NEW k \in 1..len, j < k,
                IsValid(studies'[recency'[j]]), IsValid(studies'[recency'[k]])
         PROVE  recency'[j] < recency'[k]
    <3>1. j # len /\ recency'[j] # n /\ recency'[j] \in DOMAIN studies
      <4>1. j # len /\ len \in 1..len
        BY <2>3, <2>12
      <4>2. recency'[j] # recency'[len]
        BY <2>3, <2>10, <4>1 DEF IsInjective
      <4> QED
        BY <2>3, <4>1, <4>2
    <3>2. IsValid(studies[recency'[j]]) /\ recency'[j] <= n
      BY <2>12, <3>1
    <3>3. DOMAIN studies \subseteq Nat
      BY DEF FoldersInv
    <3>4. CASE k = len
      BY <2>3, <3>1, <3>2, <3>3, <3>4
    <3>5. CASE k # len
      <4>1. recency'[k] # n /\ recency'[k] \in DOMAIN studies
        <5>1. len \in 1..len
          BY <2>3, <2>12
        <5>2. recency'[k] # recency'[len]
          BY <2>3, <2>10, <3>5, <5>1 DEF IsInjective
        <5> QED
          BY <2>3, <5>2
      <4>2. IsValid(studies[recency'[k]])
        BY <2>12, <4>1
      <4>3. at(j) < at(k) /\ at(j) \in DOMAIN recency /\ at(k) \in DOMAIN recency
        BY <2>3, <2>5, <2>9, <2>12, <3>5
      <4> QED
        BY <2>6, <2>12, <3>2, <4>2, <4>3 DEF RecencyInv
    <3> QED
      BY <3>4, <3>5
  <2> QED
    BY <2>3, <2>10, <2>11, <2>12 DEF RecencyInv
<1> QED
  BY <1>1, <1>2

\* The directory of the agents is not of any group, and not a file that is written.
LEMMA DirectoryFits ==
  ASSUME run \in Nat, NEW folder, Aged(folder, run), Whole(folder, StudyGroups)
  PROVE  LET new == WithDirectory(folder, "agents") IN
         /\ Aged(new, run + 1) /\ Whole(new, StudyGroups)
         /\ \A f \in DOMAIN new : f \in FileNames => new[f].run \in 0..run
         /\ IsValid(new) <=> IsValid(folder)
         /\ "agents" \in DOMAIN folder => DOMAIN new = DOMAIN folder
<1> DEFINE new == WithDirectory(folder, "agents")
           entry == [run |-> run + 1, whole |-> TRUE]
<1>1. CASE "agents" \in DOMAIN folder
  <2>1. new = folder
    BY <1>1 DEF WithDirectory
  <2>2. Aged(new, run + 1)
    BY <2>1, StillAged
  <2>3. \A f \in DOMAIN new : new[f].run \in 0..run
    BY <2>1 DEF Aged
  <2> QED
    BY <2>1, <2>2, <2>3
<1>2. CASE "agents" \notin DOMAIN folder
  <2>1. new = Put(folder, "agents", entry)
    BY <1>2 DEF WithDirectory
  <2>2. /\ DOMAIN new = DOMAIN folder \cup {"agents"} /\ new["agents"] = entry
        /\ \A f \in DOMAIN folder : f # "agents" => new[f] = folder[f]
    BY <2>1 DEF Put
  <2>3. entry.run = run + 1
    OBVIOUS
  <2> HIDE DEF new, entry
  <2>4. Aged(new, run + 1)
    <3>1. Aged(folder, run + 1)
      BY StillAged
    <3>2. run + 1 \in 0..run + 1
      OBVIOUS
    <3> QED
      BY <1>2, <2>2, <2>3, <3>1, <3>2 DEF Aged
  <2>5. Whole(new, StudyGroups)
    <3>1. \A group \in StudyGroups : "agents" \notin Members(group)
      BY DEF StudyGroups, Members, VALID_STUDY_FILES, StudyTables, ToSet
    <3> QED
      BY <2>1, <3>1, ApartFromGroup DEF Whole
  <2>6. \A f \in DOMAIN new : f \in FileNames => new[f].run \in 0..run
    <3>1. "agents" \notin FileNames
      BY DEF FileNames
    <3> QED
      BY <2>2, <3>1 DEF Aged
  <2>7. IsValid(new) <=> IsValid(folder)
    <3>1. "agents" \notin VALID_STUDY_FILES
      BY DEF VALID_STUDY_FILES, StudyTables, ToSet
    <3> QED
      BY <2>2, <3>1 DEF IsValid
  <2> QED
    BY <1>2, <2>4, <2>5, <2>6, <2>7 DEF new
<1> QED
  BY <1>1, <1>2

\* The folder of the agents is made in a study that stays as valid as it was.
LEMMA StartAgentsStep ==
  ASSUME StudyInv, IdleInv, StartAgents PROVE StudyInv'
<1>1. PICK named \in BOOLEAN : \E t \in Resolved(named) :
        /\ IF t = Demo
           THEN demo' = WithDirectory(demo, "agents") /\ UNCHANGED <<studies, recency>>
           ELSE /\ studies' = [studies EXCEPT ![t.at] = WithDirectory(@, "agents")]
                /\ Touch(t.at, "agents")
                /\ UNCHANGED demo
        /\ pathGiven' = (pathGiven \/ named)
        /\ \/ cmd' = "analyze_agents" /\ target' = t /\ todo' \in Agents
           \/ UNCHANGED <<cmd, target, todo>>
        /\ cmd = "idle" /\ run' = run + 1
  BY DEF StartAgents, Typed
<1>2. PICK t \in Resolved(named) :
        /\ IF t = Demo
           THEN demo' = WithDirectory(demo, "agents") /\ UNCHANGED <<studies, recency>>
           ELSE /\ studies' = [studies EXCEPT ![t.at] = WithDirectory(@, "agents")]
                /\ Touch(t.at, "agents")
                /\ UNCHANGED demo
        /\ pathGiven' = (pathGiven \/ named)
        /\ \/ cmd' = "analyze_agents" /\ target' = t /\ todo' \in Agents
           \/ UNCHANGED <<cmd, target, todo>>
        /\ cmd = "idle" /\ run' = run + 1
  BY <1>1
<1>3. /\ run \in Nat /\ run' \in Nat /\ step = 0 /\ step' = 0 /\ paper' = paper
      /\ ~pathGiven' => ~pathGiven /\ ~named
  <2>1. step' = step /\ paper' = paper
    BY DEF StartAgents
  <2>2. run \in Nat /\ step = 0 /\ run' = run + 1
    BY <1>2 DEF StudyInv, IdleInv
  <2>3. ~pathGiven' => ~pathGiven /\ ~named
    BY <1>2, Zenon
  <2> QED
    BY <2>1, <2>2, <2>3
<1>4. /\ t = Demo \/ \E n \in DOMAIN studies : t = Study(n)
      /\ ~pathGiven' => /\ t # Demo /\ t.at \in DOMAIN studies /\ IsValid(studies[t.at])
                        /\ \A m \in DOMAIN studies : IsValid(studies[m]) => m <= t.at
  BY <1>3, ResolvedStudy
<1>5. /\ studies \in Seq(ToSet(studies))
      /\ \A n \in DOMAIN studies : Aged(studies[n], run) /\ Whole(studies[n], StudyGroups)
      /\ Aged(demo, run) /\ Whole(demo, StudyGroups)
      /\ Aged(paper', run') /\ Whole(paper', PaperGroups)
      /\ RecencyInv /\ FoldersInv
  BY <1>2, <1>3, StillAged DEF StudyInv, FoldersInv
<1> DEFINE Fits(folder) ==
             /\ Aged(folder, run') /\ Whole(folder, StudyGroups)
             /\ \A f \in DOMAIN folder : f \in FileNames => folder[f].run \in 0..run
<1>6. /\ FoldersInv' /\ RecencyInv' /\ Fits(Folder(t)')
      /\ DOMAIN studies' = DOMAIN studies
      /\ \A m \in DOMAIN studies : IsValid(studies'[m]) <=> IsValid(studies[m])
  <2>1. CASE t = Demo
    <3>1. demo' = WithDirectory(demo, "agents") /\ studies' = studies /\ recency' = recency
      BY <1>2, <2>1
    <3>2. Fits(demo')
      BY <1>2, <1>3, <1>5, <3>1, DirectoryFits
    <3>3. \A n \in DOMAIN studies : Aged(studies[n], run')
      BY <1>2, <1>3, <1>5, StillAged
    <3>4. Folder(t)' = demo'
      BY <2>1 DEF Folder
    <3>5. FoldersInv'
      BY <1>5, <3>1, <3>2, <3>3 DEF FoldersInv
    <3>6. RecencyInv'
      BY <1>3, <1>5, <3>1, RecencyStays
    <3> QED
      BY <3>1, <3>2, <3>4, <3>5, <3>6
  <2>2. CASE t # Demo
    <3>1. PICK n \in DOMAIN studies : t = Study(n)
      BY <1>4, <2>2
    <3> DEFINE new == WithDirectory(studies[n], "agents")
    <3>2. /\ studies' = [studies EXCEPT ![n] = new] /\ Touch(n, "agents") /\ demo' = demo
      BY <1>2, <2>2, <3>1, Targets
    <3>3. /\ studies' \in Seq(ToSet(studies')) /\ DOMAIN studies' = DOMAIN studies
          /\ studies'[n] = new /\ \A i \in DOMAIN studies : i # n => studies'[i] = studies[i]
      BY <1>5, <3>2, OneStudyChanged
    <3>4. /\ Fits(new) /\ (IsValid(new) <=> IsValid(studies[n]))
          /\ "agents" \in DOMAIN studies[n] => DOMAIN new = DOMAIN studies[n]
      BY <1>2, <1>3, <1>5, DirectoryFits
    <3> HIDE DEF new
    <3>5. Folder(t)' = new
      BY <2>2, <3>1, <3>3, Targets DEF Folder
    <3>6. \A i \in DOMAIN studies' : Aged(studies'[i], run') /\ Whole(studies'[i], StudyGroups)
      <4> SUFFICES ASSUME NEW i \in DOMAIN studies'
                   PROVE  Aged(studies'[i], run') /\ Whole(studies'[i], StudyGroups)
        OBVIOUS
      <4>1. CASE i = n
        BY <3>3, <3>4, <4>1
      <4>2. CASE i # n
        <5>1. Aged(studies[i], run')
          BY <1>2, <1>3, <1>5, <3>3, StillAged
        <5> QED
          BY <1>5, <3>3, <4>2, <5>1
      <4> QED
        BY <4>1, <4>2
    <3>7. Aged(demo, run')
      BY <1>2, <1>3, <1>5, StillAged
    <3>8. FoldersInv'
      BY <1>5, <3>2, <3>3, <3>6, <3>7 DEF FoldersInv
    <3>9. RecencyInv'
      <4>1. ~pathGiven' => /\ ~pathGiven
                           /\ \A m \in DOMAIN studies : IsValid(studies[m]) => m <= n
        BY <1>3, <1>4, <3>1, Targets
      <4> QED
        BY <1>5, <3>2, <3>3, <3>4, <4>1, Touched
    <3> QED
      BY <3>3, <3>4, <3>5, <3>8, <3>9
  <2> QED
    BY <2>1, <2>2
<1>7. TargetInv' /\ WritingInv' /\ StageInv'
  <2>1. CASE cmd' = "analyze_agents" /\ target' = t /\ todo' \in Agents
    <3>1. Folder(target)' = Folder(t)'
      BY <2>1 DEF Folder
    <3>2. Ready(todo', StudyGroups) /\ todo'[Len(todo')] = "agents/agent_run.json"
      BY <2>1, AgentsReady
    <3>3. Groups(target)' = StudyGroups /\ target' # NoTarget
      BY <1>4, <2>1, Targets DEF Groups
    <3>4. WritingInv'
      BY <1>2, <1>3, <1>6, <3>1, <3>2, <3>3, StartWriting
    <3>5. TargetInv'
      BY <1>4, <1>6, <2>1, <3>3 DEF TargetInv, Commands, StageCommands, StudyCommands
    <3>6. StageInv'
      BY <1>4, <1>6, <2>1 DEF StageInv, StagesOnNewestStudy, IsValid
    <3> QED
      BY <3>4, <3>5, <3>6
  <2>2. CASE UNCHANGED <<cmd, target, todo>>
    <3>1. cmd' = "idle" /\ target' = NoTarget
      BY <1>2, <2>2, DataCommandsAreNot DEF StudyInv, TargetInv
    <3> QED
      BY <3>1, DataCommandsAreNot, NothingToWrite
  <2> QED
    BY <1>2, <2>1, <2>2
<1> QED
  BY <1>3, <1>6, <1>7 DEF StudyInv

\* The file that is opened or finished keeps its folder whole, and may only make a new
\* study valid.
LEMMA WriteFileStep ==
  ASSUME StudyInv, WriteFile PROVE StudyInv'
<1> DEFINE f == todo[1]
           done == step = 1
           folder == Folder(target)
           new == With(folder, f, done)
           rest == IF done THEN Tail(todo) ELSE todo
           ends == done /\ Len(todo) = 1
<1>1. /\ run \in Nat /\ target # NoTarget /\ cmd \in Commands /\ step \in {0, 1}
      /\ todo \in Seq(FileNames) /\ todo # <<>> /\ IsInjective(todo)
      /\ OlderInv(todo, folder)
      /\ \A group \in Groups(target) : GroupInv(todo, folder, group)
      /\ cmd = "analyze_agents" => todo[Len(todo)] = "agents/agent_run.json"
  <2>1. target # NoTarget
    BY DEF WriteFile
  <2> QED
    BY <2>1 DEF StudyInv, TargetInv, WritingInv
<1>2. /\ Head(todo) = f /\ Len(todo) \in Nat \ {0} /\ DOMAIN todo = 1..Len(todo)
      /\ Tail(todo) \in Seq(FileNames) /\ Len(Tail(todo)) = Len(todo) - 1
      /\ DOMAIN Tail(todo) = 1..Len(todo) - 1
      /\ \A j \in DOMAIN Tail(todo) : Tail(todo)[j] = todo[j + 1] /\ j + 1 \in DOMAIN todo
      /\ IsInjective(Tail(todo)) /\ \A j \in DOMAIN Tail(todo) : Tail(todo)[j] # f
  BY <1>1, TailElements, InjectiveTail
<1>3. /\ target = Demo => demo' = new /\ UNCHANGED <<studies, recency, paper>>
      /\ target = Paper => paper' = new /\ UNCHANGED <<studies, recency, demo>>
      /\ target # Demo /\ target # Paper =>
           /\ studies' = [studies EXCEPT ![target.at] = With(@, f, done)]
           /\ IF cmd = "analyze_agents" THEN UNCHANGED recency ELSE Touch(target.at, f)
           /\ UNCHANGED <<demo, paper>>
      /\ ends => Ends /\ target' = NoTarget
      /\ ~ends => /\ step' = 1 - step /\ todo' = rest
                  /\ cmd' = cmd /\ target' = target
      /\ run' = run /\ pathGiven' = pathGiven
  BY <1>2, Targets, Zenon DEF WriteFile
<1>4. target = Demo \/ target = Paper \/ \E n \in DOMAIN studies : target = Study(n)
  BY <1>1 DEF StudyInv, TargetInv, FoldersInv, Commands, StudyCommands, StageCommands
<1>5. /\ studies \in Seq(ToSet(studies)) /\ FoldersInv /\ RecencyInv
      /\ \A n \in DOMAIN studies : Aged(studies[n], run) /\ Whole(studies[n], StudyGroups)
      /\ Aged(demo, run) /\ Whole(demo, StudyGroups)
      /\ Aged(paper, run) /\ Whole(paper, PaperGroups)
  BY DEF StudyInv, FoldersInv
<1>6. Groups(target) \subseteq StudyGroups \cup PaperGroups /\ Aged(folder, run)
      /\ Whole(folder, Groups(target))
  BY <1>4, <1>5, Targets
<1>7. /\ DOMAIN new = DOMAIN folder \cup {f} /\ new[f].run = run
      /\ \A g \in DOMAIN folder : g # f => new[g] = folder[g]
  BY DEF With, Put
<1>8. done \in BOOLEAN
  OBVIOUS
<1>9. /\ Aged(new, run) /\ Whole(new, Groups(target))
      /\ \A group \in Groups(target) : GroupInv(rest, new, group)
  <2>1. Aged(new, run)
    <3>1. run \in 0..run
      BY <1>1
    <3> HIDE DEF new, f
    <3> QED
      BY <1>6, <1>7, <3>1 DEF Aged
  <2>2. ASSUME NEW group \in Groups(target)
        PROVE  /\ Together(new, group.first, group.last, group.files)
               /\ GroupInv(rest, new, group)
    <3>1. group \in StudyGroups \cup PaperGroups /\ GroupInv(todo, folder, group)
          /\ Together(folder, group.first, group.last, group.files)
      BY <1>1, <1>6, <2>2 DEF Whole
    <3> HIDE DEF folder, done
    <3> QED
      BY <1>1, <1>8, <3>1, NextFile
  <2> QED
    BY <2>1, <2>2, Zenon DEF Whole
<1>10. ASSUME ~ends, NEW j \in DOMAIN rest, rest[j] \in DOMAIN new, new[rest[j]].run = run
       PROVE  j = 1 /\ ~done
  <2>1. CASE done
    <3>1. rest[j] = todo[j + 1] /\ j + 1 \in DOMAIN todo /\ rest[j] # f /\ j \in Nat /\ j # 0
      BY <1>2, <1>10, <2>1
    <3>2. todo[j + 1] \in DOMAIN folder /\ folder[todo[j + 1]].run = run
      <4> HIDE DEF new, f, folder, rest
      <4> QED
        BY <1>7, <1>10, <3>1
    <3>3. j + 1 = 1
      BY <1>1, <3>1, <3>2 DEF OlderInv
    <3> QED
      BY <3>1, <3>3
  <2>2. CASE ~done
    <3>1. CASE j = 1
      BY <2>2, <3>1
    <3>2. CASE j # 1
      <4>1. todo[j] # f /\ j \in DOMAIN todo
        BY <1>1, <1>2, <1>10, <2>2, <3>2 DEF IsInjective
      <4>2. rest = todo
        BY <2>2
      <4>3. todo[j] \in DOMAIN folder /\ folder[todo[j]].run = run
        <5> HIDE DEF new, f, folder, rest
        <5> QED
          BY <1>7, <1>10, <4>1, <4>2
      <4> QED
        BY <1>1, <3>2, <4>1, <4>3 DEF OlderInv
    <3> QED
      BY <3>1, <3>2
  <2> QED
    BY <2>1, <2>2
<1> HIDE DEF done, new, rest, f, folder
<1>11. /\ FoldersInv' /\ RecencyInv' /\ DOMAIN studies' = DOMAIN studies /\ Len(studies') = Len(studies)
       /\ target' = target => Folder(target)' = new
       /\ cmd \in StageCommands /\ ~pathGiven =>
            \A m \in DOMAIN studies : IsValid(studies'[m]) <=> IsValid(studies[m])
  <2>1. CASE target = Demo
    <3>1. demo' = new /\ studies' = studies /\ recency' = recency /\ paper' = paper
      BY <1>3, <2>1
    <3>2. target' = target => Folder(target)' = new
      BY <2>1, <3>1 DEF Folder
    <3>3. FoldersInv'
      BY <1>3, <1>5, <1>9, <2>1, <3>1, Targets DEF FoldersInv
    <3>4. RecencyInv'
      BY <1>3, <1>5, <3>1, RecencyStays
    <3> QED
      BY <3>1, <3>2, <3>3, <3>4
  <2>2. CASE target = Paper
    <3>1. paper' = new /\ studies' = studies /\ recency' = recency /\ demo' = demo
      BY <1>3, <2>2
    <3>2. target' = target => Folder(target)' = new
      BY <2>2, <3>1, Targets DEF Folder
    <3>3. FoldersInv'
      BY <1>3, <1>5, <1>9, <2>2, <3>1, Targets DEF FoldersInv
    <3>4. RecencyInv'
      BY <1>3, <1>5, <3>1, RecencyStays
    <3> QED
      BY <3>1, <3>2, <3>3, <3>4
  <2>3. CASE target # Demo /\ target # Paper
    <3>1. PICK n \in DOMAIN studies : target = Study(n)
      BY <1>4, <2>3
    <3>2. target.at = n /\ folder = studies[n] /\ Groups(target) = StudyGroups
      BY <3>1, Targets DEF folder
    <3>3. /\ studies' = [studies EXCEPT ![n] = new] /\ demo' = demo /\ paper' = paper
          /\ IF cmd = "analyze_agents" THEN recency' = recency ELSE Touch(n, f)
      BY <1>3, <2>3, <3>2 DEF new
    <3>4. /\ studies' \in Seq(ToSet(studies')) /\ DOMAIN studies' = DOMAIN studies
          /\ Len(studies') = Len(studies)
          /\ studies'[n] = new /\ \A i \in DOMAIN studies : i # n => studies'[i] = studies[i]
      BY <1>5, <3>3, OneStudyChanged
    <3>5. target' = target => Folder(target)' = new
      BY <2>3, <3>2, <3>4 DEF Folder
    <3>6. FoldersInv'
      BY <1>3, <1>5, <1>9, <3>2, <3>3, <3>4 DEF FoldersInv
    <3>7. IsValid(studies[n]) => IsValid(studies'[n])
      BY <1>7, <3>2, <3>4 DEF IsValid
    <3>8. cmd \in StageCommands /\ ~pathGiven =>
            /\ IsValid(studies[n])
            /\ \A m \in DOMAIN studies : IsValid(studies[m]) => m <= n
      BY <3>2 DEF StudyInv, StageInv, StagesOnNewestStudy, StageCommands, IsValid
    <3>9. cmd \in StudyCommands => \A m \in DOMAIN studies : m <= n
      <4> SUFFICES ASSUME cmd \in StudyCommands PROVE \A m \in DOMAIN studies : m <= n
        OBVIOUS
      <4>1. target = Study(Len(studies))
        BY DEF StudyInv, TargetInv
      <4>2. n = Len(studies)
        BY <3>2, <4>1, Targets, Zenon
      <4> QED
        BY <1>5, <4>2
    <3>10. cmd \in StudyCommands \cup StageCommands
      BY <1>1, <2>3, <3>1, Targets DEF StudyInv, TargetInv, Commands
    <3>11. RecencyInv'
      <4>1. CASE cmd = "analyze_agents"
        <5>1. cmd \in StageCommands /\ recency' = recency
          BY <3>3, <4>1 DEF StageCommands
        <5> QED
          BY <1>3, <1>5, <3>4, <3>8, <5>1, RecencyStays
      <4>2. CASE cmd # "analyze_agents"
        <5>1. f \in DOMAIN studies[n] => DOMAIN studies'[n] = DOMAIN studies[n]
          BY <1>7, <3>2, <3>4
        <5>2. ~pathGiven => \A m \in DOMAIN studies : IsValid(studies[m]) => m <= n
          BY <3>8, <3>9, <3>10
        <5> QED
          BY <1>3, <1>5, <3>3, <3>4, <4>2, <5>1, <5>2, Touched
      <4> QED
        BY <4>1, <4>2
    <3> QED
      BY <3>4, <3>5, <3>6, <3>7, <3>8, <3>11
  <2> QED
    BY <2>1, <2>2, <2>3
<1>12. TargetInv' /\ WritingInv' /\ StageInv'
  <2>1. CASE ends
    BY <1>3, <2>1, DataCommandsAreNot, NothingToWrite DEF Ends
  <2>2. CASE ~ends
    <3>1. cmd' = cmd /\ target' = target /\ step' = 1 - step /\ todo' = rest
          /\ Folder(target)' = new /\ Groups(target)' = Groups(target)
      BY <1>3, <1>11, <2>2 DEF Groups
    <3>2. TargetInv'
      BY <1>11, <3>1 DEF StudyInv, TargetInv
    <3>3. StageInv'
      BY <1>3, <1>11, <3>1 DEF StudyInv, StageInv, StagesOnNewestStudy, IsValid, StageCommands
    <3>4. step' \in {0, 1} /\ (step' = 1 <=> ~done)
      BY <1>1, <3>1 DEF done
    <3>5. /\ rest \in Seq(FileNames) /\ rest # <<>> /\ IsInjective(rest)
          /\ rest[Len(rest)] = todo[Len(todo)]
      <4>1. CASE done
        <5>1. Len(todo) # 1 /\ rest = Tail(todo)
          BY <2>2, <4>1 DEF rest
        <5>2. Len(rest) = Len(todo) - 1 /\ Len(rest) \in DOMAIN Tail(todo)
          BY <1>2, <5>1
        <5>3. rest[Len(rest)] = todo[Len(rest) + 1] /\ Len(rest) + 1 = Len(todo)
          BY <1>2, <5>1, <5>2
        <5>4. rest # <<>>
          <6>1. Len(rest) # 0 /\ Len(<<>>) = 0
            BY <1>2, <5>2
          <6> QED
            BY <6>1, Zenon
        <5> QED
          BY <1>2, <5>1, <5>3, <5>4
      <4>2. CASE ~done
        BY <1>1, <4>2 DEF rest
      <4> QED
        BY <4>1, <4>2
    <3>6. OlderInv(todo, Folder(target))'
      BY <1>3, <1>10, <2>2, <3>1, <3>4 DEF OlderInv
    <3>7. ASSUME NEW group \in Groups(target)' PROVE GroupInv(todo, Folder(target), group)'
      <4>1. GroupInv(rest, new, group)
        BY <1>9, <3>1
      <4> QED
        BY <1>3, <3>1, <4>1 DEF GroupInv, WrittenNow
    <3>8. WritingInv'
      BY <1>1, <3>1, <3>4, <3>5, <3>6, <3>7 DEF WritingInv
    <3> QED
      BY <3>2, <3>3, <3>8
  <2> QED
    BY <2>1, <2>2
<1> QED
  BY <1>1, <1>3, <1>11, <1>12 DEF StudyInv

\* Every step keeps the invariant of the study folders.
LEMMA StudySteps ==
  ASSUME StudyInv, IdleInv, [Next]_allVars PROVE StudyInv'
<1>1. CASE UNCHANGED allVars
  <2>1. /\ run' = run /\ cmd' = cmd /\ todo' = todo /\ step' = step
        /\ studies' = studies /\ recency' = recency /\ demo' = demo /\ paper' = paper
        /\ target' = target /\ pathGiven' = pathGiven
    BY <1>1 DEF allVars, vars, position, studyVars
  <2>2. run' \in Nat /\ FoldersInv' /\ RecencyInv'
    BY <2>1, FoldersStay
  <2>3. Folder(target)' = Folder(target) /\ Groups(target)' = Groups(target)
    BY <2>1 DEF Folder, Groups
  <2>4. WritingInv'
    BY <2>1, <2>3 DEF StudyInv, WritingInv, OlderInv, GroupInv, WrittenNow
  <2>5. TargetInv' /\ StageInv'
    BY <2>1 DEF StudyInv, TargetInv, StageInv, StagesOnNewestStudy
  <2> QED
    BY <2>2, <2>4, <2>5 DEF StudyInv
<1>2. CASE DataNext /\ UNCHANGED studyVars
  BY <1>2, DataNextStep
<1>3. CASE InputTorn
  BY <1>3, EndStep DEF InputTorn
<1>4. CASE DraftFails
  BY <1>4, EndStep DEF DraftFails
<1>5. CASE Kill
  BY <1>5, EndStep DEF Kill, Killed
<1> QED
  BY <1>1, <1>2, <1>3, <1>4, <1>5, StartBacktestStep, StartStageStep, StartAgentsStep,
     AgentsFailStep, StartDemoStep, StartDraftStep, WriteFileStep DEF Next

-----------------------------------------------------------------------------
(* The theorems. *)

PipelineInv == DataInv /\ StudyInv

\* A folder made by complete runs of commands before the first one is whole.
LEMMA MadeBefore ==
  ASSUME NEW files, NEW groups,
         \A group \in groups : group.last \in files =>
           \E list : Planned(list, group) /\ group.last \in ToSet(list) /\ ToSet(list) \subseteq files
  PROVE  Aged(By0(files), 0) /\ Whole(By0(files), groups)
<1>1. /\ DOMAIN By0(files) = files
      /\ \A f \in files : By0(files)[f].run = 0 /\ By0(files)[f].whole
  BY DEF By0
<1>2. ASSUME NEW group \in groups
      PROVE  Together(By0(files), group.first, group.last, group.files)
  <2> SUFFICES ASSUME group.last \in files PROVE group.files \subseteq files
    BY <1>1 DEF Together
  <2>1. PICK list : /\ Planned(list, group) /\ group.last \in ToSet(list)
                    /\ ToSet(list) \subseteq files
    BY <1>2
  <2> QED
    BY <2>1 DEF Planned, Members
<1> QED
  BY <1>1, <1>2 DEF Aged, Whole

\* The first study is there, made by a command before the first one.
LEMMA InitPipeline ==
  ASSUME Init PROVE PipelineInv
<1>1. /\ run = 0 /\ cmd = "idle" /\ source = 1 /\ todo = <<>> /\ fetched = <<>> /\ step = 0
      /\ written_count = 0 /\ frame = Nothing /\ summaries = Nothing /\ raw = Nothing
      /\ tables = Nothing /\ recency = <<1>> /\ demo = Nothing /\ target = NoTarget
  BY DEF Init, IngestionInit
<1>2. DOMAIN Nothing = {}
  BY DEF Nothing
<1>3. DataInv
  BY <1>1, <1>2 DEF DataInv, IdleInv, AgesInv, IngestInv, FrameInv, SummariesTellTheDisk,
     NothingDroppedSilently
<1>4. Aged(Nothing, 0) /\ Whole(Nothing, StudyGroups) /\ Whole(Nothing, PaperGroups)
  BY <1>2 DEF Aged, Whole, Together
<1> DEFINE agents == {"agents", "agents/skeptic.md", "agents/synthesis.md", "agents/agent_run.json"}
           all == ToSet(AdvancedStudy) \cup ToSet(Ranking) \cup ToSet(Audit) \cup ToSet(Artifacts)
                    \cup agents
<1>5. Aged(By0(all), 0) /\ Whole(By0(all), StudyGroups)
  <2>1. ASSUME NEW group \in StudyGroups, group.last \in all
        PROVE  \E list : Planned(list, group) /\ group.last \in ToSet(list) /\ ToSet(list) \subseteq all
    <3>1. group.last \notin agents
      BY DEF StudyGroups
    <3>2. PICK list \in {AdvancedStudy, Ranking, Audit, Artifacts} : group.last \in ToSet(list)
      BY <2>1, <3>1
    <3>3. Planned(list, group)
      BY <3>2, BacktestsReady, StagesReady DEF Ready
    <3> QED
      BY <3>2, <3>3
  <2> HIDE DEF all
  <2> QED
    BY <2>1, MadeBefore
<1>6. Aged(By0(ToSet(PlainStudy)), 0) /\ Whole(By0(ToSet(PlainStudy)), StudyGroups)
  BY BacktestsReady, MadeBefore DEF Ready
<1>7. Aged(By0(ToSet(Draft)), 0) /\ Whole(By0(ToSet(Draft)), PaperGroups)
  BY DraftReady, MadeBefore DEF Ready
<1> HIDE DEF all
<1>8. /\ \E e : studies = <<e>> /\ Aged(e, 0) /\ Whole(e, StudyGroups)
      /\ Aged(paper, 0) /\ Whole(paper, PaperGroups)
  BY <1>4, <1>5, <1>6, <1>7 DEF Init, all
<1>9. /\ studies \in Seq(ToSet(studies)) /\ DOMAIN studies = {1}
      /\ Aged(studies[1], 0) /\ Whole(studies[1], StudyGroups)
  <2>1. PICK e : studies = <<e>> /\ Aged(e, 0) /\ Whole(e, StudyGroups)
    BY <1>8
  <2>2. <<e>> \in Seq({e}) /\ DOMAIN <<e>> = {1} /\ <<e>>[1] = e /\ ToSet(<<e>>) = {e}
    BY DEF ToSet
  <2> QED
    BY <2>1, <2>2
<1>10. FoldersInv
  BY <1>1, <1>4, <1>8, <1>9 DEF FoldersInv
<1>11. RecencyInv
  BY <1>1, <1>9 DEF RecencyInv, IsInjective
<1>12. TargetInv /\ WritingInv /\ StageInv
  BY <1>1, DataCommandsAreNot DEF TargetInv, WritingInv, StageInv, StagesOnNewestStudy,
     StageCommands, StudyCommands, Commands
<1> QED
  BY <1>1, <1>3, <1>10, <1>11, <1>12 DEF PipelineInv, StudyInv

\* The invariant of the pipeline is inductive.
THEOREM PipelineInvariance == Spec => []PipelineInv
<1>1. Init => PipelineInv
  BY InitPipeline
<1>2. PipelineInv /\ [Next]_allVars => PipelineInv'
  <2> SUFFICES ASSUME PipelineInv, [Next]_allVars PROVE PipelineInv'
    OBVIOUS
  <2>1. DataInv /\ StudyInv /\ IdleInv /\ TargetInv
    BY DEF PipelineInv, DataInv, StudyInv
  <2> QED
    BY <2>1, DataSteps, StudySteps DEF PipelineInv
<1> QED
  BY <1>1, <1>2, PTL DEF Spec

\* For any connectors, pages and failures: the summary `ingest` prints tells what is on
\* the disk.
THEOREM SummariesAlwaysTell == Spec => []SummariesTellTheDisk
<1>1. PipelineInv => SummariesTellTheDisk
  BY DEF PipelineInv, DataInv
<1> QED
  BY <1>1, PipelineInvariance, PTL

\* For any connectors and failures: no table that is finished lacks the rows of a raw
\* file that was whole, and only those of a CSV file may lack the rows of a torn one.
THEOREM NothingEverDropped == Spec => []NothingDroppedSilently
<1>1. PipelineInv => NothingDroppedSilently
  BY DEF PipelineInv, DataInv
<1> QED
  BY <1>1, PipelineInvariance, PTL

\* Whatever is killed, refused or typed in between: when the first and the last file of a
\* study, of a ranking, of an audit or of a draft are by the same command, those between
\* are by it too, and whole.
THEOREM FilesAlwaysTogether == Spec => []FilesBelongTogether
<1>1. PipelineInv => FilesBelongTogether
  <2> SUFFICES ASSUME FoldersInv PROVE FilesBelongTogether
    BY DEF PipelineInv, StudyInv
  <2>1. \A folder \in ToSet(studies) \cup {demo} : Whole(folder, StudyGroups)
    BY DEF FoldersInv, ToSet
  <2>2. Whole(paper, PaperGroups)
    BY DEF FoldersInv
  <2> QED
    BY <2>1, <2>2 DEF FilesBelongTogether, Whole, StudyGroups, PaperGroups
<1> QED
  BY <1>1, PipelineInvariance, PTL

\* For any number of studies, commands and kills: as long as no study has been named, a
\* stage that runs works on the newest of the valid ones.
THEOREM StagesAlwaysOnNewest == Spec => []StagesOnNewestStudy
<1>1. PipelineInv => StagesOnNewestStudy
  BY DEF PipelineInv, StudyInv, StageInv
<1> QED
  BY <1>1, PipelineInvariance, PTL
=============================================================================
