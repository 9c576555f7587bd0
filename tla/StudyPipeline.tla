----------------------------- MODULE StudyPipeline -----------------------------
(***************************************************************************)
(* The commands on study folders, composed with those on the data directory  *)
(* (Ingestion): `backtest`, `backtest_advanced`, `rank_breaks`,               *)
(* `audit_candidates`, `detect_artifacts`, `analyze_agents`, `demo_study` and *)
(* `draft_paper`.  Commands are typed in any order, on a study that is named   *)
(* or on the latest valid one, and may be killed between any two writes.       *)
(*                                                                         *)
(* A folder maps file names to the command that wrote the file and whether it *)
(* is whole.  A command writes the files in `todo` one after another.  What    *)
(* a model's agents or adapters do inside their commands is in AgentRun and    *)
(* AdvancedBacktest.                                                           *)
(***************************************************************************)
EXTENDS Ingestion

VARIABLES
  studies,   \* the folders of STUDIES_DIR in the order of their names
  recency,   \* their positions in the order of modification times, latest last
  demo,      \* the folder of demo_study
  paper,     \* the folder of draft_paper
  target,    \* the folder the running command writes to, or NoTarget
  pathGiven  \* some command was given a --study-path

studyVars == <<studies, recency, demo, paper, target, pathGiven>>
allVars   == <<vars, studyVars>>

NoTarget == [dir |-> "none", at |-> 0]
Demo     == [dir |-> "demo", at |-> 0]
Paper    == [dir |-> "paper", at |-> 0]
Study(n) == [dir |-> "study", at |-> n]

Folder(t) == IF t = Demo THEN demo ELSE IF t = Paper THEN paper ELSE studies[t.at]

\* What each command writes, in order.
StudyTables == <<"forecast_errors.parquet", "anomalies.parquet", "cross_domain_breaks.parquet">>
StudyTexts  == <<"summary.json", "provenance.json", "study.md">>
PlainStudy    == StudyTables \o StudyTexts
AdvancedStudy == StudyTables \o <<"model_comparison.parquet">> \o StudyTexts
Ranking   == <<"ranked_break_candidates.parquet", "ranked_break_candidates.json",
               "ordinary_explanation_hints.json", "top_break_candidates.md">>
Audit     == <<"candidate_audit.parquet", "candidate_audit.json", "candidate_audit.md">>
Artifacts == <<"data_artifact_audit.parquet", "data_artifact_audit.json", "data_artifact_audit.md">>
Agents    == {<<"agents/skeptic.md", "agents/synthesis.md", "agents/agent_run.json">>,
              <<"agents/synthesis.md", "agents/agent_run.json">>}   \* as routed
DemoStudy == <<"raw", "raw_metadata", "normalized", "statistics">>
             \o PlainStudy \o <<"demo_manifest.json">> \o Ranking \o Audit \o Artifacts
PaperTables == <<"key_results.csv", "artifact_summary.csv", "model_comparison.csv">>

\* Faulty variant: the metadata that vouches for the draft is written before it.
DraftAfterMetadata == PaperTables \o <<"source_snapshot.json", "draft_v1_metadata.json", "draft_v1.md">>

Draft == PaperTables \o <<"source_snapshot.json", "draft_v1.md", "draft_v1_metadata.json">>

\* What each command parses before it writes anything, and what it only copies.
Parses ==
  [rank_breaks      |-> {"anomalies.parquet", "cross_domain_breaks.parquet"},
   audit_candidates |-> {"ranked_break_candidates.parquet", "forecast_errors.parquet",
                         "anomalies.parquet"},
   detect_artifacts |-> {"ranked_break_candidates.parquet", "candidate_audit.parquet",
                         "anomalies.parquet"},
   analyze_agents   |-> {},
   draft_paper      |-> ToSet(StudyTables) \cup {"summary.json", "provenance.json",
                         "model_comparison.parquet", "ranked_break_candidates.json",
                         "candidate_audit.json", "data_artifact_audit.json"}]
Copies ==
  [rank_breaks |-> {}, audit_candidates |-> {}, detect_artifacts |-> {},
   analyze_agents |-> {"data_artifact_audit.json", "data_artifact_audit.md", "candidate_audit.json",
                       "ranked_break_candidates.json", "summary.json", "provenance.json"},
   draft_paper    |-> {"data_artifact_audit.md", "agents/synthesis.md", "agents/skeptic.md"}]

Loads(command, folder) ==
  /\ Parses[command] \cup Copies[command] \subseteq DOMAIN folder
  /\ \A f \in Parses[command] : folder[f].whole

-----------------------------------------------------------------------------
(* study_discovery.py *)

VALID_STUDY_FILES == ToSet(StudyTables) \cup {"summary.json", "provenance.json"}

\* Faulty variant: the tables make a study.
IsValidByTables(folder) == ToSet(StudyTables) \subseteq DOMAIN folder

IsValid(folder) == VALID_STUDY_FILES \subseteq DOMAIN folder

\* What latest_valid_study_folder may return: at most one.
Latest ==
  {recency[i] : i \in {i \in DOMAIN recency :
     /\ IsValid(studies[recency[i]])
     /\ \A j \in DOMAIN recency : j > i => ~IsValid(studies[recency[j]])}}

\* resolve_study_path, with a path or without; a path may also lead to the demo.
Resolved(named) ==
  IF named THEN {t \in {Demo} \cup {Study(n) : n \in DOMAIN studies} : IsValid(Folder(t))}
  ELSE {Study(n) : n \in Latest}

-----------------------------------------------------------------------------
\* A folder in which the file f has been opened or finished.
With(folder, f, whole) == Put(folder, f, [run |-> run, whole |-> whole])

\* A folder in which the command that starts makes the directory d, if it is not there yet.
WithDirectory(folder, d) ==
  IF d \in DOMAIN folder THEN folder ELSE Put(folder, d, [run |-> run + 1, whole |-> TRUE])

\* A new entry in a study's folder changes the folder's modification time, a file
\* that is written again does not.
Touch(n, f) ==
  IF f \in DOMAIN studies[n] THEN UNCHANGED recency
  ELSE \E i \in DOMAIN recency : recency[i] = n /\ recency' = Append(RemoveAt(recency, i), n)

\* A study is started: its folder is made before the tables are read, and stays
\* empty when one of them cannot be.
StartBacktest ==
  /\ \E advanced \in BOOLEAN :
       /\ Typed(IF advanced THEN "backtest_advanced" ELSE "backtest")
       /\ todo' = IF advanced THEN AdvancedStudy ELSE PlainStudy
  /\ studies' = Append(studies, Nothing)
  /\ recency' = Append(recency, Len(studies) + 1)
  /\ target' = Study(Len(studies) + 1)
  /\ UNCHANGED <<faults, source, fetched, step, written_count, frame, summaries, raw, tables, statistics,
                 demo, paper, pathGiven>>

InputTorn ==
  /\ cmd \in {"backtest", "backtest_advanced"}
  /\ Folder(target) = Nothing
  /\ \E t \in DOMAIN tables : ~tables[t].whole
  /\ Ends /\ target' = NoTarget
  /\ UNCHANGED <<run, faults, summaries, raw, tables, statistics, studies, recency, demo, paper, pathGiven>>

\* rank_breaks, audit_candidates and detect_artifacts read what they need and begin
\* to write.  One that raises before leaves everything as it was: no step.
StartStage ==
  /\ \E named \in BOOLEAN, command \in {"rank_breaks", "audit_candidates", "detect_artifacts"} :
       \E t \in Resolved(named) :
         /\ Loads(command, Folder(t))
         /\ Typed(command)
         /\ todo' = CASE command = "rank_breaks"      -> Ranking
                      [] command = "audit_candidates" -> Audit
                      [] command = "detect_artifacts" -> Artifacts
         /\ target' = t
         /\ pathGiven' = (pathGiven \/ named)
  /\ UNCHANGED <<faults, source, fetched, step, written_count, frame, summaries, raw, tables, statistics,
                 studies, recency, demo, paper>>

\* analyze_agents makes its folder before it looks at its inputs.
StartAgents ==
  /\ \E named \in BOOLEAN : \E t \in Resolved(named) :
       /\ IF t = Demo
          THEN demo' = WithDirectory(demo, "agents") /\ UNCHANGED <<studies, recency>>
          ELSE /\ studies' = [studies EXCEPT ![t.at] = WithDirectory(@, "agents")]
               /\ Touch(t.at, "agents")
               /\ UNCHANGED demo
       /\ pathGiven' = (pathGiven \/ named)
       /\ IF Loads("analyze_agents", Folder(t))
          THEN Typed("analyze_agents") /\ target' = t /\ todo' \in Agents
          ELSE cmd = "idle" /\ run < MaxRuns /\ run' = run + 1 /\ UNCHANGED <<cmd, target, todo>>
  /\ UNCHANGED <<faults, source, fetched, step, written_count, frame, summaries, raw, tables, statistics, paper>>

\* A chat or a record of the agents fails: what is left to write is the verdict.
AgentsFail ==
  /\ cmd = "analyze_agents" /\ Len(todo) > 1
  /\ Fault
  /\ todo' = <<"agents/agent_run.json">> /\ step' = 0
  /\ UNCHANGED <<run, cmd, source, fetched, written_count, frame, summaries, raw, tables, statistics,
                 studyVars>>

\* demo_study removes what it made before.
StartDemo ==
  /\ Typed("demo_study")
  /\ demo' = Nothing /\ target' = Demo /\ todo' = DemoStudy
  /\ UNCHANGED <<faults, source, fetched, step, written_count, frame, summaries, raw, tables, statistics,
                 studies, recency, paper, pathGiven>>

\* draft_paper needs a path; it does not ask for a valid study but for its own inputs.
StartDraft ==
  /\ \E t \in {Demo} \cup {Study(n) : n \in DOMAIN studies} : Loads("draft_paper", Folder(t))
  /\ Typed("draft_paper")
  /\ target' = Paper /\ todo' = Draft
  /\ UNCHANGED <<faults, source, fetched, step, written_count, frame, summaries, raw, tables, statistics,
                 studies, recency, demo, paper, pathGiven>>

\* The model that writes the draft fails, times out or returns nothing.
DraftFails ==
  /\ cmd = "draft_paper" /\ Head(todo) = "draft_v1.md" /\ step = 0
  /\ Fault
  /\ Ends /\ target' = NoTarget
  /\ UNCHANGED <<run, summaries, raw, tables, statistics, studies, recency, demo, paper, pathGiven>>

\* The next file is opened, or the one that is open is finished; after the last one
\* the command ends.
WriteFile ==
  /\ target # NoTarget
  /\ (Folder(target) = Nothing /\ target.dir = "study") => \A t \in DOMAIN tables : tables[t].whole
  /\ LET f == Head(todo) IN
     CASE target = Demo  -> demo' = With(demo, f, step = 1) /\ UNCHANGED <<studies, recency, paper>>
       [] target = Paper -> paper' = With(paper, f, step = 1) /\ UNCHANGED <<studies, recency, demo>>
       [] OTHER ->
            /\ studies' = [studies EXCEPT ![target.at] = With(@, f, step = 1)]
            /\ IF cmd = "analyze_agents" THEN UNCHANGED recency ELSE Touch(target.at, f)
            /\ UNCHANGED <<demo, paper>>
  /\ IF step = 1 /\ Len(todo) = 1 THEN Ends /\ target' = NoTarget
     ELSE /\ step' = 1 - step
          /\ todo' = IF step = 1 THEN Tail(todo) ELSE todo
          /\ UNCHANGED <<cmd, source, fetched, written_count, frame, target>>
  /\ UNCHANGED <<run, faults, summaries, raw, tables, statistics, pathGiven>>

\* A study is there, either with all that was made from it or as its backtest left
\* it; the data it was made from is not, or not any more.
By0(files) == [f \in files |-> [run |-> 0, whole |-> TRUE]]

Init ==
  /\ IngestionInit
  /\ \/ /\ studies = <<By0(ToSet(AdvancedStudy) \cup ToSet(Ranking) \cup ToSet(Audit) \cup ToSet(Artifacts)
                           \cup {"agents", "agents/skeptic.md", "agents/synthesis.md",
                                 "agents/agent_run.json"})>>
        /\ paper = By0(ToSet(Draft))
     \/ studies = <<By0(ToSet(PlainStudy))>> /\ paper = Nothing
  /\ recency = <<1>>
  /\ demo = Nothing
  /\ target = NoTarget /\ pathGiven = FALSE

Kill == Killed /\ target' = NoTarget /\ UNCHANGED <<studies, recency, demo, paper, pathGiven>>

Next ==
  \/ DataNext /\ UNCHANGED studyVars
  \/ StartBacktest \/ InputTorn \/ StartStage \/ StartAgents \/ AgentsFail
  \/ StartDemo \/ StartDraft \/ DraftFails \/ WriteFile \/ Kill

Spec == Init /\ [][Next]_allVars

-----------------------------------------------------------------------------
\* As long as nobody has named a study, the stages work on the newest study that has
\* all its files, whatever was killed or refused in between and whichever study was
\* written to last: "latest" by modification time is "latest" by creation.
StagesOnNewestStudy ==
  cmd \in {"rank_breaks", "audit_candidates", "detect_artifacts", "analyze_agents"} /\ ~pathGiven =>
    LET complete == {n \in DOMAIN studies : VALID_STUDY_FILES \subseteq DOMAIN studies[n]}
    IN target.at \in complete /\ \A n \in complete : n <= target.at

Together(folder, first, last, files) ==
  {first, last} \subseteq DOMAIN folder /\ folder[first].run = folder[last].run =>
    \A f \in files : f \in DOMAIN folder /\ folder[f].run = folder[last].run /\ folder[f].whole

\* Files that vouch for each other belong together: when the first and the last file
\* of what a command writes are by the same command, the ones between are by it too,
\* and whole.  So a draft whose metadata is as old as the snapshot is the draft made
\* from that snapshot.  (The tables beside it may be newer: they are written first.)
FilesBelongTogether ==
  /\ \A folder \in ToSet(studies) \cup {demo} :
       /\ Together(folder, "forecast_errors.parquet", "study.md", VALID_STUDY_FILES)
       /\ Together(folder, "ranked_break_candidates.parquet", "top_break_candidates.md",
                   {"ranked_break_candidates.json"})
       /\ Together(folder, "candidate_audit.parquet", "candidate_audit.md", {"candidate_audit.json"})
       /\ Together(folder, "data_artifact_audit.parquet", "data_artifact_audit.md",
                   {"data_artifact_audit.json"})
  /\ Together(paper, "source_snapshot.json", "draft_v1_metadata.json", {"draft_v1.md"})
=============================================================================
