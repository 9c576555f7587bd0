-------------------------------- MODULE AgentRun --------------------------------
(***************************************************************************)
(* analyze_study (agents/runner.py): the reports of the language-model       *)
(* agents on one study, with the chat protocol below it (agents/lemonade.py), *)
(* and what a run leaves behind in three places that are not written         *)
(* together: the report files and agent_run.json in the study's directory,   *)
(* and the rows of the database (agents/memory.py).  Runs follow one another *)
(* in the same directory; any step of a run may fail, and the process may    *)
(* die at any point.                                                        *)
(*                                                                         *)
(* An agent is its place in AGENT_ORDER; the last one is "synthesis".  A run *)
(* that fails before its row is inserted (a study file is missing, the       *)
(* database cannot be opened) changes nothing modelled here and is left out. *)
(***************************************************************************)
EXTENDS Naturals, FiniteSetsExt

CONSTANTS
  AgentCount,   \* the length of AGENT_ORDER (5 in the code)
  MaxRuns       \* bound: runs on the study

ASSUME AgentAssumption == AgentCount \in Nat \ {0} /\ MaxRuns \in Nat

VARIABLES
  at,             \* where the process is
  run,            \* the run in progress, or the last one
  agents_to_run,  \* what the router chose
  reports,        \* agents whose report is written and recorded
  prior,          \* the reports quoted in the prompt being answered
  chat,           \* the chat in progress
  files,          \* agent -> the run whose report its file holds, and whether it is whole
  run_json,       \* agent_run.json
  status,         \* agent_runs: run -> status
  rows            \* agent_reports: run, agent, and the reports it was given

runVars  == <<run, agents_to_run, reports>>
diskVars == <<files, run_json>>
dbVars   == <<status, rows>>
vars == <<at, runVars, prior, chat, diskVars, dbVars>>

-----------------------------------------------------------------------------
Agents    == 1..AgentCount
Synthesis == AgentCount
Runs      == 1..MaxRuns

\* A chat is two prompts at the most, the second one asking for a visible answer;
\* each is first posted with chat_template_kwargs.
NewChat == [prompt |-> 1, kwargs |-> TRUE, posts |-> 1]

At(place) == at = place
Chatting  == at \in {"routing", "asking"}

\* The agent whose turn it is: agents run in AGENT_ORDER, each once.
Current == Min(agents_to_run \ reports)

Recorded(r) == {row.agent : row \in {x \in rows : x.run = r}}

TypeOK ==
  /\ at \in {"idle", "routing", "asking", "filing", "recording", "completing", "closing",
             "failing", "reporting"}
  /\ run \in 0..MaxRuns
  /\ agents_to_run \subseteq Agents
  /\ reports \subseteq agents_to_run
  /\ prior \subseteq Agents
  /\ chat \in [prompt : 1..2, kwargs : BOOLEAN, posts : 1..4]
  /\ files \in [Agents -> [run : 0..MaxRuns, whole : BOOLEAN]]
  /\ run_json \in [run : 0..MaxRuns, status : {"absent", "torn", "completed", "failed"},
                   agents : SUBSET Agents]
  /\ status \in [Runs -> {"absent", "running", "completed", "failed"}]
  /\ rows \subseteq [run : Runs, agent : Agents, prior : SUBSET Agents]

Init ==
  /\ at = "idle"
  /\ run = 0
  /\ agents_to_run = {} /\ reports = {} /\ prior = {}
  /\ chat = NewChat
  /\ files = [a \in Agents |-> [run |-> 0, whole |-> TRUE]]
  /\ run_json = [run |-> 0, status |-> "absent", agents |-> {}]
  /\ status = [r \in Runs |-> "absent"]
  /\ rows = {}

\* A file is opened for writing, and truncated, before it is written.
MayTear(a) == \E whole \in {files[a]} \cup {[run |-> run, whole |-> FALSE]} :
                files' = [files EXCEPT ![a] = whole]
MayTearJson == \E json \in {run_json} \cup {[run |-> run, status |-> "torn", agents |-> {}]} :
                 run_json' = json

\* write_agent_run_json
WriteJson(verdict) == run_json' = [run |-> run, status |-> verdict, agents |-> reports]

-----------------------------------------------------------------------------
StartRun ==
  /\ At("idle") /\ run < MaxRuns
  /\ run' = run + 1
  /\ status' = [status EXCEPT ![run'] = "running"]
  /\ agents_to_run' = {} /\ reports' = {} /\ prior' = {}
  /\ chat' = NewChat
  /\ at' = "routing"
  /\ UNCHANGED <<diskVars, rows>>

(* The chat.  The server may answer each post in any way. *)

\* The server does not know chat_template_kwargs: post the prompt without.
ChatResends ==
  /\ Chatting /\ chat.kwargs
  /\ chat' = [chat EXCEPT !.kwargs = FALSE, !.posts = @ + 1]
  /\ UNCHANGED <<at, runVars, prior, diskVars, dbVars>>

\* Faulty variant: as long as the answer is hidden, ask again.
ChatRepromptsForEver ==
  /\ Chatting
  /\ chat' = [prompt |-> 2, kwargs |-> TRUE, posts |-> chat.posts + 1]
  /\ UNCHANGED <<at, runVars, prior, diskVars, dbVars>>

\* The answer is all in hidden reasoning: ask once more, with the kwargs again.
ChatReprompts ==
  /\ Chatting /\ chat.prompt = 1
  /\ chat' = [prompt |-> 2, kwargs |-> TRUE, posts |-> chat.posts + 1]
  /\ UNCHANGED <<at, runVars, prior, diskVars, dbVars>>

\* Faulty variant: the router's agents are taken as they are.
RouteAsTold(requested) == IF requested = {} THEN Agents ELSE requested

\* route_agents: the known agents named in the answer and synthesis, or all.
Route(requested) == IF requested = {} THEN Agents ELSE requested \cup {Synthesis}

\* Faulty variant: every agent is given the reports so far.
AskNextWithReports(done) ==
  /\ prior' = done
  /\ chat' = NewChat
  /\ at' = "asking"

\* The loop turns to its next agent: only synthesis is given the reports so far.
AskNext(done) ==
  /\ prior' = IF Min(agents_to_run' \ done) = Synthesis THEN done ELSE {}
  /\ chat' = NewChat
  /\ at' = "asking"

RouterAnswers ==
  /\ At("routing")
  /\ \E requested \in SUBSET Agents : agents_to_run' = Route(requested)
  /\ AskNext({})
  /\ UNCHANGED <<run, reports, diskVars, dbVars>>

\* Faulty variant: a router that cannot be used is asked again.
RouterFailsAndIsAskedAgain ==
  /\ At("routing")
  /\ chat' = NewChat
  /\ UNCHANGED <<at, runVars, prior, diskVars, dbVars>>

\* The chat ends in a LemonadeError: all agents run.
RouterFails ==
  /\ At("routing")
  /\ agents_to_run' = Agents
  /\ AskNext({})
  /\ UNCHANGED <<run, reports, diskVars, dbVars>>

AgentAnswers ==
  /\ At("asking")
  /\ at' = "filing"
  /\ UNCHANGED <<runVars, prior, chat, diskVars, dbVars>>

(* Results are kept: the file, the row, the verdict. *)

\* Faulty variant: the row is inserted before the file is written.
FileReportAfterRow ==
  /\ At("filing")
  /\ rows' = rows \cup {[run |-> run, agent |-> Current, prior |-> prior]}
  /\ at' = "recording"
  /\ UNCHANGED <<runVars, prior, chat, diskVars, status>>

FileReport ==
  /\ At("filing")
  /\ files' = [files EXCEPT ![Current] = [run |-> run, whole |-> TRUE]]
  /\ at' = "recording"
  /\ UNCHANGED <<runVars, prior, chat, run_json, dbVars>>

RecordReport ==
  /\ At("recording")
  /\ rows' = rows \cup {[run |-> run, agent |-> Current, prior |-> prior]}
  /\ reports' = reports \cup {Current}
  /\ UNCHANGED <<run, agents_to_run, diskVars, status>>
  /\ IF reports' = agents_to_run
     THEN at' = "completing" /\ UNCHANGED <<prior, chat>>
     ELSE AskNext(reports')

WriteCompleted ==
  /\ At("completing")
  /\ WriteJson("completed")
  /\ at' = "closing"
  /\ UNCHANGED <<runVars, prior, chat, files, dbVars>>

SetCompleted ==
  /\ At("closing")
  /\ status' = [status EXCEPT ![run] = "completed"]
  /\ at' = "idle"
  /\ UNCHANGED <<runVars, prior, chat, diskVars, rows>>

\* Any exception of a step after the row "running" is caught; a failed write may
\* have torn its file, a failed statement has been rolled back.  (The chat of the
\* router raises only what is no LemonadeError, an invalid URL for one.)
StepFails ==
  /\ at \in {"routing", "asking", "filing", "recording", "completing", "closing"}
  /\ IF At("filing") THEN MayTear(Current) ELSE UNCHANGED files
  /\ IF At("completing") THEN MayTearJson ELSE UNCHANGED run_json
  /\ at' = "failing"
  /\ UNCHANGED <<runVars, prior, chat, dbVars>>

\* Faulty variant: the handler writes the file first.
SetFailedAfterJson ==
  /\ At("failing")
  /\ WriteJson("failed")
  /\ at' = "reporting"
  /\ UNCHANGED <<runVars, prior, chat, files, dbVars>>

\* The handler: first the database, then the file.
SetFailed ==
  /\ At("failing")
  /\ status' = [status EXCEPT ![run] = "failed"]
  /\ at' = "reporting"
  /\ UNCHANGED <<runVars, prior, chat, diskVars, rows>>

WriteFailed ==
  /\ At("reporting")
  /\ WriteJson("failed")
  /\ at' = "idle"
  /\ UNCHANGED <<runVars, prior, chat, files, dbVars>>

\* The handler itself fails: nothing catches that.
HandlerFails ==
  /\ at \in {"failing", "reporting"}
  /\ IF At("reporting") THEN MayTearJson ELSE UNCHANGED run_json
  /\ at' = "idle"
  /\ UNCHANGED <<runVars, prior, chat, files, dbVars>>

\* The process dies, or is interrupted: the handler is for Exceptions only.
Crash ==
  /\ ~At("idle")
  /\ IF At("filing") THEN MayTear(Current) ELSE UNCHANGED files
  /\ IF at \in {"completing", "reporting"} THEN MayTearJson ELSE UNCHANGED run_json
  /\ at' = "idle"
  /\ UNCHANGED <<runVars, prior, chat, dbVars>>

Done == At("idle") /\ run = MaxRuns /\ UNCHANGED vars

Proceed ==
  \/ ChatResends \/ ChatReprompts \/ RouterAnswers \/ RouterFails \/ AgentAnswers
  \/ FileReport \/ RecordReport \/ WriteCompleted \/ SetCompleted
  \/ StepFails \/ SetFailed \/ WriteFailed \/ HandlerFails

Next == StartRun \/ Proceed \/ Crash \/ Done

Spec == Init /\ [][Next]_vars

\* A run in progress goes on: httpx answers or gives up within its timeout, SQLite
\* too.  Nothing makes anybody start a run.
FairSpec == Spec /\ WF_vars(Proceed)

-----------------------------------------------------------------------------
\* The synthesis of a run was given the reports of exactly the other agents that
\* report in that run, none of which comes after it; no other agent saw any.
SynthesisReadsTheOthers ==
  \A row \in rows :
    row.prior = IF row.agent = Synthesis THEN Recorded(row.run) \ {Synthesis} ELSE {}

\* A report in the database is in its file too, whole, unless a later run has
\* begun to replace it.
RecordedReportIsFiled ==
  \A row \in rows :
    LET file == files[row.agent] IN
    file.run >= row.run /\ (file.run = row.run => file.whole)

\* A run the database calls completed has a synthesis, and while it is the last
\* one to have come to an end agent_run.json says so too and lists exactly the
\* reports recorded.
CompletedRunIsWhole ==
  \A r \in Runs :
    status[r] = "completed" =>
      /\ Synthesis \in Recorded(r)
      /\ run_json.run >= r
      /\ run_json.run = r => run_json.status = "completed" /\ run_json.agents = Recorded(r)

\* agent_run.json calls a run failed only if the database does, and it names no
\* report the database lacks.
JsonFollowsDatabase ==
  /\ run_json.status = "failed" => status[run_json.run] = "failed"
  /\ run_json.run # 0 => run_json.agents \subseteq Recorded(run_json.run)

\* The database's verdict on a run is final, whichever write fails.  That of agent_run.json
\* is not: it says completed before the database does, and if the database then fails to,
\* the handler writes the file anew.  But it takes the file's word back only when the
\* database has called the run failed, never of a run that the database calls completed
\* or still running.
VerdictIsFinal ==
  [][/\ \A r \in Runs : status[r] \in {"completed", "failed"} => status'[r] = status[r]
     /\ run_json.status = "completed" /\ run_json'.run = run_json.run /\ run_json' # run_json =>
          status[run_json.run] = "failed"]_vars

\* A run comes to an end, whatever the model server answers.
RunEnds == ~At("idle") ~> At("idle")
=============================================================================
