------------------------------ MODULE AgentRunProofs ------------------------------
(***************************************************************************)
(* Proofs about AgentRun, for any number of agents and of runs: the three stores, which *)
(* are not written together, agree as far as the properties of AgentRun say, whatever     *)
(* step fails and wherever the process dies.                                       *)
(***************************************************************************)
EXTENDS AgentRun, WellFoundedInduction, TLAPS

\* A set of agents that is not empty has a first one.
LEMMA FirstAgent ==
  ASSUME NEW S, S \subseteq Nat, S # {}
  PROVE  Min(S) \in S /\ \A y \in S : Min(S) <= y
<1>1. IsWellFoundedOn(OpToRel(<, Nat), Nat)
  BY NatLessThanWellFounded
<1>2. PICK x \in S : \A y \in S : ~(<<y, x>> \in OpToRel(<, Nat))
  BY <1>1, WFMin
<1>3. ASSUME NEW y \in S PROVE x <= y
  <2>1. ~(y < x)
    BY <1>2, <1>3 DEF OpToRel
  <2> QED
    BY <2>1
<1> QED
  BY <1>3 DEF Min

-----------------------------------------------------------------------------
\* Each prompt is posted twice at the most.
ChatInv == chat.posts <= 2 * chat.prompt - (IF chat.kwargs THEN 1 ELSE 0)

Left == agents_to_run \ reports

\* The rows of the run in progress are its reports; its verdict is still open, or it has
\* just failed; and it is the last run that anything is known of.
RunInv ==
  /\ ~At("idle") =>
       /\ run \in Runs
       /\ Recorded(run) = reports
       /\ status[run] = IF At("reporting") THEN "failed" ELSE "running"
  /\ \A r \in Runs : r > run => status[r] = "absent"
  /\ \A row \in rows : row.run <= run
  /\ \A a \in Agents : files[a].run <= run
  /\ run_json.run <= run

\* Agents report in their order, the first of those left is at work, and synthesis, which
\* always takes part, is given what there is.
OrderInv ==
  /\ At("routing") => reports = {}
  /\ \A a \in reports, b \in Left : a < b
  /\ at \in {"asking", "filing", "recording", "completing", "closing"} => Synthesis \in agents_to_run
  /\ at \in {"asking", "filing", "recording"} =>
       Left # {} /\ prior = IF Current = Synthesis THEN reports ELSE {}
  /\ at \in {"completing", "closing"} => Left = {}

\* What has been written when the next step is to record it; and agent_run.json is about
\* an earlier run until this one has its reports.
WrittenInv ==
  /\ at \in {"routing", "asking", "filing", "recording", "completing"} => run_json.run < run
  /\ At("recording") => files[Current] = [run |-> run, whole |-> TRUE]
  /\ At("closing") => run_json = [run |-> run, status |-> "completed", agents |-> reports]
  /\ run_json.status \in {"completed", "failed"} => run_json.run \in Runs

IInv ==
  /\ TypeOK
  /\ ChatInv
  /\ RunInv
  /\ OrderInv
  /\ WrittenInv
  /\ SynthesisReadsTheOthers
  /\ RecordedReportIsFiled
  /\ CompletedRunIsWhole
  /\ JsonFollowsDatabase

-----------------------------------------------------------------------------
LEMMA Start == Init => IInv
<1> SUFFICES ASSUME Init PROVE IInv
  OBVIOUS
<1>1. \A r : Recorded(r) = {}
  BY DEF Init, Recorded
<1>2. TypeOK
  BY AgentAssumption DEF Init, TypeOK, Agents, Runs, NewChat
<1>3. ChatInv /\ RunInv /\ OrderInv /\ WrittenInv
  BY <1>1, AgentAssumption DEF Init, ChatInv, RunInv, OrderInv, WrittenInv, NewChat, At, Runs, Agents
<1>4. SynthesisReadsTheOthers /\ RecordedReportIsFiled /\ CompletedRunIsWhole /\ JsonFollowsDatabase
  BY <1>1 DEF Init, SynthesisReadsTheOthers, RecordedReportIsFiled, CompletedRunIsWhole,
              JsonFollowsDatabase, Runs
<1> QED
  BY <1>2, <1>3, <1>4 DEF IInv

\* Facts about the agents that every step may use.
LEMMA AgentFacts ==
  ASSUME IInv
  PROVE  /\ Agents \subseteq Nat /\ Synthesis \in Agents /\ \A a \in Agents : a <= Synthesis
         /\ Left \subseteq Agents /\ reports \subseteq Agents
         /\ Left # {} => Current \in Left /\ Synthesis \notin reports /\ \A b \in Left : Current <= b
<1>1. Agents \subseteq Nat /\ Synthesis \in Agents /\ \A a \in Agents : a <= Synthesis
  BY AgentAssumption DEF Agents, Synthesis
<1>2. Left \subseteq Agents /\ reports \subseteq Agents
  BY DEF IInv, TypeOK, Left
<1>3. ASSUME Left # {} PROVE Current \in Left /\ Synthesis \notin reports /\ \A b \in Left : Current <= b
  <2>1. Current \in Left /\ \A b \in Left : Current <= b
    BY <1>1, <1>2, <1>3, FirstAgent DEF Current, Left
  <2>2. ~(Synthesis < Current)
    BY <1>1, <1>2, <2>1
  <2> QED
    BY <2>1, <2>2 DEF IInv, OrderInv
<1> QED
  BY <1>1, <1>2, <1>3

\* A step that writes nothing leaves what has been written as it is.
LEMMA SameStores ==
  ASSUME IInv, UNCHANGED <<diskVars, dbVars>>
  PROVE  /\ SynthesisReadsTheOthers' /\ RecordedReportIsFiled'
         /\ CompletedRunIsWhole' /\ JsonFollowsDatabase'
         /\ \A r : Recorded(r)' = Recorded(r)
         /\ files' = files /\ run_json' = run_json /\ status' = status /\ rows' = rows
<1>1. files' = files /\ run_json' = run_json /\ status' = status /\ rows' = rows
  BY DEF diskVars, dbVars
<1>2. \A r : Recorded(r)' = Recorded(r)
  BY <1>1 DEF Recorded
<1>3. SynthesisReadsTheOthers' /\ RecordedReportIsFiled'
  BY <1>1, <1>2 DEF IInv, SynthesisReadsTheOthers, RecordedReportIsFiled
<1>4. CompletedRunIsWhole' /\ JsonFollowsDatabase'
  BY <1>1, <1>2 DEF IInv, CompletedRunIsWhole, JsonFollowsDatabase
<1> QED
  BY <1>1, <1>2, <1>3, <1>4

LEMMA ChatStep == ASSUME IInv, ChatResends \/ ChatReprompts PROVE IInv'
<1>1. UNCHANGED <<at, runVars, prior, diskVars, dbVars>>
  BY DEF ChatResends, ChatReprompts
<1>2. /\ at' = at /\ run' = run /\ agents_to_run' = agents_to_run /\ reports' = reports
      /\ prior' = prior
  BY <1>1 DEF runVars
<1>3. chat' \in [prompt : 1..2, kwargs : BOOLEAN, posts : 1..4] /\ ChatInv'
  <2> DEFINE Chat == [prompt : 1..2, kwargs : BOOLEAN, posts : 1..4]
  <2>0. chat \in Chat /\ chat.posts <= 2 * chat.prompt - (IF chat.kwargs THEN 1 ELSE 0)
    BY DEF IInv, TypeOK, ChatInv
  <2>1. CASE ChatResends
    <3>1. chat.kwargs /\ chat' = [prompt |-> chat.prompt, kwargs |-> FALSE, posts |-> chat.posts + 1]
      BY <2>0, <2>1 DEF ChatResends
    <3> QED
      BY <2>0, <3>1 DEF ChatInv
  <2>2. CASE ChatReprompts
    <3>1. chat.prompt = 1 /\ chat' = [prompt |-> 2, kwargs |-> TRUE, posts |-> chat.posts + 1]
      BY <2>2 DEF ChatReprompts
    <3> QED
      BY <2>0, <3>1 DEF ChatInv
  <2> QED
    BY <2>1, <2>2
<1>4. TypeOK'
  BY <1>1, <1>2, <1>3, SameStores DEF IInv, TypeOK
<1>5. RunInv' /\ OrderInv' /\ WrittenInv'
  BY <1>1, <1>2, SameStores DEF IInv, RunInv, OrderInv, WrittenInv, At, Left, Current
<1> QED
  BY <1>1, <1>3, <1>4, <1>5, SameStores DEF IInv

LEMMA StartStep == ASSUME IInv, StartRun PROVE IInv'
<1>1. /\ At("idle") /\ run < MaxRuns /\ run' = run + 1
      /\ status' = [status EXCEPT ![run'] = "running"]
      /\ agents_to_run' = {} /\ reports' = {} /\ prior' = {} /\ chat' = NewChat /\ at' = "routing"
      /\ files' = files /\ run_json' = run_json /\ rows' = rows
  BY DEF StartRun, diskVars
<1>2. run \in Nat /\ run' \in Runs /\ run' > run /\ status[run'] = "absent"
  BY <1>1, AgentAssumption DEF IInv, TypeOK, RunInv, Runs
<1>3. \A r : Recorded(r)' = Recorded(r)
  BY <1>1 DEF Recorded
<1>4. Recorded(run') = {}
  BY <1>2 DEF IInv, TypeOK, RunInv, Recorded, Runs
<1>5. TypeOK' /\ ChatInv'
  BY <1>1, <1>2, AgentAssumption DEF IInv, TypeOK, ChatInv, NewChat, Runs
<1>6. RunInv'
  <2>1. status'[run'] = "running" /\ \A r \in Runs : r # run' => status'[r] = status[r]
    BY <1>1, <1>2 DEF IInv, TypeOK
  <2>2. \A r \in Runs : r > run' => status'[r] = "absent"
    BY <1>1, <1>2, <2>1 DEF IInv, RunInv, Runs
  <2>3. \A row \in rows' : row.run <= run'
    BY <1>1, <1>2 DEF IInv, TypeOK, RunInv, Runs
  <2>4. (\A a \in Agents : files'[a].run <= run') /\ run_json'.run <= run'
    BY <1>1, <1>2 DEF IInv, TypeOK, RunInv
  <2> QED
    BY <1>1, <1>2, <1>3, <1>4, <2>1, <2>2, <2>3, <2>4 DEF RunInv, At
<1>7. OrderInv' /\ WrittenInv'
  <2>1. run_json.run < run'
    BY <1>1, <1>2 DEF IInv, TypeOK, RunInv
  <2> QED
    BY <1>1, <2>1 DEF IInv, OrderInv, WrittenInv, At
<1>8. SynthesisReadsTheOthers' /\ RecordedReportIsFiled'
  BY <1>1, <1>3 DEF IInv, SynthesisReadsTheOthers, RecordedReportIsFiled
<1>9. \A r \in Runs : r # run' => status'[r] = status[r]
  BY <1>1 DEF IInv, TypeOK
<1>10. status'[run'] = "running"
  BY <1>1, <1>2 DEF IInv, TypeOK
<1>11. CompletedRunIsWhole'
  BY <1>1, <1>3, <1>9, <1>10 DEF IInv, CompletedRunIsWhole
<1>12. JsonFollowsDatabase'
  BY <1>1, <1>2, <1>3, <1>9 DEF IInv, TypeOK, RunInv, WrittenInv, JsonFollowsDatabase
<1> QED
  BY <1>5, <1>6, <1>7, <1>8, <1>11, <1>12 DEF IInv

\* The agents of a run are chosen, and the first of them is asked.
LEMMA RouteStep == ASSUME IInv, RouterAnswers \/ RouterFails PROVE IInv'
<1>1. /\ At("routing") /\ agents_to_run' \subseteq Agents /\ Synthesis \in agents_to_run'
      /\ AskNext({}) /\ run' = run /\ reports' = reports /\ UNCHANGED <<diskVars, dbVars>>
  <2>1. CASE RouterAnswers
    BY <2>1, AgentFacts DEF RouterAnswers, Route
  <2>2. CASE RouterFails
    BY <2>2, AgentFacts DEF RouterFails
  <2> QED
    BY <2>1, <2>2
<1>2. reports = {} /\ at' = "asking" /\ chat' = NewChat
  BY <1>1 DEF IInv, OrderInv, AskNext
<1>3. prior' = IF Current' = Synthesis THEN reports' ELSE {}
  BY <1>1, <1>2 DEF AskNext, Current
<1>4. TypeOK' /\ ChatInv'
  BY <1>1, <1>2, <1>3, SameStores DEF IInv, TypeOK, ChatInv, NewChat
<1>5. RunInv'
  BY <1>1, <1>2, SameStores DEF IInv, RunInv, At
<1>6. OrderInv' /\ WrittenInv'
  BY <1>1, <1>2, <1>3, SameStores DEF IInv, OrderInv, WrittenInv, At, Left
<1> QED
  BY <1>1, <1>4, <1>5, <1>6, SameStores DEF IInv

LEMMA AnswerStep == ASSUME IInv, AgentAnswers PROVE IInv'
<1>1. /\ At("asking") /\ at' = "filing" /\ chat' = chat /\ prior' = prior
      /\ run' = run /\ agents_to_run' = agents_to_run /\ reports' = reports
      /\ UNCHANGED <<diskVars, dbVars>>
  BY DEF AgentAnswers, runVars
<1>2. TypeOK' /\ ChatInv'
  BY <1>1, SameStores DEF IInv, TypeOK, ChatInv
<1>3. RunInv' /\ OrderInv' /\ WrittenInv'
  BY <1>1, SameStores DEF IInv, RunInv, OrderInv, WrittenInv, At, Left, Current
<1> QED
  BY <1>1, <1>2, <1>3, SameStores DEF IInv

\* A report is written to its file.
LEMMA FileStep == ASSUME IInv, FileReport PROVE IInv'
<1>1. /\ At("filing") /\ at' = "recording" /\ chat' = chat /\ prior' = prior
      /\ run' = run /\ agents_to_run' = agents_to_run /\ reports' = reports
      /\ run_json' = run_json /\ status' = status /\ rows' = rows
      /\ files' = [files EXCEPT ![Current] = [run |-> run, whole |-> TRUE]]
  BY DEF FileReport, runVars, dbVars
<1>2. /\ Current' = Current /\ Left' = Left /\ Current \in Agents /\ run \in Runs
      /\ \A r : Recorded(r)' = Recorded(r)
  <2>1. Left # {} /\ run \in Runs
    BY <1>1 DEF IInv, OrderInv, RunInv, At
  <2> QED
    BY <1>1, <2>1, AgentFacts DEF Current, Left, Recorded
<1>3. /\ files'[Current] = [run |-> run, whole |-> TRUE]
      /\ \A a \in Agents : a # Current => files'[a] = files[a]
  BY <1>1, <1>2 DEF IInv, TypeOK
<1>4. TypeOK' /\ ChatInv'
  BY <1>1, <1>2 DEF IInv, TypeOK, ChatInv, Runs
<1>5. RunInv'
  <2>1. \A a \in Agents : files'[a].run <= run
    BY <1>2, <1>3 DEF IInv, RunInv, Runs
  <2> QED
    BY <1>1, <1>2, <2>1 DEF IInv, RunInv, At
<1>6. OrderInv' /\ WrittenInv'
  BY <1>1, <1>2, <1>3 DEF IInv, OrderInv, WrittenInv, At
<1>7. RecordedReportIsFiled'
  BY <1>1, <1>2, <1>3 DEF IInv, TypeOK, RunInv, RecordedReportIsFiled
<1>8. SynthesisReadsTheOthers' /\ CompletedRunIsWhole' /\ JsonFollowsDatabase'
  BY <1>1, <1>2 DEF IInv, SynthesisReadsTheOthers, CompletedRunIsWhole, JsonFollowsDatabase
<1> QED
  BY <1>4, <1>5, <1>6, <1>7, <1>8 DEF IInv

\* A report is recorded, and the next agent asked, if one is left.
LEMMA RecordStep == ASSUME IInv, RecordReport PROVE IInv'
<1> DEFINE new == [run |-> run, agent |-> Current, prior |-> prior]
<1>1. /\ At("recording") /\ rows' = rows \cup {new} /\ reports' = reports \cup {Current}
      /\ run' = run /\ agents_to_run' = agents_to_run /\ status' = status
      /\ files' = files /\ run_json' = run_json
      /\ \/ reports' = agents_to_run /\ at' = "completing" /\ prior' = prior /\ chat' = chat
         \/ reports' # agents_to_run /\ AskNext(reports')
  BY DEF RecordReport, diskVars
<1>2. /\ Left # {} /\ run \in Runs /\ Recorded(run) = reports /\ status[run] = "running"
      /\ prior = (IF Current = Synthesis THEN reports ELSE {})
      /\ files[Current] = [run |-> run, whole |-> TRUE]
      /\ Synthesis \in agents_to_run
  BY <1>1 DEF IInv, OrderInv, RunInv, WrittenInv, At
<1>3. /\ Current \in Left /\ Current \in Agents /\ Synthesis \notin reports /\ Current \notin reports
      /\ \A b \in Left : Current <= b
  BY <1>2, AgentFacts DEF Left
<1>4. new \in [run : Runs, agent : Agents, prior : SUBSET Agents]
  BY <1>2, <1>3 DEF IInv, TypeOK
<1>5. Recorded(run)' = reports' /\ \A r : r # run => Recorded(r)' = Recorded(r)
  <2>1. new.run = run /\ new.agent = Current
    OBVIOUS
  <2> HIDE DEF new
  <2>2. ASSUME NEW r, r # run PROVE Recorded(r)' = Recorded(r)
    BY <1>1, <2>1, <2>2 DEF Recorded
  <2>3. Recorded(run)' = Recorded(run) \cup {Current}
    BY <1>1, <2>1 DEF Recorded
  <2> QED
    BY <1>1, <1>2, <2>2, <2>3
<1>6. Left' = Left \ {Current} /\ (Left' = {} <=> reports' = agents_to_run) /\ reports' \subseteq agents_to_run
  BY <1>1, <1>3 DEF IInv, TypeOK, Left
<1>7. /\ at' \in {"asking", "completing"}
      /\ at' = "completing" <=> reports' = agents_to_run
      /\ at' = "asking" => prior' = IF Current' = Synthesis THEN reports' ELSE {}
      /\ prior' \subseteq Agents /\ chat' \in {chat, NewChat}
  <2>1. Current' = Min(agents_to_run' \ reports')
    BY DEF Current
  <2> QED
    BY <1>1, <1>3, <2>1 DEF IInv, TypeOK, AskNext
<1>8. TypeOK' /\ ChatInv'
  <2>1. rows' \subseteq [run : Runs, agent : Agents, prior : SUBSET Agents]
    BY <1>1, <1>4 DEF IInv, TypeOK
  <2>2. chat' \in [prompt : 1..2, kwargs : BOOLEAN, posts : 1..4] /\ ChatInv'
    <3>1. CASE chat' = chat
      BY <3>1 DEF IInv, TypeOK, ChatInv
    <3>2. CASE chat' = NewChat
      BY <3>2 DEF ChatInv, NewChat
    <3> QED
      BY <1>7, <3>1, <3>2
  <2> QED
    BY <1>1, <1>6, <1>7, <2>1, <2>2 DEF IInv, TypeOK
<1>9. RunInv'
  <2>1. \A row \in rows' : row.run <= run
    BY <1>1, <1>2 DEF IInv, RunInv, Runs
  <2> QED
    BY <1>1, <1>2, <1>5, <1>7, <2>1 DEF IInv, RunInv, At
<1>10. OrderInv' /\ WrittenInv'
  <2>1. \A a \in reports', b \in Left' : a < b
    <3>1. \A b \in Left' : Current < b
      BY <1>3, <1>6, AgentFacts
    <3> QED
      BY <1>1, <1>6, <3>1 DEF IInv, OrderInv
  <2> QED
    BY <1>1, <1>2, <1>6, <1>7, <2>1 DEF IInv, OrderInv, WrittenInv, At
<1>11. SynthesisReadsTheOthers'
  <2>1. ASSUME NEW row \in rows
        PROVE  row.prior = IF row.agent = Synthesis THEN Recorded(row.run)' \ {Synthesis} ELSE {}
    <3>1. row.run = run => row.agent # Synthesis
      BY <1>2, <1>3, <2>1 DEF Recorded
    <3> QED
      BY <1>5, <2>1, <3>1 DEF IInv, SynthesisReadsTheOthers
  <2>2. new.prior = IF new.agent = Synthesis THEN Recorded(new.run)' \ {Synthesis} ELSE {}
    BY <1>1, <1>2, <1>3, <1>5
  <2> QED
    BY <1>1, <2>1, <2>2 DEF SynthesisReadsTheOthers
<1>12. RecordedReportIsFiled'
  <2>1. new.run = run /\ new.agent = Current /\ run <= run
    BY <1>2 DEF Runs
  <2> QED
    BY <1>1, <1>2, <2>1 DEF IInv, RecordedReportIsFiled
<1>13. CompletedRunIsWhole' /\ JsonFollowsDatabase'
  BY <1>1, <1>2, <1>5 DEF IInv, CompletedRunIsWhole, JsonFollowsDatabase
<1> QED
  BY <1>8, <1>9, <1>10, <1>11, <1>12, <1>13 DEF IInv

\* A verdict is written to agent_run.json: completed before the database has it, failed
\* after.
LEMMA JsonStep == ASSUME IInv, WriteCompleted \/ WriteFailed PROVE IInv'
<1>1. /\ chat' = chat /\ prior' = prior
      /\ run' = run /\ agents_to_run' = agents_to_run /\ reports' = reports
      /\ files' = files /\ status' = status /\ rows' = rows
      /\ \/ At("completing") /\ at' = "closing" /\ WriteJson("completed")
         \/ At("reporting") /\ at' = "idle" /\ WriteJson("failed")
  BY DEF WriteCompleted, WriteFailed, runVars, dbVars
<1>2. /\ run \in Runs /\ Recorded(run) = reports /\ \A r : Recorded(r)' = Recorded(r)
      /\ status[run] = IF At("reporting") THEN "failed" ELSE "running"
  BY <1>1 DEF IInv, RunInv, At, Recorded
<1>3. /\ run_json'.run = run /\ run_json'.agents = reports
      /\ run_json'.status = IF At("completing") THEN "completed" ELSE "failed"
      /\ run_json' \in [run : 0..MaxRuns, status : {"absent", "torn", "completed", "failed"},
                        agents : SUBSET Agents]
  BY <1>1, <1>2, AgentFacts DEF IInv, WriteJson, At, Runs
<1>4. TypeOK' /\ ChatInv'
  BY <1>1, <1>3 DEF IInv, TypeOK, ChatInv
<1>5. RunInv' /\ OrderInv' /\ WrittenInv'
  <2>1. run_json'.run <= run
    BY <1>2, <1>3 DEF Runs
  <2>2. RunInv'
    BY <1>1, <1>2, <2>1 DEF IInv, RunInv, At
  <2>3. OrderInv'
    BY <1>1 DEF IInv, OrderInv, At, Left
  <2>4. WrittenInv'
    BY <1>1, <1>2, <1>3 DEF WrittenInv, At, WriteJson
  <2> QED
    BY <2>2, <2>3, <2>4
<1>6. SynthesisReadsTheOthers' /\ RecordedReportIsFiled'
  BY <1>1, <1>2 DEF IInv, SynthesisReadsTheOthers, RecordedReportIsFiled
<1>7. CompletedRunIsWhole'
  <2>1. \A r \in Runs : status[r] # "absent" => r <= run
    BY <1>2 DEF IInv, RunInv, Runs
  <2> QED
    BY <1>1, <1>2, <1>3, <2>1 DEF IInv, CompletedRunIsWhole, At
<1>8. JsonFollowsDatabase'
  BY <1>1, <1>2, <1>3 DEF JsonFollowsDatabase, At
<1> QED
  BY <1>4, <1>5, <1>6, <1>7, <1>8 DEF IInv

\* The database learns of the verdict.
LEMMA VerdictStep == ASSUME IInv, SetCompleted \/ SetFailed PROVE IInv'
<1>1. /\ chat' = chat /\ prior' = prior
      /\ run' = run /\ agents_to_run' = agents_to_run /\ reports' = reports
      /\ files' = files /\ run_json' = run_json /\ rows' = rows
      /\ \/ At("closing") /\ at' = "idle" /\ status' = [status EXCEPT ![run] = "completed"]
         \/ At("failing") /\ at' = "reporting" /\ status' = [status EXCEPT ![run] = "failed"]
  BY DEF SetCompleted, SetFailed, runVars, diskVars
<1>2. /\ run \in Runs /\ Recorded(run) = reports /\ \A r : Recorded(r)' = Recorded(r)
      /\ status[run] = "running"
  BY <1>1 DEF IInv, RunInv, At, Recorded
<1>3. /\ status'[run] = IF At("closing") THEN "completed" ELSE "failed"
      /\ \A r \in Runs : r # run => status'[r] = status[r]
      /\ status' \in [Runs -> {"absent", "running", "completed", "failed"}]
  BY <1>1, <1>2 DEF IInv, TypeOK, At
<1>4. TypeOK' /\ ChatInv'
  BY <1>1, <1>3 DEF IInv, TypeOK, ChatInv
<1>5. RunInv' /\ OrderInv' /\ WrittenInv'
  <2>1. \A r \in Runs : r > run => status'[r] = "absent"
    BY <1>2, <1>3 DEF IInv, RunInv, Runs
  <2>2. RunInv'
    BY <1>1, <1>2, <1>3, <2>1 DEF IInv, RunInv, At
  <2> QED
    BY <1>1, <2>2 DEF IInv, OrderInv, WrittenInv, At, Left
<1>6. SynthesisReadsTheOthers' /\ RecordedReportIsFiled'
  BY <1>1, <1>2 DEF IInv, SynthesisReadsTheOthers, RecordedReportIsFiled
<1>7. At("closing") =>
        /\ run_json = [run |-> run, status |-> "completed", agents |-> reports]
        /\ Synthesis \in reports /\ run_json.run >= run
  BY <1>2 DEF IInv, OrderInv, WrittenInv, At, Left, Runs
<1>8. CompletedRunIsWhole'
  <2> SUFFICES ASSUME NEW r \in Runs, status'[r] = "completed"
               PROVE  /\ Synthesis \in Recorded(r) /\ run_json.run >= r
                      /\ run_json.run = r => run_json.status = "completed" /\ run_json.agents = Recorded(r)
    BY <1>1, <1>2 DEF CompletedRunIsWhole
  <2>1. CASE r # run
    BY <1>3, <2>1 DEF IInv, CompletedRunIsWhole
  <2>2. CASE r = run
    BY <1>2, <1>3, <1>7, <2>2
  <2> QED
    BY <2>1, <2>2
<1>9. JsonFollowsDatabase'
  <2>1. run_json.status = "failed" => run_json.run \in Runs /\ ~At("closing")
    BY <1>7 DEF IInv, WrittenInv
  <2>2. run_json.status = "failed" => status'[run_json.run] = "failed"
    BY <1>1, <1>3, <2>1 DEF IInv, JsonFollowsDatabase
  <2> QED
    BY <1>1, <1>2, <2>2 DEF IInv, JsonFollowsDatabase
<1> QED
  BY <1>4, <1>5, <1>6, <1>8, <1>9 DEF IInv

\* A step fails, the handler fails or the process dies: a file may be torn.
LEMMA FailStep == ASSUME IInv, StepFails \/ HandlerFails \/ Crash PROVE IInv'
<1>1. /\ ~At("idle") /\ at' \in {"failing", "idle"} /\ (At("reporting") => at' = "idle")
      /\ chat' = chat /\ prior' = prior
      /\ run' = run /\ agents_to_run' = agents_to_run /\ reports' = reports
      /\ status' = status /\ rows' = rows
      /\ files' = files \/ (At("filing") /\ MayTear(Current))
      /\ run_json' = run_json \/ (at \in {"completing", "reporting"} /\ MayTearJson)
  <2>1. CASE StepFails
    BY <2>1 DEF StepFails, At, runVars, dbVars
  <2>2. CASE HandlerFails
    BY <2>2 DEF HandlerFails, At, runVars, dbVars
  <2>3. CASE Crash
    BY <2>3 DEF Crash, At, runVars, dbVars
  <2> QED
    BY <2>1, <2>2, <2>3
<1>2. /\ run \in Runs /\ Recorded(run) = reports /\ \A r : Recorded(r)' = Recorded(r)
      /\ status[run] = IF At("reporting") THEN "failed" ELSE "running"
      /\ run \in Nat
  BY <1>1 DEF IInv, RunInv, Recorded, Runs
<1>3. /\ files' \in [Agents -> [run : 0..MaxRuns, whole : BOOLEAN]]
      /\ \A a \in Agents : files'[a] = files[a] \/ (a \notin reports /\ files'[a] = [run |-> run, whole |-> FALSE])
  <2>1. CASE files' = files
    BY <2>1 DEF IInv, TypeOK
  <2>2. CASE At("filing") /\ MayTear(Current)
    <3>1. Left # {}
      BY <2>2 DEF IInv, OrderInv, At
    <3>2. Current \in Agents /\ Current \notin reports
      BY <3>1, AgentFacts DEF Left
    <3>3. PICK whole \in {files[Current]} \cup {[run |-> run, whole |-> FALSE]} :
            files' = [files EXCEPT ![Current] = whole]
      BY <2>2 DEF MayTear
    <3>4. whole \in [run : 0..MaxRuns, whole : BOOLEAN]
      <4>1. files[Current] \in [run : 0..MaxRuns, whole : BOOLEAN]
        BY <3>2 DEF IInv, TypeOK
      <4>2. [run |-> run, whole |-> FALSE] \in [run : 0..MaxRuns, whole : BOOLEAN]
        BY <1>2 DEF Runs
      <4> QED
        BY <3>3, <4>1, <4>2
    <3>5. /\ files' \in [Agents -> [run : 0..MaxRuns, whole : BOOLEAN]]
          /\ files'[Current] = whole /\ \A a \in Agents : a # Current => files'[a] = files[a]
      BY <3>2, <3>3, <3>4 DEF IInv, TypeOK
    <3> QED
      BY <3>2, <3>3, <3>5
  <2> QED
    BY <1>1, <2>1, <2>2
<1>4. /\ run_json' = run_json \/ run_json' = [run |-> run, status |-> "torn", agents |-> {}]
      /\ run_json' \in [run : 0..MaxRuns, status : {"absent", "torn", "completed", "failed"},
                        agents : SUBSET Agents]
  BY <1>1, <1>2 DEF IInv, TypeOK, MayTearJson, Runs
<1>5. TypeOK' /\ ChatInv'
  BY <1>1, <1>3, <1>4 DEF IInv, TypeOK, ChatInv
<1>6. RunInv'
  <2>1. (\A a \in Agents : files'[a].run <= run) /\ run_json'.run <= run
    BY <1>2, <1>3, <1>4 DEF IInv, RunInv
  <2> QED
    BY <1>1, <1>2, <2>1 DEF IInv, RunInv, At
<1>7. OrderInv' /\ WrittenInv'
  BY <1>1, <1>2, <1>4 DEF IInv, OrderInv, WrittenInv, At, Left
<1>8. SynthesisReadsTheOthers'
  BY <1>1, <1>2 DEF IInv, SynthesisReadsTheOthers
<1>9. RecordedReportIsFiled'
  <2> SUFFICES ASSUME NEW row \in rows
               PROVE  files'[row.agent].run >= row.run /\ (files'[row.agent].run = row.run => files'[row.agent].whole)
    BY <1>1 DEF RecordedReportIsFiled
  <2>1. row.agent \in Agents /\ row.run \in Runs /\ row.run <= run
    BY DEF IInv, TypeOK, RunInv
  <2>2. row.run = run => row.agent \in reports
    BY <1>2 DEF Recorded
  <2>3. CASE files'[row.agent] = files[row.agent]
    BY <2>3 DEF IInv, RecordedReportIsFiled
  <2>4. CASE row.agent \notin reports /\ files'[row.agent] = [run |-> run, whole |-> FALSE]
    BY <1>2, <2>1, <2>2, <2>4 DEF Runs
  <2> QED
    BY <1>3, <2>1, <2>3, <2>4
<1>10. CompletedRunIsWhole'
  <2>1. \A r \in Runs : status[r] = "completed" => r <= run /\ r # run
    BY <1>2 DEF IInv, RunInv, Runs
  <2>2. CASE run_json' = run_json
    BY <1>1, <1>2, <2>2 DEF IInv, CompletedRunIsWhole
  <2>3. CASE run_json' = [run |-> run, status |-> "torn", agents |-> {}]
    BY <1>1, <1>2, <2>1, <2>3 DEF IInv, CompletedRunIsWhole
  <2> QED
    BY <1>4, <2>2, <2>3
<1>11. JsonFollowsDatabase'
  BY <1>1, <1>2, <1>4 DEF IInv, JsonFollowsDatabase
<1> QED
  BY <1>5, <1>6, <1>7, <1>8, <1>9, <1>10, <1>11 DEF IInv

LEMMA UnchangedStep == ASSUME IInv, UNCHANGED vars PROVE IInv'
<1>1. /\ at' = at /\ chat' = chat /\ prior' = prior
      /\ run' = run /\ agents_to_run' = agents_to_run /\ reports' = reports
      /\ UNCHANGED <<diskVars, dbVars>>
  BY DEF vars, runVars
<1>2. TypeOK' /\ ChatInv'
  BY <1>1, SameStores DEF IInv, TypeOK, ChatInv
<1>3. RunInv' /\ OrderInv' /\ WrittenInv'
  BY <1>1, SameStores DEF IInv, RunInv, OrderInv, WrittenInv, At, Left, Current
<1> QED
  BY <1>1, <1>2, <1>3, SameStores DEF IInv

LEMMA StepInv == ASSUME IInv, [Next]_vars PROVE IInv'
<1>1. CASE StartRun
  BY <1>1, StartStep
<1>2. CASE ChatResends \/ ChatReprompts
  BY <1>2, ChatStep
<1>3. CASE RouterAnswers \/ RouterFails
  BY <1>3, RouteStep
<1>4. CASE AgentAnswers
  BY <1>4, AnswerStep
<1>5. CASE FileReport
  BY <1>5, FileStep
<1>6. CASE RecordReport
  BY <1>6, RecordStep
<1>7. CASE WriteCompleted \/ WriteFailed
  BY <1>7, JsonStep
<1>8. CASE SetCompleted \/ SetFailed
  BY <1>8, VerdictStep
<1>9. CASE StepFails \/ HandlerFails \/ Crash
  BY <1>9, FailStep
<1>10. CASE UNCHANGED vars
  BY <1>10, UnchangedStep
<1> QED
  BY <1>1, <1>2, <1>3, <1>4, <1>5, <1>6, <1>7, <1>8, <1>9, <1>10 DEF Next, Proceed, Done

-----------------------------------------------------------------------------
\* The invariant of agent runs is inductive, for any number of agents and runs.
THEOREM Invariance == Spec => []IInv
BY Start, StepInv, PTL DEF Spec

\* Every variable keeps its type; in particular a chat posts four times at the most.
THEOREM TypeCorrect == Spec => []TypeOK
<1>1. IInv => TypeOK
  BY DEF IInv
<1> QED
  BY <1>1, Invariance, PTL

\* Synthesis is given the reports of exactly the other agents of its run, and no other
\* agent is given any.
THEOREM SynthesisAlwaysReadsTheOthers == Spec => []SynthesisReadsTheOthers
<1>1. IInv => SynthesisReadsTheOthers
  BY DEF IInv
<1> QED
  BY <1>1, Invariance, PTL

\* A report in the database is in its file, whole, unless a later run replaces it.
THEOREM RecordedIsAlwaysFiled == Spec => []RecordedReportIsFiled
<1>1. IInv => RecordedReportIsFiled
  BY DEF IInv
<1> QED
  BY <1>1, Invariance, PTL

\* A completed run has its synthesis, and agent_run.json agrees while it is the last.
THEOREM CompletedIsAlwaysWhole == Spec => []CompletedRunIsWhole
<1>1. IInv => CompletedRunIsWhole
  BY DEF IInv
<1> QED
  BY <1>1, Invariance, PTL

\* agent_run.json calls no run failed that the database does not, and names no report
\* the database lacks.
THEOREM JsonAlwaysFollows == Spec => []JsonFollowsDatabase
<1>1. IInv => JsonFollowsDatabase
  BY DEF IInv
<1> QED
  BY <1>1, Invariance, PTL

\* A verdict in the database is never taken back, and the "completed" of agent_run.json
\* only of a run that the database calls failed.
THEOREM VerdictAlwaysFinal == Spec => VerdictIsFinal
<1> DEFINE Kept == \A r \in Runs : status[r] \in {"completed", "failed"} => status'[r] = status[r]
           Agreed == run_json.status = "completed" /\ run_json'.run = run_json.run /\ run_json' # run_json =>
                       status[run_json.run] = "failed"
<1>1. ASSUME IInv, [Next]_vars PROVE Kept
  <2>1. CASE status' = status
    BY <2>1
  <2>2. CASE StartRun
    <3>1. status' = [status EXCEPT ![run + 1] = "running"] /\ run + 1 \in Runs /\ run + 1 > run
      BY <1>1, <2>2, AgentAssumption DEF IInv, TypeOK, StartRun, Runs
    <3>2. status[run + 1] = "absent"
      BY <1>1, <3>1 DEF IInv, RunInv
    <3> QED
      BY <1>1, <3>1, <3>2 DEF IInv, TypeOK
  <2>3. CASE SetCompleted \/ SetFailed
    <3>1. status[run] = "running" /\ \E v : status' = [status EXCEPT ![run] = v]
      BY <1>1, <2>3 DEF IInv, RunInv, SetCompleted, SetFailed, At
    <3> QED
      BY <1>1, <3>1 DEF IInv, TypeOK
  <2> QED
    BY <1>1, <2>1, <2>2, <2>3
    DEF Next, Proceed, Done, vars, dbVars, ChatResends, ChatReprompts, RouterAnswers, RouterFails,
        AgentAnswers, FileReport, RecordReport, WriteCompleted, WriteFailed, StepFails, HandlerFails, Crash
<1>2. ASSUME IInv, [Next]_vars PROVE Agreed
  <2>1. CASE run_json' = run_json
    BY <2>1
  <2>2. CASE WriteCompleted \/ WriteFailed \/ StepFails \/ HandlerFails \/ Crash
    <3>1. \/ run_json' = run_json
          \/ at \in {"completing", "reporting"} /\ (MayTearJson \/ \E verdict : WriteJson(verdict))
      BY <2>2 DEF WriteCompleted, WriteFailed, StepFails, HandlerFails, Crash, At
    <3>2. run_json' = run_json \/ (at \in {"completing", "reporting"} /\ run_json'.run = run)
      BY <3>1 DEF MayTearJson, WriteJson
    <3>3. At("reporting") => status[run] = "failed"
      BY <1>2 DEF IInv, RunInv, At
    <3>4. At("completing") => run_json.run # run
      BY <1>2 DEF IInv, TypeOK, WrittenInv, At
    <3> QED
      BY <3>2, <3>3, <3>4 DEF At
  <2> QED
    BY <1>2, <2>1, <2>2
    DEF Next, Proceed, Done, StartRun, vars, diskVars, ChatResends, ChatReprompts, RouterAnswers,
        RouterFails, AgentAnswers, FileReport, RecordReport, SetCompleted, SetFailed
<1>3. IInv /\ [Next]_vars => [Kept /\ Agreed]_vars
  BY <1>1, <1>2
<1> QED
  BY <1>3, Invariance, PTL DEF Spec, VerdictIsFinal
=============================================================================
