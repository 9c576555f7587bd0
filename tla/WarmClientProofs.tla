--------------------------- MODULE WarmClientProofs ---------------------------
(* Proofs about WarmClient for every number of workers, calls, processes and    *)
(* reader threads.                                                              *)
EXTENDS WarmClient, FiniteSetTheorems, TLAPS

(* Groups of variables a step leaves alone keep their types. *)
LEMMA SameCaller == CallerType /\ UNCHANGED clientVars => CallerType'
BY DEF CallerType, clientVars

LEMMA SamePool == PoolType /\ UNCHANGED poolVars => PoolType'
BY DEF PoolType, poolVars

LEMMA SameLife ==
  LifeType /\ UNCHANGED <<processes, startVars, lifeVars>> => LifeType'
BY DEF LifeType, startVars, lifeVars

LEMMA SamePipes == PipeType /\ UNCHANGED pipeVars => PipeType'
BY DEF PipeType, pipeVars

LEMMA SameStderr == StderrType /\ UNCHANGED stderrVars => StderrType'
BY DEF StderrType, stderrVars

\* Changing a function at one argument, to a value of its range, keeps its type.
LEMMA UpdateType ==
  ASSUME NEW S, NEW T, NEW f \in [S -> T], NEW x, NEW y \in T
  PROVE  [f EXCEPT ![x] = y] \in [S -> T]
OBVIOUS

\* Appending an element keeps a sequence's type.
LEMMA AppendType ==
  ASSUME NEW S, NEW q \in Seq(S), NEW x \in S
  PROVE  Append(q, x) \in Seq(S)
OBVIOUS

\* KillWorker, which changes neither the pipes' ends nor stdout, keeps the types.
LEMMA KillWorkerType ==
  ASSUME LifeType, PipeType, NEW w \in Workers, KillWorker(w),
         UNCHANGED <<open, startVars, stdout>>
  PROVE  LifeType' /\ PipeType'
<1>. DEFINE p == processes[w]
<1>0. processes' \in [Workers -> 0..MaxProcs]
  BY CountsAssumption DEF LifeType, KillWorker, NoProc
<1>1. CASE p = NoProc
  <2>1. UNCHANGED <<running, exited, stdin>>
    BY <1>1 DEF KillWorker
  <2>. QED  BY <1>0, <2>1 DEF LifeType, PipeType, startVars
<1>2. CASE p # NoProc
  <2>1. /\ running' = [running EXCEPT ![p] = FALSE]
        /\ exited' = [exited EXCEPT ![p] = TRUE]
        /\ stdin' = [stdin EXCEPT ![p] = <<>>]
    BY <1>2 DEF KillWorker
  <2>. HIDE DEF p
  <2>2. stdin' \in [Procs -> Seq(0..MaxCalls)]
    <3>1. <<>> \in Seq(0..MaxCalls)
      OBVIOUS
    <3>. QED  BY <2>1, <3>1, UpdateType DEF PipeType
  <2>3. running' \in [Procs -> BOOLEAN] /\ exited' \in [Procs -> BOOLEAN]
    BY <2>1 DEF LifeType
  <2>. QED  BY <1>0, <2>2, <2>3 DEF LifeType, PipeType, startVars
<1>. QED  BY <1>1, <1>2

\* Return keeps the types of what it changes.
LEMMA ReturnType ==
  ASSUME CallerType, client.worker \in Workers, Len(results) < MaxCalls,
         NEW outcome \in Outcome, NEW call \in 0..MaxCalls,
         NEW from \in Workers \cup {Nobody}, Return(outcome, call, from),
         UNCHANGED phase
  PROVE  CallerType'
<1>1. [worker |-> client.worker, outcome |-> outcome, call |-> call, from |-> from] \in Result
  BY DEF Result
<1>2. results' \in Seq(Result) /\ Len(results') <= MaxCalls
  BY <1>1, CountsAssumption DEF CallerType, Return
<1>. QED
  BY <1>2, CountsAssumption DEF CallerType, Return, Idle, NoProc

\* Writing a call or the shutdown command keeps the types of the pipes, and
\* submitting the read of its answer those of the pool and the future.
LEMMA WriteType ==
  ASSUME PipeType, NEW p \in Procs, NEW m \in 0..MaxCalls, Write(p, m), UNCHANGED stdout
  PROVE  PipeType'
BY DEF PipeType, Write

LEMMA SubmitType ==
  ASSUME PoolType, NEW p \in Procs, NEW m \in 0..MaxCalls, SubmitRead(p, m), UNCHANGED reading
  PROVE  PoolType' /\ future' = Pending
BY DEF PoolType, SubmitRead, Read

(* Types.  That the number of results stays bounded, and that Return is given a
   worker, takes ClientInv: the call in progress is the one after the last.  *)
LEMMA TypeStep ==
  ASSUME TypeOK, ClientInv, ProcessInv, [Next]_vars
  PROVE  TypeOK'
<1>. USE CountsAssumption
<1>0. CallerType /\ PoolType /\ LifeType /\ PipeType /\ StderrType
  BY DEF TypeOK
<1>0a. ~At("idle") => client.worker \in Workers /\ client.proc \in Procs
  BY <1>0 DEF ClientInv, CallerType, At, Procs, NoProc
<1>0b. client.at \in {"writing", "waiting"} => client.call \in Calls /\ Len(results) < MaxCalls
  BY <1>0 DEF ClientInv, CallerType, NewCall, Calls
<1>0c. \A p \in Procs : p <= started => workerOf[p] \in Workers
  BY DEF ProcessInv
<1>1. ASSUME NEW w \in Workers, ReuseProcess(w) PROVE TypeOK'
  <2>1. NewCall \in 0..MaxCalls
    BY <1>0, <1>1 DEF ReuseProcess, CallerType, NewCall
  <2>2. CallerType'
    BY <1>0, <1>1, <2>1 DEF ReuseProcess, CallerType, LifeType
  <2>. QED  BY <1>0, <1>1, <2>2, SamePool, SameLife, SamePipes, SameStderr DEF ReuseProcess, TypeOK
<1>2. ASSUME NEW w \in Workers, StartProcess(w) PROVE TypeOK'
  <2>0. started + 1 \in Procs /\ NewCall \in 0..MaxCalls
    BY <1>0, <1>2 DEF StartProcess, CallerType, LifeType, NewCall, Procs
  <2>1. CallerType'
    BY <1>0, <1>2, <2>0 DEF StartProcess, CallerType, LifeType, Procs
  <2>2. LifeType'
    BY <1>0, <1>2, <2>0 DEF StartProcess, LifeType, Procs
  <2>3. StderrType'
    <3>1. <<>> \in Seq(Diagnostics)
      OBVIOUS
    <3>. QED  BY <1>0, <1>2, <3>1, UpdateType DEF StartProcess, StderrType
  <2>. QED  BY <1>0, <1>2, <2>1, <2>2, <2>3, SamePool, SamePipes DEF StartProcess, TypeOK
<1>3. ASSUME NEW w \in Workers, CannotStart(w) PROVE TypeOK'
  <2>1. [worker |-> w, outcome |-> "unstarted", call |-> 0, from |-> Nobody] \in Result
    BY DEF Result, Outcome
  <2>2. CallerType'
    BY <1>0, <1>3, <2>1 DEF CannotStart, CallerType
  <2>3. StderrType'
    <3>1. <<>> \in Seq(Diagnostics)
      OBVIOUS
    <3>. QED  BY <1>0, <1>3, <3>1, UpdateType DEF CannotStart, StderrType
  <2>. QED  BY <1>0, <1>3, <2>2, <2>3, SamePool, SamePipes, SameLife DEF CannotStart, TypeOK
<1>4. ASSUME WriteRequest PROVE TypeOK'
  <2>0. client.proc \in Procs /\ client.call \in 0..MaxCalls
    BY <1>0, <1>0a, <1>4 DEF WriteRequest, At, CallerType
  <2>1. PoolType' /\ future' = Pending
    BY <1>0, <1>4, <2>0, SubmitType DEF WriteRequest
  <2>2. CallerType'
    BY <1>0, <1>4, <2>1 DEF WriteRequest, CallerType
  <2>3. PipeType'
    BY <1>0, <1>4, <2>0, WriteType DEF WriteRequest
  <2>. QED  BY <1>0, <1>4, <2>1, <2>2, <2>3, SameLife, SameStderr DEF WriteRequest, TypeOK
<1>5. ASSUME WriteFails PROVE TypeOK'
  <2>0. client.worker \in Workers /\ Len(results) < MaxCalls
    BY <1>0a, <1>0b, <1>5 DEF WriteFails, At
  <2>1. CallerType'
    <3>1. Return("unwritten", 0, Nobody) /\ UNCHANGED phase
      BY <1>5 DEF WriteFails
    <3>. QED  BY <1>0, <2>0, <3>1, ReturnType DEF Outcome
  <2>2. LifeType' /\ PipeType'
    BY <1>0, <1>5, <2>0, KillWorkerType DEF WriteFails
  <2>. QED  BY <1>0, <1>5, <2>1, <2>2, SamePool, SameStderr DEF WriteFails, TypeOK
<1>6. ASSUME PredictReturns PROVE TypeOK'
  <2>0. client.worker \in Workers /\ Len(results) < MaxCalls
    BY <1>0a, <1>0b, <1>6 DEF PredictReturns, At
  <2>1. future.call \in 0..MaxCalls /\ workerOf[client.proc] \in Workers \cup {Nobody}
    BY <1>0, <1>0a, <1>6 DEF PredictReturns, At, CallerType, LifeType, Line, EOF, Pending
  <2>2. \E outcome \in Outcome, call \in 0..MaxCalls, from \in Workers \cup {Nobody} :
          Return(outcome, call, from)
    BY <1>6, <2>1 DEF PredictReturns, Outcome
  <2>3. CallerType'
    BY <1>0, <1>6, <2>0, <2>2, ReturnType DEF PredictReturns
  <2>. QED
    BY <1>0, <1>6, <2>3, SamePool, SamePipes, SameLife, SameStderr DEF PredictReturns, TypeOK
<1>7. ASSUME PredictTimesOut PROVE TypeOK'
  <2>0. client.worker \in Workers /\ Len(results) < MaxCalls
    BY <1>0a, <1>0b, <1>7 DEF PredictTimesOut, At
  <2>1. CallerType'
    <3>1. Return("timeout", 0, Nobody) /\ UNCHANGED phase
      BY <1>7 DEF PredictTimesOut
    <3>. QED  BY <1>0, <2>0, <3>1, ReturnType DEF Outcome
  <2>2. LifeType' /\ PipeType'
    BY <1>0, <1>7, <2>0, KillWorkerType DEF PredictTimesOut
  <2>. QED  BY <1>0, <1>7, <2>1, <2>2, SamePool, SameStderr DEF PredictTimesOut, TypeOK
<1>8. ASSUME NEW w \in Workers, BeginShutdown(w) PROVE TypeOK'
  <2>0. processes[w] \in Procs /\ Shutdown \in 0..MaxCalls
    BY <1>0, <1>8 DEF BeginShutdown, LifeType, Procs, NoProc, Shutdown
  <2>1. PoolType' /\ future' = Pending
    BY <1>0, <1>8, <2>0, SubmitType DEF BeginShutdown
  <2>2. CallerType'
    BY <1>0, <1>8, <2>0, <2>1 DEF BeginShutdown, CallerType, Procs
  <2>3. PipeType'
    BY <1>0, <1>8, <2>0, WriteType DEF BeginShutdown
  <2>. QED  BY <1>0, <1>8, <2>1, <2>2, <2>3, SameLife, SameStderr DEF BeginShutdown, TypeOK
<1>9. ASSUME NEW w \in Workers, ShutdownBroken(w) PROVE TypeOK'
  <2>1. LifeType' /\ PipeType'
    BY <1>0, <1>9, KillWorkerType DEF ShutdownBroken
  <2>. QED  BY <1>0, <1>9, <2>1, SameCaller, SamePool, SameStderr DEF ShutdownBroken, TypeOK
<1>10. ASSUME ShutdownHeard PROVE TypeOK'
  <2>1. CallerType'
    BY <1>0, <1>10 DEF ShutdownHeard, CallerType
  <2>. QED
    BY <1>0, <1>10, <2>1, SamePool, SamePipes, SameLife, SameStderr DEF ShutdownHeard, TypeOK
<1>11. ASSUME ShutdownReaped PROVE TypeOK'
  <2>1. CallerType'
    BY <1>0, <1>11 DEF ShutdownReaped, CallerType, Idle, NoProc
  <2>2. LifeType'
    <3>1. processes' \in [Workers -> 0..MaxProcs]
      <4>1. NoProc \in 0..MaxProcs
        BY DEF NoProc
      <4>. QED  BY <1>0, <1>11, <4>1, UpdateType DEF ShutdownReaped, LifeType
    <3>. QED  BY <1>0, <1>11, <3>1 DEF ShutdownReaped, LifeType, lifeVars, startVars
  <2>. QED
    BY <1>0, <1>11, <2>1, <2>2, SamePool, SamePipes, SameStderr DEF ShutdownReaped, TypeOK
<1>12. ASSUME ShutdownTimesOut PROVE TypeOK'
  <2>1. CallerType'
    BY <1>0, <1>12 DEF ShutdownTimesOut, CallerType, Idle, NoProc
  <2>2. LifeType' /\ PipeType'
    BY <1>0, <1>0a, <1>12, KillWorkerType DEF ShutdownTimesOut, At
  <2>. QED  BY <1>0, <1>12, <2>1, <2>2, SamePool, SameStderr DEF ShutdownTimesOut, TypeOK
<1>13. ASSUME BeginClose PROVE TypeOK'
  <2>1. CallerType'
    BY <1>0, <1>13 DEF BeginClose, CallerType
  <2>. QED
    BY <1>0, <1>13, <2>1, SamePool, SamePipes, SameLife, SameStderr DEF BeginClose, TypeOK
<1>14. ASSUME FinishClose PROVE TypeOK'
  <2>1. CallerType' /\ PoolType'
    BY <1>0, <1>14 DEF FinishClose, CallerType, PoolType
  <2>. QED  BY <1>0, <1>14, <2>1, SamePipes, SameLife, SameStderr DEF FinishClose, TypeOK
<1>15. ASSUME StartRead PROVE TypeOK'
  <2>1. Head(queue) \in Read /\ Tail(queue) \in Seq(Read)
    BY <1>0, <1>15 DEF StartRead, PoolType
  <2>2. IsFiniteSet(reading') /\ Cardinality(reading') <= PoolSize
    <3>1. /\ IsFiniteSet(reading \cup {Head(queue)})
          /\ Cardinality(reading \cup {Head(queue)}) \in {Cardinality(reading), Cardinality(reading) + 1}
          /\ Cardinality(reading) \in Nat
      <4>1. IsFiniteSet(reading)
        BY <1>0 DEF PoolType
      <4>. QED  BY <4>1, FS_AddElement, FS_CardinalityType, Zenon
    <3>. QED  BY <1>15, <3>1 DEF StartRead
  <2>3. PoolType'
    BY <1>0, <1>15, <2>1, <2>2 DEF StartRead, PoolType
  <2>. QED
    BY <1>0, <1>15, <2>3, SameCaller, SamePipes, SameLife, SameStderr DEF StartRead, TypeOK
<1>16. ASSUME NEW r \in reading, FinishRead(r) PROVE TypeOK'
  <2>0. r \in Read /\ r.proc \in Procs
    BY <1>0 DEF PoolType, Read
  <2>1. IsFiniteSet(reading') /\ Cardinality(reading') <= PoolSize
    <3>1. IsFiniteSet(reading) /\ Cardinality(reading) <= PoolSize
      BY <1>0 DEF PoolType
    <3>2. /\ IsFiniteSet(reading \ {r})
          /\ Cardinality(reading \ {r}) = Cardinality(reading) - 1
          /\ Cardinality(reading) \in Nat
      BY <3>1, FS_RemoveElement, FS_CardinalityType
    <3>. QED  BY <1>16, <3>1, <3>2 DEF FinishRead
  <2>2. PoolType'
    BY <1>0, <1>16, <2>1 DEF FinishRead, PoolType
  <2>3. stdout[r.proc] # <<>> =>
           Head(stdout[r.proc]) \in Line /\ Tail(stdout[r.proc]) \in Seq(Line)
    BY <1>0, <2>0 DEF PipeType
  <2>4. CallerType'
    BY <1>0, <1>16, <2>3 DEF FinishRead, CallerType
  <2>5. PipeType'
    BY <1>0, <1>16, <2>0, <2>3, UpdateType DEF FinishRead, PipeType
  <2>. QED  BY <1>0, <1>16, <2>2, <2>4, <2>5, SameLife, SameStderr DEF FinishRead, TypeOK
<1>17. ASSUME NEW p \in Procs, RelayStderr(p) PROVE TypeOK'
  <2>1. relayed[p] + 1 \in 0..MaxLog
    BY <1>0, <1>17 DEF RelayStderr, StderrType
  <2>2. relayed' \in [Procs -> 0..MaxLog]
    BY <1>0, <1>17, <2>1, UpdateType DEF RelayStderr, StderrType
  <2>3. stderr_buffers' \in [Workers -> Seq(Diagnostics)]
    <3>1. CASE workerOf[p] \in Workers
      <4>1. stderr_buffers[workerOf[p]] \in Seq(Diagnostics)
        BY <1>0, <3>1 DEF StderrType
      <4>2. Diagnostic(p, relayed[p] + 1) \in Diagnostics
        BY <1>0, <2>1 DEF Diagnostic, Diagnostics, StderrType
      <4>3. Append(stderr_buffers[workerOf[p]], Diagnostic(p, relayed[p] + 1)) \in Seq(Diagnostics)
        BY <4>1, <4>2, AppendType
      <4>. QED  BY <1>0, <1>17, <4>3, UpdateType DEF RelayStderr, StderrType
    <3>2. CASE workerOf[p] \notin Workers
      <4>1. stderr_buffers' = stderr_buffers
        BY <1>0, <1>17, <3>2 DEF RelayStderr, StderrType
      <4>. QED  BY <1>0, <4>1 DEF StderrType
    <3>. QED  BY <3>1, <3>2
  <2>4. StderrType'
    BY <1>0, <1>17, <2>2, <2>3 DEF RelayStderr, StderrType
  <2>. QED
    BY <1>0, <1>17, <2>4, SameCaller, SamePool, SamePipes, SameLife DEF RelayStderr, TypeOK
<1>18. ASSUME NEW p \in Procs, DaemonAnswers(p) PROVE TypeOK'
  <2>1. Head(stdin[p]) \in 0..MaxCalls /\ Tail(stdin[p]) \in Seq(0..MaxCalls)
    BY <1>0, <1>18 DEF DaemonAnswers, PipeType
  <2>2. PICK kind \in {"forecast", "error", "undecodable"} :
          stdout' = [stdout EXCEPT ![p] = Append(@, [kind |-> kind, call |-> Head(stdin[p])])]
    BY <1>18 DEF DaemonAnswers
  <2>3. Append(stdout[p], [kind |-> kind, call |-> Head(stdin[p])]) \in Seq(Line)
    <3>1. [kind |-> kind, call |-> Head(stdin[p])] \in Line
      BY <2>1 DEF Line
    <3>. QED  BY <1>0, <3>1, AppendType DEF PipeType
  <2>4. PipeType'
    BY <1>0, <1>18, <2>1, <2>2, <2>3, UpdateType DEF DaemonAnswers, PipeType
  <2>. QED
    BY <1>0, <1>18, <2>4, SameCaller, SamePool, SameLife, SameStderr DEF DaemonAnswers, TypeOK
<1>19. ASSUME NEW p \in Procs, DaemonStops(p) PROVE TypeOK'
  <2>0. PICK kind \in {"bye", "undecodable"} :
          stdout' = [stdout EXCEPT ![p] = Append(@, [kind |-> kind, call |-> Shutdown])]
    BY <1>19 DEF DaemonStops
  <2>1. Append(stdout[p], [kind |-> kind, call |-> Shutdown]) \in Seq(Line) /\ <<>> \in Seq(0..MaxCalls)
    <3>1. [kind |-> kind, call |-> Shutdown] \in Line
      BY DEF Line, Shutdown
    <3>2. <<>> \in Seq(0..MaxCalls)
      OBVIOUS
    <3>. QED  BY <1>0, <3>1, <3>2, AppendType DEF PipeType
  <2>2. PipeType'
    BY <1>0, <1>19, <2>0, <2>1, UpdateType DEF DaemonStops, PipeType
  <2>3. LifeType'
    BY <1>0, <1>19 DEF DaemonStops, LifeType, startVars
  <2>. QED
    BY <1>0, <1>19, <2>2, <2>3, SameCaller, SamePool, SameStderr DEF DaemonStops, TypeOK
<1>20. ASSUME NEW p \in Procs, DaemonDies(p) PROVE TypeOK'
  <2>1. Append(stdout[p], [kind |-> "torn", call |-> 0]) \in Seq(Line) /\ <<>> \in Seq(0..MaxCalls)
    <3>1. [kind |-> "torn", call |-> 0] \in Line
      BY DEF Line, Shutdown
    <3>2. <<>> \in Seq(0..MaxCalls)
      OBVIOUS
    <3>. QED  BY <1>0, <3>1, <3>2, AppendType DEF PipeType
  <2>2. PipeType'
    BY ZenonT(30), <1>0, <1>20, <2>1, UpdateType DEF DaemonDies, PipeType
  <2>3. LifeType'
    BY <1>0, <1>20 DEF DaemonDies, LifeType, startVars
  <2>. QED
    BY <1>0, <1>20, <2>2, <2>3, SameCaller, SamePool, SameStderr DEF DaemonDies, TypeOK
<1>21. ASSUME NEW p \in Procs, PipesClose(p) \/ Exits(p) PROVE TypeOK'
  <2>1. LifeType'
    BY <1>0, <1>21 DEF PipesClose, Exits, LifeType, startVars
  <2>. QED
    BY <1>0, <1>21, <2>1, SameCaller, SamePool, SamePipes, SameStderr DEF PipesClose, Exits, TypeOK
<1>22. ASSUME NEW p \in Procs, DaemonLogs(p) PROVE TypeOK'
  <2>1. StderrType'
    BY <1>0, <1>22 DEF DaemonLogs, StderrType
  <2>. QED
    BY <1>0, <1>22, <2>1, SameCaller, SamePool, SamePipes, SameLife DEF DaemonLogs, TypeOK
<1>23. ASSUME ShutdownRaises PROVE TypeOK'
  <2>1. CallerType'
    BY <1>0, <1>23 DEF ShutdownRaises, CallerType, Idle, NoProc
  <2>2. LifeType'
    <3>1. processes' \in [Workers -> 0..MaxProcs]
      <4>1. NoProc \in 0..MaxProcs
        BY DEF NoProc
      <4>. QED  BY <1>0, <1>23, <4>1, UpdateType DEF ShutdownRaises, LifeType
    <3>2. exited' \in [Procs -> BOOLEAN]
      BY <1>0, <1>23 DEF ShutdownRaises, LifeType
    <3>. QED  BY <1>0, <1>23, <3>1, <3>2 DEF ShutdownRaises, LifeType, startVars
  <2>. QED
    BY <1>0, <1>23, <2>1, <2>2, SamePool, SamePipes, SameStderr DEF ShutdownRaises, TypeOK
<1>24. ASSUME UNCHANGED vars PROVE TypeOK'
  BY <1>0, <1>24, SameCaller, SamePool, SamePipes, SameLife, SameStderr DEF vars, TypeOK
<1>. QED
  BY <1>1, <1>2, <1>3, <1>4, <1>5, <1>6, <1>7, <1>8, <1>9, <1>10, <1>11, <1>12, <1>13, <1>14,
     <1>15, <1>16, <1>17, <1>18, <1>19, <1>20, <1>21, <1>22, <1>23, <1>24
  DEF Next, Predict, Stop, Threads, Daemons, Closed

-----------------------------------------------------------------------------
(* ProcessInv: a running daemon is the registered one of its worker. *)

LEMMA SameProcess ==
  ProcessInv /\ UNCHANGED <<processes, startVars, lifeVars, pipeVars>> => ProcessInv'
BY DEF ProcessInv, Unstarted, startVars, lifeVars, pipeVars

LEMMA KillWorkerProcess ==
  ASSUME TypeOK, ProcessInv, NEW w \in Workers, KillWorker(w),
         UNCHANGED <<open, startVars, stdout>>
  PROVE  ProcessInv'
<1>0. PICK p \in 0..MaxProcs : p = processes[w]
  BY DEF TypeOK, LifeType
<1>1. CASE p = NoProc
  <2>1. UNCHANGED <<running, exited, stdin>> /\ processes' = processes
    BY <1>0, <1>1 DEF KillWorker, TypeOK, LifeType
  <2>. QED  BY <2>1 DEF ProcessInv, Unstarted, startVars
<1>2. CASE p # NoProc
  <2>1. p \in Procs /\ p <= started /\ workerOf[p] = w
    BY <1>0, <1>2, CountsAssumption DEF ProcessInv, TypeOK, LifeType, Procs, NoProc
  <2>2. /\ running' = [running EXCEPT ![p] = FALSE]
        /\ exited' = [exited EXCEPT ![p] = TRUE]
        /\ stdin' = [stdin EXCEPT ![p] = <<>>]
        /\ processes' = [processes EXCEPT ![w] = NoProc]
    BY <1>0, <1>2 DEF KillWorker
  <2>3. ~running'[p]
    BY <2>1, <2>2 DEF TypeOK, LifeType
  <2>4. \A q \in Procs : q # p => /\ (Unstarted(q) => Unstarted(q)') /\ (~running[q] => ~running'[q])
                                  /\ running'[q] = running[q] /\ exited'[q] = exited[q]
    BY <2>1, <2>2 DEF Unstarted, TypeOK, LifeType, PipeType
  <2>5. /\ processes'[w] = NoProc
        /\ \A v \in Workers : v # w => processes'[v] = processes[v]
    BY <2>2 DEF TypeOK, LifeType
  <2>6. p # NoProc
    BY <2>1 DEF Procs, NoProc
  <2>7. \A q \in Procs : q > started' => Unstarted(q)'
    BY <2>1, <2>4 DEF ProcessInv, TypeOK, LifeType, Procs, startVars
  <2>8. \A q \in Procs : q <= started' =>
          workerOf'[q] \in Workers /\ (running'[q] => processes'[workerOf'[q]] = q)
    <3> SUFFICES ASSUME NEW q \in Procs, q <= started
                 PROVE  workerOf[q] \in Workers /\ (running'[q] => processes'[workerOf[q]] = q)
      BY DEF startVars
    <3>1. CASE q = p
      BY <2>1, <2>3, <3>1
    <3>2. CASE q # p
      <4>1. workerOf[q] = w => processes[w] # q
        BY <1>0, <3>2
      <4>. QED  BY <2>4, <2>5, <3>2, <4>1 DEF ProcessInv
    <3>. QED  BY <3>1, <3>2
  <2>9. \A q \in Procs : exited'[q] => ~running'[q]
    BY <2>3, <2>4 DEF ProcessInv
  <2>10. \A v \in Workers : processes'[v] # NoProc =>
           processes'[v] <= started' /\ workerOf'[processes'[v]] = v
    BY <2>5 DEF ProcessInv, Unstarted, startVars
  <2>. QED  BY <2>7, <2>8, <2>9, <2>10 DEF ProcessInv
<1>. QED  BY <1>1, <1>2

LEMMA ProcessStep ==
  ASSUME TypeOK, ProcessInv, ClientInv, StopInv, [Next]_vars
  PROVE  ProcessInv'
<1>. USE CountsAssumption
<1>0. ~At("idle") => client.worker \in Workers /\ client.proc \in Procs /\ client.proc <= started
  BY DEF TypeOK, CallerType, LifeType, ClientInv, ProcessInv, At, Procs, NoProc
<1>0a. \A w \in Workers : processes[w] # NoProc => processes[w] \in Procs /\ processes[w] <= started
  BY DEF TypeOK, LifeType, ProcessInv, Procs, NoProc
<1>1. ASSUME NEW w \in Workers, ReuseProcess(w) \/ CannotStart(w) PROVE ProcessInv'
  BY <1>1, SameProcess DEF ReuseProcess, CannotStart
<1>2. ASSUME NEW w \in Workers, StartProcess(w) PROVE ProcessInv'
  <2>1. started + 1 \in Procs
    BY <1>2 DEF StartProcess, TypeOK, LifeType, Procs
  <2>2. processes[w] # NoProc => exited[processes[w]] /\ ~running[processes[w]]
    BY <1>0a, <1>2 DEF StartProcess, ProcessInv
  <2>3. /\ started' = started + 1
        /\ processes'[w] = started + 1
        /\ \A v \in Workers : v # w => processes'[v] = processes[v]
        /\ workerOf'[started + 1] = w
        /\ \A q \in Procs : q # started + 1 => workerOf'[q] = workerOf[q]
    BY <1>2, <2>1 DEF StartProcess, TypeOK, LifeType
  <2>4. /\ \A q \in Procs : q # started + 1 =>
             (Unstarted(q) => Unstarted(q)') /\ (~running[q] => ~running'[q])
        /\ \A q \in Procs : q # started + 1 => running'[q] = running[q]
        /\ exited' = exited
    BY <1>2, <2>1 DEF StartProcess, Unstarted, TypeOK, LifeType, pipeVars
  <2>5. ~exited[started + 1]
    BY <2>1 DEF ProcessInv, Unstarted, TypeOK, LifeType
  <2>6. \A q \in Procs : q > started' => Unstarted(q)'
    <3> SUFFICES ASSUME NEW q \in Procs, q > started + 1 PROVE Unstarted(q)'
      BY <2>3
    <3>1. q > started /\ q # started + 1
      BY DEF TypeOK, LifeType, Procs
    <3>. QED  BY <2>4, <3>1 DEF ProcessInv
  <2>7. \A q \in Procs : q <= started' =>
          workerOf'[q] \in Workers /\ (running'[q] => processes'[workerOf'[q]] = q)
    <3> SUFFICES ASSUME NEW q \in Procs, q <= started + 1
                 PROVE  workerOf'[q] \in Workers /\ (running'[q] => processes'[workerOf'[q]] = q)
      BY <2>3
    <3>1. CASE q = started + 1
      BY <2>3, <3>1
    <3>2. CASE q # started + 1
      <4>1. q <= started
        BY <3>2 DEF TypeOK, LifeType, Procs
      <4>2. workerOf[q] = w /\ processes[w] = q => ~running[q]
        BY <2>2 DEF Procs, NoProc
      <4>. QED  BY <2>3, <2>4, <3>2, <4>1, <4>2 DEF ProcessInv
    <3>. QED  BY <3>1, <3>2
  <2>8. \A q \in Procs : exited'[q] => ~running'[q]
    BY <2>4, <2>5 DEF ProcessInv
  <2>9. \A v \in Workers : processes'[v] # NoProc =>
          processes'[v] <= started' /\ workerOf'[processes'[v]] = v
    <3> SUFFICES ASSUME NEW v \in Workers, processes'[v] # NoProc
                 PROVE  processes'[v] <= started' /\ workerOf'[processes'[v]] = v
      OBVIOUS
    <3>1. CASE v = w
      BY <2>1, <2>3, <3>1 DEF Procs
    <3>2. CASE v # w
      <4>1. processes'[v] \in Procs /\ processes'[v] <= started /\ workerOf[processes'[v]] = v
        BY <1>0a, <2>3, <3>2 DEF ProcessInv
      <4>. QED  BY <2>3, <4>1 DEF TypeOK, LifeType, Procs
    <3>. QED  BY <3>1, <3>2
  <2>. QED  BY <2>6, <2>7, <2>8, <2>9 DEF ProcessInv
<1>3. ASSUME WriteRequest \/ \E w \in Workers : BeginShutdown(w) PROVE ProcessInv'
  <2>1. PICK q \in Procs, m \in 0..MaxCalls : Write(q, m) /\ q <= started
    BY <1>0, <1>0a, <1>3 DEF WriteRequest, BeginShutdown, At, TypeOK, CallerType, Shutdown
  <2>2. UNCHANGED <<processes, startVars, lifeVars, stdout>>
    BY <1>3 DEF WriteRequest, BeginShutdown
  <2>. QED  BY <2>1, <2>2 DEF Write, ProcessInv, Unstarted, TypeOK, PipeType, LifeType, startVars, lifeVars
<1>4. ASSUME WriteFails \/ PredictTimesOut \/ ShutdownTimesOut PROVE ProcessInv'
  <2>1. KillWorker(client.worker) /\ client.worker \in Workers
      /\ UNCHANGED <<open, startVars, stdout>>
    BY <1>0, <1>4 DEF WriteFails, PredictTimesOut, ShutdownTimesOut, At
  <2>. QED  BY <2>1, KillWorkerProcess
<1>5. ASSUME NEW w \in Workers, ShutdownBroken(w) PROVE ProcessInv'
  BY <1>5, KillWorkerProcess DEF ShutdownBroken
<1>6. ASSUME ShutdownReaped PROVE ProcessInv'
  <2>1. /\ client.worker \in Workers /\ processes[client.worker] = client.proc
        /\ exited[client.proc] /\ ~running[client.proc] /\ workerOf[client.proc] = client.worker
    BY <1>0, <1>6 DEF ShutdownReaped, At, ClientInv, ProcessInv, NoProc
  <2>. QED
    BY <1>6, <2>1 DEF ShutdownReaped, ProcessInv, Unstarted, TypeOK, LifeType, startVars, lifeVars, pipeVars, NoProc
<1>7. ASSUME PredictReturns \/ ShutdownHeard \/ BeginClose \/ FinishClose \/ StartRead PROVE ProcessInv'
  BY <1>7, SameProcess DEF PredictReturns, ShutdownHeard, BeginClose, FinishClose, StartRead
<1>8. ASSUME NEW r \in reading, FinishRead(r) PROVE ProcessInv'
  BY <1>8 DEF FinishRead, ProcessInv, Unstarted, TypeOK, PipeType, startVars, lifeVars
<1>9. ASSUME NEW p \in Procs, RelayStderr(p) \/ DaemonLogs(p) PROVE ProcessInv'
  BY <1>9, SameProcess DEF RelayStderr, DaemonLogs
<1>10. ASSUME NEW p \in Procs, DaemonAnswers(p) PROVE ProcessInv'
  <2>1. p <= started
    BY <1>10 DEF DaemonAnswers, ProcessInv, Unstarted, TypeOK, LifeType, Procs
  <2>. QED
    BY <1>10, <2>1 DEF DaemonAnswers, ProcessInv, Unstarted, TypeOK, PipeType, startVars, lifeVars
<1>11. ASSUME NEW p \in Procs, DaemonStops(p) \/ DaemonDies(p) PROVE ProcessInv'
  <2>1. p <= started
    BY <1>11 DEF DaemonStops, DaemonDies, ProcessInv, Unstarted, TypeOK, LifeType, Procs
  <2>2. /\ \A q \in Procs : q # p => /\ stdin'[q] = stdin[q] /\ stdout'[q] = stdout[q]
                                    /\ running'[q] = running[q]
        /\ ~running'[p]
        /\ UNCHANGED <<open, exited, startVars, processes>>
    <3>1. CASE DaemonStops(p)
      BY <3>1 DEF DaemonStops, TypeOK, PipeType, LifeType
    <3>2. CASE DaemonDies(p)
      BY <3>2 DEF DaemonDies, TypeOK, PipeType, LifeType
    <3>. QED  BY <1>11, <3>1, <3>2
  <2>3. \A q \in Procs : q > started => Unstarted(q)'
    <3> SUFFICES ASSUME NEW q \in Procs, q > started PROVE Unstarted(q)'
      OBVIOUS
    <3>1. Unstarted(q) /\ q # p
      BY <2>1 DEF ProcessInv, TypeOK, LifeType, Procs
    <3>. QED  BY <2>2, <3>1 DEF Unstarted
  <2>4. \A q \in Procs : /\ ~running[q] => ~running'[q]
                         /\ exited'[q] => ~running'[q]
    BY <2>2 DEF ProcessInv
  <2>. QED
    BY <2>2, <2>3, <2>4 DEF ProcessInv, startVars
<1>12. ASSUME NEW p \in Procs, PipesClose(p) \/ Exits(p) PROVE ProcessInv'
  <2>1. UNCHANGED <<started, workerOf, processes, running, stdin, stdout>>
    BY <1>12 DEF PipesClose, Exits, startVars, pipeVars
  <2>2. \A q \in Procs : Unstarted(q) /\ q > started => Unstarted(q)'
    BY <1>12, <2>1 DEF PipesClose, Exits, Unstarted, TypeOK, LifeType, Procs
  <2>3. \A q \in Procs : exited'[q] => ~running[q]
    BY <1>12 DEF PipesClose, Exits, ProcessInv, TypeOK, LifeType
  <2>. QED  BY <2>1, <2>2, <2>3 DEF ProcessInv
<1>13. ASSUME ShutdownRaises PROVE ProcessInv'
  <2>1. /\ client.worker \in Workers /\ processes[client.worker] = client.proc
        /\ client.proc \in Procs /\ client.proc <= started
        /\ ~running[client.proc] /\ workerOf[client.proc] = client.worker
    <3>1. future # Pending
      BY <1>13 DEF ShutdownRaises, Pending
    <3>. QED  BY <1>0, <1>13, <3>1 DEF ShutdownRaises, At, ClientInv, ProcessInv, StopInv, NoProc
  <2>2. /\ processes' = [processes EXCEPT ![client.worker] = NoProc]
        /\ exited' = [exited EXCEPT ![client.proc] = TRUE]
        /\ UNCHANGED <<running, open, stdin, stdout, started, workerOf>>
    BY <1>13 DEF ShutdownRaises, pipeVars, startVars
  <2>3. \A q \in Procs : q > started => Unstarted(q)'
    <3> SUFFICES ASSUME NEW q \in Procs, q > started PROVE Unstarted(q)'
      OBVIOUS
    <3>1. Unstarted(q) /\ q # client.proc
      BY <2>1 DEF ProcessInv, TypeOK, LifeType, Procs
    <3>. QED  BY <2>2, <3>1 DEF Unstarted, TypeOK, LifeType
  <2>4. \A q \in Procs : exited'[q] => ~running[q]
    BY <2>1, <2>2 DEF ProcessInv, TypeOK, LifeType
  <2>5. \A q \in Procs : q <= started =>
          workerOf[q] \in Workers /\ (running[q] => processes'[workerOf[q]] = q)
    BY <2>1, <2>2 DEF ProcessInv, TypeOK, LifeType
  <2>6. \A v \in Workers : processes'[v] # NoProc =>
          processes'[v] <= started /\ workerOf[processes'[v]] = v
    BY <2>2 DEF ProcessInv, TypeOK, LifeType
  <2>. QED  BY <2>2, <2>3, <2>4, <2>5, <2>6 DEF ProcessInv
<1>14. ASSUME UNCHANGED vars PROVE ProcessInv'
  BY <1>14, SameProcess DEF vars
<1>. QED
  BY <1>1, <1>2, <1>3, <1>4, <1>5, <1>6, <1>7, <1>8, <1>9, <1>10, <1>11, <1>12, <1>13, <1>14
  DEF Next, Predict, Stop, Threads, Daemons, Closed

-----------------------------------------------------------------------------
(* ClientInv: where the caller is determines what it works on. *)

LEMMA ClientStep ==
  ASSUME TypeOK, ProcessInv, ClientInv, [Next]_vars
  PROVE  ClientInv'
<1>. USE CountsAssumption DEF At
<1>1. ASSUME NEW w \in Workers, ReuseProcess(w) PROVE ClientInv'
  BY <1>1 DEF ReuseProcess, ClientInv, NewCall, poolVars
<1>2. ASSUME NEW w \in Workers, StartProcess(w) PROVE ClientInv'
  BY <1>2 DEF StartProcess, ClientInv, NewCall, TypeOK, LifeType, poolVars, NoProc
<1>3. ASSUME NEW w \in Workers, CannotStart(w) PROVE ClientInv'
  BY <1>3 DEF CannotStart, ClientInv, Idle, poolVars
<1>4. ASSUME WriteRequest PROVE ClientInv'
  BY <1>4 DEF WriteRequest, ClientInv, NewCall, TypeOK, CallerType, SubmitRead
<1>5. ASSUME WriteFails \/ PredictTimesOut PROVE ClientInv'
  <2>1. client' = Idle /\ future' = Pending /\ phase' = phase /\ phase = "open"
    BY <1>5 DEF WriteFails, PredictTimesOut, Return, ClientInv
  <2>. QED  BY <2>1 DEF ClientInv, Idle
<1>6. ASSUME PredictReturns PROVE ClientInv'
  <2>1. client' = Idle /\ future' = Pending /\ phase' = phase /\ phase = "open"
    BY <1>6 DEF PredictReturns, Return, ClientInv
  <2>. QED  BY <2>1 DEF ClientInv, Idle
<1>7. ASSUME NEW w \in Workers, BeginShutdown(w) PROVE ClientInv'
  BY <1>7 DEF BeginShutdown, ClientInv, SubmitRead, NoProc
<1>8. ASSUME NEW w \in Workers, ShutdownBroken(w) PROVE ClientInv'
  BY <1>8 DEF ShutdownBroken, ClientInv, Idle, NewCall, clientVars
<1>9. ASSUME ShutdownHeard PROVE ClientInv'
  BY <1>9 DEF ShutdownHeard, ClientInv, NewCall, TypeOK, CallerType, poolVars
<1>10. ASSUME ShutdownReaped \/ ShutdownTimesOut \/ ShutdownRaises PROVE ClientInv'
  <2>1. client' = Idle /\ future' = Pending /\ phase' # "closed"
    BY <1>10 DEF ShutdownReaped, ShutdownTimesOut, ShutdownRaises, ClientInv
  <2>. QED  BY <2>1 DEF ClientInv, Idle
<1>11. ASSUME BeginClose \/ FinishClose PROVE ClientInv'
  BY <1>11 DEF BeginClose, FinishClose, ClientInv, Idle
<1>12. ASSUME StartRead PROVE ClientInv'
  <2>1. phase # "closed"
    BY <1>12 DEF StartRead, ClientInv
  <2>. QED  BY <1>12, <2>1 DEF StartRead, ClientInv, NewCall, clientVars
<1>13. ASSUME NEW r \in reading, FinishRead(r) PROVE ClientInv'
  BY <1>13 DEF FinishRead, ClientInv, NewCall
<1>14. ASSUME UNCHANGED <<clientVars, queue, processes>> PROVE ClientInv'
  BY <1>14 DEF ClientInv, NewCall, clientVars
<1>15. ASSUME \/ \E p \in Procs : RelayStderr(p)
              \/ Daemons
              \/ UNCHANGED vars
       PROVE  UNCHANGED <<clientVars, queue, processes>>
  BY <1>15 DEF Daemons, RelayStderr, DaemonAnswers, DaemonStops, DaemonDies, PipesClose, Exits,
     DaemonLogs, vars, poolVars
<1>. QED
  BY <1>1, <1>2, <1>3, <1>4, <1>5, <1>6, <1>7, <1>8, <1>9, <1>10, <1>11, <1>12, <1>13, <1>14, <1>15
  DEF Next, Predict, Stop, Threads, Closed

-----------------------------------------------------------------------------
(* PipeInv and ReadInv: the pipes and the reads of a registered process. *)

\* Steps that leave the registration, the caller and its future alone leave
\* open which processes are registered and which is awaited.
LEMMA SameAwaiting ==
  ASSUME UNCHANGED <<processes, client, future>>, NEW p
  PROVE  /\ Registered(p)' <=> Registered(p)
         /\ Awaiting(p)' <=> Awaiting(p)
BY DEF Registered, Awaiting

\* KillWorker takes the awaited process out of the registered ones and leaves the
\* others registered; nothing is awaited afterwards.
LEMMA KillWorkerPipes ==
  ASSUME TypeOK, ProcessInv, ClientInv, PipeInv, ReadInv, NEW w \in Workers, KillWorker(w),
         client' = Idle, future' = Pending, UNCHANGED <<stdout, poolVars, started>>,
         client.at # "idle" => w = client.worker
  PROVE  PipeInv' /\ ReadInv'
<1>. USE CountsAssumption
<1>1. \A p \in Procs : ~Awaiting(p)'
  BY DEF Awaiting, Idle
<1>2. \A p \in Procs : Registered(p)' => Registered(p) /\ p # processes[w]
  <2> SUFFICES ASSUME NEW p \in Procs, NEW v \in Workers, processes'[v] = p
               PROVE  Registered(p) /\ p # processes[w]
    BY DEF Registered
  <2>1. processes' = [processes EXCEPT ![w] = NoProc]
    BY DEF KillWorker
  <2>2. v # w /\ processes[v] = p
    BY <2>1 DEF TypeOK, LifeType, Procs, NoProc
  <2>3. processes[w] = p => workerOf[p] = v /\ workerOf[p] = w
    BY <2>2 DEF ProcessInv, Procs, NoProc
  <2>. QED  BY <2>2, <2>3 DEF Registered
<1>3. \A p \in Procs : Registered(p)' => ~Awaiting(p)
  <2> SUFFICES ASSUME NEW p \in Procs, Registered(p)', Awaiting(p) PROVE FALSE
    OBVIOUS
  <2>1. client.at # "idle" /\ client.proc = p /\ w = client.worker
    BY DEF Awaiting
  <2>2. processes[w] = p
    BY <2>1 DEF ClientInv, At
  <2>. QED  BY <1>2, <2>2
<1>4. \A p \in Procs : Registered(p)' => stdin'[p] = <<>> /\ stdout'[p] = <<>>
  <2> SUFFICES ASSUME NEW p \in Procs, Registered(p)'
               PROVE  stdin'[p] = <<>> /\ stdout'[p] = <<>>
    OBVIOUS
  <2>1. stdin[p] = <<>> /\ stdout[p] = <<>>
    BY <1>2, <1>3 DEF PipeInv
  <2>2. stdin'[p] = stdin[p]
    BY <1>2 DEF KillWorker, TypeOK, PipeType
  <2>. QED  BY <2>1, <2>2
<1>5. PipeInv'
  BY <1>1, <1>4 DEF PipeInv, Pending
<1>6. \A r \in reading : r.proc \in Procs /\ ~Registered(r.proc)'
  BY <1>2, <1>3 DEF ReadInv, TypeOK, PoolType, Read
<1>7. \A i \in 1..Len(queue) : queue[i].proc \in Procs /\ ~Registered(queue[i].proc)'
  <2>1. \A i \in 1..Len(queue) : queue[i] \in Read
    BY DEF TypeOK, PoolType
  <2>2. \A i \in 1..Len(queue) : queue[i].proc \in Procs
    BY <2>1 DEF Read
  <2> SUFFICES ASSUME NEW i \in 1..Len(queue), Registered(queue[i].proc)' PROVE FALSE
    BY <2>2
  <2>3. PICK p \in Procs : p = queue[i].proc
    BY <2>2
  <2>4. queue' = queue
    BY DEF poolVars
  <2>5. Registered(p)'
    BY <2>3, <2>4 DEF Registered
  <2>6. Registered(p) => Awaiting(p)
    BY <2>3 DEF ReadInv
  <2>. QED  BY <1>2, <1>3, <2>5, <2>6
<1>8. UNCHANGED <<queue, reading, started>>
  BY DEF poolVars
<1>. HIDE DEF Pending
<1>9. ReadInv'
  <2>1. \A i \in 1..Len(queue)' : queue'[i] = queue[i]
    BY <1>8
  <2>. QED  BY <1>6, <1>7, <1>8 DEF ReadInv, Registered
<1>. QED  BY <1>5, <1>9

\* Writing a message to a registered, quiet process and submitting the read of
\* its answer begins one exchange on it.
LEMMA ExchangePipes ==
  ASSUME TypeOK, ProcessInv, ClientInv, PipeInv, ReadInv,
         NEW p \in Procs, NEW m \in 0..MaxCalls, NEW place \in {"waiting", "stopping"},
         Registered(p), p <= started, ~Awaiting(p),
         client.at \notin {"waiting", "stopping"},
         Write(p, m), SubmitRead(p, m),
         client'.at = place, client'.proc = p, client'.call = m,
         UNCHANGED <<processes, stdout, reading, started>>
  PROVE  PipeInv' /\ ReadInv'
<1>1. \A q : Registered(q)' <=> Registered(q)
  BY DEF Registered
<1>2. \A q : Awaiting(q)' <=> q = p
  BY DEF Awaiting, SubmitRead
<1>3. \A q \in Procs : Registered(q) => stdin[q] = <<>> /\ stdout[q] = <<>>
  BY DEF PipeInv, Awaiting
<1>3a. stdin \in [Procs -> Seq(0..MaxCalls)] /\ stdin[p] = <<>>
  BY <1>3 DEF TypeOK, PipeType
<1>3b. stdin' = stdin \/ stdin' = [stdin EXCEPT ![p] = Append(@, m)]
  BY DEF Write
<1>4. \A q \in Procs : q # p => stdin'[q] = stdin[q]
  BY <1>3a, <1>3b
<1>5. stdin'[p] = <<>> \/ stdin'[p] = <<m>>
  <2>1. Append(<<>>, m) = <<m>>
    OBVIOUS
  <2>. QED  BY <1>3a, <1>3b, <2>1
<1>6. Len(stdin'[p]) \in 0..1 /\ \A i \in 1..Len(stdin'[p]) : stdin'[p][i] = m
  <2>1. CASE stdin'[p] = <<>>
    BY <2>1
  <2>2. CASE stdin'[p] = <<m>>
    <3>1. Len(<<m>>) = 1 /\ <<m>>[1] = m
      OBVIOUS
    <3>. QED  BY <2>2, <3>1
  <2>. QED  BY <1>5, <2>1, <2>2
<1>7. PipeInv'
  <2>1. \A q \in Procs : Registered(q)' /\ ~Awaiting(q)' => stdin'[q] = <<>> /\ stdout'[q] = <<>>
    BY <1>1, <1>2, <1>3, <1>4
  <2>2. Len(stdin'[p]) + Len(stdout'[p]) <= 1
    <3>1. stdout'[p] = <<>>
      BY <1>3
    <3>2. Len(stdin'[p]) \in {0, 1} /\ Len(stdout'[p]) = 0
      BY <1>6, <3>1
    <3>3. ASSUME NEW a \in {0, 1} PROVE a + 0 <= 1
      OBVIOUS
    <3>. QED  BY <3>2, <3>3
  <2>3. future' = Pending
    BY DEF SubmitRead
  <2>4. \A i \in 1..Len(stdout'[p]) : FALSE
    BY <1>3
  <2>. QED  BY <1>2, <1>6, <2>1, <2>2, <2>3, <2>4 DEF PipeInv, Pending
<1>8. ReadInv'
  <2>. DEFINE new == [proc |-> p, call |-> m]
  <2>0. new \in Read /\ queue \in Seq(Read) /\ queue' = Append(queue, new)
    BY DEF SubmitRead, Read, TypeOK, PoolType
  <2>1. /\ Len(queue') = Len(queue) + 1 /\ Len(queue) \in Nat
        /\ queue'[Len(queue) + 1] = new
        /\ \A i \in 1..Len(queue) : queue'[i] = queue[i]
    BY <2>0
  <2>2. \A i \in 1..Len(queue) : queue[i].proc # p
    BY DEF ReadInv
  <2>3. \A r \in reading : r.proc # p
    BY DEF ReadInv
  <2>4. \A r \in reading : ~Registered(r.proc)
    BY DEF ReadInv, Awaiting
  <2>5. \A i \in 1..Len(queue) : ~Registered(queue[i].proc)
    BY DEF ReadInv, Awaiting
  <2>6. \A i \in 1..Len(queue') : i \in 1..Len(queue) \/ i = Len(queue) + 1
    BY <2>1
  <2>7. new.proc = p /\ new.call = m
    OBVIOUS
  <2>8. \A i \in 1..Len(queue') :
          /\ queue'[i].proc <= started
          /\ Registered(queue'[i].proc) => queue'[i].proc = p /\ queue'[i].call = m
          /\ \A r \in reading : r.proc # queue'[i].proc
    BY <2>1, <2>3, <2>5, <2>6, <2>7 DEF ReadInv
  <2>9. \A i, j \in 1..Len(queue') : queue'[i].proc = queue'[j].proc => i = j
    BY <2>1, <2>2, <2>6, <2>7 DEF ReadInv
  <2>. HIDE DEF new
  <2>. QED  BY <1>1, <1>2, <2>4, <2>8, <2>9 DEF ReadInv
<1>. QED  BY <1>7, <1>8

\* A step that touches neither pipes nor pool, before and after which no answer is
\* awaited, and which registers no other process, keeps the pipes quiet.
LEMMA QuietPipes ==
  ASSUME TypeOK, PipeInv, ReadInv,
         UNCHANGED <<stdin, stdout, queue, reading, started>>,
         \A p : ~Awaiting(p), \A p : ~Awaiting(p)', future' = Pending,
         \A p \in Procs : Registered(p)' => Registered(p)
  PROVE  PipeInv' /\ ReadInv'
<1>1. PipeInv'
  BY DEF PipeInv, Pending
<1>2. queue' = queue /\ reading' = reading /\ started' = started
  OBVIOUS
<1>3. \A r \in reading : ~Registered(r.proc)'
  <2>1. \A r \in reading : r.proc \in Procs
    BY DEF TypeOK, PoolType, Read
  <2>. QED  BY <2>1 DEF ReadInv
<1>4. \A i \in 1..Len(queue) : ~Registered(queue[i].proc) /\ queue[i].proc \in Procs
  <2>1. \A i \in 1..Len(queue) : queue[i] \in Read
    BY DEF TypeOK, PoolType
  <2>. QED  BY <2>1 DEF ReadInv, Read
<1>4a. \A q \in Procs : ~Registered(q) => \A w \in Workers : processes'[w] # q
  BY DEF Registered
<1>5. \A i \in 1..Len(queue) : \A w \in Workers : processes'[w] # queue[i].proc
  BY <1>4, <1>4a
<1>6. ReadInv'
  BY <1>2, <1>3, <1>5 DEF ReadInv, Registered
<1>. QED  BY <1>1, <1>6

\* A step that leaves the registration, the caller, pipes and pool alone.
LEMMA SamePipeInv ==
  ASSUME PipeInv, ReadInv,
         UNCHANGED <<stdin, stdout, queue, reading, started, processes, client, future>>
  PROVE  PipeInv' /\ ReadInv'
BY DEF PipeInv, ReadInv, Registered, Awaiting

LEMMA StartProcessPipes ==
  ASSUME TypeOK, ProcessInv, ClientInv, PipeInv, ReadInv, NEW w \in Workers, StartProcess(w)
  PROVE  PipeInv' /\ ReadInv'
<1>. USE CountsAssumption
<1>0. PICK p \in Procs : p = started + 1
  BY DEF StartProcess, TypeOK, LifeType, Procs
<1>1. UNCHANGED <<stdin, stdout, queue, reading, future>> /\ started' = p
  BY <1>0 DEF StartProcess, pipeVars, poolVars
<1>2. future = Pending /\ \A q : ~Awaiting(q) /\ ~Awaiting(q)'
  BY DEF StartProcess, ClientInv, At, Awaiting
<1>3. \A q : Registered(q)' => q = p \/ Registered(q)
  BY <1>0 DEF StartProcess, Registered, TypeOK, LifeType
<1>4. stdin[p] = <<>> /\ stdout[p] = <<>>
  BY <1>0 DEF ProcessInv, Unstarted, TypeOK, LifeType
<1>5. PipeInv'
  BY <1>1, <1>2, <1>3, <1>4 DEF PipeInv, Pending
<1>6. \A r \in reading : r.proc <= started /\ r.proc # p /\ ~Registered(r.proc) /\ r.proc <= p
  <2> SUFFICES ASSUME NEW r \in reading
               PROVE  r.proc <= started /\ r.proc # p /\ ~Registered(r.proc) /\ r.proc <= p
    OBVIOUS
  <2>1. r.proc \in Procs
    BY DEF TypeOK, PoolType, Read
  <2>2. r.proc <= started /\ ~Registered(r.proc)
    BY <1>2 DEF ReadInv
  <2>. QED  BY <1>0, <2>1, <2>2 DEF TypeOK, LifeType, Procs
<1>7. \A i \in 1..Len(queue) :
        queue[i].proc <= started /\ queue[i].proc # p /\ ~Registered(queue[i].proc) /\ queue[i].proc <= p
  <2> SUFFICES ASSUME NEW i \in 1..Len(queue)
               PROVE  /\ queue[i].proc <= started /\ queue[i].proc # p
                      /\ ~Registered(queue[i].proc) /\ queue[i].proc <= p
    OBVIOUS
  <2>1. queue[i] \in Read
    BY DEF TypeOK, PoolType
  <2>2. queue[i].proc \in Procs
    BY <2>1 DEF Read
  <2>3. queue[i].proc <= started /\ ~Registered(queue[i].proc)
    BY <1>2 DEF ReadInv
  <2>. QED  BY <1>0, <2>2, <2>3 DEF TypeOK, LifeType, Procs
<1>8. \A r \in reading : ~Registered(r.proc)'
  BY <1>3, <1>6
<1>8a. \A q : ~Registered(q) /\ q # p => \A v \in Workers : processes'[v] # q
  BY <1>3 DEF Registered
<1>9. \A i \in 1..Len(queue) : \A v \in Workers : processes'[v] # queue[i].proc
  BY <1>7, <1>8a
<1>10. ReadInv'
  BY <1>1, <1>6, <1>7, <1>8, <1>9 DEF ReadInv, Registered
<1>. QED  BY <1>5, <1>10

\* A pool thread takes the oldest submitted read.
LEMMA StartReadPipes ==
  ASSUME TypeOK, PipeInv, ReadInv, StartRead
  PROVE  PipeInv' /\ ReadInv'
<1>1. UNCHANGED <<stdin, stdout, started, processes, client, future>>
  BY DEF StartRead, pipeVars, startVars, clientVars
<1>2. \A p : (Registered(p)' <=> Registered(p)) /\ (Awaiting(p)' <=> Awaiting(p))
  BY <1>1, SameAwaiting
<1>3. PipeInv'
  BY <1>1, <1>2 DEF PipeInv
<1>4. /\ Len(queue') = Len(queue) - 1 /\ Len(queue) \in Nat \ {0}
      /\ \A i \in 1..Len(queue') : queue'[i] = queue[i + 1]
      /\ reading' = reading \cup {queue[1]}
  BY DEF StartRead, TypeOK, PoolType
<1>5. \A i \in 1..Len(queue') : i + 1 \in 1..Len(queue) /\ i + 1 # 1
  BY <1>4
<1>6. 1 \in 1..Len(queue)
  BY <1>4
<1>7. \A r \in reading' :
         /\ r.proc <= started
         /\ Registered(r.proc) => Awaiting(r.proc) /\ r.call = client.call
  BY <1>4, <1>6 DEF ReadInv
<1>8. \A i \in 1..Len(queue') :
         /\ queue'[i].proc <= started
         /\ Registered(queue'[i].proc) => Awaiting(queue'[i].proc) /\ queue'[i].call = client.call
  BY <1>4, <1>5 DEF ReadInv
<1>9. \A i, j \in 1..Len(queue') : queue'[i].proc = queue'[j].proc => i = j
  <2> SUFFICES ASSUME NEW i \in 1..Len(queue'), NEW j \in 1..Len(queue'),
                      queue[i + 1].proc = queue[j + 1].proc
               PROVE  i = j
    BY <1>4
  <2>1. i + 1 = j + 1
    BY <1>5 DEF ReadInv
  <2>. QED  BY <1>4, <2>1
<1>10. \A i \in 1..Len(queue') : \A r \in reading' : r.proc # queue'[i].proc
  BY <1>4, <1>5, <1>6 DEF ReadInv
<1>11. ReadInv'
  <2>0. started' = started
    BY <1>1
  <2>1. \A r \in reading' : r.proc <= started'
    BY <2>0, <1>7
  <2>2. \A i \in 1..Len(queue') : queue'[i].proc <= started'
    BY <2>0, <1>8
  <2>3. \A r \in reading' : (Registered(r.proc) => Awaiting(r.proc) /\ r.call = client.call)'
    BY <1>1, <1>7 DEF Registered, Awaiting
  <2>4. \A i \in 1..Len(queue') :
          (Registered(queue[i].proc) => Awaiting(queue[i].proc) /\ queue[i].call = client.call)'
    BY <1>1, <1>8 DEF Registered, Awaiting
  <2>. QED  BY <1>9, <1>10, <2>1, <2>2, <2>3, <2>4 DEF ReadInv
<1>. QED  BY <1>3, <1>11

(* A running daemon's pipes are open; a stopped one's requests are gone.        *)
LEMMA DaemonStep ==
  ASSUME TypeOK, ProcessInv, DaemonInv, [Next]_vars
  PROVE  DaemonInv'
<1>. USE CountsAssumption
<1>0. /\ running \in [Procs -> BOOLEAN] /\ open \in [Procs -> BOOLEAN]
      /\ stdin \in [Procs -> Seq(0..MaxCalls)] /\ started \in 0..MaxProcs
  BY DEF TypeOK, LifeType, PipeType
<1>1. ASSUME NEW w \in Workers, StartProcess(w) PROVE DaemonInv'
  BY <1>0, <1>1 DEF StartProcess, DaemonInv, pipeVars
<1>2. ASSUME NEW w, KillWorker(w), UNCHANGED open PROVE DaemonInv'
  BY <1>0, <1>2 DEF KillWorker, DaemonInv
<1>3. ASSUME NEW p, NEW m, Write(p, m), UNCHANGED lifeVars PROVE DaemonInv'
  <2> SUFFICES ASSUME NEW q \in Procs PROVE (running'[q] => open'[q]) /\ (~running'[q] => stdin'[q] = <<>>)
    BY DEF DaemonInv
  <2>1. running' = running /\ open' = open
    BY <1>3 DEF lifeVars
  <2>2. ~running[q] => stdin'[q] = stdin[q]
    BY <1>0, <1>3 DEF Write
  <2>. QED  BY <2>1, <2>2 DEF DaemonInv
<1>4. ASSUME NEW p \in Procs, DaemonAnswers(p) PROVE DaemonInv'
  BY <1>0, <1>4 DEF DaemonAnswers, DaemonInv, lifeVars
<1>5. ASSUME NEW p \in Procs, DaemonStops(p) \/ DaemonDies(p) PROVE DaemonInv'
  BY <1>0, <1>5 DEF DaemonStops, DaemonDies, DaemonInv
<1>6. ASSUME NEW p \in Procs, PipesClose(p) PROVE DaemonInv'
  BY <1>0, <1>6 DEF PipesClose, DaemonInv, pipeVars
<1>7. ASSUME UNCHANGED <<running, open, stdin>> PROVE DaemonInv'
  BY <1>7 DEF DaemonInv
<1>8. ASSUME NEW w \in Workers, ReuseProcess(w) \/ CannotStart(w) PROVE DaemonInv'
  BY <1>7, <1>8 DEF ReuseProcess, CannotStart, pipeVars, lifeVars
<1>9. ASSUME NEW w \in Workers, BeginShutdown(w) \/ ShutdownBroken(w) PROVE DaemonInv'
  BY <1>2, <1>3, <1>9 DEF BeginShutdown, ShutdownBroken
<1>10. ASSUME WriteRequest \/ WriteFails \/ PredictTimesOut \/ ShutdownTimesOut PROVE DaemonInv'
  BY <1>2, <1>3, <1>10 DEF WriteRequest, WriteFails, PredictTimesOut, ShutdownTimesOut
<1>11. ASSUME \/ PredictReturns \/ ShutdownHeard \/ ShutdownRaises \/ ShutdownReaped
              \/ BeginClose \/ FinishClose \/ StartRead
       PROVE  DaemonInv'
  BY <1>7, <1>11
     DEF PredictReturns, ShutdownHeard, ShutdownRaises, ShutdownReaped, BeginClose, FinishClose, StartRead,
         pipeVars, lifeVars
<1>12. ASSUME NEW r \in reading, FinishRead(r) PROVE DaemonInv'
  BY <1>7, <1>12 DEF FinishRead, lifeVars
<1>13. ASSUME NEW p \in Procs, RelayStderr(p) \/ Exits(p) \/ DaemonLogs(p) PROVE DaemonInv'
  BY <1>7, <1>13 DEF RelayStderr, Exits, DaemonLogs, pipeVars, lifeVars
<1>14. ASSUME UNCHANGED vars PROVE DaemonInv'
  BY <1>7, <1>14 DEF vars, pipeVars, lifeVars
<1>. QED
  BY <1>1, <1>4, <1>5, <1>6, <1>8, <1>9, <1>10, <1>11, <1>12, <1>13, <1>14
     DEF Next, Predict, Stop, Threads, Daemons, Closed

\* A pool thread's read returns: it took the one line the pipe held, or its end.
LEMMA FinishReadPipes ==
  ASSUME TypeOK, ProcessInv, ClientInv, DaemonInv, PipeInv, ReadInv,
         NEW r \in reading, FinishRead(r)
  PROVE  PipeInv' /\ ReadInv'
<1>. USE CountsAssumption
<1>. DEFINE p == r.proc
<1>0. /\ UNCHANGED <<stdin, queue, started, processes, client>>
      /\ reading' = reading \ {r}
  BY DEF FinishRead, startVars
<1>1. p \in Procs /\ r = [proc |-> p, call |-> r.call]
  BY DEF TypeOK, PoolType, Read
<1>2. /\ stdin \in [Procs -> Seq(0..MaxCalls)]
      /\ stdout \in [Procs -> Seq(Line)]
  BY DEF TypeOK, PipeType
<1>3. \A q : Registered(q)' <=> Registered(q)
  BY <1>0 DEF Registered
<1>4. \A q \in Procs : q # p => stdout'[q] = stdout[q]
  BY <1>1, <1>2 DEF FinishRead
<1>5. CASE Registered(p)
  <2>1. Awaiting(p) /\ r.call = client.call
    BY <1>5 DEF ReadInv
  <2>2. future' = IF stdout[p] = <<>> THEN EOF ELSE Head(stdout[p])
    BY <1>1, <2>1 DEF FinishRead, Awaiting, At
  <2>3. Len(stdin[p]) + Len(stdout[p]) <= 1
    BY <1>1, <1>5, <2>1 DEF PipeInv
  <2>4. stdin[p] = <<>> /\ stdout'[p] = <<>>
    <3>1. CASE stdout[p] = <<>>
      <4>1. ~open[p]
        BY <3>1 DEF FinishRead, Readable
      <4>. QED  BY <1>1, <3>1, <4>1 DEF DaemonInv, FinishRead
    <3>2. CASE stdout[p] # <<>>
      <4>1. Len(stdout[p]) \in Nat \ {0} /\ Len(stdin[p]) \in Nat
        BY <1>1, <1>2, <3>2
      <4>2. Len(stdout[p]) = 1 /\ Len(stdin[p]) = 0
        <5>1. ASSUME NEW a \in Nat \ {0}, NEW b \in Nat, b + a <= 1 PROVE a = 1 /\ b = 0
          BY <5>1
        <5>. QED  BY <2>3, <4>1, <5>1
      <4>3. stdout'[p] = Tail(stdout[p])
        BY <1>1, <1>2, <3>2 DEF FinishRead
      <4>4. stdout[p] \in Seq(Line) /\ stdin[p] \in Seq(0..MaxCalls)
        BY <1>1, <1>2
      <4>5. ASSUME NEW S, NEW s \in Seq(S), Len(s) = 1 PROVE Tail(s) = <<>>
        <5>0. s # <<>>
          BY <4>5
        <5>1. Tail(s) \in Seq(S) /\ Len(Tail(s)) = Len(s) - 1
          BY <5>0
        <5>2. Len(Tail(s)) = 0
          BY <4>5, <5>1
        <5>3. ASSUME NEW t \in Seq(S), Len(t) = 0 PROVE t = <<>>
          BY <5>3
        <5>. QED  BY <5>1, <5>2, <5>3
      <4>6. ASSUME NEW S, NEW s \in Seq(S), Len(s) = 0 PROVE s = <<>>
        BY <4>6
      <4>. QED  BY <4>2, <4>3, <4>4, <4>5, <4>6
    <3>. QED  BY <3>1, <3>2
  <2>5. future'.kind = "forecast" => future'.call = client.call
    <3>1. CASE stdout[p] = <<>>
      BY <2>2, <3>1 DEF EOF
    <3>2. CASE stdout[p] # <<>>
      <4>1. stdout[p] \in Seq(Line)
        BY <1>1, <1>2
      <4>2. 1 \in 1..Len(stdout[p]) /\ Head(stdout[p]) = stdout[p][1]
        BY <3>2, <4>1
      <4>. QED  BY ZenonT(30), <1>1, <1>5, <2>1, <2>2, <3>2, <4>2 DEF PipeInv
    <3>. QED  BY <3>1, <3>2
  <2>6. future' # Pending
    <3>1. CASE stdout[p] = <<>>
      BY <2>2, <3>1 DEF EOF, Pending
    <3>2. CASE stdout[p] # <<>>
      <4>1. Head(stdout[p]) \in Line
        BY <1>1, <1>2, <3>2
      <4>. QED  BY <2>2, <3>2, <4>1 DEF Line, Pending
    <3>. QED  BY <3>1, <3>2
  <2>7. \A q : ~Awaiting(q)'
    BY <2>6 DEF Awaiting
  <2>8. \A q \in Procs : q # p => ~Awaiting(q)
    BY <2>1 DEF Awaiting
  <2>9. PipeInv'
    <3>1. \A q \in Procs : Registered(q) => stdin'[q] = <<>> /\ stdout'[q] = <<>>
      BY <1>0, <1>1, <1>4, <2>4, <2>8 DEF PipeInv
    <3>. QED  BY <1>0, <1>3, <2>5, <2>7, <3>1 DEF PipeInv
  <2>10. \A s \in reading' : ~Registered(s.proc)
    <3> SUFFICES ASSUME NEW s \in reading', Registered(s.proc) PROVE FALSE
      OBVIOUS
    <3>1. s \in reading /\ s # r
      BY <1>0
    <3>2. s.proc = p /\ s.call = r.call
      BY <2>1, <3>1 DEF ReadInv, Awaiting
    <3>3. s = [proc |-> s.proc, call |-> s.call]
      BY <3>1 DEF TypeOK, PoolType, Read
    <3>. QED  BY <1>1, <3>1, <3>2, <3>3
  <2>11. \A i \in 1..Len(queue) : ~Registered(queue[i].proc)
    <3> SUFFICES ASSUME NEW i \in 1..Len(queue), Registered(queue[i].proc) PROVE FALSE
      OBVIOUS
    <3>1. Awaiting(queue[i].proc)
      BY DEF ReadInv
    <3>2. queue[i].proc = p
      BY <2>1, <3>1 DEF Awaiting
    <3>. QED  BY <3>2 DEF ReadInv
  <2>12. ReadInv'
    BY <1>0, <2>10, <2>11 DEF ReadInv, Registered
  <2>. QED  BY <2>9, <2>12
<1>6. CASE ~Registered(p)
  <2>1. future' = future
    <3>1. At("waiting") \/ At("stopping") => p # client.proc
      BY <1>6 DEF ClientInv, At, Registered
    <3>2. r = [proc |-> client.proc, call |-> client.call] => p = client.proc
      OBVIOUS
    <3>. QED  BY <3>1, <3>2 DEF FinishRead
  <2>2. \A q : Awaiting(q)' <=> Awaiting(q)
    BY <1>0, <2>1 DEF Awaiting
  <2>3. \A q \in Procs : Registered(q) => stdout'[q] = stdout[q]
    BY <1>4, <1>6
  <2>4. PipeInv'
    BY ZenonT(30), <1>0, <1>3, <2>1, <2>2, <2>3 DEF PipeInv
  <2>5. ReadInv'
    BY <1>0, <2>1 DEF ReadInv, Registered, Awaiting
  <2>. QED  BY <2>4, <2>5
<1>. QED  BY <1>5, <1>6

\* The awaited process's request has gone and at most one answer to it has come.
LEMMA AnsweredPipes ==
  ASSUME PipeInv, ReadInv, NEW p \in Procs, Awaiting(p),
         UNCHANGED <<queue, reading, started, processes, client, future>>,
         \A q \in Procs \ {p} : stdin'[q] = stdin[q] /\ stdout'[q] = stdout[q],
         stdin'[p] = <<>>,
         NEW line, line.kind = "forecast" => line.call = client.call,
         stdout'[p] \in {<<>>, <<line>>}
  PROVE  PipeInv' /\ ReadInv'
<1>1. \A q : (Registered(q)' <=> Registered(q)) /\ (Awaiting(q)' <=> Awaiting(q))
  BY DEF Registered, Awaiting
<1>2. \A q \in Procs : Awaiting(q) => q = p
  BY DEF Awaiting
<1>3. Len(stdin'[p]) = 0 /\ Len(stdout'[p]) \in {0, 1}
  OBVIOUS
<1>4. Len(stdin'[p]) + Len(stdout'[p]) <= 1
  <2>1. ASSUME NEW a \in {0, 1} PROVE 0 + a <= 1
    OBVIOUS
  <2>. QED  BY <1>3, <2>1
<1>5. \A i \in 1..Len(stdout'[p]) :
        stdout'[p][i].kind = "forecast" => stdout'[p][i].call = client.call
  <2>1. CASE stdout'[p] = <<>>
    BY <2>1
  <2>2. CASE stdout'[p] = <<line>>
    <3>1. Len(<<line>>) = 1 /\ <<line>>[1] = line
      OBVIOUS
    <3>. QED  BY <2>2, <3>1
  <2>. QED  BY <2>1, <2>2
<1>6. \A q \in Procs : Registered(q) /\ ~Awaiting(q) => stdin'[q] = <<>> /\ stdout'[q] = <<>>
  BY DEF PipeInv
<1>7. PipeInv'
  <2>1. \A q \in Procs : Registered(q)' /\ ~Awaiting(q)' => stdin'[q] = <<>> /\ stdout'[q] = <<>>
    BY <1>1, <1>6
  <2>2. \A q \in Procs : Awaiting(q)' =>
          /\ Len(stdin'[q]) + Len(stdout'[q]) <= 1
          /\ \A i \in 1..Len(stdin'[q]) : stdin'[q][i] = client'.call
          /\ \A i \in 1..Len(stdout'[q]) :
               stdout'[q][i].kind = "forecast" => stdout'[q][i].call = client'.call
    <3>1. client' = client /\ \A i \in 1..Len(stdin'[p]) : FALSE
      BY <1>3
    <3>2. \A q \in Procs : Awaiting(q)' => q = p
      BY <1>1, <1>2
    <3>. QED  BY <1>4, <1>5, <3>1, <3>2
  <2>3. future'.kind = "forecast" => future'.call = client'.call
    BY DEF PipeInv
  <2>. QED  BY <2>1, <2>2, <2>3 DEF PipeInv
<1>8. ReadInv'
  BY DEF ReadInv, Registered, Awaiting
<1>. QED  BY <1>7, <1>8

\* Only a registered process runs, and requests stand only in the pipe of the
\* process whose answer is awaited, one at most.
LEMMA RunningRequest ==
  ASSUME TypeOK, ProcessInv, PipeInv, NEW p \in Procs, running[p], stdin[p] # <<>>
  PROVE  Awaiting(p) /\ Head(stdin[p]) = client.call /\ Tail(stdin[p]) = <<>> /\ stdout[p] = <<>>
<1>. USE CountsAssumption
<1>1. Registered(p)
  <2>1. p <= started
    BY DEF ProcessInv, Unstarted, TypeOK, LifeType, Procs
  <2>. QED  BY <2>1 DEF ProcessInv, Registered
<1>2. Awaiting(p)
  BY <1>1 DEF PipeInv
<1>3. stdin[p] \in Seq(0..MaxCalls) /\ stdout[p] \in Seq(Line)
  BY DEF TypeOK, PipeType
<1>4. Len(stdin[p]) \in Nat \ {0} /\ Len(stdout[p]) \in Nat
  BY <1>3
<1>5. Len(stdin[p]) = 1 /\ Len(stdout[p]) = 0
  <2>1. ASSUME NEW a \in Nat \ {0}, NEW b \in Nat, a + b <= 1 PROVE a = 1 /\ b = 0
    BY <2>1
  <2>. QED  BY <1>1, <1>2, <1>4, <2>1 DEF PipeInv
<1>6. Head(stdin[p]) = client.call
  <2>1. 1 \in 1..Len(stdin[p]) /\ Head(stdin[p]) = stdin[p][1]
    BY <1>3, <1>5
  <2>. QED  BY <1>1, <1>2, <2>1 DEF PipeInv
<1>7. ASSUME NEW S, NEW t \in Seq(S), Len(t) = 0 PROVE t = <<>>
  BY <1>7
<1>8. Tail(stdin[p]) \in Seq(0..MaxCalls) /\ Len(Tail(stdin[p])) = 0
  <2>1. ASSUME NEW S, NEW t \in Seq(S), t # <<>>, Len(t) = 1
        PROVE  Tail(t) \in Seq(S) /\ Len(Tail(t)) = 0
    <3>1. Tail(t) \in Seq(S) /\ Len(Tail(t)) = Len(t) - 1
      BY <2>1
    <3>. QED  BY <2>1, <3>1
  <2>. QED  BY <1>3, <1>5, <2>1
<1>9. Tail(stdin[p]) = <<>>
  BY <1>7, <1>8
<1>10. stdout[p] = <<>>
  BY <1>3, <1>5, <1>7
<1>. QED  BY <1>2, <1>6, <1>9, <1>10

LEMMA DaemonPipes ==
  ASSUME TypeOK, ProcessInv, DaemonInv, PipeInv, ReadInv, NEW p \in Procs,
         DaemonAnswers(p) \/ DaemonStops(p) \/ DaemonDies(p)
  PROVE  PipeInv' /\ ReadInv'
<1>. USE CountsAssumption
<1>0. /\ stdin \in [Procs -> Seq(0..MaxCalls)]
      /\ stdout \in [Procs -> Seq(Line)]
  BY DEF TypeOK, PipeType
<1>1. /\ UNCHANGED <<queue, reading, started, processes, client, future>>
      /\ \A q \in Procs \ {p} : stdin'[q] = stdin[q] /\ stdout'[q] = stdout[q]
  BY <1>0 DEF DaemonAnswers, DaemonStops, DaemonDies, poolVars, clientVars, startVars
<1>2. running[p]
  BY DEF DaemonAnswers, DaemonStops, DaemonDies
<1>3. ASSUME NEW line \in Line PROVE Append(<<>>, line) = <<line>>
  OBVIOUS
<1>4. CASE DaemonAnswers(p)
  <2>1. Awaiting(p) /\ Head(stdin[p]) = client.call /\ stdin'[p] = <<>> /\ stdout[p] = <<>>
    BY <1>0, <1>2, <1>4, RunningRequest DEF DaemonAnswers
  <2>2. PICK kind \in {"forecast", "error", "undecodable"} :
          stdout'[p] = Append(<<>>, [kind |-> kind, call |-> client.call])
    BY <1>0, <1>4, <2>1 DEF DaemonAnswers
  <2>. DEFINE line == [kind |-> kind, call |-> client.call]
  <2>3. stdout'[p] = <<line>> /\ line.call = client.call
    <3>1. line \in Line
      BY DEF Line, TypeOK, CallerType
    <3>. QED  BY <1>3, <2>2, <3>1
  <2>. HIDE DEF line
  <2>. QED  BY <1>1, <2>1, <2>3, AnsweredPipes
<1>5. CASE DaemonStops(p)
  <2>1. Awaiting(p) /\ stdin'[p] = <<>> /\ stdout[p] = <<>>
    BY <1>0, <1>2, <1>5, RunningRequest DEF DaemonStops
  <2>0. PICK kind \in {"bye", "undecodable"} :
          stdout' = [stdout EXCEPT ![p] = Append(@, [kind |-> kind, call |-> Shutdown])]
    BY <1>5 DEF DaemonStops
  <2>. DEFINE line == [kind |-> kind, call |-> Shutdown]
  <2>2. stdout'[p] = <<line>> /\ line.kind # "forecast"
    <3>1. line \in Line
      BY DEF Line, Shutdown
    <3>2. stdout'[p] = Append(<<>>, line)
      BY <1>0, <2>0, <2>1
    <3>. QED  BY <1>3, <3>1, <3>2
  <2>. HIDE DEF line
  <2>. QED  BY <1>1, <2>1, <2>2, AnsweredPipes
<1>6. CASE DaemonDies(p) /\ stdin[p] # <<>>
  <2>1. Awaiting(p) /\ stdin'[p] = <<>> /\ stdout[p] = <<>>
    BY <1>0, <1>2, <1>6, RunningRequest DEF DaemonDies
  <2>. DEFINE line == [kind |-> "torn", call |-> 0]
  <2>2. stdout'[p] \in {<<>>, <<line>>} /\ line.kind # "forecast"
    <3>1. line \in Line
      BY DEF Line
    <3>2. stdout'[p] = <<>> \/ stdout'[p] = Append(<<>>, line)
      BY <1>0, <1>6, <2>1 DEF DaemonDies
    <3>. QED  BY <1>3, <3>1, <3>2
  <2>. HIDE DEF line
  <2>. QED  BY <1>1, <2>1, <2>2, AnsweredPipes
<1>7. CASE DaemonDies(p) /\ stdin[p] = <<>>
  <2>1. stdout' = stdout
    BY <1>7 DEF DaemonDies
  <2>2. stdin' = stdin
    BY <1>0, <1>7 DEF DaemonDies
  <2>. QED  BY <1>1, <2>1, <2>2, SamePipeInv
<1>. QED  BY <1>4, <1>5, <1>6, <1>7

(* Pipes and reads, for every step of the system.                               *)
LEMMA PipeStep ==
  ASSUME TypeOK, ProcessInv, ClientInv, DaemonInv, PipeInv, ReadInv, [Next]_vars
  PROVE  PipeInv' /\ ReadInv'
<1>. USE CountsAssumption
<1>0. ~At("idle") => /\ client.worker \in Workers /\ client.proc \in Procs
                     /\ Registered(client.proc) /\ client.proc <= started
  <2>1. ~At("idle") => /\ client.worker \in Workers /\ client.proc # NoProc
                       /\ processes[client.worker] = client.proc
    BY DEF ClientInv
  <2>2. client.proc \in 0..MaxProcs
    BY DEF TypeOK, CallerType
  <2>. QED  BY <2>1, <2>2 DEF ProcessInv, Registered, Procs, NoProc
<1>1. ASSUME NEW w \in Workers, ReuseProcess(w) PROVE PipeInv' /\ ReadInv'
  <2>1. future' = Pending
    BY <1>1 DEF ReuseProcess, ClientInv, At
  <2>2. \A p : ~Awaiting(p) /\ ~Awaiting(p)'
    BY <1>1 DEF ReuseProcess, Awaiting, At
  <2>3. UNCHANGED <<stdin, stdout, queue, reading, started, processes>>
    BY <1>1 DEF ReuseProcess, pipeVars, poolVars, startVars
  <2>. QED  BY <2>1, <2>2, <2>3, QuietPipes DEF Registered
<1>2. ASSUME NEW w \in Workers, CannotStart(w) PROVE PipeInv' /\ ReadInv'
  BY <1>2, SamePipeInv DEF CannotStart, pipeVars, poolVars, startVars
<1>3. ASSUME WriteRequest PROVE PipeInv' /\ ReadInv'
  <2>1. /\ client.proc \in Procs /\ client.call \in 0..MaxCalls
        /\ Registered(client.proc) /\ client.proc <= started /\ ~Awaiting(client.proc)
        /\ client.at \notin {"waiting", "stopping"}
    BY <1>0, <1>3 DEF WriteRequest, At, Awaiting, TypeOK, CallerType
  <2>2. client'.at = "waiting" /\ client'.proc = client.proc /\ client'.call = client.call
    BY <1>3 DEF WriteRequest, TypeOK, CallerType
  <2>3. UNCHANGED <<processes, stdout, reading, started>>
    BY <1>3 DEF WriteRequest, startVars
  <2>. QED  BY <1>3, <2>1, <2>2, <2>3, ExchangePipes DEF WriteRequest
<1>4. ASSUME WriteFails \/ PredictTimesOut PROVE PipeInv' /\ ReadInv'
  <2>1. client.worker \in Workers /\ KillWorker(client.worker)
    BY <1>0, <1>4 DEF WriteFails, PredictTimesOut, At
  <2>2. client' = Idle /\ future' = Pending /\ UNCHANGED <<stdout, poolVars, started>>
    BY <1>4 DEF WriteFails, PredictTimesOut, Return, startVars
  <2>. QED  BY <2>1, <2>2, KillWorkerPipes
<1>5. ASSUME PredictReturns PROVE PipeInv' /\ ReadInv'
  <2>1. client' = Idle /\ future' = Pending
    BY <1>5 DEF PredictReturns, Return
  <2>2. \A p : ~Awaiting(p) /\ ~Awaiting(p)'
    BY <1>5, <2>1 DEF PredictReturns, Awaiting, Idle
  <2>3. UNCHANGED <<stdin, stdout, queue, reading, started, processes>>
    BY <1>5 DEF PredictReturns, pipeVars, poolVars, startVars
  <2>. QED  BY <2>1, <2>2, <2>3, QuietPipes DEF Registered
<1>6. ASSUME NEW w \in Workers, BeginShutdown(w) PROVE PipeInv' /\ ReadInv'
  <2>. DEFINE p == processes[w]
  <2>1. /\ p \in Procs /\ Shutdown \in 0..MaxCalls
        /\ Registered(p) /\ p <= started /\ ~Awaiting(p)
        /\ client.at \notin {"waiting", "stopping"}
    BY <1>6 DEF BeginShutdown, At, Awaiting, TypeOK, LifeType, ProcessInv, Registered, Procs,
                NoProc, Shutdown
  <2>2. client'.at = "stopping" /\ client'.proc = p /\ client'.call = Shutdown
    BY <1>6 DEF BeginShutdown
  <2>3. UNCHANGED <<processes, stdout, reading, started>> /\ Write(p, Shutdown) /\ SubmitRead(p, Shutdown)
    BY <1>6 DEF BeginShutdown, startVars
  <2>. QED  BY <2>1, <2>2, <2>3, ExchangePipes
<1>7. ASSUME NEW w \in Workers, ShutdownBroken(w) PROVE PipeInv' /\ ReadInv'
  <2>1. client' = Idle /\ future' = Pending /\ client.at = "idle"
    BY <1>7 DEF ShutdownBroken, clientVars, ClientInv, At
  <2>2. UNCHANGED <<stdout, poolVars, started>> /\ KillWorker(w)
    BY <1>7 DEF ShutdownBroken, startVars
  <2>. QED  BY <2>1, <2>2, KillWorkerPipes
<1>8. ASSUME ShutdownHeard PROVE PipeInv' /\ ReadInv'
  <2>1. client'.at = "reaping" /\ future' = Pending
    BY <1>8 DEF ShutdownHeard, TypeOK, CallerType
  <2>2. \A p : ~Awaiting(p) /\ ~Awaiting(p)'
    BY <1>8, <2>1 DEF ShutdownHeard, Awaiting
  <2>3. UNCHANGED <<stdin, stdout, queue, reading, started, processes>>
    BY <1>8 DEF ShutdownHeard, pipeVars, poolVars, startVars
  <2>. QED  BY <2>1, <2>2, <2>3, QuietPipes DEF Registered
<1>9. ASSUME ShutdownReaped \/ ShutdownRaises PROVE PipeInv' /\ ReadInv'
  <2>1. client' = Idle /\ future' = Pending
    BY <1>9 DEF ShutdownReaped, ShutdownRaises, ClientInv, At
  <2>2. \A p : ~Awaiting(p) /\ ~Awaiting(p)'
    BY <1>9, <2>1 DEF ShutdownReaped, ShutdownRaises, Awaiting, Pending, Idle, At
  <2>3. UNCHANGED <<stdin, stdout, queue, reading, started>>
    BY <1>9 DEF ShutdownReaped, ShutdownRaises, pipeVars, poolVars, startVars
  <2>4. \A p \in Procs : Registered(p)' => Registered(p)
    BY <1>9 DEF ShutdownReaped, ShutdownRaises, Registered, Procs, NoProc, TypeOK, LifeType
  <2>. QED  BY <2>1, <2>2, <2>3, <2>4, QuietPipes
<1>10. ASSUME ShutdownTimesOut PROVE PipeInv' /\ ReadInv'
  <2>1. client' = Idle /\ future' = Pending /\ client.worker \in Workers
    BY <1>0, <1>10 DEF ShutdownTimesOut, ClientInv, At
  <2>2. UNCHANGED <<stdout, poolVars, started>> /\ KillWorker(client.worker)
    BY <1>10 DEF ShutdownTimesOut, startVars
  <2>. QED  BY <2>1, <2>2, KillWorkerPipes
<1>11. ASSUME BeginClose PROVE PipeInv' /\ ReadInv'
  BY <1>11, SamePipeInv DEF BeginClose, pipeVars, poolVars, startVars
<1>12. ASSUME FinishClose PROVE PipeInv' /\ ReadInv'
  <2>1. /\ UNCHANGED <<stdin, stdout, reading, started, processes, client, future>>
        /\ queue' = <<>>
    BY <1>12 DEF FinishClose, pipeVars, startVars
  <2>2. PipeInv'
    BY <2>1 DEF PipeInv, Registered, Awaiting
  <2>3. \A i \in 1..Len(queue') : FALSE
    BY <2>1
  <2>4. \A r \in reading : (Registered(r.proc) => Awaiting(r.proc) /\ r.call = client.call)'
    BY <2>1 DEF ReadInv, Registered, Awaiting
  <2>5. ReadInv'
    BY <2>1, <2>3, <2>4 DEF ReadInv
  <2>. QED  BY <2>2, <2>5
<1>13. ASSUME NEW p \in Procs, RelayStderr(p) \/ PipesClose(p) \/ Exits(p) \/ DaemonLogs(p)
       PROVE  PipeInv' /\ ReadInv'
  <2>1. UNCHANGED <<stdin, stdout, queue, reading, started, processes, client, future>>
    BY <1>13 DEF RelayStderr, PipesClose, Exits, DaemonLogs, pipeVars, poolVars, startVars, clientVars
  <2>. QED  BY <2>1, SamePipeInv
<1>14. ASSUME UNCHANGED vars PROVE PipeInv' /\ ReadInv'
  <2>1. UNCHANGED <<stdin, stdout, queue, reading, started, processes, client, future>>
    BY <1>14 DEF vars, pipeVars, poolVars, startVars, clientVars
  <2>. QED  BY <2>1, SamePipeInv
<1>. QED
  BY <1>1, <1>2, <1>3, <1>4, <1>5, <1>6, <1>7, <1>8, <1>9, <1>10, <1>11, <1>12, <1>13, <1>14,
     StartProcessPipes, StartReadPipes, FinishReadPipes, DaemonPipes
     DEF Next, Predict, Stop, Threads, Daemons, Closed

(* StopInv: what a daemon prints after the shutdown line, it prints as it stops. *)
LEMMA StopStep ==
  ASSUME TypeOK, ProcessInv, ClientInv, DaemonInv, StopInv, PipeInv, ReadInv, [Next]_vars
  PROVE  StopInv'
<1>. USE CountsAssumption
<1>0. /\ running \in [Procs -> BOOLEAN] /\ started \in 0..MaxProcs
      /\ stdin \in [Procs -> Seq(0..MaxCalls)] /\ stdout \in [Procs -> Seq(Line)]
  BY DEF TypeOK, LifeType, PipeType
<1>1. At("stopping") => /\ client.proc \in Procs /\ Registered(client.proc)
                        /\ client.call = Shutdown
  <2>1. client.proc \in 0..MaxProcs
    BY DEF TypeOK, CallerType
  <2>. QED  BY <2>1 DEF At, ClientInv, Registered, Procs, NoProc
\* Steps after which the caller does not wait in a shutdown.
<1>2. ASSUME client'.at # "stopping" PROVE StopInv'
  BY <1>2 DEF StopInv, At
<1>3. ASSUME Predict PROVE client'.at # "stopping"
  <2>1. ASSUME NEW w \in Workers, ReuseProcess(w) \/ StartProcess(w) \/ CannotStart(w)
        PROVE  client'.at # "stopping"
    BY <2>1 DEF ReuseProcess, StartProcess, CannotStart, At
  <2>2. ASSUME WriteRequest PROVE client'.at # "stopping"
    BY <2>2 DEF WriteRequest, TypeOK, CallerType
  <2>3. ASSUME WriteFails \/ PredictReturns \/ PredictTimesOut PROVE client'.at # "stopping"
    BY <2>3 DEF WriteFails, PredictReturns, PredictTimesOut, Return, Idle
  <2>. QED  BY <1>3, <2>1, <2>2, <2>3 DEF Predict
<1>4. ASSUME \/ \E w \in Workers : ShutdownBroken(w)
             \/ ShutdownHeard \/ ShutdownRaises \/ ShutdownReaped \/ ShutdownTimesOut
             \/ BeginClose \/ FinishClose
      PROVE  client'.at # "stopping"
  BY <1>4 DEF ShutdownBroken, ShutdownHeard, ShutdownRaises, ShutdownReaped, ShutdownTimesOut,
              BeginClose, FinishClose, clientVars, At, Idle, TypeOK, CallerType
\* The shutdown line is written to a process that has printed nothing unread.
<1>5. ASSUME NEW w \in Workers, BeginShutdown(w) PROVE StopInv'
  <2>1. processes[w] \in Procs /\ Registered(processes[w])
    BY <1>5 DEF BeginShutdown, TypeOK, LifeType, Registered, Procs, NoProc
  <2>2. stdout[processes[w]] = <<>>
    BY <1>5, <2>1 DEF BeginShutdown, PipeInv, Awaiting, At
  <2>. QED  BY <1>5, <2>2 DEF BeginShutdown, SubmitRead, StopInv
\* Steps of others, while it waits.
<1>6. ASSUME UNCHANGED <<client, future, stdout, running>> PROVE StopInv'
  BY <1>6 DEF StopInv, At
<1>7. ASSUME NEW r \in reading, FinishRead(r) PROVE StopInv'
  <2> SUFFICES ASSUME At("stopping") PROVE StopInv'
    BY <1>7 DEF FinishRead, StopInv, At
  <2>0. client' = client /\ running' = running /\ r.proc \in Procs
    BY <1>7 DEF FinishRead, lifeVars, TypeOK, PoolType, Read
  <2>1. CASE r.proc = client.proc
    <3>1. stdout[client.proc] = <<>> => ~running[client.proc]
      BY <1>1, <1>7, <2>1 DEF FinishRead, Readable, DaemonInv
    <3>2. ~running[client.proc]
      BY <3>1 DEF StopInv
    <3>. QED  BY <2>0, <3>2 DEF StopInv, At
  <2>2. CASE r.proc # client.proc
    <3>1. future' = future /\ stdout'[client.proc] = stdout[client.proc]
      BY <1>0, <1>1, <1>7, <2>0, <2>2 DEF FinishRead
    <3>. QED  BY <2>0, <3>1 DEF StopInv, At
  <2>. QED  BY <2>1, <2>2
<1>8. ASSUME NEW p \in Procs, DaemonAnswers(p) PROVE StopInv'
  <2>1. Awaiting(p) /\ Head(stdin[p]) = client.call /\ Head(stdin[p]) # Shutdown
    BY <1>8, RunningRequest DEF DaemonAnswers
  <2>2. ~At("stopping")
    BY <1>1, <2>1
  <2>. QED  BY <1>8, <2>2 DEF DaemonAnswers, clientVars, StopInv, At
<1>9. ASSUME NEW p \in Procs, DaemonStops(p) \/ DaemonDies(p) PROVE StopInv'
  <2>1. /\ UNCHANGED <<client, future>> /\ ~running'[p]
        /\ \A q \in Procs : q # p => running'[q] = running[q] /\ stdout'[q] = stdout[q]
    BY <1>0, <1>9 DEF DaemonStops, DaemonDies, clientVars
  <2>. QED  BY <1>1, <2>1 DEF StopInv, At
<1>10. ASSUME NEW p \in Procs, RelayStderr(p) \/ PipesClose(p) \/ Exits(p) \/ DaemonLogs(p)
       PROVE  StopInv'
  BY <1>6, <1>10 DEF RelayStderr, PipesClose, Exits, DaemonLogs, clientVars, pipeVars, lifeVars
<1>11. ASSUME StartRead \/ UNCHANGED vars PROVE StopInv'
  BY <1>6, <1>11 DEF StartRead, vars, clientVars, pipeVars, lifeVars
<1>. QED
  BY <1>2, <1>3, <1>4, <1>5, <1>7, <1>8, <1>9, <1>10, <1>11
     DEF Next, Stop, Threads, Daemons, Closed

(* Every reply appended to results keeps AnswersMatch.                          *)
LEMMA AnswerStep ==
  ASSUME TypeOK, ProcessInv, ClientInv, PipeInv, AnswersMatch, [Next]_vars
  PROVE  AnswersMatch'
<1>0. results \in Seq(Result) /\ Len(results) \in Nat
  BY DEF TypeOK, CallerType
<1>1. ASSUME NEW reply,
             results' = Append(results, reply),
             reply.outcome = "ok" => reply.call = NewCall /\ reply.from = reply.worker
      PROVE  AnswersMatch'
  <2>1. /\ Len(results') = Len(results) + 1
        /\ results'[Len(results) + 1] = reply
        /\ \A i \in 1..Len(results) : results'[i] = results[i]
    BY <1>0, <1>1
  <2>2. \A i \in 1..Len(results') : i \in 1..Len(results) \/ i = Len(results) + 1
    BY <1>0, <2>1
  <2>. QED  BY <1>1, <2>1, <2>2 DEF AnswersMatch, NewCall
<1>2. ASSUME NEW w \in Workers, CannotStart(w) PROVE AnswersMatch'
  BY <1>1, <1>2 DEF CannotStart
<1>3. ASSUME WriteFails \/ PredictTimesOut PROVE AnswersMatch'
  <2>1. \E outcome \in {"unwritten", "timeout"} : Return(outcome, 0, Nobody)
    BY <1>3 DEF WriteFails, PredictTimesOut
  <2>. QED  BY <1>1, <2>1 DEF Return
<1>4. ASSUME PredictReturns PROVE AnswersMatch'
  <2>1. CASE future.kind = "forecast"
    <3>1. Return("ok", future.call, workerOf[client.proc])
      BY <1>4, <2>1 DEF PredictReturns
    <3>2. future.call = NewCall
      BY <1>4, <2>1 DEF PredictReturns, At, PipeInv, ClientInv
    <3>3. workerOf[client.proc] = client.worker
      BY <1>4 DEF PredictReturns, At, ClientInv, ProcessInv
    <3>. QED  BY <1>1, <3>1, <3>2, <3>3 DEF Return
  <2>2. CASE future.kind # "forecast"
    <3>1. \E outcome \in {"exited", "failed", "raised"} : Return(outcome, 0, Nobody)
      BY <1>4, <2>2 DEF PredictReturns
    <3>. QED  BY <1>1, <3>1 DEF Return
  <2>. QED  BY <2>1, <2>2
<1>5. ASSUME UNCHANGED results PROVE AnswersMatch'
  BY <1>5 DEF AnswersMatch
<1>6. ASSUME NEW w \in Workers,
             ReuseProcess(w) \/ StartProcess(w) \/ BeginShutdown(w) \/ ShutdownBroken(w)
      PROVE  UNCHANGED results
  BY <1>6 DEF ReuseProcess, StartProcess, BeginShutdown, ShutdownBroken, clientVars
<1>7. ASSUME \/ WriteRequest \/ ShutdownHeard \/ ShutdownRaises \/ ShutdownReaped
             \/ ShutdownTimesOut \/ BeginClose \/ FinishClose \/ StartRead \/ UNCHANGED vars
      PROVE  UNCHANGED results
  BY <1>7 DEF WriteRequest, ShutdownHeard, ShutdownRaises, ShutdownReaped, ShutdownTimesOut, BeginClose, FinishClose,
              StartRead, vars, clientVars
<1>8. ASSUME NEW r \in reading, FinishRead(r) PROVE UNCHANGED results
  BY <1>8 DEF FinishRead
<1>9. ASSUME NEW p \in Procs,
             \/ RelayStderr(p) \/ DaemonAnswers(p) \/ DaemonStops(p) \/ DaemonDies(p)
             \/ PipesClose(p) \/ Exits(p) \/ DaemonLogs(p)
      PROVE  UNCHANGED results
  BY <1>9 DEF RelayStderr, DaemonAnswers, DaemonStops, DaemonDies, PipesClose, Exits, DaemonLogs, clientVars
<1>. QED
  BY <1>2, <1>3, <1>4, <1>5, <1>6, <1>7, <1>8, <1>9
     DEF Next, Predict, Stop, Threads, Daemons, Closed

-----------------------------------------------------------------------------
LEMMA InitInv == Init => IInv
<1> SUFFICES ASSUME Init PROVE IInv
  OBVIOUS
<1>. USE CountsAssumption, WorkersAssumption DEF Init
<1>1. TypeOK
  <2>1. CallerType
    BY DEF CallerType, Idle, NoProc
  <2>2. PoolType
    <3>1. IsFiniteSet({}) /\ Cardinality({}) = 0
      BY FS_EmptySet
    <3>. QED  BY <3>1 DEF PoolType
  <2>3. LifeType
    BY DEF LifeType, NoProc
  <2>4. PipeType /\ StderrType
    BY DEF PipeType, StderrType
  <2>. QED  BY <2>1, <2>2, <2>3, <2>4 DEF TypeOK
<1>2. \A p \in Procs : ~Registered(p) /\ ~Awaiting(p)
  BY DEF Registered, Awaiting, Procs, NoProc, Idle
<1>3. ProcessInv /\ DaemonInv
  BY DEF ProcessInv, DaemonInv, Unstarted, Procs, NoProc
<1>4. ClientInv /\ StopInv
  BY DEF ClientInv, StopInv, At, Idle
<1>5. PipeInv /\ ReadInv
  BY <1>2 DEF PipeInv, ReadInv, Pending
<1>6. AnswersMatch
  BY DEF AnswersMatch
<1>. QED  BY <1>1, <1>3, <1>4, <1>5, <1>6 DEF IInv

LEMMA StepInv == IInv /\ [Next]_vars => IInv'
BY TypeStep, ProcessStep, ClientStep, DaemonStep, StopStep, PipeStep, AnswerStep DEF IInv

(* The inductive invariant holds in every reachable state: a running daemon is
   the registered one of its worker, an unregistered one was given up, and the
   pipes of a registered one hold at most the awaited exchange.                *)
THEOREM Invariance == Spec => []IInv
BY InitInv, StepInv, PTL DEF Spec

(* Every variable of the client, its pool, its daemons and their pipes keeps its
   type; in particular a pool never runs more reads than it has threads, and no
   predict returns more than one result.                                       *)
THEOREM TypeCorrect == Spec => []TypeOK
<1>1. IInv => TypeOK
  BY DEF IInv
<1>. QED  BY <1>1, Invariance, PTL

(* predict never returns the answer to another request: a success is the daemon's
   answer to that very call, by the worker that was asked.                     *)
THEOREM AnswersAlwaysMatch == Spec => []AnswersMatch
<1>1. IInv => AnswersMatch
  BY DEF IInv
<1>. QED  BY <1>1, Invariance, PTL

(* No read left over from an earlier call can take the next line of a registered
   daemon: one that timed out is blocked on the pipe of a killed process.      *)
THEOREM ReadsAlwaysAwaited == Spec => []ReadsAreAwaited
<1>1. IInv => ReadsAreAwaited
  <2> SUFFICES ASSUME IInv, NEW r \in reading \cup {queue[i] : i \in 1..Len(queue)},
                      NEW w \in Workers, processes[w] = r.proc
               PROVE  /\ client.at \in {"waiting", "stopping"}
                      /\ r = [proc |-> client.proc, call |-> client.call]
                      /\ future = Pending
    BY DEF ReadsAreAwaited
  <2>1. r \in Read
    BY DEF IInv, TypeOK, PoolType
  <2>2. Registered(r.proc)
    BY DEF Registered
  <2>3. Awaiting(r.proc) /\ r.call = client.call
    <3>1. CASE r \in reading
      BY <2>2, <3>1 DEF IInv, ReadInv
    <3>2. CASE r \notin reading
      <4>1. PICK i \in 1..Len(queue) : r = queue[i]
        BY <3>2
      <4>. QED  BY <2>2, <4>1 DEF IInv, ReadInv
    <3>. QED  BY <3>1, <3>2
  <2>. QED  BY <2>1, <2>3 DEF Awaiting, Read
<1>. QED  BY <1>1, Invariance, PTL

(* While the caller's own read waits for a thread, every thread is blocked on the
   pipe of a process that was killed, never on another live daemon.            *)
THEOREM OnlyTheDeadEverHoldThePool == Spec => []OnlyTheDeadHoldThePool
<1>1. IInv => OnlyTheDeadHoldThePool
  <2> SUFFICES ASSUME IInv, NEW i \in 1..Len(queue), NEW r \in reading,
                      queue[i] = [proc |-> client.proc, call |-> client.call],
                      client.proc # NoProc
               PROVE  r.proc # client.proc /\ ~running[r.proc]
    BY DEF OnlyTheDeadHoldThePool
  <2>1. queue[i].proc = client.proc
    OBVIOUS
  <2>2. r.proc # client.proc
    BY <2>1 DEF IInv, ReadInv
  <2>3. ~Registered(r.proc)
    BY <2>2 DEF IInv, ReadInv, Awaiting
  <2>4. r.proc \in Procs /\ r.proc <= started
    BY DEF IInv, TypeOK, PoolType, ReadInv, Read
  <2>. QED  BY <2>2, <2>3, <2>4 DEF IInv, ProcessInv, Registered
<1>. QED  BY <1>1, Invariance, PTL

(* At most one daemon runs per worker, and none after close.                   *)
THEOREM NeverAStrandedDaemon == Spec => []NoStrandedDaemon
<1>. USE CountsAssumption
<1>1. IInv => NoStrandedDaemon
  <2> SUFFICES ASSUME IInv PROVE NoStrandedDaemon
    OBVIOUS
  <2>1. \A p \in Procs : running[p] => workerOf[p] \in Workers /\ processes[workerOf[p]] = p
    <3> SUFFICES ASSUME NEW p \in Procs, running[p]
                 PROVE  workerOf[p] \in Workers /\ processes[workerOf[p]] = p
      OBVIOUS
    <3>1. p <= started
      BY DEF IInv, ProcessInv, Unstarted, TypeOK, LifeType, Procs
    <3>. QED  BY <3>1 DEF IInv, ProcessInv
  <2>2. phase = "closed" => queue = <<>> /\ \A p \in Procs : ~running[p]
    BY <2>1 DEF IInv, ClientInv, Procs, NoProc
  <2>. QED  BY <2>1, <2>2 DEF NoStrandedDaemon
<1>. QED  BY <1>1, Invariance, PTL

-----------------------------------------------------------------------------
\* One more result is one more reply.
LEMMA RepliesAppend ==
  ASSUME NEW r \in Result, results \in Seq(Result), results' = Append(results, r)
  PROVE  Replies' = Append(Replies, [asked |-> r.worker, succeeded |-> r.outcome = "ok",
                                     from |-> r.from, question |-> r.call])
<1>. DEFINE reply(x) == [asked |-> x.worker, succeeded |-> x.outcome = "ok",
                         from |-> x.from, question |-> x.call]
<1>1. /\ Len(results) \in Nat /\ Len(results') = Len(results) + 1
      /\ results'[Len(results) + 1] = r
      /\ \A i \in 1..Len(results) : results'[i] = results[i]
  OBVIOUS
<1>2. Replies = [i \in 1..Len(results) |-> reply(results[i])]
  BY DEF Replies
<1>3. Replies' = [i \in 1..Len(results) + 1 |-> reply(results'[i])]
  BY <1>1 DEF Replies
<1>. HIDE DEF reply
<1>4. Append(Replies, reply(r)) = [i \in 1..Len(results) + 1 |-> IF i <= Len(results) THEN reply(results[i]) ELSE reply(r)]
  BY <1>1, <1>2
<1>5. Append(Replies, reply(r)) = Replies'
  BY <1>1, <1>3, <1>4
<1>. QED  BY <1>5 DEF reply

\* A step that leaves the caller's view alone is a stutter of the service, and so
\* is one that moves the caller inside one call.
LEMMA Unseen ==
  ASSUME UNCHANGED <<results, phase>>, Asked' = Asked
  PROVE  UNCHANGED Service!vars
BY DEF Service!vars, Replies, MayAsk

\* A returning predict is an answer of the service, when what it returns is true.
LEMMA ReturnAnswers ==
  ASSUME TypeOK, ClientInv, UNCHANGED phase,
         client.at \in {"writing", "waiting"},
         NEW outcome \in Outcome, NEW call \in 0..MaxCalls, NEW from \in Workers \cup {Nobody},
         Return(outcome, call, from),
         IF outcome = "ok" THEN call = NewCall /\ from = client.worker
                           ELSE call = 0 /\ from = Nobody
  PROVE  Service!Answer
<1>. USE CountsAssumption, WorkersAssumption
<1>1. client.worker \in Workers /\ results \in Seq(Result)
  BY DEF ClientInv, At, TypeOK, CallerType
<1>. DEFINE r == [worker |-> client.worker, outcome |-> outcome, call |-> call, from |-> from]
            reply == [asked |-> r.worker, succeeded |-> r.outcome = "ok",
                      from |-> r.from, question |-> r.call]
<1>2. r \in Result /\ results' = Append(results, r)
  BY <1>1 DEF Return, Result
<1>3. Replies' = Append(Replies, reply)
  BY <1>1, <1>2, RepliesAppend
<1>4. Asked = client.worker /\ Asked' = Nobody /\ client.worker # Nobody
  BY <1>1 DEF Asked, Return, Idle, Nobody
<1>5. Len(Replies) = Len(results)
  BY <1>1 DEF Replies
<1>6. reply \in Service!Reply(Asked, Len(Replies) + 1)
  BY <1>4, <1>5 DEF Service!Reply, Service!NoOne, NewCall, Nobody
<1>. HIDE DEF reply
<1>. QED  BY <1>3, <1>4, <1>6 DEF Service!Answer, Service!NoOne, MayAsk, Nobody

LEMMA ServiceInit == Init => Service!Init
BY DEF Init, Service!Init, Asked, Replies, MayAsk, Idle, Nobody, Service!NoOne

LEMMA ServiceStep ==
  ASSUME IInv, [Next]_vars
  PROVE  [Service!Next]_(Service!vars)
<1>. USE CountsAssumption, WorkersAssumption
<1>0. TypeOK /\ ClientInv /\ ProcessInv /\ PipeInv /\ results \in Seq(Result)
  BY DEF IInv, TypeOK, CallerType
<1>1. Len(Replies) = Len(results)
  BY <1>0 DEF Replies
<1>2. ASSUME NEW w \in Workers, ReuseProcess(w) \/ StartProcess(w) PROVE Service!Ask(w)
  <2>1. At("idle") /\ phase = "open" /\ Len(results) < MaxCalls /\ UNCHANGED <<results, phase>>
    BY <1>2 DEF ReuseProcess, StartProcess
  <2>2. client'.at = "writing" /\ client'.worker = w
    BY <1>2 DEF ReuseProcess, StartProcess
  <2>. QED
    BY <1>1, <2>1, <2>2 DEF Service!Ask, Service!NoOne, Asked, Replies, MayAsk, Nobody, At
<1>3. ASSUME NEW w \in Workers, CannotStart(w) PROVE Service!Decline(w)
  <2>1. At("idle") /\ phase = "open" /\ Len(results) < MaxCalls /\ UNCHANGED <<client, phase>>
    BY <1>3 DEF CannotStart
  <2>. DEFINE r == [worker |-> w, outcome |-> "unstarted", call |-> 0, from |-> Nobody]
  <2>2. r \in Result /\ results' = Append(results, r)
    BY <1>3 DEF CannotStart, Result, Outcome
  <2>3. Replies' = Append(Replies, [asked |-> w, succeeded |-> FALSE, from |-> Nobody, question |-> 0])
    BY <1>0, <2>2, RepliesAppend
  <2>. QED
    BY <1>1, <2>1, <2>3 DEF Service!Decline, Service!NoOne, Asked, MayAsk, Nobody, At
<1>4. ASSUME WriteFails \/ PredictTimesOut PROVE Service!Answer
  <2>1. client.at \in {"writing", "waiting"} /\ UNCHANGED phase
    BY <1>4 DEF WriteFails, PredictTimesOut, At
  <2>2. \E outcome \in {"unwritten", "timeout"} : Return(outcome, 0, Nobody)
    BY <1>4 DEF WriteFails, PredictTimesOut
  <2>. QED  BY <1>0, <2>1, <2>2, ReturnAnswers DEF Outcome
<1>5. ASSUME PredictReturns PROVE Service!Answer
  <2>1. client.at = "waiting" /\ UNCHANGED phase
    BY <1>5 DEF PredictReturns, At
  <2>2. CASE future.kind = "forecast"
    <3>1. Return("ok", future.call, workerOf[client.proc])
      BY <1>5, <2>2 DEF PredictReturns
    <3>2. future.call = NewCall
      BY <1>0, <2>1, <2>2 DEF PipeInv, ClientInv
    <3>3. workerOf[client.proc] = client.worker /\ client.worker \in Workers
      BY <1>0, <2>1 DEF At, ClientInv, ProcessInv
    <3>4. NewCall \in 0..MaxCalls
      <4>1. NewCall = client.call
        BY <1>0, <2>1 DEF ClientInv
      <4>. QED  BY <1>0, <4>1 DEF TypeOK, CallerType
    <3>. QED  BY <1>0, <2>1, <3>1, <3>2, <3>3, <3>4, ReturnAnswers DEF Outcome
  <2>3. CASE future.kind # "forecast"
    <3>1. \E outcome \in {"exited", "failed", "raised"} : Return(outcome, 0, Nobody)
      BY <1>5, <2>3 DEF PredictReturns
    <3>. QED  BY <1>0, <2>1, <3>1, ReturnAnswers DEF Outcome
  <2>. QED  BY <2>2, <2>3
<1>6. ASSUME BeginClose PROVE Service!Close
  BY <1>6 DEF BeginClose, Service!Close, Service!NoOne, Asked, Replies, MayAsk, Nobody, At
<1>7. ASSUME WriteRequest PROVE UNCHANGED Service!vars
  <2>1. client'.at = "waiting" /\ client'.worker = client.worker /\ client.at = "writing"
    BY <1>0, <1>7 DEF WriteRequest, At, TypeOK, CallerType
  <2>. QED  BY <1>7, <2>1, Unseen DEF WriteRequest, Asked
<1>8. ASSUME NEW w \in Workers, BeginShutdown(w) \/ ShutdownBroken(w) PROVE UNCHANGED Service!vars
  <2>1. CASE BeginShutdown(w)
    BY <2>1, Unseen DEF BeginShutdown, Asked, At
  <2>2. CASE ShutdownBroken(w)
    BY <2>2, Unseen DEF ShutdownBroken, clientVars, Asked
  <2>. QED  BY <1>8, <2>1, <2>2
<1>9. ASSUME ShutdownHeard \/ ShutdownRaises \/ ShutdownReaped \/ ShutdownTimesOut
      PROVE  UNCHANGED Service!vars
  <2>1. CASE ShutdownHeard
    <3>1. client'.at = "reaping" /\ client.at = "stopping"
      BY <1>0, <2>1 DEF ShutdownHeard, At, TypeOK, CallerType
    <3>. QED  BY <2>1, <3>1, Unseen DEF ShutdownHeard, Asked
  <2>2. CASE ShutdownReaped \/ ShutdownTimesOut
    <3>1. client' = Idle /\ client.at \in {"stopping", "reaping"} /\ UNCHANGED <<results, phase>>
      BY <2>2 DEF ShutdownReaped, ShutdownTimesOut, At
    <3>. QED  BY <3>1, Unseen DEF Asked, Idle
  <2>3. CASE ShutdownRaises
    <3>1. /\ client' = Idle /\ client.at = "stopping" /\ UNCHANGED results
          /\ phase' = "open" <=> phase = "open"
      BY <2>3 DEF ShutdownRaises, At
    <3>. QED  BY <3>1 DEF Service!vars, Replies, MayAsk, Asked, Idle
  <2>. QED  BY <1>9, <2>1, <2>2, <2>3
<1>10. ASSUME FinishClose PROVE UNCHANGED Service!vars
  BY <1>10 DEF FinishClose, Service!vars, Asked, Replies, MayAsk
<1>11. ASSUME UNCHANGED <<client, results, phase>> PROVE UNCHANGED Service!vars
  BY <1>11, Unseen DEF Asked
<1>12. ASSUME StartRead \/ UNCHANGED vars PROVE UNCHANGED Service!vars
  BY <1>11, <1>12 DEF StartRead, vars, clientVars
<1>13. ASSUME NEW r \in reading, FinishRead(r) PROVE UNCHANGED Service!vars
  BY <1>11, <1>13 DEF FinishRead
<1>14. ASSUME NEW p \in Procs,
              \/ RelayStderr(p) \/ DaemonAnswers(p) \/ DaemonStops(p) \/ DaemonDies(p)
              \/ PipesClose(p) \/ Exits(p) \/ DaemonLogs(p)
       PROVE  UNCHANGED Service!vars
  BY <1>11, <1>14
     DEF RelayStderr, DaemonAnswers, DaemonStops, DaemonDies, PipesClose, Exits, DaemonLogs, clientVars
<1>. QED
  BY <1>2, <1>3, <1>4, <1>5, <1>6, <1>7, <1>8, <1>9, <1>10, <1>12, <1>13, <1>14
     DEF Next, Predict, Stop, Threads, Daemons, Closed, Service!Next

(* The client implements the abstract service: one reply per question, in order;
   a successful reply is the asked worker's answer to that very question; none
   is asked after close begins.                                                *)
THEOREM Implementation == Spec => ImplementsService
BY Invariance, ServiceInit, ServiceStep, PTL DEF Spec, Service!Spec, ImplementsService

=============================================================================
