------------------------------ MODULE WarmClient ------------------------------
(***************************************************************************)
(* DockerWarmForecastClient (forecast_daemon_client.py) with the daemons it *)
(* starts (docker/*/daemon.py), the pipes between them, its reader pool and *)
(* its stderr threads.  The client keeps one long-lived process per worker, *)
(* writes one JSON line per request and reads one line back under a timeout.*)
(* Nothing in a line says which request it answers: that an answer belongs  *)
(* to the request it is returned for rests on the client's discipline alone.*)
(*                                                                         *)
(* The caller is one thread, as every caller in the repository is.  Daemons,*)
(* reader threads, stderr threads, pipes and timers take steps of their own.*)
(* An answer is modelled by the number of the call it was computed for.     *)
(***************************************************************************)
EXTENDS Naturals, Sequences, FiniteSets

CONSTANTS
  Workers,    \* the two model workers
  MaxCalls,   \* bound: calls of predict
  MaxProcs,   \* bound: processes started
  PoolSize,   \* max_workers of the reader pool (4 in the code)
  MaxLog,     \* bound: lines one process writes to stderr
  Loggers     \* bound: the processes that write any

ASSUME CountsAssumption ==
  /\ MaxCalls \in Nat
  /\ MaxProcs \in Nat
  /\ MaxLog \in Nat
  /\ PoolSize \in Nat \ {0}

ASSUME WorkersAssumption == "nobody" \notin Workers

VARIABLES
  \* the client object
  processes,       \* _processes: worker -> process, or NoProc
  stderr_buffers,  \* _stderr_buffers: worker -> stderr lines read
  queue,           \* reads submitted to the pool and not started
  reading,         \* reads a pool thread is blocked in
  phase,           \* "open", "closing" (inside close), "closed" (_closed), or
                   \* "raised" (an exception has left close)
  \* the calling thread
  client,          \* where it is, on which worker and process, for which call
  future,          \* the line its future holds, or Pending
  results,         \* what each predict returned
  \* the processes and their pipes
  started,         \* number of processes started
  workerOf,        \* process -> the worker it runs
  running,         \* the daemon loop is running
  open,            \* the write end of its stdout (and its stdin) is open
  exited,          \* poll() no longer returns None
  stdin,           \* process -> lines written and not yet consumed
  stdout,          \* process -> lines printed and not yet read
  logged,          \* process -> number of stderr lines printed
  relayed          \* process -> number of those its stderr thread has read

clientVars  == <<client, future, results, phase>>
poolVars    == <<queue, reading>>
pipeVars    == <<stdin, stdout>>
lifeVars    == <<running, open, exited>>
startVars   == <<started, workerOf>>
stderrVars  == <<stderr_buffers, logged, relayed>>
vars == <<clientVars, poolVars, pipeVars, lifeVars, startVars, stderrVars, processes>>

-----------------------------------------------------------------------------
NoProc   == 0
Procs    == 1..MaxProcs
Calls    == 1..MaxCalls
Shutdown == 0                    \* the shutdown command, in place of a call
Nobody   == "nobody"

\* A line on stdout: a forecast or an error object for a call, the shutdown
\* acknowledgement, a line that holds bytes that are no UTF-8 (what a library
\* prints past Python's redirected stdout comes before the answer on its line),
\* or what a dying daemon left of a line.
Line    == [kind : {"forecast", "error", "bye", "undecodable", "torn"}, call : 0..MaxCalls]
EOF     == [kind |-> "eof", call |-> 0]
Pending == [kind |-> "pending", call |-> 0]

\* A read of a process's stdout, on behalf of a call (or of a shutdown).
Read == [proc : Procs, call : 0..MaxCalls]

\* Line n of what process p writes to stderr.
Diagnostic(p, n) == [proc |-> p, line |-> n]
Diagnostics == [proc : Procs, line : 1..MaxLog]

\* "raised": predict ended with an exception instead of a result.
Outcome == {"ok", "failed", "exited", "timeout", "unwritten", "unstarted", "raised"}
Result  == [worker : Workers, outcome : Outcome, call : 0..MaxCalls,
            from : Workers \cup {Nobody}]

Idle == [at |-> "idle", worker |-> Nobody, proc |-> NoProc, call |-> 0]
At(place) == client.at = place

CallerType ==
  /\ phase \in {"open", "closing", "closed", "raised"}
  /\ client \in [at : {"idle", "writing", "waiting", "stopping", "reaping"},
                 worker : Workers \cup {Nobody}, proc : 0..MaxProcs, call : 0..MaxCalls]
  /\ future \in Line \cup {EOF, Pending}
  /\ results \in Seq(Result)
  /\ Len(results) <= MaxCalls

PoolType ==
  /\ queue \in Seq(Read)
  /\ reading \subseteq Read
  /\ IsFiniteSet(reading)
  /\ Cardinality(reading) <= PoolSize

LifeType ==
  /\ processes \in [Workers -> 0..MaxProcs]
  /\ started \in 0..MaxProcs
  /\ workerOf \in [Procs -> Workers \cup {Nobody}]
  /\ running \in [Procs -> BOOLEAN]
  /\ open \in [Procs -> BOOLEAN]
  /\ exited \in [Procs -> BOOLEAN]

PipeType ==
  /\ stdin \in [Procs -> Seq(0..MaxCalls)]
  /\ stdout \in [Procs -> Seq(Line)]

StderrType ==
  /\ stderr_buffers \in [Workers -> Seq(Diagnostics)]
  /\ logged \in [Procs -> 0..MaxLog]
  /\ relayed \in [Procs -> 0..MaxLog]

TypeOK == CallerType /\ PoolType /\ LifeType /\ PipeType /\ StderrType

Init ==
  /\ processes = [w \in Workers |-> NoProc]
  /\ stderr_buffers = [w \in Workers |-> <<>>]
  /\ queue = <<>>
  /\ reading = {}
  /\ phase = "open"
  /\ client = Idle
  /\ future = Pending
  /\ results = <<>>
  /\ started = 0
  /\ workerOf = [p \in Procs |-> Nobody]
  /\ running = [p \in Procs |-> FALSE]
  /\ open = [p \in Procs |-> FALSE]
  /\ exited = [p \in Procs |-> FALSE]
  /\ stdin = [p \in Procs |-> <<>>]
  /\ stdout = [p \in Procs |-> <<>>]
  /\ logged = [p \in Procs |-> 0]
  /\ relayed = [p \in Procs |-> 0]

-----------------------------------------------------------------------------
(* Steps shared by several operations. *)

\* _kill_worker: forget the process, send it SIGKILL, wait for it for a while.
\* Whether the wait sees the exit status or runs out makes no difference, as
\* nothing polls the process again; it is taken as seen.  The pipes stay open
\* until whoever else holds them lets go (PipesClose).
KillWorker(w) ==
  LET p == processes[w] IN
  /\ processes' = [processes EXCEPT ![w] = NoProc]
  /\ IF p = NoProc
     THEN UNCHANGED <<running, exited, stdin>>
     ELSE /\ running' = [running EXCEPT ![p] = FALSE]
          /\ exited' = [exited EXCEPT ![p] = TRUE]
          /\ stdin' = [stdin EXCEPT ![p] = <<>>]

\* Write a line to p's stdin and flush it.  The pipe takes it as long as it is
\* open; only a running daemon will ever read it.
Write(p, message) ==
  /\ open[p]
  /\ stdin' = IF running[p] THEN [stdin EXCEPT ![p] = Append(@, message)] ELSE stdin

\* _readline submits p's readline to the pool and waits on the future.
SubmitRead(p, call) ==
  /\ queue' = Append(queue, [proc |-> p, call |-> call])
  /\ future' = Pending

\* predict returns; the calling thread is free again.
Return(outcome, call, from) ==
  /\ results' = Append(results, [worker |-> client.worker, outcome |-> outcome,
                                 call |-> call, from |-> from])
  /\ client' = Idle
  /\ future' = Pending

NewCall == Len(results) + 1

-----------------------------------------------------------------------------
(* predict *)

\* _process_for finds a process that has not been seen to exit.
ReuseProcess(w) ==
  /\ phase = "open" /\ At("idle") /\ Len(results) < MaxCalls
  /\ processes[w] # NoProc
  /\ ~exited[processes[w]]
  /\ client' = [at |-> "writing", worker |-> w, proc |-> processes[w], call |-> NewCall]
  /\ UNCHANGED <<future, results, phase, poolVars, pipeVars, lifeVars, startVars,
                 stderrVars, processes>>

\* _process_for has no live process: it empties the stderr buffer and starts one
\* with a stderr thread of its own.
StartProcess(w) ==
  LET p == started + 1 IN
  /\ phase = "open" /\ At("idle") /\ Len(results) < MaxCalls
  /\ processes[w] # NoProc => exited[processes[w]]
  /\ started < MaxProcs
  /\ started' = p
  /\ workerOf' = [workerOf EXCEPT ![p] = w]
  /\ running' = [running EXCEPT ![p] = TRUE]
  /\ open' = [open EXCEPT ![p] = TRUE]
  /\ processes' = [processes EXCEPT ![w] = p]
  /\ stderr_buffers' = [stderr_buffers EXCEPT ![w] = <<>>]
  /\ client' = [at |-> "writing", worker |-> w, proc |-> p, call |-> NewCall]
  /\ UNCHANGED <<exited, future, results, phase, poolVars, pipeVars, logged, relayed>>

\* Popen raises OSError: the buffer is already emptied and the dead process, if
\* any, is still registered.
CannotStart(w) ==
  /\ phase = "open" /\ At("idle") /\ Len(results) < MaxCalls
  /\ processes[w] # NoProc => exited[processes[w]]
  /\ stderr_buffers' = [stderr_buffers EXCEPT ![w] = <<>>]
  /\ results' = Append(results, [worker |-> w, outcome |-> "unstarted", call |-> 0,
                                 from |-> Nobody])
  /\ UNCHANGED <<client, future, phase, poolVars, pipeVars, lifeVars, startVars,
                 logged, relayed, processes>>

WriteRequest ==
  /\ At("writing")
  /\ Write(client.proc, client.call)
  /\ SubmitRead(client.proc, client.call)
  /\ client' = [client EXCEPT !.at = "waiting"]
  /\ UNCHANGED <<results, phase, reading, stdout, lifeVars, startVars, stderrVars, processes>>

WriteFails ==
  /\ At("writing")
  /\ ~open[client.proc]
  /\ KillWorker(client.worker)
  /\ Return("unwritten", 0, Nobody)
  /\ UNCHANGED <<phase, poolVars, stdout, open, startVars, stderrVars>>

\* Faulty variant: whatever line comes is taken for a forecast.
PredictReturnsAnyLine ==
  /\ At("waiting")
  /\ future # Pending
  /\ IF future.kind = "eof" THEN Return("exited", 0, Nobody)
                            ELSE Return("ok", future.call, workerOf[client.proc])
  /\ UNCHANGED <<phase, poolVars, pipeVars, lifeVars, startVars, stderrVars, processes>>

\* The future holds a line: end of file, a forecast, or something
\* forecast_result_from_completed turns into a failure.  Or it holds the
\* UnicodeDecodeError of the pool thread's readline, which predict does not catch:
\* the daemon is then neither killed nor forgotten.
PredictReturns ==
  /\ At("waiting")
  /\ future # Pending
  /\ CASE future.kind = "eof"         -> Return("exited", 0, Nobody)
       [] future.kind = "forecast"    -> Return("ok", future.call, workerOf[client.proc])
       [] future.kind = "undecodable" -> Return("raised", 0, Nobody)
       [] OTHER                       -> Return("failed", 0, Nobody)
  /\ UNCHANGED <<phase, poolVars, pipeVars, lifeVars, startVars, stderrVars, processes>>

\* Faulty variant: a timeout is reported, but the daemon is kept for the next call.
PredictTimesOutKeeping ==
  /\ At("waiting")
  /\ future = Pending
  /\ Return("timeout", 0, Nobody)
  /\ UNCHANGED <<phase, poolVars, pipeVars, lifeVars, startVars, stderrVars, processes>>

\* Faulty variant: the read is cancelled instead, which works for one not started.
PredictTimesOutCancelling ==
  /\ At("waiting")
  /\ future = Pending
  /\ queue' = SelectSeq(queue, LAMBDA r : r.proc # client.proc)
  /\ Return("timeout", 0, Nobody)
  /\ UNCHANGED <<phase, reading, pipeVars, lifeVars, startVars, stderrVars, processes>>

\* Faulty variant: future.result is given no timeout, so only the end of the daemon
\* ends the wait.
PredictNeverTimesOut ==
  /\ At("waiting")
  /\ future = Pending
  /\ ~running[client.proc]
  /\ KillWorker(client.worker)
  /\ Return("timeout", 0, Nobody)
  /\ UNCHANGED <<phase, poolVars, stdout, open, startVars, stderrVars>>

\* future.result gives up: the process is killed, because its answer, if it
\* still came, could not be told from the answer to the next request.
PredictTimesOut ==
  /\ At("waiting")
  /\ future = Pending
  /\ KillWorker(client.worker)
  /\ Return("timeout", 0, Nobody)
  /\ UNCHANGED <<phase, poolVars, stdout, open, startVars, stderrVars>>

-----------------------------------------------------------------------------
(* shutdown and close *)

BeginShutdown(w) ==
  LET p == processes[w] IN
  /\ phase \in {"open", "closing"} /\ At("idle")
  /\ p # NoProc
  /\ Write(p, Shutdown)
  /\ SubmitRead(p, Shutdown)
  /\ client' = [at |-> "stopping", worker |-> w, proc |-> p, call |-> Shutdown]
  /\ UNCHANGED <<results, phase, reading, stdout, lifeVars, startVars, stderrVars, processes>>

\* The shutdown line cannot be written: kill, and drop the entry.
ShutdownBroken(w) ==
  /\ phase \in {"open", "closing"} /\ At("idle")
  /\ processes[w] # NoProc
  /\ ~open[processes[w]]
  /\ KillWorker(w)
  /\ UNCHANGED <<clientVars, poolVars, stdout, open, startVars, stderrVars>>

\* Whatever line came (it is not looked at), wait for the process next.
ShutdownHeard ==
  /\ At("stopping")
  /\ future # Pending
  /\ future.kind # "undecodable"
  /\ client' = [client EXCEPT !.at = "reaping"]
  /\ future' = Pending
  /\ UNCHANGED <<results, phase, poolVars, pipeVars, lifeVars, startVars, stderrVars,
                 processes>>

\* The UnicodeDecodeError of the read is not caught: the entry is dropped, the
\* process is not killed, and inside close the exception leaves close as well,
\* before the workers that follow are shut down and the pool is.  (As in KillWorker
\* its exit status is taken as seen, for nothing asks for it again.)
ShutdownRaises ==
  /\ At("stopping")
  /\ future.kind = "undecodable"
  /\ processes' = [processes EXCEPT ![client.worker] = NoProc]
  /\ exited' = [exited EXCEPT ![client.proc] = TRUE]
  /\ phase' = IF phase = "closing" THEN "raised" ELSE phase
  /\ client' = Idle
  /\ future' = Pending
  /\ UNCHANGED <<results, poolVars, pipeVars, running, open, startVars, stderrVars>>

ShutdownReaped ==
  /\ At("reaping")
  /\ exited[client.proc]
  /\ processes' = [processes EXCEPT ![client.worker] = NoProc]
  /\ client' = Idle
  /\ UNCHANGED <<future, results, phase, poolVars, pipeVars, lifeVars, startVars, stderrVars>>

\* Faulty variant: the entry is dropped, the process is not killed.
ShutdownAbandons ==
  /\ \/ At("stopping") /\ future = Pending
     \/ At("reaping") /\ ~exited[client.proc]
  /\ processes' = [processes EXCEPT ![client.worker] = NoProc]
  /\ client' = Idle
  /\ UNCHANGED <<future, results, phase, poolVars, pipeVars, lifeVars, startVars, stderrVars>>

\* Faulty variant: only the wait for the process has a timeout, the read has none.
ShutdownReadsForEver ==
  /\ At("reaping") /\ ~exited[client.proc]
  /\ KillWorker(client.worker)
  /\ client' = Idle
  /\ UNCHANGED <<future, results, phase, poolVars, stdout, open, startVars, stderrVars>>

\* Either wait of shutdown runs out: kill.
ShutdownTimesOut ==
  /\ \/ At("stopping") /\ future = Pending
     \/ At("reaping") /\ ~exited[client.proc]
  /\ KillWorker(client.worker)
  /\ client' = Idle
  /\ UNCHANGED <<future, results, phase, poolVars, stdout, open, startVars, stderrVars>>

\* close shuts every registered worker down, one after the other ...
BeginClose ==
  /\ phase = "open" /\ At("idle")
  /\ phase' = "closing"
  /\ UNCHANGED <<client, future, results, poolVars, pipeVars, lifeVars, startVars,
                 stderrVars, processes>>

\* ... and then cancels the reads no thread has started.
FinishClose ==
  /\ phase = "closing" /\ At("idle")
  /\ \A w \in Workers : processes[w] = NoProc
  /\ queue' = <<>>
  /\ phase' = "closed"
  /\ UNCHANGED <<client, future, results, reading, pipeVars, lifeVars, startVars,
                 stderrVars, processes>>

\* A closed client does nothing more, nor one whose close has raised.
Closed == phase \in {"closed", "raised"} /\ UNCHANGED vars

-----------------------------------------------------------------------------
(* The reader pool and the stderr threads *)

StartRead ==
  /\ queue # <<>>
  /\ Cardinality(reading) < PoolSize
  /\ reading' = reading \cup {Head(queue)}
  /\ queue' = Tail(queue)
  /\ UNCHANGED <<clientVars, pipeVars, lifeVars, startVars, stderrVars, processes>>

\* readline returns a whole line, or, when the pipe has closed, what is left.
Readable(p) ==
  IF stdout[p] = <<>> THEN ~open[p] ELSE Head(stdout[p]).kind # "torn" \/ ~open[p]

\* A pool thread's readline returns.  The line reaches the caller only if the
\* caller still waits on this very future; otherwise it is lost.
FinishRead(r) ==
  LET line == IF stdout[r.proc] = <<>> THEN EOF ELSE Head(stdout[r.proc]) IN
  /\ r \in reading
  /\ Readable(r.proc)
  /\ reading' = reading \ {r}
  /\ stdout' = IF stdout[r.proc] = <<>> THEN stdout
               ELSE [stdout EXCEPT ![r.proc] = Tail(@)]
  /\ future' = IF /\ At("waiting") \/ At("stopping")
                  /\ r = [proc |-> client.proc, call |-> client.call]
               THEN line ELSE future
  /\ UNCHANGED <<client, results, phase, queue, stdin, lifeVars, startVars, stderrVars,
                 processes>>

\* A stderr thread appends to the buffer of its worker, also when the process
\* it belongs to has been replaced.
RelayStderr(p) ==
  /\ relayed[p] < logged[p]
  /\ relayed' = [relayed EXCEPT ![p] = @ + 1]
  /\ stderr_buffers' = [stderr_buffers EXCEPT ![workerOf[p]] = Append(@, Diagnostic(p, relayed[p] + 1))]
  /\ UNCHANGED <<clientVars, poolVars, pipeVars, lifeVars, startVars, logged, processes>>

-----------------------------------------------------------------------------
(* The daemon and its pipes *)

\* handle_line answers one request with one line: a forecast, or an error object,
\* or one the client cannot decode.
DaemonAnswers(p) ==
  /\ running[p] /\ stdin[p] # <<>>
  /\ Head(stdin[p]) # Shutdown
  /\ stdin' = [stdin EXCEPT ![p] = Tail(@)]
  /\ \E kind \in {"forecast", "error", "undecodable"} :
       stdout' = [stdout EXCEPT ![p] = Append(@, [kind |-> kind, call |-> Head(stdin[p])])]
  /\ UNCHANGED <<clientVars, poolVars, lifeVars, startVars, stderrVars, processes>>

\* The shutdown command is acknowledged and the loop returns.
DaemonStops(p) ==
  /\ running[p] /\ stdin[p] # <<>>
  /\ Head(stdin[p]) = Shutdown
  /\ stdin' = [stdin EXCEPT ![p] = <<>>]
  /\ \E kind \in {"bye", "undecodable"} :
       stdout' = [stdout EXCEPT ![p] = Append(@, [kind |-> kind, call |-> Shutdown])]
  /\ running' = [running EXCEPT ![p] = FALSE]
  /\ UNCHANGED <<clientVars, poolVars, open, exited, startVars, stderrVars, processes>>

\* The daemon dies (killed, out of memory, container removed), possibly while
\* printing an answer.
DaemonDies(p) ==
  /\ running[p]
  /\ running' = [running EXCEPT ![p] = FALSE]
  /\ stdin' = [stdin EXCEPT ![p] = <<>>]
  /\ \/ UNCHANGED stdout
     \/ /\ stdin[p] # <<>>
        /\ stdout' = [stdout EXCEPT ![p] = Append(@, [kind |-> "torn", call |-> 0])]
  /\ UNCHANGED <<clientVars, poolVars, open, exited, startVars, stderrVars, processes>>

\* After the daemon is gone its pipes may close and its exit status may appear, in
\* either order.  Neither need happen: of a killed docker process the container is
\* left, and whatever else holds the pipe may hold it for ever.
PipesClose(p) ==
  /\ p <= started /\ ~running[p] /\ open[p]
  /\ open' = [open EXCEPT ![p] = FALSE]
  /\ UNCHANGED <<clientVars, poolVars, pipeVars, running, exited, startVars, stderrVars,
                 processes>>

Exits(p) ==
  /\ p <= started /\ ~running[p] /\ ~exited[p]
  /\ exited' = [exited EXCEPT ![p] = TRUE]
  /\ UNCHANGED <<clientVars, poolVars, pipeVars, running, open, startVars, stderrVars,
                 processes>>

DaemonLogs(p) ==
  /\ running[p] /\ p \in Loggers /\ logged[p] < MaxLog
  /\ logged' = [logged EXCEPT ![p] = @ + 1]
  /\ UNCHANGED <<clientVars, poolVars, pipeVars, lifeVars, startVars, stderr_buffers,
                 relayed, processes>>

-----------------------------------------------------------------------------
Predict == \/ \E w \in Workers : ReuseProcess(w) \/ StartProcess(w) \/ CannotStart(w)
           \/ WriteRequest \/ WriteFails \/ PredictReturns \/ PredictTimesOut

Stop == \/ \E w \in Workers : BeginShutdown(w) \/ ShutdownBroken(w)
        \/ ShutdownHeard \/ ShutdownRaises \/ ShutdownReaped \/ ShutdownTimesOut
        \/ BeginClose \/ FinishClose

Threads == \/ StartRead
           \/ \E r \in reading : FinishRead(r)
           \/ \E p \in Procs : RelayStderr(p)

Daemons == \E p \in Procs : \/ DaemonAnswers(p) \/ DaemonStops(p) \/ DaemonDies(p)
                            \/ PipesClose(p) \/ Exits(p) \/ DaemonLogs(p)

Next == Predict \/ Stop \/ Threads \/ Daemons \/ Closed

Spec == Init /\ [][Next]_vars

(* Fairness: the operating system runs the threads of the program and fires its
   timers, and a read of a pipe that holds a line, or that is closed, returns; the
   caller keeps going inside predict and close.  Nothing is assumed of the daemon
   (a model may compute for ever), nor that the pipe of one that is gone is ever
   closed or its exit status ever seen, and nothing makes the caller ask or close. *)
CallerProceeds == WriteRequest \/ WriteFails \/ PredictReturns \/ PredictTimesOut
                  \/ ShutdownHeard \/ ShutdownRaises \/ ShutdownReaped \/ ShutdownTimesOut

CloseProceeds == /\ phase = "closing"
                 /\ FinishClose \/ \E w \in Workers : BeginShutdown(w) \/ ShutdownBroken(w)

Fairness ==
  /\ WF_vars(CallerProceeds)
  /\ WF_vars(CloseProceeds)
  /\ WF_vars(StartRead)
  /\ \A p \in Procs : WF_vars(\E r \in reading : r.proc = p /\ FinishRead(r))

FairSpec == Spec /\ Fairness

-----------------------------------------------------------------------------
(* Safety *)

\* A prediction reported as succeeded is the daemon's answer to that very
\* request, computed by the worker that was asked: a late answer to a request
\* that timed out is never returned for a later one.
AnswersMatch ==
  \A i \in 1..Len(results) :
    results[i].outcome = "ok" =>
      results[i].call = i /\ results[i].from = results[i].worker

\* A read of a registered process's stdout exists only while the caller awaits
\* it, for that call: the line a daemon prints next cannot be taken by a read
\* left over from an earlier call.
ReadsAreAwaited ==
  \A r \in reading \cup {queue[i] : i \in 1..Len(queue)} :
    (\E w \in Workers : processes[w] = r.proc) =>
      /\ client.at \in {"waiting", "stopping"}
      /\ r = [proc |-> client.proc, call |-> client.call]
      /\ future = Pending

\* The reader pool is held up only by processes that are gone: when the caller's
\* own read finds every thread taken, each of them is blocked on the pipe of a
\* process that was killed or has died.
OnlyTheDeadHoldThePool ==
  \A i \in 1..Len(queue) :
    queue[i] = [proc |-> client.proc, call |-> client.call] /\ client.proc # NoProc =>
      \A r \in reading : r.proc # client.proc /\ ~running[r.proc]

\* A worker never has two processes running (each holds a model in memory), and
\* once the client is closed none runs and no read is left to start.  (What is
\* left in a container whose docker process was killed is Docker's affair.)
NoStrandedDaemon ==
  /\ \A p, q \in Procs : running[p] /\ running[q] /\ workerOf[p] = workerOf[q] => p = q
  /\ phase = "closed" => queue = <<>> /\ \A p \in Procs : ~running[p]

(* The inductive invariant behind these properties.  In words: a running daemon
   is the registered one of its worker; and the pipes of a registered process are
   empty, and unread, except between the write of a request and the arrival of
   its one answer, when together they hold at most that request or that answer,
   with one read waiting for it.  *)
Registered(p) == \E w \in Workers : processes[w] = p

Awaiting(p) == client.at \in {"waiting", "stopping"} /\ client.proc = p /\ future = Pending

Unstarted(p) ==
  /\ ~running[p] /\ ~open[p] /\ ~exited[p]
  /\ stdin[p] = <<>> /\ stdout[p] = <<>>


ProcessInv ==
  /\ \A p \in Procs : p > started => Unstarted(p)
  /\ \A p \in Procs : p <= started =>
       workerOf[p] \in Workers /\ (running[p] => processes[workerOf[p]] = p)
  /\ \A p \in Procs : exited[p] => ~running[p]
  /\ \A w \in Workers : processes[w] # NoProc =>
       processes[w] <= started /\ workerOf[processes[w]] = w

ClientInv ==
  /\ At("idle") => client = Idle
  /\ ~At("idle") =>
       client.worker \in Workers /\ client.proc # NoProc /\ processes[client.worker] = client.proc
  /\ client.at \in {"writing", "waiting"} => phase = "open" /\ client.call = NewCall
  /\ client.at \in {"stopping", "reaping"} =>
       phase \in {"open", "closing"} /\ client.call = Shutdown
  /\ client.at \notin {"waiting", "stopping"} => future = Pending
  /\ phase = "closed" => queue = <<>> /\ \A w \in Workers : processes[w] = NoProc

\* A daemon that has printed anything after the shutdown line has stopped, and so
\* has one whose pipe has ended: what shutdown gives up unkilled no longer runs.
StopInv ==
  At("stopping") /\ (future # Pending \/ stdout[client.proc] # <<>>) => ~running[client.proc]

PipeInv ==
  /\ \A p \in Procs : Registered(p) /\ ~Awaiting(p) => stdin[p] = <<>> /\ stdout[p] = <<>>
  /\ \A p \in Procs : Registered(p) /\ Awaiting(p) =>
       /\ Len(stdin[p]) + Len(stdout[p]) <= 1
       /\ \A i \in 1..Len(stdin[p]) : stdin[p][i] = client.call
       /\ \A i \in 1..Len(stdout[p]) :
            stdout[p][i].kind = "forecast" => stdout[p][i].call = client.call
  /\ future.kind = "forecast" => future.call = client.call

ReadInv ==
  /\ \A r \in reading : r.proc <= started
  /\ \A i \in 1..Len(queue) : queue[i].proc <= started
  /\ \A r \in reading : Registered(r.proc) => Awaiting(r.proc) /\ r.call = client.call
  /\ \A i \in 1..Len(queue) :
       Registered(queue[i].proc) => Awaiting(queue[i].proc) /\ queue[i].call = client.call
  /\ \A i, j \in 1..Len(queue) : queue[i].proc = queue[j].proc => i = j
  /\ \A i \in 1..Len(queue) : \A r \in reading : r.proc # queue[i].proc

DaemonInv ==
  \A p \in Procs : (running[p] => open[p]) /\ (~running[p] => stdin[p] = <<>>)

IInv == /\ TypeOK /\ ProcessInv /\ ClientInv /\ DaemonInv /\ StopInv
        /\ PipeInv /\ ReadInv /\ AnswersMatch

-----------------------------------------------------------------------------
(* Liveness *)

\* predict returns, also when the daemon hangs, dies or never starts reading.
PredictEnds == client.at \in {"writing", "waiting"} ~> At("idle")

\* close comes to an end: the daemons are gone, unless a line that cannot be decoded
\* makes it raise.  The interpreter joins the reader threads before it exits, and it
\* can: every read, started or still queued, comes to an end too, unless the pipe of
\* a daemon that is gone is held open for ever, on which nothing has a timeout.
PipeHeldForEver == \E p \in Procs : <>[](~running[p] /\ open[p])

CloseEnds ==
  /\ phase = "closing" ~> [](\/ phase = "closed" /\ \A p \in Procs : ~running[p]
                             \/ phase = "raised")
  /\ PipeHeldForEver \/ (phase = "closing" ~> [](queue = <<>> /\ reading = {}))

-----------------------------------------------------------------------------
(* What a caller sees of the client: the reply it waits for, those it has had, *)
(* and whether it may still ask.  Every behaviour is one of the abstract       *)
(* service; writing, waiting, killing, reaping and all the daemons do is       *)
(* stuttering.                                                                 *)
Asked == IF client.at \in {"writing", "waiting"} THEN client.worker ELSE Nobody

Replies == [i \in 1..Len(results) |->
             [asked |-> results[i].worker,
              succeeded |-> results[i].outcome = "ok",
              from |-> results[i].from,
              question |-> results[i].call]]

MayAsk == phase = "open"

Service == INSTANCE ForecastService WITH pending <- Asked, replies <- Replies, open <- MayAsk

\* A caller is told the truth: one reply per question, and a successful one is
\* the asked worker's answer to that question.
ImplementsService == Service!Spec
=============================================================================
