---------------------------- MODULE DaemonPredictCli ----------------------------
(***************************************************************************)
(* The command `ml_daemon_predict` (ml_daemon_predict_runner.py): one caller *)
(* of the warm client, which repeats one request to one worker, forwards the *)
(* daemon's diagnostics to its own stderr as the results come in, stops at   *)
(* the first failure, and closes the client whatever happened.               *)
(*                                                                         *)
(* raw_stderr is the worker's whole buffer at the time predict returns; the  *)
(* command remembers how much of it was there the last time.  Lengths are    *)
(* counted in lines of equal length here, in characters in the code.         *)
(***************************************************************************)
EXTENDS WarmClient, SequencesExt

CONSTANT Worker    \* the worker asked for
ASSUME WorkerAssumption == Worker \in Workers

VARIABLES
  raw_stderr,      \* of the result not handled yet, or of the last one
  handled,         \* results handled by the loop
  stderr_offset,   \* how much of raw_stderr has been forwarded
  printed,         \* what the command wrote to its stderr
  status,          \* "ok" or "error"
  response         \* how many predictions the response counts, Unprinted, or
                   \* Traceback in its place

cliVars == <<raw_stderr, handled, stderr_offset, printed, status, response>>
allVars == <<vars, cliVars>>

Repeat    == MaxCalls
Unprinted == MaxCalls + 1
Traceback == MaxCalls + 2

\* The message predict adds to the diagnostics of a request that timed out.
TimeoutMessage == [proc |-> NoProc, line |-> 0]

CliInit ==
  /\ Init
  /\ raw_stderr = <<>>
  /\ handled = 0
  /\ stderr_offset = 0
  /\ printed = <<>>
  /\ status = "ok"
  /\ response = Unprinted

\* An exception has left predict, and with it the loop: there is no result to handle.
Escaped == results # <<>> /\ results[Len(results)].outcome = "raised"

Looping == status = "ok" /\ handled < Repeat /\ ~Escaped

\* What _stderr_for returns as predict returns.
RawStderr(outcome) ==
  stderr_buffers'[Worker] \o IF outcome = "timeout" THEN <<TimeoutMessage>> ELSE <<>>

\* The loop is inside client.predict, or enters it.
Request ==
  /\ Looping
  /\ handled = Len(results)
  /\ \/ ReuseProcess(Worker) \/ StartProcess(Worker) \/ CannotStart(Worker)
     \/ WriteRequest \/ WriteFails \/ PredictReturns \/ PredictTimesOut
  /\ raw_stderr' = IF results' = results \/ Escaped' THEN raw_stderr
                   ELSE RawStderr(results'[Len(results')].outcome)
  /\ UNCHANGED <<handled, stderr_offset, printed, status, response>>

\* Faulty variant: the whole buffer is forwarded every time.
HandleWithoutOffset ==
  /\ Looping
  /\ handled < Len(results)
  /\ handled' = handled + 1
  /\ printed' = printed \o raw_stderr
  /\ stderr_offset' = Len(raw_stderr)
  /\ status' = IF results[handled'].outcome = "ok" THEN "ok" ELSE "error"
  /\ UNCHANGED <<vars, raw_stderr, response>>

\* A result is handled: the new part of its diagnostics goes to stderr, and a
\* failure ends the loop.
Handle ==
  /\ Looping
  /\ handled < Len(results)
  /\ handled' = handled + 1
  /\ printed' = printed \o SubSeq(raw_stderr, stderr_offset + 1, Len(raw_stderr))
  /\ stderr_offset' = IF raw_stderr = <<>> THEN stderr_offset ELSE Len(raw_stderr)
  /\ status' = IF results[handled'].outcome = "ok" THEN "ok" ELSE "error"
  /\ UNCHANGED <<vars, raw_stderr, response>>

\* Faulty variant: the client is not a context manager, and is closed only after
\* the last request has succeeded.
LeaveAfterSuccess ==
  /\ ~Looping
  /\ status = "ok"
  /\ BeginClose \/ (phase = "closing" /\ Stop)
  /\ UNCHANGED cliVars

\* Leaving the with block closes the client, after success and after failure.
Leave ==
  /\ ~Looping
  /\ BeginClose \/ (phase = "closing" /\ Stop)
  /\ UNCHANGED cliVars

\* The response is printed after the with block, once.
PrintResponse ==
  /\ phase = "closed" /\ ~Escaped
  /\ response = Unprinted
  /\ response' = handled
  /\ UNCHANGED <<vars, raw_stderr, handled, stderr_offset, printed, status>>

\* An exception of predict leaves the command when the with block has closed the
\* client, one of close at once.
PrintTraceback ==
  /\ phase = "raised" \/ (phase = "closed" /\ Escaped)
  /\ response = Unprinted
  /\ response' = Traceback
  /\ UNCHANGED <<vars, raw_stderr, handled, stderr_offset, printed, status>>

\* Threads and daemons go on meanwhile, and after.
Others == (Threads \/ Daemons) /\ UNCHANGED cliVars

Finished == response # Unprinted /\ UNCHANGED allVars

CliNext == Request \/ Handle \/ Leave \/ PrintResponse \/ PrintTraceback \/ Others \/ Finished

CliSpec == CliInit /\ [][CliNext]_allVars

\* The command runs whenever it can; threads and daemons as in FairSpec.
CliFairness ==
  /\ WF_allVars(Request) /\ WF_allVars(Handle) /\ WF_allVars(Leave)
  /\ WF_allVars(PrintResponse) /\ WF_allVars(PrintTraceback)
  /\ WF_allVars(StartRead /\ UNCHANGED cliVars)
  /\ \A p \in Procs :
       WF_allVars((\E r \in reading : r.proc = p /\ FinishRead(r)) /\ UNCHANGED cliVars)

CliFairSpec == CliSpec /\ CliFairness

-----------------------------------------------------------------------------
\* No diagnostic is forwarded twice, although every result carries the whole buffer,
\* and those of one process are forwarded in the order it wrote them.  As long as no
\* restart of the daemon was tried, none is lost either: everything a result carried
\* has been forwarded once the result is handled.
ForwardedOnce ==
  LET NoRestart == started <= 1 /\ \A i \in 2..Len(results) : results[i].outcome # "unstarted" IN
  /\ \A i, j \in 1..Len(printed) :
       i < j /\ printed[i].proc = printed[j].proc => printed[i].line < printed[j].line
  /\ NoRestart /\ handled = Len(results) => printed = raw_stderr

\* The command comes to an end, whatever the daemon does: no request follows one that
\* failed, no daemon is left running, and the response counts every request, printed
\* after the client was closed; only a line that cannot be decoded puts a traceback in
\* its place.  And the interpreter can exit, for no reader thread is left blocked,
\* unless the pipe of a daemon that is gone is held open for ever.
CommandEnds ==
  /\ <>[](/\ \/ response = Len(results) /\ phase = "closed" /\ ~Escaped
             \/ response = Traceback /\ (phase = "raised" \/ (phase = "closed" /\ Escaped))
          /\ \A p \in Procs : ~running[p]
          /\ \A i \in 1..Len(results) : results[i].outcome # "ok" => i = Len(results))
  /\ PipeHeldForEver \/ <>[](queue = <<>> /\ reading = {})

\* docs/worker_contract.md:102-103: "Core CLI commands preserve this separation by
\* printing structured JSON to stdout and forwarding diagnostics to stderr."
\* What a result carried has been forwarded once it is handled.
DiagnosticsForwarded ==
  handled = Len(results) => ToSet(raw_stderr) \subseteq ToSet(printed)
=============================================================================
