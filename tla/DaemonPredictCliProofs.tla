-------------------------- MODULE DaemonPredictCliProofs --------------------------
(***************************************************************************)
(* Proofs about DaemonPredictCli, for any number of repeats, restarts and lines: no  *)
(* diagnostic is forwarded twice or out of order, and without a restart none is lost. *)
(***************************************************************************)
EXTENDS DaemonPredictCli, WarmClientProofs, SequenceTheorems

Buffer == stderr_buffers[Worker]

\* The lines of one process come in their order.
InOrder(s) ==
  \A i, j \in 1..Len(s) : i < j /\ s[i].proc = s[j].proc => s[i].line < s[j].line

\* Of one process, everything in s was written before line d.
AllBefore(s, d) == \A i \in 1..Len(s) : s[i].proc = d.proc => s[i].line < d.line

NoRestart == started <= 1 /\ \A i \in 2..Len(results) : results[i].outcome # "unstarted"

\* There is a result the loop has not handled yet.
Unhandled == handled < Len(results) /\ ~Escaped

CliType ==
  /\ raw_stderr \in Seq(Diagnostics \cup {TimeoutMessage})
  /\ handled \in Nat
  /\ stderr_offset \in Nat
  /\ printed \in Seq(Diagnostics \cup {TimeoutMessage})
  /\ status \in {"ok", "error"}

\* The loop is at most one result behind, goes on after successes only, and there are
\* none without a process.
LoopInv ==
  /\ handled <= Len(results) /\ Len(results) <= handled + 1
  /\ status = "ok" => \A i \in 1..handled : results[i].outcome = "ok"
  /\ status = "error" => handled = Len(results)
  /\ Unhandled => At("idle")
  /\ handled = 0 => printed = <<>> /\ stderr_offset = 0 /\ (Len(results) = 0 => raw_stderr = <<>>)
  /\ started = 0 => \A i \in 1..Len(results) : results[i].outcome = "unstarted"

\* Neither the buffer nor what is printed has a line its thread has not read.
BufferInv ==
  /\ InOrder(Buffer)
  /\ \A k \in 1..Len(Buffer) : Buffer[k].line <= relayed[Buffer[k].proc]
  /\ \A k \in 1..Len(printed) : printed[k] # TimeoutMessage => printed[k].line <= relayed[printed[k].proc]

\* A result not handled yet carries the beginning of the buffer, and perhaps a message.
RawInv ==
  Unhandled =>
    \A k \in 1..Len(raw_stderr) :
      IF raw_stderr[k] = TimeoutMessage
      THEN k = Len(raw_stderr) /\ results[Len(results)].outcome = "timeout"
      ELSE k <= Len(Buffer) /\ raw_stderr[k] = Buffer[k]

\* What is still to be forwarded is later than what has been: the whole buffer, when it
\* has been emptied since, or else what is behind the offset.
OffsetInv ==
  status = "ok" =>
    /\ \A i \in 1..Len(printed) : printed[i] # TimeoutMessage
    /\ \/ \A j \in 1..Len(Buffer) : AllBefore(printed, Buffer[j])
       \/ /\ stderr_offset <= Len(Buffer)
          /\ Unhandled => stderr_offset <= Len(raw_stderr)
          /\ \A j \in 1..Len(Buffer) : j > stderr_offset => AllBefore(printed, Buffer[j])

\* Without a restart, what has been printed is the buffer up to the offset.
KeptInv ==
  NoRestart =>
    /\ handled = Len(results) => printed = raw_stderr
    /\ status = "ok" =>
         /\ Len(printed) = stderr_offset /\ stderr_offset <= Len(Buffer)
         /\ \A k \in 1..stderr_offset : printed[k] = Buffer[k]
         /\ Unhandled =>
              stderr_offset <= Len(raw_stderr) /\ \A k \in 1..stderr_offset : raw_stderr[k] = printed[k]

CliInv ==
  /\ IInv
  /\ CliType
  /\ LoopInv
  /\ BufferInv
  /\ RawInv
  /\ InOrder(printed)
  /\ OffsetInv
  /\ KeptInv

-----------------------------------------------------------------------------
LEMMA CliStart == CliInit => CliInv
<1> SUFFICES ASSUME CliInit PROVE CliInv
  OBVIOUS
<1>1. IInv
  BY InitInv DEF CliInit
<1>2. /\ raw_stderr = <<>> /\ handled = 0 /\ stderr_offset = 0 /\ printed = <<>> /\ status = "ok"
      /\ results = <<>> /\ Buffer = <<>> /\ client = Idle
  BY WorkerAssumption DEF CliInit, Init, Buffer
<1>3. CliType
  BY <1>2 DEF CliType
<1>4. LoopInv
  BY <1>2 DEF LoopInv, Unhandled, At, Idle
<1>5. BufferInv /\ InOrder(printed)
  BY <1>2 DEF BufferInv, InOrder
<1>6. RawInv /\ OffsetInv /\ KeptInv
  BY <1>2 DEF RawInv, OffsetInv, KeptInv, Unhandled, AllBefore
<1> QED
  BY <1>1, <1>3, <1>4, <1>5, <1>6 DEF CliInv

\* Every step of the command is one of the client, or leaves the client alone.
LEMMA ClientMoves == [CliNext]_allVars => [Next]_vars
<1> SUFFICES ASSUME [CliNext]_allVars PROVE [Next]_vars
  OBVIOUS
<1>1. CASE Request
  BY <1>1, WorkerAssumption DEF Request, Next, Predict
<1>2. CASE Handle \/ PrintResponse \/ PrintTraceback \/ Finished
  BY <1>2 DEF Handle, PrintResponse, PrintTraceback, Finished, allVars
<1>3. CASE Leave
  BY <1>3 DEF Leave, Next, Stop
<1>4. CASE Others
  BY <1>4 DEF Others, Next
<1>5. CASE UNCHANGED allVars
  BY <1>5 DEF allVars
<1> QED
  BY <1>1, <1>2, <1>3, <1>4, <1>5 DEF CliNext

\* What the types say of the lines.
LEMMA LineFacts ==
  ASSUME CliInv
  PROVE  /\ Buffer \in Seq(Diagnostics) /\ Len(Buffer) \in Nat
         /\ \A k \in 1..Len(Buffer) : /\ Buffer[k] \in Diagnostics /\ Buffer[k] # TimeoutMessage
                                      /\ Buffer[k].proc \in Procs /\ Buffer[k].line \in Nat
         /\ \A k \in 1..Len(printed) :
              IF printed[k] = TimeoutMessage THEN printed[k].proc = NoProc
              ELSE printed[k].proc \in Procs /\ printed[k].line \in Nat
         /\ \A k \in 1..Len(raw_stderr) :
              IF raw_stderr[k] = TimeoutMessage THEN raw_stderr[k].proc = NoProc
              ELSE raw_stderr[k].proc \in Procs /\ raw_stderr[k].line \in Nat
         /\ \A p \in Procs : p # NoProc /\ relayed[p] \in Nat
         /\ Len(printed) \in Nat /\ Len(raw_stderr) \in Nat /\ Len(results) \in Nat
<1>1. Buffer \in Seq(Diagnostics)
  BY WorkerAssumption DEF CliInv, IInv, TypeOK, StderrType, Buffer
<1>2. \A d \in Diagnostics : d.proc \in Procs /\ d.line \in Nat /\ d # TimeoutMessage
  BY CountsAssumption DEF Diagnostics, TimeoutMessage, Procs, NoProc
<1>3. TimeoutMessage.proc = NoProc
  BY DEF TimeoutMessage
<1>4. \A p \in Procs : p # NoProc /\ relayed[p] \in Nat
  BY CountsAssumption DEF CliInv, IInv, TypeOK, StderrType, Procs, NoProc
<1>5. /\ \A k \in 1..Len(printed) : printed[k] \in Diagnostics \cup {TimeoutMessage}
      /\ \A k \in 1..Len(raw_stderr) : raw_stderr[k] \in Diagnostics \cup {TimeoutMessage}
      /\ Len(printed) \in Nat /\ Len(raw_stderr) \in Nat
  BY DEF CliInv, CliType
<1>6. Len(results) \in Nat
  BY DEF CliInv, IInv, TypeOK, CallerType
<1>7. \A k \in 1..Len(Buffer) : Buffer[k] \in Diagnostics
  BY <1>1
<1> QED
  BY <1>1, <1>2, <1>3, <1>4, <1>5, <1>6, <1>7

-----------------------------------------------------------------------------
\* A step that neither touches the diagnostics nor returns a result.
LEMMA QuietStep ==
  ASSUME CliInv, IInv', started' = started, UNCHANGED <<results, stderr_buffers, relayed>>,
         UNCHANGED <<raw_stderr, handled, stderr_offset, printed, status>>,
         Unhandled => client' = client
  PROVE  CliInv'
<1>1. Buffer' = Buffer /\ (NoRestart' <=> NoRestart) /\ (Unhandled' <=> Unhandled)
  BY DEF Buffer, NoRestart, Unhandled, Escaped
<1>2. CliType' /\ InOrder(printed)'
  BY DEF CliInv, CliType, InOrder
<1>3. LoopInv'
  BY <1>1 DEF CliInv, LoopInv, At
<1>4. BufferInv' /\ RawInv'
  BY <1>1 DEF CliInv, BufferInv, RawInv, InOrder
<1>5. OffsetInv'
  BY <1>1 DEF CliInv, OffsetInv, AllBefore
<1>6. KeptInv'
  BY <1>1 DEF CliInv, KeptInv
<1> QED
  BY <1>2, <1>3, <1>4, <1>5, <1>6 DEF CliInv

\* A stderr thread reads a line: it comes last in the buffer it goes to.
LEMMA RelayStep ==
  ASSUME CliInv, IInv', NEW p \in Procs, RelayStderr(p), UNCHANGED cliVars
  PROVE  CliInv'
<1> DEFINE new == Diagnostic(p, relayed[p] + 1)
<1>1. /\ UNCHANGED <<results, client, started>>
      /\ UNCHANGED <<raw_stderr, handled, stderr_offset, printed, status>>
  BY DEF RelayStderr, clientVars, startVars, cliVars
<1>2. /\ relayed' = [relayed EXCEPT ![p] = relayed[p] + 1]
      /\ stderr_buffers' = [stderr_buffers EXCEPT ![workerOf[p]] = Append(@, new)]
      /\ relayed \in [Procs -> 0..MaxLog] /\ stderr_buffers \in [Workers -> Seq(Diagnostics)]
  BY DEF RelayStderr, CliInv, IInv, TypeOK, StderrType
<1>3. /\ \A q \in Procs : relayed[q] \in Nat /\ relayed'[q] \in Nat /\ relayed[q] <= relayed'[q]
      /\ relayed'[p] = relayed[p] + 1
  BY <1>2, CountsAssumption
<1>4. new.proc = p /\ new.line = relayed[p] + 1 /\ new # TimeoutMessage
  BY DEF Diagnostic, TimeoutMessage, Procs, NoProc
<1> HIDE DEF new
<1>5. CASE workerOf[p] # Worker
  <2>1. Buffer' = Buffer /\ (NoRestart' <=> NoRestart) /\ (Unhandled' <=> Unhandled)
    BY <1>1, <1>2, <1>5, WorkerAssumption DEF Buffer, NoRestart, Unhandled, Escaped
  <2>2. CliType' /\ LoopInv' /\ InOrder(printed)'
    BY <1>1, <2>1 DEF CliInv, CliType, LoopInv, InOrder, At
  <2>3. BufferInv'
    <3>1. \A k \in 1..Len(Buffer) : Buffer[k].line <= relayed'[Buffer[k].proc]
      BY <1>3, LineFacts DEF CliInv, BufferInv
    <3>2. \A k \in 1..Len(printed) :
            printed[k] # TimeoutMessage => printed[k].line <= relayed'[printed[k].proc]
      BY <1>3, LineFacts DEF CliInv, BufferInv
    <3>3. InOrder(Buffer)
      BY DEF CliInv, BufferInv
    <3> QED
      BY <1>1, <2>1, <3>1, <3>2, <3>3 DEF BufferInv, InOrder
  <2>4. RawInv' /\ OffsetInv' /\ KeptInv'
    BY <1>1, <2>1 DEF CliInv, RawInv, OffsetInv, KeptInv, AllBefore
  <2> QED
    BY <2>2, <2>3, <2>4 DEF CliInv
<1>6. CASE workerOf[p] = Worker
  <2>1. Buffer' = Append(Buffer, new) /\ (NoRestart' <=> NoRestart) /\ (Unhandled' <=> Unhandled)
    BY <1>1, <1>2, <1>6, WorkerAssumption DEF Buffer, NoRestart, Unhandled, Escaped
  <2>2. /\ Len(Buffer') = Len(Buffer) + 1
        /\ \A k \in 1..Len(Buffer) : Buffer'[k] = Buffer[k]
        /\ Buffer'[Len(Buffer) + 1] = new
    BY <2>1, LineFacts
  <2>3. \A k \in 1..Len(Buffer') : k \in 1..Len(Buffer) \/ k = Len(Buffer) + 1
    BY <2>2, LineFacts
  <2>4. CliType' /\ LoopInv' /\ InOrder(printed)'
    BY <1>1, <2>1 DEF CliInv, CliType, LoopInv, InOrder, At
  <2>5. BufferInv'
    <3>1. \A k \in 1..Len(Buffer') : Buffer'[k].line <= relayed'[Buffer'[k].proc]
      <4> SUFFICES ASSUME NEW k \in 1..Len(Buffer')
                   PROVE  Buffer'[k].line <= relayed'[Buffer'[k].proc]
        OBVIOUS
      <4>1. CASE k \in 1..Len(Buffer)
        <5>1. Buffer[k].line <= relayed[Buffer[k].proc]
          BY <4>1 DEF CliInv, BufferInv
        <5>2. Buffer[k].line \in Nat /\ Buffer[k].proc \in Procs /\ Buffer'[k] = Buffer[k]
          BY <2>2, <4>1, LineFacts
        <5> QED
          BY <1>3, <5>1, <5>2
      <4>2. CASE k = Len(Buffer) + 1
        BY <1>3, <1>4, <2>2, <4>2
      <4> QED
        BY <2>3, <4>1, <4>2
    <3>2. \A k \in 1..Len(printed) :
            printed[k] # TimeoutMessage => printed[k].line <= relayed'[printed[k].proc]
      BY <1>3, LineFacts DEF CliInv, BufferInv
    <3>3. ASSUME NEW i \in 1..Len(Buffer'), NEW j \in 1..Len(Buffer'), i < j,
                 Buffer'[i].proc = Buffer'[j].proc
          PROVE  Buffer'[i].line < Buffer'[j].line
      <4>1. i \in 1..Len(Buffer)
        BY <2>2, <3>3, LineFacts
      <4>2. CASE j \in 1..Len(Buffer)
        BY <2>2, <3>3, <4>1, <4>2 DEF CliInv, BufferInv, InOrder
      <4>3. CASE j = Len(Buffer) + 1
        <5>1. Buffer'[i] = Buffer[i] /\ Buffer'[j] = new
          BY <2>2, <4>1, <4>3
        <5>2. Buffer[i].proc = p
          BY <1>4, <3>3, <5>1
        <5>3. Buffer[i].line <= relayed[p] /\ Buffer[i].line \in Nat
          BY <4>1, <5>2, LineFacts DEF CliInv, BufferInv
        <5> QED
          BY <1>3, <1>4, <5>1, <5>3
      <4> QED
        BY <2>3, <4>2, <4>3
    <3>4. printed' = printed
      BY <1>1
    <3> QED
      BY <3>1, <3>2, <3>3, <3>4 DEF BufferInv, InOrder
  <2>6. RawInv'
    BY <1>1, <2>1, <2>2, LineFacts DEF CliInv, RawInv
  <2>7. OffsetInv'
    <3>1. status = "ok" => AllBefore(printed, new)
      <4> SUFFICES ASSUME status = "ok", NEW i \in 1..Len(printed), printed[i].proc = p
                   PROVE  printed[i].line < relayed[p] + 1
        BY <1>4 DEF AllBefore
      <4>1. printed[i] # TimeoutMessage
        BY DEF CliInv, OffsetInv
      <4>2. printed[i].line <= relayed[p] /\ printed[i].line \in Nat
        BY <4>1, LineFacts DEF CliInv, BufferInv
      <4> QED
        BY <1>3, <4>2
    <3>2. CASE status = "ok" /\ \A j \in 1..Len(Buffer) : AllBefore(printed, Buffer[j])
      <4>1. \A j \in 1..Len(Buffer') : AllBefore(printed, Buffer'[j])
        BY <2>2, <2>3, <3>1, <3>2
      <4> QED
        BY <1>1, <2>1, <4>1 DEF CliInv, OffsetInv, AllBefore
    <3>3. CASE /\ status = "ok" /\ stderr_offset <= Len(Buffer)
               /\ Unhandled => stderr_offset <= Len(raw_stderr)
               /\ \A j \in 1..Len(Buffer) : j > stderr_offset => AllBefore(printed, Buffer[j])
      <4>1. \A j \in 1..Len(Buffer') : j > stderr_offset => AllBefore(printed, Buffer'[j])
        BY <2>2, <2>3, <3>1, <3>3
      <4>2. stderr_offset <= Len(Buffer')
        BY <2>2, <3>3, LineFacts DEF CliInv, CliType
      <4> QED
        BY <1>1, <2>1, <3>3, <4>1, <4>2 DEF CliInv, OffsetInv, AllBefore
    <3>4. CASE status # "ok"
      BY <1>1, <3>4 DEF OffsetInv
    <3> QED
      BY <3>2, <3>3, <3>4 DEF CliInv, OffsetInv
  <2>8. KeptInv'
    BY <1>1, <2>1, <2>2, LineFacts DEF CliInv, CliType, KeptInv
  <2> QED
    BY <2>4, <2>5, <2>6, <2>7, <2>8 DEF CliInv
<1> QED
  BY <1>5, <1>6

\* A new process begins with an empty buffer; it is the first, or there is a restart.
LEMMA StartStep ==
  ASSUME CliInv, IInv', Looping, handled = Len(results), StartProcess(Worker), raw_stderr' = raw_stderr,
         UNCHANGED <<handled, stderr_offset, printed, status>>
  PROVE  CliInv'
<1>1. /\ results' = results /\ relayed' = relayed /\ started' = started + 1 /\ started \in Nat
      /\ stderr_buffers' = [stderr_buffers EXCEPT ![Worker] = <<>>]
      /\ stderr_buffers \in [Workers -> Seq(Diagnostics)]
  BY CountsAssumption DEF StartProcess, CliInv, IInv, TypeOK, LifeType, StderrType
<1>2. Buffer' = <<>> /\ Len(Buffer') = 0 /\ ~Unhandled'
  BY <1>1, LineFacts, WorkerAssumption DEF Buffer, Unhandled
<1>3. CliType' /\ InOrder(printed)'
  BY DEF CliInv, CliType, InOrder
<1>4. LoopInv'
  BY <1>1, <1>2 DEF CliInv, LoopInv
<1>5. BufferInv'
  BY <1>1, <1>2 DEF CliInv, BufferInv, InOrder
<1>6. RawInv'
  BY <1>2 DEF RawInv
<1>7. OffsetInv'
  BY <1>2 DEF CliInv, OffsetInv
<1>8. KeptInv'
  <2> SUFFICES ASSUME NoRestart' PROVE KeptInv'
    BY DEF KeptInv
  <2>1. started = 0 /\ NoRestart
    BY <1>1 DEF NoRestart
  <2>2. handled = 0
    BY <2>1 DEF CliInv, LoopInv, CliType, Looping
  <2> QED
    BY <1>1, <1>2, <2>2 DEF CliInv, KeptInv, LoopInv
<1> QED
  BY <1>3, <1>4, <1>5, <1>6, <1>7, <1>8 DEF CliInv

\* No process can be started: the buffer is emptied all the same, which is a restart
\* unless it happens at once.
LEMMA CannotStartStep ==
  ASSUME CliInv, IInv', Looping, handled = Len(results), CannotStart(Worker),
         raw_stderr' = RawStderr(results'[Len(results')].outcome),
         UNCHANGED <<handled, stderr_offset, printed, status>>
  PROVE  CliInv'
<1>1. /\ relayed' = relayed /\ started' = started /\ client' = client /\ At("idle")
      /\ stderr_buffers' = [stderr_buffers EXCEPT ![Worker] = <<>>]
      /\ stderr_buffers \in [Workers -> Seq(Diagnostics)]
  BY DEF CannotStart, startVars, CliInv, IInv, TypeOK, StderrType
<1>2. /\ Len(results') = Len(results) + 1 /\ results'[Len(results')].outcome = "unstarted"
      /\ \A i \in 1..Len(results) : results'[i] = results[i]
  BY DEF CannotStart, CliInv, IInv, TypeOK, CallerType
<1>3. Buffer' = <<>> /\ Len(Buffer') = 0 /\ raw_stderr' = <<>>
  BY <1>1, <1>2, WorkerAssumption DEF Buffer, RawStderr
<1>4. status = "ok" /\ handled \in Nat
  BY DEF Looping, CliInv, CliType
<1>5. CliType' /\ InOrder(printed)'
  BY <1>3 DEF CliInv, CliType, InOrder
<1>6. LoopInv'
  <2>1. started' = 0 => \A i \in 1..Len(results') : results'[i].outcome = "unstarted"
    <3>1. \A i \in 1..Len(results') : i \in 1..Len(results) \/ i = Len(results')
      BY <1>2, LineFacts
    <3>2. started = 0 => \A i \in 1..Len(results) : results[i].outcome = "unstarted"
      BY DEF CliInv, LoopInv
    <3> QED
      BY <1>1, <1>2, <3>1, <3>2
  <2> QED
    BY <1>1, <1>2, <1>4, <2>1 DEF CliInv, LoopInv, At
<1>7. BufferInv'
  BY <1>1, <1>3 DEF CliInv, BufferInv, InOrder
<1>8. RawInv' /\ OffsetInv'
  BY <1>3 DEF CliInv, RawInv, OffsetInv
<1>9. KeptInv'
  <2> SUFFICES ASSUME NoRestart' PROVE KeptInv'
    BY DEF KeptInv
  <2>1. handled = 0
    BY <1>2, <1>4, LineFacts DEF NoRestart
  <2> QED
    BY <1>2, <1>3, <2>1 DEF CliInv, KeptInv, LoopInv
<1> QED
  BY <1>5, <1>6, <1>7, <1>8, <1>9 DEF CliInv

\* predict returns with the whole buffer, and with the message of a timeout.
LEMMA ReturnStep ==
  ASSUME CliInv, IInv', Looping, handled = Len(results), WriteFails \/ PredictReturns \/ PredictTimesOut,
         raw_stderr' = RawStderr(results'[Len(results')].outcome),
         UNCHANGED <<handled, stderr_offset, printed, status>>
  PROVE  CliInv'
<1>1. UNCHANGED <<started, stderr_buffers, relayed>> /\ client' = Idle /\ ~At("idle")
  BY DEF WriteFails, PredictReturns, PredictTimesOut, Return, startVars, stderrVars, At
<1>2. PICK r : results' = Append(results, r) /\ r.outcome # "unstarted"
  BY DEF WriteFails, PredictReturns, PredictTimesOut, Return
<1>3. /\ Len(results') = Len(results) + 1 /\ results'[Len(results')] = r
      /\ \A i \in 1..Len(results) : results'[i] = results[i]
  BY <1>2 DEF CliInv, IInv, TypeOK, CallerType
<1>4. Buffer' = Buffer
  BY <1>1 DEF Buffer
<1>5. started # 0
  <2>1. client.worker \in Workers /\ client.proc # NoProc /\ processes[client.worker] = client.proc
    BY <1>1 DEF CliInv, IInv, ClientInv
  <2>2. client.proc <= started /\ client.proc \in Nat
    BY <2>1, CountsAssumption DEF CliInv, IInv, ProcessInv, TypeOK, LifeType
  <2> QED
    BY <2>1, <2>2 DEF NoProc
<1>6. status = "ok" /\ handled \in Nat /\ stderr_offset \in Nat
  BY DEF Looping, CliInv, CliType
<1>7. /\ raw_stderr' = IF r.outcome = "timeout" THEN Append(Buffer, TimeoutMessage) ELSE Buffer
      /\ raw_stderr' \in Seq(Diagnostics \cup {TimeoutMessage})
      /\ Len(raw_stderr') \in Nat /\ Len(Buffer) <= Len(raw_stderr')
      /\ \A k \in 1..Len(Buffer) : raw_stderr'[k] = Buffer[k]
      /\ Len(raw_stderr') # Len(Buffer) =>
           /\ r.outcome = "timeout" /\ Len(raw_stderr') = Len(Buffer) + 1
           /\ raw_stderr'[Len(raw_stderr')] = TimeoutMessage
  <2>1. Buffer \in Seq(Diagnostics \cup {TimeoutMessage}) /\ Buffer \in Seq(Diagnostics)
    BY LineFacts
  <2>2. CASE r.outcome = "timeout"
    <3>1. raw_stderr' = Buffer \o <<TimeoutMessage>>
      BY <1>3, <1>4, <2>2 DEF RawStderr, Buffer
    <3>2. raw_stderr' = Append(Buffer, TimeoutMessage)
      BY <2>1, <3>1
    <3> QED
      BY <2>1, <2>2, <3>2
  <2>3. CASE r.outcome # "timeout"
    <3>1. raw_stderr' = Buffer \o <<>>
      BY <1>3, <1>4, <2>3 DEF RawStderr, Buffer
    <3>2. raw_stderr' = Buffer
      BY <2>1, <3>1
    <3> QED
      BY <2>1, <2>3, <3>2
  <2> QED
    BY <2>2, <2>3
<1>8. CliType' /\ InOrder(printed)'
  BY <1>7 DEF CliInv, CliType, InOrder
<1>9. LoopInv'
  BY <1>1, <1>3, <1>5, <1>6 DEF CliInv, LoopInv, At, Idle
<1>10. BufferInv'
  BY <1>1, <1>4 DEF CliInv, BufferInv, InOrder
<1>11. RawInv'
  <2> SUFFICES ASSUME NEW k \in 1..Len(raw_stderr')
               PROVE  IF raw_stderr'[k] = TimeoutMessage
                      THEN k = Len(raw_stderr') /\ results'[Len(results')].outcome = "timeout"
                      ELSE k <= Len(Buffer') /\ raw_stderr'[k] = Buffer'[k]
    BY DEF RawInv
  <2>1. k \in 1..Len(Buffer) \/ (k = Len(raw_stderr') /\ Len(raw_stderr') = Len(Buffer) + 1)
    BY <1>7, LineFacts
  <2>2. CASE k \in 1..Len(Buffer)
    BY <1>4, <1>7, <2>2, LineFacts
  <2>3. CASE k = Len(raw_stderr') /\ Len(raw_stderr') = Len(Buffer) + 1
    BY <1>3, <1>7, <2>3, LineFacts
  <2> QED
    BY <2>1, <2>2, <2>3
<1>12. OffsetInv'
  <2>1. CASE \A j \in 1..Len(Buffer) : AllBefore(printed, Buffer[j])
    BY <1>4, <1>6, <2>1 DEF CliInv, OffsetInv, AllBefore
  <2>2. CASE /\ stderr_offset <= Len(Buffer)
             /\ \A j \in 1..Len(Buffer) : j > stderr_offset => AllBefore(printed, Buffer[j])
    <3>1. stderr_offset <= Len(raw_stderr')
      BY <1>6, <1>7, <2>2, LineFacts
    <3> QED
      BY <1>4, <1>6, <2>2, <3>1 DEF CliInv, OffsetInv, AllBefore
  <2> QED
    BY <1>6, <2>1, <2>2 DEF CliInv, OffsetInv
<1>13. KeptInv'
  <2> SUFFICES ASSUME NoRestart' PROVE KeptInv'
    BY DEF KeptInv
  <2>1. NoRestart
    <3>1. \A i \in 2..Len(results) : i \in 2..Len(results') /\ i \in 1..Len(results)
      BY <1>3, LineFacts
    <3> QED
      BY <1>1, <1>3, <3>1 DEF NoRestart
  <2>2. /\ Len(printed) = stderr_offset /\ stderr_offset <= Len(Buffer)
        /\ \A k \in 1..stderr_offset : printed[k] = Buffer[k]
    BY <1>6, <2>1 DEF CliInv, KeptInv
  <2>3. stderr_offset <= Len(raw_stderr') /\ \A k \in 1..stderr_offset : raw_stderr'[k] = printed[k]
    BY <1>6, <1>7, <2>2, LineFacts
  <2> QED
    BY <1>3, <1>4, <1>6, <2>2, <2>3, LineFacts DEF KeptInv
<1> QED
  BY <1>8, <1>9, <1>10, <1>11, <1>12, <1>13 DEF CliInv

\* predict raises: nothing is handed over, and the loop is left.
LEMMA EscapeStep ==
  ASSUME CliInv, IInv', Looping, handled = Len(results), PredictReturns, Escaped', raw_stderr' = raw_stderr,
         UNCHANGED <<handled, stderr_offset, printed, status>>
  PROVE  CliInv'
<1>1. UNCHANGED <<started, stderr_buffers, relayed>> /\ ~At("idle") /\ ~Unhandled'
  BY DEF PredictReturns, startVars, stderrVars, At, Unhandled
<1>2. PICK r : results' = Append(results, r)
  BY DEF PredictReturns, Return
<1>3. /\ Len(results') = Len(results) + 1
      /\ \A i \in 1..Len(results) : results'[i] = results[i]
  BY <1>2 DEF CliInv, IInv, TypeOK, CallerType
<1>4. Buffer' = Buffer
  BY <1>1 DEF Buffer
<1>5. started # 0
  <2>1. client.worker \in Workers /\ client.proc # NoProc /\ processes[client.worker] = client.proc
    BY <1>1 DEF CliInv, IInv, ClientInv
  <2>2. client.proc <= started /\ client.proc \in Nat
    BY <2>1, CountsAssumption DEF CliInv, IInv, ProcessInv, TypeOK, LifeType
  <2> QED
    BY <2>1, <2>2 DEF NoProc
<1>6. status = "ok" /\ handled \in Nat
  BY DEF Looping, CliInv, CliType
<1>7. CliType' /\ InOrder(printed)' /\ RawInv'
  BY <1>1 DEF CliInv, CliType, InOrder, RawInv
<1>8. LoopInv'
  BY <1>1, <1>3, <1>5, <1>6 DEF CliInv, LoopInv
<1>9. BufferInv'
  BY <1>1, <1>4 DEF CliInv, BufferInv, InOrder
<1>10. OffsetInv'
  BY <1>1, <1>4 DEF CliInv, OffsetInv, AllBefore
<1>11. KeptInv'
  <2> SUFFICES ASSUME NoRestart' PROVE KeptInv'
    BY DEF KeptInv
  <2>1. NoRestart
    <3>1. \A i \in 2..Len(results) : i \in 2..Len(results') /\ i \in 1..Len(results)
      BY <1>3, LineFacts
    <3> QED
      BY <1>1, <1>3, <3>1 DEF NoRestart
  <2>2. handled' # Len(results')
    BY <1>3, LineFacts
  <2> QED
    BY <1>1, <1>4, <2>1, <2>2 DEF CliInv, KeptInv
<1> QED
  BY <1>7, <1>8, <1>9, <1>10, <1>11 DEF CliInv

-----------------------------------------------------------------------------
\* A sequence with the end of another one behind it.
LEMMA Extended ==
  ASSUME NEW S, NEW s \in Seq(S), NEW t \in Seq(S), NEW k \in Nat, NEW u,
         u = s \o SubSeq(t, k + 1, Len(t))
  PROVE  /\ u \in Seq(S)
         /\ Len(u) = Len(s) + (IF k < Len(t) THEN Len(t) - k ELSE 0)
         /\ \A i \in 1..Len(u) :
              \/ i \in 1..Len(s) /\ u[i] = s[i]
              \/ i > Len(s) /\ k + (i - Len(s)) \in 1..Len(t) /\ u[i] = t[k + (i - Len(s))]
<1>1. Len(s) \in Nat /\ Len(t) \in Nat /\ \A i \in 1..Len(t) : t[i] \in S
  OBVIOUS
<1> DEFINE new == SubSeq(t, k + 1, Len(t))
<1>2. /\ new \in Seq(S)
      /\ Len(new) = IF k < Len(t) THEN Len(t) - k ELSE 0
      /\ \A i \in 1..Len(new) : new[i] = t[k + i]
  <2>1. k + 1 \in Int /\ Len(t) \in Int /\ \A i \in k + 1..Len(t) : t[i] \in S
    BY <1>1
  <2>2. /\ new \in Seq(S)
        /\ Len(new) = IF k + 1 <= Len(t) THEN Len(t) - (k + 1) + 1 ELSE 0
        /\ \A i \in 1..Len(t) - (k + 1) + 1 : new[i] = t[k + 1 + i - 1]
    BY <2>1, SubSeqProperties
  <2> HIDE DEF new
  <2>3. Len(new) = IF k < Len(t) THEN Len(t) - k ELSE 0
    BY <1>1, <2>2
  <2>4. ASSUME NEW i \in 1..Len(new) PROVE new[i] = t[k + i]
    <3>1. i \in 1..Len(t) - (k + 1) + 1 /\ k + 1 + i - 1 = k + i
      BY <1>1, <2>3
    <3> QED
      BY <2>2, <3>1
  <2> QED
    BY <2>2, <2>3, <2>4
<1>3. u = s \o new
  OBVIOUS
<1> HIDE DEF new
<1>4. /\ u \in Seq(S) /\ Len(u) = Len(s) + Len(new)
      /\ \A i \in 1..Len(s) + Len(new) : u[i] = IF i <= Len(s) THEN s[i] ELSE new[i - Len(s)]
  <2>1. new \in Seq(S)
    BY <1>2
  <2>2. /\ s \o new \in Seq(S) /\ Len(s \o new) = Len(s) + Len(new)
        /\ \A i \in 1..Len(s) + Len(new) : (s \o new)[i] = IF i <= Len(s) THEN s[i] ELSE new[i - Len(s)]
    BY <2>1, ConcatProperties, Zenon
  <2> QED
    BY <1>3, <2>2, Zenon
<1>5. ASSUME NEW i \in 1..Len(u)
      PROVE  \/ i \in 1..Len(s) /\ u[i] = s[i]
             \/ i > Len(s) /\ k + (i - Len(s)) \in 1..Len(t) /\ u[i] = t[k + (i - Len(s))]
  <2>1. CASE i <= Len(s)
    BY <1>1, <1>4, <2>1
  <2>2. CASE i > Len(s)
    <3>1. i - Len(s) \in 1..Len(new) /\ Len(new) \in Nat
      BY <1>1, <1>2, <1>4, <2>2
    <3>2. u[i] = new[i - Len(s)]
      BY <1>1, <1>4, <2>2, <3>1
    <3>3. k + (i - Len(s)) \in 1..Len(t)
      BY <1>1, <1>2, <3>1
    <3> QED
      BY <1>2, <2>2, <3>1, <3>2, <3>3
  <2> QED
    BY <1>1, <2>1, <2>2
<1> QED
  BY <1>2, <1>4, <1>5

\* The place in a result's diagnostics from which line i is forwarded.
Source(i) == stderr_offset + (i - Len(printed))

\* What forwarding the new part of a result's diagnostics adds.
LEMMA Forwarded ==
  ASSUME CliInv, printed' = printed \o SubSeq(raw_stderr, stderr_offset + 1, Len(raw_stderr))
  PROVE  /\ printed' \in Seq(Diagnostics \cup {TimeoutMessage})
         /\ Len(printed') = Len(printed) + (IF stderr_offset < Len(raw_stderr)
                                            THEN Len(raw_stderr) - stderr_offset ELSE 0)
         /\ \A i \in 1..Len(printed') :
              \/ i \in 1..Len(printed) /\ printed'[i] = printed[i]
              \/ /\ i > Len(printed)
                 /\ Source(i) \in 1..Len(raw_stderr) /\ printed'[i] = raw_stderr[Source(i)]
<1>1. /\ printed \in Seq(Diagnostics \cup {TimeoutMessage})
      /\ raw_stderr \in Seq(Diagnostics \cup {TimeoutMessage})
      /\ stderr_offset \in Nat
  BY DEF CliInv, CliType
<1> QED
  BY SMTT(30), <1>1, Extended DEF Source

\* Of what is to be forwarded, each line is later than all before it.
LEMMA StillInOrder ==
  ASSUME CliInv, Looping, handled < Len(results),
         printed' = printed \o SubSeq(raw_stderr, stderr_offset + 1, Len(raw_stderr))
  PROVE  InOrder(printed')
<1> SUFFICES ASSUME NEW i \in 1..Len(printed'), NEW j \in 1..Len(printed'), i < j,
                    printed'[i].proc = printed'[j].proc
             PROVE  printed'[i].line < printed'[j].line
  BY DEF InOrder
<1>1. /\ \A k \in 1..Len(printed) : printed[k] # TimeoutMessage
      /\ \A k \in 1..Len(Buffer) : k > stderr_offset => AllBefore(printed, Buffer[k])
  BY DEF CliInv, OffsetInv, Looping
<1>2. i \in Nat /\ j \in Nat /\ Len(printed) \in Nat /\ stderr_offset \in Nat /\ Len(raw_stderr) \in Nat
  BY LineFacts, Forwarded DEF CliInv, CliType
<1>3. \A n \in 1..Len(raw_stderr) : IF raw_stderr[n] = TimeoutMessage THEN n = Len(raw_stderr)
                                    ELSE n <= Len(Buffer) /\ raw_stderr[n] = Buffer[n]
  BY DEF CliInv, RawInv, Unhandled, Looping
<1>4. /\ \/ i \in 1..Len(printed) /\ printed'[i] = printed[i]
         \/ /\ i > Len(printed)
            /\ Source(i) \in 1..Len(raw_stderr) /\ printed'[i] = raw_stderr[Source(i)]
      /\ \/ j \in 1..Len(printed) /\ printed'[j] = printed[j]
         \/ /\ j > Len(printed)
            /\ Source(j) \in 1..Len(raw_stderr) /\ printed'[j] = raw_stderr[Source(j)]
  BY Forwarded
<1>5. CASE j \in 1..Len(printed) /\ printed'[j] = printed[j]
  <2>1. i \in 1..Len(printed) /\ printed'[i] = printed[i]
    BY <1>2, <1>4, <1>5
  <2> QED
    BY <1>5, <2>1 DEF CliInv, InOrder
<1>6. CASE /\ i \in 1..Len(printed) /\ printed'[i] = printed[i]
           /\ j > Len(printed)
           /\ Source(j) \in 1..Len(raw_stderr) /\ printed'[j] = raw_stderr[Source(j)]
  <2>1. printed[i].proc \in Procs /\ printed[i].proc # NoProc
    BY <1>1, <1>6, LineFacts
  <2>2. raw_stderr[Source(j)] # TimeoutMessage
    BY <1>6, <2>1, LineFacts
  <2>3. Source(j) \in 1..Len(Buffer) /\ raw_stderr[Source(j)] = Buffer[Source(j)]
    BY <1>3, <1>6, <2>2, LineFacts
  <2>4. Source(j) > stderr_offset
    BY <1>2, <1>6 DEF Source
  <2>5. AllBefore(printed, Buffer[Source(j)])
    BY <1>1, <2>3, <2>4
  <2> QED
    BY <1>6, <2>3, <2>5 DEF AllBefore
<1>7. CASE /\ i > Len(printed) /\ j > Len(printed)
           /\ Source(i) \in 1..Len(raw_stderr) /\ printed'[i] = raw_stderr[Source(i)]
           /\ Source(j) \in 1..Len(raw_stderr) /\ printed'[j] = raw_stderr[Source(j)]
  <2>1. Source(i) < Source(j)
    BY <1>2 DEF Source
  <2>2. raw_stderr[Source(i)] # TimeoutMessage
    <3>1. Source(i) # Len(raw_stderr)
      BY <1>2, <1>7, <2>1
    <3> QED
      BY <1>3, <1>7, <3>1, Zenon
  <2>3. raw_stderr[Source(j)] # TimeoutMessage
    BY <1>7, <2>2, LineFacts
  <2>4. /\ Source(i) \in 1..Len(Buffer) /\ raw_stderr[Source(i)] = Buffer[Source(i)]
        /\ Source(j) \in 1..Len(Buffer) /\ raw_stderr[Source(j)] = Buffer[Source(j)]
    BY <1>3, <1>7, <2>2, <2>3, LineFacts
  <2> QED
    BY <1>7, <2>1, <2>4 DEF CliInv, BufferInv, InOrder
<1>8. i > Len(printed) => ~(j \in 1..Len(printed))
  BY <1>2
<1> QED
  BY <1>4, <1>5, <1>6, <1>7, <1>8

LEMMA HandleStep == ASSUME CliInv, IInv', Handle PROVE CliInv'
<1>1. /\ status = "ok" /\ handled < Len(results) /\ Unhandled /\ handled' = handled + 1
      /\ printed' = printed \o SubSeq(raw_stderr, stderr_offset + 1, Len(raw_stderr))
      /\ stderr_offset' = IF raw_stderr = <<>> THEN stderr_offset ELSE Len(raw_stderr)
      /\ status' = IF results[handled'].outcome = "ok" THEN "ok" ELSE "error"
      /\ raw_stderr' = raw_stderr
  BY DEF Handle, Looping, Unhandled
<1>2. UNCHANGED <<results, started, stderr_buffers, relayed, client>>
  BY DEF Handle, vars, clientVars, startVars, stderrVars
<1>3. Buffer' = Buffer /\ (NoRestart' <=> NoRestart)
  BY <1>2 DEF Buffer, NoRestart
<1>4. handled' = Len(results) /\ handled' \in Nat /\ handled' # 0
  BY <1>1, LineFacts DEF CliInv, LoopInv, CliType
<1>5. ~(handled' < Len(results')) /\ ~Unhandled'
  <2>1. Len(results') = Len(results)
    BY <1>2
  <2> QED
    BY <1>4, <2>1 DEF Unhandled
<1>6. Looping
  BY DEF Handle
<1>7. stderr_offset \in Nat /\ stderr_offset' \in Nat
  BY <1>1, LineFacts DEF CliInv, CliType
<1>8. InOrder(printed')
  BY <1>1, <1>6, StillInOrder
<1>9. CliType'
  BY <1>1, <1>4, <1>7, Forwarded DEF CliInv, CliType
<1>10. LoopInv'
  <2>1. status' = "ok" => \A i \in 1..handled' : results[i].outcome = "ok"
    <3>1. \A i \in 1..handled' : i \in 1..handled \/ i = handled'
      BY <1>1 DEF CliInv, CliType
    <3>2. \A i \in 1..handled : results[i].outcome = "ok"
      BY <1>1 DEF CliInv, LoopInv
    <3> QED
      BY <1>1, <3>1, <3>2
  <2> QED
    BY <1>2, <1>4, <1>5, <2>1 DEF CliInv, LoopInv
<1>11. RawInv'
  BY <1>5 DEF RawInv
<1>12. /\ Len(raw_stderr) \in Nat /\ Len(printed) \in Nat
       /\ raw_stderr # <<>> =>
            stderr_offset' = Len(raw_stderr) /\ Len(raw_stderr) \in 1..Len(raw_stderr)
       /\ raw_stderr = <<>> =>
            stderr_offset' = stderr_offset /\ printed' = printed /\ Len(raw_stderr) = 0
  <2>1. raw_stderr = <<>> => SubSeq(raw_stderr, stderr_offset + 1, Len(raw_stderr)) = <<>>
    BY <1>7, SubSeqEmpty
  <2>2. raw_stderr = <<>> => printed' = printed
    BY <1>1, <2>1, ConcatEmptySeq DEF CliInv, CliType
  <2>3. raw_stderr # <<>> => Len(raw_stderr) \in Nat \ {0}
    BY EmptySeq DEF CliInv, CliType
  <2>4. raw_stderr = <<>> => Len(raw_stderr) = 0
    OBVIOUS
  <2>5. Len(raw_stderr) \in Nat /\ Len(printed) \in Nat
    BY LineFacts
  <2>6. raw_stderr # <<>> => Len(raw_stderr) \in 1..Len(raw_stderr)
    BY <2>3
  <2> QED
    BY <1>1, <2>2, <2>4, <2>5, <2>6
<1>13. \A n \in 1..Len(raw_stderr) :
         /\ raw_stderr[n] # TimeoutMessage => n \in 1..Len(Buffer) /\ raw_stderr[n] = Buffer[n]
         /\ status' = "ok" => raw_stderr[n] # TimeoutMessage
  <2>1. results[handled'].outcome = "timeout" => status' # "ok"
    BY <1>1
  <2>2. Len(raw_stderr) \in Nat /\ Len(Buffer) \in Nat
    BY LineFacts
  <2> QED
    BY <1>1, <1>4, <2>1, <2>2 DEF CliInv, RawInv
\* What is printed now comes from what was printed or from the result.
<1>14. \A i \in 1..Len(printed') :
         \/ i \in 1..Len(printed) /\ printed'[i] = printed[i]
         \/ Source(i) \in 1..Len(raw_stderr) /\ printed'[i] = raw_stderr[Source(i)]
  BY <1>1, Forwarded
<1>15. BufferInv'
  <2>1. \A i \in 1..Len(printed') :
          printed'[i] # TimeoutMessage => printed'[i].line <= relayed[printed'[i].proc]
    BY <1>13, <1>14 DEF CliInv, BufferInv
  <2> QED
    BY <1>2, <1>3, <2>1 DEF CliInv, BufferInv, InOrder
<1>16. OffsetInv'
  <2> SUFFICES ASSUME status' = "ok" PROVE OffsetInv'
    BY DEF OffsetInv
  <2>1. \A i \in 1..Len(printed') : printed'[i] # TimeoutMessage
    BY <1>1, <1>13, <1>14 DEF CliInv, OffsetInv
  <2>2. CASE raw_stderr = <<>>
    <3>1. stderr_offset' = stderr_offset /\ printed' = printed
      BY <1>12, <2>2
    <3>2. \/ \A j \in 1..Len(Buffer) : AllBefore(printed, Buffer[j])
          \/ /\ stderr_offset <= Len(Buffer)
             /\ \A j \in 1..Len(Buffer) : j > stderr_offset => AllBefore(printed, Buffer[j])
      BY <1>1 DEF CliInv, OffsetInv
    <3>3. \/ \A j \in 1..Len(Buffer') : AllBefore(printed', Buffer'[j])
          \/ /\ stderr_offset' <= Len(Buffer')
             /\ \A j \in 1..Len(Buffer') : j > stderr_offset' => AllBefore(printed', Buffer'[j])
      BY <1>3, <3>1, <3>2
    <3> QED
      BY <1>5, <2>1, <3>3 DEF OffsetInv, AllBefore
  <2>3. CASE raw_stderr # <<>>
    <3>1. stderr_offset' = Len(raw_stderr) /\ Len(raw_stderr) \in 1..Len(raw_stderr)
      BY <1>12, <2>3
    <3>2. stderr_offset' <= Len(Buffer)
      BY <1>13, <3>1
    <3>3. ASSUME NEW j \in 1..Len(Buffer), j > stderr_offset', NEW i \in 1..Len(printed'),
                 printed'[i].proc = Buffer[j].proc
          PROVE  printed'[i].line < Buffer[j].line
      <4>1. CASE i \in 1..Len(printed) /\ printed'[i] = printed[i]
        <5>1. AllBefore(printed, Buffer[j])
          BY <1>1, <1>7, <3>1, <3>3 DEF CliInv, OffsetInv
        <5> QED
          BY <3>3, <4>1, <5>1 DEF AllBefore
      <4>2. CASE Source(i) \in 1..Len(raw_stderr) /\ printed'[i] = raw_stderr[Source(i)]
        <5>1. /\ Source(i) \in 1..Len(Buffer) /\ raw_stderr[Source(i)] = Buffer[Source(i)]
              /\ Source(i) < j
          BY <1>12, <1>13, <3>1, <3>3, <4>2
        <5> QED
          BY <3>3, <4>2, <5>1 DEF CliInv, BufferInv, InOrder
      <4> QED
        BY <1>14, <4>1, <4>2
    <3>4. \A j \in 1..Len(Buffer') : j > stderr_offset' => AllBefore(printed', Buffer'[j])
      BY <1>3, <3>3 DEF AllBefore
    <3>5. stderr_offset' <= Len(Buffer')
      BY <1>3, <3>2
    <3> QED
      BY <1>5, <2>1, <3>4, <3>5 DEF OffsetInv, AllBefore
  <2> QED
    BY <2>2, <2>3
<1>17. KeptInv'
  <2> SUFFICES ASSUME NoRestart PROVE KeptInv'
    BY <1>3 DEF KeptInv
  <2>1. /\ Len(printed) = stderr_offset /\ stderr_offset <= Len(raw_stderr)
        /\ \A k \in 1..stderr_offset : raw_stderr[k] = printed[k]
        /\ stderr_offset <= Len(Buffer)
    BY <1>1 DEF CliInv, KeptInv
  <2>2. Len(printed') = Len(raw_stderr)
    <3>1. Len(printed') = Len(printed) + (IF stderr_offset < Len(raw_stderr)
                                          THEN Len(raw_stderr) - stderr_offset ELSE 0)
      BY <1>1, Forwarded
    <3> QED
      BY <1>7, <1>12, <2>1, <3>1
  <2>3. \A i \in 1..Len(printed') : printed'[i] = raw_stderr[i]
    <3> TAKE i \in 1..Len(printed')
    <3>1. Source(i) = i
      BY <1>7, <1>12, <2>1, <2>2 DEF Source
    <3> QED
      BY <1>14, <2>1, <3>1
  <2>4. printed' = raw_stderr
    <3>1. printed' \in Seq(Diagnostics \cup {TimeoutMessage}) /\ raw_stderr \in Seq(Diagnostics \cup {TimeoutMessage})
      BY <1>9 DEF CliType, CliInv
    <3> QED
      BY <2>2, <2>3, <3>1, SeqEqual
  <2>5. stderr_offset' = Len(raw_stderr)
    BY <1>7, <1>12, <2>1
  <2>6. ASSUME status' = "ok"
        PROVE  /\ Len(printed') = stderr_offset' /\ stderr_offset' <= Len(Buffer)
               /\ \A k \in 1..stderr_offset' : printed'[k] = Buffer[k]
    <3>1. \A k \in 1..Len(raw_stderr) : k \in 1..Len(Buffer) /\ raw_stderr[k] = Buffer[k]
      BY <1>13, <2>6
    <3>2. Len(raw_stderr) <= Len(Buffer)
      BY <1>12, <2>1, <3>1
    <3> QED
      BY <2>2, <2>3, <2>5, <3>1, <3>2
  <2>7. printed' = raw_stderr'
    BY <1>1, <2>4
  <2> QED
    BY <1>3, <1>5, <2>6, <2>7 DEF KeptInv
<1> QED
  BY <1>8, <1>9, <1>10, <1>11, <1>15, <1>16, <1>17 DEF CliInv

-----------------------------------------------------------------------------
\* The loop inside predict.
LEMMA RequestStep == ASSUME CliInv, IInv', Request PROVE CliInv'
<1>1. /\ Looping /\ handled = Len(results)
      /\ UNCHANGED <<handled, stderr_offset, printed, status>>
      /\ results' = results \/ Escaped' => raw_stderr' = raw_stderr
      /\ results' # results /\ ~Escaped' => raw_stderr' = RawStderr(results'[Len(results')].outcome)
  BY DEF Request
<1>2. \A r : Append(results, r) # results
  <2>1. results \in Seq(Result)
    BY DEF CliInv, IInv, TypeOK, CallerType
  <2>2. \A r : Len(Append(results, r)) = Len(results) + 1 /\ Len(results) \in Nat
    BY <2>1
  <2> QED
    BY <2>2
<1>3. CASE ReuseProcess(Worker) \/ WriteRequest
  <2>1. /\ results' = results /\ started' = started
        /\ UNCHANGED <<stderr_buffers, relayed>>
    BY <1>3 DEF ReuseProcess, WriteRequest, startVars, stderrVars
  <2>2. ~Unhandled
    BY <1>1, LineFacts DEF Unhandled
  <2> QED
    BY <1>1, <2>1, <2>2, QuietStep
<1>4. CASE StartProcess(Worker)
  <2>1. results' = results
    BY <1>4 DEF StartProcess
  <2> QED
    BY <1>1, <1>4, <2>1, StartStep
<1>5. CASE CannotStart(Worker)
  <2>1. results' # results /\ ~Escaped'
    <3>1. PICK r : results' = Append(results, r) /\ r.outcome = "unstarted"
      BY <1>5 DEF CannotStart
    <3>2. results'[Len(results')] = r
      BY <3>1 DEF CliInv, IInv, TypeOK, CallerType
    <3> QED
      BY <1>2, <3>1, <3>2 DEF Escaped
  <2> QED
    BY <1>1, <1>5, <2>1, CannotStartStep
<1>6. CASE WriteFails \/ PredictReturns \/ PredictTimesOut
  <2>1. results' # results
    BY <1>2, <1>6 DEF WriteFails, PredictReturns, PredictTimesOut, Return
  <2>2. CASE ~Escaped'
    BY <1>1, <1>6, <2>1, <2>2, ReturnStep
  <2>3. CASE Escaped'
    <3>1. PredictReturns
      <4>1. ASSUME NEW r, results' = Append(results, r), r.outcome # "raised" PROVE ~Escaped'
        <5>1. results'[Len(results')] = r
          BY <4>1 DEF CliInv, IInv, TypeOK, CallerType
        <5> QED
          BY <4>1, <5>1 DEF Escaped
      <4> QED
        BY <1>6, <2>3, <4>1 DEF WriteFails, PredictTimesOut, Return
    <3> QED
      BY <1>1, <2>3, <3>1, EscapeStep
  <2> QED
    BY <2>2, <2>3
<1> QED
  BY <1>3, <1>4, <1>5, <1>6 DEF Request

\* What the command's threads and daemons do.
LEMMA OthersStep == ASSUME CliInv, IInv', Others PROVE CliInv'
<1>1. UNCHANGED cliVars
  BY DEF Others
<1>2. CASE \E p \in Procs : RelayStderr(p)
  BY <1>1, <1>2, RelayStep
<1>3. CASE StartRead \/ (\E r \in reading : FinishRead(r)) \/ Daemons
  <2>1. UNCHANGED <<results, client, started, stderr_buffers, relayed>>
    BY <1>3 DEF StartRead, FinishRead, Daemons, DaemonAnswers, DaemonStops, DaemonDies, PipesClose,
                Exits, DaemonLogs, clientVars, startVars, stderrVars
  <2> QED
    BY <1>1, <2>1, QuietStep DEF cliVars
<1> QED
  BY <1>2, <1>3 DEF Others, Threads

\* Closing the client returns no result and leaves the diagnostics alone.
LEMMA LeaveStep == ASSUME CliInv, IInv', Leave PROVE CliInv'
<1>1. /\ UNCHANGED <<results, started, stderr_buffers, relayed>>
      /\ UNCHANGED <<raw_stderr, handled, stderr_offset, printed, status>>
  BY DEF Leave, Stop, BeginClose, BeginShutdown, ShutdownBroken, ShutdownHeard, ShutdownRaises,
         ShutdownReaped, ShutdownTimesOut, FinishClose, cliVars, clientVars, startVars, stderrVars
<1>2. ~Unhandled
  <2>1. status = "error" \/ handled >= MaxCalls \/ Escaped
    BY CountsAssumption DEF Leave, Looping, Repeat, CliInv, CliType
  <2>2. Len(results) <= MaxCalls
    BY DEF CliInv, IInv, TypeOK, CallerType
  <2> QED
    BY <2>1, <2>2, LineFacts, CountsAssumption DEF CliInv, LoopInv, CliType, Unhandled
<1> QED
  BY <1>1, <1>2, QuietStep

\* The invariant of the command, on top of that of its client.
THEOREM CliInvariance == CliSpec => []CliInv
<1>1. CliInv /\ [CliNext]_allVars => CliInv'
  <2> SUFFICES ASSUME CliInv, [CliNext]_allVars PROVE CliInv'
    OBVIOUS
  <2>1. IInv'
    BY ClientMoves, StepInv DEF CliInv
  <2>2. CASE Request
    BY <2>1, <2>2, RequestStep
  <2>3. CASE Handle
    BY <2>1, <2>3, HandleStep
  <2>4. CASE Leave
    BY <2>1, <2>4, LeaveStep
  <2>5. CASE Others
    BY <2>1, <2>5, OthersStep
  <2>6. CASE PrintResponse \/ PrintTraceback \/ Finished \/ UNCHANGED allVars
    <3>1. UNCHANGED vars /\ UNCHANGED <<raw_stderr, handled, stderr_offset, printed, status>>
      BY <2>6 DEF PrintResponse, PrintTraceback, Finished, allVars, cliVars
    <3>2. UNCHANGED <<results, started, stderr_buffers, relayed, client>>
      BY <3>1 DEF vars, clientVars, startVars, stderrVars
    <3> QED
      BY <2>1, <3>1, <3>2, QuietStep
  <2> QED
    BY <2>2, <2>3, <2>4, <2>5, <2>6 DEF CliNext
<1> QED
  BY <1>1, CliStart, PTL DEF CliSpec

\* For any number of repeats, restarts and lines: the lines of one process are forwarded
\* once and in their order, and all of them unless a restart was tried.
THEOREM AlwaysForwardedOnce == CliSpec => []ForwardedOnce
<1>1. CliInv => ForwardedOnce
  BY DEF CliInv, KeptInv, InOrder, NoRestart, ForwardedOnce
<1> QED
  BY <1>1, CliInvariance, PTL

\* What the command sees of its client is the abstract service, through all its repeats and
\* restarts.
THEOREM CliSeesTheService == CliSpec => ImplementsService
<1>1. CliInv /\ [CliNext]_allVars => [Service!Next]_(Service!vars)
  BY ClientMoves, ServiceStep DEF CliInv
<1>2. CliInit => Service!Init
  BY ServiceInit DEF CliInit
<1> QED
  BY <1>1, <1>2, CliInvariance, PTL DEF CliSpec, ImplementsService, Service!Spec
=============================================================================
