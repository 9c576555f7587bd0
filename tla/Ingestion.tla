------------------------------- MODULE Ingestion -------------------------------
(***************************************************************************)
(* The commands on the data directory: `ingest` (ingestion/runner.py, the   *)
(* connectors and RawStorage of sources/), `normalize`                       *)
(* (normalization/runner.py and the five normalizers) and                    *)
(* `compute_statistics` (statistics/runner.py).                              *)
(*                                                                         *)
(* Commands run one after another, numbered by `run`; a file remembers the   *)
(* command that wrote it.  A write opens its file, which is then torn, and    *)
(* finishes it; a command may be killed before each of these steps.  The      *)
(* time stamp in the name of a raw file is the number of its command.         *)
(***************************************************************************)
EXTENDS Naturals, FiniteSets, SequencesExt

CONSTANTS
  Sources,      \* the connectors in the order of the registry
  Directories,  \* the same in the order of their directories' names
  Series,       \* how many indicators, slugs or years a connector asks for
  MaxPages,     \* bound: pages of an indicator
  MaxRuns,      \* bound: commands
  MaxFaults     \* bound: faults, and failures of the network, the file system or a model

ASSUME IngestionAssumption ==
  /\ Sources \in Seq({"world_bank_wdi", "openalex", "arxiv", "crossref", "owid"}) \ {<<>>}
  /\ IsInjective(Sources) /\ IsInjective(Directories)
  /\ ToSet(Directories) = ToSet(Sources)
  /\ Series \in [ToSet(Sources) -> Nat \ {0}]
  /\ MaxPages \in Nat \ {0} /\ MaxRuns \in Nat /\ MaxFaults \in Nat

VARIABLES
  run,        \* commands started
  faults,     \* faults and failures so far
  cmd,        \* the command that is running, or "idle"
  source,     \* position of the loop over sources
  todo,       \* requests, tables or files the command has yet to deal with
  fetched,    \* the list iter_fetches is making, then the one it returned
  step,       \* steps done of the write in progress
  written_count,
  frame,      \* the rows of a source still to be written, by metric: the raw files they are from
  summaries,  \* what ingest will print, by source
  raw,        \* raw files by name, with the metadata file beside each
  tables,     \* data/processed/normalized, by source and metric
  statistics  \* data/processed/statistics, by source and metric

position == <<source, todo, fetched, step, written_count, frame>>
vars     == <<run, faults, cmd, position, summaries, raw, tables, statistics>>

Nothing == <<>>    \* no request, no row, no file

\* The table, folder or list f in which the entry of x is y.
Put(f, x, y) == [z \in DOMAIN f \cup {x} |-> IF z = x THEN y ELSE f[z]]

IngestionInit ==
  /\ run = 0 /\ faults = 0 /\ cmd = "idle"
  /\ source = 1 /\ todo = <<>> /\ fetched = <<>> /\ step = 0 /\ written_count = 0
  /\ frame = Nothing /\ summaries = Nothing
  /\ raw = Nothing /\ tables = Nothing /\ statistics = Nothing

\* Another command is typed.
Typed(command) == cmd = "idle" /\ run < MaxRuns /\ run' = run + 1 /\ cmd' = command

\* The command that runs ends, by return or by an exception.
Ends ==
  /\ cmd' = "idle" /\ source' = 1 /\ todo' = <<>> /\ fetched' = <<>>
  /\ step' = 0 /\ written_count' = 0 /\ frame' = Nothing

\* One more thing outside the program goes wrong.
Fault == faults < MaxFaults /\ faults' = faults + 1

\* The process is killed: what it had in memory is lost.
Killed ==
  /\ cmd # "idle"
  /\ Fault
  /\ Ends
  /\ summaries' = IF cmd = "ingest" THEN Nothing ELSE summaries
  /\ UNCHANGED <<run, raw, tables, statistics>>

-----------------------------------------------------------------------------
(* ingest *)

Src == Sources[source]

\* What each connector asks for, for the i-th of its indicators, years or slugs.
Ask(i, kind) == [series |-> i, kind |-> kind]
WorldBank(i) == <<Ask(i, "page")>>      \* as often as there are pages
OpenAlex(i)  == <<Ask(i, "works_publication_year")>>
Arxiv(i)     == <<Ask(i, "machine_learning")>>
Crossref(i)  == <<Ask(i, "works_created")>>
Owid(i)      == <<Ask(i, "csv"), Ask(i, "source_metadata")>>

Asks(s, i) ==
  CASE s = "world_bank_wdi" -> WorldBank(i)
    [] s = "openalex" -> OpenAlex(i)
    [] s = "arxiv"    -> Arxiv(i)
    [] s = "crossref" -> Crossref(i)
    [] s = "owid"     -> Owid(i)

\* All of it, indicator by indicator.
Requests(s) ==
  LET n == Len(Asks(s, 1))
  IN  [k \in 1..n * Series[s] |-> Asks(s, (k - 1) \div n + 1)[((k - 1) % n) + 1]]

\* The loop of run_ingestion goes on with the next source, or the command ends.
NextSource ==
  IF source = Len(Sources) THEN Ends
  ELSE /\ source' = source + 1 /\ todo' = Requests(Sources[source + 1])
       /\ fetched' = <<>> /\ step' = 0 /\ written_count' = 0
       /\ UNCHANGED <<cmd, frame>>

StartIngest ==
  /\ Typed("ingest")
  /\ source' = 1 /\ todo' = Requests(Sources[1])
  /\ summaries' = Nothing
  /\ UNCHANGED <<faults, fetched, step, written_count, frame, raw, tables, statistics>>

Dataset(request, page) == [series |-> request.series, kind |-> request.kind, page |-> page]

\* An answer arrives.  The World Bank says with each page how many there are; when
\* the last one is there the connector adds all of them as one more dataset.
Fetch ==
  /\ cmd = "ingest" /\ todo # <<>>
  /\ LET page == Cardinality({i \in DOMAIN fetched : /\ fetched[i].series = Head(todo).series
                                                     /\ fetched[i].kind = "page"}) + 1
         got  == Append(fetched, Dataset(Head(todo), page))
     IN IF Head(todo).kind # "page"
        THEN fetched' = got /\ todo' = Tail(todo)
        ELSE \/ page < MaxPages /\ fetched' = got /\ UNCHANGED todo
             \/ /\ fetched' = Append(got, Dataset([Head(todo) EXCEPT !.kind = "combined"], 1))
                /\ todo' = Tail(todo)
  /\ UNCHANGED <<run, faults, cmd, source, step, written_count, frame, summaries, raw, tables, statistics>>

\* What the summary says of the source that ends here.
Report(status, count, cause) ==
  summaries' = Put(summaries, Src,
                   [run |-> run, status |-> status, files_written |-> count, cause |-> cause])

\* A request fails, or its answer is not what it should be: iter_fetches raises.
FetchFails ==
  /\ cmd = "ingest" /\ todo # <<>>
  /\ Fault
  /\ Report("error", 0, "fetch")
  /\ NextSource
  /\ UNCHANGED <<run, raw, tables, statistics>>

Storing == cmd = "ingest" /\ todo = <<>> /\ written_count < 2 * Len(fetched)

\* The dataset being stored, and the name of its file.
Stored == fetched[written_count \div 2 + 1]
Name   == [run |-> run, source |-> Src, dataset |-> Stored]

\* RawStorage.write: the payload, then the metadata, each opened and finished.
Store ==
  /\ Storing
  /\ raw' = Put(raw, Name, CASE step = 0 -> [whole |-> FALSE, metadata |-> "none"]
                              [] step = 1 -> [whole |-> TRUE,  metadata |-> "none"]
                              [] step = 2 -> [whole |-> TRUE,  metadata |-> "torn"]
                              [] step = 3 -> [whole |-> TRUE,  metadata |-> "whole"])
  /\ step' = (step + 1) % 4
  /\ written_count' = IF step = 3 THEN written_count + 2 ELSE written_count
  /\ UNCHANGED <<run, faults, cmd, source, todo, fetched, frame, summaries, tables, statistics>>

\* Faulty variant: a dataset that cannot be written is skipped and counted.
StoreFailsQuietly ==
  /\ Storing
  /\ Fault
  /\ step' = 0 /\ written_count' = written_count + 2
  /\ UNCHANGED <<run, cmd, source, todo, fetched, frame, summaries, raw, tables, statistics>>

\* The file system refuses: the source is abandoned, with what it has left behind.
StoreFails ==
  /\ Storing
  /\ Fault
  /\ Report("error", 0, "write")
  /\ NextSource
  /\ UNCHANGED <<run, raw, tables, statistics>>

SourceDone ==
  /\ cmd = "ingest" /\ todo = <<>> /\ ~Storing
  /\ Report("ok", written_count, "none")
  /\ NextSource
  /\ UNCHANGED <<run, faults, raw, tables, statistics>>

-----------------------------------------------------------------------------
(* normalize and compute_statistics *)

\* The raw files the normalizers read: by a glob, and by a test of the name.
NORMALIZERS ==
  [world_bank_wdi |-> "combined", openalex |-> "works_publication_year",
   arxiv |-> "machine_learning", crossref |-> "works_created", owid |-> "csv"]

Readable(s) == {f \in DOMAIN raw : f.source = s /\ f.dataset.kind = NORMALIZERS[s]}

\* One metric for an indicator or a slug, one for all the years of the others.
Metric(f) == IF f.source \in {"world_bank_wdi", "owid"} THEN f.dataset.series ELSE 1

\* A CSV file that was cut off is still a CSV file, unless nothing of it is there.
Lenient(s) == s = "owid"

StartNormalize ==
  /\ Typed("normalize")
  /\ UNCHANGED <<faults, position, summaries, raw, tables, statistics>>

\* A torn JSON or XML file raises, and so may a torn CSV file; a torn CSV file may
\* also be read as a shorter one, or as one without a value.
ReadRaises ==
  /\ cmd = "normalize" /\ frame = Nothing
  /\ \E f \in Readable(Src) : ~raw[f].whole
  /\ Ends
  /\ UNCHANGED <<run, faults, summaries, raw, tables, statistics>>

\* The normalizer has read the files in `used`: its rows, grouped by metric.
Group(used) ==
  IF used = {} THEN /\ IF source = Len(Sources) THEN Ends
                       ELSE source' = source + 1 /\ UNCHANGED <<cmd, todo, fetched, step, written_count, frame>>
  ELSE /\ frame' = [m \in {Metric(f) : f \in used} |-> {f \in used : Metric(f) = m}]
       /\ UNCHANGED <<cmd, source, todo, fetched, step, written_count>>

\* Faulty variant: a file that cannot be parsed is skipped, whatever its format.
ReadAllThatParses ==
  /\ cmd = "normalize" /\ frame = Nothing
  /\ Group({f \in Readable(Src) : raw[f].whole})
  /\ UNCHANGED <<run, faults, summaries, raw, tables, statistics>>

ReadAll ==
  /\ cmd = "normalize" /\ frame = Nothing
  /\ LET torn == {f \in Readable(Src) : ~raw[f].whole} IN
     /\ torn = {} \/ Lenient(Src)
     /\ \E lost \in SUBSET torn : Group(Readable(Src) \ lost)
  /\ UNCHANGED <<run, faults, summaries, raw, tables, statistics>>

\* The table of the first metric of the frame is opened, then finished; after the last
\* one the next source is read.
WriteTable ==
  /\ cmd = "normalize" /\ frame # Nothing
  /\ LET metric == Min(DOMAIN frame) IN
     /\ tables' = Put(tables, <<Src, metric>>,
                      [run |-> run, whole |-> step = 1, from |-> frame[metric]])
     /\ IF step = 0 THEN step' = 1 /\ UNCHANGED <<cmd, source, todo, fetched, written_count, frame>>
        ELSE IF DOMAIN frame # {metric}
        THEN /\ step' = 0 /\ frame' = Restrict(frame, DOMAIN frame \ {metric})
             /\ UNCHANGED <<cmd, source, todo, fetched, written_count>>
        ELSE IF source = Len(Sources) THEN Ends
        ELSE /\ source' = source + 1 /\ step' = 0 /\ frame' = Nothing
             /\ UNCHANGED <<cmd, todo, fetched, written_count>>
  /\ UNCHANGED <<run, faults, summaries, raw, statistics>>

\* The tables of the normalized directory, in the order of their paths.
TablePaths ==
  FlattenSeq([i \in 1..Len(Directories) |->
    LET metrics == {t[2] : t \in {t \in DOMAIN tables : t[1] = Directories[i]}}
    IN [j \in 1..Cardinality(metrics) |-> <<Directories[i], SetToSortSeq(metrics, <)[j]>>]])

\* Without a normalized directory the command only warns.
StartStatistics ==
  /\ tables # Nothing
  /\ Typed("compute_statistics")
  /\ todo' = TablePaths
  /\ UNCHANGED <<faults, source, fetched, step, written_count, frame, summaries, raw, tables, statistics>>

\* A table is read, its statistics are opened and finished; a torn table raises.
WriteStatistics ==
  /\ cmd = "compute_statistics"
  /\ IF tables[Head(todo)].whole
     THEN /\ statistics' = Put(statistics, Head(todo),
                               [run |-> run, whole |-> step = 1, of |-> tables[Head(todo)].run])
          /\ IF step = 0 THEN step' = 1 /\ UNCHANGED <<cmd, source, todo, fetched, written_count, frame>>
             ELSE IF Len(todo) = 1 THEN Ends
             ELSE step' = 0 /\ todo' = Tail(todo) /\ UNCHANGED <<cmd, source, fetched, written_count, frame>>
     ELSE Ends /\ UNCHANGED statistics
  /\ UNCHANGED <<run, faults, summaries, raw, tables>>

DataNext ==
  \/ StartIngest \/ Fetch \/ FetchFails \/ Store \/ StoreFails \/ SourceDone
  \/ StartNormalize \/ ReadRaises \/ ReadAll \/ WriteTable
  \/ StartStatistics \/ WriteStatistics

-----------------------------------------------------------------------------
\* The summary of an ingestion tells what is on the disk: a source that is "ok" has
\* exactly the files it counts, all whole; a source that failed while it was being
\* fetched has left nothing, although other requests of it had succeeded.
SummariesTellTheDisk ==
  \A s \in DOMAIN summaries :
    LET mine == {f \in DOMAIN raw : f.source = s /\ f.run = summaries[s].run} IN
    /\ summaries[s].status = "ok" =>
         /\ summaries[s].files_written = 2 * Cardinality(mine)
         /\ \A f \in mine : raw[f].whole /\ raw[f].metadata = "whole"
    /\ summaries[s].cause = "fetch" => mine = {}

\* Normalization drops no retrieval silently: a finished table holds the rows of
\* every whole raw file there was for it when its command ran, and there was a torn
\* one only in a source of CSV files.
NothingDroppedSilently ==
  \A t \in DOMAIN tables : tables[t].whole =>
    \A f \in Readable(t[1]) : Metric(f) = t[2] /\ f.run < tables[t].run =>
      IF raw[f].whole THEN f \in tables[t].from ELSE Lenient(t[1])
=============================================================================
