------------------------------ MODULE Ingestion ------------------------------
(***************************************************************************)
(* From the download to the bronze table: scripts/fetch_data.py streams    *)
(* each month into <file>.part and renames it, skipping months it finds;   *)
(* ingest/bronze.py reads the raw directory twice, gates what it read and  *)
(* replaces the bronze table.  The two share only the directory: Spark     *)
(* reads every file of it, those called .part too.                         *)
(*                                                                         *)
(* Fetchers run one after another; ingestions run beside them.  A month is *)
(* a pair of year and month; a file has one row, of its month.             *)
(***************************************************************************)
EXTENDS Integers, Sequences, FiniteSets, FiniteSetsExt

CONSTANTS
    Fetchers, Fetches,      \* runs of fetch_data, and the arguments each may have
    Ingestions, Ingests,    \* runs of bronze, and the arguments each may have
    Months,                 \* the months there are, without a gap
    NoLimit,                \* --months is not given
    NoTable, Unknown,       \* no table, and what spoilt writes left, see TableWrite
    MaxFaults               \* bound: how often something raises or is killed

ASSUME LimitAssumption == NoLimit \notin Int
ASSUME IngestionsAssumption == {NoTable, Unknown} \cap Ingestions = {} /\ NoTable # Unknown
ASSUME BoundsAssumption == MaxFaults \in Nat

VARIABLES
    dest, part,     \* of each month, the file and the .part file in the raw directory
    fpc, fetch, todo,       \* of each fetcher: its step, arguments, months to come
    ipc, ingest,            \* of each ingestion: its step, arguments
    listed,                 \* the files it read the first time
    frame,                  \* how often each month is in its DataFrame
    disk,                   \* the ingestion whose frame is in place, see TableWrite
    faults

rawVars == <<dest, part, fpc, fetch, todo>>
jobVars == <<ipc, ingest, listed, frame>>
vars == <<rawVars, jobVars, disk, faults>>

Contents == {"absent", "empty", "half", "whole"}
FetchSteps == {"next", "open", "stream", "replace"}
IngestSteps == {"read", "transform", "gates", "write", "writing", "verify"}
Ended == {"done", "failed"}

-----------------------------------------------------------------------------
(* month_range *)

UpTo(a, b) == a[1] < b[1] \/ (a[1] = b[1] /\ a[2] <= b[2])

\* Mutant of Following: off by one at the end of the year.
FollowingLate(month) ==
    IF month[2] > 12 THEN <<month[1] + 1, 1>> ELSE <<month[1], month[2] + 1>>

Following(month) ==
    IF month[2] >= 12 THEN <<month[1] + 1, 1>> ELSE <<month[1], month[2] + 1>>

ASSUME MonthsAssumption ==
    /\ Months \subseteq Int \X (1..12) /\ IsFiniteSet(Months)
    /\ \A a, b \in Months : \A m \in (a[1]..b[1]) \X (1..12) :
          UpTo(a, m) /\ UpTo(m, b) => m \in Months
ASSUME FetchesAssumption ==
    Fetches \subseteq [start : Months, end : Months, limit : Int \cup {NoLimit}, force : BOOLEAN]

MonthsFrom(start) ==
    LET month[i \in Nat] == IF i = 0 THEN start ELSE Following(month[i - 1])
    IN  month

\* The loop appends before it compares with the limit: a limit below one is one.
MonthRange(o) ==
    LET month == MonthsFrom(o.start)
        within == {i \in 0..Cardinality(Months) : UpTo(month[i], o.end)}
        length == IF o.limit = NoLimit
                  THEN Cardinality(within)
                  ELSE Min({Cardinality(within), Max({1, o.limit})})
    IN  [i \in 1..length |-> month[i - 1]]

-----------------------------------------------------------------------------
Init ==
    /\ dest = [m \in Months |-> "absent"]
    /\ part = [m \in Months |-> "absent"]
    /\ fpc = [f \in Fetchers |-> "idle"]
    /\ fetch \in [Fetchers -> Fetches]
    /\ todo = [f \in Fetchers |-> <<>>]
    /\ ipc = [i \in Ingestions |-> "idle"]
    /\ ingest \in [Ingestions -> Ingests]
    /\ listed = [i \in Ingestions |-> {}]
    /\ frame = [i \in Ingestions |-> [m \in Months |-> 0]]
    /\ disk = [table |-> NoTable, trash |-> NoTable, spoilt |-> {}]
    /\ faults = 0

GotoF(f, step) == fpc' = [fpc EXCEPT ![f] = step]
GotoI(i, step) == ipc' = [ipc EXCEPT ![i] = step]
Fault == faults < MaxFaults /\ faults' = faults + 1

-----------------------------------------------------------------------------
(* fetch_data *)

\* A range without months ends in an IndexError, of the log line.
StartFetch(f) ==
    /\ fpc[f] = "idle"
    /\ \A g \in Fetchers : fpc[g] \notin FetchSteps
    /\ todo' = [todo EXCEPT ![f] = MonthRange(fetch[f])]
    /\ GotoF(f, IF MonthRange(fetch[f]) = <<>> THEN "failed" ELSE "next")
    /\ UNCHANGED <<dest, part, fetch, jobVars, disk, faults>>

Present(content) == content \notin {"absent", "empty"}

\* Mutant of Skip: a download that was begun is taken for one that was made.
SkipBegun(f, m) == (Present(dest[m]) \/ Present(part[m])) /\ ~fetch[f].force

Skip(f, m) == Present(dest[m]) /\ ~fetch[f].force

\* The next month: skipped, or requested.
NextMonth(f) ==
    /\ fpc[f] = "next"
    /\ \/ /\ todo[f] = <<>>
          /\ GotoF(f, "done")
          /\ UNCHANGED todo
       \/ /\ todo[f] # <<>>
          /\ Skip(f, Head(todo[f]))
          /\ todo' = [todo EXCEPT ![f] = Tail(@)]
          /\ UNCHANGED fpc
       \/ /\ todo[f] # <<>>
          /\ ~Skip(f, Head(todo[f]))
          /\ GotoF(f, "open")
          /\ UNCHANGED todo
    /\ UNCHANGED <<dest, part, fetch, jobVars, disk, faults>>

\* open("wb") empties what an earlier attempt left.
Open(f) ==
    /\ fpc[f] = "open"
    /\ part' = [part EXCEPT ![Head(todo[f])] = "empty"]
    /\ GotoF(f, "stream")
    /\ UNCHANGED <<dest, fetch, todo, jobVars, disk, faults>>

\* Chunk by chunk; a body shorter than announced raises (see Stop).
Stream(f) ==
    /\ fpc[f] = "stream"
    /\ LET m == Head(todo[f])
       IN  \/ /\ part[m] = "empty"
              /\ part' = [part EXCEPT ![m] = "half"]
              /\ UNCHANGED fpc
           \/ /\ part[m] = "half"
              /\ part' = [part EXCEPT ![m] = "whole"]
              /\ GotoF(f, "replace")
    /\ UNCHANGED <<dest, fetch, todo, jobVars, disk, faults>>

Replace(f) ==
    /\ fpc[f] = "replace"
    /\ LET m == Head(todo[f])
       IN  /\ dest' = [dest EXCEPT ![m] = part[m]]
           /\ part' = [part EXCEPT ![m] = "absent"]
    /\ todo' = [todo EXCEPT ![f] = Tail(@)]
    /\ GotoF(f, "next")
    /\ UNCHANGED <<fetch, jobVars, disk, faults>>

\* A request or a write raises, the body is cut short, or the process is killed.
StopFetch(f) ==
    /\ fpc[f] \in FetchSteps
    /\ Fault
    /\ GotoF(f, "failed")
    /\ UNCHANGED <<dest, part, fetch, todo, jobVars, disk>>

FetchStep(f) == NextMonth(f) \/ Open(f) \/ Stream(f) \/ Replace(f)

-----------------------------------------------------------------------------
(* bronze *)

StartIngest(i) ==
    /\ ipc[i] = "idle"
    /\ GotoI(i, "read")
    /\ UNCHANGED <<rawVars, ingest, listed, frame, disk, faults>>

\* The files of the directory: <<"dest", m>> and <<"part", m>>.
At(file) == IF file[1] = "dest" THEN dest[file[2]] ELSE part[file[2]]
Raw == {file \in {"dest", "part"} \X Months : At(file) # "absent"}

\* read_parquet lists the files, count() reads them: a file without its footer
\* raises, an empty one has no splits to read, unless the schema is taken from
\* it; so does a directory without files.
Read(i) ==
    /\ ipc[i] = "read"
    /\ \/ /\ \A file \in Raw : At(file) # "half"
          /\ \E file \in Raw : At(file) = "whole"
          /\ listed' = [listed EXCEPT ![i] = {file \in Raw : At(file) = "whole"}]
          /\ GotoI(i, "transform")
       \/ /\ \/ \E file \in Raw : At(file) # "whole"
             \/ Raw = {}
          /\ GotoI(i, "failed")
          /\ UNCHANGED listed
    /\ UNCHANGED <<rawVars, ingest, frame, disk, faults>>

InRange(i, m) == UpTo(ingest[i].start, m) /\ UpTo(m, ingest[i].end)
Copies(files, m) == Cardinality({file \in files : file[2] = m})

\* Mutant of Transform: a listed file that is gone is passed over.
TransformWhatIsLeft(i) ==
    /\ ipc[i] = "transform"
    /\ frame' = [frame EXCEPT ![i] = [m \in Months |->
          IF InRange(i, m) THEN Copies({file \in listed[i] : At(file) # "absent"}, m) ELSE 0]]
    /\ GotoI(i, "gates")
    /\ UNCHANGED <<rawVars, ingest, listed, disk, faults>>

\* The second reading, of the files listed, into the cache; a .part file may
\* have been renamed or emptied since, which raises.
Transform(i) ==
    /\ ipc[i] = "transform"
    /\ \/ /\ \A file \in listed[i] : At(file) = "whole"
          /\ frame' = [frame EXCEPT ![i] = [m \in Months |->
                IF InRange(i, m) THEN Copies(listed[i], m) ELSE 0]]
          /\ GotoI(i, "gates")
       \/ /\ \E file \in listed[i] : At(file) # "whole"
          /\ GotoI(i, "failed")
          /\ UNCHANGED frame
    /\ UNCHANGED <<rawVars, ingest, listed, disk, faults>>

Rows(copies) == MapThenSumSet(LAMBDA m : copies[m], Months)
MinRows(i) == Max({1, Cardinality(listed[i]) \div 2})

\* Shared partitions keep 9 of 10 rows, an inner join with the table in place;
\* what is Unknown may have any.
FloorKept(copies) ==
    disk.table \in Ingestions =>
        \A m \in Months : copies[m] > 0 /\ frame[disk.table][m] > 0 =>
            10 * copies[m] >= 9 * frame[disk.table][m]

Gates(i) ==
    /\ ipc[i] = "gates"
    /\ \/ /\ Rows(frame[i]) >= MinRows(i) /\ FloorKept(frame[i])
          /\ GotoI(i, "write")
       \/ /\ Rows(frame[i]) < MinRows(i) \/ ~FloorKept(frame[i]) \/ disk.table = Unknown
          /\ GotoI(i, "failed")
    /\ UNCHANGED <<rawVars, ingest, listed, frame, disk, faults>>

\* atomic_write_parquet.
Table == INSTANCE TableWrite WITH
    Writers <- Ingestions, Old <- {}, None <- NoTable,
    writing <- {i \in Ingestions : ipc[i] = "writing"}

Write(i) ==
    /\ ipc[i] = "write"
    /\ GotoI(i, "writing")
    /\ disk' = Table!Begun(i)
    /\ UNCHANGED <<rawVars, ingest, listed, frame, faults>>

\* What others may see of a write, also of one that fails.
WriteMoves(i) ==
    /\ ipc[i] = "writing"
    /\ \/ disk' \in Table!Moved(i) /\ UNCHANGED faults
       \/ disk' = Table!HalfDeleted(i) /\ Fault
    /\ UNCHANGED <<rawVars, jobVars>>

\* It returns, or, spoilt, raises; any write may raise, see StopIngest.
WriteEnds(i) ==
    /\ ipc[i] = "writing"
    /\ \/ disk' = Table!Returned(i) /\ GotoI(i, "verify")
       \/ i \in disk.spoilt /\ GotoI(i, "failed") /\ UNCHANGED disk
    /\ UNCHANGED <<rawVars, ingest, listed, frame, faults>>

\* The table is read back and counted, for the log: absent, it raises.
Verify(i) ==
    /\ ipc[i] = "verify"
    /\ \/ disk.table # NoTable /\ GotoI(i, "done")
       \/ disk.table \in {NoTable, Unknown} /\ GotoI(i, "failed")
    /\ UNCHANGED <<rawVars, ingest, listed, frame, disk, faults>>

\* Another gate refuses, something else raises, or the process is killed.
StopIngest(i) ==
    /\ ipc[i] \in IngestSteps
    /\ Fault
    /\ GotoI(i, "failed")
    /\ UNCHANGED <<rawVars, ingest, listed, frame, disk>>

IngestStep(i) == Read(i) \/ Transform(i) \/ Gates(i) \/ Write(i) \/ WriteMoves(i) \/ WriteEnds(i) \/ Verify(i)

-----------------------------------------------------------------------------
Settled ==
    /\ \A f \in Fetchers : fpc[f] \in Ended
    /\ \A i \in Ingestions : ipc[i] \in Ended
    /\ UNCHANGED vars

Next ==
    \/ \E f \in Fetchers : StartFetch(f) \/ FetchStep(f) \/ StopFetch(f)
    \/ \E i \in Ingestions : StartIngest(i) \/ IngestStep(i) \/ StopIngest(i)
    \/ Settled

Spec == Init /\ [][Next]_vars

-----------------------------------------------------------------------------
(* Properties *)

Versions == Ingestions \cup {NoTable, Unknown}

TypeOK ==
    /\ dest \in [Months -> Contents] /\ part \in [Months -> Contents]
    /\ fpc \in [Fetchers -> {"idle"} \cup FetchSteps \cup Ended]
    /\ fetch \in [Fetchers -> Fetches]
    /\ todo \in [Fetchers -> Seq(Months)]
    /\ ipc \in [Ingestions -> {"idle"} \cup IngestSteps \cup Ended]
    /\ ingest \in [Ingestions -> Ingests]
    /\ listed \in [Ingestions -> SUBSET ({"dest", "part"} \X Months)]
    /\ frame \in [Ingestions -> [Months -> 0..2]]
    /\ disk \in [table : Versions, trash : Versions, spoilt : SUBSET Ingestions]
    /\ faults \in 0..MaxFaults

\* A fetcher that ends well leaves a whole file of every month from --start to
\* --end, of the first --months of them (one at least) when that is given,
\* whatever earlier fetchers were stopped in: a file that is skipped is never a
\* torn one.
Wanted(o) ==
    LET range == {m \in Months : UpTo(o.start, m) /\ UpTo(m, o.end)}
    IN  IF o.limit = NoLimit THEN range
        ELSE {m \in range : Cardinality({n \in range : UpTo(n, m)}) <= Max({1, o.limit})}
FetchedRangeIsWhole ==
    \A f \in Fetchers : fpc[f] = "done" => \A m \in Wanted(fetch[f]) : dest[m] = "whole"

\* What an ingestion writes is whole: every month it was asked for is there if a
\* file of it was listed, and is there twice only if some fetcher was forced to
\* fetch it again, so that its .part file lay beside the file; renames between
\* the two readings of the directory take nothing away.
BronzeIsOfWholeFiles ==
    \A i \in Ingestions : ipc[i] \in {"write", "writing", "verify", "done"} =>
        /\ \A file \in listed[i] : InRange(i, file[2]) => frame[i][file[2]] > 0
        /\ \A m \in Months : frame[i][m] > 1 =>
               \E f \in Fetchers : fetch[f].force /\ m \in Wanted(fetch[f])
=============================================================================
