# A TLA+ model of tiberiusdelta

`tiberiusdelta` copies SQL Server tables into Delta Lake tables, incrementally: each run
selects the rows whose *watermark* column has passed the table's *checkpoint*, merges them
by primary key, and records the greatest watermark it saw as the next checkpoint. This
directory models that program in TLA+, checks it with TLC on small instances, and proves
its central properties with TLAPS for every instance. Source paths below are relative to
the repository's root.

## I. The system

| Component | State | Operations | Talks to |
| --- | --- | --- | --- |
| One table's sync: `pipeline::sync_one`, `merge`, `checkpoint` | the Delta table; the checkpoint table of that source table; locally the query's stream, the current batch, the newest watermark, the loaded table handles | read the checkpoint, describe the table, open or create the Delta table, query, fetch row by row, merge a batch, record the checkpoint | SQL Server (one connection), object storage through delta-rs; other processes only through Delta commits |
| Whole runs: `pipeline::run`, `SyncCatalog`, `sync_tables` of `python.rs` | position in the catalog, the report so far | check the catalog, connect, each table in turn, progress callback, interruption | the sync of one table; the Python callback and signals |
| Bulk backfill: `source_watermark`, `set_checkpoint` | nothing of their own; the checkpoint table | capture the greatest watermark; write a checkpoint without a sync | the operator's export and load; later syncs |
| Distribution: `distributed.py` | the partitions, their tasks and answers | plan partitions, submit, sync a partition, turn an error into a record, collect | Spark; `sync_tables` in each executor |
| Errors: `error.rs`, `to_pyerr` | none | name the table in an error | every other part |
| Catalog lookup, names and paths: `describe_table`, `validate_identifier`, `parse_qualified`, `relative_path` | none | refuse a table or a column that does not exist or is unsafe | SQL Server's catalog |
| Pre-flight: `preflight` | none | look every table up, write nothing | as above |
| Deadlines: `with_timeout` | the clock of one await | give up on a lookup or a row | every await it wraps |
| Types and columns: `types.rs`, `builders.rs` | column builders | map SQL types, convert values, render a watermark as text | the merge, the checkpoint |
| Connecting: `connect.rs` | none | open a connection, redact secrets | SQL Server |

What is hard about it:

* **Concurrency.** Nothing but Delta's optimistic commits keeps two processes on one table
  apart. The rows a run merges were read long before; its checkpoint replaces whatever is
  there. That this is safe depends on the order *open, query, merge, record*.
* **Failure.** A run may stop at any await. What is committed stays, everything else is
  gone, and running again is the whole recovery procedure.
* **Ordering.** The checkpoint is the watermark of the last row fetched, so it is right
  only if the stream is ordered, and a batch is only safe to commit on its own because a
  checkpoint is never recorded before the last of them.
* **The source.** Watermarks are promised to increase strictly. Ties, late commits and
  NULLs happen, and a query may read the table while it changes and return a row twice;
  what then still holds is part of the question.
* **Names.** A checkpoint is found by a path made of settings and of the table's name as
  configured, and only its value is read. What that value is a watermark *of* is kept
  nowhere, so an edited configuration may go on from a position that is not its own.
* **Deadlines.** Some awaits have one and some do not.

What makes each component correct: a checkpoint never claims a row the Delta table lacks
(one table, backfill); a Delta row never goes back to an older version (overlapping
processes); a report says what is true, and running again repairs what a failure left
(whole runs); every table is accounted for once, and a retried partition is harmless
(distribution); an error can be attributed (errors); a value is stored as it was read or
refused (types); a checkpoint is right for the rows that set it, the rows are of the table
that was described, and pre-flight's verdict is the sync's (names, pre-flight).
`PROJECT.json` lists the hazards line
by line with the properties that cover them.

## II. The modules

| Module | What it is |
| --- | --- |
| `SourceTable` | the SQL Server table: writes, deletes, the watermark contract and its departures (external) |
| `Replica` | abstract: what an incremental sync of one table promises |
| `TableSync` | the sync of one table by any number of processes; extends `SourceTable`, implements `Replica` |
| `Backfill` | bulk load and handover around `TableSync`; implements `Replica` too |
| `SyncRun` | whole runs over a catalog; a table is reduced to positions in its history |
| `Distributed` | partitions, workers and the driver; extends `SyncRun` |
| `LiveScan` | `TableSync` with a query that reads a table which changes meanwhile |
| `Configuration` | names, paths, settings and pre-flight, over several jobs and a changing schema |
| `Deadlines` | `TableSync` against a server that may stop answering |
| `Columns` | from the catalog entry of a table to a committed batch: types and values |
| `MCTableSync`, `MCLiveScan`, `MCBackfill`, `MCSyncRun`, `MCDistributed`, `MCConfiguration`, `MCDeadlines`, `MCColumns` | the instances TLC checks |
| `TableSyncProofs` | the theorems about `TableSync` and `Deadlines` |
| `LiveScanProofs`, `BackfillProofs` | those about `LiveScan` and `Backfill`; extend `TableSyncProofs` |
| `SyncRunProofs`, `DistributedProofs`, `ConfigurationProofs`, `ColumnsProofs` | those about `SyncRun`, `Distributed`, `Configuration` and `Columns` |
| `LeastNumbers` | least and greatest elements of sets of numbers, and induction over a set |

### SourceTable and Replica

Every write gives a row a new *version*, a number standing for the content; `mark[v]` is
the watermark stored with it. `Departures` says how writes may break the contract:
`"tie"` repeats the greatest watermark, `"late"` makes a smaller one visible, `"null"`
leaves it NULL. Deletes remove a row from the source; no watermark query can see that, and
the documents say so, so no property asks for it.

`Replica` has a replica and a claim. The replica's rows only move forward and never past
the source; a claim `b` may be made, or taken back, at any moment at which every row with
a watermark in `1..b` is held exactly as it is at the source.

### TableSync

| State | Code |
| --- | --- |
| `delta`, `deltaExists` | the Delta table's current rows; whether `load()` succeeds |
| `ckpt`, `ckptExists` | `last_value` in the checkpoint table; whether that table exists |
| `run[w].pc` | which await of `sync_table`/`sync_one` process `w` is at |
| `run[w].last`, `snap`, `todo`, `batch`, `newest` | `last_value`, the rows the statement returns, those not yet streamed, `batch`, `newest_watermark` |
| `dirty[w]`, `ckptStale[w]` | what others committed since `w` loaded the table: all that a commit conflict depends on |

One action is the code between two awaits that touch shared state: `ReadCheckpoint`
(`CheckpointUnreadable`: any load failure reads as "never synced"), `OpenTable`,
`CreateTable`/`LoseCreateRace`, `RunQuery`, `FetchRow`/`EndOfStream`,
`MergeBatch`/`MergeConflict`, `NothingToRecord`, `OpenCheckpoint`,
`CreateCheckpoint`/`LoseCheckpointRace`, `CommitCheckpoint`/`CheckpointConflict`, and
`Fault`, an error or a crash at any point. `run[w].asOf` is not in the code; it remembers
which writes the query could see, for `FullResyncRepairs`.

`Rebases` covers an uncertainty about delta-rs, which may retry a commit on top of others
that touched none of the rows it read. `FALSE`: every commit in between is a conflict.
`TRUE`: only commits to the same keys are. The runs have `FALSE`; of `TRUE` only the case
that a result fits in one batch is covered, by the theorems with `SafeCommits` (V).

`RunQuery` takes the rows in one step: in `TableSync` the statement reads a consistent
state, as it does under snapshot isolation. `LiveScan` takes that back.

### LiveScan

`sync_one` sends a plain `SELECT ... ORDER BY`; how the server executes it is the server's
choice (external). Beside the snapshot there are two ways: `BeginSort`, `VisitForSort`,
`EndSort` read every row once in key order, as it is at that moment, and sort what they
found; `BeginIndex`, `ReadAlongIndex`, `EndIndex` follow an index on the watermark column
while the process fetches and merges what was read already. All steps of `TableSync` go on
around them, and applications write in between (`Underneath`).

An index may give out a row twice, which was updated and so moved ahead of the scan. The
second copy comes in a later batch, where it is a newer version like any other, or in the
same one (`ReadAgain`). `merge::upsert` does not look for such copies, so the batch goes to
the merge with all of them; `spare[w]` are the further ones, which count towards the size
of the batch (`RowsInBatch`). Of a key the Delta table lacks every copy is inserted (`Double`, and
`doubled` has the keys with several rows from then on); of another, which copy is then the
row's value, and whether there are several rows, is delta-rs's doing, and is chosen freely.
`delta[k]` is the copy chosen. The checkpoint goes on past them in every case. Two
variables are not in the code: `moved` remembers which rows got their present version
during a sorting scan, `repeated` which were in a batch together with an older copy; they
are the only rows that can be lost.

### Backfill

The procedure of `docs/operations.md` IV.6: `CaptureWatermark` (`source_watermark`),
`ExportRow` one row at a time while the source changes, `LoadTable`,
`OpenForHandover`/`SetCheckpoint` (`set_checkpoint`, with any value up to the captured one,
as the documents recommend when unsure), and incremental runs as soon as the table is
loaded, racing the handover if they like. Runs during the export or the load are excluded:
the load would overwrite what they merged under a checkpoint that survives.

### SyncRun

`changes[t]`, `held[t]` and `ckpt[t]` are positions in the history of table `t`: how far
the source, the Delta table and the checkpoint have come. A run reads the checkpoint, opens
the table, queries, merges batch by batch, records and reports, table by table, and stops
at the first error, a `false` from the callback (`Interrupt`, possible after the last table as well), or
death. Each `Merge` is one batch and one commit, up to any position not past what the query
saw, with a conflict possible before every one of them. `broken` are tables `sync_one`
rejects. This coarser view is what lets several
tables and runs be checked together; rows and versions are in `TableSync`.

### Distributed

`Submit` plans the partitions and cuts the catalog (`PlanPartitions`, `Cuts`: any cut into
runs of consecutive tables, which includes Spark's); `Launch` starts a partition's run of
`SyncRun`; `Answer` turns a report or a caught `BaseException` into records; `Raise` is an
exception outside the worker's `try`, in the import before it or where it puts the records
together; `Lose` is an executor lost, and with `Zombies` the lost attempt goes on. After
either, Spark launches the partition again or aborts the job (`FailTask`). `Collect` builds
the report, or raises. Spark's own way of waiting for tasks is outside the repository, so
nothing is asked of when a job ends.

### Configuration

A *job* is what an operator hands to `sync_tables` or `preflight`: settings and a catalog.
Jobs run one after another, any job after any other, so an edited configuration is a change
of jobs.

| State | Code |
| --- | --- |
| `columns`, `changes` | the source: which tables and columns exist, and how many changes each table has seen |
| `rows[p]`, `marks[p]` | what is in the Delta table, and the checkpoint, at path `p` |
| `streams[p]` | not in the code: source table, column and Delta table of the runs that recorded at `p` |
| `call`, `report` | the run or the check under way; what the last check returned |

`StartRun` refuses a bad catalog or bad settings; `ReadMark` parses the name and reads the
checkpoint, whatever column it is one of; `OpenTable` makes the checks of `sync_one`
against the table it looked up (`Described`); `SelectAndMerge` reads the table SQL Server
makes of the same text (`Selected`, which falls back to `dbo`); `RecordMark`, `Fail`.
`StartCheck`, `LookUp`, `FailCheck` are `preflight`. `Change` is an application's write,
`Drop` drops a table or a column. The i-th change of a table has the watermark
`Offset[column] + i` in each column: enough to tell columns apart and to have a position in
one that claims too much in another.

A `checkpoint_uri` that equals the `output_uri` is excluded (`DataPaths` and
`CheckpointPaths` are disjoint): it makes both tables one, and the first merge fails.

### Deadlines

`TableSync` with a server that may fall silent for good. `Timed` are the phases
`with_timeout` wraps, the lookup and the wait for a row; `Expire` is its error. Storage
and local steps always go on.

### Columns

`Describe` resolves the columns (`describe_table`, `types::resolve`), `RunQuery` is the
other statement, `Alter` may happen in between, `ConvertRow` converts a row cell by cell
(`ColumnBuilder::append`), `Finish` assembles the batch. One type name stands for all that
`types::resolve` treats alike, and decimals have every precision and scale up to
`MaxPrecision`. A `DATETIMEOFFSET` comes as an instant in UTC with an offset beside it;
`Instant` is the conversion by way of `DateTime<FixedOffset>` that the comments in
`builders.rs` insist on, since tiberius's own to `DateTime<Utc>` takes the offset off once
more. How tiberius decodes each type (`Wire`, `Cells`) is external.

## III. The runs

| Run | Instance | Shows |
| --- | --- | --- |
| `single` | `LiveScan`: 1 process, 2 rows, 3 writes, batches of 2, NULL watermarks, three ways to execute the query, fair | a row is lost only to a sort that it was written during, or to a batch that also had an older copy of it; the last watermark is the greatest; batches are bounded; the checkpoint only moves back after a start from nothing; once runs stop failing the table catches up |
| `doubled` | `LiveScan`: 1 process, 2 rows, 2 writes, batches of 2, an index | *violated*: see IV |
| `overlap` | 2 processes, 2 rows, 3 writes, batches of 1 | the sync implements `Replica`, `NoRowLost` and `NoStaleOverwrite` with overlap, conflicts, crashes and forced re-syncs |
| `loose` | 2 processes, 2 rows, 3 writes, ties, late and NULL watermarks, batches of 1 | the types hold, what a run selected is delivered over several batches, a full re-sync repairs |
| `half_merged` | 1 process, batches of 1 | *violated*: see IV |
| `backfill` | 1 process, 3 rows, 3 writes, batches of 2, NULL watermarks | the captured watermark covers what was loaded, and the handover keeps the contract |
| `sync_run` | 2 runs, 2 tables, 2 changes each, fair | checkpoints and reports are right, with a commit per batch; reruns recover every table up to the first broken one once runs no longer meet at a table |
| `attribution` | 1 run, 2 tables | *violated*: see IV |
| `distributed` | 2 tables, every cut into 2 partitions, 2 attempts, workers that raise, lost attempts that go on | every table accounted for once; what is reported stays true, and no checkpoint is ahead of its table |
| `hang` | 1 process, 2 rows, 2 writes, a silent server | *violated*: see IV |
| `columns` | every declared type beside an `INT` key, decimals of up to 3 digits, instants at offsets on both sides of UTC, 2 rows, at most one `ALTER TABLE` | nothing is misread; only altered tables are refused |
| `configuration` | 3 tables called `c` in 2 databases and 2 schemas, 11 jobs that share or change settings, columns and names, some with a mistake, 2 changes, 1 drop | one configured name per path; a checkpoint only one stream recorded under is right for it; verdicts hold; a run reads the table it described |

**Bounds.** Every hazard here needs at most two actors, two rows and three versions: one
version before a query, one between the query and a competing merge, and one after. Three
rows with batches of two, and two with batches of two, give a full batch, a partial last
batch and a stream that ends on a full batch; two rows with batches of one (`overlap`,
`loose`) give a run that commits twice, with the commits of another in between. Two changes of one table are needed for a
run to hold an older position than its competitor. `MaxWrites` and `MaxChanges` bound the
source, in its guards (in `distributed` the constraint `FewChanges` bounds the changes
of both tables together: two of the second, which may be the last of its partition, or one
of the first), `MaxDrops` the tables and columns dropped, and `MaxRows` the batch
of `Columns`; nothing else is bounded. `Configuration` counts the changes of all tables
together: two suffice for one that a foreign checkpoint skips and one after it. `LiveScan`
needs two rows, for one to be read and the other to move behind the scan; the second copy
of a row fills a batch of two, and three writes leave one for a later run. In
`Columns`, three digits stand for 38: rescaling, a value too wide and one with too many
digits all happen among them, and `WideLimit` lies above the largest power of ten in use
as 2^127 does. Symmetry (rows, processes) is used only
in runs without liveness.

**Deadlock.** `CHECK_DEADLOCK FALSE` is said for `Distributed`, where one job is submitted
and then it is over, for `Columns`, which ends with its batch, and for `Deadlines`, where a
run may wait for ever.

**Fairness.** `FairScanSpec` and `FairRunSpec` are weak fairness on a process's own steps: a
scheduler runs the job again, awaits return, and in `FairScanSpec` the server goes on with
its scan. They are not fair to faults, to the
source, or to operators. That an await returns is an assumption, which `Deadlines` drops
for the server: two statements are awaited without a deadline (`src/pipeline.rs:438`,
`:832`). `CatchesUp` and `RerunsRecover` promise something only if failures end at some
time (`FailuresCease`, `MishapsCease`: a run that ends by the code's own decision, at a
broken table, with nothing to record or in a conflict, is none). Neither holds of two runs
that go on meeting at one table: the commits of each may overtake the other between two of
its batches, and each be refused, for ever. TLC finds that loop when `RerunsRecover` is
stated without `RunsKeepApart`, that from some time on no two runs are at one table at
once. The documents answer it by allowing one run at a time, and `CatchesUp` is checked
with one.

**Mutants.** A definition named after another with a suffix (`MayCommitBlindly`,
`SelectedPositive`, ...) is a plausible mistake in that definition. No action uses it; for
each property one is named in `PROJECT.json` that makes TLC find the property violated.
`AtScaleRounding` is a second one for `NothingIsMisread`, beside `InstantShifted`.

## IV. Where the code and its documents disagree

* `half_merged`. `docs/operations.md` VI.1 says no table is ever left half-merged, each
  table's merge being one atomic commit. The code commits once per batch; a run that fails
  between batches leaves some of its rows merged. This is harmless (`ImplementsReplica`
  holds through it), but the sentence is wrong for any result larger than one batch.
* `hang`. `docs/architecture.md` VIII says queries have a deadline, so an unattended sync
  cannot hang forever. The lookup has one and each row has one; the await of
  `client.query` has none, and a server that falls silent there holds the run for ever.
* `doubled`. `README.md` says the rows are merged into a Delta table keyed on the primary
  key, and `docs/architecture.md` too. A new row that is updated while the query reads
  along an index can come twice in one batch. Neither copy matches a row of the Delta
  table, so the merge inserts both, and the checkpoint goes past them. This takes a server
  that reads along the watermark without a lock or a snapshot.
* `attribution`. A comment in `pipeline::run` says every failure says which table it was,
  and `distributed.py` relies on it. `UnparsableValue` and `Internal` name none.

Met on the way, with no run of their own:

* `docs/operations.md:329-331` says that the checkpoints of a failed partition's tables
  never advanced. Those of the tables before the failing one did; the failure record lists
  them all. Nothing is lost by that, the record is only coarser than the text says.
* `docs/api.md:188-189` says every entry is validated before any connection is opened, so
  a typo fails before the first table is touched, and `docs/architecture.md:485` the same
  of unsafe identifiers and missing columns. Blank and duplicate names are refused there
  (`StartRun`). `validate_identifier` and the look-up of columns are in `sync_one`
  (`OpenTable`), after the tables before it were synced.
* `docs/api.md:337` says `ready` means that a sync would run. A column whose name
  `validate_identifier` refuses, or that SQL takes only in brackets, is ready and fails;
  `VerdictsHold` excepts exactly those.
* `docs/api.md:645` suggests one `checkpoint_uri` for several outputs. Tables of one name
  under it share a checkpoint, and the one synced second skips what the first has passed.
  `RightForItsStream` promises nothing of a checkpoint that two streams set.

## V. What is proved

For every value of the constants: any number of rows, processes, tables, runs, partitions
and attempts, any batch size, any bound. Every safety property that a passing run checks
has a theorem. The invariants behind them are inductive where the properties alone are
not, and the proof that a step preserves one has one lemma per action.

`TableSync` (`TableSyncProofs`). The invariants come in layers, each proved with those
before it:

* `TypeCorrect`: `Spec => []TypeOK`. `WellFormed`, the part that says which rows a run
  holds in which phase, is inductive together with the types.
* `BatchesBounded`: `BatchBounded`, which `LiveScan` restates with further copies counted
  (`RowsBounded`, the one TLC checks). It takes that the rows held are finitely many, and that
  a run which awaits a row holds fewer than `FetchBatchSize` (`Bounded`).
* `NeverStale`: `NoStaleOverwrite`. Version numbers grow, so it is enough that a commit
  puts nothing over a row that moved since the query. `Sound`, in `VersionInv`, says that
  any row of the Delta table newer than the run's copy is in `dirty`; it is inductive
  because the table is opened before the query, so everything merged before the query is
  older than what the query returns, and everything merged after it is in `dirty`.
* `Delivery`: `SnapshotDelivered`, from the same invariant, and `Repair`:
  `FullResyncRepairs`, with `Complete`: a run holds, or has merged, each row that has
  not moved since its query, but for those at or below the checkpoint it resumed from; a
  run without a checkpoint has them all.
* `NewestRecorded`: `NewestIsGreatest`. The code takes the watermark of the last row of each
  batch. `OrderInv` says why that is enough: the rows a run has taken are those with the
  smaller watermarks, its tail is the greatest of these, and its newest is the tail as of
  its last merge.
* `OnlyAdvances`: with one process, `CheckpointOnlyAdvances`. A run past the lookup has
  resumed from the checkpoint as it still is, and selects nothing below it (`ResumeInv`).
* `NoneLost`: `NoRowLost`. `CoverInv(S)` says of any set `S` of rows that the checkpoint
  a run resumed from was right, and that for each row of `S` the run has the version the
  source has, or did not ask for it (`Known`), or the row has a greater watermark than
  anything the run asked for and is left to the next one (`Later`). At the commit no
  unmerged row is left, so all rows up to the last watermark are held. Here `S` is `Keys`;
  `LiveScan` takes a smaller set.
* `Refinement`: `Spec => ImplementsReplica`, step by step from these invariants.
* `DeadlinesAreFaults`: `DeadlineSpec => Spec`. An await given up at its deadline is one
  of the failures `TableSync` has, so all of this holds with timeouts, `NoRowLost` and the
  refinement (`DeadlinesLoseNothing`) among it.

`LiveScan` (`LiveScanProofs`). The query reads row by row a table that changes meanwhile, so
what it returns was never the table's content. The layers are those of `TableSync`, with
the scan added to each: `ScanTypeCorrect`, `ScanBatchesBounded`, `ScanNewestRecorded` (an
index gives rows out in the order of the watermarks although they move under it),
`ScanOnlyAdvances` and `ScanNeverStale` (whatever moment a row is read at, the Delta table
was opened before; of several copies in a batch, none is older than what the table then
had). `LostOnlyByScanning` is `LostOnlyToAScan`: `SeenInv` says that a scan along an index
has each row of `Keys \ (moved \cup repeated)` as it is, or the row's watermark is still
ahead of the scan's position; one that sorts has found each row it passed as it is now, or
the row is at or below the checkpoint. With `CoverInv` of that set no such row is lost.
Where no query sorts, `moved` stays empty, and `IndexLosesOnlyRepeats` is what is left:
only a row that met an older copy of itself in one batch can be lost. As long as that
happens to none, the sync implements `Replica` without snapshots (`IndexRefinement`);
merging row by row it never happens (`RowByRowRefinement`).

`Backfill` (`BackfillProofs`): `BackfillTypeCorrect`, `CaptureIsCovered`, and
`HandoverRefines`, which is `ImplementsReplica` for `BackfillSpec`. The invariant adds to
`CoverInv` what the export holds: a row already read and then written again has a
watermark past the captured one, so the loaded table covers it; loading is one move of the
replica, the handover one claim. Where a run's step is one of `TableSync`, `StepRefines`
of `TableSyncProofs` is reused.

`SyncRun` (`SyncRunProofs`): `RunTypeCorrect`, `CheckpointsTrue`, `ReportsTrue`. The
invariant says of each run that the position it starts from is held, that what it merges
is not behind what is held unless its handle is `stale` (and then the commit is refused),
before each of its batches, and that what it is about to record is held; so `held[t]` never goes back.

`Distributed` (`DistributedProofs`): `DriverTypeCorrect`, and `DistributedCheckpointsTrue`
and `ResultsTrue` from `SyncRun`'s invariant, which the partitions' runs keep.
`AllAccountedOnce` has two parts. The pieces a catalog is cut into contain each table
once: the first piece that ends at or after a table's place is the one that has it, and
that cuts never go back is proved with `LeastNumbers`, whose induction comes from the
well-foundedness of `<` over a set of numbers. And the answer of a partition names each of
its tables once, since what a report lists and what a failure lists are both its catalog.

`Configuration` (`ConfigurationProofs`): `ConfigTypeCorrect`, `CheckpointOfOneStream`,
`SelectsWhatItDescribed`, `VerdictsAreKept` and `OneNameEach`. For the second, the invariant adds that a run under way goes on from the
checkpoint as it still is, that what it is about to record is the watermark of a change up
to which everything past that checkpoint is merged (`CallInv`), and that a checkpoint of
one stream is not ahead of its source (`Behind`). For `VerdictsAreKept`, that a reported verdict is
of a name that parses and an entry that is well formed. For `OneNameEach` (`OneNamePerPath`),
that what is kept at a path was selected for a configured name the path is made of
(`RowsNamed`, `StreamsNamed`), and that paths determine names: roots of paths differ in
length, so a path of the one kind may be one of the other kind only where a name begins
like a root ends (`BeginsWithRoot`).

`Columns` (`ColumnsProofs`): `ColumnsTypeCorrect`, `CommittedAsSent` (`NothingIsMisread`) and
`DeclaredTypesConvert` (`OnlyAlteredTablesAreRefused`), for the 38 digits and the 128 bits
of the code, and any offset from UTC, as for the three digits TLC uses. The invariant says that while a table is not
altered the types described are its own, and that what is built of each row fetched is what
that row converts to. The arithmetic is that of the powers of ten, a recursive function
whose existence, laws of exponents and growth are proved from `LeastNumbers`; a bound
`WideLimit` above the greatest of them is all that is used of the 128 bits.

Assumptions, visible in the statements:

* `SafeCommits` (for `NeverStale`, `Delivery` and `Repair`, and wherever `StrictMarks` is
  assumed): commits do not rebase, or all rows fit in one batch. The theorems about
  `LiveScan` that need it assume the first, as one result may there have several copies of
  a row. With
  rebasing and several batches a run reloads its handle after the first batch and forgets
  which rows moved before it; a later batch may then put an old version over a newer one,
  a case no run and no theorem covers. Which of the two delta-rs does is outside the repository.
* `StrictMarks` (for `NoneLost`, `Refinement`, `DeadlinesLoseNothing`,
  `LostOnlyByScanning`, `IndexLosesOnlyRepeats`, `IndexRefinement`, `RowByRowRefinement` and
  the theorems about `Backfill`): watermarks
  increase strictly or are NULL. With ties or late commits rows are lost, as
  `docs/architecture.md` acknowledges; `Repair` does not need it.
* `OneProcess` (`OnlyAdvances`, `ScanOnlyAdvances`): one run at a time; of two
  that overlap, either may commit its checkpoint last (`src/checkpoint.rs` compares
  nothing), which `NoneLost` shows to be harmless.
* `NoNameIsTheRoot` (`OneNameEach`): no configured name begins with `_streamer_checkpoints`,
  the directory the checkpoints are kept in by default. With a database or schema of that
  name, a table's checkpoint below an explicit `checkpoint_uri` may have the path of
  another's below an output of the same name. The instance TLC checks satisfies it.
* `WideLimit > TenTo[MaxPrecision]` (`Columns`): 2^127 is above 10^38.
* A catalog without duplicates, for `AllAccountedOnce`: what `SyncCatalog` requires, and
  `sync_tables_distributed` does not check. `DistributedCheckpointsTrue` and `ResultsTrue`
  do not assume it: a table that two partitions sync at once is as safe as one that two
  runs do.

Only model-checked: liveness (`CatchesUp`, `RerunsRecover`), which the prover cannot do
under fairness. The four violations (IV) are TLC's alone too.

## VI. Not modelled, and the plan

Done: `TableSync` with its refinement, `LiveScan`, `Backfill`, `SyncRun`, `Distributed`,
`Configuration`, `Deadlines`, `Columns`, and the proofs of V.

Left, in this order:

1. A proof that `SyncRun` is a sound abstraction of `TableSync`.
2. A sync during the bulk load, which the documents exclude: a hazard without a property.
3. Commits that rebase under a result of several batches, once delta-rs's rules for it
   are settled.
4. The rendering of watermarks as text and its conversion back. What SQL Server makes of
   the text depends on the column's type and the session's language, which the repository
   does not determine.
5. Which Python exception an error becomes (`to_pyerr`): a table of cases without state.

Left out for good: URIs whose roots lie one within the other (a URI is one element of a
path), redaction of secrets and message texts (string handling), the PyO3
argument conversions, Arrow's and delta-rs's own code, and the tools.
