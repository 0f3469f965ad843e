----------------------------- MODULE TableSync -----------------------------
(***************************************************************************)
(* The sync of one table: checkpoint::read, then pipeline::sync_one with   *)
(* the merge::open_or_create, merge::upsert and checkpoint::advance it     *)
(* calls.  Several processes may be running it for the same table.         *)
(*                                                                         *)
(* An action is what happens between two awaits that touch shared state,   *)
(* so the source and other processes move in between.  A Delta table is    *)
(* its current rows plus, for each process that loaded it, what others     *)
(* committed since: that is all optimistic concurrency control looks at.   *)
(***************************************************************************)
EXTENDS SourceTable

CONSTANTS
  Workers,         \* processes that may sync this table
  FetchBatchSize,  \* SyncConfig::fetch_batch_size
  Rebases          \* whether a commit may go on top of others that touched
                   \* none of its rows, instead of failing

ASSUME SyncAssumption ==
  /\ IsFiniteSet(Keys)
  /\ FetchBatchSize \in Nat \ {0}
  /\ Rebases \in BOOLEAN

VARIABLES
  delta,       \* delta[k]: the version the Delta table holds for row k
  deltaExists, \* the Delta table has a log
  ckpt,        \* last_value of the checkpoint table, NoCheckpoint without a row
  ckptExists,  \* the checkpoint table has a log
  run,         \* run[w]: the local state of process w
  dirty,       \* dirty[w]: rows others committed since w's handle was loaded
  ckptStale    \* ckptStale[w]: likewise for the checkpoint table's only row

targetVars == <<delta, deltaExists, ckpt, ckptExists>>
vars == <<sourceVars, targetVars, run, dirty, ckptStale>>

NoCheckpoint == 0

Phases == {"idle", "open", "create", "query", "fetch", "merge", "flush",
           "record", "createCheckpoint", "commit"}

RunState ==
  [pc: Phases,
   last: Nat,                     \* the checkpoint the run resumes from
   snap: [Keys -> 0 .. MaxWrites],\* the rows its query returns
   asOf: 0 .. MaxWrites,          \* the writes its query could see
   todo: SUBSET Keys,             \* rows not yet taken off the stream
   batch: SUBSET Keys,            \* rows taken and not yet merged
   tail: Nat,                     \* watermark of the last row taken
   newest: Nat]                   \* newest_watermark, Null for None

Idle ==
  [pc |-> "idle", last |-> NoCheckpoint, snap |-> [k \in Keys |-> Absent],
   asOf |-> 0, todo |-> {}, batch |-> {}, tail |-> Null, newest |-> Null]

(* What a run holds in each phase: rows its query returned, each either    *)
(* awaited or in the batch, and none of them left once it is recording.    *)
WellFormed(r) ==
  /\ r.todo \cap r.batch = {}
  /\ \A k \in r.todo \cup r.batch : r.snap[k] # Absent
  /\ r.pc \in {"idle", "open", "create", "query"} => r.snap = Idle.snap
  /\ r.pc \notin {"fetch", "merge", "flush"} => r.todo \cup r.batch = {}
  /\ r.pc = "flush" => r.todo = {}

TypeOK ==
  /\ SourceTypeOK
  /\ delta \in [Keys -> 0 .. MaxWrites]
  /\ deltaExists \in BOOLEAN
  /\ ckpt \in Nat
  /\ ckptExists \in BOOLEAN
  /\ run \in [Workers -> RunState]
  /\ dirty \in [Workers -> SUBSET Keys]
  /\ ckptStale \in [Workers -> BOOLEAN]
  /\ \A w \in Workers : WellFormed(run[w])

Init ==
  /\ SourceInit
  /\ delta = [k \in Keys |-> Absent]
  /\ deltaExists = FALSE
  /\ ckpt = NoCheckpoint
  /\ ckptExists = FALSE
  /\ run = [w \in Workers |-> Idle]
  /\ dirty = [w \in Workers |-> {}]
  /\ ckptStale = [w \in Workers |-> FALSE]

At(w, phase) == run[w].pc = phase

(* w has loaded the Delta table and may still commit to it. *)
HoldsTable(w) == run[w].pc \in {"query", "fetch", "merge", "flush"}

(* The run is over, with a result or an error: all it knew is gone. *)
EndRun(w) ==
  /\ run' = [run EXCEPT ![w] = Idle]
  /\ dirty' = [dirty EXCEPT ![w] = {}]
  /\ ckptStale' = [ckptStale EXCEPT ![w] = FALSE]

-----------------------------------------------------------------------------
(* Reading the checkpoint, and opening the Delta table. *)

ReadCheckpoint(w) ==
  /\ At(w, "idle")
  /\ run' = [run EXCEPT ![w].pc = "open", ![w].last = ckpt]
  /\ UNCHANGED <<sourceVars, targetVars, dirty, ckptStale>>

(* Any failure to load the checkpoint reads as "never synced". *)
CheckpointUnreadable(w) ==
  /\ At(w, "idle")
  /\ run' = [run EXCEPT ![w].pc = "open", ![w].last = NoCheckpoint]
  /\ UNCHANGED <<sourceVars, targetVars, dirty, ckptStale>>

(* The catalog lookup changes nothing; a table it finds unusable is Fault. *)
OpenTable(w) ==
  /\ At(w, "open")
  /\ run' = [run EXCEPT ![w].pc = IF deltaExists THEN "query" ELSE "create"]
  /\ dirty' = [dirty EXCEPT ![w] = {}]
  /\ UNCHANGED <<sourceVars, targetVars, ckptStale>>

CreateTable(w) ==
  /\ At(w, "create")
  /\ ~deltaExists
  /\ deltaExists' = TRUE
  /\ run' = [run EXCEPT ![w].pc = "query"]
  /\ UNCHANGED <<sourceVars, delta, ckpt, ckptExists, dirty, ckptStale>>

(* SaveMode::ErrorIfExists: someone created it after the load failed. *)
LoseCreateRace(w) ==
  /\ At(w, "create")
  /\ deltaExists
  /\ EndRun(w)
  /\ UNCHANGED <<sourceVars, targetVars>>

-----------------------------------------------------------------------------
(* Fetching: one statement, then its rows in watermark order.              *)
(*                                                                         *)
(* Here and below, a definition named after another with a suffix is a     *)
(* variant of it with a plausible mistake: no action uses it, it is there  *)
(* to check that the properties would notice the mistake.                  *)

SelectedUnfiltered(last) == {k \in Keys : source[k] # Absent}

SelectedPositive(last) ==
  {k \in Keys : source[k] # Absent /\ mark[source[k]] > last}

SelectedSkipping(last) ==
  {k \in Keys : /\ source[k] # Absent
                /\ last = NoCheckpoint \/ mark[source[k]] > last + 1}

(* The rows of the query: all of them, or those past the checkpoint. *)
Selected(last) ==
  {k \in Keys : /\ source[k] # Absent
                /\ last = NoCheckpoint \/ mark[source[k]] > last}

RunQuery(w) ==
  /\ At(w, "query")
  /\ LET found == Selected(run[w].last) IN
     run' = [run EXCEPT
       ![w].pc = "fetch",
       ![w].snap = [k \in Keys |-> IF k \in found THEN source[k] ELSE Absent],
       ![w].asOf = writes,
       ![w].todo = found]
  /\ UNCHANGED <<sourceVars, targetVars, dirty, ckptStale>>

NextInOrderUnsorted(w, k) == k \in run[w].todo

(* k may be the next row of the stream: ORDER BY the watermark, NULLs first. *)
NextInOrder(w, k) ==
  /\ k \in run[w].todo
  /\ \A j \in run[w].todo : mark[run[w].snap[k]] <= mark[run[w].snap[j]]

AfterRowOverfull(rows) == IF rows <= FetchBatchSize THEN "fetch" ELSE "merge"

AfterRowEnding(rows) == IF rows < FetchBatchSize THEN "fetch" ELSE "flush"

(* A full batch is merged before the next row is awaited. *)
AfterRow(rows) == IF rows < FetchBatchSize THEN "fetch" ELSE "merge"

(* The next row of the stream is row k, and makes a batch of so many rows. *)
TakeRow(w, k, rows) ==
  /\ At(w, "fetch")
  /\ NextInOrder(w, k)
  /\ run' = [run EXCEPT
       ![w].pc = AfterRow(rows),
       ![w].todo = @ \ {k},
       ![w].batch = @ \cup {k},
       ![w].tail = mark[run[w].snap[k]]]
  /\ UNCHANGED <<sourceVars, targetVars, dirty, ckptStale>>

FetchRow(w, k) == TakeRow(w, k, Cardinality(run[w].batch \cup {k}))

AfterStreamDropping(batch) == "record"

(* What is left in the batch when the stream ends is merged too. *)
AfterStream(batch) == IF batch = {} THEN "record" ELSE "flush"

EndOfStream(w) ==
  /\ At(w, "fetch")
  /\ run[w].todo = {}
  /\ run' = [run EXCEPT ![w].pc = AfterStream(run[w].batch)]
  /\ UNCHANGED <<sourceVars, targetVars, dirty, ckptStale>>

-----------------------------------------------------------------------------
(* Merging a batch: one Delta commit. *)

MayCommitBlindly(w) == TRUE

(* No commit since the handle was loaded, or none this batch collides with. *)
MayCommit(w) ==
  IF Rebases THEN dirty[w] \cap run[w].batch = {} ELSE dirty[w] = {}

NewestAfterAsOfNow(w) == clock

(* Of the batch's last row: render_text gives None for a NULL. *)
NewestAfter(w) ==
  IF run[w].tail # Null THEN run[w].tail ELSE run[w].newest

MergeBatch(w) ==
  /\ run[w].pc \in {"merge", "flush"}
  /\ MayCommit(w)
  /\ delta' = [k \in Keys |->
                 IF k \in run[w].batch THEN run[w].snap[k] ELSE delta[k]]
  /\ run' = [run EXCEPT
       ![w].pc = IF @ = "merge" THEN "fetch" ELSE "record",
       ![w].batch = {},
       ![w].newest = NewestAfter(w)]
  /\ dirty' = [v \in Workers |->
                 IF v = w THEN {}
                 ELSE IF HoldsTable(v) THEN dirty[v] \cup run[w].batch
                 ELSE dirty[v]]
  /\ UNCHANGED <<sourceVars, deltaExists, ckpt, ckptExists, ckptStale>>

(* Error::ConcurrentWrite; a rebase can also refuse rows it could have kept. *)
MergeConflict(w) ==
  /\ run[w].pc \in {"merge", "flush"}
  /\ dirty[w] # {}
  /\ EndRun(w)
  /\ UNCHANGED <<sourceVars, targetVars>>

-----------------------------------------------------------------------------
(* Recording the checkpoint, only once every row is merged. *)

NothingToRecord(w) ==
  /\ At(w, "record")
  /\ run[w].newest = Null
  /\ EndRun(w)
  /\ UNCHANGED <<sourceVars, targetVars>>

OpenCheckpoint(w) ==
  /\ At(w, "record")
  /\ run[w].newest # Null
  /\ run' = [run EXCEPT
       ![w].pc = IF ckptExists THEN "commit" ELSE "createCheckpoint"]
  /\ UNCHANGED <<sourceVars, targetVars, dirty, ckptStale>>

CreateCheckpoint(w) ==
  /\ At(w, "createCheckpoint")
  /\ ~ckptExists
  /\ ckptExists' = TRUE
  /\ run' = [run EXCEPT ![w].pc = "commit"]
  /\ UNCHANGED <<sourceVars, delta, deltaExists, ckpt, dirty, ckptStale>>

LoseCheckpointRace(w) ==
  /\ At(w, "createCheckpoint")
  /\ ckptExists
  /\ EndRun(w)
  /\ UNCHANGED <<sourceVars, targetVars>>

(* Everyone else about to commit the row has now loaded an older one. *)
OutdateCheckpoint(w) ==
  ckptStale' = [v \in Workers |-> v # w /\ (ckptStale[v] \/ At(v, "commit"))]

(* The value is replaced without a look at the one it replaces. *)
CommitCheckpoint(w) ==
  /\ At(w, "commit")
  /\ ~ckptStale[w]
  /\ ckpt' = run[w].newest
  /\ run' = [run EXCEPT ![w] = Idle]
  /\ dirty' = [dirty EXCEPT ![w] = {}]
  /\ OutdateCheckpoint(w)
  /\ UNCHANGED <<sourceVars, delta, deltaExists, ckptExists>>

CheckpointConflict(w) ==
  /\ At(w, "commit")
  /\ ckptStale[w]
  /\ EndRun(w)
  /\ UNCHANGED <<sourceVars, targetVars>>

-----------------------------------------------------------------------------
(* An error returned from any await, or the death of the process: nothing *)
(* is undone, nothing local survives. *)
Fault(w) ==
  /\ ~At(w, "idle")
  /\ EndRun(w)
  /\ UNCHANGED <<sourceVars, targetVars>>

(* The operator deletes the checkpoint's row, to have the table synced again. *)
ForceResync ==
  /\ ckpt # NoCheckpoint
  /\ ckpt' = NoCheckpoint
  /\ ckptStale' = [v \in Workers |-> ckptStale[v] \/ At(v, "commit")]
  /\ UNCHANGED <<sourceVars, delta, deltaExists, ckptExists, run, dirty>>

SourceStep ==
  /\ SourceNext
  /\ UNCHANGED <<targetVars, run, dirty, ckptStale>>

SyncStep(w) ==
  \/ ReadCheckpoint(w)
  \/ OpenTable(w) \/ CreateTable(w) \/ LoseCreateRace(w)
  \/ RunQuery(w)
  \/ \E k \in Keys : FetchRow(w, k)
  \/ EndOfStream(w)
  \/ MergeBatch(w) \/ MergeConflict(w)
  \/ NothingToRecord(w)
  \/ OpenCheckpoint(w) \/ CreateCheckpoint(w) \/ LoseCheckpointRace(w)
  \/ CommitCheckpoint(w) \/ CheckpointConflict(w)

Next ==
  \/ \E w \in Workers : SyncStep(w) \/ CheckpointUnreadable(w) \/ Fault(w)
  \/ ForceResync
  \/ SourceStep

Spec == Init /\ [][Next]_vars

(* The job is scheduled again after every run, and a run's awaits return. *)
FairSpec == Spec /\ \A w \in Workers : WF_vars(SyncStep(w))
-----------------------------------------------------------------------------
(* Properties. *)

Abs == INSTANCE Replica WITH replica <- delta, claim <- ckpt

(* No row is lost: every source row whose watermark the checkpoint has     *)
(* passed, and which later runs will therefore not select, is in the Delta *)
(* table exactly as it is at the source, whatever runs overlapped, died or *)
(* read the checkpoint wrongly (merge.rs: the checkpoint follows the merge). *)
NoRowLost == Abs!Covered(ckpt)

(* A Delta row is never replaced by an older version of it, though a run   *)
(* merges rows its query read long before: the table is opened before the  *)
(* query runs, so a merge another run made in between is a commit conflict. *)
NoStaleOverwrite == [][\A k \in Keys : delta[k] <= delta'[k]]_vars

(* Every step is one the replica's contract allows: rows only move forward *)
(* and the checkpoint, wherever it moves, claims only what is merged.      *)
ImplementsReplica == Abs!ReplicaSpec

(* The stream is exhausted and merged; what is left is the checkpoint. *)
Recording(w) == run[w].pc \in {"record", "createCheckpoint", "commit"}

(* Every row the query returned is in the Delta table, at that version or  *)
(* a newer one, when the run turns to its checkpoint: the batches cut from *)
(* the stream leave no row out, whatever the watermarks look like.         *)
SnapshotDelivered ==
  \A w \in Workers : Recording(w) => \A k \in Keys : run[w].snap[k] <= delta[k]

(* A run without a checkpoint repairs everything: rows lost to a tie, to a *)
(* late write or to a NULL watermark are in the Delta table when it is     *)
(* done, unless they changed after its query (operations.md, VI.4).        *)
FullResyncRepairs ==
  \A w \in Workers : Recording(w) /\ run[w].last = NoCheckpoint =>
    \A k \in Keys : source[k] \in 1 .. run[w].asOf => delta[k] = source[k]

(* The value to record, the last row's of the last batch, is the greatest  *)
(* watermark of all rows fetched: no row fetched now is fetched again next *)
(* time unless it changes.                                                 *)
NewestIsGreatest ==
  \A w \in Workers : Recording(w) =>
    \A k \in Keys : run[w].snap[k] # Absent => mark[run[w].snap[k]] <= run[w].newest

(* With one process, the checkpoint moves back only when an operator or an *)
(* unreadable checkpoint made the run start from nothing.                  *)
CheckpointOnlyAdvances ==
  [][ckpt' < ckpt => \/ ckpt' = NoCheckpoint
                     \/ \E w \in Workers : /\ At(w, "commit")
                                           /\ run[w].last = NoCheckpoint]_vars

(* Rows held in memory never exceed the configured batch, and a batch that *)
(* is full is merged before another row is awaited (architecture.md, VIII). *)
BatchBounded ==
  \A w \in Workers :
    /\ Cardinality(run[w].batch) <= FetchBatchSize
    /\ At(w, "fetch") => Cardinality(run[w].batch) < FetchBatchSize

(* From some time on the only runs that end early do so by the code's own  *)
(* decision (Fault allows what NothingToRecord does, among other things).  *)
FailuresCease == <>[][\A w \in Workers : Fault(w) => SyncStep(w)]_vars

(* operations.md, VI.1: a table is never left half-merged, so a run that   *)
(* fails leaves behind either all the rows its query returned or none.     *)
MergedBy(w) ==
  {k \in Keys : run[w].snap[k] # Absent} \ (run[w].todo \cup run[w].batch)
NeverLeftHalfMerged ==
  [][\A w \in Workers : Fault(w) =>
       MergedBy(w) = {} \/ run[w].todo \cup run[w].batch = {}]_vars
=============================================================================
