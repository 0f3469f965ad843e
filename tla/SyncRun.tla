------------------------------ MODULE SyncRun ------------------------------
(***************************************************************************)
(* Whole runs: pipeline::run over a catalog of tables, as sync_tables of   *)
(* python.rs drives it.  Runs may overlap, and may cover the same tables.  *)
(*                                                                         *)
(* Of a table only positions in its history of changes are kept: how far   *)
(* the source has come, how far the Delta table follows it, and where the  *)
(* checkpoint stands.  What happens inside one table is TableSync.         *)
(***************************************************************************)
EXTENDS Integers, Sequences, FiniteSets

CONSTANTS
  Tables,      \* the source tables
  Runs,        \* runs that may be under way
  Catalog,     \* the tables configured, in order
  MaxChanges   \* bound on the changes of one table

ASSUME RunAssumption ==
  /\ Catalog \in Seq(Tables)
  /\ MaxChanges \in Nat

VARIABLES
  broken,      \* tables sync_one rejects: the catalog or a column is wrong
  changes,     \* changes[t]: how many changes table t has seen at the source
  held,        \* held[t]: the changes its Delta table has followed
  ckpt,        \* ckpt[t]: the changes its checkpoint stands at
  job,         \* job[r]: the local state of run r
  stale        \* stale[r]: the Delta table r has open was committed to since

tableVars == <<broken, changes, held, ckpt>>
runVars == <<tableVars, job, stale>>

(* What Error::in_table adds the table's name to, and what names it anyway *)
(* (UnsafeTableName of a table; that of a column is left out).             *)
Annotated == {"Connect", "Query", "Delta", "Arrow", "Checkpoint", "Io"}
NamedByField == {"ColumnNotFound", "TableNotFound", "UnsafeTableName", "ConcurrentWrite"}

(* The errors of a table that does not match its configuration, and those  *)
(* each step of a run can end with for a reason that may pass.             *)
Mismatches == {"UnsafeTableName", "TableNotFound", "ColumnNotFound"}
ErrorsAt ==
  [connect |-> {"Connect"},
   read    |-> {"Checkpoint"},
   open    |-> {"Query", "Delta"},
   query   |-> {"Query"},
   merge   |-> {"Query", "UnparsableValue", "Internal", "Arrow", "Delta", "ConcurrentWrite"},
   record  |-> {"Delta", "Arrow", "ConcurrentWrite"}]

Underway == {"connect", "read", "open", "query", "merge", "record", "progress"}
Ended == {"returned", "failed", "interrupted", "dead"}

NotStarted ==
  [pc |-> "new", list |-> <<>>, pos |-> 0, from |-> 0, seen |-> 0,
   done |-> <<>>, named |-> FALSE]

Current(r) == job[r].list[job[r].pos]
Step(r, phase) == job[r].pc = phase

RunTypeOK ==
  /\ broken \subseteq Tables
  /\ changes \in [Tables -> 0 .. MaxChanges]
  /\ held \in [Tables -> 0 .. MaxChanges]
  /\ ckpt \in [Tables -> 0 .. MaxChanges]
  /\ stale \in [Runs -> BOOLEAN]
  /\ DOMAIN job = Runs
  /\ \A r \in Runs :
       /\ job[r].pc \in {"new"} \cup Underway \cup Ended
       /\ Step(r, "progress") => Len(job[r].done) = job[r].pos
       /\ job[r].pc \in Underway \ {"connect", "progress"} =>
            Len(job[r].done) = job[r].pos - 1

RunInit ==
  /\ broken \in SUBSET Tables
  /\ changes = [t \in Tables |-> 0]
  /\ held = [t \in Tables |-> 0]
  /\ ckpt = [t \in Tables |-> 0]
  /\ job = [r \in Runs |-> NotStarted]
  /\ stale = [r \in Runs |-> FALSE]

(* An application writes to table t. *)
Change(t) ==
  /\ changes[t] < MaxChanges
  /\ changes' = [changes EXCEPT ![t] = @ + 1]
  /\ UNCHANGED <<broken, held, ckpt, job, stale>>

(* The operator corrects the configuration of table t, or the table. *)
Repair(t) ==
  /\ t \in broken
  /\ broken' = broken \ {t}
  /\ UNCHANGED <<changes, held, ckpt, job, stale>>

-----------------------------------------------------------------------------
(* The steps of run r. *)

(* SyncCatalog::new refuses a table listed twice. *)
ValidCatalog(list) == \A i, j \in DOMAIN list : list[i] = list[j] => i = j

(* The catalog is checked as a whole, and an empty one needs no connection. *)
FirstStep(list) ==
  IF ~ValidCatalog(list) THEN "failed"
  ELSE IF list = <<>> THEN "returned" ELSE "connect"

Begin(r, list) ==
  /\ job[r].pc \in {"new"} \cup Ended
  /\ job' = [job EXCEPT ![r] =
       [NotStarted EXCEPT
          !.pc = FirstStep(list),
          !.list = list]]
  /\ stale' = [stale EXCEPT ![r] = FALSE]
  /\ UNCHANGED tableVars

Connect(r) ==
  /\ Step(r, "connect")
  /\ job' = [job EXCEPT ![r].pc = "read", ![r].pos = 1]
  /\ UNCHANGED <<tableVars, stale>>

(* A checkpoint that does not load reads as "never synced". *)
ReadCheckpoint(r) ==
  /\ Step(r, "read")
  /\ \E value \in {ckpt[Current(r)], 0} :
       job' = [job EXCEPT ![r].pc = "open", ![r].from = value]
  /\ UNCHANGED <<tableVars, stale>>

(* The checks of sync_one, then its Delta table. *)
OpenTable(r) ==
  /\ Step(r, "open")
  /\ Current(r) \notin broken
  /\ job' = [job EXCEPT ![r].pc = "query"]
  /\ stale' = [stale EXCEPT ![r] = FALSE]
  /\ UNCHANGED tableVars

(* A failure of the table under way: its name goes into the message where  *)
(* Error::in_table knows how to put it.                                    *)
FailedWith(r, kind) ==
  [job[r] EXCEPT
     !.pc = "failed", !.from = 0, !.seen = 0,
     !.named = job[r].pos > 0 /\ kind \in Annotated \cup NamedByField]

Reject(r) ==
  /\ Step(r, "open")
  /\ Current(r) \in broken
  /\ \E kind \in Mismatches : job' = [job EXCEPT ![r] = FailedWith(r, kind)]
  /\ UNCHANGED <<tableVars, stale>>

Query(r) ==
  /\ Step(r, "query")
  /\ job' = [job EXCEPT ![r].pc = "merge", ![r].seen = changes[Current(r)]]
  /\ UNCHANGED <<tableVars, stale>>

(* Here and below, a definition named after another with a suffix is a     *)
(* variant of it with a plausible mistake: no action uses it, it is there  *)
(* to check that the properties would notice the mistake.                  *)

FinishedUnreported(r) == [job[r] EXCEPT !.pc = "progress"]

(* A table's stats join the report once its checkpoint is recorded. *)
Finished(r) ==
  [job[r] EXCEPT
     !.pc = "progress", !.from = 0, !.seen = 0,
     !.done = Append(@, [table |-> Current(r), upTo |-> job[r].seen])]

(* No row past the checkpoint: nothing is merged, nothing recorded. *)
NothingNew(r) ==
  /\ Step(r, "merge")
  /\ job[r].seen = job[r].from
  /\ job' = [job EXCEPT ![r] = Finished(r)]
  /\ UNCHANGED <<tableVars, stale>>

UncontestedCommitAlways(r) == TRUE

(* Error::ConcurrentWrite otherwise. *)
UncontestedCommit(r) == ~stale[r]

(* How far a table at h comes with the rows up to p of the source as it    *)
(* stood at `seen`: they would take back what others merged since.         *)
Upserted(h, p, seen) == IF seen < h THEN seen ELSE IF p < h THEN h ELSE p

(* One batch, and one commit: the rows up to p, in the watermark's order.   *)
(* The commits of others overtake it before the batch and after it alike.  *)
Merge(r) ==
  /\ Step(r, "merge")
  /\ UncontestedCommit(r)
  /\ \E p \in job[r].from + 1 .. job[r].seen :
       /\ held' = [held EXCEPT ![Current(r)] = Upserted(@, p, job[r].seen)]
       /\ job' = [job EXCEPT
            ![r].from = p,
            ![r].pc = IF p = job[r].seen THEN "record" ELSE "merge"]
  /\ stale' = [q \in Runs |->
       \/ stale[q]
       \/ /\ q # r
          /\ job[q].pc \in {"query", "merge"}
          /\ Current(q) = Current(r)]
  /\ UNCHANGED <<broken, changes, ckpt>>

Conflict(r) ==
  /\ Step(r, "merge")
  /\ job[r].seen # job[r].from
  /\ stale[r]
  /\ job' = [job EXCEPT ![r] = FailedWith(r, "ConcurrentWrite")]
  /\ UNCHANGED <<tableVars, stale>>

Record(r) ==
  /\ Step(r, "record")
  /\ ckpt' = [ckpt EXCEPT ![Current(r)] = job[r].seen]
  /\ job' = [job EXCEPT ![r] = Finished(r)]
  /\ UNCHANGED <<broken, changes, held, stale>>

MoreTablesShort(r) == job[r].pos + 1 < Len(job[r].list)

MoreTables(r) == job[r].pos < Len(job[r].list)

(* on_progress returned true: the next table, or the report. *)
KeepGoing(r) ==
  /\ Step(r, "progress")
  /\ job' = IF MoreTables(r)
            THEN [job EXCEPT ![r].pc = "read", ![r].pos = @ + 1]
            ELSE [job EXCEPT ![r].pc = "returned"]
  /\ UNCHANGED <<tableVars, stale>>

(* It returned false, for a signal or the callback's own exception, be it   *)
(* after the last table: Error::Interrupted, and no report.                *)
Interrupt(r) ==
  /\ Step(r, "progress")
  /\ job' = [job EXCEPT ![r].pc = "interrupted"]
  /\ UNCHANGED <<tableVars, stale>>

(* The first table that fails ends the run. *)
Fail(r) ==
  /\ job[r].pc \in DOMAIN ErrorsAt
  /\ \E kind \in ErrorsAt[job[r].pc] :
       job' = [job EXCEPT ![r] = FailedWith(r, kind)]
  /\ UNCHANGED <<tableVars, stale>>

(* The process is killed. *)
Die(r) ==
  /\ job[r].pc \in Underway
  /\ job' = [job EXCEPT ![r].pc = "dead", ![r].from = 0, ![r].seen = 0]
  /\ UNCHANGED <<tableVars, stale>>

Proceed(r) ==
  \/ Connect(r) \/ ReadCheckpoint(r) \/ OpenTable(r) \/ Reject(r) \/ Query(r)
  \/ NothingNew(r) \/ Merge(r) \/ Conflict(r) \/ Record(r) \/ KeepGoing(r)

Mishap(r) == Fail(r) \/ Die(r) \/ Interrupt(r)

RunNext ==
  \/ \E r \in Runs : Begin(r, Catalog) \/ Proceed(r) \/ Mishap(r)
  \/ \E t \in Tables : Change(t) \/ Repair(t)

RunSpec == RunInit /\ [][RunNext]_runVars

(* The job is scheduled again whenever it ended, and its awaits return. *)
FairRunSpec ==
  RunSpec /\ \A r \in Runs : WF_runVars(Begin(r, Catalog)) /\ WF_runVars(Proceed(r))
-----------------------------------------------------------------------------
(* Properties. *)

(* No checkpoint is ahead of the Delta table it stands for, in any table,   *)
(* however runs of one catalog overlap and wherever they stop.             *)
CheckpointsHeld == \A t \in Tables : ckpt[t] <= held[t] /\ held[t] <= changes[t]

(* A report, also the part of one a run has got to when it stops, is right: *)
(* an entry for each table finished, in catalog order, whose rows are in   *)
(* its Delta table still; and a run that returns has finished all.         *)
ReportsHold ==
  \A r \in Runs :
    /\ \A i \in DOMAIN job[r].done :
         /\ job[r].done[i].table = job[r].list[i]
         /\ job[r].done[i].upTo <= held[job[r].list[i]]
    /\ Step(r, "returned") => Len(job[r].done) = Len(job[r].list)

(* The tables no broken table precedes in the catalog. *)
Reachable ==
  {Catalog[i] : i \in {j \in DOMAIN Catalog : \A h \in 1 .. j : Catalog[h] \notin broken}}

(* From some time on runs end early only by the code's own decision: at a   *)
(* broken table, or in a conflict with another run.                        *)
MishapsCease == <>[][\A r \in Runs : Mishap(r) => Proceed(r)]_runVars

(* From some time on no two runs are at one table at once.  Without that    *)
(* two runs of several batches may refuse each other for ever: the commit  *)
(* of one overtakes the other between two of its batches, and so on.       *)
AtATable(r) == job[r].pc \in {"open", "query", "merge", "record"}
RunsKeepApart ==
  <>[](\A q, r \in Runs :
         q # r /\ AtATable(q) /\ AtATable(r) => Current(q) # Current(r))

(* Running the job again is the whole recovery (operations.md, VI.2), for  *)
(* every table up to the first broken one, which ends each run it is in:   *)
(* whatever failures, kills and conflicts between batches left behind.     *)
RerunsRecover ==
  MishapsCease /\ RunsKeepApart =>
    <>[](\A t \in Reachable : ckpt[t] = changes[t] /\ held[t] = changes[t])

(* A run covers many tables, so every failure says which one it was       *)
(* (pipeline.rs, run).                                                     *)
EveryFailureNamesItsTable ==
  \A r \in Runs : Step(r, "failed") /\ job[r].pos > 0 => job[r].named
=============================================================================
