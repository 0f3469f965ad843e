-------------------------- MODULE TableSyncProofs --------------------------
(***************************************************************************)
(* Proofs about TableSync, for any rows, processes, batch size and bound:  *)
(* what holds whatever the watermarks do, then, from "The order of the     *)
(* stream" on, what the checkpoint is worth under the contract the         *)
(* repository's documents state for the watermark column.  The last part   *)
(* is about Deadlines.                                                     *)
(***************************************************************************)
EXTENDS Deadlines, FiniteSetTheorems, TLAPS

(* The ways out of a run. *)
Ending(w) ==
  \/ LoseCreateRace(w) \/ MergeConflict(w) \/ NothingToRecord(w)
  \/ LoseCheckpointRace(w) \/ CheckpointConflict(w) \/ Fault(w)

(* A row is taken, whatever number of rows that makes of the batch. *)
TakesRow(w) == \E k \in Keys : \E rows : TakeRow(w, k, rows)

(* Next with batches that are full at any size.  But for that size, what    *)
(* holds does not depend on when a batch is merged; it matters to LiveScan, *)
(* where a batch may have several copies of a row.                         *)
AnyBatchNext == Next \/ \E w \in Workers : TakesRow(w)

LEMMA FetchTakes ==
  ASSUME NEW w \in Workers, NEW k \in Keys, FetchRow(w, k)
  PROVE  TakesRow(w)
BY DEF FetchRow, TakesRow

LEMMA AnyBatch == [Next]_vars => [AnyBatchNext]_vars
BY DEF AnyBatchNext

(* Its steps, with those that change little grouped together. *)
LEMMA NextCases ==
  ASSUME [AnyBatchNext]_vars
  PROVE  \/ \E w \in Workers :
              \/ ReadCheckpoint(w) \/ CheckpointUnreadable(w)
              \/ OpenTable(w) \/ CreateTable(w)
              \/ RunQuery(w)
              \/ TakesRow(w)
              \/ EndOfStream(w) \/ MergeBatch(w)
              \/ OpenCheckpoint(w) \/ CreateCheckpoint(w)
              \/ CommitCheckpoint(w)
              \/ Ending(w)
         \/ ForceResync
         \/ SourceStep
         \/ UNCHANGED vars
BY FetchTakes DEF AnyBatchNext, Next, SyncStep, Ending

(* Only merges and the applications at the source move rows. *)
LEMMA QuietSteps ==
  ASSUME [AnyBatchNext]_vars
  PROVE  \/ \E w \in Workers : MergeBatch(w)
         \/ SourceStep
         \/ UNCHANGED <<sourceVars, delta>>
<1>1. ASSUME NEW w \in Workers,
             \/ ReadCheckpoint(w) \/ CheckpointUnreadable(w)
             \/ OpenTable(w) \/ CreateTable(w) \/ RunQuery(w)
      PROVE  UNCHANGED <<sourceVars, delta>>
  BY <1>1 DEF ReadCheckpoint, CheckpointUnreadable, OpenTable, CreateTable,
              RunQuery, targetVars
<1>2. ASSUME NEW w \in Workers,
             \/ TakesRow(w)
             \/ EndOfStream(w) \/ OpenCheckpoint(w) \/ CreateCheckpoint(w)
             \/ CommitCheckpoint(w)
      PROVE  UNCHANGED <<sourceVars, delta>>
  BY <1>2 DEF TakesRow, TakeRow, EndOfStream, OpenCheckpoint, CreateCheckpoint,
              CommitCheckpoint, targetVars
<1>3. ASSUME NEW w \in Workers, Ending(w) PROVE UNCHANGED <<sourceVars, delta>>
  BY <1>3 DEF Ending, LoseCreateRace, MergeConflict, NothingToRecord,
              LoseCheckpointRace, CheckpointConflict, Fault, targetVars
<1>4. CASE ForceResync \/ UNCHANGED vars
  BY <1>4 DEF ForceResync, vars, targetVars
<1> QED
  BY <1>1, <1>2, <1>3, <1>4, NextCases

-----------------------------------------------------------------------------
(* Type correctness. *)

LEMMA IdleType == Idle \in RunState
BY SourceAssumption DEF Idle, RunState, Phases, Absent, NoCheckpoint, Null

LEMMA InitTypeOK == Init => TypeOK
<1> SUFFICES ASSUME Init PROVE TypeOK
  OBVIOUS
<1>1. SourceTypeOK
  BY SourceAssumption DEF Init, SourceInit, SourceTypeOK, Absent, Null, Versions
<1>2. delta \in [Keys -> 0 .. MaxWrites] /\ ckpt \in Nat
  BY SourceAssumption DEF Init, Absent, NoCheckpoint
<1>5. /\ deltaExists \in BOOLEAN
      /\ ckptExists \in BOOLEAN
      /\ dirty \in [Workers -> SUBSET Keys]
      /\ ckptStale \in [Workers -> BOOLEAN]
  BY Zenon DEF Init
<1>3. run \in [Workers -> RunState]
  BY IdleType DEF Init
<1>4. \A w \in Workers : WellFormed(run[w])
  BY DEF Init, WellFormed, Idle
<1> QED
  BY <1>1, <1>2, <1>3, <1>4, <1>5 DEF TypeOK

LEMMA SourceStepType ==
  ASSUME TypeOK, SourceStep
  PROVE  TypeOK'
<1>1. SourceTypeOK'
  <2>1. CASE \E k \in Keys : Write(k)
    <3>1. PICK k \in Keys : Write(k)
      BY <2>1
    <3>2. PICK m \in NextMarks :
            /\ mark' = [mark EXCEPT ![writes + 1] = m]
            /\ clock' = IF m > clock THEN m ELSE clock
      BY <3>1 DEF Write
    <3>3. m \in Nat
      BY <3>2 DEF NextMarks, TypeOK, SourceTypeOK, Null
    <3>4. writes + 1 \in 1 .. MaxWrites
      BY <3>1, SourceAssumption DEF Write, TypeOK, SourceTypeOK
    <3> QED
      BY <3>1, <3>2, <3>3, <3>4 DEF Write, TypeOK, SourceTypeOK, Versions
  <2>2. CASE \E k \in Keys : Delete(k)
    BY <2>2, SourceAssumption DEF Delete, TypeOK, SourceTypeOK, Absent
  <2> QED
    BY <2>1, <2>2 DEF SourceStep, SourceNext
<1>2. \A w \in Workers : WellFormed(run'[w])
  BY DEF TypeOK, SourceStep
<1> QED
  BY <1>1, <1>2 DEF TypeOK, SourceStep, targetVars

(* One process moves to a proper state: all of them are in one. *)
LEMMA RunMoves ==
  ASSUME TypeOK, NEW w \in Workers, NEW r \in RunState, WellFormed(r),
         run' = [run EXCEPT ![w] = r]
  PROVE  /\ run' \in [Workers -> RunState]
         /\ \A v \in Workers : WellFormed(run'[v])
BY DEF TypeOK

LEMMA IdleWellFormed == WellFormed(Idle)
BY DEF WellFormed, Idle

LEMMA EndRunType ==
  ASSUME TypeOK, NEW w \in Workers, EndRun(w), UNCHANGED <<sourceVars, targetVars>>
  PROVE  TypeOK'
<1>1. /\ run' \in [Workers -> RunState]
      /\ \A v \in Workers : WellFormed(run'[v])
  BY RunMoves, IdleType, IdleWellFormed DEF EndRun
<1>2. dirty' \in [Workers -> SUBSET Keys]
  BY DEF TypeOK, EndRun
<1>3. ckptStale' \in [Workers -> BOOLEAN]
  BY Zenon DEF TypeOK, EndRun
<1> QED
  BY <1>1, <1>2, <1>3 DEF TypeOK, SourceTypeOK, sourceVars, targetVars

LEMMA ReadCheckpointType ==
  ASSUME TypeOK, NEW w \in Workers, ReadCheckpoint(w) \/ CheckpointUnreadable(w)
  PROVE  TypeOK'
<1>1. PICK b \in Nat : run' = [run EXCEPT ![w].pc = "open", ![w].last = b]
  BY DEF TypeOK, ReadCheckpoint, CheckpointUnreadable, NoCheckpoint
<1> DEFINE r == [run[w] EXCEPT !.pc = "open", !.last = b]
<1>2. At(w, "idle")
  BY DEF ReadCheckpoint, CheckpointUnreadable
<1>3. r \in RunState /\ WellFormed(r)
  BY <1>2, ZenonT(40) DEF TypeOK, RunState, Phases, WellFormed, At
<1>4. run' = [run EXCEPT ![w] = r]
  BY <1>1 DEF TypeOK, RunState
<1>5. /\ run' \in [Workers -> RunState]
      /\ \A v \in Workers : WellFormed(run'[v])
  BY <1>3, <1>4, RunMoves
<1> QED
  BY <1>5 DEF TypeOK, SourceTypeOK, ReadCheckpoint, CheckpointUnreadable,
              sourceVars, targetVars

LEMMA OpenTableType ==
  ASSUME TypeOK, NEW w \in Workers, OpenTable(w)
  PROVE  TypeOK'
<1> DEFINE r == [run[w] EXCEPT !.pc = IF deltaExists THEN "query" ELSE "create"]
<1>1. r \in RunState /\ WellFormed(r)
  BY ZenonT(40) DEF OpenTable, TypeOK, RunState, Phases, WellFormed, At
<1>2. run' = [run EXCEPT ![w] = r]
  BY DEF OpenTable, TypeOK, RunState
<1>3. /\ run' \in [Workers -> RunState]
      /\ \A v \in Workers : WellFormed(run'[v])
  BY <1>1, <1>2, RunMoves
<1> QED
  BY <1>3 DEF OpenTable, TypeOK, SourceTypeOK, sourceVars, targetVars

LEMMA CreateTableType ==
  ASSUME TypeOK, NEW w \in Workers, CreateTable(w)
  PROVE  TypeOK'
<1> DEFINE r == [run[w] EXCEPT !.pc = "query"]
<1>1. r \in RunState /\ WellFormed(r)
  BY ZenonT(40) DEF CreateTable, TypeOK, RunState, Phases, WellFormed, At
<1>2. run' = [run EXCEPT ![w] = r]
  BY DEF CreateTable, TypeOK, RunState
<1>3. /\ run' \in [Workers -> RunState]
      /\ \A v \in Workers : WellFormed(run'[v])
  BY <1>1, <1>2, RunMoves
<1> QED
  BY <1>3 DEF CreateTable, TypeOK, SourceTypeOK, sourceVars

LEMMA EndOfStreamType ==
  ASSUME TypeOK, NEW w \in Workers, EndOfStream(w)
  PROVE  TypeOK'
<1> DEFINE r == [run[w] EXCEPT !.pc = AfterStream(run[w].batch)]
<1>1. r \in RunState /\ WellFormed(r)
  BY ZenonT(40) DEF EndOfStream, TypeOK, RunState, Phases, WellFormed, At, AfterStream
<1>2. run' = [run EXCEPT ![w] = r]
  BY DEF EndOfStream, TypeOK, RunState
<1>3. /\ run' \in [Workers -> RunState]
      /\ \A v \in Workers : WellFormed(run'[v])
  BY <1>1, <1>2, RunMoves
<1> QED
  BY <1>3 DEF EndOfStream, TypeOK, SourceTypeOK, sourceVars, targetVars

LEMMA OpenCheckpointType ==
  ASSUME TypeOK, NEW w \in Workers, OpenCheckpoint(w)
  PROVE  TypeOK'
<1> DEFINE r == [run[w] EXCEPT !.pc = IF ckptExists THEN "commit" ELSE "createCheckpoint"]
<1>1. r \in RunState /\ WellFormed(r)
  BY ZenonT(40) DEF OpenCheckpoint, TypeOK, RunState, Phases, WellFormed, At
<1>2. run' = [run EXCEPT ![w] = r]
  BY DEF OpenCheckpoint, TypeOK, RunState
<1>3. /\ run' \in [Workers -> RunState]
      /\ \A v \in Workers : WellFormed(run'[v])
  BY <1>1, <1>2, RunMoves
<1> QED
  BY <1>3 DEF OpenCheckpoint, TypeOK, SourceTypeOK, sourceVars, targetVars

LEMMA CreateCheckpointType ==
  ASSUME TypeOK, NEW w \in Workers, CreateCheckpoint(w)
  PROVE  TypeOK'
<1> DEFINE r == [run[w] EXCEPT !.pc = "commit"]
<1>1. r \in RunState /\ WellFormed(r)
  BY ZenonT(40) DEF CreateCheckpoint, TypeOK, RunState, Phases, WellFormed, At
<1>2. run' = [run EXCEPT ![w] = r]
  BY DEF CreateCheckpoint, TypeOK, RunState
<1>3. /\ run' \in [Workers -> RunState]
      /\ \A v \in Workers : WellFormed(run'[v])
  BY <1>1, <1>2, RunMoves
<1> QED
  BY <1>3 DEF CreateCheckpoint, TypeOK, SourceTypeOK, sourceVars

LEMMA RunQueryType ==
  ASSUME TypeOK, NEW w \in Workers, RunQuery(w)
  PROVE  TypeOK'
<1> DEFINE found == Selected(run[w].last)
           snap == [k \in Keys |-> IF k \in found THEN source[k] ELSE Absent]
           r == [run[w] EXCEPT !.pc = "fetch", !.snap = snap,
                               !.asOf = writes, !.todo = found]
<1>1. found \subseteq Keys /\ \A k \in found : source[k] # Absent
  BY DEF Selected
<1>2. snap \in [Keys -> 0 .. MaxWrites]
  BY SourceAssumption DEF TypeOK, SourceTypeOK, Absent
<1>3. run[w] \in RunState /\ WellFormed(run[w]) /\ run[w].pc = "query"
  BY DEF TypeOK, RunQuery, At
<1>4. r \in RunState
  BY <1>1, <1>2, <1>3 DEF RunState, Phases, TypeOK, SourceTypeOK
<1>5. WellFormed(r)
  BY <1>1, <1>3 DEF WellFormed, RunState
<1>6. run' = [run EXCEPT ![w] = r]
  BY DEF RunQuery, TypeOK, RunState
<1>7. /\ run' \in [Workers -> RunState]
      /\ \A v \in Workers : WellFormed(run'[v])
  BY <1>4, <1>5, <1>6, RunMoves
<1> QED
  BY <1>7 DEF RunQuery, TypeOK, SourceTypeOK, sourceVars, targetVars

LEMMA TakeRowType ==
  ASSUME TypeOK, NEW w \in Workers, NEW k \in Keys, NEW rows, TakeRow(w, k, rows)
  PROVE  TypeOK'
<1> DEFINE m == mark[run[w].snap[k]]
           r == [run[w] EXCEPT !.pc = AfterRow(rows),
                               !.todo = @ \ {k}, !.batch = @ \cup {k},
                               !.tail = m]
<1>1. /\ run[w] \in RunState /\ WellFormed(run[w]) /\ run[w].pc = "fetch"
      /\ k \in run[w].todo
  BY DEF TypeOK, TakeRow, NextInOrder, At
<1>2. run[w].snap[k] \in Versions
  BY <1>1, SourceAssumption DEF WellFormed, RunState, Versions, Absent
<1>3. m \in Nat
  BY <1>2 DEF TypeOK, SourceTypeOK
<1>4. AfterRow(rows) \in {"fetch", "merge"}
  BY DEF AfterRow
<1>5. r \in RunState
  BY <1>1, <1>3, <1>4 DEF RunState, Phases
<1>6. WellFormed(r)
  BY <1>1, <1>4 DEF WellFormed, RunState
<1>7. run' = [run EXCEPT ![w] = r]
  BY DEF TakeRow, TypeOK, RunState
<1>8. /\ run' \in [Workers -> RunState]
      /\ \A v \in Workers : WellFormed(run'[v])
  BY <1>5, <1>6, <1>7, RunMoves
<1> QED
  BY <1>8 DEF TakeRow, TypeOK, SourceTypeOK, sourceVars, targetVars

LEMMA MergeBatchType ==
  ASSUME TypeOK, NEW w \in Workers, MergeBatch(w)
  PROVE  TypeOK'
<1> DEFINE r == [run[w] EXCEPT !.pc = IF @ = "merge" THEN "fetch" ELSE "record",
                               !.batch = {}, !.newest = NewestAfter(w)]
<1>1. /\ run[w] \in RunState /\ WellFormed(run[w])
      /\ run[w].pc \in {"merge", "flush"}
  BY DEF TypeOK, MergeBatch
<1>2. NewestAfter(w) \in Nat
  BY <1>1 DEF NewestAfter, RunState
<1>3. r \in RunState
  BY <1>1, <1>2 DEF RunState, Phases
<1>4. WellFormed(r)
  BY <1>1 DEF WellFormed, RunState
<1>5. run' = [run EXCEPT ![w] = r]
  BY DEF MergeBatch, TypeOK, RunState
<1>6. /\ run' \in [Workers -> RunState]
      /\ \A v \in Workers : WellFormed(run'[v])
  BY <1>3, <1>4, <1>5, RunMoves
<1>7. delta' \in [Keys -> 0 .. MaxWrites]
  BY <1>1 DEF MergeBatch, TypeOK, RunState
<1>8. dirty' \in [Workers -> SUBSET Keys]
  BY <1>1 DEF MergeBatch, TypeOK, RunState
<1> QED
  BY <1>6, <1>7, <1>8 DEF MergeBatch, TypeOK, SourceTypeOK, sourceVars

LEMMA CommitCheckpointType ==
  ASSUME TypeOK, NEW w \in Workers, CommitCheckpoint(w)
  PROVE  TypeOK'
<1>1. /\ run' \in [Workers -> RunState]
      /\ \A v \in Workers : WellFormed(run'[v])
  BY RunMoves, IdleType, IdleWellFormed DEF CommitCheckpoint
<1>2. ckpt' \in Nat /\ dirty' \in [Workers -> SUBSET Keys]
  BY DEF TypeOK, RunState, CommitCheckpoint
<1>3. ckptStale' \in [Workers -> BOOLEAN]
  BY Zenon DEF CommitCheckpoint, OutdateCheckpoint
<1> QED
  BY <1>1, <1>2, <1>3 DEF CommitCheckpoint, TypeOK, SourceTypeOK, sourceVars

LEMMA ForceResyncType ==
  ASSUME TypeOK, ForceResync
  PROVE  TypeOK'
<1>1. ckptStale' \in [Workers -> BOOLEAN]
  BY Zenon DEF ForceResync
<1> QED
  BY <1>1 DEF ForceResync, TypeOK, SourceTypeOK, sourceVars, NoCheckpoint

LEMMA NextTypeOK ==
  ASSUME TypeOK, [AnyBatchNext]_vars
  PROVE  TypeOK'
<1>1. ASSUME NEW w \in Workers, Ending(w) PROVE TypeOK'
  BY <1>1, EndRunType
     DEF Ending, LoseCreateRace, MergeConflict, NothingToRecord,
         LoseCheckpointRace, CheckpointConflict, Fault
<1>2. CASE UNCHANGED vars
  BY <1>2 DEF vars, sourceVars, targetVars, TypeOK, SourceTypeOK
<1>3. ASSUME NEW w \in Workers, TakesRow(w) PROVE TypeOK'
  BY <1>3, TakeRowType DEF TakesRow
<1> QED
  BY <1>1, <1>2, <1>3, NextCases, ReadCheckpointType, OpenTableType, CreateTableType,
     RunQueryType, EndOfStreamType, MergeBatchType,
     OpenCheckpointType, CreateCheckpointType, CommitCheckpointType,
     ForceResyncType, SourceStepType

(* Every reachable state is well-typed: a run holds exactly rows its query *)
(* returned, and none of them any more once it turns to the checkpoint.    *)
THEOREM TypeCorrect == Spec => []TypeOK
<1>1. TypeOK /\ [Next]_vars => TypeOK'
  BY NextTypeOK, AnyBatch
<1> QED
  BY <1>1, InitTypeOK, PTL DEF Spec

-----------------------------------------------------------------------------
(* The versions a run holds, against those of the source and of the Delta  *)
(* table.  This is what optimistic concurrency control is there to keep.   *)

(* Commits cannot hide what happened to rows still to be merged: either    *)
(* any commit of another process is a conflict, or a run makes only one.   *)
SafeCommits == ~Rebases \/ Cardinality(Keys) < FetchBatchSize

(* Of row k, a run in state r knows a version the source may have left but *)
(* not gone back from; the Delta table has it once it is merged, and is    *)
(* not past it while it waits, unless others have touched the row.         *)
Sound(r, touched) ==
  /\ SafeCommits /\ Rebases => r.pc # "merge"
  /\ \A k \in Keys :
       /\ r.snap[k] <= writes
       /\ source[k] # Absent => r.snap[k] <= source[k]
       /\ k \notin r.todo \cup r.batch => r.snap[k] <= delta[k]
       /\ k \in (r.todo \cup r.batch) \ touched => delta[k] <= r.snap[k]

VersionInv ==
  /\ \A k \in Keys : /\ delta[k] <= writes /\ source[k] <= writes
                     /\ source[k] # Absent => delta[k] <= source[k]
  /\ \A w \in Workers : Sound(run[w], dirty[w])

LEMMA IdleSound ==
  ASSUME TypeOK, NEW d \in SUBSET Keys
  PROVE  Sound(Idle, d)
BY DEF Sound, Idle, TypeOK, SourceTypeOK, Absent

LEMMA InitVersionInv == Init => VersionInv
<1> SUFFICES ASSUME Init PROVE VersionInv
  OBVIOUS
<1>1. \A w \in Workers : Sound(run[w], dirty[w])
  BY InitTypeOK, IdleSound DEF Init
<1> QED
  BY <1>1, SourceAssumption DEF VersionInv, Init, SourceInit, Absent

(* A step of one process that leaves the source and the Delta table alone. *)
LEMMA LocalVersionInv ==
  ASSUME TypeOK, VersionInv, NEW w \in Workers, NEW r, Sound(r, dirty'[w]),
         run' = [run EXCEPT ![w] = r],
         \A v \in Workers \ {w} : dirty'[v] = dirty[v],
         UNCHANGED <<source, writes, delta>>
  PROVE  VersionInv'
<1>1. \A v \in Workers : Sound(run'[v], dirty'[v])
  BY DEF TypeOK, VersionInv
<1>2. \A v \in Workers : Sound(run[v], dirty[v])'
  BY <1>1 DEF Sound
<1> QED
  BY <1>2 DEF VersionInv

LEMMA EndRunVersionInv ==
  ASSUME TypeOK, VersionInv, NEW w \in Workers, EndRun(w),
         UNCHANGED <<source, writes, delta>>
  PROVE  VersionInv'
<1>1. dirty'[w] = {} /\ \A v \in Workers \ {w} : dirty'[v] = dirty[v]
  BY DEF EndRun, TypeOK
<1> QED
  BY <1>1, IdleSound, LocalVersionInv DEF EndRun

(* What the applications do: nothing that is written changes any more. *)
LEMMA SourceForward ==
  ASSUME TypeOK, SourceStep
  PROVE  /\ writes' \in Nat /\ writes <= writes'
         /\ \A v \in 1 .. writes : v \in Versions /\ mark'[v] = mark[v]
         /\ \A k \in Keys :
              \/ source'[k] = source[k]
              \/ source'[k] = Absent
              \/ source'[k] = writes' /\ writes < writes'
<1>1. /\ writes \in 0 .. MaxWrites /\ MaxWrites \in Nat
      /\ mark \in [Versions -> Nat] /\ source \in [Keys -> 0 .. MaxWrites]
  BY SourceAssumption DEF TypeOK, SourceTypeOK
<1>2. CASE \E k \in Keys : Write(k)
  BY <1>1, <1>2 DEF Write, Versions
<1>3. CASE \E k \in Keys : Delete(k)
  BY <1>1, <1>3 DEF Delete, Versions
<1> QED
  BY <1>2, <1>3 DEF SourceStep, SourceNext

LEMMA SourceStepVersionInv ==
  ASSUME TypeOK, VersionInv, SourceStep
  PROVE  VersionInv'
<1>1. /\ UNCHANGED <<delta, run, dirty>> /\ writes \in Nat
      /\ source \in [Keys -> 0 .. MaxWrites] /\ delta \in [Keys -> 0 .. MaxWrites]
  BY DEF SourceStep, targetVars, TypeOK, SourceTypeOK
<1>2. \A k \in Keys : /\ delta[k] <= writes /\ source[k] <= writes
                      /\ source[k] # Absent => delta[k] <= source[k]
  BY DEF VersionInv
<1>3. ASSUME NEW k \in Keys, NEW n \in Nat, n <= writes,
             source[k] # Absent => n <= source[k]
      PROVE  n <= writes' /\ (source'[k] # Absent => n <= source'[k])
  BY <1>1, <1>3, SourceForward
<1>4. ASSUME NEW w \in Workers PROVE Sound(run[w], dirty[w])'
  <2>1. Sound(run[w], dirty[w]) /\ run[w] \in RunState
    BY DEF VersionInv, TypeOK
  <2>2. \A k \in Keys : run[w].snap[k] \in Nat
    BY <2>1 DEF RunState
  <2> QED
    BY <1>1, <1>3, <2>1, <2>2 DEF Sound
<1>5. \A k \in Keys : /\ delta'[k] <= writes' /\ source'[k] <= writes'
                      /\ source'[k] # Absent => delta'[k] <= source'[k]
  BY <1>1, <1>2, <1>3, SourceForward DEF Absent
<1> QED
  BY <1>4, <1>5 DEF VersionInv

(* The steps of a run before its query. *)
LEMMA PreludeVersionInv ==
  ASSUME TypeOK, VersionInv, NEW w \in Workers,
         \/ ReadCheckpoint(w) \/ CheckpointUnreadable(w)
         \/ OpenTable(w) \/ CreateTable(w)
  PROVE  VersionInv'
<1>1. PICK p \in {"open", "query", "create"}, b \in Nat :
        run' = [run EXCEPT ![w].pc = p, ![w].last = b]
  <2>1. CASE ReadCheckpoint(w) \/ CheckpointUnreadable(w)
    BY <2>1 DEF TypeOK, ReadCheckpoint, CheckpointUnreadable, NoCheckpoint
  <2>2. CASE OpenTable(w) \/ CreateTable(w)
    <3>1. PICK p \in {"query", "create"} : run' = [run EXCEPT ![w].pc = p]
      BY <2>2 DEF OpenTable, CreateTable
    <3>2. run' = [run EXCEPT ![w].pc = p, ![w].last = run[w].last]
      BY <3>1 DEF TypeOK, RunState
    <3> QED
      BY <3>2 DEF TypeOK, RunState
  <2> QED
    BY <2>1, <2>2
<1> DEFINE r == [run[w] EXCEPT !.pc = p, !.last = b]
<1>2. run' = [run EXCEPT ![w] = r]
  BY <1>1 DEF TypeOK, RunState
<1>3. run[w].pc \in {"idle", "open", "create"} /\ WellFormed(run[w])
  BY DEF TypeOK, ReadCheckpoint, CheckpointUnreadable, OpenTable, CreateTable, At
<1>4. /\ UNCHANGED <<source, mark, writes, delta>>
      /\ \A v \in Workers \ {w} : dirty'[v] = dirty[v]
  BY DEF ReadCheckpoint, CheckpointUnreadable, OpenTable, CreateTable, TypeOK,
         sourceVars, targetVars
<1>5. Sound(run[w], dirty[w]) /\ run[w] \in RunState
  BY DEF VersionInv, TypeOK
<1>6. Sound(r, dirty'[w])
  BY <1>3, <1>5 DEF Sound, WellFormed, RunState
<1> QED
  BY <1>2, <1>4, <1>6, LocalVersionInv

LEMMA RunQueryVersionInv ==
  ASSUME TypeOK, VersionInv, NEW w \in Workers, RunQuery(w)
  PROVE  VersionInv'
<1> DEFINE found == Selected(run[w].last)
           snap == [k \in Keys |-> IF k \in found THEN source[k] ELSE Absent]
           r == [run[w] EXCEPT !.pc = "fetch", !.snap = snap,
                               !.asOf = writes, !.todo = found]
<1>1. run' = [run EXCEPT ![w] = r]
  BY DEF RunQuery, TypeOK, RunState
<1>2. /\ UNCHANGED <<source, mark, writes, delta, dirty>>
      /\ run[w].pc = "query" /\ run[w] \in RunState
      /\ run[w].batch = {}
  BY DEF RunQuery, TypeOK, WellFormed, sourceVars, targetVars, At
<1>3. /\ r.pc = "fetch" /\ r.snap = snap /\ r.asOf = writes
      /\ r.todo = found /\ r.batch = {} /\ r.last = run[w].last
  BY <1>2 DEF RunState
<1>4. ASSUME NEW k \in Keys
      PROVE  /\ snap[k] <= writes
             /\ source[k] # Absent => snap[k] <= source[k]
             /\ k \notin found => snap[k] <= delta[k]
             /\ k \in found => delta[k] <= snap[k]
  <2>1. source[k] \in 0 .. MaxWrites /\ delta[k] \in 0 .. MaxWrites /\ writes \in Nat
    BY DEF TypeOK, SourceTypeOK
  <2>2. source[k] <= writes /\ (source[k] # Absent => delta[k] <= source[k])
    BY DEF VersionInv
  <2> QED
    BY <2>1, <2>2 DEF Selected, Absent
<1> HIDE DEF r, snap, found
<1>5. Sound(r, dirty'[w])
  BY <1>2, <1>3, <1>4 DEF Sound, TypeOK, SourceTypeOK
<1> QED
  BY <1>1, <1>2, <1>5, LocalVersionInv

LEMMA TakeRowVersionInv ==
  ASSUME TypeOK, VersionInv, NEW w \in Workers, NEW k \in Keys, NEW rows,
         TakeRow(w, k, rows), SafeCommits /\ Rebases => rows < FetchBatchSize
  PROVE  VersionInv'
<1> DEFINE m == mark[run[w].snap[k]]
           r == [run[w] EXCEPT !.pc = AfterRow(rows),
                               !.todo = @ \ {k}, !.batch = @ \cup {k},
                               !.tail = m]
<1>1. run' = [run EXCEPT ![w] = r]
  BY DEF TakeRow, TypeOK, RunState
<1>2. /\ UNCHANGED <<source, mark, writes, delta, dirty>>
      /\ run[w].pc = "fetch" /\ run[w] \in RunState
      /\ k \in run[w].todo
  BY DEF TakeRow, NextInOrder, TypeOK, sourceVars, targetVars, At
<1>3. /\ r.snap = run[w].snap /\ r.asOf = run[w].asOf /\ r.last = run[w].last
      /\ r.todo \cup r.batch = run[w].todo \cup run[w].batch
      /\ r.pc = AfterRow(rows)
  BY <1>2 DEF RunState
<1>4. SafeCommits /\ Rebases => r.pc # "merge"
  BY <1>3 DEF AfterRow
<1>5. Sound(run[w], dirty[w])
  BY DEF VersionInv
<1> HIDE DEF r
<1>6. Sound(r, dirty'[w])
  BY <1>2, <1>3, <1>4, <1>5 DEF Sound
<1> QED
  BY <1>1, <1>2, <1>6, LocalVersionInv

LEMMA FetchRowVersionInv ==
  ASSUME TypeOK, VersionInv, NEW w \in Workers, NEW k \in Keys, FetchRow(w, k)
  PROVE  VersionInv'
<1> DEFINE rows == Cardinality(run[w].batch \cup {k})
<1>1. run[w].batch \cup {k} \subseteq Keys
  BY DEF TypeOK, RunState
<1>2. rows <= Cardinality(Keys) /\ rows \in Nat /\ Cardinality(Keys) \in Nat
  BY <1>1, SyncAssumption, FS_Subset, FS_CardinalityType
<1>3. TakeRow(w, k, rows)
  BY DEF FetchRow
<1> HIDE DEF rows
<1>4. SafeCommits /\ Rebases => rows < FetchBatchSize
  BY <1>2, SyncAssumption DEF SafeCommits
<1> QED
  BY <1>3, <1>4, TakeRowVersionInv

(* The steps after the fetching that do not end the run. *)
LEMMA SequelVersionInv ==
  ASSUME TypeOK, VersionInv, NEW w \in Workers,
         EndOfStream(w) \/ OpenCheckpoint(w) \/ CreateCheckpoint(w)
  PROVE  VersionInv'
<1>1. PICK p \in {"record", "flush", "commit", "createCheckpoint"} :
        run' = [run EXCEPT ![w].pc = p]
  BY DEF EndOfStream, AfterStream, OpenCheckpoint, CreateCheckpoint
<1> DEFINE r == [run[w] EXCEPT !.pc = p]
<1>2. run' = [run EXCEPT ![w] = r]
  BY <1>1 DEF TypeOK, RunState
<1>3. UNCHANGED <<source, mark, writes, delta, dirty>>
  BY DEF EndOfStream, OpenCheckpoint, CreateCheckpoint, sourceVars, targetVars
<1>4. Sound(run[w], dirty[w]) /\ run[w] \in RunState
  BY DEF VersionInv, TypeOK
<1>5. Sound(r, dirty'[w])
  BY <1>3, <1>4 DEF Sound, RunState
<1> HIDE DEF r
<1> QED
  BY <1>2, <1>3, <1>5, LocalVersionInv

(* What a commit may do: its rows are no older than those they replace, and *)
(* no row that stays with a run is one the commit hides from it.            *)
LEMMA MergeIsSafe ==
  ASSUME SafeCommits, TypeOK, VersionInv, NEW w \in Workers, MergeBatch(w)
  PROVE  /\ \A k \in Keys : delta[k] <= delta'[k]
         /\ \A k \in Keys : delta'[k] <= writes
         /\ \A k \in Keys : source[k] # Absent => delta'[k] <= source[k]
         /\ \A k \in run[w].batch : delta'[k] = run[w].snap[k]
         /\ \A k \in Keys \ run[w].batch : delta'[k] = delta[k]
         /\ \A k \in run[w].todo : delta[k] <= run[w].snap[k]
<1>1. /\ run[w] \in RunState /\ WellFormed(run[w])
      /\ run[w].pc \in {"merge", "flush"} /\ MayCommit(w)
      /\ Sound(run[w], dirty[w])
  BY DEF TypeOK, VersionInv, MergeBatch
<1>2. /\ \A k \in run[w].batch : delta'[k] = run[w].snap[k]
      /\ \A k \in Keys \ run[w].batch : delta'[k] = delta[k]
  BY <1>1 DEF MergeBatch, RunState
<1>3. dirty[w] \cap run[w].batch = {}
  BY <1>1 DEF MayCommit
<1>4. \A k \in run[w].batch : delta[k] <= run[w].snap[k]
  BY <1>1, <1>3 DEF Sound, RunState
<1>5. \A k \in run[w].todo : delta[k] <= run[w].snap[k]
  <2>1. CASE ~Rebases
    BY <1>1, <2>1 DEF MayCommit, Sound, RunState
  <2>2. CASE Rebases
    BY <1>1, <2>2 DEF Sound, WellFormed
  <2> QED
    BY <2>1, <2>2
<1>6. ASSUME NEW k \in Keys
      PROVE  /\ delta[k] <= delta'[k]
             /\ delta'[k] <= writes
             /\ source[k] # Absent => delta'[k] <= source[k]
  <2>1. /\ delta[k] \in Nat /\ run[w].snap[k] \in Nat /\ writes \in Nat
    BY <1>1 DEF TypeOK, SourceTypeOK, RunState
  <2>2. delta[k] <= writes /\ (source[k] # Absent => delta[k] <= source[k])
    BY DEF VersionInv
  <2>3. /\ run[w].snap[k] <= writes
        /\ source[k] # Absent => run[w].snap[k] <= source[k]
    BY <1>1 DEF Sound
  <2> QED
    BY <1>2, <1>4, <2>1, <2>2, <2>3
<1> QED
  BY <1>2, <1>5, <1>6

LEMMA MergeBatchVersionInv ==
  ASSUME SafeCommits, TypeOK, VersionInv, NEW w \in Workers, MergeBatch(w)
  PROVE  VersionInv'
<1>1. /\ run[w] \in RunState /\ WellFormed(run[w])
      /\ run[w].pc \in {"merge", "flush"}
      /\ UNCHANGED <<source, writes>>
  BY DEF TypeOK, MergeBatch, sourceVars
<1>2. Sound(run[w], dirty[w])'
  <2> DEFINE r == [run[w] EXCEPT !.pc = IF @ = "merge" THEN "fetch" ELSE "record",
                                 !.batch = {}, !.newest = NewestAfter(w)]
  <2>1. run'[w] = r
    BY DEF MergeBatch, TypeOK, RunState
  <2>2. /\ run'[w].snap = run[w].snap /\ run'[w].todo = run[w].todo
        /\ run'[w].batch = {} /\ run'[w].pc \in {"fetch", "record"}
    BY <1>1, <2>1 DEF RunState
  <2>3. Sound(run[w], dirty[w])
    BY <1>1 DEF VersionInv
  <2>4. run[w].todo \cap run[w].batch = {}
    BY <1>1 DEF WellFormed
  <2>5. ASSUME NEW k \in Keys
        PROVE  /\ k \notin run[w].todo => run[w].snap[k] <= delta'[k]
               /\ k \in run[w].todo => delta'[k] <= run[w].snap[k]
    <3>1. delta[k] \in Nat /\ delta'[k] \in Nat /\ run[w].snap[k] \in Nat
      BY <1>1, MergeBatchType DEF TypeOK, RunState
    <3>2. k \notin run[w].todo \cup run[w].batch => run[w].snap[k] <= delta[k]
      BY <2>3 DEF Sound
    <3> QED
      BY <2>2, <2>4, <3>1, <3>2, MergeIsSafe
  <2> QED
    BY <1>1, <2>2, <2>3, <2>5 DEF Sound
<1>3. ASSUME NEW v \in Workers \ {w}
      PROVE  Sound(run[v], dirty[v])'
  <2>1. /\ run'[v] = run[v] /\ run[v] \in RunState /\ WellFormed(run[v])
        /\ Sound(run[v], dirty[v])
    BY DEF MergeBatch, TypeOK, VersionInv
  <2>2. HoldsTable(v) => dirty'[v] = dirty[v] \cup run[w].batch
    BY DEF MergeBatch
  <2>3. ~HoldsTable(v) => run[v].todo \cup run[v].batch = {}
    BY <2>1 DEF HoldsTable, WellFormed
  <2>4. ASSUME NEW k \in Keys
        PROVE  /\ k \notin run[v].todo \cup run[v].batch => run[v].snap[k] <= delta'[k]
               /\ k \in (run[v].todo \cup run[v].batch) \ dirty'[v] =>
                    delta'[k] <= run[v].snap[k]
    <3>1. delta[k] \in Nat /\ delta'[k] \in Nat /\ run[v].snap[k] \in Nat
      BY <2>1, MergeBatchType DEF TypeOK, RunState
    <3>2. /\ k \notin run[v].todo \cup run[v].batch => run[v].snap[k] <= delta[k]
          /\ k \in (run[v].todo \cup run[v].batch) \ dirty[v] =>
               delta[k] <= run[v].snap[k]
      BY <2>1 DEF Sound
    <3>3. delta[k] <= delta'[k] /\ (k \notin run[w].batch => delta'[k] = delta[k])
      BY MergeIsSafe
    <3> QED
      BY <2>2, <2>3, <3>1, <3>2, <3>3
  <2> QED
    BY <1>1, <2>1, <2>4 DEF Sound
<1>4. \A v \in Workers : Sound(run[v], dirty[v])'
  BY <1>2, <1>3
<1>5. \A k \in Keys : /\ delta'[k] <= writes' /\ source'[k] <= writes'
                      /\ source'[k] # Absent => delta'[k] <= source'[k]
  BY <1>1, MergeIsSafe DEF VersionInv
<1> QED
  BY <1>4, <1>5 DEF VersionInv

LEMMA NextVersionInv ==
  ASSUME SafeCommits, TypeOK, VersionInv, [Next]_vars
  PROVE  VersionInv'
<1>1. ASSUME NEW w \in Workers, Ending(w) PROVE VersionInv'
  BY <1>1, EndRunVersionInv
     DEF Ending, LoseCreateRace, MergeConflict, NothingToRecord,
         LoseCheckpointRace, CheckpointConflict, Fault, sourceVars, targetVars
<1>2. ASSUME NEW w \in Workers, CommitCheckpoint(w) PROVE VersionInv'
  <2>1. /\ run' = [run EXCEPT ![w] = Idle] /\ dirty' = [dirty EXCEPT ![w] = {}]
        /\ UNCHANGED <<source, mark, writes, delta>>
    BY <1>2 DEF CommitCheckpoint, sourceVars
  <2>2. dirty'[w] = {} /\ \A v \in Workers \ {w} : dirty'[v] = dirty[v]
    BY <2>1 DEF TypeOK
  <2> QED
    BY <2>1, <2>2, IdleSound, LocalVersionInv
<1>3. CASE ForceResync \/ UNCHANGED vars
  BY <1>3 DEF ForceResync, vars, sourceVars, targetVars, VersionInv, Sound
<1>4. ASSUME NEW w \in Workers, SyncStep(w) \/ CheckpointUnreadable(w) \/ Fault(w)
      PROVE  VersionInv'
  BY <1>1, <1>2, <1>4, PreludeVersionInv, RunQueryVersionInv, FetchRowVersionInv,
     SequelVersionInv, MergeBatchVersionInv DEF SyncStep, Ending
<1> QED
  BY <1>3, <1>4, SourceStepVersionInv DEF Next

LEMMA VersionInvariant == SafeCommits => (Spec => []VersionInv)
<1> SUFFICES ASSUME SafeCommits PROVE Spec => []VersionInv
  OBVIOUS
<1>1. TypeOK /\ VersionInv /\ [Next]_vars => VersionInv'
  BY NextVersionInv
<1> QED
  BY InitVersionInv, <1>1, TypeCorrect, PTL DEF Spec

-----------------------------------------------------------------------------
(* What follows for the Delta table. *)

(* A Delta row is never replaced by an older version of it, by however     *)
(* many runs of the table at once (the order of open_or_create and of the  *)
(* query in sync_one), as long as commits cannot hide one another.         *)
THEOREM NeverStale == SafeCommits => (Spec => NoStaleOverwrite)
<1> SUFFICES ASSUME SafeCommits PROVE Spec => NoStaleOverwrite
  OBVIOUS
<1>1. ASSUME TypeOK, VersionInv, [Next]_vars
      PROVE  [\A k \in Keys : delta[k] <= delta'[k]]_vars
  <2>1. ASSUME NEW w \in Workers, MergeBatch(w)
        PROVE  \A k \in Keys : delta[k] <= delta'[k]
    BY <1>1, <2>1, MergeIsSafe
  <2>2. CASE UNCHANGED delta
    BY <1>1, <2>2 DEF TypeOK
  <2>3. \/ \E w \in Workers : MergeBatch(w)
        \/ UNCHANGED delta
    BY <1>1, AnyBatch, QuietSteps DEF SourceStep, targetVars
  <2> QED
    BY <2>1, <2>2, <2>3
<1> QED
  BY <1>1, TypeCorrect, VersionInvariant, PTL DEF Spec, NoStaleOverwrite

(* All rows a query returned are in the Delta table before the checkpoint  *)
(* is touched: the batches of sync_one cover its stream.                   *)
THEOREM Delivery == SafeCommits => (Spec => []SnapshotDelivered)
<1> SUFFICES ASSUME SafeCommits PROVE Spec => []SnapshotDelivered
  OBVIOUS
<1>1. TypeOK /\ VersionInv => SnapshotDelivered
  BY DEF TypeOK, VersionInv, Sound, WellFormed, SnapshotDelivered, Recording
<1> QED
  BY <1>1, TypeCorrect, VersionInvariant, PTL

-----------------------------------------------------------------------------
(* What a step does to the state of one process. *)

(* Only the phase of the run changes, from p to q. *)
Turns(w, p, q) ==
  /\ run[w].pc = p /\ run'[w].pc = q
  /\ run'[w].last = run[w].last
  /\ run'[w].snap = run[w].snap
  /\ run'[w].asOf = run[w].asOf
  /\ run'[w].todo = run[w].todo
  /\ run'[w].batch = run[w].batch
  /\ run'[w].tail = run[w].tail
  /\ run'[w].newest = run[w].newest

(* The run begins with b for its checkpoint. *)
BeginsAt(w, b) ==
  /\ run[w].pc = "idle" /\ run'[w].pc = "open"
  /\ run'[w].last = b
  /\ run'[w].snap = run[w].snap
  /\ run'[w].asOf = run[w].asOf
  /\ run'[w].todo = run[w].todo
  /\ run'[w].batch = run[w].batch
  /\ run'[w].tail = run[w].tail
  /\ run'[w].newest = run[w].newest

(* A process moves nothing but its own state and the tables. *)
LEMMA ActorSteps ==
  ASSUME TypeOK, NEW v \in Workers,
         SyncStep(v) \/ TakesRow(v) \/ CheckpointUnreadable(v) \/ Fault(v)
  PROVE  /\ UNCHANGED sourceVars
         /\ \A w \in Workers \ {v} : run'[w] = run[w]
<1>1. CASE \/ ReadCheckpoint(v) \/ CheckpointUnreadable(v)
           \/ OpenTable(v) \/ CreateTable(v)
           \/ RunQuery(v)
           \/ TakesRow(v)
  BY <1>1 DEF ReadCheckpoint, CheckpointUnreadable, OpenTable, CreateTable,
              RunQuery, TakesRow, TakeRow, TypeOK
<1>2. CASE \/ EndOfStream(v) \/ MergeBatch(v)
           \/ OpenCheckpoint(v) \/ CreateCheckpoint(v)
           \/ CommitCheckpoint(v) \/ Ending(v)
  BY <1>2
     DEF EndOfStream, MergeBatch, OpenCheckpoint, CreateCheckpoint,
         CommitCheckpoint, Ending, LoseCreateRace, MergeConflict,
         NothingToRecord, LoseCheckpointRace, CheckpointConflict, Fault, EndRun,
         TypeOK
<1> QED
  BY <1>1, <1>2, FetchTakes DEF SyncStep, Ending

LEMMA RunCases ==
  ASSUME TypeOK, [Next]_vars, NEW w \in Workers
  PROVE  \/ run'[w] = run[w]
         \/ run'[w] = Idle
         \/ \E b \in {ckpt, NoCheckpoint} : BeginsAt(w, b)
         \/ \E p \in {"open", "create"}, q \in {"query", "create"} : Turns(w, p, q)
         \/ \E p \in {"fetch", "record", "createCheckpoint"},
               q \in {"flush", "record", "createCheckpoint", "commit"} : Turns(w, p, q)
         \/ RunQuery(w)
         \/ \E k \in Keys : FetchRow(w, k)
         \/ MergeBatch(w)
<1>1. run \in [Workers -> RunState] /\ run[w] \in RunState
  BY DEF TypeOK
<1>2. ASSUME ReadCheckpoint(w) \/ CheckpointUnreadable(w)
      PROVE  \E b \in {ckpt, NoCheckpoint} : BeginsAt(w, b)
  <2>1. PICK b \in {ckpt, NoCheckpoint} :
          /\ At(w, "idle")
          /\ run' = [run EXCEPT ![w].pc = "open", ![w].last = b]
    BY <1>2 DEF ReadCheckpoint, CheckpointUnreadable
  <2> QED
    BY <1>1, <2>1 DEF BeginsAt, At, RunState
<1>3. ASSUME OpenTable(w) \/ CreateTable(w)
      PROVE  \E p \in {"open", "create"}, q \in {"query", "create"} : Turns(w, p, q)
  <2>1. PICK q \in {"query", "create"} :
          /\ run[w].pc \in {"open", "create"}
          /\ run' = [run EXCEPT ![w].pc = q]
    BY <1>3 DEF OpenTable, CreateTable, At
  <2> QED
    BY <1>1, <2>1 DEF Turns, RunState
<1>4. ASSUME EndOfStream(w) \/ OpenCheckpoint(w) \/ CreateCheckpoint(w)
      PROVE  \E p \in {"fetch", "record", "createCheckpoint"},
                q \in {"flush", "record", "createCheckpoint", "commit"} : Turns(w, p, q)
  <2>1. PICK q \in {"flush", "record", "createCheckpoint", "commit"} :
          /\ run[w].pc \in {"fetch", "record", "createCheckpoint"}
          /\ run' = [run EXCEPT ![w].pc = q]
    BY <1>4 DEF EndOfStream, AfterStream, OpenCheckpoint, CreateCheckpoint, At
  <2> QED
    BY <1>1, <2>1 DEF Turns, RunState
<1>5. ASSUME CommitCheckpoint(w) \/ Ending(w) PROVE run'[w] = Idle
  BY <1>1, <1>5
     DEF Ending, LoseCreateRace, MergeConflict, NothingToRecord,
         LoseCheckpointRace, CheckpointConflict, Fault, EndRun, CommitCheckpoint
<1>6. ASSUME NEW v \in Workers, v # w,
             SyncStep(v) \/ CheckpointUnreadable(v) \/ Fault(v)
      PROVE  run'[w] = run[w]
  BY <1>6, ActorSteps
<1>7. ASSUME SyncStep(w) \/ CheckpointUnreadable(w) \/ Fault(w)
      PROVE  \/ ReadCheckpoint(w) \/ CheckpointUnreadable(w)
             \/ OpenTable(w) \/ CreateTable(w)
             \/ RunQuery(w)
             \/ \E k \in Keys : FetchRow(w, k)
             \/ EndOfStream(w) \/ MergeBatch(w)
             \/ OpenCheckpoint(w) \/ CreateCheckpoint(w)
             \/ CommitCheckpoint(w) \/ Ending(w)
  BY <1>7 DEF SyncStep, Ending
<1>8. CASE ForceResync \/ SourceStep \/ UNCHANGED vars
  BY <1>8 DEF ForceResync, SourceStep, vars
<1> QED
  BY <1>2, <1>3, <1>4, <1>5, <1>6, <1>7, <1>8 DEF Next

LEMMA AnyRunCases ==
  ASSUME TypeOK, [AnyBatchNext]_vars, NEW w \in Workers
  PROVE  \/ run'[w] = run[w]
         \/ run'[w] = Idle
         \/ \E b \in {ckpt, NoCheckpoint} : BeginsAt(w, b)
         \/ \E p \in {"open", "create"}, q \in {"query", "create"} : Turns(w, p, q)
         \/ \E p \in {"fetch", "record", "createCheckpoint"},
               q \in {"flush", "record", "createCheckpoint", "commit"} : Turns(w, p, q)
         \/ RunQuery(w)
         \/ TakesRow(w)
         \/ MergeBatch(w)
<1>1. ASSUME NEW v \in Workers, v # w, TakesRow(v) PROVE run'[w] = run[w]
  BY <1>1, ActorSteps
<1> QED
  BY <1>1, RunCases, FetchTakes DEF AnyBatchNext

(* The checkpoint moves by a run's commit, or is taken away. *)
LEMMA CheckpointCases ==
  ASSUME [AnyBatchNext]_vars
  PROVE  \/ UNCHANGED ckpt
         \/ ckpt' = NoCheckpoint
         \/ \E w \in Workers : CommitCheckpoint(w)
<1>1. ASSUME NEW w \in Workers,
             \/ ReadCheckpoint(w) \/ CheckpointUnreadable(w)
             \/ OpenTable(w) \/ CreateTable(w)
             \/ RunQuery(w)
             \/ TakesRow(w)
      PROVE  UNCHANGED ckpt
  BY <1>1 DEF ReadCheckpoint, CheckpointUnreadable, OpenTable, CreateTable,
              RunQuery, TakesRow, TakeRow, targetVars
<1>2. ASSUME NEW w \in Workers,
             \/ EndOfStream(w) \/ MergeBatch(w)
             \/ OpenCheckpoint(w) \/ CreateCheckpoint(w)
             \/ Ending(w)
      PROVE  UNCHANGED ckpt
  BY <1>2 DEF EndOfStream, MergeBatch, OpenCheckpoint, CreateCheckpoint,
              Ending, LoseCreateRace, MergeConflict, NothingToRecord,
              LoseCheckpointRace, CheckpointConflict, Fault, targetVars
<1>3. CASE ForceResync \/ SourceStep \/ UNCHANGED vars
  BY <1>3 DEF ForceResync, SourceStep, vars, targetVars
<1> QED
  BY <1>1, <1>2, <1>3, NextCases

-----------------------------------------------------------------------------
(* A query that reads the table as of one moment sees all of it. *)

Started(r) == r.pc \in {"fetch", "merge", "flush",
                        "record", "createCheckpoint", "commit"}

(* Of what was there when it read, a run has everything it asked for. *)
Complete(r) ==
  /\ r.asOf <= writes
  /\ Started(r) => \A k \in Keys : source[k] \in 1 .. r.asOf =>
       \/ r.snap[k] = source[k]
       \/ r.last # NoCheckpoint /\ mark[source[k]] <= r.last

CompleteInv == \A w \in Workers : Complete(run[w])

LEMMA NextCompleteInv ==
  ASSUME TypeOK, CompleteInv, [AnyBatchNext]_vars, NEW w \in Workers
  PROVE  Complete(run[w])'
<1>1. /\ run \in [Workers -> RunState] /\ run[w] \in RunState
      /\ writes \in Nat /\ mark \in [Versions -> Nat]
      /\ source \in [Keys -> 0 .. MaxWrites]
      /\ Complete(run[w])
  BY DEF TypeOK, SourceTypeOK, CompleteInv
<1>2. CASE SourceStep
  <2>1. run' = run
    BY <1>2 DEF SourceStep
  <2>2. ASSUME NEW k \in Keys, source'[k] \in 1 .. run[w].asOf
        PROVE  source'[k] = source[k] /\ mark'[source'[k]] = mark[source[k]]
    BY <1>1, <1>2, <2>2, SourceForward DEF Complete, RunState, Absent
  <2>3. run[w].asOf <= writes'
    BY <1>1, <1>2, SourceForward DEF Complete, RunState
  <2> QED
    BY <1>1, <2>1, <2>2, <2>3 DEF Complete, Started
<1>3. CASE UNCHANGED sourceVars
  <2>1. UNCHANGED <<source, mark, writes>>
    BY <1>3 DEF sourceVars
  <2>2. CASE run'[w] = run[w]
    BY <1>1, <2>1, <2>2 DEF Complete, Started
  <2>3. CASE run'[w] = Idle
    BY <1>1, <2>1, <2>3 DEF Complete, Started, Idle
  <2>4. CASE \/ \E b \in {ckpt, NoCheckpoint} : BeginsAt(w, b)
             \/ \E p \in {"open", "create"}, q \in {"query", "create"} : Turns(w, p, q)
    BY <1>1, <2>1, <2>4 DEF Complete, Started, BeginsAt, Turns
  <2>5. CASE \E p \in {"fetch", "record", "createCheckpoint"},
                q \in {"flush", "record", "createCheckpoint", "commit"} : Turns(w, p, q)
    BY <1>1, <2>1, <2>5 DEF Complete, Started, Turns
  <2>6. CASE RunQuery(w)
    <3>1. /\ run'[w].asOf = writes /\ run'[w].last = run[w].last
          /\ run'[w].snap = [k \in Keys |-> IF k \in Selected(run[w].last)
                                            THEN source[k] ELSE Absent]
      BY <1>1, <2>6 DEF RunQuery, RunState
    <3>2. ASSUME NEW k \in Keys, source[k] \in 1 .. writes
          PROVE  \/ run'[w].snap[k] = source[k]
                 \/ run[w].last # NoCheckpoint /\ mark[source[k]] <= run[w].last
      <4>1. source[k] # Absent /\ source[k] \in Versions
        BY <1>1, <3>2, SourceAssumption DEF Absent, Versions
      <4>2. mark[source[k]] \in Nat /\ run[w].last \in Nat
        BY <1>1, <4>1 DEF RunState
      <4> QED
        BY <3>1, <4>1, <4>2 DEF Selected
    <3> QED
      BY <1>1, <2>1, <3>1, <3>2 DEF Complete
  <2>7. CASE TakesRow(w) \/ MergeBatch(w)
    <3>1. /\ run'[w].asOf = run[w].asOf /\ run'[w].last = run[w].last
          /\ run'[w].snap = run[w].snap /\ Started(run[w])
      <4>1. ASSUME TakesRow(w)
            PROVE  /\ run'[w].asOf = run[w].asOf /\ run'[w].last = run[w].last
                   /\ run'[w].snap = run[w].snap /\ Started(run[w])
        BY <1>1, <4>1 DEF TakesRow, TakeRow, RunState, Started, At
      <4>2. CASE MergeBatch(w)
        BY <1>1, <4>2 DEF MergeBatch, RunState, Started
      <4> QED
        BY <2>7, <4>1, <4>2
    <3> QED
      BY <1>1, <2>1, <3>1 DEF Complete
  <2> QED
    BY <2>2, <2>3, <2>4, <2>5, <2>6, <2>7, AnyRunCases
<1>4. CASE \E v \in Workers : MergeBatch(v)
  BY <1>3, <1>4 DEF MergeBatch
<1> QED
  BY <1>2, <1>3, <1>4, QuietSteps

LEMMA CompleteInvariant == Spec => []CompleteInv
<1>1. Init => CompleteInv
  BY DEF Init, SourceInit, CompleteInv, Complete, Started, Idle
<1>2. TypeOK /\ CompleteInv /\ [Next]_vars => CompleteInv'
  BY NextCompleteInv, AnyBatch DEF CompleteInv
<1> QED
  BY <1>1, <1>2, TypeCorrect, PTL DEF Spec

(* A full re-sync leaves nothing behind, whatever the watermarks are like:  *)
(* the repair operations.md prescribes for rows the watermark missed.      *)
THEOREM Repair == SafeCommits => (Spec => []FullResyncRepairs)
<1> SUFFICES ASSUME SafeCommits PROVE Spec => []FullResyncRepairs
  OBVIOUS
<1>1. ASSUME TypeOK, VersionInv, CompleteInv, NEW w \in Workers, Recording(w),
             run[w].last = NoCheckpoint, NEW k \in Keys,
             source[k] \in 1 .. run[w].asOf
      PROVE  delta[k] = source[k]
  <2>1. /\ Sound(run[w], dirty[w]) /\ WellFormed(run[w]) /\ Complete(run[w])
        /\ run[w] \in RunState
    BY <1>1 DEF TypeOK, VersionInv, CompleteInv
  <2>2. run[w].todo \cup run[w].batch = {} /\ Started(run[w])
    BY <1>1, <2>1 DEF WellFormed, Recording, Started
  <2>3. run[w].snap[k] = source[k] /\ run[w].snap[k] <= delta[k]
    BY <1>1, <2>1, <2>2 DEF Sound, Complete
  <2>4. delta[k] <= source[k] /\ delta[k] \in Nat /\ source[k] \in Nat
    BY <1>1, <2>1 DEF VersionInv, TypeOK, SourceTypeOK, RunState, Absent
  <2> QED
    BY <2>3, <2>4
<1>2. TypeOK /\ VersionInv /\ CompleteInv => FullResyncRepairs
  BY <1>1 DEF FullResyncRepairs
<1> QED
  BY <1>2, TypeCorrect, VersionInvariant, CompleteInvariant, PTL

-----------------------------------------------------------------------------
(* The size of a batch. *)

(* What BatchBounded says of one process. *)
Bounded(r) ==
  /\ Cardinality(r.batch) <= FetchBatchSize
  /\ r.pc = "fetch" => Cardinality(r.batch) < FetchBatchSize

LEMMA EmptyBounded == ASSUME NEW r, r.batch = {} PROVE Bounded(r)
BY SyncAssumption, FS_EmptySet DEF Bounded

LEMMA FetchRowBounded ==
  ASSUME TypeOK, NEW w \in Workers, NEW k \in Keys, FetchRow(w, k), Bounded(run[w])
  PROVE  Bounded(run'[w])
<1> DEFINE b == run[w].batch
           n == Cardinality(b)
           n1 == Cardinality(b \cup {k})
<1>0. TakeRow(w, k, n1)
  BY DEF FetchRow
<1>1. /\ run \in [Workers -> RunState] /\ run[w] \in RunState
      /\ run[w].pc = "fetch" /\ b \subseteq Keys
  BY <1>0 DEF TypeOK, TakeRow, At, RunState
<1>2. run'[w].batch = b \cup {k} /\ run'[w].pc = AfterRow(n1)
  BY <1>0, <1>1 DEF TakeRow, RunState
<1>3. n < FetchBatchSize
  BY <1>1 DEF Bounded
<1>4. n \in Nat /\ n1 \in Nat /\ n1 <= n + 1
  <2>1. IsFiniteSet(b)
    BY <1>1, SyncAssumption, FS_Subset
  <2> HIDE DEF b
  <2>2. n \in Nat /\ (n1 = n \/ n1 = n + 1)
    BY <2>1, FS_CardinalityType, FS_AddElement
  <2> QED
    BY <2>2
<1>5. AfterRow(n1) = "fetch" => n1 < FetchBatchSize
  BY DEF AfterRow
<1> HIDE DEF n, n1, b
<1>6. n1 <= FetchBatchSize
  BY <1>3, <1>4, SyncAssumption
<1> QED
  BY <1>2, <1>5, <1>6 DEF Bounded, n1

LEMMA NextBatchBounded ==
  ASSUME TypeOK, BatchBounded, [Next]_vars
  PROVE  BatchBounded'
<1> SUFFICES ASSUME NEW w \in Workers PROVE Bounded(run'[w])
  BY DEF BatchBounded, Bounded, At
<1>1. /\ run \in [Workers -> RunState] /\ run[w] \in RunState
      /\ WellFormed(run[w]) /\ Bounded(run[w])
  BY DEF TypeOK, BatchBounded, Bounded, At
<1>2. CASE run'[w] = run[w]
  BY <1>1, <1>2
<1>3. CASE run'[w] = Idle
  BY <1>3, EmptyBounded DEF Idle
<1>4. CASE \/ \E b \in {ckpt, NoCheckpoint} : BeginsAt(w, b)
           \/ \E p \in {"open", "create"}, q \in {"query", "create"} : Turns(w, p, q)
  BY <1>1, <1>4 DEF Bounded, BeginsAt, Turns
<1>5. CASE \E p \in {"fetch", "record", "createCheckpoint"},
              q \in {"flush", "record", "createCheckpoint", "commit"} : Turns(w, p, q)
  BY <1>1, <1>5 DEF Bounded, Turns
<1>6. CASE RunQuery(w)
  <2>1. run'[w].batch = {}
    BY <1>1, <1>6 DEF RunQuery, WellFormed, RunState, At
  <2> QED
    BY <2>1, EmptyBounded
<1>7. CASE MergeBatch(w)
  <2>1. run'[w].batch = {}
    BY <1>1, <1>7 DEF MergeBatch, RunState
  <2> QED
    BY <2>1, EmptyBounded
<1> QED
  BY <1>1, <1>2, <1>3, <1>4, <1>5, <1>6, <1>7, FetchRowBounded, RunCases

(* The memory bound of architecture.md, VIII: rows held never exceed the   *)
(* configured batch, and a batch that is full is merged before another row *)
(* is awaited, whatever the sizes of the batch and of the table.           *)
THEOREM BatchesBounded == Spec => []BatchBounded
<1>1. Init => BatchBounded
  BY EmptyBounded DEF Init, Idle, BatchBounded, Bounded, At
<1>2. TypeOK /\ BatchBounded /\ [Next]_vars => BatchBounded'
  BY NextBatchBounded
<1> QED
  BY <1>1, <1>2, TypeCorrect, PTL DEF Spec

-----------------------------------------------------------------------------
(* The order of the stream.  The rows a run has taken are those with the   *)
(* smaller watermarks, its tail is the greatest of these, and its newest   *)
(* is the tail as of its last merge.                                       *)

Ordered(r) ==
  /\ r.pc \in {"idle", "open", "create", "query"} => r.tail = Null
  /\ r.newest <= r.tail
  /\ r.batch = {} => r.newest = r.tail
  /\ r.tail # Null => \E v \in 1 .. writes : r.tail = mark[v]
  /\ \A k \in Keys : r.snap[k] # Absent =>
       /\ r.snap[k] <= writes
       /\ k \in r.todo => r.tail <= mark[r.snap[k]]
       /\ k \notin r.todo => mark[r.snap[k]] <= r.tail
  /\ r.last # NoCheckpoint =>
       /\ r.tail # Null => r.last < r.tail
       /\ \A k \in Keys : r.snap[k] # Absent => r.last < mark[r.snap[k]]

OrderInv ==
  /\ \A k \in Keys : source[k] <= writes
  /\ \A w \in Workers : Ordered(run[w])

LEMMA IdleOrdered == Ordered(Idle)
BY DEF Ordered, Idle, Null, NoCheckpoint

LEMMA InitOrderInv == Init => OrderInv
BY IdleOrdered, SourceAssumption DEF Init, SourceInit, OrderInv, Absent

(* Writes are new versions: the rows a run holds are marked as they were. *)
LEMMA SourceStepOrdered ==
  ASSUME TypeOK, SourceStep, NEW r \in RunState, Ordered(r)
  PROVE  Ordered(r)'
<1>1. writes \in Nat /\ \A k \in Keys : r.snap[k] \in Nat
  BY DEF TypeOK, SourceTypeOK, RunState
<1>2. ASSUME NEW k \in Keys, r.snap[k] # Absent
      PROVE  r.snap[k] <= writes' /\ mark'[r.snap[k]] = mark[r.snap[k]]
  <2>1. r.snap[k] \in 1 .. writes
    BY <1>1, <1>2 DEF Ordered, Absent
  <2> QED
    BY <1>1, <2>1, SourceForward
<1>3. r.tail # Null => \E v \in 1 .. writes' : r.tail = mark'[v]
  <2> SUFFICES ASSUME r.tail # Null PROVE \E v \in 1 .. writes' : r.tail = mark'[v]
    OBVIOUS
  <2>1. PICK v \in 1 .. writes : r.tail = mark[v]
    BY DEF Ordered
  <2>2. v \in 1 .. writes' /\ mark'[v] = mark[v]
    BY <1>1, SourceForward
  <2> QED
    BY <2>1, <2>2
<1> QED
  BY <1>2, <1>3 DEF Ordered

LEMMA SourceBounded ==
  ASSUME TypeOK, OrderInv, [AnyBatchNext]_vars
  PROVE  \A k \in Keys : source'[k] <= writes'
<1>1. /\ writes \in Nat /\ \A k \in Keys : source[k] \in Nat /\ source[k] <= writes
  BY DEF TypeOK, SourceTypeOK, OrderInv
<1>2. CASE UNCHANGED sourceVars
  BY <1>1, <1>2 DEF sourceVars
<1>3. CASE SourceStep
  BY <1>1, <1>3, SourceForward DEF Absent
<1> QED
  BY <1>2, <1>3, QuietSteps DEF MergeBatch

LEMMA RunQueryOrdered ==
  ASSUME TypeOK, OrderInv, NEW w \in Workers, RunQuery(w)
  PROVE  Ordered(run'[w])
<1>1. /\ run \in [Workers -> RunState] /\ run[w] \in RunState
      /\ WellFormed(run[w]) /\ Ordered(run[w]) /\ run[w].pc = "query"
      /\ source \in [Keys -> 0 .. MaxWrites] /\ mark \in [Versions -> Nat]
  BY DEF TypeOK, SourceTypeOK, OrderInv, RunQuery, At
<1>2. /\ run[w].batch = {} /\ run[w].tail = Null /\ run[w].newest = Null
  BY <1>1 DEF WellFormed, Ordered
<1>3. /\ run'[w].snap = [k \in Keys |-> IF k \in Selected(run[w].last)
                                        THEN source[k] ELSE Absent]
      /\ run'[w].todo = Selected(run[w].last) /\ run'[w].batch = {}
      /\ run'[w].tail = Null /\ run'[w].newest = Null
      /\ run'[w].last = run[w].last /\ run'[w].pc = "fetch"
  BY <1>1, <1>2 DEF RunQuery, RunState
<1>4. ASSUME NEW k \in Keys, run'[w].snap[k] # Absent
      PROVE  /\ run'[w].snap[k] = source[k] /\ k \in run'[w].todo
             /\ source[k] <= writes /\ Null <= mark[source[k]]
             /\ run[w].last # NoCheckpoint => run[w].last < mark[source[k]]
  <2>1. k \in Selected(run[w].last) /\ run'[w].snap[k] = source[k]
    BY <1>3, <1>4
  <2>2. mark[source[k]] \in Nat /\ run[w].last \in Nat
    BY <1>1, <2>1, SourceAssumption DEF Selected, RunState, Versions, Absent
  <2> QED
    BY <1>3, <2>1, <2>2 DEF Selected, OrderInv, Null
<1> QED
  BY <1>3, <1>4 DEF Ordered, Null

LEMMA TakeRowOrdered ==
  ASSUME TypeOK, OrderInv, NEW w \in Workers, NEW k \in Keys, NEW rows,
         TakeRow(w, k, rows)
  PROVE  Ordered(run'[w])
<1>1. /\ run \in [Workers -> RunState] /\ run[w] \in RunState
      /\ WellFormed(run[w]) /\ Ordered(run[w]) /\ run[w].pc = "fetch"
      /\ k \in run[w].todo /\ writes \in Nat
  BY DEF TypeOK, SourceTypeOK, OrderInv, TakeRow, NextInOrder, At
<1>2. /\ run'[w].snap = run[w].snap /\ run'[w].last = run[w].last
      /\ run'[w].todo = run[w].todo \ {k} /\ run'[w].batch = run[w].batch \cup {k}
      /\ run'[w].tail = mark[run[w].snap[k]] /\ run'[w].newest = run[w].newest
      /\ run'[w].pc \in {"fetch", "merge"}
  BY <1>1 DEF TakeRow, AfterRow, RunState
<1>3. \A j \in run[w].todo : mark[run[w].snap[k]] <= mark[run[w].snap[j]]
  BY DEF TakeRow, NextInOrder
<1>4. /\ run[w].snap[k] # Absent
      /\ run[w].tail <= mark[run[w].snap[k]] /\ run[w].newest <= run[w].tail
  BY <1>1 DEF WellFormed, Ordered
<1>5. ASSUME NEW j \in Keys, run[w].snap[j] # Absent
      PROVE  /\ run[w].snap[j] \in 1 .. writes /\ mark[run[w].snap[j]] \in Nat
  <2>1. run[w].snap[j] \in 1 .. writes /\ run[w].snap[j] \in Versions
    BY <1>1, <1>5 DEF Ordered, RunState, Versions, Absent
  <2> QED
    BY <2>1 DEF TypeOK, SourceTypeOK
<1>6. /\ mark[run[w].snap[k]] \in Nat /\ run[w].tail \in Nat /\ run[w].newest \in Nat
      /\ run[w].last \in Nat
  BY <1>1, <1>4, <1>5 DEF RunState
<1>7. run'[w].newest <= run'[w].tail
  BY <1>2, <1>4, <1>6
<1>8. ASSUME NEW j \in Keys, run'[w].snap[j] # Absent
      PROVE  /\ run'[w].snap[j] <= writes
             /\ j \in run'[w].todo => run'[w].tail <= mark[run'[w].snap[j]]
             /\ j \notin run'[w].todo => mark[run'[w].snap[j]] <= run'[w].tail
  <2>1. CASE j = k
    BY <1>1, <1>2, <1>4, <1>6, <2>1 DEF Ordered
  <2>2. CASE j # k
    <3>1. /\ mark[run[w].snap[j]] \in Nat /\ run[w].snap[j] <= writes
          /\ j \notin run[w].todo => mark[run[w].snap[j]] <= run[w].tail
      BY <1>1, <1>2, <1>5, <1>8 DEF Ordered
    <3> QED
      BY <1>2, <1>3, <1>4, <1>6, <2>2, <3>1
  <2> QED
    BY <2>1, <2>2
<1>9. run'[w].last # NoCheckpoint =>
        /\ run'[w].last < run'[w].tail
        /\ \A j \in Keys : run'[w].snap[j] # Absent => run'[w].last < mark[run'[w].snap[j]]
  BY <1>1, <1>2, <1>4 DEF Ordered
<1>10. run'[w].tail = mark[run[w].snap[k]] /\ run[w].snap[k] \in 1 .. writes
  BY <1>2, <1>4, <1>5
<1> QED
  BY <1>2, <1>7, <1>8, <1>9, <1>10 DEF Ordered

LEMMA MergeBatchOrdered ==
  ASSUME TypeOK, OrderInv, NEW w \in Workers, MergeBatch(w)
  PROVE  Ordered(run'[w])
<1>1. /\ run \in [Workers -> RunState] /\ run[w] \in RunState
      /\ Ordered(run[w])
  BY DEF TypeOK, OrderInv
<1>2. /\ run'[w].snap = run[w].snap /\ run'[w].last = run[w].last
      /\ run'[w].todo = run[w].todo /\ run'[w].tail = run[w].tail
      /\ run'[w].newest = NewestAfter(w)
      /\ run'[w].pc \in {"fetch", "record"}
  BY <1>1 DEF MergeBatch, RunState
<1>3. NewestAfter(w) = run[w].tail
  BY <1>1 DEF NewestAfter, Ordered, RunState, Null
<1>4. run[w].tail <= run[w].tail
  BY <1>1 DEF RunState
<1> QED
  BY <1>1, <1>2, <1>3, <1>4 DEF Ordered

LEMMA RunOrdered ==
  ASSUME TypeOK, OrderInv, [AnyBatchNext]_vars, NEW w \in Workers
  PROVE  Ordered(run'[w])
<1>1. /\ run[w] \in RunState /\ WellFormed(run[w]) /\ Ordered(run[w])
  BY DEF TypeOK, OrderInv
<1>2. CASE run'[w] = run[w]
  BY <1>1, <1>2
<1>3. CASE run'[w] = Idle
  BY <1>3, IdleOrdered
<1>4. CASE \E b \in {ckpt, NoCheckpoint} : BeginsAt(w, b)
  BY <1>1, <1>4 DEF Ordered, BeginsAt, WellFormed, Idle
<1>5. CASE \E p \in {"open", "create"}, q \in {"query", "create"} : Turns(w, p, q)
  BY <1>1, <1>5 DEF Ordered, Turns
<1>6. CASE \E p \in {"fetch", "record", "createCheckpoint"},
              q \in {"flush", "record", "createCheckpoint", "commit"} : Turns(w, p, q)
  BY <1>1, <1>6 DEF Ordered, Turns
<1>7. CASE TakesRow(w)
  BY <1>7, TakeRowOrdered DEF TakesRow
<1> QED
  BY <1>2, <1>3, <1>4, <1>5, <1>6, <1>7, RunQueryOrdered, MergeBatchOrdered,
     AnyRunCases

LEMMA NextOrderInv ==
  ASSUME TypeOK, OrderInv, [AnyBatchNext]_vars
  PROVE  OrderInv'
<1>1. ASSUME NEW w \in Workers PROVE Ordered(run[w])'
  <2>1. run' \in [Workers -> RunState] /\ Ordered(run'[w])
    BY NextTypeOK, RunOrdered DEF TypeOK
  <2>2. CASE SourceStep
    <3>1. run' = run
      BY <2>2 DEF SourceStep
    <3> QED
      BY <2>1, <2>2, <3>1, SourceStepOrdered DEF Ordered
  <2>3. CASE UNCHANGED sourceVars
    BY <2>1, <2>3 DEF Ordered, sourceVars
  <2> QED
    BY <2>2, <2>3, QuietSteps DEF MergeBatch
<1> QED
  BY <1>1, SourceBounded DEF OrderInv

LEMMA OrderInvariant == Spec => []OrderInv
<1>1. TypeOK /\ OrderInv /\ [Next]_vars => OrderInv'
  BY NextOrderInv, AnyBatch
<1> QED
  BY InitOrderInv, <1>1, TypeCorrect, PTL DEF Spec

LEMMA OrderedNewest == TypeOK /\ OrderInv => NewestIsGreatest
<1> SUFFICES ASSUME TypeOK, OrderInv, NEW w \in Workers, Recording(w),
                    NEW k \in Keys, run[w].snap[k] # Absent
             PROVE  mark[run[w].snap[k]] <= run[w].newest
  BY DEF NewestIsGreatest
<1>1. /\ WellFormed(run[w]) /\ Ordered(run[w])
  BY DEF TypeOK, OrderInv
<1>2. run[w].todo = {} /\ run[w].batch = {}
  BY <1>1 DEF WellFormed, Recording
<1> QED
  BY <1>1, <1>2 DEF Ordered

(* The value a run records is the greatest watermark of all the rows it    *)
(* fetched, ties, late and NULL watermarks included (newest_watermark in   *)
(* sync_one, which looks only at the last row of each batch).              *)
THEOREM NewestRecorded == Spec => []NewestIsGreatest
BY OrderedNewest, OrderInvariant, TypeCorrect, PTL

-----------------------------------------------------------------------------
(* One process: the checkpoint is still what the run resumed from. *)

OneProcess == \A u, v \in Workers : u = v

ResumeInv ==
  \A w \in Workers :
    run[w].pc # "idle" /\ run[w].last # NoCheckpoint => ckpt \in {NoCheckpoint, run[w].last}

LEMMA NextResumeInv ==
  ASSUME OneProcess, TypeOK, ResumeInv, [AnyBatchNext]_vars
  PROVE  ResumeInv'
<1> SUFFICES ASSUME NEW w \in Workers, run'[w].pc # "idle", run'[w].last # NoCheckpoint
             PROVE  ckpt' \in {NoCheckpoint, run'[w].last}
  BY DEF ResumeInv
<1>1. run \in [Workers -> RunState] /\ run[w] \in RunState
  BY DEF TypeOK
<1>2. ckpt' \in {ckpt, NoCheckpoint}
  <2>1. ASSUME NEW v \in Workers, CommitCheckpoint(v) PROVE FALSE
    <3>1. v = w
      BY DEF OneProcess
    <3>2. run'[w] = Idle
      BY <1>1, <2>1, <3>1 DEF CommitCheckpoint
    <3> QED
      BY <3>2 DEF Idle
  <2> QED
    BY <2>1, CheckpointCases
<1>3. run'[w] # Idle
  BY DEF Idle
<1>4. \/ run'[w].last \in {ckpt, NoCheckpoint}
      \/ run'[w].last = run[w].last /\ run[w].pc # "idle"
  <2>1. CASE run'[w] = run[w]
    BY <2>1
  <2>2. CASE \/ \E b \in {ckpt, NoCheckpoint} : BeginsAt(w, b)
             \/ \E p \in {"open", "create"}, q \in {"query", "create"} : Turns(w, p, q)
             \/ \E p \in {"fetch", "record", "createCheckpoint"},
                   q \in {"flush", "record", "createCheckpoint", "commit"} : Turns(w, p, q)
    BY <2>2 DEF BeginsAt, Turns
  <2>3. CASE RunQuery(w)
    BY <1>1, <2>3 DEF RunQuery, RunState, At
  <2>4. ASSUME TakesRow(w)
        PROVE  run'[w].last = run[w].last /\ run[w].pc # "idle"
    BY <1>1, <2>4 DEF TakesRow, TakeRow, RunState, At
  <2>5. CASE MergeBatch(w)
    BY <1>1, <2>5 DEF MergeBatch, RunState
  <2> QED
    BY <1>3, <2>1, <2>2, <2>3, <2>4, <2>5, AnyRunCases
<1> QED
  BY <1>2, <1>4 DEF ResumeInv

(* A step that moves the checkpoint back was asked to, or comes of a run   *)
(* that had none to start from.                                            *)
LEMMA CheckpointAdvances ==
  ASSUME TypeOK, OrderInv, ResumeInv, [AnyBatchNext]_vars, ckpt' < ckpt
  PROVE  \/ ckpt' = NoCheckpoint
         \/ \E w \in Workers : At(w, "commit") /\ run[w].last = NoCheckpoint
<1> SUFFICES ASSUME ckpt' # NoCheckpoint
             PROVE  \E w \in Workers : At(w, "commit") /\ run[w].last = NoCheckpoint
  OBVIOUS
<1>1. ckpt \in Nat
  BY DEF TypeOK
<1>2. PICK w \in Workers : CommitCheckpoint(w)
  BY <1>1, CheckpointCases
<1>3. /\ run[w] \in RunState /\ WellFormed(run[w]) /\ Ordered(run[w])
      /\ At(w, "commit") /\ run[w].pc = "commit" /\ ckpt' = run[w].newest
  BY <1>2 DEF TypeOK, OrderInv, CommitCheckpoint, At
<1>4. run[w].newest = run[w].tail
  BY <1>3 DEF WellFormed, Ordered
<1>5. /\ run[w].last \in Nat /\ run[w].newest \in Nat
  BY <1>3 DEF RunState
<1>6. run[w].last = NoCheckpoint
  <2> SUFFICES ASSUME run[w].last # NoCheckpoint PROVE FALSE
    OBVIOUS
  <2>1. run[w].last < run[w].newest
    BY <1>3, <1>4 DEF Ordered, NoCheckpoint, Null
  <2>2. ckpt \in {NoCheckpoint, run[w].last}
    BY <1>3 DEF ResumeInv
  <2> QED
    BY <1>1, <1>3, <1>5, <2>1, <2>2 DEF NoCheckpoint
<1> QED
  BY <1>3, <1>6

(* With one process the checkpoint moves back only when an operator or an  *)
(* unreadable checkpoint made a run start from nothing, though             *)
(* checkpoint::advance never looks at the value it replaces.               *)
THEOREM OnlyAdvances == OneProcess => (Spec => CheckpointOnlyAdvances)
<1> SUFFICES ASSUME OneProcess PROVE Spec => CheckpointOnlyAdvances
  OBVIOUS
<1>1. Init => ResumeInv
  BY DEF Init, ResumeInv, Idle
<1>2. TypeOK /\ ResumeInv /\ [Next]_vars => ResumeInv'
  BY NextResumeInv, AnyBatch
<1>3. TypeOK /\ OrderInv /\ ResumeInv /\ [Next]_vars =>
        [ckpt' < ckpt => \/ ckpt' = NoCheckpoint
                         \/ \E w \in Workers : /\ At(w, "commit")
                                               /\ run[w].last = NoCheckpoint]_vars
  BY CheckpointAdvances, AnyBatch
<1> QED
  BY <1>1, <1>2, <1>3, OrderInvariant, TypeCorrect, PTL
     DEF Spec, CheckpointOnlyAdvances

-----------------------------------------------------------------------------
(* What a checkpoint covers, among a set S of rows: all of them here, and  *)
(* fewer for a query that reads a moving table.                            *)

(* The watermark contract: every write carries a new greatest watermark,   *)
(* or none at all.                                                         *)
StrictMarks == Departures \subseteq {"null"}

(* Watermarks are handed out in the order of the writes. *)
MarksInv ==
  /\ \A v \in 1 .. writes : mark[v] <= clock
  /\ \A u, v \in 1 .. writes : u < v /\ mark[v] # Null => mark[u] < mark[v]

(* A checkpoint at b would be right. *)
Covers(S, b) == \A k \in S : InReach(k, b) => delta[k] = source[k]

Marked(k) == source[k] # Absent /\ mark[source[k]] # Null

(* The run has row k as it is, or did not ask for it. *)
Known(r, k) ==
  \/ r.snap[k] = source[k]
  \/ r.last # NoCheckpoint /\ mark[source[k]] <= r.last

(* Row k is beyond all the run has asked for, and left to the next one. *)
Later(r, k) ==
  /\ r.tail < mark[source[k]]
  /\ \A j \in Keys : r.snap[j] # Absent => mark[r.snap[j]] < mark[source[k]]

(* What a run carries from one checkpoint to the next. *)
Carried(S, r) ==
  /\ r.last <= clock /\ Covers(S, r.last)
  /\ Started(r) => \A k \in S : Marked(k) => Known(r, k) \/ Later(r, k)

CoverInv(S) ==
  /\ MarksInv
  /\ ckpt <= clock /\ Covers(S, ckpt)
  /\ \A w \in Workers : Carried(S, run[w])

LEMMA CoversIsCovered == \A b \in Nat : Covers(Keys, b) <=> Abs!Covered(b)
BY DEF Covers, InReach, Abs!Covered, Abs!InReach, Absent, Abs!Absent

LEMMA NothingInReach == \A S : Covers(S, 0)
BY DEF Covers, InReach

LEMMA InitCoverInv == ASSUME Init, NEW S PROVE CoverInv(S)
<1>1. MarksInv /\ clock = 0 /\ ckpt = 0
  BY DEF Init, SourceInit, MarksInv, NoCheckpoint
<1>2. Carried(S, Idle)
  BY <1>1, NothingInReach DEF Carried, Idle, NoCheckpoint, Started
<1> QED
  BY <1>1, <1>2, NothingInReach DEF CoverInv, Init

-----------------------------------------------------------------------------
(* The source moves. *)

LEMMA WriteMarks ==
  ASSUME StrictMarks, TypeOK, MarksInv, NEW k \in Keys, Write(k)
  PROVE  /\ MarksInv' /\ clock <= clock' /\ clock' \in Nat
         /\ \A v \in 1 .. writes : mark'[v] = mark[v]
         /\ mark'[source'[k]] = Null \/ clock < mark'[source'[k]]
         /\ \A j \in Keys \ {k} : source'[j] = source[j]
<1>1. PICK m \in NextMarks :
        /\ mark' = [mark EXCEPT ![writes + 1] = m]
        /\ clock' = IF m > clock THEN m ELSE clock
  BY DEF Write
<1>2. m = clock + 1 \/ m = Null
  BY <1>1 DEF NextMarks, StrictMarks
<1>3. /\ writes' = writes + 1 /\ writes + 1 \in Versions /\ writes \in Nat
      /\ clock \in Nat /\ mark \in [Versions -> Nat]
      /\ source' = [source EXCEPT ![k] = writes + 1]
      /\ source \in [Keys -> 0 .. MaxWrites] /\ MaxWrites \in Nat
  BY SourceAssumption DEF Write, TypeOK, SourceTypeOK, Versions
<1>4. /\ \A v \in 1 .. writes : v \in Versions /\ mark'[v] = mark[v]
      /\ mark'[writes + 1] = m
  BY <1>1, <1>3 DEF Versions
<1>5. /\ clock <= clock' /\ clock' \in Nat
      /\ m <= clock'
      /\ m # Null => clock < m
  BY <1>1, <1>2, <1>3 DEF Null
<1>6. \A v \in 1 .. writes + 1 : mark'[v] <= clock'
  <2> SUFFICES ASSUME NEW v \in 1 .. writes + 1 PROVE mark'[v] <= clock'
    OBVIOUS
  <2>1. CASE v = writes + 1
    BY <2>1, <1>4, <1>5
  <2>2. CASE v \in 1 .. writes
    <3>1. mark[v] <= clock /\ mark[v] \in Nat
      BY <2>2, <1>3, <1>4 DEF MarksInv
    <3> QED
      BY <3>1, <2>2, <1>3, <1>4, <1>5
  <2> QED
    BY <2>1, <2>2, <1>3
<1>7. ASSUME NEW u \in 1 .. writes + 1, NEW v \in 1 .. writes + 1, u < v,
             mark'[v] # Null
      PROVE  mark'[u] < mark'[v]
  <2>1. u \in 1 .. writes
    BY <1>3, <1>7
  <2>2. mark[u] \in Nat /\ mark[u] <= clock /\ mark'[u] = mark[u]
    BY <2>1, <1>3, <1>4 DEF MarksInv
  <2>3. CASE v = writes + 1
    BY <2>2, <2>3, <1>2, <1>3, <1>4, <1>5, <1>7
  <2>4. CASE v \in 1 .. writes
    BY <2>1, <2>2, <2>4, <1>4, <1>7 DEF MarksInv
  <2> QED
    BY <2>3, <2>4, <1>3
<1>8. MarksInv'
  BY <1>3, <1>6, <1>7 DEF MarksInv
<1> QED
  BY <1>3, <1>4, <1>5, <1>8

(* A row is as it was, or gone, or beyond every watermark handed out so far. *)
LEMMA SourceStrict ==
  ASSUME StrictMarks, TypeOK, MarksInv, SourceStep
  PROVE  /\ MarksInv' /\ clock <= clock' /\ clock' \in Nat
         /\ \A v \in 1 .. writes : mark'[v] = mark[v]
         /\ \A k \in Keys : \/ source'[k] = source[k]
                            \/ source'[k] = Absent
                            \/ mark'[source'[k]] = Null
                            \/ clock < mark'[source'[k]]
<1>1. CASE \E k \in Keys : Write(k)
  BY <1>1, WriteMarks
<1>2. CASE \E k \in Keys : Delete(k)
  <2>1. PICK k \in Keys : Delete(k)
    BY <1>2
  <2>2. UNCHANGED <<mark, writes, clock>> /\ source' = [source EXCEPT ![k] = Absent]
    BY <2>1 DEF Delete
  <2>3. MarksInv' /\ clock <= clock' /\ clock' \in Nat
    BY <2>2 DEF MarksInv, TypeOK, SourceTypeOK
  <2>4. \A j \in Keys : source'[j] = source[j] \/ source'[j] = Absent
    BY <2>2 DEF TypeOK, SourceTypeOK
  <2> QED
    BY <2>2, <2>3, <2>4
<1> QED
  BY <1>1, <1>2 DEF SourceStep, SourceNext

(* Rows that are there are versions written, marked within the clock. *)
LEMMA WrittenMarks ==
  ASSUME TypeOK, OrderInv, MarksInv
  PROVE  /\ \A k \in Keys : source[k] # Absent =>
              /\ source[k] \in 1 .. writes
              /\ mark[source[k]] \in Nat /\ mark[source[k]] <= clock
         /\ \A w \in Workers : \A k \in Keys : run[w].snap[k] # Absent =>
              /\ run[w].snap[k] \in 1 .. writes
              /\ mark[run[w].snap[k]] \in Nat /\ mark[run[w].snap[k]] <= clock
         /\ \A w \in Workers : run[w].tail \in Nat /\ run[w].tail <= clock
<1>1. /\ writes \in 0 .. MaxWrites /\ MaxWrites \in Nat /\ clock \in Nat
      /\ mark \in [Versions -> Nat]
  BY SourceAssumption DEF TypeOK, SourceTypeOK
<1>2. ASSUME NEW v \in 0 .. MaxWrites, v <= writes, v # Absent
      PROVE  v \in 1 .. writes /\ mark[v] \in Nat /\ mark[v] <= clock
  BY <1>1, <1>2 DEF MarksInv, Versions, Absent
<1>3. \A k \in Keys : source[k] \in 0 .. MaxWrites /\ source[k] <= writes
  BY DEF TypeOK, SourceTypeOK, OrderInv
<1>4. \A w \in Workers : \A k \in Keys :
        /\ run[w].snap[k] \in 0 .. MaxWrites
        /\ run[w].snap[k] # Absent => run[w].snap[k] <= writes
  BY DEF TypeOK, RunState, OrderInv, Ordered
<1>5. \A w \in Workers : run[w].tail \in Nat /\ run[w].tail <= clock
  BY <1>1 DEF TypeOK, RunState, OrderInv, Ordered, MarksInv, Null
<1> QED
  BY <1>2, <1>3, <1>4, <1>5

(* A write takes its row beyond the reach of every bound handed out before *)
(* it; the rows may become those of T when what T adds to S was written.   *)
LEMMA SourceStepCovers ==
  ASSUME StrictMarks, TypeOK, OrderInv, MarksInv, SourceStep,
         NEW S \in SUBSET Keys, NEW T \in SUBSET Keys,
         \A k \in T \ S : source'[k] # source[k],
         NEW b \in Nat, b <= clock, Covers(S, b)
  PROVE  Covers(T, b)'
<1> SUFFICES ASSUME NEW k \in T, InReach(k, b)' PROVE delta'[k] = source'[k]
  BY DEF Covers
<1>1. delta' = delta /\ clock \in Nat
  BY DEF SourceStep, targetVars, TypeOK, SourceTypeOK
<1>2. source'[k] # Absent /\ mark'[source'[k]] \in 1 .. b
  BY DEF InReach
<1>3. source'[k] = source[k]
  BY <1>1, <1>2, SourceStrict DEF Null
<1>4. k \in S /\ source[k] \in 1 .. writes
  BY <1>2, <1>3, WrittenMarks
<1>5. mark'[source'[k]] = mark[source[k]]
  BY <1>3, <1>4, SourceStrict
<1>6. InReach(k, b)
  BY <1>2, <1>3, <1>5 DEF InReach
<1> QED
  BY <1>1, <1>3, <1>4, <1>6 DEF Covers

LEMMA SourceStepCarried ==
  ASSUME StrictMarks, TypeOK, OrderInv, MarksInv, SourceStep,
         NEW S \in SUBSET Keys, NEW T \in SUBSET Keys,
         \A k \in T \ S : source'[k] # source[k],
         NEW w \in Workers, Carried(S, run[w])
  PROVE  Carried(T, run[w])'
<1>1. /\ run' = run /\ clock \in Nat /\ run[w].last \in Nat
      /\ clock <= clock' /\ clock' \in Nat
  BY SourceStrict DEF SourceStep, TypeOK, SourceTypeOK, RunState
<1>2. run[w].last <= clock' /\ Covers(T, run[w].last)'
  <2>1. run[w].last <= clock /\ Covers(S, run[w].last)
    BY DEF Carried
  <2>2. PICK b \in Nat : b = run[w].last
    BY <1>1
  <2>3. Covers(T, b)'
    BY <2>1, <2>2, SourceStepCovers
  <2> QED
    BY <1>1, <2>1, <2>2, <2>3 DEF Covers, InReach
<1>3. ASSUME Started(run[w]), NEW k \in T, Marked(k)'
      PROVE  (Known(run[w], k) \/ Later(run[w], k))'
  <2>1. \A j \in Keys : run[w].snap[j] # Absent =>
          /\ mark'[run[w].snap[j]] = mark[run[w].snap[j]]
          /\ mark[run[w].snap[j]] \in Nat /\ mark[run[w].snap[j]] <= clock
    BY WrittenMarks, SourceStrict
  <2>0. run[w].tail \in Nat /\ run[w].tail <= clock
    BY WrittenMarks
  <2>2. CASE source'[k] = source[k]
    <3>1. k \in S /\ source[k] \in 1 .. writes
      BY <1>3, <2>2, WrittenMarks DEF Marked
    <3>2. mark'[source'[k]] = mark[source[k]]
      BY <2>2, <3>1, SourceStrict
    <3>3. Known(run[w], k) \/ Later(run[w], k)
      BY <1>3, <2>2, <3>1, <3>2 DEF Carried, Marked
    <3> QED
      BY <1>1, <2>1, <2>2, <3>2, <3>3 DEF Known, Later
  <2>3. CASE source'[k] # source[k]
    <3>1. clock < mark'[source'[k]]
      BY <1>3, <2>3, SourceStrict DEF Marked
    <3>2. mark'[source'[k]] \in Nat
      BY <1>3, SourceStepType, SourceAssumption, SMTT(30)
         DEF Marked, TypeOK, SourceTypeOK, Versions, Absent
    <3> QED
      BY <1>1, <2>0, <2>1, <3>1, <3>2 DEF Later
  <2> QED
    BY <2>2, <2>3
<1>4. Started(run[w])' => Started(run[w])
  BY <1>1 DEF Started
<1> QED
  BY <1>1, <1>2, <1>3, <1>4 DEF Carried

-----------------------------------------------------------------------------
(* The steps of the runs. *)

(* Whatever is merged, what was covered stays so. *)
LEMMA StableCovers ==
  ASSUME SafeCommits, TypeOK, VersionInv, [AnyBatchNext]_vars, UNCHANGED sourceVars,
         NEW S \in SUBSET Keys, NEW b, Covers(S, b)
  PROVE  Covers(S, b)'
<1>1. UNCHANGED <<source, mark>>
  BY DEF sourceVars
<1>2. CASE UNCHANGED delta
  BY <1>1, <1>2 DEF Covers, InReach
<1>3. CASE \E w \in Workers : MergeBatch(w)
  <2>1. PICK w \in Workers : MergeBatch(w)
    BY <1>3
  <2>2. \A k \in Keys : /\ delta[k] \in Nat /\ delta'[k] \in Nat /\ source[k] \in Nat
                        /\ delta[k] <= delta'[k]
                        /\ source[k] # Absent => delta'[k] <= source[k]
    BY <2>1, MergeIsSafe, MergeBatchType DEF TypeOK, SourceTypeOK
  <2>3. \A k \in Keys : source[k] # Absent /\ delta[k] = source[k] => delta'[k] = source[k]
    BY <2>2
  <2> QED
    BY <1>1, <2>3 DEF Covers, InReach
<1> QED
  BY <1>2, <1>3, QuietSteps DEF SourceStep, targetVars

(* In the state it moves to, a run carries what it should: of the source   *)
(* as the step finds it here, and, below, as the step leaves it.           *)
LEMMA NextCarried ==
  ASSUME TypeOK, OrderInv, NEW S \in SUBSET Keys, CoverInv(S), [AnyBatchNext]_vars,
         NEW w \in Workers
  PROVE  Carried(S, run'[w])
<1>1. /\ run \in [Workers -> RunState] /\ run[w] \in RunState
      /\ Carried(S, run[w])
      /\ clock \in Nat /\ writes \in Nat
  BY DEF TypeOK, SourceTypeOK, CoverInv
<1>2. CASE run'[w] = run[w]
  BY <1>1, <1>2
<1>3. CASE run'[w] = Idle
  BY <1>1, <1>3, NothingInReach DEF Carried, Idle, NoCheckpoint, Started
<1>4. CASE \E b \in {ckpt, NoCheckpoint} : BeginsAt(w, b)
  <2>1. PICK b \in {ckpt, NoCheckpoint} : BeginsAt(w, b)
    BY <1>4
  <2>2. b <= clock /\ Covers(S, b)
    BY <1>1, <2>1, NothingInReach DEF CoverInv, NoCheckpoint
  <2> QED
    BY <2>1, <2>2 DEF Carried, BeginsAt, Started
<1>5. CASE \E p \in {"open", "create"}, q \in {"query", "create"} : Turns(w, p, q)
  BY <1>1, <1>5 DEF Carried, Turns, Started
<1>6. CASE \E p \in {"fetch", "record", "createCheckpoint"},
              q \in {"flush", "record", "createCheckpoint", "commit"} : Turns(w, p, q)
  BY <1>1, <1>6 DEF Carried, Turns, Started, Known, Later
<1>7. CASE RunQuery(w)
  <2>1. /\ run'[w].last = run[w].last
        /\ run'[w].snap = [k \in Keys |-> IF k \in Selected(run[w].last)
                                          THEN source[k] ELSE Absent]
    BY <1>1, <1>7 DEF RunQuery, RunState
  <2>2. ASSUME NEW k \in S, Marked(k) PROVE Known(run'[w], k)
    <3>1. k \in Keys /\ source[k] # Absent
      BY <2>2 DEF Marked
    <3>2. mark[source[k]] \in Nat /\ run[w].last \in Nat
      BY <1>1, <3>1, WrittenMarks DEF RunState, CoverInv
    <3> QED
      BY <2>1, <3>1, <3>2 DEF Known, Selected
  <2> QED
    BY <1>1, <2>1, <2>2 DEF Carried
<1>8. ASSUME TakesRow(w) PROVE Carried(S, run'[w])
  <2>1. PICK j \in Keys : \E rows : TakeRow(w, j, rows)
    BY <1>8 DEF TakesRow
  <2>2. /\ run'[w].last = run[w].last /\ run'[w].snap = run[w].snap
        /\ run'[w].tail = mark[run[w].snap[j]] /\ j \in run[w].todo
        /\ Started(run[w])
    BY <1>1, <2>1 DEF TakeRow, NextInOrder, RunState, Started, At
  <2>3. run[w].snap[j] # Absent
    BY <2>2 DEF TypeOK, WellFormed
  <2> QED
    BY <1>1, <2>2, <2>3 DEF Carried, Known, Later
<1>9. CASE MergeBatch(w)
  <2>1. /\ run'[w].last = run[w].last /\ run'[w].snap = run[w].snap
        /\ run'[w].tail = run[w].tail /\ Started(run[w])
    BY <1>1, <1>9 DEF MergeBatch, RunState, Started
  <2> QED
    BY <1>1, <2>1 DEF Carried, Known, Later
<1> QED
  BY <1>2, <1>3, <1>4, <1>5, <1>6, <1>7, <1>8, <1>9, AnyRunCases

(* What a run that is recording carries is right to record. *)
LEMMA NewestCovers ==
  ASSUME TypeOK, VersionInv, OrderInv, NEW S \in SUBSET Keys, CoverInv(S),
         NEW w \in Workers, At(w, "commit")
  PROVE  run[w].newest <= clock /\ Covers(S, run[w].newest)
<1>1. /\ run[w] \in RunState /\ WellFormed(run[w]) /\ Ordered(run[w])
      /\ Sound(run[w], dirty[w]) /\ Carried(S, run[w]) /\ MarksInv
  BY DEF TypeOK, VersionInv, OrderInv, CoverInv
<1>2. /\ Started(run[w]) /\ run[w].todo = {} /\ run[w].batch = {}
      /\ clock \in Nat /\ run[w].newest \in Nat /\ run[w].last \in Nat
  BY <1>1 DEF At, Started, WellFormed, TypeOK, SourceTypeOK, RunState
<1>3. CASE run[w].newest = Null
  BY <1>2, <1>3, NothingInReach DEF Null
<1>4. CASE run[w].newest # Null
  <2>1. run[w].newest <= run[w].tail
    BY <1>1 DEF Ordered
  <2>2. run[w].tail \in Nat /\ run[w].tail <= clock
    BY <1>1, WrittenMarks
  <2>3. run[w].newest <= clock
    BY <1>2, <2>1, <2>2
  <2>4. ASSUME NEW k \in S, InReach(k, run[w].newest)
        PROVE  delta[k] = source[k]
    <3>1. /\ source[k] # Absent /\ mark[source[k]] \in 1 .. run[w].newest
          /\ Marked(k) /\ k \in Keys
      BY <2>4 DEF InReach, Marked, Null
    <3>2. /\ source[k] \in Nat /\ delta[k] \in Nat /\ delta[k] <= source[k]
      BY <3>1 DEF TypeOK, SourceTypeOK, VersionInv
    <3>3. CASE run[w].snap[k] = source[k]
      <4>1. run[w].snap[k] <= delta[k]
        BY <1>1, <1>2, <3>1 DEF Sound
      <4> QED
        BY <4>1, <3>2, <3>3
    <3>4. CASE run[w].last # NoCheckpoint /\ mark[source[k]] <= run[w].last
      <4>1. InReach(k, run[w].last)
        BY <1>2, <3>1, <3>4 DEF InReach
      <4> QED
        BY <4>1, <1>1 DEF Carried, Covers
    <3>5. CASE Later(run[w], k)
      BY <1>2, <2>1, <2>2, <3>1, <3>5 DEF Later
    <3> QED
      BY <1>1, <1>2, <3>1, <3>3, <3>4, <3>5 DEF Carried, Known
  <2> QED
    BY <2>3, <2>4 DEF Covers
<1> QED
  BY <1>3, <1>4

(* The checkpoint moves to a bound that is covered, or stays. *)
LEMMA NextCheckpoint ==
  ASSUME TypeOK, VersionInv, OrderInv, NEW S \in SUBSET Keys, CoverInv(S), [AnyBatchNext]_vars
  PROVE  ckpt' <= clock /\ Covers(S, ckpt')
<1>1. ckpt <= clock /\ Covers(S, ckpt) /\ clock \in Nat
  BY DEF CoverInv, TypeOK, SourceTypeOK
<1>2. CASE UNCHANGED ckpt
  BY <1>1, <1>2
<1>3. ASSUME NEW w \in Workers, CommitCheckpoint(w)
      PROVE  ckpt' <= clock /\ Covers(S, ckpt')
  BY <1>3, NewestCovers DEF CommitCheckpoint
<1>4. CASE ckpt' = NoCheckpoint
  BY <1>1, <1>4, NothingInReach DEF NoCheckpoint
<1> QED
  BY <1>2, <1>3, <1>4, CheckpointCases

(* What is covered stays so: of the rows S of before, and of those an      *)
(* application has written in the step besides.                            *)
LEMMA NextCoverInv ==
  ASSUME SafeCommits, StrictMarks, TypeOK, VersionInv, OrderInv,
         NEW S \in SUBSET Keys, NEW T \in SUBSET Keys, CoverInv(S), [AnyBatchNext]_vars,
         T = S \/ (SourceStep /\ \A k \in T \ S : source'[k] # source[k])
  PROVE  CoverInv(T)'
<1>1. clock \in Nat /\ ckpt \in Nat /\ ckpt <= clock /\ Covers(S, ckpt) /\ MarksInv
  BY DEF TypeOK, SourceTypeOK, CoverInv
<1>2. CASE SourceStep
  <2>1. \A k \in T \ S : source'[k] # source[k]
    OBVIOUS
  <2>2. MarksInv' /\ clock <= clock' /\ clock' \in Nat /\ ckpt' = ckpt
    BY <1>1, <1>2, SourceStrict DEF SourceStep, targetVars
  <2>3. \A w \in Workers : Carried(T, run[w])'
    BY <1>1, <1>2, <2>1, SourceStepCarried DEF CoverInv
  <2>4. Covers(T, ckpt)'
    <3>1. PICK b \in Nat : b = ckpt
      BY <1>1
    <3>2. Covers(T, b)'
      BY <1>1, <1>2, <2>1, <3>1, SourceStepCovers
    <3> QED
      BY <2>2, <3>1, <3>2 DEF Covers, InReach
  <2>5. ckpt' <= clock'
    BY <1>1, <2>2
  <2> QED
    BY <2>2, <2>3, <2>4, <2>5 DEF CoverInv
<1>3. CASE UNCHANGED sourceVars /\ T = S
  <2>1. UNCHANGED <<source, mark, writes, clock>>
    BY <1>3 DEF sourceVars
  <2>2. MarksInv'
    BY <1>1, <2>1 DEF MarksInv
  <2>3. \A b : Covers(S, b) => Covers(S, b)'
    BY <1>3, StableCovers
  <2>4. ckpt' <= clock /\ Covers(S, ckpt')
    BY NextCheckpoint
  <2>5. Covers(S, ckpt)'
    <3>1. PICK b : b = ckpt'
      OBVIOUS
    <3>2. Covers(S, b)'
      BY <2>3, <2>4, <3>1
    <3> QED
      BY <3>1, <3>2 DEF Covers, InReach
  <2>6. ASSUME NEW w \in Workers PROVE Carried(S, run[w])'
    <3>1. Carried(S, run'[w])
      BY NextCarried
    <3>2. PICK b : b = run'[w].last
      OBVIOUS
    <3>3. Covers(S, b)'
      BY <2>3, <3>1, <3>2 DEF Carried
    <3>4. Covers(S, run[w].last)'
      BY <3>2, <3>3 DEF Covers, InReach
    <3> QED
      BY <2>1, <3>1, <3>4 DEF Carried, Started, Marked, Known, Later
  <2> QED
    BY <1>3, <2>1, <2>2, <2>4, <2>5, <2>6 DEF CoverInv
<1> QED
  BY <1>2, <1>3, QuietSteps DEF MergeBatch

LEMMA CoverInvariant == SafeCommits /\ StrictMarks => (Spec => []CoverInv(Keys))
<1> SUFFICES ASSUME SafeCommits, StrictMarks PROVE Spec => []CoverInv(Keys)
  OBVIOUS
<1>1. Init => CoverInv(Keys)
  BY InitCoverInv
<1>2. TypeOK /\ VersionInv /\ OrderInv /\ CoverInv(Keys) /\ [Next]_vars => CoverInv(Keys)'
  BY NextCoverInv, AnyBatch
<1> QED
  BY <1>1, <1>2, TypeCorrect, VersionInvariant, OrderInvariant, PTL DEF Spec

-----------------------------------------------------------------------------
(* What follows for the checkpoint. *)

(* Every source row the checkpoint has passed is in the Delta table as it  *)
(* is at the source, so that no run needs to select it again, however many *)
(* runs overlapped, failed or read the checkpoint wrongly (the order of    *)
(* merge::upsert and checkpoint::advance in sync_one).                     *)
THEOREM NoneLost == SafeCommits /\ StrictMarks => (Spec => []NoRowLost)
<1> SUFFICES ASSUME SafeCommits, StrictMarks PROVE Spec => []NoRowLost
  OBVIOUS
<1>1. TypeOK /\ CoverInv(Keys) => NoRowLost
  BY CoversIsCovered DEF TypeOK, CoverInv, NoRowLost
<1> QED
  BY <1>1, TypeCorrect, CoverInvariant, PTL

(* A merge is one of the moves the contract allows. *)
LEMMA MergeAdvances ==
  ASSUME SafeCommits, TypeOK, VersionInv, NEW w \in Workers, MergeBatch(w)
  PROVE  Abs!Advance
<1>1. \A k \in Keys : /\ delta'[k] \in Nat /\ delta[k] <= delta'[k]
                      /\ delta'[k] <= writes
                      /\ source[k] # Absent => delta'[k] <= source[k]
  BY MergeIsSafe, MergeBatchType DEF TypeOK
<1>2. delta' \in [Keys -> 0 .. writes]
  BY <1>1, MergeBatchType DEF TypeOK, SourceTypeOK
<1>3. UNCHANGED <<source, mark, writes, clock, ckpt>>
  BY DEF MergeBatch, sourceVars
<1> QED
  BY <1>1, <1>2, <1>3 DEF Abs!Advance, Absent, Abs!Absent

(* The actions of the source are the same ones in both specifications. *)
LEMMA SourceStepMoves ==
  ASSUME SourceStep
  PROVE  Abs!SourceMoves
BY DEF SourceStep, SourceNext, Write, Delete, NextMarks, targetVars,
       Abs!SourceMoves, Abs!SourceNext, Abs!Write, Abs!Delete, Abs!NextMarks,
       Absent, Abs!Absent, Null, Abs!Null

(* A step of the sync is a move of the replica, a claim or neither. *)
LEMMA StepRefines ==
  ASSUME SafeCommits, TypeOK, VersionInv, OrderInv, CoverInv(Keys), [AnyBatchNext]_vars
  PROVE  [Abs!ReplicaNext]_(Abs!replicaVars)
<1>1. ckpt' \in 0 .. clock /\ Abs!Covered(ckpt')
  <2>1. ckpt' <= clock /\ Covers(Keys, ckpt') /\ ckpt' \in Nat
    BY NextCheckpoint, NextTypeOK DEF TypeOK
  <2> QED
    BY <2>1, CoversIsCovered DEF TypeOK, SourceTypeOK
<1>2. CASE UNCHANGED <<sourceVars, delta>>
  BY <1>1, <1>2 DEF sourceVars, Abs!Claim, Abs!ReplicaNext
<1> QED
  BY <1>2, QuietSteps, MergeAdvances, SourceStepMoves DEF Abs!ReplicaNext

(* The sync implements what a replica with a claim promises, with the Delta *)
(* table for the replica and the checkpoint for the claim: rows only move   *)
(* forward, and the checkpoint moves, forward or back, only to a value      *)
(* whose rows are all merged (checkpoint::advance compares nothing).        *)
THEOREM Refinement == SafeCommits /\ StrictMarks => (Spec => ImplementsReplica)
<1> SUFFICES ASSUME SafeCommits, StrictMarks PROVE Spec => ImplementsReplica
  OBVIOUS
<1>1. Init => Abs!ReplicaInit
  BY DEF Init, SourceInit, NoCheckpoint, Absent, Null, Versions,
         Abs!ReplicaInit, Abs!SourceInit, Abs!Absent, Abs!Null, Abs!Versions
<1>2. TypeOK /\ VersionInv /\ OrderInv /\ CoverInv(Keys) /\ [Next]_vars => [Abs!ReplicaNext]_(Abs!replicaVars)
  BY StepRefines, AnyBatch
<1> QED
  BY <1>1, <1>2, TypeCorrect, VersionInvariant, OrderInvariant, CoverInvariant, PTL
     DEF Spec, ImplementsReplica, Abs!ReplicaSpec

-----------------------------------------------------------------------------
(* Deadlines.  A run that is given up fails where the faults of TableSync  *)
(* may strike, and a server that falls silent changes nothing.             *)

LEMMA ExpireIsFault ==
  ASSUME NEW w \in Workers, Expire(w)
  PROVE  Fault(w)
BY DEF Expire, Fault, Timed, At

(* A sync whose awaits have deadlines behaves as TableSync allows: all that *)
(* is proved of Spec holds of it (pipeline::with_timeout gives up a run     *)
(* wherever it is, between any two batches).                                *)
THEOREM DeadlinesAreFaults == DeadlineSpec => Spec
<1>1. DeadlineInit => Init
  BY DEF DeadlineInit
<1>2. [DeadlineNext]_deadlineVars => [Next]_vars
  BY ExpireIsFault DEF DeadlineNext, deadlineVars, Answered, FallSilent, Next
<1> QED
  BY <1>1, <1>2, PTL DEF DeadlineSpec, Spec

(* In particular giving up loses no row, whichever await is given up, and  *)
(* the table and its checkpoint stay what the abstract replica may become. *)
THEOREM DeadlinesLoseNothing ==
  SafeCommits /\ StrictMarks => (DeadlineSpec => []NoRowLost /\ ImplementsReplica)
<1> SUFFICES ASSUME SafeCommits, StrictMarks
             PROVE  DeadlineSpec => []NoRowLost /\ ImplementsReplica
  OBVIOUS
<1>1. Spec => []NoRowLost
  BY NoneLost
<1>2. Spec => ImplementsReplica
  BY Refinement
<1> QED
  BY <1>1, <1>2, DeadlinesAreFaults, PTL
=============================================================================
