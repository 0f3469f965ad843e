--------------------------- MODULE LiveScanProofs ---------------------------
(***************************************************************************)
(* Proofs about LiveScan: what TableSync keeps it keeps too, though its    *)
(* queries read a table that moves, and what a query that read around the  *)
(* writes of applications still cannot lose.                               *)
(***************************************************************************)
EXTENDS LiveScan, TableSyncProofs

-----------------------------------------------------------------------------
(* The steps. *)

(* Those of the server that change what the run has of the answer. *)
Answers(w) ==
  \/ BeginSort(w) \/ EndSort(w) \/ BeginIndex(w)
  \/ \E k \in Keys : ReadAlongIndex(w, k) \/ ReadAgain(w, k)

(* A run's own steps are those of TableSync, whenever its batch is full. *)
LEMMA RunStepCases ==
  ASSUME NEW w \in Workers, RunStep(w)
  PROVE  /\ SyncStep(w) \/ TakesRow(w)
         /\ SyncStep(w) \/ \E k \in Keys : TakeRow(w, k, RowsInBatch(w) + 1)
         /\ Keeping(w) /\ ~Awaits(w)
         /\ AnyBatchNext
<1>1. SyncStep(w) \/ \E k \in Keys : TakeRow(w, k, RowsInBatch(w) + 1)
  BY DEF RunStep, CrowdedStep, SyncStep
<1>2. SyncStep(w) \/ TakesRow(w)
  BY <1>1 DEF TakesRow
<1> QED
  BY <1>1, <1>2 DEF RunStep, AnyBatchNext, Next

(* All others are steps of TableSync, or of no concern to it. *)
LEMMA ScanCases ==
  ASSUME [ScanNext]_scanVars
  PROVE  [AnyBatchNext]_vars \/ \E w \in Workers : Answers(w)
<1>1. ASSUME NEW w \in Workers, EndIndex(w) \/ \E k \in Keys : VisitForSort(w, k)
      PROVE  UNCHANGED vars
  BY <1>1 DEF EndIndex, VisitForSort
<1>2. ASSUME NEW w \in Workers, ScanStep(w) PROVE UNCHANGED vars \/ Answers(w)
  BY <1>1, <1>2 DEF ScanStep, Answers
<1>3. ASSUME NEW w \in Workers, CheckpointUnreadable(w) \/ Fault(w)
      PROVE  AnyBatchNext
  BY <1>3 DEF AnyBatchNext, Next
<1>4. CASE ForceResync \/ Underneath \/ UNCHANGED scanVars
  BY <1>4 DEF Underneath, AnyBatchNext, Next, scanVars
<1> QED
  BY <1>2, <1>3, <1>4, RunStepCases DEF ScanNext

(* Nothing but the answer changes. *)
LEMMA AnswerFrame ==
  ASSUME ScanTypeOK, NEW w \in Workers, Answers(w)
  PROVE  /\ UNCHANGED <<source, mark, writes, clock, sourceVars>>
         /\ UNCHANGED <<delta, deltaExists, ckpt, ckptExists, targetVars>>
         /\ UNCHANGED <<dirty, ckptStale, doubled, moved>>
         /\ repeated \subseteq repeated' /\ repeated' \subseteq Keys
         /\ \A v \in Workers \ {w} :
              run'[v] = run[v] /\ scan'[v] = scan[v] /\ spare'[v] = spare[v]
<1>1. /\ run \in [Workers -> RunState] /\ scan \in [Workers -> ScanState]
      /\ spare \in [Workers -> SUBSET (Keys \X Versions)]
      /\ repeated \subseteq Keys
  BY DEF ScanTypeOK, TypeOK
<1>2. CASE BeginSort(w) \/ BeginIndex(w)
  BY <1>1, <1>2 DEF BeginSort, BeginIndex, sourceVars, targetVars, copyVars
<1>3. CASE EndSort(w) \/ \E k \in Keys : ReadAlongIndex(w, k)
  BY <1>1, <1>3 DEF EndSort, ReadAlongIndex, PassOn, sourceVars, targetVars, copyVars
<1>4. CASE \E k \in Keys : ReadAgain(w, k)
  BY <1>1, <1>4 DEF ReadAgain, PassOn, sourceVars, targetVars
<1> QED
  BY <1>2, <1>3, <1>4 DEF Answers

(* The run goes from phase p to q, with the rows taken so far as they are. *)
Goes(w, p, q) ==
  /\ run[w].pc = p /\ run'[w].pc = q
  /\ run'[w].last = run[w].last
  /\ run'[w].batch = run[w].batch
  /\ run'[w].tail = run[w].tail
  /\ run'[w].newest = run[w].newest

(* The answer is as it was. *)
Unanswered(w) ==
  /\ run'[w].snap = run[w].snap
  /\ run'[w].todo = run[w].todo

LEMMA BeginSortFields ==
  ASSUME ScanTypeOK, NEW w \in Workers, BeginSort(w)
  PROVE  /\ Goes(w, "query", "query") /\ Unanswered(w) /\ run'[w].asOf = writes
         /\ scan[w].plan = "none" /\ scan'[w].plan = "sort"
         /\ scan'[w].found = scan[w].found /\ scan'[w].passed = scan[w].passed
         /\ scan'[w].at = scan[w].at
<1>1. run \in [Workers -> RunState] /\ scan \in [Workers -> ScanState]
  BY DEF ScanTypeOK, TypeOK
<1> QED
  BY <1>1 DEF BeginSort, RunState, ScanState, At, Reads, Goes, Unanswered

LEMMA BeginIndexFields ==
  ASSUME ScanTypeOK, NEW w \in Workers, BeginIndex(w)
  PROVE  /\ Goes(w, "query", "fetch") /\ Unanswered(w) /\ run'[w].asOf = writes
         /\ scan[w].plan = "none" /\ scan'[w].plan = "index"
         /\ scan'[w].found = scan[w].found /\ scan'[w].at = run[w].last
         /\ scan'[w].passed = IF run[w].last = NoCheckpoint THEN {} ELSE Keys
<1>1. run \in [Workers -> RunState] /\ scan \in [Workers -> ScanState]
  BY DEF ScanTypeOK, TypeOK
<1> QED
  BY <1>1 DEF BeginIndex, RunState, ScanState, At, Reads, Goes, Unanswered

LEMMA EndSortFields ==
  ASSUME ScanTypeOK, NEW w \in Workers, EndSort(w)
  PROVE  /\ Goes(w, "query", "fetch") /\ run'[w].asOf = run[w].asOf
         /\ run'[w].snap = scan[w].found
         /\ run'[w].todo = {k \in Keys : scan[w].found[k] # Absent}
         /\ scan[w].plan = "sort" /\ scan[w].passed = Keys /\ scan'[w] = NoScan
<1>1. run \in [Workers -> RunState] /\ scan \in [Workers -> ScanState]
  BY DEF ScanTypeOK, TypeOK
<1>2. run[w].pc = "query"
  BY DEF ScanTypeOK, EndSort, Reads, At
<1> QED
  BY <1>1, <1>2 DEF EndSort, RunState, Reads, Goes

(* The server has come to row k of an index. *)
ComesTo(w, k) ==
  /\ NextInIndex(w, k)
  /\ run'[w].last = run[w].last /\ run'[w].asOf = run[w].asOf
  /\ scan[w].plan = "index" /\ scan'[w].plan = "index"
  /\ scan'[w].found = scan[w].found /\ scan'[w].at = mark[source[k]]
  /\ scan'[w].passed = IF mark[source[k]] = scan[w].at
                       THEN scan[w].passed \cup {k} ELSE {k}

LEMMA PassOnFields ==
  ASSUME ScanTypeOK, NEW w \in Workers, NEW k \in Keys, NextInIndex(w, k), PassOn(w, k),
         run'[w].last = run[w].last, run'[w].asOf = run[w].asOf
  PROVE  ComesTo(w, k) /\ run[w].pc \in {"fetch", "merge"}
<1>1. scan \in [Workers -> ScanState] /\ scan[w].plan = "index"
  BY DEF ScanTypeOK, NextInIndex, Reads
<1> QED
  BY <1>1 DEF ScanTypeOK, PassOn, ScanState, Reads, ComesTo

LEMMA ReadAlongFields ==
  ASSUME ScanTypeOK, NEW w \in Workers, NEW k \in Keys, ReadAlongIndex(w, k)
  PROVE  /\ \E p \in {"fetch", "merge"} : Goes(w, p, p)
         /\ run'[w].snap = [run[w].snap EXCEPT ![k] = source[k]]
         /\ run'[w].todo = run[w].todo \cup {k}
         /\ k \notin run[w].todo \cup run[w].batch
         /\ ComesTo(w, k)
<1>1. run \in [Workers -> RunState]
  BY DEF ScanTypeOK, TypeOK
<1>2. /\ run'[w].last = run[w].last /\ run'[w].asOf = run[w].asOf
      /\ Goes(w, run[w].pc, run[w].pc)
  BY <1>1 DEF ReadAlongIndex, RunState, Goes
<1>3. ComesTo(w, k) /\ run[w].pc \in {"fetch", "merge"}
  BY <1>2, PassOnFields DEF ReadAlongIndex
<1> QED
  BY <1>1, <1>2, <1>3 DEF ReadAlongIndex, RunState

LEMMA ReadAgainFields ==
  ASSUME ScanTypeOK, NEW w \in Workers, NEW k \in Keys, ReadAgain(w, k)
  PROVE  /\ run[w].pc = "fetch" /\ run'[w].pc \in {"fetch", "merge"}
         /\ run'[w].pc = AfterRow(RowsInBatch(w) + 1)
         /\ run'[w].batch = run[w].batch /\ run'[w].newest = run[w].newest
         /\ run[w].todo = {} /\ run'[w].todo = {} /\ k \in run[w].batch
         /\ run'[w].tail = mark[source[k]]
         /\ \E kept \in {run[w].snap[k], source[k]} :
              /\ run'[w].snap = [run[w].snap EXCEPT ![k] = kept]
              /\ \E other \in {run[w].snap[k], source[k]} :
                   spare'[w] = spare[w] \cup {<<k, other>>}
         /\ ComesTo(w, k) /\ k \in repeated'
<1>1. /\ run \in [Workers -> RunState]
      /\ spare \in [Workers -> SUBSET (Keys \X Versions)]
  BY DEF ScanTypeOK, TypeOK
<1>2. PICK kept \in {run[w].snap[k], source[k]} :
        /\ run' = [run EXCEPT
             ![w].pc = AfterRow(RowsInBatch(w) + 1),
             ![w].snap[k] = kept,
             ![w].tail = mark[source[k]]]
        /\ \E other \in {run[w].snap[k], source[k]} :
             spare' = [spare EXCEPT ![w] = @ \cup {<<k, other>>}]
  BY DEF ReadAgain
<1>3. /\ run'[w].pc = AfterRow(RowsInBatch(w) + 1)
      /\ run'[w].last = run[w].last /\ run'[w].asOf = run[w].asOf
      /\ run'[w].batch = run[w].batch /\ run'[w].newest = run[w].newest
      /\ run'[w].todo = run[w].todo /\ run'[w].tail = mark[source[k]]
      /\ run'[w].snap = [run[w].snap EXCEPT ![k] = kept]
  BY <1>1, <1>2 DEF RunState
<1>4. /\ run[w].pc = "fetch" /\ run[w].todo = {} /\ k \in run[w].batch
      /\ k \in repeated'
  BY DEF ReadAgain, At
<1>5. run'[w].pc \in {"fetch", "merge"}
  BY <1>3 DEF AfterRow
<1>6. ComesTo(w, k)
  BY <1>3, PassOnFields DEF ReadAgain
<1> QED
  BY <1>1, <1>2, <1>3, <1>4, <1>5, <1>6

(* What a step does to one process and to its query. *)
LEMMA ScanRunCases ==
  ASSUME ScanTypeOK, [ScanNext]_scanVars, NEW w \in Workers
  PROVE  \/ run'[w] = run[w] /\ scan'[w] = scan[w]
         \/ run'[w] = Idle /\ scan'[w] = NoScan
         \/ Reads(w, "none") /\ scan'[w] = scan[w] /\ [AnyBatchNext]_vars
         \/ /\ Reads(w, "index") /\ scan'[w] = scan[w]
            /\ TakesRow(w) \/ (MergeBatch(w) /\ At(w, "merge"))
         \/ BeginSort(w) \/ EndSort(w) \/ BeginIndex(w) \/ EndIndex(w)
         \/ \E k \in Keys : VisitForSort(w, k) \/ ReadAlongIndex(w, k) \/ ReadAgain(w, k)
<1>1. /\ run \in [Workers -> RunState] /\ scan \in [Workers -> ScanState]
      /\ TypeOK
      /\ Reads(w, "none") \/ Reads(w, "sort") \/ Reads(w, "index")
      /\ Reads(w, "sort") => At(w, "query")
      /\ Reads(w, "index") => run[w].pc \in {"fetch", "merge"}
  BY DEF ScanTypeOK, TypeOK, ScanState, Reads
<1>2. ASSUME NEW v \in Workers, v # w, ScanStep(v)
      PROVE  run'[w] = run[w] /\ scan'[w] = scan[w]
  <2>1. CASE Answers(v)
    BY <1>2, <2>1, AnswerFrame
  <2>2. CASE EndIndex(v) \/ \E k \in Keys : VisitForSort(v, k)
    BY <1>1, <1>2, <2>2 DEF EndIndex, VisitForSort, vars
  <2> QED
    BY <1>2, <2>1, <2>2 DEF ScanStep, Answers
<1>3. ASSUME NEW v \in Workers, v # w, Keeping(v),
             SyncStep(v) \/ TakesRow(v) \/ CheckpointUnreadable(v) \/ Fault(v)
      PROVE  run'[w] = run[w] /\ scan'[w] = scan[w]
  <2>1. run'[w] = run[w]
    BY <1>1, <1>3, ActorSteps
  <2>2. scan'[w] = scan[w]
    BY <1>1, <1>3 DEF Keeping
  <2> QED
    BY <2>1, <2>2
<1>5. CASE (ForceResync /\ UNCHANGED <<scan, copyVars>>) \/ Underneath \/ UNCHANGED scanVars
  BY <1>5 DEF ForceResync, Underneath, SourceStep, scanVars, vars
<1>6. ASSUME RunStep(w) \/ ((CheckpointUnreadable(w) \/ Fault(w)) /\ Keeping(w))
      PROVE  \/ run'[w] = Idle /\ scan'[w] = NoScan
             \/ Reads(w, "none") /\ scan'[w] = scan[w] /\ [AnyBatchNext]_vars
             \/ /\ Reads(w, "index") /\ scan'[w] = scan[w]
                /\ TakesRow(w) \/ (MergeBatch(w) /\ At(w, "merge"))
  <2>1. /\ SyncStep(w) \/ TakesRow(w) \/ CheckpointUnreadable(w) \/ Fault(w)
        /\ Keeping(w) /\ AnyBatchNext
    BY <1>6, RunStepCases DEF AnyBatchNext, Next
  <2>2. CASE CommitCheckpoint(w) \/ Ending(w)
    <3>1. run'[w] = Idle
      BY <1>1, <2>2
         DEF Ending, LoseCreateRace, MergeConflict, NothingToRecord,
             LoseCheckpointRace, CheckpointConflict, Fault, EndRun, CommitCheckpoint
    <3>2. run'[w].pc = "idle"
      BY <3>1 DEF Idle
    <3>3. scan'[w] = NoScan
      BY <1>1, <2>1, <3>2 DEF Keeping
    <3> QED
      BY <3>1, <3>3
  <2>3. CASE /\ \/ ReadCheckpoint(w) \/ CheckpointUnreadable(w)
                \/ OpenTable(w) \/ CreateTable(w) \/ RunQuery(w)
                \/ TakesRow(w)
                \/ EndOfStream(w) \/ MergeBatch(w)
                \/ OpenCheckpoint(w) \/ CreateCheckpoint(w)
             /\ ~(CommitCheckpoint(w) \/ Ending(w))
    <3>1. run'[w].pc # "idle"
      <4>1. CASE \/ ReadCheckpoint(w) \/ CheckpointUnreadable(w)
                 \/ OpenTable(w) \/ CreateTable(w)
        BY <1>1, <4>1 DEF ReadCheckpoint, CheckpointUnreadable, OpenTable,
                          CreateTable, RunState
      <4>5. CASE RunQuery(w)
        BY <1>1, <4>5 DEF RunQuery, RunState
      <4>2. CASE TakesRow(w)
        BY <1>1, <4>2 DEF TakesRow, TakeRow, AfterRow, RunState
      <4>3. CASE EndOfStream(w) \/ OpenCheckpoint(w) \/ CreateCheckpoint(w)
        BY <1>1, <4>3 DEF EndOfStream, AfterStream, OpenCheckpoint, CreateCheckpoint,
                          RunState
      <4>4. CASE MergeBatch(w)
        BY <1>1, <4>4 DEF MergeBatch, RunState
      <4> QED
        BY <2>3, <4>1, <4>2, <4>3, <4>4, <4>5
    <3>2. scan'[w] = scan[w]
      BY <2>1, <3>1 DEF Keeping
    <3>3. CASE ~Reads(w, "none")
      <4>1. RunStep(w) /\ ~Awaits(w)
        <5>1. ~CheckpointUnreadable(w) /\ ~Fault(w)
          BY <1>1, <2>3, <3>3 DEF At, CheckpointUnreadable, Ending
        <5> QED
          BY <1>6, <5>1, RunStepCases
      <4>2. ~Reads(w, "sort")
        BY <1>1, <3>3, <4>1 DEF Awaits, At
      <4>3. Reads(w, "index") /\ run[w].pc \in {"fetch", "merge"} /\ ~EndOfStream(w)
        <5>1. Reads(w, "index") /\ run[w].pc \in {"fetch", "merge"}
          BY <1>1, <3>3, <4>2
        <5>2. ASSUME EndOfStream(w) PROVE Awaits(w)
          <6>1. At(w, "fetch") /\ run[w].todo = {}
            BY <5>2 DEF EndOfStream
          <6> QED
            BY <3>3, <6>1 DEF Awaits, At
        <5> QED
          BY <4>1, <5>1, <5>2
      <4>4. /\ ~ReadCheckpoint(w) /\ ~CheckpointUnreadable(w)
            /\ ~OpenTable(w) /\ ~CreateTable(w) /\ ~RunQuery(w)
            /\ ~OpenCheckpoint(w) /\ ~CreateCheckpoint(w)
        BY <4>3 DEF ReadCheckpoint, CheckpointUnreadable, OpenTable, CreateTable,
                    RunQuery, OpenCheckpoint, CreateCheckpoint, At
      <4>5. MergeBatch(w) => At(w, "merge")
        BY <4>3 DEF MergeBatch, At
      <4> QED
        BY <2>3, <3>2, <4>3, <4>4, <4>5
    <3> QED
      BY <2>1, <3>2, <3>3
  <2> QED
    BY <2>1, <2>2, <2>3, FetchTakes DEF SyncStep, Ending
<1> QED
  BY <1>2, <1>3, <1>5, <1>6, RunStepCases DEF ScanNext, ScanStep
-----------------------------------------------------------------------------
(* Type correctness. *)

(* A process that reads no table has no trace of an earlier query. *)
ScanFresh == \A w \in Workers : Reads(w, "none") => scan[w] = NoScan

LEMMA NoScanType == NoScan \in ScanState
BY SourceAssumption DEF NoScan, ScanState, Absent, Null

LEMMA InitScanTypeOK == ScanInit => ScanTypeOK /\ ScanFresh
<1> SUFFICES ASSUME ScanInit PROVE ScanTypeOK /\ ScanFresh
  OBVIOUS
<1>1. /\ TypeOK /\ scan = [w \in Workers |-> NoScan]
      /\ spare = [w \in Workers |-> {}]
      /\ doubled = {} /\ moved = {} /\ repeated = {}
  BY InitTypeOK DEF ScanInit
<1> QED
  BY <1>1, NoScanType DEF ScanTypeOK, ScanFresh, NoScan, Reads, Several

LEMMA AnswerType ==
  ASSUME ScanTypeOK, NEW w \in Workers, Answers(w)
  PROVE  TypeOK'
<1>1. /\ run \in [Workers -> RunState] /\ run[w] \in RunState /\ WellFormed(run[w])
      /\ source \in [Keys -> 0 .. MaxWrites] /\ writes \in 0 .. MaxWrites
      /\ scan \in [Workers -> ScanState] /\ scan[w] \in ScanState
  BY DEF ScanTypeOK, TypeOK, SourceTypeOK
<1>2. PICK r \in RunState : WellFormed(r) /\ run' = [run EXCEPT ![w] = r]
  <2>1. CASE BeginSort(w)
    <3> DEFINE r == [run[w] EXCEPT !.asOf = writes]
    <3>1. r \in RunState /\ WellFormed(r)
      BY <1>1 DEF RunState, WellFormed
    <3>2. run' = [run EXCEPT ![w] = r]
      BY <1>1, <2>1 DEF BeginSort, RunState
    <3> QED
      BY <3>1, <3>2
  <2>2. CASE BeginIndex(w)
    <3> DEFINE r == [run[w] EXCEPT !.pc = "fetch", !.asOf = writes]
    <3>1. r \in RunState /\ WellFormed(r)
      BY <1>1, <2>2 DEF BeginIndex, RunState, WellFormed, Phases, At
    <3>2. run' = [run EXCEPT ![w] = r]
      BY <1>1, <2>2 DEF BeginIndex, RunState
    <3> QED
      BY <3>1, <3>2
  <2>3. CASE EndSort(w)
    <3> DEFINE r == [run[w] EXCEPT !.pc = "fetch", !.snap = scan[w].found,
                       !.todo = {k \in Keys : scan[w].found[k] # Absent}]
    <3>1. run[w].pc = "query" /\ scan[w].found \in [Keys -> 0 .. MaxWrites]
      BY <1>1, <2>3 DEF ScanTypeOK, EndSort, Reads, At, ScanState
    <3>2. r \in RunState
      BY <1>1, <3>1 DEF RunState, Phases
    <3>3. WellFormed(r)
      BY <1>1, <3>1 DEF RunState, WellFormed
    <3>4. run' = [run EXCEPT ![w] = r]
      BY <1>1, <2>3 DEF EndSort, RunState
    <3> QED
      BY <3>2, <3>3, <3>4
  <2>4. ASSUME NEW k \in Keys, ReadAlongIndex(w, k)
        PROVE  \E r \in RunState : WellFormed(r) /\ run' = [run EXCEPT ![w] = r]
    <3> DEFINE snap == [run[w].snap EXCEPT ![k] = source[k]]
               r == [run[w] EXCEPT !.snap = snap, !.todo = @ \cup {k}]
    <3>1. /\ run[w].pc \in {"fetch", "merge"} /\ source[k] # Absent
          /\ k \notin run[w].batch
      BY <2>4 DEF ScanTypeOK, ReadAlongIndex, NextInIndex, Ahead, Reads
    <3>2. snap \in [Keys -> 0 .. MaxWrites] /\ \A j \in Keys : snap[j] =
            IF j = k THEN source[k] ELSE run[w].snap[j]
      BY <1>1 DEF RunState
    <3> HIDE DEF snap
    <3>3. r \in RunState
      BY <1>1, <3>2 DEF RunState
    <3>4. WellFormed(r)
      BY <1>1, <3>1, <3>2 DEF RunState, WellFormed
    <3>5. run' = [run EXCEPT ![w] = r]
      BY <1>1, <2>4 DEF ReadAlongIndex, RunState, snap
    <3> QED
      BY <3>3, <3>4, <3>5
  <2>5. ASSUME NEW k \in Keys, ReadAgain(w, k)
        PROVE  \E r \in RunState : WellFormed(r) /\ run' = [run EXCEPT ![w] = r]
    <3>1. PICK kept \in {run[w].snap[k], source[k]} :
            run' = [run EXCEPT
              ![w].pc = AfterRow(RowsInBatch(w) + 1),
              ![w].snap[k] = kept,
              ![w].tail = mark[source[k]]]
      BY <2>5 DEF ReadAgain
    <3>2. /\ run[w].pc = "fetch" /\ source[k] # Absent
          /\ run[w].todo = {} /\ k \in run[w].batch /\ run[w].snap[k] # Absent
      BY <1>1, <2>5 DEF ReadAgain, NextInIndex, Ahead, At, WellFormed
    <3>3. mark[source[k]] \in Nat
      BY <1>1, <3>2 DEF ScanTypeOK, TypeOK, SourceTypeOK, Absent, Versions
    <3> DEFINE snap == [run[w].snap EXCEPT ![k] = kept]
               p == AfterRow(RowsInBatch(w) + 1)
               r == [run[w] EXCEPT !.pc = p, !.snap = snap, !.tail = mark[source[k]]]
    <3>4. snap \in [Keys -> 0 .. MaxWrites] /\ \A j \in Keys : snap[j] =
            IF j = k THEN kept ELSE run[w].snap[j]
      BY <1>1, <3>1 DEF RunState
    <3>5. p \in {"fetch", "merge"}
      BY DEF AfterRow
    <3>6. run' = [run EXCEPT ![w] = r]
      BY <1>1, <3>1 DEF RunState
    <3> HIDE DEF snap, p
    <3>7. r \in RunState
      BY <1>1, <3>3, <3>4, <3>5 DEF RunState, Phases
    <3>8. WellFormed(r)
      BY <1>1, <3>1, <3>2, <3>4, <3>5 DEF RunState, WellFormed
    <3> QED
      BY <3>6, <3>7, <3>8
  <2> QED
    BY <2>1, <2>2, <2>3, <2>4, <2>5 DEF Answers
<1>3. /\ run' \in [Workers -> RunState]
      /\ \A v \in Workers : WellFormed(run'[v])
  BY <1>2, RunMoves DEF ScanTypeOK
<1> QED
  BY <1>3, AnswerFrame DEF ScanTypeOK, TypeOK, SourceTypeOK

LEMMA NextScanType ==
  ASSUME ScanTypeOK, [ScanNext]_scanVars
  PROVE  TypeOK'
BY ScanCases, AnswerType, NextTypeOK DEF ScanTypeOK

(* The state of one query. *)
LEMMA ScanStateType ==
  ASSUME ScanTypeOK, ScanFresh, [ScanNext]_scanVars, NEW w \in Workers
  PROVE  /\ scan'[w] \in ScanState
         /\ scan'[w].plan = "none" => scan'[w] = NoScan
         /\ scan'[w].plan = "sort" => run'[w].pc = "query"
         /\ scan'[w].plan = "index" => run'[w].pc \in {"fetch", "merge"}
<1>1. /\ run \in [Workers -> RunState] /\ scan \in [Workers -> ScanState]
      /\ run[w] \in RunState /\ scan[w] \in ScanState /\ TypeOK
      /\ scan[w].plan = "none" => scan[w] = NoScan
      /\ scan[w].plan = "sort" => run[w].pc = "query"
      /\ scan[w].plan = "index" => run[w].pc \in {"fetch", "merge"}
      /\ source \in [Keys -> 0 .. MaxWrites] /\ mark \in [Versions -> Nat]
  BY DEF ScanTypeOK, ScanFresh, TypeOK, SourceTypeOK, Reads, At
<1>2. CASE run'[w] = run[w] /\ scan'[w] = scan[w]
  BY <1>1, <1>2
<1>3. CASE scan'[w] = NoScan
  BY <1>3, NoScanType DEF NoScan
<1>4. CASE Reads(w, "none") /\ scan'[w] = scan[w]
  BY <1>3, <1>1, <1>4 DEF Reads
<1>5. CASE /\ Reads(w, "index") /\ scan'[w] = scan[w]
           /\ TakesRow(w) \/ (MergeBatch(w) /\ At(w, "merge"))
  <2>1. run'[w].pc \in {"fetch", "merge"}
    <3>1. CASE TakesRow(w)
      BY <1>1, <3>1 DEF TakesRow, TakeRow, AfterRow, RunState
    <3>2. CASE MergeBatch(w) /\ At(w, "merge")
      BY <1>1, <3>2 DEF MergeBatch, RunState, At
    <3> QED
      BY <1>5, <3>1, <3>2
  <2> QED
    BY <1>1, <1>5, <2>1 DEF Reads
<1>6. CASE BeginSort(w)
  BY <1>1, <1>6, BeginSortFields DEF Goes, BeginSort, ScanState
<1>7. CASE BeginIndex(w)
  <2>1. scan'[w] = [scan[w] EXCEPT !.plan = "index", !.at = run[w].last,
                      !.passed = IF run[w].last = NoCheckpoint THEN {} ELSE Keys]
    BY <1>1, <1>7 DEF BeginIndex, ScanState
  <2> DEFINE p == IF run[w].last = NoCheckpoint THEN {} ELSE Keys
             a == run[w].last
  <2>2. a \in Nat /\ p \subseteq Keys
    BY <1>1 DEF RunState
  <2>3. scan'[w] = [plan |-> "index", found |-> scan[w].found, passed |-> p, at |-> a]
    BY <1>1, <2>1 DEF ScanState
  <2> HIDE DEF p, a
  <2>4. scan'[w] \in ScanState /\ scan'[w].plan = "index"
    BY <1>1, <2>2, <2>3 DEF ScanState
  <2>5. run'[w].pc = "fetch"
    BY <1>7, BeginIndexFields DEF Goes
  <2> QED
    BY <2>4, <2>5
<1>8. CASE EndSort(w)
  BY <1>3, <1>8, EndSortFields
<1>9. CASE EndIndex(w)
  BY <1>1, <1>3, <1>9 DEF EndIndex
<1>10. ASSUME NEW k \in Keys, VisitForSort(w, k) PROVE
             /\ run'[w] = run[w] /\ scan'[w] \in ScanState /\ scan'[w].plan = "sort"
             /\ scan[w].plan = "sort"
  <2> DEFINE n == IF k \in Selected(run[w].last) THEN source[k] ELSE Absent
  <2>1. n \in 0 .. MaxWrites
    BY <1>1, SourceAssumption DEF Absent
  <2> DEFINE f == [scan[w].found EXCEPT ![k] = n]
  <2>2. scan'[w] = [plan |-> scan[w].plan, found |-> f,
                    passed |-> scan[w].passed \cup {k}, at |-> scan[w].at]
    BY <1>1, <1>10 DEF VisitForSort, ScanState
  <2>3. f \in [Keys -> 0 .. MaxWrites]
    BY <1>1, <2>1 DEF ScanState
  <2> HIDE DEF n, f
  <2>4. /\ scan'[w].plan = scan[w].plan /\ scan'[w] \in ScanState
    BY <1>1, <2>2, <2>3 DEF ScanState
  <2> QED
    BY <1>10, <2>4 DEF VisitForSort, Reads, vars
<1>11. ASSUME NEW k \in Keys, ReadAlongIndex(w, k) \/ ReadAgain(w, k) PROVE
             /\ run'[w].pc \in {"fetch", "merge"} /\ scan'[w] \in ScanState
             /\ scan'[w].plan = "index"
  <2> DEFINE m == mark[source[k]]
  <2>1. m \in Nat
    <3>1. source[k] # Absent
      BY <1>11 DEF ReadAlongIndex, ReadAgain, NextInIndex, Ahead
    <3> QED
      BY <1>1, <3>1, SourceAssumption DEF Absent, Versions
  <2> DEFINE p == IF m = scan[w].at THEN scan[w].passed \cup {k} ELSE {k}
  <2>2. scan'[w] = [plan |-> scan[w].plan, found |-> scan[w].found,
                    passed |-> p, at |-> m]
    BY <1>1, <1>11, ZenonT(40) DEF ReadAlongIndex, ReadAgain, PassOn, ScanState
  <2>3. p \subseteq Keys
    BY <1>1 DEF ScanState
  <2> HIDE DEF m, p
  <2>4. scan'[w] \in ScanState /\ scan'[w].plan = scan[w].plan
    BY <1>1, <2>1, <2>2, <2>3 DEF ScanState
  <2> QED
    <3>1. ComesTo(w, k) /\ run'[w].pc \in {"fetch", "merge"}
      BY <1>11, ReadAlongFields, ReadAgainFields, ZenonT(40) DEF Goes
    <3> QED
      BY <2>4, <3>1 DEF ComesTo
<1> QED
  BY <1>1, <1>2, <1>3, <1>4, <1>5, <1>6, <1>7, <1>8, <1>9, <1>10, <1>11, ScanRunCases

(* What a step does to the batch of one process and its further copies. *)
LEMMA BatchCases ==
  ASSUME ScanTypeOK, [ScanNext]_scanVars, NEW w \in Workers
  PROVE  \/ /\ run'[w].batch = run[w].batch /\ spare'[w] = spare[w]
            /\ run'[w].pc = "fetch" => run[w].pc = "fetch" \/ run[w].batch = {}
         \/ run'[w].batch = {} /\ spare'[w] = {}
         \/ \E k \in Keys : /\ TakeRow(w, k, RowsInBatch(w) + 1)
                            /\ run'[w].batch = run[w].batch \cup {k}
                            /\ k \notin run[w].batch
                            /\ spare'[w] = spare[w]
         \/ \E k \in Keys : ReadAgain(w, k)
<1>1. /\ run \in [Workers -> RunState] /\ scan \in [Workers -> ScanState]
      /\ run[w] \in RunState /\ WellFormed(run[w]) /\ TypeOK
      /\ spare \in [Workers -> SUBSET (Keys \X Versions)]
  BY DEF ScanTypeOK, TypeOK
<1>2. ASSUME NEW v \in Workers, v # w, ScanStep(v)
      PROVE  run'[w] = run[w] /\ spare'[w] = spare[w]
  <2>1. CASE Answers(v)
    BY <1>2, <2>1, AnswerFrame
  <2>2. CASE EndIndex(v) \/ \E k \in Keys : VisitForSort(v, k)
    BY <2>2 DEF EndIndex, VisitForSort, vars, copyVars
  <2> QED
    BY <1>2, <2>1, <2>2 DEF ScanStep, Answers
<1>3. ASSUME NEW v \in Workers, v # w, Keeping(v),
             SyncStep(v) \/ TakesRow(v) \/ CheckpointUnreadable(v) \/ Fault(v)
      PROVE  run'[w] = run[w] /\ spare'[w] = spare[w]
  <2>1. run'[w] = run[w]
    BY <1>1, <1>3, ActorSteps
  <2>2. spare'[w] = spare[w]
    BY <1>1, <1>3 DEF Keeping
  <2> QED
    BY <2>1, <2>2
<1>4. CASE (ForceResync /\ UNCHANGED <<scan, copyVars>>) \/ Underneath \/ UNCHANGED scanVars
  BY <1>4 DEF ForceResync, Underneath, SourceStep, scanVars, vars, copyVars
<1>5. ASSUME ScanStep(w), \A k \in Keys : ~ReadAgain(w, k)
      PROVE  /\ run'[w].batch = run[w].batch /\ spare'[w] = spare[w]
             /\ run'[w].pc = "fetch" => run[w].pc = "fetch" \/ run[w].batch = {}
  <2>1. CASE BeginSort(w) \/ BeginIndex(w)
    BY <1>1, <2>1, BeginSortFields, BeginIndexFields
       DEF BeginSort, BeginIndex, copyVars, Goes, WellFormed
  <2>2. CASE EndSort(w)
    BY <1>1, <2>2, EndSortFields DEF EndSort, copyVars, Goes, WellFormed
  <2>3. CASE EndIndex(w) \/ \E k \in Keys : VisitForSort(w, k)
    BY <2>3 DEF EndIndex, VisitForSort, vars, copyVars
  <2>4. CASE \E k \in Keys : ReadAlongIndex(w, k)
    BY <2>4, ReadAlongFields DEF ReadAlongIndex, copyVars, Goes
  <2> QED
    BY <1>5, <2>1, <2>2, <2>3, <2>4 DEF ScanStep
<1>6. ASSUME Keeping(w), run'[w].batch = run[w].batch \/ run'[w].batch = {},
             run'[w].pc = "fetch" =>
               run[w].pc = "fetch" \/ run[w].batch = {} \/ run'[w].batch = {}
      PROVE  \/ /\ run'[w].batch = run[w].batch /\ spare'[w] = spare[w]
                /\ run'[w].pc = "fetch" => run[w].pc = "fetch" \/ run[w].batch = {}
             \/ run'[w].batch = {} /\ spare'[w] = {}
  BY <1>1, <1>6 DEF Keeping
<1>7. ASSUME Keeping(w), NEW k \in Keys, TakeRow(w, k, RowsInBatch(w) + 1)
      PROVE  /\ run'[w].batch = run[w].batch \cup {k}
             /\ k \notin run[w].batch
             /\ spare'[w] = spare[w]
  <2>1. run'[w].batch = run[w].batch \cup {k} /\ k \notin run[w].batch
    BY <1>1, <1>7 DEF TakeRow, NextInOrder, RunState, WellFormed
  <2> QED
    BY <1>7, <2>1 DEF Keeping
<1>8. ASSUME Keeping(w), [Next]_vars, \A k \in Keys : ~FetchRow(w, k)
      PROVE  \/ /\ run'[w].batch = run[w].batch /\ spare'[w] = spare[w]
                /\ run'[w].pc = "fetch" => run[w].pc = "fetch" \/ run[w].batch = {}
             \/ run'[w].batch = {} /\ spare'[w] = {}
  <2>1. CASE run'[w] = run[w]
    BY <1>6, <1>8, <2>1
  <2>2. CASE run'[w] = Idle
    BY <1>6, <1>8, <2>2 DEF Idle
  <2>3. CASE \/ \E b \in {ckpt, NoCheckpoint} : BeginsAt(w, b)
             \/ \E p \in {"open", "create"}, q \in {"query", "create"} : Turns(w, p, q)
             \/ \E p \in {"fetch", "record", "createCheckpoint"},
                   q \in {"flush", "record", "createCheckpoint", "commit"} : Turns(w, p, q)
    BY <1>6, <1>8, <2>3 DEF BeginsAt, Turns
  <2>4. CASE RunQuery(w)
    <3>1. run'[w].batch = run[w].batch /\ run[w].batch = {}
      BY <1>1, <2>4 DEF RunQuery, RunState, WellFormed, At
    <3> QED
      BY <1>6, <1>8, <3>1
  <2>5. CASE MergeBatch(w)
    <3>1. run'[w].batch = {}
      BY <1>1, <2>5 DEF MergeBatch, RunState
    <3> QED
      BY <1>6, <1>8, <3>1
  <2> QED
    BY <1>1, <1>8, <2>1, <2>2, <2>3, <2>4, <2>5, RunCases
<1>9. ASSUME RunStep(w), \A k \in Keys : ~TakeRow(w, k, RowsInBatch(w) + 1)
      PROVE  Keeping(w) /\ [Next]_vars /\ \A k \in Keys : ~FetchRow(w, k)
  <2>1. Keeping(w) /\ SyncStep(w) /\ [Next]_vars
    BY <1>9, RunStepCases DEF Next
  <2>2. ASSUME NEW k \in Keys, FetchRow(w, k) PROVE FALSE
    <3>1. k \in run[w].todo /\ k \notin run[w].batch
      BY <1>1, <2>2 DEF FetchRow, TakeRow, NextInOrder, WellFormed
    <3>2. spare[w] = {}
      <4>1. SUFFICES ASSUME CrowdedStep(w) PROVE FALSE
        BY <1>9 DEF RunStep
      <4>2. EndOfStream(w) \/ MergeConflict(w) \/ MergeBatch(w)
        BY <1>9, <4>1 DEF CrowdedStep
      <4> QED
        BY <2>2, <3>1, <4>2 DEF EndOfStream, MergeConflict, MergeBatch, FetchRow, TakeRow, At
    <3>3. Cardinality(run[w].batch \cup {k}) = RowsInBatch(w) + 1
      <4>1. run[w].batch \subseteq Keys
        BY <1>1 DEF RunState
      <4>2. IsFiniteSet(run[w].batch)
        BY <4>1, SyncAssumption, FS_Subset
      <4>3. PICK b : b = run[w].batch
        OBVIOUS
      <4>4. /\ Cardinality(b \cup {k}) = Cardinality(b) + 1
            /\ Cardinality(b) \in Nat
        BY <3>1, <4>2, <4>3, FS_AddElement, FS_CardinalityType
      <4>5. Cardinality(spare[w]) = 0
        BY <3>2, FS_EmptySet
      <4> QED
        BY <4>3, <4>4, <4>5 DEF RowsInBatch
    <3> QED
      BY <1>9, <2>2, <3>3 DEF FetchRow
  <2> QED
    BY <2>1, <2>2
<1>10. ASSUME (CheckpointUnreadable(w) \/ Fault(w)) /\ Keeping(w)
       PROVE  [Next]_vars /\ \A k \in Keys : ~FetchRow(w, k) \/ run'[w] = Idle
  BY <1>1, <1>10 DEF Next, CheckpointUnreadable, Fault, EndRun, FetchRow, TakeRow, At
<1>11. CASE RunStep(w)
  BY <1>7, <1>8, <1>9, <1>11, RunStepCases
<1>12. CASE (CheckpointUnreadable(w) \/ Fault(w)) /\ Keeping(w)
  <2>1. CASE run'[w] = Idle
    BY <1>6, <1>12, <2>1 DEF Idle
  <2>2. CASE run'[w] # Idle
    BY <1>8, <1>10, <1>12, <2>2
  <2> QED
    BY <2>1, <2>2
<1> QED
  BY <1>2, <1>3, <1>4, <1>5, <1>11, <1>12, RunStepCases DEF ScanNext

(* The further copies are of rows of the batch. *)
LEMMA SpareType ==
  ASSUME ScanTypeOK, [ScanNext]_scanVars, NEW w \in Workers
  PROVE  spare'[w] \subseteq Keys \X Versions /\ Several(w)' \subseteq run'[w].batch
<1>1. /\ run[w] \in RunState /\ WellFormed(run[w])
      /\ spare[w] \subseteq Keys \X Versions /\ Several(w) \subseteq run[w].batch
      /\ source \in [Keys -> 0 .. MaxWrites]
  BY DEF ScanTypeOK, TypeOK, SourceTypeOK
<1>2. CASE /\ spare'[w] \in {spare[w], {}} /\ run[w].batch \subseteq run'[w].batch
  BY <1>1, <1>2 DEF Several
<1>3. CASE spare'[w] = {}
  BY <1>3 DEF Several
<1>4. ASSUME NEW k \in Keys, ReadAgain(w, k)
      PROVE  spare'[w] \subseteq Keys \X Versions /\ Several(w)' \subseteq run'[w].batch
  <2>1. PICK other \in {run[w].snap[k], source[k]} :
          spare'[w] = spare[w] \cup {<<k, other>>}
    BY <1>4, ReadAgainFields
  <2>2. k \in run[w].batch /\ run'[w].batch = run[w].batch
    BY <1>4, ReadAgainFields
  <2>3. other \in Versions
    <3>1. run[w].snap[k] # Absent /\ run[w].snap[k] \in 0 .. MaxWrites
      BY <1>1, <2>2 DEF WellFormed, RunState
    <3>2. source[k] # Absent /\ source[k] \in 0 .. MaxWrites
      BY <1>1, <1>4 DEF ReadAgain, NextInIndex, Ahead
    <3> QED
      BY <3>1, <3>2, SourceAssumption DEF Absent, Versions
  <2>4. spare'[w] \subseteq Keys \X Versions
    BY <1>1, <2>1, <2>3
  <2>5. ASSUME NEW j \in Keys, NEW v \in Versions, <<j, v>> \in spare'[w]
        PROVE  j \in run'[w].batch
    <3>1. CASE <<j, v>> \in spare[w]
      BY <1>1, <2>2, <3>1 DEF Several
    <3>2. CASE <<j, v>> = <<k, other>>
      BY <2>2, <3>2
    <3> QED
      BY <2>1, <2>5, <3>1, <3>2
  <2>6. Several(w)' \subseteq run'[w].batch
    BY <2>5 DEF Several
  <2> QED
    BY <2>4, <2>6
<1> QED
  BY <1>2, <1>3, <1>4, BatchCases

LEMMA NextScanTypeOK ==
  ASSUME ScanTypeOK, ScanFresh, [ScanNext]_scanVars
  PROVE  ScanTypeOK' /\ ScanFresh'
<1>1. doubled' \subseteq Keys /\ moved' \subseteq Keys /\ repeated' \subseteq Keys
  <2>1. doubled \subseteq Keys /\ moved \subseteq Keys /\ repeated \subseteq Keys
    BY DEF ScanTypeOK
  <2>2. CASE Underneath
    BY <2>1, <2>2 DEF Underneath
  <2>3. CASE UNCHANGED copyVars
    BY <2>1, <2>3 DEF copyVars
  <2>4. ASSUME NEW w \in Workers, RunStep(w)
        PROVE  doubled' \subseteq Keys /\ UNCHANGED <<moved, repeated>>
    BY <2>1, <2>4 DEF RunStep, CrowdedStep, Double, Several, Keeping
  <2>5. ASSUME NEW w \in Workers, Keeping(w), UNCHANGED doubled
        PROVE  doubled' \subseteq Keys /\ UNCHANGED <<moved, repeated>>
    BY <2>1, <2>5 DEF Keeping
  <2>6. ASSUME NEW w \in Workers, ScanStep(w)
        PROVE  doubled' \subseteq Keys /\ moved' \subseteq Keys /\ repeated' \subseteq Keys
    BY <2>1, <2>6, AnswerFrame
       DEF ScanStep, Answers, EndIndex, VisitForSort, copyVars
  <2> QED
    BY <2>1, <2>2, <2>3, <2>4, <2>5, <2>6 DEF ScanNext, scanVars, copyVars
<1>2. \E f : scan' = [w \in Workers |-> f[w]]
  <2>1. /\ scan \in [Workers -> ScanState]
        /\ scan = [w \in Workers |-> scan[w]]
    BY DEF ScanTypeOK
  <2>2. CASE UNCHANGED scan
    <3>1. scan' = [w \in Workers |-> scan[w]]
      BY <2>1, <2>2
    <3> QED
      BY <3>1
  <2>3. ASSUME NEW w \in Workers, ScanStep(w) \/ Keeping(w)
        PROVE  \/ UNCHANGED scan
               \/ \E r : scan' = [scan EXCEPT ![w] = r]
    <3>1. CASE BeginSort(w) \/ BeginIndex(w)
      BY <2>1, <3>1 DEF BeginSort, BeginIndex, ScanState
    <3>2. CASE EndSort(w) \/ EndIndex(w)
      BY <3>2 DEF EndSort, EndIndex
    <3>3. CASE \E k \in Keys : VisitForSort(w, k)
      BY <2>1, <3>3 DEF VisitForSort, ScanState
    <3>4. CASE \E k \in Keys : ReadAlongIndex(w, k) \/ ReadAgain(w, k)
      BY <2>1, <3>4 DEF ReadAlongIndex, ReadAgain, PassOn, ScanState
    <3>5. CASE Keeping(w)
      BY <3>5 DEF Keeping
    <3> QED
      BY <2>3, <3>1, <3>2, <3>3, <3>4, <3>5 DEF ScanStep
  <2>4. ASSUME NEW w \in Workers, NEW r, scan' = [scan EXCEPT ![w] = r]
        PROVE  \E f : scan' = [v \in Workers |-> f[v]]
    <3>1. scan' = [v \in Workers |-> [scan EXCEPT ![w] = r][v]]
      BY <2>1, <2>4
    <3> QED
      BY <3>1
  <2>5. \/ UNCHANGED scan
        \/ \E w \in Workers : ScanStep(w) \/ Keeping(w)
    BY RunStepCases DEF ScanNext, scanVars, Underneath
  <2> QED
    BY <2>2, <2>3, <2>4, <2>5
<1>3. scan' \in [Workers -> ScanState]
  BY <1>2, ScanStateType
<1>4. \E f : spare' = [w \in Workers |-> f[w]]
  <2>1. /\ spare \in [Workers -> SUBSET (Keys \X Versions)]
        /\ spare = [w \in Workers |-> spare[w]]
    BY DEF ScanTypeOK
  <2>2. CASE UNCHANGED spare
    <3>1. spare' = [w \in Workers |-> spare[w]]
      BY <2>1, <2>2
    <3> QED
      BY <3>1
  <2>3. ASSUME NEW w \in Workers, ScanStep(w) \/ Keeping(w)
        PROVE  \/ UNCHANGED spare
               \/ \E r : spare' = [spare EXCEPT ![w] = r]
    <3>1. CASE \E k \in Keys : ReadAgain(w, k)
      BY <2>1, <3>1 DEF ReadAgain
    <3>2. CASE Keeping(w)
      BY <3>2 DEF Keeping
    <3>3. CASE ScanStep(w) /\ \A k \in Keys : ~ReadAgain(w, k)
      BY <3>3 DEF ScanStep, BeginSort, EndSort, BeginIndex, EndIndex, VisitForSort,
                  ReadAlongIndex, copyVars
    <3> QED
      BY <2>3, <3>1, <3>2, <3>3
  <2>4. ASSUME NEW w \in Workers, NEW r, spare' = [spare EXCEPT ![w] = r]
        PROVE  \E f : spare' = [v \in Workers |-> f[v]]
    <3>1. spare' = [v \in Workers |-> [spare EXCEPT ![w] = r][v]]
      BY <2>1, <2>4
    <3> QED
      BY <3>1
  <2>5. \/ UNCHANGED spare
        \/ \E w \in Workers : ScanStep(w) \/ Keeping(w)
    BY RunStepCases DEF ScanNext, scanVars, copyVars, Underneath
  <2> QED
    BY <2>2, <2>3, <2>4, <2>5
<1>5. spare' \in [Workers -> SUBSET (Keys \X Versions)]
  BY <1>4, SpareType
<1> QED
  BY <1>1, <1>3, <1>5, ScanStateType, SpareType, NextScanType
     DEF ScanTypeOK, ScanFresh, Reads, At

LEMMA ScanTypeInvariant == ScanSpec => [](ScanTypeOK /\ ScanFresh)
<1>1. ScanTypeOK /\ ScanFresh /\ [ScanNext]_scanVars => (ScanTypeOK /\ ScanFresh)'
  BY NextScanTypeOK
<1> QED
  BY InitScanTypeOK, <1>1, PTL DEF ScanSpec

(* Every reachable state is well-typed: a query sorts only before its run  *)
(* has a row, and follows an index only while rows are awaited or merged   *)
(* (client.query and the row stream of sync_one).                          *)
THEOREM ScanTypeCorrect == ScanSpec => []ScanTypeOK
BY ScanTypeInvariant, PTL

-----------------------------------------------------------------------------
(* The size of a batch, further copies included. *)

(* What RowsBounded says of one process. *)
Fits(w) ==
  /\ RowsInBatch(w) <= FetchBatchSize
  /\ run[w].pc = "fetch" => RowsInBatch(w) < FetchBatchSize

LEMMA FiniteSpare ==
  ASSUME NEW c \in SUBSET (Keys \X Versions)
  PROVE  IsFiniteSet(c) /\ Cardinality(c) \in Nat
<1>1. IsFiniteSet(Versions)
  BY SourceAssumption, FS_Interval DEF Versions
<1>2. IsFiniteSet(Keys \X Versions)
  BY <1>1, SyncAssumption, FS_Product
<1> QED
  BY <1>2, FS_Subset, FS_CardinalityType

LEMMA NextFits ==
  ASSUME ScanTypeOK, [ScanNext]_scanVars, NEW w \in Workers, Fits(w)
  PROVE  Fits(w)'
<1>1. /\ run \in [Workers -> RunState] /\ run[w] \in RunState /\ WellFormed(run[w])
      /\ spare[w] \subseteq Keys \X Versions /\ Several(w) \subseteq run[w].batch
  BY DEF ScanTypeOK, TypeOK
<1> DEFINE b == run[w].batch
           c == spare[w]
<1>2. /\ IsFiniteSet(b) /\ Cardinality(b) \in Nat
      /\ IsFiniteSet(c) /\ Cardinality(c) \in Nat
      /\ FetchBatchSize \in Nat /\ 0 < FetchBatchSize
  <2>1. b \subseteq Keys
    BY <1>1 DEF RunState
  <2> QED
    BY <1>1, <2>1, SyncAssumption, FiniteSpare, FS_Subset, FS_CardinalityType
<1>3. RowsInBatch(w) = Cardinality(b) + Cardinality(c)
  BY DEF RowsInBatch
<1>4. RowsInBatch(w)' = Cardinality(run'[w].batch) + Cardinality(spare'[w])
  BY DEF RowsInBatch
<1>5. Cardinality({}) = 0
  BY FS_EmptySet
<1>6. ASSUME NEW n, AfterRow(n) = "fetch" PROVE n < FetchBatchSize
  BY <1>6 DEF AfterRow
<1> HIDE DEF b, c
<1>7. CASE /\ run'[w].batch = run[w].batch /\ spare'[w] = spare[w]
           /\ run'[w].pc = "fetch" => run[w].pc = "fetch" \/ run[w].batch = {}
  <2>1. RowsInBatch(w)' = RowsInBatch(w)
    BY <1>4, <1>7 DEF RowsInBatch
  <2>2. CASE run[w].batch = {}
    <3>1. spare[w] = {}
      BY <1>1, <2>2 DEF Several
    <3>2. RowsInBatch(w) = 0
      BY <1>3, <1>5, <2>2, <3>1 DEF b, c
    <3> QED
      BY <1>2, <2>1, <3>2 DEF Fits
  <2>3. CASE run[w].batch # {}
    BY <1>7, <2>1, <2>3 DEF Fits
  <2> QED
    BY <2>2, <2>3
<1>8. CASE run'[w].batch = {} /\ spare'[w] = {}
  <2>1. RowsInBatch(w)' = 0
    BY <1>4, <1>5, <1>8
  <2> QED
    BY <1>2, <2>1 DEF Fits
<1>9. ASSUME NEW k \in Keys, TakeRow(w, k, RowsInBatch(w) + 1), k \notin run[w].batch,
             run'[w].batch = run[w].batch \cup {k}, spare'[w] = spare[w]
      PROVE  Fits(w)'
  <2>1. Cardinality(b \cup {k}) = Cardinality(b) + 1
    BY <1>2, <1>9, FS_AddElement DEF b
  <2>2. RowsInBatch(w)' = RowsInBatch(w) + 1
    BY <1>2, <1>3, <1>4, <1>9, <2>1 DEF b, c
  <2>3. run[w].pc = "fetch" /\ run'[w].pc = AfterRow(RowsInBatch(w) + 1)
    BY <1>1, <1>9 DEF TakeRow, At, RunState
  <2>4. RowsInBatch(w) < FetchBatchSize
    BY <2>3 DEF Fits
  <2> QED
    BY <1>2, <1>3, <1>6, <2>2, <2>3, <2>4 DEF Fits
<1>10. ASSUME NEW k \in Keys, ReadAgain(w, k) PROVE Fits(w)'
  <2>1. /\ run[w].pc = "fetch" /\ run'[w].pc = AfterRow(RowsInBatch(w) + 1)
        /\ run'[w].batch = run[w].batch
    BY <1>10, ReadAgainFields
  <2>2. PICK other : spare'[w] = c \cup {<<k, other>>}
    BY <1>10, ReadAgainFields DEF c
  <2>3. Cardinality(spare'[w]) \in {Cardinality(c), Cardinality(c) + 1}
    BY <1>2, <2>2, FS_AddElement
  <2>4. RowsInBatch(w)' \in Nat /\ RowsInBatch(w)' <= RowsInBatch(w) + 1
    BY <1>2, <1>3, <1>4, <2>1, <2>3 DEF b
  <2>5. RowsInBatch(w) < FetchBatchSize /\ RowsInBatch(w) \in Nat
    BY <1>2, <1>3, <2>1 DEF Fits
  <2>6. run'[w].pc = "fetch" => RowsInBatch(w) + 1 < FetchBatchSize
    BY <1>6, <2>1
  <2> QED
    BY <1>2, <2>4, <2>5, <2>6 DEF Fits
<1> QED
  BY <1>7, <1>8, <1>9, <1>10, BatchCases

(* Rows held in memory never exceed the configured batch, and a full batch *)
(* is merged before another row is awaited, though an index may give out   *)
(* several copies of a row (the batch loop of sync_one counts rows).       *)
THEOREM ScanBatchesBounded == ScanSpec => []RowsBounded
<1> DEFINE AllFit == \A w \in Workers : Fits(w)
<1>1. ScanInit => AllFit
  <2>1. ScanInit => \A w \in Workers : run[w].batch = {} /\ spare[w] = {}
    BY DEF ScanInit, Init, Idle
  <2>2. Cardinality({}) = 0
    BY FS_EmptySet
  <2>3. ASSUME ScanInit, NEW w \in Workers PROVE Fits(w)
    <3>1. RowsInBatch(w) = 0
      BY <2>1, <2>2, <2>3 DEF RowsInBatch
    <3> QED
      BY <3>1, SyncAssumption DEF Fits
  <2> QED
    BY <2>3
<1>2. ScanTypeOK /\ AllFit /\ [ScanNext]_scanVars => AllFit'
  BY NextFits
<1>3. AllFit => RowsBounded
  BY DEF Fits, RowsBounded, At
<1> QED
  BY <1>1, <1>2, <1>3, ScanTypeCorrect, PTL DEF ScanSpec

-----------------------------------------------------------------------------
(* The order of the stream.  A sort keeps of every row a version past the  *)
(* checkpoint; an index is at or beyond every row it has given out, and    *)
(* past the checkpoint as soon as it has given out one.                    *)

ScanOrdered(r, q) ==
  /\ q.plan = "sort" =>
       \A k \in Keys : q.found[k] # Absent =>
         /\ q.found[k] <= writes
         /\ r.last # NoCheckpoint => r.last < mark[q.found[k]]
  /\ q.plan = "index" =>
       /\ r.tail <= q.at
       /\ \A k \in Keys : r.snap[k] # Absent => mark[r.snap[k]] <= q.at
       /\ r.last # NoCheckpoint => /\ r.last <= q.at
                                   /\ r.last = q.at => q.passed = Keys

ScanOrderInv ==
  /\ OrderInv
  /\ \A w \in Workers : ScanOrdered(run[w], scan[w])

LEMMA NoScanOrdered == \A r : ScanOrdered(r, NoScan)
BY DEF ScanOrdered, NoScan

(* The mark of a row that is there, or of a version a run holds. *)
LEMMA SourceMarks ==
  ASSUME TypeOK, OrderInv
  PROVE  /\ writes \in Nat /\ clock \in Nat
         /\ \A k \in Keys : source[k] # Absent =>
              source[k] \in 1 .. writes /\ mark[source[k]] \in Nat
         /\ \A n \in 1 .. writes : mark[n] \in Nat
<1>1. /\ writes \in 0 .. MaxWrites /\ mark \in [Versions -> Nat] /\ clock \in Nat
      /\ source \in [Keys -> 0 .. MaxWrites] /\ MaxWrites \in Nat
      /\ \A k \in Keys : source[k] <= writes
  BY SourceAssumption DEF TypeOK, SourceTypeOK, OrderInv
<1>2. \A n \in 1 .. writes : mark[n] \in Nat
  BY <1>1 DEF Versions
<1>3. \A k \in Keys : source[k] # Absent => source[k] \in 1 .. writes
  BY <1>1 DEF Absent
<1> QED
  BY <1>1, <1>2, <1>3

(* What an index comes to next lies at its position or ahead of it, *)
(* and the rows it has given out lie behind.                        *)
LEMMA NextAhead ==
  ASSUME ScanTypeOK, ScanOrderInv, NEW w \in Workers, NEW k \in Keys, NextInIndex(w, k)
  PROVE  /\ source[k] # Absent
         /\ source[k] \in 1 .. writes /\ mark[source[k]] \in Nat
         /\ scan[w].at \in Nat /\ run[w].last \in Nat
         /\ scan[w].at <= mark[source[k]]
         /\ run[w].last # NoCheckpoint => run[w].last < mark[source[k]]
         /\ run[w].tail \in Nat /\ run[w].tail <= scan[w].at
         /\ \A j \in Keys : run[w].snap[j] # Absent =>
              /\ run[w].snap[j] <= writes
              /\ mark[run[w].snap[j]] \in Nat
              /\ mark[run[w].snap[j]] <= mark[source[k]]
              /\ run[w].last # NoCheckpoint => run[w].last < mark[run[w].snap[j]]
<1>1. Ahead(w, k) /\ scan[w].plan = "index"
  BY DEF NextInIndex, Reads
<1>2. source[k] \in 1 .. writes /\ mark[source[k]] \in Nat /\ source[k] # Absent
  BY <1>1, SourceMarks DEF Ahead, ScanTypeOK, ScanOrderInv
<1>3. /\ scan[w].at \in Nat /\ run[w] \in RunState
      /\ run[w].last \in Nat /\ run[w].tail \in Nat
  BY DEF ScanTypeOK, TypeOK, RunState, ScanState
<1>4. ScanOrdered(run[w], scan[w]) /\ Ordered(run[w])
  BY DEF ScanOrderInv, OrderInv
<1>5. /\ scan[w].at <= mark[source[k]]
      /\ run[w].last # NoCheckpoint => run[w].last < mark[source[k]]
  BY <1>1, <1>2, <1>3, <1>4 DEF Ahead, ScanOrdered
<1>6. ASSUME NEW j \in Keys, run[w].snap[j] # Absent
      PROVE  /\ run[w].snap[j] <= writes
             /\ mark[run[w].snap[j]] \in Nat
             /\ mark[run[w].snap[j]] <= mark[source[k]]
             /\ run[w].last # NoCheckpoint => run[w].last < mark[run[w].snap[j]]
  <2>1. run[w].snap[j] \in 1 .. writes
    BY <1>3, <1>4, <1>6, SourceMarks DEF Ordered, RunState, Absent, ScanTypeOK, ScanOrderInv
  <2>2. mark[run[w].snap[j]] \in Nat /\ mark[run[w].snap[j]] <= scan[w].at
    BY <1>1, <1>4, <1>6, <2>1, SourceMarks DEF ScanOrdered, ScanTypeOK, ScanOrderInv
  <2> QED
    BY <1>2, <1>3, <1>4, <1>5, <1>6, <2>1, <2>2 DEF Ordered
<1> QED
  BY <1>1, <1>2, <1>3, <1>4, <1>5, <1>6 DEF ScanOrdered

LEMMA AnswerOrdered ==
  ASSUME ScanTypeOK, ScanFresh, ScanOrderInv, NEW w \in Workers, Answers(w)
  PROVE  Ordered(run'[w]) /\ ScanOrdered(run'[w], scan'[w])
<1>1. /\ run[w] \in RunState /\ WellFormed(run[w])
      /\ Ordered(run[w]) /\ ScanOrdered(run[w], scan[w])
      /\ scan[w].plan = "none" => scan[w] = NoScan
      /\ TypeOK /\ OrderInv
  BY DEF ScanTypeOK, TypeOK, ScanFresh, Reads, ScanOrderInv, OrderInv
<1>2. run[w].last \in Nat /\ run[w].tail \in Nat /\ run[w].newest \in Nat
  BY <1>1 DEF RunState
<1>3. CASE BeginSort(w)
  <2>1. Ordered(run'[w])
    BY <1>1, <1>3, BeginSortFields DEF Ordered, Goes, Unanswered
  <2>2. scan'[w].plan = "sort" /\ \A k \in Keys : scan'[w].found[k] = Absent
    BY <1>1, <1>3, BeginSortFields DEF NoScan
  <2> QED
    BY <2>1, <2>2 DEF ScanOrdered
<1>4. CASE BeginIndex(w)
  <2>1. Goes(w, "query", "fetch") /\ Unanswered(w)
    BY <1>4, BeginIndexFields
  <2>2. /\ run[w].tail = Null
        /\ \A k \in Keys : run'[w].snap[k] = Absent
    BY <1>1, <2>1 DEF Goes, Unanswered, Ordered, WellFormed, Idle
  <2>3. Ordered(run'[w])
    BY <1>1, <1>2, <2>1, <2>2 DEF Ordered, Goes, Unanswered
  <2>4. /\ scan'[w].plan = "index" /\ scan'[w].at = run[w].last
        /\ run[w].last # NoCheckpoint => scan'[w].passed = Keys
    BY <1>4, BeginIndexFields
  <2>5. run'[w].tail = 0 /\ run'[w].last = run[w].last
    BY <2>1, <2>2 DEF Goes, Null
  <2> QED
    BY <1>2, <2>2, <2>3, <2>4, <2>5 DEF ScanOrdered
<1>5. CASE EndSort(w)
  <2>1. /\ Goes(w, "query", "fetch") /\ run'[w].snap = scan[w].found
        /\ run'[w].todo = {k \in Keys : scan[w].found[k] # Absent}
        /\ scan[w].plan = "sort" /\ scan'[w] = NoScan
    BY <1>5, EndSortFields
  <2>2. run[w].tail = Null /\ run[w].newest = Null
    BY <1>1, <1>2, <2>1 DEF Ordered, Goes, Null
  <2>3. \A k \in Keys : run'[w].snap[k] # Absent =>
          /\ run'[w].snap[k] <= writes /\ k \in run'[w].todo
          /\ run'[w].last # NoCheckpoint => run'[w].last < mark[run'[w].snap[k]]
          /\ mark[run'[w].snap[k]] \in Nat
    <3>1. \A k \in Keys : scan[w].found[k] \in Nat
      BY DEF ScanTypeOK, ScanState
    <3>2. \A k \in Keys : scan[w].found[k] # Absent => scan[w].found[k] \in 1 .. writes
      BY <1>1, <2>1, <3>1, SourceMarks DEF ScanOrdered, Absent
    <3> QED
      BY <1>1, <2>1, <3>2, SourceMarks DEF ScanOrdered, Goes
  <2>4. run'[w].tail = 0 /\ run'[w].newest = 0
    BY <2>1, <2>2 DEF Goes, Null
  <2>5. Ordered(run'[w])
    BY <2>3, <2>4 DEF Ordered, Null
  <2> QED
    BY <2>1, <2>5, NoScanOrdered
<1>6. ASSUME NEW k \in Keys, NEW n \in {run[w].snap[k], source[k]}, ComesTo(w, k),
             n # Absent, run'[w].snap = [run[w].snap EXCEPT ![k] = n],
             run'[w].tail \in {run[w].tail, mark[source[k]]}
      PROVE  /\ ScanOrdered(run'[w], scan'[w])
             /\ \A j \in Keys : run'[w].snap[j] # Absent =>
                  /\ run'[w].snap[j] <= writes
                  /\ mark[run'[w].snap[j]] <= mark[source[k]]
                  /\ run'[w].last # NoCheckpoint => run'[w].last < mark[run'[w].snap[j]]
  <2> DEFINE m == mark[source[k]]
  <2>1. /\ source[k] \in 1 .. writes /\ m \in Nat
        /\ run[w].last # NoCheckpoint => run[w].last < m
        /\ scan[w].at \in Nat /\ scan[w].at <= m
        /\ run[w].tail <= m
    BY <1>2, <1>6, NextAhead DEF ComesTo
  <2>2. /\ run'[w].last = run[w].last
        /\ scan[w].plan = "index" /\ scan'[w].plan = "index" /\ scan'[w].at = m
    BY <1>6 DEF ComesTo
  <2>3. /\ run'[w].snap[k] = n
        /\ \A j \in Keys \ {k} : run'[w].snap[j] = run[w].snap[j]
    BY <1>1, <1>6 DEF RunState
  <2>4. \A j \in Keys : run[w].snap[j] # Absent =>
          /\ run[w].snap[j] <= writes
          /\ mark[run[w].snap[j]] <= m
          /\ run[w].last # NoCheckpoint => run[w].last < mark[run[w].snap[j]]
    BY <1>6, NextAhead DEF ComesTo
  <2>5. source[k] <= writes /\ m <= m
    BY <1>1, <2>1, SourceMarks
  <2>6. ASSUME NEW j \in Keys, run'[w].snap[j] # Absent
        PROVE  /\ run'[w].snap[j] <= writes
               /\ mark[run'[w].snap[j]] <= m
               /\ run'[w].last # NoCheckpoint => run'[w].last < mark[run'[w].snap[j]]
    BY <1>6, <2>1, <2>2, <2>3, <2>4, <2>5, <2>6
  <2>7. run'[w].last # NoCheckpoint => run'[w].last <= m /\ run'[w].last # m
    BY <1>2, <2>1, <2>2
  <2>8. run'[w].tail <= m
    BY <1>6, <2>1, <2>5
  <2> QED
    BY <2>2, <2>6, <2>7, <2>8 DEF ScanOrdered
<1>7. ASSUME NEW k \in Keys, ReadAlongIndex(w, k)
      PROVE  Ordered(run'[w]) /\ ScanOrdered(run'[w], scan'[w])
  <2> DEFINE m == mark[source[k]]
  <2>1. PICK p \in {"fetch", "merge"} : Goes(w, p, p)
    BY <1>7, ReadAlongFields
  <2>2. /\ run'[w].pc = p /\ run'[w].last = run[w].last /\ run'[w].batch = run[w].batch
        /\ run'[w].tail = run[w].tail /\ run'[w].newest = run[w].newest
        /\ run'[w].snap = [run[w].snap EXCEPT ![k] = source[k]]
        /\ run'[w].todo = run[w].todo \cup {k} /\ ComesTo(w, k)
    BY <1>7, <2>1, ReadAlongFields DEF Goes
  <2>3. /\ source[k] # Absent /\ run[w].tail <= m
        /\ m \in Nat
    BY <1>2, <2>2, NextAhead DEF ComesTo
  <2>4. /\ ScanOrdered(run'[w], scan'[w])
        /\ \A j \in Keys : run'[w].snap[j] # Absent =>
             /\ run'[w].snap[j] <= writes
             /\ run'[w].last # NoCheckpoint => run'[w].last < mark[run'[w].snap[j]]
    BY <1>6, <2>2, <2>3
  <2>5. ASSUME NEW j \in Keys, run'[w].snap[j] # Absent
        PROVE  /\ j \in run'[w].todo => run'[w].tail <= mark[run'[w].snap[j]]
               /\ j \notin run'[w].todo => mark[run'[w].snap[j]] <= run'[w].tail
    <3>1. CASE j = k
      <4>1. run'[w].snap[j] = source[k]
        BY <1>1, <2>2, <3>1 DEF RunState
      <4> QED
        BY <2>2, <2>3, <3>1, <4>1
    <3>2. CASE j # k
      <4>1. run'[w].snap[j] = run[w].snap[j]
        BY <1>1, <2>2, <3>2 DEF RunState
      <4> QED
        BY <1>1, <2>2, <2>5, <3>2, <4>1 DEF Ordered
    <3> QED
      BY <3>1, <3>2
  <2>6. Ordered(run'[w])
    BY <1>1, <2>2, <2>4, <2>5 DEF Ordered
  <2> QED
    BY <2>4, <2>6
<1>8. ASSUME NEW k \in Keys, ReadAgain(w, k)
      PROVE  Ordered(run'[w]) /\ ScanOrdered(run'[w], scan'[w])
  <2> DEFINE m == mark[source[k]]
  <2>1. PICK kept \in {run[w].snap[k], source[k]} :
          run'[w].snap = [run[w].snap EXCEPT ![k] = kept]
    BY <1>8, ReadAgainFields
  <2>2. /\ run'[w].pc \in {"fetch", "merge"} /\ run'[w].last = run[w].last
        /\ run'[w].batch = run[w].batch /\ k \in run[w].batch
        /\ run'[w].tail = m /\ run'[w].newest = run[w].newest
        /\ run'[w].todo = {} /\ ComesTo(w, k)
    BY <1>8, ReadAgainFields, ZenonT(40) DEF ComesTo
  <2>3. /\ source[k] # Absent /\ source[k] \in 1 .. writes /\ m \in Nat
        /\ scan[w].at \in Nat /\ scan[w].at <= m /\ run[w].tail <= scan[w].at
        /\ run[w].last # NoCheckpoint => run[w].last < m
    BY <2>2, NextAhead DEF ComesTo
  <2>4. kept # Absent
    BY <1>1, <2>1, <2>2, <2>3 DEF WellFormed
  <2>5. /\ ScanOrdered(run'[w], scan'[w])
        /\ \A j \in Keys : run'[w].snap[j] # Absent =>
             /\ run'[w].snap[j] <= writes
             /\ mark[run'[w].snap[j]] <= m
             /\ run'[w].last # NoCheckpoint => run'[w].last < mark[run'[w].snap[j]]
    BY <1>6, <2>1, <2>2, <2>4
  <2>6. run'[w].newest <= run'[w].tail
    <3>1. run[w].newest <= run[w].tail
      BY <1>1 DEF Ordered
    <3> QED
      BY <1>2, <2>2, <2>3, <3>1
  <2>7. Ordered(run'[w])
    BY <2>2, <2>3, <2>5, <2>6 DEF Ordered
  <2> QED
    BY <2>5, <2>7
<1> QED
  BY <1>3, <1>4, <1>5, <1>7, <1>8 DEF Answers

(* The source moves when an application writes, and then nothing else does. *)
LEMMA ScanMoves ==
  ASSUME ScanTypeOK, [ScanNext]_scanVars
  PROVE  \/ Underneath /\ SourceStep /\ run' = run /\ scan' = scan
         \/ /\ UNCHANGED <<sourceVars, source, mark, writes, clock, moved>>
            /\ repeated \subseteq repeated'
<1>1. ASSUME NEW w \in Workers, ScanStep(w)
      PROVE  UNCHANGED <<sourceVars, moved>> /\ repeated \subseteq repeated'
  <2>1. CASE Answers(w)
    BY <2>1, AnswerFrame
  <2>2. CASE EndIndex(w) \/ \E k \in Keys : VisitForSort(w, k)
    BY <2>2 DEF EndIndex, VisitForSort, vars, copyVars
  <2> QED
    BY <1>1, <2>1, <2>2 DEF ScanStep, Answers
<1>2. ASSUME NEW w \in Workers, Keeping(w),
             SyncStep(w) \/ TakesRow(w) \/ CheckpointUnreadable(w) \/ Fault(w)
      PROVE  UNCHANGED <<sourceVars, moved>> /\ repeated \subseteq repeated'
  BY <1>2, ActorSteps DEF Keeping, ScanTypeOK
<1>3. ForceResync => UNCHANGED sourceVars
  BY DEF ForceResync
<1>4. UNCHANGED scanVars => UNCHANGED <<sourceVars, moved, repeated>>
  BY DEF scanVars, vars, copyVars
<1>5. Underneath => SourceStep /\ run' = run /\ scan' = scan
  BY DEF Underneath, SourceStep
<1>6. UNCHANGED sourceVars => UNCHANGED <<source, mark, writes, clock>>
  BY DEF sourceVars
<1> QED
  BY <1>1, <1>2, <1>3, <1>4, <1>5, <1>6, RunStepCases DEF ScanNext, copyVars

LEMMA QueryOrdered ==
  ASSUME ScanTypeOK, ScanFresh, ScanOrderInv, [ScanNext]_scanVars, NEW w \in Workers
  PROVE  ScanOrdered(run'[w], scan'[w])
<1>1. /\ run \in [Workers -> RunState] /\ scan \in [Workers -> ScanState]
      /\ run[w] \in RunState /\ WellFormed(run[w])
      /\ Ordered(run[w]) /\ ScanOrdered(run[w], scan[w])
      /\ scan[w].plan = "none" => scan[w] = NoScan
      /\ TypeOK /\ OrderInv
  BY DEF ScanTypeOK, TypeOK, ScanFresh, Reads, ScanOrderInv, OrderInv
<1>2. CASE run'[w] = run[w] /\ scan'[w] = scan[w]
  BY <1>1, <1>2
<1>3. CASE scan'[w] = NoScan
  BY <1>3, NoScanOrdered
<1>4. CASE Reads(w, "none") /\ scan'[w] = scan[w]
  BY <1>1, <1>4, NoScanOrdered DEF Reads
<1>5. ASSUME Reads(w, "index"), scan'[w] = scan[w], TakesRow(w)
      PROVE  ScanOrdered(run'[w], scan'[w])
  <2>0. PICK k \in Keys : \E rows : TakeRow(w, k, rows)
    BY <1>5 DEF TakesRow
  <2>1. /\ run'[w].snap = run[w].snap /\ run'[w].last = run[w].last
        /\ run'[w].tail = mark[run[w].snap[k]] /\ run[w].snap[k] # Absent
    BY <1>1, <2>0 DEF TakeRow, NextInOrder, RunState, WellFormed
  <2> QED
    BY <1>1, <1>5, <2>1 DEF ScanOrdered, Reads
<1>6. ASSUME Reads(w, "index"), scan'[w] = scan[w], MergeBatch(w)
      PROVE  ScanOrdered(run'[w], scan'[w])
  <2>1. /\ run'[w].snap = run[w].snap /\ run'[w].last = run[w].last
        /\ run'[w].tail = run[w].tail
    BY <1>1, <1>6 DEF MergeBatch, RunState
  <2> QED
    BY <1>1, <1>6, <2>1 DEF ScanOrdered, Reads
<1>7. CASE EndIndex(w)
  <2>1. scan'[w] = NoScan
    BY <1>1, <1>7 DEF EndIndex
  <2> QED
    BY <1>3, <2>1
<1>8. ASSUME NEW k \in Keys, VisitForSort(w, k) PROVE ScanOrdered(run'[w], scan'[w])
  <2> DEFINE n == IF k \in Selected(run[w].last) THEN source[k] ELSE Absent
  <2>1. /\ run'[w] = run[w] /\ scan[w].plan = "sort" /\ scan'[w].plan = "sort"
        /\ scan'[w].found = [scan[w].found EXCEPT ![k] = n]
        /\ scan[w].found \in [Keys -> 0 .. MaxWrites]
    BY <1>1, <1>8 DEF VisitForSort, Reads, ScanState, vars
  <2>2. n # Absent => /\ n <= writes
                      /\ run[w].last # NoCheckpoint => run[w].last < mark[n]
    <3>1. source[k] <= writes
      BY <1>1 DEF OrderInv
    <3>2. k \in Selected(run[w].last) /\ run[w].last # NoCheckpoint =>
            run[w].last < mark[source[k]]
      <4>1. k \in Selected(run[w].last) => mark[source[k]] \in Nat
        BY <1>1, SourceMarks DEF Selected
      <4> QED
        BY <1>1, <4>1 DEF Selected, RunState
    <3> QED
      BY <3>1, <3>2
  <2> HIDE DEF n
  <2> QED
    BY <1>1, <2>1, <2>2 DEF ScanOrdered
<1> QED
  BY <1>2, <1>3, <1>4, <1>5, <1>6, <1>7, <1>8, AnswerOrdered, ScanRunCases DEF Answers

LEMMA NextScanOrderInv ==
  ASSUME ScanTypeOK, ScanFresh, ScanOrderInv, [ScanNext]_scanVars
  PROVE  ScanOrderInv'
<1>1. ASSUME NEW w \in Workers PROVE ScanOrdered(run[w], scan[w])'
  <2>1. ScanOrdered(run'[w], scan'[w])
    BY QueryOrdered
  <2>2. CASE SourceStep /\ run' = run /\ scan' = scan
    <3>1. /\ run[w] \in RunState /\ scan[w] \in ScanState /\ Ordered(run[w])
          /\ ScanOrdered(run[w], scan[w]) /\ TypeOK /\ OrderInv
      BY DEF ScanTypeOK, TypeOK, ScanOrderInv, OrderInv
    <3>2. writes \in Nat /\ writes' \in Nat /\ writes <= writes'
      BY <2>2, <3>1, SourceMarks, SourceForward
    <3>3. \A n \in 1 .. writes : mark'[n] = mark[n]
      BY <2>2, <3>1, SourceForward
    <3>4. \A k \in Keys : run[w].snap[k] # Absent => run[w].snap[k] \in 1 .. writes
      BY <3>1, <3>2 DEF RunState, Ordered, Absent
    <3>5. scan[w].plan = "sort" => \A k \in Keys : scan[w].found[k] # Absent =>
            scan[w].found[k] \in 1 .. writes /\ scan[w].found[k] <= writes'
      BY <3>1, <3>2 DEF ScanState, ScanOrdered, Absent
    <3> QED
      BY <2>2, <3>1, <3>3, <3>4, <3>5 DEF ScanOrdered
  <2>3. CASE UNCHANGED <<mark, writes>>
    BY <2>1, <2>3 DEF ScanOrdered
  <2> QED
    BY <2>2, <2>3, ScanMoves
<1>2. ASSUME NEW w \in Workers, Answers(w) PROVE OrderInv'
  <2>1. /\ UNCHANGED <<source, mark, writes>>
        /\ \A v \in Workers \ {w} : run'[v] = run[v]
    BY <1>2, AnswerFrame
  <2>2. \A v \in Workers : Ordered(run'[v])
    BY <1>2, <2>1, AnswerOrdered DEF ScanOrderInv, OrderInv
  <2>3. \A v \in Workers : Ordered(run[v])'
    BY <2>1, <2>2 DEF Ordered
  <2> QED
    BY <2>1, <2>3 DEF ScanOrderInv, OrderInv
<1>3. OrderInv'
  BY <1>2, ScanCases, NextOrderInv DEF ScanTypeOK, ScanOrderInv
<1> QED
  BY <1>1, <1>3 DEF ScanOrderInv

LEMMA ScanOrderInvariant == ScanSpec => []ScanOrderInv
<1>1. ScanInit => ScanOrderInv
  BY InitOrderInv, NoScanOrdered DEF ScanInit, ScanOrderInv
<1>2. /\ ScanTypeOK /\ ScanFresh /\ ScanOrderInv /\ [ScanNext]_scanVars
      => ScanOrderInv'
  BY NextScanOrderInv
<1> QED
  BY <1>1, <1>2, ScanTypeInvariant, PTL DEF ScanSpec

(* The value a run records is the greatest watermark of the rows it was    *)
(* given, though an index gave it out rows that were written while it was  *)
(* read, some of them twice (newest_watermark in sync_one).                *)
THEOREM ScanNewestRecorded == ScanSpec => []NewestIsGreatest
<1>1. ScanTypeOK /\ ScanOrderInv => NewestIsGreatest
  BY OrderedNewest DEF ScanTypeOK, ScanOrderInv
<1> QED
  BY <1>1, ScanTypeCorrect, ScanOrderInvariant, PTL

-----------------------------------------------------------------------------
(* One process. *)

LEMMA AnswerResumeInv ==
  ASSUME ScanTypeOK, ResumeInv, NEW w \in Workers, Answers(w)
  PROVE  ResumeInv'
<1>1. run[w].pc # "idle" /\ run'[w].last = run[w].last
  <2>1. CASE BeginSort(w) \/ BeginIndex(w)
    BY <2>1, BeginSortFields, BeginIndexFields DEF Goes
  <2>2. CASE EndSort(w)
    BY <2>2, EndSortFields DEF Goes
  <2>3. ASSUME NEW k \in Keys, ReadAlongIndex(w, k) \/ ReadAgain(w, k)
        PROVE  run[w].pc # "idle" /\ run'[w].last = run[w].last
    BY <2>3, ReadAlongFields, ReadAgainFields DEF Goes, ComesTo
  <2> QED
    BY <2>1, <2>2, <2>3 DEF Answers
<1>2. /\ ckpt' = ckpt
      /\ \A v \in Workers \ {w} : run'[v] = run[v]
  BY AnswerFrame
<1> QED
  BY <1>1, <1>2 DEF ResumeInv

(* With one process the checkpoint moves back only when an operator or an  *)
(* unreadable checkpoint made a run start from nothing, whatever its query *)
(* returned while applications wrote.                                      *)
THEOREM ScanOnlyAdvances == OneProcess => (ScanSpec => CheckpointOnlyAdvances)
<1> SUFFICES ASSUME OneProcess PROVE ScanSpec => CheckpointOnlyAdvances
  OBVIOUS
<1>1. ScanInit => ResumeInv
  BY DEF ScanInit, Init, ResumeInv, Idle
<1>2. ScanTypeOK /\ ResumeInv /\ [ScanNext]_scanVars => ResumeInv'
  BY ScanCases, AnswerResumeInv, NextResumeInv DEF ScanTypeOK
<1>3. ScanTypeOK /\ ScanOrderInv /\ ResumeInv /\ [ScanNext]_scanVars =>
        [ckpt' < ckpt => \/ ckpt' = NoCheckpoint
                         \/ \E w \in Workers : /\ At(w, "commit")
                                               /\ run[w].last = NoCheckpoint]_vars
  <2> SUFFICES ASSUME ScanTypeOK, ScanOrderInv, ResumeInv, [ScanNext]_scanVars,
                      ckpt' < ckpt
               PROVE  \/ ckpt' = NoCheckpoint
                      \/ \E w \in Workers : /\ At(w, "commit")
                                            /\ run[w].last = NoCheckpoint
    OBVIOUS
  <2>1. ASSUME NEW w \in Workers, Answers(w) PROVE FALSE
    <3>1. ckpt' = ckpt /\ ckpt \in Nat
      BY <2>1, AnswerFrame DEF ScanTypeOK, TypeOK
    <3> QED
      BY <3>1
  <2> QED
    BY <2>1, ScanCases, CheckpointAdvances DEF ScanTypeOK, ScanOrderInv
<1> QED
  BY <1>1, <1>2, <1>3, ScanTypeCorrect, ScanOrderInvariant, PTL
     DEF ScanSpec, CheckpointOnlyAdvances

-----------------------------------------------------------------------------
(* The versions a query has found, against those of the Delta table.       *)

ScanSound(q, touched) ==
  q.plan = "sort" =>
    \A k \in Keys :
      /\ source[k] # Absent => q.found[k] <= source[k]
      /\ q.found[k] # Absent /\ k \notin touched => delta[k] <= q.found[k]

ScanVersionInv ==
  /\ VersionInv
  /\ \A w \in Workers : ScanSound(scan[w], dirty[w])

LEMMA NoScanSound == \A d : ScanSound(NoScan, d)
BY DEF ScanSound, NoScan

(* While a process has a query running, what others commit is a collision. *)
LEMMA DirtyCases ==
  ASSUME ScanTypeOK, [ScanNext]_scanVars, NEW w \in Workers,
         At(w, "query"), run'[w].pc = "query"
  PROVE  \/ delta' = delta /\ dirty'[w] = dirty[w]
         \/ \E v \in Workers \ {w} :
              MergeBatch(v) /\ dirty'[w] = dirty[w] \cup run[v].batch
<1>1. /\ TypeOK /\ run \in [Workers -> RunState]
      /\ dirty \in [Workers -> SUBSET Keys]
      /\ run[w].pc = "query"
  BY DEF ScanTypeOK, TypeOK, At
<1>2. ASSUME NEW v \in Workers,
             \/ ReadCheckpoint(v) \/ CheckpointUnreadable(v)
             \/ CreateTable(v) \/ RunQuery(v)
             \/ TakesRow(v)
             \/ EndOfStream(v) \/ OpenCheckpoint(v) \/ CreateCheckpoint(v)
      PROVE  delta' = delta /\ dirty'[w] = dirty[w]
  BY <1>2 DEF ReadCheckpoint, CheckpointUnreadable, CreateTable, RunQuery, TakesRow,
              TakeRow, EndOfStream, OpenCheckpoint, CreateCheckpoint, targetVars
<1>3. ASSUME NEW v \in Workers, OpenTable(v)
      PROVE  delta' = delta /\ dirty'[w] = dirty[w]
  BY <1>1, <1>3 DEF OpenTable, targetVars, At
<1>4. ASSUME NEW v \in Workers, CommitCheckpoint(v) \/ Ending(v)
      PROVE  delta' = delta /\ dirty'[w] = dirty[w]
  <2>1. run' = [run EXCEPT ![v] = Idle] /\ dirty' = [dirty EXCEPT ![v] = {}]
    BY <1>4 DEF CommitCheckpoint, Ending, LoseCreateRace, MergeConflict,
                NothingToRecord, LoseCheckpointRace, CheckpointConflict, Fault, EndRun
  <2>2. delta' = delta
    BY <1>4 DEF CommitCheckpoint, Ending, LoseCreateRace, MergeConflict,
                NothingToRecord, LoseCheckpointRace, CheckpointConflict, Fault, targetVars
  <2>3. v # w
    BY <1>1, <2>1 DEF Idle
  <2> QED
    BY <1>1, <2>1, <2>2, <2>3
<1>5. ASSUME NEW v \in Workers, MergeBatch(v)
      PROVE  v # w /\ dirty'[w] = dirty[w] \cup run[v].batch
  BY <1>1, <1>5 DEF MergeBatch, HoldsTable
<1>6. ASSUME NEW v \in Workers, Answers(v)
      PROVE  delta' = delta /\ dirty'[w] = dirty[w]
  BY <1>6, AnswerFrame
<1>7. CASE ForceResync \/ SourceStep \/ UNCHANGED vars
  BY <1>7 DEF ForceResync, SourceStep, vars, targetVars
<1> QED
  BY <1>2, <1>3, <1>4, <1>5, <1>6, <1>7, ScanCases, NextCases

LEMMA AnswerVersionInv ==
  ASSUME ~Rebases,
         ScanTypeOK, ScanFresh, ScanOrderInv, ScanVersionInv, NEW w \in Workers, Answers(w)
  PROVE  VersionInv'
<1>1. /\ run[w] \in RunState /\ WellFormed(run[w]) /\ Sound(run[w], dirty[w])
      /\ ScanSound(scan[w], dirty[w]) /\ ScanOrdered(run[w], scan[w])
      /\ source \in [Keys -> 0 .. MaxWrites] /\ delta \in [Keys -> 0 .. MaxWrites]
      /\ \A k \in Keys : /\ delta[k] <= writes /\ source[k] <= writes
                         /\ source[k] # Absent => delta[k] <= source[k]
      /\ writes \in Nat
  BY DEF ScanTypeOK, TypeOK, SourceTypeOK, ScanVersionInv, VersionInv, ScanOrderInv
<1>2. Sound(run'[w], dirty[w])
  <2>1. CASE BeginSort(w) \/ BeginIndex(w)
    <3>1. Unanswered(w) /\ \E p \in {"query", "fetch"} : Goes(w, "query", p)
      BY <2>1, BeginSortFields, BeginIndexFields
    <3> QED
      BY <1>1, <3>1 DEF Unanswered, Goes, Sound
  <2>2. CASE EndSort(w)
    <3>1. /\ Goes(w, "query", "fetch") /\ run'[w].snap = scan[w].found
          /\ run'[w].todo = {k \in Keys : scan[w].found[k] # Absent}
          /\ scan[w].plan = "sort"
      BY <2>2, EndSortFields
    <3>2. run'[w].pc = "fetch" /\ run'[w].batch = {}
      BY <1>1, <3>1 DEF Goes, WellFormed
    <3>3. ASSUME NEW k \in Keys
          PROVE  /\ scan[w].found[k] <= writes
                 /\ source[k] # Absent => scan[w].found[k] <= source[k]
                 /\ scan[w].found[k] = Absent => scan[w].found[k] <= delta[k]
                 /\ scan[w].found[k] # Absent /\ k \notin dirty[w] =>
                      delta[k] <= scan[w].found[k]
      BY <1>1, <3>1 DEF ScanSound, ScanOrdered, Absent
    <3> QED
      BY <3>1, <3>2, <3>3 DEF Sound
  <2>3. ASSUME NEW k \in Keys, ReadAlongIndex(w, k) PROVE Sound(run'[w], dirty[w])
    <3>1. PICK p \in {"fetch", "merge"} : Goes(w, p, p)
      BY <2>3, ReadAlongFields
    <3>2. /\ run'[w].snap = [run[w].snap EXCEPT ![k] = source[k]]
          /\ run'[w].todo = run[w].todo \cup {k}
          /\ source[k] # Absent
      BY <2>3, ReadAlongFields DEF ReadAlongIndex, NextInIndex, Ahead
    <3>3. /\ run'[w].pc = run[w].pc /\ run'[w].batch = run[w].batch
          /\ run'[w].snap[k] = source[k]
          /\ \A j \in Keys \ {k} : run'[w].snap[j] = run[w].snap[j]
      BY <1>1, <3>1, <3>2 DEF Goes, RunState
    <3>4. source[k] <= source[k]
      BY <1>1
    <3> QED
      BY <1>1, <3>2, <3>3, <3>4 DEF Sound
  <2>4. ASSUME NEW k \in Keys, ReadAgain(w, k) PROVE Sound(run'[w], dirty[w])
    <3>1. PICK kept \in {run[w].snap[k], source[k]} :
            run'[w].snap = [run[w].snap EXCEPT ![k] = kept]
      BY <2>4, ReadAgainFields
    <3>2. /\ run'[w].batch = run[w].batch /\ k \in run[w].batch
          /\ run[w].todo = {} /\ run'[w].todo = {} /\ source[k] # Absent
      BY <2>4, ReadAgainFields DEF ReadAgain, NextInIndex, Ahead
    <3>3. /\ run'[w].snap[k] = kept
          /\ \A j \in Keys \ {k} : run'[w].snap[j] = run[w].snap[j]
      BY <1>1, <3>1 DEF RunState
    <3>4. /\ source[k] <= source[k] /\ source[k] <= writes
          /\ delta[k] <= source[k]
      BY <1>1, <3>2
    <3>5. /\ kept <= writes /\ kept <= source[k]
          /\ k \notin dirty[w] => delta[k] <= kept
      BY <1>1, <3>2, <3>4 DEF Sound
    <3> QED
      BY <1>1, <3>2, <3>3, <3>5 DEF Sound
  <2> QED
    BY <2>1, <2>2, <2>3, <2>4 DEF Answers
<1>3. /\ UNCHANGED <<source, mark, writes, delta, dirty>>
      /\ \A v \in Workers \ {w} : run'[v] = run[v]
  BY AnswerFrame
<1>4. \A v \in Workers : Sound(run'[v], dirty[v])
  BY <1>2, <1>3 DEF ScanVersionInv, VersionInv
<1>5. \A v \in Workers : Sound(run[v], dirty[v])'
  BY <1>3, <1>4 DEF Sound
<1> QED
  BY <1>3, <1>5 DEF ScanVersionInv, VersionInv

LEMMA QuerySound ==
  ASSUME ScanTypeOK, ScanFresh, ScanOrderInv, ScanVersionInv, [ScanNext]_scanVars,
         NEW w \in Workers
  PROVE  ScanSound(scan[w], dirty[w])'
<1>1. /\ run \in [Workers -> RunState] /\ scan \in [Workers -> ScanState]
      /\ scan[w] \in ScanState /\ TypeOK /\ OrderInv
      /\ ScanSound(scan[w], dirty[w]) /\ ScanOrdered(run[w], scan[w])
      /\ scan[w].plan = "none" => scan[w] = NoScan
      /\ scan[w].plan = "sort" => run[w].pc = "query"
      /\ source \in [Keys -> 0 .. MaxWrites] /\ delta \in [Keys -> 0 .. MaxWrites]
      /\ \A k \in Keys : source[k] # Absent => delta[k] <= source[k]
  BY DEF ScanTypeOK, ScanFresh, Reads, At, TypeOK, SourceTypeOK, ScanVersionInv,
         VersionInv, ScanOrderInv
<1>2. /\ scan'[w].plan = "sort" => run'[w].pc = "query"
      /\ \A k \in Keys : source'[k] \in Nat
  BY NextScanTypeOK DEF ScanTypeOK, At, TypeOK, SourceTypeOK
<1>3. ASSUME scan'[w] = scan[w], scan[w].plan = "sort", NEW k \in Keys
      PROVE  /\ source'[k] # Absent => scan[w].found[k] <= source'[k]
             /\ scan[w].found[k] # Absent /\ k \notin dirty'[w] =>
                  delta'[k] <= scan[w].found[k]
  <2>1. scan[w].found[k] \in Nat /\ writes \in Nat
    BY <1>1, SourceMarks DEF ScanState
  <2>2. source'[k] # Absent => scan[w].found[k] <= source'[k]
    <3>1. CASE UNCHANGED source
      BY <1>1, <1>3, <3>1 DEF ScanSound
    <3>2. CASE SourceStep
      <4>1. \/ source'[k] = source[k]
            \/ source'[k] = Absent
            \/ source'[k] = writes' /\ writes < writes' /\ writes' \in Nat
        BY <1>1, <3>2, SourceForward
      <4>2. scan[w].found[k] # Absent => scan[w].found[k] <= writes
        BY <1>1, <1>3 DEF ScanOrdered
      <4> QED
        BY <1>1, <1>3, <2>1, <4>1, <4>2 DEF ScanSound, Absent
    <3> QED
      BY <3>1, <3>2, ScanMoves
  <2>3. \/ delta'[k] = delta[k] /\ dirty'[w] = dirty[w]
        \/ k \in dirty'[w]
        \/ delta'[k] = delta[k] /\ dirty[w] \subseteq dirty'[w]
    <3>1. ASSUME NEW v \in Workers, MergeBatch(v), dirty'[w] = dirty[w] \cup run[v].batch
          PROVE  k \in dirty'[w] \/ (delta'[k] = delta[k] /\ dirty[w] \subseteq dirty'[w])
      BY <3>1 DEF MergeBatch
    <3> QED
      BY <1>1, <1>2, <1>3, <3>1, DirtyCases DEF At
  <2> QED
    BY <1>1, <1>3, <2>2, <2>3 DEF ScanSound
<1>4. ASSUME \A k \in Keys : scan'[w].found[k] = Absent
      PROVE  ScanSound(scan[w], dirty[w])'
  BY <1>2, <1>4 DEF ScanSound, Absent
<1>5. CASE scan'[w] = scan[w]
  BY <1>3, <1>5 DEF ScanSound
<1>6. CASE scan'[w] = NoScan
  BY <1>4, <1>6 DEF NoScan
<1>7. CASE BeginSort(w)
  BY <1>1, <1>4, <1>7, BeginSortFields DEF NoScan
<1>8. CASE BeginIndex(w)
  BY <1>8, BeginIndexFields DEF ScanSound
<1>9. CASE EndSort(w) \/ EndIndex(w)
  BY <1>1, <1>6, <1>9, EndSortFields DEF EndIndex
<1>10. ASSUME NEW j \in Keys, VisitForSort(w, j)
       PROVE  ScanSound(scan[w], dirty[w])'
  <2> DEFINE n == IF j \in Selected(run[w].last) THEN source[j] ELSE Absent
  <2>1. /\ UNCHANGED <<source, delta, dirty>> /\ scan[w].plan = "sort"
        /\ scan'[w].found = [scan[w].found EXCEPT ![j] = n]
        /\ scan[w].found \in [Keys -> 0 .. MaxWrites]
    BY <1>1, <1>10 DEF VisitForSort, Reads, ScanState, vars, sourceVars, targetVars
  <2>2. /\ source[j] # Absent => n <= source[j]
        /\ n # Absent => delta[j] <= n
    BY <1>1 DEF Selected, Absent
  <2> HIDE DEF n
  <2> QED
    BY <1>1, <2>1, <2>2 DEF ScanSound
<1>11. ASSUME NEW k \in Keys, ReadAlongIndex(w, k) \/ ReadAgain(w, k)
       PROVE  ScanSound(scan[w], dirty[w])'
  BY <1>11, ReadAlongFields, ReadAgainFields DEF ScanSound, ComesTo
<1> QED
  BY <1>5, <1>6, <1>7, <1>8, <1>9, <1>10, <1>11, ScanRunCases

LEMMA NextScanVersionInv ==
  ASSUME ~Rebases, ScanTypeOK, ScanFresh, ScanOrderInv, ScanVersionInv,
         [ScanNext]_scanVars
  PROVE  ScanVersionInv'
<1>1. TypeOK /\ VersionInv /\ SafeCommits
  BY DEF ScanTypeOK, ScanVersionInv, SafeCommits
<1>2. ASSUME NEW w \in Workers, TakesRow(w) PROVE VersionInv'
  BY <1>1, <1>2, TakeRowVersionInv DEF TakesRow
<1>3. VersionInv'
  BY <1>1, <1>2, ScanCases, AnswerVersionInv, NextVersionInv DEF AnyBatchNext
<1> QED
  BY <1>3, QuerySound DEF ScanVersionInv

LEMMA ScanVersionInvariant == ~Rebases => (ScanSpec => []ScanVersionInv)
<1> SUFFICES ASSUME ~Rebases PROVE ScanSpec => []ScanVersionInv
  OBVIOUS
<1>1. ScanInit => ScanVersionInv
  BY InitVersionInv, NoScanSound DEF ScanInit, ScanVersionInv
<1>2. /\ ScanTypeOK /\ ScanFresh /\ ScanOrderInv /\ ScanVersionInv /\ [ScanNext]_scanVars
      => ScanVersionInv'
  BY NextScanVersionInv
<1> QED
  BY <1>1, <1>2, ScanTypeInvariant, ScanOrderInvariant, PTL DEF ScanSpec

(* A Delta row is never replaced by an older version of it, though a query *)
(* that reads a moving table mixes versions of different moments, some in  *)
(* one batch: its run opened the Delta table before it read the first.     *)
THEOREM ScanNeverStale == ~Rebases => (ScanSpec => NoStaleOverwrite)
<1> SUFFICES ASSUME ~Rebases PROVE ScanSpec => NoStaleOverwrite
  OBVIOUS
<1>1. ASSUME ScanTypeOK, ScanVersionInv, [ScanNext]_scanVars
      PROVE  [\A k \in Keys : delta[k] <= delta'[k]]_vars
  <2>1. TypeOK /\ VersionInv /\ \A k \in Keys : delta[k] \in Nat
    BY <1>1 DEF ScanTypeOK, TypeOK, ScanVersionInv
  <2>2. ASSUME NEW w \in Workers, MergeBatch(w)
        PROVE  \A k \in Keys : delta[k] <= delta'[k]
    BY <2>1, <2>2, MergeIsSafe DEF SafeCommits
  <2>3. CASE UNCHANGED delta
    BY <2>1, <2>3
  <2>4. \/ \E w \in Workers : MergeBatch(w)
        \/ UNCHANGED delta
    BY <1>1, ScanCases, QuietSteps, AnswerFrame DEF SourceStep, targetVars
  <2> QED
    BY <2>2, <2>3, <2>4
<1> QED
  BY <1>1, ScanTypeCorrect, ScanVersionInvariant, PTL DEF ScanSpec, NoStaleOverwrite

-----------------------------------------------------------------------------
(* What a query that reads a moving table can be trusted with: the rows of *)
(* S, in the end those that were neither written behind the back of a sort *)
(* nor merged together with an older copy of themselves.                   *)

(* No version is that of two rows. *)
Distinct ==
  \A j, k \in Keys : source[j] = source[k] /\ source[j] # Absent => j = k

(* A sort has the rows it passed as they are, or need not have them; an    *)
(* index has given out what it passed, and the rest is still ahead of it.  *)
Seen(S, r, q) ==
  /\ q.plan = "sort" =>
       \A k \in S \cap q.passed : Marked(k) =>
         \/ q.found[k] = source[k]
         \/ r.last # NoCheckpoint /\ mark[source[k]] <= r.last
  /\ q.plan = "index" =>
       /\ q.at <= clock
       /\ \A k \in S : Marked(k) => Known(r, k) \/ q.at < mark[source[k]]

SeenInv(S) == \A w \in Workers : Seen(S, run[w], scan[w])

LEMMA NoScanSeen == \A S, r : Seen(S, r, NoScan)
BY DEF Seen, NoScan

LEMMA NextDistinct ==
  ASSUME ScanTypeOK, OrderInv, Distinct, [ScanNext]_scanVars
  PROVE  Distinct'
<1>1. /\ source \in [Keys -> 0 .. MaxWrites] /\ writes \in Nat
      /\ \A k \in Keys : source[k] <= writes
  BY DEF ScanTypeOK, TypeOK, SourceTypeOK, OrderInv
<1>2. ASSUME NEW k \in Keys, Write(k) PROVE Distinct'
  <2>1. source' = [source EXCEPT ![k] = writes + 1]
    BY <1>2 DEF Write
  <2> QED
    BY <1>1, <2>1 DEF Distinct
<1>3. ASSUME NEW k \in Keys, Delete(k) PROVE Distinct'
  BY <1>1, <1>3 DEF Distinct, Delete, Absent
<1>4. CASE UNCHANGED source
  BY <1>4 DEF Distinct
<1> QED
  BY <1>2, <1>3, <1>4, ScanMoves DEF SourceStep, SourceNext

(* The next row of an index: what was ahead of it still is, but this row.  *)
LEMMA NextSees ==
  ASSUME ScanTypeOK, ScanOrderInv, MarksInv, Distinct, NEW S \in SUBSET Keys,
         NEW w \in Workers, Seen(S, run[w], scan[w]),
         NEW k \in Keys, ComesTo(w, k),
         NEW n, run'[w].snap = [run[w].snap EXCEPT ![k] = n], k \in S => n = source[k]
  PROVE  Seen(S, run'[w], scan'[w])
<1>1. TypeOK /\ OrderInv /\ run[w] \in RunState
  BY DEF ScanTypeOK, TypeOK, ScanOrderInv
<1> DEFINE m == mark[source[k]]
<1>2. /\ source[k] \in 1 .. writes /\ m \in Nat /\ scan[w].at \in Nat
      /\ scan[w].at <= m /\ m <= clock
  BY <1>1, NextAhead, WrittenMarks DEF ComesTo, Absent
<1>3. /\ run'[w].last = run[w].last
      /\ scan[w].plan = "index" /\ scan'[w].plan = "index" /\ scan'[w].at = m
  BY DEF ComesTo
<1>4. ASSUME NEW j \in S, Marked(j) PROVE Known(run'[w], j) \/ m < mark[source[j]]
  <2>1. /\ source[j] # Absent /\ source[j] \in 1 .. writes
        /\ mark[source[j]] \in Nat /\ mark[source[j]] # Null
    BY <1>1, <1>4, WrittenMarks DEF Marked
  <2>2. CASE j = k
    BY <1>1, <1>3, <2>2 DEF Known, RunState
  <2>3. CASE j # k /\ Known(run[w], j)
    BY <1>1, <1>3, <2>3 DEF Known, RunState
  <2>4. CASE j # k /\ ~Known(run[w], j)
    <3>1. scan[w].at < mark[source[j]]
      BY <1>3, <1>4, <2>4 DEF Seen
    <3>2. Due(w, j)
      BY <1>2, <2>1, <3>1 DEF Due, Ahead
    <3>3. m <= mark[source[j]]
      BY <3>2 DEF ComesTo, NextInIndex
    <3>4. m # mark[source[j]]
      <4>1. source[j] # source[k]
        BY <2>1, <2>4 DEF Distinct
      <4>2. source[j] < source[k] \/ source[k] < source[j]
        BY <1>2, <2>1, <4>1
      <4>3. SUFFICES ASSUME m = mark[source[j]] PROVE FALSE
        OBVIOUS
      <4>4. m < m
        BY <1>2, <2>1, <4>2, <4>3 DEF MarksInv
      <4> QED
        BY <1>2, <4>4
    <3> QED
      BY <1>2, <2>1, <3>3, <3>4
  <2> QED
    BY <2>2, <2>3, <2>4
<1> HIDE DEF m
<1> QED
  BY <1>2, <1>3, <1>4 DEF Seen

LEMMA BeginIndexSees ==
  ASSUME ScanTypeOK, ScanOrderInv, MarksInv, NEW S \in SUBSET Keys,
         NEW w \in Workers, Carried(S, run[w]), BeginIndex(w)
  PROVE  Seen(S, run'[w], scan'[w])
<1>1. TypeOK /\ OrderInv /\ run[w].last \in Nat
  BY DEF ScanTypeOK, TypeOK, ScanOrderInv, RunState
<1>2. /\ scan'[w].plan = "index" /\ scan'[w].at = run[w].last
      /\ run'[w].last = run[w].last
  BY BeginIndexFields DEF Goes
<1>3. run[w].last <= clock
  BY DEF Carried
<1>4. ASSUME NEW k \in S, Marked(k)
      PROVE  Known(run'[w], k) \/ run[w].last < mark[source[k]]
  <2>1. mark[source[k]] \in Nat /\ mark[source[k]] # 0
    BY <1>1, <1>4, WrittenMarks DEF Marked, Null
  <2> QED
    BY <1>1, <1>2, <2>1 DEF Known, NoCheckpoint
<1> QED
  BY <1>2, <1>3, <1>4 DEF Seen

LEMMA VisitSees ==
  ASSUME ScanTypeOK, ScanOrderInv, MarksInv, NEW S \in SUBSET Keys,
         NEW w \in Workers, Seen(S, run[w], scan[w]),
         NEW k \in Keys, VisitForSort(w, k)
  PROVE  Seen(S, run'[w], scan'[w])
<1>1. /\ TypeOK /\ OrderInv /\ run[w].last \in Nat /\ scan[w] \in ScanState
      /\ scan \in [Workers -> ScanState]
  BY DEF ScanTypeOK, TypeOK, ScanOrderInv, RunState
<1> DEFINE n == IF k \in Selected(run[w].last) THEN source[k] ELSE Absent
<1>2. /\ run' = run /\ scan[w].plan = "sort" /\ scan'[w].plan = "sort"
      /\ scan'[w].passed = scan[w].passed \cup {k}
      /\ scan'[w].found = [scan[w].found EXCEPT ![k] = n]
      /\ scan[w].found \in [Keys -> 0 .. MaxWrites]
  BY <1>1 DEF VisitForSort, Reads, ScanState, vars
<1>3. Marked(k) => \/ n = source[k]
                   \/ run[w].last # NoCheckpoint /\ mark[source[k]] <= run[w].last
  <2>1. Marked(k) => source[k] # Absent /\ mark[source[k]] \in Nat
    BY <1>1, WrittenMarks DEF Marked
  <2> QED
    BY <1>1, <2>1 DEF Selected
<1> HIDE DEF n
<1> QED
  BY <1>2, <1>3 DEF Seen

(* What the run carries on from the server's steps. *)
LEMMA AnswerCarried ==
  ASSUME ScanTypeOK, ScanFresh, ScanOrderInv, Distinct, NEW S \in SUBSET Keys,
         CoverInv(S), NEW w \in Workers, Seen(S, run[w], scan[w]), Answers(w),
         \A k \in S : ~ReadAgain(w, k)
  PROVE  Carried(S, run'[w])
<1>1. /\ TypeOK /\ OrderInv /\ run[w] \in RunState /\ WellFormed(run[w])
      /\ Carried(S, run[w]) /\ MarksInv
  BY DEF ScanTypeOK, TypeOK, ScanOrderInv, CoverInv
<1>2. CASE BeginSort(w)
  BY <1>1, <1>2, BeginSortFields DEF Goes, Carried, Started
<1>3. CASE BeginIndex(w)
  <2>1. /\ run'[w].last = run[w].last /\ run'[w].tail = Null
        /\ \A k \in Keys : run'[w].snap[k] = Absent
    BY <1>1, <1>3, BeginIndexFields
       DEF Goes, Unanswered, WellFormed, Idle, OrderInv, Ordered
  <2>2. ASSUME NEW k \in S, Marked(k) PROVE run'[w].tail < mark[source[k]]
    <3>1. mark[source[k]] \in Nat /\ mark[source[k]] # 0
      BY <1>1, <2>2, WrittenMarks DEF Marked, Null
    <3> QED
      BY <2>1, <3>1 DEF Null
  <2> QED
    BY <1>1, <2>1, <2>2 DEF Carried, Later
<1>4. CASE EndSort(w)
  <2>1. /\ run'[w].last = run[w].last /\ run'[w].snap = scan[w].found
        /\ scan[w].plan = "sort" /\ scan[w].passed = Keys
    BY <1>4, EndSortFields DEF Goes
  <2>2. \A k \in S : Marked(k) => Known(run'[w], k)
    BY <2>1 DEF Seen, Known
  <2> QED
    BY <1>1, <2>1, <2>2 DEF Carried
<1>5. ASSUME NEW k \in Keys, ReadAlongIndex(w, k) \/ ReadAgain(w, k)
      PROVE  Carried(S, run'[w])
  <2>1. ComesTo(w, k)
    BY <1>5, ReadAlongFields, ReadAgainFields
  <2>2. /\ run'[w].last = run[w].last /\ scan'[w].plan = "index"
        /\ scan'[w].at = mark[source[k]] /\ mark[source[k]] \in Nat
    BY <2>1, NextAhead DEF ComesTo
  <2>3. PICK n : /\ run'[w].snap = [run[w].snap EXCEPT ![k] = n]
                 /\ n \in {run[w].snap[k], source[k]}
                 /\ k \in S => n = source[k]
    BY <1>5, ReadAlongFields, ReadAgainFields
  <2>4. Seen(S, run'[w], scan'[w]) /\ ScanOrdered(run'[w], scan'[w])
    BY <1>1, <1>5, <2>1, <2>3, NextSees, AnswerOrdered DEF Answers
  <2>5. /\ run'[w].tail \in Nat /\ run'[w].tail <= mark[source[k]]
        /\ \A j \in Keys : run'[w].snap[j] # Absent =>
             mark[run'[w].snap[j]] \in Nat /\ mark[run'[w].snap[j]] <= mark[source[k]]
    <3>1. \A j \in Keys : run'[w].snap[j] # Absent => mark[run'[w].snap[j]] \in Nat
      BY <1>1, <2>2, <2>3, WrittenMarks DEF RunState
    <3>2. run'[w].tail \in {run[w].tail, mark[source[k]]} /\ run[w].tail \in Nat
      BY <1>1, <1>5, ReadAlongFields, ReadAgainFields, ZenonT(40) DEF Goes, RunState
    <3> QED
      BY <2>2, <2>4, <3>1, <3>2 DEF ScanOrdered
  <2>6. ASSUME NEW j \in S, Marked(j), ~Known(run'[w], j) PROVE Later(run'[w], j)
    <3>1. mark[source[k]] < mark[source[j]] /\ mark[source[j]] \in Nat
      BY <1>1, <2>2, <2>4, <2>6, WrittenMarks DEF Seen, Marked
    <3> QED
      BY <2>2, <2>5, <3>1 DEF Later
  <2> QED
    BY <1>1, <2>2, <2>6 DEF Carried
<1> QED
  BY <1>2, <1>3, <1>4, <1>5 DEF Answers

(* The state of a query after a step, of the source as the step finds it. *)
LEMMA QuerySees ==
  ASSUME ScanTypeOK, ScanFresh, ScanOrderInv, Distinct, NEW S \in SUBSET Keys,
         CoverInv(S), SeenInv(S), [ScanNext]_scanVars, NEW w \in Workers,
         \A k \in S : ~ReadAgain(w, k)
  PROVE  Seen(S, run'[w], scan'[w])
<1>1. /\ run[w] \in RunState /\ WellFormed(run[w])
      /\ Carried(S, run[w]) /\ MarksInv /\ Seen(S, run[w], scan[w])
      /\ scan[w].plan = "none" => scan[w] = NoScan
      /\ run \in [Workers -> RunState] /\ scan \in [Workers -> ScanState]
  BY DEF ScanTypeOK, TypeOK, ScanFresh, Reads, CoverInv, SeenInv
<1>2. CASE run'[w] = run[w] /\ scan'[w] = scan[w]
  BY <1>1, <1>2
<1>3. CASE scan'[w] = NoScan
  BY <1>3, NoScanSeen
<1>4. CASE Reads(w, "none") /\ scan'[w] = scan[w]
  BY <1>1, <1>4, NoScanSeen DEF Reads
<1>5. ASSUME Reads(w, "index"), scan'[w] = scan[w],
             TakesRow(w) \/ MergeBatch(w)
      PROVE  Seen(S, run'[w], scan'[w])
  <2>1. run'[w].snap = run[w].snap /\ run'[w].last = run[w].last
    <3>1. CASE TakesRow(w)
      BY <1>1, <3>1 DEF TakesRow, TakeRow, RunState
    <3>2. CASE MergeBatch(w)
      BY <1>1, <3>2 DEF MergeBatch, RunState
    <3> QED
      BY <1>5, <3>1, <3>2
  <2> QED
    BY <1>1, <1>5, <2>1 DEF Seen, Reads, Known
<1>6. CASE BeginSort(w)
  BY <1>1, <1>6, BeginSortFields DEF Seen, NoScan
<1>7. CASE EndSort(w) \/ EndIndex(w)
  <2>1. scan'[w] = NoScan
    BY <1>1, <1>7, EndSortFields DEF EndIndex
  <2> QED
    BY <1>3, <2>1
<1>8. ASSUME NEW k \in Keys, ReadAlongIndex(w, k) \/ ReadAgain(w, k)
      PROVE  Seen(S, run'[w], scan'[w])
  <2>1. ComesTo(w, k)
    BY <1>8, ReadAlongFields, ReadAgainFields
  <2>2. PICK n \in {run[w].snap[k], source[k]} :
          /\ run'[w].snap = [run[w].snap EXCEPT ![k] = n]
          /\ k \in S => n = source[k]
    <3>1. CASE ReadAlongIndex(w, k)
      BY <3>1, ReadAlongFields
    <3>2. CASE ReadAgain(w, k)
      BY <3>2, ReadAgainFields
    <3> QED
      BY <1>8, <3>1, <3>2
  <2> QED
    BY <1>1, <2>1, <2>2, NextSees
<1> QED
  BY <1>1, <1>2, <1>3, <1>4, <1>5, <1>6, <1>7, <1>8, BeginIndexSees, VisitSees,
     ScanRunCases

(* An application writes: the rows it writes leave what sorts are trusted  *)
(* with, and are beyond the position of every index.                       *)
LEMMA SourceStepSees ==
  ASSUME StrictMarks, ScanTypeOK, ScanOrderInv, MarksInv, SourceStep,
         NEW S \in SUBSET Keys, NEW T \in SUBSET Keys,
         \A k \in T \ S : source'[k] # source[k],
         NEW w \in Workers, run' = run, scan' = scan, Seen(S, run[w], scan[w]),
         Reads(w, "sort") => \A k \in T : k \in S /\ source'[k] = source[k]
  PROVE  Seen(T, run[w], scan[w])'
<1>1. /\ TypeOK /\ OrderInv /\ clock \in Nat /\ clock' \in Nat /\ clock <= clock'
      /\ scan[w].at \in Nat
  BY SourceStrict DEF ScanTypeOK, TypeOK, SourceTypeOK, ScanOrderInv, ScanState
<1>2. ASSUME NEW k \in S, source'[k] = source[k], Marked(k)'
      PROVE  Marked(k) /\ mark'[source'[k]] = mark[source[k]]
  <2>1. source[k] \in 1 .. writes
    BY <1>1, <1>2, WrittenMarks DEF Marked
  <2> QED
    BY <1>1, <1>2, <2>1, SourceStrict DEF Marked
<1>3. CASE scan[w].plan = "sort"
  <2>1. \A k \in T : k \in S /\ source'[k] = source[k]
    BY <1>3 DEF Reads
  <2> QED
    BY <1>2, <1>3, <2>1 DEF Seen
<1>4. CASE scan[w].plan = "index"
  <2>1. scan[w].at <= clock /\ scan[w].at <= clock'
    BY <1>1, <1>4 DEF Seen
  <2>2. ASSUME NEW k \in T, Marked(k)'
        PROVE  Known(run[w], k)' \/ scan[w].at < mark'[source'[k]]
    <3>1. CASE source'[k] = source[k]
      <4>1. /\ k \in S /\ Marked(k) /\ mark'[source'[k]] = mark[source[k]]
        BY <1>2, <2>2, <3>1
      <4> QED
        BY <1>4, <3>1, <4>1 DEF Seen, Known
    <3>2. CASE source'[k] # source[k]
      <4>1. clock < mark'[source'[k]]
        BY <1>1, <2>2, <3>2, SourceStrict DEF Marked
      <4>2. mark'[source'[k]] \in Nat
        BY <1>1, <2>2, SourceStepType, SourceAssumption, SMTT(30)
           DEF Marked, TypeOK, SourceTypeOK, Versions, Absent
      <4> QED
        BY <1>1, <2>1, <4>1, <4>2
    <3> QED
      BY <3>1, <3>2
  <2> QED
    BY <1>4, <2>1, <2>2 DEF Seen
<1>5. CASE scan[w].plan = "none"
  BY <1>5 DEF Seen
<1> QED
  BY <1>3, <1>4, <1>5 DEF ScanTypeOK, ScanState

(* The rows that can be relied on. *)
Kept == Keys \ (moved \cup repeated)

(* What is covered of fewer rows follows from what is covered of more. *)
LEMMA FewerCovered ==
  ASSUME NEW S \in SUBSET Keys, NEW T \in SUBSET S, CoverInv(S), SeenInv(S)
  PROVE  CoverInv(T) /\ SeenInv(T)
BY DEF CoverInv, SeenInv, Carried, Covers, Seen

(* What is covered among the rows that can be relied on stays covered. *)
LEMMA NextScanCover ==
  ASSUME ~Rebases, StrictMarks, ScanTypeOK, ScanFresh, ScanOrderInv, ScanVersionInv,
         Distinct, NEW S \in SUBSET Keys, NEW T \in SUBSET Keys,
         S = Keys \ (moved \cup repeated), T = Keys \ (moved' \cup repeated'),
         CoverInv(S), SeenInv(S), [ScanNext]_scanVars
  PROVE  CoverInv(T)' /\ SeenInv(T)'
<1>1. TypeOK /\ VersionInv /\ OrderInv /\ MarksInv /\ SafeCommits
  BY DEF ScanTypeOK, ScanVersionInv, ScanOrderInv, CoverInv, SafeCommits
<1>2. CASE Underneath /\ SourceStep /\ run' = run /\ scan' = scan
  <2>1. \A k \in T \ S : source'[k] # source[k]
    BY <1>2 DEF Underneath
  <2>2. ASSUME NEW w \in Workers, Reads(w, "sort"), NEW k \in T
        PROVE  k \in S /\ source'[k] = source[k]
    BY <1>2, <2>2 DEF Underneath
  <2>3. AnyBatchNext
    BY <1>2 DEF AnyBatchNext, Next
  <2>4. CoverInv(T)'
    BY <1>1, <1>2, <2>1, <2>3, NextCoverInv
  <2>5. \A w \in Workers : Seen(T, run[w], scan[w])'
    BY <1>1, <1>2, <2>1, <2>2, SourceStepSees DEF SeenInv
  <2> QED
    BY <2>4, <2>5 DEF SeenInv
<1>3. CASE /\ UNCHANGED <<sourceVars, source, mark, writes, clock, moved>>
           /\ repeated \subseteq repeated'
  <2>1. T \subseteq S
    BY <1>3
  <2>2. CoverInv(T) /\ SeenInv(T)
    BY <2>1, FewerCovered
  <2>3. ASSUME NEW w \in Workers, NEW k \in T, ReadAgain(w, k) PROVE FALSE
    BY <2>3, ReadAgainFields
  <2>4. SeenInv(T)'
    BY <1>3, <2>2, <2>3, QuerySees DEF SeenInv, Seen, Marked, Known
  <2>5. ASSUME NEW w \in Workers, Answers(w) PROVE CoverInv(T)'
    <3>1. /\ UNCHANGED <<source, mark, writes, clock, delta, ckpt>>
          /\ \A v \in Workers \ {w} : run'[v] = run[v]
      BY <2>5, AnswerFrame
    <3>2. \A v \in Workers : Carried(T, run'[v])
      BY <2>2, <2>3, <2>5, <3>1, AnswerCarried DEF CoverInv, SeenInv
    <3>3. \A v \in Workers : Carried(T, run[v])'
      BY <3>1, <3>2 DEF Carried, Covers, InReach, Marked, Known, Later
    <3> QED
      BY <1>1, <2>2, <3>1, <3>3 DEF CoverInv, MarksInv, Covers, InReach
  <2>6. [AnyBatchNext]_vars => CoverInv(T)'
    BY <1>1, <2>2, NextCoverInv
  <2> QED
    BY <2>4, <2>5, <2>6, ScanCases
<1> QED
  BY <1>2, <1>3, ScanMoves

ScanCoverInv == Distinct /\ CoverInv(Kept) /\ SeenInv(Kept)

LEMMA NextScanCoverInv ==
  ASSUME ~Rebases, StrictMarks, ScanTypeOK, ScanFresh, ScanOrderInv, ScanVersionInv,
         ScanCoverInv, [ScanNext]_scanVars
  PROVE  ScanCoverInv'
<1>1. PICK S \in SUBSET Keys : S = Keys \ (moved \cup repeated)
  OBVIOUS
<1>2. PICK T \in SUBSET Keys : T = Keys \ (moved' \cup repeated')
  OBVIOUS
<1>3. CoverInv(S) /\ SeenInv(S)
  BY <1>1 DEF ScanCoverInv, Kept
<1>4. CoverInv(T)' /\ SeenInv(T)'
  BY <1>1, <1>2, <1>3, NextScanCover DEF ScanCoverInv
<1>5. CoverInv(Kept)'
  BY <1>2, <1>4 DEF CoverInv, Carried, Covers, Kept
<1>6. SeenInv(Kept)'
  BY <1>2, <1>4 DEF SeenInv, Seen, Kept
<1> QED
  BY <1>5, <1>6, NextDistinct DEF ScanCoverInv, ScanOrderInv

LEMMA ScanCoverInvariant == ~Rebases /\ StrictMarks => (ScanSpec => []ScanCoverInv)
<1> SUFFICES ASSUME ~Rebases, StrictMarks PROVE ScanSpec => []ScanCoverInv
  OBVIOUS
<1>1. ASSUME ScanInit PROVE ScanCoverInv
  <2>1. CoverInv(Kept)
    BY <1>1, InitCoverInv DEF ScanInit
  <2>2. SeenInv(Kept)
    BY <1>1, NoScanSeen DEF ScanInit, SeenInv
  <2>3. Distinct
    BY <1>1 DEF ScanInit, Init, SourceInit, Distinct
  <2> QED
    BY <2>1, <2>2, <2>3 DEF ScanCoverInv
<1>2. /\ ScanTypeOK /\ ScanFresh /\ ScanOrderInv /\ ScanVersionInv
      /\ ScanCoverInv /\ [ScanNext]_scanVars
      => ScanCoverInv'
  BY NextScanCoverInv
<1> QED
  BY <1>1, <1>2, ScanTypeInvariant, ScanOrderInvariant, ScanVersionInvariant, PTL
     DEF ScanSpec

-----------------------------------------------------------------------------
(* What follows for the checkpoint. *)

(* A row the checkpoint has passed and the Delta table has not as it is    *)
(* was written while a query was sorting, or met an older copy of itself   *)
(* in a batch: no other way of reading a moving table loses a row, however *)
(* runs overlap and fail (the plain SELECT of sync_one, merge::upsert).    *)
THEOREM LostOnlyByScanning ==
  ~Rebases /\ StrictMarks => (ScanSpec => []LostOnlyToAScan)
<1> SUFFICES ASSUME ~Rebases, StrictMarks PROVE ScanSpec => []LostOnlyToAScan
  OBVIOUS
<1>1. ScanCoverInv => LostOnlyToAScan
  BY DEF ScanCoverInv, CoverInv, Covers, Kept, LostOnlyToAScan
<1> QED
  BY <1>1, ScanCoverInvariant, PTL

(* Without sorts nothing is overtaken by one. *)
LEMMA NothingMoved == "sort" \notin Plans => (ScanSpec => [](moved = {}))
<1> SUFFICES ASSUME "sort" \notin Plans PROVE ScanSpec => [](moved = {})
  OBVIOUS
<1> DEFINE NoSort == moved = {} /\ \A w \in Workers : ~Reads(w, "sort")
<1>1. ScanInit => NoSort
  BY DEF ScanInit, Reads, NoScan
<1>2. ScanTypeOK /\ NoSort /\ [ScanNext]_scanVars => NoSort'
  <2> SUFFICES ASSUME ScanTypeOK, NoSort, [ScanNext]_scanVars PROVE NoSort'
    OBVIOUS
  <2>1. moved' = {}
    BY ScanMoves DEF Underneath
  <2>2. ASSUME NEW w \in Workers PROVE scan'[w].plan # "sort"
    <3>1. ~BeginSort(w)
      BY DEF BeginSort
    <3>2. ~EndSort(w) /\ \A k \in Keys : ~VisitForSort(w, k)
      BY DEF EndSort, VisitForSort
    <3>3. scan[w].plan # "sort" /\ scan \in [Workers -> ScanState]
      BY DEF Reads, ScanTypeOK
    <3>4. EndIndex(w) => scan'[w] = NoScan
      BY <3>3 DEF EndIndex
    <3>5. NoScan.plan # "sort"
      BY DEF NoScan
    <3> QED
      BY <3>1, <3>2, <3>3, <3>4, <3>5, BeginIndexFields, ReadAlongFields,
         ReadAgainFields, ScanRunCases DEF ComesTo
  <2> QED
    BY <2>1, <2>2 DEF Reads
<1> QED
  BY <1>1, <1>2, ScanTypeCorrect, PTL DEF ScanSpec

(* With an index on the watermark column for the server to follow, or      *)
(* snapshot isolation, only a row that met an older copy of itself in one  *)
(* batch can be lost: a row the scan overtook is read again later, though  *)
(* the query never sees the table as it was at one moment (sync_one).      *)
THEOREM IndexLosesOnlyRepeats ==
  ~Rebases /\ StrictMarks /\ "sort" \notin Plans =>
    (ScanSpec => [](\A k \in Keys \ repeated : InReach(k, ckpt) => delta[k] = source[k]))
<1> DEFINE OnlyRepeats ==
      \A k \in Keys \ repeated : InReach(k, ckpt) => delta[k] = source[k]
<1> SUFFICES ASSUME ~Rebases, StrictMarks, "sort" \notin Plans
             PROVE  ScanSpec => []OnlyRepeats
  OBVIOUS
<1>1. moved = {} /\ LostOnlyToAScan => OnlyRepeats
  BY DEF LostOnlyToAScan
<1> HIDE DEF OnlyRepeats
<1> QED
  BY <1>1, NothingMoved, LostOnlyByScanning, PTL

(* As long as no row meets an older copy of itself in a batch, the sync    *)
(* then does nothing a replica with a claim may not do, though none of its *)
(* queries may have seen a state the table was in.                         *)
THEOREM IndexRefinement ==
  ~Rebases /\ StrictMarks /\ "sort" \notin Plans =>
    (ScanSpec /\ [](repeated = {}) => ImplementsReplica)
<1> SUFFICES ASSUME ~Rebases, StrictMarks, "sort" \notin Plans
             PROVE  ScanSpec /\ [](repeated = {}) => ImplementsReplica
  OBVIOUS
<1>1. ScanInit => Abs!ReplicaInit
  BY DEF ScanInit, Init, SourceInit, NoCheckpoint, Absent, Null, Versions,
         Abs!ReplicaInit, Abs!SourceInit, Abs!Absent, Abs!Null, Abs!Versions
<1>2. ASSUME ScanTypeOK, ScanOrderInv, ScanVersionInv, ScanCoverInv,
             moved = {}, repeated = {}, [ScanNext]_scanVars
      PROVE  [Abs!ReplicaNext]_(Abs!replicaVars)
  <2>1. TypeOK /\ VersionInv /\ OrderInv /\ CoverInv(Keys) /\ SafeCommits
    <3>1. Keys \ (moved \cup repeated) = Keys
      BY <1>2
    <3> QED
      BY <1>2, <3>1
         DEF ScanTypeOK, ScanVersionInv, ScanOrderInv, ScanCoverInv, Kept, SafeCommits
  <2>2. ASSUME NEW w \in Workers, Answers(w) PROVE UNCHANGED Abs!replicaVars
    BY <1>2, <2>2, AnswerFrame DEF Abs!replicaVars, Abs!sourceVars
  <2> QED
    BY <1>2, <2>1, <2>2, ScanCases, StepRefines
<1> QED
  BY <1>1, <1>2, ScanTypeCorrect, ScanOrderInvariant, ScanVersionInvariant,
     ScanCoverInvariant, NothingMoved, PTL
     DEF ScanSpec, ImplementsReplica, Abs!ReplicaSpec

(* A batch of one row holds no second copy of it. *)
LEMMA NothingRepeated == FetchBatchSize = 1 => (ScanSpec => [](repeated = {}))
<1> SUFFICES ASSUME FetchBatchSize = 1 PROVE ScanSpec => [](repeated = {})
  OBVIOUS
<1>1. ScanInit => repeated = {}
  BY DEF ScanInit
<1>2. ScanTypeOK /\ RowsBounded /\ repeated = {} /\ [ScanNext]_scanVars
      => (repeated = {})'
  <2> SUFFICES ASSUME ScanTypeOK, RowsBounded, repeated = {}, [ScanNext]_scanVars
               PROVE  repeated' = {}
    OBVIOUS
  <2>1. ASSUME NEW w \in Workers, NEW k \in Keys, ReadAgain(w, k) PROVE FALSE
    <3>1. At(w, "fetch") /\ k \in run[w].batch
      BY <2>1 DEF ReadAgain
    <3>2. PICK b : b = run[w].batch
      OBVIOUS
    <3>3. IsFiniteSet(b)
      <4>1. b \subseteq Keys
        BY <3>2 DEF ScanTypeOK, TypeOK, RunState
      <4> QED
        BY <4>1, SyncAssumption, FS_Subset
    <3>4. Cardinality(b) \in Nat /\ Cardinality(b) # 0
      BY <3>1, <3>2, <3>3, FS_CardinalityType, FS_EmptySet
    <3>5. Cardinality(spare[w]) \in Nat
      BY FiniteSpare DEF ScanTypeOK
    <3>6. Cardinality(b) + Cardinality(spare[w]) < 1
      BY <3>1, <3>2 DEF RowsBounded, RowsInBatch
    <3> QED
      BY <3>4, <3>5, <3>6
  <2>2. ASSUME NEW w \in Workers, ScanStep(w) PROVE UNCHANGED repeated
    BY <2>1, <2>2 DEF ScanStep, BeginSort, EndSort, BeginIndex, EndIndex, VisitForSort,
                      ReadAlongIndex, copyVars
  <2> QED
    BY <2>2, RunStepCases DEF ScanNext, scanVars, copyVars, Keeping, Underneath
<1> QED
  BY <1>1, <1>2, ScanTypeCorrect, ScanBatchesBounded, PTL DEF ScanSpec

(* Merging row by row, the sync loses nothing along an index and keeps the *)
(* contract whole, whatever moves while it is read: it is with the batch   *)
(* of sync_one (fetch_batch_size) that copies of a row can meet.           *)
THEOREM RowByRowRefinement ==
  ~Rebases /\ StrictMarks /\ "sort" \notin Plans /\ FetchBatchSize = 1 =>
    (ScanSpec => ImplementsReplica)
BY NothingRepeated, IndexRefinement, PTL
=============================================================================
