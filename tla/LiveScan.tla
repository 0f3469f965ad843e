------------------------------ MODULE LiveScan ------------------------------
(***************************************************************************)
(* TableSync with a query that reads a moving table.  pipeline::sync_one   *)
(* issues a plain SELECT, so unless the database is set up otherwise the   *)
(* server reads row by row what is committed at that moment, while         *)
(* applications write.  How it does is its choice, and external here:      *)
(*                                                                         *)
(*   "snapshot"  as of one moment, which is TableSync's RunQuery;          *)
(*   "sort"      every row once, in the order of the primary key; those    *)
(*               selected are sorted by watermark when all have been read; *)
(*   "index"     along an index on the watermark column, the first rows    *)
(*               being fetched and merged while later ones are read.       *)
(***************************************************************************)
EXTENDS TableSync

CONSTANT Plans  \* the ways the server may execute the query

ASSUME PlansAssumption == Plans \subseteq {"snapshot", "sort", "index"}

VARIABLES
  scan,        \* scan[w]: how far the server is with the query of w
  spare,       \* spare[w]: the rows in w's batch of which it has another copy
  doubled,     \* keys of which the Delta table has several rows, for good
  moved,       \* rows that got their present version during a sorting scan
  repeated     \* rows whose present version met an older one in a batch

copyVars == <<spare, doubled, moved, repeated>>
scanVars == <<vars, scan, copyVars>>

ScanState ==
  [plan: {"none", "sort", "index"},
   found: [Keys -> 0 .. MaxWrites],  \* "sort": the rows to be returned so far
   passed: SUBSET Keys,              \* the rows read, for "index" those at ...
   at: Nat]                          \* ... this position of the index

NoScan ==
  [plan |-> "none", found |-> [k \in Keys |-> Absent], passed |-> {}, at |-> Null]

(* The rows of which the batch of w has several copies.  run[w].snap has    *)
(* the one that the merge will prefer, whichever that is.                  *)
Several(w) == {k \in Keys : \E v \in Versions : <<k, v>> \in spare[w]}

ScanTypeOK ==
  /\ TypeOK
  /\ scan \in [Workers -> ScanState]
  /\ spare \in [Workers -> SUBSET (Keys \X Versions)]
  /\ doubled \subseteq Keys
  /\ moved \subseteq Keys /\ repeated \subseteq Keys
  /\ \A w \in Workers : /\ scan[w].plan = "sort" => At(w, "query")
                        /\ scan[w].plan = "index" => run[w].pc \in {"fetch", "merge"}
                        /\ Several(w) \subseteq run[w].batch

ScanInit ==
  /\ Init
  /\ scan = [w \in Workers |-> NoScan]
  /\ spare = [w \in Workers |-> {}]
  /\ doubled = {} /\ moved = {} /\ repeated = {}

Reads(w, plan) == scan[w].plan = plan

(* client.query is sent: ORDER BY needs a sort, or an index to follow.  An *)
(* index is entered behind the checkpoint, or at its start, the NULLs.     *)
BeginSort(w) ==
  /\ "sort" \in Plans
  /\ At(w, "query") /\ Reads(w, "none")
  /\ scan' = [scan EXCEPT ![w].plan = "sort"]
  /\ run' = [run EXCEPT ![w].asOf = writes]
  /\ UNCHANGED <<sourceVars, targetVars, dirty, ckptStale, copyVars>>

BeginIndex(w) ==
  /\ "index" \in Plans
  /\ At(w, "query") /\ Reads(w, "none")
  /\ scan' = [scan EXCEPT
       ![w].plan = "index",
       ![w].at = run[w].last,
       ![w].passed = IF run[w].last = NoCheckpoint THEN {} ELSE Keys]
  /\ run' = [run EXCEPT ![w].pc = "fetch", ![w].asOf = writes]
  /\ UNCHANGED <<sourceVars, targetVars, dirty, ckptStale, copyVars>>

VisitForSort(w, k) ==
  /\ Reads(w, "sort")
  /\ k \notin scan[w].passed
  /\ scan' = [scan EXCEPT
       ![w].passed = @ \cup {k},
       ![w].found[k] = IF k \in Selected(run[w].last) THEN source[k] ELSE Absent]
  /\ UNCHANGED <<vars, copyVars>>

EndSort(w) ==
  /\ Reads(w, "sort")
  /\ scan[w].passed = Keys
  /\ run' = [run EXCEPT
       ![w].pc = "fetch",
       ![w].snap = scan[w].found,
       ![w].todo = {k \in Keys : scan[w].found[k] # Absent}]
  /\ scan' = [scan EXCEPT ![w] = NoScan]
  /\ UNCHANGED <<sourceVars, targetVars, dirty, ckptStale, copyVars>>

(* Row k lies ahead of the scan; or at its position, where a row written   *)
(* since the scan began may have slipped in before or after it.            *)
Ahead(w, k) ==
  /\ source[k] # Absent
  /\ \/ mark[source[k]] > scan[w].at
     \/ mark[source[k]] = scan[w].at /\ k \notin scan[w].passed

Due(w, k) ==
  /\ Ahead(w, k)
  /\ mark[source[k]] > scan[w].at \/ source[k] <= run[w].asOf

(* Of the rows at one position, those written since may be overlooked. *)
NextInIndex(w, k) ==
  /\ Reads(w, "index")
  /\ Ahead(w, k)
  /\ \A j \in Keys : Due(w, j) => mark[source[k]] <= mark[source[j]]

PassOn(w, k) ==
  scan' = [scan EXCEPT
    ![w].at = mark[source[k]],
    ![w].passed = IF mark[source[k]] = scan[w].at THEN @ \cup {k} ELSE {k}]

ReadAlongIndex(w, k) ==
  /\ NextInIndex(w, k)
  /\ k \notin run[w].todo \cup run[w].batch
  /\ PassOn(w, k)
  /\ run' = [run EXCEPT ![w].snap[k] = source[k], ![w].todo = @ \cup {k}]
  /\ UNCHANGED <<sourceVars, targetVars, dirty, ckptStale, copyVars>>

RowsInBatch(w) == Cardinality(run[w].batch) + Cardinality(spare[w])

(* A row that moved ahead is read again while the batch has it already.    *)
(* The batch keeps all its copies, and the merge matches each one with the *)
(* Delta table: which is then the row's value is up to delta-rs, and is    *)
(* chosen here.  Being taken commutes with reading on, so it is one step.  *)
ReadAgain(w, k) ==
  /\ NextInIndex(w, k)
  /\ At(w, "fetch") /\ run[w].todo = {} /\ k \in run[w].batch
  /\ PassOn(w, k)
  /\ \E kept \in {run[w].snap[k], source[k]} :
       LET other == IF kept = source[k] THEN run[w].snap[k] ELSE source[k] IN
       /\ run' = [run EXCEPT
            ![w].pc = AfterRow(RowsInBatch(w) + 1),
            ![w].snap[k] = kept,
            ![w].tail = mark[source[k]]]
       /\ spare' = [spare EXCEPT ![w] = @ \cup {<<k, other>>}]
  /\ repeated' = repeated \cup {k}
  /\ UNCHANGED <<sourceVars, targetVars, dirty, ckptStale, doubled, moved>>

EndIndex(w) ==
  /\ Reads(w, "index")
  /\ \A k \in Keys : ~Due(w, k)
  /\ scan' = [scan EXCEPT ![w] = NoScan]
  /\ UNCHANGED <<vars, copyVars>>

(* The process waits for the server: for its answer, or for the next row. *)
Awaits(w) ==
  /\ ~Reads(w, "none")
  /\ At(w, "query") \/ run[w].todo = {}
  /\ ~At(w, "merge")

(* The steps of TableSync; one that ends the run drops the stream. *)
Keeping(w) ==
  /\ scan' = IF run'[w].pc = "idle" THEN [scan EXCEPT ![w] = NoScan] ELSE scan
  /\ spare' = IF run'[w].batch = {} THEN [spare EXCEPT ![w] = {}] ELSE spare
  /\ UNCHANGED <<moved, repeated>>

(* Of a key the Delta table lacks every copy is inserted, as no copy finds *)
(* a row to match; of another, delta-rs may keep one row or several.       *)
Double(w) ==
  \E double \in SUBSET Several(w) :
    /\ {k \in Several(w) : delta[k] = Absent} \subseteq double
    /\ doubled' = doubled \cup double

(* With further copies of some rows in the batch, it is sooner full. *)
CrowdedStep(w) ==
  \/ /\ \/ \E k \in Keys : TakeRow(w, k, RowsInBatch(w) + 1)
        \/ EndOfStream(w) \/ MergeConflict(w)
     /\ UNCHANGED doubled
  \/ MergeBatch(w) /\ Double(w)

RunStep(w) ==
  /\ ~Awaits(w)
  /\ At(w, "query") => "snapshot" \in Plans
  /\ IF spare[w] = {} THEN SyncStep(w) /\ UNCHANGED doubled ELSE CrowdedStep(w)
  /\ Keeping(w)

(* An application writes, perhaps behind the back of a scan. *)
Underneath ==
  LET changed == {k \in Keys : source'[k] # source[k]} IN
  /\ SourceStep
  /\ moved' = IF \E w \in Workers : Reads(w, "sort")
              THEN moved \cup changed ELSE moved \ changed
  /\ repeated' = repeated \ changed
  /\ UNCHANGED <<scan, spare, doubled>>

ScanStep(w) ==
  \/ BeginSort(w) \/ EndSort(w) \/ BeginIndex(w) \/ EndIndex(w)
  \/ \E k \in Keys : VisitForSort(w, k) \/ ReadAlongIndex(w, k) \/ ReadAgain(w, k)

ScanNext ==
  \/ \E w \in Workers :
       \/ ScanStep(w) \/ RunStep(w)
       \/ (CheckpointUnreadable(w) \/ Fault(w)) /\ Keeping(w) /\ UNCHANGED doubled
  \/ ForceResync /\ UNCHANGED <<scan, copyVars>>
  \/ Underneath

ScanSpec == ScanInit /\ [][ScanNext]_scanVars

(* As FairSpec, and the server goes on with its queries. *)
FairScanSpec ==
  ScanSpec /\ \A w \in Workers : WF_scanVars(ScanStep(w) \/ RunStep(w))
-----------------------------------------------------------------------------
(* Properties, with those of TableSync. *)

(* A row behind the checkpoint that the Delta table has not as it is was   *)
(* written while a query was sorting, or was merged together with an older *)
(* copy of itself: nothing else is lost by queries that never see the      *)
(* table as it is at one moment (sync_one's SELECT asks for no lock).      *)
LostOnlyToAScan ==
  \A k \in Keys :
    InReach(k, ckpt) /\ k \notin moved \cup repeated => delta[k] = source[k]

(* Once runs stop failing, the replica catches up with every row no sort   *)
(* was overtaken by and no batch had twice, whichever way the server       *)
(* executes the queries.                                                   *)
CatchesUp ==
  FailuresCease =>
    <>[](\A k \in Keys \ (moved \cup repeated) :
           source[k] # Absent /\ mark[source[k]] # Null => delta[k] = source[k])

(* The rows held in memory, further copies included, never exceed the      *)
(* configured batch, and a batch that is full is merged before another row *)
(* is awaited (architecture.md, VIII).                                     *)
RowsBounded ==
  \A w \in Workers :
    /\ RowsInBatch(w) <= FetchBatchSize
    /\ At(w, "fetch") => RowsInBatch(w) < FetchBatchSize

(* README.md:7: the rows are merged into a Delta table keyed on its        *)
(* primary key, so it has one row for each (merge.rs, upsert).             *)
OneRowPerKey == doubled = {}
=============================================================================
