---------------------------- MODULE Distributed ----------------------------
(***************************************************************************)
(* sync_tables_distributed: the catalog spread over Spark partitions, each *)
(* synced by a SyncRun on some executor.  Run <<p, a>> is attempt a at     *)
(* partition p.  Spark itself is outside the repository: it may cut the    *)
(* catalog anywhere, lose an executor, start the partition again, and      *)
(* leave the lost attempt running.                                         *)
(***************************************************************************)
EXTENDS SyncRun

CONSTANTS
  Parallelism,  \* sparkContext.defaultParallelism
  Requested,    \* num_partitions, NoRequest for None
  NoRequest,
  MaxAttempts,  \* Spark's spark.task.maxFailures
  Zombies,      \* whether a lost attempt may still be running
  RaiseOnError  \* raise_on_error

ASSUME DistributedAssumption ==
  /\ Parallelism \in Nat
  /\ Requested \in Int \cup {NoRequest}
  /\ MaxAttempts \in Nat \ {0}
  /\ Runs = (1 .. Len(Catalog)) \X (1 .. MaxAttempts)
  /\ Zombies \in BOOLEAN
  /\ RaiseOnError \in BOOLEAN

VARIABLES
  driver,       \* what the driver is at
  slices,       \* slices[p]: the tables of partition p
  task,         \* task[p]: whether p waits, runs or has answered
  attempt,      \* attempt[p]: how often p was launched
  answer        \* answer[p]: the records p's worker returned

driverVars == <<driver, slices, task, attempt, answer>>
jobVars == <<runVars, driverVars>>

PlanPartitionsUncapped(count, parallelism, requested) ==
  LET wanted == IF requested # NoRequest THEN requested
                ELSE 4 * (IF parallelism > 1 THEN parallelism ELSE 1)
  IN IF count = 0 \/ wanted < 1 THEN 0 ELSE wanted

(* plan_partitions, 0 standing for the ValueError as well. *)
PlanPartitions(count, parallelism, requested) ==
  LET wanted == IF requested # NoRequest THEN requested
                ELSE 4 * (IF parallelism > 1 THEN parallelism ELSE 1)
  IN IF count = 0 \/ wanted < 1 THEN 0
     ELSE IF wanted < count THEN wanted ELSE count

Partitions == DOMAIN slices
Latest(p) == <<p, attempt[p]>>

DriverTypeOK ==
  /\ driver \in {"idle", "collecting", "rejected", "reported", "raised", "aborted"}
  /\ Len(slices) <= Len(Catalog)
  /\ task \in [Partitions -> {"waiting", "running", "answered"}]
  /\ attempt \in [Partitions -> 0 .. MaxAttempts]
  /\ DOMAIN answer = Partitions
  /\ \A p \in Partitions : /\ task[p] # "answered" => answer[p] = <<>>
                           /\ driver = "collecting" /\ task[p] = "running" =>
                                job[Latest(p)].list = slices[p]

DriverInit ==
  /\ RunInit
  /\ driver = "idle"
  /\ slices = <<>>
  /\ task = <<>>
  /\ attempt = <<>>
  /\ answer = <<>>

(* parallelize: n runs of consecutive tables, empty ones possibly among them. *)
Cuts(n) ==
  {c \in [0 .. n -> 0 .. Len(Catalog)] :
     /\ c[0] = 0 /\ c[n] = Len(Catalog)
     /\ \A p \in 1 .. n : c[p - 1] <= c[p]}

(* With nothing configured the report is empty. *)
Submit ==
  /\ driver = "idle"
  /\ LET n == PlanPartitions(Len(Catalog), Parallelism, Requested) IN
       IF n = 0
       THEN /\ driver' = IF Catalog = <<>> THEN "reported" ELSE "rejected"
            /\ UNCHANGED <<slices, task, attempt, answer>>
       ELSE /\ driver' = "collecting"
            /\ \E c \in Cuts(n) :
                 slices' = [p \in 1 .. n |-> SubSeq(Catalog, c[p - 1] + 1, c[p])]
            /\ task' = [p \in 1 .. n |-> "waiting"]
            /\ attempt' = [p \in 1 .. n |-> 0]
            /\ answer' = [p \in 1 .. n |-> <<>>]
  /\ UNCHANGED runVars

Launch(p) ==
  /\ driver = "collecting"
  /\ task[p] = "waiting"
  /\ slices[p] # <<>>
  /\ task' = [task EXCEPT ![p] = "running"]
  /\ attempt' = [attempt EXCEPT ![p] = @ + 1]
  /\ Begin(<<p, attempt[p] + 1>>, slices[p])
  /\ UNCHANGED <<driver, slices, answer>>

(* A partition without tables is answered at once. *)
LaunchEmpty(p) ==
  /\ driver = "collecting"
  /\ task[p] = "waiting"
  /\ slices[p] = <<>>
  /\ task' = [task EXCEPT ![p] = "answered"]
  /\ UNCHANGED <<runVars, driver, slices, attempt, answer>>

(* One record per table. *)
ResultsOf(r) ==
  [i \in DOMAIN job[r].done |->
     [failed |-> FALSE, tables |-> {job[r].done[i].table}, upTo |-> job[r].done[i].upTo]]

FailureOfRest(p) ==
  LET left == {i \in DOMAIN slices[p] : i >= job[Latest(p)].pos}
  IN <<[failed |-> TRUE, tables |-> {slices[p][i] : i \in left}, upTo |-> 0]>>

(* One record for the partition, naming every table it was given. *)
FailureOf(p) ==
  <<[failed |-> TRUE, tables |-> {slices[p][i] : i \in DOMAIN slices[p]}, upTo |-> 0]>>

(* The worker returns a report or a caught BaseException, KeyboardInterrupt *)
(* included.                                                               *)
Answer(p) ==
  /\ driver = "collecting"
  /\ task[p] = "running"
  /\ job[Latest(p)].pc \in Ended \ {"dead"}
  /\ task' = [task EXCEPT ![p] = "answered"]
  /\ answer' = [answer EXCEPT ![p] =
       IF Step(Latest(p), "returned") THEN ResultsOf(Latest(p)) ELSE FailureOf(p)]
  /\ UNCHANGED <<runVars, driver, slices, attempt>>

(* Spark launches the partition of a failed task again, or aborts the job. *)
FailTask(p) ==
  /\ IF attempt[p] < MaxAttempts
     THEN /\ task' = [task EXCEPT ![p] = "waiting"]
          /\ UNCHANGED driver
     ELSE /\ driver' = "aborted"
          /\ UNCHANGED task
  /\ UNCHANGED <<slices, attempt, answer>>

Gone(r) ==
  /\ job' = [job EXCEPT ![r] = [NotStarted EXCEPT !.pc = "dead"]]
  /\ stale' = [stale EXCEPT ![r] = FALSE]
  /\ UNCHANGED tableVars

(* The worker raises outside its try: in the import before it, or where it *)
(* puts the records together.                                              *)
Raise(p) ==
  /\ driver = "collecting"
  /\ task[p] = "running"
  /\ job[Latest(p)].pc \in {"connect"} \cup (Ended \ {"dead"})
  /\ Gone(Latest(p))
  /\ FailTask(p)

(* The executor of p is lost, or only lost sight of. *)
Lose(p) ==
  /\ driver = "collecting"
  /\ task[p] = "running"
  /\ (Zombies /\ UNCHANGED runVars) \/ Gone(Latest(p))
  /\ FailTask(p)

Records == UNION {{answer[p][i] : i \in DOMAIN answer[p]} : p \in Partitions}
Failures == {rec \in Records : rec.failed}

Collect ==
  /\ driver = "collecting"
  /\ \A p \in Partitions : task[p] = "answered"
  /\ driver' = IF RaiseOnError /\ Failures # {} THEN "raised" ELSE "reported"
  /\ UNCHANGED <<runVars, slices, task, attempt, answer>>

(* An attempt goes on, whether the driver still waits for it or not. *)
Work(r) == (Proceed(r) \/ Fail(r) \/ Interrupt(r)) /\ UNCHANGED driverVars

DriverStep ==
  \/ Submit \/ Collect
  \/ \E p \in Partitions : Launch(p) \/ LaunchEmpty(p) \/ Answer(p)

DistributedNext ==
  \/ DriverStep
  \/ \E p \in Partitions : Raise(p) \/ Lose(p)
  \/ \E r \in Runs : Work(r)
  \/ (\E t \in Tables : Change(t)) /\ UNCHANGED driverVars

DistributedSpec == DriverInit /\ [][DistributedNext]_jobVars
-----------------------------------------------------------------------------
(* Properties. *)

Over == driver \in {"reported", "raised"}

Mentions(t) ==
  {pi \in UNION {{p} \X DOMAIN answer[p] : p \in Partitions} :
     t \in answer[pi[1]][pi[2]].tables}

(* The report accounts for every configured table once: as a result, or in *)
(* the one failure of its partition, however the catalog was cut and       *)
(* however often partitions were tried.                                    *)
AccountedOnce ==
  Over /\ slices # <<>> => \A t \in Tables : Cardinality(Mentions(t)) = 1

(* What the report says was synced is in the Delta table for good, though   *)
(* an attempt Spark gave up on may still be writing to it: retrying a      *)
(* partition is safe (operations.md, IV.5).                                *)
ResultsHold ==
  Over => \A rec \in Records \ Failures : \A t \in rec.tables : rec.upTo <= held[t]
=============================================================================
