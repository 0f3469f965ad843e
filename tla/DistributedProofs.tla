------------------------- MODULE DistributedProofs -------------------------
(***************************************************************************)
(* Theorems about Distributed, for any catalog, any way Spark cuts it and  *)
(* any number of attempts, whether lost ones go on or not.                 *)
(***************************************************************************)
EXTENDS Distributed, SyncRunProofs, FiniteSetTheorems, LeastNumbers

ResultRecord == [failed: BOOLEAN, tables: SUBSET Tables, upTo: Positions]

(* A result that is reported is held. *)
HeldResult(rec, position) ==
  ~rec.failed => \A t \in rec.tables : rec.upTo <= position[t]

DriverTyped ==
  /\ driver \in {"idle", "collecting", "rejected", "reported", "raised", "aborted"}
  /\ slices \in Seq(Seq(Tables)) /\ Len(slices) <= Len(Catalog)
  /\ task \in [Partitions -> {"waiting", "running", "answered"}]
  /\ attempt \in [Partitions -> 0 .. MaxAttempts]
  /\ answer \in [Partitions -> Seq(ResultRecord)]

(* A partition that waits has attempts left, and one that runs has begun   *)
(* its latest on the tables it was given.                                  *)
TaskInv(p) ==
  /\ task[p] # "answered" => answer[p] = <<>>
  /\ driver = "collecting" /\ task[p] = "waiting" => attempt[p] < MaxAttempts
  /\ driver = "collecting" /\ task[p] = "running" =>
       Latest(p) \in Runs /\ job[Latest(p)].list = slices[p]

AnswerInv(p) == \A i \in 1 .. Len(answer[p]) : HeldResult(answer[p][i], held)

DriverInv ==
  /\ RunInv
  /\ DriverTyped
  /\ \A p \in Partitions : TaskInv(p) /\ AnswerInv(p)

USE RunAssumption, DistributedAssumption DEF Underway, Ended, Step

-----------------------------------------------------------------------------
(* A run keeps to the list it was started on. *)
LEMMA ListKept ==
  ASSUME RunInv, NEW r \in Runs, Proceed(r) \/ Mishap(r), NEW q \in Runs
  PROVE  job'[q].list = job[q].list
<1>1. job \in [Runs -> JobState] /\ job[r] \in JobState
  BY DEF RunInv
<1>3. ASSUME NEW j, job' = [job EXCEPT ![r] = j], j.list = job[r].list
      PROVE  job'[q].list = job[q].list
  BY <1>1, <1>3
<1>4. CASE Connect(r)
  <2>1. [job[r] EXCEPT !.pc = "read", !.pos = 1].list = job[r].list
    BY <1>1 DEF JobState
  <2> QED BY <1>1, <1>3, <1>4, <2>1 DEF Connect
<1>5. CASE ReadCheckpoint(r)
  <2>1. PICK value : job' = [job EXCEPT ![r].pc = "open", ![r].from = value]
    BY <1>5 DEF ReadCheckpoint
  <2>2. [job[r] EXCEPT !.pc = "open", !.from = value].list = job[r].list
    BY <1>1 DEF JobState
  <2> QED BY <1>1, <1>3, <2>1, <2>2
<1>6. CASE OpenTable(r)
  <2>1. [job[r] EXCEPT !.pc = "query"].list = job[r].list
    BY <1>1 DEF JobState
  <2> QED BY <1>1, <1>3, <1>6, <2>1 DEF OpenTable
<1>7. CASE Reject(r) \/ Conflict(r) \/ Fail(r)
  <2>1. PICK kind : job' = [job EXCEPT ![r] = FailedWith(r, kind)]
    BY <1>7 DEF Reject, Conflict, Fail
  <2>2. FailedWith(r, kind).list = job[r].list
    BY <1>1 DEF JobState, FailedWith
  <2> QED BY <1>3, <2>1, <2>2
<1>8. CASE Query(r)
  <2>1. [job[r] EXCEPT !.pc = "merge", !.seen = changes[Current(r)]].list = job[r].list
    BY <1>1 DEF JobState
  <2> QED BY <1>1, <1>3, <1>8, <2>1 DEF Query
<1>9. CASE NothingNew(r) \/ Record(r)
  <2>1. Finished(r).list = job[r].list
    BY <1>1 DEF JobState, Finished
  <2> QED BY <1>3, <1>9, <2>1 DEF NothingNew, Record
<1>10. CASE Merge(r)
  <2>1. PICK p : job' = [job EXCEPT
                   ![r].from = p,
                   ![r].pc = IF p = job[r].seen THEN "record" ELSE "merge"]
    BY <1>10 DEF Merge
  <2> DEFINE phase == IF p = job[r].seen THEN "record" ELSE "merge"
  <2>2. job' = [job EXCEPT ![r] = [job[r] EXCEPT !.from = p, !.pc = phase]]
    BY <1>1, <2>1
  <2>3. [job[r] EXCEPT !.from = p, !.pc = phase].list = job[r].list
    BY <1>1 DEF JobState
  <2> HIDE DEF phase
  <2> QED BY <1>1, <1>3, <2>2, <2>3
<1>11. CASE KeepGoing(r)
  <2>1. /\ [job[r] EXCEPT !.pc = "read", !.pos = @ + 1].list = job[r].list
        /\ [job[r] EXCEPT !.pc = "returned"].list = job[r].list
    BY <1>1 DEF JobState
  <2>2. CASE MoreTables(r)
    BY <1>1, <1>3, <1>11, <2>1, <2>2 DEF KeepGoing
  <2>3. CASE ~MoreTables(r)
    BY <1>1, <1>3, <1>11, <2>1, <2>3 DEF KeepGoing
  <2> QED BY <2>2, <2>3
<1>12. CASE Die(r)
  <2>1. [job[r] EXCEPT !.pc = "dead", !.from = 0, !.seen = 0].list = job[r].list
    BY <1>1 DEF JobState
  <2> QED BY <1>1, <1>3, <1>12, <2>1 DEF Die
<1>13. CASE Interrupt(r)
  <2>1. [job[r] EXCEPT !.pc = "interrupted"].list = job[r].list
    BY <1>1 DEF JobState
  <2> QED BY <1>1, <1>3, <1>13, <2>1 DEF Interrupt
<1> QED
  BY <1>4, <1>5, <1>6, <1>7, <1>8, <1>9, <1>10, <1>11, <1>12, <1>13
  DEF Proceed, Mishap

(* Tables only grow while a run takes a step. *)
LEMMA HeldKept ==
  ASSUME DriverInv, RunInv', UNCHANGED tableVars \/ Grown,
         NEW rec \in ResultRecord, HeldResult(rec, held)
  PROVE  HeldResult(rec, held')
<1>1. ASSUME NEW t \in Tables
      PROVE  held[t] \in Positions /\ held'[t] \in Positions /\ held[t] <= held'[t]
  BY <1>1 DEF DriverInv, RunInv, TablesTyped, Grown, tableVars, Positions
<1>2. rec.upTo \in Positions /\ rec.tables \subseteq Tables
  BY DEF ResultRecord
<1> QED BY <1>1, <1>2 DEF HeldResult, Positions

LEMMA AnswersKept ==
  ASSUME DriverInv, RunInv', UNCHANGED tableVars \/ Grown, UNCHANGED driverVars,
         NEW p \in Partitions
  PROVE  AnswerInv(p)'
<1>1. answer[p] \in Seq(ResultRecord) /\ AnswerInv(p) /\ answer'[p] = answer[p]
  BY DEF DriverInv, DriverTyped, driverVars
<1>2. ASSUME NEW i \in 1 .. Len(answer[p]) PROVE HeldResult(answer[p][i], held')
  <2>1. answer[p][i] \in ResultRecord
    BY <1>1, ElementOfSeq
  <2>2. HeldResult(answer[p][i], held)
    BY <1>1 DEF AnswerInv
  <2> QED BY <2>1, <2>2, HeldKept
<1> QED BY <1>1, <1>2 DEF AnswerInv

LEMMA WorkSafe ==
  ASSUME DriverInv, NEW r \in Runs, Work(r)
  PROVE  DriverInv'
<1>1. /\ RunInv
      /\ Proceed(r) \/ Mishap(r)
      /\ UNCHANGED driverVars
  BY DEF DriverInv, Work, Mishap
<1>2. RunInv' /\ (UNCHANGED tableVars \/ Grown)
  BY <1>1, RunStepSafe
<1>3. \A q \in Runs : job'[q].list = job[q].list
  BY <1>1, ListKept
<1>4. ASSUME NEW p \in Partitions PROVE TaskInv(p)'
  BY <1>1, <1>3 DEF DriverInv, TaskInv, driverVars, Latest, Partitions
<1>5. \A p \in Partitions : AnswerInv(p)'
  BY <1>1, <1>2, AnswersKept
<1> QED BY <1>1, <1>2, <1>4, <1>5 DEF DriverInv, DriverTyped, driverVars, Partitions

LEMMA SourceSafe ==
  ASSUME DriverInv, NEW t \in Tables, Change(t), UNCHANGED driverVars
  PROVE  DriverInv'
<1>1. RunInv' /\ Grown
  BY ChangeSafe DEF DriverInv
<1>2. \A p \in Partitions : TaskInv(p)' /\ AnswerInv(p)'
  BY <1>1, AnswersKept DEF DriverInv, Change, TaskInv, driverVars, Latest, Partitions
<1> QED BY <1>1, <1>2 DEF DriverInv, DriverTyped, driverVars, Partitions

-----------------------------------------------------------------------------
(* The driver's steps. *)

LEMMA SequenceOf ==
  ASSUME NEW S, NEW n \in Nat, NEW f \in [1 .. n -> S]
  PROVE  f \in Seq(S) /\ Len(f) = n
BY SeqDef, LenProperties

LEMMA SliceTyped ==
  ASSUME DriverTyped, NEW p \in Partitions
  PROVE  p \in 1 .. Len(Catalog) /\ slices[p] \in Seq(Tables)
<1>1. slices \in Seq(Seq(Tables)) /\ p \in 1 .. Len(slices) /\ Len(slices) <= Len(Catalog)
  BY DEF DriverTyped, Partitions
<1>2. slices[p] \in Seq(Tables)
  <2> DEFINE S == Seq(Tables)
  <2> HIDE DEF S
  <2>1. slices \in Seq(S)
    BY <1>1 DEF S
  <2>2. slices[p] \in S
    BY <1>1, <2>1, ElementOfSeq
  <2> QED BY <2>2 DEF S
<1> QED BY <1>1, <1>2

(* With runs and tables as they are, all but the answers is the same. *)
LEMMA AnswersSame ==
  ASSUME DriverInv, UNCHANGED held,
         NEW p \in Partitions, answer'[p] = answer[p]
  PROVE  AnswerInv(p)'
<1>1. AnswerInv(p)
  BY DEF DriverInv
<1> QED BY <1>1 DEF AnswerInv, HeldResult

LEMMA SubmitSafe ==
  ASSUME DriverInv, Submit
  PROVE  DriverInv'
<1> DEFINE n == PlanPartitions(Len(Catalog), Parallelism, Requested)
<1>1. n \in 0 .. Len(Catalog)
  BY DEF PlanPartitions
<1>2. RunInv'
  BY RunStutter DEF Submit, DriverInv
<1>3. CASE n = 0
  <2>1. /\ driver' \in {"reported", "rejected"}
        /\ UNCHANGED <<slices, task, attempt, answer, runVars>>
    BY <1>3 DEF Submit
  <2>2. ASSUME NEW p \in Partitions PROVE TaskInv(p)' /\ AnswerInv(p)'
    BY <2>1, AnswersSame DEF DriverInv, TaskInv, Latest, Partitions, runVars, tableVars
  <2> QED BY <1>2, <2>1, <2>2 DEF DriverInv, DriverTyped, Partitions
<1>4. CASE n # 0
  <2>1. PICK c \in Cuts(n) :
          slices' = [p \in 1 .. n |-> SubSeq(Catalog, c[p - 1] + 1, c[p])]
    BY <1>4 DEF Submit
  <2>2. /\ driver' = "collecting"
        /\ task' = [p \in 1 .. n |-> "waiting"]
        /\ attempt' = [p \in 1 .. n |-> 0]
        /\ answer' = [p \in 1 .. n |-> <<>>]
    BY <1>4 DEF Submit
  <2>3. slices' \in [1 .. n -> Seq(Tables)]
    <3> HIDE DEF n
    <3>1. ASSUME NEW p \in 1 .. n
          PROVE  SubSeq(Catalog, c[p - 1] + 1, c[p]) \in Seq(Tables)
      <4>0. p - 1 \in 0 .. n /\ p \in 0 .. n /\ c \in [0 .. n -> 0 .. Len(Catalog)]
        BY <1>1 DEF Cuts
      <4>1. c[p - 1] \in 0 .. Len(Catalog) /\ c[p] \in 0 .. Len(Catalog)
        BY <4>0
      <4>2. \A i \in c[p - 1] + 1 .. c[p] : Catalog[i] \in Tables
        BY <4>1, ElementOfSeq
      <4> DEFINE first == c[p - 1] + 1
                 last == c[p]
      <4>3. /\ first \in Int /\ last \in Int
            /\ \A i \in first .. last : Catalog[i] \in Tables
        BY <4>1, <4>2
      <4> HIDE DEF first, last
      <4>4. SubSeq(Catalog, first, last) \in Seq(Tables)
        BY <4>3, SubSeqProperties
      <4> QED BY <4>4 DEF first, last
    <3> QED BY <2>1, <3>1
  <2>4. slices' \in Seq(Seq(Tables)) /\ Len(slices') = n
    BY <1>1, <2>3, SequenceOf, SMTT(30)
  <2>5. Partitions' = 1 .. n
    BY <2>3 DEF Partitions
  <2>6. DriverTyped'
    BY <1>1, <2>2, <2>4, <2>5 DEF DriverTyped
  <2>7. ASSUME NEW p \in Partitions' PROVE TaskInv(p)' /\ AnswerInv(p)'
    BY <2>2, <2>5 DEF TaskInv, AnswerInv
  <2> QED BY <1>2, <2>6, <2>7 DEF DriverInv
<1> QED BY <1>3, <1>4

LEMMA LaunchSafe ==
  ASSUME DriverInv, NEW p \in Partitions, Launch(p)
  PROVE  DriverInv'
<1> DEFINE r == <<p, attempt[p] + 1>>
<1>1. /\ task[p] = "waiting" /\ driver = "collecting" /\ TaskInv(p)
      /\ task' = [task EXCEPT ![p] = "running"]
      /\ attempt' = [attempt EXCEPT ![p] = @ + 1]
      /\ UNCHANGED <<driver, slices, answer>>
      /\ DriverTyped /\ RunInv
  BY DEF Launch, DriverInv
<1>2. attempt[p] \in 0 .. MaxAttempts /\ attempt[p] < MaxAttempts
  BY <1>1 DEF TaskInv, DriverTyped
<1>3. p \in 1 .. Len(Catalog) /\ slices[p] \in Seq(Tables)
  BY <1>1, SliceTyped
<1>4. r \in Runs
  BY <1>2, <1>3
<1>5. RunInv' /\ UNCHANGED tableVars
  <2>1. Begin(r, slices[p])
    BY DEF Launch
  <2> HIDE DEF r
  <2> QED BY <1>1, <1>3, <1>4, <2>1, BeginSafe
<1>6. Partitions' = Partitions
  BY <1>1 DEF Partitions
<1>7. DriverTyped'
  BY <1>1, <1>2, <1>6 DEF DriverTyped
<1>8. ASSUME NEW q \in Partitions PROVE TaskInv(q)'
  <2>1. job' = [job EXCEPT ![r] = [NotStarted EXCEPT !.pc = FirstStep(slices[p]), !.list = slices[p]]]
    BY DEF Launch, Begin
  <2>2. CASE q = p
    <3>1. Latest(p)' = r /\ task'[p] = "running"
      BY <1>1, <1>2 DEF Latest, DriverTyped
    <3>2. job'[r].list = slices[p]
      BY <1>1, <1>4, <2>1 DEF RunInv, NotStarted
    <3> QED BY <1>1, <1>4, <2>2, <3>1, <3>2 DEF TaskInv
  <2>3. CASE q # p
    <3>1. task'[q] = task[q] /\ attempt'[q] = attempt[q] /\ TaskInv(q)
      BY <1>1, <2>3 DEF DriverInv, DriverTyped
    <3>2. Latest(q)' = Latest(q) /\ Latest(q) # r
      BY <2>3, <3>1 DEF Latest
    <3>3. Latest(q) \in Runs => job'[Latest(q)] = job[Latest(q)]
      BY <1>1, <2>1, <3>2 DEF RunInv
    <3> QED BY <1>1, <3>1, <3>2, <3>3 DEF TaskInv
  <2> QED BY <2>2, <2>3
<1>9. \A q \in Partitions : AnswerInv(q)'
  BY <1>1, <1>5, AnswersSame DEF tableVars
<1> QED BY <1>5, <1>6, <1>7, <1>8, <1>9 DEF DriverInv

LEMMA LaunchEmptySafe ==
  ASSUME DriverInv, NEW p \in Partitions, LaunchEmpty(p)
  PROVE  DriverInv'
<1>1. /\ task' = [task EXCEPT ![p] = "answered"]
      /\ UNCHANGED <<runVars, driver, slices, attempt, answer>>
      /\ DriverTyped
  BY DEF LaunchEmpty, DriverInv
<1>2. RunInv'
  BY <1>1, RunStutter DEF DriverInv
<1>3. Partitions' = Partitions /\ DriverTyped'
  BY <1>1 DEF DriverTyped, Partitions
<1>4. ASSUME NEW q \in Partitions PROVE TaskInv(q)'
  BY <1>1 DEF DriverInv, DriverTyped, TaskInv, Latest, runVars
<1>5. \A q \in Partitions : AnswerInv(q)'
  BY <1>1, AnswersSame DEF runVars, tableVars
<1> QED BY <1>2, <1>3, <1>4, <1>5 DEF DriverInv

(* What a report says is held, and a failure claims nothing. *)
LEMMA AnswerSafe ==
  ASSUME DriverInv, NEW p \in Partitions, Answer(p)
  PROVE  DriverInv'
<1> DEFINE r == Latest(p)
           records == IF Step(r, "returned") THEN ResultsOf(r) ELSE FailureOf(p)
<1>1. /\ task[p] = "running" /\ driver = "collecting" /\ TaskInv(p)
      /\ task' = [task EXCEPT ![p] = "answered"]
      /\ answer' = [answer EXCEPT ![p] = records]
      /\ UNCHANGED <<runVars, driver, slices, attempt>>
      /\ DriverTyped /\ RunInv
  BY DEF Answer, DriverInv
<1>2. RunInv' /\ UNCHANGED <<held, job>>
  BY <1>1, RunStutter DEF runVars, tableVars
<1>3. r \in Runs
  BY <1>1 DEF TaskInv
<1>4. records \in Seq(ResultRecord) /\ \A i \in 1 .. Len(records) : HeldResult(records[i], held)
  <2>1. CASE Step(r, "returned")
    <3>1. job[r] \in JobState /\ Reported(job[r])
      BY <1>1, <1>3, JobTyped DEF JobInv
    <3> DEFINE done == job[r].done
               n == Len(done)
    <3>2. done \in Seq([table: Tables, upTo: Positions]) /\ n \in Nat /\ DOMAIN done = 1 .. n
      BY <3>1 DEF JobState
    <3>3. ASSUME NEW i \in 1 .. n
          PROVE  done[i] \in [table: Tables, upTo: Positions] /\ done[i].upTo <= held[done[i].table]
      BY <3>1, <3>2, ElementOfSeq DEF Reported
    <3>4. records = [i \in 1 .. n |->
                       [failed |-> FALSE, tables |-> {done[i].table}, upTo |-> done[i].upTo]]
      BY <2>1, <3>2 DEF ResultsOf
    <3> HIDE DEF done, n, records
    <3>5. ASSUME NEW i \in 1 .. n
          PROVE  /\ records[i] \in ResultRecord
                 /\ records[i].tables = {done[i].table} /\ records[i].upTo = done[i].upTo
      BY <3>3, <3>4 DEF ResultRecord
    <3>6. records \in [1 .. n -> ResultRecord]
      BY <3>4, <3>5
    <3>7. records \in Seq(ResultRecord) /\ Len(records) = n
      BY <3>2, <3>6, SequenceOf
    <3> QED BY <3>3, <3>5, <3>7 DEF HeldResult
  <2>2. CASE ~Step(r, "returned")
    <3> DEFINE all == {slices[p][i] : i \in DOMAIN slices[p]}
               rec == [failed |-> TRUE, tables |-> all, upTo |-> 0]
    <3>1. slices[p] \in Seq(Tables)
      BY <1>1, SliceTyped
    <3>2. all \subseteq Tables
      BY <3>1, ElementOfSeq
    <3> HIDE DEF all
    <3>3. rec \in ResultRecord /\ rec.failed
      BY <3>2, ZeroIsAPosition DEF ResultRecord
    <3>4. records = <<rec>>
      BY <2>2 DEF FailureOf, all
    <3> HIDE DEF rec, records
    <3>5. records \in Seq(ResultRecord) /\ Len(records) = 1 /\ records[1] = rec
      BY <3>3, <3>4
    <3> QED BY <3>3, <3>5 DEF HeldResult
  <2> QED BY <2>1, <2>2
<1> HIDE DEF records
<1>5. Partitions' = Partitions /\ DriverTyped'
  BY <1>1, <1>4 DEF DriverTyped, Partitions
<1>6. ASSUME NEW q \in Partitions PROVE TaskInv(q)'
  <2>1. TaskInv(q) /\ (q # p => task'[q] = task[q] /\ answer'[q] = answer[q])
    BY <1>1 DEF DriverInv, DriverTyped
  <2>2. task'[p] = "answered"
    BY <1>1 DEF DriverTyped
  <2> QED BY <1>1, <1>2, <2>1, <2>2 DEF TaskInv, Latest
<1>7. ASSUME NEW q \in Partitions PROVE AnswerInv(q)'
  <2>1. CASE q = p
    <3>1. answer'[p] = records
      BY <1>1 DEF DriverTyped
    <3> QED BY <1>2, <1>4, <2>1, <3>1 DEF AnswerInv, HeldResult
  <2>2. CASE q # p
    BY <1>1, <1>2, <2>2, AnswersSame DEF DriverTyped
  <2> QED BY <2>1, <2>2
<1> QED BY <1>2, <1>5, <1>6, <1>7 DEF DriverInv

(* The run of a failed task is gone, or goes on; no table changes. *)
LEMMA FailTaskSafe ==
  ASSUME DriverInv, NEW p \in Partitions,
         driver = "collecting", task[p] = "running",
         UNCHANGED runVars \/ Gone(Latest(p)),
         FailTask(p)
  PROVE  DriverInv'
<1> DEFINE r == Latest(p)
           dead == [NotStarted EXCEPT !.pc = "dead"]
<1>1. /\ task[p] = "running" /\ driver = "collecting" /\ TaskInv(p)
      /\ UNCHANGED <<slices, attempt, answer>>
      /\ DriverTyped /\ RunInv
  BY DEF FailTask, DriverInv
<1>2. r \in Runs
  BY <1>1 DEF TaskInv
<1>3. RunInv' /\ UNCHANGED tableVars /\ \A q \in Runs \ {r} : job'[q] = job[q]
  <2>1. CASE UNCHANGED runVars
    BY <1>1, <2>1, RunStutter DEF runVars
  <2>2. CASE /\ job' = [job EXCEPT ![r] = dead]
             /\ stale' = [stale EXCEPT ![r] = FALSE]
             /\ UNCHANGED tableVars
    <3>1. dead \in JobState
      <4>1. <<>> \in Seq([table: Tables, upTo: Positions]) /\ <<>> \in Seq(Tables)
        OBVIOUS
      <4> QED BY <4>1, ZeroIsAPosition DEF NotStarted, JobState
    <3>2. JobInv(dead, FALSE)
      BY <3>1 DEF JobInv, Placed, Follows, Reported, NotStarted
    <3>3. /\ stale' \in [Runs -> BOOLEAN] /\ stale'[r] = FALSE
          /\ \A q \in Runs \ {r} : stale'[q] = stale[q]
      BY <1>1, <1>2, <2>2 DEF RunInv
    <3> HIDE DEF dead, r
    <3>4. \A q \in Runs \ {r} : job'[q] = job[q]
      BY <1>1, <2>2 DEF RunInv
    <3> QED BY <1>1, <1>2, <2>2, <3>2, <3>3, <3>4, OneJob
  <2> QED BY <2>1, <2>2 DEF Gone
<1>4. Partitions' = Partitions
  BY <1>1 DEF Partitions
<1>5. \/ /\ attempt[p] < MaxAttempts
         /\ task' = [task EXCEPT ![p] = "waiting"]
         /\ UNCHANGED driver
      \/ driver' = "aborted" /\ UNCHANGED task
  BY DEF FailTask
<1>6. DriverTyped'
  BY <1>1, <1>4, <1>5 DEF DriverTyped
<1>7. ASSUME NEW q \in Partitions PROVE TaskInv(q)'
  <2>1. TaskInv(q) /\ Latest(q)' = Latest(q) /\ (q # p => Latest(q) # r)
    BY <1>1 DEF DriverInv, Latest
  <2>2. CASE q = p
    BY <1>1, <1>5, <2>1, <2>2 DEF TaskInv, DriverTyped
  <2>3. CASE q # p
    <3>1. task'[q] = task[q]
      BY <1>1, <1>5, <2>3 DEF DriverTyped
    <3>2. Latest(q) \in Runs => job'[Latest(q)] = job[Latest(q)]
      BY <1>3, <2>1, <2>3
    <3> QED BY <1>1, <1>5, <2>1, <3>1, <3>2 DEF TaskInv
  <2> QED BY <2>2, <2>3
<1>8. \A q \in Partitions : AnswerInv(q)'
  BY <1>1, <1>3, AnswersSame DEF tableVars
<1> QED BY <1>3, <1>4, <1>6, <1>7, <1>8 DEF DriverInv

LEMMA CollectSafe ==
  ASSUME DriverInv, Collect
  PROVE  DriverInv'
<1>1. /\ driver' \in {"raised", "reported"}
      /\ UNCHANGED <<runVars, slices, task, attempt, answer>>
  BY DEF Collect
<1>2. RunInv'
  BY <1>1, RunStutter DEF DriverInv
<1>3. ASSUME NEW p \in Partitions PROVE TaskInv(p)' /\ AnswerInv(p)'
  BY <1>1, AnswersSame DEF DriverInv, TaskInv, Latest, runVars, tableVars
<1> QED BY <1>1, <1>2, <1>3 DEF DriverInv, DriverTyped, Partitions

-----------------------------------------------------------------------------
LEMMA DriverInitSafe == DriverInit => DriverInv
BY InitSafe DEF DriverInit, DriverInv, DriverTyped, TaskInv, AnswerInv, Partitions

LEMMA DriverStutter ==
  ASSUME DriverInv, UNCHANGED jobVars
  PROVE  DriverInv'
<1>1. RunInv' /\ UNCHANGED <<driver, slices, task, attempt, answer, held, job>>
  BY RunStutter DEF DriverInv, jobVars, driverVars, runVars, tableVars
<1>2. \A p \in Partitions : TaskInv(p)' /\ AnswerInv(p)'
  BY <1>1, AnswersSame DEF DriverInv, TaskInv, Latest
<1> QED BY <1>1, <1>2 DEF DriverInv, DriverTyped, Partitions

LEMMA DriverNextSafe == DriverInv /\ [DistributedNext]_jobVars => DriverInv'
<1> SUFFICES ASSUME DriverInv, [DistributedNext]_jobVars PROVE DriverInv'
  OBVIOUS
<1>1. CASE DriverStep
  BY <1>1, SubmitSafe, CollectSafe, LaunchSafe, LaunchEmptySafe, AnswerSafe DEF DriverStep
<1>2. ASSUME NEW p \in Partitions, Raise(p) \/ Lose(p) PROVE DriverInv'
  BY <1>2, FailTaskSafe DEF Raise, Lose
<1>3. ASSUME NEW r \in Runs, Work(r) PROVE DriverInv'
  BY <1>3, WorkSafe
<1>4. ASSUME NEW t \in Tables, Change(t), UNCHANGED driverVars PROVE DriverInv'
  BY <1>4, SourceSafe
<1> QED BY <1>1, <1>2, <1>3, <1>4, DriverStutter DEF DistributedNext

LEMMA DriverInvHolds == DistributedSpec => []DriverInv
<1> QED BY DriverInitSafe, DriverNextSafe, PTL DEF DistributedSpec

LEMMA DriverInvGivesTypes == DriverInv => DriverTypeOK
BY DEF DriverInv, DriverTyped, TaskInv, DriverTypeOK, Partitions

LEMMA DriverInvGivesResults == DriverInv => ResultsHold
<1> SUFFICES ASSUME DriverInv, NEW rec \in Records, ~rec.failed, NEW t \in rec.tables
             PROVE  rec.upTo <= held[t]
  BY DEF ResultsHold, Failures
<1>1. PICK p \in Partitions : \E i \in DOMAIN answer[p] : rec = answer[p][i]
  BY DEF Records
<1>2. answer[p] \in Seq(ResultRecord) /\ AnswerInv(p)
  BY DEF DriverInv, DriverTyped
<1>3. PICK i \in 1 .. Len(answer[p]) : rec = answer[p][i]
  BY <1>1, <1>2
<1> QED BY <1>2, <1>3 DEF AnswerInv, HeldResult

(* The driver's variables have their types, no partition is tried more     *)
(* often than Spark allows, and the attempt it waits for syncs the tables  *)
(* that partition was given.                                               *)
THEOREM DriverTypeCorrect == DistributedSpec => []DriverTypeOK
<1> QED BY DriverInvHolds, DriverInvGivesTypes, PTL

(* Retrying partitions is safe (distributed.py, sync_partition): no        *)
(* checkpoint gets ahead of its Delta table, though attempts Spark gave up *)
(* on may still be at work beside their successors.                        *)
THEOREM DistributedCheckpointsTrue == DistributedSpec => []CheckpointsHeld
<1>1. DriverInv => CheckpointsHeld
  BY DEF DriverInv, RunInv
<1> QED BY <1>1, DriverInvHolds, PTL

(* What the distributed report says was synced stays in the Delta tables,  *)
(* whatever lost attempts still write (distributed.py, sync_tables).       *)
THEOREM ResultsTrue == DistributedSpec => []ResultsHold
<1> QED BY DriverInvHolds, DriverInvGivesResults, PTL

-----------------------------------------------------------------------------
(* Every table is accounted for once. *)

SliceCut(n, c) == [p \in 1 .. n |-> SubSeq(Catalog, c[p - 1] + 1, c[p])]

(* One record for each table, or one for all of them. *)
Accounts(records, list) ==
  \/ /\ Len(records) = Len(list)
     /\ \A i \in 1 .. Len(list) : records[i].tables = {list[i]}
  \/ /\ Len(records) = 1
     /\ records[1].tables = {list[i] : i \in 1 .. Len(list)}

AccountInv ==
  /\ driver = "idle" => slices = <<>>
  /\ slices # <<>> => \E n \in Nat : \E c \in Cuts(n) : slices = SliceCut(n, c)
  /\ Over => \A p \in Partitions : task[p] = "answered"
  /\ \A p \in Partitions : task[p] = "answered" => Accounts(answer[p], slices[p])

LEMMA AnswerAccounts ==
  ASSUME DriverInv, NEW p \in Partitions, Answer(p)
  PROVE  Accounts(answer'[p], slices[p])
<1> DEFINE r == Latest(p)
<1>1. /\ DriverTyped /\ r \in Runs /\ job[r].list = slices[p]
      /\ answer'[p] = IF Step(r, "returned") THEN ResultsOf(r) ELSE FailureOf(p)
  BY DEF Answer, DriverInv, DriverTyped, TaskInv
<1>2. slices[p] \in Seq(Tables)
  BY <1>1, SliceTyped
<1>3. job[r] \in JobState /\ Reported(job[r])
  BY <1>1, JobTyped DEF DriverInv, JobInv
<1> HIDE DEF r
<1>4. CASE Step(r, "returned")
  <2> DEFINE done == job[r].done
             n == Len(done)
  <2>1. /\ n \in Nat /\ DOMAIN done = 1 .. n /\ n = Len(slices[p])
        /\ \A i \in 1 .. n : done[i].table = slices[p][i]
    BY <1>1, <1>3, <1>4 DEF JobState, Reported
  <2>2. answer'[p] = [i \in 1 .. n |->
          [failed |-> FALSE, tables |-> {done[i].table}, upTo |-> done[i].upTo]]
    BY <1>1, <1>4, <2>1 DEF ResultsOf
  <2> HIDE DEF done, n
  <2>3. answer'[p] \in [1 .. n -> {answer'[p][i] : i \in 1 .. n}]
    BY <2>2
  <2>4. Len(answer'[p]) = n
    BY <2>1, <2>3, SequenceOf
  <2>5. \A i \in 1 .. n : answer'[p][i].tables = {slices[p][i]}
    BY <2>1, <2>2
  <2> QED BY <2>1, <2>4, <2>5 DEF Accounts
<1>5. CASE ~Step(r, "returned")
  <2> DEFINE rec == [failed |-> TRUE, tables |-> {slices[p][i] : i \in DOMAIN slices[p]}, upTo |-> 0]
  <2>1. answer'[p] = <<rec>>
    BY <1>1, <1>5 DEF FailureOf
  <2>2. rec.tables = {slices[p][i] : i \in 1 .. Len(slices[p])}
    BY <1>2
  <2> HIDE DEF rec
  <2>3. Len(answer'[p]) = 1 /\ answer'[p][1] = rec
    BY <2>1
  <2> QED BY <2>2, <2>3 DEF Accounts
<1> QED BY <1>4, <1>5

LEMMA DriverMovesAccount ==
  ASSUME DriverInv, AccountInv, DriverStep
  PROVE  AccountInv'
<1>1. CASE Submit
  <2> DEFINE n == PlanPartitions(Len(Catalog), Parallelism, Requested)
  <2>1. n \in 0 .. Len(Catalog)
    BY DEF PlanPartitions
  <2>2. CASE n = 0
    <3>1. /\ driver = "idle" /\ driver' # "idle"
          /\ UNCHANGED <<slices, task, attempt, answer>>
      BY <1>1, <2>2 DEF Submit
    <3>2. slices = <<>> /\ Partitions' = {}
      BY <3>1 DEF AccountInv, Partitions
    <3> QED BY <3>1, <3>2 DEF AccountInv
  <2>3. CASE n # 0
    <3>1. PICK c \in Cuts(n) : slices' = SliceCut(n, c)
      BY <1>1, <2>3 DEF Submit, SliceCut
    <3>2. driver' = "collecting" /\ task' = [p \in 1 .. n |-> "waiting"]
      BY <1>1, <2>3 DEF Submit
    <3> HIDE DEF n
    <3>3. Partitions' = 1 .. n /\ n \in Nat
      BY <2>1, <3>1 DEF Partitions, SliceCut
    <3> QED BY <3>1, <3>2, <3>3 DEF AccountInv, Over
  <2> QED BY <2>2, <2>3
<1>2. CASE Collect
  BY <1>2 DEF Collect, AccountInv, Over, Partitions
<1>3. ASSUME NEW p \in Partitions, Launch(p) PROVE AccountInv'
  <2>1. /\ driver = "collecting" /\ task' = [task EXCEPT ![p] = "running"]
        /\ UNCHANGED <<driver, slices, answer>> /\ DriverTyped
    BY <1>3 DEF Launch, DriverInv
  <2>2. \A q \in Partitions : task'[q] = "answered" => task[q] = "answered"
    BY <2>1 DEF DriverTyped
  <2> QED BY <2>1, <2>2 DEF AccountInv, Over, Partitions
<1>4. ASSUME NEW p \in Partitions, LaunchEmpty(p) PROVE AccountInv'
  <2>1. /\ driver = "collecting" /\ task[p] = "waiting" /\ slices[p] = <<>>
        /\ task' = [task EXCEPT ![p] = "answered"]
        /\ UNCHANGED <<driver, slices, answer>> /\ DriverTyped /\ answer[p] = <<>>
    BY <1>4 DEF LaunchEmpty, DriverInv, TaskInv
  <2>2. Accounts(answer[p], slices[p])
    BY <2>1 DEF Accounts
  <2>3. \A q \in Partitions : task'[q] = "answered" => task[q] = "answered" \/ q = p
    BY <2>1 DEF DriverTyped
  <2> QED BY <2>1, <2>2, <2>3 DEF AccountInv, Over, Partitions
<1>5. ASSUME NEW p \in Partitions, Answer(p) PROVE AccountInv'
  <2>1. /\ driver = "collecting"
        /\ task' = [task EXCEPT ![p] = "answered"]
        /\ UNCHANGED <<driver, slices>> /\ DriverTyped
    BY <1>5 DEF Answer, DriverInv
  <2>2. \A q \in Partitions : q # p => task'[q] = task[q] /\ answer'[q] = answer[q]
    BY <1>5, <2>1 DEF DriverTyped, Answer
  <2>3. Accounts(answer'[p], slices[p])
    BY <1>5, AnswerAccounts
  <2> QED BY <2>1, <2>2, <2>3 DEF AccountInv, Over, Partitions
<1> QED BY <1>1, <1>2, <1>3, <1>4, <1>5 DEF DriverStep

LEMMA AccountNext == DriverInv /\ AccountInv /\ [DistributedNext]_jobVars => AccountInv'
<1> SUFFICES ASSUME DriverInv, AccountInv, [DistributedNext]_jobVars PROVE AccountInv'
  OBVIOUS
<1>1. ASSUME NEW p \in Partitions, Raise(p) \/ Lose(p) PROVE AccountInv'
  <2>0. driver = "collecting" /\ FailTask(p)
    BY <1>1 DEF Raise, Lose
  <2>1. /\ driver = "collecting" /\ driver' \in {"collecting", "aborted"}
        /\ UNCHANGED <<slices, answer>> /\ DriverTyped
    BY <2>0 DEF FailTask, DriverInv
  <2>2. \A q \in Partitions : task'[q] = "answered" => task[q] = "answered"
    BY <2>0, <2>1 DEF FailTask, DriverTyped
  <2> QED BY <2>1, <2>2 DEF AccountInv, Over, Partitions
<1>2. CASE UNCHANGED driverVars
  BY <1>2 DEF AccountInv, Over, Partitions, driverVars
<1>3. ASSUME NEW r \in Runs, Work(r) PROVE UNCHANGED driverVars
  BY <1>3 DEF Work
<1> QED
  BY <1>1, <1>2, <1>3, DriverMovesAccount DEF DistributedNext, jobVars

(* Each position of the catalog falls into one part of a cut. *)
LEMMA CutIsMonotonic ==
  ASSUME NEW n \in Nat, NEW c \in Cuts(n), NEW p \in 0 .. n
  PROVE  \A q \in p .. n : c[p] <= c[q]
<1>1. c \in [0 .. n -> 0 .. Len(Catalog)] /\ \A q \in 1 .. n : c[q - 1] <= c[q]
  BY DEF Cuts
<1> DEFINE S == {d \in Nat : p + d <= n => c[p] <= c[p + d]}
<1>2. 0 \in S
  BY <1>1
<1>3. ASSUME NEW d \in Nat, d \in S PROVE d + 1 \in S
  <2> SUFFICES ASSUME p + (d + 1) <= n PROVE c[p] <= c[p + (d + 1)]
    OBVIOUS
  <2>1. p + d \in 0 .. n /\ c[p] <= c[p + d]
    BY <1>3
  <2>2. p + (d + 1) \in 1 .. n /\ (p + (d + 1)) - 1 = p + d
    BY <2>1
  <2>3. c[p + d] <= c[p + (d + 1)]
    BY <1>1, <2>2
  <2>4. c[p] \in Nat /\ c[p + d] \in Nat /\ c[p + (d + 1)] \in Nat
    BY <1>1, <2>1, <2>2
  <2> QED BY <2>1, <2>3, <2>4
<1>4. Nat \subseteq S
  <2> HIDE DEF S
  <2> QED BY <1>2, <1>3, EveryNatural
<1> QED
  <2> SUFFICES ASSUME NEW q \in p .. n PROVE c[p] <= c[q]
    OBVIOUS
  <2>1. q - p \in Nat /\ p + (q - p) = q
    OBVIOUS
  <2>2. q - p \in S
    BY <1>4, <2>1
  <2> QED BY <2>1, <2>2

LEMMA OnePart ==
  ASSUME NEW n \in Nat, NEW c \in Cuts(n), NEW i \in 1 .. Len(Catalog)
  PROVE  \E p \in 1 .. n :
           /\ c[p - 1] < i /\ i <= c[p]
           /\ \A q \in 1 .. n : c[q - 1] < i /\ i <= c[q] => q = p
<1>1. /\ c \in [0 .. n -> 0 .. Len(Catalog)]
      /\ c[0] = 0 /\ c[n] = Len(Catalog)
  BY DEF Cuts
<1> DEFINE T == {q \in 0 .. n : i <= c[q]}
<1>2. PICK p \in T : \A q \in T : p <= q
  <2>1. T \subseteq Nat /\ n \in T
    BY <1>1
  <2> HIDE DEF T
  <2> QED BY <2>1, LeastNatural
<1>3. p \in 1 .. n /\ i <= c[p]
  BY <1>1, <1>2
<1>4. p - 1 \in 0 .. n /\ p - 1 \notin T
  BY <1>2, <1>3
<1>5. c[p - 1] < i
  <2>1. c[p - 1] \in Nat
    BY <1>1, <1>4
  <2> QED BY <1>4, <2>1
<1>6. ASSUME NEW q \in 1 .. n, c[q - 1] < i, i <= c[q] PROVE q = p
  <2>1. p <= q
    BY <1>2, <1>6
  <2>2. ~(p <= q - 1)
    <3> SUFFICES ASSUME p <= q - 1 PROVE FALSE
      OBVIOUS
    <3>1. p \in 0 .. n /\ q - 1 \in p .. n
      BY <1>3
    <3>2. c[p] <= c[q - 1]
      BY <3>1, CutIsMonotonic
    <3>3. c[p] \in Nat /\ c[q - 1] \in Nat
      BY <1>1, <3>1
    <3> QED BY <1>3, <1>6, <3>2, <3>3
  <2> QED BY <1>3, <2>1, <2>2
<1> QED BY <1>3, <1>5, <1>6

(* What the partitions were given. *)
LEMMA SliceOf ==
  ASSUME NEW n \in Nat, NEW c \in Cuts(n), slices = SliceCut(n, c), NEW p \in 1 .. n
  PROVE  /\ c[p - 1] \in Nat /\ c[p] \in Nat /\ c[p] <= Len(Catalog)
         /\ Len(slices[p]) = c[p] - c[p - 1]
         /\ \A k \in 1 .. Len(slices[p]) : slices[p][k] = Catalog[c[p - 1] + k]
<1>1. /\ p - 1 \in 0 .. n /\ p \in 0 .. n /\ c \in [0 .. n -> 0 .. Len(Catalog)]
      /\ c[p - 1] <= c[p]
  BY DEF Cuts
<1> DEFINE first == c[p - 1] + 1
           last == c[p]
<1>2. c[p - 1] \in 0 .. Len(Catalog) /\ last \in 0 .. Len(Catalog)
  BY <1>1
<1>3. first \in Int /\ last \in Int /\ \A i \in first .. last : Catalog[i] \in Tables
  BY <1>2, ElementOfSeq
<1>4. slices[p] = SubSeq(Catalog, first, last)
  BY DEF SliceCut
<1>5. /\ Len(slices[p]) = IF first <= last THEN last - first + 1 ELSE 0
      /\ \A i \in 1 .. last - first + 1 : slices[p][i] = Catalog[first + i - 1]
  <2> HIDE DEF first, last
  <2> QED BY <1>3, <1>4, SubSeqProperties
<1>6. Len(slices[p]) = c[p] - c[p - 1]
  BY <1>1, <1>2, <1>5
<1>7. ASSUME NEW k \in 1 .. Len(slices[p]) PROVE slices[p][k] = Catalog[c[p - 1] + k]
  <2>1. slices[p][k] = Catalog[first + k - 1] /\ first + k - 1 = c[p - 1] + k
    BY <1>2, <1>5, <1>6, SMTT(30)
  <2> QED BY <2>1
<1> QED BY <1>2, <1>6, <1>7

LEMMA PlacesOf ==
  ASSUME NEW n \in Nat, NEW c \in Cuts(n), slices = SliceCut(n, c), NEW p \in 1 .. n
  PROVE  /\ \A k \in 1 .. Len(slices[p]) :
              /\ c[p - 1] + k \in 1 .. Len(Catalog)
              /\ c[p - 1] < c[p - 1] + k /\ c[p - 1] + k <= c[p]
         /\ \A i \in Nat : c[p - 1] < i /\ i <= c[p] =>
              \E k \in 1 .. Len(slices[p]) : c[p - 1] + k = i
<1> DEFINE first == c[p - 1]
           last == c[p]
           len == Len(slices[p])
           all == Len(Catalog)
<1>1. first \in Nat /\ last \in Nat /\ last <= all /\ len = last - first /\ all \in Nat
  BY SliceOf
<1> HIDE DEF first, last, len, all
<1>2. \A k \in 1 .. len : first + k \in 1 .. all /\ first < first + k /\ first + k <= last
  BY <1>1
<1>3. ASSUME NEW i \in Nat, first < i, i <= last
      PROVE  \E k \in 1 .. len : first + k = i
  <2>1. i - first \in 1 .. len /\ first + (i - first) = i
    BY <1>1, <1>3
  <2> QED BY <2>1
<1> QED BY <1>2, <1>3 DEF first, last, len, all

(* A mention of a table is one of its place in a slice. *)
LEMMA MentionsOnce ==
  ASSUME ValidCatalog(Catalog), Tables = {Catalog[i] : i \in 1 .. Len(Catalog)},
         DriverInv, AccountInv, Over, slices # <<>>, NEW t \in Tables
  PROVE  \E pi : Mentions(t) = {pi}
<1>0. PICK n \in Nat : \E c \in Cuts(n) : slices = SliceCut(n, c)
  BY DEF AccountInv
<1>1. PICK c \in Cuts(n) : slices = SliceCut(n, c)
  BY <1>0
<1>2. Partitions = 1 .. n
  BY <1>1 DEF Partitions, SliceCut
<1>3. PICK i \in 1 .. Len(Catalog) : t = Catalog[i]
  OBVIOUS
<1>4. PICK p \in 1 .. n :
        /\ c[p - 1] < i /\ i <= c[p]
        /\ \A q \in 1 .. n : c[q - 1] < i /\ i <= c[q] => q = p
  BY OnePart
<1>5. PICK here \in 1 .. Len(slices[p]) : slices[p][here] = t /\ c[p - 1] + here = i
  <2>0. i \in Nat /\ c[p - 1] < i /\ i <= c[p]
    BY <1>4
  <2>1. PICK k \in 1 .. Len(slices[p]) : c[p - 1] + k = i
    <3>1. \A at \in Nat :
            c[p - 1] < at /\ at <= c[p] => \E k \in 1 .. Len(slices[p]) : c[p - 1] + k = at
      <4>1. n \in Nat /\ c \in Cuts(n) /\ slices = SliceCut(n, c) /\ p \in 1 .. n
        BY <1>1
      <4> QED BY <4>1, PlacesOf, ZenonT(60)
    <3> QED BY <2>0, <3>1
  <2>2. slices[p][k] = Catalog[c[p - 1] + k]
    BY <1>1, SliceOf, ZenonT(30)
  <2> QED BY <1>3, <2>1, <2>2
<1>6. ASSUME NEW q \in 1 .. n, NEW k \in 1 .. Len(slices[q]), slices[q][k] = t
      PROVE  q = p /\ k = here
  <2> DEFINE at == c[q - 1] + k
  <2>1. at \in 1 .. Len(Catalog) /\ c[q - 1] < at /\ at <= c[q]
    BY <1>1, PlacesOf
  <2>2. slices[q][k] = Catalog[at]
    BY <1>1, SliceOf, ZenonT(30)
  <2>3. at = i
    <3>1. DOMAIN Catalog = 1 .. Len(Catalog)
      OBVIOUS
    <3> HIDE DEF at
    <3> QED BY <1>3, <1>6, <2>1, <2>2, <3>1 DEF ValidCatalog
  <2>4. q = p
    <3> HIDE DEF at
    <3> QED BY <1>4, <2>1, <2>3
  <2>5. c[p - 1] \in Nat
    BY <1>1, SliceOf
  <2>6. c[p - 1] + k = c[p - 1] + here
    BY <1>5, <2>3, <2>4
  <2>7. k = here
    <3> DEFINE a == c[p - 1]
    <3>1. a \in Nat /\ a + k = a + here /\ k \in Int /\ here \in Int
      BY <2>5, <2>6
    <3> HIDE DEF a
    <3> QED BY <3>1
  <2> QED BY <2>4, <2>7
<1>7. ASSUME NEW q \in 1 .. n
      PROVE  /\ slices[q] \in Seq(Tables) /\ answer[q] \in Seq(ResultRecord)
             /\ DOMAIN answer[q] = 1 .. Len(answer[q])
             /\ Accounts(answer[q], slices[q])
  <2>1. DriverTyped /\ q \in Partitions
    BY <1>2 DEF DriverInv
  <2>2. slices[q] \in Seq(Tables) /\ answer[q] \in Seq(ResultRecord)
    BY <2>1, SliceTyped DEF DriverTyped
  <2>3. Accounts(answer[q], slices[q])
    BY <1>2, <2>1 DEF AccountInv
  <2>4. DOMAIN answer[q] = 1 .. Len(answer[q])
    BY <2>2, SMTT(30)
  <2> QED BY <2>2, <2>3, <2>4
<1>8. ASSUME NEW q \in 1 .. n, NEW j \in DOMAIN answer[q], t \in answer[q][j].tables
      PROVE  q = p
  <2>0. j \in 1 .. Len(answer[q]) /\ Accounts(answer[q], slices[q])
    BY <1>7, <1>8
  <2>1. \E k \in 1 .. Len(slices[q]) : slices[q][k] = t
    <3>1. CASE /\ Len(answer[q]) = Len(slices[q])
               /\ \A k \in 1 .. Len(slices[q]) : answer[q][k].tables = {slices[q][k]}
      <4>1. j \in 1 .. Len(slices[q]) /\ answer[q][j].tables = {slices[q][j]}
        BY <2>0, <3>1
      <4> QED BY <1>8, <4>1
    <3>2. CASE /\ Len(answer[q]) = 1
               /\ answer[q][1].tables = {slices[q][k] : k \in 1 .. Len(slices[q])}
      <4>1. j = 1
        BY <2>0, <3>2
      <4> QED BY <1>8, <3>2, <4>1
    <3> QED BY <2>0, <3>1, <3>2 DEF Accounts
  <2> QED BY <1>6, <2>1
<1> DEFINE Sole(j) == /\ t \in answer[p][j].tables
                      /\ \A k \in DOMAIN answer[p] : t \in answer[p][k].tables => k = j
<1>9. \E j \in DOMAIN answer[p] : Sole(j)
  <2>1. CASE /\ Len(answer[p]) = Len(slices[p])
             /\ \A k \in 1 .. Len(slices[p]) : answer[p][k].tables = {slices[p][k]}
    <3>1. here \in DOMAIN answer[p] /\ t \in answer[p][here].tables
      BY <1>5, <1>7, <2>1
    <3>2. ASSUME NEW k \in DOMAIN answer[p], t \in answer[p][k].tables
          PROVE  k = here
      <4>1. k \in 1 .. Len(slices[p])
        BY <1>7, <2>1
      <4>2. slices[p][k] = t
        BY <2>1, <3>2, <4>1
      <4> QED BY <1>6, <4>1, <4>2
    <3> QED BY <3>1, <3>2
  <2>2. CASE /\ Len(answer[p]) = 1
             /\ answer[p][1].tables = {slices[p][k] : k \in 1 .. Len(slices[p])}
    <3>1. DOMAIN answer[p] = {1}
      <4>1. DOMAIN answer[p] = 1 .. 1
        BY <1>7, <2>2
      <4> QED BY <4>1
    <3>2. t \in answer[p][1].tables
      BY <1>5, <2>2
    <3> QED BY <3>1, <3>2
  <2> QED BY <1>7, <2>1, <2>2 DEF Accounts
<1>10. PICK j \in DOMAIN answer[p] : Sole(j)
  BY <1>9, Zenon
<1>11. <<p, j>> \in Mentions(t)
  <2>1. p \in Partitions /\ j \in DOMAIN answer[p] /\ t \in answer[p][j].tables
    BY <1>2, <1>10
  <2>2. <<p, j>>[1] = p /\ <<p, j>>[2] = j
    OBVIOUS
  <2>3. <<p, j>> \in UNION {{q} \X DOMAIN answer[q] : q \in Partitions}
    <3>1. <<p, j>> \in {p} \X DOMAIN answer[p]
      BY <2>1
    <3> QED BY <2>1, <3>1
  <2> QED BY <2>1, <2>2, <2>3 DEF Mentions
<1>12. ASSUME NEW pi \in Mentions(t) PROVE pi = <<p, j>>
  <2>1. PICK q \in Partitions : pi \in {q} \X DOMAIN answer[q]
    BY DEF Mentions
  <2>2. /\ pi[1] = q /\ pi[2] \in DOMAIN answer[q] /\ pi = <<pi[1], pi[2]>>
        /\ t \in answer[pi[1]][pi[2]].tables
    BY <2>1 DEF Mentions
  <2>3. q = p
    BY <1>2, <1>8, <2>2
  <2> QED BY <1>10, <2>2, <2>3
<1> QED BY <1>11, <1>12

(* In the report of sync_tables_distributed every configured table appears *)
(* once, as a result or in its partition's failure, wherever Spark cuts a  *)
(* catalog without duplicates and however often it tries a partition.      *)
THEOREM AllAccountedOnce ==
  ValidCatalog(Catalog) /\ Tables = {Catalog[i] : i \in 1 .. Len(Catalog)} =>
    (DistributedSpec => []AccountedOnce)
<1> SUFFICES ASSUME ValidCatalog(Catalog), Tables = {Catalog[i] : i \in 1 .. Len(Catalog)}
             PROVE  DistributedSpec => []AccountedOnce
  OBVIOUS
<1>1. DriverInit => AccountInv
  BY DEF DriverInit, AccountInv, Over, Partitions
<1>2. DriverInv /\ AccountInv => AccountedOnce
  BY MentionsOnce, FS_Singleton DEF AccountedOnce
<1> QED
  BY <1>1, <1>2, AccountNext, DriverInvHolds, PTL DEF DistributedSpec
=============================================================================
