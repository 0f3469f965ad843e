--------------------------- MODULE SyncRunProofs ---------------------------
(***************************************************************************)
(* Theorems about SyncRun, for any tables, any number of runs and any      *)
(* catalog.  The steps of a run are proved safe on their own first, so     *)
(* that they also serve where something else starts the runs.              *)
(***************************************************************************)
EXTENDS SyncRun, SequenceTheorems, TLAPS

Positions == 0 .. MaxChanges

JobState ==
  [pc: {"new"} \cup Underway \cup Ended, list: Seq(Tables), pos: Nat,
   from: Positions, seen: Positions,
   done: Seq([table: Tables, upTo: Positions]), named: BOOLEAN]

TablesTyped ==
  /\ broken \subseteq Tables
  /\ changes \in [Tables -> Positions]
  /\ held \in [Tables -> Positions]
  /\ ckpt \in [Tables -> Positions]

(* Where in its list a run is, and how many tables it has reported. *)
Placed(j) ==
  /\ j.pc = "connect" => j.list # <<>> /\ Len(j.done) = 0
  /\ j.pc \in Underway \ {"connect"} => j.pos \in 1 .. Len(j.list)
  /\ j.pc \in Underway \ {"connect", "progress"} => Len(j.done) = j.pos - 1
  /\ j.pc = "progress" => Len(j.done) = j.pos

(* What a run knows of its table, if `contested` says whether its handle   *)
(* was overtaken by another commit: the position it started from is held,  *)
(* what it merges is not behind what is held, and what it records is held. *)
Follows(j, contested) ==
  LET t == j.list[j.pos] IN
  /\ j.pc \in {"open", "query", "merge"} => j.from <= held[t]
  /\ j.pc = "merge" => j.seen <= changes[t]
  /\ j.pc = "merge" /\ ~contested => held[t] <= j.seen
  /\ j.pc = "record" => j.seen <= held[t]

Reported(j) ==
  /\ Len(j.done) <= Len(j.list)
  /\ \A i \in 1 .. Len(j.done) :
       j.done[i].table = j.list[i] /\ j.done[i].upTo <= held[j.list[i]]
  /\ j.pc = "returned" => Len(j.done) = Len(j.list)

JobInv(j, contested) ==
  j \in JobState /\ Placed(j) /\ Follows(j, contested) /\ Reported(j)

RunInv ==
  /\ TablesTyped
  /\ CheckpointsHeld
  /\ stale \in [Runs -> BOOLEAN]
  /\ job \in [Runs -> JobState]
  /\ \A r \in Runs : JobInv(job[r], stale[r])

USE RunAssumption DEF Underway, Ended, Step

-----------------------------------------------------------------------------
(* A step that changes one run and no table. *)
LEMMA OneJob ==
  ASSUME RunInv, NEW r \in Runs, NEW j,
         UNCHANGED tableVars,
         job' = [job EXCEPT ![r] = j],
         stale' \in [Runs -> BOOLEAN],
         \A q \in Runs \ {r} : stale'[q] = stale[q],
         JobInv(j, stale'[r])
  PROVE  RunInv'
<1>1. TablesTyped' /\ CheckpointsHeld'
  BY DEF RunInv, TablesTyped, CheckpointsHeld, tableVars, Positions
<1>2. job' \in [Runs -> JobState] /\ job'[r] = j /\ \A q \in Runs \ {r} : job'[q] = job[q]
  BY DEF RunInv, JobInv
<1>3. ASSUME NEW q \in Runs PROVE JobInv(job[q], stale[q])' <=> JobInv(job'[q], stale'[q])
  BY DEF JobInv, JobState, Placed, Follows, Reported, tableVars, Positions
<1>4. ASSUME NEW q \in Runs PROVE JobInv(job'[q], stale'[q])
  <2>1. CASE q = r BY <2>1, <1>2
  <2>2. CASE q # r BY <2>2, <1>2 DEF RunInv
  <2> QED BY <2>1, <2>2
<1> QED BY <1>1, <1>2, <1>3, <1>4 DEF RunInv

LEMMA JobTyped ==
  ASSUME RunInv, NEW r \in Runs
  PROVE  /\ job[r] \in JobState
         /\ JobInv(job[r], stale[r])
         /\ TablesTyped
         /\ CheckpointsHeld
BY DEF RunInv

LEMMA CurrentIsATable ==
  ASSUME RunInv, NEW r \in Runs, job[r].pc \in Underway \ {"connect"}
  PROVE  Current(r) \in Tables
<1>1. job[r].list \in Seq(Tables) /\ job[r].pos \in 1 .. Len(job[r].list)
  BY JobTyped DEF JobInv, JobState, Placed
<1> QED BY <1>1, ElementOfSeq DEF Current

LEMMA BeginSafe ==
  ASSUME RunInv, NEW r \in Runs, NEW list \in Seq(Tables), Begin(r, list)
  PROVE  RunInv' /\ UNCHANGED tableVars
<1> DEFINE j == [NotStarted EXCEPT !.pc = FirstStep(list), !.list = list]
<1>1. j \in JobState
  <2>1. FirstStep(list) \in {"failed", "returned", "connect"}
    BY DEF FirstStep
  <2>2. 0 \in Positions /\ <<>> \in Seq([table: Tables, upTo: Positions])
    BY DEF Positions
  <2> QED BY <2>1, <2>2 DEF NotStarted, JobState
<1>2. JobInv(j, FALSE)
  BY <1>1 DEF JobInv, Placed, Follows, Reported, NotStarted, FirstStep
<1>3. /\ job' = [job EXCEPT ![r] = j]
      /\ stale' \in [Runs -> BOOLEAN] /\ stale'[r] = FALSE
      /\ \A q \in Runs \ {r} : stale'[q] = stale[q]
      /\ UNCHANGED tableVars
  BY DEF Begin, RunInv
<1> HIDE DEF j
<1> QED BY <1>2, <1>3, OneJob

LEMMA ConnectSafe ==
  ASSUME RunInv, NEW r \in Runs, Connect(r)
  PROVE  RunInv' /\ UNCHANGED tableVars
<1> DEFINE j == [job[r] EXCEPT !.pc = "read", !.pos = 1]
<1>1. job[r] \in JobState /\ JobInv(job[r], stale[r])
  BY JobTyped
<1>2. j \in JobState
  BY <1>1 DEF JobState
<1>3. JobInv(j, stale[r])
  BY <1>1, <1>2 DEF JobInv, Placed, Follows, Reported, JobState, Connect
<1>4. job' = [job EXCEPT ![r] = j] /\ UNCHANGED <<tableVars, stale>>
  BY <1>1 DEF Connect, RunInv
<1> HIDE DEF j
<1> QED BY <1>3, <1>4, OneJob DEF RunInv

LEMMA ReadSafe ==
  ASSUME RunInv, NEW r \in Runs, ReadCheckpoint(r)
  PROVE  RunInv' /\ UNCHANGED tableVars
<1>1. PICK value \in {ckpt[Current(r)], 0} :
        job' = [job EXCEPT ![r].pc = "open", ![r].from = value]
  BY DEF ReadCheckpoint
<1> DEFINE j == [job[r] EXCEPT !.pc = "open", !.from = value]
<1>2. job[r] \in JobState /\ JobInv(job[r], stale[r]) /\ Current(r) \in Tables
  BY JobTyped, CurrentIsATable DEF ReadCheckpoint
<1>3. value \in Positions /\ value <= held[Current(r)]
  BY <1>2, JobTyped DEF TablesTyped, CheckpointsHeld, Positions
<1>4. j \in JobState
  BY <1>2, <1>3 DEF JobState
<1>5. JobInv(j, stale[r])
  BY <1>2, <1>3, <1>4 DEF JobInv, Placed, Follows, Reported, JobState, ReadCheckpoint, Current
<1>6. job' = [job EXCEPT ![r] = j] /\ UNCHANGED <<tableVars, stale>>
  BY <1>1, <1>2 DEF ReadCheckpoint, RunInv
<1> HIDE DEF j
<1> QED BY <1>5, <1>6, OneJob DEF RunInv

LEMMA OpenSafe ==
  ASSUME RunInv, NEW r \in Runs, OpenTable(r)
  PROVE  RunInv' /\ UNCHANGED tableVars
<1> DEFINE j == [job[r] EXCEPT !.pc = "query"]
<1>1. job[r] \in JobState /\ JobInv(job[r], stale[r])
  BY JobTyped
<1>2. j \in JobState
  BY <1>1 DEF JobState
<1>3. JobInv(j, FALSE)
  BY <1>1, <1>2 DEF JobInv, Placed, Follows, Reported, JobState, OpenTable
<1>4. /\ job' = [job EXCEPT ![r] = j]
      /\ stale' \in [Runs -> BOOLEAN] /\ stale'[r] = FALSE
      /\ \A q \in Runs \ {r} : stale'[q] = stale[q]
      /\ UNCHANGED tableVars
  BY <1>1 DEF OpenTable, RunInv
<1> HIDE DEF j
<1> QED BY <1>3, <1>4, OneJob

LEMMA QuerySafe ==
  ASSUME RunInv, NEW r \in Runs, Query(r)
  PROVE  RunInv' /\ UNCHANGED tableVars
<1> DEFINE j == [job[r] EXCEPT !.pc = "merge", !.seen = changes[Current(r)]]
<1>1. job[r] \in JobState /\ JobInv(job[r], stale[r]) /\ Current(r) \in Tables
  BY JobTyped, CurrentIsATable DEF Query
<1>2. changes[Current(r)] \in Positions /\ held[Current(r)] <= changes[Current(r)]
  BY <1>1, JobTyped DEF TablesTyped, CheckpointsHeld
<1>3. j \in JobState
  BY <1>1, <1>2 DEF JobState
<1>4. JobInv(j, stale[r])
  <2>1. /\ j.pc = "merge" /\ j.seen = changes[Current(r)] /\ j.from = job[r].from
        /\ j.list = job[r].list /\ j.pos = job[r].pos /\ j.done = job[r].done
    BY <1>1 DEF JobState
  <2>2. Placed(j) /\ Reported(j)
    BY <1>1, <2>1 DEF JobInv, Placed, Reported, Query
  <2>3. held[Current(r)] \in Positions
    BY <1>1, JobTyped DEF TablesTyped
  <2>4. Follows(j, stale[r])
    BY <1>1, <1>2, <2>1, <2>3 DEF JobInv, Follows, Query, Current, Positions
  <2> QED BY <1>3, <2>2, <2>4 DEF JobInv
<1>5. job' = [job EXCEPT ![r] = j] /\ UNCHANGED <<tableVars, stale>>
  BY <1>1 DEF Query, RunInv
<1> HIDE DEF j
<1> QED BY <1>4, <1>5, OneJob DEF RunInv


LEMMA ZeroIsAPosition == 0 \in Positions
BY DEF Positions

(* A run that ends early. *)
LEMMA Stopped ==
  ASSUME RunInv, NEW r \in Runs, NEW j \in JobState,
         j.pc \in Ended \ {"returned"}, j.list = job[r].list, j.done = job[r].done
  PROVE  JobInv(j, stale[r])
<1>1. JobInv(job[r], stale[r])
  BY JobTyped
<1> QED BY <1>1 DEF JobInv, Placed, Follows, Reported

LEMMA FailureSafe ==
  ASSUME RunInv, NEW r \in Runs, Reject(r) \/ Conflict(r) \/ Fail(r)
  PROVE  RunInv' /\ UNCHANGED tableVars
<1>1. PICK kind : job' = [job EXCEPT ![r] = FailedWith(r, kind)]
  BY DEF Reject, Conflict, Fail
<1> DEFINE j == FailedWith(r, kind)
<1>2. /\ j \in JobState /\ j.pc = "failed"
      /\ j.list = job[r].list /\ j.done = job[r].done
  <2> DEFINE named == job[r].pos > 0 /\ kind \in Annotated \cup NamedByField
  <2>1. named \in BOOLEAN
    OBVIOUS
  <2>2. j = [job[r] EXCEPT !.pc = "failed", !.from = 0, !.seen = 0, !.named = named]
    BY DEF FailedWith
  <2> HIDE DEF named, j
  <2> QED BY <2>1, <2>2, JobTyped, ZeroIsAPosition DEF JobState
<1>3. UNCHANGED <<tableVars, stale>>
  BY DEF Reject, Conflict, Fail
<1> HIDE DEF j
<1>4. JobInv(j, stale[r])
  BY <1>2, Stopped
<1> QED BY <1>1, <1>3, <1>4, OneJob DEF RunInv, j

LEMMA DieSafe ==
  ASSUME RunInv, NEW r \in Runs, Die(r)
  PROVE  RunInv' /\ UNCHANGED tableVars
<1> DEFINE j == [job[r] EXCEPT !.pc = "dead", !.from = 0, !.seen = 0]
<1>1. /\ j \in JobState /\ j.pc = "dead"
      /\ j.list = job[r].list /\ j.done = job[r].done
  BY JobTyped, ZeroIsAPosition DEF JobState
<1>2. job' = [job EXCEPT ![r] = j] /\ UNCHANGED <<tableVars, stale>>
  BY JobTyped DEF Die, RunInv
<1> HIDE DEF j
<1>3. JobInv(j, stale[r])
  BY <1>1, Stopped
<1> QED BY <1>2, <1>3, OneJob DEF RunInv

LEMMA InterruptSafe ==
  ASSUME RunInv, NEW r \in Runs, Interrupt(r)
  PROVE  RunInv' /\ UNCHANGED tableVars
<1> DEFINE j == [job[r] EXCEPT !.pc = "interrupted"]
<1>1. /\ j \in JobState /\ j.pc = "interrupted"
      /\ j.list = job[r].list /\ j.done = job[r].done
  BY JobTyped DEF JobState
<1>2. job' = [job EXCEPT ![r] = j] /\ UNCHANGED <<tableVars, stale>>
  BY JobTyped DEF Interrupt, RunInv
<1> HIDE DEF j
<1>3. JobInv(j, stale[r])
  BY <1>1, Stopped
<1> QED BY <1>2, <1>3, OneJob DEF RunInv

LEMMA ProgressSafe ==
  ASSUME RunInv, NEW r \in Runs, KeepGoing(r)
  PROVE  RunInv' /\ UNCHANGED tableVars
<1>1. job[r] \in JobState /\ JobInv(job[r], stale[r])
  BY JobTyped
<1>2. CASE MoreTables(r)
  <2> DEFINE j == [job[r] EXCEPT !.pc = "read", !.pos = @ + 1]
  <2>0. job[r].pos + 1 \in Nat
    BY <1>1 DEF JobState
  <2>1. /\ j \in JobState /\ j.pc = "read" /\ j.pos = job[r].pos + 1
        /\ j.list = job[r].list /\ j.done = job[r].done
    BY <1>1, <2>0 DEF JobState
  <2>2. job' = [job EXCEPT ![r] = j] /\ UNCHANGED <<tableVars, stale>>
    BY <1>1, <1>2 DEF KeepGoing, RunInv
  <2> HIDE DEF j
  <2>3. JobInv(j, stale[r])
    BY <1>1, <1>2, <2>1 DEF JobInv, Placed, Follows, Reported, KeepGoing, MoreTables, JobState
  <2> QED BY <2>2, <2>3, OneJob DEF RunInv
<1>3. CASE ~MoreTables(r)
  <2> DEFINE j == [job[r] EXCEPT !.pc = "returned"]
  <2>1. /\ j \in JobState /\ j.pc = "returned"
        /\ j.list = job[r].list /\ j.done = job[r].done
    BY <1>1 DEF JobState
  <2>2. job' = [job EXCEPT ![r] = j] /\ UNCHANGED <<tableVars, stale>>
    BY <1>1, <1>3 DEF KeepGoing, RunInv
  <2> HIDE DEF j
  <2>3. JobInv(j, stale[r])
    BY <1>1, <1>3, <2>1 DEF JobInv, Placed, Follows, Reported, KeepGoing, MoreTables, JobState
  <2> QED BY <2>2, <2>3, OneJob DEF RunInv
<1> QED BY <1>2, <1>3

(* A table is reported as far as the run has seen it, which is held. *)
LEMMA FinishedSafe ==
  ASSUME RunInv, NEW r \in Runs, job[r].pc \in {"merge", "record"},
         job[r].seen <= held[Current(r)]
  PROVE  JobInv(Finished(r), stale[r])
<1>1. /\ job[r] \in JobState /\ JobInv(job[r], stale[r]) /\ Current(r) \in Tables
      /\ job[r].done \in Seq([table: Tables, upTo: Positions])
  BY JobTyped, CurrentIsATable DEF JobState
<1> DEFINE e == [table |-> Current(r), upTo |-> job[r].seen]
<1>2. e \in [table: Tables, upTo: Positions]
  BY <1>1 DEF JobState
<1> DEFINE done == Append(job[r].done, e)
           j == Finished(r)
<1>3. /\ done \in Seq([table: Tables, upTo: Positions])
      /\ Len(done) = Len(job[r].done) + 1
      /\ \A i \in 1 .. Len(job[r].done) : done[i] = job[r].done[i]
      /\ done[Len(job[r].done) + 1] = e
  BY <1>1, <1>2, AppendProperties
<1>4. j = [job[r] EXCEPT !.pc = "progress", !.from = 0, !.seen = 0, !.done = done]
  BY DEF Finished
<1> HIDE DEF done
<1>5. /\ j \in JobState /\ j.pc = "progress" /\ j.list = job[r].list
      /\ j.pos = job[r].pos /\ j.done = done
  BY <1>1, <1>3, <1>4, ZeroIsAPosition, ZenonT(40) DEF JobState
<1> HIDE DEF j
<1>6. Placed(j) /\ Follows(j, stale[r])
  BY <1>1, <1>3, <1>5 DEF JobInv, Placed, Follows, JobState
<1>7. Len(done) = job[r].pos /\ job[r].pos \in 1 .. Len(job[r].list)
  BY <1>1, <1>3 DEF JobInv, Placed, JobState
<1>8. ASSUME NEW i \in 1 .. Len(done)
      PROVE  done[i].table = j.list[i] /\ done[i].upTo <= held[j.list[i]]
  <2>1. CASE i \in 1 .. Len(job[r].done)
    BY <1>1, <1>3, <1>5, <2>1 DEF JobInv, Reported
  <2>2. CASE i = job[r].pos
    BY <1>3, <1>5, <1>7, <2>2 DEF Current
  <2>3. Len(job[r].done) \in Nat
    BY <1>1
  <2> QED BY <1>3, <1>7, <2>1, <2>2, <2>3
<1>9. Reported(j)
  BY <1>5, <1>7, <1>8 DEF Reported
<1> QED BY <1>5, <1>6, <1>9 DEF JobInv, j

LEMMA NothingNewSafe ==
  ASSUME RunInv, NEW r \in Runs, NothingNew(r)
  PROVE  RunInv' /\ UNCHANGED tableVars
<1>1. JobInv(job[r], stale[r])
  BY JobTyped
<1>2. job[r].seen <= held[Current(r)]
  BY <1>1 DEF NothingNew, JobInv, Follows, Current
<1>3. JobInv(Finished(r), stale[r])
  BY <1>2, FinishedSafe DEF NothingNew
<1> QED BY <1>3, OneJob DEF NothingNew, RunInv

-----------------------------------------------------------------------------
(* The steps that change a table. *)

Grown ==
  /\ held' \in [Tables -> Positions]
  /\ changes' \in [Tables -> Positions]
  /\ \A t \in Tables : held[t] <= held'[t] /\ changes[t] <= changes'[t]

LEMMA ReportKept ==
  ASSUME RunInv, Grown, NEW q \in Runs, NEW i \in 1 .. Len(job[q].done)
  PROVE  /\ job[q].done[i].table = job[q].list[i]
         /\ job[q].done[i].upTo <= held'[job[q].list[i]]
<1>1. job[q] \in JobState /\ Reported(job[q]) /\ TablesTyped
  BY JobTyped DEF JobInv
<1>2. job[q].list \in Seq(Tables) /\ job[q].done \in Seq([table: Tables, upTo: Positions])
  BY <1>1 DEF JobState
<1>3. i \in 1 .. Len(job[q].list)
  BY <1>1, <1>2 DEF Reported
<1>4. job[q].list[i] \in Tables /\ job[q].done[i] \in [table: Tables, upTo: Positions]
  BY <1>2, <1>3, ElementOfSeq
<1> DEFINE t == job[q].list[i]
           upTo == job[q].done[i].upTo
<1>5. upTo \in Positions /\ held[t] \in Positions /\ held'[t] \in Positions /\ held[t] <= held'[t]
  BY <1>1, <1>4 DEF Grown, TablesTyped
<1>6. job[q].done[i].table = t /\ upTo <= held[t]
  BY <1>1 DEF Reported
<1> HIDE DEF t, upTo
<1>7. upTo <= held'[t]
  BY <1>5, <1>6 DEF Positions
<1> QED BY <1>6, <1>7 DEF t, upTo

(* What a run knows stays true while tables grow, if it is told when the   *)
(* Delta table it is about to merge into has grown.                        *)
LEMMA JobKept ==
  ASSUME RunInv, Grown, NEW q \in Runs, job'[q] = job[q],
         job[q].pc = "merge" /\ ~stale'[q] =>
           ~stale[q] /\ held'[Current(q)] = held[Current(q)]
  PROVE  JobInv(job[q], stale[q])'
<1>1. /\ job[q] \in JobState /\ Placed(job[q])
      /\ Follows(job[q], stale[q]) /\ Reported(job[q]) /\ TablesTyped
  BY JobTyped DEF JobInv
<1>2. ASSUME job[q].pc \in Underway \ {"connect"}
      PROVE  /\ held[Current(q)] \in Positions /\ held'[Current(q)] \in Positions
             /\ changes[Current(q)] \in Positions /\ changes'[Current(q)] \in Positions
             /\ held[Current(q)] <= held'[Current(q)]
             /\ changes[Current(q)] <= changes'[Current(q)]
  BY <1>1, <1>2, CurrentIsATable DEF Grown, TablesTyped
<1>3. job[q].from \in Int /\ job[q].seen \in Int
  BY <1>1 DEF JobState, Positions
<1>4. Follows(job[q], stale[q])'
  BY <1>1, <1>2, <1>3 DEF Follows, Current, Positions
<1>5. Reported(job[q])'
  BY <1>1, ReportKept DEF Reported
<1>6. (job[q] \in JobState /\ Placed(job[q]))'
  BY <1>1 DEF JobState, Placed, Positions
<1> QED BY <1>4, <1>5, <1>6 DEF JobInv

LEMMA ChangeSafe ==
  ASSUME RunInv, NEW t \in Tables, Change(t)
  PROVE  RunInv' /\ Grown
<1>1. /\ changes' = [changes EXCEPT ![t] = @ + 1]
      /\ changes[t] \in Positions /\ changes[t] < MaxChanges
      /\ UNCHANGED <<broken, held, ckpt, job, stale>>
  BY DEF Change, RunInv, TablesTyped
<1>2. TablesTyped' /\ CheckpointsHeld' /\ Grown
  BY <1>1 DEF RunInv, TablesTyped, CheckpointsHeld, Grown, Positions
<1>3. \A q \in Runs : JobInv(job[q], stale[q])'
  BY <1>1, <1>2, JobKept
<1> QED BY <1>1, <1>2, <1>3 DEF RunInv, JobState, Positions

LEMMA RepairSafe ==
  ASSUME RunInv, NEW t \in Tables, Repair(t)
  PROVE  RunInv'
<1>1. TablesTyped' /\ CheckpointsHeld' /\ Grown
  BY DEF Repair, RunInv, TablesTyped, CheckpointsHeld, Grown, Positions
<1>2. \A q \in Runs : JobInv(job[q], stale[q])'
  BY <1>1, JobKept DEF Repair
<1> QED BY <1>1, <1>2 DEF Repair, RunInv, JobState, Positions

(* The commit is uncontested: what the run has read is not behind what is  *)
(* held, so that a batch of it takes no table back.                        *)
LEMMA MergeSafe ==
  ASSUME RunInv, NEW r \in Runs, Merge(r)
  PROVE  RunInv' /\ Grown
<1>0. PICK p \in job[r].from + 1 .. job[r].seen :
        /\ held' = [held EXCEPT ![Current(r)] = Upserted(@, p, job[r].seen)]
        /\ job' = [job EXCEPT
             ![r].from = p,
             ![r].pc = IF p = job[r].seen THEN "record" ELSE "merge"]
  BY DEF Merge
<1> DEFINE t == Current(r)
           phase == IF p = job[r].seen THEN "record" ELSE "merge"
           j == [job[r] EXCEPT !.from = p, !.pc = phase]
           h == Upserted(held[t], p, job[r].seen)
<1>1. /\ job[r] \in JobState /\ JobInv(job[r], stale[r]) /\ TablesTyped /\ CheckpointsHeld
      /\ t \in Tables /\ job[r].pc = "merge" /\ ~stale[r]
  BY JobTyped, CurrentIsATable DEF Merge, UncontestedCommit
<1>2. /\ job[r].seen \in Positions /\ job[r].from \in Positions
      /\ held[t] <= job[r].seen /\ job[r].seen <= changes[t]
      /\ held[t] \in Positions /\ changes[t] \in Positions
  BY <1>1 DEF JobInv, JobState, Follows, Current, TablesTyped
<1>3. /\ p \in Positions /\ p <= job[r].seen /\ h \in Positions
      /\ p <= h /\ held[t] <= h /\ h <= job[r].seen
  BY <1>2 DEF Positions, Upserted
<1>4. /\ held' = [held EXCEPT ![t] = h]
      /\ job' = [job EXCEPT ![r] = j]
      /\ UNCHANGED <<broken, changes, ckpt>>
  BY <1>0, <1>1 DEF Merge, RunInv
<1>5. /\ j \in JobState /\ j.pc = phase /\ j.pos = job[r].pos
      /\ j.from = p /\ j.seen = job[r].seen
      /\ j.list = job[r].list /\ j.done = job[r].done
  BY <1>1, <1>3 DEF JobState
<1>6. phase \in {"merge", "record"} /\ (phase = "record" => p = job[r].seen)
  OBVIOUS
<1>7. t = j.list[j.pos]
  BY <1>5 DEF Current
<1> HIDE DEF t, j, h, phase
<1>8. TablesTyped' /\ CheckpointsHeld' /\ Grown
  <2>1. \A u \in Tables : held[u] \in Positions /\ changes[u] \in Positions /\ ckpt[u] \in Positions
    BY <1>1 DEF TablesTyped
  <2>2. TablesTyped'
    BY <1>1, <1>3, <1>4 DEF TablesTyped
  <2>3. /\ held'[t] = h /\ \A u \in Tables \ {t} : held'[u] = held[u]
        /\ changes' = changes /\ ckpt' = ckpt
    BY <1>1, <1>4 DEF TablesTyped
  <2>4. ASSUME NEW u \in Tables
        PROVE  /\ ckpt'[u] <= held'[u] /\ held'[u] <= changes'[u]
               /\ held[u] <= held'[u] /\ changes[u] <= changes'[u]
    <3>1. CASE u = t
      BY <1>1, <1>2, <1>3, <2>1, <2>3, <3>1 DEF CheckpointsHeld, Positions
    <3>2. CASE u # t
      BY <1>1, <2>1, <2>3, <3>2 DEF CheckpointsHeld, Positions
    <3> QED BY <3>1, <3>2
  <2> QED BY <2>2, <2>4 DEF CheckpointsHeld, Grown, TablesTyped
<1>9. stale' \in [Runs -> BOOLEAN] /\ job' \in [Runs -> JobState] /\ job'[r] = j
  <2>1. stale' \in [Runs -> BOOLEAN]
    BY DEF Merge, RunInv
  <2> QED BY <1>4, <1>5, <2>1 DEF RunInv
<1>10. ASSUME NEW q \in Runs, q # r PROVE JobInv(job[q], stale[q])'
  <2>1. job'[q] = job[q]
    BY <1>4, <1>10 DEF RunInv
  <2>2. job[q].pc = "merge" /\ ~stale'[q] => ~stale[q] /\ Current(q) # t
    BY <1>10 DEF Merge, t
  <2>3. job[q].pc = "merge" => Current(q) \in Tables
    BY CurrentIsATable
  <2>4. job[q].pc = "merge" /\ ~stale'[q] => ~stale[q] /\ held'[Current(q)] = held[Current(q)]
    BY <1>1, <1>4, <2>2, <2>3 DEF TablesTyped
  <2> QED BY <1>8, <2>1, <2>4, JobKept
<1>11. JobInv(job[r], stale[r])'
  <2>1. held'[t] = h /\ changes' = changes
    BY <1>1, <1>4 DEF TablesTyped
  <2>2. Reported(job[r])'
    <3>1. \A i \in 1 .. Len(j.done) :
            j.done[i].table = j.list[i] /\ j.done[i].upTo <= held'[j.list[i]]
      BY <1>5, <1>8, ReportKept
    <3>2. Len(j.done) <= Len(j.list) /\ j.pc # "returned"
      BY <1>1, <1>5, <1>6 DEF JobInv, Reported
    <3> QED BY <1>9, <3>1, <3>2 DEF Reported
  <2>3. /\ j.pc = "merge" => p <= h /\ j.seen <= changes[t] /\ h <= j.seen
        /\ j.pc = "record" => j.seen <= h
        /\ j.pc \in {"merge", "record"}
    BY <1>2, <1>3, <1>5, <1>6
  <2>4. Follows(job[r], stale[r])'
    BY <1>5, <1>7, <1>9, <2>1, <2>3 DEF Follows
  <2>5. (job[r] \in JobState /\ Placed(job[r]))'
    BY <1>1, <1>5, <1>6, <1>9 DEF JobInv, Placed, JobState, Positions
  <2> QED BY <2>2, <2>4, <2>5 DEF JobInv
<1> QED BY <1>8, <1>9, <1>10, <1>11 DEF RunInv, JobState, Positions

LEMMA RecordSafe ==
  ASSUME RunInv, NEW r \in Runs, Record(r)
  PROVE  RunInv' /\ Grown
<1> DEFINE t == Current(r)
           j == Finished(r)
<1>1. /\ job[r] \in JobState /\ JobInv(job[r], stale[r]) /\ TablesTyped /\ CheckpointsHeld
      /\ t \in Tables /\ job[r].pc = "record"
  BY JobTyped, CurrentIsATable DEF Record
<1>2. job[r].seen \in Positions /\ job[r].seen <= held[t]
  BY <1>1 DEF JobInv, JobState, Follows, Current
<1>3. JobInv(j, stale[r])
  BY <1>1, <1>2, FinishedSafe
<1>4. /\ ckpt' = [ckpt EXCEPT ![t] = job[r].seen]
      /\ job' = [job EXCEPT ![r] = j]
      /\ UNCHANGED <<broken, changes, held, stale>>
  BY DEF Record
<1> HIDE DEF t, j
<1>5. TablesTyped' /\ CheckpointsHeld' /\ Grown
  BY <1>1, <1>2, <1>4 DEF TablesTyped, CheckpointsHeld, Grown, Positions
<1>6. job' \in [Runs -> JobState] /\ job'[r] = j
  BY <1>3, <1>4 DEF RunInv, JobInv
<1>7. ASSUME NEW q \in Runs, q # r PROVE JobInv(job[q], stale[q])'
  <2>1. job'[q] = job[q]
    BY <1>4, <1>7 DEF RunInv
  <2> QED BY <1>4, <1>5, <2>1, JobKept
<1>8. JobInv(job[r], stale[r])'
  BY <1>3, <1>4, <1>6 DEF JobInv, JobState, Placed, Follows, Reported, Positions
<1> QED BY <1>4, <1>5, <1>6, <1>7, <1>8 DEF RunInv, JobState, Positions

-----------------------------------------------------------------------------
(* The whole. *)

(* Whatever starts the runs, a step of one of them keeps the invariant,    *)
(* and takes no table back.                                                *)
LEMMA RunStepSafe ==
  ASSUME RunInv, NEW r \in Runs, Proceed(r) \/ Mishap(r)
  PROVE  RunInv' /\ (UNCHANGED tableVars \/ Grown)
<1>1. CASE Connect(r) BY <1>1, ConnectSafe
<1>2. CASE ReadCheckpoint(r) BY <1>2, ReadSafe
<1>3. CASE OpenTable(r) BY <1>3, OpenSafe
<1>4. CASE Reject(r) \/ Conflict(r) \/ Fail(r) BY <1>4, FailureSafe
<1>5. CASE Query(r) BY <1>5, QuerySafe
<1>6. CASE NothingNew(r)
  BY <1>6, NothingNewSafe DEF NothingNew
<1>7. CASE Merge(r) BY <1>7, MergeSafe
<1>8. CASE Record(r) BY <1>8, RecordSafe
<1>9. CASE KeepGoing(r) BY <1>9, ProgressSafe
<1>10. CASE Die(r) BY <1>10, DieSafe
<1>11. CASE Interrupt(r) BY <1>11, InterruptSafe
<1> QED
  BY <1>1, <1>2, <1>3, <1>4, <1>5, <1>6, <1>7, <1>8, <1>9, <1>10, <1>11
  DEF Proceed, Mishap

LEMMA RunStutter ==
  ASSUME RunInv, UNCHANGED runVars
  PROVE  RunInv'
BY ZenonT(40) DEF RunInv, runVars, tableVars, TablesTyped, CheckpointsHeld, JobInv,
                JobState, Placed, Follows, Reported, Positions

LEMMA InitSafe == RunInit => RunInv
<1> SUFFICES ASSUME RunInit PROVE RunInv
  OBVIOUS
<1>1. TablesTyped /\ CheckpointsHeld /\ stale \in [Runs -> BOOLEAN]
  BY DEF RunInit, TablesTyped, CheckpointsHeld, Positions
<1>2. NotStarted \in JobState /\ JobInv(NotStarted, FALSE)
  <2>1. <<>> \in Seq([table: Tables, upTo: Positions]) /\ <<>> \in Seq(Tables)
    OBVIOUS
  <2>2. NotStarted \in JobState
    BY <2>1, ZeroIsAPosition DEF NotStarted, JobState
  <2> QED BY <2>2 DEF JobInv, Placed, Follows, Reported, NotStarted
<1>3. job \in [Runs -> JobState] /\ \A r \in Runs : job[r] = NotStarted /\ stale[r] = FALSE
  BY <1>2 DEF RunInit
<1> QED BY <1>1, <1>2, <1>3 DEF RunInv

LEMMA NextSafe == RunInv /\ [RunNext]_runVars => RunInv'
<1> SUFFICES ASSUME RunInv, [RunNext]_runVars PROVE RunInv'
  OBVIOUS
<1>1. ASSUME NEW r \in Runs, Begin(r, Catalog) PROVE RunInv'
  BY <1>1, BeginSafe
<1>2. ASSUME NEW r \in Runs, Proceed(r) \/ Mishap(r) PROVE RunInv'
  BY <1>2, RunStepSafe
<1>3. ASSUME NEW t \in Tables, Change(t) \/ Repair(t) PROVE RunInv'
  BY <1>3, ChangeSafe, RepairSafe
<1> QED BY <1>1, <1>2, <1>3, RunStutter DEF RunNext

LEMMA RunInvGivesTypes == RunInv => RunTypeOK
BY DEF RunInv, TablesTyped, JobInv, JobState, Placed, RunTypeOK, Positions

LEMMA RunInvGivesReports == RunInv => ReportsHold
<1> SUFFICES ASSUME RunInv, NEW r \in Runs
             PROVE  /\ \A i \in DOMAIN job[r].done :
                         /\ job[r].done[i].table = job[r].list[i]
                         /\ job[r].done[i].upTo <= held[job[r].list[i]]
                    /\ Step(r, "returned") => Len(job[r].done) = Len(job[r].list)
  BY DEF ReportsHold
<1>1. job[r] \in JobState /\ Reported(job[r])
  BY JobTyped DEF JobInv
<1>2. DOMAIN job[r].done = 1 .. Len(job[r].done)
  BY <1>1 DEF JobState
<1> QED BY <1>1, <1>2 DEF Reported

LEMMA RunInvHolds == RunSpec => []RunInv
<1> QED BY InitSafe, NextSafe, PTL DEF RunSpec

(* The variables have their types, and a run that is at a table has        *)
(* reported exactly those before it.                                       *)
THEOREM RunTypeCorrect == RunSpec => []RunTypeOK
<1> QED BY RunInvHolds, RunInvGivesTypes, PTL

(* No checkpoint is ahead of its Delta table (pipeline::sync_one records it *)
(* last), however many runs of a catalog overlap on however many tables:   *)
(* a run that was overtaken in a merge is refused, so held[t] never goes   *)
(* back below what another run has recorded.                               *)
THEOREM CheckpointsTrue == RunSpec => []CheckpointsHeld
<1>1. RunInv => CheckpointsHeld
  BY DEF RunInv
<1> QED BY <1>1, RunInvHolds, PTL

(* What a report of pipeline::run says was synced stays in the Delta       *)
(* tables, and a run that returns has synced every table of its catalog.   *)
THEOREM ReportsTrue == RunSpec => []ReportsHold
<1> QED BY RunInvHolds, RunInvGivesReports, PTL
=============================================================================
