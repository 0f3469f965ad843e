--------------------------- MODULE BackfillProofs ---------------------------
(***************************************************************************)
(* Theorems about the handover from a bulk load to incremental sync, from  *)
(* the invariants of TableSync: every step that is not part of the load is *)
(* one of TableSync's.                                                     *)
(***************************************************************************)
EXTENDS Backfill, TableSyncProofs, LeastNumbers

Before == {"capture", "export", "load"}
After == {"handover", "record", "finished"}

LoadTyped ==
  /\ stage \in Stages
  /\ watermark \in Nat /\ watermark <= clock
  /\ staged \in [Keys -> 0 .. MaxWrites]
  /\ unread \subseteq Keys
  /\ outdated \in BOOLEAN
  /\ outdated => stage = "record"
  /\ unread # {} => stage = "export"

(* What the export has read is not past the source, and right up to the    *)
(* captured watermark.                                                     *)
ExportInv ==
  /\ stage = "capture" => watermark = 0 /\ \A k \in Keys : staged[k] = Absent
  /\ stage \in Before => \A k \in Keys : /\ staged[k] <= writes
                                         /\ source[k] # Absent => staged[k] <= source[k]
  /\ \A k \in unread : staged[k] = Absent
  /\ stage \in {"export", "load"} =>
       \A k \in Keys \ unread : InReach(k, watermark) => staged[k] = source[k]

(* Until the load nothing was synced; from then on the watermark is right. *)
HandoverInv ==
  /\ stage \in Before => /\ ckpt = 0 /\ \A k \in Keys : delta[k] = Absent
                        /\ \A w \in Workers : run[w] = Idle
  /\ stage \in After => Covers(Keys, watermark)

LoadInv == LoadTyped /\ ExportInv /\ HandoverInv

SyncInv == TypeOK /\ VersionInv /\ OrderInv /\ CoverInv(Keys)

-----------------------------------------------------------------------------
(* The greatest watermark there is. *)
LEMMA MaximumIsAMark ==
  ASSUME TypeOK, VersionInv, MarksInv
  PROVE  SourceMaximum \in Nat /\ SourceMaximum <= clock
<1>1. \A m \in Marks : m \in Nat /\ m <= clock
  <2>1. ASSUME NEW k \in Keys, source[k] # Absent
        PROVE  mark[source[k]] \in Nat /\ mark[source[k]] <= clock
    <3>1. source[k] \in 1 .. writes /\ source[k] \in Versions
      BY <2>1 DEF TypeOK, SourceTypeOK, VersionInv, Absent, Versions
    <3> QED BY <3>1 DEF TypeOK, SourceTypeOK, MarksInv
  <2> QED BY <2>1 DEF Marks
<1> DEFINE T == Marks \cup {Null}
<1>2. T \subseteq Nat /\ T # {} /\ clock \in Nat /\ \A m \in T : m <= clock
  BY <1>1 DEF Null, TypeOK, SourceTypeOK
<1>3. \E m \in T : \A n \in T : n <= m
  <2> HIDE DEF T
  <2> QED BY <1>2, GreatestNatural
<1>4. SourceMaximum \in T
  BY <1>3 DEF SourceMaximum
<1> QED BY <1>2, <1>4

LEMMA BackfillInitSafe == BackfillInit => SyncInv /\ LoadInv
<1> SUFFICES ASSUME BackfillInit PROVE SyncInv /\ LoadInv
  OBVIOUS
<1>1. SyncInv
  BY InitTypeOK, InitVersionInv, InitOrderInv, InitCoverInv DEF BackfillInit, SyncInv
<1>2. /\ outdated = FALSE /\ stage = "capture" /\ unread = {} /\ watermark = 0
      /\ staged = [k \in Keys |-> 0]
      /\ source = [k \in Keys |-> 0] /\ delta = [k \in Keys |-> 0] /\ writes = 0 /\ clock = 0 /\ ckpt = 0
      /\ run = [w \in Workers |-> Idle]
  BY DEF BackfillInit, Init, SourceInit, NothingStaged, Absent, Null, NoCheckpoint
<1>3. LoadTyped
  <2>1. outdated \in BOOLEAN /\ ~outdated
    BY <1>2
  <2>2. staged \in [Keys -> 0 .. MaxWrites] /\ unread \subseteq Keys
    BY <1>2, SourceAssumption
  <2> QED BY <1>2, <2>1, <2>2 DEF LoadTyped, Stages
<1>4. ExportInv /\ HandoverInv
  BY <1>2 DEF ExportInv, HandoverInv, Before, After, Absent
<1> QED BY <1>1, <1>3, <1>4 DEF LoadInv

(* Every step of the sync keeps what holds of it, and what it covers. *)
LEMMA SyncSafe ==
  ASSUME SafeCommits, StrictMarks, SyncInv, [Next]_vars
  PROVE  /\ SyncInv'
         /\ clock <= clock' /\ clock' \in Nat
         /\ \A b \in Nat : b <= clock /\ Covers(Keys, b) => Covers(Keys, b)'
<1>1. /\ TypeOK /\ VersionInv /\ OrderInv /\ CoverInv(Keys)
      /\ MarksInv /\ clock \in Nat
  BY DEF SyncInv, CoverInv, TypeOK, SourceTypeOK
<1>2. SyncInv'
  BY <1>1, AnyBatch, NextTypeOK, NextVersionInv, NextOrderInv, NextCoverInv
     DEF SyncInv
<1>3. CASE SourceStep
  <2>1. clock <= clock' /\ clock' \in Nat
    BY <1>1, <1>3, SourceStrict
  <2>2. \A b \in Nat : b <= clock /\ Covers(Keys, b) => Covers(Keys, b)'
    BY <1>1, <1>3, SourceStepCovers
  <2> QED BY <1>2, <2>1, <2>2
<1>4. CASE UNCHANGED sourceVars
  <2>1. clock <= clock' /\ clock' \in Nat
    BY <1>1, <1>4 DEF sourceVars
  <2>2. \A b \in Nat : b <= clock /\ Covers(Keys, b) => Covers(Keys, b)'
    BY <1>1, <1>4, AnyBatch, StableCovers
  <2> QED BY <1>2, <2>1, <2>2
<1> QED BY <1>3, <1>4, AnyBatch, QuietSteps DEF MergeBatch

-----------------------------------------------------------------------------
(* The steps of the load, which leave the sync's state alone but for the   *)
(* two that write to the tables.                                           *)

LEMMA CaptureSafe ==
  ASSUME SyncInv, LoadInv, CaptureWatermark \/ NoWatermark
  PROVE  LoadInv'
<1>1. SourceMaximum \in Nat /\ SourceMaximum <= clock
  BY MaximumIsAMark DEF SyncInv, CoverInv
<1>2. /\ stage = "capture" /\ UNCHANGED <<source, mark, writes, clock, delta, ckpt, run>>
      /\ UNCHANGED <<staged, outdated>>
      /\ \/ stage' = "export" /\ watermark' = SourceMaximum /\ unread' = Keys
         \/ stage' = "finished" /\ UNCHANGED <<watermark, unread>>
  BY DEF CaptureWatermark, NoWatermark, vars, sourceVars, targetVars
<1>3. outdated' = outdated /\ outdated \in BOOLEAN /\ ~outdated
  BY <1>2 DEF LoadInv, LoadTyped
<1>4. LoadTyped'
  BY <1>1, <1>2, <1>3 DEF LoadInv, LoadTyped, Stages
<1>5. ExportInv'
  BY <1>2 DEF LoadInv, ExportInv, LoadTyped, Before
<1>6. HandoverInv'
  BY <1>2, NothingInReach DEF LoadInv, ExportInv, HandoverInv, Before, After, Covers, InReach
<1> QED BY <1>4, <1>5, <1>6 DEF LoadInv

LEMMA ExportSafe ==
  ASSUME SyncInv, LoadInv, NEW k \in Keys, ExportRow(k)
  PROVE  LoadInv'
<1>1. /\ stage = "export" /\ UNCHANGED <<source, mark, writes, clock, delta, ckpt, run>>
      /\ k \in unread /\ unread' = unread \ {k}
      /\ staged' = [staged EXCEPT ![k] = source[k]]
      /\ stage' \in {"export", "load"} /\ (stage' = "load" => unread' = {})
      /\ UNCHANGED <<watermark, outdated>>
  BY DEF ExportRow, vars, sourceVars, targetVars
<1>2. unread' # {} => stage' = "export"
  BY DEF ExportRow
<1>3. outdated' = outdated /\ outdated \in BOOLEAN /\ ~outdated
  BY <1>1 DEF LoadInv, LoadTyped
<1>4. source[k] \in 0 .. MaxWrites /\ source[k] <= writes
  BY DEF SyncInv, TypeOK, SourceTypeOK, VersionInv
<1>5. LoadTyped'
  BY <1>1, <1>2, <1>3, <1>4 DEF LoadInv, LoadTyped, Stages
<1>6. ExportInv'
  <2>1. /\ \A j \in Keys : j # k => staged'[j] = staged[j]
        /\ staged'[k] = source[k]
    BY <1>1 DEF LoadInv, LoadTyped
  <2>2. ASSUME NEW j \in Keys
        PROVE  staged'[j] <= writes /\ (source[j] # Absent => staged'[j] <= source[j])
    <3>1. staged[j] <= writes /\ (source[j] # Absent => staged[j] <= source[j])
      BY <1>1 DEF LoadInv, ExportInv, Before
    <3> QED BY <1>4, <2>1, <3>1
  <2>3. ASSUME NEW j \in Keys \ unread', InReach(j, watermark)
        PROVE  staged'[j] = source[j]
    BY <1>1, <2>1, <2>3 DEF LoadInv, ExportInv, Before
  <2>4. \A j \in unread' : staged'[j] = Absent
    BY <1>1, <2>1 DEF LoadInv, ExportInv, LoadTyped, Before
  <2> QED BY <1>1, <2>2, <2>3, <2>4 DEF ExportInv, InReach, Before
<1>7. HandoverInv'
  BY <1>1 DEF LoadInv, HandoverInv, Before, After
<1> QED BY <1>5, <1>6, <1>7 DEF LoadInv

LEMMA StartOverSafe ==
  ASSUME SyncInv, LoadInv, StartOver
  PROVE  LoadInv'
<1>1. /\ stage \in {"export", "load"} /\ stage' = "capture"
      /\ UNCHANGED <<source, mark, writes, clock, delta, ckpt, run, outdated>>
      /\ watermark' = 0 /\ staged' = [k \in Keys |-> 0] /\ unread' = {}
  BY DEF StartOver, vars, sourceVars, targetVars, Null, NothingStaged, Absent
<1>2. outdated' = outdated /\ outdated \in BOOLEAN /\ ~outdated
  BY <1>1 DEF LoadInv, LoadTyped
<1>3. LoadTyped'
  <2>1. staged' \in [Keys -> 0 .. MaxWrites] /\ unread' \subseteq Keys
    BY <1>1, SourceAssumption
  <2> QED BY <1>1, <1>2, <2>1 DEF LoadInv, LoadTyped, Stages, SyncInv, TypeOK, SourceTypeOK
<1>4. ExportInv' /\ HandoverInv'
  <2>1. writes \in Nat /\ \A k \in Keys : source[k] \in Nat
    BY DEF SyncInv, TypeOK, SourceTypeOK
  <2> QED BY <1>1, <2>1 DEF LoadInv, ExportInv, HandoverInv, Before, After, Absent
<1> QED BY <1>3, <1>4 DEF LoadInv

(* The load: the runs are idle, and what was exported becomes the table. *)
LEMMA LoadSafe ==
  ASSUME SyncInv, LoadInv, LoadTable
  PROVE  SyncInv' /\ LoadInv' /\ Abs!Advance
<1>1. /\ stage = "load" /\ stage' = "handover" /\ delta' = staged /\ deltaExists' = TRUE
      /\ UNCHANGED <<source, mark, writes, clock, ckpt, ckptExists, run, dirty, ckptStale>>
      /\ UNCHANGED <<watermark, staged, unread, outdated>>
  BY DEF LoadTable, sourceVars
<1>2. /\ unread = {} /\ ckpt = 0 /\ \A w \in Workers : run[w] = Idle
  BY <1>1 DEF LoadInv, LoadTyped, HandoverInv, Before
<1>3. TypeOK'
  <2>1. delta' \in [Keys -> 0 .. MaxWrites] /\ deltaExists' \in BOOLEAN
    BY <1>1 DEF LoadInv, LoadTyped
  <2>2. SourceTypeOK'
    BY <1>1 DEF SyncInv, TypeOK, SourceTypeOK
  <2> QED BY <1>1, <2>1, <2>2 DEF SyncInv, TypeOK
<1>4. VersionInv'
  <2>1. \A w \in Workers : Sound(Idle, dirty[w])'
    BY <1>3 DEF Sound, Idle, TypeOK, SourceTypeOK, Absent
  <2>2. \A w \in Workers : Sound(run[w], dirty[w])'
    BY <1>1, <1>2, <2>1 DEF Sound
  <2> QED BY <1>1, <2>2 DEF SyncInv, VersionInv, LoadInv, ExportInv, Before
<1>5. \A b \in Nat : b <= watermark => Covers(Keys, b)'
  <2>1. \A k \in Keys : InReach(k, watermark) => staged[k] = source[k]
    BY <1>1, <1>2 DEF LoadInv, ExportInv, Before
  <2>2. watermark \in Nat
    BY DEF LoadInv, LoadTyped
  <2> QED BY <1>1, <2>1, <2>2 DEF Covers, InReach
<1>6. CoverInv(Keys)'
  <2>1. Covers(Keys, 0)' /\ clock \in Nat
    BY <1>5 DEF LoadInv, LoadTyped, SyncInv, TypeOK, SourceTypeOK
  <2>2. Carried(Keys, Idle)'
    BY <1>1, <2>1 DEF Carried, Idle, NoCheckpoint, Started, Covers, InReach
  <2>3. \A w \in Workers : Carried(Keys, run[w])'
    BY <1>1, <1>2, <2>2 DEF Carried, Covers, InReach, Started, Idle
  <2>4. MarksInv' /\ ckpt' <= clock' /\ Covers(Keys, ckpt)'
    BY <1>1, <1>2, <2>1 DEF SyncInv, CoverInv, MarksInv, Covers, InReach
  <2> QED BY <2>3, <2>4 DEF CoverInv
<1>7. LoadInv' /\ OrderInv'
  <2>1. outdated' = outdated /\ outdated \in BOOLEAN /\ ~outdated
    BY <1>1 DEF LoadInv, LoadTyped
  <2>2. LoadTyped' /\ ExportInv'
    BY <1>1, <1>2, <2>1 DEF LoadInv, LoadTyped, ExportInv, Stages, Before
  <2>3. Covers(Keys, watermark)'
    BY <1>1, <1>5 DEF LoadInv, LoadTyped, Covers, InReach
  <2>4. HandoverInv'
    BY <1>1, <2>3 DEF HandoverInv, Before
  <2>5. OrderInv'
    BY <1>1 DEF SyncInv, OrderInv, Ordered
  <2> QED BY <2>2, <2>4, <2>5 DEF LoadInv
<1>8. Abs!Advance
  <2>1. \A k \in Keys : /\ delta[k] = 0 /\ staged[k] \in Nat /\ staged[k] <= writes
                        /\ source[k] # 0 => staged[k] <= source[k]
    BY <1>1 DEF LoadInv, LoadTyped, ExportInv, HandoverInv, Before, Absent
  <2>2. staged \in [Keys -> 0 .. writes]
    BY <2>1 DEF LoadInv, LoadTyped, SyncInv, TypeOK, SourceTypeOK
  <2> QED BY <1>1, <2>1, <2>2 DEF Abs!Advance, Abs!Absent
<1> QED BY <1>3, <1>4, <1>6, <1>7, <1>8 DEF SyncInv

(* The checkpoint is set to a value the load has covered. *)
LEMMA SetSafe ==
  ASSUME SyncInv, LoadInv, SetCheckpoint
  PROVE  SyncInv' /\ LoadInv' /\ Abs!Claim
<1>1. /\ stage = "record" /\ stage' = "finished" /\ ckpt' \in 1 .. watermark
      /\ ~outdated
      /\ ckptStale' = [w \in Workers |-> ckptStale[w] \/ At(w, "commit")]
      /\ UNCHANGED <<source, mark, writes, clock, delta, deltaExists, ckptExists, run, dirty>>
      /\ UNCHANGED <<watermark, staged, unread, outdated>>
  BY DEF SetCheckpoint, HandedOver, sourceVars
<1>2. /\ watermark \in Nat /\ watermark <= clock /\ Covers(Keys, watermark) /\ clock \in Nat
  BY <1>1 DEF LoadInv, LoadTyped, HandoverInv, After, SyncInv, TypeOK, SourceTypeOK
<1>3. ckpt' \in Nat /\ ckpt' <= clock /\ Covers(Keys, ckpt')
  BY <1>1, <1>2 DEF Covers, InReach
<1>4. TypeOK'
  <2>1. ckptStale' \in [Workers -> BOOLEAN]
    BY <1>1, Zenon
  <2> QED BY <1>1, <1>3, <2>1 DEF SyncInv, TypeOK, SourceTypeOK
<1>5. VersionInv' /\ OrderInv'
  BY <1>1 DEF SyncInv, VersionInv, Sound, OrderInv, Ordered
<1>6. CoverInv(Keys)'
  BY <1>1, <1>3 DEF SyncInv, CoverInv, MarksInv, Carried, Covers, InReach,
                    Started, Marked, Known, Later
<1>7. LoadInv'
  <2>1. outdated' = outdated /\ outdated \in BOOLEAN
    BY <1>1 DEF LoadInv, LoadTyped
  <2>2. LoadTyped' /\ ExportInv'
    BY <1>1, <2>1 DEF LoadInv, LoadTyped, ExportInv, InReach, Stages, Before
  <2>3. HandoverInv'
    BY <1>1, <1>2 DEF HandoverInv, Before, Covers, InReach
  <2> QED BY <2>2, <2>3 DEF LoadInv
<1>8. Abs!Claim
  BY <1>1, <1>2, <1>3, CoversIsCovered DEF Abs!Claim
<1> QED BY <1>4, <1>5, <1>6, <1>7, <1>8 DEF SyncInv

LEMMA OpenSafe ==
  ASSUME SyncInv, LoadInv, OpenForHandover \/ HandoverFails
  PROVE  SyncInv' /\ LoadInv'
<1>1. /\ stage \in {"handover", "record"} /\ stage' \in {"handover", "record"}
      /\ ckptExists' \in BOOLEAN
      /\ UNCHANGED <<source, mark, writes, clock, delta, deltaExists, ckpt, run, dirty, ckptStale>>
      /\ UNCHANGED <<watermark, staged, unread>>
  BY DEF OpenForHandover, HandoverFails, vars, sourceVars, targetVars, SyncInv, TypeOK
<1>2. outdated' \in BOOLEAN /\ ~outdated'
  <2>1. CASE OpenForHandover
    BY <2>1 DEF OpenForHandover, LoadInv, LoadTyped
  <2>2. CASE HandoverFails
    BY <2>2 DEF HandoverFails
  <2> QED BY <2>1, <2>2
<1>3. TypeOK' /\ VersionInv' /\ OrderInv' /\ CoverInv(Keys)'
  <2>1. TypeOK' BY <1>1 DEF SyncInv, TypeOK, SourceTypeOK
  <2>2. VersionInv' /\ OrderInv'
    BY <1>1 DEF SyncInv, VersionInv, Sound, OrderInv, Ordered
  <2>3. CoverInv(Keys)'
    BY <1>1 DEF SyncInv, CoverInv, MarksInv, Carried, Covers, InReach,
                Started, Marked, Known, Later
  <2> QED BY <2>1, <2>2, <2>3
<1>4. LoadTyped' /\ ExportInv'
  BY <1>1, <1>2 DEF LoadInv, LoadTyped, ExportInv, InReach, Stages, Before
<1>5. HandoverInv'
  BY <1>1 DEF LoadInv, HandoverInv, Before, After, Covers, InReach
<1> QED BY <1>3, <1>4, <1>5 DEF SyncInv, LoadInv

(* From the load on, the steps of the sync and of the source keep what is  *)
(* covered.                                                                *)
LEMMA GoesOnSafe ==
  ASSUME SafeCommits, StrictMarks, SyncInv, LoadInv, [Next]_vars, stage \in After,
         UNCHANGED <<stage, watermark, staged, unread>>,
         outdated' \in BOOLEAN, outdated' => stage = "record"
  PROVE  SyncInv' /\ LoadInv'
<1>1. /\ SyncInv' /\ clock <= clock' /\ clock' \in Nat /\ clock \in Nat
      /\ \A b \in Nat : b <= clock /\ Covers(Keys, b) => Covers(Keys, b)'
  BY SyncSafe DEF SyncInv, TypeOK, SourceTypeOK
<1>2. watermark \in Nat /\ watermark <= clock /\ Covers(Keys, watermark)
  BY DEF LoadInv, LoadTyped, HandoverInv
<1>3. LoadTyped'
  BY <1>1, <1>2 DEF LoadInv, LoadTyped
<1>4. ExportInv'
  BY <1>3 DEF LoadInv, ExportInv, Before, After, LoadTyped
<1>5. Covers(Keys, watermark)'
  BY <1>1, <1>2 DEF Covers, InReach
<1> QED BY <1>1, <1>3, <1>4, <1>5 DEF LoadInv, HandoverInv, Before, After

(* Before it, only the source moves, past everything exported. *)
LEMMA SourceBefore ==
  ASSUME SafeCommits, StrictMarks, SyncInv, LoadInv, SourceStep, stage \in Before,
         UNCHANGED loadVars
  PROVE  SyncInv' /\ LoadInv'
<1>1. /\ SyncInv' /\ clock <= clock' /\ clock' \in Nat /\ clock \in Nat
      /\ \A v \in 1 .. writes : mark'[v] = mark[v]
  BY SyncSafe, SourceStrict DEF SyncInv, CoverInv, TypeOK, SourceTypeOK, Next
<1>2. /\ UNCHANGED <<stage, watermark, staged, unread, outdated>>
      /\ UNCHANGED <<delta, ckpt, run>>
      /\ watermark \in Nat /\ watermark <= clock
  BY DEF loadVars, SourceStep, targetVars, LoadInv, LoadTyped
<1>3. LoadTyped'
  <2>1. outdated' = outdated /\ outdated \in BOOLEAN /\ ~outdated
    BY <1>2 DEF LoadInv, LoadTyped, Before
  <2> QED BY <1>1, <1>2, <2>1 DEF LoadInv, LoadTyped
<1>4. HandoverInv'
  BY <1>2 DEF LoadInv, HandoverInv, Before, After
<1>5. \A k \in Keys : /\ staged[k] \in Nat /\ staged[k] <= writes
                      /\ source[k] \in Nat /\ source[k] <= writes
                      /\ source[k] # Absent => staged[k] <= source[k]
  BY DEF LoadInv, LoadTyped, ExportInv, SyncInv, TypeOK, SourceTypeOK, VersionInv
<1>6. ASSUME NEW k \in Keys, source'[k] # source[k], source'[k] # Absent
      PROVE  /\ source'[k] = writes + 1
             /\ mark'[source'[k]] = Null \/ clock < mark'[source'[k]]
  <2>1. PICK j \in Keys : Write(j) \/ Delete(j)
    BY DEF SourceStep, SourceNext
  <2>2. CASE Delete(j)
    BY <1>6, <2>2 DEF Delete, SyncInv, TypeOK, SourceTypeOK
  <2>3. CASE Write(j)
    <3>1. j = k
      BY <1>6, <2>3, WriteMarks DEF SyncInv, CoverInv
    <3> QED BY <2>3, <3>1, WriteMarks DEF SyncInv, CoverInv, TypeOK, SourceTypeOK, Write
  <2> QED BY <2>1, <2>2, <2>3
<1>7. writes \in Nat /\ writes' \in Nat /\ writes <= writes'
  BY DEF SyncInv, TypeOK, SourceTypeOK, SourceStep, SourceNext, Write, Delete
<1>8. ASSUME NEW k \in Keys
      PROVE  staged[k] <= writes' /\ (source'[k] # Absent => staged[k] <= source'[k])
  BY <1>5, <1>6, <1>7
<1>9. ASSUME stage \in {"export", "load"}, NEW k \in Keys \ unread, InReach(k, watermark)'
      PROVE  staged[k] = source'[k]
  <2>1. source'[k] = source[k]
    <3> SUFFICES ASSUME source'[k] # source[k] PROVE FALSE
      OBVIOUS
    <3>1. mark'[source'[k]] \in 1 .. watermark
      BY <1>2, <1>9 DEF InReach
    <3>2. mark'[source'[k]] = Null \/ clock < mark'[source'[k]]
      BY <1>6, <1>9 DEF InReach
    <3> QED BY <1>1, <1>2, <3>1, <3>2 DEF Null
  <2>2. source[k] \in 1 .. writes
    BY <1>5, <1>9, <2>1 DEF InReach, Absent
  <2>3. InReach(k, watermark)
    BY <1>1, <1>2, <1>9, <2>1, <2>2 DEF InReach, Absent
  <2> QED BY <1>9, <2>1, <2>3 DEF LoadInv, ExportInv
<1>10. ExportInv'
  BY <1>2, <1>8, <1>9 DEF LoadInv, ExportInv, Before
<1> QED BY <1>1, <1>3, <1>4, <1>10 DEF LoadInv

-----------------------------------------------------------------------------
(* The whole. *)

LEMMA BackfillNextSafe ==
  ASSUME SafeCommits, StrictMarks, SyncInv, LoadInv, [BackfillNext]_backfillVars
  PROVE  /\ SyncInv' /\ LoadInv'
         /\ [Next]_vars \/ Abs!Advance \/ Abs!Claim \/ UNCHANGED <<sourceVars, delta, ckpt>>
<1>1. CASE CaptureWatermark \/ NoWatermark
  <2>1. UNCHANGED vars
    BY <1>1 DEF CaptureWatermark, NoWatermark
  <2> QED BY <1>1, <2>1, CaptureSafe, SyncSafe
<1>2. CASE \E k \in Keys : ExportRow(k)
  <2>1. UNCHANGED vars
    BY <1>2 DEF ExportRow
  <2> QED BY <1>2, <2>1, ExportSafe, SyncSafe
<1>3. CASE StartOver
  <2>1. UNCHANGED vars
    BY <1>3 DEF StartOver
  <2> QED BY <1>3, <2>1, StartOverSafe, SyncSafe
<1>4. CASE LoadTable BY <1>4, LoadSafe
<1>5. CASE SetCheckpoint BY <1>5, SetSafe
<1>6. CASE OpenForHandover \/ HandoverFails
  BY <1>6, OpenSafe DEF OpenForHandover, HandoverFails, vars, targetVars, sourceVars
<1>7. CASE Incremental
  <2>1. /\ [Next]_vars /\ stage \in After
        /\ UNCHANGED <<stage, watermark, staged, unread>>
    BY <1>7 DEF Incremental, Next, After
  <2>2. outdated' \in BOOLEAN /\ (outdated' => stage = "record")
    <3>1. outdated \in BOOLEAN /\ (outdated => stage = "record")
      BY DEF LoadInv, LoadTyped
    <3>2. outdated' = (\/ outdated
                       \/ /\ stage = "record"
                          /\ ForceResync \/ \E w \in Workers : CommitCheckpoint(w))
      BY <1>7 DEF Incremental
    <3> QED BY <3>1, <3>2, Zenon
  <2> QED BY <2>1, <2>2, GoesOnSafe
<1>8. CASE SourceStep /\ UNCHANGED loadVars
  <2>1. /\ [Next]_vars /\ UNCHANGED <<stage, watermark, staged, unread>>
        /\ stage \in Before \cup After
    BY <1>8 DEF Next, loadVars, LoadInv, LoadTyped, Stages, Before, After
  <2>2. CASE stage \in Before
    BY <1>8, <2>1, <2>2, SourceBefore
  <2>3. CASE stage \in After
    <3>1. outdated' \in BOOLEAN /\ (outdated' => stage = "record")
      BY <1>8 DEF loadVars, LoadInv, LoadTyped
    <3> QED BY <2>1, <2>3, <3>1, GoesOnSafe
  <2> QED BY <2>1, <2>2, <2>3
<1>9. CASE UNCHANGED backfillVars
  <2>1. UNCHANGED vars /\ UNCHANGED <<stage, watermark, staged, unread, outdated>>
    BY <1>9 DEF backfillVars, loadVars
  <2>2. UNCHANGED <<source, mark, writes, clock, delta, ckpt, run>>
    BY <2>1 DEF vars, sourceVars, targetVars
  <2>3. LoadTyped'
    BY <2>1, <2>2 DEF LoadInv, LoadTyped
  <2>4. ExportInv' /\ HandoverInv'
    BY <2>1, <2>2 DEF LoadInv, ExportInv, HandoverInv, Covers, InReach
  <2> QED BY <2>1, <2>3, <2>4, SyncSafe DEF LoadInv
<1> QED
  BY <1>1, <1>2, <1>3, <1>4, <1>5, <1>6, <1>7, <1>8, <1>9 DEF BackfillNext

LEMMA LoadInvHolds ==
  SafeCommits /\ StrictMarks => (BackfillSpec => [](SyncInv /\ LoadInv))
<1> SUFFICES ASSUME SafeCommits, StrictMarks PROVE BackfillSpec => [](SyncInv /\ LoadInv)
  OBVIOUS
<1>1. SyncInv /\ LoadInv /\ [BackfillNext]_backfillVars => (SyncInv /\ LoadInv)'
  BY BackfillNextSafe
<1> QED BY BackfillInitSafe, <1>1, PTL DEF BackfillSpec

(* The variables have their types, and the steps of the handover come in   *)
(* their order: nothing is unread once the load begins, and only a         *)
(* set_checkpoint under way can be outdated.                               *)
THEOREM BackfillTypeCorrect ==
  SafeCommits /\ StrictMarks => (BackfillSpec => []BackfillTypeOK)
<1> SUFFICES ASSUME SafeCommits, StrictMarks PROVE BackfillSpec => []BackfillTypeOK
  OBVIOUS
<1>1. SyncInv /\ LoadInv => BackfillTypeOK
  BY DEF SyncInv, LoadInv, LoadTyped, ExportInv, BackfillTypeOK
<1> QED BY <1>1, LoadInvHolds, PTL

(* The value source_watermark returned covers what was loaded, however the *)
(* source changed during the export: what the export read too early or too *)
(* late carries a watermark greater than any there was at the capture.     *)
THEOREM CaptureIsCovered ==
  SafeCommits /\ StrictMarks => (BackfillSpec => []CaptureCovers)
<1> SUFFICES ASSUME SafeCommits, StrictMarks PROVE BackfillSpec => []CaptureCovers
  OBVIOUS
<1>1. LoadInv => CaptureCovers
  BY CoversIsCovered DEF LoadInv, LoadTyped, HandoverInv, CaptureCovers, After
<1> QED BY <1>1, LoadInvHolds, PTL

(* A bulk load, set_checkpoint and the runs that race it keep the contract *)
(* of a replica with a claim: the load is one move forward, the handover   *)
(* one claim, and both are met.                                            *)
THEOREM HandoverRefines ==
  SafeCommits /\ StrictMarks => (BackfillSpec => ImplementsReplica)
<1> SUFFICES ASSUME SafeCommits, StrictMarks PROVE BackfillSpec => ImplementsReplica
  OBVIOUS
<1>1. BackfillInit => Abs!ReplicaInit
  BY DEF BackfillInit, Init, SourceInit, NoCheckpoint, Absent, Null, Versions,
         Abs!ReplicaInit, Abs!SourceInit, Abs!Absent, Abs!Null, Abs!Versions
<1>2. ASSUME SyncInv, LoadInv, [BackfillNext]_backfillVars
      PROVE  [Abs!ReplicaNext]_(Abs!replicaVars)
  <2>1. CASE [Next]_vars
    BY <1>2, <2>1, AnyBatch, StepRefines DEF SyncInv
  <2>2. CASE Abs!Advance \/ Abs!Claim
    BY <2>2 DEF Abs!ReplicaNext
  <2>3. CASE UNCHANGED <<sourceVars, delta, ckpt>>
    BY <2>3 DEF sourceVars, Abs!replicaVars
  <2> QED BY <1>2, <2>1, <2>2, <2>3, BackfillNextSafe
<1> QED
  BY <1>1, <1>2, LoadInvHolds, PTL DEF BackfillSpec, ImplementsReplica, Abs!ReplicaSpec
=============================================================================
