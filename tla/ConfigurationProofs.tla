------------------------ MODULE ConfigurationProofs ------------------------
(***************************************************************************)
(* Theorems about Configuration: for any jobs and any source, a checkpoint *)
(* only one stream of rows was recorded under is right for that stream.    *)
(***************************************************************************)
EXTENDS Configuration, SequenceTheorems, FiniteSetTheorems, TLAPS

Setups == {job.setup : job \in Jobs}
Streams == [source: SourceTables, column: Columns, into: DataPaths]
Busy == {"read", "open", "query", "record", "lookup"}

KeptTyped ==
  /\ columns \in [SourceTables -> SUBSET Columns]
  /\ changes \in [SourceTables -> Nat]
  /\ rows \in [DataPaths -> SUBSET (SourceTables \X Nat)]
  /\ marks \in [CheckpointPaths -> Nat]
  /\ streams \in [CheckpointPaths -> SUBSET Streams]

(* The call under way, all of its fields spelled out. *)
CallTyped ==
  /\ call = [pc |-> call.pc, setup |-> call.setup, left |-> call.left,
             found |-> call.found, last |-> call.last, source |-> call.source,
             upTo |-> call.upTo]
  /\ call.pc \in {"idle", "refused"} \cup Busy
  /\ call.pc \in Busy =>
       call.setup \in Setups /\ call.left \in Seq(Entries) /\ call.left # <<>>

OwnMarks == CheckpointPath(call.setup, Entry.table)
OwnRows == DataPath(call.setup, Entry.table)

(* A run goes on from the checkpoint as it is still, and what it is about  *)
(* to record is the watermark of a change up to which all is merged.       *)
CallInv ==
  /\ call.pc \in {"open", "query", "record"} => call.last = marks[OwnMarks]
  /\ At("record") =>
       /\ call.source \in SourceTables /\ Ordering \in Columns
       /\ call.upTo > call.last
       /\ \E m \in 1 .. changes[call.source] :
            /\ call.upTo = Mark(Ordering, m)
            /\ \A n \in 1 .. m : Mark(Ordering, n) > call.last =>
                 <<call.source, n>> \in rows[OwnRows]

(* A checkpoint that nothing was recorded under stands at nothing, and one *)
(* of a single stream is not ahead of it.                                  *)
Behind ==
  \A p \in CheckpointPaths :
    /\ streams[p] = {} => marks[p] = 0
    /\ \A s \in streams[p] :
         streams[p] = {s} => marks[p] <= Mark(s.column, changes[s.source])

ConfigInv == KeptTyped /\ CallTyped /\ CallInv /\ Behind /\ RightForItsStream

USE ConfigurationAssumption

-----------------------------------------------------------------------------
LEMMA PathsOf ==
  ASSUME CallTyped, call.pc \in Busy
  PROVE  Entry \in Entries /\ OwnMarks \in CheckpointPaths /\ OwnRows \in DataPaths
<1>1. Entry \in Entries
  BY ElementOfSeq DEF CallTyped, Entry
<1>2. PICK job \in Jobs : call.setup = job.setup
  BY DEF CallTyped, Setups
<1>3. Entry.table \in Names
  BY <1>1 DEF Names
<1> QED
  BY <1>1, <1>2, <1>3 DEF OwnMarks, OwnRows, CheckpointPaths, DataPaths

(* With checkpoints and rows as they are, a run may only come to its end,  *)
(* or to a table it has yet to read.                                       *)
LEMMA CallMoves ==
  ASSUME ConfigInv, UNCHANGED <<columns, changes, drops, rows, marks, streams>>,
         CallTyped', call'.pc \in {"idle", "refused", "read", "lookup"}
  PROVE  ConfigInv'
BY DEF ConfigInv, KeptTyped, CallInv, Behind, RightForItsStream, At

LEMMA EndsTyped ==
  ASSUME NEW pc \in {"idle", "refused"}, Ends(pc)
  PROVE  CallTyped' /\ call'.pc = pc
<1>1. call' = [pc |-> pc, setup |-> <<>>, left |-> <<>>, found |-> {},
               last |-> NoMark, source |-> <<>>, upTo |-> NoMark]
  BY DEF Ends, Idle
<1> QED BY <1>1 DEF CallTyped, Busy

LEMMA BeginsTyped ==
  ASSUME NEW pc \in {"read", "lookup"}, NEW job \in Jobs, Begins(pc, job), job.entries # <<>>
  PROVE  CallTyped' /\ call'.pc = pc
<1>1. call' = [pc |-> pc, setup |-> job.setup, left |-> job.entries, found |-> {},
               last |-> NoMark, source |-> <<>>, upTo |-> NoMark]
  BY DEF Begins, Idle
<1>2. job.setup \in Setups
  BY DEF Setups
<1>3. job.entries \in Seq(Entries)
  BY DEF ConfigurationAssumption
<1> QED BY <1>1, <1>2, <1>3 DEF CallTyped, Busy

LEMMA TailTyped ==
  ASSUME CallTyped, call.pc \in Busy, Len(call.left) # 1
  PROVE  Tail(call.left) \in Seq(Entries) /\ Tail(call.left) # <<>>
<1> DEFINE left == call.left
<1>1. left \in Seq(Entries) /\ left # <<>> /\ Len(left) # 1
  BY DEF CallTyped
<1> HIDE DEF left
<1>2. Tail(left) \in Seq(Entries) /\ Len(Tail(left)) = Len(left) - 1 /\ Len(left) \in Nat
  BY <1>1, HeadTailProperties
<1>3. Len(Tail(left)) # 0
  BY <1>1, <1>2
<1> QED BY <1>2, <1>3, EmptySeq DEF left

LEMMA NextTableTyped ==
  ASSUME CallTyped, call.pc \in Busy, NextTable
  PROVE  CallTyped' /\ call'.pc \in {"idle", "read"}
<1>1. CASE Len(call.left) = 1
  BY <1>1, EndsTyped DEF NextTable
<1>2. CASE Len(call.left) # 1
  <2>1. call' = [pc |-> "read", setup |-> call.setup, left |-> Tail(call.left), found |-> {},
                 last |-> NoMark, source |-> <<>>, upTo |-> NoMark]
    BY <1>2 DEF NextTable, Idle
  <2>2. Tail(call.left) \in Seq(Entries) /\ Tail(call.left) # <<>>
    BY <1>2, TailTyped
  <2> QED BY <2>1, <2>2 DEF CallTyped, Busy
<1> QED BY <1>1, <1>2

LEMMA StartSafe ==
  ASSUME ConfigInv, NEW job \in Jobs, StartRun(job) \/ StartCheck(job)
  PROVE  ConfigInv'
<1>1. UNCHANGED <<columns, changes, drops, rows, marks, streams>>
  BY DEF StartRun, StartCheck, sourceVars, storeVars
<1>2. \/ Ends("refused") \/ Ends("idle")
      \/ job.entries # <<>> /\ (Begins("read", job) \/ Begins("lookup", job))
  BY DEF StartRun, StartCheck
<1>3. CallTyped' /\ call'.pc \in {"idle", "refused", "read", "lookup"}
  BY <1>2, EndsTyped, BeginsTyped
<1> QED BY <1>1, <1>3, CallMoves

LEMMA FailSafe ==
  ASSUME ConfigInv, Fail \/ FailCheck
  PROVE  ConfigInv'
<1>1. UNCHANGED <<columns, changes, drops, rows, marks, streams>> /\ Ends("idle")
  BY DEF Fail, FailCheck, sourceVars, storeVars
<1> QED BY <1>1, EndsTyped, CallMoves

LEMMA MoreThanOne == \A n : n > 1 => n # 1
OBVIOUS

LEMMA LookUpSafe ==
  ASSUME ConfigInv, LookUp
  PROVE  ConfigInv'
<1>1. UNCHANGED <<columns, changes, drops, rows, marks, streams>> /\ At("lookup") /\ CallTyped
  BY DEF LookUp, sourceVars, storeVars, ConfigInv
<1>2. CASE Ends("idle")
  BY <1>1, <1>2, EndsTyped, CallMoves
<1>3. ASSUME NEW found, Len(call.left) > 1,
             call' = [call EXCEPT !.left = Tail(@), !.found = found]
      PROVE  ConfigInv'
  <2>1. call' = [pc |-> "lookup", setup |-> call.setup, left |-> Tail(call.left), found |-> found,
                 last |-> call.last, source |-> call.source, upTo |-> call.upTo]
    BY <1>1, <1>3 DEF CallTyped, At
  <2>2. call.pc \in Busy
    BY <1>1 DEF At, Busy
  <2>3. Len(call.left) # 1
    BY <1>3, MoreThanOne, Zenon
  <2>4. Tail(call.left) \in Seq(Entries) /\ Tail(call.left) # <<>>
    BY <1>1, <2>2, <2>3, TailTyped
  <2>5. call.setup \in Setups
    BY <1>1, <2>2 DEF CallTyped
  <2>6. CallTyped' /\ call'.pc = "lookup"
    BY <2>1, <2>4, <2>5 DEF CallTyped, Busy
  <2> QED BY <1>1, <2>6, CallMoves
<1>4. CASE call' = Idle
  BY <1>1, <1>4, CallMoves DEF Idle, CallTyped, Busy
<1> QED BY <1>2, <1>3, <1>4 DEF LookUp

LEMMA OpenTableSafe ==
  ASSUME ConfigInv, OpenTable
  PROVE  ConfigInv'
<1>1. UNCHANGED <<columns, changes, drops, rows, marks, streams>> /\ At("open") /\ CallTyped
  BY DEF OpenTable, sourceVars, storeVars, ConfigInv
<1>2. CASE Ends("refused")
  BY <1>1, <1>2, EndsTyped, CallMoves
<1>3. CASE call' = [call EXCEPT !.pc = "query"]
  <2>1. call' = [pc |-> "query", setup |-> call.setup, left |-> call.left,
                 found |-> call.found, last |-> call.last, source |-> call.source,
                 upTo |-> call.upTo]
    BY <1>1, <1>3 DEF CallTyped
  <2>2. CallTyped'
    BY <1>1, <2>1 DEF CallTyped, Busy, At
  <2>3. OwnMarks' = OwnMarks
    BY <1>1, <2>1 DEF OwnMarks, Entry
  <2>4. CallInv'
    BY <1>1, <2>1, <2>3 DEF CallInv, At, ConfigInv
  <2> QED BY <1>1, <2>2, <2>4 DEF ConfigInv, KeptTyped, Behind, RightForItsStream
<1> QED BY <1>2, <1>3 DEF OpenTable

LEMMA ReadMarkSafe ==
  ASSUME ConfigInv, ReadMark
  PROVE  ConfigInv'
<1>1. UNCHANGED <<columns, changes, drops, rows, marks, streams>> /\ At("read") /\ CallTyped
  BY DEF ReadMark, sourceVars, storeVars, ConfigInv
<1>2. CASE Ends("refused")
  BY <1>1, <1>2, EndsTyped, CallMoves
<1>3. CASE call' = [call EXCEPT
                     !.pc = "open", !.last = marks[CheckpointPath(call.setup, Entry.table)]]
  <2>1. call' = [pc |-> "open", setup |-> call.setup, left |-> call.left,
                 found |-> call.found, last |-> marks[OwnMarks], source |-> call.source,
                 upTo |-> call.upTo]
    BY <1>1, <1>3 DEF CallTyped, OwnMarks
  <2>2. CallTyped'
    BY <1>1, <2>1 DEF CallTyped, Busy, At
  <2>3. OwnMarks' = OwnMarks
    BY <1>1, <2>1 DEF OwnMarks, Entry
  <2>4. CallInv'
    BY <1>1, <2>1, <2>3 DEF CallInv, At
  <2> QED BY <1>1, <2>2, <2>4 DEF ConfigInv, KeptTyped, Behind, RightForItsStream
<1> QED BY <1>2, <1>3 DEF ReadMark

(* Rows are only ever added, so nothing kept goes missing. *)
LEMMA SelectAndMergeSafe ==
  ASSUME ConfigInv, SelectAndMerge
  PROVE  ConfigInv'
<1> DEFINE refuses == ~Plain(Entry) \/ Ordering \notin ColumnsOf(Selecting)
<1>1. UNCHANGED <<columns, changes, drops, marks, streams>> /\ At("query")
  BY DEF SelectAndMerge, sourceVars
<1>2. CallTyped /\ call.pc \in Busy /\ KeptTyped /\ CallInv
  BY <1>1 DEF ConfigInv, At, Busy
<1>3. OwnMarks \in CheckpointPaths /\ OwnRows \in DataPaths
  BY <1>2, PathsOf
<1>4. CASE refuses
  BY <1>1, <1>2, <1>4, EndsTyped, CallMoves DEF SelectAndMerge
<1>5. CASE ~refuses
  <2>1. Selecting \in SourceTables /\ Ordering \in Columns
    BY <1>2, <1>5 DEF ColumnsOf, KeptTyped
  <2>2. rows' = [rows EXCEPT ![OwnRows] = @ \cup ({Selecting} \X News)]
    BY <1>5 DEF SelectAndMerge, OwnRows
  <2>3. rows' \in [DataPaths -> SUBSET (SourceTables \X Nat)]
    <3>1. {Selecting} \X News \subseteq SourceTables \X Nat
      BY <2>1, <1>2 DEF News, KeptTyped
    <3> QED BY <3>1, <2>2, <1>2, <1>3 DEF KeptTyped
  <2>4. \A p \in DataPaths : rows[p] \subseteq rows'[p]
    BY <2>2, <1>2 DEF KeptTyped
  <2>5. KeptTyped'
    BY <2>3, <1>1, <1>2 DEF KeptTyped
  <2>6. RightForItsStream'
    BY <2>4, <1>1, <1>2 DEF RightForItsStream, ConfigInv, KeptTyped, Streams
  <2>7. Behind'
    BY <1>1 DEF Behind, ConfigInv
  <2>8. CASE News = {}
    <3>1. CallTyped' /\ call'.pc \in {"idle", "read"}
      BY <2>8, <1>2, <1>5, NextTableTyped DEF SelectAndMerge
    <3>2. CallInv'
      BY <3>1 DEF CallInv, At
    <3> QED BY <3>1, <3>2, <2>5, <2>6, <2>7 DEF ConfigInv
  <2>9. CASE News # {}
    <3> DEFINE m == changes[Selecting]
    <3>1. call' = [pc |-> "record", setup |-> call.setup, left |-> call.left,
                   found |-> call.found, last |-> call.last, source |-> Selecting,
                   upTo |-> Mark(Ordering, m)]
      BY <2>9, <1>2, <1>5 DEF SelectAndMerge, CallTyped
    <3>2. CallTyped'
      BY <1>2, <3>1 DEF CallTyped, Busy
    <3>3. OwnMarks' = OwnMarks /\ OwnRows' = OwnRows /\ Ordering' = Ordering
      BY <3>1 DEF OwnMarks, OwnRows, Ordering, Entry
    <3>4. m \in Nat /\ Offset[Ordering] \in Nat
      BY <2>1, <1>2 DEF KeptTyped, ConfigurationAssumption
    <3>5. call.last = marks[OwnMarks] /\ call.last \in Nat
      BY <1>1, <1>2, <1>3 DEF CallInv, KeptTyped, At
    <3>6. PICK k \in 1 .. m : Mark(Ordering, k) > call.last
      BY <2>9 DEF News
    <3>7. m \in 1 .. m /\ Mark(Ordering, m) > call.last
      BY <3>4, <3>5, <3>6 DEF Mark
    <3>8. \A n \in 1 .. m : Mark(Ordering, n) > call.last =>
            <<Selecting, n>> \in rows'[OwnRows]
      BY <1>2, <1>3, <2>2 DEF News, KeptTyped
    <3>9. m = changes'[Selecting]
      BY <1>1
    <3>10. /\ Selecting \in SourceTables /\ Ordering' \in Columns
           /\ Mark(Ordering, m) > call.last
           /\ \E l \in 1 .. changes'[Selecting] :
                /\ Mark(Ordering, m) = Mark(Ordering', l)
                /\ \A n \in 1 .. l : Mark(Ordering', n) > call.last =>
                      <<Selecting, n>> \in rows'[OwnRows']
      BY <2>1, <3>3, <3>7, <3>8, <3>9
    <3>11. call'.source = Selecting /\ call'.upTo = Mark(Ordering, m) /\ call'.last = call.last
      BY <3>1
    <3>12. Mark(Ordering', m) = Mark(Ordering, m)
      BY <3>3
    <3>13. call'.last = marks'[OwnMarks']
      BY <3>3, <3>5, <3>11, <1>1
    <3> HIDE DEF m
    <3>14. CallInv'
      BY <3>10, <3>11, <3>13 DEF CallInv, Mark
    <3> QED BY <3>2, <3>14, <2>5, <2>6, <2>7 DEF ConfigInv
  <2> QED BY <2>8, <2>9
<1> QED BY <1>4, <1>5

(* Where only this stream was recorded before, a change at or below the    *)
(* new mark is above the old one, and merged by this run, or was right.    *)
LEMMA RecordMarkSafe ==
  ASSUME ConfigInv, RecordMark
  PROVE  ConfigInv'
<1> DEFINE at == OwnMarks
           stream == [source |-> call.source, column |-> Ordering, into |-> OwnRows]
<1>1. UNCHANGED <<columns, changes, drops, rows>> /\ At("record") /\ NextTable
  BY DEF RecordMark, sourceVars
<1>2. CallTyped /\ call.pc \in Busy /\ KeptTyped /\ CallInv /\ Behind /\ RightForItsStream
  BY <1>1 DEF ConfigInv, At, Busy
<1>3. OwnMarks \in CheckpointPaths /\ OwnRows \in DataPaths
  BY <1>2, PathsOf
<1>4. /\ marks' = [marks EXCEPT ![at] = call.upTo]
      /\ streams' = [streams EXCEPT ![at] = @ \cup {stream}]
  BY DEF RecordMark, Newest, OwnMarks, OwnRows
<1>5. call.source \in SourceTables /\ Ordering \in Columns /\ call.last = marks[at]
  BY <1>1, <1>2 DEF CallInv, At
<1>6. PICK m \in 1 .. changes[call.source] :
        /\ call.upTo = Mark(Ordering, m)
        /\ \A n \in 1 .. m : Mark(Ordering, n) > call.last => <<call.source, n>> \in rows[OwnRows]
  BY <1>1, <1>2 DEF CallInv, At
<1>7. stream \in Streams
  BY <1>3, <1>5 DEF Streams
<1>8. changes[call.source] \in Nat /\ Offset[Ordering] \in Nat /\ call.last \in Nat
  BY <1>2, <1>3, <1>5 DEF KeptTyped, ConfigurationAssumption
<1>9. call.upTo \in Nat /\ call.upTo <= Mark(Ordering, changes[call.source])
  BY <1>6, <1>8 DEF Mark
<1>10. CallTyped' /\ call'.pc \in {"idle", "read"}
  BY <1>1, <1>2, NextTableTyped
<1>11. CallInv'
  BY <1>10 DEF CallInv, At
<1>12. stream.source = call.source /\ stream.column = Ordering /\ stream.into = OwnRows
  OBVIOUS
<1> HIDE DEF at, stream
<1>13. KeptTyped'
  BY <1>1, <1>2, <1>4, <1>7, <1>9 DEF KeptTyped
<1>14. /\ marks'[at] = call.upTo /\ streams'[at] = streams[at] \cup {stream}
       /\ \A p \in CheckpointPaths \ {at} : marks'[p] = marks[p] /\ streams'[p] = streams[p]
  BY <1>2, <1>3, <1>4 DEF KeptTyped, at
<1>15. Behind'
  <2> SUFFICES ASSUME NEW p \in CheckpointPaths
               PROVE  /\ streams'[p] = {} => marks'[p] = 0
                      /\ \A s \in streams'[p] : streams'[p] = {s} =>
                            marks'[p] <= Mark(s.column, changes'[s.source])
    BY DEF Behind
  <2>1. CASE p # at
    BY <2>1, <1>1, <1>2, <1>14 DEF Behind
  <2>2. CASE p = at
    BY <2>2, <1>1, <1>9, <1>12, <1>14
  <2> QED BY <2>1, <2>2
<1>16. RightForItsStream'
  <2> SUFFICES ASSUME NEW p \in CheckpointPaths, NEW s \in streams'[p], streams'[p] = {s},
                      NEW n \in 1 .. changes[s.source], Mark(s.column, n) <= marks'[p]
               PROVE  <<s.source, n>> \in rows[s.into]
    BY <1>1 DEF RightForItsStream
  <2>1. CASE p # at
    BY <2>1, <1>2, <1>14 DEF RightForItsStream
  <2>2. CASE p = at
    <3>1. s = stream /\ (streams[at] = {} \/ streams[at] = {stream})
      BY <2>2, <1>14
    <3>2. Mark(Ordering, n) <= call.upTo /\ n \in 1 .. changes[call.source]
      BY <2>2, <3>1, <1>12, <1>14
    <3>3. n \in 1 .. m
      BY <3>2, <1>6, <1>8 DEF Mark
    <3>4. CASE Mark(Ordering, n) > call.last
      BY <3>1, <3>3, <3>4, <1>6, <1>12
    <3>5. CASE ~(Mark(Ordering, n) > call.last)
      <4>1. Mark(Ordering, n) <= marks[at] /\ Mark(Ordering, n) > 0
        BY <3>2, <3>5, <1>5, <1>8 DEF Mark
      <4>2. streams[at] = {stream}
        BY <4>1, <3>1, <1>2, <1>3, <1>8, <3>2 DEF Behind, at, Mark
      <4> QED BY <4>1, <4>2, <3>1, <3>2, <1>2, <1>3, <1>12 DEF RightForItsStream, at
    <3> QED BY <3>4, <3>5
  <2> QED BY <2>1, <2>2
<1> QED BY <1>10, <1>11, <1>13, <1>15, <1>16 DEF ConfigInv

(* A new change is above every checkpoint that is right for its table. *)
LEMMA ChangeSafe ==
  ASSUME ConfigInv, NEW t \in SourceTables, Change(t)
  PROVE  ConfigInv'
<1>1. UNCHANGED <<columns, drops, rows, marks, streams, call>>
  BY DEF Change, storeVars
<1>2. changes' = [changes EXCEPT ![t] = @ + 1] /\ changes \in [SourceTables -> Nat]
  BY DEF Change, ConfigInv, KeptTyped
<1>3. /\ \A u \in SourceTables : changes[u] \in Nat /\ changes'[u] \in Nat
      /\ changes'[t] = changes[t] + 1
      /\ \A u \in SourceTables \ {t} : changes'[u] = changes[u]
  BY <1>2
<1>4. KeptTyped'
  BY <1>1, <1>2 DEF KeptTyped, ConfigInv
<1>5. CallTyped' /\ OwnMarks' = OwnMarks /\ OwnRows' = OwnRows /\ Ordering' = Ordering
  BY <1>1 DEF ConfigInv, CallTyped, OwnMarks, OwnRows, Ordering, Entry
<1>6. CallInv'
  <2>1. CallInv
    BY DEF ConfigInv
  <2>2. CASE ~At("record")
    BY <1>1, <1>5, <2>1, <2>2 DEF CallInv, At
  <2>3. CASE At("record")
    <3>1. call.source \in SourceTables /\ Ordering \in Columns /\ call.upTo > call.last
      BY <2>1, <2>3 DEF CallInv
    <3>2. PICK m \in 1 .. changes[call.source] :
            /\ call.upTo = Mark(Ordering, m)
            /\ \A n \in 1 .. m : Mark(Ordering, n) > call.last =>
                  <<call.source, n>> \in rows[OwnRows]
      BY <2>1, <2>3 DEF CallInv
    <3>3. m \in 1 .. changes'[call.source]
      BY <1>3, <3>1
    <3>4. call.pc \in {"open", "query", "record"} => call.last = marks[OwnMarks]
      BY <2>1 DEF CallInv
    <3>5. Mark(Ordering', m) = Mark(Ordering, m) /\ \A n \in 1 .. m : Mark(Ordering', n) = Mark(Ordering, n)
      BY <1>5
    <3> QED BY <1>1, <1>5, <3>1, <3>2, <3>3, <3>4, <3>5 DEF CallInv, Mark
  <2> QED BY <2>2, <2>3
<1>7. Behind'
  <2> SUFFICES ASSUME NEW p \in CheckpointPaths, NEW s \in streams[p], streams[p] = {s}
               PROVE  marks[p] <= Mark(s.column, changes'[s.source])
    BY <1>1 DEF Behind, ConfigInv
  <2>1. s.source \in SourceTables /\ Offset[s.column] \in Nat /\ marks[p] \in Nat
    BY DEF ConfigInv, KeptTyped, Streams, ConfigurationAssumption
  <2>2. marks[p] <= Mark(s.column, changes[s.source])
    BY DEF ConfigInv, Behind
  <2>3. changes[s.source] <= changes'[s.source]
    BY <2>1, <1>3
  <2> DEFINE before == changes[s.source]
             after == changes'[s.source]
  <2>4. before \in Nat /\ after \in Nat
    BY <2>1, <1>3
  <2> QED BY <2>1, <2>2, <2>3, <2>4 DEF Mark
<1>8. RightForItsStream'
  <2> SUFFICES ASSUME NEW p \in CheckpointPaths, NEW s \in streams[p], streams[p] = {s},
                      NEW n \in 1 .. changes'[s.source], Mark(s.column, n) <= marks[p]
               PROVE  <<s.source, n>> \in rows[s.into]
    BY <1>1 DEF RightForItsStream
  <2>1. s.source \in SourceTables /\ Offset[s.column] \in Nat /\ marks[p] \in Nat
    BY DEF ConfigInv, KeptTyped, Streams, ConfigurationAssumption
  <2>2. marks[p] <= Mark(s.column, changes[s.source])
    BY DEF ConfigInv, Behind
  <2> DEFINE before == changes[s.source]
             after == changes'[s.source]
  <2>3. before \in Nat /\ after \in Nat
    BY <2>1, <1>3
  <2>4. n \in 1 .. before
    BY <2>1, <2>2, <2>3 DEF Mark
  <2> QED BY <2>4 DEF ConfigInv, RightForItsStream
<1> QED BY <1>4, <1>5, <1>6, <1>7, <1>8 DEF ConfigInv

LEMMA DropSafe ==
  ASSUME ConfigInv, NEW t \in SourceTables, Drop(t)
  PROVE  ConfigInv'
<1>1. UNCHANGED <<changes, rows, marks, streams, call>>
  BY DEF Drop, storeVars
<1>2. columns' \in [SourceTables -> SUBSET Columns]
  BY DEF Drop, ConfigInv, KeptTyped
<1>3. OwnMarks' = OwnMarks /\ OwnRows' = OwnRows /\ Ordering' = Ordering
  BY <1>1 DEF OwnMarks, OwnRows, Ordering, Entry
<1>4. KeptTyped' /\ CallTyped'
  BY <1>1, <1>2 DEF ConfigInv, KeptTyped, CallTyped
<1>5. CallInv'
  BY <1>1, <1>3 DEF ConfigInv, CallInv, At, Mark
<1> QED BY <1>1, <1>4, <1>5 DEF ConfigInv, Behind, RightForItsStream

LEMMA InitSafe == ConfigInit => ConfigInv
<1> SUFFICES ASSUME ConfigInit PROVE ConfigInv
  OBVIOUS
<1>1. KeptTyped
  BY DEF ConfigInit, KeptTyped, NoMark
<1>2. CallTyped /\ CallInv
  BY DEF ConfigInit, CallTyped, CallInv, Idle, At, Busy
<1>3. Behind /\ RightForItsStream
  BY DEF ConfigInit, Behind, RightForItsStream, NoMark
<1> QED BY <1>1, <1>2, <1>3 DEF ConfigInv

LEMMA NextSafe == ConfigInv /\ [ConfigNext]_configVars => ConfigInv'
<1> SUFFICES ASSUME ConfigInv, [ConfigNext]_configVars PROVE ConfigInv'
  OBVIOUS
<1>1. CASE UNCHANGED configVars
  BY <1>1 DEF configVars, sourceVars, storeVars, ConfigInv, KeptTyped, CallTyped, CallInv,
              Behind, RightForItsStream, OwnMarks, OwnRows, Entry, Ordering, At
<1>2. CASE \E job \in Jobs : StartRun(job) \/ StartCheck(job)
  BY <1>2, StartSafe
<1>3. CASE ReadMark \/ OpenTable
  BY <1>3, ReadMarkSafe, OpenTableSafe
<1>4. CASE SelectAndMerge \/ RecordMark
  BY <1>4, SelectAndMergeSafe, RecordMarkSafe
<1>5. CASE Fail \/ FailCheck
  BY <1>5, FailSafe
<1>6. CASE LookUp
  BY <1>6, LookUpSafe
<1>7. CASE \E t \in SourceTables : Change(t) \/ Drop(t)
  BY <1>7, ChangeSafe, DropSafe
<1> QED BY <1>1, <1>2, <1>3, <1>4, <1>5, <1>6, <1>7 DEF ConfigNext

(* A checkpoint that one stream of rows set misses nothing of that stream, *)
(* whatever the jobs, the names in them and the schema are and in whatever *)
(* order runs, failures and changes of the source come.                    *)
THEOREM CheckpointOfOneStream == ConfigSpec => []RightForItsStream
<1>1. ConfigInv => RightForItsStream
  BY DEF ConfigInv
<1> QED BY InitSafe, NextSafe, <1>1, PTL DEF ConfigSpec

-----------------------------------------------------------------------------
(* Rows come from one table at most in a step, and from dbo only where the *)
(* table looked up is not there.                                           *)
LEMMA SelectsDescribed ==
  ASSUME ConfigInv, [ConfigNext]_configVars,
         NEW p \in DataPaths, NEW row \in rows'[p] \ rows[p]
  PROVE  \/ row[1] = Described(call.setup, Entry.table)
         \/ ColumnsOf(Described(call.setup, Entry.table)) = {}
<1>1. CASE UNCHANGED rows
  BY <1>1
<1>2. CASE rows' = [rows EXCEPT ![OwnRows] = @ \cup ({Selecting} \X News)]
  <2>1. rows \in [DataPaths -> SUBSET (SourceTables \X Nat)]
    BY DEF ConfigInv, KeptTyped
  <2>2. row \in {Selecting} \X News
    BY <1>2, <2>1
  <2>3. row[1] = Selecting
    BY <2>2
  <2> QED BY <2>3 DEF Selecting, Selected, Described
<1> QED
  BY <1>1, <1>2 DEF ConfigNext, configVars, sourceVars, storeVars, StartRun, StartCheck, ReadMark,
     OpenTable, SelectAndMerge, OwnRows, RecordMark, Fail, LookUp, FailCheck, Change, Drop

(* Each row a run merges is of the table it looked the columns of up, with *)
(* any schemas, any names and any changes of the source.                   *)
THEOREM SelectsWhatItDescribed == ConfigSpec => ReadsWhatItDescribed
<1> DEFINE A == LET looked == Described(call.setup, Entry.table) IN
                \A p \in DataPaths : \A row \in rows'[p] \ rows[p] :
                  row[1] = looked \/ ColumnsOf(looked) = {}
<1>1. ConfigInv /\ [ConfigNext]_configVars => [A]_configVars
  BY SelectsDescribed
<1> QED BY InitSafe, NextSafe, <1>1, PTL DEF ConfigSpec, ReadsWhatItDescribed

-----------------------------------------------------------------------------
(* A verdict is of an entry that can be parsed and is well formed, and is  *)
(* what is_ready says of the columns that were found.                      *)
Sound(items) ==
  \A item \in items :
    /\ Parses(item.entry.table)
    /\ WellFormed(item.entry)
    /\ item.ready <=> IsReady(item.entry, item.columns)

VerdictInv ==
  /\ Sound(report.tables)
  /\ At("lookup") => Sound(call.found) /\ \A i \in DOMAIN call.left : WellFormed(call.left[i])

LEMMA EndsSound ==
  ASSUME NEW pc \in {"idle", "refused"}, Ends(pc)
  PROVE  VerdictInv'
<1>1. call' = [pc |-> pc, setup |-> <<>>, left |-> <<>>, found |-> {},
               last |-> NoMark, source |-> <<>>, upTo |-> NoMark]
  BY DEF Ends, Idle
<1>2. report'.tables = {}
  BY DEF Ends, NoReport
<1> QED BY <1>1, <1>2 DEF VerdictInv, Sound, At

(* Outside of a check, nothing is found and nothing reported anew. *)
LEMMA RunKeepsSound ==
  ASSUME VerdictInv, UNCHANGED report, call'.pc # "lookup"
  PROVE  VerdictInv'
BY DEF VerdictInv, Sound, At

LEMMA NextTableSound ==
  ASSUME VerdictInv, NextTable
  PROVE  VerdictInv'
<1>1. CASE Len(call.left) = 1
  BY <1>1, EndsSound DEF NextTable
<1>2. CASE Len(call.left) # 1
  <2>1. UNCHANGED report
    BY <1>2 DEF NextTable
  <2>2. call'.pc = "read"
    BY <1>2 DEF NextTable, Idle
  <2> QED BY <2>1, <2>2, RunKeepsSound
<1> QED BY <1>1, <1>2

LEMMA StartSound ==
  ASSUME VerdictInv, NEW job \in Jobs, StartRun(job) \/ StartCheck(job)
  PROVE  VerdictInv'
<1>1. CASE Ends("refused") \/ Ends("idle")
  BY <1>1, EndsSound
<1>2. CASE Begins("read", job)
  <2>1. UNCHANGED report /\ call'.pc # "lookup"
    BY <1>2 DEF Begins, Idle
  <2> QED BY <2>1, RunKeepsSound
<1>3. CASE ValidCatalog(job.entries) /\ Begins("lookup", job)
  <2>1. UNCHANGED report /\ call'.found = {} /\ call'.left = job.entries
    BY <1>3 DEF Begins, Idle
  <2>2. \A i \in DOMAIN call'.left : WellFormed(call'.left[i])
    BY <1>3, <2>1 DEF ValidCatalog
  <2> QED BY <2>1, <2>2 DEF VerdictInv, Sound, At
<1> QED BY <1>1, <1>2, <1>3 DEF StartRun, StartCheck

LEMMA LookUpSound ==
  ASSUME VerdictInv, ConfigInv, LookUp
  PROVE  VerdictInv'
<1> DEFINE cols == ColumnsOf(Described(call.setup, Entry.table))
           verdict == [entry |-> Entry, columns |-> cols, ready |-> IsReady(Entry, cols)]
           found == call.found \cup {verdict}
<1>1. At("lookup") /\ CallTyped /\ call.pc \in Busy
  BY DEF LookUp, ConfigInv, At, Busy
<1>2. call.left \in Seq(Entries) /\ call.left # <<>>
  BY <1>1 DEF CallTyped
<1>3. WellFormed(Entry) /\ Sound(call.found)
  BY <1>1, <1>2 DEF VerdictInv, Entry
<1>4. CASE ~Parses(Entry.table) \/ cols = {}
  BY <1>4, EndsSound DEF LookUp
<1>5. CASE ~(~Parses(Entry.table) \/ cols = {})
  <2>1. verdict.entry = Entry /\ verdict.columns = cols
    OBVIOUS
  <2>2. verdict.ready = IsReady(Entry, cols)
    OBVIOUS
  <2> HIDE DEF verdict, cols
  <2>3. Sound(found)
    BY <1>3, <1>5, <2>1, <2>2, Zenon DEF Sound
  <2>4. CASE Len(call.left) > 1
    <3>1. call' = [call EXCEPT !.left = Tail(@), !.found = found] /\ UNCHANGED report
      BY <1>5, <2>4, Zenon DEF LookUp, verdict, cols
    <3>2. call' = [pc |-> call.pc, setup |-> call.setup, left |-> Tail(call.left),
                   found |-> found, last |-> call.last, source |-> call.source,
                   upTo |-> call.upTo]
      BY <1>1, <3>1 DEF CallTyped
    <3>3. \A i \in DOMAIN Tail(call.left) : i + 1 \in DOMAIN call.left /\ Tail(call.left)[i] = call.left[i + 1]
      BY <1>2
    <3>4. call'.left = Tail(call.left) /\ call'.found = found /\ report' = report
      BY <3>1, <3>2
    <3>5. \A i \in DOMAIN call.left : WellFormed(call.left[i])
      BY <1>1 DEF VerdictInv
    <3>6. \A i \in DOMAIN Tail(call.left) : WellFormed(Tail(call.left)[i])
      BY <3>3, <3>5
    <3> HIDE DEF found
    <3> QED BY <2>3, <3>4, <3>6 DEF VerdictInv, Sound
  <2>5. CASE ~(Len(call.left) > 1)
    <3>1. call' = Idle /\ report' = [setup |-> call.setup, tables |-> found]
      BY <1>5, <2>5, Zenon DEF LookUp, verdict, cols
    <3>2. call'.pc # "lookup" /\ report'.tables = found
      BY <3>1 DEF Idle
    <3> HIDE DEF found
    <3> QED BY <2>3, <3>2 DEF VerdictInv, Sound, At
  <2> QED BY <2>4, <2>5
<1> QED BY <1>4, <1>5

LEMMA RunSound ==
  ASSUME VerdictInv, ConfigInv,
         ReadMark \/ OpenTable \/ SelectAndMerge \/ RecordMark \/ Fail \/ FailCheck
  PROVE  VerdictInv'
<1>1. CASE Ends("refused") \/ Ends("idle") \/ NextTable
  BY <1>1, EndsSound, NextTableSound
<1>2. ASSUME UNCHANGED report,
             call' \in {[call EXCEPT !.pc = "open", !.last = marks[CheckpointPath(call.setup, Entry.table)]],
                        [call EXCEPT !.pc = "query"],
                        [call EXCEPT !.pc = "record", !.source = Selecting,
                                     !.upTo = Mark(Ordering, changes[Selecting])]}
      PROVE  VerdictInv'
  <2>1. call'.pc \in {"open", "query", "record"}
    BY <1>2 DEF ConfigInv, CallTyped
  <2> QED BY <1>2, <2>1, RunKeepsSound
<1> QED BY <1>1, <1>2 DEF ReadMark, OpenTable, SelectAndMerge, RecordMark, Fail, FailCheck

LEMMA VerdictStep == ConfigInv /\ VerdictInv /\ [ConfigNext]_configVars => VerdictInv'
<1> SUFFICES ASSUME ConfigInv, VerdictInv, [ConfigNext]_configVars PROVE VerdictInv'
  OBVIOUS
<1>1. CASE UNCHANGED <<call, report>>
  BY <1>1 DEF VerdictInv, Sound, At
<1>2. CASE \E job \in Jobs : StartRun(job) \/ StartCheck(job)
  BY <1>2, StartSound
<1>3. CASE LookUp
  BY <1>3, LookUpSound
<1>4. CASE ReadMark \/ OpenTable \/ SelectAndMerge \/ RecordMark \/ Fail \/ FailCheck
  BY <1>4, RunSound
<1> QED BY <1>1, <1>2, <1>3, <1>4 DEF ConfigNext, configVars, Change, Drop

LEMMA VerdictInit == ConfigInit => VerdictInv
BY DEF ConfigInit, VerdictInv, Sound, NoReport, Idle, At

(* The step of a run that a verdict on its table, still of the same        *)
(* columns, is about.                                                      *)
LEMMA VerdictOfStep ==
  ASSUME ConfigInv, VerdictInv, [ConfigNext]_configVars,
         NEW item \in report.tables, Running, item.entry = Entry,
         item.columns = ColumnsOf(Described(call.setup, Entry.table))
  PROVE  /\ item.ready /\ call'.pc = "refused" => ~Interpolable(Entry) \/ ~Plain(Entry)
         /\ At("open") /\ call'.pc = "query" => item.ready
<1> DEFINE cols == ColumnsOf(Described(call.setup, Entry.table))
<1>1. Parses(Entry.table) /\ WellFormed(Entry) /\ (item.ready <=> IsReady(Entry, cols))
  BY DEF VerdictInv, Sound
<1>2. IsReady(Entry, cols) => Accepts(Entry, cols) \/ ~Interpolable(Entry)
  BY <1>1 DEF IsReady, Accepts
<1>3. Accepts(Entry, cols) => IsReady(Entry, cols)
  BY DEF IsReady, Accepts
<1>4. IsReady(Entry, cols) => Ordering \in ColumnsOf(Selecting)
  BY DEF IsReady, Has, Ordering, Selecting, Selected, Described
<1> HIDE DEF cols
<1>5. CallTyped /\ call.pc \in {"read", "open", "query", "record"}
  BY DEF ConfigInv, Running
<1>6. CASE ReadMark
  <2>1. call' = [call EXCEPT !.pc = "open", !.last = marks[CheckpointPath(call.setup, Entry.table)]]
    BY <1>1, <1>6 DEF ReadMark
  <2> QED BY <1>5, <1>6, <2>1 DEF CallTyped, ReadMark, At
<1>7. CASE OpenTable
  <2>1. CASE Accepts(Entry, cols)
    <3>1. call' = [call EXCEPT !.pc = "query"]
      BY <1>7, <2>1 DEF OpenTable, cols
    <3>2. call'.pc # "refused"
      BY <1>5, <3>1 DEF CallTyped
    <3> QED BY <1>1, <1>3, <2>1, <3>2
  <2>2. CASE ~Accepts(Entry, cols)
    <3>1. Ends("refused")
      BY <1>7, <2>2 DEF OpenTable, cols
    <3>2. call'.pc = "refused"
      BY <3>1, EndsTyped
    <3> QED BY <1>1, <1>2, <2>2, <3>2
  <2> QED BY <2>1, <2>2
<1>8. CASE SelectAndMerge
  <2>1. At("query") /\ call.pc \in Busy
    BY <1>8 DEF SelectAndMerge, At, Busy
  <2>2. CASE ~Plain(Entry) \/ Ordering \notin ColumnsOf(Selecting)
    BY <1>1, <1>4, <2>1, <2>2 DEF At
  <2>3. CASE ~(~Plain(Entry) \/ Ordering \notin ColumnsOf(Selecting))
    <3>1. CASE News = {}
      <4>1. call'.pc \in {"idle", "read"}
        BY <1>5, <1>8, <2>1, <2>3, <3>1, NextTableTyped DEF SelectAndMerge
      <4> QED BY <2>1, <4>1 DEF At
    <3>2. CASE News # {}
      <4>1. call' = [call EXCEPT !.pc = "record", !.source = Selecting,
                                 !.upTo = Mark(Ordering, changes[Selecting])]
        BY <1>8, <2>3, <3>2 DEF SelectAndMerge
      <4>2. call'.pc = "record"
        BY <1>5, <4>1 DEF CallTyped
      <4> QED BY <4>2
    <3> QED BY <3>1, <3>2
  <2> QED BY <2>2, <2>3
<1>9. CASE RecordMark
  <2>1. At("record") /\ call.pc \in Busy /\ NextTable
    BY <1>9 DEF RecordMark, At, Busy
  <2>2. call'.pc \in {"idle", "read"}
    BY <1>5, <2>1, NextTableTyped
  <2> QED BY <2>2
<1>10. CASE Fail
  BY <1>10, EndsTyped DEF Fail
<1>11. CASE UNCHANGED call
  BY <1>5, <1>11 DEF At
<1>12. CASE \E job \in Jobs : StartRun(job) \/ StartCheck(job)
  BY <1>5, <1>12 DEF StartRun, StartCheck, At
<1>13. CASE LookUp \/ FailCheck
  BY <1>5, <1>13 DEF LookUp, FailCheck, At
<1>14. CASE \E t \in SourceTables : Change(t) \/ Drop(t)
  BY <1>11, <1>14 DEF Change, Drop
<1>15. CASE UNCHANGED configVars
  BY <1>11, <1>15 DEF configVars
<1> QED
  BY <1>6, <1>7, <1>8, <1>9, <1>10, <1>12, <1>13, <1>14, <1>15 DEF ConfigNext

(* Whatever the tables are, a run accepts those and only those that        *)
(* pre-flight found ready, names that cannot stand in the query apart.     *)
THEOREM VerdictsAreKept == ConfigSpec => VerdictsHold
<1> DEFINE A ==
      \A item \in report.tables :
        /\ Running
        /\ item.entry = Entry
        /\ report.setup = call.setup
        /\ item.columns = ColumnsOf(Described(call.setup, Entry.table))
        => /\ item.ready /\ call'.pc = "refused" => ~Interpolable(Entry) \/ ~Plain(Entry)
           /\ At("open") /\ call'.pc = "query" => item.ready
<1>1. ConfigInv /\ VerdictInv /\ [ConfigNext]_configVars => [A]_configVars
  BY VerdictOfStep
<1> QED BY InitSafe, NextSafe, VerdictInit, VerdictStep, <1>1, PTL DEF ConfigSpec, VerdictsHold

-----------------------------------------------------------------------------
(* The bound on the changes of all tables together, and what is in the     *)
(* Delta tables: changes that were made.  A table has no more changes than *)
(* all of them do.                                                         *)
AllChanges == UNION {{u} \X (1 .. changes[u]) : u \in SourceTables}

Bounded ==
  /\ IsFiniteSet(AllChanges) /\ Cardinality(AllChanges) <= MaxChanges
  /\ \A t \in SourceTables : changes[t] <= Cardinality(AllChanges)

Filled == rows \in [DataPaths -> SUBSET (SourceTables \X (1 .. MaxChanges))]

SizeInv == Bounded /\ Filled /\ drops \in 0 .. MaxDrops

LEMMA ChangesBounded ==
  ASSUME KeptTyped, Bounded
  PROVE  \A t \in SourceTables : changes[t] \in 0 .. MaxChanges
<1>1. Cardinality(AllChanges) \in Nat /\ Cardinality(AllChanges) <= MaxChanges
  BY FS_CardinalityType DEF Bounded
<1>2. MaxChanges \in Nat
  BY DEF ConfigurationAssumption
<1> QED BY <1>1, <1>2 DEF KeptTyped, Bounded

(* A change is counted once more. *)
LEMMA ChangeBounded ==
  ASSUME KeptTyped, Bounded, NEW t \in SourceTables, Change(t)
  PROVE  Bounded'
<1> DEFINE new == <<t, changes[t] + 1>>
<1>1. /\ \A u \in SourceTables : changes[u] \in Nat
      /\ \A u \in SourceTables : changes'[u] = IF u = t THEN changes[u] + 1 ELSE changes[u]
  BY DEF Change, KeptTyped
<1>2. AllChanges' = AllChanges \cup {new}
  <2>1. \A u, n : <<u, n>> \in AllChanges <=> u \in SourceTables /\ n \in 1 .. changes[u]
    BY DEF AllChanges
  <2>2. \A u, n : <<u, n>> \in AllChanges' <=> u \in SourceTables /\ n \in 1 .. changes'[u]
    BY DEF AllChanges
  <2>3. \A u, n : u \in SourceTables =>
           (n \in 1 .. changes'[u] <=> n \in 1 .. changes[u] \/ (u = t /\ n = changes[t] + 1))
    BY <1>1
  <2>4. \A x \in AllChanges \cup AllChanges' : x = <<x[1], x[2]>>
    BY DEF AllChanges
  <2>5. \A u, n : <<u, n>> \in AllChanges' <=> <<u, n>> \in AllChanges \/ <<u, n>> = new
    BY <2>1, <2>2, <2>3
  <2> QED BY <2>4, <2>5
<1>3. new \notin AllChanges
  BY <1>1 DEF AllChanges
<1>4. /\ Cardinality(AllChanges) \in Nat /\ IsFiniteSet(AllChanges')
      /\ Cardinality(AllChanges') = Cardinality(AllChanges) + 1
  <2>1. IsFiniteSet(AllChanges)
    BY DEF Bounded
  <2>2. /\ IsFiniteSet(AllChanges \cup {new})
        /\ Cardinality(AllChanges \cup {new}) = Cardinality(AllChanges) + 1
    BY <1>3, <2>1, FS_AddElement
  <2> QED BY <1>2, <2>1, <2>2, FS_CardinalityType
<1>5. Cardinality(AllChanges) < MaxChanges
  BY DEF Change, AllChanges
<1>6. MaxChanges \in Nat
  BY DEF ConfigurationAssumption
<1>7. \A u \in SourceTables : changes[u] <= Cardinality(AllChanges)
  BY DEF Bounded
<1> HIDE DEF new
<1> QED BY <1>1, <1>4, <1>5, <1>6, <1>7 DEF Bounded

LEMMA MergeFills ==
  ASSUME ConfigInv, SizeInv, SelectAndMerge
  PROVE  Filled'
<1>1. CASE UNCHANGED rows
  BY <1>1 DEF SizeInv, Filled
<1>2. CASE Ordering \in ColumnsOf(Selecting)
           /\ rows' = [rows EXCEPT ![OwnRows] = @ \cup ({Selecting} \X News)]
  <2>1. Selecting \in SourceTables
    BY <1>2 DEF ColumnsOf
  <2>2. changes[Selecting] \in 0 .. MaxChanges
    BY <2>1, ChangesBounded DEF ConfigInv, SizeInv
  <2>3. MaxChanges \in Nat
    BY DEF ConfigurationAssumption
  <2>4. {Selecting} \X News \subseteq SourceTables \X (1 .. MaxChanges)
    BY <2>1, <2>2, <2>3 DEF News
  <2> QED BY <1>2, <2>4 DEF SizeInv, Filled
<1> QED BY <1>1, <1>2 DEF SelectAndMerge, OwnRows

LEMMA SizeStep == ConfigInv /\ SizeInv /\ [ConfigNext]_configVars => SizeInv'
<1> SUFFICES ASSUME ConfigInv, SizeInv, [ConfigNext]_configVars PROVE SizeInv'
  OBVIOUS
<1>1. CASE UNCHANGED <<changes, drops, rows>>
  BY <1>1 DEF SizeInv, Bounded, Filled, AllChanges
<1>2. CASE SelectAndMerge
  <2>1. UNCHANGED <<changes, drops>>
    BY <1>2 DEF SelectAndMerge, sourceVars
  <2>2. Bounded' /\ drops' \in 0 .. MaxDrops
    BY <2>1 DEF SizeInv, Bounded, AllChanges
  <2> QED BY <1>2, <2>2, MergeFills DEF SizeInv
<1>3. ASSUME NEW t \in SourceTables, Change(t)
      PROVE  SizeInv'
  <2>1. UNCHANGED <<drops, rows>>
    BY <1>3 DEF Change, storeVars
  <2>2. Bounded'
    BY <1>3, ChangeBounded DEF ConfigInv, SizeInv
  <2> QED BY <2>1, <2>2 DEF SizeInv, Filled
<1>4. ASSUME NEW t \in SourceTables, Drop(t)
      PROVE  SizeInv'
  <2>1. UNCHANGED <<changes, rows>>
    BY <1>4 DEF Drop, storeVars
  <2>2. drops' \in 0 .. MaxDrops
    BY <1>4 DEF Drop, SizeInv, ConfigurationAssumption
  <2> QED BY <2>1, <2>2 DEF SizeInv, Bounded, Filled, AllChanges
<1> QED
  BY <1>1, <1>2, <1>3, <1>4 DEF ConfigNext, configVars, sourceVars, storeVars, StartRun,
     StartCheck, ReadMark, OpenTable, RecordMark, Fail, LookUp, FailCheck

LEMMA SizeInit == ConfigInit => SizeInv
<1> SUFFICES ASSUME ConfigInit PROVE SizeInv
  OBVIOUS
<1>1. AllChanges = {}
  BY DEF ConfigInit, AllChanges
<1>2. MaxChanges \in Nat /\ MaxDrops \in Nat
  BY DEF ConfigurationAssumption
<1>3. Bounded
  BY <1>1, <1>2, FS_EmptySet DEF ConfigInit, Bounded
<1> QED BY <1>2, <1>3 DEF ConfigInit, SizeInv, Filled

(* Every state is well typed, with the bounds on changes and drops that    *)
(* the model sets and only changes that were made in the Delta tables; a   *)
(* run that is about to record has a later mark than the one it read.      *)
THEOREM ConfigTypeCorrect == ConfigSpec => []ConfigTypeOK
<1>1. ConfigInv /\ SizeInv => ConfigTypeOK
  <2> SUFFICES ASSUME ConfigInv, SizeInv PROVE ConfigTypeOK
    OBVIOUS
  <2>1. KeptTyped /\ CallTyped /\ CallInv /\ Bounded
    BY DEF ConfigInv, SizeInv
  <2>2. changes \in [SourceTables -> 0 .. MaxChanges]
    BY <2>1, ChangesBounded DEF KeptTyped
  <2>3. DOMAIN marks = CheckpointPaths /\ DOMAIN streams = CheckpointPaths
    BY <2>1 DEF KeptTyped
  <2>4. At("idle") \/ At("refused") \/ (call.left # <<>> /\ (Running \/ At("lookup")))
    BY <2>1 DEF CallTyped, Busy, At, Running
  <2>5. At("record") => call.upTo > call.last
    BY <2>1 DEF CallInv
  <2> QED BY <2>1, <2>2, <2>3, <2>4, <2>5 DEF ConfigTypeOK, KeptTyped, SizeInv, Filled
<1> QED BY InitSafe, NextSafe, SizeInit, SizeStep, <1>1, PTL DEF ConfigSpec

-----------------------------------------------------------------------------
(* Where the first element of a path is the setup's, and the rest of it the *)
(* name, no two names share a path.                                        *)
LEMMA SameRest ==
  ASSUME NEW x, NEW y, NEW m \in Seq(STRING), NEW n \in Seq(STRING),
         <<x>> \o m = <<y>> \o n
  PROVE  m = n
<1> DEFINE left == <<x>> \o m
           right == <<y>> \o n
<1>1. Len(left) = 1 + Len(m) /\ Len(right) = 1 + Len(n)
  OBVIOUS
<1>2. Len(m) = Len(n) /\ Len(m) \in Nat /\ Len(n) \in Nat
  BY <1>1
<1>3. \A i \in 1 .. Len(m) : left[i + 1] = m[i]
  OBVIOUS
<1>4. \A i \in 1 .. Len(n) : right[i + 1] = n[i]
  OBVIOUS
<1> HIDE DEF left, right
<1>5. left = right
  BY DEF left, right
<1>6. \A i \in 1 .. Len(m) : m[i] = n[i]
  BY <1>2, <1>3, <1>4, <1>5
<1> QED BY <1>2, <1>6, SeqEqual

LEMMA SameRestOfTwo ==
  ASSUME NEW x, NEW y, NEW s, NEW m \in Seq(STRING), NEW n \in Seq(STRING),
         <<x, s>> \o m = <<y, s>> \o n
  PROVE  m = n
<1> DEFINE left == <<x, s>> \o m
           right == <<y, s>> \o n
<1>1. Len(left) = 2 + Len(m) /\ Len(right) = 2 + Len(n)
  OBVIOUS
<1>2. Len(m) = Len(n) /\ Len(m) \in Nat /\ Len(n) \in Nat
  BY <1>1
<1>3. \A i \in 1 .. Len(m) : left[i + 2] = m[i]
  OBVIOUS
<1>4. \A i \in 1 .. Len(n) : right[i + 2] = n[i]
  OBVIOUS
<1> HIDE DEF left, right
<1>5. left = right
  BY DEF left, right
<1>6. \A i \in 1 .. Len(m) : m[i] = n[i]
  BY <1>2, <1>3, <1>4, <1>5
<1> QED BY <1>2, <1>6, SeqEqual

(* A longer root and a shorter one: the name under the shorter one begins  *)
(* with what the longer one ends in.                                       *)
LEMMA BeginsWithRoot ==
  ASSUME NEW x, NEW y, NEW s, NEW m \in Seq(STRING), NEW n \in Seq(STRING),
         <<x>> \o m = <<y, s>> \o n
  PROVE  m # <<>> /\ m[1] = s
<1> DEFINE left == <<x>> \o m
           right == <<y, s>> \o n
<1>1. Len(left) = 1 + Len(m) /\ Len(right) = 2 + Len(n) /\ right[2] = s
  OBVIOUS
<1>2. Len(m) >= 1
  <2>1. left = right /\ Len(m) \in Nat /\ Len(n) \in Nat
    OBVIOUS
  <2> HIDE DEF left, right
  <2> QED BY <1>1, <2>1
<1>3. left[2] = m[1]
  BY <1>2
<1>4. left = right
  OBVIOUS
<1> HIDE DEF left, right
<1> QED BY <1>1, <1>2, <1>3, <1>4

LEMMA DataPathOfOne ==
  ASSUME NEW a \in Jobs, NEW b \in Jobs, NEW m \in Names, NEW n \in Names,
         DataPath(a.setup, m) = DataPath(b.setup, n)
  PROVE  m = n
<1>1. m \in Seq(STRING) /\ n \in Seq(STRING)
  BY DEF ConfigurationAssumption
<1> QED BY <1>1, SameRest DEF DataPath, RelativePath

LEMMA CheckpointPathOfOne ==
  ASSUME NoNameIsTheRoot,
         NEW a \in Jobs, NEW b \in Jobs, NEW m \in Names, NEW n \in Names,
         ValidSetup(a.setup), ValidSetup(b.setup),
         CheckpointPath(a.setup, m) = CheckpointPath(b.setup, n)
  PROVE  m = n
<1>1. m \in Seq(STRING) /\ n \in Seq(STRING)
  BY DEF ConfigurationAssumption
<1>2. ASSUME NEW setup, ValidSetup(setup)
      PROVE  \E x : \/ CheckpointRoot(setup) = <<x>>
                    \/ CheckpointRoot(setup) = <<x, "_streamer_checkpoints">>
  BY <1>2 DEF ValidSetup, CheckpointRoot
<1>3. PICK x : \/ CheckpointRoot(a.setup) = <<x>>
               \/ CheckpointRoot(a.setup) = <<x, "_streamer_checkpoints">>
  BY <1>2
<1>4. PICK y : \/ CheckpointRoot(b.setup) = <<y>>
               \/ CheckpointRoot(b.setup) = <<y, "_streamer_checkpoints">>
  BY <1>2
<1>5. CheckpointRoot(a.setup) \o m = CheckpointRoot(b.setup) \o n
  BY DEF CheckpointPath, RelativePath
<1>6. CASE CheckpointRoot(a.setup) = <<x>> /\ CheckpointRoot(b.setup) = <<y>>
  BY <1>1, <1>5, <1>6, SameRest
<1>7. CASE /\ CheckpointRoot(a.setup) = <<x, "_streamer_checkpoints">>
           /\ CheckpointRoot(b.setup) = <<y, "_streamer_checkpoints">>
  BY <1>1, <1>5, <1>7, SameRestOfTwo
<1>8. CASE /\ CheckpointRoot(a.setup) = <<x>>
           /\ CheckpointRoot(b.setup) = <<y, "_streamer_checkpoints">>
  <2>1. m # <<>> /\ m[1] = "_streamer_checkpoints"
    BY <1>1, <1>5, <1>8, BeginsWithRoot
  <2> QED BY <2>1 DEF NoNameIsTheRoot
<1>9. CASE /\ CheckpointRoot(a.setup) = <<x, "_streamer_checkpoints">>
           /\ CheckpointRoot(b.setup) = <<y>>
  <2>1. <<y>> \o n = <<x, "_streamer_checkpoints">> \o m
    BY <1>5, <1>9
  <2>2. n # <<>> /\ n[1] = "_streamer_checkpoints"
    BY <1>1, <2>1, BeginsWithRoot
  <2> QED BY <2>2 DEF NoNameIsTheRoot
<1> QED BY <1>3, <1>4, <1>6, <1>7, <1>8, <1>9

(* The tables left of a run are tables of the job its settings are from,   *)
(* and all that is kept was selected for a table of such a job.            *)
Uses(job, name) == \E i \in DOMAIN job.entries : job.entries[i].table = name

CallNamed ==
  /\ call.pc \in Busy =>
       \E job \in Jobs :
         /\ call.setup = job.setup
         /\ \A i \in DOMAIN call.left : Uses(job, call.left[i].table)
  /\ Running => ValidSetup(call.setup)
  /\ At("record") => call.source \in Meanings[Entry.table]

RowsNamed ==
  \A p \in DataPaths : \A row \in rows[p] :
    \E name \in Names : \E job \in Jobs :
      p = DataPath(job.setup, name) /\ row[1] \in Meanings[name]

StreamsNamed ==
  \A p \in CheckpointPaths : \A s \in streams[p] :
    \E name \in Names : \E job \in Jobs :
      /\ ValidSetup(job.setup)
      /\ p = CheckpointPath(job.setup, name)
      /\ s.source \in Meanings[name]

NamesInv == CallNamed /\ RowsNamed /\ StreamsNamed

(* The table under way has a name, and the job it is of. *)
LEMMA JobUnderWay ==
  ASSUME CallTyped, CallNamed, call.pc \in Busy
  PROVE  /\ Entry.table \in Names
         /\ \E job \in Jobs : /\ call.setup = job.setup
                               /\ Uses(job, Entry.table)
                               /\ {Full(call.setup, Entry.table),
                                   Full(InDbo(call.setup), Entry.table)}
                                  \subseteq Meanings[Entry.table]
<1>1. Entry \in Entries /\ 1 \in DOMAIN call.left
  BY ElementOfSeq DEF CallTyped, Entry
<1>2. Entry.table \in Names
  BY <1>1 DEF Names
<1>3. PICK job \in Jobs : /\ call.setup = job.setup
                          /\ \A i \in DOMAIN call.left : Uses(job, call.left[i].table)
  BY DEF CallNamed
<1>4. Uses(job, Entry.table)
  BY <1>1, <1>3 DEF Entry
<1>5. Meanings[Entry.table] =
        UNION {{Full(j.setup, Entry.table), Full(InDbo(j.setup), Entry.table)} :
                 j \in {j \in Jobs : \E i \in DOMAIN j.entries : j.entries[i].table = Entry.table}}
  BY <1>2 DEF Meanings
<1>6. job \in {j \in Jobs : \E i \in DOMAIN j.entries : j.entries[i].table = Entry.table}
  BY <1>4 DEF Uses
<1>7. {Full(job.setup, Entry.table), Full(InDbo(job.setup), Entry.table)}
        \subseteq Meanings[Entry.table]
  BY <1>5, <1>6
<1> QED BY <1>2, <1>3, <1>4, <1>7

LEMMA EndsNamed ==
  ASSUME NEW pc \in {"idle", "refused"}, Ends(pc)
  PROVE  CallNamed'
<1>1. call'.pc = pc
  BY EndsTyped
<1> QED BY <1>1 DEF CallNamed, Busy, Running, At

LEMMA NextTableNamed ==
  ASSUME CallTyped, CallNamed, call.pc \in {"query", "record"}, NextTable
  PROVE  CallNamed'
<1>1. CASE Len(call.left) = 1
  BY <1>1, EndsNamed DEF NextTable
<1>2. CASE Len(call.left) # 1
  <2>1. /\ call'.pc = "read" /\ call'.setup = call.setup
        /\ call'.left = Tail(call.left)
    BY <1>2 DEF NextTable, Idle
  <2>2. call.left \in Seq(Entries) /\ call.left # <<>> /\ call.pc \in Busy
    BY DEF CallTyped, Busy
  <2>3. \A i \in DOMAIN Tail(call.left) :
           i + 1 \in DOMAIN call.left /\ Tail(call.left)[i] = call.left[i + 1]
    BY <2>2
  <2>4. PICK job \in Jobs : /\ call.setup = job.setup
                            /\ \A i \in DOMAIN call.left : Uses(job, call.left[i].table)
    BY <2>2 DEF CallNamed
  <2>5. \A i \in DOMAIN call'.left : Uses(job, call'.left[i].table)
    BY <2>1, <2>3, <2>4
  <2>6. ValidSetup(call.setup)
    BY DEF CallNamed, Running
  <2>7. Running' => ValidSetup(call'.setup)
    BY <2>1, <2>6
  <2> QED BY <2>1, <2>4, <2>5, <2>7 DEF CallNamed, At
<1> QED BY <1>1, <1>2

LEMMA StartNamed ==
  ASSUME NEW job \in Jobs, StartRun(job) \/ StartCheck(job)
  PROVE  CallNamed'
<1>1. CASE Ends("refused") \/ Ends("idle")
  BY <1>1, EndsNamed
<1>2. ASSUME NEW pc \in {"read", "lookup"}, Begins(pc, job),
             pc = "read" => ValidSetup(job.setup)
      PROVE  CallNamed'
  <2>1. call' = [pc |-> pc, setup |-> job.setup, left |-> job.entries, found |-> {},
                 last |-> NoMark, source |-> <<>>, upTo |-> NoMark]
    BY <1>2 DEF Begins, Idle
  <2>2. call'.pc = pc /\ call'.setup = job.setup /\ call'.left = job.entries
    BY <2>1
  <2>3. \A i \in DOMAIN call'.left : Uses(job, call'.left[i].table)
    BY <2>2 DEF Uses
  <2>4. pc # "record" /\ (pc \in {"read", "open", "query", "record"} => pc = "read")
    OBVIOUS
  <2>5. Running' => ValidSetup(call'.setup)
    BY <1>2, <2>2, <2>4 DEF Running
  <2> QED BY <2>2, <2>3, <2>4, <2>5 DEF CallNamed, At
<1> QED BY <1>1, <1>2 DEF StartRun, StartCheck

(* ReadMark and OpenTable go on with the same table. *)
LEMMA OpenNamed ==
  ASSUME ConfigInv, NamesInv, ReadMark \/ OpenTable
  PROVE  CallNamed'
<1>1. CASE Ends("refused")
  BY <1>1, EndsNamed
<1>2. ASSUME NEW pc \in {"open", "query"}, NEW last,
             call' = [call EXCEPT !.pc = pc, !.last = last]
      PROVE  CallNamed'
  <2>1. call' = [pc |-> pc, setup |-> call.setup, left |-> call.left, found |-> call.found,
                 last |-> last, source |-> call.source, upTo |-> call.upTo]
    BY <1>2 DEF ConfigInv, CallTyped
  <2>2. call'.pc = pc /\ call'.setup = call.setup /\ call'.left = call.left
    BY <2>1
  <2>3. call.pc \in Busy /\ Running
    BY DEF ReadMark, OpenTable, At, Busy, Running
  <2> QED BY <2>2, <2>3 DEF CallNamed, NamesInv, At
<1>3. CASE ReadMark
  BY <1>1, <1>2, <1>3 DEF ReadMark
<1>4. CASE OpenTable
  <2>1. CASE call' = [call EXCEPT !.pc = "query"]
    <3>1. call' = [call EXCEPT !.pc = "query", !.last = call.last]
      BY <2>1 DEF ConfigInv, CallTyped
    <3> QED BY <3>1, <1>2
  <2> QED BY <1>1, <1>4, <2>1 DEF OpenTable
<1> QED BY <1>3, <1>4

LEMMA LookUpNamed ==
  ASSUME ConfigInv, NamesInv, LookUp
  PROVE  CallNamed'
<1>1. At("lookup") /\ CallTyped /\ CallNamed /\ call.pc \in Busy
  BY DEF LookUp, ConfigInv, NamesInv, At, Busy
<1>2. call.left \in Seq(Entries) /\ call.left # <<>>
  BY <1>1 DEF CallTyped
<1>3. CASE Ends("idle")
  BY <1>3, EndsNamed
<1>4. CASE call' = Idle
  BY <1>4 DEF Idle, CallNamed, Busy, Running, At
<1>5. ASSUME NEW found, call' = [call EXCEPT !.left = Tail(@), !.found = found]
      PROVE  CallNamed'
  <2>1. call' = [pc |-> "lookup", setup |-> call.setup, left |-> Tail(call.left),
                 found |-> found, last |-> call.last, source |-> call.source,
                 upTo |-> call.upTo]
    BY <1>1, <1>5 DEF CallTyped, At
  <2>2. call'.pc = "lookup" /\ call'.setup = call.setup /\ call'.left = Tail(call.left)
    BY <2>1
  <2>3. \A i \in DOMAIN Tail(call.left) :
           i + 1 \in DOMAIN call.left /\ Tail(call.left)[i] = call.left[i + 1]
    BY <1>2
  <2>4. PICK job \in Jobs : /\ call.setup = job.setup
                            /\ \A i \in DOMAIN call.left : Uses(job, call.left[i].table)
    BY <1>1 DEF CallNamed
  <2>5. \A i \in DOMAIN call'.left : Uses(job, call'.left[i].table)
    BY <2>2, <2>3, <2>4
  <2> QED BY <2>2, <2>4, <2>5 DEF CallNamed, Running, At
<1> QED BY <1>3, <1>4, <1>5 DEF LookUp

(* What is selected is what the name means to this job. *)
LEMMA SelectAndMergeNamed ==
  ASSUME ConfigInv, NamesInv, SelectAndMerge
  PROVE  CallNamed' /\ RowsNamed'
<1>1. At("query") /\ CallTyped /\ CallNamed /\ call.pc \in Busy /\ call.pc = "query"
  BY DEF SelectAndMerge, ConfigInv, NamesInv, At, Busy
<1>2. PICK job \in Jobs :
        /\ call.setup = job.setup
        /\ {Full(call.setup, Entry.table), Full(InDbo(call.setup), Entry.table)}
             \subseteq Meanings[Entry.table]
  BY <1>1, JobUnderWay
<1>3. Selecting \in Meanings[Entry.table] /\ Entry.table \in Names
  BY <1>1, <1>2, JobUnderWay DEF Selecting, Selected
<1>4. CallNamed'
  <2>1. CASE Ends("refused")
    BY <2>1, EndsNamed
  <2>2. CASE NextTable
    BY <2>2, <1>1, NextTableNamed
  <2>3. ASSUME NEW upTo,
               call' = [call EXCEPT !.pc = "record", !.source = Selecting, !.upTo = upTo]
        PROVE  CallNamed'
    <3>1. call' = [pc |-> "record", setup |-> call.setup, left |-> call.left,
                   found |-> call.found, last |-> call.last, source |-> Selecting,
                   upTo |-> upTo]
      BY <1>1, <2>3 DEF CallTyped
    <3>2. /\ call'.pc = "record" /\ call'.setup = call.setup /\ call'.left = call.left
          /\ call'.source = Selecting
      BY <3>1
    <3>3. Entry' = Entry
      BY <3>2 DEF Entry
    <3>4. Running
      BY <1>1 DEF Running
    <3> QED BY <1>1, <1>3, <3>2, <3>3, <3>4 DEF CallNamed, At
  <2> QED BY <2>1, <2>2, <2>3 DEF SelectAndMerge
<1>5. RowsNamed'
  <2>1. RowsNamed
    BY DEF NamesInv
  <2>2. CASE UNCHANGED rows
    BY <2>1, <2>2 DEF RowsNamed
  <2>3. CASE rows' = [rows EXCEPT ![OwnRows] = @ \cup ({Selecting} \X News)]
    <3> SUFFICES ASSUME NEW p \in DataPaths, NEW row \in rows'[p]
                 PROVE  \E name \in Names : \E j \in Jobs :
                          p = DataPath(j.setup, name) /\ row[1] \in Meanings[name]
      BY DEF RowsNamed
    <3>1. CASE row \in rows[p]
      BY <2>1, <3>1 DEF RowsNamed
    <3>2. CASE row \notin rows[p]
      <4>1. p = OwnRows /\ row \in {Selecting} \X News
        BY <2>3, <3>2 DEF ConfigInv, KeptTyped
      <4>2. row[1] = Selecting
        BY <4>1
      <4>3. p = DataPath(job.setup, Entry.table)
        BY <4>1, <1>2 DEF OwnRows
      <4> QED BY <1>3, <4>2, <4>3
    <3> QED BY <3>1, <3>2
  <2> QED BY <2>2, <2>3 DEF SelectAndMerge, OwnRows
<1> QED BY <1>4, <1>5

LEMMA RecordMarkNamed ==
  ASSUME ConfigInv, NamesInv, RecordMark
  PROVE  CallNamed' /\ StreamsNamed'
<1>1. At("record") /\ CallTyped /\ CallNamed /\ call.pc \in Busy /\ NextTable
  BY DEF RecordMark, ConfigInv, NamesInv, At, Busy
<1>2. CallNamed'
  BY <1>1, NextTableNamed DEF At
<1>3. PICK job \in Jobs : call.setup = job.setup
  BY <1>1, JobUnderWay
<1>4. Entry.table \in Names /\ call.source \in Meanings[Entry.table]
  BY <1>1, JobUnderWay DEF CallNamed
<1>5. ValidSetup(job.setup)
  BY <1>1, <1>3 DEF CallNamed, Running, At
<1> DEFINE stream == [source |-> call.source, column |-> Ordering, into |-> OwnRows]
<1>6. streams' = [streams EXCEPT ![OwnMarks] = @ \cup {stream}]
  BY DEF RecordMark, OwnMarks, OwnRows
<1>7. stream.source = call.source
  OBVIOUS
<1> HIDE DEF stream
<1>8. StreamsNamed'
  <2> SUFFICES ASSUME NEW p \in CheckpointPaths, NEW s \in streams'[p]
               PROVE  \E name \in Names : \E j \in Jobs :
                        /\ ValidSetup(j.setup)
                        /\ p = CheckpointPath(j.setup, name)
                        /\ s.source \in Meanings[name]
    BY DEF StreamsNamed
  <2>1. CASE s \in streams[p]
    BY <2>1 DEF NamesInv, StreamsNamed
  <2>2. CASE s \notin streams[p]
    <3>1. p = OwnMarks /\ s = stream
      BY <1>6, <2>2 DEF ConfigInv, KeptTyped
    <3>2. p = CheckpointPath(job.setup, Entry.table)
      BY <1>3, <3>1 DEF OwnMarks
    <3> QED BY <1>4, <1>5, <1>7, <3>1, <3>2
  <2> QED BY <2>1, <2>2
<1> QED BY <1>2, <1>8

LEMMA NamesStep == ConfigInv /\ NamesInv /\ [ConfigNext]_configVars => NamesInv'
<1> SUFFICES ASSUME ConfigInv, NamesInv, [ConfigNext]_configVars PROVE NamesInv'
  OBVIOUS
<1>1. ASSUME UNCHANGED rows PROVE RowsNamed'
  BY <1>1 DEF NamesInv, RowsNamed
<1>2. ASSUME UNCHANGED streams PROVE StreamsNamed'
  BY <1>2 DEF NamesInv, StreamsNamed
<1>3. CASE UNCHANGED <<call, rows, streams>>
  <2>1. CallNamed'
    BY <1>3 DEF NamesInv, CallNamed, Entry, Running, At
  <2> QED BY <1>1, <1>2, <1>3, <2>1 DEF NamesInv
<1>4. CASE \E job \in Jobs : StartRun(job) \/ StartCheck(job)
  BY <1>1, <1>2, <1>4, StartNamed DEF NamesInv, StartRun, StartCheck, storeVars
<1>5. CASE ReadMark \/ OpenTable
  BY <1>1, <1>2, <1>5, OpenNamed DEF NamesInv, ReadMark, OpenTable, storeVars
<1>6. CASE SelectAndMerge
  BY <1>2, <1>6, SelectAndMergeNamed DEF NamesInv, SelectAndMerge
<1>7. CASE RecordMark
  BY <1>1, <1>7, RecordMarkNamed DEF NamesInv, RecordMark
<1>8. CASE Fail \/ FailCheck
  BY <1>1, <1>2, <1>8, EndsNamed DEF NamesInv, Fail, FailCheck, storeVars
<1>9. CASE LookUp
  BY <1>1, <1>2, <1>9, LookUpNamed DEF NamesInv, LookUp, storeVars
<1>10. CASE \E t \in SourceTables : Change(t) \/ Drop(t)
  BY <1>3, <1>10 DEF Change, Drop, storeVars
<1>11. CASE UNCHANGED configVars
  BY <1>3, <1>11 DEF configVars, storeVars
<1> QED
  BY <1>4, <1>5, <1>6, <1>7, <1>8, <1>9, <1>10, <1>11 DEF ConfigNext

LEMMA NamesInit == ConfigInit => NamesInv
BY DEF ConfigInit, NamesInv, CallNamed, RowsNamed, StreamsNamed, Idle, Busy, Running, At

LEMMA OfOneName ==
  ASSUME NoNameIsTheRoot, NamesInv
  PROVE  OneNamePerPath
<1>1. ASSUME NEW p \in DataPaths
      PROVE  \E name \in Names : {row[1] : row \in rows[p]} \subseteq Meanings[name]
  <2>1. CASE rows[p] = {}
    BY <2>1 DEF DataPaths
  <2>2. ASSUME NEW one \in rows[p]
        PROVE  \E name \in Names : {row[1] : row \in rows[p]} \subseteq Meanings[name]
    <3>1. PICK name \in Names : \E job \in Jobs : p = DataPath(job.setup, name)
      BY DEF NamesInv, RowsNamed
    <3>2. \A row \in rows[p] : row[1] \in Meanings[name]
      BY <3>1, DataPathOfOne DEF NamesInv, RowsNamed
    <3> QED BY <3>2
  <2> QED BY <2>1, <2>2
<1>2. ASSUME NEW p \in CheckpointPaths
      PROVE  \E name \in Names : {s.source : s \in streams[p]} \subseteq Meanings[name]
  <2>1. CASE streams[p] = {}
    BY <2>1 DEF CheckpointPaths
  <2>2. ASSUME NEW one \in streams[p]
        PROVE  \E name \in Names : {s.source : s \in streams[p]} \subseteq Meanings[name]
    <3>1. PICK name \in Names :
            \E job \in Jobs : ValidSetup(job.setup) /\ p = CheckpointPath(job.setup, name)
      BY DEF NamesInv, StreamsNamed
    <3>2. \A s \in streams[p] : s.source \in Meanings[name]
      BY <3>1, CheckpointPathOfOne DEF NamesInv, StreamsNamed
    <3> QED BY <3>2
  <2> QED BY <2>1, <2>2
<1> QED BY <1>1, <1>2 DEF OneNamePerPath

(* However many jobs share an output or a place for checkpoints, with any  *)
(* databases, schemas and names in one to three parts, what is kept at one *)
(* path is of tables one configured name stands for.  It takes that no     *)
(* database or schema is called what the checkpoints of a job are kept in. *)
THEOREM OneNameEach == NoNameIsTheRoot => (ConfigSpec => []OneNamePerPath)
<1> SUFFICES ASSUME NoNameIsTheRoot PROVE ConfigSpec => []OneNamePerPath
  OBVIOUS
<1>1. NamesInv => OneNamePerPath
  BY OfOneName
<1> QED BY InitSafe, NextSafe, NamesInit, NamesStep, <1>1, PTL DEF ConfigSpec
=============================================================================
