--------------------------- MODULE Configuration ---------------------------
(***************************************************************************)
(* What a configuration names, and what the code takes it for: tables and  *)
(* columns of a source whose schema is not the code's, and the paths their *)
(* rows and checkpoints are kept at.  Jobs are run one after another, with  *)
(* pre-flight checks in between; before a run the operator may go over to  *)
(* another job, which is how an edited configuration appears here.         *)
(*                                                                         *)
(* The content of a source table is a number of changes.  Change n has a   *)
(* watermark in every column that can serve as one, Mark(column, n).       *)
(***************************************************************************)
EXTENDS Integers, Sequences, FiniteSets

CONSTANTS
  SourceTables, \* <<database, schema, table>>
  Columns,      \* their columns, in small letters
  Fold,         \* Fold[name]: a configured column name in small letters
  Blank,        \* names that are empty or white space
  Unsafe,       \* what validate_identifier refuses, of columns and of parts
  NeedsQuotes,  \* what it lets pass, and SQL takes only in brackets
  Offset,       \* Offset[column] sets the scale of its watermarks
  NoUri,        \* checkpoint_uri = None
  Jobs,         \* [setup, entries]
  MaxChanges,   \* bound on the changes of all tables together
  MaxDrops      \* bound on the tables and columns dropped

VARIABLES
  columns,      \* columns[t]: those of source table t; none: there is no t
  changes,      \* changes[t]: how many changes t has seen
  rows,         \* rows[p]: the changes in the Delta table at path p
  marks,        \* marks[p]: the checkpoint at path p
  streams,      \* streams[p]: what the runs that recorded there had read
  call,         \* the run or the pre-flight check under way
  report,       \* what the last check returned, until a run went by it
  drops         \* how many tables and columns were dropped

sourceVars == <<columns, changes, drops>>
storeVars == <<rows, marks, streams>>
configVars == <<sourceVars, storeVars, call, report>>

NoMark == 0
Mark(column, n) == Offset[column] + n

ColumnsOf(t) == IF t \in SourceTables THEN columns[t] ELSE {}

-----------------------------------------------------------------------------
(* Names and paths. *)

(* TableSync::validate: one blank name among several keys goes unnoticed. *)
WellFormed(entry) == entry.watermark \notin Blank /\ ~(entry.keys \subseteq Blank)

ValidCatalog(entries) ==
  \A i, j \in DOMAIN entries :
    WellFormed(entries[i]) /\ (entries[i].table = entries[j].table => i = j)

(* checkpoint_uri is derived from output_uri, which preflight can do without. *)
CheckpointRoot(setup) ==
  IF setup.checkpoints # NoUri THEN <<setup.checkpoints>>
  ELSE IF setup.output = "" THEN <<>>
  ELSE <<setup.output, "_streamer_checkpoints">>

ValidSetup(setup) == setup.output # "" /\ CheckpointRoot(setup) # <<>>

(* parse_qualified: a name is a sequence of parts. *)
Parses(name) == Len(name) \in 1 .. 3 /\ \A i \in DOMAIN name : name[i] \notin Unsafe

(* Here and below, a definition named after another with a suffix is a     *)
(* variant of it with a plausible mistake: no action uses it, it is there  *)
(* to check that the properties would notice the mistake.                  *)

RelativePathOfTable(name) == <<name[Len(name)]>>

RelativePath(name) == name

DataPath(setup, name) == <<setup.output>> \o RelativePath(name)
CheckpointPath(setup, name) == CheckpointRoot(setup) \o RelativePath(name)

Full(setup, name) ==
  SubSeq(<<setup.database, setup.schema>>, 1, 3 - Len(name)) \o name

InDbo(setup) == [setup EXCEPT !.schema = "dbo"]

DescribedInDbo(setup, name) == Full(InDbo(setup), name)

(* The table whose columns describe_table looks up: in the catalog of the  *)
(* database named or connected to, the schema named or SCHEMA_NAME().      *)
Described(setup, name) == Full(setup, name)

(* The table a SELECT of the name reads: SQL Server tries dbo as well. *)
Selected(setup, name) ==
  IF ColumnsOf(Full(setup, name)) = {} THEN Full(InDbo(setup), name)
  ELSE Full(setup, name)

(* eq_ignore_ascii_case *)
Has(cols, column) == Fold[column] \in cols

Interpolable(entry) == ({entry.watermark} \cup entry.keys) \cap Unsafe = {}

(* What SQL Server makes of the text of the query. *)
Plain(entry) ==
  /\ entry.watermark \notin NeedsQuotes
  /\ \A i \in DOMAIN entry.table : entry.table[i] \notin NeedsQuotes

Entries == UNION {{job.entries[i] : i \in DOMAIN job.entries} : job \in Jobs}
Names == {entry.table : entry \in Entries}
DataPaths == {DataPath(job.setup, name) : job \in Jobs, name \in Names}
CheckpointPaths == {CheckpointPath(job.setup, name) : job \in Jobs, name \in Names}

(* validate takes anything for a checkpoint_uri, output_uri and the place  *)
(* of another table's rows included: a merge into such a table finds no    *)
(* column to match on and fails, which is left out here.                   *)
ConfigurationAssumption ==
  /\ MaxChanges \in Nat
  /\ MaxDrops \in Nat
  /\ Blank \subseteq Unsafe
  /\ Offset \in [Columns -> Nat]
  /\ \A job \in Jobs : job.entries \in Seq(Entries)
  /\ \A name \in Names : name \in Seq(STRING)
  /\ DataPaths \cap CheckpointPaths = {}

ASSUME ConfigurationAssumption

-----------------------------------------------------------------------------
Idle ==
  [pc |-> "idle", setup |-> <<>>, left |-> <<>>, found |-> {},
   last |-> NoMark, source |-> <<>>, upTo |-> NoMark]

NoReport == [setup |-> <<>>, tables |-> {}]

Entry == call.left[1]
At(phase) == call.pc = phase
Running == call.pc \in {"read", "open", "query", "record"}

ConfigTypeOK ==
  /\ columns \in [SourceTables -> SUBSET Columns]
  /\ changes \in [SourceTables -> 0 .. MaxChanges]
  /\ drops \in 0 .. MaxDrops
  /\ rows \in [DataPaths -> SUBSET (SourceTables \X (1 .. MaxChanges))]
  /\ DOMAIN marks = CheckpointPaths
  /\ DOMAIN streams = CheckpointPaths
  /\ At("idle") \/ At("refused") \/ (call.left # <<>> /\ (Running \/ At("lookup")))
  /\ At("record") => call.upTo > call.last

ConfigInit ==
  /\ columns = [t \in SourceTables |-> Columns]
  /\ changes = [t \in SourceTables |-> 0]
  /\ drops = 0
  /\ rows = [p \in DataPaths |-> {}]
  /\ marks = [p \in CheckpointPaths |-> NoMark]
  /\ streams = [p \in CheckpointPaths |-> {}]
  /\ call = Idle
  /\ report = NoReport

(* An application writes; someone drops a table, or a column of one. *)
Change(t) ==
  /\ columns[t] # {}
  /\ Cardinality(UNION {{u} \X (1 .. changes[u]) : u \in SourceTables}) < MaxChanges
  /\ changes' = [changes EXCEPT ![t] = @ + 1]
  /\ UNCHANGED <<columns, drops, storeVars, call, report>>

Drop(t) ==
  /\ drops < MaxDrops
  /\ columns[t] # {}
  /\ \E gone \in {{c} : c \in columns[t]} \cup {columns[t]} :
       columns' = [columns EXCEPT ![t] = @ \ gone]
  /\ drops' = drops + 1
  /\ UNCHANGED <<changes, storeVars, call, report>>

-----------------------------------------------------------------------------
(* pipeline::run, as sync_tables calls it. *)

Ends(pc) == call' = [Idle EXCEPT !.pc = pc] /\ report' = NoReport

Begins(pc, job) ==
  /\ call' = [Idle EXCEPT !.pc = pc, !.setup = job.setup, !.left = job.entries]
  /\ UNCHANGED report

(* Catalog and settings are refused before anything is connected to. *)
StartRun(job) ==
  /\ At("idle") \/ At("refused")
  /\ LET valid == ValidCatalog(job.entries) /\ ValidSetup(job.setup) IN
     IF ~valid THEN Ends("refused")
     ELSE IF job.entries = <<>> THEN Ends("idle") ELSE Begins("read", job)
  /\ UNCHANGED <<sourceVars, storeVars>>

(* Of a checkpoint only the value counts, whatever column it is one of. *)
ReadMark ==
  /\ At("read")
  /\ IF Parses(Entry.table)
     THEN /\ call' = [call EXCEPT
               !.pc = "open", !.last = marks[CheckpointPath(call.setup, Entry.table)]]
          /\ UNCHANGED report
     ELSE Ends("refused")
  /\ UNCHANGED <<sourceVars, storeVars>>

(* The checks of sync_one. *)
AcceptsAnyKey(entry, cols) ==
  WellFormed(entry) /\ Interpolable(entry) /\ Has(cols, entry.watermark)

Accepts(entry, cols) ==
  /\ WellFormed(entry)
  /\ Interpolable(entry)
  /\ \A c \in {entry.watermark} \cup entry.keys : Has(cols, c)

OpenTable ==
  /\ At("open")
  /\ IF Accepts(Entry, ColumnsOf(Described(call.setup, Entry.table)))
     THEN call' = [call EXCEPT !.pc = "query"] /\ UNCHANGED report
     ELSE Ends("refused")
  /\ UNCHANGED <<sourceVars, storeVars>>

NextTable ==
  IF Len(call.left) = 1 THEN Ends("idle")
  ELSE /\ call' = [Idle EXCEPT !.pc = "read", !.setup = call.setup, !.left = Tail(call.left)]
       /\ UNCHANGED report

Selecting == Selected(call.setup, Entry.table)
Ordering == Fold[Entry.watermark]

NewsFrom == {n \in 1 .. changes[Selecting] : Mark(Ordering, n) >= call.last}

News == {n \in 1 .. changes[Selecting] : Mark(Ordering, n) > call.last}

(* The rows are selected and merged, which TableSync looks into. *)
SelectAndMerge ==
  /\ At("query")
  /\ IF ~Plain(Entry) \/ Ordering \notin ColumnsOf(Selecting)
     THEN Ends("refused") /\ UNCHANGED rows
     ELSE /\ rows' = [rows EXCEPT
               ![DataPath(call.setup, Entry.table)] = @ \cup ({Selecting} \X News)]
          /\ IF News = {} THEN NextTable
             ELSE /\ call' = [call EXCEPT !.pc = "record", !.source = Selecting,
                                !.upTo = Mark(Ordering, changes[Selecting])]
                  /\ UNCHANGED report
  /\ UNCHANGED <<sourceVars, marks, streams>>

NewestNow == Mark(Ordering, changes[call.source])

Newest == call.upTo

(* The column is recorded too, and never read. *)
RecordMark ==
  LET at == CheckpointPath(call.setup, Entry.table)
      stream == [source |-> call.source, column |-> Ordering,
                 into |-> DataPath(call.setup, Entry.table)]
  IN /\ At("record")
     /\ marks' = [marks EXCEPT ![at] = Newest]
     /\ streams' = [streams EXCEPT ![at] = @ \cup {stream}]
     /\ NextTable
     /\ UNCHANGED <<sourceVars, rows>>

(* Any other error, or the end of the process. *)
Fail ==
  /\ Running
  /\ Ends("idle")
  /\ UNCHANGED <<sourceVars, storeVars>>

-----------------------------------------------------------------------------
(* pipeline::preflight: no settings are checked, and nothing is written. *)

StartCheck(job) ==
  /\ At("idle") \/ At("refused")
  /\ ValidCatalog(job.entries)
  /\ IF job.entries = <<>> THEN Ends("idle") ELSE Begins("lookup", job)
  /\ UNCHANGED <<sourceVars, storeVars>>

IsReadyByWatermark(entry, cols) == Has(cols, entry.watermark)

IsReady(entry, cols) == \A c \in {entry.watermark} \cup entry.keys : Has(cols, c)

(* One table that is not found, or whose name is unsafe, ends the call. *)
LookUp ==
  LET cols == ColumnsOf(Described(call.setup, Entry.table))
      found == call.found \cup
                 {[entry |-> Entry, columns |-> cols, ready |-> IsReady(Entry, cols)]}
  IN /\ At("lookup")
     /\ IF ~Parses(Entry.table) \/ cols = {} THEN Ends("idle")
        ELSE IF Len(call.left) > 1
        THEN call' = [call EXCEPT !.left = Tail(@), !.found = found] /\ UNCHANGED report
        ELSE call' = Idle /\ report' = [setup |-> call.setup, tables |-> found]
     /\ UNCHANGED <<sourceVars, storeVars>>

FailCheck ==
  /\ At("lookup")
  /\ Ends("idle")
  /\ UNCHANGED <<sourceVars, storeVars>>

ConfigNext ==
  \/ \E job \in Jobs : StartRun(job) \/ StartCheck(job)
  \/ ReadMark \/ OpenTable \/ SelectAndMerge \/ RecordMark \/ Fail
  \/ LookUp \/ FailCheck
  \/ \E t \in SourceTables : Change(t) \/ Drop(t)

ConfigSpec == ConfigInit /\ [][ConfigNext]_configVars
-----------------------------------------------------------------------------
(* Properties. *)

(* What pre-flight says of a table is what the run after it finds, as long *)
(* as the table keeps its columns: a ready one is refused only for a name  *)
(* that cannot stand in the query, which pre-flight does not look at, and  *)
(* one that is not ready is never queried.                                 *)
VerdictsHold ==
  [][\A item \in report.tables :
       /\ Running
       /\ item.entry = Entry
       /\ report.setup = call.setup
       /\ item.columns = ColumnsOf(Described(call.setup, Entry.table))
       => /\ item.ready /\ call'.pc = "refused" => ~Interpolable(Entry) \/ ~Plain(Entry)
          /\ At("open") /\ call'.pc = "query" => item.ready]_configVars

(* The rows a run selects are of the table whose columns it looked up,     *)
(* unless that one was dropped in between, however many parts its name     *)
(* has and whichever tables of that name other schemas hold.               *)
ReadsWhatItDescribed ==
  [][LET looked == Described(call.setup, Entry.table) IN
     \A p \in DataPaths : \A row \in rows'[p] \ rows[p] :
       row[1] = looked \/ ColumnsOf(looked) = {}]_configVars

(* What a name may stand for in the jobs that use it. *)
Meanings ==
  [name \in Names |->
     UNION {{Full(job.setup, name), Full(InDbo(job.setup), name)} :
              job \in {j \in Jobs : \E i \in DOMAIN j.entries : j.entries[i].table = name}}]

(* The checkpoints of a job that does not say where they go are kept below *)
(* its output: only a database or a schema of that very name could be      *)
(* taken for the place.                                                    *)
NoNameIsTheRoot == \A name \in Names : name # <<>> => name[1] # "_streamer_checkpoints"

(* Everything kept at one path is of tables one configured name stands for. *)
OneNamePerPath ==
  \A p \in DataPaths \cup CheckpointPaths :
    LET kept == IF p \in DataPaths THEN {row[1] : row \in rows[p]}
                ELSE {s.source : s \in streams[p]}
    IN \E name \in Names : kept \subseteq Meanings[name]

(* A checkpoint is right for the one stream of rows that set it: a source   *)
(* table, a watermark column and a Delta table.  No change at or below it  *)
(* is missing.  Nothing in the code keeps a checkpoint to one stream, and  *)
(* once two have recorded there it may be right for neither: a job over a  *)
(* shared checkpoint_uri, with another watermark column or on another      *)
(* database goes on from a position that is not its own.                   *)
RightForItsStream ==
  \A p \in CheckpointPaths : \A s \in streams[p] :
    streams[p] = {s} =>
      \A n \in 1 .. changes[s.source] :
        Mark(s.column, n) <= marks[p] => <<s.source, n>> \in rows[s.into]
=============================================================================
