------------------------------ MODULE Columns ------------------------------
(***************************************************************************)
(* From a table's catalog entry to a committed batch: the columns are      *)
(* described and resolved (pipeline::describe_table, types::resolve), the  *)
(* rows queried in another statement and converted cell by cell            *)
(* (builders::record_batch).  In between someone may alter the table.      *)
(*                                                                         *)
(* One type name stands for all that types::resolve treats alike.  Values  *)
(* are numbers; only for decimals and instants does their size matter.     *)
(***************************************************************************)
EXTENDS Integers, Sequences

CONSTANTS
  MaxPrecision,  \* MAX_DECIMAL_PRECISION, the digits SQL Server allows too
  WideLimit,     \* what an unscaled value must stay below: 2^127 of the i128
  Numbers,       \* the numbers cells may hold
  Offsets,       \* the offsets from UTC an instant may be tagged with
  MaxRows        \* bound on the rows of the batch

(* The powers of ten, 10i128.checked_pow(n) as far as it goes. *)
TenTo[n \in Nat] == IF n = 0 THEN 1 ELSE 10 * TenTo[n - 1]

ASSUME ColumnsAssumption ==
  /\ MaxPrecision \in Nat \ {0}
  /\ WideLimit \in Nat
  /\ WideLimit > TenTo[MaxPrecision]
  /\ Numbers \subseteq Int
  /\ Offsets \subseteq Int
  /\ MaxRows \in Nat \ {0}

VARIABLES
  phase,       \* what the sync of this table is at
  columns,     \* the table's columns, as SQL Server has them now
  altered,     \* they were altered after they were described
  described,   \* the resolved types of the columns described
  rows,        \* the rows fetched
  built        \* built[i]: what the builders made of row i

columnVars == <<phase, columns, altered, described, rows, built>>

Plain(name) == [name |-> name, precision |-> 0, scale |-> 0]

(* How tiberius decodes a value of each type (external). *)
Wire ==
  [smallint |-> "I16", int |-> "I32", bigint |-> "I64", tinyint |-> "U8",
   real |-> "F32", float |-> "F64", money |-> "F64", decimal |-> "Numeric",
   bit |-> "Bit", date |-> "Date", time |-> "Time", datetime2 |-> "DateTime2",
   datetimeoffset |-> "DateTimeOffset", varbinary |-> "Binary",
   rowversion |-> "Binary", varchar |-> "String", uniqueidentifier |-> "Guid",
   geography |-> "Binary"]

DeclaredTypes ==
  {Plain(name) : name \in DOMAIN Wire \ {"decimal"}}
    \cup {d \in [name : {"decimal"}, precision : 1 .. MaxPrecision, scale : 0 .. MaxPrecision] :
            d.scale <= d.precision}

-----------------------------------------------------------------------------
(* types::resolve, and the Arrow types of builders.rs. *)

KindOf ==
  [smallint |-> "Integer16", int |-> "Integer32", bigint |-> "Integer64",
   tinyint |-> "Integer16", real |-> "Double", float |-> "Double",
   money |-> "Double", decimal |-> "Decimal", bit |-> "Bit", date |-> "Date",
   time |-> "Time", datetime2 |-> "Timestamp", datetimeoffset |-> "Timestamp",
   varbinary |-> "Binary", rowversion |-> "Binary", varchar |-> "Text",
   uniqueidentifier |-> "Text"]

DecimalFits(d) == d.precision \in 1 .. MaxPrecision /\ d.scale \in 0 .. d.precision

(* Whatever is not known, or does not fit, becomes text. *)
Resolve(d) ==
  [kind |-> IF d.name \in DOMAIN KindOf /\ (d.name = "decimal" => DecimalFits(d))
            THEN KindOf[d.name] ELSE "Text",
   precision |-> d.precision, scale |-> d.scale]

(* arrow_type, and ColumnBuilder::new with the array its builder finishes. *)
ArrowType ==
  [Integer16 |-> "Int16", Integer32 |-> "Int32", Integer64 |-> "Int64",
   Double |-> "Float64", Decimal |-> "Decimal128", Bit |-> "Boolean",
   Date |-> "Date32", Time |-> "Utf8", Timestamp |-> "TimestampUtc",
   Binary |-> "Binary", Text |-> "Utf8"]

Builder ==
  [Integer16 |-> "Int16", Integer32 |-> "Int32", Integer64 |-> "Int64",
   Double |-> "Float64", Decimal |-> "Decimal128", Bit |-> "Boolean",
   Date |-> "Date32", Time |-> "Utf8", Timestamp |-> "TimestampUtc",
   Binary |-> "Binary", Text |-> "Utf8"]

(* The variants each builder takes a value from. *)
Accepts ==
  [Int16 |-> {"I16", "U8"}, Int32 |-> {"I32"}, Int64 |-> {"I64"},
   Float64 |-> {"F64", "F32"}, Decimal128 |-> {"Numeric"}, Boolean |-> {"Bit"},
   Date32 |-> {"Date"}, TimestampUtc |-> {"DateTime2", "DateTimeOffset"},
   Binary |-> {"Binary"}, Utf8 |-> {Wire[name] : name \in DOMAIN Wire}]

-----------------------------------------------------------------------------
(* ColumnBuilder::append.  A conversion gives the set of what is stored,   *)
(* which is empty when the value is refused.                               *)
(*                                                                         *)
(* A definition named after another with a suffix is a variant of it with  *)
(* a plausible mistake: no action uses it, it is there to check that the   *)
(* properties would notice the mistake.                                    *)

NullTyped(type, cell) == cell.null /\ cell.variant \in Accepts[Builder[type.kind]]

(* A NULL is one whichever variant carries it. *)
Null(type, cell) == cell.null

AtScaleRounding(cell, scale) ==
  IF scale < cell.scale THEN {cell.value \div TenTo[cell.scale - scale]}
  ELSE {cell.value * TenTo[scale - cell.scale]}

(* decimal_at_scale: more digits than the column declares are refused, and *)
(* so is what overflows.                                                   *)
AtScale(cell, scale) ==
  IF scale < cell.scale THEN {}
  ELSE {u \in {cell.value * TenTo[scale - cell.scale]} : -WideLimit <= u /\ u < WideLimit}

FitsPrecision(u, precision) == -TenTo[precision] < u /\ u < TenTo[precision]

(* DateTime<Utc> of tiberius takes the offset off once more (external). *)
InstantShifted(cell) == cell.value - cell.offset

(* An instant comes as UTC in units of 100 ns, tagged with its offset:     *)
(* DateTime<FixedOffset> attaches the tag, and to_utc drops it again.      *)
Instant(cell) ==
  LET local == cell.value + cell.offset
  IN local - cell.offset

Micros(cell) == Instant(cell) \div 10

Stored(type, cell) ==
  IF Null(type, cell) THEN {0}
  ELSE IF cell.variant \notin Accepts[Builder[type.kind]] THEN {}
  ELSE IF type.kind = "Decimal"
       THEN {u \in AtScale(cell, type.scale) : FitsPrecision(u, type.precision)}
  ELSE IF type.kind = "Timestamp" THEN {Micros(cell)}
  ELSE IF cell.variant = "DateTimeOffset" THEN {Instant(cell)}
  ELSE {cell.value}

RowFitsOrIsShort(row) == Len(row) <= Len(described)

(* Error::Internal otherwise. *)
RowFits(row) == Len(row) = Len(described)

Convertible(row) ==
  RowFits(row) /\ \A j \in DOMAIN row : Stored(described[j], row[j]) # {}

Converted(row) ==
  [j \in DOMAIN row |->
     [null |-> row[j].null,
      value |-> CHOOSE u \in Stored(described[j], row[j]) : TRUE]]

-----------------------------------------------------------------------------
(* What SQL Server sends for a column, decoded.  A NULL may come as any    *)
(* integer of 64 bits when tiberius does not recognise its width.          *)
Cells(d) ==
  {[null |-> TRUE, variant |-> v, value |-> 0, scale |-> 0, offset |-> 0] :
     v \in {Wire[d.name], "I64"}}
    \cup {[null |-> FALSE, variant |-> Wire[d.name], value |-> n, scale |-> d.scale, offset |-> o] :
            n \in {m \in Numbers : d.name = "decimal" => FitsPrecision(m, d.precision)},
            o \in IF d.name = "datetimeoffset" THEN Offsets ELSE {0}}

Key == Plain("int")
KeyCell == [null |-> FALSE, variant |-> "I32", value |-> 1, scale |-> 0, offset |-> 0]

SentRows ==
  IF Len(columns) = 1 THEN {<<KeyCell>>}
  ELSE IF Len(columns) = 2 THEN {<<KeyCell, c>> : c \in Cells(columns[2])}
  ELSE {<<KeyCell, c, KeyCell>> : c \in Cells(columns[2])}

ColumnsInit ==
  /\ phase = "start"
  /\ columns \in {<<Key, d>> : d \in DeclaredTypes}
  /\ altered = FALSE
  /\ described = <<>>
  /\ rows = <<>>
  /\ built = <<>>

Describe ==
  /\ phase = "start"
  /\ phase' = "described"
  /\ described' = [j \in DOMAIN columns |-> Resolve(columns[j])]
  /\ UNCHANGED <<columns, altered, rows, built>>

(* ALTER TABLE: another type, a column more, or one less. *)
Alter ==
  /\ phase = "described"
  /\ ~altered
  /\ columns' \in {<<Key, d>> : d \in DeclaredTypes}
                    \cup {Append(columns, Key), <<Key>>}
  /\ columns' # columns
  /\ altered' = TRUE
  /\ UNCHANGED <<phase, described, rows, built>>

RunQuery ==
  /\ phase = "described"
  /\ phase' = "fetching"
  /\ UNCHANGED <<columns, altered, described, rows, built>>

(* The first row that cannot be converted fails the batch, and the sync. *)
ConvertRow ==
  /\ phase = "fetching"
  /\ Len(rows) < MaxRows
  /\ \E row \in SentRows :
       /\ rows' = Append(rows, row)
       /\ IF Convertible(row)
          THEN built' = Append(built, Converted(row)) /\ UNCHANGED phase
          ELSE built' = <<>> /\ phase' = "refused"
  /\ UNCHANGED <<columns, altered, described>>

(* RecordBatch::try_new wants the schema's types.  (Delta has no Time64.) *)
Finish ==
  /\ phase = "fetching"
  /\ rows # <<>>
  /\ phase' = IF \A j \in DOMAIN described :
                   Builder[described[j].kind] = ArrowType[described[j].kind]
              THEN "committed" ELSE "refused"
  /\ UNCHANGED <<columns, altered, described, rows, built>>

ColumnsNext == Describe \/ Alter \/ RunQuery \/ ConvertRow \/ Finish

ColumnsSpec == ColumnsInit /\ [][ColumnsNext]_columnVars
-----------------------------------------------------------------------------
(* Properties. *)

(* A batch has the shape of the schema it was started with: every row built *)
(* has as many cells as there were columns described.                      *)
ColumnsTypeOK ==
  /\ phase \in {"start", "described", "fetching", "committed", "refused"}
  /\ altered \in BOOLEAN
  /\ phase # "refused" => Len(built) = Len(rows)
  /\ \A i \in DOMAIN built : Len(built[i]) = Len(described)

Means(type, got, cell) ==
  IF cell.null \/ got.null THEN cell.null = got.null
  ELSE IF type.kind = "Decimal"
       THEN /\ got.value * TenTo[cell.scale] = cell.value * TenTo[type.scale]
            /\ FitsPrecision(got.value, type.precision)
  ELSE IF type.kind = "Timestamp"
       THEN got.value * 10 <= cell.value /\ cell.value < got.value * 10 + 10
  ELSE got.value = cell.value

(* What is committed is what the source sent, though the table may have    *)
(* been altered between the two statements: a decimal has the same value   *)
(* in the digits its column declares, an instant is the same microsecond,  *)
(* before 1970 and whatever its offset from UTC, a NULL is a NULL; anything *)
(* else is refused, never bent (architecture.md, VII.3).                   *)
NothingIsMisread ==
  phase = "committed" =>
    \A i \in DOMAIN rows : \A j \in DOMAIN rows[i] :
      Means(described[j], built[i][j], rows[i][j])

(* A value is refused only when the table was altered: what a column of a   *)
(* type may hold converts, and a type nobody knows degrades to text.       *)
OnlyAlteredTablesAreRefused == phase = "refused" => altered
=============================================================================
