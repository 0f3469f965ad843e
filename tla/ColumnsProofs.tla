--------------------------- MODULE ColumnsProofs ---------------------------
(***************************************************************************)
(* Theorems about Columns, for 38 digits and 128 bits as for any others:   *)
(* a committed batch holds what the source sent, and only where the table  *)
(* was altered meanwhile is anything refused.                              *)
(***************************************************************************)
EXTENDS Columns, SequenceTheorems, LeastNumbers

USE ColumnsAssumption

-----------------------------------------------------------------------------
(* The recursive function TenTo exists: up to each number there is one     *)
(* such function, any two of them agree, and TenTo takes its values there. *)
Step(n, f) == IF n = 0 THEN 1 ELSE 10 * f[n - 1]

UpTo(n) == {f \in [0 .. n -> Nat] : \A i \in 0 .. n : f[i] = Step(i, f)}

LEMMA UpToAgree ==
  ASSUME NEW m \in Nat, NEW n \in Nat, m <= n, NEW f \in UpTo(m), NEW g \in UpTo(n)
  PROVE  \A i \in 0 .. m : f[i] = g[i]
<1> DEFINE S == {i \in Nat : i <= m => f[i] = g[i]}
<1>1. \A i \in 0 .. m : f[i] = Step(i, f) /\ g[i] = Step(i, g)
  BY DEF UpTo
<1>2. 0 \in S
  BY <1>1 DEF Step
<1>3. ASSUME NEW i \in Nat, i \in S PROVE i + 1 \in S
  <2> SUFFICES ASSUME i + 1 <= m PROVE f[i + 1] = g[i + 1]
    OBVIOUS
  <2>1. f[i + 1] = Step(i + 1, f) /\ g[i + 1] = Step(i + 1, g)
    BY <1>1
  <2>2. (i + 1) - 1 = i /\ i + 1 # 0
    OBVIOUS
  <2>3. f[i] = g[i]
    BY <1>3
  <2> QED BY <2>1, <2>2, <2>3 DEF Step
<1>4. Nat \subseteq S
  <2> HIDE DEF S
  <2> QED BY <1>2, <1>3, EveryNatural
<1> QED BY <1>4

LEMMA UpToExists == \A n \in Nat : UpTo(n) # {}
<1> DEFINE S == {n \in Nat : UpTo(n) # {}}
<1>1. 0 \in S
  <2>1. [i \in 0 .. 0 |-> 1] \in UpTo(0)
    BY DEF UpTo, Step
  <2> QED BY <2>1
<1>2. ASSUME NEW n \in Nat, n \in S PROVE n + 1 \in S
  <2>1. PICK f \in UpTo(n) : TRUE
    BY <1>2
  <2> DEFINE g == [i \in 0 .. n + 1 |-> IF i = n + 1 THEN 10 * f[n] ELSE f[i]]
  <2>2. f \in [0 .. n -> Nat] /\ \A i \in 0 .. n : f[i] = Step(i, f)
    BY DEF UpTo
  <2>3. g \in [0 .. n + 1 -> Nat]
    BY <2>2
  <2>4. ASSUME NEW i \in 0 .. n + 1 PROVE g[i] = Step(i, g)
    <3>1. CASE i = n + 1
      <4>1. g[i] = 10 * f[n] /\ i - 1 = n /\ i # 0 /\ g[i - 1] = f[n]
        BY <3>1
      <4> QED BY <4>1 DEF Step
    <3>2. CASE i # n + 1
      <4>1. i \in 0 .. n /\ g[i] = f[i] /\ (i # 0 => g[i - 1] = f[i - 1])
        BY <3>2
      <4> QED BY <4>1, <2>2 DEF Step
    <3> QED BY <3>1, <3>2
  <2>5. g \in UpTo(n + 1)
    BY <2>3, <2>4 DEF UpTo
  <2> QED BY <2>5
<1>3. Nat \subseteq S
  <2> HIDE DEF S
  <2> QED BY <1>1, <1>2, EveryNatural
<1> QED BY <1>3

LEMMA PowersOfTen ==
  /\ TenTo \in [Nat -> Nat]
  /\ TenTo[0] = 1
  /\ \A n \in Nat : TenTo[n + 1] = 10 * TenTo[n]
<1> DEFINE f == [n \in Nat |-> (CHOOSE g \in UpTo(n) : TRUE)[n]]
<1>1. ASSUME NEW n \in Nat, NEW g \in UpTo(n)
      PROVE  \A i \in 0 .. n : f[i] = g[i]
  <2> SUFFICES ASSUME NEW i \in 0 .. n PROVE f[i] = g[i]
    OBVIOUS
  <2>1. (CHOOSE h \in UpTo(i) : TRUE) \in UpTo(i)
    BY UpToExists
  <2>2. (CHOOSE h \in UpTo(i) : TRUE)[i] = g[i]
    <3>1. i \in Nat /\ i <= n
      OBVIOUS
    <3> QED BY <2>1, <3>1, UpToAgree
  <2> QED BY <2>2
<1>2. \A n \in Nat : f[n] \in Nat /\ f[n] = Step(n, f)
  <2> SUFFICES ASSUME NEW n \in Nat PROVE f[n] \in Nat /\ f[n] = Step(n, f)
    OBVIOUS
  <2>1. PICK g \in UpTo(n) : TRUE
    BY UpToExists
  <2>2. g \in [0 .. n -> Nat] /\ g[n] = Step(n, g)
    BY DEF UpTo
  <2>3. f[n] = g[n] /\ (n # 0 => f[n - 1] = g[n - 1])
    BY <1>1, <2>1
  <2> HIDE DEF f
  <2> QED BY <2>2, <2>3 DEF Step
<1>3. f = [n \in Nat |-> IF n = 0 THEN 1 ELSE 10 * f[n - 1]]
  <2>1. \A n \in Nat : f[n] = IF n = 0 THEN 1 ELSE 10 * f[n - 1]
    BY <1>2 DEF Step
  <2>2. f = [n \in Nat |-> f[n]]
    OBVIOUS
  <2> HIDE DEF f
  <2> QED BY <2>1, <2>2
<1>4. TenTo = CHOOSE h : h = [n \in Nat |-> IF n = 0 THEN 1 ELSE 10 * h[n - 1]]
  BY DEF TenTo
<1>5. TenTo = [n \in Nat |-> IF n = 0 THEN 1 ELSE 10 * TenTo[n - 1]]
  <2> HIDE DEF f
  <2> QED BY <1>3, <1>4
<1>6. \A n \in Nat : TenTo[n] = f[n]
  <2> DEFINE S == {n \in Nat : TenTo[n] = f[n]}
  <2>1. 0 \in S
    <3> HIDE DEF f
    <3>1. TenTo[0] = 1 /\ f[0] = 1
      BY <1>2, <1>5 DEF Step
    <3> QED BY <3>1
  <2>2. ASSUME NEW n \in Nat, n \in S PROVE n + 1 \in S
    <3> HIDE DEF f
    <3>1. (n + 1) - 1 = n /\ n + 1 \in Nat /\ n + 1 # 0
      OBVIOUS
    <3>2. TenTo[n + 1] = 10 * TenTo[n] /\ f[n + 1] = 10 * f[n]
      BY <1>2, <1>5, <3>1 DEF Step
    <3> QED BY <2>2, <3>1, <3>2
  <2>3. Nat \subseteq S
    <3> HIDE DEF S
    <3> QED BY <2>1, <2>2, EveryNatural
  <2> QED BY <2>3
<1> HIDE DEF f
<1>7. TenTo \in [Nat -> Nat]
  <2>1. \A n \in Nat : TenTo[n] \in Nat
    BY <1>2, <1>6
  <2>2. TenTo = [n \in Nat |-> TenTo[n]]
    BY <1>5
  <2> QED BY <2>1, <2>2
<1>8. TenTo[0] = 1
  BY <1>5
<1>9. ASSUME NEW n \in Nat PROVE TenTo[n + 1] = 10 * TenTo[n]
  <2>1. (n + 1) - 1 = n /\ n + 1 \in Nat /\ n + 1 # 0
    OBVIOUS
  <2> QED BY <1>5, <2>1
<1> QED BY <1>7, <1>8, <1>9

LEMMA PowersMultiply ==
  ASSUME NEW m \in Nat, NEW n \in Nat
  PROVE  TenTo[m + n] = TenTo[m] * TenTo[n]
<1> DEFINE S == {i \in Nat : TenTo[m + i] = TenTo[m] * TenTo[i]}
<1>1. \A i \in Nat : TenTo[i] \in Nat /\ TenTo[i + 1] = 10 * TenTo[i]
  BY PowersOfTen
<1>2. 0 \in S
  <2>1. TenTo[m] \in Nat /\ TenTo[0] = 1 /\ m + 0 = m
    BY PowersOfTen
  <2> QED BY <2>1
<1>3. ASSUME NEW i \in Nat, i \in S PROVE i + 1 \in S
  <2> DEFINE a == TenTo[m]
             b == TenTo[i]
             c == TenTo[m + i]
  <2>1. a \in Nat /\ b \in Nat /\ c \in Nat /\ c = a * b
    BY <1>1, <1>3
  <2>2. m + i \in Nat /\ m + (i + 1) = (m + i) + 1
    OBVIOUS
  <2>3. TenTo[m + (i + 1)] = 10 * c /\ TenTo[i + 1] = 10 * b
    BY <1>1, <2>2
  <2> HIDE DEF a, b, c
  <2>4. 10 * (a * b) = a * (10 * b)
    BY <2>1
  <2> QED BY <2>1, <2>3, <2>4 DEF a
<1>4. Nat \subseteq S
  <2> HIDE DEF S
  <2> QED BY <1>2, <1>3, EveryNatural
<1> QED BY <1>4

LEMMA PowersGrow ==
  ASSUME NEW m \in Nat, NEW n \in Nat, m <= n
  PROVE  TenTo[m] <= TenTo[n]
<1> DEFINE S == {i \in Nat : TenTo[m] <= TenTo[m + i]}
<1>1. \A i \in Nat : TenTo[i] \in Nat /\ TenTo[i + 1] = 10 * TenTo[i]
  BY PowersOfTen
<1>2. 0 \in S
  BY <1>1
<1>3. ASSUME NEW i \in Nat, i \in S PROVE i + 1 \in S
  <2>1. m + i \in Nat /\ m + (i + 1) = (m + i) + 1
    OBVIOUS
  <2>2. TenTo[m + (i + 1)] = 10 * TenTo[m + i] /\ TenTo[m + i] \in Nat /\ TenTo[m] \in Nat
    BY <1>1, <2>1
  <2>3. TenTo[m] <= TenTo[m + i]
    BY <1>3
  <2>4. TenTo[m] <= TenTo[m + (i + 1)]
    BY <2>2, <2>3
  <2> QED BY <2>4
<1>4. Nat \subseteq S
  <2> HIDE DEF S
  <2> QED BY <1>2, <1>3, EveryNatural
<1>5. n - m \in Nat /\ m + (n - m) = n
  OBVIOUS
<1>6. n - m \in S
  BY <1>4, <1>5
<1> QED BY <1>5, <1>6

-----------------------------------------------------------------------------
Variants == {Wire[name] : name \in DOMAIN Wire}
CellSet == [null : BOOLEAN, variant : Variants, value : Int, scale : Nat, offset : Int]
BuiltSet == [null : BOOLEAN, value : Int]
Types == {Resolve(d) : d \in DeclaredTypes}
Tables ==
  {<<Key>>} \cup {<<Key, d>> : d \in DeclaredTypes} \cup {<<Key, d, Key>> : d \in DeclaredTypes}

LEMMA Declared ==
  ASSUME NEW d \in DeclaredTypes
  PROVE  /\ d.name \in DOMAIN Wire
         /\ d.precision \in Nat /\ d.scale \in Nat /\ d.precision <= MaxPrecision
         /\ d.name = "decimal" => DecimalFits(d)
<1>1. MaxPrecision \in Nat
  BY DEF ColumnsAssumption
<1>2. CASE \E name \in DOMAIN Wire \ {"decimal"} : d = Plain(name)
  BY <1>1, <1>2 DEF Plain
<1>3. CASE /\ d \in [name : {"decimal"}, precision : 1 .. MaxPrecision, scale : 0 .. MaxPrecision]
           /\ d.scale <= d.precision
  BY <1>1, <1>3 DEF DecimalFits, Wire
<1> QED BY <1>2, <1>3 DEF DeclaredTypes

LEMMA KeyDeclared == Key \in DeclaredTypes /\ KeyCell \in CellSet
<1>1. "int" \in DOMAIN Wire \ {"decimal"}
  BY DEF Wire
<1>2. Key \in DeclaredTypes
  BY <1>1 DEF Key, DeclaredTypes
<1>3. KeyCell \in CellSet
  <2>1. "I32" \in Variants
    BY DEF Variants, Wire
  <2> QED BY <2>1 DEF KeyCell, CellSet
<1> QED BY <1>2, <1>3

LEMMA Resolved ==
  ASSUME NEW type \in Types
  PROVE  /\ type.kind \in DOMAIN Builder
         /\ type.precision \in Nat /\ type.scale \in Nat
<1>1. PICK d \in DeclaredTypes : type = Resolve(d)
  BY DEF Types
<1>2. type.precision = d.precision /\ type.scale = d.scale
  BY <1>1 DEF Resolve
<1>3. type.kind = "Text" \/ (d.name \in DOMAIN KindOf /\ type.kind = KindOf[d.name])
  BY <1>1 DEF Resolve
<1>4. \A name \in DOMAIN KindOf : KindOf[name] \in DOMAIN Builder
  BY DEF KindOf, Builder
<1>5. "Text" \in DOMAIN Builder
  BY DEF Builder
<1> QED BY <1>2, <1>3, <1>4, <1>5, Declared

LEMMA CellsTyped ==
  ASSUME NEW d \in DeclaredTypes
  PROVE  Cells(d) \subseteq CellSet
<1>1. Wire[d.name] \in Variants
  BY Declared DEF Variants
<1>2. Numbers \subseteq Int /\ Offsets \subseteq Int /\ d.scale \in Nat
  BY Declared DEF ColumnsAssumption
<1>3. ASSUME NEW v \in Variants
      PROVE  [null |-> TRUE, variant |-> v, value |-> 0, scale |-> 0, offset |-> 0] \in CellSet
  BY DEF CellSet
<1>4. ASSUME NEW n \in Numbers, NEW o \in Offsets \cup {0}
      PROVE  [null |-> FALSE, variant |-> Wire[d.name], value |-> n, scale |-> d.scale,
              offset |-> o] \in CellSet
  BY <1>1, <1>2 DEF CellSet
<1>5. \A v \in {Wire[d.name], "I64"} : v \in Variants
  BY <1>1 DEF Variants, Wire
<1> QED BY <1>3, <1>4, <1>5 DEF Cells

LEMMA SentTyped ==
  ASSUME columns \in Tables
  PROVE  SentRows \subseteq Seq(CellSet)
<1>1. KeyCell \in CellSet
  BY KeyDeclared
<1>2. Len(columns) # 1 => columns[2] \in DeclaredTypes
  BY DEF Tables
<1>3. Len(columns) # 1 => Cells(columns[2]) \subseteq CellSet
  BY <1>2, CellsTyped
<1>4. \A c \in CellSet :
        <<KeyCell>> \in Seq(CellSet) /\ <<KeyCell, c>> \in Seq(CellSet)
          /\ <<KeyCell, c, KeyCell>> \in Seq(CellSet)
  BY <1>1
<1> SUFFICES ASSUME NEW row \in SentRows PROVE row \in Seq(CellSet)
  OBVIOUS
<1>5. CASE Len(columns) = 1
  BY <1>1, <1>4, <1>5 DEF SentRows
<1>6. CASE Len(columns) # 1
  <2>1. \E c \in Cells(columns[2]) : row = <<KeyCell, c>> \/ row = <<KeyCell, c, KeyCell>>
    BY <1>6 DEF SentRows
  <2> QED BY <1>3, <1>4, <1>6, <2>1
<1> QED BY <1>5, <1>6

-----------------------------------------------------------------------------
(* What is stored of a cell is a number that means the same. *)
LEMMA StoredMeansTheSame ==
  ASSUME NEW type \in Types, NEW cell \in CellSet, NEW u \in Stored(type, cell),
         NEW got, got.null = cell.null, got.value = u
  PROVE  u \in Int /\ Means(type, got, cell)
<1>1. cell.value \in Int /\ cell.scale \in Nat /\ cell.null \in BOOLEAN /\ cell.offset \in Int
  BY DEF CellSet
<1>2. type.scale \in Nat
  BY Resolved
<1>3. Instant(cell) = cell.value
  BY <1>1 DEF Instant
<1>4. CASE cell.null
  BY <1>4 DEF Stored, Null, Means
<1>5. CASE ~cell.null /\ type.kind = "Decimal"
  <2>1. u \in AtScale(cell, type.scale) /\ FitsPrecision(u, type.precision)
    BY <1>5 DEF Stored, Null
  <2>2. type.scale >= cell.scale /\ u = cell.value * TenTo[type.scale - cell.scale]
    BY <1>1, <1>2, <2>1 DEF AtScale
  <2> DEFINE a == TenTo[type.scale - cell.scale]
             b == TenTo[cell.scale]
  <2>3. type.scale - cell.scale \in Nat /\ (type.scale - cell.scale) + cell.scale = type.scale
    BY <1>1, <1>2, <2>2
  <2>4. a \in Nat /\ b \in Nat /\ TenTo[type.scale] = a * b
    BY <1>1, <2>3, PowersOfTen, PowersMultiply
  <2>5. u = cell.value * a
    BY <2>2
  <2> HIDE DEF a, b
  <2>6. u * b = cell.value * (a * b) /\ u \in Int
    BY <1>1, <2>4, <2>5
  <2>7. got.value * b = cell.value * TenTo[type.scale]
    BY <2>4, <2>6
  <2> QED BY <1>5, <2>1, <2>6, <2>7 DEF Means, b
<1>6. CASE ~cell.null /\ type.kind = "Timestamp"
  <2>1. u = cell.value \div 10
    BY <1>6, <1>3 DEF Stored, Null, Micros
  <2>2. u \in Int /\ u * 10 <= cell.value /\ cell.value < u * 10 + 10
    BY <1>1, <2>1
  <2> QED BY <1>6, <2>2 DEF Means
<1>7. CASE ~cell.null /\ type.kind # "Decimal" /\ type.kind # "Timestamp"
  BY <1>1, <1>7, <1>3 DEF Stored, Null, Means
<1> QED BY <1>4, <1>5, <1>6, <1>7

(* Each builder takes the variant that a column of its type is decoded to. *)
LEMMA BuilderAccepts ==
  ASSUME NEW d \in DeclaredTypes
  PROVE  Wire[d.name] \in Accepts[Builder[Resolve(d).kind]]
<1>1. d.name \in DOMAIN Wire /\ (d.name = "decimal" => DecimalFits(d))
  BY Declared
<1>2. CASE d.name \in DOMAIN KindOf
  <2>1. Resolve(d).kind = KindOf[d.name]
    BY <1>1, <1>2 DEF Resolve
  <2>2. \A name \in DOMAIN KindOf : Wire[name] \in Accepts[Builder[KindOf[name]]]
    BY DEF KindOf, Wire, Accepts, Builder
  <2> QED BY <1>2, <2>1, <2>2
<1>3. CASE d.name \notin DOMAIN KindOf
  <2>1. Resolve(d).kind = "Text"
    BY <1>3 DEF Resolve
  <2>2. Accepts[Builder["Text"]] = {Wire[name] : name \in DOMAIN Wire}
    BY DEF Accepts, Builder
  <2> QED BY <1>1, <2>1, <2>2
<1> QED BY <1>2, <1>3

(* What a column of a declared type holds is never refused. *)
LEMMA CellConvertible ==
  ASSUME NEW d \in DeclaredTypes, NEW cell \in Cells(d)
  PROVE  Stored(Resolve(d), cell) # {}
<1>1. CASE cell.null
  BY <1>1 DEF Stored, Null
<1>2. CASE ~cell.null
  <2>1. /\ cell.variant = Wire[d.name] /\ cell.scale = d.scale
        /\ cell.value \in Int
        /\ d.name = "decimal" => FitsPrecision(cell.value, d.precision)
    BY <1>2 DEF Cells, ColumnsAssumption
  <2>2. cell.variant \in Accepts[Builder[Resolve(d).kind]]
    BY <2>1, BuilderAccepts
  <2>3. Resolve(d).scale = d.scale /\ Resolve(d).precision = d.precision
    BY DEF Resolve
  <2>4. CASE Resolve(d).kind = "Decimal"
    <3>1. d.name = "decimal"
      BY <2>4 DEF Resolve, KindOf
    <3>2. d.precision \in Nat /\ d.scale \in Nat /\ d.precision <= MaxPrecision
      BY Declared
    <3>3. TenTo[d.precision] <= TenTo[MaxPrecision] /\ TenTo[MaxPrecision] < WideLimit
      BY <3>2, PowersGrow DEF ColumnsAssumption
    <3>4. TenTo[d.precision] \in Nat /\ TenTo[MaxPrecision] \in Nat /\ WideLimit \in Nat
      BY <3>2, PowersOfTen DEF ColumnsAssumption
    <3>5. -WideLimit <= cell.value /\ cell.value < WideLimit
      BY <2>1, <3>1, <3>3, <3>4 DEF FitsPrecision
    <3>6. d.scale - d.scale = 0 /\ TenTo[0] = 1 /\ ~(d.scale < d.scale)
      BY <3>2, PowersOfTen
    <3>7. cell.value * TenTo[d.scale - cell.scale] = cell.value
      BY <2>1, <3>6
    <3>8. cell.value \in AtScale(cell, d.scale)
      BY <2>1, <3>5, <3>6, <3>7 DEF AtScale
    <3>9. FitsPrecision(cell.value, d.precision)
      BY <2>1, <3>1
    <3>10. cell.value \in Stored(Resolve(d), cell)
      BY <1>2, <2>2, <2>3, <2>4, <3>8, <3>9 DEF Stored, Null
    <3> QED BY <3>10
  <2>5. CASE Resolve(d).kind # "Decimal"
    BY <1>2, <2>2, <2>5 DEF Stored, Null
  <2> QED BY <2>4, <2>5
<1> QED BY <1>1, <1>2

-----------------------------------------------------------------------------
(* The columns described are those the table has, or had before it was     *)
(* altered; what is built is what the rows fetched convert to.             *)
TableInv ==
  /\ phase \in {"start", "described", "fetching", "committed", "refused"}
  /\ altered \in BOOLEAN
  /\ columns \in Tables
  /\ ~altered => \E d \in DeclaredTypes : columns = <<Key, d>>
  /\ described \in Seq(Types)
  /\ phase = "start" => ~altered
  /\ phase # "start" /\ ~altered => described = [j \in DOMAIN columns |-> Resolve(columns[j])]

(* The rows that the columns described take, and what they become. *)
Fitting == {row \in Seq(CellSet) : Convertible(row)}
Result == [row \in Seq(CellSet) |-> Converted(row)]

BatchInv ==
  /\ rows \in Seq(Seq(CellSet))
  /\ built \in Seq(Seq(BuiltSet))
  /\ phase \in {"start", "described"} => rows = <<>>
  /\ phase = "refused" => built = <<>> /\ altered
  /\ phase # "refused" =>
       /\ Len(built) = Len(rows)
       /\ \A i \in DOMAIN rows : rows[i] \in Fitting /\ built[i] = Result[rows[i]]

ColumnsInv == TableInv /\ BatchInv

LEMMA SameColumns ==
  ASSUME UNCHANGED described
  PROVE  UNCHANGED <<Fitting, Result>>
<1>1. Fitting' = Fitting
  BY DEF Fitting, Convertible, RowFits
<1>2. Result' = Result
  BY DEF Result, Converted
<1> QED BY <1>1, <1>2

LEMMA ConvertedCell ==
  ASSUME described \in Seq(Types), NEW row \in Seq(CellSet), Convertible(row), NEW j \in DOMAIN row
  PROVE  /\ described[j] \in Types
         /\ Converted(row)[j] \in BuiltSet
         /\ Means(described[j], Converted(row)[j], row[j])
<1>1. /\ Len(row) = Len(described)
      /\ Stored(described[j], row[j]) # {}
  BY DEF Convertible, RowFits
<1>2. described[j] \in Types /\ row[j] \in CellSet
  BY <1>1
<1> DEFINE u == CHOOSE x \in Stored(described[j], row[j]) : TRUE
           got == [null |-> row[j].null, value |-> u]
<1>3. u \in Stored(described[j], row[j])
  BY <1>1
<1>4. Converted(row)[j] = got
  BY DEF Converted
<1>5. got.null = row[j].null /\ got.value = u
  OBVIOUS
<1> HIDE DEF u
<1>6. u \in Int /\ row[j].null \in BOOLEAN
  BY <1>2, <1>3, <1>5, StoredMeansTheSame DEF CellSet
<1>7. got \in BuiltSet
  BY <1>6 DEF BuiltSet
<1> HIDE DEF got
<1>8. Means(described[j], got, row[j])
  BY <1>2, <1>3, <1>5, StoredMeansTheSame
<1> QED BY <1>2, <1>4, <1>7, <1>8

LEMMA ConvertedRow ==
  ASSUME described \in Seq(Types), NEW row \in Seq(CellSet), Convertible(row)
  PROVE  Converted(row) \in Seq(BuiltSet) /\ Len(Converted(row)) = Len(described)
<1>1. Converted(row) = [j \in 1 .. Len(row) |-> Converted(row)[j]]
  BY DEF Converted
<1>2. \A j \in 1 .. Len(row) : Converted(row)[j] \in BuiltSet
  BY ConvertedCell
<1>3. Len(row) \in Nat /\ Len(row) = Len(described)
  BY DEF Convertible, RowFits
<1>4. Converted(row) \in [1 .. Len(row) -> BuiltSet]
  BY <1>1, <1>2
<1>5. Converted(row) \in Seq(BuiltSet)
  BY <1>3, <1>4
<1>6. Len(Converted(row)) = Len(row)
  BY <1>3, <1>4, <1>5
<1> QED BY <1>3, <1>5, <1>6

(* As long as the table is as it was described, every row it sends fits. *)
LEMMA UnalteredConvertible ==
  ASSUME NEW d \in DeclaredTypes, columns = <<Key, d>>,
         described = [j \in DOMAIN columns |-> Resolve(columns[j])],
         NEW row \in SentRows
  PROVE  Convertible(row)
<1>1. PICK c \in Cells(d) : row = <<KeyCell, c>>
  BY DEF SentRows
<1>2. described = <<Resolve(Key), Resolve(d)>>
  OBVIOUS
<1>3. KeyCell \in Cells(Key) \/ Stored(Resolve(Key), KeyCell) # {}
  <2>1. Resolve(Key).kind = "Integer32"
    BY DEF Resolve, Key, Plain, KindOf
  <2>2. KeyCell.variant \in Accepts[Builder["Integer32"]]
    BY DEF KeyCell, Accepts, Builder
  <2>3. KeyCell.value \in Stored(Resolve(Key), KeyCell)
    BY <2>1, <2>2 DEF Stored, Null, KeyCell
  <2> QED BY <2>3
<1>4. Stored(described[1], row[1]) # {}
  BY <1>1, <1>2, <1>3, KeyDeclared, CellConvertible
<1>5. Stored(described[2], row[2]) # {}
  BY <1>1, <1>2, CellConvertible
<1>6. DOMAIN row = {1, 2} /\ Len(row) = Len(described)
  BY <1>1, <1>2
<1> QED BY <1>4, <1>5, <1>6 DEF Convertible, RowFits

LEMMA ColumnsInitSafe == ColumnsInit => ColumnsInv
<1> SUFFICES ASSUME ColumnsInit PROVE ColumnsInv
  OBVIOUS
<1>1. columns \in {<<Key, d>> : d \in DeclaredTypes}
  BY DEF ColumnsInit
<1>2. TableInv
  <2>1. columns \in Tables /\ \E d \in DeclaredTypes : columns = <<Key, d>>
    BY <1>1 DEF Tables
  <2>2. phase = "start" /\ altered = FALSE /\ described = <<>>
    BY DEF ColumnsInit
  <2>3. described \in Seq(Types)
    BY <2>2
  <2> QED BY <2>1, <2>2, <2>3 DEF TableInv
<1>3. BatchInv
  BY DEF ColumnsInit, BatchInv
<1> QED BY <1>2, <1>3 DEF ColumnsInv

LEMMA DescribeSafe == ColumnsInv /\ Describe => ColumnsInv'
<1> SUFFICES ASSUME ColumnsInv, Describe PROVE ColumnsInv'
  OBVIOUS
<1>1. PICK d \in DeclaredTypes : columns = <<Key, d>>
  BY DEF ColumnsInv, TableInv, Describe
<1>2. described' = <<Resolve(Key), Resolve(d)>>
  BY <1>1 DEF Describe
<1>3. described' \in Seq(Types)
  BY <1>2, KeyDeclared DEF Types
<1>4. rows' = <<>> /\ Len(built') = Len(rows')
  BY DEF ColumnsInv, BatchInv, Describe
<1>5. TableInv'
  BY <1>3 DEF ColumnsInv, TableInv, Describe
<1> QED BY <1>4, <1>5 DEF ColumnsInv, BatchInv, Describe

LEMMA AlterSafe == ColumnsInv /\ Alter => ColumnsInv'
<1> SUFFICES ASSUME ColumnsInv, Alter PROVE ColumnsInv'
  OBVIOUS
<1>1. PICK d \in DeclaredTypes : columns = <<Key, d>>
  BY DEF ColumnsInv, TableInv, Alter
<1>2. Append(columns, Key) = <<Key, d, Key>>
  <2>1. ASSUME NEW S, NEW a \in S, NEW b \in S PROVE Append(<<a, b>>, a) = <<a, b, a>>
    <3> DEFINE s == <<a, b>>
               t == <<a, b, a>>
               u == Append(s, a)
    <3>1. s \in Seq(S) /\ t \in Seq(S) /\ Len(s) = 2 /\ Len(t) = 3
      OBVIOUS
    <3>2. s[1] = t[1] /\ s[2] = t[2] /\ t[3] = a
      OBVIOUS
    <3> HIDE DEF s, t
    <3>3. /\ u \in Seq(S) /\ Len(u) = Len(s) + 1
          /\ u[Len(s) + 1] = a
          /\ \A i \in 1 .. Len(s) : u[i] = s[i]
      <4>1. s \in Seq(S)
        BY <3>1
      <4>2. u \in Seq(S) /\ Len(u) = Len(s) + 1
        BY <4>1, AppendProperties, Zenon
      <4>3. u[Len(s) + 1] = a
        BY <4>1, AppendProperties, ZenonT(30)
      <4>4. ASSUME NEW i \in 1 .. Len(s) PROVE u[i] = s[i]
        BY <4>1
      <4> QED BY <4>2, <4>3, <4>4
    <3> HIDE DEF u
    <3>4. Len(u) = 3 /\ u[3] = a /\ u[1] = s[1] /\ u[2] = s[2]
      BY <3>1, <3>3
    <3>5. \A i \in 1 .. 3 : u[i] = t[i]
      BY <3>2, <3>4
    <3>6. u = t
      BY <3>1, <3>3, <3>4, <3>5, SeqEqual
    <3> QED BY <3>6 DEF s, t, u
  <2> QED BY <1>1, <2>1, KeyDeclared
<1>3. columns' \in Tables
  BY <1>2 DEF Alter, Tables
<1>4. UNCHANGED <<phase, described, rows, built>> /\ altered' /\ phase = "described"
  BY DEF Alter
<1>5. TableInv'
  BY <1>3, <1>4 DEF ColumnsInv, TableInv
<1>6. BatchInv'
  BY <1>4, SameColumns DEF ColumnsInv, BatchInv
<1> QED BY <1>5, <1>6 DEF ColumnsInv

LEMMA ConvertRowSafe == ColumnsInv /\ ConvertRow => ColumnsInv'
<1> SUFFICES ASSUME ColumnsInv, ConvertRow PROVE ColumnsInv'
  OBVIOUS
<1>1. UNCHANGED <<columns, altered, described>> /\ phase = "fetching"
  BY DEF ConvertRow
<1>2. PICK row \in SentRows :
        /\ rows' = Append(rows, row)
        /\ IF Convertible(row)
           THEN built' = Append(built, Converted(row)) /\ UNCHANGED phase
           ELSE built' = <<>> /\ phase' = "refused"
  BY DEF ConvertRow
<1>3. row \in Seq(CellSet) /\ described \in Seq(Types)
  BY SentTyped DEF ColumnsInv, TableInv
<1>4. rows \in Seq(Seq(CellSet)) /\ built \in Seq(Seq(BuiltSet)) /\ Len(built) = Len(rows)
      /\ \A i \in DOMAIN rows : rows[i] \in Fitting /\ built[i] = Result[rows[i]]
  BY <1>1 DEF ColumnsInv, BatchInv
<1>5. rows' \in Seq(Seq(CellSet))
  BY <1>2, <1>3, <1>4
<1>6. CASE Convertible(row)
  <2>1. built' = Append(built, Converted(row)) /\ phase' = phase
    BY <1>2, <1>6
  <2>2. Converted(row) \in Seq(BuiltSet)
    BY <1>3, <1>6, ConvertedRow
  <2>3. built' \in Seq(Seq(BuiltSet)) /\ Len(built') = Len(rows')
    BY <1>2, <1>3, <1>4, <2>1, <2>2
  <2>4. ASSUME NEW i \in DOMAIN rows'
        PROVE  rows'[i] \in Fitting /\ built'[i] = Result[rows'[i]]
    <3>1. CASE i \in DOMAIN rows
      <4>1. rows'[i] = rows[i] /\ built'[i] = built[i]
        BY <1>2, <1>3, <1>4, <2>1, <2>2, <3>1
      <4> QED BY <1>4, <3>1, <4>1
    <3>2. CASE i \notin DOMAIN rows
      <4>1. i = Len(rows) + 1
        BY <1>2, <1>3, <1>4, <3>2
      <4>2. rows'[i] = row /\ built'[i] = Converted(row)
        BY <1>2, <1>3, <1>4, <2>1, <2>2, <4>1
      <4> QED BY <1>3, <1>6, <4>2 DEF Fitting, Result
    <3> QED BY <3>1, <3>2
  <2>5. Fitting' = Fitting /\ Result' = Result
    BY <1>1, SameColumns
  <2>6. TableInv'
    BY <1>1, <2>1 DEF ColumnsInv, TableInv
  <2>7. BatchInv'
    BY <1>1, <1>5, <2>1, <2>3, <2>4, <2>5 DEF BatchInv
  <2> QED BY <2>6, <2>7 DEF ColumnsInv
<1>7. CASE ~Convertible(row)
  <2>1. built' = <<>> /\ phase' = "refused"
    BY <1>2, <1>7
  <2>2. altered
    <3> SUFFICES ASSUME ~altered PROVE FALSE
      BY DEF ColumnsInv, TableInv
    <3>1. PICK d \in DeclaredTypes : columns = <<Key, d>>
      BY DEF ColumnsInv, TableInv
    <3>2. described = [j \in DOMAIN columns |-> Resolve(columns[j])]
      BY <1>1 DEF ColumnsInv, TableInv
    <3> QED BY <1>7, <3>1, <3>2, UnalteredConvertible
  <2>3. TableInv'
    BY <1>1, <2>1, <2>2 DEF ColumnsInv, TableInv
  <2>4. BatchInv'
    BY <1>1, <1>5, <2>1, <2>2 DEF BatchInv
  <2> QED BY <2>3, <2>4 DEF ColumnsInv
<1> QED BY <1>6, <1>7

(* The builders finish the arrays that the schema declares. *)
LEMMA FinishSafe == ColumnsInv /\ Finish => ColumnsInv'
<1> SUFFICES ASSUME ColumnsInv, Finish PROVE ColumnsInv'
  OBVIOUS
<1>1. UNCHANGED <<columns, altered, described, rows, built>> /\ phase = "fetching"
  BY DEF Finish
<1>2. \A kind \in DOMAIN Builder : Builder[kind] = ArrowType[kind]
  BY DEF Builder, ArrowType
<1>3. \A j \in DOMAIN described : described[j].kind \in DOMAIN Builder
  BY Resolved DEF ColumnsInv, TableInv
<1>4. phase' = "committed"
  BY <1>2, <1>3 DEF Finish
<1>5. TableInv'
  BY <1>1, <1>4 DEF ColumnsInv, TableInv
<1>6. BatchInv'
  BY <1>1, <1>4, SameColumns DEF ColumnsInv, BatchInv
<1> QED BY <1>5, <1>6 DEF ColumnsInv

LEMMA ColumnsNextSafe == ColumnsInv /\ [ColumnsNext]_columnVars => ColumnsInv'
<1> SUFFICES ASSUME ColumnsInv, [ColumnsNext]_columnVars PROVE ColumnsInv'
  OBVIOUS
<1>1. CASE UNCHANGED columnVars
  BY <1>1, SameColumns DEF columnVars, ColumnsInv, TableInv, BatchInv
<1>2. CASE RunQuery
  BY <1>2, SameColumns DEF RunQuery, ColumnsInv, TableInv, BatchInv
<1> QED
  BY <1>1, <1>2, DescribeSafe, AlterSafe, ConvertRowSafe, FinishSafe DEF ColumnsNext

-----------------------------------------------------------------------------
(* A batch keeps the shape of the schema it was started with, whatever     *)
(* becomes of the table.                                                   *)
THEOREM ColumnsTypeCorrect == ColumnsSpec => []ColumnsTypeOK
<1>1. ColumnsInv => ColumnsTypeOK
  <2> SUFFICES ASSUME ColumnsInv PROVE ColumnsTypeOK
    OBVIOUS
  <2>1. phase # "refused" => Len(built) = Len(rows)
    BY DEF ColumnsInv, BatchInv
  <2>2. ASSUME NEW i \in DOMAIN built PROVE Len(built[i]) = Len(described)
    <3>1. phase # "refused"
      BY DEF ColumnsInv, BatchInv
    <3>2. i \in DOMAIN rows
      BY <2>1, <3>1 DEF ColumnsInv, BatchInv
    <3>3. rows[i] \in Seq(CellSet) /\ Convertible(rows[i]) /\ built[i] = Converted(rows[i])
      BY <3>1, <3>2 DEF ColumnsInv, BatchInv, Fitting, Result
    <3> QED BY <3>3, ConvertedRow DEF ColumnsInv, TableInv
  <2> QED BY <2>1, <2>2 DEF ColumnsTypeOK, ColumnsInv, TableInv
<1> QED BY ColumnsInitSafe, ColumnsNextSafe, <1>1, PTL DEF ColumnsSpec

(* What is committed means what the source sent, cell by cell, for any     *)
(* number of digits, of rows and of changes to the table in between.       *)
THEOREM CommittedAsSent == ColumnsSpec => []NothingIsMisread
<1>1. ColumnsInv => NothingIsMisread
  <2> SUFFICES ASSUME ColumnsInv, phase = "committed",
                      NEW i \in DOMAIN rows, NEW j \in DOMAIN rows[i]
               PROVE  Means(described[j], built[i][j], rows[i][j])
    BY DEF NothingIsMisread
  <2>1. rows[i] \in Seq(CellSet) /\ Convertible(rows[i]) /\ built[i] = Converted(rows[i])
    BY DEF ColumnsInv, BatchInv, Fitting, Result
  <2> QED BY <2>1, ConvertedCell DEF ColumnsInv, TableInv
<1> QED BY ColumnsInitSafe, ColumnsNextSafe, <1>1, PTL DEF ColumnsSpec

(* A table left as it was described is never refused for what is in it:    *)
(* every value of every type SQL Server declares converts.                 *)
THEOREM DeclaredTypesConvert == ColumnsSpec => []OnlyAlteredTablesAreRefused
<1>1. ColumnsInv => OnlyAlteredTablesAreRefused
  BY DEF ColumnsInv, BatchInv, OnlyAlteredTablesAreRefused
<1> QED BY ColumnsInitSafe, ColumnsNextSafe, <1>1, PTL DEF ColumnsSpec
=============================================================================
