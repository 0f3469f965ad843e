-------------------------- MODULE MCConfiguration --------------------------
(* A small instance of Configuration for TLC. *)
EXTENDS Configuration

Tables == {<<"db1", "dbo", "c">>, <<"db1", "app", "c">>, <<"db2", "dbo", "c">>}
IdAndAt == {"id", "at"}

SmallLetters ==
  [name \in {"id", "at", "ID", "no", "a b", "", "group"} |->
     IF name = "ID" THEN "id" ELSE name]

BlankNames == {""}
UnsafeNames == {"", "a b"}
Reserved == {"group"}
Scales == [at |-> 0, id |-> 2]

Setup(database, schema, output, checkpoints) ==
  [database |-> database, schema |-> schema, output |-> output, checkpoints |-> checkpoints]

Job(setup, tables, watermark, keys) ==
  [setup |-> setup,
   entries |-> [i \in DOMAIN tables |->
                  [table |-> tables[i], watermark |-> watermark, keys |-> keys]]]

Here == Setup("db1", "app", "out", "NoUri")

(* Three ways to name tables, of one database and of two; another column,  *)
(* database or output for a table; and settings with a mistake.            *)
SomeJobs ==
  {Job(Here, <<<<"c">>, <<"dbo", "c">>>>, "at", {"ID"}),
   Job(Here, <<<<"dbo", "c">>, <<"db2", "dbo", "c">>>>, "id", {"id"}),
   Job(Here, <<<<"dbo", "c">>>>, "at", {"id", "no"}),
   Job(Setup("db2", "dbo", "out", "ck"), <<<<"dbo", "c">>>>, "at", {"id"}),
   Job(Setup("db1", "dbo", "out2", "ck"), <<<<"dbo", "c">>>>, "at", {"id"}),
   Job(Setup("db1", "dbo", "", "NoUri"), <<<<"c">>>>, "at", {"id", ""}),
   Job(Here, <<<<"c">>, <<"a b">>>>, "at", {"id"}),
   Job(Here, <<<<"a", "b", "c", "d">>>>, "at", {"id"}),
   Job(Here, <<<<"c">>, <<"c">>>>, "at", {"id"}),
   Job(Here, <<<<"c">>>>, "", {"id"}),
   Job(Here, <<>>, "at", {"id"})}

ASSUME NoNameIsTheRoot
=============================================================================
