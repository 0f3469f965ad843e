------------------------------ MODULE Backfill ------------------------------
(***************************************************************************)
(* Seeding a large table by a bulk load, then handing over to incremental  *)
(* sync: pipeline::source_watermark, an export and a load this library     *)
(* takes no part in, pipeline::set_checkpoint, and TableSync's runs from   *)
(* there on.  Applications write to the source all the while.              *)
(***************************************************************************)
EXTENDS TableSync

VARIABLES
  stage,       \* how far the operator's procedure has come
  watermark,   \* what source_watermark returned, Null for None
  staged,      \* staged[k]: the version of row k in the exported files
  unread,      \* rows the export has not read yet
  outdated     \* the checkpoint changed since set_checkpoint loaded it

loadVars == <<stage, watermark, staged, unread, outdated>>
backfillVars == <<vars, loadVars>>

Stages == {"capture", "export", "load", "handover", "record", "finished"}

NothingStaged == [k \in Keys |-> Absent]

BackfillTypeOK ==
  /\ TypeOK
  /\ stage \in Stages
  /\ watermark \in Nat
  /\ staged \in [Keys -> 0 .. MaxWrites]
  /\ unread \subseteq Keys
  /\ unread # {} => stage = "export"
  /\ \A k \in unread : staged[k] = Absent
  /\ outdated \in BOOLEAN
  /\ outdated => stage = "record"

BackfillInit ==
  /\ Init
  /\ stage = "capture"
  /\ watermark = Null
  /\ staged = NothingStaged
  /\ unread = {}
  /\ outdated = FALSE

Marks == {mark[source[k]] : k \in {j \in Keys : source[j] # Absent}}

SourceMaximumRounded ==
  LET greatest == CHOOSE m \in Marks \cup {Null} : \A n \in Marks : n <= m
  IN IF greatest = Null THEN Null ELSE greatest + 1

(* SELECT MAX(watermark), as render_text gives it: over the rows there are, *)
(* NULLs not counted, and None, here Null, when that leaves nothing.       *)
SourceMaximum ==
  CHOOSE m \in Marks \cup {Null} : \A n \in Marks : n <= m

CaptureWatermark ==
  /\ stage = "capture"
  /\ SourceMaximum # Null
  /\ stage' = "export"
  /\ watermark' = SourceMaximum
  /\ unread' = Keys
  /\ UNCHANGED <<vars, staged, outdated>>

(* Without a watermark there is no handover: the first sync is ordinary.   *)
NoWatermark ==
  /\ stage = "capture"
  /\ SourceMaximum = Null
  /\ stage' = "finished"
  /\ UNCHANGED <<vars, watermark, staged, unread, outdated>>

(* The export is a scan of a live table: rows are read one after another.  *)
ExportRow(k) ==
  /\ stage = "export"
  /\ k \in unread
  /\ staged' = [staged EXCEPT ![k] = source[k]]
  /\ unread' = unread \ {k}
  /\ stage' = IF unread' = {} THEN "load" ELSE "export"
  /\ UNCHANGED <<vars, watermark, outdated>>

(* The files become the Delta table, which was never synced before. *)
LoadTable ==
  /\ stage = "load"
  /\ delta' = staged
  /\ deltaExists' = TRUE
  /\ stage' = "handover"
  /\ UNCHANGED <<sourceVars, ckpt, ckptExists, run, dirty, ckptStale,
                 watermark, staged, unread, outdated>>

(* An export or a load that fails is started over, from its first step. *)
StartOver ==
  /\ stage \in {"export", "load"}
  /\ stage' = "capture"
  /\ watermark' = Null
  /\ staged' = NothingStaged
  /\ unread' = {}
  /\ UNCHANGED <<vars, outdated>>

(* set_checkpoint: merge::open_or_create on the checkpoint table, ... *)
OpenForHandover ==
  /\ stage = "handover"
  /\ stage' = "record"
  /\ ckptExists' = TRUE
  /\ UNCHANGED <<sourceVars, delta, deltaExists, ckpt, run, dirty, ckptStale,
                 watermark, staged, unread, outdated>>

HandedOverAsOfNow == 1 .. clock

(* The value captured, or an earlier one when the operator is not sure. *)
HandedOver == 1 .. watermark

(* ... and the upsert of its row, a conflict for runs that loaded it before. *)
SetCheckpoint ==
  /\ stage = "record"
  /\ ~outdated
  /\ ckpt' \in HandedOver
  /\ ckptStale' = [w \in Workers |-> ckptStale[w] \/ At(w, "commit")]
  /\ stage' = "finished"
  /\ UNCHANGED <<sourceVars, delta, deltaExists, ckptExists, run, dirty,
                 watermark, staged, unread, outdated>>

(* A conflict with a run, or any other failure: the operator calls it again. *)
HandoverFails ==
  /\ stage = "record"
  /\ stage' = "handover"
  /\ outdated' = FALSE
  /\ UNCHANGED <<vars, watermark, staged, unread>>

(* Incremental sync runs once the table is loaded, be it before the value  *)
(* is handed over: it finds no checkpoint then and fetches everything.     *)
Incremental ==
  /\ stage \in {"handover", "record", "finished"}
  /\ \/ \E w \in Workers : SyncStep(w) \/ CheckpointUnreadable(w) \/ Fault(w)
     \/ ForceResync
  /\ outdated' = \/ outdated
                  \/ /\ stage = "record"
                     /\ ForceResync \/ \E w \in Workers : CommitCheckpoint(w)
  /\ UNCHANGED <<stage, watermark, staged, unread>>

BackfillNext ==
  \/ CaptureWatermark \/ NoWatermark
  \/ \E k \in Keys : ExportRow(k)
  \/ LoadTable \/ StartOver
  \/ OpenForHandover \/ SetCheckpoint \/ HandoverFails
  \/ Incremental
  \/ SourceStep /\ UNCHANGED loadVars

BackfillSpec == BackfillInit /\ [][BackfillNext]_backfillVars
-----------------------------------------------------------------------------
(* Properties. *)

(* From the load on, rows whose watermark the captured one has reached are *)
(* in the Delta table as they are at the source, though the export read    *)
(* them one by one while they changed: whatever it read too early or too   *)
(* late carries a later watermark now (operations.md, IV.6).               *)
CaptureCovers ==
  stage \in {"handover", "record", "finished"} => Abs!Covered(watermark)

=============================================================================
