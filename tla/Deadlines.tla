----------------------------- MODULE Deadlines -----------------------------
(***************************************************************************)
(* Which awaits of a sync have a deadline.  The server may stop answering  *)
(* for good, with the connection open; storage and the local steps go on.  *)
(* pipeline::with_timeout gives up on the catalog lookup and on the wait   *)
(* for each row after query_timeout_sec, which is taken to be configured.  *)
(***************************************************************************)
EXTENDS TableSync

VARIABLE silent  \* the server has stopped answering

deadlineVars == <<vars, silent>>

(* Phases that await the server, and those of them that do so for a limited *)
(* time: client.query itself is awaited as it is.                          *)
OnServer(w) == run[w].pc \in {"open", "query", "fetch"}
Timed(w) == run[w].pc \in {"open", "fetch"}

DeadlineInit == Init /\ silent = FALSE

Answered(w) ==
  /\ OnServer(w) => ~silent
  /\ SyncStep(w)
  /\ UNCHANGED silent

(* The deadline passes: Error::Query. *)
Expire(w) ==
  /\ silent
  /\ Timed(w)
  /\ EndRun(w)
  /\ UNCHANGED <<sourceVars, targetVars, silent>>

FallSilent ==
  /\ ~silent
  /\ silent' = TRUE
  /\ UNCHANGED vars

DeadlineNext ==
  \/ \E w \in Workers : Answered(w) \/ Expire(w)
  \/ FallSilent
  \/ SourceStep /\ UNCHANGED silent

(* A server that answers does so, storage does, and timers go off. *)
DeadlineSpec ==
  /\ DeadlineInit /\ [][DeadlineNext]_deadlineVars
  /\ \A w \in Workers : WF_deadlineVars(Answered(w)) /\ WF_deadlineVars(Expire(w))
-----------------------------------------------------------------------------
(* Queries have a deadline, so an unattended sync cannot hang for ever      *)
(* against a live production system (architecture.md, VIII): every run ends. *)
EveryRunEnds == \A w \in Workers : ~At(w, "idle") ~> At(w, "idle")
=============================================================================
