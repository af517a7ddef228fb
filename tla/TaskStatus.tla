----------------------------- MODULE TaskStatus -----------------------------
(* The task status vocabulary of schemas/task.ts: the eight statuses, which *)
(* are also the names of the eight directories under tasks/, and the table  *)
(* of transitions the store enforces.                                       *)

Statuses == {"backlog", "ready", "in-progress", "blocked",
             "review", "done", "cancelled", "deadletter"}

VALID_TRANSITIONS ==
    [s \in Statuses |->
        CASE s = "backlog"     -> {"ready", "blocked", "cancelled"}
          [] s = "ready"       -> {"in-progress", "blocked", "deadletter", "cancelled"}
          [] s = "in-progress" -> {"review", "ready", "blocked", "deadletter", "cancelled"}
          [] s = "blocked"     -> {"ready", "deadletter", "cancelled"}
          [] s = "review"      -> {"done", "in-progress", "blocked", "cancelled"}
          [] s = "deadletter"  -> {"ready"}
          [] OTHER             -> {}]

isValidTransition(from, to) == to \in VALID_TRANSITIONS[from]

(* The statuses cancelTask refuses to cancel, and the ones without a way out. *)
Closed == {"done", "cancelled"}

(* The statuses a task can be created in: create() defaults to backlog and   *)
(* aofDispatch passes initialStatus "ready".                                 *)
InitialStatuses == {"backlog", "ready"}

(* transitionTask drops the lease when a task enters one of these.           *)
LeaseClearing == {"done", "ready", "backlog"}
=============================================================================
