--------------------------- MODULE TaskLifecycle ---------------------------
(* What the task store promises about ONE task, whatever happens to its     *)
(* files: its status starts in backlog or ready and then moves along        *)
(* VALID_TRANSITIONS, or is cancelled out of any status but done and        *)
(* cancelled (cancelTask has its own, wider rule: it also cancels a         *)
(* deadlettered task, which VALID_TRANSITIONS does not allow).              *)
(* TaskFiles, the store at the granularity of file operations, is shown to  *)
(* implement this module.                                                   *)
EXTENDS TaskStatus

VARIABLE status

Init == status \in InitialStatuses

(* store.transition(): the table decides. *)
Transition(to) ==
    /\ isValidTransition(status, to)
    /\ status' = to

(* store.cancel(): anything but done and cancelled. *)
Cancel ==
    /\ status \notin Closed
    /\ status' = "cancelled"

Next == Cancel \/ \E to \in Statuses : Transition(to)

Spec == Init /\ [][Next]_status
=============================================================================
