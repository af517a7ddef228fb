---------------------------- MODULE MCTaskFiles ----------------------------
(* Instances of TaskFiles for TLC.  STATUS_DIRS is the code's order; the    *)
(* short order leaves out directories that no request of its runs can fill, *)
(* whose reads never find anything.                                         *)
EXTENDS TaskFiles, TLC

CONSTANTS p1, p2

Order == <<"backlog", "ready", "in-progress", "blocked",
           "review", "done", "cancelled", "deadletter">>
ShortOrder == <<"ready", "in-progress", "blocked", "cancelled">>
ReviewOrder == <<"ready", "in-progress", "blocked", "review", "done", "cancelled">>

To(s) == [op |-> "transition", to |-> s]
Do(op) == [op |-> op, to |-> "ready"]

(* Every call that holds the mutex throughout. *)
LockedCalls == {To("ready"), To("in-progress"), To("review"), To("done"), To("deadletter"),
                Do("cancel"), Do("update"), Do("updateBody"), Do("dep")}

(* Every call, the ones that write outside the mutex included. *)
AllCalls == {To("ready"), To("in-progress"), Do("cancel"), Do("update"), Do("get"),
             Do("renew"), Do("save"), Do("acquire"), Do("block"), Do("unblock"),
             Do("delete"), Do("output")}

(* Calls made one at a time: all but delete(), after which there is no task, *)
(* and writeTaskOutput().                                                    *)
SequentialCalls == (AllCalls \cup LockedCalls) \ {Do("delete"), Do("output")}

(* Two locked calls at a time with a crash at any await, and every call on  *)
(* its own with two crashes.                                                *)
Disciplined == {[requests |-> LockedCalls, overlap |-> 2, calls |-> 4, crashes |-> 1],
                [requests |-> SequentialCalls, overlap |-> 1, calls |-> 3, crashes |-> 2]}

(* Two calls at a time, whatever they are. *)
Free == {[requests |-> AllCalls, overlap |-> 2, calls |-> 3, crashes |-> 0]}

CancelAndGet == {[requests |-> {Do("cancel"), Do("get")}, overlap |-> 2, calls |-> 2, crashes |-> 0]}

Interchangeable == Permutations(Procs)
=============================================================================
