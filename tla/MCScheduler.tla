---------------------------- MODULE MCScheduler ----------------------------
(* Instances of Scheduler for TLC: two tasks, in the task graphs and under  *)
(* the limits that make each property bite.                                 *)
EXTENDS Scheduler

CONSTANTS t1, t2

Both == {t1, t2}
Order == <<t1, t2>>

Bounds(attempts, interventions, sessionEnds, crashes) ==
    [attempts |-> attempts, interventions |-> interventions, sessionEnds |-> sessionEnds,
     crashes |-> crashes]

(* Two independent tasks, room for both, one retry. *)
Plain ==
    [deps |-> [t \in Both |-> {}], parent |-> [t \in Both |-> t],
     resource |-> [t \in Both |-> "none"], team |-> [t \in Both |-> "none"], teamMax |-> 1,
     maxConcurrent |-> 2, maxPerPoll |-> 10, maxRetries |-> 1, reviewRequired |-> FALSE,
     initial |-> [t \in Both |-> {"ready"}], bounds |-> Bounds(2, 0, 0, 0)]

(* Only t1 is in play. *)
Single == [Plain EXCEPT !.initial[t2] = {"cancelled"}]

(* t2 depends on t1, and t1 is a subtask of t2. *)
Chain == [Plain EXCEPT !.deps[t2] = {t1}, !.initial = [t \in Both |-> InitialStatuses]]
Subtask == [Plain EXCEPT !.parent[t1] = t2]

Gates == [Chain EXCEPT !.bounds = Bounds(2, 0, 0, 1)]
GatesAndUser == [Chain EXCEPT !.initial[t1] = {"ready"}, !.bounds = Bounds(1, 1, 0, 0)]
Subtasks == [Subtask EXCEPT !.bounds = Bounds(1, 1, 1, 0)]
OneSlot == [Plain EXCEPT !.maxConcurrent = 1]
OneTeam == [Plain EXCEPT !.team = [t \in Both |-> "team"], !.bounds = Bounds(1, 0, 0, 0)]
Retries == [Single EXCEPT !.maxRetries = 2, !.reviewRequired = TRUE, !.bounds = Bounds(3, 0, 1, 0)]
Reset == [Single EXCEPT !.reviewRequired = TRUE, !.bounds = Bounds(3, 1, 0, 0)]

OneResource == [Plain EXCEPT !.resource = [t \in Both |-> "workspace"], !.maxPerPoll = 1,
                             !.bounds = Bounds(1, 0, 0, 0)]

Safety == {Gates, GatesAndUser, Subtasks, OneSlot, OneTeam, Retries, Reset, OneResource}

Live == {[Single EXCEPT !.bounds = Bounds(2, 1, 1, 1)]}
=============================================================================
