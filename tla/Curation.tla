------------------------------- MODULE Curation -------------------------------
(* Curation tasks of one memory pool: `aof memory curate` creates one when the  *)
(* pool has grown past a threshold, none is open and the interval is over.      *)
EXTENDS Naturals, Sequences

CONSTANTS
    MaxTasks,   \* curation tasks a behaviour may create
    MaxTime,    \* the clock's bound
    MaxCount,   \* entries the pool may have
    Setups      \* records: thresholds, generators, grows, requeues, crashes

VARIABLES
    setup,
    now,
    count,     \* entries of the pool
    tasks,     \* curation tasks, by number: status and lastTransitionAt
    gen,       \* runs of the command: step, entries counted, next status to list, interval, start, task
    budget

vars == <<setup, now, count, tasks, gen, budget>>

openStatuses == <<"backlog", "ready", "in-progress", "blocked", "review">>
Open == {t \in 1..MaxTasks : tasks[t].status \notin {"none", "done", "cancelled", "deadletter"}}
Done == {t \in 1..MaxTasks : tasks[t].status = "done"}
NoGen == [at |-> "idle", n |-> 0, i |-> 1, interval |-> 0, began |-> 0, task |-> 0]

Init ==
    /\ setup \in Setups /\ now = 0 /\ count = 0
    /\ tasks = [t \in 1..MaxTasks |-> [status |-> "none", at |-> 0]]
    /\ gen = [g \in 1..setup.generators |-> NoGen]
    /\ budget = [requeues |-> setup.requeues, crashes |-> setup.crashes]

Spend(kind) == budget[kind] > 0 /\ budget' = [budget EXCEPT ![kind] = @ - 1]
Move(t, s) == tasks' = [tasks EXCEPT ![t] = [status |-> s, at |-> now]]

(* normalizeThresholds: ascending, the open one (null) last; a disabled pool    *)
(* has none.  The highest one exceeded, or 0.                                   *)
selectThreshold(n) ==
    LET over == {i \in DOMAIN setup.thresholds : n > setup.thresholds[i].max}
    IN  IF over = {} THEN 0 ELSE CHOOSE i \in over : \A j \in over : i >= j

(* The command counts the entries of the pool (countFiles), ... *)
curate(g) ==
    /\ gen[g].at = "idle" /\ gen' = [gen EXCEPT ![g].at = "counted", ![g].n = count]
    /\ UNCHANGED <<setup, now, count, tasks, budget>>
(* ... and goes on only beyond a threshold; the time is taken once. *)
generateCurationTasks(g) ==
    /\ gen[g].at = "counted"
    /\ LET i == selectThreshold(gen[g].n)
       IN  gen' = [gen EXCEPT ![g] = IF i = 0 THEN NoGen
                      ELSE [NoGen EXCEPT !.at = "scan", !.began = now, !.interval = setup.thresholds[i].interval]]
    /\ UNCHANGED <<setup, now, count, tasks, budget>>

(* One status after the other is listed; an open task ends the run. *)
hasOpenCurationTask(g) ==
    /\ gen[g].at = "scan"
    /\ LET found == \E t \in 1..MaxTasks : tasks[t].status = openStatuses[gen[g].i]
       IN  gen' = [gen EXCEPT ![g] = IF found THEN NoGen
                                     ELSE IF gen[g].i = Len(openStatuses) THEN [gen[g] EXCEPT !.at = "interval"]
                                     ELSE [gen[g] EXCEPT !.i = @ + 1]]
    /\ UNCHANGED <<setup, now, count, tasks, budget>>

(* Mutation of getLastDoneCurationTask: the earliest. *)
getLastDoneCurationTaskFirst ==
    IF Done = {} THEN 0 ELSE tasks[CHOOSE t \in Done : \A u \in Done : tasks[t].at <= tasks[u].at].at
(* When the latest completion was, or 0. *)
getLastDoneCurationTask ==
    IF Done = {} THEN 0 ELSE tasks[CHOOSE t \in Done : \A u \in Done : tasks[t].at >= tasks[u].at].at
shouldRunBasedOnInterval(g) ==
    /\ gen[g].at = "interval"
    /\ gen' = [gen EXCEPT ![g] = IF Done = {} \/ gen[g].began >= getLastDoneCurationTask + gen[g].interval
                                 THEN [@ EXCEPT !.at = "create"] ELSE NoGen]
    /\ UNCHANGED <<setup, now, count, tasks, budget>>

Create(g, t) ==
    /\ gen[g].at = "create" /\ tasks[t].status = "none" /\ \A u \in 1..(t - 1) : tasks[u].status # "none"
    /\ Move(t, "backlog") /\ gen' = [gen EXCEPT ![g].at = "ready", ![g].task = t]
    /\ UNCHANGED <<setup, now, count, budget>>
MakeReady(g) ==
    /\ gen[g].at = "ready" /\ gen' = [gen EXCEPT ![g] = NoGen]
    /\ IF tasks[gen[g].task].status = "backlog" THEN Move(gen[g].task, "ready") ELSE UNCHANGED tasks
    /\ UNCHANGED <<setup, now, count, budget>>
Crash(g) ==
    /\ gen[g].at # "idle" /\ Spend("crashes") /\ gen' = [gen EXCEPT ![g] = NoGen]
    /\ UNCHANGED <<setup, now, count, tasks>>

(* The scheduler and the curator: a backlog task is promoted, a ready one taken; *)
(* it is done and the pool smaller, given up, or handed back.                    *)
Promote(t) ==
    /\ tasks[t].status = "backlog" /\ Move(t, "ready") /\ UNCHANGED <<setup, now, count, gen, budget>>
Take(t) ==
    /\ tasks[t].status = "ready" /\ Move(t, "in-progress") /\ UNCHANGED <<setup, now, count, gen, budget>>
Finish(t) ==
    /\ tasks[t].status = "in-progress" /\ Move(t, "done") /\ \E n \in 0..count : count' = n
    /\ UNCHANGED <<setup, now, gen, budget>>
GiveUp(t) ==
    /\ tasks[t].status = "in-progress" /\ Move(t, "deadletter") /\ UNCHANGED <<setup, now, count, gen, budget>>
Requeue(t) ==
    /\ tasks[t].status = "in-progress" /\ Spend("requeues") /\ Move(t, "ready")
    /\ UNCHANGED <<setup, now, count, gen>>

Grow == count < MaxCount /\ count' = count + 1 /\ UNCHANGED <<setup, now, tasks, gen, budget>>
Tick == now < MaxTime /\ now' = now + 1 /\ UNCHANGED <<setup, count, tasks, gen, budget>>

Generator(g) ==
    \/ curate(g) \/ generateCurationTasks(g) \/ hasOpenCurationTask(g) \/ shouldRunBasedOnInterval(g) \/ MakeReady(g)
    \/ \E t \in 1..MaxTasks : Create(g, t)
Curator(t) == Promote(t) \/ Take(t) \/ Finish(t) \/ GiveUp(t)
Next ==
    \/ \E g \in DOMAIN gen : Generator(g) \/ Crash(g)
    \/ (\E t \in 1..MaxTasks : Curator(t) \/ Requeue(t)) \/ Grow \/ Tick
Spec == Init /\ [][Next]_vars

(* -------------------------------- Properties --------------------------------- *)

(* A pool has at most one open curation task, with one run of the command at a  *)
(* time and no task handed back in the middle of its scan, also when a run dies *)
(* between creating the task and making it ready (hasOpenCurationTask).         *)
OneOpen == (setup.generators = 1 /\ setup.requeues = 0) => \A t, u \in Open : t = u

IntervalStep ==
    (setup.generators = 1 /\ setup.requeues = 0 /\ gen[1].at = "create" /\ gen'[1].at = "ready")
        => \A d \in Done : now >= tasks[d].at + gen[1].interval
(* A task is created no earlier than one interval after the latest completion,  *)
(* the interval being the one of the threshold selected at the start             *)
(* (getLastDoneCurationTask, shouldRunBasedOnInterval).                         *)
IntervalKept == [][IntervalStep]_vars
=============================================================================
