-------------------------------- MODULE Murmur --------------------------------
(* Orchestration reviews of one team: the state file with its counters and the  *)
(* review under way, the evaluation at the end of every poll, the hook that     *)
(* runs after every transition, and the review tasks.                           *)
EXTENDS Naturals, FiniteSets, Sequences

CONSTANTS
    MaxReviews,   \* review tasks a behaviour may create
    Setups        \* records: trigger, threshold, work, failures, race, slow, crashes, busy, ends (see MCOversight)

VARIABLES
    setup,
    file,      \* .murmur/<team>.json
    aged,      \* reviewTimeoutMs has passed since the review began / the interval since it
    tasks,     \* status of the review tasks, by number; "none" when not created
    queue,     \* ready and in-progress tasks of the team besides reviews
    eval,      \* the evaluation: its step, and the state it loaded
    hooks,     \* runs of the hook: what happened, its step, the state it loaded
    since,     \* completions and failures since the last review began (history)
    budget

vars == <<setup, file, aged, tasks, queue, eval, hooks, since, budget>>

Reviews == 1..MaxReviews
HookIds == {1, 2}
Zero == [completions |-> 0, failures |-> 0]
Default == [review |-> 0, started |-> FALSE, last |-> FALSE, completions |-> 0, failures |-> 0]
NoEval == [at |-> "idle", seen |-> Default, review |-> 0]
NoHook == [at |-> "idle", what |-> "none", seen |-> Default]

Init ==
    /\ setup \in Setups /\ file = Default /\ aged = FALSE
    /\ tasks = [r \in Reviews |-> "none"] /\ queue = setup.work + setup.failures
    /\ eval = NoEval /\ hooks = [h \in HookIds |-> NoHook]
    /\ since = Zero
    /\ budget = [work |-> setup.work, failures |-> setup.failures, crashes |-> setup.crashes,
                 busy |-> setup.busy, ends |-> setup.ends]

Spend(kind) == budget[kind] > 0 /\ budget' = [budget EXCEPT ![kind] = @ - 1]
Closed == {"done", "cancelled", "deadletter", "gone"}
Open == {r \in Reviews : tasks[r] \notin Closed \cup {"none"}}

(* --------------------------------- The hook --------------------------------- *)

(* A run of the hook is waiting for a transition's caller. *)
Hook(h, what) == /\ hooks[h].at = "idle" /\ \A g \in HookIds : g < h => hooks[g].at # "idle"
                 /\ hooks' = [hooks EXCEPT ![h] = [NoHook EXCEPT !.at = "lock", !.what = what]]

Completed(h) ==
    /\ Spend("work") /\ queue' = queue - 1 /\ Hook(h, "completed")
    /\ UNCHANGED <<setup, file, aged, tasks, eval, since>>
Failed(h) ==
    /\ Spend("failures") /\ queue' = queue - 1 /\ Hook(h, "failed")
    /\ UNCHANGED <<setup, file, aged, tasks, eval, since>>
(* A review ends: done, given up, or removed without a transition.              *)
ReviewEnds(h, r, how) ==
    /\ tasks[r] = "in-progress" /\ Spend("ends") /\ tasks' = [tasks EXCEPT ![r] = how]
    /\ IF how = "done" THEN Hook(h, "reviewed")
       ELSE IF how = "deadletter" THEN Hook(h, "failed")
       ELSE h = 1 /\ UNCHANGED hooks
    /\ UNCHANGED <<setup, file, aged, queue, eval, since>>

(* The lock is one manager's: the hook's.  The evaluation has another, so its   *)
(* own loads and saves are not kept apart from the hook's (race).               *)
acquireLock(h) ==
    /\ hooks[h].at = "lock" /\ \A g \in HookIds : hooks[g].at # "save"
    /\ setup.race \/ eval.at # "start"

HookLoad(h) ==
    /\ acquireLock(h) /\ hooks' = [hooks EXCEPT ![h].at = "save", ![h].seen = file]
    /\ UNCHANGED <<setup, file, aged, tasks, queue, eval, since, budget>>

(* incrementCompletions, incrementFailures, endReview: what was loaded is       *)
(* written back with one change.                                                *)
HookSave(h) ==
    LET s == hooks[h].seen
    IN  /\ hooks[h].at = "save" /\ hooks' = [hooks EXCEPT ![h] = NoHook]
        /\ CASE hooks[h].what = "completed" ->
                  /\ file' = [s EXCEPT !.completions = @ + 1]
                  /\ since' = [since EXCEPT !.completions = @ + 1]
             [] hooks[h].what = "failed" ->
                  /\ file' = [s EXCEPT !.failures = @ + 1]
                  /\ since' = [since EXCEPT !.failures = @ + 1]
             [] OTHER -> file' = [s EXCEPT !.review = 0, !.started = FALSE] /\ UNCHANGED since
        /\ UNCHANGED <<setup, aged, tasks, queue, eval, budget>>

(* ------------------------------ The evaluation ------------------------------ *)

(* A hook takes less than the time between two polls, unless there is a race.   *)
load ==
    /\ setup.race \/ \A h \in HookIds : hooks[h].what # "reviewed"
    /\ eval.at = "idle" /\ eval' = [NoEval EXCEPT !.at = "cleanup", !.seen = file]
    /\ UNCHANGED <<setup, file, aged, tasks, queue, hooks, since, budget>>

(* Mutation of Stale: a review that only takes too long stays. *)
StaleClosed(s) == s.review # 0 /\ tasks[s.review] \in Closed
(* The review's task is closed, missing or too old. *)
Stale(s) == s.review # 0 /\ (tasks[s.review] \in Closed \/ (setup.slow /\ s.started /\ aged))

(* endReview by the evaluation's manager; the state evaluated next is the one   *)
(* loaded before, so the team is skipped until the following poll.              *)
cleanupStaleReview ==
    /\ eval.at = "cleanup" /\ eval' = [eval EXCEPT !.at = "triggers"]
    /\ setup.race \/ \A h \in HookIds : hooks[h].at # "save"
    /\ file' = IF Stale(eval.seen) THEN [file EXCEPT !.review = 0, !.started = FALSE] ELSE file
    /\ UNCHANGED <<setup, aged, tasks, queue, hooks, since, budget>>

evaluateSingleTrigger(s) ==
    CASE setup.trigger = "queueEmpty" -> queue = 0 /\ {r \in Reviews : tasks[r] \in {"ready", "in-progress"}} = {}
      [] setup.trigger = "completionBatch" -> s.completions >= setup.threshold
      [] setup.trigger = "failureBatch" -> s.failures >= setup.threshold
      [] OTHER -> ~s.last \/ aged
(* Never while a review is in progress. *)
evaluateTriggers(s) == s.review = 0 /\ evaluateSingleTrigger(s)

(* No trigger, or no room: the team is skipped. *)
evaluateSkip ==
    /\ eval.at = "triggers" /\ eval' = NoEval
    /\ IF evaluateTriggers(eval.seen) THEN Spend("busy") ELSE UNCHANGED budget
    /\ UNCHANGED <<setup, file, aged, tasks, queue, hooks, since>>

(* The review task is created, then made ready, and only then recorded. *)
createReview(r) ==
    /\ eval.at = "triggers" /\ evaluateTriggers(eval.seen)
    /\ tasks[r] = "none" /\ \A q \in Reviews : q < r => tasks[q] # "none"
    /\ tasks' = [tasks EXCEPT ![r] = "ready"] /\ eval' = [eval EXCEPT !.at = "created", !.review = r]
    /\ UNCHANGED <<setup, file, aged, queue, hooks, since, budget>>
startReviewLoad ==
    /\ eval.at = "created" /\ eval' = [eval EXCEPT !.at = "start", !.seen = file]
    /\ setup.race \/ \A h \in HookIds : hooks[h].at # "save"
    /\ UNCHANGED <<setup, file, aged, tasks, queue, hooks, since, budget>>
startReview ==
    /\ eval.at = "start" /\ eval' = [eval EXCEPT !.at = "dispatch"]
    /\ file' = [review |-> eval.review, started |-> TRUE, last |-> TRUE, completions |-> 0, failures |-> 0]
    /\ since' = Zero /\ aged' = FALSE
    /\ UNCHANGED <<setup, tasks, queue, hooks, budget>>

(* A lease and a session; when the spawn fails the task is made ready again.    *)
(* Either way the scheduler's own dispatch takes it sooner or later.            *)
Dispatch ==
    /\ eval.at = "dispatch" /\ eval' = NoEval
    /\ tasks' \in {tasks, [tasks EXCEPT ![eval.review] = IF @ = "ready" THEN "in-progress" ELSE @]}
    /\ UNCHANGED <<setup, file, aged, queue, hooks, since, budget>>
NormalDispatch(r) ==
    /\ tasks[r] = "ready" /\ tasks' = [tasks EXCEPT ![r] = "in-progress"]
    /\ UNCHANGED <<setup, file, aged, queue, eval, hooks, since, budget>>

(* reviewTimeoutMs (slow), or the interval, since lastReviewAt. *)
Age ==
    /\ setup.slow \/ setup.trigger = "interval"
    /\ file.last /\ ~aged /\ aged' = TRUE
    /\ UNCHANGED <<setup, file, tasks, queue, eval, hooks, since, budget>>

(* The daemon goes down in the middle; the file and the tasks stay. *)
Crash ==
    /\ Spend("crashes") /\ eval' = NoEval /\ hooks' = [h \in HookIds |-> NoHook]
    /\ UNCHANGED <<setup, file, aged, tasks, queue, since>>

Evaluation ==
    \/ load \/ cleanupStaleReview \/ evaluateSkip \/ startReviewLoad \/ startReview \/ Dispatch
    \/ \E r \in Reviews : createReview(r)
HookStep(h) == HookLoad(h) \/ HookSave(h)
Next ==
    \/ \E h \in HookIds : \/ Completed(h) \/ Failed(h) \/ HookStep(h)
                          \/ \E r \in Reviews, how \in Closed : ReviewEnds(h, r, how)
    \/ Evaluation \/ (\E r \in Reviews : NormalDispatch(r)) \/ Age \/ Crash

(* Polls go on, hooks run to their end, and time passes.                        *)
Fairness == WF_vars(Evaluation) /\ (\A h \in HookIds : WF_vars(HookStep(h))) /\ WF_vars(Age)
Spec == Init /\ [][Next]_vars /\ Fairness

(* -------------------------------- Properties --------------------------------- *)

(* A team has at most one open review, whatever triggers it and however the     *)
(* last one ended - as long as no review runs into its timeout, no hook runs    *)
(* between a load and a save of the evaluation, and the daemon stays up between *)
(* creating a review and recording it (the guard in evaluateTriggers, the hook, *)
(* cleanupStaleReview).                                                         *)
OneReview ==
    (~setup.race /\ setup.crashes = 0 /\ ~setup.slow) => Cardinality(Open) <= 1

(* The counters are the completions and failures since the last review began:   *)
(* none is lost when two hooks run at once, none counted twice (the lock of     *)
(* MurmurStateManager; the reset in startReview).                               *)
CountsKept ==
    (~setup.race /\ setup.crashes = 0) =>
        file.completions = since.completions /\ file.failures = since.failures

BatchDue ==
    /\ setup.slow /\ setup.trigger = "completionBatch" /\ file.completions >= setup.threshold
    /\ tasks[MaxReviews] = "none"
(* A batch that is complete is reviewed: a review that never ends, is cancelled *)
(* or removed does not block the next one for ever (cleanupStaleReview).        *)
BatchReviewed == BatchDue ~> ~BatchDue
=============================================================================
