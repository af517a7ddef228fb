------------------------------ MODULE Workflow ------------------------------
(* One workflow task in the hands of the components that touch it: the       *)
(* session-end handler of protocol/router.ts, the hop dispatch and the       *)
(* timeout check of the scheduler's poll, completion reports, the callbacks  *)
(* of ended sessions, users, and crashes.                                    *)
(*                                                                           *)
(* task is the task file (status, hop states, verdict, dispatch failures).   *)
(* A save writes back the whole object its caller read, so a step that saves *)
(* a snapshot overwrites what happened since.  An old object is written to   *)
(* the path it was read from: its status is visible again, because           *)
(* in-progress comes before the later directories in the store's search.     *)
EXTENDS WorkflowDag, TaskStatus

CONSTANTS Setups,        \* what is run: see SetupRecord in MCWorkflow
          Enders,        \* overlapping session-end events
          NoResult       \* there is no run_result.json

(* A definition is a sequence. *)
ASSUME DefinitionsAreSequences == \A s \in Setups : s.def \in Seq({s.def[h] : h \in DOMAIN s.def})

MAX_DISPATCH_FAILURES == 3

VARIABLES
    setup,      \* the definition and the bounds, chosen at the start
    task,       \* the task file
    result,     \* run_result.json: never deleted, so it outlives its hop
    live,       \* agent sessions that run: [id, hop]
    callbacks,  \* ids of sessions whose end is reported to dispatchDAGHop
    nextRun,    \* id of the next session
    ends,       \* session-end handlers: [pc, snap, res, ev, hop]
    poll,       \* the poll's hop dispatch: [pc, snap, hop]
    report,     \* a completion report between its two writes: [pc, outcome]
    lock,       \* holder of the router's lock on the task
    used,       \* how many of each bounded event have happened
    rejected    \* how often each hop has rejected, ever (for the properties)

vars == <<setup, task, result, live, callbacks, nextRun, ends, poll, report, lock, used, rejected>>
procVars == <<ends, poll, report, lock>>

Def == setup.def
IdleEnd == [pc |-> "idle", snap |-> 0, res |-> NoResult, ev |-> 0, hop |-> 0]
IdlePoll == [pc |-> "idle", snap |-> 0, hop |-> 0]
IdleReport == [pc |-> "idle", outcome |-> "none"]

(* With setup.overlap FALSE, a handler starts only when none is under way. *)
Quiet == setup.overlap \/ (poll.pc = "idle" /\ report.pc = "idle" /\ \A e \in Enders : ends[e].pc = "idle")
Spare(what) == used[what] < setup.bounds[what]
Spend(what) == used' = [used EXCEPT ![what] = @ + 1]

Dispatched(t) == Having(t.hops, {"dispatched"})
First(hs) == Min(hs)

(* store.transition: refused when the table has no such edge from the status *)
(* on disk; the caller catches the error.                                    *)
Moved(t, to) == IF isValidTransition(t.status, to) THEN [t EXCEPT !.status = to] ELSE t

Init ==
    /\ setup \in Setups
    /\ validateDAG(setup.def)
    /\ task = [status |-> "in-progress", hops |-> initializeWorkflowState(setup.def),
               dag |-> "running", failures |-> 0]
    /\ result = NoResult
    /\ live = {} /\ callbacks = {} /\ nextRun = 1
    /\ ends = [e \in Enders |-> IdleEnd]
    /\ poll = IdlePoll /\ report = IdleReport /\ lock = "free"
    /\ used = [w \in DOMAIN setup.bounds |-> 0]
    /\ rejected = [h \in Hops(setup.def) |-> 0]

(* --------------------------- Completion report --------------------------- *)

(* handleCompletionReport, under the lock: the result file first, the task's *)
(* transition second.  Authorised senders only: every live agent here is.    *)
ReportWrite(s, outcome, note) ==
    /\ Quiet /\ lock = "free" /\ report.pc = "idle"
    /\ s \in live /\ Spare("reports")
    /\ result' = [outcome |-> outcome, note |-> note, run |-> s.id]
    /\ report' = [pc |-> "apply", outcome |-> outcome]
    /\ lock' = "report" /\ Spend("reports")
    /\ UNCHANGED <<setup, task, live, callbacks, nextRun, ends, poll, rejected>>

ReportTarget(outcome) == IF outcome = "blocked" THEN "blocked" ELSE "review"

ReportApply ==
    /\ report.pc = "apply"
    /\ task' = Moved(task, ReportTarget(report.outcome))
    /\ report' = IdleReport /\ lock' = "free"
    /\ UNCHANGED <<setup, result, live, callbacks, nextRun, ends, poll, used, rejected>>

(* ------------------------------ Session end ------------------------------ *)

(* handleSessionEnd lists the tasks in progress and reads the result before  *)
(* it waits for the lock.  Any session of any task may have ended.           *)
SessionEnd(e) ==
    /\ Quiet /\ ends[e].pc = "idle" /\ Spare("ends")
    /\ task.status = "in-progress" /\ result # NoResult
    /\ ends' = [ends EXCEPT ![e] = [IdleEnd EXCEPT !.pc = "lock", !.snap = task, !.res = result]]
    /\ Spend("ends")
    /\ UNCHANGED <<setup, task, result, live, callbacks, nextRun, poll, report, lock, rejected>>

mapRunResultToHopEvent(outcome, canReject) ==
    CASE outcome = "done" -> "complete"
      [] outcome = "needs_review" -> IF canReject THEN "rejected" ELSE "complete"
      [] OTHER -> "failed"

SavedHops(snap, ev) == [snap EXCEPT !.hops = ev.hops, !.dag = ev.dagStatus]

(* handleDAGHopCompletion works on the task read before the lock. *)
handleDAGHopCompletion(e) ==
    /\ ends[e].pc = "lock" /\ lock = "free"
    /\ LET snap == ends[e].snap
           res == ends[e].res
       IN  IF Dispatched(snap) = {}
           THEN /\ ends' = [ends EXCEPT ![e] = IdleEnd]
                /\ UNCHANGED <<task, lock, rejected>>
           ELSE LET h == First(Dispatched(snap))
                    outcome == mapRunResultToHopEvent(res.outcome, Def[h].canReject)
                    ev == evaluateDAG(Def, snap.hops, h, outcome, res.note, setup.tags)
                IN  /\ task' = SavedHops(snap, ev)
                    /\ ends' = [ends EXCEPT ![e] =
                         [pc |-> "advance", snap |-> SavedHops(snap, ev), res |-> res, hop |-> h,
                          ev |-> [next |-> ev.next, dag |-> ev.dagStatus,
                                  review |-> outcome = "complete" /\ ~Def[h].autoAdvance]]]
                    /\ lock' = "end"
                    /\ rejected' = IF outcome = "rejected" THEN [rejected EXCEPT ![h] = @ + 1]
                                   ELSE rejected
    /\ UNCHANGED <<setup, result, live, callbacks, nextRun, poll, report, used>>

(* The rest of handleSessionEnd: close the task, ask for a review, or go on  *)
(* to the first ready hop.                                                   *)
Advance(e) ==
    /\ ends[e].pc = "advance"
    /\ LET ev == ends[e].ev
           Close(to) == /\ task' = Moved(task, to)
                        /\ ends' = [ends EXCEPT ![e] = IdleEnd]
                        /\ lock' = "free"
       IN  CASE ev.dag # "running" -> Close(IF ends[e].res.outcome = "done" THEN "review" ELSE "blocked")
             [] ev.dag = "running" /\ ev.review -> Close("review")
             [] ev.dag = "running" /\ ~ev.review /\ ev.next # NoHop ->
                    /\ ends' = [ends EXCEPT ![e].pc = "spawn", ![e].hop = ev.next]
                    /\ UNCHANGED <<task, lock>>
             [] OTHER -> /\ ends' = [ends EXCEPT ![e] = IdleEnd]
                         /\ lock' = "free"
                         /\ UNCHANGED task
    /\ UNCHANGED <<setup, result, live, callbacks, nextRun, poll, report, used, rejected>>

(* ------------------------------ Hop dispatch ------------------------------ *)

MarkDispatched(snap, h) ==
    [snap EXCEPT !.hops[h].status = "dispatched", !.hops[h].run = nextRun]

(* dispatchDAGHop after the spawn: only now is the hop marked, on the object *)
(* that was read before it.                                                  *)
dispatchDAGHop(snap, h) ==
    /\ Spare("spawns") /\ Spend("spawns")
    /\ task' = MarkDispatched(snap, h)
    /\ live' = live \cup {[id |-> nextRun, hop |-> h]}
    /\ callbacks' = callbacks \cup {nextRun}
    /\ nextRun' = nextRun + 1

EndSpawned(e) ==
    /\ ends[e].pc = "spawn"
    /\ dispatchDAGHop(ends[e].snap, ends[e].hop)
    /\ ends' = [ends EXCEPT ![e] = IdleEnd] /\ lock' = "free"
    /\ UNCHANGED <<setup, result, poll, report, rejected>>

EndSpawnFails(e) ==
    /\ ends[e].pc = "spawn"
    /\ ends' = [ends EXCEPT ![e] = IdleEnd] /\ lock' = "free"
    /\ UNCHANGED <<setup, task, result, live, callbacks, nextRun, poll, report, used, rejected>>

NoHopOut(t) == Dispatched(t) = {}

(* The poll picks the hop from the list it took at its start ... *)
PollPick ==
    /\ Quiet /\ poll.pc = "idle"
    /\ task.status = "in-progress" /\ NoHopOut(task) /\ Having(task.hops, {"ready"}) # {}
    /\ poll' = [IdlePoll EXCEPT !.pc = "fresh", !.hop = First(Having(task.hops, {"ready"}))]
    /\ UNCHANGED <<setup, task, result, live, callbacks, nextRun, ends, report, lock, used, rejected>>

(* ... and reads the task again, without asking whether that hop is ready. *)
PollFresh ==
    /\ poll.pc = "fresh"
    /\ poll' = IF NoHopOut(task) THEN [poll EXCEPT !.pc = "spawn", !.snap = task] ELSE IdlePoll
    /\ UNCHANGED <<setup, task, result, live, callbacks, nextRun, ends, report, lock, used, rejected>>

PollSpawned ==
    /\ poll.pc = "spawn"
    /\ dispatchDAGHop(poll.snap, poll.hop)
    /\ poll' = IdlePoll
    /\ UNCHANGED <<setup, result, ends, report, lock, rejected>>

PollSpawnFails ==
    /\ poll.pc = "spawn"
    /\ poll' = IdlePoll
    /\ UNCHANGED <<setup, task, result, live, callbacks, nextRun, ends, report, lock, used, rejected>>

(* -------------------------- Timeouts and endings -------------------------- *)

(* Mutation of MayEscalate: only sessions whose end is still awaited. *)
MayEscalateAwaited(h) ==
    /\ task.hops[h].status = "dispatched" /\ Def[h].timeout
    /\ ~task.hops[h].escalated /\ Def[h].escalateTo /\ task.hops[h].run \in callbacks

(* checkHopTimeouts: dispatched, older than its timeout (a matter of time,   *)
(* so always possible), not escalated yet and with a role to escalate to; a  *)
(* hop that fails one of the last two only raises an alert.                  *)
MayEscalate(h) ==
    /\ task.hops[h].status = "dispatched" /\ Def[h].timeout
    /\ ~task.hops[h].escalated /\ Def[h].escalateTo

(* escalateHopTimeout: the old session is forced to complete, whose callback *)
(* marks the hop failed and counts a failure, and the save of the object     *)
(* read before undoes both.  The old agent is not stopped, and the new       *)
(* session has no callback.                                                  *)
escalateHopTimeout(h, spawned) ==
    /\ Quiet /\ poll.pc = "idle" /\ task.status = "in-progress"
    /\ MayEscalate(h)
    /\ callbacks' = callbacks \ {task.hops[h].run}
    /\ IF spawned
       THEN /\ Spare("spawns") /\ Spend("spawns")
            /\ task' = [task EXCEPT !.hops[h].run = nextRun, !.hops[h].escalated = TRUE]
            /\ live' = live \cup {[id |-> nextRun, hop |-> h]}
            /\ nextRun' = nextRun + 1
       ELSE /\ task' = [task EXCEPT !.hops[h].run = 0, !.hops[h].escalated = TRUE,
                                    !.hops[h].status = "ready"]
            /\ UNCHANGED <<live, nextRun, used>>
    /\ UNCHANGED <<setup, result, ends, poll, report, lock, rejected>>

(* The enforcement of onRunComplete: the hop is still dispatched, so its     *)
(* agent left without a word.  The workflow is not evaluated.                *)
Enforced(t, h) ==
    IF t.failures + 1 >= MAX_DISPATCH_FAILURES
    THEN Moved([t EXCEPT !.failures = @ + 1], "deadletter")
    ELSE [t EXCEPT !.failures = @ + 1, !.hops[h].status = "failed"]

(* Mutation of StillOut: every ended session is taken for a walk-out. *)
StillOutAlways(t, h) == TRUE

StillOut(t, h) == t.hops[h].status = "dispatched"

(* An agent's session ends; the callback does not compare the session with  *)
(* the one recorded on the hop.                                             *)
AgentExit(s) ==
    /\ Quiet /\ s \in live /\ Spare("exits") /\ Spend("exits")
    /\ live' = live \ {s}
    /\ callbacks' = callbacks \ {s.id}
    /\ task' = IF s.id \in callbacks /\ StillOut(task, s.hop)
               THEN Enforced(task, s.hop) ELSE task
    /\ UNCHANGED <<setup, result, nextRun, ends, poll, report, lock, rejected>>

(* A user, or the scheduler after one, puts the task back in progress. *)
Resume ==
    /\ Spare("resumes") /\ Spend("resumes")
    /\ task.status \in {"review", "blocked"}
    /\ task' = [task EXCEPT !.status = "in-progress"]
    /\ UNCHANGED <<setup, result, live, callbacks, nextRun, procVars, rejected>>

(* The daemon stops anywhere: handlers and callbacks are gone.  The task is  *)
(* requeued and assigned again, which leaves its hops as they are.           *)
Crash(survivors) ==
    /\ Spare("crashes") /\ Spend("crashes")
    /\ live' = survivors /\ callbacks' = {}
    /\ ends' = [e \in Enders |-> IdleEnd]
    /\ poll' = IdlePoll /\ report' = IdleReport /\ lock' = "free"
    /\ UNCHANGED <<setup, task, result, nextRun, rejected>>

Next ==
    \/ \E s \in live, o \in setup.outcomes, n \in setup.notes : ReportWrite(s, o, n)
    \/ ReportApply
    \/ \E e \in Enders : SessionEnd(e)
    \/ \E e \in Enders : handleDAGHopCompletion(e)
    \/ \E e \in Enders : Advance(e)
    \/ \E e \in Enders : EndSpawned(e)
    \/ \E e \in Enders : EndSpawnFails(e)
    \/ PollPick
    \/ PollFresh
    \/ PollSpawned
    \/ PollSpawnFails
    \/ \E h \in Hops(Def), b \in BOOLEAN : escalateHopTimeout(h, b)
    \/ \E s \in live : AgentExit(s)
    \/ Resume
    \/ \E survivors \in {live, {}} : Crash(survivors)

(* The scheduler polls for ever: a poll runs to its end (a spawn that does   *)
(* not succeed fails), and time passes between polls, so a hop that stays    *)
(* dispatched beyond its timeout is looked at.                               *)
Fairness ==
    /\ WF_vars(PollFresh \/ PollSpawnFails)
    /\ WF_vars(\E h \in Hops(Def) : escalateHopTimeout(h, FALSE))

Spec == Init /\ [][Next]_vars /\ Fairness

(* ------------------------------- Properties ------------------------------- *)

TaskRecord ==
    [status : Statuses, dag : {"running", "complete", "failed"}, failures : Nat,
     hops : [Hops(Def) -> [status : HopStatus, rejectionCount : Nat,
                           escalated : BOOLEAN, run : 0 .. nextRun - 1,
                           note : setup.notes \cup {NoNote}]]]

(* The task file keeps its shape, whoever saves which snapshot of it. *)
TypeOK ==
    /\ task \in TaskRecord
    /\ live \subseteq [id : 1 .. nextRun - 1, hop : Hops(Def)]
    /\ callbacks \subseteq 1 .. nextRun - 1
    /\ lock \in {"free", "report", "end"}

(* A definition that passed validation has no cycle: along the edges no hop  *)
(* reaches itself.                                                           *)
ValidatedIsAcyclic ==
    \A h \in Hops(Def) :
        LET before[n \in 0 .. Len(Def)] ==
              IF n = 0 THEN Def[h].dependsOn
              ELSE before[n - 1] \cup UNION {Def[g].dependsOn : g \in before[n - 1]}
        IN  h \notin before[Len(Def)]

(* "One hop at a time": without overlapping handlers, the poll, session ends *)
(* and escalations never have two hops of a task out at once.                *)
OneHopAtATime == ~setup.overlap => Cardinality(Dispatched(task)) <= 1

(* An agent works on a hop only when the join of the hop is satisfied, and   *)
(* rejections that start over from the origin take no hop out of order.      *)
StartsOver == \A h \in Hops(Def) : Def[h].rejectionStrategy = "origin"
JoinRespected ==
    ~setup.overlap /\ StartsOver =>
        \A h \in Dispatched(task) : ~IsRoot(Def, h) =>
            /\ Def[h].joinType = "any" => \E p \in Def[h].dependsOn : task.hops[p].status = "complete"
            /\ Def[h].joinType = "all" => \A p \in Def[h].dependsOn : task.hops[p].status \in {"complete", "skipped"}

(* The circuit breaker: a workflow with one reviewing hop is sent back at    *)
(* most twice, and the third rejection fails the hop for good, whatever      *)
(* crashes, timeouts and stale results happen in between.                    *)
BreakerHolds ==
    ~setup.overlap /\ Cardinality({h \in Hops(Def) : Def[h].canReject}) <= 1 =>
        \A h \in Hops(Def) : rejected[h] <= DEFAULT_MAX_REJECTIONS

(* No branch is abandoned in silence: as long as no agent has walked out and *)
(* rejections start over from the origin, a hop is not left pending when all *)
(* of its predecessors have failed.                                          *)
CascadeComplete ==
    ~setup.overlap /\ StartsOver /\ task.failures = 0 =>
        \A h \in Having(task.hops, {"pending"}) :
            ~(Def[h].dependsOn \subseteq Having(task.hops, {"failed"}))

(* A workflow with a verdict is over: no session end, poll or late agent     *)
(* moves one of its hops again.                                              *)
FinishedIsFinal ==
    [][~setup.overlap /\ task.dag # "running" => task'.hops = task.hops /\ task'.dag = task.dag]_vars

(* A hop whose agent and whose callbacks died with the daemon does not stay  *)
(* out for ever when it has a timeout and someone to escalate to.            *)
Abandoned(h) ==
    /\ task.status = "in-progress" /\ Def[h].timeout /\ Def[h].escalateTo
    /\ task.hops[h].status = "dispatched" /\ ~task.hops[h].escalated
AbandonedHopEscalated ==
    setup.overlap /\ (\E h \in Hops(Def) : Abandoned(h)) ~> ~(\E h \in Hops(Def) : Abandoned(h))

(* Hops run one at a time and in the order of the graph, and no branch is    *)
(* left behind (validateDAG, evaluateDAG, dispatchDAGHop).                   *)
HopsInOrder ==
    TypeOK /\ ValidatedIsAcyclic /\ OneHopAtATime /\ JoinRespected /\ CascadeComplete

(* A workflow comes to an end and stays there: rejections are limited, and a *)
(* verdict is not reopened by what arrives later (rejectHop, the status      *)
(* checks of handleDAGHopCompletion).                                        *)
VerdictsHold == []BreakerHolds /\ FinishedIsFinal
=============================================================================
