--------------------------- MODULE ProtocolMessages ---------------------------
(* Status updates and handoffs through the protocol router: every message is     *)
(* handled under the router's lock of its task, one store operation after the    *)
(* other, while the scheduler dispatches the task and takes it back without that *)
(* lock. Completion reports are the Scheduler's and the Workflow's.              *)
EXTENDS Naturals, Sequences, TaskStatus

CONSTANTS
    Tasks,
    None,
    Dependents,  \* Tasks -> SUBSET Tasks
    Setups       \* records: msgs (a sequence), start (task records), moves (scheduler
                 \* steps), race (they happen during a handler), cascade (cascadeBlocks)

VARIABLES
    setup,
    task,    \* status, lease, agent (routing), depth (delegationDepth), log (entries
             \* of the body's work log) of the newest copy, the one store.get returns
    dir,     \* the companion directories of a task, by status: None, "empty", or the
             \* agent its inputs/handoff.json names
    queue,   \* by task, the messages in the chain of its lock
    proc,    \* the messages: where the handler is, and the task it read
    moves    \* the scheduler: moves left, and the task whose lease it is acquiring

vars == <<setup, task, dir, queue, proc, moves>>
Messages == 1 .. Len(setup.msgs)
Msg(i) == setup.msgs[i]
Target(i) == Msg(i).task

Init ==
    /\ setup \in Setups
    /\ task = [t \in Tasks |-> setup.start[t]]
    /\ dir = [t \in Tasks |-> [s \in Statuses |-> IF s = setup.start[t].status THEN "empty" ELSE None]]
    /\ queue = [t \in Tasks |-> <<>>]
    /\ proc = [i \in 1 .. Len(setup.msgs) |-> [pc |-> "new", seen |-> None, left |-> {}, of |-> None, logged |-> FALSE]]
    /\ moves = [left |-> setup.moves, pc |-> "idle", of |-> None, seen |-> None]

Goto(i, pc) == proc' = [proc EXCEPT ![i].pc = pc]
(* The chain of a lock goes on whether the handler returned or threw.            *)
Finish(i, threw) ==
    /\ Goto(i, "done") /\ queue' = [queue EXCEPT ![Target(i)] = Tail(queue[Target(i)])]

(* store.transition out of the status from: refused when the table does not have *)
(* it, and rolled back when the companion directory cannot be moved because the  *)
(* target has one.                                                               *)
Refused(t, from, to) == ~isValidTransition(from, to) \/ (dir[t][from] # None /\ dir[t][to] # None)
Moved(rec, to) == [rec EXCEPT !.status = to, !.lease = IF to \in LeaseClearing THEN None ELSE @]
Transition(t, rec, to) ==
    /\ task' = [task EXCEPT ![t] = Moved(rec, to)]
    /\ dir' = IF dir[t][rec.status] = None THEN dir
              ELSE [dir EXCEPT ![t][to] = dir[t][rec.status], ![t][rec.status] = None]

(* route: the task exists; the handler waits for the lock of the task.           *)
route(i) ==
    /\ proc[i].pc = "new" /\ (~setup.race => moves.pc = "idle")
    /\ proc' = [proc EXCEPT ![i].pc = "waiting", ![i].seen = task[Target(i)]]
    /\ queue' = [queue EXCEPT ![Target(i)] = Append(@, i)]
    /\ UNCHANGED <<setup, task, dir, moves>>

(* With the lock the handler reads the task anew.                                *)
begin(i) ==
    /\ proc[i].pc = "waiting" /\ Head(queue[Target(i)]) = i
    /\ proc' = [proc EXCEPT ![i].pc = "read", ![i].seen = task[Target(i)]]
    /\ UNCHANGED <<setup, task, dir, queue, moves>>

(* transitionTask: by the status the handler read; the store decides by the      *)
(* status it finds.                                                              *)
Wants(i, to) == proc[i].seen.status # to /\ isValidTransition(proc[i].seen.status, to)
handleStatusUpdate(i) ==
    LET t == Target(i)  to == Msg(i).status IN
    /\ proc[i].pc = "read" /\ Msg(i).type = "status.update" /\ UNCHANGED <<setup, moves>>
    /\ IF to # None /\ Wants(i, to)
         THEN IF task[t].status = to \/ Refused(t, task[t].status, to)
                THEN Finish(i, task[t].status # to) /\ UNCHANGED <<task, dir>>
                ELSE /\ Transition(t, task[t], to)
                     /\ IF to = "blocked" /\ setup.cascade THEN Goto(i, "list") /\ UNCHANGED queue
                        ELSE Finish(i, FALSE)
         ELSE /\ UNCHANGED <<task, dir>>
              /\ IF Msg(i).note THEN Goto(i, "append") /\ UNCHANGED queue ELSE Finish(i, FALSE)

(* appendWorkLog: the body the handler read and the new entry.                   *)
appendWorkLog(i) ==
    /\ proc[i].pc = "append" /\ UNCHANGED <<setup, dir, moves>>
    /\ task' = [task EXCEPT ![Target(i)].log = proc[i].seen.log \cup {i}]
    /\ proc' = [proc EXCEPT ![i].pc = "done", ![i].logged = TRUE]
    /\ queue' = [queue EXCEPT ![Target(i)] = Tail(@)]

(* cascadeOnBlock: the dependents that are waiting, then store.block for each:   *)
(* without the lock of the dependent it reads the task, writes it back whole     *)
(* with the reason and moves it; it throws for a task that is closed or blocked. *)
listDependents(i) ==
    /\ proc[i].pc = "list" /\ UNCHANGED <<setup, task, dir, queue, moves>>
    /\ proc' = [proc EXCEPT ![i].pc = "cascade",
                            ![i].left = {d \in Dependents[Target(i)] : task[d].status \in {"backlog", "ready"}}]
readDependent(i) ==
    /\ proc[i].pc = "cascade" /\ UNCHANGED <<setup, task, dir, moves>>
    /\ IF proc[i].left = {} THEN Finish(i, FALSE)
       ELSE /\ UNCHANGED queue
            /\ \E d \in proc[i].left :
                 proc' = [proc EXCEPT ![i].pc = "block", ![i].seen = task[d], ![i].of = d]
blockDependent(i) ==
    LET d == proc[i].of  seen == proc[i].seen IN
    /\ proc[i].pc = "block" /\ UNCHANGED <<setup, moves>>
    /\ IF seen.status \in {"blocked", "done", "cancelled", "deadletter"}
         THEN Finish(i, TRUE) /\ UNCHANGED <<task, dir>>
       ELSE IF Refused(d, seen.status, "blocked")
         THEN Finish(i, TRUE) /\ task' = [task EXCEPT ![d] = seen] /\ UNCHANGED dir
       ELSE /\ Transition(d, seen, "blocked") /\ UNCHANGED queue
            /\ proc' = [proc EXCEPT ![i].pc = "cascade", ![i].left = @ \ {d}]

(* Mutation of resolveAuthorizedAgent: the routing decides. *)
resolveByRouting(rec) == IF rec.agent # None THEN rec.agent ELSE rec.lease
resolveAuthorizedAgent(rec) == IF rec.lease # None THEN rec.lease ELSE rec.agent
checkAuthorization(i) == Msg(i).from = resolveAuthorizedAgent(proc[i].seen)

(* handleHandoffRequest: from the agent of the task, and below a task that was   *)
(* not delegated itself; the task is saved as it was read, with its new agent    *)
(* and depth, and the handoff written beside the file that was saved.            *)
handleHandoffRequest(i) ==
    /\ proc[i].pc = "read" /\ Msg(i).type = "handoff.request"
    /\ IF checkAuthorization(i) /\ task[Msg(i).parent].depth = 0
         THEN Goto(i, "save") /\ UNCHANGED queue ELSE Finish(i, FALSE)
    /\ UNCHANGED <<setup, task, dir, moves>>
saveChild(i) ==
    /\ proc[i].pc = "save" /\ Goto(i, "artifact")
    /\ task' = [task EXCEPT ![Target(i)] = [proc[i].seen EXCEPT !.depth = 1, !.agent = Msg(i).to]]
    /\ UNCHANGED <<setup, dir, queue, moves>>
writeHandoffArtifacts(i) ==
    /\ proc[i].pc = "artifact" /\ Finish(i, FALSE)
    /\ dir' = [dir EXCEPT ![Target(i)][proc[i].seen.status] = Msg(i).to]
    /\ UNCHANGED <<setup, task, moves>>

(* handleHandoffAck: an acceptance is logged only, a rejection blocks the task.  *)
handleHandoffAck(i) ==
    LET t == Target(i) IN
    /\ proc[i].pc = "read" /\ Msg(i).type \in {"handoff.accepted", "handoff.rejected"}
    /\ IF /\ checkAuthorization(i) /\ Msg(i).type = "handoff.rejected" /\ Wants(i, "blocked")
          /\ task[t].status # "blocked" /\ ~Refused(t, task[t].status, "blocked")
         THEN Transition(t, task[t], "blocked") ELSE UNCHANGED <<task, dir>>
    /\ Finish(i, Wants(i, "blocked") /\ Refused(t, task[t].status, "blocked"))
    /\ UNCHANGED <<setup, moves>>

(* The scheduler: a dispatch reads the task, writes it back whole with its lease *)
(* and moves it, and only the move has the store's lock; a lease expires.        *)
Turn == moves.pc = "idle" /\ moves.left > 0 /\ (~setup.race => \A u \in Tasks : queue[u] = <<>>)
acquireLease(t) ==
    /\ Turn /\ task[t].status = "ready" /\ task[t].agent # None
    /\ moves' = [left |-> moves.left - 1, pc |-> "write", of |-> t, seen |-> task[t]]
    /\ UNCHANGED <<setup, task, dir, queue, proc>>
writeBack ==
    /\ moves.pc = "write" /\ moves' = [moves EXCEPT !.pc = "move"]
    /\ task' = [task EXCEPT ![moves.of] = [moves.seen EXCEPT !.lease = moves.seen.agent]]
    /\ UNCHANGED <<setup, dir, queue, proc>>
moveLeased ==
    LET t == moves.of IN
    /\ moves.pc = "move" /\ moves' = [moves EXCEPT !.pc = "idle", !.of = None, !.seen = None]
    /\ IF Refused(t, task[t].status, "in-progress") THEN UNCHANGED <<task, dir>>
       ELSE Transition(t, task[t], "in-progress")
    /\ UNCHANGED <<setup, queue, proc>>
expireLeases(t) ==
    /\ Turn /\ moves' = [moves EXCEPT !.left = @ - 1]
    /\ task[t].status = "in-progress" /\ ~Refused(t, "in-progress", "ready")
    /\ Transition(t, task[t], "ready")
    /\ UNCHANGED <<setup, queue, proc>>
Scheduler == writeBack \/ moveLeased \/ \E t \in Tasks : acquireLease(t) \/ expireLeases(t)

Handler(i) ==
    /\ i \in Messages
    /\ \/ begin(i) \/ handleStatusUpdate(i) \/ appendWorkLog(i)
       \/ listDependents(i) \/ readDependent(i) \/ blockDependent(i)
       \/ handleHandoffRequest(i) \/ saveChild(i) \/ writeHandoffArtifacts(i) \/ handleHandoffAck(i)
Next == (\E i \in Messages : route(i) \/ Handler(i)) \/ Scheduler

(* What a cascade and, in a race, a dispatch may write back as they read it.     *)
Overwritten(t) == setup.race \/ (setup.cascade /\ \E u \in Tasks : t \in Dependents[u])
(* A note that was appended stays in the work log, whatever other messages do to *)
(* the task meanwhile (appendWorkLog, router.ts); only those who write a task    *)
(* back without the router's lock, cascades and dispatches, can lose it.         *)
WorkLogKept ==
    \A i \in Messages : proc[i].logged /\ ~Overwritten(Target(i)) => i \in task[Target(i)].log

(* Neither the scheduler nor a cascade works on the task of a handler, which they*)
(* do without the router's lock.                                                 *)
Alone == ~setup.race /\ ~setup.cascade
(* When no handoff is under way, the handoff file beside a task names the agent  *)
(* the task is routed to (handleHandoffRequest).                                 *)
HandoffAgrees ==
    Alone => \A t \in Tasks :
        \/ queue[t] # <<>> \/ dir[t][task[t].status] \in {None, "empty", task[t].agent}

(* A task has one companion directory: with a second one in another status the   *)
(* store could never move the task there (the rollback of store.transition, met  *)
(* after writeHandoffArtifacts).                                                 *)
OneCompanion ==
    Alone => \A t \in Tasks : \E s \in Statuses : \A r \in Statuses \ {s} : dir[t][r] = None

(* A handoff is rejected by whoever holds the task at that moment: the agent of  *)
(* its lease, else the one it is routed to (handleHandoffAck).                   *)
Holder(rec) == IF rec.lease = None THEN rec.agent ELSE rec.lease
AckStep ==
    Alone => \A i \in Messages, t \in Tasks :
        (/\ Msg(i).type = "handoff.rejected" /\ Target(i) = t /\ proc[i].pc = "read" /\ proc'[i].pc = "done"
         /\ task'[t].status # task[t].status) => Msg(i).from = Holder(task[t])

(* Every message that is routed is handled in the end, whatever the handlers     *)
(* before it in the chain of the lock threw (InMemoryTaskLockManager): the first *)
(* of a chain is waiting for its turn or at work.                                *)
MessageHandled ==
    \A t \in Tasks : queue[t] = <<>> \/ proc[Head(queue[t])].pc # "done"
===============================================================================
