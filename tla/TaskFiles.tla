----------------------------- MODULE TaskFiles -----------------------------
(* FilesystemTaskStore at the granularity of its file operations, for one   *)
(* task id.  A task is the file tasks/<status>/<id>.md; a status change     *)
(* moves that file between directories in several awaited steps, and other  *)
(* store calls of the same process interleave at every await.               *)
(*                                                                          *)
(* Procs are concurrent store calls.  transition(), cancel(), update(),     *)
(* updateBody(), addDep() and removeDep() run under the per-task mutex      *)
(* (TaskLocks, whose promise chain is the queue lockQ here; the module      *)
(* TaskLocks models the chain itself).  get(), save(), renewLease(),        *)
(* acquireLease(), block(), unblock(), delete() and writeTaskOutput() do    *)
(* not take it, or take it for their last part only.                        *)
(* Different ids never contend, so one id is the general case.              *)
EXTENDS Naturals, Sequences, FiniteSets, TaskStatus

CONSTANTS Procs,       \* concurrent store calls
          Mixes,       \* the ways the store may be used: records [requests, overlap, calls, crashes]
          STATUS_DIRS  \* the status directories in the order get() scans them

Ops == {"transition", "cancel", "update", "updateBody", "dep",
        "get", "renew", "save", "acquire", "block", "unblock", "delete", "output"}

(* Mutation of Locked: the edits are left out of the mutex. *)
LockedMovesOnly == {"transition", "cancel"}

(* The calls that hold the per-task mutex from their first read on. *)
Locked == {"transition", "cancel", "update", "updateBody", "dep"}

Dirs == {STATUS_DIRS[i] : i \in 1..Len(STATUS_DIRS)}

NoDir == "none"

ASSUME ProcsAssumption == NoDir \notin Procs
ASSUME MixesAssumption ==
    Mixes \subseteq [requests : SUBSET [op : Ops, to : Dirs], overlap : Nat, calls : Nat, crashes : Nat]
ASSUME DirsAssumption ==
    /\ STATUS_DIRS \in Seq(Statuses)
    /\ \A i, j \in 1..Len(STATUS_DIRS) : STATUS_DIRS[i] = STATUS_DIRS[j] => i = j
    /\ {"ready", "in-progress", "blocked", "cancelled"} \subseteq Dirs

VARIABLES
    files,      \* directory -> file, for the directories that hold the task
    companions, \* directories that hold the companion directory tasks/<status>/<id>/
    clock,      \* the file system's clock: the last mtime handed out
    lockQ,      \* the mutex: the running call, then the waiting ones, in call order
    pc,         \* per call: where it is
    req,        \* per call: its request
    scan,       \* per call: index of the directory get() reads next
    found,      \* per call: the copies get() has read (directory -> content, stat mtime)
    obj,        \* per call: the in-memory Task object
    result,     \* per call: how the last request ended
    up,         \* the process runs (FALSE: crashed, or init() not finished)
    calls, crashes,
    mix         \* of a behaviour: the requests made [op, to], and bounds on how many of
                \*   them overlap, on all of them and on the crashes of the process

shared == <<files, companions, clock>>
local  == <<pc, req, scan, found, obj, result>>
vars   == <<files, companions, clock, lockQ, pc, req, scan, found, obj, result,
            up, calls, crashes, mix>>

(* A file: its frontmatter (status, lease, and rev standing for every other *)
(* field and the body) and its mtime.                                       *)
File == [status : Statuses, leased : BOOLEAN, rev : Nat, mtime : Nat]

(* A Task object: the frontmatter and the path it was loaded from.          *)
NoTask == [path |-> NoDir]
TaskObj == [path : Dirs, status : Statuses, leased : BOOLEAN, rev : Nat]

NoCopies == [d \in {} |-> NoTask]

PCs == {"idle", "queued", "scan", "stat", "heal", "apply",
        "moveDir", "verify", "unlink", "rename", "cancelDir"}

TypeOK ==
    /\ DOMAIN files \subseteq Dirs
    /\ \A d \in DOMAIN files : files[d] \in File
    /\ companions \subseteq Dirs
    /\ clock \in Nat
    /\ lockQ \in Seq(Procs)
    /\ pc \in [Procs -> PCs]
    /\ req \in [Procs -> [op : Ops, to : Dirs]]
    /\ scan \in [Procs -> 1..(Len(STATUS_DIRS) + 1)]
    /\ \A p \in Procs : /\ DOMAIN found[p] \subseteq Dirs
                        /\ \A d \in DOMAIN found[p] : found[p][d] \in File
    /\ obj \in [Procs -> TaskObj \cup {NoTask}]
    /\ result \in [Procs -> {"none", "ok", "error", "missing"}]
    /\ up \in BOOLEAN
    /\ calls \in 0..mix.calls
    /\ mix \in Mixes
    /\ crashes \in 0..mix.crashes

-----------------------------------------------------------------------------
(* File system primitives (external: node:fs and write-file-atomic). *)

Remove(f, d) == [e \in DOMAIN f \ {d} |-> f[e]]

(* writeFileAtomic: creates the file when it is missing, newest mtime. *)
Put(d, t) ==
    /\ clock' = clock + 1
    /\ files' = [e \in DOMAIN files \cup {d} |->
                    IF e = d THEN [status |-> t.status, leased |-> t.leased,
                                   rev |-> t.rev, mtime |-> clock + 1]
                             ELSE files[e]]

(* rename of a companion directory; the target must not exist (a companion  *)
(* holds inputs/, work/, outputs/ and subtasks/, so it is never empty).     *)
CanMoveDir(from, to) == from \in companions => to \notin companions

MovedDir(from, to) ==
    IF from \in companions /\ to \notin companions
    THEN (companions \ {from}) \cup {to} ELSE companions

Pos(d) == CHOOSE i \in 1..Len(STATUS_DIRS) : STATUS_DIRS[i] = d

(* get()'s sort: newest mtime first, the scan order between equal ones. *)
Newer(m, d, e) == \/ m[d].mtime > m[e].mtime
                  \/ m[d].mtime = m[e].mtime /\ Pos(d) <= Pos(e)

Winner(m) == CHOOSE d \in DOMAIN m : \A e \in DOMAIN m : Newer(m, d, e)

-----------------------------------------------------------------------------
(* A call's local variables before its first read. *)
Fresh(p) ==
    /\ scan' = [scan EXCEPT ![p] = 1]
    /\ found' = [found EXCEPT ![p] = NoCopies]
    /\ obj' = [obj EXCEPT ![p] = NoTask]

(* Mutation of Finish: a call that throws does not hand the mutex on. *)
FinishHoldsOnError(p, r) ==
    /\ pc' = [pc EXCEPT ![p] = "idle"]
    /\ result' = [result EXCEPT ![p] = r]
    /\ lockQ' = IF req[p].op \in Locked /\ r = "ok" THEN Tail(lockQ) ELSE lockQ
    /\ Fresh(p)

(* The end of a call: the mutex goes to the next in line. *)
Finish(p, r) ==
    /\ pc' = [pc EXCEPT ![p] = "idle"]
    /\ result' = [result EXCEPT ![p] = r]
    /\ lockQ' = IF req[p].op \in Locked THEN Tail(lockQ) ELSE lockQ
    /\ Fresh(p)

(* locks.run(): join the mutex queue for a locked call. *)
Enqueue(p) ==
    /\ lockQ' = Append(lockQ, p)
    /\ pc' = [pc EXCEPT ![p] = "queued"]

(* A store call arrives.  One under the mutex waits for its turn; the others *)
(* start reading at once.                                                    *)
Call(p, r) ==
    /\ up /\ pc[p] = "idle" /\ calls < mix.calls
    /\ Cardinality({q \in Procs : pc[q] # "idle"}) < mix.overlap
    /\ calls' = calls + 1
    /\ req' = [req EXCEPT ![p] = r]
    /\ result' = [result EXCEPT ![p] = "none"]
    /\ IF r.op \in Locked
       THEN Enqueue(p)
       ELSE pc' = [pc EXCEPT ![p] = "scan"] /\ UNCHANGED lockQ
    /\ UNCHANGED <<shared, scan, found, obj, up, crashes>>

(* The prior call has settled, successfully or not. *)
Grant(p) ==
    /\ pc[p] = "queued" /\ lockQ # <<>> /\ Head(lockQ) = p
    /\ pc' = [pc EXCEPT ![p] = "scan"]
    /\ UNCHANGED <<shared, lockQ, req, scan, found, obj, result, up, calls, crashes>>

-----------------------------------------------------------------------------
(* get(id): one read per status directory, a stat after each hit. *)

ReadDir(p) ==
    /\ pc[p] = "scan" /\ scan[p] <= Len(STATUS_DIRS)
    /\ LET d == STATUS_DIRS[scan[p]] IN
       IF d \in DOMAIN files
       THEN /\ found' = [found EXCEPT ![p] =
                            [e \in DOMAIN found[p] \cup {d} |->
                                IF e = d THEN files[d] ELSE found[p][e]]]
            /\ pc' = [pc EXCEPT ![p] = "stat"]
            /\ UNCHANGED scan
       ELSE /\ scan' = [scan EXCEPT ![p] = @ + 1]
            /\ UNCHANGED <<pc, found>>
    /\ UNCHANGED <<shared, lockQ, req, obj, result, up, calls, crashes>>

(* stat() of the file just read; a file gone since counts as mtime 0. *)
StatDir(p) ==
    /\ pc[p] = "stat"
    /\ LET d == STATUS_DIRS[scan[p]] IN
       found' = [found EXCEPT ![p][d].mtime =
                    IF d \in DOMAIN files THEN files[d].mtime ELSE 0]
    /\ scan' = [scan EXCEPT ![p] = @ + 1]
    /\ pc' = [pc EXCEPT ![p] = "scan"]
    /\ UNCHANGED <<shared, lockQ, req, obj, result, up, calls, crashes>>

(* Mutation of Settle: the winner stays among the copies to remove. *)
SettleKeepsWinner(p) ==
    /\ pc[p] = "scan" /\ scan[p] > Len(STATUS_DIRS)
    /\ IF DOMAIN found[p] = {}
       THEN UNCHANGED obj
       ELSE LET w == Winner(found[p]) c == found[p][w] IN
            obj' = [obj EXCEPT ![p] = [path |-> w, status |-> c.status,
                                       leased |-> c.leased, rev |-> c.rev]]
    /\ pc' = [pc EXCEPT ![p] = IF Cardinality(DOMAIN found[p]) > 1
                               THEN "heal" ELSE "apply"]
    /\ UNCHANGED <<shared, lockQ, req, scan, found, result, up, calls, crashes>>

(* All directories read: the newest copy is the task, the others are stale. *)
Settle(p) ==
    /\ pc[p] = "scan" /\ scan[p] > Len(STATUS_DIRS)
    /\ IF DOMAIN found[p] = {}
       THEN UNCHANGED <<obj, found>>
       ELSE LET w == Winner(found[p]) c == found[p][w] IN
            /\ obj' = [obj EXCEPT ![p] = [path |-> w, status |-> c.status,
                                          leased |-> c.leased, rev |-> c.rev]]
            /\ found' = [found EXCEPT ![p] = Remove(@, w)]
    /\ pc' = [pc EXCEPT ![p] = IF Cardinality(DOMAIN found[p]) > 1
                               THEN "heal" ELSE "apply"]
    /\ UNCHANGED <<shared, lockQ, req, scan, result, up, calls, crashes>>

(* Self-heal: remove the stale copies one after the other (rm --force). *)
Heal(p) ==
    /\ pc[p] = "heal"
    /\ LET s == Winner(found[p]) IN
       /\ files' = Remove(files, s)
       /\ found' = [found EXCEPT ![p] = Remove(@, s)]
       /\ pc' = [pc EXCEPT ![p] = IF DOMAIN found[p] = {s} THEN "apply" ELSE "heal"]
    /\ UNCHANGED <<companions, clock, lockQ, req, scan, obj, result, up, calls, crashes>>

-----------------------------------------------------------------------------
(* What each call does with the task get() returned. *)

Task(p) == obj[p]
Applying(p, op) == pc[p] = "apply" /\ req[p].op = op
Exists(p) == Task(p).path # NoDir

(* Every mutation throws "Task not found"; get() itself returns undefined.  *)
NotFound(p) ==
    /\ pc[p] = "apply" /\ ~Exists(p)
    /\ Finish(p, "missing")
    /\ UNCHANGED <<shared, req, up, calls, crashes>>

(* transitionTask: already there - the idempotent early return. *)
TransitionNoop(p) ==
    /\ Applying(p, "transition") /\ Exists(p)
    /\ Task(p).status = req[p].to
    /\ Finish(p, "ok")
    /\ UNCHANGED <<shared, req, up, calls, crashes>>

(* The early throws: an invalid transition, a closed task, a wrong status.  *)
Refuses(t, r) ==
    CASE r.op = "transition" -> t.status # r.to /\ ~isValidTransition(t.status, r.to)
      [] r.op = "cancel"     -> t.status \in Closed
      [] r.op = "update"     -> t.status = "done"
      [] r.op = "dep"        -> t.status \in Closed
      [] r.op = "renew"      -> ~t.leased
      [] r.op = "acquire"    -> t.status \notin {"ready", "in-progress"}
      [] r.op = "block"      -> t.status \in {"blocked", "done", "cancelled", "deadletter"}
      [] r.op = "unblock"    -> t.status # "blocked"
      [] OTHER               -> FALSE

Refuse(p) ==
    /\ pc[p] = "apply" /\ Exists(p) /\ Refuses(Task(p), req[p])
    /\ Finish(p, "error")
    /\ UNCHANGED <<shared, req, up, calls, crashes>>

Proceeds(p, op) ==
    /\ Applying(p, op) /\ Exists(p) /\ ~Refuses(Task(p), req[p])

(* transitionTask: the file of the new status is written first.  When that  *)
(* is the file the task was read from (its frontmatter had drifted), the    *)
(* write is the whole transition.                                           *)
WriteNew(p) ==
    /\ Proceeds(p, "transition") /\ Task(p).status # req[p].to
    /\ Put(req[p].to, [status |-> req[p].to,
                       leased |-> Task(p).leased /\ req[p].to \notin LeaseClearing,
                       rev |-> Task(p).rev])
    /\ IF Task(p).path = req[p].to
       THEN Finish(p, "ok")
       ELSE /\ pc' = [pc EXCEPT ![p] = "moveDir"]
            /\ UNCHANGED <<lockQ, scan, found, obj, result>>
    /\ UNCHANGED <<companions, req, up, calls, crashes>>

(* Then the companion directory; when it cannot move, the write is undone.  *)
MoveDir(p) ==
    /\ pc[p] = "moveDir"
    /\ LET from == Task(p).status to == req[p].to IN
       \/ /\ CanMoveDir(from, to)
          /\ companions' = MovedDir(from, to)
          /\ pc' = [pc EXCEPT ![p] = "verify"]
          /\ UNCHANGED <<files, lockQ, result, scan, found, obj>>
       \/ /\ ~CanMoveDir(from, to)
          /\ files' = Remove(files, to)
          /\ Finish(p, "error")
          /\ UNCHANGED companions
    /\ UNCHANGED <<clock, req, up, calls, crashes>>

(* stat() of the new file: when it is not there, the old one stays.         *)
Verify(p) ==
    /\ pc[p] = "verify"
    /\ \/ /\ req[p].to \in DOMAIN files
          /\ pc' = [pc EXCEPT ![p] = "unlink"]
          /\ UNCHANGED <<lockQ, result, scan, found, obj>>
       \/ /\ req[p].to \notin DOMAIN files
          /\ Finish(p, "ok")
    /\ UNCHANGED <<shared, req, up, calls, crashes>>

(* Last, the old file goes (already gone is fine). *)
UnlinkOld(p) ==
    /\ pc[p] = "unlink"
    /\ files' = Remove(files, Task(p).path)
    /\ Finish(p, "ok")
    /\ UNCHANGED <<companions, clock, req, up, calls, crashes>>

(* cancelTask goes the other way: the old file is rewritten with status     *)
(* cancelled and no lease, then renamed, then the companion follows.        *)
WriteCancelled(p) ==
    /\ Proceeds(p, "cancel")
    /\ Put(Task(p).path, [status |-> "cancelled", leased |-> FALSE, rev |-> Task(p).rev])
    /\ IF Task(p).path = "cancelled"
       THEN Finish(p, "ok")
       ELSE /\ pc' = [pc EXCEPT ![p] = "rename"]
            /\ UNCHANGED <<lockQ, scan, found, obj, result>>
    /\ UNCHANGED <<companions, req, up, calls, crashes>>

Rename(p) ==
    /\ pc[p] = "rename"
    /\ LET old == Task(p).path IN
       \/ /\ old \in DOMAIN files
          /\ files' = [e \in (DOMAIN files \ {old}) \cup {"cancelled"} |->
                          IF e = "cancelled" THEN files[old] ELSE files[e]]
          /\ pc' = [pc EXCEPT ![p] = "cancelDir"]
          /\ UNCHANGED <<lockQ, result, scan, found, obj>>
       \/ /\ old \notin DOMAIN files
          /\ Finish(p, "error")
          /\ UNCHANGED files
    /\ UNCHANGED <<companions, clock, req, up, calls, crashes>>

(* Mutation of CancelDir: the companion stays behind. *)
CancelDirForgotten(p) ==
    /\ pc[p] = "cancelDir"
    /\ Finish(p, "ok")
    /\ UNCHANGED <<shared, req, up, calls, crashes>>

CancelDir(p) ==
    /\ pc[p] = "cancelDir"
    /\ companions' = MovedDir(Task(p).status, "cancelled")
    /\ Finish(p, "ok")
    /\ UNCHANGED <<files, clock, req, up, calls, crashes>>

(* update(), updateBody(), addDep(), removeDep(): rewrite in place, locked.  *)
Update(p) ==
    /\ \E op \in {"update", "updateBody", "dep"} : Proceeds(p, op)
    /\ Put(Task(p).path, [Task(p) EXCEPT !.rev = @ + 1])
    /\ Finish(p, "ok")
    /\ UNCHANGED <<companions, req, up, calls, crashes>>

-----------------------------------------------------------------------------
(* The calls that write without the mutex. *)

GetReturns(p) ==
    /\ Proceeds(p, "get")
    /\ Finish(p, "ok")
    /\ UNCHANGED <<shared, req, up, calls, crashes>>

(* renewLease(), and the scheduler's read-modify-save(): write the object   *)
(* back to the path it was read from.                                       *)
SaveBack(p) ==
    /\ Proceeds(p, "save") \/ Proceeds(p, "renew")
    /\ Put(Task(p).path, Task(p))
    /\ Finish(p, "ok")
    /\ UNCHANGED <<companions, req, up, calls, crashes>>

(* The three calls that write in place unlocked and then call transition(): *)
(* acquireLease (which is done when the task is in progress already),       *)
(* blockTask and unblockTask.                                               *)
ThenTransition(p, t, to) ==
    /\ Put(t.path, t)
    /\ req' = [req EXCEPT ![p] = [op |-> "transition", to |-> to]]
    /\ Fresh(p)
    /\ Enqueue(p)
    /\ UNCHANGED <<companions, result, up, calls, crashes>>

Acquire(p) ==
    /\ Proceeds(p, "acquire")
    /\ LET t == [Task(p) EXCEPT !.leased = TRUE] IN
       \/ t.status = "ready" /\ ThenTransition(p, t, "in-progress")
       \/ /\ t.status = "in-progress"
          /\ Put(t.path, t)
          /\ Finish(p, "ok")
          /\ UNCHANGED <<companions, req, up, calls, crashes>>

Block(p) == Proceeds(p, "block") /\ ThenTransition(p, Task(p), "blocked")

Unblock(p) == Proceeds(p, "unblock") /\ ThenTransition(p, Task(p), "ready")

(* delete(): rm of the path that get() returned; a missing file is "false".  *)
Delete(p) ==
    /\ Proceeds(p, "delete")
    /\ files' = Remove(files, Task(p).path)
    /\ Finish(p, IF Task(p).path \in DOMAIN files THEN "ok" ELSE "error")
    /\ UNCHANGED <<companions, clock, req, up, calls, crashes>>

(* writeTaskOutput(): mkdir -p of the companion directory of the status read. *)
WriteOutput(p) ==
    /\ Proceeds(p, "output")
    /\ companions' = companions \cup {Task(p).status}
    /\ Finish(p, "ok")
    /\ UNCHANGED <<files, clock, req, up, calls, crashes>>

-----------------------------------------------------------------------------
(* The process dies between two awaits; init() runs before anything else on *)
(* the next start and moves every file whose frontmatter disagrees with its *)
(* directory (reconcileDrift).                                              *)

Crash ==
    /\ crashes < mix.crashes
    /\ crashes' = crashes + 1
    /\ up' = FALSE
    /\ lockQ' = <<>>
    /\ pc' = [p \in Procs |-> "idle"]
    /\ found' = [p \in Procs |-> NoCopies]
    /\ obj' = [p \in Procs |-> NoTask]
    /\ scan' = [p \in Procs |-> 1]
    /\ result' = [p \in Procs |-> "none"]
    /\ UNCHANGED <<shared, req, calls>>

Mismatched == {d \in DOMAIN files : files[d].status # d}

(* Mutation of Reconcile: the directory wins over the frontmatter. *)
ReconcileToDirectory(d) ==
    /\ ~up /\ d \in Mismatched
    /\ files' = [files EXCEPT ![d].status = d]
    /\ UNCHANGED <<companions, clock, lockQ, local, up, calls, crashes>>

Reconcile(d) ==
    /\ ~up /\ d \in Mismatched /\ files[d].status \in Dirs
    /\ LET to == files[d].status IN
       /\ files' = [e \in (DOMAIN files \ {d}) \cup {to} |->
                       IF e = to THEN files[d] ELSE files[e]]
       /\ companions' = MovedDir(d, to)
    /\ UNCHANGED <<clock, lockQ, local, up, calls, crashes>>

InitDone ==
    /\ ~up /\ Mismatched = {}
    /\ up' = TRUE
    /\ UNCHANGED <<shared, lockQ, local, calls, crashes>>

-----------------------------------------------------------------------------
(* create() has written one file and its companion. *)
Init ==
    /\ \E s \in InitialStatuses \cap Dirs :
          /\ files = [d \in {s} |-> [status |-> s, leased |-> FALSE, rev |-> 0, mtime |-> 1]]
          /\ companions = {s}
    /\ clock = 1
    /\ lockQ = <<>>
    /\ pc = [p \in Procs |-> "idle"]
    /\ req = [p \in Procs |-> [op |-> "get", to |-> "ready"]]
    /\ scan = [p \in Procs |-> 1]
    /\ found = [p \in Procs |-> NoCopies]
    /\ obj = [p \in Procs |-> NoTask]
    /\ result = [p \in Procs |-> "none"]
    /\ up = TRUE
    /\ calls = 0
    /\ crashes = 0
    /\ mix \in Mixes

(* get() as run by a call. *)
Get(p) == ReadDir(p) \/ StatDir(p) \/ Settle(p) \/ Heal(p)

(* The rest of a call. *)
Body(p) ==
    \/ Grant(p) \/ NotFound(p) \/ Refuse(p)
    \/ TransitionNoop(p) \/ WriteNew(p) \/ MoveDir(p) \/ Verify(p) \/ UnlinkOld(p)
    \/ WriteCancelled(p) \/ Rename(p) \/ CancelDir(p)
    \/ Update(p)
    \/ GetReturns(p) \/ SaveBack(p) \/ Acquire(p) \/ Block(p) \/ Unblock(p)
    \/ Delete(p) \/ WriteOutput(p)

Step(p) == Get(p) \/ Body(p)

Next ==
    /\ \/ \E p \in Procs, r \in mix.requests : Call(p, r)
       \/ \E p \in Procs : Step(p)
       \/ Crash
       \/ \E d \in Dirs : Reconcile(d)
       \/ InitDone
    /\ UNCHANGED mix

(* The event loop resumes every call whose awaited promise has settled, and *)
(* a started process finishes init().  Nothing obliges a caller or a crash. *)
Fairness ==
    /\ \A p \in Procs : WF_vars(Step(p) /\ UNCHANGED mix)
    /\ WF_vars(((\E d \in Dirs : Reconcile(d)) \/ InitDone) /\ UNCHANGED mix)

Spec == Init /\ [][Next]_vars /\ Fairness

-----------------------------------------------------------------------------
(* Properties.  The canonical copy is the one get() would settle on.        *)

canonical == files[Winner(files)]

(* The task always exists somewhere: no interleaving of a transition's       *)
(* write, directory move and unlink (transitionTask), of a cancel's write    *)
(* and rename (cancelTask), and of get()'s own removals leaves no copy.      *)
NeverLost == DOMAIN files # {}

(* The per-task mutex keeps the task single-copy: two copies exist only      *)
(* while a transition is between its write and its unlink, or after a crash  *)
(* there, and never more than two.                                           *)
SingleCopy ==
    /\ Cardinality(DOMAIN files) <= 2
    /\ (lockQ = <<>> /\ crashes = 0) => Cardinality(DOMAIN files) = 1

(* The companion directory is where the task is once the calls have settled, *)
(* so getTaskInputs() and getTaskOutputs(), which derive its path from the   *)
(* status, find it.                                                          *)
CompanionFollows ==
    (lockQ = <<>> /\ crashes = 0) => companions = DOMAIN files

(* An edit made by update(), updateBody() or addDep() is never undone by a   *)
(* later write of the other locked calls (lost update).                      *)
EditsKept == [][canonical'.rev >= canonical.rev]_vars

(* done and cancelled are final: as long as the task has a file, no call and *)
(* no crash brings it back (VALID_TRANSITIONS gives both no way out).        *)
ClosedIsFinal ==
    [][(DOMAIN files # {} /\ canonical.status \in Closed /\ DOMAIN files' # {})
          => canonical'.status = canonical.status]_vars

(* Every store call returns: the mutex is always handed on.                  *)
CallsReturn == \A p \in Procs : pc[p] # "idle" ~> pc[p] = "idle"

(* What the store promises its callers, with the canonical status.           *)
LC == INSTANCE TaskLifecycle WITH status <- canonical.status

(* The store implements the task lifecycle: the status the callers see       *)
(* starts in backlog or ready and moves only as VALID_TRANSITIONS and        *)
(* cancelTask allow, at the single file write of the operation, crashes,     *)
(* healing and reconciliation included.                                      *)
ImplementsLifecycle == LC!Spec

(* No call undoes what another has done: edits stay, closed stays closed     *)
(* (the mutex of update, updateBody, addDep; VALID_TRANSITIONS).             *)
NothingUndone == EditsKept /\ ClosedIsFinal

(* A task at rest is in one place, file and companion directory alike        *)
(* (transitionTask, cancelTask and what get() heals).                        *)
InOnePlace == TypeOK /\ SingleCopy /\ CompanionFollows
=============================================================================
