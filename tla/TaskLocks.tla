----------------------------- MODULE TaskLocks -----------------------------
(* The two per-task mutexes of the daemon, both a Map from task id to the   *)
(* promise of the latest caller, each caller awaiting the one before it:    *)
(*   "run"      - TaskLocks.run of store/task-lock.ts, around the store's   *)
(*                status-changing file operations;                          *)
(*   "withLock" - InMemoryTaskLockManager.withLock of protocol/task-lock.ts,*)
(*                around protocol messages and dispatches.                  *)
(* They differ in one order: a "run" waiter resumes when the operation      *)
(* before it settles, whether or not the caller's finally block has cleared *)
(* the slot; a "withLock" waiter awaits the promise that includes it.       *)
(* The map holds the last promise only, so nothing but the prior pointers   *)
(* keeps the callers apart.                                                 *)
EXTENDS Naturals

CONSTANTS Calls,    \* calls of run()/withLock(), each made at most once
          Ids,      \* task ids, those of the two Maps kept apart
          StoreIds, \* the ids in the store's Map; the others are in the router's
          NoCall    \* no promise

ASSUME CallsAssumption == NoCall \notin Calls

(* The mutex whose Map holds the id. *)
Variant(id) == IF id \in StoreIds THEN "run" ELSE "withLock"

VARIABLES inflight, \* the Map: id -> latest registered call, or NoCall
          prior,    \* call -> the call it read from the Map when it arrived
          st,       \* call -> "new", "waiting", "running", "ok", "failed" or "returned"
          key,      \* call -> the id it was made for (NoCall before that)
          ticket,   \* call -> its place in the order of arrival
          arrivals  \* number of calls made

lockVars == <<inflight, prior, st, key, ticket, arrivals>>

LocksTypeOK ==
    /\ inflight \in [Ids -> Calls \cup {NoCall}]
    /\ prior \in [Calls -> Calls \cup {NoCall}]
    /\ st \in [Calls -> {"new", "waiting", "running", "ok", "failed", "returned"}]
    /\ key \in [Calls -> Ids \cup {NoCall}]
    /\ ticket \in [Calls -> Nat]
    /\ arrivals \in Nat

Made(c) == st[c] # "new"
Settled(c) == st[c] \in {"ok", "failed", "returned"}

(* inflight.get(id), and inflight.set(id, ours) in the same tick.  run()     *)
(* starts the operation at once when there is nothing to await.              *)
Arrive(c, id) ==
    /\ st[c] = "new"
    /\ prior' = [prior EXCEPT ![c] = inflight[id]]
    /\ inflight' = [inflight EXCEPT ![id] = c]
    /\ st' = [st EXCEPT ![c] = IF inflight[id] = NoCall /\ Variant(id) = "run"
                               THEN "running" ELSE "waiting"]
    /\ key' = [key EXCEPT ![c] = id]
    /\ ticket' = [ticket EXCEPT ![c] = arrivals]
    /\ arrivals' = arrivals + 1

(* Mutation of Resumable: every waiter starts once some call of its id has   *)
(* settled, not its own predecessor.                                         *)
ResumableAny(c) ==
    prior[c] = NoCall \/ \E d \in Calls : Settled(d) /\ key[d] = key[c]

(* The awaited promise has settled, successfully or not. *)
Resumable(c) ==
    \/ prior[c] = NoCall
    \/ prior[c] # NoCall /\ IF Variant(key[c]) = "run" THEN Settled(prior[c])
                                                      ELSE st[prior[c]] = "returned"

Resume(c) ==
    /\ st[c] = "waiting" /\ Resumable(c)
    /\ st' = [st EXCEPT ![c] = "running"]
    /\ UNCHANGED <<inflight, prior, key, ticket, arrivals>>

(* The operation itself resolves or throws. *)
Settle(c, outcome) ==
    /\ st[c] = "running"
    /\ st' = [st EXCEPT ![c] = outcome]
    /\ UNCHANGED <<inflight, prior, key, ticket, arrivals>>

(* Mutations of Cleanup: the slot is freed whoever holds it; only a success   *)
(* returns.                                                                 *)
CleanupAlways(c) ==
    /\ st[c] \in {"ok", "failed"}
    /\ st' = [st EXCEPT ![c] = "returned"]
    /\ inflight' = [inflight EXCEPT ![key[c]] = NoCall]
    /\ UNCHANGED <<prior, key, ticket, arrivals>>

CleanupOnSuccess(c) ==
    /\ st[c] = "ok"
    /\ st' = [st EXCEPT ![c] = "returned"]
    /\ inflight' = IF inflight[key[c]] = c
                   THEN [inflight EXCEPT ![key[c]] = NoCall] ELSE inflight
    /\ UNCHANGED <<prior, key, ticket, arrivals>>

(* The finally block: free the slot only if it is still ours. *)
Cleanup(c) ==
    /\ st[c] \in {"ok", "failed"}
    /\ st' = [st EXCEPT ![c] = "returned"]
    /\ inflight' = IF inflight[key[c]] = c
                   THEN [inflight EXCEPT ![key[c]] = NoCall] ELSE inflight
    /\ UNCHANGED <<prior, key, ticket, arrivals>>

LocksInit ==
    /\ inflight = [id \in Ids |-> NoCall]
    /\ prior = [c \in Calls |-> NoCall]
    /\ st = [c \in Calls |-> "new"]
    /\ key = [c \in Calls |-> NoCall]
    /\ ticket = [c \in Calls |-> 0]
    /\ arrivals = 0

Progress(c) == Resume(c) \/ Cleanup(c) \/ \E o \in {"ok", "failed"} : Settle(c, o)

(* All calls made and returned: nothing is left to do. *)
Quiet == (\A c \in Calls : st[c] = "returned") /\ UNCHANGED lockVars

LocksNext ==
    \/ \E c \in Calls, id \in Ids : Arrive(c, id)
    \/ \E c \in Calls : Progress(c)
    \/ Quiet

(* The event loop runs every ready continuation, and an operation under the *)
(* lock finishes (file operations do; see the README for spawns).           *)
LocksSpec == LocksInit /\ [][LocksNext]_lockVars /\ \A c \in Calls : WF_lockVars(Progress(c))

-----------------------------------------------------------------------------
(* The operations of one task run one at a time.                            *)
Mutex ==
    \A c, d \in Calls :
        st[c] = "running" /\ st[d] = "running" /\ key[c] = key[d] => c = d

(* ... and in the order the calls were made: when an operation starts, every *)
(* earlier one for the same task has settled.                                *)
Fifo ==
    \A c, d \in Calls :
        (st[c] \notin {"new", "waiting"} /\ Made(d) /\ key[c] = key[d]
            /\ ticket[d] < ticket[c]) => Settled(d)

(* Calls for different ids do not contend: a call only waits for its own id. *)
NoCrossTalk ==
    \A c \in Calls : Made(c) /\ prior[c] # NoCall => key[prior[c]] = key[c]

(* The Map does not leak: once every call made has returned, no slot is held *)
(* (size() is 0).                                                            *)
SlotsFreed ==
    (\A c \in Calls : Made(c) => st[c] = "returned")
        => \A id \in Ids : inflight[id] = NoCall

(* A throwing operation does not jam the chain: every call returns.          *)
EveryCallReturns == \A c \in Calls : Made(c) ~> st[c] = "returned"

(* What callers and the process may rely on: a call waits only for calls of  *)
(* its own id, every call returns, and the map of promises does not grow     *)
(* with the tasks there have been (run, withLock).                           *)
ReturnsAndFrees == []NoCrossTalk /\ EveryCallReturns /\ []SlotsFreed
=============================================================================
